---------------------------- MODULE ServerStartup ----------------------------
(***************************************************************************)
(* Server::startup once the socket is there: the exchange of messages in   *)
(* which pgcat logs in at Postgres, by trust, MD5 or SCRAM-SHA-256, and    *)
(* collects the parameters and the key of the backend (server.rs,          *)
(* scram.rs).  The backend at the other end is external; its cryptography, *)
(* and pgcat's, is free of collisions.                                     *)
(*                                                                         *)
(* The actions here say nothing of the variables of other modules.         *)
(***************************************************************************)
EXTENDS Naturals, Sequences

CONSTANTS
  None,
  Params,      \* values of the parameters
  Default,     \* the one a new session starts with
  Guess,       \* what ServerParameters::new says of the tracked ones
  Creds,       \* what pgcat may log in with: [password, hash], each possibly None
  Secret,      \* external: the password at the server
  Methods,     \* external: how the server asks for it
  Pids         \* external: keys of backends

VARIABLES
  login,       \* none, login or ready
  cred,        \* the password and hash of this login
  wire,        \* messages of the backend that were not read yet
  reply,       \* what pgcat answered last, or None
  parameters,  \* server_parameters of the Server to be
  process_id,  \* and its key
  backend,     \* external: what the backend waits for
  pid          \* external: its key

startupVars == <<login, cred, wire, reply, parameters, process_id, backend, pid>>

Names == {"tracked", "version"}

-----------------------------------------------------------------------------
(* Digests.  A SCRAM conversation is its two nonces and the salt. *)

md5(x, salt) == <<"md5", x, salt>>
conversation(nonce) == <<"client", nonce, "server", nonce, "salt">>
proof(password, talk) == <<"proof", password, talk>>
signature(password, talk) == <<"signature", password, talk>>

-----------------------------------------------------------------------------
(* External: the backend *)

StartupMessage ==
  [code: {"R", "S", "K", "Z", "E", "N"},
   auth: {"", "ok", "md5", "sasl", "continue", "final", "other"},
   name: Names, val: Params, num: Pids,
   verifier: {<<>>} \cup {signature(Secret, conversation(p)) : p \in Pids}]

Plainly(c) ==
  [code |-> c, auth |-> "", name |-> "tracked", val |-> Default, num |-> pid, verifier |-> <<>>]
Auth(a) == [Plainly("R") EXCEPT !.auth = a]
Status(n) == [Plainly("S") EXCEPT !.name = n]

Greeting ==
  <<Auth("ok"), Status("version"), Status("tracked"), Plainly("K"), Plainly("Z")>>

Says(msgs, next) ==
  /\ wire' = msgs
  /\ backend' = next
  /\ reply' = None
  /\ UNCHANGED <<login, cred, parameters, process_id, pid>>

\* The answer to the startup message, by pg_hba.conf.
BackendHello ==
  /\ login = "login" /\ backend = "hello"
  /\ \E m \in Methods :
       \/ m = "trust"  /\ Says(Greeting, "session")
       \/ m = "md5"    /\ Says(<<Auth("md5")>>, "md5")
       \/ m = "scram"  /\ Says(<<Auth("sasl")>>, "sasl")
       \/ m = "other"  /\ Says(<<Auth("other")>>, "closed")
       \/ m = "reject" /\ Says(<<Plainly("E")>>, "closed")
       \/ m = "notice" /\ Says(<<Plainly("N")>>, "closed")

BackendReply ==
  /\ login = "login" /\ reply # None
  /\ \/ /\ backend = "md5"
        /\ IF reply = md5(md5(Secret, None), pid)
           THEN Says(Greeting, "session")
           ELSE Says(<<Plainly("E")>>, "closed")
     \/ /\ backend = "sasl"
        /\ Says(<<Auth("continue")>>, "continue")
     \/ /\ backend = "continue"
        /\ IF reply = proof(Secret, conversation(pid))
           THEN Says(<<[Auth("final") EXCEPT !.verifier = signature(Secret, conversation(pid))]>>
                     \o Greeting, "session")
           ELSE Says(<<Plainly("E")>>, "closed")
     \/ /\ backend = "continue" /\ "stranger" \in Methods    \* it does not know the password
        /\ Says(<<Auth("final")>> \o Greeting, "stranger")

-----------------------------------------------------------------------------
(* Server::startup *)

\* The startup message is sent.
Begins ==
  /\ login = "none"
  /\ login' = "login"
  /\ cred' \in Creds
  /\ wire' = <<>> /\ reply' = None
  /\ parameters' = [tracked |-> Guess, version |-> None]
  /\ process_id' = 0
  /\ backend' = "hello"
  /\ pid' \in Pids

\* The connection is closed: an error of the startup, which connect passes on, or Drop.
Closes ==
  /\ login' = "none"
  /\ UNCHANGED <<cred, wire, reply, parameters, process_id, backend, pid>>

\* A socket error, at any await.
StartupBroken == login = "login" /\ Closes

Answers(r) ==
  /\ reply' = r
  /\ wire' = Tail(wire)
  /\ UNCHANGED <<login, cred, parameters, process_id, backend, pid>>

\* The password, or the hash that auth_query found.
Md5Password(m) ==
  \/ cred.password # None /\ Answers(md5(md5(cred.password, None), m.num))
  \/ cred.password = None /\ cred.hash # None /\ Answers(md5(cred.hash, m.num))
  \/ cred.password = None /\ cred.hash = None /\ Closes

\* Without a password there is no ScramSha256.
Sasl ==
  \/ cred.password # None /\ Answers("message")
  \/ cred.password = None /\ Closes

\* Mutation of SaslContinue: the answer stays in the buffer.
Mut_SaslContinue(m) == Answers(None)

\* ScramSha256::update
SaslContinue(m) == Answers(proof(cred.password, conversation(m.num)))

\* Mutation of SaslFinal: what the server sends is not verified.
Mut_SaslFinal(m) == Answers(reply)

\* ScramSha256::finish
SaslFinal(m) ==
  \/ m.verifier = signature(cred.password, conversation(pid)) /\ Answers(reply)
  \/ m.verifier # signature(cred.password, conversation(pid)) /\ Closes

Authentication(m) ==
  \/ m.auth = "md5" /\ Md5Password(m)
  \/ m.auth = "sasl" /\ Sasl
  \/ m.auth = "continue" /\ SaslContinue(m)
  \/ m.auth = "final" /\ SaslFinal(m)
  \/ m.auth = "ok" /\ Answers(reply)
  \/ m.auth = "other" /\ Closes

StartupParameter(m) ==
  /\ parameters' = [parameters EXCEPT ![m.name] = m.val]
  /\ wire' = Tail(wire)
  /\ UNCHANGED <<login, cred, reply, process_id, backend, pid>>

BackendKeyData(m) ==
  /\ process_id' = m.num
  /\ wire' = Tail(wire)
  /\ UNCHANGED <<login, cred, reply, parameters, backend, pid>>

ReadyForQuery ==
  /\ login' = "ready"
  /\ wire' = Tail(wire)
  /\ cred' = None /\ reply' = None
  /\ UNCHANGED <<parameters, process_id, backend, pid>>

\* One turn of the loop.  Messages it does not know, notices among them, are errors.
Login ==
  /\ login = "login"
  /\ wire # <<>>
  /\ LET m == Head(wire) IN
       \/ m.code = "R" /\ Authentication(m)
       \/ m.code = "S" /\ StartupParameter(m)
       \/ m.code = "K" /\ BackendKeyData(m)
       \/ m.code = "Z" /\ ReadyForQuery
       \/ m.code \in {"E", "N"} /\ Closes
=============================================================================
