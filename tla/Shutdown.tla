------------------------------ MODULE Shutdown ------------------------------
(***************************************************************************)
(* Graceful shutdown: the select loop of main, the drain and exit channels *)
(* and the shutdown broadcast, and the tasks that serve clients (main.rs,  *)
(* client.rs).                                                             *)
(***************************************************************************)
EXTENDS Integers, Sequences, FiniteSets

CONSTANTS
  Clients,  \* connections, each accepted at most once
  Main,     \* main, as a sender of the drain channel
  Cap       \* capacity of the drain channel (2048 in main.rs:206)

ASSUME ShutdownAssumption ==
  /\ Main \notin Clients
  /\ IsFiniteSet(Clients)
  /\ Cap \in Nat \ {0}

VARIABLES
  main,           \* where main is: in its select, or awaiting inside a branch
  admin_only,
  total_clients,
  drain,          \* the drain channel; who sent a ping is bookkeeping
  exit,           \* messages in the exit channel, whose capacity is one
  timer,          \* the task that waits for shutdown_timeout
  pc,             \* where a client's task is
  kind,           \* user, admin or cancel
  adm,            \* admin_only when the client was accepted
  told,           \* clients whose shutdown receiver has a message
  counted,        \* history: clients main has added and not yet removed
  early,          \* history: clients that SIGINT found running a query and
                  \* that still are
  known,          \* history: clients counted when SIGINT came
  term            \* history: SIGTERM came

mainVars == <<main, admin_only, total_clients, exit, timer, counted, known, term>>
clientVars == <<pc, kind, adm, told, early>>
vars == <<mainVars, drain, clientVars>>

Ping(who, n) == [who |-> who, n |-> n]

Init ==
  /\ main = "select"
  /\ admin_only = FALSE
  /\ total_clients = 0
  /\ drain = <<>>
  /\ exit = 0
  /\ timer = "off"
  /\ pc = [c \in Clients |-> "new"]
  /\ kind = [c \in Clients |-> "user"]
  /\ adm = [c \in Clients |-> FALSE]
  /\ told = {}
  /\ counted = {}
  /\ early = {}
  /\ known = {}
  /\ term = FALSE

\* Send on the drain channel, which blocks while it is full.
SendDrain(who, n) ==
  /\ Len(drain) < Cap
  /\ drain' = Append(drain, Ping(who, n))

-----------------------------------------------------------------------------
(* The branches of main's select.                                          *)

\* SIGHUP: main awaits reload_config.
Sighup ==
  /\ main = "select"
  /\ main' = "reload"
  /\ UNCHANGED <<admin_only, total_clients, drain, exit, timer, counted, known,
                 term, clientVars>>

ReloadDone ==
  /\ main = "reload"
  /\ main' = "select"
  /\ UNCHANGED <<admin_only, total_clients, drain, exit, timer, counted, known,
                 term, clientVars>>

\* SIGINT, from outside or from the SHUTDOWN command. A second one is ignored.
Sigint ==
  /\ main = "select"
  /\ ~admin_only
  /\ admin_only' = TRUE
  /\ told' = {c \in Clients : pc[c] \notin {"new", "done"}}
  /\ early' = {c \in Clients : pc[c] = "busy" /\ kind[c] = "user"}
  /\ known' = counted
  /\ main' = "send_zero"
  /\ UNCHANGED <<total_clients, drain, exit, timer, counted, term, pc, kind, adm>>

\* The ping that makes main look at total_clients, then the timer starts.
SendZero ==
  /\ main = "send_zero"
  /\ SendDrain(Main, 0)
  /\ timer' = "running"
  /\ main' = "select"
  /\ UNCHANGED <<admin_only, total_clients, exit, counted, known, term, clientVars>>

Sigterm ==
  /\ main = "select"
  /\ main' = "stopped"
  /\ term' = TRUE
  /\ UNCHANGED <<admin_only, total_clients, drain, exit, timer, counted, known, clientVars>>

Accept(c) ==
  /\ main = "select"
  /\ pc[c] = "new"
  /\ pc' = [pc EXCEPT ![c] = "startup"]
  /\ adm' = [adm EXCEPT ![c] = admin_only]
  /\ UNCHANGED <<mainVars, drain, kind, told, early>>

\* exit_rx.recv: the loop is left and the process exits.
ExitRecv ==
  /\ main = "select"
  /\ exit > 0
  /\ exit' = exit - 1
  /\ main' = "stopped"
  /\ UNCHANGED <<admin_only, total_clients, drain, timer, counted, known, term, clientVars>>

\* The clients counted after ping p.
Counted(p) ==
  IF p.n = 1 THEN counted \cup {p.who}
  ELSE IF p.n = -1 THEN counted \ {p.who} ELSE counted

\* Mutation of DrainRecv: main exits at any ping of a shutdown.
Mut_DrainRecv ==
  /\ main = "select"
  /\ drain # <<>>
  /\ LET p == Head(drain)
     IN /\ total_clients' = total_clients + p.n
        /\ counted' = Counted(p)
        /\ main' = IF admin_only THEN "send_exit" ELSE "select"
  /\ drain' = Tail(drain)
  /\ UNCHANGED <<admin_only, exit, timer, known, term, clientVars>>

\* drain_rx.recv: a client came or went, or SIGINT wants the count checked.
DrainRecv ==
  /\ main = "select"
  /\ drain # <<>>
  /\ LET p == Head(drain)
     IN /\ total_clients' = total_clients + p.n
        /\ counted' = Counted(p)
        /\ main' = IF total_clients + p.n = 0 /\ admin_only THEN "send_exit" ELSE "select"
  /\ drain' = Tail(drain)
  /\ UNCHANGED <<admin_only, exit, timer, known, term, clientVars>>

\* The send on the exit channel, inside that branch.
SendExit ==
  /\ main = "send_exit"
  /\ exit < 1
  /\ exit' = exit + 1
  /\ main' = "select"
  /\ UNCHANGED <<admin_only, total_clients, drain, timer, counted, known, term, clientVars>>

-----------------------------------------------------------------------------
(* The task that waits for shutdown_timeout.                               *)

TimerFires ==
  /\ main # "stopped"
  /\ timer = "running"
  /\ timer' = "send_exit"
  /\ UNCHANGED <<main, admin_only, total_clients, drain, exit, counted, known, term, clientVars>>

\* Mutation of TimerSend: the exit channel is not used.
Mut_TimerSend ==
  /\ main # "stopped"
  /\ timer = "send_exit"
  /\ timer' = "done"
  /\ UNCHANGED <<main, admin_only, total_clients, drain, exit, counted, known, term, clientVars>>

TimerSend ==
  /\ main # "stopped"
  /\ timer = "send_exit"
  /\ exit < 1
  /\ exit' = exit + 1
  /\ timer' = "done"
  /\ UNCHANGED <<main, admin_only, total_clients, drain, counted, known, term, clientVars>>

-----------------------------------------------------------------------------
(* client_entrypoint, one task per connection.                             *)

\* Startup succeeds; in admin-only mode only for administrators, and for
\* cancel requests, which do not pass through Client::startup.
StartupOk(c, k) ==
  /\ main # "stopped"
  /\ pc[c] = "startup"
  /\ ~(adm[c] /\ k = "user")
  /\ kind' = [kind EXCEPT ![c] = k]
  /\ pc' = [pc EXCEPT ![c] = IF k = "admin" THEN "idle" ELSE "register"]
  /\ UNCHANGED <<mainVars, drain, adm, told, early>>

StartupFails(c) ==
  /\ main # "stopped"
  /\ pc[c] = "startup"
  /\ pc' = [pc EXCEPT ![c] = "done"]
  /\ told' = told \ {c}
  /\ UNCHANGED <<mainVars, drain, kind, adm, early>>

\* Mutation of Register: nothing is sent for a cancel request.
Mut_Register(c) ==
  /\ main # "stopped"
  /\ pc[c] = "register"
  /\ IF kind[c] = "cancel" THEN UNCHANGED drain ELSE SendDrain(c, 1)
  /\ pc' = [pc EXCEPT ![c] = IF kind[c] = "cancel" THEN "busy" ELSE "idle"]
  /\ UNCHANGED <<mainVars, kind, adm, told, early>>

\* drain.send(1), then handle. A cancel request is served at once.
Register(c) ==
  /\ main # "stopped"
  /\ pc[c] = "register"
  /\ SendDrain(c, 1)
  /\ pc' = [pc EXCEPT ![c] = IF kind[c] = "cancel" THEN "busy" ELSE "idle"]
  /\ UNCHANGED <<mainVars, kind, adm, told, early>>

\* A message wins the select of handle: a query, or an admin command.
Message(c) ==
  /\ main # "stopped"
  /\ pc[c] = "idle"
  /\ pc' = [pc EXCEPT ![c] = "busy"]
  /\ UNCHANGED <<mainVars, drain, kind, adm, told, early>>

Answered(c) ==
  /\ main # "stopped"
  /\ pc[c] = "busy" /\ kind[c] # "cancel"
  /\ pc' = [pc EXCEPT ![c] = "idle"]
  /\ early' = early \ {c}
  /\ UNCHANGED <<mainVars, drain, kind, adm, told>>

\* The shutdown broadcast wins: users are disconnected, administrators not.
ShutdownRecv(c) ==
  /\ main # "stopped"
  /\ pc[c] = "idle"
  /\ c \in told
  /\ told' = told \ {c}
  /\ pc' = [pc EXCEPT ![c] = IF kind[c] = "admin" THEN "idle" ELSE "leave"]
  /\ UNCHANGED <<mainVars, drain, kind, adm, early>>

\* handle returns: Terminate, an error, or the cancel request is served.
Leave(c) ==
  /\ main # "stopped"
  /\ pc[c] \in {"idle", "busy"}
  /\ pc' = [pc EXCEPT ![c] = IF kind[c] = "admin" THEN "done" ELSE "leave"]
  /\ told' = told \ {c}
  /\ early' = early \ {c}
  /\ UNCHANGED <<mainVars, drain, kind, adm>>

\* drain.send(-1)
Deregister(c) ==
  /\ main # "stopped"
  /\ pc[c] = "leave"
  /\ SendDrain(c, -1)
  /\ pc' = [pc EXCEPT ![c] = "done"]
  /\ UNCHANGED <<mainVars, kind, adm, told, early>>

-----------------------------------------------------------------------------
MainStep ==
  \/ Sighup \/ ReloadDone \/ Sigint \/ SendZero \/ Sigterm \/ ExitRecv
  \/ DrainRecv \/ SendExit \/ TimerFires \/ TimerSend

ClientStep(c) ==
  \/ Accept(c) \/ StartupFails(c) \/ Register(c) \/ Message(c) \/ Answered(c)
  \/ ShutdownRecv(c) \/ Leave(c) \/ Deregister(c)
  \/ \E k \in {"user", "admin", "cancel"} : StartupOk(c, k)

Next == MainStep \/ \E c \in Clients : ClientStep(c)

Spec == Init /\ [][Next]_vars

\* Tasks that can go on do, and the select, which picks a ready branch at
\* random, does not pass over the exit channel for ever.
FairSpec ==
  /\ Spec
  /\ WF_vars(ReloadDone) /\ WF_vars(SendZero) /\ WF_vars(SendExit)
  /\ WF_vars(TimerFires) /\ WF_vars(TimerSend)
  /\ SF_vars(ExitRecv)

-----------------------------------------------------------------------------
(* Properties.                                                             *)

Served == {"idle", "busy", "leave"}

TypeOK ==
  /\ main \in {"select", "reload", "send_zero", "send_exit", "stopped"}
  /\ admin_only \in BOOLEAN
  /\ total_clients \in Int
  /\ drain \in Seq([who: Clients \cup {Main}, n: {-1, 0, 1}])
  /\ exit \in 0..1
  /\ timer \in {"off", "running", "send_exit", "done"}
  /\ pc \in [Clients -> {"new", "startup", "register", "done"} \cup Served]
  /\ kind \in [Clients -> {"user", "admin", "cancel"}]
  /\ adm \in [Clients -> BOOLEAN]
  /\ told \subseteq Clients /\ counted \subseteq Clients
  /\ early \subseteq Clients /\ known \subseteq Clients
  /\ term \in BOOLEAN

\* When main has no ping left to read, total_clients is the number of clients
\* that are served, administrators aside (client_entrypoint and main.rs:328).
TotalRight ==
  drain = <<>> =>
    total_clients = Cardinality({c \in Clients : pc[c] \in Served /\ kind[c] # "admin"})

\* Main stopped without a SIGTERM and before shutdown_timeout.
StoppedEarly == main = "stopped" /\ ~term /\ timer \in {"off", "running"}

\* A query that is running when SIGINT comes, of a client main has counted, is
\* not cut off before shutdown_timeout (main.rs:330).
GraceKept == StoppedEarly => early \cap known = {}

\* No query that is running when SIGINT comes is cut off before
\* shutdown_timeout (CONFIG.md:123).
GraceKeptForAll == StoppedEarly => early = {}

\* Main waits for itself: it awaits a send on a channel that is full and that
\* only main reads.
Hung ==
  \/ main = "send_exit" /\ exit = 1
  \/ main = "send_zero" /\ Len(drain) = Cap

\* SIGINT stops the process (tests/python/test_pgcat.py:227).
ShutdownCompletes == admin_only ~> main = "stopped"

\* SIGINT stops the process unless main comes to wait for itself: no client
\* can hold it up beyond shutdown_timeout (main.rs:241).
ShutdownCompletesOrHangs == admin_only ~> main = "stopped" \/ Hung

Queued(p) == \E i \in 1..Len(drain) : drain[i] = p

\* What the drain channel holds: for each client at most one ping that it came
\* and, after it, one that it went.
DrainRight ==
  /\ \A i \in 1..Len(drain) : drain[i].n = 0 <=> drain[i].who = Main
  /\ \A i \in 1..Len(drain) :
       /\ drain[i].n = 1 => /\ \/ pc[drain[i].who] \in Served
                               \/ pc[drain[i].who] = "done" /\ Queued(Ping(drain[i].who, -1))
                            /\ kind[drain[i].who] # "admin"
                            /\ drain[i].who \notin counted
       /\ drain[i].n = -1 => /\ pc[drain[i].who] = "done"
                             /\ \/ drain[i].who \in counted
                                \/ \E j \in 1..(i-1) : drain[j] = Ping(drain[i].who, 1)
  /\ \A i, j \in 1..Len(drain) :
       i < j /\ drain[i].who = drain[j].who /\ drain[i].who # Main =>
         drain[i].n = 1 /\ drain[j].n = -1

\* Who is counted, or is about to be.
CountedRight ==
  /\ total_clients = Cardinality(counted)
  /\ \A c \in Clients :
       /\ c \in counted => /\ kind[c] # "admin"
                           /\ pc[c] \in Served \/ (pc[c] = "done" /\ Queued(Ping(c, -1)))
       /\ pc[c] \in Served /\ kind[c] # "admin" => c \in counted \/ Queued(Ping(c, 1))
       /\ pc[c] \in {"register", "leave"} => kind[c] # "admin"

\* A shutdown that the timer has not ended was decided when nobody was counted.
GraceRight ==
  /\ early \cap known \subseteq counted
  /\ \A c \in early : pc[c] = "busy"
  /\ ~admin_only => exit = 0 /\ main # "send_exit" /\ timer = "off"
  /\ main = "send_zero" => timer = "off" /\ admin_only
  /\ main = "stopped" /\ ~term => timer \in {"send_exit", "done"} \/ early \cap known = {}
  /\ (exit = 1 \/ main = "send_exit") /\ timer \in {"off", "running"} => early \cap known = {}

\* The inductive invariant behind TotalRight and GraceKept: the pings in the
\* channel and the clients counted so far add up to the clients served.
ShutdownInv ==
  /\ TypeOK
  /\ DrainRight
  /\ CountedRight
  /\ GraceRight
=============================================================================
