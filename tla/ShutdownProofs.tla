--------------------------- MODULE ShutdownProofs ---------------------------
(* Proofs about Shutdown, for any connections and any channel capacity. *)
EXTENDS Shutdown, FiniteSetTheorems, TLAPS

\* What sending on the drain channel does to it.
LEMMA SendFacts ==
  ASSUME TypeOK, NEW w \in Clients \cup {Main}, NEW n \in {-1, 0, 1}, SendDrain(w, n)
  PROVE  /\ drain' \in Seq([who: Clients \cup {Main}, n: {-1, 0, 1}])
         /\ Len(drain) \in Nat /\ Len(drain') = Len(drain) + 1
         /\ \A i \in 1..Len(drain) : drain'[i] = drain[i]
         /\ drain'[Len(drain) + 1] = Ping(w, n)
<1> DEFINE P == [who: Clients \cup {Main}, n: {-1, 0, 1}]
<1>1. Ping(w, n) \in P /\ drain \in Seq(P)
  BY Zenon DEF Ping, TypeOK
<1>2. drain' = Append(drain, Ping(w, n))
  BY Zenon DEF SendDrain
<1> HIDE DEF P
<1>3. QED
  BY <1>1, <1>2 DEF P

\* What receiving from it does.
LEMMA RecvFacts ==
  ASSUME TypeOK, drain # <<>>, drain' = Tail(drain)
  PROVE  /\ drain' \in Seq([who: Clients \cup {Main}, n: {-1, 0, 1}])
         /\ Len(drain) \in Nat \ {0} /\ Len(drain') = Len(drain) - 1
         /\ \A i \in 1..Len(drain') : drain'[i] = drain[i+1]
         /\ Head(drain) = drain[1]
         /\ drain[1] \in [who: Clients \cup {Main}, n: {-1, 0, 1}]
<1> DEFINE P == [who: Clients \cup {Main}, n: {-1, 0, 1}]
<1>1. drain \in Seq(P)
  BY Zenon DEF TypeOK
<1> HIDE DEF P
<1>2. Len(drain) \in Nat \ {0} /\ Head(drain) = drain[1]
  BY SMTT(30), <1>1
<1>3. drain[1] \in P
  BY SMTT(30), <1>1, <1>2
<1>4. Tail(drain) \in Seq(P) /\ Len(Tail(drain)) = Len(drain) - 1
  BY SMTT(30), <1>1, <1>2
<1>5. \A i \in 1..Len(drain) - 1 : Tail(drain)[i] = drain[i+1]
  BY <1>1, <1>2
<1>6. QED
  BY Zenon, <1>2, <1>3, <1>4, <1>5 DEF P

\* What the drain channel holds.
LEMMA PingTypes ==
  ASSUME TypeOK
  PROVE  /\ Len(drain) \in Nat
         /\ \A i \in 1..Len(drain) : drain[i] \in [who: Clients \cup {Main}, n: {-1, 0, 1}]
<1> DEFINE P == [who: Clients \cup {Main}, n: {-1, 0, 1}]
<1>1. drain \in Seq(P)
  BY Zenon DEF TypeOK
<1> HIDE DEF P
<1>2. Len(drain) \in Nat /\ \A i \in 1..Len(drain) : drain[i] \in P
  BY <1>1
<1>3. QED
  BY Zenon, <1>2 DEF P

\* A step that touches neither the channel nor the count, and takes no client
\* across the boundaries that are pinged, keeps the accounts.
LEMMA Frame ==
  ASSUME TypeOK, DrainRight, CountedRight,
         UNCHANGED <<drain, counted, total_clients>>,
         \A c \in Clients :
           /\ pc[c] = "done" => pc'[c] = "done"
           /\ pc[c] \in Served \cup {"done"} => kind'[c] = kind[c]
           /\ pc'[c] \in {"register", "leave"} => kind'[c] # "admin"
           /\ (pc[c] \in Served /\ kind[c] # "admin")
                <=> (pc'[c] \in Served /\ kind'[c] # "admin")
  PROVE  DrainRight' /\ CountedRight'
<1>1. \A i \in 1..Len(drain) : drain[i].n # 0 => drain[i].who \in Clients
  BY Zenon, PingTypes DEF DrainRight
<1>2. DrainRight'
  <2>1. \A i \in 1..Len(drain) :
          /\ drain[i].n = 1 =>
               /\ \/ pc'[drain[i].who] \in Served
                  \/ pc'[drain[i].who] = "done" /\ Queued(Ping(drain[i].who, -1))
               /\ kind'[drain[i].who] # "admin"
          /\ drain[i].n = -1 => pc'[drain[i].who] = "done"
    BY SMTT(30), <1>1 DEF DrainRight
  <2>2. QED
    BY SMTT(30), <2>1 DEF DrainRight, Ping, Queued
<1>3. CountedRight'
  BY DEF TypeOK, CountedRight, Queued, Ping
<1>4. QED
  BY Zenon, <1>2, <1>3

\* SIGHUP only occupies main (main.rs:217).
LEMMA ReloadStep ==
  ASSUME ShutdownInv, Sighup \/ ReloadDone
  PROVE  ShutdownInv'
<1> USE DEF Sighup, ReloadDone, clientVars
<1>1. TypeOK'
  BY Zenon DEF ShutdownInv, TypeOK
<1>2. DrainRight' /\ CountedRight'
  BY Zenon, Frame DEF ShutdownInv, CountedRight
<1>3. GraceRight'
  BY Zenon DEF ShutdownInv, GraceRight
<1>4. QED
  BY Zenon, <1>1, <1>2, <1>3 DEF ShutdownInv

\* The clients that SIGINT (main.rs:226) finds busy and counted are counted.
LEMMA SigintStep ==
  ASSUME ShutdownInv, Sigint
  PROVE  ShutdownInv'
<1> USE DEF Sigint
<1>1. TypeOK'
  BY Zenon DEF ShutdownInv, TypeOK
<1>2. DrainRight' /\ CountedRight'
  BY Zenon, Frame DEF ShutdownInv, CountedRight
<1>3. GraceRight'
  BY DEF ShutdownInv, GraceRight
<1>4. QED
  BY Zenon, <1>1, <1>2, <1>3 DEF ShutdownInv

\* SIGTERM (main.rs:257) makes no promise.
LEMMA SigtermStep ==
  ASSUME ShutdownInv, Sigterm
  PROVE  ShutdownInv'
<1> USE DEF Sigterm, clientVars
<1>1. TypeOK'
  BY Zenon DEF ShutdownInv, TypeOK
<1>2. DrainRight' /\ CountedRight'
  BY Zenon, Frame DEF ShutdownInv, CountedRight
<1>3. GraceRight'
  BY Zenon DEF ShutdownInv, GraceRight
<1>4. QED
  BY Zenon, <1>1, <1>2, <1>3 DEF ShutdownInv

\* Main leaves its loop (main.rs:322) only on a message that was sent when
\* nobody was counted or when the timer had fired.
LEMMA ExitStep ==
  ASSUME ShutdownInv, ExitRecv \/ SendExit
  PROVE  ShutdownInv'
<1> USE DEF ExitRecv, SendExit, clientVars
<1>1. TypeOK'
  BY DEF ShutdownInv, TypeOK
<1>2. DrainRight' /\ CountedRight'
  BY Zenon, Frame DEF ShutdownInv, CountedRight
<1>3. GraceRight'
  BY DEF ShutdownInv, GraceRight, TypeOK
<1>4. QED
  BY Zenon, <1>1, <1>2, <1>3 DEF ShutdownInv

\* The timer (main.rs:241) changes no account.
LEMMA TimerStep ==
  ASSUME ShutdownInv, TimerFires \/ TimerSend
  PROVE  ShutdownInv'
<1> USE DEF TimerFires, TimerSend, clientVars
<1>1. TypeOK'
  BY DEF ShutdownInv, TypeOK
<1>2. DrainRight' /\ CountedRight'
  BY Zenon, Frame DEF ShutdownInv, CountedRight
<1>3. GraceRight'
  BY Zenon DEF ShutdownInv, GraceRight
<1>4. QED
  BY Zenon, <1>1, <1>2, <1>3 DEF ShutdownInv

\* A step of client c's task that pings nobody keeps the invariant, if c is
\* neither served nor gone before and after, or served both before and after,
\* or an administrator.
LEMMA QuietStep ==
  ASSUME ShutdownInv, NEW c \in Clients,
         \/ Accept(c) \/ StartupFails(c) \/ Message(c) \/ Answered(c)
         \/ ShutdownRecv(c) \/ Leave(c)
         \/ \E k \in {"user", "admin", "cancel"} : StartupOk(c, k)
  PROVE  ShutdownInv'
<1> USE DEF Accept, StartupFails, Message, Answered, ShutdownRecv, Leave, StartupOk, mainVars
<1>1. TypeOK'
  BY SMTT(30) DEF ShutdownInv, TypeOK, Served
<1>2. UNCHANGED <<drain, counted, total_clients>>
  BY Zenon
<1>3. pc[c] \in {"register", "leave"} => kind[c] # "admin"
  BY Zenon DEF ShutdownInv, CountedRight
<1>4. \A d \in Clients : d # c => pc'[d] = pc[d] /\ kind'[d] = kind[d]
  BY Zenon DEF ShutdownInv, TypeOK
<1>5. /\ pc[c] = "done" => pc'[c] = "done"
      /\ pc[c] \in Served \cup {"done"} => kind'[c] = kind[c]
      /\ pc'[c] \in {"register", "leave"} => kind'[c] # "admin"
  BY ZenonT(60), <1>3 DEF ShutdownInv, TypeOK, Served
<1>6. (pc[c] \in Served /\ kind[c] # "admin") <=> (pc'[c] \in Served /\ kind'[c] # "admin")
  BY Zenon DEF ShutdownInv, TypeOK, Served
<1>7. DrainRight' /\ CountedRight'
  <2>1. \A d \in Clients : pc[d] \in {"register", "leave"} => kind[d] # "admin"
    BY Zenon DEF ShutdownInv, CountedRight
  <2>2. QED
    BY ZenonT(60), <1>2, <1>4, <1>5, <1>6, <2>1, Frame DEF ShutdownInv
<1>8. GraceRight'
  BY ZenonT(60) DEF ShutdownInv, TypeOK, GraceRight
<1>9. QED
  BY ZenonT(60), <1>1, <1>7, <1>8 DEF ShutdownInv

\* The ping of main (main.rs:239) is nobody's.
LEMMA SendZeroStep ==
  ASSUME ShutdownInv, SendZero
  PROVE  ShutdownInv'
<1> USE DEF SendZero, clientVars
<1> DEFINE L == Len(drain)
<1>1. /\ drain' \in Seq([who: Clients \cup {Main}, n: {-1, 0, 1}])
      /\ L \in Nat /\ Len(drain') = L + 1
      /\ \A i \in 1..L : drain'[i] = drain[i]
      /\ drain'[L + 1] = Ping(Main, 0)
  BY Zenon, SendFacts DEF ShutdownInv
<1>2. TypeOK'
  BY Zenon, <1>1 DEF ShutdownInv, TypeOK
<1> pc' = pc /\ kind' = kind /\ counted' = counted /\ total_clients' = total_clients
  BY Zenon
<1>6. GraceRight'
  BY Zenon DEF ShutdownInv, GraceRight
<1> HIDE DEF SendZero, clientVars
<1>3. \A p : Queued(p) => Queued(p)'
  BY SMTT(30), <1>1 DEF Queued
<1>4. DrainRight'
  <2>1. \A i \in 1..L+1 : drain'[i].n = 0 <=> drain'[i].who = Main
    BY SMTT(30), <1>1 DEF ShutdownInv, DrainRight, Ping
  <2>2. \A i \in 1..L+1 : i \in 1..L \/ drain'[i].n = 0
    BY SMTT(30), <1>1 DEF Ping
  <2>3. \A i \in 1..L : \A j \in 1..(i-1) : drain'[j] = drain[j]
    BY SMTT(30), <1>1
  <2>4. \A i, j \in 1..L+1 :
          i < j /\ drain'[i].who = drain'[j].who /\ drain'[i].who # Main =>
            drain'[i].n = 1 /\ drain'[j].n = -1
    BY SMTT(30), <1>1, <2>1, <2>2 DEF ShutdownInv, DrainRight
  <2>5. ASSUME NEW i \in 1..L
        PROVE  /\ drain'[i].n = 1 =>
                    /\ \/ pc'[drain'[i].who] \in Served
                       \/ pc'[drain'[i].who] = "done" /\ Queued(Ping(drain[i].who, -1))'
                    /\ kind'[drain'[i].who] # "admin"
                    /\ drain'[i].who \notin counted'
               /\ drain'[i].n = -1 =>
                    /\ pc'[drain'[i].who] = "done"
                    /\ \/ drain'[i].who \in counted'
                       \/ \E j \in 1..(i-1) : drain'[j] = Ping(drain'[i].who, 1)
    <3>1. drain'[i] = drain[i]
      BY Zenon, <1>1
    <3>2. Queued(Ping(drain[i].who, -1)) => Queued(Ping(drain[i].who, -1))'
      BY Zenon, <1>3, <3>1 DEF Ping
    <3>3. /\ drain[i].n = 1 =>
               /\ \/ pc[drain[i].who] \in Served
                  \/ pc[drain[i].who] = "done" /\ Queued(Ping(drain[i].who, -1))
               /\ kind[drain[i].who] # "admin"
               /\ drain[i].who \notin counted
          /\ drain[i].n = -1 =>
               /\ pc[drain[i].who] = "done"
               /\ \/ drain[i].who \in counted
                  \/ \E j \in 1..(i-1) : drain[j] = Ping(drain[i].who, 1)
      BY Zenon DEF ShutdownInv, DrainRight
    <3>4. (\E j \in 1..(i-1) : drain[j] = Ping(drain[i].who, 1)) =>
            \E j \in 1..(i-1) : drain'[j] = Ping(drain[i].who, 1)
      BY Zenon, <2>3
    <3>5. QED
      BY Zenon, <3>1, <3>2, <3>3, <3>4
  <2>6. \A i \in 1..L+1 : drain'[i].n = 0 => drain'[i].n # 1 /\ drain'[i].n # -1
    BY SMTT(30)
  <2>7. QED
    BY ZenonT(60), <1>1, <2>1, <2>2, <2>4, <2>5, <2>6 DEF DrainRight, Ping
<1>5. CountedRight'
  BY Zenon, <1>3 DEF ShutdownInv, CountedRight, Ping
<1>7. QED
  BY Zenon, <1>2, <1>4, <1>5, <1>6 DEF ShutdownInv

\* A client's ping that it came (client.rs:266) is the first of its pings.
LEMMA RegisterStep ==
  ASSUME ShutdownInv, NEW c \in Clients, Register(c)
  PROVE  ShutdownInv'
<1> USE DEF Register, mainVars
<1> DEFINE L == Len(drain)
<1>1. /\ drain' \in Seq([who: Clients \cup {Main}, n: {-1, 0, 1}])
      /\ L \in Nat /\ Len(drain') = L + 1
      /\ \A i \in 1..L : drain'[i] = drain[i]
      /\ drain'[L + 1] = Ping(c, 1)
  BY Zenon, SendFacts DEF ShutdownInv
<1>2. TypeOK'
  BY Zenon, <1>1 DEF ShutdownInv, TypeOK, Served
<1>3. \A p : Queued(p) => Queued(p)'
  BY SMTT(30), <1>1 DEF Queued
<1>4. /\ pc[c] = "register" /\ pc'[c] \in Served /\ kind[c] # "admin" /\ c \notin counted
      /\ \A d \in Clients \ {c} : pc'[d] = pc[d]
  BY Zenon DEF ShutdownInv, TypeOK, CountedRight, Served
<1> kind' = kind /\ counted' = counted /\ total_clients' = total_clients
  BY Zenon
<1>9. GraceRight'
  BY Zenon, <1>4 DEF ShutdownInv, GraceRight, TypeOK
<1> HIDE DEF Register, mainVars
<1>5. \A i \in 1..L : drain[i].who # c
  BY ZenonT(60), <1>4, PingTypes, ShutdownAssumption DEF ShutdownInv, DrainRight, Served
<1>6. \A i \in 1..L : drain[i].n # 0 => drain[i].who \in Clients \ {c}
  BY Zenon, <1>5, PingTypes DEF ShutdownInv, DrainRight
<1>7. DrainRight'
  <2>1. \A i \in 1..L+1 : drain'[i].n = 0 <=> drain'[i].who = Main
    <3>1. \A i \in 1..L : drain[i].n = 0 <=> drain[i].who = Main
      BY Zenon DEF ShutdownInv, DrainRight
    <3>2. drain'[L+1].n = 1 /\ drain'[L+1].who = c /\ c # Main
      BY SMTT(30), <1>1, ShutdownAssumption DEF Ping
    <3>3. \A i \in 1..L+1 : i \in 1..L \/ i = L + 1
      BY SMTT(30), <1>1
    <3>4. QED
      BY SMTT(30), <1>1, <3>1, <3>2, <3>3
  <2>2. \A i \in 1..L+1 : i \in 1..L \/ i = L + 1
    BY SMTT(30), <1>1
  <2>3. \A i \in 1..L : \A j \in 1..(i-1) : drain'[j] = drain[j]
    BY SMTT(30), <1>1
  <2>4. \A i, j \in 1..L+1 :
          i < j /\ drain'[i].who = drain'[j].who /\ drain'[i].who # Main =>
            drain'[i].n = 1 /\ drain'[j].n = -1
    BY SMTT(30), <1>1, <1>5, <2>2 DEF ShutdownInv, DrainRight, Ping
  <2>5. ASSUME NEW i \in 1..L
        PROVE  /\ drain'[i].n = 1 =>
                    /\ \/ pc'[drain'[i].who] \in Served
                       \/ pc'[drain'[i].who] = "done" /\ Queued(Ping(drain[i].who, -1))'
                    /\ kind'[drain'[i].who] # "admin"
                    /\ drain'[i].who \notin counted'
               /\ drain'[i].n = -1 =>
                    /\ pc'[drain'[i].who] = "done"
                    /\ \/ drain'[i].who \in counted'
                       \/ \E j \in 1..(i-1) : drain'[j] = Ping(drain'[i].who, 1)
    <3>1. drain'[i] = drain[i] /\ (drain[i].n # 0 => drain[i].who \in Clients \ {c})
      BY Zenon, <1>1, <1>6
    <3>2. CASE drain[i].n = 1
      <4>1. /\ drain[i].who \in Clients \ {c} /\ kind[drain[i].who] # "admin"
            /\ drain[i].who \notin counted
            /\ \/ pc[drain[i].who] \in Served
               \/ pc[drain[i].who] = "done" /\ Queued(Ping(drain[i].who, -1))
        BY SMTT(30), <3>1, <3>2 DEF ShutdownInv, DrainRight
      <4>2. Queued(Ping(drain[i].who, -1)) => Queued(Ping(drain[i].who, -1))'
        BY Zenon, <1>3, <3>1 DEF Ping
      <4>3. drain'[i].n # -1
        BY SMTT(30), <3>1, <3>2
      <4>4. QED
        BY ZenonT(60), <1>4, <3>1, <4>1, <4>2, <4>3
    <3>3. CASE drain[i].n = -1
      BY SMTT(30), <1>4, <2>3, <3>1, <3>3 DEF ShutdownInv, DrainRight
    <3>4. QED
      BY Zenon, <3>1, <3>2, <3>3
  <2>6. drain'[L+1].n = 1 /\ drain'[L+1].n # -1 /\ drain'[L+1].who = c
    BY SMTT(30), <1>1 DEF Ping
  <2>7. \A i \in 1..L+1 :
          /\ drain'[i].n = 1 =>
               /\ \/ pc'[drain'[i].who] \in Served
                  \/ pc'[drain'[i].who] = "done" /\ Queued(Ping(drain[i].who, -1))'
               /\ kind'[drain'[i].who] # "admin"
               /\ drain'[i].who \notin counted'
          /\ drain'[i].n = -1 =>
               /\ pc'[drain'[i].who] = "done"
               /\ \/ drain'[i].who \in counted'
                  \/ \E j \in 1..(i-1) : drain'[j] = Ping(drain'[i].who, 1)
    <3> TAKE i \in 1..L+1
    <3>1. CASE i \in 1..L
      BY Zenon, <2>5, <3>1
    <3>2. CASE i = L + 1
      BY Zenon, <1>4, <2>6, <3>2
    <3> QED BY Zenon, <2>2, <3>1, <3>2
  <2> QED BY ZenonT(60), <1>1, <2>1, <2>4, <2>7 DEF DrainRight, Ping
<1>8. CountedRight'
  <2>1. Queued(Ping(c, 1))'
    BY SMTT(30), <1>1 DEF Queued, Ping
  <2>2. QED
    BY Zenon, <1>3, <1>4, <2>1 DEF ShutdownInv, CountedRight, Ping, Served
<1>10. QED
  BY Zenon, <1>2, <1>7, <1>8, <1>9 DEF ShutdownInv

\* Its ping that it went (client.rs:272) comes after the one that it came.
LEMMA DeregisterStep ==
  ASSUME ShutdownInv, NEW c \in Clients, Deregister(c)
  PROVE  ShutdownInv'
<1> USE DEF Deregister, mainVars
<1> DEFINE L == Len(drain)
<1>1. /\ drain' \in Seq([who: Clients \cup {Main}, n: {-1, 0, 1}])
      /\ L \in Nat /\ Len(drain') = L + 1
      /\ \A i \in 1..L : drain'[i] = drain[i]
      /\ drain'[L + 1] = Ping(c, -1)
  BY Zenon, SendFacts DEF ShutdownInv
<1>2. TypeOK'
  BY Zenon, <1>1 DEF ShutdownInv, TypeOK, Served
<1>3. (\A p : Queued(p) => Queued(p)') /\ Queued(Ping(c, -1))'
  BY SMTT(30), <1>1 DEF Queued, Ping
<1>4. /\ pc[c] = "leave" /\ pc'[c] = "done" /\ kind[c] # "admin"
      /\ \A d \in Clients \ {c} : pc'[d] = pc[d]
      /\ c \in counted \/ Queued(Ping(c, 1))
  BY Zenon DEF ShutdownInv, TypeOK, CountedRight, Served
<1> kind' = kind /\ counted' = counted /\ total_clients' = total_clients
  BY Zenon
<1>9. GraceRight'
  BY Zenon, <1>4 DEF ShutdownInv, GraceRight, TypeOK
<1> HIDE DEF Deregister, mainVars
<1>5. \A i \in 1..L : drain[i].n # 0 => drain[i].who \in Clients
  BY Zenon, PingTypes DEF ShutdownInv, DrainRight
<1>6. \A i \in 1..L : drain[i].who = c => drain[i].n = 1
  BY ZenonT(60), <1>4, PingTypes, ShutdownAssumption DEF ShutdownInv, DrainRight
<1>7. DrainRight'
  <2>1. \A i \in 1..L+1 : drain'[i].n = 0 <=> drain'[i].who = Main
    <3>1. \A i \in 1..L : drain[i].n = 0 <=> drain[i].who = Main
      BY Zenon DEF ShutdownInv, DrainRight
    <3>2. drain'[L+1].n = -1 /\ drain'[L+1].who = c /\ c # Main
      BY SMTT(30), <1>1, ShutdownAssumption DEF Ping
    <3>3. \A i \in 1..L+1 : i \in 1..L \/ i = L + 1
      BY SMTT(30), <1>1
    <3>4. QED
      BY SMTT(30), <1>1, <3>1, <3>2, <3>3
  <2>2. \A i \in 1..L+1 : i \in 1..L \/ i = L + 1
    BY SMTT(30), <1>1
  <2>3. \A i \in 1..L+1 : \A j \in 1..(i-1) : drain'[j] = drain[j]
    BY SMTT(30), <1>1
  <2>4. \A i, j \in 1..L+1 :
          i < j /\ drain'[i].who = drain'[j].who /\ drain'[i].who # Main =>
            drain'[i].n = 1 /\ drain'[j].n = -1
    BY SMTT(30), <1>1, <1>6, <2>2 DEF ShutdownInv, DrainRight, Ping
  <2>5. ASSUME NEW i \in 1..L
        PROVE  /\ drain'[i].n = 1 =>
                    /\ \/ pc'[drain'[i].who] \in Served
                       \/ pc'[drain'[i].who] = "done" /\ Queued(Ping(drain[i].who, -1))'
                    /\ kind'[drain'[i].who] # "admin"
                    /\ drain'[i].who \notin counted'
               /\ drain'[i].n = -1 =>
                    /\ pc'[drain'[i].who] = "done"
                    /\ \/ drain'[i].who \in counted'
                       \/ \E j \in 1..(i-1) : drain'[j] = Ping(drain'[i].who, 1)
    <3>1. drain'[i] = drain[i] /\ (drain[i].n # 0 => drain[i].who \in Clients)
      BY Zenon, <1>1, <1>5
    <3>2. CASE drain[i].n = 1
      <4>1. /\ drain[i].who \in Clients /\ kind[drain[i].who] # "admin"
            /\ drain[i].who \notin counted
            /\ \/ pc[drain[i].who] \in Served
               \/ pc[drain[i].who] = "done" /\ Queued(Ping(drain[i].who, -1))
        BY SMTT(30), <3>1, <3>2 DEF ShutdownInv, DrainRight
      <4>2. drain[i].who = c \/ Queued(Ping(drain[i].who, -1)) => Queued(Ping(drain[i].who, -1))'
        BY ZenonT(60), <1>3, <3>1 DEF Ping
      <4>3. drain'[i].n # -1
        BY SMTT(30), <3>1, <3>2
      <4>4. QED
        BY ZenonT(60), <1>4, <3>1, <4>1, <4>2, <4>3, Zenon
    <3>3. CASE drain[i].n = -1
      BY SMTT(30), <1>4, <2>3, <3>1, <3>3 DEF ShutdownInv, DrainRight
    <3>4. QED
      BY Zenon, <3>1, <3>2, <3>3
  <2>6. drain'[L+1].n = -1 /\ drain'[L+1].who = c
    BY SMTT(30), <1>1 DEF Ping
  <2>7. c \in counted' \/ \E j \in 1..L : drain'[j] = Ping(c, 1)
    BY ZenonT(60), <1>1, <1>4 DEF Queued
  <2>8. ASSUME NEW i \in 1..L+1
        PROVE  /\ drain'[i].n = 1 =>
                    /\ \/ pc'[drain'[i].who] \in Served
                       \/ pc'[drain'[i].who] = "done" /\ Queued(Ping(drain[i].who, -1))'
                    /\ kind'[drain'[i].who] # "admin"
                    /\ drain'[i].who \notin counted'
               /\ drain'[i].n = -1 =>
                    /\ pc'[drain'[i].who] = "done"
                    /\ \/ drain'[i].who \in counted'
                       \/ \E j \in 1..(i-1) : drain'[j] = Ping(drain'[i].who, 1)
    <3>1. CASE i \in 1..L
      BY Zenon, <2>5, <3>1
    <3>2. CASE i = L + 1
      <4>1. pc'[c] = "done" /\ 1..(i-1) = 1..L /\ drain'[i].n # 1
        BY SMTT(30), <1>1, <1>4, <2>6, <3>2
      <4>2. QED
        BY Zenon, <2>6, <2>7, <3>2, <4>1
    <3>3. QED
      BY Zenon, <2>2, <3>1, <3>2
  <2>9. QED
    BY Zenon, <1>1, <2>1, <2>4, <2>8 DEF DrainRight
<1>8. CountedRight'
  BY Zenon, <1>3, <1>4 DEF ShutdownInv, CountedRight, Ping, Served
<1>10. QED
  BY Zenon, <1>2, <1>7, <1>8, <1>9 DEF ShutdownInv

\* Reading a ping (main.rs:326) moves the client it is about from the channel
\* to the count, or takes it off the count.
LEMMA DrainRecvStep ==
  ASSUME ShutdownInv, DrainRecv
  PROVE  ShutdownInv'
<1> USE DEF DrainRecv, clientVars
<1> DEFINE L == Len(drain)
           p == drain[1]
<1>1. /\ drain' \in Seq([who: Clients \cup {Main}, n: {-1, 0, 1}])
      /\ L \in Nat \ {0} /\ Len(drain') = L - 1
      /\ \A i \in 1..L-1 : drain'[i] = drain[i+1]
      /\ Head(drain) = p
      /\ p \in [who: Clients \cup {Main}, n: {-1, 0, 1}]
  BY Zenon, RecvFacts DEF ShutdownInv
<1>2. /\ total_clients' = total_clients + p.n
      /\ counted' = Counted(p)
      /\ main' = IF total_clients + p.n = 0 /\ admin_only THEN "send_exit" ELSE "select"
  BY Zenon, <1>1
<1> p.n \in {-1, 0, 1} /\ p.who \in Clients \cup {Main} /\ (p.n # 0 => p.who \in Clients)
  BY SMTT(30), <1>1 DEF ShutdownInv, DrainRight
<1>3. TypeOK'
  <2>1. counted' \subseteq Clients /\ total_clients' \in Int
    BY SMTT(30), <1>2 DEF ShutdownInv, TypeOK, Counted
  <2>2. main' \in {"select", "send_exit"}
    BY Zenon, <1>2
  <2>3. QED
    BY ZenonT(60), <1>1, <2>1, <2>2 DEF ShutdownInv, TypeOK
<1> pc' = pc /\ kind' = kind
  BY Zenon
<1>u. main = "select" /\ UNCHANGED <<admin_only, exit, timer, known, term, clientVars>>
  BY ZenonT(60)
<1> HIDE DEF DrainRecv, clientVars
<1>4. /\ p.n = 1 => /\ p.who \notin counted /\ kind[p.who] # "admin"
                    /\ pc[p.who] \in Served \/ (pc[p.who] = "done" /\ Queued(Ping(p.who, -1)))
      /\ p.n = -1 => p.who \in counted /\ pc[p.who] = "done"
  BY SMTT(30), <1>1 DEF ShutdownInv, DrainRight
<1>5. \A i \in 2..L : drain[i].who = p.who /\ p.n # 0 => p.n = 1 /\ drain[i].n = -1
  <2>1. p.n # 0 => p.who # Main
    BY Zenon, ShutdownAssumption DEF ShutdownAssumption
  <2>2. \A i, j \in 1..L : i < j /\ drain[i].who = drain[j].who /\ drain[i].who # Main =>
          drain[i].n = 1 /\ drain[j].n = -1
    BY Zenon DEF ShutdownInv, DrainRight
  <2>3. \A i \in 2..L : 1 \in 1..L /\ i \in 1..L /\ 1 < i
    BY <1>1
  <2>4. QED
    BY Zenon, <2>1, <2>2, <2>3
<1>6. \A q : Queued(q) => q = p \/ Queued(q)'
  <2> SUFFICES ASSUME NEW i \in 1..L, i # 1 PROVE \E k \in 1..L-1 : drain'[k] = drain[i]
    BY Zenon, <1>1 DEF Queued
  <2>1. i - 1 \in 1..L-1 /\ drain'[i-1] = drain[i]
    BY SMTT(30), <1>1
  <2>2. QED
    BY Zenon, <2>1
<1>7. p = Ping(p.who, p.n)
  BY Zenon, <1>1 DEF Ping
<1>8. /\ total_clients' = Cardinality(counted')
      /\ total_clients' = 0 => counted' = {}
  <2>1. IsFiniteSet(counted) /\ IsFiniteSet(counted') /\ total_clients = Cardinality(counted)
    BY Zenon, <1>3, ShutdownAssumption, FS_Subset DEF ShutdownInv, TypeOK, CountedRight
  <2>2. p.n = 1 => total_clients' = Cardinality(counted')
    BY Zenon, <1>2, <1>4, <2>1, FS_AddElement DEF Counted
  <2>3. p.n = -1 => total_clients' = Cardinality(counted')
    BY SMTT(30), <1>2, <1>4, <2>1, FS_RemoveElement, FS_CardinalityType DEF Counted
  <2>4. p.n = 0 => total_clients' = Cardinality(counted')
    BY SMTT(30), <1>2, <2>1, FS_CardinalityType DEF Counted
  <2>5. total_clients' = Cardinality(counted')
    BY Zenon, <2>2, <2>3, <2>4
  <2>6. QED
    BY Zenon, <2>1, <2>5, FS_EmptySet
<1>9. /\ \A c \in Clients : c \in counted' => c \in counted \/ (p.n = 1 /\ c = p.who)
      /\ \A c \in Clients : c \in counted => c \in counted' \/ (p.n = -1 /\ c = p.who)
      /\ p.n = 1 => p.who \in counted'
      /\ p.n = -1 => p.who \notin counted'
  BY SMTT(30), <1>2 DEF Counted
<1>10. DrainRight'
  <2>1. \A i \in 1..L-1 : i+1 \in 2..L /\ i+1 \in 1..L /\ drain'[i] = drain[i+1]
    BY SMTT(30), <1>1
  <2>2. \A i \in 1..L-1 : drain'[i].n = 0 <=> drain'[i].who = Main
    BY SMTT(30), <2>1 DEF ShutdownInv, DrainRight
  <2>3. \A i, j \in 1..L-1 :
          i < j /\ drain'[i].who = drain'[j].who /\ drain'[i].who # Main =>
            drain'[i].n = 1 /\ drain'[j].n = -1
    <3>1. \A i, j \in 1..L :
            i < j /\ drain[i].who = drain[j].who /\ drain[i].who # Main =>
              drain[i].n = 1 /\ drain[j].n = -1
      BY Zenon DEF ShutdownInv, DrainRight
    <3> SUFFICES ASSUME NEW i \in 1..L-1, NEW j \in 1..L-1, i < j,
                        drain'[i].who = drain'[j].who, drain'[i].who # Main
                 PROVE  drain'[i].n = 1 /\ drain'[j].n = -1
      BY Zenon
    <3>2. i+1 \in 1..L /\ j+1 \in 1..L /\ i+1 < j+1
      BY SMTT(30), <1>1
    <3>3. QED
      BY SMTT(30), <2>1, <3>1, <3>2
  <2>4. ASSUME NEW i \in 1..L-1, drain'[i].n = 1
        PROVE  /\ \/ pc'[drain'[i].who] \in Served
                  \/ pc'[drain'[i].who] = "done" /\ Queued(Ping(drain[i].who, -1))'
               /\ kind'[drain'[i].who] # "admin"
               /\ drain'[i].who \notin counted'
    <3> DEFINE q == drain[i+1]
    <3>1. /\ kind[q.who] # "admin" /\ q.who \notin counted /\ q.who \in Clients
          /\ pc[q.who] \in Served \/ (pc[q.who] = "done" /\ Queued(Ping(q.who, -1)))
      BY SMTT(30), <2>1, <2>4, PingTypes DEF ShutdownInv, DrainRight
    <3>2. p.n # 0 => q.who # p.who
      BY SMTT(30), <1>5, <2>1, <2>4
    <3>3. Queued(Ping(q.who, -1)) => Queued(Ping(drain[i].who, -1))'
      <4>1. Ping(q.who, -1) # p
        BY <3>2 DEF Ping
      <4>2. drain'[i].who = q.who
        BY Zenon, <2>1
      <4>3. QED
        BY Zenon, <1>6, <4>1, <4>2 DEF Ping
    <3>4. drain'[i].who = q.who /\ q.who \notin counted'
      BY SMTT(30), <1>9, <2>1, <3>1, <3>2
    <3>5. QED
      BY ZenonT(60), <3>1, <3>3, <3>4, Zenon
  <2>5. ASSUME NEW i \in 1..L-1, drain'[i].n = -1
        PROVE  /\ pc'[drain'[i].who] = "done"
               /\ \/ drain'[i].who \in counted'
                  \/ \E j \in 1..(i-1) : drain'[j] = Ping(drain'[i].who, 1)
    <3> DEFINE q == drain[i+1]
    <3>1. /\ drain'[i] = q /\ q.n = -1 /\ q.who \in Clients /\ pc[q.who] = "done"
          /\ q.who \in counted \/ \E j \in 1..i : drain[j] = Ping(q.who, 1)
      BY SMTT(30), <2>1, <2>5, PingTypes DEF ShutdownInv, DrainRight
    <3>2. CASE q.who \in counted
      <4>1. ~(p.n = -1 /\ q.who = p.who)
        BY SMTT(30), <1>5, <2>1
      <4>2. QED
        BY Zenon, <1>9, <3>1, <3>2, <4>1
    <3>3. ASSUME NEW j \in 1..i, drain[j] = Ping(q.who, 1), j # 1
          PROVE  \E k \in 1..(i-1) : drain'[k] = Ping(q.who, 1)
      <4>1. j-1 \in 1..(i-1) /\ j-1 \in 1..L-1 /\ (j-1)+1 = j
        BY SMTT(30), <1>1, <3>3
      <4>2. drain'[j-1] = drain[j]
        BY Zenon, <2>1, <4>1
      <4>3. QED
        BY Zenon, <3>3, <4>1, <4>2
    <3>4. drain[1] = Ping(q.who, 1) => q.who \in counted'
      BY SMTT(30), <1>9 DEF Ping
    <3>5. QED
      BY ZenonT(60), <3>1, <3>2, <3>3, <3>4
  <2>6. QED
    BY ZenonT(60), <1>1, <2>2, <2>3, <2>4, <2>5 DEF DrainRight, Ping
<1>11. CountedRight'
  <2>1. ASSUME NEW c \in Clients, c \in counted'
        PROVE  kind[c] # "admin" /\ (pc[c] \in Served \/ (pc[c] = "done" /\ Queued(Ping(c, -1))'))
    <3>1. kind[c] # "admin" /\ (pc[c] \in Served \/ (pc[c] = "done" /\ Queued(Ping(c, -1))))
      BY Zenon, <1>4, <1>9, <2>1 DEF ShutdownInv, CountedRight
    <3>2. Ping(c, -1) # p
      BY SMTT(30), <1>9, <2>1 DEF Ping
    <3>3. Queued(Ping(c, -1)) => Queued(Ping(c, -1))'
      BY Zenon, <1>6, <3>2 DEF Ping
    <3>4. QED
      BY Zenon, <3>1, <3>3, ZenonT(30)
  <2>2. ASSUME NEW c \in Clients, pc[c] \in Served, kind[c] # "admin"
        PROVE  c \in counted' \/ Queued(Ping(c, 1))'
    <3>1. c \in counted => c \in counted'
      BY Zenon, <1>4, <1>9, <2>2 DEF Served
    <3>2. Queued(Ping(c, 1)) => Queued(Ping(c, 1))' \/ p = Ping(c, 1)
      BY Zenon, <1>6 DEF Ping
    <3>3. p = Ping(c, 1) => c \in counted'
      BY SMTT(30), <1>9 DEF Ping
    <3>4. c \in counted \/ Queued(Ping(c, 1))
      BY Zenon, <2>2 DEF ShutdownInv, CountedRight
    <3>5. QED
      BY Zenon, <3>1, <3>2, <3>3, <3>4, Zenon
  <2>3. \A c \in Clients : pc[c] \in {"register", "leave"} => kind[c] # "admin"
    BY Zenon DEF ShutdownInv, CountedRight
  <2>4. QED
    BY Zenon, <1>8, <2>1, <2>2, <2>3 DEF CountedRight, Ping
<1>12. GraceRight'
  BY ZenonT(60), <1>2, <1>4, <1>8, <1>9, <1>u DEF ShutdownInv, GraceRight, TypeOK, clientVars
<1>13. QED
  BY Zenon, <1>3, <1>10, <1>11, <1>12 DEF ShutdownInv

\* Nobody is connected when main enters its loop (main.rs:209).
LEMMA ShutdownInit == Init => ShutdownInv
<1> SUFFICES ASSUME Init PROVE ShutdownInv
  BY Zenon
<1>1. TypeOK
  <2> DEFINE P == [who: Clients \cup {Main}, n: {-1, 0, 1}]
  <2>1. drain \in Seq(P)
    <3> HIDE DEF P
    <3>1. QED
      BY DEF Init
  <2>2. pc \in [Clients -> {"new", "startup", "register", "done"} \cup Served]
    BY Zenon DEF Init
  <2>3. exit \in 0..1 /\ total_clients \in Int
    BY SMTT(30) DEF Init
  <2>4. QED
    BY Zenon, <2>1, <2>2, <2>3, Zenon DEF Init, TypeOK
<1>2. DrainRight
  BY DEF Init, DrainRight
<1>3. CountedRight
  BY Zenon, FS_EmptySet DEF Init, CountedRight, Served
<1>4. GraceRight
  BY Zenon DEF Init, GraceRight
<1>5. QED
  BY Zenon, <1>1, <1>2, <1>3, <1>4 DEF ShutdownInv

\* Every step of main, of the timer and of a client keeps the invariant.
LEMMA ShutdownNext == ShutdownInv /\ [Next]_vars => ShutdownInv'
<1> SUFFICES ASSUME ShutdownInv, [Next]_vars PROVE ShutdownInv'
  BY Zenon
<1>1. CASE UNCHANGED vars
  <2> USE <1>1 DEF vars, mainVars, clientVars
  <2>1. TypeOK'
    BY Zenon DEF ShutdownInv, TypeOK
  <2>2. DrainRight' /\ CountedRight'
    BY Zenon, Frame DEF ShutdownInv, CountedRight
  <2>3. GraceRight'
    BY Zenon DEF ShutdownInv, GraceRight
  <2>4. QED
    BY Zenon, <2>1, <2>2, <2>3 DEF ShutdownInv
<1>2. CASE MainStep
  BY Zenon, <1>2, ReloadStep, SigintStep, SendZeroStep, SigtermStep, ExitStep,
     DrainRecvStep, TimerStep DEF MainStep
<1>3. ASSUME NEW c \in Clients, ClientStep(c) PROVE ShutdownInv'
  BY Zenon, <1>3, QuietStep, RegisterStep, DeregisterStep DEF ClientStep
<1>4. QED
  BY Zenon, <1>1, <1>2, <1>3 DEF Next

\* ShutdownInv holds throughout, for any number of connections and any
\* capacity of the drain channel.
THEOREM ShutdownInvariant == Spec => []ShutdownInv
BY ShutdownInit, ShutdownNext, PTL DEF Spec

\* Once main has read every ping (main.rs:326), total_clients is the number of
\* clients being served.
THEOREM TotalIsRight == Spec => []TotalRight
<1>1. ShutdownInv => TotalRight
  <2> SUFFICES ASSUME ShutdownInv, drain = <<>>
               PROVE  total_clients = Cardinality({c \in Clients : pc[c] \in Served /\ kind[c] # "admin"})
    BY Zenon DEF TotalRight
  <2>1. \A p : ~Queued(p)
    BY SMTT(30) DEF Queued
  <2>2. counted = {c \in Clients : pc[c] \in Served /\ kind[c] # "admin"}
    BY Zenon, <2>1 DEF ShutdownInv, TypeOK, CountedRight
  <2>3. QED
    BY Zenon, <2>2 DEF ShutdownInv, CountedRight
<1>2. QED
  BY <1>1, ShutdownInvariant, PTL

\* A client that main has counted keeps its query until shutdown_timeout
\* (main.rs:330).
THEOREM CountedClientsHaveGrace == Spec => []GraceKept
<1>1. ShutdownInv => GraceKept
  BY Zenon DEF ShutdownInv, GraceRight, GraceKept, StoppedEarly
<1>2. QED
  BY <1>1, ShutdownInvariant, PTL
=============================================================================
