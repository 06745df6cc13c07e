----------------------- MODULE ServerConnectionProofs -----------------------
(***************************************************************************)
(* Proofs about ServerConnection: a connection leaves no trace and a       *)
(* mirror hears of its server in order, for any number of connections,     *)
(* messages and tasks.                                                     *)
(***************************************************************************)
EXTENDS ServerConnection, TLAPS

\* The types of the records of a task and of a connection.
MirrorRec == [at : {"get", "select", "done"}, bytes : Seq(Nat), exit : BOOLEAN, last : Nat]

ConnRec ==
  [at : {"none", "lookup", "answered", "socket", "prewarm", "idle", "used"},
   resolver : Nat, addr_set : Addrs \cup {None}, mirror : Nat, sent : Nat, bad : BOOLEAN]

Ready == {"prewarm", "idle", "used"}

\* What a task has and is still to send, and the last of it.
Ordered(m) ==
  /\ m.bytes # <<>> => m.last < m.bytes[1]
  /\ \A i \in 1..(Len(m.bytes) - 1) : m.bytes[i] < m.bytes[i + 1]

Latest(m) == IF m.bytes = <<>> THEN m.last ELSE m.bytes[Len(m.bytes)]

\* The order of a task, as MirrorInOrder says it.
LEMMA TaskInOrder ==
  ASSUME NEW r \in MirrorRec
  PROVE  LET m == <<r.last>> \o r.bytes
         IN  /\ Ordered(r) <=> \A i \in 1..(Len(m) - 1) : m[i] < m[i + 1]
             /\ Latest(r) = m[Len(m)]
  <1>2. PICK a, b : a = r.last /\ b = r.bytes /\ a \in Nat /\ b \in Seq(Nat)
    BY Zenon DEF MirrorRec
  <1> DEFINE m == <<a>> \o b
  <1>3. /\ m \in Seq(Nat)
        /\ Len(m) = Len(b) + 1
        /\ m[1] = a
        /\ \A i \in 1..Len(b) : m[i + 1] = b[i]
    BY <1>2
  <1> HIDE DEF m
  <1>4. Latest(r) = m[Len(m)]
    <2>1. CASE b = <<>>
      BY <2>1, <1>2, <1>3 DEF Latest
    <2>2. CASE b # <<>>
      <3>1. Len(b) \in 1..Len(b)
        BY <2>2, <1>2
      <3>2. m[Len(b) + 1] = b[Len(b)]
        BY Zenon, <3>1, <1>3
      <3> QED
        BY Zenon, <2>2, <3>2, <1>2, <1>3 DEF Latest
    <2> QED
      BY Zenon, <2>1, <2>2
  <1>5. ASSUME Ordered(r), NEW i \in 1..(Len(m) - 1) PROVE m[i] < m[i + 1]
    <2>1. CASE i = 1
      BY <2>1, <1>2, <1>3, <1>5 DEF Ordered
    <2>2. CASE i # 1
      <3>1. i - 1 \in 1..(Len(b) - 1) /\ i - 1 \in 1..Len(b) /\ i \in 1..Len(b) /\ (i - 1) + 1 = i
        BY SMTT(30), <2>2, <1>2, <1>3
      <3>2. b[i - 1] < b[i]
        BY Zenon, <3>1, <1>2, <1>5 DEF Ordered
      <3>3. m[i] = b[i - 1] /\ m[i + 1] = b[i]
        BY Zenon, <3>1, <1>3
      <3> QED
        BY Zenon, <3>2, <3>3
    <2> QED
      BY Zenon, <2>1, <2>2
  <1>6. ASSUME \A i \in 1..(Len(m) - 1) : m[i] < m[i + 1] PROVE Ordered(r)
    <2>1. b # <<>> => a < b[1]
      <3> SUFFICES ASSUME b # <<>> PROVE a < b[1]
        BY Zenon
      <3>1. 1 \in 1..(Len(m) - 1) /\ 1 \in 1..Len(b)
        BY SMTT(30), <1>2, <1>3
      <3>2. m[1] < m[1 + 1] /\ m[1 + 1] = b[1]
        BY Zenon, <3>1, <1>3, <1>6
      <3> QED
        BY Zenon, <3>2, <1>3
    <2>2. ASSUME NEW i \in 1..(Len(b) - 1) PROVE b[i] < b[i + 1]
      <3>1. i + 1 \in 1..(Len(m) - 1) /\ i \in 1..Len(b) /\ i + 1 \in 1..Len(b)
        <4>1. Len(b) \in Nat
          BY <1>2
        <4> QED
          BY SMTT(60), <4>1, <1>3
      <3> QED
        BY Zenon, <3>1, <1>3, <1>6
    <2> QED
      BY Zenon, <2>1, <2>2, <1>2 DEF Ordered
  <1> QED
    BY Zenon, <1>2, <1>4, <1>5, <1>6 DEF m

\* MirrorInOrder in these words, now and after a step.
LEMMA InOrder ==
  ASSUME mirrors \in Seq(MirrorRec)
  PROVE  MirrorInOrder <=> \A t \in DOMAIN mirrors :
           /\ Ordered(mirrors[t])
           /\ \A k \in Mirrored : conn[k].mirror = t => Latest(mirrors[t]) =< conn[k].sent
  <1>1. \A t \in DOMAIN mirrors : mirrors[t] \in MirrorRec
    OBVIOUS
  <1> QED
    BY Zenon, <1>1, TaskInOrder DEF MirrorInOrder

LEMMA InOrderNext ==
  ASSUME mirrors' \in Seq(MirrorRec)
  PROVE  MirrorInOrder' <=> \A t \in DOMAIN mirrors' :
           /\ Ordered(mirrors'[t])
           /\ \A k \in Mirrored : conn'[k].mirror = t => Latest(mirrors'[t]) =< conn'[k].sent
  <1>1. \A t \in DOMAIN mirrors' : mirrors'[t] \in MirrorRec
    OBVIOUS
  <1> QED
    BY Zenon, <1>1, TaskInOrder DEF MirrorInOrder

\* A message that is newer than the latest goes to the end.
LEMMA OrderAppend ==
  ASSUME NEW m \in MirrorRec, Ordered(m), NEW x \in Nat, Latest(m) < x
  PROVE  LET n == [m EXCEPT !.bytes = Append(m.bytes, x)]
         IN  n \in MirrorRec /\ Ordered(n) /\ Latest(n) = x /\ n.exit = m.exit
  <1> DEFINE n == [m EXCEPT !.bytes = Append(m.bytes, x)]
  <1>1. /\ n \in MirrorRec /\ n.exit = m.exit /\ n.last = m.last
        /\ n.bytes = Append(m.bytes, x) /\ m.bytes \in Seq(Nat) /\ m.last \in Nat
    <2>1. m.bytes \in Seq(Nat) /\ m.last \in Nat
      BY Zenon DEF MirrorRec
    <2>2. PICK a \in Seq(Nat) : a = m.bytes
      BY Zenon, <2>1
    <2> DEFINE b == Append(a, x)
    <2>3. b \in Seq(Nat)
      OBVIOUS
    <2> HIDE DEF b
    <2>4. n = [m EXCEPT !.bytes = b]
      BY Zenon, <2>2 DEF b
    <2> QED
      <3>1. b = Append(m.bytes, x)
        BY Zenon, <2>2 DEF b
      <3> QED
        BY Zenon, <3>1, <2>1, <2>3, <2>4 DEF MirrorRec
  <1> HIDE DEF n
  <1>2. PICK b \in Seq(Nat) : b = m.bytes
    BY Zenon, <1>1
  <1>3. /\ Len(n.bytes) = Len(b) + 1 /\ n.bytes # <<>>
        /\ n.bytes[Len(b) + 1] = x
        /\ \A i \in 1..Len(b) : n.bytes[i] = b[i]
    <2>1. n.bytes = Append(b, x)
      BY Zenon, <1>1, <1>2
    <2> QED
      BY SMTT(30), <2>1
  <1>4. Latest(n) = x
    BY Zenon, <1>3 DEF Latest
  <1>5. n.last < n.bytes[1]
    BY <1>1, <1>2, <1>3 DEF Ordered, Latest
  <1>6. ASSUME NEW i \in 1..(Len(n.bytes) - 1) PROVE n.bytes[i] < n.bytes[i + 1]
    <2>1. CASE i = Len(b)
      BY SMTT(60), <2>1, <1>2, <1>3 DEF Latest
    <2>2. CASE i # Len(b)
      <3>1. i \in 1..(Len(b) - 1) /\ i \in 1..Len(b) /\ i + 1 \in 1..Len(b)
        BY SMTT(30), <2>2, <1>3
      <3>2. b[i] < b[i + 1]
        BY Zenon, <3>1, <1>2 DEF Ordered
      <3> QED
        BY Zenon, <3>1, <3>2, <1>3
    <2> QED
      BY Zenon, <2>1, <2>2
  <1> QED
    BY Zenon, <1>1, <1>4, <1>5, <1>6 DEF Ordered, n

\* A message is taken from the front, and sent or lost.
LEMMA OrderTail ==
  ASSUME NEW m \in MirrorRec, Ordered(m), m.bytes # <<>>,
         NEW n \in MirrorRec, n.bytes = Tail(m.bytes), n.last \in {m.last, Head(m.bytes)}
  PROVE  Ordered(n) /\ Latest(n) =< Latest(m)
  <1>1. m.bytes \in Seq(Nat) /\ m.last \in Nat /\ Head(m.bytes) = m.bytes[1]
    BY DEF MirrorRec
  <1>2. PICK b \in Seq(Nat) : b = m.bytes
    BY Zenon, <1>1
  <1>3. PICK c \in Seq(Nat) : c = n.bytes
    BY Zenon DEF MirrorRec
  <1>4. /\ Len(c) = Len(b) - 1 /\ Len(b) \in Nat /\ Len(b) > 0
        /\ \A i \in 1..(Len(b) - 1) : c[i] = b[i + 1]
    BY <1>2, <1>3
  <1>5. m.last < b[1] /\ \A i \in 1..(Len(b) - 1) : b[i] < b[i + 1]
    BY Zenon, <1>2 DEF Ordered
  <1>5a. \A i \in 1..Len(b) : b[i] \in Nat
    BY SMTT(30)
  <1>6. n.last =< b[1] /\ n.last \in Nat
    BY SMTT(30), <1>1, <1>2, <1>4, <1>5, <1>5a
  <1>7. c # <<>> => n.last < c[1]
    <2> SUFFICES ASSUME c # <<>> PROVE n.last < c[1]
      BY Zenon
    <2>1. 1 \in 1..(Len(b) - 1) /\ 2 \in 1..Len(b) /\ 1 + 1 = 2
      BY SMTT(30), <1>3, <1>4
    <2>2. c[1] = b[2] /\ b[1] < b[2]
      BY Zenon, <2>1, <1>4, <1>5
    <2> QED
      BY SMTT(60), <2>1, <2>2, <1>5a, <1>6, <1>4
  <1>8. ASSUME NEW i \in 1..(Len(c) - 1) PROVE c[i] < c[i + 1]
    <2>1. i \in 1..(Len(b) - 1) /\ i + 1 \in 1..(Len(b) - 1)
      BY <1>4
    <2> QED
      BY Zenon, <2>1, <1>4, <1>5
  <1>9. Latest(n) =< Latest(m)
    <2>1. CASE c = <<>>
      <3>1. Len(b) = 1
        BY <2>1, <1>4
      <3> QED
        BY Zenon, <2>1, <3>1, <1>2, <1>3, <1>4, <1>6 DEF Latest
    <2>2. CASE c # <<>>
      <3>1. Len(c) \in 1..(Len(b) - 1) /\ Len(c) + 1 = Len(b)
        <4>1. Len(c) > 0 /\ Len(c) \in Nat
          BY <2>2
        <4> QED
          BY <4>1, <1>4
      <3>2. c[Len(c)] = b[Len(b)]
        BY Zenon, <3>1, <1>4
      <3> QED
        <4>1. Latest(n) = b[Len(b)]
          BY Zenon, <2>2, <3>2, <1>3 DEF Latest
        <4>2. Latest(m) = b[Len(b)]
          BY Zenon, <1>2 DEF Latest
        <4>3. b[Len(b)] \in Nat
          BY SMTT(30), <1>4, <1>5a
        <4> QED
          BY <4>1, <4>2, <4>3
    <2> QED
      BY Zenon, <2>1, <2>2
  <1> QED
    BY Zenon, <1>3, <1>7, <1>8, <1>9 DEF Ordered

-----------------------------------------------------------------------------
(* One task, one connection *)

\* A task changes and the others do not.
LEMMA TaskChanged ==
  ASSUME mirrors \in Seq(MirrorRec), NEW t \in DOMAIN mirrors, NEW r \in MirrorRec,
         mirrors' = [mirrors EXCEPT ![t] = r]
  PROVE  /\ mirrors' \in Seq(MirrorRec)
         /\ DOMAIN mirrors' = DOMAIN mirrors
         /\ mirrors'[t] = r
         /\ \A u \in DOMAIN mirrors : u # t => mirrors'[u] = mirrors[u]
  OBVIOUS

\* A task starts.
LEMMA TaskStarted ==
  ASSUME mirrors \in Seq(MirrorRec), spawn
  PROVE  /\ mirrors' \in Seq(MirrorRec)
         /\ Len(mirrors') = Len(mirrors) + 1 /\ Len(mirrors) \in Nat
         /\ DOMAIN mirrors = 1..Len(mirrors) /\ DOMAIN mirrors' = 1..(Len(mirrors) + 1)
         /\ mirrors'[Len(mirrors) + 1] = NewMirror
         /\ \A u \in DOMAIN mirrors : mirrors'[u] = mirrors[u]
  <1>1. NewMirror \in MirrorRec
    BY DEF NewMirror, MirrorRec
  <1> QED
    BY <1>1 DEF spawn

\* The part of the invariant that a step of connection k with the tasks left alone keeps.
LEMMA ConnChanged ==
  ASSUME ConnInv, NEW k \in Conns, NEW r \in ConnRec, NEW v \in {None, "login", "idle", "active"},
         conn' = [conn EXCEPT ![k] = r], stats' = [stats EXCEPT ![k] = v],
         v = None <=> r.at = "none",
         r.mirror = conn[k].mirror,
         k \in Mirrored => (r.at \in Ready <=> conn[k].at \in Ready),
         r.mirror # 0 => r.sent = conn[k].sent,
         UNCHANGED mirrors
  PROVE  /\ conn' \in [Conns -> ConnRec]
         /\ stats' \in [Conns -> {None, "login", "idle", "active"}]
         /\ OwnMirror' /\ NoTrace' /\ MirrorInOrder'
  <1> DEFINE R == {None, "login", "idle", "active"}
  <1>1. conn \in [Conns -> ConnRec] /\ stats \in [Conns -> R] /\ mirrors \in Seq(MirrorRec)
    BY Zenon DEF ConnInv, TypeOK, ConnRec, MirrorRec
  <1>2. conn' \in [Conns -> ConnRec] /\ stats' \in [Conns -> R]
    BY Zenon, <1>1
  <1>3. conn'[k] = r /\ stats'[k] = v
    BY Zenon, <1>1
  <1>4. \A l \in Conns : l # k => conn'[l] = conn[l] /\ stats'[l] = stats[l]
    BY Zenon, <1>1
  <1>5. \A l \in Conns : conn'[l].mirror = conn[l].mirror
    BY Zenon, <1>3, <1>4
  <1>6. OwnMirror'
    BY SMTT(30), <1>3, <1>4, <1>5, ConnsAssumption DEF ConnInv, OwnMirror, Ready
  <1>7. NoTrace'
    BY SMTT(30), <1>3, <1>4, <1>5, ConnsAssumption DEF ConnInv, NoTrace
  <1>8. MirrorInOrder'
    <2>1. 0 \notin DOMAIN mirrors
      BY <1>1
    <2>2. \A l \in Conns : conn[l].mirror \in DOMAIN mirrors => conn'[l].sent = conn[l].sent
      BY Zenon, <2>1, <1>3, <1>4
    <2> QED
      BY SMTT(30), <2>2, <1>5, ConnsAssumption DEF ConnInv, MirrorInOrder
  <1> QED
    BY Zenon, <1>2, <1>6, <1>7, <1>8

\* The connection of k ends: its task is told.
LEMMA DroppedInv ==
  ASSUME ConnInv, NEW k \in Conns, conn[k].at \in Ready, Dropped(k)
  PROVE  /\ mirrors' \in Seq(MirrorRec)
         /\ conn' \in [Conns -> ConnRec]
         /\ stats' \in [Conns -> {None, "login", "idle", "active"}]
         /\ OwnMirror' /\ NoTrace' /\ MirrorInOrder'
  <1> DEFINE R == {None, "login", "idle", "active"}
  <1>1. conn \in [Conns -> ConnRec] /\ stats \in [Conns -> R] /\ mirrors \in Seq(MirrorRec)
    BY Zenon DEF ConnInv, TypeOK, ConnRec, MirrorRec
  <1>2. conn' = [conn EXCEPT ![k] = Nobody] /\ stats' = [stats EXCEPT ![k] = None]
    BY Zenon DEF Dropped
  <1>3. Nobody \in ConnRec /\ Nobody.at = "none" /\ Nobody.mirror = 0
    BY Zenon DEF Nobody, ConnRec
  <1>4. CASE k \notin Mirrored
    <2>1. UNCHANGED mirrors
      BY Zenon, <1>4 DEF Dropped
    <2>2. conn[k].mirror = 0
      BY Zenon, <1>4 DEF ConnInv, OwnMirror
    <2> QED
      BY Zenon, <1>1, <1>2, <1>3, <1>4, <2>1, <2>2, ConnChanged
  <1>5. CASE k \in Mirrored
    <2> DEFINE t == conn[k].mirror
    <2>1. t \in DOMAIN mirrors /\ t # 0
      BY <1>1, <1>5 DEF ConnInv, OwnMirror, Ready
    <2>2. mirrors' = [mirrors EXCEPT ![t].exit = TRUE]
      BY Zenon, <1>5 DEF Dropped, mirror_disconnect
    <2>3. PICK m \in MirrorRec : m = mirrors[t]
      BY <1>1, <2>1
    <2>4. PICK n \in MirrorRec :
            n = [m EXCEPT !.exit = TRUE] /\ n.exit /\ n.bytes = m.bytes /\ n.last = m.last
      <3>1. [m EXCEPT !.exit = TRUE] \in MirrorRec
        BY Zenon DEF MirrorRec
      <3> QED
        BY Zenon, <3>1 DEF MirrorRec
    <2>5. mirrors' = [mirrors EXCEPT ![t] = n]
      BY Zenon, <2>2, <2>3, <2>4
    <2> HIDE DEF t
    <2>6. /\ mirrors' \in Seq(MirrorRec)
          /\ DOMAIN mirrors' = DOMAIN mirrors
          /\ mirrors'[t] = n
          /\ \A u \in DOMAIN mirrors : u # t => mirrors'[u] = mirrors[u]
      BY Zenon, <1>1, <2>1, <2>5, TaskChanged
    <2>7. conn' \in [Conns -> ConnRec] /\ stats' \in [Conns -> R]
      BY Zenon, <1>1, <1>2, <1>3
    <2>8. conn'[k] = Nobody /\ stats'[k] = None
      BY Zenon, <1>1, <1>2
    <2>9. \A l \in Conns : l # k => conn'[l] = conn[l] /\ stats'[l] = stats[l]
      BY Zenon, <1>1, <1>2
    <2>10. \A l \in Mirrored : l # k => conn[l].mirror # t
      BY Zenon, <1>5, <2>1 DEF ConnInv, OwnMirror, t
    <2>11. OwnMirror'
      BY SMTT(30), <1>3, <2>6, <2>8, <2>9, ConnsAssumption DEF ConnInv, OwnMirror
    <2>12. NoTrace'
      <3>1. \A l \in Conns : stats'[l] = None <=> conn'[l].at = "none"
        BY Zenon, <1>3, <2>8, <2>9 DEF ConnInv, NoTrace
      <3>2. ASSUME NEW u \in DOMAIN mirrors
            PROVE  mirrors'[u].exit \/ \E l \in Mirrored : conn'[l].mirror = u
        <4>1. CASE u = t
          BY Zenon, <4>1, <2>4, <2>6
        <4>2. CASE u # t
          BY SMTT(30), <4>2, <2>6, <2>9, ConnsAssumption DEF ConnInv, NoTrace, t
        <4> QED
          BY Zenon, <4>1, <4>2
      <3> QED
        BY Zenon, <3>1, <3>2, <2>6 DEF NoTrace
    <2>13. MirrorInOrder'
      <3>1. \A u \in DOMAIN mirrors :
              /\ Ordered(mirrors[u])
              /\ \A l \in Mirrored : conn[l].mirror = u => Latest(mirrors[u]) =< conn[l].sent
        BY Zenon, <1>1, InOrder DEF ConnInv
      <3>2. Ordered(n) /\ Latest(n) = Latest(m)
        BY SMTT(30), <2>1, <2>3, <2>4, <3>1 DEF Ordered, Latest, t
      <3>3. ASSUME NEW u \in DOMAIN mirrors
            PROVE  /\ Ordered(mirrors'[u])
                   /\ \A l \in Mirrored : conn'[l].mirror = u => Latest(mirrors'[u]) =< conn'[l].sent
        <4>1. CASE u = t
          BY Zenon, <4>1, <1>3, <2>1, <2>6, <2>8, <2>9, <2>10, <3>2, ConnsAssumption
        <4>2. CASE u # t
          <5>1. u # 0
            BY <1>1
          <5> QED
            BY Zenon, <4>2, <5>1, <1>3, <2>6, <2>8, <2>9, <3>1, ConnsAssumption
        <4> QED
          BY Zenon, <4>1, <4>2
      <3> QED
        BY Zenon, <3>3, <2>6, InOrderNext
    <2> QED
      BY Zenon, <2>6, <2>7, <2>11, <2>12, <2>13
  <1> QED
    BY Zenon, <1>4, <1>5

\* A connection is ready, and its task starts with nothing to send.
LEMMA LoginInv ==
  ASSUME ConnInv, NEW k \in Mirrored, Login(k)
  PROVE  mirrors' \in Seq(MirrorRec) /\ conn' \in [Conns -> ConnRec]
         /\ OwnMirror' /\ NoTrace' /\ MirrorInOrder'
  <1>1. conn \in [Conns -> ConnRec] /\ mirrors \in Seq(MirrorRec) /\ k \in Conns
    BY Zenon, ConnsAssumption DEF ConnInv, TypeOK, ConnRec, MirrorRec
  <1> DEFINE t == Len(mirrors) + 1
  <1>2. /\ mirrors' \in Seq(MirrorRec)
        /\ Len(mirrors') = t /\ Len(mirrors) \in Nat
        /\ DOMAIN mirrors = 1..Len(mirrors) /\ DOMAIN mirrors' = 1..t
        /\ mirrors'[t] = NewMirror
        /\ \A u \in DOMAIN mirrors : mirrors'[u] = mirrors[u]
    BY Zenon, <1>1, TaskStarted DEF Login
  <1>3. t \in Nat /\ t # 0 /\ t \notin DOMAIN mirrors /\ DOMAIN mirrors' = DOMAIN mirrors \cup {t}
    BY <1>2
  <1>4. conn' = [conn EXCEPT ![k].at = "prewarm", ![k].resolver = 0, ![k].mirror = t]
    BY Zenon, <1>2 DEF Login
  <1>5. UNCHANGED stats /\ conn[k].at = "socket"
    BY Zenon DEF Login
  <1> HIDE DEF t
  <1> DEFINE c == conn[k]
             d == [c EXCEPT !.at = "prewarm", !.resolver = 0, !.mirror = t]
  <1>4a. c \in ConnRec
    BY Zenon, <1>1
  <1>4b. conn' = [conn EXCEPT ![k] = d]
    BY Zenon, <1>4
  <1> HIDE DEF c
  <1>4c. d \in ConnRec /\ d.mirror = t /\ d.at = "prewarm" /\ d.sent \in Nat
    BY Zenon, <1>3, <1>4a DEF ConnRec
  <1> HIDE DEF d
  <1>6. conn' \in [Conns -> ConnRec]
    BY Zenon, <1>1, <1>4b, <1>4c
  <1>7. conn'[k].mirror = t /\ conn'[k].at = "prewarm" /\ conn'[k].sent \in Nat
    BY Zenon, <1>1, <1>4b, <1>4c
  <1>8. \A l \in Conns : l # k => conn'[l] = conn[l]
    BY Zenon, <1>1, <1>4b
  <1>9. \A l \in Conns : conn[l].mirror # t
    BY Zenon, <1>3 DEF ConnInv, OwnMirror
  <1>10. conn[k].mirror = 0
    BY Zenon, <1>1, <1>5 DEF ConnInv, OwnMirror
  <1>11. OwnMirror'
    <2>1. ASSUME NEW l \in Conns
          PROVE  conn'[l].mirror \in IF l \in Mirrored /\ conn'[l].at \in {"prewarm", "idle", "used"}
                                     THEN DOMAIN mirrors' ELSE {0}
      BY Zenon, <1>3, <1>7, <1>8 DEF ConnInv, OwnMirror
    <2>2. ASSUME NEW l \in Mirrored, NEW j \in Mirrored,
                 conn'[l].mirror = conn'[j].mirror, conn'[l].mirror # 0
          PROVE  l = j
      BY <2>2, <1>7, <1>8, <1>9, ConnsAssumption DEF ConnInv, OwnMirror
    <2> QED
      BY Zenon, <2>1, <2>2 DEF OwnMirror
  <1>12. NoTrace'
    <2>1. \A l \in Conns : stats'[l] = None <=> conn'[l].at = "none"
      BY ZenonT(60), <1>5, <1>7, <1>8 DEF ConnInv, NoTrace
    <2>2. ASSUME NEW u \in DOMAIN mirrors'
          PROVE  mirrors'[u].exit \/ \E l \in Mirrored : conn'[l].mirror = u
      <3>1. CASE u = t
        BY Zenon, <3>1, <1>7
      <3>2. CASE u # t
        <4>1. u \in DOMAIN mirrors /\ u # 0
          BY <3>2, <1>1, <1>3
        <4> QED
          BY SMTT(30), <4>1, <1>2, <1>8, <1>10, ConnsAssumption DEF ConnInv, NoTrace
      <3> QED
        BY Zenon, <3>1, <3>2
    <2> QED
      BY Zenon, <2>1, <2>2 DEF NoTrace
  <1>13. MirrorInOrder'
    <2>1. \A u \in DOMAIN mirrors :
            /\ Ordered(mirrors[u])
            /\ \A l \in Mirrored : conn[l].mirror = u => Latest(mirrors[u]) =< conn[l].sent
      BY Zenon, <1>1, InOrder DEF ConnInv
    <2>2. Ordered(NewMirror) /\ Latest(NewMirror) = 0
      BY DEF Ordered, Latest, NewMirror
    <2>3. ASSUME NEW u \in DOMAIN mirrors'
          PROVE  /\ Ordered(mirrors'[u])
                 /\ \A l \in Mirrored : conn'[l].mirror = u => Latest(mirrors'[u]) =< conn'[l].sent
      <3>1. CASE u = t
        BY SMTT(30), <3>1, <1>2, <1>7, <1>8, <1>9, <2>2, ConnsAssumption DEF t
      <3>2. CASE u # t
        BY Zenon, <3>2, <1>2, <1>3, <1>7, <1>8, <2>1, ConnsAssumption
      <3> QED
        BY Zenon, <3>1, <3>2
    <2> QED
      BY Zenon, <2>3, <1>2, InOrderNext
  <1> QED
    BY Zenon, <1>2, <1>6, <1>11, <1>12, <1>13

\* A message is sent on a connection, and goes to the end of its task's channel or
\* nowhere.
LEMMA SendInv ==
  ASSUME ConnInv, NEW k \in Conns, Send(k)
  PROVE  mirrors' \in Seq(MirrorRec) /\ conn' \in [Conns -> ConnRec]
         /\ OwnMirror' /\ NoTrace' /\ MirrorInOrder'
  <1> DEFINE t == conn[k].mirror
             x == conn[k].sent + 1
  <1>1. conn \in [Conns -> ConnRec] /\ mirrors \in Seq(MirrorRec)
    BY Zenon DEF ConnInv, TypeOK, ConnRec, MirrorRec
  <1>2. k \in Mirrored /\ conn[k].at = "used" /\ UNCHANGED stats
    BY Zenon DEF Send
  <1>3. t \in DOMAIN mirrors /\ t # 0 /\ x \in Nat /\ conn[k].sent \in Nat
    BY SMTT(30), <1>1, <1>2 DEF ConnInv, OwnMirror, ConnRec
  <1>4. PICK bad \in BOOLEAN : conn' = [conn EXCEPT ![k].sent = @ + 1, ![k].bad = bad]
    BY Zenon DEF Send
  <1>5. \A u \in DOMAIN mirrors :
          /\ Ordered(mirrors[u])
          /\ \A l \in Mirrored : conn[l].mirror = u => Latest(mirrors[u]) =< conn[l].sent
    BY Zenon, <1>1, InOrder DEF ConnInv
  <1>6. PICK m \in MirrorRec : m = mirrors[t]
    BY <1>1, <1>3
  <1>7. Ordered(m) /\ Latest(m) =< conn[k].sent /\ Latest(m) \in Nat
    <2>1. Latest(m) \in Nat
      BY DEF Latest, MirrorRec
    <2> QED
      BY Zenon, <2>1, <1>2, <1>3, <1>5, <1>6
  <1>8. PICK n \in MirrorRec :
          /\ mirrors' = [mirrors EXCEPT ![t] = n]
          /\ Ordered(n) /\ Latest(n) =< x /\ n.exit = m.exit
    <2>1. CASE Len(mirrors[t].bytes) < Capacity /\ mirrors[t].at # "done"
      <3>1. mirrors' = [mirrors EXCEPT ![t].bytes = Append(m.bytes, x)]
        BY Zenon, <2>1, <1>1, <1>3, <1>6 DEF Send, mirror_send
      <3>2. Latest(m) < x
        BY <1>3, <1>7
      <3> DEFINE n == [m EXCEPT !.bytes = Append(m.bytes, x)]
      <3>3. n \in MirrorRec /\ Ordered(n) /\ Latest(n) = x /\ n.exit = m.exit
        BY Zenon, <3>2, <1>3, <1>7, OrderAppend
      <3>4. mirrors' = [mirrors EXCEPT ![t] = n]
        BY Zenon, <3>1, <1>1, <1>3, <1>6
      <3> HIDE DEF n
      <3>5. Latest(n) =< x
        BY <3>3, <1>3
      <3> QED
        BY Zenon, <3>3, <3>4, <3>5
    <2>2. CASE ~(Len(mirrors[t].bytes) < Capacity /\ mirrors[t].at # "done")
      <3>1. mirrors' = [mirrors EXCEPT ![t].bytes = mirrors[t].bytes]
        BY Zenon, <2>2, <1>1, <1>3 DEF Send, mirror_send
      <3>2. m = [m EXCEPT !.bytes = m.bytes]
        BY Zenon DEF MirrorRec
      <3>3. mirrors' = [mirrors EXCEPT ![t] = m]
        BY Zenon, <3>1, <3>2, <1>6
      <3>4. Latest(m) =< x
        BY <1>3, <1>7
      <3> QED
        BY Zenon, <3>3, <3>4, <1>7
    <2> QED
      BY Zenon, <2>1, <2>2
  <1> HIDE DEF t
  <1>9. /\ mirrors' \in Seq(MirrorRec)
        /\ DOMAIN mirrors' = DOMAIN mirrors
        /\ mirrors'[t] = n
        /\ \A u \in DOMAIN mirrors : u # t => mirrors'[u] = mirrors[u]
    BY Zenon, <1>1, <1>3, <1>8, TaskChanged
  <1> DEFINE c == conn[k]
             d == [c EXCEPT !.sent = x, !.bad = bad]
  <1>9a. c \in ConnRec /\ c.mirror = t /\ c.at = "used"
    BY Zenon, <1>1, <1>2 DEF t
  <1>9b. conn' = [conn EXCEPT ![k] = d]
    BY Zenon, <1>4
  <1> HIDE DEF c, x
  <1>9c. d \in ConnRec /\ d.mirror = t /\ d.at = "used" /\ d.sent = x
    BY Zenon, <1>3, <1>9a DEF ConnRec
  <1> HIDE DEF d
  <1>10. conn' \in [Conns -> ConnRec]
    BY Zenon, <1>1, <1>9b, <1>9c
  <1>11. conn'[k].mirror = t /\ conn'[k].at = "used" /\ conn'[k].sent = x
    BY Zenon, <1>1, <1>9b, <1>9c
  <1>12. \A l \in Conns : l # k => conn'[l] = conn[l]
    BY Zenon, <1>1, <1>9b
  <1>12a. \A l \in Conns : conn'[l].mirror = conn[l].mirror /\ conn'[l].at = conn[l].at
    BY Zenon, <1>2, <1>11, <1>12 DEF t
  <1>13. OwnMirror'
    BY SMTT(30), <1>9, <1>12a, ConnsAssumption DEF ConnInv, OwnMirror
  <1>14. \A u \in DOMAIN mirrors : mirrors'[u].exit = mirrors[u].exit
    BY Zenon, <1>6, <1>8, <1>9
  <1>15. NoTrace'
    BY SMTT(30), <1>2, <1>9, <1>12a, <1>14, ConnsAssumption DEF ConnInv, NoTrace
  <1>16. \A l \in Mirrored : l # k => conn[l].mirror # t
    BY Zenon, <1>2, <1>3 DEF ConnInv, OwnMirror, t
  <1>17. MirrorInOrder'
    <2>1. ASSUME NEW u \in DOMAIN mirrors'
          PROVE  /\ Ordered(mirrors'[u])
                 /\ \A l \in Mirrored : conn'[l].mirror = u => Latest(mirrors'[u]) =< conn'[l].sent
      <3>1. CASE u = t
        BY Zenon, <3>1, <1>8, <1>9, <1>11, <1>12, <1>16, ConnsAssumption
      <3>2. CASE u # t
        BY Zenon, <3>2, <1>5, <1>9, <1>11, <1>12, ConnsAssumption
      <3> QED
        BY Zenon, <3>1, <3>2
    <2> QED
      BY Zenon, <2>1, <1>9, InOrderNext
  <1> QED
    BY Zenon, <1>9, <1>10, <1>13, <1>15, <1>17

\* The task takes a step: what it is still to send is never newer than before.
LEMMA TaskInv ==
  ASSUME ConnInv, NEW t \in DOMAIN mirrors, MirrorTask(t), UNCHANGED <<conn, stats>>
  PROVE  mirrors' \in Seq(MirrorRec) /\ OwnMirror' /\ NoTrace' /\ MirrorInOrder'
  <1>1. conn \in [Conns -> ConnRec] /\ mirrors \in Seq(MirrorRec)
    BY Zenon DEF ConnInv, TypeOK, ConnRec, MirrorRec
  <1>2. \A u \in DOMAIN mirrors :
          /\ Ordered(mirrors[u])
          /\ \A l \in Mirrored : conn[l].mirror = u => Latest(mirrors[u]) =< conn[l].sent
    BY Zenon, <1>1, InOrder DEF ConnInv
  <1>3. PICK m \in MirrorRec : m = mirrors[t]
    BY <1>1
  <1>4. /\ m.bytes \in Seq(Nat) /\ m.last \in Nat /\ m.exit \in BOOLEAN
        /\ Latest(m) \in Nat /\ Ordered(m)
    <2>1. m.bytes \in Seq(Nat) /\ m.last \in Nat /\ m.exit \in BOOLEAN
      BY Zenon DEF MirrorRec
    <2> QED
      BY SMTT(30), <2>1, <1>2, <1>3 DEF Latest
  <1>5. PICK n \in MirrorRec :
          /\ mirrors' = [mirrors EXCEPT ![t] = n]
          /\ Ordered(n) /\ Latest(n) \in Nat /\ Latest(n) =< Latest(m) /\ (m.exit => n.exit)
    <2>1. CASE MirrorGet(t) \/ MirrorRecv(t)
      <3>1. PICK a \in {"get", "select"} : mirrors' = [mirrors EXCEPT ![t].at = a]
        BY Zenon, <2>1 DEF MirrorGet, MirrorRecv
      <3> DEFINE n == [m EXCEPT !.at = a]
      <3>2. mirrors' = [mirrors EXCEPT ![t] = n]
        BY Zenon, <3>1, <1>3
      <3>3. n \in MirrorRec /\ n.bytes = m.bytes /\ n.last = m.last /\ n.exit = m.exit
        BY Zenon DEF MirrorRec
      <3> HIDE DEF n
      <3>4. Ordered(n) /\ Latest(n) = Latest(m)
        BY Zenon, <3>3, <1>4 DEF Ordered, Latest
      <3> QED
        <4>1. Latest(n) \in Nat /\ Latest(n) =< Latest(m) /\ (m.exit => n.exit)
          BY <3>3, <3>4, <1>4
        <4> QED
          BY Zenon, <3>2, <3>3, <3>4, <4>1
    <2>2. CASE MirrorExit(t)
      <3> DEFINE n == [NewMirror EXCEPT !.at = "done", !.exit = TRUE]
      <3>1. mirrors' = [mirrors EXCEPT ![t] = n]
        BY Zenon, <2>2 DEF MirrorExit
      <3>2. n \in MirrorRec /\ n.bytes = <<>> /\ n.last = 0 /\ n.exit = TRUE
        <4>a. NewMirror \in MirrorRec /\ NewMirror.last = 0
          BY DEF MirrorRec, NewMirror
        <4>b. NewMirror.bytes = <<>>
          BY Zenon DEF NewMirror
        <4>1. PICK z \in MirrorRec : z = NewMirror /\ z.bytes = <<>> /\ z.last = 0
          BY Zenon, <4>a, <4>b
        <4>2. n = [z EXCEPT !.at = "done", !.exit = TRUE]
          BY Zenon, <4>1
        <4> QED
          BY Zenon, <4>1, <4>2 DEF MirrorRec
      <3> HIDE DEF n
      <3>3. Ordered(n) /\ Latest(n) = 0
        BY <3>2 DEF Ordered, Latest
      <3> QED
        <4>1. Latest(n) \in Nat /\ Latest(n) =< Latest(m) /\ (m.exit => n.exit)
          BY <3>2, <3>3, <1>4
        <4> QED
          BY Zenon, <3>1, <3>2, <3>3, <4>1
    <2>3. CASE MirrorSend(t)
      <3>1. m.bytes # <<>>
        BY Zenon, <2>3, <1>3 DEF MirrorSend
      <3>2. PICK b \in Seq(Nat), h \in Nat : b = Tail(m.bytes) /\ h = Head(m.bytes)
        <4>1. PICK q \in Seq(Nat) : q = m.bytes /\ q # <<>>
          BY Zenon, <3>1, <1>4
        <4>2. Tail(q) \in Seq(Nat) /\ Head(q) \in Nat
          BY SMTT(30), <4>1
        <4> QED
          BY Zenon, <4>1, <4>2
      <3>3. PICK x \in {m.last, h} :
              mirrors' = [mirrors EXCEPT ![t] = [m EXCEPT !.at = "get", !.bytes = b, !.last = x]]
        <4>1. CASE mirrors' = [mirrors EXCEPT ![t].at = "get", ![t].bytes = Tail(@),
                                              ![t].last = Head(mirrors[t].bytes)]
          BY Zenon, <4>1, <3>2, <1>3
        <4>2. CASE mirrors' = [mirrors EXCEPT ![t].at = "get", ![t].bytes = Tail(@)]
          <5>1. mirrors' = [mirrors EXCEPT ![t] = [m EXCEPT !.at = "get", !.bytes = b]]
            BY Zenon, <4>2, <3>2, <1>3
          <5>2. [m EXCEPT !.at = "get", !.bytes = b] =
                [m EXCEPT !.at = "get", !.bytes = b, !.last = m.last]
            BY Zenon DEF MirrorRec
          <5> QED
            BY Zenon, <5>1, <5>2
        <4> QED
          BY Zenon, <2>3, <4>1, <4>2 DEF MirrorSend
      <3> DEFINE n == [m EXCEPT !.at = "get", !.bytes = b, !.last = x]
      <3>4. n \in MirrorRec /\ n.bytes = b /\ n.last = x /\ n.exit = m.exit
        BY Zenon, <3>2, <1>4 DEF MirrorRec
      <3>5. mirrors' = [mirrors EXCEPT ![t] = n]
        BY Zenon, <3>3
      <3> HIDE DEF n
      <3>6. Ordered(n) /\ Latest(n) =< Latest(m)
        BY Zenon, <3>1, <3>2, <3>4, <1>4, OrderTail
      <3>7. Latest(n) \in Nat
        <4>1. n.bytes \in Seq(Nat) /\ n.last \in Nat
          BY Zenon, <3>4 DEF MirrorRec
        <4> QED
          BY SMTT(30), <4>1 DEF Latest
      <3> QED
        BY Zenon, <3>4, <3>5, <3>6, <3>7
    <2> QED
      BY Zenon, <2>1, <2>2, <2>3 DEF MirrorTask
  <1>6. /\ mirrors' \in Seq(MirrorRec)
        /\ DOMAIN mirrors' = DOMAIN mirrors
        /\ mirrors'[t] = n
        /\ \A u \in DOMAIN mirrors : u # t => mirrors'[u] = mirrors[u]
    BY Zenon, <1>1, <1>5, TaskChanged
  <1>7. OwnMirror'
    BY Zenon, <1>6 DEF ConnInv, OwnMirror
  <1>8. NoTrace'
    <2>1. \A u \in DOMAIN mirrors : mirrors[u].exit => mirrors'[u].exit
      BY Zenon, <1>3, <1>5, <1>6
    <2> QED
      BY Zenon, <2>1, <1>6 DEF ConnInv, NoTrace
  <1>9. MirrorInOrder'
    <2>1. ASSUME NEW u \in DOMAIN mirrors'
          PROVE  /\ Ordered(mirrors'[u])
                 /\ \A l \in Mirrored : conn'[l].mirror = u => Latest(mirrors'[u]) =< conn'[l].sent
      <3>1. CASE u = t
        <4>1. \A l \in Mirrored : conn[l].mirror = t => Latest(m) =< conn[l].sent /\ conn[l].sent \in Nat
          BY Zenon, <1>1, <1>2, <1>3, ConnsAssumption DEF ConnRec
        <4>2. \A l \in Mirrored : conn[l].mirror = t => Latest(n) =< conn[l].sent
          BY SMTT(30), <4>1, <1>4, <1>5
        <4> QED
          BY Zenon, <3>1, <4>2, <1>5, <1>6
      <3>2. CASE u # t
        BY Zenon, <3>2, <1>2, <1>6
      <3> QED
        BY Zenon, <3>1, <3>2
    <2> QED
      BY Zenon, <2>1, <1>6, InOrderNext
  <1> QED
    BY Zenon, <1>6, <1>7, <1>8, <1>9

-----------------------------------------------------------------------------
(* Initial states *)

\* The invariant holds before the first connection.
LEMMA InitInv == Init => ConnInv
  <1> SUFFICES ASSUME Init PROVE ConnInv
    BY Zenon
  <1> USE DEF Init, DnsInit, Nobody, Asleep
  <1>1. TypeOK
    BY ConnsAssumption DEF TypeOK
  <1>2. OwnMirror
    BY Zenon, ConnsAssumption DEF OwnMirror
  <1>3. NoTrace
    BY SMTT(30) DEF NoTrace
  <1>4. MirrorInOrder
    BY DEF MirrorInOrder
  <1> QED
    BY Zenon, <1>1, <1>2, <1>3, <1>4 DEF ConnInv

-----------------------------------------------------------------------------
(* Steps *)

\* What a connection's own steps keep.
Kept ==
  /\ mirrors' \in Seq(MirrorRec)
  /\ conn' \in [Conns -> ConnRec]
  /\ stats' \in [Conns -> {None, "login", "idle", "active"}]
  /\ OwnMirror' /\ NoTrace' /\ MirrorInOrder'

\* A step that leaves the tasks alone and gives the connection another record.
LEMMA Quiet ==
  ASSUME ConnInv, NEW k \in Conns, NEW r \in ConnRec, NEW v \in {None, "login", "idle", "active"},
         conn' = [conn EXCEPT ![k] = r], stats' = [stats EXCEPT ![k] = v],
         v = None <=> r.at = "none",
         r.mirror = conn[k].mirror,
         k \in Mirrored => (r.at \in Ready <=> conn[k].at \in Ready),
         r.mirror # 0 => r.sent = conn[k].sent,
         UNCHANGED mirrors
  PROVE  Kept
  <1>1. mirrors' \in Seq(MirrorRec)
    BY Zenon DEF ConnInv, TypeOK, MirrorRec
  <1> QED
    BY Zenon, <1>1, ConnChanged DEF Kept

\* The startup of a connection, up to its login.
LEMMA StartSteps ==
  ASSUME ConnInv, NEW k \in Conns,
         \/ Connect(k) \/ LookupAnswer(k) \/ LookupStore(k) \/ LookupError(k)
         \/ Broken(k) \/ Login(k)
  PROVE  Kept
  <1> DEFINE R == {None, "login", "idle", "active"}
  <1> DEFINE c == conn[k]
  <1>1. conn \in [Conns -> ConnRec] /\ stats \in [Conns -> R]
    BY Zenon DEF ConnInv, TypeOK, ConnRec
  <1>2. c \in ConnRec /\ (stats[k] = None <=> c.at = "none")
    BY Zenon, <1>1 DEF ConnInv, NoTrace
  <1>3. stats = [stats EXCEPT ![k] = stats[k]] /\ stats[k] \in R
    BY Zenon, <1>1
  <1>4. c.at \in Ready => c.at \in {"prewarm", "idle", "used"}
    BY Zenon DEF Ready
  <1>5. CASE Connect(k)
    <2>1. PICK a \in {"lookup", "socket"}, i \in Nat, s \in Addrs \cup {None} :
            conn' = [conn EXCEPT ![k].at = a, ![k].resolver = i, ![k].addr_set = s]
      BY ZenonT(60), <1>5 DEF Connect, ConnInv, TypeOK
    <2> DEFINE r == [c EXCEPT !.at = a, !.resolver = i, !.addr_set = s]
    <2>2. conn' = [conn EXCEPT ![k] = r]
      BY Zenon, <2>1
    <2>3. c.at = "none" /\ stats' = [stats EXCEPT ![k] = "login"] /\ UNCHANGED mirrors
      BY Zenon, <1>5 DEF Connect
    <2> HIDE DEF c
    <2>4. r \in ConnRec /\ r.mirror = c.mirror /\ r.sent = c.sent /\ r.at = a
      BY Zenon, <1>2 DEF ConnRec
    <2> HIDE DEF r
    <2>5. r.at \notin Ready /\ c.at \notin Ready /\ r.at # "none"
      BY Zenon, <2>3, <2>4 DEF Ready
    <2>6. "login" # None
      BY Zenon, ConnsAssumption
    <2> QED
      BY Zenon, <2>2, <2>3, <2>4, <2>5, <2>6, Quiet DEF c
  <1>6. CASE LookupAnswer(k)
    <2> DEFINE r == [c EXCEPT !.at = "answered", !.addr_set = dns]
    <2>1. conn' = [conn EXCEPT ![k] = r] /\ dns \in Addrs
      BY Zenon, <1>6 DEF LookupAnswer, ConnInv, TypeOK
    <2>2. c.at = "lookup" /\ UNCHANGED <<stats, mirrors>>
      BY Zenon, <1>6 DEF LookupAnswer
    <2> HIDE DEF c
    <2>3. r \in ConnRec /\ r.mirror = c.mirror /\ r.sent = c.sent /\ r.at = "answered"
      BY Zenon, <1>2, <2>1 DEF ConnRec
    <2> HIDE DEF r
    <2>4. r.at \notin Ready /\ c.at \notin Ready /\ stats[k] # None
      BY Zenon, <1>2, <2>2, <2>3 DEF Ready
    <2> QED
      BY Zenon, <1>3, <2>1, <2>2, <2>3, <2>4, Quiet DEF c
  <1>7. CASE LookupStore(k) \/ LookupError(k)
    <2> DEFINE r == [c EXCEPT !.at = "socket"]
    <2>1. conn' = [conn EXCEPT ![k] = r]
      BY Zenon, <1>7 DEF LookupStore, LookupError
    <2>2. c.at \in {"lookup", "answered"} /\ UNCHANGED <<stats, mirrors>>
      BY Zenon, <1>7 DEF LookupStore, LookupError
    <2> HIDE DEF c
    <2>3. r \in ConnRec /\ r.mirror = c.mirror /\ r.sent = c.sent /\ r.at = "socket"
      BY Zenon, <1>2 DEF ConnRec
    <2> HIDE DEF r
    <2>4. r.at \notin Ready /\ c.at \notin Ready /\ stats[k] # None
      BY Zenon, <1>2, <2>2, <2>3 DEF Ready
    <2> QED
      BY Zenon, <1>3, <2>1, <2>2, <2>3, <2>4, Quiet DEF c
  <1>8. CASE Broken(k)
    <2>1. conn' = [conn EXCEPT ![k] = Nobody] /\ stats' = [stats EXCEPT ![k] = None]
          /\ UNCHANGED mirrors /\ c.at = "socket"
      BY Zenon, <1>8 DEF Broken, StartupFails
    <2>2. c.mirror = 0
      BY Zenon, <2>1 DEF ConnInv, OwnMirror
    <2>3. Nobody \in ConnRec /\ Nobody.at = "none" /\ Nobody.mirror = 0
      BY Zenon DEF Nobody, ConnRec
    <2>4. Nobody.at \notin Ready /\ c.at \notin Ready
      BY Zenon, <2>1, <2>3 DEF Ready
    <2> HIDE DEF c
    <2> QED
      BY Zenon, <2>1, <2>2, <2>3, <2>4, Quiet DEF c
  <1>9. CASE Login(k) /\ k \in Mirrored
    <2>1. stats' \in [Conns -> R]
      BY Zenon, <1>1, <1>9 DEF Login
    <2> QED
      BY Zenon, <1>9, <2>1, LoginInv DEF Kept
  <1>10. CASE Login(k) /\ k \notin Mirrored
    <2> DEFINE r == [c EXCEPT !.at = "prewarm", !.resolver = 0, !.mirror = 0]
    <2>1. conn' = [conn EXCEPT ![k] = r] /\ UNCHANGED <<mirrors, stats>> /\ c.at = "socket"
      BY Zenon, <1>10 DEF Login
    <2>2. c.mirror = 0
      BY Zenon, <2>1 DEF ConnInv, OwnMirror
    <2> HIDE DEF c
    <2>3. r \in ConnRec /\ r.mirror = c.mirror /\ r.sent = c.sent /\ r.at = "prewarm"
      BY Zenon, <1>2, <2>2 DEF ConnRec
    <2> HIDE DEF r
    <2>4. stats[k] # None
      BY Zenon, <1>2, <2>1
    <2> QED
      BY Zenon, <1>3, <1>10, <2>1, <2>3, <2>4, Quiet DEF c
  <1> QED
    BY Zenon, <1>5, <1>6, <1>7, <1>8, <1>9, <1>10

\* A connection in the pool.
LEMMA PoolSteps ==
  ASSUME ConnInv, NEW k \in Conns,
         \/ Prewarm(k) \/ CheckOut(k) \/ Send(k) \/ MarkBad(k) \/ CheckIn(k) \/ Reap(k)
  PROVE  Kept
  <1> DEFINE R == {None, "login", "idle", "active"}
  <1> DEFINE c == conn[k]
  <1>1. conn \in [Conns -> ConnRec] /\ stats \in [Conns -> R]
    BY Zenon DEF ConnInv, TypeOK, ConnRec
  <1>2. c \in ConnRec /\ (stats[k] = None <=> c.at = "none")
    BY Zenon, <1>1 DEF ConnInv, NoTrace
  <1>3. stats = [stats EXCEPT ![k] = stats[k]] /\ stats[k] \in R
    BY Zenon, <1>1
  <1>4. CASE Send(k)
    <2>1. stats' \in [Conns -> R]
      BY Zenon, <1>1, <1>4 DEF Send
    <2> QED
      BY Zenon, <1>4, <2>1, SendInv DEF Kept
  <1>5. CASE c.at \in Ready /\ Dropped(k)
    BY Zenon, <1>5, DroppedInv DEF Kept
  <1>6. ASSUME c.at \in Ready, NEW a \in Ready, NEW v \in R, v # None,
               conn' = [conn EXCEPT ![k].at = a], stats' = [stats EXCEPT ![k] = v],
               UNCHANGED mirrors
        PROVE  Kept
    <2> DEFINE r == [c EXCEPT !.at = a]
    <2>1. conn' = [conn EXCEPT ![k] = r]
      BY Zenon, <1>6
    <2> HIDE DEF c
    <2>2. r \in ConnRec /\ r.mirror = c.mirror /\ r.sent = c.sent /\ r.at = a
      BY Zenon, <1>2 DEF ConnRec, Ready
    <2> HIDE DEF r
    <2>3. r.at # "none"
      BY Zenon, <2>2 DEF Ready
    <2> QED
      BY ZenonT(60), <1>6, <2>1, <2>2, <2>3, Quiet DEF c
  <1>7. CASE MarkBad(k)
    <2> DEFINE r == [c EXCEPT !.bad = TRUE]
    <2>1. conn' = [conn EXCEPT ![k] = r] /\ UNCHANGED <<mirrors, stats>>
      BY Zenon, <1>7 DEF MarkBad
    <2> HIDE DEF c
    <2>2. r \in ConnRec /\ r.mirror = c.mirror /\ r.sent = c.sent /\ r.at = c.at
      BY Zenon, <1>2 DEF ConnRec
    <2> HIDE DEF r
    <2> QED
      BY Zenon, <1>2, <1>3, <2>1, <2>2, Quiet DEF c
  <1>8. "idle" \in R \ {None} /\ "active" \in R \ {None} /\ "idle" \in Ready /\ "used" \in Ready
        /\ "prewarm" \in Ready
    BY Zenon, ConnsAssumption DEF Ready
  <1>9. CASE Prewarm(k)
    BY Zenon, <1>5, <1>6, <1>8, <1>9 DEF Prewarm
  <1>10. CASE CheckOut(k)
    BY Zenon, <1>6, <1>8, <1>10 DEF CheckOut
  <1>11. CASE CheckIn(k)
    BY Zenon, <1>5, <1>6, <1>8, <1>11 DEF CheckIn
  <1>12. CASE Reap(k)
    BY Zenon, <1>5, <1>8, <1>12 DEF Reap
  <1> QED
    BY Zenon, <1>4, <1>7, <1>9, <1>10, <1>11, <1>12

\* DNS and the resolver keep their types in every step.
LEMMA DnsTypes ==
  ASSUME ConnInv, Next
  PROVE  /\ dns' \in Addrs
         /\ resolver' \in [id : Nat, enabled : BOOLEAN, data : Addrs \cup {None}]
         /\ refresh' \in [at : {"sleep", "asked", "answered"}, old : Addrs \cup {None},
                          new : Addrs \cup {None}]
  <1> USE DEF ConnInv, TypeOK
  <1>1. CASE UNCHANGED dnsVars
    BY Zenon, <1>1 DEF dnsVars
  <1>2. CASE Dns
    <2>1. CASE Flip
      BY Zenon, <2>1 DEF Flip
    <2>2. CASE RefreshAsk
      BY Zenon, <2>2 DEF RefreshAsk
    <2>3. CASE RefreshAnswer
      BY Zenon, <2>3 DEF RefreshAnswer
    <2>4. CASE RefreshError
      BY Zenon, <2>4 DEF RefreshError, Asleep
    <2>5. CASE RefreshStore
      BY Zenon, <2>5 DEF RefreshStore, Asleep
    <2>6. CASE ReloadResolver
      <3>1. PICK enabled \in BOOLEAN : resolver' = [resolver EXCEPT !.id = @ + 1, !.enabled = enabled]
        BY Zenon, <2>6 DEF ReloadResolver
      <3>2. refresh' = Asleep /\ UNCHANGED dns
        BY Zenon, <2>6 DEF ReloadResolver
      <3>3. PICK q \in [id : Nat, enabled : BOOLEAN, data : Addrs \cup {None}] : q = resolver
        BY Zenon
      <3>4. resolver' = [q EXCEPT !.id = q.id + 1, !.enabled = enabled]
        BY Zenon, <3>1, <3>3
      <3>5. resolver' \in [id : Nat, enabled : BOOLEAN, data : Addrs \cup {None}]
        <4>1. PICK i \in Nat : i = q.id + 1
          OBVIOUS
        <4>2. resolver' = [q EXCEPT !.id = i, !.enabled = enabled]
          BY Zenon, <3>4, <4>1
        <4> QED
          BY Zenon, <4>2
      <3> QED
        BY Zenon, <3>2, <3>5 DEF Asleep
    <2> QED
      BY Zenon, <1>2, <2>1, <2>2, <2>3, <2>4, <2>5, <2>6 DEF Dns, Refresh
  <1>3. ASSUME NEW k \in Conns, LookupStore(k)
        PROVE  /\ resolver' \in [id : Nat, enabled : BOOLEAN, data : Addrs \cup {None}]
               /\ UNCHANGED <<dns, refresh>>
    <2>1. conn[k].addr_set \in Addrs \cup {None}
      BY Zenon
    <2> QED
      BY Zenon, <1>3, <2>1 DEF LookupStore, store_in_cache
  <1>4. UNCHANGED dnsVars \/ Dns \/ \E k \in Conns : LookupStore(k)
    BY ZenonT(60) DEF Next, Starting, Connect, LookupAnswer, LookupError, Login, Broken, Prewarm, CheckOut,
           Send, MarkBad, CheckIn, Reap
  <1> QED
    BY Zenon, <1>1, <1>2, <1>3, <1>4

\* Every step keeps the invariant.
LEMMA NextInv ==
  ASSUME ConnInv, [Next]_vars
  PROVE  ConnInv'
  <1>1. CASE UNCHANGED vars
    <2> USE <1>1 DEF vars, dnsVars
    <2>1. TypeOK'
      BY Zenon DEF ConnInv, TypeOK
    <2>2. OwnMirror' /\ NoTrace' /\ MirrorInOrder'
      BY Zenon DEF ConnInv, OwnMirror, NoTrace, MirrorInOrder
    <2> QED
      BY Zenon, <2>1, <2>2 DEF ConnInv
  <1>2. CASE Next
    <2>1. Kept
      <3>1. CASE \E k \in Conns :
                   \/ Connect(k) \/ LookupAnswer(k) \/ LookupStore(k) \/ LookupError(k)
                   \/ Broken(k) \/ Login(k)
        BY Zenon, <3>1, StartSteps
      <3>2. CASE \E k \in Conns :
                   \/ Prewarm(k) \/ CheckOut(k) \/ Send(k) \/ MarkBad(k) \/ CheckIn(k) \/ Reap(k)
        BY Zenon, <3>2, PoolSteps
      <3>3. CASE UNCHANGED <<mirrors, conn, stats>>
        <4>1. OwnMirror' /\ NoTrace' /\ MirrorInOrder'
          BY Zenon, <3>3 DEF ConnInv, OwnMirror, NoTrace, MirrorInOrder
        <4> QED
          BY Zenon, <3>3, <4>1 DEF Kept, ConnInv, TypeOK, ConnRec, MirrorRec
      <3>4. CASE (\E t \in DOMAIN mirrors : MirrorTask(t)) /\ UNCHANGED <<conn, stats>>
        <4>1. conn' \in [Conns -> ConnRec] /\ stats' \in [Conns -> {None, "login", "idle", "active"}]
          BY Zenon, <3>4 DEF ConnInv, TypeOK, ConnRec
        <4> QED
          BY Zenon, <3>4, <4>1, TaskInv DEF Kept
      <3> QED
        BY Zenon, <1>2, <3>1, <3>2, <3>3, <3>4 DEF Next, Starting
    <2>2. TypeOK'
      BY Zenon, <1>2, <2>1, DnsTypes DEF Kept, TypeOK, ConnRec, MirrorRec
    <2> QED
      BY Zenon, <2>1, <2>2 DEF Kept, ConnInv
  <1> QED
    BY Zenon, <1>1, <1>2

-----------------------------------------------------------------------------
(* Results *)

\* The invariant holds in every state.
THEOREM ConnInvHolds == Spec => []ConnInv
  <1>1. Init => ConnInv
    BY Zenon, InitInv
  <1>2. ConnInv /\ [Next]_vars => ConnInv'
    BY Zenon, NextInv
  <1> QED
    BY <1>1, <1>2, PTL DEF Spec

\* However a connection or a startup ends (Drop, a failed login, a failed prewarm
\* query, the reaper), the statistics and the mirror tasks hear of it (server.rs Drop,
\* pool.rs connect, mirrors.rs disconnect).
THEOREM NoTraceStays == Spec => []NoTrace
  <1>1. ConnInv => NoTrace
    BY Zenon DEF ConnInv
  <1> QED
    BY <1>1, ConnInvHolds, PTL

\* A mirror is sent a part of what its server was sent, in order and once, for channels
\* of any capacity (mirrors.rs send and the task's select!).
THEOREM MirrorsHearInOrder == Spec => []MirrorInOrder
  <1>1. ConnInv => MirrorInOrder
    BY Zenon DEF ConnInv
  <1> QED
    BY <1>1, ConnInvHolds, PTL
=============================================================================
