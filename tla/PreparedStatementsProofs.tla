---------------------- MODULE PreparedStatementsProofs ----------------------
(***************************************************************************)
(* A Bind runs the text its client prepared, for every number of clients,  *)
(* servers, names and texts, every cache size and every length of batch;   *)
(* and, but for the causes a taint records, a connection's statement cache *)
(* is that of its session and a Bind finds the statement seen to for it.   *)
(***************************************************************************)
EXTENDS PreparedStatements, TLAPS

\* Zenon checks the leaves that name no prover.
USE ZenonT(60)

-----------------------------------------------------------------------------
(* The lru crate: no operation invents an element.                         *)

LEMMA WithoutSeq ==
  ASSUME NEW S, NEW q \in Seq(S), NEW i \in 1..Len(q)
  PROVE  Without(q, i) \in Seq(S) /\ Elems(Without(q, i)) \subseteq Elems(q)
<1> DEFINE w == [j \in 1..(Len(q) - 1) |-> IF j < i THEN q[j] ELSE q[j + 1]]
<1>1. \A j \in 1..(Len(q) - 1) : w[j] \in S /\ \E k \in 1..Len(q) : w[j] = q[k]
  <2> TAKE j \in 1..(Len(q) - 1)
  <2>1. j \in 1..Len(q) /\ j + 1 \in 1..Len(q)
    BY SMT
  <2> QED BY SMT, <2>1
<1>2. w \in [1..(Len(q) - 1) -> S] /\ Len(q) - 1 \in Nat
  BY SMT, <1>1
<1>3. w \in Seq(S) /\ DOMAIN w = 1..(Len(q) - 1)
  BY SMT, <1>2
<1>4. Without(q, i) = w
  BY DEF Without
<1> HIDE DEF w
<1> QED BY SMTT(30), <1>1, <1>3, <1>4 DEF Elems

LEMMA AtIndex ==
  ASSUME NEW S, NEW q \in Seq(S), NEW x \in Elems(q)
  PROVE  At(q, x) \in 1..Len(q) /\ q[At(q, x)] = x /\ x \in S
<1>1. \E i \in DOMAIN q : q[i] = x
  BY DEF Elems
<1>2. At(q, x) \in DOMAIN q /\ q[At(q, x)] = x
  BY <1>1 DEF At
<1> QED BY SMT, <1>2

LEMMA FrontSeq ==
  ASSUME NEW S, NEW q \in Seq(S), NEW x \in S
  PROVE  <<x>> \o q \in Seq(S) /\ Elems(<<x>> \o q) \subseteq Elems(q) \cup {x}
<1> DEFINE r == <<x>> \o q
<1>1. r \in Seq(S) /\ Len(r) = Len(q) + 1 /\ DOMAIN r = 1..(Len(q) + 1)
  BY SMT
<1>2. \A i \in 1..(Len(q) + 1) : r[i] = IF i = 1 THEN x ELSE q[i - 1]
  BY SMT
<1>3. \A i \in 1..(Len(q) + 1) : i = 1 \/ i - 1 \in DOMAIN q
  BY SMT
<1> HIDE DEF r
<1>4. \A i \in DOMAIN r : r[i] = x \/ r[i] \in Elems(q)
  BY <1>1, <1>2, <1>3 DEF Elems
<1>5. Elems(r) \subseteq Elems(q) \cup {x}
  BY <1>4 DEF Elems
<1> QED BY <1>1, <1>5 DEF r

LEMMA LruSeq ==
  ASSUME NEW S, NEW q \in Seq(S), NEW x
  PROVE  /\ Popped(q, x) \in Seq(S) /\ Elems(Popped(q, x)) \subseteq Elems(q)
         /\ Promoted(q, x) \in Seq(S) /\ Elems(Promoted(q, x)) \subseteq Elems(q)
         /\ x \in S => Pushed(q, x) \in Seq(S) /\ Elems(Pushed(q, x)) \subseteq Elems(q) \cup {x}
<1>1. /\ Popped(q, x) \in Seq(S) /\ Elems(Popped(q, x)) \subseteq Elems(q)
      /\ Promoted(q, x) \in Seq(S) /\ Elems(Promoted(q, x)) \subseteq Elems(q)
  <2>1. CASE x \in Elems(q)
    <3>1. At(q, x) \in 1..Len(q) /\ x \in S
      BY <2>1, AtIndex
    <3> DEFINE w == Without(q, At(q, x))
    <3>2. w \in Seq(S) /\ Elems(w) \subseteq Elems(q)
      BY <3>1, WithoutSeq
    <3>3. Popped(q, x) = w /\ Promoted(q, x) = <<x>> \o w
      BY <2>1 DEF Popped, Promoted
    <3> HIDE DEF w
    <3>4. <<x>> \o w \in Seq(S) /\ Elems(<<x>> \o w) \subseteq Elems(w) \cup {x}
      BY <3>1, <3>2, FrontSeq
    <3> QED BY <2>1, <3>2, <3>3, <3>4
  <2>2. CASE x \notin Elems(q)
    BY <2>2 DEF Popped, Promoted
  <2> QED BY <2>1, <2>2
<1>2. ASSUME x \in S
      PROVE  Pushed(q, x) \in Seq(S) /\ Elems(Pushed(q, x)) \subseteq Elems(q) \cup {x}
  <2> DEFINE w == IF Full(q) THEN Without(q, Len(q)) ELSE q
  <2>1. w \in Seq(S) /\ Elems(w) \subseteq Elems(q)
    <3>1. Full(q) => Len(q) \in 1..Len(q)
      BY SMT, ConstantsAssumption DEF Full
    <3> QED BY <3>1, WithoutSeq
  <2>2. Pushed(q, x) = <<x>> \o w
    BY DEF Pushed
  <2> HIDE DEF w
  <2>3. <<x>> \o w \in Seq(S) /\ Elems(<<x>> \o w) \subseteq Elems(w) \cup {x}
    BY <1>2, <2>1, FrontSeq
  <2> QED BY <2>1, <2>2, <2>3
<1> QED BY <1>1, <1>2

-----------------------------------------------------------------------------
(* The lru crate: what an operation holds afterwards, and nothing twice.   *)

\* A cache without one of its places.
LEMMA WithoutDistinct ==
  ASSUME NEW S, NEW q \in Seq(S), Distinct(q), NEW i \in 1..Len(q)
  PROVE  Distinct(Without(q, i)) /\ Elems(Without(q, i)) = Elems(q) \ {q[i]}
<1> DEFINE w == Without(q, i)
           from(j) == IF j < i THEN j ELSE j + 1
<1>1. DOMAIN w = 1..(Len(q) - 1) /\ DOMAIN q = 1..Len(q) /\ Len(q) \in Nat
  BY SMT DEF Without
<1>2. \A j \in 1..(Len(q) - 1) : w[j] = q[from(j)]
  BY DEF Without
<1>3. /\ \A j \in 1..(Len(q) - 1) : from(j) \in 1..Len(q) /\ from(j) # i
      /\ \A j, k \in 1..(Len(q) - 1) : from(j) = from(k) => j = k
  BY SMT, <1>1
<1>4. \A k \in 1..Len(q) : k # i => \E j \in 1..(Len(q) - 1) : from(j) = k
  <2> SUFFICES ASSUME NEW k \in 1..Len(q), k # i
               PROVE  \E j \in 1..(Len(q) - 1) : from(j) = k
    OBVIOUS
  <2>1. CASE k < i
    <3>1. k \in 1..(Len(q) - 1) /\ from(k) = k
      BY SMT, <1>1, <2>1
    <3> QED BY <3>1
  <2>2. CASE k > i
    <3>1. k - 1 \in 1..(Len(q) - 1) /\ from(k - 1) = k
      BY SMT, <1>1, <2>2
    <3> QED BY <3>1
  <2> QED BY SMT, <2>1, <2>2
<1> HIDE DEF w, from
<1>5. Distinct(w)
  <2> SUFFICES ASSUME NEW j \in 1..(Len(q) - 1), NEW k \in 1..(Len(q) - 1), w[j] = w[k]
               PROVE  j = k
    BY <1>1 DEF Distinct
  <2>1. from(j) \in 1..Len(q) /\ from(k) \in 1..Len(q) /\ q[from(j)] = q[from(k)]
    BY <1>2, <1>3
  <2>2. from(j) = from(k)
    BY <1>1, <2>1 DEF Distinct
  <2> QED BY <1>3, <2>2
<1>6. Elems(w) = Elems(q) \ {q[i]}
  <2>1. ASSUME NEW x \in Elems(w) PROVE x \in Elems(q) \ {q[i]}
    <3>1. PICK j \in 1..(Len(q) - 1) : x = w[j]
      BY <1>1, <2>1 DEF Elems
    <3>2. x = q[from(j)] /\ from(j) \in 1..Len(q) /\ from(j) # i
      BY <1>2, <1>3, <3>1
    <3>3. x # q[i]
      BY <1>1, <3>2 DEF Distinct
    <3> QED BY <1>1, <3>2, <3>3 DEF Elems
  <2>2. ASSUME NEW x \in Elems(q) \ {q[i]} PROVE x \in Elems(w)
    <3>1. PICK k \in 1..Len(q) : q[k] = x /\ k # i
      BY <1>1 DEF Elems
    <3>2. PICK j \in 1..(Len(q) - 1) : from(j) = k
      BY <1>4, <3>1
    <3>3. w[j] = x
      BY <1>2, <3>1, <3>2
    <3> QED BY <1>1, <3>3 DEF Elems
  <2> QED BY <2>1, <2>2
<1> QED BY <1>5, <1>6 DEF w

\* A cache with a new front.
LEMMA FrontDistinct ==
  ASSUME NEW S, NEW q \in Seq(S), Distinct(q), NEW x \in S, x \notin Elems(q)
  PROVE  Distinct(<<x>> \o q) /\ Elems(<<x>> \o q) = Elems(q) \cup {x}
<1> DEFINE r == <<x>> \o q
<1>1. DOMAIN r = 1..(Len(q) + 1) /\ DOMAIN q = 1..Len(q) /\ Len(q) \in Nat
  BY SMT
<1>2. r[1] = x /\ \A i \in 1..Len(q) : r[i + 1] = q[i]
  BY SMT
<1>3. \A i \in 1..(Len(q) + 1) : i = 1 \/ (i - 1 \in 1..Len(q) /\ r[i] = q[i - 1])
  BY SMT
<1> HIDE DEF r
<1>4. Distinct(r)
  <2> SUFFICES ASSUME NEW a \in 1..(Len(q) + 1), NEW b \in 1..(Len(q) + 1), r[a] = r[b]
               PROVE  a = b
    BY <1>1 DEF Distinct
  <2>1. \A i \in 1..Len(q) : q[i] # x
    BY <1>1 DEF Elems
  <2>2. CASE a = 1 \/ b = 1
    BY <1>2, <1>3, <2>1, <2>2
  <2>3. CASE a # 1 /\ b # 1
    <3>1. /\ a - 1 \in 1..Len(q) /\ r[a] = q[a - 1]
          /\ b - 1 \in 1..Len(q) /\ r[b] = q[b - 1]
      BY <1>3, <2>3
    <3>2. a - 1 = b - 1
      BY <1>1, <3>1 DEF Distinct
    <3> QED BY SMT, <3>2
  <2> QED BY <2>2, <2>3
<1>5. Elems(r) = Elems(q) \cup {x}
  <2>1. ASSUME NEW y \in Elems(r) PROVE y \in Elems(q) \cup {x}
    <3>1. PICK i \in 1..(Len(q) + 1) : y = r[i]
      BY <1>1, <2>1 DEF Elems
    <3> QED BY <1>1, <1>2, <1>3, <3>1 DEF Elems
  <2>2. ASSUME NEW i \in 1..Len(q) PROVE q[i] \in Elems(r)
    <3>1. i + 1 \in 1..(Len(q) + 1) /\ r[i + 1] = q[i]
      BY SMT, <1>1, <1>2
    <3> QED BY <1>1, <3>1 DEF Elems
  <2>3. x \in Elems(r)
    BY SMT, <1>1, <1>2 DEF Elems
  <2> QED BY <1>1, <2>1, <2>2, <2>3 DEF Elems
<1> QED BY <1>4, <1>5 DEF r

\* A name is added and dropped again.
LEMMA AddedDropped == ASSUME NEW A, NEW k, k \notin A PROVE ((A \ {}) \cup {k}) \ {k} = A
OBVIOUS

\* A name is added while others are dropped.
LEMMA AddedKept ==
  ASSUME NEW A, NEW B, NEW k, k \notin B PROVE (A \ B) \cup {k} = (A \cup {k}) \ B
OBVIOUS

\* The names of the statements a server has, as it deallocates some and prepares one.
LEMMA NamesLeft ==
  ASSUME NEW S, NEW gone
  PROVE  {x.name : x \in Deallocated(S, gone)} = {x.name : x \in S} \ gone
BY DEF Deallocated

LEMMA NamesAdded ==
  ASSUME NEW S, NEW p PROVE {x.name : x \in S \cup {p}} = {x.name : x \in S} \cup {p.name}
OBVIOUS

\* What is under way is dropped.
LEMMA OnlyRest == ASSUME NEW A, NEW B, A \cap B = {} PROVE (A \cup B) \ B = A
OBVIOUS

\* pop, get and push of the lru crate.
LEMMA LruExact ==
  ASSUME NEW q \in Seq(Nat), Distinct(q), NEW x
  PROVE  /\ Distinct(Popped(q, x)) /\ Elems(Popped(q, x)) = Elems(q) \ {x}
         /\ Distinct(Promoted(q, x)) /\ Elems(Promoted(q, x)) = Elems(q)
         /\ x \in Nat /\ x \notin Elems(q) =>
              /\ Distinct(Pushed(q, x))
              /\ Elems(Pushed(q, x)) = (Elems(q) \ Evicted(q)) \cup {x}
              /\ Evicted(q) \subseteq Elems(q)
<1>1. CASE x \in Elems(q)
  <2>1. At(q, x) \in 1..Len(q) /\ q[At(q, x)] = x /\ x \in Nat
    BY <1>1, AtIndex
  <2> DEFINE w == Without(q, At(q, x))
  <2>2. w \in Seq(Nat) /\ Distinct(w) /\ Elems(w) = Elems(q) \ {x}
    BY <2>1, WithoutSeq, WithoutDistinct
  <2>3. Popped(q, x) = w /\ Promoted(q, x) = <<x>> \o w
    BY <1>1 DEF Popped, Promoted
  <2> HIDE DEF w
  <2>4. Distinct(<<x>> \o w) /\ Elems(<<x>> \o w) = Elems(w) \cup {x}
    BY SMT, <2>1, <2>2, FrontDistinct
  <2>5. (Elems(q) \ {x}) \cup {x} = Elems(q)
    BY <1>1
  <2> QED BY <1>1, <2>2, <2>3, <2>4, <2>5
<1>2. CASE x \notin Elems(q)
  <2>1. Popped(q, x) = q /\ Promoted(q, x) = q /\ Elems(q) = Elems(q) \ {x}
    BY <1>2 DEF Popped, Promoted
  <2>2. ASSUME x \in Nat
        PROVE  /\ Distinct(Pushed(q, x))
               /\ Elems(Pushed(q, x)) = (Elems(q) \ Evicted(q)) \cup {x}
               /\ Evicted(q) \subseteq Elems(q)
    <3> DEFINE w == IF Full(q) THEN Without(q, Len(q)) ELSE q
    <3>1. /\ w \in Seq(Nat) /\ Distinct(w) /\ Elems(w) = Elems(q) \ Evicted(q)
          /\ Evicted(q) \subseteq Elems(q)
      <4>1. CASE Full(q)
        <5>1. Len(q) \in 1..Len(q) /\ Len(q) \in DOMAIN q
          BY SMT, <4>1, ConstantsAssumption DEF Full
        <5>2. w = Without(q, Len(q)) /\ Evicted(q) = {q[Len(q)]}
          BY <4>1 DEF Evicted
        <5> HIDE DEF w
        <5>3. w \in Seq(Nat) /\ Distinct(w) /\ Elems(w) = Elems(q) \ {q[Len(q)]}
          BY <5>1, <5>2, WithoutSeq, WithoutDistinct
        <5>4. q[Len(q)] \in Elems(q)
          BY <5>1 DEF Elems
        <5> QED BY <5>2, <5>3, <5>4
      <4>2. CASE ~Full(q)
        BY <4>2 DEF Evicted
      <4> QED BY <4>1, <4>2
    <3>2. Pushed(q, x) = <<x>> \o w
      BY DEF Pushed
    <3> HIDE DEF w
    <3>3. x \notin Elems(w)
      BY <1>2, <3>1
    <3> QED BY SMT, <2>2, <3>1, <3>2, <3>3, FrontDistinct
  <2> QED BY <2>1, <2>2
<1> QED BY <1>1, <1>2

\* The same, one operation at a time.
LEMMA PoppedExact ==
  ASSUME NEW q \in Seq(Nat), Distinct(q), NEW x
  PROVE  Distinct(Popped(q, x)) /\ Elems(Popped(q, x)) = Elems(q) \ {x}
BY LruExact

LEMMA PromotedExact ==
  ASSUME NEW q \in Seq(Nat), Distinct(q), NEW x
  PROVE  Distinct(Promoted(q, x)) /\ Elems(Promoted(q, x)) = Elems(q)
BY LruExact

LEMMA PushedExact ==
  ASSUME NEW q \in Seq(Nat), Distinct(q), NEW x \in Nat, x \notin Elems(q)
  PROVE  /\ Pushed(q, x) \in Seq(Nat) /\ Distinct(Pushed(q, x))
         /\ Elems(Pushed(q, x)) = (Elems(q) \ Evicted(q)) \cup {x}
         /\ Evicted(q) \subseteq Elems(q)
<1>1. Pushed(q, x) \in Seq(Nat)
  BY LruSeq
<1> QED BY <1>1, LruExact

-----------------------------------------------------------------------------
(* The queue of registrations and the messages under way.                  *)

\* The places of a sequence and those of its tail.
LEMMA NextIndex ==
  ASSUME NEW n \in Nat, NEW i \in 1..(n - 1)
  PROVE  i \in Nat /\ i + 1 \in 1..n /\ 1 < i + 1 /\ i + 1 # 1
BY SMT

LEMMA LastIndex ==
  ASSUME NEW n \in Nat, NEW i \in 1..n, i # 1
  PROVE  i - 1 \in 1..(n - 1) /\ (i - 1) + 1 = i
BY SMT

\* A message that is not a Parse is put behind the others.
LEMMA OrderOther ==
  ASSUME NEW o \in Seq(Sent), NEW m \in Sent, m.op # "parse", NEW r \in Seq(Nat)
  PROVE  /\ ParsesIn(Append(o, m)) = ParsesIn(o)
         /\ InOrder(o, r) => InOrder(Append(o, m), r)
<1> DEFINE a == Append(o, m)
<1>1. /\ DOMAIN o = 1..Len(o) /\ DOMAIN a = 1..(Len(o) + 1) /\ Len(o) \in Nat
      /\ \A i \in DOMAIN o : a[i] = o[i]
      /\ a[Len(o) + 1] = m
  BY SMT
<1> HIDE DEF a
<1>2. \A i \in DOMAIN a : a[i].op = "parse" => i \in DOMAIN o /\ a[i] = o[i]
  BY SMT, <1>1
<1>3. DOMAIN o \subseteq DOMAIN a
  BY SMT, <1>1
<1>4. ParsesIn(a) = ParsesIn(o)
  BY <1>1, <1>2, <1>3 DEF ParsesIn
<1>5. InOrder(o, r) => InOrder(a, r)
  BY SMTT(30), <1>2, <1>4 DEF InOrder
<1> QED BY <1>4, <1>5 DEF a

\* A Parse is put behind the others, and its name behind the other names.
LEMMA OrderParse ==
  ASSUME NEW o \in Seq(Sent), NEW m \in Sent, m.op = "parse", m.p.name \in Nat,
         NEW r \in Seq(Nat), InOrder(o, r), m.p.name \notin ParsesIn(o)
  PROVE  /\ ParsesIn(Append(o, m)) = ParsesIn(o) \cup {m.p.name}
         /\ InOrder(Append(o, m), Append(r, m.p.name))
<1> DEFINE a == Append(o, m)
           b == Append(r, m.p.name)
           k == m.p.name
<1>1. /\ DOMAIN o = 1..Len(o) /\ DOMAIN a = 1..(Len(o) + 1) /\ Len(o) \in Nat
      /\ \A i \in DOMAIN o : a[i] = o[i]
      /\ a[Len(o) + 1] = m
  BY SMT
<1>2. /\ DOMAIN r = 1..Len(r) /\ DOMAIN b = 1..(Len(r) + 1) /\ Len(r) \in Nat
      /\ \A i \in DOMAIN r : b[i] = r[i]
      /\ b[Len(r) + 1] = k
  BY SMT
<1> HIDE DEF a, b
<1>3. /\ Distinct(r) /\ Elems(r) = ParsesIn(o)
      /\ \A i, j \in DOMAIN o : o[i].op = "parse" /\ o[j].op = "parse" /\ i < j =>
           /\ o[i].p.name # o[j].p.name
           /\ \A x, y \in DOMAIN r : r[x] = o[i].p.name /\ r[y] = o[j].p.name => x < y
  BY DEF InOrder
<1>4. \A i \in DOMAIN o : o[i].op = "parse" => o[i].p.name \in ParsesIn(o)
  BY DEF ParsesIn
<1>5. ParsesIn(a) = ParsesIn(o) \cup {k}
  <2>1. ASSUME NEW x \in ParsesIn(a) PROVE x \in ParsesIn(o) \cup {k}
    BY SMTT(30), <1>1, <1>4 DEF ParsesIn
  <2>2. ASSUME NEW x \in ParsesIn(o) PROVE x \in ParsesIn(a)
    BY SMT, <1>1 DEF ParsesIn
  <2>3. k \in ParsesIn(a)
    <3>1. Len(o) + 1 \in DOMAIN a /\ a[Len(o) + 1] = m
      BY SMT, <1>1
    <3> QED BY <3>1 DEF ParsesIn
  <2> QED BY <2>1, <2>2, <2>3
<1>6. \A x \in DOMAIN b : \/ x \in DOMAIN r /\ b[x] = r[x] /\ r[x] # k
                          \/ x = Len(r) + 1 /\ b[x] = k
  <2> TAKE x \in DOMAIN b
  <2>1. CASE x \in DOMAIN r
    <3>1. x \in DOMAIN r /\ b[x] = r[x] /\ r[x] # k
      BY <1>2, <1>3, <2>1 DEF Elems
    <3> QED BY <3>1
  <2>2. CASE x = Len(r) + 1
    BY <1>2, <2>2
  <2>3. x \in DOMAIN r \/ x = Len(r) + 1
    BY SMT, <1>2
  <2> QED BY <2>1, <2>2, <2>3
<1>7. Distinct(b)
  BY <1>3, <1>6 DEF Distinct
<1>8. Elems(b) = Elems(r) \cup {k}
  BY SMTT(30), <1>2 DEF Elems
<1>9. ASSUME NEW i \in DOMAIN a, NEW j \in DOMAIN a, a[i].op = "parse", a[j].op = "parse", i < j
      PROVE  /\ a[i].p.name # a[j].p.name
             /\ \A x, y \in DOMAIN b : b[x] = a[i].p.name /\ b[y] = a[j].p.name => x < y
  <2>1. i \in DOMAIN o /\ a[i] = o[i] /\ o[i].p.name \in ParsesIn(o) /\ o[i].p.name # k
    BY SMT, <1>1, <1>4, <1>9
  <2>2. ASSUME NEW x \in DOMAIN b, b[x] = a[i].p.name PROVE x \in DOMAIN r /\ r[x] = o[i].p.name
    BY <1>6, <2>1, <2>2
  <2>3. CASE j \in DOMAIN o
    <3>1. a[j] = o[j] /\ o[j].p.name \in ParsesIn(o) /\ o[j].p.name # k
      BY <1>1, <1>4, <1>9, <2>3
    <3>2. ASSUME NEW y \in DOMAIN b, b[y] = a[j].p.name PROVE y \in DOMAIN r /\ r[y] = o[j].p.name
      BY <1>6, <3>1, <3>2
    <3>3. /\ o[i].p.name # o[j].p.name
          /\ \A x, y \in DOMAIN r : r[x] = o[i].p.name /\ r[y] = o[j].p.name => x < y
      BY <1>3, <1>9, <2>1, <2>3, <3>1
    <3> QED BY <2>1, <2>2, <3>1, <3>2, <3>3
  <2>4. CASE j = Len(o) + 1
    <3>1. a[j].p.name = k
      BY <1>1, <2>4
    <3>2. ASSUME NEW y \in DOMAIN b, b[y] = k PROVE y = Len(r) + 1
      BY <1>6, <3>2
    <3>3. \A x \in DOMAIN r : x < Len(r) + 1
      BY SMT, <1>2
    <3> QED BY <2>1, <2>2, <3>1, <3>2, <3>3
  <2> QED BY SMT, <1>1, <2>3, <2>4
<1>10. InOrder(a, b)
  BY <1>3, <1>5, <1>7, <1>8, <1>9 DEF InOrder
<1> QED BY <1>5, <1>10 DEF a, b

\* A message that is not a Parse leaves from the front.
LEMMA OrderTakeOther ==
  ASSUME NEW o \in Seq(Sent), o # <<>>, Head(o).op # "parse", NEW r \in Seq(Nat)
  PROVE  /\ ParsesIn(Tail(o)) = ParsesIn(o)
         /\ InOrder(o, r) => InOrder(Tail(o), r)
<1> DEFINE t == Tail(o)
<1>1. /\ DOMAIN o = 1..Len(o) /\ DOMAIN t = 1..(Len(o) - 1) /\ Len(o) \in Nat \ {0}
      /\ \A i \in DOMAIN t : t[i] = o[i + 1]
      /\ Head(o) = o[1]
  BY SMT
<1> HIDE DEF t
<1>2. \A i \in DOMAIN t : i \in Nat /\ i + 1 \in DOMAIN o /\ t[i] = o[i + 1]
  BY SMT, <1>1
<1>3. \A i \in DOMAIN o : o[i].op = "parse" => i - 1 \in DOMAIN t /\ t[i - 1] = o[i]
  BY SMTT(30), <1>1
<1>4. ParsesIn(t) = ParsesIn(o)
  <2>1. ASSUME NEW x \in ParsesIn(t) PROVE x \in ParsesIn(o)
    BY <1>2 DEF ParsesIn
  <2>2. ASSUME NEW x \in ParsesIn(o) PROVE x \in ParsesIn(t)
    BY <1>3 DEF ParsesIn
  <2> QED BY <2>1, <2>2
<1>5. ASSUME InOrder(o, r) PROVE InOrder(t, r)
  <2>1. ASSUME NEW i \in DOMAIN t, NEW j \in DOMAIN t, t[i].op = "parse", t[j].op = "parse", i < j
        PROVE  /\ t[i].p.name # t[j].p.name
               /\ \A x, y \in DOMAIN r : r[x] = t[i].p.name /\ r[y] = t[j].p.name => x < y
    <3>1. /\ i + 1 \in DOMAIN o /\ j + 1 \in DOMAIN o /\ i + 1 < j + 1
          /\ t[i] = o[i + 1] /\ t[j] = o[j + 1]
      BY SMT, <1>2, <2>1
    <3> QED BY SMTT(30), <1>5, <2>1, <3>1 DEF InOrder
  <2> QED BY <1>4, <1>5, <2>1 DEF InOrder
<1> QED BY <1>4, <1>5 DEF t

\* The Parse at the front is the one whose name is at the front of the queue.
LEMMA OrderTakeParse ==
  ASSUME NEW o \in Seq(Sent), o # <<>>, Head(o).op = "parse", NEW r \in Seq(Nat), InOrder(o, r)
  PROVE  /\ r # <<>> /\ Head(r) = Head(o).p.name
         /\ ParsesIn(Tail(o)) = ParsesIn(o) \ {Head(r)}
         /\ InOrder(Tail(o), Tail(r))
<1> DEFINE t == Tail(o)
           u == Tail(r)
           k == Head(o).p.name
<1>1. /\ DOMAIN o = 1..Len(o) /\ DOMAIN t = 1..(Len(o) - 1) /\ Len(o) \in Nat \ {0}
      /\ \A i \in DOMAIN t : t[i] = o[i + 1]
      /\ Head(o) = o[1]
  BY SMT
<1>2. /\ Distinct(r) /\ Elems(r) = ParsesIn(o)
      /\ \A i, j \in DOMAIN o : o[i].op = "parse" /\ o[j].op = "parse" /\ i < j =>
           /\ o[i].p.name # o[j].p.name
           /\ \A x, y \in DOMAIN r : r[x] = o[i].p.name /\ r[y] = o[j].p.name => x < y
  BY DEF InOrder
<1>3. 1 \in DOMAIN o /\ o[1].op = "parse" /\ o[1].p.name = k
  BY SMT, <1>1
<1>4. k \in Elems(r)
  BY <1>2, <1>3 DEF ParsesIn
<1>5. PICK a \in DOMAIN r : r[a] = k
  BY <1>4 DEF Elems
<1>6. DOMAIN r = 1..Len(r) /\ Len(r) \in Nat \ {0} /\ r # <<>> /\ Head(r) = r[1] /\ 1 \in DOMAIN r
  BY SMT, <1>5
<1>7. r[1] = k
  <2>1. r[1] \in ParsesIn(o)
    BY <1>2, <1>6 DEF Elems
  <2>2. PICK j \in DOMAIN o : o[j].op = "parse" /\ o[j].p.name = r[1]
    BY <2>1 DEF ParsesIn
  <2>3. CASE j = 1
    BY <1>3, <2>2, <2>3
  <2>4. CASE j # 1
    <3>1. 1 < j
      BY SMT, <1>1, <2>4
    <3>2. a < 1
      BY <1>2, <1>3, <1>5, <1>6, <2>2, <3>1
    <3> QED BY SMT, <1>5, <1>6, <3>2
  <2> QED BY <2>3, <2>4
<1>8. /\ DOMAIN u = 1..(Len(r) - 1) /\ \A i \in DOMAIN u : u[i] = r[i + 1]
  BY SMT, <1>6
<1> HIDE DEF t, u, k
<1>9. \A i \in DOMAIN t : i \in Nat /\ i + 1 \in DOMAIN o /\ t[i] = o[i + 1] /\ 1 < i + 1
  BY <1>1, NextIndex
<1>10. \A i \in DOMAIN o : i = 1 \/ (i - 1 \in DOMAIN t /\ t[i - 1] = o[i])
  <2> SUFFICES ASSUME NEW i \in DOMAIN o, i # 1
               PROVE  i - 1 \in DOMAIN t /\ t[i - 1] = o[i]
    OBVIOUS
  <2>1. i - 1 \in 1..(Len(o) - 1) /\ (i - 1) + 1 = i
    BY <1>1, LastIndex
  <2>2. i - 1 \in DOMAIN t
    BY <1>1, <2>1
  <2>3. t[i - 1] = o[(i - 1) + 1]
    BY <1>1, <2>2
  <2> QED BY <2>1, <2>2, <2>3
<1>11. \A i \in DOMAIN u : i \in Nat /\ i + 1 \in DOMAIN r /\ u[i] = r[i + 1] /\ i + 1 # 1
  BY <1>6, <1>8, NextIndex
<1>12. \A i \in DOMAIN r : i = 1 \/ (i - 1 \in DOMAIN u /\ u[i - 1] = r[i])
  <2> SUFFICES ASSUME NEW i \in DOMAIN r, i # 1
               PROVE  i - 1 \in DOMAIN u /\ u[i - 1] = r[i]
    OBVIOUS
  <2>1. i - 1 \in 1..(Len(r) - 1) /\ (i - 1) + 1 = i
    BY <1>6, LastIndex
  <2>2. i - 1 \in DOMAIN u
    BY <1>8, <2>1
  <2>3. u[i - 1] = r[(i - 1) + 1]
    BY <1>8, <2>2
  <2> QED BY <2>1, <2>2, <2>3
<1>13. ParsesIn(t) = ParsesIn(o) \ {k}
  <2>1. ASSUME NEW x \in ParsesIn(t) PROVE x \in ParsesIn(o) \ {k}
    <3>1. PICK i \in DOMAIN t : t[i].op = "parse" /\ x = t[i].p.name
      BY DEF ParsesIn
    <3>2. i + 1 \in DOMAIN o /\ o[i + 1].op = "parse" /\ x = o[i + 1].p.name /\ 1 < i + 1
      BY <1>9, <3>1
    <3>3. x # k
      BY <1>2, <1>3, <3>2
    <3> QED BY <3>2, <3>3 DEF ParsesIn
  <2>2. ASSUME NEW x \in ParsesIn(o) \ {k} PROVE x \in ParsesIn(t)
    <3>1. PICK i \in DOMAIN o : o[i].op = "parse" /\ x = o[i].p.name
      BY DEF ParsesIn
    <3>2. i - 1 \in DOMAIN t /\ t[i - 1] = o[i]
      BY <1>3, <1>10, <3>1
    <3> QED BY <3>1, <3>2 DEF ParsesIn
  <2> QED BY <2>1, <2>2
<1>14. Elems(u) = Elems(r) \ {k}
  <2>1. ASSUME NEW x \in Elems(u) PROVE x \in Elems(r) \ {k}
    <3>1. PICK i \in DOMAIN u : x = u[i]
      BY DEF Elems
    <3>2. i + 1 \in DOMAIN r /\ x = r[i + 1] /\ i + 1 # 1
      BY <1>11, <3>1
    <3>3. x # k
      BY <1>2, <1>6, <1>7, <3>2 DEF Distinct
    <3> QED BY <3>2, <3>3 DEF Elems
  <2>2. ASSUME NEW x \in Elems(r) \ {k} PROVE x \in Elems(u)
    <3>1. PICK i \in DOMAIN r : x = r[i]
      BY <2>2 DEF Elems
    <3>2. i - 1 \in DOMAIN u /\ u[i - 1] = x
      BY <1>7, <1>12, <2>2, <3>1
    <3> QED BY <3>2 DEF Elems
  <2> QED BY <2>1, <2>2
<1>15. Distinct(u)
  <2> SUFFICES ASSUME NEW i \in DOMAIN u, NEW j \in DOMAIN u, u[i] = u[j] PROVE i = j
    BY DEF Distinct
  <2>1. i + 1 = j + 1 /\ i \in Nat /\ j \in Nat
    BY SMT, <1>2, <1>11 DEF Distinct
  <2> QED BY SMT, <2>1
<1>16. ASSUME NEW i \in DOMAIN t, NEW j \in DOMAIN t, t[i].op = "parse", t[j].op = "parse", i < j
       PROVE  /\ t[i].p.name # t[j].p.name
              /\ \A x, y \in DOMAIN u : u[x] = t[i].p.name /\ u[y] = t[j].p.name => x < y
  <2>1. /\ i + 1 \in DOMAIN o /\ j + 1 \in DOMAIN o /\ i + 1 < j + 1
        /\ t[i] = o[i + 1] /\ t[j] = o[j + 1]
    BY SMT, <1>9, <1>16
  <2>2. t[i].p.name # t[j].p.name
    BY SMT, <1>2, <1>16, <2>1
  <2>3. ASSUME NEW x \in DOMAIN u, NEW y \in DOMAIN u, u[x] = t[i].p.name, u[y] = t[j].p.name
        PROVE  x < y
    <3>1. /\ x + 1 \in DOMAIN r /\ y + 1 \in DOMAIN r
          /\ r[x + 1] = o[i + 1].p.name /\ r[y + 1] = o[j + 1].p.name
      BY <1>11, <2>1, <2>3
    <3>2. x + 1 < y + 1
      BY <1>2, <1>16, <2>1, <3>1
    <3>3. x \in Nat /\ y \in Nat
      BY <1>11
    <3> QED BY SMT, <3>2, <3>3
  <2> QED BY <2>2, <2>3
<1>17. InOrder(t, u)
  BY <1>2, <1>13, <1>14, <1>15, <1>16 DEF InOrder
<1> QED BY <1>6, <1>7, <1>13, <1>17 DEF t, u, k

\* One more queued name than none.
LEMMA LastQueued ==
  ASSUME NEW r \in Seq(Nat), r # <<>>
  PROVE  /\ Head(r) \in Elems(r) /\ Tail(r) \in Seq(Nat)
         /\ Tail(r) = <<>> => Elems(r) = {Head(r)}
<1>1. DOMAIN r = 1..Len(r) /\ Len(r) \in Nat \ {0} /\ Head(r) = r[1] /\ Len(Tail(r)) = Len(r) - 1
  BY SMT
<1>2. Tail(r) \in Seq(Nat)
  BY SMT
<1>3. Head(r) \in Elems(r)
  <2>1. 1 \in DOMAIN r
    BY SMT, <1>1
  <2> QED BY <1>1, <2>1 DEF Elems
<1>4. ASSUME Tail(r) = <<>> PROVE Elems(r) = {Head(r)}
  <2>0. Len(<<>>) = 0
    OBVIOUS
  <2>1. Len(r) - 1 = 0 /\ Len(r) \in Nat
    BY <1>1, <1>4, <2>0
  <2>2. DOMAIN r = {1}
    <3>1. Len(r) = 1
      BY SMT, <2>1
    <3>2. 1..1 = {1}
      BY SMT
    <3> QED BY <1>1, <3>1, <3>2
  <2> QED BY <1>1, <2>2 DEF Elems
<1> QED BY <1>2, <1>3, <1>4

\* A queue of no names.
LEMMA NoneQueued == ASSUME NEW r \in Seq(Nat), Elems(r) = {} PROVE r = <<>>
<1>1. DOMAIN r = {}
  BY DEF Elems
<1> QED BY SMT, <1>1

\* Nothing is under way: the queue is empty and the cache is that of the session.
LEMMA NothingUnderWay ==
  ASSUME NEW ca, NEW r \in Seq(Nat), NEW names
  PROVE  /\ ParsesIn(<<>>) = {}
         /\ Exact(ca, r, names, <<>>, FALSE) <=> r = <<>> /\ Elems(ca) = names
<1>1. ParsesIn(<<>>) = {} /\ Elems(<<>>) = {}
  BY SMT DEF ParsesIn, Elems
<1>2. ASSUME Elems(r) = {} PROVE r = <<>>
  BY <1>2, NoneQueued
<1>3. InOrder(<<>>, r) <=> r = <<>>
  <2>1. InOrder(<<>>, <<>>)
    <3>1. DOMAIN <<>> = {}
      BY SMT
    <3> QED BY <1>1, <3>1 DEF InOrder, Distinct
  <2>2. ASSUME InOrder(<<>>, r) PROVE r = <<>>
    BY <1>1, <1>2, <2>2 DEF InOrder
  <2> QED BY <2>1, <2>2
<1>4. names \cup {} = names /\ names \cap {} = {}
  OBVIOUS
<1> QED BY <1>1, <1>3, <1>4 DEF Exact

\* A connection just made.
LEMMA FreshExact == Exact(<<>>, <<>>, {}, <<>>, FALSE) /\ Distinct(<<>>) /\ Elems(<<>>) = {}
<1>1. <<>> \in Seq(Nat) /\ DOMAIN <<>> = {}
  BY SMT
<1>2. Distinct(<<>>) /\ Elems(<<>>) = {}
  BY <1>1 DEF Distinct, Elems
<1> QED BY <1>1, <1>2, NothingUnderWay

-----------------------------------------------------------------------------
(* The Binds under way.                                                    *)

\* A message is put behind the others: a Bind that was seen to is one of a statement the
\* session has, or gets before it, or of one Postgres refuses.
LEMMA FoundAppend ==
  ASSUME NEW o \in Seq(Sent), NEW m \in Sent, NEW names, Found(o, names),
         m.op = "bind" /\ m.ensured = m.p.name =>
           m.p.name \in names \cup ParsesIn(o) \/ m.p.text \in BadTexts
  PROVE  Found(Append(o, m), names)
<1> DEFINE a == Append(o, m)
<1>1. /\ DOMAIN o = 1..Len(o) /\ DOMAIN a = 1..(Len(o) + 1) /\ Len(o) \in Nat
      /\ \A i \in DOMAIN o : a[i] = o[i]
      /\ a[Len(o) + 1] = m
  BY SMTT(30)
<1> HIDE DEF a
<1>2. ASSUME NEW i \in DOMAIN a, a[i].op = "bind", a[i].ensured = a[i].p.name
      PROVE  \/ a[i].p.name \in names
             \/ a[i].p.text \in BadTexts
             \/ \E j \in 1..(i - 1) : a[j].op = "parse" /\ a[j].p.name = a[i].p.name
  <2>1. CASE i \in DOMAIN o
    <3>1. a[i] = o[i] /\ \A j \in 1..(i - 1) : a[j] = o[j]
      BY SMT, <1>1, <2>1
    <3>2. \/ o[i].p.name \in names
          \/ o[i].p.text \in BadTexts
          \/ \E j \in 1..(i - 1) : o[j].op = "parse" /\ o[j].p.name = o[i].p.name
      BY <1>2, <2>1, <3>1 DEF Found
    <3> QED BY <3>1, <3>2
  <2>2. CASE i = Len(o) + 1
    <3>1. a[i] = m /\ i - 1 = Len(o)
      BY SMT, <1>1, <2>2
    <3>2. ASSUME m.p.name \in ParsesIn(o)
          PROVE  \E j \in 1..(i - 1) : a[j].op = "parse" /\ a[j].p.name = a[i].p.name
      <4>1. PICK j \in DOMAIN o : o[j].op = "parse" /\ o[j].p.name = m.p.name
        BY <3>2 DEF ParsesIn
      <4>2. j \in 1..(i - 1) /\ a[j] = o[j]
        BY <1>1, <3>1
      <4> QED BY <3>1, <4>1, <4>2
    <3> QED BY <1>2, <3>1, <3>2
  <2> QED BY SMT, <1>1, <2>1, <2>2
<1>3. Found(a, names)
  BY <1>2 DEF Found
<1> QED BY <1>3 DEF a

\* The front message is taken: the session has the statement of a Parse from then on.
LEMMA FoundTake ==
  ASSUME NEW o \in Seq(Sent), o # <<>>, NEW names, Found(o, names), NEW after,
         names \subseteq after, Head(o).op = "parse" => Head(o).p.name \in after
  PROVE  Found(Tail(o), after)
<1> DEFINE t == Tail(o)
<1>1. /\ DOMAIN o = 1..Len(o) /\ DOMAIN t = 1..(Len(o) - 1) /\ Len(o) \in Nat \ {0}
      /\ \A i \in DOMAIN t : t[i] = o[i + 1]
      /\ Head(o) = o[1]
  BY SMT
<1> HIDE DEF t
<1>2. ASSUME NEW i \in DOMAIN t, t[i].op = "bind", t[i].ensured = t[i].p.name
      PROVE  \/ t[i].p.name \in after
             \/ t[i].p.text \in BadTexts
             \/ \E j \in 1..(i - 1) : t[j].op = "parse" /\ t[j].p.name = t[i].p.name
  <2>1. i \in Nat /\ i + 1 \in DOMAIN o /\ t[i] = o[i + 1] /\ (i + 1) - 1 = i
    BY SMT, <1>1
  <2>2. \/ o[i + 1].p.name \in names
        \/ o[i + 1].p.text \in BadTexts
        \/ \E j \in 1..i : o[j].op = "parse" /\ o[j].p.name = o[i + 1].p.name
    BY <1>2, <2>1 DEF Found
  <2>3. ASSUME NEW j \in 1..i, o[j].op = "parse", o[j].p.name = o[i + 1].p.name
        PROVE  \/ t[i].p.name \in after
               \/ \E l \in 1..(i - 1) : t[l].op = "parse" /\ t[l].p.name = t[i].p.name
    <3>1. CASE j = 1
      BY <1>1, <2>1, <2>3, <3>1
    <3>2. CASE j # 1
      <4>1. j - 1 \in 1..(i - 1) /\ j - 1 \in 1..(Len(o) - 1) /\ (j - 1) + 1 = j
        BY SMT, <1>1, <2>1, <3>2
      <4>2. t[j - 1] = o[j]
        BY <1>1, <4>1
      <4> QED BY <2>1, <2>3, <4>1, <4>2
    <3> QED BY <3>1, <3>2
  <2> QED BY <2>1, <2>2, <2>3
<1>3. Found(t, after)
  BY <1>2 DEF Found
<1> QED BY <1>3 DEF t

\* Statements are added or dropped, none that a Bind under way names is dropped.
LEMMA FoundKept ==
  ASSUME NEW o, NEW names, NEW after, Found(o, names),
         \A i \in DOMAIN o : o[i].op = "bind" /\ o[i].p.name \in names => o[i].p.name \in after
  PROVE  Found(o, after)
BY DEF Found

LEMMA FoundNothing == ASSUME NEW names PROVE Found(<<>>, names)
BY SMT DEF Found

-----------------------------------------------------------------------------
(* The parts of StatementInv.                                              *)

PoolOK == \A p \in Elems(pool) : Numbered(p)
SessionsOK == \A s \in Servers : \A p \in stmts[s] : Numbered(p)
MapsOK ==
  \A c \in Clients, n \in Names : mine[c][n] # None =>
    Numbered(mine[c][n]) /\ said[c][n] = mine[c][n].text
EbufOK ==
  \A c \in Clients : \A i \in DOMAIN ebuf[c] :
    Numbered(ebuf[c][i].p) /\ ebuf[c][i].want = ebuf[c][i].p.text
OutOK ==
  \A c \in Clients : \A i \in DOMAIN out[c] :
    Numbered(out[c][i].p) /\ out[c][i].want = out[c][i].p.text
HeldOK == \A c \in Clients : pc[c] \in {"drain", "exchange", "txread"} => conn[c] \in Servers

LEMMA Parts ==
  StatementInv <=>
    TypeOK /\ PoolOK /\ SessionsOK /\ MapsOK /\ EbufOK /\ OutOK /\ HeldOK /\ RightText
BY DEF StatementInv, PoolOK, SessionsOK, MapsOK, EbufOK, OutOK, HeldOK

\* A number keeps its text.
Grows ==
  /\ counter' \in Nat /\ counter =< counter'
  /\ born' \in [0..(counter' - 1) -> Texts]
  /\ \A k \in 0..(counter - 1) : born'[k] = born[k]

LEMMA GrowsKeeps ==
  ASSUME TypeOK, Grows, NEW p \in Parses, Numbered(p)
  PROVE  p.name < counter' /\ p.text = born'[p.name]
<1>1. p.name \in 0..(counter - 1) /\ p.text = born[p.name] /\ p.name \in Nat /\ counter \in Nat
  BY SMT DEF TypeOK, Parses, Numbered
<1>2. counter' \in Nat /\ counter =< counter' /\ born'[p.name] = born[p.name]
  BY <1>1 DEF Grows
<1> QED BY SMT, <1>1, <1>2

\* The cache of the pool: what an inserted or found Parse is (get_or_insert).
LEMMA GetOrInsert ==
  ASSUME StatementInv, NEW t \in Texts, get_or_insert(t)
  PROVE  /\ Grows /\ pool' \in Seq(Parses) /\ PoolOK'
         /\ LET p == IF InPool(t) THEN Cached(t) ELSE Rewritten(t) IN
            p \in Parses /\ p.text = t /\ p.name < counter' /\ p.text = born'[p.name]
<1>0. /\ TypeOK /\ counter \in Nat /\ pool \in Seq(Parses) /\ born \in [0..(counter - 1) -> Texts]
      /\ \A p \in Elems(pool) : Numbered(p)
  BY DEF StatementInv, TypeOK
<1>1. Elems(pool) \subseteq Parses
  BY SMT, <1>0 DEF Elems
<1>2. CASE InPool(t)
  <2>1. /\ pool' = Promoted(pool, Cached(t)) /\ UNCHANGED <<counter, born>>
    BY <1>2 DEF get_or_insert
  <2>2. Cached(t) \in Elems(pool) /\ Cached(t).text = t
    BY <1>2 DEF InPool, Cached
  <2>3. pool' \in Seq(Parses) /\ Elems(pool') \subseteq Elems(pool)
    BY <1>0, <2>1, LruSeq
  <2>4. Grows
    BY SMT, <1>0, <2>1 DEF Grows
  <2>5. PoolOK'
    BY <1>0, <2>1, <2>3 DEF PoolOK, Numbered
  <2> QED BY <1>0, <1>1, <1>2, <2>1, <2>2, <2>3, <2>4, <2>5 DEF Numbered
<1>3. CASE ~InPool(t)
  <2> DEFINE p == Rewritten(t)
  <2>1. /\ counter' = counter + 1 /\ pool' = Pushed(pool, p)
        /\ born' = [k \in 0..counter |-> IF k = counter THEN t ELSE born[k]]
    BY <1>3 DEF get_or_insert
  <2>2. p \in Parses /\ p.text = t /\ p.name = counter
    BY <1>0 DEF Rewritten, Parses
  <2>3. Grows
    BY SMT, <1>0, <2>1 DEF Grows
  <2>4. p.name < counter' /\ p.text = born'[p.name]
    BY SMT, <1>0, <2>1, <2>2
  <2> HIDE DEF p
  <2>5. pool' \in Seq(Parses) /\ Elems(pool') \subseteq Elems(pool) \cup {p}
    BY <1>0, <2>1, <2>2, LruSeq
  <2>6. PoolOK'
    BY <1>0, <1>1, <2>3, <2>4, <2>5, GrowsKeeps DEF PoolOK, Numbered
  <2>7. p = Rewritten(t)
    BY DEF p
  <2> QED BY <1>3, <2>2, <2>3, <2>4, <2>5, <2>6, <2>7
<1> QED BY <1>2, <1>3

LEMMA PromoteOK ==
  ASSUME StatementInv, NEW p, promote(p), UNCHANGED <<counter, born>>
  PROVE  pool' \in Seq(Parses) /\ PoolOK'
<1>1. pool \in Seq(Parses) /\ \A x \in Elems(pool) : Numbered(x)
  BY DEF StatementInv, TypeOK
<1>2. pool' \in Seq(Parses) /\ Elems(pool') \subseteq Elems(pool)
  BY SMT, <1>1, LruSeq DEF promote
<1> QED BY <1>1, <1>2 DEF PoolOK, Numbered

-----------------------------------------------------------------------------
(* The server's cache and session.                                         *)

\* register_prepared_statement.
LEMMA RegisterOK ==
  ASSUME StatementInv, NEW c \in Clients, NEW s \in Servers, NEW p \in Parses, Numbered(p),
         NEW send \in BOOLEAN, Register(c, s, p, send), UNCHANGED <<counter, born>>
  PROVE  /\ cache' \in [Servers -> Seq(Nat)] /\ reg' \in [Servers -> Seq(Nat)]
         /\ stmts' \in [Servers -> SUBSET Parses] /\ tx' \in [Servers -> {"I", "T", "E"}]
         /\ taint' \in [Servers -> SUBSET Causes]
         /\ SessionsOK'
<1> DEFINE gone == Evicted(cache[s])
           added == Pushed(cache[s], p.name)
           queue == Append(reg[s], p.name)
           error == send /\ ParseFails(s, p)
           held == Deallocated(IF send THEN stmts[s] \cup {p} ELSE stmts[s], gone)
<1>0. /\ cache \in [Servers -> Seq(Nat)] /\ reg \in [Servers -> Seq(Nat)]
      /\ stmts \in [Servers -> SUBSET Parses] /\ tx \in [Servers -> {"I", "T", "E"}]
      /\ taint \in [Servers -> SUBSET Causes] /\ p.name \in Nat
  BY DEF StatementInv, TypeOK, Parses
<1>1. added \in Seq(Nat)
  BY <1>0, LruSeq
<1>2. queue \in Seq(Nat) /\ Tail(queue) \in Seq(Nat)
  <2>1. queue \in Seq(Nat) /\ Len(queue) > 0
    BY SMT, <1>0
  <2> HIDE DEF queue
  <2> QED BY SMT, <2>1
<1>3. Popped(added, Head(queue)) \in Seq(Nat)
  <2> HIDE DEF added, queue
  <2> QED BY <1>1, LruSeq
<1>4. held \subseteq Parses /\ \A x \in held : x = p \/ x \in stmts[s]
  BY <1>0 DEF Deallocated
<1>5. AfterError(s) \in {"I", "T", "E"}
  BY <1>0 DEF AfterError
<1>6. /\ cache' = [cache EXCEPT ![s] = IF error THEN Popped(added, Head(queue)) ELSE added]
      /\ reg' = [reg EXCEPT ![s] = IF send THEN Tail(queue) ELSE queue]
      /\ stmts' = [stmts EXCEPT ![s] = IF error THEN stmts[s] ELSE held]
      /\ tx' = [tx EXCEPT ![s] = IF error THEN AfterError(s) ELSE tx[s]]
  BY <1>0 DEF Register
<1>7. taint' \in [Servers -> SUBSET Causes]
  <2>1. \E a \in SUBSET Causes : taint' = [taint EXCEPT ![s] = a]
    <3> DEFINE a == taint[s]
                      \cup (IF send /\ reg[s] # <<>> THEN {"overlap"} ELSE {})
                      \cup (IF gone \cap Pending(c, "parse") # {} THEN {"evicted"} ELSE {})
                      \cup (IF gone \cap Pending(c, "bind") # {} THEN {"missed"} ELSE {})
                      \cup (IF error /\ gone # {} THEN {"unclosed"} ELSE {})
    <3>1. taint' = [taint EXCEPT ![s] = a]
      BY <1>0 DEF Register
    <3>2. taint[s] \subseteq Causes /\ {"overlap", "evicted", "missed", "unclosed"} \subseteq Causes
      BY <1>0 DEF Causes
    <3>3. a \in SUBSET Causes
      <4> HIDE DEF gone, error
      <4> QED BY <3>2
    <3> QED BY <3>1, <3>3
  <2> QED BY <1>0, <2>1
<1> HIDE DEF gone, added, queue, error, held
<1>8. SessionsOK'
  <2> SUFFICES ASSUME NEW r \in Servers, NEW x \in stmts'[r]
               PROVE  x.name < counter /\ x.text = born[x.name]
    BY DEF SessionsOK, Numbered
  <2>1. x = p \/ x \in stmts[r]
    BY <1>0, <1>4, <1>6
  <2> QED BY <2>1 DEF StatementInv, Numbered
<1> QED BY <1>0, <1>1, <1>2, <1>3, <1>4, <1>5, <1>6, <1>7, <1>8

LEMMA HitOK ==
  ASSUME StatementInv, NEW s \in Servers, NEW p, Hit(s, p)
  PROVE  cache' \in [Servers -> Seq(Nat)] /\ UNCHANGED <<reg, stmts, tx, taint>>
<1>1. cache \in [Servers -> Seq(Nat)]
  BY DEF StatementInv, TypeOK
<1>2. Promoted(cache[s], p.name) \in Seq(Nat)
  BY <1>1, LruSeq
<1> QED BY <1>1, <1>2 DEF Hit

-----------------------------------------------------------------------------
(* What a step leaves alone, and the buffers.                              *)

LEMMA NoGrowth == ASSUME TypeOK, UNCHANGED <<counter, born>> PROVE Grows
BY SMT DEF TypeOK, Grows

LEMMA BufferElem ==
  ASSUME TypeOK, NEW c \in Clients
  PROVE  /\ \A i \in DOMAIN ebuf[c] : ebuf[c][i] \in Messages /\ ebuf[c][i].p \in Parses
         /\ \A i \in DOMAIN out[c] : out[c][i] \in Sent /\ out[c][i].p \in Parses
<1>1. ebuf[c] \in Seq(Messages) /\ out[c] \in Seq(Sent)
  BY DEF TypeOK
<1>2. /\ \A i \in DOMAIN ebuf[c] : ebuf[c][i] \in Messages
      /\ \A i \in DOMAIN out[c] : out[c][i] \in Sent
  BY SMT, <1>1
<1>3. (\A m \in Messages : m.p \in Parses) /\ \A m \in Sent : m.p \in Parses
  BY DEF Messages, Sent
<1> QED BY <1>2, <1>3

LEMMA Unmoved ==
  ASSUME StatementInv, Grows
  PROVE  /\ UNCHANGED pool => PoolOK'
         /\ UNCHANGED stmts => SessionsOK'
         /\ UNCHANGED <<mine, said>> => MapsOK'
         /\ UNCHANGED ebuf => EbufOK'
         /\ UNCHANGED out => OutOK'
         /\ UNCHANGED <<pc, conn>> => HeldOK'
         /\ UNCHANGED ran => RightText'
<1>0. TypeOK /\ PoolOK /\ SessionsOK /\ MapsOK /\ EbufOK /\ OutOK /\ HeldOK /\ RightText
  BY Parts
<1>1. \A p \in Parses : Numbered(p) => p.name < counter' /\ p.text = born'[p.name]
  BY <1>0, GrowsKeeps
<1>2. UNCHANGED pool => PoolOK'
  <2>1. Elems(pool) \subseteq Parses
    BY SMT, <1>0 DEF TypeOK, Elems
  <2> QED BY <1>0, <1>1, <2>1 DEF PoolOK, Numbered
<1>3. UNCHANGED stmts => SessionsOK'
  <2>1. \A s \in Servers : stmts[s] \subseteq Parses
    BY <1>0 DEF TypeOK
  <2> QED BY <1>0, <1>1, <2>1 DEF SessionsOK, Numbered
<1>4. UNCHANGED <<mine, said>> => MapsOK'
  <2>1. \A c \in Clients, n \in Names : mine[c][n] # None => mine[c][n] \in Parses
    BY SMTT(30), <1>0 DEF TypeOK
  <2> QED BY SMTT(30), <1>0, <1>1, <2>1 DEF MapsOK, Numbered
<1>5. UNCHANGED ebuf => EbufOK'
  <2>1. \A c \in Clients : \A i \in DOMAIN ebuf[c] : ebuf[c][i].p \in Parses
    BY <1>0, BufferElem
  <2> QED BY SMT, <1>0, <1>1, <2>1 DEF EbufOK, Numbered
<1>6. UNCHANGED out => OutOK'
  <2>1. \A c \in Clients : \A i \in DOMAIN out[c] : out[c][i].p \in Parses
    BY <1>0, BufferElem
  <2> QED BY SMT, <1>0, <1>1, <2>1 DEF OutOK, Numbered
<1>7. UNCHANGED <<pc, conn>> => HeldOK'
  BY <1>0 DEF HeldOK
<1>8. UNCHANGED ran => RightText'
  BY <1>0 DEF RightText
<1> QED BY <1>2, <1>3, <1>4, <1>5, <1>6, <1>7, <1>8

\* The elements of a queue after a push, and after a pop.
LEMMA AppendElem ==
  ASSUME NEW S, NEW q \in Seq(S), NEW m \in S, NEW i \in DOMAIN Append(q, m)
  PROVE  (i \in DOMAIN q /\ Append(q, m)[i] = q[i]) \/ Append(q, m)[i] = m
BY SMTT(30)

LEMMA TailElem ==
  ASSUME NEW S, NEW q \in Seq(S), q # <<>>, NEW i \in DOMAIN Tail(q)
  PROVE  i + 1 \in DOMAIN q /\ Tail(q)[i] = q[i + 1]
BY SMTT(30)

\* A message is buffered.
LEMMA EbufAppend ==
  ASSUME StatementInv, Grows, NEW c \in Clients, NEW m \in Messages,
         m.p.name < counter' /\ m.p.text = born'[m.p.name] /\ m.want = m.p.text,
         ebuf' = [ebuf EXCEPT ![c] = Append(ebuf[c], m)]
  PROVE  ebuf' \in [Clients -> Seq(Messages)] /\ EbufOK'
<1>0. TypeOK /\ EbufOK /\ ebuf \in [Clients -> Seq(Messages)]
  BY Parts DEF TypeOK
<1>1. ebuf' \in [Clients -> Seq(Messages)]
  BY SMT, <1>0
<1>2. ASSUME NEW d \in Clients, NEW i \in DOMAIN ebuf'[d]
      PROVE  /\ ebuf'[d][i].p.name < counter' /\ ebuf'[d][i].p.text = born'[ebuf'[d][i].p.name]
             /\ ebuf'[d][i].want = ebuf'[d][i].p.text
  <2>1. CASE i \in DOMAIN ebuf[d] /\ ebuf'[d][i] = ebuf[d][i]
    <3>1. ebuf[d][i].p \in Parses
      BY <1>0, <2>1, BufferElem
    <3>2. Numbered(ebuf[d][i].p) /\ ebuf[d][i].want = ebuf[d][i].p.text
      BY <1>0, <2>1 DEF EbufOK
    <3> QED BY <1>0, <2>1, <3>1, <3>2, GrowsKeeps
  <2>2. CASE ebuf'[d][i] = m
    BY <2>2
  <2>3. (i \in DOMAIN ebuf[d] /\ ebuf'[d][i] = ebuf[d][i]) \/ ebuf'[d][i] = m
    <3>1. CASE d = c
      <4>1. ebuf[c] \in Seq(Messages) /\ ebuf'[d] = Append(ebuf[c], m)
        BY <1>0, <3>1
      <4>2. i \in DOMAIN Append(ebuf[c], m)
        BY <1>2, <4>1
      <4>3. \/ i \in DOMAIN ebuf[c] /\ Append(ebuf[c], m)[i] = ebuf[c][i]
            \/ Append(ebuf[c], m)[i] = m
        BY SMT, <4>1, <4>2, AppendElem
      <4> QED BY <3>1, <4>1, <4>3
    <3>2. CASE d # c
      BY <1>0, <1>2, <3>2
    <3> QED BY <3>1, <3>2
  <2> QED BY <2>1, <2>2, <2>3
<1> QED BY <1>1, <1>2 DEF EbufOK, Numbered

\* The front of a buffer is taken, or the buffer is emptied.
LEMMA EbufTail ==
  ASSUME StatementInv, NEW c \in Clients, UNCHANGED <<counter, born>>,
         \/ ebuf[c] # <<>> /\ ebuf' = [ebuf EXCEPT ![c] = Tail(ebuf[c])]
         \/ ebuf' = [ebuf EXCEPT ![c] = <<>>]
  PROVE  ebuf' \in [Clients -> Seq(Messages)] /\ EbufOK'
<1>0. TypeOK /\ EbufOK /\ ebuf \in [Clients -> Seq(Messages)]
  BY Parts DEF TypeOK
<1>1. ebuf' \in [Clients -> Seq(Messages)]
  <2>1. ebuf[c] # <<>> => Tail(ebuf[c]) \in Seq(Messages)
    BY SMT, <1>0
  <2>2. <<>> \in Seq(Messages)
    BY SMT
  <2> QED BY <1>0, <2>1, <2>2
<1>2. ASSUME NEW d \in Clients, NEW i \in DOMAIN ebuf'[d]
      PROVE  \E j \in DOMAIN ebuf[d] : ebuf'[d][i] = ebuf[d][j]
  <2>1. CASE d # c
    BY <1>0, <1>2, <2>1
  <2>2. CASE d = c
    <3>1. ebuf[c] # <<>> /\ ebuf'[d] = Tail(ebuf[c])
      BY SMT, <1>0, <1>2, <2>2
    <3>2. ebuf[c] \in Seq(Messages)
      BY <1>0
    <3>3. i \in DOMAIN Tail(ebuf[c])
      BY <1>2, <3>1
    <3>4. i + 1 \in DOMAIN ebuf[c] /\ Tail(ebuf[c])[i] = ebuf[c][i + 1]
      BY <3>1, <3>2, <3>3, TailElem
    <3> QED BY <2>2, <3>1, <3>4
  <2> QED BY <2>1, <2>2
<1>3. ASSUME NEW d \in Clients, NEW i \in DOMAIN ebuf'[d]
      PROVE  Numbered(ebuf[d][i].p)' /\ ebuf'[d][i].want = ebuf'[d][i].p.text
  <2>1. PICK j \in DOMAIN ebuf[d] : ebuf'[d][i] = ebuf[d][j]
    BY <1>2, <1>3
  <2>2. Numbered(ebuf[d][j].p) /\ ebuf[d][j].want = ebuf[d][j].p.text
    BY <1>0 DEF EbufOK
  <2> QED BY <2>1, <2>2 DEF Numbered
<1> QED BY <1>1, <1>3 DEF EbufOK

LEMMA OutTail ==
  ASSUME StatementInv, NEW c \in Clients, UNCHANGED <<counter, born>>,
         \/ out[c] # <<>> /\ out' = [out EXCEPT ![c] = Tail(out[c])]
         \/ out' = [out EXCEPT ![c] = <<>>]
  PROVE  out' \in [Clients -> Seq(Sent)] /\ OutOK'
<1>0. TypeOK /\ OutOK /\ out \in [Clients -> Seq(Sent)]
  BY Parts DEF TypeOK
<1>1. out' \in [Clients -> Seq(Sent)]
  <2>1. out[c] # <<>> => Tail(out[c]) \in Seq(Sent)
    BY SMT, <1>0
  <2>2. <<>> \in Seq(Sent)
    BY SMT
  <2> QED BY <1>0, <2>1, <2>2
<1>2. ASSUME NEW d \in Clients, NEW i \in DOMAIN out'[d]
      PROVE  \E j \in DOMAIN out[d] : out'[d][i] = out[d][j]
  <2>1. CASE d # c
    BY <1>0, <1>2, <2>1
  <2>2. CASE d = c
    <3>1. out[c] # <<>> /\ out'[d] = Tail(out[c])
      BY SMT, <1>0, <1>2, <2>2
    <3>2. out[c] \in Seq(Sent)
      BY <1>0
    <3>3. i \in DOMAIN Tail(out[c])
      BY <1>2, <3>1
    <3>4. i + 1 \in DOMAIN out[c] /\ Tail(out[c])[i] = out[c][i + 1]
      BY <3>1, <3>2, <3>3, TailElem
    <3> QED BY <2>2, <3>1, <3>4
  <2> QED BY <2>1, <2>2
<1>3. ASSUME NEW d \in Clients, NEW i \in DOMAIN out'[d]
      PROVE  Numbered(out[d][i].p)' /\ out'[d][i].want = out'[d][i].p.text
  <2>1. PICK j \in DOMAIN out[d] : out'[d][i] = out[d][j]
    BY <1>2, <1>3
  <2>2. Numbered(out[d][j].p) /\ out[d][j].want = out[d][j].p.text
    BY <1>0 DEF OutOK
  <2> QED BY <2>1, <2>2 DEF Numbered
<1> QED BY <1>1, <1>3 DEF OutOK

\* The front of the buffer goes to the server.
LEMMA SendsOK ==
  ASSUME StatementInv, NEW c \in Clients, UNCHANGED <<counter, born>>, NEW k \in Nat,
         NEW o \in {"parse", "bind"}, Drains(c, o), Sends(c, k)
  PROVE  out' \in [Clients -> Seq(Sent)] /\ OutOK'
<1> DEFINE h == Head(ebuf[c])
           m == [op |-> h.op, p |-> h.p, want |-> h.want, ensured |-> k]
<1>0. /\ TypeOK /\ OutOK /\ EbufOK
      /\ out \in [Clients -> Seq(Sent)] /\ ebuf \in [Clients -> Seq(Messages)]
  BY Parts DEF TypeOK
<1>1. ebuf[c] # <<>> /\ h.op = o /\ 1 \in DOMAIN ebuf[c] /\ h = ebuf[c][1] /\ h \in Messages
  BY SMT, <1>0 DEF Drains
<1>2. Numbered(h.p) /\ h.want = h.p.text
  BY <1>0, <1>1 DEF EbufOK
<1> HIDE DEF h
<1>3. m \in Sent /\ m.p = h.p /\ m.want = h.want
  BY <1>1 DEF Messages, Sent
<1>4. out' = [out EXCEPT ![c] = Append(out[c], m)]
  BY <1>0 DEF Sends, h
<1> HIDE DEF m
<1>5. out' \in [Clients -> Seq(Sent)]
  BY SMTT(30), <1>0, <1>3, <1>4
<1>6. ASSUME NEW d \in Clients, NEW i \in DOMAIN out'[d]
      PROVE  out'[d][i] = m \/ (i \in DOMAIN out[d] /\ out'[d][i] = out[d][i])
  <2>1. CASE d = c
    <3>1. out[c] \in Seq(Sent) /\ out'[d] = Append(out[c], m)
      BY <1>0, <1>4, <2>1
    <3>2. i \in DOMAIN Append(out[c], m)
      BY <1>6, <3>1
    <3>3. (i \in DOMAIN out[c] /\ Append(out[c], m)[i] = out[c][i]) \/ Append(out[c], m)[i] = m
      BY SMT, <1>3, <3>1, <3>2, AppendElem
    <3> QED BY <2>1, <3>1, <3>3
  <2>2. CASE d # c
    BY <1>0, <1>4, <1>6, <2>2
  <2> QED BY <2>1, <2>2
<1>7. ASSUME NEW d \in Clients, NEW i \in DOMAIN out'[d]
      PROVE  Numbered(out'[d][i].p) /\ out'[d][i].want = out'[d][i].p.text
  BY <1>0, <1>2, <1>3, <1>6, <1>7 DEF OutOK
<1> QED BY <1>5, <1>7 DEF OutOK, Numbered

-----------------------------------------------------------------------------
(* Every step preserves StatementInv.                                      *)

LEMMA Together ==
  ASSUME TypeOK', PoolOK', SessionsOK', MapsOK', EbufOK', OutOK', HeldOK', RightText'
  PROVE  StatementInv'
BY DEF StatementInv, PoolOK, SessionsOK, MapsOK, EbufOK, OutOK, HeldOK

LEMMA ParseStep ==
  ASSUME StatementInv, NEW c \in Clients, NEW n \in Names, NEW t \in Texts, Parse(c, n, t)
  PROVE  StatementInv'
<1> DEFINE p == IF InPool(t) THEN Cached(t) ELSE Rewritten(t)
           m == [op |-> "parse", n |-> n, p |-> p, want |-> t]
<1>0. TypeOK /\ MapsOK
  BY Parts
<1>1. /\ get_or_insert(t) /\ mine' = [mine EXCEPT ![c][n] = p]
      /\ ebuf' = [ebuf EXCEPT ![c] = Append(ebuf[c], m)]
      /\ said' = [said EXCEPT ![c][n] = t]
      /\ UNCHANGED <<out, pc, conn, failed, ran, lost, serverVars>>
  BY <1>0 DEF Parse, TypeOK
<1>2. /\ Grows /\ pool' \in Seq(Parses) /\ PoolOK'
      /\ p \in Parses /\ p.text = t /\ p.name < counter' /\ p.text = born'[p.name]
  BY <1>1, GetOrInsert
<1> HIDE DEF p
<1>3. m \in Messages /\ m.p = p /\ m.want = t
  BY <1>2 DEF Messages
<1> HIDE DEF m
<1>4. ebuf' \in [Clients -> Seq(Messages)] /\ EbufOK'
  BY <1>1, <1>2, <1>3, EbufAppend
<1>5. TypeOK'
  BY <1>0, <1>1, <1>2, <1>4 DEF TypeOK, Grows, serverVars
<1>6. MapsOK'
  <2> SUFFICES ASSUME NEW d \in Clients, NEW k \in Names, mine'[d][k] # None
               PROVE  /\ mine'[d][k].name < counter' /\ mine'[d][k].text = born'[mine'[d][k].name]
                      /\ said'[d][k] = mine'[d][k].text
    BY DEF MapsOK, Numbered
  <2>1. CASE d = c /\ k = n
    <3>1. mine'[d][k] = p /\ said'[d][k] = t
      BY <1>0, <1>1, <2>1 DEF TypeOK
    <3> QED BY <1>2, <3>1
  <2>2. CASE ~(d = c /\ k = n)
    <3>1. mine'[d][k] = mine[d][k] /\ said'[d][k] = said[d][k]
      BY <1>0, <1>1, <2>2 DEF TypeOK
    <3>a. mine \in [Clients -> [Names -> Parses \cup {None}]]
      BY <1>0 DEF TypeOK
    <3>2. mine[d][k] \in Parses
      BY <3>1, <3>a
    <3>3. Numbered(mine[d][k]) /\ said[d][k] = mine[d][k].text
      BY <1>0, <3>1 DEF MapsOK
    <3> QED BY <1>0, <1>2, <3>1, <3>2, <3>3, GrowsKeeps
  <2> QED BY <2>1, <2>2
<1>7. SessionsOK' /\ OutOK' /\ HeldOK' /\ RightText'
  BY <1>1, <1>2, Unmoved DEF serverVars
<1> QED BY <1>2, <1>4, <1>5, <1>6, <1>7, Together

LEMMA BufferStep ==
  ASSUME StatementInv, NEW c \in Clients, NEW n \in Names, Bind(c, n) \/ Close(c, n)
  PROVE  StatementInv'
<1>0. TypeOK /\ MapsOK
  BY Parts
<1>1. mine[c][n] # None /\ mine[c][n] \in Parses
  <2>1. mine \in [Clients -> [Names -> Parses \cup {None}]]
    BY <1>0 DEF TypeOK
  <2>2. mine[c][n] # None
    BY DEF Bind, Close
  <2> QED BY <2>1, <2>2
<1>2. Numbered(mine[c][n]) /\ said[c][n] = mine[c][n].text
  BY <1>0, <1>1 DEF MapsOK
<1>3. said[c][n] \in Texts
  BY <1>1, <1>2 DEF Parses
<1>4. PICK o \in {"bind", "close"} :
        ebuf' = [ebuf EXCEPT ![c] =
                  Append(ebuf[c], [op |-> o, n |-> n, p |-> mine[c][n], want |-> said[c][n]])]
  BY <1>0 DEF Bind, Close, TypeOK
<1>5. UNCHANGED <<counter, born, pool, mine, out, pc, conn, failed, said, ran, lost, serverVars>>
  BY DEF Bind, Close
<1>6. Grows
  BY <1>0, <1>5, NoGrowth
<1> DEFINE m == [op |-> o, n |-> n, p |-> mine[c][n], want |-> said[c][n]]
<1>7. m \in Messages /\ m.p = mine[c][n] /\ m.want = said[c][n]
  BY <1>1, <1>3 DEF Messages
<1>8. m.p.name < counter' /\ m.p.text = born'[m.p.name] /\ m.want = m.p.text
  BY <1>2, <1>5, <1>7 DEF Numbered
<1>9. ebuf' = [ebuf EXCEPT ![c] = Append(ebuf[c], m)]
  BY <1>4
<1> HIDE DEF m
<1>10. ebuf' \in [Clients -> Seq(Messages)] /\ EbufOK'
  BY <1>6, <1>7, <1>8, <1>9, EbufAppend
<1>11. TypeOK'
  BY <1>0, <1>5, <1>10 DEF TypeOK, serverVars
<1>12. PoolOK' /\ SessionsOK' /\ MapsOK' /\ OutOK' /\ HeldOK' /\ RightText'
  BY <1>5, <1>6, Unmoved DEF serverVars
<1> QED BY <1>10, <1>11, <1>12, Together

LEMMA GoneStep ==
  ASSUME StatementInv, NEW c \in Clients, Gone(c),
         UNCHANGED <<counter, born, pool, failed, cache, reg, needs, stmts, tx, ran, lost>>
  PROVE  StatementInv'
<1>0. TypeOK /\ MapsOK /\ HeldOK
  BY Parts
<1>1. Grows
  BY <1>0, NoGrowth
<1>2. ebuf' \in [Clients -> Seq(Messages)] /\ EbufOK'
  BY EbufTail DEF Gone
<1>3. out' \in [Clients -> Seq(Sent)] /\ OutOK'
  BY OutTail DEF Gone
<1>4. taint' \in [Servers -> SUBSET Causes]
  BY <1>0 DEF Gone, TypeOK, Causes
<1>5. /\ mine' = [mine EXCEPT ![c] = [n \in Names |-> None]]
      /\ said' = [said EXCEPT ![c] = [n \in Names |-> None]]
      /\ pc' = [pc EXCEPT ![c] = "gone"] /\ conn' = [conn EXCEPT ![c] = None]
  BY DEF Gone
<1>6. TypeOK'
  BY <1>0, <1>2, <1>3, <1>4, <1>5 DEF TypeOK
<1>7. MapsOK'
  BY <1>0, <1>5 DEF MapsOK, TypeOK, Numbered
<1>8. HeldOK'
  BY <1>0, <1>5 DEF HeldOK, TypeOK
<1>9. PoolOK' /\ SessionsOK' /\ RightText'
  BY <1>1, Unmoved
<1> QED BY <1>2, <1>3, <1>6, <1>7, <1>8, <1>9, Together

LEMMA SyncStep ==
  ASSUME StatementInv, NEW c \in Clients, Sync(c) \/ SyncFails(c)
  PROVE  StatementInv'
<1>0. TypeOK /\ HeldOK
  BY Parts
<1>1. UNCHANGED <<counter, born, pool, mine, out, failed, said, ran, lost, serverVars>>
  BY DEF Sync, SyncFails
<1>2. Grows
  BY <1>0, <1>1, NoGrowth
<1>3. CASE Sync(c)
  <2>1. pc' = [pc EXCEPT ![c] = "drain"] /\ UNCHANGED ebuf
    BY <1>3 DEF Sync
  <2>2. (pc[c] = "txread" /\ UNCHANGED conn) \/ \E s \in Servers : conn' = [conn EXCEPT ![c] = s]
    BY <1>3 DEF Sync, Free
  <2>3. TypeOK'
    BY <1>0, <1>1, <2>1, <2>2 DEF TypeOK, serverVars
  <2>4. HeldOK'
    BY <1>0, <2>1, <2>2 DEF HeldOK, TypeOK
  <2>5. PoolOK' /\ SessionsOK' /\ MapsOK' /\ EbufOK' /\ OutOK' /\ RightText'
    BY <1>1, <1>2, <2>1, Unmoved DEF serverVars
  <2> QED BY <2>3, <2>4, <2>5, Together
<1>4. CASE SyncFails(c)
  <2>1. ebuf' = [ebuf EXCEPT ![c] = <<>>] /\ UNCHANGED <<pc, conn>>
    BY <1>4 DEF SyncFails
  <2>2. ebuf' \in [Clients -> Seq(Messages)] /\ EbufOK'
    BY <1>1, <2>1, EbufTail
  <2>3. TypeOK'
    BY <1>0, <1>1, <2>1, <2>2 DEF TypeOK, serverVars
  <2>4. PoolOK' /\ SessionsOK' /\ MapsOK' /\ OutOK' /\ HeldOK' /\ RightText'
    BY <1>1, <1>2, <2>1, Unmoved DEF serverVars
  <2> QED BY <2>2, <2>3, <2>4, Together
<1> QED BY <1>3, <1>4

\* The front of the buffer, as the drain sees it.
LEMMA FrontOK ==
  ASSUME StatementInv, NEW c \in Clients, pc[c] = "drain", ebuf[c] # <<>>
  PROVE  /\ conn[c] \in Servers
         /\ Head(ebuf[c]) \in Messages /\ Head(ebuf[c]).n \in Names
         /\ Head(ebuf[c]).p \in Parses /\ Numbered(Head(ebuf[c]).p)
<1>0. TypeOK /\ EbufOK /\ HeldOK
  BY Parts
<1>a. ebuf[c] \in Seq(Messages)
  BY <1>0 DEF TypeOK
<1>1. ebuf[c] \in Seq(Messages) /\ 1 \in DOMAIN ebuf[c] /\ Head(ebuf[c]) = ebuf[c][1]
  BY SMTT(60), <1>a
<1>2. Head(ebuf[c]) \in Messages
  BY SMTT(60), <1>1
<1>3. Numbered(Head(ebuf[c]).p)
  BY <1>0, <1>1 DEF EbufOK
<1> QED BY <1>0, <1>2, <1>3 DEF HeldOK, Messages

LEMMA DrainParseStep ==
  ASSUME StatementInv, NEW c \in Clients, DrainParse(c)
  PROVE  StatementInv'
<1> DEFINE p == Head(ebuf[c]).p
<1>0. TypeOK
  BY Parts
<1>1. /\ Drains(c, "parse") /\ pc[c] = "drain" /\ ebuf[c] # <<>>
      /\ ebuf' = [ebuf EXCEPT ![c] = Tail(ebuf[c])]
      /\ UNCHANGED <<counter, born, mine, pc, conn, failed, needs, said, ran, lost>>
  BY <1>0 DEF DrainParse, Drains, Drops, TypeOK
<1>2. conn[c] \in Servers /\ p \in Parses /\ Numbered(p) /\ p.name \in Nat
  BY <1>1, FrontOK DEF Parses
<1>3. Grows
  BY <1>0, <1>1, NoGrowth
<1>4. ebuf' \in [Clients -> Seq(Messages)] /\ EbufOK'
  BY <1>1, EbufTail
<1>5. MapsOK' /\ HeldOK' /\ RightText'
  BY <1>1, <1>3, Unmoved
<1>6. CASE Hit(conn[c], p) /\ UNCHANGED <<out, pool>>
  <2>1. cache' \in [Servers -> Seq(Nat)] /\ UNCHANGED <<reg, stmts, tx, taint>>
    BY <1>2, <1>6, HitOK
  <2>2. TypeOK'
    BY <1>0, <1>1, <1>4, <1>6, <2>1 DEF TypeOK
  <2>3. PoolOK' /\ SessionsOK' /\ OutOK'
    BY <1>3, <1>6, <2>1, Unmoved
  <2> QED BY <1>4, <1>5, <2>2, <2>3, Together
<1>7. CASE promote(p) /\ Register(c, conn[c], p, FALSE) /\ Sends(c, p.name)
  <2>1. pool' \in Seq(Parses) /\ PoolOK'
    BY <1>1, <1>7, PromoteOK
  <2>2. /\ cache' \in [Servers -> Seq(Nat)] /\ reg' \in [Servers -> Seq(Nat)]
        /\ stmts' \in [Servers -> SUBSET Parses] /\ tx' \in [Servers -> {"I", "T", "E"}]
        /\ taint' \in [Servers -> SUBSET Causes]
        /\ SessionsOK'
    BY <1>1, <1>2, <1>7, RegisterOK
  <2>3. out' \in [Clients -> Seq(Sent)] /\ OutOK'
    BY <1>1, <1>2, <1>7, SendsOK
  <2>4. TypeOK'
    BY <1>0, <1>1, <1>4, <2>1, <2>2, <2>3 DEF TypeOK
  <2> QED BY <1>4, <1>5, <2>1, <2>2, <2>3, <2>4, Together
<1> QED BY <1>6, <1>7 DEF DrainParse

\* The client's map, when a name is forgotten.
LEMMA ForgetOK ==
  ASSUME StatementInv, UNCHANGED <<counter, born, said>>, NEW c \in Clients, NEW n \in Names,
         mine' = [mine EXCEPT ![c][n] = None]
  PROVE  mine' \in [Clients -> [Names -> Parses \cup {None}]] /\ MapsOK'
<1>0. TypeOK /\ MapsOK
  BY Parts
<1>1. mine' \in [Clients -> [Names -> Parses \cup {None}]]
  BY <1>0 DEF TypeOK
<1>2. \A d \in Clients, k \in Names : mine'[d][k] # None => mine'[d][k] = mine[d][k]
  BY <1>0 DEF TypeOK
<1> QED BY SMTT(60), <1>0, <1>1, <1>2 DEF MapsOK, Numbered

LEMMA DrainBindStep ==
  ASSUME StatementInv, NEW c \in Clients, DrainBind(c)
  PROVE  StatementInv'
<1> DEFINE n == Head(ebuf[c]).n
           p == mine[c][n]
<1>0. TypeOK /\ MapsOK
  BY Parts
<1>1. /\ Drains(c, "bind") /\ pc[c] = "drain" /\ ebuf[c] # <<>> /\ p # None
      /\ promote(p) /\ Sends(c, p.name)
      /\ ebuf' = [ebuf EXCEPT ![c] = Tail(ebuf[c])]
      /\ UNCHANGED <<counter, born, pc, conn, failed, needs, said, ran, lost>>
  BY <1>0 DEF DrainBind, Drains, Drops, TypeOK
<1>2. conn[c] \in Servers /\ n \in Names
  BY <1>1, FrontOK
<1>3. p \in Parses /\ Numbered(p) /\ p.name \in Nat
  <2>1. mine \in [Clients -> [Names -> Parses \cup {None}]]
    BY <1>0 DEF TypeOK
  <2>2. p # None
    BY <1>1
  <2>3. p \in Parses
    BY <1>2, <2>1, <2>2
  <2>4. Numbered(p)
    BY <1>0, <1>2, <2>2 DEF MapsOK
  <2> QED BY <2>3, <2>4 DEF Parses
<1>4. Grows
  BY <1>0, <1>1, NoGrowth
<1>5. ebuf' \in [Clients -> Seq(Messages)] /\ EbufOK'
  BY <1>1, EbufTail
<1>6. HeldOK' /\ RightText'
  BY <1>1, <1>4, Unmoved
<1>7. pool' \in Seq(Parses) /\ PoolOK'
  BY <1>1, PromoteOK
<1>8. out' \in [Clients -> Seq(Sent)] /\ OutOK'
  BY <1>1, <1>3, SendsOK
<1>9. CASE Hit(conn[c], p) /\ UNCHANGED mine
  <2>1. cache' \in [Servers -> Seq(Nat)] /\ UNCHANGED <<reg, stmts, tx, taint>>
    BY <1>2, <1>9, HitOK
  <2>2. TypeOK'
    BY <1>0, <1>1, <1>5, <1>7, <1>8, <1>9, <2>1 DEF TypeOK
  <2>3. MapsOK' /\ SessionsOK'
    BY <1>1, <1>4, <1>9, <2>1, Unmoved
  <2> QED BY <1>5, <1>6, <1>7, <1>8, <2>2, <2>3, Together
<1>10. CASE /\ Register(c, conn[c], p, TRUE)
            /\ mine' = mine \/ mine' = [mine EXCEPT ![c][n] = None]
  <2>1. /\ cache' \in [Servers -> Seq(Nat)] /\ reg' \in [Servers -> Seq(Nat)]
        /\ stmts' \in [Servers -> SUBSET Parses] /\ tx' \in [Servers -> {"I", "T", "E"}]
        /\ taint' \in [Servers -> SUBSET Causes]
        /\ SessionsOK'
    BY <1>1, <1>2, <1>3, <1>10, RegisterOK
  <2>2. mine' \in [Clients -> [Names -> Parses \cup {None}]] /\ MapsOK'
    <3>1. CASE mine' = mine
      BY <1>0, <1>1, <1>4, <3>1, Unmoved DEF TypeOK
    <3>2. CASE mine' = [mine EXCEPT ![c][n] = None]
      BY <1>1, <1>2, <3>2, ForgetOK
    <3> QED BY <1>10, <3>1, <3>2
  <2>3. TypeOK'
    BY <1>0, <1>1, <1>5, <1>7, <1>8, <2>1, <2>2 DEF TypeOK
  <2> QED BY <1>5, <1>6, <1>7, <1>8, <2>1, <2>2, <2>3, Together
<1> QED BY <1>9, <1>10 DEF DrainBind

LEMMA DrainCloseStep ==
  ASSUME StatementInv, NEW c \in Clients, DrainClose(c)
  PROVE  StatementInv'
<1>0. TypeOK
  BY Parts
<1>1. /\ pc[c] = "drain" /\ ebuf[c] # <<>>
      /\ ebuf' = [ebuf EXCEPT ![c] = Tail(ebuf[c])]
      /\ mine' = [mine EXCEPT ![c][Head(ebuf[c]).n] = None]
      /\ UNCHANGED <<counter, born, pool, out, pc, conn, failed, said, ran, lost, serverVars>>
  BY <1>0 DEF DrainClose, Drains, Drops, TypeOK
<1>2. Head(ebuf[c]).n \in Names
  BY <1>1, FrontOK
<1>3. Grows
  BY <1>0, <1>1, NoGrowth
<1>4. mine' \in [Clients -> [Names -> Parses \cup {None}]] /\ MapsOK'
  BY <1>1, <1>2, ForgetOK
<1>5. ebuf' \in [Clients -> Seq(Messages)] /\ EbufOK'
  BY <1>1, EbufTail
<1>6. TypeOK'
  BY <1>0, <1>1, <1>4, <1>5 DEF TypeOK, serverVars
<1>7. PoolOK' /\ SessionsOK' /\ OutOK' /\ HeldOK' /\ RightText'
  BY <1>1, <1>3, Unmoved DEF serverVars
<1> QED BY <1>4, <1>5, <1>6, <1>7, Together

\* recv at an ErrorResponse and at ParseComplete.
LEMMA ErrorOK ==
  ASSUME StatementInv, NEW s \in Servers, ErrorResponse(s)
  PROVE  /\ cache' \in [Servers -> Seq(Nat)] /\ reg' \in [Servers -> Seq(Nat)]
         /\ tx' \in [Servers -> {"I", "T", "E"}]
<1>0. /\ cache \in [Servers -> Seq(Nat)] /\ reg \in [Servers -> Seq(Nat)]
      /\ tx \in [Servers -> {"I", "T", "E"}]
  BY DEF StatementInv, TypeOK
<1>1. Popped(cache[s], Head(reg[s])) \in Seq(Nat)
  BY <1>0, LruSeq
<1>2. reg[s] # <<>> => Tail(reg[s]) \in Seq(Nat)
  BY SMT, <1>0
<1>3. AfterError(s) \in {"I", "T", "E"}
  BY <1>0 DEF AfterError
<1> QED BY <1>0, <1>1, <1>2, <1>3 DEF ErrorResponse

LEMMA CompleteOK ==
  ASSUME StatementInv, NEW s \in Servers, ParseComplete(s)
  PROVE  reg' \in [Servers -> Seq(Nat)]
<1>0. reg \in [Servers -> Seq(Nat)]
  BY DEF StatementInv, TypeOK
<1>1. reg[s] # <<>> => Tail(reg[s]) \in Seq(Nat)
  BY SMTT(60), <1>0
<1> QED BY <1>0, <1>1 DEF ParseComplete

\* The message Postgres takes next.
LEMMA FirstOut ==
  ASSUME StatementInv, NEW c \in Clients, pc[c] = "exchange", out[c] # <<>>
  PROVE  /\ conn[c] \in Servers
         /\ Head(out[c]) \in Sent /\ Head(out[c]).p \in Parses
         /\ Numbered(Head(out[c]).p) /\ Head(out[c]).want = Head(out[c]).p.text
<1>0. TypeOK /\ OutOK /\ HeldOK
  BY Parts
<1>a. out[c] \in Seq(Sent)
  BY <1>0 DEF TypeOK
<1>1. out[c] \in Seq(Sent) /\ 1 \in DOMAIN out[c] /\ Head(out[c]) = out[c][1]
  BY SMTT(60), <1>a
<1>2. Head(out[c]) \in Sent
  BY SMTT(60), <1>1
<1>3. Numbered(Head(out[c]).p) /\ Head(out[c]).want = Head(out[c]).p.text
  BY <1>0, <1>1 DEF OutOK
<1> QED BY <1>0, <1>2, <1>3 DEF HeldOK, Sent

LEMMA SkipStep ==
  ASSUME StatementInv, NEW c \in Clients, AnswerSkipped(c) \/ Drained(c)
  PROVE  StatementInv'
<1>0. TypeOK /\ HeldOK
  BY Parts
<1>1. UNCHANGED <<counter, born, pool, mine, ebuf, conn, failed, said, ran, lost, serverVars>>
  BY DEF AnswerSkipped, Drained
<1>2. Grows
  BY <1>0, <1>1, NoGrowth
<1>3. PoolOK' /\ SessionsOK' /\ MapsOK' /\ EbufOK' /\ RightText'
  BY <1>1, <1>2, Unmoved DEF serverVars
<1>4. CASE AnswerSkipped(c)
  <2>1. out[c] # <<>> /\ out' = [out EXCEPT ![c] = Tail(out[c])] /\ UNCHANGED pc
    BY <1>0, <1>4 DEF AnswerSkipped, Took, TypeOK
  <2>2. out' \in [Clients -> Seq(Sent)] /\ OutOK'
    BY <1>1, <2>1, OutTail
  <2>3. TypeOK'
    BY <1>0, <1>1, <2>1, <2>2 DEF TypeOK, serverVars
  <2>4. HeldOK'
    BY <1>1, <1>2, <2>1, Unmoved
  <2> QED BY <1>3, <2>2, <2>3, <2>4, Together
<1>5. CASE Drained(c)
  <2>1. pc[c] = "drain" /\ pc' = [pc EXCEPT ![c] = "exchange"] /\ UNCHANGED out
    BY <1>5 DEF Drained
  <2>2. TypeOK'
    BY <1>0, <1>1, <2>1 DEF TypeOK, serverVars
  <2>3. HeldOK'
    BY <1>0, <1>1, <2>1 DEF HeldOK, TypeOK
  <2>4. OutOK'
    BY <1>1, <1>2, <2>1, Unmoved
  <2> QED BY <1>3, <2>2, <2>3, <2>4, Together
<1> QED BY <1>4, <1>5

LEMMA AnswerParseStep ==
  ASSUME StatementInv, NEW c \in Clients, AnswerParse(c)
  PROVE  StatementInv'
<1> DEFINE s == conn[c]
           p == Head(out[c]).p
<1>0. TypeOK /\ SessionsOK
  BY Parts
<1>1. /\ pc[c] = "exchange" /\ out[c] # <<>> /\ out' = [out EXCEPT ![c] = Tail(out[c])]
      /\ UNCHANGED <<counter, born, pool, mine, ebuf, pc, conn, needs, said, ran, lost, taint>>
  BY <1>0 DEF AnswerParse, Exchanges, Took, TypeOK
<1>2. s \in Servers /\ p \in Parses /\ Numbered(p)
  BY <1>1, FirstOut
<1>3. Grows
  BY <1>0, <1>1, NoGrowth
<1>4. out' \in [Clients -> Seq(Sent)] /\ OutOK'
  BY <1>1, OutTail
<1>5. PoolOK' /\ MapsOK' /\ EbufOK' /\ HeldOK' /\ RightText'
  BY <1>1, <1>3, Unmoved
<1>6. CASE ErrorResponse(s) /\ failed' = [failed EXCEPT ![c] = TRUE] /\ UNCHANGED stmts
  <2>1. /\ cache' \in [Servers -> Seq(Nat)] /\ reg' \in [Servers -> Seq(Nat)]
        /\ tx' \in [Servers -> {"I", "T", "E"}]
    BY <1>2, <1>6, ErrorOK
  <2>2. failed' \in [Clients -> BOOLEAN]
    BY <1>0, <1>6 DEF TypeOK
  <2>3. TypeOK'
    BY <1>0, <1>1, <1>4, <1>6, <2>1, <2>2 DEF TypeOK
  <2>4. SessionsOK'
    BY <1>3, <1>6, Unmoved
  <2> QED BY <1>4, <1>5, <2>3, <2>4, Together
<1>7. CASE /\ ParseComplete(s) /\ UNCHANGED <<cache, tx, failed>>
           /\ stmts' = [stmts EXCEPT ![s] = stmts[s] \cup {p}]
  <2>1. reg' \in [Servers -> Seq(Nat)]
    BY <1>2, <1>7, CompleteOK
  <2>2. stmts' \in [Servers -> SUBSET Parses]
    BY <1>0, <1>2, <1>7 DEF TypeOK
  <2>3. TypeOK'
    BY <1>0, <1>1, <1>4, <1>7, <2>1, <2>2 DEF TypeOK
  <2> HIDE DEF s, p
  <2>4. \A r \in Servers : \A x \in stmts'[r] : x = p \/ x \in stmts[r]
    BY <1>0, <1>7 DEF TypeOK
  <2>5. SessionsOK'
    BY <1>0, <1>1, <1>2, <2>4 DEF SessionsOK, Numbered
  <2> QED BY <1>4, <1>5, <2>3, <2>5, Together
<1>8. stmts \in [Servers -> SUBSET Parses]
  BY <1>0 DEF TypeOK
<1> QED BY <1>2, <1>6, <1>7, <1>8 DEF AnswerParse

\* The Bind that is executed runs its own text: one number, one text.
LEMMA AnswerBindStep ==
  ASSUME StatementInv, NEW c \in Clients, AnswerBind(c)
  PROVE  StatementInv'
<1> DEFINE s == conn[c]
           m == Head(out[c])
<1>0. TypeOK /\ SessionsOK /\ RightText
  BY Parts
<1>1. /\ pc[c] = "exchange" /\ out[c] # <<>> /\ out' = [out EXCEPT ![c] = Tail(out[c])]
      /\ UNCHANGED <<counter, born, pool, mine, ebuf, pc, conn, stmts, said, taint>>
  BY <1>0 DEF AnswerBind, Exchanges, Took, TypeOK
<1>2. s \in Servers /\ m.p \in Parses /\ Numbered(m.p) /\ m.want = m.p.text
  BY <1>1, FirstOut
<1>3. Grows
  BY <1>0, <1>1, NoGrowth
<1>4. out' \in [Clients -> Seq(Sent)] /\ OutOK'
  BY <1>1, OutTail
<1>5. PoolOK' /\ SessionsOK' /\ MapsOK' /\ EbufOK' /\ HeldOK'
  BY <1>1, <1>3, Unmoved
<1>6. ASSUME NEW p \in stmts[s], p.name = m.p.name,
             ran' = [ran EXCEPT ![c] = [text |-> p.text, want |-> m.want]],
             UNCHANGED <<failed, cache, reg, tx, needs, lost>>
      PROVE  StatementInv'
  <2>1. p \in Parses /\ Numbered(p)
    BY <1>0, <1>2 DEF TypeOK, SessionsOK
  <2>2. p.text = m.want /\ p.text \in Texts
    BY <1>2, <1>6, <2>1 DEF Numbered, Parses
  <2> HIDE DEF s, m
  <2>3. ran' \in [Clients -> [text: Texts, want: Texts] \cup {None}] /\ RightText'
    BY <1>0, <1>6, <2>2 DEF TypeOK, RightText
  <2>4. TypeOK'
    BY <1>0, <1>1, <1>4, <1>6, <2>3 DEF TypeOK
  <2> QED BY <1>4, <1>5, <2>3, <2>4, Together
<1>7. ASSUME ErrorResponse(s), failed' = [failed EXCEPT ![c] = TRUE], UNCHANGED ran,
             needs' \in [Servers -> BOOLEAN],
             lost' \in [Clients -> [why: SUBSET Causes, ensured: BOOLEAN] \cup {None}]
      PROVE  StatementInv'
  <2>1. /\ cache' \in [Servers -> Seq(Nat)] /\ reg' \in [Servers -> Seq(Nat)]
        /\ tx' \in [Servers -> {"I", "T", "E"}]
    BY <1>2, <1>7, ErrorOK
  <2>2. failed' \in [Clients -> BOOLEAN]
    BY <1>0, <1>7 DEF TypeOK
  <2>3. TypeOK'
    BY <1>0, <1>1, <1>4, <1>7, <2>1, <2>2 DEF TypeOK
  <2>4. RightText'
    BY <1>3, <1>7, Unmoved
  <2> QED BY <1>4, <1>5, <2>3, <2>4, Together
<1>8. /\ needs \in [Servers -> BOOLEAN] /\ [needs EXCEPT ![s] = TRUE] \in [Servers -> BOOLEAN]
      /\ lost \in [Clients -> [why: SUBSET Causes, ensured: BOOLEAN] \cup {None}]
      /\ [lost EXCEPT ![c] = [why |-> taint[s], ensured |-> m.ensured = m.p.name]]
           \in [Clients -> [why: SUBSET Causes, ensured: BOOLEAN] \cup {None}]
  <2>1. taint[s] \in SUBSET Causes /\ (m.ensured = m.p.name) \in BOOLEAN
    BY <1>0, <1>2 DEF TypeOK
  <2> QED BY <1>0, <2>1 DEF TypeOK
<1>9. \/ \E p \in stmts[s] :
           /\ p.name = m.p.name
           /\ ran' = [ran EXCEPT ![c] = [text |-> p.text, want |-> m.want]]
           /\ UNCHANGED <<failed, cache, reg, tx, needs, lost>>
      \/ /\ ErrorResponse(s) /\ failed' = [failed EXCEPT ![c] = TRUE] /\ UNCHANGED ran
         /\ needs' = [needs EXCEPT ![s] = TRUE] \/ needs' = needs
         /\ \/ lost' = [lost EXCEPT ![c] = [why |-> taint[s], ensured |-> m.ensured = m.p.name]]
            \/ lost' = lost
  BY DEF AnswerBind
<1> HIDE DEF s, m
<1> QED BY <1>6, <1>7, <1>8, <1>9

\* checkin_cleanup leaves a part of the session.
LEMMA CleanedOK ==
  ASSUME StatementInv, NEW s, Cleaned(s), UNCHANGED <<counter, born>>
  PROVE  /\ cache' \in [Servers -> Seq(Nat)] /\ needs' \in [Servers -> BOOLEAN]
         /\ stmts' \in [Servers -> SUBSET Parses] /\ SessionsOK'
<1>0. TypeOK /\ SessionsOK
  BY Parts
<1>1. cache' \in [Servers -> Seq(Nat)]
  <2>1. cache \in [Servers -> Seq(Nat)] /\ <<>> \in Seq(Nat)
    BY SMTT(60), <1>0 DEF TypeOK
  <2>2. cache' = [cache EXCEPT ![s] = <<>>] \/ cache' = [cache EXCEPT ![s] = cache[s]]
    BY DEF Cleaned
  <2> QED BY <2>1, <2>2
<1>2. needs' \in [Servers -> BOOLEAN]
  BY <1>0 DEF TypeOK, Cleaned
<1>3. stmts' \in [Servers -> SUBSET Parses] /\ \A r \in Servers : stmts'[r] \subseteq stmts[r]
  BY <1>0 DEF TypeOK, Cleaned
<1> QED BY <1>0, <1>1, <1>2, <1>3 DEF SessionsOK, Numbered

LEMMA DoneStep ==
  ASSUME StatementInv, NEW c \in Clients, Done(c)
  PROVE  StatementInv'
<1> DEFINE s == conn[c]
<1>0. TypeOK /\ HeldOK /\ RightText
  BY Parts
<1>1. /\ pc[c] = "exchange"
      /\ failed' = [failed EXCEPT ![c] = FALSE]
      /\ ran' = [ran EXCEPT ![c] = None] /\ lost' = [lost EXCEPT ![c] = None]
      /\ taint' = [taint EXCEPT ![s] = IF reg[s] # <<>> THEN taint[s] \cup {"skipped"}
                                       ELSE taint[s]]
      /\ UNCHANGED <<counter, born, pool, mine, ebuf, out, reg, tx, said>>
  BY <1>0 DEF Done, HeldOK, TypeOK
<1>2. s \in Servers
  BY <1>0, <1>1 DEF HeldOK
<1>3. Grows
  BY <1>0, <1>1, NoGrowth
<1>4. PoolOK' /\ MapsOK' /\ EbufOK' /\ OutOK'
  BY <1>1, <1>3, Unmoved
<1>5. RightText'
  BY <1>0, <1>1 DEF RightText, TypeOK
<1>6. /\ failed' \in [Clients -> BOOLEAN]
      /\ ran' \in [Clients -> [text: Texts, want: Texts] \cup {None}]
      /\ lost' \in [Clients -> [why: SUBSET Causes, ensured: BOOLEAN] \cup {None}]
  BY <1>0, <1>1 DEF TypeOK
<1>7. taint' \in [Servers -> SUBSET Causes]
  <2>1. taint[s] \cup {"skipped"} \subseteq Causes
    BY <1>0, <1>2 DEF TypeOK, Causes
  <2> QED BY <1>0, <1>1, <2>1 DEF TypeOK
<1>8. CASE pc' = [pc EXCEPT ![c] = "idle"] /\ conn' = [conn EXCEPT ![c] = None] /\ Cleaned(s)
  <2>1. /\ cache' \in [Servers -> Seq(Nat)] /\ needs' \in [Servers -> BOOLEAN]
        /\ stmts' \in [Servers -> SUBSET Parses] /\ SessionsOK'
    BY <1>1, <1>8, CleanedOK
  <2>2. HeldOK'
    BY <1>0, <1>8 DEF HeldOK, TypeOK
  <2>3. TypeOK'
    BY <1>0, <1>1, <1>6, <1>7, <1>8, <2>1 DEF TypeOK
  <2> QED BY <1>4, <1>5, <2>1, <2>2, <2>3, Together
<1>9. CASE pc' = [pc EXCEPT ![c] = "txread"] /\ UNCHANGED <<conn, cache, stmts, needs>>
  <2>1. SessionsOK'
    BY <1>3, <1>9, Unmoved
  <2>2. HeldOK'
    BY <1>0, <1>1, <1>9 DEF HeldOK, TypeOK
  <2>3. TypeOK'
    BY <1>0, <1>1, <1>6, <1>7, <1>9 DEF TypeOK
  <2> QED BY <1>4, <1>5, <2>1, <2>2, <2>3, Together
<1> QED BY <1>8, <1>9 DEF Done

LEMMA TransactionStep ==
  ASSUME StatementInv, NEW c \in Clients, Begin(c) \/ End(c)
  PROVE  StatementInv'
<1>0. TypeOK /\ HeldOK
  BY Parts
<1>1. UNCHANGED <<counter, born, pool, mine, ebuf, out, failed, reg, said, ran, lost, taint>>
  BY DEF Begin, End
<1>2. Grows
  BY <1>0, <1>1, NoGrowth
<1>3. PoolOK' /\ MapsOK' /\ EbufOK' /\ OutOK' /\ RightText'
  BY <1>1, <1>2, Unmoved
<1>4. CASE Begin(c)
  <2>1. PICK s \in Servers : /\ conn' = [conn EXCEPT ![c] = s]
                             /\ tx' = [tx EXCEPT ![s] = IF tx[s] = "I" THEN "T" ELSE tx[s]]
    BY <1>0, <1>4 DEF Begin, Free, TypeOK
  <2>2. pc' = [pc EXCEPT ![c] = "txread"] /\ UNCHANGED <<cache, needs, stmts>>
    BY <1>4 DEF Begin
  <2>3. tx' \in [Servers -> {"I", "T", "E"}]
    BY <1>0, <2>1 DEF TypeOK
  <2>4. TypeOK'
    BY <1>0, <1>1, <2>1, <2>2, <2>3 DEF TypeOK
  <2>5. HeldOK'
    BY <1>0, <2>1, <2>2 DEF HeldOK, TypeOK
  <2>6. SessionsOK'
    BY <1>2, <2>2, Unmoved
  <2> QED BY <1>3, <2>4, <2>5, <2>6, Together
<1>5. CASE End(c)
  <2>1. /\ tx' = [tx EXCEPT ![conn[c]] = "I"] /\ Cleaned(conn[c])
        /\ pc' = [pc EXCEPT ![c] = "idle"] /\ conn' = [conn EXCEPT ![c] = None]
    BY <1>5 DEF End
  <2>2. /\ cache' \in [Servers -> Seq(Nat)] /\ needs' \in [Servers -> BOOLEAN]
        /\ stmts' \in [Servers -> SUBSET Parses] /\ SessionsOK'
    BY <1>1, <2>1, CleanedOK
  <2>3. TypeOK'
    BY <1>0, <1>1, <2>1, <2>2 DEF TypeOK
  <2>4. HeldOK'
    BY <1>0, <2>1 DEF HeldOK, TypeOK
  <2> QED BY <1>3, <2>2, <2>3, <2>4, Together
<1> QED BY <1>4, <1>5

\* PREPARE, DISCARD ALL and a new connection only take statements away.
LEMMA ForgetfulStep ==
  ASSUME StatementInv,
         \/ \E c \in Clients : PrepareQuery(c) \/ Discard(c)
         \/ \E s \in Servers : Reconnect(s)
  PROVE  StatementInv'
<1>0. TypeOK /\ SessionsOK
  BY Parts
<1>1. UNCHANGED <<counter, born, pool, clientVars>>
  BY DEF PrepareQuery, Discard, Reconnect
<1>2. Grows
  BY <1>0, <1>1, NoGrowth
<1>3. PoolOK' /\ MapsOK' /\ EbufOK' /\ OutOK' /\ HeldOK' /\ RightText'
  BY <1>1, <1>2, Unmoved DEF clientVars
<1>4. PICK q \in Servers : stmts' = [stmts EXCEPT ![q] = {}]
  BY DEF PrepareQuery, Discard, Reconnect, Free
<1>5. stmts' \in [Servers -> SUBSET Parses] /\ \A r \in Servers : stmts'[r] \subseteq stmts[r]
  BY <1>0, <1>4 DEF TypeOK
<1>6. SessionsOK'
  BY <1>0, <1>1, <1>5 DEF SessionsOK, Numbered
<1>7. cache' \in [Servers -> Seq(Nat)] /\ reg' \in [Servers -> Seq(Nat)]
  <2>a. cache \in [Servers -> Seq(Nat)] /\ reg \in [Servers -> Seq(Nat)]
    BY <1>0 DEF TypeOK
  <2>1. cache \in [Servers -> Seq(Nat)] /\ reg \in [Servers -> Seq(Nat)] /\ <<>> \in Seq(Nat)
    BY SMT, <2>a
  <2>2. /\ cache' = cache \/ \E s \in Servers : cache' = [cache EXCEPT ![s] = <<>>]
        /\ reg' = reg \/ \E s \in Servers : reg' = [reg EXCEPT ![s] = <<>>]
    BY DEF PrepareQuery, Discard, Reconnect, Free
  <2> QED BY <2>1, <2>2
<1>8. needs' \in [Servers -> BOOLEAN] /\ tx' \in [Servers -> {"I", "T", "E"}]
  BY <1>0 DEF TypeOK, PrepareQuery, Discard, Reconnect
<1>9. taint' \in [Servers -> SUBSET Causes]
  <2>1. /\ taint \in [Servers -> SUBSET Causes]
        /\ \A s \in Servers : taint[s] \cup {"discarded"} \in SUBSET Causes
    BY <1>0 DEF TypeOK, Causes
  <2>2. \/ taint' = taint
        \/ \E s \in Servers : \/ taint' = [taint EXCEPT ![s] = taint[s] \cup {"discarded"}]
                              \/ taint' = [taint EXCEPT ![s] = {}]
    BY DEF PrepareQuery, Discard, Reconnect, Free
  <2> QED BY <2>1, <2>2
<1>10. TypeOK'
  BY <1>0, <1>1, <1>5, <1>7, <1>8, <1>9 DEF TypeOK, clientVars
<1> QED BY <1>3, <1>6, <1>10, Together

LEMMA StatementNext ==
  ASSUME StatementInv, [Next]_vars
  PROVE  StatementInv'
<1>1. ASSUME NEW c \in Clients, NEW n \in Names, NEW t \in Texts, Parse(c, n, t)
      PROVE  StatementInv'
  BY <1>1, ParseStep
<1>2. ASSUME NEW c \in Clients, NEW n \in Names, Bind(c, n) \/ Close(c, n)
      PROVE  StatementInv'
  BY <1>2, BufferStep
<1>3. ASSUME NEW c \in Clients, NEW n \in Names, BindUnknown(c, n)
      PROVE  StatementInv'
  BY <1>3, GoneStep DEF BindUnknown
<1>4. ASSUME NEW c \in Clients, Sync(c) \/ SyncFails(c)
      PROVE  StatementInv'
  BY <1>4, SyncStep
<1>5. ASSUME NEW c \in Clients, DrainBindUnknown(c)
      PROVE  StatementInv'
  BY <1>5, GoneStep DEF DrainBindUnknown
<1>6. ASSUME NEW c \in Clients, DrainParse(c) \/ DrainBind(c) \/ DrainClose(c)
      PROVE  StatementInv'
  BY <1>6, DrainParseStep, DrainBindStep, DrainCloseStep
<1>7. ASSUME NEW c \in Clients, Drained(c) \/ AnswerSkipped(c)
      PROVE  StatementInv'
  BY <1>7, SkipStep
<1>8. ASSUME NEW c \in Clients, AnswerParse(c) \/ AnswerBind(c)
      PROVE  StatementInv'
  BY <1>8, AnswerParseStep, AnswerBindStep
<1>9. ASSUME NEW c \in Clients, Done(c) \/ Begin(c) \/ End(c)
      PROVE  StatementInv'
  BY <1>9, DoneStep, TransactionStep
<1>10. CASE \/ \E c \in Clients : PrepareQuery(c) \/ Discard(c)
            \/ \E s \in Servers : Reconnect(s)
  BY <1>10, ForgetfulStep
<1>11. CASE UNCHANGED vars
  <2>1. TypeOK'
    BY <1>11, Parts DEF TypeOK, vars
  <2>2. Grows
    BY <1>11, Parts, NoGrowth DEF vars
  <2>3. PoolOK' /\ SessionsOK' /\ MapsOK' /\ EbufOK' /\ OutOK' /\ HeldOK' /\ RightText'
    BY <1>11, <2>2, Unmoved DEF vars
  <2> QED BY <2>1, <2>3, Together
<1> QED BY <1>1, <1>2, <1>3, <1>4, <1>5, <1>6, <1>7, <1>8, <1>9, <1>10, <1>11 DEF Next

LEMMA StatementInit == ASSUME Init PROVE StatementInv
<1>1. TypeOK
  <2>1. counter \in Nat /\ born \in [0..(counter - 1) -> Texts] /\ pool \in Seq(Parses)
    BY SMT DEF Init
  <2>2. <<>> \in Seq(Messages) /\ <<>> \in Seq(Sent) /\ <<>> \in Seq(Nat)
    BY SMT
  <2>3. /\ ebuf \in [Clients -> Seq(Messages)] /\ out \in [Clients -> Seq(Sent)]
        /\ cache \in [Servers -> Seq(Nat)] /\ reg \in [Servers -> Seq(Nat)]
    BY <2>2 DEF Init
  <2>4. /\ mine \in [Clients -> [Names -> Parses \cup {None}]]
        /\ said \in [Clients -> [Names -> Texts \cup {None}]]
    BY DEF Init
  <2>5. /\ pc \in [Clients -> {"idle", "drain", "exchange", "txread", "gone"}]
        /\ conn \in [Clients -> Servers \cup {None}]
        /\ failed \in [Clients -> BOOLEAN]
        /\ needs \in [Servers -> BOOLEAN]
        /\ tx \in [Servers -> {"I", "T", "E"}]
    BY DEF Init
  <2>6. /\ stmts \in [Servers -> SUBSET Parses]
        /\ taint \in [Servers -> SUBSET Causes]
    BY DEF Init
  <2>7. /\ ran \in [Clients -> [text: Texts, want: Texts] \cup {None}]
        /\ lost \in [Clients -> [why: SUBSET Causes, ensured: BOOLEAN] \cup {None}]
    BY DEF Init
  <2> QED BY <2>1, <2>3, <2>4, <2>5, <2>6, <2>7 DEF TypeOK
<1>2. PoolOK /\ OutOK /\ EbufOK
  BY SMT DEF Init, PoolOK, EbufOK, OutOK, Elems
<1>3. SessionsOK /\ MapsOK
  BY DEF Init, SessionsOK, MapsOK
<1>4. HeldOK /\ RightText
  BY DEF Init, HeldOK, RightText
<1> QED BY <1>1, <1>2, <1>3, <1>4, Parts

\* In every state a number stands for one text wherever it is stored (StatementInv).
THEOREM StatementInvariant == Spec => []StatementInv
<1>1. Init => StatementInv
  BY StatementInit
<1>2. StatementInv /\ [Next]_vars => StatementInv'
  BY StatementNext
<1> QED BY <1>1, <1>2, PTL DEF Spec

\* A Bind runs the text that its client prepared under the name, for any number of
\* clients and servers, cache sizes and evictions (RightText; Parse::rewrite,
\* PreparedStatementCache::get_or_insert, Bind::rename).
THEOREM BindsRunTheirText == Spec => []RightText
<1>1. StatementInv => RightText
  BY DEF StatementInv
<1> QED BY StatementInvariant, <1>1, PTL

-----------------------------------------------------------------------------
(* What CacheInv says, part by part.                                       *)

LEMMA CacheTypes ==
  ASSUME CacheInv
  PROVE  /\ StatementInv
         /\ cache \in [Servers -> Seq(Nat)] /\ reg \in [Servers -> Seq(Nat)]
         /\ stmts \in [Servers -> SUBSET Parses] /\ tx \in [Servers -> {"I", "T", "E"}]
         /\ taint \in [Servers -> SUBSET Causes] /\ needs \in [Servers -> BOOLEAN]
         /\ mine \in [Clients -> [Names -> Parses \cup {None}]] /\ out \in [Clients -> Seq(Sent)]
         /\ pc \in [Clients -> {"idle", "drain", "exchange", "txread", "gone"}]
         /\ conn \in [Clients -> Servers \cup {None}] /\ failed \in [Clients -> BOOLEAN]
         /\ lost \in [Clients -> [why: SUBSET Causes, ensured: BOOLEAN] \cup {None}]
         /\ \A c \in Clients : pc[c] \in {"drain", "exchange", "txread"} => conn[c] \in Servers
<1>1. StatementInv
  BY DEF CacheInv
<1>2. TypeOK /\ HeldOK
  BY <1>1, Parts
<1> QED BY <1>1, <1>2 DEF TypeOK, HeldOK

LEMMA CacheParts ==
  ASSUME CacheInv
  PROVE  /\ \A d, e \in Clients : conn[d] = conn[e] /\ conn[d] # None => d = e
         /\ \A d \in Clients : PhaseOK(d)
         /\ \A d \in Clients : conn[d] # None =>
              ExactFor(conn[d], out[d], failed[d]) /\ FoundFor(conn[d], out[d], failed[d])
         /\ \A r \in Servers : Distinct(cache[r])
         /\ \A r \in Free : ExactFor(r, <<>>, FALSE)
         /\ EnsuredFound
BY DEF CacheInv

LEMMA CacheTogether ==
  ASSUME StatementInv',
         \A d \in Clients : \A e \in Clients : conn'[d] = conn'[e] /\ conn'[d] # None => d = e,
         \A d \in Clients : PhaseOK(d)',
         \A d \in Clients : conn'[d] # None =>
           ExactFor(conn[d], out[d], failed[d])' /\ FoundFor(conn[d], out[d], failed[d])',
         \A r \in Servers : Distinct(cache'[r]),
         \A r \in Servers : (\A d \in Clients : conn'[d] # r) => ExactFor(r, <<>>, FALSE)',
         EnsuredFound'
  PROVE  CacheInv'
BY DEF CacheInv, Free

LEMMA NextTypes == ASSUME StatementInv' PROVE reg' \in [Servers -> Seq(Nat)]
<1>1. TypeOK'
  BY DEF StatementInv
<1> QED BY <1>1 DEF TypeOK

LEMMA CacheInit == ASSUME Init PROVE CacheInv
<1>1. StatementInv
  BY StatementInit
<1>2. Distinct(<<>>) /\ Exact(<<>>, <<>>, {}, <<>>, FALSE)
  BY FreshExact
<1>3. \A c \in Clients : /\ conn[c] = None /\ pc[c] = "idle" /\ out[c] = <<>>
                         /\ ~failed[c] /\ lost[c] = None
  BY DEF Init
<1>4. \A s \in Servers : cache[s] = <<>> /\ reg[s] = <<>> /\ stmts[s] = {}
  BY DEF Init
<1>5. \A s \in Servers : ExactFor(s, <<>>, FALSE)
  <2>1. ASSUME NEW s \in Servers PROVE ExactFor(s, <<>>, FALSE)
    <3>1. NamesOf(s) = {} /\ cache[s] = <<>> /\ reg[s] = <<>>
      BY <1>4, <2>1 DEF NamesOf
    <3> QED BY <1>2, <3>1 DEF ExactFor
  <2> QED BY <2>1
<1>6. \A c \in Clients : PhaseOK(c)
  BY <1>3 DEF PhaseOK
<1> QED BY <1>1, <1>2, <1>3, <1>4, <1>5, <1>6 DEF CacheInv, Free, EnsuredFound

-----------------------------------------------------------------------------
(* What a step leaves alone.                                               *)

\* A step that only touches what clients buffer.
LEMMA CacheUnmoved ==
  ASSUME CacheInv, StatementInv', \A d \in Clients : PhaseOK(d)',
         UNCHANGED <<out, conn, failed, lost, cache, reg, stmts, tx, taint>>
  PROVE  CacheInv'
<1>1. \A s \in Servers : NamesOf(s)' = NamesOf(s) /\ Good(s)' = Good(s)
  BY DEF NamesOf, Good
<1> QED BY <1>1 DEF CacheInv, ExactFor, FoundFor, Free, EnsuredFound, Good, NamesOf

LEMMA CacheStays ==
  ASSUME CacheInv, StatementInv',
         UNCHANGED <<out, pc, conn, failed, lost, cache, reg, stmts, tx, taint>>
  PROVE  CacheInv'
<1>1. \A d \in Clients : PhaseOK(d)'
  BY CacheParts DEF PhaseOK
<1> QED BY <1>1, CacheUnmoved

\* A step of one client on one connection: its own, or one nobody holds.
LEMMA CacheFrame ==
  ASSUME CacheInv, StatementInv', NEW c \in Clients, NEW s \in Servers,
         conn[c] = s \/ (conn[c] = None /\ s \in Free),
         conn'[c] \in {s, None},
         \A r \in Servers \ {s} : /\ cache'[r] = cache[r] /\ reg'[r] = reg[r]
                                  /\ stmts'[r] = stmts[r] /\ tx'[r] = tx[r]
                                  /\ taint'[r] = taint[r],
         \A d \in Clients \ {c} : /\ conn'[d] = conn[d] /\ pc'[d] = pc[d] /\ out'[d] = out[d]
                                  /\ failed'[d] = failed[d] /\ lost'[d] = lost[d],
         Distinct(cache'[s]), PhaseOK(c)',
         conn'[c] = s => ExactFor(s, out[c], failed[c])' /\ FoundFor(s, out[c], failed[c])',
         conn'[c] = None => ExactFor(s, <<>>, FALSE)',
         lost'[c] # None => lost'[c].why # {} \/ ~lost'[c].ensured
  PROVE  CacheInv'
<1>1. /\ \A d, e \in Clients : conn[d] = conn[e] /\ conn[d] # None => d = e
      /\ \A d \in Clients : PhaseOK(d)
      /\ \A d \in Clients : conn[d] # None =>
           ExactFor(conn[d], out[d], failed[d]) /\ FoundFor(conn[d], out[d], failed[d])
      /\ \A r \in Servers : Distinct(cache[r])
      /\ \A r \in Free : ExactFor(r, <<>>, FALSE)
      /\ EnsuredFound
  BY CacheParts
<1>2. /\ conn \in [Clients -> Servers \cup {None}] /\ None \notin Servers /\ s # None
  BY ConstantsAssumption, CacheTypes
<1>3. \A d \in Clients \ {c} : conn[d] # s
  BY <1>1, <1>2 DEF Free
<1>4. ASSUME NEW r \in Servers, r # s, NEW o, NEW f
      PROVE  /\ ExactFor(r, o, f)' <=> ExactFor(r, o, f)
             /\ FoundFor(r, o, f)' <=> FoundFor(r, o, f)
  <2>1. /\ cache'[r] = cache[r] /\ reg'[r] = reg[r] /\ stmts'[r] = stmts[r]
        /\ tx'[r] = tx[r] /\ taint'[r] = taint[r]
    BY <1>4
  <2> QED BY <2>1 DEF ExactFor, FoundFor, Good, NamesOf
<1>5. ASSUME NEW d \in Clients, NEW e \in Clients, conn'[d] = conn'[e], conn'[d] # None
      PROVE  d = e
  <2>1. CASE d # c /\ e # c
    <3>1. conn'[d] = conn[d] /\ conn'[e] = conn[e]
      BY <2>1
    <3> QED BY <1>1, <1>5, <3>1
  <2>2. ASSUME NEW x \in Clients \ {c} PROVE conn'[x] # s
    BY <1>3, <2>2
  <2>3. CASE d = c \/ e = c
    <3>1. conn'[d] = s /\ conn'[e] = s
      BY <1>5, <2>3
    <3> QED BY <2>2, <3>1
  <2> QED BY <2>1, <2>3
<1>6. ASSUME NEW d \in Clients
      PROVE  /\ PhaseOK(d)'
             /\ conn'[d] # None =>
                  ExactFor(conn[d], out[d], failed[d])' /\ FoundFor(conn[d], out[d], failed[d])'
  <2>1. CASE d = c
    <3>1. ASSUME conn'[c] # None
          PROVE  ExactFor(conn[c], out[c], failed[c])' /\ FoundFor(conn[c], out[c], failed[c])'
      <4>1. conn'[c] = s /\ ExactFor(s, out[c], failed[c])' /\ FoundFor(s, out[c], failed[c])'
        BY <3>1
      <4> QED BY <4>1 DEF ExactFor, FoundFor, NamesOf, Good
    <3> QED BY <2>1, <3>1
  <2>2. CASE d # c
    <3>1. PhaseOK(d)'
      BY <1>1, <2>2 DEF PhaseOK
    <3>2. ASSUME conn'[d] # None
          PROVE  ExactFor(conn[d], out[d], failed[d])' /\ FoundFor(conn[d], out[d], failed[d])'
      <4>1. PICK r, o, f :
              r \in Servers /\ r = conn[d] /\ o = out[d] /\ f = failed[d] /\ r # s
              /\ r = conn'[d] /\ o = out'[d] /\ f = failed'[d]
        <5>1. conn'[d] = conn[d] /\ out'[d] = out[d] /\ failed'[d] = failed[d] /\ conn[d] # s
          BY <1>3, <2>2
        <5>2. conn[d] \in Servers
          BY <1>2, <3>2, <5>1
        <5> QED BY <5>1, <5>2
      <4>2. ExactFor(r, o, f) /\ FoundFor(r, o, f)
        BY <1>1, <1>2, <4>1
      <4>3. ExactFor(r, o, f)' /\ FoundFor(r, o, f)'
        BY <1>4, <4>1, <4>2
      <4> QED BY <4>1, <4>3 DEF ExactFor, FoundFor, NamesOf, Good
    <3> QED BY <3>1, <3>2
  <2> QED BY <2>1, <2>2
<1>7. \A r \in Servers : Distinct(cache'[r])
  BY <1>1
<1>8. ASSUME NEW r \in Servers, \A d \in Clients : conn'[d] # r
      PROVE  ExactFor(r, <<>>, FALSE)'
  <2>1. CASE r = s
    BY <1>8, <2>1
  <2>2. CASE r # s
    <3>1. r \in Free
      BY <1>2, <1>8, <2>2 DEF Free
    <3>2. ExactFor(r, <<>>, FALSE)
      BY <1>1, <3>1
    <3> QED BY <1>4, <2>2, <3>2
  <2> QED BY <2>1, <2>2
<1>9. EnsuredFound'
  BY <1>1 DEF EnsuredFound
<1> QED BY <1>5, <1>6, <1>7, <1>8, <1>9, CacheTogether

-----------------------------------------------------------------------------
(* Every step preserves CacheInv.                                          *)

\* What is known of the connection a client holds.
LEMMA Holding ==
  ASSUME CacheInv, NEW c \in Clients, pc[c] \in {"drain", "exchange", "txread"}
  PROVE  /\ conn[c] \in Servers /\ conn[c] # None
         /\ cache[conn[c]] \in Seq(Nat) /\ reg[conn[c]] \in Seq(Nat) /\ out[c] \in Seq(Sent)
         /\ Distinct(cache[conn[c]]) /\ PhaseOK(c)
         /\ ExactFor(conn[c], out[c], failed[c]) /\ FoundFor(conn[c], out[c], failed[c])
<1>2. conn[c] \in Servers
  BY CacheTypes
<1>3. conn[c] # None
  BY <1>2, ConstantsAssumption
<1>4. cache[conn[c]] \in Seq(Nat) /\ reg[conn[c]] \in Seq(Nat) /\ out[c] \in Seq(Sent)
  BY <1>2, CacheTypes
<1> QED BY <1>2, <1>3, <1>4, CacheParts

\* What is known of a connection nobody holds.
LEMMA Unheld ==
  ASSUME CacheInv, NEW s \in Free
  PROVE  /\ s \in Servers /\ s # None /\ Distinct(cache[s])
         /\ cache[s] \in Seq(Nat) /\ reg[s] \in Seq(Nat)
         /\ Good(s) => reg[s] = <<>> /\ Elems(cache[s]) = NamesOf(s)
<1>1. s \in Servers /\ s # None
  BY ConstantsAssumption DEF Free
<1>2. cache[s] \in Seq(Nat) /\ reg[s] \in Seq(Nat)
  BY <1>1, CacheTypes
<1>3. Distinct(cache[s]) /\ ExactFor(s, <<>>, FALSE)
  BY <1>1, CacheParts
<1> QED BY <1>1, <1>2, <1>3, NothingUnderWay DEF ExactFor

\* The names a Parse under way has, as register_prepared_statement sees them.
LEMMA PendingParses == ASSUME NEW c \in Clients PROVE Pending(c, "parse") = ParsesIn(out[c])
BY DEF Pending, ParsesIn, Elems

\* register_prepared_statement, what it makes of the taint.
LEMMA RegisterTaint ==
  ASSUME CacheInv, NEW c \in Clients, NEW s \in Servers, NEW p \in Parses, NEW send \in BOOLEAN,
         Register(c, s, p, send)
  PROVE  /\ taint[s] \subseteq taint'[s]
         /\ send /\ reg[s] # <<>> => "overlap" \in taint'[s]
         /\ Evicted(cache[s]) \cap ParsesIn(out[c]) # {} => "evicted" \in taint'[s]
         /\ Evicted(cache[s]) \cap Pending(c, "bind") # {} => "missed" \in taint'[s]
         /\ send /\ ParseFails(s, p) /\ Evicted(cache[s]) # {} => "unclosed" \in taint'[s]
<1>1. taint \in [Servers -> SUBSET Causes]
  BY CacheTypes
<1> DEFINE A == IF send /\ reg[s] # <<>> THEN {"overlap"} ELSE {}
           B == IF Evicted(cache[s]) \cap Pending(c, "parse") # {} THEN {"evicted"} ELSE {}
           C == IF Evicted(cache[s]) \cap Pending(c, "bind") # {} THEN {"missed"} ELSE {}
           D == IF (send /\ ParseFails(s, p)) /\ Evicted(cache[s]) # {} THEN {"unclosed"} ELSE {}
<1>2. taint' = [taint EXCEPT ![s] = taint[s] \cup A \cup B \cup C \cup D]
  BY DEF Register
<1>3. taint'[s] = taint[s] \cup A \cup B \cup C \cup D
  BY <1>1, <1>2
<1>4. /\ send /\ reg[s] # <<>> => "overlap" \in A
      /\ Evicted(cache[s]) \cap ParsesIn(out[c]) # {} => "evicted" \in B
      /\ Evicted(cache[s]) \cap Pending(c, "bind") # {} => "missed" \in C
      /\ send /\ ParseFails(s, p) /\ Evicted(cache[s]) # {} => "unclosed" \in D
  BY PendingParses
<1> HIDE DEF A, B, C, D
<1> QED BY <1>3, <1>4

\* No Bind under way names a statement that was evicted, on a connection without taint.
LEMMA KeepsBound ==
  ASSUME NEW c \in Clients, NEW gone, gone \cap Pending(c, "bind") = {}
  PROVE  \A i \in DOMAIN out[c] : out[c][i].op = "bind" => out[c][i].p.name \notin gone
BY DEF Pending, Elems

\* A Parse is queued and kept for the batch.
LEMMA RegisterQueued ==
  ASSUME CacheInv, NEW c \in Clients, pc[c] = "drain", NEW s \in Servers, s = conn[c],
         NEW m \in Sent, m.op = "parse", m.p \in Parses, ~Has(s, m.p), Register(c, s, m.p, FALSE)
  PROVE  /\ Distinct(cache'[s])
         /\ Good(s)' => Exact(cache'[s], reg'[s], NamesOf(s)', Append(out[c], m), FALSE)
         /\ taint'[s] = {} /\ tx'[s] # "E" => Found(Append(out[c], m), NamesOf(s)')
         /\ \A r \in Servers \ {s} : /\ cache'[r] = cache[r] /\ reg'[r] = reg[r]
                                     /\ stmts'[r] = stmts[r] /\ tx'[r] = tx[r]
                                     /\ taint'[r] = taint[r]
<1> DEFINE gone == Evicted(cache[s])
           k == m.p.name
<1>1. /\ cache[s] \in Seq(Nat) /\ reg[s] \in Seq(Nat) /\ out[c] \in Seq(Sent) /\ ~failed[c]
      /\ Distinct(cache[s]) /\ ExactFor(s, out[c], failed[c]) /\ FoundFor(s, out[c], failed[c])
  BY Holding DEF PhaseOK
<1>2. /\ cache \in [Servers -> Seq(Nat)] /\ reg \in [Servers -> Seq(Nat)]
      /\ stmts \in [Servers -> SUBSET Parses] /\ tx \in [Servers -> {"I", "T", "E"}]
      /\ taint \in [Servers -> SUBSET Causes]
  BY CacheTypes
<1>3. k \in Nat /\ k \notin Elems(cache[s])
  BY DEF Parses, Has
<1>4. /\ cache' = [cache EXCEPT ![s] = Pushed(cache[s], k)]
      /\ reg' = [reg EXCEPT ![s] = Append(reg[s], k)]
      /\ stmts' = [stmts EXCEPT ![s] = Deallocated(stmts[s], gone)]
      /\ tx' = [tx EXCEPT ![s] = tx[s]]
      /\ \E a : taint' = [taint EXCEPT ![s] = a]
  BY DEF Register
<1>5. /\ cache'[s] = Pushed(cache[s], k) /\ reg'[s] = Append(reg[s], k)
      /\ stmts'[s] = Deallocated(stmts[s], gone) /\ tx'[s] = tx[s]
  BY <1>2, <1>4
<1>6. \A r \in Servers \ {s} : /\ cache'[r] = cache[r] /\ reg'[r] = reg[r]
                               /\ stmts'[r] = stmts[r] /\ tx'[r] = tx[r]
                               /\ taint'[r] = taint[r]
  BY <1>2, <1>4
<1>7. /\ Distinct(cache'[s]) /\ Elems(cache'[s]) = (Elems(cache[s]) \ gone) \cup {k}
      /\ gone \subseteq Elems(cache[s])
  <2>1. /\ Distinct(Pushed(cache[s], k))
        /\ Elems(Pushed(cache[s], k)) = (Elems(cache[s]) \ Evicted(cache[s])) \cup {k}
        /\ Evicted(cache[s]) \subseteq Elems(cache[s])
    BY <1>1, <1>3, PushedExact
  <2> QED BY <1>5, <2>1
<1>8. NamesOf(s)' = NamesOf(s) \ gone
  <2>1. {x.name : x \in Deallocated(stmts[s], gone)} = {x.name : x \in stmts[s]} \ gone
    BY NamesLeft
  <2>2. stmts'[s] = Deallocated(stmts[s], gone)
    BY <1>5
  <2> HIDE DEF gone
  <2> QED BY <2>1, <2>2 DEF NamesOf
<1>9. /\ taint[s] \subseteq taint'[s]
      /\ gone \cap ParsesIn(out[c]) # {} => "evicted" \in taint'[s]
      /\ gone \cap Pending(c, "bind") # {} => "missed" \in taint'[s]
  BY RegisterTaint
<1> HIDE DEF gone, k
<1>10. ASSUME Good(s)'
       PROVE  Exact(cache'[s], reg'[s], NamesOf(s)', Append(out[c], m), FALSE)
  <2>1. Good(s) /\ gone \cap ParsesIn(out[c]) = {}
    BY <1>9, <1>10 DEF Good
  <2>2. /\ InOrder(out[c], reg[s]) /\ Elems(cache[s]) = NamesOf(s) \cup ParsesIn(out[c])
        /\ NamesOf(s) \cap ParsesIn(out[c]) = {}
    BY <1>1, <2>1 DEF ExactFor, Exact
  <2>3. k \notin NamesOf(s) /\ k \notin ParsesIn(out[c]) /\ m.p.name = k /\ k \in Nat
    BY <1>3, <2>2 DEF k
  <2>4. /\ ParsesIn(Append(out[c], m)) = ParsesIn(out[c]) \cup {k}
        /\ InOrder(Append(out[c], m), Append(reg[s], k))
    BY <1>1, <2>2, <2>3, OrderParse
  <2>5. /\ Elems(cache'[s]) = NamesOf(s)' \cup ParsesIn(Append(out[c], m))
        /\ NamesOf(s)' \cap ParsesIn(Append(out[c], m)) = {}
    BY SMTT(30), <1>7, <1>8, <2>1, <2>2, <2>3, <2>4
  <2> QED BY <1>5, <2>4, <2>5 DEF Exact
<1>11. ASSUME taint'[s] = {}, tx'[s] # "E"
       PROVE  Found(Append(out[c], m), NamesOf(s)')
  <2>1. taint[s] = {} /\ gone \cap Pending(c, "bind") = {} /\ tx[s] # "E"
    BY <1>5, <1>9, <1>11
  <2>2. Found(out[c], NamesOf(s))
    BY <1>1, <2>1 DEF FoundFor
  <2>3. \A i \in DOMAIN out[c] : out[c][i].op = "bind" => out[c][i].p.name \notin gone
    BY <2>1, KeepsBound
  <2>4. PICK after : after = NamesOf(s)'
    OBVIOUS
  <2>5. Found(out[c], after)
    BY <1>8, <2>2, <2>3, <2>4, FoundKept
  <2>6. m.op # "bind"
    OBVIOUS
  <2> QED BY <1>1, <2>4, <2>5, <2>6, FoundAppend
<1> QED BY <1>6, <1>7, <1>10, <1>11

\* Two numbered statements of one name are one.
LEMMA SameText ==
  ASSUME NEW p, NEW q, Numbered(p), Numbered(q), p.name = q.name
  PROVE  p.text = q.text
BY DEF Numbered

\* pgcat sends the Parse itself and has its answer before it goes on.
LEMMA RegisterSent ==
  ASSUME CacheInv, NEW c \in Clients, pc[c] = "drain", NEW s \in Servers, s = conn[c],
         NEW p \in Parses, Numbered(p), ~Has(s, p), Register(c, s, p, TRUE),
         NEW m \in Sent, m.op = "bind", Numbered(m.p), m.ensured = p.name
  PROVE  /\ Distinct(cache'[s])
         /\ Good(s)' => Exact(cache'[s], reg'[s], NamesOf(s)', Append(out[c], m), FALSE)
         /\ taint'[s] = {} /\ tx'[s] # "E" => Found(Append(out[c], m), NamesOf(s)')
         /\ \A r \in Servers \ {s} : /\ cache'[r] = cache[r] /\ reg'[r] = reg[r]
                                     /\ stmts'[r] = stmts[r] /\ tx'[r] = tx[r]
                                     /\ taint'[r] = taint[r]
<1> DEFINE gone == Evicted(cache[s])
           k == p.name
           added == Pushed(cache[s], k)
           queue == Append(reg[s], k)
           error == ParseFails(s, p)
<1>1. /\ cache[s] \in Seq(Nat) /\ reg[s] \in Seq(Nat) /\ out[c] \in Seq(Sent) /\ ~failed[c]
      /\ Distinct(cache[s]) /\ ExactFor(s, out[c], failed[c]) /\ FoundFor(s, out[c], failed[c])
  BY Holding DEF PhaseOK
<1>2. /\ cache \in [Servers -> Seq(Nat)] /\ reg \in [Servers -> Seq(Nat)]
      /\ stmts \in [Servers -> SUBSET Parses] /\ tx \in [Servers -> {"I", "T", "E"}]
      /\ taint \in [Servers -> SUBSET Causes]
  BY CacheTypes
<1>3. k \in Nat /\ k \notin Elems(cache[s])
  BY DEF Parses, Has
<1>4. /\ cache' = [cache EXCEPT ![s] = IF error THEN Popped(added, Head(queue)) ELSE added]
      /\ reg' = [reg EXCEPT ![s] = Tail(queue)]
      /\ stmts' = [stmts EXCEPT ![s] = IF error THEN stmts[s]
                                       ELSE Deallocated(stmts[s] \cup {p}, gone)]
      /\ tx' = [tx EXCEPT ![s] = IF error THEN AfterError(s) ELSE tx[s]]
      /\ \E a : taint' = [taint EXCEPT ![s] = a]
  BY DEF Register
<1>5. /\ cache'[s] = (IF error THEN Popped(added, Head(queue)) ELSE added)
      /\ reg'[s] = Tail(queue)
      /\ stmts'[s] = (IF error THEN stmts[s] ELSE Deallocated(stmts[s] \cup {p}, gone))
      /\ tx'[s] = (IF error THEN AfterError(s) ELSE tx[s])
  BY <1>2, <1>4
<1>6. \A r \in Servers \ {s} : /\ cache'[r] = cache[r] /\ reg'[r] = reg[r]
                               /\ stmts'[r] = stmts[r] /\ tx'[r] = tx[r]
                               /\ taint'[r] = taint[r]
  BY <1>2, <1>4
<1>7. /\ added \in Seq(Nat) /\ Distinct(added)
      /\ Elems(added) = (Elems(cache[s]) \ gone) \cup {k} /\ gone \subseteq Elems(cache[s])
  BY <1>1, <1>3, PushedExact
<1>8. /\ taint[s] \subseteq taint'[s]
      /\ reg[s] # <<>> => "overlap" \in taint'[s]
      /\ gone \cap ParsesIn(out[c]) # {} => "evicted" \in taint'[s]
      /\ gone \cap Pending(c, "bind") # {} => "missed" \in taint'[s]
      /\ error /\ gone # {} => "unclosed" \in taint'[s]
  BY RegisterTaint
<1>9. reg[s] = <<>> => Head(queue) = k /\ Tail(queue) = <<>>
  <2>1. \A x \in Nat : Head(Append(<<>>, x)) = x /\ Tail(Append(<<>>, x)) = <<>>
    BY SMT
  <2> QED BY <1>3, <2>1
<1>10. /\ error => NamesOf(s)' = NamesOf(s)
       /\ ~error => NamesOf(s)' = (NamesOf(s) \cup {k}) \ gone
  <2>1. /\ error => stmts'[s] = stmts[s]
        /\ ~error => stmts'[s] = Deallocated(stmts[s] \cup {p}, gone)
    BY <1>5
  <2> HIDE DEF gone, error
  <2>2. ASSUME ~error PROVE NamesOf(s)' = (NamesOf(s) \cup {k}) \ gone
    <3>1. /\ {x.name : x \in Deallocated(stmts[s] \cup {p}, gone)}
               = {x.name : x \in stmts[s] \cup {p}} \ gone
          /\ {x.name : x \in stmts[s] \cup {p}} = {x.name : x \in stmts[s]} \cup {p.name}
      BY NamesLeft, NamesAdded
    <3>2. stmts'[s] = Deallocated(stmts[s] \cup {p}, gone)
      BY <2>1, <2>2
    <3> QED BY <3>1, <3>2 DEF NamesOf
  <2> QED BY <2>1, <2>2 DEF NamesOf
<1> HIDE DEF gone, added, queue, error
<1>11. Distinct(cache'[s])
  <2>1. Distinct(Popped(added, Head(queue)))
    BY <1>7, PoppedExact
  <2> QED BY <1>5, <1>7, <2>1
<1>12. ASSUME Good(s)'
       PROVE  Good(s) /\ reg[s] = <<>> /\ (error => gone = {})
  BY <1>8, <1>12 DEF Good
<1>13. ASSUME Good(s), reg[s] = <<>>
       PROVE  /\ ParsesIn(out[c]) = {} /\ InOrder(out[c], <<>>) /\ Elems(cache[s]) = NamesOf(s)
  <2>1. InOrder(out[c], reg[s]) /\ Elems(cache[s]) = NamesOf(s) \cup ParsesIn(out[c])
    BY <1>1, <1>13 DEF ExactFor, Exact
  <2>2. ParsesIn(out[c]) = Elems(<<>>)
    BY <1>13, <2>1 DEF InOrder
  <2>3. Elems(<<>>) = {}
    BY SMT DEF Elems
  <2> QED BY <1>13, <2>1, <2>2, <2>3
<1>14. ASSUME Good(s)'
       PROVE  Exact(cache'[s], reg'[s], NamesOf(s)', Append(out[c], m), FALSE)
  <2>1. /\ ParsesIn(out[c]) = {} /\ InOrder(out[c], <<>>) /\ Elems(cache[s]) = NamesOf(s)
        /\ reg'[s] = <<>> /\ (error => gone = {}) /\ (error => cache'[s] = Popped(added, k))
    BY <1>5, <1>9, <1>12, <1>13, <1>14
  <2>2. <<>> \in Seq(Nat) /\ m.op # "parse"
    BY SMT
  <2>3. ParsesIn(Append(out[c], m)) = {} /\ InOrder(Append(out[c], m), <<>>)
    BY <1>1, <2>1, <2>2, OrderOther
  <2>4. error => Elems(cache'[s]) = Elems(added) \ {k}
    BY <1>7, <2>1, PoppedExact
  <2>5. Elems(cache'[s]) = NamesOf(s)'
    <3>1. CASE error
      <4>1. /\ Elems(cache'[s]) = ((Elems(cache[s]) \ {}) \cup {k}) \ {k}
            /\ NamesOf(s)' = Elems(cache[s])
        BY <1>7, <1>10, <2>1, <2>4, <3>1
      <4> QED BY <1>3, <2>1, <4>1, AddedDropped
    <3>2. CASE ~error
      <4>1. k \notin gone /\ cache'[s] = added
        BY <1>3, <1>5, <1>7, <3>2
      <4>2. /\ Elems(cache'[s]) = (Elems(cache[s]) \ gone) \cup {k}
            /\ NamesOf(s)' = (Elems(cache[s]) \cup {k}) \ gone
        BY <1>7, <1>10, <2>1, <3>2, <4>1
      <4>3. (Elems(cache[s]) \ gone) \cup {k} = (Elems(cache[s]) \cup {k}) \ gone
        BY <4>1, AddedKept
      <4> QED BY <4>2, <4>3
    <3> QED BY <3>1, <3>2
  <2> QED BY <2>1, <2>3, <2>5 DEF Exact
<1>15. ASSUME taint'[s] = {}, tx'[s] # "E"
       PROVE  Found(Append(out[c], m), NamesOf(s)')
  <2>1. taint[s] = {} /\ gone \cap Pending(c, "bind") = {} /\ Good(s)'
    BY <1>8, <1>15 DEF Good
  <2>2. tx[s] # "E"
    BY <1>5, <1>15 DEF AfterError
  <2>3. Found(out[c], NamesOf(s))
    BY <1>1, <2>1, <2>2 DEF FoundFor
  <2>4. \A i \in DOMAIN out[c] : out[c][i].op = "bind" => out[c][i].p.name \notin gone
    BY <2>1, KeepsBound
  <2>5. PICK after : after = NamesOf(s)'
    OBVIOUS
  <2>6. Found(out[c], after)
    BY <1>10, <2>3, <2>4, <2>5, FoundKept
  <2>7. m.ensured = m.p.name => m.p.name \in after \/ m.p.text \in BadTexts
    <3>1. Elems(cache[s]) = NamesOf(s)
      BY <1>12, <1>13, <2>1
    <3>2. CASE error
      <4>1. k \notin NamesOf(s)
        BY <1>3, <3>1
      <4>2. ~HasStmt(s, k)
        BY <4>1 DEF HasStmt, NamesOf
      <4>3. p.text \in BadTexts
        BY <2>2, <3>2, <4>2 DEF error, ParseFails
      <4> QED BY <4>3, SameText
    <3>3. CASE ~error
      <4>1. k \notin gone
        BY <1>3, <1>7
      <4> QED BY <1>10, <2>5, <3>3, <4>1
    <3> QED BY <3>2, <3>3
  <2> QED BY <1>1, <2>5, <2>6, <2>7, FoundAppend
<1> QED BY <1>6, <1>11, <1>14, <1>15

\* has_prepared_statement finds the name, and a message may follow.
LEMMA HitKeeps ==
  ASSUME CacheInv, NEW c \in Clients, pc[c] = "drain", NEW s \in Servers, s = conn[c],
         NEW p, Has(s, p), Hit(s, p)
  PROVE  /\ Distinct(cache'[s]) /\ Elems(cache'[s]) = Elems(cache[s])
         /\ \A r \in Servers \ {s} : cache'[r] = cache[r]
         /\ UNCHANGED <<reg, stmts, tx, taint>>
<1>1. cache \in [Servers -> Seq(Nat)] /\ cache[s] \in Seq(Nat) /\ Distinct(cache[s])
  BY Holding, CacheTypes
<1>2. /\ cache' = [cache EXCEPT ![s] = Promoted(cache[s], p.name)]
      /\ UNCHANGED <<reg, stmts, tx, taint>>
  BY DEF Hit
<1>3. cache'[s] = Promoted(cache[s], p.name) /\ \A r \in Servers \ {s} : cache'[r] = cache[r]
  BY <1>1, <1>2
<1> QED BY <1>1, <1>2, <1>3, PromotedExact

\* A step of a connection nobody holds.
LEMMA ServerFrame ==
  ASSUME CacheInv, StatementInv', NEW s \in Free, UNCHANGED <<conn, pc, out, failed, lost>>,
         \A r \in Servers \ {s} : /\ cache'[r] = cache[r] /\ reg'[r] = reg[r]
                                  /\ stmts'[r] = stmts[r] /\ tx'[r] = tx[r]
                                  /\ taint'[r] = taint[r],
         Distinct(cache'[s]), ExactFor(s, <<>>, FALSE)'
  PROVE  CacheInv'
<1>1. /\ \A d, e \in Clients : conn[d] = conn[e] /\ conn[d] # None => d = e
      /\ \A d \in Clients : PhaseOK(d)
      /\ \A d \in Clients : conn[d] # None =>
           ExactFor(conn[d], out[d], failed[d]) /\ FoundFor(conn[d], out[d], failed[d])
      /\ \A r \in Servers : Distinct(cache[r])
      /\ \A r \in Free : ExactFor(r, <<>>, FALSE)
      /\ EnsuredFound
  BY CacheParts
<1>2. conn \in [Clients -> Servers \cup {None}]
  BY CacheTypes
<1>3. ASSUME NEW r \in Servers, r # s, NEW o, NEW f
      PROVE  /\ ExactFor(r, o, f)' <=> ExactFor(r, o, f)
             /\ FoundFor(r, o, f)' <=> FoundFor(r, o, f)
  <2>1. /\ cache'[r] = cache[r] /\ reg'[r] = reg[r] /\ stmts'[r] = stmts[r]
        /\ tx'[r] = tx[r] /\ taint'[r] = taint[r]
    BY <1>3
  <2> QED BY <2>1 DEF ExactFor, FoundFor, Good, NamesOf
<1>4. ASSUME NEW d \in Clients, conn'[d] # None
      PROVE  ExactFor(conn[d], out[d], failed[d])' /\ FoundFor(conn[d], out[d], failed[d])'
  <2>1. PICK r, o, f :
          r \in Servers /\ r = conn[d] /\ o = out[d] /\ f = failed[d] /\ r # s
          /\ r = conn'[d] /\ o = out'[d] /\ f = failed'[d]
    BY <1>2, <1>4 DEF Free
  <2>2. ExactFor(r, o, f) /\ FoundFor(r, o, f)
    BY <1>1, <1>4, <2>1
  <2>3. ExactFor(r, o, f)' /\ FoundFor(r, o, f)'
    BY <1>3, <2>1, <2>2
  <2> QED BY <2>1, <2>3 DEF ExactFor, FoundFor, NamesOf, Good
<1>5. ASSUME NEW r \in Servers, \A d \in Clients : conn'[d] # r
      PROVE  ExactFor(r, <<>>, FALSE)'
  <2>1. CASE r = s
    BY <2>1
  <2>2. CASE r # s
    <3>1. ExactFor(r, <<>>, FALSE)
      BY <1>1, <1>5 DEF Free
    <3> QED BY <1>3, <2>2, <3>1
  <2> QED BY <2>1, <2>2
<1>6. (\A d \in Clients : PhaseOK(d)') /\ EnsuredFound'
  BY <1>1 DEF PhaseOK, EnsuredFound
<1>7. \A r \in Servers : Distinct(cache'[r])
  BY <1>1
<1>8. \A d, e \in Clients : conn'[d] = conn'[e] /\ conn'[d] # None => d = e
  BY <1>1
<1> QED BY <1>4, <1>5, <1>6, <1>7, <1>8, CacheTogether

\* A step of a client that holds a connection and keeps it.
LEMMA HeldFrame ==
  ASSUME CacheInv, StatementInv', NEW c \in Clients, pc[c] \in {"drain", "exchange", "txread"},
         NEW s \in Servers, s = conn[c], UNCHANGED conn,
         (pc'[c] = "drain" /\ ~failed'[c]) \/ pc'[c] = "exchange",
         \A r \in Servers \ {s} : /\ cache'[r] = cache[r] /\ reg'[r] = reg[r]
                                  /\ stmts'[r] = stmts[r] /\ tx'[r] = tx[r]
                                  /\ taint'[r] = taint[r],
         \A d \in Clients \ {c} : /\ pc'[d] = pc[d] /\ out'[d] = out[d]
                                  /\ failed'[d] = failed[d] /\ lost'[d] = lost[d],
         Distinct(cache'[s]),
         Good(s)' => Exact(cache'[s], reg'[s], NamesOf(s)', out'[c], failed'[c]),
         taint'[s] = {} /\ ~failed'[c] /\ tx'[s] # "E" => Found(out'[c], NamesOf(s)'),
         lost'[c] = lost[c] \/ lost'[c].why # {} \/ ~lost'[c].ensured
  PROVE  CacheInv'
<1>1. s # None
  BY ConstantsAssumption
<1>2. PhaseOK(c)'
  BY DEF PhaseOK
<1>3. ExactFor(s, out[c], failed[c])' /\ FoundFor(s, out[c], failed[c])'
  BY DEF ExactFor, FoundFor
<1>4. lost'[c] # None => lost'[c].why # {} \/ ~lost'[c].ensured
  BY CacheParts DEF EnsuredFound
<1>5. conn[c] = s /\ conn'[c] = s /\ \A d \in Clients \ {c} : conn'[d] = conn[d]
  OBVIOUS
<1> QED BY <1>1, <1>2, <1>3, <1>4, <1>5, CacheFrame

-----------------------------------------------------------------------------
(* The drain. *)

LEMMA DrainParseCache ==
  ASSUME CacheInv, NEW c \in Clients, DrainParse(c)
  PROVE  CacheInv'
<1> DEFINE h == Head(ebuf[c])
           m == [op |-> h.op, p |-> h.p, want |-> h.want, ensured |-> h.p.name]
<1>0. StatementInv /\ StatementInv' /\ out \in [Clients -> Seq(Sent)]
  BY DrainParseStep, CacheTypes
<1>1. /\ pc[c] = "drain" /\ ebuf[c] # <<>> /\ h.op = "parse"
      /\ UNCHANGED <<pc, conn, failed, lost>>
  BY DEF DrainParse, Drains
<1>2. PICK s \in Servers : s = conn[c]
  BY <1>1, Holding
<1>3. h \in Messages /\ h.p \in Parses
  BY <1>0, <1>1, FrontOK
<1>4. ~failed[c] /\ ExactFor(s, out[c], failed[c]) /\ FoundFor(s, out[c], failed[c])
  BY <1>1, <1>2, Holding DEF PhaseOK
<1>5. CASE Has(s, h.p) /\ Hit(s, h.p) /\ UNCHANGED out
  <2>1. /\ Distinct(cache'[s]) /\ Elems(cache'[s]) = Elems(cache[s])
        /\ \A r \in Servers \ {s} : cache'[r] = cache[r]
        /\ UNCHANGED <<reg, stmts, tx, taint>>
    BY <1>1, <1>2, <1>5, HitKeeps
  <2>2. Good(s)' => Exact(cache'[s], reg'[s], NamesOf(s)', out'[c], failed'[c])
    BY <1>1, <1>4, <1>5, <2>1 DEF Good, ExactFor, Exact, NamesOf
  <2>3. taint'[s] = {} /\ ~failed'[c] /\ tx'[s] # "E" => Found(out'[c], NamesOf(s)')
    BY <1>1, <1>4, <1>5, <2>1 DEF FoundFor, NamesOf
  <2> QED BY <1>0, <1>1, <1>2, <1>4, <1>5, <2>1, <2>2, <2>3, HeldFrame
<1>6. CASE ~Has(s, h.p) /\ Register(c, s, h.p, FALSE) /\ Sends(c, h.p.name)
  <2>1. out' = [out EXCEPT ![c] = Append(out[c], m)]
    BY <1>6 DEF Sends
  <2> HIDE DEF h
  <2>2. m \in Sent /\ m.op = "parse" /\ m.p = h.p
    BY <1>1, <1>3 DEF Messages, Sent, Parses
  <2> HIDE DEF m
  <2>3. out'[c] = Append(out[c], m) /\ \A d \in Clients \ {c} : out'[d] = out[d]
    BY <1>0, <2>1
  <2>4. /\ Distinct(cache'[s])
        /\ Good(s)' => Exact(cache'[s], reg'[s], NamesOf(s)', Append(out[c], m), FALSE)
        /\ taint'[s] = {} /\ tx'[s] # "E" => Found(Append(out[c], m), NamesOf(s)')
        /\ \A r \in Servers \ {s} : /\ cache'[r] = cache[r] /\ reg'[r] = reg[r]
                                    /\ stmts'[r] = stmts[r] /\ tx'[r] = tx[r]
                                    /\ taint'[r] = taint[r]
    <3>1. m.p \in Parses /\ ~Has(s, m.p) /\ Register(c, s, m.p, FALSE)
      BY <1>3, <1>6, <2>2
    <3>2. pc[c] = "drain" /\ m \in Sent /\ m.op = "parse"
      BY <1>1, <2>2
    <3> QED BY <1>2, <3>1, <3>2, RegisterQueued
  <2>5. failed'[c] = FALSE
    <3>1. failed[c] \in BOOLEAN
      BY CacheTypes
    <3> QED BY <1>1, <1>4, <3>1
  <2> QED BY <1>0, <1>1, <1>2, <2>3, <2>4, <2>5, HeldFrame
<1> QED BY <1>2, <1>5, <1>6 DEF DrainParse

LEMMA DrainBindCache ==
  ASSUME CacheInv, NEW c \in Clients, DrainBind(c)
  PROVE  CacheInv'
<1> DEFINE h == Head(ebuf[c])
           p == mine[c][h.n]
           m == [op |-> h.op, p |-> h.p, want |-> h.want, ensured |-> p.name]
<1>0. /\ StatementInv /\ StatementInv' /\ out \in [Clients -> Seq(Sent)]
      /\ mine \in [Clients -> [Names -> Parses \cup {None}]] /\ failed[c] \in BOOLEAN
  BY DrainBindStep, CacheTypes
<1>1. /\ pc[c] = "drain" /\ ebuf[c] # <<>> /\ h.op = "bind" /\ p # None /\ Sends(c, p.name)
      /\ UNCHANGED <<pc, conn, failed, lost>>
  BY DEF DrainBind, Drains
<1>2. PICK s \in Servers : s = conn[c]
  BY <1>1, Holding
<1>3. h \in Messages /\ h.n \in Names /\ h.p \in Parses /\ Numbered(h.p)
  BY <1>0, <1>1, FrontOK
<1>4. p \in Parses /\ Numbered(p)
  <2>1. mine[c] \in [Names -> Parses \cup {None}]
    BY <1>0
  <2>2. p \in Parses \cup {None}
    BY <1>3, <2>1
  <2>3. \A n \in Names : mine[c][n] # None => Numbered(mine[c][n])
    BY <1>0, Parts DEF MapsOK
  <2> QED BY <1>1, <1>3, <2>2, <2>3
<1>5. /\ failed[c] = FALSE /\ failed'[c] = FALSE /\ out[c] \in Seq(Sent) /\ reg[s] \in Seq(Nat)
      /\ ExactFor(s, out[c], FALSE) /\ FoundFor(s, out[c], FALSE)
  <2>1. /\ ~failed[c] /\ out[c] \in Seq(Sent) /\ reg[s] \in Seq(Nat)
        /\ ExactFor(s, out[c], failed[c]) /\ FoundFor(s, out[c], failed[c])
    BY <1>1, <1>2, Holding DEF PhaseOK
  <2>2. failed[c] = FALSE
    BY <1>0, <2>1
  <2> QED BY <1>1, <2>1, <2>2
<1>6. out' = [out EXCEPT ![c] = Append(out[c], m)]
  BY <1>1 DEF Sends
<1>7. (Has(s, p) /\ Hit(s, p)) \/ (~Has(s, p) /\ Register(c, s, p, TRUE))
  BY <1>2 DEF DrainBind
<1> HIDE DEF h, p
<1>8. m \in Sent /\ m.op = "bind" /\ m.p = h.p /\ m.ensured = p.name
  BY <1>1, <1>3, <1>4 DEF Messages, Sent, Parses
<1> HIDE DEF m
<1>9. out'[c] = Append(out[c], m) /\ \A d \in Clients \ {c} : out'[d] = out[d]
  BY <1>0, <1>6
<1>10. CASE Has(s, p) /\ Hit(s, p)
  <2>1. /\ Distinct(cache'[s]) /\ Elems(cache'[s]) = Elems(cache[s])
        /\ \A r \in Servers \ {s} : cache'[r] = cache[r]
        /\ UNCHANGED <<reg, stmts, tx, taint>>
    BY <1>1, <1>2, <1>10, HitKeeps
  <2>2. NamesOf(s)' = NamesOf(s) /\ (Good(s)' <=> Good(s))
    BY <2>1 DEF NamesOf, Good
  <2>3. m.op # "parse"
    BY <1>8
  <2>4. Good(s)' => Exact(cache'[s], reg'[s], NamesOf(s)', out'[c], FALSE)
    <3>1. ASSUME Good(s)
          PROVE  /\ InOrder(out[c], reg[s]) /\ Elems(cache[s]) = NamesOf(s) \cup ParsesIn(out[c])
                 /\ NamesOf(s) \cap ParsesIn(out[c]) = {}
      BY <1>5, <3>1 DEF ExactFor, Exact
    <3>2. /\ ParsesIn(Append(out[c], m)) = ParsesIn(out[c])
          /\ InOrder(out[c], reg[s]) => InOrder(Append(out[c], m), reg[s])
      BY <1>5, <1>8, <2>3, OrderOther
    <3> QED BY <1>9, <2>1, <2>2, <3>1, <3>2 DEF Exact
  <2>5. ASSUME taint'[s] = {}, tx'[s] # "E" PROVE Found(out'[c], NamesOf(s)')
    <3>1. taint[s] = {} /\ tx[s] # "E" /\ Found(out[c], NamesOf(s))
      BY <1>5, <2>1, <2>5 DEF FoundFor
    <3>2. Elems(cache[s]) = NamesOf(s) \cup ParsesIn(out[c])
      BY <1>5, <3>1 DEF Good, ExactFor, Exact
    <3>3. p.name \in NamesOf(s) \cup ParsesIn(out[c])
      BY <1>10, <3>2 DEF Has
    <3>4. PICK names : names = NamesOf(s)
      OBVIOUS
    <3>5. Found(Append(out[c], m), names)
      BY <1>5, <1>8, <3>1, <3>3, <3>4, FoundAppend
    <3> QED BY <1>9, <2>2, <3>4, <3>5
  <2> QED BY <1>0, <1>1, <1>2, <1>5, <1>9, <2>1, <2>4, <2>5, HeldFrame
<1>11. CASE ~Has(s, p) /\ Register(c, s, p, TRUE)
  <2>1. /\ Distinct(cache'[s])
        /\ Good(s)' => Exact(cache'[s], reg'[s], NamesOf(s)', Append(out[c], m), FALSE)
        /\ taint'[s] = {} /\ tx'[s] # "E" => Found(Append(out[c], m), NamesOf(s)')
        /\ \A r \in Servers \ {s} : /\ cache'[r] = cache[r] /\ reg'[r] = reg[r]
                                    /\ stmts'[r] = stmts[r] /\ tx'[r] = tx[r]
                                    /\ taint'[r] = taint[r]
    <3>1. Numbered(m.p) /\ pc[c] = "drain"
      BY <1>1, <1>3, <1>8
    <3> QED BY <1>2, <1>4, <1>8, <1>11, <3>1, RegisterSent
  <2> QED BY <1>0, <1>1, <1>2, <1>5, <1>9, <2>1, HeldFrame
<1> QED BY <1>7, <1>10, <1>11

-----------------------------------------------------------------------------
(* The exchange. *)

\* recv at an ErrorResponse: a cache with nothing more queued is that of the session.
LEMMA ErrorCache ==
  ASSUME CacheInv, NEW c \in Clients, pc[c] = "exchange", ~failed[c], NEW s \in Servers,
         s = conn[c], ErrorResponse(s), UNCHANGED <<stmts, taint>>
  PROVE  /\ Distinct(cache'[s])
         /\ \A o : Good(s)' => Exact(cache'[s], reg'[s], NamesOf(s)', o, TRUE)
         /\ \A r \in Servers \ {s} : /\ cache'[r] = cache[r] /\ reg'[r] = reg[r]
                                     /\ stmts'[r] = stmts[r] /\ tx'[r] = tx[r]
                                     /\ taint'[r] = taint[r]
<1>1. /\ cache[s] \in Seq(Nat) /\ reg[s] \in Seq(Nat) /\ out[c] \in Seq(Sent)
      /\ Distinct(cache[s]) /\ ExactFor(s, out[c], failed[c])
  BY Holding
<1>2. /\ cache \in [Servers -> Seq(Nat)] /\ reg \in [Servers -> Seq(Nat)]
      /\ tx \in [Servers -> {"I", "T", "E"}]
  BY CacheTypes
<1>3. /\ reg'[s] = (IF reg[s] = <<>> THEN reg[s] ELSE Tail(reg[s]))
      /\ cache'[s] = (IF reg[s] = <<>> THEN cache[s] ELSE Popped(cache[s], Head(reg[s])))
  BY <1>2 DEF ErrorResponse
<1>4. \A r \in Servers \ {s} : /\ cache'[r] = cache[r] /\ reg'[r] = reg[r]
                               /\ stmts'[r] = stmts[r] /\ tx'[r] = tx[r]
                               /\ taint'[r] = taint[r]
  BY <1>2 DEF ErrorResponse
<1>5. Distinct(cache'[s])
  <2>1. Distinct(Popped(cache[s], Head(reg[s])))
    BY <1>1, PoppedExact
  <2> QED BY <1>1, <1>3, <2>1
<1>6. ASSUME Good(s)', reg'[s] = <<>>
      PROVE  Elems(cache'[s]) = NamesOf(s)'
  <2>1. NamesOf(s)' = NamesOf(s) /\ Good(s)
    BY <1>6 DEF NamesOf, Good
  <2>2. /\ Elems(reg[s]) = ParsesIn(out[c]) /\ Elems(cache[s]) = NamesOf(s) \cup ParsesIn(out[c])
        /\ NamesOf(s) \cap ParsesIn(out[c]) = {}
    BY <1>1, <2>1 DEF ExactFor, Exact, InOrder
  <2>3. CASE reg[s] = <<>>
    <3>1. Elems(<<>>) = {}
      BY SMT DEF Elems
    <3>2. ParsesIn(out[c]) = {} /\ cache'[s] = cache[s]
      BY <1>3, <2>2, <2>3, <3>1
    <3> QED BY <2>1, <2>2, <3>2
  <2>4. CASE reg[s] # <<>>
    <3>1. reg'[s] = Tail(reg[s]) /\ cache'[s] = Popped(cache[s], Head(reg[s]))
      BY <1>3, <2>4
    <3>2. Elems(reg[s]) = {Head(reg[s])}
      BY <1>1, <1>6, <2>4, <3>1, LastQueued
    <3>3. Elems(cache'[s]) = Elems(cache[s]) \ {Head(reg[s])}
      <4>1. Elems(Popped(cache[s], Head(reg[s]))) = Elems(cache[s]) \ {Head(reg[s])}
        BY <1>1, PoppedExact
      <4> QED BY <3>1, <4>1
    <3>4. Elems(cache'[s]) = (NamesOf(s) \cup ParsesIn(out[c])) \ ParsesIn(out[c])
      BY <2>2, <3>2, <3>3
    <3> QED BY <2>1, <2>2, <3>4, OnlyRest
  <2> QED BY <2>3, <2>4
<1> QED BY <1>4, <1>5, <1>6 DEF Exact

\* The front message is taken.
LEMMA Taken ==
  ASSUME CacheInv, NEW c \in Clients, Took(c)
  PROVE  out'[c] = Tail(out[c]) /\ \A d \in Clients \ {c} : out'[d] = out[d]
<1>1. out \in [Clients -> Seq(Sent)]
  BY CacheTypes
<1> QED BY <1>1 DEF Took

LEMMA AnswerParseCache ==
  ASSUME CacheInv, NEW c \in Clients, AnswerParse(c)
  PROVE  CacheInv'
<1> DEFINE p == Head(out[c]).p
<1>0. /\ StatementInv' /\ reg \in [Servers -> Seq(Nat)] /\ stmts \in [Servers -> SUBSET Parses]
      /\ failed \in [Clients -> BOOLEAN]
  BY AnswerParseStep, CacheTypes
<1>1. /\ pc[c] = "exchange" /\ out[c] # <<>> /\ Head(out[c]).op = "parse" /\ ~failed[c] /\ Took(c)
      /\ UNCHANGED <<pc, conn, lost, taint>>
  BY DEF AnswerParse, Exchanges
<1>2. PICK s \in Servers : s = conn[c]
  BY <1>1, Holding
<1>3. /\ out'[c] = Tail(out[c]) /\ \A d \in Clients \ {c} : out'[d] = out[d]
  BY <1>1, Taken
<1>4. CASE ErrorResponse(s) /\ failed' = [failed EXCEPT ![c] = TRUE] /\ UNCHANGED stmts
  <2>1. failed'[c] = TRUE /\ \A d \in Clients \ {c} : failed'[d] = failed[d]
    BY <1>0, <1>4
  <2>2. /\ Distinct(cache'[s])
        /\ \A o : Good(s)' => Exact(cache'[s], reg'[s], NamesOf(s)', o, TRUE)
        /\ \A r \in Servers \ {s} : /\ cache'[r] = cache[r] /\ reg'[r] = reg[r]
                                    /\ stmts'[r] = stmts[r] /\ tx'[r] = tx[r]
                                    /\ taint'[r] = taint[r]
    BY <1>1, <1>2, <1>4, ErrorCache
  <2> QED BY <1>0, <1>1, <1>2, <1>3, <2>1, <2>2, HeldFrame
<1>5. CASE /\ ParseComplete(s) /\ stmts' = [stmts EXCEPT ![s] = stmts[s] \cup {p}]
           /\ UNCHANGED <<cache, tx, failed>>
  <2>1. /\ out[c] \in Seq(Sent) /\ reg[s] \in Seq(Nat) /\ Distinct(cache[s])
        /\ ExactFor(s, out[c], failed[c]) /\ FoundFor(s, out[c], failed[c])
    BY <1>1, <1>2, Holding
  <2>2. /\ reg'[s] = (IF reg[s] = <<>> THEN reg[s] ELSE Tail(reg[s]))
        /\ stmts'[s] = stmts[s] \cup {p}
        /\ \A r \in Servers \ {s} : reg'[r] = reg[r] /\ stmts'[r] = stmts[r]
    BY <1>0, <1>5 DEF ParseComplete
  <2>3. NamesOf(s)' = NamesOf(s) \cup {p.name} /\ (Good(s)' <=> Good(s))
    BY SMTT(30), <1>1, <2>2 DEF NamesOf, Good
  <2> HIDE DEF p
  <2>4. failed[c] = FALSE /\ failed'[c] = FALSE
    BY <1>0, <1>1, <1>5
  <2>5. ASSUME Good(s)
        PROVE  Exact(cache'[s], reg'[s], NamesOf(s)', out'[c], FALSE)
    <3>1. /\ InOrder(out[c], reg[s]) /\ Elems(cache[s]) = NamesOf(s) \cup ParsesIn(out[c])
          /\ NamesOf(s) \cap ParsesIn(out[c]) = {}
      BY <2>1, <2>4, <2>5 DEF ExactFor, Exact
    <3>2. /\ reg[s] # <<>> /\ Head(reg[s]) = p.name
          /\ ParsesIn(Tail(out[c])) = ParsesIn(out[c]) \ {p.name}
          /\ InOrder(Tail(out[c]), Tail(reg[s]))
      BY <1>1, <2>1, <3>1, OrderTakeParse DEF p
    <3>3. p.name \in ParsesIn(out[c])
      BY <2>1, <3>1, <3>2, LastQueued DEF InOrder
    <3>4. /\ Elems(cache'[s]) = NamesOf(s)' \cup ParsesIn(Tail(out[c]))
          /\ NamesOf(s)' \cap ParsesIn(Tail(out[c])) = {}
      BY <1>5, <2>3, <3>1, <3>2, <3>3
    <3>5. reg'[s] = Tail(reg[s])
      BY <2>2, <3>2
    <3> QED BY <1>3, <3>2, <3>4, <3>5 DEF Exact
  <2>6. ASSUME taint'[s] = {}, tx'[s] # "E"
        PROVE  Found(out'[c], NamesOf(s)')
    <3>1. Found(out[c], NamesOf(s))
      BY <1>1, <1>5, <2>1, <2>4, <2>6 DEF FoundFor
    <3>2. PICK names, after : names = NamesOf(s) /\ after = NamesOf(s)'
      OBVIOUS
    <3>3. names \subseteq after /\ Head(out[c]).p.name \in after
      BY <2>3, <3>2 DEF p
    <3>4. Found(Tail(out[c]), after)
      BY <1>1, <2>1, <3>1, <3>2, <3>3, FoundTake
    <3> QED BY <1>3, <3>2, <3>4
  <2>7. /\ Distinct(cache'[s]) /\ (\A d \in Clients \ {c} : failed'[d] = failed[d])
        /\ \A r \in Servers \ {s} : cache'[r] = cache[r] /\ tx'[r] = tx[r] /\ taint'[r] = taint[r]
    BY <1>1, <1>5, <2>1
  <2>8. /\ \A r \in Servers \ {s} : /\ cache'[r] = cache[r] /\ reg'[r] = reg[r]
                                    /\ stmts'[r] = stmts[r] /\ tx'[r] = tx[r]
                                    /\ taint'[r] = taint[r]
        /\ \A d \in Clients \ {c} : /\ pc'[d] = pc[d] /\ out'[d] = out[d]
                                    /\ failed'[d] = failed[d] /\ lost'[d] = lost[d]
    BY <1>1, <1>3, <2>2, <2>7
  <2>9. /\ pc'[c] = "exchange" /\ UNCHANGED conn /\ lost'[c] = lost[c]
        /\ Good(s)' => Exact(cache'[s], reg'[s], NamesOf(s)', out'[c], failed'[c])
        /\ taint'[s] = {} /\ ~failed'[c] /\ tx'[s] # "E" => Found(out'[c], NamesOf(s)')
    BY <1>1, <2>3, <2>4, <2>5, <2>6
  <2> QED BY <1>0, <1>1, <1>2, <2>7, <2>8, <2>9, HeldFrame
<1> QED BY <1>2, <1>4, <1>5 DEF AnswerParse

LEMMA AnswerBindCache ==
  ASSUME CacheInv, NEW c \in Clients, AnswerBind(c)
  PROVE  CacheInv'
<1> DEFINE m == Head(out[c])
<1>0. /\ StatementInv' /\ failed \in [Clients -> BOOLEAN]
      /\ lost \in [Clients -> [why: SUBSET Causes, ensured: BOOLEAN] \cup {None}]
  BY AnswerBindStep, CacheTypes
<1>1. /\ pc[c] = "exchange" /\ out[c] # <<>> /\ m.op = "bind" /\ ~failed[c] /\ Took(c)
      /\ UNCHANGED <<pc, conn, stmts, taint>>
  BY DEF AnswerBind, Exchanges
<1>2. PICK s \in Servers : s = conn[c]
  BY <1>1, Holding
<1>3. out'[c] = Tail(out[c]) /\ \A d \in Clients \ {c} : out'[d] = out[d]
  BY <1>1, Taken
<1>4. /\ out[c] \in Seq(Sent) /\ reg[s] \in Seq(Nat) /\ Distinct(cache[s]) /\ failed[c] = FALSE
      /\ ExactFor(s, out[c], FALSE) /\ FoundFor(s, out[c], FALSE)
  <2>1. failed[c] = FALSE
    BY <1>0, <1>1
  <2> QED BY <1>1, <1>2, <2>1, Holding
<1>5. CASE UNCHANGED <<failed, cache, reg, tx, lost>>
  <2>1. NamesOf(s)' = NamesOf(s) /\ (Good(s)' <=> Good(s)) /\ m.op # "parse"
    BY <1>1 DEF NamesOf, Good
  <2>2. ASSUME Good(s) PROVE Exact(cache'[s], reg'[s], NamesOf(s)', out'[c], FALSE)
    <3>1. /\ ParsesIn(Tail(out[c])) = ParsesIn(out[c])
          /\ InOrder(out[c], reg[s]) => InOrder(Tail(out[c]), reg[s])
      BY <1>1, <1>4, <2>1, OrderTakeOther
    <3> QED BY <1>3, <1>4, <1>5, <2>1, <2>2, <3>1 DEF ExactFor, Exact
  <2>3. ASSUME taint'[s] = {}, tx'[s] # "E" PROVE Found(out'[c], NamesOf(s)')
    <3>1. Found(out[c], NamesOf(s))
      BY <1>1, <1>4, <1>5, <2>3 DEF FoundFor
    <3>2. PICK names : names = NamesOf(s)
      OBVIOUS
    <3>3. Found(Tail(out[c]), names)
      BY <1>1, <1>4, <2>1, <3>1, <3>2, FoundTake
    <3> QED BY <1>3, <2>1, <3>2, <3>3
  <2> QED BY <1>0, <1>1, <1>2, <1>3, <1>4, <1>5, <2>1, <2>2, <2>3, HeldFrame
<1>6. CASE /\ ErrorResponse(s) /\ failed' = [failed EXCEPT ![c] = TRUE]
           /\ \/ UNCHANGED lost
              \/ /\ ~HasStmt(s, m.p.name) \/ tx[s] = "E"
                 /\ tx[s] # "E" /\ m.p.text \notin BadTexts
                 /\ lost' = [lost EXCEPT ![c] =
                       [why |-> taint[s], ensured |-> m.ensured = m.p.name]]
  <2>1. failed'[c] = TRUE /\ \A d \in Clients \ {c} : failed'[d] = failed[d]
    BY <1>0, <1>6
  <2>2. /\ Distinct(cache'[s])
        /\ \A o : Good(s)' => Exact(cache'[s], reg'[s], NamesOf(s)', o, TRUE)
        /\ \A r \in Servers \ {s} : /\ cache'[r] = cache[r] /\ reg'[r] = reg[r]
                                    /\ stmts'[r] = stmts[r] /\ tx'[r] = tx[r]
                                    /\ taint'[r] = taint[r]
    BY <1>1, <1>2, <1>6, ErrorCache
  <2>3. \A d \in Clients \ {c} : lost'[d] = lost[d]
    BY <1>0, <1>6
  <2>4. lost'[c] = lost[c] \/ lost'[c].why # {} \/ ~lost'[c].ensured
    <3>1. CASE UNCHANGED lost
      BY <3>1
    <3>2. CASE /\ ~HasStmt(s, m.p.name) /\ tx[s] # "E" /\ m.p.text \notin BadTexts
               /\ lost' = [lost EXCEPT ![c] = [why |-> taint[s], ensured |-> m.ensured = m.p.name]]
      <4>1. lost'[c] = [why |-> taint[s], ensured |-> m.ensured = m.p.name]
        BY <1>0, <3>2
      <4>2. lost'[c].why = taint[s] /\ (lost'[c].ensured <=> m.ensured = m.p.name)
        <5>1. PICK e : e = (m.ensured = m.p.name)
          OBVIOUS
        <5>2. lost'[c] = [why |-> taint[s], ensured |-> e]
          BY <4>1, <5>1
        <5>3. lost'[c].why = taint[s] /\ lost'[c].ensured = e
          BY SMT, <5>2
        <5> QED BY <5>1, <5>3
      <4>3. ASSUME taint[s] = {}, m.ensured = m.p.name PROVE FALSE
        <5>1. Found(out[c], NamesOf(s))
          BY <1>4, <3>2, <4>3 DEF FoundFor
        <5>2. 1 \in DOMAIN out[c] /\ out[c][1] = m /\ 1..(1 - 1) = {}
          BY SMTT(30), <1>1, <1>4
        <5>3. m.p.name \in NamesOf(s)
          BY <1>1, <3>2, <4>3, <5>1, <5>2 DEF Found
        <5> QED BY <3>2, <5>3 DEF NamesOf, HasStmt
      <4> QED BY <4>2, <4>3
    <3> QED BY <1>6, <3>1, <3>2
  <2> QED BY <1>0, <1>1, <1>2, <1>3, <2>1, <2>2, <2>3, <2>4, HeldFrame
<1> QED BY <1>2, <1>5, <1>6 DEF AnswerBind

\* Nothing is sent or answered: the buffer goes out, or Postgres skips a message.
LEMMA SkipCache ==
  ASSUME CacheInv, NEW c \in Clients, Drained(c) \/ AnswerSkipped(c)
  PROVE  CacheInv'
<1>0. StatementInv' /\ pc \in [Clients -> {"idle", "drain", "exchange", "txread", "gone"}]
  BY SkipStep, CacheTypes
<1>1. /\ pc[c] \in {"drain", "exchange", "txread"}
      /\ UNCHANGED <<conn, failed, lost, cache, reg, stmts, tx, taint>>
  BY DEF Drained, AnswerSkipped, serverVars
<1>2. PICK s \in Servers : s = conn[c]
  BY <1>1, Holding
<1>3. Distinct(cache[s]) /\ ExactFor(s, out[c], failed[c]) /\ FoundFor(s, out[c], failed[c])
  BY <1>1, <1>2, Holding
<1>4. NamesOf(s)' = NamesOf(s) /\ (Good(s)' <=> Good(s))
  BY <1>1 DEF NamesOf, Good
<1>5. CASE Drained(c)
  <2>1. UNCHANGED out /\ pc'[c] = "exchange" /\ \A d \in Clients \ {c} : pc'[d] = pc[d]
    BY <1>0, <1>5 DEF Drained
  <2>2. /\ Good(s)' => Exact(cache'[s], reg'[s], NamesOf(s)', out'[c], failed'[c])
        /\ taint'[s] = {} /\ ~failed'[c] /\ tx'[s] # "E" => Found(out'[c], NamesOf(s)')
    BY <1>1, <1>3, <1>4, <2>1 DEF ExactFor, FoundFor
  <2> QED BY <1>0, <1>1, <1>2, <1>3, <2>1, <2>2, HeldFrame
<1>6. CASE AnswerSkipped(c)
  <2>1. failed[c] /\ Took(c) /\ UNCHANGED pc /\ pc[c] = "exchange"
    BY <1>6 DEF AnswerSkipped
  <2>2. \A d \in Clients \ {c} : out'[d] = out[d]
    BY <2>1, Taken
  <2>3. /\ Good(s)' => Exact(cache'[s], reg'[s], NamesOf(s)', out'[c], failed'[c])
        /\ taint'[s] = {} /\ ~failed'[c] /\ tx'[s] # "E" => Found(out'[c], NamesOf(s)')
    BY <1>1, <1>3, <1>4, <2>1 DEF ExactFor, Exact
  <2> QED BY <1>0, <1>1, <1>2, <1>3, <2>1, <2>2, <2>3, HeldFrame
<1> QED BY <1>5, <1>6

-----------------------------------------------------------------------------
(* Checkout and check-in. *)

\* An idle client has nothing under way and no connection.
LEMMA IdleClient ==
  ASSUME CacheInv, NEW c \in Clients, pc[c] = "idle"
  PROVE  conn[c] = None /\ out[c] = <<>> /\ failed[c] = FALSE
<1>1. PhaseOK(c) /\ failed[c] \in BOOLEAN
  BY CacheTypes, CacheParts
<1> QED BY <1>1 DEF PhaseOK

\* A free connection is checked out, at Sync or at BEGIN.
LEMMA CheckoutCache ==
  ASSUME CacheInv, StatementInv', NEW c \in Clients, pc[c] = "idle", NEW s \in Free,
         conn' = [conn EXCEPT ![c] = s], NEW x \in {"drain", "txread"}, pc' = [pc EXCEPT ![c] = x],
         \A r \in Servers \ {s} : tx'[r] = tx[r],
         UNCHANGED <<out, failed, lost, cache, reg, stmts, taint>>
  PROVE  CacheInv'
<1>1. conn[c] = None /\ out[c] = <<>> /\ failed[c] = FALSE
  BY IdleClient
<1>2. /\ s \in Servers /\ Distinct(cache[s]) /\ reg[s] \in Seq(Nat)
      /\ Good(s) => reg[s] = <<>> /\ Elems(cache[s]) = NamesOf(s)
  BY Unheld
<1>3. /\ pc \in [Clients -> {"idle", "drain", "exchange", "txread", "gone"}]
      /\ conn \in [Clients -> Servers \cup {None}]
  BY CacheTypes
<1>4. /\ conn'[c] = s /\ pc'[c] = x
      /\ \A d \in Clients \ {c} : conn'[d] = conn[d] /\ pc'[d] = pc[d]
  BY <1>3
<1>5. PhaseOK(c)'
  BY <1>1, <1>4 DEF PhaseOK
<1>6. NamesOf(s)' = NamesOf(s) /\ (Good(s)' <=> Good(s))
  BY DEF NamesOf, Good
<1>7. out'[c] = <<>> /\ failed'[c] = FALSE
  BY <1>1
<1>8. ExactFor(s, out[c], failed[c])'
  <2>1. Good(s)' => Exact(cache'[s], reg'[s], NamesOf(s)', <<>>, FALSE)
    BY <1>2, <1>6, NothingUnderWay
  <2> QED BY <1>7, <2>1 DEF ExactFor
<1>9. FoundFor(s, out[c], failed[c])'
  BY <1>7, FoundNothing DEF FoundFor
<1>10. lost'[c] # None => lost'[c].why # {} \/ ~lost'[c].ensured
  BY CacheParts DEF EnsuredFound
<1>11. s # None
  BY <1>2, ConstantsAssumption
<1> QED BY <1>1, <1>2, <1>4, <1>5, <1>8, <1>9, <1>10, <1>11, CacheFrame

LEMMA SyncCache ==
  ASSUME CacheInv, NEW c \in Clients, Sync(c)
  PROVE  CacheInv'
<1>0. /\ StatementInv' /\ pc \in [Clients -> {"idle", "drain", "exchange", "txread", "gone"}]
  BY SyncStep, CacheTypes
<1>1. /\ pc' = [pc EXCEPT ![c] = "drain"]
      /\ UNCHANGED <<out, failed, lost, cache, reg, stmts, tx, taint>>
  BY DEF Sync, serverVars
<1>2. CASE pc[c] = "idle" /\ \E s \in Free : conn' = [conn EXCEPT ![c] = s]
  <2>1. PICK s \in Free : conn' = [conn EXCEPT ![c] = s]
    BY <1>2
  <2>2. "drain" \in {"drain", "txread"} /\ \A r \in Servers \ {s} : tx'[r] = tx[r]
    BY <1>1
  <2> QED BY <1>0, <1>1, <1>2, <2>1, <2>2, CheckoutCache
<1>3. CASE pc[c] = "txread" /\ UNCHANGED conn
  <2>1. PICK s \in Servers : s = conn[c]
    BY <1>3, Holding
  <2>2. /\ Distinct(cache[s]) /\ ExactFor(s, out[c], failed[c]) /\ FoundFor(s, out[c], failed[c])
        /\ ~failed[c]
    <3>1. "txread" # "exchange"
      OBVIOUS
    <3> QED BY <1>3, <2>1, <3>1, Holding DEF PhaseOK
  <2>3. NamesOf(s)' = NamesOf(s) /\ (Good(s)' <=> Good(s))
    BY <1>1 DEF NamesOf, Good
  <2>4. /\ Good(s)' => Exact(cache'[s], reg'[s], NamesOf(s)', out'[c], failed'[c])
        /\ taint'[s] = {} /\ ~failed'[c] /\ tx'[s] # "E" => Found(out'[c], NamesOf(s)')
    BY <1>1, <2>2, <2>3 DEF ExactFor, FoundFor
  <2>5. pc'[c] = "drain" /\ \A d \in Clients \ {c} : pc'[d] = pc[d]
    BY <1>0, <1>1
  <2> QED BY <1>0, <1>1, <1>3, <2>1, <2>2, <2>4, <2>5, HeldFrame
<1> QED BY <1>2, <1>3 DEF Sync

LEMMA BeginCache ==
  ASSUME CacheInv, NEW c \in Clients, Begin(c)
  PROVE  CacheInv'
<1>0. StatementInv' /\ tx \in [Servers -> {"I", "T", "E"}]
  BY TransactionStep, CacheTypes
<1>1. PICK s \in Free : /\ conn' = [conn EXCEPT ![c] = s]
                        /\ tx' = [tx EXCEPT ![s] = IF tx[s] = "I" THEN "T" ELSE tx[s]]
  BY DEF Begin
<1>2. /\ pc[c] = "idle" /\ pc' = [pc EXCEPT ![c] = "txread"]
      /\ UNCHANGED <<out, failed, lost, cache, reg, stmts, taint>>
  BY DEF Begin
<1>3. "txread" \in {"drain", "txread"} /\ \A r \in Servers \ {s} : tx'[r] = tx[r]
  BY <1>0, <1>1
<1> QED BY <1>0, <1>1, <1>2, <1>3, CheckoutCache

\* DEALLOCATE ALL at check-in leaves the cache and the session as equal as they were.
LEMMA CleanedCache ==
  ASSUME CacheInv, NEW s \in Servers, Cleaned(s)
  PROVE  /\ Distinct(cache'[s])
         /\ Elems(cache[s]) = NamesOf(s) => Elems(cache'[s]) = NamesOf(s)'
         /\ \A r \in Servers \ {s} : cache'[r] = cache[r] /\ stmts'[r] = stmts[r]
<1>1. /\ cache \in [Servers -> Seq(Nat)] /\ stmts \in [Servers -> SUBSET Parses]
      /\ Distinct(cache[s])
  BY CacheTypes, CacheParts
<1>2. /\ cache'[s] = (IF needs[s] THEN <<>> ELSE cache[s])
      /\ stmts'[s] = (IF needs[s] THEN {} ELSE stmts[s])
      /\ \A r \in Servers \ {s} : cache'[r] = cache[r] /\ stmts'[r] = stmts[r]
  BY <1>1 DEF Cleaned
<1>3. Distinct(<<>>) /\ Elems(<<>>) = {}
  BY SMT DEF Distinct, Elems
<1>4. CASE needs[s]
  <2>1. cache'[s] = <<>> /\ NamesOf(s)' = {}
    BY <1>2, <1>4 DEF NamesOf
  <2> QED BY <1>2, <1>3, <2>1
<1>5. CASE ~needs[s]
  <2>1. cache'[s] = cache[s] /\ NamesOf(s)' = NamesOf(s)
    BY <1>2, <1>5 DEF NamesOf
  <2> QED BY <1>1, <1>2, <2>1
<1> QED BY <1>4, <1>5

\* A client gives its connection back.
LEMMA ReturnCache ==
  ASSUME CacheInv, StatementInv', NEW c \in Clients, NEW s \in Servers, s = conn[c],
         conn' = [conn EXCEPT ![c] = None], NEW x \in {"idle", "gone"}, pc' = [pc EXCEPT ![c] = x],
         out'[c] = <<>>, ~failed'[c], lost'[c] = lost[c] \/ lost'[c] = None,
         \A d \in Clients \ {c} : out'[d] = out[d] /\ failed'[d] = failed[d] /\ lost'[d] = lost[d],
         \A r \in Servers \ {s} : /\ cache'[r] = cache[r] /\ reg'[r] = reg[r]
                                  /\ stmts'[r] = stmts[r] /\ tx'[r] = tx[r]
                                  /\ taint'[r] = taint[r],
         Distinct(cache'[s]),
         Good(s)' => reg'[s] = <<>> /\ Elems(cache'[s]) = NamesOf(s)'
  PROVE  CacheInv'
<1>1. /\ pc \in [Clients -> {"idle", "drain", "exchange", "txread", "gone"}]
      /\ conn \in [Clients -> Servers \cup {None}]
  BY CacheTypes
<1>2. reg'[s] \in Seq(Nat)
  BY NextTypes
<1>3. /\ conn'[c] = None /\ pc'[c] = x
      /\ \A d \in Clients \ {c} : conn'[d] = conn[d] /\ pc'[d] = pc[d]
  BY <1>1
<1>4. PhaseOK(c)'
  BY <1>3 DEF PhaseOK
<1>5. ExactFor(s, <<>>, FALSE)'
  <2>1. Good(s)' => Exact(cache'[s], reg'[s], NamesOf(s)', <<>>, FALSE)
    BY <1>2, NothingUnderWay
  <2> QED BY <2>1 DEF ExactFor
<1>6. lost'[c] # None => lost'[c].why # {} \/ ~lost'[c].ensured
  BY CacheParts DEF EnsuredFound
<1>7. s # None
  BY ConstantsAssumption
<1> QED BY <1>3, <1>4, <1>5, <1>6, <1>7, CacheFrame

\* What is queued when nothing is under way: nothing.
LEMMA Settled ==
  ASSUME CacheInv, NEW c \in Clients, pc[c] \in {"drain", "exchange", "txread"}, NEW s \in Servers,
         s = conn[c], Good(s), reg[s] = <<>> \/ (~failed[c] /\ out[c] = <<>>)
  PROVE  reg[s] = <<>> /\ Elems(cache[s]) = NamesOf(s)
<1>1. ExactFor(s, out[c], failed[c]) /\ reg[s] \in Seq(Nat)
  BY Holding
<1>2. failed[c] \in BOOLEAN
  BY CacheTypes
<1>3. CASE failed[c]
  BY <1>1, <1>3 DEF ExactFor, Exact
<1>4. CASE ~failed[c]
  <2>1. InOrder(out[c], reg[s]) /\ Elems(cache[s]) = NamesOf(s) \cup ParsesIn(out[c])
    BY <1>1, <1>4 DEF ExactFor, Exact
  <2>2. Elems(reg[s]) = ParsesIn(out[c])
    BY <2>1 DEF InOrder
  <2>3. ParsesIn(<<>>) = {} /\ Elems(<<>>) = {}
    BY SMT DEF ParsesIn, Elems
  <2>4. ParsesIn(out[c]) = {}
    BY <2>2, <2>3, <1>4
  <2>5. reg[s] = <<>>
    BY <1>1, <2>2, <2>4, NoneQueued
  <2> QED BY <2>1, <2>4, <2>5
<1> QED BY <1>3, <1>4

\* A client task ends with an error, with or without a connection.
LEMMA GoneCache ==
  ASSUME CacheInv, NEW c \in Clients, pc[c] \in {"idle", "txread", "drain"}, Gone(c),
         UNCHANGED <<counter, born, pool, failed, cache, reg, needs, stmts, tx, ran, lost>>
  PROVE  CacheInv'
<1>0. /\ StatementInv' /\ out \in [Clients -> Seq(Sent)] /\ taint \in [Servers -> SUBSET Causes]
      /\ pc \in [Clients -> {"idle", "drain", "exchange", "txread", "gone"}]
      /\ conn \in [Clients -> Servers \cup {None}]
  BY GoneStep, CacheTypes
<1>1. /\ pc' = [pc EXCEPT ![c] = "gone"] /\ conn' = [conn EXCEPT ![c] = None]
      /\ out' = [out EXCEPT ![c] = <<>>]
      /\ taint' = [s \in Servers |->
                     IF s = conn[c] /\ reg[s] # <<>> THEN taint[s] \cup {"unsent"} ELSE taint[s]]
  BY DEF Gone
<1>2. /\ out'[c] = <<>> /\ (\A d \in Clients \ {c} : out'[d] = out[d])
      /\ \A r \in Servers : r # conn[c] => taint'[r] = taint[r]
  BY <1>0, <1>1
<1>3. ~failed[c]
  <2>1. pc[c] # "exchange"
    OBVIOUS
  <2>2. PhaseOK(c)
    BY CacheParts
  <2> QED BY <2>1, <2>2 DEF PhaseOK
<1>4. CASE pc[c] = "idle"
  <2>1. conn[c] = None /\ out[c] = <<>>
    BY <1>4, IdleClient
  <2>2. conn' = conn /\ out' = out
    BY <1>0, <1>1, <2>1
  <2>3. taint' = taint
    BY <1>0, <1>1, <2>1, ConstantsAssumption
  <2>4. \A d \in Clients : pc'[d] = (IF d = c THEN "gone" ELSE pc[d])
    BY <1>0, <1>1
  <2>5. \A d \in Clients : PhaseOK(d)'
    <3>1. \A d \in Clients : PhaseOK(d)
      BY CacheParts
    <3> QED BY <1>3, <2>1, <2>2, <2>4, <3>1 DEF PhaseOK
  <2> QED BY <1>0, <2>2, <2>3, <2>5, CacheUnmoved
<1>5. CASE pc[c] \in {"txread", "drain"}
  <2>1. pc[c] \in {"drain", "exchange", "txread"}
    BY <1>5
  <2>2. PICK s \in Servers : s = conn[c]
    BY <2>1, Holding
  <2>3. Distinct(cache'[s])
    BY <2>1, <2>2, Holding
  <2>4. taint'[s] = IF reg[s] # <<>> THEN taint[s] \cup {"unsent"} ELSE taint[s]
    BY <1>1, <2>2
  <2>5. ASSUME Good(s)' PROVE reg'[s] = <<>> /\ Elems(cache'[s]) = NamesOf(s)'
    <3>1. reg[s] = <<>> /\ Good(s)
      BY <2>4, <2>5 DEF Good
    <3>2. Elems(cache[s]) = NamesOf(s)
      BY <2>1, <2>2, <3>1, Settled
    <3>3. NamesOf(s)' = NamesOf(s)
      BY DEF NamesOf
    <3> QED BY <3>1, <3>2, <3>3
  <2>6. "gone" \in {"idle", "gone"}
    OBVIOUS
  <2> QED BY <1>0, <1>1, <1>2, <1>3, <2>2, <2>3, <2>5, <2>6, ReturnCache
<1> QED BY <1>4, <1>5

LEMMA EndCache ==
  ASSUME CacheInv, NEW c \in Clients, End(c)
  PROVE  CacheInv'
<1>0. StatementInv' /\ tx \in [Servers -> {"I", "T", "E"}]
  BY TransactionStep, CacheTypes
<1>1. /\ pc[c] = "txread" /\ tx' = [tx EXCEPT ![conn[c]] = "I"] /\ Cleaned(conn[c])
      /\ pc' = [pc EXCEPT ![c] = "idle"] /\ conn' = [conn EXCEPT ![c] = None]
      /\ UNCHANGED <<out, failed, reg, lost, taint>>
  BY DEF End
<1>2. PICK s \in Servers : s = conn[c]
  BY <1>1, Holding
<1>3. /\ Distinct(cache'[s])
      /\ Elems(cache[s]) = NamesOf(s) => Elems(cache'[s]) = NamesOf(s)'
      /\ \A r \in Servers \ {s} : cache'[r] = cache[r] /\ stmts'[r] = stmts[r]
  BY <1>1, <1>2, CleanedCache
<1>4. out[c] = <<>> /\ ~failed[c]
  <2>1. "txread" # "exchange" /\ PhaseOK(c)
    BY CacheParts
  <2> QED BY <1>1, <2>1 DEF PhaseOK
<1>5. ASSUME Good(s)' PROVE reg'[s] = <<>> /\ Elems(cache'[s]) = NamesOf(s)'
  <2>1. Good(s)
    BY <1>1, <1>5 DEF Good
  <2>2. reg[s] = <<>> /\ Elems(cache[s]) = NamesOf(s)
    BY <1>1, <1>2, <1>4, <2>1, Settled
  <2> QED BY <1>1, <1>3, <2>2
<1>6. "idle" \in {"idle", "gone"} /\ \A r \in Servers \ {s} : tx'[r] = tx[r]
  BY <1>0, <1>1, <1>2
<1> QED BY <1>0, <1>1, <1>2, <1>3, <1>4, <1>5, <1>6, ReturnCache

LEMMA DoneCache ==
  ASSUME CacheInv, NEW c \in Clients, Done(c)
  PROVE  CacheInv'
<1>0. /\ StatementInv' /\ taint \in [Servers -> SUBSET Causes] /\ failed \in [Clients -> BOOLEAN]
      /\ lost \in [Clients -> [why: SUBSET Causes, ensured: BOOLEAN] \cup {None}]
      /\ pc \in [Clients -> {"idle", "drain", "exchange", "txread", "gone"}]
  BY DoneStep, CacheTypes
<1>1. /\ pc[c] = "exchange" /\ out[c] = <<>>
      /\ taint' = [taint EXCEPT ![conn[c]] =
            IF reg[conn[c]] # <<>> THEN taint[conn[c]] \cup {"skipped"} ELSE taint[conn[c]]]
      /\ failed' = [failed EXCEPT ![c] = FALSE] /\ lost' = [lost EXCEPT ![c] = None]
      /\ UNCHANGED <<out, reg, tx>>
  BY DEF Done
<1>2. PICK s \in Servers : s = conn[c]
  BY <1>1, Holding
<1>3. /\ failed'[c] = FALSE /\ lost'[c] = None
      /\ \A d \in Clients \ {c} : failed'[d] = failed[d] /\ lost'[d] = lost[d]
  BY <1>0, <1>1
<1>4. /\ taint'[s] = IF reg[s] # <<>> THEN taint[s] \cup {"skipped"} ELSE taint[s]
      /\ \A r \in Servers \ {s} : taint'[r] = taint[r]
  BY <1>0, <1>1, <1>2
<1>5. ASSUME Good(s)' PROVE Good(s) /\ reg[s] = <<>> /\ Elems(cache[s]) = NamesOf(s)
  <2>1. Good(s) /\ reg[s] = <<>>
    BY <1>4, <1>5 DEF Good
  <2> QED BY <1>1, <1>2, <2>1, Settled
<1>6. CASE /\ pc' = [pc EXCEPT ![c] = "idle"] /\ conn' = [conn EXCEPT ![c] = None]
           /\ Cleaned(s)
  <2>1. /\ Distinct(cache'[s])
        /\ Elems(cache[s]) = NamesOf(s) => Elems(cache'[s]) = NamesOf(s)'
        /\ \A r \in Servers \ {s} : cache'[r] = cache[r] /\ stmts'[r] = stmts[r]
    BY <1>6, CleanedCache
  <2>2. "idle" \in {"idle", "gone"}
    OBVIOUS
  <2> QED BY <1>0, <1>1, <1>2, <1>3, <1>4, <1>5, <1>6, <2>1, <2>2, ReturnCache
<1>7. CASE pc' = [pc EXCEPT ![c] = "txread"] /\ UNCHANGED <<conn, cache, stmts>>
  <2>1. pc'[c] = "txread" /\ \A d \in Clients \ {c} : pc'[d] = pc[d] /\ conn'[d] = conn[d]
    BY <1>0, <1>7
  <2>2. conn'[c] = s /\ conn[c] = s /\ s # None /\ Distinct(cache'[s]) /\ reg'[s] \in Seq(Nat)
    BY <1>1, <1>2, <1>7, Holding
  <2>3. PhaseOK(c)'
    BY <1>1, <1>3, <2>1 DEF PhaseOK
  <2>4. out'[c] = <<>>
    BY <1>1
  <2>5. ExactFor(s, out[c], failed[c])'
    <3>1. NamesOf(s)' = NamesOf(s)
      BY <1>7 DEF NamesOf
    <3>2. Good(s)' => Exact(cache'[s], reg'[s], NamesOf(s)', <<>>, FALSE)
      BY <1>1, <1>5, <1>7, <2>2, <3>1, NothingUnderWay
    <3> QED BY <1>3, <2>4, <3>2 DEF ExactFor
  <2>6. FoundFor(s, out[c], failed[c])'
    BY <2>4, FoundNothing DEF FoundFor
  <2>7. /\ \A r \in Servers \ {s} : /\ cache'[r] = cache[r] /\ reg'[r] = reg[r]
                                    /\ stmts'[r] = stmts[r] /\ tx'[r] = tx[r]
                                    /\ taint'[r] = taint[r]
        /\ \A d \in Clients \ {c} : /\ conn'[d] = conn[d] /\ pc'[d] = pc[d] /\ out'[d] = out[d]
                                    /\ failed'[d] = failed[d] /\ lost'[d] = lost[d]
    BY <1>1, <1>3, <1>4, <1>7, <2>1
  <2> QED BY <1>0, <1>3, <2>2, <2>3, <2>5, <2>6, <2>7, CacheFrame
<1> QED BY <1>2, <1>6, <1>7 DEF Done

\* The session of a free connection is emptied, by pgcat, a client or a new connection.
LEMMA ForgetfulCache ==
  ASSUME CacheInv, \/ \E c \in Clients : PrepareQuery(c) \/ Discard(c)
                   \/ \E s \in Servers : Reconnect(s)
  PROVE  CacheInv'
<1>0. /\ StatementInv' /\ cache \in [Servers -> Seq(Nat)] /\ reg \in [Servers -> Seq(Nat)]
      /\ stmts \in [Servers -> SUBSET Parses] /\ tx \in [Servers -> {"I", "T", "E"}]
      /\ taint \in [Servers -> SUBSET Causes]
  BY ForgetfulStep, CacheTypes
<1>1. Distinct(<<>>) /\ Elems(<<>>) = {} /\ <<>> \in Seq(Nat)
  BY SMT DEF Distinct, Elems
<1>2. ASSUME NEW c \in Clients, PrepareQuery(c) PROVE CacheInv'
  <2>1. /\ UNCHANGED <<conn, pc, out, failed, lost, reg, tx, taint>>
        /\ \E s \in Free :
             cache' = [cache EXCEPT ![s] = <<>>] /\ stmts' = [stmts EXCEPT ![s] = {}]
    BY <1>2 DEF PrepareQuery, clientVars
  <2>2. PICK s \in Free : cache' = [cache EXCEPT ![s] = <<>>] /\ stmts' = [stmts EXCEPT ![s] = {}]
    BY <2>1
  <2>3. Good(s) => reg[s] = <<>>
    BY Unheld
  <2>4. s \in Servers /\ reg[s] \in Seq(Nat)
    BY Unheld
  <2>5. /\ cache'[s] = <<>> /\ stmts'[s] = {}
        /\ \A r \in Servers \ {s} : cache'[r] = cache[r] /\ stmts'[r] = stmts[r]
    BY <1>0, <2>2, <2>4
  <2>6. ExactFor(s, <<>>, FALSE)'
    <3>1. NamesOf(s)' = {} /\ (Good(s)' <=> Good(s)) /\ reg'[s] = reg[s]
      BY <2>1, <2>5 DEF NamesOf, Good
    <3>2. Good(s)' => Exact(cache'[s], reg'[s], NamesOf(s)', <<>>, FALSE)
      BY <1>1, <2>3, <2>4, <2>5, <3>1, NothingUnderWay
    <3> QED BY <3>2 DEF ExactFor
  <2> QED BY <1>0, <1>1, <2>1, <2>4, <2>5, <2>6, ServerFrame
<1>3. ASSUME NEW c \in Clients, Discard(c) PROVE CacheInv'
  <2>1. UNCHANGED <<conn, pc, out, failed, lost, cache, reg, tx>>
    BY <1>3 DEF Discard, clientVars
  <2>2. PICK s \in Free : /\ stmts' = [stmts EXCEPT ![s] = {}]
                          /\ taint' = [taint EXCEPT ![s] = taint[s] \cup {"discarded"}]
    BY <1>3 DEF Discard
  <2>3. s \in Servers /\ Distinct(cache[s])
    BY Unheld
  <2>4. /\ taint'[s] = taint[s] \cup {"discarded"}
        /\ \A r \in Servers \ {s} : taint'[r] = taint[r] /\ stmts'[r] = stmts[r]
    BY <1>0, <2>2, <2>3
  <2>5. ~Good(s)'
    BY SMTT(30), <2>4 DEF Good
  <2>6. ExactFor(s, <<>>, FALSE)'
    BY <2>5 DEF ExactFor
  <2> QED BY <1>0, <2>1, <2>3, <2>4, <2>6, ServerFrame
<1>4. ASSUME NEW s \in Servers, Reconnect(s) PROVE CacheInv'
  <2>1. /\ s \in Free /\ UNCHANGED <<conn, pc, out, failed, lost>>
        /\ cache' = [cache EXCEPT ![s] = <<>>] /\ reg' = [reg EXCEPT ![s] = <<>>]
        /\ stmts' = [stmts EXCEPT ![s] = {}] /\ tx' = [tx EXCEPT ![s] = "I"]
        /\ taint' = [taint EXCEPT ![s] = {}]
    BY <1>4 DEF Reconnect, clientVars
  <2>2. /\ cache'[s] = <<>> /\ reg'[s] = <<>> /\ stmts'[s] = {}
        /\ \A r \in Servers \ {s} : /\ cache'[r] = cache[r] /\ reg'[r] = reg[r]
                                    /\ stmts'[r] = stmts[r] /\ tx'[r] = tx[r]
                                    /\ taint'[r] = taint[r]
    BY <1>0, <2>1
  <2>3. ExactFor(s, <<>>, FALSE)'
    <3>1. NamesOf(s)' = {}
      BY <2>2 DEF NamesOf
    <3>2. Exact(cache'[s], reg'[s], NamesOf(s)', <<>>, FALSE)
      BY <2>2, <3>1, FreshExact
    <3> QED BY <3>2 DEF ExactFor
  <2> QED BY <1>0, <1>1, <2>1, <2>2, <2>3, ServerFrame
<1> QED BY <1>2, <1>3, <1>4

LEMMA CacheNext ==
  ASSUME CacheInv, [Next]_vars
  PROVE  CacheInv'
<1>0. StatementInv /\ StatementInv'
  BY StatementNext, CacheTypes
<1>1. ASSUME UNCHANGED <<out, pc, conn, failed, lost, serverVars>> PROVE CacheInv'
  BY <1>0, <1>1, CacheStays DEF serverVars
<1>2. ASSUME NEW c \in Clients, NEW n \in Names, NEW t \in Texts, Parse(c, n, t) PROVE CacheInv'
  BY <1>1, <1>2 DEF Parse
<1>3. ASSUME NEW c \in Clients, NEW n \in Names, Bind(c, n) \/ Close(c, n) PROVE CacheInv'
  BY <1>1, <1>3 DEF Bind, Close
<1>4. ASSUME NEW c \in Clients, SyncFails(c) \/ DrainClose(c) PROVE CacheInv'
  BY <1>1, <1>4 DEF SyncFails, DrainClose
<1>5. ASSUME NEW c \in Clients, NEW n \in Names, BindUnknown(c, n) PROVE CacheInv'
  <2>1. pc[c] \in {"idle", "txread", "drain"}
    BY <1>5 DEF BindUnknown, Reads
  <2> QED BY <1>5, <2>1, GoneCache DEF BindUnknown
<1>6. ASSUME NEW c \in Clients, DrainBindUnknown(c) PROVE CacheInv'
  <2>1. pc[c] \in {"idle", "txread", "drain"}
    BY <1>6 DEF DrainBindUnknown, Drains
  <2> QED BY <1>6, <2>1, GoneCache DEF DrainBindUnknown
<1>7. CASE UNCHANGED vars
  BY <1>1, <1>7 DEF vars, serverVars
<1> QED BY <1>2, <1>3, <1>4, <1>5, <1>6, <1>7, SyncCache, DrainParseCache, DrainBindCache,
           SkipCache, AnswerParseCache, AnswerBindCache, DoneCache, BeginCache, EndCache,
           ForgetfulCache DEF Next

\* In every state the cache of a connection is that of its session, up to the Parses its
\* holder has under way (CacheInv; register_prepared_statement, recv).
THEOREM CacheInvariant == Spec => []CacheInv
<1>1. Init => CacheInv
  BY CacheInit
<1>2. CacheInv /\ [Next]_vars => CacheInv'
  BY CacheNext
<1> QED BY <1>1, <1>2, PTL DEF Spec

\* The statement cache of an idle connection none of the causes struck is exactly that of
\* its Postgres session, for every size of the cache (CacheExact;
\* register_prepared_statement, recv 'E' and '1', checkin_cleanup).
THEOREM IdleCachesExact == Spec => []CacheExact
<1>1. CacheInv => CacheExact
  <2> SUFFICES ASSUME CacheInv, NEW s \in Free, taint[s] \subseteq {"missed"}
               PROVE  Elems(cache[s]) = {p.name : p \in stmts[s]} /\ reg[s] = <<>>
    BY DEF CacheExact
  <2> QED BY Unheld DEF Good, NamesOf
<1> QED BY CacheInvariant, <1>1, PTL

\* A Bind that ensure_prepared_statement_is_on_server saw to finds its statement, on a
\* connection none of the causes struck (EnsuredFound).
THEOREM EnsuredBindsFind == Spec => []EnsuredFound
<1>1. CacheInv => EnsuredFound
  BY CacheParts
<1> QED BY CacheInvariant, <1>1, PTL
=============================================================================
