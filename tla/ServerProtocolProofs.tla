------------------------ MODULE ServerProtocolProofs ------------------------
(***************************************************************************)
(* Proofs about ServerProtocol: for any clients, parameters and simple     *)
(* replies, of any length, nothing of a reply is left behind, and the      *)
(* delivery in chunks implements Exchange.                                 *)
(***************************************************************************)
EXTENDS ServerProtocol, TLAPS

-----------------------------------------------------------------------------
(* Replies.                                                                *)

\* Postgres stops within the reply, not before where it was (Stops).
LEMMA StopsRange ==
  ASSUME NEW r \in Seq(Message), Simple(r), NEW n \in Nat, n =< Len(r)
  PROVE  Stops(r, n) \in Nat /\ n =< Stops(r, n) /\ Stops(r, n) =< Len(r)
<1> DEFINE First(i) == r[i].k = "G" /\ \A j \in (n + 1)..(i - 1) : r[j].k # "G"
<1>0. Len(r) \in Nat
  OBVIOUS
<1>1. CASE \E i \in (n + 1)..Len(r) : r[i].k = "G"
  <2>1. PICK g \in (n + 1)..Len(r) : r[g].k = "G"
    BY Zenon, <1>1
  <2>2. \A j \in (n + 1)..(g - 1) : r[j].k # "G"
    <3> SUFFICES ASSUME NEW j \in (n + 1)..(g - 1) PROVE r[j].k # "G"
      BY Zenon
    <3>1. j \in 1..Len(r) /\ g \in 1..Len(r) /\ g # j
      BY SMTT(30), <1>0, <2>1
    <3> QED BY Zenon, <2>1, <3>1 DEF Simple
  <2>3. First(g)
    BY Zenon, <2>1, <2>2
  <2>4. Stops(r, n) = CHOOSE i \in (n + 1)..Len(r) : First(i)
    BY Zenon, <1>1 DEF Stops
  <2>5. Stops(r, n) \in (n + 1)..Len(r)
    <3> HIDE DEF First
    <3> QED BY Zenon, <2>3, <2>4
  <2> QED BY <2>5, <1>0
<1>2. CASE ~ \E i \in (n + 1)..Len(r) : r[i].k = "G"
  BY <1>0, <1>2 DEF Stops
<1> QED BY Zenon, <1>1, <1>2

\* The answers to pgcat's own queries (sync_parameters, checkin_cleanup).
LEMMA OwnReplies ==
  ASSUME NEW v \in Params
  PROVE  \A r \in {<<Setting(v), Msg("CSET"), Msg("ZI")>>, <<Msg("E"), Msg("ZI")>>,
                   <<Setting(v), Msg("C"), Msg("ZI")>>} :
           WellFormed(r) /\ Simple(r) /\ Bare(r)
<1>1. /\ Setting(v) \in Message /\ Setting(v).k = "S"
      /\ \A k \in {"CSET", "ZI", "E", "C"} : Msg(k) \in Message /\ Msg(k).k = k
  BY Zenon, ConstantsAssumption DEF Setting, Msg, Message, Codes
<1> SUFFICES ASSUME NEW r \in {<<Setting(v), Msg("CSET"), Msg("ZI")>>, <<Msg("E"), Msg("ZI")>>,
                               <<Setting(v), Msg("C"), Msg("ZI")>>}
             PROVE  WellFormed(r) /\ Simple(r) /\ Bare(r)
  BY Zenon
<1> HIDE DEF Setting, Msg, Message
<1>2. CASE r = <<Msg("E"), Msg("ZI")>>
  <2>1. r \in Seq(Message) /\ Len(r) = 2 /\ r[1].k = "E" /\ r[2].k = "ZI"
    BY <1>1, <1>2
  <2>2. \A i \in 1..2 : i = 1 \/ i = 2
    OBVIOUS
  <2> QED BY <2>1, <2>2 DEF WellFormed, Simple, Bare, Ready
<1>3. CASE r # <<Msg("E"), Msg("ZI")>>
  <2>1. r \in Seq(Message) /\ Len(r) = 3 /\ r[1].k = "S" /\ r[2].k \in {"C", "CSET"} /\ r[3].k = "ZI"
    <3>1. CASE r = <<Setting(v), Msg("CSET"), Msg("ZI")>>
      BY <1>1, <3>1
    <3>2. CASE r = <<Setting(v), Msg("C"), Msg("ZI")>>
      BY <1>1, <3>2
    <3> QED BY Zenon, <1>3, <3>1, <3>2
  <2>2. \A i \in 1..3 : i = 1 \/ i = 2 \/ i = 3
    OBVIOUS
  <2> QED BY <2>1, <2>2 DEF WellFormed, Simple, Bare, Ready
<1> QED BY Zenon, <1>2, <1>3

-----------------------------------------------------------------------------
(* The invariant.                                                          *)

\* A reply that was read to its end left no flag behind (recv at ReadyForQuery).
LEMMA WholeRead ==
  ASSUME ProtocolInv, rd = Len(stream)
  PROVE  in_copy_mode = FALSE /\ data_available = FALSE
<1>1. data_available = FALSE
  BY DEF ProtocolInv, TypeOK, FlagsRight
<1>2. ~ CopyOpen(Len(stream))
  <2>1. CASE stream = <<>>
    BY <2>1 DEF CopyOpen
  <2>2. CASE stream # <<>>
    BY Zenon, <2>2 DEF ProtocolInv, CopyOpen, WellFormed
  <2> QED BY Zenon, <2>1, <2>2
<1> QED BY Zenon, <1>1, <1>2 DEF ProtocolInv, TypeOK, FlagsRight

\* A new exchange begins (Send).
LEMMA SendInv ==
  ASSUME ProtocolInv, NEW e \in {"query", "sync", "rollback", "reset"}, NEW r, Send(e, r),
         WellFormed(r), Simple(r), e = "query" \/ Bare(r), rd = Len(stream),
         UNCHANGED <<in_transaction, in_copy_mode, data_available, mine>>,
         holder' \in Clients \cup {None}
  PROVE  ProtocolInv'
<1>1. r \in Seq(Message) /\ Len(r) \in Nat
  BY DEF WellFormed
<1>2. in_copy_mode = FALSE /\ data_available = FALSE
  BY Zenon, WholeRead
<1>3. stream' = r /\ rd' = 0 /\ fw' = 0 /\ pc' = "recv" /\ ex' = e /\ sent' = Stops(r, 0)
  BY Zenon DEF Send
<1>4. sent' \in Nat /\ 0 =< sent' /\ sent' =< Len(r)
  BY <1>1, <1>3, StopsRange
<1>5. TypeOK'
  BY Zenon, <1>1, <1>3, <1>4 DEF ProtocolInv, TypeOK
<1>6. FlagsRight'
  BY <1>2, <1>3 DEF FlagsRight, CopyOpen
<1> QED BY SMTT(30), <1>3, <1>4, <1>5, <1>6 DEF ProtocolInv

\* checkin_cleanup: a query of pgcat's own, or the pool.
LEMMA CheckinInv ==
  ASSUME ProtocolInv, Checkin, rd = Len(stream), fw = rd, pc \in {"told", "held"},
         UNCHANGED <<in_transaction, in_copy_mode, data_available, mine>>
  PROVE  ProtocolInv'
<1>1. CASE in_transaction
  <2>1. PICK v \in Params : Send("rollback", <<Setting(v), Msg("C"), Msg("ZI")>>)
    BY Zenon, <1>1 DEF Checkin
  <2>2. holder' \in Clients \cup {None}
    BY Zenon, <1>1 DEF Checkin, ProtocolInv, TypeOK
  <2> QED BY Zenon, <2>1, <2>2, OwnReplies, SendInv
<1>2. CASE ~in_transaction /\ needs_set
  <2>1. Send("reset", <<Setting(Default), Msg("C"), Msg("ZI")>>)
    BY Zenon, <1>2 DEF Checkin
  <2>2. holder' \in Clients \cup {None}
    BY Zenon, <1>2 DEF Checkin, ProtocolInv, TypeOK
  <2> QED BY Zenon, <2>1, <2>2, OwnReplies, SendInv, ConstantsAssumption
<1>3. CASE ~in_transaction /\ ~needs_set
  <2>1. pc' = "pool" /\ holder' = None /\ UNCHANGED <<ex, stream, sent, rd, fw>>
    BY Zenon, <1>3 DEF Checkin
  <2>2. TypeOK' /\ FlagsRight'
    BY <2>1 DEF ProtocolInv, TypeOK, FlagsRight, CopyOpen
  <2> QED BY Zenon, <2>1, <2>2 DEF ProtocolInv
<1> QED BY Zenon, <1>1, <1>2, <1>3

\* Only the state of the caller changes.
LEMMA StaysInv ==
  ASSUME ProtocolInv, pc' \in {"held", "recv", "pool"}, holder' \in Clients \cup {None},
         UNCHANGED <<ex, stream, sent, rd, fw, in_transaction, in_copy_mode, data_available, mine>>,
         pc' \in {"held", "pool"} => fw = rd,
         pc' = "held" => rd = Len(stream) \/ (rd > 0 /\ stream[rd].k = "G"),
         pc' = "pool" => rd = Len(stream)
  PROVE  ProtocolInv'
<1>1. TypeOK' /\ FlagsRight'
  BY DEF ProtocolInv, TypeOK, FlagsRight, CopyOpen
<1>2. pc' \notin {"dead", "chunk", "told"}
  BY Zenon
<1> QED BY Zenon, <1>1, <1>2 DEF ProtocolInv

\* recv reads a message.
LEMMA ReadInv ==
  ASSUME ProtocolInv, Read
  PROVE  ProtocolInv'
<1> DEFINE m == stream[rd + 1]
<1>1. rd + 1 \in 1..Len(stream) /\ stream # <<>> /\ rd \in Nat /\ Len(stream) \in Nat
  BY SMTT(30) DEF Read, ProtocolInv, TypeOK
<1>2. m \in Message
  BY <1>1 DEF ProtocolInv, TypeOK
<1>3. /\ rd' = rd + 1 /\ pc' \in {"recv", "chunk"}
      /\ UNCHANGED <<ex, holder, stream, sent, fw>>
      /\ pc' = "chunk" => m.k \in Ready \cup {"G", "H", "D", "d"}
  BY Zenon DEF Read
<1>4. recv_flags(m) /\ ParameterStatus(m)
  BY Zenon DEF Read
<1>5. mine' \in [Clients -> Params]
  BY Zenon, <1>2, <1>4 DEF ProtocolInv, TypeOK, ParameterStatus, Message
<1>6. in_transaction' \in BOOLEAN /\ in_copy_mode' \in BOOLEAN /\ data_available' \in BOOLEAN
  BY Zenon, <1>4 DEF recv_flags, more_data, ProtocolInv, TypeOK
<1>7. TypeOK'
  BY SMTT(30), <1>1, <1>3, <1>5, <1>6 DEF ProtocolInv, TypeOK
<1>8. m.k \in Ready <=> rd + 1 = Len(stream)
  BY Zenon, <1>1 DEF ProtocolInv, WellFormed
<1>9. in_copy_mode' <=> CopyOpen(rd + 1)
  <2>1. CASE m.k \in {"G", "H"}
    BY SMTT(30), <1>1, <1>4, <2>1 DEF CopyOpen, recv_flags
  <2>2. CASE m.k \in CopyEnds
    BY SMTT(30), <1>1, <1>4, <2>2 DEF CopyOpen, recv_flags, CopyEnds
  <2>3. CASE m.k \notin {"G", "H"} \cup CopyEnds
    <3>1. in_copy_mode' = in_copy_mode
      BY Zenon, <1>4, <2>3 DEF recv_flags
    <3>2. CopyOpen(rd) => CopyOpen(rd + 1)
      BY <1>1, <2>3 DEF CopyOpen
    <3>3. CopyOpen(rd + 1) => CopyOpen(rd)
      BY SMTT(30), <1>1, <2>3 DEF CopyOpen
    <3> QED BY Zenon, <3>1, <3>2, <3>3 DEF ProtocolInv, FlagsRight
  <2> QED BY Zenon, <2>1, <2>2, <2>3
<1>10. data_available' <=> rd + 1 < Len(stream) /\ \E i \in 1..(rd + 1) : stream[i].k \in {"D", "H"}
  <2>1. data_available' <=> m.k \notin Ready /\ (m.k \in {"D", "H"} \/ data_available)
    BY Zenon, <1>4 DEF recv_flags, more_data
  <2>2. data_available <=> \E i \in 1..rd : stream[i].k \in {"D", "H"}
    BY <1>1 DEF ProtocolInv, FlagsRight
  <2>3. (\E i \in 1..(rd + 1) : stream[i].k \in {"D", "H"})
        <=> m.k \in {"D", "H"} \/ \E i \in 1..rd : stream[i].k \in {"D", "H"}
    BY <1>1
  <2> QED BY <1>1, <1>8, <2>1, <2>2, <2>3
<1>11. FlagsRight'
  <2>1. CopyOpen(rd)' <=> CopyOpen(rd + 1)
    BY Zenon, <1>3 DEF CopyOpen
  <2> QED BY Zenon, <1>3, <1>9, <1>10, <2>1 DEF FlagsRight
<1>12. fw' < rd' /\ fw' =< rd' /\ rd' =< sent' /\ sent' =< Len(stream') /\ rd' > 0
  BY <1>1, <1>3 DEF Read, ProtocolInv, TypeOK
<1>13. (ex = "copydone" => \E i \in 1..rd : /\ stream[i].k = "G"
                                            /\ pc \in {"chunk", "told"} => i < rd)'
  <2> SUFFICES ASSUME ex' = "copydone" PROVE \E i \in 1..(rd + 1) : stream[i].k = "G" /\ i < rd + 1
    BY Zenon, <1>3
  <2>1. PICK i \in 1..rd : stream[i].k = "G"
    BY Zenon, <1>3 DEF ProtocolInv
  <2> QED BY <1>1, <2>1
<1>14. (pc \in {"chunk", "told"} => rd > 0 /\ stream[rd].k \in Ready \cup {"G", "H", "D", "d"})'
  BY Zenon, <1>3, <1>12
<1>15. /\ (stream # <<>> => WellFormed(stream) /\ Simple(stream))'
       /\ (ex \notin {"query", "copydone"} => Bare(stream))'
  BY Zenon, <1>3 DEF ProtocolInv
<1>16. pc' \notin {"dead", "pool", "held", "told"}
  BY Zenon, <1>3
<1>17. (pc = "dead" => stream = <<>>)' /\ (pc = "pool" => rd = Len(stream) /\ fw = rd)'
       /\ (pc = "held" => fw = rd /\ (rd = Len(stream) \/ (rd > 0 /\ stream[rd].k = "G")))'
       /\ (pc = "chunk" => fw < rd)' /\ (pc = "told" => fw = rd)'
  BY Zenon, <1>12, <1>16
<1>18. (fw =< rd /\ rd =< sent /\ sent =< Len(stream))'
  BY Zenon, <1>12
<1> QED BY Zenon, <1>7, <1>11, <1>13, <1>14, <1>15, <1>17, <1>18, Zenon DEF ProtocolInv

\* Between two exchanges the reply is over, or a COPY FROM STDIN waits for data.
LEMMA HeldRead ==
  ASSUME ProtocolInv, pc = "held"
  PROVE  in_copy_mode = FALSE => rd = Len(stream)
<1> SUFFICES ASSUME rd # Len(stream) PROVE in_copy_mode = TRUE
  BY Zenon
<1>1. rd \in Nat /\ rd > 0 /\ stream[rd].k = "G"
  BY Zenon DEF ProtocolInv, TypeOK
<1>2. CopyOpen(rd)
  BY <1>1 DEF CopyOpen
<1> QED BY Zenon, <1>2 DEF ProtocolInv, FlagsRight, TypeOK

\* When recv's caller does not come back, the reply is over, or a COPY FROM STDIN
\* waits for data (After).
LEMMA ToldRead ==
  ASSUME ProtocolInv, pc = "told", ~More
  PROVE  rd = Len(stream) \/ (ex = "query" /\ in_copy_mode = TRUE /\ rd > 0 /\ stream[rd].k = "G")
<1> SUFFICES ASSUME rd # Len(stream)
             PROVE  ex = "query" /\ in_copy_mode = TRUE /\ rd > 0 /\ stream[rd].k = "G"
  BY Zenon
<1>1. rd \in Nat /\ rd > 0 /\ rd < Len(stream) /\ Len(stream) \in Nat /\ stream # <<>>
  BY SMTT(30) DEF ProtocolInv, TypeOK
<1>2. stream[rd].k \in {"G", "H", "D", "d"}
  BY <1>1 DEF ProtocolInv, WellFormed
<1>3. ex # "copydone"
  <2> SUFFICES ASSUME ex = "copydone" PROVE FALSE
    BY Zenon
  <2>1. PICK i \in 1..rd : stream[i].k = "G" /\ i < rd
    BY Zenon DEF ProtocolInv
  <2>2. i \in 1..Len(stream) /\ rd \in 1..Len(stream) /\ i # rd
    BY <1>1, <2>1
  <2> QED BY Zenon, <1>1, <1>2, <2>1, <2>2 DEF ProtocolInv, Simple
<1>4. data_available = FALSE
  BY Zenon, <1>3 DEF More, ProtocolInv, TypeOK
<1>5. \A i \in 1..rd : stream[i].k \notin {"D", "H"}
  BY Zenon, <1>1, <1>4 DEF ProtocolInv, FlagsRight
<1>6. stream[rd].k # "d"
  <2> SUFFICES ASSUME stream[rd].k = "d" PROVE FALSE
    BY Zenon
  <2>1. PICK j \in 1..rd : stream[j].k = "H"
    BY <1>1 DEF ProtocolInv, WellFormed
  <2> QED BY Zenon, <1>5, <2>1
<1>7. stream[rd].k = "G"
  BY SMTT(30), <1>1, <1>2, <1>5, <1>6
<1>8. CopyOpen(rd)
  BY SMTT(30), <1>1, <1>7 DEF CopyOpen
<1>9. ex = "query"
  BY SMTT(60), <1>1, <1>3, <1>7 DEF ProtocolInv, Bare, TypeOK
<1> QED BY Zenon, <1>1, <1>7, <1>8, <1>9 DEF ProtocolInv, FlagsRight, TypeOK

\* After recv.
LEMMA AfterInv ==
  ASSUME ProtocolInv, After
  PROVE  ProtocolInv'
<1>0. /\ pc = "told" /\ fw = rd
      /\ UNCHANGED <<in_transaction, in_copy_mode, data_available, mine>>
      /\ holder \in Clients \cup {None}
  BY Zenon DEF After, ProtocolInv, TypeOK
<1>1. CASE More
  <2>1. pc' = "recv" /\ UNCHANGED <<ex, holder, stream, sent, rd, fw>>
    BY Zenon, <1>1 DEF After
  <2> QED BY Zenon, <1>0, <2>1, StaysInv
<1>2. CASE ~More /\ ex \in {"query", "copydone"}
  <2>1. (Checkin /\ (in_copy_mode = FALSE \/ ex = "copydone")) \/ Stays
    <3>1. CASE ex = "query"
      <4>1. IF ~in_transaction /\ ~in_copy_mode THEN Checkin ELSE Stays
        BY Zenon, <1>2, <3>1 DEF After
      <4> QED BY Zenon, <4>1 DEF ProtocolInv, TypeOK
    <3>2. CASE ex = "copydone"
      <4>1. IF ~in_transaction THEN Checkin ELSE Stays
        BY Zenon, <1>2, <3>2 DEF After
      <4> QED BY Zenon, <3>2, <4>1
    <3> QED BY Zenon, <1>2, <3>1, <3>2
  <2>2. rd = Len(stream) \/ (ex = "query" /\ in_copy_mode = TRUE /\ rd > 0 /\ stream[rd].k = "G")
    BY Zenon, <1>0, <1>2, ToldRead
  <2>3. CASE Stays
    <3>1. pc' = "held" /\ UNCHANGED <<ex, holder, stream, sent, rd, fw>>
      BY Zenon, <2>3 DEF Stays
    <3> QED BY Zenon, <1>0, <2>2, <3>1, StaysInv
  <2>4. CASE Checkin /\ (in_copy_mode = FALSE \/ ex = "copydone")
    <3>1. rd = Len(stream)
      BY Zenon, <2>2, <2>4
    <3> QED BY Zenon, <1>0, <2>4, <3>1, CheckinInv
  <2> QED BY Zenon, <2>1, <2>3, <2>4
<1>3. CASE ~More /\ ex \notin {"query", "copydone"}
  <2>1. rd = Len(stream)
    BY Zenon, <1>0, <1>3, ToldRead
  <2>2. CASE ex = "rollback"
    <3>1. Checkin
      BY Zenon, <1>3, <2>2 DEF After
    <3> QED BY Zenon, <1>0, <2>1, <3>1, CheckinInv
  <2>3. CASE ex \in {"sync", "reset"}
    <3>1. /\ pc' \in {"held", "pool"} /\ holder' \in {holder, None}
          /\ UNCHANGED <<ex, stream, sent, rd, fw>>
      BY Zenon, <1>3, <2>3 DEF After
    <3> QED BY Zenon, <1>0, <2>1, <3>1, StaysInv
  <2> QED BY Zenon, <1>3, <2>2, <2>3 DEF ProtocolInv, TypeOK
<1> QED BY Zenon, <1>1, <1>2, <1>3 DEF ProtocolInv, TypeOK

\* Checkout, with or without a SET.
LEMMA CheckoutInv ==
  ASSUME ProtocolInv, NEW c \in Clients, Checkout(c)
  PROVE  ProtocolInv'
<1>1. /\ pc = "pool" /\ rd = Len(stream) /\ fw = rd /\ holder' = c
      /\ UNCHANGED <<in_transaction, in_copy_mode, data_available, mine>>
      /\ mine[c] \in Params
  BY Zenon DEF Checkout, flags, ProtocolInv, TypeOK
<1>2. CASE pc' = "held" /\ UNCHANGED <<ex, stream, sent, rd, fw>>
  BY Zenon, <1>1, <1>2, StaysInv
<1>3. CASE Send("sync", <<Setting(mine[c]), Msg("CSET"), Msg("ZI")>>)
  BY Zenon, <1>1, <1>3, OwnReplies, SendInv
<1>4. CASE Send("sync", <<Msg("E"), Msg("ZI")>>)
  BY Zenon, <1>1, <1>4, OwnReplies, SendInv
<1> QED BY Zenon, <1>2, <1>3, <1>4 DEF Checkout

\* A client's query.
LEMMA QueryInv ==
  ASSUME ProtocolInv, SimpleReplies, Query
  PROVE  ProtocolInv'
<1>1. /\ pc = "held" /\ in_copy_mode = FALSE
      /\ UNCHANGED <<holder, in_transaction, in_copy_mode, data_available, mine>>
      /\ holder \in Clients \cup {None}
  BY Zenon DEF Query, flags, ProtocolInv, TypeOK
<1>2. PICK r \in Replies : Send("query", r)
  BY Zenon DEF Query
<1>3. WellFormed(r) /\ Simple(r)
  BY Zenon, ConstantsAssumption DEF SimpleReplies
<1>4. rd = Len(stream)
  BY Zenon, <1>1, HeldRead
<1> QED BY Zenon, <1>1, <1>2, <1>3, <1>4, SendInv

\* The end of COPY FROM STDIN.
LEMMA CopyDoneInv ==
  ASSUME ProtocolInv, CopyDone
  PROVE  ProtocolInv'
<1>1. /\ pc = "held" /\ in_copy_mode = TRUE /\ pc' = "recv" /\ ex' = "copydone"
      /\ sent' = Stops(stream, sent)
      /\ UNCHANGED <<holder, stream, rd, fw, in_transaction, in_copy_mode, data_available, mine>>
  BY Zenon DEF CopyDone, flags, params, ProtocolInv, TypeOK
<1>2. rd # Len(stream)
  BY Zenon, <1>1, WholeRead
<1>3. rd \in Nat /\ rd > 0 /\ stream[rd].k = "G" /\ stream # <<>> /\ sent \in Nat /\ sent =< Len(stream)
  BY SMTT(30), <1>1, <1>2 DEF ProtocolInv, TypeOK
<1>4. sent' \in Nat /\ sent =< sent' /\ sent' =< Len(stream)
  BY Zenon, <1>1, <1>3, StopsRange DEF ProtocolInv, TypeOK
<1>5. TypeOK' /\ FlagsRight'
  BY Zenon, <1>1, <1>4 DEF ProtocolInv, TypeOK, FlagsRight, CopyOpen
<1>6. rd' =< sent'
  BY SMTT(60), <1>1, <1>3, <1>4 DEF ProtocolInv
<1> QED BY SMTT(30), <1>1, <1>3, <1>4, <1>5, <1>6 DEF ProtocolInv

\* A chunk goes to the client.
LEMMA ForwardInv ==
  ASSUME ProtocolInv, Forward
  PROVE  ProtocolInv'
<1>1. /\ pc = "chunk" /\ pc' = "told" /\ fw' = rd /\ rd \in Nat
      /\ UNCHANGED <<ex, holder, stream, sent, rd, in_transaction, in_copy_mode, data_available, mine>>
  BY Zenon DEF Forward, flags, params, ProtocolInv, TypeOK
<1>2. TypeOK' /\ FlagsRight'
  BY ZenonT(60), <1>1 DEF ProtocolInv, TypeOK, FlagsRight, CopyOpen
<1> QED BY SMTT(60), <1>1, <1>2 DEF ProtocolInv

\* The client leaves between two exchanges.
LEMMA TerminateInv ==
  ASSUME ProtocolInv, Terminate
  PROVE  ProtocolInv'
<1>1. /\ pc = "held" /\ fw = rd /\ in_copy_mode = FALSE /\ Checkin
      /\ UNCHANGED <<in_transaction, in_copy_mode, data_available, mine>>
  BY Zenon DEF Terminate, ProtocolInv, TypeOK
<1>2. rd = Len(stream)
  BY Zenon, <1>1, HeldRead
<1> QED BY Zenon, <1>1, <1>2, CheckinInv

\* A new or a dropped connection has read nothing.
LEMMA NothingRead ==
  ASSUME pc' \in {"dead", "pool"}, ex' = "query", holder' \in Clients \cup {None},
         stream' = <<>>, sent' = 0, rd' = 0, fw' = 0,
         in_transaction' = FALSE, in_copy_mode' = FALSE, data_available' = FALSE,
         mine' \in [Clients -> Params]
  PROVE  ProtocolInv'
<1>1. FlagsRight'
  <2>1. 1..rd' = {} /\ Len(stream') = 0
    OBVIOUS
  <2>2. ~ CopyOpen(rd)'
    BY Zenon, <2>1 DEF CopyOpen
  <2> QED BY Zenon, <2>1, <2>2 DEF FlagsRight
<1>2. TypeOK'
  <2>1. stream' \in Seq(Message)
    OBVIOUS
  <2> QED BY Zenon, <2>1 DEF TypeOK
<1> QED BY <1>1, <1>2 DEF ProtocolInv

\* The invariant holds in every step.
LEMMA NextInv ==
  ASSUME ProtocolInv, SimpleReplies, [Next]_vars
  PROVE  ProtocolInv'
<1>1. CASE \E c \in Clients : Checkout(c)
  BY Zenon, <1>1, CheckoutInv, Zenon
<1>2. CASE Query
  BY Zenon, <1>2, QueryInv
<1>3. CASE CopyDone
  BY Zenon, <1>3, CopyDoneInv
<1>4. CASE Read
  BY Zenon, <1>4, ReadInv
<1>5. CASE Forward
  BY Zenon, <1>5, ForwardInv
<1>6. CASE After
  BY Zenon, <1>6, AfterInv
<1>7. CASE Terminate
  BY Zenon, <1>7, TerminateInv
<1>8. CASE Fails
  <2>1. /\ pc' = "dead" /\ ex' = "query" /\ holder' = None /\ mine' = mine
        /\ stream' = <<>> /\ sent' = 0 /\ rd' = 0 /\ fw' = 0
        /\ in_transaction' = FALSE /\ in_copy_mode' = FALSE /\ data_available' = FALSE
    BY Zenon, <1>8 DEF Fails
  <2>2. mine \in [Clients -> Params]
    BY Zenon DEF ProtocolInv, TypeOK
  <2> QED BY Zenon, <2>1, <2>2, NothingRead
<1>9. CASE Startup \/ UNCHANGED vars
  <2>1. UNCHANGED <<pc, ex, holder, stream, sent, rd, fw, in_transaction, in_copy_mode,
                    data_available, mine>>
    BY Zenon, <1>9 DEF Startup, vars, flags, params
  <2>2. TypeOK' /\ FlagsRight'
    BY SMTT(60), <2>1 DEF ProtocolInv, TypeOK, FlagsRight, CopyOpen
  <2> QED BY ZenonT(60), <2>1, <2>2 DEF ProtocolInv
<1>10. CASE Reconnect
  <2>1. /\ pc = "dead" /\ pc' = "pool"
        /\ UNCHANGED <<ex, holder, stream, sent, rd, fw, in_transaction, in_copy_mode,
                       data_available, mine>>
    BY ZenonT(60), <1>10 DEF Reconnect, flags
  <2>2. stream = <<>> /\ rd = 0 /\ fw = 0
    BY SMTT(30), <2>1 DEF ProtocolInv, TypeOK
  <2> QED BY Zenon, <2>1, <2>2, StaysInv DEF ProtocolInv, TypeOK
<1> QED BY Zenon, <1>1, <1>2, <1>3, <1>4, <1>5, <1>6, <1>7, <1>8, <1>9, <1>10 DEF Next

LEMMA InitInv ==
  Init => ProtocolInv
<1> SUFFICES ASSUME Init PROVE ProtocolInv
  BY Zenon
<1>1. FlagsRight
  <2>1. 1..rd = {} /\ Len(stream) = 0
    BY DEF Init
  <2>2. ~ CopyOpen(rd)
    BY Zenon, <2>1 DEF CopyOpen
  <2> QED BY Zenon, <2>1, <2>2 DEF FlagsRight, Init
<1>2. TypeOK
  <2>1. stream \in Seq(Message)
    BY DEF Init
  <2> QED BY Zenon, <2>1 DEF TypeOK, Init
<1> QED BY SMTT(30), <1>1, <1>2 DEF Init, ProtocolInv

-----------------------------------------------------------------------------
(* The theorems.                                                           *)

\* For every set of simple replies: what the flags of struct Server mean, and how
\* far a reply was read and forwarded, in every state (Server::recv and its callers).
THEOREM ProtocolInvariant ==
  SimpleReplies => (Spec => []ProtocolInv)
<1> SUFFICES ASSUME SimpleReplies PROVE Spec => []ProtocolInv
  BY Zenon
<1>1. ProtocolInv /\ [Next]_vars => ProtocolInv'
  BY Zenon, NextInv
<1> QED BY InitInv, <1>1, PTL DEF Spec

\* Between two exchanges, and in the pool, no message of a simple reply is left
\* (Server::recv, send_and_receive_loop and the 'c' arm).
THEOREM NothingIsLeft ==
  SimpleReplies => (Spec => []NothingLeft)
<1> SUFFICES ASSUME SimpleReplies PROVE Spec => []NothingLeft
  BY Zenon
<1>1. ProtocolInv => NothingLeft
  BY Zenon, HeldRead DEF NothingLeft, ProtocolInv, TypeOK
<1> QED BY ProtocolInvariant, <1>1, PTL

-----------------------------------------------------------------------------
(* The refinement.                                                         *)

\* Nothing changes for Exchange.
LEMMA Stutters ==
  ASSUME (pc' # "dead") = (pc # "dead"), open' = open, open => UNCHANGED <<stream, fw>>
  PROVE  UNCHANGED E!vars
BY Zenon DEF E!vars

\* What the client was told is the whole reply when the exchange is over.
LEMMA Finishes ==
  ASSUME ProtocolInv, pc # "dead", pc' # "dead", open = TRUE, open' = FALSE,
         fw = Len(stream)
  PROVE  E!Finish
BY Zenon DEF E!Finish, E!Closed

\* checkin_cleanup leaves no exchange of a client open.
LEMMA CheckinCloses ==
  ASSUME Checkin
  PROVE  open' = FALSE /\ pc' # "dead"
BY Zenon DEF Checkin, Send, open, busy

LEMMA AfterRefines ==
  ASSUME ProtocolInv, After
  PROVE  [E!Next]_(E!vars)
<1>0. /\ pc = "told" /\ fw = rd /\ busy
      /\ UNCHANGED <<in_transaction, in_copy_mode, data_available>>
  BY Zenon DEF After, ProtocolInv, busy
<1>1. CASE More
  <2>1. pc' = "recv" /\ UNCHANGED <<ex, stream, fw>>
    BY Zenon, <1>1 DEF After
  <2>2. open' = open
    BY Zenon, <1>0, <2>1 DEF open, busy
  <2> QED BY Zenon, <1>0, <2>1, <2>2, Stutters
<1>2. CASE ~More /\ ex \in {"query", "copydone"}
  <2>0. open = TRUE
    BY Zenon, <1>0, <1>2 DEF open
  <2>1. Checkin \/ Stays
    BY Zenon, <1>2 DEF After
  <2>2. rd = Len(stream) \/ (ex = "query" /\ in_copy_mode = TRUE)
    BY Zenon, <1>0, <1>2, ToldRead
  <2>3. CASE rd # Len(stream)
    <3>1. ex = "query" /\ in_copy_mode = TRUE
      BY Zenon, <2>2, <2>3
    <3>2. Stays
      BY Zenon, <1>2, <3>1 DEF After
    <3>3. pc' = "held" /\ UNCHANGED <<ex, stream, fw>>
      BY Zenon, <3>2 DEF Stays
    <3>4. open' = TRUE
      BY Zenon, <1>0, <3>1, <3>3 DEF open, busy
    <3> QED BY Zenon, <1>0, <2>0, <3>3, <3>4, Stutters
  <2>4. CASE rd = Len(stream)
    <3>1. open' = FALSE /\ pc' # "dead"
      <4>1. CASE Checkin
        BY Zenon, <4>1, CheckinCloses
      <4>2. CASE Stays
        <5>1. in_copy_mode = FALSE
          BY Zenon, <2>4, WholeRead
        <5> QED BY Zenon, <1>0, <4>2, <5>1 DEF Stays, open, busy
      <4> QED BY Zenon, <2>1, <4>1, <4>2
    <3>2. E!Finish
      BY Zenon, <1>0, <2>0, <2>4, <3>1, Finishes
    <3> QED BY Zenon, <3>2 DEF E!Next
  <2> QED BY Zenon, <2>3, <2>4
<1>3. CASE ~More /\ ex \notin {"query", "copydone"}
  <2>1. open = FALSE
    BY Zenon, <1>3 DEF open
  <2>2. rd = Len(stream)
    BY Zenon, <1>0, <1>3, ToldRead
  <2>3. in_copy_mode = FALSE
    BY Zenon, <2>2, WholeRead
  <2>4. open' = FALSE /\ pc' # "dead"
    <3>1. CASE Checkin
      BY Zenon, <3>1, CheckinCloses
    <3>2. CASE pc' \in {"held", "pool"}
      BY Zenon, <1>0, <2>3, <3>2 DEF open, busy
    <3> QED BY Zenon, <1>3, <3>1, <3>2 DEF After
  <2> QED BY Zenon, <1>0, <2>1, <2>4, Stutters
<1> QED BY Zenon, <1>1, <1>2, <1>3

LEMMA StepRefines ==
  ASSUME ProtocolInv, [Next]_vars
  PROVE  [E!Next]_(E!vars)
<1>1. CASE \E c \in Clients : Checkout(c)
  <2>1. PICK c \in Clients : Checkout(c)
    BY Zenon, <1>1
  <2>2. pc = "pool" /\ rd = Len(stream) /\ UNCHANGED in_copy_mode
    BY Zenon, <2>1 DEF Checkout, flags, ProtocolInv
  <2>3. in_copy_mode = FALSE
    BY Zenon, <2>2, WholeRead
  <2>4. pc' = "held" \/ (pc' = "recv" /\ ex' = "sync")
    BY Zenon, <2>1 DEF Checkout, Send
  <2>5. open = FALSE /\ open' = FALSE
    BY Zenon, <2>2, <2>3, <2>4 DEF open, busy
  <2> QED BY Zenon, <2>2, <2>4, <2>5, Stutters
<1>2. CASE Query
  <2>1. PICK r \in Replies : Send("query", r)
    BY Zenon, <1>2 DEF Query
  <2>2. pc = "held" /\ ~in_copy_mode /\ pc' = "recv" /\ ex' = "query" /\ stream' = r /\ fw' = 0
    BY Zenon, <1>2, <2>1 DEF Query, Send
  <2>3. open = FALSE /\ open' = TRUE
    BY Zenon, <2>2 DEF open, busy
  <2>4. E!Ask
    BY Zenon, <2>2, <2>3 DEF E!Ask
  <2> QED BY Zenon, <2>4 DEF E!Next
<1>3. CASE CopyDone
  <2>1. /\ pc = "held" /\ in_copy_mode /\ pc' = "recv" /\ ex' = "copydone"
        /\ UNCHANGED <<stream, fw>>
    BY Zenon, <1>3 DEF CopyDone
  <2>2. ex \in {"query", "copydone"}
    <3>1. rd # Len(stream)
      BY Zenon, <2>1, WholeRead
    <3>2. rd \in 1..Len(stream) /\ stream[rd].k = "G"
      BY SMTT(30), <2>1, <3>1 DEF ProtocolInv, TypeOK
    <3> QED BY Zenon, <3>2 DEF ProtocolInv, Bare
  <2>3. open = TRUE /\ open' = TRUE
    BY Zenon, <2>1, <2>2 DEF open, busy
  <2> QED BY Zenon, <2>1, <2>3, Stutters
<1>4. CASE Read
  <2>1. pc = "recv" /\ pc' \in {"recv", "chunk"} /\ UNCHANGED <<ex, stream, fw>>
    BY Zenon, <1>4 DEF Read
  <2>2. open' = open
    BY Zenon, <2>1 DEF open, busy
  <2> QED BY Zenon, <2>1, <2>2, Stutters
<1>5. CASE Forward
  <2>1. pc = "chunk" /\ pc' = "told" /\ fw' = rd /\ UNCHANGED <<ex, stream>>
    BY Zenon, <1>5 DEF Forward
  <2>2. open' = open
    BY Zenon, <2>1 DEF open, busy
  <2>3. CASE open
    <3>1. fw < fw' /\ fw' =< Len(stream)
      BY SMTT(30), <2>1 DEF ProtocolInv, TypeOK
    <3>2. E!Tell
      BY Zenon, <2>1, <2>2, <2>3, <3>1 DEF E!Tell
    <3> QED BY Zenon, <3>2 DEF E!Next
  <2>4. CASE ~open
    BY Zenon, <2>1, <2>2, <2>4, Stutters
  <2> QED BY Zenon, <2>3, <2>4
<1>6. CASE After
  BY Zenon, <1>6, AfterRefines
<1>7. CASE Terminate
  <2>1. pc = "held" /\ ~in_copy_mode /\ Checkin
    BY Zenon, <1>7 DEF Terminate
  <2>2. open = FALSE /\ open' = FALSE /\ pc' # "dead"
    BY Zenon, <2>1, CheckinCloses DEF open, busy
  <2> QED BY Zenon, <2>1, <2>2, Stutters
<1>8. CASE Fails
  <2>1. pc' = "dead" /\ open' = FALSE
    BY Zenon, <1>8 DEF Fails, open, busy
  <2>2. E!GiveUp
    BY Zenon, <2>1 DEF E!GiveUp, E!Closed
  <2> QED BY Zenon, <2>2 DEF E!Next
<1>9. CASE Startup \/ UNCHANGED vars
  <2>1. UNCHANGED <<pc, ex, stream, fw, in_copy_mode>>
    BY Zenon, <1>9 DEF Startup, vars, flags
  <2>2. open' = open
    BY Zenon, <2>1 DEF open, busy
  <2> QED BY Zenon, <2>1, <2>2, Stutters
<1>10. CASE Reconnect
  <2>1. pc = "dead" /\ pc' = "pool"
    BY Zenon, <1>10 DEF Reconnect
  <2>2. open = FALSE /\ open' = FALSE
    BY Zenon, <2>1 DEF open, busy
  <2>3. E!Renew
    BY Zenon, <2>1, <2>2 DEF E!Renew
  <2> QED BY Zenon, <2>3 DEF E!Next
<1> QED BY Zenon, <1>1, <1>2, <1>3, <1>4, <1>5, <1>6, <1>7, <1>8, <1>9, <1>10 DEF Next

\* The delivery in chunks implements the exchange of whole replies: a client is told
\* every message of a simple reply in order and once, and nobody asks before it
\* was told all (Server::recv and its callers in client.rs).
THEOREM ChunksImplementExchange ==
  SimpleReplies => (Spec => ImplementsExchange)
<1> SUFFICES ASSUME SimpleReplies PROVE Spec => ImplementsExchange
  BY Zenon
<1>1. Init => E!Init
  BY Zenon DEF Init, E!Init, open, busy
<1>2. ProtocolInv /\ [Next]_vars => [E!Next]_(E!vars)
  BY Zenon, StepRefines
<1> QED BY ProtocolInvariant, <1>1, <1>2, PTL DEF Spec, ImplementsExchange, E!Spec

-----------------------------------------------------------------------------
(* The login.                                                              *)

\* The messages of the backend (external).
LEMMA Messages ==
  ASSUME pid \in Pids
  PROVE  /\ \A c \in {"R", "S", "K", "Z", "E", "N"} :
              /\ Plainly(c) \in StartupMessage /\ Plainly(c).code = c
              /\ Plainly(c).num = pid
         /\ \A n \in Names :
              /\ Status(n) \in StartupMessage /\ Status(n).code = "S"
              /\ Status(n).name = n /\ Status(n).val = Default
         /\ \A a \in {"ok", "md5", "sasl", "continue", "final", "other"} :
              /\ Auth(a) \in StartupMessage /\ Auth(a).code = "R" /\ Auth(a).auth = a
<1>1. Default \in Params
  BY Zenon, ConstantsAssumption
<1>2. "tracked" \in Names
  BY Zenon DEF Names
<1>3. <<>> \in {<<>>} \cup {signature(Secret, conversation(p)) : p \in Pids}
  BY Zenon
<1>4. \A c \in {"R", "S", "K", "Z", "E", "N"} :
        /\ Plainly(c) \in StartupMessage /\ Plainly(c).code = c /\ Plainly(c).num = pid
  BY Zenon, <1>1, <1>2, <1>3 DEF Plainly, StartupMessage
<1>5. \A n \in Names :
        /\ Status(n) \in StartupMessage /\ Status(n).code = "S"
        /\ Status(n).name = n /\ Status(n).val = Default
  BY Zenon, <1>1, <1>2, <1>3 DEF Status, Plainly, StartupMessage
<1>6. \A a \in {"ok", "md5", "sasl", "continue", "final", "other"} :
        /\ Auth(a) \in StartupMessage /\ Auth(a).code = "R" /\ Auth(a).auth = a
  BY Zenon, <1>1, <1>2, <1>3 DEF Auth, Plainly, StartupMessage
<1> QED BY Zenon, <1>4, <1>5, <1>6

\* The backend speaks.
LEMMA BackendLogin ==
  ASSUME LoginInv, BackendHello \/ BackendReply
  PROVE  Remaining' /\ UNCHANGED <<login, parameters, process_id, pid>>
<1>0. pid \in Pids /\ UNCHANGED <<login, parameters, process_id, pid>>
  BY Zenon DEF LoginInv, BackendHello, BackendReply, Says
<1>1. \A m \in StartupMessage :
        m.code \in {"R", "E", "N"} /\ wire' = <<m>> /\ backend' # "session" => Remaining'
  BY Zenon DEF Remaining
<1>2. \A m \in StartupMessage :
        m.code = "R" /\ m.auth = "final" /\ wire' = <<m>> \o Greeting => Remaining'
  BY Zenon, <1>0 DEF Remaining, Greeting, Auth, Status, Plainly
<1>3. wire' = Greeting => Remaining'
  BY Zenon, <1>0 DEF Remaining, Greeting, Auth, Status, Plainly
<1>4. LET f == [Auth("final") EXCEPT !.verifier = signature(Secret, conversation(pid))]
      IN  f \in StartupMessage /\ f.code = "R" /\ f.auth = "final"
  BY ZenonT(60), <1>0, Messages DEF StartupMessage
<1>5. CASE BackendHello
  BY Zenon, <1>0, <1>1, <1>3, <1>5, Messages DEF BackendHello, Says
<1>6. CASE BackendReply
  BY ZenonT(60), <1>0, <1>1, <1>2, <1>3, <1>4, <1>6, Messages DEF BackendReply, Says
<1> QED BY Zenon, <1>0, <1>5, <1>6

\* What Remaining says of the state after a step, in terms of this state.
LEMMA RemainingNext ==
  ASSUME UNCHANGED pid
  PROVE  /\ wire' = <<>> /\ backend' # "session" => Remaining'
         /\ wire' = Greeting => Remaining'
         /\ wire' = <<Status("version"), Status("tracked"), Plainly("K"), Plainly("Z")>> => Remaining'
         /\ wire' = <<Status("tracked"), Plainly("K"), Plainly("Z")>>
            /\ parameters'["version"] = Default => Remaining'
         /\ wire' = <<Plainly("K"), Plainly("Z")>> /\ AllKnown' => Remaining'
         /\ wire' = <<Plainly("Z")>> /\ AllKnown' /\ process_id' = pid => Remaining'
BY Zenon DEF Remaining, Greeting, Auth, Status, Plainly

\* A message before the greeting.
LEMMA BeforeGreeting ==
  ASSUME pid \in Pids, NEW n \in StartupMessage
  PROVE  Head(<<n>> \o Greeting) = n /\ Tail(<<n>> \o Greeting) = Greeting
<1>1. Greeting \in Seq(StartupMessage)
  BY Messages DEF Greeting, Names
<1>2. \A g \in Seq(StartupMessage) : Head(<<n>> \o g) = n /\ Tail(<<n>> \o g) = g
  <2> HIDE DEF StartupMessage
  <2> TAKE g \in Seq(StartupMessage)
  <2> QED OBVIOUS
<1> QED BY Zenon, <1>1, <1>2

\* One turn of the loop of Server::startup.
LEMMA LoginStep ==
  ASSUME LoginInv, Login
  PROVE  /\ login' \in {"none", "login", "ready"} /\ UNCHANGED pid
         /\ parameters' \in [Names -> Params \cup {None}]
         /\ login' = "login" => Remaining'
         /\ login' = "ready" => (process_id = pid /\ AllKnown /\ wire = <<>>)'
<1> DEFINE m == Head(wire)
<1>0. /\ pid \in Pids /\ parameters \in [Names -> Params \cup {None}] /\ Default \in Params
      /\ login = "login" /\ wire # <<>> /\ Remaining
  BY Zenon, ConstantsAssumption DEF LoginInv, Login
<1>h. /\ wire = <<Status("version"), Status("tracked"), Plainly("K"), Plainly("Z")>> => m.code = "S"
      /\ wire = <<Status("tracked"), Plainly("K"), Plainly("Z")>> => m.code = "S"
      /\ wire = <<Plainly("K"), Plainly("Z")>> => m.code = "K"
      /\ wire = <<Plainly("Z")>> => m.code = "Z"
  BY <1>0, Messages DEF Names
<1>1. \/ m.code = "R" /\ Authentication(m)
      \/ m.code = "S" /\ StartupParameter(m)
      \/ m.code = "K" /\ BackendKeyData(m)
      \/ m.code = "Z" /\ ReadyForQuery
      \/ m.code \in {"E", "N"} /\ Closes
  BY Zenon DEF Login
<1>2. CASE Closes
  BY Zenon, <1>0, <1>2 DEF Closes
<1>3. CASE m.code = "R" /\ ~Closes
  <2>1. wire' = Tail(wire) /\ UNCHANGED <<login, parameters, process_id, backend, pid>>
    BY Zenon, <1>1, <1>3 DEF Authentication, Md5Password, Sasl, SaslContinue, SaslFinal, Answers
  <2>2. CASE backend # "session" /\ \E n \in StartupMessage : wire = <<n>>
    BY SMTT(30), <1>0, <2>1, <2>2, RemainingNext
  <2>3. CASE \E n \in StartupMessage : wire = <<n>> \o Greeting
    <3>1. wire' = Greeting
      BY Zenon, <1>0, <2>1, <2>3, BeforeGreeting
    <3> QED BY Zenon, <1>0, <2>1, <3>1, RemainingNext
  <2>4. CASE wire = Greeting
    <3>1. wire' = <<Status("version"), Status("tracked"), Plainly("K"), Plainly("Z")>>
      BY <2>1, <2>4 DEF Greeting
    <3> QED BY Zenon, <1>0, <2>1, <3>1, RemainingNext
  <2>5. CASE \/ wire = <<Status("version"), Status("tracked"), Plainly("K"), Plainly("Z")>>
             \/ wire = <<Status("tracked"), Plainly("K"), Plainly("Z")>>
             \/ wire = <<Plainly("K"), Plainly("Z")>>
             \/ wire = <<Plainly("Z")>>
    BY Zenon, <1>h, <1>3, <2>5
  <2> QED BY Zenon, <1>0, <2>2, <2>3, <2>4, <2>5 DEF Remaining
<1>4. CASE m.code = "S" /\ ~Closes
  <2>1. StartupParameter(m)
    BY Zenon, <1>1, <1>4
  <2>2. /\ wire' = Tail(wire) /\ UNCHANGED <<login, process_id, backend, pid>>
        /\ parameters' = [parameters EXCEPT ![m.name] = m.val]
    BY Zenon, <2>1 DEF StartupParameter
  <2>3. CASE wire = <<Status("version"), Status("tracked"), Plainly("K"), Plainly("Z")>>
    <3>1. m.name = "version" /\ m.val = Default /\ "version" \in Names
      BY SMTT(60), <1>0, <2>3, Messages DEF Names
    <3>2. parameters' \in [Names -> Params \cup {None}] /\ parameters'["version"] = Default
      BY Zenon, <1>0, <2>2, <3>1
    <3>3. wire' = <<Status("tracked"), Plainly("K"), Plainly("Z")>>
      BY <2>2, <2>3
    <3> QED BY Zenon, <1>0, <2>2, <3>2, <3>3, RemainingNext
  <2>4. CASE wire = <<Status("tracked"), Plainly("K"), Plainly("Z")>> /\ parameters["version"] = Default
    <3>1. m.name = "tracked" /\ m.val = Default
      BY SMTT(30), <1>0, <2>4, Messages DEF Names
    <3>2. parameters' \in [Names -> Params \cup {None}] /\ parameters' = [n \in Names |-> Default]
      BY Zenon, <1>0, <2>2, <2>4, <3>1 DEF Names
    <3>3. wire' = <<Plainly("K"), Plainly("Z")>>
      BY <2>2, <2>4
    <3> QED BY Zenon, <1>0, <2>2, <3>2, <3>3, RemainingNext DEF AllKnown
  <2>5. CASE \/ \E n \in StartupMessage : wire = <<n>> /\ n.code \in {"R", "E", "N"}
             \/ \E n \in StartupMessage : wire = <<n>> \o Greeting /\ n.code = "R"
             \/ wire = Greeting
             \/ wire = <<Plainly("K"), Plainly("Z")>>
             \/ wire = <<Plainly("Z")>>
    <3>1. CASE \E n \in StartupMessage : wire = <<n>> /\ n.code \in {"R", "E", "N"}
      BY SMTT(30), <1>4, <3>1
    <3>2. CASE \E n \in StartupMessage : wire = <<n>> \o Greeting /\ n.code = "R"
      BY Zenon, <1>0, <1>4, <3>2, BeforeGreeting
    <3>3. CASE wire = Greeting
      BY SMTT(30), <1>0, <1>4, <3>3, Messages DEF Greeting
    <3> HIDE DEF m
    <3> QED BY Zenon, <1>h, <1>4, <2>5, <3>1, <3>2, <3>3
  <2> QED BY Zenon, <1>0, <2>3, <2>4, <2>5 DEF Remaining
<1>5. CASE m.code = "K" /\ ~Closes
  <2>1. BackendKeyData(m)
    BY Zenon, <1>1, <1>5
  <2>2. wire' = Tail(wire) /\ UNCHANGED <<login, parameters, backend, pid>> /\ process_id' = m.num
    BY Zenon, <2>1 DEF BackendKeyData
  <2>3. CASE wire = <<Plainly("K"), Plainly("Z")>> /\ AllKnown
    <3>1. m.num = pid /\ wire' = <<Plainly("Z")>> /\ AllKnown'
      BY SMTT(60), <1>0, <2>2, <2>3, Messages DEF AllKnown
    <3> QED BY ZenonT(60), <1>0, <2>2, <3>1, RemainingNext
  <2>4. CASE \/ \E n \in StartupMessage : wire = <<n>> /\ n.code \in {"R", "E", "N"}
             \/ \E n \in StartupMessage : wire = <<n>> \o Greeting /\ n.code = "R"
             \/ wire = Greeting
             \/ wire = <<Status("version"), Status("tracked"), Plainly("K"), Plainly("Z")>>
             \/ wire = <<Status("tracked"), Plainly("K"), Plainly("Z")>>
             \/ wire = <<Plainly("Z")>>
    <3>1. CASE \E n \in StartupMessage : wire = <<n>> /\ n.code \in {"R", "E", "N"}
      BY SMTT(30), <1>5, <3>1
    <3>2. CASE \E n \in StartupMessage : wire = <<n>> \o Greeting /\ n.code = "R"
      BY Zenon, <1>0, <1>5, <3>2, BeforeGreeting
    <3>3. CASE wire = Greeting
      BY SMTT(30), <1>0, <1>5, <3>3, Messages DEF Greeting
    <3> HIDE DEF m
    <3> QED BY Zenon, <1>h, <1>5, <2>4, <3>1, <3>2, <3>3
  <2> QED BY Zenon, <1>0, <2>3, <2>4 DEF Remaining
<1>6. CASE m.code = "Z" /\ ~Closes
  <2>1. ReadyForQuery
    BY Zenon, <1>1, <1>6
  <2>2. wire' = Tail(wire) /\ UNCHANGED <<parameters, process_id, pid>> /\ login' = "ready"
    BY Zenon, <2>1 DEF ReadyForQuery
  <2>3. CASE wire = <<Plainly("Z")>> /\ AllKnown /\ process_id = pid
    <3>1. wire' = <<>> /\ AllKnown' /\ process_id' = pid'
      BY SMTT(60), <2>2, <2>3 DEF AllKnown
    <3> QED BY Zenon, <1>0, <2>2, <3>1
  <2>4. CASE \/ \E n \in StartupMessage : wire = <<n>> /\ n.code \in {"R", "E", "N"}
             \/ \E n \in StartupMessage : wire = <<n>> \o Greeting /\ n.code = "R"
             \/ wire = Greeting
             \/ wire = <<Status("version"), Status("tracked"), Plainly("K"), Plainly("Z")>>
             \/ wire = <<Status("tracked"), Plainly("K"), Plainly("Z")>>
             \/ wire = <<Plainly("K"), Plainly("Z")>>
    <3>1. CASE \E n \in StartupMessage : wire = <<n>> /\ n.code \in {"R", "E", "N"}
      BY <1>6, <3>1
    <3>2. CASE \E n \in StartupMessage : wire = <<n>> \o Greeting /\ n.code = "R"
      BY Zenon, <1>0, <1>6, <3>2, BeforeGreeting
    <3>3. CASE wire = Greeting
      BY SMTT(30), <1>0, <1>6, <3>3, Messages DEF Greeting
    <3> HIDE DEF m
    <3> QED BY Zenon, <1>h, <1>6, <2>4, <3>1, <3>2, <3>3
  <2> QED BY Zenon, <1>0, <2>3, <2>4 DEF Remaining
<1> QED BY Zenon, <1>1, <1>2, <1>3, <1>4, <1>5, <1>6

\* A server that did not prove itself gets no further.
LEMMA StrangersStep ==
  ASSUME LoginInv, Startup
  PROVE  Strangers'
<1>0. pid \in Pids /\ Strangers
  BY Zenon DEF LoginInv
<1>1. CASE Begins
  BY Zenon, <1>1 DEF Begins, Strangers
<1>2. CASE BackendHello
  BY Zenon, <1>2 DEF BackendHello, Says, Strangers
<1>3. CASE BackendReply
  <2>1. CASE backend' # "stranger"
    BY Zenon, <2>1 DEF Strangers
  <2>2. CASE backend' = "stranger"
    <3>1. login' = "login" /\ wire' = <<Auth("final")>> \o Greeting /\ UNCHANGED pid
      BY Zenon, <1>3, <2>2 DEF BackendReply, Says
    <3>2. /\ Auth("final") \in StartupMessage /\ Auth("final").code = "R"
          /\ Auth("final").auth = "final" /\ Auth("final").verifier = <<>>
      BY Zenon, <1>0, Messages DEF Auth, Plainly
    <3>3. Greeting' = Greeting
      BY Zenon, <3>1 DEF Greeting, Auth, Status, Plainly
    <3> QED BY Zenon, <3>1, <3>2, <3>3 DEF Strangers
  <2> QED BY Zenon, <2>1, <2>2
<1>4. CASE Login
  <2>1. CASE backend # "stranger"
    BY Zenon, <1>4, <2>1 DEF Login, Authentication, Md5Password, Sasl, SaslContinue, SaslFinal, Answers,
       StartupParameter, BackendKeyData, ReadyForQuery, Closes, Strangers
  <2>2. CASE backend = "stranger"
    <3>1. PICK m \in StartupMessage :
            wire = <<m>> \o Greeting /\ m.code = "R" /\ m.auth = "final" /\ m.verifier = <<>>
      <4>1. login = "login"
        BY Zenon, <1>4 DEF Login
      <4> QED BY Zenon, <1>0, <2>2, <4>1 DEF Strangers
    <3>2. Head(wire) = m
      BY Zenon, <1>0, <3>1, BeforeGreeting
    <3>3. SaslFinal(m)
      BY Zenon, <1>4, <3>1, <3>2 DEF Login, Authentication
    <3>4. m.verifier # signature(cred.password, conversation(pid))
      BY <3>1 DEF signature
    <3>5. login' = "none"
      BY Zenon, <3>3, <3>4 DEF SaslFinal, Closes
    <3> QED BY Zenon, <3>5 DEF Strangers
  <2> QED BY Zenon, <2>1, <2>2
<1>5. CASE StartupBroken
  BY Zenon, <1>5 DEF StartupBroken, Closes, Strangers
<1> QED BY Zenon, <1>1, <1>2, <1>3, <1>4, <1>5 DEF Startup

LEMMA LoginNext ==
  ASSUME LoginInv, [Next]_vars
  PROVE  LoginInv'
<1>1. CASE Startup
  <2>0. pc = "dead" /\ pc' = pc
    BY Zenon, <1>1 DEF Startup
  <2>s. Strangers'
    BY Zenon, <1>1, StrangersStep
  <2>1. CASE Begins
    <3>1. pid' \in Pids /\ login' = "login" /\ wire' = <<>> /\ backend' = "hello"
      BY Zenon, <2>1 DEF Begins
    <3>2. parameters' \in [Names -> Params \cup {None}]
      BY <2>1, ConstantsAssumption DEF Begins, Names
    <3>3. Remaining'
      BY Zenon, <3>1 DEF Remaining
    <3> QED BY Zenon, <2>0, <2>s, <3>1, <3>2, <3>3 DEF LoginInv
  <2>2. CASE BackendHello \/ BackendReply
    <3>1. login = "login"
      BY Zenon, <2>2 DEF BackendHello, BackendReply
    <3> QED BY Zenon, <2>0, <2>s, <2>2, <3>1, BackendLogin DEF LoginInv
  <2>3. CASE Login
    BY Zenon, <2>0, <2>s, <2>3, LoginStep DEF LoginInv
  <2>4. CASE StartupBroken
    BY Zenon, <2>0, <2>s, <2>4 DEF StartupBroken, Closes, LoginInv
  <2> QED BY Zenon, <1>1, <2>1, <2>2, <2>3, <2>4 DEF Startup
<1>2. CASE Fails
  BY Zenon, <1>2 DEF Fails, Closes, LoginInv, Strangers
<1>3. CASE UNCHANGED startupVars /\ (pc' # "dead" => pc # "dead" \/ login = "ready")
  <2>1. UNCHANGED <<login, wire, parameters, process_id, backend, pid>>
    BY Zenon, <1>3 DEF startupVars
  <2>2. Remaining' <=> Remaining
    BY ZenonT(60), <2>1 DEF Remaining, AllKnown, Greeting, Auth, Status, Plainly
  <2>3. Strangers'
    BY Zenon, <2>1 DEF LoginInv, Strangers, Greeting, Auth, Status, Plainly
  <2> QED BY Zenon, <1>3, <2>1, <2>2, <2>3 DEF LoginInv, AllKnown
<1>4. CASE UNCHANGED vars
  BY Zenon, <1>3, <1>4 DEF vars
<1>5. CASE \E c \in Clients : Checkout(c)
  BY Zenon, <1>3, <1>5 DEF Checkout
<1>6. CASE Query \/ CopyDone \/ Read \/ Forward
  BY Zenon, <1>3, <1>6 DEF Query, CopyDone, Read, Forward
<1>7. CASE After \/ Terminate
  BY Zenon, <1>3, <1>7 DEF After, Terminate
<1>8. CASE Reconnect
  BY Zenon, <1>3, <1>8 DEF Reconnect
<1> QED BY Zenon, <1>1, <1>2, <1>4, <1>5, <1>6, <1>7, <1>8 DEF Next

\* Whatever the method and the password, a connection that gets into the pool has
\* every parameter and the key of its backend, and has read the whole greeting; after
\* SCRAM its server has shown that it knows the password (Server::startup,
\* ScramSha256::finish).
THEOREM LoginsAreComplete ==
  Spec => []LoginComplete
<1>1. Init => LoginInv
  BY ConstantsAssumption DEF Init, LoginInv, Names, Strangers
<1>2. LoginInv /\ [Next]_vars => LoginInv'
  BY Zenon, LoginNext
<1>3. LoginInv => LoginComplete
  BY Zenon DEF LoginInv, LoginComplete, AllKnown, Strangers
<1> QED BY <1>1, <1>2, <1>3, PTL DEF Spec

-----------------------------------------------------------------------------
(* The tracked parameters.                                                 *)

\* What of ParamsInv does not depend on the client.
Tracked ==
  /\ \A i \in (rd + 1)..Len(stream) : LastStatus(i) => session = stream[i].v
  /\ (\A i \in (rd + 1)..Len(stream) : stream[i].k # "S") => server_parameters = session

\* Postgres reports the last value it was given (Reported).
LEMMA ReportedLast ==
  ASSUME NEW r \in Seq(Message), NEW v, NEW i \in 1..Len(r), r[i].k = "S",
         \A j \in (i + 1)..Len(r) : r[j].k # "S"
  PROVE  Reported(r, v) = r[i].v
<1> DEFINE at == {x \in 1..Len(r) : r[x].k = "S"}
<1>1. i \in at /\ \A j \in at : j =< i
  BY SMTT(30)
<1>2. \A x \in at : (\A j \in at : j =< x) => x = i
  BY <1>1
<1>3. (CHOOSE x \in at : \A j \in at : j =< x) = i
  <2> HIDE DEF at
  <2> QED BY Zenon, <1>1, <1>2
<1>4. Reported(r, v) = r[CHOOSE x \in at : \A j \in at : j =< x].v
  BY ZenonT(60), <1>1 DEF Reported
<1> QED BY Zenon, <1>3, <1>4

\* A new exchange begins.
LEMMA SendTracked ==
  ASSUME ProtocolInv, Tracked, NEW e, NEW r, Send(e, r), WellFormed(r),
         rd = Len(stream), UNCHANGED server_parameters
  PROVE  Tracked'
<1>1. r \in Seq(Message) /\ stream' = r /\ rd' = 0 /\ session' = Reported(r, session)
  BY Zenon DEF WellFormed, Send
<1>2. server_parameters = session
  BY SMTT(60) DEF Tracked, ProtocolInv, TypeOK
<1>3. ASSUME NEW i \in 1..Len(r), r[i].k = "S", \A j \in (i + 1)..Len(r) : r[j].k # "S"
      PROVE  session' = r[i].v
  BY Zenon, <1>1, <1>3, ReportedLast
<1>4. (\A i \in 1..Len(r) : r[i].k # "S") => session' = session
  BY Zenon, <1>1 DEF Reported
<1> QED BY SMTT(60), <1>1, <1>2, <1>3, <1>4 DEF Tracked, LastStatus

\* Nothing was read and nothing was sent.
LEMMA StaysTracked ==
  ASSUME Tracked, UNCHANGED <<rd, stream, session, server_parameters>>
  PROVE  Tracked'
BY Zenon DEF Tracked, LastStatus

LEMMA CheckinTracked ==
  ASSUME ProtocolInv, Tracked, Checkin, rd = Len(stream), UNCHANGED server_parameters
  PROVE  /\ Tracked'
         /\ pc' \notin {"held", "dead"}
         /\ pc' = "recv" => ex' \in {"rollback", "reset"}
         /\ pc' \notin {"chunk", "told"}
<1>1. CASE in_transaction
  <2>1. PICK v \in Params : Send("rollback", <<Setting(v), Msg("C"), Msg("ZI")>>)
    BY Zenon, <1>1 DEF Checkin
  <2>2. WellFormed(<<Setting(v), Msg("C"), Msg("ZI")>>)
    BY Zenon, OwnReplies
  <2>3. Tracked'
    BY Zenon, <2>1, <2>2, SendTracked
  <2> QED BY Zenon, <2>1, <2>3 DEF Send
<1>2. CASE ~in_transaction /\ needs_set
  <2>1. Send("reset", <<Setting(Default), Msg("C"), Msg("ZI")>>)
    BY Zenon, <1>2 DEF Checkin
  <2>2. WellFormed(<<Setting(Default), Msg("C"), Msg("ZI")>>)
    BY Zenon, OwnReplies, ConstantsAssumption
  <2>3. Tracked'
    BY Zenon, <2>1, <2>2, SendTracked
  <2> QED BY Zenon, <2>1, <2>3 DEF Send
<1>3. CASE ~in_transaction /\ ~needs_set
  <2>1. pc' = "pool" /\ UNCHANGED <<rd, stream, session>>
    BY Zenon, <1>3 DEF Checkin
  <2> QED BY Zenon, <2>1, StaysTracked
<1> QED BY Zenon, <1>1, <1>2, <1>3

\* recv reads a message.
LEMMA ReadTracked ==
  ASSUME ProtocolInv, Tracked, Read
  PROVE  Tracked'
<1> DEFINE m == stream[rd + 1]
<1>1. /\ rd \in Nat /\ Len(stream) \in Nat /\ rd + 1 \in 1..Len(stream)
      /\ rd' = rd + 1 /\ UNCHANGED <<stream, session>>
      /\ server_parameters' = IF m.k = "S" THEN m.v ELSE server_parameters
  <2>1. /\ rd < sent /\ rd' = rd + 1 /\ UNCHANGED <<stream, session>>
        /\ server_parameters' = IF m.k = "S" THEN m.v ELSE server_parameters
    BY Zenon DEF Read, ParameterStatus
  <2>2. stream \in Seq(Message) /\ sent \in Nat /\ rd \in Nat /\ sent =< Len(stream)
    BY Zenon DEF ProtocolInv, TypeOK
  <2> HIDE DEF m
  <2> QED BY <2>1, <2>2
<1>2. (\A i \in (rd + 1)..Len(stream) : LastStatus(i) => session = stream[i].v)'
  BY SMTT(60), <1>1 DEF Tracked, LastStatus
<1>3. ASSUME \A i \in (rd + 2)..Len(stream) : stream[i].k # "S"
      PROVE  server_parameters' = session
  <2>1. CASE m.k = "S"
    <3>1. LastStatus(rd + 1)
      BY SMTT(60), <1>1, <1>3, <2>1 DEF LastStatus
    <3>2. session = m.v
      BY <1>1, <3>1 DEF Tracked
    <3> QED BY Zenon, <1>1, <2>1, <3>2
  <2>2. CASE m.k # "S"
    <3>1. \A i \in (rd + 1)..Len(stream) : stream[i].k # "S"
      BY SMTT(30), <1>1, <1>3, <2>2
    <3> QED BY Zenon, <1>1, <2>2, <3>1 DEF Tracked
  <2> QED BY Zenon, <2>1, <2>2
<1>4. (rd + 1) + 1 = rd + 2
  BY SMTT(60), <1>1
<1> QED BY Zenon, <1>1, <1>2, <1>3, <1>4 DEF Tracked

\* What of ParamsInv is about the client.
Known ==
  /\ pc = "held" \/ (pc \in {"recv", "chunk", "told"} /\ ex \in {"query", "copydone"}) =>
       holder \in Clients /\ (mine[holder] = server_parameters \/ refused)
  /\ pc \in {"recv", "chunk", "told"} /\ ex = "sync" =>
       /\ holder \in Clients
       /\ \/ /\ stream = <<Setting(mine[holder]), Msg("CSET"), Msg("ZI")>>
             /\ rd > 0 => mine[holder] = server_parameters
          \/ /\ stream = <<Msg("E"), Msg("ZI")>>
             /\ rd > 0 => refused

LEMMA ParamsParts ==
  ParamsInv <=> Tracked /\ (pc = "dead" => session = Default) /\ Known
BY Zenon DEF ParamsInv, Tracked, Known

\* Both answers to the SET at checkout, message by message.
LEMMA ReadKnown ==
  ASSUME ProtocolInv, Known, Read
  PROVE  Known'
<1> DEFINE m == stream[rd + 1]
<1>1. /\ pc = "recv" /\ pc' \in {"recv", "chunk"}
      /\ UNCHANGED <<ex, holder, stream>>
      /\ rd \in Nat /\ rd + 1 \in 1..Len(stream) /\ rd' = rd + 1
      /\ server_parameters' = IF m.k = "S" THEN m.v ELSE server_parameters
      /\ refused' = (refused \/ (ex = "sync" /\ m.k = "E"))
      /\ mine' = IF m.k = "S" /\ ex \in {"query", "copydone"}
                 THEN [mine EXCEPT ![holder] = m.v] ELSE mine
      /\ mine \in [Clients -> Params]
  BY SMTT(60) DEF Read, ParameterStatus, ProtocolInv, TypeOK
<1>2. CASE ex \in {"query", "copydone"}
  <2> HIDE DEF m
  <2>1. holder \in Clients /\ (mine[holder] = server_parameters \/ refused)
    BY Zenon, <1>1, <1>2 DEF Known
  <2>2. mine'[holder] = server_parameters' \/ refused'
    BY Zenon, <1>1, <1>2, <2>1
  <2> QED BY Zenon, <1>1, <1>2, <2>1, <2>2 DEF Known
<1>3. CASE ex = "sync"
  <2>1. holder \in Clients /\ mine' = mine
    BY Zenon, <1>1, <1>3 DEF Known
  <2>2. CASE /\ stream = <<Setting(mine[holder]), Msg("CSET"), Msg("ZI")>>
             /\ rd > 0 => mine[holder] = server_parameters
    <3>1. m.k = "S" => m.v = mine[holder]
      BY SMTT(60), <1>1, <2>2 DEF Setting, Msg
    <3>2. rd = 0 => m.k = "S"
      BY SMTT(30), <1>1, <2>2 DEF Setting, Msg
    <3> HIDE DEF m
    <3>3. mine[holder] = server_parameters'
      BY SMTT(60), <1>1, <2>2, <3>1, <3>2
    <3> QED BY ZenonT(60), <1>1, <1>3, <2>1, <2>2, <3>3 DEF Known
  <2>3. CASE /\ stream = <<Msg("E"), Msg("ZI")>>
             /\ rd > 0 => refused
    <3>1. rd = 0 => m.k = "E"
      BY SMTT(30), <1>1, <2>3 DEF Msg
    <3> HIDE DEF m
    <3>2. refused \/ (ex = "sync" /\ m.k = "E")
      BY SMTT(30), <1>1, <1>3, <2>3, <3>1
    <3>3. refused'
      BY Zenon, <1>1, <3>2, Zenon
    <3> QED BY Zenon, <1>1, <1>3, <2>1, <2>3, <3>3 DEF Known
  <2> QED BY Zenon, <1>1, <1>3, <2>2, <2>3 DEF Known
<1>4. CASE ex \notin {"query", "copydone", "sync"}
  BY Zenon, <1>1, <1>4 DEF Known
<1> QED BY ZenonT(60), <1>2, <1>3, <1>4

LEMMA CheckoutParams ==
  ASSUME ProtocolInv, ParamsInv, NEW c \in Clients, Checkout(c)
  PROVE  ParamsInv'
<1>1. /\ pc = "pool" /\ holder' = c /\ UNCHANGED <<server_parameters, mine>>
      /\ rd = Len(stream) /\ mine[c] \in Params
  BY Zenon DEF Checkout, ProtocolInv, TypeOK
<1>2. Tracked
  BY Zenon, ParamsParts
<1>3. CASE pc' = "held" /\ server_parameters = mine[c] /\ UNCHANGED <<stream, rd, session>>
  <2>1. Tracked'
    BY Zenon, <1>1, <1>2, <1>3, StaysTracked
  <2> QED BY Zenon, <1>1, <1>3, <2>1 DEF ParamsInv, Tracked
<1>4. CASE Send("sync", <<Setting(mine[c]), Msg("CSET"), Msg("ZI")>>)
  <2>1. WellFormed(<<Setting(mine[c]), Msg("CSET"), Msg("ZI")>>)
    BY Zenon, <1>1, OwnReplies
  <2>2. Tracked'
    BY Zenon, <1>1, <1>2, <1>4, <2>1, SendTracked
  <2>3. pc' = "recv" /\ ex' = "sync" /\ rd' = 0
        /\ stream' = <<Setting(mine[c]), Msg("CSET"), Msg("ZI")>>
    BY Zenon, <1>4 DEF Send
  <2>4. ~(rd' > 0)
    BY SMTT(30), <2>3
  <2> QED BY Zenon, <1>1, <2>2, <2>3, <2>4 DEF ParamsInv, Tracked
<1>5. CASE Send("sync", <<Msg("E"), Msg("ZI")>>)
  <2>1. WellFormed(<<Msg("E"), Msg("ZI")>>)
    BY Zenon, <1>1, OwnReplies
  <2>2. Tracked'
    BY Zenon, <1>1, <1>2, <1>5, <2>1, SendTracked
  <2>3. pc' = "recv" /\ ex' = "sync" /\ rd' = 0 /\ stream' = <<Msg("E"), Msg("ZI")>>
    BY Zenon, <1>5 DEF Send
  <2>4. ~(rd' > 0)
    BY <2>3
  <2> QED BY Zenon, <1>1, <2>2, <2>3, <2>4 DEF ParamsInv, Tracked
<1> QED BY Zenon, <1>3, <1>4, <1>5 DEF Checkout

LEMMA AfterParams ==
  ASSUME ProtocolInv, ParamsInv, After
  PROVE  ParamsInv'
<1>1. pc = "told" /\ UNCHANGED <<server_parameters, mine, refused>> /\ Tracked /\ Known
  BY Zenon, ParamsParts DEF After
<1>2. ASSUME Checkin, rd = Len(stream)
      PROVE  ParamsInv'
  <2>1. /\ Tracked' /\ pc' \notin {"held", "dead"}
        /\ pc' = "recv" => ex' \in {"rollback", "reset"}
        /\ pc' \notin {"chunk", "told"}
    BY Zenon, <1>1, <1>2, CheckinTracked
  <2>2. Known'
    BY Zenon, <2>1 DEF Known
  <2> QED BY Zenon, <2>1, <2>2 DEF ParamsInv, Tracked, Known
<1>3. ASSUME pc' \in {"recv", "held", "pool"}, pc' # "pool" => holder' = holder,
             UNCHANGED <<ex, stream, rd, session>>,
             pc' = "held" => ex \in {"query", "copydone"} \/ (ex = "sync" /\ rd > 0)
      PROVE  ParamsInv'
  <2>1. Tracked'
    BY Zenon, <1>1, <1>3, StaysTracked
  <2>2. Known'
    BY Zenon, <1>1, <1>3 DEF Known
  <2> QED BY Zenon, <1>3, <2>1, <2>2 DEF ParamsInv, Tracked, Known
<1>4. CASE More /\ pc' = "recv" /\ UNCHANGED <<ex, holder, stream, rd, session>>
  BY Zenon, <1>3, <1>4
<1>5. CASE ~More /\ ex = "query" /\ (IF ~in_transaction /\ ~in_copy_mode THEN Checkin ELSE Stays)
  <2>1. CASE Checkin /\ ~in_copy_mode
    <3>1. rd = Len(stream)
      BY Zenon, <1>1, <1>5, <2>1, ToldRead
    <3> QED BY Zenon, <1>2, <2>1, <3>1
  <2>2. CASE Stays
    BY Zenon, <1>3, <1>5, <2>2 DEF Stays
  <2> QED BY Zenon, <1>5, <2>1, <2>2
<1>6. CASE ~More /\ ex = "copydone" /\ (IF ~in_transaction THEN Checkin ELSE Stays)
  <2>1. rd = Len(stream)
    BY Zenon, <1>1, <1>6, ToldRead
  <2>2. CASE Stays
    BY Zenon, <1>3, <1>6, <2>2 DEF Stays
  <2> QED BY Zenon, <1>2, <1>6, <2>1, <2>2
<1>7. CASE ~More /\ ex = "sync" /\ pc' = "held" /\ UNCHANGED <<ex, holder, stream, rd, session>>
  <2>1. rd > 0
    BY ZenonT(60), <1>1 DEF ProtocolInv
  <2> QED BY Zenon, <1>3, <1>7, <2>1
<1>8. CASE ~More /\ ex = "rollback" /\ Checkin
  <2>1. rd = Len(stream)
    BY Zenon, <1>1, <1>8, ToldRead
  <2> QED BY Zenon, <1>2, <1>8, <2>1
<1>9. CASE ~More /\ ex = "reset" /\ pc' = "pool" /\ UNCHANGED <<ex, stream, rd, session>>
  BY Zenon, <1>3, <1>9
<1> QED BY Zenon, <1>4, <1>5, <1>6, <1>7, <1>8, <1>9 DEF After

\* ParamsInv is inductive, given the invariants of the exchange and of the login.
LEMMA ParamsNext ==
  ASSUME SimpleReplies, ProtocolInv, LoginInv, ParamsInv, [Next]_vars
  PROVE  ParamsInv'
<1>0. Tracked /\ Known
  BY Zenon, ParamsParts
<1>1. ASSUME NEW c \in Clients, Checkout(c) PROVE ParamsInv'
  BY Zenon, <1>1, CheckoutParams
<1>2. CASE Query
  <2>1. PICK r \in Replies : Send("query", r)
    BY Zenon, <1>2 DEF Query
  <2>2. WellFormed(r)
    BY Zenon, ConstantsAssumption
  <2>3. pc = "held" /\ ~in_copy_mode /\ UNCHANGED <<holder, server_parameters, mine, refused>>
    BY Zenon, <1>2 DEF Query
  <2>4. rd = Len(stream)
    BY ZenonT(60), <2>3, HeldRead DEF ProtocolInv, TypeOK
  <2>5. Tracked'
    BY Zenon, <1>0, <2>1, <2>2, <2>3, <2>4, SendTracked
  <2>6. pc' = "recv" /\ ex' = "query"
    BY Zenon, <2>1 DEF Send
  <2>7. Known'
    BY Zenon, <1>0, <2>3, <2>6 DEF Known
  <2> QED BY Zenon, <2>5, <2>6, <2>7 DEF ParamsInv, Tracked, Known
<1>3. CASE CopyDone
  <2>1. /\ pc = "held" /\ pc' = "recv" /\ ex' = "copydone"
        /\ UNCHANGED <<holder, stream, rd, session, server_parameters, mine, refused>>
    BY Zenon, <1>3 DEF CopyDone, params
  <2>2. Tracked'
    BY Zenon, <1>0, <2>1, StaysTracked
  <2>3. Known'
    BY Zenon, <1>0, <2>1 DEF Known
  <2> QED BY Zenon, <2>1, <2>2, <2>3 DEF ParamsInv, Tracked, Known
<1>4. CASE Read
  <2>1. Tracked' /\ Known'
    BY Zenon, <1>0, <1>4, ReadTracked, ReadKnown
  <2>2. pc' # "dead"
    BY Zenon, <1>4 DEF Read
  <2> QED BY Zenon, <2>1, <2>2 DEF ParamsInv, Tracked, Known
<1>5. CASE Forward
  <2>1. /\ pc = "chunk" /\ pc' = "told"
        /\ UNCHANGED <<ex, holder, stream, rd, session, server_parameters, mine, refused>>
    BY Zenon, <1>5 DEF Forward, params
  <2>2. Tracked'
    BY Zenon, <1>0, <2>1, StaysTracked
  <2>3. Known'
    BY Zenon, <1>0, <2>1 DEF Known
  <2> QED BY Zenon, <2>1, <2>2, <2>3 DEF ParamsInv, Tracked, Known
<1>6. CASE After
  BY Zenon, <1>6, AfterParams
<1>7. CASE Terminate
  <2>1. pc = "held" /\ ~in_copy_mode /\ Checkin /\ UNCHANGED server_parameters
    BY Zenon, <1>7 DEF Terminate
  <2>2. rd = Len(stream)
    BY ZenonT(60), <2>1, HeldRead DEF ProtocolInv, TypeOK
  <2>3. /\ Tracked' /\ pc' \notin {"held", "dead"}
        /\ pc' = "recv" => ex' \in {"rollback", "reset"}
        /\ pc' \notin {"chunk", "told"}
    BY Zenon, <1>0, <2>1, <2>2, CheckinTracked
  <2>4. Known'
    BY ZenonT(60), <2>3 DEF Known
  <2> QED BY Zenon, <2>3, <2>4 DEF ParamsInv, Tracked, Known
<1>8. CASE Fails
  <2>1. /\ pc' = "dead" /\ stream' = <<>> /\ rd' = 0
        /\ session' = Default /\ server_parameters' = Default
    BY Zenon, <1>8 DEF Fails
  <2> QED BY SMTT(60), <2>1 DEF ParamsInv, LastStatus
<1>9. CASE Startup \/ UNCHANGED vars
  <2>1. UNCHANGED <<pc, ex, holder, stream, rd, session, server_parameters, mine, refused>>
    BY Zenon, <1>9 DEF Startup, vars, params
  <2> QED BY ZenonT(60), <2>1 DEF ParamsInv, LastStatus
<1>10. CASE Reconnect
  <2>1. /\ pc = "dead" /\ pc' = "pool" /\ login = "ready"
        /\ server_parameters' = parameters["tracked"]
        /\ UNCHANGED <<stream, rd, session>>
    BY Zenon, <1>10 DEF Reconnect
  <2>2. stream = <<>> /\ rd \in Nat /\ session = Default
    BY ZenonT(60), <2>1 DEF ProtocolInv, TypeOK, ParamsInv
  <2>3. server_parameters' = Default
    BY Zenon, <2>1 DEF LoginInv, AllKnown, Names
  <2>4. Tracked'
    BY SMTT(30), <2>1, <2>2, <2>3 DEF Tracked, LastStatus
  <2> QED BY Zenon, <2>1, <2>4 DEF ParamsInv, Tracked
<1> QED BY ZenonT(60), <1>1, <1>2, <1>3, <1>4, <1>5, <1>6, <1>7, <1>8, <1>9, <1>10 DEF Next

\* pgcat's record of the session's parameters is right whenever a client may use it,
\* through every transaction, ROLLBACK, RESET and failed SET (ParamsFollow).
THEOREM ParametersFollow == SimpleReplies => (Spec => []ParamsFollow)
<1> SUFFICES ASSUME SimpleReplies PROVE Spec => []ParamsFollow
  BY Zenon
<1>1. Init => ProtocolInv /\ LoginInv /\ ParamsInv
  <2>1. Init => ProtocolInv
    BY Zenon, InitInv
  <2>2. Init => LoginInv
    BY SMTT(60), ConstantsAssumption DEF Init, LoginInv, Names, Strangers
  <2>3. Init => ParamsInv
    BY DEF Init, ParamsInv, LastStatus
  <2> QED BY Zenon, <2>1, <2>2, <2>3
<1>2. ProtocolInv /\ LoginInv /\ ParamsInv /\ [Next]_vars
        => ProtocolInv' /\ LoginInv' /\ ParamsInv'
  BY Zenon, NextInv, LoginNext, ParamsNext
<1>3. ProtocolInv /\ ParamsInv => ParamsFollow
  <2> SUFFICES ASSUME ProtocolInv, ParamsInv, pc = "pool" \/ (pc = "held" /\ ~in_copy_mode)
               PROVE  server_parameters = session
    BY Zenon DEF ParamsFollow, ParamsInv
  <2>1. rd = Len(stream) /\ rd \in Nat
    BY Zenon, HeldRead DEF ProtocolInv, TypeOK
  <2> QED BY SMTT(60), <2>1 DEF ParamsInv
<1> QED BY <1>1, <1>2, <1>3, PTL DEF Spec
=============================================================================
