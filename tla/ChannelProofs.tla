---------------------------- MODULE ChannelProofs ----------------------------
(***************************************************************************)
(* Proofs about Channel, for every window, MTU, set of payload sizes and   *)
(* set of faults.  The type invariant needs no further assumption.  The    *)
(* ordering results hold for sessions that take fewer than SeqMod (2^32)   *)
(* sequence numbers: MaxSends < SeqMod.                                    *)
(***************************************************************************)
EXTENDS Channel, TLAPS, SequenceTheorems, FiniteSetTheorems

\* wrapping_add stays inside the sequence number space.
LEMMA WrappingAddType ==
    ASSUME NEW a \in SeqNum, NEW b \in 0..(SeqMod - 1)
    PROVE  wrapping_add(a, b) \in SeqNum
BY SeqAssumption DEF SeqNum, wrapping_add

\* The n buffered payloads taken by the drain loop form a sequence of length n.
LEMMA DrainedIsSeq ==
    ASSUME TypeOK, NEW s \in SeqNum, NEW n \in 0..(Window - 1), DrainLength(n, s)
    PROVE  LET d == [j \in 1..n |-> reorder_buffer[wrapping_add(s, j)]] IN
           /\ d \in Seq(Ordinal)
           /\ Len(d) = n
           /\ \A j \in 1..n : d[j] = reorder_buffer[wrapping_add(s, j)]
<1> DEFINE d == [j \in 1..n |-> reorder_buffer[wrapping_add(s, j)]]
<1>1. \A j \in 1..n : reorder_buffer[wrapping_add(s, j)] \in Ordinal
  BY DEF TypeOK, DrainLength
<1>2. n \in Nat
  BY SeqAssumption
<1>3. d \in [1..n -> Ordinal]
  BY <1>1
<1>4. d \in Seq(Ordinal) /\ Len(d) = n
  BY <1>2, <1>3
<1> QED
  BY <1>4

\* What Accept appends: the payload itself, then the drained ones.
LEMMA AcceptedIsSeq ==
    ASSUME NEW r \in Seq(Ordinal), NEW x \in Ordinal, NEW d \in Seq(Ordinal)
    PROVE  /\ r \o <<x>> \o d \in Seq(Ordinal)
           /\ Len(r \o <<x>> \o d) = Len(r) + 1 + Len(d)
           /\ \A i \in 1..(Len(r) + 1 + Len(d)) :
                (r \o <<x>> \o d)[i] = IF i <= Len(r) THEN r[i]
                                       ELSE IF i = Len(r) + 1 THEN x
                                       ELSE d[i - Len(r) - 1]
<1>1. <<x>> \in Seq(Ordinal) /\ Len(<<x>>) = 1 /\ <<x>>[1] = x
  OBVIOUS
<1> DEFINE rx == r \o <<x>>
<1>2. /\ rx \in Seq(Ordinal)
      /\ Len(rx) = Len(r) + 1
      /\ \A i \in 1..(Len(r) + 1) : rx[i] = IF i <= Len(r) THEN r[i] ELSE <<x>>[i - Len(r)]
  BY <1>1, ConcatProperties
<1>3. \A i \in 1..(Len(r) + 1) : rx[i] = IF i <= Len(r) THEN r[i] ELSE x
  BY <1>1, <1>2, LenProperties
<1> HIDE DEF rx
<1>4. /\ rx \o d \in Seq(Ordinal)
      /\ Len(rx \o d) = Len(rx) + Len(d)
      /\ \A i \in 1..(Len(rx) + Len(d)) : (rx \o d)[i] = IF i <= Len(rx) THEN rx[i] ELSE d[i - Len(rx)]
  BY <1>2, ConcatProperties
<1>5. Len(r) \in Nat /\ Len(d) \in Nat
  BY LenProperties
<1>6. /\ rx \o d \in Seq(Ordinal)
      /\ Len(rx \o d) = Len(r) + 1 + Len(d)
      /\ \A i \in 1..(Len(r) + 1 + Len(d)) :
            (rx \o d)[i] = IF i <= Len(r) THEN r[i]
                           ELSE IF i = Len(r) + 1 THEN x
                           ELSE d[i - Len(r) - 1]
  BY <1>2, <1>3, <1>4, <1>5
<1> QED
  BY <1>6 DEF rx

-----------------------------------------------------------------------------
(* Type correctness, for every value of the constants. *)

\* A fresh channel, as Channel::new makes it, has its type.
LEMMA TypeOKInit == Init => TypeOK
BY SeqAssumption, BoundAssumption DEF Init, TypeOK, SeqNum, Ends, Ordinal

\* Every step of the sender, the receiver and the medium preserves the types, wrapping included.
LEMMA TypeOKNext == TypeOK /\ [Next]_vars => TypeOK'
<1> SUFFICES ASSUME TypeOK, [Next]_vars PROVE TypeOK'
  OBVIOUS
<1> USE SeqAssumption, BoundAssumption
<1>1. ASSUME NEW type \in Types, NEW len \in PayloadSizes, send_typed(type, len)
      PROVE  TypeOK'
  <2>1. outgoing_seq' \in SeqNum
    BY <1>1, WrappingAddType DEF send_typed, TypeOK
  <2>2. nsent \in Ordinal /\ nsent' \in 0..MaxSends
    BY <1>1 DEF send_typed, TypeOK, Ordinal
  <2>3. net' \subseteq Packet /\ transmitted' \subseteq Ordinal
    <3> DEFINE pkt == [seq |-> outgoing_seq, type |-> type, payload |-> nsent]
    <3>1. pkt \in Packet
      BY <2>2 DEF TypeOK, Packet
    <3> HIDE DEF pkt
    <3>2. /\ net' = net \/ net' = net \cup {pkt}
          /\ transmitted' = transmitted \/ transmitted' = transmitted \cup {nsent}
      BY <1>1 DEF send_typed, pkt
    <3> QED
      BY <2>2, <3>1, <3>2 DEF TypeOK
  <2> QED
    BY <1>1, <2>1, <2>2, <2>3 DEF send_typed, TypeOK, rxvars
<1>2. ASSUME NEW p \in net, NEW keep \in BOOLEAN, deliver(p, keep)
      PROVE  TypeOK'
  <2>1. p.seq \in SeqNum /\ p.type \in Types /\ p.payload \in Ordinal
    BY DEF TypeOK, Packet
  <2>2. net' \subseteq Packet
    BY <1>2 DEF deliver, Transit, TypeOK
  <2>3. CASE Dispatch(p)
    BY <1>2, <2>1, <2>2, <2>3 DEF Dispatch, deliver, TypeOK, txvars
  <2>4. CASE Accept(p)
    <3>1. PICK n \in 0..(Window - 1) :
             /\ DrainLength(n, p.seq)
             /\ ready' = ready \o <<p.payload>> \o
                         [j \in 1..n |-> reorder_buffer[wrapping_add(p.seq, j)]]
             /\ incoming_seq' = wrapping_add(p.seq, n + 1)
             /\ reorder_buffer' =
                   [s \in DOMAIN reorder_buffer \ {wrapping_add(p.seq, j) : j \in 1..n}
                       |-> reorder_buffer[s]]
      BY <2>4 DEF Accept
    <3> DEFINE d == [j \in 1..n |-> reorder_buffer[wrapping_add(p.seq, j)]]
    <3>2. d \in Seq(Ordinal)
      BY <2>1, <3>1, DrainedIsSeq
    <3>3. ready' \in Seq(Ordinal)
      <4> HIDE DEF d
      <4>1. ready \in Seq(Ordinal)
        BY DEF TypeOK
      <4>2. ready \o <<p.payload>> \o d \in Seq(Ordinal)
        BY <2>1, <3>2, <4>1, AcceptedIsSeq
      <4> QED
        BY <3>1, <4>2 DEF d
    <3>4. incoming_seq' \in SeqNum
      BY <2>1, <3>1, WrappingAddType
    <3>5. /\ DOMAIN reorder_buffer' \subseteq SeqNum
          /\ \A s \in DOMAIN reorder_buffer' : reorder_buffer'[s] \in Ordinal
      BY <3>1 DEF TypeOK
    <3> QED
      BY <1>2, <2>2, <2>4, <3>3, <3>4, <3>5 DEF deliver, Accept, TypeOK, txvars
  <2>5. CASE BufferAhead(p)
    <3>1. /\ DOMAIN reorder_buffer' \subseteq SeqNum
          /\ \A s \in DOMAIN reorder_buffer' : reorder_buffer'[s] \in Ordinal
      BY <2>1, <2>5 DEF BufferAhead, TypeOK
    <3> QED
      BY <1>2, <2>2, <2>5, <3>1 DEF deliver, BufferAhead, TypeOK, txvars
  <2>6. CASE Discard(p)
    BY <1>2, <2>2, <2>6 DEF deliver, Discard, TypeOK, txvars
  <2> QED
    BY <1>2, <2>3, <2>4, <2>5, <2>6 DEF deliver
<1>3. ASSUME recv PROVE TypeOK'
  <2>1. Head(ready) \in Ordinal /\ Tail(ready) \in Seq(Ordinal)
    BY <1>3, HeadTailProperties DEF recv, TypeOK
  <2>2. received' \in Seq(Ordinal)
    BY <1>3, <2>1 DEF recv, TypeOK
  <2> QED
    BY <1>3, <2>1, <2>2 DEF recv, TypeOK, txvars
<1>4. ASSUME NEW type \in Types, register_handler(type) PROVE TypeOK'
  BY <1>4 DEF register_handler, TypeOK, txvars
<1>5. ASSUME NEW p \in net, Lose(p) PROVE TypeOK'
  BY <1>5 DEF Lose, TypeOK, txvars, rxvars
<1>6. ASSUME NEW e \in Ends, Relink(e) PROVE TypeOK'
  BY <1>6 DEF Relink, TypeOK, txvars, rxvars
<1>7. ASSUME UNCHANGED vars PROVE TypeOK'
  BY <1>7 DEF vars, TypeOK
<1> QED
  BY <1>1, <1>2, <1>3, <1>4, <1>5, <1>6, <1>7 DEF Next

\* Every variable of the channel keeps its type in every behaviour, wrap-around included:
\* the u32 counters never leave the sequence number space.
THEOREM TypeCorrect == Spec => []TypeOK
BY TypeOKInit, TypeOKNext, PTL DEF Spec

-----------------------------------------------------------------------------
(* Ordered delivery, for sessions of fewer than SeqMod sends. *)

\* A fresh channel satisfies the inductive invariant.
LEMMA OrderInvInit == Init => OrderInv
BY DEF Init, OrderInv

\* Without wrap-around the drain loop takes exactly the numbers that follow.
LEMMA DrainNoWrap ==
    ASSUME TypeOK, OrderInv, MaxSends < SeqMod, incoming_seq \in 0..(MaxSends - 1),
           NEW n \in 0..(Window - 1), DrainLength(n, incoming_seq)
    PROVE  /\ incoming_seq + n < MaxSends
           /\ \A j \in 1..n : /\ wrapping_add(incoming_seq, j) = incoming_seq + j
                             /\ incoming_seq + j \in DOMAIN reorder_buffer
           /\ wrapping_add(incoming_seq, n + 1) = incoming_seq + n + 1
           /\ incoming_seq + n + 1 \notin DOMAIN reorder_buffer
<1> USE SeqAssumption, BoundAssumption
<1>1. \A s \in DOMAIN reorder_buffer : s \in 0..(MaxSends - 1) /\ s > incoming_seq
  BY DEF TypeOK, OrderInv, Ordinal
<1>2. \A j \in 1..n : incoming_seq + j < MaxSends
  <2> SUFFICES ASSUME NEW j \in 1..n PROVE incoming_seq + j < MaxSends
    OBVIOUS
  <2>1. wrapping_add(incoming_seq, j) \in DOMAIN reorder_buffer
    BY DEF DrainLength
  <2>2. wrapping_add(incoming_seq, j) > incoming_seq /\ wrapping_add(incoming_seq, j) < MaxSends
    BY <1>1, <2>1
  <2> QED
    BY <2>2 DEF wrapping_add
<1>3. incoming_seq + n < MaxSends
  <2>1. CASE n = 0
    BY <2>1
  <2>2. CASE n # 0
    BY <1>2, <2>2
  <2> QED
    BY <2>1, <2>2
<1>4. \A j \in 1..(n + 1) : wrapping_add(incoming_seq, j) = incoming_seq + j
  BY <1>3 DEF wrapping_add
<1> QED
  BY <1>3, <1>4 DEF DrainLength

\* Every step preserves it in a session that takes fewer than SeqMod numbers.
LEMMA OrderInvNext ==
    ASSUME MaxSends < SeqMod
    PROVE  TypeOK /\ OrderInv /\ [Next]_vars => OrderInv'
<1> SUFFICES ASSUME TypeOK, OrderInv, [Next]_vars PROVE OrderInv'
  OBVIOUS
<1> USE SeqAssumption, BoundAssumption
<1>0. Len(received) \in Nat /\ Len(ready) \in Nat
  BY DEF TypeOK
<1>1. ASSUME NEW type \in Types, NEW len \in PayloadSizes, send_typed(type, len)
      PROVE  OrderInv'
  <2> DEFINE pkt == [seq |-> outgoing_seq, type |-> type, payload |-> nsent]
  <2>1. pkt.seq = nsent /\ pkt.payload = nsent
    BY DEF OrderInv
  <2> HIDE DEF pkt
  <2>2. nsent \in Nat /\ nsent < MaxSends /\ nsent' = nsent + 1 /\ outgoing_seq' = nsent'
    BY <1>1 DEF send_typed, TypeOK, OrderInv, wrapping_add
  <2>3. \/ net' = net /\ transmitted' = transmitted
        \/ net' = net \cup {pkt} /\ transmitted' = transmitted \cup {nsent}
    BY <1>1 DEF send_typed, pkt
  <2>4. \A p \in net' : p.seq = p.payload /\ p.payload \in transmitted'
    BY <2>1, <2>3 DEF OrderInv
  <2>5. transmitted' \subseteq 0..(nsent' - 1)
    <3> SUFFICES ASSUME NEW k \in transmitted' PROVE k \in 0..nsent
      BY <2>2
    <3>1. CASE k \in transmitted
      <4>1. k \in 0..(nsent - 1)
        BY <3>1 DEF OrderInv
      <4> QED
        BY <2>2, <4>1
    <3>2. CASE k = nsent
      BY <2>2, <3>2
    <3> QED
      BY <2>3, <3>1, <3>2
  <2>6. transmitted \subseteq transmitted'
    BY <2>3
  <2>7. UNCHANGED <<incoming_seq, reorder_buffer, ready, received>>
    BY <1>1 DEF send_typed, rxvars
  <2> QED
    BY <2>2, <2>4, <2>5, <2>6, <2>7 DEF OrderInv
<1>2. ASSUME NEW p \in net, NEW keep \in BOOLEAN, deliver(p, keep)
      PROVE  OrderInv'
  <2>1. /\ p.seq = p.payload
        /\ p.payload \in transmitted
        /\ p.payload \in Ordinal
        /\ p.seq \in SeqNum
    BY DEF OrderInv, TypeOK, Packet
  <2>2. net' \subseteq net /\ UNCHANGED <<outgoing_seq, nsent, transmitted, received>>
    BY <1>2 DEF deliver, Transit, txvars
  <2>3. CASE Dispatch(p)
    BY <2>2, <2>3 DEF Dispatch, OrderInv
  <2>4. CASE Accept(p)
    <3>1. PICK n \in 0..(Window - 1) :
             /\ DrainLength(n, p.seq)
             /\ ready' = ready \o <<p.payload>> \o
                         [j \in 1..n |-> reorder_buffer[wrapping_add(p.seq, j)]]
             /\ incoming_seq' = wrapping_add(p.seq, n + 1)
             /\ reorder_buffer' =
                   [s \in DOMAIN reorder_buffer \ {wrapping_add(p.seq, j) : j \in 1..n}
                       |-> reorder_buffer[s]]
      BY <2>4 DEF Accept
    <3>2. p.seq = incoming_seq /\ incoming_seq \in 0..(MaxSends - 1)
      BY <2>1, <2>4 DEF Accept, Ordinal
    <3>3. DrainLength(n, incoming_seq)
      BY <3>1, <3>2
    <3>4. /\ incoming_seq + n < MaxSends
          /\ \A j \in 1..n : /\ wrapping_add(incoming_seq, j) = incoming_seq + j
                             /\ incoming_seq + j \in DOMAIN reorder_buffer
          /\ wrapping_add(incoming_seq, n + 1) = incoming_seq + n + 1
          /\ incoming_seq + n + 1 \notin DOMAIN reorder_buffer
      BY <3>2, <3>3, DrainNoWrap
    <3>5. incoming_seq' = incoming_seq + n + 1
      BY <3>1, <3>2, <3>4
    <3> DEFINE d == [j \in 1..n |-> reorder_buffer[wrapping_add(incoming_seq, j)]]
    <3>6. d \in Seq(Ordinal) /\ Len(d) = n /\ \A j \in 1..n : d[j] = incoming_seq + j
      <4>1. incoming_seq \in SeqNum
        BY DEF TypeOK
      <4>2. /\ d \in Seq(Ordinal)
            /\ Len(d) = n
            /\ \A j \in 1..n : d[j] = reorder_buffer[wrapping_add(incoming_seq, j)]
        BY <3>3, <4>1, DrainedIsSeq
      <4> HIDE DEF d
      <4> QED
        BY <3>4, <4>2 DEF OrderInv
    <3>7. ready' = ready \o <<p.payload>> \o d
      BY <3>1, <3>2
    <3> HIDE DEF d
    <3>8. ready \in Seq(Ordinal)
      BY DEF TypeOK
    <3>9. /\ Len(ready') = Len(ready) + 1 + n
          /\ \A i \in 1..(Len(ready) + 1 + n) :
                ready'[i] = IF i <= Len(ready) THEN ready[i]
                            ELSE IF i = Len(ready) + 1 THEN p.payload
                            ELSE d[i - Len(ready) - 1]
      BY <2>1, <3>6, <3>7, <3>8, AcceptedIsSeq
    <3>10. n \in Nat
      OBVIOUS
    <3>11. incoming_seq' = Len(received') + Len(ready')
      BY <1>0, <2>2, <3>5, <3>9, <3>10 DEF OrderInv
    <3>12. \A i \in 1..Len(ready') : ready'[i] = Len(received') + i - 1
      <4> SUFFICES ASSUME NEW i \in 1..(Len(ready) + 1 + n)
                   PROVE  ready'[i] = Len(received) + i - 1
        BY <2>2, <3>9
      <4>1. CASE i <= Len(ready)
        BY <1>0, <3>9, <3>10, <4>1 DEF OrderInv
      <4>2. CASE i = Len(ready) + 1
        BY <1>0, <2>1, <3>2, <3>9, <3>10, <4>2 DEF OrderInv
      <4>3. CASE i > Len(ready) + 1
        <5>1. i - Len(ready) - 1 \in 1..n
          BY <1>0, <3>10, <4>3
        <5>2. ready'[i] = d[i - Len(ready) - 1]
          BY <1>0, <3>9, <3>10, <4>3
        <5> QED
          BY <1>0, <3>6, <5>1, <5>2 DEF OrderInv
      <4> QED
        BY <1>0, <3>10, <4>1, <4>2, <4>3
    <3>13. 0..(incoming_seq' - 1) \subseteq transmitted'
      <4> SUFFICES ASSUME NEW k \in 0..(incoming_seq + n) PROVE k \in transmitted
        BY <1>0, <2>2, <3>5, <3>10 DEF OrderInv
      <4>1. incoming_seq \in Nat
        BY <3>2
      <4>2. CASE k < incoming_seq
        BY <4>1, <4>2, <3>10 DEF OrderInv
      <4>3. CASE k = incoming_seq
        BY <2>1, <3>2, <4>3
      <4>4. CASE k > incoming_seq
        <5>1. k - incoming_seq \in 1..n /\ incoming_seq + (k - incoming_seq) = k
          BY <4>1, <4>4, <3>10
        <5> QED
          BY <3>4, <5>1 DEF OrderInv
      <4> QED
        BY <4>1, <4>2, <4>3, <4>4, <3>10
    <3>14. \A s \in DOMAIN reorder_buffer' :
              /\ reorder_buffer'[s] = s
              /\ s \in transmitted'
              /\ s > incoming_seq'
              /\ s - incoming_seq' < Window
      <4> SUFFICES ASSUME NEW s \in DOMAIN reorder_buffer'
                   PROVE  /\ reorder_buffer'[s] = s
                          /\ s \in transmitted
                          /\ s > incoming_seq + n + 1
                          /\ s - (incoming_seq + n + 1) < Window
        BY <2>2, <3>5
      <4>1. /\ s \in DOMAIN reorder_buffer
            /\ reorder_buffer'[s] = reorder_buffer[s]
            /\ \A j \in 1..n : s # incoming_seq + j
        BY <3>1, <3>2, <3>4
      <4>2. s \in Nat /\ incoming_seq \in Nat
        BY <3>2, <4>1 DEF TypeOK, SeqNum
      <4>3. /\ reorder_buffer[s] = s
            /\ s \in transmitted
            /\ s > incoming_seq
            /\ s - incoming_seq < Window
        BY <4>1 DEF OrderInv
      <4>4. s # incoming_seq + n + 1
        BY <3>4, <4>1
      <4>5. ~(s <= incoming_seq + n)
        <5> SUFFICES ASSUME s <= incoming_seq + n PROVE FALSE
          OBVIOUS
        <5>1. s - incoming_seq \in 1..n /\ s = incoming_seq + (s - incoming_seq)
          BY <3>10, <4>2, <4>3
        <5> QED
          BY <4>1, <5>1
      <4> QED
        BY <3>10, <4>1, <4>2, <4>3, <4>4, <4>5
    <3> QED
      BY <2>2, <3>11, <3>12, <3>13, <3>14 DEF OrderInv
  <2>5. CASE BufferAhead(p)
    <3>1. p.seq > incoming_seq /\ p.seq - incoming_seq < Window
      BY <2>1, <2>5 DEF BufferAhead, InWindow, wrapping_sub, TypeOK, SeqNum
    <3>2. \A s \in DOMAIN reorder_buffer' :
              /\ reorder_buffer'[s] = s
              /\ s \in transmitted
              /\ s > incoming_seq
              /\ s - incoming_seq < Window
      BY <2>1, <2>5, <3>1 DEF BufferAhead, OrderInv
    <3>3. UNCHANGED <<incoming_seq, ready>>
      BY <2>5 DEF BufferAhead
    <3> QED
      BY <2>2, <3>2, <3>3 DEF OrderInv
  <2>6. CASE Discard(p)
    BY <2>2, <2>6 DEF Discard, OrderInv
  <2> QED
    BY <1>2, <2>3, <2>4, <2>5, <2>6 DEF deliver
<1>3. ASSUME recv PROVE OrderInv'
  <2>1. /\ Head(ready) = ready[1]
        /\ Len(ready) > 0
        /\ Len(ready') = Len(ready) - 1
        /\ \A i \in 1..(Len(ready) - 1) : ready'[i] = ready[i + 1]
    BY <1>0, <1>3, HeadTailProperties DEF recv, TypeOK
  <2>2. /\ Len(received') = Len(received) + 1
        /\ \A i \in 1..Len(received) : received'[i] = received[i]
        /\ received'[Len(received) + 1] = ready[1]
    BY <1>3, <2>1 DEF recv, TypeOK
  <2>3. \A i \in 1..Len(received') : received'[i] = i - 1
    <3> SUFFICES ASSUME NEW i \in 1..(Len(received) + 1) PROVE received'[i] = i - 1
      BY <2>2
    <3>1. CASE i <= Len(received)
      BY <1>0, <2>2, <3>1 DEF OrderInv
    <3>2. CASE i = Len(received) + 1
      <4>1. ready[1] = Len(received) + 1 - 1
        BY <1>0, <2>1 DEF OrderInv
      <4> QED
        BY <1>0, <2>2, <3>2, <4>1
    <3> QED
      BY <1>0, <3>1, <3>2
  <2>4. \A i \in 1..Len(ready') : ready'[i] = Len(received') + i - 1
    BY <1>0, <2>1, <2>2 DEF OrderInv
  <2>5. incoming_seq = Len(received') + Len(ready')
    BY <1>0, <2>1, <2>2 DEF OrderInv
  <2>6. UNCHANGED <<net, outgoing_seq, nsent, transmitted, incoming_seq, reorder_buffer>>
    BY <1>3 DEF recv, txvars
  <2> QED
    BY <2>3, <2>4, <2>5, <2>6 DEF OrderInv
<1>4. ASSUME NEW type \in Types, register_handler(type) PROVE OrderInv'
  BY <1>4 DEF register_handler, OrderInv, txvars
<1>5. ASSUME NEW p \in net, Lose(p) PROVE OrderInv'
  BY <1>5 DEF Lose, OrderInv, txvars, rxvars
<1>6. ASSUME NEW e \in Ends, Relink(e) PROVE OrderInv'
  BY <1>6 DEF Relink, OrderInv, txvars, rxvars
<1>7. ASSUME UNCHANGED vars PROVE OrderInv'
  BY <1>7 DEF vars, OrderInv
<1> QED
  BY <1>1, <1>2, <1>3, <1>4, <1>5, <1>6, <1>7 DEF Next

\* The strengthened invariant holds throughout.
LEMMA OrderInvAlways ==
    ASSUME MaxSends < SeqMod
    PROVE  Spec => [](TypeOK /\ OrderInv)
BY TypeOKInit, TypeOKNext, OrderInvInit, OrderInvNext, PTL DEF Spec

\* The output so far, as one sequence: payloads 0 .. incoming_seq - 1.
LEMMA DeliveredShape ==
    ASSUME TypeOK, OrderInv
    PROVE  /\ Delivered \in Seq(Ordinal)
           /\ Len(Delivered) = incoming_seq
           /\ \A i \in 1..incoming_seq : Delivered[i] = i - 1
<1>1. received \in Seq(Ordinal) /\ ready \in Seq(Ordinal)
  BY DEF TypeOK
<1>2. Len(received) \in Nat /\ Len(ready) \in Nat
  BY <1>1, LenProperties
<1>3. /\ Delivered \in Seq(Ordinal)
      /\ Len(Delivered) = Len(received) + Len(ready)
      /\ \A i \in 1..(Len(received) + Len(ready)) : Delivered[i] =
            IF i <= Len(received) THEN received[i] ELSE ready[i - Len(received)]
  BY <1>1, ConcatProperties DEF Delivered
<1>4. ASSUME NEW i \in 1..(Len(received) + Len(ready)) PROVE Delivered[i] = i - 1
  <2>1. CASE i <= Len(received)
    BY <1>2, <1>3, <2>1, SMTT(30) DEF OrderInv
  <2>2. CASE i > Len(received)
    <3>1. i - Len(received) \in 1..Len(ready)
      BY <1>2, <2>2
    <3>2. ready[i - Len(received)] = Len(received) + (i - Len(received)) - 1
      BY <3>1 DEF OrderInv
    <3> QED
      BY <1>2, <1>3, <2>2, <3>2
  <2> QED
    BY <1>2, <2>1, <2>2
<1> QED
  BY <1>3, <1>4 DEF OrderInv

\* Whatever is lost, duplicated, reordered or refused by the link, deliver() and recv() hand
\* out payload 0, 1, 2, ... with no gap and no duplicate.
THEOREM ChannelInOrder ==
    ASSUME MaxSends < SeqMod
    PROVE  Spec => []InOrder
<1>1. TypeOK /\ OrderInv => InOrder
  BY DeliveredShape DEF InOrder
<1> QED
  BY <1>1, OrderInvAlways, PTL

\* Once send_typed has burned a sequence number (the counter moved, link.send failed) the
\* receiver never delivers anything from that number on.
THEOREM ChannelStopsAtBurnedNumber ==
    ASSUME MaxSends < SeqMod
    PROVE  Spec => []StopsAtBurnedNumber
<1>1. TypeOK /\ OrderInv => StopsAtBurnedNumber
  <2> SUFFICES ASSUME TypeOK, OrderInv, NEW k \in 0..(nsent - 1), k \notin transmitted
               PROVE  Len(Delivered) <= k
    BY DEF StopsAtBurnedNumber
  <2>1. k \notin 0..(incoming_seq - 1)
    BY DEF OrderInv
  <2>2. incoming_seq \in Nat /\ nsent \in Nat
    BY SeqAssumption, BoundAssumption DEF TypeOK, SeqNum
  <2> QED
    BY <2>1, <2>2, DeliveredShape
<1> QED
  BY <1>1, OrderInvAlways, PTL

\* The reorder buffer only ever holds numbers ahead of the next expected one and inside the
\* window, hence fewer than Window of them: a peer cannot make it grow further.
THEOREM ChannelBufferBounded ==
    ASSUME MaxSends < SeqMod
    PROVE  Spec => []BufferStrictlyAhead
<1>1. TypeOK /\ OrderInv => BufferStrictlyAhead
  <2> SUFFICES ASSUME TypeOK, OrderInv PROVE Cardinality(DOMAIN reorder_buffer) < Window
    BY DEF BufferStrictlyAhead, OrderInv
  <2> DEFINE a == incoming_seq + 1
  <2> DEFINE b == incoming_seq + Window - 1
  <2>1. incoming_seq \in Int /\ Window \in Nat /\ Window > 0
    BY SeqAssumption DEF TypeOK, SeqNum
  <2>2. a \in Int /\ b \in Int
    BY <2>1
  <2>3. DOMAIN reorder_buffer \subseteq a..b
    BY <2>1 DEF TypeOK, OrderInv, SeqNum
  <2>4. IsFiniteSet(a..b) /\ Cardinality(a..b) = IF a > b THEN 0 ELSE b - a + 1
    BY <2>2, FS_Interval
  <2>5. Cardinality(DOMAIN reorder_buffer) <= Cardinality(a..b)
    BY <2>3, <2>4, FS_Subset
  <2>6. Cardinality(DOMAIN reorder_buffer) \in Nat
    BY <2>3, <2>4, FS_Subset, FS_CardinalityType
  <2>7. Cardinality(a..b) \in Nat /\ Cardinality(a..b) < Window
    BY <2>1, <2>4
  <2> QED
    BY <2>1, <2>5, <2>6, <2>7
<1> QED
  BY <1>1, OrderInvAlways, PTL

-----------------------------------------------------------------------------
(* Refinement *)

\* An initial range of numbers inside another is no longer than it.
LEMMA RangeInclusion ==
    ASSUME NEW a \in Nat, NEW b \in Nat, 0..(a - 1) \subseteq 0..(b - 1)
    PROVE  a <= b
<1>1. CASE a = 0
  BY <1>1
<1>2. CASE a > 0
  <2>1. a - 1 \in 0..(a - 1)
    BY <1>2
  <2>2. a - 1 \in 0..(b - 1)
    BY <2>1
  <2> QED
    BY <2>2
<1> QED
  BY <1>1, <1>2

\* The output is determined by its length, so a step that lengthens it is OD!Deliver.
LEMMA StepRefines ==
    ASSUME MaxSends < SeqMod, TypeOK, OrderInv, TypeOK', OrderInv', [Next]_vars
    PROVE  [OD!Next]_(OD!vars)
<1> USE SeqAssumption, BoundAssumption
<1>1. /\ Delivered \in Seq(Ordinal)
      /\ Len(Delivered) = incoming_seq
      /\ \A i \in 1..incoming_seq : Delivered[i] = i - 1
  BY DeliveredShape
<1>2. /\ Delivered' \in Seq(Ordinal)
      /\ Len(Delivered') = incoming_seq'
      /\ \A i \in 1..incoming_seq' : Delivered'[i] = i - 1
  <2>1. TypeOK' /\ OrderInv' =>
           (/\ Delivered \in Seq(Ordinal)
            /\ Len(Delivered) = incoming_seq
            /\ \A i \in 1..incoming_seq : Delivered[i] = i - 1)'
    BY DeliveredShape, PTL
  <2> QED
    BY <2>1
<1>3. /\ incoming_seq \in Nat
      /\ incoming_seq' \in Nat
      /\ nsent \in Nat
      /\ nsent' \in Nat
  BY DEF TypeOK, SeqNum
<1>4. incoming_seq' <= nsent'
  <2>1. 0..(incoming_seq' - 1) \subseteq 0..(nsent' - 1)
    BY DEF OrderInv
  <2> QED
    BY <1>3, <2>1, RangeInclusion
<1>5. Delivered' = [i \in 1..incoming_seq' |-> i - 1]
  BY <1>2, <1>3
<1>6. ASSUME incoming_seq' = incoming_seq PROVE Delivered' = Delivered
  BY <1>1, <1>2, <1>3, <1>6, SeqEqual
<1>7. ASSUME NEW type \in Types, NEW len \in PayloadSizes, send_typed(type, len)
      PROVE  OD!Next
  <2>1. nsent' = nsent + 1 /\ incoming_seq' = incoming_seq
    BY <1>7 DEF send_typed, rxvars
  <2> QED
    BY <1>6, <2>1 DEF OD!Next, OD!Send
<1>8. ASSUME NEW p \in net, NEW keep \in BOOLEAN, deliver(p, keep)
      PROVE  OD!Next \/ UNCHANGED OD!vars
  <2>1. nsent' = nsent
    BY <1>8 DEF deliver, txvars
  <2>2. incoming_seq' >= incoming_seq
    <3>1. CASE Accept(p)
      <4>1. p.seq = incoming_seq
        BY <3>1 DEF Accept
      <4>2. PICK n \in 0..(Window - 1) :
               DrainLength(n, p.seq) /\ incoming_seq' = wrapping_add(p.seq, n + 1)
        BY <3>1 DEF Accept
      <4>3. incoming_seq \in 0..(MaxSends - 1)
        <5>1. p.seq = p.payload /\ p.payload \in Ordinal
          BY DEF OrderInv, TypeOK, Packet
        <5> QED
          BY <4>1, <5>1 DEF Ordinal
      <4>4. wrapping_add(incoming_seq, n + 1) = incoming_seq + n + 1
        BY <4>1, <4>2, <4>3, DrainNoWrap
      <4> QED
        BY <1>3, <4>1, <4>2, <4>4
    <3>2. CASE ~Accept(p)
      BY <1>3, <1>8, <3>2 DEF deliver, Dispatch, BufferAhead, Discard
    <3> QED
      BY <3>1, <3>2
  <2>3. CASE incoming_seq' = incoming_seq
    BY <1>6, <2>1, <2>3 DEF OD!vars
  <2>4. CASE incoming_seq' > incoming_seq
    <3>1. incoming_seq' \in (Len(Delivered) + 1)..nsent
      BY <1>1, <1>3, <1>4, <2>1, <2>4
    <3> QED
      BY <1>5, <2>1, <3>1 DEF OD!Next, OD!Deliver
  <2> QED
    BY <1>3, <2>2, <2>3, <2>4
<1>9. ASSUME UNCHANGED <<nsent, incoming_seq>> PROVE UNCHANGED OD!vars
  BY <1>6, <1>9 DEF OD!vars
<1>10. ASSUME \/ recv
              \/ \E type \in Types \ {"SMT_CHANNEL_DATA"} : register_handler(type)
              \/ \E p \in net : Lose(p)
              \/ \E e \in Ends : Relink(e)
              \/ UNCHANGED vars
       PROVE  UNCHANGED <<nsent, incoming_seq>>
  BY <1>10 DEF recv, register_handler, Lose, Relink, vars, txvars, rxvars
<1> QED
  BY <1>7, <1>8, <1>9, <1>10 DEF Next

\* Channel implements OrderedDelivery: accepting a payload is Send, an in-order delivery with
\* its drained successors is Deliver, and every other step leaves the promise untouched.
THEOREM ChannelImplementsOrderedDelivery ==
    ASSUME MaxSends < SeqMod
    PROVE  Spec => ImplementsOrderedDelivery
<1>1. Init => OD!Init
  BY DEF Init, OD!Init, Delivered
<1>2. TypeOK /\ OrderInv /\ TypeOK' /\ OrderInv' /\ [Next]_vars => [OD!Next]_(OD!vars)
  BY StepRefines
<1>3. Spec => [](TypeOK /\ OrderInv)
  BY OrderInvAlways
<1> QED
  BY <1>1, <1>2, <1>3, PTL DEF Spec, ImplementsOrderedDelivery, OD!Spec
=============================================================================
