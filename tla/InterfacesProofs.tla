-------------------------- MODULE InterfacesProofs --------------------------
(***************************************************************************)
(* Proofs about PacketLine, the bytes between two transports, and about    *)
(* Interfaces, the connections and threads that carry them.                *)
(*                                                                         *)
(* First PacketLine, for any MTU, hash length, messages, noise and bounds: *)
(* what FlattenSeq and the functions that go through a sequence compute,   *)
(* the decoders byte by byte, whole frames, packets on the wire, the cut   *)
(* of a message and its reassembly, and last the invariant.  Induction is  *)
(* over sets of numbers or sequences (SetInduction, SequenceInduction).    *)
(* Then Interfaces, for any capacity of the channel, any number of         *)
(* sessions, connections, frames and read errors: first the tasks, threads *)
(* and the port (InterfacesInv), then the frames on their way through TCP  *)
(* connections (TcpInv) and over a serial line (SerialInv).                *)
(***************************************************************************)
EXTENDS Interfaces, PacketLine, TLAPS, SequenceTheorems, FiniteSetTheorems, WellFoundedInduction

\* Induction over the natural numbers, for a set.
LEMMA SetInduction ==
    ASSUME NEW T, 0 \in T, \A n \in Nat : n \in T => n + 1 \in T
    PROVE  Nat \subseteq T
<1>1. SUFFICES ASSUME Nat \ T # {} PROVE FALSE
  OBVIOUS
<1>2. OpToRel(<, Nat) = {w \in Nat \X Nat : w[1] < w[2]}
  BY DEF OpToRel
<1>3. IsWellFoundedOn({w \in Nat \X Nat : w[1] < w[2]}, Nat)
  BY <1>2, NatLessThanWellFounded, ZenonT(60)
<1>4. PICK x \in Nat \ T : \A y \in Nat \ T : ~(<<y, x>> \in {w \in Nat \X Nat : w[1] < w[2]})
  BY <1>1, <1>3, WFMin
<1>5. x # 0 /\ x - 1 \in Nat /\ x - 1 < x
  BY ONLY <1>4, 0 \in T
<1>6. x - 1 \in T
  BY <1>4, <1>5
<1>7. (x - 1) + 1 \in T
  BY ONLY <1>5, <1>6, \A n \in Nat : n \in T => n + 1 \in T
<1> QED
  BY <1>4, <1>5, <1>7

-----------------------------------------------------------------------------
(* Flattening *)

\* The recursion of FlattenSeq up to n.
FlattensTo(n, s, f) == f = [i \in 1..n |-> IF i = 1 THEN s[i] ELSE f[i - 1] \o s[i]]

\* There is such a function.
LEMMA FlattenExists ==
    ASSUME NEW s, NEW n \in Nat
    PROVE  \E f : FlattensTo(n, s, f)
<1> DEFINE T == {k \in Nat : \E f : FlattensTo(k, s, f)}
<1>1. 0 \in T
  <2>1. FlattensTo(0, s, [i \in 1..0 |-> s[i]])
    BY DEF FlattensTo
  <2> QED
    BY <2>1
<1>2. ASSUME NEW k \in Nat, k \in T PROVE k + 1 \in T
  <2>1. PICK f : FlattensTo(k, s, f)
    BY <1>2
  <2> DEFINE g == [i \in 1..(k + 1) |->
                     IF i <= k THEN f[i] ELSE IF i = 1 THEN s[i] ELSE f[k] \o s[i]]
  <2>2. ASSUME NEW i \in 1..(k + 1)
        PROVE  g[i] = IF i = 1 THEN s[i] ELSE g[i - 1] \o s[i]
    <3>1. CASE i <= k
      <4>1. i \in 1..k /\ g[i] = f[i]
        BY <3>1
      <4>2. f[i] = IF i = 1 THEN s[i] ELSE f[i - 1] \o s[i]
        BY <2>1, <4>1 DEF FlattensTo
      <4>3. i # 1 => g[i - 1] = f[i - 1]
        BY <3>1
      <4> QED
        BY <4>1, <4>2, <4>3
    <3>2. CASE i = k + 1
      BY <3>2
    <3> QED
      BY <3>1, <3>2
  <2>3. FlattensTo(k + 1, s, g)
    BY <2>2 DEF FlattensTo
  <2> QED
    BY <2>3
<1> HIDE DEF T
<1>3. n \in T
  BY <1>1, <1>2, SetInduction
<1> QED
  BY <1>3 DEF T

\* What FlattenSeq computes on the way.
Flat(n, s) == CHOOSE f : FlattensTo(n, s, f)

\* Each of its values from the one before.
LEMMA FlatValues ==
    ASSUME NEW s, NEW n \in Nat
    PROVE  \A i \in 1..n : Flat(n, s)[i] = IF i = 1 THEN s[i] ELSE Flat(n, s)[i - 1] \o s[i]
<1>1. FlattensTo(n, s, Flat(n, s))
  BY FlattenExists DEF Flat
<1> QED
  BY <1>1 DEF FlattensTo

\* FlattenSeq returns the last of them.
LEMMA FlattenIsFlat ==
    ASSUME NEW s, Len(s) # 0
    PROVE  FlattenSeq(s) = Flat(Len(s), s)[Len(s)]
BY DEF FlattenSeq, Flat, FlattensTo

\* Nothing, flattened.
LEMMA FlattenEmpty == FlattenSeq(<<>>) = <<>>
BY DEF FlattenSeq

\* It depends on the part of the sequence that is flattened only.
LEMMA FlatOfPrefix ==
    ASSUME NEW s, NEW t, NEW n \in Nat, NEW m \in Nat, n <= m, \A i \in 1..n : s[i] = t[i]
    PROVE  \A i \in 1..n : Flat(n, s)[i] = Flat(m, t)[i]
<1> DEFINE T == {k \in Nat : k \in 1..n => Flat(n, s)[k] = Flat(m, t)[k]}
<1>1. 0 \in T
  OBVIOUS
<1>2. ASSUME NEW k \in Nat, k \in T PROVE k + 1 \in T
  <2>1. SUFFICES ASSUME k + 1 \in 1..n PROVE Flat(n, s)[k + 1] = Flat(m, t)[k + 1]
    OBVIOUS
  <2>2. Flat(n, s)[k + 1] = IF k + 1 = 1 THEN s[k + 1] ELSE Flat(n, s)[(k + 1) - 1] \o s[k + 1]
    BY <2>1, FlatValues
  <2>3. k + 1 \in 1..m
    BY <2>1
  <2>4. Flat(m, t)[k + 1] = IF k + 1 = 1 THEN t[k + 1] ELSE Flat(m, t)[(k + 1) - 1] \o t[k + 1]
    BY <2>3, FlatValues
  <2>5. s[k + 1] = t[k + 1] /\ (k + 1) - 1 = k
    BY <2>1
  <2>6. k + 1 # 1 => Flat(n, s)[k] = Flat(m, t)[k]
    BY <1>2, <2>1
  <2> QED
    BY <2>2, <2>4, <2>5, <2>6
<1> HIDE DEF T
<1>3. Nat \subseteq T
  BY <1>1, <1>2, SetInduction
<1> QED
  BY <1>3 DEF T

\* The result is a sequence of the elements of the parts.
LEMMA FlattenType ==
    ASSUME NEW S, NEW s \in Seq(Seq(S))
    PROVE  FlattenSeq(s) \in Seq(S)
<1>1. CASE Len(s) = 0
  <2>1. s = <<>>
    BY <1>1
  <2>2. FlattenSeq(s) = <<>>
    BY ONLY <2>1, FlattenEmpty
  <2>3. <<>> \in Seq(S)
    OBVIOUS
  <2> QED
    BY ONLY <2>2, <2>3
<1>2. CASE Len(s) # 0
  <2> DEFINE n == Len(s)
             T == {k \in Nat : k \in 1..n => Flat(n, s)[k] \in Seq(S)}
  <2>0. n \in Nat /\ \A i \in 1..n : s[i] \in Seq(S)
    OBVIOUS
  <2>1. 0 \in T
    OBVIOUS
  <2>2. ASSUME NEW k \in Nat, k \in T PROVE k + 1 \in T
    <3>1. SUFFICES ASSUME k + 1 \in 1..n PROVE Flat(n, s)[k + 1] \in Seq(S)
      OBVIOUS
    <3>2. Flat(n, s)[k + 1] = IF k + 1 = 1 THEN s[k + 1] ELSE Flat(n, s)[(k + 1) - 1] \o s[k + 1]
      BY <2>0, <3>1, FlatValues
    <3>3. (k + 1) - 1 = k /\ s[k + 1] \in Seq(S)
      BY <2>0, <3>1
    <3>4. k + 1 # 1 => Flat(n, s)[k] \in Seq(S)
      BY <2>2, <3>1
    <3> HIDE DEF n, T
    <3> QED
      BY <3>2, <3>3, <3>4
  <2> HIDE DEF T
  <2>3. Nat \subseteq T
    BY <2>1, <2>2, SetInduction
  <2>4. Flat(n, s)[n] \in Seq(S)
    BY <1>2, <2>0, <2>3 DEF T
  <2> QED
    BY <1>2, <2>4, FlattenIsFlat
<1> QED
  BY <1>1, <1>2

\* One part more.
LEMMA FlattenAppend ==
    ASSUME NEW S, NEW s \in Seq(Seq(S)), NEW e \in Seq(S)
    PROVE  FlattenSeq(Append(s, e)) = FlattenSeq(s) \o e
<1> DEFINE t == Append(s, e)
           n == Len(s)
<1>1. n \in Nat /\ Len(t) = n + 1 /\ Len(t) # 0 /\ t[n + 1] = e /\ \A i \in 1..n : s[i] = t[i]
  OBVIOUS
<1> HIDE DEF t, n
<1>2. FlattenSeq(t) = Flat(n + 1, t)[n + 1]
  BY <1>1, FlattenIsFlat
<1>3. Flat(n + 1, t)[n + 1] = IF n + 1 = 1 THEN t[n + 1] ELSE Flat(n + 1, t)[(n + 1) - 1] \o t[n + 1]
  BY <1>1, FlatValues
<1>4. CASE n = 0
  <2>1. s = <<>>
    BY <1>4 DEF n
  <2>2. FlattenSeq(t) = e
    BY <1>1, <1>2, <1>3, <1>4
  <2> QED
    BY <2>1, <2>2, FlattenEmpty, SMTT(60) DEF t
<1>5. CASE n # 0
  <2>1. Flat(n, s)[n] = Flat(n + 1, t)[n]
    BY <1>1, <1>5, FlatOfPrefix
  <2>2. FlattenSeq(s) = Flat(n, s)[n]
    BY <1>5, FlattenIsFlat DEF n
  <2>3. (n + 1) - 1 = n /\ n + 1 # 1
    BY <1>1, <1>5
  <2> QED
    BY <1>1, <1>2, <1>3, <2>1, <2>2, <2>3 DEF t
<1> QED
  BY <1>4, <1>5

-----------------------------------------------------------------------------
(* Recursions along a sequence *)

\* The recursion of FeedAll up to n.
Feeds(n, fr, d, bytes, f) ==
    f = [i \in 0..n |-> IF i = 0 THEN More(d) ELSE FeedByte(fr, f[i - 1], bytes[i])]

\* There is such a function.
LEMMA FeedsExists ==
    ASSUME NEW fr, NEW d, NEW bytes, NEW n \in Nat
    PROVE  \E f : Feeds(n, fr, d, bytes, f)
<1> DEFINE T == {k \in Nat : \E f : Feeds(k, fr, d, bytes, f)}
<1>1. 0 \in T
  <2>1. Feeds(0, fr, d, bytes, [i \in 0..0 |-> More(d)])
    BY DEF Feeds
  <2> QED
    BY <2>1
<1>2. ASSUME NEW k \in Nat, k \in T PROVE k + 1 \in T
  <2>1. PICK f : Feeds(k, fr, d, bytes, f)
    BY <1>2
  <2> DEFINE g == [i \in 0..(k + 1) |-> IF i <= k THEN f[i] ELSE FeedByte(fr, f[i - 1], bytes[i])]
  <2>2. ASSUME NEW i \in 0..(k + 1)
        PROVE  g[i] = IF i = 0 THEN More(d) ELSE FeedByte(fr, g[i - 1], bytes[i])
    <3>1. CASE i <= k
      <4>1. i \in 0..k /\ g[i] = f[i]
        BY <3>1
      <4>2. f[i] = IF i = 0 THEN More(d) ELSE FeedByte(fr, f[i - 1], bytes[i])
        BY <2>1, <4>1 DEF Feeds
      <4>3. i # 0 => g[i - 1] = f[i - 1]
        BY <3>1
      <4> QED
        BY <4>1, <4>2, <4>3
    <3>2. CASE i = k + 1
      <4>1. i # 0 /\ g[i] = FeedByte(fr, f[i - 1], bytes[i]) /\ g[i - 1] = f[i - 1]
        BY <3>2
      <4> QED
        BY <4>1
    <3> QED
      BY <3>1, <3>2
  <2>3. Feeds(k + 1, fr, d, bytes, g)
    BY <2>2 DEF Feeds
  <2> QED
    BY <2>3
<1> HIDE DEF T
<1>3. n \in T
  BY <1>1, <1>2, SetInduction
<1> QED
  BY <1>3 DEF T

\* What FeedAll computes on the way.
Fed(n, fr, d, bytes) == CHOOSE f : Feeds(n, fr, d, bytes, f)

\* Each of its values from the one before.
LEMMA FedValues ==
    ASSUME NEW fr, NEW d, NEW bytes, NEW n \in Nat
    PROVE  \A i \in 0..n : Fed(n, fr, d, bytes)[i] =
              IF i = 0 THEN More(d) ELSE FeedByte(fr, Fed(n, fr, d, bytes)[i - 1], bytes[i])
<1>1. Feeds(n, fr, d, bytes, Fed(n, fr, d, bytes))
  BY FeedsExists DEF Fed
<1> QED
  BY <1>1 DEF Feeds

\* It depends on what was read so far only.
LEMMA FedOfPrefix ==
    ASSUME NEW fr, NEW d, NEW bytes, NEW bytes2, NEW n \in Nat, NEW m \in Nat, n <= m,
           \A i \in 1..n : bytes[i] = bytes2[i]
    PROVE  \A i \in 0..n : Fed(n, fr, d, bytes)[i] = Fed(m, fr, d, bytes2)[i]
<1> DEFINE T == {k \in Nat : k \in 0..n => Fed(n, fr, d, bytes)[k] = Fed(m, fr, d, bytes2)[k]}
<1>1. 0 \in T
  BY FedValues
<1>2. ASSUME NEW k \in Nat, k \in T PROVE k + 1 \in T
  <2>1. SUFFICES ASSUME k + 1 \in 0..n PROVE Fed(n, fr, d, bytes)[k + 1] = Fed(m, fr, d, bytes2)[k + 1]
    OBVIOUS
  <2>2. k + 1 \in 0..m /\ k + 1 # 0 /\ (k + 1) - 1 = k /\ k \in 0..n /\ bytes[k + 1] = bytes2[k + 1]
    BY <2>1
  <2>3. Fed(n, fr, d, bytes)[k + 1] = FeedByte(fr, Fed(n, fr, d, bytes)[k], bytes[k + 1])
    BY <2>1, <2>2, FedValues
  <2>4. Fed(m, fr, d, bytes2)[k + 1] = FeedByte(fr, Fed(m, fr, d, bytes2)[k], bytes2[k + 1])
    BY <2>2, FedValues
  <2>5. Fed(n, fr, d, bytes)[k] = Fed(m, fr, d, bytes2)[k]
    BY <1>2, <2>2
  <2> QED
    BY <2>2, <2>3, <2>4, <2>5
<1> HIDE DEF T
<1>3. Nat \subseteq T
  BY <1>1, <1>2, SetInduction
<1> QED
  BY <1>3 DEF T

\* The recursion of DecodeInner up to n.
Decodes(n, total, inner, f) ==
    f = [i \in 0..n |-> IF i = 0 THEN NewDecoder ELSE DecodeByte(f[i - 1], inner[i], i = total)]

\* There is such a function.
LEMMA DecodesExists ==
    ASSUME NEW total, NEW inner, NEW n \in Nat
    PROVE  \E f : Decodes(n, total, inner, f)
<1> DEFINE T == {k \in Nat : \E f : Decodes(k, total, inner, f)}
<1>1. 0 \in T
  <2>1. Decodes(0, total, inner, [i \in 0..0 |-> NewDecoder])
    BY DEF Decodes
  <2> QED
    BY <2>1
<1>2. ASSUME NEW k \in Nat, k \in T PROVE k + 1 \in T
  <2>1. PICK f : Decodes(k, total, inner, f)
    BY <1>2
  <2> DEFINE g == [i \in 0..(k + 1) |-> IF i <= k THEN f[i] ELSE DecodeByte(f[i - 1], inner[i], i = total)]
  <2>2. ASSUME NEW i \in 0..(k + 1)
        PROVE  g[i] = IF i = 0 THEN NewDecoder ELSE DecodeByte(g[i - 1], inner[i], i = total)
    <3>1. CASE i <= k
      <4>1. i \in 0..k /\ g[i] = f[i]
        BY <3>1
      <4>2. f[i] = IF i = 0 THEN NewDecoder ELSE DecodeByte(f[i - 1], inner[i], i = total)
        BY <2>1, <4>1 DEF Decodes
      <4>3. i # 0 => g[i - 1] = f[i - 1]
        BY <3>1
      <4> QED
        BY <4>1, <4>2, <4>3
    <3>2. CASE i = k + 1
      <4>1. i # 0 /\ g[i] = DecodeByte(f[i - 1], inner[i], i = total) /\ g[i - 1] = f[i - 1]
        BY <3>2
      <4> QED
        BY <4>1
    <3> QED
      BY <3>1, <3>2
  <2>3. Decodes(k + 1, total, inner, g)
    BY <2>2 DEF Decodes
  <2> QED
    BY <2>3
<1> HIDE DEF T
<1>3. n \in T
  BY <1>1, <1>2, SetInduction
<1> QED
  BY <1>3 DEF T

\* What DecodeInner computes on the way.
DecodedBy(n, total, inner) == CHOOSE f : Decodes(n, total, inner, f)

\* Each of its values from the one before.
LEMMA DecodedByValues ==
    ASSUME NEW total, NEW inner, NEW n \in Nat
    PROVE  \A i \in 0..n : DecodedBy(n, total, inner)[i] =
              IF i = 0 THEN NewDecoder ELSE DecodeByte(DecodedBy(n, total, inner)[i - 1], inner[i], i = total)
<1>1. Decodes(n, total, inner, DecodedBy(n, total, inner))
  BY DecodesExists DEF DecodedBy
<1> QED
  BY <1>1 DEF Decodes

\* It depends on what was read so far only.
LEMMA DecodedByOfPrefix ==
    ASSUME NEW total, NEW inner, NEW inner2, NEW n \in Nat, NEW m \in Nat, n <= m,
           \A i \in 1..n : inner[i] = inner2[i]
    PROVE  \A i \in 0..n : DecodedBy(n, total, inner)[i] = DecodedBy(m, total, inner2)[i]
<1> DEFINE T == {k \in Nat : k \in 0..n => DecodedBy(n, total, inner)[k] = DecodedBy(m, total, inner2)[k]}
<1>1. 0 \in T
  BY DecodedByValues
<1>2. ASSUME NEW k \in Nat, k \in T PROVE k + 1 \in T
  <2>1. SUFFICES ASSUME k + 1 \in 0..n PROVE DecodedBy(n, total, inner)[k + 1] = DecodedBy(m, total, inner2)[k + 1]
    OBVIOUS
  <2>2. k + 1 \in 0..m /\ k + 1 # 0 /\ (k + 1) - 1 = k /\ k \in 0..n /\ inner[k + 1] = inner2[k + 1]
    BY <2>1
  <2>3. DecodedBy(n, total, inner)[k + 1] = DecodeByte(DecodedBy(n, total, inner)[k], inner[k + 1], k + 1 = total)
    BY <2>1, <2>2, DecodedByValues
  <2>4. DecodedBy(m, total, inner2)[k + 1] = DecodeByte(DecodedBy(m, total, inner2)[k], inner2[k + 1], k + 1 = total)
    BY <2>2, DecodedByValues
  <2>5. DecodedBy(n, total, inner)[k] = DecodedBy(m, total, inner2)[k]
    BY <1>2, <2>2
  <2> QED
    BY <2>2, <2>3, <2>4, <2>5
<1> HIDE DEF T
<1>3. Nat \subseteq T
  BY <1>1, <1>2, SetInduction
<1> QED
  BY <1>3 DEF T

\* The recursion of recv_packets up to n.
Receives(n, r, packets, f) ==
    f = [i \in 0..n |-> IF i = 0 THEN r ELSE recv_packet(f[i - 1], packets[i])]

\* There is such a function.
LEMMA ReceivesExists ==
    ASSUME NEW r, NEW packets, NEW n \in Nat
    PROVE  \E f : Receives(n, r, packets, f)
<1> DEFINE T == {k \in Nat : \E f : Receives(k, r, packets, f)}
<1>1. 0 \in T
  <2>1. Receives(0, r, packets, [i \in 0..0 |-> r])
    BY DEF Receives
  <2> QED
    BY <2>1
<1>2. ASSUME NEW k \in Nat, k \in T PROVE k + 1 \in T
  <2>1. PICK f : Receives(k, r, packets, f)
    BY <1>2
  <2> DEFINE g == [i \in 0..(k + 1) |-> IF i <= k THEN f[i] ELSE recv_packet(f[i - 1], packets[i])]
  <2>2. ASSUME NEW i \in 0..(k + 1)
        PROVE  g[i] = IF i = 0 THEN r ELSE recv_packet(g[i - 1], packets[i])
    <3>1. CASE i <= k
      <4>1. i \in 0..k /\ g[i] = f[i]
        BY <3>1
      <4>2. f[i] = IF i = 0 THEN r ELSE recv_packet(f[i - 1], packets[i])
        BY <2>1, <4>1 DEF Receives
      <4>3. i # 0 => g[i - 1] = f[i - 1]
        BY <3>1
      <4> QED
        BY <4>1, <4>2, <4>3
    <3>2. CASE i = k + 1
      <4>1. i # 0 /\ g[i] = recv_packet(f[i - 1], packets[i]) /\ g[i - 1] = f[i - 1]
        BY <3>2
      <4> QED
        BY <4>1
    <3> QED
      BY <3>1, <3>2
  <2>3. Receives(k + 1, r, packets, g)
    BY <2>2 DEF Receives
  <2> QED
    BY <2>3
<1> HIDE DEF T
<1>3. n \in T
  BY <1>1, <1>2, SetInduction
<1> QED
  BY <1>3 DEF T

\* What recv_packets computes on the way.
After(n, r, packets) == CHOOSE f : Receives(n, r, packets, f)

\* Each of its values from the one before.
LEMMA AfterValues ==
    ASSUME NEW r, NEW packets, NEW n \in Nat
    PROVE  \A i \in 0..n : After(n, r, packets)[i] =
              IF i = 0 THEN r ELSE recv_packet(After(n, r, packets)[i - 1], packets[i])
<1>1. Receives(n, r, packets, After(n, r, packets))
  BY ReceivesExists DEF After
<1> QED
  BY <1>1 DEF Receives

\* It depends on what was read so far only.
LEMMA AfterOfPrefix ==
    ASSUME NEW r, NEW packets, NEW packets2, NEW n \in Nat, NEW m \in Nat, n <= m,
           \A i \in 1..n : packets[i] = packets2[i]
    PROVE  \A i \in 0..n : After(n, r, packets)[i] = After(m, r, packets2)[i]
<1> DEFINE T == {k \in Nat : k \in 0..n => After(n, r, packets)[k] = After(m, r, packets2)[k]}
<1>1. 0 \in T
  BY AfterValues
<1>2. ASSUME NEW k \in Nat, k \in T PROVE k + 1 \in T
  <2>1. SUFFICES ASSUME k + 1 \in 0..n PROVE After(n, r, packets)[k + 1] = After(m, r, packets2)[k + 1]
    OBVIOUS
  <2>2. k + 1 \in 0..m /\ k + 1 # 0 /\ (k + 1) - 1 = k /\ k \in 0..n /\ packets[k + 1] = packets2[k + 1]
    BY <2>1
  <2>3. After(n, r, packets)[k + 1] = recv_packet(After(n, r, packets)[k], packets[k + 1])
    BY <2>1, <2>2, AfterValues
  <2>4. After(m, r, packets2)[k + 1] = recv_packet(After(m, r, packets2)[k], packets2[k + 1])
    BY <2>2, AfterValues
  <2>5. After(n, r, packets)[k] = After(m, r, packets2)[k]
    BY <1>2, <2>2
  <2> QED
    BY <2>2, <2>3, <2>4, <2>5
<1> HIDE DEF T
<1>3. Nat \subseteq T
  BY <1>1, <1>2, SetInduction
<1> QED
  BY <1>3 DEF T

\* No byte leaves the decoder as it is.
LEMMA FeedEmpty ==
    ASSUME NEW fr, NEW d
    PROVE  FeedAll(fr, d, <<>>) = More(d)
<1>1. FeedAll(fr, d, <<>>) = Fed(0, fr, d, <<>>)[0]
  BY DEF FeedAll, Fed, Feeds
<1> QED
  BY <1>1, FedValues

\* FeedAll returns the last of what it computes on the way.
LEMMA FeedIsFed ==
    ASSUME NEW fr, NEW d, NEW bytes
    PROVE  FeedAll(fr, d, bytes) = Fed(Len(bytes), fr, d, bytes)[Len(bytes)]
BY DEF FeedAll, Fed, Feeds

\* One byte more is fed to what the others left.
LEMMA FeedAppend ==
    ASSUME NEW fr, NEW d, NEW S, NEW bytes \in Seq(S), NEW x \in S
    PROVE  FeedAll(fr, d, Append(bytes, x)) = FeedByte(fr, FeedAll(fr, d, bytes), x)
<1> DEFINE t == Append(bytes, x)
           n == Len(bytes)
<1>1. n \in Nat /\ Len(t) = n + 1 /\ t[n + 1] = x /\ \A i \in 1..n : bytes[i] = t[i]
  OBVIOUS
<1> HIDE DEF t, n
<1>2. FeedAll(fr, d, t) = Fed(n + 1, fr, d, t)[n + 1]
  BY <1>1, FeedIsFed
<1>3. (n + 1) # 0 /\ (n + 1) - 1 = n /\ n + 1 \in 0..(n + 1) /\ n <= n + 1 /\ n \in 0..n /\ n + 1 \in Nat
  BY <1>1
<1>4. Fed(n + 1, fr, d, t)[n + 1] = FeedByte(fr, Fed(n + 1, fr, d, t)[n], x)
  BY <1>1, <1>3, FedValues
<1>5. Fed(n, fr, d, bytes)[n] = Fed(n + 1, fr, d, t)[n]
  BY <1>1, <1>3, FedOfPrefix
<1>6. FeedAll(fr, d, bytes) = Fed(n, fr, d, bytes)[n]
  BY FeedIsFed DEF n
<1> QED
  BY <1>2, <1>4, <1>5, <1>6 DEF t

\* recv_packets returns the last of what it computes on the way.
LEMMA ReceiveIsAfter ==
    ASSUME NEW r, NEW packets
    PROVE  recv_packets(r, packets) = After(Len(packets), r, packets)[Len(packets)]
BY DEF recv_packets, After, Receives

\* No packet changes nothing, one packet more is received after the others.
LEMMA ReceiveNone ==
    ASSUME NEW r
    PROVE  recv_packets(r, <<>>) = r
<1>1. recv_packets(r, <<>>) = After(0, r, <<>>)[0]
  BY DEF recv_packets, After, Receives
<1> QED
  BY <1>1, AfterValues

\* One packet more is received after the others.
LEMMA ReceiveAppend ==
    ASSUME NEW r, NEW S, NEW packets \in Seq(S), NEW x \in S
    PROVE  recv_packets(r, Append(packets, x)) = recv_packet(recv_packets(r, packets), x)
<1> DEFINE t == Append(packets, x)
           n == Len(packets)
<1>1. n \in Nat /\ Len(t) = n + 1 /\ t[n + 1] = x /\ \A i \in 1..n : packets[i] = t[i]
  OBVIOUS
<1> HIDE DEF t, n
<1>2. recv_packets(r, t) = After(n + 1, r, t)[n + 1]
  BY <1>1, ReceiveIsAfter
<1>3. (n + 1) # 0 /\ (n + 1) - 1 = n /\ n + 1 \in 0..(n + 1) /\ n <= n + 1 /\ n \in 0..n /\ n + 1 \in Nat
  BY <1>1
<1>4. After(n + 1, r, t)[n + 1] = recv_packet(After(n + 1, r, t)[n], x)
  BY <1>1, <1>3, AfterValues
<1>5. After(n, r, packets)[n] = After(n + 1, r, t)[n]
  BY <1>1, <1>3, AfterOfPrefix
<1>6. recv_packets(r, packets) = After(n, r, packets)[n]
  BY ReceiveIsAfter DEF n
<1> QED
  BY <1>2, <1>4, <1>5, <1>6 DEF t

\* One packet.
LEMMA ReceiveOne ==
    ASSUME NEW r, NEW x
    PROVE  recv_packets(r, <<x>>) = recv_packet(r, x)
<1>1. <<>> \in Seq({x}) /\ x \in {x} /\ Append(<<>>, x) = <<x>>
  OBVIOUS
<1>2. recv_packets(r, Append(<<>>, x)) = recv_packet(recv_packets(r, <<>>), x)
  BY <1>1, ReceiveAppend, ZenonT(60)
<1> QED
  BY <1>1, <1>2, ReceiveNone

\* Induction over sequences, for a set.
LEMMA SequenceInduction ==
    ASSUME NEW S, NEW T, <<>> \in T,
           \A s \in Seq(S) : \A x \in S : s \in T => Append(s, x) \in T
    PROVE  Seq(S) \subseteq T
<1> DEFINE N == {n \in Nat : \A s \in Seq(S) : Len(s) = n => s \in T}
<1>1. 0 \in N
  <2>1. \A s \in Seq(S) : Len(s) = 0 => s = <<>>
    OBVIOUS
  <2> QED
    BY <2>1
<1>2. ASSUME NEW n \in Nat, n \in N PROVE n + 1 \in N
  <2>1. SUFFICES ASSUME NEW s \in Seq(S), Len(s) = n + 1 PROVE s \in T
    OBVIOUS
  <2>2. SubSeq(s, 1, n) \in Seq(S) /\ Len(SubSeq(s, 1, n)) = n /\ s[n + 1] \in S
    BY <2>1
  <2>3. s = Append(SubSeq(s, 1, n), s[n + 1])
    BY <2>1
  <2>4. SubSeq(s, 1, n) \in T
    BY <1>2, <2>2
  <2> QED
    BY <2>2, <2>3, <2>4
<1> HIDE DEF N
<1>3. Nat \subseteq N
  BY <1>1, <1>2, SetInduction
<1>4. ASSUME NEW s \in Seq(S) PROVE s \in T
  <2>1. Len(s) \in N
    BY <1>3
  <2> QED
    BY <2>1 DEF N
<1> QED
  BY <1>4

-----------------------------------------------------------------------------
(* Escaping *)

\* The code of a byte in a frame.
HdlcCode(x) == IF x \in {FLAG, ESC} THEN <<ESC, XorMask(x)>> ELSE <<x>>

KissCode(x) ==
    CASE x = FESC -> <<FESC, TFESC>>
      [] x = FEND -> <<FESC, TFEND>>
      [] OTHER -> <<x>>

\* A byte with one bit flipped is a byte; the two bytes that are escaped come back.
LEMMA XorBytes ==
    /\ \A x \in Byte : XorMask(x) \in Byte
    /\ XorMask(FLAG) = 94 /\ XorMask(ESC) = 93
    /\ XorMask(94) = FLAG /\ XorMask(93) = ESC
BY DEF XorMask, Byte, FLAG, ESC, ESC_MASK

\* The code of a byte consists of bytes.
LEMMA CodeTypes ==
    ASSUME NEW x \in Byte
    PROVE  HdlcCode(x) \in Seq(Byte) /\ KissCode(x) \in Seq(Byte)
<1>1. ESC \in Byte /\ FESC \in Byte /\ TFESC \in Byte /\ TFEND \in Byte
  BY DEF Byte, ESC, FESC, TFESC, TFEND
<1>2. XorMask(x) \in Byte
  BY XorBytes
<1>3. HdlcCode(x) \in Seq(Byte)
  BY <1>1, <1>2 DEF HdlcCode
<1>4. KissCode(x) \in Seq(Byte)
  BY <1>1 DEF KissCode
<1> QED
  BY <1>3, <1>4

\* HdlcEscape puts the codes of the bytes one after the other.
LEMMA HdlcEscapeIsFlat ==
    ASSUME NEW data \in Seq(Byte)
    PROVE  /\ HdlcEscape(data) = FlattenSeq([i \in 1..Len(data) |-> HdlcCode(data[i])])
           /\ [i \in 1..Len(data) |-> HdlcCode(data[i])] \in Seq(Seq(Byte))
<1>1. DOMAIN data = 1..Len(data) /\ Len(data) \in Nat
  OBVIOUS
<1>2. \A i \in 1..Len(data) : HdlcCode(data[i]) \in Seq(Byte)
  BY CodeTypes
<1>3. HdlcEscape(data) = FlattenSeq([i \in 1..Len(data) |-> HdlcCode(data[i])])
  BY <1>1 DEF HdlcEscape, HdlcCode
<1> QED
  BY <1>1, <1>2, <1>3

\* KissEscape does the same with its codes.
LEMMA KissEscapeIsFlat ==
    ASSUME NEW data \in Seq(Byte)
    PROVE  /\ KissEscape(data) = FlattenSeq([i \in 1..Len(data) |-> KissCode(data[i])])
           /\ [i \in 1..Len(data) |-> KissCode(data[i])] \in Seq(Seq(Byte))
<1>1. DOMAIN data = 1..Len(data) /\ Len(data) \in Nat
  OBVIOUS
<1>2. \A i \in 1..Len(data) : KissCode(data[i]) \in Seq(Byte)
  BY CodeTypes
<1>3. KissEscape(data) = FlattenSeq([i \in 1..Len(data) |-> KissCode(data[i])])
  BY <1>1 DEF KissEscape, KissCode
<1> QED
  BY <1>1, <1>2, <1>3

\* Escaped bytes are bytes; the code of one byte more is appended.
LEMMA HdlcEscapeSteps ==
    ASSUME NEW data \in Seq(Byte)
    PROVE  /\ HdlcEscape(data) \in Seq(Byte)
           /\ HdlcEscape(<<>>) = <<>>
           /\ \A x \in Byte : HdlcEscape(Append(data, x)) = HdlcEscape(data) \o HdlcCode(x)
<1> DEFINE C(s) == [i \in 1..Len(s) |-> HdlcCode(s[i])]
<1>1. HdlcEscape(data) \in Seq(Byte)
  BY HdlcEscapeIsFlat, FlattenType
<1>2. HdlcEscape(<<>>) = <<>>
  <2>1. <<>> \in Seq(Byte) /\ C(<<>>) = <<>>
    OBVIOUS
  <2> QED
    BY <2>1, HdlcEscapeIsFlat, FlattenEmpty
<1>3. ASSUME NEW x \in Byte
      PROVE  HdlcEscape(Append(data, x)) = HdlcEscape(data) \o HdlcCode(x)
  <2>1. Append(data, x) \in Seq(Byte)
    OBVIOUS
  <2>2. C(Append(data, x)) = Append(C(data), HdlcCode(x))
    OBVIOUS
  <2>3. C(data) \in Seq(Seq(Byte)) /\ HdlcCode(x) \in Seq(Byte)
    BY HdlcEscapeIsFlat, CodeTypes
  <2>4. HdlcEscape(Append(data, x)) = FlattenSeq(C(Append(data, x)))
    BY <2>1, HdlcEscapeIsFlat
  <2>5. HdlcEscape(data) = FlattenSeq(C(data))
    BY HdlcEscapeIsFlat
  <2> HIDE DEF C
  <2>6. FlattenSeq(Append(C(data), HdlcCode(x))) = FlattenSeq(C(data)) \o HdlcCode(x)
    BY <2>3, FlattenAppend
  <2> QED
    BY <2>2, <2>4, <2>5, <2>6
<1> QED
  BY <1>1, <1>2, <1>3

\* The same for KISS.
LEMMA KissEscapeSteps ==
    ASSUME NEW data \in Seq(Byte)
    PROVE  /\ KissEscape(data) \in Seq(Byte)
           /\ KissEscape(<<>>) = <<>>
           /\ \A x \in Byte : KissEscape(Append(data, x)) = KissEscape(data) \o KissCode(x)
<1> DEFINE C(s) == [i \in 1..Len(s) |-> KissCode(s[i])]
<1>1. KissEscape(data) \in Seq(Byte)
  BY KissEscapeIsFlat, FlattenType
<1>2. KissEscape(<<>>) = <<>>
  <2>1. <<>> \in Seq(Byte) /\ C(<<>>) = <<>>
    OBVIOUS
  <2> QED
    BY <2>1, KissEscapeIsFlat, FlattenEmpty
<1>3. ASSUME NEW x \in Byte
      PROVE  KissEscape(Append(data, x)) = KissEscape(data) \o KissCode(x)
  <2>1. Append(data, x) \in Seq(Byte)
    OBVIOUS
  <2>2. C(Append(data, x)) = Append(C(data), KissCode(x))
    OBVIOUS
  <2>3. C(data) \in Seq(Seq(Byte)) /\ KissCode(x) \in Seq(Byte)
    BY KissEscapeIsFlat, CodeTypes
  <2>4. KissEscape(Append(data, x)) = FlattenSeq(C(Append(data, x)))
    BY <2>1, KissEscapeIsFlat
  <2>5. KissEscape(data) = FlattenSeq(C(data))
    BY KissEscapeIsFlat
  <2> HIDE DEF C
  <2>6. FlattenSeq(Append(C(data), KissCode(x))) = FlattenSeq(C(data)) \o KissCode(x)
    BY <2>3, FlattenAppend
  <2> QED
    BY <2>2, <2>4, <2>5, <2>6
<1> QED
  BY <1>1, <1>2, <1>3

-----------------------------------------------------------------------------
(* The decoders byte by byte *)

\* A decoder of its four fields, and their types.
Decoder(inFrame, esc, buf, cmd) ==
    [in_frame |-> inFrame, escape |-> esc, buf |-> buf, command |-> cmd]

Commands == Byte \cup {NoCommand}
DecoderType == [in_frame : BOOLEAN, escape : BOOLEAN, buf : Seq(Byte), command : Commands]

\* A decoder that waits for a flag, and one that has just seen it.
Idle == Decoder(FALSE, FALSE, <<>>, NoCommand)
Open == Decoder(TRUE, FALSE, <<>>, NoCommand)

\* A decoder is its four fields.
LEMMA DecoderShape ==
    ASSUME NEW d \in DecoderType
    PROVE  /\ d = Decoder(d.in_frame, d.escape, d.buf, d.command)
           /\ d.in_frame \in BOOLEAN /\ d.escape \in BOOLEAN /\ d.buf \in Seq(Byte)
           /\ d.command \in Commands
BY DEF Decoder, DecoderType

\* A new decoder has proper parts.
LEMMA EmptyParts == <<>> \in Seq(Byte) /\ NoCommand \in Commands
BY DEF Commands

\* The fields of a decoder, and what the assignments of feed make of them.
LEMMA DecoderFields ==
    ASSUME NEW i \in BOOLEAN, NEW e \in BOOLEAN, NEW b \in Seq(Byte), NEW c \in Commands
    PROVE  /\ Decoder(i, e, b, c) \in DecoderType
           /\ Decoder(i, e, b, c).in_frame = i /\ Decoder(i, e, b, c).escape = e
           /\ Decoder(i, e, b, c).buf = b /\ Decoder(i, e, b, c).command = c
BY DEF DecoderType, Decoder

\* A byte is pushed: the escape is over.
LEMMA PushShape ==
    ASSUME NEW i \in BOOLEAN, NEW e \in BOOLEAN, NEW b \in Seq(Byte), NEW c \in Commands,
           NEW x \in Byte
    PROVE  Push(Decoder(i, e, b, c), x) = Decoder(i, FALSE, Append(b, x), c)
<1>1. PICK d \in DecoderType : d = Decoder(i, e, b, c)
  BY DecoderFields
<1>2. d.in_frame = i /\ d.buf = b /\ d.command = c
  BY <1>1, DecoderFields
<1>3. Append(d.buf, x) \in Seq(Byte)
  BY <1>2
<1>4. PICK r : r = [d EXCEPT !.buf = Append(d.buf, x), !.escape = FALSE]
  OBVIOUS
<1>5. /\ r \in DecoderType /\ r.escape = FALSE /\ r.in_frame = d.in_frame
      /\ r.buf = Append(d.buf, x) /\ r.command = d.command
  BY <1>3, <1>4 DEF DecoderType
<1>6. r = Decoder(i, FALSE, Append(b, x), c)
  BY <1>2, <1>5, DecoderShape
<1> QED
  BY <1>1, <1>4, <1>6 DEF Push

\* An escape byte was read.
LEMMA EscapeShape ==
    ASSUME NEW i \in BOOLEAN, NEW e \in BOOLEAN, NEW b \in Seq(Byte), NEW c \in Commands
    PROVE  [Decoder(i, e, b, c) EXCEPT !.escape = TRUE] = Decoder(i, TRUE, b, c)
<1>1. PICK d \in DecoderType : d = Decoder(i, e, b, c)
  BY DecoderFields
<1>2. d.in_frame = i /\ d.buf = b /\ d.command = c
  BY <1>1, DecoderFields
<1>3. PICK r : r = [d EXCEPT !.escape = TRUE]
  OBVIOUS
<1>4. /\ r \in DecoderType /\ r.escape = TRUE /\ r.in_frame = d.in_frame
      /\ r.buf = d.buf /\ r.command = d.command
  BY <1>3 DEF DecoderType
<1>5. r = Decoder(i, TRUE, b, c)
  BY <1>2, <1>4, DecoderShape
<1> QED
  BY <1>1, <1>3, <1>5

\* The command of a KISS frame was read.
LEMMA CommandShape ==
    ASSUME NEW i \in BOOLEAN, NEW e \in BOOLEAN, NEW b \in Seq(Byte), NEW c \in Commands,
           NEW x \in Byte
    PROVE  [Decoder(i, e, b, c) EXCEPT !.command = x] = Decoder(i, e, b, x)
<1>1. PICK d \in DecoderType : d = Decoder(i, e, b, c)
  BY DecoderFields
<1>2. d.in_frame = i /\ d.buf = b /\ d.escape = e
  BY <1>1, DecoderFields
<1>3. PICK r : r = [d EXCEPT !.command = x]
  OBVIOUS
<1>4. /\ r \in DecoderType /\ r.escape = d.escape /\ r.in_frame = d.in_frame
      /\ r.buf = d.buf /\ r.command = x
  BY <1>3 DEF DecoderType, Commands
<1>5. r = Decoder(i, e, b, x)
  BY <1>2, <1>4, DecoderShape
<1> QED
  BY <1>1, <1>3, <1>5

\* A new decoder waits for a flag; Opened has just seen it, whatever was before.
LEMMA IdleAndOpen ==
    /\ NewDecoder = Idle /\ Idle \in DecoderType /\ Open \in DecoderType
    /\ \A d \in DecoderType : Opened(d) = Open
<1>1. NewDecoder = Idle
  BY DEF NewDecoder, Idle, Decoder
<1>2. Idle \in DecoderType /\ Open \in DecoderType
  BY EmptyParts DEF Idle, Open, Decoder, DecoderType
<1>3. ASSUME NEW d \in DecoderType PROVE Opened(d) = Open
  <2>1. PICK r : r = Opened(d)
    OBVIOUS
  <2>2. /\ r \in DecoderType /\ r.escape = FALSE /\ r.in_frame = TRUE
        /\ r.buf = <<>> /\ r.command = NoCommand
    BY <2>1, EmptyParts DEF Opened, DecoderType
  <2> QED
    BY <2>1, <2>2, DecoderShape DEF Open
<1> QED
  BY <1>1, <1>2, <1>3

\* A decoder inside a frame, and one after the escape byte there.
Inside(buf, cmd) == Decoder(TRUE, FALSE, buf, cmd)
Escaped(buf, cmd) == Decoder(TRUE, TRUE, buf, cmd)

\* Inside a frame: plain bytes, the escape byte, the byte after it.
LEMMA HdlcInside ==
    ASSUME NEW fr \in {"hdlc", "serial"}, NEW b \in Seq(Byte), NEW c \in Commands
    PROVE  /\ \A x \in Byte : x \notin {FLAG, ESC} =>
                 feed(fr, Inside(b, c), x) = More(Inside(Append(b, x), c))
           /\ feed(fr, Inside(b, c), ESC) = More(Escaped(b, c))
           /\ \A x \in Byte :
                 feed(fr, Escaped(b, c), x)
                 = More(Inside(Append(b, XorMask(x)), c))
<1> USE DEF Inside, Escaped
<1>1. \A d, x : feed(fr, d, x) = HdlcFeed(d, x, IF fr = "hdlc" THEN HdlcClose(d) ELSE SerialClose(d))
  BY DEF feed, SerialFeed
<1>2. FLAG # ESC
  BY DEF FLAG, ESC
<1>3. \A e \in BOOLEAN : \A x \in Byte :
         Push(Decoder(TRUE, e, b, c), x) = Inside(Append(b, x), c)
  BY PushShape
<1>4. \A x \in Byte : XorMask(x) \in Byte
  BY XorBytes
<1>a. \A i, e \in BOOLEAN : Decoder(i, e, b, c).in_frame = i
  BY DecoderFields
<1>b. \A i, e \in BOOLEAN : Decoder(i, e, b, c).escape = e
  BY DecoderFields
<1>5. [Inside(b, c) EXCEPT !.escape = TRUE] = Escaped(b, c)
  BY EscapeShape
<1>c. PICK d : d = Inside(b, c)
  OBVIOUS
<1>d. PICK w : w = Escaped(b, c)
  OBVIOUS
<1>e. d.in_frame = TRUE /\ d.escape = FALSE
  BY <1>a, <1>b, <1>c
<1>f. w.in_frame = TRUE /\ w.escape = TRUE
  BY <1>a, <1>b, <1>d
<1>6. ASSUME NEW x \in Byte, x \notin {FLAG, ESC}
      PROVE  feed(fr, d, x) = More(Inside(Append(b, x), c))
  <2>1. feed(fr, d, x) = More(Push(d, x))
    BY <1>1, <1>e, <1>6 DEF HdlcFeed
  <2> QED
    BY <2>1, <1>3, <1>c
<1>7. feed(fr, d, ESC) = More(w)
  <2>1. feed(fr, d, ESC) = More([d EXCEPT !.escape = TRUE])
    BY <1>1, <1>2, <1>e DEF HdlcFeed
  <2> QED
    BY <2>1, <1>5, <1>c, <1>d
<1>8. ASSUME NEW x \in Byte
      PROVE  feed(fr, w, x) = More(Inside(Append(b, XorMask(x)), c))
  <2>1. feed(fr, w, x) = More(Push(w, XorMask(x)))
    BY <1>1, <1>f DEF HdlcFeed
  <2> QED
    BY <2>1, <1>3, <1>4, <1>d
<1> QED
  BY <1>6, <1>7, <1>8, <1>c, <1>d

\* The flag: it closes a frame, or opens one.
LEMMA HdlcFlags ==
    ASSUME NEW b \in Seq(Byte), NEW c \in Commands
    PROVE  /\ feed("hdlc", Inside(b, c), FLAG) = Frame(Open, b)
           /\ feed("serial", Inside(b, c), FLAG)
              = IF b = <<>> THEN More(Idle) ELSE Frame(Idle, b)
           /\ \A fr \in {"hdlc", "serial"}, e \in BOOLEAN :
                 feed(fr, Decoder(FALSE, e, b, c), FLAG) = More(Open)
<1> USE DEF Inside, Escaped
<1>1. FLAG # ESC
  BY DEF FLAG, ESC
<1>2. \A i, e \in BOOLEAN : Decoder(i, e, b, c) \in DecoderType
  BY DecoderFields
<1>3. \A i, e \in BOOLEAN : /\ Decoder(i, e, b, c).in_frame = i /\ Decoder(i, e, b, c).escape = e
                            /\ Decoder(i, e, b, c).buf = b /\ Opened(Decoder(i, e, b, c)) = Open
  BY <1>2, DecoderFields, IdleAndOpen
<1>4. \A d, x : /\ feed("hdlc", d, x) = HdlcFeed(d, x, HdlcClose(d))
                /\ feed("serial", d, x) = HdlcFeed(d, x, SerialClose(d))
  BY DEF feed, SerialFeed
<1>5. feed("hdlc", Inside(b, c), FLAG) = HdlcClose(Inside(b, c))
  BY <1>1, <1>3, <1>4 DEF HdlcFeed
<1>6. feed("serial", Inside(b, c), FLAG) = SerialClose(Inside(b, c))
  BY <1>1, <1>3, <1>4 DEF HdlcFeed
<1>7. \A fr \in {"hdlc", "serial"}, e \in BOOLEAN : feed(fr, Decoder(FALSE, e, b, c), FLAG) = More(Open)
  BY <1>3, <1>4 DEF HdlcFeed
<1> QED
  BY <1>3, <1>5, <1>6, <1>7, IdleAndOpen DEF HdlcClose, SerialClose

\* The same for KISS, once the command of the frame is read.
LEMMA KissInside ==
    ASSUME NEW b \in Seq(Byte), NEW c \in Byte
    PROVE  /\ \A x \in Byte : x \notin {FEND, FESC} =>
                 feed("kiss", Inside(b, c), x) = More(Inside(Append(b, x), c))
           /\ feed("kiss", Inside(b, c), FESC) = More(Escaped(b, c))
           /\ \A x \in Byte :
                 feed("kiss", Escaped(b, c), x)
                 = More(Inside(Append(b, KissUnescape(x)), c))
<1> USE DEF Inside, Escaped
<1>0. c \in Commands
  BY DEF Commands
<1>1. \A d, x : feed("kiss", d, x) = KissFeed(d, x)
  BY DEF feed
<1>2. FEND # FESC /\ c # NoCommand
  BY DEF FEND, FESC, NoCommand, Byte
<1>3. \A e \in BOOLEAN : \A x \in Byte :
         Push(Decoder(TRUE, e, b, c), x) = Inside(Append(b, x), c)
  BY <1>0, PushShape
<1>4. \A x \in Byte : KissUnescape(x) \in Byte
  BY DEF KissUnescape, Byte, FESC, FEND
<1>a. \A i, e \in BOOLEAN : Decoder(i, e, b, c).in_frame = i
  BY <1>0, DecoderFields
<1>b. \A i, e \in BOOLEAN : Decoder(i, e, b, c).escape = e
  BY <1>0, DecoderFields
<1>h. \A i, e \in BOOLEAN : Decoder(i, e, b, c).command = c
  BY <1>0, DecoderFields
<1>5. [Inside(b, c) EXCEPT !.escape = TRUE] = Escaped(b, c)
  BY <1>0, EscapeShape
<1>c. PICK d : d = Inside(b, c)
  OBVIOUS
<1>d. PICK w : w = Escaped(b, c)
  OBVIOUS
<1>e. d.in_frame = TRUE /\ d.escape = FALSE /\ d.command = c
  BY <1>a, <1>b, <1>c, <1>h
<1>f. w.in_frame = TRUE /\ w.escape = TRUE
  BY <1>a, <1>b, <1>d
<1>6. ASSUME NEW x \in Byte, x \notin {FEND, FESC}
      PROVE  feed("kiss", d, x) = More(Inside(Append(b, x), c))
  <2>1. feed("kiss", d, x) = More(Push(d, x))
    BY <1>1, <1>2, <1>e, <1>6 DEF KissFeed
  <2> QED
    BY <2>1, <1>3, <1>c
<1>7. feed("kiss", d, FESC) = More(w)
  <2>1. feed("kiss", d, FESC) = More([d EXCEPT !.escape = TRUE])
    BY <1>1, <1>2, <1>e DEF KissFeed
  <2> QED
    BY <2>1, <1>5, <1>c, <1>d
<1>8. ASSUME NEW x \in Byte
      PROVE  feed("kiss", w, x) = More(Inside(Append(b, KissUnescape(x)), c))
  <2>1. feed("kiss", w, x) = More(Push(w, KissUnescape(x)))
    BY <1>1, <1>f DEF KissFeed
  <2> QED
    BY <2>1, <1>3, <1>4, <1>d
<1> QED
  BY <1>6, <1>7, <1>8, <1>c, <1>d

\* The delimiter, and the first byte after it, which is the command.
LEMMA KissDelimiters ==
    ASSUME NEW b \in Seq(Byte), NEW c \in Commands
    PROVE  /\ feed("kiss", Inside(b, c), FEND) = Frame(Idle, b)
           /\ \A e \in BOOLEAN : feed("kiss", Decoder(FALSE, e, b, c), FEND) = More(Open)
           /\ feed("kiss", Open, CMD_DATA) = More(Inside(<<>>, CMD_DATA))
<1> USE DEF Inside, Escaped
<1>1. FEND # FESC /\ CMD_DATA # FEND /\ CMD_DATA # FESC /\ CMD_DATA \in Byte
  BY DEF FEND, FESC, CMD_DATA, Byte
<1>2. \A i, e \in BOOLEAN : Decoder(i, e, b, c) \in DecoderType
  BY DecoderFields
<1>3. \A i, e \in BOOLEAN : /\ Decoder(i, e, b, c).in_frame = i /\ Decoder(i, e, b, c).escape = e
                            /\ Decoder(i, e, b, c).buf = b /\ Opened(Decoder(i, e, b, c)) = Open
  BY <1>2, DecoderFields, IdleAndOpen
<1>4. \A d, x : feed("kiss", d, x) = KissFeed(d, x)
  BY DEF feed
<1>5. feed("kiss", Inside(b, c), FEND) = Frame(Idle, b)
  BY <1>1, <1>3, <1>4, IdleAndOpen DEF KissFeed
<1>6. \A e \in BOOLEAN : feed("kiss", Decoder(FALSE, e, b, c), FEND) = More(Open)
  BY <1>3, <1>4 DEF KissFeed
<1>a. PICK bb \in Seq(Byte) : bb = <<>>
  BY EmptyParts
<1>b. PICK cc \in Commands : cc = NoCommand
  BY EmptyParts
<1>c. \A i, e \in BOOLEAN : /\ Decoder(i, e, bb, cc).in_frame = i /\ Decoder(i, e, bb, cc).escape = e
                            /\ Decoder(i, e, bb, cc).command = cc
  BY DecoderFields
<1>d. \A i, e \in BOOLEAN : [Decoder(i, e, bb, cc) EXCEPT !.command = CMD_DATA]
                               = Decoder(i, e, bb, CMD_DATA)
  BY <1>1, CommandShape
<1>e. Open = Decoder(TRUE, FALSE, bb, cc)
  BY <1>a, <1>b DEF Open
<1>7. Open.in_frame = TRUE /\ Open.escape = FALSE /\ Open.command = NoCommand
  BY <1>b, <1>c, <1>e
<1>f. [Open EXCEPT !.command = CMD_DATA] = Inside(<<>>, CMD_DATA)
  BY <1>a, <1>d, <1>e
<1>8. feed("kiss", Open, CMD_DATA) = More(Inside(<<>>, CMD_DATA))
  <2>1. feed("kiss", Open, CMD_DATA) = More([Open EXCEPT !.command = CMD_DATA])
    BY <1>1, <1>4, <1>7 DEF KissFeed
  <2> QED
    BY <2>1, <1>f
<1> QED
  BY <1>5, <1>6, <1>8

-----------------------------------------------------------------------------
(* Whole frames *)

\* Concatenation is associative.
LEMMA ConcatBytes ==
    ASSUME NEW s \in Seq(Byte), NEW t \in Seq(Byte), NEW u \in Seq(Byte)
    PROVE  (s \o t) \o u = s \o (t \o u)
OBVIOUS

\* Bytes appended to bytes are bytes.
LEMMA AppendByte ==
    ASSUME NEW s \in Seq(Byte), NEW x \in Byte
    PROVE  Append(s, x) \in Seq(Byte) /\ s \o <<x>> = Append(s, x)
OBVIOUS

\* Bytes after bytes are bytes.
LEMMA ConcatType ==
    ASSUME NEW s \in Seq(Byte), NEW t \in Seq(Byte)
    PROVE  s \o t \in Seq(Byte)
BY ConcatProperties

\* Short sequences.
LEMMA Singletons ==
    ASSUME NEW a, NEW b
    PROVE  Append(<<>>, a) = <<a>> /\ Append(<<a>>, b) = <<a, b>>
<1>0. PICK S : a \in S /\ b \in S
  <2>1. a \in {a,b} /\ b \in {a,b}
    OBVIOUS
  <2> QED BY <2>1
<1>1. <<a>> \in Seq(S)
  BY <1>0
<1>a. <<a,b>> \in Seq(S)
  BY <1>0
<1>2. PICK q \in Seq(S) : q = <<a>>
  BY <1>1
<1>b. PICK t \in Seq(S) : t = <<a,b>>
  BY <1>a
<1>3. Len(q) = 1 /\ q[1] = a
  BY <1>2
<1>4. Len(t) = 2 /\ t[1] = a /\ t[2] = b
  BY <1>b
<1>5. PICK s \in Seq(S) : s = Append(q, b)
  BY <1>0, AppendProperties
<1>f. Len(Append(q, b)) = Len(q) + 1
  BY <1>0, AppendProperties
<1>c. Len(s) = 2
  BY <1>3, <1>5, <1>f
<1>d. s[1] = a
  BY <1>3, <1>5, <1>0
<1>e. s[2] = b
  BY <1>3, <1>5, <1>0, SMTT(60)
<1>6. Len(s) = 2 /\ s[1] = a /\ s[2] = b
  BY <1>c, <1>d, <1>e
<1>7. \A i \in 1..Len(s) : s[i] = t[i]
  BY <1>4, <1>6
<1>8. s = t
  BY <1>4, <1>6, <1>7, SeqEqual
<1>9. Append(<<a>>, b) = <<a, b>>
  BY <1>8, <1>5, <1>2, <1>b
<1>g. Append(<<>>, a) = <<a>>
  OBVIOUS
<1> QED
  BY <1>9, <1>g

\* A decoder and the frames it has completed.
Result(d, got) == [dec |-> d, out |-> got]

\* One byte more that completes no frame.
LEMMA FeedStepMore ==
    ASSUME NEW fr, NEW d, NEW dd, NEW got \in Seq(Seq(Byte)), NEW x, feed(fr, d, x) = More(dd)
    PROVE  FeedByte(fr, Result(d, got), x) = Result(dd, got)
<1>1. Result(d, got).dec = d /\ Result(d, got).out = got
  BY DEF Result
<1>2. feed(fr, d, x).dec = dd /\ feed(fr, d, x).out = <<>>
  BY DEF More
<1>3. got \o <<>> = got
  OBVIOUS
<1> QED
  BY <1>1, <1>2, <1>3 DEF FeedByte, Result

\* One byte more that completes a frame.
LEMMA FeedStepFrame ==
    ASSUME NEW fr, NEW d, NEW dd, NEW got \in Seq(Seq(Byte)), NEW x, NEW b \in Seq(Byte),
           feed(fr, d, x) = Frame(dd, b)
    PROVE  FeedByte(fr, Result(d, got), x) = Result(dd, Append(got, b))
<1>1. Result(d, got).dec = d /\ Result(d, got).out = got
  BY DEF Result
<1>2. feed(fr, d, x).dec = dd /\ feed(fr, d, x).out = <<b>>
  BY DEF Frame
<1>3. got \o <<b>> = Append(got, b)
  OBVIOUS
<1> QED
  BY <1>1, <1>2, <1>3 DEF FeedByte, Result

\* A run of bytes and one more.
LEMMA FeedMore ==
    ASSUME NEW fr, NEW d0, NEW bytes \in Seq(Byte), NEW x \in Byte, NEW d, NEW dd,
           NEW got \in Seq(Seq(Byte)), FeedAll(fr, d0, bytes) = Result(d, got), feed(fr, d, x) = More(dd)
    PROVE  FeedAll(fr, d0, Append(bytes, x)) = Result(dd, got)
<1>1. FeedAll(fr, d0, Append(bytes, x)) = FeedByte(fr, FeedAll(fr, d0, bytes), x)
  BY FeedAppend
<1> QED
  BY <1>1, FeedStepMore

\* The same when the byte completes a frame.
LEMMA FeedFrame ==
    ASSUME NEW fr, NEW d0, NEW bytes \in Seq(Byte), NEW x \in Byte, NEW d, NEW dd, NEW b \in Seq(Byte),
           NEW got \in Seq(Seq(Byte)), FeedAll(fr, d0, bytes) = Result(d, got), feed(fr, d, x) = Frame(dd, b)
    PROVE  FeedAll(fr, d0, Append(bytes, x)) = Result(dd, Append(got, b))
<1>1. FeedAll(fr, d0, Append(bytes, x)) = FeedByte(fr, FeedAll(fr, d0, bytes), x)
  BY FeedAppend
<1> QED
  BY <1>1, FeedStepFrame

\* The code of a byte, fed to an HDLC decoder inside a frame, adds the byte to its buffer.
LEMMA HdlcCodeFed ==
    ASSUME NEW fr \in {"hdlc", "serial"}, NEW d0, NEW mid \in Seq(Byte), NEW got \in Seq(Seq(Byte)), NEW c \in Commands,
           NEW s \in Seq(Byte), NEW x \in Byte,
           FeedAll(fr, d0, mid) = Result(Inside(s, c), got)
    PROVE  FeedAll(fr, d0, mid \o HdlcCode(x)) = Result(Inside(Append(s, x), c), got)
<1>1. PICK d : d = Inside(s, c)
  OBVIOUS
<1>2. PICK w : w = Escaped(s, c)
  OBVIOUS
<1>3. PICK dx : dx = Inside(Append(s, x), c)
  OBVIOUS
<1>4. FeedAll(fr, d0, mid) = Result(d, got)
  BY <1>1
<1>5. CASE x \notin {FLAG, ESC}
  <2>1. mid \o HdlcCode(x) = Append(mid, x)
    BY <1>5 DEF HdlcCode
  <2>2. feed(fr, d, x) = More(dx)
    BY <1>1, <1>3, <1>5, HdlcInside
  <2>3. FeedAll(fr, d0, Append(mid, x)) = Result(dx, got)
    BY <1>4, <2>2, FeedMore
  <2> QED
    BY <1>3, <2>1, <2>3
<1>6. CASE x \in {FLAG, ESC}
  <2>1. PICK y \in Byte : HdlcCode(x) = <<ESC, y>> /\ XorMask(y) = x
    <3>1. CASE x = FLAG
      <4>1. HdlcCode(x) = <<ESC, XorMask(x)>>
        BY ONLY <3>1 DEF HdlcCode
      <4>2. XorMask(x) = 94 /\ XorMask(94) = x
        BY ONLY <3>1, XorBytes
      <4>3. 94 \in Byte
        BY ONLY TRUE DEF Byte
      <4> QED
        BY ONLY <4>1, <4>2, <4>3
    <3>2. CASE x = ESC
      <4>1. HdlcCode(x) = <<ESC, XorMask(x)>>
        BY ONLY <3>2 DEF HdlcCode
      <4>2. XorMask(x) = 93 /\ XorMask(93) = x
        BY ONLY <3>2, XorBytes
      <4>3. 93 \in Byte
        BY ONLY TRUE DEF Byte
      <4> QED
        BY ONLY <4>1, <4>2, <4>3
    <3> QED
      BY <1>6, <3>1, <3>2
  <2>2. ESC \in Byte
    BY DEF ESC, Byte
  <2>3. mid \o HdlcCode(x) = Append(Append(mid, ESC), y) /\ Append(mid, ESC) \in Seq(Byte)
    BY <2>1, <2>2
  <2>4. feed(fr, d, ESC) = More(w)
    BY <1>1, <1>2, HdlcInside
  <2>5. FeedAll(fr, d0, Append(mid, ESC)) = Result(w, got)
    BY <1>4, <2>2, <2>4, FeedMore
  <2>6. feed(fr, w, y) = More(Inside(Append(s, XorMask(y)), c))
    BY <1>2, HdlcInside
  <2>7. feed(fr, w, y) = More(dx)
    BY <2>1, <2>6, <1>3
  <2>a. PICK mm \in Seq(Byte) : mm = Append(mid, ESC)
    BY <2>3
  <2>b. FeedAll(fr, d0, mm) = Result(w, got)
    BY <2>5, <2>a
  <2>c. FeedAll(fr, d0, Append(mm, y)) = Result(dx, got)
    BY <2>7, <2>b, FeedMore
  <2>8. FeedAll(fr, d0, Append(Append(mid, ESC), y)) = Result(dx, got)
    BY <2>a, <2>c
  <2> QED
    BY <1>3, <2>3, <2>8
<1> QED
  BY <1>5, <1>6

\* What follows the bytes of a payload when one byte is added to it.
LEMMA HdlcEscapeAppend ==
    ASSUME NEW pre \in Seq(Byte), NEW data \in Seq(Byte), NEW x \in Byte
    PROVE  /\ pre \o HdlcEscape(data) \in Seq(Byte)
           /\ pre \o HdlcEscape(Append(data, x)) = (pre \o HdlcEscape(data)) \o HdlcCode(x)
<1>1. HdlcEscape(data) \in Seq(Byte) /\ HdlcCode(x) \in Seq(Byte)
  BY HdlcEscapeSteps, CodeTypes
<1>2. HdlcEscape(Append(data, x)) = HdlcEscape(data) \o HdlcCode(x)
  BY HdlcEscapeSteps
<1>3. PICK a \in Seq(Byte), b \in Seq(Byte) : a = HdlcEscape(data) /\ b = HdlcCode(x)
  BY ONLY <1>1
<1>4. pre \o a \in Seq(Byte)
  OBVIOUS
<1>5. (pre \o a) \o b = pre \o (a \o b)
  BY SMTT(60)
<1> QED
  BY ONLY <1>2, <1>3, <1>4, <1>5

\* So the escaped bytes of a payload leave the payload in the buffer.
LEMMA HdlcBody ==
    ASSUME NEW fr \in {"hdlc", "serial"}, NEW d0, NEW pre \in Seq(Byte), NEW got \in Seq(Seq(Byte)),
           NEW b \in Seq(Byte), NEW c \in Commands, FeedAll(fr, d0, pre) = Result(Inside(b, c), got),
           NEW data \in Seq(Byte)
    PROVE  FeedAll(fr, d0, pre \o HdlcEscape(data)) = Result(Inside(b \o data, c), got)
<1> DEFINE T == {s \in Seq(Byte) :
                   FeedAll(fr, d0, pre \o HdlcEscape(s)) = Result(Inside(b \o s, c), got)}
<1>1. <<>> \in T
  <2>1. <<>> \in Seq(Byte) /\ HdlcEscape(<<>>) = <<>> /\ pre \o <<>> = pre /\ b \o <<>> = b
    BY EmptyParts, HdlcEscapeSteps
  <2> QED
    BY <2>1
<1>2. ASSUME NEW s \in Seq(Byte), NEW x \in Byte, s \in T PROVE Append(s, x) \in T
  <2> HIDE DEF T
  <2>1. PICK mid \in Seq(Byte) : /\ mid = pre \o HdlcEscape(s)
                                 /\ pre \o HdlcEscape(Append(s, x)) = mid \o HdlcCode(x)
    BY HdlcEscapeAppend, ZenonT(60)
  <2>5. FeedAll(fr, d0, mid) = Result(Inside(b \o s, c), got)
    BY <1>2, <2>1 DEF T
  <2>6. Append(s, x) \in Seq(Byte)
    OBVIOUS
  <2>7. FeedAll(fr, d0, mid \o HdlcCode(x)) = Result(Inside(b \o Append(s, x), c), got)
    <3>1. b \o s \in Seq(Byte) /\ b \o Append(s, x) = Append(b \o s, x)
      BY SMTT(60)
    <3>2. PICK bs \in Seq(Byte) : bs = b \o s
      BY <3>1
    <3>3. FeedAll(fr, d0, mid) = Result(Inside(bs, c), got)
      BY <2>5, <3>2
    <3>4. FeedAll(fr, d0, mid \o HdlcCode(x)) = Result(Inside(Append(bs, x), c), got)
      BY <3>3, HdlcCodeFed
    <3> QED
      BY <3>1, <3>2, <3>4
  <2> QED
    BY <2>1, <2>6, <2>7 DEF T
<1> HIDE DEF T
<1>3. Seq(Byte) \subseteq T
  BY <1>1, <1>2, SequenceInduction
<1> QED
  BY <1>3 DEF T

\* The same for KISS, once the command was read.
LEMMA KissCodeFed ==
    ASSUME NEW d0, NEW mid \in Seq(Byte), NEW got \in Seq(Seq(Byte)), NEW c \in Byte,
           NEW s \in Seq(Byte), NEW x \in Byte,
           FeedAll("kiss", d0, mid) = Result(Inside(s, c), got)
    PROVE  FeedAll("kiss", d0, mid \o KissCode(x)) = Result(Inside(Append(s, x), c), got)
<1>1. PICK d : d = Inside(s, c)
  OBVIOUS
<1>2. PICK w : w = Escaped(s, c)
  OBVIOUS
<1>3. PICK dx : dx = Inside(Append(s, x), c)
  OBVIOUS
<1>4. FeedAll("kiss", d0, mid) = Result(d, got)
  BY <1>1
<1>5. CASE x \notin {FEND, FESC}
  <2>1. mid \o KissCode(x) = Append(mid, x)
    BY <1>5 DEF KissCode
  <2>2. feed("kiss", d, x) = More(dx)
    BY <1>1, <1>3, <1>5, KissInside
  <2>3. FeedAll("kiss", d0, Append(mid, x)) = Result(dx, got)
    BY <1>4, <2>2, FeedMore
  <2> QED
    BY <1>3, <2>1, <2>3
<1>6. CASE x \in {FEND, FESC}
  <2>1. PICK y \in Byte : KissCode(x) = <<FESC, y>> /\ KissUnescape(y) = x
    <3>1. CASE x = FEND
      BY <3>1 DEF KissCode, KissUnescape, FESC, FEND, TFESC, TFEND, Byte
    <3>2. CASE x = FESC
      BY <3>2 DEF KissCode, KissUnescape, FESC, FEND, TFESC, TFEND, Byte
    <3> QED
      BY <1>6, <3>1, <3>2
  <2>2. FESC \in Byte
    BY DEF FESC, Byte
  <2>3. mid \o KissCode(x) = Append(Append(mid, FESC), y) /\ Append(mid, FESC) \in Seq(Byte)
    BY <2>1, <2>2
  <2>4. feed("kiss", d, FESC) = More(w)
    BY <1>1, <1>2, KissInside
  <2>5. FeedAll("kiss", d0, Append(mid, FESC)) = Result(w, got)
    BY <1>4, <2>2, <2>4, FeedMore
  <2>6. feed("kiss", w, y) = More(Inside(Append(s, KissUnescape(y)), c))
    BY <1>2, KissInside
  <2>7. feed("kiss", w, y) = More(dx)
    BY <2>1, <2>6, <1>3
  <2>a. PICK mm \in Seq(Byte) : mm = Append(mid, FESC)
    BY <2>3
  <2>b. FeedAll("kiss", d0, mm) = Result(w, got)
    BY <2>5, <2>a
  <2>c. FeedAll("kiss", d0, Append(mm, y)) = Result(dx, got)
    BY <2>7, <2>b, FeedMore
  <2>8. FeedAll("kiss", d0, Append(Append(mid, FESC), y)) = Result(dx, got)
    BY <2>a, <2>c
  <2> QED
    BY <1>3, <2>3, <2>8
<1> QED
  BY <1>5, <1>6

\* The same for KISS.
LEMMA KissEscapeAppend ==
    ASSUME NEW pre \in Seq(Byte), NEW data \in Seq(Byte), NEW x \in Byte
    PROVE  /\ pre \o KissEscape(data) \in Seq(Byte)
           /\ pre \o KissEscape(Append(data, x)) = (pre \o KissEscape(data)) \o KissCode(x)
<1>1. KissEscape(data) \in Seq(Byte) /\ KissCode(x) \in Seq(Byte)
  BY KissEscapeSteps, CodeTypes
<1>2. KissEscape(Append(data, x)) = KissEscape(data) \o KissCode(x)
  BY KissEscapeSteps
<1> QED
  BY <1>1, <1>2, ConcatBytes, SMTT(60)

\* The same for KISS.
LEMMA KissBody ==
    ASSUME NEW d0, NEW pre \in Seq(Byte), NEW got \in Seq(Seq(Byte)),
           NEW c \in Byte, FeedAll("kiss", d0, pre) = Result(Inside(<<>>, c), got),
           NEW data \in Seq(Byte)
    PROVE  FeedAll("kiss", d0, pre \o KissEscape(data)) = Result(Inside(data, c), got)
<1> DEFINE T == {s \in Seq(Byte) :
                   FeedAll("kiss", d0, pre \o KissEscape(s)) = Result(Inside(s, c), got)}
<1>1. <<>> \in T
  <2>1. <<>> \in Seq(Byte) /\ KissEscape(<<>>) = <<>> /\ pre \o <<>> = pre
    BY EmptyParts, KissEscapeSteps
  <2> QED
    BY <2>1
<1>2. ASSUME NEW s \in Seq(Byte), NEW x \in Byte, s \in T PROVE Append(s, x) \in T
  <2> HIDE DEF T
  <2>1. PICK mid \in Seq(Byte) : /\ mid = pre \o KissEscape(s)
                                 /\ pre \o KissEscape(Append(s, x)) = mid \o KissCode(x)
    BY KissEscapeAppend
  <2>5. FeedAll("kiss", d0, mid) = Result(Inside(s, c), got)
    BY <1>2, <2>1 DEF T
  <2>6. Append(s, x) \in Seq(Byte)
    OBVIOUS
  <2>7. FeedAll("kiss", d0, mid \o KissCode(x)) = Result(Inside(Append(s, x), c), got)
    BY <2>5, KissCodeFed
  <2> QED
    BY <2>1, <2>6, <2>7 DEF T
<1> HIDE DEF T
<1>3. Seq(Byte) \subseteq T
  BY <1>1, <1>2, SequenceInduction
<1> QED
  BY <1>3 DEF T

\* The first flag of a frame, whatever the decoder is doing: it is inside a frame afterwards.
LEMMA HdlcOpening ==
    ASSUME NEW fr \in {"hdlc", "serial"}, NEW d \in DecoderType
    PROVE  /\ <<FLAG>> \in Seq(Byte)
           /\ d = Idle => FeedAll(fr, d, <<FLAG>>) = Result(Open, <<>>)
           /\ fr = "hdlc" /\ d = Open => FeedAll(fr, d, <<FLAG>>) = Result(Open, <<<<>>>>)
           /\ fr = "hdlc" => \E b \in Seq(Byte), c \in Commands, got \in Seq(Seq(Byte)) :
                                 FeedAll(fr, d, <<FLAG>>) = Result(Inside(b, c), got)
<1>1. FLAG \in Byte /\ <<>> \in Seq(Byte) /\ <<FLAG>> = Append(<<>>, FLAG)
  BY EmptyParts DEF FLAG, Byte
<1>2. <<>> \in Seq(Seq(Byte)) /\ Append(<<>>, <<>>) = <<<<>>>>
  OBVIOUS
<1>3. FeedAll(fr, d, <<>>) = Result(d, <<>>)
  BY FeedEmpty DEF Result, More
<1>4. PICK none \in Seq(Byte) : none = <<>>
  BY <1>1
<1>5. PICK nones \in Seq(Seq(Byte)) : nones = <<>>
  BY <1>2
<1>6. FeedAll(fr, d, none) = Result(d, nones)
  BY <1>3, <1>4, <1>5
<1>7. <<FLAG>> \in Seq(Byte) /\ Append(none, FLAG) = <<FLAG>>
  BY <1>1, <1>4
<1>8. \A dd : feed(fr, d, FLAG) = More(dd) => FeedAll(fr, d, <<FLAG>>) = Result(dd, nones)
  <2>1. \A dd : feed(fr, d, FLAG) = More(dd) => FeedAll(fr, d, Append(none, FLAG)) = Result(dd, nones)
    BY <1>1, <1>6, FeedMore
  <2> QED
    BY <1>7, <2>1
<1>9. \A dd : \A b \in Seq(Byte) :
         feed(fr, d, FLAG) = Frame(dd, b) => FeedAll(fr, d, <<FLAG>>) = Result(dd, Append(nones, b))
  <2>1. \A dd : \A b \in Seq(Byte) :
           feed(fr, d, FLAG) = Frame(dd, b)
           => FeedAll(fr, d, Append(none, FLAG)) = Result(dd, Append(nones, b))
    BY <1>1, <1>6, FeedFrame
  <2> QED
    BY <1>7, <2>1
<1>a. PICK nc \in Commands : nc = NoCommand
  BY EmptyParts
<1>b. Open = Inside(none, nc)
  BY <1>4, <1>a DEF Open, Inside
<1>c. ASSUME d = Idle PROVE FeedAll(fr, d, <<FLAG>>) = Result(Open, <<>>)
  <2>1. d = Decoder(FALSE, FALSE, none, nc)
    BY <1>4, <1>a, <1>c DEF Idle
  <2>2. \A e \in BOOLEAN : feed(fr, Decoder(FALSE, e, none, nc), FLAG) = More(Open)
    BY HdlcFlags
  <2>3. feed(fr, d, FLAG) = More(Open)
    BY <2>1, <2>2
  <2> QED
    BY <1>5, <1>8, <2>3
<1>d. ASSUME fr = "hdlc", d = Open PROVE FeedAll(fr, d, <<FLAG>>) = Result(Open, <<<<>>>>)
  <2>1. feed(fr, d, FLAG) = Frame(Open, none)
    BY <1>b, <1>d, HdlcFlags
  <2>2. FeedAll(fr, d, <<FLAG>>) = Result(Open, Append(nones, none))
    BY <1>9, <2>1
  <2> QED
    BY <1>2, <1>4, <1>5, <2>2
<1>e. ASSUME fr = "hdlc"
      PROVE  \E b \in Seq(Byte), c \in Commands, got \in Seq(Seq(Byte)) :
                 FeedAll(fr, d, <<FLAG>>) = Result(Inside(b, c), got)
  <2>1. /\ d.in_frame \in BOOLEAN /\ d.escape \in BOOLEAN /\ d.buf \in Seq(Byte)
        /\ d.command \in Commands
    BY DecoderShape
  <2>2. d = Decoder(d.in_frame, d.escape, d.buf, d.command)
    BY DecoderShape
  <2>3. CASE d.in_frame = FALSE
    <3>1. \A e \in BOOLEAN : feed(fr, Decoder(FALSE, e, d.buf, d.command), FLAG) = More(Open)
      BY <2>1, HdlcFlags
    <3>2. feed(fr, d, FLAG) = More(Open)
      BY <2>1, <2>2, <2>3, <3>1
    <3> QED
      BY <1>8, <1>b, <3>2
  <2>4. CASE d.in_frame = TRUE /\ d.escape = FALSE
    <3>1. d = Inside(d.buf, d.command)
      BY <2>2, <2>4 DEF Inside
    <3>2. feed(fr, d, FLAG) = Frame(Open, d.buf)
      BY <1>e, <2>1, <3>1, HdlcFlags
    <3>3. FeedAll(fr, d, <<FLAG>>) = Result(Open, Append(nones, d.buf))
      BY <1>9, <2>1, <3>2
    <3>4. Append(nones, d.buf) \in Seq(Seq(Byte))
      BY <2>1
    <3> QED
      BY <1>b, <3>3, <3>4
  <2>5. CASE d.in_frame = TRUE /\ d.escape = TRUE
    <3>1. d = Escaped(d.buf, d.command)
      BY <2>2, <2>5 DEF Escaped
    <3>2. feed(fr, d, FLAG) = More(Inside(Append(d.buf, XorMask(FLAG)), d.command))
      BY <1>1, <2>1, <3>1, HdlcInside
    <3>3. Append(d.buf, XorMask(FLAG)) \in Seq(Byte)
      BY <1>1, <2>1, XorBytes
    <3>4. FeedAll(fr, d, <<FLAG>>) = Result(Inside(Append(d.buf, XorMask(FLAG)), d.command), nones)
      BY <1>8, <3>2
    <3> QED
      BY <2>1, <3>3, <3>4
  <2> QED
    BY <2>1, <2>3, <2>4, <2>5
<1> QED
  BY <1>7, <1>c, <1>d, <1>e

\* The rest of a frame: the payload, after what is in the buffer, is handed on.
LEMMA HdlcClosing ==
    ASSUME NEW fr \in {"hdlc", "serial"}, NEW d, NEW data \in Seq(Byte), NEW b \in Seq(Byte),
           NEW c \in Commands, NEW got \in Seq(Seq(Byte)),
           FeedAll(fr, d, <<FLAG>>) = Result(Inside(b, c), got)
    PROVE  /\ fr = "hdlc" => FeedAll(fr, d, encode(fr, data)) = Result(Open, Append(got, b \o data))
           /\ fr = "serial" /\ b \o data # <<>> =>
                 FeedAll(fr, d, encode(fr, data)) = Result(Idle, Append(got, b \o data))
<1>1. FLAG \in Byte /\ <<FLAG>> \in Seq(Byte) /\ HdlcEscape(data) \in Seq(Byte)
  <2>1. FLAG \in Byte
    BY DEF FLAG, Byte
  <2>2. <<FLAG>> \in Seq(Byte)
    BY ONLY <2>1
  <2>3. HdlcEscape(data) \in Seq(Byte)
    BY HdlcEscapeSteps
  <2> QED
    BY ONLY <2>1, <2>2, <2>3
<1>2. PICK mid \in Seq(Byte) : mid = <<FLAG>> \o HdlcEscape(data)
  BY <1>1, ConcatType
<1>3. encode(fr, data) = mid \o <<FLAG>>
  BY <1>2 DEF encode, HdlcEncode, hdlc_encode
<1>4. mid \o <<FLAG>> = Append(mid, FLAG)
  BY <1>1, AppendByte
<1>5. PICK all \in Seq(Byte) : all = b \o data
  BY ConcatType
<1>6. FeedAll(fr, d, mid) = Result(Inside(all, c), got)
  <2>1. FeedAll(fr, d, <<FLAG>> \o HdlcEscape(data)) = Result(Inside(b \o data, c), got)
    <3>1. PICK pre \in Seq(Byte) : pre = <<FLAG>>
      BY <1>1
    <3>2. FeedAll(fr, d, pre) = Result(Inside(b, c), got)
      BY <3>1
    <3>3. FeedAll(fr, d, pre \o HdlcEscape(data)) = Result(Inside(b \o data, c), got)
      BY <3>2, HdlcBody
    <3> QED
      BY <3>1, <3>3
  <2> QED
    BY <1>2, <1>5, <2>1
<1>7. ASSUME fr = "hdlc" PROVE FeedAll(fr, d, Append(mid, FLAG)) = Result(Open, Append(got, all))
  <2>1. feed(fr, Inside(all, c), FLAG) = Frame(Open, all)
    BY <1>7, HdlcFlags
  <2> QED
    BY <1>1, <1>6, <2>1, FeedFrame
<1>8. ASSUME fr = "serial", all # <<>>
      PROVE  FeedAll(fr, d, Append(mid, FLAG)) = Result(Idle, Append(got, all))
  <2>1. feed(fr, Inside(all, c), FLAG) = Frame(Idle, all)
    BY <1>8, HdlcFlags
  <2> QED
    BY <1>1, <1>6, <2>1, FeedFrame
<1> QED
  BY <1>3, <1>4, <1>5, <1>7, <1>8

\* Whatever the decoder of hdlc.rs was doing, after a whole frame it is in step.
LEMMA HdlcResync ==
    ASSUME NEW data \in Seq(Byte), NEW d \in DecoderType
    PROVE  FeedAll("hdlc", d, encode("hdlc", data)).dec = Open
<1>1. PICK b \in Seq(Byte), c \in Commands, got \in Seq(Seq(Byte)) :
          FeedAll("hdlc", d, <<FLAG>>) = Result(Inside(b, c), got)
  BY HdlcOpening
<1>2. PICK fr \in {"hdlc", "serial"} : fr = "hdlc"
  OBVIOUS
<1>3. FeedAll(fr, d, <<FLAG>>) = Result(Inside(b, c), got)
  BY <1>1, <1>2
<1>4. FeedAll(fr, d, encode(fr, data)) = Result(Open, Append(got, b \o data))
  BY <1>2, <1>3, HdlcClosing, SMTT(60)
<1> QED
  BY <1>2, <1>4 DEF Result

\* A whole HDLC frame: a decoder in step hands on its payload and is in step afterwards, and the
\* one of hdlc.rs is, whatever it was doing before.
LEMMA HdlcFrames ==
    ASSUME NEW data \in Seq(Byte), data # <<>>
    PROVE  /\ FeedAll("hdlc", Idle, encode("hdlc", data)) = Result(Open, <<data>>)
           /\ FeedAll("hdlc", Open, encode("hdlc", data)) = Result(Open, <<<<>>, data>>)
           /\ FeedAll("serial", Idle, encode("serial", data)) = Result(Idle, <<data>>)
           /\ \A d \in DecoderType : FeedAll("hdlc", d, encode("hdlc", data)).dec = Open
<1>1. PICK none \in Seq(Byte) : none = <<>>
  BY EmptyParts
<1>2. PICK nc \in Commands : nc = NoCommand
  BY EmptyParts
<1>3. Open = Inside(none, nc) /\ none \o data = data
  BY <1>1, <1>2 DEF Open, Inside
<1>4. <<>> \in Seq(Seq(Byte)) /\ <<<<>>>> \in Seq(Seq(Byte))
  BY EmptyParts
<1>5. PICK nones \in Seq(Seq(Byte)) : nones = <<>>
  BY <1>4
<1>6. PICK one \in Seq(Seq(Byte)) : one = <<<<>>>>
  BY <1>4
<1>7. Append(nones, data) = <<data>> /\ Append(one, data) = <<<<>>, data>>
  BY <1>5, <1>6, Singletons
<1>8. \A fr \in {"hdlc", "serial"} : FeedAll(fr, Idle, <<FLAG>>) = Result(Inside(none, nc), nones)
  BY <1>3, <1>5, HdlcOpening, IdleAndOpen
<1>9. FeedAll("hdlc", Open, <<FLAG>>) = Result(Inside(none, nc), one)
  BY <1>3, <1>6, HdlcOpening, IdleAndOpen
<1>a. FeedAll("hdlc", Idle, encode("hdlc", data)) = Result(Open, Append(nones, none \o data))
  BY <1>8, HdlcClosing, SMTT(60)
<1>b. FeedAll("hdlc", Open, encode("hdlc", data)) = Result(Open, Append(one, none \o data))
  BY <1>9, HdlcClosing
<1>c. FeedAll("serial", Idle, encode("serial", data)) = Result(Idle, Append(nones, none \o data))
  <2>1. none \o data # <<>> /\ FeedAll("serial", Idle, <<FLAG>>) = Result(Inside(none, nc), nones)
    BY <1>3, <1>8
  <2> QED
    BY <2>1, HdlcClosing, SMTT(60)
<1>d. \A d \in DecoderType : FeedAll("hdlc", d, encode("hdlc", data)).dec = Open
  BY HdlcResync
<1> QED
  BY <1>3, <1>7, <1>a, <1>b, <1>c, <1>d

\* A whole KISS frame.
LEMMA KissFrames ==
    ASSUME NEW data \in Seq(Byte)
    PROVE  FeedAll("kiss", Idle, encode("kiss", data)) = Result(Idle, <<data>>)
<1>1. FEND \in Byte /\ CMD_DATA \in Byte /\ KissEscape(data) \in Seq(Byte) /\ CMD_DATA \in Commands
  <2>1. FEND \in Byte /\ CMD_DATA \in Byte
    BY DEF FEND, CMD_DATA, Byte
  <2>2. CMD_DATA \in Commands
    BY ONLY <2>1 DEF Commands
  <2>3. KissEscape(data) \in Seq(Byte)
    BY KissEscapeSteps
  <2> QED
    BY ONLY <2>1, <2>2, <2>3
<1>2. PICK none \in Seq(Byte) : none = <<>>
  BY EmptyParts
<1>3. PICK nc \in Commands : nc = NoCommand
  BY EmptyParts
<1>4. <<>> \in Seq(Seq(Byte))
  OBVIOUS
<1>5. PICK nones \in Seq(Seq(Byte)) : nones = <<>>
  BY <1>4
<1>6. FeedAll("kiss", Idle, none) = Result(Idle, nones)
  BY <1>2, <1>5, FeedEmpty DEF Result, More
<1>7. feed("kiss", Idle, FEND) = More(Open)
  <2>1. \A e \in BOOLEAN : feed("kiss", Decoder(FALSE, e, none, nc), FEND) = More(Open)
    BY KissDelimiters
  <2>2. Idle = Decoder(FALSE, FALSE, none, nc)
    BY <1>2, <1>3 DEF Idle
  <2> QED
    BY <2>1, <2>2
<1>8. PICK p1 \in Seq(Byte) : p1 = Append(none, FEND)
  BY <1>1, AppendByte
<1>9. FeedAll("kiss", Idle, p1) = Result(Open, nones)
  BY <1>1, <1>6, <1>7, <1>8, FeedMore
<1>a. PICK p2 \in Seq(Byte) : p2 = Append(p1, CMD_DATA)
  BY <1>1, AppendByte
<1>b. feed("kiss", Open, CMD_DATA) = More(Inside(<<>>, CMD_DATA))
  BY <1>2, <1>3, KissDelimiters
<1>c. FeedAll("kiss", Idle, p2) = Result(Inside(<<>>, CMD_DATA), nones)
  BY <1>1, <1>9, <1>a, <1>b, FeedMore
<1>d. PICK p3 \in Seq(Byte) : p3 = p2 \o KissEscape(data)
  BY <1>1, ConcatType
<1>e. FeedAll("kiss", Idle, p3) = Result(Inside(data, CMD_DATA), nones)
  BY <1>1, <1>c, <1>d, KissBody
<1>f. feed("kiss", Inside(data, CMD_DATA), FEND) = Frame(Idle, data)
  BY <1>1, KissDelimiters
<1>g. FeedAll("kiss", Idle, Append(p3, FEND)) = Result(Idle, Append(nones, data))
  BY <1>1, <1>e, <1>f, FeedFrame
<1>h. p2 = <<FEND, CMD_DATA>>
  BY <1>2, <1>8, <1>a, Singletons
<1>i. encode("kiss", data) = p3 \o <<FEND>>
  BY <1>d, <1>h DEF encode, KissEncode, encode_cmd
<1>j. p3 \o <<FEND>> = Append(p3, FEND) /\ Append(nones, data) = <<data>>
  BY <1>1, <1>5, AppendByte, Singletons
<1> QED
  BY <1>g, <1>i, <1>j

-----------------------------------------------------------------------------
(* hdlc_decode *)

\* A decoder that collects the inside of a frame.
Collected(buf) == Decoder(FALSE, FALSE, buf, NoCommand)

\* What a byte does to it.
LEMMA CollectStep ==
    ASSUME NEW s \in Seq(Byte)
    PROVE  /\ \A x \in Byte : x # ESC =>
                 \A isLast \in BOOLEAN : DecodeByte(Collected(s), x, isLast) = Collected(Append(s, x))
           /\ \A x \in Byte : \A isLast \in BOOLEAN :
                 DecodeByte(DecodeByte(Collected(s), ESC, FALSE), x, isLast)
                 = Collected(Append(s, XorMask(x)))
<1>1. PICK nc \in Commands : nc = NoCommand
  BY EmptyParts
<1>2. \A i, e \in BOOLEAN : Decoder(i, e, s, nc).escape = e
  BY DecoderFields
<1>3. \A i, e \in BOOLEAN : \A x \in Byte : Push(Decoder(i, e, s, nc), x) = Decoder(i, FALSE, Append(s, x), nc)
  BY PushShape, ZenonT(60)
<1>4. [Decoder(FALSE, FALSE, s, nc) EXCEPT !.escape = TRUE] = Decoder(FALSE, TRUE, s, nc)
  BY EscapeShape
<1>5. PICK d : d = Decoder(FALSE, FALSE, s, nc)
  OBVIOUS
<1>6. PICK w : w = Decoder(FALSE, TRUE, s, nc)
  OBVIOUS
<1>7. d = Collected(s) /\ d.escape = FALSE /\ [d EXCEPT !.escape = TRUE] = w
  BY <1>1, <1>2, <1>4, <1>5, <1>6 DEF Collected
<1>8. w.escape = TRUE
  BY <1>2, <1>6
<1>9. \A x \in Byte : Push(d, x) = Collected(Append(s, x)) /\ Push(w, x) = Collected(Append(s, x))
  BY <1>1, <1>3, <1>5, <1>6 DEF Collected
<1>10. DecodeByte(d, ESC, FALSE) = w
  BY <1>7 DEF DecodeByte
<1>11. ASSUME NEW x \in Byte, x # ESC, NEW isLast \in BOOLEAN
       PROVE  DecodeByte(d, x, isLast) = Collected(Append(s, x))
  BY <1>7, <1>9, <1>11 DEF DecodeByte
<1>12. ASSUME NEW x \in Byte, NEW isLast \in BOOLEAN
       PROVE  DecodeByte(w, x, isLast) = Collected(Append(s, XorMask(x)))
  BY <1>8, <1>9, XorBytes DEF DecodeByte
<1> QED
  BY <1>7, <1>10, <1>11, <1>12

\* One byte more of the inside of a frame.
LEMMA CollectByte ==
    ASSUME NEW total \in Nat, NEW e \in Seq(Byte), NEW x \in Byte
    PROVE  DecodedBy(Len(e) + 1, total, Append(e, x))[Len(e) + 1]
           = DecodeByte(DecodedBy(Len(e), total, e)[Len(e)], x, Len(e) + 1 = total)
<1> DEFINE t == Append(e, x)
           n == Len(e)
<1>1. n \in Nat /\ t[n + 1] = x /\ \A i \in 1..n : e[i] = t[i]
  OBVIOUS
<1> HIDE DEF t, n
<1>2. (n + 1) # 0 /\ (n + 1) - 1 = n /\ n + 1 \in 0..(n + 1) /\ n <= n + 1 /\ n \in 0..n /\ n + 1 \in Nat
  BY <1>1
<1>3. DecodedBy(n + 1, total, t)[n + 1] = DecodeByte(DecodedBy(n + 1, total, t)[n], x, n + 1 = total)
  BY <1>1, <1>2, DecodedByValues
<1>4. DecodedBy(n, total, e)[n] = DecodedBy(n + 1, total, t)[n]
  BY <1>1, <1>2, DecodedByOfPrefix
<1> QED
  BY <1>3, <1>4 DEF t, n

\* What is collected after the code of one byte more.
CollectsAs(e, s) ==
    \A total \in Nat : total >= Len(e) => DecodedBy(Len(e), total, e)[Len(e)] = Collected(s)

\* The code of one byte more.
LEMMA CollectCode ==
    ASSUME NEW e \in Seq(Byte), NEW s \in Seq(Byte), NEW x \in Byte, CollectsAs(e, s)
    PROVE  CollectsAs(e \o HdlcCode(x), Append(s, x))
<1>1. ESC \in Byte /\ Len(e) \in Nat
  BY DEF ESC, Byte
<1>2. CASE x \notin {FLAG, ESC}
  <2>1. e \o HdlcCode(x) = Append(e, x)
    BY <1>2, AppendByte DEF HdlcCode
  <2>2. Len(Append(e, x)) = Len(e) + 1
    OBVIOUS
  <2>3. ASSUME NEW total \in Nat, total >= Len(e) + 1
        PROVE  DecodedBy(Len(e) + 1, total, Append(e, x))[Len(e) + 1] = Collected(Append(s, x))
    <3>1. DecodedBy(Len(e), total, e)[Len(e)] = Collected(s)
      BY <1>1, <2>3 DEF CollectsAs
    <3>2. (Len(e) + 1 = total) \in BOOLEAN
      OBVIOUS
    <3>3. DecodeByte(Collected(s), x, Len(e) + 1 = total) = Collected(Append(s, x))
      BY <1>2, <3>2, CollectStep
    <3> QED
      BY <3>1, <3>3, CollectByte
  <2> QED
    BY <2>1, <2>2, <2>3 DEF CollectsAs
<1>3. CASE x \in {FLAG, ESC}
  <2>1. PICK y \in Byte : HdlcCode(x) = <<ESC, y>> /\ XorMask(y) = x
    <3>1. 94 \in Byte /\ 93 \in Byte
      BY DEF Byte
    <3> QED
      BY <1>3, <3>1, XorBytes DEF HdlcCode
  <2>2. PICK f \in Seq(Byte) : f = Append(e, ESC)
    BY <1>1, AppendByte
  <2>3. Len(f) = Len(e) + 1 /\ Len(Append(f, y)) = Len(e) + 2
    BY <1>1, <2>2
  <2>4. e \o HdlcCode(x) = Append(f, y)
    BY <1>1, <2>1, <2>2
  <2>5. ASSUME NEW total \in Nat, total >= Len(e) + 2
        PROVE  DecodedBy(Len(f) + 1, total, Append(f, y))[Len(f) + 1] = Collected(Append(s, x))
    <3>1. DecodedBy(Len(e), total, e)[Len(e)] = Collected(s)
      BY <1>1, <2>5 DEF CollectsAs
    <3>2. (Len(f) + 1 = total) \in BOOLEAN /\ (Len(e) + 1 = total) = FALSE
      BY <1>1, <2>5
    <3>3. DecodedBy(Len(f), total, f)[Len(f)] = DecodeByte(Collected(s), ESC, FALSE)
      <4>1. DecodedBy(Len(e) + 1, total, Append(e, ESC))[Len(e) + 1]
            = DecodeByte(DecodedBy(Len(e), total, e)[Len(e)], ESC, Len(e) + 1 = total)
        BY <1>1, CollectByte
      <4> QED
        BY <2>2, <2>3, <3>1, <3>2, <4>1
    <3>4. DecodedBy(Len(f) + 1, total, Append(f, y))[Len(f) + 1]
          = DecodeByte(DecodedBy(Len(f), total, f)[Len(f)], y, Len(f) + 1 = total)
      BY CollectByte
    <3>5. DecodeByte(DecodeByte(Collected(s), ESC, FALSE), y, Len(f) + 1 = total)
          = Collected(Append(s, XorMask(y)))
      BY <3>2, CollectStep
    <3> QED
      BY <2>1, <3>3, <3>4, <3>5
  <2>6. Len(f) + 1 = Len(e) + 2
    BY <1>1, <2>3
  <2> QED
    BY <2>3, <2>4, <2>5, <2>6 DEF CollectsAs
<1> QED
  BY <1>2, <1>3

\* The inside of a frame decodes to its payload.
LEMMA CollectAll ==
    ASSUME NEW data \in Seq(Byte)
    PROVE  DecodeInner(HdlcEscape(data)) = data
<1> DEFINE T == {s \in Seq(Byte) : CollectsAs(HdlcEscape(s), s)}
<1>1. <<>> \in T
  <2>1. <<>> \in Seq(Byte) /\ HdlcEscape(<<>>) = <<>>
    BY EmptyParts, HdlcEscapeSteps
  <2>2. \A total : DecodedBy(0, total, <<>>)[0] = NewDecoder
    BY DecodedByValues
  <2>3. NewDecoder = Collected(<<>>)
    BY IdleAndOpen DEF Collected, Idle
  <2>4. CollectsAs(<<>>, <<>>)
    BY <2>2, <2>3 DEF CollectsAs
  <2> QED
    BY <2>1, <2>4
<1>2. ASSUME NEW s \in Seq(Byte), NEW x \in Byte, s \in T PROVE Append(s, x) \in T
  <2>1. CollectsAs(HdlcEscape(s) \o HdlcCode(x), Append(s, x))
    BY <1>2, CollectCode, HdlcEscapeSteps
  <2>2. HdlcEscape(Append(s, x)) = HdlcEscape(s) \o HdlcCode(x) /\ Append(s, x) \in Seq(Byte)
    BY HdlcEscapeSteps, AppendByte
  <2> QED
    BY <2>1, <2>2
<1> HIDE DEF T
<1>3. data \in T
  BY <1>1, <1>2, SequenceInduction
<1>4. PICK e \in Seq(Byte) : e = HdlcEscape(data)
  BY HdlcEscapeSteps
<1>5. DecodedBy(Len(e), Len(e), e)[Len(e)] = Collected(data)
  <2>1. Len(e) \in Nat /\ Len(e) >= Len(e)
    BY LenProperties
  <2> QED
    BY <1>3, <1>4, <2>1 DEF T, CollectsAs
<1>6. DecodeInner(e) = DecodedBy(Len(e), Len(e), e)[Len(e)].buf
  BY DEF DecodeInner, DecodedBy, Decodes
<1>7. Collected(data).buf = data
  BY DEF Collected, Decoder
<1> QED
  BY <1>4, <1>5, <1>6, <1>7

\* A buffer that holds one frame decodes to its payload.
LEMMA BufferDecodes ==
    ASSUME NEW data \in Seq(Byte)
    PROVE  hdlc_decode(encode("serial", data)) = <<data>>
<1>1. PICK e \in Seq(Byte) : e = HdlcEscape(data)
  BY HdlcEscapeSteps
<1>2. PICK f : f = <<FLAG>> \o e \o <<FLAG>>
  OBVIOUS
<1>3. encode("serial", data) = f
  BY <1>1, <1>2 DEF encode, HdlcEncode, hdlc_encode
<1>4. FLAG \in Byte
  BY DEF FLAG, Byte
<1>5. /\ Len(e) \in Nat /\ f \in Seq(Byte) /\ Len(f) = Len(e) + 2 /\ f[1] = FLAG /\ f[Len(e) + 2] = FLAG
      /\ \A i \in 1..Len(e) : f[i + 1] = e[i]
  BY ONLY <1>2, <1>4, e \in Seq(Byte)
<1>6. SubSeq(f, 2, Len(f) - 1) = e
  BY ONLY <1>5, e \in Seq(Byte)
<1>7. hdlc_decode(f) = <<DecodeInner(SubSeq(f, 2, Len(f) - 1))>>
  BY <1>5 DEF hdlc_decode
<1> QED
  BY <1>1, <1>3, <1>6, <1>7, CollectAll

-----------------------------------------------------------------------------
(* The decoders keep their types *)

\* A decoder after a byte, and the frame it may have completed.
FedType == [dec : DecoderType, out : Seq(Seq(Byte))]

\* What the cases of feed return.
LEMMA MoreAndFrame ==
    ASSUME NEW d \in DecoderType, NEW b \in Seq(Byte)
    PROVE  More(d) \in FedType /\ Frame(d, b) \in FedType
<1>1. <<>> \in Seq(Seq(Byte)) /\ <<b>> \in Seq(Seq(Byte))
  OBVIOUS
<1> QED
  BY <1>1 DEF More, Frame, FedType

\* One byte, in any state of the decoder.
LEMMA FeedType ==
    ASSUME NEW fr \in Framings, NEW d \in DecoderType, NEW x \in Byte
    PROVE  feed(fr, d, x) \in FedType
<1>1. /\ d.in_frame \in BOOLEAN /\ d.escape \in BOOLEAN /\ d.buf \in Seq(Byte)
      /\ d.command \in Commands
  BY DecoderShape
<1>2. \A y \in Byte : Push(d, y) \in DecoderType
  <2>1. ASSUME NEW y \in Byte PROVE Push(d, y) \in DecoderType
    <3>1. Append(d.buf, y) \in Seq(Byte)
      BY <1>1, AppendByte
    <3> QED
      BY <3>1 DEF Push, DecoderType
  <2> QED
    BY <2>1
<1>3. [d EXCEPT !.escape = TRUE] \in DecoderType
  BY DEF DecoderType
<1>4. [d EXCEPT !.command = x] \in DecoderType
  BY DEF DecoderType, Commands
<1>5. Opened(d) \in DecoderType /\ NewDecoder \in DecoderType
  BY IdleAndOpen
<1>6. XorMask(x) \in Byte /\ KissUnescape(x) \in Byte
  <2>1. KissUnescape(x) \in Byte
    BY DEF KissUnescape, Byte, FESC, FEND
  <2> QED
    BY <2>1, XorBytes
<1>7. HdlcClose(d) \in FedType /\ SerialClose(d) \in FedType
  BY <1>1, <1>5, MoreAndFrame DEF HdlcClose, SerialClose
<1>a. PICK b \in Seq(Byte) : TRUE
  BY EmptyParts
<1>b. \A dd \in DecoderType : More(dd) \in FedType
  BY MoreAndFrame
<1>8. ASSUME NEW q \in FedType PROVE HdlcFeed(d, x, q) \in FedType
  BY <1>1, <1>2, <1>3, <1>5, <1>6, <1>b DEF HdlcFeed
<1>9. KissFeed(d, x) \in FedType
  BY <1>1, <1>2, <1>3, <1>4, <1>5, <1>6, MoreAndFrame DEF KissFeed
<1> QED
  BY <1>7, <1>8, <1>9 DEF feed, SerialFeed, Framings

\* A run of bytes.
LEMMA FeedAllType ==
    ASSUME NEW fr \in Framings, NEW d \in DecoderType, NEW bytes \in Seq(Byte)
    PROVE  FeedAll(fr, d, bytes) \in FedType
<1> DEFINE T == {s \in Seq(Byte) : FeedAll(fr, d, s) \in FedType}
<1>1. <<>> \in T
  BY EmptyParts, FeedEmpty, MoreAndFrame
<1>2. ASSUME NEW s \in Seq(Byte), NEW x \in Byte, s \in T PROVE Append(s, x) \in T
  <2>1. FeedAll(fr, d, Append(s, x)) = FeedByte(fr, FeedAll(fr, d, s), x)
    BY FeedAppend
  <2>2. PICK q \in FedType : q = FeedAll(fr, d, s)
    BY <1>2
  <2>3. PICK w \in FedType : w = feed(fr, q.dec, x)
    BY FeedType DEF FedType
  <2>4. q.out \o w.out \in Seq(Seq(Byte)) /\ w.dec \in DecoderType
    BY ConcatProperties DEF FedType
  <2>5. FeedByte(fr, q, x) \in FedType
    BY <2>3, <2>4 DEF FeedByte, FedType
  <2> QED
    BY <2>1, <2>2, <2>5, AppendByte
<1> HIDE DEF T
<1>3. bytes \in T
  BY <1>1, <1>2, SequenceInduction
<1> QED
  BY <1>3 DEF T

-----------------------------------------------------------------------------
(* Packets on the wire *)

\* The bytes of two sequences one after the other.
LEMMA ConcatParts ==
    ASSUME NEW s \in Seq(Byte), NEW t \in Seq(Byte)
    PROVE  /\ Len(s \o t) = Len(s) + Len(t)
           /\ \A i \in 1..Len(s) : (s \o t)[i] = s[i]
           /\ \A i \in 1..Len(t) : (s \o t)[Len(s) + i] = t[i]
<1>1. Len(s) \in Nat /\ Len(t) \in Nat
  BY LenProperties
<1>2. Len(s \o t) = Len(s) + Len(t)
  BY ConcatProperties
<1>3. \A i \in 1..Len(s) + Len(t) : (s \o t)[i] = IF i <= Len(s) THEN s[i] ELSE t[i - Len(s)]
  BY ConcatProperties
<1>4. \A i \in 1..Len(s) : (s \o t)[i] = s[i]
  BY ONLY <1>1, <1>3
<1>5. ASSUME NEW i \in 1..Len(t) PROVE (s \o t)[Len(s) + i] = t[i]
  <2>1. Len(s) + i \in 1..Len(s) + Len(t) /\ ~(Len(s) + i <= Len(s)) /\ (Len(s) + i) - Len(s) = i
    BY ONLY <1>1, i \in 1..Len(t)
  <2> QED
    BY ONLY <1>3, <2>1
<1> QED
  BY <1>2, <1>4, <1>5

\* A part of a sequence of bytes, between what precedes and what follows it.
LEMMA Slice ==
    ASSUME NEW s \in Seq(Byte), NEW t \in Seq(Byte), NEW u \in Seq(Byte)
    PROVE  /\ Len((s \o t) \o u) = Len(s) + Len(t) + Len(u)
           /\ SubSeq((s \o t) \o u, Len(s) + 1, Len(s) + Len(t)) = t
           /\ \A i \in 1..Len(s) : ((s \o t) \o u)[i] = s[i]
           /\ \A i \in 1..Len(t) : ((s \o t) \o u)[Len(s) + i] = t[i]
<1>1. PICK a \in Seq(Byte) : a = s \o t
  BY ConcatType
<1>2. PICK w \in Seq(Byte) : w = a \o u
  BY ConcatType
<1>3. Len(s) \in Nat /\ Len(t) \in Nat /\ Len(u) \in Nat
  BY LenProperties
<1>4. /\ Len(a) = Len(s) + Len(t) /\ \A i \in 1..Len(s) : a[i] = s[i]
      /\ \A i \in 1..Len(t) : a[Len(s) + i] = t[i]
  BY <1>1, ConcatParts
<1>5. Len(w) = Len(a) + Len(u) /\ \A i \in 1..Len(a) : w[i] = a[i]
  BY <1>2, ConcatParts
<1>6. Len(w) = Len(s) + Len(t) + Len(u)
  BY ONLY <1>3, <1>4, <1>5
<1>7. \A i \in 1..Len(s) : w[i] = s[i]
  BY ONLY <1>3, <1>4, <1>5
<1>8. ASSUME NEW i \in 1..Len(t) PROVE w[Len(s) + i] = t[i]
  <2>1. Len(s) + i \in 1..Len(a)
    BY ONLY <1>3, <1>4, i \in 1..Len(t)
  <2> QED
    BY ONLY <1>4, <1>5, <2>1, i \in 1..Len(t)
<1>9. SubSeq(w, Len(s) + 1, Len(s) + Len(t)) = t
  BY ONLY <1>3, <1>6, <1>8, w \in Seq(Byte), t \in Seq(Byte)
<1> QED
  BY <1>1, <1>2, <1>6, <1>7, <1>8, <1>9

\* One byte, and two.
LEMMA ShortBytes ==
    ASSUME NEW a \in Byte, NEW b \in Byte
    PROVE  <<a>> \in Seq(Byte) /\ <<a, b>> \in Seq(Byte)
OBVIOUS

\* The parts of a packet on the wire.
Wire(f, h, id, dst, ctx, body) == <<f, h>> \o id \o dst \o <<ctx>> \o body

\* Every part is found again at its place.
LEMMA WireParts ==
    ASSUME NEW f, NEW h, NEW id, NEW dst, NEW ctx, NEW body, f \in Byte, h \in Byte,
           id \in Seq(Byte), dst \in Seq(Byte), ctx \in Byte, body \in Seq(Byte)
    PROVE  /\ Wire(f, h, id, dst, ctx, body) \in Seq(Byte)
           /\ Wire(f, h, id, dst, ctx, body)[1] = f
           /\ Wire(f, h, id, dst, ctx, body)[2] = h
           /\ Len(Wire(f, h, id, dst, ctx, body)) = 3 + Len(id) + Len(dst) + Len(body)
           /\ SubSeq(Wire(f, h, id, dst, ctx, body), 3, 2 + Len(id)) = id
           /\ SubSeq(Wire(f, h, id, dst, ctx, body), 3 + Len(id), 2 + Len(id) + Len(dst)) = dst
           /\ Wire(f, h, id, dst, ctx, body)[3 + Len(id) + Len(dst)] = ctx
           /\ SubSeq(Wire(f, h, id, dst, ctx, body), 4 + Len(id) + Len(dst),
                     3 + Len(id) + Len(dst) + Len(body)) = body
<1>0. PICK w : w = Wire(f, h, id, dst, ctx, body)
  OBVIOUS
<1>1. PICK s2 : s2 = <<f, h>> /\ s2 \in Seq(Byte)
  BY ONLY f \in Byte, h \in Byte, ShortBytes
<1>2. PICK s4 : s4 = <<ctx>> /\ s4 \in Seq(Byte)
  BY ONLY ctx \in Byte, ShortBytes
<1>3. PICK none : none = <<>> /\ none \in Seq(Byte)
  BY ONLY EmptyParts
<1>4. PICK a1 : a1 = s2 \o id /\ a1 \in Seq(Byte)
  BY ONLY <1>1, id \in Seq(Byte), ConcatType
<1>5. PICK a2 : a2 = a1 \o dst /\ a2 \in Seq(Byte)
  BY ONLY <1>4, dst \in Seq(Byte), ConcatType
<1>6. PICK a3 : a3 = a2 \o s4 /\ a3 \in Seq(Byte)
  BY ONLY <1>2, <1>5, ConcatType
<1>7. PICK z : z = a3 \o body /\ z \in Seq(Byte)
  BY ONLY <1>6, body \in Seq(Byte), ConcatType
<1>8. w = z
  BY ONLY <1>1, <1>2, <1>4, <1>5, <1>6, <1>7, <1>0 DEF Wire
<1>9. /\ Len(s2) = 2 /\ s2[1] = f /\ s2[2] = h /\ Len(s4) = 1 /\ s4[1] = ctx /\ Len(none) = 0
      /\ Len(id) \in Nat /\ Len(dst) \in Nat /\ Len(body) \in Nat
  BY <1>1, <1>2, <1>3, LenProperties
<1>10. /\ Len(a1) = 2 + Len(id) /\ Len(a2) = 2 + Len(id) + Len(dst)
       /\ Len(a3) = 3 + Len(id) + Len(dst) /\ Len(z) = 3 + Len(id) + Len(dst) + Len(body)
  <2>1. Len(a1) = Len(s2) + Len(id)
    BY ONLY <1>1, <1>4, id \in Seq(Byte), ConcatParts
  <2>2. Len(a2) = Len(a1) + Len(dst)
    BY ONLY <1>4, <1>5, dst \in Seq(Byte), ConcatParts
  <2>3. Len(a3) = Len(a2) + Len(s4)
    BY ONLY <1>2, <1>5, <1>6, ConcatParts
  <2>4. Len(z) = Len(a3) + Len(body)
    BY ONLY <1>6, <1>7, body \in Seq(Byte), ConcatParts
  <2> QED
    BY ONLY <1>9, <2>1, <2>2, <2>3, <2>4
<1>11. PICK t3 : t3 = s4 \o body /\ t3 \in Seq(Byte)
  BY ONLY <1>2, body \in Seq(Byte), ConcatType
<1>12. PICK t2 : t2 = dst \o t3 /\ t2 \in Seq(Byte)
  BY ONLY <1>11, dst \in Seq(Byte), ConcatType
<1>13. z = a2 \o t3
  <2>1. (a2 \o s4) \o body = a2 \o (s4 \o body)
    BY ONLY <1>2, <1>5, body \in Seq(Byte), ConcatBytes
  <2> QED
    BY ONLY <1>6, <1>7, <1>11, <2>1
<1>14. z = a1 \o t2
  <2>1. (a1 \o dst) \o t3 = a1 \o (dst \o t3)
    BY ONLY <1>4, <1>11, dst \in Seq(Byte), ConcatBytes, ZenonT(60)
  <2> QED
    BY ONLY <1>5, <1>12, <1>13, <2>1
<1>15. z = (a3 \o body) \o none
  BY ONLY <1>3, <1>7, ConcatEmptySeq
<1>16. z[1] = f /\ z[2] = h /\ SubSeq(z, 2 + 1, 2 + Len(id)) = id
  <2>1. z = (s2 \o id) \o t2
    BY ONLY <1>4, <1>14
  <2>2. SubSeq(z, Len(s2) + 1, Len(s2) + Len(id)) = id /\ \A i \in 1..Len(s2) : z[i] = s2[i]
    BY ONLY <1>1, <1>12, id \in Seq(Byte), <2>1, Slice
  <2> QED
    BY ONLY <1>9, <2>2
<1>17. SubSeq(z, Len(a1) + 1, Len(a1) + Len(dst)) = dst
  BY ONLY <1>4, <1>5, <1>11, <1>13, dst \in Seq(Byte), Slice
<1>18. z[Len(a2) + 1] = ctx
  <2>1. \A i \in 1..Len(s4) : z[Len(a2) + i] = s4[i]
    BY ONLY <1>2, <1>5, <1>6, <1>7, body \in Seq(Byte), Slice
  <2> QED
    BY ONLY <1>9, <2>1
<1>19. SubSeq(z, Len(a3) + 1, Len(a3) + Len(body)) = body
  BY ONLY <1>3, <1>6, <1>15, body \in Seq(Byte), Slice
<1>20. /\ 2 + 1 = 3 /\ Len(a1) + 1 = 3 + Len(id) /\ Len(a1) + Len(dst) = 2 + Len(id) + Len(dst)
       /\ Len(a2) + 1 = 3 + Len(id) + Len(dst) /\ Len(a3) + 1 = 4 + Len(id) + Len(dst)
       /\ Len(a3) + Len(body) = 3 + Len(id) + Len(dst) + Len(body)
  BY ONLY <1>9, <1>10
<1> QED
  BY ONLY <1>0, <1>7, <1>8, <1>10, <1>16, <1>17, <1>18, <1>19, <1>20

\* The fields of a flag byte.
Flags(ht, cf, tt, dt, pt) ==
    [header_type |-> ht, context_flag |-> cf, transport_type |-> tt,
     destination_type |-> dt, packet_type |-> pt]

\* The flag byte holds its five fields.
LEMMA FlagsRoundTrip ==
    ASSUME NEW ht \in 0..3, NEW cf \in 0..1, NEW tt \in 0..1, NEW dt \in 0..3, NEW pt \in 0..3
    PROVE  /\ pack_flags(ht, cf, tt, dt, pt) \in Byte
           /\ unpack_flags(pack_flags(ht, cf, tt, dt, pt)) = Flags(ht, cf, tt, dt, pt)
<1>1. ht % 4 = ht /\ cf % 2 = cf /\ tt % 2 = tt /\ dt % 4 = dt /\ pt % 4 = pt
  OBVIOUS
<1>2. PICK f \in Int : f = 64 * ht + 32 * cf + 16 * tt + 4 * dt + pt
  OBVIOUS
<1>3. pack_flags(ht, cf, tt, dt, pt) = f
  BY <1>1, <1>2 DEF pack_flags
<1>4. f \in 0..255
  BY <1>2
<1>5. f \div 64 = ht
  BY <1>2
<1>6. f \div 32 = 2 * ht + cf
  BY <1>2
<1>7. f \div 16 = 4 * ht + 2 * cf + tt
  BY <1>2
<1>8. f \div 4 = 16 * ht + 8 * cf + 4 * tt + dt
  BY <1>2
<1>9. f % 4 = pt
  BY <1>2
<1>10. (f \div 64) % 4 = ht /\ (f \div 32) % 2 = cf /\ (f \div 16) % 2 = tt /\ (f \div 4) % 4 = dt
  BY ONLY <1>5, <1>6, <1>7, <1>8, ht \in 0..3, cf \in 0..1, tt \in 0..1, dt \in 0..3
<1> QED
  BY <1>3, <1>4, <1>9, <1>10 DEF unpack_flags, Byte, Flags

\* The packets that the constructors make: fields of the right width, and a transport_id exactly
\* in a packet with the long header.
Hash == {h \in Seq(Byte) : Len(h) = HashLen}
Fields == [header_type : {HEADER_1, HEADER_2}, context_flag : 0..1, transport_type : 0..1,
           destination_type : 0..3, packet_type : 0..3, hops : Byte, destination_hash : Hash,
           transport_id : {<<>>} \cup {<<h>> : h \in Hash}, context : Byte, data : Seq(Byte)]
WellFormed == {p \in Fields : p.header_type = HEADER_2 <=> p.transport_id # <<>>}

\* The transport_id on the wire.
WireId(p) == IF p.header_type = HEADER_2 THEN p.transport_id[1] ELSE <<>>
WireFlags(p) ==
    pack_flags(p.header_type, p.context_flag, p.transport_type, p.destination_type, p.packet_type)

\* The fields of a packet.
LEMMA WellFormedFields ==
    ASSUME NEW p, p \in WellFormed
    PROVE  /\ p.header_type \in {HEADER_1, HEADER_2} /\ p.context_flag \in 0..1
           /\ p.transport_type \in 0..1 /\ p.destination_type \in 0..3 /\ p.packet_type \in 0..3
           /\ p.hops \in Byte /\ p.destination_hash \in Hash /\ p.context \in Byte
           /\ p.data \in Seq(Byte)
           /\ p.header_type = HEADER_2 => \E h \in Hash : p.transport_id = <<h>>
           /\ p.header_type # HEADER_2 => p.transport_id = <<>>
           /\ p = [header_type |-> p.header_type, context_flag |-> p.context_flag,
                   transport_type |-> p.transport_type, destination_type |-> p.destination_type,
                   packet_type |-> p.packet_type, hops |-> p.hops,
                   destination_hash |-> p.destination_hash, transport_id |-> p.transport_id,
                   context |-> p.context, data |-> p.data]
BY DEF WellFormed, Fields

\* A packet on the wire, and its length.
LEMMA WireOf ==
    ASSUME NEW p, p \in WellFormed
    PROVE  /\ to_bytes(p) = Wire(WireFlags(p), p.hops, WireId(p), p.destination_hash, p.context, p.data)
           /\ WireFlags(p) \in Byte /\ WireId(p) \in Seq(Byte)
           /\ p.header_type = HEADER_2 => p.transport_id = <<WireId(p)>> /\ Len(WireId(p)) = HashLen
           /\ p.header_type # HEADER_2 => Len(WireId(p)) = 0
           /\ to_bytes(p) \in Seq(Byte)
           /\ Len(to_bytes(p)) = 3 + Len(WireId(p)) + HashLen + Len(p.data)
<1>1. /\ p.header_type \in 0..3 /\ p.context_flag \in 0..1
      /\ p.transport_type \in 0..1 /\ p.destination_type \in 0..3 /\ p.packet_type \in 0..3
  BY WellFormedFields DEF HEADER_1, HEADER_2
<1>2. WireFlags(p) \in Byte
  BY <1>1, FlagsRoundTrip DEF WireFlags
<1>5. /\ to_bytes(p) = Wire(WireFlags(p), p.hops, WireId(p), p.destination_hash, p.context, p.data)
      /\ WireId(p) \in Seq(Byte)
      /\ p.header_type = HEADER_2 => p.transport_id = <<WireId(p)>> /\ Len(WireId(p)) = HashLen
      /\ p.header_type # HEADER_2 => Len(WireId(p)) = 0
  <2>1. CASE p.header_type = HEADER_2
    <3>1. PICK h \in Hash : p.transport_id = <<h>>
      BY <2>1, WellFormedFields
    <3>2. WireId(p) = h /\ p.transport_id # <<>> /\ p.transport_id[1] = h
      BY ONLY <2>1, <3>1 DEF WireId
    <3>3. h \in Seq(Byte) /\ Len(h) = HashLen
      BY DEF Hash
    <3>4. to_bytes(p) = Wire(WireFlags(p), p.hops, WireId(p), p.destination_hash, p.context, p.data)
      BY ONLY <2>1, <3>2 DEF to_bytes, Wire, WireFlags
    <3> QED
      BY ONLY <2>1, <3>1, <3>2, <3>3, <3>4
  <2>2. CASE p.header_type # HEADER_2
    <3>1. WireId(p) = <<>>
      BY ONLY <2>2 DEF WireId
    <3>2. <<>> \in Seq(Byte) /\ Len(<<>>) = 0
      BY EmptyParts
    <3>3. to_bytes(p) = Wire(WireFlags(p), p.hops, WireId(p), p.destination_hash, p.context, p.data)
      BY ONLY <2>2, <3>1 DEF to_bytes, Wire, WireFlags
    <3> QED
      BY ONLY <2>2, <3>1, <3>2, <3>3
  <2> QED
    BY ONLY <2>1, <2>2
<1>6. /\ p.hops \in Byte /\ p.context \in Byte /\ p.data \in Seq(Byte)
      /\ p.destination_hash \in Seq(Byte) /\ Len(p.destination_hash) = HashLen
  BY WellFormedFields DEF Hash
<1>7. PICK w : w = to_bytes(p)
  OBVIOUS
<1>8. /\ w \in Seq(Byte)
      /\ Len(w) = 3 + Len(WireId(p)) + Len(p.destination_hash) + Len(p.data)
  <2>1. PICK f, h, id, dst, ctx, body :
            /\ f = WireFlags(p) /\ h = p.hops /\ id = WireId(p) /\ dst = p.destination_hash
            /\ ctx = p.context /\ body = p.data
    OBVIOUS
  <2>2. /\ w = Wire(f, h, id, dst, ctx, body)
        /\ f \in Byte /\ h \in Byte /\ ctx \in Byte
        /\ id \in Seq(Byte) /\ dst \in Seq(Byte) /\ body \in Seq(Byte)
    BY ONLY <1>2, <1>5, <1>6, <1>7, <2>1
  <2>3. w \in Seq(Byte) /\ Len(w) = 3 + Len(id) + Len(dst) + Len(body)
    <3>1. w \in Seq(Byte)
      BY ONLY <2>2, WireParts
    <3>2. Len(w) = 3 + Len(id) + Len(dst) + Len(body)
      BY ONLY <2>2, WireParts
    <3> QED
      BY ONLY <3>1, <3>2
  <2> QED
    BY ONLY <2>1, <2>3
<1> QED
  BY ONLY <1>2, <1>5, <1>6, <1>7, <1>8

\* A packet that is read from its bytes is the packet that was written.
LEMMA RoundTrip ==
    ASSUME NEW p, p \in WellFormed
    PROVE  from_bytes(to_bytes(p)) = <<p>>
<1>1. PICK w : w = to_bytes(p)
  OBVIOUS
<1>2. PICK id : id = WireId(p)
  OBVIOUS
<1>3. /\ p.hops \in Byte /\ p.context \in Byte /\ p.data \in Seq(Byte)
      /\ p.destination_hash \in Seq(Byte) /\ Len(p.destination_hash) = HashLen
      /\ p.header_type \in {HEADER_1, HEADER_2}
  BY WellFormedFields DEF Hash
<1>4. /\ w = Wire(WireFlags(p), p.hops, id, p.destination_hash, p.context, p.data)
      /\ WireFlags(p) \in Byte /\ id \in Seq(Byte)
      /\ p.header_type = HEADER_2 => p.transport_id = <<id>> /\ Len(id) = HashLen
      /\ p.header_type # HEADER_2 => p.transport_id = <<>> /\ Len(id) = 0
  BY <1>1, <1>2, WireOf, WellFormedFields
<1>5. /\ w[1] = WireFlags(p) /\ w[2] = p.hops
      /\ Len(w) = 3 + Len(id) + HashLen + Len(p.data)
      /\ SubSeq(w, 3, 2 + Len(id)) = id
      /\ SubSeq(w, 3 + Len(id), 2 + Len(id) + HashLen) = p.destination_hash
      /\ w[3 + Len(id) + HashLen] = p.context
      /\ SubSeq(w, 4 + Len(id) + HashLen, Len(w)) = p.data
  <2>1. PICK f \in Byte, h \in Byte, ctx \in Byte :
            f = WireFlags(p) /\ h = p.hops /\ ctx = p.context
    BY <1>3, <1>4
  <2>a. PICK ii \in Seq(Byte), dst \in Seq(Byte), body \in Seq(Byte) :
            ii = id /\ dst = p.destination_hash /\ body = p.data
    BY <1>3, <1>4
  <2>2. w = Wire(f, h, ii, dst, ctx, body)
    BY ONLY <1>4, <2>1, <2>a
  <2>3. /\ w[1] = f /\ w[2] = h
        /\ Len(w) = 3 + Len(ii) + Len(dst) + Len(body)
        /\ SubSeq(w, 3, 2 + Len(ii)) = ii
        /\ SubSeq(w, 3 + Len(ii), 2 + Len(ii) + Len(dst)) = dst
        /\ w[3 + Len(ii) + Len(dst)] = ctx
        /\ SubSeq(w, 4 + Len(ii) + Len(dst), Len(w)) = body
    <3>1. w[1] = f /\ w[2] = h
      BY ONLY <2>2, WireParts
    <3>2. Len(w) = 3 + Len(ii) + Len(dst) + Len(body)
      BY ONLY <2>2, WireParts
    <3>3. SubSeq(w, 3, 2 + Len(ii)) = ii
      BY ONLY <2>2, WireParts
    <3>4. SubSeq(w, 3 + Len(ii), 2 + Len(ii) + Len(dst)) = dst
      BY ONLY <2>2, WireParts
    <3>5. w[3 + Len(ii) + Len(dst)] = ctx
      BY ONLY <2>2, WireParts
    <3>6. SubSeq(w, 4 + Len(ii) + Len(dst), 3 + Len(ii) + Len(dst) + Len(body)) = body
      BY ONLY <2>2, WireParts
    <3> QED
      BY ONLY <3>1, <3>2, <3>3, <3>4, <3>5, <3>6
  <2>4. Len(dst) = HashLen
    BY ONLY <1>3, <2>a
  <2> QED
    BY ONLY <2>1, <2>a, <2>3, <2>4
<1>6. unpack_flags(w[1])
      = [header_type |-> p.header_type, context_flag |-> p.context_flag,
         transport_type |-> p.transport_type, destination_type |-> p.destination_type,
         packet_type |-> p.packet_type]
  <2>1. /\ p.header_type \in 0..3 /\ p.context_flag \in 0..1
        /\ p.transport_type \in 0..1 /\ p.destination_type \in 0..3 /\ p.packet_type \in 0..3
    BY WellFormedFields DEF HEADER_1, HEADER_2
  <2> QED
    <3>1. PICK ht \in 0..3, cf \in 0..1, tt \in 0..1, dt \in 0..3, pt \in 0..3 :
              /\ ht = p.header_type /\ cf = p.context_flag /\ tt = p.transport_type
              /\ dt = p.destination_type /\ pt = p.packet_type
      BY ONLY <2>1
    <3>3. unpack_flags(pack_flags(ht, cf, tt, dt, pt))
          = [header_type |-> ht, context_flag |-> cf, transport_type |-> tt,
             destination_type |-> dt, packet_type |-> pt]
      <4>1. unpack_flags(pack_flags(ht, cf, tt, dt, pt)) = Flags(ht, cf, tt, dt, pt)
        BY FlagsRoundTrip
      <4> QED
        BY ONLY <4>1 DEF Flags
    <3>4. w[1] = pack_flags(ht, cf, tt, dt, pt)
      BY ONLY <1>5, <3>1 DEF WireFlags
    <3> QED
      BY ONLY <3>1, <3>3, <3>4
<1>7. PICK flags : flags = unpack_flags(w[1])
  OBVIOUS
<1>8. /\ flags.header_type = p.header_type /\ flags.context_flag = p.context_flag
      /\ flags.transport_type = p.transport_type /\ flags.destination_type = p.destination_type
      /\ flags.packet_type = p.packet_type
  BY ONLY <1>6, <1>7
<1>9. PICK ids \in 0..1 : /\ ids = IF flags.header_type = HEADER_2 THEN 1 ELSE 0
                          /\ p.transport_id = IF ids = 1 THEN <<id>> ELSE <<>>
                          /\ Len(id) = ids * HashLen
  <2>1. CASE p.header_type = HEADER_2
    <3>1. Len(id) = 1 * HashLen /\ 1 \in 0..1
      BY ONLY <1>4, <2>1, HashAssumption
    <3> QED
      BY ONLY <1>4, <1>8, <2>1, <3>1
  <2>2. CASE p.header_type # HEADER_2
    <3>1. Len(id) = 0 * HashLen /\ 0 \in 0..1
      BY ONLY <1>4, <2>2, HashAssumption
    <3> QED
      BY ONLY <1>4, <1>8, <2>2, <3>1
  <2> QED
    BY ONLY <2>1, <2>2
<1>10. PICK pos : pos = 2 + ids * HashLen
  OBVIOUS
<1>11. HashLen \in Nat /\ Len(id) \in Nat /\ Len(p.data) \in Nat
  BY <1>3, <1>4, HashAssumption, LenProperties
<1>12. /\ pos = 2 + Len(id) /\ pos + 1 = 3 + Len(id) /\ pos + HashLen = 2 + Len(id) + HashLen
       /\ pos + HashLen + 1 = 3 + Len(id) + HashLen /\ pos + HashLen + 2 = 4 + Len(id) + HashLen
       /\ ~(Len(w) < 3) /\ ~(Len(w) < pos + HashLen + 1)
  <2>1. pos = 2 + Len(id)
    BY ONLY <1>9, <1>10
  <2> QED
    <3>1. Len(w) = 3 + Len(id) + HashLen + Len(p.data)
      BY <1>5
    <3>2. PICK lw, ld, li : lw = Len(w) /\ ld = Len(p.data) /\ li = Len(id)
      OBVIOUS
    <3>3. lw = 3 + li + HashLen + ld /\ HashLen \in Nat /\ li \in Nat /\ ld \in Nat /\ pos = 2 + li
      BY ONLY <1>11, <2>1, <3>1, <3>2
    <3>4. /\ pos + 1 = 3 + li /\ pos + HashLen = 2 + li + HashLen
          /\ pos + HashLen + 1 = 3 + li + HashLen /\ pos + HashLen + 2 = 4 + li + HashLen
          /\ ~(lw < 3) /\ ~(lw < pos + HashLen + 1)
      BY ONLY <3>3
    <3> QED
      BY ONLY <2>1, <3>2, <3>4
<1>13. from_bytes(w)
       = <<[header_type |-> flags.header_type, context_flag |-> flags.context_flag,
            transport_type |-> flags.transport_type,
            destination_type |-> flags.destination_type,
            packet_type |-> flags.packet_type, hops |-> w[2],
            destination_hash |-> SubSeq(w, pos + 1, pos + HashLen),
            transport_id |-> IF ids = 1 THEN <<SubSeq(w, 3, pos)>> ELSE <<>>,
            context |-> w[pos + HashLen + 1],
            data |-> SubSeq(w, pos + HashLen + 2, Len(w))]>>
  BY ONLY <1>7, <1>9, <1>10, <1>12, ZenonT(60) DEF from_bytes
<1>14. from_bytes(w)
       = <<[header_type |-> p.header_type, context_flag |-> p.context_flag,
            transport_type |-> p.transport_type, destination_type |-> p.destination_type,
            packet_type |-> p.packet_type, hops |-> p.hops,
            destination_hash |-> p.destination_hash,
            transport_id |-> IF ids = 1 THEN <<id>> ELSE <<>>,
            context |-> p.context, data |-> p.data]>>
  BY ONLY <1>5, <1>8, <1>12, <1>13
<1> QED
  BY ONLY <1>1, <1>9, <1>14, WellFormedFields, p \in WellFormed

\* An empty frame is no packet.
LEMMA EmptyFrame == from_bytes(<<>>) = <<>>
BY DEF from_bytes

-----------------------------------------------------------------------------
(* Cutting a message and putting it together *)

\* How much of a message one packet carries.
LEMMA PayloadSize ==
    /\ max_payload(Mtu) \in Nat /\ max_payload(Mtu) > 0 /\ HashLen \in Nat
    /\ Mtu = max_payload(Mtu) + 3 + 2 * HashLen
<1>1. HashLen \in Nat /\ Mtu \in Nat /\ Mtu > 2 + 2 * HashLen + 1
  BY HashAssumption, MtuAssumption DEF HEADER_MAXSIZE
<1>2. max_payload(Mtu) = Mtu - (2 + 2 * HashLen + 1)
  BY ONLY <1>1 DEF max_payload, HEADER_MAXSIZE
<1> QED
  BY ONLY <1>1, <1>2

\* A product grows with its factor.
LEMMA Products ==
    ASSUME NEW a \in Nat, NEW b \in Nat, NEW c \in Nat, a <= b
    PROVE  /\ a * c \in Nat /\ a * c <= b * c /\ (a + 1) * c = a * c + c
           /\ 0 * c = 0
OBVIOUS

\* The number of chunks: rounded up.
LEMMA RoundedUp ==
    ASSUME NEW n \in Nat, NEW b \in Nat, b > 0, NEW q, q = (n + b - 1) \div b
    PROVE  q \in Nat /\ n <= q * b /\ (n > 0 => q >= 1 /\ (q - 1) * b < n)
<1>1. PICK a \in Nat : a = n + b - 1
  OBVIOUS
<1>2. a \div b \in Nat
  OBVIOUS
<1>3. a = b * (a \div b) + (a % b)
  OBVIOUS
<1>4. PICK r \in 0..(b - 1) : r = a % b
  OBVIOUS
<1>5. q \in Nat /\ n + b - 1 = b * q + r
  BY <1>1, <1>2, <1>3, <1>4
<1>6. n <= q * b
  BY ONLY <1>5, n \in Nat, b \in Nat, b > 0, r \in 0..(b - 1)
<1>7. (q - 1) * b < n
  <2>1. (q - 1) * b = b * q - b
    BY ONLY <1>5, b \in Nat
  <2> QED
    BY ONLY <1>5, <2>1, n \in Nat, b \in Nat, b > 0, r \in 0..(b - 1)
<1>8. n > 0 => q >= 1
  <2>1. q = 0 => q * b = 0
    BY ONLY b \in Nat
  <2> QED
    BY ONLY <1>5, <1>6, <2>1, n \in Nat
<1> QED
  BY ONLY <1>5, <1>6, <1>7, <1>8

\* How many chunks a message has.
LEMMA Counted ==
    ASSUME NEW S, NEW data \in Seq(S)
    PROVE  /\ FragmentCount(data) \in Nat /\ Len(data) \in Nat
           /\ Len(data) <= FragmentCount(data) * max_payload(Mtu)
           /\ Len(data) > 0 => /\ FragmentCount(data) >= 1
                               /\ (FragmentCount(data) - 1) * max_payload(Mtu) < Len(data)
<1>1. Len(data) \in Nat
  OBVIOUS
<1>2. PICK b : b = max_payload(Mtu)
  OBVIOUS
<1>3. b \in Nat /\ b > 0
  BY <1>2, PayloadSize
<1>4. PICK n : n = Len(data)
  OBVIOUS
<1>5. PICK q : q = FragmentCount(data)
  OBVIOUS
<1>6. q = (n + b - 1) \div b
  BY ONLY <1>2, <1>4, <1>5 DEF FragmentCount
<1>7. q \in Nat /\ n <= q * b /\ (n > 0 => q >= 1 /\ (q - 1) * b < n)
  BY ONLY <1>1, <1>3, <1>4, <1>6, RoundedUp
<1> QED
  BY ONLY <1>1, <1>2, <1>4, <1>5, <1>7

\* How much of a message its first i chunks hold.
Upto(data, i) == IF i * max_payload(Mtu) < Len(data) THEN i * max_payload(Mtu) ELSE Len(data)

\* A part of a sequence and the part after it.
LEMMA Joined ==
    ASSUME NEW S, NEW s \in Seq(S), NEW a \in Nat, NEW b \in Nat, a <= b, b <= Len(s)
    PROVE  /\ SubSeq(s, 1, a) \in Seq(S) /\ SubSeq(s, a + 1, b) \in Seq(S)
           /\ Len(SubSeq(s, a + 1, b)) = b - a
           /\ SubSeq(s, 1, a) \o SubSeq(s, a + 1, b) = SubSeq(s, 1, b)
<1>1. SubSeq(s, 1, a) \in Seq(S) /\ SubSeq(s, a + 1, b) \in Seq(S)
  OBVIOUS
<1>2. Len(SubSeq(s, a + 1, b)) = b - a
  OBVIOUS
<1>3. SubSeq(s, 1, a) \o SubSeq(s, a + 1, b) = SubSeq(s, 1, b)
  OBVIOUS
<1> QED
  BY <1>1, <1>2, <1>3

\* One chunk: not longer than a packet can carry, and what follows the chunks before it.
LEMMA Chunks ==
    ASSUME NEW S, NEW data \in Seq(S), NEW i \in 1..FragmentCount(data)
    PROVE  /\ Chunk(data, i) \in Seq(S) /\ Len(Chunk(data, i)) \in Nat
           /\ Len(Chunk(data, i)) <= max_payload(Mtu)
           /\ Upto(data, i) \in 0..Len(data)
           /\ SubSeq(data, 1, Upto(data, i - 1)) \in Seq(S)
           /\ SubSeq(data, 1, Upto(data, i - 1)) \o Chunk(data, i) = SubSeq(data, 1, Upto(data, i))
<1>1. PICK b : b = max_payload(Mtu)
  OBVIOUS
<1>2. b \in Nat /\ b > 0
  BY <1>1, PayloadSize
<1>3. PICK n : n = Len(data)
  OBVIOUS
<1>4. PICK q : q = FragmentCount(data)
  OBVIOUS
<1>5. n \in Nat /\ q \in Nat /\ n <= q * b /\ (n > 0 => (q - 1) * b < n) /\ i \in 1..q
  BY <1>1, <1>3, <1>4, Counted
<1>6. PICK k : k = (i - 1) * b
  OBVIOUS
<1>7. k \in Nat /\ i * b = k + b
  <2>1. i - 1 \in Nat /\ (i - 1) + 1 = i
    BY ONLY <1>5
  <2>2. (i - 1) * b \in Nat /\ ((i - 1) + 1) * b = (i - 1) * b + b
    BY ONLY <1>2, <2>1, Products
  <2> QED
    BY ONLY <1>6, <2>1, <2>2
<1>8. k <= n
  <2>1. CASE n = 0
    <3>1. PICK c : c = q * b
      OBVIOUS
    <3>2. q >= 1
      BY ONLY <1>5
    <3>3. q = 1
      <4>1. CASE q = 1
        BY <4>1
      <4>2. CASE q # 1
        <5>1. q = (n + b - 1) \div b
          BY ONLY <1>1, <1>3, <1>4 DEF FragmentCount
        <5>2. q = (b - 1) \div b
          BY ONLY <1>2, <2>1, <5>1
        <5>3. (b - 1) \div b = 0
          BY ONLY <1>2
        <5> QED
          BY ONLY <3>2, <5>2, <5>3
      <4> QED
        BY ONLY <4>1, <4>2
    <3>4. i = 1 /\ 0 * b = 0
      BY ONLY <1>2, <1>5, <3>3
    <3> QED
      BY ONLY <1>6, <2>1, <3>4
  <2>2. CASE n > 0
    <3>1. i - 1 \in Nat /\ q - 1 \in Nat /\ i - 1 <= q - 1
      BY ONLY <1>5
    <3>2. (i - 1) * b <= (q - 1) * b
      BY ONLY <1>2, <3>1, Products
    <3>3. PICK c : c = (q - 1) * b
      OBVIOUS
    <3>4. c \in Nat
      BY ONLY <1>2, <3>1, <3>3, Products
    <3> QED
      BY ONLY <1>5, <1>6, <1>7, <2>2, <3>2, <3>3, <3>4
  <2> QED
    BY ONLY <1>5, <2>1, <2>2
<1>9. PICK e : e = IF k + b < n THEN k + b ELSE n
  OBVIOUS
<1>10. e \in Nat /\ k <= e /\ e <= n /\ e - k <= b
  BY ONLY <1>2, <1>5, <1>7, <1>8, <1>9
<1>11. Upto(data, i) = e /\ Upto(data, i - 1) = k
  <2>1. Upto(data, i) = e
    BY ONLY <1>1, <1>3, <1>7, <1>9 DEF Upto
  <2>2. Upto(data, i - 1) = k
    BY ONLY <1>1, <1>3, <1>5, <1>6, <1>7, <1>8 DEF Upto
  <2> QED
    BY ONLY <2>1, <2>2
<1>12. Chunk(data, i) = SubSeq(data, k + 1, e)
  <2>1. (i * b) - b + 1 = k + 1
    BY ONLY <1>2, <1>7
  <2> QED
    BY ONLY <1>1, <1>3, <1>7, <1>9, <2>1 DEF Chunk
<1>13. /\ SubSeq(data, 1, k) \in Seq(S) /\ SubSeq(data, k + 1, e) \in Seq(S)
       /\ Len(SubSeq(data, k + 1, e)) = e - k
       /\ SubSeq(data, 1, k) \o SubSeq(data, k + 1, e) = SubSeq(data, 1, e)
  BY <1>3, <1>7, <1>10, Joined
<1>14. Chunk(data, i) \in Seq(S) /\ Len(Chunk(data, i)) = e - k
  BY ONLY <1>12, <1>13
<1>15. Len(Chunk(data, i)) \in Nat /\ Len(Chunk(data, i)) <= max_payload(Mtu)
  BY ONLY <1>1, <1>7, <1>10, <1>14
<1>16. Upto(data, i) \in 0..Len(data)
  BY ONLY <1>3, <1>5, <1>10, <1>11
<1>17. SubSeq(data, 1, Upto(data, i - 1)) \in Seq(S)
  BY ONLY <1>11, <1>13
<1>18. SubSeq(data, 1, Upto(data, i - 1)) \o Chunk(data, i) = SubSeq(data, 1, Upto(data, i))
  BY ONLY <1>11, <1>12, <1>13
<1> QED
  BY ONLY <1>14, <1>15, <1>16, <1>17, <1>18

\* The chunks of a message, one after the other, are the message.
LEMMA ChunksFlatten ==
    ASSUME NEW S, NEW data \in Seq(S)
    PROVE  \A n \in Nat : n <= FragmentCount(data) =>
              FlattenSeq([i \in 1..n |-> Chunk(data, i)]) = SubSeq(data, 1, Upto(data, n))
<1> DEFINE T == {n \in Nat : n <= FragmentCount(data) =>
                    FlattenSeq([i \in 1..n |-> Chunk(data, i)]) = SubSeq(data, 1, Upto(data, n))}
<1>1. 0 \in T
  <2>1. [i \in 1..0 |-> Chunk(data, i)] = <<>>
    OBVIOUS
  <2>2. Upto(data, 0) = 0
    <3>1. PICK b : b = max_payload(Mtu)
      OBVIOUS
    <3>2. 0 * b = 0
      BY <3>1, PayloadSize
    <3>3. Len(data) \in Nat
      OBVIOUS
    <3> QED
      BY ONLY <3>1, <3>2, <3>3 DEF Upto
  <2>3. SubSeq(data, 1, 0) = <<>>
    OBVIOUS
  <2> QED
    BY ONLY <2>1, <2>2, <2>3, FlattenEmpty
<1>2. ASSUME NEW n \in Nat, n \in T PROVE n + 1 \in T
  <2>1. SUFFICES ASSUME n + 1 <= FragmentCount(data)
                 PROVE  FlattenSeq([i \in 1..(n + 1) |-> Chunk(data, i)])
                           = SubSeq(data, 1, Upto(data, n + 1))
    OBVIOUS
  <2>2. FragmentCount(data) \in Nat
    BY Counted
  <2>3. PICK s : s = [i \in 1..n |-> Chunk(data, i)]
    OBVIOUS
  <2>4. n <= FragmentCount(data)
    BY ONLY <2>1, <2>2, n \in Nat
  <2>5. FlattenSeq(s) = SubSeq(data, 1, Upto(data, n))
    BY <1>2, <2>3, <2>4
  <2>6. \A i \in 1..n : i \in 1..FragmentCount(data)
    BY ONLY <2>2, <2>4, n \in Nat
  <2>7. \A i \in 1..n : Chunk(data, i) \in Seq(S)
    BY <2>6, Chunks
  <2>8. s \in Seq(Seq(S)) /\ Len(s) = n
    BY ONLY <2>3, <2>7, n \in Nat
  <2>9. n + 1 \in 1..FragmentCount(data) /\ (n + 1) - 1 = n
    BY ONLY <2>1, <2>2, n \in Nat
  <2>10. /\ Chunk(data, n + 1) \in Seq(S)
         /\ SubSeq(data, 1, Upto(data, n)) \o Chunk(data, n + 1) = SubSeq(data, 1, Upto(data, n + 1))
    <3>1. PICK j : j = n + 1
      OBVIOUS
    <3>2. j \in 1..FragmentCount(data) /\ j - 1 = n
      BY ONLY <2>9, <3>1
    <3>3. /\ Chunk(data, j) \in Seq(S)
          /\ SubSeq(data, 1, Upto(data, j - 1)) \o Chunk(data, j) = SubSeq(data, 1, Upto(data, j))
      BY <3>2, Chunks
    <3> QED
      BY ONLY <3>1, <3>2, <3>3
  <2>11. [i \in 1..(n + 1) |-> Chunk(data, i)] = Append(s, Chunk(data, n + 1))
    <3>1. PICK t : t = [i \in 1..(n + 1) |-> Chunk(data, i)]
      OBVIOUS
    <3>2. PICK c : c = Chunk(data, n + 1)
      OBVIOUS
    <3>3. PICK Z : Z = Seq(S)
      OBVIOUS
    <3>4. s \in Seq(Z) /\ c \in Z /\ Len(s) = n /\ \A i \in 1..n : s[i] = Chunk(data, i)
      BY ONLY <2>3, <2>8, <2>10, <3>2, <3>3
    <3>5. t \in Seq(Z) /\ Len(t) = n + 1
      BY ONLY <2>7, <2>10, <3>1, <3>3, n \in Nat
    <3>6. Append(s, c) \in Seq(Z) /\ Len(Append(s, c)) = n + 1
      BY ONLY <3>4, n \in Nat
    <3>7. \A i \in 1..(n + 1) : Append(s, c)[i] = t[i]
      <4>1. \A i \in 1..(n + 1) : Append(s, c)[i] = IF i = n + 1 THEN c ELSE s[i]
        BY ONLY <3>4, n \in Nat
      <4>2. \A i \in 1..(n + 1) : i = n + 1 \/ i \in 1..n
        BY ONLY n \in Nat
      <4>3. \A i \in 1..(n + 1) : t[i] = Chunk(data, i)
        BY ONLY <3>1
      <4> QED
        BY ONLY <3>2, <3>4, <4>1, <4>2, <4>3
    <3> QED
      BY ONLY <3>1, <3>2, <3>5, <3>6, <3>7, SeqEqual
  <2> QED
    BY ONLY <2>5, <2>8, <2>10, <2>11, FlattenAppend, ZenonT(60)
<1> HIDE DEF T
<1>3. Nat \subseteq T
  BY ONLY <1>1, <1>2, SetInduction
<1> QED
  BY ONLY <1>3 DEF T

\* Fragments put together are not longer than all of them.
LEMMA FlattenLength ==
    ASSUME NEW S, NEW c \in Nat
    PROVE  \A s \in Seq(Seq(S)) : (\A i \in 1..Len(s) : Len(s[i]) <= c)
              => Len(FlattenSeq(s)) <= Len(s) * c
<1> DEFINE T == {s \in Seq(Seq(S)) : (\A i \in 1..Len(s) : Len(s[i]) <= c)
                    => Len(FlattenSeq(s)) <= Len(s) * c}
<1>1. <<>> \in T
  <2>1. FlattenSeq(<<>>) = <<>>
    BY FlattenEmpty
  <2>2. Len(<<>>) = 0 /\ 0 * c = 0
    OBVIOUS
  <2> QED
    BY <2>1, <2>2
<1>2. ASSUME NEW s \in Seq(Seq(S)), NEW x \in Seq(S), s \in T PROVE Append(s, x) \in T
  <2>1a. Append(s, x) \in Seq(Seq(S))
    OBVIOUS
  <2>1. PICK t : t = Append(s, x) /\ t \in Seq(Seq(S))
    BY ONLY <2>1a
  <2>2. SUFFICES ASSUME \A i \in 1..Len(t) : Len(t[i]) <= c
                 PROVE  Len(FlattenSeq(t)) <= Len(t) * c
    BY <2>1
  <2>3. PICK n \in Nat : n = Len(s) /\ Len(t) = n + 1
    BY <2>1
  <2>4. t[n + 1] = x /\ \A i \in 1..n : t[i] = s[i]
    BY <2>1, <2>3
  <2>5. Len(x) <= c /\ \A i \in 1..Len(s) : Len(s[i]) <= c
    BY <2>2, <2>3, <2>4
  <2>6. Len(FlattenSeq(s)) <= n * c
    BY <1>2, <2>3, <2>5
  <2>7. FlattenSeq(t) = FlattenSeq(s) \o x
    BY ONLY <2>1, s \in Seq(Seq(S)), x \in Seq(S), FlattenAppend
  <2>8. FlattenSeq(s) \in Seq(S)
    BY ONLY s \in Seq(Seq(S)), FlattenType
  <2>9. PICK a \in Nat : a = Len(FlattenSeq(s))
    BY ONLY <2>8
  <2>10. PICK d \in Nat : d = Len(x)
    BY ONLY x \in Seq(S)
  <2>11. Len(FlattenSeq(s) \o x) = a + d
    <3>1. PICK f : f = FlattenSeq(s) /\ f \in Seq(S)
      BY ONLY <2>8
    <3>2. Len(f \o x) = Len(f) + Len(x)
      BY ONLY <3>1, x \in Seq(S), ConcatProperties
    <3> QED
      BY ONLY <2>9, <2>10, <3>1, <3>2
  <2>12. (n + 1) * c = n * c + c /\ n * c \in Nat
    BY ONLY n \in Nat, c \in Nat, Products
  <2>13. PICK e \in Nat : e = n * c
    BY ONLY <2>12
  <2> QED
    BY ONLY <2>3, <2>5, <2>6, <2>7, <2>9, <2>10, <2>11, <2>12, <2>13, c \in Nat
<1> HIDE DEF T
<1>3. Seq(Seq(S)) \subseteq T
  BY ONLY <1>1, <1>2, SequenceInduction
<1> QED
  BY ONLY <1>3 DEF T

-----------------------------------------------------------------------------
(* The packets of a message *)

\* A message that one packet carries.
Small(data) == Len(data) <= max_payload(Mtu)

\* What carries a message: one packet, or its fragments, under an id that is a byte.
Carries(packets, m, data) ==
    IF Small(data)
      THEN \E p \in WellFormed : packets = <<p>> /\ p.context = NONE /\ p.data = data
      ELSE m \in Byte /\ packets = Packets(m, data)

\* One fragment of a message.
Labelled(m, data, i) == <<m, (i - 1) % U16Mod, FragmentCount(data) % U16Mod>> \o Chunk(data, i)
Fragment(m, data, i) ==
    [new_data(Destination, Labelled(m, data, i)) EXCEPT !.context = RESOURCE]

\* Every packet that is made of proper parts is well formed.
LEMMA NewPackets ==
    ASSUME NEW h, NEW cf, NEW tt, NEW pt, NEW hops, NEW id, NEW c, NEW data, NEW p,
           cf \in 0..1, tt \in 0..1, pt \in 0..3, hops \in Byte, c \in Byte, data \in Seq(Byte),
           (h = HEADER_1 /\ id = <<>>) \/ (h = HEADER_2 /\ id = <<Destination>>),
           p = NewPacket(h, cf, tt, pt, hops, Destination, id, c, data)
    PROVE  p \in WellFormed /\ p.context = c /\ p.data = data /\ p.header_type = h
<1>1. Destination \in Hash
  BY ByteAssumption DEF Hash
<1>2. p = NewPacket(h, cf, tt, pt, hops, Destination, id, c, data)
  OBVIOUS
<1>3. /\ p.header_type = h /\ p.context_flag = cf /\ p.transport_type = tt
      /\ p.destination_type = 0 /\ p.packet_type = pt /\ p.hops = hops
      /\ p.destination_hash = Destination /\ p.transport_id = id /\ p.context = c /\ p.data = data
  BY ONLY <1>2 DEF NewPacket
<1>4. h \in {HEADER_1, HEADER_2} /\ id \in {<<>>} \cup {<<x>> : x \in Hash}
  BY <1>1
<1>5. <<Destination>> # <<>> /\ HEADER_1 # HEADER_2
  BY DEF HEADER_1, HEADER_2
<1>6. p \in Fields
  BY ONLY <1>1, <1>2, <1>4, hops \in Byte, c \in Byte, data \in Seq(Byte), cf \in 0..1, tt \in 0..1,
          pt \in 0..3 DEF NewPacket, Fields
<1>7. p \in WellFormed
  BY ONLY <1>3, <1>5, <1>6, (h = HEADER_1 /\ id = <<>>) \/ (h = HEADER_2 /\ id = <<Destination>>)
          DEF WellFormed
<1> QED
  BY ONLY <1>3, <1>7

\* The constructors make packets that carry the data under the context NONE.
LEMMA Constructed ==
    ASSUME NEW data, data \in Seq(Byte), NEW p,
           p \in {new_announce(Destination, data), new_link_request(Destination, data),
                  new_proof(Destination, NONE, data), new_transport(Destination, Destination, data),
                  decrement_ttl(new_data(Destination, data)), new_data(Destination, data)}
    PROVE  p \in WellFormed /\ p.context = NONE /\ p.data = data
<1>1. NONE \in Byte /\ MAX_HOPS \in Byte /\ 1 \in Byte /\ MAX_HOPS - 1 \in Byte /\ MAX_HOPS > 0
  BY DEF NONE, MAX_HOPS, Byte
<1>2. DATA \in 0..3 /\ ANNOUNCE \in 0..3 /\ LINKREQUEST \in 0..3 /\ PROOF_TYPE \in 0..3 /\ 0 \in 0..1 /\ 1 \in 0..1
  BY DEF DATA, ANNOUNCE, LINKREQUEST, PROOF_TYPE
<1>3. CASE p = new_announce(Destination, data)
  <2>1. p = NewPacket(HEADER_1, 1, 0, ANNOUNCE, 1, Destination, <<>>, NONE, data)
    BY ONLY <1>3 DEF new_announce
  <2> QED
    BY ONLY <1>1, <1>2, <2>1, data \in Seq(Byte), NewPackets
<1>4. CASE p = new_link_request(Destination, data)
  <2>1. p = NewPacket(HEADER_1, 0, 0, LINKREQUEST, MAX_HOPS, Destination, <<>>, NONE, data)
    BY ONLY <1>4 DEF new_link_request
  <2> QED
    BY ONLY <1>1, <1>2, <2>1, data \in Seq(Byte), NewPackets
<1>5. CASE p = new_proof(Destination, NONE, data)
  <2>1. p = NewPacket(HEADER_1, 1, 1, PROOF_TYPE, MAX_HOPS, Destination, <<>>, NONE, data)
    BY ONLY <1>5 DEF new_proof
  <2> QED
    BY ONLY <1>1, <1>2, <2>1, data \in Seq(Byte), NewPackets
<1>6. CASE p = new_transport(Destination, Destination, data)
  <2>1. p = NewPacket(HEADER_2, 0, 1, DATA, MAX_HOPS, Destination, <<Destination>>, NONE, data)
    BY ONLY <1>6 DEF new_transport
  <2> QED
    BY ONLY <1>1, <1>2, <2>1, data \in Seq(Byte), NewPackets
<1>7. CASE p = new_data(Destination, data)
  <2>1. p = NewPacket(HEADER_1, 0, 0, DATA, MAX_HOPS, Destination, <<>>, NONE, data)
    BY ONLY <1>7 DEF new_data
  <2> QED
    BY ONLY <1>1, <1>2, <2>1, data \in Seq(Byte), NewPackets
<1>8. CASE p = decrement_ttl(new_data(Destination, data))
  <2>1. p = NewPacket(HEADER_1, 0, 0, DATA, MAX_HOPS - 1, Destination, <<>>, NONE, data)
    BY ONLY <1>1, <1>8 DEF new_data, NewPacket, decrement_ttl
  <2> QED
    BY ONLY <1>1, <1>2, <2>1, data \in Seq(Byte), NewPackets
<1> QED
  BY <1>3, <1>4, <1>5, <1>6, <1>7, <1>8

\* A number modulo U16Mod is a byte.
LEMMA Reduced ==
    ASSUME NEW n \in Nat
    PROVE  n % U16Mod \in Byte /\ n % U16Mod < U16Mod /\ n % U16Mod \in Nat
           /\ (n < U16Mod => n % U16Mod = n)
<1>1. PICK u \in 1..256 : u = U16Mod
  BY ByteAssumption
<1>2. n % u \in 0..(u - 1)
  OBVIOUS
<1>3. n < u => n % u = n
  OBVIOUS
<1> QED
  BY <1>1, <1>2, <1>3 DEF Byte

\* A fragment is a well-formed packet, and three bytes longer than what it carries.
LEMMA FragmentOf ==
    ASSUME NEW m \in Byte, NEW data, data \in Seq(Byte), NEW i \in 1..FragmentCount(data)
    PROVE  /\ Fragment(m, data, i) \in WellFormed
           /\ Fragment(m, data, i).context = RESOURCE
           /\ Fragment(m, data, i).header_type = HEADER_1
           /\ Fragment(m, data, i).data = Labelled(m, data, i)
           /\ Labelled(m, data, i) \in Seq(Byte)
           /\ Len(Labelled(m, data, i)) = 3 + Len(Chunk(data, i))
           /\ Len(Chunk(data, i)) \in Nat /\ Len(Chunk(data, i)) <= max_payload(Mtu)
           /\ Chunk(data, i) \in Seq(Byte)
<1>1. Chunk(data, i) \in Seq(Byte) /\ Len(Chunk(data, i)) \in Nat /\ Len(Chunk(data, i)) <= max_payload(Mtu)
  BY ONLY Chunks, data \in Seq(Byte), i \in 1..FragmentCount(data)
<1>2. FragmentCount(data) \in Nat /\ i - 1 \in Nat
  <2>1. FragmentCount(data) \in Nat
    BY ONLY Counted, data \in Seq(Byte)
  <2> QED
    BY ONLY <2>1, i \in 1..FragmentCount(data)
<1>3. (i - 1) % U16Mod \in Byte /\ FragmentCount(data) % U16Mod \in Byte
  BY ONLY <1>2, Reduced
<1>4a. <<m, (i - 1) % U16Mod, FragmentCount(data) % U16Mod>> \in Seq(Byte) /\ Len(<<m, (i - 1) % U16Mod, FragmentCount(data) % U16Mod>>) = 3
  BY ONLY <1>3, m \in Byte
<1>4. PICK h : h = <<m, (i - 1) % U16Mod, FragmentCount(data) % U16Mod>> /\ h \in Seq(Byte) /\ Len(h) = 3
  BY ONLY <1>4a
<1>5. PICK c : c = Chunk(data, i) /\ c \in Seq(Byte)
  BY ONLY <1>1
<1>6. h \o c \in Seq(Byte) /\ Len(h \o c) = Len(h) + Len(c)
  BY ONLY <1>4, <1>5, ConcatProperties
<1>7. PICK b : b = Labelled(m, data, i)
  OBVIOUS
<1>8. b \in Seq(Byte) /\ Len(b) = 3 + Len(Chunk(data, i))
  BY ONLY <1>4, <1>5, <1>6, <1>7 DEF Labelled
<1>9. RESOURCE \in Byte /\ MAX_HOPS \in Byte /\ DATA \in 0..3 /\ 0 \in 0..1
  BY DEF RESOURCE, MAX_HOPS, DATA, Byte
<1>10. Fragment(m, data, i) = NewPacket(HEADER_1, 0, 0, DATA, MAX_HOPS, Destination, <<>>, RESOURCE, b)
  BY ONLY <1>7 DEF Fragment, new_data, NewPacket
<1>11. PICK p : p = Fragment(m, data, i)
  OBVIOUS
<1>12. p \in WellFormed /\ p.context = RESOURCE /\ p.data = b /\ p.header_type = HEADER_1
  BY ONLY <1>8, <1>9, <1>10, <1>11, NewPackets
<1> QED
  BY ONLY <1>1, <1>7, <1>8, <1>11, <1>12

\* The fragments of a message are its packets.
LEMMA FragmentsOf ==
    ASSUME NEW m, NEW data, ~Small(data)
    PROVE  Packets(m, data) = [i \in 1..FragmentCount(data) |-> Fragment(m, data, i)]
BY DEF Packets, Small, Fragment, Labelled

\* What send_packet puts into outbound carries the message.
LEMMA PacketsCarry ==
    ASSUME NEW m \in Byte, NEW data, data \in Seq(Byte)
    PROVE  Carries(Packets(m, data), m, data)
<1>1. CASE Small(data)
  <2>1. Packets(m, data) = <<new_data(Destination, data)>>
    BY ONLY <1>1 DEF Packets, Small
  <2>2. PICK p : p = new_data(Destination, data)
    OBVIOUS
  <2>3. p \in WellFormed /\ p.context = NONE /\ p.data = data
    BY ONLY <2>2, data \in Seq(Byte), Constructed
  <2> QED
    BY ONLY <1>1, <2>1, <2>2, <2>3 DEF Carries
<1>2. CASE ~Small(data)
  BY <1>2 DEF Carries
<1> QED
  BY <1>1, <1>2

\* A packet that carries what fits is not longer than the MTU.
LEMMA PacketFits ==
    ASSUME NEW p, p \in WellFormed,
           \/ Len(p.data) <= max_payload(Mtu)
           \/ p.header_type = HEADER_1 /\ Len(p.data) <= max_payload(Mtu) + 3
    PROVE  Len(to_bytes(p)) <= Mtu
<1>1. /\ p.header_type = HEADER_2 => Len(WireId(p)) = HashLen
      /\ p.header_type # HEADER_2 => Len(WireId(p)) = 0
      /\ Len(to_bytes(p)) = 3 + Len(WireId(p)) + HashLen + Len(p.data)
  BY ONLY WireOf, p \in WellFormed
<1>2. /\ max_payload(Mtu) \in Nat /\ HashLen \in Nat /\ 3 <= HashLen
      /\ Mtu = max_payload(Mtu) + 3 + 2 * HashLen
  BY PayloadSize, MtuAssumption DEF FragmentHeader
<1>3. p.data \in Seq(Byte)
  BY ONLY WellFormedFields, p \in WellFormed
<1>4. PICK n \in Nat : n = Len(p.data)
  BY ONLY <1>3
<1>5. HEADER_1 # HEADER_2
  BY DEF HEADER_1, HEADER_2
<1>6. PICK k : k = Len(WireId(p))
  OBVIOUS
<1>7. PICK t : t = Len(to_bytes(p)) /\ t = 3 + k + HashLen + n
  BY ONLY <1>1, <1>4, <1>6
<1>8. PICK b \in Nat : b = max_payload(Mtu)
  BY ONLY <1>2
<1>9. \/ n <= b /\ (k = HashLen \/ k = 0)
      \/ k = 0 /\ n <= b + 3
  BY ONLY <1>1, <1>4, <1>5, <1>6, <1>8, (\/ Len(p.data) <= max_payload(Mtu)
           \/ (p.header_type = HEADER_1 /\ Len(p.data) <= max_payload(Mtu) + 3))
<1>10. t <= Mtu
  BY ONLY <1>2, <1>7, <1>8, <1>9
<1> QED
  BY ONLY <1>7, <1>10

\* The packets of a message are well formed, and each fits the MTU.
LEMMA CarriedFit ==
    ASSUME NEW packets, NEW m, NEW data, data \in Seq(Byte), Carries(packets, m, data)
    PROVE  /\ packets \in Seq(WellFormed)
           /\ \A i \in DOMAIN packets : Len(to_bytes(packets[i])) <= Mtu
<1>1. CASE Small(data)
  <2>1. PICK p : p \in WellFormed /\ packets = <<p>> /\ p.data = data
    BY ONLY <1>1, Carries(packets, m, data) DEF Carries
  <2>2. Len(to_bytes(p)) <= Mtu
    BY ONLY <1>1, <2>1, PacketFits DEF Small
  <2>3. packets \in Seq(WellFormed) /\ \A i \in DOMAIN packets : packets[i] = p
    BY ONLY <2>1
  <2> QED
    BY ONLY <2>2, <2>3
<1>2. CASE ~Small(data)
  <2>1. m \in Byte /\ packets = [i \in 1..FragmentCount(data) |-> Fragment(m, data, i)]
    BY ONLY <1>2, FragmentsOf, Carries(packets, m, data) DEF Carries
  <2>2. FragmentCount(data) \in Nat
    BY ONLY Counted, data \in Seq(Byte)
  <2>3. ASSUME NEW i \in 1..FragmentCount(data)
        PROVE  Fragment(m, data, i) \in WellFormed /\ Len(to_bytes(Fragment(m, data, i))) <= Mtu
    <3>1. PICK f : f = Fragment(m, data, i)
      OBVIOUS
    <3>2. /\ f \in WellFormed /\ f.header_type = HEADER_1
          /\ Len(f.data) = 3 + Len(Chunk(data, i))
          /\ Len(Chunk(data, i)) \in Nat /\ Len(Chunk(data, i)) <= max_payload(Mtu)
      BY ONLY <2>1, <3>1, data \in Seq(Byte), i \in 1..FragmentCount(data), FragmentOf
    <3>3. Len(f.data) <= max_payload(Mtu) + 3
      BY ONLY <3>2, PayloadSize
    <3>4. Len(to_bytes(f)) <= Mtu
      BY ONLY <3>2, <3>3, PacketFits
    <3> QED
      BY ONLY <3>1, <3>2, <3>4
  <2> QED
    BY ONLY <2>1, <2>2, <2>3
<1> QED
  BY <1>1, <1>2

-----------------------------------------------------------------------------
(* What arrives *)

\* What from_bytes may return.
ReadPackets ==
    [header_type : 0..3, context_flag : 0..1, transport_type : 0..1, destination_type : 0..3,
     packet_type : 0..3, hops : Byte, destination_hash : Seq(Byte), transport_id : Seq(Seq(Byte)),
     context : Byte, data : Seq(Byte)]

\* A frame is a sequence of bytes.
LEMMA EncodeType ==
    ASSUME NEW fr \in Framings, NEW data, data \in Seq(Byte)
    PROVE  encode(fr, data) \in Seq(Byte)
<1>1a. <<FLAG>> \in Seq(Byte)
  BY DEF FLAG, Byte
<1>1. PICK f : f = <<FLAG>> /\ f \in Seq(Byte)
  BY ONLY <1>1a
<1>2. PICK e : e = HdlcEscape(data) /\ e \in Seq(Byte)
  BY ONLY data \in Seq(Byte), HdlcEscapeSteps
<1>3. PICK a : a = f \o e /\ a \in Seq(Byte)
  BY ONLY <1>1, <1>2, ConcatType
<1>4. a \o f \in Seq(Byte)
  BY ONLY <1>1, <1>3, ConcatType
<1>5. HdlcEncode(data) \in Seq(Byte)
  BY ONLY <1>1, <1>2, <1>3, <1>4 DEF HdlcEncode
<1>6a. <<FEND>> \in Seq(Byte)
  BY DEF FEND, Byte
<1>6. PICK k : k = <<FEND>> /\ k \in Seq(Byte)
  BY ONLY <1>6a
<1>7a. <<FEND, CMD_DATA>> \in Seq(Byte)
  BY DEF FEND, CMD_DATA, Byte
<1>7. PICK c : c = <<FEND, CMD_DATA>> /\ c \in Seq(Byte)
  BY ONLY <1>7a
<1>8. PICK g : g = KissEscape(data) /\ g \in Seq(Byte)
  BY ONLY data \in Seq(Byte), KissEscapeSteps
<1>9. PICK b : b = c \o g /\ b \in Seq(Byte)
  BY ONLY <1>7, <1>8, ConcatType
<1>10. b \o k \in Seq(Byte)
  BY ONLY <1>6, <1>9, ConcatType
<1>11. KissEncode(data) \in Seq(Byte)
  BY ONLY <1>6, <1>7, <1>8, <1>9, <1>10 DEF KissEncode, encode_cmd
<1> QED
  BY ONLY <1>5, <1>11, fr \in Framings DEF encode, hdlc_encode, Framings

\* Damaged bytes are bytes.
LEMMA DamagedType ==
    ASSUME NEW b, b \in Seq(Byte), NEW x, x \in Damaged(b)
    PROVE  x \in Seq(Byte)
<1>1. CASE \E i \in DOMAIN b : x = RemoveAt(b, i)
  <2>0. PICK i \in DOMAIN b : x = RemoveAt(b, i)
    BY <1>1
  <2>1. i \in 1..Len(b) /\ x = SubSeq(b, 1, i - 1) \o SubSeq(b, i + 1, Len(b))
    BY ONLY <2>0, b \in Seq(Byte) DEF RemoveAt
  <2>2. Len(b) \in Nat /\ i \in Nat /\ i >= 1 /\ i <= Len(b)
    BY ONLY <2>1, b \in Seq(Byte)
  <2>3a. SubSeq(b, 1, i - 1) \in Seq(Byte)
    BY ONLY <2>2, b \in Seq(Byte)
  <2>3. PICK s : s = SubSeq(b, 1, i - 1) /\ s \in Seq(Byte)
    BY ONLY <2>3a
  <2>4a. SubSeq(b, i + 1, Len(b)) \in Seq(Byte)
    BY ONLY <2>2, b \in Seq(Byte)
  <2>4. PICK t : t = SubSeq(b, i + 1, Len(b)) /\ t \in Seq(Byte)
    BY ONLY <2>4a
  <2> QED
    BY ONLY <2>1, <2>3, <2>4, ConcatType
<1>2. CASE \E i \in DOMAIN b, y \in NoiseBytes : x = ReplaceAt(b, i, y)
  <2>0. PICK i \in DOMAIN b, y \in NoiseBytes : x = ReplaceAt(b, i, y)
    BY <1>2
  <2>1. i \in DOMAIN b /\ y \in NoiseBytes /\ x = [b EXCEPT ![i] = y]
    BY ONLY <2>0 DEF ReplaceAt
  <2>2. y \in Byte
    BY ONLY <2>1, ByteAssumption
  <2> QED
    BY ONLY <2>1, <2>2, b \in Seq(Byte)
<1> QED
  BY <1>1, <1>2, x \in Damaged(b) DEF Damaged

\* from_bytes returns a packet or nothing.
LEMMA ReadType ==
    ASSUME NEW b, b \in Seq(Byte)
    PROVE  from_bytes(b) \in Seq(ReadPackets)
<1>1. PICK n \in Nat : n = Len(b)
  BY b \in Seq(Byte)
<1>2. <<>> \in Seq(ReadPackets)
  OBVIOUS
<1>3. CASE n < 3
  BY <1>1, <1>2, <1>3 DEF from_bytes
<1>4. CASE n >= 3
  <2>1. b[1] \in Byte /\ b[2] \in Byte
    BY ONLY <1>1, <1>4, b \in Seq(Byte)
  <2>2. PICK f : f = unpack_flags(b[1])
    OBVIOUS
  <2>3. /\ f.header_type \in 0..3 /\ f.context_flag \in 0..1 /\ f.transport_type \in 0..1
        /\ f.destination_type \in 0..3 /\ f.packet_type \in 0..3
    <3>1. \A k \in Nat : k % 4 \in 0..3 /\ k % 2 \in 0..1
      OBVIOUS
    <3>2. b[1] \in Nat /\ b[1] \div 64 \in Nat /\ b[1] \div 32 \in Nat /\ b[1] \div 16 \in Nat /\ b[1] \div 4 \in Nat
      BY ONLY <2>1 DEF Byte
    <3> QED
      BY ONLY <2>2, <3>1, <3>2 DEF unpack_flags
  <2>4. PICK ids \in 0..1 : ids = IF f.header_type = HEADER_2 THEN 1 ELSE 0
    OBVIOUS
  <2>5. PICK l \in Nat : l = HashLen
    BY PayloadSize
  <2>6. PICK pos \in Nat : pos = 2 + ids * HashLen /\ pos = 2 + (IF ids = 1 THEN l ELSE 0)
    <3>1. ids * l = IF ids = 1 THEN l ELSE 0
      BY ONLY ids \in 0..1, l \in Nat
    <3> QED
      BY ONLY <2>5, <3>1, l \in Nat
  <2>7. CASE n < pos + l + 1
    <3>1. from_bytes(b) = <<>>
      BY ONLY <1>1, <1>4, <2>2, <2>4, <2>5, <2>6, <2>7 DEF from_bytes
    <3> QED
      BY ONLY <1>2, <3>1
  <2>8. CASE ~(n < pos + l + 1)
    <3>1a. SubSeq(b, pos + 1, pos + l) \in Seq(Byte)
      BY ONLY <1>1, <2>6, <2>8, b \in Seq(Byte), n \in Nat, l \in Nat, pos \in Nat, SMTT(60)
    <3>1. PICK dst : dst = SubSeq(b, pos + 1, pos + l) /\ dst \in Seq(Byte)
      BY ONLY <3>1a
    <3>2a. SubSeq(b, 3, pos) \in Seq(Byte)
      BY ONLY <1>1, <2>6, <2>8, b \in Seq(Byte), n \in Nat, l \in Nat, pos \in Nat
    <3>2. PICK id : id = SubSeq(b, 3, pos) /\ id \in Seq(Byte)
      BY ONLY <3>2a
    <3>3a. (IF ids = 1 THEN <<id>> ELSE <<>>) \in Seq(Seq(Byte))
      BY ONLY <3>2
    <3>3. PICK tid : tid = (IF ids = 1 THEN <<id>> ELSE <<>>) /\ tid \in Seq(Seq(Byte))
      BY ONLY <3>3a
    <3>4. PICK ctx : ctx = b[pos + l + 1] /\ ctx \in Byte
      BY ONLY <1>1, <2>8, b \in Seq(Byte), n \in Nat, l \in Nat, pos \in Nat
    <3>5a. SubSeq(b, pos + l + 2, n) \in Seq(Byte)
      BY ONLY <1>1, <2>8, b \in Seq(Byte), n \in Nat, l \in Nat, pos \in Nat
    <3>5. PICK body : body = SubSeq(b, pos + l + 2, n) /\ body \in Seq(Byte)
      BY ONLY <3>5a
    <3>6. PICK p : p = [header_type |-> f.header_type, context_flag |-> f.context_flag,
                        transport_type |-> f.transport_type, destination_type |-> f.destination_type,
                        packet_type |-> f.packet_type, hops |-> b[2], destination_hash |-> dst,
                        transport_id |-> tid, context |-> ctx, data |-> body]
      OBVIOUS
    <3>7. p \in ReadPackets
      BY ONLY <2>1, <2>3, <3>1, <3>3, <3>4, <3>5, <3>6 DEF ReadPackets
    <3>8. ~(Len(b) < 3) /\ ~(Len(b) < pos + HashLen + 1)
      BY ONLY <1>1, <1>4, <2>5, <2>8
    <3>9. from_bytes(b)
          = <<[header_type |-> f.header_type, context_flag |-> f.context_flag,
               transport_type |-> f.transport_type, destination_type |-> f.destination_type,
               packet_type |-> f.packet_type, hops |-> b[2],
               destination_hash |-> SubSeq(b, pos + 1, pos + HashLen),
               transport_id |-> IF ids = 1 THEN <<SubSeq(b, 3, pos)>> ELSE <<>>,
               context |-> b[pos + HashLen + 1], data |-> SubSeq(b, pos + HashLen + 2, Len(b))]>>
      BY ONLY <2>2, <2>4, <2>6, <3>8, ZenonT(60) DEF from_bytes
    <3>10. from_bytes(b) = <<p>>
      BY ONLY <1>1, <2>5, <3>1, <3>2, <3>3, <3>4, <3>5, <3>6, <3>9
    <3>11. <<p>> \in Seq(ReadPackets)
      BY ONLY <3>7
    <3> QED
      BY ONLY <3>10, <3>11
  <2> QED
    BY ONLY <2>7, <2>8
<1> QED
  BY ONLY <1>3, <1>4, n \in Nat

\* One or two sequences, flattened.
LEMMA FlatShort ==
    ASSUME NEW S, NEW a, a \in Seq(S), NEW b, b \in Seq(S)
    PROVE  FlattenSeq(<<a>>) = a /\ FlattenSeq(<<a, b>>) = a \o b
<1>1. PICK Z : Z = Seq(S)
  OBVIOUS
<1>2a. <<>> \in Seq(Z)
  OBVIOUS
<1>2. PICK e : e = <<>> /\ e \in Seq(Z)
  BY ONLY <1>2a
<1>3a. <<a>> \in Seq(Z) /\ <<a>> = Append(e, a)
  BY ONLY <1>1, <1>2, a \in Seq(S)
<1>3. PICK s : s = <<a>> /\ s \in Seq(Z) /\ s = Append(e, a)
  BY ONLY <1>3a
<1>4. <<a, b>> = Append(s, b)
  BY ONLY <1>3, b \in Seq(S)
<1>5. FlattenSeq(s) = <<>> \o a
  BY ONLY <1>1, <1>2, <1>3, a \in Seq(S), FlattenAppend, FlattenEmpty
<1>6. <<>> \o a = a
  BY ONLY a \in Seq(S)
<1>7. FlattenSeq(<<a, b>>) = FlattenSeq(s) \o b
  BY ONLY <1>1, <1>3, <1>4, b \in Seq(S), FlattenAppend
<1> QED
  BY ONLY <1>3, <1>5, <1>6, <1>7

\* Frames are read as packets.
LEMMA ReadsType ==
    ASSUME NEW fs, fs \in Seq(Seq(Byte))
    PROVE  Read(fs) \in Seq(ReadPackets)
<1>1. PICK t : t = [i \in DOMAIN fs |-> from_bytes(fs[i])]
  OBVIOUS
<1>2. \A i \in DOMAIN fs : from_bytes(fs[i]) \in Seq(ReadPackets)
  BY ONLY ReadType, fs \in Seq(Seq(Byte))
<1>3. t \in Seq(Seq(ReadPackets))
  <2>1. PICK n \in Nat : n = Len(fs)
    OBVIOUS
  <2>2. DOMAIN fs = 1..n
    BY <2>1
  <2>3. PICK S : S = Seq(ReadPackets)
    OBVIOUS
  <2>4. t \in [1..n -> S]
    BY ONLY <1>1, <1>2, <2>2, <2>3
  <2>5. t \in Seq(S)
    BY <2>4
  <2> QED
    BY ONLY <2>3, <2>5
<1> QED
  BY ONLY <1>1, <1>3, FlattenType DEF Read

\* The frame of a packet, and an empty frame before it, are read as the packet.
LEMMA ReadOne ==
    ASSUME NEW p, p \in WellFormed
    PROVE  Read(<<to_bytes(p)>>) = <<p>> /\ Read(<<<<>>, to_bytes(p)>>) = <<p>>
<1>1. from_bytes(to_bytes(p)) = <<p>> /\ from_bytes(<<>>) = <<>>
  BY ONLY p \in WellFormed, RoundTrip, EmptyFrame
<1>2. PICK w : w = to_bytes(p)
  OBVIOUS
<1>3a. <<p>> \in Seq(WellFormed)
  BY ONLY p \in WellFormed
<1>3. PICK a : a = <<p>> /\ a \in Seq(WellFormed)
  BY ONLY <1>3a
<1>4a. <<>> \in Seq(WellFormed)
  OBVIOUS
<1>4. PICK e : e = <<>> /\ e \in Seq(WellFormed)
  BY ONLY <1>4a
<1>5. [i \in DOMAIN <<w>> |-> from_bytes(<<w>>[i])] = <<a>>
  BY ONLY <1>1, <1>2, <1>3
<1>6a. <<e, w>>[1] = e /\ <<e, w>>[2] = w /\ DOMAIN <<e, w>> = 1..2
  OBVIOUS
<1>6. PICK u : u = <<e, w>> /\ u[1] = e /\ u[2] = w /\ DOMAIN u = 1..2
  BY ONLY <1>6a
<1>7. [i \in DOMAIN u |-> from_bytes(u[i])] = <<e, a>>
  <2>1. PICK x : x = [i \in DOMAIN u |-> from_bytes(u[i])]
    OBVIOUS
  <2>2. DOMAIN x = 1..2 /\ x[1] = e /\ x[2] = a
    BY ONLY <1>1, <1>2, <1>3, <1>4, <1>6, <2>1
  <2>3. x = [i \in 1..2 |-> IF i = 1 THEN e ELSE a]
    BY ONLY <1>6, <2>1, <2>2
  <2>4. PICK y : y = <<e, a>>
    OBVIOUS
  <2>5. y = [i \in 1..2 |-> IF i = 1 THEN e ELSE a]
    BY ONLY <2>4
  <2> QED
    BY ONLY <2>1, <2>3, <2>4, <2>5
<1>8. FlattenSeq(<<a>>) = a /\ FlattenSeq(<<e, a>>) = e \o a
  <2>1. a \in Seq(WellFormed) /\ e \in Seq(WellFormed)
    BY ONLY <1>3, <1>4
  <2>2. FlattenSeq(<<a>>) = a
    BY ONLY <2>1, FlatShort
  <2>3. FlattenSeq(<<e, a>>) = e \o a
    BY ONLY <2>1, FlatShort
  <2> QED
    BY ONLY <2>2, <2>3
<1>9. e \o a = a
  BY ONLY <1>3, <1>4
<1>10. Read(<<w>>) = a
  BY ONLY <1>5, <1>8 DEF Read
<1>11. Read(u) = a
  BY ONLY <1>7, <1>8, <1>9 DEF Read
<1> QED
  BY ONLY <1>2, <1>3, <1>4, <1>6, <1>10, <1>11

\* The decoder is between two frames.
Clean(fr, d) == d = Idle \/ (fr = "hdlc" /\ d = Open)

\* A packet on the wire is never empty.
LEMMA NeverEmpty ==
    ASSUME NEW p, p \in WellFormed
    PROVE  to_bytes(p) \in Seq(Byte) /\ to_bytes(p) # <<>>
<1>1. PICK w, id, body : w = to_bytes(p) /\ id = WireId(p) /\ body = p.data
  OBVIOUS
<1>2. w \in Seq(Byte) /\ Len(w) = 3 + Len(id) + HashLen + Len(body) /\ id \in Seq(Byte)
  BY ONLY <1>1, p \in WellFormed, WireOf
<1>3. body \in Seq(Byte)
  BY ONLY <1>1, p \in WellFormed, WellFormedFields
<1>4. PICK l \in Nat, n \in Nat, h \in Nat : l = Len(id) /\ n = Len(body) /\ h = HashLen
  BY ONLY <1>2, <1>3, PayloadSize
<1>5. Len(w) = 3 + l + h + n
  BY ONLY <1>2, <1>4
<1>6. 3 + l + h + n # 0
  BY ONLY <1>4
<1>7. w # <<>>
  BY ONLY <1>5, <1>6
<1> QED
  BY ONLY <1>1, <1>2, <1>7

\* A frame that finds the decoder between two frames is read as the packet in it.
LEMMA CleanFrame ==
    ASSUME NEW fr \in Framings, NEW p, p \in WellFormed, NEW d, Clean(fr, d), NEW r,
           r = FeedAll(fr, d, encode(fr, to_bytes(p)))
    PROVE  Read(r.out) = <<p>> /\ Clean(fr, r.dec) /\ (fr = "serial" => r.dec = Idle)
<1>1. PICK w : w = to_bytes(p) /\ w \in Seq(Byte) /\ w # <<>>
  BY ONLY p \in WellFormed, NeverEmpty
<1>2. Read(<<w>>) = <<p>> /\ Read(<<<<>>, w>>) = <<p>>
  BY ONLY <1>1, p \in WellFormed, ReadOne
<1>3. \A x, got : Result(x, got).dec = x /\ Result(x, got).out = got
  BY DEF Result
<1>4. CASE fr = "hdlc" /\ d = Idle
  <2>1. r = Result(Open, <<w>>)
    BY ONLY <1>1, <1>4, HdlcFrames, r = FeedAll(fr, d, encode(fr, to_bytes(p)))
  <2> QED
    BY ONLY <1>2, <1>3, <1>4, <2>1 DEF Clean
<1>5. CASE fr = "hdlc" /\ d = Open
  <2>1. r = Result(Open, <<<<>>, w>>)
    BY ONLY <1>1, <1>5, HdlcFrames, r = FeedAll(fr, d, encode(fr, to_bytes(p)))
  <2> QED
    BY ONLY <1>2, <1>3, <1>5, <2>1 DEF Clean
<1>6. CASE fr = "serial"
  <2>1. d = Idle
    BY ONLY <1>6, Clean(fr, d) DEF Clean
  <2>2. r = Result(Idle, <<w>>)
    BY ONLY <1>1, <1>6, <2>1, HdlcFrames, r = FeedAll(fr, d, encode(fr, to_bytes(p)))
  <2> QED
    BY ONLY <1>2, <1>3, <1>6, <2>2 DEF Clean
<1>7. CASE fr = "kiss"
  <2>1. d = Idle
    BY ONLY <1>7, Clean(fr, d) DEF Clean
  <2>2. r = Result(Idle, <<w>>)
    BY ONLY <1>1, <1>7, <2>1, KissFrames, r = FeedAll(fr, d, encode(fr, to_bytes(p)))
  <2> QED
    BY ONLY <1>2, <1>3, <1>7, <2>2 DEF Clean
<1> QED
  BY <1>4, <1>5, <1>6, <1>7 DEF Framings, Clean

\* Whatever state the HDLC decoder is in, a frame leaves it open.
LEMMA AnyFrame ==
    ASSUME NEW p, p \in WellFormed, NEW d \in DecoderType
    PROVE  FeedAll("hdlc", d, encode("hdlc", to_bytes(p))).dec = Open
<1>1. to_bytes(p) \in Seq(Byte) /\ to_bytes(p) # <<>>
  BY ONLY p \in WellFormed, NeverEmpty
<1> QED
  BY ONLY <1>1, HdlcFrames

-----------------------------------------------------------------------------
(* What the receiver keeps *)

\* The receiver's fields, and the parts of reassemble_fragment.
Rx(a, b, c) == [reassembly |-> a, inbound |-> b, returned |-> c]
Buffer(a, id, total) == IF id \in DOMAIN a THEN a[id] ELSE [total |-> total, fragments |-> <<>>]
Added(f, index, piece) == [i \in DOMAIN f \cup {index} |-> IF i = index THEN piece ELSE f[i]]
Stored(a, id, total, f) ==
    [i \in DOMAIN a \cup {id} |-> IF i = id THEN [total |-> total, fragments |-> f] ELSE a[i]]
Removed(a, id) == [i \in DOMAIN a \ {id} |-> a[i]]

\* What becomes of a fragment of the message id; f holds it and the fragments in buf.
Outcome(a, b, c, id, total, buf, f) ==
    IF buf.total # total THEN Rx(a, b, c)
    ELSE IF ~Complete(f, total) THEN Rx(Stored(a, id, total, f), b, c)
    ELSE IF \E i \in 0..(total - 1) : i \notin DOMAIN f
      THEN Rx(Stored(a, id, total, AfterGap(f, total)), b, c)
    ELSE Rx(Removed(a, id), b, c \cup {Assemble(f, total)})

\* Fields of the receiver that change.
LEMMA RxKeeps ==
    ASSUME NEW a, NEW b, NEW c, NEW x
    PROVE  [Rx(a, b, c) EXCEPT !.reassembly = x] = Rx(x, b, c)
BY DEF Rx

\* The assignments of a message that is complete.
Returning(ra, x, y) == [ra EXCEPT !.reassembly = x, !.returned = y]

\* A message is returned.
LEMMA RxReturns ==
    ASSUME NEW a, NEW b, NEW c, NEW x, NEW y
    PROVE  Returning(Rx(a, b, c), x, y) = Rx(x, b, y)
<1>1. PICK r : r = [reassembly |-> a, inbound |-> b, returned |-> c]
  OBVIOUS
<1>2. DOMAIN r = {"reassembly", "inbound", "returned"} /\ r.inbound = b
  BY ONLY <1>1
<1>3. PICK q : q = [r EXCEPT !.reassembly = x, !.returned = y]
  OBVIOUS
<1>4. /\ DOMAIN q = {"reassembly", "inbound", "returned"}
      /\ q.reassembly = x /\ q.inbound = b /\ q.returned = y
  BY ONLY <1>2, <1>3
<1>5. q = [f \in DOMAIN q |-> q[f]]
  BY ONLY <1>3
<1>6. q = [reassembly |-> x, inbound |-> b, returned |-> y]
  BY ONLY <1>4, <1>5
<1> QED
  BY ONLY <1>1, <1>3, <1>6 DEF Rx, Returning

\* reassemble_fragment, part by part.
LEMMA Reassembling ==
    ASSUME NEW a, NEW b, NEW c, NEW p, ~(Len(p.data) < FragmentHeader), NEW id, NEW index, NEW total,
           id = p.data[1], index = p.data[2], total = p.data[3],
           NEW buf, buf = Buffer(a, id, total), NEW f,
           f = Added(buf.fragments, index, SubSeq(p.data, FragmentHeader + 1, Len(p.data)))
    PROVE  reassemble_fragment(Rx(a, b, c), p) = Outcome(a, b, c, id, total, buf, f)
<1>1. PICK ra : ra = Rx(a, b, c)
  OBVIOUS
<1>2. ra.reassembly = a /\ ra.inbound = b /\ ra.returned = c
  BY ONLY <1>1, SMTT(60) DEF Rx
<1>4. reassemble_fragment(ra, p) =
        IF buf.total # total THEN ra
        ELSE IF ~Complete(f, total) THEN [ra EXCEPT !.reassembly = Stored(ra.reassembly, id, total, f)]
        ELSE IF \E i \in 0..(total - 1) : i \notin DOMAIN f
          THEN [ra EXCEPT !.reassembly = Stored(ra.reassembly, id, total, AfterGap(f, total))]
        ELSE Returning(ra, Removed(ra.reassembly, id), ra.returned \cup {Assemble(f, total)})
  <2>1. buf = IF id \in DOMAIN ra.reassembly THEN ra.reassembly[id]
              ELSE [total |-> total, fragments |-> <<>>]
    BY ONLY <1>2, buf = Buffer(a, id, total) DEF Buffer
  <2>2. f = [i \in DOMAIN buf.fragments \cup {index} |->
               IF i = index THEN SubSeq(p.data, FragmentHeader + 1, Len(p.data)) ELSE buf.fragments[i]]
    BY ONLY f = Added(buf.fragments, index, SubSeq(p.data, FragmentHeader + 1, Len(p.data))) DEF Added
  <2> QED
    BY ONLY <2>1, <2>2, ~(Len(p.data) < FragmentHeader), id = p.data[1], index = p.data[2],
            total = p.data[3], SMTT(60) DEF reassemble_fragment, Stored, Removed, Returning
<1>5. [ra EXCEPT !.reassembly = Stored(a, id, total, f)] = Rx(Stored(a, id, total, f), b, c)
  BY ONLY <1>1, RxKeeps
<1>6. [ra EXCEPT !.reassembly = Stored(a, id, total, AfterGap(f, total))]
      = Rx(Stored(a, id, total, AfterGap(f, total)), b, c)
  BY ONLY <1>1, RxKeeps
<1>7. Returning(ra, Removed(a, id), c \cup {Assemble(f, total)})
      = Rx(Removed(a, id), b, c \cup {Assemble(f, total)})
  BY ONLY <1>1, RxReturns
<1> QED
  BY ONLY <1>1, <1>2, <1>4, <1>5, <1>6, <1>7 DEF Outcome

\* Fragments under the ids and the indexes that messages have on the wire.
FragmentMap(f) == \A i \in DOMAIN f : i \in Byte /\ f[i] \in Seq(Byte)
ReassemblyType(a) == \A id \in DOMAIN a : id \in Byte /\ FragmentMap(a[id].fragments)
IsRx(ra) ==
    /\ ra = Rx(ra.reassembly, ra.inbound, ra.returned)
    /\ ReassemblyType(ra.reassembly) /\ ra.inbound \in Seq(ReadPackets)

\* The fields, and when they have their types.
LEMMA RxFields ==
    ASSUME NEW a, NEW b, NEW c
    PROVE  /\ Rx(a, b, c).reassembly = a /\ Rx(a, b, c).inbound = b /\ Rx(a, b, c).returned = c
           /\ (ReassemblyType(a) /\ b \in Seq(ReadPackets) => IsRx(Rx(a, b, c)))
<1>1. Rx(a, b, c).reassembly = a /\ Rx(a, b, c).inbound = b /\ Rx(a, b, c).returned = c
  BY DEF Rx
<1> QED
  BY ONLY <1>1 DEF IsRx

\* A fragment more, or the fragments after a gap: still fragments.
LEMMA FragmentMaps ==
    ASSUME NEW a, ReassemblyType(a), NEW id, id \in Byte, NEW index, index \in Byte, NEW total,
           NEW piece, piece \in Seq(Byte)
    PROVE  /\ FragmentMap(Added(Buffer(a, id, total).fragments, index, piece))
           /\ \A f : FragmentMap(f) => /\ FragmentMap(AfterGap(f, total))
                                       /\ ReassemblyType(Stored(a, id, total, f))
           /\ ReassemblyType(Removed(a, id))
<1>1. FragmentMap(Buffer(a, id, total).fragments)
  <2>1. CASE id \in DOMAIN a
    BY ONLY <2>1, ReassemblyType(a) DEF ReassemblyType, Buffer
  <2>2. CASE id \notin DOMAIN a
    <3>1. Buffer(a, id, total).fragments = <<>>
      BY ONLY <2>2 DEF Buffer
    <3> QED
      BY ONLY <3>1 DEF FragmentMap
  <2> QED
    BY ONLY <2>1, <2>2
<1>2. FragmentMap(Added(Buffer(a, id, total).fragments, index, piece))
  <2>1. PICK f : f = Buffer(a, id, total).fragments
    OBVIOUS
  <2>2. PICK g : g = Added(f, index, piece)
    OBVIOUS
  <2>3. DOMAIN g = DOMAIN f \cup {index} /\ \A i \in DOMAIN g : g[i] = IF i = index THEN piece ELSE f[i]
    BY ONLY <2>2 DEF Added
  <2>4. FragmentMap(g)
    BY ONLY <1>1, <2>1, <2>3, index \in Byte, piece \in Seq(Byte) DEF FragmentMap
  <2> QED
    BY ONLY <2>1, <2>2, <2>4
<1>3. ASSUME NEW f, FragmentMap(f)
      PROVE  FragmentMap(AfterGap(f, total)) /\ ReassemblyType(Stored(a, id, total, f))
  <2>1. PICK g : g = AfterGap(f, total)
    OBVIOUS
  <2>2. \A i \in DOMAIN g : i \in DOMAIN f /\ g[i] = f[i]
    BY ONLY <2>1 DEF AfterGap
  <2>3. FragmentMap(g)
    BY ONLY <1>3, <2>2 DEF FragmentMap
  <2>4. PICK s : s = Stored(a, id, total, f)
    OBVIOUS
  <2>5. /\ DOMAIN s = DOMAIN a \cup {id}
        /\ \A i \in DOMAIN s : s[i] = IF i = id THEN [total |-> total, fragments |-> f] ELSE a[i]
    BY ONLY <2>4 DEF Stored
  <2>6. ReassemblyType(s)
    BY ONLY <1>3, <2>5, id \in Byte, ReassemblyType(a) DEF ReassemblyType
  <2> QED
    BY ONLY <2>1, <2>3, <2>4, <2>6
<1>4. ReassemblyType(Removed(a, id))
  BY ONLY ReassemblyType(a) DEF ReassemblyType, Removed
<1> QED
  BY ONLY <1>2, <1>3, <1>4

\* Whatever packet arrives, the receiver keeps fragments and packets.
LEMMA ReceivedType ==
    ASSUME NEW ra, IsRx(ra), NEW p, p \in ReadPackets
    PROVE  IsRx(recv_packet(ra, p))
<1>1. PICK a, b, c : a = ra.reassembly /\ b = ra.inbound /\ c = ra.returned
  OBVIOUS
<1>2. ra = Rx(a, b, c) /\ ReassemblyType(a) /\ b \in Seq(ReadPackets)
  BY ONLY <1>1, IsRx(ra) DEF IsRx
<1>3. p.data \in Seq(Byte)
  BY ONLY p \in ReadPackets DEF ReadPackets
<1>4. CASE p.context # RESOURCE
  <2>1. recv_packet(ra, p) = Rx(a, Append(b, p), c \cup {p.data})
    BY ONLY <1>2, <1>4 DEF recv_packet, Rx
  <2>2. Append(b, p) \in Seq(ReadPackets)
    BY ONLY <1>2, p \in ReadPackets
  <2>3. PICK x, y : x = Append(b, p) /\ y = c \cup {p.data}
    OBVIOUS
  <2>4. IsRx(Rx(a, x, y))
    BY ONLY <1>2, <2>2, <2>3, RxFields
  <2> QED
    BY ONLY <2>1, <2>3, <2>4
<1>5. CASE p.context = RESOURCE
  <2>1. recv_packet(ra, p) = reassemble_fragment(ra, p)
    BY ONLY <1>5 DEF recv_packet
  <2>2. CASE Len(p.data) < FragmentHeader
    BY ONLY <2>1, <2>2, IsRx(ra) DEF reassemble_fragment
  <2>3. CASE ~(Len(p.data) < FragmentHeader)
    <3>1. PICK n \in Nat : n = Len(p.data) /\ n >= 3
      BY ONLY <1>3, <2>3 DEF FragmentHeader
    <3>2. p.data[1] \in Byte /\ p.data[2] \in Byte /\ p.data[3] \in Byte
      BY ONLY <1>3, <3>1
    <3>3. PICK id, index, total : id = p.data[1] /\ index = p.data[2] /\ total = p.data[3]
      OBVIOUS
    <3>4a. SubSeq(p.data, FragmentHeader + 1, Len(p.data)) \in Seq(Byte)
      BY ONLY <1>3, <3>1 DEF FragmentHeader
    <3>4. PICK piece : piece = SubSeq(p.data, FragmentHeader + 1, Len(p.data)) /\ piece \in Seq(Byte)
      BY ONLY <3>4a
    <3>5. PICK buf : buf = Buffer(a, id, total)
      OBVIOUS
    <3>6. PICK f : f = Added(buf.fragments, index, piece)
      OBVIOUS
    <3>7. FragmentMap(f) /\ ReassemblyType(Removed(a, id))
      BY ONLY <1>2, <3>2, <3>3, <3>4, <3>5, <3>6, FragmentMaps
    <3>8. PICK g : g = AfterGap(f, total)
      OBVIOUS
    <3>9. FragmentMap(g)
      BY ONLY <1>2, <3>2, <3>3, <3>4, <3>7, <3>8, FragmentMaps
    <3>10. ReassemblyType(Stored(a, id, total, f)) /\ ReassemblyType(Stored(a, id, total, g))
      BY ONLY <1>2, <3>2, <3>3, <3>4, <3>7, <3>9, FragmentMaps
    <3>11. reassemble_fragment(Rx(a, b, c), p) = Outcome(a, b, c, id, total, buf, f)
      <4>1. f = Added(buf.fragments, index, SubSeq(p.data, FragmentHeader + 1, Len(p.data)))
        BY ONLY <3>4, <3>6
      <4> QED
        BY ONLY <2>3, <3>3, <3>5, <4>1, Reassembling
    <3>12. \A d : /\ IsRx(Rx(a, b, d)) /\ IsRx(Rx(Stored(a, id, total, f), b, d))
                  /\ IsRx(Rx(Stored(a, id, total, g), b, d)) /\ IsRx(Rx(Removed(a, id), b, d))
      BY ONLY <1>2, <3>7, <3>10, RxFields
    <3> QED
      BY ONLY <1>2, <2>1, <3>8, <3>11, <3>12 DEF Outcome
  <2> QED
    BY ONLY <2>2, <2>3
<1> QED
  BY ONLY <1>4, <1>5

\* So does a run of packets.
LEMMA ReceivesType ==
    ASSUME NEW ra, IsRx(ra)
    PROVE  \A packets \in Seq(ReadPackets) : IsRx(recv_packets(ra, packets))
<1> DEFINE T == {s \in Seq(ReadPackets) : IsRx(recv_packets(ra, s))}
<1>1. <<>> \in T
  BY ReceiveNone, IsRx(ra)
<1>2. ASSUME NEW s \in Seq(ReadPackets), NEW x \in ReadPackets, s \in T PROVE Append(s, x) \in T
  <2>1. recv_packets(ra, Append(s, x)) = recv_packet(recv_packets(ra, s), x)
    BY ONLY ReceiveAppend, s \in Seq(ReadPackets), x \in ReadPackets
  <2>2. PICK y : y = recv_packets(ra, s)
    OBVIOUS
  <2>3. IsRx(recv_packet(y, x))
    BY <1>2, <2>2, ReceivedType
  <2> QED
    BY ONLY <2>1, <2>2, <2>3, s \in Seq(ReadPackets), x \in ReadPackets
<1> HIDE DEF T
<1>3. Seq(ReadPackets) \subseteq T
  BY ONLY <1>1, <1>2, SequenceInduction
<1> QED
  BY ONLY <1>3 DEF T

-----------------------------------------------------------------------------
(* Fragments of a message *)

\* Every fragment is a chunk of the message, under the index that it has on the wire.
FromMessage(f, data) ==
    \A j \in DOMAIN f : \E i \in 1..FragmentCount(data) : j = (i - 1) % U16Mod /\ f[j] = Chunk(data, i)

\* The fragments of a message that wait for the others.
Pieces(buf, data) ==
    /\ buf.total = FragmentCount(data) % U16Mod
    /\ FromMessage(buf.fragments, data)
    /\ ~Long(data) => ~((0..(FragmentCount(data) - 1)) \subseteq DOMAIN buf.fragments)

\* A message that was sent, or a piece of one that is too long.
Whole(r, s) == r = s \/ (Long(s) /\ Len(r) < Len(s) /\ Range(r) \subseteq Range(s))

\* A message that is cut is not empty.
LEMMA CutMessage ==
    ASSUME NEW s, s \in Seq(Byte), ~Small(s)
    PROVE  /\ FragmentCount(s) \in Nat /\ FragmentCount(s) >= 1
           /\ (FragmentCount(s) - 1) * max_payload(Mtu) < Len(s)
           /\ U16Mod \in 1..256
           /\ Len(s) <= FragmentCount(s) * max_payload(Mtu)
<1>1. Len(s) > max_payload(Mtu) /\ Len(s) \in Nat
  BY PayloadSize DEF Small
<1>2. Len(s) > 0
  BY ONLY <1>1, PayloadSize
<1> QED
  BY ONLY <1>2, s \in Seq(Byte), Counted, ByteAssumption

\* A message that u16 can count is complete when all its indexes are there; then it is put together.
LEMMA CompleteMessage ==
    ASSUME NEW s, s \in Seq(Byte), ~Small(s), ~Long(s), NEW f, FromMessage(f, s), NEW total,
           total = FragmentCount(s) % U16Mod
    PROVE  /\ total = FragmentCount(s)
           /\ \A i \in 1..FragmentCount(s) : (i - 1) % U16Mod = i - 1
           /\ Complete(f, total) <=> (0..(total - 1)) \subseteq DOMAIN f
           /\ Complete(f, total) => Assemble(f, total) = s
<1>1. PICK n \in Nat : n = FragmentCount(s) /\ n >= 1 /\ n < U16Mod
  <2>1. FragmentCount(s) \in Nat /\ FragmentCount(s) >= 1 /\ U16Mod \in 1..256
    BY CutMessage
  <2> QED
    BY ONLY <2>1, ~Long(s) DEF Long
<1>2. total = n
  BY ONLY <1>1, Reduced, total = FragmentCount(s) % U16Mod
<1>3. ASSUME NEW i \in 1..n PROVE (i - 1) % U16Mod = i - 1
  <2>1. PICK k \in Nat : k = i - 1 /\ k < U16Mod
    BY ONLY <1>1, i \in 1..n, n \in Nat, ByteAssumption
  <2>2. k % U16Mod = k
    BY ONLY <2>1, Reduced
  <2> QED
    BY ONLY <2>1, <2>2
<1>4. \A j \in DOMAIN f : j \in 0..(n - 1) /\ j + 1 \in 1..n /\ f[j] = Chunk(s, j + 1)
  <2>1. ASSUME NEW j \in DOMAIN f PROVE j \in 0..(n - 1) /\ j + 1 \in 1..n /\ f[j] = Chunk(s, j + 1)
    <3>1. PICK i \in 1..n : j = (i - 1) % U16Mod /\ f[j] = Chunk(s, i)
      BY ONLY <1>1, FromMessage(f, s), j \in DOMAIN f DEF FromMessage
    <3>2. j = i - 1
      BY ONLY <1>3, <3>1
    <3>3. j \in 0..(n - 1) /\ j + 1 = i
      BY ONLY <3>2, i \in 1..n, n \in Nat
    <3> QED
      BY ONLY <3>1, <3>3
  <2> QED
    BY ONLY <2>1
<1>5. PICK D : D = 0..(n - 1)
  OBVIOUS
<1>6. IsFiniteSet(D) /\ Cardinality(D) = n
  <2>1. 0 \in Int /\ n - 1 \in Int
    BY ONLY n \in Nat
  <2>2. IsFiniteSet(0..(n - 1)) /\ Cardinality(0..(n - 1)) = IF 0 > n - 1 THEN 0 ELSE (n - 1) - 0 + 1
    BY ONLY <2>1, FS_Interval
  <2> QED
    BY ONLY <1>1, <1>5, <2>2, n \in Nat
<1>7. DOMAIN f \subseteq D
  BY ONLY <1>4, <1>5
<1>8. Complete(f, n) <=> D \subseteq DOMAIN f
  <2>1. CASE D \subseteq DOMAIN f
    BY ONLY <1>6, <1>7, <2>1 DEF Complete
  <2>2. CASE ~(D \subseteq DOMAIN f)
    <3>1. DOMAIN f # D
      BY ONLY <2>2
    <3>2. Cardinality(DOMAIN f) <= Cardinality(D) /\ (Cardinality(DOMAIN f) = Cardinality(D) => DOMAIN f = D)
      BY ONLY <1>6, <1>7, FS_Subset
    <3> QED
      BY ONLY <1>6, <2>2, <3>1, <3>2 DEF Complete
  <2> QED
    BY ONLY <2>1, <2>2
<1>9. ASSUME Complete(f, n) PROVE Assemble(f, n) = s
  <2>1. D \subseteq DOMAIN f
    BY ONLY <1>8, <1>9
  <2>2. ASSUME NEW i \in 1..n PROVE f[i - 1] = Chunk(s, i)
    <3>1. PICK j : j = i - 1
      OBVIOUS
    <3>2. j \in D /\ j + 1 = i
      BY ONLY <1>5, <3>1, i \in 1..n, n \in Nat
    <3>3. f[j] = Chunk(s, j + 1)
      BY ONLY <1>4, <2>1, <3>2
    <3> QED
      BY ONLY <3>1, <3>2, <3>3
  <2>3. [i \in 1..n |-> f[i - 1]] = [i \in 1..n |-> Chunk(s, i)]
    BY ONLY <2>2
  <2>4. FlattenSeq([i \in 1..n |-> Chunk(s, i)]) = SubSeq(s, 1, Upto(s, n))
    BY ONLY <1>1, ChunksFlatten, n \in Nat, s \in Seq(Byte)
  <2>5. Upto(s, n) = Len(s)
    <3>1. PICK l \in Nat : l = Len(s)
      BY ONLY s \in Seq(Byte)
    <3>2. l <= n * max_payload(Mtu)
      BY ONLY <1>1, <3>1, CutMessage, s \in Seq(Byte), ~Small(s)
    <3>3. n * max_payload(Mtu) \in Nat
      <4>1. max_payload(Mtu) \in Nat
        BY ONLY PayloadSize
      <4> QED
        BY ONLY <4>1, n \in Nat, Products, n <= n
    <3> QED
      BY ONLY <3>1, <3>2, <3>3 DEF Upto
  <2>6. SubSeq(s, 1, Len(s)) = s
    BY ONLY s \in Seq(Byte)
  <2> QED
    BY ONLY <2>3, <2>4, <2>5, <2>6 DEF Assemble
<1> QED
  BY ONLY <1>1, <1>2, <1>3, <1>5, <1>8, <1>9

\* What is put together of a message that u16 cannot count is a piece of it.
LEMMA LongPiece ==
    ASSUME NEW s, s \in Seq(Byte), ~Small(s), Long(s), NEW f, FromMessage(f, s), NEW total,
           total = FragmentCount(s) % U16Mod, \A i \in 0..(total - 1) : i \in DOMAIN f
    PROVE  Len(Assemble(f, total)) < Len(s) /\ Range(Assemble(f, total)) \subseteq Range(s)
<1>1. PICK n \in Nat : n = FragmentCount(s) /\ n >= 1 /\ n >= U16Mod
  BY CutMessage DEF Long
<1>2. total \in Nat /\ total <= n - 1
  <2>1. total \in Nat /\ total < U16Mod /\ U16Mod \in 1..256
    BY ONLY <1>1, Reduced, total = FragmentCount(s) % U16Mod, ByteAssumption
  <2> QED
    BY ONLY <1>1, <2>1
<1>3. PICK S : S = Range(s)
  OBVIOUS
<1>4. s \in Seq(S)
  BY ONLY <1>3, s \in Seq(Byte) DEF Range
<1>5. PICK c \in Nat : c = max_payload(Mtu)
  BY ONLY PayloadSize
<1>6. ASSUME NEW i \in 1..total PROVE f[i - 1] \in Seq(S) /\ Len(f[i - 1]) <= c
  <2>1. PICK j : j = i - 1
    OBVIOUS
  <2>2. j \in DOMAIN f
    <3>1. j \in 0..(total - 1)
      BY ONLY <1>2, <2>1, i \in 1..total
    <3> QED
      BY ONLY <3>1, \A k \in 0..(total - 1) : k \in DOMAIN f
  <2>3. PICK k \in 1..FragmentCount(s) : f[j] = Chunk(s, k)
    BY ONLY <2>2, FromMessage(f, s) DEF FromMessage
  <2>4. Chunk(s, k) \in Seq(S) /\ Len(Chunk(s, k)) <= max_payload(Mtu)
    BY ONLY <1>4, <2>3, Chunks
  <2> QED
    BY ONLY <1>5, <2>1, <2>3, <2>4
<1>7. PICK t : t = [i \in 1..total |-> f[i - 1]]
  OBVIOUS
<1>8. t \in Seq(Seq(S)) /\ Len(t) = total
  BY ONLY <1>2, <1>6, <1>7
<1>9. \A i \in 1..Len(t) : Len(t[i]) <= c
  BY ONLY <1>6, <1>7, <1>8
<1>10. Len(FlattenSeq(t)) <= total * c /\ FlattenSeq(t) \in Seq(S)
  BY ONLY <1>8, <1>9, FlattenLength, FlattenType, c \in Nat
<1>11. Len(FlattenSeq(t)) < Len(s)
  <2>1. n - 1 \in Nat
    BY ONLY <1>1
  <2>2. total * c \in Nat /\ total * c <= (n - 1) * c
    BY ONLY <1>2, <2>1, c \in Nat, Products
  <2>3. (n - 1) * c < Len(s)
    BY ONLY <1>1, <1>5, CutMessage, s \in Seq(Byte), ~Small(s)
  <2>4. PICK x : x = (n - 1) * c
    OBVIOUS
  <2>5. x \in Nat
    BY ONLY <2>1, <2>4, c \in Nat
  <2>6. PICK y \in Nat : y = Len(s)
    BY ONLY s \in Seq(Byte)
  <2>7. PICK z \in Nat : z = Len(FlattenSeq(t))
    BY ONLY <1>10
  <2>8. PICK w \in Nat : w = total * c
    BY ONLY <2>2
  <2> QED
    BY ONLY <1>10, <2>2, <2>3, <2>4, <2>5, <2>6, <2>7, <2>8
<1>12. Range(FlattenSeq(t)) \subseteq S
  BY ONLY <1>10 DEF Range
<1> QED
  BY ONLY <1>3, <1>7, <1>11, <1>12 DEF Assemble

\* The labels of a fragment, and what it carries.
Parts(d, x, y, z, c) ==
    /\ ~(Len(d) < FragmentHeader) /\ d[1] = x /\ d[2] = y /\ d[3] = z
    /\ SubSeq(d, FragmentHeader + 1, Len(d)) = c

\* They are the parts of what Labelled puts together.
LEMMA LabelParts ==
    ASSUME NEW x, x \in Byte, NEW y, y \in Byte, NEW z, z \in Byte, NEW c, c \in Seq(Byte), NEW d,
           d = <<x, y, z>> \o c
    PROVE  Parts(d, x, y, z, c)
<1>1a. <<x, y, z>> \in Seq(Byte) /\ Len(<<x, y, z>>) = 3 /\ <<x, y, z>>[1] = x /\ <<x, y, z>>[2] = y /\ <<x, y, z>>[3] = z
  BY ONLY x \in Byte, y \in Byte, z \in Byte
<1>1. PICK h : h = <<x, y, z>> /\ h \in Seq(Byte) /\ Len(h) = 3 /\ h[1] = x /\ h[2] = y /\ h[3] = z
  BY ONLY <1>1a
<1>2a. <<>> \in Seq(Byte) /\ Len(<<>>) = 0
  OBVIOUS
<1>2. PICK e : e = <<>> /\ e \in Seq(Byte) /\ Len(e) = 0
  BY ONLY <1>2a
<1>3. PICK k : k = h \o c /\ k \in Seq(Byte)
  BY ONLY <1>1, c \in Seq(Byte), ConcatType
<1>4. k \o e = k
  BY ONLY <1>2, <1>3
<1>5. /\ Len((h \o c) \o e) = Len(h) + Len(c) + Len(e)
      /\ SubSeq((h \o c) \o e, Len(h) + 1, Len(h) + Len(c)) = c
      /\ \A i \in 1..Len(h) : ((h \o c) \o e)[i] = h[i]
  BY ONLY <1>1, <1>2, c \in Seq(Byte), Slice
<1>6. PICK n \in Nat : n = Len(c)
  BY ONLY c \in Seq(Byte)
<1>7. Len(k) = 3 + n /\ SubSeq(k, 4, 3 + n) = c /\ k[1] = x /\ k[2] = y /\ k[3] = z
  <2>1. Len(k) = 3 + n
    BY ONLY <1>1, <1>2, <1>3, <1>4, <1>5, <1>6
  <2>2. SubSeq(k, 4, 3 + n) = c
    BY ONLY <1>1, <1>3, <1>4, <1>5, <1>6
  <2>3. k[1] = x /\ k[2] = y /\ k[3] = z
    BY ONLY <1>1, <1>3, <1>4, <1>5
  <2> QED
    BY ONLY <2>1, <2>2, <2>3
<1>8. d = k
  BY ONLY <1>1, <1>3, d = <<x, y, z>> \o c
<1> QED
  BY ONLY <1>6, <1>7, <1>8 DEF FragmentHeader, Parts

\* What a fragment of s, the message m, does to what waits in a: other messages stay as they are.
\* Kept: the fragment i waits in b, and all those of m that waited before.
Advanced(a, b, m, s) ==
    /\ \A k \in DOMAIN b : k = m \/ (k \in DOMAIN a /\ b[k] = a[k])
    /\ \A k \in DOMAIN a : k = m \/ k \in DOMAIN b
    /\ m \in DOMAIN b => Pieces(b[m], s)
Kept(a, b, m, i) ==
    /\ m \in DOMAIN b /\ (i - 1) \in DOMAIN b[m].fragments
    /\ m \in DOMAIN a => DOMAIN a[m].fragments \subseteq DOMAIN b[m].fragments

\* A fragment is received: the receiver a, b, c becomes ra.
Advances(ra, a, b, c, m, i, s) ==
    \E d : /\ Advanced(a, d, m, s)
           /\ \/ ra = Rx(d, b, c) /\ (Long(s) \/ Kept(a, d, m, i))
              \/ \E r : ra = Rx(d, b, c \cup {r}) /\ Whole(r, s) /\ (~Long(s) => r = s)

\* A fragment arrives: it waits with the others, or the message is complete and returned.
LEMMA FragmentStep ==
    ASSUME NEW a, NEW b, NEW c, NEW s, s \in Seq(Byte), ~Small(s), NEW m, m \in Byte,
           m \in DOMAIN a => Pieces(a[m], s), NEW i, i \in 1..FragmentCount(s), NEW p,
           p = Fragment(m, s, i)
    PROVE  Advances(recv_packet(Rx(a, b, c), p), a, b, c, m, i, s)
<1>1. p = Fragment(m, s, i)
  OBVIOUS
<1>2. /\ p.context = RESOURCE /\ p.data = Labelled(m, s, i) /\ Chunk(s, i) \in Seq(Byte)
  BY ONLY <1>1, m \in Byte, s \in Seq(Byte), i \in 1..FragmentCount(s), FragmentOf
<1>3. PICK index, total, piece : /\ index = (i - 1) % U16Mod /\ total = FragmentCount(s) % U16Mod
                                 /\ piece = Chunk(s, i)
  OBVIOUS
<1>4. index \in Byte /\ total \in Byte
  <2>1. FragmentCount(s) \in Nat
    BY ONLY s \in Seq(Byte), Counted
  <2>2. PICK k \in Nat : k = i - 1
    BY ONLY <2>1, i \in 1..FragmentCount(s)
  <2> QED
    BY ONLY <1>3, <2>1, <2>2, Reduced
<1>5. /\ ~(Len(p.data) < FragmentHeader) /\ m = p.data[1] /\ index = p.data[2] /\ total = p.data[3]
      /\ SubSeq(p.data, FragmentHeader + 1, Len(p.data)) = piece
  <2>1. PICK d : d = p.data
    OBVIOUS
  <2>2. d = <<m, index, total>> \o piece /\ piece \in Seq(Byte)
    BY ONLY <1>2, <1>3, <2>1 DEF Labelled
  <2>3. /\ ~(Len(d) < FragmentHeader) /\ d[1] = m /\ d[2] = index /\ d[3] = total
        /\ SubSeq(d, FragmentHeader + 1, Len(d)) = piece
    <3>1. Parts(d, m, index, total, piece)
      BY ONLY <1>4, <2>2, m \in Byte, LabelParts
    <3> QED
      BY ONLY <3>1 DEF Parts
  <2> QED
    BY ONLY <2>1, <2>3
<1>6. PICK buf : buf = Buffer(a, m, total)
  OBVIOUS
<1>7. buf.total = total /\ FromMessage(buf.fragments, s)
  <2>1. CASE m \in DOMAIN a
    BY ONLY <1>3, <1>6, <2>1, m \in DOMAIN a => Pieces(a[m], s) DEF Buffer, Pieces
  <2>2. CASE m \notin DOMAIN a
    <3>1. buf.total = total /\ buf.fragments = <<>>
      BY ONLY <1>6, <2>2 DEF Buffer
    <3> QED
      BY ONLY <3>1 DEF FromMessage
  <2> QED
    BY ONLY <2>1, <2>2
<1>8. PICK f : f = Added(buf.fragments, index, piece)
  OBVIOUS
<1>9. DOMAIN f = DOMAIN buf.fragments \cup {index}
      /\ \A j \in DOMAIN f : f[j] = IF j = index THEN piece ELSE buf.fragments[j]
  BY ONLY <1>8 DEF Added
<1>10. FromMessage(f, s)
  BY ONLY <1>3, <1>7, <1>9, i \in 1..FragmentCount(s) DEF FromMessage
<1>11. recv_packet(Rx(a, b, c), p) =
         IF ~Complete(f, total) THEN Rx(Stored(a, m, total, f), b, c)
         ELSE IF \E j \in 0..(total - 1) : j \notin DOMAIN f
           THEN Rx(Stored(a, m, total, AfterGap(f, total)), b, c)
         ELSE Rx(Removed(a, m), b, c \cup {Assemble(f, total)})
  <2>1. recv_packet(Rx(a, b, c), p) = reassemble_fragment(Rx(a, b, c), p)
    BY ONLY <1>2 DEF recv_packet
  <2>2. f = Added(buf.fragments, index, SubSeq(p.data, FragmentHeader + 1, Len(p.data)))
    BY ONLY <1>5, <1>8
  <2>3. reassemble_fragment(Rx(a, b, c), p) = Outcome(a, b, c, m, total, buf, f)
    BY ONLY <1>5, <1>6, <2>2, Reassembling
  <2> QED
    BY ONLY <1>7, <2>1, <2>3 DEF Outcome
<1>12. CASE ~Complete(f, total)
  <2>1. PICK d : d = Stored(a, m, total, f)
    OBVIOUS
  <2>2. recv_packet(Rx(a, b, c), p) = Rx(d, b, c)
    BY ONLY <1>11, <1>12, <2>1
  <2>3. /\ DOMAIN d = DOMAIN a \cup {m} /\ d[m].total = total /\ d[m].fragments = f
        /\ \A k \in DOMAIN a : k = m \/ d[k] = a[k]
    <3>1. /\ DOMAIN d = DOMAIN a \cup {m} /\ d[m] = [total |-> total, fragments |-> f]
          /\ \A k \in DOMAIN a : k = m \/ d[k] = a[k]
      BY ONLY <2>1 DEF Stored
    <3> QED
      BY ONLY <3>1
  <2>4. ~Long(s) => ~((0..(FragmentCount(s) - 1)) \subseteq DOMAIN f)
    BY ONLY <1>3, <1>10, <1>12, CompleteMessage, s \in Seq(Byte), ~Small(s)
  <2>5. Pieces(d[m], s)
    BY ONLY <1>3, <1>10, <2>3, <2>4 DEF Pieces
  <2>6. Advanced(a, d, m, s)
    BY ONLY <2>3, <2>5 DEF Advanced
  <2>7. ~Long(s) => Kept(a, d, m, i)
    <3>1. ~Long(s) => index = i - 1
      BY ONLY <1>3, <1>10, CompleteMessage, s \in Seq(Byte), ~Small(s), i \in 1..FragmentCount(s)
    <3>2. m \in DOMAIN a => buf.fragments = a[m].fragments
      BY ONLY <1>6 DEF Buffer
    <3> QED
      BY ONLY <1>9, <2>3, <3>1, <3>2 DEF Kept
  <2> QED
    BY ONLY <2>2, <2>6, <2>7 DEF Advances
<1>13. CASE Complete(f, total) /\ \E j \in 0..(total - 1) : j \notin DOMAIN f
  <2>1. PICK d : d = Stored(a, m, total, AfterGap(f, total))
    OBVIOUS
  <2>2. recv_packet(Rx(a, b, c), p) = Rx(d, b, c)
    BY ONLY <1>11, <1>13, <2>1
  <2>3. Long(s)
    BY ONLY <1>3, <1>10, <1>13, CompleteMessage, s \in Seq(Byte), ~Small(s)
  <2>4. PICK g : g = AfterGap(f, total)
    OBVIOUS
  <2>5. \A j \in DOMAIN g : j \in DOMAIN f /\ g[j] = f[j]
    BY ONLY <2>4 DEF AfterGap
  <2>6. FromMessage(g, s)
    BY ONLY <1>10, <2>5 DEF FromMessage
  <2>7. /\ DOMAIN d = DOMAIN a \cup {m} /\ d[m].total = total /\ d[m].fragments = g
        /\ \A k \in DOMAIN a : k = m \/ d[k] = a[k]
    <3>1. /\ DOMAIN d = DOMAIN a \cup {m} /\ d[m] = [total |-> total, fragments |-> g]
          /\ \A k \in DOMAIN a : k = m \/ d[k] = a[k]
      BY ONLY <2>1, <2>4 DEF Stored
    <3> QED
      BY ONLY <3>1
  <2>8. Pieces(d[m], s)
    BY ONLY <1>3, <2>3, <2>6, <2>7 DEF Pieces
  <2>9. Advanced(a, d, m, s)
    BY ONLY <2>7, <2>8 DEF Advanced
  <2> QED
    BY ONLY <2>2, <2>3, <2>9 DEF Advances
<1>14. CASE Complete(f, total) /\ ~\E j \in 0..(total - 1) : j \notin DOMAIN f
  <2>1. PICK d, r : d = Removed(a, m) /\ r = Assemble(f, total)
    OBVIOUS
  <2>2. recv_packet(Rx(a, b, c), p) = Rx(d, b, c \cup {r})
    BY ONLY <1>11, <1>14, <2>1
  <2>3. DOMAIN d = DOMAIN a \ {m} /\ \A k \in DOMAIN a : k = m \/ d[k] = a[k]
    BY ONLY <2>1 DEF Removed
  <2>4. Advanced(a, d, m, s)
    BY ONLY <2>3 DEF Advanced
  <2>5. ~Long(s) => r = s
    BY ONLY <1>3, <1>10, <1>14, <2>1, CompleteMessage, s \in Seq(Byte), ~Small(s)
  <2>6. Long(s) => Len(r) < Len(s) /\ Range(r) \subseteq Range(s)
    BY ONLY <1>3, <1>10, <1>14, <2>1, LongPiece, s \in Seq(Byte), ~Small(s)
  <2>7. Whole(r, s)
    BY ONLY <2>5, <2>6 DEF Whole
  <2> QED
    BY ONLY <2>2, <2>4, <2>5, <2>7 DEF Advances
<1> QED
  BY ONLY <1>12, <1>13, <1>14

-----------------------------------------------------------------------------
(* The invariant of PacketLine *)

\* The sender: what it put into outbound for every message.
SenderInv ==
    /\ framing \in Framings
    /\ sent \in Seq(Messages)
    /\ outbound \in Seq(Seq(WellFormed)) /\ DOMAIN outbound = DOMAIN sent
    /\ \A m \in DOMAIN sent : Carries(outbound[m], m, sent[m])
    /\ frames = 0 => aired = {}
    /\ Range(last) \subseteq WellFormed

\* The receiver, whatever the line does to the bytes.
ReceiverInv ==
    /\ dec \in DecoderType
    /\ ReassemblyType(reassembly)
    /\ inbound \in Seq(ReadPackets)
    /\ frames \in 0..MaxFrames /\ noise \in 0..MaxNoise /\ sinceNoise \in Nat /\ silence \in BOOLEAN

\* The decoder and the line are in step, as far as Resynchronises promises it.
InStep ==
    \/ noise = 0
    \/ framing = "hdlc" /\ sinceNoise >= 2
    \/ framing = "serial" /\ silence /\ sinceNoise >= 1

\* When the decoder is in step with the line, and then what was decoded is what was sent.
DecoderInv ==
    /\ noise = 0 => Clean(framing, dec)
    /\ framing = "hdlc" /\ sinceNoise >= 1 => dec = Open
    /\ framing = "serial" /\ silence => dec = Idle
    /\ InStep => decoded = last

\* A packet that arrived: its message was returned, or is too long, or waits for other fragments.
Accounted(m, i) ==
    \/ sent[m] \in returned
    \/ ~Small(sent[m]) /\ Long(sent[m])
    \/ ~Small(sent[m]) /\ m \in DOMAIN reassembly /\ (i - 1) \in DOMAIN reassembly[m].fragments

\* The line was never damaged: what waits, what was returned and what arrived fit together.
ReassemblyInv ==
    noise = 0 =>
        /\ \A k \in DOMAIN reassembly :
              k \in DOMAIN sent /\ ~Small(sent[k]) /\ Pieces(reassembly[k], sent[k])
        /\ \A r \in returned : \E s \in Range(sent) : Whole(r, s)
        /\ \A m \in DOMAIN sent : \A i \in DOMAIN outbound[m] : <<m, i>> \in aired => Accounted(m, i)

\* The inductive invariant.
LineInv == SenderInv /\ ReceiverInv /\ DecoderInv /\ ReassemblyInv

\* Initially.
LEMMA LineInvInit == LineInit => LineInv
<1>1. SUFFICES ASSUME LineInit PROVE LineInv
  OBVIOUS
<1>2. dec = Idle /\ Idle \in DecoderType
  <2>1. NewDecoder = Idle
    BY IdleAndOpen
  <2>2. Idle \in DecoderType
    BY DEF Idle, Decoder, DecoderType, Commands
  <2> QED
    BY <1>1, <2>1, <2>2 DEF LineInit
<1>3. SenderInv
  BY <1>1 DEF LineInit, SenderInv, Range
<1>4. ReceiverInv
  BY <1>1, <1>2, LineBoundAssumption DEF LineInit, ReceiverInv, ReassemblyType
<1>5. DecoderInv
  BY <1>1, <1>2 DEF LineInit, DecoderInv, Clean, InStep
<1>6. ReassemblyInv
  BY <1>1 DEF LineInit, ReassemblyInv
<1> QED
  BY <1>3, <1>4, <1>5, <1>6 DEF LineInv

\* A packet of a message is well formed; it is the message, or one of its fragments.
LEMMA PacketOf ==
    ASSUME SenderInv, NEW m \in DOMAIN outbound, NEW i \in DOMAIN outbound[m]
    PROVE  /\ outbound[m][i] \in WellFormed /\ m \in DOMAIN sent /\ sent[m] \in Seq(Byte)
           /\ Len(to_bytes(outbound[m][i])) <= Mtu
           /\ Small(sent[m]) => outbound[m][i].context = NONE /\ outbound[m][i].data = sent[m]
           /\ ~Small(sent[m]) => /\ m \in Byte /\ i \in 1..FragmentCount(sent[m])
                                 /\ outbound[m][i] = Fragment(m, sent[m], i)
<1>1. m \in DOMAIN sent /\ sent[m] \in Seq(Byte)
  BY ByteAssumption DEF SenderInv
<1>2. PICK s, packets : s = sent[m] /\ packets = outbound[m]
  OBVIOUS
<1>3. Carries(packets, m, s) /\ s \in Seq(Byte)
  BY <1>1, <1>2 DEF SenderInv
<1>4. packets \in Seq(WellFormed) /\ \A j \in DOMAIN packets : Len(to_bytes(packets[j])) <= Mtu
  BY ONLY <1>3, CarriedFit
<1>5. i \in DOMAIN packets /\ packets[i] \in WellFormed
  BY ONLY <1>2, <1>4, i \in DOMAIN outbound[m]
<1>6. ASSUME Small(s) PROVE packets[i].context = NONE /\ packets[i].data = s
  <2>1. PICK p \in WellFormed : packets = <<p>> /\ p.context = NONE /\ p.data = s
    BY ONLY <1>3, <1>6 DEF Carries
  <2>2. packets[i] = p
    BY ONLY <1>5, <2>1
  <2> QED
    BY ONLY <2>1, <2>2
<1>7. ASSUME ~Small(s)
      PROVE  m \in Byte /\ i \in 1..FragmentCount(s) /\ packets[i] = Fragment(m, s, i)
  <2>1. m \in Byte /\ packets = [j \in 1..FragmentCount(s) |-> Fragment(m, s, j)]
    BY ONLY <1>3, <1>7, FragmentsOf DEF Carries
  <2> QED
    BY ONLY <1>5, <2>1
<1> QED
  BY ONLY <1>1, <1>2, <1>4, <1>5, <1>6, <1>7

\* Whatever bytes arrive, the decoder and the receiver keep their types.
LEMMA ArriveType ==
    ASSUME SenderInv, ReceiverInv, NEW bytes, bytes \in Seq(Byte), Arrive(bytes)
    PROVE  dec' \in DecoderType /\ ReassemblyType(reassembly') /\ inbound' \in Seq(ReadPackets)
<1>1. PICK r : r = FeedAll(framing, dec, bytes)
  OBVIOUS
<1>2. r \in FedType
  BY ONLY <1>1, bytes \in Seq(Byte), SenderInv, ReceiverInv, FeedAllType DEF SenderInv, ReceiverInv
<1>3. PICK packets : packets = Read(r.out) /\ packets \in Seq(ReadPackets)
  BY ONLY <1>2, ReadsType DEF FedType
<1>4. PICK ra : ra = Rx(reassembly, inbound, returned) /\ IsRx(ra)
  BY ONLY ReceiverInv, RxFields DEF ReceiverInv
<1>5. IsRx(recv_packets(ra, packets))
  BY ONLY <1>3, <1>4, ReceivesType
<1>6. PICK ry : ry = recv_packets(ra, packets)
  OBVIOUS
<1>7. dec' = r.dec /\ reassembly' = ry.reassembly /\ inbound' = ry.inbound
  BY ONLY <1>1, <1>3, <1>4, <1>6, Arrive(bytes) DEF Arrive, Rx
<1>8. dec' \in DecoderType
  BY ONLY <1>2, <1>7 DEF FedType
<1>9. ReassemblyType(reassembly') /\ inbound' \in Seq(ReadPackets)
  <2>1. ReassemblyType(ry.reassembly) /\ ry.inbound \in Seq(ReadPackets)
    BY ONLY <1>5, <1>6 DEF IsRx
  <2>2. PICK z : z = ry.reassembly
    OBVIOUS
  <2>3. ReassemblyType(z) /\ reassembly' = z
    BY ONLY <1>7, <2>1, <2>2
  <2> QED
    BY ONLY <1>7, <2>1, <2>3 DEF ReassemblyType
<1> QED
  BY ONLY <1>8, <1>9

\* A frame that finds the decoder between two frames: the packet in it is received.
LEMMA CleanArrival ==
    ASSUME SenderInv, NEW m \in DOMAIN outbound, NEW i \in DOMAIN outbound[m],
           Arrive(encode(framing, to_bytes(outbound[m][i]))), Clean(framing, dec)
    PROVE  /\ decoded' = <<outbound[m][i]>> /\ Clean(framing, dec') /\ (framing = "serial" => dec' = Idle)
           /\ reassembly' = recv_packet(Rx(reassembly, inbound, returned), outbound[m][i]).reassembly
           /\ returned' = recv_packet(Rx(reassembly, inbound, returned), outbound[m][i]).returned
<1>1. PICK p : p = outbound[m][i] /\ p \in WellFormed
  BY ONLY SenderInv, m \in DOMAIN outbound, i \in DOMAIN outbound[m], PacketOf
<1>2. PICK r : r = FeedAll(framing, dec, encode(framing, to_bytes(p)))
  OBVIOUS
<1>3. framing \in Framings
  BY ONLY SenderInv DEF SenderInv
<1>4. Read(r.out) = <<p>> /\ Clean(framing, r.dec) /\ (framing = "serial" => r.dec = Idle)
  BY ONLY <1>1, <1>2, <1>3, Clean(framing, dec), CleanFrame
<1>5. PICK ra : ra = Rx(reassembly, inbound, returned)
  OBVIOUS
<1>6. recv_packets(ra, <<p>>) = recv_packet(ra, p)
  BY ONLY ReceiveOne
<1>7. /\ dec' = r.dec /\ decoded' = Read(r.out)
      /\ reassembly' = recv_packets(ra, Read(r.out)).reassembly
      /\ returned' = recv_packets(ra, Read(r.out)).returned
  BY ONLY <1>1, <1>2, <1>5, Arrive(encode(framing, to_bytes(outbound[m][i]))) DEF Arrive, Rx
<1> QED
  BY ONLY <1>1, <1>4, <1>5, <1>6, <1>7 DEF Clean

\* An undamaged frame on a line that was never damaged.
LEMMA CleanReassembly ==
    ASSUME SenderInv, ReassemblyInv, noise = 0, NEW m \in DOMAIN outbound, NEW i \in DOMAIN outbound[m],
           reassembly' = recv_packet(Rx(reassembly, inbound, returned), outbound[m][i]).reassembly,
           returned' = recv_packet(Rx(reassembly, inbound, returned), outbound[m][i]).returned,
           aired' = aired \cup {<<m, i>>}, UNCHANGED <<sent, outbound, noise>>
    PROVE  ReassemblyInv'
<1>1. PICK p, s : p = outbound[m][i] /\ s = sent[m]
  OBVIOUS
<1>2. /\ m \in DOMAIN sent /\ s \in Seq(Byte)
      /\ Small(s) => p.context = NONE /\ p.data = s
      /\ ~Small(s) => m \in Byte /\ i \in 1..FragmentCount(s) /\ p = Fragment(m, s, i)
  BY ONLY <1>1, SenderInv, m \in DOMAIN outbound, i \in DOMAIN outbound[m], PacketOf
<1>3. /\ \A k \in DOMAIN reassembly :
           k \in DOMAIN sent /\ ~Small(sent[k]) /\ Pieces(reassembly[k], sent[k])
      /\ \A r \in returned : \E t \in Range(sent) : Whole(r, t)
      /\ \A mm \in DOMAIN sent : \A ii \in DOMAIN outbound[mm] : <<mm, ii>> \in aired => Accounted(mm, ii)
  BY ONLY noise = 0, ReassemblyInv DEF ReassemblyInv
<1>4. s \in Range(sent)
  BY ONLY <1>1, <1>2 DEF Range
<1>5. PICK a, b, c : a = reassembly /\ b = inbound /\ c = returned
  OBVIOUS
<1>6. PICK d, e : d = recv_packet(Rx(a, b, c), p).reassembly /\ e = recv_packet(Rx(a, b, c), p).returned
  OBVIOUS
<1>7. reassembly' = d /\ returned' = e
  BY ONLY <1>1, <1>5, <1>6,
          reassembly' = recv_packet(Rx(reassembly, inbound, returned), outbound[m][i]).reassembly,
          returned' = recv_packet(Rx(reassembly, inbound, returned), outbound[m][i]).returned
<1>8. /\ \A k \in DOMAIN d : k \in DOMAIN sent /\ ~Small(sent[k]) /\ Pieces(d[k], sent[k])
      /\ \A r \in e : \E t \in Range(sent) : Whole(r, t)
      /\ \A mm \in DOMAIN sent : \A ii \in DOMAIN outbound[mm] :
            <<mm, ii>> \in aired \/ (mm = m /\ ii = i) =>
                \/ sent[mm] \in e
                \/ ~Small(sent[mm]) /\ Long(sent[mm])
                \/ ~Small(sent[mm]) /\ mm \in DOMAIN d /\ (ii - 1) \in DOMAIN d[mm].fragments
  <2>1. CASE Small(s)
    <3>0. p.context # RESOURCE /\ p.data = s
      BY ONLY <1>2, <2>1 DEF NONE, RESOURCE
    <3>1. recv_packet(Rx(a, b, c), p) = Rx(a, Append(b, p), c \cup {s})
      BY ONLY <3>0 DEF recv_packet, Rx
    <3>2. d = a /\ e = c \cup {s}
      BY ONLY <1>6, <3>1, RxFields
    <3>3. Whole(s, s)
      BY DEF Whole
    <3> QED
      BY ONLY <1>1, <1>3, <1>4, <1>5, <3>2, <3>3 DEF Accounted
  <2>2. CASE ~Small(s)
    <3>1. m \in DOMAIN a => Pieces(a[m], s)
      BY ONLY <1>1, <1>3, <1>5
    <3>a. m \in Byte /\ i \in 1..FragmentCount(s) /\ p = Fragment(m, s, i) /\ s \in Seq(Byte)
      BY ONLY <1>2, <2>2
    <3>b. Advances(recv_packet(Rx(a, b, c), p), a, b, c, m, i, s)
      BY ONLY <2>2, <3>1, <3>a, FragmentStep
    <3>2. PICK dd : /\ Advanced(a, dd, m, s)
                    /\ \/ recv_packet(Rx(a, b, c), p) = Rx(dd, b, c) /\ (Long(s) \/ Kept(a, dd, m, i))
                       \/ \E r : /\ recv_packet(Rx(a, b, c), p) = Rx(dd, b, c \cup {r})
                                 /\ Whole(r, s) /\ (~Long(s) => r = s)
      BY ONLY <3>b DEF Advances
    <3>3. \A k \in DOMAIN dd : k \in DOMAIN sent /\ ~Small(sent[k]) /\ Pieces(dd[k], sent[k])
      BY ONLY <1>1, <1>2, <1>3, <1>5, <2>2, <3>2 DEF Advanced
    <3>4. ASSUME NEW mm \in DOMAIN sent, NEW ii \in DOMAIN outbound[mm], <<mm, ii>> \in aired, mm # m
          PROVE  \/ sent[mm] \in c
                 \/ ~Small(sent[mm]) /\ Long(sent[mm])
                 \/ ~Small(sent[mm]) /\ mm \in DOMAIN dd /\ (ii - 1) \in DOMAIN dd[mm].fragments
      <4>1. Accounted(mm, ii)
        BY ONLY <1>3, <3>4
      <4>2. mm \in DOMAIN a => mm \in DOMAIN dd /\ dd[mm] = a[mm]
        BY ONLY <3>2, <3>4 DEF Advanced
      <4> QED
        BY ONLY <1>5, <4>1, <4>2 DEF Accounted
    <3>5. CASE recv_packet(Rx(a, b, c), p) = Rx(dd, b, c) /\ (Long(s) \/ Kept(a, dd, m, i))
      <4>1. d = dd /\ e = c
        BY ONLY <1>6, <3>5, RxFields
      <4>2. ASSUME NEW ii \in DOMAIN outbound[m], <<m, ii>> \in aired \/ ii = i
            PROVE  \/ s \in c
                   \/ Long(s)
                   \/ m \in DOMAIN dd /\ (ii - 1) \in DOMAIN dd[m].fragments
        <5>1. CASE ii = i
          BY ONLY <3>5, <5>1 DEF Kept
        <5>2. CASE <<m, ii>> \in aired
          <6>1. Accounted(m, ii)
            BY ONLY <1>2, <1>3, <4>2, <5>2
          <6> QED
            BY ONLY <1>1, <1>5, <3>5, <6>1 DEF Accounted, Kept
        <5> QED
          BY ONLY <4>2, <5>1, <5>2
      <4>3. ASSUME NEW mm \in DOMAIN sent, NEW ii \in DOMAIN outbound[mm],
                   <<mm, ii>> \in aired \/ (mm = m /\ ii = i)
            PROVE  \/ sent[mm] \in e
                   \/ ~Small(sent[mm]) /\ Long(sent[mm])
                   \/ ~Small(sent[mm]) /\ mm \in DOMAIN d /\ (ii - 1) \in DOMAIN d[mm].fragments
        <5>1. CASE mm = m
          BY ONLY <1>1, <2>2, <4>1, <4>2, <4>3, <5>1
        <5>2. CASE mm # m
          BY ONLY <3>4, <4>1, <4>3, <5>2
        <5> QED
          BY ONLY <5>1, <5>2
      <4> QED
        BY ONLY <1>3, <1>5, <3>3, <4>1, <4>3
    <3>6. CASE \E r : /\ recv_packet(Rx(a, b, c), p) = Rx(dd, b, c \cup {r})
                      /\ Whole(r, s) /\ (~Long(s) => r = s)
      <4>1. PICK r : /\ recv_packet(Rx(a, b, c), p) = Rx(dd, b, c \cup {r})
                     /\ Whole(r, s) /\ (~Long(s) => r = s)
        BY ONLY <3>6
      <4>2. d = dd /\ e = c \cup {r}
        BY ONLY <1>6, <4>1, RxFields
      <4>3. \A x \in e : \E t \in Range(sent) : Whole(x, t)
        BY ONLY <1>3, <1>4, <1>5, <4>1, <4>2
      <4>4. ASSUME NEW mm \in DOMAIN sent, NEW ii \in DOMAIN outbound[mm],
                   <<mm, ii>> \in aired \/ (mm = m /\ ii = i)
            PROVE  \/ sent[mm] \in e
                   \/ ~Small(sent[mm]) /\ Long(sent[mm])
                   \/ ~Small(sent[mm]) /\ mm \in DOMAIN d /\ (ii - 1) \in DOMAIN d[mm].fragments
        <5>1. CASE mm = m
          BY ONLY <1>1, <2>2, <4>1, <4>2, <5>1
        <5>2. CASE mm # m
          BY ONLY <3>4, <4>2, <4>4, <5>2
        <5> QED
          BY ONLY <5>1, <5>2
      <4> QED
        BY ONLY <3>3, <4>2, <4>3, <4>4
    <3> QED
      BY ONLY <3>2, <3>5, <3>6
  <2> QED
    BY ONLY <2>1, <2>2
<1>9. ReassemblyInv'
  <2>1. \A k \in DOMAIN reassembly' :
           k \in DOMAIN sent' /\ ~Small(sent'[k]) /\ Pieces(reassembly'[k], sent'[k])
    BY ONLY <1>7, <1>8, UNCHANGED <<sent, outbound, noise>>
  <2>2. \A r \in returned' : \E t \in Range(sent') : Whole(r, t)
    BY ONLY <1>7, <1>8, UNCHANGED <<sent, outbound, noise>>
  <2>3. ASSUME NEW mm \in DOMAIN sent', NEW ii \in DOMAIN outbound'[mm], <<mm, ii>> \in aired'
        PROVE  Accounted(mm, ii)'
    <3>1. mm \in DOMAIN sent /\ ii \in DOMAIN outbound[mm]
      BY ONLY <2>3, UNCHANGED <<sent, outbound, noise>>
    <3>2. <<mm, ii>> \in aired \/ (mm = m /\ ii = i)
      BY ONLY <2>3, aired' = aired \cup {<<m, i>>}
    <3> QED
      BY ONLY <1>7, <1>8, <3>1, <3>2, UNCHANGED <<sent, outbound, noise>> DEF Accounted
  <2> QED
    BY ONLY <2>1, <2>2, <2>3 DEF ReassemblyInv
<1> QED
  BY <1>9

\* An undamaged frame.
LEMMA TransmitStep ==
    ASSUME LineInv, NEW m \in DOMAIN outbound, NEW i \in DOMAIN outbound[m], Transmit(m, i)
    PROVE  LineInv'
<1>1. /\ Arrive(encode(framing, to_bytes(outbound[m][i]))) /\ frames < MaxFrames
      /\ aired' = aired \cup {<<m, i>>} /\ sinceNoise' = sinceNoise + 1 /\ last' = <<outbound[m][i]>>
      /\ UNCHANGED <<noise, silence>>
  BY ONLY Transmit(m, i) DEF Transmit
<1>2. frames' = frames + 1 /\ UNCHANGED <<framing, sent, outbound>>
  BY ONLY <1>1 DEF Arrive
<1>3. SenderInv /\ ReceiverInv /\ DecoderInv /\ ReassemblyInv
  BY ONLY LineInv DEF LineInv
<1>4. PICK p : p = outbound[m][i] /\ p \in WellFormed
  BY ONLY <1>3, PacketOf, m \in DOMAIN outbound, i \in DOMAIN outbound[m]
<1>5. framing \in Framings /\ dec \in DecoderType
  BY ONLY <1>3 DEF SenderInv, ReceiverInv
<1>6. to_bytes(p) \in Seq(Byte)
  BY ONLY <1>4, NeverEmpty
<1>7. PICK bytes : bytes = encode(framing, to_bytes(p)) /\ bytes \in Seq(Byte)
  BY ONLY <1>5, <1>6, EncodeType
<1>8. frames \in 0..MaxFrames /\ MaxFrames \in Nat
  BY ONLY <1>3, LineBoundAssumption DEF ReceiverInv
<1>9. SenderInv'
  <2>1. Range(last') \subseteq WellFormed
    BY ONLY <1>1, <1>4 DEF Range
  <2>2. frames' # 0
    BY ONLY <1>2, <1>8
  <2> QED
    BY ONLY <1>2, <1>3, <2>1, <2>2 DEF SenderInv
<1>10. ReceiverInv'
  <2>1. dec' \in DecoderType /\ ReassemblyType(reassembly') /\ inbound' \in Seq(ReadPackets)
    BY ONLY <1>1, <1>3, <1>4, <1>7, ArriveType
  <2>2. frames' \in 0..MaxFrames
    BY ONLY <1>1, <1>2, <1>8
  <2> QED
    BY ONLY <1>1, <1>3, <2>1, <2>2 DEF ReceiverInv, ReassemblyType
<1>11. Clean(framing, dec) =>
         decoded' = <<p>> /\ Clean(framing, dec') /\ (framing = "serial" => dec' = Idle)
  BY ONLY <1>1, <1>3, <1>4, m \in DOMAIN outbound, i \in DOMAIN outbound[m], CleanArrival
<1>12. framing = "hdlc" => dec' = Open
  <2>1. dec' = FeedAll(framing, dec, encode(framing, to_bytes(p))).dec
    BY ONLY <1>1, <1>4 DEF Arrive
  <2> QED
    BY ONLY <1>4, <1>5, <2>1, AnyFrame
<1>13. sinceNoise \in Nat
  BY ONLY <1>3 DEF ReceiverInv
<1>14. (InStep)' => Clean(framing, dec)
  <2>1. noise = 0 => Clean(framing, dec)
    BY ONLY <1>3 DEF DecoderInv
  <2>2. framing = "hdlc" /\ sinceNoise + 1 >= 2 => dec = Open
    <3>1. sinceNoise + 1 >= 2 => sinceNoise >= 1
      BY ONLY <1>13
    <3> QED
      BY ONLY <1>3, <3>1 DEF DecoderInv
  <2>3. framing = "serial" /\ silence => dec = Idle
    BY ONLY <1>3 DEF DecoderInv
  <2> QED
    BY ONLY <1>1, <1>2, <2>1, <2>2, <2>3 DEF InStep, Clean
<1>15. DecoderInv'
  <2>1. noise' = 0 => Clean(framing', dec')
    <3>1. noise = 0 => Clean(framing, dec)
      BY ONLY <1>3 DEF DecoderInv
    <3> QED
      BY ONLY <1>1, <1>2, <1>11, <3>1 DEF Clean
  <2>2. framing' = "hdlc" /\ sinceNoise' >= 1 => dec' = Open
    BY ONLY <1>2, <1>12
  <2>3. framing' = "serial" /\ silence' => dec' = Idle
    <3>1. framing = "serial" /\ silence => Clean(framing, dec)
      BY ONLY <1>3 DEF DecoderInv, Clean
    <3> QED
      BY ONLY <1>1, <1>2, <1>11, <3>1
  <2>4. InStep' => decoded' = last'
    BY ONLY <1>1, <1>4, <1>11, <1>14
  <2> QED
    BY ONLY <2>1, <2>2, <2>3, <2>4 DEF DecoderInv, Clean
<1>16. ReassemblyInv'
  <2>1. CASE noise = 0
    <3>1. Clean(framing, dec)
      BY ONLY <1>3, <2>1 DEF DecoderInv
    <3>2. /\ reassembly' = recv_packet(Rx(reassembly, inbound, returned), outbound[m][i]).reassembly
          /\ returned' = recv_packet(Rx(reassembly, inbound, returned), outbound[m][i]).returned
      BY ONLY <1>1, <1>3, <3>1, m \in DOMAIN outbound, i \in DOMAIN outbound[m], CleanArrival
    <3>3. UNCHANGED <<sent, outbound, noise>>
      BY ONLY <1>1, <1>2
    <3> QED
      BY ONLY <1>1, <1>3, <2>1, <3>2, <3>3, m \in DOMAIN outbound, i \in DOMAIN outbound[m],
              CleanReassembly
  <2>2. CASE noise # 0
    BY ONLY <1>1, <2>2 DEF ReassemblyInv
  <2> QED
    BY ONLY <2>1, <2>2
<1> QED
  BY ONLY <1>9, <1>10, <1>15, <1>16 DEF LineInv

\* A damaged frame: nothing but the types survives.
LEMMA DamagedStep ==
    ASSUME LineInv, NEW m \in DOMAIN outbound, NEW i \in DOMAIN outbound[m], TransmitDamaged(m, i)
    PROVE  LineInv'
<1>1. PICK bytes \in Damaged(encode(framing, to_bytes(outbound[m][i]))) : Arrive(bytes)
  BY ONLY TransmitDamaged(m, i) DEF TransmitDamaged
<1>2. /\ frames < MaxFrames /\ noise < MaxNoise
      /\ noise' = noise + 1 /\ sinceNoise' = 0 /\ silence' = FALSE /\ last' = <<>> /\ UNCHANGED aired
  BY ONLY TransmitDamaged(m, i) DEF TransmitDamaged
<1>3. frames' = frames + 1 /\ UNCHANGED <<framing, sent, outbound>>
  BY ONLY <1>1 DEF Arrive
<1>4. SenderInv /\ ReceiverInv /\ DecoderInv
  BY ONLY LineInv DEF LineInv
<1>5. PICK p : p = outbound[m][i] /\ p \in WellFormed
  BY ONLY <1>4, PacketOf, m \in DOMAIN outbound, i \in DOMAIN outbound[m]
<1>6. framing \in Framings
  BY ONLY <1>4 DEF SenderInv
<1>7. to_bytes(p) \in Seq(Byte)
  BY ONLY <1>5, NeverEmpty
<1>8. PICK e : e = encode(framing, to_bytes(p)) /\ e \in Seq(Byte)
  BY ONLY <1>6, <1>7, EncodeType
<1>9. bytes \in Seq(Byte)
  BY ONLY <1>1, <1>5, <1>8, DamagedType
<1>10. frames \in 0..MaxFrames /\ MaxFrames \in Nat /\ noise \in 0..MaxNoise /\ MaxNoise \in Nat
  BY ONLY <1>4, LineBoundAssumption DEF ReceiverInv
<1>11. noise' # 0 /\ noise' \in 0..MaxNoise /\ frames' # 0 /\ frames' \in 0..MaxFrames
  BY ONLY <1>2, <1>3, <1>10
<1>12. SenderInv'
  <2>1. Range(last') \subseteq WellFormed
    BY ONLY <1>2 DEF Range
  <2> QED
    BY ONLY <1>3, <1>4, <1>11, <2>1 DEF SenderInv
<1>13. ReceiverInv'
  <2>1. dec' \in DecoderType /\ ReassemblyType(reassembly') /\ inbound' \in Seq(ReadPackets)
    BY ONLY <1>1, <1>4, <1>9, ArriveType
  <2>2. sinceNoise' \in Nat /\ silence' \in BOOLEAN
    BY ONLY <1>2
  <2> QED
    BY ONLY <1>11, <2>1, <2>2 DEF ReceiverInv, ReassemblyType
<1>14. DecoderInv'
  BY ONLY <1>2, <1>11 DEF DecoderInv, InStep
<1>15. ReassemblyInv'
  BY ONLY <1>11 DEF ReassemblyInv
<1> QED
  BY ONLY <1>12, <1>13, <1>14, <1>15 DEF LineInv

\* A message more at the sender.
LEMMA SendStep ==
    ASSUME LineInv, NEW data \in Messages, NEW packets, Carries(packets, Len(sent) + 1, data), frames = 0,
           sent' = Append(sent, data), outbound' = Append(outbound, packets),
           UNCHANGED <<framing, dec, receiver, aired, frames, noise, sinceNoise, silence, last, decoded>>
    PROVE  LineInv'
<1>1. SenderInv /\ ReceiverInv /\ DecoderInv /\ ReassemblyInv
  BY ONLY LineInv DEF LineInv
<1>2. /\ sent \in Seq(Messages) /\ outbound \in Seq(Seq(WellFormed)) /\ DOMAIN outbound = DOMAIN sent
      /\ \A m \in DOMAIN sent : Carries(outbound[m], m, sent[m])
  BY ONLY <1>1 DEF SenderInv
<1>3. PICK n \in Nat : n = Len(sent) /\ DOMAIN sent = 1..n
  BY ONLY <1>2
<1>4. Len(outbound) = n
  BY ONLY <1>2, <1>3
<1>5. packets \in Seq(WellFormed)
  <2>1. data \in Seq(Byte)
    BY ONLY data \in Messages, ByteAssumption
  <2> QED
    BY ONLY <2>1, Carries(packets, Len(sent) + 1, data), CarriedFit
<1>6. PICK s : s = Append(sent, data)
  OBVIOUS
<1>7. s \in Seq(Messages) /\ DOMAIN s = 1..(n + 1) /\ s[n + 1] = data /\ \A m \in 1..n : s[m] = sent[m]
  BY ONLY <1>2, <1>3, <1>6, data \in Messages
<1>8. PICK o : o = Append(outbound, packets)
  OBVIOUS
<1>9. PICK Z : Z = Seq(WellFormed)
  OBVIOUS
<1>10. o \in Seq(Z) /\ DOMAIN o = 1..(n + 1) /\ o[n + 1] = packets /\ \A m \in 1..n : o[m] = outbound[m]
  <2>1. outbound \in Seq(Z) /\ packets \in Z
    BY ONLY <1>2, <1>5, <1>9
  <2>2. o \in Seq(Z) /\ DOMAIN o = 1..(n + 1)
    BY ONLY <1>4, <1>8, <2>1, n \in Nat
  <2>3. o[n + 1] = packets
    BY ONLY <1>4, <1>8, <2>1, n \in Nat
  <2>4. \A m \in 1..n : o[m] = outbound[m]
    BY ONLY <1>4, <1>8, <2>1, n \in Nat
  <2> QED
    BY ONLY <2>2, <2>3, <2>4
<1>11. \A m \in 1..(n + 1) : m = n + 1 \/ m \in 1..n
  BY ONLY n \in Nat
<1>12. \A m \in 1..(n + 1) : Carries(o[m], m, s[m])
  BY ONLY <1>2, <1>3, <1>7, <1>10, <1>11, Carries(packets, Len(sent) + 1, data)
<1>13. sent' = s /\ outbound' = o
  BY ONLY <1>6, <1>8, sent' = Append(sent, data), outbound' = Append(outbound, packets)
<1>14. UNCHANGED <<framing, dec, reassembly, inbound, returned, aired, frames, noise, sinceNoise,
                   silence, last, decoded>>
  BY ONLY UNCHANGED <<framing, dec, receiver, aired, frames, noise, sinceNoise, silence, last, decoded>>
     DEF receiver
<1>15. SenderInv'
  BY ONLY <1>1, <1>7, <1>9, <1>10, <1>12, <1>13, <1>14 DEF SenderInv
<1>16. ReceiverInv'
  BY ONLY <1>1, <1>14 DEF ReceiverInv, ReassemblyType
<1>17. DecoderInv'
  BY ONLY <1>1, <1>14 DEF DecoderInv, InStep, Clean
<1>18. ReassemblyInv'
  <2>1. SUFFICES ASSUME noise' = 0
        PROVE  /\ \A k \in DOMAIN reassembly' :
                     k \in DOMAIN sent' /\ ~Small(sent'[k]) /\ Pieces(reassembly'[k], sent'[k])
               /\ \A r \in returned' : \E t \in Range(sent') : Whole(r, t)
               /\ aired' = {}
    BY DEF ReassemblyInv
  <2>2. noise = 0
    BY ONLY <1>14, <2>1
  <2>3. \A k \in DOMAIN sent : k \in DOMAIN s /\ s[k] = sent[k]
    BY ONLY <1>3, <1>7, n \in Nat
  <2>4. \A k \in DOMAIN reassembly' :
           k \in DOMAIN sent' /\ ~Small(sent'[k]) /\ Pieces(reassembly'[k], sent'[k])
    BY ONLY <1>1, <1>13, <1>14, <2>2, <2>3 DEF ReassemblyInv
  <2>5. Range(sent) \subseteq Range(s)
    BY ONLY <2>3 DEF Range
  <2>6. \A r \in returned' : \E t \in Range(sent') : Whole(r, t)
    BY ONLY <1>1, <1>13, <1>14, <2>2, <2>5 DEF ReassemblyInv
  <2>7. aired' = {}
    BY ONLY <1>1, <1>14, frames = 0 DEF SenderInv
  <2> QED
    BY ONLY <2>4, <2>6, <2>7
<1> QED
  BY ONLY <1>15, <1>16, <1>17, <1>18 DEF LineInv

\* Every step keeps the invariant.
LEMMA LineInvNext == LineInv /\ [LineNext]_lineVars => LineInv'
<1>1. SUFFICES ASSUME LineInv, [LineNext]_lineVars PROVE LineInv'
  OBVIOUS
<1>2. SenderInv /\ ReceiverInv /\ DecoderInv /\ ReassemblyInv
  BY ONLY <1>1 DEF LineInv
<1>3. sent \in Seq(Messages)
  BY ONLY <1>2 DEF SenderInv
<1>4. ASSUME NEW data \in Messages, send_packet(data) PROVE LineInv'
  <2>1. /\ Len(sent) < MaxMessages /\ frames = 0
        /\ sent' = Append(sent, data) /\ outbound' = Append(outbound, Packets(Len(sent'), data))
        /\ UNCHANGED <<framing, dec, receiver, aired, frames, noise, sinceNoise, silence, last, decoded>>
    BY ONLY <1>4 DEF send_packet
  <2>2. PICK n \in Nat : n = Len(sent) /\ Len(sent') = n + 1
    BY ONLY <1>3, <1>4, <2>1
  <2>3. n + 1 \in Byte
    <3>1. MaxMessages \in 0..255
      BY ONLY ByteAssumption DEF Byte
    <3>2. n < MaxMessages
      BY ONLY <2>1, <2>2
    <3>3. n + 1 \in 0..255
      BY ONLY <3>1, <3>2, n \in Nat
    <3> QED
      BY ONLY <3>3 DEF Byte
  <2>4. data \in Seq(Byte)
    BY ONLY <1>4, ByteAssumption
  <2>5. Carries(Packets(n + 1, data), n + 1, data)
    BY ONLY <2>3, <2>4, PacketsCarry
  <2>6. PICK packets : packets = Packets(n + 1, data)
    OBVIOUS
  <2>7. Carries(packets, Len(sent) + 1, data) /\ outbound' = Append(outbound, packets)
    BY ONLY <2>1, <2>2, <2>5, <2>6
  <2> QED
    BY ONLY <1>1, <1>4, <2>1, <2>7, SendStep
<1>5. ASSUME NEW data \in Messages, SendOther(data) PROVE LineInv'
  <2>1. /\ sent = <<>> /\ frames = 0 /\ Len(data) <= max_payload(Mtu)
        /\ UNCHANGED <<framing, dec, receiver, aired, frames, noise, sinceNoise, silence, last, decoded>>
    BY ONLY <1>5 DEF SendOther
  <2>2. PICK p : /\ p \in {new_announce(Destination, data), new_link_request(Destination, data),
                           new_proof(Destination, NONE, data),
                           new_transport(Destination, Destination, data),
                           decrement_ttl(new_data(Destination, data))}
                 /\ sent' = Append(sent, data) /\ outbound' = Append(outbound, <<p>>)
    BY ONLY <1>5 DEF SendOther
  <2>3. data \in Seq(Byte)
    BY ONLY <1>5, ByteAssumption
  <2>4. p \in WellFormed /\ p.context = NONE /\ p.data = data
    BY ONLY <2>2, <2>3, Constructed
  <2>5. PICK packets : packets = <<p>>
    OBVIOUS
  <2>6. Carries(packets, Len(sent) + 1, data)
    BY ONLY <2>1, <2>4, <2>5 DEF Carries, Small
  <2>7. outbound' = Append(outbound, packets)
    BY ONLY <2>2, <2>5
  <2> QED
    BY ONLY <1>1, <1>5, <2>1, <2>2, <2>6, <2>7, SendStep
<1>6. ASSUME NEW m \in DOMAIN outbound, NEW i \in DOMAIN outbound[m], Transmit(m, i) PROVE LineInv'
  BY ONLY <1>1, <1>6, TransmitStep
<1>7. ASSUME NEW m \in DOMAIN outbound, NEW i \in DOMAIN outbound[m], TransmitDamaged(m, i)
      PROVE  LineInv'
  BY ONLY <1>1, <1>7, DamagedStep
<1>8. ASSUME Silence PROVE LineInv'
  <2>1. /\ silence' = TRUE /\ last' = <<>> /\ decoded' = <<>> /\ dec' = Reset(dec)
        /\ UNCHANGED <<framing, sent, outbound, reassembly, inbound, returned, aired, frames, noise,
                       sinceNoise>>
    BY ONLY <1>8 DEF Silence, receiver
  <2>2. Reset(dec) \in DecoderType /\ (framing = "serial" => Reset(dec) = Idle)
        /\ (framing # "serial" => Reset(dec) = dec)
    <3>1. NewDecoder = Idle
      BY IdleAndOpen
    <3>2. Idle \in DecoderType
      BY DEF Idle, Decoder, DecoderType, Commands
    <3> QED
      BY ONLY <1>2, <3>1, <3>2 DEF Reset, ReceiverInv
  <2>3. SenderInv'
    <3>1. Range(last') \subseteq WellFormed
      BY ONLY <2>1 DEF Range
    <3> QED
      BY ONLY <1>2, <2>1, <3>1 DEF SenderInv
  <2>4. ReceiverInv'
    BY ONLY <1>2, <2>1, <2>2 DEF ReceiverInv, ReassemblyType
  <2>5. DecoderInv'
    BY ONLY <1>2, <2>1, <2>2 DEF DecoderInv, InStep, Clean
  <2>6. ReassemblyInv'
    BY ONLY <1>2, <2>1 DEF ReassemblyInv, Accounted
  <2> QED
    BY ONLY <2>3, <2>4, <2>5, <2>6 DEF LineInv
<1>9. ASSUME drain PROVE LineInv'
  <2>1. /\ inbound' = <<>>
        /\ UNCHANGED <<framing, sent, outbound, dec, reassembly, returned, aired, frames, noise,
                       sinceNoise, silence, last, decoded>>
    BY ONLY <1>9 DEF drain
  <2>2. SenderInv'
    BY ONLY <1>2, <2>1 DEF SenderInv
  <2>3. ReceiverInv'
    <3>1. <<>> \in Seq(ReadPackets)
      OBVIOUS
    <3> QED
      BY ONLY <1>2, <2>1, <3>1 DEF ReceiverInv, ReassemblyType
  <2>4. DecoderInv'
    BY ONLY <1>2, <2>1 DEF DecoderInv, InStep, Clean
  <2>5. ReassemblyInv'
    BY ONLY <1>2, <2>1 DEF ReassemblyInv, Accounted
  <2> QED
    BY ONLY <2>2, <2>3, <2>4, <2>5 DEF LineInv
<1>10. ASSUME clear PROVE LineInv'
  <2>1. /\ inbound' = <<>> /\ reassembly' = <<>> /\ aired' = {}
        /\ UNCHANGED <<framing, sent, outbound, dec, returned, frames, noise, sinceNoise, silence,
                       last, decoded>>
    BY ONLY <1>10 DEF clear
  <2>2. SenderInv'
    BY ONLY <1>2, <2>1 DEF SenderInv
  <2>3. ReceiverInv'
    <3>1. <<>> \in Seq(ReadPackets)
      OBVIOUS
    <3>2. ReassemblyType(reassembly')
      BY ONLY <2>1 DEF ReassemblyType
    <3> QED
      BY ONLY <1>2, <2>1, <3>1, <3>2 DEF ReceiverInv, ReassemblyType
  <2>4. DecoderInv'
    BY ONLY <1>2, <2>1 DEF DecoderInv, InStep, Clean
  <2>5. ReassemblyInv'
    BY ONLY <1>2, <2>1 DEF ReassemblyInv
  <2> QED
    BY ONLY <2>2, <2>3, <2>4, <2>5 DEF LineInv
<1>11. ASSUME UNCHANGED lineVars PROVE LineInv'
  <2>1. UNCHANGED <<framing, sent, outbound, dec, reassembly, inbound, returned, aired, frames, noise,
                    sinceNoise, silence, last, decoded>>
    BY ONLY <1>11 DEF lineVars
  <2>2. SenderInv'
    BY ONLY <1>2, <2>1 DEF SenderInv
  <2>3. ReceiverInv'
    BY ONLY <1>2, <2>1 DEF ReceiverInv, ReassemblyType
  <2>4. DecoderInv'
    BY ONLY <1>2, <2>1 DEF DecoderInv, InStep, Clean
  <2>5. ReassemblyInv'
    BY ONLY <1>2, <2>1 DEF ReassemblyInv, Accounted
  <2> QED
    BY ONLY <2>2, <2>3, <2>4, <2>5 DEF LineInv
<1> QED
  BY ONLY <1>1, <1>4, <1>5, <1>6, <1>7, <1>8, <1>9, <1>10, <1>11 DEF LineNext

\* The invariant holds in every reachable state.
THEOREM LineInvariant == LineSpec => []LineInv
<1>1. LineInit => LineInv
  BY LineInvInit
<1>2. LineInv /\ [LineNext]_lineVars => LineInv'
  BY LineInvNext
<1> QED
  BY <1>1, <1>2, PTL DEF LineSpec

\* Every packet that send_packet puts into outbound fits the MTU, whatever the MTU, the hash length
\* and the message: max_payload keeps room for the long header, and the fragment header fits there.
THEOREM PacketsFitMtu == LineSpec => []FitsMtu
<1>1. LineInv => FitsMtu
  <2>1. SUFFICES ASSUME LineInv, NEW m \in DOMAIN outbound, NEW i \in DOMAIN outbound[m]
                 PROVE  Len(to_bytes(outbound[m][i])) <= Mtu
    BY DEF FitsMtu
  <2>2. SenderInv
    BY ONLY <2>1 DEF LineInv
  <2> QED
    BY ONLY <2>2, m \in DOMAIN outbound, i \in DOMAIN outbound[m], PacketOf
<1> QED
  BY <1>1, LineInvariant, PTL

\* On a line that was never damaged every frame is read as the packet that was sent, in every framing
\* and whatever bytes the packet contains; hdlc_decode reads the same packet from a whole buffer.
THEOREM FramesReadBack == LineSpec => []CleanFramesDecoded
<1>1. LineInv => CleanFramesDecoded
  <2>1. SUFFICES ASSUME LineInv PROVE CleanFramesDecoded
    OBVIOUS
  <2>2. SenderInv /\ DecoderInv
    BY ONLY <2>1 DEF LineInv
  <2>3. noise = 0 => decoded = last
    BY ONLY <2>2 DEF DecoderInv, InStep
  <2>4. ASSUME NEW p \in Range(last) PROVE hdlc_decode(encode("serial", to_bytes(p))) = <<to_bytes(p)>>
    <3>1. p \in WellFormed
      BY ONLY <2>2, <2>4 DEF SenderInv
    <3>2. to_bytes(p) \in Seq(Byte)
      BY ONLY <3>1, NeverEmpty
    <3> QED
      BY ONLY <3>2, BufferDecodes
  <2> QED
    BY ONLY <2>3, <2>4 DEF CleanFramesDecoded
<1> QED
  BY <1>1, LineInvariant, PTL

\* After damage the decoder of hdlc.rs is in step again with the second frame, and the one of
\* serial.rs with the first frame after a silent line, whatever the damage was.
THEOREM DecoderResynchronises == LineSpec => []Resynchronises
<1>1. LineInv => Resynchronises
  BY DEF LineInv, DecoderInv, InStep, Resynchronises
<1> QED
  BY <1>1, LineInvariant, PTL

\* The state has its type, and on a line that was never damaged only what was sent is returned.
THEOREM OnlyWholeMessages == LineSpec => []WholeMessages
<1>1. LineInv => LineTypeOK
  <2>1. SUFFICES ASSUME LineInv PROVE LineTypeOK
    OBVIOUS
  <2>2. SenderInv /\ ReceiverInv
    BY ONLY <2>1 DEF LineInv
  <2>3. framing \in Framings /\ DOMAIN outbound = DOMAIN sent
    BY ONLY <2>2 DEF SenderInv
  <2>4. \A s : s \in Seq(Byte) => Bytes(s)
    BY DEF Bytes
  <2>5. /\ dec.in_frame \in BOOLEAN /\ dec.escape \in BOOLEAN /\ dec.buf \in Seq(Byte)
        /\ dec.command \in Byte \cup {NoCommand}
    BY ONLY <2>2 DEF ReceiverInv, DecoderType, Commands
  <2>6. \A id \in DOMAIN reassembly : \A i \in DOMAIN reassembly[id].fragments :
           id \in Byte /\ i \in Byte /\ reassembly[id].fragments[i] \in Seq(Byte)
    BY ONLY <2>2 DEF ReceiverInv, ReassemblyType, FragmentMap
  <2>7. \A p \in Range(inbound) : p.data \in Seq(Byte)
    <3>1. Range(inbound) \subseteq ReadPackets
      BY ONLY <2>2 DEF ReceiverInv, Range
    <3> QED
      BY ONLY <3>1 DEF ReadPackets
  <2>8. frames \in 0..MaxFrames /\ noise \in 0..MaxNoise
    BY ONLY <2>2 DEF ReceiverInv
  <2> QED
    BY ONLY <2>3, <2>4, <2>5, <2>6, <2>7, <2>8 DEF LineTypeOK
<1>2. LineInv => (noise = 0 => \A r \in returned : \E s \in Range(sent) : Whole(r, s))
  BY DEF LineInv, ReassemblyInv
<1>3. LineInv => WholeMessages
  BY ONLY <1>1, <1>2 DEF WholeMessages, Whole
<1> QED
  BY <1>3, LineInvariant, PTL

\* A message of no more fragments than u16 counts is returned once all its packets arrived, in
\* whatever order and with whatever else between them.
THEOREM MessagesReassemble == LineSpec => []Reassembles
<1>1. LineInv => Reassembles
  <2>1. SUFFICES ASSUME LineInv, noise = 0, NEW m \in DOMAIN outbound, ~Long(sent[m]),
                        \A i \in DOMAIN outbound[m] : <<m, i>> \in aired, sent[m] \notin returned
                 PROVE  FALSE
    BY DEF Reassembles
  <2>2. SenderInv /\ ReassemblyInv
    BY ONLY <2>1 DEF LineInv
  <2>3. PICK s : s = sent[m]
    OBVIOUS
  <2>4. m \in DOMAIN sent /\ Carries(outbound[m], m, s) /\ s \in Seq(Byte)
    BY ONLY <2>1, <2>2, <2>3, ByteAssumption DEF SenderInv
  <2>5. ASSUME NEW i \in DOMAIN outbound[m]
        PROVE  ~Small(s) /\ m \in DOMAIN reassembly /\ (i - 1) \in DOMAIN reassembly[m].fragments
    <3>1. Accounted(m, i)
      BY ONLY <2>1, <2>2, <2>4, <2>5 DEF ReassemblyInv
    <3> QED
      BY ONLY <2>1, <2>3, <3>1 DEF Accounted
  <2>6. CASE Small(s)
    <3>1. 1 \in DOMAIN outbound[m]
      <4>1. PICK p : outbound[m] = <<p>>
        BY ONLY <2>4, <2>6 DEF Carries
      <4> QED
        BY ONLY <4>1
    <3> QED
      BY ONLY <2>5, <2>6, <3>1
  <2>7. CASE ~Small(s)
    <3>1. DOMAIN outbound[m] = 1..FragmentCount(s)
      <4>1. outbound[m] = [i \in 1..FragmentCount(s) |-> Fragment(m, s, i)]
        BY ONLY <2>4, <2>7, FragmentsOf DEF Carries
      <4> QED
        BY ONLY <4>1
    <3>2. PICK q \in Nat : q = FragmentCount(s) /\ q >= 1
      BY ONLY <2>4, <2>7, CutMessage
    <3>3. m \in DOMAIN reassembly
      <4>1. 1 \in 1..q
        BY ONLY <3>2
      <4> QED
        BY ONLY <2>5, <3>1, <3>2, <4>1
    <3>4. ASSUME NEW j \in 0..(q - 1) PROVE j \in DOMAIN reassembly[m].fragments
      <4>1. PICK i : i = j + 1
        OBVIOUS
      <4>2. i \in 1..q /\ i - 1 = j
        BY ONLY <3>2, <3>4, <4>1
      <4> QED
        BY ONLY <2>5, <3>1, <3>2, <4>2
    <3>5. Pieces(reassembly[m], s)
      BY ONLY <2>1, <2>2, <2>3, <3>3 DEF ReassemblyInv
    <3> QED
      BY ONLY <2>1, <2>3, <3>2, <3>4, <3>5 DEF Pieces
  <2> QED
    BY ONLY <2>6, <2>7
<1> QED
  BY <1>1, LineInvariant, PTL

-----------------------------------------------------------------------------
(* Interfaces *)

Handles == {"none", "fixed", "other"}

\* The types of what the invariants are about.
StateTypes ==
    /\ kind \in Kinds /\ online \in BOOLEAN /\ session \in 0..MaxStarts /\ lost \in BOOLEAN
    /\ online => session > 0
    /\ awaiting \in BOOLEAN /\ (awaiting => online /\ kind # "serial")
    /\ conn \in [Conns -> {"none", "open", "eof", "closed"}]
    /\ task \in [Conns -> {"none", "running", "ended"}]
    /\ stop \in [Conns -> BOOLEAN]
    /\ guard \in Handles /\ speed \in Handles /\ late \in BOOLEAN
    /\ thread \in [Sessions -> Places]
    /\ port \in [Sessions -> Handles]
    /\ told \in [Sessions -> BOOLEAN]

\* A thread outside of its inner loop holds no handle; one that is left from an earlier session, or
\* after a shutdown, was told to stop, and nobody else was; and the mutex of an interface that is
\* not online is empty, unless such a thread stored a handle in it.
ThreadsInv ==
    /\ guard # "none" => kind = "serial" /\ (online \/ late)
    /\ \A s \in Sessions :
          /\ thread[s] \in {"none", "outer", "checked", "reconnecting", "ended"} => port[s] = "none"
          /\ thread[s] # "none" => /\ kind = "serial" /\ s <= session
                                   /\ s < session \/ ~online => told[s]
          /\ told[s] => s < session \/ ~online
          /\ told[s] => kind = "serial" /\ s <= session
          /\ thread[s] = "ended" => s < session \/ ~online

\* A client's task ends because it was told to, which shutdown does, or because the connection
\* did, and receive reports the loss only after the task or the accept task ended.
TasksInv ==
    /\ kind = "serial" => ~lost
    /\ kind = "tcp_server" /\ lost /\ online => accept = "ended"
    /\ kind = "tcp_client" =>
          /\ \A c \in Conns :
                /\ task[c] # "none" => c <= session
                /\ stop[c] => c <= session /\ (c < session \/ awaiting \/ ~online)
                /\ task[c] = "ended" => c < session \/ stop[c] \/ conn[c] \in {"eof", "closed"}
                /\ conn[c] = "closed" => c < session \/ ~online
                /\ conn[c] # "none" => c <= session
          /\ lost /\ online => task[session] = "ended"

InterfacesInv == StateTypes /\ ThreadsInv /\ TasksInv

-----------------------------------------------------------------------------
(* The serial interface *)

\* Steps of the serial interface leave the TCP tasks alone and report no loss.
LEMMA SerialKeepsTasks ==
    ASSUME InterfacesInv, SerialNext, UNCHANGED tcp
    PROVE  TasksInv'
<1>1. kind = "serial" /\ kind' = "serial"
  <2>1. ASSUME NEW s \in Sessions, ThreadStep(s) PROVE kind = "serial" /\ kind' = "serial"
    <3>1. thread[s] # "none"
      BY <2>1 DEF ThreadStep, OuterCheck, TakePort, Reopen, StorePort, InnerCheck, ReadByte, ReadNoise,
                  ReadTimesOut, ReadFails, SendFrame
    <3>2. kind' = kind
      BY <2>1 DEF ThreadStep, OuterCheck, TakePort, Reopen, StorePort, InnerCheck, ReadByte, ReadNoise,
                  ReadTimesOut, ReadFails, SendFrame, object, Enqueue
    <3> QED
      BY <3>1, <3>2 DEF InterfacesInv, ThreadsInv
  <2> QED
    BY <2>1 DEF SerialNext, SerialStart, SerialShutdown, SerialReceive, SerialSend, PeerTransmits,
                Started, Stopped, ReceiveFrame, ReceiveLost, Written, object
<1>2. lost' = FALSE
  <2>1. lost = FALSE
    BY <1>1 DEF InterfacesInv, TasksInv, StateTypes
  <2>2. ASSUME NEW s \in Sessions, ThreadStep(s) PROVE lost' = lost
    BY <2>2 DEF ThreadStep, OuterCheck, TakePort, Reopen, StorePort, InnerCheck, ReadByte, ReadNoise,
                ReadTimesOut, ReadFails, SendFrame, object, Enqueue
  <2>3. ASSUME SerialReceive PROVE lost' = lost
    <3>1. CASE ReceiveFrame
      BY <3>1 DEF ReceiveFrame
    <3>2. CASE ReceiveLost(thread[session] = "ended")
      <4>1. online /\ thread[session] = "ended"
        BY <3>2 DEF ReceiveLost
      <4>2. session \in Sessions
        BY <4>1 DEF InterfacesInv, StateTypes, Sessions
      <4> QED
        BY <4>1, <4>2 DEF InterfacesInv, ThreadsInv, StateTypes
    <3> QED
      BY <2>3, <3>1, <3>2 DEF SerialReceive
  <2> QED
    BY <2>1, <2>2, <2>3 DEF SerialNext, SerialStart, SerialShutdown, SerialSend, PeerTransmits,
                Started, Stopped, Written, object
<1> QED
  BY <1>1, <1>2 DEF TasksInv

\* The steps of a thread keep the types and the invariant of the threads.
LEMMA ThreadStepKeeps ==
    ASSUME InterfacesInv, NEW s \in Sessions, ThreadStep(s), UNCHANGED tcp
    PROVE  StateTypes' /\ ThreadsInv'
<1>0. /\ StateTypes /\ ThreadsInv
      /\ s \in Nat /\ session \in Nat
  BY DEF InterfacesInv, StateTypes, Sessions
<1>1. UNCHANGED <<awaiting, conn, task, stop>>
  BY DEF tcp
<1>2. UNCHANGED <<kind, online, session, lost>>
  BY DEF ThreadStep, OuterCheck, TakePort, Reopen, StorePort, InnerCheck, ReadByte, ReadNoise,
         ReadTimesOut, ReadFails, SendFrame, object, Enqueue
<1>3. UNCHANGED <<told, speed>>
  BY DEF ThreadStep, OuterCheck, TakePort, Reopen, StorePort, InnerCheck, ReadByte, ReadNoise,
         ReadTimesOut, ReadFails, SendFrame
<1>4. kind = "serial" /\ s <= session /\ (s < session \/ ~online => told[s])
  <2>1. thread[s] # "none"
    BY DEF ThreadStep, OuterCheck, TakePort, Reopen, StorePort, InnerCheck, ReadByte, ReadNoise,
           ReadTimesOut, ReadFails, SendFrame
  <2> QED
    BY <1>0, <2>1 DEF ThreadsInv
<1>5. SUFFICES ASSUME NEW place \in Places, NEW handle \in Handles,
                      thread' = [thread EXCEPT ![s] = place],
                      port' = [port EXCEPT ![s] = handle],
                      place # "none",
                      place \in {"outer", "checked", "reconnecting", "ended"} => handle = "none",
                      place = "ended" => s < session \/ ~online,
                      guard' \in Handles, late' \in BOOLEAN, late => late',
                      guard' # "none" => online \/ late'
               PROVE  StateTypes' /\ ThreadsInv'
  <2>0. thread \in [Sessions -> Places] /\ port \in [Sessions -> Handles] /\ guard \in Handles
    BY <1>0 DEF StateTypes
  <2>guard. guard # "none" => online \/ late
    BY <1>0 DEF ThreadsInv
  <2>own. port = [port EXCEPT ![s] = port[s]] /\ port[s] \in Handles
    BY <2>0
  <2>empty. thread[s] \in {"outer", "checked", "reconnecting"} => port[s] = "none"
    BY <1>0 DEF ThreadsInv
  <2>told. told[s] => s < session \/ ~online
    BY <1>0 DEF ThreadsInv
  <2>flags. late \in BOOLEAN /\ told[s] \in BOOLEAN
    BY <1>0 DEF StateTypes
  <2>1. CASE OuterCheck(s)
    <3> DEFINE place == IF told[s] THEN "ended" ELSE "checked"
    <3>1. /\ place \in Places /\ place # "none" /\ (place = "ended" => told[s])
          /\ thread' = [thread EXCEPT ![s] = place]
      BY <2>1 DEF OuterCheck, Goes, Places
    <3>2. port[s] = "none" /\ port' = [port EXCEPT ![s] = "none"]
      BY <2>1, <2>own, <2>empty DEF OuterCheck
    <3>3. guard' = guard /\ late' = late
      BY <2>1 DEF OuterCheck
    <3> HIDE DEF place
    <3> QED
      BY <1>5, <2>0, <2>guard, <2>told, <2>flags, <3>1, <3>2, <3>3 DEF Handles
  <2>2. CASE TakePort(s)
    <3> DEFINE place == IF guard = "none" THEN "reconnecting" ELSE "inner"
    <3>1. /\ place \in Places /\ place # "none" /\ place # "ended"
          /\ place \in {"outer", "checked", "reconnecting", "ended"} => guard = "none"
          /\ thread' = [thread EXCEPT ![s] = place]
      BY <2>2 DEF TakePort, Goes, Places
    <3>2. port' = [port EXCEPT ![s] = guard] /\ guard' = "none"
      BY <2>2 DEF TakePort
    <3>3. late' \in BOOLEAN /\ (late => late')
      BY <2>2 DEF TakePort
    <3> HIDE DEF place
    <3> QED
      BY <1>5, <2>0, <3>1, <3>2, <3>3 DEF Handles
  <2>3. CASE Reopen(s)
    <3>1. CASE /\ port' = [port EXCEPT ![s] = "fixed"] /\ late' = (late \/ told[s])
               /\ Goes(s, "opened")
      BY <1>5, <2>0, <2>guard, <2>flags, <2>3, <3>1 DEF Reopen, Goes, Places, Handles
    <3>2. CASE Goes(s, "outer") /\ UNCHANGED <<port, late>>
      <4>1. port[s] = "none" /\ port' = [port EXCEPT ![s] = "none"]
        BY <2>3, <2>own, <2>empty, <3>2 DEF Reopen
      <4> QED
        BY <1>5, <2>0, <2>guard, <2>flags, <2>3, <3>2, <4>1 DEF Reopen, Goes, Places, Handles
    <3> QED
      BY <2>3, <3>1, <3>2 DEF Reopen
  <2>4. CASE StorePort(s)
    <3>1. /\ guard' = port[s] /\ port' = [port EXCEPT ![s] = "none"] /\ late' = (late \/ told[s])
          /\ thread' = [thread EXCEPT ![s] = "outer"]
      BY <2>4 DEF StorePort, Goes
    <3>2. online \/ late'
      BY <1>0, <1>4, <2>flags, <3>1 DEF StateTypes
    <3> QED
      BY <1>5, <2>own, <2>flags, <3>1, <3>2 DEF Places, Handles
  <2>5. CASE InnerCheck(s)
    <3>1. CASE told[s] /\ Goes(s, "ended") /\ DropPort(s)
      BY <1>5, <2>told, <2>flags, <2>5, <3>1 DEF InnerCheck, Goes, DropPort, Places, Handles
    <3>2. CASE Goes(s, "polling") /\ UNCHANGED <<port, guard>>
      BY <1>5, <2>0, <2>guard, <2>own, <2>flags, <2>5, <3>2 DEF InnerCheck, Goes, Places
    <3> QED
      BY <2>5, <3>1, <3>2 DEF InnerCheck
  <2>6. CASE ReadByte(s) \/ ReadNoise(s)
    <3>1. /\ \E place \in {"inner", "sending"} : thread' = [thread EXCEPT ![s] = place]
          /\ UNCHANGED <<guard, port, late>>
      BY <2>6 DEF ReadByte, ReadNoise, Decoded, Goes
    <3> QED
      BY <1>5, <2>0, <2>guard, <2>own, <2>flags, <3>1 DEF Places
  <2>7. CASE ReadTimesOut(s)
    BY <1>5, <2>0, <2>guard, <2>own, <2>flags, <2>7 DEF ReadTimesOut, Goes, Places
  <2>8. CASE ReadFails(s)
    BY <1>5, <2>flags, <2>8 DEF ReadFails, Goes, DropPort, Places, Handles
  <2>9. CASE SendFrame(s)
    <3>1. CASE Goes(s, "inner") /\ UNCHANGED <<port, guard>>
      BY <1>5, <2>0, <2>guard, <2>own, <2>flags, <2>9, <3>1 DEF SendFrame, Goes, Places
    <3>2. CASE s # session /\ DropPort(s) /\ Goes(s, "ended")
      <4>1. s < session
        BY <1>0, <1>4, <3>2
      <4> QED
        BY <1>5, <2>flags, <2>9, <3>2, <4>1 DEF SendFrame, Goes, DropPort, Places, Handles
    <3> QED
      BY <2>9, <3>1, <3>2 DEF SendFrame
  <2> QED
    BY <2>1, <2>2, <2>3, <2>4, <2>5, <2>6, <2>7, <2>8, <2>9 DEF ThreadStep
<1>6. StateTypes'
  BY <1>0, <1>1, <1>2, <1>3, <1>5 DEF StateTypes
<1>7. ThreadsInv'
  <2>1. ASSUME NEW t \in Sessions
        PROVE  /\ thread'[t] \in {"none", "outer", "checked", "reconnecting", "ended"} => port'[t] = "none"
               /\ thread'[t] # "none" => /\ kind = "serial" /\ t <= session
                                         /\ t < session \/ ~online => told[t]
               /\ thread'[t] = "ended" => t < session \/ ~online
    <3>1. CASE t = s
      <4>1. thread'[t] = place /\ port'[t] = handle
        BY <1>0, <1>5, <3>1 DEF StateTypes
      <4> QED
        BY <1>4, <1>5, <3>1, <4>1
    <3>2. CASE t # s
      <4>1. thread'[t] = thread[t] /\ port'[t] = port[t]
        BY <1>0, <1>5, <3>2 DEF StateTypes
      <4> QED
        BY <1>0, <4>1 DEF ThreadsInv
    <3> QED
      BY <3>1, <3>2
  <2>2. guard' # "none" => kind' = "serial" /\ (online' \/ late')
    BY <1>2, <1>4, <1>5
  <2> QED
    BY <1>0, <1>2, <1>3, <2>1, <2>2 DEF ThreadsInv
<1> QED
  BY <1>6, <1>7

\* Every step of the serial interface keeps the types and the invariant of the threads.
LEMMA SerialKeepsThreads ==
    ASSUME InterfacesInv, SerialNext, UNCHANGED tcp
    PROVE  StateTypes' /\ ThreadsInv'
<1>0. StateTypes /\ ThreadsInv /\ session \in Nat
  BY DEF InterfacesInv, StateTypes
<1>1. UNCHANGED <<awaiting, conn, task, stop>>
  BY DEF tcp
<1>2. CASE SerialStart
  <2>1. /\ kind = "serial" /\ ~online /\ session < MaxStarts
        /\ online' = TRUE /\ session' = session + 1 /\ lost' = FALSE /\ kind' = kind
        /\ guard' = speed /\ thread' = [thread EXCEPT ![session + 1] = "outer"]
        /\ UNCHANGED <<port, told, late, speed>>
    BY <1>2 DEF SerialStart, Started, Goes
  <2>2. guard = "none" /\ \A s \in Sessions : port[s] = "none"
    BY <1>2 DEF SerialStart, DeviceFree
  <2>3. session + 1 \in Sessions /\ session + 1 \in 0..MaxStarts /\ session + 1 > 0 /\ ~awaiting
    BY <1>0, <2>1, BoundAssumption DEF Sessions, StateTypes
  <2>4. StateTypes'
    <3>1. thread' \in [Sessions -> Places]
      BY <1>0, <2>1 DEF StateTypes, Places
    <3> QED
      BY <1>0, <1>1, <2>1, <2>3, <3>1 DEF StateTypes, Handles
  <2>5. ASSUME NEW t \in Sessions
        PROVE  /\ thread'[t] \in {"none", "outer", "checked", "reconnecting", "ended"} => port'[t] = "none"
               /\ thread'[t] # "none" => /\ kind' = "serial" /\ t <= session'
                                         /\ t < session' \/ ~online' => told'[t]
               /\ told'[t] => t < session' \/ ~online'
               /\ told'[t] => kind' = "serial" /\ t <= session'
               /\ thread'[t] = "ended" => t < session' \/ ~online'
    <3>0. t \in Nat
      BY DEF Sessions
    <3>1. CASE t = session + 1
      <4>1. thread'[t] = "outer" /\ ~told[t]
        BY <1>0, <2>1, <2>3, <3>1 DEF StateTypes, ThreadsInv
      <4> QED
        BY <1>0, <2>1, <2>2, <3>1, <4>1
    <3>2. CASE t # session + 1
      <4>1. thread'[t] = thread[t]
        BY <1>0, <2>1, <3>2 DEF StateTypes
      <4>2. thread[t] # "none" => t <= session /\ told[t]
        BY <1>0, <2>1 DEF ThreadsInv
      <4>3. told[t] => t <= session
        BY <1>0 DEF ThreadsInv
      <4> QED
        BY <1>0, <2>1, <2>2, <3>0, <4>1, <4>2, <4>3
    <3> QED
      BY <3>1, <3>2
  <2>6. guard' # "none" => kind' = "serial" /\ (online' \/ late')
    BY <2>1
  <2> QED
    BY <2>4, <2>5, <2>6 DEF ThreadsInv
<1>3. CASE SerialShutdown
  <2>1. /\ kind = "serial" /\ online /\ online' = FALSE /\ guard' = "none"
        /\ told' = [told EXCEPT ![session] = TRUE]
        /\ UNCHANGED <<kind, session, lost, thread, port, late, speed>>
    BY <1>3 DEF SerialShutdown, Stopped
  <2>2. session \in Sessions /\ ~awaiting
    BY <1>0, <2>1 DEF StateTypes, Sessions
  <2>3. StateTypes'
    BY <1>0, <1>1, <2>1, <2>2 DEF StateTypes, Handles
  <2>4. ASSUME NEW t \in Sessions
        PROVE  /\ thread'[t] # "none" => /\ kind' = "serial" /\ t <= session'
                                         /\ t < session' \/ ~online' => told'[t]
               /\ told'[t] => kind' = "serial" /\ t <= session'
    <3>0. t \in Nat
      BY DEF Sessions
    <3>1. CASE t = session
      <4>1. told'[t]
        BY <1>0, <2>1, <2>2, <3>1 DEF StateTypes
      <4> QED
        BY <1>0, <2>1, <3>1, <4>1
    <3>2. CASE t # session
      <4>1. told'[t] = told[t]
        BY <1>0, <2>1, <3>2 DEF StateTypes
      <4>2. /\ thread[t] # "none" => t <= session /\ (t < session => told[t])
            /\ told[t] => t <= session
        BY <1>0 DEF ThreadsInv
      <4>3. thread[t] # "none" => t < session
        BY <1>0, <3>0, <3>2, <4>2
      <4> QED
        BY <2>1, <4>1, <4>2, <4>3
    <3> QED
      BY <3>1, <3>2
  <2>5. \A t \in Sessions : thread'[t] \in {"none", "outer", "checked", "reconnecting", "ended"}
                               => port'[t] = "none"
    BY <1>0, <2>1 DEF ThreadsInv
  <2> QED
    BY <2>1, <2>3, <2>4, <2>5 DEF ThreadsInv
<1>4. CASE SerialReceive \/ SerialSend \/ PeerTransmits
  <2>1. /\ UNCHANGED <<kind, online, session, speed, guard, thread, port, told, late>>
        /\ lost' \in BOOLEAN
    BY <1>0, <1>4 DEF SerialReceive, SerialSend, PeerTransmits, ReceiveFrame, ReceiveLost, Written,
                object, serial, StateTypes
  <2>2. StateTypes'
    BY <1>0, <1>1, <2>1 DEF StateTypes
  <2>3. ThreadsInv'
    BY <1>0, <2>1 DEF ThreadsInv
  <2> QED
    BY <2>2, <2>3
<1> QED
  BY <1>2, <1>3, <1>4, ThreadStepKeeps DEF SerialNext

-----------------------------------------------------------------------------
(* The TCP interfaces *)

\* Steps of the TCP interfaces leave the threads of a serial interface alone.
LEMMA TcpKeepsThreads ==
    ASSUME InterfacesInv, TcpNext, UNCHANGED serial
    PROVE  ThreadsInv'
<1>0. StateTypes /\ ThreadsInv
  BY DEF InterfacesInv
<1>1. UNCHANGED <<speed, guard, thread, port, told, late>>
  BY DEF serial
<1>2. UNCHANGED <<kind, online, session>> \/ kind # "serial"
  BY DEF TcpNext, ClientStart, ClientShutdown, ClientShutdownEnds, ClientSend, ServerStart,
         ServerShutdown, ServerShutdownEnds, AcceptLoopStops, AcceptFails, AcceptLoopBreaks,
         AcceptLoopJoins, TcpReceive, ServerAccepts, ReadLoop, PeerWrites, PeerCloses, LoopStops,
         LoopReads, LoopPushes, LoopDisconnects, Ended, Enqueue, object
<1>3. CASE kind # "serial"
  <2>1. guard = "none" /\ \A s \in Sessions : thread[s] = "none" /\ ~told[s]
    BY <1>0, <1>3 DEF ThreadsInv
  <2>2. \A s \in Sessions : port[s] = "none"
    BY <1>0, <2>1 DEF ThreadsInv
  <2> QED
    BY <1>1, <2>1, <2>2 DEF ThreadsInv
<1>4. CASE UNCHANGED <<kind, online, session>>
  BY <1>0, <1>1, <1>4 DEF ThreadsInv
<1> QED
  BY <1>2, <1>3, <1>4

\* start, and what it leaves: a new session that has no task, no connection and no signal yet.
LEMMA ClientStartKeeps ==
    ASSUME InterfacesInv, ClientStart, UNCHANGED serial
    PROVE  StateTypes' /\ TasksInv'
<1>0. StateTypes /\ TasksInv /\ session \in Nat
  BY DEF InterfacesInv, StateTypes
<1>1. UNCHANGED <<speed, guard, thread, port, told, late>>
  BY DEF serial
<1>2. /\ kind = "tcp_client" /\ ~online /\ session < MaxStarts
      /\ online' = TRUE /\ session' = session + 1 /\ lost' = FALSE /\ kind' = kind
      /\ conn' = [conn EXCEPT ![session + 1] = "open"]
      /\ task' = [task EXCEPT ![session + 1] = "running"]
      /\ UNCHANGED <<awaiting, accept, stop>>
  BY DEF ClientStart, Started
<1>3. session + 1 \in Conns /\ session + 1 \in 0..MaxStarts /\ session + 1 > 0 /\ ~awaiting
  BY <1>0, <1>2, BoundAssumption, ConnAssumption DEF StateTypes, Conns
<1>4. StateTypes'
  <2>1. conn' \in [Conns -> {"none", "open", "eof", "closed"}]
    BY <1>0, <1>2 DEF StateTypes
  <2>2. task' \in [Conns -> {"none", "running", "ended"}]
    BY <1>0, <1>2 DEF StateTypes
  <2> QED
    BY <1>0, <1>1, <1>2, <1>3, <2>1, <2>2 DEF StateTypes
<1>5. ASSUME NEW c \in Conns
      PROVE  /\ task'[c] # "none" => c <= session'
             /\ stop'[c] => c <= session' /\ (c < session' \/ awaiting' \/ ~online')
             /\ task'[c] = "ended" => c < session' \/ stop'[c] \/ conn'[c] \in {"eof", "closed"}
             /\ conn'[c] = "closed" => c < session' \/ ~online'
             /\ conn'[c] # "none" => c <= session'
  <2>0. c \in Nat
    BY DEF Conns
  <2>1. stop[c] => c <= session
    BY <1>0, <1>2 DEF TasksInv
  <2>2. CASE c = session + 1
    <3>1. task'[c] = "running" /\ conn'[c] = "open"
      BY <1>0, <1>2, <2>2 DEF StateTypes
    <3> QED
      BY <1>0, <1>2, <2>0, <2>1, <2>2, <3>1
  <2>3. CASE c # session + 1
    <3>1. task'[c] = task[c] /\ conn'[c] = conn[c]
      BY <1>0, <1>2, <2>3 DEF StateTypes
    <3>2. (task[c] # "none" => c <= session) /\ (conn[c] # "none" => c <= session)
      BY <1>0, <1>2 DEF TasksInv
    <3> QED
      BY <1>0, <1>2, <2>0, <2>1, <3>1, <3>2
  <2> QED
    BY <2>2, <2>3
<1> QED
  BY <1>2, <1>4, <1>5 DEF TasksInv

\* shutdown of a client: the signal, and after the task has ended the rest.
LEMMA ClientShutdownKeeps ==
    ASSUME InterfacesInv, ClientShutdown \/ ClientShutdownEnds, UNCHANGED serial
    PROVE  StateTypes' /\ TasksInv'
<1>0. StateTypes /\ TasksInv /\ session \in Nat
  BY DEF InterfacesInv, StateTypes
<1>1. UNCHANGED <<speed, guard, thread, port, told, late>>
  BY DEF serial
<1>2. kind = "tcp_client" /\ online /\ session \in Conns
  BY <1>0, BoundAssumption, ConnAssumption DEF ClientShutdown, ClientShutdownEnds, StateTypes, Conns
<1>3. CASE ClientShutdown
  <2>1. /\ awaiting' = TRUE /\ stop' = [stop EXCEPT ![session] = TRUE]
        /\ UNCHANGED <<kind, online, session, lost, accept, conn, task>>
    BY <1>3 DEF ClientShutdown, object
  <2>2. StateTypes'
    BY <1>0, <1>1, <1>2, <2>1 DEF StateTypes
  <2>3. \A c \in Conns : stop'[c] => stop[c] \/ c = session
    BY <1>0, <2>1 DEF StateTypes
  <2>4. \A c \in Conns : stop[c] => stop'[c]
    BY <1>0, <2>1 DEF StateTypes
  <2>5. \A c \in Conns : stop'[c] => c <= session'
    BY <1>0, <1>2, <2>1, <2>3 DEF TasksInv
  <2> QED
    BY <1>0, <1>2, <2>1, <2>2, <2>4, <2>5 DEF TasksInv
<1>4. CASE ClientShutdownEnds
  <2>1. /\ awaiting' = FALSE /\ online' = FALSE
        /\ conn' = [conn EXCEPT ![session] = "closed"]
        /\ UNCHANGED <<kind, session, lost, accept, task, stop>>
    BY <1>4 DEF ClientShutdownEnds, Stopped
  <2>2. StateTypes'
    BY <1>0, <1>1, <1>2, <2>1 DEF StateTypes
  <2>3. \A c \in Conns : c # session => conn'[c] = conn[c]
    BY <1>0, <2>1 DEF StateTypes
  <2>4. conn'[session] = "closed"
    BY <1>0, <1>2, <2>1 DEF StateTypes
  <2>5. ASSUME NEW c \in Conns
        PROVE  /\ task'[c] # "none" => c <= session'
               /\ stop'[c] => c <= session'
               /\ task'[c] = "ended" => c < session' \/ stop'[c] \/ conn'[c] \in {"eof", "closed"}
               /\ conn'[c] # "none" => c <= session'
    <3>1. CASE c = session
      BY <1>0, <2>1, <2>4, <3>1
    <3>2. CASE c # session
      BY <1>0, <1>2, <2>1, <2>3, <3>2 DEF TasksInv
    <3> QED
      BY <3>1, <3>2
  <2> QED
    BY <1>2, <2>1, <2>2, <2>5 DEF TasksInv
<1> QED
  BY <1>3, <1>4

\* start, shutdown and the accept task of a server.
LEMMA ServerKeeps ==
    ASSUME InterfacesInv, UNCHANGED serial,
           \/ ServerStart \/ ServerShutdown \/ ServerShutdownEnds
           \/ AcceptLoopStops \/ AcceptFails \/ AcceptLoopJoins
    PROVE  StateTypes' /\ TasksInv'
<1>0. StateTypes /\ TasksInv /\ session \in Nat
  BY DEF InterfacesInv, StateTypes
<1>1. UNCHANGED <<speed, guard, thread, port, told, late>>
  BY DEF serial
<1>2. CASE ServerStart
  <2>1. /\ kind = "tcp_server" /\ ~online /\ session < MaxStarts
        /\ online' = TRUE /\ session' = session + 1 /\ lost' = FALSE /\ kind' = kind
        /\ UNCHANGED <<awaiting, conn, task, stop>>
    BY <1>2 DEF ServerStart, Started
  <2>2. session + 1 \in 0..MaxStarts /\ session + 1 > 0 /\ ~awaiting
    BY <1>0, <2>1, BoundAssumption DEF StateTypes
  <2> QED
    BY <1>0, <1>1, <2>1, <2>2 DEF StateTypes, TasksInv
<1>3. CASE ServerShutdown
  <2>1. /\ kind = "tcp_server" /\ online /\ awaiting' = TRUE
        /\ UNCHANGED <<kind, online, session, lost, accept, conn, task, stop>>
    BY <1>3 DEF ServerShutdown, object
  <2> QED
    BY <1>0, <1>1, <2>1 DEF StateTypes, TasksInv
<1>4. CASE ServerShutdownEnds
  <2>1. /\ kind = "tcp_server" /\ awaiting' = FALSE /\ online' = FALSE
        /\ UNCHANGED <<kind, session, lost, accept, conn, task, stop>>
    BY <1>4 DEF ServerShutdownEnds, Stopped
  <2> QED
    BY <1>0, <1>1, <2>1 DEF StateTypes, TasksInv
<1>5. CASE AcceptLoopStops \/ AcceptFails \/ AcceptLoopJoins
  <2>1. /\ accept # "ended" \/ accept' = "ended"
        /\ UNCHANGED <<kind, online, session, lost, awaiting, conn, task, stop>>
    BY <1>5 DEF AcceptLoopStops, AcceptFails, AcceptLoopBreaks, AcceptLoopJoins, object
  <2> QED
    BY <1>0, <1>1, <2>1 DEF StateTypes, TasksInv
<1> QED
  BY <1>2, <1>3, <1>4, <1>5

\* receive reports the loss when the senders are gone; send and the peers' writes change nothing
\* that the invariant is about.
LEMMA ReceiveKeeps ==
    ASSUME InterfacesInv, UNCHANGED serial,
           TcpReceive \/ ClientSend \/ \E c \in Conns : PeerWrites(c)
    PROVE  StateTypes' /\ TasksInv'
<1>0. StateTypes /\ TasksInv
  BY DEF InterfacesInv
<1>1. UNCHANGED <<speed, guard, thread, port, told, late>>
  BY DEF serial
<1>2. UNCHANGED <<kind, online, session, awaiting, accept, conn, task, stop>>
  BY DEF TcpReceive, ClientSend, PeerWrites, ReceiveFrame, ReceiveLost, Written, tcp, object
<1>3. lost' = lost \/ (lost' = TRUE /\ kind # "serial" /\ TcpSendersGone)
  BY DEF TcpReceive, ClientSend, PeerWrites, ReceiveFrame, ReceiveLost, Written, object
<1>4. StateTypes'
  BY <1>0, <1>1, <1>2, <1>3 DEF StateTypes
<1>5. /\ kind' = "serial" => ~lost'
      /\ kind' = "tcp_server" /\ lost' /\ online' => accept' = "ended"
      /\ kind' = "tcp_client" /\ lost' /\ online' => task'[session'] = "ended"
  <2>1. CASE lost' = lost
    BY <1>0, <1>2, <2>1 DEF TasksInv
  <2>2. CASE lost' = TRUE /\ kind # "serial" /\ TcpSendersGone
    BY <1>2, <2>2 DEF TcpSendersGone
  <2> QED
    BY <1>3, <2>1, <2>2
<1>6. TasksInv'
  BY <1>0, <1>2, <1>5 DEF TasksInv
<1> QED
  BY <1>4, <1>6

\* The read task of a connection and its peer.
LEMMA ConnKeeps ==
    ASSUME InterfacesInv, UNCHANGED serial, NEW c \in Conns,
           ServerAccepts(c) \/ ReadLoop(c) \/ PeerCloses(c)
    PROVE  StateTypes' /\ TasksInv'
<1>0. StateTypes /\ TasksInv /\ session \in Nat /\ c \in Nat
  BY DEF InterfacesInv, StateTypes, Conns
<1>1. UNCHANGED <<speed, guard, thread, port, told, late>>
  BY DEF serial
<1>2. UNCHANGED <<kind, online, session, lost, awaiting, accept>>
  BY DEF ServerAccepts, ReadLoop, PeerCloses, LoopStops, LoopReads, LoopPushes, LoopDisconnects,
         Ended, Enqueue, object
<1>3. CASE ServerAccepts(c)
  <2>1. /\ kind = "tcp_server"
        /\ conn' = [conn EXCEPT ![c] = "open"] /\ task' = [task EXCEPT ![c] = "running"]
        /\ stop' = [stop EXCEPT ![c] = TRUE]
    BY <1>3 DEF ServerAccepts
  <2>2. StateTypes'
    BY <1>0, <1>1, <1>2, <2>1 DEF StateTypes
  <2> QED
    BY <1>0, <1>2, <2>1, <2>2 DEF TasksInv
<1>4. CASE LoopReads(c) \/ LoopPushes(c)
  <2>1. UNCHANGED <<conn, task, stop>>
    BY <1>4 DEF LoopReads, LoopPushes
  <2> QED
    BY <1>0, <1>1, <1>2, <2>1 DEF StateTypes, TasksInv
<1>5. CASE LoopStops(c) \/ LoopDisconnects(c)
  <2>1. /\ task[c] = "running" /\ task' = [task EXCEPT ![c] = "ended"] /\ UNCHANGED stop
        /\ conn' = IF kind = "tcp_server" THEN [conn EXCEPT ![c] = "closed"] ELSE conn
        /\ stop[c] \/ conn[c] = "eof"
    BY <1>5 DEF LoopStops, LoopDisconnects, Ended
  <2>2. StateTypes'
    <3>1. conn' \in [Conns -> {"none", "open", "eof", "closed"}]
      BY <1>0, <2>1 DEF StateTypes
    <3>2. task' \in [Conns -> {"none", "running", "ended"}]
      BY <1>0, <2>1 DEF StateTypes
    <3> QED
      BY <1>0, <1>1, <1>2, <2>1, <3>1, <3>2 DEF StateTypes
  <2>3. CASE kind = "tcp_client"
    <3>1. conn' = conn
      BY <2>1, <2>3
    <3>2. task'[c] = "ended" /\ \A d \in Conns : d # c => task'[d] = task[d]
      BY <1>0, <2>1 DEF StateTypes
    <3>3. \A d \in Conns : task'[d] # "none" => d <= session
      BY <1>0, <2>1, <2>3, <3>2 DEF TasksInv
    <3>4. \A d \in Conns : task'[d] = "ended" => d < session \/ stop[d] \/ conn[d] \in {"eof", "closed"}
      BY <1>0, <2>1, <2>3, <3>2 DEF TasksInv
    <3>5. lost /\ online => task'[session] = "ended"
      <4>1. lost /\ online => task[session] = "ended" /\ session \in Conns
        BY <1>0, <2>3, BoundAssumption, ConnAssumption DEF TasksInv, StateTypes, Conns
      <4> QED
        BY <3>2, <4>1
    <3> QED
      BY <1>0, <1>2, <2>1, <2>2, <2>3, <3>1, <3>3, <3>4, <3>5 DEF TasksInv
  <2>4. CASE kind # "tcp_client"
    BY <1>0, <1>2, <2>2, <2>4 DEF TasksInv
  <2> QED
    BY <2>3, <2>4
<1>6. CASE PeerCloses(c)
  <2>1. /\ conn[c] = "open" /\ conn' = [conn EXCEPT ![c] = "eof"]
        /\ UNCHANGED <<task, stop>>
    BY <1>6 DEF PeerCloses
  <2>2. StateTypes'
    BY <1>0, <1>1, <1>2, <2>1 DEF StateTypes
  <2>3. conn'[c] = "eof" /\ \A d \in Conns : d # c => conn'[d] = conn[d]
    BY <1>0, <2>1 DEF StateTypes
  <2> QED
    BY <1>0, <1>2, <2>1, <2>2, <2>3 DEF TasksInv
<1> QED
  BY <1>3, <1>4, <1>5, <1>6 DEF ReadLoop

-----------------------------------------------------------------------------
(* The theorems *)

\* The invariant holds at first.
LEMMA InterfacesInitially ==
    ASSUME Init
    PROVE  InterfacesInv
<1>1. StateTypes
  <2>1. /\ kind \in Kinds /\ online \in BOOLEAN /\ ~online /\ lost \in BOOLEAN
        /\ session \in 0..MaxStarts
    <3>1. session = 0 /\ session \in 0..MaxStarts
      BY BoundAssumption DEF Init, InterfaceInit
    <3> QED
      BY <3>1 DEF Init, InterfaceInit
  <2>2. /\ awaiting \in BOOLEAN /\ ~awaiting
        /\ conn \in [Conns -> {"none", "open", "eof", "closed"}]
        /\ task \in [Conns -> {"none", "running", "ended"}]
        /\ stop \in [Conns -> BOOLEAN]
    BY DEF Init, TcpInit
  <2>3. /\ guard \in Handles /\ speed \in Handles /\ late \in BOOLEAN
        /\ thread \in [Sessions -> Places]
        /\ port \in [Sessions -> Handles]
        /\ told \in [Sessions -> BOOLEAN]
    BY SpeedAssumption DEF Init, SerialInit, Handles, Places
  <2> QED
    BY <2>1, <2>2, <2>3 DEF StateTypes
<1>2. ThreadsInv
  BY DEF Init, InterfaceInit, SerialInit, ThreadsInv
<1>3. TasksInv
  BY DEF Init, InterfaceInit, TcpInit, TasksInv
<1> QED
  BY <1>1, <1>2, <1>3 DEF InterfacesInv

\* Every step keeps it.
LEMMA InterfacesStep ==
    ASSUME InterfacesInv, [Next]_vars
    PROVE  InterfacesInv'
<1>1. CASE TcpNext /\ UNCHANGED serial
  <2>1. StateTypes' /\ TasksInv'
    BY <1>1, ClientStartKeeps, ClientShutdownKeeps, ServerKeeps, ReceiveKeeps, ConnKeeps DEF TcpNext
  <2> QED
    BY <1>1, <2>1, TcpKeepsThreads DEF InterfacesInv
<1>2. CASE SerialNext /\ UNCHANGED tcp
  BY <1>2, SerialKeepsTasks, SerialKeepsThreads DEF InterfacesInv
<1>3. CASE UNCHANGED vars
  BY <1>3 DEF vars, object, tcp, serial, InterfacesInv, StateTypes, ThreadsInv, TasksInv
<1> QED
  BY <1>1, <1>2, <1>3 DEF Next

\* Every reachable state satisfies the invariant.
THEOREM InterfacesInvariant == Spec => []InterfacesInv
<1>1. Init => InterfacesInv
  BY InterfacesInitially
<1>2. InterfacesInv /\ [Next]_vars => InterfacesInv'
  BY InterfacesStep
<1> QED
  BY <1>1, <1>2, PTL DEF Spec

\* receive returns ConnectionLost only when it is over, for every number of sessions and
\* connections: a client's peer closed the connection, a server accepts no more, a shutdown is
\* under way; a serial interface never says so.
THEOREM LossIsFinal == Spec => []LostMeansOver
<1>1. InterfacesInv => LostMeansOver
  <2> SUFFICES ASSUME InterfacesInv, lost, online PROVE LostMeansOver
    BY DEF LostMeansOver
  <2>0. StateTypes /\ TasksInv
    BY DEF InterfacesInv
  <2>1. kind \in {"tcp_client", "tcp_server"}
    BY <2>0, KindAssumption DEF StateTypes, TasksInv
  <2>2. CASE kind = "tcp_client"
    <3>1. session \in Conns /\ session \in Nat
      BY <2>0, BoundAssumption, ConnAssumption DEF StateTypes, Conns
    <3>2. task[session] = "ended"
      BY <2>0, <2>2 DEF TasksInv
    <3>3. stop[session] \/ conn[session] \in {"eof", "closed"}
      BY <2>0, <2>2, <3>1, <3>2 DEF TasksInv
    <3>4. (stop[session] => awaiting) /\ conn[session] # "closed"
      BY <2>0, <2>2, <3>1 DEF TasksInv
    <3> QED
      BY <2>2, <3>3, <3>4 DEF LostMeansOver
  <2>3. CASE kind = "tcp_server"
    BY <2>0, <2>3 DEF TasksInv, LostMeansOver
  <2> QED
    BY <2>1, <2>2, <2>3
<1> QED
  BY <1>1, InterfacesInvariant, PTL

\* However shutdowns, restarts, read errors and reconnections fall: when a serial interface is shut
\* down and its threads have ended the device is free, unless a thread took, opened or stored the
\* port after it was told to stop.
THEOREM PortIsReleased == Spec => []PortReleased
<1>1. InterfacesInv => PortReleased
  BY DEF InterfacesInv, ThreadsInv, PortReleased, DeviceFree
<1> QED
  BY <1>1, InterfacesInvariant, PTL

-----------------------------------------------------------------------------
(* The frames of TCP connections *)

Ascending(s) == \A i, j \in DOMAIN s : i < j => s[i] < s[j]
Before(A, B) == \A a \in A, b \in B : a < b
Members(s) == {s[i] : i \in DOMAIN s}

\* On the way of the frames wr of a connection: w in the stream, b read, que in the channel, ret
\* returned; t and k are the places of the task and the connection.  They are in the order of their
\* numbers, and none before one that is on its way is missing, unless nobody reads any more.
Pipe(w, b, wr, ret, que, t, k) ==
    /\ wr \subseteq Nat /\ ret \subseteq wr /\ que \subseteq wr
    /\ w \in Seq(Nat) /\ Ascending(w) /\ Members(w) \subseteq wr
    /\ b \in Seq(Nat) /\ Ascending(b) /\ Members(b) \subseteq wr
    /\ Before(ret, que) /\ Before(ret \cup que, Members(b))
    /\ Before(ret \cup que \cup Members(b), Members(w))
    /\ \A x \in que \cup Members(b) : \A n \in wr \ Oversized :
          n < x => n \in ret \cup que \cup Members(b) \cup Members(w)
    /\ t # "ended" => \A x \in Members(w) : \A n \in wr \ Oversized :
          n < x => n \in ret \cup que \cup Members(b) \cup Members(w)
    /\ t = "running" /\ k = "open" => wr \ Oversized \subseteq ret \cup que \cup Members(b) \cup Members(w)

\* Nothing was written yet.
LEMMA PipeNew ==
    ASSUME NEW t, NEW k
    PROVE  Pipe(<<>>, <<>>, {}, {}, {}, t, k)
BY DEF Pipe, Ascending, Members, Before

\* The channel is emptied while nobody reads.
LEMMA PipeDrained ==
    ASSUME NEW w, NEW wr, NEW ret, NEW que, NEW t, NEW k, NEW l, Pipe(w, <<>>, wr, ret, que, t, k),
           t # "running", t # "ended" => w = <<>>
    PROVE  Pipe(w, <<>>, wr, ret, {}, t, l)
<1>1. Members(<<>>) = {}
  BY DEF Members
<1> QED
  BY <1>1 DEF Pipe, Before, Members

\* The task ends; nothing that it read is left.
LEMMA PipeEnds ==
    ASSUME NEW w, NEW wr, NEW ret, NEW que, NEW t, NEW k, NEW l, Pipe(w, <<>>, wr, ret, que, t, k)
    PROVE  Pipe(w, <<>>, wr, ret, que, "ended", l)
BY DEF Pipe

\* The peer closes the connection; when it resets it, what was not read is gone.
LEMMA PipeCloses ==
    ASSUME NEW w, NEW b, NEW wr, NEW ret, NEW que, NEW t, NEW k, Pipe(w, b, wr, ret, que, t, k)
    PROVE  Pipe(w, b, wr, ret, que, t, "eof") /\ Pipe(<<>>, b, wr, ret, que, t, "eof")
<1>1. Pipe(w, b, wr, ret, que, t, "eof")
  BY DEF Pipe
<1>2. Members(<<>>) = {} /\ Ascending(<<>>) /\ <<>> \in Seq(Nat)
  BY DEF Members, Ascending
<1>3. ASSUME NEW x \in que \cup Members(b), NEW n \in wr \ Oversized, n < x
      PROVE  n \in ret \cup que \cup Members(b)
  <2>1. n \in ret \cup que \cup Members(b) \cup Members(w)
    BY <1>3 DEF Pipe
  <2>2. n \in Members(w) => x < n
    BY <1>3 DEF Pipe, Before
  <2>3. x \in Nat /\ n \in Nat
    BY <1>3 DEF Pipe
  <2> QED
    BY <1>3, <2>1, <2>2, <2>3
<1> QED
  BY <1>1, <1>2, <1>3 DEF Pipe, Before

\* Some of the stream is read.
LEMMA PipeReads ==
    ASSUME NEW w, NEW wr, NEW ret, NEW que, NEW k, Pipe(w, <<>>, wr, ret, que, "running", k),
           NEW n \in 1..Len(w)
    PROVE  Pipe(SubSeq(w, n + 1, Len(w)), SubSeq(w, 1, n), wr, ret, que, "running", k)
<1> DEFINE u == SubSeq(w, 1, n)
           v == SubSeq(w, n + 1, Len(w))
<1>0. w \in Seq(Nat) /\ Len(w) \in Nat /\ n \in Nat /\ n <= Len(w)
  BY DEF Pipe
<1>1. u \in Seq(Nat) /\ Len(u) = n /\ \A i \in 1..n : u[i] = w[i]
  BY <1>0
<1>2. v \in Seq(Nat) /\ Len(v) = Len(w) - n /\ \A i \in 1..(Len(w) - n) : v[i] = w[n + i]
  <2>1. n + 1 \in 1..(Len(w) + 1) /\ Len(w) \in n..Len(w)
    BY <1>0
  <2>2. Len(v) = Len(w) - n
    BY <1>0
  <2>3. v \in Seq(Nat)
    BY <1>0, <2>1
  <2>4. \A i \in 1..(Len(w) - n) : v[i] = w[n + i]
    BY <1>0, <2>2
  <2> QED
    BY <2>2, <2>3, <2>4
<1>3. DOMAIN w = 1..Len(w) /\ DOMAIN u = 1..n /\ DOMAIN v = 1..(Len(w) - n)
  BY <1>0, <1>1, <1>2
<1> HIDE DEF u, v
<1>4. \A i, j \in 1..Len(w) : i < j => w[i] < w[j]
  BY <1>3 DEF Pipe, Ascending
<1>5. Ascending(u)
  BY <1>0, <1>1, <1>3, <1>4 DEF Ascending
<1>6. Ascending(v)
  <2> SUFFICES ASSUME NEW i \in 1..(Len(w) - n), NEW j \in 1..(Len(w) - n), i < j
               PROVE  v[i] < v[j]
    BY <1>3 DEF Ascending
  <2>1. n + i \in 1..Len(w) /\ n + j \in 1..Len(w) /\ n + i < n + j
    BY <1>0
  <2> QED
    BY <1>2, <1>4, <2>1
<1>7. Members(w) = Members(u) \cup Members(v)
  <2>1. ASSUME NEW i \in 1..Len(w) PROVE w[i] \in Members(u) \cup Members(v)
    <3>1. CASE i <= n
      BY <1>0, <1>1, <1>3, <3>1 DEF Members
    <3>2. CASE i > n
      <4>1. i - n \in 1..(Len(w) - n) /\ n + (i - n) = i
        BY <1>0, <3>2
      <4>2. v[i - n] = w[i]
        BY <1>2, <4>1
      <4> QED
        BY <1>3, <4>1, <4>2 DEF Members
    <3> QED
      BY <1>0, <3>1, <3>2
  <2>2. ASSUME NEW i \in 1..n PROVE u[i] \in Members(w)
    BY <1>0, <1>1, <1>3 DEF Members
  <2>3. ASSUME NEW i \in 1..(Len(w) - n) PROVE v[i] \in Members(w)
    <3>1. n + i \in 1..Len(w)
      BY <1>0
    <3> QED
      BY <1>2, <1>3, <3>1 DEF Members
  <2> QED
    BY <1>3, <2>1, <2>2, <2>3 DEF Members
<1>8. Before(Members(u), Members(v))
  <2> SUFFICES ASSUME NEW i \in 1..n, NEW j \in 1..(Len(w) - n) PROVE u[i] < v[j]
    BY <1>3 DEF Before, Members
  <2>1. i \in 1..Len(w) /\ n + j \in 1..Len(w) /\ i < n + j
    BY <1>0
  <2> QED
    BY <1>1, <1>2, <1>4, <2>1
<1>9. Members(<<>>) = {}
  BY DEF Members
<1>10. Before(ret \cup que, Members(u)) /\ Before(ret \cup que \cup Members(u), Members(v))
  BY <1>7, <1>8, <1>9 DEF Pipe, Before
<1>11. \A x \in que \cup Members(w) : \A m \in wr \ Oversized :
          m < x => m \in ret \cup que \cup Members(w)
  BY <1>9 DEF Pipe
<1>12. k = "open" => wr \ Oversized \subseteq ret \cup que \cup Members(w)
  BY <1>9 DEF Pipe
<1>13. /\ wr \subseteq Nat /\ ret \subseteq wr /\ que \subseteq wr /\ Members(w) \subseteq wr
       /\ Before(ret, que)
  BY DEF Pipe
<1>14. Pipe(v, u, wr, ret, que, "running", k)
  BY ONLY <1>1, <1>2, <1>5, <1>6, <1>7, <1>10, <1>11, <1>12, <1>13 DEF Pipe
<1> QED
  BY <1>14 DEF u, v

\* The first frame that was read goes to the channel, unless it is too long.
LEMMA PipePushes ==
    ASSUME NEW w, NEW b, NEW wr, NEW ret, NEW que, NEW t, NEW k, Pipe(w, b, wr, ret, que, t, k),
           b # <<>>
    PROVE  /\ Head(b) \in wr /\ Before(ret \cup que, {Head(b)})
           /\ Head(b) \in Oversized => Pipe(w, Tail(b), wr, ret, que, t, k)
           /\ Pipe(w, Tail(b), wr, ret, que \cup {Head(b)}, t, k)
<1> DEFINE h == Head(b)
           c == Tail(b)
<1>0. b \in Seq(Nat) /\ Len(b) \in Nat /\ Len(b) > 0
  BY EmptySeq DEF Pipe
<1>1. h = b[1] /\ c \in Seq(Nat) /\ Len(c) = Len(b) - 1 /\ \A i \in 1..(Len(b) - 1) : c[i] = b[i + 1]
  BY <1>0
<1>2. DOMAIN b = 1..Len(b) /\ DOMAIN c = 1..(Len(b) - 1)
  BY <1>0, <1>1
<1> HIDE DEF h, c
<1>3. \A i, j \in 1..Len(b) : i < j => b[i] < b[j]
  BY <1>2 DEF Pipe, Ascending
<1>4. Members(b) = {h} \cup Members(c)
  <2>1. ASSUME NEW i \in 1..Len(b) PROVE b[i] \in {h} \cup Members(c)
    <3>1. CASE i = 1
      BY <1>1, <3>1
    <3>2. CASE i # 1
      <4>1. i - 1 \in 1..(Len(b) - 1) /\ (i - 1) + 1 = i
        BY <1>0, <3>2
      <4>2. c[i - 1] = b[i]
        BY <1>1, <4>1
      <4> QED
        BY <1>2, <4>1, <4>2 DEF Members
    <3> QED
      BY <3>1, <3>2
  <2>2. ASSUME NEW i \in 1..(Len(b) - 1) PROVE c[i] \in Members(b)
    <3>1. i + 1 \in 1..Len(b)
      BY <1>0
    <3> QED
      BY <1>1, <1>2, <3>1 DEF Members
  <2>3. h \in Members(b)
    <3>1. 1 \in 1..Len(b)
      BY <1>0
    <3> QED
      BY <1>1, <1>2, <3>1 DEF Members
  <2> QED
    BY <1>2, <2>1, <2>2, <2>3 DEF Members
<1>5. Before({h}, Members(c))
  <2> SUFFICES ASSUME NEW i \in 1..(Len(b) - 1) PROVE h < c[i]
    BY <1>2 DEF Before, Members
  <2>1. 1 \in 1..Len(b) /\ i + 1 \in 1..Len(b) /\ 1 < i + 1
    BY <1>0
  <2> QED
    BY <1>1, <1>3, <2>1
<1>6. Ascending(c)
  <2> SUFFICES ASSUME NEW i \in 1..(Len(b) - 1), NEW j \in 1..(Len(b) - 1), i < j
               PROVE  c[i] < c[j]
    BY <1>2 DEF Ascending
  <2>1. i + 1 \in 1..Len(b) /\ j + 1 \in 1..Len(b) /\ i + 1 < j + 1
    BY <1>0
  <2> QED
    BY <1>1, <1>3, <2>1
<1>7. /\ wr \subseteq Nat /\ ret \subseteq wr /\ que \subseteq wr /\ w \in Seq(Nat) /\ Ascending(w)
      /\ Members(w) \subseteq wr /\ Members(b) \subseteq wr
  BY DEF Pipe
<1>8. /\ Before(ret, que) /\ Before(ret \cup que, Members(b))
      /\ Before(ret \cup que \cup Members(b), Members(w))
  BY DEF Pipe
<1>9. /\ \A x \in que \cup Members(b) : \A n \in wr \ Oversized :
            n < x => n \in ret \cup que \cup Members(b) \cup Members(w)
      /\ t # "ended" => \A x \in Members(w) : \A n \in wr \ Oversized :
            n < x => n \in ret \cup que \cup Members(b) \cup Members(w)
      /\ t = "running" /\ k = "open" => wr \ Oversized \subseteq ret \cup que \cup Members(b) \cup Members(w)
  BY DEF Pipe
<1>10. ASSUME h \in Oversized PROVE Pipe(w, c, wr, ret, que, t, k)
  <2>1. \A n \in wr \ Oversized : n # h
    BY <1>10
  <2>2. Before(ret \cup que, Members(c)) /\ Before(ret \cup que \cup Members(c), Members(w))
    BY <1>4, <1>8 DEF Before
  <2> QED
    BY ONLY <1>1, <1>4, <1>6, <1>7, <1>8, <1>9, <2>1, <2>2 DEF Pipe
<1>11. Before(ret \cup que, {h})
  BY <1>4, <1>8 DEF Before
<1>12. Pipe(w, c, wr, ret, que \cup {h}, t, k)
  <2>1. /\ Before(ret, que \cup {h}) /\ Before(ret \cup (que \cup {h}), Members(c))
        /\ Before(ret \cup (que \cup {h}) \cup Members(c), Members(w))
    BY <1>4, <1>5, <1>8, <1>11 DEF Before
  <2>2. que \cup Members(b) = (que \cup {h}) \cup Members(c)
    BY <1>4
  <2>3. /\ \A x \in (que \cup {h}) \cup Members(c) : \A n \in wr \ Oversized :
              n < x => n \in ret \cup (que \cup {h}) \cup Members(c) \cup Members(w)
        /\ t # "ended" => \A x \in Members(w) : \A n \in wr \ Oversized :
              n < x => n \in ret \cup (que \cup {h}) \cup Members(c) \cup Members(w)
        /\ t = "running" /\ k = "open" =>
              wr \ Oversized \subseteq ret \cup (que \cup {h}) \cup Members(c) \cup Members(w)
    BY <1>9, <2>2
  <2> QED
    BY ONLY <1>1, <1>4, <1>6, <1>7, <2>1, <2>3 DEF Pipe
<1> QED
  BY <1>4, <1>7, <1>10, <1>11, <1>12 DEF h, c

\* The peer writes the frame n.
LEMMA PipeWrites ==
    ASSUME NEW w, NEW b, NEW wr, NEW ret, NEW que, NEW t, Pipe(w, b, wr, ret, que, t, "open"),
           t \in {"running", "ended"}, NEW n \in Nat, Before(wr, {n})
    PROVE  Pipe(Append(w, n), b, wr \cup {n}, ret, que, t, "open")
<1> DEFINE v == Append(w, n)
<1>0. w \in Seq(Nat) /\ Len(w) \in Nat
  BY DEF Pipe
<1>1. v \in Seq(Nat) /\ Len(v) = Len(w) + 1 /\ v[Len(w) + 1] = n /\ \A i \in 1..Len(w) : v[i] = w[i]
  BY <1>0, AppendProperties
<1>2. DOMAIN w = 1..Len(w) /\ DOMAIN v = 1..(Len(w) + 1)
  BY <1>0, <1>1
<1> HIDE DEF v
<1>3. Members(v) = Members(w) \cup {n}
  <2>1. ASSUME NEW i \in 1..(Len(w) + 1) PROVE v[i] \in Members(w) \cup {n}
    <3>1. CASE i = Len(w) + 1
      BY <1>1, <3>1
    <3>2. CASE i # Len(w) + 1
      BY <1>0, <1>1, <1>2, <3>2, SMTT(60) DEF Members
    <3> QED
      BY <3>1, <3>2
  <2>2. ASSUME NEW i \in 1..Len(w) PROVE w[i] \in Members(v)
    BY <1>0, <1>1, <1>2 DEF Members
  <2>3. n \in Members(v)
    <3>1. Len(w) + 1 \in 1..(Len(w) + 1)
      BY <1>0
    <3> QED
      BY <1>1, <1>2, <3>1 DEF Members
  <2> QED
    BY <1>2, <2>1, <2>2, <2>3 DEF Members
<1>4. Ascending(v)
  <2> SUFFICES ASSUME NEW i \in 1..(Len(w) + 1), NEW j \in 1..(Len(w) + 1), i < j
               PROVE  v[i] < v[j]
    BY <1>2 DEF Ascending
  <2>4. i \in 1..Len(w)
    BY <1>0
  <2>1. v[i] = w[i] /\ w[i] \in Members(w)
    BY <1>1, <1>2, <2>4 DEF Members
  <2>2. CASE j = Len(w) + 1
    BY <1>1, <2>1, <2>2 DEF Pipe, Before
  <2>3. CASE j # Len(w) + 1
    <3>1. j \in 1..Len(w)
      BY ONLY <1>0, <2>3, j \in 1..(Len(w) + 1)
    <3>2. v[j] = w[j]
      BY <1>1, <3>1
    <3> QED
      BY <1>2, <2>1, <2>4, <3>1, <3>2 DEF Pipe, Ascending
  <2> QED
    BY <2>2, <2>3
<1>5. /\ wr \subseteq Nat /\ ret \subseteq wr /\ que \subseteq wr
      /\ Members(w) \subseteq wr /\ Members(b) \subseteq wr /\ b \in Seq(Nat) /\ Ascending(b)
  BY DEF Pipe
<1>6. /\ Before(ret, que) /\ Before(ret \cup que, Members(b))
      /\ Before(ret \cup que \cup Members(b), Members(v))
  BY <1>3, <1>5 DEF Pipe, Before
<1>7. ASSUME NEW x \in wr PROVE ~(n < x)
  BY <1>5 DEF Before
<1>8. \A x \in que \cup Members(b) : \A m \in (wr \cup {n}) \ Oversized :
         m < x => m \in ret \cup que \cup Members(b) \cup Members(v)
  BY <1>3, <1>5, <1>7 DEF Pipe
<1>9. t # "ended" => (wr \cup {n}) \ Oversized \subseteq ret \cup que \cup Members(b) \cup Members(v)
  BY <1>3 DEF Pipe
<1>10. ret \subseteq wr \cup {n} /\ que \subseteq wr \cup {n} /\ Members(b) \subseteq wr \cup {n}
       /\ Members(v) \subseteq wr \cup {n} /\ wr \cup {n} \subseteq Nat
  BY <1>3, <1>5
<1>11. Pipe(v, b, wr \cup {n}, ret, que, t, "open")
  BY ONLY <1>1, <1>4, <1>5, <1>6, <1>8, <1>9, <1>10 DEF Pipe
<1> QED
  BY <1>11 DEF v

\* receive returns the first frame of the connection.
LEMMA PipeReturns ==
    ASSUME NEW w, NEW b, NEW wr, NEW ret, NEW que, NEW t, NEW k, NEW m,
           Pipe(w, b, wr, ret, que \cup {m}, t, k), Before({m}, que)
    PROVE  /\ Pipe(w, b, wr, ret \cup {m}, que, t, k)
           /\ Before(ret, {m}) /\ \A n \in wr \ Oversized : n < m => n \in ret
<1>1. /\ wr \subseteq Nat /\ ret \subseteq wr /\ que \subseteq wr /\ m \in wr
      /\ w \in Seq(Nat) /\ Ascending(w) /\ Members(w) \subseteq wr
      /\ b \in Seq(Nat) /\ Ascending(b) /\ Members(b) \subseteq wr
  BY DEF Pipe
<1>2. /\ Before(ret \cup {m}, que) /\ Before((ret \cup {m}) \cup que, Members(b))
      /\ Before((ret \cup {m}) \cup que \cup Members(b), Members(w))
  BY DEF Pipe, Before
<1>3. ret \cup (que \cup {m}) = (ret \cup {m}) \cup que
  OBVIOUS
<1>4. /\ \A x \in que \cup Members(b) : \A n \in wr \ Oversized :
            n < x => n \in (ret \cup {m}) \cup que \cup Members(b) \cup Members(w)
      /\ t # "ended" => \A x \in Members(w) : \A n \in wr \ Oversized :
            n < x => n \in (ret \cup {m}) \cup que \cup Members(b) \cup Members(w)
      /\ t = "running" /\ k = "open" =>
            wr \ Oversized \subseteq (ret \cup {m}) \cup que \cup Members(b) \cup Members(w)
  BY <1>3 DEF Pipe
<1>5. Pipe(w, b, wr, ret \cup {m}, que, t, k)
  BY ONLY <1>1, <1>2, <1>4 DEF Pipe
<1>6. Before(ret, {m})
  BY DEF Pipe, Before
<1>7. ASSUME NEW n \in wr \ Oversized, n < m PROVE n \in ret
  <2>1. n \in ret \cup {m} \cup que \cup Members(b) \cup Members(w)
    BY <1>7 DEF Pipe
  <2>2. n \in que \cup Members(b) \cup Members(w) => m < n
    BY DEF Pipe, Before
  <2>3. m \in Nat /\ n \in Nat
    BY <1>1
  <2> QED
    BY <1>7, <2>1, <2>2, <2>3
<1> QED
  BY <1>5, <1>6, <1>7

-----------------------------------------------------------------------------
(* The invariant of the TCP interfaces *)

\* The frames of connection c that receive returned, and those in the channel.
Returned(c) == {n \in written[c] : \E i \in DOMAIN received : received[i].frame = Payload(n)}
Queued(c) == {n \in written[c] : \E i \in DOMAIN rx : rx[i] = Payload(n)}

PipeInv(c) == Pipe(wire[c], batch[c], written[c], Returned(c), Queued(c), task[c], conn[c])

\* A read task runs while the interface is online; a client's is that of the session, a server's
\* accept task waits for it.
TaskInv(c) ==
    /\ task[c] = "running" =>
          /\ online
          /\ kind = "tcp_client" => c = session
          /\ kind = "tcp_server" => accept \in {"running", "joining"}
    /\ task[c] # "running" => batch[c] = <<>>
    /\ task[c] = "none" <=> conn[c] = "none"
    /\ task[c] = "none" => written[c] = {} /\ wire[c] = <<>>

\* Frames are numbered through all connections.
WrittenInv ==
    /\ writes \in Nat
    /\ written \in [Conns -> SUBSET (1..writes)]
    /\ wire \in [Conns -> Seq(Nat)] /\ batch \in [Conns -> Seq(Nat)]
    /\ \A c, d \in Conns : \A n : n \in written[c] /\ n \in written[d] => c = d

\* The frames in the channel, from whichever connections, in the order of each.
QueueInv ==
    /\ rx \in Seq(Seq(Nat)) /\ Len(rx) <= Capacity
    /\ \A i \in DOMAIN rx : \E c \in Conns : \E n \in Deliverable(c) :
          rx[i] = Payload(n) /\ (kind = "tcp_client" => c = session)
    /\ \A c \in Conns : \A m, n \in written[c] : \A i, j \in DOMAIN rx :
          i < j /\ rx[i] = Payload(m) /\ rx[j] = Payload(n) => m < n

\* What receive returned.
Receipts == [session : Nat, frame : Seq(Nat)]

TcpInv ==
    /\ kind # "serial"
    /\ accept \in {"none", "running", "joining", "ended"}
    /\ kind = "tcp_server" /\ accept \in {"running", "joining"} => online
    /\ received \in Seq(Receipts)
    /\ WrittenInv
    /\ QueueInv
    /\ \A c \in Conns : TaskInv(c) /\ PipeInv(c)
    /\ TcpFramesInOrder

\* A frame's number is known from the frame.
LEMMA PayloadInjective ==
    ASSUME NEW m, NEW n, Payload(m) = Payload(n)
    PROVE  m = n
BY DEF Payload

\* A connection that a step does not touch.
LEMMA PipeSame ==
    ASSUME NEW c, PipeInv(c), Returned(c)' = Returned(c), Queued(c)' = Queued(c),
           wire'[c] = wire[c], batch'[c] = batch[c], written'[c] = written[c],
           task'[c] = task[c], conn'[c] = conn[c]
    PROVE  PipeInv(c)'
BY DEF PipeInv

\* Steps that touch neither a connection nor the channel.
LEMMA QuietStep ==
    ASSUME TcpInv,
           UNCHANGED <<kind, online, session, rx, received, conn, wire, task, batch, writes, written>>,
           accept' \in {"none", "running", "joining", "ended"},
           kind = "tcp_server" /\ accept' \in {"running", "joining"} => online,
           \A c \in Conns : task[c] = "running" /\ kind = "tcp_server" => accept' \in {"running", "joining"}
    PROVE  TcpInv'
<1>1. kind' # "serial" /\ received' \in Seq(Receipts)
  BY DEF TcpInv
<1>2. WrittenInv'
  BY DEF TcpInv, WrittenInv
<1>3. QueueInv'
  BY DEF TcpInv, QueueInv, Deliverable
<1>4. ASSUME NEW c \in Conns PROVE TaskInv(c)' /\ PipeInv(c)'
  <2>1. TaskInv(c) /\ PipeInv(c)
    BY DEF TcpInv
  <2>2. TaskInv(c)'
    BY <2>1 DEF TaskInv
  <2>3. Returned(c)' = Returned(c) /\ Queued(c)' = Queued(c)
    BY DEF Returned, Queued
  <2> QED
    BY <2>1, <2>2, <2>3, PipeSame
<1>5. TcpFramesInOrder'
  BY DEF TcpInv, TcpFramesInOrder, Deliverable
<1> QED
  BY <1>1, <1>2, <1>3, <1>4, <1>5 DEF TcpInv

\* What receive returned stays in order while nothing is returned or written.
LEMMA OrderSame ==
    ASSUME TcpFramesInOrder, UNCHANGED <<kind, received, written>>
    PROVE  TcpFramesInOrder'
BY DEF TcpFramesInOrder, Deliverable

\* A start or the end of a shutdown: the channel is empty, and nobody was reading.
LEMMA RestartStep ==
    ASSUME TcpInv, task \in [Conns -> {"none", "running", "ended"}],
           rx' = <<>>, UNCHANGED <<kind, received, wire, batch, writes, written>>,
           accept' \in {"none", "running", "joining", "ended"},
           kind = "tcp_server" /\ accept' \in {"running", "joining"} => online',
           \A c \in Conns : task[c] # "running",
           \A c \in Conns :
              \/ task'[c] = task[c] /\ (conn'[c] = "none" <=> conn[c] = "none")
              \/ /\ task[c] = "none" /\ task'[c] = "running" /\ conn'[c] = "open"
                 /\ kind = "tcp_client" /\ c = session' /\ online'
    PROVE  TcpInv'
<1>1. kind' # "serial" /\ received' \in Seq(Receipts)
  BY DEF TcpInv
<1>2. WrittenInv'
  BY DEF TcpInv, WrittenInv
<1>3. QueueInv'
  <2>1. rx' \in Seq(Seq(Nat)) /\ Len(rx') <= Capacity /\ DOMAIN rx' = {}
    BY CapacityAssumption
  <2> QED
    BY <2>1 DEF QueueInv
<1>4. ASSUME NEW c \in Conns PROVE TaskInv(c)' /\ PipeInv(c)'
  <2>1. TaskInv(c) /\ PipeInv(c) /\ batch[c] = <<>> /\ task[c] # "running"
    BY DEF TcpInv, TaskInv
  <2>2. Returned(c)' = Returned(c) /\ Queued(c)' = {}
    BY DEF Returned, Queued
  <2>3. CASE task'[c] = task[c] /\ (conn'[c] = "none" <=> conn[c] = "none")
    <3>1. TaskInv(c)'
      BY <2>1, <2>3 DEF TaskInv
    <3>2. Pipe(wire[c], <<>>, written[c], Returned(c), Queued(c), task[c], conn[c])
      BY <2>1 DEF PipeInv
    <3>3. task[c] # "ended" => wire[c] = <<>>
      BY <2>1 DEF TaskInv
    <3>4. Pipe(wire[c], <<>>, written[c], Returned(c), {}, task[c], conn'[c])
      BY <2>1, <3>2, <3>3, PipeDrained
    <3> QED
      BY <2>1, <2>2, <2>3, <3>1, <3>4 DEF PipeInv
  <2>4. CASE /\ task[c] = "none" /\ task'[c] = "running" /\ conn'[c] = "open"
             /\ kind = "tcp_client" /\ c = session' /\ online'
    <3>1. written[c] = {} /\ wire[c] = <<>>
      BY <2>1, <2>4 DEF TaskInv
    <3>2. TaskInv(c)'
      BY <2>1, <2>4, <3>1 DEF TaskInv
    <3>3. Returned(c)' = {}
      BY <3>1 DEF Returned
    <3>4. Pipe(<<>>, <<>>, {}, {}, {}, task'[c], conn'[c])
      BY PipeNew
    <3> QED
      BY <2>1, <2>2, <3>1, <3>2, <3>3, <3>4 DEF PipeInv
  <2> QED
    BY <2>3, <2>4
<1>5. TcpFramesInOrder'
  BY OrderSame DEF TcpInv
<1> QED
  BY <1>1, <1>2, <1>3, <1>4, <1>5 DEF TcpInv

\* The numbers of the frames, while nothing is written, read or handed on.
LEMMA WrittenSame ==
    ASSUME WrittenInv, UNCHANGED <<writes, written, wire, batch>>
    PROVE  WrittenInv'
BY DEF WrittenInv

\* The channel, while the frames in it are the same.
LEMMA QueueSame ==
    ASSUME QueueInv, UNCHANGED <<kind, session, rx, written>>
    PROVE  QueueInv'
BY DEF QueueInv, Deliverable

\* A step of one connection: the others are as they were.
LEMMA OtherConns ==
    ASSUME TcpInv, NEW c \in Conns, UNCHANGED <<kind, online, session, accept>>,
           received' \in Seq(Receipts), WrittenInv', QueueInv', TcpFramesInOrder',
           TaskInv(c)', PipeInv(c)',
           \A d \in Conns \ {c} :
              /\ Returned(d)' = Returned(d) /\ Queued(d)' = Queued(d)
              /\ wire'[d] = wire[d] /\ batch'[d] = batch[d] /\ written'[d] = written[d]
              /\ task'[d] = task[d] /\ conn'[d] = conn[d]
    PROVE  TcpInv'
<1>1. ASSUME NEW d \in Conns, d # c PROVE TaskInv(d)' /\ PipeInv(d)'
  <2>1. TaskInv(d) /\ PipeInv(d)
    BY DEF TcpInv
  <2>2. d \in Conns \ {c}
    BY <1>1
  <2>3. PipeInv(d)'
    BY <2>1, <2>2, PipeSame
  <2>4. TaskInv(d)'
    BY <2>1, <2>2 DEF TaskInv
  <2> QED
    BY <2>3, <2>4
<1>2. \A d \in Conns : TaskInv(d)' /\ PipeInv(d)'
  BY <1>1
<1>3. kind' # "serial" /\ accept' \in {"none", "running", "joining", "ended"}
  BY DEF TcpInv
<1> QED
  BY <1>2, <1>3 DEF TcpInv

\* The server accepts a connection.
LEMMA AcceptsStep ==
    ASSUME TcpInv, StateTypes, NEW c \in Conns, ServerAccepts(c)
    PROVE  TcpInv'
<1>1. /\ kind = "tcp_server" /\ accept = "running" /\ conn[c] = "none"
      /\ conn' = [conn EXCEPT ![c] = "open"] /\ task' = [task EXCEPT ![c] = "running"]
      /\ UNCHANGED <<kind, online, session, rx, received, accept, wire, batch, writes, written>>
  BY DEF ServerAccepts, object
<1>2. online /\ TaskInv(c) /\ task[c] = "none" /\ written[c] = {} /\ wire[c] = <<>> /\ batch[c] = <<>>
  BY <1>1 DEF TcpInv, TaskInv
<1>3. /\ task'[c] = "running" /\ conn'[c] = "open"
      /\ \A d \in Conns \ {c} : task'[d] = task[d] /\ conn'[d] = conn[d]
  BY <1>1 DEF StateTypes
<1>4. \A d \in Conns : Returned(d)' = Returned(d) /\ Queued(d)' = Queued(d)
  BY <1>1 DEF Returned, Queued
<1>5. TaskInv(c)'
  BY <1>1, <1>2, <1>3 DEF TaskInv
<1>6. PipeInv(c)'
  <2>1. Returned(c)' = {} /\ Queued(c)' = {}
    BY <1>2, <1>4 DEF Returned, Queued
  <2>2. Pipe(<<>>, <<>>, {}, {}, {}, task'[c], conn'[c])
    BY PipeNew
  <2> QED
    BY <1>1, <1>2, <2>1, <2>2 DEF PipeInv
<1>7. WrittenInv' /\ QueueInv'
  BY <1>1, WrittenSame, QueueSame DEF TcpInv
<1>8. TcpFramesInOrder' /\ received' \in Seq(Receipts)
  BY <1>1, OrderSame DEF TcpInv
<1> QED
  BY <1>1, <1>3, <1>4, <1>5, <1>6, <1>7, <1>8, OtherConns

\* The read task ends, by the signal or with the connection.
LEMMA EndsStep ==
    ASSUME TcpInv, StateTypes, NEW c \in Conns, LoopStops(c) \/ LoopDisconnects(c)
    PROVE  TcpInv'
<1>1. /\ task[c] = "running" /\ batch[c] = <<>> /\ task' = [task EXCEPT ![c] = "ended"]
      /\ conn' = IF kind = "tcp_server" THEN [conn EXCEPT ![c] = "closed"] ELSE conn
      /\ UNCHANGED <<kind, online, session, rx, received, accept, wire, batch, writes, written>>
  BY DEF LoopStops, LoopDisconnects, Ended, object
<1>2. TaskInv(c) /\ PipeInv(c)
  BY DEF TcpInv
<1>3. /\ task'[c] = "ended" /\ (conn'[c] = conn[c] \/ conn'[c] = "closed")
      /\ \A d \in Conns \ {c} : task'[d] = task[d] /\ conn'[d] = conn[d]
  BY <1>1 DEF StateTypes
<1>4. \A d \in Conns : Returned(d)' = Returned(d) /\ Queued(d)' = Queued(d)
  BY <1>1 DEF Returned, Queued
<1>5. TaskInv(c)'
  BY <1>1, <1>2, <1>3 DEF TaskInv
<1>6. PipeInv(c)'
  <2>1. Pipe(wire[c], <<>>, written[c], Returned(c), Queued(c), task[c], conn[c])
    BY <1>1, <1>2 DEF PipeInv
  <2>2. Pipe(wire[c], <<>>, written[c], Returned(c), Queued(c), "ended", conn'[c])
    BY <2>1, PipeEnds
  <2> QED
    BY <1>1, <1>3, <1>4, <2>2 DEF PipeInv
<1>7. WrittenInv' /\ QueueInv'
  BY <1>1, WrittenSame, QueueSame DEF TcpInv
<1>8. TcpFramesInOrder' /\ received' \in Seq(Receipts)
  BY <1>1, OrderSame DEF TcpInv
<1> QED
  BY <1>1, <1>3, <1>4, <1>5, <1>6, <1>7, <1>8, OtherConns

\* The read task reads.
LEMMA ReadsStep ==
    ASSUME TcpInv, NEW c \in Conns, LoopReads(c)
    PROVE  TcpInv'
<1>1. PICK n \in 1..Len(wire[c]) :
         /\ batch' = [batch EXCEPT ![c] = SubSeq(wire[c], 1, n)]
         /\ wire' = [wire EXCEPT ![c] = SubSeq(wire[c], n + 1, Len(wire[c]))]
  BY DEF LoopReads
<1>2. /\ task[c] = "running" /\ batch[c] = <<>>
      /\ UNCHANGED <<kind, online, session, rx, received, accept, conn, task, writes, written>>
  BY DEF LoopReads, object
<1>3. TaskInv(c) /\ PipeInv(c) /\ wire \in [Conns -> Seq(Nat)] /\ batch \in [Conns -> Seq(Nat)]
  BY DEF TcpInv, WrittenInv
<1>4. /\ batch'[c] = SubSeq(wire[c], 1, n) /\ wire'[c] = SubSeq(wire[c], n + 1, Len(wire[c]))
      /\ \A d \in Conns \ {c} : batch'[d] = batch[d] /\ wire'[d] = wire[d]
  BY <1>1, <1>3
<1>5. \A d \in Conns : Returned(d)' = Returned(d) /\ Queued(d)' = Queued(d)
  BY <1>2 DEF Returned, Queued
<1>6. Pipe(SubSeq(wire[c], n + 1, Len(wire[c])), SubSeq(wire[c], 1, n), written[c], Returned(c),
           Queued(c), "running", conn[c])
  <2>1. Pipe(wire[c], <<>>, written[c], Returned(c), Queued(c), "running", conn[c])
    BY <1>2, <1>3 DEF PipeInv
  <2> QED
    BY <2>1, PipeReads
<1>7. PipeInv(c)'
  BY <1>2, <1>4, <1>5, <1>6 DEF PipeInv
<1>8. TaskInv(c)'
  BY <1>2, <1>3 DEF TaskInv
<1>9. WrittenInv'
  <2>1. SubSeq(wire[c], 1, n) \in Seq(Nat) /\ SubSeq(wire[c], n + 1, Len(wire[c])) \in Seq(Nat)
    BY <1>6 DEF Pipe
  <2>2. wire' \in [Conns -> Seq(Nat)] /\ batch' \in [Conns -> Seq(Nat)]
    BY <1>1, <1>3, <2>1
  <2> QED
    BY <1>2, <2>2 DEF TcpInv, WrittenInv
<1>10. QueueInv' /\ TcpFramesInOrder' /\ received' \in Seq(Receipts)
  BY <1>2, OrderSame DEF TcpInv, QueueInv, Deliverable
<1> QED
  BY <1>2, <1>4, <1>5, <1>7, <1>8, <1>9, <1>10, OtherConns

\* The peer closes or resets the connection.
LEMMA ClosesStep ==
    ASSUME TcpInv, StateTypes, NEW c \in Conns, PeerCloses(c)
    PROVE  TcpInv'
<1>1. /\ conn[c] = "open" /\ conn' = [conn EXCEPT ![c] = "eof"]
      /\ wire' = wire \/ wire' = [wire EXCEPT ![c] = <<>>]
      /\ UNCHANGED <<kind, online, session, rx, received, accept, task, batch, writes, written>>
  BY DEF PeerCloses, object
<1>2. TaskInv(c) /\ PipeInv(c) /\ wire \in [Conns -> Seq(Nat)]
  BY DEF TcpInv, WrittenInv
<1>3. /\ conn'[c] = "eof" /\ (wire'[c] = wire[c] \/ wire'[c] = <<>>)
      /\ \A d \in Conns \ {c} : conn'[d] = conn[d] /\ wire'[d] = wire[d]
  BY <1>1, <1>2 DEF StateTypes
<1>4. \A d \in Conns : Returned(d)' = Returned(d) /\ Queued(d)' = Queued(d)
  BY <1>1 DEF Returned, Queued
<1>5. TaskInv(c)'
  BY <1>1, <1>2, <1>3 DEF TaskInv
<1>6. PipeInv(c)'
  <2>1. Pipe(wire[c], batch[c], written[c], Returned(c), Queued(c), task[c], conn[c])
    BY <1>2 DEF PipeInv
  <2>2. Pipe(wire'[c], batch[c], written[c], Returned(c), Queued(c), task[c], "eof")
    BY <1>3, <2>1, PipeCloses
  <2> QED
    BY <1>1, <1>3, <1>4, <2>2 DEF PipeInv
<1>7. wire' \in [Conns -> Seq(Nat)]
  <2>1. <<>> \in Seq(Nat)
    OBVIOUS
  <2>2. [wire EXCEPT ![c] = <<>>] \in [Conns -> Seq(Nat)]
    BY <1>2, <2>1
  <2> QED
    BY <1>1, <1>2, <2>2
<1>8. WrittenInv' /\ QueueInv'
  <2>1. WrittenInv'
    BY <1>1, <1>7 DEF TcpInv, WrittenInv
  <2>2. QueueInv'
    BY <1>1, QueueSame DEF TcpInv
  <2> QED
    BY <2>1, <2>2
<1>9. TcpFramesInOrder' /\ received' \in Seq(Receipts)
  BY <1>1, OrderSame DEF TcpInv
<1> QED
  BY <1>1, <1>3, <1>4, <1>5, <1>6, <1>8, <1>9, OtherConns

\* A read frame goes to the channel, or is dropped for its length.
LEMMA PushesStep ==
    ASSUME TcpInv, NEW c \in Conns, LoopPushes(c)
    PROVE  TcpInv'
<1> DEFINE h == Head(batch[c])
<1>1. /\ task[c] = "running" /\ batch[c] # <<>>
      /\ batch' = [batch EXCEPT ![c] = Tail(batch[c])]
      /\ UNCHANGED <<kind, online, session, received, accept, conn, wire, task, writes, written>>
      /\ IF h \in Oversized THEN rx' = rx ELSE rx' = Append(rx, Payload(h)) /\ Len(rx) < Capacity
  BY DEF LoopPushes, object, Enqueue
<1>2. /\ TaskInv(c) /\ PipeInv(c) /\ WrittenInv /\ QueueInv
      /\ batch \in [Conns -> Seq(Nat)] /\ rx \in Seq(Seq(Nat))
  BY DEF TcpInv, WrittenInv, QueueInv
<1>3. /\ batch'[c] = Tail(batch[c])
      /\ \A d \in Conns \ {c} : batch'[d] = batch[d]
  BY <1>1, <1>2
<1>4. /\ h \in written[c] /\ Before(Returned(c) \cup Queued(c), {h})
      /\ h \in Oversized =>
            Pipe(wire[c], Tail(batch[c]), written[c], Returned(c), Queued(c), task[c], conn[c])
      /\ Pipe(wire[c], Tail(batch[c]), written[c], Returned(c), Queued(c) \cup {h}, task[c], conn[c])
  <2>1. Pipe(wire[c], batch[c], written[c], Returned(c), Queued(c), task[c], conn[c])
    BY <1>2 DEF PipeInv
  <2> QED
    BY <1>1, <2>1, PipePushes
<1>5. \A d \in Conns : Returned(d)' = Returned(d)
  BY <1>1 DEF Returned
<1>6. TaskInv(c)'
  BY <1>1, <1>2 DEF TaskInv
<1>7. WrittenInv'
  <2>1. Tail(batch[c]) \in Seq(Nat)
    BY <1>4 DEF Pipe
  <2>2. batch' \in [Conns -> Seq(Nat)]
    BY <1>1, <1>2, <2>1
  <2> QED
    BY <1>1, <1>2, <2>2 DEF WrittenInv
<1>8. TcpFramesInOrder' /\ received' \in Seq(Receipts)
  BY <1>1, OrderSame DEF TcpInv
<1> HIDE DEF h
<1>9. CASE h \in Oversized
  <2>1. \A d \in Conns : Queued(d)' = Queued(d)
    BY <1>1, <1>9 DEF Queued
  <2>2. PipeInv(c)'
    BY <1>1, <1>3, <1>4, <1>5, <1>9, <2>1 DEF PipeInv
  <2>3. QueueInv'
    BY <1>1, <1>2, <1>9, QueueSame
  <2> QED
    BY <1>1, <1>3, <1>5, <1>6, <1>7, <1>8, <2>1, <2>2, <2>3, OtherConns
<1>10. CASE h \notin Oversized
  <2>1. /\ rx' = Append(rx, Payload(h)) /\ Len(rx) < Capacity /\ Payload(h) \in Seq(Nat)
        /\ h \in Nat
    BY <1>1, <1>4, <1>10 DEF Pipe, Payload
  <2>2. /\ rx' \in Seq(Seq(Nat)) /\ Len(rx') = Len(rx) + 1 /\ Len(rx) \in Nat
        /\ rx'[Len(rx) + 1] = Payload(h) /\ \A i \in 1..Len(rx) : rx'[i] = rx[i]
    BY <1>2, <2>1, AppendProperties
  <2>3. DOMAIN rx = 1..Len(rx) /\ DOMAIN rx' = 1..(Len(rx) + 1)
    BY <1>2, <2>2
  <2>4. ASSUME NEW n PROVE (\E i \in DOMAIN rx' : rx'[i] = Payload(n))
                              <=> ((\E i \in DOMAIN rx : rx[i] = Payload(n)) \/ n = h)
    <3>1. ASSUME NEW i \in 1..(Len(rx) + 1), rx'[i] = Payload(n)
          PROVE  (\E k \in 1..Len(rx) : rx[k] = Payload(n)) \/ n = h
      <4>1. CASE i = Len(rx) + 1
        <5>1. Payload(n) = Payload(h)
          BY <2>2, <3>1, <4>1
        <5> QED
          BY <5>1, PayloadInjective
      <4>2. CASE i # Len(rx) + 1
        <5>1. i \in 1..Len(rx)
          BY <2>2, <4>2
        <5> QED
          BY <2>2, <3>1, <5>1
      <4> QED
        BY <4>1, <4>2
    <3>2. ASSUME NEW i \in 1..Len(rx) PROVE i \in 1..(Len(rx) + 1) /\ rx'[i] = rx[i]
      BY <2>2
    <3>3. Len(rx) + 1 \in 1..(Len(rx) + 1) /\ rx'[Len(rx) + 1] = Payload(h)
      BY <2>2
    <3> QED
      BY <2>3, <3>1, <3>2, <3>3
  <2>5. Queued(c)' = Queued(c) \cup {h}
    BY <1>1, <1>4, <2>4 DEF Queued
  <2>6. ASSUME NEW d \in Conns \ {c} PROVE Queued(d)' = Queued(d)
    <3>1. h \notin written[d]
      BY <1>2, <1>4 DEF WrittenInv
    <3> QED
      BY <1>1, <2>4, <3>1 DEF Queued
  <2>7. PipeInv(c)'
    BY <1>1, <1>3, <1>4, <1>5, <2>5 DEF PipeInv
  <2>8. QueueInv'
    <3>1. Len(rx') <= Capacity
      BY <2>1, <2>2, CapacityAssumption
    <3>2. ASSUME NEW i \in 1..(Len(rx) + 1)
          PROVE  \E d \in Conns : \E n \in Deliverable(d) :
                    rx'[i] = Payload(n) /\ (kind = "tcp_client" => d = session)
      <4>1. CASE i = Len(rx) + 1
        <5>1. h \in Deliverable(c) /\ (kind = "tcp_client" => c = session)
          BY <1>1, <1>2, <1>4, <1>10 DEF Deliverable, TaskInv
        <5> QED
          BY <2>2, <4>1, <5>1
      <4>2. CASE i # Len(rx) + 1
        <5>1. i \in 1..Len(rx)
          BY <2>2, <4>2
        <5>2. \E d \in Conns : \E n \in Deliverable(d) :
                 rx[i] = Payload(n) /\ (kind = "tcp_client" => d = session)
          BY <1>2, <2>3, <5>1 DEF QueueInv
        <5> QED
          BY <2>2, <5>1, <5>2
      <4> QED
        BY <4>1, <4>2
    <3>3. ASSUME NEW d \in Conns, NEW m \in written[d], NEW n \in written[d],
                 NEW i \in 1..(Len(rx) + 1), NEW j \in 1..(Len(rx) + 1),
                 i < j, rx'[i] = Payload(m), rx'[j] = Payload(n)
          PROVE  m < n
      <4>1. i \in 1..Len(rx) /\ rx[i] = Payload(m)
        BY <2>2, <3>3
      <4>2. CASE j = Len(rx) + 1
        <5>1. n = h
          BY <2>2, <3>3, <4>2, PayloadInjective
        <5>2. d = c
          BY <1>2, <1>4, <5>1 DEF WrittenInv
        <5>3. m \in Queued(c)
          BY <2>3, <4>1, <5>2 DEF Queued
        <5> QED
          BY <1>4, <5>1, <5>3 DEF Before
      <4>3. CASE j # Len(rx) + 1
        <5>1. j \in 1..Len(rx)
          BY <2>2, <4>3
        <5>2. rx[j] = Payload(n)
          BY <2>2, <3>3, <5>1
        <5> QED
          BY <1>2, <2>3, <3>3, <4>1, <5>1, <5>2 DEF QueueInv
      <4> QED
        BY <4>2, <4>3
    <3> QED
      BY <1>1, <2>2, <2>3, <3>1, <3>2, <3>3 DEF QueueInv, Deliverable
  <2> QED
    BY <1>1, <1>3, <1>5, <1>6, <1>7, <1>8, <2>6, <2>7, <2>8, OtherConns
<1> QED
  BY <1>9, <1>10

\* The peer writes a frame: its number is new.
LEMMA WritesStep ==
    ASSUME TcpInv, StateTypes, NEW c \in Conns, PeerWrites(c)
    PROVE  TcpInv'
<1> DEFINE n == writes + 1
<1>1. /\ conn[c] = "open" /\ writes' = n
      /\ wire' = [wire EXCEPT ![c] = Append(wire[c], n)]
      /\ written' = [written EXCEPT ![c] = written[c] \cup {n}]
      /\ UNCHANGED <<kind, online, session, rx, received, accept, conn, task, batch>>
  BY DEF PeerWrites, object
<1>2. TaskInv(c) /\ PipeInv(c) /\ WrittenInv /\ QueueInv /\ TcpFramesInOrder
  BY DEF TcpInv
<1>3. /\ writes \in Nat /\ written \in [Conns -> SUBSET (1..writes)]
      /\ wire \in [Conns -> Seq(Nat)] /\ batch \in [Conns -> Seq(Nat)]
      /\ \A d, e \in Conns : \A x : x \in written[d] /\ x \in written[e] => d = e
  BY <1>2 DEF WrittenInv
<1>4. /\ wire'[c] = Append(wire[c], n) /\ written'[c] = written[c] \cup {n}
      /\ \A d \in Conns \ {c} : wire'[d] = wire[d] /\ written'[d] = written[d]
  BY <1>1, <1>3
<1>5. n \in Nat /\ \A d \in Conns : \A x \in written[d] : x \in Nat /\ x < n
  BY <1>3
<1>6. task[c] \in {"running", "ended"}
  BY <1>1, <1>2 DEF TaskInv, StateTypes
<1> HIDE DEF n
<1>7. ASSUME NEW i \in DOMAIN received, received[i].frame = Payload(n) PROVE FALSE
  <2>1. PICK d \in Conns : \E x \in Deliverable(d) : received[i].frame = Payload(x)
    BY <1>2 DEF TcpFramesInOrder, TcpInv
  <2>2. PICK x \in Deliverable(d) : received[i].frame = Payload(x)
    BY <2>1
  <2>3. x = n
    BY <1>7, <2>2, PayloadInjective
  <2> QED
    BY <1>5, <2>3 DEF Deliverable
<1>8. ASSUME NEW i \in DOMAIN rx, rx[i] = Payload(n) PROVE FALSE
  <2>1. PICK d \in Conns : \E x \in Deliverable(d) : rx[i] = Payload(x)
    BY <1>2 DEF QueueInv
  <2>2. PICK x \in Deliverable(d) : rx[i] = Payload(x)
    BY <2>1
  <2>3. x = n
    BY <1>8, <2>2, PayloadInjective
  <2> QED
    BY <1>5, <2>3 DEF Deliverable
<1>9. Returned(c)' = Returned(c) /\ Queued(c)' = Queued(c)
  BY <1>1, <1>4, <1>7, <1>8 DEF Returned, Queued
<1>10. \A d \in Conns \ {c} : Returned(d)' = Returned(d) /\ Queued(d)' = Queued(d)
  BY <1>1, <1>4 DEF Returned, Queued
<1>11. PipeInv(c)'
  <2>1. Pipe(wire[c], batch[c], written[c], Returned(c), Queued(c), task[c], "open")
    BY <1>1, <1>2 DEF PipeInv
  <2>2. Before(written[c], {n})
    BY <1>5 DEF Before
  <2>3. Pipe(Append(wire[c], n), batch[c], written[c] \cup {n}, Returned(c), Queued(c), task[c], "open")
    BY <1>5, <1>6, <2>1, <2>2, PipeWrites
  <2> QED
    BY <1>1, <1>4, <1>9, <2>3 DEF PipeInv
<1>12. TaskInv(c)'
  BY <1>1, <1>2, <1>6 DEF TaskInv
<1>13. WrittenInv'
  <2>1. writes' \in Nat /\ 1..writes \subseteq 1..n /\ n \in 1..n
    BY <1>1, <1>3, <1>5 DEF n
  <2>2. written' \in [Conns -> SUBSET (1..n)]
    <3>1. ASSUME NEW d \in Conns PROVE written'[d] \in SUBSET (1..n)
      BY <1>3, <1>4, <2>1
    <3> QED
      BY <1>1, <1>3, <3>1
  <2>3. wire' \in [Conns -> Seq(Nat)]
    <3>1. Append(wire[c], n) \in Seq(Nat)
      BY <1>3, <1>5
    <3> QED
      BY <1>1, <1>3, <3>1
  <2>4. ASSUME NEW d \in Conns, NEW e \in Conns, NEW x, x \in written'[d], x \in written'[e]
        PROVE  d = e
    <3>1. CASE x = n
      <4>1. \A f \in Conns : x \in written'[f] => f = c
        BY <1>4, <1>5, <3>1
      <4> QED
        BY <2>4, <4>1
    <3>2. CASE x # n
      <4>1. \A f \in Conns : x \in written'[f] => x \in written[f]
        BY <1>4, <3>2
      <4> QED
        BY <1>3, <2>4, <4>1
    <3> QED
      BY <3>1, <3>2
  <2> QED
    BY <1>1, <1>3, <2>1, <2>2, <2>3, <2>4 DEF WrittenInv
<1>14. \A d \in Conns : Deliverable(d) \subseteq Deliverable(d)'
                     /\ \A x \in Deliverable(d)' : x = n \/ x \in Deliverable(d)
  BY <1>4 DEF Deliverable
<1>15. QueueInv'
  <2>1. rx' \in Seq(Seq(Nat)) /\ Len(rx') <= Capacity
    BY <1>1, <1>2 DEF QueueInv
  <2>2. \A i \in DOMAIN rx : \E d \in Conns : \E x \in Deliverable(d)' :
           rx[i] = Payload(x) /\ (kind = "tcp_client" => d = session)
    BY <1>2, <1>14 DEF QueueInv
  <2>3. ASSUME NEW d \in Conns, NEW x \in written'[d], NEW y \in written'[d],
               NEW i \in DOMAIN rx, NEW j \in DOMAIN rx,
               i < j, rx[i] = Payload(x), rx[j] = Payload(y)
        PROVE  x < y
    <3>1. x # n /\ y # n
      BY <1>8, <2>3
    <3>2. x \in written[d] /\ y \in written[d]
      BY <1>4, <3>1
    <3> QED
      BY <1>2, <2>3, <3>2 DEF QueueInv
  <2> QED
    BY <1>1, <2>1, <2>2, <2>3 DEF QueueInv
<1>16. TcpFramesInOrder'
  <2>1. ASSUME NEW i \in DOMAIN received
        PROVE  \E d \in Conns : \E x \in Deliverable(d)' :
                  received[i].frame = Payload(x) /\ (kind = "tcp_client" => received[i].session = d)
    <3>1. \E d \in Conns : \E x \in Deliverable(d) :
             received[i].frame = Payload(x) /\ (kind = "tcp_client" => received[i].session = d)
      BY <1>2 DEF TcpFramesInOrder, TcpInv
    <3> QED
      BY <1>14, <3>1
  <2>2. \A i, j \in DOMAIN received : received[i].frame = received[j].frame => i = j
    BY <1>2 DEF TcpFramesInOrder, TcpInv
  <2>3. ASSUME NEW d \in Conns, NEW x \in Deliverable(d)', NEW y \in Deliverable(d)',
               NEW j \in DOMAIN received, x < y, received[j].frame = Payload(y)
        PROVE  \E i \in 1..(j - 1) : received[i].frame = Payload(x)
    <3>1. y # n
      BY <1>7, <2>3
    <3>2. y \in Deliverable(d)
      BY <1>14, <3>1
    <3>3. x # n
      BY <1>5, <2>3, <3>2 DEF Deliverable
    <3>4. x \in Deliverable(d)
      BY <1>14, <3>3
    <3> QED
      BY <1>2, <2>3, <3>2, <3>4 DEF TcpFramesInOrder, TcpInv
  <2> QED
    BY <1>1, <2>1, <2>2, <2>3 DEF TcpFramesInOrder
<1>17. received' \in Seq(Receipts)
  BY <1>1 DEF TcpInv
<1> QED
  BY <1>1, <1>4, <1>10, <1>11, <1>12, <1>13, <1>15, <1>16, <1>17, OtherConns

\* receive returns the first frame of the channel.
LEMMA ReturnsStep ==
    ASSUME TcpInv, StateTypes, ReceiveFrame, UNCHANGED tcp
    PROVE  TcpInv'
<1> DEFINE new == [session |-> session, frame |-> Head(rx)]
           N == Len(received)
<1>1. /\ rx # <<>> /\ received' = Append(received, new) /\ rx' = Tail(rx)
      /\ UNCHANGED <<kind, online, session, accept, conn, wire, task, batch, writes, written>>
  BY DEF ReceiveFrame, tcp
<1>2. WrittenInv /\ QueueInv /\ TcpFramesInOrder /\ received \in Seq(Receipts) /\ kind # "serial"
  BY DEF TcpInv
<1>3. /\ rx \in Seq(Seq(Nat)) /\ Len(rx) \in Nat /\ Len(rx) > 0 /\ DOMAIN rx = 1..Len(rx)
      /\ Head(rx) = rx[1] /\ rx[1] \in Seq(Nat)
  BY <1>1, <1>2, EmptySeq DEF QueueInv
<1>4. /\ rx' \in Seq(Seq(Nat)) /\ Len(rx') = Len(rx) - 1 /\ DOMAIN rx' = 1..(Len(rx) - 1)
      /\ \A i \in 1..(Len(rx) - 1) : rx'[i] = rx[i + 1]
  BY <1>1, <1>3
<1>5. N \in Nat /\ DOMAIN received = 1..N /\ new \in Receipts
  BY <1>2, <1>3 DEF StateTypes, Receipts
<1>6. /\ received' \in Seq(Receipts) /\ DOMAIN received' = 1..(N + 1)
      /\ received'[N + 1] = new /\ \A i \in 1..N : received'[i] = received[i]
  <2>1. Len(received') = N + 1
    BY <1>1, <1>2, <1>5, AppendProperties
  <2> QED
    BY <1>1, <1>2, <1>5, <2>1, AppendProperties
<1>7. PICK c \in Conns : \E m \in Deliverable(c) :
         rx[1] = Payload(m) /\ (kind = "tcp_client" => c = session)
  <2>1. 1 \in DOMAIN rx
    BY <1>3
  <2> QED
    BY <1>2, <2>1 DEF QueueInv
<1>8. PICK m \in Deliverable(c) : rx[1] = Payload(m) /\ (kind = "tcp_client" => c = session)
  BY <1>7
<1>9. new.frame = Payload(m) /\ new.session = session /\ m \in written[c]
  BY <1>3, <1>8 DEF Deliverable
<1> HIDE DEF new, N
<1>10. ASSUME NEW d \in Conns, m \in written[d] PROVE d = c
  BY <1>2, <1>9, <1>10 DEF WrittenInv
<1>11. ASSUME NEW n PROVE (\E i \in 1..(N + 1) : received'[i].frame = Payload(n))
                             <=> ((\E i \in 1..N : received[i].frame = Payload(n)) \/ n = m)
  <2>1. ASSUME NEW i \in 1..(N + 1), received'[i].frame = Payload(n)
        PROVE  (\E k \in 1..N : received[k].frame = Payload(n)) \/ n = m
    <3>1. CASE i = N + 1
      BY <1>6, <1>9, <2>1, <3>1, PayloadInjective
    <3>2. CASE i # N + 1
      <4>1. i \in 1..N
        BY <1>5, <3>2
      <4> QED
        BY <1>6, <2>1, <4>1
    <3> QED
      BY <3>1, <3>2
  <2>2. ASSUME NEW i \in 1..N PROVE i \in 1..(N + 1) /\ received'[i] = received[i]
    BY <1>5, <1>6
  <2>3. N + 1 \in 1..(N + 1) /\ received'[N + 1].frame = Payload(m)
    BY <1>5, <1>6, <1>9
  <2> QED
    BY <2>1, <2>2, <2>3
<1>12. ASSUME NEW n PROVE (\E i \in 1..Len(rx) : rx[i] = Payload(n))
                             <=> ((\E i \in 1..(Len(rx) - 1) : rx'[i] = Payload(n)) \/ n = m)
  <2>1. ASSUME NEW i \in 1..Len(rx), rx[i] = Payload(n)
        PROVE  (\E k \in 1..(Len(rx) - 1) : rx'[k] = Payload(n)) \/ n = m
    <3>1. CASE i = 1
      BY <1>8, <2>1, <3>1, PayloadInjective
    <3>2. CASE i # 1
      <4>1. i - 1 \in 1..(Len(rx) - 1) /\ (i - 1) + 1 = i
        BY <1>3, <3>2
      <4> QED
        BY <1>4, <2>1, <4>1
    <3> QED
      BY <3>1, <3>2
  <2>2. ASSUME NEW i \in 1..(Len(rx) - 1) PROVE i + 1 \in 1..Len(rx) /\ rx'[i] = rx[i + 1]
    BY <1>3, <1>4
  <2>3. 1 \in 1..Len(rx)
    BY <1>3
  <2> QED
    BY <1>8, <2>1, <2>2, <2>3
<1>13. /\ Returned(c)' = Returned(c) \cup {m} /\ Queued(c) = Queued(c)' \cup {m}
       /\ \A d \in Conns \ {c} : Returned(d)' = Returned(d) /\ Queued(d)' = Queued(d)
  <2>1. Returned(c)' = Returned(c) \cup {m}
    BY <1>1, <1>5, <1>6, <1>9, <1>11 DEF Returned
  <2>2. Queued(c) = Queued(c)' \cup {m}
    BY <1>1, <1>3, <1>4, <1>9, <1>12 DEF Queued
  <2>3. ASSUME NEW d \in Conns \ {c} PROVE Returned(d)' = Returned(d) /\ Queued(d)' = Queued(d)
    <3>1. m \notin written[d]
      BY <1>10
    <3>2. Returned(d)' = Returned(d)
      BY <1>1, <1>5, <1>6, <1>11, <3>1 DEF Returned
    <3>3. Queued(d)' = Queued(d)
      BY <1>1, <1>3, <1>4, <1>12, <3>1 DEF Queued
    <3> QED
      BY <3>2, <3>3
  <2> QED
    BY <2>1, <2>2, <2>3
<1>14. Before({m}, Queued(c)')
  <2> SUFFICES ASSUME NEW n \in written[c], NEW i \in 1..(Len(rx) - 1), rx'[i] = Payload(n)
               PROVE  m < n
    BY <1>1, <1>4 DEF Queued, Before
  <2>1. i + 1 \in 1..Len(rx) /\ 1 \in 1..Len(rx) /\ 1 < i + 1 /\ rx[i + 1] = Payload(n)
    BY <1>3, <1>4, SMTT(60)
  <2>2. \A k, h \in 1..Len(rx) : k < h /\ rx[k] = Payload(m) /\ rx[h] = Payload(n) => m < n
    BY <1>2, <1>3, <1>9 DEF QueueInv
  <2> QED
    BY ONLY <1>8, <2>1, <2>2
<1>15. /\ PipeInv(c)' /\ Before(Returned(c), {m})
       /\ \A n \in Deliverable(c) : n < m => n \in Returned(c)
  <2>1. Pipe(wire[c], batch[c], written[c], Returned(c), Queued(c)' \cup {m}, task[c], conn[c])
    BY <1>13 DEF TcpInv, PipeInv
  <2>2. /\ Pipe(wire[c], batch[c], written[c], Returned(c) \cup {m}, Queued(c)', task[c], conn[c])
        /\ Before(Returned(c), {m}) /\ \A n \in written[c] \ Oversized : n < m => n \in Returned(c)
    BY <1>14, <2>1, PipeReturns
  <2>3. PipeInv(c)'
    BY <1>1, <1>13, <2>2 DEF PipeInv
  <2> QED
    BY <2>2, <2>3 DEF Deliverable
<1>16. WrittenInv' /\ TaskInv(c)'
  BY <1>1, <1>2, WrittenSame DEF TcpInv, TaskInv
<1>17. kind' = kind /\ session' = session /\ written' = written
  BY <1>1
<1>18. QueueInv'
  <2>1. Len(rx') <= Capacity
    BY <1>2, <1>3, <1>4, CapacityAssumption DEF QueueInv
  <2>2. ASSUME NEW i \in 1..(Len(rx) - 1)
        PROVE  \E d \in Conns : \E n \in Deliverable(d) :
                  rx'[i] = Payload(n) /\ (kind = "tcp_client" => d = session)
    <3>1. i + 1 \in 1..Len(rx) /\ rx'[i] = rx[i + 1]
      BY <1>3, <1>4
    <3> QED
      BY <1>2, <1>3, <3>1 DEF QueueInv
  <2>3. ASSUME NEW d \in Conns, NEW x \in written[d], NEW y \in written[d],
               NEW i \in 1..(Len(rx) - 1), NEW j \in 1..(Len(rx) - 1),
               i < j, rx'[i] = Payload(x), rx'[j] = Payload(y)
        PROVE  x < y
    <3> DEFINE k == i + 1
               l == j + 1
    <3>1. /\ k \in DOMAIN rx /\ l \in DOMAIN rx /\ k < l
          /\ rx[k] = Payload(x) /\ rx[l] = Payload(y)
      BY <1>3, <1>4, <2>3
    <3> HIDE DEF k, l
    <3> QED
      BY <1>2, <3>1 DEF QueueInv
  <2>4. \A d \in Conns : Deliverable(d)' = Deliverable(d)
    BY <1>1 DEF Deliverable
  <2>5. ASSUME NEW i \in DOMAIN rx'
        PROVE  \E d \in Conns : \E n \in Deliverable(d)' :
                  rx'[i] = Payload(n) /\ (kind' = "tcp_client" => d = session')
    <3>1. i \in 1..(Len(rx) - 1)
      BY <1>4
    <3>2. PICK d \in Conns : \E n \in Deliverable(d) :
             rx'[i] = Payload(n) /\ (kind = "tcp_client" => d = session)
      BY <2>2, <3>1
    <3>3. Deliverable(d)' = Deliverable(d)
      BY <2>4
    <3> QED
      BY <1>17, <3>2, <3>3
  <2>6. \A d \in Conns : \A x, y \in written'[d] : \A i, j \in DOMAIN rx' :
           i < j /\ rx'[i] = Payload(x) /\ rx'[j] = Payload(y) => x < y
    BY <1>4, <1>17, <2>3
  <2> QED
    BY <1>4, <2>1, <2>5, <2>6 DEF QueueInv
<1>19. TcpFramesInOrder'
  <2>1. ASSUME NEW i \in 1..(N + 1)
        PROVE  \E d \in Conns : \E n \in Deliverable(d) :
                  received'[i].frame = Payload(n) /\ (kind = "tcp_client" => received'[i].session = d)
    <3>1. CASE i = N + 1
      BY <1>6, <1>8, <1>9, <3>1
    <3>2. CASE i # N + 1
      <4>1. i \in 1..N
        BY <1>5, <3>2
      <4> QED
        BY <1>2, <1>5, <1>6, <4>1 DEF TcpFramesInOrder
    <3> QED
      BY <3>1, <3>2
  <2>2. ASSUME NEW i \in 1..N PROVE received[i].frame # Payload(m)
    <3>1. received[i].frame = Payload(m) => m \in Returned(c)
      BY <1>5, <1>9 DEF Returned
    <3>2. m \in Nat
      BY <1>2, <1>9 DEF WrittenInv
    <3> QED
      BY <1>15, <3>1, <3>2 DEF Before
  <2>3. ASSUME NEW i \in 1..(N + 1), NEW j \in 1..(N + 1), received'[i].frame = received'[j].frame
        PROVE  i = j
    <3>1. CASE i \in 1..N /\ j \in 1..N
      BY <1>2, <1>5, <1>6, <2>3, <3>1 DEF TcpFramesInOrder
    <3>2. CASE i \in 1..N /\ j = N + 1
      BY <1>6, <1>9, <2>2, <2>3, <3>2
    <3>3. CASE i = N + 1 /\ j \in 1..N
      BY <1>6, <1>9, <2>2, <2>3, <3>3
    <3> QED
      BY <1>5, <3>1, <3>2, <3>3
  <2>4. ASSUME NEW d \in Conns, NEW x \in Deliverable(d), NEW y \in Deliverable(d),
               NEW j \in 1..(N + 1), x < y, received'[j].frame = Payload(y)
        PROVE  \E i \in 1..(j - 1) : received'[i].frame = Payload(x)
    <3>1. CASE j \in 1..N
      <4>1. PICK i \in 1..(j - 1) : received[i].frame = Payload(x)
        BY <1>2, <1>5, <1>6, <2>4, <3>1 DEF TcpFramesInOrder
      <4>2. i \in 1..N
        BY <1>5, <3>1
      <4> QED
        BY <1>6, <4>1, <4>2
    <3>2. CASE j = N + 1
      <4>1. y = m
        BY <1>6, <1>9, <2>4, <3>2, PayloadInjective
      <4>2. d = c
        BY <1>10, <4>1 DEF Deliverable
      <4>3. PICK i \in 1..N : received[i].frame = Payload(x)
        BY <1>5, <1>15, <2>4, <4>1, <4>2 DEF Returned
      <4>4. i \in 1..(j - 1)
        BY <1>5, <3>2
      <4> QED
        BY <1>6, <4>3, <4>4
    <3> QED
      BY <1>5, <3>1, <3>2
  <2>5. \A d \in Conns : Deliverable(d)' = Deliverable(d)
    BY <1>1 DEF Deliverable
  <2>6. \A i \in DOMAIN received' : \E d \in Conns : \E n \in Deliverable(d)' :
           received'[i].frame = Payload(n) /\ (kind' = "tcp_client" => received'[i].session = d)
    BY <1>6, <1>17, <2>1, <2>5
  <2>7. \A d \in Conns : \A x, y \in Deliverable(d)' : \A j \in DOMAIN received' :
           x < y /\ received'[j].frame = Payload(y)
              => \E i \in 1..(j - 1) : received'[i].frame = Payload(x)
    BY <1>6, <2>4, <2>5
  <2>8. \A i, j \in DOMAIN received' : received'[i].frame = received'[j].frame => i = j
    BY <1>6, <2>3
  <2> QED
    BY <2>6, <2>7, <2>8 DEF TcpFramesInOrder
<1> QED
  BY <1>1, <1>6, <1>13, <1>15, <1>16, <1>18, <1>19, OtherConns

\* start and shutdown of a client.
LEMMA ClientTcp ==
    ASSUME TcpInv, StateTypes, TasksInv, ClientStart \/ ClientShutdown \/ ClientShutdownEnds
    PROVE  TcpInv'
<1>0. /\ \A c \in Conns : TaskInv(c) /\ kind # "serial"
      /\ accept \in {"none", "running", "joining", "ended"}
      /\ task \in [Conns -> {"none", "running", "ended"}] /\ DOMAIN conn = Conns
  BY DEF TcpInv, StateTypes
<1>1. CASE ClientStart
  <2>1. /\ kind = "tcp_client" /\ ~online /\ online' /\ session' = session + 1 /\ rx' = <<>>
        /\ conn' = [conn EXCEPT ![session'] = "open"] /\ task' = [task EXCEPT ![session'] = "running"]
        /\ UNCHANGED <<kind, received, accept, wire, batch, writes, written>>
    BY <1>1 DEF ClientStart, Started
  <2>2. \A c \in Conns : task[c] # "running"
    BY <1>0, <2>1 DEF TaskInv
  <2>3. ASSUME NEW c \in Conns
        PROVE  \/ task'[c] = task[c] /\ (conn'[c] = "none" <=> conn[c] = "none")
               \/ /\ task[c] = "none" /\ task'[c] = "running" /\ conn'[c] = "open"
                  /\ kind = "tcp_client" /\ c = session' /\ online'
    <3>1. CASE c = session'
      <4>1. session \in Nat /\ ~(c <= session)
        BY <2>1, <3>1 DEF StateTypes
      <4>2. task[c] = "none"
        BY <2>1, <4>1 DEF TasksInv
      <4> QED
        BY <1>0, <2>1, <3>1, <4>2
    <3>2. CASE c # session'
      BY <1>0, <2>1, <3>2
    <3> QED
      BY <3>1, <3>2
  <2> QED
    BY <1>0, <2>1, <2>2, <2>3, RestartStep
<1>2. CASE ClientShutdown
  <2>1. /\ kind = "tcp_client"
        /\ UNCHANGED <<kind, online, session, rx, received, accept, conn, wire, task, batch, writes, written>>
    BY <1>2 DEF ClientShutdown, object
  <2> QED
    BY <1>0, <2>1, QuietStep
<1>3. CASE ClientShutdownEnds
  <2>1. /\ kind = "tcp_client" /\ task[session] = "ended" /\ rx' = <<>>
        /\ conn' = [conn EXCEPT ![session] = "closed"]
        /\ UNCHANGED <<kind, received, accept, wire, task, batch, writes, written>>
    BY <1>3 DEF ClientShutdownEnds, Stopped
  <2>2. \A c \in Conns : task[c] # "running"
    BY <1>0, <2>1 DEF TaskInv
  <2>3. ASSUME NEW c \in Conns PROVE task'[c] = task[c] /\ (conn'[c] = "none" <=> conn[c] = "none")
    <3>1. CASE c = session
      BY <1>0, <2>1, <3>1 DEF TaskInv
    <3>2. CASE c # session
      BY <1>0, <2>1, <3>2
    <3> QED
      BY <3>1, <3>2
  <2> QED
    BY <1>0, <2>1, <2>2, <2>3, RestartStep
<1> QED
  BY <1>1, <1>2, <1>3

\* start and shutdown of a server, and its accept task.
LEMMA ServerTcp ==
    ASSUME TcpInv, StateTypes,
           \/ ServerStart \/ ServerShutdown \/ ServerShutdownEnds
           \/ AcceptLoopStops \/ AcceptFails \/ AcceptLoopJoins
    PROVE  TcpInv'
<1>0. /\ \A c \in Conns : TaskInv(c)
      /\ accept \in {"none", "running", "joining", "ended"}
      /\ kind = "tcp_server" /\ accept \in {"running", "joining"} => online
      /\ task \in [Conns -> {"none", "running", "ended"}]
  BY DEF TcpInv, StateTypes
<1>1. CASE ServerStart
  <2>1. /\ ~online /\ online' /\ rx' = <<>> /\ accept' = "running"
        /\ UNCHANGED <<kind, received, conn, wire, task, batch, writes, written>>
    BY <1>1 DEF ServerStart, Started
  <2>2. \A c \in Conns : task[c] # "running"
    BY <1>0, <2>1 DEF TaskInv
  <2> QED
    BY <1>0, <2>1, <2>2, RestartStep
<1>2. CASE ServerShutdown
  <2>1. UNCHANGED <<kind, online, session, rx, received, accept, conn, wire, task, batch, writes, written>>
    BY <1>2 DEF ServerShutdown, object
  <2> QED
    BY <1>0, <2>1, QuietStep DEF TaskInv
<1>3. CASE ServerShutdownEnds
  <2>1. /\ kind = "tcp_server" /\ accept = "ended" /\ rx' = <<>>
        /\ UNCHANGED <<kind, received, accept, conn, wire, task, batch, writes, written>>
    BY <1>3 DEF ServerShutdownEnds, Stopped
  <2>2. \A c \in Conns : task[c] # "running"
    BY <1>0, <2>1 DEF TaskInv
  <2> QED
    BY <1>0, <2>1, <2>2, RestartStep
<1>4. CASE AcceptLoopStops \/ AcceptFails
  <2>1. /\ kind = "tcp_server" /\ accept = "running" /\ accept' = "joining"
        /\ UNCHANGED <<kind, online, session, rx, received, conn, wire, task, batch, writes, written>>
    BY <1>4 DEF AcceptLoopStops, AcceptFails, AcceptLoopBreaks, object
  <2> QED
    BY <1>0, <2>1, QuietStep
<1>5. CASE AcceptLoopJoins
  <2>1. /\ accept' = "ended" /\ \A c \in Conns : task[c] # "running"
        /\ UNCHANGED <<kind, online, session, rx, received, conn, wire, task, batch, writes, written>>
    BY <1>5 DEF AcceptLoopJoins, object
  <2> QED
    BY <2>1, QuietStep
<1> QED
  BY <1>1, <1>2, <1>3, <1>4, <1>5

\* Every step of a TCP interface keeps the invariant.
LEMMA TcpStep ==
    ASSUME TcpInv, StateTypes, TasksInv, TcpNext
    PROVE  TcpInv'
<1>1. CASE ClientStart \/ ClientShutdown \/ ClientShutdownEnds
  BY <1>1, ClientTcp
<1>2. CASE \/ ServerStart \/ ServerShutdown \/ ServerShutdownEnds
           \/ AcceptLoopStops \/ AcceptFails \/ AcceptLoopJoins
  BY <1>2, ServerTcp
<1>3. CASE ClientSend
  <2>1. UNCHANGED <<kind, online, session, rx, received, accept, conn, wire, task, batch, writes, written>>
    BY <1>3 DEF ClientSend, Written, tcp
  <2> QED
    BY <2>1, QuietStep DEF TcpInv, TaskInv
<1>4. CASE TcpReceive
  <2>1. CASE ReceiveFrame
    BY <1>4, <2>1, ReturnsStep DEF TcpReceive
  <2>2. CASE ReceiveLost(TcpSendersGone)
    <3>1. UNCHANGED <<kind, online, session, rx, received, accept, conn, wire, task, batch, writes, written>>
      BY <1>4, <2>2 DEF TcpReceive, ReceiveLost, tcp
    <3> QED
      BY <3>1, QuietStep DEF TcpInv, TaskInv
  <2> QED
    BY <1>4, <2>1, <2>2 DEF TcpReceive
<1>5. ASSUME NEW c \in Conns, ServerAccepts(c) \/ ReadLoop(c) \/ PeerWrites(c) \/ PeerCloses(c)
      PROVE  TcpInv'
  BY <1>5, AcceptsStep, EndsStep, ReadsStep, PushesStep, WritesStep, ClosesStep DEF ReadLoop
<1> QED
  BY <1>1, <1>2, <1>3, <1>4, <1>5 DEF TcpNext

-----------------------------------------------------------------------------
(* A frame on a serial line and the decoder that reads it *)

\* A sequence is its elements.
LEMMA FourBytes ==
    ASSUME NEW s \in Seq(Byte), Len(s) = 4
    PROVE  s = <<s[1], s[2], s[3], s[4]>>
OBVIOUS

\* So is a longer one.
LEMMA SixBytes ==
    ASSUME NEW s \in Seq(Byte), Len(s) = 6
    PROVE  s = <<s[1], s[2], s[3], s[4], s[5], s[6]>>
OBVIOUS

\* The bytes of frame n, and what may be left of them while it is read.
FrameBytes(n) ==
    IF n \in {FLAG, ESC} THEN <<FLAG, ESC, XorMask(n), ESC, XorMask(n), FLAG>> ELSE <<FLAG, n, n, FLAG>>

Rests(n) ==
    IF n \in {FLAG, ESC}
      THEN {FrameBytes(n), <<ESC, XorMask(n), ESC, XorMask(n), FLAG>>, <<XorMask(n), ESC, XorMask(n), FLAG>>,
            <<ESC, XorMask(n), FLAG>>, <<XorMask(n), FLAG>>, <<FLAG>>}
      ELSE {FrameBytes(n), <<n, n, FLAG>>, <<n, FLAG>>, <<FLAG>>}

\* The decoder d is in frame n, of which r is left.
Reading(d, n, r) ==
    IF n \in {FLAG, ESC}
      THEN \/ d = Inside(<<>>, NoCommand) /\ r = <<ESC, XorMask(n), ESC, XorMask(n), FLAG>>
           \/ d = Escaped(<<>>, NoCommand) /\ r = <<XorMask(n), ESC, XorMask(n), FLAG>>
           \/ d = Inside(<<n>>, NoCommand) /\ r = <<ESC, XorMask(n), FLAG>>
           \/ d = Escaped(<<n>>, NoCommand) /\ r = <<XorMask(n), FLAG>>
           \/ d = Inside(<<n, n>>, NoCommand) /\ r = <<FLAG>>
      ELSE \/ d = Inside(<<>>, NoCommand) /\ r = <<n, n, FLAG>>
           \/ d = Inside(<<n>>, NoCommand) /\ r = <<n, FLAG>>
           \/ d = Inside(<<n, n>>, NoCommand) /\ r = <<FLAG>>

\* The decoder waits for a flag, or was opened by the flag that ends a frame, or is in frame n.
Follows(d, n, r) == d = Idle \/ (d = Open /\ r = FrameBytes(n)) \/ Reading(d, n, r)

\* A byte more.
LEMMA OneMore ==
    ASSUME NEW s \in Seq(Byte), NEW x \in Byte
    PROVE  /\ Append(s, x) \in Seq(Byte) /\ Len(Append(s, x)) = Len(s) + 1
           /\ \A i \in 1..Len(s) : Append(s, x)[i] = s[i]
           /\ Append(s, x)[Len(s) + 1] = x
BY AppendProperties

\* Two bytes more.
LEMMA TwoMore ==
    ASSUME NEW s \in Seq(Byte), NEW x \in Byte, NEW y \in Byte
    PROVE  s \o <<x, y>> = Append(Append(s, x), y)
<1>1. <<x, y>> = Append(<<x>>, y) /\ <<x>> \in Seq(Byte) /\ <<y>> \in Seq(Byte)
  BY Singletons
<1>2. <<x, y>> = <<x>> \o <<y>>
  BY <1>1, AppendByte
<1>3. s \o <<x>> = Append(s, x) /\ Append(s, x) \in Seq(Byte)
  BY AppendByte
<1>4. Append(s, x) \o <<y>> = Append(Append(s, x), y)
  BY <1>3, AppendByte
<1> QED
  BY <1>1, <1>2, <1>3, <1>4, ConcatBytes

\* What the encoder makes of the payload of frame n.
LEMMA WholeFrame ==
    ASSUME NEW n \in Byte
    PROVE  hdlc_encode(Payload(n)) = FrameBytes(n)
<1>0. FLAG \in Byte /\ ESC \in Byte
  BY DEF FLAG, ESC, Byte
<1>a. PICK x \in Byte : x = XorMask(n)
  BY XorBytes
<1>b. PICK c \in Seq(Byte) : c = HdlcCode(n)
  BY CodeTypes
<1>c. PICK a \in Seq(Byte) : a = <<FLAG>>
  <2>1. <<FLAG>> \in Seq(Byte)
    BY <1>0
  <2> QED
    BY <2>1
<1>1. Len(a) = 1 /\ a[1] = FLAG
  BY <1>c
<1>2. hdlc_encode(Payload(n)) = ((a \o c) \o c) \o <<FLAG>>
  <2>1. Payload(n) = Append(Append(<<>>, n), n) /\ Append(<<>>, n) \in Seq(Byte) /\ <<>> \in Seq(Byte)
    BY Singletons DEF Payload
  <2>2. HdlcEscape(Append(<<>>, n)) = HdlcEscape(<<>>) \o c
    BY <1>b, <2>1, HdlcEscapeSteps
  <2>3. HdlcEscape(<<>>) = <<>>
    BY <2>1, HdlcEscapeSteps
  <2>4. HdlcEscape(Append(Append(<<>>, n), n)) = HdlcEscape(Append(<<>>, n)) \o c
    BY <1>b, <2>1, HdlcEscapeSteps
  <2>5. <<>> \o c = c
    OBVIOUS
  <2>6. hdlc_encode(Payload(n)) = (a \o (c \o c)) \o <<FLAG>>
    BY <1>c, <2>1, <2>2, <2>3, <2>4, <2>5 DEF hdlc_encode, HdlcEncode
  <2> QED
    BY <2>6, ConcatBytes
<1>3. CASE n \in {FLAG, ESC}
  <2>1. PICK b : b = Append(a, ESC)
    OBVIOUS
  <2>2. b \in Seq(Byte) /\ Len(b) = Len(a) + 1 /\ b[Len(a) + 1] = ESC /\ \A i \in 1..Len(a) : b[i] = a[i]
    BY <1>0, <2>1, OneMore
  <2>3. Len(b) = 2 /\ b[1] = FLAG /\ b[2] = ESC
    BY <1>1, <2>2
  <2>4. PICK d : d = Append(b, x)
    OBVIOUS
  <2>5. d \in Seq(Byte) /\ Len(d) = Len(b) + 1 /\ d[Len(b) + 1] = x /\ \A i \in 1..Len(b) : d[i] = b[i]
    BY <2>2, <2>4, OneMore
  <2>6. Len(d) = 3 /\ d[1] = FLAG /\ d[2] = ESC /\ d[3] = x
    BY <2>3, <2>5
  <2>7. PICK e : e = Append(d, ESC)
    OBVIOUS
  <2>8. e \in Seq(Byte) /\ Len(e) = Len(d) + 1 /\ e[Len(d) + 1] = ESC /\ \A i \in 1..Len(d) : e[i] = d[i]
    BY <1>0, <2>5, <2>7, OneMore
  <2>9. Len(e) = 4 /\ e[1] = FLAG /\ e[2] = ESC /\ e[3] = x /\ e[4] = ESC
    BY <2>6, <2>8
  <2>10. PICK f : f = Append(e, x)
    OBVIOUS
  <2>11. f \in Seq(Byte) /\ Len(f) = Len(e) + 1 /\ f[Len(e) + 1] = x /\ \A i \in 1..Len(e) : f[i] = e[i]
    BY <2>8, <2>10, OneMore
  <2>12. Len(f) = 5 /\ f[1] = FLAG /\ f[2] = ESC /\ f[3] = x /\ f[4] = ESC /\ f[5] = x
    BY <2>9, <2>11
  <2>13. PICK g : g = Append(f, FLAG)
    OBVIOUS
  <2>14. g \in Seq(Byte) /\ Len(g) = Len(f) + 1 /\ g[Len(f) + 1] = FLAG /\ \A i \in 1..Len(f) : g[i] = f[i]
    BY <1>0, <2>11, <2>13, OneMore
  <2>15. Len(g) = 6 /\ g[1] = FLAG /\ g[2] = ESC /\ g[3] = x /\ g[4] = ESC /\ g[5] = x /\ g[6] = FLAG
    BY <2>12, <2>14
  <2>16. g = <<FLAG, ESC, x, ESC, x, FLAG>>
    BY <2>14, <2>15, SixBytes
  <2>17. c = <<ESC, x>>
    BY <1>3, <1>a, <1>b DEF HdlcCode
  <2>18. a \o c = d
    BY <1>0, <2>1, <2>4, <2>17, TwoMore
  <2>19. d \o c = f
    BY <1>0, <2>5, <2>7, <2>10, <2>17, TwoMore
  <2>20. f \o <<FLAG>> = g
    BY <1>0, <2>11, <2>13, AppendByte
  <2> QED
    BY <1>2, <1>3, <1>a, <2>16, <2>18, <2>19, <2>20 DEF FrameBytes
<1>4. CASE n \notin {FLAG, ESC}
  <2>1. PICK b : b = Append(a, n)
    OBVIOUS
  <2>2. b \in Seq(Byte) /\ Len(b) = Len(a) + 1 /\ b[Len(a) + 1] = n /\ \A i \in 1..Len(a) : b[i] = a[i]
    BY <2>1, OneMore
  <2>3. Len(b) = 2 /\ b[1] = FLAG /\ b[2] = n
    BY <1>1, <2>2
  <2>4. PICK d : d = Append(b, n)
    OBVIOUS
  <2>5. d \in Seq(Byte) /\ Len(d) = Len(b) + 1 /\ d[Len(b) + 1] = n /\ \A i \in 1..Len(b) : d[i] = b[i]
    BY <2>2, <2>4, OneMore
  <2>6. Len(d) = 3 /\ d[1] = FLAG /\ d[2] = n /\ d[3] = n
    BY <2>3, <2>5
  <2>7. PICK e : e = Append(d, FLAG)
    OBVIOUS
  <2>8. e \in Seq(Byte) /\ Len(e) = Len(d) + 1 /\ e[Len(d) + 1] = FLAG /\ \A i \in 1..Len(d) : e[i] = d[i]
    BY <1>0, <2>5, <2>7, OneMore
  <2>9. Len(e) = 4 /\ e[1] = FLAG /\ e[2] = n /\ e[3] = n /\ e[4] = FLAG
    BY <2>6, <2>8
  <2>10. e = <<FLAG, n, n, FLAG>>
    BY <2>8, <2>9, FourBytes
  <2>11. c = <<n>>
    BY <1>4, <1>b DEF HdlcCode
  <2>12. a \o c = b /\ b \o c = d
    BY <2>1, <2>2, <2>4, <2>11, AppendByte
  <2>13. d \o <<FLAG>> = e
    BY <1>0, <2>5, <2>7, AppendByte
  <2> QED
    BY <1>2, <1>4, <2>10, <2>12, <2>13 DEF FrameBytes
<1> QED
  BY <1>3, <1>4

\* The rest of a short sequence.
LEMMA Tails ==
    ASSUME NEW a, NEW b, NEW c, NEW d, NEW e, NEW f
    PROVE  /\ Tail(<<a, b, c, d, e, f>>) = <<b, c, d, e, f>> /\ Tail(<<a, b, c, d, e>>) = <<b, c, d, e>>
           /\ Tail(<<a, b, c, d>>) = <<b, c, d>> /\ Tail(<<a, b, c>>) = <<b, c>> /\ Tail(<<a, b>>) = <<b>>
<1>1. Tail(<<a, b, c, d, e, f>>) = <<b, c, d, e, f>>
  OBVIOUS
<1>2. Tail(<<a, b, c, d, e>>) = <<b, c, d, e>>
  OBVIOUS
<1>3. Tail(<<a, b, c, d>>) = <<b, c, d>>
  OBVIOUS
<1>4. Tail(<<a, b, c>>) = <<b, c>>
  OBVIOUS
<1>5. Tail(<<a, b>>) = <<b>>
  OBVIOUS
<1> QED
  BY <1>1, <1>2, <1>3, <1>4, <1>5

\* Where the flags of a frame are, and what comes after a byte of it.
LEMMA RestParts ==
    ASSUME NEW n \in Byte, NEW r \in Rests(n)
    PROVE  /\ r # <<>> /\ r \in Seq(Byte) /\ r[1] \in Byte /\ Len(r) \in Nat \ {0}
           /\ r[1] = FLAG => r = FrameBytes(n) \/ r = <<FLAG>>
           /\ Len(r) = 1 => r = <<FLAG>>
           /\ Len(r) > 1 => Tail(r) \in Rests(n)
           /\ r = FrameBytes(n) => r[1] = FLAG /\ Len(r) > 1 /\ Reading(Open, n, Tail(r))
<1>0. FLAG \in Byte /\ ESC \in Byte /\ FLAG # ESC /\ Open = Inside(<<>>, NoCommand)
  BY DEF FLAG, ESC, Byte, Open, Inside
<1>1. PICK x \in Byte : x = XorMask(n)
  BY XorBytes
<1>2. CASE n \in {FLAG, ESC}
  <2>1. x # FLAG
    BY <1>1, <1>2, XorBytes DEF FLAG
  <2>2. FrameBytes(n) = <<FLAG, ESC, x, ESC, x, FLAG>>
    BY <1>1, <1>2 DEF FrameBytes
  <2>3. Rests(n) = {<<FLAG, ESC, x, ESC, x, FLAG>>, <<ESC, x, ESC, x, FLAG>>, <<x, ESC, x, FLAG>>,
                    <<ESC, x, FLAG>>, <<x, FLAG>>, <<FLAG>>}
    BY <1>1, <1>2, <2>2 DEF Rests
  <2>4. Reading(Open, n, <<ESC, x, ESC, x, FLAG>>)
    BY <1>0, <1>1, <1>2 DEF Reading
  <2>5. CASE r = <<FLAG, ESC, x, ESC, x, FLAG>>
    <3>1. Tail(r) = <<ESC, x, ESC, x, FLAG>> /\ r[1] = FLAG /\ Len(r) = 6
      BY <2>5, Tails
    <3>2. r \in Seq(Byte)
      BY <1>0, <2>5
    <3> QED
      BY <1>0, <2>2, <2>3, <2>4, <2>5, <3>1, <3>2
  <2>6. CASE r = <<ESC, x, ESC, x, FLAG>>
    <3>1. Tail(r) = <<x, ESC, x, FLAG>> /\ r[1] = ESC /\ Len(r) = 5 /\ r # FrameBytes(n)
      BY <2>2, <2>6, Tails
    <3>2. r \in Seq(Byte)
      BY <1>0, <2>6
    <3> QED
      BY <1>0, <2>3, <3>1, <3>2
  <2>7. CASE r = <<x, ESC, x, FLAG>>
    <3>1. Tail(r) = <<ESC, x, FLAG>> /\ r[1] = x /\ Len(r) = 4 /\ r # FrameBytes(n)
      BY <2>2, <2>7, Tails
    <3>2. r \in Seq(Byte)
      BY <1>0, <2>7
    <3> QED
      BY <1>0, <2>1, <2>3, <3>1, <3>2
  <2>8. CASE r = <<ESC, x, FLAG>>
    <3>1. Tail(r) = <<x, FLAG>> /\ r[1] = ESC /\ Len(r) = 3 /\ r # FrameBytes(n)
      BY <2>2, <2>8, Tails
    <3>2. r \in Seq(Byte)
      BY <1>0, <2>8
    <3> QED
      BY <1>0, <2>3, <3>1, <3>2
  <2>9. CASE r = <<x, FLAG>>
    <3>1. Tail(r) = <<FLAG>> /\ r[1] = x /\ Len(r) = 2 /\ r # FrameBytes(n)
      BY <2>2, <2>9, Tails
    <3>2. r \in Seq(Byte)
      BY <1>0, <2>9
    <3> QED
      BY <1>0, <2>1, <2>3, <3>1, <3>2
  <2>10. CASE r = <<FLAG>>
    <3>1. r[1] = FLAG /\ Len(r) = 1 /\ r # FrameBytes(n)
      BY <2>2, <2>10
    <3>2. r \in Seq(Byte)
      BY <1>0, <2>10
    <3> QED
      BY <1>0, <2>10, <3>1, <3>2
  <2> QED
    BY <2>3, <2>5, <2>6, <2>7, <2>8, <2>9, <2>10
<1>3. CASE n \notin {FLAG, ESC}
  <2>2. FrameBytes(n) = <<FLAG, n, n, FLAG>>
    BY <1>3 DEF FrameBytes
  <2>3. Rests(n) = {<<FLAG, n, n, FLAG>>, <<n, n, FLAG>>, <<n, FLAG>>, <<FLAG>>}
    BY <1>3, <2>2 DEF Rests
  <2>4. Reading(Open, n, <<n, n, FLAG>>)
    BY <1>0, <1>3 DEF Reading
  <2>5. CASE r = <<FLAG, n, n, FLAG>>
    <3>1. Tail(r) = <<n, n, FLAG>> /\ r[1] = FLAG /\ Len(r) = 4
      BY <2>5, Tails
    <3>2. r \in Seq(Byte)
      BY <1>0, <2>5
    <3> QED
      BY <1>0, <2>2, <2>3, <2>4, <2>5, <3>1, <3>2
  <2>6. CASE r = <<n, n, FLAG>>
    <3>1. Tail(r) = <<n, FLAG>> /\ r[1] = n /\ Len(r) = 3 /\ r # FrameBytes(n)
      BY <2>2, <2>6, Tails
    <3>2. r \in Seq(Byte)
      BY <1>0, <2>6
    <3>3. Tail(r) \in Rests(n) /\ n # FLAG
      BY <1>3, <2>3, <3>1
    <3> QED
      BY <3>1, <3>2, <3>3
  <2>7. CASE r = <<n, FLAG>>
    <3>1. Tail(r) = <<FLAG>> /\ r[1] = n /\ Len(r) = 2 /\ r # FrameBytes(n)
      BY <2>2, <2>7, Tails
    <3>2. r \in Seq(Byte)
      BY <1>0, <2>7
    <3> QED
      BY <1>0, <1>3, <2>3, <3>1, <3>2
  <2>8. CASE r = <<FLAG>>
    <3>1. r[1] = FLAG /\ Len(r) = 1 /\ r # FrameBytes(n)
      BY <2>2, <2>8
    <3>2. r \in Seq(Byte)
      BY <1>0, <2>8
    <3> QED
      BY <1>0, <2>8, <3>1, <3>2
  <2> QED
    BY <2>3, <2>5, <2>6, <2>7, <2>8
<1> QED
  BY <1>2, <1>3

\* The decoder of serial.rs byte by byte.
LEMMA SerialFeeds ==
    ASSUME NEW b \in Seq(Byte), NEW x \in Byte
    PROVE  /\ SerialFeed(Idle, x) = More(IF x = FLAG THEN Open ELSE Idle)
           /\ SerialFeed(Open, FLAG) = More(Idle)
           /\ x \notin {FLAG, ESC} =>
                 SerialFeed(Inside(b, NoCommand), x) = More(Inside(Append(b, x), NoCommand))
           /\ SerialFeed(Inside(b, NoCommand), ESC) = More(Escaped(b, NoCommand))
           /\ SerialFeed(Escaped(b, NoCommand), x) = More(Inside(Append(b, XorMask(x)), NoCommand))
           /\ b # <<>> => SerialFeed(Inside(b, NoCommand), FLAG) = Frame(Idle, b)
<1>1. \A d, y : feed("serial", d, y) = SerialFeed(d, y)
  BY DEF feed
<1>2. NoCommand \in Commands /\ <<>> \in Seq(Byte) /\ "serial" \in {"hdlc", "serial"}
  BY EmptyParts
<1>3. SerialFeed(Idle, x) = More(IF x = FLAG THEN Open ELSE Idle)
  <2>1. Idle \in DecoderType /\ Idle.in_frame = FALSE /\ Opened(Idle) = Open
    <3>1. Idle \in DecoderType /\ Opened(Idle) = Open
      BY IdleAndOpen
    <3>2. Idle.in_frame = FALSE
      BY DEF Idle, Decoder
    <3> QED
      BY <3>1, <3>2
  <2> QED
    BY <2>1 DEF SerialFeed, HdlcFeed
<1>4. SerialFeed(Inside(b, NoCommand), FLAG) = IF b = <<>> THEN More(Idle) ELSE Frame(Idle, b)
  BY <1>1, <1>2, HdlcFlags
<1>5. SerialFeed(Inside(<<>>, NoCommand), FLAG) = More(Idle)
  BY <1>1, <1>2, HdlcFlags
<1>6. /\ x \notin {FLAG, ESC} => SerialFeed(Inside(b, NoCommand), x) = More(Inside(Append(b, x), NoCommand))
      /\ SerialFeed(Inside(b, NoCommand), ESC) = More(Escaped(b, NoCommand))
      /\ SerialFeed(Escaped(b, NoCommand), x) = More(Inside(Append(b, XorMask(x)), NoCommand))
  BY <1>1, <1>2, HdlcInside
<1> QED
  BY <1>3, <1>4, <1>5, <1>6 DEF Open, Inside

\* A decoder that is in a frame reads a byte: it goes on, or it hands the payload on.
LEMMA ReadingStep ==
    ASSUME NEW n \in Byte, NEW d, NEW r \in Rests(n), Reading(d, n, r)
    PROVE  \/ \E e : SerialFeed(d, r[1]) = More(e) /\ Len(r) > 1 /\ Reading(e, n, Tail(r))
           \/ SerialFeed(d, r[1]) = Frame(Idle, Payload(n)) /\ Len(r) = 1
<1>0. FLAG \in Byte /\ ESC \in Byte
  BY DEF FLAG, ESC, Byte
<1>1. PICK b0 \in Seq(Byte) : b0 = <<>>
  BY EmptyParts
<1>2. PICK b1 \in Seq(Byte) : b1 = <<n>>
  <2>1. <<n>> \in Seq(Byte)
    OBVIOUS
  <2> QED
    BY <2>1
<1>3. PICK b2 \in Seq(Byte) : b2 = <<n, n>>
  <2>1. <<n, n>> \in Seq(Byte)
    OBVIOUS
  <2> QED
    BY <2>1
<1>4. Append(b0, n) = b1 /\ Append(b1, n) = b2 /\ b2 # <<>> /\ b2 = Payload(n)
  BY <1>1, <1>2, <1>3, Singletons DEF Payload
<1>5. SerialFeed(Inside(b2, NoCommand), FLAG) = Frame(Idle, Payload(n))
  BY <1>0, <1>4, SerialFeeds
<1>6. CASE n \notin {FLAG, ESC}
  <2>1. /\ SerialFeed(Inside(b0, NoCommand), n) = More(Inside(b1, NoCommand))
        /\ SerialFeed(Inside(b1, NoCommand), n) = More(Inside(b2, NoCommand))
    BY <1>4, <1>6, SerialFeeds, ZenonT(60)
  <2>2. CASE d = Inside(<<>>, NoCommand) /\ r = <<n, n, FLAG>>
    <3>1. Tail(r) = <<n, FLAG>> /\ r[1] = n /\ Len(r) = 3
      BY <2>2, Tails
    <3>2. Reading(Inside(b1, NoCommand), n, Tail(r))
      BY <1>2, <1>6, <3>1 DEF Reading
    <3> QED
      BY <1>1, <2>1, <2>2, <3>1, <3>2
  <2>3. CASE d = Inside(<<n>>, NoCommand) /\ r = <<n, FLAG>>
    <3>1. Tail(r) = <<FLAG>> /\ r[1] = n /\ Len(r) = 2
      BY <2>3, Tails
    <3>2. Reading(Inside(b2, NoCommand), n, Tail(r))
      BY <1>3, <1>6, <3>1 DEF Reading
    <3> QED
      BY <1>2, <2>1, <2>3, <3>1, <3>2
  <2>4. CASE d = Inside(<<n, n>>, NoCommand) /\ r = <<FLAG>>
    <3>1. r[1] = FLAG /\ Len(r) = 1
      BY <2>4
    <3> QED
      BY <1>3, <1>5, <2>4, <3>1
  <2> QED
    BY <1>6, <2>2, <2>3, <2>4 DEF Reading
<1>7. CASE n \in {FLAG, ESC}
  <2>0. PICK x \in Byte : x = XorMask(n)
    BY XorBytes
  <2>1. XorMask(x) = n
    BY <1>7, <2>0, XorBytes
  <2>2. /\ SerialFeed(Inside(b0, NoCommand), ESC) = More(Escaped(b0, NoCommand))
        /\ SerialFeed(Escaped(b0, NoCommand), x) = More(Inside(b1, NoCommand))
        /\ SerialFeed(Inside(b1, NoCommand), ESC) = More(Escaped(b1, NoCommand))
        /\ SerialFeed(Escaped(b1, NoCommand), x) = More(Inside(b2, NoCommand))
    <3>1. \A b \in Seq(Byte) :
             /\ SerialFeed(Inside(b, NoCommand), ESC) = More(Escaped(b, NoCommand))
             /\ SerialFeed(Escaped(b, NoCommand), x) = More(Inside(Append(b, XorMask(x)), NoCommand))
      BY SerialFeeds
    <3>2. /\ SerialFeed(Inside(b0, NoCommand), ESC) = More(Escaped(b0, NoCommand))
          /\ SerialFeed(Inside(b1, NoCommand), ESC) = More(Escaped(b1, NoCommand))
      BY <3>1
    <3>3. SerialFeed(Escaped(b0, NoCommand), x) = More(Inside(Append(b0, n), NoCommand))
      BY <2>1, <3>1
    <3>4. SerialFeed(Escaped(b1, NoCommand), x) = More(Inside(Append(b1, n), NoCommand))
      BY <2>1, <3>1
    <3> QED
      BY <1>4, <3>2, <3>3, <3>4
  <2>3. CASE d = Inside(<<>>, NoCommand) /\ r = <<ESC, x, ESC, x, FLAG>>
    <3>1. Tail(r) = <<x, ESC, x, FLAG>> /\ r[1] = ESC /\ Len(r) = 5
      BY <2>3, Tails
    <3>2. Reading(Escaped(b0, NoCommand), n, Tail(r))
      BY <1>1, <1>7, <2>0, <3>1 DEF Reading
    <3> QED
      BY <1>1, <2>2, <2>3, <3>1, <3>2
  <2>4. CASE d = Escaped(<<>>, NoCommand) /\ r = <<x, ESC, x, FLAG>>
    <3>1. Tail(r) = <<ESC, x, FLAG>> /\ r[1] = x /\ Len(r) = 4
      BY <2>4, Tails
    <3>2. Reading(Inside(b1, NoCommand), n, Tail(r))
      BY <1>2, <1>7, <2>0, <3>1 DEF Reading
    <3> QED
      BY <1>1, <2>2, <2>4, <3>1, <3>2
  <2>5. CASE d = Inside(<<n>>, NoCommand) /\ r = <<ESC, x, FLAG>>
    <3>1. Tail(r) = <<x, FLAG>> /\ r[1] = ESC /\ Len(r) = 3
      BY <2>5, Tails
    <3>2. Reading(Escaped(b1, NoCommand), n, Tail(r))
      BY <1>2, <1>7, <2>0, <3>1 DEF Reading
    <3> QED
      BY <1>2, <2>2, <2>5, <3>1, <3>2
  <2>6. CASE d = Escaped(<<n>>, NoCommand) /\ r = <<x, FLAG>>
    <3>1. Tail(r) = <<FLAG>> /\ r[1] = x /\ Len(r) = 2
      BY <2>6, Tails
    <3>2. Reading(Inside(b2, NoCommand), n, Tail(r))
      BY <1>3, <1>7, <3>1 DEF Reading
    <3> QED
      BY <1>2, <2>2, <2>6, <3>1, <3>2
  <2>7. CASE d = Inside(<<n, n>>, NoCommand) /\ r = <<FLAG>>
    <3>1. r[1] = FLAG /\ Len(r) = 1
      BY <2>7
    <3> QED
      BY <1>3, <1>5, <2>7, <3>1
  <2> QED
    BY <1>7, <2>0, <2>3, <2>4, <2>5, <2>6, <2>7 DEF Reading
<1> QED
  BY <1>6, <1>7

\* So is one that follows the frames: at the end of a frame it waits for a flag or has seen one.
LEMMA FollowsStep ==
    ASSUME NEW n \in Byte, NEW d, NEW r \in Rests(n), Follows(d, n, r)
    PROVE  \/ \E e : /\ SerialFeed(d, r[1]) = More(e)
                     /\ Len(r) > 1 => Follows(e, n, Tail(r))
                     /\ Len(r) = 1 => e \in {Idle, Open}
           \/ SerialFeed(d, r[1]) = Frame(Idle, Payload(n)) /\ Len(r) = 1
<1>0. PICK b0 \in Seq(Byte) : b0 = <<>>
  BY EmptyParts
<1>1. CASE d = Idle
  <2>1. SerialFeed(d, r[1]) = More(IF r[1] = FLAG THEN Open ELSE Idle)
    BY <1>0, <1>1, RestParts, SerialFeeds
  <2>2. CASE r = FrameBytes(n)
    <3>1. r[1] = FLAG /\ Len(r) > 1 /\ Reading(Open, n, Tail(r))
      BY <2>2, RestParts
    <3>2. Len(r) # 1
      <4>1. ~(1 > 1)
        OBVIOUS
      <4> QED
        BY <3>1, <4>1
    <3>3. SerialFeed(d, r[1]) = More(Open)
      BY <2>1, <3>1
    <3> QED
      BY <3>1, <3>2, <3>3 DEF Follows
  <2>3. CASE r = <<FLAG>>
    <3>1. Len(r) = 1
      BY <2>3
    <3> QED
      BY <2>1, <3>1
  <2>4. CASE r # FrameBytes(n) /\ r # <<FLAG>>
    <3>1. r[1] # FLAG
      BY <2>4, RestParts
    <3> QED
      BY <2>1, <3>1 DEF Follows
  <2> QED
    BY <2>2, <2>3, <2>4
<1>2. CASE d = Open /\ r = FrameBytes(n)
  <2>1. r[1] = FLAG
    BY <1>2, RestParts
  <2>2. SerialFeed(d, r[1]) = More(Idle)
    BY <1>0, <1>2, <2>1, RestParts, SerialFeeds
  <2> QED
    BY <2>2 DEF Follows
<1>3. CASE Reading(d, n, r)
  <2>1. CASE \E e : SerialFeed(d, r[1]) = More(e) /\ Len(r) > 1 /\ Reading(e, n, Tail(r))
    <3>1. PICK e : SerialFeed(d, r[1]) = More(e) /\ Len(r) > 1 /\ Reading(e, n, Tail(r))
      BY <2>1
    <3>2. Len(r) # 1
      <4>1. ~(1 > 1)
        OBVIOUS
      <4> QED
        BY <3>1, <4>1
    <3>3. Follows(e, n, Tail(r))
      BY <3>1 DEF Follows
    <3> QED
      BY <3>1, <3>2, <3>3
  <2> QED
    BY <1>3, <2>1, ReadingStep
<1> QED
  BY <1>1, <1>2, <1>3 DEF Follows

-----------------------------------------------------------------------------
(* The order of the frames of a serial line *)

\* What was returned and what is in the channel: some of the first m frames, in their order.
Ordered(rec, que, m) ==
    /\ \A i \in DOMAIN rec : \E k \in 1..m : rec[i].frame = Payload(k)
    /\ \A i \in DOMAIN que : \E k \in 1..m : que[i] = Payload(k)
    /\ \A i, j \in DOMAIN rec : i < j => rec[i].frame[1] < rec[j].frame[1]
    /\ \A i, j \in DOMAIN que : i < j => que[i][1] < que[j][1]
    /\ \A i \in DOMAIN rec : \A j \in DOMAIN que : rec[i].frame[1] < que[j][1]

\* Frame k comes after all of them.
Above(k, rec, que) ==
    /\ \A i \in DOMAIN rec : rec[i].frame[1] < k
    /\ \A i \in DOMAIN que : que[i][1] < k

\* More frames were read.
LEMMA OrderedGrows ==
    ASSUME NEW rec, NEW que, NEW m \in Nat, NEW n \in Nat, m <= n, Ordered(rec, que, m)
    PROVE  Ordered(rec, que, n)
<1>1. \A k \in 1..m : k \in 1..n
  OBVIOUS
<1> QED
  BY <1>1 DEF Ordered

\* The next frame comes after all of them.
LEMMA NextAfter ==
    ASSUME NEW rec, NEW que, NEW m \in Nat, Ordered(rec, que, m)
    PROVE  Above(m + 1, rec, que)
<1>1. \A k \in 1..m : Payload(k)[1] = k /\ k < m + 1
  BY DEF Payload
<1> QED
  BY <1>1 DEF Ordered, Above

\* The channel is drained.
LEMMA OrderedDrained ==
    ASSUME NEW rec, NEW que, NEW m, NEW k
    PROVE  /\ Ordered(rec, que, m) => Ordered(rec, <<>>, m)
           /\ Above(k, rec, que) => Above(k, rec, <<>>)
BY DEF Ordered, Above

\* A later frame enters the channel.
LEMMA OrderedQueued ==
    ASSUME NEW rec, NEW que \in Seq(Seq(Nat)), NEW m \in Nat, NEW k \in 1..m,
           Ordered(rec, que, m), Above(k, rec, que)
    PROVE  Ordered(rec, Append(que, Payload(k)), m)
<1> DEFINE N == Len(que)
<1>0. Payload(k) \in Seq(Nat) /\ Payload(k)[1] = k
  BY DEF Payload
<1>1. PICK q : q = Append(que, Payload(k))
  OBVIOUS
<1>2. /\ N \in Nat /\ DOMAIN que = 1..N /\ DOMAIN q = 1..(N + 1)
      /\ q[N + 1] = Payload(k) /\ \A i \in 1..N : q[i] = que[i]
  <2>1. Len(q) = N + 1 /\ q \in Seq(Seq(Nat))
    BY <1>0, <1>1, AppendProperties
  <2>2. q[N + 1] = Payload(k) /\ \A i \in 1..N : q[i] = que[i]
    BY <1>0, <1>1, AppendProperties
  <2> QED
    BY <2>1, <2>2
<1> HIDE DEF N
<1>3. \A i \in 1..(N + 1) : i \in 1..N \/ i = N + 1
  BY <1>2
<1>4. \A i \in DOMAIN q : \E l \in 1..m : q[i] = Payload(l)
  BY <1>2, <1>3 DEF Ordered
<1>5. ASSUME NEW i \in 1..(N + 1), NEW j \in 1..(N + 1), i < j PROVE q[i][1] < q[j][1]
  <2>1. i \in 1..N
    BY <1>2, <1>5
  <2>2. CASE j = N + 1
    BY <1>0, <1>2, <2>1, <2>2 DEF Above
  <2>3. CASE j \in 1..N
    BY <1>2, <1>5, <2>1, <2>3 DEF Ordered
  <2> QED
    BY <1>3, <2>2, <2>3
<1>6. ASSUME NEW i \in DOMAIN rec, NEW j \in 1..(N + 1) PROVE rec[i].frame[1] < q[j][1]
  <2>1. CASE j = N + 1
    BY <1>0, <1>2, <2>1 DEF Above
  <2>2. CASE j \in 1..N
    BY <1>2, <2>2 DEF Ordered
  <2> QED
    BY <1>3, <2>1, <2>2
<1>7. Ordered(rec, q, m)
  BY <1>2, <1>4, <1>5, <1>6 DEF Ordered
<1> QED
  BY <1>1, <1>7

\* receive returns the first frame of the channel.
LEMMA OrderedReturned ==
    ASSUME NEW rec \in Seq(Receipts), NEW que \in Seq(Seq(Nat)), que # <<>>, NEW m, NEW s \in Nat,
           Ordered(rec, que, m)
    PROVE  /\ Ordered(Append(rec, [session |-> s, frame |-> Head(que)]), Tail(que), m)
           /\ Append(rec, [session |-> s, frame |-> Head(que)]) \in Seq(Receipts)
           /\ \A k : Above(k, rec, que) =>
                 Above(k, Append(rec, [session |-> s, frame |-> Head(que)]), Tail(que))
<1> DEFINE N == Len(rec)
           L == Len(que)
<1>1. PICK new : new = [session |-> s, frame |-> Head(que)]
  OBVIOUS
<1>2. PICK r : r = Append(rec, new)
  OBVIOUS
<1>3. PICK q : q = Tail(que)
  OBVIOUS
<1>4. /\ L \in Nat \ {0} /\ DOMAIN que = 1..L /\ DOMAIN q = 1..(L - 1) /\ que[1] \in Seq(Nat)
      /\ Head(que) = que[1] /\ \A i \in 1..(L - 1) : q[i] = que[i + 1]
  <2>1. L \in Nat \ {0} /\ DOMAIN que = 1..L
    BY EmptySeq
  <2>2. Head(que) = que[1] /\ que[1] \in Seq(Nat)
    BY <2>1
  <2>3. Len(q) = L - 1 /\ q \in Seq(Seq(Nat)) /\ \A i \in 1..(L - 1) : q[i] = que[i + 1]
    BY <1>3, <2>1
  <2> QED
    BY <2>1, <2>2, <2>3
<1>5. new \in Receipts /\ new.frame = que[1]
  BY <1>1, <1>4 DEF Receipts
<1>6. /\ N \in Nat /\ DOMAIN rec = 1..N /\ DOMAIN r = 1..(N + 1) /\ r \in Seq(Receipts)
      /\ r[N + 1] = new /\ \A i \in 1..N : r[i] = rec[i]
  <2>1. Len(r) = N + 1 /\ r \in Seq(Receipts)
    BY <1>2, <1>5, AppendProperties
  <2>2. r[N + 1] = new /\ \A i \in 1..N : r[i] = rec[i]
    BY <1>2, <1>5, AppendProperties
  <2> QED
    BY <2>1, <2>2
<1> HIDE DEF N, L
<1>7. \A i \in 1..(N + 1) : i \in 1..N \/ i = N + 1
  BY <1>6
<1>8. 1 \in 1..L /\ \A i \in 1..(L - 1) : i + 1 \in 1..L /\ 1 < i + 1
  BY <1>4
<1>9. \A i \in DOMAIN r : \E k \in 1..m : r[i].frame = Payload(k)
  <2>1. \E k \in 1..m : que[1] = Payload(k)
    BY <1>4, <1>8 DEF Ordered
  <2> QED
    BY <1>5, <1>6, <1>7, <2>1 DEF Ordered
<1>10. \A i \in DOMAIN q : \E k \in 1..m : q[i] = Payload(k)
  BY <1>4, <1>8, ZenonT(60) DEF Ordered
<1>11. ASSUME NEW i \in 1..(N + 1), NEW j \in 1..(N + 1), i < j PROVE r[i].frame[1] < r[j].frame[1]
  <2>1. i \in 1..N
    BY <1>6, <1>11
  <2>2. CASE j = N + 1
    BY <1>4, <1>5, <1>6, <1>8, <2>1, <2>2 DEF Ordered
  <2>3. CASE j \in 1..N
    BY <1>6, <1>11, <2>1, <2>3 DEF Ordered
  <2> QED
    BY <1>7, <2>2, <2>3
<1>12. ASSUME NEW i \in 1..(L - 1), NEW j \in 1..(L - 1), i < j PROVE q[i][1] < q[j][1]
  <2>1. i + 1 \in 1..L /\ j + 1 \in 1..L /\ i + 1 < j + 1
    BY <1>4, <1>12
  <2>2. que[i + 1][1] < que[j + 1][1]
    BY <1>4, <2>1 DEF Ordered
  <2> QED
    BY <1>4, <2>2
<1>13. ASSUME NEW i \in 1..(N + 1), NEW j \in 1..(L - 1) PROVE r[i].frame[1] < q[j][1]
  <2>1. q[j] = que[j + 1] /\ j + 1 \in 1..L /\ 1 < j + 1
    BY <1>4, <1>8
  <2>2. CASE i = N + 1
    <3>1. que[1][1] < que[j + 1][1]
      BY <1>4, <1>8, <2>1 DEF Ordered
    <3> QED
      BY ONLY <1>5, <1>6, <2>1, <2>2, <3>1
  <2>3. CASE i \in 1..N
    BY <1>4, <1>6, <2>1, <2>3 DEF Ordered
  <2> QED
    BY <1>7, <2>2, <2>3
<1>14. Ordered(r, q, m)
  BY <1>4, <1>6, <1>9, <1>10, <1>11, <1>12, <1>13 DEF Ordered
<1>15. ASSUME NEW k, Above(k, rec, que) PROVE Above(k, r, q)
  <2>1. ASSUME NEW i \in 1..(N + 1) PROVE r[i].frame[1] < k
    <3>1. que[1][1] < k
      BY <1>4, <1>8, <1>15 DEF Above
    <3> QED
      BY <1>5, <1>6, <1>7, <1>15, <3>1 DEF Above
  <2>2. ASSUME NEW i \in 1..(L - 1) PROVE q[i][1] < k
    BY <1>4, <1>8, <1>15 DEF Above
  <2> QED
    BY <1>4, <1>6, <2>1, <2>2 DEF Above
<1> QED
  BY <1>1, <1>2, <1>3, <1>6, <1>14, <1>15

-----------------------------------------------------------------------------
(* The invariant of a serial interface *)

SomeBytes == Seq(Byte) \ {<<>>}

\* The types of what is on the line, in the decoders and on the way to the channel.
LineTypes ==
    /\ line \in Seq(SomeBytes) /\ nwritten \in 0..MaxTransmits /\ errors \in Nat
    /\ decoder \in [Sessions -> DecoderType]
    /\ frame \in [Sessions -> Seq(Byte)]

ChannelTypes == rx \in Seq(Seq(Nat)) /\ Len(rx) <= Capacity /\ received \in Seq(Receipts)

\* The port is open once: by the thread that reads, or in the mutex.
PortInv ==
    /\ \A s \in Sessions : thread[s] \in {"opened", "inner", "polling", "sending"} => port[s] # "none"
    /\ \A s \in Sessions : port[s] # "none" =>
          guard = "none" /\ \A t \in Sessions : port[t] # "none" => t = s

\* How many frames were read to their end.
ReadOff == nwritten - Len(line)

\* A line on which w frames were written: the rest of one frame, and those after it.
LineOf(l, w) ==
    /\ Len(l) <= w
    /\ l # <<>> => l[1] \in Rests(w - Len(l) + 1)
    /\ \A i \in 2..Len(l) : l[i] = FrameBytes(w - Len(l) + i)

\* A decoder that reads the line, of which m frames were read before.
FollowsLine(d, l, m) == IF l = <<>> THEN d \in {Idle, Open} ELSE Follows(d, m + 1, l[1])

LinesInv == LineOf(line, nwritten)

DecodersInv ==
    \A s \in Sessions :
        /\ thread[s] \in {"none", "outer", "checked", "reconnecting", "opened", "sending"}
              => decoder[s] = Idle
        /\ thread[s] \in {"inner", "polling"} => FollowsLine(decoder[s], line, ReadOff)

OrderInv ==
    /\ Ordered(received, rx, ReadOff)
    /\ \A s \in Sessions : thread[s] = "sending" =>
          \E k \in 1..ReadOff : frame[s] = Payload(k) /\ Above(k, received, rx)

SerialInv ==
    /\ ChannelTypes /\ PortInv
    /\ errors = 0 /\ ~garbled => LinesInv /\ DecodersInv /\ OrderInv

-----------------------------------------------------------------------------
(* The steps of a serial interface: types *)

\* What is left of the line is frames of bytes.
LEMMA UnreadType ==
    ASSUME NEW u \in Seq(SomeBytes), u # <<>>, NEW n \in Nat
    PROVE  Unread(u, n) \in Seq(SomeBytes)
<1>1. u[1] \in SomeBytes /\ u[1] \in Seq(Byte) /\ Len(u[1]) \in Nat
  <2>1. 1 \in DOMAIN u
    BY EmptySeq
  <2>2. u[1] \in SomeBytes
    BY <2>1
  <2> QED
    BY <2>2 DEF SomeBytes
<1>2. CASE n < Len(u[1])
  <2>1. PICK v : v = SubSeq(u[1], n + 1, Len(u[1]))
    OBVIOUS
  <2>2. v \in Seq(Byte) /\ Len(v) = Len(u[1]) - n
    BY <1>1, <1>2, <2>1
  <2>3. v \in SomeBytes
    <3>1. Len(v) # 0
      BY ONLY <1>1, <1>2, <2>2, n \in Nat
    <3>2. v # <<>>
      BY <2>2, <3>1, EmptySeq
    <3> QED
      BY ONLY <2>2, <3>2 DEF SomeBytes
  <2>4. Unread(u, n) = [u EXCEPT ![1] = v]
    BY <1>2, <2>1 DEF Unread
  <2>5. [u EXCEPT ![1] = v] \in Seq(SomeBytes)
    BY <2>3
  <2> QED
    BY <2>4, <2>5
<1>3. CASE ~(n < Len(u[1]))
  <2>1. Unread(u, n) = Tail(u)
    BY <1>3 DEF Unread
  <2> QED
    BY <2>1
<1> QED
  BY <1>2, <1>3

\* So it is when bytes are lost.
LEMMA LostType ==
    ASSUME NEW u \in Seq(SomeBytes), NEW v \in Lost(u)
    PROVE  v \in Seq(SomeBytes)
<1>1. CASE v = <<>>
  BY <1>1
<1>2. CASE v # <<>>
  <2>1. PICK i \in DOMAIN u : \E n \in 0..(Len(u[i]) - 1) : v = Unread(SubSeq(u, i, Len(u)), n)
    BY <1>2 DEF Lost
  <2>2. PICK n \in 0..(Len(u[i]) - 1) : v = Unread(SubSeq(u, i, Len(u)), n)
    BY <2>1
  <2>3. i \in 1..Len(u) /\ Len(u) \in Nat
    OBVIOUS
  <2>4. PICK w : w = SubSeq(u, i, Len(u))
    OBVIOUS
  <2>5. w \in Seq(SomeBytes) /\ Len(w) = Len(u) - i + 1
    BY <2>3, <2>4
  <2>6. w # <<>>
    BY <2>3, <2>5
  <2>7. n \in Nat
    OBVIOUS
  <2> QED
    BY <2>2, <2>4, <2>5, <2>6, <2>7, UnreadType
<1> QED
  BY <1>1, <1>2

\* A byte read by the thread of a session, off the line or out of noise.
LEMMA ReadTypes ==
    ASSUME LineTypes, NEW s \in Sessions, NEW byte \in Byte, Decoded(s, byte),
           line' \in Seq(SomeBytes), UNCHANGED <<nwritten, errors>>
    PROVE  LineTypes'
<1>0. decoder \in [Sessions -> DecoderType] /\ frame \in [Sessions -> Seq(Byte)]
  BY DEF LineTypes
<1>1. PICK r \in FedType : r = SerialFeed(decoder[s], byte)
  <2>1. SerialFeed(decoder[s], byte) = feed("serial", decoder[s], byte)
    BY DEF feed
  <2>2. decoder[s] \in DecoderType /\ "serial" \in Framings
    BY <1>0 DEF Framings
  <2> QED
    BY <2>1, <2>2, FeedType
<1>2. decoder' = [decoder EXCEPT ![s] = r.dec] /\ frame' = [frame EXCEPT ![s] = FlattenSeq(r.out)]
  BY <1>1 DEF Decoded
<1>3. r.dec \in DecoderType /\ r.out \in Seq(Seq(Byte))
  BY DEF FedType
<1>4. FlattenSeq(r.out) \in Seq(Byte)
  BY <1>3, FlattenType
<1>5. decoder' \in [Sessions -> DecoderType] /\ frame' \in [Sessions -> Seq(Byte)]
  BY <1>0, <1>2, <1>3, <1>4
<1> QED
  BY <1>5 DEF LineTypes

\* The first byte of the line, and the line without it.
LEMMA FirstByte ==
    ASSUME LineTypes, line # <<>>
    PROVE  line[1] \in Seq(Byte) /\ line[1][1] \in Byte /\ Unread(line, 1) \in Seq(SomeBytes)
<1>1. line \in Seq(SomeBytes) /\ line # <<>>
  BY DEF LineTypes
<1>2. 1 \in DOMAIN line
  BY <1>1, EmptySeq
<1>3. line[1] \in Seq(Byte) /\ line[1] # <<>>
  BY <1>1, <1>2 DEF SomeBytes
<1>4. 1 \in DOMAIN line[1]
  BY <1>3, EmptySeq
<1>5. Unread(line, 1) \in Seq(SomeBytes)
  BY <1>1, UnreadType
<1> QED
  BY <1>3, <1>4, <1>5

\* Every step keeps the types of the line.
LEMMA LineTypesStep ==
    ASSUME LineTypes, SerialNext
    PROVE  LineTypes'
<1>0. /\ line \in Seq(SomeBytes) /\ nwritten \in 0..MaxTransmits /\ errors \in Nat
      /\ decoder \in [Sessions -> DecoderType] /\ frame \in [Sessions -> Seq(Byte)]
  BY DEF LineTypes
<1>1. CASE SerialStart \/ SerialShutdown \/ SerialReceive \/ SerialSend
  <2>1. UNCHANGED <<line, nwritten, errors, decoder, frame>>
    BY <1>1 DEF SerialStart, SerialShutdown, SerialReceive, SerialSend, serial
  <2> QED
    BY <2>1 DEF LineTypes
<1>2. CASE PeerTransmits
  <2>1. /\ nwritten' = nwritten + 1 /\ nwritten < MaxTransmits
        /\ line' = Append(line, hdlc_encode(Payload(nwritten')))
        /\ UNCHANGED <<errors, decoder, frame>>
    BY <1>2 DEF PeerTransmits
  <2>2. nwritten' \in 0..MaxTransmits /\ nwritten' \in Byte
    BY <1>0, <2>1, SerialBoundAssumption DEF Byte
  <2>3. hdlc_encode(Payload(nwritten')) \in SomeBytes
    <3>1. PICK w : w = FrameBytes(nwritten')
      OBVIOUS
    <3>2. w \in Rests(nwritten')
      BY <3>1 DEF Rests
    <3>3. w \in Seq(Byte) /\ w # <<>>
      BY <2>2, <3>2, RestParts
    <3> QED
      BY <2>2, <3>1, <3>3, WholeFrame DEF SomeBytes
  <2>4. line' \in Seq(SomeBytes)
    BY <1>0, <2>1, <2>3
  <2> QED
    BY <1>0, <2>1, <2>2, <2>4 DEF LineTypes
<1>3. ASSUME NEW s \in Sessions, ThreadStep(s) PROVE LineTypes'
  <2>1. CASE OuterCheck(s) \/ TakePort(s) \/ Reopen(s) \/ StorePort(s) \/ InnerCheck(s)
    <3>1. UNCHANGED <<line, nwritten, errors, decoder, frame>>
      BY <2>1 DEF OuterCheck, TakePort, Reopen, StorePort, InnerCheck
    <3> QED
      BY <3>1 DEF LineTypes
  <2>2. CASE ReadByte(s)
    <3>1. /\ line # <<>> /\ Decoded(s, line[1][1]) /\ line' = Unread(line, 1)
          /\ UNCHANGED <<nwritten, errors>>
      BY <2>2 DEF ReadByte
    <3> QED
      BY <3>1, FirstByte, ReadTypes
  <2>6. CASE ReadNoise(s)
    <3>1. PICK byte \in Noise : Decoded(s, byte)
      BY <2>6 DEF ReadNoise
    <3>2. byte \in Byte
      BY SpeedAssumption
    <3>3. line # <<>> /\ line' \in Lost(Unread(line, 1)) /\ UNCHANGED <<nwritten, errors>>
      BY <2>6 DEF ReadNoise
    <3>4. line' \in Seq(SomeBytes)
      BY <3>3, FirstByte, LostType
    <3> QED
      BY <3>1, <3>2, <3>3, <3>4, ReadTypes
  <2>3. CASE ReadTimesOut(s)
    <3>1. decoder' = [decoder EXCEPT ![s] = Idle] /\ UNCHANGED <<line, nwritten, errors, frame>>
      BY <2>3, IdleAndOpen DEF ReadTimesOut
    <3>2. decoder' \in [Sessions -> DecoderType]
      BY <1>0, <3>1, IdleAndOpen
    <3> QED
      BY <3>1, <3>2 DEF LineTypes
  <2>4. CASE ReadFails(s)
    <3>1. errors' = errors + 1 /\ line' \in Lost(line) /\ UNCHANGED <<decoder, frame, nwritten>>
      BY <2>4 DEF ReadFails
    <3>2. line' \in Seq(SomeBytes)
      BY <1>0, <3>1, LostType
    <3> QED
      BY <1>0, <3>1, <3>2 DEF LineTypes
  <2>5. CASE SendFrame(s)
    <3>1. frame' = [frame EXCEPT ![s] = <<>>] /\ UNCHANGED <<line, nwritten, errors, decoder>>
      BY <2>5 DEF SendFrame
    <3>2. frame' \in [Sessions -> Seq(Byte)]
      BY <1>0, <3>1, EmptyParts
    <3> QED
      BY <3>1, <3>2 DEF LineTypes
  <2> QED
    BY <1>3, <2>1, <2>2, <2>3, <2>4, <2>5, <2>6 DEF ThreadStep
<1> QED
  BY <1>1, <1>2, <1>3 DEF SerialNext

\* Every step keeps the types of the channel.
LEMMA ChannelTypesStep ==
    ASSUME ChannelTypes, LineTypes, StateTypes, SerialNext
    PROVE  ChannelTypes'
<1>0. /\ rx \in Seq(Seq(Nat)) /\ Len(rx) <= Capacity /\ received \in Seq(Receipts)
      /\ session \in Nat /\ frame \in [Sessions -> Seq(Byte)] /\ Capacity \in Nat \ {0}
  BY CapacityAssumption DEF ChannelTypes, LineTypes, StateTypes
<1>1. CASE SerialStart \/ SerialShutdown
  <2>1. rx' = <<>> /\ received' = received
    BY <1>1 DEF SerialStart, SerialShutdown, Started, Stopped
  <2>2. <<>> \in Seq(Seq(Nat)) /\ Len(<<>>) <= Capacity
    BY <1>0
  <2> QED
    BY <1>0, <2>1, <2>2 DEF ChannelTypes
<1>2. CASE SerialReceive
  <2>1. CASE ReceiveFrame
    <3>1. /\ rx # <<>> /\ rx' = Tail(rx)
          /\ received' = Append(received, [session |-> session, frame |-> Head(rx)])
      BY <2>1 DEF ReceiveFrame
    <3>2. rx' \in Seq(Seq(Nat)) /\ Len(rx') = Len(rx) - 1 /\ Head(rx) \in Seq(Nat)
      BY <1>0, <3>1
    <3>3. Len(rx') <= Capacity
      BY <1>0, <3>2
    <3>4. [session |-> session, frame |-> Head(rx)] \in Receipts
      BY <1>0, <3>2 DEF Receipts
    <3>5. received' \in Seq(Receipts)
      BY <1>0, <3>1, <3>4
    <3> QED
      BY <3>2, <3>3, <3>5 DEF ChannelTypes
  <2>2. CASE ReceiveLost(thread[session] = "ended")
    BY <1>0, <2>2 DEF ReceiveLost, ChannelTypes
  <2> QED
    BY <1>2, <2>1, <2>2 DEF SerialReceive
<1>3. CASE SerialSend \/ PeerTransmits
  BY <1>0, <1>3 DEF SerialSend, PeerTransmits, Written, object, ChannelTypes
<1>4. ASSUME NEW s \in Sessions, ThreadStep(s) PROVE ChannelTypes'
  <2>1. CASE UNCHANGED object
    BY <1>0, <2>1 DEF object, ChannelTypes
  <2>2. CASE SendFrame(s) /\ s = session /\ Enqueue(frame[s])
    <3>1. Len(rx) < Capacity /\ rx' = Append(rx, frame[s]) /\ received' = received
      BY <2>2 DEF Enqueue
    <3>2. frame[s] \in Seq(Nat)
      <4>1. PICK f \in Seq(Byte) : f = frame[s]
        BY <1>0
      <4>2. Len(f) \in Nat /\ \A i \in 1..Len(f) : f[i] \in Nat
        <5>1. Byte \subseteq Nat
          BY DEF Byte
        <5>2. Len(f) \in Nat /\ \A i \in 1..Len(f) : f[i] \in Byte
          OBVIOUS
        <5> QED
          BY <5>1, <5>2
      <4>3. f = [i \in 1..Len(f) |-> f[i]]
        OBVIOUS
      <4> QED
        BY <4>1, <4>2, <4>3
    <3>3. rx' \in Seq(Seq(Nat)) /\ Len(rx') = Len(rx) + 1
      BY <1>0, <3>1, <3>2
    <3>4. Len(rx') <= Capacity
      BY <1>0, <3>1, <3>3
    <3> QED
      BY <1>0, <3>1, <3>3, <3>4 DEF ChannelTypes
  <2> QED
    BY <1>4, <2>1, <2>2 DEF ThreadStep, OuterCheck, TakePort, Reopen, StorePort, InnerCheck, ReadByte, ReadNoise,
                            ReadTimesOut, ReadFails, SendFrame
<1> QED
  BY <1>1, <1>2, <1>3, <1>4 DEF SerialNext

\* Every step keeps the port open once.
LEMMA PortStep ==
    ASSUME PortInv, StateTypes, ThreadsInv, SerialNext
    PROVE  PortInv'
<1>0. /\ thread \in [Sessions -> Places] /\ port \in [Sessions -> Handles]
  BY DEF StateTypes
<1>1. CASE SerialStart
  <2>1. /\ guard = "none" /\ \A s \in Sessions : port[s] = "none"
        /\ thread' = [thread EXCEPT ![session'] = "outer"] /\ port' = port
    BY <1>1 DEF SerialStart, DeviceFree, Goes
  <2>2. \A s \in Sessions : thread'[s] \in {"opened", "inner", "polling", "sending"} => thread'[s] = thread[s]
    BY <1>0, <2>1
  <2> QED
    BY <2>1, <2>2 DEF PortInv
<1>2. CASE SerialShutdown
  BY <1>2 DEF SerialShutdown, PortInv
<1>3. CASE SerialReceive \/ SerialSend \/ PeerTransmits
  BY <1>3 DEF SerialReceive, SerialSend, PeerTransmits, serial, PortInv
<1>4. ASSUME NEW s \in Sessions, ThreadStep(s) PROVE PortInv'
  <2>1. CASE OuterCheck(s)
    <3>1. /\ UNCHANGED <<port, guard>> /\ thread'[s] \in {"ended", "checked"}
          /\ \A t \in Sessions \ {s} : thread'[t] = thread[t]
      BY <1>0, <2>1 DEF OuterCheck, Goes
    <3> QED
      BY <3>1 DEF PortInv
  <2>2. CASE TakePort(s)
    <3>1. /\ port'[s] = guard /\ \A t \in Sessions \ {s} : port'[t] = port[t]
          /\ guard' = "none" /\ thread[s] = "checked"
          /\ thread'[s] = IF guard = "none" THEN "reconnecting" ELSE "inner"
          /\ \A t \in Sessions \ {s} : thread'[t] = thread[t]
      BY <1>0, <2>2 DEF TakePort, Goes
    <3>2. guard # "none" => \A t \in Sessions : port[t] = "none"
      BY DEF PortInv
    <3> QED
      BY <3>1, <3>2 DEF PortInv
  <2>3. CASE Reopen(s)
    <3>1. CASE DeviceFree /\ port' = [port EXCEPT ![s] = "fixed"] /\ Goes(s, "opened") /\ guard' = guard
      <4>1. /\ port'[s] = "fixed" /\ \A t \in Sessions \ {s} : port'[t] = "none"
            /\ guard' = "none" /\ \A t \in Sessions : port[t] = "none"
        BY <1>0, <3>1 DEF DeviceFree
      <4>2. \A t \in Sessions \ {s} : thread'[t] = thread[t]
        BY <1>0, <3>1 DEF Goes
      <4> QED
        BY <4>1, <4>2 DEF PortInv
    <3>2. CASE Goes(s, "outer") /\ UNCHANGED <<port, guard>>
      <4>1. thread'[s] = "outer" /\ \A t \in Sessions \ {s} : thread'[t] = thread[t]
        BY <1>0, <3>2 DEF Goes
      <4> QED
        BY <3>2, <4>1 DEF PortInv
    <3> QED
      BY <2>3, <3>1, <3>2 DEF Reopen
  <2>4. CASE StorePort(s)
    <3>1. /\ port'[s] = "none" /\ \A t \in Sessions \ {s} : port'[t] = port[t]
          /\ thread[s] = "opened" /\ thread'[s] = "outer"
          /\ \A t \in Sessions \ {s} : thread'[t] = thread[t]
      BY <1>0, <2>4 DEF StorePort, Goes
    <3>2. port[s] # "none" /\ \A t \in Sessions \ {s} : port[t] = "none"
      BY <3>1 DEF PortInv
    <3> QED
      BY <3>1, <3>2 DEF PortInv
  <2>5. CASE /\ UNCHANGED <<port, guard>>
             /\ thread[s] \in {"inner", "polling", "sending"}
             /\ \E place \in {"inner", "polling", "sending"} : Goes(s, place)
    <3>1. \A t \in Sessions \ {s} : thread'[t] = thread[t]
      BY <1>0, <2>5 DEF Goes
    <3> QED
      BY <2>5, <3>1 DEF PortInv
  <2>6. CASE DropPort(s) /\ \E place \in {"ended", "outer"} : Goes(s, place)
    <3>1. /\ port'[s] = "none" /\ \A t \in Sessions \ {s} : port'[t] = port[t] /\ thread'[t] = thread[t]
          /\ guard' = "none" /\ thread'[s] \in {"ended", "outer"}
      BY <1>0, <2>6 DEF DropPort, Goes
    <3> QED
      BY <3>1 DEF PortInv
  <2>7. CASE \/ InnerCheck(s) \/ ReadByte(s) \/ ReadNoise(s) \/ ReadTimesOut(s) \/ ReadFails(s)
             \/ SendFrame(s)
    BY <2>5, <2>6, <2>7 DEF InnerCheck, ReadByte, ReadNoise, Decoded, Goes, ReadTimesOut, ReadFails,
                            SendFrame
  <2> QED
    BY <1>4, <2>1, <2>2, <2>3, <2>4, <2>7 DEF ThreadStep
<1> QED
  BY <1>1, <1>2, <1>3, <1>4 DEF SerialNext

-----------------------------------------------------------------------------
(* The steps of a serial interface: the frames *)

\* A byte is read from the line.
LEMMA LineReads ==
    ASSUME NEW l \in Seq(SomeBytes), l # <<>>, NEW w \in Nat, LineOf(l, w),
           l[1] \in Seq(Byte), Len(l[1]) \in Nat \ {0},
           Len(l[1]) > 1 => Tail(l[1]) \in Rests(w - Len(l) + 1)
    PROVE  /\ LineOf(Unread(l, 1), w)
           /\ Len(l[1]) > 1 => /\ Unread(l, 1) # <<>> /\ Unread(l, 1)[1] = Tail(l[1])
                               /\ Len(Unread(l, 1)) = Len(l)
           /\ Len(l[1]) = 1 => /\ Len(Unread(l, 1)) = Len(l) - 1
                               /\ Unread(l, 1) # <<>> => Unread(l, 1)[1] = FrameBytes(w - Len(l) + 2)
<1>0. Len(l) \in Nat \ {0} /\ DOMAIN l = 1..Len(l)
  BY EmptySeq
<1>1. CASE Len(l[1]) > 1
  <2>1. PICK t : t = Tail(l[1])
    OBVIOUS
  <2>2. t \in Seq(Byte) /\ Len(t) = Len(l[1]) - 1 /\ t = SubSeq(l[1], 1 + 1, Len(l[1]))
    BY <1>1, <2>1
  <2>3. t \in SomeBytes
    <3>1. Len(t) # 0
      BY <1>1, <2>2
    <3>2. t # <<>>
      BY <2>2, <3>1, EmptySeq
    <3> QED
      BY <2>2, <3>2 DEF SomeBytes
  <2>4. PICK u : u = [l EXCEPT ![1] = t]
    OBVIOUS
  <2>5. /\ u \in Seq(SomeBytes) /\ Len(u) = Len(l) /\ u[1] = t
        /\ \A i \in 2..Len(l) : u[i] = l[i]
    BY <1>0, <2>3, <2>4
  <2>6. Unread(l, 1) = u
    BY <1>1, <2>2, <2>4 DEF Unread
  <2>7. u # <<>>
    BY <1>0, <2>5
  <2>8. LineOf(u, w)
    BY <1>1, <2>1, <2>5 DEF LineOf
  <2>9. Len(l[1]) # 1
    <3>1. ~(1 > 1)
      OBVIOUS
    <3> QED
      BY <1>1, <3>1
  <2> QED
    BY <2>1, <2>5, <2>6, <2>7, <2>8, <2>9
<1>2. CASE Len(l[1]) = 1
  <2>1. PICK u : u = Tail(l)
    OBVIOUS
  <2>2. /\ u \in Seq(SomeBytes) /\ Len(u) = Len(l) - 1
        /\ \A i \in 1..(Len(l) - 1) : u[i] = l[i + 1]
    BY <1>0, <2>1
  <2>3. ~(1 < Len(l[1])) /\ ~(Len(l[1]) > 1)
    <3>1. ~(1 < 1) /\ ~(1 > 1)
      OBVIOUS
    <3> QED
      BY <1>2, <3>1
  <2>4. Unread(l, 1) = u
    BY <2>1, <2>3 DEF Unread
  <2>5. ASSUME NEW i \in 1..(Len(l) - 1)
        PROVE  u[i] = FrameBytes(w - (Len(l) - 1) + i)
    <3>1. i + 1 \in 2..Len(l) /\ u[i] = l[i + 1]
      BY <1>0, <2>2
    <3>2. w - Len(l) + (i + 1) = w - (Len(l) - 1) + i
      BY <1>0
    <3> QED
      BY <3>1, <3>2 DEF LineOf
  <2>6. u # <<>> => /\ u[1] = FrameBytes(w - Len(u) + 1)
                    /\ w - Len(u) + 1 = w - Len(l) + 2
    <3>1. SUFFICES ASSUME u # <<>> PROVE 1 \in 1..(Len(l) - 1)
      BY <1>0, <2>2, <2>5
    <3> QED
      BY <1>0, <2>2, <3>1, EmptySeq
  <2>7. u # <<>> => u[1] \in Rests(w - Len(u) + 1)
    BY <2>6 DEF Rests
  <2>8. \A i \in 2..Len(u) : u[i] = FrameBytes(w - Len(u) + i)
    BY <1>0, <2>2, <2>5
  <2>9. Len(u) <= w
    BY <1>0, <2>2 DEF LineOf
  <2>10. LineOf(u, w)
    BY <2>7, <2>8, <2>9 DEF LineOf
  <2> QED
    BY <2>2, <2>3, <2>4, <2>6, <2>10
<1>3. Len(l[1]) > 1 \/ Len(l[1]) = 1
  <2>1. PICK n \in Nat \ {0} : n = Len(l[1])
    OBVIOUS
  <2>2. n > 1 \/ n = 1
    OBVIOUS
  <2> QED
    BY <2>1, <2>2
<1> QED
  BY <1>1, <1>2, <1>3, Zenon

\* A frame is written.
LEMMA LineWrites ==
    ASSUME NEW l \in Seq(SomeBytes), NEW w \in Nat, LineOf(l, w), FrameBytes(w + 1) \in SomeBytes
    PROVE  /\ LineOf(Append(l, FrameBytes(w + 1)), w + 1)
           /\ (w + 1) - Len(Append(l, FrameBytes(w + 1))) = w - Len(l)
           /\ \A d : FollowsLine(d, l, w - Len(l))
                        => FollowsLine(d, Append(l, FrameBytes(w + 1)), w - Len(l))
<1>0. Len(l) \in Nat /\ DOMAIN l = 1..Len(l)
  OBVIOUS
<1>1. PICK u : u = Append(l, FrameBytes(w + 1))
  OBVIOUS
<1>2. /\ u \in Seq(SomeBytes) /\ Len(u) = Len(l) + 1 /\ u[Len(l) + 1] = FrameBytes(w + 1)
      /\ \A i \in 1..Len(l) : u[i] = l[i]
  BY <1>1, AppendProperties
<1>3. u # <<>> /\ (w + 1) - Len(u) = w - Len(l)
  BY <1>0, <1>2
<1>4. CASE l = <<>>
  <2>1. Len(l) = 0 /\ u[1] = FrameBytes((w - Len(l)) + 1) /\ Len(u) = 1
    BY <1>2, <1>4
  <2>2. u[1] \in Rests((w - Len(l)) + 1)
    BY <2>1 DEF Rests
  <2>3. LineOf(u, w + 1)
    BY <2>1, <2>2 DEF LineOf
  <2>4. ASSUME NEW d, FollowsLine(d, l, w - Len(l)) PROVE FollowsLine(d, u, w - Len(l))
    <3>1. Follows(d, (w - Len(l)) + 1, u[1])
      BY <1>4, <2>1, <2>4 DEF FollowsLine, Follows
    <3> QED
      BY <1>3, <3>1 DEF FollowsLine
  <2> QED
    BY <1>1, <1>3, <2>3, <2>4
<1>5. CASE l # <<>>
  <2>1. 1 \in 1..Len(l) /\ u[1] = l[1]
    BY <1>0, <1>2, <1>5, EmptySeq
  <2>2. l[1] \in Rests((w - Len(l)) + 1) /\ Len(l) <= w
    BY <1>5 DEF LineOf
  <2>3. ASSUME NEW i \in 2..Len(u) PROVE u[i] = FrameBytes((w - Len(l)) + i)
    <3>1. CASE i = Len(l) + 1
      <4>1. (w - Len(l)) + i = w + 1
        BY <1>0, <3>1
      <4> QED
        BY <1>2, <3>1, <4>1
    <3>2. CASE i # Len(l) + 1
      <4>1. i \in 2..Len(l) /\ i \in 1..Len(l)
        BY <1>0, <1>2, <3>2
      <4> QED
        BY <1>2, <4>1 DEF LineOf
    <3> QED
      BY <3>1, <3>2
  <2>4. LineOf(u, w + 1)
    BY <1>0, <1>2, <1>3, <2>1, <2>2, <2>3 DEF LineOf
  <2>5. \A d : FollowsLine(d, l, w - Len(l)) => FollowsLine(d, u, w - Len(l))
    BY <1>3, <1>5, <2>1 DEF FollowsLine
  <2> QED
    BY <1>1, <1>3, <2>4, <2>5
<1> QED
  BY <1>4, <1>5

SerialOrder == LinesInv /\ DecodersInv /\ OrderInv

\* Steps that read nothing and write nothing: threads end, start over with a fresh decoder, or go
\* round their inner loop; the channel may be drained.
LEMMA ThreadsMove ==
    ASSUME SerialOrder, UNCHANGED <<line, nwritten, received>>, rx' = rx \/ rx' = <<>>,
           \A s \in Sessions :
              \/ thread'[s] = thread[s] /\ decoder'[s] = decoder[s] /\ frame'[s] = frame[s]
              \/ thread'[s] = "ended"
              \/ thread'[s] \in {"outer", "checked", "reconnecting", "opened", "inner"} /\ decoder'[s] = Idle
              \/ {thread[s], thread'[s]} \subseteq {"inner", "polling"} /\ decoder'[s] = decoder[s]
    PROVE  SerialOrder'
<1>0. LinesInv /\ DecodersInv /\ OrderInv /\ ReadOff' = ReadOff
  BY DEF SerialOrder, ReadOff
<1>1. LinesInv'
  BY <1>0 DEF LinesInv
<1>2. \A l, m : FollowsLine(Idle, l, m)
  BY DEF FollowsLine, Follows
<1>3. \A s \in Sessions : FollowsLine(decoder[s], line, ReadOff)' = FollowsLine(decoder'[s], line, ReadOff)
  BY <1>0 DEF FollowsLine
<1>4. ASSUME NEW s \in Sessions
      PROVE  /\ thread'[s] \in {"none", "outer", "checked", "reconnecting", "opened", "sending"}
                   => decoder'[s] = Idle
             /\ thread'[s] \in {"inner", "polling"} => FollowsLine(decoder'[s], line, ReadOff)
  <2>1. /\ thread[s] \in {"none", "outer", "checked", "reconnecting", "opened", "sending"}
              => decoder[s] = Idle
        /\ thread[s] \in {"inner", "polling"} => FollowsLine(decoder[s], line, ReadOff)
    BY <1>0 DEF DecodersInv
  <2>2. CASE thread'[s] = thread[s] /\ decoder'[s] = decoder[s]
    BY <2>1, <2>2
  <2>3. CASE thread'[s] = "ended"
    BY <2>3
  <2>4. CASE decoder'[s] = Idle
    BY <1>2, <2>4
  <2>5. CASE {thread[s], thread'[s]} \subseteq {"inner", "polling"} /\ decoder'[s] = decoder[s]
    <3>1. /\ thread[s] \in {"inner", "polling"} 
          /\ thread'[s] \in {"inner", "polling"}
      BY <2>5
    <3> QED
      BY <2>1, <2>5, <3>1
  <2> QED
    BY <2>2, <2>3, <2>4, <2>5
<1>5. DecodersInv'
  BY <1>0, <1>3, <1>4 DEF DecodersInv
<1>6. Ordered(received, rx, ReadOff) /\ Ordered(received, <<>>, ReadOff)
  BY <1>0, OrderedDrained DEF OrderInv
<1>7. ASSUME NEW s \in Sessions, thread'[s] = "sending"
      PROVE  \E k \in 1..ReadOff : frame'[s] = Payload(k) /\ Above(k, received, rx')
  <2>1. thread[s] = "sending" /\ frame'[s] = frame[s]
    BY <1>7
  <2>2. PICK k \in 1..ReadOff : frame[s] = Payload(k) /\ Above(k, received, rx)
    BY <1>0, <2>1 DEF OrderInv
  <2>3. Above(k, received, <<>>)
    BY <2>2, OrderedDrained
  <2> QED
    BY <2>1, <2>2, <2>3
<1>8. OrderInv'
  BY <1>0, <1>6, <1>7 DEF OrderInv
<1> QED
  BY <1>1, <1>5, <1>8 DEF SerialOrder

\* receive returns a frame.
LEMMA FrameReturned ==
    ASSUME SerialOrder, ChannelTypes, StateTypes, ReceiveFrame, UNCHANGED serial
    PROVE  SerialOrder'
<1>0. LinesInv /\ DecodersInv /\ OrderInv /\ ReadOff' = ReadOff /\ session \in Nat
  BY DEF SerialOrder, ReadOff, serial, StateTypes
<1>1. LinesInv' /\ DecodersInv'
  BY <1>0 DEF LinesInv, DecodersInv, serial
<1>2. /\ rx # <<>> /\ rx' = Tail(rx)
      /\ received' = Append(received, [session |-> session, frame |-> Head(rx)])
  BY DEF ReceiveFrame
<1>3. /\ received \in Seq(Receipts) /\ rx \in Seq(Seq(Nat)) /\ Ordered(received, rx, ReadOff)
  BY <1>0 DEF ChannelTypes, OrderInv
<1>4. /\ Ordered(received', rx', ReadOff)
      /\ \A k : Above(k, received, rx) => Above(k, received', rx')
  BY <1>0, <1>2, <1>3, OrderedReturned
<1>5. UNCHANGED <<thread, frame>>
  BY DEF serial
<1>6. OrderInv'
  BY <1>0, <1>4, <1>5 DEF OrderInv
<1> QED
  BY <1>1, <1>6 DEF SerialOrder

\* The frames that were read are some of those that were written.
LEMMA ReadOffType ==
    ASSUME LineTypes, LinesInv
    PROVE  /\ ReadOff \in Nat /\ ReadOff <= nwritten
           /\ line # <<>> => Len(line) \in Nat \ {0} /\ ReadOff + 1 \in Byte
<1>1. Len(line) \in Nat /\ nwritten \in Nat /\ Len(line) <= nwritten /\ nwritten <= MaxTransmits
  BY SerialBoundAssumption DEF LineTypes, LinesInv, LineOf, Byte
<1>2. line # <<>> => Len(line) # 0
  BY EmptySeq DEF LineTypes
<1>3. MaxTransmits \in 0..255
  BY SerialBoundAssumption DEF Byte
<1>4. ASSUME NEW l \in Nat, NEW w \in Nat, NEW m \in 0..255, l <= w, w <= m
      PROVE  /\ w - l \in Nat /\ w - l <= w
             /\ l # 0 => l \in Nat \ {0} /\ w - l + 1 \in 0..255
  <2>1. w - l \in Nat /\ w - l <= w /\ w <= 255
    BY <1>4
  <2>2. ASSUME l # 0 PROVE l \in Nat \ {0} /\ w - l + 1 \in 0..255
    BY <2>1, <2>2
  <2> QED
    BY <2>1, <2>2
<1>5. /\ nwritten - Len(line) \in Nat /\ nwritten - Len(line) <= nwritten
      /\ Len(line) # 0 => Len(line) \in Nat \ {0} /\ nwritten - Len(line) + 1 \in 0..255
  BY ONLY <1>1, <1>3, <1>4, Zenon
<1> QED
  BY <1>2, <1>5 DEF ReadOff, Byte

\* The thread of this session sends its frame into the channel.
LEMMA FrameSent ==
    ASSUME SerialOrder, LineTypes, ChannelTypes, StateTypes, PortInv, NEW s \in Sessions, SendFrame(s),
           Enqueue(frame[s])
    PROVE  SerialOrder'
<1>0. /\ LinesInv /\ DecodersInv /\ OrderInv /\ ReadOff' = ReadOff
      /\ thread \in [Sessions -> Places] /\ thread[s] = "sending"
  BY DEF SerialOrder, ReadOff, SendFrame, StateTypes
<1>1. UNCHANGED <<line, nwritten, decoder, received>> /\ rx' = Append(rx, frame[s])
  BY DEF SendFrame, Enqueue
<1>2. thread'[s] \in {"inner", "ended"} /\ \A t \in Sessions \ {s} : thread'[t] = thread[t]
  BY <1>0 DEF SendFrame, Goes
<1>3. \A t \in Sessions \ {s} : thread[t] # "sending"
  BY <1>0 DEF PortInv
<1>4. LinesInv'
  BY <1>0, <1>1 DEF LinesInv
<1>5. DecodersInv'
  <2>1. \A t \in Sessions : FollowsLine(decoder[t], line, ReadOff)' = FollowsLine(decoder[t], line, ReadOff)
    BY <1>0, <1>1 DEF FollowsLine
  <2>2. decoder[s] = Idle
    BY <1>0 DEF DecodersInv
  <2>3. FollowsLine(decoder[s], line, ReadOff)
    BY <2>2 DEF FollowsLine, Follows
  <2> QED
    BY <1>0, <1>1, <1>2, <2>1, <2>3 DEF DecodersInv
<1>6. PICK k \in 1..ReadOff : frame[s] = Payload(k) /\ Above(k, received, rx)
  BY <1>0 DEF OrderInv
<1>7. ReadOff \in Nat
  BY <1>0, ReadOffType
<1>8. Ordered(received, Append(rx, Payload(k)), ReadOff)
  BY <1>0, <1>6, <1>7, OrderedQueued DEF OrderInv, ChannelTypes
<1>9. \A t \in Sessions : thread'[t] # "sending"
  BY <1>2, <1>3
<1>10. OrderInv'
  BY <1>0, <1>1, <1>6, <1>8, <1>9 DEF OrderInv
<1> QED
  BY <1>4, <1>5, <1>10 DEF SerialOrder

\* A thread reads a byte: of the middle of a frame, or the flag that ends it.
LEMMA ByteRead ==
    ASSUME SerialOrder, LineTypes, StateTypes, PortInv, NEW s \in Sessions, ReadByte(s)
    PROVE  SerialOrder'
<1>0. /\ LinesInv /\ DecodersInv /\ OrderInv /\ LineOf(line, nwritten)
      /\ thread \in [Sessions -> Places] /\ thread[s] = "polling"
      /\ line \in Seq(SomeBytes) /\ line # <<>> /\ nwritten \in Nat
      /\ decoder \in [Sessions -> DecoderType] /\ frame \in [Sessions -> Seq(Byte)]
  BY SerialBoundAssumption DEF SerialOrder, LinesInv, ReadByte, StateTypes, LineTypes, Byte
<1>1. PICK n \in Byte : n = ReadOff + 1
  BY <1>0, ReadOffType
<1>2. /\ ReadOff \in Nat /\ Len(line) \in Nat \ {0} /\ nwritten - Len(line) = ReadOff
      /\ nwritten - Len(line) + 1 = n /\ nwritten - Len(line) + 2 = n + 1
  BY <1>0, <1>1, ReadOffType DEF ReadOff
<1>3. PICK r \in Rests(n) : r = line[1]
  BY <1>0, <1>2 DEF LineOf
<1>4. r \in Seq(Byte) /\ Len(r) \in Nat \ {0} /\ (Len(r) > 1 => Tail(r) \in Rests(n))
  BY RestParts
<1>5. Follows(decoder[s], n, r)
  BY <1>0, <1>1, <1>3 DEF DecodersInv, FollowsLine
<1>6. PICK f : f = SerialFeed(decoder[s], r[1])
  OBVIOUS
<1>7. /\ decoder' = [decoder EXCEPT ![s] = f.dec] /\ frame' = [frame EXCEPT ![s] = FlattenSeq(f.out)]
      /\ thread' = [thread EXCEPT ![s] = IF f.out = <<>> THEN "inner" ELSE "sending"]
      /\ UNCHANGED <<nwritten, received, rx>>
  BY <1>3, <1>6 DEF ReadByte, Decoded, Goes, object
<1>8. PICK l : l = Unread(line, 1)
  OBVIOUS
<1>9. line' = l
  BY <1>8 DEF ReadByte
<1>10. /\ LineOf(l, nwritten)
       /\ Len(r) > 1 => l # <<>> /\ l[1] = Tail(r) /\ Len(l) = Len(line)
       /\ Len(r) = 1 => Len(l) = Len(line) - 1 /\ (l # <<>> => l[1] = FrameBytes(n + 1))
  BY <1>0, <1>2, <1>3, <1>4, <1>8, LineReads
<1>11. LinesInv'
  BY <1>7, <1>9, <1>10 DEF LinesInv
<1>12. /\ Len(r) > 1 => ReadOff' = ReadOff
       /\ Len(r) = 1 => ReadOff' = n
  <2>1. ReadOff' = nwritten - Len(l)
    BY <1>7, <1>9 DEF ReadOff
  <2>2. Len(r) > 1 => Len(l) = Len(line)
    BY <1>10
  <2>3. Len(r) = 1 => Len(l) = Len(line) - 1
    BY <1>10
  <2>4. nwritten - (Len(line) - 1) = n
    BY <1>0, <1>2
  <2> QED
    BY <1>2, <2>1, <2>2, <2>3, <2>4
<1>13. \A t \in Sessions \ {s} : /\ thread[t] \notin {"opened", "inner", "polling", "sending"}
                                 /\ thread'[t] = thread[t] /\ decoder'[t] = decoder[t]
  BY <1>0, <1>7 DEF PortInv
<1>14. /\ decoder'[s] = f.dec /\ frame'[s] = FlattenSeq(f.out)
       /\ thread'[s] = IF f.out = <<>> THEN "inner" ELSE "sending"
  BY <1>0, <1>7
<1>15. Ordered(received, rx, ReadOff) /\ Ordered(received, rx, n) /\ Above(n, received, rx)
  <2>1. Ordered(received, rx, ReadOff)
    BY <1>0 DEF OrderInv
  <2>2. ReadOff <= n /\ n \in Nat
    BY <1>1, <1>2
  <2> QED
    BY <1>1, <1>2, <2>1, <2>2, OrderedGrows, NextAfter
<1>16. Len(r) > 1 \/ Len(r) = 1
  BY <1>4, SMTT(60)
<1>17. Ordered(received', rx', ReadOff')
  BY <1>7, <1>12, <1>15, <1>16
<1>18. CASE \E e : /\ f = More(e) /\ Len(r) > 1 => Follows(e, n, Tail(r))
                   /\ f = More(e) /\ Len(r) = 1 => e \in {Idle, Open}
                   /\ f = More(e)
  <2>1. PICK e : /\ Len(r) > 1 => Follows(e, n, Tail(r))
                 /\ Len(r) = 1 => e \in {Idle, Open}
                 /\ f = More(e)
    BY <1>18
  <2>2. f.dec = e /\ f.out = <<>>
    BY <2>1 DEF More
  <2>3. thread'[s] = "inner" /\ decoder'[s] = e
    BY <1>14, <2>2
  <2>4. FollowsLine(e, line', ReadOff')
    <3>1. CASE Len(r) > 1
      BY <1>1, <1>9, <1>10, <1>12, <2>1, <3>1 DEF FollowsLine
    <3>2. CASE Len(r) = 1 /\ l = <<>>
      BY <1>9, <2>1, <3>2 DEF FollowsLine
    <3>3. CASE Len(r) = 1 /\ l # <<>>
      <4>1. l[1] = FrameBytes(n + 1) /\ ReadOff' = n /\ e \in {Idle, Open}
        BY <1>10, <1>12, <2>1, <3>3
      <4>2. Follows(e, n + 1, l[1])
        BY <4>1 DEF Follows
      <4> QED
        BY <1>9, <3>3, <4>1, <4>2 DEF FollowsLine
    <3> QED
      BY <1>16, <3>1, <3>2, <3>3
  <2>5. \A t \in Sessions : thread'[t] # "sending"
    BY <1>13, <2>3
  <2>6. DecodersInv'
    BY <1>0, <1>13, <2>3, <2>4 DEF DecodersInv
  <2>7. OrderInv'
    BY <1>17, <2>5 DEF OrderInv
  <2> QED
    BY <1>11, <2>6, <2>7 DEF SerialOrder
<1>19. CASE f = Frame(Idle, Payload(n)) /\ Len(r) = 1
  <2>1. f.dec = Idle /\ f.out = <<Payload(n)>>
    BY <1>19 DEF Frame
  <2>2. thread'[s] = "sending" /\ decoder'[s] = Idle
    BY <1>14, <2>1
  <2>3. frame'[s] = Payload(n)
    <3>1. Payload(n) \in Seq(Byte)
      BY DEF Payload
    <3>2. <<>> \in Seq(Seq(Byte)) /\ <<Payload(n)>> = Append(<<>>, Payload(n))
      BY <3>1
    <3>3. FlattenSeq(Append(<<>>, Payload(n))) = FlattenSeq(<<>>) \o Payload(n)
      BY <3>1, <3>2, FlattenAppend
    <3>4. <<>> \o Payload(n) = Payload(n)
      BY <3>1
    <3> QED
      BY <1>14, <2>1, <3>2, <3>3, <3>4, FlattenEmpty
  <2>4. n \in 1..ReadOff'
    BY <1>1, <1>2, <1>12, <1>19
  <2>5. \A t \in Sessions : thread'[t] = "sending" => t = s
    BY <1>13
  <2>6. DecodersInv'
    BY <1>0, <1>13, <2>2 DEF DecodersInv
  <2>7. OrderInv'
    BY <1>7, <1>15, <1>17, <2>3, <2>4, <2>5 DEF OrderInv
  <2> QED
    BY <1>11, <2>6, <2>7 DEF SerialOrder
<1> QED
  BY <1>5, <1>6, <1>18, <1>19, FollowsStep

\* The peer writes a frame.
LEMMA FrameWritten ==
    ASSUME SerialOrder, LineTypes, PeerTransmits
    PROVE  SerialOrder'
<1>0. /\ LinesInv /\ DecodersInv /\ OrderInv /\ LineOf(line, nwritten)
      /\ line \in Seq(SomeBytes) /\ nwritten \in Nat /\ nwritten + 1 \in Byte
      /\ nwritten' = nwritten + 1 /\ UNCHANGED <<thread, decoder, frame, received, rx>>
  BY SerialBoundAssumption DEF SerialOrder, LinesInv, LineTypes, PeerTransmits, object, Byte
<1>1. PICK b : b = FrameBytes(nwritten + 1)
  OBVIOUS
<1>2. b \in SomeBytes
  <2>1. b \in Rests(nwritten + 1)
    BY <1>1 DEF Rests
  <2> QED
    BY <1>0, <2>1, RestParts DEF SomeBytes
<1>3. line' = Append(line, b)
  BY <1>0, <1>1, WholeFrame DEF PeerTransmits
<1>4. /\ LineOf(line', nwritten') /\ ReadOff' = ReadOff
      /\ \A d : FollowsLine(d, line, ReadOff) => FollowsLine(d, line', ReadOff')
  <2>1. /\ LineOf(Append(line, b), nwritten + 1)
        /\ (nwritten + 1) - Len(Append(line, b)) = nwritten - Len(line)
        /\ \A d : FollowsLine(d, line, nwritten - Len(line))
                     => FollowsLine(d, Append(line, b), nwritten - Len(line))
    BY <1>0, <1>1, <1>2, LineWrites
  <2>2. ReadOff' = ReadOff
    BY <1>0, <1>3, <2>1 DEF ReadOff
  <2> QED
    BY <1>0, <1>3, <2>1, <2>2 DEF ReadOff
<1>5. LinesInv'
  BY <1>4 DEF LinesInv
<1>6. DecodersInv'
  BY <1>0, <1>4 DEF DecodersInv
<1>7. OrderInv'
  BY <1>0, <1>4 DEF OrderInv
<1> QED
  BY <1>5, <1>6, <1>7 DEF SerialOrder

\* While no read fails every step keeps the frames whole and in order.
LEMMA SerialOrderStep ==
    ASSUME SerialOrder, LineTypes, ChannelTypes, StateTypes, ThreadsInv, PortInv, SerialNext,
           errors = errors', ~garbled'
    PROVE  SerialOrder'
<1>0. /\ thread \in [Sessions -> Places] /\ decoder \in [Sessions -> DecoderType]
      /\ frame \in [Sessions -> Seq(Byte)] /\ session \in Nat /\ DecodersInv
  BY DEF StateTypes, LineTypes, SerialOrder
<1>1. CASE SerialStart
  <2>1. /\ session' = session + 1 /\ rx' = <<>>
        /\ thread' = [thread EXCEPT ![session + 1] = "outer"]
        /\ UNCHANGED <<line, nwritten, received, decoder, frame>>
    BY <1>1 DEF SerialStart, Started, Goes
  <2>2. ASSUME NEW s \in Sessions
        PROVE  \/ thread'[s] = thread[s] /\ decoder'[s] = decoder[s] /\ frame'[s] = frame[s]
               \/ thread'[s] = "outer" /\ decoder'[s] = Idle
    <3>1. CASE s = session + 1
      <4>1. ~(session + 1 <= session)
        BY <1>0
      <4>2. thread[s] = "none"
        BY <3>1, <4>1 DEF ThreadsInv
      <4> QED
        BY <1>0, <2>1, <3>1, <4>2 DEF DecodersInv
    <3>2. CASE s # session + 1
      BY <1>0, <2>1, <3>2
    <3> QED
      BY <3>1, <3>2
  <2> QED
    BY <2>1, <2>2, ThreadsMove
<1>2. CASE SerialShutdown
  <2>1. rx' = <<>> /\ UNCHANGED <<line, nwritten, received, thread, decoder, frame>>
    BY <1>2 DEF SerialShutdown, Stopped
  <2> QED
    BY <2>1, ThreadsMove
<1>3. CASE SerialReceive
  <2>1. CASE ReceiveFrame
    BY <1>3, <2>1, FrameReturned DEF SerialReceive
  <2>2. CASE ReceiveLost(thread[session] = "ended")
    <3>1. UNCHANGED <<line, nwritten, received, rx, thread, decoder, frame>>
      BY <1>3, <2>2 DEF SerialReceive, ReceiveLost, serial
    <3> QED
      BY <3>1, ThreadsMove
  <2> QED
    BY <1>3, <2>1, <2>2 DEF SerialReceive
<1>4. CASE SerialSend
  <2>1. UNCHANGED <<line, nwritten, received, rx, thread, decoder, frame>>
    BY <1>4 DEF SerialSend, Written, serial
  <2> QED
    BY <2>1, ThreadsMove
<1>5. CASE PeerTransmits
  BY <1>5, FrameWritten
<1>6. ASSUME NEW s \in Sessions, ThreadStep(s) PROVE SerialOrder'
  <2>1. CASE OuterCheck(s) \/ TakePort(s) \/ Reopen(s) \/ StorePort(s)
    <3>1. /\ UNCHANGED <<line, nwritten, received, rx, decoder, frame>>
          /\ thread[s] \in {"outer", "checked", "reconnecting", "opened"}
          /\ \E place \in {"ended", "outer", "checked", "reconnecting", "opened", "inner"} :
                thread' = [thread EXCEPT ![s] = place]
      BY <2>1 DEF OuterCheck, TakePort, Reopen, StorePort, Goes, object
    <3>2. decoder[s] = Idle
      BY <1>0, <3>1 DEF DecodersInv
    <3>3. /\ thread'[s] \in {"ended", "outer", "checked", "reconnecting", "opened", "inner"}
          /\ \A t \in Sessions \ {s} : thread'[t] = thread[t]
      BY <1>0, <3>1
    <3> QED
      BY <3>1, <3>2, <3>3, ThreadsMove
  <2>2. CASE InnerCheck(s)
    <3>1. /\ UNCHANGED <<line, nwritten, received, rx, decoder, frame>>
          /\ thread[s] = "inner"
          /\ \E place \in {"ended", "polling"} : thread' = [thread EXCEPT ![s] = place]
      BY <2>2 DEF InnerCheck, Goes, object
    <3>2. /\ thread'[s] \in {"ended", "polling"}
          /\ \A t \in Sessions \ {s} : thread'[t] = thread[t]
      BY <1>0, <3>1
    <3> QED
      BY <3>1, <3>2, ThreadsMove
  <2>3. CASE ReadByte(s)
    BY <2>3, ByteRead
  <2>7. CASE ReadNoise(s)
    BY <2>7 DEF ReadNoise
  <2>4. CASE ReadTimesOut(s)
    <3>1. /\ UNCHANGED <<line, nwritten, received, rx, frame>>
          /\ decoder' = [decoder EXCEPT ![s] = Idle] /\ thread' = [thread EXCEPT ![s] = "inner"]
      BY <2>4, IdleAndOpen DEF ReadTimesOut, Goes, object
    <3>2. /\ thread'[s] = "inner" /\ decoder'[s] = Idle
          /\ \A t \in Sessions \ {s} : thread'[t] = thread[t] /\ decoder'[t] = decoder[t]
      BY <1>0, <3>1
    <3> QED
      BY <3>1, <3>2, ThreadsMove
  <2>5. CASE ReadFails(s)
    <3>1. errors' = errors + 1 /\ errors \in Nat
      BY <2>5 DEF ReadFails, LineTypes
    <3> QED
      BY <3>1
  <2>6. CASE SendFrame(s)
    <3>1. CASE Enqueue(frame[s])
      BY <2>6, <3>1, FrameSent
    <3>2. CASE Goes(s, "ended") /\ UNCHANGED object
      <4>1. /\ UNCHANGED <<line, nwritten, received, rx, decoder>>
            /\ frame' = [frame EXCEPT ![s] = <<>>] /\ thread' = [thread EXCEPT ![s] = "ended"]
        BY <2>6, <3>2 DEF SendFrame, Goes, object
      <4>2. /\ thread'[s] = "ended"
            /\ \A t \in Sessions \ {s} : thread'[t] = thread[t] /\ frame'[t] = frame[t]
        BY <1>0, <4>1
      <4> QED
        BY <4>1, <4>2, ThreadsMove
    <3> QED
      BY <2>6, <3>1, <3>2 DEF SendFrame
  <2> QED
    BY <1>6, <2>1, <2>2, <2>3, <2>4, <2>5, <2>6, <2>7 DEF ThreadStep
<1> QED
  BY <1>1, <1>2, <1>3, <1>4, <1>5, <1>6 DEF SerialNext

\* Every step of a serial interface keeps its invariant.
LEMMA SerialStep ==
    ASSUME SerialInv, LineTypes, StateTypes, ThreadsInv, SerialNext
    PROVE  SerialInv'
<1>1. ChannelTypes' /\ PortInv'
  BY ChannelTypesStep, PortStep DEF SerialInv
<1>2. (errors' = errors \/ errors' = errors + 1) /\ (garbled' = garbled \/ garbled')
  BY DEF SerialNext, SerialStart, SerialShutdown, SerialReceive, SerialSend, PeerTransmits, ThreadStep,
         OuterCheck, TakePort, Reopen, StorePort, InnerCheck, ReadByte, ReadNoise, ReadTimesOut, ReadFails,
         SendFrame, serial
<1>3. CASE errors' = 0 /\ ~garbled'
  <2>1. errors = 0 /\ errors' = errors /\ ~garbled
    BY <1>2, <1>3 DEF LineTypes
  <2>2. SerialOrder /\ ChannelTypes /\ PortInv
    BY <2>1 DEF SerialInv, SerialOrder
  <2>3. SerialOrder'
    BY <1>3, <2>1, <2>2, SerialOrderStep
  <2> QED
    BY <1>1, <2>3 DEF SerialInv, SerialOrder
<1>4. CASE ~(errors' = 0 /\ ~garbled')
  BY <1>1, <1>4 DEF SerialInv
<1> QED
  BY <1>3, <1>4

-----------------------------------------------------------------------------
(* The speed of the port *)

\* Before a read fails or a thread comes too late the port is open at its own speed, the thread that
\* was not told to stop holds it or finds it in the mutex, and no other thread of an interface that
\* is online holds it.
OwnSpeed ==
    /\ guard \in {"none", speed}
    /\ \A s \in Sessions :
          /\ port[s] \in {"none", speed}
          /\ port[s] # "none" /\ online => ~told[s]
          /\ thread[s] = "reconnecting" => told[s]
          /\ thread[s] \in {"outer", "checked"} /\ guard = "none" => told[s]

SpeedInv ==
    /\ guard \in {"none", "fixed", speed} /\ \A s \in Sessions : port[s] \in {"none", "fixed", speed}
    /\ kind = "serial" => speed # "none"
    /\ errors = 0 /\ ~late => OwnSpeed
    /\ NoiseHasItsCause

-----------------------------------------------------------------------------
(* The frames of every interface *)

\* To a serial interface nothing of TCP happens.
TcpIdle == kind = "serial" => accept = "none" /\ \A c \in Conns : task[c] = "none" /\ conn[c] = "none"

FramesInv ==
    /\ InterfacesInv /\ LineTypes /\ TcpIdle
    /\ kind # "serial" => TcpInv
    /\ kind = "serial" => SerialInv /\ SpeedInv
    /\ NoiseHasItsCause

\* So it is in every state: the TCP actions are those of the other kinds.
LEMMA IdleStays ==
    ASSUME TcpIdle, StateTypes, kind = "serial"
    PROVE  /\ ~TcpNext
           /\ UNCHANGED tcp => TcpIdle'
<1>1. /\ accept = "none" /\ ~awaiting /\ \A c \in Conns : task[c] = "none" /\ conn[c] = "none"
  BY DEF TcpIdle, StateTypes
<1>2. ~TcpNext
  BY <1>1 DEF TcpNext, ClientStart, ClientShutdown, ClientShutdownEnds, ClientSend, ServerStart,
         ServerShutdown, ServerShutdownEnds, AcceptLoopStops, AcceptFails, AcceptLoopBreaks,
         AcceptLoopJoins, TcpReceive, ServerAccepts, ReadLoop, PeerWrites, PeerCloses, LoopStops,
         LoopReads, LoopPushes, LoopDisconnects
<1>3. UNCHANGED tcp => TcpIdle'
  BY <1>1 DEF TcpIdle, tcp
<1> QED
  BY <1>2, <1>3

\* Only a serial interface makes serial steps.
LEMMA SerialOnly ==
    ASSUME ThreadsInv, SerialNext
    PROVE  kind = "serial" /\ kind' = kind
<1>1. ASSUME NEW s \in Sessions, ThreadStep(s) PROVE kind = "serial" /\ kind' = kind
  <2>1. thread[s] # "none" /\ kind' = kind
    BY <1>1 DEF ThreadStep, OuterCheck, TakePort, Reopen, StorePort, InnerCheck, ReadByte, ReadNoise,
                ReadTimesOut, ReadFails, SendFrame, object, Enqueue
  <2> QED
    BY <2>1 DEF ThreadsInv
<1> QED
  BY <1>1 DEF SerialNext, SerialStart, SerialShutdown, SerialReceive, SerialSend, PeerTransmits,
              Started, Stopped, ReceiveFrame, ReceiveLost, Written, object

\* Every step of a serial interface keeps it.
LEMMA SpeedStep ==
    ASSUME SpeedInv, PortInv, StateTypes, ThreadsInv, SerialNext, errors \in Nat
    PROVE  SpeedInv'
<1>0. /\ kind = "serial" /\ kind' = kind /\ speed # "none" /\ session \in Nat
      /\ thread \in [Sessions -> Places] /\ port \in [Sessions -> Handles]
      /\ told \in [Sessions -> BOOLEAN]
  BY SerialOnly DEF SpeedInv, StateTypes
<1>1. CASE SerialStart
  <2>1. /\ guard = "none" /\ \A s \in Sessions : port[s] = "none"
        /\ guard' = speed /\ session' = session + 1 /\ thread' = [thread EXCEPT ![session + 1] = "outer"]
        /\ UNCHANGED <<port, told, errors, late, garbled, speed>>
    BY <1>1 DEF SerialStart, DeviceFree, Started, Goes
  <2>2. \A s \in Sessions : thread'[s] = "reconnecting" => thread[s] = "reconnecting"
    BY <1>0, <2>1
  <2>3. OwnSpeed => OwnSpeed'
    BY <1>0, <2>1, <2>2 DEF OwnSpeed
  <2> QED
    BY <1>0, <2>1, <2>3 DEF SpeedInv, NoiseHasItsCause
<1>2. CASE SerialShutdown
  <2>1. /\ online' = FALSE /\ guard' = "none" /\ told' = [told EXCEPT ![session] = TRUE] /\ online
        /\ UNCHANGED <<thread, port, errors, late, garbled, speed>>
    BY <1>2 DEF SerialShutdown, Stopped
  <2>2. ASSUME NEW s \in Sessions, thread[s] # "none"
        PROVE  told'[s]
    <3>1. s \in Nat /\ s <= session /\ (s < session => told[s])
      BY <2>2 DEF ThreadsInv, Sessions
    <3> QED
      BY <1>0, <2>1, <3>1
  <2>3. OwnSpeed => OwnSpeed'
    BY <2>1, <2>2 DEF OwnSpeed
  <2> QED
    BY <1>0, <2>1, <2>3 DEF SpeedInv, NoiseHasItsCause
<1>3. CASE SerialReceive \/ SerialSend \/ PeerTransmits
  <2>1. UNCHANGED <<online, thread, port, guard, told, errors, late, garbled, speed>>
    BY <1>3 DEF SerialReceive, SerialSend, PeerTransmits, ReceiveFrame, ReceiveLost, Written, serial, object
  <2> QED
    BY <1>0, <2>1 DEF SpeedInv, OwnSpeed, NoiseHasItsCause
<1>4. ASSUME NEW s \in Sessions, ThreadStep(s) PROVE SpeedInv'
  <2>0. UNCHANGED <<online, told, speed>>
    BY <1>4 DEF ThreadStep, OuterCheck, TakePort, Reopen, StorePort, InnerCheck, ReadByte, ReadNoise,
                ReadTimesOut, ReadFails, SendFrame, Enqueue, object
  <2>told. \A t \in Sessions : thread[t] # "none" /\ ~told[t] => t = session /\ online
    BY <1>0 DEF ThreadsInv, Sessions
  <2>others. ASSUME NEW place, Goes(s, place)
             PROVE  thread'[s] = place /\ \A t \in Sessions \ {s} : thread'[t] = thread[t]
    BY <1>0, <2>others DEF Goes
  <2>ports. ASSUME NEW handle, port' = [port EXCEPT ![s] = handle]
            PROVE  port'[s] = handle /\ \A t \in Sessions \ {s} : port'[t] = port[t]
    BY <1>0, <2>ports
  <2>1. SUFFICES ASSUME \/ ReadNoise(s)
                        \/ /\ garbled' = garbled /\ (late => late')
                           /\ errors' \in {errors, errors + 1}
                 PROVE  SpeedInv'
    BY <1>4 DEF ThreadStep, OuterCheck, TakePort, Reopen, StorePort, InnerCheck, ReadByte,
                ReadTimesOut, ReadFails, SendFrame
  <2>2. CASE OuterCheck(s)
    <3>1. /\ thread[s] = "outer" /\ Goes(s, IF told[s] THEN "ended" ELSE "checked")
          /\ UNCHANGED <<guard, port, errors, late, garbled>>
      BY <2>2 DEF OuterCheck
    <3>2. /\ thread'[s] \in {"ended", "checked"}
          /\ \A t \in Sessions \ {s} : thread'[t] = thread[t]
      BY <2>others, <3>1
    <3>3. OwnSpeed => OwnSpeed'
      BY <2>0, <3>1, <3>2 DEF OwnSpeed
    <3> QED
      BY <1>0, <2>0, <3>1, <3>3 DEF SpeedInv, NoiseHasItsCause
  <2>3. CASE TakePort(s)
    <3>1. /\ thread[s] = "checked" /\ port' = [port EXCEPT ![s] = guard] /\ guard' = "none"
          /\ Goes(s, IF guard = "none" THEN "reconnecting" ELSE "inner")
          /\ late' = (late \/ (told[s] /\ guard # "none")) /\ UNCHANGED <<errors, garbled>>
      BY <2>3 DEF TakePort
    <3>2. port'[s] = guard /\ \A t \in Sessions \ {s} : port'[t] = port[t]
      BY <2>ports, <3>1
    <3>3. /\ thread'[s] = IF guard = "none" THEN "reconnecting" ELSE "inner"
          /\ \A t \in Sessions \ {s} : thread'[t] = thread[t]
      BY <2>others, <3>1
    <3>4. ASSUME OwnSpeed, ~late' PROVE OwnSpeed'
      <4>1. CASE guard = "none"
        <5>1. told[s]
          BY <3>1, <3>4, <4>1 DEF OwnSpeed
        <5> QED
          BY <2>0, <3>1, <3>2, <3>3, <3>4, <4>1, <5>1 DEF OwnSpeed
      <4>2. CASE guard # "none"
        <5>1. ~told[s] /\ s = session
          BY <2>told, <3>1, <3>4, <4>2
        <5>2. \A t \in Sessions \ {s} : thread[t] # "none" => told[t]
          BY <2>told, <5>1
        <5> QED
          BY <2>0, <3>1, <3>2, <3>3, <3>4, <4>2, <5>1, <5>2 DEF OwnSpeed
      <4> QED
        BY <4>1, <4>2
    <3>5. guard' \in {"none", "fixed", speed} /\ \A t \in Sessions : port'[t] \in {"none", "fixed", speed}
      BY <3>1, <3>2 DEF SpeedInv
    <3> QED
      BY <1>0, <2>0, <3>1, <3>4, <3>5 DEF SpeedInv, NoiseHasItsCause
  <2>4. CASE Reopen(s)
    <3>1. thread[s] = "reconnecting" /\ UNCHANGED <<guard, errors, garbled>>
      BY <2>4 DEF Reopen
    <3>2. CASE port' = [port EXCEPT ![s] = "fixed"] /\ late' = (late \/ told[s])
      <4>1. OwnSpeed => late'
        BY <3>1, <3>2 DEF OwnSpeed
      <4>2. \A t \in Sessions : port'[t] \in {"none", "fixed", speed}
        BY <2>ports, <3>2 DEF SpeedInv
      <4> QED
        BY <1>0, <2>0, <3>1, <3>2, <4>1, <4>2 DEF SpeedInv, NoiseHasItsCause
    <3>3. CASE Goes(s, "outer") /\ UNCHANGED <<port, late>>
      <4>1. thread'[s] = "outer" /\ \A t \in Sessions \ {s} : thread'[t] = thread[t]
        BY <2>others, <3>3
      <4>2. OwnSpeed => OwnSpeed'
        BY <2>0, <3>1, <3>3, <4>1 DEF OwnSpeed
      <4> QED
        BY <1>0, <2>0, <3>1, <3>3, <4>2 DEF SpeedInv, NoiseHasItsCause
    <3> QED
      BY <2>4, <3>2, <3>3 DEF Reopen
  <2>5. CASE StorePort(s)
    <3>1. /\ thread[s] = "opened" /\ guard' = port[s] /\ port' = [port EXCEPT ![s] = "none"]
          /\ Goes(s, "outer") /\ late' = (late \/ told[s]) /\ UNCHANGED <<errors, garbled>>
      BY <2>5 DEF StorePort
    <3>2. port'[s] = "none" /\ \A t \in Sessions \ {s} : port'[t] = port[t]
      BY <2>ports, <3>1
    <3>3. thread'[s] = "outer" /\ \A t \in Sessions \ {s} : thread'[t] = thread[t]
      BY <2>others, <3>1
    <3>4. port[s] # "none"
      BY <3>1 DEF PortInv
    <3>5. OwnSpeed => OwnSpeed'
      BY <2>0, <3>1, <3>2, <3>3, <3>4 DEF OwnSpeed
    <3>6. guard' \in {"none", "fixed", speed} /\ \A t \in Sessions : port'[t] \in {"none", "fixed", speed}
      BY <3>1, <3>2 DEF SpeedInv
    <3> QED
      BY <1>0, <2>0, <3>1, <3>5, <3>6 DEF SpeedInv, NoiseHasItsCause
  <2>6. CASE /\ UNCHANGED <<guard, port, errors, late, garbled>>
             /\ \E place \in {"inner", "polling", "sending"} : Goes(s, place)
    <3>1. /\ thread'[s] \in {"inner", "polling", "sending"}
          /\ \A t \in Sessions \ {s} : thread'[t] = thread[t]
      BY <2>6, <2>others
    <3>2. OwnSpeed => OwnSpeed'
      BY <2>0, <2>6, <3>1 DEF OwnSpeed
    <3> QED
      BY <1>0, <2>0, <2>6, <3>2 DEF SpeedInv, NoiseHasItsCause
  <2>7. CASE DropPort(s) /\ Goes(s, "ended") /\ port[s] # "none" /\ told[s] /\ UNCHANGED <<errors, late, garbled>>
    <3>1. guard' = "none" /\ port'[s] = "none" /\ \A t \in Sessions \ {s} : port'[t] = port[t]
      BY <2>7, <2>ports DEF DropPort
    <3>2. thread'[s] = "ended" /\ \A t \in Sessions \ {s} : thread'[t] = thread[t]
      BY <2>7, <2>others
    <3>3. ASSUME OwnSpeed PROVE OwnSpeed'
      <4>1. ~online
        BY <2>7, <3>3 DEF OwnSpeed
      <4>2. \A t \in Sessions : thread[t] # "none" => told[t]
        BY <2>told, <4>1
      <4> QED
        BY <2>0, <3>1, <3>2, <3>3, <4>2 DEF OwnSpeed
    <3>4. \A t \in Sessions : port'[t] \in {"none", "fixed", speed}
      BY <3>1 DEF SpeedInv
    <3> QED
      BY <1>0, <2>0, <2>7, <3>1, <3>3, <3>4 DEF SpeedInv, NoiseHasItsCause
  <2>8. CASE InnerCheck(s)
    <3>1. port[s] # "none"
      BY <2>8 DEF InnerCheck, PortInv
    <3> QED
      BY <2>6, <2>7, <2>8, <3>1 DEF InnerCheck
  <2>9. CASE ReadByte(s) \/ ReadTimesOut(s)
    BY <2>6, <2>9 DEF ReadByte, Decoded, Goes, ReadTimesOut
  <2>10. CASE ReadNoise(s)
    <3>1. /\ thread[s] = "polling" /\ port[s] # speed /\ garbled'
          /\ \E place \in {"inner", "sending"} : Goes(s, place)
          /\ UNCHANGED <<guard, port, errors, late>>
      BY <2>10 DEF ReadNoise, Decoded, Goes
    <3>2. port[s] = "fixed" /\ speed # "fixed"
      BY <3>1 DEF PortInv, SpeedInv
    <3>3. errors > 0 \/ late
      BY <3>1, <3>2 DEF SpeedInv, OwnSpeed
    <3>4. /\ thread'[s] \in {"inner", "sending"}
          /\ \A t \in Sessions \ {s} : thread'[t] = thread[t]
      BY <2>others, <3>1
    <3>5. OwnSpeed => OwnSpeed'
      BY <2>0, <3>1, <3>4 DEF OwnSpeed
    <3> QED
      BY <1>0, <2>0, <3>1, <3>2, <3>3, <3>5 DEF SpeedInv, NoiseHasItsCause
  <2>11. CASE ReadFails(s)
    <3>1. DropPort(s) /\ errors' = errors + 1 /\ UNCHANGED <<late, garbled>>
      BY <2>11 DEF ReadFails
    <3>2. guard' = "none" /\ port'[s] = "none" /\ \A t \in Sessions \ {s} : port'[t] = port[t]
      BY <2>ports, <3>1 DEF DropPort
    <3>3. \A t \in Sessions : port'[t] \in {"none", "fixed", speed}
      BY <3>2 DEF SpeedInv
    <3> QED
      BY <1>0, <2>0, <3>1, <3>2, <3>3 DEF SpeedInv, NoiseHasItsCause
  <2>12. CASE SendFrame(s)
    <3>1. thread[s] = "sending" /\ port[s] # "none"
      BY <2>12 DEF SendFrame, PortInv
    <3>2. s # session => told[s]
      BY <2>told, <3>1
    <3> QED
      BY <2>6, <2>7, <2>12, <3>1, <3>2 DEF SendFrame
  <2> QED
    BY <1>4, <2>2, <2>3, <2>4, <2>5, <2>8, <2>9, <2>10, <2>11, <2>12 DEF ThreadStep
<1> QED
  BY <1>1, <1>2, <1>3, <1>4 DEF SerialNext

\* At first no frame was written.
LEMMA TcpInitially ==
    ASSUME Init, kind # "serial"
    PROVE  TcpInv
<1>1. /\ accept = "none" /\ received = <<>> /\ rx = <<>> /\ writes = 0
      /\ conn = [c \in Conns |-> "none"] /\ wire = [c \in Conns |-> <<>>]
      /\ task = [c \in Conns |-> "none"] /\ batch = [c \in Conns |-> <<>>]
      /\ written = [c \in Conns |-> {}]
  BY DEF Init, InterfaceInit, TcpInit
<1>2. received \in Seq(Receipts) /\ rx \in Seq(Seq(Nat)) /\ Len(rx) <= Capacity
  BY <1>1, CapacityAssumption
<1>3. <<>> \in Seq(Nat) /\ DOMAIN received = {} /\ DOMAIN rx = {}
  BY <1>1
<1>4. WrittenInv
  BY <1>1, <1>3 DEF WrittenInv
<1>5. QueueInv
  BY <1>2, <1>3 DEF QueueInv
<1>6. ASSUME NEW c \in Conns PROVE TaskInv(c) /\ PipeInv(c)
  <2>1. /\ task[c] = "none" /\ conn[c] = "none" /\ wire[c] = <<>> /\ batch[c] = <<>> /\ written[c] = {}
    BY <1>1
  <2>2. Returned(c) = {} /\ Queued(c) = {}
    BY <2>1 DEF Returned, Queued
  <2>3. Pipe(<<>>, <<>>, {}, {}, {}, task[c], conn[c])
    BY PipeNew
  <2> QED
    BY <2>1, <2>2, <2>3 DEF TaskInv, PipeInv
<1>7. TcpFramesInOrder
  <2>1. \A c \in Conns : written[c] = {}
    BY <1>1
  <2> QED
    BY <1>3, <2>1 DEF TcpFramesInOrder, Deliverable
<1> QED
  BY <1>1, <1>2, <1>4, <1>5, <1>6, <1>7 DEF TcpInv

\* At first the line is empty and every decoder waits for a flag.
LEMMA SerialInitially ==
    ASSUME Init
    PROVE  LineTypes /\ (kind = "serial" => SerialInv /\ SpeedInv) /\ NoiseHasItsCause
<1>1. /\ received = <<>> /\ rx = <<>> /\ guard = "none" /\ line = <<>> /\ nwritten = 0 /\ errors = 0
      /\ thread = [s \in Sessions |-> "none"] /\ port = [s \in Sessions |-> "none"]
      /\ decoder = [s \in Sessions |-> Idle] /\ frame = [s \in Sessions |-> <<>>]
  BY IdleAndOpen DEF Init, InterfaceInit, SerialInit
<1>2. LineTypes
  <2>1. <<>> \in Seq(SomeBytes) /\ <<>> \in Seq(Byte) /\ nwritten \in 0..MaxTransmits
    BY <1>1, EmptyParts, SerialBoundAssumption DEF Byte
  <2>2. decoder \in [Sessions -> DecoderType] /\ frame \in [Sessions -> Seq(Byte)]
    BY <1>1, <2>1, IdleAndOpen
  <2> QED
    BY <1>1, <2>1, <2>2 DEF LineTypes
<1>3. ChannelTypes
  <2>1. received \in Seq(Receipts) /\ rx \in Seq(Seq(Nat)) /\ Len(rx) <= Capacity
    BY <1>1, CapacityAssumption
  <2> QED
    BY <2>1 DEF ChannelTypes
<1>4. PortInv
  BY <1>1 DEF PortInv
<1>5. LinesInv
  <2>1. Len(line) = 0
    BY <1>1
  <2> QED
    BY <1>1, <2>1 DEF LinesInv, LineOf
<1>6. DecodersInv
  BY <1>1 DEF DecodersInv
<1>7. OrderInv
  <2>1. DOMAIN received = {} /\ DOMAIN rx = {}
    BY <1>1
  <2> QED
    BY <1>1, <2>1 DEF OrderInv, Ordered
<1>8. NoiseHasItsCause /\ (kind = "serial" => SpeedInv)
  <2>1. ~garbled /\ (kind = "serial" => speed # "none")
    BY SpeedAssumption DEF Init, SerialInit
  <2> QED
    BY <1>1, <2>1 DEF NoiseHasItsCause, SpeedInv, OwnSpeed
<1> QED
  BY <1>2, <1>3, <1>4, <1>5, <1>6, <1>7, <1>8 DEF SerialInv

\* A step of the interface, of whichever kind, keeps all of it.
LEMMA FramesStep ==
    ASSUME FramesInv, [Next]_vars, InterfacesInv'
    PROVE  FramesInv'
<1>0. StateTypes /\ ThreadsInv /\ TasksInv /\ LineTypes /\ TcpIdle
  BY DEF FramesInv, InterfacesInv
<1>1. CASE TcpNext /\ UNCHANGED serial
  <2>1. kind # "serial"
    BY <1>0, <1>1, IdleStays
  <2>2. TcpInv'
    BY <1>0, <1>1, <2>1, TcpStep DEF FramesInv
  <2>3. LineTypes'
    BY <1>0, <1>1 DEF LineTypes, serial
  <2>4. kind' # "serial"
    BY <2>2 DEF TcpInv
  <2>5. NoiseHasItsCause'
    BY <1>1 DEF FramesInv, NoiseHasItsCause, serial
  <2> QED
    BY <2>2, <2>3, <2>4, <2>5 DEF FramesInv, TcpIdle
<1>2. CASE SerialNext /\ UNCHANGED tcp
  <2>1. kind = "serial" /\ kind' = "serial"
    BY <1>0, <1>2, SerialOnly
  <2>2. LineTypes' /\ TcpIdle'
    BY <1>0, <1>2, <2>1, LineTypesStep, IdleStays
  <2>3. SerialInv'
    BY <1>0, <1>2, <2>1, SerialStep DEF FramesInv
  <2>4. SpeedInv /\ PortInv /\ errors \in Nat
    BY <1>0, <2>1 DEF FramesInv, SerialInv, LineTypes
  <2>5. SpeedInv' /\ NoiseHasItsCause'
    BY <1>0, <1>2, <2>4, SpeedStep DEF SpeedInv
  <2> QED
    BY <2>1, <2>2, <2>3, <2>5 DEF FramesInv
<1>3. CASE UNCHANGED vars
  <2>1. UNCHANGED object /\ UNCHANGED tcp /\ UNCHANGED serial
    BY <1>3 DEF vars
  <2>2. LineTypes'
    BY <1>0, <2>1 DEF LineTypes, serial
  <2>3. TcpIdle'
    BY <1>0, <2>1 DEF TcpIdle, object, tcp
  <2>6. NoiseHasItsCause'
    BY <2>1 DEF FramesInv, NoiseHasItsCause, serial
  <2>4. CASE kind = "serial"
    <3>4. SpeedInv'
      BY <2>1, <2>4, <2>6 DEF FramesInv, SpeedInv, OwnSpeed, object, serial
    <3>1. UNCHANGED <<kind, rx, received, guard, thread, port, line, nwritten, errors, garbled,
                     decoder, frame>>
      BY <2>1 DEF object, serial
    <3>2. ChannelTypes' /\ PortInv'
      BY <2>4, <3>1 DEF FramesInv, SerialInv, ChannelTypes, PortInv
    <3>3. errors = 0 /\ ~garbled => LinesInv' /\ DecodersInv' /\ OrderInv'
      BY <2>4, <3>1 DEF FramesInv, SerialInv, LinesInv, DecodersInv, OrderInv, ReadOff
    <3> QED
      BY <2>2, <2>3, <2>4, <2>6, <3>1, <3>2, <3>3, <3>4 DEF FramesInv, SerialInv
  <2>5. CASE kind # "serial"
    <3>1. /\ UNCHANGED <<kind, online, session, rx, received, conn, wire, task, batch, writes, written>>
          /\ accept' = accept
      BY <2>1 DEF object, tcp
    <3>2. TcpInv
      BY <2>5 DEF FramesInv
    <3>3. TcpInv'
      BY <3>1, <3>2, QuietStep DEF TcpInv, TaskInv
    <3> QED
      BY <2>2, <2>3, <2>5, <2>6, <3>1, <3>3 DEF FramesInv
  <2> QED
    BY <2>4, <2>5
<1> QED
  BY <1>1, <1>2, <1>3 DEF Next

\* What the invariant says of the decoders, the channel and the frames that were returned.
LEMMA FramesAreInOrder ==
    ASSUME FramesInv
    PROVE  FramesInOrder
<1>0. StateTypes /\ LineTypes
  BY DEF FramesInv, InterfacesInv
<1>1. TypeOK
  <2>1. Len(rx) <= Capacity
    BY DEF FramesInv, TcpInv, QueueInv, SerialInv, ChannelTypes
  <2>2. accept \in {"none", "running", "joining", "ended"}
    BY DEF FramesInv, TcpInv, TcpIdle
  <2>3. ASSUME NEW s \in Sessions, NEW i \in DOMAIN decoder[s].buf
        PROVE  decoder[s].buf[i] \in Byte
    <3>1. decoder[s] \in DecoderType
      BY <1>0 DEF LineTypes
    <3>2. decoder[s].buf \in Seq(Byte)
      BY <3>1 DEF DecoderType
    <3> QED
      BY <3>2
  <2> QED
    BY <1>0, <2>1, <2>2, <2>3 DEF TypeOK, StateTypes, Handles
<1>2. TcpFramesInOrder
  BY DEF FramesInv, TcpInv, TcpFramesInOrder
<1>3. SerialFramesWhole
  <2> SUFFICES ASSUME kind = "serial", errors = 0, ~garbled
               PROVE  /\ \A i \in DOMAIN received : \E n \in 1..nwritten : received[i].frame = Payload(n)
                      /\ \A i, j \in DOMAIN received :
                            i < j => received[i].frame[1] < received[j].frame[1]
    BY DEF SerialFramesWhole
  <2>1. LinesInv /\ Ordered(received, rx, ReadOff)
    BY DEF FramesInv, SerialInv, OrderInv
  <2>2. ReadOff \in Nat /\ ReadOff <= nwritten /\ nwritten \in Nat
    BY <1>0, <2>1, ReadOffType, SerialBoundAssumption DEF LineTypes, Byte
  <2>3. Ordered(received, rx, nwritten)
    BY <2>1, <2>2, OrderedGrows
  <2> QED
    BY <2>3 DEF Ordered
<1>4. NoiseHasItsCause
  BY DEF FramesInv
<1> QED
  BY <1>1, <1>2, <1>3, <1>4 DEF FramesInOrder

\* For every capacity of the channel and any number of starts, connections, frames and read errors:
\* receive of a TCP interface returns what the peers wrote, once and per connection without a gap,
\* and receive of a serial interface on which no read failed, and which was never read at another
\* speed than that of its line, returns whole frames of the peer in their order, however the reads
\* fall into the frames and shutdowns and restarts between them; it is read at another speed only
\* when that of its line is not 115200, and after a read failed or a thread came too late.
THEOREM FramesStayInOrder == Spec => []FramesInOrder
<1>1. Init => FramesInv
  <2> SUFFICES ASSUME Init, InterfacesInv PROVE FramesInv
    BY InterfacesInitially
  <2>1. TcpIdle
    BY DEF Init, TcpInit, TcpIdle
  <2> QED
    BY <2>1, TcpInitially, SerialInitially DEF FramesInv
<1>2. FramesInv /\ [Next]_vars => FramesInv'
  BY InterfacesStep, FramesStep DEF FramesInv
<1>3. FramesInv => FramesInOrder
  BY FramesAreInOrder
<1> QED
  BY <1>1, <1>2, <1>3, PTL DEF Spec
=============================================================================
