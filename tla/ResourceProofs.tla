--------------------------- MODULE ResourceProofs ---------------------------
(***************************************************************************)
(* Proofs about Resource, for any number of senders, resources and         *)
(* segments, and any packets that the medium refuses.                      *)
(***************************************************************************)
EXTENDS Resource, TLAPS, SequenceTheorems, FiniteSetTheorems

USE ResourceAssumption

-----------------------------------------------------------------------------
(* The inductive invariants *)

\* Every message under way is of a resource that was sent.
MessageOf(S) == {m \in Message : m.hash \in S}

MessagesSent ==
    /\ channel \in [Senders -> Seq(MessageOf(sent))]
    /\ messages \in Seq(MessageOf(sent))

\* What a transfer under way has: some of the segments of the resource, and no others.
Transfer(r, D) ==
    {[state |-> st, total |-> Total(r), received |-> [i \in D |-> <<r, i>>]] :
        st \in {"Pending", "Transferring"}}

Missing(r, D) == {i \in Index : i < Total(r)} \ D

\* An entry of incoming_resources belongs to a resource that was sent, and the transfer is
\* not complete unless the resource is empty.
EntriesSound ==
    /\ incoming_resources = [r \in Resources |-> incoming_resources[r]]
    /\ \A r \in Resources : incoming_resources[r] # None =>
          /\ r \in sent
          /\ \E D \in SUBSET {i \in Index : i < Total(r)} :
                /\ incoming_resources[r] \in Transfer(r, D)
                /\ r \notin Empty => Missing(r, D) # {}

\* What is still to be processed of sender s when the messages collected are those of o.
Stream(o, s) == IF s = o THEN messages \o channel[s] ELSE channel[s]

\* The message that send_resource puts after m, if there is one.
HasNext(m) == IF m.kind = "advertisement" THEN m.hash \notin Empty ELSE m.index + 1 < SegmentCount
NextOf(m) == Segment(m.hash, IF m.kind = "advertisement" THEN 0 ELSE m.index + 1)

\* No message of a resource is missing between those of a stream, unless its sending failed.
Contiguous(q, failed) ==
    \A p \in 1..Len(q) :
        q[p].hash \notin failed /\ HasNext(q[p]) => p < Len(q) /\ q[p + 1] = NextOf(q[p])

\* m is the first message of its resource in q.
IsFront(q, m) ==
    \E p \in 1..Len(q) : q[p] = m /\ \A k \in 1..(p - 1) : q[k].hash # m.hash

\* The resources that TransfersComplete is about.
Tracked == sent \ (Empty \cup partial \cup cut)

\* Segment j is coming: the next message of r of some sender is segment j or an earlier one,
\* and none of the segments from there to j was received yet.  Such a message is never
\* refused, so nothing that follows it can be dropped with it.
Coming(o, r, j) ==
    \E s \in Senders, i \in 0..j :
        /\ IsFront(Stream(o, s), Segment(r, i))
        /\ \A k \in i..j : k \notin DOMAIN incoming_resources[r].received

\* A resource was published, is being received, or will be advertised.
Started(o, r) ==
    \/ \E d \in published : d[1] = r
    \/ incoming_resources[r] # None
    \/ \E s \in Senders : \E p \in 1..Len(Stream(o, s)) : Stream(o, s)[p] = Advertisement(r)

StreamsSound(o) ==
    /\ messages # <<>> => o \in Senders
    /\ \A s \in Senders : Contiguous(Stream(o, s), partial)
    /\ \A r \in Tracked :
          /\ Started(o, r)
          /\ incoming_resources[r] # None =>
                \A j \in Index \ DOMAIN incoming_resources[r].received : Coming(o, r, j)

\* The messages collected are those of one sender.
StreamInv == \E o \in Senders \cup {"none"} : StreamsSound(o)

-----------------------------------------------------------------------------
(* The messages of a resource *)

\* Indices and totals are natural numbers, and every resource but an empty one has segments.
LEMMA Sizes ==
    /\ SegmentCount \in Nat /\ SegmentCount >= 1
    /\ 0 \in Index /\ Index \subseteq Nat
    /\ \A i \in Nat : i \in Index <=> i < SegmentCount
    /\ \A r : Total(r) \in Nat /\ Total(r) <= SegmentCount
    /\ \A r : r \notin Empty => Total(r) = SegmentCount
BY DEF Index, Total

\* The built messages are messages.
LEMMA BuiltAreMessages ==
    ASSUME NEW r \in Resources
    PROVE  /\ Advertisement(r) \in Message
           /\ \A i \in Index : Segment(r, i) \in Message
BY Sizes DEF Advertisement, Segment, Message

\* What send_resource sends: the advertisement and the segments in order.
LEMMA MessagesOf ==
    ASSUME NEW r \in Resources
    PROVE  /\ Messages(r) \in Seq(Message)
           /\ Len(Messages(r)) = 1 + Total(r)
           /\ Messages(r)[1] = Advertisement(r)
           /\ \A p \in 2..(1 + Total(r)) : Messages(r)[p] = Segment(r, p - 2)
<1> DEFINE a == <<Advertisement(r)>>
           b == [i \in 1..Total(r) |-> Segment(r, i - 1)]
<1>1. Total(r) \in Nat /\ Total(r) <= SegmentCount
  BY Sizes
<1>2. a \in Seq(Message) /\ Len(a) = 1 /\ a[1] = Advertisement(r)
  BY BuiltAreMessages
<1>3. b \in Seq(Message) /\ Len(b) = Total(r)
  <2>1. \A i \in 1..Total(r) : i - 1 \in Index
    BY <1>1, Sizes
  <2>2. \A i \in 1..Total(r) : Segment(r, i - 1) \in Message
    BY <2>1, BuiltAreMessages
  <2> QED
    BY <1>1, <2>2, IsASeq
<1>4. \A i \in 1..Total(r) : b[i] = Segment(r, i - 1)
  OBVIOUS
<1> HIDE DEF a, b
<1>5. /\ a \o b \in Seq(Message) /\ Len(a \o b) = Len(a) + Len(b)
      /\ \A i \in 1..Len(a) + Len(b) : (a \o b)[i] = IF i <= Len(a) THEN a[i] ELSE b[i - Len(a)]
  BY <1>2, <1>3, ConcatProperties
<1>6. \A p \in 2..(1 + Total(r)) : (a \o b)[p] = Segment(r, p - 2)
  <2> SUFFICES ASSUME NEW p \in 2..(1 + Total(r)) PROVE (a \o b)[p] = Segment(r, p - 2)
    OBVIOUS
  <2>1. (a \o b)[p] = b[p - 1] /\ p - 1 \in 1..Total(r)
    BY <1>1, <1>2, <1>3, <1>5
  <2>2. b[p - 1] = Segment(r, (p - 1) - 1) /\ (p - 1) - 1 = p - 2
    BY <1>4, <2>1
  <2> QED
    BY <2>1, <2>2
<1>7. (a \o b)[1] = Advertisement(r)
  BY <1>1, <1>2, <1>3, <1>5
<1>8. Messages(r) = a \o b
  BY DEF Messages, a, b
<1> QED
  BY <1>1, <1>2, <1>3, <1>5, <1>6, <1>7, <1>8

\* How many messages go out is at most how many there are.
LEMMA OutgoingBounds ==
    ASSUME NEW r \in Resources, NEW k \in Outgoing(r, Len(Messages(r)))
    PROVE  k \in 0..Len(Messages(r))
<1>1. Len(Messages(r)) \in Nat /\ Len(Messages(r)) >= 1
  BY MessagesOf, Sizes
<1> QED
  BY <1>1, SMTT(30) DEF Outgoing

-----------------------------------------------------------------------------
(* Type correctness and whole resources *)

\* A transfer that has no segment yet.
LEMMA FreshTransfer ==
    ASSUME NEW r \in Resources
    PROVE  /\ new_for_receiving(r) \in Transfer(r, {})
           /\ new_for_receiving(r) # None
<1>1. <<>> = [i \in {} |-> <<r, i>>]
  OBVIOUS
<1> QED
  BY <1>1 DEF new_for_receiving, Transfer, None

\* What an entry under way has.
LEMMA TransferFields ==
    ASSUME NEW r \in Resources, NEW D \in SUBSET Index, NEW e \in Transfer(r, D)
    PROVE  /\ e.state \in {"Pending", "Transferring"} /\ e.total = Total(r)
           /\ DOMAIN e.received = D /\ \A i \in D : e.received[i] = <<r, i>>
           /\ e # None
BY DEF Transfer, None

\* A transfer keeps its segments when its state changes, and gains the one that is accepted.
LEMMA TransferGrows ==
    ASSUME NEW r \in Resources, NEW D \in SUBSET Index, NEW e \in Transfer(r, D), NEW x \in Index
    PROVE  /\ [e EXCEPT !.state = "Transferring"] \in Transfer(r, D)
           /\ [i \in DOMAIN e.received \cup {x} |-> IF i = x THEN <<r, x>> ELSE e.received[i]]
                = [i \in D \cup {x} |-> <<r, i>>]
           /\ [e EXCEPT !.state = "Transferring", !.received = [i \in D \cup {x} |-> <<r, i>>]]
                \in Transfer(r, D \cup {x})
<1>1. PICK st \in {"Pending", "Transferring"} :
          e = [state |-> st, total |-> Total(r), received |-> [i \in D |-> <<r, i>>]]
  BY DEF Transfer
<1>2. [e EXCEPT !.state = "Transferring"] =
        [state |-> "Transferring", total |-> Total(r), received |-> [i \in D |-> <<r, i>>]]
  BY <1>1
<1>3. [e EXCEPT !.state = "Transferring", !.received = [i \in D \cup {x} |-> <<r, i>>]] =
        [state |-> "Transferring", total |-> Total(r), received |-> [i \in D \cup {x} |-> <<r, i>>]]
  <2> DEFINE f == [i \in D |-> <<r, i>>]
             g == [i \in D \cup {x} |-> <<r, i>>]
  <2>1. e = [state |-> st, total |-> Total(r), received |-> f]
    BY <1>1
  <2> HIDE DEF f, g
  <2> DEFINE Rec == [state : {"Pending", "Transferring"}, total : {Total(r)}, received : {f, g}]
  <2>2. PICK d \in Rec : d = [e EXCEPT !.state = "Transferring"]
    BY <2>1
  <2>3. d.state = "Transferring" /\ d.total = Total(r)
    BY <2>1, <2>2
  <2>4. [d EXCEPT !.received = g] = [state |-> "Transferring", total |-> Total(r), received |-> g]
    BY <2>3
  <2>5. [e EXCEPT !.state = "Transferring", !.received = g]
          = [[e EXCEPT !.state = "Transferring"] EXCEPT !.received = g]
    OBVIOUS
  <2> QED
    BY <2>2, <2>4, <2>5 DEF g
<1>4. [i \in DOMAIN e.received \cup {x} |-> IF i = x THEN <<r, x>> ELSE e.received[i]]
                = [i \in D \cup {x} |-> <<r, i>>]
  BY <1>1
<1> QED
  BY <1>2, <1>3, <1>4 DEF Transfer

\* As many segments as the total are all of them, and they assemble to the resource.
LEMMA CompleteIsWhole ==
    ASSUME NEW r \in Resources, NEW D \in SUBSET {i \in Index : i < Total(r)},
           Cardinality(D) = Total(r)
    PROVE  /\ D = {i \in Index : i < Total(r)}
           /\ assemble(Total(r), [i \in D |-> <<r, i>>]) = Whole(r)
<1>1. Total(r) \in Nat /\ Total(r) <= SegmentCount /\ SegmentCount \in Nat
  BY Sizes
<1>2. {i \in Index : i < Total(r)} = 0..(Total(r) - 1)
  BY <1>1, Sizes DEF Index
<1>3. IsFiniteSet(0..(Total(r) - 1)) /\ Cardinality(0..(Total(r) - 1)) = Total(r)
  <2>1. 0 \in Int /\ Total(r) - 1 \in Int
    BY <1>1
  <2>2. /\ IsFiniteSet(0..(Total(r) - 1))
        /\ Cardinality(0..(Total(r) - 1)) =
              IF 0 > Total(r) - 1 THEN 0 ELSE (Total(r) - 1) - 0 + 1
    BY <2>1, FS_Interval
  <2> QED
    BY <1>1, <2>2
<1>4. D = 0..(Total(r) - 1)
  BY <1>2, <1>3, FS_Subset
<1>5. \A i \in 1..Total(r) : i - 1 \in D /\ [k \in D |-> <<r, k>>][i - 1] = <<r, i - 1>>
  BY <1>1, <1>4
<1>6. assemble(Total(r), [i \in D |-> <<r, i>>]) = Whole(r)
  BY <1>5 DEF assemble, Whole
<1> QED
  BY <1>2, <1>4, <1>6

\* Everything that was published is whole.
WholePublished == \A d \in published : d[2] = Whole(d[1])

ReceiverInv ==
    /\ TypeOK
    /\ MessagesSent
    /\ EntriesSound
    /\ WholePublished

\* The entries have their types.
LEMMA EntryTypes ==
    ASSUME NEW r \in Resources, NEW e,
           e # None => \E D \in SUBSET {i \in Index : i < Total(r)} : e \in Transfer(r, D)
    PROVE  /\ e.state \in {"None", "Pending", "Transferring"}
           /\ e.total \in 0..SegmentCount
           /\ DOMAIN e.received \subseteq Index
<1>1. CASE e = None
  <2>1. None.state = "None" /\ None.total = 0 /\ DOMAIN None.received = {}
    BY DEF None
  <2> QED
    BY <1>1, <2>1, Sizes
<1>2. CASE e # None
  <2>1. PICK D \in SUBSET {i \in Index : i < Total(r)} : e \in Transfer(r, D)
    BY <1>2
  <2>2. D \in SUBSET Index
    BY <2>1
  <2>3. e.state \in {"Pending", "Transferring"} /\ e.total = Total(r) /\ DOMAIN e.received = D
    BY <2>1, <2>2, TransferFields
  <2> QED
    BY <2>1, <2>3, Sizes
<1> QED
  BY <1>1, <1>2

\* A message in flight and the rest after it.
LEMMA HeadOfMessages ==
    ASSUME MessagesSent, messages # <<>>
    PROVE  /\ Head(messages) \in Message /\ Head(messages).hash \in sent
           /\ Head(messages).hash \in Resources /\ Head(messages).index \in Index
           /\ Tail(messages) \in Seq(MessageOf(sent))
<1>1. Head(messages) \in MessageOf(sent) /\ Tail(messages) \in Seq(MessageOf(sent))
  BY HeadTailProperties DEF MessagesSent
<1> QED
  BY <1>1 DEF MessageOf, Message

\* Sending keeps the invariant.
LEMMA ReceiverSend ==
    ASSUME ReceiverInv, NEW s \in Senders, NEW r \in Resources, send_resource(s, r)
    PROVE  ReceiverInv'
<1>1. PICK k \in Outgoing(r, Len(Messages(r))) :
        /\ sends[s] < MaxSends
        /\ sends' = [sends EXCEPT ![s] = @ + 1]
        /\ channel' = IF burned[s] THEN channel
                      ELSE [channel EXCEPT ![s] = @ \o SubSeq(Messages(r), 1, k)]
        /\ burned' = [burned EXCEPT ![s] = @ \/ Burns(r, k)]
        /\ sent' = sent \cup {r}
        /\ partial' = IF burned[s] \/ k < Len(Messages(r)) THEN partial \cup {r} ELSE partial
        /\ UNCHANGED <<messages, incoming_resources, stored, published, cut>>
  BY DEF send_resource
<1>2. k \in 0..Len(Messages(r))
  BY OutgoingBounds
<1>3. MessageOf(sent) \subseteq MessageOf(sent')
  BY <1>1 DEF MessageOf
<1>4. \A q \in Seq(MessageOf(sent)) : q \in Seq(MessageOf(sent'))
  BY <1>3, SeqMonotonic
<1>5. SubSeq(Messages(r), 1, k) \in Seq(MessageOf(sent'))
  <2>1. Messages(r) \in Seq(MessageOf(sent'))
    <3>1. \A p \in 1..Len(Messages(r)) : Messages(r)[p] \in MessageOf(sent')
      <4>1. \A p \in 1..Len(Messages(r)) : Messages(r)[p] \in Message
        BY MessagesOf, ElementOfSeq
      <4>2. \A p \in 1..Len(Messages(r)) : Messages(r)[p].hash = r
        <5>1. Advertisement(r).hash = r /\ \A i \in Nat : Segment(r, i).hash = r
          BY DEF Advertisement, Segment
        <5>2. Total(r) \in Nat
          BY Sizes
        <5>3. \A p \in 1..Len(Messages(r)) : p = 1 \/ (p \in 2..(1 + Total(r)) /\ p - 2 \in Nat)
          BY <5>2, MessagesOf
        <5> QED
          BY <5>1, <5>3, MessagesOf
      <4> QED
        BY <1>1, <4>1, <4>2 DEF MessageOf
    <3>2. Messages(r) \in Seq(Message) /\ Len(Messages(r)) \in Nat
      BY MessagesOf, LenProperties
    <3>3. Messages(r) = [p \in 1..Len(Messages(r)) |-> Messages(r)[p]]
      BY <3>2
    <3> QED
      BY <3>1, <3>2, <3>3, IsASeq
  <2> QED
    BY <1>2, <2>1, SubSeqProperties
<1>6. MessagesSent'
  <2>1. messages' \in Seq(MessageOf(sent'))
    BY <1>1, <1>4 DEF ReceiverInv, MessagesSent
  <2>2. channel[s] \o SubSeq(Messages(r), 1, k) \in Seq(MessageOf(sent'))
    BY <1>4, <1>5, ConcatProperties DEF ReceiverInv, MessagesSent
  <2>3. channel \in [Senders -> Seq(MessageOf(sent'))]
    BY <1>4 DEF ReceiverInv, MessagesSent
  <2>4. channel' \in [Senders -> Seq(MessageOf(sent'))]
    BY <1>1, <2>2, <2>3
  <2> QED
    BY <2>1, <2>4 DEF MessagesSent
<1>7. EntriesSound'
  <2>1. incoming_resources' = incoming_resources /\ sent \subseteq sent'
    BY <1>1
  <2> QED
    BY <2>1 DEF ReceiverInv, EntriesSound
<1>8. TypeOK'
  <2>1. MessageOf(sent') \subseteq Message
    BY DEF MessageOf
  <2>2. channel' \in [Senders -> Seq(Message)] /\ messages' \in Seq(Message)
    BY <1>6, <2>1, SeqMonotonic DEF MessagesSent
  <2>3. burned' \in [Senders -> BOOLEAN]
    BY <1>1 DEF ReceiverInv, TypeOK
  <2>4. sends' \in [Senders -> 0..MaxSends]
    BY <1>1, SMTT(30) DEF ReceiverInv, TypeOK
  <2>5. sent' \subseteq Resources /\ partial' \subseteq Resources /\ cut' \subseteq Resources
    BY <1>1 DEF ReceiverInv, TypeOK
  <2>6. incoming_resources' = incoming_resources
    BY <1>1
  <2> QED
    BY <2>2, <2>3, <2>4, <2>5, <2>6 DEF ReceiverInv, TypeOK
<1> QED
  BY <1>1, <1>6, <1>7, <1>8 DEF ReceiverInv, WholePublished

\* Collecting keeps the invariant.
LEMMA ReceiverCollect ==
    ASSUME ReceiverInv, NEW s \in Senders, collect(s)
    PROVE  ReceiverInv'
<1>1. PICK k \in 1..Len(channel[s]) :
          /\ messages' = SubSeq(channel[s], 1, k)
          /\ channel' = [channel EXCEPT ![s] = SubSeq(@, k + 1, Len(@))]
  BY DEF collect
<1>2. UNCHANGED <<burned, sends, incoming_resources, stored, sent, published, partial, cut>>
  BY DEF collect, history
<1>3. channel[s] \in Seq(MessageOf(sent)) /\ Len(channel[s]) \in Nat
  BY LenProperties DEF ReceiverInv, MessagesSent
<1>4. /\ SubSeq(channel[s], 1, k) \in Seq(MessageOf(sent))
      /\ SubSeq(channel[s], k + 1, Len(channel[s])) \in Seq(MessageOf(sent))
  BY <1>3, SubSeqProperties
<1>5. MessagesSent'
  BY <1>1, <1>2, <1>4 DEF ReceiverInv, MessagesSent
<1>6. MessageOf(sent) \subseteq Message
  BY DEF MessageOf
<1>7. channel' \in [Senders -> Seq(Message)] /\ messages' \in Seq(Message)
  BY <1>2, <1>5, <1>6, SeqMonotonic DEF MessagesSent
<1>8. TypeOK'
  BY <1>2, <1>7 DEF ReceiverInv, TypeOK
<1> QED
  BY <1>2, <1>5, <1>8 DEF ReceiverInv, EntriesSound, WholePublished

\* Replacing one entry keeps the entries sound if the new one is.
LEMMA EntriesReplaced ==
    ASSUME EntriesSound, UNCHANGED sent, NEW r \in Resources, NEW e,
           incoming_resources' = [incoming_resources EXCEPT ![r] = e],
           e # None =>
              /\ r \in sent
              /\ \E D \in SUBSET {i \in Index : i < Total(r)} :
                    e \in Transfer(r, D) /\ (r \notin Empty => Missing(r, D) # {})
    PROVE  EntriesSound'
<1>1. \A x \in Resources : incoming_resources'[x] = IF x = r THEN e ELSE incoming_resources[x]
  BY DEF EntriesSound
<1>2. incoming_resources' = [x \in Resources |-> incoming_resources'[x]]
  BY DEF EntriesSound
<1> QED
  BY <1>1, <1>2 DEF EntriesSound

\* The transfer that a segment belongs to, and what it has.
LEMMA EntryOfSegment ==
    ASSUME ReceiverInv, messages # <<>>, incoming_resources[Head(messages).hash] # None
    PROVE  \E D \in SUBSET {i \in Index : i < Total(Head(messages).hash)} :
              /\ incoming_resources[Head(messages).hash] \in Transfer(Head(messages).hash, D)
              /\ Head(messages).hash \notin Empty => Missing(Head(messages).hash, D) # {}
              /\ D \in SUBSET Index
              /\ DOMAIN incoming_resources[Head(messages).hash].received = D
              /\ incoming_resources[Head(messages).hash].total = Total(Head(messages).hash)
<1> DEFINE r == Head(messages).hash
<1>1. r \in Resources
  BY HeadOfMessages DEF ReceiverInv
<1>2. PICK D \in SUBSET {i \in Index : i < Total(r)} :
          incoming_resources[r] \in Transfer(r, D) /\ (r \notin Empty => Missing(r, D) # {})
  BY <1>1 DEF ReceiverInv, EntriesSound
<1>3. D \in SUBSET Index
  BY <1>2
<1>4. DOMAIN incoming_resources[r].received = D /\ incoming_resources[r].total = Total(r)
  BY <1>1, <1>2, <1>3, TransferFields
<1> QED
  BY <1>2, <1>3, <1>4

\* An accepted segment joins the segments of its transfer.  When it is the last one missing,
\* what is published is the whole resource and the transfer is over.
LEMMA AcceptedJoins ==
    ASSUME ReceiverInv, messages # <<>>, AcceptedSegment(Head(messages))
    PROVE  LET m == Head(messages)
               r == m.hash
               e == incoming_resources[r]
           IN  /\ e # None /\ m.index \in {i \in Index : i < Total(r)} \ DOMAIN e.received
               /\ \/ /\ incoming_resources' = [incoming_resources EXCEPT ![r] = None]
                     /\ published' = published \cup {<<r, Whole(r)>>}
                  \/ \E D \in SUBSET {i \in Index : i < Total(r)} : \E f \in Transfer(r, D) :
                        /\ D = DOMAIN e.received \cup {m.index}
                        /\ Missing(r, D) # {}
                        /\ incoming_resources' = [incoming_resources EXCEPT ![r] = f]
                        /\ published' = published
<1> DEFINE m == Head(messages)
           r == m.hash
           e == incoming_resources[r]
           All == {i \in Index : i < Total(r)}
<1>1. m \in Message /\ r \in Resources /\ m.index \in Index
  BY HeadOfMessages DEF ReceiverInv
<1>2. m.kind = "segment" /\ e # None /\ ~IsError(e, m)
  BY DEF AcceptedSegment
<1>3. PICK D \in SUBSET All :
          /\ e \in Transfer(r, D) /\ D \in SUBSET Index
          /\ DOMAIN e.received = D /\ e.total = Total(r)
  BY <1>2, EntryOfSegment
<1>4. m.index \in All \ D
  <2>1. ~(m.index >= Total(r)) /\ m.index \notin D
    BY <1>2, <1>3 DEF IsError
  <2>2. m.index \in Nat /\ Total(r) \in Nat
    BY <1>1, Sizes
  <2> QED
    BY <1>1, <2>1, <2>2
<1> DEFINE C == D \cup {m.index}
           received == [i \in DOMAIN e.received \cup {m.index} |->
                          IF i = m.index THEN <<m.hash, m.index>> ELSE e.received[i]]
<1>5. C \in SUBSET All
  BY <1>3, <1>4
<1>6. received = [i \in C |-> <<r, i>>]
  <2>1. \A i \in D : e.received[i] = <<r, i>>
    BY <1>1, <1>3, TransferFields
  <2> HIDE DEF m, e
  <2> QED
    BY <1>3, <2>1
<1>7. CASE IsComplete(e, received)
  <2>1. Cardinality(C) = Total(r)
    BY <1>3, <1>6, <1>7 DEF IsComplete
  <2>2. assemble(e.total, received) = Whole(r)
    BY <1>1, <1>3, <1>5, <1>6, <2>1, CompleteIsWhole
  <2>3. /\ incoming_resources' = [incoming_resources EXCEPT ![r] = None]
        /\ stored' = assemble(e.total, received)
        /\ published' = published \cup {<<r, stored'>>}
    BY <1>7 DEF AcceptedSegment, AfterCompletion
  <2> QED
    BY <1>2, <1>3, <1>4, <2>2, <2>3
<1>8. CASE ~IsComplete(e, received)
  <2> DEFINE f == [e EXCEPT !.state = "Transferring", !.received = received]
  <2>1. incoming_resources' = [incoming_resources EXCEPT ![r] = f] /\ published' = published
    BY <1>8 DEF AcceptedSegment
  <2>2. f \in Transfer(r, C)
    BY <1>1, <1>3, <1>6, TransferGrows
  <2>3. Missing(r, C) # {}
    <3> SUFFICES ASSUME Missing(r, C) = {} PROVE FALSE
      OBVIOUS
    <3>1. C = All
      BY <1>5 DEF Missing
    <3>2. All = 0..(Total(r) - 1) /\ Total(r) \in Nat
      BY Sizes DEF Index
    <3>3. 0 \in Int /\ Total(r) - 1 \in Int
      BY <3>2
    <3>4. Cardinality(0..(Total(r) - 1)) = IF 0 > Total(r) - 1 THEN 0 ELSE (Total(r) - 1) - 0 + 1
      BY <3>3, FS_Interval
    <3>5. Cardinality(C) = Total(r)
      <4>1. C = 0..(Total(r) - 1)
        BY <3>1, <3>2
      <4> HIDE DEF C, r
      <4> QED
        BY <3>2, <3>4, <4>1
    <3>6. DOMAIN received = C
      BY <1>6
    <3> QED
      BY <1>3, <1>8, <3>5, <3>6 DEF IsComplete
  <2> HIDE DEF f
  <2> QED
    BY <1>2, <1>3, <1>4, <1>5, <2>1, <2>2, <2>3
<1> QED
  BY <1>7, <1>8

\* Processing a message keeps the entries sound and publishes whole resources only.
LEMMA ReceiverHandles ==
    ASSUME ReceiverInv, handle_link_data
    PROVE  ReceiverInv'
<1> DEFINE m == Head(messages)
           r == m.hash
<1>1. messages # <<>> /\ UNCHANGED <<channel, burned, sends, sent, partial>>
  BY DEF handle_link_data
<1>2. /\ m \in Message /\ r \in sent /\ r \in Resources /\ m.index \in Index
      /\ Tail(messages) \in Seq(MessageOf(sent))
  BY <1>1, HeadOfMessages DEF ReceiverInv
<1>3. \/ handle_advertisement(m) \/ UnknownResource(m)
      \/ RefusedSegment(m) \/ AcceptedSegment(m)
  BY DEF handle_link_data
<1>4. MessagesSent'
  <2>1. messages' = Tail(messages) \/ messages' = <<>>
    BY <1>3 DEF handle_advertisement, UnknownResource, RefusedSegment, AcceptedSegment
  <2>2. messages' \in Seq(MessageOf(sent))
    BY <1>2, <2>1, EmptySeq
  <2> QED
    BY <1>1, <2>2 DEF ReceiverInv, MessagesSent
<1>5. cut' \subseteq Resources
  <2>1. CASE RefusedSegment(m)
    <3>1. cut' = cut \cup ({d.hash : d \in ToSet(messages)} \ {m.hash})
      BY <2>1 DEF RefusedSegment
    <3>2. \A d \in ToSet(messages) : d.hash \in Resources
      <4>1. messages \in Seq(Message)
        BY DEF ReceiverInv, TypeOK
      <4>2. \A p \in DOMAIN messages : messages[p] \in Message
        BY <4>1
      <4> QED
        BY <4>2 DEF ToSet, Message
    <3> QED
      BY <3>1, <3>2 DEF ReceiverInv, TypeOK
  <2>2. CASE ~RefusedSegment(m)
    <3>1. cut' = cut
      BY <1>3, <2>2 DEF handle_advertisement, UnknownResource, AcceptedSegment
    <3> QED
      BY <3>1 DEF ReceiverInv, TypeOK
  <2> QED
    BY <2>1, <2>2
<1>6. EntriesSound' /\ WholePublished'
  <2>1. CASE handle_advertisement(m)
    <3>1. /\ incoming_resources' = [incoming_resources EXCEPT ![r] = new_for_receiving(r)]
          /\ published' = published
      BY <2>1 DEF handle_advertisement
    <3>2. new_for_receiving(r) \in Transfer(r, {}) /\ {} \in SUBSET {i \in Index : i < Total(r)}
      BY <1>2, FreshTransfer
    <3>3. r \notin Empty => Missing(r, {}) # {}
      <4>1. r \notin Empty => 0 \in Missing(r, {})
        BY Sizes DEF Missing
      <4> QED
        BY <4>1
    <3>4. EntriesSound'
      BY <1>1, <1>2, <3>1, <3>2, <3>3, EntriesReplaced DEF ReceiverInv
    <3> QED
      BY <3>1, <3>4 DEF ReceiverInv, WholePublished
  <2>2. CASE UnknownResource(m)
    BY <1>1, <2>2 DEF UnknownResource, ReceiverInv, EntriesSound, WholePublished
  <2>3. CASE RefusedSegment(m)
    <3> DEFINE e == incoming_resources[r]
               f == [e EXCEPT !.state = "Transferring"]
    <3>1. PICK D \in SUBSET {i \in Index : i < Total(r)} :
              /\ e \in Transfer(r, D) /\ D \in SUBSET Index
              /\ r \notin Empty => Missing(r, D) # {}
      BY <1>1, <2>3, EntryOfSegment DEF RefusedSegment
    <3>2. f \in Transfer(r, D)
      BY <1>2, <3>1, TransferGrows
    <3>3. incoming_resources' = [incoming_resources EXCEPT ![r] = f] /\ published' = published
      BY <2>3 DEF RefusedSegment
    <3> HIDE DEF f
    <3>4. EntriesSound'
      BY <1>1, <1>2, <3>1, <3>2, <3>3, EntriesReplaced DEF ReceiverInv
    <3> QED
      BY <3>3, <3>4 DEF ReceiverInv, WholePublished
  <2>4. CASE AcceptedSegment(m)
    <3>1. CASE /\ incoming_resources' = [incoming_resources EXCEPT ![r] = None]
               /\ published' = published \cup {<<r, Whole(r)>>}
      <4>1. EntriesSound'
        BY <1>1, <1>2, <3>1, EntriesReplaced DEF ReceiverInv
      <4>2. <<r, Whole(r)>>[1] = r /\ <<r, Whole(r)>>[2] = Whole(r)
        OBVIOUS
      <4> QED
        BY <3>1, <4>1, <4>2 DEF ReceiverInv, WholePublished
    <3>2. CASE \E D \in SUBSET {i \in Index : i < Total(r)} : \E f \in Transfer(r, D) :
                  /\ Missing(r, D) # {}
                  /\ incoming_resources' = [incoming_resources EXCEPT ![r] = f]
                  /\ published' = published
      <4>1. EntriesSound'
        BY <1>1, <1>2, <3>2, EntriesReplaced DEF ReceiverInv
      <4> QED
        BY <3>2, <4>1 DEF ReceiverInv, WholePublished
    <3> QED
      BY <1>1, <2>4, <3>1, <3>2, AcceptedJoins
  <2> QED
    BY <1>3, <2>1, <2>2, <2>3, <2>4
<1>7. MessageOf(sent) \subseteq Message
  BY DEF MessageOf
<1>8. channel' \in [Senders -> Seq(Message)] /\ messages' \in Seq(Message)
  BY <1>1, <1>4, <1>7, SeqMonotonic DEF MessagesSent
<1>9. \A x \in Resources :
          /\ incoming_resources'[x].state \in {"None", "Pending", "Transferring"}
          /\ incoming_resources'[x].total \in 0..SegmentCount
          /\ DOMAIN incoming_resources'[x].received \subseteq Index
  <2>1. \A x \in Resources : incoming_resources'[x] # None =>
            \E D \in SUBSET {i \in Index : i < Total(x)} : incoming_resources'[x] \in Transfer(x, D)
    BY <1>6 DEF EntriesSound
  <2> QED
    BY <2>1, EntryTypes
<1> QED
  BY <1>1, <1>4, <1>5, <1>6, <1>8, <1>9 DEF ReceiverInv, TypeOK

\* The invariant holds initially.
LEMMA ReceiverInitially == Init => ReceiverInv
<1> SUFFICES ASSUME Init PROVE ReceiverInv
  OBVIOUS
<1>1. <<>> \in Seq(Message) /\ <<>> \in Seq(MessageOf(sent))
  BY EmptySeq
<1>2. \A r \in Resources : incoming_resources[r] = None
  BY DEF Init
<1>3. None.state = "None" /\ None.total = 0 /\ DOMAIN None.received = {}
  BY DEF None
<1>4. TypeOK
  BY <1>1, <1>2, <1>3, Sizes DEF Init, TypeOK
<1>5. MessagesSent /\ EntriesSound /\ WholePublished
  BY <1>1, <1>2 DEF Init, MessagesSent, EntriesSound, WholePublished
<1> QED
  BY <1>4, <1>5 DEF ReceiverInv

\* Every step keeps the invariant.
LEMMA ReceiverNext == ReceiverInv /\ [Next]_vars => ReceiverInv'
<1>1. ReceiverInv /\ UNCHANGED vars => ReceiverInv'
  BY DEF vars, ReceiverInv, TypeOK, MessagesSent, EntriesSound, WholePublished
<1> QED
  BY <1>1, ReceiverSend, ReceiverCollect, ReceiverHandles DEF Next

\* What is published is whole, and every reachable state has its type.
THEOREM PublishedWhole == Spec => []PublishedIsWhole
<1>1. ReceiverInv => PublishedIsWhole
  BY DEF ReceiverInv, WholePublished, PublishedIsWhole
<1> QED
  BY <1>1, ReceiverInitially, ReceiverNext, PTL DEF Spec

-----------------------------------------------------------------------------
(* Facts about streams *)

\* q is what is left of w after its first k messages.
Drops(q, w, k) ==
    /\ Len(w) = Len(q) + k
    /\ \A p \in 1..Len(q) : q[p] = w[p + k]

\* Appending messages to a stream keeps it contiguous if they are.
LEMMA ContiguousConcat ==
    ASSUME NEW q \in Seq(Message), NEW w \in Seq(Message), NEW P, NEW Q, P \subseteq Q,
           Contiguous(q, P), Contiguous(w, Q)
    PROVE  Contiguous(q \o w, Q)
<1>1. /\ Len(q) \in Nat /\ Len(w) \in Nat /\ Len(q \o w) = Len(q) + Len(w)
      /\ \A i \in 1..Len(q) + Len(w) : (q \o w)[i] = IF i <= Len(q) THEN q[i] ELSE w[i - Len(q)]
  BY ConcatProperties, LenProperties
<1> SUFFICES ASSUME NEW p \in 1..Len(q) + Len(w), (q \o w)[p].hash \notin Q, HasNext((q \o w)[p])
             PROVE  p < Len(q) + Len(w) /\ (q \o w)[p + 1] = NextOf((q \o w)[p])
  BY <1>1 DEF Contiguous
<1>2. CASE p <= Len(q)
  <2>1. p \in 1..Len(q) /\ (q \o w)[p] = q[p]
    BY <1>1, <1>2
  <2>2. p < Len(q) /\ q[p + 1] = NextOf(q[p])
    BY <2>1 DEF Contiguous
  <2>3. (q \o w)[p + 1] = q[p + 1]
    BY <1>1, <2>1, <2>2
  <2> QED
    BY <1>1, <2>1, <2>2, <2>3
<1>3. CASE p > Len(q)
  <2>1. PICK i \in 1..Len(w) : i = p - Len(q)
    BY <1>1, <1>3, p \in Nat
  <2>2. (q \o w)[p] = w[i]
    BY <1>1, <1>3, <2>1
  <2>3. i < Len(w) /\ w[i + 1] = NextOf(w[i])
    BY <2>2 DEF Contiguous
  <2>4. (q \o w)[p + 1] = w[i + 1]
    <3>1. p + 1 \in 1..Len(q) + Len(w) /\ ~(p + 1 <= Len(q)) /\ (p + 1) - Len(q) = i + 1
      BY <1>1, <1>3, <2>1, <2>3
    <3> QED
      BY <1>1, <3>1
  <2> QED
    BY <1>1, <2>1, <2>2, <2>3, <2>4
<1> QED
  BY <1>1, <1>2, <1>3

\* What is left of a contiguous stream is contiguous.
LEMMA ContiguousDrop ==
    ASSUME NEW q \in Seq(Message), NEW w \in Seq(Message), NEW k \in Nat, NEW P,
           Drops(q, w, k), Contiguous(w, P)
    PROVE  Contiguous(q, P)
<1>1. Len(q) \in Nat /\ Len(w) \in Nat /\ Len(w) = Len(q) + k
  BY LenProperties DEF Drops
<1> SUFFICES ASSUME NEW p \in 1..Len(q), q[p].hash \notin P, HasNext(q[p])
             PROVE  p < Len(q) /\ q[p + 1] = NextOf(q[p])
  BY DEF Contiguous
<1>2. q[p] = w[p + k] /\ p + k \in 1..Len(w)
  BY <1>1 DEF Drops
<1>3. p + k < Len(w) /\ w[(p + k) + 1] = NextOf(w[p + k])
  BY <1>2 DEF Contiguous
<1>4. p + 1 \in 1..Len(q) /\ (p + 1) + k = (p + k) + 1
  BY <1>1, <1>3
<1>5. q[p + 1] = w[(p + 1) + k]
  BY <1>4 DEF Drops
<1> QED
  BY <1>1, <1>2, <1>3, <1>4, <1>5

\* Appending to a stream changes neither the first message of a resource nor what it has.
LEMMA FrontConcat ==
    ASSUME NEW q \in Seq(Message), NEW w \in Seq(Message), NEW m
    PROVE  /\ IsFront(q, m) => IsFront(q \o w, m)
           /\ \A p \in 1..Len(q) : p \in 1..Len(q \o w) /\ (q \o w)[p] = q[p]
           /\ \A p \in 1..Len(w) : \E x \in 1..Len(q \o w) : (q \o w)[x] = w[p]
<1>1. /\ Len(q) \in Nat /\ Len(w) \in Nat /\ Len(q \o w) = Len(q) + Len(w)
      /\ \A i \in 1..Len(q) + Len(w) : (q \o w)[i] = IF i <= Len(q) THEN q[i] ELSE w[i - Len(q)]
  BY ConcatProperties, LenProperties
<1>2. \A p \in 1..Len(q) : p \in 1..Len(q \o w) /\ (q \o w)[p] = q[p]
  BY <1>1
<1>3. ASSUME IsFront(q, m) PROVE IsFront(q \o w, m)
  <2>1. PICK p \in 1..Len(q) : q[p] = m /\ \A k \in 1..(p - 1) : q[k].hash # m.hash
    BY <1>3 DEF IsFront
  <2>2. \A k \in 1..(p - 1) : k \in 1..Len(q)
    BY <1>1
  <2> QED
    BY <1>2, <2>1, <2>2 DEF IsFront
<1>4. ASSUME NEW p \in 1..Len(w) PROVE \E x \in 1..Len(q \o w) : (q \o w)[x] = w[p]
  <2>1. /\ p + Len(q) \in 1..Len(q) + Len(w)
        /\ ~(p + Len(q) <= Len(q)) /\ (p + Len(q)) - Len(q) = p
    BY <1>1
  <2>2. (q \o w)[p + Len(q)] = w[p]
    BY <1>1, <2>1
  <2> QED
    BY <1>1, <2>1, <2>2
<1> QED
  BY <1>2, <1>3, <1>4

\* Dropping messages of other resources keeps the first message of a resource.
LEMMA FrontDrop ==
    ASSUME NEW q \in Seq(Message), NEW w \in Seq(Message), NEW k \in Nat, NEW m,
           Drops(q, w, k), IsFront(w, m), \A p \in 1..k : w[p].hash # m.hash
    PROVE  IsFront(q, m)
<1>1. Len(q) \in Nat /\ Len(w) \in Nat /\ Len(w) = Len(q) + k
  BY LenProperties DEF Drops
<1>2. PICK p \in 1..Len(w) : w[p] = m /\ \A x \in 1..(p - 1) : w[x].hash # m.hash
  BY DEF IsFront
<1>3. p > k
  BY <1>1, <1>2
<1>4. PICK i \in 1..Len(q) : i = p - k /\ i + k = p
  BY <1>1, <1>3, p \in Nat
<1>5. q[i] = m
  BY <1>2, <1>4 DEF Drops
<1>6. ASSUME NEW x \in 1..(i - 1) PROVE q[x].hash # m.hash
  <2>1. x \in 1..Len(q) /\ x + k \in 1..(p - 1)
    BY <1>1, <1>4
  <2>2. q[x] = w[x + k]
    BY <2>1 DEF Drops
  <2> QED
    BY <1>2, <2>1, <2>2
<1> QED
  BY <1>5, <1>6 DEF IsFront

\* The first message of a resource is the head of the stream if the head is of the resource.
LEMMA FrontIsHead ==
    ASSUME NEW w \in Seq(Message), NEW m, Len(w) >= 1, w[1].hash = m.hash, IsFront(w, m)
    PROVE  m = w[1]
<1>1. Len(w) \in Nat
  BY LenProperties
<1>2. PICK p \in 1..Len(w) : w[p] = m /\ \A x \in 1..(p - 1) : w[x].hash # m.hash
  BY DEF IsFront
<1>3. p = 1 \/ 1 \in 1..(p - 1)
  BY <1>1
<1> QED
  BY <1>2, <1>3

\* All messages of a resource are a contiguous stream.
LEMMA MessagesContiguous ==
    ASSUME NEW r \in Resources, NEW P
    PROVE  Contiguous(Messages(r), P)
<1>1. Len(Messages(r)) = 1 + Total(r) /\ Total(r) \in Nat /\ Total(r) <= SegmentCount
  BY MessagesOf, Sizes
<1> SUFFICES ASSUME NEW p \in 1..(1 + Total(r)), HasNext(Messages(r)[p])
             PROVE  p < 1 + Total(r) /\ Messages(r)[p + 1] = NextOf(Messages(r)[p])
  BY <1>1 DEF Contiguous
<1>2. CASE p = 1
  <2>1. Messages(r)[p] = Advertisement(r)
    BY <1>2, MessagesOf
  <2>2. r \notin Empty /\ NextOf(Messages(r)[p]) = Segment(r, 0)
    BY <2>1 DEF HasNext, NextOf, Advertisement
  <2>3. Total(r) = SegmentCount /\ SegmentCount >= 1 /\ SegmentCount \in Nat
    BY <2>2, Sizes
  <2>4. p + 1 \in 2..(1 + Total(r)) /\ (p + 1) - 2 = 0
    BY <1>2, <2>3
  <2>5. Messages(r)[p + 1] = Segment(r, (p + 1) - 2)
    BY <2>4, MessagesOf
  <2> QED
    BY <1>2, <2>2, <2>3, <2>4, <2>5
<1>3. CASE p # 1
  <2>1. p \in 2..(1 + Total(r)) /\ p - 2 \in Nat
    BY <1>1, <1>3
  <2>2. Messages(r)[p] = Segment(r, p - 2)
    BY <2>1, MessagesOf
  <2>3. (p - 2) + 1 < SegmentCount /\ NextOf(Messages(r)[p]) = Segment(r, (p - 2) + 1)
    BY <2>2 DEF HasNext, NextOf, Segment
  <2>4. Total(r) = SegmentCount
    BY <1>1, <2>1, Sizes DEF Total
  <2>5. p + 1 \in 2..(1 + Total(r)) /\ (p + 1) - 2 = (p - 2) + 1
    BY <1>1, <2>1, <2>3, <2>4
  <2>6. Messages(r)[p + 1] = Segment(r, (p + 1) - 2)
    BY <2>5, MessagesOf
  <2> QED
    BY <1>1, <2>1, <2>3, <2>5, <2>6
<1> QED
  BY <1>2, <1>3

-----------------------------------------------------------------------------
(* Transfers complete *)

\* The streams are sequences of messages.
LEMMA StreamTypes ==
    ASSUME TypeOK, NEW o, NEW s \in Senders
    PROVE  Stream(o, s) \in Seq(Message)
BY ConcatProperties DEF TypeOK, Stream

\* Streams that only grow at their end keep everything started and coming.
LEMMA StreamsGrow ==
    ASSUME TypeOK, NEW o, NEW r,
           UNCHANGED <<incoming_resources, published>>,
           \A s \in Senders :
              \/ Stream(o, s)' = Stream(o, s)
              \/ \E w \in Seq(Message) : Stream(o, s)' = Stream(o, s) \o w
    PROVE  /\ Started(o, r) => Started(o, r)'
           /\ \A j : Coming(o, r, j) => Coming(o, r, j)'
<1>1. \A s \in Senders : Stream(o, s) \in Seq(Message)
  BY StreamTypes
<1>2. \A s \in Senders : \A m : IsFront(Stream(o, s), m) => IsFront(Stream(o, s)', m)
  BY <1>1, FrontConcat
<1>3. \A s \in Senders : \A p \in 1..Len(Stream(o, s)) :
          p \in 1..Len(Stream(o, s)') /\ Stream(o, s)'[p] = Stream(o, s)[p]
  BY <1>1, FrontConcat
<1>4. Started(o, r) => Started(o, r)'
  <2>1. CASE \E s \in Senders : \E p \in 1..Len(Stream(o, s)) : Stream(o, s)[p] = Advertisement(r)
    <3>1. PICK s \in Senders : \E p \in 1..Len(Stream(o, s)) : Stream(o, s)[p] = Advertisement(r)
      BY <2>1
    <3>2. \E p \in 1..Len(Stream(o, s)') : Stream(o, s)'[p] = Advertisement(r)
      BY <1>3, <3>1
    <3> QED
      BY <3>2 DEF Started
  <2> QED
    BY <2>1 DEF Started
<1>5. ASSUME NEW j, Coming(o, r, j) PROVE Coming(o, r, j)'
  <2>1. PICK s \in Senders, i \in 0..j :
          /\ IsFront(Stream(o, s), Segment(r, i))
          /\ \A k \in i..j : k \notin DOMAIN incoming_resources[r].received
    BY <1>5 DEF Coming
  <2>2. IsFront(Stream(o, s)', Segment(r, i))
    BY <1>2, <2>1
  <2> QED
    BY <2>1, <2>2 DEF Coming
<1> QED
  BY <1>4, <1>5

\* Concatenation of streams is associative.
LEMMA ConcatRegroups ==
    \A a, b, c \in Seq(Message) : a \o (b \o c) = (a \o b) \o c
BY ConcatAssociative, SMTT(30)

\* Sending keeps the streams sound.
LEMMA StreamsSend ==
    ASSUME ReceiverInv, NEW o, StreamsSound(o),
           NEW s \in Senders, NEW r \in Resources, send_resource(s, r)
    PROVE  StreamsSound(o)'
<1>1. PICK k \in Outgoing(r, Len(Messages(r))) :
        /\ channel' = IF burned[s] THEN channel
                      ELSE [channel EXCEPT ![s] = @ \o SubSeq(Messages(r), 1, k)]
        /\ burned' = [burned EXCEPT ![s] = @ \/ Burns(r, k)]
        /\ sent' = sent \cup {r}
        /\ partial' = IF burned[s] \/ k < Len(Messages(r)) THEN partial \cup {r} ELSE partial
        /\ UNCHANGED <<messages, incoming_resources, published, cut>>
  BY DEF send_resource
<1>2. /\ TypeOK /\ EntriesSound
      /\ channel \in [Senders -> Seq(Message)] /\ messages \in Seq(Message)
      /\ burned \in [Senders -> BOOLEAN]
  BY DEF ReceiverInv, TypeOK
<1>3. k \in 0..Len(Messages(r)) /\ Messages(r) \in Seq(Message) /\ Len(Messages(r)) \in Nat
  BY OutgoingBounds, MessagesOf, LenProperties
<1> DEFINE fails == burned[s] \/ k < Len(Messages(r))
<1>4. fails \in BOOLEAN /\ partial' = IF fails THEN partial \cup {r} ELSE partial
  BY <1>1
<1> DEFINE w == SubSeq(Messages(r), 1, k)
<1>5. /\ w \in Seq(Message) /\ Len(w) = k
      /\ \A p \in 1..Len(w) : p \in 1..Len(Messages(r)) /\ w[p] = Messages(r)[p]
  <2>1. \A i \in 1..k : Messages(r)[i] \in Message
    BY <1>3, ElementOfSeq
  <2>2. /\ w \in Seq(Message) /\ Len(w) = IF 1 <= k THEN k - 1 + 1 ELSE 0
        /\ \A i \in 1..k - 1 + 1 : w[i] = Messages(r)[1 + i - 1]
    BY <1>3, <2>1, SubSeqProperties
  <2> QED
    BY <1>3, <2>2
<1>6. ~fails => ~burned[s] /\ w = Messages(r)
  <2>1. ~fails => ~burned[s] /\ ~(k < Len(Messages(r)))
    OBVIOUS
  <2>2. ~(k < Len(Messages(r))) => k = Len(Messages(r))
    BY <1>3
  <2>3. SubSeq(Messages(r), 1, Len(Messages(r))) = Messages(r)
    BY <1>3, SubSeqFull
  <2> QED
    BY <2>1, <2>2, <2>3
<1>7. Contiguous(w, partial')
  <2>1. CASE fails
    <3>1. r \in partial'
      BY <1>4, <2>1
    <3>2. \A p \in 1..Len(Messages(r)) : Messages(r)[p].hash = r
      <4>1. Advertisement(r).hash = r /\ \A i \in Nat : Segment(r, i).hash = r
        BY DEF Advertisement, Segment
      <4>2. Total(r) \in Nat
        BY Sizes
      <4>3. \A p \in 1..Len(Messages(r)) : p = 1 \/ (p \in 2..(1 + Total(r)) /\ p - 2 \in Nat)
        BY <4>2, MessagesOf
      <4> QED
        BY <4>1, <4>3, MessagesOf
    <3> QED
      BY <1>5, <3>1, <3>2 DEF Contiguous
  <2>2. CASE ~fails
    BY <1>6, <2>2, MessagesContiguous
  <2> QED
    BY <2>1, <2>2
<1> HIDE DEF w
<1>8. channel' = IF burned[s] THEN channel ELSE [channel EXCEPT ![s] = channel[s] \o w]
  BY <1>1 DEF w
<1>9. ASSUME NEW x \in Senders
      PROVE  \/ Stream(o, x)' = Stream(o, x) /\ (x # s \/ burned[s])
             \/ x = s /\ ~burned[s] /\ Stream(o, x)' = Stream(o, x) \o w
  <2>1. CASE x # s \/ burned[s]
    <3>1. channel'[x] = channel[x]
      BY <1>2, <1>8, <2>1
    <3>2. Stream(o, x)' = Stream(o, x)
      BY <1>1, <3>1 DEF Stream
    <3> QED
      BY <2>1, <3>2
  <2>2. CASE x = s /\ ~burned[s]
    <3>1. channel'[x] = channel[x] \o w
      BY <1>2, <1>8, <2>2
    <3>2. messages \o (channel[x] \o w) = (messages \o channel[x]) \o w
      <4>1. messages \in Seq(Message) /\ channel[x] \in Seq(Message) /\ w \in Seq(Message)
        BY <1>2, <1>5
      <4> QED
        BY <4>1, ConcatRegroups, ZenonT(30)
    <3>3. Stream(o, x)' = Stream(o, x) \o w
      BY <1>1, <3>1, <3>2 DEF Stream
    <3> QED
      BY <2>2, <3>3
  <2> QED
    BY <2>1, <2>2
<1>10. \A x \in Senders :
          \/ Stream(o, x)' = Stream(o, x)
          \/ \E v \in Seq(Message) : Stream(o, x)' = Stream(o, x) \o v
  BY <1>5, <1>9
<1>11. \A x \in Senders : Contiguous(Stream(o, x)', partial')
  <2> SUFFICES ASSUME NEW x \in Senders PROVE Contiguous(Stream(o, x)', partial')
    OBVIOUS
  <2>1. Stream(o, x) \in Seq(Message) /\ Contiguous(Stream(o, x), partial) /\ partial \subseteq partial'
    BY <1>1, <1>2, StreamTypes DEF StreamsSound
  <2>2. Contiguous(Stream(o, x), partial')
    BY <2>1 DEF Contiguous
  <2>3. CASE Stream(o, x)' = Stream(o, x)
    BY <2>2, <2>3
  <2>4. CASE Stream(o, x)' = Stream(o, x) \o w
    BY <1>5, <1>7, <2>1, <2>4, ContiguousConcat
  <2> QED
    BY <1>9, <2>3, <2>4
<1>12. ASSUME NEW x \in Tracked'
       PROVE  /\ Started(o, x)'
              /\ incoming_resources'[x] # None =>
                   \A j \in Index \ DOMAIN incoming_resources'[x].received : Coming(o, x, j)'
  <2>1. CASE x \in Tracked
    <3>1. /\ Started(o, x)
          /\ incoming_resources[x] # None =>
                \A j \in Index \ DOMAIN incoming_resources[x].received : Coming(o, x, j)
      BY <2>1 DEF StreamsSound
    <3> QED
      BY <1>1, <1>2, <1>10, <3>1, StreamsGrow
  <2>2. CASE x \notin Tracked
    <3>1. x = r /\ r \notin sent /\ r \notin partial'
      BY <1>1, <1>12, <2>2 DEF Tracked
    <3>2. incoming_resources'[x] = None
      BY <1>1, <1>2, <3>1 DEF EntriesSound
    <3>3. ~fails
      BY <1>4, <3>1
    <3>4. Stream(o, s)' = Stream(o, s) \o w /\ w = Messages(r)
      BY <1>6, <1>9, <3>3
    <3>5. w[1] = Advertisement(x) /\ 1 \in 1..Len(w)
      <4>1. Len(Messages(r)) = 1 + Total(r) /\ Total(r) \in Nat
        BY MessagesOf, Sizes
      <4> QED
        BY <3>1, <3>4, <4>1, MessagesOf
    <3>6. \E p \in 1..Len(Stream(o, s)') : Stream(o, s)'[p] = Advertisement(x)
      BY <1>2, <1>5, <3>4, <3>5, StreamTypes, FrontConcat
    <3> QED
      BY <3>2, <3>6 DEF Started
  <2> QED
    BY <2>1, <2>2
<1> QED
  BY <1>1, <1>11, <1>12 DEF StreamsSound

\* Collecting moves the beginning of a stream into messages and changes no stream.
LEMMA StreamsCollect ==
    ASSUME ReceiverInv, NEW o, StreamsSound(o), NEW s \in Senders, collect(s)
    PROVE  StreamsSound(s)'
<1>1. PICK k \in 1..Len(channel[s]) :
          /\ messages' = SubSeq(channel[s], 1, k)
          /\ channel' = [channel EXCEPT ![s] = SubSeq(@, k + 1, Len(@))]
  BY DEF collect
<1>2. messages = <<>> /\ UNCHANGED <<incoming_resources, sent, published, partial, cut>>
  BY DEF collect, history
<1>3. channel \in [Senders -> Seq(Message)]
  BY DEF ReceiverInv, TypeOK
<1>4. ASSUME NEW x \in Senders PROVE Stream(s, x)' = Stream(o, x)
  <2>1. channel[x] \in Seq(Message) /\ Stream(o, x) = channel[x]
    BY <1>2, <1>3, ConcatEmptySeq DEF Stream
  <2>2. CASE x # s
    BY <1>1, <1>3, <2>1, <2>2 DEF Stream
  <2>3. CASE x = s
    <3>1. Len(channel[s]) \in Nat
      BY <1>3, LenProperties
    <3>2. SubSeq(channel[s], 1, k) \o SubSeq(channel[s], k + 1, Len(channel[s]))
            = SubSeq(channel[s], 1, Len(channel[s]))
      <4>1. 1 \in 1..Len(channel[s]) + 1 /\ k \in 1 - 1..Len(channel[s])
            /\ Len(channel[s]) \in k..Len(channel[s])
        BY <3>1
      <4> QED
        BY <2>1, <2>3, <4>1, ConcatAdjacentSubSeq
    <3>3. SubSeq(channel[s], 1, Len(channel[s])) = channel[s]
      BY <2>1, <2>3, SubSeqFull
    <3>4. channel'[s] = SubSeq(channel[s], k + 1, Len(channel[s]))
      BY <1>1, <1>3
    <3> QED
      BY <1>1, <2>1, <2>3, <3>2, <3>3, <3>4 DEF Stream
  <2> QED
    BY <2>2, <2>3
<1>5. \A x \in Senders : Contiguous(Stream(s, x)', partial')
  BY <1>2, <1>4 DEF StreamsSound
<1>6. ASSUME NEW x \in Tracked'
      PROVE  /\ Started(s, x)'
             /\ incoming_resources'[x] # None =>
                  \A j \in Index \ DOMAIN incoming_resources'[x].received : Coming(s, x, j)'
  <2>1. x \in Tracked
    BY <1>2, <1>6 DEF Tracked
  <2>2. Started(s, x)'
    BY <1>2, <1>4, <2>1 DEF StreamsSound, Started
  <2>3. ASSUME incoming_resources'[x] # None,
               NEW j \in Index \ DOMAIN incoming_resources'[x].received
        PROVE  Coming(s, x, j)'
    <3>1. Coming(o, x, j)
      BY <1>2, <2>1, <2>3 DEF StreamsSound
    <3> QED
      BY <1>2, <1>4, <3>1 DEF Coming
  <2> QED
    BY <2>2, <2>3
<1> QED
  BY <1>5, <1>6 DEF StreamsSound

\* How many messages a step of handle_link_data takes from the stream it works on: the one it
\* processes or, after an error, all that were collected.
Taken == IF RefusedSegment(Head(messages)) THEN Len(messages) ELSE 1

\* What processing a message does to the streams.
LEMMA StreamsHandled ==
    ASSUME ReceiverInv, NEW o \in Senders, handle_link_data
    PROVE  /\ \A s \in Senders : s # o => Stream(o, s)' = Stream(o, s)
           /\ Stream(o, o) \in Seq(Message) /\ Stream(o, o)' \in Seq(Message)
           /\ Taken \in Nat /\ Taken >= 1 /\ Len(Stream(o, o)) >= 1
           /\ Drops(Stream(o, o)', Stream(o, o), Taken)
           /\ Stream(o, o)[1] = Head(messages)
           /\ \A p \in 1..Taken : p \in 1..Len(messages) /\ Stream(o, o)[p] = messages[p]
<1>1. messages # <<>> /\ channel' = channel
  BY DEF handle_link_data
<1>2. channel[o] \in Seq(Message) /\ messages \in Seq(Message)
  BY DEF ReceiverInv, TypeOK
<1>3. Len(messages) \in Nat /\ Len(messages) >= 1 /\ Len(channel[o]) \in Nat
  BY <1>1, <1>2, LenProperties, EmptySeq
<1> DEFINE w == messages \o channel[o]
<1>4. /\ w \in Seq(Message) /\ Len(w) = Len(messages) + Len(channel[o])
      /\ \A i \in 1..Len(messages) + Len(channel[o]) :
            w[i] = IF i <= Len(messages) THEN messages[i] ELSE channel[o][i - Len(messages)]
  BY <1>2, ConcatProperties
<1>5. Stream(o, o) = w /\ Stream(o, o)' = messages' \o channel[o]
  BY <1>1 DEF Stream
<1> HIDE DEF w
<1>6. Taken \in Nat /\ Taken >= 1 /\ Taken <= Len(messages)
  BY <1>3 DEF Taken
<1>7. w[1] = Head(messages) /\ \A p \in 1..Taken : p \in 1..Len(messages) /\ w[p] = messages[p]
  <2>1. Head(messages) = messages[1]
    BY <1>1, <1>2
  <2>2. \A p \in 1..Len(messages) : w[p] = messages[p]
    BY <1>3, <1>4
  <2> QED
    BY <1>3, <1>6, <2>1, <2>2
<1>8. messages' \o channel[o] \in Seq(Message) /\ Drops(messages' \o channel[o], w, Taken)
  <2>1. CASE RefusedSegment(Head(messages))
    <3>1. messages' = <<>> /\ Taken = Len(messages)
      BY <2>1 DEF RefusedSegment, Taken
    <3>2. messages' \o channel[o] = channel[o]
      BY <1>2, <3>1, ConcatEmptySeq
    <3>3. \A p \in 1..Len(channel[o]) : channel[o][p] = w[p + Len(messages)]
      <4> SUFFICES ASSUME NEW p \in 1..Len(channel[o])
                   PROVE  channel[o][p] = w[p + Len(messages)]
        OBVIOUS
      <4>1. /\ p + Len(messages) \in 1..Len(messages) + Len(channel[o])
            /\ ~(p + Len(messages) <= Len(messages)) /\ (p + Len(messages)) - Len(messages) = p
        BY <1>3
      <4> QED
        BY <1>4, <4>1
    <3>4. Len(w) = Len(channel[o]) + Taken
      BY <1>3, <1>4, <3>1
    <3> QED
      BY <1>2, <3>1, <3>2, <3>3, <3>4 DEF Drops
  <2>2. CASE ~RefusedSegment(Head(messages))
    <3>1. messages' = Tail(messages) /\ Taken = 1
      BY <2>2 DEF handle_link_data, handle_advertisement, UnknownResource, AcceptedSegment, Taken
    <3>2. /\ Tail(messages) \in Seq(Message) /\ Len(Tail(messages)) = Len(messages) - 1
          /\ \A i \in 1..Len(Tail(messages)) : Tail(messages)[i] = messages[i + 1]
      BY <1>1, <1>2, HeadTailProperties
    <3> DEFINE t == Tail(messages)
               q == t \o channel[o]
    <3>3. /\ q \in Seq(Message) /\ Len(q) = Len(t) + Len(channel[o])
          /\ \A i \in 1..Len(t) + Len(channel[o]) :
                q[i] = IF i <= Len(t) THEN t[i] ELSE channel[o][i - Len(t)]
      BY <1>2, <3>2, ConcatProperties
    <3>4. /\ Len(t) = Len(messages) - 1
          /\ \A i \in 1..Len(t) : t[i] = messages[i + 1]
      BY <3>2
    <3> HIDE DEF q, t
    <3>5. ASSUME NEW p \in 1..Len(q) PROVE q[p] = w[p + 1]
      <4>1. p \in 1..Len(t) + Len(channel[o]) /\ p + 1 \in 1..Len(messages) + Len(channel[o])
        BY <1>3, <3>3, <3>4
      <4>2. CASE p <= Len(t)
        <5>1. p \in 1..Len(t) /\ p + 1 <= Len(messages)
          BY <1>3, <3>4, <4>1, <4>2
        <5>2. q[p] = messages[p + 1]
          BY <3>3, <3>4, <4>1, <4>2, <5>1
        <5> QED
          BY <1>4, <4>1, <5>1, <5>2
      <4>3. CASE ~(p <= Len(t))
        <5>1. ~(p + 1 <= Len(messages)) /\ p - Len(t) = (p + 1) - Len(messages)
          BY <1>3, <3>4, <4>1, <4>3
        <5>2. q[p] = channel[o][p - Len(t)]
          BY <3>3, <4>1, <4>3
        <5>3. w[p + 1] = channel[o][(p + 1) - Len(messages)]
          BY <1>4, <4>1, <5>1
        <5> QED
          BY <5>1, <5>2, <5>3
      <4> QED
        BY <4>2, <4>3
    <3>6. Len(w) = Len(q) + 1
      BY <1>3, <1>4, <3>3, <3>4
    <3>7. messages' \o channel[o] = q
      BY <3>1 DEF q, t
    <3> QED
      BY <3>1, <3>3, <3>5, <3>6, <3>7 DEF Drops
  <2> QED
    BY <2>1, <2>2
<1>9. \A s \in Senders : s # o => Stream(o, s)' = Stream(o, s)
  BY <1>1 DEF Stream
<1>10. Len(w) >= 1
  BY <1>3, <1>4
<1> QED
  BY <1>4, <1>5, <1>6, <1>7, <1>8, <1>9, <1>10

\* A resource that the processed message is not of keeps what is started and coming.
LEMMA OthersHandled ==
    ASSUME ReceiverInv, NEW o \in Senders, StreamsSound(o), handle_link_data,
           NEW x \in Tracked', x # Head(messages).hash
    PROVE  /\ x \in Tracked /\ incoming_resources'[x] = incoming_resources[x]
           /\ Started(o, x) => Started(o, x)'
           /\ \A j : Coming(o, x, j) => Coming(o, x, j)'
<1> DEFINE m == Head(messages)
           w == Stream(o, o)
           v == Stream(o, o)'
<1>1. /\ messages # <<>> /\ sent' = sent /\ partial' = partial
      /\ \/ handle_advertisement(m) \/ UnknownResource(m)
         \/ RefusedSegment(m) \/ AcceptedSegment(m)
  BY DEF handle_link_data
<1>2. m.hash \in Resources
  BY <1>1, HeadOfMessages DEF ReceiverInv
<1>3. cut \subseteq cut' /\ published \subseteq published'
  BY <1>1 DEF handle_advertisement, UnknownResource, RefusedSegment, AcceptedSegment
<1>4. x \in Tracked /\ x \in Resources
  BY <1>1, <1>3 DEF Tracked, ReceiverInv, TypeOK
<1>5. incoming_resources'[x] = incoming_resources[x]
  <2>1. \/ incoming_resources' = incoming_resources
        \/ \E e : incoming_resources' = [incoming_resources EXCEPT ![m.hash] = e]
    BY <1>1 DEF handle_advertisement, UnknownResource, RefusedSegment, AcceptedSegment
  <2> QED
    BY <1>2, <1>4, <2>1 DEF ReceiverInv, EntriesSound
<1>6. /\ \A s \in Senders : s # o => Stream(o, s)' = Stream(o, s)
      /\ w \in Seq(Message) /\ v \in Seq(Message) /\ Taken \in Nat
      /\ Drops(v, w, Taken) /\ w[1] = m
      /\ \A p \in 1..Taken : p \in 1..Len(messages) /\ w[p] = messages[p]
  BY StreamsHandled
<1>7. \A p \in 1..Taken : w[p].hash # x
  <2>1. CASE RefusedSegment(m)
    <3>1. cut' = cut \cup ({d.hash : d \in ToSet(messages)} \ {m.hash})
      BY <2>1 DEF RefusedSegment
    <3>2. x \notin cut'
      BY DEF Tracked
    <3>3. \A d \in ToSet(messages) : d.hash # x
      BY <3>1, <3>2
    <3>4. DOMAIN messages = 1..Len(messages)
      BY LenProperties DEF ReceiverInv, TypeOK
    <3>5. \A p \in 1..Len(messages) : messages[p] \in ToSet(messages)
      BY <3>4 DEF ToSet
    <3> QED
      BY <1>6, <3>3, <3>5
  <2>2. CASE ~RefusedSegment(m)
    <3>1. Taken = 1
      BY <2>2 DEF Taken
    <3> QED
      BY <1>6, <3>1
  <2> QED
    BY <2>1, <2>2
<1>8. ASSUME Started(o, x) PROVE Started(o, x)'
  <2>1. CASE \E s \in Senders : \E p \in 1..Len(Stream(o, s)) : Stream(o, s)[p] = Advertisement(x)
    <3>1. PICK s \in Senders : \E p \in 1..Len(Stream(o, s)) : Stream(o, s)[p] = Advertisement(x)
      BY <2>1
    <3>2. CASE s # o
      BY <1>6, <3>1, <3>2 DEF Started
    <3>3. CASE s = o
      <4>1. PICK p \in 1..Len(w) : w[p] = Advertisement(x)
        BY <3>1, <3>3
      <4>2. w[p].hash = x
        BY <4>1 DEF Advertisement
      <4>3. Len(v) \in Nat /\ Len(w) = Len(v) + Taken
        BY <1>6, LenProperties DEF Drops
      <4>4. ~(p \in 1..Taken)
        BY <1>7, <4>2
      <4>5. PICK i \in 1..Len(v) : i + Taken = p
        <5>1. p - Taken \in 1..Len(v) /\ (p - Taken) + Taken = p
          BY <1>6, <4>3, <4>4
        <5> QED
          BY <5>1
      <4>6. v[i] = Advertisement(x)
        BY <1>6, <4>1, <4>5 DEF Drops
      <4> QED
        BY <4>6 DEF Started
    <3> QED
      BY <3>2, <3>3
  <2> QED
    BY <1>3, <1>5, <1>8, <2>1 DEF Started
<1>9. ASSUME NEW j, Coming(o, x, j) PROVE Coming(o, x, j)'
  <2>1. PICK s \in Senders, i \in 0..j :
          /\ IsFront(Stream(o, s), Segment(x, i))
          /\ \A k \in i..j : k \notin DOMAIN incoming_resources[x].received
    BY <1>9 DEF Coming
  <2>2. IsFront(Stream(o, s)', Segment(x, i))
    <3>1. CASE s # o
      BY <1>6, <2>1, <3>1
    <3>2. CASE s = o
      <4>1. Segment(x, i).hash = x
        BY DEF Segment
      <4> HIDE DEF v, w
      <4>2. IsFront(w, Segment(x, i))
        BY <2>1, <3>2 DEF w
      <4>3. IsFront(v, Segment(x, i))
        BY <1>6, <1>7, <4>1, <4>2, FrontDrop
      <4> QED
        BY <3>2, <4>3 DEF v
    <3> QED
      BY <3>1, <3>2
  <2> QED
    BY <1>5, <2>1, <2>2 DEF Coming
<1> QED
  BY <1>4, <1>5, <1>8, <1>9

\* Once the head of a contiguous stream is taken, the message that follows it comes first.
LEMMA NextIsFront ==
    ASSUME NEW q \in Seq(Message), NEW w \in Seq(Message), NEW P, Contiguous(w, P),
           Drops(q, w, 1), Len(w) >= 1, w[1].hash \notin P, HasNext(w[1])
    PROVE  IsFront(q, NextOf(w[1]))
<1>1. Len(q) \in Nat /\ Len(w) \in Nat /\ Len(w) = Len(q) + 1
  BY LenProperties DEF Drops
<1>2. 1 < Len(w) /\ w[1 + 1] = NextOf(w[1])
  <2>1. 1 \in 1..Len(w)
    BY <1>1
  <2> QED
    BY <2>1 DEF Contiguous
<1>3. 1 \in 1..Len(q)
  BY <1>1, <1>2
<1>4. q[1] = w[1 + 1]
  BY <1>3 DEF Drops
<1>5. 1..(1 - 1) = {}
  OBVIOUS
<1> QED
  BY <1>2, <1>3, <1>4, <1>5 DEF IsFront

\* The resource of the processed message stays started and coming.
LEMMA HeadHandled ==
    ASSUME ReceiverInv, NEW o \in Senders, StreamsSound(o), handle_link_data,
           NEW m, m = Head(messages), NEW r \in Tracked', r = m.hash
    PROVE  /\ Started(o, r)'
           /\ incoming_resources'[r] # None =>
                 \A j \in Index \ DOMAIN incoming_resources'[r].received : Coming(o, r, j)'
<1> DEFINE e == incoming_resources[r]
           w == Stream(o, o)
           v == Stream(o, o)'
<1>1. /\ messages # <<>> /\ sent' = sent /\ partial' = partial
      /\ \/ handle_advertisement(m) \/ UnknownResource(m)
         \/ RefusedSegment(m) \/ AcceptedSegment(m)
  BY DEF handle_link_data
<1>2. m \in Message /\ r \in Resources /\ m.index \in Index
  BY <1>1, HeadOfMessages DEF ReceiverInv
<1>3. cut \subseteq cut' /\ published \subseteq published'
  BY <1>1 DEF handle_advertisement, UnknownResource, RefusedSegment, AcceptedSegment
<1>4. r \in Tracked /\ r \notin Empty /\ r \notin partial
  BY <1>1, <1>3 DEF Tracked
<1>5. Total(r) = SegmentCount /\ SegmentCount \in Nat /\ SegmentCount >= 1
  BY <1>4, Sizes
<1>6. /\ \A s \in Senders : s # o => Stream(o, s)' = Stream(o, s)
      /\ w \in Seq(Message) /\ v \in Seq(Message) /\ Taken \in Nat
      /\ Drops(v, w, Taken) /\ w[1] = m /\ Len(w) >= 1
  BY StreamsHandled
<1>7. Contiguous(w, partial)
  BY DEF StreamsSound
<1>8. /\ Started(o, r)
      /\ e # None => \A j \in Index \ DOMAIN e.received : Coming(o, r, j)
  BY <1>4 DEF StreamsSound
<1>9. \A i : IsFront(w, Segment(r, i)) => m = Segment(r, i)
  <2>1. \A i : Segment(r, i).hash = r
    BY DEF Segment
  <2> QED
    BY <1>6, <2>1, FrontIsHead
<1>10. incoming_resources = [x \in Resources |-> incoming_resources[x]]
  BY DEF ReceiverInv, EntriesSound
<1>11. CASE handle_advertisement(m)
  <2>1. incoming_resources'[r] = new_for_receiving(r) /\ m.kind = "advertisement"
    BY <1>2, <1>10, <1>11 DEF handle_advertisement
  <2>2. new_for_receiving(r) # None
    BY <1>2, FreshTransfer
  <2>3. DOMAIN new_for_receiving(r).received = {}
    BY DEF new_for_receiving
  <2>4. HasNext(m) /\ NextOf(m) = Segment(r, 0)
    BY <1>4, <2>1 DEF HasNext, NextOf
  <2>5. Taken = 1
    BY <2>1 DEF Taken, RefusedSegment
  <2>6. IsFront(v, Segment(r, 0))
    <3> HIDE DEF v, w
    <3> QED
      BY <1>4, <1>6, <1>7, <2>4, <2>5, NextIsFront
  <2>7. Started(o, r)'
    BY <2>1, <2>2 DEF Started
  <2>8. ASSUME NEW j \in Index PROVE Coming(o, r, j)'
    <3>1. 0 \in 0..j
      BY Sizes
    <3>2. \A k : k \notin DOMAIN incoming_resources'[r].received
      BY <2>1, <2>3
    <3> QED
      BY <2>6, <3>1, <3>2 DEF Coming
  <2> QED
    BY <2>7, <2>8
<1>12. CASE UnknownResource(m)
  <2>1. m.kind = "segment" /\ e = None /\ incoming_resources' = incoming_resources
    BY <1>12 DEF UnknownResource
  <2>2. Taken = 1
    BY <2>1 DEF Taken, RefusedSegment
  <2>3. CASE \E d \in published : d[1] = r
    BY <1>3, <2>1, <2>3 DEF Started
  <2>4. CASE \E s \in Senders : \E p \in 1..Len(Stream(o, s)) : Stream(o, s)[p] = Advertisement(r)
    <3>1. PICK s \in Senders : \E p \in 1..Len(Stream(o, s)) : Stream(o, s)[p] = Advertisement(r)
      BY <2>4
    <3>2. CASE s # o
      BY <1>6, <2>1, <3>1, <3>2 DEF Started
    <3>3. CASE s = o
      <4>1. PICK p \in 1..Len(w) : w[p] = Advertisement(r)
        BY <3>1, <3>3
      <4>2. p # 1
        BY <1>6, <2>1, <4>1 DEF Advertisement
      <4>3. Len(v) \in Nat /\ Len(w) = Len(v) + 1
        BY <1>6, <2>2, LenProperties DEF Drops
      <4>4. PICK i \in 1..Len(v) : i + 1 = p
        <5>1. p - 1 \in 1..Len(v) /\ (p - 1) + 1 = p
          BY <4>2, <4>3
        <5> QED
          BY <5>1
      <4>5. v[i] = Advertisement(r)
        BY <1>6, <2>2, <4>1, <4>4 DEF Drops
      <4>6. Started(o, r)'
        BY <4>5 DEF Started
      <4> QED
        BY <2>1, <4>6
    <3> QED
      BY <3>2, <3>3
  <2> QED
    BY <1>8, <2>1, <2>3, <2>4 DEF Started
<1>13. CASE RefusedSegment(m)
  <2>1. e # None /\ IsError(e, m) /\ m.kind = "segment"
    BY <1>13 DEF RefusedSegment
  <2>2. PICK D \in SUBSET {i \in Index : i < Total(r)} :
            /\ e \in Transfer(r, D) /\ D \in SUBSET Index
            /\ DOMAIN e.received = D /\ e.total = Total(r)
    BY <1>1, <2>1, EntryOfSegment
  <2>3. m.index \in DOMAIN e.received
    <3>1. m.index \in Nat /\ m.index < SegmentCount
      BY <1>2, Sizes
    <3>2. ~(m.index >= Total(r))
      BY <1>5, <3>1
    <3> QED
      BY <2>1, <2>2, <3>2 DEF IsError
  <2> DEFINE f == [e EXCEPT !.state = "Transferring"]
  <2>4. incoming_resources'[r] = f
    BY <1>2, <1>10, <1>13 DEF RefusedSegment
  <2>5. f \in Transfer(r, D)
    BY <1>2, <2>2, TransferGrows
  <2>6. f # None /\ DOMAIN f.received = D
    <3> HIDE DEF f
    <3> QED
      BY <1>2, <2>2, <2>5, TransferFields
  <2>7. Started(o, r)'
    BY <2>4, <2>6 DEF Started
  <2>8. ASSUME NEW j \in Index \ DOMAIN incoming_resources'[r].received PROVE Coming(o, r, j)'
    <3>1. j \in Index \ DOMAIN e.received
      BY <2>2, <2>4, <2>6, <2>8
    <3>2. PICK s \in Senders, i \in 0..j :
            /\ IsFront(Stream(o, s), Segment(r, i))
            /\ \A k \in i..j : k \notin DOMAIN e.received
      BY <1>8, <2>1, <3>1 DEF Coming
    <3>3. s # o
      <4> SUFFICES ASSUME s = o PROVE FALSE
        OBVIOUS
      <4>1. m = Segment(r, i)
        BY <1>9, <3>2
      <4>2. m.index = i
        BY <4>1 DEF Segment
      <4>3. j \in Nat
        BY <3>1, Sizes
      <4>4. i \in i..j
        BY <4>3
      <4> QED
        BY <2>3, <3>2, <4>2, <4>4
    <3>4. IsFront(Stream(o, s)', Segment(r, i))
      BY <1>6, <3>2, <3>3
    <3>5. \A k \in i..j : k \notin DOMAIN incoming_resources'[r].received
      BY <2>2, <2>4, <2>6, <3>2
    <3> QED
      BY <3>4, <3>5 DEF Coming
  <2> QED
    BY <2>7, <2>8
<1>14. CASE AcceptedSegment(m)
  <2>1. m.kind = "segment" /\ e # None
    BY <1>14 DEF AcceptedSegment
  <2>2. Taken = 1
    BY <1>14 DEF AcceptedSegment, RefusedSegment, Taken
  <2>3. m.index \in Nat /\ m.index \notin DOMAIN e.received
    BY <1>1, <1>2, <1>14, AcceptedJoins, Sizes
  <2>4. CASE /\ incoming_resources' = [incoming_resources EXCEPT ![r] = None]
             /\ published' = published \cup {<<r, Whole(r)>>}
    <3>1. incoming_resources'[r] = None
      BY <1>2, <1>10, <2>4
    <3>2. <<r, Whole(r)>> \in published' /\ <<r, Whole(r)>>[1] = r
      BY <2>4
    <3>3. Started(o, r)'
      BY <3>2 DEF Started
    <3> QED
      BY <3>1, <3>3
  <2>5. ASSUME NEW D \in SUBSET {i \in Index : i < Total(r)}, NEW f \in Transfer(r, D),
               D = DOMAIN e.received \cup {m.index},
               incoming_resources' = [incoming_resources EXCEPT ![r] = f]
        PROVE  /\ Started(o, r)'
               /\ \A j \in Index \ DOMAIN incoming_resources'[r].received : Coming(o, r, j)'
    <3>1. incoming_resources'[r] = f
      BY <1>2, <1>10, <2>5
    <3>2. f # None /\ DOMAIN f.received = D
      <4>1. D \in SUBSET Index
        BY <2>5
      <4> QED
        BY <1>2, <2>5, <4>1, TransferFields
    <3>3. Started(o, r)'
      BY <3>1, <3>2 DEF Started
    <3>4. ASSUME NEW j \in Index \ DOMAIN incoming_resources'[r].received PROVE Coming(o, r, j)'
      <4>1. j \in Index \ DOMAIN e.received /\ j # m.index /\ j \in Nat /\ j < SegmentCount
        BY <2>5, <3>1, <3>2, <3>4, Sizes
      <4>2. PICK s \in Senders, i \in 0..j :
              /\ IsFront(Stream(o, s), Segment(r, i))
              /\ \A k \in i..j : k \notin DOMAIN e.received
        BY <1>8, <2>1, <4>1 DEF Coming
      <4>3. CASE m.index \in i..j
        <5>1. m.index + 1 \in 0..j /\ m.index + 1 < SegmentCount
          BY <2>3, <4>1, <4>3
        <5>2. HasNext(m) /\ NextOf(m) = Segment(r, m.index + 1)
          BY <2>1, <5>1 DEF HasNext, NextOf
        <5>3. IsFront(v, Segment(r, m.index + 1))
          <6> HIDE DEF v, w
          <6> QED
            BY <1>4, <1>6, <1>7, <2>2, <5>2, NextIsFront
        <5>4. \A k \in (m.index + 1)..j : k \in i..j /\ k # m.index
          BY <2>3, <4>1, <4>3
        <5>5. \A k \in (m.index + 1)..j : k \notin DOMAIN incoming_resources'[r].received
          BY <2>5, <3>1, <3>2, <4>2, <5>4
        <5> QED
          BY <5>1, <5>3, <5>5 DEF Coming
      <4>4. CASE m.index \notin i..j
        <5>1. s # o
          <6> SUFFICES ASSUME s = o PROVE FALSE
            OBVIOUS
          <6>1. m = Segment(r, i)
            BY <1>9, <4>2
          <6>2. m.index = i
            BY <6>1 DEF Segment
          <6>3. i \in i..j
            BY <4>1
          <6> QED
            BY <4>4, <6>2, <6>3
        <5>2. IsFront(Stream(o, s)', Segment(r, i))
          BY <1>6, <4>2, <5>1
        <5>3. \A k \in i..j : k \notin DOMAIN incoming_resources'[r].received
          BY <2>5, <3>1, <3>2, <4>2, <4>4
        <5> QED
          BY <5>2, <5>3 DEF Coming
      <4> QED
        BY <4>3, <4>4
    <3> QED
      BY <3>3, <3>4
  <2> QED
    BY <1>1, <1>14, <2>4, <2>5, AcceptedJoins
<1> QED
  BY <1>1, <1>11, <1>12, <1>13, <1>14

\* Processing a message keeps the streams sound.
LEMMA StreamsHandle ==
    ASSUME ReceiverInv, NEW o, StreamsSound(o), handle_link_data
    PROVE  StreamsSound(o)'
<1>1. o \in Senders /\ partial' = partial
  BY DEF StreamsSound, handle_link_data
<1>2. \A s \in Senders : Contiguous(Stream(o, s)', partial')
  <2>1. \A s \in Senders : s # o => Contiguous(Stream(o, s)', partial')
    BY <1>1, StreamsHandled DEF StreamsSound
  <2>2. /\ Stream(o, o) \in Seq(Message) /\ Stream(o, o)' \in Seq(Message) /\ Taken \in Nat
        /\ Drops(Stream(o, o)', Stream(o, o), Taken)
    BY <1>1, StreamsHandled
  <2>3. Contiguous(Stream(o, o), partial)
    BY <1>1 DEF StreamsSound
  <2>4. Contiguous(Stream(o, o)', partial')
    BY <1>1, <2>2, <2>3, ContiguousDrop
  <2> QED
    BY <2>1, <2>4
<1>3. ASSUME NEW x \in Tracked'
      PROVE  /\ Started(o, x)'
             /\ incoming_resources'[x] # None =>
                  \A j \in Index \ DOMAIN incoming_resources'[x].received : Coming(o, x, j)'
  <2>1. CASE x = Head(messages).hash
    BY <1>1, <1>3, <2>1, HeadHandled
  <2>2. CASE x # Head(messages).hash
    <3>1. /\ x \in Tracked /\ incoming_resources'[x] = incoming_resources[x]
          /\ Started(o, x) => Started(o, x)'
          /\ \A j : Coming(o, x, j) => Coming(o, x, j)'
      BY <1>1, <1>3, <2>2, OthersHandled
    <3>2. /\ Started(o, x)
          /\ incoming_resources[x] # None =>
                \A j \in Index \ DOMAIN incoming_resources[x].received : Coming(o, x, j)
      BY <3>1 DEF StreamsSound
    <3> QED
      BY <3>1, <3>2
  <2> QED
    BY <2>1, <2>2
<1> QED
  BY <1>1, <1>2, <1>3 DEF StreamsSound

\* A message of a stream is in the channel of the sender or among the messages collected.
LEMMA InStream ==
    ASSUME ReceiverInv, NEW o, NEW s \in Senders, NEW p \in 1..Len(Stream(o, s)), NEW r,
           Handled(r)
    PROVE  Stream(o, s)[p].hash # r
<1>1. channel[s] \in Seq(Message) /\ messages \in Seq(Message)
  BY DEF ReceiverInv, TypeOK
<1>2. \A i \in 1..Len(channel[s]) : channel[s][i].hash # r
  <2>1. \A i \in 1..Len(channel[s]) : channel[s][i] \in ToSet(channel[s])
    BY <1>1, LenProperties DEF ToSet
  <2> QED
    BY <2>1 DEF Handled
<1>3. \A i \in 1..Len(messages) : messages[i].hash # r
  <2>1. \A i \in 1..Len(messages) : messages[i] \in ToSet(messages)
    BY <1>1, LenProperties DEF ToSet
  <2> QED
    BY <2>1 DEF Handled
<1>4. CASE s # o
  BY <1>2, <1>4 DEF Stream
<1>5. CASE s = o
  <2>1. /\ Len(messages \o channel[s]) = Len(messages) + Len(channel[s])
        /\ Len(messages) \in Nat /\ Len(channel[s]) \in Nat
        /\ \A i \in 1..Len(messages) + Len(channel[s]) : (messages \o channel[s])[i] =
              IF i <= Len(messages) THEN messages[i] ELSE channel[s][i - Len(messages)]
    BY <1>1, ConcatProperties, LenProperties
  <2>2. Stream(o, s) = messages \o channel[s] /\ p \in 1..Len(messages) + Len(channel[s])
    BY <1>5, <2>1 DEF Stream
  <2>3. CASE p <= Len(messages)
    <3>1. p \in 1..Len(messages)
      BY <2>1, <2>2, <2>3
    <3> QED
      BY <1>3, <2>1, <2>2, <2>3, <3>1
  <2>4. CASE ~(p <= Len(messages))
    <3>1. p - Len(messages) \in 1..Len(channel[s])
      BY <2>1, <2>2, <2>4
    <3> QED
      BY <1>2, <2>1, <2>2, <2>4, <3>1
  <2> QED
    BY <2>3, <2>4
<1> QED
  BY <1>4, <1>5

\* With sound streams, a resource of which nothing is under way was published.
LEMMA SoundIsComplete ==
    ASSUME ReceiverInv, NEW o, StreamsSound(o)
    PROVE  TransfersComplete
<1> SUFFICES ASSUME NEW r \in Tracked, Handled(r)
             PROVE  incoming_resources[r] = None /\ \E d \in published : d[1] = r
  BY DEF TransfersComplete, Tracked
<1>1. r \in Resources /\ r \notin Empty
  BY DEF Tracked, ReceiverInv, TypeOK
<1>2. \A s \in Senders : \A p \in 1..Len(Stream(o, s)) : Stream(o, s)[p].hash # r
  BY InStream
<1>3. incoming_resources[r] = None
  <2> SUFFICES ASSUME incoming_resources[r] # None PROVE FALSE
    OBVIOUS
  <2>1. PICK D \in SUBSET {i \in Index : i < Total(r)} :
            incoming_resources[r] \in Transfer(r, D) /\ Missing(r, D) # {}
    BY <1>1 DEF ReceiverInv, EntriesSound
  <2>2. D \in SUBSET Index
    BY <2>1
  <2>3. DOMAIN incoming_resources[r].received = D
    BY <1>1, <2>1, <2>2, TransferFields
  <2>4. PICK j \in Index \ D : TRUE
    BY <2>1 DEF Missing
  <2>5. PICK s \in Senders, i \in 0..j : IsFront(Stream(o, s), Segment(r, i))
    BY <2>3, <2>4 DEF StreamsSound, Coming
  <2>6. Segment(r, i).hash = r
    BY DEF Segment
  <2> QED
    BY <1>2, <2>5, <2>6 DEF IsFront
<1>4. ~(\E s \in Senders : \E p \in 1..Len(Stream(o, s)) : Stream(o, s)[p] = Advertisement(r))
  BY <1>2 DEF Advertisement
<1> QED
  BY <1>3, <1>4 DEF StreamsSound, Started

\* Transfers complete: a resource of which all messages were handled was published.
THEOREM AllTransfersComplete == Spec => []TransfersComplete
<1>1. Init => ReceiverInv /\ StreamInv
  <2> SUFFICES ASSUME Init PROVE StreamInv
    BY ReceiverInitially
  <2>1. messages = <<>> /\ sent = {} /\ channel = [s \in Senders |-> <<>>]
    BY DEF Init
  <2>2. ASSUME NEW s \in Senders PROVE Contiguous(Stream("none", s), partial)
    <3>1. <<>> \in Seq(Message) /\ <<>> \o <<>> = <<>>
      BY EmptySeq, ConcatEmptySeq
    <3>2. Stream("none", s) = <<>>
      BY <2>1, <3>1 DEF Stream
    <3>3. 1..Len(<<>>) = {}
      OBVIOUS
    <3> QED
      BY <3>2, <3>3 DEF Contiguous
  <2>3. StreamsSound("none")
    BY <2>1, <2>2 DEF StreamsSound, Tracked
  <2> QED
    BY <2>3 DEF StreamInv
<1>2. ReceiverInv /\ StreamInv /\ [Next]_vars => ReceiverInv' /\ StreamInv'
  <2> SUFFICES ASSUME ReceiverInv, StreamInv, [Next]_vars PROVE StreamInv'
    BY ReceiverNext
  <2>1. PICK o \in Senders \cup {"none"} : StreamsSound(o)
    BY DEF StreamInv
  <2>2. CASE \E s \in Senders, r \in Resources : send_resource(s, r)
    BY <2>1, <2>2, StreamsSend DEF StreamInv
  <2>3. CASE \E s \in Senders : collect(s)
    BY <2>1, <2>3, StreamsCollect DEF StreamInv
  <2>4. CASE handle_link_data
    BY <2>1, <2>4, StreamsHandle DEF StreamInv
  <2>5. CASE UNCHANGED vars
    BY <2>5 DEF vars, StreamInv, StreamsSound, Tracked, Started, Coming, Stream
  <2> QED
    BY <2>2, <2>3, <2>4, <2>5 DEF Next
<1>3. ReceiverInv /\ StreamInv => TransfersComplete
  BY SoundIsComplete DEF StreamInv
<1> QED
  BY <1>1, <1>2, <1>3, PTL DEF Spec
=============================================================================
