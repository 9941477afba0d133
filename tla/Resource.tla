------------------------------ MODULE Resource ------------------------------
(***************************************************************************)
(* Transfer of resources to a daemon: Daemon::send_resource at the senders,*)
(* the loop of handle_link_data over the messages of a channel, and        *)
(* Resource and SegmentTracker at the receiver (crates/daemon/src/lib.rs   *)
(* and crates/transport/src/resource.rs).                                  *)
(*                                                                         *)
(* A sender's channel hands its messages over in order, one or several at  *)
(* a time, and for good not beyond a sequence number that was burned: this *)
(* is what OrderedDelivery and StopsAtBurnedNumber of Channel say, and all *)
(* that is used of it.  Resources are known by the hash of their content;  *)
(* every daemon cuts them into segments of the same size, so equal         *)
(* resources have equal segments, and segments carry correct checksums.    *)
(* With the default sizes (segments of 1024 bytes, an MTU of 500) every    *)
(* resource of more than one segment is TooLarge.                          *)
(***************************************************************************)
EXTENDS Naturals, Sequences, SequencesExt, FiniteSets

CONSTANTS
    Senders,       \* the daemons with a link to the receiver
    Resources,     \* the resources, each known by its hash
    SegmentCount,  \* how many segments a resource has
    Empty,         \* the resources without data, which have no segment
    TooLarge,      \* the resources whose segments exceed the mdu of a channel
    Oversized,     \* those whose segments exceed the MTU of a link only once encrypted
    MaxSends,      \* bound: how many resources a sender sends
    Faults         \* what happens: "unsent" (send_to fails after the channel took a number)

ASSUME ResourceAssumption ==
    /\ SegmentCount \in Nat \ {0} /\ MaxSends \in Nat
    /\ Empty \subseteq Resources /\ TooLarge \subseteq Resources \ Empty
    /\ Oversized \subseteq Resources \ (Empty \cup TooLarge)
    /\ Faults \subseteq {"unsent"}

VARIABLES
    channel,             \* [Senders -> Seq(Message)]: sent and not yet handed over
    burned,              \* [Senders -> BOOLEAN]: was a sequence number burned?
    sends,               \* [Senders -> 0..MaxSends]
    messages,            \* what handle_link_data collected and has not processed yet
    incoming_resources,  \* [Resources -> Entry]
    stored,              \* the data in the content store under the name of resources
    sent,                \* history: the resources that were sent
    published,           \* history: the data of all resources that were published
    partial,             \* history: those whose sending failed, or came after a burned number
    cut                  \* history: the resources whose messages another one's error dropped

history == <<sent, published, partial, cut>>
vars == <<channel, burned, sends, messages, incoming_resources, stored, sent, published, partial, cut>>

Total(r) == IF r \in Empty THEN 0 ELSE SegmentCount
Index == 0..(SegmentCount - 1)

\* The data of a segment is what it is a part of.
Advertisement(r) == [kind |-> "advertisement", hash |-> r, index |-> 0]
Segment(r, i) == [kind |-> "segment", hash |-> r, index |-> i]
Message == [kind : {"advertisement", "segment"}, hash : Resources, index : Index]

\* received maps the index of a segment to its data.
None == [state |-> "None", total |-> 0, received |-> <<>>]
new_for_receiving(r) == [state |-> "Pending", total |-> Total(r), received |-> <<>>]

Init ==
    /\ channel = [s \in Senders |-> <<>>]
    /\ burned = [s \in Senders |-> FALSE]
    /\ sends = [s \in Senders |-> 0]
    /\ messages = <<>>
    /\ incoming_resources = [r \in Resources |-> None]
    /\ stored = <<>>
    /\ sent = {}
    /\ published = {}
    /\ partial = {}
    /\ cut = {}

-----------------------------------------------------------------------------
(* Sending *)

\* The advertisement, then every segment.
Messages(r) == <<Advertisement(r)>> \o [i \in 1..Total(r) |-> Segment(r, i - 1)]

\* How many of n messages go out: all that fit, of a resource with too long segments only the
\* advertisement; or those before one whose packet the medium refuses.
Outgoing(r, n) ==
    LET fit == IF r \in TooLarge \cup Oversized THEN 1 ELSE n
    IN  IF "unsent" \in Faults THEN 0..fit ELSE {fit}

\* send_typed refuses what exceeds the mdu before it takes a sequence number.  Every other message
\* that fails has taken its number.
Burns(r, k) == k < Len(Messages(r)) /\ ~(r \in TooLarge /\ k = 1)

\* The first message that fails ends the call.  What follows a burned number on the channel, in a
\* later call, is never handed over.
send_resource(s, r) ==
    \E k \in Outgoing(r, Len(Messages(r))) :
        /\ sends[s] < MaxSends
        /\ sends' = [sends EXCEPT ![s] = @ + 1]
        /\ channel' = IF burned[s] THEN channel
                      ELSE [channel EXCEPT ![s] = @ \o SubSeq(Messages(r), 1, k)]
        /\ burned' = [burned EXCEPT ![s] = @ \/ Burns(r, k)]
        /\ sent' = sent \cup {r}
        /\ partial' = IF burned[s] \/ k < Len(Messages(r)) THEN partial \cup {r} ELSE partial
        /\ UNCHANGED <<messages, incoming_resources, stored, published, cut>>

-----------------------------------------------------------------------------
(* Receiving.  A call of handle_link_data collects the messages that one packet makes ready and *)
(* processes them one by one; the daemon does nothing else in between. *)

collect(s) ==
    /\ messages = <<>>
    /\ \E k \in 1..Len(channel[s]) :
          /\ messages' = SubSeq(channel[s], 1, k)
          /\ channel' = [channel EXCEPT ![s] = SubSeq(@, k + 1, Len(@))]
    /\ UNCHANGED <<burned, sends, incoming_resources, stored, history>>

\* An advertisement starts the transfer afresh, also when it is under way.
handle_advertisement(m) ==
    /\ m.kind = "advertisement"
    /\ incoming_resources' = [incoming_resources EXCEPT ![m.hash] = new_for_receiving(m.hash)]
    /\ messages' = Tail(messages)
    /\ UNCHANGED <<stored, published, cut>>

\* A segment of a resource that is not being received.
UnknownResource(m) ==
    /\ m.kind = "segment" /\ incoming_resources[m.hash] = None
    /\ messages' = Tail(messages)
    /\ UNCHANGED <<incoming_resources, stored, published, cut>>

\* Mutant: the highest segment is refused.
IsErrorLastRefused(entry, m) ==
    m.index + 1 >= entry.total \/ m.index \in DOMAIN entry.received

\* add_segment refuses an index out of range and one that it has.
IsError(entry, m) == m.index >= entry.total \/ m.index \in DOMAIN entry.received

\* The error leaves handle_link_data: the messages collected after this one are dropped.
RefusedSegment(m) ==
    LET entry == incoming_resources[m.hash] IN
    /\ m.kind = "segment" /\ entry # None
    /\ IsError(entry, m)
    /\ incoming_resources' = [incoming_resources EXCEPT ![m.hash].state = "Transferring"]
    /\ messages' = <<>>
    /\ cut' = cut \cup ({d.hash : d \in ToSet(messages)} \ {m.hash})
    /\ UNCHANGED <<stored, published>>

\* Mutant: complete once the highest index is there.
IsCompleteByIndex(entry, received) == entry.total - 1 \in DOMAIN received

IsComplete(entry, received) == Cardinality(DOMAIN received) = entry.total

\* The segments in the order of their index.
assemble(total, received) ==
    [i \in 1..total |-> IF i - 1 \in DOMAIN received THEN received[i - 1] ELSE <<"missing", i - 1>>]

\* A resource that is complete is forgotten by the daemon.
AfterCompletion(entry, received) == None

\* receive_segment; a complete resource is published under the one name that resources have.
AcceptedSegment(m) ==
    LET entry == incoming_resources[m.hash]
        received == [i \in DOMAIN entry.received \cup {m.index} |->
                        IF i = m.index THEN <<m.hash, m.index>> ELSE entry.received[i]]
    IN
    /\ m.kind = "segment" /\ entry # None
    /\ ~IsError(entry, m)
    /\ IF IsComplete(entry, received)
         THEN /\ incoming_resources' = [incoming_resources EXCEPT ![m.hash] =
                                           AfterCompletion(entry, received)]
              /\ stored' = assemble(entry.total, received)
              /\ published' = published \cup {<<m.hash, stored'>>}
         ELSE /\ incoming_resources' = [incoming_resources EXCEPT ![m.hash] =
                    [entry EXCEPT !.state = "Transferring", !.received = received]]
              /\ UNCHANGED <<stored, published>>
    /\ messages' = Tail(messages)
    /\ UNCHANGED cut

handle_link_data ==
    /\ messages # <<>>
    /\ LET m == Head(messages) IN
       handle_advertisement(m) \/ UnknownResource(m) \/ RefusedSegment(m) \/ AcceptedSegment(m)
    /\ UNCHANGED <<channel, burned, sends, sent, partial>>

Next ==
    \/ \E s \in Senders, r \in Resources : send_resource(s, r)
    \/ \E s \in Senders : collect(s)
    \/ handle_link_data

Spec == Init /\ [][Next]_vars

-----------------------------------------------------------------------------
(* Properties *)

\* Type invariant.
TypeOK ==
    /\ channel \in [Senders -> Seq(Message)]
    /\ burned \in [Senders -> BOOLEAN]
    /\ sends \in [Senders -> 0..MaxSends]
    /\ messages \in Seq(Message)
    /\ \A r \in Resources :
          LET entry == incoming_resources[r] IN
          /\ entry.state \in {"None", "Pending", "Transferring"}
          /\ entry.total \in 0..SegmentCount
          /\ DOMAIN entry.received \subseteq Index
    /\ sent \subseteq Resources /\ partial \subseteq Resources /\ cut \subseteq Resources

\* The data of a resource as its sender had it.
Whole(r) == [i \in 1..Total(r) |-> <<r, i - 1>>]

\* What is published is the resource as it was sent, whichever senders its segments came from
\* and however often its transfer was started afresh.  Part of it is that the state has its type.
PublishedIsWhole == TypeOK /\ \A d \in published : d[2] = Whole(d[1])

\* A resource of which no message is under way any more.
Handled(r) ==
    /\ \A s \in Senders : \A m \in ToSet(channel[s]) : m.hash # r
    /\ \A m \in ToSet(messages) : m.hash # r

\* Transfers complete: once all messages of a resource that was sent were handled it was
\* published and no transfer of it is left half done, although several senders share one entry,
\* start it afresh and repeat each other's segments, and although the sending of others failed
\* before it; unless it is empty, its own sending failed or came after a burned number, or its
\* messages were dropped by another resource's error.
TransfersComplete ==
    \A r \in sent \ (Empty \cup partial \cup cut) :
        Handled(r) => /\ incoming_resources[r] = None
                      /\ \E d \in published : d[1] = r
=============================================================================
