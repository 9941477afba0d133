------------------------------- MODULE Channel -------------------------------
(***************************************************************************)
(* One direction of rsticulum_channel::Channel (crates/channel/src/lib.rs):*)
(* the sending half of one endpoint (outgoing_seq, send_typed), the        *)
(* packets in flight, and the receiving half of the other (incoming_seq,   *)
(* reorder_buffer, ready, handlers, deliver, recv).  The other direction   *)
(* uses the other half of the same two objects and shares only the links.  *)
(*                                                                         *)
(* A payload is represented by its ordinal: the number of send_typed calls *)
(* that took a sequence number before it.  The envelope carries the u32    *)
(* sequence number, which is that ordinal modulo 2^32 (SeqMod here).       *)
(***************************************************************************)
EXTENDS Integers, Sequences, FiniteSets

CONSTANTS
    SeqMod,        \* size of the sequence number space: 2^32 in the code
    Window,        \* how far ahead a packet is buffered: 1000 in the code
    Mtu,           \* link.config().mtu: 500 by default
    PayloadSizes,  \* the payload lengths that applications send
    Encrypted,     \* TRUE when the link has a shared key
    Types,         \* message types in use: a subset of SystemMessageType
    MaxSends,      \* bound: how many sequence numbers the sender takes
    Faults         \* what the environment does: "lose", "dup", "close"

SystemMessageType == {"SMT_CHANNEL_DATA", "SMT_STREAM_DATA"}

ASSUME SeqAssumption == SeqMod \in Nat /\ Window \in Nat /\ 0 < Window /\ Window < SeqMod
ASSUME SizeAssumption == Mtu \in Nat /\ 6 < Mtu /\ PayloadSizes \subseteq Nat /\ Encrypted \in BOOLEAN
ASSUME TypesAssumption == Types \subseteq SystemMessageType
ASSUME BoundAssumption == MaxSends \in Nat
ASSUME FaultsAssumption == Faults \subseteq {"lose", "dup", "close"}

VARIABLES
    outgoing_seq,    \* sender: the next sequence number
    link,            \* [Ends -> BOOLEAN]: is that end's link Established?
    net,             \* packets in flight
    incoming_seq,    \* receiver: the next expected sequence number
    reorder_buffer,  \* receiver: sequence number -> buffered payload
    ready,           \* receiver: payloads waiting for recv()
    handlers,        \* receiver: message types with a registered handler
    nsent,           \* history: how many sequence numbers were taken
    transmitted,     \* history: payloads that link.send turned into a packet
    received,        \* history: what recv() returned, in order
    handled          \* history: payloads given to a handler

rxvars == <<incoming_seq, reorder_buffer, ready, handlers, received, handled>>
txvars == <<outgoing_seq, nsent, transmitted>>
vars == <<outgoing_seq, link, net, incoming_seq, reorder_buffer, ready, handlers,
          nsent, transmitted, received, handled>>

-----------------------------------------------------------------------------
(* u32 arithmetic and sizes *)

Ends == {"tx", "rx"}
SeqNum == 0..(SeqMod - 1)
Ordinal == 0..(MaxSends - 1)
Packet == [seq : SeqNum, type : Types, payload : Ordinal]

\* Mutant: the addition wraps one number too early.
AddWrapsEarly(a, b) == IF a + b < SeqMod - 1 THEN a + b ELSE a + b - SeqMod

wrapping_add(a, b) == IF a + b < SeqMod THEN a + b ELSE a + b - SeqMod

wrapping_sub(a, b) == IF a >= b THEN a - b ELSE a - b + SeqMod

\* The envelope adds two bytes of type and four of sequence number.
EnvelopeLen == 6

mdu == Mtu - EnvelopeLen

\* AES-CBC with PKCS7 padding, then a 32-byte HMAC: always longer than the plaintext.
encrypt_link_data_len(len) == 16 * (len \div 16 + 1) + 32

\* The length that Link::send compares with the MTU.
WireLen(len) == IF Encrypted THEN encrypt_link_data_len(len) ELSE len

LinkAccepts(len) == link["tx"] /\ WireLen(len + EnvelopeLen) <= Mtu

-----------------------------------------------------------------------------
(* Initial state: Channel::new over two links that the handshake established. *)

Init ==
    /\ outgoing_seq = 0
    /\ link = [e \in Ends |-> TRUE]
    /\ net = {}
    /\ incoming_seq = 0
    /\ reorder_buffer = <<>>
    /\ ready = <<>>
    /\ handlers = {}
    /\ nsent = 0
    /\ transmitted = {}
    /\ received = <<>>
    /\ handled = {}

-----------------------------------------------------------------------------
(* Sending *)

\* send_typed: a payload over the MDU is refused before anything changes (no step);
\* otherwise the sequence number is taken before link.send, which may still refuse.
send_typed(type, len) ==
    /\ nsent < MaxSends
    /\ len <= mdu
    /\ outgoing_seq' = wrapping_add(outgoing_seq, 1)
    /\ nsent' = nsent + 1
    /\ IF LinkAccepts(len)
         THEN /\ net' = net \cup {[seq |-> outgoing_seq, type |-> type, payload |-> nsent]}
              /\ transmitted' = transmitted \cup {nsent}
         ELSE UNCHANGED <<net, transmitted>>
    /\ UNCHANGED <<link, rxvars>>

-----------------------------------------------------------------------------
(* Receiving: what deliver does with one envelope *)

\* A type with a handler goes to the handler and bypasses the ordering state.
Dispatch(p) ==
    /\ link["rx"]
    /\ p.type \in handlers
    /\ handled' = handled \cup {p.payload}
    /\ UNCHANGED <<incoming_seq, reorder_buffer, ready>>

Ordered(p) == link["rx"] /\ p.type \notin handlers

\* The n buffered payloads that directly follow sequence number seq, and no more.
DrainLength(n, seq) ==
    /\ \A j \in 1..n : wrapping_add(seq, j) \in DOMAIN reorder_buffer
    /\ wrapping_add(seq, n + 1) \notin DOMAIN reorder_buffer

\* Mutant: the drain loop stops testing for the next number and takes whatever is buffered.
AcceptTakesAll(p) ==
    /\ Ordered(p)
    /\ p.seq = incoming_seq
    /\ LET n == Cardinality(DOMAIN reorder_buffer) IN
          /\ ready' = ready \o <<p.payload>> \o
                      [j \in 1..n |-> reorder_buffer[CHOOSE s \in DOMAIN reorder_buffer :
                          Cardinality({t \in DOMAIN reorder_buffer : t <= s}) = j]]
          /\ incoming_seq' = wrapping_add(incoming_seq, n + 1)
          /\ reorder_buffer' = <<>>
    /\ UNCHANGED handled

\* Mutant: a packet ahead of the expected one is delivered at once, skipping the gap.
AcceptSkipsGap(p) ==
    /\ Ordered(p)
    /\ p.seq >= incoming_seq
    /\ ready' = Append(ready, p.payload)
    /\ incoming_seq' = wrapping_add(p.seq, 1)
    /\ UNCHANGED <<reorder_buffer, handled>>

\* Mutant: buffered payloads are not drained when the gap closes.
AcceptWithoutDrain(p) ==
    /\ Ordered(p)
    /\ p.seq = incoming_seq
    /\ ready' = Append(ready, p.payload)
    /\ incoming_seq' = wrapping_add(p.seq, 1)
    /\ UNCHANGED <<reorder_buffer, handled>>

\* seq == incoming_seq: deliver it and everything buffered that directly follows.
Accept(p) ==
    /\ Ordered(p)
    /\ p.seq = incoming_seq
    /\ \E n \in 0..(Window - 1) :
          /\ DrainLength(n, p.seq)
          /\ ready' = ready \o <<p.payload>> \o
                      [j \in 1..n |-> reorder_buffer[wrapping_add(p.seq, j)]]
          /\ incoming_seq' = wrapping_add(p.seq, n + 1)
          /\ reorder_buffer' =
                [s \in DOMAIN reorder_buffer \ {wrapping_add(p.seq, j) : j \in 1..n}
                    |-> reorder_buffer[s]]
    /\ UNCHANGED handled

\* Mutant: the window test alone, without seq > incoming_seq.
InWindowModular(seq) ==
    seq # incoming_seq /\ wrapping_sub(seq, incoming_seq) < Window

\* seq > incoming_seq (an ordinary comparison, not a modular one) and close enough.
InWindow(seq) ==
    seq > incoming_seq /\ wrapping_sub(seq, incoming_seq) < Window

\* Out of order but within the window: HashMap::insert overwrites a duplicate.
BufferAhead(p) ==
    /\ Ordered(p)
    /\ p.seq # incoming_seq
    /\ InWindow(p.seq)
    /\ reorder_buffer' = [s \in DOMAIN reorder_buffer \cup {p.seq} |->
                            IF s = p.seq THEN p.payload ELSE reorder_buffer[s]]
    /\ UNCHANGED <<incoming_seq, ready, handled>>

\* Not established (an error), very old, or too far ahead: nothing changes.
Discard(p) ==
    /\ \/ ~link["rx"]
       \/ Ordered(p) /\ p.seq # incoming_seq /\ ~InWindow(p.seq)
    /\ UNCHANGED <<incoming_seq, reorder_buffer, ready, handled>>

\* The medium hands over a packet; a duplicating one keeps a copy in flight.
Transit(p, keep) ==
    /\ p \in net
    /\ keep => "dup" \in Faults
    /\ net' = IF keep THEN net ELSE net \ {p}

deliver(p, keep) ==
    /\ Transit(p, keep)
    /\ Dispatch(p) \/ Accept(p) \/ BufferAhead(p) \/ Discard(p)
    /\ UNCHANGED <<link, txvars, handlers, received>>

recv ==
    /\ ready # <<>>
    /\ received' = Append(received, Head(ready))
    /\ ready' = Tail(ready)
    /\ UNCHANGED <<link, net, txvars, incoming_seq, reorder_buffer, handlers, handled>>

register_handler(type) ==
    /\ handlers' = handlers \cup {type}
    /\ UNCHANGED <<link, net, txvars, incoming_seq, reorder_buffer, ready, received, handled>>

-----------------------------------------------------------------------------
(* The environment *)

Lose(p) ==
    /\ "lose" \in Faults
    /\ p \in net
    /\ net' = net \ {p}
    /\ UNCHANGED <<link, txvars, rxvars>>

\* link_mut().close() and a later handshake leave the channel's counters alone.
Relink(e) ==
    /\ "close" \in Faults
    /\ link' = [link EXCEPT ![e] = ~@]
    /\ UNCHANGED <<net, txvars, rxvars>>

Next ==
    \/ \E type \in Types, len \in PayloadSizes : send_typed(type, len)
    \/ \E p \in net, keep \in BOOLEAN : deliver(p, keep)
    \/ recv
    \/ \E type \in Types \ {"SMT_CHANNEL_DATA"} : register_handler(type)
    \/ \E p \in net : Lose(p)
    \/ \E e \in Ends : Relink(e)

Spec == Init /\ [][Next]_vars

(***************************************************************************)
(* Fairness: the daemon's loop polls every medium in every iteration and   *)
(* drains channel.recv() after each deliver, so a packet in flight is      *)
(* eventually handed over and a ready payload is eventually taken.  Nothing*)
(* obliges an application to send.                                         *)
(***************************************************************************)
FairSpec ==
    /\ Spec
    /\ WF_vars(\E p \in net : deliver(p, FALSE))
    /\ WF_vars(recv)

-----------------------------------------------------------------------------
(* Properties *)

\* Type invariant.
TypeOK ==
    /\ outgoing_seq \in SeqNum
    /\ link \in [Ends -> BOOLEAN]
    /\ net \subseteq Packet
    /\ incoming_seq \in SeqNum
    /\ DOMAIN reorder_buffer \subseteq SeqNum
    /\ \A s \in DOMAIN reorder_buffer : reorder_buffer[s] \in Ordinal
    /\ ready \in Seq(Ordinal)
    /\ handlers \subseteq Types
    /\ nsent \in 0..MaxSends
    /\ transmitted \subseteq Ordinal
    /\ received \in Seq(Ordinal)
    /\ handled \subseteq Ordinal

\* Everything ever pushed onto ready: Channel's output so far.
Delivered == received \o ready

\* Whatever the medium loses, duplicates or reorders, and whichever sends fail, the
\* payloads that deliver() puts in order are payload 0, 1, 2, ... without gap or duplicate.
InOrder == \A i \in 1..Len(Delivered) : Delivered[i] = i - 1

\* A sequence number that was taken but never transmitted (link.send failed after the counter
\* moved) stops the receiver for good: nothing from it on is ever delivered in order.
StopsAtBurnedNumber ==
    \A k \in 0..(nsent - 1) : k \notin transmitted => Len(Delivered) <= k

\* The reorder buffer holds only numbers strictly ahead of incoming_seq and inside the window,
\* so a drained or already delivered number never lingers and the buffer never holds
\* Window entries.
BufferStrictlyAhead ==
    /\ \A s \in DOMAIN reorder_buffer :
          s > incoming_seq /\ s - incoming_seq < Window
    /\ Cardinality(DOMAIN reorder_buffer) < Window

\* The inductive strengthening of InOrder, for sessions that never wrap (MaxSends < SeqMod):
\* sequence numbers are ordinals, packets carry their own number, the output so far is
\* exactly 0 .. incoming_seq - 1 and the buffer holds transmitted payloads ahead of it.
OrderInv ==
    /\ outgoing_seq = nsent
    /\ \A p \in net : p.seq = p.payload /\ p.payload \in transmitted
    /\ transmitted \subseteq 0..(nsent - 1)
    /\ incoming_seq = Len(received) + Len(ready)
    /\ 0..(incoming_seq - 1) \subseteq transmitted
    /\ \A i \in 1..Len(received) : received[i] = i - 1
    /\ \A i \in 1..Len(ready) : ready[i] = Len(received) + i - 1
    /\ \A s \in DOMAIN reorder_buffer :
          /\ reorder_buffer[s] = s
          /\ s \in transmitted
          /\ s > incoming_seq
          /\ s - incoming_seq < Window

\* The channel implements the abstract ordered delivery.
OD == INSTANCE OrderedDelivery WITH sent <- nsent, delivered <- Delivered
ImplementsOrderedDelivery == OD!Spec

\* A payload that was numbered but is neither in flight, nor buffered, nor put in order: it was
\* lost, refused by the link, given to a handler, or fell outside the window.
Missing(k) ==
    /\ k < nsent
    /\ k \notin {p.payload : p \in net}
    /\ k \notin {reorder_buffer[s] : s \in DOMAIN reorder_buffer}
    /\ k \notin {Delivered[i] : i \in 1..Len(Delivered)}

\* Every transmitted payload reaches the application, unless it or one before it is missing:
\* nothing else stops a channel, in whatever order packets arrive and the buffer is drained.
DeliveredUnlessMissing ==
    \A k \in Ordinal :
        (k \in transmitted) ~> \/ k \in {received[i] : i \in 1..Len(received)} \cup handled
                               \/ \E j \in 0..k : Missing(j)
=============================================================================
