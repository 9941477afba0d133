----------------------------- MODULE PacketLine -----------------------------
(***************************************************************************)
(* Two PacketTransports (crates/transport/src/packet_transport.rs) joined  *)
(* by a line of bytes: messages are cut into packets, packets are framed,  *)
(* the line loses or changes bytes and falls silent, a decoder looks for   *)
(* frames, and the other transport puts messages together again.  This is  *)
(* the stack of tests/integration_packet_framing.rs and                    *)
(* tests/integration_two_node_stack.rs.                                    *)
(*                                                                         *)
(* Lengths are scaled down: a fragment id is one byte (8 in the code) and  *)
(* the u16 index and total one byte each, modulo U16Mod.  Fragment ids are *)
(* random u64s in the code and never collide here.  A frame is read in one *)
(* step: the decoder runs in one thread, and what goes wrong inside a      *)
(* frame is part of the step.                                              *)
(***************************************************************************)
EXTENDS Packet, Framing, FiniteSets

CONSTANTS
    Mtu,           \* PacketTransport::with_mtu
    U16Mod,        \* 2^16 in the code
    Messages,      \* the messages that are sent, sequences of bytes
    Destination,   \* the destination_hash of every packet
    NoiseBytes,    \* what the line may turn a byte into
    MaxMessages,      \* bound: how many messages are sent
    MaxFrames,     \* bound: how many frames are transmitted
    MaxNoise,      \* bound: how many frames the line damages
    MaxNoisySends  \* bound: with how many messages sent it damages frames

FragmentHeader == 3

ASSUME MtuAssumption == Mtu \in Nat /\ Mtu > HEADER_MAXSIZE /\ FragmentHeader <= HashLen
ASSUME LineBoundAssumption == {MaxMessages, MaxFrames, MaxNoise, MaxNoisySends} \subseteq Nat

\* What is put into one byte fits into it.
ASSUME ByteAssumption ==
    /\ U16Mod \in 1..256 /\ MaxMessages \in Byte
    /\ Messages \subseteq Seq(Byte) /\ NoiseBytes \subseteq Byte
    /\ Destination \in Seq(Byte) /\ Len(Destination) = HashLen

VARIABLES
    framing,     \* the framing of the line
    sent,        \* sender: the messages that were sent
    outbound,    \* sender: [Nat -> packets]: what send_packet returned for each of them
    dec,         \* receiver: the decoder
    reassembly,  \* receiver: fragment id -> [total, fragments]
    inbound,     \* receiver: packets waiting for drain
    returned,    \* history: what recv_packet returned
    aired,       \* history: <<message, packet>> pairs transmitted since the last clear
    frames,      \* how many frames were transmitted
    noise,       \* how many of them were damaged
    sinceNoise,  \* history: undamaged frames since the last damaged one
    silence,     \* history: was the line silent since the last damage?
    last,        \* history: the last packet transmitted undamaged, if any
    decoded      \* history: the packets read from the last frame

lineVars == <<framing, sent, outbound, dec, reassembly, inbound, returned, aired,
          frames, noise, sinceNoise, silence, last, decoded>>
receiver == <<reassembly, inbound, returned>>

LineInit ==
    /\ framing \in Framings
    /\ sent = <<>> /\ outbound = <<>>
    /\ dec = NewDecoder
    /\ reassembly = <<>> /\ inbound = <<>> /\ returned = {}
    /\ aired = {} /\ frames = 0 /\ noise = 0 /\ sinceNoise = 0 /\ silence = TRUE
    /\ last = <<>> /\ decoded = <<>>

-----------------------------------------------------------------------------
(* Sending.  Messages are sent before the first frame goes out: packets wait in outbound, and the *)
(* receiver cannot tell when they were put there. *)

\* Mutant: room is kept for the short header only.
MaxPayloadShortHeader(mtu) == IF mtu > HEADER_MINSIZE THEN mtu - HEADER_MINSIZE ELSE 0

max_payload(mtu) == IF mtu > HEADER_MAXSIZE THEN mtu - HEADER_MAXSIZE ELSE 0

FragmentCount(data) == (Len(data) + max_payload(Mtu) - 1) \div max_payload(Mtu)

Chunk(data, i) ==
    LET size == max_payload(Mtu)
        end == i * size
    IN  SubSeq(data, end - size + 1, IF end < Len(data) THEN end ELSE Len(data))

\* The packets of one message: index and total are cast to u16.
Packets(id, data) ==
    IF Len(data) <= max_payload(Mtu)
      THEN <<new_data(Destination, data)>>
      ELSE [i \in 1..FragmentCount(data) |->
              [new_data(Destination,
                        <<id, (i - 1) % U16Mod, FragmentCount(data) % U16Mod>> \o Chunk(data, i))
               EXCEPT !.context = RESOURCE]]

send_packet(data) ==
    /\ Len(sent) < MaxMessages /\ frames = 0
    /\ sent' = Append(sent, data)
    /\ outbound' = Append(outbound, Packets(Len(sent'), data))
    /\ UNCHANGED <<framing, dec, receiver, aired, frames, noise, sinceNoise, silence, last, decoded>>

\* The other packets of a node, one to a message: announces, requests, proofs, transport packets.
SendOther(data) ==
    /\ sent = <<>> /\ frames = 0
    /\ Len(data) <= max_payload(Mtu)
    /\ \E p \in {new_announce(Destination, data), new_link_request(Destination, data),
                 new_proof(Destination, NONE, data), new_transport(Destination, Destination, data),
                 decrement_ttl(new_data(Destination, data))} :
          /\ sent' = Append(sent, data)
          /\ outbound' = Append(outbound, <<p>>)
    /\ UNCHANGED <<framing, dec, receiver, aired, frames, noise, sinceNoise, silence, last, decoded>>

-----------------------------------------------------------------------------
(* Receiving.  rx is a record of the receiver's fields. *)

\* Mutant: one fragment more than there are is waited for.
CompleteLate(fragments, total) == Cardinality(DOMAIN fragments) > total

Complete(fragments, total) == Cardinality(DOMAIN fragments) = total

\* Mutant: the fragments are put together from the last to the first.
AssembleReversed(fragments, total) == FlattenSeq([i \in 1..total |-> fragments[total - i]])

Assemble(fragments, total) == FlattenSeq([i \in 1..total |-> fragments[i - 1]])

\* Fragments are taken out from index 0 on; at a gap the error leaves the others in the buffer.
AfterGap(fragments, total) ==
    LET gap == CHOOSE i \in 0..(total - 1) :
                  i \notin DOMAIN fragments /\ \A j \in 0..(i - 1) : j \in DOMAIN fragments
    IN  [i \in {j \in DOMAIN fragments : j > gap} |-> fragments[i]]

reassemble_fragment(rx, p) ==
    IF Len(p.data) < FragmentHeader THEN rx
    ELSE LET id == p.data[1]
             index == p.data[2]
             total == p.data[3]
             chunk == SubSeq(p.data, FragmentHeader + 1, Len(p.data))
             buf == IF id \in DOMAIN rx.reassembly THEN rx.reassembly[id]
                    ELSE [total |-> total, fragments |-> <<>>]
             fragments == [i \in DOMAIN buf.fragments \cup {index} |->
                             IF i = index THEN chunk ELSE buf.fragments[i]]
             Kept(f) == [i \in DOMAIN rx.reassembly \cup {id} |->
                             IF i = id THEN [total |-> total, fragments |-> f] ELSE rx.reassembly[i]]
         IN  IF buf.total # total THEN rx
             ELSE IF ~Complete(fragments, total)
               THEN [rx EXCEPT !.reassembly = Kept(fragments)]
             ELSE IF \E i \in 0..(total - 1) : i \notin DOMAIN fragments
               THEN [rx EXCEPT !.reassembly = Kept(AfterGap(fragments, total))]
             ELSE [rx EXCEPT !.reassembly = [i \in DOMAIN @ \ {id} |-> @[i]],
                             !.returned = @ \cup {Assemble(fragments, total)}]

recv_packet(rx, p) ==
    IF p.context = RESOURCE
      THEN reassemble_fragment(rx, p)
      ELSE [rx EXCEPT !.inbound = Append(@, p), !.returned = @ \cup {p.data}]

\* One packet after the other.
recv_packets(rx, packets) ==
    LET after[i \in 0..Len(packets)] ==
          IF i = 0 THEN rx ELSE recv_packet(after[i - 1], packets[i])
    IN  after[Len(packets)]

\* What a node does with the frames of the decoder: parse, then recv_packet.
Read(fs) == FlattenSeq([i \in DOMAIN fs |-> from_bytes(fs[i])])

drain ==
    /\ inbound # <<>>
    /\ inbound' = <<>>
    /\ UNCHANGED <<framing, sent, outbound, dec, reassembly, returned, aired,
                   frames, noise, sinceNoise, silence, last, decoded>>

clear ==
    /\ inbound # <<>> \/ reassembly # <<>>
    /\ inbound' = <<>> /\ reassembly' = <<>> /\ aired' = {}
    /\ UNCHANGED <<framing, sent, outbound, dec, returned,
                   frames, noise, sinceNoise, silence, last, decoded>>

-----------------------------------------------------------------------------
(* The line *)

Damaged(bytes) ==
    {RemoveAt(bytes, i) : i \in DOMAIN bytes} \cup
    {ReplaceAt(bytes, i, b) : i \in DOMAIN bytes, b \in NoiseBytes}

\* The bytes arrive; the decoder and the transport process them.
Arrive(bytes) ==
    LET r == FeedAll(framing, dec, bytes)
        packets == Read(r.out)
        rx == recv_packets([reassembly |-> reassembly, inbound |-> inbound, returned |-> returned],
                           packets)
    IN  /\ dec' = r.dec
        /\ reassembly' = rx.reassembly /\ inbound' = rx.inbound /\ returned' = rx.returned
        /\ decoded' = packets
        /\ frames' = frames + 1
        /\ UNCHANGED <<framing, sent, outbound>>

Transmit(m, i) ==
    /\ frames < MaxFrames
    /\ Arrive(encode(framing, to_bytes(outbound[m][i])))
    /\ aired' = aired \cup {<<m, i>>}
    /\ sinceNoise' = sinceNoise + 1
    /\ last' = <<outbound[m][i]>>
    /\ UNCHANGED <<noise, silence>>

TransmitDamaged(m, i) ==
    /\ frames < MaxFrames /\ noise < MaxNoise /\ Len(sent) <= MaxNoisySends
    /\ \E bytes \in Damaged(encode(framing, to_bytes(outbound[m][i]))) : Arrive(bytes)
    /\ noise' = noise + 1 /\ sinceNoise' = 0 /\ silence' = FALSE /\ last' = <<>>
    /\ UNCHANGED aired

\* serial.rs resets the decoder when nothing arrived for FRAME_TIMEOUT_MS; the others wait on.
Reset(d) == IF framing = "serial" THEN NewDecoder ELSE d

Silence ==
    /\ ~silence
    /\ dec' = Reset(dec) /\ silence' = TRUE
    /\ last' = <<>> /\ decoded' = <<>>
    /\ UNCHANGED <<framing, sent, outbound, receiver, aired, frames, noise, sinceNoise>>

LineNext ==
    \/ \E data \in Messages : send_packet(data)
    \/ \E data \in Messages : SendOther(data)
    \/ \E m \in DOMAIN outbound : \E i \in DOMAIN outbound[m] : Transmit(m, i)
    \/ \E m \in DOMAIN outbound : \E i \in DOMAIN outbound[m] : TransmitDamaged(m, i)
    \/ Silence
    \/ drain
    \/ clear

LineSpec == LineInit /\ [][LineNext]_lineVars

-----------------------------------------------------------------------------
(* Properties *)

Bytes(s) == \A i \in DOMAIN s : s[i] \in Byte

\* Type invariant.
LineTypeOK ==
    /\ framing \in Framings
    /\ DOMAIN outbound = DOMAIN sent
    /\ dec.in_frame \in BOOLEAN /\ dec.escape \in BOOLEAN /\ Bytes(dec.buf)
    /\ dec.command \in Byte \cup {NoCommand}
    /\ \A id \in DOMAIN reassembly : \A i \in DOMAIN reassembly[id].fragments :
          id \in Byte /\ i \in Byte /\ Bytes(reassembly[id].fragments[i])
    /\ \A p \in Range(inbound) : Bytes(p.data)
    /\ frames \in 0..MaxFrames /\ noise \in 0..MaxNoise

\* Every packet of every message, fragment header and all, fits the MTU: max_payload keeps room
\* for the long header that these packets do not have, and the fragment header uses it.
FitsMtu ==
    \A m \in DOMAIN outbound : \A i \in DOMAIN outbound[m] : Len(to_bytes(outbound[m][i])) <= Mtu

\* A frame that arrives undamaged on a line that was never damaged is read as the packet that was
\* sent and as nothing else, whatever bytes its payload contains and however frames follow; and
\* hdlc_decode of serial.rs, which takes a whole buffer, reads the same packets.
CleanFramesDecoded ==
    /\ noise = 0 => decoded = last
    /\ \A p \in Range(last) : hdlc_decode(encode("serial", to_bytes(p))) = <<to_bytes(p)>>

\* After damage the HDLC decoder of hdlc.rs is in step again with the second undamaged frame at
\* the latest, and the one of serial.rs with the first frame after a silent line.
Resynchronises ==
    (/\ noise > 0
     /\ \/ framing = "hdlc" /\ sinceNoise >= 2
        \/ framing = "serial" /\ silence /\ sinceNoise >= 1)
    => decoded = last

\* A message whose fragments a u16 cannot count.
Long(data) == FragmentCount(data) >= U16Mod

\* On an undamaged line every message that recv_packet returns was sent, in whatever order and how
\* often the fragments of several messages arrive - unless it is a piece of a message with more
\* fragments than a u16 counts.  Part of it is that the state has its type.
WholeMessages ==
    /\ LineTypeOK
    /\ noise = 0 =>
          \A r \in returned : \E s \in Range(sent) :
              r = s \/ (Long(s) /\ Len(r) < Len(s) /\ Range(r) \subseteq Range(s))

\* A message all of whose packets arrived since the last clear was returned.
Reassembles ==
    noise = 0 =>
        \A m \in DOMAIN outbound :
            (~Long(sent[m]) /\ \A i \in DOMAIN outbound[m] : <<m, i>> \in aired)
            => sent[m] \in returned
=============================================================================
