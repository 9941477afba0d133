------------------------------- MODULE Packet -------------------------------
(***************************************************************************)
(* The RNS packet and its wire format (crates/packet/src/packet.rs).  A    *)
(* packet on the wire is a sequence of bytes; a field that is an Option is *)
(* a sequence of at most one value, and from_bytes returns a sequence that *)
(* holds the packet or nothing.                                            *)
(***************************************************************************)
EXTENDS Naturals, Sequences

CONSTANT HashLen   \* HASH_LENGTH: 16 in the code

ASSUME HashAssumption == HashLen \in Nat \ {0}

DATA == 0
ANNOUNCE == 1
LINKREQUEST == 2
PROOF_TYPE == 3
HEADER_1 == 0
HEADER_2 == 1
NONE == 0
RESOURCE == 1
MAX_HOPS == 64

HEADER_MINSIZE == 2 + HashLen + 1
HEADER_MAXSIZE == 2 + 2 * HashLen + 1

pack_flags(header, context, transport, destination, type) ==
    64 * (header % 4) + 32 * (context % 2) + 16 * (transport % 2) + 4 * (destination % 4) + (type % 4)

unpack_flags(flags) ==
    [header_type |-> (flags \div 64) % 4, context_flag |-> (flags \div 32) % 2,
     transport_type |-> (flags \div 16) % 2, destination_type |-> (flags \div 4) % 4,
     packet_type |-> flags % 4]

-----------------------------------------------------------------------------
(* Constructors.  Link packets are DATA packets whose destination_type is set to DEST_LINK. *)

NewPacket(header, flag, transport, type, hops, destination, id, context, data) ==
    [header_type |-> header, context_flag |-> flag, transport_type |-> transport,
     destination_type |-> 0, packet_type |-> type, hops |-> hops,
     destination_hash |-> destination, transport_id |-> id, context |-> context, data |-> data]

new_data(destination, data) ==
    NewPacket(HEADER_1, 0, 0, DATA, MAX_HOPS, destination, <<>>, NONE, data)
new_announce(destination, data) ==
    NewPacket(HEADER_1, 1, 0, ANNOUNCE, 1, destination, <<>>, NONE, data)
new_link_request(destination, data) ==
    NewPacket(HEADER_1, 0, 0, LINKREQUEST, MAX_HOPS, destination, <<>>, NONE, data)
new_proof(destination, context, data) ==
    NewPacket(HEADER_1, 1, 1, PROOF_TYPE, MAX_HOPS, destination, <<>>, context, data)
new_transport(destination, id, data) ==
    NewPacket(HEADER_2, 0, 1, DATA, MAX_HOPS, destination, <<id>>, NONE, data)

decrement_ttl(p) == [p EXCEPT !.hops = IF @ > 0 THEN @ - 1 ELSE 0]

-----------------------------------------------------------------------------
(* Wire format *)

to_bytes(p) ==
    <<pack_flags(p.header_type, p.context_flag, p.transport_type, p.destination_type, p.packet_type),
      p.hops>>
    \o (IF p.header_type = HEADER_2 /\ p.transport_id # <<>> THEN p.transport_id[1] ELSE <<>>)
    \o p.destination_hash \o <<p.context>> \o p.data

\* Every header type but HEADER_2 is read as HEADER_1.
from_bytes(bytes) ==
    IF Len(bytes) < 3 THEN <<>>
    ELSE LET flags == unpack_flags(bytes[1])
             ids == IF flags.header_type = HEADER_2 THEN 1 ELSE 0
             pos == 2 + ids * HashLen
         IN  IF Len(bytes) < pos + HashLen + 1 THEN <<>>
             ELSE <<[header_type |-> flags.header_type, context_flag |-> flags.context_flag,
                     transport_type |-> flags.transport_type,
                     destination_type |-> flags.destination_type,
                     packet_type |-> flags.packet_type, hops |-> bytes[2],
                     destination_hash |-> SubSeq(bytes, pos + 1, pos + HashLen),
                     transport_id |-> IF ids = 1 THEN <<SubSeq(bytes, 3, pos)>> ELSE <<>>,
                     context |-> bytes[pos + HashLen + 1],
                     data |-> SubSeq(bytes, pos + HashLen + 2, Len(bytes))]>>
=============================================================================
