--------------------------- MODULE SuspendableLink ---------------------------
(***************************************************************************)
(* Two ends of a SuspendableLink (crates/transport/src/suspendable.rs) and *)
(* the medium between them: the state machine, the session file, messages  *)
(* held while the link is down, and process restarts.                      *)
(*                                                                         *)
(* Both ends compute the same transport id, and the static session key of  *)
(* a pair of identities never changes, so neither appears.  A proof is a   *)
(* signature over the transport id: it is represented by its signer, and   *)
(* carries nothing that tells one handshake from another.                  *)
(***************************************************************************)
EXTENDS Naturals, Sequences, SequencesExt

CONSTANTS
    Stored,        \* the ends whose storage_path is set
    MaxMsgs,       \* bound: how many messages the application of an end sends
    Senders,       \* the ends whose applications send
    BigSenders,    \* the ends whose last message exceeds the MTU once encrypted
    Faults         \* what happens: "lose", "dup", "restart", "close"

ASSUME SuspendableAssumption ==
    /\ MaxMsgs \in Nat
    /\ Stored \subseteq {"a", "b"} /\ Senders \subseteq {"a", "b"}
    /\ BigSenders \subseteq {"a", "b"}
    /\ Faults \subseteq {"lose", "dup", "restart", "close"}

VARIABLES
    state,          \* [Ends -> State]
    derived_key,    \* [Ends -> BOOLEAN]: is there a session key in memory?
    held_outbound,  \* [Ends -> Seq(Msg)]
    inbound,        \* [Ends -> Seq(Msg)]
    disk,           \* [Ends -> Session]: the session file
    net,            \* packets in flight
    nsent,          \* [Ends -> 0..MaxMsgs]: messages given to send so far
    accepted,       \* history: [Ends -> SUBSET Msg]: messages for which send returned Ok
    discarded,      \* history: [Ends -> SUBSET Msg]: held when the link was closed or the process ended
    transmitted,    \* history: [Ends -> Seq(Msg)]: messages made into packets
    proved          \* history: the ends that ever sent a proof

history == <<accepted, discarded, transmitted, proved>>
vars == <<state, derived_key, held_outbound, inbound, disk, net, nsent,
          accepted, discarded, transmitted, proved>>

Ends == {"a", "b"}
Peer(n) == CHOOSE m \in Ends : m # n
State == {"Closed", "Handshaking", "Active", "Suspended"}
Msg == 1..MaxMsgs
Big(n, m) == n \in BigSenders /\ m = MaxMsgs

\* No file; otherwise the SuspendedSession's held_messages and whether it has a key.
NoSession == [present |-> FALSE, held |-> <<>>, key |-> FALSE]

Proof(n) == [type |-> "PROOF", from |-> n, msg |-> 0]
Data(n, m) == [type |-> "DATA", from |-> n, msg |-> m]
Packet == [type : {"PROOF", "DATA"}, from : Ends, msg : 0..MaxMsgs]

Init ==
    /\ state = [n \in Ends |-> "Closed"]
    /\ derived_key = [n \in Ends |-> FALSE]
    /\ held_outbound = [n \in Ends |-> <<>>]
    /\ inbound = [n \in Ends |-> <<>>]
    /\ disk = [n \in Ends |-> NoSession]
    /\ net = {}
    /\ nsent = [n \in Ends |-> 0]
    /\ accepted = [n \in Ends |-> {}]
    /\ discarded = [n \in Ends |-> {}]
    /\ transmitted = [n \in Ends |-> <<>>]
    /\ proved = {}

-----------------------------------------------------------------------------
(* Lifecycle *)

\* From every state but Active.
establish(n) ==
    /\ state[n] # "Active"
    /\ state' = [state EXCEPT ![n] = "Handshaking"]
    /\ net' = net \cup {Proof(n)}
    /\ proved' = proved \cup {n}
    /\ UNCHANGED <<derived_key, held_outbound, inbound, disk, nsent, accepted, discarded, transmitted>>

\* Mutant: the proof is checked for being a proof, not for its signer.
VerifiesAnyProof(n, p) == p.type = "PROOF"

\* verify_proof_external with the remote's identity key.
Verifies(n, p) == p.type = "PROOF" /\ p.from = Peer(n)

complete_handshake(n, p) ==
    /\ state[n] = "Handshaking"
    /\ Verifies(n, p)
    /\ derived_key' = [derived_key EXCEPT ![n] = TRUE]
    /\ state' = [state EXCEPT ![n] = "Active"]
    /\ UNCHANGED <<held_outbound, inbound, disk, nsent, history>>

\* The session is written to the file before the state changes.
suspend(n) ==
    /\ state[n] = "Active"
    /\ disk' = IF n \in Stored
                 THEN [disk EXCEPT ![n] = [present |-> TRUE, held |-> held_outbound[n],
                                           key |-> derived_key[n]]]
                 ELSE disk
    /\ state' = [state EXCEPT ![n] = "Suspended"]
    /\ UNCHANGED <<derived_key, held_outbound, inbound, net, nsent, history>>

\* suspend is what handles Active and Handshaking, and it refuses Handshaking: no step there.
handle_disconnect(n) == state[n] \in {"Active", "Handshaking"} /\ suspend(n)

\* The held messages come from the file when there is one.
resume(n) ==
    /\ state[n] = "Suspended"
    /\ held_outbound' = [held_outbound EXCEPT ![n] = IF disk[n].present THEN disk[n].held ELSE @]
    /\ derived_key' = [derived_key EXCEPT ![n] = @ \/ disk[n].key]
    /\ state' = [state EXCEPT ![n] = "Handshaking"]
    /\ UNCHANGED <<inbound, disk, net, nsent, history>>

close(n) ==
    /\ "close" \in Faults
    /\ state' = [state EXCEPT ![n] = "Closed"]
    /\ inbound' = [inbound EXCEPT ![n] = <<>>]
    /\ discarded' = [discarded EXCEPT ![n] = @ \cup ToSet(held_outbound[n])]
    /\ held_outbound' = [held_outbound EXCEPT ![n] = <<>>]
    /\ derived_key' = [derived_key EXCEPT ![n] = FALSE]
    /\ disk' = [disk EXCEPT ![n] = NoSession]
    /\ UNCHANGED <<net, nsent, accepted, transmitted, proved>>

\* The process ends and a new one calls with_config_and_storage on the same path.
restart(n) ==
    /\ "restart" \in Faults
    /\ discarded' = [discarded EXCEPT ![n] = @ \cup ToSet(held_outbound[n])]
    /\ state' = [state EXCEPT ![n] = "Closed"]
    /\ derived_key' = [derived_key EXCEPT ![n] = FALSE]
    /\ held_outbound' = [held_outbound EXCEPT ![n] = <<>>]
    /\ inbound' = [inbound EXCEPT ![n] = <<>>]
    /\ UNCHANGED <<disk, net, nsent, accepted, transmitted, proved>>

-----------------------------------------------------------------------------
(* Data *)

\* Active: the message becomes a packet, unless it is too big (an error).
SendNow(n, m) ==
    /\ state[n] = "Active"
    /\ IF Big(n, m)
         THEN UNCHANGED <<net, accepted, transmitted>>
         ELSE /\ net' = net \cup {Data(n, m)}
              /\ accepted' = [accepted EXCEPT ![n] = @ \cup {m}]
              /\ transmitted' = [transmitted EXCEPT ![n] = Append(@, m)]
    /\ UNCHANGED held_outbound

\* Mutant: a message sent during the handshake is accepted and forgotten.
HoldOnlySuspended(n, m) ==
    /\ state[n] \in {"Suspended", "Handshaking"}
    /\ held_outbound' = IF state[n] = "Suspended"
                          THEN [held_outbound EXCEPT ![n] = Append(@, m)] ELSE held_outbound
    /\ accepted' = [accepted EXCEPT ![n] = @ \cup {m}]
    /\ UNCHANGED <<net, transmitted>>

\* Suspended or Handshaking: the message is held, whatever its size.
Hold(n, m) ==
    /\ state[n] \in {"Suspended", "Handshaking"}
    /\ held_outbound' = [held_outbound EXCEPT ![n] = Append(@, m)]
    /\ accepted' = [accepted EXCEPT ![n] = @ \cup {m}]
    /\ UNCHANGED <<net, transmitted>>

\* The n-th message of an application; on a Closed link send is an error and no step.
send(n) ==
    /\ nsent[n] < MaxMsgs
    /\ nsent' = [nsent EXCEPT ![n] = @ + 1]
    /\ SendNow(n, nsent[n] + 1) \/ Hold(n, nsent[n] + 1)
    /\ UNCHANGED <<state, derived_key, inbound, disk, discarded, proved>>

\* Mutant: the held messages are copied and not drained.
ReplayWithoutDrain(n) ==
    /\ state[n] = "Active"
    /\ held_outbound[n] # <<>>
    /\ net' = net \cup {Data(n, m) : m \in ToSet(held_outbound[n])}
    /\ transmitted' = [transmitted EXCEPT ![n] = @ \o held_outbound[n]]
    /\ UNCHANGED <<state, derived_key, held_outbound, inbound, disk, nsent, accepted, discarded, proved>>

\* The held messages are drained first; one that is too big fails the whole call, and the
\* packets already made for the others are dropped with it.
replay_held(n) ==
    /\ state[n] = "Active"
    /\ held_outbound[n] # <<>>
    /\ held_outbound' = [held_outbound EXCEPT ![n] = <<>>]
    /\ IF \A m \in ToSet(held_outbound[n]) : ~Big(n, m)
         THEN /\ net' = net \cup {Data(n, m) : m \in ToSet(held_outbound[n])}
              /\ transmitted' = [transmitted EXCEPT ![n] = @ \o held_outbound[n]]
         ELSE UNCHANGED <<net, transmitted>>
    /\ UNCHANGED <<state, derived_key, inbound, disk, nsent, accepted, discarded, proved>>

\* On a link that is not Active a DATA packet is an error: it is lost.
deliver(n, p) ==
    /\ p.type = "DATA"
    /\ inbound' = IF state[n] = "Active" THEN [inbound EXCEPT ![n] = Append(@, p.msg)] ELSE inbound
    /\ UNCHANGED <<state, derived_key, held_outbound, disk, nsent, history>>

recv(n) ==
    /\ inbound[n] # <<>>
    /\ inbound' = [inbound EXCEPT ![n] = Tail(@)]
    /\ UNCHANGED <<state, derived_key, held_outbound, disk, net, nsent, history>>

-----------------------------------------------------------------------------
(* The medium *)

\* A proof that does not verify, or that no handshake waits for, changes nothing.
RejectedProof(n, p) ==
    /\ p.type = "PROOF"
    /\ ~(state[n] = "Handshaking" /\ Verifies(n, p))
    /\ UNCHANGED <<state, derived_key, held_outbound, inbound, disk, nsent, history>>

\* A packet reaches the other end.  A duplicating medium keeps a copy (bound: MaxMsgs messages
\* wait in inbound) and may also hand a proof back to the end that made it.
Receive(p, n, keep) ==
    /\ n = p.from => "dup" \in Faults /\ p.type = "PROOF"
    /\ keep => "dup" \in Faults /\ Len(inbound[n]) < MaxMsgs
    /\ complete_handshake(n, p) \/ RejectedProof(n, p) \/ deliver(n, p)
    /\ net' = IF keep THEN net ELSE net \ {p}

Lose(p) ==
    /\ "lose" \in Faults
    /\ net' = net \ {p}
    /\ UNCHANGED <<state, derived_key, held_outbound, inbound, disk, nsent, history>>

Next ==
    \/ \E n \in Ends : establish(n) \/ handle_disconnect(n) \/ resume(n) \/ close(n) \/ restart(n)
    \/ \E n \in Senders : send(n) \/ replay_held(n)
    \/ \E n \in Ends : recv(n)
    \/ \E p \in net, n \in Ends, keep \in BOOLEAN : Receive(p, n, keep)
    \/ \E p \in net : Lose(p)

Spec == Init /\ [][Next]_vars

-----------------------------------------------------------------------------
(* Properties *)

\* Type invariant.
TypeOK ==
    /\ state \in [Ends -> State]
    /\ derived_key \in [Ends -> BOOLEAN]
    /\ held_outbound \in [Ends -> Seq(Msg)]
    /\ inbound \in [Ends -> Seq(Msg)]
    /\ disk \in [Ends -> [present : BOOLEAN, held : Seq(Msg), key : BOOLEAN]]
    /\ net \subseteq Packet
    /\ nsent \in [Ends -> 0..MaxMsgs]
    /\ accepted \in [Ends -> SUBSET Msg]
    /\ discarded \in [Ends -> SUBSET Msg]
    /\ transmitted \in [Ends -> Seq(Msg)]
    /\ proved \subseteq Ends

\* No message is made into a packet twice, however often the link is suspended, restored from
\* a session file that still lists held messages, or the process restarted.  Part of it is that the
\* state has its type.
TransmittedOnce == TypeOK /\ \A n \in Ends : IsInjective(transmitted[n])

\* A link is Active only if the peer took part: proofs reflected or repeated by the medium
\* do not complete a handshake with a peer that never sent one.
ActiveNeedsPeer == \A n \in Ends : state[n] = "Active" => Peer(n) \in proved

\* Where no session file is used and no message is too big, a message that send accepted has
\* been transmitted, is still held, or was held when the link was closed or the process ended:
\* suspending and resuming, disconnects and repeated handshakes lose none.
AcceptedIsKept ==
    \A n \in Ends \ (Stored \cup BigSenders) :
        accepted[n] \subseteq ToSet(transmitted[n]) \cup ToSet(held_outbound[n]) \cup discarded[n]
=============================================================================
