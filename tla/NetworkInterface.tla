-------------------------- MODULE NetworkInterface --------------------------
(***************************************************************************)
(* What the interfaces of crates/interface share: the NetworkInterface     *)
(* trait (lib.rs) and the bounded mpsc channel through which a reader      *)
(* hands decoded frames to receive.  The methods take &mut self: while one *)
(* is pending no other runs.  The errors AlreadyOnline and NotOnline, and  *)
(* Ok(None), change nothing and are not steps.                             *)
(***************************************************************************)
EXTENDS Naturals, Sequences

CONSTANTS
    Kinds,       \* the implementations looked at
    Capacity,    \* CHANNEL_CAPACITY: 256 in the code
    MaxStarts,   \* bound: how often start succeeds
    MaxSends     \* bound: how many frames send writes

ASSUME KindAssumption == Kinds \subseteq {"tcp_client", "tcp_server", "serial"}
ASSUME CapacityAssumption == Capacity \in Nat \ {0}
ASSUME BoundAssumption == {MaxStarts, MaxSends} \subseteq Nat

VARIABLES
    kind,       \* the implementation behind the trait object
    online,     \* self.online
    session,    \* how often the interface was started
    rx,         \* the channel of this session
    sends,      \* frames that send wrote
    received,   \* history: [session, frame] for every frame that receive returned
    lost        \* history: receive returned ConnectionLost in this session

object == <<kind, online, session, rx, sends, received, lost>>

Sessions == 1..MaxStarts
\* The n-th frame that a peer writes.
Payload(n) == <<n, n>>

InterfaceInit ==
    /\ kind \in Kinds
    /\ online = FALSE /\ session = 0 /\ rx = <<>> /\ sends = 0
    /\ received = <<>> /\ lost = FALSE

\* A start that succeeds: a new channel, whatever was left in the old one.
Started ==
    /\ ~online /\ session < MaxStarts
    /\ online' = TRUE /\ session' = session + 1 /\ rx' = <<>> /\ lost' = FALSE
    /\ UNCHANGED <<kind, sends, received>>

\* The end of a shutdown: the channel is drained.
Stopped ==
    /\ online' = FALSE /\ rx' = <<>>
    /\ UNCHANGED <<kind, session, sends, received, lost>>

\* receive returns a frame.
ReceiveFrame ==
    /\ online /\ rx # <<>>
    /\ received' = Append(received, [session |-> session, frame |-> Head(rx)])
    /\ rx' = Tail(rx)
    /\ UNCHANGED <<kind, online, session, sends, lost>>

\* receive returns ConnectionLost: the channel is empty and every sender is gone.
ReceiveLost(gone) ==
    /\ online /\ rx = <<>> /\ gone /\ ~lost
    /\ lost' = TRUE
    /\ UNCHANGED <<kind, online, session, rx, sends, received>>

\* tx.send: waits while the channel is full.
Enqueue(data) ==
    /\ Len(rx) < Capacity
    /\ rx' = Append(rx, data)
    /\ UNCHANGED <<kind, online, session, sends, received, lost>>

\* send writes one frame.
Written ==
    /\ online /\ sends < MaxSends
    /\ sends' = sends + 1
    /\ UNCHANGED <<kind, online, session, rx, received, lost>>
=============================================================================
