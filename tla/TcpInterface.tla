---------------------------- MODULE TcpInterface ----------------------------
(***************************************************************************)
(* TcpClientInterface and TcpServerInterface (crates/interface/src/tcp.rs):*)
(* read tasks, the accept task, and shutdown, which waits for the task.    *)
(* Client session s uses connection s; a server accepts the connections of *)
(* its peers.  TCP carries bytes reliably, and each read task has a KISS   *)
(* decoder of its own, so a connection carries whole frames: a frame that  *)
(* is cut by the end of the connection is dropped with the decoder.        *)
(***************************************************************************)
EXTENDS NetworkInterface

CONSTANTS
    MaxConns,    \* bound: how many connections there are
    MaxWrites,   \* bound: how many frames the peers write
    Oversized    \* the frames, by number, that exceed MAX_FRAME_SIZE

ASSUME ConnAssumption == {MaxConns, MaxWrites} \subseteq Nat /\ MaxStarts <= MaxConns

VARIABLES
    awaiting,   \* shutdown is waiting for the read or accept task
    accept,     \* the accept task: "none", "running", "joining", "ended"
    signalled,  \* the accept task was sent the shutdown signal
    conn,       \* [Conns -> {"none", "open", "eof", "closed"}]
    wire,       \* [Conns -> Seq(frame numbers)]: written by the peer and not read
    task,       \* [Conns -> {"none", "running", "ended"}]: the read task
    stop,       \* [Conns -> BOOLEAN]: its shutdown_rx is ready
    batch,      \* [Conns -> Seq(frame numbers)]: frames of the last read not handed on
    writes,     \* how many frames the peers wrote: the next one has the next number
    written     \* history: [Conns -> set of the frame numbers written so far]

tcp == <<awaiting, accept, signalled, conn, wire, task, stop, batch, writes, written>>

Conns == 1..MaxConns

TcpInit ==
    /\ awaiting = FALSE /\ accept = "none" /\ signalled = FALSE
    /\ conn = [c \in Conns |-> "none"]
    /\ wire = [c \in Conns |-> <<>>]
    /\ task = [c \in Conns |-> "none"]
    /\ stop = [c \in Conns |-> FALSE]
    /\ batch = [c \in Conns |-> <<>>]
    /\ writes = 0
    /\ written = [c \in Conns |-> {}]

-----------------------------------------------------------------------------
(* The read task of a connection: spawn_read_loop, for the client and for every peer of a server *)

\* The end of the task drops its half of the stream; a server has dropped the other half already.
Ended(c) ==
    /\ task' = [task EXCEPT ![c] = "ended"]
    /\ conn' = IF kind = "tcp_server" THEN [conn EXCEPT ![c] = "closed"] ELSE conn
    /\ UNCHANGED <<object, awaiting, accept, signalled, wire, stop, batch, writes, written>>

\* select!: whichever of the ready branches; the loop looks at shutdown_rx between reads only.
LoopStops(c) == task[c] = "running" /\ batch[c] = <<>> /\ stop[c] /\ Ended(c)

LoopReads(c) ==
    /\ task[c] = "running" /\ batch[c] = <<>>
    /\ \E n \in 1..Len(wire[c]) :
          /\ batch' = [batch EXCEPT ![c] = SubSeq(wire[c], 1, n)]
          /\ wire' = [wire EXCEPT ![c] = SubSeq(@, n + 1, Len(@))]
    /\ UNCHANGED <<object, awaiting, accept, signalled, conn, task, stop, writes, written>>

\* Mutant: a frame for which there is no room is dropped.
LoopPushesOrDrops(c) ==
    /\ task[c] = "running" /\ batch[c] # <<>>
    /\ batch' = [batch EXCEPT ![c] = Tail(@)]
    /\ IF Head(batch[c]) \in Oversized \/ Len(rx) = Capacity THEN UNCHANGED object ELSE Enqueue(Payload(Head(batch[c])))
    /\ UNCHANGED <<awaiting, accept, signalled, conn, wire, task, stop, writes, written>>

\* The frames of a read go to the channel one by one; an oversized one is dropped.
LoopPushes(c) ==
    /\ task[c] = "running" /\ batch[c] # <<>>
    /\ batch' = [batch EXCEPT ![c] = Tail(@)]
    /\ IF Head(batch[c]) \in Oversized THEN UNCHANGED object ELSE Enqueue(Payload(Head(batch[c])))
    /\ UNCHANGED <<awaiting, accept, signalled, conn, wire, task, stop, writes, written>>

\* Ok(0) or an error.
LoopDisconnects(c) ==
    /\ task[c] = "running" /\ batch[c] = <<>> /\ wire[c] = <<>> /\ conn[c] = "eof"
    /\ Ended(c)

ReadLoop(c) == LoopStops(c) \/ LoopReads(c) \/ LoopPushes(c) \/ LoopDisconnects(c)

-----------------------------------------------------------------------------
(* The client *)

\* connect succeeded (a failure changes nothing); the read task runs.
ClientStart ==
    /\ kind = "tcp_client" /\ Started
    /\ conn' = [conn EXCEPT ![session'] = "open"]
    /\ task' = [task EXCEPT ![session'] = "running"]
    /\ UNCHANGED <<awaiting, accept, signalled, wire, stop, batch, writes, written>>

\* shutdown up to handle.await.
ClientShutdown ==
    /\ kind = "tcp_client" /\ online /\ ~awaiting
    /\ awaiting' = TRUE
    /\ stop' = [stop EXCEPT ![session] = TRUE]
    /\ UNCHANGED <<object, accept, signalled, conn, wire, task, batch, writes, written>>

\* ... and from there on: drain, close the writer.
ClientShutdownEnds ==
    /\ kind = "tcp_client" /\ awaiting /\ task[session] = "ended"
    /\ Stopped
    /\ awaiting' = FALSE
    /\ conn' = [conn EXCEPT ![session] = "closed"]
    /\ UNCHANGED <<accept, signalled, wire, task, stop, batch, writes, written>>

\* The writer is there as long as the client is online.
ClientSend ==
    /\ kind = "tcp_client" /\ ~awaiting /\ Written
    /\ conn[session] = "open"
    /\ UNCHANGED tcp

-----------------------------------------------------------------------------
(* The server.  Its send returns Ok and does nothing. *)

ServerStart ==
    /\ kind = "tcp_server" /\ Started
    /\ accept' = "running" /\ signalled' = FALSE
    /\ UNCHANGED <<awaiting, conn, wire, task, stop, batch, writes, written>>

\* The sending half of the new task's shutdown channel is dropped at once, so shutdown_rx is
\* ready from the beginning and the task may stop before its first read.
ServerAccepts(c) ==
    /\ kind = "tcp_server" /\ accept = "running"
    /\ conn[c] = "none" /\ \A d \in 1..(c - 1) : conn[d] # "none"
    /\ conn' = [conn EXCEPT ![c] = "open"]
    /\ task' = [task EXCEPT ![c] = "running"]
    /\ stop' = [stop EXCEPT ![c] = TRUE]
    /\ UNCHANGED <<object, awaiting, accept, signalled, wire, batch, writes, written>>

\* The loop ends; the peers' tasks are waited for.
AcceptLoopBreaks ==
    /\ kind = "tcp_server" /\ accept = "running"
    /\ accept' = "joining"
    /\ UNCHANGED <<object, awaiting, signalled, conn, wire, task, stop, batch, writes, written>>

AcceptLoopStops == signalled /\ AcceptLoopBreaks
AcceptFails == ~signalled /\ AcceptLoopBreaks

AcceptLoopJoins ==
    /\ accept = "joining" /\ \A c \in Conns : task[c] # "running"
    /\ accept' = "ended"
    /\ UNCHANGED <<object, awaiting, signalled, conn, wire, task, stop, batch, writes, written>>

ServerShutdown ==
    /\ kind = "tcp_server" /\ online /\ ~awaiting
    /\ awaiting' = TRUE /\ signalled' = TRUE
    /\ UNCHANGED <<object, accept, conn, wire, task, stop, batch, writes, written>>

ServerShutdownEnds ==
    /\ kind = "tcp_server" /\ awaiting /\ accept = "ended"
    /\ Stopped
    /\ awaiting' = FALSE
    /\ UNCHANGED <<accept, signalled, conn, wire, task, stop, batch, writes, written>>

-----------------------------------------------------------------------------
(* receive, and the peers *)

\* The senders of the channel: the read task; of a server, the accept task and the read tasks.
TcpSendersGone ==
    \/ kind = "tcp_client" /\ task[session] = "ended"
    \/ kind = "tcp_server" /\ accept = "ended"

TcpReceive ==
    /\ kind # "serial" /\ ~awaiting
    /\ ReceiveFrame \/ ReceiveLost(TcpSendersGone)
    /\ UNCHANGED tcp

PeerWrites(c) ==
    /\ conn[c] = "open" /\ writes < MaxWrites
    /\ writes' = writes + 1
    /\ wire' = [wire EXCEPT ![c] = Append(@, writes')]
    /\ written' = [written EXCEPT ![c] = @ \cup {writes'}]
    /\ UNCHANGED <<object, awaiting, accept, signalled, conn, task, stop, batch>>

\* The peer closes the connection, or resets it and what was not read is gone.
PeerCloses(c) ==
    /\ conn[c] = "open"
    /\ conn' = [conn EXCEPT ![c] = "eof"]
    /\ \/ UNCHANGED wire
       \/ wire' = [wire EXCEPT ![c] = <<>>]
    /\ UNCHANGED <<object, awaiting, accept, signalled, task, stop, batch, writes, written>>

TcpNext ==
    \/ ClientStart \/ ClientShutdown \/ ClientShutdownEnds \/ ClientSend
    \/ ServerStart \/ ServerShutdown \/ ServerShutdownEnds
    \/ AcceptLoopStops \/ AcceptFails \/ AcceptLoopJoins
    \/ TcpReceive
    \/ \E c \in Conns : ServerAccepts(c) \/ ReadLoop(c) \/ PeerWrites(c) \/ PeerCloses(c)
=============================================================================
