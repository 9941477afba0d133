----------------------------- MODULE Interfaces -----------------------------
(***************************************************************************)
(* Box<dyn NetworkInterface>: a TCP client, a TCP server or a serial       *)
(* interface behind the one trait, and what its users may expect of it     *)
(* whichever it is.                                                        *)
(***************************************************************************)
EXTENDS TcpInterface, SerialInterface

vars == <<object, tcp, serial>>

Init == InterfaceInit /\ TcpInit /\ SerialInit

Next ==
    \/ TcpNext /\ UNCHANGED serial
    \/ SerialNext /\ UNCHANGED tcp

Spec == Init /\ [][Next]_vars

(***************************************************************************)
(* Fairness: tokio and the operating system run every task and thread that *)
(* can make a step, and a shutdown goes on when what it awaits is done.    *)
(* Nobody has to call receive, send or shutdown.                           *)
(***************************************************************************)
FairSpec ==
    /\ Spec
    /\ \A c \in Conns : WF_vars(ReadLoop(c) /\ UNCHANGED serial)
    /\ WF_vars((AcceptLoopStops \/ AcceptLoopJoins) /\ UNCHANGED serial)
    /\ WF_vars((ClientShutdownEnds \/ ServerShutdownEnds) /\ UNCHANGED serial)
    /\ \A s \in Sessions : WF_vars(ThreadStep(s) /\ UNCHANGED tcp)

-----------------------------------------------------------------------------
(* Properties *)

\* Type invariant.
TypeOK ==
    /\ kind \in Kinds /\ online \in BOOLEAN /\ session \in 0..MaxStarts
    /\ Len(rx) <= Capacity
    /\ awaiting \in BOOLEAN /\ accept \in {"none", "running", "joining", "ended"}
    /\ conn \in [Conns -> {"none", "open", "eof", "closed"}]
    /\ task \in [Conns -> {"none", "running", "ended"}]
    /\ thread \in [Sessions -> Places]
    /\ {speed, guard} \subseteq {"none", "fixed", "other"}
    /\ \A s \in Sessions : \A i \in DOMAIN decoder[s].buf : decoder[s].buf[i] \in Byte

\* The frames of connection c that are not dropped for their size.  Frames are numbered in the order
\* in which they are written.
Deliverable(c) == written[c] \ Oversized

\* TCP: whatever receive returned was written by a peer and is returned once; before a frame of a
\* connection receive returned all the frames that were written before it, without a gap, however
\* reads, the full channel, shutdowns and restarts fall; a client's frames come from the connection
\* of the session.
TcpFramesInOrder ==
    kind # "serial" =>
        /\ \A i \in DOMAIN received : \E c \in Conns : \E n \in Deliverable(c) :
              received[i].frame = Payload(n) /\ (kind = "tcp_client" => received[i].session = c)
        /\ \A i, j \in DOMAIN received : received[i].frame = received[j].frame => i = j
        /\ \A c \in Conns : \A m, n \in Deliverable(c) : \A j \in DOMAIN received :
              m < n /\ received[j].frame = Payload(n)
                 => \E i \in 1..(j - 1) : received[i].frame = Payload(m)

\* Serial: while no read failed and no thread read at another speed than that of the line, every
\* frame that receive returned was written by the peer, whole, and none is returned twice or out of
\* order, across silences, shutdowns and restarts.
SerialFramesWhole ==
    kind = "serial" /\ errors = 0 /\ ~garbled =>
        /\ \A i \in DOMAIN received : \E n \in 1..nwritten : received[i].frame = Payload(n)
        /\ \A i, j \in DOMAIN received : i < j => received[i].frame[1] < received[j].frame[1]

\* A thread reads at another speed only when that of the line is not 115200, and only after a read
\* failed or a thread took, opened or stored the port after it was told to stop: it then opened the
\* port again, at 115200.
NoiseHasItsCause == garbled => speed # "fixed" /\ (errors > 0 \/ late)

\* What receive returns are the peer's frames, whole and in order, over TCP and over a serial line
\* that is read at its own speed; part of it is that the state has its type and the channel keeps to
\* its capacity.
FramesInOrder == TypeOK /\ TcpFramesInOrder /\ SerialFramesWhole /\ NoiseHasItsCause

\* ConnectionLost means that it is over: a client's peer has closed the connection, a server
\* accepts no more, and a serial interface, which reconnects, never says so.
LostMeansOver ==
    lost /\ online =>
        \/ kind = "tcp_client" /\ conn[session] = "eof"
        \/ kind = "tcp_server" /\ accept = "ended"
        \/ awaiting

\* A read task that waits for room in the channel, which only receive makes.
BlockedOnFullChannel ==
    \E c \in Conns : task[c] = "running" /\ batch[c] # <<>> /\ Len(rx) = Capacity

\* Shutdowns come to an end.  That of a TCP interface returns, unless a read task is blocked on the
\* full channel: the task is awaited before the channel is drained.  The thread of a serial interface
\* ends, also when it was blocked on the full channel, which shutdown drains.
ShutdownEnds ==
    /\ awaiting ~> ~awaiting \/ BlockedOnFullChannel
    /\ \A s \in Sessions : told[s] ~> thread[s] = "ended"

\* After a shutdown of a serial interface, once its thread has ended, the port is closed and can
\* be opened again - unless a thread took, opened or stored it after it was told to stop.
PortReleased ==
    (~online /\ ~late /\ \A s \in Sessions : thread[s] \in {"none", "ended"}) => DeviceFree
=============================================================================
