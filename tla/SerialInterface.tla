--------------------------- MODULE SerialInterface ---------------------------
(***************************************************************************)
(* SerialInterface (crates/interface/src/serial.rs): the blocking reader   *)
(* thread of each session, the port handle it shares with send through a   *)
(* mutex, reconnecting, and shutdown, which does not wait for the thread.  *)
(*                                                                         *)
(* A port is opened exclusively (the serialport crate sets TIOCEXCL).  A   *)
(* handle is represented by the speed it was opened with: "fixed" for the  *)
(* 115200 of the reconnecting thread, "other" for any other.  The line has *)
(* the speed that is configured; a port of another speed reads noise.      *)
(***************************************************************************)
EXTENDS NetworkInterface, Framing

CONSTANTS
    MaxTransmits,   \* bound: how many frames the peer of a serial line writes
    MaxErrors,      \* bound: how many reads fail
    Speeds,         \* the speeds an interface may be configured with
    Noise           \* the bytes that a port of the wrong speed may read

ASSUME SerialBoundAssumption == MaxTransmits \in Byte /\ MaxErrors \in Nat
ASSUME SpeedAssumption == Speeds \subseteq {"fixed", "other"} /\ Noise \subseteq Byte

VARIABLES
    speed,     \* the configured speed, which is that of the line; "none" over TCP
    guard,     \* what the mutex holds: "none" or a handle
    thread,    \* [Sessions -> where the reader thread of the session is]
    port,      \* [Sessions -> "none" or the handle it has taken or opened]
    told,      \* [Sessions -> BOOLEAN]: was the shutdown signal sent?
    decoder,   \* [Sessions -> its HdlcDecoder]
    frame,     \* [Sessions -> the frame that it is sending to the channel]
    line,      \* bytes of the peer that were not read, those of each frame a sequence of their own
    nwritten,  \* how many frames the peer wrote
    errors,    \* how many reads failed
    late,      \* history: a thread took, opened or stored the port after it was told to stop
    garbled    \* history: a thread read noise

serial == <<speed, guard, thread, port, told, decoder, frame, line, nwritten, errors, late, garbled>>

Places == {"none", "outer", "checked", "reconnecting", "opened", "inner", "polling",
           "sending", "ended"}

SerialInit ==
    /\ IF kind = "serial" THEN speed \in Speeds ELSE speed = "none"
    /\ guard = "none"
    /\ thread = [s \in Sessions |-> "none"]
    /\ port = [s \in Sessions |-> "none"]
    /\ told = [s \in Sessions |-> FALSE]
    /\ decoder = [s \in Sessions |-> NewDecoder]
    /\ frame = [s \in Sessions |-> <<>>]
    /\ line = <<>> /\ nwritten = 0 /\ errors = 0 /\ late = FALSE /\ garbled = FALSE

\* Nobody has the device open.
DeviceFree == guard = "none" /\ \A s \in Sessions : port[s] = "none"

Goes(s, place) == thread' = [thread EXCEPT ![s] = place]

-----------------------------------------------------------------------------
(* The methods *)

SerialStart ==
    /\ kind = "serial" /\ DeviceFree /\ Started
    /\ guard' = speed
    /\ Goes(session', "outer")
    /\ UNCHANGED <<port, told, decoder, frame, line, nwritten, errors, late, garbled, speed>>

\* Mutant: the port is left to the thread.
SerialShutdownKeepsPort ==
    /\ kind = "serial" /\ online /\ Stopped
    /\ told' = [told EXCEPT ![session] = TRUE]
    /\ UNCHANGED <<guard, thread, port, decoder, frame, line, nwritten, errors, late, garbled, speed>>

\* Mutant: the channel is not drained.
SerialShutdownWithoutDrain ==
    /\ kind = "serial" /\ online
    /\ online' = FALSE
    /\ told' = [told EXCEPT ![session] = TRUE]
    /\ guard' = "none"
    /\ UNCHANGED <<kind, session, rx, sends, received, lost>>
    /\ UNCHANGED <<thread, port, decoder, frame, line, nwritten, errors, late, garbled, speed>>

\* shutdown signals the thread, drops the handle in the mutex, drains, and returns at once.
SerialShutdown ==
    /\ kind = "serial" /\ online /\ Stopped
    /\ told' = [told EXCEPT ![session] = TRUE]
    /\ guard' = "none"
    /\ UNCHANGED <<thread, port, decoder, frame, line, nwritten, errors, late, garbled, speed>>

SerialReceive ==
    /\ kind = "serial"
    /\ ReceiveFrame \/ ReceiveLost(thread[session] = "ended")
    /\ UNCHANGED serial

\* send needs the handle that the mutex holds; without one it returns ConnectionLost.
SerialSend ==
    /\ kind = "serial" /\ guard # "none" /\ Written
    /\ UNCHANGED serial

-----------------------------------------------------------------------------
(* The thread: the outer loop *)

\* try_recv at the top of the loop.
OuterCheck(s) ==
    /\ thread[s] = "outer"
    /\ Goes(s, IF told[s] THEN "ended" ELSE "checked")
    /\ UNCHANGED <<object, guard, port, told, decoder, frame, line, nwritten, errors, late, garbled, speed>>

\* guard.take(): a thread that was told to stop after its check may take the handle of the next
\* session.
TakePort(s) ==
    /\ thread[s] = "checked"
    /\ port' = [port EXCEPT ![s] = guard]
    /\ guard' = "none"
    /\ Goes(s, IF guard = "none" THEN "reconnecting" ELSE "inner")
    /\ late' = (late \/ (told[s] /\ guard # "none"))
    /\ UNCHANGED <<object, told, decoder, frame, line, nwritten, errors, garbled, speed>>

\* The reconnecting thread opens the port, or sleeps and starts over.
Reopen(s) ==
    /\ thread[s] = "reconnecting"
    /\ \/ /\ DeviceFree
          /\ port' = [port EXCEPT ![s] = "fixed"]
          /\ late' = (late \/ told[s])
          /\ Goes(s, "opened")
       \/ Goes(s, "outer") /\ UNCHANGED <<port, late>>
    /\ UNCHANGED <<object, guard, told, decoder, frame, line, nwritten, errors, garbled, speed>>

StorePort(s) ==
    /\ thread[s] = "opened"
    /\ guard' = port[s]
    /\ port' = [port EXCEPT ![s] = "none"]
    /\ Goes(s, "outer")
    /\ late' = (late \/ told[s])
    /\ UNCHANGED <<object, told, decoder, frame, line, nwritten, errors, garbled, speed>>

-----------------------------------------------------------------------------
(* The thread: the inner loop *)

\* The handle is dropped with the thread or after an error, and the mutex is emptied.
DropPort(s) == port' = [port EXCEPT ![s] = "none"] /\ guard' = "none"

InnerCheck(s) ==
    /\ thread[s] = "inner"
    /\ \/ told[s] /\ Goes(s, "ended") /\ DropPort(s)
       \/ ~told[s] /\ Goes(s, "polling") /\ UNCHANGED <<port, guard>>
    /\ UNCHANGED <<object, told, decoder, frame, line, nwritten, errors, late, garbled, speed>>

\* The line without the next n bytes, which belong to one frame.
Unread(bytes, n) ==
    IF n < Len(bytes[1]) THEN [bytes EXCEPT ![1] = SubSeq(@, n + 1, Len(@))] ELSE Tail(bytes)

\* decoder.feed: a frame that it completes is sent to the channel.
Decoded(s, byte) ==
    LET r == SerialFeed(decoder[s], byte) IN
      /\ decoder' = [decoder EXCEPT ![s] = r.dec]
      /\ frame' = [frame EXCEPT ![s] = FlattenSeq(r.out)]
      /\ Goes(s, IF r.out = <<>> THEN "inner" ELSE "sending")

ReadByte(s) ==
    /\ thread[s] = "polling" /\ line # <<>> /\ port[s] = speed
    /\ Decoded(s, line[1][1])
    /\ line' = Unread(line, 1)
    /\ UNCHANGED <<object, guard, port, told, nwritten, errors, late, garbled, speed>>

\* What may be left of the line when bytes are lost: frames, and some bytes of the next one.
Lost(bytes) ==
    {<<>>} \cup
    UNION {{Unread(SubSeq(bytes, i, Len(bytes)), n) : n \in 0..(Len(bytes[i]) - 1)} : i \in DOMAIN bytes}

\* A port of another speed reads some byte for one or more of the peer's.
ReadNoise(s) ==
    /\ thread[s] = "polling" /\ line # <<>> /\ port[s] # speed
    /\ \E byte \in Noise : Decoded(s, byte)
    /\ line' \in Lost(Unread(line, 1))
    /\ garbled' = TRUE
    /\ UNCHANGED <<object, guard, port, told, nwritten, errors, late, speed>>

\* Nothing for FRAME_TIMEOUT_MS: what came of a frame is dropped.
ReadTimesOut(s) ==
    /\ thread[s] = "polling"
    /\ decoder' = [decoder EXCEPT ![s] = NewDecoder]
    /\ Goes(s, "inner")
    /\ UNCHANGED <<object, guard, port, told, frame, line, nwritten, errors, late, garbled, speed>>

\* Mutant: the thread gives up at the first error.
ReadFailsAndEnds(s) ==
    /\ thread[s] = "polling" /\ errors < MaxErrors
    /\ errors' = errors + 1
    /\ line' \in Lost(line)
    /\ DropPort(s) /\ Goes(s, "ended")
    /\ UNCHANGED <<object, told, decoder, frame, nwritten, late, garbled, speed>>

\* A read error: bytes are lost, the thread reconnects; the decoder keeps what it has.
ReadFails(s) ==
    /\ thread[s] = "polling" /\ errors < MaxErrors
    /\ errors' = errors + 1
    /\ line' \in Lost(line)
    /\ DropPort(s) /\ Goes(s, "outer")
    /\ UNCHANGED <<object, told, decoder, frame, nwritten, late, garbled, speed>>

\* blocking_send: into the channel of this session, or nowhere when start replaced it.
SendFrame(s) ==
    /\ thread[s] = "sending"
    /\ \/ /\ s = session /\ Enqueue(frame[s])
          /\ Goes(s, "inner") /\ UNCHANGED <<port, guard>>
       \/ s # session /\ DropPort(s) /\ Goes(s, "ended") /\ UNCHANGED object
    /\ frame' = [frame EXCEPT ![s] = <<>>]
    /\ UNCHANGED <<told, decoder, line, nwritten, errors, late, garbled, speed>>

ThreadStep(s) ==
    \/ OuterCheck(s) \/ TakePort(s) \/ Reopen(s) \/ StorePort(s)
    \/ InnerCheck(s) \/ ReadByte(s) \/ ReadNoise(s) \/ ReadTimesOut(s) \/ ReadFails(s)
    \/ SendFrame(s)

\* The peer writes a frame.
PeerTransmits ==
    /\ kind = "serial" /\ nwritten < MaxTransmits
    /\ nwritten' = nwritten + 1
    /\ line' = Append(line, hdlc_encode(Payload(nwritten')))
    /\ UNCHANGED <<object, guard, thread, port, told, decoder, frame, errors, late, garbled, speed>>

SerialNext ==
    \/ SerialStart \/ SerialShutdown \/ SerialReceive \/ SerialSend
    \/ PeerTransmits
    \/ \E s \in Sessions : ThreadStep(s)
=============================================================================
