------------------------------- MODULE Framing -------------------------------
(***************************************************************************)
(* The byte framings of crates/interface: HDLC as in hdlc.rs, HDLC as in   *)
(* serial.rs, and KISS (kiss.rs).  Bytes are numbers, frames sequences of  *)
(* bytes.  A decoder is a record of its fields; feed returns the decoder   *)
(* after a byte and the frames it completed: none or one.                  *)
(***************************************************************************)
EXTENDS Integers, Sequences, SequencesExt

Framings == {"hdlc", "serial", "kiss"}
Byte == 0..255

\* hdlc.rs and serial.rs: 0x7E, 0x7D, 0x20.  kiss.rs: 0xC0, 0xDB, 0xDC, 0xDD, 0x00.
FLAG == 126
ESC == 125
ESC_MASK == 32
FEND == 192
FESC == 219
TFEND == 220
TFESC == 221
CMD_DATA == 0

\* byte ^ ESC_MASK: flips one bit.
XorMask(byte) == IF (byte \div ESC_MASK) % 2 = 1 THEN byte - ESC_MASK ELSE byte + ESC_MASK

-----------------------------------------------------------------------------
(* Encoders *)

\* Mutant: the escape byte itself is not escaped.
HdlcEscapeFlagOnly(data) ==
    FlattenSeq([i \in DOMAIN data |->
        IF data[i] = FLAG THEN <<ESC, XorMask(data[i])>> ELSE <<data[i]>>])

HdlcEscape(data) ==
    FlattenSeq([i \in DOMAIN data |->
        IF data[i] \in {FLAG, ESC} THEN <<ESC, XorMask(data[i])>> ELSE <<data[i]>>])

KissEscape(data) ==
    FlattenSeq([i \in DOMAIN data |->
        CASE data[i] = FESC -> <<FESC, TFESC>>
          [] data[i] = FEND -> <<FESC, TFEND>>
          [] OTHER -> <<data[i]>>])

encode_cmd(cmd, data) == <<FEND, cmd>> \o KissEscape(data) \o <<FEND>>

KissEncode(data) == encode_cmd(CMD_DATA, data)

HdlcEncode(data) == <<FLAG>> \o HdlcEscape(data) \o <<FLAG>>

\* serial.rs has an encoder of its own, which does the same.
hdlc_encode(data) == HdlcEncode(data)

encode(framing, data) ==
    CASE framing = "hdlc" -> HdlcEncode(data)
      [] framing = "serial" -> hdlc_encode(data)
      [] framing = "kiss" -> KissEncode(data)

-----------------------------------------------------------------------------
(* Decoders.  WaitFlag, InFrame and Escape of serial.rs are in_frame and escape of the others. *)

NoCommand == -1
NewDecoder == [in_frame |-> FALSE, escape |-> FALSE, buf |-> <<>>, command |-> NoCommand]

Opened(dec) == [dec EXCEPT !.in_frame = TRUE, !.escape = FALSE, !.buf = <<>>, !.command = NoCommand]
Push(dec, byte) == [dec EXCEPT !.buf = Append(@, byte), !.escape = FALSE]

More(dec) == [dec |-> dec, out |-> <<>>]
Frame(dec, data) == [dec |-> dec, out |-> <<data>>]

\* Mutant: as in serial.rs, the closing flag does not open the next frame.
HdlcCloseLeavesFrame(dec) == Frame(NewDecoder, dec.buf)

\* hdlc.rs: the closing flag is also the opening flag of the next frame; the frame may be empty.
HdlcClose(dec) == Frame(Opened(dec), dec.buf)

\* serial.rs: back to WaitFlag; an empty frame is dropped.
SerialClose(dec) == IF dec.buf = <<>> THEN More(NewDecoder) ELSE Frame(NewDecoder, dec.buf)

\* The step of both; closed is what a closing flag leads to.
HdlcFeed(dec, byte, closed) ==
    CASE ~dec.in_frame -> More(IF byte = FLAG THEN Opened(dec) ELSE dec)
      [] dec.in_frame /\ dec.escape -> More(Push(dec, XorMask(byte)))
      [] dec.in_frame /\ ~dec.escape /\ byte = ESC -> More([dec EXCEPT !.escape = TRUE])
      [] dec.in_frame /\ ~dec.escape /\ byte = FLAG -> closed
      [] OTHER -> More(Push(dec, byte))

SerialFeed(dec, byte) == HdlcFeed(dec, byte, SerialClose(dec))

\* An escape that is none keeps the byte as it is.
KissUnescape(byte) == CASE byte = TFESC -> FESC [] byte = TFEND -> FEND [] OTHER -> byte

\* The first plain byte of a frame is its command; the data alone is handed on.
KissFeed(dec, byte) ==
    CASE ~dec.in_frame -> More(IF byte = FEND THEN Opened(dec) ELSE dec)
      [] dec.in_frame /\ dec.escape -> More(Push(dec, KissUnescape(byte)))
      [] dec.in_frame /\ ~dec.escape /\ byte = FESC -> More([dec EXCEPT !.escape = TRUE])
      [] dec.in_frame /\ ~dec.escape /\ byte = FEND -> Frame(NewDecoder, dec.buf)
      [] OTHER -> More(IF dec.command = NoCommand THEN [dec EXCEPT !.command = byte] ELSE Push(dec, byte))

feed(framing, dec, byte) ==
    CASE framing = "hdlc" -> HdlcFeed(dec, byte, HdlcClose(dec))
      [] framing = "serial" -> SerialFeed(dec, byte)
      [] framing = "kiss" -> KissFeed(dec, byte)

\* After one byte more: the decoder, and the frames completed so far.
FeedByte(framing, before, byte) ==
    LET r == feed(framing, before.dec, byte)
    IN  [dec |-> r.dec, out |-> before.out \o r.out]

\* A run of bytes: the decoder after it, and the frames it completed in order.
FeedAll(framing, dec, bytes) ==
    LET fed[i \in 0..Len(bytes)] ==
          IF i = 0 THEN More(dec) ELSE FeedByte(framing, fed[i - 1], bytes[i])
    IN  fed[Len(bytes)]

\* A byte of the inside of a frame; an escape byte that is the last one stands for itself.
DecodeByte(dec, byte, isLast) ==
    IF dec.escape THEN Push(dec, XorMask(byte))
    ELSE IF byte = ESC /\ ~isLast THEN [dec EXCEPT !.escape = TRUE]
    ELSE Push(dec, byte)

DecodeInner(inner) ==
    LET decoded[i \in 0..Len(inner)] ==
          IF i = 0 THEN NewDecoder ELSE DecodeByte(decoded[i - 1], inner[i], i = Len(inner))
    IN  decoded[Len(inner)].buf

\* serial.rs hdlc_decode: a frame in a buffer, with or without its flags.  The sequence that is
\* returned holds the payload, or nothing when the buffer is too short.
hdlc_decode(frame) ==
    IF Len(frame) < 2
      THEN <<>>
      ELSE LET start == IF frame[1] = FLAG THEN 2 ELSE 1
               end == IF frame[Len(frame)] = FLAG THEN Len(frame) - 1 ELSE Len(frame)
           IN  <<DecodeInner(SubSeq(frame, start, end))>>
=============================================================================
