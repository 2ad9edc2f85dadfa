----------------------------- MODULE CdcFraming -----------------------------
(***************************************************************************)
(* The frames between the Pi and the Pico, byte by byte, in one direction: *)
(* a sender, a channel that loses the end of a frame (the CDC FIFO of the  *)
(* Pico is full, the cable is pulled, a process ends), and the receiver    *)
(* there: proto_handle_rx of the Pico, which keeps a state per byte, or    *)
(* onReadyRead of the Pi, which keeps the bytes.  Both are deterministic   *)
(* in the stream, so that it does not matter how it is cut into reads.     *)
(* A byte has Values values; a length is two bytes.                       *)
(***************************************************************************)
EXTENDS Integers, Sequences

CONSTANTS
  Values,      \* values of a byte, 256
  SOF,         \* PROTO_SOF
  MaxPayload,  \* PROTO_MAX_PAYLOAD
  BufSize,     \* the sender's frame buffer
  Frames,      \* what is sent, [type, payload]
  Sides,       \* who receives: "pico", "pi"
  MaxLosses,   \* bound: losses and restarts
  ExOr(_, _)    \* the exclusive or of two bytes

Octet == 0..(Values - 1)

ASSUME CdcFramingAssumption ==
  /\ Values \in Nat \ {0, 1} /\ SOF \in Octet /\ MaxPayload \in Nat /\ BufSize \in Nat /\ MaxLosses \in Nat
  /\ \A a, b \in Octet : ExOr(a, b) \in Octet
  /\ Sides \subseteq {"pico", "pi"}

\* What the program sends has a length of two bytes, and none of it is dropped
\* for being longer than s_rx_buf, although the buffer of the sender is.
ASSUME FramesAssumption ==
  /\ Frames \subseteq [type: Octet, payload: Seq(Octet)]
  /\ MaxPayload < Values * Values
  /\ \A f \in Frames : 5 + Len(f.payload) <= BufSize => Len(f.payload) <= MaxPayload

VARIABLES
  side,   \* the receiver of this behaviour
  frame,  \* the frame on its way
  out,    \* its bytes that have still to arrive
  rx,     \* the Pico: s_rx_state, s_rx_type, s_rx_len, s_rx_buf
  rxBuf,  \* the Pi: m_rxBuf
  losses, \* how many losses and restarts may still happen
  got,    \* history: the frames received since this one was started
  since,  \* history: bytes since the last loss, in frames without an SOF inside
  inStep  \* history: they were enough when this frame was started, and it is whole

framingVars == <<side, frame, out, rx, rxBuf, losses, got, since, inStep>>

\* The longest stretch that a receiver can mistake for one frame.
Longest(s) == IF s = "pico" THEN MaxPayload + 5 ELSE Values * Values - 1 + 5

WaitSof == [state |-> "sof", type |-> 0, len |-> 0, buf |-> <<>>]

\* Frames have bytes; the index s_rx_idx, the length of buf, stays inside s_rx_buf.
FramingTypeOK ==
  /\ side \in Sides /\ frame \in Frames /\ out \in Seq(Octet)
  /\ rx \in [state: {"sof", "type", "len", "len2", "payload", "checksum"},
             type: Octet, len: 0..(Values * Values - 1), buf: Seq(Octet)]
  /\ Len(rx.buf) <= MaxPayload
  /\ rxBuf \in Seq(Octet) /\ Len(rxBuf) < Longest("pi")
  /\ losses \in 0..MaxLosses /\ since \in 0..Longest(side) /\ inStep \in BOOLEAN

-----------------------------------------------------------------------------
\* The exclusive or of type, length and payload.
Checksum(type, len, payload) ==
  LET xor[k \in 0..Len(payload)] ==
        IF k = 0 THEN ExOr(ExOr(type, len % Values), len \div Values) ELSE ExOr(xor[k - 1], payload[k])
  IN  xor[Len(payload)]

\* proto_serialize and buildFrame; what does not fit the buffer is not sent.
Serialize(f) ==
  LET len == Len(f.payload)
  IN  IF BufSize < 5 + len THEN <<>>
      ELSE <<SOF, f.type, len % Values, len \div Values>> \o f.payload \o <<Checksum(f.type, len, f.payload)>>

\* A bug: a frame without a payload is taken to have one.
AfterLengthFault(len) == IF len > MaxPayload THEN "sof" ELSE "payload"

\* What follows the length.
AfterLength(len) == CASE len = 0          -> "checksum"
                      [] len > MaxPayload -> "sof"
                      [] OTHER            -> "payload"

\* proto_handle_rx takes a byte.
PicoTakes(b) ==
  CASE rx.state = "sof"   -> IF b = SOF THEN [rx EXCEPT !.state = "type"] ELSE rx
    [] rx.state = "type"  -> [rx EXCEPT !.state = "len", !.type = b]
    [] rx.state = "len"   -> [rx EXCEPT !.state = "len2", !.len = b]
    [] rx.state = "len2"  -> LET len == rx.len + b * Values
                             IN  [rx EXCEPT !.len = len, !.buf = <<>>, !.state = AfterLength(len)]
    [] rx.state = "payload" ->
         [rx EXCEPT !.buf = Append(@, b),
                    !.state = IF Len(rx.buf) + 1 >= rx.len THEN "checksum" ELSE "payload"]
    [] rx.state = "checksum" -> WaitSof

\* It hands a frame over when the checksum is right.
PicoGets(b) ==
  IF rx.state = "checksum" /\ b = Checksum(rx.type, rx.len, rx.buf)
    THEN <<[type |-> rx.type, payload |-> rx.buf]>> ELSE <<>>

\* The bytes of the first frame in a buffer, once they are all there.
Whole(buf) == 5 + buf[3] + buf[4] * Values

\* onReadyRead after a byte: bytes before an SOF are dropped, and a frame is
\* removed whole, right or wrong.
PiTakes(b) ==
  LET buf == Append(rxBuf, b)
  IN  IF Len(buf) < 5 THEN buf
      ELSE IF buf[1] # SOF THEN Tail(buf)
      ELSE IF Len(buf) < Whole(buf) THEN buf ELSE <<>>

PiGets(b) ==
  LET buf == Append(rxBuf, b)
  IN  IF Len(buf) >= 5 /\ buf[1] = SOF /\ Len(buf) >= Whole(buf)
         /\ b = Checksum(buf[2], Whole(buf) - 5, SubSeq(buf, 5, Len(buf) - 1))
        THEN <<[type |-> buf[2], payload |-> SubSeq(buf, 5, Len(buf) - 1)]>> ELSE <<>>

-----------------------------------------------------------------------------
\* No byte of the frame but the first is an SOF.
Tame(f) == \A k \in 2..Len(Serialize(f)) : Serialize(f)[k] # SOF

FramingInit ==
  /\ side \in Sides /\ frame \in Frames /\ out = <<>> /\ rx = WaitSof /\ rxBuf = <<>>
  /\ losses = MaxLosses /\ got = <<frame>> /\ since = Longest(side) /\ inStep = TRUE

\* The next frame is sent.
SendFrame(f) ==
  /\ out = <<>> /\ Serialize(f) # <<>>
  /\ frame' = f /\ out' = Serialize(f)
  /\ got' = <<>> /\ inStep' = (since = Longest(side))
  /\ UNCHANGED <<side, rx, rxBuf, losses, since>>

\* A byte arrives.
TakeByte ==
  /\ out # <<>> /\ out' = Tail(out)
  /\ LET b == Head(out)
     IN  IF side = "pico"
           THEN rx' = PicoTakes(b) /\ got' = got \o PicoGets(b) /\ UNCHANGED rxBuf
           ELSE rxBuf' = PiTakes(b) /\ got' = got \o PiGets(b) /\ UNCHANGED rx
  /\ since' = IF since = Longest(side) THEN since ELSE IF Tame(frame) THEN since + 1 ELSE 0
  /\ UNCHANGED <<side, frame, losses, inStep>>

\* The rest of the frame is lost.
LoseRest ==
  /\ losses > 0 /\ losses' = losses - 1
  /\ out # <<>> /\ out' = <<>> /\ since' = 0 /\ inStep' = FALSE
  /\ UNCHANGED <<side, frame, rx, rxBuf, got>>

\* The receiver starts anew: a reset of the Pico, a start of the program on the Pi.
Restart ==
  /\ losses > 0 /\ losses' = losses - 1
  /\ rx' = WaitSof /\ rxBuf' = <<>> /\ since' = 0 /\ inStep' = FALSE
  /\ UNCHANGED <<side, frame, out, got>>

FramingNext == TakeByte \/ LoseRest \/ Restart \/ \E f \in Frames : SendFrame(f)

-----------------------------------------------------------------------------
\* Whatever was lost before, a receiver that has since been sent as many bytes
\* as it can mistake for one frame, in frames without an SOF inside, is in step
\* again: it receives every frame that comes whole, once, and nothing else.
\* The Pico needs 519 bytes for that, the Pi up to 64 KiB.
FramesArrive == out = <<>> /\ inStep => got = <<frame>>

=============================================================================
