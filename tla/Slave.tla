-------------------------------- MODULE Slave --------------------------------
(***************************************************************************)
(* A peripheral on the RS-485 bus, byte by byte: rs485_slave.c with its    *)
(* receiver, stall timeout, dispatch and stream, the UART and the transmit *)
(* enable (DE) of the HAL, and the main loop of the application.  The rest *)
(* of the bus is frame after frame, now and then damaged.                  *)
(*                                                                         *)
(* Timing.  Ticks are milliseconds.  The main loop comes round between two *)
(* bytes of 87 us unless it sends a frame or a strip (32 pixels take 960   *)
(* us with interrupts disabled), and a frame takes less than the stall     *)
(* timeout (260 bytes take 23 ms of 50).                                   *)
(***************************************************************************)
EXTENDS Peripheral

CONSTANTS
  Me,        \* BOARD_ADDR
  BusFrames, \* by application: the frames on the bus, [to, cmd, payload]
  RxDepth,   \* by MCU: bytes its UART keeps
  TxDepth,   \* by MCU: bytes its transmitter keeps, the one on the line included
  Stall,     \* RS485_TIMEOUT_MS
  Gap,       \* RS485_INTERFRAME_GAP_MS
  MaxDur,    \* bound: ticks a frame takes
  Errors,    \* bit patterns a byte may be damaged by
  Strays,    \* bytes that noise between frames is taken for
  MaxNoise,  \* bound: damaged, lost and stray bytes
  MaxHeat    \* bound: changes of the temperature

ASSUME SlaveAssumption ==
  /\ Me \in Byte \ {Everyone}
  /\ RxDepth \in [Mcus -> Nat \ {0}] /\ TxDepth \in [Mcus -> Nat \ {0, 1}]
  /\ Stall \in Nat /\ Gap \in Nat /\ MaxDur \in Nat /\ MaxDur < Stall
  /\ MaxNoise \in Nat /\ MaxHeat \in Nat /\ Errors \subseteq Byte \ {0} /\ Strays \subseteq Byte
  /\ \A a \in Apps : /\ BusFrames[a] \subseteq [to: Byte, cmd: Byte, payload: Seq(Byte)] /\ BusFrames[a] # {}
                     /\ \A f \in BusFrames[a] : Len(f.payload) \in Byte
  /\ {"PING", "PONG", "SET_OUTPUT", "GET_STATUS", "STATUS", "SET_PARAM",
      "STREAM_ON", "STREAM_OFF", "STREAM_DATA"} \subseteq DOMAIN Code

VARIABLES
  rcv,     \* s_state, s_rx_addr, s_rx_cmd, s_rx_plen, s_rx_buf, ms since s_rx_t0
  quiet,   \* ms since s_last_byte_ms, up to Gap
  stream,  \* s_stream_interval and the ms since s_stream_last_ms, up to it
  at,      \* where the main loop is
  uart,    \* bytes the UART holds
  left,    \* bytes of the frame that is sent, still to be written to the UART
  pipe,    \* bytes in the transmitter, the first one on the line
  de,      \* the transmitter drives the bus
  coming,  \* bytes of the bus frame that have still to come
  asked,   \* the frame on the bus, or the last one
  dur,     \* ticks since it began
  rest,    \* ticks since the last byte on the bus, up to Stall
  looped,  \* the loop came round since the last byte, tick or change
  noise,   \* how much noise may still come
  heat,    \* how often the temperature may still change
  hurt,    \* history: asked is whole "none", has "one" byte damaged that is neither
           \* SOF nor length, or is "bad": anything else happened to it
  inTime,  \* history: the receiver waited for an SOF when asked began
  step,    \* history: it still does between frames
  did,     \* history: what was dispatched since asked began, if it is not bad
  reply,   \* history: the last frame given to send_frame since
  heard    \* history: what left on the bus of it

slaveVars == <<devVars, rcv, quiet, stream, at, uart, left, pipe, de, coming, asked, dur, rest,
               looped, noise, heat, hurt, inTime, step, did, reply, heard>>

Idle == [state |-> "sof", addr |-> 0, cmd |-> 0, plen |-> 0, buf |-> <<>>, age |-> 0]

\* s_rx_idx, the length of buf, stays inside s_rx_buf.
SlaveTypeOK ==
  /\ DevTypeOK
  /\ rcv \in [state: {"sof", "addr", "cmd", "len", "payload", "crc"},
             addr: Byte, cmd: Byte, plen: Byte, buf: Seq(Byte), age: 0..Stall]
  /\ Len(rcv.buf) <= rcv.plen /\ (rcv.state = "payload" => Len(rcv.buf) < rcv.plen)
  /\ quiet \in 0..Gap
  /\ stream \in [interval: Word, age: Nat] /\ stream.age <= stream.interval
  /\ at \in {"drain", "send", "sendStream", "strip"}
  /\ uart \in Seq(Byte) /\ Len(uart) <= RxDepth[mcu]
  /\ left \in Seq(Byte) /\ pipe \in Seq(Byte) /\ Len(pipe) <= TxDepth[mcu]
  /\ de = (at \in {"send", "sendStream"})
  /\ dur \in 0..MaxDur /\ rest \in 0..Stall /\ looped \in BOOLEAN

Sending == at \in {"send", "sendStream"}

-----------------------------------------------------------------------------
\* A frame of this peripheral.
Answer(cmd, payload) == Bytes([to |-> Me, cmd |-> cmd, payload |-> payload])

\* send_frame: DE goes on, the bytes are written one by one, DE goes off.
Transmit(bytes, how) ==
  /\ at' = how /\ left' = bytes /\ de' = TRUE
  /\ reply' = (IF hurt = "bad" THEN <<>> ELSE bytes) /\ heard' = <<>>

NoFrame == UNCHANGED <<at, left, de, reply, heard>>

\* The command byte of an answer to a command an application handles.
AnswerCode(cmd) == IF cmd = Code.GET_STATUS THEN Code.STATUS ELSE cmd

Handles(cmd) == cmd \in {Code.SET_OUTPUT, Code.GET_STATUS} \/ (HasParams /\ cmd = Code.SET_PARAM)

Handled(cmd, p) ==
  CASE cmd = Code.SET_OUTPUT -> SetOutput(p)
    [] cmd = Code.GET_STATUS -> Answers(Status, dev)
    [] cmd = Code.SET_PARAM  -> SetParam(p)

\* dispatch: a broadcast is carried out but not answered, and what nobody handles is ignored.
Dispatch(to, cmd, p) ==
  CASE cmd = Code.PING ->
         /\ IF to = Everyone THEN NoFrame ELSE Transmit(Answer(Code.PONG, <<1>>), "send")
         /\ UNCHANGED <<stream, dev>>
    [] cmd = Code.STREAM_ON ->
         /\ stream' = IF Streams /\ Len(p) >= 2 THEN [interval |-> p[1] + p[2] * Base, age |-> 0] ELSE stream
         /\ NoFrame /\ UNCHANGED dev
    [] cmd = Code.STREAM_OFF ->
         /\ stream' = [interval |-> 0, age |-> 0]
         /\ NoFrame /\ UNCHANGED dev
    [] Handles(cmd) ->
         LET answer == Handled(cmd, p)
         IN  /\ dev' = answer.dev
             /\ IF to # Everyone /\ answer.answers
                  THEN Transmit(Answer(AnswerCode(cmd), answer.bytes), "send") ELSE NoFrame
             /\ UNCHANGED stream
    [] OTHER -> NoFrame /\ UNCHANGED <<stream, dev>>

\* A bug: an empty payload is waited for.
WithLengthFault(b) == [rcv EXCEPT !.plen = b, !.buf = <<>>, !.state = "payload"]

\* The receiver after the length byte.
WithLength(b) == [rcv EXCEPT !.plen = b, !.buf = <<>>, !.state = IF b = 0 THEN "crc" ELSE "payload"]

\* The receiver after a byte of the frame it waits for.
Received(b) ==
  CASE rcv.state = "sof"     -> IF b = Sof THEN [Idle EXCEPT !.state = "addr"] ELSE rcv
    [] rcv.state = "addr"    -> [rcv EXCEPT !.addr = b, !.state = "cmd"]
    [] rcv.state = "cmd"     -> [rcv EXCEPT !.cmd = b, !.state = "len"]
    [] rcv.state = "len"     -> WithLength(b)
    [] rcv.state = "payload" -> [rcv EXCEPT !.buf = Append(@, b),
                                  !.state = IF Len(rcv.buf) + 1 >= rcv.plen THEN "crc" ELSE "payload"]
    [] rcv.state = "crc"     -> Idle

\* A frame is complete, right, and for this peripheral.
Accepts(b) ==
  /\ rcv.state = "crc" /\ b = Crc(<<rcv.addr, rcv.cmd, rcv.plen>> \o rcv.buf)
  /\ rcv.addr \in {Me, Everyone}

\* hal_uart_read and feed_byte.
FeedByte ==
  /\ at = "drain" /\ uart # <<>>
  /\ uart' = Tail(uart) /\ quiet' = 0
  /\ LET b == Head(uart)
     IN  /\ rcv' = Received(b)
         /\ IF Accepts(b)
              THEN /\ Dispatch(rcv.addr, rcv.cmd, rcv.buf)
                   /\ did' = IF hurt = "bad" THEN did
                             ELSE Append(did, [to |-> rcv.addr, cmd |-> rcv.cmd, payload |-> rcv.buf])
              ELSE NoFrame /\ UNCHANGED <<stream, dev, did>>
  /\ UNCHANGED <<app, mcu, pipe, coming, asked, dur, rest, looped, noise, heat, hurt, inTime, step>>

\* hal_uart_write: the next byte fits into the transmitter.
Write ==
  /\ Sending /\ left # <<>> /\ Len(pipe) < TxDepth[mcu]
  /\ pipe' = Append(pipe, Head(left)) /\ left' = Tail(left)
  /\ UNCHANGED <<devVars, rcv, quiet, stream, at, uart, de, coming, asked, dur, rest, looped,
                 noise, heat, hurt, inTime, step, did, reply, heard>>

\* A byte has left the transmitter; it is on the bus if DE is on.
Shift ==
  /\ pipe # <<>> /\ pipe' = Tail(pipe)
  /\ heard' = IF de /\ hurt # "bad" THEN Append(heard, Head(pipe)) ELSE heard
  /\ UNCHANGED <<devVars, rcv, quiet, stream, at, uart, left, de, coming, asked, dur, rest,
                 looped, noise, heat, hurt, inTime, step, did, reply>>

\* A bug: the next byte could be written, so the frame is taken to be sent.
SentFault == Len(pipe) < TxDepth[mcu]

\* The last byte is out: TC of the STM32F1, uart_tx_wait_blocking of the RP2040.
Sent == pipe = <<>>

\* What main does after a poll: the searchlight's /INT, the light bar's tick.
MainEnds ==
  /\ dev' = FollowTemperature
  /\ at' = IF dev.dirty THEN "strip" ELSE "drain"
  /\ looped' = ~dev.dirty

\* send_frame returns; a stream frame was its own last step of the poll.
SendEnds ==
  /\ Sending /\ left = <<>> /\ Sent
  /\ de' = FALSE
  /\ \/ at = "send" /\ at' = "drain" /\ UNCHANGED <<dev, stream, looped>>
     \/ at = "sendStream" /\ MainEnds /\ stream' = [stream EXCEPT !.age = 0]
  /\ UNCHANGED <<app, mcu, rcv, quiet, uart, left, pipe, coming, asked, dur, rest, noise,
                 heat, hurt, inTime, step, did, reply, heard>>

\* The stall timeout drops a frame that began too long ago.
Unstalled == IF rcv.age >= Stall THEN Idle ELSE rcv

\* stream_tick finds the interval over and the bus quiet.
StreamDue ==
  /\ stream.interval > 0 /\ stream.age >= stream.interval
  /\ Unstalled.state = "sof" /\ quiet >= Gap

\* The rest of rs485_slave_poll and of main's loop.
LoopEnds ==
  /\ at = "drain" /\ uart = <<>>
  /\ rcv' = Unstalled
  /\ IF StreamDue
       THEN Transmit(Answer(Code.STREAM_DATA, PowerBytes), "sendStream") /\ UNCHANGED <<dev, looped>>
       ELSE MainEnds /\ UNCHANGED <<left, de, reply, heard>>
  /\ UNCHANGED <<app, mcu, quiet, stream, uart, pipe, coming, asked, dur, rest, noise, heat, hurt,
                 inTime, step, did>>

\* The strip of the light bar is sent.
StripEnds ==
  /\ at = "strip" /\ at' = "drain"
  /\ dev' = [StripSent EXCEPT !.dirty = FALSE]
  /\ looped' = (uart = <<>>)
  /\ UNCHANGED <<app, mcu, rcv, quiet, stream, uart, left, pipe, de, coming, asked, dur, rest,
                 noise, heat, hurt, inTime, step, did, reply, heard>>

-----------------------------------------------------------------------------
(* The bus *)

\* Nobody waits for the loop longer than a byte takes, but for frames and strips.
Free == at = "drain" => uart = <<>>

Forget == did' = <<>> /\ reply' = <<>> /\ heard' = <<>>

\* The master, or another peripheral, begins a frame.
FrameBegins(f) ==
  /\ coming = <<>> /\ Free
  /\ asked' = f /\ coming' = Bytes(f) /\ dur' = 0
  /\ inTime' = (step \/ (rest = Stall /\ looped)) /\ step' = inTime'
  /\ hurt' = IF Sending \/ uart # <<>> THEN "bad" ELSE "none"
  /\ Forget
  /\ UNCHANGED <<devVars, rcv, quiet, stream, at, uart, left, pipe, de, rest, looped, noise, heat>>

Arrives(b) == uart' = Append(uart, b)

\* The receiver is off while DE is on, and has room for RxDepth bytes.
Heard == ~Sending /\ Len(uart) < RxDepth[mcu]

\* The byte that comes next is neither the SOF, which the CRC does not cover, nor
\* the length, which says where the receiver looks for the CRC.
KeepsBounds == Len(Bytes(asked)) - Len(coming) \notin {0, 3}

\* The next byte of the frame arrives whole, damaged or not at all, as when the
\* receiver is off or full.
ByteArrives ==
  /\ coming # <<>> /\ Free /\ coming' = Tail(coming)
  /\ \/ /\ Heard /\ Arrives(Head(coming))
        /\ UNCHANGED <<hurt, noise>>
     \/ /\ noise > 0 /\ noise' = noise - 1
        /\ Heard /\ \E e \in Errors : Arrives(XorByte(Head(coming), e))
        /\ hurt' = IF KeepsBounds /\ hurt = "none" THEN "one" ELSE "bad"
     \/ /\ noise > 0 /\ noise' = noise - 1
        /\ UNCHANGED uart /\ hurt' = "bad"
  /\ step' = (step /\ hurt' # "bad")
  /\ rest' = 0 /\ looped' = FALSE
  /\ IF hurt' = "bad" THEN Forget ELSE UNCHANGED <<did, reply, heard>>
  /\ UNCHANGED <<devVars, rcv, quiet, stream, at, left, pipe, de, asked, dur, heat, inTime>>

\* A stray byte between two frames.
StrayByte ==
  /\ coming = <<>> /\ Free /\ Heard /\ noise > 0 /\ noise' = noise - 1
  /\ \E b \in Strays : Arrives(b)
  /\ hurt' = "bad" /\ step' = FALSE /\ rest' = 0 /\ looped' = FALSE
  /\ Forget
  /\ UNCHANGED <<devVars, rcv, quiet, stream, at, left, pipe, de, coming, asked, dur, heat, inTime>>

\* A millisecond passes.
Tick ==
  /\ at = "drain" /\ looped /\ looped' = FALSE
  /\ IF coming = <<>> THEN dur' = 0 ELSE dur < MaxDur /\ dur' = dur + 1
  /\ rest' = Aged(rest, Stall) /\ quiet' = Aged(quiet, Gap)
  /\ stream' = [stream EXCEPT !.age = Aged(@, stream.interval)]
  /\ rcv' = IF rcv.state = "sof" THEN rcv ELSE [rcv EXCEPT !.age = Aged(@, Stall)]
  /\ UNCHANGED <<devVars, at, uart, left, pipe, de, coming, asked, noise, heat, hurt, inTime, step,
                 did, reply, heard>>

Heats ==
  /\ app = "searchlight" /\ heat > 0 /\ heat' = heat - 1
  /\ Heat /\ looped' = FALSE
  /\ UNCHANGED <<app, mcu, rcv, quiet, stream, at, uart, left, pipe, de, coming, asked, dur, rest,
                 noise, hurt, inTime, step, did, reply, heard>>

SlaveInit ==
  /\ DevInit
  /\ rcv = Idle /\ quiet = 0 /\ stream = [interval |-> 0, age |-> 0]
  /\ at = "drain" /\ uart = <<>> /\ left = <<>> /\ pipe = <<>> /\ de = FALSE
  /\ coming = <<>> /\ asked = (CHOOSE f \in BusFrames[app] : TRUE) /\ dur = 0 /\ rest = 0 /\ looped = FALSE
  /\ noise = MaxNoise /\ heat = MaxHeat
  /\ hurt = "bad" /\ inTime = TRUE /\ step = TRUE /\ did = <<>> /\ reply = <<>> /\ heard = <<>>

SlaveNext ==
  \/ FeedByte \/ Write \/ Shift \/ SendEnds \/ LoopEnds \/ StripEnds
  \/ \E f \in BusFrames[app] : FrameBegins(f)
  \/ ByteArrives \/ StrayByte \/ Tick \/ Heats

-----------------------------------------------------------------------------
\* A frame that arrives whole at a peripheral that is in step is carried out once
\* when it is for it, not at all when it is not, and what is answered leaves to
\* the last byte while DE is on.  A frame with one byte of its address, command,
\* payload or CRC damaged is never carried out.  Nothing is said of a frame whose
\* SOF or length is damaged: feed_byte (rs485_slave.c 139-157) looks for the CRC
\* where the length says, so that AB 03 10 02 00 CC CA with its length damaged to 01
\* passes, CC being the CRC of 03 10 01 00, and is dispatched cut short.  In step is
\* also a peripheral after Stall ms without a byte, whatever noise it had taken for
\* a frame.
FrameTaken ==
  coming = <<>> /\ uart = <<>> /\ ~Sending /\ inTime =>
    /\ hurt = "none" => /\ did = IF asked.to \in {Me, Everyone} THEN <<asked>> ELSE <<>>
                        /\ heard = reply
    /\ hurt = "one" => did = <<>>

\* What GET_STATUS answers, byte by byte, and what the hardware does.  When main has
\* come round, the searchlight's duty and overheating are those of the lamp's PWM and
\* of the /INT pin, and the brightness and colour of the STM32's light bar those
\* on the strip.  The STM32's pan-tilt unit reports the angle its servos have.
\* Three reports say only what was asked for: the RP2040's pan-tilt unit reports an
\* angle beyond the end of the servo, and 0 before the first command while
\* the servos stand in the middle; the light bar's mode drives nothing (board_tick
\* sends one colour whatever the mode); and the RP2040's light bar, whatever it
\* reports, stays dark.
ReportsHardware ==
  /\ app = "searchlight" /\ looped =>
       Status = <<dev.pwm, Temperature % Base, IF IntLow THEN 2 ELSE 0>>
  /\ app = "pantilt" => \A ch \in {0, 1} :
       \/ dev.us[ch] = PulseOf(Status[ch + 1]) /\ (mcu = "stm32f1" => Status[ch + 1] <= MaxDeg)
       \/ mcu = "rp2040" /\ Status[ch + 1] = 0 /\ dev.us[ch] = 1500
  /\ app = "lightbar" /\ mcu = "stm32f1" /\ looped =>
       Status = <<dev.strip.bright, dev.mode, dev.strip.colour % Base, dev.strip.colour \div Base>>
  /\ app = "lightbar" /\ mcu = "rp2040" => dev.strip = [colour |-> 0, bright |-> 0]

=============================================================================
