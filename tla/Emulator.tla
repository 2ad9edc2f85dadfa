------------------------------ MODULE Emulator ------------------------------
(***************************************************************************)
(* The bench emulator (MODBUSTester.c): one node that answers for several  *)
(* virtual peripherals, each with an address that says what it is.  The    *)
(* main loop takes what the UART holds, lets streams out, and takes a line *)
(* of the console; the web server runs in an interrupt (the threadsafe     *)
(* background variant of lwIP) and changes the devices between any two     *)
(* steps of it.  A web request changes one variable, so that a frame being *)
(* composed holds the old or the new value, as it would if the request     *)
(* came before or after.                                                   *)
(*                                                                         *)
(* Ticks are milliseconds.  While it neither sends nor writes to the       *)
(* console, the loop comes round within MaxLag of them; what comes while   *)
(* it sends is lost however long that takes.                               *)
(***************************************************************************)
EXTENDS Rs485Frame

CONSTANTS
  Devices,      \* g_dev: an address for each, 1 to N_PERIPH in the firmware
  AtBoot,       \* for each the values it starts with, by field
  Version,      \* FW_VERSION
  MinInterval,  \* the shortest interval of a stream, 10
  Silence,      \* after more than so many ms a frame is given up, 5
  Fifo,         \* bytes the UART holds, 32
  MaxLag,       \* see above
  Queries,      \* the frames on the bus, [to, cmd, payload]
  Pokes,        \* what is asked for at the console or on the web page
  MaxTrouble,   \* bound: pokes, and bytes lost to noise or because it sends
  MaxAstray     \* bound: frames in a row of which the receiver may not know the beginning

Slots == DOMAIN Devices

\* What every device has, and which of it are words; the others are bytes.
Fields ==
  {"sl_brightness", "sl_temp_c", "sl_faults", "sl_p_thermal_lim",
   "rd_distance_mm", "rd_signal", "rd_status", "rd_mode", "rd_range_max_m", "rd_sample_rate_hz",
   "rd_min_threshold_mm",
   "pt_pan_deg", "pt_tilt_deg", "pt_moving", "pt_slew_dps", "pt_soft_limits",
   "lb_brightness", "lb_mode", "lb_color_rgb565"}

Words == {"sl_p_thermal_lim", "rd_distance_mm", "rd_min_threshold_mm", "pt_slew_dps", "pt_soft_limits",
          "lb_mode", "lb_color_rgb565"}

Size(field) == IF field \in Words THEN Base * Base ELSE Base

ASSUME EmulatorAssumption ==
  /\ Devices \in Seq(Byte) /\ Version \in Byte
  /\ AtBoot \in [Slots -> [Fields -> Nat]] /\ \A i \in Slots, f \in Fields : AtBoot[i][f] < Size(f)
  /\ MinInterval \in 0..(Base * Base - 1) /\ Silence \in Nat /\ Fifo \in Nat \ {0}
  /\ MaxLag \in Nat /\ Silence >= 2 * MaxLag + 1 /\ MaxTrouble \in Nat /\ MaxAstray \in Nat \ {0}
  /\ \A q \in Queries : q \in [to: Byte, cmd: Byte, payload: Seq(Byte)] /\ Len(q.payload) \in Byte
  /\ \A c \in Pokes :
       /\ c.op \in {"set", "enable", "disable", "int", "clrint", "addr"}
       /\ c.op = "set" => c.value \in Int
       /\ c.op = "addr" => c.new \in Byte
  /\ {"PING", "PONG", "SET_OUTPUT", "GET_STATUS", "STATUS", "SET_PARAM", "GET_PARAM", "PARAM_VAL",
      "STREAM_ON", "STREAM_OFF", "STREAM_DATA", "ERROR"} \subseteq DOMAIN Code

VARIABLES
  devs,     \* g_dev
  pinLow,   \* the /INT pin is an output
  fifo,     \* bytes the UART holds
  parser,   \* st, addr, cmd, len, buf
  age,      \* in a frame: ms since last_byte_ms, up to Silence + 1
  lag,      \* ms since rs485_rx_poll took the time
  drain,    \* the main loop is in rs485_rx_poll
  todo,     \* the devices whose streams periodic_tick has still to send
  sends,    \* the frame it drives the bus with, in a sequence, or none
  line,     \* bytes of the frame on the bus that have still to come
  calm,     \* ms since the last byte on the bus, up to Silence + MaxLag + 1
  trouble,  \* how many pokes may still come and bytes be lost
  astray,   \* history: such frames so far, 0 if it waits for an SOF between frames
  query,    \* history: if it did, the last frame as long as none of it is lost, or <<>>
  steady,   \* history: there was no poke since that began
  said      \* history: the addresses of the answers since

emuVars == <<devs, pinLow, fifo, parser, age, lag, drain, todo, sends, line, calm, trouble,
             astray, query, steady, said>>

NotParsing == [st |-> "sof", addr |-> 0, cmd |-> 0, len |-> 0, buf |-> <<>>]

Transmits == sends # <<>>

\* Whatever is asked for, an answer fits the eight bytes of send_status.
EmuTypeOK ==
  /\ \A i \in Slots :
       /\ devs[i].addr \in Byte /\ {devs[i].enabled, devs[i].stream_on, devs[i].int_pending} \subseteq BOOLEAN
       /\ devs[i].interval \in 0..(Base * Base - 1) /\ devs[i].due \in 0..devs[i].interval
       /\ \A f \in Fields : devs[i].val[f] \in 0..(Size(f) - 1)
       /\ devs[i].stream_on => devs[i].interval >= MinInterval
  /\ pinLow \in BOOLEAN /\ fifo \in Seq(Byte) /\ Len(fifo) <= Fifo
  /\ parser.st \in {"sof", "addr", "cmd", "len", "pay", "crc"}
  /\ {parser.addr, parser.cmd, parser.len} \subseteq Byte
  /\ parser.buf \in Seq(Byte) /\ Len(parser.buf) <= parser.len
  /\ age \in 0..(Silence + 1) /\ lag \in 0..MaxLag /\ astray \in 0..MaxAstray /\ drain \in BOOLEAN
  /\ todo \subseteq Slots /\ (drain => todo = {})
  /\ Len(sends) <= 1 /\ \A k \in DOMAIN sends : sends[k].payload \in Seq(Byte) /\ Len(sends[k].payload) <= 8

-----------------------------------------------------------------------------
(* What a device is depends on its address alone. *)

StatusFields(a) ==
  CASE a = 1 -> <<"sl_brightness", "sl_temp_c", "sl_faults">>
    [] a = 2 -> <<"rd_mode", "rd_range_max_m", "rd_sample_rate_hz">>
    [] a = 3 -> <<"pt_pan_deg", "pt_tilt_deg", "pt_moving">>
    [] a = 4 -> <<"lb_brightness", "lb_mode">>
    [] OTHER -> <<>>

OutputFields(a, ch) ==
  CASE a = 1 /\ ch = 0 -> {"sl_brightness"}
    [] a = 3 /\ ch = 0 -> {"pt_pan_deg"}
    [] a = 3 /\ ch = 1 -> {"pt_tilt_deg"}
    [] a = 4 /\ ch = 0 -> {"lb_brightness"}
    [] OTHER           -> {}

ParamFields(a, pid) ==
  CASE a = 1 /\ pid = 1 -> {"sl_p_thermal_lim"}
    [] a = 2 /\ pid = 1 -> {"rd_min_threshold_mm"}
    [] a = 3 /\ pid = 1 -> {"pt_slew_dps"}
    [] a = 3 /\ pid = 2 -> {"pt_soft_limits"}
    [] a = 4 /\ pid = 1 -> {"lb_mode"}
    [] a = 4 /\ pid = 2 -> {"lb_color_rgb565"}
    [] OTHER            -> {}

\* The fields cli_set knows.
SetFields(a) ==
  CASE a = 1 -> {"sl_brightness", "sl_temp_c", "sl_faults"}
    [] a = 2 -> {"rd_distance_mm", "rd_signal", "rd_status", "rd_mode", "rd_range_max_m", "rd_sample_rate_hz"}
    [] a = 3 -> {"pt_pan_deg", "pt_tilt_deg", "pt_moving", "pt_slew_dps"}
    [] a = 4 -> {"lb_brightness", "lb_mode", "lb_color_rgb565"}
    [] OTHER -> {}

WordOf(v) == <<v % Base, v \div Base>>

With(d, fields, v) == [d EXCEPT !.val = [f \in Fields |-> IF f \in fields THEN v ELSE @[f]]]

\* send_status.
StatusOf(d) ==
  [k \in DOMAIN StatusFields(d.addr) |-> d.val[StatusFields(d.addr)[k]] % Base]
    \o IF d.addr = 4 THEN WordOf(d.val["lb_color_rgb565"]) ELSE <<>>

\* send_stream_data; a device without a stream of its own sends its status.
StreamOf(d) ==
  CASE d.addr = 2 -> [from |-> d.addr, cmd |-> Code.STREAM_DATA, payload |->
                        WordOf(d.val["rd_distance_mm"]) \o <<d.val["rd_signal"], d.val["rd_status"]>>]
    [] d.addr = 4 -> [from |-> d.addr, cmd |-> Code.STREAM_DATA, payload |->
                        WordOf((d.val["lb_brightness"] * 47) % (Base * Base))]
    [] OTHER      -> [from |-> d.addr, cmd |-> Code.STATUS, payload |-> StatusOf(d)]

HandleSetOutput(d, ch, v) ==
  With(IF d.addr = 3 THEN With(d, {"pt_moving"}, 1) ELSE d, OutputFields(d.addr, ch), v)

HandleSetParam(d, pid, v) == With(d, ParamFields(d.addr, pid), v)

HandleGetParam(d, pid) ==
  IF ParamFields(d.addr, pid) = {} THEN 0
  ELSE d.val[CHOOSE f \in ParamFields(d.addr, pid) : TRUE]

\* find_dev: the first device with the address.
HasDev(a)  == \E i \in Slots : devs[i].addr = a
FindDev(a) == CHOOSE i \in Slots : devs[i].addr = a /\ \A j \in 1..(i - 1) : devs[j].addr # a

\* What a command does to its device.
Commanded(d, cmd, p) ==
  CASE cmd = Code.SET_OUTPUT /\ Len(p) >= 2 -> HandleSetOutput(d, p[1], p[2])
    [] cmd = Code.SET_PARAM /\ Len(p) >= 3  -> HandleSetParam(d, p[1], p[2] + p[3] * Base)
    [] cmd = Code.STREAM_ON /\ Len(p) >= 2  ->
         LET n == p[1] + p[2] * Base
             interval == IF n < MinInterval THEN MinInterval ELSE n
         IN  [d EXCEPT !.stream_on = TRUE, !.interval = interval, !.due = interval]
    [] cmd = Code.STREAM_OFF                -> [d EXCEPT !.stream_on = FALSE]
    [] OTHER                                -> d

\* What it is answered with, if anything.
ReplyOf(d, cmd, p) ==
  LET Reply(c, payload) == <<[from |-> d.addr, cmd |-> c, payload |-> payload]>>
  IN  CASE cmd = Code.PING -> Reply(Code.PONG, <<Version>>)
        [] cmd \in {Code.GET_STATUS, Code.SET_OUTPUT, Code.STREAM_ON, Code.STREAM_OFF} ->
             Reply(Code.STATUS, StatusOf(d))
        [] cmd = Code.SET_PARAM -> IF Len(p) >= 3 THEN Reply(Code.PARAM_VAL, SubSeq(p, 1, 3)) ELSE <<>>
        [] cmd = Code.GET_PARAM ->
             IF Len(p) >= 1 THEN Reply(Code.PARAM_VAL, <<p[1]>> \o WordOf(HandleGetParam(d, p[1]))) ELSE <<>>
        [] OTHER -> Reply(Code.ERROR, <<1>>)

\* A broadcast, and a frame for nobody here, change nothing.
Ignored(a) == a = Everyone \/ ~HasDev(a) \/ ~devs[FindDev(a)].enabled

EmuDispatch(a, cmd, p) ==
  IF Ignored(a) THEN UNCHANGED <<devs, sends, said>>
  ELSE LET i == FindDev(a)
           d == Commanded(devs[i], cmd, p)
       IN  /\ devs' = [devs EXCEPT ![i] = d]
           /\ sends' = ReplyOf(d, cmd, p)
           /\ said' = IF query = <<>> THEN <<>> ELSE said \o [k \in DOMAIN sends' |-> sends'[k].from]

-----------------------------------------------------------------------------
(* The main loop *)

\* rs485_rx_poll takes the time and gives a frame up if the line was silent.
PollBegins ==
  /\ ~drain /\ ~Transmits /\ todo = {}
  /\ drain' = TRUE /\ lag' = 0
  /\ parser' = IF parser.st # "sof" /\ age > Silence THEN NotParsing ELSE parser
  /\ astray' = IF line = <<>> /\ fifo = <<>> /\ calm = Silence + MaxLag + 1 THEN 0 ELSE astray
  /\ UNCHANGED <<devs, pinLow, fifo, age, todo, sends, line, calm, trouble, query, steady, said>>

\* A bug: the silence is counted from the SOF, as the slave framework does.
AgeWithByteFault == IF parser.st = "sof" THEN lag ELSE age

\* last_byte_ms is the time the poll began.
AgeWithByte == lag

\* What a byte makes of the parser p.
Parsed(p, b) ==
  CASE p.st = "sof"  -> IF b = Sof THEN [NotParsing EXCEPT !.st = "addr"] ELSE p
    [] p.st = "addr" -> [p EXCEPT !.addr = b, !.st = "cmd"]
    [] p.st = "cmd"  -> [p EXCEPT !.cmd = b, !.st = "len"]
    [] p.st = "len"  -> [p EXCEPT !.len = b, !.buf = <<>>, !.st = IF b = 0 THEN "crc" ELSE "pay"]
    [] p.st = "pay"  -> [p EXCEPT !.buf = Append(@, b), !.st = IF Len(p.buf) + 1 >= p.len THEN "crc" ELSE "pay"]
    [] p.st = "crc"  -> NotParsing

\* It takes a byte; a frame whose CRC is right is dispatched.
TakeRsByte ==
  /\ drain /\ ~Transmits /\ fifo # <<>> /\ fifo' = Tail(fifo)
  /\ parser' = Parsed(parser, Head(fifo)) /\ age' = IF parser'.st = "sof" THEN 0 ELSE AgeWithByte
  /\ IF parser.st = "crc" /\ Head(fifo) = Crc(<<parser.addr, parser.cmd, parser.len>> \o parser.buf)
       THEN EmuDispatch(parser.addr, parser.cmd, parser.buf) ELSE UNCHANGED <<devs, sends, said>>
  /\ UNCHANGED <<pinLow, lag, drain, todo, line, calm, trouble, astray, query, steady>>

\* rs485_tx returns.
TxEnds ==
  /\ Transmits /\ sends' = <<>>
  /\ UNCHANGED <<devs, pinLow, fifo, parser, age, lag, drain, todo, line, calm, trouble,
                 astray, query, steady, said>>

\* periodic_tick drives /INT and takes the time for all streams.
PeriodicTick ==
  /\ drain /\ ~Transmits /\ fifo = <<>> /\ drain' = FALSE
  /\ pinLow' = \E i \in Slots : devs[i].enabled /\ devs[i].int_pending
  /\ todo' = {i \in Slots : devs[i].enabled /\ devs[i].stream_on /\ devs[i].due = 0}
  /\ devs' = [i \in Slots |-> IF i \in todo' THEN [devs[i] EXCEPT !.due = @ + devs[i].interval] ELSE devs[i]]
  /\ UNCHANGED <<fifo, parser, age, lag, sends, line, calm, trouble, astray, query, steady, said>>

\* A device that was disabled meanwhile is passed over.
SendStream ==
  /\ ~Transmits /\ todo # {}
  /\ LET i == CHOOSE x \in todo : \A y \in todo : x <= y
     IN  /\ todo' = todo \ {i}
         /\ IF devs[i].enabled THEN sends' = <<StreamOf(devs[i])>> /\ UNCHANGED devs
                               ELSE devs' = [devs EXCEPT ![i].due = 0] /\ UNCHANGED sends
  /\ UNCHANGED <<pinLow, fifo, parser, age, lag, drain, line, calm, trouble, astray, query,
                 steady, said>>

-----------------------------------------------------------------------------
(* The console and the web page *)

\* cli_set.
Poked(d, field, v) ==
  IF field \in SetFields(d.addr) THEN With(d, {field}, v % Size(field)) ELSE d

\* Both know set, enable, disable, int and clrint; only the console knows addr.
PokeDevice(c) ==
  /\ trouble > 0 /\ trouble' = trouble - 1 /\ steady' = (query = <<>>)
  /\ HasDev(c.addr)
  /\ devs' = [devs EXCEPT ![FindDev(c.addr)] =
                CASE c.op = "set"     -> Poked(@, c.field, c.value)
                  [] c.op = "enable"  -> [@ EXCEPT !.enabled = TRUE]
                  [] c.op = "disable" -> [@ EXCEPT !.enabled = FALSE]
                  [] c.op = "int"     -> [@ EXCEPT !.int_pending = TRUE]
                  [] c.op = "clrint"  -> [@ EXCEPT !.int_pending = FALSE]
                  [] c.op = "addr"    -> [@ EXCEPT !.addr = c.new]]
  /\ UNCHANGED <<pinLow, fifo, parser, age, lag, drain, todo, sends, line, calm,
                 astray, query, said>>

\* app_http, in an interrupt.
AppHttp(c) == c.op # "addr" /\ PokeDevice(c)

\* A line for cli_poll, after the streams.
CliPoll(c) == ~drain /\ ~Transmits /\ todo = {} /\ PokeDevice(c)

-----------------------------------------------------------------------------
(* The bus *)

\* The master, or a peripheral, begins a frame.
AskBegins(q) ==
  /\ line = <<>> /\ line' = Bytes(q)
  /\ IF astray = 0 THEN UNCHANGED astray ELSE astray < MaxAstray /\ astray' = astray + 1
  /\ query' = IF astray = 0 /\ fifo = <<>> THEN <<q>> ELSE <<>>
  /\ steady' = TRUE /\ said' = <<>>
  /\ UNCHANGED <<devs, pinLow, fifo, parser, age, lag, drain, todo, sends, calm, trouble>>

\* A byte comes or is lost, to noise or because this node sends.  The UART has
\* room for what comes in MaxLag ms.
AskByte ==
  /\ line # <<>> /\ line' = Tail(line) /\ calm' = 0
  /\ \/ /\ ~Transmits /\ Len(fifo) < Fifo /\ fifo' = Append(fifo, Head(line))
        /\ UNCHANGED <<trouble, astray, query, steady, said>>
     \/ /\ trouble > 0 /\ trouble' = trouble - 1 /\ UNCHANGED fifo
        /\ astray' = (IF astray = 0 THEN 1 ELSE astray) /\ query' = <<>> /\ steady' = TRUE /\ said' = <<>>
  /\ UNCHANGED <<devs, pinLow, parser, age, lag, drain, todo, sends>>

\* A millisecond passes: less than that between two bytes of a frame.
EmuTick ==
  /\ lag < MaxLag /\ lag' = lag + 1
  /\ line # <<>> => calm = 0
  /\ age' = (IF parser.st = "sof" THEN 0 ELSE Aged(age, Silence + 1)) /\ calm' = Aged(calm, Silence + MaxLag + 1)
  /\ devs' = [i \in Slots |-> [devs[i] EXCEPT !.due = IF @ > 0 THEN @ - 1 ELSE 0]]
  /\ UNCHANGED <<pinLow, fifo, parser, drain, todo, sends, line, trouble, astray, query,
                 steady, said>>

EmuInit ==
  /\ devs = [i \in Slots |-> [addr |-> Devices[i], enabled |-> TRUE, stream_on |-> FALSE, interval |-> 0,
                              due |-> 0, int_pending |-> FALSE, val |-> AtBoot[i]]]
  /\ pinLow = FALSE /\ fifo = <<>> /\ parser = NotParsing /\ age = 0 /\ lag = 0
  /\ drain = FALSE /\ todo = {} /\ sends = <<>> /\ line = <<>> /\ query = <<>> /\ calm = 0
  /\ trouble = MaxTrouble
  /\ astray = 0 /\ steady = TRUE /\ said = <<>>

EmuNext ==
  \/ PollBegins \/ TakeRsByte \/ TxEnds \/ PeriodicTick \/ SendStream
  \/ \E c \in Pokes : CliPoll(c) \/ AppHttp(c)
  \/ \E q \in Queries : AskBegins(q)
  \/ AskByte \/ EmuTick

-----------------------------------------------------------------------------
\* A frame that arrives whole, at a receiver in step, is answered at most once and
\* by the device that was asked; if nobody touched the devices meanwhile, it is
\* answered if and only if such a device is there and enabled and the frame has the
\* parameters the command needs.  In step is also the receiver after a silence,
\* whatever it had taken for a frame: also where the loop reads the clock late.
AnswersOnce ==
  line = <<>> /\ fifo = <<>> /\ ~drain => \A k \in DOMAIN query :
    LET q == query[k]
    IN  /\ said \in {<<>>, <<q.to>>}
        /\ steady => (said # <<>> <=> /\ ~Ignored(q.to)
                                      /\ Len(q.payload) >= CASE q.cmd = Code.SET_PARAM -> 3
                                                              [] q.cmd = Code.GET_PARAM -> 1
                                                              [] OTHER                  -> 0)

=============================================================================
