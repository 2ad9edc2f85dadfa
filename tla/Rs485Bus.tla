------------------------------ MODULE Rs485Bus ------------------------------
(***************************************************************************)
(* The RS-485 peripheral bus: rs485_task of the Pico as the master         *)
(* (rs485.c) and the peripherals that run the slave framework              *)
(* (rs485_slave.c).  One element of fifo is one frame in the 32-byte RX    *)
(* FIFO of the master's UART, which rs485_task reads inside an exchange    *)
(* only and never flushes.                                                 *)
(*                                                                         *)
(* Timing.  A peripheral polls its UART at least once per millisecond and  *)
(* its handlers do not block, so it answers within the 50 ms of rs485_recv *)
(* and within the 2 ms that follow an exchange of the sweep; nothing makes *)
(* the master wait for an answer between two commands of the Pi.  A        *)
(* streaming peripheral waits for a quiet bus, so it does not cut in       *)
(* between a request and its answer.                                       *)
(***************************************************************************)
EXTENDS Integers, Sequences, FiniteSets

CONSTANTS
  N,            \* the number of known addresses, polled in the order 1..N
  Streamers,    \* the peripherals with a build_stream callback
  Kinds,        \* the commands the Pi may ask to forward
  CmdDepth,     \* RS485_CMD_QUEUE_DEPTH
  FifoDepth     \* frames the master's UART FIFO holds

Addrs     == 1..N
Broadcast == 0            \* RS485_ADDR_BROADCAST
NoFrame   == [from |-> Broadcast, cmd |-> "NONE", ok |-> FALSE]

AllKinds == {"PING", "GET_STATUS", "SET_OUTPUT", "STREAM_ON", "STREAM_OFF", "UNKNOWN"}

ASSUME SizeAssumption   == N \in Nat \ {0} /\ CmdDepth \in Nat \ {0} /\ FifoDepth \in Nat \ {0}
ASSUME StreamAssumption == Streamers \subseteq Addrs
ASSUME KindsAssumption  == Kinds \subseteq AllKinds

Command == [to : Addrs \cup {Broadcast}, cmd : Kinds]
Frame   == [from : Addrs, cmd : {"PONG", "STATUS", "ACK", "STREAM_DATA"}, ok : BOOLEAN]

VARIABLES
  at,         \* where rs485_task is in its loop
  idx,        \* i of the sweep in progress
  to,         \* the address of the exchange in progress
  due,        \* now - last_ping >= RS485_PING_INTERVAL_MS
  cmdq,       \* s_cmd_queue
  online,     \* s_online
  fifo,       \* the master's UART RX FIFO
  ans,        \* the answer a peripheral is about to send, or NoFrame
  present,    \* the peripherals that are powered and plugged in
  streaming,  \* those with s_stream_interval # 0
  noisy       \* frames may be lost or garbled

busVars    == <<fifo, ans>>
slaveVars  == <<present, streaming>>
masterVars == <<at, idx, to, due, cmdq, online>>
vars == <<masterVars, busVars, slaveVars, noisy>>

Receiving == {"cmdRecv", "intRecv", "pingRecv"}
Points    == {"cmd", "intCheck", "int", "intGap", "pingCheck", "ping", "pingGap", "sleep"}

TypeOK ==
  /\ at \in Receiving \cup Points
  /\ idx \in 1..(N + 1) /\ to \in Addrs \cup {Broadcast}
  /\ at \in {"intRecv", "intGap", "pingRecv", "pingGap"} => idx \in Addrs
  /\ due \in BOOLEAN /\ noisy \in BOOLEAN
  /\ cmdq \in Seq(Command) /\ Len(cmdq) <= CmdDepth
  /\ fifo \in Seq(Frame) /\ Len(fifo) <= FifoDepth
  /\ ans \in Frame \cup {NoFrame}
  /\ online \subseteq Addrs /\ present \subseteq Addrs
  /\ streaming \subseteq Streamers \cap present

Init ==
  /\ at = "cmd" /\ idx = 1 /\ to = 1
  /\ due = FALSE
  /\ cmdq = <<>> /\ online = {}
  /\ fifo = <<>> /\ ans = NoFrame
  /\ present \in SUBSET Addrs /\ streaming = {}
  /\ noisy \in BOOLEAN

-----------------------------------------------------------------------------
(* The peripherals: dispatch() of rs485_slave.c *)

Reply(a, reply) == [from |-> a, cmd |-> reply, ok |-> TRUE]

\* The answer of the addressed peripheral.  Broadcasts, the stream commands and
\* commands without a handler are not answered.
Answer(a, cmd) ==
  IF a \notin present THEN NoFrame
  ELSE CASE cmd = "PING"       -> Reply(a, "PONG")
         [] cmd = "GET_STATUS" -> Reply(a, "STATUS")
         [] cmd = "SET_OUTPUT" -> Reply(a, "ACK")
         [] OTHER              -> NoFrame

Hearers(a) == IF a = Broadcast THEN present ELSE {a} \cap present

\* Whom a stream command leaves streaming.
StreamingAfter(a, cmd) ==
  CASE cmd = "STREAM_ON"  -> streaming \cup (Hearers(a) \cap Streamers)
    [] cmd = "STREAM_OFF" -> streaming \ Hearers(a)
    [] OTHER              -> streaming

\* rs485_send.  The request collides with an answer that is still being sent, and
\* may collide with a stream frame; noise may destroy it as well.
Transmit(a, cmd) ==
  /\ to' = a
  /\ \/ /\ ans = NoFrame
        /\ ans' = Answer(a, cmd)
        /\ streaming' = StreamingAfter(a, cmd)
     \/ /\ ans # NoFrame \/ noisy \/ streaming # {}
        /\ ans' = NoFrame
        /\ UNCHANGED streaming
  /\ UNCHANGED <<fifo, present, noisy>>

Arrive(frame) == fifo' = IF Len(fifo) < FifoDepth THEN Append(fifo, frame) ELSE fifo

SlaveAnswer ==
  /\ ans # NoFrame
  /\ \/ Arrive(ans)
     \/ noisy /\ Arrive([ans EXCEPT !.ok = FALSE])
     \/ noisy /\ UNCHANGED fifo
  /\ ans' = NoFrame
  /\ UNCHANGED <<masterVars, slaveVars, noisy>>

\* stream_tick: the interval has passed and the bus is quiet.
StreamTick(a) ==
  /\ a \in streaming /\ ans = NoFrame
  /\ Arrive(Reply(a, "STREAM_DATA"))
  /\ UNCHANGED <<masterVars, ans, slaveVars, noisy>>

-----------------------------------------------------------------------------
(* rs485_task *)

\* Operators named ...Fault are faulty variants of the definition that follows
\* them.  Nothing uses them but the mutation runs.

PiCommandFault(command) ==    \* no depth
  /\ cmdq' = Append(cmdq, command)
  /\ UNCHANGED <<at, idx, to, due, online, busVars, slaveVars, noisy>>

\* rs485_forward_cmd, called by the task that handles the Pi's frames: a full
\* queue drops the command.
PiCommand(command) ==
  /\ cmdq' = IF Len(cmdq) < CmdDepth THEN Append(cmdq, command) ELSE cmdq
  /\ UNCHANGED <<at, idx, to, due, online, busVars, slaveVars, noisy>>

\* The queue is drained before anything else happens.  Every item has a header:
\* proto_handle_rx hands over nothing shorter than three bytes.
CmdStep ==
  /\ at = "cmd"
  /\ \/ /\ cmdq = <<>>
        /\ at' = "intCheck"
        /\ UNCHANGED <<cmdq, to, busVars, slaveVars, noisy>>
     \/ /\ cmdq # <<>>
        /\ cmdq' = Tail(cmdq)
        /\ Transmit(Head(cmdq).to, Head(cmdq).cmd)
        /\ at' = "cmdRecv"
  /\ UNCHANGED <<idx, due, online>>

\* /INT is shared: while any peripheral holds it low, all online ones are polled.
IntCheck(low) ==
  /\ at = "intCheck"
  /\ at' = IF low THEN "int" ELSE "pingCheck"
  /\ idx' = 1
  /\ UNCHANGED <<to, due, cmdq, online, busVars, slaveVars, noisy>>

IntStep ==
  /\ at = "int"
  /\ \/ /\ idx > N
        /\ at' = "pingCheck"
        /\ UNCHANGED <<idx, to, busVars, slaveVars, noisy>>
     \/ /\ idx <= N /\ idx \notin online
        /\ idx' = idx + 1
        /\ UNCHANGED <<at, to, busVars, slaveVars, noisy>>
     \/ /\ idx <= N /\ idx \in online
        /\ Transmit(idx, "GET_STATUS")
        /\ at' = "intRecv"
        /\ UNCHANGED idx
  /\ UNCHANGED <<due, cmdq, online>>

PingCheck ==
  /\ at = "pingCheck"
  /\ at' = IF due THEN "ping" ELSE "sleep"
  /\ idx' = 1 /\ due' = FALSE
  /\ UNCHANGED <<to, cmdq, online, busVars, slaveVars, noisy>>

PingStepFault ==              \* the last address is left out
  /\ at = "ping"
  /\ \/ /\ idx >= N
        /\ at' = "sleep"
        /\ UNCHANGED <<to, busVars, slaveVars, noisy>>
     \/ /\ idx < N
        /\ Transmit(idx, "PING")
        /\ at' = "pingRecv"
  /\ UNCHANGED <<idx, due, cmdq, online>>

PingStep ==
  /\ at = "ping"
  /\ \/ /\ idx > N
        /\ at' = "sleep"
        /\ UNCHANGED <<to, busVars, slaveVars, noisy>>
     \/ /\ idx <= N
        /\ Transmit(idx, "PING")
        /\ at' = "pingRecv"
  /\ UNCHANGED <<idx, due, cmdq, online>>

TimeoutFault  == fifo = <<>>      \* shorter than a peripheral may take
ConsumedFault == fifo' = IF fifo = <<>> \/ ~Head(fifo).ok THEN fifo ELSE Tail(fifo)

\* rs485_recv ends with the first frame in the FIFO, whoever sent it and whenever,
\* or with the timeout.
Timeout  == fifo = <<>> /\ ans = NoFrame
Returns  == Timeout \/ fifo # <<>>
Good     == fifo # <<>> /\ Head(fifo).ok
Consumed == fifo' = IF fifo = <<>> THEN fifo ELSE Tail(fifo)

\* A good frame goes to the Pi and to the screen: neither is part of this state.
ForwardAnswer ==
  /\ at \in {"cmdRecv", "intRecv"} /\ Returns
  /\ Consumed
  /\ at' = IF at = "cmdRecv" THEN "cmd" ELSE "intGap"
  /\ UNCHANGED <<idx, to, due, cmdq, online, ans, slaveVars, noisy>>

NowOnlineFault == fifo # <<>>     \* whatever rs485_recv returned

\* The sender of the frame is not looked at.
NowOnline == Good /\ Head(fifo).cmd = "PONG"

Judge ==
  /\ at = "pingRecv" /\ Returns
  /\ Consumed
  /\ online' = IF NowOnline THEN online \cup {idx} ELSE online \ {idx}
  /\ at' = "pingGap"
  /\ UNCHANGED <<idx, to, due, cmdq, ans, slaveVars, noisy>>

\* The inter-frame gap: an answer in flight has arrived when it ends.
Gap ==
  /\ at \in {"intGap", "pingGap"} /\ ans = NoFrame
  /\ at' = IF at = "intGap" THEN "int" ELSE "ping"
  /\ idx' = idx + 1
  /\ UNCHANGED <<to, due, cmdq, online, busVars, slaveVars, noisy>>

Wake ==
  /\ at = "sleep" /\ ans = NoFrame
  /\ at' = "cmd"
  /\ UNCHANGED <<idx, to, due, cmdq, online, busVars, slaveVars, noisy>>

-----------------------------------------------------------------------------
(* The surroundings *)

SecondPasses ==
  /\ due' = TRUE
  /\ UNCHANGED <<at, idx, to, cmdq, online, busVars, slaveVars, noisy>>

\* A peripheral that comes up starts without a stream.  One that goes does not
\* finish its answer.
Plug(a) ==
  /\ a \notin present
  /\ present' = present \cup {a}
  /\ UNCHANGED <<masterVars, busVars, streaming, noisy>>

Unplug(a) ==
  /\ a \in present
  /\ present' = present \ {a}
  /\ streaming' = streaming \ {a}
  /\ ans' = IF ans # NoFrame /\ ans.from = a THEN NoFrame ELSE ans
  /\ UNCHANGED <<masterVars, fifo, noisy>>

Noise ==
  /\ noisy' = ~noisy
  /\ UNCHANGED <<masterVars, busVars, slaveVars>>

MasterStep ==
  \/ CmdStep \/ IntStep \/ PingCheck \/ PingStep
  \/ \E low \in BOOLEAN : IntCheck(low)
  \/ ForwardAnswer \/ Judge \/ Gap \/ Wake

Next ==
  \/ MasterStep \/ SlaveAnswer \/ SecondPasses \/ Noise
  \/ \E command \in Command : PiCommand(command)
  \/ \E a \in Addrs : StreamTick(a) \/ Plug(a) \/ Unplug(a)

Spec == Init /\ [][Next]_vars

\* rs485_task is scheduled, time passes, and a peripheral with an answer sends it.
Fairness == WF_vars(MasterStep) /\ WF_vars(SlaveAnswer) /\ WF_vars(SecondPasses)
FairSpec == Spec /\ Fairness

-----------------------------------------------------------------------------
(* Properties *)

\* Without streaming the bus is in step: whenever the master turns to something
\* new nothing is left in its FIFO or on its way, and what it receives comes from
\* the address it asked.  Every attribution of rs485.c 222-268 rests on this.
FromAsked(frame) == frame.from = to
InStep ==
  /\ at \notin Receiving => fifo = <<>> /\ ans = NoFrame
  /\ ans # NoFrame => fifo = <<>> /\ FromAsked(ans)
  /\ Len(fifo) <= 1
  /\ \A i \in DOMAIN fifo : FromAsked(fifo[i])

\* Without streaming the registry is that of PeripheralHealth: a peripheral is
\* online iff it answered its own last PING.
Pongs  == {a \in Addrs : \E i \in DOMAIN fifo : fifo[i] = Reply(a, "PONG")}
Health == INSTANCE PeripheralHealth WITH answered <- Pongs
RegistryIsHealth == Health!Spec

\* The sweep is not starved by the Pi's commands.
Sweeping == []<>(at = "intCheck")

\* Without streaming the registry ends up true once noise and changes cease.
RegistryFollows ==
  \A P \in SUBSET Addrs :
    <>[](present = P /\ ~noisy) /\ Sweeping => <>[](online = P)

\* With streaming it does once the streams cease too, provided a known address is
\* vacant: each PING to it drains one stale frame.  (With all peripherals present
\* one stale frame shifts every answer for good.)
RegistrySettles ==
  \A P \in (SUBSET Addrs) \ {Addrs} :
    <>[](present = P /\ ~noisy /\ streaming = {}) /\ Sweeping => <>[](online = P)

=============================================================================
