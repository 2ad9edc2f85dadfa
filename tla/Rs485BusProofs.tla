--------------------------- MODULE Rs485BusProofs ---------------------------
(***************************************************************************)
(* Theorems about Rs485Bus, for every number of known addresses, every set *)
(* of commands, every queue depth and every depth of the UART FIFO.        *)
(***************************************************************************)
EXTENDS Rs485Bus, TLAPS

USE DEF Addrs

LEMMA Constants ==
  /\ N \in Nat /\ 1 <= N /\ CmdDepth \in Nat /\ 1 <= CmdDepth
  /\ FifoDepth \in Nat /\ 1 <= FifoDepth
BY SizeAssumption

LEMMA ReplyType ==
  ASSUME NEW a \in Addrs, NEW reply \in {"PONG", "STATUS", "ACK", "STREAM_DATA"}
  PROVE  Reply(a, reply) \in Frame
<1>1. TRUE \in BOOLEAN
  OBVIOUS
<1>2. QED  BY <1>1, Zenon DEF Reply, Frame

\* Whatever is sent, the addressed peripheral answers with a frame of its own or
\* not at all.
LEMMA AnswerType ==
  ASSUME TypeOK, NEW a \in Addrs \cup {Broadcast}, NEW cmd \in AllKinds
  PROVE  /\ Answer(a, cmd) \in Frame \cup {NoFrame}
         /\ Answer(a, cmd) # NoFrame => Answer(a, cmd).from = a /\ a \in present
<1>1. CASE a \notin present
  BY <1>1 DEF Answer
<1>2. CASE a \in present
  <2>1. a \in Addrs
    BY <1>2 DEF TypeOK
  <2>2. \A r \in {"PONG", "STATUS", "ACK"} : Reply(a, r) \in Frame /\ Reply(a, r).from = a
    BY <2>1, ReplyType DEF Reply
  <2>3. Answer(a, cmd) \in {Reply(a, "PONG"), Reply(a, "STATUS"), Reply(a, "ACK"), NoFrame}
    BY <1>2 DEF Answer, AllKinds
  <2>4. QED
    BY <1>2, <2>2, <2>3
<1>3. QED
  BY <1>1, <1>2

\* The FIFO takes a frame or loses it.
LEMMA ArriveType ==
  ASSUME TypeOK, NEW frame \in Frame, Arrive(frame)
  PROVE  fifo' \in Seq(Frame) /\ Len(fifo') <= FifoDepth
<1>1. CASE Len(fifo) < FifoDepth
  BY <1>1, Constants DEF TypeOK, Arrive
<1>2. CASE ~(Len(fifo) < FifoDepth)
  BY <1>2 DEF TypeOK, Arrive
<1>3. QED  BY <1>1, <1>2

LEMMA ConsumedType ==
  ASSUME TypeOK, Consumed
  PROVE  fifo' \in Seq(Frame) /\ Len(fifo') <= FifoDepth
<1>1. CASE fifo = <<>>
  BY <1>1 DEF TypeOK, Consumed
<1>2. CASE fifo # <<>>
  BY <1>2, Constants DEF TypeOK, Consumed
<1>3. QED  BY <1>1, <1>2

\* What sending a request leaves of the types.
LEMMA TransmitType ==
  ASSUME TypeOK, NEW a \in Addrs \cup {Broadcast}, NEW cmd \in AllKinds, Transmit(a, cmd)
  PROVE  /\ to' = a
         /\ ans' \in Frame \cup {NoFrame}
         /\ streaming' \subseteq Streamers \cap present
         /\ UNCHANGED <<fifo, present, noisy>>
<1>1. to' = a /\ UNCHANGED <<fifo, present, noisy>>
  BY Zenon DEF Transmit
<1>2. CASE ans' = Answer(a, cmd) /\ streaming' = StreamingAfter(a, cmd)
  <2>1. streaming' \subseteq Streamers \cap present
    BY <1>2 DEF StreamingAfter, Hearers, TypeOK
  <2>2. QED
    BY <1>1, <1>2, <2>1, AnswerType
<1>3. CASE ans' = NoFrame /\ UNCHANGED streaming
  BY <1>1, <1>3 DEF TypeOK
<1>4. QED
  BY <1>2, <1>3, Zenon DEF Transmit

LEMMA InitType == Init => TypeOK
<1> SUFFICES ASSUME Init PROVE TypeOK
  OBVIOUS
<1>1. due \in BOOLEAN /\ noisy \in BOOLEAN
  BY Zenon DEF Init
<1>2. 1 \in 1..(N + 1) /\ 1 \in Addrs
  BY Constants
<1>3. cmdq \in Seq(Command) /\ Len(cmdq) <= CmdDepth /\ fifo \in Seq(Frame) /\ Len(fifo) <= FifoDepth
  BY Constants DEF Init
<1>4. QED
  BY <1>1, <1>2, <1>3 DEF Init, TypeOK, Receiving, Points

LEMMA FlagsType ==
  ASSUME due \in BOOLEAN, noisy \in BOOLEAN, [Next]_vars
  PROVE  due' \in BOOLEAN /\ noisy' \in BOOLEAN
<1>1. CASE CmdStep \/ IntStep \/ PingStep
  BY <1>1, Zenon DEF CmdStep, IntStep, PingStep, Transmit
<1>2. CASE PingCheck \/ ForwardAnswer \/ Judge \/ Gap \/ Wake \/ \E low \in BOOLEAN : IntCheck(low)
  BY <1>2, Zenon DEF PingCheck, ForwardAnswer, Judge, Gap, Wake, IntCheck
<1>3. CASE SlaveAnswer \/ SecondPasses \/ Noise
  BY <1>3, Zenon DEF SlaveAnswer, SecondPasses, Noise, masterVars
<1>4. CASE \E command \in Command : PiCommand(command)
  BY <1>4, Zenon DEF PiCommand
<1>5. CASE \E a \in Addrs : StreamTick(a) \/ Plug(a) \/ Unplug(a)
  BY <1>5, Zenon DEF StreamTick, Plug, Unplug, masterVars
<1>6. CASE UNCHANGED vars
  BY <1>6, Zenon DEF vars, masterVars
<1>7. QED
  BY <1>1, <1>2, <1>3, <1>4, <1>5, <1>6 DEF Next, MasterStep

\* Type correctness: one step per action of the master, the peripherals and the
\* surroundings.
LEMMA NextType ==
  ASSUME TypeOK, [Next]_vars
  PROVE  TypeOK'
<1>f. due' \in BOOLEAN /\ noisy' \in BOOLEAN
  BY FlagsType, Zenon DEF TypeOK
<1>i. idx \in Int
  BY DEF TypeOK
<1> USE <1>f, Constants DEF Receiving, Points
<1>1. CASE CmdStep
  <2>1. CASE cmdq = <<>>
    BY <1>1, <2>1 DEF CmdStep, TypeOK, busVars, slaveVars
  <2>2. CASE cmdq # <<>>
    <3>0. /\ Head(cmdq) \in Command
          /\ Tail(cmdq) \in Seq(Command) /\ Len(Tail(cmdq)) <= CmdDepth
      BY <2>2 DEF TypeOK
    <3>1. Head(cmdq).to \in Addrs \cup {Broadcast} /\ Head(cmdq).cmd \in AllKinds
      BY <3>0, KindsAssumption DEF Command
    <3>2. cmdq' \in Seq(Command) /\ Len(cmdq') <= CmdDepth
      BY <1>1, <2>2, <3>0 DEF CmdStep
    <3>3. Transmit(Head(cmdq).to, Head(cmdq).cmd) /\ at' = "cmdRecv"
      BY <1>1, <2>2 DEF CmdStep
    <3>4. QED
      BY <1>1, <3>1, <3>2, <3>3, TransmitType DEF CmdStep, TypeOK
  <2>3. QED
    BY <2>1, <2>2
<1>2. ASSUME NEW low \in BOOLEAN, IntCheck(low) PROVE TypeOK'
  BY <1>2 DEF IntCheck, TypeOK, busVars, slaveVars
<1>3. CASE IntStep
  <2>1. CASE idx > N \/ idx \notin online
    <3>1. /\ \/ at' = "pingCheck" /\ idx' = idx
             \/ at' = "int" /\ idx <= N /\ idx' = idx + 1
          /\ UNCHANGED <<to, due, cmdq, online, fifo, ans, present, streaming>>
      BY <1>3, <1>i, <2>1 DEF IntStep, busVars, slaveVars
    <3>2. QED
      BY <3>1 DEF TypeOK
  <2>2. CASE idx <= N /\ idx \in online
    <3>1. Transmit(idx, "GET_STATUS") /\ at' = "intRecv" /\ UNCHANGED idx
      BY <1>3, <2>2 DEF IntStep, TypeOK
    <3>2. QED
      BY <1>3, <2>2, <3>1, TransmitType DEF IntStep, TypeOK, AllKinds
  <2>3. QED
    BY <1>i, <2>1, <2>2
<1>4. CASE PingCheck
  BY <1>4 DEF PingCheck, TypeOK, busVars, slaveVars
<1>5. CASE PingStep
  <2>1. CASE idx > N
    <3>1. at' = "sleep" /\ UNCHANGED <<idx, to, due, cmdq, online, fifo, ans, present, streaming>>
      BY <1>5, <1>i, <2>1 DEF PingStep, busVars, slaveVars
    <3>2. QED
      BY <3>1 DEF TypeOK
  <2>2. CASE idx <= N
    <3>1. Transmit(idx, "PING") /\ at' = "pingRecv" /\ idx \in Addrs
      BY <1>5, <2>2 DEF PingStep, TypeOK
    <3>2. QED
      BY <1>5, <3>1, TransmitType DEF PingStep, TypeOK, AllKinds
  <2>3. QED
    BY <1>i, <2>1, <2>2
<1>6. CASE ForwardAnswer
  BY <1>6, ConsumedType DEF ForwardAnswer, TypeOK, slaveVars
<1>7. CASE Judge
  <2>1. online' \subseteq Addrs
    BY <1>7 DEF Judge, TypeOK
  <2>2. QED
    BY <1>7, <2>1, ConsumedType DEF Judge, TypeOK, slaveVars
<1>8. CASE Gap
  BY <1>8 DEF Gap, TypeOK, busVars, slaveVars
<1>9. CASE Wake
  BY <1>9 DEF Wake, TypeOK, busVars, slaveVars
<1>10. CASE SlaveAnswer
  <2>1. ans \in Frame /\ [ans EXCEPT !.ok = FALSE] \in Frame
    <3>1. ans \in Frame
      BY <1>10 DEF SlaveAnswer, TypeOK
    <3>2. FALSE \in BOOLEAN
      OBVIOUS
    <3>3. QED
      BY <3>1, <3>2, Zenon DEF Frame
  <2>2. fifo' \in Seq(Frame) /\ Len(fifo') <= FifoDepth
    BY <1>10, <2>1, ArriveType DEF SlaveAnswer, TypeOK
  <2>3. QED
    BY <1>10, <2>2 DEF SlaveAnswer, TypeOK, masterVars, slaveVars
<1>11. CASE SecondPasses
  BY <1>11 DEF SecondPasses, TypeOK, busVars, slaveVars
<1>12. CASE Noise
  BY <1>12 DEF Noise, TypeOK, masterVars, busVars, slaveVars
<1>13. ASSUME NEW command \in Command, PiCommand(command) PROVE TypeOK'
  <2>1. cmdq' \in Seq(Command) /\ Len(cmdq') <= CmdDepth
    BY <1>13 DEF PiCommand, TypeOK
  <2>2. QED
    BY <1>13, <2>1 DEF PiCommand, TypeOK, busVars, slaveVars
<1>14. ASSUME NEW a \in Addrs, StreamTick(a) PROVE TypeOK'
  <2>1. fifo' \in Seq(Frame) /\ Len(fifo') <= FifoDepth
    BY <1>14, ReplyType, ArriveType DEF StreamTick
  <2>2. QED
    BY <1>14, <2>1 DEF StreamTick, TypeOK, masterVars, slaveVars
<1>15. ASSUME NEW a \in Addrs, Plug(a) PROVE TypeOK'
  BY <1>15 DEF Plug, TypeOK, masterVars, busVars
<1>16. ASSUME NEW a \in Addrs, Unplug(a) PROVE TypeOK'
  BY <1>16 DEF Unplug, TypeOK, masterVars
<1>17. CASE UNCHANGED vars
  BY <1>17 DEF TypeOK, vars, masterVars, busVars, slaveVars
<1>18. QED
  BY <1>1, <1>2, <1>3, <1>4, <1>5, <1>6, <1>7, <1>8, <1>9, <1>10, <1>11, <1>12, <1>13,
     <1>14, <1>15, <1>16, <1>17 DEF Next, MasterStep

\* The types of the bus: the command queue and the UART FIFO never outgrow their
\* depths, and only peripherals that can stream do.
THEOREM TypeCorrect == Spec => []TypeOK
<1>1. QED  BY InitType, NextType, PTL DEF Spec

-----------------------------------------------------------------------------
(* A bus on which nobody streams *)

\* InStep, with what it rests on: nobody streams, the sweep waits for the answer
\* of the address it is at, and the answer is that of a peripheral on the bus.
QuietInv ==
  /\ streaming = {}
  /\ at = "pingRecv" => to = idx
  /\ ans # NoFrame => at \in Receiving /\ ans.from \in present
  /\ fifo # <<>> => at \in Receiving
  /\ InStep

LEMMA QuietInit == Init => QuietInv
BY DEF Init, QuietInv, InStep, Receiving

\* The bus is idle when a request is sent, so it is heard or lost, and only the
\* addressed peripheral may answer.
LEMMA TransmitQuiet ==
  ASSUME Streamers = {}, TypeOK, QuietInv, at \notin Receiving, at' \in Receiving,
         NEW a \in Addrs \cup {Broadcast}, NEW cmd \in AllKinds, Transmit(a, cmd),
         at' = "pingRecv" => idx' = a
  PROVE  QuietInv'
<1>1. fifo = <<>> /\ ans = NoFrame
  BY DEF QuietInv, InStep
<1>2. to' = a /\ fifo' = <<>> /\ present' = present /\ streaming' = {}
  BY <1>1, TransmitType
<1>3. ans' # NoFrame => ans'.from = a /\ a \in present
  <2>1. ans' = Answer(a, cmd) \/ ans' = NoFrame
    BY Zenon DEF Transmit
  <2>2. QED
    BY <2>1, AnswerType
<1>4. QED
  BY <1>2, <1>3 DEF QuietInv, InStep, FromAsked

\* Steps that leave the bus alone.
LEMMA BusUndisturbed ==
  ASSUME TypeOK, QuietInv, UNCHANGED <<busVars, to, streaming>>,
         \/ UNCHANGED <<at, idx>>
         \/ at \notin Receiving /\ at' \notin Receiving,
         present \subseteq present'
  PROVE  QuietInv'
BY DEF QuietInv, InStep, FromAsked, busVars, Receiving

\* An exchange ends with the only frame of the bus, or without one.
LEMMA ReturnQuiet ==
  ASSUME TypeOK, QuietInv, Returns, Consumed, at \in Receiving, at' \notin Receiving,
         UNCHANGED <<ans, present, streaming>>
  PROVE  QuietInv'
<1>1. fifo' = <<>>
  BY DEF Consumed, QuietInv, InStep, TypeOK
<1>2. ans' = NoFrame
  BY DEF Returns, Timeout, QuietInv, InStep
<1>3. QED
  BY <1>1, <1>2 DEF QuietInv, InStep, Receiving

LEMMA QuietNext ==
  ASSUME Streamers = {}, TypeOK, QuietInv, [Next]_vars
  PROVE  QuietInv'
<1>i. idx \in Int
  BY DEF TypeOK
<1>1. CASE CmdStep
  <2>1. CASE cmdq # <<>>
    <3>1. Head(cmdq).to \in Addrs \cup {Broadcast} /\ Head(cmdq).cmd \in AllKinds
      <4>1. Head(cmdq) \in Command
        BY <2>1 DEF TypeOK
      <4>2. QED
        BY <4>1, KindsAssumption DEF Command
    <3>2. Transmit(Head(cmdq).to, Head(cmdq).cmd) /\ at = "cmd" /\ at' = "cmdRecv"
      BY <1>1, <2>1 DEF CmdStep
    <3>3. QED
      BY <3>1, <3>2, TransmitQuiet DEF Receiving
  <2>2. CASE cmdq = <<>>
    BY <1>1, <2>2, BusUndisturbed DEF CmdStep, slaveVars, Receiving
  <2>3. QED
    BY <2>1, <2>2
<1>2. ASSUME NEW low \in BOOLEAN, IntCheck(low) PROVE QuietInv'
  BY <1>2, BusUndisturbed DEF IntCheck, slaveVars, Receiving
<1>3. CASE IntStep
  <2>1. CASE Transmit(idx, "GET_STATUS") /\ idx \in online /\ at' = "intRecv"
    BY <1>3, <2>1, TransmitQuiet DEF IntStep, TypeOK, AllKinds, Receiving
  <2>2. CASE at' \in {"int", "pingCheck"} /\ UNCHANGED <<to, busVars, slaveVars>>
    BY <1>3, <2>2, BusUndisturbed DEF IntStep, slaveVars, Receiving
  <2>3. QED
    BY <1>3, <2>1, <2>2 DEF IntStep
<1>4. CASE PingCheck
  BY <1>4, BusUndisturbed DEF PingCheck, slaveVars, Receiving
<1>5. CASE PingStep
  <2>1. CASE Transmit(idx, "PING") /\ idx <= N /\ at' = "pingRecv"
    <3>1. idx \in Addrs /\ idx' = idx /\ at = "ping"
      BY <1>5, <2>1 DEF PingStep, TypeOK
    <3>2. QED
      BY <2>1, <3>1, TransmitQuiet DEF AllKinds, Receiving
  <2>2. CASE at' = "sleep" /\ UNCHANGED <<to, busVars, slaveVars>>
    BY <1>5, <2>2, BusUndisturbed DEF PingStep, slaveVars, Receiving
  <2>3. QED
    BY <1>5, <2>1, <2>2 DEF PingStep
<1>6. CASE ForwardAnswer
  BY <1>6, ReturnQuiet DEF ForwardAnswer, slaveVars, Receiving
<1>7. CASE Judge
  BY <1>7, ReturnQuiet DEF Judge, slaveVars, Receiving
<1>8. CASE Gap \/ Wake
  BY <1>8, BusUndisturbed DEF Gap, Wake, slaveVars, Receiving
<1>9. CASE SlaveAnswer
  <2>1. ans # NoFrame /\ fifo = <<>> /\ ans.from = to /\ ans.from \in present /\ at \in Receiving
    BY <1>9 DEF SlaveAnswer, QuietInv, InStep, FromAsked
  <2> DEFINE garbled == [ans EXCEPT !.ok = FALSE]
  <2>2. fifo' \in {<<>>, <<ans>>, <<garbled>>} /\ garbled.from = ans.from
    <3>1. garbled.from = ans.from
      BY <2>1 DEF TypeOK, Frame
    <3>2. \A frame : Arrive(frame) => fifo' = <<frame>>
      BY <2>1, Constants DEF Arrive
    <3>3. Arrive(ans) \/ Arrive(garbled) \/ fifo' = fifo
      BY <1>9, Zenon DEF SlaveAnswer
    <3>4. QED
      BY <2>1, <3>1, <3>2, <3>3
  <2>3. ans' = NoFrame /\ UNCHANGED <<at, idx, to, present, streaming>>
    BY <1>9 DEF SlaveAnswer, masterVars, slaveVars
  <2>4. Len(fifo') <= 1 /\ \A i \in DOMAIN fifo' : fifo'[i].from = to
    <3> HIDE DEF garbled
    <3>1. CASE fifo' = <<>>
      BY <3>1
    <3>2. ASSUME NEW frame, frame.from = to, fifo' = <<frame>>
          PROVE  Len(fifo') <= 1 /\ \A i \in DOMAIN fifo' : fifo'[i].from = to
      BY <3>2
    <3>3. QED
      BY <2>1, <2>2, <3>1, <3>2
  <2>5. QED
    BY <2>1, <2>3, <2>4 DEF QuietInv, InStep, FromAsked
<1>10. CASE SecondPasses \/ Noise
  BY <1>10, BusUndisturbed DEF SecondPasses, Noise, masterVars, slaveVars
<1>11. ASSUME NEW command \in Command, PiCommand(command) PROVE QuietInv'
  BY <1>11, BusUndisturbed DEF PiCommand, slaveVars
<1>12. ASSUME NEW a \in Addrs, StreamTick(a) PROVE FALSE
  BY <1>12 DEF StreamTick, QuietInv
<1>13. ASSUME NEW a \in Addrs, Plug(a) PROVE QuietInv'
  BY <1>13, BusUndisturbed DEF Plug, masterVars
<1>14. ASSUME NEW a \in Addrs, Unplug(a) PROVE QuietInv'
  <2>1. UNCHANGED <<at, idx, to, fifo>> /\ streaming' = {}
    BY <1>14 DEF Unplug, masterVars, QuietInv
  <2>2. ans' = NoFrame \/ (ans' = ans /\ ans.from # a)
    BY <1>14 DEF Unplug
  <2>3. present' = present \ {a}
    BY <1>14 DEF Unplug
  <2>4. QED
    BY <2>1, <2>2, <2>3 DEF QuietInv, InStep, FromAsked, Receiving
<1>15. CASE UNCHANGED vars
  BY <1>15, BusUndisturbed DEF vars, masterVars, slaveVars
<1>16. QED
  BY <1>1, <1>2, <1>3, <1>4, <1>5, <1>6, <1>7, <1>8, <1>9, <1>10, <1>11, <1>12, <1>13,
     <1>14, <1>15 DEF Next, MasterStep

\* Without streaming, master and peripherals stay in step: every frame the master
\* reads comes from the address it asked (rs485.c 222-268 relies on it).
THEOREM MasterInStep ==
  ASSUME Streamers = {}
  PROVE  Spec => []InStep
<1>1. QuietInv => InStep
  BY DEF QuietInv
<1>2. Init => QuietInv
  BY QuietInit
<1>3. TypeOK /\ QuietInv /\ [Next]_vars => QuietInv'
  BY QuietNext
<1>4. QED
  BY <1>1, <1>2, <1>3, TypeCorrect, PTL DEF Spec

-----------------------------------------------------------------------------
(* The registry implements PeripheralHealth *)

\* What the FIFO says of a frame whose sender is known.
LEMMA PongsOfOne ==
  ASSUME NEW frame, frame.from \in Addrs, fifo = <<frame>>
  PROVE  /\ Pongs = IF frame = Reply(frame.from, "PONG") THEN {frame.from} ELSE {}
         /\ Head(fifo) = frame
<1>1. DOMAIN fifo = {1} /\ fifo[1] = frame /\ Head(fifo) = frame
  OBVIOUS
<1>2. Pongs = {a \in Addrs : frame = Reply(a, "PONG")}
  BY <1>1 DEF Pongs
<1>3. \A a \in Addrs : frame = Reply(a, "PONG") => a = frame.from
  BY DEF Reply
<1>4. QED
  BY <1>1, <1>2, <1>3

LEMMA PongsOfNone == fifo = <<>> => Pongs = {}
BY DEF Pongs

\* A good PONG is the PONG of its sender.
LEMMA PongFrame ==
  ASSUME NEW frame \in Frame, frame.ok, frame.cmd = "PONG"
  PROVE  frame = Reply(frame.from, "PONG")
<1>1. frame.ok = TRUE
  BY Zenon DEF Frame
<1>2. frame = [from |-> frame.from, cmd |-> frame.cmd, ok |-> frame.ok]
  BY DEF Frame
<1>3. QED
  BY <1>1, <1>2, Zenon DEF Reply

LEMMA HealthInit == Init => Health!Init
BY PongsOfNone DEF Init, Health!Init

\* Without streaming, the verdict of the sweep is the one the registry promises.
LEMMA VerdictIsHealth ==
  ASSUME TypeOK, QuietInv, at = "pingRecv"
  PROVE  NowOnline <=> idx \in Pongs
<1>1. CASE fifo = <<>>
  BY <1>1, PongsOfNone DEF NowOnline, Good
<1>2. CASE fifo # <<>>
  <2> DEFINE f == Head(fifo)
  <2>1. fifo = <<f>> /\ f \in Frame /\ f.from = idx /\ idx \in Addrs
    <3>0. fifo \in Seq(Frame) /\ Len(fifo) <= 1 /\ to = idx /\ \A i \in DOMAIN fifo : fifo[i].from = to
      BY DEF QuietInv, InStep, FromAsked, TypeOK
    <3>a. Len(fifo) = 1
      <4>1. Len(fifo) # 0
        BY <1>2, <3>0
      <4>2. Len(fifo) \in Nat
        BY <3>0
      <4>3. Len(fifo) <= 1
        BY <3>0, Zenon
      <4>4. \A n \in Nat : n # 0 /\ n <= 1 => n = 1
        OBVIOUS
      <4>5. QED
        BY <4>1, <4>2, <4>3, <4>4, Zenon
    <3>1. fifo[1].from = to /\ to = idx /\ fifo[1] \in Frame
      BY <3>0, <3>a
    <3>2. fifo = <<fifo[1]>> /\ Head(fifo) = fifo[1]
      BY <3>0, <3>a
    <3>3. QED
      BY <3>1, <3>2 DEF TypeOK
  <2> HIDE DEF f
  <2>2. Pongs = IF f = Reply(idx, "PONG") THEN {idx} ELSE {}
    BY <2>1, PongsOfOne
  <2>3. NowOnline <=> f.ok /\ f.cmd = "PONG"
    BY <1>2, Zenon DEF NowOnline, Good, f
  <2>4. f.ok /\ f.cmd = "PONG" => f = Reply(idx, "PONG")
    BY <2>1, PongFrame
  <2>5. f = Reply(idx, "PONG") => f.ok /\ f.cmd = "PONG"
    BY DEF Reply
  <2>6. QED
    BY <2>2, <2>3, <2>4, <2>5
<1>3. QED
  BY <1>1, <1>2

\* Each step judges, forwards, answers, plugs or unplugs, or leaves the registry
\* as it is.
LEMMA HealthNext ==
  ASSUME Streamers = {}, TypeOK, TypeOK', QuietInv, QuietInv', [Next]_vars
  PROVE  [Health!Next]_(Health!vars)
<1>1. ASSUME UNCHANGED <<fifo, present, online>>
      PROVE  UNCHANGED Health!vars
  BY <1>1 DEF Health!vars, Pongs
<1>2. CASE CmdStep \/ IntStep \/ PingStep
  BY <1>1, <1>2, Zenon DEF CmdStep, IntStep, PingStep, Transmit, busVars, slaveVars
<1>3. CASE PingCheck \/ Gap \/ Wake \/ \E low \in BOOLEAN : IntCheck(low)
  BY <1>1, <1>3, Zenon DEF PingCheck, Gap, Wake, IntCheck, busVars, slaveVars
<1>4. CASE ForwardAnswer
  <2>1. fifo' = <<>> /\ UNCHANGED <<present, online>>
    BY <1>4 DEF ForwardAnswer, slaveVars, QuietInv, Receiving
  <2>2. Pongs' = {}
    BY <2>1 DEF Pongs
  <2>3. QED
    BY <2>1, <2>2 DEF Health!Next, Health!Forward
<1>5. CASE Judge
  <2>1. fifo' = <<>> /\ present' = present /\ at = "pingRecv" /\ idx \in Addrs
    BY <1>5 DEF Judge, slaveVars, QuietInv, Receiving, TypeOK
  <2>2. Pongs' = {}
    BY <2>1 DEF Pongs
  <2>3. online' = IF idx \in Pongs THEN online \cup {idx} ELSE online \ {idx}
    BY <1>5, <2>1, VerdictIsHealth DEF Judge
  <2>4. Health!Judge(idx)
    BY <2>1, <2>2, <2>3 DEF Health!Judge
  <2>5. QED
    BY <2>1, <2>4 DEF Health!Next
<1>6. CASE SlaveAnswer
  <2>1. /\ ans.from = to /\ ans.from \in present /\ ans.from \in Addrs /\ fifo = <<>>
        /\ UNCHANGED <<to, present, online>>
    BY <1>6 DEF SlaveAnswer, QuietInv, InStep, FromAsked, TypeOK, masterVars, slaveVars
  <2>2. Pongs = {}
    BY <2>1, PongsOfNone
  <2>3. Pongs' \subseteq {ans.from}
    <3>1. \A i \in DOMAIN fifo' : fifo'[i].from = to
      BY <2>1 DEF QuietInv, InStep, FromAsked
    <3>2. QED
      BY <2>1, <3>1 DEF Pongs, Reply
  <2>4. CASE Pongs' = {}
    BY <2>1, <2>2, <2>4 DEF Health!vars
  <2>5. CASE Pongs' = {ans.from}
    <3>1. Health!Answer(ans.from)
      BY <2>1, <2>2, <2>5 DEF Health!Answer
    <3>2. QED
      BY <2>1, <3>1 DEF Health!Next
  <2>6. QED
    BY <2>3, <2>4, <2>5
<1>7. CASE SecondPasses \/ Noise
  BY <1>1, <1>7 DEF SecondPasses, Noise, masterVars, busVars, slaveVars
<1>8. ASSUME NEW command \in Command, PiCommand(command) PROVE UNCHANGED Health!vars
  BY <1>1, <1>8 DEF PiCommand, busVars, slaveVars
<1>9. ASSUME NEW a \in Addrs, StreamTick(a) PROVE FALSE
  BY <1>9 DEF StreamTick, QuietInv
<1>10. ASSUME NEW a \in Addrs, Plug(a) \/ Unplug(a) PROVE Health!Next
  <2>1. UNCHANGED <<fifo, online>>
    BY <1>10 DEF Plug, Unplug, masterVars, busVars
  <2>2. Pongs' = Pongs
    BY <2>1 DEF Pongs
  <2>3. Health!Plug(a) \/ Health!Unplug(a)
    BY <1>10, <2>1, <2>2 DEF Plug, Unplug, Health!Plug, Health!Unplug
  <2>4. QED
    BY <2>3 DEF Health!Next
<1>11. CASE UNCHANGED vars
  BY <1>1, <1>11 DEF vars, masterVars, busVars, slaveVars
<1>12. QED
  BY <1>2, <1>3, <1>4, <1>5, <1>6, <1>7, <1>8, <1>9, <1>10, <1>11 DEF Next, MasterStep

\* Without streaming, the registry rs485_task keeps is that of PeripheralHealth:
\* a peripheral is online iff it answered its own last PING.
THEOREM RegistryImplementsHealth ==
  ASSUME Streamers = {}
  PROVE  Spec => RegistryIsHealth
<1>1. Init => Health!Init /\ QuietInv
  BY HealthInit, QuietInit
<1>2. TypeOK /\ QuietInv /\ [Next]_vars => QuietInv'
  BY QuietNext
<1>3. TypeOK /\ TypeOK' /\ QuietInv /\ QuietInv' /\ [Next]_vars => [Health!Next]_(Health!vars)
  BY HealthNext
<1>4. QED
  BY <1>1, <1>2, <1>3, TypeCorrect, PTL DEF Spec, RegistryIsHealth, Health!Spec

=============================================================================
