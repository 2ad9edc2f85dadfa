-------------------------- MODULE GcsSessionProofs --------------------------
(***************************************************************************)
(* Theorems about GcsSession, for every queue depth, every set of buttons, *)
(* every set of states the Pi may command and every choice of the three    *)
(* heartbeat intervals that keeps their order.                             *)
(***************************************************************************)
EXTENDS GcsSession, TLAPS

\* A packet goes to the end of the queue or is dropped, so the queue stays a
\* sequence of packets no longer than TX_QUEUE_DEPTH.
LEMMA EnqueueType ==
  ASSUME NEW q \in Seq(Packet), Len(q) <= TxDepth, NEW item \in Packet
  PROVE  /\ Enqueue(q, item) \in Seq(Packet)
         /\ Len(Enqueue(q, item)) <= TxDepth
<1>1. CASE Len(q) < TxDepth
  BY <1>1, DepthAssumption DEF Enqueue
<1>2. CASE ~(Len(q) < TxDepth)
  BY <1>2 DEF Enqueue
<1>3. QED  BY <1>1, <1>2

LEMMA PlainType ==
  \A t \in {"USB_CONNECTED", "USB_DISCONNECTED", "HEARTBEAT", "ERROR", "TELEMETRY"} :
     Plain(t) \in Packet
BY DEF Plain, Packet

\* Sending a packet keeps the queue well-typed.
LEMMA SendType ==
  ASSUME TypeOK, NEW item \in Packet, Send(item)
  PROVE  txq' \in Seq(Packet) /\ Len(txq') <= TxDepth
BY EnqueueType DEF TypeOK, Send

LEMMA PortType ==
  ASSUME NEW unlocked \in BOOLEAN, NEW pressed \in SUBSET Buttons
  PROVE  [unlocked |-> unlocked, pressed |-> pressed] \in Port
BY DEF Port

LEMMA OlderType ==
  ASSUME NEW cap \in Nat, NEW age \in 0..cap
  PROVE  Older(age, cap) \in 0..cap /\ Older(age, cap) >= age
BY DEF Older

LEMMA AllHighType == AllHigh \in Port
<1>1. FALSE \in BOOLEAN /\ {} \in SUBSET Buttons
  OBVIOUS
<1>2. QED  BY <1>1, PortType, Zenon DEF AllHigh

LEMMA CapsType == RxCap \in Nat /\ TxCap \in Nat
BY HbAssumption DEF RxCap, TxCap

\* The flags, apart from the rest of TypeOK.
FlagsOK == was \in BOOLEAN /\ heard \in BOOLEAN /\ forced \in BOOLEAN

LEMMA FlagsType ==
  ASSUME FlagsOK, [Next]_vars
  PROVE  FlagsOK'
<1> USE DEF FlagsOK
<1>1. CASE CdcStart
  BY <1>1, Zenon DEF CdcStart
<1>2. ASSUME NEW connected \in BOOLEAN, CdcPoll(connected) PROVE FlagsOK'
  BY <1>2, Zenon DEF CdcPoll, history
<1>3. CASE CdcDrain
  BY <1>3, Zenon DEF CdcDrain, history
<1>4. ASSUME NEW beat \in BOOLEAN, NEW mode, CdcRx(beat, mode) PROVE FlagsOK'
  BY <1>4, Zenon DEF CdcRx
<1>5. CASE CdcBeat \/ CdcRead
  BY <1>5, Zenon DEF CdcBeat, CdcRead, history
<1>6. CASE CdcCheck
  BY <1>6, Zenon DEF CdcCheck, history
<1>7. CASE DioKey
  BY <1>7, Zenon DEF DioKey, cdcVars
<1>8. CASE DioStep /\ ~DioKey
  BY <1>8, Zenon DEF DioStep, DioSample, DioSwitch, DioButton, DioPublish, cdcVars, history
<1>9. CASE OtherSend \/ Tick
  BY <1>9, Zenon DEF OtherSend, Tick, cdcVars, history
<1>10. CASE WatchdogReset
  BY <1>10, Zenon DEF WatchdogReset
<1>11. CASE UNCHANGED vars
  BY <1>11, Zenon DEF vars, cdcVars, history
<1>12. QED
  BY <1>1, <1>2, <1>3, <1>4, <1>5, <1>6, <1>7, <1>8, <1>9, <1>10, <1>11 DEF Next, CdcStep

LEMMA InitType == Init => TypeOK
<1> SUFFICES ASSUME Init PROVE TypeOK
  OBVIOUS
<1>1. FlagsOK
  BY Zenon DEF Init, FlagsOK
<1>3. txq \in Seq(Packet) /\ Len(txq) <= TxDepth
  BY DepthAssumption DEF Init
<1>4. QED
  BY <1>1, <1>3, AllHighType, CapsType, DepthAssumption
     DEF Init, TypeOK, FlagsOK, SysState, CdcPoints, DioPoints

\* Type correctness: one step per action of either task and of the surroundings.
LEMMA NextType ==
  ASSUME TypeOK, [Next]_vars
  PROVE  TypeOK'
<1>f. was' \in BOOLEAN /\ heard' \in BOOLEAN /\ forced' \in BOOLEAN
  BY FlagsType, Zenon DEF TypeOK, FlagsOK
<1> USE <1>f DEF SysState, CdcPoints, DioPoints
<1>0. RxCap \in Nat /\ TxCap \in Nat /\ AllHigh \in Port
  BY CapsType, AllHighType
<1>1. CASE CdcStart
  BY <1>0, <1>1 DEF TypeOK, CdcStart, dioVars
<1>2. ASSUME NEW connected \in BOOLEAN, CdcPoll(connected) PROVE TypeOK'
  <2>1. txq' \in Seq(Packet) /\ Len(txq') <= TxDepth
    BY <1>2, SendType, PlainType DEF TypeOK, CdcPoll
  <2>2. QED
    BY <1>0, <1>2, <2>1 DEF TypeOK, CdcPoll, dioVars, history
<1>3. CASE CdcDrain
  <2>1. piPort' \in Port
    BY <1>3, PortType DEF CdcDrain, PiLearns
  <2>2. txq' \in Seq(Packet) /\ Len(txq') <= TxDepth
    BY <1>3, DepthAssumption DEF CdcDrain
  <2>3. QED
    BY <1>3, <2>1, <2>2 DEF TypeOK, CdcDrain, dioVars, history
<1>4. ASSUME NEW beat \in BOOLEAN, NEW mode \in Modes \cup {NoMode}, CdcRx(beat, mode)
      PROVE TypeOK'
  <2>1. txq' \in Seq(Packet) /\ Len(txq') <= TxDepth
    BY <1>4, SendType, PlainType DEF TypeOK, CdcRx
  <2>2. sys' \in SysState
    BY <1>4, ModesAssumption DEF TypeOK, CdcRx
  <2>3. QED
    BY <1>0, <1>4, <2>1, <2>2 DEF TypeOK, CdcRx, dioVars
<1>5. CASE CdcBeat
  BY <1>0, <1>5 DEF TypeOK, CdcBeat, dioVars, history
<1>6. CASE CdcRead
  BY <1>6 DEF TypeOK, CdcRead, dioVars, history
<1>7. CASE CdcCheck
  <2>1. txq' \in Seq(Packet) /\ Len(txq') <= TxDepth
    BY <1>7, SendType, PlainType DEF TypeOK, CdcCheck
  <2>2. lost' \in 0..3 /\ sys' \in SysState
    BY <1>7 DEF TypeOK, CdcCheck, history
  <2>3. QED
    BY <1>7, <2>1, <2>2 DEF TypeOK, CdcCheck, dioVars
<1>8. ASSUME NEW raw \in Port, DioSample(raw) PROVE TypeOK'
  <2>1. Debounced(raw) \in Port
    BY DEF TypeOK, Debounced, Port
  <2>2. QED
    BY <1>8, <2>1 DEF TypeOK, DioSample, cdcVars, history
<1>9. CASE DioSwitch
  <2>1. [type |-> "SWITCH", port |-> next] \in Packet
    BY DEF TypeOK, Packet
  <2>2. QED
    BY <1>9, <2>1, SendType DEF TypeOK, DioSwitch, cdcVars, history
<1>10. CASE DioKey
  <2>1. [type |-> "KEY", unlocked |-> next.unlocked] \in Packet
    BY DEF TypeOK, Packet, Port
  <2>2. txq' \in Seq(Packet) /\ Len(txq') <= TxDepth
    BY <1>10, <2>1, SendType DEF TypeOK, DioKey
  <2>3. sys' \in SysState
    BY <1>10 DEF TypeOK, DioKey, KeyState
  <2>4. pend' \subseteq Buttons
    BY <1>10 DEF TypeOK, DioKey, Port
  <2>5. QED
    BY <1>10, <2>2, <2>3, <2>4 DEF TypeOK, DioKey, cdcVars
<1>11. ASSUME NEW b \in Buttons, DioButton(b) PROVE TypeOK'
  <2>1. [type |-> "BUTTON", button |-> b, pressed |-> b \in next.pressed] \in Packet
    BY DEF Packet
  <2>2. QED
    BY <1>11, <2>1, SendType DEF TypeOK, DioButton, cdcVars, history
<1>12. CASE DioPublish
  <2>1. [type |-> "DIGITAL", port |-> next] \in Packet
    BY DEF TypeOK, Packet
  <2>2. QED
    BY <1>12, <2>1, SendType DEF TypeOK, DioPublish, cdcVars, history
<1>13. CASE OtherSend
  <2>1. txq' \in Seq(Packet) /\ Len(txq') <= TxDepth
    BY <1>13, SendType, PlainType DEF TypeOK, OtherSend
  <2>2. QED
    BY <1>13, <2>1, DepthAssumption DEF TypeOK, OtherSend, cdcVars, dioVars, history
<1>14. CASE Tick
  BY <1>0, <1>14, OlderType, DepthAssumption DEF TypeOK, Tick, history
<1>15. CASE WatchdogReset
  <2>1. txq' \in Seq(Packet) /\ Len(txq') <= TxDepth
    BY <1>15, DepthAssumption DEF WatchdogReset
  <2>2. QED
    BY <1>0, <1>15, <2>1, DepthAssumption DEF TypeOK, WatchdogReset
<1>16. CASE UNCHANGED vars
  BY <1>16 DEF TypeOK, vars, cdcVars, dioVars, history
<1>17. QED
  BY <1>1, <1>2, <1>3, <1>4, <1>5, <1>6, <1>7, <1>8, <1>9, <1>10, <1>11, <1>12,
     <1>13, <1>14, <1>15, <1>16 DEF Next, CdcStep, DioStep

\* The types of the session: in particular the TX queue never outgrows its depth
\* and the heartbeat ages stay within the range the comparisons need.
THEOREM TypeCorrect == Spec => []TypeOK
<1>1. QED  BY InitType, NextType, PTL DEF Spec

-----------------------------------------------------------------------------
(* The key *)

\* A step of cdc_task or of the surroundings leaves LOCKED and ACTIVE as they
\* are, replaces them, or is a MODE frame.
LEMMA KeyUndisturbed ==
  ASSUME LockStateMatchesKey,
         UNCHANGED dioVars,
         UNCHANGED <<sys, forced>> \/ sys' \notin {"LOCKED", "ACTIVE"} \/ forced' = TRUE
  PROVE  LockStateMatchesKey'
BY Zenon DEF LockStateMatchesKey, KeyActedOn, dioVars

LEMMA LockInit == Init => LockStateMatchesKey
BY DEF Init, LockStateMatchesKey

LEMMA LockNext ==
  ASSUME LockStateMatchesKey, [Next]_vars
  PROVE  LockStateMatchesKey'
<1>1. CASE CdcStart
  BY <1>1, KeyUndisturbed DEF CdcStart
<1>2. ASSUME NEW connected \in BOOLEAN, CdcPoll(connected) PROVE LockStateMatchesKey'
  BY <1>2, KeyUndisturbed DEF CdcPoll, history
<1>3. CASE CdcDrain \/ CdcBeat \/ CdcRead
  BY <1>3, KeyUndisturbed DEF CdcDrain, CdcBeat, CdcRead, history
<1>4. ASSUME NEW beat \in BOOLEAN, NEW mode, CdcRx(beat, mode) PROVE LockStateMatchesKey'
  <2>1. UNCHANGED <<sys, forced>> \/ forced' = TRUE
    BY <1>4, Zenon DEF CdcRx
  <2>2. QED
    BY <1>4, <2>1, KeyUndisturbed, Zenon DEF CdcRx
<1>5. CASE CdcCheck
  BY <1>5, KeyUndisturbed DEF CdcCheck, history
<1>6. ASSUME NEW raw, DioSample(raw) PROVE LockStateMatchesKey'
  \* The loop body either has nothing to act on, or reports nothing because the
  \* state is not live, or starts from the key as acted on so far.
  <2>1. CASE sys \in Live /\ Debounced(raw) # stable
    BY <1>6, <2>1 DEF DioSample, LockStateMatchesKey, KeyActedOn, history
  <2>2. CASE sys \notin Live
    BY <1>6, <2>2 DEF DioSample, LockStateMatchesKey, Live
  <2>3. CASE Debounced(raw) = stable
    BY <1>6, <2>3 DEF DioSample, LockStateMatchesKey, KeyActedOn, history
  <2>4. QED
    BY <2>1, <2>2, <2>3
<1>7. CASE DioSwitch
  BY <1>7 DEF DioSwitch, LockStateMatchesKey, KeyActedOn, history
<1>8. CASE DioKey
  <2>1. CASE next.unlocked # stable.unlocked
    <3>1. sys' = KeyState(next.unlocked) /\ KeyActedOn' = next.unlocked
      BY <1>8, <2>1 DEF DioKey, KeyActedOn
    <3>2. QED
      BY <3>1, Zenon DEF LockStateMatchesKey, KeyState
  <2>2. CASE next.unlocked = stable.unlocked
    BY <1>8, <2>2 DEF DioKey, LockStateMatchesKey, KeyActedOn
  <2>3. QED
    BY <2>1, <2>2
<1>9. ASSUME NEW b \in Buttons, DioButton(b) PROVE LockStateMatchesKey'
  BY <1>9 DEF DioButton, LockStateMatchesKey, KeyActedOn, history
<1>10. CASE DioPublish
  BY <1>10 DEF DioPublish, LockStateMatchesKey, KeyActedOn, history
<1>11. CASE OtherSend
  BY <1>11, KeyUndisturbed DEF OtherSend, history
<1>12. CASE Tick
  BY <1>12 DEF Tick, LockStateMatchesKey, KeyActedOn, history
<1>13. CASE WatchdogReset
  BY <1>13 DEF WatchdogReset, LockStateMatchesKey
<1>14. CASE UNCHANGED vars
  BY <1>14, KeyUndisturbed DEF vars, history
<1>15. QED
  BY <1>1, <1>2, <1>3, <1>4, <1>5, <1>6, <1>7, <1>8, <1>9, <1>10, <1>11, <1>12,
     <1>13, <1>14 DEF Next, CdcStep, DioStep

\* Whatever cdc_task writes to g_sys_state while digital_io_task is between its
\* sample and its write, LOCKED and ACTIVE never contradict the debounced key
\* (digital_io.c 163-174) unless the Pi commanded them.
THEOREM LockStateFollowsKey == Spec => []LockStateMatchesKey
<1>1. QED  BY LockInit, LockNext, PTL DEF Spec

-----------------------------------------------------------------------------
(* The heartbeat *)

\* cdc_task knows whether the host is there at every point of its loop body.
PresenceKnown ==
  /\ cdc = "start" => ~was
  /\ cdc \in {"drain", "rx", "beat", "read", "check"} => was

\* CONNECTED when the timeout is evaluated was CONNECTED when the state was
\* read: nobody else writes it.
CopyIsCurrent == cdc = "check" /\ sys = "CONNECTED" => cur = "CONNECTED"

\* What the evaluation of the timeout establishes for the sleep that follows.
FreshWhenAsleep == cdc = "delay" /\ sys = "CONNECTED" /\ ~forced => rxAge < HbTimeout

FreshInv == PresenceKnown /\ CopyIsCurrent /\ FreshWhenAsleep /\ ConnectedIsFresh

\* Until a heartbeat arrives, the last one is at least as old as the firmware's
\* own last one, or out of the window: Reconnect is false.
NoHeartbeatNoReconnect ==
  ~heard /\ was => rxAge >= txAge \/ rxAge >= HbWindow

LEMMA FreshInit == Init => FreshInv /\ NoHeartbeatNoReconnect
BY DEF Init, FreshInv, PresenceKnown, CopyIsCurrent, FreshWhenAsleep, ConnectedIsFresh,
       NoHeartbeatNoReconnect

\* What digital_io_task and the other producers may do to the state.
LEMMA FreshUndisturbed ==
  ASSUME FreshInv,
         UNCHANGED cdcVars,
         UNCHANGED <<sys, forced>> \/ sys' # "CONNECTED"
  PROVE  FreshInv'
<1>1. PresenceKnown'
  BY Zenon DEF FreshInv, PresenceKnown, cdcVars
<1>2. CopyIsCurrent'
  BY Zenon DEF FreshInv, CopyIsCurrent, cdcVars
<1>3. FreshWhenAsleep' /\ ConnectedIsFresh'
  BY Zenon DEF FreshInv, FreshWhenAsleep, ConnectedIsFresh, cdcVars
<1>4. QED
  BY <1>1, <1>2, <1>3 DEF FreshInv

LEMMA DioSteps ==
  ASSUME DioStep
  PROVE  /\ UNCHANGED cdcVars /\ heard' = heard
         /\ UNCHANGED <<sys, forced>> \/ sys' # "CONNECTED"
<1>1. CASE DioKey
  BY <1>1 DEF DioKey, KeyState
<1>2. CASE DioStep /\ ~DioKey
  BY <1>2 DEF DioStep, DioSample, DioSwitch, DioButton, DioPublish, history
<1>3. QED
  BY <1>1, <1>2

LEMMA FreshNext ==
  ASSUME TypeOK, FreshInv, [Next]_vars
  PROVE  FreshInv'
<1> USE DEF FreshInv, PresenceKnown, CopyIsCurrent, FreshWhenAsleep, ConnectedIsFresh
<1>0. rxAge \in 0..RxCap /\ RxCap \in Nat /\ HbTimeout \in Nat /\ 0 < HbTimeout
  BY CapsType, HbAssumption DEF TypeOK
<1>1. CASE CdcStart
  BY <1>1 DEF CdcStart
<1>2. ASSUME NEW connected \in BOOLEAN, CdcPoll(connected) PROVE FreshInv'
  \* Without a host the state is not CONNECTED, nor is it after an edge.
  <2>1. CASE connected /\ ~was
    BY <1>2, <2>1 DEF CdcPoll
  <2>2. CASE ~connected /\ was
    BY <1>2, <2>2 DEF CdcPoll
  <2>3. CASE connected /\ was
    BY <1>2, <2>3 DEF CdcPoll, history
  <2>4. CASE ~connected /\ ~was
    BY <1>2, <2>4 DEF CdcPoll, history
  <2>5. QED
    BY <2>1, <2>2, <2>3, <2>4
<1>3. CASE CdcDrain
  BY <1>3 DEF CdcDrain, history
<1>4. ASSUME NEW beat \in BOOLEAN, NEW mode, CdcRx(beat, mode) PROVE FreshInv'
  <2>1. was /\ was' = was /\ cdc' = "beat"
    BY <1>4 DEF CdcRx
  <2>2. rxAge' = 0 \/ rxAge' = rxAge
    BY <1>4 DEF CdcRx
  <2>3. UNCHANGED <<sys, forced>> \/ forced'
    BY <1>4, Zenon DEF CdcRx
  <2>4. QED
    BY <1>0, <2>1, <2>2, <2>3
<1>5. CASE CdcBeat
  BY <1>5 DEF CdcBeat, history
<1>6. CASE CdcRead
  BY <1>6 DEF CdcRead, history
<1>7. CASE CdcCheck
  <2>1. CASE TimedOut
    BY <1>7, <2>1, <1>0 DEF CdcCheck, TimedOut, Reconnect, Live
  <2>2. CASE Reconnect
    BY <1>7, <2>2, <1>0, HbAssumption DEF CdcCheck, TimedOut, Reconnect, Live
  <2>3. CASE ~TimedOut /\ ~Reconnect
    <3>1. sys = "CONNECTED" => rxAge < HbTimeout
      BY <1>7, <2>3, <1>0 DEF CdcCheck, TimedOut, Live
    <3>2. cdc' = "delay" /\ UNCHANGED <<sys, forced, rxAge, was>> /\ was
      BY <1>7, <2>3 DEF CdcCheck, history
    <3>3. QED
      BY <3>1, <3>2, <1>0
  <2>4. QED
    BY <2>1, <2>2, <2>3
<1>8. CASE DioStep
  BY <1>8, DioSteps, FreshUndisturbed
<1>9. CASE OtherSend
  BY <1>9, FreshUndisturbed DEF OtherSend, history
<1>10. CASE Tick
  \* Below the timeout before the tick, at most at it after the tick.
  <2>1. rxAge' <= rxAge + 1
    BY <1>10, <1>0 DEF Tick, Older
  <2>2. cdc = "delay" /\ cdc' = "poll" /\ UNCHANGED <<sys, forced, was>>
    BY <1>10 DEF Tick, history
  <2>3. rxAge' \in Int
    BY <1>10, <1>0 DEF Tick, Older
  <2>4. QED
    BY <2>1, <2>2, <2>3, <1>0
<1>11. CASE WatchdogReset
  BY <1>11 DEF WatchdogReset
<1>12. CASE UNCHANGED vars
  BY <1>12, FreshUndisturbed DEF vars, history
<1>13. QED
  BY <1>1, <1>2, <1>3, <1>4, <1>5, <1>6, <1>7, <1>8, <1>9, <1>10, <1>11, <1>12
     DEF Next, CdcStep

\* CONNECTED needs a USB session and a heartbeat no older than the timeout:
\* no write of digital_io_task brings it back after cdc_task's timeout.
THEOREM ConnectedStaysFresh == Spec => []ConnectedIsFresh
<1>1. FreshInv => ConnectedIsFresh
  BY DEF FreshInv
<1>2. QED
  BY <1>1, FreshInit, FreshNext, TypeCorrect, PTL DEF Spec

LEMMA NoReconnectNext ==
  ASSUME TypeOK, TypeOK', FreshInv, NoHeartbeatNoReconnect, [Next]_vars
  PROVE  NoHeartbeatNoReconnect'
<1> USE DEF NoHeartbeatNoReconnect
<1>0. /\ rxAge \in Nat /\ txAge \in Nat /\ rxAge' \in Nat /\ txAge' \in Nat
      /\ HbWindow \in Nat /\ txAge <= HbTx
  BY CapsType, HbAssumption DEF TypeOK, TxCap
<1>1. CASE CdcStart
  BY <1>1, <1>0 DEF CdcStart
<1>2. ASSUME NEW connected \in BOOLEAN, CdcPoll(connected) PROVE NoHeartbeatNoReconnect'
  <2>1. CASE connected /\ ~was
    <3>1. rxAge' = 0 /\ txAge' = 0
      BY <1>2, <2>1, Zenon DEF CdcPoll
    <3>2. QED
      BY <3>1
  <2>2. CASE ~connected
    BY <1>2, <2>2 DEF CdcPoll
  <2>3. CASE connected /\ was
    <3>1. was' /\ UNCHANGED <<heard, rxAge, txAge>>
      BY <1>2, <2>3 DEF CdcPoll, history
    <3>2. QED
      BY <2>3, <3>1
  <2>4. QED
    BY <2>1, <2>2, <2>3
<1>3. CASE CdcDrain \/ CdcRead
  BY <1>3, <1>0 DEF CdcDrain, CdcRead, history
<1>4. ASSUME NEW beat \in BOOLEAN, NEW mode, CdcRx(beat, mode)
      PROVE  NoHeartbeatNoReconnect'
  BY <1>4, <1>0 DEF CdcRx
<1>5. CASE CdcBeat
  BY <1>5, <1>0 DEF CdcBeat, history
<1>6. CASE CdcCheck
  \* A timeout forgets the heartbeats, and is far out of the window.
  BY <1>6, <1>0, HbAssumption DEF CdcCheck, TimedOut, history
<1>7. CASE DioStep \/ OtherSend \/ UNCHANGED vars
  <2>1. UNCHANGED <<heard, was, rxAge, txAge>>
    BY <1>7, DioSteps DEF OtherSend, vars, cdcVars, history
  <2>2. QED
    BY <2>1
<1>8. CASE Tick
  \* The ages grow together; the received one saturates later.
  BY <1>8, <1>0, HbAssumption DEF Tick, Older, RxCap, TxCap, history
<1>9. CASE WatchdogReset
  BY <1>9 DEF WatchdogReset
<1>10. QED
  BY <1>1, <1>2, <1>3, <1>4, <1>5, <1>6, <1>7, <1>8, <1>9 DEF Next, CdcStep

\* CONNECTED is entered without a command only after a heartbeat that arrived
\* since the Pi was last given up, and only inside the window.
THEOREM ConnectOnlyOnHeartbeat == Spec => ConnectNeedsHeartbeat
<1>1. ASSUME TypeOK, FreshInv, NoHeartbeatNoReconnect, [Next]_vars
      PROVE  [sys' = "CONNECTED" /\ sys # "CONNECTED" /\ ~forced'
                => heard /\ rxAge < HbWindow]_vars
  <2> SUFFICES ASSUME Next, sys' = "CONNECTED", sys # "CONNECTED", ~forced'
               PROVE  heard /\ rxAge < HbWindow
    BY <1>1
  <2>1. rxAge \in Nat /\ txAge \in Nat /\ HbWindow \in Nat
    BY <1>1, CapsType, HbAssumption DEF TypeOK
  <2>2. CASE CdcCheck
    <3>1. Reconnect /\ was
      BY <2>2, <1>1 DEF CdcCheck, FreshInv, PresenceKnown, history
    <3>2. QED
      BY <1>1, <2>1, <3>1 DEF Reconnect, NoHeartbeatNoReconnect
  <2>3. ASSUME NEW beat \in BOOLEAN, NEW mode, CdcRx(beat, mode) PROVE FALSE
    BY <2>3, Zenon DEF CdcRx
  <2>4. ASSUME NEW connected \in BOOLEAN, CdcPoll(connected) PROVE FALSE
    BY <2>4 DEF CdcPoll
  <2>5. CASE CdcStart \/ CdcDrain \/ CdcBeat \/ CdcRead
    BY <2>5 DEF CdcStart, CdcDrain, CdcBeat, CdcRead
  <2>6. CASE DioStep
    BY <2>6, DioSteps
  <2>7. CASE Tick \/ OtherSend \/ WatchdogReset
    BY <2>7 DEF Tick, OtherSend, WatchdogReset
  <2>8. QED
    BY <2>2, <2>3, <2>4, <2>5, <2>6, <2>7 DEF Next, CdcStep
<1>2. QED
  BY <1>1, FreshInit, FreshNext, NoReconnectNext, TypeCorrect, PTL
     DEF Spec, ConnectNeedsHeartbeat

-----------------------------------------------------------------------------
(* An outage, without MODE frames *)

\* digital_io_task has a turn of the key in hand and will write the state.
KeyTurning == dio \in {"switch", "key"} /\ next.unlocked # stable.unlocked

\* It has written it in this loop body: the last two samples agree on the key.
KeyTurned == \/ dio = "buttons" /\ next.unlocked = prev.unlocked
             \/ dio = "wait" /\ stable.unlocked = prev.unlocked

\* A turn of the key is one that two samples agree on.
TurnAgrees == KeyTurning => next.unlocked = prev.unlocked

\* Past the timeout the state is live behind the back of cdc_task only if
\* digital_io_task has just turned the key.
RaceInv ==
  was /\ rxAge >= HbTimeout =>
    /\ cdc = "delay" /\ sys \in Live => KeyTurned
    /\ cdc = "check" /\ sys \in Live /\ cur \notin Live => KeyTurned

\* One tick later it can be live still, but the key, just turned, cannot turn
\* again: cdc_task gives the Pi up for good in this loop body.
LateInv ==
  was /\ rxAge > HbTimeout =>
    /\ ~KeyTurning
    /\ sys \in Live => /\ rxAge = HbTimeout + 1 /\ cdc # "delay"
                       /\ dio = "ready" => prev.unlocked = stable.unlocked
                       /\ cdc = "check" => cur \in Live
    /\ cdc = "check" /\ cur \in Live => rxAge = HbTimeout + 1

OutageInv == PresenceKnown /\ TurnAgrees /\ RaceInv /\ LateInv

\* How many timeouts the age of the last heartbeat leaves room for.
TimeoutsSoFar ==
  IF rxAge < HbTimeout THEN 0
  ELSE (IF rxAge = HbTimeout THEN 0 ELSE 1) + (IF cdc = "delay" THEN 1 ELSE 0)

LostInv == lost <= IF was /\ rxAge < RxCap THEN TimeoutsSoFar ELSE 2

LEMMA OutageInit == Init => OutageInv /\ LostInv
<1> SUFFICES ASSUME Init PROVE OutageInv /\ LostInv
  OBVIOUS
<1>1. ~was /\ dio = "ready" /\ cdc = "start" /\ lost = 0
  BY Zenon DEF Init
<1> QED
  BY <1>1 DEF OutageInv, PresenceKnown, TurnAgrees, KeyTurning, RaceInv, LateInv, LostInv

LEMMA AgeType ==
  ASSUME TypeOK
  PROVE  rxAge \in Nat /\ rxAge <= RxCap /\ RxCap = HbTimeout + 2 /\ HbTimeout \in Nat /\ 3 <= HbTimeout
BY CapsType, HbAssumption DEF TypeOK, RxCap

\* The steps that neither digital_io_task nor the age of the heartbeat take part in.
LEMMA OutageUndisturbed ==
  ASSUME TypeOK, OutageInv, UNCHANGED dioVars,
         cdc' = "start" => ~was', cdc' \in {"drain", "rx", "beat", "read", "check"} => was',
         \/ rxAge' = 0 \/ ~was'
         \/ was /\ UNCHANGED <<rxAge, sys>> /\ cdc' \notin {"delay", "check"}
  PROVE  OutageInv'
<1>0. HbTimeout \in Nat /\ 3 <= HbTimeout /\ rxAge \in Nat
  BY AgeType
<1>1. PresenceKnown'
  BY DEF PresenceKnown
<1>2. TurnAgrees'
  BY DEF OutageInv, TurnAgrees, KeyTurning, dioVars
<1>3. RaceInv'
  BY <1>0 DEF RaceInv
<1>4. LateInv'
  BY <1>0 DEF OutageInv, LateInv, KeyTurning, dioVars
<1> QED
  BY <1>1, <1>2, <1>3, <1>4 DEF OutageInv

\* digital_io_task turns the key once in a loop body, and not in the next one.
LEMMA OutageDio ==
  ASSUME TypeOK, OutageInv, DioStep
  PROVE  OutageInv'
<1>0. HbTimeout \in Nat /\ 3 <= HbTimeout /\ rxAge \in Nat
  BY AgeType
<1>1. UNCHANGED <<was, rxAge, cdc, cur>>
  BY DioSteps DEF cdcVars
<1>2. PresenceKnown'
  BY <1>1 DEF OutageInv, PresenceKnown
<1> SUFFICES TurnAgrees' /\ RaceInv' /\ LateInv'
  BY <1>2 DEF OutageInv
<1>3. ASSUME NEW raw \in Port, DioSample(raw) PROVE TurnAgrees' /\ RaceInv' /\ LateInv'
  <2>1. /\ dio = "ready" /\ dio' \in {"switch", "publish"} /\ UNCHANGED <<sys, stable>>
        /\ dio' = "switch" => sys \in Live
    BY <1>3 DEF DioSample
  <2>2. /\ next'.unlocked = IF raw.unlocked = prev.unlocked THEN raw.unlocked ELSE stable.unlocked
        /\ prev'.unlocked = raw.unlocked
    BY <1>3 DEF DioSample, Debounced
  <2>3. TurnAgrees'
    BY <2>1, <2>2 DEF TurnAgrees, KeyTurning
  <2>4. RaceInv'
    BY <2>1, <1>1 DEF OutageInv, RaceInv, KeyTurned
  <2>5. LateInv'
    BY <2>1, <2>2, <1>1 DEF OutageInv, LateInv, KeyTurning
  <2> QED
    BY <2>3, <2>4, <2>5
<1>4. CASE DioSwitch
  <2>1. dio = "switch" /\ dio' = "key" /\ UNCHANGED <<sys, prev, stable, next>>
    BY <1>4 DEF DioSwitch
  <2> QED
    BY <2>1, <1>1 DEF OutageInv, TurnAgrees, KeyTurning, RaceInv, LateInv, KeyTurned
<1>5. CASE DioKey
  <2>1. /\ dio = "key" /\ dio' = "buttons" /\ UNCHANGED <<prev, stable, next>>
        /\ next.unlocked = stable.unlocked => sys' = sys
    BY <1>5 DEF DioKey
  <2>2. TurnAgrees'
    BY <2>1 DEF TurnAgrees, KeyTurning
  <2>3. RaceInv'
    BY <2>1, <1>1 DEF OutageInv, RaceInv, KeyTurned, TurnAgrees, KeyTurning
  <2>4. LateInv'
    BY <2>1, <1>1 DEF OutageInv, LateInv, KeyTurning
  <2> QED
    BY <2>2, <2>3, <2>4
<1>6. ASSUME NEW b \in Buttons, DioButton(b) PROVE TurnAgrees' /\ RaceInv' /\ LateInv'
  <2>1. dio = "buttons" /\ dio' = "buttons" /\ UNCHANGED <<sys, prev, stable, next>>
    BY <1>6 DEF DioButton
  <2> QED
    BY <2>1, <1>1 DEF OutageInv, TurnAgrees, KeyTurning, RaceInv, LateInv, KeyTurned
<1>7. CASE DioPublish
  <2>1. /\ dio \in {"buttons", "publish"} /\ dio' = "wait" /\ UNCHANGED <<sys, prev, next>>
        /\ stable' = next
    BY <1>7 DEF DioPublish
  <2> QED
    BY <2>1, <1>1 DEF OutageInv, TurnAgrees, KeyTurning, RaceInv, LateInv, KeyTurned
<1> QED
  BY <1>3, <1>4, <1>5, <1>6, <1>7 DEF DioStep

\* The evaluation of the timeout ends a live state that its copy shows.
LEMMA OutageCheck ==
  ASSUME TypeOK, OutageInv, CdcCheck
  PROVE  OutageInv'
<1>0. HbTimeout \in Nat /\ 3 <= HbTimeout /\ rxAge \in Nat
  BY AgeType
<1>1. /\ cdc = "check" /\ cdc' = "delay" /\ UNCHANGED <<was, rxAge, prev, stable, next, dio>>
      /\ rxAge >= HbTimeout => sys' = IF cur \in Live THEN "WAITING" ELSE sys
  BY <1>0, HbAssumption DEF CdcCheck, TimedOut, Reconnect, dioVars, history
<1>2. PresenceKnown' /\ TurnAgrees'
  BY <1>1 DEF OutageInv, PresenceKnown, TurnAgrees, KeyTurning
<1>3. "WAITING" \notin Live
  BY DEF Live
<1>4. RaceInv'
  BY <1>0, <1>1, <1>3 DEF OutageInv, RaceInv, KeyTurned
<1>5. LateInv'
  BY <1>0, <1>1, <1>3 DEF OutageInv, LateInv, KeyTurning
<1> QED
  BY <1>2, <1>4, <1>5 DEF OutageInv

LEMMA OutageTick ==
  ASSUME TypeOK, OutageInv, Tick
  PROVE  OutageInv'
<1>0. /\ HbTimeout \in Nat /\ 3 <= HbTimeout /\ rxAge \in Nat /\ rxAge <= RxCap
      /\ RxCap = HbTimeout + 2
  BY AgeType
<1>1. /\ cdc = "delay" /\ cdc' = "poll" /\ dio \in {"ready", "wait"} /\ dio' = "ready"
      /\ UNCHANGED <<sys, was, cur, prev, stable, next>>
  BY DEF Tick
<1>2. rxAge' = IF rxAge < RxCap THEN rxAge + 1 ELSE rxAge
  BY DEF Tick, Older
<1>3. PresenceKnown' /\ TurnAgrees'
  BY <1>1 DEF PresenceKnown, TurnAgrees, KeyTurning
<1>4. RaceInv'
  BY <1>1 DEF RaceInv
<1>5. LateInv'
  <2>1. CASE rxAge < HbTimeout
    BY <2>1, <1>0, <1>1, <1>2 DEF LateInv
  <2>2. CASE rxAge = HbTimeout
    BY <2>2, <1>0, <1>1, <1>2 DEF LateInv, OutageInv, RaceInv, KeyTurned, KeyTurning
  <2>3. CASE rxAge > HbTimeout
    BY <2>3, <1>0, <1>1, <1>2 DEF LateInv, OutageInv, KeyTurning
  <2> QED
    BY <2>1, <2>2, <2>3, <1>0
<1> QED
  BY <1>3, <1>4, <1>5 DEF OutageInv

LEMMA OutageNext ==
  ASSUME Modes = {}, TypeOK, OutageInv, [Next]_vars
  PROVE  OutageInv'
<1>0. HbTimeout \in Nat /\ 3 <= HbTimeout /\ rxAge \in Nat
  BY AgeType
<1>p. PresenceKnown
  BY DEF OutageInv
<1>1. CASE CdcStart
  BY <1>1, OutageUndisturbed, <1>p DEF CdcStart, PresenceKnown
<1>2. ASSUME NEW connected \in BOOLEAN, CdcPoll(connected) PROVE OutageInv'
  <2>1. /\ UNCHANGED dioVars /\ was' = connected /\ cdc' \in {"drain", "delay"}
        /\ cdc' = "drain" <=> connected
    BY <1>2 DEF CdcPoll
  <2>2. rxAge' = 0 \/ ~was' \/ (rxAge' = rxAge /\ was /\ sys' = sys)
    BY <1>2 DEF CdcPoll, history
  <2> QED
    BY <2>1, <2>2, OutageUndisturbed
<1>3. CASE CdcDrain
  BY <1>3, <1>p, OutageUndisturbed DEF CdcDrain, PresenceKnown
<1>4. ASSUME NEW beat \in BOOLEAN, NEW mode \in Modes \cup {NoMode}, CdcRx(beat, mode)
      PROVE  OutageInv'
  <2>1. UNCHANGED dioVars /\ was /\ was' = was /\ cdc' = "beat" /\ sys' = sys
    BY <1>4, <1>p DEF CdcRx, PresenceKnown
  <2>2. rxAge' = 0 \/ rxAge' = rxAge
    BY <1>4 DEF CdcRx
  <2> QED
    BY <2>1, <2>2, OutageUndisturbed
<1>5. CASE CdcBeat
  BY <1>5, <1>p, OutageUndisturbed DEF CdcBeat, PresenceKnown
<1>6. CASE CdcRead
  <2>1. /\ cdc = "read" /\ cdc' = "check" /\ cur' = sys
        /\ UNCHANGED <<was, sys, rxAge, prev, stable, next, dio>>
    BY <1>6 DEF CdcRead, dioVars
  <2> QED
    BY <2>1 DEF OutageInv, PresenceKnown, TurnAgrees, KeyTurning, RaceInv, LateInv
<1>7. CASE CdcCheck
  BY <1>7, OutageCheck
<1>8. CASE DioStep
  BY <1>8, OutageDio
<1>9. CASE OtherSend \/ UNCHANGED vars
  <2>1. UNCHANGED <<was, rxAge, cdc, cur, sys, prev, stable, next, dio>>
    BY <1>9 DEF OtherSend, vars, cdcVars, dioVars
  <2> QED
    BY <2>1 DEF OutageInv, PresenceKnown, TurnAgrees, KeyTurning, KeyTurned, RaceInv, LateInv
<1>10. CASE Tick
  BY <1>10, OutageTick
<1>11. CASE WatchdogReset
  <2>1. was' = FALSE /\ cdc' = "start" /\ dio' = "ready"
    BY <1>11 DEF WatchdogReset
  <2> QED
    BY <2>1 DEF OutageInv, PresenceKnown, TurnAgrees, KeyTurning, RaceInv, LateInv
<1> QED
  BY <1>1, <1>2, <1>3, <1>4, <1>5, <1>6, <1>7, <1>8, <1>9, <1>10, <1>11 DEF Next, CdcStep

\* Without MODE frames a live state in a USB session outlives the timeout by one
\* tick at most, although digital_io_task may write it back after cdc_task gave
\* the Pi up (usb_cdc.c 103-125, digital_io.c 163-174): the key it has just
\* turned cannot turn again in the next loop body.
THEOREM LiveOutlivesTimeoutByATick ==
  ASSUME Modes = {}
  PROVE  Spec => []LiveIsRecent
<1>1. ASSUME TypeOK, OutageInv PROVE LiveIsRecent
  <2>1. rxAge \in Nat /\ HbTimeout \in Nat
    BY <1>1, AgeType
  <2> QED
    BY <1>1, <2>1 DEF OutageInv, LateInv, LiveIsRecent
<1>2. OutageInv /\ TypeOK /\ [Next]_vars => OutageInv'
  BY OutageNext
<1> QED
  BY <1>1, <1>2, OutageInit, TypeCorrect, PTL DEF Spec

\* Every timeout reported needs its own evaluation, and past the second tick
\* there is no live copy left to report.
LEMMA LostNext ==
  ASSUME TypeOK, TypeOK', OutageInv, LostInv, [Next]_vars
  PROVE  LostInv'
<1>0. /\ HbTimeout \in Nat /\ 3 <= HbTimeout /\ rxAge \in Nat /\ rxAge <= RxCap
      /\ RxCap = HbTimeout + 2 /\ rxAge' \in Nat /\ lost \in 0..3 /\ lost' \in 0..3
  BY AgeType, CapsType DEF TypeOK
<1>p. PresenceKnown
  BY DEF OutageInv
<1>1. TimeoutsSoFar \in 0..2 /\ lost <= 2
  BY <1>0 DEF TimeoutsSoFar, LostInv
<1>2. ASSUME lost' = 0 \/ (~was' /\ lost' = lost) PROVE LostInv'
  BY <1>0, <1>1, <1>2 DEF LostInv, TimeoutsSoFar
<1>3. ASSUME UNCHANGED <<was, rxAge, lost>>, cdc = "delay" => cdc' = "delay"
      PROVE  LostInv'
  BY <1>0, <1>3 DEF LostInv, TimeoutsSoFar
<1>4. CASE CdcStart
  BY <1>2, <1>4, <1>p DEF CdcStart, PresenceKnown
<1>5. ASSUME NEW connected \in BOOLEAN, CdcPoll(connected) PROVE LostInv'
  <2>1. \/ lost' = 0 \/ (~was' /\ lost' = lost)
        \/ cdc # "delay" /\ UNCHANGED <<was, rxAge, lost>>
    BY <1>5 DEF CdcPoll, history
  <2> QED
    BY <2>1, <1>2, <1>3
<1>6. CASE CdcDrain \/ CdcBeat \/ CdcRead
  BY <1>6, <1>3 DEF CdcDrain, CdcBeat, CdcRead, history
<1>7. ASSUME NEW beat \in BOOLEAN, NEW mode, CdcRx(beat, mode) PROVE LostInv'
  <2>1. lost' = 0 \/ UNCHANGED <<was, rxAge, lost>>
    BY <1>7 DEF CdcRx
  <2>2. cdc = "rx"
    BY <1>7 DEF CdcRx
  <2> QED
    BY <2>1, <2>2, <1>2, <1>3
<1>8. CASE CdcCheck
  <2>1. cdc = "check" /\ cdc' = "delay" /\ UNCHANGED <<was, rxAge>> /\ was
    BY <1>8, <1>p DEF CdcCheck, PresenceKnown
  <2>2. CASE TimedOut
    <3>1. lost' = IF lost < 3 THEN lost + 1 ELSE lost
      BY <1>8, <1>0, <2>2, HbAssumption DEF CdcCheck, TimedOut, Reconnect, Live
    <3>2. rxAge >= HbTimeout /\ rxAge < RxCap
      BY <2>1, <2>2, <1>0 DEF TimedOut, OutageInv, LateInv
    <3> QED
      BY <2>1, <3>1, <3>2, <1>0 DEF LostInv, TimeoutsSoFar
  <2>3. CASE ~TimedOut
    <3>1. lost' = lost
      BY <1>8, <2>3 DEF CdcCheck, history
    <3> QED
      BY <2>1, <3>1, <1>3
  <2> QED
    BY <2>2, <2>3
<1>9. CASE DioStep
  <2>1. lost' = lost
    BY <1>9 DEF DioStep, DioSample, DioSwitch, DioKey, DioButton, DioPublish, history
  <2> QED
    BY <1>9, <2>1, <1>3, DioSteps DEF cdcVars
<1>10. CASE OtherSend \/ UNCHANGED vars
  BY <1>10, <1>3 DEF OtherSend, vars, cdcVars, history
<1>11. CASE Tick
  <2>1. cdc = "delay" /\ cdc' = "poll" /\ UNCHANGED <<was, lost>>
    BY <1>11 DEF Tick, history
  <2>2. rxAge' = IF rxAge < RxCap THEN rxAge + 1 ELSE rxAge
    BY <1>11 DEF Tick, Older
  <2> QED
    BY <2>1, <2>2, <1>0, <1>1 DEF LostInv, TimeoutsSoFar
<1>12. CASE WatchdogReset
  BY <1>2, <1>12 DEF WatchdogReset
<1> QED
  BY <1>4, <1>5, <1>6, <1>7, <1>8, <1>9, <1>10, <1>11, <1>12 DEF Next, CdcStep

\* Without MODE frames one outage is reported to the Pi at most twice: the second
\* report is the price of the race on g_sys_state, the two-sample filter of
\* digital_io_task leaves no room for a third.
THEOREM OutageReportedTwiceAtMost ==
  ASSUME Modes = {}
  PROVE  Spec => []TimeoutReportedTwiceAtMost
<1>1. ASSUME TypeOK, LostInv PROVE TimeoutReportedTwiceAtMost
  BY <1>1, AgeType DEF TypeOK, LostInv, TimeoutsSoFar, TimeoutReportedTwiceAtMost
<1>2. OutageInv /\ TypeOK /\ [Next]_vars => OutageInv'
  BY OutageNext
<1> QED
  BY <1>1, <1>2, OutageInit, LostNext, TypeCorrect, PTL DEF Spec
=============================================================================
