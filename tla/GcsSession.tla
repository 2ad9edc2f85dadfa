----------------------------- MODULE GcsSession -----------------------------
(***************************************************************************)
(* The session between the Pico firmware and the Pi over USB CDC: the      *)
(* global g_sys_state as cdc_task (usb_cdc.c) and digital_io_task          *)
(* (digital_io.c) write it, the shared TX queue, the heartbeat timers and  *)
(* the debounced key switch and buttons.  The two tasks run on two cores   *)
(* and share g_sys_state without a lock, so each loop body is cut into the *)
(* steps at which it reads or writes shared state.                         *)
(*                                                                         *)
(* One Tick is one FreeRTOS tick, with the three heartbeat intervals       *)
(* scaled down.  g_last_heartbeat_rx_tick and last_heartbeat_tx are kept   *)
(* as ages (now - tick), saturated where no comparison can tell values     *)
(* apart.  cdc_task sleeps one tick per loop.  digital_io_task sleeps      *)
(* twenty, so it starts at most once per tick and, being a millisecond     *)
(* long at most, ends in the tick it started in.  Port A stands for its    *)
(* key bit and port B for its buttons: the other bits follow the same      *)
(* path.                                                                   *)
(***************************************************************************)
EXTENDS Integers, Sequences, FiniteSets

CONSTANTS
  Buttons,        \* the inputs of port B
  Modes,          \* the states the Pi may command with PROTO_TYPE_MODE
  TxDepth,        \* TX_QUEUE_DEPTH
  HbTx,           \* HEARTBEAT_TX_INTERVAL_MS
  HbWindow,       \* HEARTBEAT_TX_INTERVAL_MS + 200
  HbTimeout,      \* HEARTBEAT_TIMEOUT_MS
  OthersPerTick   \* packets the other producers may queue in one tick

SysState == {"BOOT", "INIT", "WAITING", "CONNECTED", "LOCKED", "ACTIVE", "ERROR"}
Live     == {"CONNECTED", "LOCKED", "ACTIVE"}
NoMode   == "none"

ASSUME DepthAssumption  == TxDepth \in Nat \ {0} /\ OthersPerTick \in Nat
ASSUME HbAssumption     == /\ HbTx \in Nat /\ HbWindow \in Nat /\ HbTimeout \in Nat
                           /\ 0 < HbTx /\ HbTx < HbWindow /\ HbWindow < HbTimeout
ASSUME ModesAssumption  == Modes \subseteq SysState

Port == [unlocked: BOOLEAN, pressed: SUBSET Buttons]

\* What the queue carries.  Only the content the Pi's view depends on is kept.
Packet ==
       [type: {"SWITCH", "DIGITAL"}, port: Port]
  \cup [type: {"KEY"}, unlocked: BOOLEAN]
  \cup [type: {"BUTTON"}, button: Buttons, pressed: BOOLEAN]
  \cup [type: {"USB_CONNECTED", "USB_DISCONNECTED", "HEARTBEAT", "ERROR", "TELEMETRY"}]

Plain(t) == [type |-> t]

RxCap == HbTimeout + 2      \* rxAge saturates here
TxCap == HbTx               \* txAge saturates here

VARIABLES
  sys,        \* g_sys_state
  was,        \* was_connected
  rxAge,      \* now - g_last_heartbeat_rx_tick
  txAge,      \* now - last_heartbeat_tx
  cdc,        \* where cdc_task is in its loop
  cur,        \* cdc_task's copy of the state
  prev,       \* s_prev_raw_a, s_prev_raw_b
  stable,     \* s_stable_a, s_stable_b
  next,       \* new_stable_a, new_stable_b
  dio,        \* where digital_io_task is in its loop
  pend,       \* buttons whose event the loop has still to send
  txq,        \* g_tx_queue
  others,     \* packets the other producers queued in this tick
  piPort,     \* history: the ports as the Pi last heard of them
  heard,      \* history: a heartbeat arrived since cdc_task last gave the Pi up
  lost,       \* history: timeouts reported since the last sign of the Pi
  forced      \* history: the state in force was commanded with MODE

cdcVars  == <<was, rxAge, txAge, cdc, cur>>
dioVars  == <<prev, stable, next, dio, pend>>
history  == <<heard, lost, forced>>
vars == <<sys, cdcVars, dioVars, txq, others, piPort, history>>

CdcPoints == {"start", "poll", "drain", "rx", "beat", "read", "check", "delay"}
DioPoints == {"ready", "switch", "key", "buttons", "publish", "wait"}

TypeOK ==
  /\ sys \in SysState /\ cur \in SysState
  /\ was \in BOOLEAN
  /\ rxAge \in 0..RxCap /\ txAge \in 0..TxCap
  /\ cdc \in CdcPoints /\ dio \in DioPoints
  /\ prev \in Port /\ stable \in Port /\ next \in Port /\ piPort \in Port
  /\ pend \subseteq Buttons
  /\ txq \in Seq(Packet) /\ Len(txq) <= TxDepth
  /\ others \in 0..OthersPerTick
  /\ heard \in BOOLEAN /\ lost \in 0..3 /\ forced \in BOOLEAN

-----------------------------------------------------------------------------
\* s_prev_raw and s_stable start as 0xFF on both ports.  The inputs are
\* active-low: key locked, nothing pressed.
AllHigh == [unlocked |-> FALSE, pressed |-> {}]

\* Both tasks are created and the scheduler starts.  main() leaves SYS_ERROR
\* behind instead of SYS_INIT when the watchdog caused the reset.
Init ==
  /\ sys \in {"INIT", "ERROR"} /\ cur = "BOOT"
  /\ was = FALSE
  /\ rxAge = 0 /\ txAge = 0 /\ cdc = "start"
  /\ prev = AllHigh /\ stable = AllHigh /\ next = AllHigh
  /\ dio = "ready" /\ pend = {}
  /\ txq = <<>> /\ others = 0
  /\ piPort = AllHigh
  /\ heard = FALSE /\ lost = 0 /\ forced = FALSE

\* Operators named ...Fault are faulty variants of the definition that follows
\* them.  Nothing uses them but the mutation runs.

EnqueueFault(q, item) == Append(q, item)    \* no depth

\* xQueueSend(g_tx_queue, &item, 0): a full queue drops the new item.
Enqueue(q, item) == IF Len(q) < TxDepth THEN Append(q, item) ELSE q
Send(item) == txq' = Enqueue(txq, item)

-----------------------------------------------------------------------------
(* cdc_task *)

\* Before the loop: the state main() left is replaced.
CdcStart ==
  /\ cdc = "start"
  /\ rxAge' = 0 /\ txAge' = 0
  /\ sys' = "WAITING" /\ forced' = FALSE
  /\ cdc' = "poll"
  /\ UNCHANGED <<was, cur, dioVars, txq, others, piPort, heard, lost>>

\* tud_cdc_connected() is read once per loop.  A rising edge restarts both
\* timers, a falling one does not.
CdcPoll(connected) ==
  /\ cdc = "poll"
  /\ was' = connected
  /\ cdc' = IF connected THEN "drain" ELSE "delay"
  /\ \/ /\ connected /\ ~was
        /\ Send(Plain("USB_CONNECTED"))
        /\ rxAge' = 0 /\ txAge' = 0
        /\ sys' = "WAITING" /\ forced' = FALSE /\ heard' = FALSE /\ lost' = 0
     \/ /\ ~connected /\ was
        /\ Send(Plain("USB_DISCONNECTED"))
        /\ sys' = "WAITING" /\ forced' = FALSE /\ heard' = FALSE
        /\ UNCHANGED <<rxAge, txAge, lost>>
     \/ /\ connected = was
        /\ UNCHANGED <<txq, rxAge, txAge, sys, history>>
  /\ UNCHANGED <<cur, dioVars, others, piPort>>

\* What a packet tells the Pi, and the last packet of the queue that tells it.
TellsKey(i)     == txq[i].type \in {"SWITCH", "DIGITAL", "KEY"}
TellsButtons(i) == txq[i].type \in {"SWITCH", "DIGITAL"}
KeyIn(p)        == IF p.type = "KEY" THEN p.unlocked ELSE p.port.unlocked
IsLast(i, P(_)) == P(i) /\ \A j \in DOMAIN txq : P(j) => j <= i

\* The Pi hears of the key and of the buttons from the packets of the queue.
PiLearns ==
  \E unlocked \in BOOLEAN, pressed \in SUBSET Buttons :
    /\ piPort' = [unlocked |-> unlocked, pressed |-> pressed]
    /\ IF \E i \in DOMAIN txq : TellsKey(i)
         THEN \E i \in DOMAIN txq : IsLast(i, TellsKey) /\ unlocked = KeyIn(txq[i])
         ELSE unlocked = piPort.unlocked
    /\ IF \E i \in DOMAIN txq : TellsButtons(i)
         THEN \E i \in DOMAIN txq : IsLast(i, TellsButtons) /\ pressed = txq[i].port.pressed
         ELSE pressed = piPort.pressed

CdcDrain ==
  /\ cdc = "drain"
  /\ PiLearns
  /\ txq' = <<>>
  /\ cdc' = "rx"
  /\ UNCHANGED <<sys, was, rxAge, txAge, cur, dioVars, others, history>>

\* One read of the CDC FIFO.  A 64-byte read holds a few frames at most; what
\* counts is whether a heartbeat was among them, which is echoed through the
\* queue, and which state the last MODE frame commanded.
CdcRx(beat, mode) ==
  /\ cdc = "rx"
  /\ IF beat
       THEN /\ rxAge' = 0 /\ heard' = TRUE
            /\ Send(Plain("HEARTBEAT"))
       ELSE UNCHANGED <<rxAge, heard, txq>>
  /\ lost' = IF beat \/ mode # NoMode THEN 0 ELSE lost
  /\ IF mode = NoMode THEN UNCHANGED <<sys, forced>> ELSE sys' = mode /\ forced' = TRUE
  /\ cdc' = "beat"
  /\ UNCHANGED <<was, txAge, cur, dioVars, others, piPort>>

CdcBeatFault ==      \* last_heartbeat_tx stamped on every loop
  /\ cdc = "beat"
  /\ txAge' = 0
  /\ cdc' = "read"
  /\ UNCHANGED <<sys, was, rxAge, cur, dioVars, txq, others, piPort, history>>

\* The firmware's own heartbeat is written past the queue.
CdcBeat ==
  /\ cdc = "beat"
  /\ txAge' = IF txAge >= HbTx THEN 0 ELSE txAge
  /\ cdc' = "read"
  /\ UNCHANGED <<sys, was, rxAge, cur, dioVars, txq, others, piPort, history>>

CdcRead ==
  /\ cdc = "read"
  /\ cur' = sys
  /\ cdc' = "check"
  /\ UNCHANGED <<sys, was, rxAge, txAge, dioVars, txq, others, piPort, history>>

TimedOutFault1 == cur \in {"LOCKED", "ACTIVE"} /\ rxAge >= HbTimeout
TimedOutFault2 == cur = "CONNECTED" /\ rxAge >= HbTimeout
ReconnectFault == cur = "WAITING" /\ rxAge < HbWindow    \* no heartbeat needed

TimedOut  == cur \in Live /\ rxAge >= HbTimeout
Reconnect == cur = "WAITING" /\ rxAge < HbWindow /\ rxAge < txAge

\* The decision is taken on the copy made by CdcRead, whatever sys is by now.
CdcCheck ==
  /\ cdc = "check"
  /\ \/ /\ TimedOut
        /\ Send(Plain("USB_DISCONNECTED"))
        /\ sys' = "WAITING" /\ forced' = FALSE /\ heard' = FALSE
        /\ lost' = IF lost < 3 THEN lost + 1 ELSE lost
     \/ /\ Reconnect
        /\ sys' = "CONNECTED" /\ forced' = FALSE
        /\ UNCHANGED <<txq, heard, lost>>
     \/ /\ ~TimedOut /\ ~Reconnect
        /\ UNCHANGED <<sys, txq, history>>
  /\ cdc' = "delay" /\ cur' = "BOOT"      \* cur goes out of scope
  /\ UNCHANGED <<was, rxAge, txAge, dioVars, others, piPort>>

-----------------------------------------------------------------------------
(* digital_io_task *)

DebouncedFault(raw) == raw    \* no filter

\* The two-sample filter works on a port at a time.
Debounced(raw) ==
  [unlocked |-> IF raw.unlocked = prev.unlocked THEN raw.unlocked ELSE stable.unlocked,
   pressed  |-> IF raw.pressed  = prev.pressed  THEN raw.pressed  ELSE stable.pressed]

\* Both ports are read and the state is copied; the copy decides for the whole
\* loop body whether events are sent.  Key and buttons are worked at any time
\* and their contacts bounce: any reading may follow any other.
DioSample(raw) ==
  /\ dio = "ready"
  /\ next' = Debounced(raw)
  /\ prev' = raw
  /\ dio' = IF sys \in Live /\ Debounced(raw) # stable THEN "switch" ELSE "publish"
  /\ UNCHANGED <<sys, cdcVars, stable, pend, txq, others, piPort, history>>

DioSwitch ==
  /\ dio = "switch"
  /\ Send([type |-> "SWITCH", port |-> next])
  /\ dio' = "key"
  /\ UNCHANGED <<sys, cdcVars, prev, stable, next, pend, others, piPort, history>>

KeyStateFault(unlocked) == IF unlocked THEN "LOCKED" ELSE "ACTIVE"

KeyState(unlocked) == IF unlocked THEN "ACTIVE" ELSE "LOCKED"

\* A turn of the key is reported and then decides the state, whatever cdc_task
\* made of it since DioSample.
DioKey ==
  /\ dio = "key"
  /\ IF next.unlocked # stable.unlocked
       THEN /\ Send([type |-> "KEY", unlocked |-> next.unlocked])
            /\ sys' = KeyState(next.unlocked) /\ forced' = FALSE
       ELSE UNCHANGED <<txq, sys, forced>>
  /\ pend' = (next.pressed \ stable.pressed) \cup (stable.pressed \ next.pressed)
  /\ dio' = "buttons"
  /\ UNCHANGED <<cdcVars, prev, stable, next, others, piPort, heard, lost>>

DioButton(b) ==
  /\ dio = "buttons" /\ b \in pend
  /\ Send([type |-> "BUTTON", button |-> b, pressed |-> b \in next.pressed])
  /\ pend' = pend \ {b}
  /\ UNCHANGED <<sys, cdcVars, prev, stable, next, dio, others, piPort, history>>

DioPublishFault ==    \* the packet is queued on a change only
  /\ dio = "publish" \/ (dio = "buttons" /\ pend = {})
  /\ stable' = next
  /\ IF next # stable THEN Send([type |-> "DIGITAL", port |-> next]) ELSE UNCHANGED txq
  /\ dio' = "wait"
  /\ UNCHANGED <<sys, cdcVars, prev, next, pend, others, piPort, history>>

\* The debounced ports become the stable ones and are queued, events or not.
DioPublish ==
  /\ dio = "publish" \/ (dio = "buttons" /\ pend = {})
  /\ stable' = next
  /\ Send([type |-> "DIGITAL", port |-> next])
  /\ dio' = "wait"
  /\ UNCHANGED <<sys, cdcVars, prev, next, pend, others, piPort, history>>

-----------------------------------------------------------------------------
(* The surroundings *)

\* adc_task, veml7700_task and rs485_task queue their packets too.
OtherSend ==
  /\ others < OthersPerTick
  /\ others' = others + 1
  /\ Send(Plain("TELEMETRY"))
  /\ UNCHANGED <<sys, cdcVars, dioVars, piPort, history>>

Older(age, cap) == IF age < cap THEN age + 1 ELSE age

\* Neither task is inside its loop body when the tick comes.
Tick ==
  /\ cdc = "delay" /\ dio \in {"ready", "wait"}
  /\ cdc' = "poll" /\ dio' = "ready"
  /\ rxAge' = Older(rxAge, RxCap)
  /\ txAge' = Older(txAge, TxCap)
  /\ others' = 0
  /\ UNCHANGED <<sys, was, cur, prev, stable, next, pend, txq, piPort, history>>

\* The watchdog fires: RAM is as after power-up, the Pi and the panel are not
\* reset, and USB enumerates anew.
WatchdogReset ==
  /\ sys' = "ERROR" /\ cur' = "BOOT"
  /\ was' = FALSE
  /\ rxAge' = 0 /\ txAge' = 0 /\ cdc' = "start"
  /\ prev' = AllHigh /\ stable' = AllHigh /\ next' = AllHigh
  /\ dio' = "ready" /\ pend' = {}
  /\ txq' = <<>> /\ others' = 0
  /\ heard' = FALSE /\ lost' = 0 /\ forced' = FALSE
  /\ UNCHANGED piPort

CdcStep == \/ CdcStart \/ CdcDrain
           \/ \E connected \in BOOLEAN : CdcPoll(connected)
           \/ \E beat \in BOOLEAN, mode \in Modes \cup {NoMode} : CdcRx(beat, mode)
           \/ CdcBeat \/ CdcRead \/ CdcCheck
DioStep == \/ \E raw \in Port : DioSample(raw)
           \/ DioSwitch \/ DioKey
           \/ \E b \in Buttons : DioButton(b)
           \/ DioPublish

Next ==
  \/ CdcStep \/ DioStep \/ Tick
  \/ OtherSend \/ WatchdogReset

Spec == Init /\ [][Next]_vars

\* The scheduler runs both tasks and the tick interrupt.  Nothing obliges the
\* Pi, the operator or the cable to do anything.
Fairness == WF_vars(CdcStep) /\ WF_vars(DioStep) /\ WF_vars(Tick)
FairSpec == Spec /\ Fairness

-----------------------------------------------------------------------------
(* Properties *)

\* cdc_task declares the Pi connected only on the strength of a heartbeat that
\* came after it last gave the Pi up (boot, USB edge or timeout) and that is
\* younger than the window: usb_cdc.c 60-71 and 114-125.
ConnectNeedsHeartbeat ==
  [][sys' = "CONNECTED" /\ sys # "CONNECTED" /\ ~forced' => heard /\ rxAge < HbWindow]_vars

\* SYS_CONNECTED ("heartbeat exchange active") is never in force without a USB
\* session as cdc_task sees it, nor past the heartbeat timeout, unless the Pi
\* commanded it: no step of digital_io_task brings it back.
ConnectedIsFresh ==
  sys = "CONNECTED" => was /\ (rxAge <= HbTimeout \/ forced)

\* The key as digital_io_task has acted on it so far in its loop body.
KeyActedOn == IF dio \in {"buttons", "publish"} THEN next.unlocked ELSE stable.unlocked

\* LOCKED and ACTIVE, unless commanded with MODE, agree with the debounced key
\* however the two tasks' writes of g_sys_state interleave: digital_io.c 170-174.
LockStateMatchesKey ==
  sys \in {"LOCKED", "ACTIVE"} /\ ~forced => (sys = "ACTIVE" <=> KeyActedOn)

\* digital_io_task may undo cdc_task's timeout with a stale copy of the state,
\* but only for one tick: a live state in a USB session is never older than one
\* tick past the timeout (no MODE frames).
LiveIsRecent ==
  sys \in Live /\ was => rxAge <= HbTimeout + 1

\* For the same reason one outage is reported as a timeout at most twice: the
\* two-sample filter leaves no room for a third (no MODE frames).
TimeoutReportedTwiceAtMost == lost <= 2

\* The Pi's heartbeat is read between two of the firmware's own.
BeatBetweenBeats == cdc = "beat" /\ rxAge = 0 /\ txAge \in 1..(HbTx - 1)

\* A Pi that stays plugged in and keeps sending such heartbeats is taken for
\* live again after any history of losses, resets and races.
LinkRecovers == <>[]was /\ []<>BeatBetweenBeats => []<>(sys \in Live)

\* While the Pi stays plugged in, it ends up with the true position of a panel
\* that reads the same ever after: events are lost whenever the queue is full or the state
\* is not live, and the periodic DIGITAL packet makes up for it.
PiLearnsPorts ==
  \A p \in Port : <>[]was /\ <>[](prev = p) => <>[](piPort = p)

\* main.c:110 of a watchdog reset: "Will send error packet once CDC task starts".
\* It is queued at the latest when the host is there for good.
WatchdogResetReported ==
  <>[]was => (cdc = "start" /\ sys = "ERROR" ~> \E i \in DOMAIN txq : txq[i] = Plain("ERROR"))

=============================================================================
