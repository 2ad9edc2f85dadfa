------------------------------ MODULE PicoLink ------------------------------
(***************************************************************************)
(* The Pi's side of the USB link: PicoLink (picolink.cpp) with the part of *)
(* GCSState (gcsstate.cpp) it reads and writes, the operator's panel, and  *)
(* the Pico as PicoLink sees it.  Everything on the Pi runs in the one     *)
(* thread of Qt's event loop, so a slot is one action.  What interleaves   *)
(* with it is the cable, the packets and frames under way, the panel and   *)
(* the timers.                                                             *)
(*                                                                         *)
(* The switches are active-low on the wire; here a port is the set of      *)
(* inputs that are on, the key being on when it is unlocked.  m_lastPortA  *)
(* and m_lastPortB take every port word GCSState takes, from the same      *)
(* initial 0xFF, so gcs.sw stands for both.  The drone's messages are not  *)
(* parsed yet (the handlers of mavlinklink.cpp are empty), so flightMode() *)
(* is "UNKNOWN" and droneArmed() false for good, and no warning is ever    *)
(* active (updateWarnings has no caller).                                  *)
(***************************************************************************)
EXTENDS Integers, Sequences, FiniteSets

CONSTANTS
  Groups,       \* sets of things that vary together in one behaviour
  AdcCounts,    \* readings of the battery channel
  Addresses,    \* peripherals on the bus
  Data,         \* payloads of their responses, as sequences of bytes
  Sliders,      \* where a slider for the brightness is dragged
  MaxEvents,    \* bound: things that happen outside the Pi and the Pico
  Room          \* bound: packets, and frames, under way at a time

PortInputs == {"key", "arm", "rc", "rth", "pay1Arm", "pay1Fire", "pay2Arm", "pay2Fire"}
Buttons    == {"crosshair", "button1", "button2"}
Payloads   == {"pay1", "pay2"}
ArmOf(p)   == IF p = "pay1" THEN "pay1Arm" ELSE "pay2Arm"
FireOf(p)  == IF p = "pay1" THEN "pay1Fire" ELSE "pay2Fire"

\* What the Pi commands on the Pico.
Items == Payloads \cup Buttons \cup {"tft", "worklight", "brightness"}

ASSUME RoomAssumption == MaxEvents \in Nat /\ Room \in Nat /\ Room >= 4
ASSUME DataAssumption ==
  Addresses \subseteq 0..255 /\ Data \subseteq Seq(0..255) /\ Sliders \subseteq Int
ASSUME GroupsAssumption ==
  /\ AdcCounts \subseteq 0..4095
  /\ Groups \subseteq SUBSET (PortInputs \cup Buttons
                              \cup {"cable", "battery", "bus", "screens"})

VARIABLES
  group,      \* what varies in this behaviour
  events,     \* how often it may still do so
  plugged,    \* the Pico is there as /dev/ttyACM0
  open,       \* m_serial.isOpen()
  connected,  \* m_connected
  retry,      \* m_retryTimer runs
  toPi,       \* packets on their way to the Pi
  toPico,     \* frames on their way to the Pico
  on,         \* the inputs that are on, on the panel
  panel,      \* what each item shows on the Pico
  gcs,        \* GCSState
  synced,     \* m_initialSyncDone
  lastTft,    \* m_lastTftMode
  prevMode,   \* m_previousFlightMode
  asked,      \* the last mode asked of the drone (cmdSetMode)
  prompt,     \* the arming prompt of Main.qml is open
  unsure,     \* history: items whose last frame is lost, or that had none yet
  skipped     \* history: RC or RTH moved since without asking for a mode

linkVars == <<plugged, open, connected, retry>>
wireVars == <<toPi, toPico, panel, unsure>>
modeVars == <<prevMode, asked, skipped>>
envVars  == <<group, events, on>>
vars == <<linkVars, wireVars, modeVars, envVars, gcs, synced, lastTft, prompt>>

FlightMode == "UNKNOWN"

Packet ==
       [type: {"DIGITAL", "SWITCH"}, on: SUBSET PortInputs]
  \cup [type: {"KEY"}, unlocked: BOOLEAN]
  \cup [type: {"BUTTON"}, button: Buttons, pressed: BOOLEAN]
  \cup [type: {"ADC"}, count: AdcCounts]
  \cup [type: {"PERIPH_STATE"}, addr: Addresses, online: BOOLEAN]
  \cup [type: {"PERIPH_DATA"}, addr: Addresses, data: Data]
  \cup [type: {"HEARTBEAT"}]

\* A light, or a kind of setting with its value.
Light(l) == <<l, 0>>
Shown    == {"dark", "off", "blink", "solid", "lit", "level", "mode", "detail"} \X (0..255)

TypeOK ==
  /\ group \in Groups /\ events \in 0..MaxEvents
  /\ plugged \in BOOLEAN /\ open \in BOOLEAN /\ connected \in BOOLEAN /\ retry \in BOOLEAN
  /\ toPi \in Seq(Packet) /\ Len(toPi) <= Room
  /\ toPico \in Seq([item: Items \cup {"none"}, shown: Shown]) /\ Len(toPico) <= Room
  /\ on \subseteq PortInputs \cup Buttons
  /\ panel \in [Items -> Shown]
  /\ gcs \in [link: BOOLEAN, unlocked: BOOLEAN, sw: SUBSET (PortInputs \ {"key"}),
              crosshair: BOOLEAN, percent: 0..100, worklight: BOOLEAN, screenL: 0..100,
              online: [Addresses -> {"unlisted", "online", "offline"}],
              detail: [Addresses -> Seq(0..255)]]
  /\ synced \in BOOLEAN /\ lastTft \in -1..6
  /\ prevMode \in {"", "UNKNOWN"}
  /\ asked \in {"none", "GUIDED", "RTL", "LOITER", "UNKNOWN"}
  /\ prompt \in BOOLEAN
  /\ unsure \subseteq Items /\ skipped \in BOOLEAN

-----------------------------------------------------------------------------
\* Sending.  A frame names the item it sets and what it sets it to ("none"
\* for a frame that sets nothing here).  sendFrame refuses when m_connected is
\* false; what is written to a port whose device is gone is lost.

Frame(i, s) == [item |-> i, shown |-> s]
ItemsOf(frames) == {frames[k].item : k \in DOMAIN frames} \ {"none"}

Send(frames) ==
  /\ Len(toPico) + Len(frames) <= Room
  /\ toPico' = IF connected /\ plugged THEN toPico \o frames ELSE toPico
  /\ unsure' = IF connected /\ plugged THEN unsure \ ItemsOf(frames)
               ELSE unsure \cup ItemsOf(frames)

\* The light of a payload button, for the switches that are on.
PayloadLight(p, sw) ==
  IF ArmOf(p) \in sw THEN Light(IF FireOf(p) \in sw THEN "solid" ELSE "blink") ELSE Light("off")

\* updatePayloadLeds: a frame for each button.
PayloadFrames(sw) == <<Frame("pay1", PayloadLight("pay1", sw)),
                       Frame("pay2", PayloadLight("pay2", sw))>>

\* updateTftMode: what has priority.  A peripheral that is listed counts, be
\* it online or not.
TftMode(g) ==
  CASE g.percent < 15                              -> 4
    [] g.percent >= 15 /\ ~g.unlocked              -> 3
    [] g.percent >= 15 /\ g.unlocked /\ (\E a \in Addresses : g.online[a] # "unlisted") -> 5
    [] OTHER                                       -> 1

\* adcToVolts and batteryPercent, in millivolts: 19.8 V is 0 %, 25.2 V is 100 %.
MilliVolts(count) == (count * 33 * 8021) \div 40950
PercentFault(mv) == IF mv >= 25200 THEN 100 ELSE ((mv - 19800) * 100) \div 5400
Percent(mv) == IF mv >= 25200 THEN 100 ELSE IF mv <= 19800 THEN 0
               ELSE ((mv - 19800) * 100) \div 5400

\* handlePeriphDataPacket reads a length where the Pico sends the first byte
\* of the data, and uses at most what the packet holds.
DataLen(data) ==
  IF Len(data) = 0 THEN 0
  ELSE IF Len(data) - 1 < Head(data) THEN Len(data) - 1 ELSE Head(data)

\* handleSwitchLogic for RC (mode GUIDED) and RTH (mode RTL), one after the
\* other on the same two words.  st is what it has decided so far.
Moved(s, was, now) == (s \in was) # (s \in now)

FlightStepFault(s, mode, other, otherMode, was, now, unlocked, st) ==
  IF ~Moved(s, was, now) THEN st
  ELSE IF ~unlocked THEN [st EXCEPT !.skipped = TRUE]
  ELSE IF s \in now
  THEN [prev |-> IF other \in now THEN st.prev ELSE FlightMode,
        asked |-> mode, skipped |-> FALSE]
  ELSE [st EXCEPT !.skipped = FALSE,
          !.asked = IF st.prev = "" THEN "LOITER" ELSE st.prev]

FlightStep(s, mode, other, otherMode, was, now, unlocked, st) ==
  IF ~Moved(s, was, now) THEN st
  ELSE IF ~unlocked THEN [st EXCEPT !.skipped = TRUE]
  ELSE IF s \in now
  THEN [prev |-> IF other \in now THEN st.prev ELSE FlightMode,
        asked |-> mode, skipped |-> FALSE]
  ELSE [st EXCEPT !.skipped = FALSE, !.asked =
          IF other \in now THEN otherMode
          ELSE IF st.prev = "" THEN "LOITER" ELSE st.prev]

FlightLogic(was, now, unlocked) ==
  LET start == [prev |-> prevMode, asked |-> asked, skipped |-> skipped]
      rc    == FlightStep("rc", "GUIDED", "rth", "RTL", was, now, unlocked, start)
  IN  FlightStep("rth", "RTL", "rc", "GUIDED", was, now, unlocked, rc)

-----------------------------------------------------------------------------
\* The program starts: start() opens the port if it is there.
Init ==
  /\ group \in Groups /\ events = MaxEvents
  /\ plugged \in BOOLEAN /\ ("cable" \notin group => plugged)
  /\ open = plugged /\ connected = plugged /\ retry = ~plugged
  /\ toPi = <<>> /\ toPico = <<>>
  /\ on \in SUBSET (group \cap (PortInputs \cup Buttons))
  /\ panel = [i \in Items |-> Light("dark")]
  /\ gcs = [link |-> FALSE, unlocked |-> FALSE, sw |-> {}, crosshair |-> FALSE,
            percent |-> 0, worklight |-> FALSE, screenL |-> 80,
            online |-> [a \in Addresses |-> "unlisted"],
            detail |-> [a \in Addresses |-> <<>>]]
  /\ synced = FALSE /\ lastTft = -1 /\ prompt = FALSE
  /\ prevMode = "" /\ asked = "none"
  /\ unsure = Items /\ skipped = TRUE

\* Operators named ...Fault are faulty variants of the definition that follows
\* them.  Nothing uses them but the mutation runs.

-----------------------------------------------------------------------------
\* The port.

\* onSerialError: the device is gone.
OnSerialErrorFault ==
  /\ open /\ ~plugged
  /\ open' = FALSE /\ connected' = FALSE
  /\ gcs' = [gcs EXCEPT !.link = FALSE]
  /\ UNCHANGED <<plugged, retry, wireVars, modeVars, envVars, synced, lastTft, prompt>>

OnSerialError ==
  /\ open /\ ~plugged
  /\ open' = FALSE /\ connected' = FALSE /\ retry' = TRUE
  /\ gcs' = [gcs EXCEPT !.link = FALSE]
  /\ UNCHANGED <<plugged, wireVars, modeVars, envVars, synced, lastTft, prompt>>

\* The retry timer: openPort when not connected.
RetryConnect ==
  /\ retry /\ ~connected
  /\ IF plugged
     THEN open' = TRUE /\ connected' = TRUE /\ retry' = FALSE /\ gcs' = gcs
     ELSE gcs' = [gcs EXCEPT !.link = FALSE] /\ UNCHANGED <<open, connected, retry>>
  /\ UNCHANGED <<plugged, wireVars, modeVars, envVars, synced, lastTft, prompt>>

\* The heartbeat timer.  The time since m_lastHeartbeatSent is taken right
\* after m_lastHeartbeatSent was: the branch for more than 3000 ms is dead.
SendHeartbeat ==
  /\ connected /\ "cable" \in group
  /\ toPico = <<>>
  /\ LET sinceSent == 0 IN
       IF sinceSent > 3000
       THEN connected' = FALSE /\ gcs' = [gcs EXCEPT !.link = FALSE]
            /\ UNCHANGED <<toPico, unsure>>
       ELSE Send(<<Frame("none", Light("off"))>>) /\ UNCHANGED <<connected, gcs>>
  /\ UNCHANGED <<plugged, open, retry, toPi, panel, modeVars, envVars, synced, lastTft, prompt>>

-----------------------------------------------------------------------------
\* What processPacket makes of the packet at the head of toPi.

Handle(type) ==
  /\ open /\ toPi # <<>> /\ Head(toPi).type = type
  /\ toPi' = Tail(toPi)
  /\ UNCHANGED <<linkVars, panel, envVars>>

\* updateSwitchStates and, in Main.qml, what armSwitchToggled opens.
TakePorts(now, unlocked) ==
  /\ gcs' = [gcs EXCEPT !.unlocked = unlocked, !.sw = now \ {"key"}]
  /\ prompt' = (prompt \/ ("arm" \in now \ gcs.sw /\ unlocked))

SwitchLogicFault(now, unlocked) ==
  LET st   == FlightLogic(gcs.sw, now, unlocked)
      pays == {"pay1Arm", "pay2Arm"}
  IN  /\ prevMode' = st.prev /\ asked' = st.asked /\ skipped' = st.skipped
      /\ Send(IF \E s \in pays : Moved(s, gcs.sw, now) THEN PayloadFrames(now) ELSE <<>>)

\* handleSwitchLogic.
SwitchLogic(now, unlocked) ==
  LET st   == FlightLogic(gcs.sw, now, unlocked)
      pays == {"pay1Arm", "pay1Fire", "pay2Arm", "pay2Fire"}
  IN  /\ prevMode' = st.prev /\ asked' = st.asked /\ skipped' = st.skipped
      /\ Send(IF \E s \in pays : Moved(s, gcs.sw, now) THEN PayloadFrames(now) ELSE <<>>)

\* handleDigitalPacket.  The first one only synchronises.
HandleDigital ==
  /\ Handle("DIGITAL")
  /\ LET now == Head(toPi).on IN
       /\ TakePorts(now, "key" \in now)
       /\ synced' = TRUE
       /\ IF synced THEN SwitchLogic(now, "key" \in now)
          ELSE /\ Send(PayloadFrames(now))
               /\ skipped' = TRUE /\ UNCHANGED <<prevMode, asked>>
  /\ UNCHANGED lastTft

\* handleEventPacket, EVT_SWITCH_CHANGED.
HandleSwitch ==
  /\ Handle("SWITCH")
  /\ LET now == Head(toPi).on IN
       /\ TakePorts(now, "key" \in now)
       /\ IF synced THEN SwitchLogic(now, "key" \in now)
          ELSE skipped' = TRUE /\ UNCHANGED <<prevMode, asked, toPico, unsure>>
  /\ UNCHANGED <<synced, lastTft>>

\* EVT_KEY_LOCK_CHANGED.
HandleKey ==
  /\ Handle("KEY")
  /\ gcs' = [gcs EXCEPT !.unlocked = Head(toPi).unlocked]
  /\ UNCHANGED <<toPico, unsure, modeVars, synced, lastTft, prompt>>

\* EVT_BUTTON_PRESSED and EVT_BUTTON_RELEASED: handleButtonPress toggles the
\* crosshair; the other two buttons are lit while they are held.
HandleButton ==
  /\ Handle("BUTTON")
  /\ LET b == Head(toPi).button
         pressed == Head(toPi).pressed
         crosshair == IF b = "crosshair" /\ pressed THEN ~gcs.crosshair ELSE gcs.crosshair
     IN /\ gcs' = [gcs EXCEPT !.crosshair = crosshair]
        /\ Send(IF b # "crosshair"
                THEN <<Frame(b, Light(IF pressed THEN "lit" ELSE "off"))>>
                ELSE IF pressed THEN <<Frame(b, Light(IF crosshair THEN "lit" ELSE "off"))>>
                ELSE <<>>)
  /\ UNCHANGED <<modeVars, synced, lastTft, prompt>>

HandleHeartbeatFault ==
  /\ Handle("HEARTBEAT")
  /\ gcs' = [gcs EXCEPT !.link = TRUE]
  /\ lastTft' = TftMode(gcs)
  /\ Send(IF lastTft = -1 THEN <<Frame("tft", <<"mode", TftMode(gcs)>>)>> ELSE <<>>)
  /\ UNCHANGED <<modeVars, synced, prompt>>

\* handleHeartbeatPacket and updateTftMode.
HandleHeartbeat ==
  /\ Handle("HEARTBEAT")
  /\ gcs' = [gcs EXCEPT !.link = TRUE]
  /\ lastTft' = TftMode(gcs)
  /\ Send(IF TftMode(gcs) # lastTft THEN <<Frame("tft", <<"mode", TftMode(gcs)>>)>> ELSE <<>>)
  /\ UNCHANGED <<modeVars, synced, prompt>>

\* handleAdcPacket, the battery channel.
HandleAdc ==
  /\ Handle("ADC")
  /\ gcs' = [gcs EXCEPT !.percent = Percent(MilliVolts(Head(toPi).count))]
  /\ UNCHANGED <<toPico, unsure, modeVars, synced, lastTft, prompt>>

\* handlePeriphStatePacket: updatePeripheral lists an address for good.
HandlePeriphState ==
  /\ Handle("PERIPH_STATE")
  /\ gcs' = [gcs EXCEPT !.online[Head(toPi).addr] =
                IF Head(toPi).online THEN "online" ELSE "offline"]
  /\ UNCHANGED <<toPico, unsure, modeVars, synced, lastTft, prompt>>

\* handlePeriphDataPacket.
HandlePeriphData ==
  /\ Handle("PERIPH_DATA")
  /\ LET p == Head(toPi) IN
       gcs' = IF p.addr = 1 /\ DataLen(p.data) >= 3
              THEN [gcs EXCEPT !.online[1] = "online", !.detail[1] = Tail(p.data)]
              ELSE gcs
  /\ UNCHANGED <<toPico, unsure, modeVars, synced, lastTft, prompt>>

-----------------------------------------------------------------------------
\* The pages: what the operator taps.

Tap(feature) ==
  /\ events > 0 /\ feature \in group
  /\ events' = events - 1
  /\ UNCHANGED <<linkVars, toPi, panel, modeVars, group, on, synced>>

\* onTftScreen, from PeriphPage.qml: the overview.
TapOverview ==
  /\ Tap("screens")
  /\ Send(<<Frame("tft", <<"mode", 5>>)>>) /\ lastTft' = 5
  /\ UNCHANGED <<gcs, prompt>>

\* onTftPeriphDetail: the page offers it for a device that is online.  The
\* mode remembered in m_lastTftMode is not the one on the screen any more.
TapDetail(a) ==
  /\ Tap("screens") /\ gcs.online[a] = "online"
  /\ Len(toPico) < Room
  /\ toPico' = IF connected /\ plugged THEN Append(toPico, Frame("tft", <<"detail", a>>))
               ELSE toPico
  /\ unsure' = unsure \cup {"tft"}
  /\ UNCHANGED <<gcs, lastTft, prompt>>

\* setWorklightOn and onWorklightChanged.
TapWorklight ==
  /\ Tap("screens")
  /\ gcs' = [gcs EXCEPT !.worklight = ~@]
  /\ Send(<<Frame("worklight", Light(IF gcs'.worklight THEN "lit" ELSE "off"))>>)
  /\ UNCHANGED <<lastTft, prompt>>

\* setBrightnessScreenL and onBrightnessChanged: six bytes for three targets,
\* of which the firmware takes the first two, the LED strip's.
SlideScreenL(v) ==
  /\ Tap("screens") /\ v # gcs.screenL
  /\ gcs' = [gcs EXCEPT !.screenL = IF v < 0 THEN 0 ELSE IF v > 100 THEN 100 ELSE v]
  /\ Send(<<Frame("brightness", <<"level", (gcs'.screenL * 255) \div 100>>)>>)
  /\ UNCHANGED <<lastTft, prompt>>

\* onPeriphCmd: the frame goes on to the RS-485 bus.
TapPeriphCmd ==
  /\ Tap("bus")
  /\ Send(IF connected THEN <<Frame("none", Light("off"))>> ELSE <<>>)
  /\ UNCHANGED <<gcs, lastTft, prompt>>

\* The arming prompt is confirmed or dismissed.
AnswerPrompt ==
  /\ prompt /\ prompt' = FALSE
  /\ UNCHANGED <<linkVars, wireVars, modeVars, envVars, gcs, synced, lastTft>>

-----------------------------------------------------------------------------
\* The Pico, the panel and the cable.

\* digital_io_task reports a change: the event, the key, the buttons, and the
\* full state.  A full TX queue may cost the events.
Report(now, changed) ==
  LET ports == now \cap PortInputs
      keys  == IF "key" \in changed THEN <<[type |-> "KEY", unlocked |-> "key" \in now]>>
               ELSE <<>>
      press == IF changed \cap Buttons = {} THEN <<>>
               ELSE LET b == CHOOSE x \in changed \cap Buttons : TRUE
                    IN  <<[type |-> "BUTTON", button |-> b, pressed |-> b \in now]>>
  IN  {<<[type |-> "DIGITAL", on |-> ports]>>,
       <<[type |-> "SWITCH", on |-> ports]>> \o keys \o press
          \o <<[type |-> "DIGITAL", on |-> ports]>>}

\* Up to two inputs change within one period of the debouncer.
Operate(changed) ==
  /\ events > 0 /\ changed # {} /\ Cardinality(changed) <= 2
  /\ Cardinality(changed \cap Buttons) <= 1
  /\ events' = events - 1
  /\ on' = (on \cup changed) \ (on \cap changed)
  /\ \E packets \in Report(on', changed) :
       /\ Len(toPi) + Len(packets) <= Room
       /\ toPi' = IF plugged /\ open THEN toPi \o packets ELSE toPi
  /\ UNCHANGED <<linkVars, toPico, panel, unsure, modeVars, group, gcs, synced, lastTft, prompt>>

\* What comes of itself: the state every 20 ms and the heartbeat every second.
\* The firmware sends nothing to a port that nobody has open.
Periodic(packet) ==
  /\ plugged /\ toPi = <<>>
  /\ toPi' = IF open THEN <<packet>> ELSE toPi
  /\ UNCHANGED <<linkVars, toPico, panel, unsure, modeVars, envVars, gcs, synced, lastTft, prompt>>

PeriodicState == Periodic([type |-> "DIGITAL", on |-> on \cap PortInputs])
PeriodicBeat  == Periodic([type |-> "HEARTBEAT"])

\* adc_task and rs485_task have something to say.
Measure ==
  /\ events > 0 /\ events' = events - 1 /\ plugged /\ open /\ Len(toPi) < Room
  /\ \/ /\ "battery" \in group
        /\ \E c \in AdcCounts : toPi' = Append(toPi, [type |-> "ADC", count |-> c])
     \/ /\ "bus" \in group
        /\ \E a \in Addresses :
             \/ \E up \in BOOLEAN :
                  toPi' = Append(toPi, [type |-> "PERIPH_STATE", addr |-> a, online |-> up])
             \/ \E d \in Data :
                  toPi' = Append(toPi, [type |-> "PERIPH_DATA", addr |-> a, data |-> d])
  /\ UNCHANGED <<linkVars, toPico, panel, unsure, modeVars, group, on, gcs, synced, lastTft, prompt>>

\* The firmware carries out a frame.
PicoReceive ==
  /\ plugged /\ toPico # <<>>
  /\ toPico' = Tail(toPico)
  /\ panel' = [i \in Items |-> IF i = Head(toPico).item THEN Head(toPico).shown ELSE panel[i]]
  /\ UNCHANGED <<linkVars, toPi, unsure, modeVars, envVars, gcs, synced, lastTft, prompt>>

\* The cable is pulled, or the Pico resets and enumerates again: what was
\* under way is lost, and with a reset what the panel showed.
Unplug ==
  /\ "cable" \in group /\ events > 0 /\ events' = events - 1
  /\ plugged /\ plugged' = FALSE
  /\ toPi' = <<>> /\ toPico' = <<>>
  /\ \/ panel' = panel /\ unsure' = unsure \cup ItemsOf(toPico)
     \/ panel' = [i \in Items |-> Light("dark")] /\ unsure' = Items
  /\ UNCHANGED <<open, connected, retry, modeVars, group, on, gcs, synced, lastTft, prompt>>

\* It comes back, under the same name once the port is closed.
Plug ==
  /\ ~plugged /\ ~open /\ plugged' = TRUE
  /\ UNCHANGED <<open, connected, retry, wireVars, modeVars, envVars, gcs, synced, lastTft, prompt>>

-----------------------------------------------------------------------------
PiStep == \/ OnSerialError \/ RetryConnect
          \/ HandleDigital \/ HandleSwitch \/ HandleKey \/ HandleButton
          \/ HandleHeartbeat \/ HandleAdc \/ HandlePeriphState \/ HandlePeriphData

PageStep == \/ TapOverview \/ TapWorklight \/ TapPeriphCmd \/ AnswerPrompt
            \/ \E a \in Addresses : TapDetail(a)
            \/ \E v \in Sliders : SlideScreenL(v)

Next == \/ PiStep \/ SendHeartbeat \/ PageStep
        \/ \E changed \in SUBSET (group \cap (PortInputs \cup Buttons)) : Operate(changed)
        \/ PeriodicState \/ PeriodicBeat \/ Measure \/ PicoReceive \/ Unplug \/ Plug

\* Qt delivers what is due, the Pico runs, and a Pico that is gone comes back.
\* The state and the heartbeat each keep coming.
Fairness ==
  /\ WF_vars(PiStep) /\ WF_vars(PicoReceive) /\ WF_vars(Plug)
  /\ SF_vars(PeriodicState) /\ SF_vars(PeriodicBeat)

Spec == Init /\ [][Next]_vars /\ Fairness

-----------------------------------------------------------------------------
\* The item i ends up as s once these frames have arrived, now being what the
\* items show before.
EndsAs(frames, now, i, s) ==
  \/ now[i] = s /\ \A k \in DOMAIN frames : frames[k].item # i
  \/ \E k \in DOMAIN frames : /\ frames[k] = Frame(i, s)
                             /\ \A l \in DOMAIN frames : l > k => frames[l].item # i

\* What it should show, going by GCSState and m_lastTftMode.
Intended(i) ==
  CASE i \in Payloads     -> PayloadLight(i, gcs.sw)
    [] i = "crosshair"    -> Light(IF gcs.crosshair THEN "lit" ELSE "off")
    [] i = "tft"          -> <<"mode", lastTft>>
    [] i = "worklight"    -> Light(IF gcs.worklight THEN "lit" ELSE "off")
    [] i = "brightness"   -> <<"level", (gcs.screenL * 255) \div 100>>

\* Apart from what was lost with the cable, the lights of the payload buttons,
\* the crosshair light, the TFT mode, the worklight and the brightness are, or
\* are about to be, what the Pi's state says: every path through the handlers
\* that changes that state sends the frames that go with it.
PanelFollows ==
  \A i \in Items \ (unsure \cup {"button1", "button2"}) :
    EndsAs(toPico, panel, i, Intended(i))

\* The mode last asked of the drone is the one the RC and RTH switches call
\* for, in whatever order and however close together they moved, unless they
\* moved while the key was locked or before the first packet.
ModeMatchesSwitches ==
  asked # "none" /\ ~skipped =>
    /\ "rc" \in gcs.sw /\ "rth" \notin gcs.sw => asked = "GUIDED"
    /\ "rth" \in gcs.sw /\ "rc" \notin gcs.sw => asked = "RTL"
    /\ "rc" \notin gcs.sw /\ "rth" \notin gcs.sw => asked \in {"LOITER", FlightMode}
    /\ "rc" \in gcs.sw /\ "rth" \in gcs.sw => asked \in {"GUIDED", "RTL"}

\* A Pico that stays plugged in is found again, and its heartbeat is seen,
\* whatever became of the port before.
LinkReopens == <>[]plugged => <>[](connected /\ gcs.link)

\* Once the operator rests, the TFT shows the mode that has priority, or the
\* device it was asked to show, unless frames were lost with the cable.
TftSettles == <>[](panel["tft"] = <<"mode", TftMode(gcs)>> \/ "tft" \in unsure)

=============================================================================
