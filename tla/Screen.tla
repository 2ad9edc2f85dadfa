------------------------------- MODULE Screen -------------------------------
(***************************************************************************)
(* The TFT of the Pico (screen_display.c): what screen_task, every 200 ms, *)
(* draws of the system state, the switches, the battery and a peripheral,  *)
(* while cdc_task and rs485_task on the other core change all of these.    *)
(* A picture is a record of what it tells; coordinates and colours are     *)
(* left out.  One reading stands for g_latest_adc and one value for both   *)
(* ports.  A call that writes the detail cache takes one step per variable *)
(* it writes, in the order of the source, and so does drawing per group of *)
(* variables it reads: nothing protects them.                              *)
(***************************************************************************)
EXTENDS Integers, FiniteSets

CONSTANTS
  Groups,     \* sets of things that vary together in one behaviour
  HostModes,  \* modes the Pi asks for with SCREEN frames
  Batteries,  \* readings of the battery
  Ports,      \* states of the switches
  Addresses,  \* peripherals
  Lengths,    \* lengths of their responses
  MaxChanges  \* bound: changes of anything outside this file

PERIPH_DETAIL_BUF == 32
ADC_REDRAW_HYST   == 8

SysStates == {"BOOT", "WAITING_FOR_PI", "CONNECTED", "LOCKED", "ACTIVE", "ERROR"}

\* The modes; Waiting and Boot are for screen_task alone.
AutoMode     == 0
Main         == 1
Warning      == 2
Lock         == 3
BatWarning   == 4
Periph       == 5
PeriphDetail == 6
Waiting      == 10
Boot         == 255
None         == 256   \* no notification is pending
NoReading    == 65535 \* s_last_bat_raw before the first picture

ASSUME ScreenAssumption ==
  /\ HostModes \subseteq 0..255 /\ Batteries \subseteq 0..4095
  /\ Addresses \subseteq 1..255 /\ Lengths \subseteq 0..255 /\ MaxChanges \in Nat
  /\ Groups \subseteq SUBSET {"battery", "ports", "state", "host", "detail", "response"}

VARIABLES
  group,      \* what varies in this behaviour
  changes,    \* how often it may still do so
  sysState,   \* g_sys_state
  battery,    \* g_latest_adc
  ports,      \* g_latest_digital
  online,     \* the registry of rs485_task
  notified,   \* the pending notification of screen_task
  mode,       \* s_mode
  lastMode,   \* s_last_mode
  frame,      \* s_wait_frame and s_batwarning_frame, as far as they show
  snap,       \* s_last_bat_raw, s_last_porta, s_last_portb, s_last_sysstate
  cache,      \* s_detail_addr, s_detail_len, s_detail_buf
  dirty,      \* s_detail_dirty
  drawing,    \* what screen_task draws next, "rest" while it sleeps
  shown,      \* the picture
  setter,     \* the call of screen_periph_set_detail_addr in progress
  updater,    \* the call of screen_periph_update_data in progress
  asked,      \* history: the mode the last frame asked for
  suspect     \* history: the main picture was not drawn from what snap holds

detailVars == <<cache, dirty, setter, updater>>
taskVars   == <<mode, lastMode, frame, snap, drawing, shown, suspect>>
worldVars  == <<group, sysState, battery, ports, online>>
vars == <<changes, notified, asked, detailVars, taskVars, worldVars>>

\* Data of a response and whose they are; the empty buffer is nobody's.
Responses == [from: Addresses, len: Lengths]
NoCall    == [at |-> "idle", from |-> 0, len |-> 0]

Blank == [screen |-> Boot, bat |-> 0, ports |-> "none", connected |-> FALSE,
          name |-> 0, body |-> "none", from |-> 0, up |-> FALSE, list |-> {}]

TypeOK ==
  /\ group \in Groups /\ changes \in 0..MaxChanges
  /\ sysState \in SysStates /\ battery \in Batteries /\ ports \in Ports
  /\ online \subseteq Addresses
  /\ notified \in HostModes \cup {None, PeriphDetail}
  /\ mode \in HostModes \cup {AutoMode, PeriphDetail} /\ lastMode \in 0..255
  /\ frame \in 0..4
  /\ snap \in [bat: Batteries \cup {NoReading}, ports: Ports \cup {"none"},
               sys: SysStates \cup {"none"}]
  /\ cache \in [addr: Addresses \cup {1}, len: 0..PERIPH_DETAIL_BUF, from: Addresses \cup {0}]
  /\ dirty \in BOOLEAN /\ suspect \in BOOLEAN
  /\ drawing \in {"splash", "rest", "adc", "ports", "pi", "name", "body", "foot"}
  /\ shown \in [screen: 0..255, bat: Batteries \cup {0}, ports: Ports \cup {"none"},
                connected: BOOLEAN, name: Addresses \cup {0, 1},
                body: {"none", "No data yet", "data", "blank"}, from: Addresses \cup {0},
                up: BOOLEAN, list: SUBSET Addresses]
  /\ setter \in [at: {"idle", "len", "dirty", "notify"}, from: {0}, len: {0}]
  /\ updater \in [at: {"idle", "copy", "len", "dirty"}, from: Addresses \cup {0},
                  len: Lengths \cup {0}]
  /\ asked \in HostModes \cup {AutoMode, PeriphDetail}

-----------------------------------------------------------------------------
\* The task starts with the splash screen, for five seconds.
Init ==
  /\ group \in Groups /\ changes = MaxChanges
  /\ sysState \in SysStates /\ ("state" \notin group => sysState = "ACTIVE")
  /\ battery \in Batteries
  /\ ("battery" \notin group => battery = CHOOSE b \in Batteries : TRUE)
  /\ ports \in Ports /\ ("ports" \notin group => ports = CHOOSE p \in Ports : TRUE)
  /\ online \in {{}, Addresses}
  /\ notified = None /\ mode = AutoMode /\ lastMode = Boot /\ frame = 0
  /\ snap = [bat |-> NoReading, ports |-> "none", sys |-> "none"]
  /\ cache = [addr |-> 1, len |-> 0, from |-> 0] /\ dirty = FALSE
  /\ drawing = "splash" /\ shown = Blank
  /\ setter = NoCall /\ updater = NoCall /\ asked = AutoMode /\ suspect = FALSE

\* Operators named ...Fault are faulty variants of the definition that follows
\* them.  Nothing uses them but the mutation runs.

\* What the screen is for, from the host's mode and the system state.
Effective ==
  IF mode' # AutoMode THEN mode'
  ELSE CASE sysState = "BOOT"           -> Boot
         [] sysState = "WAITING_FOR_PI" -> Waiting
         [] sysState = "LOCKED"         -> Lock
         [] sysState = "ERROR"          -> Warning
         [] sysState \in {"CONNECTED", "ACTIVE"} -> Main

\* main_needs_redraw.
Current == [bat |-> battery, ports |-> ports, sys |-> sysState]
Differs ==
  \/ battery - snap.bat \notin (1 - ADC_REDRAW_HYST)..(ADC_REDRAW_HYST - 1)
  \/ ports # snap.ports \/ sysState # snap.sys

\* A mode that is new: the whole picture, of which the main one and the
\* details take more than one step.  dirty and snap are left alone.
ChangeMode(e) ==
  /\ lastMode' = e /\ UNCHANGED <<snap, dirty>>
  /\ frame' = IF e \in {Waiting, BatWarning} THEN 0 ELSE frame
  /\ drawing' = CASE e \in {Warning, Lock, BatWarning, Periph, Waiting, Boot} -> "rest"
                  [] e = PeriphDetail -> "name"
                  [] OTHER            -> "adc"
  /\ shown' = CASE e = Boot       -> shown
                [] e = BatWarning -> [Blank EXCEPT !.screen = e, !.bat = battery]
                [] e = Periph     -> [Blank EXCEPT !.screen = e, !.list = online]
                [] OTHER          -> [Blank EXCEPT !.screen = e]
  /\ suspect' = (e \notin {Warning, Lock, BatWarning, Periph, PeriphDetail, Waiting, Boot}
                 /\ Current # snap)

RefreshFault(e) ==
  /\ UNCHANGED lastMode
  /\ drawing' = CASE e = Main /\ Differs       -> "adc"
                  [] e = PeriphDetail /\ dirty -> "name"
                  [] OTHER                     -> "rest"
  /\ dirty' = (dirty /\ e # PeriphDetail)
  /\ snap' = IF e = Main THEN Current ELSE snap
  /\ suspect' = (suspect /\ ~(e = Main /\ Differs))
  /\ frame' = CASE e = Waiting    -> (frame + 1) % 5
                [] e = BatWarning -> (frame + 1) % 2
                [] OTHER          -> frame
  /\ shown' = IF e = PeriphDetail /\ dirty THEN [Blank EXCEPT !.screen = e] ELSE shown

\* The mode of the last time: main is drawn again when it needs to, the dots
\* and the battery move, details are drawn again when they are dirty.  The
\* overview is not drawn again, and neither is a mode without a picture.
Refresh(e) ==
  /\ UNCHANGED lastMode
  /\ drawing' = CASE e = Main /\ Differs       -> "adc"
                  [] e = PeriphDetail /\ dirty -> "name"
                  [] OTHER                     -> "rest"
  /\ dirty' = (dirty /\ e # PeriphDetail)
  /\ snap' = IF e = Main /\ Differs THEN Current ELSE snap
  /\ suspect' = (suspect /\ ~(e = Main /\ Differs))
  /\ frame' = CASE e = Waiting    -> (frame + 1) % 5
                [] e = BatWarning -> (frame + 1) % 2
                [] OTHER          -> frame
  /\ shown' = IF e = PeriphDetail /\ dirty THEN [Blank EXCEPT !.screen = e] ELSE shown

\* The splash has been up for five seconds.
SplashEnds == /\ drawing = "splash" /\ drawing' = "rest"
              /\ UNCHANGED <<changes, notified, asked, detailVars, worldVars>>
              /\ UNCHANGED <<mode, lastMode, frame, snap, shown, suspect>>

\* screen_task wakes, takes the notification and decides.
Tick ==
  /\ drawing = "rest"
  /\ mode' = IF notified = None THEN mode ELSE notified
  /\ notified' = None
  /\ IF Effective # lastMode THEN ChangeMode(Effective) ELSE Refresh(Effective)
  /\ UNCHANGED <<changes, asked, worldVars, cache, setter, updater>>

\* A part of the picture is drawn from what its variables hold by then.
Draw(part, next, picture, odd) ==
  /\ drawing = part /\ drawing' = next
  /\ shown' = picture /\ suspect' = (suspect \/ odd)
  /\ UNCHANGED <<changes, notified, asked, detailVars, worldVars>>
  /\ UNCHANGED <<mode, lastMode, frame, snap>>

\* render_main.
DrawAdc   == Draw("adc", "ports", [shown EXCEPT !.bat = battery], battery # snap.bat)
DrawPorts == Draw("ports", "pi", [shown EXCEPT !.ports = ports], ports # snap.ports)
DrawPi    == Draw("pi", "rest",
                  [shown EXCEPT !.connected = sysState \in {"CONNECTED", "ACTIVE"}],
                  sysState # snap.sys)

\* What fits a peripheral's layout.
Enough(a, len) == CASE a \in {1, 3} -> len >= 3 [] a = 2 -> len >= 4 [] OTHER -> len > 0

\* render_periph_detail.
DrawName == Draw("name", "body", [shown EXCEPT !.name = cache.addr], FALSE)
DrawBody ==
  Draw("body", "foot",
       [shown EXCEPT !.body = IF cache.len = 0 THEN "No data yet"
                              ELSE IF Enough(cache.addr, cache.len) THEN "data" ELSE "blank",
                     !.from = IF cache.len = 0 THEN 0 ELSE cache.from], FALSE)
DrawFootFault ==
  /\ drawing = "foot" /\ drawing' = "rest" /\ dirty' = FALSE
  /\ shown' = [shown EXCEPT !.up = cache.addr \in online]
  /\ UNCHANGED <<changes, notified, asked, cache, setter, updater, worldVars>>
  /\ UNCHANGED <<mode, lastMode, frame, snap, suspect>>

DrawFoot == Draw("foot", "rest", [shown EXCEPT !.up = cache.addr \in online], FALSE)

-----------------------------------------------------------------------------
\* cdc_task: a SCREEN frame, or a PERIPH_SCREEN frame, which sets the address,
\* empties the cache and then notifies.  A later notification replaces one
\* that was not taken yet.

Spend(g) == g \in group /\ changes > 0 /\ changes' = changes - 1

NotifyFault(m) == notified' = IF notified = None THEN m ELSE notified

Notify(m) == notified' = m

AskMode(m) ==
  /\ Spend("host") /\ setter = NoCall
  /\ Notify(m) /\ asked' = m
  /\ UNCHANGED <<detailVars, taskVars, worldVars>>

AskDetail(a) ==
  /\ Spend("detail") /\ setter = NoCall
  /\ cache' = [cache EXCEPT !.addr = a]
  /\ setter' = [NoCall EXCEPT !.at = "len"]
  /\ UNCHANGED <<notified, asked, dirty, updater, taskVars, worldVars>>

SetDetail ==
  /\ \/ /\ setter.at = "len" /\ setter' = [setter EXCEPT !.at = "dirty"]
        /\ cache' = [cache EXCEPT !.len = 0] /\ UNCHANGED <<dirty, notified, asked>>
     \/ /\ setter.at = "dirty" /\ setter' = [setter EXCEPT !.at = "notify"]
        /\ dirty' = TRUE /\ UNCHANGED <<cache, notified, asked>>
     \/ /\ setter.at = "notify" /\ setter' = NoCall
        /\ Notify(PeriphDetail) /\ asked' = PeriphDetail /\ UNCHANGED <<cache, dirty>>
  /\ UNCHANGED <<changes, updater, taskVars, worldVars>>

-----------------------------------------------------------------------------
\* rs485_task: screen_periph_update_data with a response.

Clamped(len) == IF len > PERIPH_DETAIL_BUF THEN PERIPH_DETAIL_BUF ELSE len

Respond(r) ==
  /\ Spend("response") /\ updater = NoCall
  /\ updater' = IF r.from # cache.addr THEN NoCall
                ELSE [at |-> "copy", from |-> r.from, len |-> r.len]
  /\ UNCHANGED <<notified, asked, cache, dirty, setter, taskVars, worldVars>>

UpdateDataFault ==
  /\ \/ /\ updater.at = "copy" /\ updater' = [updater EXCEPT !.at = "len"]
        /\ cache' = [cache EXCEPT !.from = updater.from] /\ UNCHANGED dirty
     \/ /\ updater.at = "len" /\ updater' = [updater EXCEPT !.at = "dirty"]
        /\ cache' = [cache EXCEPT !.len = updater.len] /\ UNCHANGED dirty
     \/ /\ updater.at = "dirty" /\ updater' = NoCall
        /\ dirty' = TRUE /\ UNCHANGED cache
  /\ UNCHANGED <<changes, notified, asked, setter, taskVars, worldVars>>

UpdateData ==
  /\ \/ /\ updater.at = "copy" /\ updater' = [updater EXCEPT !.at = "len"]
        /\ cache' = [cache EXCEPT !.from = updater.from] /\ UNCHANGED dirty
     \/ /\ updater.at = "len" /\ updater' = [updater EXCEPT !.at = "dirty"]
        /\ cache' = [cache EXCEPT !.len = Clamped(updater.len)] /\ UNCHANGED dirty
     \/ /\ updater.at = "dirty" /\ updater' = NoCall
        /\ dirty' = TRUE /\ UNCHANGED cache
  /\ UNCHANGED <<changes, notified, asked, setter, taskVars, worldVars>>

-----------------------------------------------------------------------------
\* What the other tasks measure and decide.
Change ==
  /\ \/ /\ Spend("battery") /\ \E b \in Batteries : battery' = b
        /\ UNCHANGED <<ports, sysState, online>>
     \/ /\ Spend("ports") /\ \E p \in Ports : ports' = p
        /\ UNCHANGED <<battery, sysState, online>>
     \/ /\ Spend("state") /\ \E s \in SysStates : sysState' = s
        /\ UNCHANGED <<battery, ports, online>>
     \/ /\ Spend("response") /\ \E a \in Addresses : online' = (online \cup {a}) \ (online \cap {a})
        /\ UNCHANGED <<battery, ports, sysState>>
  /\ UNCHANGED <<group, notified, asked, detailVars, taskVars>>

ScreenStep == SplashEnds \/ Tick \/ DrawAdc \/ DrawPorts \/ DrawPi
              \/ DrawName \/ DrawBody \/ DrawFoot
CdcStep    == (\E m \in HostModes : AskMode(m)) \/ (\E a \in Addresses : AskDetail(a)) \/ SetDetail
Rs485Step  == (\E r \in Responses : Respond(r)) \/ UpdateData

Next == ScreenStep \/ CdcStep \/ Rs485Step \/ Change

\* The three tasks run.
Spec == Init /\ [][Next]_vars
        /\ WF_vars(ScreenStep) /\ WF_vars(SetDetail) /\ WF_vars(UpdateData)

-----------------------------------------------------------------------------
\* Between two pictures, with no call in progress and dirty unset, the details
\* on the screen are the ones in the cache: an update that arrives while they
\* are drawn is drawn next time, because dirty is unset before drawing.
DetailUpToDate ==
  /\ drawing = "rest" /\ lastMode = PeriphDetail
  /\ ~dirty /\ setter = NoCall /\ updater = NoCall
  => /\ shown.name = cache.addr
     /\ shown.from = IF cache.len = 0 THEN 0 ELSE cache.from

\* Once nothing changes any more the screen has the mode the last frame asked
\* for, or, with AUTO, the one for the system state.
ModeSettles ==
  <>[](LET m == IF asked # AutoMode THEN asked
                ELSE CASE sysState = "BOOT"           -> Boot
                       [] sysState = "WAITING_FOR_PI" -> Waiting
                       [] sysState = "LOCKED"         -> Lock
                       [] sysState = "ERROR"          -> Warning
                       [] OTHER                       -> Main
       IN  shown.screen = m \/ m = Boot)

\* Once nothing changes any more the main picture shows the switches, the Pi's
\* presence and the battery within the noise, provided it was drawn from what
\* main_needs_redraw saw (snap).  It may not have been: a change of mode draws
\* without looking, and a reading may change in between; if the old value then
\* returns, the picture stays wrong.
MainSettles ==
  <>[](shown.screen = Main /\ lastMode = Main /\ ~suspect =>
         /\ shown.ports = ports /\ shown.connected = (sysState \in {"CONNECTED", "ACTIVE"})
         /\ shown.bat - battery \in (1 - ADC_REDRAW_HYST)..(ADC_REDRAW_HYST - 1))

\* "Safe to call from any task context" (screen_display.h): the data in the
\* cache are those of the peripheral whose name stands above them.
CacheBelongs ==
  setter = NoCall /\ updater = NoCall /\ cache.len > 0 => cache.from = cache.addr

=============================================================================
