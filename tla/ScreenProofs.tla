---------------------------- MODULE ScreenProofs ----------------------------
(***************************************************************************)
(* The details of a peripheral on the TFT are the ones in the cache, which *)
(* two tasks write and a third draws without a lock (Screen), for any      *)
(* modes, peripherals and responses and any number of changes.             *)
(***************************************************************************)
EXTENDS Screen, TLAPS

\* TypeOK by the groups of variables that the actions leave alone.
ShownType == [screen: 0..255, bat: Batteries \cup {0}, ports: Ports \cup {"none"},
              connected: BOOLEAN, name: Addresses \cup {0, 1},
              body: {"none", "No data yet", "data", "blank"}, from: Addresses \cup {0},
              up: BOOLEAN, list: SUBSET Addresses]
SnapType == [bat: Batteries \cup {NoReading}, ports: Ports \cup {"none"}, sys: SysStates \cup {"none"}]
CacheType == [addr: Addresses \cup {1}, len: 0..PERIPH_DETAIL_BUF, from: Addresses \cup {0}]
UpdaterType == [at: {"idle", "copy", "len", "dirty"}, from: Addresses \cup {0},
                len: Lengths \cup {0}]
SetterType == [at: {"idle", "len", "dirty", "notify"}, from: {0}, len: {0}]

WorldOK == /\ group \in Groups /\ sysState \in SysStates /\ battery \in Batteries
           /\ ports \in Ports /\ online \subseteq Addresses
AskedOK == asked \in HostModes \cup {AutoMode, PeriphDetail}
NotifiedOK == notified \in HostModes \cup {None, PeriphDetail}
DetailOK == /\ cache \in CacheType /\ dirty \in BOOLEAN
            /\ setter \in SetterType /\ updater \in UpdaterType
TaskOK == /\ mode \in HostModes \cup {AutoMode, PeriphDetail} /\ lastMode \in 0..255
          /\ frame \in 0..4 /\ snap \in SnapType /\ suspect \in BOOLEAN
          /\ drawing \in {"splash", "rest", "adc", "ports", "pi", "name", "body", "foot"}
          /\ shown \in ShownType
ChangesOK == changes \in 0..MaxChanges

LEMMA TypeGroups ==
  /\ TypeOK <=> WorldOK /\ AskedOK /\ NotifiedOK /\ DetailOK /\ TaskOK /\ ChangesOK
  /\ TypeOK' <=> WorldOK' /\ AskedOK' /\ NotifiedOK' /\ DetailOK' /\ TaskOK' /\ ChangesOK'
BY DEF TypeOK, WorldOK, AskedOK, NotifiedOK, DetailOK, TaskOK, ChangesOK, ShownType, SnapType,
       CacheType, UpdaterType, SetterType

LEMMA Unchanged ==
  ASSUME TypeOK
  PROVE  /\ UNCHANGED worldVars => WorldOK'
         /\ UNCHANGED asked => AskedOK'
         /\ UNCHANGED notified => NotifiedOK'
         /\ UNCHANGED detailVars => DetailOK'
         /\ UNCHANGED taskVars => TaskOK'
         /\ UNCHANGED changes => ChangesOK'
<1> USE TypeGroups
<1>1. UNCHANGED worldVars => WorldOK'
  BY DEF worldVars, WorldOK
<1>2. UNCHANGED asked => AskedOK'
  BY DEF AskedOK
<1>3. UNCHANGED notified => NotifiedOK'
  BY DEF NotifiedOK
<1>4. UNCHANGED detailVars => DetailOK'
  BY DEF detailVars, DetailOK
<1>5. UNCHANGED taskVars => TaskOK'
  BY DEF taskVars, TaskOK
<1>6. UNCHANGED changes => ChangesOK'
  BY DEF ChangesOK
<1> QED
  BY <1>1, <1>2, <1>3, <1>4, <1>5, <1>6

LEMMA InitTypes == Init => TypeOK
<1> SUFFICES ASSUME Init PROVE TypeOK
  OBVIOUS
<1>1. WorldOK
  <2>1. /\ group \in Groups /\ sysState \in SysStates /\ battery \in Batteries
        /\ ports \in Ports /\ online \in {{}, Addresses}
    BY SMT DEF Init
  <2> QED
    BY <2>1 DEF WorldOK
<1>2. AskedOK /\ NotifiedOK
  BY SMT DEF Init, AskedOK, NotifiedOK
<1>3. DetailOK
  <2>1. /\ cache = [addr |-> 1, len |-> 0, from |-> 0] /\ dirty = FALSE
        /\ setter = NoCall /\ updater = NoCall
    BY SMT DEF Init
  <2>2. cache \in CacheType
    BY <2>1 DEF CacheType, PERIPH_DETAIL_BUF
  <2> QED
    BY <2>1, <2>2 DEF DetailOK, SetterType, UpdaterType, NoCall
<1>4. TaskOK
  <2>1. /\ mode = AutoMode /\ lastMode = Boot /\ frame = 0 /\ drawing = "splash"
        /\ snap = [bat |-> NoReading, ports |-> "none", sys |-> "none"]
        /\ shown = Blank /\ suspect = FALSE
    BY SMT DEF Init
  <2>2. shown \in ShownType
    BY <2>1 DEF ShownType, Blank, Boot
  <2>3. snap \in SnapType
    BY <2>1 DEF SnapType
  <2>4. mode \in HostModes \cup {AutoMode, PeriphDetail} /\ lastMode \in 0..255
    BY <2>1 DEF Boot
  <2>5. /\ frame \in 0..4
        /\ drawing \in {"splash", "rest", "adc", "ports", "pi", "name", "body", "foot"}
    BY <2>1
  <2>6. suspect \in BOOLEAN
    BY <2>1, Zenon
  <2> QED
    BY <2>2, <2>3, <2>4, <2>5, <2>6 DEF TaskOK
<1>5. ChangesOK
  <2>1. changes = MaxChanges
    BY SMT DEF Init
  <2> QED
    BY <2>1, ScreenAssumption DEF ChangesOK
<1> QED
  BY <1>1, <1>2, <1>3, <1>4, <1>5, TypeGroups

\* What the mode and the state ask for is a byte.
LEMMA EffectiveType ==
  ASSUME WorldOK, mode' \in HostModes \cup {AutoMode, PeriphDetail}
  PROVE  Effective \in 0..255
<1> USE DEF AutoMode, PeriphDetail, Boot, Waiting, Lock, Warning, Main
<1>1. CASE mode' # AutoMode
  BY <1>1, ScreenAssumption DEF Effective
<1>2. CASE mode' = AutoMode
  <2>1. sysState \in {"BOOT", "WAITING_FOR_PI", "CONNECTED", "LOCKED", "ACTIVE", "ERROR"}
    BY DEF WorldOK, SysStates
  <2> QED
    BY <1>2, <2>1 DEF Effective
<1> QED
  BY <1>1, <1>2

\* A picture with some of its parts drawn.
LEMMA Pictures ==
  ASSUME WorldOK
  PROVE  /\ \A e \in 0..255 :
              /\ [Blank EXCEPT !.screen = e] \in ShownType
              /\ [Blank EXCEPT !.screen = e, !.bat = battery] \in ShownType
              /\ [Blank EXCEPT !.screen = e, !.list = online] \in ShownType
         /\ Current \in SnapType
<1>1. Current \in SnapType
  BY DEF WorldOK, Current, SnapType
<1>2. Blank \in ShownType
  BY DEF Blank, ShownType, Boot
<1>3. ASSUME NEW e \in 0..255
      PROVE  /\ [Blank EXCEPT !.screen = e] \in ShownType
             /\ [Blank EXCEPT !.screen = e, !.bat = battery] \in ShownType
             /\ [Blank EXCEPT !.screen = e, !.list = online] \in ShownType
  <2>1. [Blank EXCEPT !.screen = e] \in ShownType
    BY <1>2 DEF ShownType
  <2>2. [Blank EXCEPT !.screen = e, !.bat = battery] \in ShownType
    BY <1>2 DEF WorldOK, ShownType
  <2>3. [Blank EXCEPT !.screen = e, !.list = online] \in ShownType
    BY <1>2 DEF WorldOK, ShownType
  <2> QED
    BY <2>1, <2>2, <2>3
<1> QED
  BY <1>1, <1>3

LEMMA TickTypes ==
  ASSUME TypeOK, Tick
  PROVE  TypeOK'
<1> USE TypeGroups
<1>1. mode' \in HostModes \cup {AutoMode, PeriphDetail} /\ NotifiedOK'
  BY DEF Tick, NotifiedOK, TaskOK
<1>2. Effective \in 0..255
  BY <1>1, EffectiveType
<1> DEFINE e == Effective
<1>3. /\ UNCHANGED <<changes, asked, worldVars, cache, setter, updater>>
      /\ ChangeMode(e) \/ (Refresh(e) /\ e = lastMode)
  BY DEF Tick
<1> HIDE DEF e
<1>4. e \in 0..255
  BY <1>2 DEF e
<1>5. CASE ChangeMode(e)
  <2>1. DetailOK' /\ lastMode' \in 0..255 /\ frame' \in 0..4 /\ snap' \in SnapType
    BY <1>3, <1>4, <1>5 DEF ChangeMode, DetailOK, TaskOK
  <2>2. drawing' \in {"rest", "name", "adc"} /\ suspect' \in BOOLEAN
    BY <1>5, Zenon DEF ChangeMode
  <2>3. shown' \in ShownType
    BY <1>4, <1>5, Pictures DEF ChangeMode, TaskOK
  <2>4. TaskOK'
    BY <1>1, <2>1, <2>2, <2>3 DEF TaskOK
  <2> QED
    BY <1>1, <1>3, <2>1, <2>4, Unchanged
<1>6. CASE Refresh(e)
  <2>1. DetailOK' /\ lastMode' \in 0..255 /\ frame' \in 0..4 /\ snap' \in SnapType
    <3>1. dirty' \in BOOLEAN /\ lastMode' = lastMode
      BY <1>6, Zenon DEF Refresh
    <3>2. DetailOK'
      BY <1>3, <3>1 DEF DetailOK
    <3>3. snap' \in SnapType
      BY <1>6, Pictures DEF Refresh, TaskOK
    <3>4. frame' = (frame + 1) % 5 \/ frame' = (frame + 1) % 2 \/ frame' = frame
      BY <1>6 DEF Refresh
    <3>5. frame' \in 0..4
      BY <3>4 DEF TaskOK
    <3> QED
      BY <3>1, <3>2, <3>3, <3>5 DEF TaskOK
  <2>2. drawing' \in {"rest", "name", "adc"} /\ suspect' \in BOOLEAN
    BY <1>6, Zenon DEF Refresh
  <2>3. shown' \in ShownType
    BY <1>4, <1>6, Pictures DEF Refresh, TaskOK
  <2>4. TaskOK'
    BY <1>1, <2>1, <2>2, <2>3 DEF TaskOK
  <2> QED
    BY <1>1, <1>3, <2>1, <2>4, Unchanged
<1> QED
  BY <1>3, <1>5, <1>6

\* Drawing a part fills in some fields of the picture.
LEMMA DrawTypes ==
  ASSUME TypeOK, NEW part, NEW next \in {"rest", "ports", "pi", "body", "foot"},
         NEW picture \in ShownType, NEW odd \in BOOLEAN, Draw(part, next, picture, odd)
  PROVE  TypeOK'
<1> USE TypeGroups
<1>1. TaskOK'
  BY DEF Draw, TaskOK
<1> QED
  BY <1>1, Unchanged DEF Draw

LEMMA PartTypes ==
  ASSUME TypeOK, DrawAdc \/ DrawPorts \/ DrawPi \/ DrawName \/ DrawBody \/ DrawFoot
  PROVE  TypeOK'
<1> USE TypeGroups
<1>1. shown \in ShownType /\ battery \in Batteries /\ ports \in Ports /\ cache \in CacheType
  BY DEF TaskOK, WorldOK, DetailOK
<1>2. CASE DrawAdc
  <2>1. [shown EXCEPT !.bat = battery] \in ShownType
    BY <1>1 DEF ShownType
  <2> QED
    BY <1>2, <2>1, DrawTypes, Zenon DEF DrawAdc
<1>3. CASE DrawPorts
  <2>1. [shown EXCEPT !.ports = ports] \in ShownType
    BY <1>1 DEF ShownType
  <2> QED
    BY <1>3, <2>1, DrawTypes, Zenon DEF DrawPorts
<1>4. CASE DrawPi
  <2>1. [shown EXCEPT !.connected = sysState \in {"CONNECTED", "ACTIVE"}] \in ShownType
    <3>1. \A c \in BOOLEAN : [shown EXCEPT !.connected = c] \in ShownType
      BY <1>1 DEF ShownType
    <3>2. (sysState \in {"CONNECTED", "ACTIVE"}) \in BOOLEAN
      OBVIOUS
    <3> QED
      BY <3>1, <3>2, Zenon
  <2> QED
    BY <1>4, <2>1, DrawTypes, Zenon DEF DrawPi
<1>5. CASE DrawName
  <2>1. [shown EXCEPT !.name = cache.addr] \in ShownType
    BY <1>1 DEF ShownType, CacheType
  <2> QED
    BY <1>5, <2>1, DrawTypes, Zenon DEF DrawName
<1>6. CASE DrawBody
  <2> DEFINE body == IF cache.len = 0 THEN "No data yet"
                     ELSE IF Enough(cache.addr, cache.len) THEN "data" ELSE "blank"
             from == IF cache.len = 0 THEN 0 ELSE cache.from
  <2>1. body \in {"none", "No data yet", "data", "blank"}
    OBVIOUS
  <2>2. from \in Addresses \cup {0}
    BY <1>1 DEF CacheType
  <2>3. Draw("body", "foot", [shown EXCEPT !.body = body, !.from = from], FALSE)
    BY <1>6, Zenon DEF DrawBody
  <2> HIDE DEF body, from
  <2>4. [shown EXCEPT !.body = body, !.from = from] \in ShownType
    BY <1>1, <2>1, <2>2 DEF ShownType
  <2> QED
    BY <2>3, <2>4, DrawTypes, Zenon
<1>7. CASE DrawFoot
  <2>1. [shown EXCEPT !.up = cache.addr \in online] \in ShownType
    <3>1. \A c \in BOOLEAN : [shown EXCEPT !.up = c] \in ShownType
      BY <1>1 DEF ShownType
    <3>2. (cache.addr \in online) \in BOOLEAN
      OBVIOUS
    <3> QED
      BY <3>1, <3>2, Zenon
  <2> QED
    BY <1>7, <2>1, DrawTypes, Zenon DEF DrawFoot
<1> QED
  BY <1>2, <1>3, <1>4, <1>5, <1>6, <1>7

LEMMA CallTypes ==
  ASSUME TypeOK, CdcStep \/ Rs485Step
  PROVE  TypeOK'
<1> USE TypeGroups
<1>1. ASSUME NEW g, Spend(g)
      PROVE  ChangesOK'
  BY <1>1, ScreenAssumption DEF Spend, ChangesOK
<1>2. cache \in CacheType /\ setter \in SetterType /\ updater \in UpdaterType /\ dirty \in BOOLEAN
  BY DEF DetailOK
<1>3. ASSUME NEW m \in HostModes, AskMode(m)
      PROVE  TypeOK'
  <2>1. NotifiedOK' /\ AskedOK'
    BY <1>3 DEF AskMode, Notify, NotifiedOK, AskedOK
  <2> QED
    BY <1>1, <1>3, <2>1, Unchanged DEF AskMode
<1>4. ASSUME NEW a \in Addresses, AskDetail(a)
      PROVE  TypeOK'
  <2>1. DetailOK'
    BY <1>2, <1>4 DEF AskDetail, DetailOK, CacheType, SetterType, NoCall
  <2> QED
    BY <1>1, <1>4, <2>1, Unchanged DEF AskDetail
<1>5. CASE SetDetail
  <2>1. DetailOK'
    <3>1. setter' = NoCall \/ setter' = [setter EXCEPT !.at = "dirty"]
          \/ setter' = [setter EXCEPT !.at = "notify"]
      BY <1>5, Zenon DEF SetDetail
    <3>2. setter' \in SetterType
      BY <1>2, <3>1 DEF SetterType, NoCall
    <3>3. cache' \in CacheType
      BY <1>2, <1>5 DEF SetDetail, CacheType, PERIPH_DETAIL_BUF
    <3>4. dirty' \in BOOLEAN /\ updater' = updater
      BY <1>2, <1>5 DEF SetDetail
    <3> QED
      BY <1>2, <3>2, <3>3, <3>4 DEF DetailOK
  <2>2. NotifiedOK' /\ AskedOK'
    BY <1>5 DEF SetDetail, Notify, NotifiedOK, AskedOK
  <2> QED
    BY <1>5, <2>1, <2>2, Unchanged DEF SetDetail
<1>6. ASSUME NEW r \in Responses, Respond(r)
      PROVE  TypeOK'
  <2>1. DetailOK'
    BY <1>2, <1>6 DEF Respond, DetailOK, UpdaterType, NoCall, Responses
  <2> QED
    BY <1>1, <1>6, <2>1, Unchanged DEF Respond
<1>7. CASE UpdateData
  <2>1. Clamped(updater.len) \in 0..PERIPH_DETAIL_BUF
    <3>1. updater.len \in 0..255
      <4>1. updater.len \in Lengths \cup {0}
        BY <1>2 DEF UpdaterType
      <4>2. \A n \in Lengths \cup {0} : n \in 0..255
        BY ScreenAssumption
      <4> QED
        BY <4>1, <4>2, Zenon
    <3> QED
      BY <3>1 DEF Clamped, PERIPH_DETAIL_BUF
  <2>2. DetailOK'
    <3>1. updater' = NoCall \/ updater' = [updater EXCEPT !.at = "len"]
          \/ updater' = [updater EXCEPT !.at = "dirty"]
      BY <1>7, Zenon DEF UpdateData
    <3>2. updater' \in UpdaterType
      BY <1>2, <3>1 DEF UpdaterType, NoCall
    <3>3. \/ cache' = cache
          \/ cache' = [cache EXCEPT !.from = updater.from]
          \/ cache' = [cache EXCEPT !.len = Clamped(updater.len)]
      BY <1>7, Zenon DEF UpdateData
    <3>4. cache' \in CacheType
      BY <1>2, <2>1, <3>3 DEF CacheType, UpdaterType
    <3>5. dirty' \in BOOLEAN /\ setter' = setter
      BY <1>2, <1>7 DEF UpdateData
    <3> QED
      BY <1>2, <3>2, <3>4, <3>5 DEF DetailOK
  <2> QED
    BY <1>7, <2>2, Unchanged DEF UpdateData
<1> QED
  BY <1>3, <1>4, <1>5, <1>6, <1>7 DEF CdcStep, Rs485Step

LEMMA NextTypes == TypeOK /\ [Next]_vars => TypeOK'
<1> SUFFICES ASSUME TypeOK, [Next]_vars PROVE TypeOK'
  OBVIOUS
<1> USE TypeGroups
<1>1. CASE SplashEnds
  <2>1. TaskOK'
    BY <1>1 DEF SplashEnds, TaskOK
  <2> QED
    BY <1>1, <2>1, Unchanged DEF SplashEnds
<1>2. CASE Change
  <2>1. WorldOK' /\ ChangesOK'
    BY <1>2, ScreenAssumption DEF Change, Spend, WorldOK, ChangesOK
  <2> QED
    BY <1>2, <2>1, Unchanged DEF Change
<1>3. CASE UNCHANGED vars
  BY <1>3, Unchanged DEF vars
<1> QED
  BY <1>1, <1>2, <1>3, TickTypes, PartTypes, CallTypes DEF Next, ScreenStep

\* Every variable of the screen keeps its type (TypeOK): the length in the cache
\* stays within the buffer, and the mode within a byte.
THEOREM TypeCorrect == Spec => []TypeOK
BY InitTypes, NextTypes, PTL DEF Spec

-----------------------------------------------------------------------------
\* While a call is in progress that has yet to set dirty, the picture may differ
\* from the cache.
Calm == setter.at \in {"idle", "notify"} /\ updater.at = "idle" /\ ~dirty

\* DetailUpToDate speaks of the time between two pictures.  While the details
\* are drawn, the parts that are there are already those of the cache, unless
\* dirty is set or will be; what is drawn is of the mode in force.
DetailInv ==
  /\ drawing = "splash" => lastMode = Boot
  /\ drawing \in {"adc", "ports", "pi"} => lastMode # PeriphDetail
  /\ Calm /\ lastMode = PeriphDetail /\ drawing \in {"body", "foot", "rest"} =>
       shown.name = cache.addr
  /\ Calm /\ lastMode = PeriphDetail /\ drawing \in {"foot", "rest"} =>
       shown.from = IF cache.len = 0 THEN 0 ELSE cache.from

LEMMA DrawingKeeps ==
  ASSUME TypeOK, DetailInv, ScreenStep
  PROVE  DetailInv'
<1> USE DEF PeriphDetail, Boot
<1>1. CASE SplashEnds
  BY <1>1 DEF SplashEnds, DetailInv, detailVars, Calm
<1>2. CASE Tick
  <2> DEFINE e == Effective
  <2>1. /\ drawing = "rest" /\ UNCHANGED <<cache, setter, updater>>
        /\ ChangeMode(e) \/ (Refresh(e) /\ e = lastMode)
    BY <1>2 DEF Tick
  <2> HIDE DEF e
  <2>2. CASE ChangeMode(e)
    BY <2>1, <2>2 DEF ChangeMode, DetailInv, Periph, Warning, Lock, BatWarning, Waiting
  <2>3. CASE Refresh(e) /\ e = lastMode
    <3>1. lastMode' = lastMode /\ lastMode = e
      BY <2>3 DEF Refresh
    <3>2. CASE e # PeriphDetail
      BY <2>1, <2>3, <3>1, <3>2 DEF Refresh, DetailInv
    <3>3. CASE e = PeriphDetail /\ dirty
      BY <2>1, <2>3, <3>1, <3>3 DEF Refresh, DetailInv, Main
    <3>4. CASE e = PeriphDetail /\ ~dirty
      <4>1. drawing' = "rest" /\ shown' = shown /\ ~dirty'
        <5>1. /\ drawing' = CASE e = Main /\ Differs       -> "adc"
                              [] e = PeriphDetail /\ dirty -> "name"
                              [] OTHER                     -> "rest"
              /\ shown' = IF e = PeriphDetail /\ dirty THEN [Blank EXCEPT !.screen = e] ELSE shown
              /\ dirty' = (dirty /\ e # PeriphDetail)
          BY <2>3, Zenon DEF Refresh
        <5>2. e = PeriphDetail /\ e # Main /\ ~dirty
          BY <3>4 DEF Main
        <5>3. ~dirty'
          BY <5>1, <5>2, Zenon
        <5> QED
          BY <5>1, <5>2, <5>3
      <4> QED
        BY <2>1, <3>1, <3>4, <4>1 DEF DetailInv, Calm
    <3> QED
      BY <3>2, <3>3, <3>4
  <2> QED
    BY <2>1, <2>2, <2>3
<1>3. shown \in ShownType /\ cache \in CacheType
  BY TypeGroups DEF TaskOK, DetailOK
<1>4. CASE DrawAdc \/ DrawPorts \/ DrawPi
  <2>1. drawing \in {"adc", "ports", "pi"} /\ lastMode' = lastMode /\ drawing' \in {"ports", "pi", "rest"}
    BY <1>4 DEF DrawAdc, DrawPorts, DrawPi, Draw
  <2> QED
    BY <2>1 DEF DetailInv
<1>5. CASE DrawName
  BY <1>3, <1>5 DEF DrawName, Draw, DetailInv, Calm, detailVars, ShownType
<1>6. CASE DrawBody
  BY <1>3, <1>6 DEF DrawBody, Draw, DetailInv, Calm, detailVars, ShownType
<1>7. CASE DrawFoot
  BY <1>3, <1>7 DEF DrawFoot, Draw, DetailInv, Calm, detailVars, ShownType
<1> QED
  BY <1>1, <1>2, <1>4, <1>5, <1>6, <1>7 DEF ScreenStep

\* A call in progress ends with dirty set.
LEMMA CallsKeep ==
  ASSUME TypeOK, DetailInv, CdcStep \/ Rs485Step
  PROVE  DetailInv'
<1>1. setter \in SetterType /\ updater \in UpdaterType /\ dirty \in BOOLEAN
  BY TypeGroups DEF DetailOK
<1>2. UNCHANGED <<lastMode, drawing, shown>>
  BY DEF CdcStep, Rs485Step, AskMode, AskDetail, SetDetail, Respond, UpdateData, taskVars
<1>3. ASSUME Calm' => Calm /\ UNCHANGED cache
      PROVE  DetailInv'
  BY <1>2, <1>3 DEF DetailInv
<1>4. ASSUME NEW m \in HostModes, AskMode(m)
      PROVE  DetailInv'
  BY <1>3, <1>4 DEF AskMode, detailVars, Calm
<1>5. ASSUME NEW a \in Addresses, AskDetail(a)
      PROVE  DetailInv'
  BY <1>3, <1>5 DEF AskDetail, Calm, NoCall
<1>6. CASE SetDetail
  BY <1>1, <1>3, <1>6 DEF SetDetail, Calm, NoCall, SetterType
<1>7. ASSUME NEW r \in Responses, Respond(r)
      PROVE  DetailInv'
  BY <1>3, <1>7 DEF Respond, Calm, NoCall
<1>8. CASE UpdateData
  BY <1>1, <1>3, <1>8 DEF UpdateData, Calm, NoCall, UpdaterType
<1> QED
  BY <1>4, <1>5, <1>6, <1>7, <1>8 DEF CdcStep, Rs485Step

LEMMA DetailKept == TypeOK /\ DetailInv /\ [Next]_vars => DetailInv'
<1> SUFFICES ASSUME TypeOK, DetailInv, [Next]_vars PROVE DetailInv'
  OBVIOUS
<1>1. CASE Change \/ UNCHANGED vars
  BY <1>1 DEF Change, vars, detailVars, taskVars, DetailInv, Calm
<1> QED
  BY <1>1, DrawingKeeps, CallsKeep DEF Next

\* Whatever the interleaving of screen_task, cdc_task and rs485_task, once the
\* calls are over and dirty is unset, name and data on the screen are those in
\* the cache (DetailUpToDate).
THEOREM DetailsUpToDate == Spec => []DetailUpToDate
<1>1. Init => DetailInv
  BY DEF Init, DetailInv, Boot, PeriphDetail
<1>2. DetailInv => DetailUpToDate
  BY DEF DetailInv, DetailUpToDate, Calm, NoCall
<1> QED
  BY <1>1, <1>2, DetailKept, TypeCorrect, PTL DEF Spec

=============================================================================
