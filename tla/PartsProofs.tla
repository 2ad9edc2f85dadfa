----------------------------- MODULE PartsProofs -----------------------------
(***************************************************************************)
(* The smaller parts.  The ports that digital_io_task takes over are real  *)
(* ones although veml7700_task shares the bus without a lock (I2cBus), for *)
(* any inputs, LEDs, frames and queue depth, and any number of events.     *)
(* What loads of a saved layout is what was saved (CaseTwin), for any set  *)
(* of hotspots and thresholds and any number of edits, power failures and  *)
(* writes that fail or have not reached the disk.  No half of a            *)
(* blink lasts too long (ButtonLeds), for any number of buttons and any    *)
(* commands: of the pictures made for a button at most two have not been   *)
(* sent, and the phase says how long the half has lasted.  A drawing call  *)
(* paints its figure (Tft), on panels of any size the driver can address.  *)
(***************************************************************************)
EXTENDS Parts, SequenceTheorems, WellFoundedInduction, NaturalsInduction, TLAPS

BtnSpec  == BtnInit /\ [][BtnNext]_btnVars
I2cSpec  == I2cInit /\ [][I2cNext]_i2cVars
TftSpec  == TftInit /\ [][TftNext]_tftVars
MavSpec  == MavInit /\ [][MavNext]_mavVars
TwinSpec == TwinInit /\ [][TwinNext]_twinVars

-----------------------------------------------------------------------------
\* What is assumed of the constants, one fact at a time.
LEMMA BusConstants ==
  /\ QueueDepth \in Nat /\ QueueDepth > 0 /\ Pause \in Nat /\ Pause >= 2 /\ MaxEvents \in Nat
  /\ \A count \in Lights : count \in Nat
  /\ \A r \in Requests : r.mask \subseteq Leds /\ r.state \subseteq Leds
<1>1. /\ QueueDepth \in Nat \ {0} /\ Pause \in Nat /\ Pause >= 2 /\ MaxEvents \in Nat
      /\ Lights \subseteq Nat
  BY I2cBusAssumption
<1>2. Requests \subseteq [mask: SUBSET Leds, state: SUBSET Leds]
  BY RequestsAssumption
<1>3. \A count \in Lights : count \in Nat
  BY <1>1
<1>4. \A r \in Requests : r.mask \subseteq Leds /\ r.state \subseteq Leds
  BY <1>2
<1> QED
  BY <1>1, <1>3, <1>4

LEMMA LuxType == \A count \in Lights \cup {0} : LuxMilli(count) \in 0..(2^24 - 1)
<1>1. 2^24 \in Nat /\ 2^24 > 0
  OBVIOUS
<1>2. ASSUME NEW n \in Nat, NEW m \in Nat, m > 0 PROVE n % m \in 0..(m - 1)
  BY <1>2
<1>3. ASSUME NEW count \in Lights \cup {0} PROVE count * 225 \in Nat
  BY BusConstants
<1> QED
  BY <1>1, <1>2, <1>3 DEF LuxMilli

\* I2cTypeOK by the groups of variables that the actions leave alone.
PortsOK  == /\ inputs \subseteq Inputs /\ latch \subseteq Leds
            /\ prev \subseteq Bits /\ stable \subseteq Bits
            /\ real.before \subseteq Bits /\ real.last \subseteq Bits
LedsOK   == /\ shadow \subseteq Leds
            /\ requests \in Seq(Requests) /\ Len(requests) <= QueueDepth
TasksOK  == /\ dio \in {"drain", "write", "writing", "read", "reading", "sleep"}
            /\ als \in {"sleep", "als", "between", "white"}
            /\ spoiled \subseteq {"dio", "als"}
PauseOK  == pause \in 0..Pause
BudgetOK == budget \in 0..MaxEvents
LightOK  == light \in Lights /\ als_raw \in Lights \cup {0} /\ lux \in 0..(2^24 - 1)

LEMMA BusTypeGroups ==
  /\ I2cTypeOK <=> PortsOK /\ LedsOK /\ TasksOK /\ PauseOK /\ BudgetOK /\ LightOK
  /\ I2cTypeOK' <=> PortsOK' /\ LedsOK' /\ TasksOK' /\ PauseOK' /\ BudgetOK' /\ LightOK'
BY Zenon DEF I2cTypeOK, PortsOK, LedsOK, TasksOK, PauseOK, BudgetOK, LightOK

LEMMA BusTypeInit == I2cInit => I2cTypeOK
<1> SUFFICES ASSUME I2cInit PROVE I2cTypeOK
  OBVIOUS
<1>1. PortsOK
  BY SMT DEF I2cInit, PortsOK
<1>2. LedsOK
  <2>1. requests = <<>> /\ shadow = {}
    BY SMT DEF I2cInit
  <2> QED
    BY <2>1, BusConstants DEF LedsOK
<1>3. TasksOK
  BY SMT DEF I2cInit, TasksOK
<1>4. PauseOK /\ BudgetOK
  <2>1. pause = 0 /\ budget = MaxEvents
    BY SMT DEF I2cInit
  <2> QED
    BY <2>1, BusConstants DEF PauseOK, BudgetOK
<1>5. LightOK
  BY SMT DEF I2cInit, LightOK
<1> QED
  BY <1>1, <1>2, <1>3, <1>4, <1>5, BusTypeGroups

LEMMA BusTypeNext ==
  ASSUME I2cTypeOK, [I2cNext]_i2cVars
  PROVE  I2cTypeOK'
<1>0. PortsOK /\ LedsOK /\ TasksOK /\ PauseOK /\ BudgetOK /\ LightOK
  BY BusTypeGroups
<1>u. /\ UNCHANGED <<inputs, latch, prev, stable, real>> => PortsOK'
      /\ UNCHANGED <<shadow, requests>> => LedsOK'
      /\ UNCHANGED <<dio, als, spoiled>> => TasksOK'
      /\ UNCHANGED pause => PauseOK'
      /\ UNCHANGED budget => BudgetOK'
      /\ UNCHANGED lightVars => LightOK'
  BY <1>0, Zenon DEF PortsOK, LedsOK, TasksOK, PauseOK, BudgetOK, LightOK, lightVars
<1>b. budget > 0 /\ budget' = budget - 1 => BudgetOK'
  BY <1>0, BusConstants DEF BudgetOK
<1>1. ASSUME NEW now \in SUBSET Inputs, TurnInput(now) PROVE I2cTypeOK'
  <2>1. PortsOK'
    BY <1>0, <1>1 DEF TurnInput, PortsOK
  <2> QED
    BY <1>1, <1>u, <1>b, <2>1, BusTypeGroups DEF TurnInput
<1>2. ASSUME NEW r \in Requests, SetLedsAsync(r) PROVE I2cTypeOK'
  <2>1. LedsOK'
    BY <1>0, <1>2, BusConstants DEF SetLedsAsync, LedsOK
  <2> QED
    BY <1>2, <1>u, <1>b, <2>1, BusTypeGroups DEF SetLedsAsync
<1>3. CASE DioDrain
  <2>1. CASE requests # <<>>
    <3>1. Head(requests) \in Requests /\ Tail(requests) \in Seq(Requests)
          /\ Len(Tail(requests)) <= QueueDepth
      BY <1>0, <2>1, BusConstants DEF LedsOK
    <3>2. Applied(shadow, Head(requests)) \subseteq Leds
      BY <1>0, <3>1, BusConstants DEF LedsOK, Applied
    <3>3. LedsOK'
      BY <1>3, <2>1, <3>1, <3>2 DEF DioDrain, LedsOK
    <3>4. TasksOK'
      BY <1>0, <1>3, <2>1 DEF DioDrain, TasksOK
    <3> QED
      BY <1>3, <1>u, <3>3, <3>4, BusTypeGroups DEF DioDrain
  <2>2. CASE requests = <<>>
    <3>1. TasksOK'
      BY <1>0, <1>3, <2>2 DEF DioDrain, TasksOK
    <3> QED
      BY <1>3, <2>2, <1>u, <3>1, BusTypeGroups DEF DioDrain
  <2> QED
    BY <2>1, <2>2
<1>4. CASE DioBegin
  <2>1. TasksOK'
    BY <1>0, <1>4 DEF DioBegin, Begins, TasksOK
  <2> QED
    BY <1>4, <1>u, <2>1, BusTypeGroups DEF DioBegin
<1>5. CASE DioWritten
  <2>1. TasksOK'
    BY <1>0, <1>5 DEF DioWritten, TasksOK
  <2>2. PortsOK'
    BY <1>0, <1>5 DEF DioWritten, PortsOK, LedsOK
  <2> QED
    BY <1>5, <1>u, <2>1, <2>2, BusTypeGroups DEF DioWritten
<1>6. CASE DioRead
  <2>1. TasksOK'
    BY <1>0, <1>6 DEF DioRead, TasksOK
  <2>2. PauseOK'
    BY <1>0, <1>6, BusConstants DEF DioRead, PauseOK
  <2>3. inputs \cup latch \in SUBSET Bits
    BY <1>0 DEF PortsOK, Bits
  <2>4. PICK raw \in SUBSET Bits : stable' = Debounced(raw) /\ prev' = raw
    BY <1>6, <2>3, Zenon DEF DioRead
  <2>5. stable' \subseteq Bits /\ prev' \subseteq Bits
    BY <1>0, <2>4 DEF PortsOK, Debounced
  <2>6. PortsOK'
    BY <1>0, <1>6, <2>3, <2>5 DEF DioRead, PortsOK
  <2> QED
    BY <1>6, <1>u, <2>1, <2>2, <2>6, BusTypeGroups DEF DioRead
<1>7. CASE DioWake
  <2>1. TasksOK'
    BY <1>0, <1>7 DEF DioWake, TasksOK
  <2> QED
    BY <1>7, <1>u, <2>1, BusTypeGroups DEF DioWake
<1>8. CASE AlsBegin
  <2>1. TasksOK'
    BY <1>0, <1>8 DEF AlsBegin, Begins, TasksOK
  <2> QED
    BY <1>8, <1>u, <2>1, BusTypeGroups DEF AlsBegin
<1>9. CASE AlsEnd
  <2>1. TasksOK'
    BY <1>0, <1>9 DEF AlsEnd, TasksOK
  <2>2. PauseOK'
    BY <1>0, <1>9, BusConstants DEF AlsEnd, PauseOK
  <2>3. LightOK'
    <3>1. light' = light /\ (lux' = lux \/ lux' = LuxMilli(als_raw))
      BY <1>9 DEF AlsEnd
    <3>2. als_raw' = als_raw \/ als_raw' \in Lights
      BY <1>0, <1>9 DEF AlsEnd, LightOK
    <3> QED
      BY <1>0, <3>1, <3>2, LuxType, Zenon DEF LightOK
  <2> QED
    BY <1>9, <1>u, <2>1, <2>2, <2>3, BusTypeGroups DEF AlsEnd
<1>10. CASE UNCHANGED i2cVars
  BY <1>10, <1>u, BusTypeGroups DEF i2cVars, lightVars
<1> QED
  BY <1>1, <1>2, <1>3, <1>4, <1>5, <1>6, <1>7, <1>8, <1>9, <1>10 DEF I2cNext

\* Every variable of the two tasks and of the bus keeps its type; the LED queue
\* never outgrows its depth.
THEOREM BusTypeCorrect == I2cSpec => []I2cTypeOK
<1> QED
  BY BusTypeInit, BusTypeNext, PTL DEF I2cSpec

-----------------------------------------------------------------------------
\* Only a transaction under way is disturbed.
SpoiltIsBusy == "dio" \in spoiled => dio \in {"writing", "reading"}

\* A transaction of digital_io_task that a finished read of the light sensor
\* disturbed is the first since then: no samples have been counted yet.
SpoiltOnce == "dio" \in spoiled /\ als = "sleep" => pause = Pause

\* After a sample that was not what the ports were, the light sensor is being
\* read still, while digital_io_task sleeps, or pauses for another sample.
NextIsSound ==
  prev # real.last =>
    IF dio = "sleep" THEN als # "sleep" \/ pause >= 1
                     ELSE als = "sleep" /\ pause >= 1 /\ "dio" \notin spoiled

BusInv == /\ pause \in 0..Pause /\ als \in {"sleep", "als", "between", "white"}
          /\ dio \in {"drain", "write", "writing", "read", "reading", "sleep"}
          /\ SpoiltIsBusy /\ SpoiltOnce /\ NextIsSound

LEMMA BusInit == I2cInit => BusInv
<1> SUFFICES ASSUME I2cInit PROVE BusInv
  OBVIOUS
<1>1. pause = 0 /\ als = "sleep" /\ spoiled = {} /\ dio = "drain"
  BY SMT DEF I2cInit
<1>2. prev = real.last
  BY SMT DEF I2cInit
<1> QED
  BY <1>1, <1>2, I2cBusAssumption DEF BusInv, SpoiltIsBusy, SpoiltOnce, NextIsSound

\* The steps in which neither task begins or ends anything on the bus.
LEMMA BusUndisturbed ==
  ASSUME BusInv, UNCHANGED <<als, pause, spoiled, prev, real>>,
         dio' = "sleep" <=> dio = "sleep", dio' = dio \/ (dio = "drain" /\ dio' \in {"write", "read"})
  PROVE  BusInv'
BY DEF BusInv, SpoiltIsBusy, SpoiltOnce, NextIsSound

LEMMA BusNext ==
  ASSUME BusInv, [I2cNext]_i2cVars
  PROVE  BusInv'
<1>0. Pause \in Nat /\ Pause >= 2 /\ pause \in 0..Pause
  BY I2cBusAssumption DEF BusInv
<1>1. ASSUME NEW now \in SUBSET Inputs, TurnInput(now) PROVE BusInv'
  BY <1>1, BusUndisturbed DEF TurnInput
<1>2. ASSUME NEW r \in Requests, SetLedsAsync(r) PROVE BusInv'
  BY <1>2, BusUndisturbed DEF SetLedsAsync
<1>3. CASE DioDrain
  BY <1>3, BusUndisturbed DEF DioDrain
<1>4. CASE DioBegin
  BY <1>4, <1>0 DEF DioBegin, Begins, Busy, BusInv, SpoiltIsBusy, SpoiltOnce, NextIsSound
<1>5. CASE DioWritten
  BY <1>5, <1>0 DEF DioWritten, BusInv, SpoiltIsBusy, SpoiltOnce, NextIsSound
<1>6. CASE DioRead
  <2>1. /\ dio = "reading" /\ dio' = "sleep" /\ als' = als
        /\ "dio" \notin spoiled' /\ real'.last = inputs \cup latch
        /\ pause' = IF pause > 0 THEN pause - 1 ELSE 0
    BY <1>6 DEF DioRead
  <2>2. "dio" \notin spoiled => prev' = real'.last
    BY <1>6 DEF DioRead
  <2>3. NextIsSound'
    BY <2>1, <2>2, <1>0 DEF BusInv, SpoiltOnce, NextIsSound
  <2> QED
    BY <2>1, <2>3, <1>0 DEF BusInv, SpoiltIsBusy, SpoiltOnce
<1>7. CASE DioWake
  BY <1>7, <1>0 DEF DioWake, BusInv, SpoiltIsBusy, SpoiltOnce, NextIsSound
<1>8. CASE AlsBegin
  <2>1. /\ als = "between" \/ (als = "sleep" /\ pause = 0)
        /\ als' \in {"als", "white"} /\ UNCHANGED <<dio, pause, prev, real>>
    BY <1>8 DEF AlsBegin
  <2>2. "dio" \in spoiled' => "dio" \in spoiled \/ dio \in {"writing", "reading"}
    BY <1>8 DEF BusInv, AlsBegin, Begins, Busy
  <2> QED
    BY <2>1, <2>2, <1>0 DEF BusInv, SpoiltIsBusy, SpoiltOnce, NextIsSound
<1>9. CASE AlsEnd
  BY <1>9, <1>0 DEF AlsEnd, BusInv, SpoiltIsBusy, SpoiltOnce, NextIsSound
<1>10. CASE UNCHANGED i2cVars
  BY <1>10, BusUndisturbed DEF i2cVars
<1> QED
  BY <1>1, <1>2, <1>3, <1>4, <1>5, <1>6, <1>7, <1>8, <1>9, <1>10 DEF I2cNext

\* Of two samples in a row at most one was disturbed, so that a reading both
\* agree on is what the ports were at one of them: digital_io.c debounces away
\* what the missing lock around the bus lets through.
THEOREM StableIsReal == I2cSpec => StableWasReal
<1>1. ASSUME BusInv, [I2cNext]_i2cVars
      PROVE  [stable' # stable => stable' \in {real'.before, real'.last}]_i2cVars
  <2> SUFFICES ASSUME I2cNext, stable' # stable
               PROVE  stable' \in {real'.before, real'.last}
    BY <1>1
  <2>1. DioRead
    BY DEF I2cNext, TurnInput, SetLedsAsync, DioDrain, DioBegin, DioWritten, DioWake, AlsBegin,
           AlsEnd
  <2>2. /\ dio = "reading" /\ real'.before = real.last /\ real'.last = inputs \cup latch
        /\ stable' = prev' /\ prev' = prev
    BY <2>1 DEF DioRead, Debounced
  <2>3. CASE "dio" \in spoiled
    BY <2>2, <2>3, <1>1 DEF BusInv, NextIsSound
  <2>4. CASE "dio" \notin spoiled
    BY <2>1, <2>2, <2>4 DEF DioRead
  <2> QED
    BY <2>3, <2>4
<1> QED
  BY <1>1, BusInit, BusNext, PTL DEF I2cSpec, StableWasReal

-----------------------------------------------------------------------------
(* The layout of the case page. *)

\* What a file may hold of an entry: NaN is never written.
Stored == [id: Hotspots \cup {BadHotspot}, warnMin: {Absent} \cup {Number(n) : n \in Thresholds}]

\* A file that a power failure may leave: when it loads, it gives one of g.
FileOK(f, g) ==
  /\ f.kind \in {"missing", "garbage", "json"} /\ f.list \in Seq(Stored)
  /\ Loads(f) => FromFile(f.list) \in g

\* SavedListComesBack alone does not say that what the next save writes is a
\* layout, nor that what was written is the list that was saved.
TwinInv ==
  /\ hotspots \in Seq(Entry) /\ hotspots # <<>> /\ hotspots \in {Defaults} \cup given
  /\ \A l \in given : l \in Seq(Entry) /\ l # <<>>
  /\ file \in disk /\ \A f \in disk : FileOK(f, given)
  /\ saved # <<>> => saved \in Seq(Entry) /\ file = ToFile(saved)

-----------------------------------------------------------------------------
LEMMA StoredThresholds ==
  ASSUME NEW t \in {NaN, Absent} \cup {Number(n) : n \in Thresholds}
  PROVE  Written(t) \in {Absent} \cup {Number(n) : n \in Thresholds}
BY TwinAssumption DEF Written, NaN, Absent, Number

LEMMA LoadedThresholds ==
  ASSUME NEW t \in {Absent} \cup {Number(n) : n \in Thresholds}
  PROVE  Parsed(t) \in {NaN, Absent} \cup {Number(n) : n \in Thresholds}
BY DEF Parsed, NaN, Absent, Number

\* A threshold survives being written and read, but for one that is absent.
LEMMA ThresholdComesBack ==
  ASSUME NEW t \in {NaN, Absent} \cup {Number(n) : n \in Thresholds}
  PROVE  Parsed(Written(t)) = IF t = Absent THEN Number(0) ELSE t
BY DEF Parsed, Written, NaN, Absent, Number

LEMMA WrittenList ==
  ASSUME NEW l \in Seq(Entry)
  PROVE  /\ ToFile(l).list \in Seq(Stored)
         /\ ToFile(l).kind = "json"
         /\ DOMAIN ToFile(l).list = DOMAIN l
         /\ \A i \in DOMAIN l : ToFile(l).list[i].id = l[i].id
                             /\ ToFile(l).list[i].warnMin = Written(l[i].warnMin)
<1> DEFINE s == [i \in DOMAIN l |-> [l[i] EXCEPT !.warnMin = Written(@)]]
<1>1. ToFile(l) = [kind |-> "json", list |-> s]
  BY DEF ToFile, File
<1>2. DOMAIN l = 1..Len(l) /\ Len(l) \in Nat
  OBVIOUS
<1>3. ASSUME NEW i \in DOMAIN l
      PROVE  s[i] \in Stored /\ s[i].id = l[i].id /\ s[i].warnMin = Written(l[i].warnMin)
  <2>1. l[i] \in Entry
    BY <1>2
  <2>2. Written(l[i].warnMin) \in {Absent} \cup {Number(n) : n \in Thresholds}
    BY <2>1, StoredThresholds DEF Entry
  <2> QED
    BY <2>1, <2>2 DEF Entry, Stored
<1>4. s \in [1..Len(l) -> Stored]
  BY <1>2, <1>3
<1>5. s \in Seq(Stored)
  BY <1>2, <1>4
<1>6. DOMAIN s = DOMAIN l
  OBVIOUS
<1> HIDE DEF s
<1>7. ToFile(l).list = s /\ ToFile(l).kind = "json"
  BY <1>1
<1> QED
  BY <1>3, <1>5, <1>6, <1>7

LEMMA ReadList ==
  ASSUME NEW l \in Seq(Stored), l # <<>>, \A i \in DOMAIN l : l[i].id \in Hotspots
  PROVE  FromFile(l) \in Seq(Entry) /\ FromFile(l) # <<>>
<1> DEFINE s == [i \in DOMAIN l |-> [l[i] EXCEPT !.warnMin = Parsed(@)]]
<1>1. DOMAIN l = 1..Len(l) /\ Len(l) \in Nat /\ Len(l) # 0
  OBVIOUS
<1>2. ASSUME NEW i \in DOMAIN l
      PROVE  s[i] \in Entry
  <2>1. l[i] \in Stored /\ l[i].id \in Hotspots
    BY <1>1
  <2>2. Parsed(l[i].warnMin) \in {NaN, Absent} \cup {Number(n) : n \in Thresholds}
    BY <2>1, LoadedThresholds DEF Stored
  <2> QED
    BY <2>1, <2>2 DEF Entry, Stored
<1>3. s \in [1..Len(l) -> Entry]
  BY <1>1, <1>2
<1>4. s \in Seq(Entry) /\ s # <<>>
  BY <1>1, <1>3
<1> QED
  BY <1>4 DEF FromFile

LEMMA DefaultsValid == Defaults \in Seq(Entry) /\ Defaults # <<>>
<1> DEFINE h == CHOOSE x \in Hotspots : TRUE
           n == CHOOSE x \in Thresholds : x # 0
<1>1. h \in Hotspots /\ n \in Thresholds
  BY TwinAssumption
<1>2. Defaults = <<[id |-> h, warnMin |-> Absent], [id |-> h, warnMin |-> Number(n)]>>
  BY DEF Defaults
<1>3. [id |-> h, warnMin |-> Absent] \in Entry /\ [id |-> h, warnMin |-> Number(n)] \in Entry
  BY <1>1 DEF Entry
<1> HIDE DEF h, n
<1> QED
  BY <1>2, <1>3

-----------------------------------------------------------------------------
\* What is written loads, and gives the list with 0 for what was absent.
LEMMA WrittenComesBack ==
  ASSUME NEW l \in Seq(Entry), l # <<>>
  PROVE  /\ Loads(ToFile(l)) /\ FromFile(ToFile(l).list) = Reloaded(l)
         /\ Reloaded(l) \in Seq(Entry) /\ Reloaded(l) # <<>>
<1> DEFINE f == ToFile(l)
           back(i) == [l[i] EXCEPT !.warnMin = IF @ = Absent THEN Number(0) ELSE @]
<1>1. DOMAIN l = 1..Len(l) /\ Len(l) # 0 /\ Len(l) \in Nat
  OBVIOUS
<1>2. /\ f.kind = "json" /\ f.list \in Seq(Stored)
      /\ DOMAIN f.list = DOMAIN l
      /\ \A i \in DOMAIN l : f.list[i].id = l[i].id /\ f.list[i].warnMin = Written(l[i].warnMin)
  BY WrittenList
<1> HIDE DEF f
<1>3. \A i \in DOMAIN l : l[i] \in Entry
  BY <1>1
<1>4. Loads(f)
  <2>1. f.list # <<>>
    BY <1>1, <1>2
  <2>2. \A i \in DOMAIN l : l[i].id \in Hotspots
    BY <1>3 DEF Entry
  <2> QED
    BY <1>2, <2>1, <2>2 DEF Loads
<1>5. ASSUME NEW i \in DOMAIN l
      PROVE  [f.list[i] EXCEPT !.warnMin = Parsed(@)] = back(i)
  <2>1. f.list[i] \in Stored
    BY <1>1, <1>2
  <2>2. Parsed(Written(l[i].warnMin)) = IF l[i].warnMin = Absent THEN Number(0) ELSE l[i].warnMin
    BY <1>3, ThresholdComesBack DEF Entry
  <2> QED
    BY <1>2, <1>3, <2>1, <2>2 DEF Entry, Stored
<1>6. FromFile(f.list) = Reloaded(l)
  BY <1>2, <1>5 DEF FromFile, Reloaded
<1>7. f.list # <<>> /\ \A i \in DOMAIN f.list : f.list[i].id \in Hotspots
  BY <1>4 DEF Loads
<1>8. FromFile(f.list) \in Seq(Entry) /\ FromFile(f.list) # <<>>
  BY <1>2, <1>7, ReadList
<1> QED
  BY <1>4, <1>6, <1>8 DEF f

\* A file that is none, or is no list, does not load.
LEMMA LostFiles ==
  ASSUME NEW g
  PROVE  FileOK(NoFile, g) /\ FileOK(Garbage, g) /\ FileOK(File(<<>>), g)
<1>1. <<>> \in Seq(Stored)
  OBVIOUS
<1>2. ~ Loads(NoFile) /\ ~ Loads(Garbage) /\ ~ Loads(File(<<>>))
  BY DEF Loads, NoFile, Garbage, File
<1>3. /\ NoFile.kind = "missing" /\ NoFile.list = <<>> /\ Garbage.kind = "garbage" /\ Garbage.list = <<>>
      /\ File(<<>>).kind = "json" /\ File(<<>>).list = <<>>
  BY DEF NoFile, Garbage, File
<1> QED
  BY <1>1, <1>2, <1>3, Zenon DEF FileOK

LEMMA LoadGivesLayout ==
  ASSUME NEW f, NEW g, FileOK(f, g), Loads(f)
  PROVE  FromFile(f.list) \in Seq(Entry) /\ FromFile(f.list) # <<>> /\ FromFile(f.list) \in g
<1>1. f.list \in Seq(Stored) /\ f.list # <<>> /\ \A i \in DOMAIN f.list : f.list[i].id \in Hotspots
  BY DEF FileOK, Loads
<1> QED
  BY <1>1, ReadList DEF FileOK

\* A change of the file that loses no layout and leaves nothing else to a power failure.
LEMMA DiskStays ==
  ASSUME TwinInv, UNCHANGED hotspots, given \subseteq given',
         \A l \in given' : l \in given \/ (l \in Seq(Entry) /\ l # <<>>),
         FileOK(file', given'), disk' = disk \cup {file'},
         saved' # <<>> => saved' \in Seq(Entry) /\ file' = ToFile(saved')
  PROVE  TwinInv'
<1>1. hotspots' \in Seq(Entry) /\ hotspots' # <<>> /\ hotspots' \in {Defaults} \cup given'
  BY DEF TwinInv
<1>2. \A l \in given' : l \in Seq(Entry) /\ l # <<>>
  BY DEF TwinInv
<1>3. ASSUME NEW f \in disk' PROVE FileOK(f, given')
  <2>1. CASE f = file'
    BY <2>1
  <2>2. CASE f \in disk
    <3>1. FileOK(f, given)
      BY <2>2 DEF TwinInv
    <3> QED
      BY <3>1, Zenon DEF FileOK
  <2> QED
    BY <2>1, <2>2
<1>4. file' \in disk'
  OBVIOUS
<1> QED
  BY <1>1, <1>2, <1>3, <1>4 DEF TwinInv

LEMMA InitSavable == TwinInit => TwinInv
<1> SUFFICES ASSUME TwinInit PROVE TwinInv
  OBVIOUS
<1>1. /\ hotspots = Defaults /\ given = {} /\ saved = <<>> /\ file = NoFile /\ disk = {NoFile}
  BY DEF TwinInit
<1> QED
  BY <1>1, DefaultsValid, LostFiles DEF TwinInv

\* The files Edit may put there.
EditsWith(h1, h2, t) ==
  {NoFile, Garbage, File(<<>>),
   File(<<[id |-> h1, warnMin |-> Number(t)], [id |-> h2, warnMin |-> Absent]>>)}

\* What somebody puts into the file is something a load can judge.
LEMMA EditedFiles ==
  ASSUME NEW h1 \in Hotspots \cup {BadHotspot}, NEW h2 \in Hotspots \cup {BadHotspot},
         NEW t \in Thresholds, NEW g, NEW f \in EditsWith(h1, h2, t),
         Loads(f) => FromFile(f.list) \in g
  PROVE  FileOK(f, g)
<1> DEFINE l == <<[id |-> h1, warnMin |-> Number(t)], [id |-> h2, warnMin |-> Absent]>>
<1>1. [id |-> h1, warnMin |-> Number(t)] \in Stored /\ [id |-> h2, warnMin |-> Absent] \in Stored
  BY DEF Stored
<1>2. l \in Seq(Stored)
  BY <1>1
<1>3. f = NoFile \/ f = Garbage \/ f = File(<<>>) \/ f = File(l)
  BY DEF EditsWith
<1> HIDE DEF l
<1>4. CASE f = File(l)
  <2>1. f.kind = "json" /\ f.list = l
    BY <1>4 DEF File
  <2> QED
    BY <1>2, <2>1, Zenon DEF FileOK
<1>5. CASE f # File(l)
  BY <1>3, <1>5, LostFiles
<1> QED
  BY <1>4, <1>5

LEMMA StepKeepsSavable == TwinInv /\ [TwinNext]_twinVars => TwinInv'
<1> SUFFICES ASSUME TwinInv, [TwinNext]_twinVars PROVE TwinInv'
  OBVIOUS
<1>0. /\ hotspots \in Seq(Entry) /\ hotspots # <<>> /\ hotspots \in {Defaults} \cup given
      /\ \A l \in given : l \in Seq(Entry) /\ l # <<>>
      /\ file \in disk /\ \A f \in disk : FileOK(f, given)
      /\ saved # <<>> => saved \in Seq(Entry) /\ file = ToFile(saved)
  BY DEF TwinInv
<1>1. CASE Load
  <2>1. UNCHANGED <<file, disk, saved, given>>
    BY <1>1 DEF Load
  <2>2. hotspots' \in Seq(Entry) /\ hotspots' # <<>> /\ hotspots' \in {Defaults} \cup given
    <3>1. CASE Loads(file)
      <4>1. hotspots' = FromFile(file.list)
        BY <1>1, <3>1 DEF Load
      <4>2. FileOK(file, given)
        BY <1>0
      <4> QED
        BY <3>1, <4>1, <4>2, LoadGivesLayout
    <3>2. CASE ~Loads(file)
      BY <1>0, <1>1, <3>2 DEF Load
    <3> QED
      BY <3>1, <3>2
  <2> QED
    BY <1>0, <2>1, <2>2 DEF TwinInv
<1>2. CASE SaveOpen
  <2>1. CASE file' = Garbage /\ disk' = disk \cup {Garbage} /\ saved' = <<>>
    BY <1>0, <1>2, <2>1, LostFiles, DiskStays DEF SaveOpen
  <2>2. CASE UNCHANGED <<file, disk, saved>>
    BY <1>0, <1>2, <2>2 DEF SaveOpen, TwinInv
  <2> QED
    BY <1>2, <2>1, <2>2 DEF SaveOpen
<1>3. CASE SaveWrite
  <2>1. UNCHANGED hotspots /\ disk' = disk \cup {file'}
    BY <1>3 DEF SaveWrite
  <2>2. CASE file' = ToFile(hotspots) /\ saved' = hotspots /\ given' = given \cup {Reloaded(hotspots)}
    <3>1. FileOK(ToFile(hotspots), given')
      <4>1. ToFile(hotspots).kind = "json" /\ ToFile(hotspots).list \in Seq(Stored)
        BY <1>0, WrittenList
      <4>2. FromFile(ToFile(hotspots).list) = Reloaded(hotspots)
        BY <1>0, WrittenComesBack
      <4> QED
        BY <2>2, <4>1, <4>2 DEF FileOK
    <3>2. Reloaded(hotspots) \in Seq(Entry) /\ Reloaded(hotspots) # <<>>
      BY <1>0, WrittenComesBack
    <3> QED
      BY <1>0, <2>1, <2>2, <3>1, <3>2, DiskStays
  <2>3. CASE file' = Garbage /\ saved' = <<>> /\ UNCHANGED given
    BY <1>0, <2>1, <2>3, LostFiles, DiskStays
  <2> QED
    BY <1>3, <2>2, <2>3 DEF SaveWrite
<1>4. CASE Flush
  <2>1. UNCHANGED <<hotspots, given, file, saved>> /\ disk' = {file}
    BY <1>4 DEF Flush
  <2> QED
    BY <1>0, <2>1 DEF TwinInv
<1>5. CASE Reset
  <2>1. UNCHANGED <<file, disk, saved, given>> /\ hotspots' = Defaults
    BY <1>5 DEF Reset
  <2> QED
    BY <1>0, <2>1, DefaultsValid DEF TwinInv
<1>6. CASE Edit
  <2>1. PICK h1 \in Hotspots \cup {BadHotspot}, h2 \in Hotspots \cup {BadHotspot}, t \in Thresholds :
          \E f \in EditsWith(h1, h2, t) :
            /\ file' = f /\ disk' = disk \cup {f}
            /\ given' = IF Loads(f) THEN given \cup {FromFile(f.list)} ELSE given
    BY <1>6, Zenon DEF Edit, EditsWith
  <2>2. PICK f \in EditsWith(h1, h2, t) :
          /\ file' = f /\ disk' = disk \cup {f}
          /\ given' = IF Loads(f) THEN given \cup {FromFile(f.list)} ELSE given
    BY <2>1, Zenon
  <2>3. Loads(f) => FromFile(f.list) \in given'
    BY <2>2
  <2>4. FileOK(f, given')
    BY <2>3, EditedFiles
  <2>5. Loads(f) => FromFile(f.list) \in Seq(Entry) /\ FromFile(f.list) # <<>>
    BY <2>4, LoadGivesLayout
  <2>6. given \subseteq given' /\ \A l \in given' : l \in given \/ (l \in Seq(Entry) /\ l # <<>>)
    BY <2>2, <2>5
  <2>7. UNCHANGED hotspots /\ saved' = <<>>
    BY <1>6 DEF Edit
  <2> QED
    BY <2>2, <2>4, <2>6, <2>7, DiskStays
<1>7. CASE PowerFails
  <2>1. /\ file' \in disk /\ disk' = {file'} /\ hotspots' = Defaults /\ UNCHANGED given
        /\ saved' = IF file' = file THEN saved ELSE <<>>
    BY <1>7 DEF PowerFails
  <2> QED
    BY <1>0, <2>1, DefaultsValid DEF TwinInv
<1>8. CASE UNCHANGED twinVars
  BY <1>0, <1>8 DEF twinVars, TwinInv
<1> QED
  BY <1>1, <1>2, <1>3, <1>4, <1>5, <1>6, <1>7, <1>8 DEF TwinNext

LEMMA SavableComesBack == TwinInv => SavedListComesBack
<1> SUFFICES ASSUME TwinInv PROVE SavedListComesBack
  OBVIOUS
<1>1. hotspots \in {Defaults} \cup given
  BY DEF TwinInv
<1>2. \A f \in disk : Loads(f) => FromFile(f.list) \in given
  BY Zenon DEF TwinInv, FileOK
<1>3. saved # <<>> => Loads(file) /\ FromFile(file.list) = Reloaded(saved)
  BY WrittenComesBack DEF TwinInv
<1> QED
  BY <1>1, <1>2, <1>3 DEF SavedListComesBack

\* SavedListComesBack for any hotspots, thresholds, edits and power failures, in
\* mid-save and before a save reached the disk, and for writes that fail without
\* gcsstate.cpp 482 noticing it: what loads is a layout that was saved or that
\* somebody put there, entry for entry, and where the write reached the file it is
\* the list that was saved last, with 0 for the limits that were absent.
THEOREM SavedComesBack == TwinSpec => []SavedListComesBack
<1> QED
  BY InitSavable, StepKeepsSavable, SavableComesBack, PTL DEF TwinSpec

-----------------------------------------------------------------------------
(* The halves of a blink, where a picture is made and where it is sent. *)

\* The pictures of one half of a blink.
HalfOf(anim) == IF anim = BlinkSlow THEN 10 ELSE 2

\* The last n transfers showed the button dark, or lit, while the picture of
\* phase ph is ready and behind of the pictures made have not been sent.
InRun(anim, n, dark, behind, ph) ==
  IF dark <=> DarkHalf(anim, ph)
    THEN n + behind <= (ph % HalfOf(anim)) + 4
    ELSE /\ n <= HalfOf(anim) + 3
         /\ behind = 2 \/ (behind = 1 /\ (ph % HalfOf(anim) = 0 \/ n <= 2))

\* The next phase is the next of the same half, or the first of the other.
LEMMA NextInHalf ==
  ASSUME NEW a \in {BlinkSlow, BlinkFast}, NEW ph \in Byte
  PROVE  /\ NextPhase(ph) \in Byte /\ ph % HalfOf(a) \in 0..(HalfOf(a) - 1)
         /\ (DarkHalf(a, NextPhase(ph)) <=> DarkHalf(a, ph)) => NextPhase(ph) % HalfOf(a) = (ph % HalfOf(a)) + 1
         /\ ~ (DarkHalf(a, NextPhase(ph)) <=> DarkHalf(a, ph)) => NextPhase(ph) % HalfOf(a) = 0 /\ ph % HalfOf(a) # 0
<1>1. CASE a = BlinkSlow
  BY <1>1 DEF DarkHalf, NextPhase, HalfOf, BlinkSlow, BlinkFast, Byte
<1>2. CASE a = BlinkFast
  BY <1>2 DEF DarkHalf, NextPhase, HalfOf, BlinkSlow, BlinkFast, Byte
<1> QED
  BY <1>1, <1>2

LEMMA RunEnds ==
  ASSUME NEW a \in {BlinkSlow, BlinkFast}, NEW n \in Nat, NEW d \in BOOLEAN, NEW b \in 0..2, NEW ph \in Byte,
         InRun(a, n, d, b, ph)
  PROVE  n <= HalfOf(a) + 3
<1>1. ph % HalfOf(a) \in 0..(HalfOf(a) - 1) /\ HalfOf(a) \in Nat
  BY NextInHalf DEF HalfOf
<1> QED
  BY <1>1 DEF InRun

LEMMA RunGoesOn ==
  ASSUME NEW a \in {BlinkSlow, BlinkFast}, NEW n \in Nat, NEW d \in BOOLEAN, NEW b \in 0..1, NEW ph \in Byte,
         InRun(a, n, d, b, ph)
  PROVE  InRun(a, n, d, b + 1, NextPhase(ph))
<1> DEFINE q == ph % HalfOf(a)
           x == NextPhase(ph) % HalfOf(a)
           D == DarkHalf(a, ph)
           E == DarkHalf(a, NextPhase(ph))
           h == HalfOf(a)
<1>1. q \in 0..(h - 1) /\ h \in Nat /\ h >= 2
  BY NextInHalf DEF HalfOf
<1>2. ((E <=> D) => x = q + 1) /\ (~ (E <=> D) => x = 0 /\ q # 0)
  BY NextInHalf
<1>3. IF d <=> D THEN n + b <= q + 4 ELSE n <= h + 3 /\ (b = 2 \/ (b = 1 /\ (q = 0 \/ n <= 2)))
  BY DEF InRun
<1> HIDE DEF q, x, D, E, h
<1>4. CASE (d <=> D) /\ (E <=> D)
  <2>1. n + (b + 1) <= x + 4
    BY <1>1, <1>2, <1>3, <1>4
  <2> QED
    BY <1>4, <2>1 DEF InRun, x, E
<1>5. CASE (d <=> D) /\ ~ (E <=> D)
  <2>1. n <= h + 3 /\ (b + 1 = 2 \/ (b + 1 = 1 /\ (x = 0 \/ n <= 2)))
    BY <1>1, <1>2, <1>3, <1>5
  <2> QED
    BY <1>5, <2>1 DEF InRun, x, E, h
<1>6. CASE ~ (d <=> D) /\ (E <=> D)
  <2>1. n <= h + 3 /\ b + 1 = 2
    BY <1>1, <1>2, <1>3, <1>6
  <2> QED
    BY <1>6, <2>1 DEF InRun, x, E, h
<1>7. CASE ~ (d <=> D) /\ ~ (E <=> D)
  <2>1. n + (b + 1) <= x + 4
    BY <1>1, <1>2, <1>3, <1>7
  <2> QED
    BY <1>7, <2>1 DEF InRun, x, E
<1> QED
  BY <1>4, <1>5, <1>6, <1>7

\* It may begin with what was left from before a command.
LEMMA RunBegins ==
  ASSUME NEW a \in {BlinkSlow, BlinkFast}, NEW n \in Nat, NEW d \in BOOLEAN, NEW b \in 0..1, NEW ph \in Byte,
         n + b <= 2
  PROVE  InRun(a, n, d, b + 1, ph)
<1>1. ph % HalfOf(a) \in Nat /\ HalfOf(a) \in Nat /\ HalfOf(a) >= 2
  BY NextInHalf DEF HalfOf
<1> QED
  BY <1>1 DEF InRun

\* A transfer shows the picture that is ready.
LEMMA RunShown ==
  ASSUME NEW a \in {BlinkSlow, BlinkFast}, NEW n \in Nat, NEW d \in BOOLEAN, NEW b \in 1..2, NEW ph \in Byte,
         InRun(a, n, d, b, ph), NEW e \in BOOLEAN, e <=> DarkHalf(a, ph)
  PROVE  InRun(a, IF n > 0 /\ e = d THEN n + 1 ELSE 1, e, b - 1, ph)
<1>1. ph % HalfOf(a) \in Nat
  BY NextInHalf
<1>2. CASE n > 0 /\ e = d
  <2>1. n + b <= (ph % HalfOf(a)) + 4
    BY <1>2 DEF InRun
  <2>2. (n + 1) + (b - 1) <= (ph % HalfOf(a)) + 4
    BY <1>1, <2>1
  <2> QED
    BY <1>2, <2>2 DEF InRun
<1>3. CASE ~ (n > 0 /\ e = d)
  <2>1. 1 + (b - 1) <= (ph % HalfOf(a)) + 4
    BY <1>1
  <2> QED
    BY <1>3, <2>1 DEF InRun
<1> QED
  BY <1>2, <1>3

Led == [r: Byte, g: Byte, b: Byte, anim: Byte, phase: Byte]

\* Of a button: its fields and the brightness, its picture, its half, how many of
\* its pictures have not been sent, and whether ws2811_task has read something
\* else of it than it is now.
HalvedOf(d, level, picture, half, behind, old) ==
  /\ ~Blinks(d, level) => half.transfers = 0
  /\ \/ half.transfers + behind + (IF old THEN 1 ELSE 0) <= 2
     \/ \E ph \in Byte : /\ Blinks(d, level) /\ ~old /\ d.phase = NextPhase(ph)
                         /\ (picture = Dark) <=> DarkHalf(d.anim, ph)
                         /\ InRun(d.anim, half.transfers, half.dark, behind, ph)

LEMMA HalvedSame ==
  ASSUME NEW d, NEW level, NEW picture, NEW half, NEW b, NEW x, NEW y, x <=> y, HalvedOf(d, level, picture, half, b, x)
  PROVE  HalvedOf(d, level, picture, half, b, y)
BY DEF HalvedOf

\* A command, or the brightness, has just changed it.
LEMMA HalvedAnew ==
  ASSUME NEW d, NEW level, NEW picture, NEW half, half.transfers = 0, NEW b \in 0..2, NEW old \in BOOLEAN,
         old => b <= 1
  PROVE  HalvedOf(d, level, picture, half, b, old)
<1>1. half.transfers + b + (IF old THEN 1 ELSE 0) <= 2
  OBVIOUS
<1> QED
  BY <1>1 DEF HalvedOf

LEMMA ScaleType ==
  ASSUME NEW v \in Byte, NEW level \in Byte
  PROVE  Scale(v, level) \in Byte
<1>1. v \in Nat /\ level \in Nat /\ v <= 255 /\ level <= 255
  BY DEF Byte
<1>2. v * level \in Nat /\ v * level <= 255 * level
  BY <1>1
<1>3. \A x \in Nat : x <= 255 * 255 => x \div 256 \in 0..255
  OBVIOUS
<1> QED
  BY <1>1, <1>2, <1>3 DEF Scale, Byte

\* A blinking button is computed dark in the dark half and only then.
LEMMA BlinkComputed ==
  ASSUME NEW d \in Led, NEW level \in Byte, Blinks(d, level), NEW f, f.r = d.r, f.g = d.g, f.b = d.b, f.bright = level
  PROVE  (ComputePixel(f, d.anim) = Dark) <=> DarkHalf(d.anim, f.phase)
<1> DEFINE x == Scale(d.r, level)
           y == Scale(d.g, level)
           z == Scale(d.b, level)
<1>1. d.anim \in {BlinkSlow, BlinkFast} /\ (x > 0 \/ y > 0 \/ z > 0)
  BY DEF Blinks
<1>2. d.anim # Pulse /\ d.anim \in {On, BlinkSlow, BlinkFast}
  BY <1>1 DEF Pulse, BlinkSlow, BlinkFast, On
<1>3. CASE DarkHalf(d.anim, f.phase)
  <2>1. ComputePixel(f, d.anim) = Dark
    BY <1>2, <1>3 DEF ComputePixel
  <2> QED
    BY <1>3, <2>1
<1>4. CASE ~DarkHalf(d.anim, f.phase)
  <2>1. ComputePixel(f, d.anim) = <<x, y, z>>
    BY <1>2, <1>4 DEF ComputePixel
  <2>2. <<x, y, z>> # <<0, 0, 0>>
    <3> HIDE DEF x, y, z
    <3>1. ~ (x = 0 /\ y = 0 /\ z = 0)
      BY <1>1
    <3>2. <<x, y, z>>[1] = x /\ <<x, y, z>>[2] = y /\ <<x, y, z>>[3] = z
      OBVIOUS
    <3> QED
      BY <3>1
  <2> QED
    BY <1>4, <2>1, <2>2 DEF Dark
<1> QED
  BY <1>3, <1>4

\* ws2811_task stores the picture and advances the phase.
LEMMA HalvedStored ==
  ASSUME NEW d \in Led, NEW level \in Byte, NEW picture, NEW half \in [dark: BOOLEAN, transfers: Nat],
         NEW b \in 0..1, NEW old \in BOOLEAN, HalvedOf(d, level, picture, half, b, old),
         NEW f, NEW ph \in Byte, NEW d2, d2 = [d EXCEPT !.phase = NextPhase(ph)],
         ~old => f.r = d.r /\ f.g = d.g /\ f.b = d.b /\ f.bright = level /\ f.phase = d.phase /\ ph = d.phase
  PROVE  HalvedOf(d2, level, ComputePixel(f, d.anim), half, b + 1, FALSE)
<1> DEFINE n == half.transfers
           new == ComputePixel(f, d.anim)
<1>1. /\ d2.r = d.r /\ d2.g = d.g /\ d2.b = d.b /\ d2.anim = d.anim /\ d2.phase = NextPhase(ph)
      /\ n \in Nat /\ half.dark \in BOOLEAN
  BY DEF Led
<1>2. Blinks(d2, level) <=> Blinks(d, level)
  BY <1>1 DEF Blinks
<1>3. ~Blinks(d2, level) => n = 0
  BY <1>2 DEF HalvedOf
<1>4. CASE n + (b + 1) <= 2
  <2>1. n + (b + 1) + (IF FALSE THEN 1 ELSE 0) <= 2
    BY <1>1, <1>4
  <2> HIDE DEF n
  <2> QED
    BY <1>3, <2>1 DEF HalvedOf, n
<1>5. CASE ~ (n + (b + 1) <= 2)
  <2>1. ~old
    BY <1>1, <1>5 DEF HalvedOf
  <2>2. n # 0 /\ Blinks(d, level)
    BY <1>1, <1>2, <1>3, <1>5
  <2>3. d.anim \in {BlinkSlow, BlinkFast} /\ d.phase = ph
    BY <2>1, <2>2 DEF Blinks
  <2>4. (new = Dark) <=> DarkHalf(d.anim, ph)
    BY <2>1, <2>2, <2>3, BlinkComputed
  <2>5. InRun(d.anim, n, half.dark, b + 1, ph)
    <3>1. CASE n + b <= 2
      BY <1>1, <2>3, <3>1, RunBegins
    <3>2. CASE ~ (n + b <= 2)
      <4>1. PICK p0 \in Byte : d.phase = NextPhase(p0) /\ InRun(d.anim, n, half.dark, b, p0)
        BY <1>1, <2>1, <3>2 DEF HalvedOf
      <4>2. InRun(d.anim, n, half.dark, b + 1, NextPhase(p0))
        BY <1>1, <2>3, <4>1, RunGoesOn
      <4> QED
        BY <2>3, <4>1, <4>2
    <3> QED
      BY <3>1, <3>2
  <2> HIDE DEF n, new
  <2>6. \E q \in Byte : /\ Blinks(d2, level) /\ ~FALSE /\ d2.phase = NextPhase(q)
                        /\ (new = Dark) <=> DarkHalf(d2.anim, q)
                        /\ InRun(d2.anim, n, half.dark, b + 1, q)
    BY <1>1, <1>2, <2>2, <2>4, <2>5
  <2>7. HalvedOf(d2, level, new, half, b + 1, FALSE)
    BY <1>3, <2>6 DEF HalvedOf, n
  <2> QED
    BY <2>7 DEF new
<1> QED
  BY <1>4, <1>5

LEMMA HalfRecord ==
  ASSUME NEW p, NEW q, NEW m \in Nat, NEW half, half = [dark |-> p = q, transfers |-> m]
  PROVE  half \in [dark: BOOLEAN, transfers: Nat] /\ half.transfers = m /\ half.dark = (p = q)
<1>1. half \in [dark: BOOLEAN, transfers: Nat]
  BY Zenon
<1>2. half.transfers = m
  BY Zenon
<1>3. half.dark = (p = q)
  BY Zenon
<1> QED
  BY <1>1, <1>2, <1>3, Zenon

\* Its half once the channel has sent its word.
SentHalf(d, level, picture, half, busy) ==
  IF busy \/ ~Blinks(d, level)
    THEN [dark |-> TRUE, transfers |-> 0]
    ELSE [dark |-> picture = Dark,
          transfers |-> IF half.transfers > 0 /\ (picture = Dark) = half.dark THEN half.transfers + 1 ELSE 1]

LEMMA SentHalfType ==
  ASSUME NEW d, NEW level, NEW picture, NEW half \in [dark: BOOLEAN, transfers: Nat], NEW busy \in BOOLEAN
  PROVE  SentHalf(d, level, picture, half, busy) \in [dark: BOOLEAN, transfers: Nat]
<1> DEFINE new == SentHalf(d, level, picture, half, busy)
<1>1. CASE busy \/ ~Blinks(d, level)
  <2>1. new = [dark |-> TRUE, transfers |-> 0]
    BY <1>1, Zenon DEF SentHalf
  <2> QED
    BY <2>1
<1>2. CASE ~ (busy \/ ~Blinks(d, level))
  <2> DEFINE m == IF half.transfers > 0 /\ (picture = Dark) = half.dark THEN half.transfers + 1 ELSE 1
  <2>1. new = [dark |-> picture = Dark, transfers |-> m]
    BY <1>2, Zenon DEF SentHalf
  <2>2. m \in Nat
    OBVIOUS
  <2> HIDE DEF m, new
  <2>3. new \in [dark: BOOLEAN, transfers: Nat]
    BY <2>1, <2>2, HalfRecord
  <2> QED
    BY <2>3 DEF new
<1> QED
  BY <1>1, <1>2

LEMMA HalvedSent ==
  ASSUME NEW d, NEW level, NEW picture, NEW half \in [dark: BOOLEAN, transfers: Nat],
         NEW b \in 1..2, NEW old \in BOOLEAN, old => b <= 1, HalvedOf(d, level, picture, half, b, old),
         NEW busy \in BOOLEAN, NEW new,
         new = SentHalf(d, level, picture, half, busy)
  PROVE  new \in [dark: BOOLEAN, transfers: Nat] /\ HalvedOf(d, level, picture, new, b - 1, old)
<1> DEFINE n == half.transfers
<1>1. n \in Nat /\ half.dark \in BOOLEAN
  OBVIOUS
<1>2. CASE busy \/ ~Blinks(d, level)
  <2>1. new = [dark |-> TRUE, transfers |-> 0]
    BY <1>2, Zenon DEF SentHalf
  <2>2. new \in [dark: BOOLEAN, transfers: Nat] /\ new.transfers = 0
    BY <2>1
  <2>3. b - 1 \in 0..2 /\ (old => b - 1 <= 1)
    OBVIOUS
  <2> QED
    BY <2>2, <2>3, HalvedAnew
<1>3. CASE ~ (busy \/ ~Blinks(d, level))
  <2> DEFINE e == picture = Dark
             m == IF n > 0 /\ e = half.dark THEN n + 1 ELSE 1
  <2>1. new = [dark |-> e, transfers |-> m]
    BY <1>3, Zenon DEF SentHalf
  <2>2. e \in BOOLEAN /\ m \in Nat /\ m >= 1 /\ m <= n + 1
    BY <1>1
  <2>3. new \in [dark: BOOLEAN, transfers: Nat] /\ new.transfers = m /\ new.dark = e
    <3>1. PICK y \in Nat : y = m
      BY <2>2
    <3> HIDE DEF m
    <3>2. new = [dark |-> picture = Dark, transfers |-> y]
      BY <2>1, <3>1, Zenon
    <3>3. new \in [dark: BOOLEAN, transfers: Nat] /\ new.transfers = y /\ new.dark = (picture = Dark)
      BY ONLY <3>2, HalfRecord, Zenon
    <3> QED
      BY <3>1, <3>3, Zenon
  <2>4. CASE n + b + (IF old THEN 1 ELSE 0) <= 2
    <3>1. m + (b - 1) + (IF old THEN 1 ELSE 0) <= 2
      BY <1>1, <2>2, <2>4
    <3> HIDE DEF m
    <3> QED
      BY <1>3, <2>3, <3>1 DEF HalvedOf
  <2>5. CASE ~ (n + b + (IF old THEN 1 ELSE 0) <= 2)
    <3>1. PICK ph \in Byte : /\ Blinks(d, level) /\ ~old /\ d.phase = NextPhase(ph)
                             /\ e <=> DarkHalf(d.anim, ph)
                             /\ InRun(d.anim, n, half.dark, b, ph)
      BY <2>5 DEF HalvedOf
    <3>2. d.anim \in {BlinkSlow, BlinkFast}
      BY <3>1 DEF Blinks
    <3> HIDE DEF e
    <3>3. InRun(d.anim, m, e, b - 1, ph)
      BY <1>1, <2>2, <3>1, <3>2, RunShown
    <3> HIDE DEF m
    <3> USE DEF e
    <3> QED
      BY <1>3, <2>3, <3>1, <3>3 DEF HalvedOf
  <2> QED
    BY <2>3, <2>4, <2>5
<1> QED
  BY <1>2, <1>3

\* So no half lasts too long.
LEMMA HalvedBound ==
  ASSUME NEW d, NEW level, NEW picture, NEW half \in [dark: BOOLEAN, transfers: Nat],
         NEW b \in 0..2, NEW old \in BOOLEAN, HalvedOf(d, level, picture, half, b, old)
  PROVE  half.transfers <= CASE d.anim = BlinkSlow -> 13
                             [] d.anim = BlinkFast -> 5
                             [] OTHER              -> 0
<1>1. half.transfers \in Nat /\ half.dark \in BOOLEAN /\ BlinkSlow # BlinkFast
  BY DEF BlinkSlow, BlinkFast
<1>2. half.transfers <= 2 \/ (d.anim \in {BlinkSlow, BlinkFast} /\ half.transfers <= HalfOf(d.anim) + 3)
  <2>1. CASE half.transfers + b + (IF old THEN 1 ELSE 0) <= 2
    BY <1>1, <2>1
  <2>2. CASE ~ (half.transfers + b + (IF old THEN 1 ELSE 0) <= 2)
    <3>1. PICK ph \in Byte : Blinks(d, level) /\ InRun(d.anim, half.transfers, half.dark, b, ph)
      BY <2>2 DEF HalvedOf
    <3>2. d.anim \in {BlinkSlow, BlinkFast}
      BY <3>1 DEF Blinks
    <3> QED
      BY <1>1, <3>1, <3>2, RunEnds
  <2> QED
    BY <2>1, <2>2
<1>3. d.anim \notin {BlinkSlow, BlinkFast} => half.transfers = 0
  BY DEF HalvedOf, Blinks
<1>4. CASE d.anim = BlinkSlow
  BY <1>1, <1>2, <1>4 DEF HalfOf
<1>5. CASE d.anim = BlinkFast
  BY <1>1, <1>2, <1>5 DEF HalfOf
<1>6. CASE d.anim \notin {BlinkSlow, BlinkFast}
  BY <1>1, <1>3, <1>6
<1> QED
  BY <1>4, <1>5, <1>6

-----------------------------------------------------------------------------
(* The buttons keep their types. *)

Colour == Byte \X Byte \X Byte
Copy   == [r: Byte, g: Byte, b: Byte, bright: Byte, phase: Byte]
Store  == Buttons \X {"r", "g", "b", "anim", "phase"} \X Byte

BtnSound ==
  /\ btn \in [Buttons -> Led] /\ bright \in Byte /\ buf \in [Buttons -> Colour] /\ lit \in [Buttons -> Colour]
  /\ setting \in Seq(Store) /\ Len(setting) <= 5
  /\ woken \in BOOLEAN /\ free \in BOOLEAN /\ word \in 0..NumPixels /\ (free <=> word = NumPixels)
  /\ at \in {"wait", "start", "r", "g", "b", "bright", "phase", "anim"} /\ pixel \in Buttons
  /\ at \in {"wait", "start"} => pixel = 0
  /\ plan \in Seq(LedFrame \cup LevelFrame) /\ \E p \in Plans : Len(plan) <= Len(p)
  /\ read \in Copy /\ wanted \in [Buttons -> LedFrame]
  /\ halves \in [Buttons -> [dark: BOOLEAN, transfers: Nat]]

LEMMA ButtonFacts ==
  /\ NumPixels \in Nat \ {0} /\ NumPixels <= 256 /\ 0 \in Buttons
  /\ \A i \in Buttons : i \in Nat /\ i \in Byte /\ i < NumPixels
  /\ \A w \in 0..NumPixels : w < NumPixels => w \in Buttons
  /\ Dark \in Colour /\ Nothing \in Copy /\ {0, 1, 2, 3, 4, 255} \subseteq Byte
<1>1. NumPixels \in 1..256
  BY ButtonLedsAssumption
<1> QED
  BY <1>1 DEF Buttons, Byte, Dark, Colour, Nothing, Copy

LEMMA PictureType ==
  ASSUME NEW f \in Copy, NEW anim \in Byte
  PROVE  ComputePixel(f, anim) \in Colour
<1>1. f.r \in Byte /\ f.g \in Byte /\ f.b \in Byte /\ f.bright \in Byte /\ f.phase \in Byte
  BY DEF Copy
<1>2. Intensity(f.phase) \in Byte
  BY <1>1 DEF Intensity, Byte
<1>3. Scale(f.bright, Intensity(f.phase)) \in Byte
  BY <1>1, <1>2, ScaleType
<1>4. ASSUME NEW level \in Byte PROVE <<Scale(f.r, level), Scale(f.g, level), Scale(f.b, level)>> \in Colour
  BY <1>1, ScaleType DEF Colour
<1>5. Dark \in Colour
  BY ButtonFacts
<1> QED
  BY <1>1, <1>3, <1>4, <1>5 DEF ComputePixel

LEMMA SeqTail ==
  ASSUME NEW T, NEW s \in Seq(T), s # <<>>
  PROVE  Head(s) \in T /\ Tail(s) \in Seq(T) /\ Len(Tail(s)) = Len(s) - 1 /\ Len(s) \in Nat \ {0}
BY HeadTailProperties

LEMMA BtnInitSound == BtnInit => BtnSound
<1> SUFFICES ASSUME BtnInit PROVE BtnSound
  OBVIOUS
<1>0. NumPixels \in Nat \ {0} /\ 0 \in Buttons /\ Dark \in Colour /\ Nothing \in Copy /\ {0, 1, 2, 3, 4, 255} \subseteq Byte
      /\ \A i \in Buttons : i \in Byte
  BY ButtonFacts
<1>1. btn \in [Buttons -> Led]
  <2>1. Off \in Byte /\ On \in Byte
    BY <1>0 DEF Off, On
  <2> QED
    BY <1>0, <2>1 DEF BtnInit, Led
<1>2. bright \in Byte /\ buf \in [Buttons -> Colour] /\ lit \in [Buttons -> Colour]
  BY <1>0 DEF BtnInit
<1>3. setting \in Seq(Store) /\ Len(setting) <= 5
  BY DEF BtnInit
<1>4. /\ woken \in BOOLEAN /\ free \in BOOLEAN /\ word \in 0..NumPixels /\ (free <=> word = NumPixels)
      /\ at = "wait" /\ pixel = 0 /\ pixel \in Buttons /\ read \in Copy
  <2>1. woken = FALSE /\ free /\ word = NumPixels /\ at = "wait" /\ pixel = 0 /\ read = Nothing
    BY DEF BtnInit
  <2>2. free \in BOOLEAN
    BY DEF BtnInit
  <2>3. free <=> word = NumPixels
    BY <2>1, Zenon
  <2>4. word \in 0..NumPixels /\ pixel \in Buttons /\ read \in Copy
    BY <1>0, <2>1
  <2>5. woken \in BOOLEAN
    BY DEF BtnInit
  <2> QED
    BY <2>1, <2>2, <2>3, <2>4, <2>5
<1>5. plan \in Seq(LedFrame \cup LevelFrame) /\ \E p \in Plans : Len(plan) <= Len(p)
  <2>1. plan \in Plans /\ plan \in Seq(LedFrame \cup LevelFrame)
    BY ButtonLedsAssumption DEF BtnInit
  <2>2. Len(plan) <= Len(plan)
    BY <2>1
  <2> QED
    BY <2>1, <2>2
<1>6. wanted \in [Buttons -> LedFrame]
  <2>1. wanted = [i \in Buttons |-> [button |-> i, anim |-> btn[i].anim, colour |-> <<btn[i].r, btn[i].g, btn[i].b>>]]
    BY DEF BtnInit
  <2>2. ASSUME NEW i \in Buttons
        PROVE [button |-> i, anim |-> btn[i].anim, colour |-> <<btn[i].r, btn[i].g, btn[i].b>>] \in LedFrame
    BY <1>0, <1>1 DEF LedFrame, Led
  <2> QED
    BY <2>1, <2>2
<1>7. halves \in [Buttons -> [dark: BOOLEAN, transfers: Nat]]
  BY DEF BtnInit
<1> QED
  BY <1>1, <1>2, <1>3, <1>4, <1>5, <1>6, <1>7 DEF BtnSound

\* A plan that goes on.
LEMMA PlanGoesOn ==
  ASSUME BtnSound, plan # <<>>, plan' = Tail(plan)
  PROVE  /\ plan' \in Seq(LedFrame \cup LevelFrame) /\ \E p \in Plans : Len(plan') <= Len(p)
         /\ Head(plan) \in LedFrame \cup LevelFrame
<1>1. plan \in Seq(LedFrame \cup LevelFrame)
  BY DEF BtnSound
<1>2. PICK p \in Plans : Len(plan) <= Len(p)
  BY DEF BtnSound
<1>3. Head(plan) \in LedFrame \cup LevelFrame /\ plan' \in Seq(LedFrame \cup LevelFrame)
      /\ Len(plan') = Len(plan) - 1 /\ Len(plan) \in Nat \ {0}
  BY <1>1, SeqTail
<1>4. p \in Seq(LedFrame \cup LevelFrame)
  BY ButtonLedsAssumption
<1>5. Len(p) \in Nat
  BY <1>4
<1> QED
  BY <1>2, <1>3, <1>5

LEMMA SetButtonSound ==
  ASSUME BtnSound, SetButton
  PROVE  BtnSound'
<1> DEFINE f == Head(plan)
           i == f.button
           c == f.colour
           stores == <<<<i, "r", c[1]>>, <<i, "g", c[2]>>, <<i, "b", c[3]>>, <<i, "anim", f.anim>>, <<i, "phase", 0>>>>
<1>1. /\ plan # <<>> /\ plan' = Tail(plan) /\ f \in LedFrame
      /\ \/ i \in Buttons /\ setting' = stores /\ wanted' = [wanted EXCEPT ![i] = f] /\ woken' = woken
         \/ woken' = TRUE /\ setting' = setting /\ wanted' = wanted
      /\ UNCHANGED <<btn, bright, buf, at, pixel, read, free, word, lit, halves>>
  BY DEF SetButton
<1>2. plan' \in Seq(LedFrame \cup LevelFrame) /\ \E p \in Plans : Len(plan') <= Len(p)
  BY <1>1, PlanGoesOn
<1>3. c[1] \in Byte /\ c[2] \in Byte /\ c[3] \in Byte /\ f.anim \in Byte /\ 0 \in Byte
  BY <1>1, ButtonFacts DEF LedFrame
<1>4. setting' \in Seq(Store) /\ Len(setting') <= 5 /\ wanted' \in [Buttons -> LedFrame] /\ woken' \in BOOLEAN
  <2>1. CASE i \in Buttons /\ setting' = stores /\ wanted' = [wanted EXCEPT ![i] = f] /\ woken' = woken
    <3>1. /\ <<i, "r", c[1]>> \in Store /\ <<i, "g", c[2]>> \in Store /\ <<i, "b", c[3]>> \in Store
          /\ <<i, "anim", f.anim>> \in Store /\ <<i, "phase", 0>> \in Store
      BY <1>3, <2>1 DEF Store
    <3>2. stores \in Seq(Store) /\ Len(stores) = 5
      BY <3>1
    <3> HIDE DEF stores, f, i
    <3> QED
      BY <1>1, <2>1, <3>2 DEF BtnSound
  <2>2. CASE woken' = TRUE /\ setting' = setting /\ wanted' = wanted
    BY <2>2 DEF BtnSound
  <2> QED
    BY <1>1, <2>1, <2>2
<1> QED
  BY <1>1, <1>2, <1>4 DEF BtnSound

\* What a store makes of the fields of a button.
LEMMA LedWritten ==
  ASSUME NEW d \in Led, NEW field \in {"r", "g", "b", "anim", "phase"}, NEW v \in Byte
  PROVE  [d EXCEPT ![field] = v] \in Led
<1>1. CASE field = "r"
  BY <1>1 DEF Led
<1>2. CASE field = "g"
  BY <1>2 DEF Led
<1>3. CASE field = "b"
  BY <1>3 DEF Led
<1>4. CASE field = "anim"
  BY <1>4 DEF Led
<1>5. CASE field = "phase"
  BY <1>5 DEF Led
<1> QED
  BY <1>1, <1>2, <1>3, <1>4, <1>5

LEMMA WriteFieldDoes ==
  ASSUME BtnSound, WriteField
  PROVE  \E i \in Buttons, d \in Led :
           /\ btn' = [btn EXCEPT ![i] = d] /\ halves' = [halves EXCEPT ![i] = [dark |-> TRUE, transfers |-> 0]]
           /\ setting' = Tail(setting) /\ setting # <<>> /\ woken' \in BOOLEAN
           /\ UNCHANGED <<bright, buf, at, pixel, read, free, word, lit, plan, wanted>>
<1> DEFINE i == Head(setting)[1]
           field == Head(setting)[2]
           v == Head(setting)[3]
<1>1. /\ setting # <<>> /\ setting' = Tail(setting)
      /\ btn' = [btn EXCEPT ![i][field] = v] /\ woken' = (woken \/ field = "phase")
      /\ halves' = [halves EXCEPT ![i] = [dark |-> TRUE, transfers |-> 0]]
      /\ UNCHANGED <<bright, buf, at, pixel, read, free, word, lit, plan, wanted>>
  BY DEF WriteField
<1>2. Head(setting) \in Store
  BY <1>1, SeqTail DEF BtnSound
<1>3. i \in Buttons /\ field \in {"r", "g", "b", "anim", "phase"} /\ v \in Byte
  BY <1>2 DEF Store
<1>4. [btn[i] EXCEPT ![field] = v] \in Led
  BY <1>3, LedWritten DEF BtnSound
<1>5. woken' \in BOOLEAN
  BY <1>1
<1> HIDE DEF i, field, v
<1>6. btn' = [btn EXCEPT ![i] = [btn[i] EXCEPT ![field] = v]]
  BY <1>1, <1>3 DEF BtnSound
<1> QED
  BY <1>1, <1>3, <1>4, <1>5, <1>6

LEMMA WriteFieldSound ==
  ASSUME BtnSound, WriteField
  PROVE  BtnSound'
<1>1. PICK i \in Buttons, d \in Led :
        /\ btn' = [btn EXCEPT ![i] = d] /\ halves' = [halves EXCEPT ![i] = [dark |-> TRUE, transfers |-> 0]]
        /\ setting' = Tail(setting) /\ setting # <<>> /\ woken' \in BOOLEAN
        /\ UNCHANGED <<bright, buf, at, pixel, read, free, word, lit, plan, wanted>>
  BY WriteFieldDoes
<1>2. setting' \in Seq(Store) /\ Len(setting') <= 5
  <2>1. setting \in Seq(Store) /\ Len(setting) <= 5
    BY DEF BtnSound
  <2>2. Tail(setting) \in Seq(Store) /\ Len(Tail(setting)) = Len(setting) - 1 /\ Len(setting) \in Nat
    BY <1>1, <2>1, SeqTail
  <2> QED
    BY <1>1, <2>1, <2>2
<1>3. btn' \in [Buttons -> Led] /\ halves' \in [Buttons -> [dark: BOOLEAN, transfers: Nat]]
  BY <1>1 DEF BtnSound
<1> QED
  BY <1>1, <1>2, <1>3 DEF BtnSound

LEMMA SetBrightnessSound ==
  ASSUME BtnSound, SetBrightness
  PROVE  BtnSound'
<1>1. /\ plan # <<>> /\ plan' = Tail(plan) /\ Head(plan) \in LevelFrame /\ bright' = Head(plan).level
      /\ halves' = [i \in Buttons |-> [dark |-> TRUE, transfers |-> 0]]
      /\ UNCHANGED <<btn, buf, setting, woken, at, pixel, read, free, word, lit, wanted>>
  BY DEF SetBrightness
<1>2. plan' \in Seq(LedFrame \cup LevelFrame) /\ \E p \in Plans : Len(plan') <= Len(p)
  BY <1>1, PlanGoesOn
<1>3. bright' \in Byte
  BY <1>1 DEF LevelFrame
<1>4. halves' \in [Buttons -> [dark: BOOLEAN, transfers: Nat]]
  BY <1>1
<1> QED
  BY <1>1, <1>2, <1>3, <1>4 DEF BtnSound

LEMMA BtnTaskSound ==
  ASSUME BtnSound, BtnWake \/ ReadField \/ BtnStart
  PROVE  BtnSound'
<1>1. CASE BtnWake
  BY <1>1, ButtonFacts DEF BtnWake, BtnSound
<1>2. CASE ReadField
  <2>1. PICK k \in 1..5 :
          /\ at = Fields[k] /\ at' = Fields[k + 1]
          /\ read' = [read EXCEPT ![at] = IF at = "bright" THEN bright ELSE btn[pixel][at]]
          /\ UNCHANGED <<btn, bright, buf, setting, woken, pixel, free, word, lit, plan, wanted, halves>>
    BY <1>2 DEF ReadField
  <2>2. at' \in {"g", "b", "bright", "phase", "anim"} /\ at \in {"r", "g", "b", "bright", "phase"}
    BY <2>1 DEF Fields
  <2>3. read' \in Copy
    <3>1. btn[pixel] \in Led /\ bright \in Byte /\ read \in Copy
      BY DEF BtnSound
    <3> QED
      BY <2>1, <2>2, <3>1 DEF Copy, Led
  <2> QED
    BY <2>1, <2>2, <2>3 DEF BtnSound
<1>3. CASE BtnStart
  <2>1. /\ ~free' /\ free' \in BOOLEAN /\ word' = 0 /\ at' = "wait" /\ at = "start"
        /\ UNCHANGED <<btn, bright, buf, setting, woken, pixel, read, lit, plan, wanted, halves>>
    BY <1>3 DEF BtnStart
  <2>2. word' \in 0..NumPixels /\ word' # NumPixels
    BY <2>1, ButtonFacts
  <2> QED
    BY <2>1, <2>2 DEF BtnSound
<1> QED
  BY <1>1, <1>2, <1>3

LEMMA StorePixelDoes ==
  ASSUME BtnSound, StorePixel
  PROVE  \E ph \in {read.phase, btn[pixel].phase} :
           /\ at = "anim" /\ buf' = [buf EXCEPT ![pixel] = ComputePixel(read, btn[pixel].anim)]
           /\ btn' = [btn EXCEPT ![pixel] = [btn[pixel] EXCEPT !.phase = NextPhase(ph)]]
           /\ \/ pixel + 1 \in Buttons /\ at' = "r" /\ pixel' = pixel + 1
              \/ pixel + 1 \notin Buttons /\ at' = "start" /\ pixel' = 0
           /\ read' = Nothing /\ ph \in Byte /\ NextPhase(ph) \in Byte
           /\ UNCHANGED <<bright, setting, woken, free, word, lit, plan, wanted, halves>>
<1>1. PICK ph \in {read.phase, btn[pixel].phase} : btn' = [btn EXCEPT ![pixel].phase = NextPhase(ph)]
  BY DEF StorePixel
<1>2. ph \in Byte
  BY <1>1 DEF BtnSound, Copy, Led
<1>3. NextPhase(ph) \in Byte
  BY <1>2 DEF NextPhase, Byte
<1>4. btn' = [btn EXCEPT ![pixel] = [btn[pixel] EXCEPT !.phase = NextPhase(ph)]]
  BY <1>1
<1> QED
  BY <1>1, <1>2, <1>3, <1>4 DEF StorePixel

LEMMA StorePixelSound ==
  ASSUME BtnSound, StorePixel
  PROVE  BtnSound'
<1>1. PICK ph \in {read.phase, btn[pixel].phase} :
           /\ at = "anim" /\ buf' = [buf EXCEPT ![pixel] = ComputePixel(read, btn[pixel].anim)]
           /\ btn' = [btn EXCEPT ![pixel] = [btn[pixel] EXCEPT !.phase = NextPhase(ph)]]
           /\ \/ pixel + 1 \in Buttons /\ at' = "r" /\ pixel' = pixel + 1
              \/ pixel + 1 \notin Buttons /\ at' = "start" /\ pixel' = 0
           /\ read' = Nothing /\ ph \in Byte /\ NextPhase(ph) \in Byte
           /\ UNCHANGED <<bright, setting, woken, free, word, lit, plan, wanted, halves>>
  BY StorePixelDoes
<1>2. btn \in [Buttons -> Led] /\ pixel \in Buttons /\ read \in Copy /\ buf \in [Buttons -> Colour]
  BY DEF BtnSound
<1>3. ComputePixel(read, btn[pixel].anim) \in Colour
  BY <1>2, PictureType DEF Led
<1>4. [btn[pixel] EXCEPT !.phase = NextPhase(ph)] \in Led
  BY <1>1, <1>2 DEF Led
<1>5. btn' \in [Buttons -> Led] /\ buf' \in [Buttons -> Colour] /\ read' \in Copy
  BY <1>1, <1>2, <1>3, <1>4, ButtonFacts
<1>6. pixel' \in Buttons /\ at' \in {"r", "start"} /\ (at' = "start" => pixel' = 0)
  BY <1>1, ButtonFacts
<1> QED
  BY <1>1, <1>5, <1>6 DEF BtnSound

LEMMA BtnWordDoes ==
  ASSUME BtnSound, BtnWord
  PROVE  \E busy \in BOOLEAN :
           /\ word \in Buttons /\ word' = word + 1 /\ lit' = [lit EXCEPT ![word] = buf[word]]
           /\ free' \in BOOLEAN /\ (free' <=> word' = NumPixels)
           /\ halves' = [halves EXCEPT ![word] = SentHalf(btn[word], bright, buf[word], halves[word], busy)]
           /\ UNCHANGED <<btn, bright, buf, setting, woken, at, pixel, read, plan, wanted>>
<1> DEFINE busy == setting # <<>>
           half == SentHalf(btn[word], bright, buf[word], halves[word], busy)
<1>1. word \in 0..NumPixels /\ word < NumPixels /\ halves \in [Buttons -> [dark: BOOLEAN, transfers: Nat]]
      /\ (free <=> word = NumPixels) /\ NumPixels \in Nat
  BY ButtonFacts DEF BtnSound, BtnWord
<1>2. word \in Buttons
  BY <1>1, ButtonFacts
<1>3. free' \in BOOLEAN /\ (free' <=> word' = NumPixels)
  <2>1. free' = (free \/ word' = NumPixels) /\ ~free
    BY <1>1 DEF BtnWord
  <2> QED
    BY <2>1
<1>4. halves' = [halves EXCEPT ![word] = half]
  BY <1>2 DEF BtnWord, BtnSound, SentHalf
<1>5. /\ word' = word + 1 /\ lit' = [lit EXCEPT ![word] = buf[word]]
      /\ UNCHANGED <<btn, bright, buf, setting, woken, at, pixel, read, plan, wanted>>
  BY DEF BtnWord
<1>6. busy \in BOOLEAN
  OBVIOUS
<1> HIDE DEF busy
<1> QED
  BY <1>2, <1>3, <1>4, <1>5, <1>6

LEMMA BtnWordSound ==
  ASSUME BtnSound, BtnWord
  PROVE  BtnSound'
<1>1. PICK busy \in BOOLEAN :
           /\ word \in Buttons /\ word' = word + 1 /\ lit' = [lit EXCEPT ![word] = buf[word]]
           /\ free' \in BOOLEAN /\ (free' <=> word' = NumPixels)
           /\ halves' = [halves EXCEPT ![word] = SentHalf(btn[word], bright, buf[word], halves[word], busy)]
           /\ UNCHANGED <<btn, bright, buf, setting, woken, at, pixel, read, plan, wanted>>
  BY BtnWordDoes
<1> DEFINE half == SentHalf(btn[word], bright, buf[word], halves[word], busy)
<1>2. half \in [dark: BOOLEAN, transfers: Nat]
  <2>1. halves[word] \in [dark: BOOLEAN, transfers: Nat]
    BY <1>1 DEF BtnSound
  <2> QED
    BY <1>1, <2>1, SentHalfType
<1> HIDE DEF half
<1>0. halves' = [halves EXCEPT ![word] = half]
  BY <1>1 DEF half
<1>3. halves' \in [Buttons -> [dark: BOOLEAN, transfers: Nat]] /\ lit' \in [Buttons -> Colour]
  BY <1>0, <1>1, <1>2 DEF BtnSound
<1>4. word' \in 0..NumPixels
  BY <1>1, ButtonFacts
<1> QED
  BY <1>1, <1>3, <1>4 DEF BtnSound

LEMMA BtnSoundIsInvariant == BtnSpec => []BtnSound
<1>1. BtnInit => BtnSound
  BY BtnInitSound
<1>2. BtnSound /\ [BtnNext]_btnVars => BtnSound'
  <2> SUFFICES ASSUME BtnSound, [BtnNext]_btnVars PROVE BtnSound'
    OBVIOUS
  <2>1. CASE SetButton
    BY <2>1, SetButtonSound
  <2>2. CASE SetBrightness
    BY <2>2, SetBrightnessSound
  <2>3. CASE WriteField
    BY <2>3, WriteFieldSound
  <2>4. CASE BtnWake \/ ReadField \/ BtnStart
    BY <2>4, BtnTaskSound
  <2>5. CASE StorePixel
    BY <2>5, StorePixelSound
  <2>6. CASE BtnWord
    BY <2>6, BtnWordSound
  <2>7. CASE UNCHANGED btnVars
    BY <2>7 DEF btnVars, BtnSound
  <2> QED
    BY <2>1, <2>2, <2>3, <2>4, <2>5, <2>6, <2>7 DEF BtnNext, BtnHost, BtnTask
<1> QED
  BY <1>1, <1>2, PTL DEF BtnSpec

-----------------------------------------------------------------------------
(* The halves of a blink. *)

\* Of button i: the pictures made and not sent yet, where the channel is at word
\* w, ws2811_task at a of button p.
BehindOf(i, w, a, p) ==
  (IF w <= i THEN 1 ELSE 0) + (IF a = "start" \/ (a \notin {"wait", "start"} /\ p > i) THEN 1 ELSE 0)

\* ws2811_task has read something of it that is no longer so.
OldOf(i, a, p, copy, d, level) ==
  /\ p = i
  /\ \/ a \in {"g", "b", "bright", "phase", "anim"} /\ copy.r # d.r
     \/ a \in {"b", "bright", "phase", "anim"} /\ copy.g # d.g
     \/ a \in {"bright", "phase", "anim"} /\ copy.b # d.b
     \/ a \in {"phase", "anim"} /\ copy.bright # level
     \/ a = "anim" /\ copy.phase # d.phase

BlinkInv ==
  \A i \in Buttons :
    HalvedOf(btn[i], bright, buf[i], halves[i], BehindOf(i, word, at, pixel), OldOf(i, at, pixel, read, btn[i], bright))

LEMMA BehindType ==
  ASSUME NEW i \in Buttons, NEW w \in 0..NumPixels, NEW a, NEW p \in Buttons, NEW copy, NEW d, NEW level
  PROVE  /\ BehindOf(i, w, a, p) \in 0..2 /\ OldOf(i, a, p, copy, d, level) \in BOOLEAN
         /\ OldOf(i, a, p, copy, d, level) => BehindOf(i, w, a, p) <= 1
<1>1. BehindOf(i, w, a, p) \in 0..2 /\ OldOf(i, a, p, copy, d, level) \in BOOLEAN
  BY DEF BehindOf, OldOf
<1>2. ASSUME OldOf(i, a, p, copy, d, level) PROVE BehindOf(i, w, a, p) <= 1
  <2>1. p = i /\ a \in {"g", "b", "bright", "phase", "anim"}
    BY <1>2 DEF OldOf
  <2>2. ~ (a = "start" \/ (a \notin {"wait", "start"} /\ p > i))
    BY <2>1, ButtonFacts
  <2> QED
    BY <2>2 DEF BehindOf
<1> QED
  BY <1>1, <1>2

LEMMA HostHalves ==
  ASSUME BtnSound, BlinkInv, SetButton \/ SetBrightness \/ WriteField
  PROVE  BlinkInv'
<1>1. CASE SetButton
  BY <1>1 DEF SetButton, BlinkInv
<1>2. ASSUME NEW i \in Buttons, halves[i]'.transfers = 0, UNCHANGED <<at, pixel, word>>
      PROVE  HalvedOf(btn[i]', bright', buf[i]', halves[i]', BehindOf(i, word', at', pixel'),
                      OldOf(i, at', pixel', read', btn[i]', bright'))
  <2>1. word \in 0..NumPixels /\ pixel \in Buttons
    BY DEF BtnSound
  <2> QED
    BY <1>2, <2>1, BehindType, HalvedAnew
<1>3. CASE SetBrightness
  <2>1. \A i \in Buttons : halves[i]'.transfers = 0
    BY <1>3 DEF SetBrightness
  <2>2. UNCHANGED <<at, pixel, word>>
    BY <1>3 DEF SetBrightness
  <2> QED
    BY <1>2, <2>1, <2>2 DEF BlinkInv
<1>4. CASE WriteField
  <2>1. PICK j \in Buttons, d \in Led :
        /\ btn' = [btn EXCEPT ![j] = d] /\ halves' = [halves EXCEPT ![j] = [dark |-> TRUE, transfers |-> 0]]
        /\ setting' = Tail(setting) /\ setting # <<>> /\ woken' \in BOOLEAN
        /\ UNCHANGED <<bright, buf, at, pixel, read, free, word, lit, plan, wanted>>
    BY <1>4, WriteFieldDoes
  <2>2. ASSUME NEW i \in Buttons
        PROVE  HalvedOf(btn[i]', bright', buf[i]', halves[i]', BehindOf(i, word', at', pixel'),
                        OldOf(i, at', pixel', read', btn[i]', bright'))
    <3>1. CASE i = j
      <4>1. halves[i]'.transfers = 0
        BY <2>1, <3>1 DEF BtnSound
      <4> QED
        BY <1>2, <2>1, <4>1
    <3>2. CASE i # j
      <4>1. btn[i]' = btn[i] /\ halves[i]' = halves[i]
        BY <2>1, <3>2 DEF BtnSound
      <4> QED
        BY <2>1, <4>1 DEF BlinkInv
    <3> QED
      BY <3>1, <3>2
  <2> QED
    BY <2>2 DEF BlinkInv
<1> QED
  BY <1>1, <1>3, <1>4

LEMMA TaskHalves ==
  ASSUME BtnSound, BlinkInv, BtnWake \/ ReadField \/ BtnStart
  PROVE  BlinkInv'
<1>0. /\ btn \in [Buttons -> Led] /\ read \in Copy /\ pixel \in Buttons /\ word \in 0..NumPixels /\ NumPixels \in Nat
      /\ at \in {"wait", "start"} => pixel = 0
      /\ \A i \in Buttons : i \in Nat /\ i < NumPixels
  BY ButtonFacts DEF BtnSound
<1>1. UNCHANGED <<btn, bright, buf, halves>>
  BY DEF BtnWake, ReadField, BtnStart
<1>2. ASSUME NEW i \in Buttons
      PROVE  /\ BehindOf(i, word', at', pixel') = BehindOf(i, word, at, pixel)
             /\ OldOf(i, at', pixel', read', btn[i], bright) <=> OldOf(i, at, pixel, read, btn[i], bright)
  <2>1. CASE BtnWake
    <3>1. at = "wait" /\ at' = "r" /\ pixel' = 0 /\ word' = word /\ pixel = 0 /\ ~ (0 > i)
      BY <1>0, <2>1 DEF BtnWake
    <3>2. BehindOf(i, word', at', pixel') = BehindOf(i, word, at, pixel)
      BY <3>1 DEF BehindOf
    <3>3. ~ OldOf(i, at', pixel', read', btn[i], bright) /\ ~ OldOf(i, at, pixel, read, btn[i], bright)
      BY <3>1 DEF OldOf
    <3> QED
      BY <3>2, <3>3 DEF OldOf
  <2>2. CASE ReadField
    <3>1. PICK k \in 1..5 :
          /\ at = Fields[k] /\ at' = Fields[k + 1]
          /\ read' = [read EXCEPT ![at] = IF at = "bright" THEN bright ELSE btn[pixel][at]]
          /\ UNCHANGED <<btn, bright, buf, setting, woken, pixel, free, word, lit, plan, wanted, halves>>
      BY <2>2 DEF ReadField
    <3>2. BehindOf(i, word', at', pixel') = BehindOf(i, word, at, pixel)
      BY <3>1 DEF BehindOf, Fields
    <3>3. OldOf(i, at', pixel', read', btn[i], bright) <=> OldOf(i, at, pixel, read, btn[i], bright)
      <4>1. CASE pixel # i
        BY <3>1, <4>1 DEF OldOf
      <4>2. CASE pixel = i /\ k = 1
        <5>0. at = "r" /\ at' = "g" /\ pixel = i
          BY <3>1, <4>2 DEF Fields
        <5>1. read' = [read EXCEPT !.r = btn[i].r]
          BY <3>1, <5>0
        <5>2. read'.r = btn[i].r /\ read'.g = read.g /\ read'.b = read.b /\ read'.bright = read.bright /\ read'.phase = read.phase
          BY <1>0, <5>1 DEF Copy
        <5> QED
          BY <3>1, <4>2, <5>0, <5>2 DEF OldOf
      <4>3. CASE pixel = i /\ k = 2
        <5>0. at = "g" /\ at' = "b" /\ pixel = i
          BY <3>1, <4>3 DEF Fields
        <5>1. read' = [read EXCEPT !.g = btn[i].g]
          BY <3>1, <5>0
        <5>2. read'.g = btn[i].g /\ read'.r = read.r /\ read'.b = read.b /\ read'.bright = read.bright /\ read'.phase = read.phase
          BY <1>0, <5>1 DEF Copy
        <5> QED
          BY <3>1, <4>3, <5>0, <5>2 DEF OldOf
      <4>4. CASE pixel = i /\ k = 3
        <5>0. at = "b" /\ at' = "bright" /\ pixel = i
          BY <3>1, <4>4 DEF Fields
        <5>1. read' = [read EXCEPT !.b = btn[i].b]
          BY <3>1, <5>0
        <5>2. read'.b = btn[i].b /\ read'.r = read.r /\ read'.g = read.g /\ read'.bright = read.bright /\ read'.phase = read.phase
          BY <1>0, <5>1 DEF Copy
        <5> QED
          BY <3>1, <4>4, <5>0, <5>2 DEF OldOf
      <4>5. CASE pixel = i /\ k = 4
        <5>0. at = "bright" /\ at' = "phase" /\ pixel = i
          BY <3>1, <4>5 DEF Fields
        <5>1. read' = [read EXCEPT !.bright = bright]
          BY <3>1, <5>0
        <5>2. read'.bright = bright /\ read'.r = read.r /\ read'.g = read.g /\ read'.b = read.b /\ read'.phase = read.phase
          BY <1>0, <5>1 DEF Copy
        <5> QED
          BY <3>1, <4>5, <5>0, <5>2 DEF OldOf
      <4>6. CASE pixel = i /\ k = 5
        <5>0. at = "phase" /\ at' = "anim" /\ pixel = i
          BY <3>1, <4>6 DEF Fields
        <5>1. read' = [read EXCEPT !.phase = btn[i].phase]
          BY <3>1, <5>0
        <5>2. read'.phase = btn[i].phase /\ read'.r = read.r /\ read'.g = read.g /\ read'.b = read.b /\ read'.bright = read.bright
          BY <1>0, <5>1 DEF Copy
        <5> QED
          BY <3>1, <4>6, <5>0, <5>2 DEF OldOf
      <4> QED
        BY <3>1, <4>1, <4>2, <4>3, <4>4, <4>5, <4>6
    <3> QED
      BY <3>2, <3>3
  <2>3. CASE BtnStart
    <3>1. at = "start" /\ at' = "wait" /\ pixel' = pixel /\ word' = 0 /\ word = NumPixels
      BY <2>3 DEF BtnStart, BtnSound
    <3>2. word' <= i /\ ~ (word <= i)
      BY <1>0, <3>1
    <3>3. BehindOf(i, word', at', pixel') = BehindOf(i, word, at, pixel)
      BY <3>1, <3>2 DEF BehindOf
    <3>4. ~ OldOf(i, at', pixel', read', btn[i], bright) /\ ~ OldOf(i, at, pixel, read, btn[i], bright)
      BY <3>1 DEF OldOf
    <3> QED
      BY <3>3, <3>4 DEF OldOf
  <2> QED
    BY <2>1, <2>2, <2>3
<1>3. ASSUME NEW i \in Buttons
      PROVE  HalvedOf(btn[i]', bright', buf[i]', halves[i]', BehindOf(i, word', at', pixel'),
                      OldOf(i, at', pixel', read', btn[i]', bright'))
  <2>1. HalvedOf(btn[i], bright, buf[i], halves[i], BehindOf(i, word', at', pixel'),
                 OldOf(i, at, pixel, read, btn[i], bright))
    BY <1>2 DEF BlinkInv
  <2>2. HalvedOf(btn[i], bright, buf[i], halves[i], BehindOf(i, word', at', pixel'),
                 OldOf(i, at', pixel', read', btn[i], bright))
    BY <1>2, <2>1, HalvedSame
  <2> QED
    BY <1>1, <2>2
<1> QED
  BY <1>3 DEF BlinkInv

LEMMA StoreHalves ==
  ASSUME BtnSound, BlinkInv, StorePixel
  PROVE  BlinkInv'
<1>0. /\ btn \in [Buttons -> Led] /\ read \in Copy /\ pixel \in Buttons /\ word \in 0..NumPixels /\ bright \in Byte
      /\ buf \in [Buttons -> Colour] /\ halves \in [Buttons -> [dark: BOOLEAN, transfers: Nat]]
      /\ \A i \in Buttons : i \in Nat /\ i < NumPixels
      /\ NumPixels \in Nat
  BY ButtonFacts DEF BtnSound
<1>1. PICK ph \in {read.phase, btn[pixel].phase} :
           /\ at = "anim" /\ buf' = [buf EXCEPT ![pixel] = ComputePixel(read, btn[pixel].anim)]
           /\ btn' = [btn EXCEPT ![pixel] = [btn[pixel] EXCEPT !.phase = NextPhase(ph)]]
           /\ \/ pixel + 1 \in Buttons /\ at' = "r" /\ pixel' = pixel + 1
              \/ pixel + 1 \notin Buttons /\ at' = "start" /\ pixel' = 0
           /\ read' = Nothing /\ ph \in Byte /\ NextPhase(ph) \in Byte
           /\ UNCHANGED <<bright, setting, woken, free, word, lit, plan, wanted, halves>>
  BY StorePixelDoes
<1>2. ASSUME NEW i \in Buttons, NEW d, NEW level PROVE ~ OldOf(i, at', pixel', read', d, level)
  BY <1>1 DEF OldOf
<1>3. ASSUME NEW i \in Buttons, i # pixel PROVE BehindOf(i, word', at', pixel') = BehindOf(i, word, at, pixel)
  <2>1. CASE pixel + 1 \in Buttons /\ at' = "r" /\ pixel' = pixel + 1
    <3>0. pixel \in Nat /\ i \in Nat /\ pixel' = pixel + 1
      BY <1>0, <2>1
    <3>1. pixel' > i <=> pixel > i
      BY <1>3, <3>0
    <3> QED
      BY <1>1, <2>1, <3>1 DEF BehindOf
  <2>2. CASE pixel + 1 \notin Buttons /\ at' = "start" /\ pixel' = 0
    <3>1. pixel + 1 = NumPixels
      BY <1>0, <2>2 DEF Buttons
    <3>2. pixel > i
      BY <1>0, <1>3, <3>1
    <3> QED
      BY <1>1, <2>2, <3>2 DEF BehindOf
  <2> QED
    BY <1>1, <2>1, <2>2
<1>4. BehindOf(pixel, word', at', pixel') = BehindOf(pixel, word, at, pixel) + 1 /\ BehindOf(pixel, word, at, pixel) \in 0..1
  <2>1. ~ (pixel > pixel) /\ pixel + 1 > pixel
    BY <1>0
  <2> QED
    BY <1>1, <2>1 DEF BehindOf
<1>5. ASSUME NEW i \in Buttons
      PROVE  HalvedOf(btn[i]', bright', buf[i]', halves[i]', BehindOf(i, word', at', pixel'),
                      OldOf(i, at', pixel', read', btn[i]', bright'))
  <2>1. CASE i # pixel
    <3>1. btn[i]' = btn[i] /\ buf[i]' = buf[i] /\ halves[i]' = halves[i] /\ bright' = bright
      BY <1>0, <1>1, <2>1
    <3>2. ~ OldOf(i, at', pixel', read', btn[i], bright) /\ ~ OldOf(i, at, pixel, read, btn[i], bright)
      BY <1>2, <2>1 DEF OldOf
    <3>3. HalvedOf(btn[i], bright, buf[i], halves[i], BehindOf(i, word, at, pixel),
                   OldOf(i, at, pixel, read, btn[i], bright))
      BY DEF BlinkInv
    <3>4. HalvedOf(btn[i], bright, buf[i], halves[i], BehindOf(i, word, at, pixel),
                   OldOf(i, at', pixel', read', btn[i], bright))
      BY <3>2, <3>3, HalvedSame
    <3> QED
      BY <1>3, <2>1, <3>1, <3>4
  <2>2. CASE i = pixel
    <3> DEFINE d == btn[i]
               d2 == btn'[i]
               old == OldOf(i, at, pixel, read, btn[i], bright)
               b == BehindOf(i, word, at, pixel)
               n == BehindOf(i, word', at', pixel')
               y == OldOf(i, at', pixel', read', btn'[i], bright')
               new == ComputePixel(read, btn[i].anim)
    <3>1. d \in Led /\ d2 = [d EXCEPT !.phase = NextPhase(ph)]
      BY <1>0, <1>1, <2>2
    <3>2. HalvedOf(d, bright, buf[i], halves[i], b, old)
      BY DEF BlinkInv
    <3>3. ~old => read.r = d.r /\ read.g = d.g /\ read.b = d.b /\ read.bright = bright /\ read.phase = d.phase /\ ph = d.phase
      BY <1>1, <2>2 DEF OldOf
    <3>4. halves[i] \in [dark: BOOLEAN, transfers: Nat]
      BY <1>0
    <3>5. old \in BOOLEAN /\ y \in BOOLEAN
      BY DEF OldOf
    <3>6. buf'[i] = new /\ halves'[i] = halves[i] /\ bright' = bright /\ ph \in Byte
      BY <1>0, <1>1, <2>2
    <3>7. b \in 0..1 /\ n = b + 1
      BY <1>4, <2>2
    <3>8. ~y
      BY <1>2
    <3>9. new = ComputePixel(read, d.anim) /\ bright \in Byte
      BY <1>0
    <3> HIDE DEF d, d2, old, b, n, y, new
    <3>10. HalvedOf(d2, bright, ComputePixel(read, d.anim), halves[i], b + 1, FALSE)
      BY <3>1, <3>2, <3>3, <3>4, <3>5, <3>6, <3>7, <3>9, HalvedStored
    <3>11. HalvedOf(d2, bright, ComputePixel(read, d.anim), halves[i], b + 1, y)
      BY <3>8, <3>10, HalvedSame
    <3>12. HalvedOf(d2, bright', buf'[i], halves'[i], n, y)
      BY <3>6, <3>7, <3>9, <3>11
    <3> QED
      BY <3>12 DEF d2, n, y
  <2> QED
    BY <2>1, <2>2
<1> QED
  BY <1>5 DEF BlinkInv

LEMMA WordHalves ==
  ASSUME BtnSound, BlinkInv, BtnWord
  PROVE  BlinkInv'
<1>1. PICK busy \in BOOLEAN :
           /\ word \in Buttons /\ word' = word + 1 /\ lit' = [lit EXCEPT ![word] = buf[word]]
           /\ free' \in BOOLEAN /\ (free' <=> word' = NumPixels)
           /\ halves' = [halves EXCEPT ![word] = SentHalf(btn[word], bright, buf[word], halves[word], busy)]
           /\ UNCHANGED <<btn, bright, buf, setting, woken, at, pixel, read, plan, wanted>>
  BY BtnWordDoes
<1> DEFINE half == SentHalf(btn[word], bright, buf[word], halves[word], busy)
<1>0. halves' = [halves EXCEPT ![word] = half]
  BY <1>1
<1>2. /\ halves \in [Buttons -> [dark: BOOLEAN, transfers: Nat]] /\ pixel \in Buttons /\ word \in 0..NumPixels
      /\ word \in Nat /\ \A i \in Buttons : i \in Nat
  BY <1>1, ButtonFacts DEF BtnSound
<1>3. ASSUME NEW i \in Buttons
      PROVE  HalvedOf(btn[i]', bright', buf[i]', halves[i]', BehindOf(i, word', at', pixel'),
                      OldOf(i, at', pixel', read', btn[i]', bright'))
  <2> DEFINE old == OldOf(i, at, pixel, read, btn[i], bright)
             b == BehindOf(i, word, at, pixel)
             n == BehindOf(i, word', at', pixel')
  <2>1. HalvedOf(btn[i], bright, buf[i], halves[i], b, old)
    BY DEF BlinkInv
  <2>2. b \in 0..2 /\ old \in BOOLEAN /\ (old => b <= 1)
    BY <1>2, BehindType
  <2>3. CASE i # word
    <3>1. word + 1 <= i <=> word <= i
      BY <1>2, <2>3
    <3>2. n = b
      BY <1>1, <3>1 DEF BehindOf
    <3>3. halves'[i] = halves[i]
      BY <1>0, <1>2, <2>3
    <3> HIDE DEF b, n
    <3> QED
      BY <1>1, <2>1, <3>2, <3>3 DEF n
  <2>4. CASE i = word
    <3>1. ~ (word + 1 <= i) /\ word <= i
      BY <1>2, <2>4
    <3>2. b \in 1..2 /\ n = b - 1
      BY <1>1, <3>1 DEF BehindOf
    <3>3. halves'[i] = half
      BY <1>0, <1>2, <2>4
    <3>4. half = SentHalf(btn[i], bright, buf[i], halves[i], busy)
      BY <2>4
    <3>5. halves[i] \in [dark: BOOLEAN, transfers: Nat]
      BY <1>2
    <3> HIDE DEF b, n, old, half
    <3>6. busy \in BOOLEAN /\ old \in BOOLEAN /\ b \in 1..2
      BY <1>1, <2>2, <3>2
    <3>7. HalvedOf(btn[i], bright, buf[i], half, b - 1, old)
      BY <2>1, <2>2, <3>4, <3>5, <3>6, HalvedSent
    <3> QED
      BY <1>1, <3>2, <3>3, <3>7 DEF n, old
  <2> QED
    BY <2>3, <2>4
<1> QED
  BY <1>3 DEF BlinkInv

LEMMA BlinkInitInv ==
  ASSUME BtnInit, BtnSound
  PROVE  BlinkInv
<1>1. pixel \in Buttons /\ word \in 0..NumPixels
  BY DEF BtnSound
<1>2. ASSUME NEW i \in Buttons PROVE halves[i].transfers = 0
  BY <1>2 DEF BtnInit
<1>3. ASSUME NEW i \in Buttons
      PROVE  HalvedOf(btn[i], bright, buf[i], halves[i], BehindOf(i, word, at, pixel),
                      OldOf(i, at, pixel, read, btn[i], bright))
  BY <1>1, <1>2, BehindType, HalvedAnew
<1> QED
  BY <1>3 DEF BlinkInv

LEMMA BlinkInvIsInvariant == BtnSpec => [](BtnSound /\ BlinkInv)
<1>1. BtnInit => BtnSound /\ BlinkInv
  BY BtnInitSound, BlinkInitInv
<1>2. BtnSound /\ BlinkInv /\ [BtnNext]_btnVars => BlinkInv'
  <2> SUFFICES ASSUME BtnSound, BlinkInv, [BtnNext]_btnVars PROVE BlinkInv'
    OBVIOUS
  <2>1. CASE SetButton \/ SetBrightness \/ WriteField
    BY <2>1, HostHalves
  <2>2. CASE BtnWake \/ ReadField \/ BtnStart
    BY <2>2, TaskHalves
  <2>3. CASE StorePixel
    BY <2>3, StoreHalves
  <2>4. CASE BtnWord
    BY <2>4, WordHalves
  <2>5. CASE UNCHANGED btnVars
    BY <2>5 DEF btnVars, BlinkInv
  <2> QED
    BY <2>1, <2>2, <2>3, <2>4, <2>5 DEF BtnNext, BtnHost, BtnTask
<1>3. BtnSpec => []BtnSound
  BY BtnSoundIsInvariant
<1> QED
  BY <1>1, <1>2, <1>3, PTL DEF BtnSpec

LEMMA HalvesEnd ==
  ASSUME BtnSound, BlinkInv, NEW i \in Buttons
  PROVE  halves[i].transfers <= CASE btn[i].anim = BlinkSlow -> 13
                                  [] btn[i].anim = BlinkFast -> 5
                                  [] OTHER                   -> 0
<1>1. /\ halves[i] \in [dark: BOOLEAN, transfers: Nat] /\ pixel \in Buttons /\ word \in 0..NumPixels
  BY DEF BtnSound
<1>2. HalvedOf(btn[i], bright, buf[i], halves[i], BehindOf(i, word, at, pixel),
               OldOf(i, at, pixel, read, btn[i], bright))
  BY DEF BlinkInv
<1> QED
  BY <1>1, <1>2, BehindType, HalvedBound

\* TypeOK of the buttons, at any number of pixels and for any frames the Pi may
\* send: torn and wrapped as they are, the fields stay bytes, the notification
\* and the semaphore are given and taken in turn, and the channel never runs
\* past the buffer (led_ws2811.c).
THEOREM ButtonsTypeCorrect == BtnSpec => []BtnTypeOK
<1>1. ASSUME BtnSound, BlinkInv PROVE BtnTypeOK
  <2>1. ASSUME NEW i \in Buttons PROVE halves[i].dark \in BOOLEAN /\ halves[i].transfers \in 0..13
    <3>1. halves[i] \in [dark: BOOLEAN, transfers: Nat]
      BY <1>1 DEF BtnSound
    <3>2. PICK m \in Nat : m = halves[i].transfers
      BY <3>1
    <3>3. m <= CASE btn[i].anim = BlinkSlow -> 13 [] btn[i].anim = BlinkFast -> 5 [] OTHER -> 0
      BY <1>1, <3>2, HalvesEnd
    <3>4. m <= 13
      BY <3>3
    <3> QED
      BY <3>1, <3>2, <3>4
  <2>2. ASSUME NEW i \in Buttons PROVE halves[i] \in [dark: BOOLEAN, transfers: 0..13]
    <3>1. halves[i] \in [dark: BOOLEAN, transfers: Nat]
      BY <1>1 DEF BtnSound
    <3> QED
      BY <2>1, <3>1, Zenon
  <2>3. halves \in [Buttons -> [dark: BOOLEAN, transfers: 0..13]]
    BY <1>1, <2>2 DEF BtnSound
  <2> QED
    BY <1>1, <2>3 DEF BtnSound, BtnTypeOK, Led, Colour, Copy
<1> QED
  BY <1>1, BlinkInvIsInvariant, PTL

\* BlinkHalves at any number of pixels and for any commands, in any order and at
\* any time: no half of a blink lasts more than three transfers too long, with
\* ws2811_task reading and advancing a phase that cdc_task resets on the other
\* core (led_ws2811_set_button, compute_pixel, ws2811_task).
THEOREM BlinksInTime == BtnSpec => []BlinkHalves
<1>1. BtnSound /\ BlinkInv => BlinkHalves
  BY HalvesEnd DEF BlinkHalves
<1> QED
  BY <1>1, BlinkInvIsInvariant, PTL

-----------------------------------------------------------------------------
(* The display: a call is a list of windows, an induction over the list     *)
(* makes what it paints the union of what the windows paint (FlattenPaints), *)
(* and each kind of window paints its box of the panel (PixelsOfBox).        *)

\* Induction over the natural numbers, stated for a set: the least number outside.
LEMMA LeastNat ==
  ASSUME NEW T, T \subseteq Nat, T # {}
  PROVE  \E x \in T : \A y \in T : x <= y
<1> DEFINE R == {ss \in Nat \X Nat : ss[1] < ss[2]}
<1>1. IsWellFoundedOn(R, Nat)
  BY NatLessThanWellFounded DEF OpToRel
<1>2. \E x \in T : \A y \in T : ~ (<<y, x>> \in R)
  <2> HIDE DEF R
  <2> QED
    BY <1>1, WFMin, Zenon
<1>3. PICK x \in T : \A y \in T : ~ (<<y, x>> \in R)
  BY <1>2
<1>4. ASSUME NEW y \in T PROVE x <= y
  <2>1. x \in Nat /\ y \in Nat
    OBVIOUS
  <2>2. <<y, x>> \notin R
    BY <1>3
  <2>3. ~ (y < x)
    BY <2>1, <2>2
  <2> QED
    BY <2>1, <2>3
<1> QED
  BY <1>4

LEMMA SetInduction ==
  ASSUME NEW S, 0 \in S, \A n \in Nat : n \in S => n + 1 \in S
  PROVE  Nat \subseteq S
<1> SUFFICES ASSUME Nat \ S # {} PROVE FALSE
  OBVIOUS
<1>1. PICK x \in Nat \ S : \A y \in Nat \ S : x <= y
  BY LeastNat
<1>2. x # 0 /\ x - 1 \in Nat
  BY <1>1
<1>3. x - 1 \in S
  BY <1>1, <1>2
<1> QED
  BY <1>1, <1>2, <1>3

\* The pixels of a box, row by row.
LEMMA DivOfRow ==
  ASSUME NEW w \in Nat \ {0}, NEW i \in 0..(w - 1), NEW j \in Nat
  PROVE  (j * w + i) % w = i /\ (j * w + i) \div w = j
<1>1. i + w * j = j * w + i /\ j * w \in Nat
  OBVIOUS
<1> DEFINE k == j * w + i
           q == k \div w
<1>2. k \in Nat /\ q \in Int /\ k = w * q + (k % w) /\ k % w \in 0..(w - 1)
  OBVIOUS
<1>3. w * q <= w * j + i /\ w * j <= w * q + (w - 1)
  BY <1>2
<1>4. w * (q - j) < w /\ w * (j - q) < w
  BY <1>2, <1>3
<1>5. q - j < 1 /\ j - q < 1
  BY <1>2, <1>4
<1> QED
  BY <1>2, <1>5

LEMMA RowOfDiv ==
  ASSUME NEW w \in Nat \ {0}, NEW h \in Nat, NEW k \in 0..(w * h - 1)
  PROVE  k % w \in 0..(w - 1) /\ k \div w \in 0..(h - 1) /\ k = (k \div w) * w + (k % w)
<1> DEFINE q == k \div w
<1>1. k \in Nat /\ q \in Nat /\ k = w * q + (k % w) /\ k % w \in 0..(w - 1)
  OBVIOUS
<1>2. w * q < w * h
  BY <1>1
<1>3. q < h
  BY <1>1, <1>2
<1> QED
  BY <1>1, <1>3

Window == [x0: 0..255, y0: 0..255, x1: 0..255, y1: 0..255, n: Nat, colour: {"fg", "bg"}]

\* The windows paint the point <<a, b>> of the panel in a colour.
Paints(fs, a, b, colour) ==
  \E k \in DOMAIN fs : <<a + XStart, b + YStart>> \in Pixels(fs[k]) /\ fs[k].colour = colour

\* They are windows that paint nothing outside the panel.
OnPanel(fs) ==
  /\ fs \in Seq(Window)
  /\ \A k \in DOMAIN fs : \A p \in Pixels(fs[k]) :
       \E a \in 0..(Width - 1), b \in 0..(Height - 1) : p = <<a + XStart, b + YStart>>

\* The pixels of a box of the panel.
Fills(f, x, y, w, h) ==
  \A p : p \in Pixels(f) <=> \E a \in x..(x + w - 1), b \in y..(y + h - 1) : p = <<a + XStart, b + YStart>>

\* Nothing but a rectangle is painted, of the part of it on the panel.
PaintsRect(fs, x, y, w, h, colour) ==
  /\ OnPanel(fs)
  /\ \A a \in 0..(Width - 1), b \in 0..(Height - 1) : \A c :
       Paints(fs, a, b, c) <=> c = colour /\ x <= a /\ a < x + w /\ y <= b /\ b < y + h

\* The window of a box of the panel.
BoxFlood(x, y, w, h, colour) == Flood(x, y, x + w - 1, y + h - 1, w * h, colour)

LEMMA PixelsOfBox ==
  ASSUME NEW x \in 0..(Width - 1), NEW y \in 0..(Height - 1), NEW w \in Nat \ {0}, NEW h \in Nat \ {0},
         x + w <= Width, y + h <= Height, NEW colour \in {"fg", "bg"}, NEW f,
         f = BoxFlood(x, y, w, h, colour)
  PROVE  f \in Window /\ f.colour = colour /\ Fills(f, x, y, w, h)
<1>1. /\ Width \in 1..128 /\ Height \in 1..128 /\ XStart \in 0..4 /\ YStart \in 0..4
  BY TftAssumption
<1>2. /\ (x + XStart) % 256 = x + XStart /\ (y + YStart) % 256 = y + YStart
      /\ (x + w - 1 + XStart) % 256 = x + w - 1 + XStart /\ (y + h - 1 + YStart) % 256 = y + h - 1 + YStart
  BY <1>1
<1>3. /\ f.x0 = x + XStart /\ f.y0 = y + YStart /\ f.x1 = x + w - 1 + XStart /\ f.y1 = y + h - 1 + YStart
      /\ f.n = w * h /\ f.colour = colour
  BY <1>2 DEF BoxFlood, Flood
<1>4. w * h \in Nat
  OBVIOUS
<1>5. f \in Window
  BY <1>1, <1>2, <1>4 DEF BoxFlood, Flood, Window
<1>6. f.x1 - f.x0 + 1 = w /\ f.y1 - f.y0 + 1 = h
  BY <1>1, <1>3
<1>7. Pixels(f) = {<<x + XStart + (k % w), y + YStart + ((k \div w) % h)>> : k \in 0..(w * h - 1)}
  <2> DEFINE Box(x0, y0, v, u, n) == {<<x0 + (k % v), y0 + ((k \div v) % u)>> : k \in 0..(n - 1)}
  <2>1. Pixels(f) = Box(f.x0, f.y0, f.x1 - f.x0 + 1, f.y1 - f.y0 + 1, f.n)
    BY Zenon DEF Pixels
  <2> HIDE DEF Box
  <2>2. Pixels(f) = Box(x + XStart, y + YStart, w, h, w * h)
    BY <1>3, <1>6, <2>1
  <2> QED
    BY <2>2 DEF Box
<1>8. ASSUME NEW k \in 0..(w * h - 1)
      PROVE  \E a \in x..(x + w - 1), b \in y..(y + h - 1) :
               <<x + XStart + (k % w), y + YStart + ((k \div w) % h)>> = <<a + XStart, b + YStart>>
  <2> DEFINE i == k % w
             j == k \div w
  <2>1. i \in 0..(w - 1) /\ j \in 0..(h - 1)
    BY RowOfDiv
  <2> HIDE DEF i, j
  <2>2. j % h = j
    BY <2>1
  <2>3. x + i \in x..(x + w - 1) /\ y + j \in y..(y + h - 1) /\ x + XStart + i = x + i + XStart /\ y + YStart + j = y + j + YStart
    BY <1>1, <2>1
  <2>4. <<x + XStart + i, y + YStart + (j % h)>> = <<(x + i) + XStart, (y + j) + YStart>>
    BY <2>2, <2>3
  <2> QED
    BY <2>3, <2>4 DEF i, j
<1>9. ASSUME NEW a \in x..(x + w - 1), NEW b \in y..(y + h - 1)
      PROVE  <<a + XStart, b + YStart>> \in Pixels(f)
  <2> DEFINE i == a - x
             j == b - y
             k == j * w + i
  <2>1. i \in 0..(w - 1) /\ j \in 0..(h - 1) /\ j \in Nat
    OBVIOUS
  <2>2. k % w = i /\ k \div w = j
    BY <2>1, DivOfRow
  <2>3. j * w <= (h - 1) * w
    BY <2>1
  <2>4. (h - 1) * w = w * h - w /\ k \in 0..(w * h - 1)
    BY <2>1, <2>3
  <2>5. j % h = j
    BY <2>1
  <2>6. <<x + XStart + (k % w), y + YStart + ((k \div w) % h)>> = <<a + XStart, b + YStart>>
    BY <1>1, <2>2, <2>5
  <2> HIDE DEF k
  <2> QED
    BY <1>7, <2>4, <2>6
<1>10. ASSUME NEW p PROVE p \in Pixels(f) <=> \E a \in x..(x + w - 1), b \in y..(y + h - 1) : p = <<a + XStart, b + YStart>>
  <2>1. ASSUME p \in Pixels(f) PROVE \E a \in x..(x + w - 1), b \in y..(y + h - 1) : p = <<a + XStart, b + YStart>>
    <3>1. PICK k \in 0..(w * h - 1) : p = <<x + XStart + (k % w), y + YStart + ((k \div w) % h)>>
      BY <1>7, <2>1
    <3> QED
      BY <1>8, <3>1
  <2> QED
    BY <1>9, <2>1
<1>11. Fills(f, x, y, w, h)
  BY <1>10 DEF Fills
<1> QED
  BY <1>3, <1>5, <1>11

LEMMA AlignedPoint ==
  ASSUME NEW a \in Int, NEW b \in Int, NEW i \in Int, NEW j \in Int, <<a + XStart, b + YStart>> = <<i + XStart, j + YStart>>
  PROVE  a = i /\ b = j
<1>1. XStart \in Int /\ YStart \in Int
  BY TftAssumption
<1>2. a + XStart = i + XStart /\ b + YStart = j + YStart
  OBVIOUS
<1> QED
  BY <1>1, <1>2

LEMMA NothingPainted ==
  OnPanel(<<>>) /\ \A a, b, c : ~ Paints(<<>>, a, b, c)
BY DEF OnPanel, Paints

\* One window.
LEMMA BoxPaints ==
  ASSUME NEW x \in 0..(Width - 1), NEW y \in 0..(Height - 1), NEW w \in Nat \ {0}, NEW h \in Nat \ {0},
         x + w <= Width, y + h <= Height, NEW colour \in {"fg", "bg"},
         NEW fs, fs = <<Flood(x, y, x + w - 1, y + h - 1, w * h, colour)>>
  PROVE  PaintsRect(fs, x, y, w, h, colour)
<1> DEFINE f == Flood(x, y, x + w - 1, y + h - 1, w * h, colour)
<1>0. Width \in 1..128 /\ Height \in 1..128
  BY TftAssumption
<1>1. fs = <<f>> /\ f = BoxFlood(x, y, w, h, colour)
  BY DEF BoxFlood
<1> HIDE DEF f
<1>2. f \in Window /\ f.colour = colour /\ Fills(f, x, y, w, h)
  BY <1>1, PixelsOfBox
<1>3. fs \in Seq(Window) /\ DOMAIN fs = {1} /\ fs[1] = f
  BY <1>2, <1>1
<1>4. OnPanel(fs)
  <2>1. ASSUME NEW p \in Pixels(f) PROVE \E a \in 0..(Width - 1), b \in 0..(Height - 1) : p = <<a + XStart, b + YStart>>
    <3>1. PICK a \in x..(x + w - 1), b \in y..(y + h - 1) : p = <<a + XStart, b + YStart>>
      BY <1>2, <2>1 DEF Fills
    <3>2. a \in 0..(Width - 1) /\ b \in 0..(Height - 1)
      BY <1>0
    <3> QED
      BY <3>1, <3>2
  <2> QED
    BY <1>3, <2>1 DEF OnPanel
<1>5. ASSUME NEW a \in 0..(Width - 1), NEW b \in 0..(Height - 1)
      PROVE  <<a + XStart, b + YStart>> \in Pixels(f) <=> x <= a /\ a < x + w /\ y <= b /\ b < y + h
  <2>1. ASSUME <<a + XStart, b + YStart>> \in Pixels(f) PROVE x <= a /\ a < x + w /\ y <= b /\ b < y + h
    <3>1. PICK i \in x..(x + w - 1), j \in y..(y + h - 1) : <<a + XStart, b + YStart>> = <<i + XStart, j + YStart>>
      BY <1>2, <2>1 DEF Fills
    <3>2. a = i /\ b = j
      BY <1>0, <3>1, AlignedPoint
    <3> QED
      BY <3>2
  <2>2. ASSUME x <= a /\ a < x + w /\ y <= b /\ b < y + h PROVE <<a + XStart, b + YStart>> \in Pixels(f)
    <3>1. a \in x..(x + w - 1) /\ b \in y..(y + h - 1)
      BY <1>0, <2>2
    <3> QED
      BY <1>2, <3>1 DEF Fills
  <2> QED
    BY <2>1, <2>2
<1> QED
  BY <1>2, <1>3, <1>4, <1>5 DEF Paints, PaintsRect

\* A rectangle, clipped or not.
LEMMA RectPaints ==
  ASSUME NEW x \in Int, NEW y \in Int, NEW w \in Int, NEW h \in Int, NEW colour \in {"fg", "bg"}
  PROVE  PaintsRect(FillRect(x, y, w, h, colour), x, y, w, h, colour)
<1> DEFINE cx == IF x < 0 THEN 0 ELSE x
           cy == IF y < 0 THEN 0 ELSE y
           w1 == IF x < 0 THEN w + x ELSE w
           h1 == IF y < 0 THEN h + y ELSE h
           cw == IF cx + w1 > Width THEN Width - cx ELSE w1
           ch == IF cy + h1 > Height THEN Height - cy ELSE h1
           fs == FillRect(x, y, w, h, colour)
<1>0. Width \in 1..128 /\ Height \in 1..128
  BY TftAssumption
<1>1. cx \in Int /\ cy \in Int /\ w1 \in Int /\ h1 \in Int /\ cw \in Int /\ ch \in Int
  BY <1>0
<1>2. CASE x >= Width \/ y >= Height \/ w1 <= 0 \/ h1 <= 0
  <2>1. fs = <<>>
    BY <1>2 DEF FillRect
  <2>2. ASSUME NEW a \in 0..(Width - 1), NEW b \in 0..(Height - 1) PROVE ~ (x <= a /\ a < x + w /\ y <= b /\ b < y + h)
    BY <1>0, <1>2
  <2> HIDE DEF fs
  <2>3. OnPanel(fs) /\ \A a, b, c : ~ Paints(fs, a, b, c)
    BY <2>1, NothingPainted
  <2> QED
    BY <2>2, <2>3 DEF fs, PaintsRect
<1>3. CASE ~ (x >= Width \/ y >= Height \/ w1 <= 0 \/ h1 <= 0)
  <2>1. fs = <<Flood(cx, cy, cx + cw - 1, cy + ch - 1, cw * ch, colour)>>
    BY <1>3 DEF FillRect
  <2>2. /\ cx \in 0..(Width - 1) /\ cy \in 0..(Height - 1) /\ cw \in Nat \ {0} /\ ch \in Nat \ {0}
        /\ cx + cw <= Width /\ cy + ch <= Height
    BY <1>0, <1>1, <1>3
  <2>3. ASSUME NEW a \in 0..(Width - 1), NEW b \in 0..(Height - 1)
        PROVE  (cx <= a /\ a < cx + cw /\ cy <= b /\ b < cy + ch) <=> (x <= a /\ a < x + w /\ y <= b /\ b < y + h)
    BY <1>0, <1>1, <1>3
  <2> HIDE DEF cx, cy, cw, ch, fs
  <2>4. PaintsRect(fs, cx, cy, cw, ch, colour)
    BY <2>1, <2>2, BoxPaints
  <2> QED
    BY <2>3, <2>4 DEF fs, PaintsRect
<1> QED
  BY <1>2, <1>3

LEMMA PixelPaints ==
  ASSUME NEW x \in Int, NEW y \in Int, NEW colour \in {"fg", "bg"}
  PROVE  PaintsRect(DrawPixel(x, y, colour), x, y, 1, 1, colour)
<1> DEFINE fs == DrawPixel(x, y, colour)
<1>0. Width \in 1..128 /\ Height \in 1..128
  BY TftAssumption
<1>1. CASE x < 0 \/ x >= Width \/ y < 0 \/ y >= Height
  <2>1. fs = <<>> /\ \A a \in 0..(Width - 1), b \in 0..(Height - 1) : ~ (x <= a /\ a < x + 1 /\ y <= b /\ b < y + 1)
    BY <1>0, <1>1 DEF DrawPixel
  <2> HIDE DEF fs
  <2>2. OnPanel(fs) /\ \A a, b, c : ~ Paints(fs, a, b, c)
    BY <2>1, NothingPainted
  <2> QED
    BY <2>1, <2>2 DEF fs, PaintsRect
<1>2. CASE ~ (x < 0 \/ x >= Width \/ y < 0 \/ y >= Height)
  <2>1. x \in 0..(Width - 1) /\ y \in 0..(Height - 1) /\ x + 1 - 1 = x /\ y + 1 - 1 = y
    BY <1>0, <1>2
  <2>2. fs = <<Flood(x, y, x + 1 - 1, y + 1 - 1, 1 * 1, colour)>>
    BY <1>2, <2>1 DEF DrawPixel
  <2> HIDE DEF fs
  <2>3. x + 1 <= Width /\ y + 1 <= Height
    BY <1>0, <2>1
  <2>4. PaintsRect(fs, x, y, 1, 1, colour)
    BY <2>1, <2>2, <2>3, BoxPaints
  <2> QED
    BY <2>4 DEF fs
<1> QED
  BY <1>1, <1>2

-----------------------------------------------------------------------------
\* Windows one after the other.

LEMMA ListOf ==
  ASSUME NEW T, NEW n \in Nat, NEW s \in [1..n -> T]
  PROVE  s \in Seq(T) /\ Len(s) = n
OBVIOUS

LEMMA ConcatPaints ==
  ASSUME NEW s, NEW t, OnPanel(s), OnPanel(t)
  PROVE  /\ OnPanel(s \o t)
         /\ \A a, b, c : Paints(s \o t, a, b, c) <=> Paints(s, a, b, c) \/ Paints(t, a, b, c)
<1> DEFINE u == s \o t
           m == Len(s)
           n == Len(t)
<1>1. /\ s \in Seq(Window) /\ t \in Seq(Window) /\ u \in Seq(Window)
      /\ m \in Nat /\ n \in Nat /\ Len(u) = m + n
      /\ DOMAIN s = 1..m /\ DOMAIN t = 1..n /\ DOMAIN u = 1..(m + n)
  BY DEF OnPanel
<1>2. \A k \in 1..(m + n) : u[k] = IF k <= m THEN s[k] ELSE t[k - m]
  BY <1>1
<1> HIDE DEF u, m, n
<1>3. \A k \in 1..m : k \in 1..(m + n) /\ u[k] = s[k]
  BY <1>1, <1>2
<1>4. \A k \in 1..n : k + m \in 1..(m + n) /\ u[k + m] = t[k]
  BY <1>1, <1>2
<1>5. \A k \in 1..(m + n) : (k \in 1..m /\ u[k] = s[k]) \/ (k - m \in 1..n /\ u[k] = t[k - m])
  BY <1>1, <1>2
<1>6. OnPanel(u)
  <2>1. ASSUME NEW k \in 1..(m + n), NEW p \in Pixels(u[k])
        PROVE  \E a \in 0..(Width - 1), b \in 0..(Height - 1) : p = <<a + XStart, b + YStart>>
    <3>1. CASE k \in 1..m /\ u[k] = s[k]
      BY <1>1, <2>1, <3>1 DEF OnPanel
    <3>2. CASE k - m \in 1..n /\ u[k] = t[k - m]
      BY <1>1, <2>1, <3>2 DEF OnPanel
    <3> QED
      BY <1>5, <3>1, <3>2
  <2> QED
    BY <1>1, <2>1 DEF OnPanel
<1>7. ASSUME NEW a, NEW b, NEW c PROVE Paints(u, a, b, c) <=> Paints(s, a, b, c) \/ Paints(t, a, b, c)
  <2>1. ASSUME Paints(u, a, b, c) PROVE Paints(s, a, b, c) \/ Paints(t, a, b, c)
    BY <1>1, <1>5, <2>1 DEF Paints
  <2>2. ASSUME Paints(s, a, b, c) PROVE Paints(u, a, b, c)
    BY <1>1, <1>3, <2>2 DEF Paints
  <2>3. ASSUME Paints(t, a, b, c) PROVE Paints(u, a, b, c)
    BY <1>1, <1>4, <2>3 DEF Paints
  <2> QED
    BY <2>1, <2>2, <2>3
<1> QED
  BY <1>6, <1>7 DEF u

\* What the first m lists of windows paint, and no more.
Gathers(u, ss, m) ==
  /\ OnPanel(u)
  /\ \A a, b, c : Paints(u, a, b, c) <=> \E k \in 1..m : Paints(ss[k], a, b, c)

LEMMA GathersOne ==
  ASSUME NEW ss, OnPanel(ss[1])
  PROVE  Gathers(ss[1], ss, 1)
BY DEF Gathers

LEMMA GathersMore ==
  ASSUME NEW u, NEW ss, NEW m \in Nat, Gathers(u, ss, m), OnPanel(ss[m + 1])
  PROVE  Gathers(u \o ss[m + 1], ss, m + 1)
<1> DEFINE v == u \o ss[m + 1]
<1>1. OnPanel(u)
  BY DEF Gathers
<1>2. OnPanel(v) /\ \A a, b, c : Paints(v, a, b, c) <=> Paints(u, a, b, c) \/ Paints(ss[m + 1], a, b, c)
  BY <1>1, ConcatPaints
<1> HIDE DEF v
<1>3. ASSUME NEW a, NEW b, NEW c PROVE Paints(v, a, b, c) <=> \E k \in 1..(m + 1) : Paints(ss[k], a, b, c)
  <2>1. Paints(u, a, b, c) <=> \E k \in 1..m : Paints(ss[k], a, b, c)
    BY DEF Gathers
  <2>2. \A k \in 1..(m + 1) : k \in 1..m \/ k = m + 1
    OBVIOUS
  <2>3. \A k \in 1..m : k \in 1..(m + 1)
    OBVIOUS
  <2>4. m + 1 \in 1..(m + 1)
    OBVIOUS
  <2> QED
    BY <1>2, <2>1, <2>2, <2>3, <2>4
<1> QED
  BY <1>2, <1>3 DEF Gathers, v

\* The recursive function that FlattenSeq chooses exists.
LEMMA FlattenExists ==
  ASSUME NEW ss, NEW n \in Nat, \A k \in 1..n : ss[k] \in Seq(Window)
  PROVE  \E g : g = [i \in 1..n |-> IF i = 1 THEN ss[i] ELSE g[i - 1] \o ss[i]]
<1> DEFINE Good(g, m) == /\ g \in [1..m -> Seq(Window)]
                         /\ \A k \in 1..m : g[k] = IF k = 1 THEN ss[k] ELSE g[k - 1] \o ss[k]
           S == {m \in Nat : m <= n => \E g : Good(g, m)}
<1>1. 0 \in S
  <2>1. Good([k \in 1..0 |-> <<>>], 0)
    OBVIOUS
  <2> HIDE DEF Good
  <2> QED
    BY <2>1
<1>2. ASSUME NEW m \in Nat, m \in S PROVE m + 1 \in S
  <2> HIDE DEF Good
  <2> SUFFICES ASSUME m + 1 <= n PROVE \E h : Good(h, m + 1)
    OBVIOUS
  <2>1. m <= n
    OBVIOUS
  <2>2. PICK g : Good(g, m)
    BY <1>2, <2>1, Zenon
  <2> DEFINE last == IF m = 0 THEN ss[1] ELSE g[m] \o ss[m + 1]
             h == [k \in 1..(m + 1) |-> IF k <= m THEN g[k] ELSE last]
  <2>3. last \in Seq(Window)
    <3>1. CASE m = 0
      BY <3>1
    <3>2. CASE m # 0
      <4>1. m \in 1..m /\ m + 1 \in 1..n
        BY <3>2
      <4>2. g[m] \in Seq(Window) /\ ss[m + 1] \in Seq(Window)
        BY <2>2, <4>1 DEF Good
      <4> QED
        BY <3>2, <4>2
    <3> QED
      BY <3>1, <3>2
  <2>4. g \in [1..m -> Seq(Window)]
    BY <2>2 DEF Good
  <2>5. h \in [1..(m + 1) -> Seq(Window)]
    <3> HIDE DEF last
    <3> QED
      BY <2>3, <2>4
  <2>6. ASSUME NEW k \in 1..(m + 1) PROVE h[k] = IF k = 1 THEN ss[k] ELSE h[k - 1] \o ss[k]
    <3>1. CASE k <= m
      <4>1. k \in 1..m /\ h[k] = g[k]
        BY <3>1
      <4>2. k # 1 => h[k - 1] = g[k - 1]
        BY <3>1
      <4> HIDE DEF h
      <4>3. g[k] = IF k = 1 THEN ss[k] ELSE g[k - 1] \o ss[k]
        BY <2>2, <4>1 DEF Good
      <4> QED
        BY <4>1, <4>2, <4>3
    <3>2. CASE k = m + 1
      <4>1. h[k] = last
        BY <3>2
      <4>2. k # 1 => m # 0 /\ h[k - 1] = g[m]
        BY <3>2
      <4> HIDE DEF h
      <4> QED
        BY <3>2, <4>1, <4>2
    <3> QED
      BY <3>1, <3>2
  <2> HIDE DEF h
  <2>7. Good(h, m + 1)
    BY <2>5, <2>6 DEF Good
  <2> QED
    BY <2>7
<1> HIDE DEF Good
<1>3. Nat \subseteq S
  <2> HIDE DEF S
  <2> QED
    BY <1>1, <1>2, SetInduction
<1>4. PICK g : Good(g, n)
  BY <1>3
<1>5. g = [i \in 1..n |-> IF i = 1 THEN ss[i] ELSE g[i - 1] \o ss[i]]
  BY <1>4 DEF Good
<1> QED
  BY <1>5

LEMMA FlattenPaints ==
  ASSUME NEW n \in Nat, NEW ss, ss \in Seq(Seq(Window)), Len(ss) = n, \A k \in 1..n : OnPanel(ss[k])
  PROVE  Gathers(FlattenSeq(ss), ss, n)
<1> DEFINE Run(g) == g = [i \in 1..n |-> IF i = 1 THEN ss[i] ELSE g[i - 1] \o ss[i]]
<1>1. CASE n = 0
  <2>1. FlattenSeq(ss) = <<>>
    BY <1>1 DEF FlattenSeq
  <2> QED
    BY <1>1, <2>1, NothingPainted DEF Gathers
<1>2. CASE n # 0
  <2>1. \A k \in 1..n : ss[k] \in Seq(Window)
    BY DEF OnPanel
  <2>2. \E g : Run(g)
    BY <2>1, FlattenExists
  <2>3. ASSUME NEW g, Run(g) PROVE Gathers(g[n], ss, n)
    <3> DEFINE S == {m \in Nat : m \in 1..n => Gathers(g[m], ss, m)}
    <3>1. 0 \in S
      OBVIOUS
    <3>2. ASSUME NEW m \in Nat, m \in S PROVE m + 1 \in S
      <4> SUFFICES ASSUME m + 1 \in 1..n PROVE Gathers(g[m + 1], ss, m + 1)
        OBVIOUS
      <4>0. OnPanel(ss[m + 1])
        OBVIOUS
      <4>1. CASE m = 0
        <5>1. g[m + 1] = ss[1] /\ m + 1 = 1
          BY <2>3, <4>1
        <5> QED
          BY <4>0, <5>1, GathersOne
      <4>2. CASE m # 0
        <5>0. m \in 1..n /\ m + 1 # 1 /\ (m + 1) - 1 = m
          BY <4>2
        <5>1. g[m + 1] = g[m] \o ss[m + 1] /\ m \in 1..n
          <6>1. g[m + 1] = IF m + 1 = 1 THEN ss[m + 1] ELSE g[(m + 1) - 1] \o ss[m + 1]
            BY <2>3
          <6> HIDE DEF Run
          <6> QED
            BY <5>0, <6>1
        <5>2. Gathers(g[m], ss, m)
          BY <3>2, <5>1
        <5> HIDE DEF Run
        <5> QED
          BY <4>0, <5>1, <5>2, GathersMore
      <4> QED
        BY <4>1, <4>2
    <3>3. Nat \subseteq S
      <4> HIDE DEF S
      <4> QED
        BY <3>1, <3>2, SetInduction
    <3> QED
      BY <1>2, <3>3
  <2>4. Gathers((CHOOSE g : Run(g))[n], ss, n)
    <3> HIDE DEF Run
    <3> QED
      BY <2>2, <2>3, Zenon
  <2>5. FlattenSeq(ss) = (CHOOSE g : Run(g))[n]
    BY <1>2, Zenon DEF FlattenSeq
  <2> QED
    BY <2>4, <2>5, Zenon
<1> QED
  BY <1>1, <1>2

-----------------------------------------------------------------------------
\* Each call draws its figure.

Draws(fs, c) ==
  /\ OnPanel(fs)
  /\ \A a \in 0..(Width - 1), b \in 0..(Height - 1) : \A colour :
       Paints(fs, a, b, colour) <=> colour # "none" /\ colour = Figure(c, a - c.x, b - c.y)

LEMMA PanelSize == Width \in 1..128 /\ Height \in 1..128
BY TftAssumption

LEMMA DrawsRect ==
  ASSUME NEW c \in [op: {"rect"}, x: Int, y: Int, w: Int, h: Int]
  PROVE  Draws(FillRect(c.x, c.y, c.w, c.h, "fg"), c)
<1> DEFINE fs == FillRect(c.x, c.y, c.w, c.h, "fg")
<1>1. c.x \in Int /\ c.y \in Int /\ c.w \in Int /\ c.h \in Int /\ c.op = "rect"
  OBVIOUS
<1>2. PaintsRect(fs, c.x, c.y, c.w, c.h, "fg")
  BY <1>1, RectPaints
<1>3. ASSUME NEW a \in 0..(Width - 1), NEW b \in 0..(Height - 1)
      PROVE  Figure(c, a - c.x, b - c.y) =
               IF c.x <= a /\ a < c.x + c.w /\ c.y <= b /\ b < c.y + c.h THEN "fg" ELSE "none"
  <2>1. (a - c.x \in 0..(c.w - 1) /\ b - c.y \in 0..(c.h - 1)) <=> (c.x <= a /\ a < c.x + c.w /\ c.y <= b /\ b < c.y + c.h)
    BY <1>1, PanelSize
  <2>2. Figure(c, a - c.x, b - c.y) = IF a - c.x \in 0..(c.w - 1) /\ b - c.y \in 0..(c.h - 1) THEN "fg" ELSE "none"
    BY <1>1 DEF Figure
  <2> QED
    BY <2>1, <2>2
<1> HIDE DEF fs
<1> QED
  BY <1>2, <1>3 DEF Draws, PaintsRect, fs

\* The corners of a rounded rectangle take half of either side at most.
LEMMA RadiusFits ==
  ASSUME NEW w \in Nat, NEW h \in Nat, NEW r \in Nat
  PROVE  Radius(w, h, r) \in Nat /\ 2 * Radius(w, h, r) <= w /\ 2 * Radius(w, h, r) <= h
BY DEF Radius

\* A point of a rounded rectangle is in its middle, or in row k of a corner.
RowOf(i, j, w, h, r, k) == r - k <= i /\ i < w - (r - k) /\ (j = k - 1 \/ j = h - k)

LEMMA RoundShape ==
  ASSUME NEW w \in Nat \ {0}, NEW h \in Nat \ {0}, NEW r \in Nat, 2 * r <= w, 2 * r <= h, NEW i \in Int, NEW j \in Int
  PROVE  (i \in 0..(w - 1) /\ j \in 0..(h - 1) /\ ToEdge(i, w) + ToEdge(j, h) >= r - 1)
           <=> \/ 0 <= i /\ i < w /\ r <= j /\ j < h - r
               \/ \E k \in 1..r : RowOf(i, j, w, h, r, k)
<1>1. ASSUME NEW k \in 1..r, RowOf(i, j, w, h, r, k)
      PROVE  i \in 0..(w - 1) /\ j \in 0..(h - 1) /\ ToEdge(i, w) + ToEdge(j, h) >= r - 1
  BY <1>1 DEF RowOf, ToEdge
<1>2. ASSUME 0 <= i, i < w, r <= j, j < h - r
      PROVE  i \in 0..(w - 1) /\ j \in 0..(h - 1) /\ ToEdge(i, w) + ToEdge(j, h) >= r - 1
  BY <1>2 DEF ToEdge
<1>3. ASSUME i \in 0..(w - 1), j \in 0..(h - 1), ToEdge(i, w) + ToEdge(j, h) >= r - 1, ~ (r <= j /\ j < h - r)
      PROVE  \E k \in 1..r : RowOf(i, j, w, h, r, k)
  <2> DEFINE k == ToEdge(j, h) + 1
  <2>1. k \in 1..r /\ RowOf(i, j, w, h, r, k)
    BY <1>3 DEF RowOf, ToEdge
  <2> HIDE DEF k
  <2> QED
    BY <2>1
<1> QED
  BY <1>1, <1>2, <1>3

LEMMA DrawsRound ==
  ASSUME NEW c \in [op: {"rrect", "frame"}, x: Int, y: Int, w: Int, h: Int, r: Int], c.op = "rrect"
  PROVE  Draws(FillRRect(c.x, c.y, c.w, c.h, c.r, "fg"), c)
<1> DEFINE x == c.x
           y == c.y
           w == c.w
           h == c.h
           fs == FillRRect(c.x, c.y, c.w, c.h, c.r, "fg")
           R == IF c.r <= 0 THEN 0 ELSE Radius(c.w, c.h, c.r)
<1>1. x \in Int /\ y \in Int /\ w \in Int /\ h \in Int /\ c.r \in Int
  OBVIOUS
<1>2. \A i, j : Figure(c, i, j) = IF InShape(c, i, j) THEN "fg" ELSE "none"
  BY DEF Figure
<1>3. \A i, j : InShape(c, i, j) <=> i \in 0..(w - 1) /\ j \in 0..(h - 1) /\ ToEdge(i, w) + ToEdge(j, h) >= R - 1
  BY DEF InShape
<1>4. CASE w <= 0 \/ h <= 0
  <2>1. fs = <<>>
    BY <1>4 DEF FillRRect
  <2>2. ASSUME NEW i \in Int, NEW j \in Int PROVE ~InShape(c, i, j)
    <3>1. ~ (i \in 0..(w - 1) /\ j \in 0..(h - 1))
      BY <1>1, <1>4
    <3> QED
      BY <1>3, <3>1
  <2> HIDE DEF fs
  <2>3. OnPanel(fs) /\ \A a, b, colour : ~ Paints(fs, a, b, colour)
    BY <2>1, NothingPainted
  <2>4. ASSUME NEW a \in 0..(Width - 1), NEW b \in 0..(Height - 1) PROVE Figure(c, a - c.x, b - c.y) = "none"
    <3>1. a - c.x \in Int /\ b - c.y \in Int
      BY <1>1, PanelSize
    <3> QED
      BY <1>2, <2>2, <3>1
  <2> QED
    BY <2>3, <2>4 DEF Draws, fs
<1>5. CASE w > 0 /\ h > 0
  <2>0. w \in Nat \ {0} /\ h \in Nat \ {0} /\ R \in Nat /\ 2 * R <= w /\ 2 * R <= h
    <3>1. w \in Nat \ {0} /\ h \in Nat \ {0}
      BY <1>1, <1>5
    <3>2. CASE c.r <= 0
      <4>1. R = 0
        BY <3>2
      <4> HIDE DEF R
      <4> QED
        BY <3>1, <4>1
    <3>3. CASE c.r > 0
      <4>1. R = Radius(w, h, c.r) /\ c.r \in Nat
        BY <1>1, <3>3
      <4> HIDE DEF R
      <4> QED
        BY <3>1, <4>1, RadiusFits
    <3> QED
      BY <1>1, <3>2, <3>3
  <2>1. /\ OnPanel(fs)
        /\ \A a \in 0..(Width - 1), b \in 0..(Height - 1) : \A colour : Paints(fs, a, b, colour) <=>
             /\ colour = "fg"
             /\ \/ x <= a /\ a < x + w /\ y + R <= b /\ b < y + R + (h - 2 * R)
                \/ \E k \in 1..R : RowOf(a - x, b - y, w, h, R, k)
    <3>1. CASE c.r <= 0
      <4>1. fs = FillRect(x, y, w, h, "fg") /\ R = 0
        BY <1>5, <3>1 DEF FillRRect
      <4>2. PaintsRect(fs, x, y, w, h, "fg")
        BY <1>1, <4>1, RectPaints
      <4>3. y + R = y /\ y + R + (h - 2 * R) = y + h /\ ~ \E k \in 1..R : TRUE
        BY <1>1, <4>1
      <4> HIDE DEF fs, R, x, y, w, h
      <4> QED
        BY <4>2, <4>3 DEF PaintsRect
    <3>2. CASE c.r > 0
      <4> DEFINE Rows(i) == HLine(x + R - 1 - i, y + i, w - 2 * (R - 1 - i), "fg") \o
                            HLine(x + R - 1 - i, y + h - 1 - i, w - 2 * (R - 1 - i), "fg")
                 ss == [k \in 1..R |-> Rows(k - 1)]
                 mid == FillRect(x, y + R, w, h - 2 * R, "fg")
                 flat == FlattenSeq(ss)
      <4>1. fs = mid \o flat
        <5>1. R = Radius(w, h, c.r) /\ ~ (c.r <= 0) /\ ~ (w <= 0 \/ h <= 0)
          BY <1>1, <1>5, <3>2
        <5>2. fs = FillRect(x, y + Radius(w, h, c.r), w, h - 2 * Radius(w, h, c.r), "fg") \o
                   FlattenSeq([k \in 1..Radius(w, h, c.r) |->
                     HLine(x + Radius(w, h, c.r) - 1 - (k - 1), y + (k - 1), w - 2 * (Radius(w, h, c.r) - 1 - (k - 1)), "fg") \o
                     HLine(x + Radius(w, h, c.r) - 1 - (k - 1), y + h - 1 - (k - 1), w - 2 * (Radius(w, h, c.r) - 1 - (k - 1)), "fg")])
          BY <5>1, Zenon DEF FillRRect
        <5> HIDE DEF R, x, y, w, h
        <5> QED
          BY <5>1, <5>2
      <4>2. PaintsRect(mid, x, y + R, w, h - 2 * R, "fg")
        BY <1>1, <2>0, RectPaints
      <4>3. ASSUME NEW k \in 1..R
            PROVE  /\ OnPanel(ss[k])
                   /\ \A a \in 0..(Width - 1), b \in 0..(Height - 1) : \A colour :
                        Paints(ss[k], a, b, colour) <=> colour = "fg" /\ RowOf(a - x, b - y, w, h, R, k)
        <5> DEFINE s == FillRect(x + R - k, y + k - 1, w - 2 * (R - k), 1, "fg")
                   t == FillRect(x + R - k, y + h - k, w - 2 * (R - k), 1, "fg")
        <5>0. x + R - k \in Int /\ y + k - 1 \in Int /\ y + h - k \in Int /\ w - 2 * (R - k) \in Int
          BY <1>1, <2>0
        <5>1. ss[k] = s \o t
          <6>1. /\ x + R - 1 - (k - 1) = x + R - k /\ y + (k - 1) = y + k - 1
                /\ w - 2 * (R - 1 - (k - 1)) = w - 2 * (R - k) /\ y + h - 1 - (k - 1) = y + h - k
            BY <1>1, <2>0
          <6> QED
            BY <6>1 DEF HLine
        <5>2. PaintsRect(s, x + R - k, y + k - 1, w - 2 * (R - k), 1, "fg") /\ PaintsRect(t, x + R - k, y + h - k, w - 2 * (R - k), 1, "fg")
          BY <5>0, RectPaints
        <5> HIDE DEF s, t, ss
        <5>3. OnPanel(s) /\ OnPanel(t)
          BY <5>2 DEF PaintsRect
        <5>4. OnPanel(ss[k]) /\ \A a, b, colour : Paints(ss[k], a, b, colour) <=> Paints(s, a, b, colour) \/ Paints(t, a, b, colour)
          BY <5>1, <5>3, ConcatPaints
        <5>5. ASSUME NEW a \in 0..(Width - 1), NEW b \in 0..(Height - 1)
              PROVE  RowOf(a - x, b - y, w, h, R, k) <=>
                       /\ x + R - k <= a /\ a < x + R - k + (w - 2 * (R - k))
                       /\ (y + k - 1 <= b /\ b < y + k - 1 + 1) \/ (y + h - k <= b /\ b < y + h - k + 1)
          BY <1>1, <2>0, PanelSize DEF RowOf
        <5> QED
          BY <5>2, <5>4, <5>5 DEF PaintsRect
      <4>4. ss \in Seq(Seq(Window)) /\ Len(ss) = R
        <5>1. \A k \in 1..R : ss[k] \in Seq(Window)
          BY <4>3 DEF OnPanel
        <5>2. ss = [k \in 1..R |-> ss[k]]
          OBVIOUS
        <5> HIDE DEF ss
        <5>3. ss \in [1..R -> Seq(Window)]
          BY <5>1, <5>2
        <5> QED
          BY <2>0, <5>3
      <4>5. Gathers(flat, ss, R)
        BY <2>0, <4>3, <4>4, FlattenPaints
      <4> HIDE DEF fs, R, x, y, w, h, ss, mid, flat
      <4>6. OnPanel(mid) /\ OnPanel(flat)
        BY <4>2, <4>5 DEF PaintsRect, Gathers
      <4>7. OnPanel(fs) /\ \A a, b, colour : Paints(fs, a, b, colour) <=> Paints(mid, a, b, colour) \/ Paints(flat, a, b, colour)
        BY <4>1, <4>6, ConcatPaints
      <4>8. ASSUME NEW a \in 0..(Width - 1), NEW b \in 0..(Height - 1), NEW colour
            PROVE  Paints(flat, a, b, colour) <=> colour = "fg" /\ \E k \in 1..R : RowOf(a - x, b - y, w, h, R, k)
        <5>1. Paints(flat, a, b, colour) <=> \E k \in 1..R : Paints(ss[k], a, b, colour)
          BY <4>5 DEF Gathers
        <5> QED
          BY <4>3, <5>1
      <4>9. ASSUME NEW a \in 0..(Width - 1), NEW b \in 0..(Height - 1), NEW colour
            PROVE  Paints(mid, a, b, colour) <=> colour = "fg" /\ x <= a /\ a < x + w /\ y + R <= b /\ b < y + R + (h - 2 * R)
        BY <4>2 DEF PaintsRect
      <4> QED
        BY <4>7, <4>8, <4>9
    <3> QED
      BY <1>1, <3>1, <3>2
  <2>2. ASSUME NEW a \in 0..(Width - 1), NEW b \in 0..(Height - 1)
        PROVE  InShape(c, a - x, b - y) <=>
                 \/ x <= a /\ a < x + w /\ y + R <= b /\ b < y + R + (h - 2 * R)
                 \/ \E k \in 1..R : RowOf(a - x, b - y, w, h, R, k)
    <3> DEFINE i == a - x
               j == b - y
    <3>1. i \in Int /\ j \in Int
      BY <1>1, PanelSize
    <3>2. (0 <= i /\ i < w /\ R <= j /\ j < h - R) <=> (x <= a /\ a < x + w /\ y + R <= b /\ b < y + R + (h - 2 * R))
      BY <1>1, <2>0, PanelSize
    <3>3. InShape(c, i, j) <=> i \in 0..(w - 1) /\ j \in 0..(h - 1) /\ ToEdge(i, w) + ToEdge(j, h) >= R - 1
      BY <1>3
    <3> HIDE DEF i, j, R, x, y, w, h
    <3>4. InShape(c, i, j) <=> \/ 0 <= i /\ i < w /\ R <= j /\ j < h - R
                               \/ \E k \in 1..R : RowOf(i, j, w, h, R, k)
      BY <2>0, <3>1, <3>3, RoundShape
    <3> QED
      BY <3>2, <3>4 DEF i, j
  <2> HIDE DEF fs, R, w, h
  <2> QED
    BY <1>2, <2>1, <2>2 DEF Draws, fs
<1> QED
  BY <1>1, <1>4, <1>5

\* A point of its frame is on a side, or the k-th of a corner.
InRound(i, j, w, h, r) == i \in 0..(w - 1) /\ j \in 0..(h - 1) /\ ToEdge(i, w) + ToEdge(j, h) >= r - 1
AtCorner(i, j, w, h, r, k) == (i = r - k \/ i = w - r + k - 1) /\ (j = k - 1 \/ j = h - k)
OnSide(i, j, w, h, r) == \/ r <= i /\ i < w - r /\ (j = 0 \/ j = h - 1)
                         \/ r <= j /\ j < h - r /\ (i = 0 \/ i = w - 1)

LEMMA FrameShape ==
  ASSUME NEW w \in Nat \ {0}, NEW h \in Nat \ {0}, NEW r \in Nat, 2 * r <= w, 2 * r <= h, NEW i \in Int, NEW j \in Int
  PROVE  (InRound(i, j, w, h, r) /\ ~ (/\ InRound(i - 1, j, w, h, r) /\ InRound(i + 1, j, w, h, r)
                                       /\ InRound(i, j - 1, w, h, r) /\ InRound(i, j + 1, w, h, r)))
           <=> OnSide(i, j, w, h, r) \/ \E k \in 1..r : AtCorner(i, j, w, h, r, k)
<1> DEFINE inner == /\ InRound(i - 1, j, w, h, r) /\ InRound(i + 1, j, w, h, r)
                    /\ InRound(i, j - 1, w, h, r) /\ InRound(i, j + 1, w, h, r)
<1>1. ASSUME NEW k \in 1..r, AtCorner(i, j, w, h, r, k) PROVE InRound(i, j, w, h, r) /\ ~inner
  <2>1. InRound(i, j, w, h, r)
    BY <1>1 DEF AtCorner, InRound, ToEdge
  <2>2. CASE i = r - k
    <3>1. ~InRound(i - 1, j, w, h, r)
      BY <1>1, <2>2 DEF AtCorner, InRound, ToEdge
    <3> QED
      BY <2>1, <3>1
  <2>3. CASE i = w - r + k - 1
    <3>1. ~InRound(i + 1, j, w, h, r)
      BY <1>1, <2>3 DEF AtCorner, InRound, ToEdge
    <3> QED
      BY <2>1, <3>1
  <2> QED
    BY <1>1, <2>2, <2>3 DEF AtCorner
<1>2. ASSUME OnSide(i, j, w, h, r) PROVE InRound(i, j, w, h, r) /\ ~inner
  <2>1. InRound(i, j, w, h, r)
    BY <1>2 DEF OnSide, InRound, ToEdge
  <2>2. ~InRound(i - 1, j, w, h, r) \/ ~InRound(i + 1, j, w, h, r) \/ ~InRound(i, j - 1, w, h, r) \/ ~InRound(i, j + 1, w, h, r)
    BY <1>2 DEF OnSide, InRound
  <2> QED
    BY <2>1, <2>2
<1>3. ASSUME InRound(i, j, w, h, r), ~inner PROVE OnSide(i, j, w, h, r) \/ \E k \in 1..r : AtCorner(i, j, w, h, r, k)
  <2> DEFINE e == ToEdge(i, w)
             f == ToEdge(j, h)
  <2>1. /\ e \in Nat /\ f \in Nat /\ e + f >= r - 1 /\ i \in 0..(w - 1) /\ j \in 0..(h - 1)
        /\ i = e \/ i = w - 1 - e
        /\ j = f \/ j = h - 1 - f
        /\ e <= w - 1 - e /\ f <= h - 1 - f
    BY <1>3 DEF InRound, ToEdge
  <2>2. e = 0 \/ f = 0 \/ e + f = r - 1
    <3> SUFFICES ASSUME e > 0, f > 0, e + f >= r PROVE FALSE
      BY <2>1
    <3>1. InRound(i - 1, j, w, h, r)
      BY <2>1 DEF InRound, ToEdge
    <3>2. InRound(i + 1, j, w, h, r)
      BY <2>1 DEF InRound, ToEdge
    <3>3. InRound(i, j - 1, w, h, r)
      BY <2>1 DEF InRound, ToEdge
    <3>4. InRound(i, j + 1, w, h, r)
      BY <2>1 DEF InRound, ToEdge
    <3> QED
      BY <1>3, <3>1, <3>2, <3>3, <3>4
  <2> HIDE DEF e, f
  <2>3. CASE e + f = r - 1
    <3>1. f + 1 \in 1..r /\ AtCorner(i, j, w, h, r, f + 1)
      BY <2>1, <2>3 DEF AtCorner
    <3> QED
      BY <3>1
  <2>4. CASE e + f >= r
    <3>1. OnSide(i, j, w, h, r)
      BY <2>1, <2>2, <2>4 DEF OnSide
    <3> QED
      BY <3>1
  <2> QED
    BY <2>1, <2>3, <2>4
<1> QED
  BY <1>1, <1>2, <1>3

\* The k-th points of the four corners.
CornerPoints(x, y, w, h, r, k) ==
  FlattenSeq([l \in 1..4 |-> DrawPixel(IF l \in {1, 3} THEN x + r - 1 - (k - 1) ELSE x + w - r + (k - 1),
                                       IF l \in {1, 2} THEN y + (k - 1) ELSE y + h - 1 - (k - 1), "fg")])

PaintsCorners(fs, x, y, w, h, r, k) ==
  /\ OnPanel(fs)
  /\ \A a \in 0..(Width - 1), b \in 0..(Height - 1) : \A colour :
       Paints(fs, a, b, colour) <=> colour = "fg" /\ AtCorner(a - x, b - y, w, h, r, k)

LEMMA CornerPaints ==
  ASSUME NEW x \in Int, NEW y \in Int, NEW w \in Int, NEW h \in Int, NEW r \in Int, NEW k \in Int, NEW fs,
         fs = CornerPoints(x, y, w, h, r, k)
  PROVE  PaintsCorners(fs, x, y, w, h, r, k)
<1> DEFINE px(l) == IF l \in {1, 3} THEN x + r - 1 - (k - 1) ELSE x + w - r + (k - 1)
           py(l) == IF l \in {1, 2} THEN y + (k - 1) ELSE y + h - 1 - (k - 1)
           ss == [l \in 1..4 |-> DrawPixel(px(l), py(l), "fg")]
<1>0. \A l \in 1..4 : px(l) \in Int /\ py(l) \in Int
  OBVIOUS
<1>1. ASSUME NEW l \in 1..4 PROVE PaintsRect(ss[l], px(l), py(l), 1, 1, "fg")
  <2>1. px(l) \in Int /\ py(l) \in Int
    BY <1>0
  <2>2. ss[l] = DrawPixel(px(l), py(l), "fg")
    OBVIOUS
  <2> HIDE DEF px, py, ss
  <2> QED
    BY <2>1, <2>2, PixelPaints
<1>2. ss \in Seq(Seq(Window)) /\ Len(ss) = 4
  <2>1. \A l \in 1..4 : ss[l] \in Seq(Window)
    BY <1>1 DEF PaintsRect, OnPanel
  <2>2. ss = [l \in 1..4 |-> ss[l]]
    OBVIOUS
  <2> HIDE DEF ss
  <2>3. ss \in [1..4 -> Seq(Window)]
    BY <2>1, <2>2
  <2> QED
    BY <2>3, ListOf
<1>3. fs = FlattenSeq(ss)
  BY DEF CornerPoints
<1>4. /\ px(1) = x + r - k /\ px(3) = x + r - k /\ px(2) = x + w - r + k - 1 /\ px(4) = x + w - r + k - 1
      /\ py(1) = y + k - 1 /\ py(2) = y + k - 1 /\ py(3) = y + h - k /\ py(4) = y + h - k
  OBVIOUS
<1> HIDE DEF px, py, ss
<1>5. Gathers(fs, ss, 4)
  <2>1. \A l \in 1..4 : OnPanel(ss[l])
    BY <1>1 DEF PaintsRect
  <2> QED
    BY <1>2, <1>3, <2>1, FlattenPaints
<1>6. ASSUME NEW a \in 0..(Width - 1), NEW b \in 0..(Height - 1), NEW colour
      PROVE  Paints(fs, a, b, colour) <=> colour = "fg" /\ AtCorner(a - x, b - y, w, h, r, k)
  <2>1. Paints(fs, a, b, colour) <=> \E l \in 1..4 : Paints(ss[l], a, b, colour)
    BY <1>5 DEF Gathers
  <2>2. ASSUME NEW l \in 1..4 PROVE Paints(ss[l], a, b, colour) <=> colour = "fg" /\ a = px(l) /\ b = py(l)
    <3>1. Paints(ss[l], a, b, colour) <=> colour = "fg" /\ px(l) <= a /\ a < px(l) + 1 /\ py(l) <= b /\ b < py(l) + 1
      BY <1>1 DEF PaintsRect
    <3>2. px(l) \in Int /\ py(l) \in Int
      BY <1>0
    <3> QED
      BY <3>1, <3>2, PanelSize
  <2>3. AtCorner(a - x, b - y, w, h, r, k) <=> \E l \in 1..4 : a = px(l) /\ b = py(l)
    <3>1. AtCorner(a - x, b - y, w, h, r, k)
            <=> (a = x + r - k \/ a = x + w - r + k - 1) /\ (b = y + k - 1 \/ b = y + h - k)
      BY PanelSize DEF AtCorner
    <3>2. 1 \in 1..4 /\ 2 \in 1..4 /\ 3 \in 1..4 /\ 4 \in 1..4 /\ \A l \in 1..4 : l = 1 \/ l = 2 \/ l = 3 \/ l = 4
      OBVIOUS
    <3> QED
      BY <1>4, <3>1, <3>2
  <2> QED
    BY <2>1, <2>2, <2>3
<1> QED
  BY <1>5, <1>6 DEF Gathers, PaintsCorners

LEMMA DrawsFrame ==
  ASSUME NEW c \in [op: {"rrect", "frame"}, x: Int, y: Int, w: Int, h: Int, r: Int], c.op = "frame"
  PROVE  Draws(DrawRRect(c.x, c.y, c.w, c.h, c.r, "fg"), c)
<1> DEFINE x == c.x
           y == c.y
           w == c.w
           h == c.h
           fs == DrawRRect(c.x, c.y, c.w, c.h, c.r, "fg")
           R == IF c.r <= 0 THEN 0 ELSE Radius(c.w, c.h, c.r)
           In(i, j) == InRound(i, j, c.w, c.h, R)
           Edge(i, j) == In(i, j) /\ ~ (In(i - 1, j) /\ In(i + 1, j) /\ In(i, j - 1) /\ In(i, j + 1))
<1>1. x \in Int /\ y \in Int /\ w \in Int /\ h \in Int /\ c.r \in Int
  OBVIOUS
<1>2. \A i, j : Figure(c, i, j) = IF Edge(i, j) THEN "fg" ELSE "none"
  <2>1. \A i, j : InShape(c, i, j) <=> In(i, j)
    BY DEF InShape, InRound
  <2> HIDE DEF In
  <2> QED
    BY <2>1 DEF Figure
<1>3. CASE w <= 0 \/ h <= 0
  <2>1. fs = <<>>
    BY <1>3 DEF DrawRRect
  <2>2. ASSUME NEW i \in Int, NEW j \in Int PROVE ~Edge(i, j)
    <3>1. ~ (i \in 0..(w - 1) /\ j \in 0..(h - 1))
      BY <1>1, <1>3
    <3> QED
      BY <3>1 DEF InRound
  <2> HIDE DEF fs, Edge
  <2>3. OnPanel(fs) /\ \A a, b, colour : ~ Paints(fs, a, b, colour)
    BY <2>1, NothingPainted
  <2>4. ASSUME NEW a \in 0..(Width - 1), NEW b \in 0..(Height - 1) PROVE Figure(c, a - c.x, b - c.y) = "none"
    <3>1. a - c.x \in Int /\ b - c.y \in Int
      BY <1>1, PanelSize
    <3> QED
      BY <1>2, <2>2, <3>1
  <2> QED
    BY <2>3, <2>4 DEF Draws, fs
<1>4. CASE w > 0 /\ h > 0
  <2>0. w \in Nat \ {0} /\ h \in Nat \ {0} /\ R \in Nat /\ 2 * R <= w /\ 2 * R <= h
    <3>1. w \in Nat \ {0} /\ h \in Nat \ {0}
      BY <1>1, <1>4
    <3>2. CASE c.r <= 0
      <4>1. R = 0
        BY <3>2
      <4> HIDE DEF R
      <4> QED
        BY <3>1, <4>1
    <3>3. CASE c.r > 0
      <4>1. R = Radius(w, h, c.r) /\ c.r \in Nat
        BY <1>1, <3>3
      <4> HIDE DEF R
      <4> QED
        BY <3>1, <4>1, RadiusFits
    <3> QED
      BY <1>1, <3>2, <3>3
  <2> DEFINE s1 == FillRect(x + R, y, w - 2 * R, 1, "fg")
             s2 == FillRect(x + R, y + h - 1, w - 2 * R, 1, "fg")
             s3 == FillRect(x, y + R, 1, h - 2 * R, "fg")
             s4 == FillRect(x + w - 1, y + R, 1, h - 2 * R, "fg")
             ss == [k \in 1..R |-> CornerPoints(x, y, w, h, R, k)]
             flat == FlattenSeq(ss)
  <2>1. fs = s1 \o s2 \o s3 \o s4 \o flat
    <3>1. ~ (w <= 0 \/ h <= 0)
      BY <1>1, <1>4
    <3> QED
      BY <3>1, Zenon DEF DrawRRect, HLine, VLine, CornerPoints
  <2>2. /\ PaintsRect(s1, x + R, y, w - 2 * R, 1, "fg") /\ PaintsRect(s2, x + R, y + h - 1, w - 2 * R, 1, "fg")
        /\ PaintsRect(s3, x, y + R, 1, h - 2 * R, "fg") /\ PaintsRect(s4, x + w - 1, y + R, 1, h - 2 * R, "fg")
    <3>1. x + R \in Int /\ y + R \in Int /\ w - 2 * R \in Int /\ h - 2 * R \in Int /\ y + h - 1 \in Int /\ x + w - 1 \in Int /\ 1 \in Int
      BY <1>1, <2>0
    <3> HIDE DEF R, x, y, w, h
    <3> QED
      BY <1>1, <3>1, RectPaints
  <2>3. ASSUME NEW k \in 1..R
        PROVE  PaintsCorners(ss[k], x, y, w, h, R, k)
    <3>1. ss[k] = CornerPoints(x, y, w, h, R, k)
      OBVIOUS
    <3>2. R \in Int /\ k \in Int
      BY <2>0
    <3> HIDE DEF ss, R, x, y, w, h
    <3> QED
      BY <1>1, <3>1, <3>2, CornerPaints
  <2>4. ss \in Seq(Seq(Window)) /\ Len(ss) = R
    <3>1. \A k \in 1..R : ss[k] \in Seq(Window)
      BY <2>3 DEF OnPanel, PaintsCorners
    <3>2. ss = [k \in 1..R |-> ss[k]]
      OBVIOUS
    <3> HIDE DEF ss, R
    <3>3. ss \in [1..R -> Seq(Window)]
      BY <3>1, <3>2
    <3> QED
      BY <2>0, <3>3
  <2> HIDE DEF fs, ss, s1, s2, s3, s4, flat, R, x, y, w, h
  <2>5. Gathers(flat, ss, R)
    <3>1. \A k \in 1..R : OnPanel(ss[k])
      BY <2>3 DEF PaintsCorners
    <3> QED
      BY <2>0, <2>4, <3>1, FlattenPaints DEF flat
  <2>6. OnPanel(s1) /\ OnPanel(s2) /\ OnPanel(s3) /\ OnPanel(s4) /\ OnPanel(flat)
    BY <2>2, <2>5 DEF PaintsRect, Gathers
  <2> DEFINE s12 == s1 \o s2
             s123 == s12 \o s3
             s1234 == s123 \o s4
  <2>7. OnPanel(s12) /\ \A a, b, colour : Paints(s12, a, b, colour) <=> Paints(s1, a, b, colour) \/ Paints(s2, a, b, colour)
    BY <2>6, ConcatPaints
  <2> HIDE DEF s12
  <2>8. OnPanel(s123) /\ \A a, b, colour : Paints(s123, a, b, colour) <=> Paints(s12, a, b, colour) \/ Paints(s3, a, b, colour)
    BY <2>6, <2>7, ConcatPaints
  <2> HIDE DEF s123
  <2>9. OnPanel(s1234) /\ \A a, b, colour : Paints(s1234, a, b, colour) <=> Paints(s123, a, b, colour) \/ Paints(s4, a, b, colour)
    BY <2>6, <2>8, ConcatPaints
  <2> HIDE DEF s1234
  <2>10. fs = s1234 \o flat
    BY <2>1 DEF s12, s123, s1234
  <2>11. OnPanel(fs) /\ \A a, b, colour : Paints(fs, a, b, colour) <=> Paints(s1234, a, b, colour) \/ Paints(flat, a, b, colour)
    BY <2>6, <2>9, <2>10, ConcatPaints
  <2>12. ASSUME NEW a \in 0..(Width - 1), NEW b \in 0..(Height - 1), NEW colour
         PROVE  Paints(fs, a, b, colour) <=> colour = "fg" /\ Edge(a - x, b - y)
    <3> DEFINE i == a - x
               j == b - y
    <3>0. i \in Int /\ j \in Int
      BY <1>1, PanelSize
    <3>1. Paints(flat, a, b, colour) <=> colour = "fg" /\ \E k \in 1..R : AtCorner(i, j, w, h, R, k)
      <4>1. Paints(flat, a, b, colour) <=> \E k \in 1..R : Paints(ss[k], a, b, colour)
        BY <2>5 DEF Gathers
      <4> QED
        BY <2>3, <4>1 DEF PaintsCorners
    <3>2. /\ Paints(s1, a, b, colour) <=> colour = "fg" /\ x + R <= a /\ a < x + R + (w - 2 * R) /\ y <= b /\ b < y + 1
          /\ Paints(s2, a, b, colour) <=> colour = "fg" /\ x + R <= a /\ a < x + R + (w - 2 * R) /\ y + h - 1 <= b /\ b < y + h - 1 + 1
          /\ Paints(s3, a, b, colour) <=> colour = "fg" /\ x <= a /\ a < x + 1 /\ y + R <= b /\ b < y + R + (h - 2 * R)
          /\ Paints(s4, a, b, colour) <=> colour = "fg" /\ x + w - 1 <= a /\ a < x + w - 1 + 1 /\ y + R <= b /\ b < y + R + (h - 2 * R)
      BY <2>2 DEF PaintsRect
    <3>3. OnSide(i, j, w, h, R) <=>
            \/ x + R <= a /\ a < x + R + (w - 2 * R) /\ y <= b /\ b < y + 1
            \/ x + R <= a /\ a < x + R + (w - 2 * R) /\ y + h - 1 <= b /\ b < y + h - 1 + 1
            \/ x <= a /\ a < x + 1 /\ y + R <= b /\ b < y + R + (h - 2 * R)
            \/ x + w - 1 <= a /\ a < x + w - 1 + 1 /\ y + R <= b /\ b < y + R + (h - 2 * R)
      BY <1>1, <2>0, PanelSize DEF OnSide
    <3> HIDE DEF i, j
    <3>4. Edge(i, j) <=> OnSide(i, j, w, h, R) \/ \E k \in 1..R : AtCorner(i, j, w, h, R, k)
      BY <2>0, <3>0, FrameShape DEF w, h
    <3>5. Paints(fs, a, b, colour) <=> colour = "fg" /\ Edge(i, j)
      BY <2>7, <2>8, <2>9, <2>11, <3>1, <3>2, <3>3, <3>4
    <3> QED
      BY <3>5 DEF i, j
  <2> HIDE DEF Edge
  <2> QED
    BY <1>2, <2>11, <2>12 DEF Draws, fs, x, y
<1> QED
  BY <1>1, <1>3, <1>4

-----------------------------------------------------------------------------
\* Text.

\* A point lies in box q of a row of boxes.
LEMMA BoxOf ==
  ASSUME NEW s \in 1..3, NEW d \in Int, NEW q \in Int
  PROVE  (q * s <= d /\ d < q * s + s) <=> q = d \div s
<1>1. CASE s = 1
  BY <1>1
<1>2. CASE s = 2
  BY <1>2
<1>3. CASE s = 3
  BY <1>3
<1> QED
  BY <1>1, <1>2, <1>3

\* Column k of a line of text is six boxes wide, line l of it eight high.
LEMMA ColumnOf ==
  ASSUME NEW s \in 1..3, NEW i \in Int, NEW k \in Int
  PROVE  /\ ((k - 1) * 6 * s <= i /\ i < (k - 1) * 6 * s + 6 * s) <=> k = i \div (6 * s) + 1
         /\ k = i \div (6 * s) + 1 => (i - (k - 1) * 6 * s) \div s = (i \div s) % 6
<1>1. CASE s = 1
  BY <1>1
<1>2. CASE s = 2
  BY <1>2
<1>3. CASE s = 3
  BY <1>3
<1> QED
  BY <1>1, <1>2, <1>3

LEMMA LineOf ==
  ASSUME NEW s \in 1..3, NEW j \in Int, NEW l \in Int
  PROVE  /\ ((l - 1) * 8 * s <= j /\ j < (l - 1) * 8 * s + 7 * s) <=> l = j \div (8 * s) + 1 /\ (j \div s) % 8 < 7
         /\ l = j \div (8 * s) + 1 => (j - (l - 1) * 8 * s) \div s = (j \div s) % 8
<1>1. CASE s = 1
  BY <1>1
<1>2. CASE s = 2
  BY <1>2
<1>3. CASE s = 3
  BY <1>3
<1> QED
  BY <1>1, <1>2, <1>3

LEMMA Quotients ==
  ASSUME NEW s \in 1..3, NEW i \in Int, NEW j \in Int
  PROVE  j \div (8 * s) + 1 \in Int /\ i \div (6 * s) + 1 \in Int
<1>1. CASE s = 1
  BY <1>1
<1>2. CASE s = 2
  BY <1>2
<1>3. CASE s = 3
  BY <1>3
<1> QED
  BY <1>1, <1>2, <1>3

LEMMA Shifted ==
  ASSUME NEW x \in Int, NEW u \in Int, NEW a \in Int, NEW e \in Int
  PROVE  /\ (x + u <= a /\ a < x + u + e) <=> (u <= a - x /\ a - x < u + e)
         /\ a - (x + u) = (a - x) - u
OBVIOUS

\* The colour of a point of a glyph.
Ink(glyph, col, row) == IF <<col, row>> \in glyph THEN "fg" ELSE "bg"

\* Nothing is painted but a glyph.
PaintsGlyph(fs, x, y, glyph, s) ==
  /\ OnPanel(fs)
  /\ \A a \in 0..(Width - 1), b \in 0..(Height - 1) : \A colour :
       Paints(fs, a, b, colour) <=> /\ x <= a /\ a < x + 6 * s /\ y <= b /\ b < y + 7 * s
                                    /\ colour = Ink(glyph, (a - x) \div s, (b - y) \div s)

LEMMA GlyphPaints ==
  ASSUME NEW x \in Int, NEW y \in Int, NEW glyph, NEW s \in 1..3
  PROVE  PaintsGlyph(DrawChar(x, y, glyph, "fg", "bg", s), x, y, glyph, s)
<1> DEFINE Cell(col, row) == IF s = 1 THEN DrawPixel(x + col, y + row, Ink(glyph, col, row))
                             ELSE FillRect(x + col * s, y + row * s, s, s, Ink(glyph, col, row))
           ss == [k \in 1..42 |-> Cell((k - 1) \div 7, (k - 1) % 7)]
           fs == DrawChar(x, y, glyph, "fg", "bg", s)
<1>1. fs = FlattenSeq(ss)
  BY DEF DrawChar, Ink
<1>2. \A k \in 1..42 : (k - 1) \div 7 \in 0..5 /\ (k - 1) % 7 \in 0..6
  OBVIOUS
<1>3. ASSUME NEW col \in 0..5, NEW row \in 0..6
      PROVE  PaintsRect(Cell(col, row), x + col * s, y + row * s, s, s, Ink(glyph, col, row))
  <2>1. Ink(glyph, col, row) \in {"fg", "bg"}
    BY DEF Ink
  <2>2. CASE s = 1
    <3>1. Cell(col, row) = DrawPixel(x + col, y + row, Ink(glyph, col, row)) /\ x + col * s = x + col /\ y + row * s = y + row
      BY <2>2
    <3>2. x + col \in Int /\ y + row \in Int
      OBVIOUS
    <3> HIDE DEF Cell
    <3> QED
      BY <2>1, <2>2, <3>1, <3>2, PixelPaints
  <2>3. CASE s # 1
    <3>1. Cell(col, row) = FillRect(x + col * s, y + row * s, s, s, Ink(glyph, col, row))
      BY <2>3
    <3>2. x + col * s \in Int /\ y + row * s \in Int
      OBVIOUS
    <3> HIDE DEF Cell
    <3> QED
      BY <2>1, <3>1, <3>2, RectPaints
  <2> QED
    BY <2>2, <2>3
<1> HIDE DEF Cell
<1>4. \A k \in 1..42 : ss[k] = Cell((k - 1) \div 7, (k - 1) % 7) /\ OnPanel(ss[k])
  <2> SUFFICES ASSUME NEW k \in 1..42 PROVE ss[k] = Cell((k - 1) \div 7, (k - 1) % 7) /\ OnPanel(ss[k])
    OBVIOUS
  <2>1. ss[k] = Cell((k - 1) \div 7, (k - 1) % 7)
    OBVIOUS
  <2> QED
    BY <1>2, <1>3, <2>1 DEF PaintsRect
<1>5. ss = [k \in 1..42 |-> ss[k]]
  OBVIOUS
<1> HIDE DEF ss, fs
<1>6. ss \in Seq(Seq(Window)) /\ Len(ss) = 42
  <2>1. PICK n \in Nat : n = 42
    OBVIOUS
  <2>2. ss \in [1..n -> Seq(Window)]
    BY <1>4, <1>5, <2>1 DEF OnPanel
  <2>3. ss \in Seq(Seq(Window)) /\ Len(ss) = n
    BY <2>2, ListOf
  <2> QED
    BY <2>1, <2>3
<1>7. Gathers(fs, ss, 42)
  BY <1>1, <1>4, <1>6, FlattenPaints
<1>8. ASSUME NEW a \in 0..(Width - 1), NEW b \in 0..(Height - 1), NEW colour
      PROVE  Paints(fs, a, b, colour) <=> /\ x <= a /\ a < x + 6 * s /\ y <= b /\ b < y + 7 * s
                                          /\ colour = Ink(glyph, (a - x) \div s, (b - y) \div s)
  <2> DEFINE col == (a - x) \div s
             row == (b - y) \div s
  <2>0. a \in Int /\ b \in Int /\ a - x \in Int /\ b - y \in Int /\ col \in Int /\ row \in Int
    BY PanelSize
  <2>1. ASSUME NEW p \in 0..5, NEW q \in 0..6
        PROVE  Paints(Cell(p, q), a, b, colour) <=> p = col /\ q = row /\ colour = Ink(glyph, p, q)
    <3>1. Paints(Cell(p, q), a, b, colour)
            <=> /\ colour = Ink(glyph, p, q)
                /\ x + p * s <= a /\ a < x + p * s + s /\ y + q * s <= b /\ b < y + q * s + s
      BY <1>3 DEF PaintsRect
    <3>2. (p * s <= a - x /\ a - x < p * s + s) <=> p = col
      BY <2>0, BoxOf
    <3>3. (q * s <= b - y /\ b - y < q * s + s) <=> q = row
      BY <2>0, BoxOf
    <3>4. p * s \in Int /\ q * s \in Int
      OBVIOUS
    <3>5. (x + p * s <= a /\ a < x + p * s + s) <=> (p * s <= a - x /\ a - x < p * s + s)
      BY <2>0, <3>4
    <3>6. (y + q * s <= b /\ b < y + q * s + s) <=> (q * s <= b - y /\ b - y < q * s + s)
      BY <2>0, <3>4
    <3> HIDE DEF col, row
    <3> QED
      BY <3>1, <3>2, <3>3, <3>5, <3>6
  <2>2. /\ col \in 0..5 <=> x <= a /\ a < x + 6 * s
        /\ row \in 0..6 <=> y <= b /\ b < y + 7 * s
    <3>1. CASE s = 1
      BY <2>0, <3>1
    <3>2. CASE s = 2
      BY <2>0, <3>2
    <3>3. CASE s = 3
      BY <2>0, <3>3
    <3> QED
      BY <3>1, <3>2, <3>3
  <2> HIDE DEF col, row
  <2>3. Paints(fs, a, b, colour) <=> \E k \in 1..42 : Paints(ss[k], a, b, colour)
    BY <1>7 DEF Gathers
  <2>4. ASSUME NEW k \in 1..42, Paints(ss[k], a, b, colour)
        PROVE  col \in 0..5 /\ row \in 0..6 /\ colour = Ink(glyph, col, row)
    <3> DEFINE p == (k - 1) \div 7
               q == (k - 1) % 7
    <3>1. p \in 0..5 /\ q \in 0..6 /\ ss[k] = Cell(p, q)
      BY <1>2, <1>4
    <3> HIDE DEF p, q
    <3> QED
      BY <2>1, <2>4, <3>1
  <2>5. ASSUME col \in 0..5, row \in 0..6, colour = Ink(glyph, col, row)
        PROVE  \E k \in 1..42 : Paints(ss[k], a, b, colour)
    <3> DEFINE k == 7 * col + row + 1
    <3>1. k \in 1..42 /\ (k - 1) \div 7 = col /\ (k - 1) % 7 = row
      BY <2>5
    <3> HIDE DEF k
    <3>2. ss[k] = Cell(col, row)
      BY <1>4, <3>1
    <3> QED
      BY <2>1, <2>5, <3>1, <3>2
  <2>6. Paints(fs, a, b, colour) <=> /\ x <= a /\ a < x + 6 * s /\ y <= b /\ b < y + 7 * s
                                     /\ colour = Ink(glyph, col, row)
    BY <2>2, <2>3, <2>4, <2>5
  <2> QED
    BY <2>6 DEF col, row
<1>9. OnPanel(fs)
  BY <1>7 DEF Gathers
<1> QED
  BY <1>8, <1>9 DEF PaintsGlyph, fs

\* Nothing is painted but a line of text.
InGlyph(a, b, colour, x, y, glyphs, s, k) ==
  /\ x + (k - 1) * 6 * s <= a /\ a < x + (k - 1) * 6 * s + 6 * s /\ y <= b /\ b < y + 7 * s
  /\ colour = Ink(glyphs[k], (a - (x + (k - 1) * 6 * s)) \div s, (b - y) \div s)

PaintsLine(fs, x, y, glyphs, s) ==
  /\ OnPanel(fs)
  /\ \A a \in 0..(Width - 1), b \in 0..(Height - 1) : \A colour :
       Paints(fs, a, b, colour) <=> \E k \in 1..Len(glyphs) : InGlyph(a, b, colour, x, y, glyphs, s, k)

TextLine(x, y, glyphs, s) ==
  FlattenSeq([k \in 1..Len(glyphs) |-> DrawChar(x + (k - 1) * 6 * s, y, glyphs[k], "fg", "bg", s)])

LEMMA LinePaints ==
  ASSUME NEW x \in Int, NEW y \in Int, NEW T, NEW glyphs \in Seq(T), NEW s \in 1..3
  PROVE  PaintsLine(TextLine(x, y, glyphs, s), x, y, glyphs, s)
<1> DEFINE n == Len(glyphs)
           ss == [k \in 1..n |-> DrawChar(x + (k - 1) * 6 * s, y, glyphs[k], "fg", "bg", s)]
           fs == TextLine(x, y, glyphs, s)
<1>1. n \in Nat /\ fs = FlattenSeq(ss)
  BY DEF TextLine
<1> HIDE DEF n
<1>2. ASSUME NEW k \in 1..n PROVE PaintsGlyph(ss[k], x + (k - 1) * 6 * s, y, glyphs[k], s)
  <2>1. ss[k] = DrawChar(x + (k - 1) * 6 * s, y, glyphs[k], "fg", "bg", s) /\ x + (k - 1) * 6 * s \in Int
    BY <1>1
  <2> HIDE DEF ss
  <2> QED
    BY <2>1, GlyphPaints
<1>3. ss = [k \in 1..n |-> ss[k]]
  OBVIOUS
<1> HIDE DEF ss, fs
<1>4. \A k \in 1..n : OnPanel(ss[k]) /\ ss[k] \in Seq(Window)
  BY <1>2 DEF PaintsGlyph, OnPanel
<1>5. ss \in Seq(Seq(Window)) /\ Len(ss) = n
  <2>1. ss \in [1..n -> Seq(Window)]
    BY <1>3, <1>4
  <2> QED
    BY <1>1, <2>1, ListOf
<1>6. Gathers(fs, ss, n)
  BY <1>1, <1>4, <1>5, FlattenPaints
<1>7. ASSUME NEW a \in 0..(Width - 1), NEW b \in 0..(Height - 1), NEW colour
      PROVE  Paints(fs, a, b, colour) <=> \E k \in 1..n : InGlyph(a, b, colour, x, y, glyphs, s, k)
  <2>1. Paints(fs, a, b, colour) <=> \E k \in 1..n : Paints(ss[k], a, b, colour)
    BY <1>6 DEF Gathers
  <2>2. ASSUME NEW k \in 1..n
        PROVE  Paints(ss[k], a, b, colour) <=> InGlyph(a, b, colour, x, y, glyphs, s, k)
    BY <1>2 DEF PaintsGlyph, InGlyph
  <2> QED
    BY <2>1, <2>2
<1>8. OnPanel(fs)
  BY <1>6 DEF Gathers
<1> QED
  BY <1>7, <1>8 DEF PaintsLine, fs, n

\* Nothing is painted but a text.
PaintsText(fs, x, y, lines, s) ==
  /\ OnPanel(fs)
  /\ \A a \in 0..(Width - 1), b \in 0..(Height - 1) : \A colour :
       Paints(fs, a, b, colour) <=> \E l \in 1..Len(lines) : \E k \in 1..Len(lines[l]) :
         InGlyph(a, b, colour, x, y + (l - 1) * 8 * s, lines[l], s, k)

LEMMA StringPaints ==
  ASSUME NEW x \in Int, NEW y \in Int, NEW T, NEW lines \in Seq(Seq(T)), NEW s \in 1..3
  PROVE  PaintsText(DrawString(x, y, lines, "fg", "bg", s), x, y, lines, s)
<1> DEFINE fs == DrawString(x, y, lines, "fg", "bg", s)
           n == Len(lines)
           ss == [l \in 1..n |-> TextLine(x, y + (l - 1) * 8 * s, lines[l], s)]
<1>1. n \in Nat /\ fs = FlattenSeq(ss)
  BY DEF DrawString, TextLine
<1> HIDE DEF fs
<1>2. \A l \in 1..n : lines[l] \in Seq(T)
  OBVIOUS
<1> HIDE DEF n
<1>3. ASSUME NEW l \in 1..n PROVE PaintsLine(ss[l], x, y + (l - 1) * 8 * s, lines[l], s)
  <2>1. ss[l] = TextLine(x, y + (l - 1) * 8 * s, lines[l], s) /\ y + (l - 1) * 8 * s \in Int
    BY <1>1
  <2> HIDE DEF ss
  <2> QED
    BY <1>2, <2>1, LinePaints
<1>4. ss = [l \in 1..n |-> ss[l]]
  OBVIOUS
<1> HIDE DEF ss
<1>5. \A l \in 1..n : OnPanel(ss[l]) /\ ss[l] \in Seq(Window)
  BY <1>3 DEF PaintsLine, OnPanel
<1>6. ss \in Seq(Seq(Window)) /\ Len(ss) = n
  <2>1. ss \in [1..n -> Seq(Window)]
    BY <1>4, <1>5
  <2> QED
    BY <1>1, <2>1, ListOf
<1>7. Gathers(fs, ss, n)
  BY <1>1, <1>5, <1>6, FlattenPaints
<1>8. ASSUME NEW a \in 0..(Width - 1), NEW b \in 0..(Height - 1), NEW colour
      PROVE  Paints(fs, a, b, colour) <=> \E l \in 1..n : \E k \in 1..Len(lines[l]) :
                InGlyph(a, b, colour, x, y + (l - 1) * 8 * s, lines[l], s, k)
  <2>1. Paints(fs, a, b, colour) <=> \E l \in 1..n : Paints(ss[l], a, b, colour)
    BY <1>7 DEF Gathers
  <2>2. ASSUME NEW l \in 1..n
        PROVE  Paints(ss[l], a, b, colour)
                 <=> \E k \in 1..Len(lines[l]) : InGlyph(a, b, colour, x, y + (l - 1) * 8 * s, lines[l], s, k)
    BY <1>3 DEF PaintsLine
  <2> QED
    BY <2>1, <2>2
<1> QED
  BY <1>7, <1>8 DEF Gathers, n, PaintsText, fs

LEMMA DrawsString ==
  ASSUME NEW c \in [op: {"string"}, x: Int, y: Int, size: 1..3, lines: Seq(Seq(SUBSET ((0..4) \X (0..6))))]
  PROVE  Draws(DrawString(c.x, c.y, c.lines, "fg", "bg", c.size), c)
<1> DEFINE fs == DrawString(c.x, c.y, c.lines, "fg", "bg", c.size)
           Glyph == SUBSET ((0..4) \X (0..6))
<1>1. c.x \in Int /\ c.y \in Int /\ c.size \in 1..3 /\ c.op = "string" /\ c.lines \in Seq(Seq(Glyph))
  OBVIOUS
<1> HIDE DEF fs, Glyph
<1>2. PaintsText(fs, c.x, c.y, c.lines, c.size)
  BY <1>1, StringPaints DEF fs
<1>3. ASSUME NEW a \in 0..(Width - 1), NEW b \in 0..(Height - 1), NEW colour
      PROVE  (\E l \in 1..Len(c.lines) : \E k \in 1..Len(c.lines[l]) :
                InGlyph(a, b, colour, c.x, c.y + (l - 1) * 8 * c.size, c.lines[l], c.size, k))
               <=> colour # "none" /\ colour = Figure(c, a - c.x, b - c.y)
  <2> DEFINE s == c.size
             i == a - c.x
             j == b - c.y
             row == j \div (8 * s) + 1
             col == i \div (6 * s) + 1
             p == (i \div s) % 6
             q == (j \div s) % 8
  <2>1. i \in Int /\ j \in Int /\ s \in 1..3
    BY <1>1, PanelSize
  <2>2. DOMAIN c.lines = 1..Len(c.lines) /\ \A l \in 1..Len(c.lines) : DOMAIN c.lines[l] = 1..Len(c.lines[l]) /\ Len(c.lines[l]) \in Nat
    BY <1>1
  <2>3. Len(c.lines) \in Nat
    BY <1>1
  <2>4. Figure(c, i, j) = IF row \in DOMAIN c.lines /\ col \in DOMAIN c.lines[row] /\ q < 7
                            THEN Ink(c.lines[row][col], p, q) ELSE "none"
    <3>1. <<p, q>>[2] = q
      OBVIOUS
    <3>2. Figure(c, i, j) = IF row \in DOMAIN c.lines /\ col \in DOMAIN c.lines[row] /\ <<p, q>>[2] < 7
                              THEN IF <<p, q>> \in c.lines[row][col] THEN "fg" ELSE "bg" ELSE "none"
      BY <1>1, Zenon DEF Figure
    <3> HIDE DEF p, q, row, col
    <3> QED
      BY <3>1, <3>2 DEF Ink
  <2>5. ASSUME NEW l \in Int, NEW k \in Int
        PROVE  InGlyph(a, b, colour, c.x, c.y + (l - 1) * 8 * s, c.lines[l], s, k)
                 <=> l = row /\ k = col /\ q < 7 /\ colour = Ink(c.lines[l][k], p, q)
    <3> DEFINE u == (k - 1) * 6 * s
               v == (l - 1) * 8 * s
    <3>1. u \in Int /\ v \in Int
      BY <2>1
    <3>2. /\ (u <= i /\ i < u + 6 * s) <=> k = col
          /\ k = col => (i - u) \div s = p
      BY <2>1, ColumnOf
    <3>3. /\ (v <= j /\ j < v + 7 * s) <=> l = row /\ q < 7
          /\ l = row => (j - v) \div s = q
      BY <2>1, LineOf
    <3> HIDE DEF row, col, p, q
    <3>7. InGlyph(a, b, colour, c.x, c.y + v, c.lines[l], s, k)
            <=> /\ c.x + u <= a /\ a < c.x + u + 6 * s /\ c.y + v <= b /\ b < c.y + v + 7 * s
                /\ colour = Ink(c.lines[l][k], (a - (c.x + u)) \div s, (b - (c.y + v)) \div s)
      BY DEF InGlyph
    <3> HIDE DEF u, v
    <3> DEFINE e == 6 * s
               f == 7 * s
    <3>4. a \in Int /\ b \in Int /\ e \in Int /\ f \in Int
      BY <2>1, PanelSize
    <3> HIDE DEF e, f, s
    <3>5. /\ (c.x + u <= a /\ a < c.x + u + e) <=> (u <= i /\ i < u + e)
          /\ a - (c.x + u) = i - u
      BY <1>1, <3>1, <3>4, Shifted
    <3>6. /\ (c.y + v <= b /\ b < c.y + v + f) <=> (v <= j /\ j < v + f)
          /\ b - (c.y + v) = j - v
      BY <1>1, <3>1, <3>4, Shifted
    <3> USE DEF e, f
    <3> HIDE DEF i, j
    <3>8. InGlyph(a, b, colour, c.x, c.y + v, c.lines[l], s, k)
            <=> l = row /\ k = col /\ q < 7 /\ colour = Ink(c.lines[l][k], p, q)
      BY <3>2, <3>3, <3>5, <3>6, <3>7
    <3> QED
      BY <3>8 DEF v, s
  <2>6. row \in Int /\ col \in Int
    BY <2>1, Quotients
  <2> HIDE DEF row, col, p, q, i, j, s
  <2>7. \A l \in 1..Len(c.lines) : l \in Int /\ \A k \in 1..Len(c.lines[l]) : k \in Int
    BY <2>2, <2>3
  <2>8. (\E l \in 1..Len(c.lines) : \E k \in 1..Len(c.lines[l]) :
                InGlyph(a, b, colour, c.x, c.y + (l - 1) * 8 * s, c.lines[l], s, k))
          <=> /\ row \in 1..Len(c.lines) /\ col \in 1..Len(c.lines[row]) /\ q < 7
              /\ colour = Ink(c.lines[row][col], p, q)
    BY <2>5, <2>7
  <2>9. \A g, m, r : Ink(g, m, r) # "none"
    BY DEF Ink
  <2>10. (\E l \in 1..Len(c.lines) : \E k \in 1..Len(c.lines[l]) :
                InGlyph(a, b, colour, c.x, c.y + (l - 1) * 8 * s, c.lines[l], s, k))
           <=> colour # "none" /\ colour = Figure(c, i, j)
    BY <2>2, <2>4, <2>8, <2>9
  <2> QED
    BY <2>10 DEF i, j, s
<1> QED
  BY <1>2, <1>3 DEF Draws, PaintsText, fs

LEMMA DrawsBitmap ==
  ASSUME NEW c \in [op: {"bitmap"}, x: Int, y: Int, w: Nat, h: Nat, bits: SUBSET (Nat \X Nat)]
  PROVE  Draws(DrawBitmap(c.x, c.y, c.bits, c.w, c.h, "fg", "bg"), c)
<1> DEFINE x == c.x
           y == c.y
           w == c.w
           h == c.h
           n == w * h
           fs == DrawBitmap(c.x, c.y, c.bits, c.w, c.h, "fg", "bg")
           Cell(col, row) == DrawPixel(x + col, y + row, Ink(c.bits, col, row))
           ss == [k \in 1..n |-> Cell((k - 1) % w, (k - 1) \div w)]
<1>1. x \in Int /\ y \in Int /\ w \in Nat /\ h \in Nat /\ c.op = "bitmap"
  OBVIOUS
<1>2. n \in Nat
  BY <1>1
<1>3. fs = FlattenSeq(ss)
  BY DEF DrawBitmap, Ink
<1>4. \A i, j : Figure(c, i, j) = IF i \in 0..(w - 1) /\ j \in 0..(h - 1) THEN Ink(c.bits, i, j) ELSE "none"
  BY <1>1, Zenon DEF Figure, Ink
<1> HIDE DEF x, y, w, h, fs, n
<1>5. ASSUME NEW k \in 1..n
      PROVE  (k - 1) % w \in 0..(w - 1) /\ (k - 1) \div w \in 0..(h - 1)
  <2>1. w # 0
    BY <1>1 DEF n
  <2>2. k - 1 \in 0..(w * h - 1)
    BY <1>2 DEF n
  <2> QED
    BY <1>1, <2>1, <2>2, RowOfDiv
<1>6. ASSUME NEW col \in Nat, NEW row \in Nat
      PROVE  PaintsRect(Cell(col, row), x + col, y + row, 1, 1, Ink(c.bits, col, row))
  <2>1. x + col \in Int /\ y + row \in Int /\ Ink(c.bits, col, row) \in {"fg", "bg"}
    BY <1>1 DEF Ink
  <2> QED
    BY <2>1, PixelPaints
<1> HIDE DEF Cell
<1>7. \A k \in 1..n : ss[k] = Cell((k - 1) % w, (k - 1) \div w)
  OBVIOUS
<1>8. ss = [k \in 1..n |-> ss[k]]
  OBVIOUS
<1> HIDE DEF ss
<1>9. \A k \in 1..n : OnPanel(ss[k]) /\ ss[k] \in Seq(Window)
  <2> TAKE k \in 1..n
  <2> DEFINE col == (k - 1) % w
             row == (k - 1) \div w
  <2>1. col \in Nat /\ row \in Nat /\ ss[k] = Cell(col, row)
    BY <1>1, <1>5, <1>7
  <2> HIDE DEF col, row
  <2>2. OnPanel(ss[k])
    BY <1>6, <2>1 DEF PaintsRect
  <2> QED
    BY <2>2 DEF OnPanel
<1>10. ss \in Seq(Seq(Window)) /\ Len(ss) = n
  <2>1. ss \in [1..n -> Seq(Window)]
    BY <1>8, <1>9
  <2> QED
    BY <1>2, <2>1, ListOf
<1>11. Gathers(fs, ss, n)
  BY <1>2, <1>3, <1>9, <1>10, FlattenPaints
<1>12. ASSUME NEW a \in 0..(Width - 1), NEW b \in 0..(Height - 1), NEW colour
       PROVE  Paints(fs, a, b, colour) <=> colour # "none" /\ colour = Figure(c, a - x, b - y)
  <2> DEFINE i == a - x
             j == b - y
  <2>1. a \in Int /\ b \in Int /\ i \in Int /\ j \in Int
    BY <1>1, PanelSize
  <2>2. ASSUME NEW col \in Nat, NEW row \in Nat
        PROVE  Paints(Cell(col, row), a, b, colour) <=> col = i /\ row = j /\ colour = Ink(c.bits, col, row)
    <3>1. Paints(Cell(col, row), a, b, colour)
            <=> /\ colour = Ink(c.bits, col, row)
                /\ x + col <= a /\ a < x + col + 1 /\ y + row <= b /\ b < y + row + 1
      BY <1>6 DEF PaintsRect
    <3>2. (x + col <= a /\ a < x + col + 1 /\ y + row <= b /\ b < y + row + 1) <=> col = i /\ row = j
      BY <1>1, <2>1
    <3> QED
      BY <3>1, <3>2
  <2> HIDE DEF i, j
  <2>3. Paints(fs, a, b, colour) <=> \E k \in 1..n : Paints(ss[k], a, b, colour)
    BY <1>11 DEF Gathers
  <2>4. ASSUME NEW k \in 1..n, Paints(ss[k], a, b, colour)
        PROVE  i \in 0..(w - 1) /\ j \in 0..(h - 1) /\ colour = Ink(c.bits, i, j)
    <3> DEFINE col == (k - 1) % w
               row == (k - 1) \div w
    <3>1. col \in 0..(w - 1) /\ row \in 0..(h - 1) /\ ss[k] = Cell(col, row)
      BY <1>5, <1>7
    <3> HIDE DEF col, row
    <3>2. col \in Nat /\ row \in Nat
      BY <1>1, <3>1
    <3> QED
      BY <2>2, <2>4, <3>1, <3>2
  <2>5. ASSUME i \in 0..(w - 1), j \in 0..(h - 1), colour = Ink(c.bits, i, j)
        PROVE  \E k \in 1..n : Paints(ss[k], a, b, colour)
    <3> DEFINE m == j * w + i
               k == m + 1
    <3>1. w \in Nat \ {0} /\ i \in 0..(w - 1) /\ j \in Nat
      BY <1>1, <2>5
    <3>2. m % w = i /\ m \div w = j
      BY <3>1, DivOfRow
    <3>3. m \in 0..(n - 1)
      <4>1. j * w \in Nat /\ m \in Nat
        BY <3>1
      <4>2. (j + 1) * w <= h * w
        BY <1>1, <2>5
      <4> QED
        BY <1>1, <2>5, <4>1, <4>2 DEF n
    <3> HIDE DEF m
    <3>4. k \in 1..n /\ k - 1 = m
      BY <1>2, <3>3
    <3> HIDE DEF k
    <3>5. ss[k] = Cell(i, j) /\ i \in Nat /\ j \in Nat
      BY <1>7, <3>1, <3>2, <3>4
    <3> QED
      BY <2>2, <2>5, <3>4, <3>5
  <2>6. Ink(c.bits, i, j) # "none"
    BY DEF Ink
  <2>7. Paints(fs, a, b, colour) <=> colour # "none" /\ colour = Figure(c, i, j)
    BY <1>4, <2>3, <2>4, <2>5, <2>6
  <2> QED
    BY <2>7 DEF i, j
<1>13. OnPanel(fs)
  BY <1>11 DEF Gathers
<1> QED
  BY <1>12, <1>13 DEF Draws, fs, x, y, w, h

\* Whatever is drawn, its windows paint its figure and nothing else.
LEMMA WindowsDraw ==
  ASSUME NEW c \in Drawing
  PROVE  Draws(Windows(c), c)
<1>1. CASE c \in [op: {"rect"}, x: Int, y: Int, w: Int, h: Int]
  <2>1. c.op = "rect"
    BY <1>1
  <2>2. Windows(c) = FillRect(c.x, c.y, c.w, c.h, "fg")
    BY <2>1 DEF Windows
  <2> QED
    BY <1>1, <2>2, DrawsRect
<1>2. CASE c \in [op: {"rrect", "frame"}, x: Int, y: Int, w: Int, h: Int, r: Int]
  <2>1. c.op \in {"rrect", "frame"}
    BY <1>2
  <2>2. CASE c.op = "rrect"
    <3>1. Windows(c) = FillRRect(c.x, c.y, c.w, c.h, c.r, "fg")
      BY <2>2 DEF Windows
    <3> QED
      BY <1>2, <2>2, <3>1, DrawsRound
  <2>3. CASE c.op = "frame"
    <3>1. Windows(c) = DrawRRect(c.x, c.y, c.w, c.h, c.r, "fg")
      BY <2>3 DEF Windows
    <3> QED
      BY <1>2, <2>3, <3>1, DrawsFrame
  <2> QED
    BY <2>1, <2>2, <2>3
<1>3. CASE c \in [op: {"string"}, x: Int, y: Int, size: 1..3, lines: Seq(Seq(SUBSET ((0..4) \X (0..6))))]
  <2>1. c.op = "string"
    BY <1>3
  <2>2. Windows(c) = DrawString(c.x, c.y, c.lines, "fg", "bg", c.size)
    BY <2>1 DEF Windows
  <2> QED
    BY <1>3, <2>2, DrawsString
<1>4. CASE c \in [op: {"bitmap"}, x: Int, y: Int, w: Nat, h: Nat, bits: SUBSET (Nat \X Nat)]
  <2>1. c.op = "bitmap"
    BY <1>4
  <2>2. Windows(c) = DrawBitmap(c.x, c.y, c.bits, c.w, c.h, "fg", "bg")
    BY <2>1 DEF Windows
  <2> QED
    BY <1>4, <2>2, DrawsBitmap
<1> QED
  BY <1>1, <1>2, <1>3, <1>4 DEF Drawing

\* While the call c is drawn: the windows left to fill paint its figure only,
\* what has been written is of its figure, and nothing of it on the panel is
\* neither written nor still to be painted.
Colours == {"fg", "bg"}

FigureOk(c, fs, r) ==
  /\ OnPanel(fs)
  /\ \A a \in 0..(Width - 1), b \in 0..(Height - 1) : \A colour :
       Paints(fs, a, b, colour) => colour # "none" /\ colour = Figure(c, a - c.x, b - c.y)
  /\ r = [p \in DOMAIN r |-> r[p]]
  /\ \A p \in DOMAIN r : \E a \in 0..(Width - 1), b \in 0..(Height - 1) :
       p = <<a + XStart, b + YStart>> /\ r[p] # "none" /\ r[p] = Figure(c, a - c.x, b - c.y)
  /\ \A a \in 0..(Width - 1), b \in 0..(Height - 1) :
       Figure(c, a - c.x, b - c.y) # "none" =>
         <<a + XStart, b + YStart>> \in DOMAIN r \/ \E colour : Paints(fs, a, b, colour)

FigureInv ==
  \/ call = NoDrawing /\ floods = <<>>
  \/ call \in Calls /\ FigureOk(call, floods, ram)

LEMMA FigureStarts ==
  ASSUME NEW c \in Calls
  PROVE  FigureOk(c, Windows(c), EmptyRam)
<1> DEFINE fs == Windows(c)
<1>1. c \in Drawing
  BY TftAssumption
<1>2. Draws(fs, c)
  BY <1>1, WindowsDraw
<1> HIDE DEF fs
<1>3. DOMAIN EmptyRam = {} /\ EmptyRam = [p \in DOMAIN EmptyRam |-> EmptyRam[p]]
  BY DEF EmptyRam
<1>4. FigureOk(c, fs, EmptyRam)
  BY <1>2, <1>3 DEF FigureOk, Draws
<1> QED
  BY <1>4 DEF fs

PaintsBoth(fs, f, t) ==
  \A a, b, c : Paints(fs, a, b, c)
                 <=> Paints(t, a, b, c) \/ (<<a + XStart, b + YStart>> \in Pixels(f) /\ c = f.colour)

LEMMA FirstWindow ==
  ASSUME NEW fs, OnPanel(fs), fs # <<>>
  PROVE  /\ OnPanel(Tail(fs)) /\ Head(fs) \in Window
         /\ \A p \in Pixels(Head(fs)) : \E a \in 0..(Width - 1), b \in 0..(Height - 1) : p = <<a + XStart, b + YStart>>
         /\ PaintsBoth(fs, Head(fs), Tail(fs))
<1> DEFINE t == Tail(fs)
           f == Head(fs)
           n == Len(fs)
<1>1. fs \in Seq(Window)
  BY DEF OnPanel
<1>2. /\ n \in Nat \ {0} /\ DOMAIN fs = 1..n /\ t \in Seq(Window) /\ DOMAIN t = 1..(n - 1)
      /\ f = fs[1] /\ \A k \in 1..(n - 1) : t[k] = fs[k + 1]
  BY <1>1
<1>3. f \in Window
  BY <1>1, <1>2
<1> HIDE DEF t, f, n
<1>4. \A k \in 1..n : k = 1 \/ (k - 1 \in 1..(n - 1) /\ fs[k] = t[k - 1])
  BY <1>2
<1>5. 1 \in 1..n /\ \A k \in 1..(n - 1) : k + 1 \in 1..n
  BY <1>2
<1>6. \A k \in DOMAIN fs : \A p \in Pixels(fs[k]) :
        \E a \in 0..(Width - 1), b \in 0..(Height - 1) : p = <<a + XStart, b + YStart>>
  BY DEF OnPanel
<1>7. OnPanel(t)
  <2>1. ASSUME NEW k \in DOMAIN t
        PROVE  k + 1 \in DOMAIN fs /\ t[k] = fs[k + 1]
    BY <1>2, <1>5
  <2>2. \A k \in DOMAIN t : \A p \in Pixels(t[k]) :
          \E a \in 0..(Width - 1), b \in 0..(Height - 1) : p = <<a + XStart, b + YStart>>
    BY <1>6, <2>1
  <2> QED
    BY <1>2, <2>2 DEF OnPanel
<1>8. \A p \in Pixels(f) : \E a \in 0..(Width - 1), b \in 0..(Height - 1) : p = <<a + XStart, b + YStart>>
  <2>1. 1 \in DOMAIN fs /\ f = fs[1]
    BY <1>2, <1>5
  <2> QED
    BY <1>6, <2>1
<1>9. ASSUME NEW a, NEW b, NEW c
      PROVE  Paints(fs, a, b, c)
               <=> Paints(t, a, b, c) \/ (<<a + XStart, b + YStart>> \in Pixels(f) /\ c = f.colour)
  BY <1>2, <1>4, <1>5 DEF Paints
<1>10. PaintsBoth(fs, f, t)
  BY <1>9 DEF PaintsBoth
<1> QED
  BY <1>3, <1>7, <1>8, <1>10 DEF t, f

LEMMA FigureFills ==
  ASSUME NEW c \in Calls, NEW fs, NEW r, NEW s, FigureOk(c, fs, r), fs # <<>>,
         s = Over(r, Pixels(Head(fs)), Head(fs).colour)
  PROVE  FigureOk(c, Tail(fs), s)
<1> DEFINE t == Tail(fs)
           f == Head(fs)
           S == Pixels(f)
<1>1. OnPanel(fs)
  BY DEF FigureOk
<1>2. /\ OnPanel(t)
      /\ \A p \in S : \E a \in 0..(Width - 1), b \in 0..(Height - 1) : p = <<a + XStart, b + YStart>>
      /\ PaintsBoth(fs, f, t)
  BY <1>1, FirstWindow
<1>3. s = Over(r, S, f.colour)
  OBVIOUS
<1> DEFINE col == f.colour
<1> HIDE DEF S, f, t, col
<1>4. /\ DOMAIN s = S \cup DOMAIN r /\ s = [p \in DOMAIN s |-> s[p]]
      /\ \A p \in S : s[p] = col
      /\ \A p \in DOMAIN s : p \notin S => p \in DOMAIN r /\ s[p] = r[p]
  <2>1. s = Over(r, S, col)
    BY <1>3 DEF col
  <2> QED
    BY <2>1 DEF Over
<1> USE DEF PaintsBoth, S, col
<1>5. \A a \in 0..(Width - 1), b \in 0..(Height - 1) : \A colour :
        Paints(fs, a, b, colour) => colour # "none" /\ colour = Figure(c, a - c.x, b - c.y)
  BY DEF FigureOk
<1>6. ASSUME NEW p \in DOMAIN s
      PROVE  \E a \in 0..(Width - 1), b \in 0..(Height - 1) :
               p = <<a + XStart, b + YStart>> /\ s[p] # "none" /\ s[p] = Figure(c, a - c.x, b - c.y)
  <2>1. CASE p \in S
    <3>1. PICK a \in 0..(Width - 1), b \in 0..(Height - 1) : p = <<a + XStart, b + YStart>>
      BY <1>2, <2>1
    <3>2. s[p] = f.colour /\ Paints(fs, a, b, f.colour)
      BY <1>2, <1>4, <2>1, <3>1
    <3> QED
      BY <1>5, <3>1, <3>2
  <2>2. CASE p \notin S
    <3>1. p \in DOMAIN r /\ s[p] = r[p]
      BY <1>4, <2>2
    <3> QED
      BY <3>1 DEF FigureOk
  <2> QED
    BY <2>1, <2>2
<1>7. ASSUME NEW a \in 0..(Width - 1), NEW b \in 0..(Height - 1), Figure(c, a - c.x, b - c.y) # "none"
      PROVE  <<a + XStart, b + YStart>> \in DOMAIN s \/ \E colour : Paints(t, a, b, colour)
  <2>1. <<a + XStart, b + YStart>> \in DOMAIN r \/ \E colour : Paints(fs, a, b, colour)
    BY <1>7 DEF FigureOk
  <2> QED
    BY <1>2, <1>4, <2>1
<1>8. ASSUME NEW a \in 0..(Width - 1), NEW b \in 0..(Height - 1), NEW colour, Paints(t, a, b, colour)
      PROVE  colour # "none" /\ colour = Figure(c, a - c.x, b - c.y)
  <2>1. Paints(fs, a, b, colour)
    BY <1>2, <1>8
  <2> QED
    BY <1>5, <2>1
<1>9. FigureOk(c, t, s)
  BY <1>2, <1>4, <1>6, <1>7, <1>8 DEF FigureOk
<1> QED
  BY <1>9 DEF t

LEMMA FigureInit == TftInit => FigureInv
BY DEF TftInit, FigureInv

LEMMA FigureNext == FigureInv /\ [TftNext]_tftVars => FigureInv'
<1> SUFFICES ASSUME FigureInv, [TftNext]_tftVars PROVE FigureInv'
  OBVIOUS
<1>1. CASE InitStep
  BY <1>1 DEF InitStep, FigureInv
<1>2. ASSUME NEW level \in Levels, SetBacklight(level) PROVE FigureInv'
  BY <1>2 DEF SetBacklight, FigureInv
<1>3. ASSUME NEW c \in Calls, DrawCall(c) PROVE FigureInv'
  BY <1>3, FigureStarts DEF DrawCall, FigureInv
<1>4. CASE FillWindow
  <2>1. call \in Calls /\ FigureOk(call, floods, ram)
    BY <1>4 DEF FillWindow, FigureInv
  <2>2. FigureOk(call, floods', ram')
    BY <1>4, <2>1, FigureFills DEF FillWindow
  <2> QED
    BY <1>4, <2>1, <2>2 DEF FillWindow, FigureInv
<1>5. CASE CallDone
  BY <1>5 DEF CallDone, FigureInv
<1>6. CASE UNCHANGED tftVars
  BY <1>6 DEF tftVars, FigureInv
<1> QED
  BY <1>1, <1>2, <1>3, <1>4, <1>5, <1>6 DEF TftNext

LEMMA FigureDrawn ==
  ASSUME NEW c \in Calls, NEW r, FigureOk(c, <<>>, r)
  PROVE  LET drawn == {p \in (0..(Width - 1)) \X (0..(Height - 1)) :
                         Figure(c, p[1] - c.x, p[2] - c.y) # "none"}
         IN  r = [q \in {<<p[1] + XStart, p[2] + YStart>> : p \in drawn} |->
                    Figure(c, q[1] - XStart - c.x, q[2] - YStart - c.y)]
<1> DEFINE drawn == {p \in (0..(Width - 1)) \X (0..(Height - 1)) :
                       Figure(c, p[1] - c.x, p[2] - c.y) # "none"}
           there == {<<p[1] + XStart, p[2] + YStart>> : p \in drawn}
           F(a, b) == Figure(c, a - c.x, b - c.y)
<1>0. XStart \in Int /\ YStart \in Int /\ Width \in Nat /\ Height \in Nat
  BY TftAssumption
<1>1. \A a, b, colour : ~ Paints(<<>>, a, b, colour)
  BY NothingPainted
<1>2. \A q : q \in there <=> \E a \in 0..(Width - 1), b \in 0..(Height - 1) :
                               q = <<a + XStart, b + YStart>> /\ F(a, b) # "none"
  <2> HIDE DEF F
  <2> TAKE q
  <2>1. ASSUME q \in there
        PROVE  \E a \in 0..(Width - 1), b \in 0..(Height - 1) :
                 q = <<a + XStart, b + YStart>> /\ F(a, b) # "none"
    <3>1. PICK p \in drawn : q = <<p[1] + XStart, p[2] + YStart>>
      BY <2>1
    <3>2. p \in (0..(Width - 1)) \X (0..(Height - 1)) /\ F(p[1], p[2]) # "none"
      BY <3>1 DEF F
    <3> QED
      BY <3>1, <3>2
  <2>2. ASSUME NEW a \in 0..(Width - 1), NEW b \in 0..(Height - 1),
               q = <<a + XStart, b + YStart>>, F(a, b) # "none"
        PROVE  q \in there
    <3> DEFINE p == <<a, b>>
    <3>1. p \in (0..(Width - 1)) \X (0..(Height - 1)) /\ p[1] = a /\ p[2] = b
      OBVIOUS
    <3> HIDE DEF p
    <3>2. p \in drawn
      BY <2>2, <3>1 DEF F
    <3> QED
      BY <2>2, <3>1, <3>2
  <2> QED
    BY <2>1, <2>2
<1> HIDE DEF F, there
<1>3. DOMAIN r = there
  <2>1. \A q \in DOMAIN r : q \in there
    BY <1>2 DEF FigureOk, F
  <2>2. \A q \in there : q \in DOMAIN r
    BY <1>1, <1>2 DEF FigureOk, F
  <2> QED
    BY <2>1, <2>2
<1>4. ASSUME NEW q \in there PROVE r[q] = F(q[1] - XStart, q[2] - YStart)
  <2>1. PICK a \in 0..(Width - 1), b \in 0..(Height - 1) : q = <<a + XStart, b + YStart>> /\ r[q] = F(a, b)
    BY <1>3 DEF FigureOk, F
  <2>2. q[1] = a + XStart /\ q[2] = b + YStart
    BY <2>1
  <2>3. q[1] - XStart = a /\ q[2] - YStart = b
    BY <1>0, <2>2
  <2> QED
    BY <2>1, <2>3
<1>5. r = [q \in there |-> F(q[1] - XStart, q[2] - YStart)]
  BY <1>3, <1>4 DEF FigureOk
<1> QED
  BY <1>5 DEF F, there

LEMMA FigureIsDrawn == FigureInv => DrawsFigure
<1> SUFFICES ASSUME FigureInv, call # NoDrawing, floods = <<>> PROVE DrawsFigure
  BY DEF DrawsFigure
<1>1. call \in Calls /\ FigureOk(call, <<>>, ram)
  BY DEF FigureInv
<1> QED
  BY <1>1, FigureDrawn DEF DrawsFigure

\* DrawsFigure for any rectangles, rounded rectangles, frames, texts and bitmaps,
\* at any place, on or across or beyond the edges of a panel of any size: what a
\* call has written when it ends is the part of its figure on the panel, in its
\* colours, and nothing else (screen_st7735.c, fill_rrect and draw_rrect of
\* screen_display.c), with the backlight set at any time.
THEOREM FiguresAreDrawn == TftSpec => []DrawsFigure
<1>1. TftInit => FigureInv
  BY FigureInit
<1>2. FigureInv /\ [TftNext]_tftVars => FigureInv'
  BY FigureNext
<1>3. FigureInv => DrawsFigure
  BY FigureIsDrawn
<1> QED
  BY <1>1, <1>2, <1>3, PTL DEF TftSpec

\* The cube of a level, scaled back, is a level.
LEMMA CubeFits ==
  ASSUME NEW b \in Nat \ {0}, NEW v \in 0..b
  PROVE  (v * v * v) \div (b * b) \in 0..b
<1> DEFINE m == v * v
           n == m * v
           d == b * b
           q == n \div d
<1>1. m \in Nat /\ d \in Nat \ {0} /\ m <= d
  <2>1. v * v <= v * b /\ v * b <= b * b
    OBVIOUS
  <2>2. v * v \in Nat /\ b * b \in Nat \ {0} /\ v * b \in Nat
    OBVIOUS
  <2> QED
    BY <2>1, <2>2
<1> HIDE DEF m, d
<1>2. n \in Nat /\ n <= b * d
  <2>1. m * v <= m * b /\ m * b <= d * b /\ m * v \in Nat /\ m * b \in Nat /\ d * b = b * d /\ b * d \in Nat
    BY <1>1
  <2> QED
    BY <2>1
<1> HIDE DEF n
<1>3. q \in Nat /\ d * q <= n
  BY <1>1, <1>2
<1> HIDE DEF q
<1>4. q <= b
  <2>1. d * q <= d * b
    BY <1>1, <1>2, <1>3
  <2> QED
    BY <1>1, <1>3, <2>1
<1>5. q \in 0..b
  BY <1>3, <1>4
<1> QED
  BY <1>5 DEF q, n, m, d

LEMMA BacklightFits ==
  ASSUME NEW level \in 0..255
  PROVE  Backlight(level) \in 0..255
BY CubeFits DEF Backlight

LEMMA TftTypesInit == TftInit => TftTypeOK
BY DEF TftInit, TftTypeOK, Ready, Cleared, EmptyRam

LEMMA TftTypesNext == FigureInv /\ TftTypeOK /\ [TftNext]_tftVars => TftTypeOK'
<1> SUFFICES ASSUME FigureInv, TftTypeOK, [TftNext]_tftVars PROVE TftTypeOK'
  OBVIOUS
<1>1. CASE InitStep
  <2>1. stage \in 0..(Ready - 1) /\ stage' \in 0..Ready
    BY <1>1 DEF InitStep, TftTypeOK, Ready, Cleared
  <2>2. pwm' \in 0..255
    <3>1. CASE stage >= Cleared
      <4>1. stage' - Cleared \in 1..17
        BY <1>1, <2>1, <3>1 DEF InitStep, Ready, Cleared
      <4>2. Ramp(stage' - Cleared) \in 0..255
        BY <4>1 DEF Ramp
      <4>3. pwm' = Backlight(Ramp(stage' - Cleared))
        BY <1>1, <3>1 DEF InitStep, Cleared
      <4> QED
        BY <4>2, <4>3, BacklightFits
    <3>2. CASE ~ (stage >= Cleared)
      BY <1>1, <3>2 DEF InitStep, TftTypeOK
    <3> QED
      BY <3>1, <3>2
  <2> QED
    BY <1>1, <2>1, <2>2 DEF InitStep, TftTypeOK
<1>2. ASSUME NEW level \in Levels, SetBacklight(level) PROVE TftTypeOK'
  <2>1. level \in 0..255
    BY TftAssumption
  <2> QED
    BY <1>2, <2>1, BacklightFits DEF SetBacklight, TftTypeOK
<1>3. ASSUME NEW c \in Calls, DrawCall(c) PROVE TftTypeOK'
  BY <1>3 DEF DrawCall, TftTypeOK, EmptyRam
<1>4. CASE FillWindow
  <2> DEFINE S == Pixels(Head(floods))
  <2>1. OnPanel(floods) /\ floods # <<>>
    BY <1>4 DEF FillWindow, FigureInv, FigureOk
  <2>2. \A p \in S : \E a \in 0..(Width - 1), b \in 0..(Height - 1) : p = <<a + XStart, b + YStart>>
    BY <2>1, FirstWindow
  <2>3. DOMAIN ram' = S \cup DOMAIN ram
    BY <1>4 DEF FillWindow, Over
  <2> HIDE DEF S
  <2>4. S \subseteq (0..255) \X (0..255)
    BY <2>2, TftAssumption
  <2> QED
    BY <1>4, <2>3, <2>4 DEF FillWindow, TftTypeOK
<1>5. CASE CallDone
  BY <1>5 DEF CallDone, TftTypeOK, EmptyRam
<1>6. CASE UNCHANGED tftVars
  BY <1>6 DEF tftVars, TftTypeOK
<1> QED
  BY <1>1, <1>2, <1>3, <1>4, <1>5, <1>6 DEF TftNext

\* TypeOK of the display: the duty of the backlight is a byte, which the cube of
\* a level scaled back is, and what is written lies in the RAM of the controller
\* (st7735_set_backlight, set_addr_window).
THEOREM DisplayTypeCorrect == TftSpec => []TftTypeOK
<1>1. TftInit => FigureInv /\ TftTypeOK
  BY FigureInit, TftTypesInit
<1>2. FigureInv /\ TftTypeOK /\ [TftNext]_tftVars => (FigureInv /\ TftTypeOK)'
  BY FigureNext, TftTypesNext
<1> QED
  BY <1>1, <1>2, PTL DEF TftSpec

-----------------------------------------------------------------------------
(* The link to the drone, the layout's types, and all the parts. *)

LEMMA MavTypes ==
  /\ MavInit => MavTypeOK
  /\ MavTypeOK /\ [MavNext]_mavVars => MavTypeOK'
<1>1. MavInit => MavTypeOK
  <2> SUFFICES ASSUME MavInit PROVE MavTypeOK
    OBVIOUS
  <2>1. rxBuf \in 0..MaxRx /\ changes \in 0..MaxChanges
    BY MavAssumption DEF MavInit
  <2>2. transport \in {"None", "Serial", "Udp"}
    BY DEF MavInit
  <2>3. /\ radio \in BOOLEAN /\ udpFree \in BOOLEAN /\ serialOpen \in BOOLEAN /\ udpBound \in BOOLEAN
        /\ mavUp \in BOOLEAN /\ detecting \in BOOLEAN /\ mavLink \in BOOLEAN
    BY Zenon DEF MavInit
  <2> QED
    BY <2>1, <2>2, <2>3 DEF MavTypeOK
<1>2. ASSUME MavTypeOK, [MavNext]_mavVars PROVE MavTypeOK'
  <2>1. CASE RetryAutoDetect
    BY <1>2, <2>1 DEF RetryAutoDetect, OpenSerial, BindUdp, MavTypeOK
  <2>2. CASE MavSerialError
    BY <1>2, <2>2 DEF MavSerialError, MavTypeOK
  <2>3. CASE HeartbeatTimeout
    BY <1>2, <2>3 DEF HeartbeatTimeout, MavTypeOK
  <2>4. CASE ReadyRead
    <3>1. rxBuf' \in 0..MaxRx
      BY <1>2, <2>4, MavAssumption DEF ReadyRead, MavTypeOK
    <3> QED
      BY <1>2, <2>4, <3>1 DEF ReadyRead, MavTypeOK
  <2>5. CASE Change
    <3>1. changes' \in 0..MaxChanges
      BY <1>2, <2>5, MavAssumption DEF Change, MavTypeOK
    <3>2. radio' \in BOOLEAN /\ udpFree' \in BOOLEAN
      BY <1>2, <2>5, Zenon DEF Change, MavTypeOK
    <3> QED
      BY <1>2, <2>5, <3>1, <3>2 DEF Change, MavTypeOK
  <2>6. CASE UNCHANGED mavVars
    BY <1>2, <2>6 DEF mavVars, MavTypeOK
  <2> QED
    BY <1>2, <2>1, <2>2, <2>3, <2>4, <2>5, <2>6 DEF MavNext, MavStep
<1> QED
  BY <1>1, <1>2

LEMMA TwinTypes ==
  /\ TwinInit => TwinTypeOK
  /\ TwinTypeOK /\ TwinInv' /\ [TwinNext]_twinVars => TwinTypeOK'
<1>1. TwinInit => TwinTypeOK
  <2> SUFFICES ASSUME TwinInit PROVE TwinTypeOK
    OBVIOUS
  <2>1. hotspots \in Seq(Entry) /\ hotspots # <<>>
    BY DefaultsValid DEF TwinInit
  <2>2. file \in disk /\ \A f \in disk : f.kind \in {"missing", "garbage", "json"}
    BY DEF TwinInit, NoFile
  <2>3. edits \in 0..MaxEdits
    BY DEF TwinInit
  <2>4. lastError \in BOOLEAN /\ writing \in BOOLEAN
    BY Zenon DEF TwinInit
  <2> QED
    BY <2>1, <2>2, <2>3, <2>4 DEF TwinInit, TwinTypeOK
<1>2. ASSUME TwinTypeOK, TwinInv', [TwinNext]_twinVars PROVE TwinTypeOK'
  <2>1. /\ hotspots' \in Seq(Entry) /\ hotspots' # <<>>
        /\ saved' = <<>> \/ saved' \in Seq(Entry)
        /\ \A l \in given' : l \in Seq(Entry) /\ l # <<>>
    BY <1>2 DEF TwinInv
  <2>2. file' \in disk' /\ \A f \in disk' : f.kind \in {"missing", "garbage", "json"}
    BY <1>2, Zenon DEF TwinInv, FileOK
  <2>3. lastError' \in BOOLEAN /\ writing' \in BOOLEAN
    BY <1>2, Zenon DEF TwinTypeOK, TwinNext, Load, SaveOpen, SaveWrite, Flush, Reset, Edit, PowerFails, twinVars
  <2>4. edits' \in 0..MaxEdits
    <3>1. edits' = edits \/ (edits > 0 /\ edits' = edits - 1)
      BY <1>2 DEF TwinNext, Load, SaveOpen, SaveWrite, Flush, Reset, Edit, PowerFails, twinVars
    <3> QED
      BY <1>2, <3>1, TwinAssumption DEF TwinTypeOK
  <2> QED
    BY <2>1, <2>2, <2>3, <2>4 DEF TwinTypeOK
<1> QED
  BY <1>1, <1>2

\* Every part of a composed behaviour takes steps of its own or none.
LEMMA PartsInit == Init => BtnInit /\ I2cInit /\ TftInit /\ MavInit /\ TwinInit
BY DEF Init

LEMMA PartsStep ==
  [Next]_vars => /\ [BtnNext]_btnVars /\ [I2cNext]_i2cVars /\ [TftNext]_tftVars
                 /\ [MavNext]_mavVars /\ [TwinNext]_twinVars
BY Zenon DEF Next, OfButtons, OfMav, vars

\* The TypeOK of the smaller parts together: nothing wraps, overruns or leaves
\* its range in the buttons (led_ws2811.c), the I2C bus (digital_io.c,
\* veml7700.c), the display (screen_st7735.c), the link to the drone
\* (mavlinklink.cpp) and the layout (gcsstate.cpp), whatever the plans, inputs,
\* calls and failures.
THEOREM PartsTypeCorrect == Spec => []TypeOK
<1>1. Spec => BtnSpec /\ I2cSpec /\ TftSpec /\ MavSpec /\ TwinSpec
  BY PartsInit, PartsStep, PTL DEF Spec, BtnSpec, I2cSpec, TftSpec, MavSpec, TwinSpec
<1>2. MavSpec => []MavTypeOK
  BY MavTypes, PTL DEF MavSpec
<1>3. TwinSpec => []TwinTypeOK
  BY InitSavable, StepKeepsSavable, TwinTypes, PTL DEF TwinSpec
<1>4. BtnTypeOK /\ I2cTypeOK /\ TftTypeOK /\ MavTypeOK /\ TwinTypeOK => TypeOK
  BY DEF TypeOK
<1> QED
  BY <1>1, <1>2, <1>3, <1>4, ButtonsTypeCorrect, BusTypeCorrect, DisplayTypeCorrect, PTL

=============================================================================
