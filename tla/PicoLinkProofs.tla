--------------------------- MODULE PicoLinkProofs ---------------------------
(***************************************************************************)
(* The Pico shows what the Pi's state says, and the mode asked of the      *)
(* drone is the one its switches call for (PicoLink), for any groups of    *)
(* inputs, peripherals, payloads and lengths of the queues.                *)
(***************************************************************************)
EXTENDS PicoLink, TLAPS

Frames == [item: Items \cup {"none"}, shown: Shown]

\* TypeOK by the groups of variables that the actions leave alone.
LinkOK == plugged \in BOOLEAN /\ open \in BOOLEAN /\ connected \in BOOLEAN /\ retry \in BOOLEAN
ToPiOK == toPi \in Seq(Packet) /\ Len(toPi) <= Room
SentOK == toPico \in Seq(Frames) /\ Len(toPico) <= Room /\ unsure \subseteq Items
PanelOK == panel \in [Items -> Shown]
ModeOK == /\ prevMode \in {"", "UNKNOWN"} /\ skipped \in BOOLEAN
          /\ asked \in {"none", "GUIDED", "RTL", "LOITER", "UNKNOWN"}
EnvOK  == /\ group \in Groups /\ events \in 0..MaxEvents
          /\ on \subseteq PortInputs \cup Buttons
GcsState == [link: BOOLEAN, unlocked: BOOLEAN, sw: SUBSET (PortInputs \ {"key"}),
             crosshair: BOOLEAN, percent: 0..100, worklight: BOOLEAN, screenL: 0..100,
             online: [Addresses -> {"unlisted", "online", "offline"}],
             detail: [Addresses -> Seq(0..255)]]
GcsOK  == gcs \in GcsState
RestOK == synced \in BOOLEAN /\ lastTft \in -1..6 /\ prompt \in BOOLEAN

LEMMA TypeGroups ==
  /\ TypeOK <=> /\ LinkOK /\ ToPiOK /\ SentOK /\ PanelOK
                /\ ModeOK /\ EnvOK /\ GcsOK /\ RestOK
  /\ TypeOK' <=> /\ LinkOK' /\ ToPiOK' /\ SentOK' /\ PanelOK'
                 /\ ModeOK' /\ EnvOK' /\ GcsOK' /\ RestOK'
BY DEF TypeOK, LinkOK, ToPiOK, SentOK, PanelOK, ModeOK, EnvOK, GcsOK, RestOK, GcsState, Frames

-----------------------------------------------------------------------------
(* Sequences of packets and frames.                                        *)

LEMMA Appended ==
  ASSUME NEW S, NEW s \in Seq(S), NEW x \in S
  PROVE  /\ Append(s, x) \in Seq(S) /\ Len(Append(s, x)) = Len(s) + 1
         /\ Append(s, x) = s \o <<x>>
OBVIOUS

LEMMA Joined ==
  ASSUME NEW S, NEW s \in Seq(S), NEW t \in Seq(S)
  PROVE  s \o t \in Seq(S) /\ Len(s \o t) = Len(s) + Len(t)
OBVIOUS

LEMMA Taken ==
  ASSUME NEW S, NEW s \in Seq(S), s # <<>>
  PROVE  /\ Head(s) \in S /\ Tail(s) \in Seq(S) /\ Len(Tail(s)) = Len(s) - 1
         /\ Len(s) \in Nat \ {0} /\ Len(Tail(s)) <= Len(s)
         /\ DOMAIN s = 1..Len(s) /\ DOMAIN Tail(s) = 1..(Len(s) - 1)
         /\ \A k \in DOMAIN Tail(s) : Tail(s)[k] = s[k + 1]
         /\ Head(s) = s[1]
OBVIOUS

LEMMA Lights ==
  /\ \A l \in {"dark", "off", "blink", "solid", "lit"} : Light(l) \in Shown
  /\ \A m \in 0..255 : <<"mode", m>> \in Shown /\ <<"detail", m>> \in Shown
                    /\ <<"level", m>> \in Shown
<1>1. \A l \in {"dark", "off", "blink", "solid", "lit"} : <<l, 0>> \in Shown
  <2>1. 0 \in 0..255
    OBVIOUS
  <2> QED
    BY <2>1, Zenon DEF Shown
<1> QED
  BY <1>1, Zenon DEF Light, Shown

LEMMA FrameType ==
  ASSUME NEW i \in Items \cup {"none"}, NEW s \in Shown
  PROVE  /\ Frame(i, s) \in Frames /\ Frame(i, s).item = i /\ Frame(i, s).shown = s
         /\ <<Frame(i, s)>> \in Seq(Frames)
         /\ ItemsOf(<<Frame(i, s)>>) = {i} \ {"none"}
BY DEF Frame, Frames, ItemsOf

\* A frame for a setting with a value.
LEMMA SettingFrame ==
  ASSUME NEW i \in Items, NEW k \in {"mode", "detail", "level"}, NEW n \in 0..255
  PROVE  /\ Frame(i, <<k, n>>) \in Frames /\ <<Frame(i, <<k, n>>)>> \in Seq(Frames)
         /\ ItemsOf(<<Frame(i, <<k, n>>)>>) = {i}
<1>1. <<k, n>> \in Shown
  BY Zenon DEF Shown
<1>2. i # "none"
  BY DEF Items, Payloads, Buttons
<1> QED
  BY <1>1, <1>2, FrameType

LEMMA PayloadLightType ==
  ASSUME NEW p \in Payloads, NEW sw
  PROVE  PayloadLight(p, sw) \in Shown
BY Lights DEF PayloadLight

\* Two frames, which set the two payload buttons.
LEMMA PayloadFramesType ==
  ASSUME NEW sw
  PROVE  /\ PayloadFrames(sw) \in Seq(Frames) /\ ItemsOf(PayloadFrames(sw)) = Payloads
<1>1. /\ Frame("pay1", PayloadLight("pay1", sw)) \in Frames
      /\ Frame("pay2", PayloadLight("pay2", sw)) \in Frames
      /\ Frame("pay1", PayloadLight("pay1", sw)).item = "pay1"
      /\ Frame("pay2", PayloadLight("pay2", sw)).item = "pay2"
  BY PayloadLightType, FrameType DEF Payloads, Items
<1> QED
  BY <1>1 DEF PayloadFrames, ItemsOf, Payloads

LEMMA NoFrames == <<>> \in Seq(Frames) /\ ItemsOf(<<>>) = {} /\ \A s \in Seq(Frames) : s \o <<>> = s
BY DEF ItemsOf

LEMMA ItemsOfType ==
  ASSUME NEW fs \in Seq(Frames)
  PROVE  ItemsOf(fs) \subseteq Items
<1>1. \A k \in DOMAIN fs : fs[k] \in Frames
  OBVIOUS
<1> QED
  BY <1>1 DEF ItemsOf, Frames

\* Send keeps the types of what it changes.
LEMMA SendTypes ==
  ASSUME SentOK, NEW fs \in Seq(Frames), Send(fs)
  PROVE  SentOK'
<1>1. ItemsOf(fs) \subseteq Items
  BY ItemsOfType
<1>2. unsure' \subseteq Items
  BY <1>1 DEF Send, SentOK
<1>3. toPico \o fs \in Seq(Frames) /\ Len(toPico \o fs) = Len(toPico) + Len(fs)
  BY Joined DEF SentOK
<1>4. toPico' \in Seq(Frames) /\ Len(toPico') <= Room
  BY <1>3 DEF Send, SentOK
<1> QED
  BY <1>2, <1>4 DEF SentOK

-----------------------------------------------------------------------------
(* What a sequence of frames leaves an item as.                            *)

\* Frames for other items change nothing.
LEMMA OtherFrames ==
  ASSUME NEW s \in Seq(Frames), NEW fs \in Seq(Frames), NEW now, NEW i \in Items, NEW v,
         EndsAs(s, now, i, v), i \notin ItemsOf(fs)
  PROVE  EndsAs(s \o fs, now, i, v)
<1>1. \A k \in DOMAIN fs : fs[k].item # i
  BY DEF ItemsOf, Items, Payloads, Buttons
<1>2. /\ DOMAIN s = 1..Len(s) /\ DOMAIN fs = 1..Len(fs)
      /\ DOMAIN (s \o fs) = 1..(Len(s) + Len(fs))
      /\ Len(s) \in Nat /\ Len(fs) \in Nat
      /\ \A k \in 1..Len(s) : (s \o fs)[k] = s[k]
      /\ \A k \in DOMAIN (s \o fs) : k > Len(s) => k - Len(s) \in DOMAIN fs
                                             /\ (s \o fs)[k] = fs[k - Len(s)]
  OBVIOUS
<1> QED
  BY <1>1, <1>2 DEF EndsAs

\* The last frames decide.
LEMMA NewFrames ==
  ASSUME NEW s \in Seq(Frames), NEW fs \in Seq(Frames), NEW now, NEW was, NEW i \in Items, NEW v,
         EndsAs(fs, was, i, v), i \in ItemsOf(fs)
  PROVE  EndsAs(s \o fs, now, i, v)
<1>1. PICK k \in DOMAIN fs : fs[k] = Frame(i, v) /\ \A l \in DOMAIN fs : l > k => fs[l].item # i
  BY DEF EndsAs, ItemsOf
<1>2. /\ DOMAIN s = 1..Len(s) /\ DOMAIN fs = 1..Len(fs)
      /\ DOMAIN (s \o fs) = 1..(Len(s) + Len(fs))
      /\ Len(s) \in Nat /\ Len(fs) \in Nat
      /\ \A m \in DOMAIN (s \o fs) : m > Len(s) => m - Len(s) \in DOMAIN fs
                                             /\ (s \o fs)[m] = fs[m - Len(s)]
  OBVIOUS
<1>3. /\ Len(s) + k \in DOMAIN (s \o fs) /\ (s \o fs)[Len(s) + k] = Frame(i, v)
      /\ \A l \in DOMAIN (s \o fs) : l > Len(s) + k => (s \o fs)[l].item # i
  BY <1>1, <1>2
<1> QED
  BY <1>3 DEF EndsAs

LEMMA OneFrame ==
  ASSUME NEW now, NEW i \in Items, NEW v
  PROVE  EndsAs(<<Frame(i, v)>>, now, i, v)
BY DEF EndsAs

LEMMA TwoFrames ==
  ASSUME NEW now, NEW sw, NEW p \in Payloads
  PROVE  EndsAs(PayloadFrames(sw), now, p, PayloadLight(p, sw))
BY DEF EndsAs, PayloadFrames, Payloads, Frame

\* The first frame arrives.
LEMMA FirstFrame ==
  ASSUME NEW s \in Seq(Frames), s # <<>>, NEW now \in [Items -> Shown], NEW i \in Items, NEW v,
         EndsAs(s, now, i, v),
         NEW then, then = [j \in Items |-> IF j = Head(s).item THEN Head(s).shown ELSE now[j]]
  PROVE  EndsAs(Tail(s), then, i, v)
<1>1. then[i] = IF i = Head(s).item THEN Head(s).shown ELSE now[i]
  OBVIOUS
<1>2. /\ DOMAIN s = 1..Len(s) /\ DOMAIN Tail(s) = 1..(Len(s) - 1) /\ Len(s) \in Nat \ {0}
      /\ Head(s) = s[1]
      /\ \A k \in DOMAIN Tail(s) : Tail(s)[k] = s[k + 1] /\ k + 1 \in DOMAIN s
  BY Taken
<1>3. CASE now[i] = v /\ \A k \in DOMAIN s : s[k].item # i
  BY <1>1, <1>2, <1>3 DEF EndsAs
<1>4. CASE \E k \in DOMAIN s : s[k] = Frame(i, v) /\ \A l \in DOMAIN s : l > k => s[l].item # i
  <2>1. PICK k \in DOMAIN s : s[k] = Frame(i, v) /\ \A l \in DOMAIN s : l > k => s[l].item # i
    BY <1>4
  <2>2. CASE k = 1
    <3>1. then[i] = v
      BY <1>1, <1>2, <2>1, <2>2 DEF Frame
    <3>2. \A l \in DOMAIN Tail(s) : Tail(s)[l].item # i
      BY <1>2, <2>1, <2>2
    <3> QED
      BY <3>1, <3>2 DEF EndsAs
  <2>3. CASE k # 1
    <3>1. k - 1 \in DOMAIN Tail(s) /\ Tail(s)[k - 1] = Frame(i, v)
      BY <1>2, <2>1, <2>3
    <3>2. \A l \in DOMAIN Tail(s) : l > k - 1 => Tail(s)[l].item # i
      BY <1>2, <2>1, <2>3
    <3> QED
      BY <3>1, <3>2 DEF EndsAs
  <2> QED
    BY <2>2, <2>3
<1> QED
  BY <1>3, <1>4 DEF EndsAs

-----------------------------------------------------------------------------
(* Types of what the handlers compute.                                     *)

LEMMA PacketFields ==
  ASSUME NEW p \in Packet
  PROVE  /\ p.type \in {"DIGITAL", "SWITCH"} => p.on \subseteq PortInputs
         /\ p.type = "KEY" => p.unlocked \in BOOLEAN
         /\ p.type = "BUTTON" => p.button \in Buttons /\ p.pressed \in BOOLEAN
         /\ p.type = "ADC" => p.count \in AdcCounts
         /\ p.type = "PERIPH_STATE" => p.addr \in Addresses /\ p.online \in BOOLEAN
         /\ p.type = "PERIPH_DATA" => p.addr \in Addresses /\ p.data \in Data
BY DEF Packet

LEMMA TftModes ==
  ASSUME NEW g \in GcsState
  PROVE  TftMode(g) \in {1, 3, 4, 5}
<1>1. g.percent \in 0..100 /\ g.unlocked \in BOOLEAN
  BY DEF GcsState
<1> QED
  BY <1>1 DEF TftMode

LEMMA Percents ==
  ASSUME NEW c \in AdcCounts
  PROVE  Percent(MilliVolts(c)) \in 0..100
<1>1. c \in 0..4095
  BY GroupsAssumption
<1>2. MilliVolts(c) \in Int
  BY <1>1 DEF MilliVolts
<1>3. ASSUME NEW mv \in Int
      PROVE  Percent(mv) \in 0..100
  BY <1>3 DEF Percent
<1> QED
  BY <1>2, <1>3

\* What handleSwitchLogic decides.
FlightState == [prev: {"", "UNKNOWN"}, asked: {"none", "GUIDED", "RTL", "LOITER", "UNKNOWN"},
                skipped: BOOLEAN]

LEMMA FlightStepType ==
  ASSUME NEW s, NEW mode \in {"GUIDED", "RTL"}, NEW other, NEW otherMode \in {"GUIDED", "RTL"},
         NEW was, NEW now, NEW unlocked \in BOOLEAN, NEW st \in FlightState
  PROVE  FlightStep(s, mode, other, otherMode, was, now, unlocked, st) \in FlightState
BY DEF FlightStep, FlightState, FlightMode

LEMMA FlightLogicType ==
  ASSUME ModeOK, NEW was, NEW now, NEW unlocked \in BOOLEAN
  PROVE  FlightLogic(was, now, unlocked) \in FlightState
<1>1. [prev |-> prevMode, asked |-> asked, skipped |-> skipped] \in FlightState
  BY DEF ModeOK, FlightState
<1> QED
  BY <1>1, FlightStepType DEF FlightLogic

\* A gcs with some fields set anew.
LEMMA GcsFields ==
  ASSUME NEW g \in GcsState
  PROVE  /\ \A b \in BOOLEAN : /\ [g EXCEPT !.link = b] \in GcsState
                             /\ [g EXCEPT !.unlocked = b] \in GcsState
                             /\ [g EXCEPT !.crosshair = b] \in GcsState
                             /\ [g EXCEPT !.worklight = b] \in GcsState
         /\ \A b \in BOOLEAN : \A now \in SUBSET PortInputs :
              [g EXCEPT !.unlocked = b, !.sw = now \ {"key"}] \in GcsState
         /\ \A n \in 0..100 : /\ [g EXCEPT !.percent = n] \in GcsState
                             /\ [g EXCEPT !.screenL = n] \in GcsState
         /\ \A a \in Addresses : \A v \in {"unlisted", "online", "offline"} :
              [g EXCEPT !.online[a] = v] \in GcsState
         /\ \A a \in Addresses : \A d \in Seq(0..255) :
              [g EXCEPT !.online[a] = "online", !.detail[a] = d] \in GcsState
<1>1. ASSUME NEW b \in BOOLEAN
      PROVE  /\ [g EXCEPT !.link = b] \in GcsState
             /\ [g EXCEPT !.unlocked = b] \in GcsState
             /\ [g EXCEPT !.crosshair = b] \in GcsState
             /\ [g EXCEPT !.worklight = b] \in GcsState
  <2>1. [g EXCEPT !.link = b] \in GcsState
    BY DEF GcsState
  <2>2. [g EXCEPT !.unlocked = b] \in GcsState
    BY DEF GcsState
  <2>3. [g EXCEPT !.crosshair = b] \in GcsState
    BY DEF GcsState
  <2>4. [g EXCEPT !.worklight = b] \in GcsState
    BY DEF GcsState
  <2> QED
    BY <2>1, <2>2, <2>3, <2>4
<1>2. ASSUME NEW b \in BOOLEAN, NEW now \in SUBSET PortInputs
      PROVE  [g EXCEPT !.unlocked = b, !.sw = now \ {"key"}] \in GcsState
  BY DEF GcsState
<1>3. \A n \in 0..100 : /\ [g EXCEPT !.percent = n] \in GcsState
                       /\ [g EXCEPT !.screenL = n] \in GcsState
  BY DEF GcsState
<1>4. ASSUME NEW a \in Addresses, NEW v \in {"unlisted", "online", "offline"}
      PROVE  [g EXCEPT !.online[a] = v] \in GcsState
  <2>1. [g.online EXCEPT ![a] = v] \in [Addresses -> {"unlisted", "online", "offline"}]
    BY DEF GcsState
  <2> QED
    BY <2>1 DEF GcsState
<1>5. ASSUME NEW a \in Addresses, NEW d \in Seq(0..255)
      PROVE  [g EXCEPT !.online[a] = "online", !.detail[a] = d] \in GcsState
  <2>1. /\ [g.online EXCEPT ![a] = "online"] \in [Addresses -> {"unlisted", "online", "offline"}]
        /\ [g.detail EXCEPT ![a] = d] \in [Addresses -> Seq(0..255)]
    BY DEF GcsState
  <2> QED
    BY <2>1 DEF GcsState
<1> QED
  BY <1>1, <1>2, <1>3, <1>4, <1>5

-----------------------------------------------------------------------------
(* Types are kept.                                                         *)

LEMMA HandleTypes ==
  ASSUME LinkOK, ToPiOK, PanelOK, EnvOK, NEW t, Handle(t)
  PROVE  /\ LinkOK' /\ ToPiOK' /\ PanelOK' /\ EnvOK'
         /\ Head(toPi) \in Packet /\ Head(toPi).type = t
<1>1. /\ toPi # <<>> /\ Head(toPi).type = t /\ toPi' = Tail(toPi)
      /\ UNCHANGED <<plugged, open, connected, retry, panel, group, events, on>>
  BY DEF Handle, linkVars, envVars
<1>2. /\ Head(toPi) \in Packet /\ Tail(toPi) \in Seq(Packet)
      /\ Len(toPi) \in Nat /\ Len(Tail(toPi)) = Len(toPi) - 1
  BY <1>1, Taken DEF ToPiOK
<1>3. ToPiOK'
  BY <1>1, <1>2, RoomAssumption DEF ToPiOK
<1> QED
  BY <1>1, <1>2, <1>3 DEF LinkOK, PanelOK, EnvOK

LEMMA SwitchTypes ==
  ASSUME SentOK, ModeOK, GcsOK, RestOK, NEW now \in SUBSET PortInputs,
         NEW unlocked \in BOOLEAN
  PROVE  /\ TakePorts(now, unlocked) => GcsOK' /\ prompt' \in BOOLEAN
         /\ SwitchLogic(now, unlocked) => SentOK' /\ ModeOK'
<1>1. TakePorts(now, unlocked) => GcsOK' /\ prompt' \in BOOLEAN
  <2> SUFFICES ASSUME TakePorts(now, unlocked)
               PROVE  GcsOK' /\ prompt' \in BOOLEAN
    OBVIOUS
  <2>1. GcsOK'
    BY GcsFields DEF TakePorts, GcsOK
  <2>2. prompt' \in BOOLEAN
    BY Zenon DEF TakePorts
  <2> QED
    BY <2>1, <2>2
<1>2. ASSUME SwitchLogic(now, unlocked)
      PROVE  ModeOK'
  BY <1>2, FlightLogicType DEF SwitchLogic, FlightState, ModeOK
<1>3. ASSUME SwitchLogic(now, unlocked)
      PROVE  SentOK'
  <2>1. \E fs \in {PayloadFrames(now), <<>>} : Send(fs)
    BY <1>3 DEF SwitchLogic
  <2> QED
    BY <2>1, SendTypes, PayloadFramesType, NoFrames
<1> QED
  BY <1>1, <1>2, <1>3

LEMMA InitTypes == Init => TypeOK
<1> SUFFICES ASSUME Init PROVE TypeOK
  OBVIOUS
<1>1. /\ plugged \in BOOLEAN /\ open = plugged /\ connected = plugged /\ retry = ~plugged
      /\ synced = FALSE /\ lastTft = -1 /\ prompt = FALSE
      /\ prevMode = "" /\ asked = "none" /\ skipped = TRUE
  BY Zenon DEF Init
<1>2. LinkOK /\ ModeOK /\ RestOK
  <2>1. LinkOK /\ ModeOK
    BY <1>1, Zenon DEF LinkOK, ModeOK
  <2>2. lastTft \in -1..6
    <3>1. lastTft = -1
      BY Zenon DEF Init
    <3> QED
      BY <3>1
  <2>3. RestOK
    BY <1>1, <2>2, Zenon DEF RestOK
  <2> QED
    BY <2>1, <2>3
<1>3. group \in Groups /\ events = MaxEvents /\ on \in SUBSET (group \cap (PortInputs \cup Buttons))
  BY Zenon DEF Init
<1>4. EnvOK
  BY <1>3, RoomAssumption DEF EnvOK
<1>5. toPi = <<>> /\ toPico = <<>> /\ unsure = Items
  BY Zenon DEF Init
<1>6. ToPiOK /\ SentOK
  BY <1>5, RoomAssumption DEF ToPiOK, SentOK
<1>7. panel = [i \in Items |-> Light("dark")]
  BY Zenon DEF Init
<1>8. PanelOK
  BY <1>7, Lights DEF PanelOK
<1>9. gcs = [link |-> FALSE, unlocked |-> FALSE, sw |-> {}, crosshair |-> FALSE,
             percent |-> 0, worklight |-> FALSE, screenL |-> 80,
             online |-> [a \in Addresses |-> "unlisted"],
             detail |-> [a \in Addresses |-> <<>>]]
  BY Zenon DEF Init
<1>10. GcsOK
  BY <1>9 DEF GcsOK, GcsState
<1> QED
  BY <1>2, <1>4, <1>6, <1>8, <1>10, TypeGroups

\* What an action leaves alone keeps its type.
LEMMA Unchanged ==
  ASSUME TypeOK
  PROVE  /\ UNCHANGED linkVars => LinkOK'
         /\ UNCHANGED <<toPico, unsure>> => SentOK'
         /\ UNCHANGED toPi => ToPiOK'
         /\ UNCHANGED panel => PanelOK'
         /\ UNCHANGED wireVars => SentOK' /\ ToPiOK' /\ PanelOK'
         /\ UNCHANGED modeVars => ModeOK'
         /\ UNCHANGED envVars => EnvOK'
         /\ UNCHANGED gcs => GcsOK'
         /\ UNCHANGED <<synced, lastTft, prompt>> => RestOK'
<1> USE TypeGroups
<1>1. UNCHANGED linkVars => LinkOK'
  BY DEF linkVars, LinkOK
<1>2. UNCHANGED <<toPico, unsure>> => SentOK'
  BY DEF SentOK
<1>3. UNCHANGED toPi => ToPiOK'
  BY DEF ToPiOK
<1>4. UNCHANGED panel => PanelOK'
  BY DEF PanelOK
<1>5. UNCHANGED wireVars => UNCHANGED <<toPico, unsure>> /\ UNCHANGED toPi /\ UNCHANGED panel
  BY DEF wireVars
<1>6. UNCHANGED modeVars => ModeOK'
  BY DEF modeVars, ModeOK
<1>7. UNCHANGED envVars => EnvOK'
  BY DEF envVars, EnvOK
<1>8. UNCHANGED gcs => GcsOK'
  BY DEF GcsOK
<1>9. UNCHANGED <<synced, lastTft, prompt>> => RestOK'
  BY DEF RestOK
<1> QED
  BY <1>1, <1>2, <1>3, <1>4, <1>5, <1>6, <1>7, <1>8, <1>9

LEMMA PortTypes ==
  ASSUME TypeOK, OnSerialError \/ RetryConnect \/ SendHeartbeat \/ Plug
  PROVE  TypeOK'
<1> USE TypeGroups
<1>1. CASE OnSerialError
  <2>1. LinkOK'
    BY <1>1 DEF OnSerialError, LinkOK
  <2>2. GcsOK'
    BY <1>1, GcsFields DEF OnSerialError, GcsOK
  <2> QED
    BY <1>1, <2>1, <2>2, Unchanged DEF OnSerialError
<1>2. CASE RetryConnect
  <2>1. LinkOK'
    BY <1>2 DEF RetryConnect, LinkOK
  <2>2. GcsOK'
    BY <1>2, GcsFields DEF RetryConnect, GcsOK
  <2> QED
    BY <1>2, <2>1, <2>2, Unchanged DEF RetryConnect
<1>3. CASE SendHeartbeat
  <2>1. /\ Send(<<Frame("none", Light("off"))>>)
        /\ UNCHANGED <<connected, gcs, plugged, open, retry, toPi, panel, modeVars, envVars,
                       synced, lastTft, prompt>>
    BY <1>3 DEF SendHeartbeat
  <2>2. SentOK'
    BY <2>1, SendTypes, FrameType, Lights
  <2>3. UNCHANGED linkVars
    BY <2>1 DEF linkVars
  <2> QED
    BY <2>1, <2>2, <2>3, Unchanged
<1>4. CASE Plug
  <2>1. LinkOK'
    BY <1>4 DEF Plug, LinkOK
  <2> QED
    BY <1>4, <2>1, Unchanged DEF Plug
<1> QED
  BY <1>1, <1>2, <1>3, <1>4

LEMMA SwitchHandlerTypes ==
  ASSUME TypeOK, HandleDigital \/ HandleSwitch
  PROVE  TypeOK'
<1> USE TypeGroups
<1> DEFINE now == Head(toPi).on
           unlocked == "key" \in now
<1>1. /\ LinkOK' /\ ToPiOK' /\ PanelOK' /\ EnvOK'
      /\ now \in SUBSET PortInputs /\ unlocked \in BOOLEAN
  <2>1. Handle("DIGITAL") \/ Handle("SWITCH")
    BY DEF HandleDigital, HandleSwitch
  <2> QED
    BY <2>1, HandleTypes, PacketFields
<1>2. /\ TakePorts(now, unlocked) => GcsOK' /\ prompt' \in BOOLEAN
      /\ SwitchLogic(now, unlocked) => SentOK' /\ ModeOK'
  BY <1>1, SwitchTypes
<1>3. SentOK /\ ModeOK /\ RestOK
  OBVIOUS
<1> HIDE DEF now, unlocked
<1>4. CASE HandleDigital
  <2>1. /\ TakePorts(now, unlocked) /\ synced' = TRUE /\ UNCHANGED lastTft
        /\ \/ SwitchLogic(now, unlocked)
           \/ Send(PayloadFrames(now)) /\ skipped' = TRUE /\ UNCHANGED <<prevMode, asked>>
    BY <1>4 DEF HandleDigital, now, unlocked
  <2>2. RestOK'
    BY <1>2, <1>3, <2>1 DEF RestOK
  <2>3. CASE SwitchLogic(now, unlocked)
    BY <1>1, <1>2, <2>1, <2>2, <2>3
  <2>4. CASE Send(PayloadFrames(now)) /\ skipped' = TRUE /\ UNCHANGED <<prevMode, asked>>
    <3>1. SentOK'
      BY <1>3, <2>4, SendTypes, PayloadFramesType
    <3>2. ModeOK'
      BY <1>3, <2>4 DEF ModeOK
    <3> QED
      BY <1>1, <1>2, <2>1, <2>2, <3>1, <3>2
  <2> QED
    BY <2>1, <2>3, <2>4
<1>5. CASE HandleSwitch
  <2>1. /\ TakePorts(now, unlocked) /\ UNCHANGED <<synced, lastTft>>
        /\ \/ SwitchLogic(now, unlocked)
           \/ skipped' = TRUE /\ UNCHANGED <<prevMode, asked, toPico, unsure>>
    BY <1>5 DEF HandleSwitch, now, unlocked
  <2>2. RestOK'
    BY <1>2, <1>3, <2>1 DEF RestOK
  <2>3. CASE SwitchLogic(now, unlocked)
    BY <1>1, <1>2, <2>1, <2>2, <2>3
  <2>4. CASE skipped' = TRUE /\ UNCHANGED <<prevMode, asked, toPico, unsure>>
    <3>1. SentOK' /\ ModeOK'
      BY <1>3, <2>4 DEF ModeOK, SentOK
    <3> QED
      BY <1>1, <1>2, <2>1, <2>2, <3>1
  <2> QED
    BY <2>1, <2>3, <2>4
<1> QED
  BY <1>4, <1>5

LEMMA OtherHandlerTypes ==
  ASSUME TypeOK,
         \/ HandleKey \/ HandleButton \/ HandleHeartbeat
         \/ HandleAdc \/ HandlePeriphState \/ HandlePeriphData
  PROVE  TypeOK'
<1> USE TypeGroups
<1>1. ASSUME NEW t, Handle(t)
      PROVE  /\ LinkOK' /\ ToPiOK' /\ PanelOK' /\ EnvOK'
             /\ Head(toPi) \in Packet /\ Head(toPi).type = t
  BY <1>1, HandleTypes
<1>2. gcs \in GcsState
  BY DEF GcsOK
<1>3. CASE HandleKey
  <2>1. GcsOK'
    BY <1>1, <1>2, <1>3, PacketFields, GcsFields DEF HandleKey, GcsOK
  <2> QED
    BY <1>1, <1>3, <2>1, Unchanged DEF HandleKey
<1>4. CASE HandleButton
  <2> DEFINE b == Head(toPi).button
             pressed == Head(toPi).pressed
             crosshair == IF b = "crosshair" /\ pressed THEN ~gcs.crosshair ELSE gcs.crosshair
  <2>1. b \in Buttons /\ pressed \in BOOLEAN
    BY <1>1, <1>4, PacketFields DEF HandleButton
  <2>2. crosshair \in BOOLEAN
    BY <1>2 DEF GcsState
  <2>3. /\ gcs' = [gcs EXCEPT !.crosshair = crosshair]
        /\ \/ Send(<<Frame(b, Light(IF pressed THEN "lit" ELSE "off"))>>)
           \/ Send(<<Frame(b, Light(IF crosshair THEN "lit" ELSE "off"))>>)
           \/ Send(<<>>)
        /\ UNCHANGED <<modeVars, synced, lastTft, prompt>>
    BY <1>4 DEF HandleButton
  <2> HIDE DEF b, pressed, crosshair
  <2>4. GcsOK'
    BY <1>2, <2>2, <2>3, GcsFields DEF GcsOK
  <2>5. \A c \in BOOLEAN : Light(IF c THEN "lit" ELSE "off") \in Shown
    BY Lights
  <2>6. \A c \in BOOLEAN : <<Frame(b, Light(IF c THEN "lit" ELSE "off"))>> \in Seq(Frames)
    BY <2>1, <2>5, FrameType DEF Items
  <2>7. SentOK'
    BY <2>1, <2>2, <2>3, <2>6, SendTypes, NoFrames
  <2> QED
    BY <1>1, <1>4, <2>3, <2>4, <2>7, Unchanged DEF HandleButton
<1>5. CASE HandleHeartbeat
  <2>1. GcsOK'
    BY <1>2, <1>5, GcsFields DEF HandleHeartbeat, GcsOK
  <2>2. TftMode(gcs) \in {1, 3, 4, 5}
    BY <1>2, TftModes
  <2>3. RestOK'
    BY <1>5, <2>2 DEF HandleHeartbeat, RestOK
  <2>4. <<Frame("tft", <<"mode", TftMode(gcs)>>)>> \in Seq(Frames)
    <3>1. "tft" \in Items /\ TftMode(gcs) \in 0..255
      BY <2>2 DEF Items
    <3> QED
      BY <3>1, SettingFrame
  <2>5. \/ Send(<<Frame("tft", <<"mode", TftMode(gcs)>>)>>)
        \/ Send(<<>>)
    BY <1>5 DEF HandleHeartbeat
  <2>6. SentOK'
    BY <2>4, <2>5, SendTypes, NoFrames
  <2> QED
    BY <1>1, <1>5, <2>1, <2>3, <2>6, Unchanged DEF HandleHeartbeat
<1>6. CASE HandleAdc
  <2>1. Percent(MilliVolts(Head(toPi).count)) \in 0..100
    BY <1>1, <1>6, PacketFields, Percents DEF HandleAdc
  <2>2. GcsOK'
    BY <1>2, <1>6, <2>1, GcsFields DEF HandleAdc, GcsOK
  <2> QED
    BY <1>1, <1>6, <2>2, Unchanged DEF HandleAdc
<1>7. CASE HandlePeriphState
  <2>1. Head(toPi).addr \in Addresses
    BY <1>1, <1>7, PacketFields DEF HandlePeriphState
  <2>2. GcsOK'
    BY <1>2, <1>7, <2>1, GcsFields DEF HandlePeriphState, GcsOK
  <2> QED
    BY <1>1, <1>7, <2>2, Unchanged DEF HandlePeriphState
<1>8. CASE HandlePeriphData
  <2> DEFINE p == Head(toPi)
  <2>1. p.addr \in Addresses /\ p.data \in Seq(0..255)
    BY <1>1, <1>8, PacketFields, DataAssumption DEF HandlePeriphData
  <2>2. gcs' = IF p.addr = 1 /\ DataLen(p.data) >= 3
               THEN [gcs EXCEPT !.online[1] = "online", !.detail[1] = Tail(p.data)]
               ELSE gcs
    BY <1>8 DEF HandlePeriphData
  <2> HIDE DEF p
  <2>3. ASSUME p.addr = 1, DataLen(p.data) >= 3
        PROVE  gcs' \in GcsState
    <3>1. p.data # <<>>
      BY <2>3 DEF DataLen
    <3>2. Tail(p.data) \in Seq(0..255)
      BY <2>1, <3>1
    <3>3. 1 \in Addresses
      BY <2>1, <2>3
    <3>4. gcs' = [gcs EXCEPT !.online[1] = "online", !.detail[1] = Tail(p.data)]
      BY <2>2, <2>3
    <3>5. \A a \in Addresses : \A d \in Seq(0..255) :
            [gcs EXCEPT !.online[a] = "online", !.detail[a] = d] \in GcsState
      BY <1>2, GcsFields
    <3> QED
      BY <3>2, <3>3, <3>4, <3>5, Zenon
  <2>4. GcsOK'
    BY <1>2, <2>2, <2>3 DEF GcsOK
  <2> QED
    BY <1>1, <1>8, <2>4, Unchanged DEF HandlePeriphData
<1> QED
  BY <1>3, <1>4, <1>5, <1>6, <1>7, <1>8

LEMMA PageTypes ==
  ASSUME TypeOK, PageStep
  PROVE  TypeOK'
<1> USE TypeGroups
<1>1. ASSUME NEW f, Tap(f)
      PROVE  LinkOK' /\ ToPiOK' /\ PanelOK' /\ ModeOK' /\ EnvOK' /\ synced' = synced
  <2>1. EnvOK'
    BY <1>1, RoomAssumption DEF Tap, EnvOK
  <2> QED
    BY <1>1, <2>1, Unchanged DEF Tap
<1>2. gcs \in GcsState /\ synced \in BOOLEAN /\ lastTft \in -1..6 /\ prompt \in BOOLEAN
  BY DEF GcsOK, RestOK
<1>3. ASSUME synced' = synced, UNCHANGED <<lastTft, prompt>>
      PROVE  RestOK'
  BY <1>2, <1>3 DEF RestOK
<1>4. CASE TapOverview
  <2>1. SentOK'
    <3>1. "tft" \in Items /\ 5 \in 0..255
      BY DEF Items
    <3>2. <<Frame("tft", <<"mode", 5>>)>> \in Seq(Frames)
      BY <3>1, SettingFrame
    <3> QED
      BY <1>4, <3>2, SendTypes DEF TapOverview
  <2>2. RestOK'
    BY <1>1, <1>2, <1>4 DEF TapOverview, RestOK
  <2> QED
    BY <1>1, <1>4, <2>1, <2>2, Unchanged DEF TapOverview
<1>5. CASE TapWorklight
  <2>1. gcs'.worklight \in BOOLEAN /\ gcs' \in GcsState
    <3>1. gcs' = [gcs EXCEPT !.worklight = ~gcs.worklight] /\ (~gcs.worklight) \in BOOLEAN
      BY <1>5 DEF TapWorklight
    <3>2. [gcs EXCEPT !.worklight = ~gcs.worklight] \in GcsState
      BY <1>2, <3>1, GcsFields, Zenon
    <3>3. gcs' \in GcsState
      BY <3>1, <3>2, Zenon
    <3> QED
      BY <3>3 DEF GcsState
  <2>2. SentOK'
    BY <1>5, <2>1, SendTypes, FrameType, Lights DEF TapWorklight, Items
  <2> QED
    BY <1>1, <1>3, <1>5, <2>1, <2>2 DEF TapWorklight, GcsOK
<1>6. CASE TapPeriphCmd
  <2>1. SentOK'
    BY <1>6, SendTypes, FrameType, NoFrames, Lights DEF TapPeriphCmd
  <2> QED
    BY <1>1, <1>3, <1>6, <2>1, Unchanged DEF TapPeriphCmd
<1>7. CASE AnswerPrompt
  <2>1. RestOK'
    BY <1>2, <1>7 DEF AnswerPrompt, RestOK
  <2> QED
    BY <1>7, <2>1, Unchanged DEF AnswerPrompt
<1>8. ASSUME NEW a \in Addresses, TapDetail(a)
      PROVE  TypeOK'
  <2>1. Frame("tft", <<"detail", a>>) \in Frames
    BY FrameType, Lights, DataAssumption DEF Items
  <2>2. toPico' = Append(toPico, Frame("tft", <<"detail", a>>)) \/ toPico' = toPico
    BY <1>8 DEF TapDetail
  <2>3. toPico' \in Seq(Frames) /\ Len(toPico') <= Room
    BY <1>8, <2>1, <2>2, Appended, RoomAssumption DEF TapDetail, SentOK
  <2>4. SentOK'
    BY <1>8, <2>3 DEF TapDetail, SentOK, Items
  <2> QED
    BY <1>1, <1>3, <1>8, <2>4, Unchanged DEF TapDetail
<1>9. ASSUME NEW v \in Sliders, SlideScreenL(v)
      PROVE  TypeOK'
  <2>1. PICK n \in 0..100 : gcs' = [gcs EXCEPT !.screenL = n]
    <3>1. (IF v < 0 THEN 0 ELSE IF v > 100 THEN 100 ELSE v) \in 0..100
      BY DataAssumption
    <3> QED
      BY <1>9, <3>1 DEF SlideScreenL
  <2>2. gcs'.screenL \in 0..100 /\ gcs' \in GcsState
    <3>1. gcs' \in GcsState
      BY <1>2, <2>1, GcsFields
    <3> QED
      BY <3>1 DEF GcsState
  <2>3. (gcs'.screenL * 255) \div 100 \in 0..255
    BY <2>2
  <2>4. SentOK'
    <3> DEFINE level == (gcs'.screenL * 255) \div 100
    <3>1. Send(<<Frame("brightness", <<"level", level>>)>>) /\ "brightness" \in Items
      BY <1>9 DEF SlideScreenL, Items
    <3> HIDE DEF level
    <3>2. <<Frame("brightness", <<"level", level>>)>> \in Seq(Frames)
      <4>1. level \in 0..255 /\ "level" \in {"mode", "detail", "level"}
        BY <2>3 DEF level
      <4> QED
        BY <3>1, <4>1, SettingFrame, Zenon
    <3> QED
      BY <3>1, <3>2, SendTypes
  <2> QED
    BY <1>1, <1>3, <1>9, <2>2, <2>4 DEF SlideScreenL, GcsOK
<1> QED
  BY <1>4, <1>5, <1>6, <1>7, <1>8, <1>9 DEF PageStep

\* The packets digital_io_task reports a change with.
LEMMA ReportType ==
  ASSUME NEW now, NEW changed, NEW packets \in Report(now, changed)
  PROVE  packets \in Seq(Packet)
<1> DEFINE ports == now \cap PortInputs
           keys  == IF "key" \in changed
                    THEN <<[type |-> "KEY", unlocked |-> "key" \in now]>> ELSE <<>>
           b     == CHOOSE x \in changed \cap Buttons : TRUE
           press == IF changed \cap Buttons = {} THEN <<>>
                    ELSE <<[type |-> "BUTTON", button |-> b, pressed |-> b \in now]>>
           full  == <<[type |-> "DIGITAL", on |-> ports]>>
           event == <<[type |-> "SWITCH", on |-> ports]>>
<1>1. /\ [type |-> "DIGITAL", on |-> ports] \in Packet
      /\ [type |-> "SWITCH", on |-> ports] \in Packet
      /\ [type |-> "KEY", unlocked |-> "key" \in now] \in Packet
  BY DEF Packet
<1>2. full \in Seq(Packet) /\ event \in Seq(Packet) /\ keys \in Seq(Packet)
  BY <1>1
<1>3. press \in Seq(Packet)
  <2>1. CASE changed \cap Buttons = {}
    BY <2>1
  <2>2. CASE changed \cap Buttons # {}
    <3>1. b \in Buttons
      BY <2>2, Zenon
    <3>2. [type |-> "BUTTON", button |-> b, pressed |-> b \in now] \in Packet
      BY <3>1 DEF Packet
    <3> QED
      BY <2>2, <3>2
  <2> QED
    BY <2>1, <2>2
<1>4. packets \in {full, event \o keys \o press \o full}
  BY Zenon DEF Report
<1> HIDE DEF full, event, keys, press
<1>5. event \o keys \o press \o full \in Seq(Packet)
  BY <1>2, <1>3, Joined, Zenon
<1> QED
  BY <1>2, <1>4, <1>5, Zenon

LEMMA PicoTypes ==
  ASSUME TypeOK,
         \/ \E changed \in SUBSET (group \cap (PortInputs \cup Buttons)) : Operate(changed)
         \/ PeriodicState \/ PeriodicBeat \/ Measure \/ PicoReceive \/ Unplug
  PROVE  TypeOK'
<1> USE TypeGroups
<1>1. ASSUME NEW changed \in SUBSET (group \cap (PortInputs \cup Buttons)), Operate(changed)
      PROVE  TypeOK'
  <2>1. EnvOK'
    BY <1>1, RoomAssumption DEF Operate, EnvOK
  <2>2. PICK packets \in Report(on', changed) :
          /\ Len(toPi) + Len(packets) <= Room
          /\ toPi' = IF plugged /\ open THEN toPi \o packets ELSE toPi
    BY <1>1 DEF Operate
  <2>3. packets \in Seq(Packet)
    BY <2>2, ReportType
  <2>4. ToPiOK'
    BY <2>2, <2>3, Joined DEF ToPiOK
  <2> QED
    BY <1>1, <2>1, <2>4, Unchanged DEF Operate
<1>2. ASSUME NEW p \in Packet, Periodic(p)
      PROVE  TypeOK'
  <2>1. <<p>> \in Seq(Packet) /\ Len(<<p>>) = 1
    OBVIOUS
  <2>2. ToPiOK'
    BY <1>2, <2>1, RoomAssumption DEF Periodic, ToPiOK
  <2> QED
    BY <1>2, <2>2, Unchanged DEF Periodic
<1>3. CASE PeriodicState \/ PeriodicBeat
  <2>1. [type |-> "DIGITAL", on |-> on \cap PortInputs] \in Packet
    BY DEF Packet
  <2>2. [type |-> "HEARTBEAT"] \in Packet
    BY DEF Packet
  <2> QED
    BY <1>2, <1>3, <2>1, <2>2 DEF PeriodicState, PeriodicBeat
<1>4. CASE Measure
  <2>1. /\ events > 0 /\ events' = events - 1 /\ Len(toPi) < Room
        /\ \E p \in Packet : toPi' = Append(toPi, p)
    BY <1>4 DEF Measure, Packet
  <2>2. EnvOK'
    BY <1>4, <2>1, RoomAssumption DEF Measure, EnvOK
  <2>3. ToPiOK'
    BY <2>1, Appended, RoomAssumption DEF ToPiOK
  <2> QED
    BY <1>4, <2>2, <2>3, Unchanged DEF Measure
<1>5. CASE PicoReceive
  <2>1. toPico # <<>> /\ toPico' = Tail(toPico) /\ unsure' = unsure
    BY <1>5 DEF PicoReceive
  <2>2. Head(toPico) \in Frames /\ SentOK'
    BY <2>1, Taken, RoomAssumption DEF SentOK
  <2>3. PanelOK'
    BY <1>5, <2>2 DEF PicoReceive, PanelOK, Frames
  <2> QED
    BY <1>5, <2>2, <2>3, Unchanged DEF PicoReceive
<1>6. CASE Unplug
  <2>1. EnvOK' /\ LinkOK'
    <3>1. LinkOK'
      BY <1>6, Zenon DEF Unplug, LinkOK
    <3>2. /\ events > 0 /\ events' = events - 1 /\ group' = group /\ on' = on
      BY <1>6 DEF Unplug
    <3> QED
      BY <3>1, <3>2, RoomAssumption DEF EnvOK
  <2>2. ToPiOK' /\ toPico' \in Seq(Frames) /\ Len(toPico') <= Room
    BY <1>6, RoomAssumption DEF Unplug, ToPiOK
  <2>3. unsure' \subseteq Items
    BY <1>6, ItemsOfType DEF Unplug, SentOK
  <2>4. PanelOK'
    BY <1>6, Lights DEF Unplug, PanelOK
  <2> QED
    BY <1>6, <2>1, <2>2, <2>3, <2>4, Unchanged DEF Unplug, SentOK
<1> QED
  BY <1>1, <1>3, <1>4, <1>5, <1>6

LEMMA NextTypes == TypeOK /\ [Next]_vars => TypeOK'
<1> SUFFICES ASSUME TypeOK, [Next]_vars PROVE TypeOK'
  OBVIOUS
<1>1. CASE PiStep
  BY <1>1, PortTypes, SwitchHandlerTypes, OtherHandlerTypes DEF PiStep
<1>2. CASE SendHeartbeat \/ Plug
  BY <1>2, PortTypes
<1>3. CASE PageStep
  BY <1>3, PageTypes
<1>4. CASE \/ \E changed \in SUBSET (group \cap (PortInputs \cup Buttons)) : Operate(changed)
           \/ PeriodicState \/ PeriodicBeat \/ Measure \/ PicoReceive \/ Unplug
  BY <1>4, PicoTypes
<1>5. CASE UNCHANGED vars
  BY <1>5, Unchanged, TypeGroups DEF vars
<1> QED
  BY <1>1, <1>2, <1>3, <1>4, <1>5 DEF Next

\* Every variable of the link keeps its type (TypeOK): gcsstate.cpp only takes
\* values in range, the two queues hold packets and frames picolink.cpp knows,
\* and percentages stay between 0 and 100.
THEOREM TypeCorrect == Spec => []TypeOK
BY InitTypes, NextTypes, PTL DEF Spec

-----------------------------------------------------------------------------
(* The mode asked of the drone.                                            *)

\* What ModeMatchesSwitches says, of a decision and the switches.
Matches(st, sw) ==
  st.asked # "none" /\ ~st.skipped =>
    /\ "rc" \in sw /\ "rth" \notin sw => st.asked = "GUIDED"
    /\ "rth" \in sw /\ "rc" \notin sw => st.asked = "RTL"
    /\ "rc" \notin sw /\ "rth" \notin sw => st.asked \in {"LOITER", FlightMode}
    /\ "rc" \in sw /\ "rth" \in sw => st.asked \in {"GUIDED", "RTL"}

\* A switch that moved decides by itself.
LEMMA MovedDecides ==
  ASSUME NEW st \in FlightState, NEW was, NEW now, NEW unlocked \in BOOLEAN
  PROVE  /\ Moved("rc", was, now) =>
              Matches(FlightStep("rc", "GUIDED", "rth", "RTL", was, now, unlocked, st), now)
         /\ Moved("rth", was, now) =>
              Matches(FlightStep("rth", "RTL", "rc", "GUIDED", was, now, unlocked, st), now)
<1>1. st.prev \in {"", "UNKNOWN"}
  BY DEF FlightState
<1>2. ASSUME Moved("rc", was, now)
      PROVE  Matches(FlightStep("rc", "GUIDED", "rth", "RTL", was, now, unlocked, st), now)
  BY <1>1, <1>2 DEF FlightStep, Matches, FlightMode, Moved, FlightState
<1>3. ASSUME Moved("rth", was, now)
      PROVE  Matches(FlightStep("rth", "RTL", "rc", "GUIDED", was, now, unlocked, st), now)
  BY <1>1, <1>3 DEF FlightStep, Matches, FlightMode, Moved, FlightState
<1> QED
  BY <1>2, <1>3

LEMMA LogicMatches ==
  ASSUME ModeOK, ModeMatchesSwitches, NEW now, NEW unlocked \in BOOLEAN
  PROVE  Matches(FlightLogic(gcs.sw, now, unlocked), now)
<1> DEFINE start == [prev |-> prevMode, asked |-> asked, skipped |-> skipped]
           rc == FlightStep("rc", "GUIDED", "rth", "RTL", gcs.sw, now, unlocked, start)
<1>1. start \in FlightState /\ Matches(start, gcs.sw)
  BY DEF ModeOK, FlightState, ModeMatchesSwitches, Matches
<1>2. FlightLogic(gcs.sw, now, unlocked) =
        FlightStep("rth", "RTL", "rc", "GUIDED", gcs.sw, now, unlocked, rc)
  BY DEF FlightLogic
<1> HIDE DEF start
<1>3. rc \in FlightState
  BY <1>1, FlightStepType
<1>4. CASE Moved("rth", gcs.sw, now)
  BY <1>2, <1>3, <1>4, MovedDecides
<1>5. CASE ~Moved("rth", gcs.sw, now) /\ Moved("rc", gcs.sw, now)
  <2>1. Matches(rc, now)
    BY <1>1, <1>5, MovedDecides
  <2> HIDE DEF rc
  <2> QED
    BY <1>2, <1>5, <2>1 DEF FlightStep
<1>6. CASE ~Moved("rth", gcs.sw, now) /\ ~Moved("rc", gcs.sw, now)
  <2>1. FlightLogic(gcs.sw, now, unlocked) = start
    BY <1>2, <1>6 DEF FlightStep
  <2> QED
    BY <1>1, <1>6, <2>1 DEF Matches, Moved
<1> QED
  BY <1>4, <1>5, <1>6

\* Of ModeMatchesSwitches, only the handlers of port words can disturb it.
LEMMA ModeKept ==
  ASSUME TypeOK, ModeMatchesSwitches, [Next]_vars
  PROVE  ModeMatchesSwitches'
<1> USE TypeGroups
<1>1. ASSUME UNCHANGED modeVars, gcs'.sw = gcs.sw
      PROVE  ModeMatchesSwitches'
  BY <1>1 DEF ModeMatchesSwitches, modeVars
<1>2. ASSUME skipped' = TRUE
      PROVE  ModeMatchesSwitches'
  BY <1>2 DEF ModeMatchesSwitches
<1>3. ASSUME NEW now, NEW unlocked \in BOOLEAN, TakePorts(now, unlocked), SwitchLogic(now, unlocked)
      PROVE  ModeMatchesSwitches'
  <2> DEFINE st == FlightLogic(gcs.sw, now, unlocked)
  <2>1. prevMode' = st.prev /\ asked' = st.asked /\ skipped' = st.skipped
    BY <1>3 DEF SwitchLogic
  <2>2. gcs'.sw = now \ {"key"}
    BY <1>3 DEF TakePorts, GcsOK, GcsState
  <2>3. Matches(st, now)
    BY LogicMatches
  <2> HIDE DEF st
  <2> QED
    BY <2>1, <2>2, <2>3 DEF Matches, ModeMatchesSwitches
<1> DEFINE ports == Head(toPi).on
           keyOn == "key" \in ports
<1>4. CASE HandleDigital
  <2>1. /\ TakePorts(ports, keyOn) /\ keyOn \in BOOLEAN
        /\ SwitchLogic(ports, keyOn) \/ skipped' = TRUE
    BY <1>4 DEF HandleDigital
  <2> HIDE DEF ports, keyOn
  <2> QED
    BY <1>2, <1>3, <2>1
<1>5. CASE HandleSwitch
  <2>1. /\ TakePorts(ports, keyOn) /\ keyOn \in BOOLEAN
        /\ SwitchLogic(ports, keyOn) \/ skipped' = TRUE
    BY <1>5 DEF HandleSwitch
  <2> HIDE DEF ports, keyOn
  <2> QED
    BY <1>2, <1>3, <2>1
<1>6. CASE OnSerialError \/ RetryConnect \/ SendHeartbeat \/ Plug
  <2>1. CASE OnSerialError \/ RetryConnect
    BY <1>1, <2>1 DEF OnSerialError, RetryConnect, GcsOK, GcsState
  <2>2. CASE SendHeartbeat
    BY <1>1, <2>2 DEF SendHeartbeat, GcsOK, GcsState
  <2>3. CASE Plug
    BY <1>1, <2>3 DEF Plug
  <2> QED
    BY <1>6, <2>1, <2>2, <2>3
<1>7. CASE HandleKey \/ HandleButton \/ HandleHeartbeat \/ HandleAdc
  BY <1>1, <1>7 DEF HandleKey, HandleButton, HandleHeartbeat, HandleAdc, GcsOK, GcsState
<1>8. CASE HandlePeriphState \/ HandlePeriphData
  <2>1. CASE HandlePeriphState
    BY <1>1, <2>1 DEF HandlePeriphState, GcsOK, GcsState
  <2>2. CASE HandlePeriphData
    BY <1>1, <2>2 DEF HandlePeriphData, GcsOK, GcsState
  <2> QED
    BY <1>8, <2>1, <2>2
<1>9. CASE PageStep
  <2>1. CASE TapOverview \/ TapWorklight \/ TapPeriphCmd
    BY <1>1, <2>1 DEF TapOverview, TapWorklight, TapPeriphCmd, Tap, GcsOK, GcsState
  <2>2. CASE AnswerPrompt \/ \E a \in Addresses : TapDetail(a)
    BY <1>1, <2>2 DEF AnswerPrompt, TapDetail, Tap, GcsOK, GcsState
  <2>3. CASE \E v \in Sliders : SlideScreenL(v)
    BY <1>1, <2>3 DEF SlideScreenL, Tap, GcsOK, GcsState
  <2> QED
    BY <1>9, <2>1, <2>2, <2>3 DEF PageStep
<1>10. CASE \/ \E changed \in SUBSET (group \cap (PortInputs \cup Buttons)) : Operate(changed)
            \/ PeriodicState \/ PeriodicBeat \/ Measure \/ PicoReceive \/ Unplug
  BY <1>1, <1>10 DEF Operate, PeriodicState, PeriodicBeat, Periodic, Measure, PicoReceive, Unplug
<1>11. CASE UNCHANGED vars
  BY <1>1, <1>11 DEF vars
<1> QED
  BY <1>4, <1>5, <1>6, <1>7, <1>8, <1>9, <1>10, <1>11 DEF Next, PiStep

\* However the RC and RTH switches, the key and the packets about them follow
\* one another, handleSwitchLogic has last asked for the mode the switches call
\* for, unless they moved while it could not (ModeMatchesSwitches).
THEOREM ModeFollowsSwitches == Spec => []ModeMatchesSwitches
<1>1. Init => ModeMatchesSwitches
  BY DEF Init, ModeMatchesSwitches
<1>2. TypeOK /\ ModeMatchesSwitches /\ [Next]_vars => ModeMatchesSwitches'
  BY ModeKept
<1> QED
  BY <1>1, <1>2, TypeCorrect, PTL DEF Spec

-----------------------------------------------------------------------------
(* The panel.                                                              *)

\* PanelFollows alone is lost when the first packet is not the full state: the
\* switches are then taken over and no frame is sent.  Until the Pi has
\* synchronised, the payload buttons have had no frame yet.
PanelInv ==
  /\ PanelFollows
  /\ ~synced => Payloads \subseteq unsure

Followed == Items \ {"button1", "button2"}

LEMMA FollowedItems ==
  Followed = Payloads \cup {"crosshair", "tft", "worklight", "brightness"}
BY DEF Followed, Items, Payloads, Buttons

\* What PanelFollows says of one item.
LEMMA FollowsItem ==
  /\ PanelFollows <=>
       \A i \in Followed : i \in unsure \/ EndsAs(toPico, panel, i, Intended(i))
  /\ PanelFollows' <=>
       \A i \in Followed : i \in unsure' \/ EndsAs(toPico', panel', i, Intended(i)')
BY DEF PanelFollows, Followed

LEMMA IntendedItems ==
  /\ \A p \in Payloads : /\ Intended(p) = PayloadLight(p, gcs.sw)
                        /\ Intended(p)' = PayloadLight(p, gcs'.sw)
  /\ Intended("crosshair") = Light(IF gcs.crosshair THEN "lit" ELSE "off")
  /\ Intended("crosshair")' = Light(IF gcs'.crosshair THEN "lit" ELSE "off")
  /\ Intended("tft") = <<"mode", lastTft>>
  /\ Intended("tft")' = <<"mode", lastTft'>>
  /\ Intended("worklight") = Light(IF gcs.worklight THEN "lit" ELSE "off")
  /\ Intended("worklight")' = Light(IF gcs'.worklight THEN "lit" ELSE "off")
  /\ Intended("brightness") = <<"level", (gcs.screenL * 255) \div 100>>
  /\ Intended("brightness")' = <<"level", (gcs'.screenL * 255) \div 100>>
BY DEF Intended, Payloads

\* An action that changes no item's intended state keeps PanelFollows if it
\* leaves the frames and the panel alone.
LEMMA SameIntended ==
  ASSUME gcs'.sw = gcs.sw, gcs'.crosshair = gcs.crosshair, gcs'.worklight = gcs.worklight,
         gcs'.screenL = gcs.screenL, lastTft' = lastTft
  PROVE  \A i \in Followed : Intended(i)' = Intended(i)
BY IntendedItems, FollowedItems

LEMMA QuietKeeps ==
  ASSUME PanelInv, UNCHANGED <<toPico, panel, unsure>>, synced' = synced,
         \A i \in Followed \ unsure : Intended(i)' = Intended(i)
  PROVE  PanelInv'
<1>1. \A i \in Followed : i \in unsure' \/ EndsAs(toPico', panel', i, Intended(i)')
  BY FollowsItem DEF PanelInv
<1> QED
  BY <1>1, FollowsItem DEF PanelInv

\* The frames of a handler leave the items they set as they are then meant to
\* be, and the other items' intended state is not changed.
LEMMA SendKeeps ==
  ASSUME SentOK, PanelInv, NEW fs \in Seq(Frames), Send(fs), panel' = panel,
         \A i \in Followed : i \in ItemsOf(fs) => EndsAs(fs, panel, i, Intended(i)'),
         \A i \in Followed \ unsure : i \notin ItemsOf(fs) => Intended(i)' = Intended(i),
         ~synced' => ~synced /\ Payloads \cap ItemsOf(fs) = {}
  PROVE  PanelInv'
<1>1. ~synced' => Payloads \subseteq unsure'
  BY DEF Send, PanelInv
<1>2. ASSUME NEW i \in Followed, i \notin unsure'
      PROVE  EndsAs(toPico', panel', i, Intended(i)')
  <2>1. i \in Items
    BY DEF Followed
  <2>2. CASE i \in ItemsOf(fs)
    <3>1. toPico' = toPico \o fs
      BY <1>2, <2>2 DEF Send
    <3> QED
      BY <2>1, <2>2, <3>1, NewFrames DEF SentOK
  <2>3. CASE i \notin ItemsOf(fs)
    <3>1. i \notin unsure
      BY <1>2, <2>3 DEF Send
    <3>2. EndsAs(toPico, panel, i, Intended(i)')
      BY <2>3, <3>1, FollowsItem DEF PanelInv
    <3>3. EndsAs(toPico \o fs, panel, i, Intended(i)')
      BY <2>1, <2>3, <3>2, OtherFrames DEF SentOK
    <3>4. toPico' = toPico \o fs \/ toPico' = toPico
      BY DEF Send
    <3> QED
      BY <3>2, <3>3, <3>4
  <2> QED
    BY <2>2, <2>3
<1> QED
  BY <1>1, <1>2, FollowsItem DEF PanelInv

\* The lights of the payload buttons depend on the payload switches only.
LEMMA SameLights ==
  ASSUME NEW was, NEW now,
         \A s \in {"pay1Arm", "pay1Fire", "pay2Arm", "pay2Fire"} : ~Moved(s, was, now)
  PROVE  \A p \in Payloads : PayloadLight(p, now) = PayloadLight(p, was)
BY DEF Payloads, PayloadLight, ArmOf, FireOf, Moved

LEMMA KeyHasNoLight ==
  ASSUME NEW now
  PROVE  \A p \in Payloads : PayloadLight(p, now \ {"key"}) = PayloadLight(p, now)
BY DEF Payloads, PayloadLight, ArmOf, FireOf

\* Taking over the ports leaves the other items as they were meant to be.
LEMMA PortsIntended ==
  ASSUME GcsOK, NEW now, NEW unlocked, TakePorts(now, unlocked), lastTft' = lastTft
  PROVE  /\ \A p \in Payloads : Intended(p)' = PayloadLight(p, now)
         /\ \A i \in Followed \ Payloads : Intended(i)' = Intended(i)
<1>1. /\ gcs'.sw = now \ {"key"} /\ gcs'.crosshair = gcs.crosshair
      /\ gcs'.worklight = gcs.worklight /\ gcs'.screenL = gcs.screenL
  BY DEF TakePorts, GcsOK, GcsState
<1>2. \A p \in Payloads : Intended(p)' = PayloadLight(p, now)
  BY <1>1, IntendedItems, KeyHasNoLight
<1>3. \A i \in Followed \ Payloads : Intended(i)' = Intended(i)
  BY <1>1, IntendedItems, FollowedItems
<1> QED
  BY <1>2, <1>3

\* The ports are taken over and the payload frames are sent.
LEMMA PortsSent ==
  ASSUME TypeOK, PanelInv, NEW now, NEW unlocked, TakePorts(now, unlocked),
         lastTft' = lastTft, panel' = panel, synced' = TRUE, Send(PayloadFrames(now))
  PROVE  PanelInv'
<1>1. SentOK /\ GcsOK
  BY TypeGroups
<1>2. /\ \A p \in Payloads : Intended(p)' = PayloadLight(p, now)
      /\ \A i \in Followed \ Payloads : Intended(i)' = Intended(i)
  BY <1>1, PortsIntended
<1>3. PayloadFrames(now) \in Seq(Frames) /\ ItemsOf(PayloadFrames(now)) = Payloads
  BY PayloadFramesType
<1>4. \A p \in Payloads : EndsAs(PayloadFrames(now), panel, p, Intended(p)')
  BY <1>2, TwoFrames
<1> QED
  BY <1>1, <1>2, <1>3, <1>4, SendKeeps

LEMMA PortsHandled ==
  ASSUME TypeOK, PanelInv, NEW now, NEW unlocked, TakePorts(now, unlocked),
         lastTft' = lastTft, panel' = panel, synced' = TRUE, SwitchLogic(now, unlocked)
  PROVE  PanelInv'
<1>1. SentOK /\ GcsOK
  BY TypeGroups
<1>2. CASE Send(PayloadFrames(now))
  BY <1>2, PortsSent
<1>3. CASE /\ Send(<<>>)
           /\ \A s \in {"pay1Arm", "pay1Fire", "pay2Arm", "pay2Fire"} : ~Moved(s, gcs.sw, now)
  <2>1. \A i \in Followed : Intended(i)' = Intended(i)
    BY <1>1, <1>3, PortsIntended, SameLights, IntendedItems
  <2> QED
    BY <1>1, <1>3, <2>1, NoFrames, SendKeeps
<1> QED
  BY <1>2, <1>3 DEF SwitchLogic

LEMMA DigitalKeeps ==
  ASSUME TypeOK, PanelInv, HandleDigital
  PROVE  PanelInv'
<1> DEFINE now == Head(toPi).on
<1>1. /\ TakePorts(now, "key" \in now) /\ synced' = TRUE /\ lastTft' = lastTft /\ panel' = panel
      /\ SwitchLogic(now, "key" \in now) \/ Send(PayloadFrames(now))
  BY DEF HandleDigital, Handle
<1> HIDE DEF now
<1> QED
  BY <1>1, PortsSent, PortsHandled

LEMMA SwitchKeeps ==
  ASSUME TypeOK, PanelInv, HandleSwitch
  PROVE  PanelInv'
<1> DEFINE now == Head(toPi).on
<1>1. /\ TakePorts(now, "key" \in now) /\ synced' = synced /\ lastTft' = lastTft /\ panel' = panel
      /\ \/ synced /\ SwitchLogic(now, "key" \in now)
         \/ ~synced /\ UNCHANGED <<toPico, unsure>>
  BY DEF HandleSwitch, Handle
<1> HIDE DEF now
<1>2. CASE synced /\ SwitchLogic(now, "key" \in now)
  <2>1. synced' = TRUE
    BY <1>1, <1>2, TypeGroups DEF RestOK
  <2> QED
    BY <1>1, <1>2, <2>1, PortsHandled
<1>3. CASE ~synced /\ UNCHANGED <<toPico, unsure>>
  <2>1. Payloads \subseteq unsure
    BY <1>3 DEF PanelInv
  <2>2. \A i \in Followed \ unsure : Intended(i)' = Intended(i)
    BY <1>1, <2>1, PortsIntended, TypeGroups
  <2> QED
    BY <1>1, <1>3, <2>2, QuietKeeps
<1> QED
  BY <1>1, <1>2, <1>3

\* One frame for an item other than a payload button.
LEMMA OneSent ==
  ASSUME TypeOK, PanelInv, NEW i \in Items \ Payloads, NEW v \in Shown,
         Send(<<Frame(i, v)>>), panel' = panel, synced' = synced,
         i \in Followed => Intended(i)' = v,
         \A j \in Followed \ {i} : Intended(j)' = Intended(j)
  PROVE  PanelInv'
<1>1. SentOK
  BY TypeGroups
<1>2. <<Frame(i, v)>> \in Seq(Frames) /\ ItemsOf(<<Frame(i, v)>>) = {i}
  BY FrameType DEF Items, Payloads, Buttons
<1>3. EndsAs(<<Frame(i, v)>>, panel, i, v)
  BY OneFrame
<1>4. ~synced' => ~synced /\ Payloads \cap ItemsOf(<<Frame(i, v)>>) = {}
  BY <1>2
<1> QED
  BY <1>1, <1>2, <1>3, <1>4, SendKeeps

\* A frame that sets nothing here, or none at all.
LEMMA NoneSent ==
  ASSUME TypeOK, PanelInv, NEW fs \in {<<>>, <<Frame("none", Light("off"))>>},
         Send(fs), panel' = panel, synced' = synced,
         \A j \in Followed : Intended(j)' = Intended(j)
  PROVE  PanelInv'
<1>1. SentOK
  BY TypeGroups
<1>2. fs \in Seq(Frames) /\ ItemsOf(fs) = {}
  <2>1. Light("off") \in Shown
    BY Lights
  <2>2. /\ <<Frame("none", Light("off"))>> \in Seq(Frames)
        /\ ItemsOf(<<Frame("none", Light("off"))>>) = {}
    BY <2>1, FrameType
  <2> QED
    BY <2>2, NoFrames
<1> QED
  BY <1>1, <1>2, SendKeeps

LEMMA ButtonKeeps ==
  ASSUME TypeOK, PanelInv, HandleButton
  PROVE  PanelInv'
<1> DEFINE b == Head(toPi).button
           pressed == Head(toPi).pressed
           crosshair == IF b = "crosshair" /\ pressed THEN ~gcs.crosshair ELSE gcs.crosshair
<1>1. b \in Buttons /\ pressed \in BOOLEAN
  BY TypeGroups, HandleTypes, PacketFields DEF HandleButton
<1>2. crosshair \in BOOLEAN /\ gcs \in GcsState
  BY TypeGroups DEF GcsState, GcsOK
<1>3. /\ gcs' = [gcs EXCEPT !.crosshair = crosshair]
      /\ Send(IF b # "crosshair"
              THEN <<Frame(b, Light(IF pressed THEN "lit" ELSE "off"))>>
              ELSE IF pressed THEN <<Frame(b, Light(IF crosshair THEN "lit" ELSE "off"))>>
              ELSE <<>>)
      /\ panel' = panel /\ synced' = synced /\ lastTft' = lastTft
  BY DEF HandleButton, Handle
<1>4. b # "crosshair" \/ ~pressed => crosshair = gcs.crosshair
  OBVIOUS
<1> HIDE DEF b, pressed, crosshair
<1>5. /\ gcs'.sw = gcs.sw /\ gcs'.crosshair = crosshair
      /\ gcs'.worklight = gcs.worklight /\ gcs'.screenL = gcs.screenL
  BY <1>2, <1>3 DEF GcsState
<1>6. \A j \in Followed \ {"crosshair"} : Intended(j)' = Intended(j)
  BY <1>3, <1>5, IntendedItems, FollowedItems
<1>7. Intended("crosshair")' = Light(IF crosshair THEN "lit" ELSE "off")
  BY <1>5, IntendedItems
<1>8. \A c \in BOOLEAN : Light(IF c THEN "lit" ELSE "off") \in Shown
  BY Lights
<1>9. b \in Items \ Payloads
  BY <1>1 DEF Items, Buttons, Payloads
<1>10. CASE b # "crosshair"
  <2>1. \A j \in Followed : Intended(j)' = Intended(j)
    BY <1>3, <1>4, <1>5, <1>10, SameIntended
  <2>2. b \notin Followed
    BY <1>1, <1>10 DEF Buttons, Followed
  <2>3. Send(<<Frame(b, Light(IF pressed THEN "lit" ELSE "off"))>>)
    BY <1>3, <1>10
  <2> QED
    BY <1>1, <1>3, <1>8, <1>9, <2>1, <2>2, <2>3, OneSent
<1>11. CASE b = "crosshair" /\ pressed
  <2>1. Send(<<Frame(b, Light(IF crosshair THEN "lit" ELSE "off"))>>)
    BY <1>3, <1>11
  <2> QED
    BY <1>2, <1>3, <1>6, <1>7, <1>8, <1>9, <1>11, <2>1, OneSent
<1>12. CASE b = "crosshair" /\ ~pressed
  <2>1. \A j \in Followed : Intended(j)' = Intended(j)
    BY <1>3, <1>4, <1>5, <1>12, SameIntended
  <2> QED
    BY <1>3, <1>12, <2>1, NoneSent
<1> QED
  BY <1>10, <1>11, <1>12

LEMMA HeartbeatKeeps ==
  ASSUME TypeOK, PanelInv, HandleHeartbeat
  PROVE  PanelInv'
<1>1. /\ gcs' = [gcs EXCEPT !.link = TRUE] /\ lastTft' = TftMode(gcs)
      /\ Send(IF TftMode(gcs) # lastTft THEN <<Frame("tft", <<"mode", TftMode(gcs)>>)>> ELSE <<>>)
      /\ panel' = panel /\ synced' = synced
  BY DEF HandleHeartbeat, Handle
<1>2. /\ gcs'.sw = gcs.sw /\ gcs'.crosshair = gcs.crosshair
      /\ gcs'.worklight = gcs.worklight /\ gcs'.screenL = gcs.screenL
  BY <1>1, TypeGroups DEF GcsOK, GcsState
<1>3. \A j \in Followed \ {"tft"} : Intended(j)' = Intended(j)
  BY <1>2, IntendedItems, FollowedItems
<1>4. CASE TftMode(gcs) # lastTft
  <2>1. TftMode(gcs) \in 0..255
    BY TftModes, TypeGroups DEF GcsOK
  <2>2. <<"mode", TftMode(gcs)>> \in Shown /\ "tft" \in Items \ Payloads
    BY <2>1, Lights DEF Items, Payloads
  <2>3. Intended("tft")' = <<"mode", TftMode(gcs)>>
    BY <1>1, IntendedItems
  <2> QED
    BY <1>1, <1>3, <1>4, <2>2, <2>3, OneSent
<1>5. CASE TftMode(gcs) = lastTft
  <2>1. \A j \in Followed : Intended(j)' = Intended(j)
    BY <1>1, <1>2, <1>5, SameIntended
  <2> QED
    BY <1>1, <1>5, <2>1, NoneSent
<1> QED
  BY <1>4, <1>5

LEMMA PageKeeps ==
  ASSUME TypeOK, PanelInv, PageStep
  PROVE  PanelInv'
<1>1. gcs \in GcsState /\ SentOK
  BY TypeGroups DEF GcsOK
<1>2. ASSUME NEW f, Tap(f)
      PROVE  panel' = panel /\ synced' = synced
  BY <1>2 DEF Tap
<1>3. CASE TapOverview
  <2>1. /\ Send(<<Frame("tft", <<"mode", 5>>)>>) /\ lastTft' = 5 /\ gcs' = gcs
        /\ panel' = panel /\ synced' = synced
    BY <1>2, <1>3 DEF TapOverview
  <2>2. <<"mode", 5>> \in Shown /\ "tft" \in Items \ Payloads
    <3>1. 5 \in 0..255
      OBVIOUS
    <3>2. <<"mode", 5>> \in Shown
      BY <3>1, Lights, Zenon
    <3> QED
      BY <3>2 DEF Items, Payloads
  <2>3. /\ Intended("tft")' = <<"mode", 5>>
        /\ \A j \in Followed \ {"tft"} : Intended(j)' = Intended(j)
    BY <2>1, IntendedItems, FollowedItems
  <2> QED
    BY <2>1, <2>2, <2>3, OneSent
<1>4. CASE TapWorklight
  <2>1. /\ gcs' = [gcs EXCEPT !.worklight = ~@] /\ lastTft' = lastTft
        /\ Send(<<Frame("worklight", Light(IF gcs'.worklight THEN "lit" ELSE "off"))>>)
        /\ panel' = panel /\ synced' = synced
    BY <1>2, <1>4 DEF TapWorklight
  <2>2. /\ gcs'.sw = gcs.sw /\ gcs'.crosshair = gcs.crosshair
        /\ gcs'.screenL = gcs.screenL /\ gcs'.worklight \in BOOLEAN
    BY <1>1, <2>1 DEF GcsState
  <2>3. /\ Light(IF gcs'.worklight THEN "lit" ELSE "off") \in Shown
        /\ "worklight" \in Items \ Payloads
    BY <2>2, Lights DEF Items, Payloads
  <2>4. /\ Intended("worklight")' = Light(IF gcs'.worklight THEN "lit" ELSE "off")
        /\ \A j \in Followed \ {"worklight"} : Intended(j)' = Intended(j)
    BY <2>1, <2>2, IntendedItems, FollowedItems
  <2> QED
    BY <2>1, <2>3, <2>4, OneSent
<1>5. CASE TapPeriphCmd
  <2>1. /\ \E fs \in {<<>>, <<Frame("none", Light("off"))>>} : Send(fs)
        /\ panel' = panel /\ synced' = synced /\ gcs' = gcs /\ lastTft' = lastTft
    BY <1>2, <1>5 DEF TapPeriphCmd
  <2>2. \A j \in Followed : Intended(j)' = Intended(j)
    BY <2>1, SameIntended
  <2> QED
    BY <2>1, <2>2, NoneSent
<1>6. CASE AnswerPrompt
  <2>1. UNCHANGED <<toPico, panel, unsure, synced, gcs, lastTft>>
    BY <1>6 DEF AnswerPrompt, wireVars
  <2> QED
    BY <2>1, SameIntended, QuietKeeps
<1>7. ASSUME NEW a \in Addresses, TapDetail(a)
      PROVE  PanelInv'
  <2> DEFINE f == Frame("tft", <<"detail", a>>)
  <2>1. /\ toPico' = toPico \/ toPico' = Append(toPico, f)
        /\ unsure' = unsure \cup {"tft"} /\ gcs' = gcs /\ lastTft' = lastTft
        /\ panel' = panel /\ synced' = synced
    BY <1>2, <1>7 DEF TapDetail
  <2>2. "tft" \in Items /\ a \in 0..255
    BY DataAssumption DEF Items
  <2>3. f \in Frames /\ <<f>> \in Seq(Frames) /\ ItemsOf(<<f>>) = {"tft"}
    BY <2>2, SettingFrame
  <2> HIDE DEF f
  <2>4. toPico' = toPico \/ toPico' = toPico \o <<f>>
    BY <1>1, <2>1, <2>3, Appended DEF SentOK
  <2>5. ASSUME NEW i \in Followed, i \notin unsure'
        PROVE  EndsAs(toPico', panel', i, Intended(i)')
    <3>1. EndsAs(toPico, panel, i, Intended(i)) /\ i \in Items /\ i # "tft"
      BY <2>1, <2>5, FollowsItem DEF PanelInv, Followed
    <3>2. EndsAs(toPico \o <<f>>, panel, i, Intended(i))
      BY <1>1, <2>3, <3>1, OtherFrames DEF SentOK
    <3>3. Intended(i)' = Intended(i)
      BY <2>1, SameIntended
    <3> QED
      BY <2>1, <2>4, <3>1, <3>2, <3>3
  <2> QED
    BY <2>1, <2>5, FollowsItem DEF PanelInv
<1>8. ASSUME NEW v \in Sliders, SlideScreenL(v)
      PROVE  PanelInv'
  <2> DEFINE level == (gcs'.screenL * 255) \div 100
  <2>1. PICK n \in 0..100 : gcs' = [gcs EXCEPT !.screenL = n]
    <3>1. (IF v < 0 THEN 0 ELSE IF v > 100 THEN 100 ELSE v) \in 0..100
      BY DataAssumption
    <3> QED
      BY <1>8, <3>1 DEF SlideScreenL
  <2>2. /\ gcs'.sw = gcs.sw /\ gcs'.crosshair = gcs.crosshair
        /\ gcs'.worklight = gcs.worklight /\ gcs'.screenL \in 0..100
    BY <1>1, <2>1 DEF GcsState
  <2>3. level \in 0..255
    BY <2>2
  <2>4. /\ Send(<<Frame("brightness", <<"level", level>>)>>)
        /\ panel' = panel /\ synced' = synced /\ lastTft' = lastTft
    BY <1>2, <1>8 DEF SlideScreenL
  <2>5. Intended("brightness")' = <<"level", level>>
    BY IntendedItems
  <2> HIDE DEF level
  <2>6. <<"level", level>> \in Shown /\ "brightness" \in Items \ Payloads
    BY <2>3, Lights DEF Items, Payloads
  <2>7. \A j \in Followed \ {"brightness"} : Intended(j)' = Intended(j)
    BY <2>2, <2>4, IntendedItems, FollowedItems
  <2> QED
    BY <2>4, <2>5, <2>6, <2>7, OneSent
<1> QED
  BY <1>3, <1>4, <1>5, <1>6, <1>7, <1>8 DEF PageStep

LEMMA PicoKeeps ==
  ASSUME TypeOK, PanelInv, PicoReceive \/ Unplug
  PROVE  PanelInv'
<1>1. SentOK /\ PanelOK
  BY TypeGroups
<1>2. CASE PicoReceive
  <2>1. /\ toPico # <<>> /\ toPico' = Tail(toPico)
        /\ panel' = [i \in Items |-> IF i = Head(toPico).item THEN Head(toPico).shown ELSE panel[i]]
        /\ UNCHANGED <<unsure, gcs, synced, lastTft>>
    BY <1>2 DEF PicoReceive
  <2>2. ASSUME NEW i \in Followed, i \notin unsure'
        PROVE  EndsAs(toPico', panel', i, Intended(i)')
    <3>1. EndsAs(toPico, panel, i, Intended(i)) /\ i \in Items
      BY <2>1, <2>2, FollowsItem DEF PanelInv, Followed
    <3>2. EndsAs(Tail(toPico), panel', i, Intended(i))
      BY <1>1, <2>1, <3>1, FirstFrame DEF SentOK, PanelOK
    <3> QED
      BY <2>1, <3>2, SameIntended
  <2> QED
    BY <2>1, <2>2, FollowsItem DEF PanelInv
<1>3. CASE Unplug
  <2>1. /\ toPico' = <<>> /\ UNCHANGED <<gcs, synced, lastTft>>
        /\ \/ panel' = panel /\ unsure' = unsure \cup ItemsOf(toPico)
           \/ unsure' = Items
    BY <1>3 DEF Unplug
  <2>2. Payloads \subseteq Items /\ Followed \subseteq Items
    BY DEF Items, Followed
  <2>3. CASE panel' = panel /\ unsure' = unsure \cup ItemsOf(toPico)
    <3>1. ASSUME NEW i \in Followed, i \notin unsure'
          PROVE  EndsAs(toPico', panel', i, Intended(i)')
      <4>1. EndsAs(toPico, panel, i, Intended(i)) /\ i \notin ItemsOf(toPico)
        BY <2>3, <3>1, FollowsItem DEF PanelInv
      <4>2. i # "none"
        BY <3>1, FollowedItems DEF Payloads
      <4>3. panel[i] = Intended(i)
        BY <4>1, <4>2 DEF EndsAs, ItemsOf, Frame
      <4>4. Intended(i)' = Intended(i)
        BY <2>1, SameIntended
      <4> QED
        BY <2>1, <2>3, <4>3, <4>4 DEF EndsAs
    <3> QED
      BY <2>1, <2>3, <3>1, FollowsItem DEF PanelInv
  <2>4. CASE unsure' = Items
    BY <2>2, <2>4, FollowsItem DEF PanelInv
  <2> QED
    BY <2>1, <2>3, <2>4
<1> QED
  BY <1>2, <1>3

\* What sends nothing and changes no item's state.
LEMMA QuietSteps ==
  ASSUME TypeOK, PanelInv,
         \/ OnSerialError \/ RetryConnect \/ HandleKey \/ HandleAdc
         \/ HandlePeriphState \/ HandlePeriphData \/ Plug
         \/ \E changed \in SUBSET (group \cap (PortInputs \cup Buttons)) : Operate(changed)
         \/ PeriodicState \/ PeriodicBeat \/ Measure \/ UNCHANGED vars
  PROVE  PanelInv'
<1>1. gcs \in GcsState
  BY TypeGroups DEF GcsOK
<1>2. UNCHANGED <<toPico, panel, unsure, synced, lastTft>>
  BY DEF OnSerialError, RetryConnect, HandleKey, HandleAdc, HandlePeriphState, HandlePeriphData,
         Plug, Operate, PeriodicState, PeriodicBeat, Periodic, Measure, vars, wireVars, Handle
<1>3. /\ gcs'.sw = gcs.sw /\ gcs'.crosshair = gcs.crosshair
      /\ gcs'.worklight = gcs.worklight /\ gcs'.screenL = gcs.screenL
  <2>1. CASE OnSerialError \/ RetryConnect \/ Plug
    BY <1>1, <2>1 DEF OnSerialError, RetryConnect, Plug, GcsState
  <2>2. CASE HandleKey \/ HandleAdc
    BY <1>1, <2>2 DEF HandleKey, HandleAdc, GcsState
  <2>3. CASE HandlePeriphState \/ HandlePeriphData
    <3>1. CASE HandlePeriphState
      BY <1>1, <3>1 DEF HandlePeriphState, GcsState
    <3>2. CASE HandlePeriphData
      BY <1>1, <3>2 DEF HandlePeriphData, GcsState
    <3> QED
      BY <2>3, <3>1, <3>2
  <2>4. CASE \/ \E changed \in SUBSET (group \cap (PortInputs \cup Buttons)) : Operate(changed)
             \/ PeriodicState \/ PeriodicBeat \/ Measure \/ UNCHANGED vars
    BY <2>4 DEF Operate, PeriodicState, PeriodicBeat, Periodic, Measure, vars
  <2> QED
    BY <2>1, <2>2, <2>3, <2>4
<1> QED
  BY <1>2, <1>3, SameIntended, QuietKeeps

LEMMA BeatSentKeeps ==
  ASSUME TypeOK, PanelInv, SendHeartbeat
  PROVE  PanelInv'
<1>1. /\ Send(<<Frame("none", Light("off"))>>)
      /\ UNCHANGED <<gcs, panel, synced, lastTft>>
  BY DEF SendHeartbeat
<1> QED
  BY <1>1, SameIntended, NoneSent

LEMMA PanelKept == TypeOK /\ PanelInv /\ [Next]_vars => PanelInv'
<1> SUFFICES ASSUME TypeOK, PanelInv, [Next]_vars PROVE PanelInv'
  OBVIOUS
<1>1. CASE PiStep
  BY <1>1, QuietSteps, DigitalKeeps, SwitchKeeps, ButtonKeeps, HeartbeatKeeps DEF PiStep
<1>2. CASE SendHeartbeat
  BY <1>2, BeatSentKeeps
<1>3. CASE PageStep
  BY <1>3, PageKeeps
<1>4. CASE PicoReceive \/ Unplug
  BY <1>4, PicoKeeps
<1>5. CASE \/ Plug \/ PeriodicState \/ PeriodicBeat \/ Measure \/ UNCHANGED vars
           \/ \E changed \in SUBSET (group \cap (PortInputs \cup Buttons)) : Operate(changed)
  BY <1>5, QuietSteps
<1> QED
  BY <1>1, <1>2, <1>3, <1>4, <1>5 DEF Next

\* The payload lights, the crosshair light, the TFT mode, the worklight and the
\* brightness end up as GCSState says, whatever the order of packets, taps,
\* refused frames and reconnections, unless a frame for them was lost with the
\* cable (PanelFollows).
THEOREM PanelFollowsState == Spec => []PanelFollows
<1>1. Init => PanelInv
  BY DEF Init, PanelInv, PanelFollows, Items
<1>2. PanelInv => PanelFollows
  BY DEF PanelInv
<1> QED
  BY <1>1, <1>2, PanelKept, TypeCorrect, PTL DEF Spec

=============================================================================
