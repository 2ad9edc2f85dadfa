-------------------------- MODULE LedSk6812Proofs --------------------------
(***************************************************************************)
(* What holds of the SK6812 chain of LedSk6812 for every layout of the     *)
(* pixels and every set of severities and hues: its types, that every      *)
(* transfer includes the warning panel, and that no transfer is cut short. *)
(***************************************************************************)
EXTENDS LedSk6812, TLAPS

\* While the panel is drawn the next pixel is one of the panel's.
Drawing == pc = "panel" => j < PanelEnd

Typed == TypeOK /\ Drawing

\* The pixels sent so far, and those about to be sent, include the panel.
PanelCounted ==
  /\ num >= PanelEnd
  /\ pc = "take" => n >= PanelEnd
  /\ PanelInEveryTransfer

\* The semaphore is available only when the channel is idle.
SemaphoreMeansIdle == sem => len = 0

-----------------------------------------------------------------------------
(* Facts about the operators *)

LEMMA LargerFact ==
  ASSUME NEW a \in Int, NEW b \in Int
  PROVE  Larger(a, b) \in {a, b} /\ Larger(a, b) >= a /\ Larger(a, b) >= b
BY DEF Larger

LEMMA CoveredFact ==
  ASSUME NEW p \in 0..MaxPixels
  PROVE  Covered(p) \in 1..MaxPixels /\ Covered(p) >= PanelEnd
BY LayoutAssumption, LargerFact DEF Covered, Larger

LEMMA CommandFields ==
  ASSUME NEW c \in Command \cup {NoCommand}
  PROVE  /\ c.op = "LED" => c.n \in 0..MaxPixels
         /\ c.op = "WARNING" => c.sev \in [Panel -> Severities]
         /\ c.op = "WORKLIGHT" => c.lamp \in Lamp
BY DEF Command, NoCommand

-----------------------------------------------------------------------------
(* Types *)

LEMMA InitTyped == Init => Typed
<1> SUFFICES ASSUME Init PROVE Typed
  OBVIOUS
<1>1. num \in 1..MaxPixels
  BY LayoutAssumption DEF Init, Larger
<1>2. sev \in [Panel -> Severities]
  BY DEF Init
<1>3. buf \in [Pixels -> Colour] /\ shown \in [Leds -> Colour] /\ word \in Colour
  BY DEF Init, Colour
<1>4. /\ k \in 0..MaxPixels /\ sent \in 0..MaxCommands
      /\ j \in 0..WorkEnd /\ n \in 0..MaxPixels
      /\ len \in 0..MaxPixels /\ rd \in 0..MaxPixels /\ pos \in 0..WorkEnd
  BY LayoutAssumption, BoundAssumption DEF Init
<1> QED
  BY <1>1, <1>2, <1>3, <1>4 DEF Init, Typed, TypeOK, Drawing

LEMMA ReceiveTyped ==
  ASSUME Typed, NEW c \in Command, Receive(c)
  PROVE  Typed'
BY LayoutAssumption, BoundAssumption
   DEF Typed, TypeOK, Drawing, Receive, bufVars, taskVars, chainVars

LEMMA WritePixelTyped == Typed /\ WritePixel => Typed'
<1> SUFFICES ASSUME Typed, WritePixel PROVE Typed'
  OBVIOUS
<1>1. k + 1 \in 0..MaxPixels
  <2>1. cmd.n \in 0..MaxPixels
    BY CommandFields DEF Typed, TypeOK, WritePixel
  <2>2. Covered(cmd.n) \in 1..MaxPixels
    BY <2>1, CoveredFact
  <2>3. QED
    BY <2>2, LayoutAssumption DEF Typed, TypeOK, WritePixel
<1>2. buf' \in [Pixels -> Colour]
  <2>1. (IF k < cmd.n THEN "raw" ELSE "off") \in Colour
    BY DEF Colour
  <2>2. QED
    BY <2>1 DEF Typed, TypeOK, WritePixel
<1>3. QED
  BY <1>1, <1>2 DEF Typed, TypeOK, Drawing, WritePixel, taskVars, chainVars

LEMMA WriteIconTyped == Typed /\ WriteIcon => Typed'
<1> SUFFICES ASSUME Typed, WriteIcon PROVE Typed'
  OBVIOUS
<1>1. k \in Panel /\ k + 1 \in 0..MaxPixels
  BY LayoutAssumption DEF Typed, TypeOK, WriteIcon, Panel
<1>2. sev' \in [Panel -> Severities]
  <2>1. cmd.sev \in [Panel -> Severities]
    BY CommandFields DEF Typed, TypeOK, WriteIcon
  <2>2. cmd.sev[k] \in Severities
    BY <1>1, <2>1
  <2>3. QED
    BY <2>2 DEF Typed, TypeOK, WriteIcon
<1>3. QED
  BY <1>1, <1>2 DEF Typed, TypeOK, Drawing, WriteIcon, taskVars, chainVars

LEMMA WriteLampTyped == Typed /\ WriteLamp => Typed'
<1> SUFFICES ASSUME Typed, WriteLamp PROVE Typed'
  OBVIOUS
<1>1. k + 1 \in 0..MaxPixels
  BY LayoutAssumption DEF Typed, TypeOK, WriteLamp
<1>2. lamp' \in Lamp
  <2>1. cmd.lamp \in Lamp /\ lamp \in Lamp
    BY CommandFields DEF Typed, TypeOK, WriteLamp
  <2>2. QED
    BY <2>1 DEF WriteLamp, Lamp
<1>3. QED
  BY <1>1, <1>2 DEF Typed, TypeOK, Drawing, WriteLamp, taskVars, chainVars

\* What Finish makes of the number of pixels.
LEMMA FinishedCount ==
  ASSUME Typed, Finish
  PROVE  /\ num' \in 1..MaxPixels
         /\ num' >= PanelEnd
<1>1. CASE cmd.op = "LED"
  <2>1. cmd.n \in 0..MaxPixels
    BY <1>1, CommandFields DEF Typed, TypeOK
  <2>2. num' = Covered(cmd.n)
    BY <1>1 DEF Finish
  <2>3. QED
    BY <2>1, <2>2, CoveredFact
<1>2. CASE cmd.op # "LED"
  <2>1. num' \in {Larger(num, PanelEnd), Larger(num, WorkEnd)}
    BY <1>2 DEF Finish
  <2>2. QED
    BY <2>1, LayoutAssumption DEF Larger, Typed, TypeOK
<1>3. QED
  BY <1>1, <1>2

LEMMA FinishTyped == Typed /\ Finish => Typed'
<1> SUFFICES ASSUME Typed, Finish PROVE Typed'
  OBVIOUS
<1>1. num' \in 1..MaxPixels
  BY FinishedCount
<1>2. QED
  BY <1>1, LayoutAssumption DEF Typed, TypeOK, Drawing, Finish, taskVars, chainVars

LEMMA WakeTyped == Typed /\ Wake => Typed'
<1> SUFFICES ASSUME Typed, Wake PROVE Typed'
  OBVIOUS
<1>1. notified' \in BOOLEAN /\ pc' = "panel" /\ j' = 0
  BY DEF Wake
<1>2. UNCHANGED <<buf, num, sev, lamp, cmd, k, sent, word, n, sem, len, rd, pos, shown>>
  BY DEF Wake, cdcVars, chainVars
<1>3. QED
  BY <1>1, <1>2, LayoutAssumption DEF Typed, TypeOK, Drawing

LEMMA DrawPanelTyped == Typed /\ DrawPanel => Typed'
<1> SUFFICES ASSUME Typed, DrawPanel PROVE Typed'
  OBVIOUS
<1>1. j \in Panel /\ j + 1 \in 0..WorkEnd
  BY LayoutAssumption DEF Typed, TypeOK, Drawing, DrawPanel, Panel
<1>2. buf' \in [Pixels -> Colour]
  BY <1>1 DEF Typed, TypeOK, DrawPanel, Colour
<1>3. Drawing'
  BY LayoutAssumption DEF Typed, TypeOK, Drawing, DrawPanel
<1>4. QED
  BY <1>1, <1>2, <1>3 DEF Typed, TypeOK, DrawPanel, cdcVars, chainVars

LEMMA ReadLampTyped == Typed /\ ReadLamp => Typed'
<1> SUFFICES ASSUME Typed, ReadLamp PROVE Typed'
  OBVIOUS
<1>1. word' \in Colour
  BY DEF Typed, TypeOK, ReadLamp, Lamp, Colour
<1>2. QED
  BY <1>1 DEF Typed, TypeOK, Drawing, ReadLamp, bufVars, cdcVars, chainVars

LEMMA DrawWorkTyped == Typed /\ DrawWork => Typed'
<1> SUFFICES ASSUME Typed, DrawWork PROVE Typed'
  OBVIOUS
<1>1. buf' \in [Pixels -> Colour]
  BY DEF Typed, TypeOK, DrawWork
<1>2. j' \in 0..WorkEnd /\ Drawing'
  BY LayoutAssumption DEF Typed, TypeOK, Drawing, DrawWork
<1>3. QED
  BY <1>1, <1>2 DEF Typed, TypeOK, DrawWork, cdcVars, chainVars

LEMMA ReadCountTyped == Typed /\ ReadCount => Typed'
<1> SUFFICES ASSUME Typed, ReadCount PROVE Typed'
  OBVIOUS
<1>1. "off" \in Colour
  BY DEF Colour
<1>2. n' \in 0..MaxPixels
  BY LayoutAssumption DEF Typed, TypeOK, ReadCount
<1>3. QED
  BY <1>1, <1>2, LayoutAssumption
  DEF Typed, TypeOK, Drawing, ReadCount, bufVars, cdcVars, chainVars

LEMMA StartTyped == Typed /\ Start => Typed'
<1> SUFFICES ASSUME Typed, Start PROVE Typed'
  OBVIOUS
<1>1. n' = 0 /\ rd' = 0 /\ len' = n /\ pc' = "wait" /\ sem' \in BOOLEAN
  BY DEF Start
<1>2. UNCHANGED <<buf, num, sev, lamp, notified, cmd, k, sent, j, word, pos, shown>>
  BY DEF Start, bufVars, cdcVars
<1>3. QED
  BY <1>1, <1>2, LayoutAssumption DEF Typed, TypeOK, Drawing

LEMMA WordTyped == Typed /\ Word => Typed'
<1> SUFFICES ASSUME Typed, Word PROVE Typed'
  OBVIOUS
<1>1. rd \in Pixels /\ rd + 1 \in 0..MaxPixels /\ pos' \in 0..WorkEnd
  BY LayoutAssumption DEF Typed, TypeOK, Word, Pixels
<1>2. shown' \in [Leds -> Colour]
  BY <1>1 DEF Typed, TypeOK, Word
<1>3. QED
  BY <1>1, <1>2 DEF Typed, TypeOK, Drawing, Word, bufVars, cdcVars, taskVars

LEMMA InterruptTyped == Typed /\ Interrupt => Typed'
BY LayoutAssumption DEF Typed, TypeOK, Drawing, Interrupt, bufVars, cdcVars, taskVars

LEMMA ResetTyped == Typed /\ Reset => Typed'
BY LayoutAssumption DEF Typed, TypeOK, Drawing, Reset, bufVars, cdcVars, taskVars

LEMMA TypedNext == Typed /\ [Next]_vars => Typed'
<1>1. Typed /\ UNCHANGED vars => Typed'
  BY DEF Typed, TypeOK, Drawing, vars, bufVars, cdcVars, taskVars, chainVars
<1>2. Typed /\ CdcStep => Typed'
  BY WritePixelTyped, WriteIconTyped, WriteLampTyped, FinishTyped DEF CdcStep
<1>3. Typed /\ TaskStep => Typed'
  BY WakeTyped, DrawPanelTyped, ReadLampTyped, DrawWorkTyped, ReadCountTyped, StartTyped
  DEF TaskStep
<1>4. Typed /\ ChainStep => Typed'
  BY WordTyped, InterruptTyped, ResetTyped DEF ChainStep
<1>5. QED
  BY <1>1, <1>2, <1>3, <1>4, ReceiveTyped DEF Next

LEMMA AlwaysTyped == Spec => []Typed
BY InitTyped, TypedNext, PTL DEF Spec

\* Every variable keeps its type, whatever the layout of the chain: led_sk6812.c.
THEOREM TypeCorrect == Spec => []TypeOK
<1>1. Typed => TypeOK
  BY DEF Typed
<1>2. QED
  BY <1>1, AlwaysTyped, PTL

-----------------------------------------------------------------------------
(* Transfers *)

\* Every transfer the task starts, at whatever point of an LED frame it copied the
\* number of pixels, includes the panel: led_sk6812.c 168-172, 203-212 and 230-235.
THEOREM PanelAlwaysSent == Spec => []PanelInEveryTransfer
<1>1. Init => PanelCounted
  BY LayoutAssumption DEF Init, Larger, PanelCounted, PanelInEveryTransfer
<1>2. Typed /\ PanelCounted /\ [Next]_vars => PanelCounted'
  <2> SUFFICES ASSUME Typed, PanelCounted, [Next]_vars PROVE PanelCounted'
    OBVIOUS
  <2> USE DEF PanelCounted, PanelInEveryTransfer
  <2>1. CASE Finish
    BY <2>1, FinishedCount DEF Finish, taskVars, chainVars
  <2>2. CASE ReadCount
    BY <2>2 DEF ReadCount, bufVars, chainVars
  <2>3. CASE Start
    BY <2>3 DEF Start, bufVars
  <2>4. CASE Interrupt
    BY <2>4, LayoutAssumption DEF Interrupt, bufVars, taskVars
  <2>5. CASE \/ UNCHANGED vars
             \/ \E c \in Command : Receive(c)
             \/ WritePixel \/ WriteIcon \/ WriteLamp
             \/ Wake \/ DrawPanel \/ ReadLamp \/ DrawWork
             \/ Word \/ Reset
    BY <2>5 DEF vars, bufVars, cdcVars, taskVars, chainVars, Receive, WritePixel, WriteIcon,
                WriteLamp, Wake, DrawPanel, ReadLamp, DrawWork, Word, Reset
  <2>6. QED
    BY <2>1, <2>2, <2>3, <2>4, <2>5 DEF Next, CdcStep, TaskStep, ChainStep
<1>3. PanelCounted => PanelInEveryTransfer
  BY DEF PanelCounted
<1>4. QED
  BY <1>1, <1>2, <1>3, AlwaysTyped, PTL DEF Spec

LEMMA SemaphoreNext == SemaphoreMeansIdle /\ [Next]_vars => SemaphoreMeansIdle'
<1> SUFFICES ASSUME SemaphoreMeansIdle, [Next]_vars PROVE SemaphoreMeansIdle'
  OBVIOUS
<1> USE DEF SemaphoreMeansIdle
<1>1. CASE Start
  BY <1>1 DEF Start
<1>2. CASE Interrupt
  BY <1>2 DEF Interrupt
<1>3. CASE Next /\ ~Start /\ ~Interrupt
  BY <1>3 DEF Next, CdcStep, TaskStep, ChainStep, bufVars, cdcVars, taskVars, chainVars, Receive,
              WritePixel, WriteIcon, WriteLamp, Finish, Wake, DrawPanel, ReadLamp, DrawWork,
              ReadCount, Word, Reset
<1>4. CASE UNCHANGED vars
  BY <1>4 DEF vars, chainVars
<1>5. QED
  BY <1>1, <1>2, <1>3, <1>4

\* The channel is reprogrammed only after the interrupt has said that the transfer
\* before has ended: led_sk6812.c 116-124 and 233-235.
THEOREM TransfersAreWhole == Spec => TransfersComplete
<1> DEFINE Whole == len > 0 =>
                      \/ len' = len /\ rd' >= rd
                      \/ len' = 0 /\ rd = len
<1>1. Init => SemaphoreMeansIdle
  BY DEF Init, SemaphoreMeansIdle
<1>2. Typed /\ SemaphoreMeansIdle /\ [Next]_vars => [Whole]_vars
  <2> SUFFICES ASSUME Typed, SemaphoreMeansIdle, Next, len > 0 PROVE Whole
    OBVIOUS
  <2>1. CASE Start
    BY <2>1 DEF Start, SemaphoreMeansIdle
  <2>2. CASE Interrupt
    BY <2>2 DEF Interrupt
  <2>3. CASE Word
    BY <2>3 DEF Word, Typed, TypeOK
  <2>4. CASE Next /\ ~Start /\ ~Interrupt /\ ~Word
    BY <2>4 DEF Next, CdcStep, TaskStep, ChainStep, bufVars, cdcVars, taskVars, chainVars, Receive,
                WritePixel, WriteIcon, WriteLamp, Finish, Wake, DrawPanel, ReadLamp, DrawWork,
                ReadCount, Reset, Typed, TypeOK
  <2>5. QED
    BY <2>1, <2>2, <2>3, <2>4
<1>3. QED
  BY <1>1, <1>2, AlwaysTyped, SemaphoreNext, PTL DEF Spec, TransfersComplete
=============================================================================
