------------------------------ MODULE LedSk6812 ------------------------------
(***************************************************************************)
(* The SK6812 chain: cdc_task, which executes the Pi's LED, WARNING and    *)
(* WORKLIGHT frames, sk6812_task, which redraws the warning panel and the  *)
(* worklight and starts a transfer (led_sk6812.c), the DMA channel that    *)
(* reads the pixel buffer while both tasks may write it, and the LEDs.     *)
(* The tasks run on two cores, so a handler or a redraw is cut into the    *)
(* single writes of shared state.                                          *)
(*                                                                         *)
(* Pixels are counted from the first of the panel: those before it are the *)
(* Pi's alone.  A colour stands for a severity, the blink phase and the    *)
(* brightness being layout of it, and "raw" for whatever the Pi sent.      *)
(***************************************************************************)
EXTENDS Integers

CONSTANTS
  PanelEnd,     \* WARN_PANEL_LED_COUNT: the worklight follows the panel
  WorkEnd,      \* PanelEnd + WORKLIGHT_LED_COUNT, where the chain ends
  MaxPixels,    \* SK6812_MAX_PIXELS - WARN_PANEL_LED_BASE
  Severities,   \* what WARNING may say of an icon
  Hues,         \* what WORKLIGHT may ask for
  MaxCommands   \* how many frames the Pi sends

ASSUME LayoutAssumption ==
  /\ PanelEnd \in Nat /\ WorkEnd \in Nat /\ MaxPixels \in Nat
  /\ 0 < PanelEnd /\ PanelEnd < WorkEnd /\ WorkEnd <= MaxPixels

ASSUME BoundAssumption == MaxCommands \in Nat

Pixels == 0..(MaxPixels - 1)
Leds   == 0..(WorkEnd - 1)
Panel  == 0..(PanelEnd - 1)
Work   == PanelEnd..(WorkEnd - 1)
Colour == {"off", "raw"} \cup Severities \cup Hues
Lamp   == [on : BOOLEAN, hue : Hues]

\* n is how far an LED frame reaches into the pixels counted here: 0 if it ends
\* before the panel.
NoCommand == [op |-> "NONE"]
Command   ==
       [op : {"LED"}, n : 0..MaxPixels]
  \cup [op : {"WARNING"}, sev : [Panel -> Severities]]
  \cup [op : {"WORKLIGHT"}, lamp : Lamp]

VARIABLES
  buf,        \* s_pixel_buf
  num,        \* s_num_pixels
  sev,        \* s_warn_severity, by the pixel of the icon
  lamp,       \* s_worklight_on and s_worklight_r, _g, _b
  notified,   \* sk6812_task has a notification pending
  cmd,        \* the frame cdc_task is executing
  k,          \* how many writes of it are done
  sent,       \* bound: the frames the Pi has sent
  pc,         \* where sk6812_task is in its loop
  j,          \* the pixel it draws next
  word,       \* the worklight's pixel value
  n,          \* its copy of s_num_pixels
  sem,        \* s_dma_sem is available
  len, rd,    \* the DMA channel's transfer, 0 when it is idle, and the word it reads next
  pos,        \* LEDs that have taken a word since the line was last low long enough
  shown       \* the word each LED took last

bufVars   == <<buf, num, sev, lamp, notified>>
cdcVars   == <<cmd, k, sent>>
taskVars  == <<pc, j, word, n>>
chainVars == <<sem, len, rd, pos, shown>>
vars == <<bufVars, cdcVars, taskVars, chainVars>>

TypeOK ==
  /\ buf \in [Pixels -> Colour] /\ num \in 1..MaxPixels
  /\ sev \in [Panel -> Severities] /\ lamp \in Lamp
  /\ notified \in BOOLEAN /\ sem \in BOOLEAN
  /\ cmd \in Command \cup {NoCommand} /\ k \in 0..MaxPixels /\ sent \in 0..MaxCommands
  /\ pc \in {"wait", "panel", "lamp", "work", "take"}
  /\ j \in 0..WorkEnd /\ word \in Colour /\ n \in 0..MaxPixels
  /\ len \in 0..MaxPixels /\ rd \in 0..MaxPixels /\ pos \in 0..WorkEnd
  /\ shown \in [Leds -> Colour]

Larger(a, b) == IF a < b THEN b ELSE a

Init ==
  /\ buf = [p \in Pixels |-> "off"]
  /\ num = Larger(PanelEnd, WorkEnd)
  /\ \E ok \in Severities : sev = [p \in Panel |-> ok]
  /\ lamp \in {l \in Lamp : ~l.on}
  /\ notified = FALSE
  /\ cmd = NoCommand /\ k = 0 /\ sent = 0
  /\ pc = "wait" /\ j = 0 /\ word = "off" /\ n = 0
  /\ sem = TRUE /\ len = 0 /\ rd = 0 /\ pos = 0
  /\ shown = [p \in Leds |-> "off"]

-----------------------------------------------------------------------------
(* cdc_task: dispatch_led_command and the cases of proto_handle_rx *)

Receive(c) ==
  /\ cmd = NoCommand /\ sent < MaxCommands
  /\ cmd' = c /\ k' = 0 /\ sent' = sent + 1
  /\ UNCHANGED <<bufVars, taskVars, chainVars>>

\* Operators named ...Fault are faulty variants of the definition that follows
\* them.  Nothing uses them but the mutation runs.

CoveredFault(pixels) == pixels      \* the panel is not counted in

\* An LED frame covers the panel as well: what lies before the panel's end and
\* was not sent is zero-filled.
Covered(pixels) == Larger(pixels, PanelEnd)

WritePixelFault ==      \* off by one
  /\ cmd.op = "LED" /\ k <= Covered(cmd.n)
  /\ buf' = [buf EXCEPT ![k] = IF k < cmd.n THEN "raw" ELSE "off"]
  /\ k' = k + 1
  /\ UNCHANGED <<num, sev, lamp, notified, cmd, sent, taskVars, chainVars>>

WritePixel ==
  /\ cmd.op = "LED" /\ k < Covered(cmd.n)
  /\ buf' = [buf EXCEPT ![k] = IF k < cmd.n THEN "raw" ELSE "off"]
  /\ k' = k + 1
  /\ UNCHANGED <<num, sev, lamp, notified, cmd, sent, taskVars, chainVars>>

WriteIcon ==
  /\ cmd.op = "WARNING" /\ k < PanelEnd
  /\ sev' = [sev EXCEPT ![k] = cmd.sev[k]]
  /\ k' = k + 1
  /\ UNCHANGED <<buf, num, lamp, notified, cmd, sent, taskVars, chainVars>>

\* The switch is written before the colour.
WriteLamp ==
  /\ cmd.op = "WORKLIGHT" /\ k < 2
  /\ lamp' = IF k = 0 THEN [lamp EXCEPT !.on = cmd.lamp.on] ELSE [lamp EXCEPT !.hue = cmd.lamp.hue]
  /\ k' = k + 1
  /\ UNCHANGED <<buf, num, sev, notified, cmd, sent, taskVars, chainVars>>

\* The transfer is made to cover what was written, and the task is notified.
Finish ==
  /\ \/ cmd.op = "LED"       /\ k = Covered(cmd.n) /\ num' = Covered(cmd.n)
     \/ cmd.op = "WARNING"   /\ k = PanelEnd       /\ num' = Larger(num, PanelEnd)
     \/ cmd.op = "WORKLIGHT" /\ k = 2              /\ num' = Larger(num, WorkEnd)
  /\ notified' = TRUE
  /\ cmd' = NoCommand /\ k' = 0
  /\ UNCHANGED <<buf, sev, lamp, sent, taskVars, chainVars>>

-----------------------------------------------------------------------------
(* sk6812_task *)

\* A transfer has ended and the line was low long enough since.  50 ms are plenty.
Settled == len = 0 /\ pos = 0

WakeFault ==        \* no pause between transfers: a timeout of 0
  /\ pc = "wait"
  /\ notified' = FALSE
  /\ pc' = "panel" /\ j' = 0
  /\ UNCHANGED <<buf, num, sev, lamp, cdcVars, word, n, chainVars>>

\* ulTaskNotifyTake(pdTRUE, pdMS_TO_TICKS(50))
Wake ==
  /\ pc = "wait" /\ (notified \/ Settled)
  /\ notified' = FALSE
  /\ pc' = "panel" /\ j' = 0
  /\ UNCHANGED <<buf, num, sev, lamp, cdcVars, word, n, chainVars>>

DrawPanel ==
  /\ pc = "panel"
  /\ buf' = [buf EXCEPT ![j] = sev[j]]
  /\ j' = j + 1
  /\ pc' = IF j + 1 < PanelEnd THEN "panel" ELSE "lamp"
  /\ UNCHANGED <<num, sev, lamp, notified, cdcVars, word, n, chainVars>>

ReadLampFault ==        \* the switch is not looked at
  /\ pc = "lamp"
  /\ word' = lamp.hue
  /\ pc' = "work"
  /\ UNCHANGED <<bufVars, cdcVars, j, n, chainVars>>

\* One word for all pixels of the worklight.
ReadLamp ==
  /\ pc = "lamp"
  /\ word' = IF lamp.on THEN lamp.hue ELSE "off"
  /\ pc' = "work"
  /\ UNCHANGED <<bufVars, cdcVars, j, n, chainVars>>

DrawWork ==
  /\ pc = "work" /\ j < WorkEnd
  /\ buf' = [buf EXCEPT ![j] = word]
  /\ j' = j + 1
  /\ UNCHANGED <<num, sev, lamp, notified, cdcVars, pc, word, n, chainVars>>

\* With no pixels to send there is no transfer.
ReadCount ==
  /\ pc = "work" /\ j = WorkEnd
  /\ n' = num
  /\ pc' = IF num = 0 THEN "wait" ELSE "take"
  /\ j' = 0 /\ word' = "off"
  /\ UNCHANGED <<bufVars, cdcVars, chainVars>>

StartFault ==       \* the semaphore is not waited for
  /\ pc = "take"
  /\ sem' = FALSE /\ len' = n /\ rd' = 0
  /\ pc' = "wait" /\ n' = 0
  /\ UNCHANGED <<bufVars, cdcVars, j, word, pos, shown>>

\* xSemaphoreTake(s_dma_sem, portMAX_DELAY), then the channel is started.
Start ==
  /\ pc = "take" /\ sem
  /\ sem' = FALSE /\ len' = n /\ rd' = 0
  /\ pc' = "wait" /\ n' = 0
  /\ UNCHANGED <<bufVars, cdcVars, j, word, pos, shown>>

-----------------------------------------------------------------------------
(* The DMA channel, its interrupt and the LEDs *)

\* The PIO sends a word: the first LED that has none yet takes it, and at the end
\* of the chain it is lost.
Word ==
  /\ rd < len
  /\ shown' = IF pos < WorkEnd THEN [shown EXCEPT ![pos] = buf[rd]] ELSE shown
  /\ pos' = IF pos < WorkEnd THEN pos + 1 ELSE pos
  /\ rd' = rd + 1
  /\ UNCHANGED <<bufVars, cdcVars, taskVars, sem, len>>

\* sk6812_dma_isr.  The PIO's FIFO still holds the last words.
Interrupt ==
  /\ len > 0 /\ rd = len
  /\ sem' = TRUE
  /\ len' = 0 /\ rd' = 0
  /\ UNCHANGED <<bufVars, cdcVars, taskVars, pos, shown>>

\* The line is low for more than 80 us.
Reset ==
  /\ len = 0 /\ pos > 0
  /\ pos' = 0
  /\ UNCHANGED <<bufVars, cdcVars, taskVars, sem, len, rd, shown>>

CdcStep   == WritePixel \/ WriteIcon \/ WriteLamp \/ Finish
TaskStep  == Wake \/ DrawPanel \/ ReadLamp \/ DrawWork \/ ReadCount \/ Start
ChainStep == Word \/ Interrupt \/ Reset

Next == CdcStep \/ TaskStep \/ ChainStep \/ \E c \in Command : Receive(c)

Spec == Init /\ [][Next]_vars

\* Both tasks are scheduled and the hardware works.  The Pi need not send.
FairSpec == Spec /\ WF_vars(CdcStep) /\ WF_vars(TaskStep) /\ WF_vars(ChainStep)

-----------------------------------------------------------------------------
(* Properties *)

\* A transfer in progress is never reprogrammed: sk6812_task, the interrupt and the
\* binary semaphore between them let it run to its end, led_sk6812.c 116-124 and
\* 233-235.
TransfersComplete ==
  [][len > 0 =>
       \/ len' = len /\ rd' >= rd
       \/ len' = 0 /\ rd = len]_vars

\* Every transfer includes the warning panel, whatever the Pi sends and whenever
\* the task copies the number of pixels: led_sk6812.c 168-172 and 203-212.
PanelInEveryTransfer == len > 0 => len >= PanelEnd

\* The warnings last commanded end up on the panel, although LED frames overwrite
\* its pixels, transfers read the buffer while it is redrawn and a transfer that
\* follows too soon on another is lost on the chain.
WarningsShown ==
  \A s \in [Panel -> Severities] :
    <>[](cmd = NoCommand /\ sev = s) => <>[](\A p \in Panel : shown[p] = s[p])

\* So does the worklight, as long as transfers reach it.
Light(l) == IF l.on THEN l.hue ELSE "off"
WorklightShown ==
  \A l \in Lamp :
    <>[](cmd = NoCommand /\ lamp = l /\ num >= WorkEnd) => <>[](\A p \in Work : shown[p] = Light(l))

=============================================================================
