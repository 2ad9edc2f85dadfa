----------------------------- MODULE ButtonLeds -----------------------------
(***************************************************************************)
(* The LEDs in the two payload buttons (led_ws2811.c): cdc_task writes the *)
(* colour, animation and phase of a button field by field while            *)
(* ws2811_task, on the other core, reads them field by field to compute    *)
(* the pixels of the next transfer; nothing protects them.  A step is one  *)
(* access to one field.  The phase is a byte and wraps.                    *)
(***************************************************************************)
EXTENDS Integers, Sequences

CONSTANTS
  NumPixels,   \* WS2811_NUM_PIXELS, 2 in the firmware
  Plans        \* what the Pi asks for in one behaviour: sequences of frames

Off       == 0   \* LED_ANIM_*
On        == 1
BlinkSlow == 2
BlinkFast == 3
Pulse     == 4

Byte    == 0..255
Buttons == 0..(NumPixels - 1)

\* An LED frame for a button, and a brightness frame.
LedFrame   == [button: Byte, colour: Byte \X Byte \X Byte, anim: Byte]
LevelFrame == [level: Byte]

ASSUME ButtonLedsAssumption ==
  /\ NumPixels \in 1..256
  /\ Plans \subseteq Seq(LedFrame \cup LevelFrame)

VARIABLES
  btn,       \* s_btn
  bright,    \* s_brightness
  buf,       \* s_pixel_buf
  setting,   \* the call of led_ws2811_set_button in progress: what is left to write
  woken,     \* the task notification of ws2811_task
  at,        \* its next access: "wait", "start", or the field it reads next
  pixel,     \* the button it computes
  read,      \* what it has read of it
  free,      \* s_dma_sem
  word,      \* the word the DMA channel sends next, NumPixels when it rests
  lit,       \* the chain: the colour of each LED
  plan,      \* the frames the Pi will still send
  wanted,    \* history: the last frame for each button
  halves     \* history: the LEDs lit or dark, and for how many transfers so
             \* since the last command was carried out

btnVars == <<btn, bright, buf, setting, woken, at, pixel, read, free, word, lit, plan, wanted, halves>>

Dark    == <<0, 0, 0>>
Nothing == [r |-> 0, g |-> 0, b |-> 0, bright |-> 0, phase |-> 0]
Fields  == <<"r", "g", "b", "bright", "phase", "anim">>

BtnTypeOK ==
  /\ btn \in [Buttons -> [r: Byte, g: Byte, b: Byte, anim: Byte, phase: Byte]]
  /\ bright \in Byte
  /\ buf \in [Buttons -> Byte \X Byte \X Byte] /\ lit \in [Buttons -> Byte \X Byte \X Byte]
  /\ Len(setting) <= 5 /\ woken \in BOOLEAN /\ free \in BOOLEAN
  /\ at \in {"wait", "start", "r", "g", "b", "bright", "phase", "anim"}
  /\ pixel \in Buttons /\ word \in 0..NumPixels /\ \E p \in Plans : Len(plan) <= Len(p)
  /\ read \in [r: Byte, g: Byte, b: Byte, bright: Byte, phase: Byte]
  /\ wanted \in [Buttons -> LedFrame]
  /\ halves \in [Buttons -> [dark: BOOLEAN, transfers: 0..13]]

-----------------------------------------------------------------------------
\* One channel at a brightness.
Scale(v, level) == (v * level) \div 256

\* A bug: the phase is taken for a count that ends with the period.
DarkHalfFault(anim, phase) ==
  \/ anim = BlinkSlow /\ phase >= 10
  \/ anim = BlinkFast /\ phase >= 2

\* The second half of a blink is dark.
DarkHalf(anim, phase) ==
  \/ anim = BlinkSlow /\ phase % 20 >= 10
  \/ anim = BlinkFast /\ phase % 4 >= 2

Intensity(phase) == LET p == phase % 40 IN IF p < 20 THEN p * 12 ELSE (40 - p) * 12

ComputePixel(f, anim) ==
  LET at_(level) == <<Scale(f.r, level), Scale(f.g, level), Scale(f.b, level)>>
  IN  CASE anim \in {On, BlinkSlow, BlinkFast} /\ ~DarkHalf(anim, f.phase) -> at_(f.bright)
        [] anim = Pulse -> at_(Scale(f.bright, Intensity(f.phase)))
        [] OTHER        -> Dark

\* A bug: the phase is wider than its byte.
NextPhaseFault(phase) == phase + 1

NextPhase(phase) == (phase + 1) % 256

\* A button that blinks, in a colour that shows at the brightness.
Blinks(f, level) ==
  f.anim \in {BlinkSlow, BlinkFast} /\ \E v \in {f.r, f.g, f.b} : Scale(v, level) > 0

-----------------------------------------------------------------------------
BtnInit ==
  /\ btn = [i \in Buttons |-> [r |-> IF i = 0 THEN 255 ELSE 0, g |-> IF i = 1 THEN 255 ELSE 0,
                               b |-> 0, anim |-> IF i \in {0, 1} THEN On ELSE Off, phase |-> 0]]
  /\ bright = 255 /\ buf = [i \in Buttons |-> Dark] /\ lit = [i \in Buttons |-> Dark]
  /\ setting = <<>> /\ woken = FALSE /\ at = "wait" /\ pixel = 0
  /\ read = Nothing
  /\ free = TRUE /\ word = NumPixels /\ plan \in Plans
  /\ wanted = [i \in Buttons |-> [button |-> i, anim |-> btn[i].anim,
                                 colour |-> <<btn[i].r, btn[i].g, btn[i].b>>]]
  /\ halves = [i \in Buttons |-> [dark |-> TRUE, transfers |-> 0]]

\* cdc_task receives an LED frame for a button; one past the last is ignored.
SetButton ==
  /\ setting = <<>> /\ plan # <<>> /\ Head(plan) \in LedFrame /\ plan' = Tail(plan)
  /\ LET f == Head(plan) i == f.button c == f.colour
     IN  IF i \in Buttons
           THEN /\ setting' = <<<<i, "r", c[1]>>, <<i, "g", c[2]>>, <<i, "b", c[3]>>,
                                <<i, "anim", f.anim>>, <<i, "phase", 0>>>>
                /\ wanted' = [wanted EXCEPT ![i] = f]
                /\ UNCHANGED woken
           ELSE /\ woken' = TRUE /\ UNCHANGED <<setting, wanted>>
  /\ UNCHANGED <<btn, bright, buf, at, pixel, read, free, word, lit, halves>>

\* A bug: the blue channel is not written.
WriteFieldFault ==
  /\ setting # <<>> /\ setting' = Tail(setting)
  /\ LET i == Head(setting)[1] field == Head(setting)[2] value == Head(setting)[3]
     IN  /\ btn' = IF field = "b" THEN btn ELSE [btn EXCEPT ![i][field] = value]
         /\ woken' = (woken \/ field = "phase")
         /\ halves' = [halves EXCEPT ![i] = [dark |-> TRUE, transfers |-> 0]]
  /\ UNCHANGED <<bright, buf, at, pixel, read, free, word, lit, plan, wanted>>

\* It writes the next field, and notifies ws2811_task after the last one.
WriteField ==
  /\ setting # <<>> /\ setting' = Tail(setting)
  /\ LET i == Head(setting)[1] field == Head(setting)[2] value == Head(setting)[3]
     IN  /\ btn' = [btn EXCEPT ![i][field] = value]
         /\ woken' = (woken \/ field = "phase")
         /\ halves' = [halves EXCEPT ![i] = [dark |-> TRUE, transfers |-> 0]]
  /\ UNCHANGED <<bright, buf, at, pixel, read, free, word, lit, plan, wanted>>

\* A brightness frame, which notifies nobody.
SetBrightness ==
  /\ setting = <<>> /\ plan # <<>> /\ Head(plan) \in LevelFrame /\ plan' = Tail(plan)
  /\ bright' = Head(plan).level
  /\ halves' = [i \in Buttons |-> [dark |-> TRUE, transfers |-> 0]]
  /\ UNCHANGED <<btn, buf, setting, woken, at, pixel, read, free, word, lit, wanted>>

-----------------------------------------------------------------------------
\* ws2811_task wakes on a notification, or after 50 ms, which is longer than
\* any transfer and than the five stores of a command.  A notification may wake it
\* with a transfer under way, because the wait for the next period returns at once
\* when it is over already.
BtnWake ==
  /\ at = "wait" /\ (woken \/ (word = NumPixels /\ setting = <<>>))
  /\ woken' = FALSE /\ at' = "r" /\ pixel' = 0
  /\ UNCHANGED <<btn, bright, buf, setting, read, free, word, lit, plan, wanted, halves>>

\* It reads a field of the button, or the brightness.
ReadField ==
  \E k \in 1..5 :
    /\ at = Fields[k] /\ at' = Fields[k + 1]
    /\ read' = [read EXCEPT ![at] = IF at = "bright" THEN bright ELSE btn[pixel][at]]
    /\ UNCHANGED <<btn, bright, buf, setting, woken, pixel, free, word, lit, plan, wanted, halves>>

\* It reads the animation, stores the pixel and advances the phase, which the
\* compiler may have kept from the first read.
StorePixel ==
  /\ at = "anim"
  /\ buf' = [buf EXCEPT ![pixel] = ComputePixel(read, btn[pixel].anim)]
  /\ \E phase \in {read.phase, btn[pixel].phase} :
       btn' = [btn EXCEPT ![pixel].phase = NextPhase(phase)]
  /\ IF pixel + 1 \in Buttons THEN at' = "r" /\ pixel' = pixel + 1
                              ELSE at' = "start" /\ pixel' = 0
  /\ read' = Nothing
  /\ UNCHANGED <<bright, setting, woken, free, word, lit, plan, wanted, halves>>

\* It starts the transfer once the one before has ended.
BtnStart ==
  /\ at = "start" /\ free
  /\ free' = FALSE /\ word' = 0 /\ at' = "wait"
  /\ UNCHANGED <<btn, bright, buf, setting, woken, pixel, read, lit, plan, wanted, halves>>

\* The channel sends a word; with the last the interrupt gives the semaphore.
BtnWord ==
  /\ word < NumPixels /\ word' = word + 1
  /\ lit' = [lit EXCEPT ![word] = buf[word]]
  /\ free' = (free \/ word' = NumPixels)
  /\ LET dark == buf[word] = Dark
         same == halves[word].transfers > 0 /\ dark = halves[word].dark
     IN  halves' = [halves EXCEPT ![word] =
           IF setting # <<>> \/ ~Blinks(btn[word], bright)
             THEN [dark |-> TRUE, transfers |-> 0]
             ELSE [dark |-> dark, transfers |-> IF same THEN @.transfers + 1 ELSE 1]]
  /\ UNCHANGED <<btn, bright, buf, setting, woken, at, pixel, read, plan, wanted>>

-----------------------------------------------------------------------------
BtnHost == SetButton \/ SetBrightness

BtnTask == BtnWake \/ ReadField \/ StorePixel \/ BtnStart

BtnNext == BtnHost \/ WriteField \/ BtnTask \/ BtnWord

BtnFairness == WF_btnVars(WriteField) /\ WF_btnVars(BtnTask) /\ WF_btnVars(BtnWord)

-----------------------------------------------------------------------------
\* The LED of a button as it was asked for, at a phase of its animation.
Expected(i, phase) ==
  LET c == wanted[i].colour
  IN  ComputePixel([r |-> c[1], g |-> c[2], b |-> c[3], bright |-> bright, phase |-> phase], wanted[i].anim)

\* In a blink, in a colour that shows, no half lasts longer than it should, also
\* where the phase wraps, whose range is no multiple of the period, and however
\* the reset of the phase raced with its increment.  Two transfers may be left
\* over from before the command, the one under way and the one whose picture is
\* ready, and a notification may send the first picture of the next half early.
BlinkHalves ==
  \A i \in Buttons :
    halves[i].transfers <= CASE btn[i].anim = BlinkSlow -> 13
                             [] btn[i].anim = BlinkFast -> 5
                             [] OTHER                   -> 0

\* A button whose colour or animation was torn by a command shows nothing but
\* the commanded colour in the end, and goes on showing every part of its
\* animation.
ButtonsAnimate ==
  \A i \in Buttons :
    /\ <>[](\E phase \in 0..39 : lit[i] = Expected(i, phase))
    /\ []<>(lit[i] = Expected(i, 0)) /\ []<>(lit[i] = Expected(i, 10))

=============================================================================
