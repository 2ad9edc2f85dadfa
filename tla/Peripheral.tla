----------------------------- MODULE Peripheral -----------------------------
(***************************************************************************)
(* The applications on top of the slave framework and the boards under     *)
(* them: the searchlight (a PWM output and a temperature), the pan-tilt    *)
(* unit (two servos) and the light bar (a strip of LEDs), each built for   *)
(* the STM32F1 or the RP2040.  dev holds what the application remembers    *)
(* next to what its hardware does.                                         *)
(***************************************************************************)
EXTENDS Rs485Frame

CONSTANTS
  MaxDeg,   \* degrees a servo turns, 180
  Pixels,   \* BOARD_NUM_PIXELS
  Samples,  \* values of the temperature's ADC, out of 0..4095
  Builds    \* the applications and what they are built for

Apps == {"searchlight", "pantilt", "lightbar"}
Mcus == {"stm32f1", "rp2040"}

ASSUME PeripheralAssumption ==
  /\ MaxDeg \in Byte \ {0} /\ MaxDeg % 2 = 0 /\ Pixels \in Nat /\ Samples \subseteq 0..4095
  /\ Builds \subseteq Apps \X Mcus

VARIABLES
  app,  \* the application
  mcu,  \* the board it is built for
  dev   \* its state and its hardware

devVars == <<app, mcu, dev>>

\* The pin of /INT: what it drives when it is an output.
IntPins == [out : BOOLEAN, level : {0, 1}]

Word   == 0..(Base * Base - 1)
Raw    == 0..4095              \* of the ADC
Pulse  == 1000..2000           \* of a servo, in microseconds
Angles == [{0, 1} -> Byte]
Pulses == [{0, 1} -> Pulse]
Strips == [colour : Word, bright : Byte]

DevType ==
  [duty : Byte, pwm : Byte, raw : Raw, asserted : BOOLEAN, int : IntPins,
   angle : Angles, us : Pulses, bright : Byte, mode : Byte, colour : Word, dirty : BOOLEAN,
   strip : Strips]

DevTypeOK == app \in Apps /\ mcu \in Mcus /\ dev \in DevType

Smaller(a, b) == IF a < b THEN a ELSE b

-----------------------------------------------------------------------------
(* The boards *)

\* The pulse of a servo, in microseconds.
PulseOf(deg) == 1000 + (Smaller(deg, MaxDeg) * 1000) \div MaxDeg

\* Only the STM32 board remembers the angles it starts with.
StartAngle(m) == IF m = "stm32f1" THEN MaxDeg \div 2 ELSE 0

\* hal_int_pin_init, in both ways a line is released: an open-drain output that is
\* high, an input.
IntReleased(m) == IF m = "stm32f1" THEN [out |-> TRUE, level |-> 1] ELSE [out |-> FALSE, level |-> 0]

\* hal_int_pin_drive.
IntDriven(pin, low) ==
  IF mcu = "stm32f1" THEN [pin EXCEPT !.level = IF low THEN 0 ELSE 1]
  ELSE IF low THEN [out |-> TRUE, level |-> 0] ELSE [pin EXCEPT !.out = FALSE]

IntLow == dev.int.out /\ dev.int.level = 0

\* Division as C does it.
Quotient(a, b) == IF a >= 0 THEN a \div b ELSE -((-a) \div b)

Temperature ==
  LET c == 25 + Quotient((2048 - dev.raw) * 60, 2048)
  IN  IF c < -40 THEN -40 ELSE Smaller(c, 125)

Overtemp == Temperature >= 80

\* A bug: the angle is remembered as it was asked for.
SetAngleFault(ch, deg) ==
  IF ch > 1 THEN dev ELSE [dev EXCEPT !.angle[ch] = deg, !.us[ch] = PulseOf(deg)]

\* The STM32 board remembers the angle it could set, the RP2040 board the one
\* that was asked for.
SetAngle(ch, deg) ==
  IF ch > 1 THEN dev
  ELSE [dev EXCEPT !.angle[ch] = IF mcu = "stm32f1" THEN Smaller(deg, MaxDeg) ELSE deg,
                   !.us[ch] = PulseOf(deg)]

\* The RP2040 board does not drive the strip.
Dirty == mcu = "stm32f1"

PowerBytes ==
  LET mw == Smaller((Pixels * 60 * dev.bright) \div (Base - 1), Base * Base - 1)
  IN  <<mw % Base, mw \div Base>>

-----------------------------------------------------------------------------
(* The handlers: what is answered, or nothing when the length is wrong, and *)
(* the new state.                                                           *)

NoAnswer == [answers |-> FALSE, bytes |-> <<>>, dev |-> dev]
Answers(bytes, new) == [answers |-> TRUE, bytes |-> bytes, dev |-> new]

\* h_set_output: a channel the application does not have is accepted and ignored.
SetOutput(p) ==
  IF Len(p) # 2 THEN NoAnswer
  ELSE Answers(<<>>,
         CASE app = "pantilt"                   -> SetAngle(p[1], p[2])
           [] app # "pantilt" /\ p[1] # 0       -> dev
           [] app = "searchlight" /\ p[1] = 0   -> [dev EXCEPT !.duty = p[2], !.pwm = p[2]]
           [] app = "lightbar" /\ p[1] = 0      -> [dev EXCEPT !.bright = p[2], !.dirty = Dirty])

\* h_set_param of the light bar: parameter 1 is the mode, 2 the colour.
SetParam(p) ==
  IF Len(p) # 3 \/ p[1] \notin {1, 2} THEN NoAnswer
  ELSE Answers(<<>>,
         IF p[1] = 1 THEN [dev EXCEPT !.mode = p[2], !.dirty = Dirty]
                     ELSE [dev EXCEPT !.colour = p[2] + p[3] * Base, !.dirty = Dirty])

\* h_get_status.
Status ==
  CASE app = "searchlight" -> <<dev.duty, Temperature % Base, IF Overtemp THEN 2 ELSE 0>>
    [] app = "pantilt"     -> <<dev.angle[0], dev.angle[1], 0>>
    [] app = "lightbar"    -> <<dev.bright, dev.mode, dev.colour % Base, dev.colour \div Base>>

HasParams == app = "lightbar"
Streams   == app = "lightbar"

DevInit ==
  /\ \E build \in Builds : app = build[1] /\ mcu = build[2]
  /\ dev = [duty |-> 0, pwm |-> 0, raw |-> 2048, asserted |-> FALSE, int |-> IntReleased(mcu),
             angle |-> [ch \in {0, 1} |-> StartAngle(mcu)], us |-> [ch \in {0, 1} |-> 1500],
             bright |-> 0, mode |-> 0, colour |-> 0,
             dirty |-> (mcu = "stm32f1" /\ app = "lightbar"), strip |-> [colour |-> 0, bright |-> 0]]

-----------------------------------------------------------------------------
(* What main does between two polls *)

\* The searchlight's /INT follows its temperature.
FollowTemperature ==
  IF app = "searchlight" /\ Overtemp # dev.asserted
    THEN [dev EXCEPT !.asserted = Overtemp, !.int = IntDriven(@, Overtemp)]
    ELSE dev

\* board_tick of the light bar sends the strip, with interrupts disabled.
StripSent == [dev EXCEPT !.strip = [colour |-> dev.colour, bright |-> dev.bright]]

\* The lamp heats up and cools down.
Heat == \E raw \in Samples \ {dev.raw} : dev' = [dev EXCEPT !.raw = raw]

=============================================================================
