-------------------------------- MODULE Parts --------------------------------
(* The smaller parts.  A behaviour is about one of them: of the Pico the   *)
(* buttons, the I2C bus or the display driver, of the Pi the layout of the *)
(* case page, or the link to the drone while the layout is saved and       *)
(* loaded and nothing else happens to its file.                            *)
EXTENDS ButtonLeds, I2cBus, Tft, MavlinkLink, CaseTwin

VARIABLE part

vars == <<part, btnVars, i2cVars, tftVars, mavVars, twinVars>>

Init == /\ part \in {"buttons", "i2c", "tft", "mav", "twin"}
        /\ BtnInit /\ (part = "buttons" \/ plan = <<>>)
        /\ I2cInit /\ (part = "i2c" \/ inputs = {})
        /\ TftInit
        /\ MavInit /\ (part = "mav" \/ (~radio /\ ~udpFree))
        /\ TwinInit /\ (part = "twin" \/ edits = 0)

OfButtons == part = "buttons" /\ UNCHANGED <<part, i2cVars, tftVars, mavVars, twinVars>>
OfMav     == part = "mav" /\ UNCHANGED <<part, btnVars, i2cVars, tftVars, twinVars>>

Next == \/ OfButtons /\ BtnNext
        \/ OfMav /\ MavNext
        \/ /\ part = "i2c" /\ I2cNext
           /\ UNCHANGED <<part, btnVars, tftVars, mavVars, twinVars>>
        \/ /\ part = "tft" /\ TftNext
           /\ UNCHANGED <<part, btnVars, i2cVars, mavVars, twinVars>>
        \/ /\ part \in {"mav", "twin"} /\ TwinNext
           /\ UNCHANGED <<part, btnVars, i2cVars, tftVars, mavVars>>

\* ws2811_task, the DMA channel and the call in progress run; Qt's timers fire
\* and its error signals are delivered.
Spec == /\ Init /\ [][Next]_vars
        /\ WF_vars(OfButtons /\ WriteField) /\ WF_vars(OfButtons /\ BtnTask)
        /\ WF_vars(OfButtons /\ BtnWord) /\ WF_vars(OfMav /\ MavStep)

\* Every variable keeps its type.
TypeOK == BtnTypeOK /\ I2cTypeOK /\ TftTypeOK /\ MavTypeOK /\ TwinTypeOK

\* ButtonsAnimate and TransportFound, in the behaviours that are about them.
ButtonsSettle == part = "buttons" => ButtonsAnimate
LinkFound     == part = "mav" => TransportFound

=============================================================================
