----------------------------- MODULE ByteNodes ------------------------------
(* The byte protocols, one of them per behaviour: the frames on USB with    *)
(* either receiver, a peripheral on the RS-485 bus, the emulator on it.     *)
EXTENDS CdcFraming, Slave, Emulator

VARIABLE part

vars == <<part, framingVars, slaveVars, emuVars>>

Init == /\ part \in {"usb", "rs485", "emulator"}
        /\ FramingInit /\ (part = "usb" \/ <<side, frame>> = CHOOSE x \in Sides \X Frames : TRUE)
        /\ SlaveInit /\ (part = "rs485" \/ <<app, mcu>> = CHOOSE b \in Builds : TRUE)
        /\ EmuInit

Next == /\ UNCHANGED part
        /\ \/ part = "usb" /\ FramingNext /\ UNCHANGED <<slaveVars, emuVars>>
           \/ part = "rs485" /\ SlaveNext /\ UNCHANGED <<framingVars, emuVars>>
           \/ part = "emulator" /\ EmuNext /\ UNCHANGED <<framingVars, slaveVars>>

Spec == Init /\ [][Next]_vars

\* Every variable keeps its type.
TypeOK == FramingTypeOK /\ SlaveTypeOK /\ EmuTypeOK

=============================================================================
