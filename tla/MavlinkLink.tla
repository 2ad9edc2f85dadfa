---------------------------- MODULE MavlinkLink ----------------------------
(***************************************************************************)
(* The Pi's link to the drone (mavlinklink.cpp): how a transport is found, *)
(* opened, given up and not found again.  The parser skips over frames and *)
(* calls no handler, and the six slots for the pages' commands are empty,  *)
(* so nothing that arrives and nothing the operator asks for changes the   *)
(* state kept here.                                                        *)
(*                                                                         *)
(* QSerialPort::open() emits errorOccurred when it fails, so a failed      *)
(* attempt also runs onSerialError.                                        *)
(***************************************************************************)
EXTENDS Integers

CONSTANTS
  MaxChanges,   \* bound: comings and goings of the radio and of the UDP port
  MaxRx         \* bound: chunks of bytes in m_rxBuf that are told apart

ASSUME MavAssumption == MaxChanges \in Nat /\ MaxRx \in Nat

VARIABLES
  radio,      \* the telemetry radio is there as /dev/ttyUSB0
  udpFree,    \* UDP port 14550 may be bound
  serialOpen, \* m_serial.isOpen()
  udpBound,   \* m_udp is bound
  transport,  \* m_transport
  mavUp,      \* m_connected
  detecting,  \* m_autoDetectTimer runs
  rxBuf,      \* size of m_rxBuf
  mavLink,    \* GCSState::mavlinkConnected
  changes     \* comings and goings still to come

mavVars == <<radio, udpFree, serialOpen, udpBound, transport, mavUp, detecting,
             rxBuf, mavLink, changes>>

MavTypeOK ==
  /\ radio \in BOOLEAN /\ udpFree \in BOOLEAN
  /\ serialOpen \in BOOLEAN /\ udpBound \in BOOLEAN
  /\ transport \in {"None", "Serial", "Udp"}
  /\ mavUp \in BOOLEAN /\ detecting \in BOOLEAN
  /\ rxBuf \in 0..MaxRx /\ mavLink \in BOOLEAN /\ changes \in 0..MaxChanges

-----------------------------------------------------------------------------
\* start(): try the serial port, then start both timers, the one for
\* detection too if the port is open.
MavInit ==
  /\ radio \in BOOLEAN /\ udpFree \in BOOLEAN
  /\ serialOpen = radio /\ mavUp = radio
  /\ transport = IF radio THEN "Serial" ELSE "None"
  /\ detecting = TRUE /\ udpBound = FALSE
  /\ rxBuf = 0 /\ mavLink = FALSE /\ changes = MaxChanges

\* Operators named ...Fault are faulty variants of the definition that follows
\* them.  Nothing uses them but the mutation runs.

\* trySerialPort succeeds.
OpenSerial ==
  /\ serialOpen' = TRUE /\ transport' = "Serial" /\ mavUp' = TRUE /\ detecting' = FALSE
  /\ UNCHANGED <<udpBound, mavLink>>

\* trySerialPort fails and tryUdpPort succeeds.
BindUdp ==
  /\ udpBound' = TRUE /\ transport' = "Udp" /\ mavUp' = TRUE /\ detecting' = FALSE
  /\ mavLink' = FALSE /\ UNCHANGED serialOpen

\* retryAutoDetect: only while no transport has ever been found.
RetryAutoDetectFault ==
  /\ detecting /\ ~mavUp /\ transport = "None"
  /\ IF radio THEN OpenSerial
     ELSE mavLink' = FALSE /\ UNCHANGED <<serialOpen, udpBound, transport, mavUp, detecting>>
  /\ UNCHANGED <<radio, udpFree, rxBuf, changes>>

RetryAutoDetect ==
  /\ detecting /\ ~mavUp /\ transport = "None"
  /\ IF radio THEN OpenSerial
     ELSE IF udpFree THEN BindUdp
     ELSE mavLink' = FALSE /\ UNCHANGED <<serialOpen, udpBound, transport, mavUp, detecting>>
  /\ UNCHANGED <<radio, udpFree, rxBuf, changes>>

\* onSerialError: the radio is gone.
MavSerialError ==
  /\ serialOpen /\ ~radio
  /\ serialOpen' = FALSE /\ mavUp' = FALSE /\ mavLink' = FALSE
  /\ UNCHANGED <<radio, udpFree, udpBound, transport, detecting, rxBuf, changes>>

\* heartbeatTimeout: the timer repeats and nothing ever restarts it, so it
\* expires however much arrives.
HeartbeatTimeout ==
  /\ mavUp
  /\ mavUp' = FALSE /\ mavLink' = FALSE
  /\ UNCHANGED <<radio, udpFree, serialOpen, udpBound, transport, detecting, rxBuf, changes>>

\* onSerialReadyRead and onUdpReadyRead: bytes are appended, parseData walks
\* over them, and nothing takes them out.
ReadyRead ==
  /\ (serialOpen /\ radio) \/ udpBound
  /\ rxBuf < MaxRx /\ rxBuf' = rxBuf + 1
  /\ UNCHANGED <<radio, udpFree, serialOpen, udpBound, transport, mavUp, detecting,
                 mavLink, changes>>

\* The radio is plugged or unplugged; another program takes or leaves the port.
Change ==
  /\ changes > 0 /\ changes' = changes - 1
  /\ \/ radio' = ~radio /\ UNCHANGED udpFree
     \/ ~udpBound /\ udpFree' = ~udpFree /\ UNCHANGED radio
  /\ UNCHANGED <<serialOpen, udpBound, transport, mavUp, detecting, rxBuf, mavLink>>

MavStep == RetryAutoDetect \/ MavSerialError \/ HeartbeatTimeout
MavNext == MavStep \/ ReadyRead \/ Change

-----------------------------------------------------------------------------
\* As long as either transport can be had from some time on, one is found.
TransportFound == <>[](radio \/ udpFree) => <>(transport # "None")

=============================================================================
