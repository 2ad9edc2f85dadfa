-------------------------- MODULE PeripheralHealth --------------------------
(***************************************************************************)
(* What the PING sweep of rs485_task promises: a peripheral is online iff  *)
(* it answered the last PING it was judged by.                             *)
(***************************************************************************)
CONSTANT Addrs      \* s_known_addrs

VARIABLES
  present,    \* the peripherals on the bus
  answered,   \* those whose PONG is on its way to the master
  online      \* s_online

vars == <<present, answered, online>>

Init == present \in SUBSET Addrs /\ answered = {} /\ online = {}

Plug(a)   == present' = present \cup {a} /\ UNCHANGED <<answered, online>>
Unplug(a) == present' = present \ {a} /\ UNCHANGED <<answered, online>>

Answer(a) ==
  /\ a \in present
  /\ answered' = answered \cup {a}
  /\ UNCHANGED <<present, online>>

\* Everything on its way is taken as the answer to this PING, or lost.
Judge(a) ==
  /\ online' = IF a \in answered THEN online \cup {a} ELSE online \ {a}
  /\ answered' = {}
  /\ UNCHANGED present

\* A PONG the Pi asked for is forwarded, not judged.
Forward == answered' = {} /\ UNCHANGED <<present, online>>

Next == Forward \/ \E a \in Addrs : Plug(a) \/ Unplug(a) \/ Answer(a) \/ Judge(a)

Spec == Init /\ [][Next]_vars
=============================================================================
