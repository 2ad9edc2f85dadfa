------------------------------- MODULE I2cBus -------------------------------
(***************************************************************************)
(* The port expander and the light sensor, which digital_io_task and       *)
(* veml7700_task reach over one I2C bus without a lock between them.  Two  *)
(* transactions that overlap spoil each other: the SDK sets the target     *)
(* address of the controller anew for each, so that a read returns         *)
(* anything and a write may be lost.  One port stands for both; it is the  *)
(* set of its high bits.  The light sensor gives counts, which the task    *)
(* converts for the Pi.                                                    *)
(***************************************************************************)
EXTENDS Integers, Sequences, FiniteSets

CONSTANTS
  Inputs,      \* bits of port A that are inputs, port B among them
  Leds,        \* bits 0 to 2, the indicator LEDs
  Requests,    \* masks and states of LED frames, [mask, state]
  QueueDepth,  \* LED_REQ_QUEUE_DEPTH, 8 in the firmware
  Lights,      \* counts of the light sensor, and what a spoilt read of it gives
  Pause,       \* samples of the ports between two of the light sensor, 25
  MaxEvents   \* bound: LED frames and changes of the inputs

ASSUME RequestsAssumption == Requests \subseteq [mask: SUBSET Leds, state: SUBSET Leds]

ASSUME I2cBusAssumption ==
  /\ QueueDepth \in Nat \ {0} /\ Pause \in Nat /\ Pause >= 2 /\ MaxEvents \in Nat
  /\ Inputs \cap Leds = {}
  /\ Lights \subseteq Nat /\ \A count \in Lights : count <= 65535

VARIABLES
  inputs,    \* the inputs that are high
  latch,     \* OLATA of the expander
  shadow,    \* s_porta_shadow
  requests,  \* s_led_req_queue
  dio,       \* digital_io_task: what it does next
  als,       \* veml7700_task: what it does next
  spoiled,   \* the tasks whose transaction has been disturbed
  prev,      \* s_prev_raw_a, s_prev_raw_b
  stable,    \* s_stable_a, s_stable_b
  light,     \* what the light sensor measures
  als_raw,   \* pkt.als_raw of the packet in the making
  lux,       \* lux_milli of g_latest_als, the last packet sent, in units of 256
  pause,     \* samples until the light sensor is read again
  budget,    \* how much may still happen
  real       \* history: what the ports really were at the last two samples

i2cVars == <<inputs, latch, shadow, requests, dio, als, spoiled, prev, stable, pause,
             budget, real, light, als_raw, lux>>

lightVars == <<light, als_raw, lux>>

Bits == Inputs \cup Leds

\* A task that is between the start and the end of a transaction.
Busy(at) == at \in {"writing", "reading", "als", "white"}

I2cTypeOK ==
  /\ inputs \subseteq Inputs /\ latch \subseteq Leds /\ shadow \subseteq Leds
  /\ requests \in Seq(Requests) /\ Len(requests) <= QueueDepth
  /\ dio \in {"drain", "write", "writing", "read", "reading", "sleep"}
  /\ als \in {"sleep", "als", "between", "white"}
  /\ spoiled \subseteq {"dio", "als"}
  /\ prev \subseteq Bits /\ stable \subseteq Bits
  /\ pause \in 0..Pause /\ budget \in 0..MaxEvents
  /\ light \in Lights /\ als_raw \in Lights \cup {0} /\ lux \in 0..(2^24 - 1)
  /\ real.before \subseteq Bits /\ real.last \subseteq Bits

I2cInit ==
  /\ inputs \in SUBSET Inputs /\ latch = {} /\ shadow = {} /\ requests = <<>>
  /\ dio = "drain" /\ als = "sleep" /\ spoiled = {}
  /\ prev = Bits /\ stable = Bits /\ pause = 0 /\ budget = MaxEvents
  /\ real = [before |-> Bits, last |-> Bits]
  /\ light \in Lights /\ als_raw = 0 /\ lux = 0

-----------------------------------------------------------------------------
\* The port after a request; one LED is a mask of one bit.
Applied(port, r) == (port \ r.mask) \cup (r.state \cap r.mask)

\* The operator turns something.
TurnInput(now) ==
  /\ budget > 0 /\ budget' = budget - 1
  /\ now # inputs /\ inputs' = now
  /\ UNCHANGED <<latch, shadow, requests, dio, als, spoiled, prev, stable, pause, real, lightVars>>

\* cdc_task hands an LED frame over; a full queue drops it.
SetLedsAsync(r) ==
  /\ budget > 0 /\ budget' = budget - 1
  /\ IF Len(requests) < QueueDepth
       THEN requests' = Append(requests, r) ELSE UNCHANGED requests
  /\ UNCHANGED <<inputs, latch, shadow, dio, als, spoiled, prev, stable, pause, real, lightVars>>

\* A transaction starts: it disturbs the other task's, and is disturbed by it.
Begins(task, other) == spoiled' = IF other THEN {"dio", "als"} ELSE spoiled \ {task}

\* digital_io_task takes a request and updates the shadow,
\* or goes on to the ports when there is none.
DioDrain ==
  /\ dio = "drain"
  /\ IF requests # <<>>
       THEN /\ dio' = "write" /\ requests' = Tail(requests)
            /\ shadow' = Applied(shadow, Head(requests))
       ELSE dio' = "read" /\ UNCHANGED <<requests, shadow>>
  /\ UNCHANGED <<inputs, latch, als, spoiled, prev, stable, pause, budget, real, lightVars>>

\* It starts to write the shadow, or to read the ports.
DioBegin ==
  /\ dio \in {"write", "read"}
  /\ dio' = IF dio = "write" THEN "writing" ELSE "reading"
  /\ Begins("dio", Busy(als))
  /\ UNCHANGED <<inputs, latch, shadow, requests, als, prev, stable, pause, budget, real, lightVars>>

DioWritten ==
  /\ dio = "writing" /\ dio' = "drain"
  /\ \/ latch' = shadow
     \/ "dio" \in spoiled /\ UNCHANGED latch
  /\ spoiled' = spoiled \ {"dio"}
  /\ UNCHANGED <<inputs, shadow, requests, als, prev, stable, pause, budget, real, lightVars>>

\* A bug: the newest sample is taken over.
DebouncedFault(raw) == raw

\* A sample is taken over when it agrees with the one before.
Debounced(raw) == IF raw = prev THEN raw ELSE stable

\* The samples are there: debounce and publish.
DioRead ==
  /\ dio = "reading" /\ dio' = "sleep"
  /\ \E raw \in IF "dio" \in spoiled THEN SUBSET Bits ELSE {inputs \cup latch} :
       stable' = Debounced(raw) /\ prev' = raw
  /\ spoiled' = spoiled \ {"dio"}
  /\ pause' = IF pause > 0 THEN pause - 1 ELSE 0
  /\ real' = [before |-> real.last, last |-> inputs \cup latch]
  /\ UNCHANGED <<inputs, latch, shadow, requests, als, budget, lightVars>>

\* The next period: 20 ms are longer than both reads of the light sensor.
DioWake ==
  /\ dio = "sleep" /\ als = "sleep" /\ dio' = "drain"
  /\ UNCHANGED <<inputs, latch, shadow, requests, als, spoiled, prev, stable, pause,
                 budget, real, lightVars>>

-----------------------------------------------------------------------------
\* veml7700_task starts a read of the light, and of the white channel after it.
AlsBegin ==
  /\ \/ als = "sleep" /\ pause = 0 /\ als' = "als"
     \/ als = "between" /\ als' = "white"
  /\ Begins("als", Busy(dio))
  /\ UNCHANGED <<inputs, latch, shadow, requests, dio, prev, stable, pause, budget,
                 real, lightVars>>

\* The conversion, in 32 bits: VEML7700_RESOLUTION_MILLILUX_PER_COUNT is 225 * 256.
LuxMilli(count) == (count * 225) % (2^24)

\* A read ends; a spoilt one gives anything.  After the second one the packet
\* is published and sent, and the task sleeps for 500 ms.
AlsEnd ==
  /\ \/ /\ als = "als" /\ als' = "between"
        /\ \E count \in IF "als" \in spoiled THEN Lights ELSE {light} : als_raw' = count
        /\ UNCHANGED <<lux, pause>>
     \/ /\ als = "white" /\ als' = "sleep" /\ pause' = Pause
        /\ lux' = LuxMilli(als_raw) /\ UNCHANGED als_raw
  /\ spoiled' = spoiled \ {"als"}
  /\ UNCHANGED <<inputs, latch, shadow, requests, dio, prev, stable, budget, real, light>>

I2cNext ==
  \/ \E now \in SUBSET Inputs : TurnInput(now)
  \/ \E r \in Requests : SetLedsAsync(r)
  \/ DioDrain \/ DioBegin \/ DioWritten \/ DioRead \/ DioWake
  \/ AlsBegin \/ AlsEnd

-----------------------------------------------------------------------------
\* What digital_io_task takes for the ports they really were at one of the last
\* two samples, although every other sample may be spoiled by veml7700_task:
\* debouncing hides the missing lock.
StableWasReal == [][stable' # stable => stable' \in {real'.before, real'.last}]_i2cVars

\* "Configures gain=1/8, integration time=100 ms (range up to ~120 klux)"
\* (veml7700.h): no packet says more than 120 klux, which is 468750 units of
\* 256 millilux.
LuxInRange == lux <= 468750

=============================================================================
