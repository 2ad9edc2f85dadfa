# KL-UAS-System: TLA+ models, model checking and proofs

The repository holds a ground-control flight case. A Pico (RP2350, two cores,
FreeRTOS SMP) reads switches, key and sensors and drives LEDs and a screen. It
talks to a Raspberry Pi over USB CDC and is the master of an RS-485 bus of
peripherals. The Pi runs a Qt application that shows the state of the case and
speaks MAVLink to the aircraft.

This directory holds specifications of the parts whose correctness depends on
order, timing, sharing or boundary values, the configurations that model-check
them with TLC, and theorems about them checked by TLAPS.

## 1. The system

| Component | Source | State | Operations | Interacts through |
|---|---|---|---|---|
| Session | `GCS/src/usb_cdc.c`, `digital_io.c`, `system_state.c`, `main.c` | `g_sys_state`, heartbeat ticks, debounced ports | `cdc_task` and `digital_io_task` loops, MODE frames, watchdog reset | `g_sys_state` without a lock, `g_tx_queue` |
| Framing | `GCS/src/protocol.c`, `picolink.cpp` | receive state machine, `m_rxBuf` | `proto_handle_rx`, `onReadyRead` | USB CDC bytes |
| RS-485 master | `GCS/src/rs485.c` | `s_online`, `s_cmd_queue`, UART FIFO | `rs485_task` loop, `rs485_forward_cmd` | the bus, `/INT`, `g_tx_queue`, the screen |
| RS-485 slave | `Peripherals/Framework` | receive state, stream interval, UART, transmit enable | `feed_byte`, `dispatch`, `stream_tick`, the HAL | the bus |
| Applications | `Searchlight`, `PanTilt`, `LightBar` | outputs, targets, temperature | command handlers, main loops, boards | slave framework, `/INT` |
| Bench emulator | `Testcode/MODBUSTester` | virtual peripherals, receive state | main loop, console, web handler | the bus, an interrupt |
| SK6812 chain | `GCS/src/led_sk6812.c`, `protocol.c` | pixel buffer, pixel count, severities, worklight, DMA channel | LED, WARNING and WORKLIGHT frames, redraw, transfer, interrupt | shared memory, task notification, semaphore |
| WS2811 buttons | `GCS/src/led_ws2811.c` | colour, animation, phase | LED frames, animation, transfer | shared memory, task notification |
| Screen | `GCS/src/screen_display.c` | mode, detail cache, what was drawn | SCREEN and PERIPH_SCREEN frames, responses, redraw | task notification, shared memory |
| Display driver | `GCS/src/screen_st7735.c` | RAM of the controller, backlight | drawing calls, brightness | SPI, PWM |
| Port expander, light sensor | `GCS/src/digital_io.c`, `veml7700.c` | port shadow, LED requests, samples | two periodic tasks | one I2C bus without a lock |
| Pi link | `picolink.cpp`, `gcsstate.cpp` | connection, switches, registry, flight modes, last TFT mode | packets, timers, switch logic, the pages | serial port, Qt signals |
| Case page | `gcsstate.cpp` | list of hotspots, its file | load, save, reset | file system |
| MAVLink | `mavlinklink.cpp` | transport, connection | detection, loss | serial port, UDP |

Hard behaviours: two cores write `g_sys_state`, the detail cache, the pixel
buffers and the buttons with no lock; queues drop the new item when full; a
timeout races the heartbeat it waits for; the bus is half duplex and a
peripheral may stream on its own; a parser may take the middle of a frame for
its beginning; the DMA channel reads a buffer that two tasks write; the
watchdog, the cable and the power may go between any two steps while the
others go on. `PROJECT.json` lists the hazards line by line with the properties
that cover them. Three more hang on the operating system and are not in that list:
the watchdog is fed by a task of its own (`main.c` 30), `usb_cdc.c` 62 reports
connection through a queue that may be full, and a response too long for a packet is
not forwarded (`rs485.c` 155).

What makes each part correct:

- session: the state tells the truth about the Pi (fresh heartbeat) and about the
  key; the Pi ends up with the true switches; the link recovers;
- bus: each answer is attributed to the peripheral asked; the registry becomes
  and stays true; one peripheral cannot stand for another;
- slave, applications, emulator: a whole frame is carried out once and answered by
  the one asked, one with a byte of its address, command, payload or CRC damaged never; what is reported is what the hardware does, but for reports that only say what was asked for (section 5);
- framing: a parser finds the next frame after garbage;
- SK6812, buttons: transfers are whole and end up showing what was last commanded;
- screen: the picture ends up being the one asked for, drawn from current data;
- driver: a call paints its figure, clipped to the panel, and nothing else;
- I2C: what is taken for a switch was a switch, though the bus is shared;
- Pi link: the panel shows what the Pi believes, the flight mode asked for is the one
  the switches call for, and the link is found again;
- case page, MAVLink: what loads is a layout that was saved or put there, whole, though it may be lost; a transport is found
  when there is one.

## 2. Modules

| Module | Models | Uses |
|---|---|---|
| `GcsSession` | the session: `cdc_task`, `digital_io_task`, TX queue, what the Pi learns | |
| `Rs485Bus` | `rs485_task`, the bus, the peripherals, frame by frame | instantiates `PeripheralHealth` |
| `PeripheralHealth` | abstract: a peripheral is online iff it answered the PING it was last judged by | |
| `LedSk6812` | the handlers of LED, WARNING and WORKLIGHT frames, `sk6812_task`, DMA channel, LEDs | |
| `PicoLink` | the Pi's handlers, timers and pages, the panel and the cable | |
| `MavlinkLink`, `CaseTwin` | transport detection; the layout of the case page and its file | |
| `Screen` | `screen_task` and the two tasks that write what it shows | |
| `ButtonLeds`, `I2cBus`, `Tft` | button LEDs; the shared I2C bus; the display driver | |
| `CdcFraming` | frames on USB, byte by byte, with either receiver | |
| `Rs485Frame` | frame format and CRC-8 of the RS-485 bus | |
| `Peripheral`, `Slave` | the three applications and their boards; the framework and HAL under them, byte by byte | `Rs485Frame`; `Peripheral` |
| `Emulator` | the bench emulator, byte by byte | `Rs485Frame` |
| `GcsSessionProofs`, `Rs485BusProofs`, `LedSk6812Proofs`, `PicoLinkProofs`, `ScreenProofs`, `CdcFramingProofs` | theorems | the module they are named for |
| `Parts` | one part per behaviour, the link and the layout also side by side | `ButtonLeds`, `I2cBus`, `Tft`, `MavlinkLink`, `CaseTwin` |
| `ByteNodes` | one of three byte protocols per behaviour | `CdcFraming`, `Slave`, `Emulator` |
| `Rs485NodeProofs`, `PartsProofs` | theorems | `ByteNodes`, `CdcFramingProofs`; `Parts` |
| `MCPicoLink`, `MCScreen`, `MCParts`, `MCBytes` | values of the constants | the module they are named for |

`GcsSession`, `Rs485Bus` and `LedSk6812` are checked directly, the others through
their MC module. No configuration uses symmetry or a state constraint; all
bounds are constants that appear in guards. Several constants choose what varies
in a behaviour (`Groups`, `Plans`, `Builds`, `Sides`): each combination is a set of
behaviours of its own, and a run has them all. Operators named `...Fault` are faulty
variants of the definition that follows them, kept so that each property can be shown to
fail for a plausible mistake; no specification uses them.

### GcsSession

A task's loop body is cut where it reads or writes shared state; `cdc` and `dio` say
where each task is.

| Action | Code |
|---|---|
| `CdcStart` | `usb_cdc.c` 44-54 |
| `CdcPoll` | 56-74, the edges of `tud_cdc_connected()` |
| `CdcDrain` | 74-79, with `PiLearns` for what `picolink.cpp` 250-325 makes of the packets |
| `CdcRx` | 81-87 with the HEARTBEAT and MODE cases of `proto_handle_rx` |
| `CdcBeat` | 89-103 |
| `CdcRead`, `CdcCheck` | 105-126: the state is copied, then the decision is taken on the copy |
| `DioSample` ... `DioPublish` | `digital_io.c` 139-210: sample and debounce, SWITCH event, key, one button event each, DIGITAL packet |
| `OtherSend` | the sensor tasks and `rs485_task` as producers of the same queue |
| `Tick`, `WatchdogReset` | a FreeRTOS tick; the watchdog of `main.c` |

Abstractions. One `Tick` is one FreeRTOS tick, with the heartbeat intervals scaled
from 1000, 1200 and 3000 ms to 2, 3 and 4 in the same order. A tick does not come inside
a loop body, which takes far less; `digital_io_task` runs at most once per tick (it
runs every twenty). Several heartbeats in one read are echoed as one.
Tick wrap-around (49 days) is left out. The CDC FIFO (256 bytes) is taken never to be
full, and frames are whole: `CdcFraming` has the bytes. Port A stands for its key bit: its LED bits
are in `I2cBus`. Whether the cable is plugged in, the contacts' readings, and what the Pi
sends are arbitrary. `piPort`, `heard`, `lost` and `forced` are history variables.

### Rs485Bus

| Action | Code |
|---|---|
| `PiCommand` | `rs485_forward_cmd`, `rs485.c` 185-192 |
| `CmdStep` | 218-232: a command is sent, or the queue is empty |
| `IntCheck`, `IntStep` | 234-248: `/INT` low polls every online peripheral |
| `PingCheck`, `PingStep` | 251-259: the sweep, once a second |
| `ForwardAnswer`, `Judge` | 222-246 and 258-264: `rs485_recv` has returned |
| `Gap`, `Wake` | 246-248 and 270: the 5 ms gap and the sleep |
| `SlaveAnswer`, `StreamTick`, `Plug` | `rs485_slave.c` 61-109, 170-190, 196-206 |
| `Unplug`, `Noise` | a peripheral goes, or the pair turns noisy or quiet |

Abstractions. A frame is sent or lost whole; a garbled one is received as bad, and
bytes that a garbled length would leave behind are not modelled. A peripheral
answers before the 50 ms timeout unless it goes or noise interferes, because the slave
dispatches at once. A request sent while an answer or a stream is on the bus may
collide. A frame that does not fit the 32-byte FIFO is lost whole. The level of
`/INT` is arbitrary. Commands too long or too short never enter the queue
(`protocol.c` 274, `rs485.c` 187). What the packets to the Pi do is in `PicoLink`, what the
responses do on the screen in `Screen`.

### LedSk6812

| Action | Code |
|---|---|
| `Receive` | a frame has been parsed: `protocol.c` 134-147, 262-297 |
| `WritePixel`, `WriteIcon`, `WriteLamp` | `led_sk6812.c` 185-208, 164-167, 174-179, one write each |
| `Finish` | the update of `s_num_pixels` (168-172, 180-183, 203-212) and the notification |
| `Wake` ... `Start` | `sk6812_task`: 225, `warn_update_pixels`, `worklight_update_pixels`, 230-231, 233-235 |
| `Word`, `Interrupt`, `Reset` | the channel reads the next word, the interrupt, the line is low for 80 us |

Abstractions. Pixels are counted from the first of the panel, the icon MAIN has one
pixel instead of two, brightness and blinking are left out, the switch of the
worklight is written apart from its colour but the colour at once, and the word of
the worklight is computed in one step. The count is updated and the task notified in
one step, `Finish`: a WARNING frame, which updates it with every icon, never changes it. `Wake` without a notification waits until the chain has
settled: 50 ms against the 3.3 ms of the longest transfer. `MaxCommands` bounds
what the Pi sends.

### PicoLink

Everything on the Pi runs in one Qt event loop: a slot is one action. The cable, the packets and frames
under way, the panel and the timers interleave with it.

| Action | Code |
|---|---|
| `OnSerialError`, `RetryConnect`, `SendHeartbeat` | `picolink.cpp` 84-93, 63-99, 101-117 |
| `HandleDigital`, `HandleSwitch`, `HandleKey` | 250-273 and 294-324, with `updateDigital` of `gcsstate.cpp` 94-126 and the switch logic 486-546 |
| `HandleButton` | 548-574 |
| `HandleHeartbeat` | 275-283, with the TFT mode of 451-464 |
| `HandleAdc`, `HandlePeriphState`, `HandlePeriphData` | 229-248, `gcsstate.cpp` 174-198, 327-356 |
| `TapOverview`, `TapDetail`, `TapWorklight`, `SlideScreenL`, `TapPeriphCmd`, `AnswerPrompt` | what the pages call: 422-449, 466-484, 613-622, `Main.qml` 72-90 |
| `Operate`, `PeriodicState`, `PeriodicBeat`, `Measure`, `PicoReceive` | the Pico as the Pi sees it |
| `Unplug`, `Plug` | the cable, or a reset of the Pico |

Abstractions. Ports are sets of inputs that are on. A frame names the item it sets and
what it sets it to. Everything a Pico says in one debouncing period is under way at once,
with or without the events (a full TX queue costs those). The drone's messages are not parsed in this
version, so its flight mode is "UNKNOWN" for good. `unsure` and `skipped` are history
variables: they mark the items whose last frame was lost with the cable, and switch
changes the code passes over on purpose (key locked, first packet), and the
properties excuse exactly those.

### MavlinkLink and CaseTwin

`MavlinkLink`: `RetryAutoDetect`, `MavSerialError`, `HeartbeatTimeout`, `ReadyRead`
are the slots of `mavlinklink.cpp` 42-127; `Change` lets the radio and the port come and go.
`CaseTwin`: `Load`, `SaveOpen`, `SaveWrite`, `Reset` are
`gcsstate.cpp` 361-494; a save is two steps because the file is truncated first, and the second
may fail without being noticed, as what `file.write` returns (482) is not looked at. `file` is what a program that opens
it finds, `disk` what a power failure may leave: the code syncs nothing, so until `Flush` (the operating system) every
state since the last one. Assumed of the file system: it has the file of before or the one of now, and one
cut short does not parse. `given` remembers the layouts that were saved or put there.
`Edit`, `Flush` and `PowerFails` come from outside. One optional number stands for the
five, which take the same path.

### Screen

`Tick` is the decision of `screen_task` (`screen_display.c` 634-698), followed by a step for each group
of variables a picture is drawn from (`DrawAdc`, `DrawPorts`, `DrawPi`; `DrawName`, `DrawBody`, `DrawFoot`).
`AskMode`, `AskDetail`, `SetDetail` are `cdc_task` on SCREEN and PERIPH_SCREEN frames (`protocol.c` 213-226,
285-299; `screen_display.c` 590-595), and `Respond`, `UpdateData` are `rs485_task` with a response
(597-606): a call that writes the cache takes a step per variable. A picture is a record of what it tells; layout and colours are left out.
`suspect` is a history variable: the main picture was not drawn from what the
task compares with later.

### ButtonLeds, I2cBus, Tft

- `ButtonLeds`: `SetButton` and `WriteField` are `led_ws2811_set_button` (89-99), one field at a time;
  `BtnWake`, `ReadField`, `StorePixel`, `BtnStart` are `ws2811_task` and `compute_pixel`, one read at a time; `BtnWord`
  is the DMA channel. The phase may be kept in a register between its read and its increment. Phases, periods and
  colours have their real values.
- `I2cBus`: `DioDrain` ... `DioWake` are the bus transactions of `digital_io_task` (121-209), `AlsBegin` and `AlsEnd` those of
  `veml7700_task`. Two transactions that overlap spoil each other: a read returns
  anything, a write may be lost. `LuxMilli` converts a count for the Pi, in units of 256 millilux, in which 32 bits have 24. One port stands for both. A transaction of either task is shorter than 20 ms.
- `Tft`: each drawing call becomes the address windows the code computes (`FillRect`, `FillRRect`, `DrawRRect`,
  `DrawString`, `DrawBitmap`), and `FillWindow` lets the controller fill one, wrapping round inside it. `InitStep` and
  `SetBacklight` are the initialisation and the backlight, which two tasks set.

### CdcFraming

A sender (`proto_serialize`, `buildFrame`), a channel that may lose the end of a frame, and a
receiver: `PicoTakes` (`protocol.c` 170-212) or `PiTakes` (`picolink.cpp`
169-199). Both are deterministic in the stream, so how it is cut into reads makes no difference. Bytes
have four values, which keeps a frame that a garbled length announces within reach.
`since` counts the bytes sent since the last loss. The exclusive or of two bytes is the constant `ExOr`, of which the
proofs need only that it gives a byte; the run gives it the operator of `Bitwise`. `FramesAssumption` says of the program what
keeps its frames from being dropped as too long: the Pi's buffer has 520 bytes (`picolink.cpp` 416), room for a payload of 515
where the Pico takes 514 (`PROTO_MAX_PAYLOAD`), but nothing that long is sent.

### Rs485Frame, Peripheral, Slave, Emulator

`Rs485Frame` has the format and the CRC-8, computed bit by bit; the exclusive or of two bytes is the constant `XorByte`, of
which `XorAssumption` says what the proofs need. `Peripheral` has the handlers, boards and
`/INT` pin of the three applications for STM32F1 and RP2040. `Slave` runs one of them on the framework:

| Action | Code |
|---|---|
| `FeedByte` | `rs485_slave.c` 117-164, with `Dispatch` (61-109) |
| `Write`, `Shift`, `SendEnds` | `send_frame` and `hal_uart_write`: bytes into the transmitter, onto the bus, transmit enable off |
| `LoopEnds` | the stall timeout (216-220), `stream_tick` (170-190), and what `main` does after a poll |
| `StripEnds` | the light bar has sent its strip with interrupts disabled |
| `FrameBegins`, `ByteArrives`, `StrayByte` | the rest of the bus: bytes come whole, damaged, not at all, or of themselves |
| `Tick`, `Heats` | a millisecond; the lamp |

`Emulator` is `MODBUSTester.c`: `PollBegins`, `TakeRsByte`, `TxEnds` (`rs485_rx_poll`, `dispatch`, `rs485_tx`, 165-437),
`PeriodicTick`, `SendStream` (442-456), `CliPoll` (526-621), `AppHttp` (786-806, in an interrupt), with
`AskBegins`, `AskByte`, `EmuTick` for the bus and the clock.

Abstractions. Timing: the main loop of a peripheral comes round between two bytes (87 us) unless it
sends; that of the emulator within `MaxLag` ms unless it sends or writes to the console. Noise is bounded, and every byte it
may hit is tried. Only four bits make a byte, with a CRC of four bits.

## 3. Runs

| Run | Checks | Bounds |
|---|---|---|
| `gcs_session` | `TypeOK`, `ConnectedIsFresh`, `LockStateMatchesKey`, `ConnectNeedsHeartbeat` | one button, MODE commands CONNECTED, ACTIVE, ERROR, queue of 2, no packets but the session's own |
| `gcs_live` | `LiveIsRecent`, `TimeoutReportedTwiceAtMost`, `LinkRecovers`, `PiLearnsPorts` | no MODE, no buttons, queue of 4, one packet of another task per tick |
| `rs485_quiet` | `TypeOK`, `InStep`, `RegistryIsHealth`, `RegistryFollows` | two addresses, no streams, command queue of 1, FIFO of 2 frames |
| `rs485_stream` | `RegistrySettles` | as above, peripheral 1 may stream |
| `led_strip` | `TypeOK`, `PanelInEveryTransfer`, `TransfersComplete`, `WarningsShown`, `WorklightShown` | panel of 2 pixels, worklight of 1, two severities, two frames |
| `pi_link` | `TypeOK`, `PanelFollows`, `ModeMatchesSwitches`, `LinkReopens`, `TftSettles` | seven groups of things that vary together, two events, four packets and frames under way |
| `screen` | `TypeOK`, `DetailUpToDate`, `ModeSettles`, `MainSettles` | five groups, four changes, two peripherals, three battery readings around the redraw threshold |
| `parts` | `TypeOK`, `ButtonsSettle`, `BlinkHalves`, `StableWasReal`, `DrawsFigure`, `LinkFound`, `SavedListComesBack` | one button and every phase; two requests or switch changes, queue of 1, a light sample every second sample of the ports; panel of 7 by 6 with offset, every edge overlapped; three comings and goings of the radio and the port; two hotspots, two edits or power failures, any write may fail |
| `bytes` | `TypeOK`, `FramesArrive`, `FrameTaken`, `ReportsHardware`, `AnswersOnce` | bytes of two (USB) and four bits, payload up to 2, three losses, one damaged, lost or stray byte, four of six builds, stall of 2 ticks; emulator of two devices, silence of 3 ticks, lag of 1 |
| `gcs_watchdog`, `screen_detail`, `pico_lux` | one statement of a comment each, which the code does not keep (section 5) | the smallest that show it |

Why the bounds are enough.

- Session: the interesting cases need the queue to be
  full, both edges of the key and of a button, and a heartbeat at each side of each
  interval: three different interval values give every order of the comparisons the code
  makes. `gcs_live` needs a queue of at least four: that is what can be queued between two drains,
  and with three `DIGITAL` can be crowded out every time. The firmware's queue holds
  sixteen.
- Bus: two addresses are the fewest for which an answer can be attributed to the wrong one and
  for which one may be vacant; three have been run for `rs485_quiet` as well.
- SK6812: two frames of the Pi are the fewest that can undo one another, and two panel pixels the fewest of which
  an LED frame can cover a part.
- Pi link: handlers touch disjoint state unless they are in one group of `MCGroups`; two events, each changing up to two
  inputs, give RC and RTH in one packet and in two, and a reset between a change and its frame.
- Screen: four changes are enough for a value to go and come back while a picture is drawn, and
  for an address to change twice around one response.
- Buttons: the button is computed apart from the other one; the phase runs through its whole byte. I2C: a spoilt
  read on either side of a true one. Driver: for each call, each edge of the figure falls before, on and beyond
  each edge of the panel.
- Bytes: with `MaxPayload` 2 a receiver of the Pico takes up to 7 bytes for one frame, that of the Pi up to 20; three losses
  cut two frames anywhere and restart the receiver anywhere, in any order. A receiver on the bus can be in any of its six states when one byte is damaged,
  lost or invented, and the stall timeout expires in the middle of a later frame.

What they show. The races on `g_sys_state` do no lasting harm: although
`digital_io_task` can overwrite what `cdc_task` decided, CONNECTED never outlives the
heartbeat timeout, LOCKED and ACTIVE never contradict the debounced key, and a loss of the Pi is
reported twice at worst (once more because a turn of the key revived the
session). Lost and late packets do not leave the Pi with wrong switches. The master
stays in step on a bus without streams. After streams it recovers if
an address is vacant; with every known address occupied one stale frame shifts all
answers for good, which is why `RegistrySettles` excludes that case. The LEDs end up right in
spite of torn buffers, torn buttons and lost transfers because the picture is redrawn and sent again
within 50 ms. Debouncing hides the missing lock of the I2C bus, because two spoilt samples in a row
do not occur. The Pi's handlers leave no path that changes what the panel should
show without the frame for it. Both USB receivers recover without a timeout, from nothing but further
frames; the peripherals and the emulator from a pause.

### Fairness

- `GcsSession`: weak fairness of each task's next step and of the tick. FreeRTOS
  runs both tasks (two cores, priorities 3 and 2, no busy loop above them). Nothing obliges
  the Pi, the operator or the cable to do anything: where a property needs a
  steady heartbeat, it says so in its premise.
- `Rs485Bus`: weak fairness of `rs485_task`, of a peripheral that has an answer
  to send, and of the passing of a second. The liveness properties assume
  `Sweeping`: the command queue runs empty now and then.
- `LedSk6812`: weak fairness of `cdc_task`, of `sk6812_task` and of the hardware. The
  hardware's is one condition, so that nothing is assumed to give a reset between
  two transfers.
- `PicoLink`: weak fairness of the event loop, of the Pico carrying out frames, and of a Pico that is gone
  coming back; strong fairness of the two packets the Pico sends periodically, which
  take turns on the wire. None of the operator, nor of the cable being pulled.
- `Screen`: weak fairness of `screen_task` and of a call under way in either other task.
- `Parts`: weak fairness of a call under way, of `ws2811_task` and of the DMA channel, and of the timers and error
  signals of `MavlinkLink`.
- `ByteNodes` states safety only.

## 4. Proofs

All theorems hold for every value of the constants that satisfies the named
assumptions of the module (`DepthAssumption`, `HbAssumption`, `ModesAssumption`;
`SizeAssumption` and its companions; `LayoutAssumption`, `BoundAssumption`; `TwinAssumption`; `RoomAssumption`,
`DataAssumption`; `ScreenAssumption`; `RequestsAssumption`, `I2cBusAssumption`; `ButtonLedsAssumption`; `TftAssumption`; `MavAssumption`; `CdcFramingAssumption`, `FramesAssumption`;
`Rs485FrameAssumption`, `XorAssumption`, `PeripheralAssumption`, `SlaveAssumption`, `EmulatorAssumption`).
The code justifies them: depths and intervals are positive, what the program sends is a byte, the light sensor pauses for
at least two samples of the ports (500 ms against 20 ms), a count of light has 16 bits, a button is named by a byte,
the panel has at most 128 by 128 pixels and its offset in the RAM of the controller is at most 4, text is drawn in sizes 1 to 3 with glyphs of 5 by 7,
the polynomial of the CRC is odd (0x31), command bytes differ, a servo turns by an even number of degrees (180), a frame
is over before the stall timeout, and the emulator's loop comes round at least twice in the silence after which it gives a
frame up (5 ms).

| Theorem | Statement | Inductive invariant |
|---|---|---|
| `GcsSessionProofs!TypeCorrect` | `Spec => []TypeOK` | `TypeOK` |
| `LockStateFollowsKey` | `Spec => []LockStateMatchesKey` | itself: `KeyActedOn` follows `digital_io_task` through its body |
| `ConnectedStaysFresh` | `Spec => []ConnectedIsFresh` | `FreshInv` |
| `ConnectOnlyOnHeartbeat` | `Spec => ConnectNeedsHeartbeat` | `NoHeartbeatNoReconnect` |
| `Rs485BusProofs!TypeCorrect` | `Spec => []TypeOK` | `TypeOK` |
| `MasterInStep` | `Streamers = {}` implies `Spec => []InStep` | `QuietInv` |
| `RegistryImplementsHealth` | `Streamers = {}` implies `Spec => RegistryIsHealth` | `QuietInv`, step simulation |
| `LiveOutlivesTimeoutByATick` | `Modes = {}` implies `Spec => []LiveIsRecent` | `OutageInv` |
| `OutageReportedTwiceAtMost` | `Modes = {}` implies `Spec => []TimeoutReportedTwiceAtMost` | `LostInv` |
| `PicoLinkProofs!TypeCorrect` | `Spec => []TypeOK` | `TypeOK` |
| `ModeFollowsSwitches` | `Spec => []ModeMatchesSwitches` | itself, with `TypeOK` |
| `PanelFollowsState` | `Spec => []PanelFollows` | `PanelInv` |
| `ScreenProofs!TypeCorrect` | `Spec => []TypeOK` | `TypeOK` |
| `DetailsUpToDate` | `Spec => []DetailUpToDate` | `DetailInv` |
| `PartsProofs!BusTypeCorrect` | `I2cSpec => []I2cTypeOK` | `I2cTypeOK` |
| `StableIsReal` | `I2cSpec => StableWasReal` | `BusInv` |
| `ButtonsTypeCorrect` | `BtnSpec => []BtnTypeOK` | `BtnSound` and `BlinkInv` |
| `BlinksInTime` | `BtnSpec => []BlinkHalves` | `BtnSound` and `BlinkInv` |
| `FiguresAreDrawn` | `TftSpec => []DrawsFigure` | `FigureInv` |
| `DisplayTypeCorrect` | `TftSpec => []TftTypeOK` | `TftTypeOK` and `FigureInv` |
| `PartsTypeCorrect` | `Spec => []TypeOK` | those of the five parts; `MavTypeOK`, `TwinTypeOK` with `TwinInv` |
| `CdcFramingProofs!FramingTypeCorrect` | `FramingSpec => []FramingTypeOK` | `FramingInv` |
| `FramesComeThrough` | `FramingSpec => []FramesArrive` | `FramingInv` |
| `Rs485NodeProofs!SlaveTypeCorrect` | `SlaveSpec => []SlaveTypeOK` | `SlaveInv` |
| `ReportsAreTrue` | `SlaveSpec => []ReportsHardware` | `SlaveInv` |
| `FramesAreTaken` | `SlaveSpec => []FrameTaken` | `SlaveInv` and `FrameInv` |
| `EmulatorTypeCorrect` | `EmuSpec => []EmuTypeOK` | `EmuSound` |
| `AnswersAreRight` | `EmuSpec => []AnswersOnce` | `EmuSound` and `AnswerInv` |
| `NodesTypeCorrect` | `Spec => []TypeOK` | those of the three protocols |
| `LedSk6812Proofs!TypeCorrect` | `Spec => []TypeOK` | `TypeOK` and `Drawing` |
| `PanelAlwaysSent` | `Spec => []PanelInEveryTransfer` | `PanelCounted` |
| `TransfersAreWhole` | `Spec => TransfersComplete` | `SemaphoreMeansIdle` |
| `PartsProofs!SavedComesBack` | `TwinSpec => []SavedListComesBack` | `TwinInv` |

Why the strengthenings are needed:

- `FreshInv`: `ConnectedIsFresh` alone is lost when `cdc_task` reaches its check with a
  copy that is out of date, or sleeps across a tick with an age at the limit. It is joined
  by: the task is past the poll only with a session; its copy says CONNECTED when the
  state is; and when it sleeps in CONNECTED the age is still below the timeout.
- `NoHeartbeatNoReconnect`: until a heartbeat has come since the Pi was given up,
  `g_last_heartbeat_rx_tick` is not newer than `last_heartbeat_tx`, or is past the window.
- `OutageInv` and `LostInv`, without MODE commands: what each task knows of the other at each point of its body. While
  the state is stale, `cdc_task` has a turn in which it sees it; only a write of `digital_io_task` that was decided before can undo
  what it does then, and that happens once, after which both agree.
- `PanelInv`: before the first packet of a connection the items a payload packet may skip are all marked `unsure`. The proof
  says of each handler which frames it appends, by item: `EndsAs` speaks of the last frame for one item.
- `DetailInv`: while the details are drawn, the parts drawn so far are those of the cache unless `dirty` is set or a
  call that will set it is under way.
- `BusInv`: a sample that was not real is followed by one that is, because the light sensor has then just ended its
  transaction and pauses; so of the two samples that agree one was real.
- `BlinkInv`: since the last command or change of brightness, either the transfers of this half, the pictures made and not sent yet
  (`BehindOf`) and what `ws2811_task` has read and is no longer so (`OldOf`) are two at most together; or the picture that is
  ready is the one of the phase before, and the half has lasted no longer than its place in the period says, plus four less
  what is not sent (`InRun`). `NextInHalf` is the fact about the wrap: 256 is a multiple of 4, and 16 of 20 pictures fall
  in the last period of a slow blink, so that its dark half is cut short and none is longer.
- `FigureInv`: the windows left to fill paint only the figure, what is written is of the figure, and every point of the figure on the panel
  is written or still to be painted. That the list a call begins with paints its figure (`WindowsDraw`) is proved by kind: what a
  list paints is what its windows paint, by induction over the list (`FlattenPaints`); a window of `w` times `h` pixels paints
  its box, because row and column are quotient and remainder (`PixelsOfBox`); and the rows of corners, the cells of glyphs and the
  pixels of bitmaps make up the shape (`DrawsRound`, `DrawsFrame`, `DrawsString`, `DrawsBitmap`). The figure itself is stated without
  windows, by distances to the edges.
- `FramingInv`: a receiver is in phase (`InPhase`), or it has all bytes since the last loss in one phantom frame (`Has`). It has no
  room for `Longest` of them, so after as many it is in phase. The checksum is a recursive function: that it is defined and
  gives a byte is proved by induction (`SetInduction`).
- `SlaveInv`: the types, and of the device that its servos stand where its angles say or still in the middle, and the strip of the RP2040's
  light bar is dark (`Sound`), where the loop is when DE is on (`LoopSound`), and that once `main` has come round no byte waits, the
  strip is sent and the pin was last driven by the temperature of now (`Settled`). `ReportsHardware` is about the bytes
  of `Status`, which say none of that by themselves.
- `FrameInv`: `FrameSound` says that the UART and the receiver hold the first bytes of the frame on the bus, with at most one
  taken for another, neither its SOF nor its length (`Carried`, `Sighting`), and that the receiver's age stays below the stall timeout; `StepSound` and
  `StallSound` that a receiver in step, or left alone for the timeout, waits for an SOF; `ReplySound` that an answer is on the
  bus, in the transmitter, or still to be written. That a damaged byte changes the CRC (`DamageIsNoticed`) holds at every length: a step
  of `crc8` loses nothing because the polynomial is odd (`ShiftLosesNothing`), so two runs that differ once differ to the
  end. TLC checked `FrameInv` on the bounds of `bytes` before it was proved.
- `AnswerInv`: the emulator's receiver, led by the bytes that are on their way, ends between two frames (`Phase`); the age it gives to
  what it waits for is at most what its two late readings of the clock can add (`OnTime`), so that a frame under way is not
  given up (`GivenUp`); and of the frame asked, what has been taken and what is to come make up the whole (`Carries`).
  `Met` says where in the frame the receiver is after each byte, and `NextMet` that a byte takes it from one place to the next.
- `QuietInv`: what is on the bus or in the FIFO is one frame, from the address asked, and
  there is none while the master does something else. The refinement maps the FIFO
  to `answered` (`Pongs`), and `SlaveAnswer` to the abstract `Answer`.
- `Drawing`: the panel's index stays on the panel.
- `PanelCounted`: the shared count and the task's copy of it cover the panel as well.
- `SemaphoreMeansIdle`: the channel is idle while the semaphore is available.
- `TwinInv`: the list in memory, which the next save writes, is valid, every file a power failure may leave gives a layout of `given` when
  it loads, and where the write reached the file it is what was saved; the lemmas say of one threshold, of a list and of a
  set of files what writing and reading do. That a save which reports success can be loaded is no part of it: it is not so.

Proving found types that were too strong: `detail` of the Pi takes a payload of any length, the address of the
details on the screen starts as 1. Neither was reached by the runs' constants. It also found the types of `Slave` too weak to be
kept (a payload complete before the CRC), and a `CASE` of `SetOutput` with guards that overlapped; in `Emulator`, that values
set by hand must be cut to the width of their fields, as the assignments of `cli_set` do. In `ButtonLeds` it found the bounds of
`BlinkHalves` too low, which every plan of `parts` keeps: two transfers left over from before a command, and the picture of the
next half sent in the transfer of the one before, make 13 and 5 where 12 and 4 were stated; TLC showed it with a frame for an absent
button, which wakes the task, before and after the command. It also found that the brightness 0 is not the only one at
which a colour does not show (`Blinks`).

Only model-checked: `RegistryFollows` and all other liveness properties, because TLAPS does not reason about liveness under fairness
or about `ENABLED`. Every invariant and every action property that a passing run checks is proved, those of `Rs485Bus` and
`GcsSession` that have a condition in the table under that condition.

## 5. Where code and documents disagree

Three disagreements are kept as runs that exhibit them:

| Run | Statement | Code |
|---|---|---|
| `gcs_watchdog` | `main.c` 110: "Will send error packet once CDC task starts" | `usb_cdc.c` 54 overwrites SYS_ERROR and nothing sends the packet |
| `screen_detail` | `screen_display.h` 29, 36: "Safe to call from any task context" | `screen_display.c` 600 compares the address and then fills the cache, without a lock: the data of one peripheral stay under another's name |
| `pico_lux` | `veml7700.h` 16: "range up to ~120 klux"; `veml7700.c` 30: 0.0576 lux per count | `veml7700.c` 94 multiplies by 57600 for millilux, a thousand times too much; the Pi shows it |

Others were met while modelling. The models follow the code.

Session and Pi link
- The key "controls the locked state of the entire GCS" (`PI_CODE_HARDWARE_REFERENCE.md` 100): only an edge of the
  key while live has an effect (`digital_io.c` 170-174). On the Pi, the arming prompt stays open and the pages go on working while
  locked (`GCS_SCREEN_DESIGN.md` 627).
- `picolink.cpp` 327-336 reads a length where the Pico sends the first data byte of a response, so what it takes for the data is shifted by one.
- The TFT shows the peripherals for "any online" one (`GCS_PROGRAMMING_SPEC.md` 1141); the code counts any that is listed (460).
- After a reset of the Pico nothing sends the payload lights and the TFT mode again until they change.
- RC and RTH switched on in one packet lose the mode to go back to. `updateFlightMode` and `updateWarnings` have no callers.
- The 3000 ms check of `sendHeartbeat` compares a time just taken with now (107) and never expires.
- A receiver of the Pi may wait for 64 KiB after a garbled length, that of the Pico for 519 bytes. `warning_panel.md`
  72 and `PCB_DESIGN.md` 367 describe a length of one byte; it is two.
- MAVLink heartbeats are not handled: the link is lost three seconds after it is found and not looked for again;
  `m_rxBuf` grows without end (`mavlinklink.cpp` 82).
- Saving the built-in layout writes 0 for limits that have none (`gcsstate.cpp` 459-460).
- A save that could not write reports success (482-486), and one that could may still be lost, as nothing is synced; the file is truncated
  first (476), so the layout of before is gone as well. No document says more of it, so the model only follows the code.

Bus and peripherals
- "Max retries on timeout: 3, then flag device offline" (`RS485_PERIPHERAL_BUS.md` 157): offline after one (`rs485.c` 260).
- "Slave responds with PONG" (136): the sender of the PONG is not compared (260), so a late one brings a vacant address online.
- "Peripherals never transmit unsolicited" (103): streams do. The emulator's start without looking whether the bus is quiet.
- The stall timeout of a slave is for "no progress" (`rs485_slave.c` 216) and counts from the SOF.
- The pan-tilt unit of the RP2040 reports the angle asked for, unclamped, and 0 before that though its servos stand at 90.
- The light bar reports the mode it was given, but flash and breathe (`board.h` 11-14) drive nothing: `board_tick` sends one colour
  in every mode (`board_stm32f1.c` 96-101). The light bar of the RP2040 reports what it was asked for and stays dark (`board_rp2040.c` 5-20).
- A slave looks for the CRC where the length byte says: of a frame whose length was damaged it may take the first part for the whole
  (AB 03 10 02 00 CC CA with 01 for its length: CC is the CRC of 03 10 01 00) and dispatch it. `FrameTaken` excepts damage to
  the SOF and the length.
- The light bar of the STM32F1 disables interrupts for 960 us per strip, with a UART that keeps one byte.
- The emulator: `int_pending` is not cleared by GET_STATUS; a device renumbered changes its kind, and a second one
  with the same address falls silent; a frame is given up when the main loop was busy for 5 ms, though the line was
  not silent (400-404); SET_PARAM of an unknown parameter is acknowledged with its value, GET_PARAM of it says 0.

Outputs and inputs of the Pico
- An LED frame shorter than the chain drops the worklight from the transfers, which `led_sk6812.c` 152 means to prevent; a
  notification during a transfer starts the next without the reset time of `sk6812.pio` 10.
- "this never hides a real change" (`screen_display.c` 118, of the threshold of 8 counts): a digit of the voltage, and its
  colour, change wherever a boundary lies between, as from count 3548 (22.9 V) to 3553 (23.0 V).
- `led_ws2811.h` 19 says "Thread-safe"; a button may be shown with the fields of two commands for one period.
- The main picture may stay out of date after a change of mode (`screen_display.c` 667, 686), the overview is never redrawn (677), the
  battery warning keeps the voltage it began with, and the main picture shows "Pi: WAITING" while LOCKED.
- The Pi can light the panel during initialisation, which `screen_st7735.c` 228 keeps dark, and what it set then is
  overwritten by the final ramp (321-325).
- The LED bits of port A are part of the samples, so that an LED frame raises EVT_SWITCH_CHANGED; a write lost to a collision on the I2C
  bus stays lost until the next LED frame.
- `digital_io_set_led`, `set_led_async` and `proto_parse` have no callers.

## 6. Not modelled

- USB descriptors, pin and clock set-up, initialisation sequences of the display and the expander: tables and register access.
- The QML pages (display; what they call is modelled), the telemetry setters of `GCSState` that only feed them, CPU statistics,
  conversions of thermistor readings.
- The ESP32 HAL: no application is built for it. The DHCP, DNS and HTTP servers and the text of the emulator; the Python
  tester; `test_tft.c`.
- The deprecated STM32 firmware, superseded by `GCS/`.
- The tick counter's wrap-around after 49 days.

## 7. Plan

The plan is carried out: the components of section 1 are modelled but for what section 6 lists, and what the runs check and TLAPS can
reason about is proved. Further steps would be

1. the wrap of a display coordinate at 16 bits, for callers that compute one (those in `screen_display.c` stay on the panel);
2. the wrap of the tick counter in the comparisons of `usb_cdc.c`;
3. the refinement of `Rs485Bus` by `Slave`: that the frames the master sees are those the bytes on the bus make.
