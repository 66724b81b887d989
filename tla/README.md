# PriusPilot: a TLA+ model

PriusPilot is a fork of flowpilot/openpilot for a Toyota Prius Gen 2. It drives
a car through a *panda*, a microcontroller between the computer and the car's
CAN buses (here the `PYBOARD` build, an STM32F405). The panda decides by itself
whether the driver has given authority and refuses every frame that exceeds it.
The computer runs `controlsd`, which decides 100 times per second whether the
system is engaged, `boardd`, which carries CAN frames and the heartbeat over
USB, and the processes that feed them. What must be right is that the layers
take and give up authority when they should, in every order of events.

This directory is a verification project for that program: TLA+ modules
translated from the code, TLC configurations that check them on small instances
and proofs that TLAPS checks for all values of the constants.

## The system

### Components

| Part | Code | State it keeps | Operations | What makes it correct |
|---|---|---|---|---|
| panda safety layer | `panda/board/safety.h`, `safety/safety_toyota.h` | safety mode, `controls_allowed`, pedals and cruise as last seen, message ages | receive hook, transmit hook, set mode, 1 Hz `safety_tick` | frames that move the car pass only with the driver's authority; lost authority does not come back by itself |
| panda torque limits | `safety.h` `steer_torque_cmd_checks` | last torque, real-time reference, measured torque samples, request-bit counters | one check per steering frame, one sample per EPS frame | torque ramps, cuts of the request bit are rare, the host can always let go |
| panda supervisor | `main.c` `tick_handler`, `main_comms.h` | heartbeat counter, countdowns, siren, power save, ignition | timer tick, control requests | a host that dies loses the car mode, with a siren when it was engaged |
| panda CAN queues | `drivers/can_common.h`, `drivers/bxcan.h`, `main_comms.h` | a ring per bus, transmit mailbox, receive ring, paused endpoint | send, forward, receive, transmit interrupt, USB read and write | frames keep their order, none is lost below capacity, the host is never stopped for good |
| CAN byte streams | `main_comms.h` 51-153, `boardd/panda.cc` | reassembly buffers and counters | USB chunk in, USB chunk out | packets are never spliced |
| boardd | `boardd/boardd.cc`, `boardd/panda.cc`, `boardd/pandad.py` | connection, ignition, threads | safety setter thread, heartbeat, send and receive threads, reconnect | the car's mode is set by this drive's parameters and taken back with the ignition; heartbeats stop with controlsd |
| controlsd | `controls/controlsd.py`, `lib/events.py`, `car/interfaces.py` | engagement state, soft-disable timer, mismatch counter, last car state | `step`: sample, events, transition, control | engages only on the driver's request; pedals and the panda win; soft disable ends |
| cereal messaging | `cereal/messaging/msgq.cc` | shared memory ring, reader pointers | publish, receive, register, reset | a reader gets whole messages in order, or starts again |
| params | `common/params.cc` | key/value store (LMDB) | put, get, remove, clearAll | no value of an earlier drive is taken for one of this drive |
| manager | `manager/flowinitd.py`, `process.py` | a handle per process | ensure running, start, stop | a process of one drive does not run on into the next |
| thermald | `thermald/thermald.py` | onroad conditions, time offroad | a loop per `pandaStates` | onroad follows the ignition, with a pause that flowinitd sees |
| lane change | `controls/lib/desire_helper.py`, `lateral_planner.py` | lane change state, direction, timer | update per message of the driving model | asked for by the driver, to the side pushed to, over in time |
| longitudinal control | `controls/lib/longcontrol.py` | off/pid/stopping/starting | update per frame | |
| alerts | `controls/lib/alertmanager.py` | active alerts with end frames | add, process | |
| Gen 2 port | `car/toyota_gen2` | - | Phase 1: `noOutput`, nothing is sent | nothing is sent |
| the rest | planners, models, UI, logging, locationd, vendored opendbc | | | numeric, I/O or data: out of scope |

### How they interact

CAN frames reach `can_rx` in the panda, which forwards them between the car's
two buses, updates the safety layer and queues them for the computer. `boardd`
reads them over USB and publishes `can` and `pandaStates` (with the panda's mode
and `controls_allowed`). `controlsd` reads both, decides, and publishes
`sendcan`, which `boardd` writes to the panda, where `can_send` asks the safety
layer for each frame. Independently `boardd` sends a heartbeat that carries
whether `controlsd` is engaged. So two machines, in the panda and in
`controlsd`, watch the same pedals and the same stock cruise through different
channels, and each supervises the other: the panda drops controls the computer
does not use and a computer that stops, `controlsd` disengages when the panda
withholds controls or is in another mode.

Before a drive, processes that know of each other only by messages and parameters
have to agree. `boardd` tells `thermald` that the ignition is on; `thermald` goes onroad,
`flowinitd` starts `controlsd`, which fingerprints the car through the panda and
writes `CarVin`, `CarParams` and `ControlsReady`. The safety setter thread of `boardd`
waits for those keys, which `boardd` cleared when the ignition rose, and sets the car's
mode. All of it is taken back when the ignition falls. All messages go through
the shared memory queues of `msgq`, whose publishers never wait for a reader.

### What is hard

Orders of pedal, cruise, brake, speed and checksum events; two supervisors with
different views; timers (32-bit microseconds, 1 Hz ticks, 100 Hz frames) that
race with the events they guard; messages that stop; a host that dies, hangs,
comes back or disables its own heartbeat; mode changes in the middle; queues at
their limit; shared memory without locks; packets cut across USB transfers that time
out or are repeated; parameters that outlive the drive they belong to. `PROJECT.json` lists each hazard at its
line with the properties that watch it.

## Modules

### `Authority`: the abstract specification

Both layers promise the driver the same thing: authority is granted at most on the
moment stock cruise is seen to engage, may be withdrawn at any time, ends with
stock cruise, and once withdrawn does not return before stock cruise has been seen
off. `PandaSafety` implements it with `controls_allowed` and
`cruise_engaged_prev`, `ControlsState` with `enabled` and
`CS_prev.cruiseState.enabled`. Both refinements are checked (`ImplementsAuthority`)
and proved (`Implements`).

### `PandaSafety`: the panda's safety layer and supervisor

One variable per variable of `safety.h` and `main.c`. Actions:

| Action | Code |
|---|---|
| `RxFrame` | `can_rx` without the queues: `safety_rx_hook` (with `toyota_rx_hook`, `addr_safety_check`, `generic_rx_checks`, `pcm_cruise_check`) and `ignition_can_hook` |
| `Tick` (`TickAlive`, `TickHeartbeatGone`) | the 1 Hz part of `tick_handler`, `safety_tick` and `set_safety_mode(SILENT)` included |
| `SetSafetyMode`, `Heartbeat`, `SetAlternativeExperience`, `DisableHeartbeat`, `SetPowerSaveState` | requests 0xdc, 0xf3, 0xdf, 0xf8, 0xe7 of `comms_control_handler` |
| `HostFault` | boardd or its USB link dies, or comes back |
| `CanSendAdmits` (no action: it is what transmitting depends on) | `can_send`, `safety_tx_hook`, `toyota_tx_hook`, the ELM327 and NOOUTPUT hooks |

All interrupts of the panda have the same priority, so a handler is one atomic
action. Frames are `[bus, addr, data]`, where `data` is the set of the signals
the hooks read. Time is counted in ticks: every lag threshold of the Toyota
message table is 1 s, so a message lags when it was not seen since the last tick.
A torque or acceleration frame whose value exceeds a limit carries `OVER_LIMIT`;
which ones do is the question of `SteerTorque`. Left out: statistics counters,
LEDs, fan, UART and GPS requests, deep sleep (other boards), message counters
(Toyota checks none), `regen_braking` (Toyota never sets it), the debug-only
`ALLOUTPUT`, which therefore falls back to `SILENT` as in the release build.
`engaged_ticks` and `host_alive` are history and environment.

### `SteerTorque`: the torque limits

`steer_torque_cmd_checks` with the motor-torque limits Toyota uses, the six-value
sample with its rounding margin, division toward zero, and `get_ts_elapsed` on a
timer that wraps (`TimerSize`, 2^32 in the code). `TxSteer` is one steering frame
from the host, `RxTorqueMeas` one EPS report, `PassTime` one unit of time, and
`Engage`, `Disengage`, `SetSafetyHooks` what `PandaSafety` decides, here free. The
history variables say what was really put on the bus (`sent`), what the panda knew
when controls rose (`rise_from`, `engaged_for`) and how far the last cut of the
request bit is away (`cut_gap`, `cut_elapsed`).

### `ControlsState`: engagement in controlsd

One action, `Step`, is `Controls.step`: `data_sample`, `update_events`,
`state_transition`, and the gates of `state_control`, in that order (`events'`,
`initialized'` and `state'` are used where the code uses the values of the same
frame). The event types are the columns of `EVENTS` in `lib/events.py`. A sample
is what arrived: pedals, standstill, stock cruise, the car interface's events,
the panda's state, the health of the services and the faults they report.
`CP` is chosen once: a car that disengages on the accelerator or overrides, the
Gen 2 port in `noOutput`, a dashcam (`read_only`). Left out: events without a type
that the machine reads, events of other makes, alerts and their text, joystick
mode, the numerics of the controllers. `soft_for` is history.

`PedalsHaveAuthority` says of each frame what the pedals allow, with the two exemptions the code
makes: steering goes on under an accelerator that overrides, and a brake held at
standstill since before the engagement does not end it (`controlsd.py:210` reports
`pedalPressed` for a brake on its edge or in motion).

### `DesireHelper` and `LateralPlan`: lane changes

`DesireHelper` is `DesireHelper.update`, with one operator per state of the lane change.
`LateralPlan` composes it with `ControlsState`: controlsd steps 100 times per second and
publishes, the planner updates when a message of the driving model arrives, so
an update (`PlannerUpdate`) may fall between any two steps (`PlanNext`) and reads the
`active` that was published last. The car's signals the planner reads are free. The
timer and the lane line probability count updates of 50 ms; the comparison with 10 s
is made on that count, not on the rounded sum the code keeps. `blinked`, `asked`, `pushed` and
`changing_for` are history: what the driver did, apart from what the code remembers
of it. The keep pulse is left out, as no desire it acts on is ever set.

Observed: in the first update of `preLaneChange` the direction is still `none` or that of
the change before, so `controlsd.py:260-269` may ask to steer right for one planner frame.
Controls that end and return between two planner updates go unnoticed by the planner.

### `Msgq`: the shared memory queue

One action per access to the shared segment, so that every interleaving of a publisher
and its readers is checked; the program counters and registers of the calls are the
fields of `writer` and `reader`.

| Actions | Code |
|---|---|
| `Start`, `ClearValid`, `ClearUid` | `msgq_init_publisher` |
| `Send`, `WrapTag`, `WrapCheck`, `WrapInvalidate`, `WrapPtr`, `AreaCheck`, `AreaInvalidate`, `WriteTag`, `CopyIn`, `Publish` | `msgq_msg_send` |
| `LoadNumReaders`, `Evict`, `WipeValid`, `WipeUid`, `Claim`, `NewValid`, `NewPointer`, `NewUid` | `msgq_init_subscriber` |
| `SetValid`, `LoadPointer`, `StorePointer` | `msgq_reset_reader` |
| `CheckUid` ... `LoadSize`, `CheckSize`, `WrapAround`, `Skip`, `CopyOut`, `Advance`, `CheckCopy` | `msgq_msg_recv` (and `msgq_msg_ready`, its beginning) |

Words are 8 bytes, the alignment of messages. The order of the accesses is the
program's: the queue's fields are C++ atomics, and a copy is a word at a time.

The code leaves three races open, and the properties exempt the readers that met one
(`disturbed`, `evicted`): a publication between the load and the store of
`msgq_reset_reader`, which leaves a valid reader with an old pointer (a TODO at
`msgq.cc:248` is about it); a slot wiped while a subscriber is between claiming it and
storing its uid; and the stores of an evicted reader into a slot that another one has
claimed since. A reader that reads no size where one should be dies on its assertion,
so the run does not check for deadlock. More than `NUM_READERS` subscribers
evict each other for ever, each as it finds its slot gone.

### `CanStream`: CAN packets over USB

Extends `CanRing`, which is the receive queue. Both ways packets are a stream of units cut
into numbered chunks. `InToken` and `Fill` are `comms_can_read` (one action per turn of its
loop: packets arrive meanwhile), `Fetch` with `Unpack` is `Panda::can_receive`, `Write` is
`pack_can_buffer`, `SendChunk` is `comms_can_write`; `ReadFails` and `ReadLost` are the errors of
`usb_bulk_read` (an overflow clears the flag, any error but a lost panda repeats the transfer from the
start of the buffer), `EndWrite` and `Resend` the timeout and the
other errors of `usb_bulk_write`, `Reconnect` a new connection of boardd, with or without
a reset of the bus that flushes the panda's chunk. Only the lengths of packets matter.

The read has no timeout (`TIMEOUT` is 0), so it ends by a short chunk, the limit or an error.

Observed:

- `SET_CONFIGURATION` does not reset the counters, so a connection that begins in the middle of a
  transfer is unhealthy from the start (`broken`). So is one whose read overflowed, or whose read
  failed and was repeated with chunks already received: they are lost while the panda's number
  stands in mid transfer. boardd does not reconnect then: from that read on `can_receive` unpacks nothing more
  (`panda.cc:477`), and the messages boardd publishes are marked invalid (`boardd.cc:289`, `377`,
  `425`) for the rest of the connection.
- A failed read that loses all of a transfer but its end, or all of it, goes unnoticed when nothing
  gives the numbers away: the next transfer starts at 0. The packets are lost, but none is
  spliced, which is the second half of `ReadsArriveWhole`.
- A panda lost in mid read leaves chunks in the buffer that are unpacked although they may end
  within a packet.
- A transfer that is sent again after an error has its first frames sent twice.
- With CAN FD packets longer than a chunk (the red panda, not this build)
  `main_comms.h:66-80` would send a short chunk in mid transfer, which `StreamAssumption`
  excludes.

### `ParamsStore`, `Boardd`, `Supervision` and `DriveCycle`: from key to key

| Module | Actions | Code |
|---|---|---|
| `ParamsStore` | `Put`, `Has`, `Remove`, `GrowOld` (operators) | the three keys of `CLEAR_ON_IGNITION_ON` that boardd waits for, one transaction each |
| `Boardd` | `Launch`, `Connect`, `ConnectFails`, `Exit` | `pandad.py` main, `boardd_main_thread` |
| | `Read`, `Apply`, `Share`, `ClearOne`, `Spawn`, `Update`, `Beat` | one loop of `panda_state_thread`, cut where it touches the panda, the flag `ignition` or a parameter |
| | `SetElm`, `AwaitVin`, `SetElm1`, `AwaitReady`, `GetParams`, `SetCar` | `safety_setter_thread` |
| | `TurnKey`, `Unplug`, `Replug`, `BoarddCrash`, `Stall` | the driver, the cable, and what fails |
| `Supervision` | `ThermaldLoop` | `thermald_thread`: ignition and its timeout, `offroad_min_time`, the transition |
| | `ManagerLoop` | `ensure_running` for controlsd: `ManagerProcess.start`, `stop` |
| | `PutVin`, `PutParams`, `BecomeReady`, `Publish` | controlsd's start and `publish_logs` |
| | `ControlsdDies`, `ConditionFails`, `ConditionReturns` | what fails, and what comes right again |
| `DriveCycle` | `Tick`, `Crash`, `Disturbance`, `Repair` | 500 ms pass for all; what is permanent, what passes, what mends it |

Whether a stored value is of this drive (`fresh`) or an earlier one (`stale`) is history: the
code only sees that there is one. Of the panda the mode and the heartbeat count are
kept. The steps of all processes interleave freely between two ticks. *Timing assumed*:
a tick waits until the state thread has finished its loop, the setter has polled since
the ignition was last shared (it polls every 100 ms), thermald has looked at the last
`pandaStates`, and flowinitd has come round within `MANAGER_PERIOD`, which is shorter than
the 5 s offroad; a process takes a loop to start.

A loop of boardd may also overrun: `Stall` makes it `slow` at any of its transfers, ticks then pass
while it hangs there, and the panda may go silent meanwhile. After a slow loop the thread does not
sleep (`util.h:96-99`), or sleeps less than 100 ms. That decides how long a controlsd that hangs is
reported as engaged: `Update` is `SubMaster::update`, which takes a message as alive for 100 ms from
its *receipt* (`socketmaster.cc:134-138`); `held` says that it still is. In loops of 500 ms
that is the loop that received it; a slow loop and the next without a pause may both report
it, and no third one (`EngagedHeartbeatsEnd`). The count is taken where the heartbeat's flag is
decided, which a stalled transfer may send late.

`unmet` is what keeps the device offroad: `onroad` is `device_temp_good`, which is asked at all
times, `startup` stands for `not_uninstalling` and `free_space`, which are asked of a device that
is not started (`thermald.py:185`, `190`, `198-200`). They fail and return freely. (`DoUninstall`
also makes flowinitd shut down, `flowinitd.py:186`, which ends what is modelled.)

Observed (`DriveComesUp` excludes the first three, and a device kept offroad by a condition):

- When boardd reconnects in mid drive, its first loop sees the ignition rise and clears
  the keys, while the running controlsd writes them only once (`Erased`): the panda stays
  in ELM327 until the key is turned.
- pandad runs boardd with `check=True`: when boardd crashes it ends too, and flowinitd,
  which keeps the handle on it, does not start it again. Nor does it start a controlsd
  that died, before the device has been offroad.
- A panda that went silent for want of a heartbeat gets NO_OUTPUT in the next loop, and the
  setter starts again only on a rising ignition (`lapsed`). It counts from the health packet
  that tells of that ignition: when the panda goes silent in the same stalled loop, after the
  packet, the next loop may read "silent", the setter finish, and the loop then ask for NO_OUTPUT
  over the car's mode. Found in an instance with a stall beside three turns of the key.
- The age of a `controlsState` is counted from its receipt and not from its publication: one that
  waited through a stall is alive in the loop that receives it, however old it is.
- After a slow loop without ignition the next may see the ignition on before the setter of
  the earlier drive has looked: it then lives on ("Safety setter thread already running",
  `boardd.cc:485`) and may set the car's mode by the parameters it read in its own
  drive. `ParamsOfThisDrive` exempts a setter during which loops followed each other without a
  pause (`hurried`).
- `thermald.py:29` waits 5 s before it takes silence for ignition off, but while boardd fails to
  connect it publishes a `pandaState` of unknown type, which tells thermald at once that
  the ignition is off: the wait of 5 s is only for a boardd that says nothing.
- On a PC (x86_64) boardd does not ask for NO_OUTPUT when the ignition is off; the
  model is the device's build.

### MC modules and proofs

The modules starting with `MC` only define the inputs of the runs; the modules ending in
`_proofs` hold the theorems.

### `CanRing` and `BoundedFifo`: the rings

`CanRing` is `can_ring` with its two pointers: `can_push`, `can_pop`, `can_clear` and
`can_slots_empty`, each atomic since each runs in a critical section. It implements
`BoundedFifo`, a queue that refuses a packet only when it is full; `answer` records
what the last call returned. That refinement is proved, so `CanBus` uses sequences.

### `CanBus` and `BusOrder`: the transmit side

`CanBus` has per bus a queue (`tx`) and the one mailbox the driver uses, the fill level
of the receive ring (`rx`), and endpoint 3 of the USB core: whether it refuses data
(`nak`), whether a packet is being processed (`processing`), the packets received
and not read (`unread`), the end of a transfer not yet handled (`complete`).

| Action | Code |
|---|---|
| `CAN_TX_IRQ`, `can_rx`, `can_sce` | the three interrupts of a controller: `process_can`; forwarding by `toyota_fwd_hook` with `can_send`, then the receive ring; `llcan_clear_send` |
| `UsbData`, `comms_can_write`, `UsbOutComplete`, `usb_reset`, `SetConfiguration`, `comms_can_read` | `usb_irqhandler` and `usb_setup` as far as CAN goes |
| `ClearTxRequest`, `ClearRxRequest`, `can_init`, `can_init_all` | requests 0xf1, 0xde, 0xe5 and the restart in `set_safety_mode` |
| `TxDone`, `HostSends` | the CAN controller and the host with the USB core (external) |

No interrupt priority is ever set, so handlers do not preempt each other and each is one
action. A handler calls several functions on the same state, so those are operators
on a record (`Port`) that an action composes: `can_init_all` is three clears, each
followed by `process_can`. A USB packet is the list of its frames; its handling
takes one action per frame, because the controllers go on sending in the meantime.
Whether the safety layer admits a frame is free here (`PandaSafety` decides it).
Left out: packet contents and echoes, GMLAN, the fourth queue (always empty),
the CAN FD driver of another board. The model assumes that the three controllers
of `CAN_CNT` exist; the Pyboard build has two (see the hazards).

`BusOrder` promises for each bus that frames leave in the order they were accepted, once,
and that clearing keeps at most the frame that is being sent.

Observed and not a defect against any stated behaviour: `outep3_processing` is set when
a packet is read, so a transmit interrupt between reception and reading re-arms the
endpoint without counting the packet; `SET_CONFIGURATION` arms it without a
check; forwarded frames use the room the check found. Frames that then do not
fit are dropped and counted, so "no host frame is ever dropped" is no property.

## Runs

| Run | States | Shows |
|---|---|---|
| `panda_pedals` | 986 k | `ActuationAuthority`, refinement of `Authority`, over all pedal, wheel, cruise, brake, checksum and relay frames, ticks, mode changes, heartbeats |
| `panda_heartbeat` | 634 k | heartbeat, unused controls, lag, siren, and under fairness that a lost host loses the car mode |
| `panda_relay` | violation | a relay malfunction does not block transmission (finding) |
| `panda_lag` | violation | controls can be held on older messages than the comment says (finding) |
| `steer` | 433 k | ramps per frame and in real time, spacing of cuts, zero is never refused, measured range |
| `steer_reset` | violation | a mode change leaves the minimum measured torque (finding) |
| `controls` | 248 k | controlsd and the lateral planner: bounded soft disable, pedals, the panda's veto, stable engagement, refinement of `Authority`; lane changes are the driver's own |
| `controls_catchall` | violation | the generic catch-all does not catch (finding) |
| `ring` | 825 k | a ring of three slots, filled and wrapped in every position, is a FIFO of two packets; the byte streams on top of it deliver whole packets in order, both ways, through reads that fail |
| `bus` | 45 k | order on each bus, no idle mailbox with frames waiting, no lost wakeup, and under fairness that a refused host is resumed |
| `msgq` | 2.8 M | a reader marked valid has an intact next message, and what it returns is whole and newer than the last, in every interleaving of single accesses |
| `drive` | 771 k | no output two loops after the ignition went off, engaged heartbeats of a silent controlsd end also when loops overrun, parameters and controlsd are of this drive; under fairness a drive comes up, whatever failed and came right before, and goes down |

### Bounds, and why they are enough

*Counters* saturate where the code stops telling values apart:
`safety_mode_cnt` above `RELAY_TRNS_TIMEOUT`, `ignition_can_cnt` above 2, `age`
above the thresholds (`LagCap`), `frame` above 350, `engaged_for` at `TimeCap`.
`heartbeat_counter` saturates in the code as well, at `MaxCount`.

*Timeouts* keep their order and not their size. `panda_pedals` uses the shortest
ones that still leave each countdown a step, as its properties do not depend on
them; `panda_heartbeat` has 4 and 2 ticks for the heartbeat (5 and 2), 3 for the
mismatch (as in the code), 2 for the siren (5) and the countdown (30), so that
each timer can end before, with and after every other. It also runs the board
without the forced ignition (`Pyboard = FALSE`), where the ignition line may be
off and the shorter heartbeat limit applies. `SoftDisableFrames` is 4
(300 in the code) and `MismatchLimit` 4 (200, and more than the two samples of the comment): long enough to be interrupted in
the middle. `panda_lag` saturates ages at 3, one more than the comment's 2 s.

*Numbers* in `steer` keep the order of the Toyota limits (rate up, rate down, real
time delta, maximum) at 1, 1, 1, 3; a timer of three values wraps inside every
interval; the sample has two entries, so that minimum and maximum differ and
a value is forgotten; `EpsFactor` 50 makes division round for both signs.

*Queues* in `bus` hold two frames and need one free slot, so that they are empty, in
between and full, and the check fails by one frame; two USB packets wait at most,
so that a transfer can follow one that is not read; one host frame and one car
frame meet in queue 0 and have an order, and one camera frame is blocked. The `ring`
of three slots has every distance of its pointers before and after a wrap; a packet
shorter than a chunk and one as long give every split across two chunks; the counter
has three values, so it wraps in each transfer of full length; lists of two packets
need two chunks.

`msgq` sends messages of one, two and two words through a ring of nine, so that the third
wraps around and overwrites the first, and the readers of either are lapped; one slot for
two readers makes them evict each other; one of them conflates.

`drive` turns the key three times (on, off, on) and has one failure, anywhere: a crash beside the
three turns, or a cable, a stall or a condition that fails in place of one of them
(and what was plugged out or failed may come back at any time, without a bound). A stall lasts
until the panda is silent at most. With a stall, a cable or a condition beside three turns, each in
an instance of its own, the two liveness properties hold as well (up to 1.5 million states; not
among the runs, for their length). The
timeouts are 1 (10 loops of 500 ms in the code; 6 for `MANAGER_PERIOD`) and keep their order:
a round of flowinitd is not longer than the pause. `HEARTBEAT_CNT` is 2, the least that
a loop in time can meet.

*Inputs*: `panda_pedals` has every signal the Toyota receive hook samples, in
both values. `controls` has every combination of the driver's signals with
healthy services, and one anomaly of each kind on top of three of them; two
anomalies in the same frame are covered by the proofs, which hold for any set of
samples (`controls_catchall` has more anomalies). The planner's car has every
combination of blinkers and pushes, and a slow car and one in the blind spot on some. A
lane change takes at most 4 updates (200) and the lines fade in 2 (20), so that it can end in
both ways and in time or not.

The proofs hold for all values of all these constants, within the assumptions the
modules state.

### Fairness

`LostHostLeavesCarMode` needs weak fairness of `Tick`, since the timer interrupt
fires whatever the buses and the host do (it has the priority of all others, and
every handler returns). `HostIsResumed` needs weak fairness of the interrupts that
are pending, for the same reason, and of `TxDone`: on a live bus a controller sends
what it was asked to. A dead bus does stop the host (its queue never drains), and
so may forwarded frames that refill a queue for ever, hence the premise of the
property. Nothing is assumed of the host or the driver.

`DriveComesUp` and `DriveGoesDown` need weak fairness of the threads of boardd, of thermald,
flowinitd and controlsd's start: they are loops of running processes, each step of which ends.
Strong fairness of `Tick` says that time passes; weak would not do, because a step that the
tick must wait for is enabled again and again. The key, the cable and the
failures have none: the properties say what follows if they stay as they are.

## Proofs

Each proof module states an inductive invariant `IInv` with one lemma per action
that preserves it, and derives its theorems.

*`PandaSafety_proofs`* (all frames, timeouts and requests). `TypeOK` says nothing
about why a frame is safe to admit. `IInv` adds `PedalInv`: while controls are
allowed the mode is TOYOTA, stock cruise was last seen on, the brake is not
pressed in a moving car, and the current and previous pedal states agree; and the
three timing invariants, which are inductive on top of it. Theorems: type
correctness, `ActuationAuthority`, `UnusedControlsExpire`, `CarModeNeedsHeartbeat`,
`HeldControlsAreFresh`, `SirenOnLostControls`, and that the module implements `Authority`.
The last one needs a lemma (`LockedOut`) that no action except a sampled cruise edge raises
`controls_allowed`.

*`SteerTorque_proofs`* (all limits, torques, sample sizes, timer widths). The torque
the panda remembers is zero or what it last sent (`LastIsSent`); the cut counters
never run ahead of history (`CutMemory`); and the real-time reference never
exceeds the torque at engagement plus one delta per started interval
(`RtMemory`), where `QuotaGrows` and `IntervalsGrow` bound how often the reference
can be renewed. The wrap of the timer is handled by `ElapsedIs`. That a non-empty list has a
least and a greatest element is proved from well-foundedness, since `update_sample`
takes a minimum. Theorems: type correctness (with the torque limit), that zero is
never refused, both ramps, the spacing of cuts, and the measured range.

*`ControlsState_proofs`* (all samples, settings and limits). `IInv` ties `enabled`
and `active` to `state`, the soft-disable timer to its history, and the last
sample to the state it allows. `PedalsHaveAuthority` relates a frame to the one before it and follows
from `PedalInv`, which ties the gates of the frame to the pedals it saw. Theorems: type correctness, bounded soft disable,
the panda's veto, the pedals, stable engagement, and the refinement of
`Authority`. One assumption is used of the samples: the car interface reports
`speedTooLow` only together with `belowEngageSpeed`
(`car/toyota/interface.py` 258-262).

*`CanStream_proofs`* (all ring sizes, packets, chunks and transfers), for `CanRing` and
`CanStream`.

- The ring: type correctness; the free slots the code computes are exact; it
  implements `BoundedFifo`, by the two branches of the wrap. `CanStream` implements
  `CanRing` (`StreamIsRing`), so these facts, `SlotsAreExact` and `ImplementsFifo` among
  them, hold under the USB transfers (`StreamRing`).
- The parser: `Split` is a function by recursion on the length of the run and `FlattenSeq` is a
  fold of the library. `RunExists` and `RunsAgree` prove that a recursive function on `0..n`
  exists and is the only one, `Induction` from the least element of a set. Then
  `SplitUnitsOf`: reading the bytes of a list of packets gives the list and leaves nothing; and
  the first units of such a run give a prefix of it (`BeforeReads`).
- `ReadsArriveWhole` is not inductive: it says nothing of numbers still to come. `TransferInv`
  says that the chunks fetched and the one that waits are numbered without a gap up to
  the panda's next number, and all full but the last of a transfer; `PandaInv`, that the panda keeps the rest of a
  packet only in mid transfer, and that while it fills a chunk the number is below the last: its
  total is the number times the size of a chunk (`StreamTypeOK`), so the limit ends a transfer
  before the counter wraps. With these, `ContentInv`: from the start of a transfer what is in flight
  (fetched, waiting, being filled, and the rest, in this order) is a run of whole packets, and for a
  connection that was never cut it is the run of those owed to it. A connection begun in mid
  transfer finds no chunk numbered 0 first, and refuses the transfer. A read that fails (`ReadFailsStep`) drops chunks and leaves the
  panda's number alone: if it lost none the connection is as good as before, else it is
  `broken`, and what is fetched next is a run that starts in the middle (`ChunksLost`).
- `WritesArriveWhole` needs how far the write has come (`WriteInv`): after j chunks what
  is queued is what `Split` makes of the first j chunks, and the buffer is its rest. The first
  chunk discards what was left, so nothing is asked of the buffer before it. It also needs that a
  list fits the counter: `MaxList <= ChunksPerTransfer` (51 packets, 256 values).

*`CanBus_proofs`* (all capacities, frames and buses of frames). Each operator on the
port has lemmas on what it keeps: types, `Justified` (the host is refused only for
lack of room and with nothing in process), `Works` (a queue with frames has a busy
mailbox) and `Acc` (the frames that still have to leave); an action cites the lemmas
of the operators it composes. `NoLostWakeup` is not inductive: it says nothing
of a packet that starts a transfer and waits while the host is refused.
`RefusedAfterLast` adds that a host is refused only after the last packet of a
transfer. Theorems: type correctness, `NoLostWakeup`, `MailboxesWork` and the
refinement of `BusOrder`.

*`LateralPlan_proofs`* (all cars, samples and times). `LaneChangesAreAskedFor` needs two
facts beside itself: the code's memory of the blinker is the driver's last blinker, and its timer
counts the updates since the change began. `PlannerOnlyReads` shows that the
composition implements `ControlsState`, whose theorems therefore hold beside a planner.

*`DriveCycle_proofs`* (all periods, timeouts and numbers of turns and failures). `IInv` is one
invariant of boardd and one of the others; each is kept by its own steps, and by the
others' because they touch only a key that is written (`PutKeepsBoardd`) or a message
(`PublishKeepsBoardd`). `OffWithinTwoLoops` says nothing of the setter; what it rests on is
`SetterInv` with `FlagInv`: a setter that has polled since the flag was stored saw the
ignition on, so it is gone after the first loop in time without ignition, and the second sees any mode
it still set. `FreshInv` says that while there is a setter that is not hurried no key is of an earlier
drive. `BeatInv` is what bounds the engaged heartbeats: a message that is held was received in
this loop or in a slow one just before, so after the second heartbeat no loop without a pause follows.
`PhaseInv` says that a controlsd left from an earlier phase has been offroad for no longer than
flowinitd's last round, which `MANAGER_PERIOD <= OFFROAD_MIN` ends before the next phase.
Theorems: type correctness, `OffWithinTwoLoops`, `EngagedHeartbeatsEnd`, `ParamsOfThisDrive`,
`OneControlsdPerDrive`.

*`Msgq_proofs`* (all rings, message sizes, publishers and readers). `ValidMeansIntact` looks one
message ahead and is far from inductive. `IInv` has three parts beside types. `WriterInv` says when the
writer has room: without it the wrap tag, and the start of the ring, are a reader's next message.
`Layout` describes the words of the ring: up to the write pointer each message is followed by
another (`Front`), beyond it by another or by the wrap around (`Back`), so that a size tag in a
reader's registers leads to a place where a message begins. `ReaderInv` places each valid
reader: never ahead of the writer (`NotAhead`), and, once the writer's loop has passed its
slot, outside of the area about to be written (`OutOfTheWay`). A reader that resets behind the
writer's loop, which reads the number of readers once, is safe because it starts at the write
pointer. The proof covers what the run is too small for: publishers that take the queue over in
the middle of a send, and any number of laps. It needs that a message is at most a
third of the ring, the assertion of `msgq_msg_send`.
`DeliversInOrder` speaks of a copy that is made word by word while the publisher writes; `CInv`
adds to `IInv` what the words hold. `Ordered`: each tag is followed by its whole payload,
messages get newer up to the write pointer, and those beyond it are older than all of these and get
newer along their chain. `Delivery`: the next message of a valid reader is newer than the one
it returned last, and the size, the words and the place of the next message that it has in its
registers belong to one message. They stay true while the flag is set because the writer is
`OutOfTheWay` whenever it writes, and because what it publishes is newer than everything before
(`FrontGrows`). Theorems: type correctness, `ValidMeansIntact` and `DeliversInOrder`.

Every safety property of the passing runs is stated by a theorem, 36 of their 40
properties. Only model-checked are the four liveness properties (`LostHostLeavesCarMode`,
`HostIsResumed`, `DriveComesUp`, `DriveGoesDown`): they rest on fairness, and with it on
`ENABLED`, which is out of the prover's reach. The induction theorems of the library
cannot be used, since they take an operator as parameter; where a proof needs
induction (lists in `SteerTorque_proofs`, bytes and chunks in `CanStream_proofs`) it is
done on the set of numbers that have the property, from well-foundedness.

## Findings

1. **A relay malfunction permits every frame** (`can_common.h:227`).
   `safety_tx_hook` answers -1 under `relay_malfunction` and `can_send` tests for
   `!= 0`. The unit tests call the hook and not `can_send`, and read -1 as a
   refusal. Run `panda_relay`.
2. **Controls may rest on arbitrarily old messages for up to a tick**
   (`safety.h:562` against the comment in 173): entry looks at the cruise edge
   alone. The code takes them away at the next tick, which
   `HeldControlsAreFresh` proves. Run `panda_lag`.
3. **The minimum of the measured torque survives a mode change**
   (`safety.h:333-334` assigns `.max` twice). Run `steer_reset`.
4. **The generic catch-all is inverted** (`controlsd.py:315`): `no_system_errors`
   is true when there are some. A service that is dead without a more specific
   event does not stop engagement. Run `controls_catchall`.
5. **The panda's veto takes 200 frames and not two** (`controlsd.py:285` against the comment
   in 412-415, "we allow a mismatch for two samples, then we trigger the disengagement").
   `PandaVetoEndsEngagement` (run `controls`) states what the code does, with the limit as a
   constant.

## Not modelled

- Numerics (MPC, Kalman filters, neural networks, PID), DBC decoding, user interface, logging
  and upload, and the makes of car other than Toyota.
- `longcontrol.py`: which state comes next is decided by floating-point thresholds on speed and
  target; with those free every transition among its states is possible and nothing is left to say.
- `alertmanager.py`: it reads controlsd's events and decides nothing; alerts last a number of
  frames that multiplies controlsd's states without meeting another actor.
- ISO-TP queries and the firmware versions: they run once, before the car's mode, and their
  result only selects the parameters.
- In what is modelled: two publishers that send on one queue at once, `poll` and its signals;
  LMDB's reuse of a page under a reader (`params.cc:127`); several pandas, power saving,
  peripherals; the end and restart of flowinitd itself; the third controller that `can_init_all`
  reaches on a board that has two.

## Plan

What is left, in this order:

1. `msgq` poll and its signals: no subscriber sleeps on a message that has been published.
2. The steps of the liveness arguments that are safety: what each helpful action lowers, and
   that no other step raises it.
