# A TLA+ project for the Remote Engine Blocker

The repository holds a *remote engine blocker* (REB): a C program that runs
once per 10 ms on a controller in the vehicle, decides from sensors, remote
commands and a panel whether the vehicle is stolen, and then first derates the
fuel pump while it moves and, once it has stood still for 120 s, inhibits its
starter. Around the C core there are a CAN layer, a bridge library and a Python
simulation server with a web cockpit.

This directory specifies the core, the signal validation and supervision around
it, the event log, the CAN codec and adapter and the threads of the simulation
server in TLA+, model-checks them with TLC, and proves their main properties
with TLAPS for every value of their parameters.

## 1. Inventory

Paths are relative to `src/reb_complete/`. "Cycle" is one call of
`reb_fsm_step`, 10 ms.

| component | state it keeps | operations | what makes it correct |
|---|---|---|---|
| state machine, `reb/src/reb_core/fsm.c` | `reb_ctx_t`: state, block phase, source, dwell and hold timers, derate ramp, transmission timers, all contexts below | `reb_fsm_init`, `reb_fsm_step` (four state handlers, four entry actions) | restraints only in their states and in order, dwell and ramp respected, memory agrees with the state, no command obeyed twice, nothing waits for ever |
| panel, `panel_auth.c` | wrong attempts, lockout and its countdown, previous levels of the two buttons | `panel_auth_step` | three failures lock out for the whole duration and no longer |
| sensor fusion, `sensor_fusion.c` | debounce counter, detection | `sf_step` | detects only after an uninterrupted debounce; hysteresis |
| reversal window, `reversal_window.c` | elapsed cycles, active, actuation issued | `rw_start`, `rw_step`, `rw_cancel`, `rw_set_actuation_issued` | the owner's window ends, by abort or expiry |
| security manager, `security_manager.c` | last nonce | `sec_mgr_verify` | no replay, no old or future command |
| actuators, `actuator_iface.c` | fuel command, starter inhibit | `act_apply_derate`, `act_set_starter_inhibit` | floor of 10 % |
| starter control, `starter_control.c` | inhibit, repeat timer | `starter_step`, `starter_release` | inhibits in BLOCKED only |
| alert manager, `alert_manager.c` | alerts active, horn timer, horn | `alert_mgr_start`, `_step`, `_stop` | alerts for automatic activations only |
| non-volatile memory, `nvm.c` | one snapshot with a CRC, a valid flag | write, read, invalidate | a restart resumes the state the machine was in |
| powertrain validation, `powertrain_validation.c` | previous values, jitter counters, recovery counter | `pwt_step` | a signal is good only after 50 good cycles |
| receive watchdog, `can/can_rx.c` | absence timer and count | `can_rx_watchdog_step` | channel state, supervision failure |
| event log, `event_log.c` | ring of 256 records | `evlog_write`, `evlog_get`, `evlog_get_recent` | the newest records, in order, across restarts |
| CAN frames, table and codec, `can/can_frame.c`, `can_ids.c`, `can_codec.c`, `can_rx_dev.c`, `can_tx.c` | none | validate, look up, decode, encode, the two dispatchers | fields survive the wire; frames that are not ours or not whole are refused |
| CAN adapter, `can/can_v3_adapter.c` | none; the integrator's loop keeps the inputs and the last message | message into inputs, outputs into messages | a message overwrites its own fields only; peers hear of every state and fuel command in time |
| CAN monitor, `can/can_monitor.c` | last reception per identifier | timeouts | nothing in the repository calls it |
| bridge, `ui/backend_bridge.c` | one context, last inputs and outputs | create, reset, step, snapshot, logs | what it shows is what the machine is in |
| backend, `ui/reb_backend.py`, `ui/app.py` | the bridge handle, a count of the parked cycles of its own | step, reset, power cycle, snapshot, one thread per request | what the cockpit shows; one obedience per command; a restart keeps the blocking |

**Interaction.** Everything in `reb_core` is called synchronously from
`reb_fsm_step`: watchdog, powertrain validation, the handler of the current
state, the entry action of the state it moved to, the alert step, and the
transmission timers. State handlers call panel, security manager, window,
fusion and actuators directly, pass results through local variables, and write
the memory through `do_transition` and `entry_idle`. The world outside reaches
the machine only through `reb_inputs_t`: in the vehicle the CAN adapter merges
each received message into a record of inputs that outlives the cycle; in the
simulation a request carries the inputs of all the cycles it runs. All requests
share one bridge handle and one backend object, and no lock.

**What is hard here.** In the controller there is one thread, so the hazards
are not data races but *order*: many small counters and flags, each reset in
some paths only; early returns that skip later parts of a cycle; a memory that
is written on transitions only, twice on some of them, and is read back at
power-up; a peer that repeats, delays and reorders its commands; inputs that
stay latched from earlier frames and are read together with newer ones; a vehicle
that starts to move or loses its speed signal in the very cycle a timer runs out.
In the simulation server the threads *interleave*: a request is a sequence of
calls and loads and stores, and another request may step or restart the machine
between any two. `PROJECT.json` lists these hazards at their lines.

## 2. Modules

| module | what it is |
|---|---|
| `PanelAuth`, `SensorFusion`, `ReversalWindow`, `SecurityManager`, `Actuators` | the sub-modules of the core as operators from the old context record to the new one, one per C function. They hold no variables: in the C code, too, their contexts belong to the caller. |
| `RebFsm` | the state machine. One variable per field of the context that is ever read, plus the memory (`nvm_sim_valid`, `nvm_sim_buf`). One action per branch of a state handler, including the entry action that runs in the same cycle. |
| `RebFsmProperties` | the type invariant, invariants, action properties, liveness and the refinement mapping. |
| `EngineBlocker` | the abstract specification: four modes, a fuel command, a starter, the time the vehicle has stood still. |
| `Deadlines` | `RebFsm` with history clocks beside it, and what they may reach: how long a theft, a dwell, a derating and a lockout take. |
| `MCRebFsm`, `MCDeadlines` and `RebFsm_*.cfg` | input sets and constants for TLC. |
| `PowertrainValidation`, `RxWatchdog` | `pwt_step` and `can_rx_watchdog_step`, as operators on their contexts. |
| `RebNode` | the whole of `reb_fsm_step`: watchdog, powertrain validation and `RebFsm` in one cycle, with its properties. |
| `MCRebNode` and `RebNode_*.cfg` | signal and input sets for TLC. |
| `EventLog`, `EventLog_recent.cfg` | the ring of the event log, the part of the snapshot that holds records, and the bridge's reader. |
| `RecentRecords` | what a bounded log with a bounded snapshot promises: the abstract specification of `EventLog`. |
| `CanFrames`, `CanCodec` | frames, the table of messages, and every decoder, encoder and dispatcher, byte by byte. |
| `CanAdapter` | what each message merges into the inputs, and what the outputs put into messages. |
| `CanNode` | the controller on its bus: the integrator's loop that `can_v3_adapter.h` documents, around `RebFsm`. |
| `MCCanNode` and `CanNode_*.cfg` | frames for TLC. |
| `Backend` | the requests of the server as threads over one backend object, one bridge handle and `RebFsm`. |
| `MCBackend` and `Backend_tabs.cfg` | requests for TLC. |
| `OperatorLemmas`, `RebFsmTypeProofs`, `RebFsmProofs`, `DeadlineProofs`, `RebNodeProofs`, `EventLogProofs`, `CanProofs`, `BackendProofs` | the proofs. |

`RebFsm` takes any input in any cycle. Three modules put it into the surroundings
that decide which inputs those are, and each is proved to take only steps of
`RebFsm`, so that what is proved there holds in all of them (`NodeMachineSafe`,
`CanMachineSafe`, `BackendMachineSafe`):

* `RebNode`, with the verdict on the speed signal that `pwt_step` reaches
  (`NodeImplementsFsm`);
* `CanNode`, with the inputs the frames of the past have left (`CanImplementsFsm`);
* `Backend`, with the inputs of whichever request is being served
  (`BackendImplementsFsm`).

`EventLog` stands beside them: `RebFsm` leaves records out and `EventLog` leaves
free when they are written, so between them they cover every order of records,
saves and restarts.

Operators whose comment says *mutant* are plausible bugs of the definition
below them. No definition uses them; substituting one for that definition makes
a named property fail, which shows the property says something about the code.

### How the model corresponds to the code

* **A step.** `Step` is one call of `reb_fsm_step` with any record of the
  constant `Inputs`. `keeps_or_advances` and `returns` list the branches: the
  twelve that stay in a state or go on to the next one, and the nine that go
  back to IDLE. Guards are the negations of the earlier returns, in the order of
  the code.
* **Inputs.** `reb_inputs_t` without `engine_rpm`, `ignition_state`, `brake_pedal`
  and `speed_sig_status`, which only feed `speed_is_valid()`. In `RebFsm` that
  verdict is a free Boolean input, so the machine is checked against every
  verdict validation could give; in `RebNode` it is computed from the signals of
  the cycle. `requests` are the inputs without a verdict and `sees` fills it in.
  Speeds are tenths of km/h, hundredths in `CanNode`, sensor readings per cent. A
  password is the right hash or another one.
* **Signals.** A speed or a pedal is a number or `NAN`, with the comparisons the C
  code makes of it; infinities, which fail the same checks, are left out. The
  jitter counters are `uint8_t` and wrap at `UINT8_RANGE`. `spd_frozen` and
  `engine_rpm` change nothing the machine reads: the frozen counter of the code
  never counts. `GateAssumption` (the speed and ignition jitter limits are below
  the recovery time: 6 and 5 against 50 in the code) is what makes a wrapped
  counter harmless.
* **Memory.** `snapshot` is the record `persist_state` builds. It is written by
  `do_transition`, before the entry action runs, and again by `entry_idle`.
  `return_to_idle(first, ...)` therefore has two outcomes: both writes, or, when
  `cut` holds, only the first, followed by a boot from it. `Next` has the first
  kind only, `NextWithCuts` both. `PowerCycle` is a restart between two cycles.
  In the repository the memory is a static buffer that survives
  `reb_bridge_reset(handle, false)`, which is what `PowerCycle` models there;
  the cut inside a cycle models the non-volatile memory the README of the
  program describes, of which the buffer is a stand-in. A write is atomic.
* **The ramp.** `derate_ramp` is a C `float` that falls by `0.75f * 0.01f`. The
  model counts it in `RAMP_SCALE` units to the per cent and lets `DERATE_STEP`
  be any positive number of units; the truncation to a percentage is `\div`.
  Rounding of the float is left out.
* **Counters.** `parked_timer` and `min_after_timer` are capped at the limit they
  are compared with (`saturate`): the code only ever asks whether they have
  reached it. All other counters of the core are exact.
* **Event log.** A record is its event code; time stamps, states and source are
  data. `Record` writes any record at any time, `persist_state` and `PowerCycle`
  write the ones the log's own operations add. The memory holds the snapshot's
  records and their number.
* **Frames.** A byte is a number below `BYTE`, 256 in the code; 16- and 32-bit
  fields are two and four bytes. Enumerations of the frame have a member `OTHER`
  for values outside them. A decoder or an encoder that may refuse yields the set
  of its results, one or none. Of a failure the model keeps that it is one, not
  which.
* **The bus.** `CanReceive` is `can_rx_process_frame` and
  `can_adapter_rx_to_inputs` on one frame. The documented loop does not look at the
  result of the first, so a refused frame merges the last accepted message once
  more, and so does the model. `CanCycle` is one step and the frames that are due
  after it; `Supervise` is what the integrator writes beside the adapter (the state
  of the channels, the owner's decision, the password, the timeout of the speed
  signal), which is not in the repository and left free. Two encoders
  (`REB_PREVENT_START` and `REB_GPS_REQUEST`) and `can_frame_set_data` have no
  caller, and the layout of `can_defs.h` is not the one the codec uses.
* **Server threads.** `client[c].pc` is the point a request has reached. The points
  lie between two calls into the bridge and, where the Python code reads and then
  writes a shared field (`_parked_timer_cycles`), between the load and the store.
  A call into the bridge is one action. `ctypes` releases the interpreter lock
  during a call, so two calls may also overlap; that is a data race on the whole
  context and is left out. `parked_cycles` is capped at `COUNT_LIMIT`, above
  every value the machine's own timer reaches: a stale store could push it up for
  ever. Whether validation trusts the speed of a request is free in every cycle.
* **`Inputs` in `CanNode` and `Backend`.** They call `reb_fsm_step` on inputs of
  their own and do not use `Step`, so their configurations give `Inputs = {}`. The
  proofs speak of `AnySpec` and `AnySpecWithCuts`, the machine on any member of
  `reb_inputs_t`, of which every other specification is a part
  (`InputsOnlyNarrow`).
* **Left out.** Outputs copied from the state unless `CanNode` or `Backend` shows
  them, and fields that are written but never read by the machine: `prev_state`,
  `unblock_requested`, `nvm_state_loaded`, `signal_fault_locked`, `sf.last_score`.
  The second check of a block command in `during_idle` (for SMS) sees the nonce
  and the command of the first and accepts nothing more. `starter_ok`, `hmi_code`,
  `pre_block_alert_active` and `limit_cycles` are functions of the fields kept.
* **History variables.** No action reads them to decide what the code does.
  `RebFsm`: `still` counts the cycles the vehicle has been seen to stand still,
  `acted` lists the nonces of the commands that moved the machine. `RebNode`:
  `seen` is the signals of the last cycle; `silent`, `swings`, `changes` and
  `steady_for` count silent, alternating and steady good cycles. `Deadlines`:
  `theft_for`, `blocking_for` and `locked_for` count the cycles of a stay in
  THEFT_CONFIRMED, in BLOCKING and of a lockout, `moved` those of BLOCKING in
  motion, and `resumed` says the power has come on in this stay; they count on
  their own, apart from the timers of the code, and start afresh with the power. `CanNode`: `order` is the type of the last command
  and the nonces heard with or since it; `held`, `derating` and `intruded` count
  cycles in one state, of derating and of intrusion. `Backend`: `alone` says no
  other stepping or restarting request has run beside this one, `mixed` that two
  have overlapped since the last undisturbed restart, `obeyed` counts the commands of
  a request the machine has obeyed, `before` is the state it found.

## 3. What is checked

All configurations use small timers; the code only compares counters with their
limits, so a limit of two has the cases below, at and past the limit, and a
counter that is interrupted one cycle early. Inputs are taken on both sides of
every comparison: nonces old, equal and newer (0 to 2); sensor readings around
both thresholds; stamps around the window and the clock; speeds around
`V_STOP_KMH`, around the jump and the alternation threshold and around the range.

| run | specification, bounds | what it shows |
|---|---|---|
| `paths` | `TimedSpec`, every panel button, sensor reading and owner's decision and some commands; dwell, hold and window 2, lockout 2, ramp 6 to 3 per cent | values in range; the machine implements `EngineBlocker`; the fuel command follows the ramp; alerts for automatic activations only; BLOCKED only after a full dwell; derating starts at full fuel; a theft ends within hold or window, BLOCKING of a standing vehicle within the dwell, fuel falls on schedule, a lockout keeps time |
| `cuts` | `SpecWithCuts`, a few inputs of every kind, and commands over either channel or none, unsigned, stale and early; dwell 2, other timers 1, nonces to 2 | with power lost anywhere: the nonces of commands that moved the machine increase strictly; starter inhibited exactly in BLOCKED; the memory mirrors the state; fuel at or above the floor |
| `liveness` | `RunningSpec`, a few inputs of every kind; nonces to 1 | a confirmed theft is resolved; BLOCKING of a standing vehicle ends; a lockout ends |
| `node_signals` | `NodeSpec`, each signal on both sides of its limits and alternating; jitter limits 2, counters modulo 4, recovery 3, two absence periods of two cycles | ranges; signals are suspended exactly when a fault says so; supervision fails exactly after the silence; jitter is never trusted; steady good signals are trusted again in time |
| `node_running` | `NodeRunningSpec`, commands and the panel on a moving vehicle, no power cycles | fuel is taken away only while the recovery gate is open; BLOCKING is kept on steady good signals; steady good signals are trusted in the end |
| `event_log` | `EventLog`, two events, ring of 4, snapshot of 3 | the ring is well formed and implements `RecentRecords`; the bridge shows the newest records while slot order is age order |
| `can_node` | `CanSpec`: a block command as a remote frame, which the decoders take like a data frame, an unblock command, an acknowledgement, a panel frame with the unblock's nonce, a standing and a moving speed, a frame cut short; bytes below 8; status and fuel command every 2 cycles | ranges; peers know the state and the fuel command within a period; only the last order is obeyed |
| `backend` | `BackendSpec`: two clients (symmetric), steps of one or two cycles that block, unblock or move the vehicle, resets, power cycles, polls; dwell 3 | ranges; a poll shows the machine or a restart in progress; the dwell shown is the machine's; a request is obeyed once; a blocked vehicle stays blocked over a restart |

The ring of `event_log` wraps and is filled from a snapshot below, at and past
its capacity; a longer ring adds no case, and `LogKeepsRecentRecords` proves it for
all lengths. In `can_node` nonces take two bytes, as in the code, of 8 values each
(below 64), and the two used differ in the upper byte; a wider byte adds values,
not cases. In `backend` two clients are enough for any two requests to
interleave; the dwell of 3 lets a step of two cycles end before, at and after it.
`BackendProofs` covers any number of clients and cycles.

The deadlines are exact: with any of them one cycle tighter TLC finds a
violation, in `paths` for the hold, the window, both clocks of the dwell and both
sides of the lockout, in `node_signals` for the recovery time and the one cycle more
(the first cycle after a restart of a vehicle driving faster than one jump).

Four further runs are expected to fail. Each checks one statement the
repository makes that its code does not keep:

| run | statement | what happens |
|---|---|---|
| `window_restart` | the window expires and the block proceeds (`README.md:284`) | the window is not in the snapshot: after a restart nothing runs it |
| `lockout_restart` | the lockout lasts 300 s (`README.md:329`) | a lockout that starts in IDLE is not written |
| `blocking_restart` | state survives power cycles (`README.md:33`) | validation starts from speed 0: a fast vehicle is a jump, and the restored BLOCKING is given up |
| `can_intrusion` | glass break and shock are fused to 60 and 40 per cent (`README.md:34`), with the flags of the bus mapped to full scale (`can_v3_adapter.c:134`) | a shock from the bus is a tenth of full scale: both sensors together score 0.64, below the threshold of 0.7 |

Things met on the way that the properties work around, because the code does not
do them:

* Power lost between the two writes of a return to IDLE leaves the dwell timer and
  the ramp of the state that was left in memory, and later blockings start from
  them. `BlockedAfterDwell` and `RampStartsFull` are therefore stated of `Spec`,
  where a cycle is not cut.
* A nonce that is spent without a transition is not written and is accepted again
  after a restart. `ActedNoncesIncrease` speaks of commands that moved the machine.
* A quiet cycle does not clear a jitter counter, so a counter left at its limit
  suspends a signal that is steady again. `SteadySignalsAreTrusted` assumes that
  none is.
* The horn does not oscillate: `alert_mgr_start` is called in every cycle of an
  automatic activation and restarts the half period that `alert_manager.c:5` speaks
  of.
* Once the ring has wrapped, the bridge counts records from slot 0
  (`backend_bridge.c:413`, `event_log.h:73`) and the newest ones are missing from
  what it shows. `BridgeShowsRecent` stops where slot order stops being age order.
* A refused frame merges the last message again, so a speed the integrator has
  marked as timed out becomes valid without a new speed frame.
* A poll between `reb_bridge_reset` and the neutral step after it shows IDLE with a
  free starter of a vehicle that has just been restored to BLOCKED.
  `PollsShowTheMachine` allows exactly this.
* Requests that overlap mix the backend's count of the dwell: a thread can store a
  count it loaded before another one cleared it. `ShownDwellIsTheMachines` is about
  answers nothing has disturbed, after the last undisturbed restart.
* A long step that is under way goes on with its old inputs on a machine that
  another request has just reset; `obeyed` starts afresh there, because the memory
  of the nonces is gone.

**Fairness.** `RunningSpec` is `WF_vars(Step)` and `NodeRunningSpec` is
`WF_node_vars(NodeCycle)`: the solver keeps calling `reb_fsm_step`, whatever it is
given. The configurations for liveness have `STATUS_PERIOD_CYCLES` of at least 2,
so that every cycle changes a variable (the status timer) and is a step the
fairness speaks of, as every call is in the code. Nothing is assumed of the
inputs, and no power cycle is ever owed. `RestartSpec` allows restarts; the
liveness it is used with is conditional on restarts ceasing. `CanSpec` and
`BackendSpec` state none: their properties are about what has happened by the
time so many cycles have run, or by the time an answer is sent.

**Deadlock** is checked in every run: some branch is always enabled.

## 4. What is proved

TLAPS proves for every value of the constants (`FsmAssumption` and the
assumptions of the other modules: limits and periods positive, the floor not
above full fuel, inputs, frames and requests of their types; no theorem has a
hypothesis of its own beside them):

| theorem | statement |
|---|---|
| `InputsOnlyNarrow` | `Spec`, `RunningSpec`, `RestartSpec` `=> AnySpec`; `SpecWithCuts`, `AnySpec` `=> AnySpecWithCuts` |
| `TypeCorrect` | `AnySpecWithCuts => []TypeOK` |
| `StarterSafe` | `AnySpecWithCuts => []StarterInhibitedOnlyInBlocked` |
| `MemorySafe` | `AnySpecWithCuts => []MemoryMirrorsState` |
| `FuelSafe` | `AnySpecWithCuts => []FuelNeverBelowFloor` |
| `NoReplay` | `AnySpecWithCuts => []ActedNoncesIncrease` |
| `AlertsSafe` | `AnySpecWithCuts => []AlertsOnlyForAutomatic` |
| `DwellSafe` | `AnySpec => BlockedAfterDwell` |
| `RampSafe` | `AnySpec => RampStartsFull` |
| `FuelFollows` | `AnySpec => []FuelFollowsRamp` |
| `PromiseKept` | `AnySpec => KeepsPromise` (the refinement of `EngineBlocker`) |
| `MachineCorrect` | `AnySpec => MachineIsSafe`: all of the above together |
| `TheftInTime` | `TimedSpec => []TheftEndsInTime` |
| `DwellEndsInTime` | `TimedSpec => []BlockedInTime` |
| `FuelKeepsSchedule` | `TimedSpec => []FuelOnSchedule` |
| `LockoutInTime` | `TimedSpec => []LockoutKeepsTime` |
| `NodeImplementsFsm` | `NodeSpec => AnySpec` |
| `NodeMachineSafe` | `NodeSpec => MachineIsSafe` |
| `NodeTypeCorrect` | `NodeSpec => []NodeTypeOK` |
| `BlockingTrusted` | `NodeSpec => []BlockingOnlyWhileTrusted` |
| `SupervisionExact` | `NodeSpec => []SupervisionFailsAfterSilence` |
| `JitterDistrusted` | `NodeSpec => []JitterIsNeverTrusted` |
| `SuspensionReported` | `NodeSpec => []SuspensionIsReported` |
| `TrustReturns` | `NodeSpec => []TrustedInTime` |
| `BlockingKept` | `NodeRunningSpec => BlockingKeptOnSteadySignals` |
| `RingCorrect` | `EventLog!Spec => []RingOK` |
| `LogKeepsRecentRecords` | `EventLog!Spec => KeepsRecentRecords` (the refinement) |
| `BridgeInOrder` | `EventLog!Spec => []BridgeShowsRecent` |
| `OneMessagePerFrame` | no frame carries two messages of the table |
| `OwnFramesIgnored` | a frame of `can_tx_build_frame` is accepted as no message |
| `StatusReadable`, `DerateReadable` | every frame the encoders build is valid and its bytes give back the message |
| `CanImplementsFsm` | `CanSpec => AnySpec` |
| `CanMachineSafe` | `CanSpec => MachineIsSafe` |
| `CanTypeCorrect` | `CanSpec => []CanTypeOK` |
| `LastOrderObeyed` | `CanSpec => OnlyTheLastOrderIsObeyed` |
| `StatusReaches` | `CanSpec => []StatusReachesPeers` |
| `FuelCommandReaches` | `CanSpec => []FuelCommandReachesPeers` |
| `BackendImplementsFsm` | `BackendSpec => AnySpec` |
| `BackendMachineSafe` | `BackendSpec => MachineIsSafe` |
| `BackendTypeCorrect` | `BackendSpec => []BackendTypeOK` |
| `PollsShow` | `BackendSpec => []PollsShowTheMachine` |
| `ObeyedOnce` | `BackendSpec => []ObeyedOncePerRequest` |
| `BlockedSurvives` | `BackendSpec => []BlockedSurvivesRestart` |
| `DwellIsShown` | `BackendSpec => []ShownDwellIsTheMachines` |

**Any input.** `Inputs` is what a configuration enumerates; it is contained in
`reb_inputs_t` and may be empty. The invariants hold of every step on any member of
that type, so they are proved of `AnySpec` and `AnySpecWithCuts`, and the theorems
about a configuration, the controller, the bus or the server follow by
implication. Nothing has to be assumed about `Inputs`.

**The state machine.** `TypeOK` is not inductive: a detector that has not fired
could count past its limit, an open window past its own. `CountersBelowLimits` adds
that they have not. `TypeInv` (both, with the memory) is then preserved by
every branch; one lemma per entry action and per handler. The nine returns are
treated once, through `Returning`: each calls `return_to_idle` with a snapshot
that says IDLE (`ReturningSnapshot`), and `ReturnEffect` says what follows. The
twelve other branches either leave state and memory alone or advance and write
both (`AdvanceEffect`).

`DwellSafe` needs two strengthenings. `DwellIsStandstill` (in BLOCKING the timer
counts no more than the vehicle has stood still) is broken by a restart that
restores a timer while the standstill is counted afresh, unless the timer in
memory is zero; that is `AfreshBeforeBlocking`: timer and ramp are at rest
before BLOCKING and in every snapshot that does not say BLOCKED. A cut between
the two writes of a return breaks exactly this, which is why these two theorems
are about `AnySpec` and do not hold with cuts. `NoReplay` needs
`ActedNoncesRemembered`: no nonce that moved the machine is above the last one,
neither in RAM nor in memory.

For `PromiseKept`, `FuelEffect` sorts the branches that do not return to IDLE into
three: those that hold the fuel where it is (`HoldsFuel`), the moving cycle of BLOCKING
that takes one step down the ramp (`TakesFuel`), and the one that gives it back
when the starter takes over (`ReturnsFuel`). Each maps to one action of
`EngineBlocker` or to a stutter. The abstract bound on a step of the ramp is in
per cent and the ramp in units: `DivDrop` and `RampDrop` say that a step of
`DERATE_STEP` units moves the truncated percentage by no more than the rounded-up
quotient.

**The deadlines.** A history clock and the timer of the code count the same cycles only
on some paths: a power cycle restores the timer and not the clock, a branch that
returns early steps neither, and the panel is not looked at in every cycle.
`DeadlineInv` says what is left of the relation. `TheftClock`: the hold's timer is ahead
of the clock, and the window is open and its timer ahead unless the power came on
since. `BlockingClock`: the dwell timer is ahead of one of the two clocks, the
standstill or the stay, because a restored timer may start ahead of both and a
fresh one behind the standstill. `FuelClock`: the ramp is the
schedule; after a restart both start again, because the snapshot of BLOCKING is the
one written on entry (`ResumedBlocking`). `LockoutClock`: the clock is at least what the
countdown has served, and at most twice that with an allowance for the cycles in
which the panel may not be looked at before the machine is back in IDLE (`unseen`);
every branch either looks at it or uses some of that allowance up (`Looks`,
`LooksAway`).

**The controller.** `NodeImplementsFsm` rests on `SeenIsInput`: a speed that counts as
valid has passed the range check, so what the handlers see is a `reb_inputs_t`
even beside a reading that is no number. `SupervisionExact` is
proved through `CountsMeasureSilence`: the absence count and timer are the
quotient and the remainder of the silent cycles by the period, up to the limit.
`JitterDistrusted` rests on `JitterInv`: a counter at its limit keeps the gate shut,
and one below the run of alternations has wrapped, with no more good cycles
counted by the gate than the counter has seen since; this is where
`GateAssumption` is used. `BlockingTrusted` is inductive with the types: a cycle
whose gate is closed leaves BLOCKING before it ends, and a boot opens the gate.

`BlockingKept` is about a controller that is not restarted, because a restart is
what `blocking_restart` refutes it with. `SteadyInv` says that validation compares
with the signals of the last cycle and that an open gate goes with alternation
counts below their limits; a signal that repeats itself then has no difference and
stays valid (`SteadyIsValid`), and of the ways out of BLOCKING only a command, which
extends `acted`, and the panel, which keeps the button it has seen, are left
(`BlockingGivenUpByOrder`). `TrustReturns` allows restarts. `TrustInv` says that while
the signals are steady validation compares them with themselves and that the
recovery gate has counted each of their cycles but the first, which may be a jump
from the zero of `pwt_init`, unless a count of alternations is at its limit, which a
quiet cycle does not change (`SteadySignal`).

**The event log.** `LogKeepsRecentRecords` reads the ring through `recent_slot`. `Wrap`
does the modular arithmetic once; `RingFilling` and `RingFull` say which slot is the
n-th newest record below and at capacity, and `WrittenAppends` that a write appends
to that sequence and drops the oldest when full. `RestoredIsRing` says that a
restored log is a ring again, filled from slot 0.

**The bus.** `InputsInv` says that whatever a frame holds, the adapter leaves a
`reb_inputs_t`; with it a cycle is a step of `RebFsm`. `LastOrderObeyed` needs
`OrderInv`: a flag in the inputs is that of the last command's type, and the nonce
beside it is zero, which is never obeyed, or was heard with or since that command.
`StatusReaches` needs `StatusInv`: a state that has lasted longer than the status
counter shows has been sent, because the counter passed its end while the
machine was in it. `FuelCommandReaches` has the same argument for the derate counter
(`FuelCommandInv`), and in addition that the last command is no further from the ramp
than it has fallen since (`CommandAges`). Both need to know what the bytes hold:
`SixteenBits` (a 16-bit value survives its two bytes), `EightBytes` and
`TxFrameHeader`, from which the theorems about the codec alone follow.

**The server.** `BackendInv` adds to the types that a request is at a point of its own
kind and has cycles left when it is about to run one (`wellformed`); `MachineMoves`
then lists all that can happen to the machine and to the cached outputs, and
`PollsShow` and `BackendImplementsFsm` follow. `ObeyedOnce` needs `ObeyedInv`: a request
that has been obeyed left its nonce in `acted`. As all its cycles carry the same
nonce and `acted` increases strictly (`NoReplay`, carried over by the refinement), it
cannot be obeyed again. `BlockedSurvives` uses `AloneInv` (beside a request that is
alone nothing steps or restarts the machine) and `RestartInv`, which follows a power
cycle that found the machine blocked from point to point; that the neutral step
does not unblock it is `SafeCycleKeepsBlocked`: it presses no button and carries no
command. `DwellIsShown` needs `PhaseInv` (the phase is PREALERT outside BLOCKING and
BLOCKED, in memory too, so that a first cycle in BLOCKING shows no phase of an
earlier one), `AfreshBeforeBlocking` (the dwell starts at zero, after a restart too)
and `CountInv`: while requests have not overlapped, there is one request that steps,
and what its point still owes the count (`due`) brings it to the machine's timer.

**Only model-checked.** The liveness properties `TheftIsResolved`,
`BlockingEndsAtStandstill`, `LockoutEnds` and `SteadySignalsAreTrusted`: TLAPS 1.4 does no
reasoning about fairness. What they promise beyond the fairness is proved: a
clock that goes on running reaches its bound, and `TheftEndsInTime`, `BlockedInTime`,
`LockoutKeepsTime` and `TrustedInTime` say what cannot still be the case then.

## 5. Not modelled

* **The CRC and torn writes of the memory.** `nvm.c` copies into a static buffer, so
  no write of the repository can be torn and the CRC never fails; a model of a
  torn write would be of another memory. The cut between two whole writes is
  modelled.
* **The CAN monitor** (`can_monitor.c`). Nothing in the repository calls it, and no
  document says how its timeouts reach `speed_sig_status`; `Supervise` leaves that
  free.
* **Calls into the bridge that overlap.** Two threads inside `libreb` at once are a
  data race, after which C promises nothing. Every finer interleaving the Python
  code allows is modelled.
* **Text and presentation**: the web pages, the log strings, the JSON of the server,
  numbers kept for display, and null-pointer checks.
* **Build files and tests**, which were read as documentation.
