----------------------------- MODULE Deadlines -----------------------------
(***************************************************************************)
(* How long the state machine takes.  The liveness properties say that     *)
(* something happens in the end; the code promises more, because each of   *)
(* its timers counts cycles of reb_fsm_step.  History clocks count those   *)
(* cycles apart from the timers, so that what the timers are worth, with   *)
(* the branches that skip them and the power cycles that restore them, is  *)
(* an invariant, and one that is proved for every value of the constants.  *)
(*                                                                         *)
(* A clock starts again when its state is entered and when the power comes *)
(* on; each stops at a limit beyond the bound it is compared with.         *)
(***************************************************************************)
EXTENDS RebFsmProperties

VARIABLES
    theft_for,      \* cycles begun and ended in THEFT_CONFIRMED
    resumed,        \* the power came on in this stay in THEFT_CONFIRMED
    blocking_for,   \* cycles begun and ended in BLOCKING
    moved,          \* those of them that saw the vehicle in motion
    locked_for      \* cycles of the lockout, those before a power cycle as restored

clocks == <<theft_for, resumed, blocking_for, moved, locked_for>>
timed_vars == <<vars, clocks>>

\* Where the clocks stop.
theft_limit  == T_MIN_AFTER_CYCLES + T_REVERSAL_CYCLES
ramp_cycles  == (RAMP_INIT - RAMP_FLOOR) \div DERATE_STEP + 1   \* the floor is reached
lockout_limit == 2 * LOCKOUT_CYCLES + 3

\* A clock with one more cycle, if what it times went on through the cycle.
ticked(clock, limit, goes_on) == IF goes_on THEN saturate(clock + 1, limit) ELSE 0

stays_in(st) == state = st /\ state' = st

\* The part of a lockout that its countdown says has passed.
served(pnl) == LOCKOUT_CYCLES - pnl.lockout_timer

TimedInit ==
    /\ Init
    /\ theft_for = 0
    /\ resumed = FALSE
    /\ blocking_for = 0
    /\ moved = 0
    /\ locked_for = 0

\* The clocks in a cycle on the input in.
clocks_tick(in) ==
    /\ theft_for' = ticked(theft_for, theft_limit, stays_in("THEFT_CONFIRMED"))
    /\ resumed' = (resumed /\ stays_in("THEFT_CONFIRMED"))
    /\ blocking_for' = ticked(blocking_for, T_PARKED_CYCLES, stays_in("BLOCKING"))
    /\ moved' = IF stays_in("BLOCKING") /\ ~in_motion(in.vehicle_speed) THEN moved
                ELSE ticked(moved, ramp_cycles, stays_in("BLOCKING"))
    /\ locked_for' = ticked(locked_for, lockout_limit,
                            panel.lockout_active /\ panel'.lockout_active)

\* The clocks when the power comes on.
clocks_start ==
    /\ theft_for' = 0
    /\ resumed' = (state' = "THEFT_CONFIRMED")
    /\ blocking_for' = 0
    /\ moved' = 0
    /\ locked_for' = IF panel'.lockout_active THEN served(panel') ELSE 0

TimedCycle        == \E in \in Inputs : reb_fsm_step(in) /\ clocks_tick(in)
TimedPowerCycle   == PowerCycle /\ clocks_start
TimedFactoryReset == FactoryReset /\ clocks_start

TimedNext == TimedCycle \/ TimedPowerCycle \/ TimedFactoryReset

TimedSpec == TimedInit /\ [][TimedNext]_timed_vars

-----------------------------------------------------------------------------
(* The deadlines *)

\* A theft is called off or acted on in time: within the hold when it was
\* confirmed at the panel or by a command, within the owner's window when the
\* sensors found it, whatever arrives meanwhile.  Only the window is lost by a
\* power cycle (during_theft_confirmed, rw_step and the restore of
\* min_after_timer): a resumed hold still ends.
TheftEndsInTime ==
    state = "THEFT_CONFIRMED" =>
        /\ source # "AUTO" => theft_for < T_MIN_AFTER_CYCLES
        /\ source = "AUTO" /\ ~resumed => theft_for < T_REVERSAL_CYCLES

\* A vehicle that has stood still for the whole dwell since BLOCKING was
\* entered, or since the power came on in it, is in BLOCKING no longer: its
\* starter is inhibited or it was released (during_blocking).
BlockedInTime ==
    state = "BLOCKING" => still < T_PARKED_CYCLES \/ blocking_for < T_PARKED_CYCLES

\* Fuel is taken away on schedule: in BLOCKING the command is full fuel less one
\* step for every cycle in motion, down to the floor, however the vehicle stops
\* and moves in between; a power cycle starts the schedule again
\* (calc_derate_ramp and act_apply_derate in during_blocking).
on_schedule(n) ==
    LET due == RAMP_INIT - n * DERATE_STEP
    IN  IF due < RAMP_FLOOR THEN RAMP_FLOOR ELSE due

FuelOnSchedule ==
    state = "BLOCKING" => act.derate_pct = on_schedule(moved) \div RAMP_SCALE

\* The countdown of a lockout never outruns the clock, so that a lockout is not
\* cut short by any path through the states, and falls behind it by half at
\* most: the handlers that do not look at the panel are never more than every
\* other cycle (panel_auth_step in the four handlers).
LockoutKeepsTime ==
    panel.lockout_active => locked_for \in served(panel)..(2 * served(panel) + 2)
=============================================================================
