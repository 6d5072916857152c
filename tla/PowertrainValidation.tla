------------------------ MODULE PowertrainValidation ------------------------
(***************************************************************************)
(* Validation of the powertrain signals (powertrain_validation.c), run in  *)
(* every cycle before the state handlers.  Speeds are tenths of km/h, the  *)
(* brake pedal is in per cent.  A reading may be NAN, no number, which is  *)
(* unequal to everything and makes every difference NAN; infinite readings *)
(* are left out.  spd_frozen_cnt is cleared at the start of every cycle    *)
(* and never counts, so the check for a frozen speed always passes and is  *)
(* left out.                                                               *)
(***************************************************************************)
EXTENDS Integers

CONSTANTS
    NAN,                    \* a reading that is no number
    UINT8_RANGE,            \* the jitter counters are uint8_t: 2^8
    SPD_JITTER_LIMIT,       \* 6
    IGN_JITTER_LIMIT,       \* 5
    BRK_JITTER_LIMIT,       \* 6
    PWT_RECOVERY_CYCLES     \* good cycles before the signals count as valid

ASSUME PwtAssumption ==
    /\ NAN \notin Int
    /\ UINT8_RANGE \in Nat \ {0}
    /\ SPD_JITTER_LIMIT \in 1..(UINT8_RANGE - 1)
    /\ IGN_JITTER_LIMIT \in 1..(UINT8_RANGE - 1)
    /\ BRK_JITTER_LIMIT \in 1..(UINT8_RANGE - 1)
    /\ PWT_RECOVERY_CYCLES \in Nat \ {0}

\* The gate stays closed for longer than a wrapped counter calls a signal good.
ASSUME GateAssumption ==
    /\ SPD_JITTER_LIMIT < PWT_RECOVERY_CYCLES
    /\ IGN_JITTER_LIMIT < PWT_RECOVERY_CYCLES

Reading == Int \cup {NAN}

IGN_OFF   == 0
IGN_ON    == 2
IGN_START == 3

\* The signals of one cycle, as they are in reb_inputs_t.
signals_t ==
    [ vehicle_speed    : Reading,
      ignition_state   : Nat,
      brake_pedal      : Reading,
      speed_sig_status : {"VALID", "MISSING", "TIMEOUT"} ]

pwt_ctx_t ==
    [ spd_prev       : Reading,
      spd_delta_prev : Reading,
      brk_prev       : Reading,
      brk_delta_prev : Reading,
      spd_jitter_cnt : 0..(UINT8_RANGE - 1),
      ign_prev       : Nat,
      ign_jitter_cnt : 0..(UINT8_RANGE - 1),
      brk_jitter_cnt : 0..(UINT8_RANGE - 1),
      recovery_cnt   : 0..PWT_RECOVERY_CYCLES ]

pwt_init ==
    [ spd_prev |-> 0, spd_delta_prev |-> 0, brk_prev |-> 0, brk_delta_prev |-> 0,
      spd_jitter_cnt |-> 0, ign_prev |-> IGN_OFF, ign_jitter_cnt |-> 0,
      brk_jitter_cnt |-> 0, recovery_cnt |-> PWT_RECOVERY_CYCLES ]

-----------------------------------------------------------------------------
(* Readings that may not be numbers *)

minus(a, b) == IF a = NAN \/ b = NAN THEN NAN ELSE a - b
magnitude_at_most(d, limit) == d # NAN /\ d <= limit /\ -limit <= d
magnitude_above(d, limit)   == d # NAN /\ (d > limit \/ d < -limit)
in_range(v, top) == v # NAN /\ 0 <= v /\ v <= top

\* Two swings in a row, and in opposite directions.
swings_twice(d, prev, limit) == magnitude_above(d, limit) /\ magnitude_above(prev, limit)
alternates(d, prev, limit)   == swings_twice(d, prev, limit) /\ (d > 0 <=> prev < 0)

\* The counter of a signal's alternations.  Only two swings in the same
\* direction clear it; a quiet cycle leaves it alone.
jitter_cnt(cnt, value, d, prev, limit) ==
    IF value # NAN /\ swings_twice(d, prev, limit)
    THEN IF alternates(d, prev, limit) THEN (cnt + 1) % UINT8_RANGE ELSE 0
    ELSE cnt

-----------------------------------------------------------------------------
(* pwt_step *)

spd_delta(c, s) == minus(s.vehicle_speed, c.spd_prev)
brk_delta(c, s) == minus(s.brake_pedal, c.brk_prev)

spd_jitter_cnt(c, s) ==
    jitter_cnt(c.spd_jitter_cnt, s.vehicle_speed, spd_delta(c, s), c.spd_delta_prev, 20)
brk_jitter_cnt(c, s) ==
    jitter_cnt(c.brk_jitter_cnt, s.brake_pedal, brk_delta(c, s), c.brk_delta_prev, 5)
ign_jitter_cnt(c, s) ==
    IF s.ignition_state # c.ign_prev THEN (c.ign_jitter_cnt + 1) % UINT8_RANGE ELSE 0

\* A speed that is no number is out of range, not a jump; the cycle after it is one.
spd_no_jump(c, s) ==
    s.vehicle_speed # NAN => magnitude_at_most(spd_delta(c, s), 200)

speed_valid_late(c, s) ==       \* mutant: off by one at the limit of the alternations
    /\ in_range(s.vehicle_speed, 2500)
    /\ spd_no_jump(c, s)
    /\ spd_jitter_cnt(c, s) <= SPD_JITTER_LIMIT
speed_valid(c, s) ==
    /\ in_range(s.vehicle_speed, 2500)
    /\ spd_no_jump(c, s)
    /\ spd_jitter_cnt(c, s) < SPD_JITTER_LIMIT
ign_valid(c, s) ==
    /\ s.ignition_state <= IGN_START
    /\ ign_jitter_cnt(c, s) < IGN_JITTER_LIMIT
brake_valid_unranged(c, s) ==   \* mutant: the range is reported and not acted on
    s.brake_pedal # NAN /\ brk_jitter_cnt(c, s) < BRK_JITTER_LIMIT
brake_valid(c, s) ==
    /\ in_range(s.brake_pedal, 100)
    /\ brk_jitter_cnt(c, s) < BRK_JITTER_LIMIT

raw_valid(c, s) == speed_valid(c, s) /\ ign_valid(c, s) /\ brake_valid(c, s)

recovery_cnt_short(c, s) ==     \* mutant: off by one, the gate never opens again
    IF ~raw_valid(c, s) THEN 0
    ELSE IF c.recovery_cnt + 1 < PWT_RECOVERY_CYCLES THEN c.recovery_cnt + 1
    ELSE c.recovery_cnt
recovery_cnt_wraps(c, s) ==     \* mutant: the count wraps some time after the end
    IF raw_valid(c, s) THEN (c.recovery_cnt + 1) % (PWT_RECOVERY_CYCLES + UINT8_RANGE) ELSE 0
recovery_cnt(c, s) ==
    IF ~raw_valid(c, s) THEN 0
    ELSE IF c.recovery_cnt < PWT_RECOVERY_CYCLES THEN c.recovery_cnt + 1
    ELSE c.recovery_cnt

pwt_step(c, s) ==
    [ spd_prev       |-> s.vehicle_speed,
      spd_delta_prev |-> spd_delta(c, s),
      brk_prev       |-> s.brake_pedal,
      brk_delta_prev |-> brk_delta(c, s),
      spd_jitter_cnt |-> spd_jitter_cnt(c, s),
      ign_prev       |-> s.ignition_state,
      ign_jitter_cnt |-> ign_jitter_cnt(c, s),
      brk_jitter_cnt |-> brk_jitter_cnt(c, s),
      recovery_cnt   |-> recovery_cnt(c, s) ]

powertrain_valid(c, s) == recovery_cnt(c, s) >= PWT_RECOVERY_CYCLES

\* The faults of the cycle, by name, in the order of the bits 0x0001 to 0x2000
\* (0x0004 would be the frozen speed).
fault(name, raised) == IF raised THEN {name} ELSE {}
pt_fault_code(c, s) ==
    fault("speed_not_finite", s.vehicle_speed = NAN)
    \cup fault("speed_range", s.vehicle_speed # NAN /\ ~in_range(s.vehicle_speed, 2500))
    \cup fault("speed_jump", ~spd_no_jump(c, s))
    \cup fault("speed_jitter", spd_jitter_cnt(c, s) >= SPD_JITTER_LIMIT)
    \cup fault("moving_unignited", /\ s.vehicle_speed # NAN /\ s.vehicle_speed > 50
                                   /\ s.ignition_state = IGN_OFF)
    \cup fault("ignition_range", s.ignition_state > IGN_START)
    \cup fault("ignition_jitter", ign_jitter_cnt(c, s) >= IGN_JITTER_LIMIT)
    \cup fault("ignition_skipped", /\ s.ignition_state \in IGN_ON..IGN_START
                                   /\ c.ign_prev = IGN_OFF)
    \cup fault("brake_not_finite", s.brake_pedal = NAN)
    \cup fault("brake_range", s.brake_pedal # NAN /\ ~in_range(s.brake_pedal, 100))
    \cup fault("brake_jitter", brk_jitter_cnt(c, s) >= BRK_JITTER_LIMIT)
    \cup fault("brake_impossible", /\ s.brake_pedal # NAN /\ s.brake_pedal >= 95
                                   /\ spd_delta(c, s) # NAN /\ spd_delta(c, s) > 100)
    \cup fault("recovering", raw_valid(c, s) /\ recovery_cnt(c, s) < PWT_RECOVERY_CYCLES)

fault_names == { "speed_not_finite", "speed_range", "speed_jump", "speed_jitter",
                 "moving_unignited", "ignition_range", "ignition_jitter", "ignition_skipped",
                 "brake_not_finite", "brake_range", "brake_jitter", "brake_impossible",
                 "recovering" }

\* These three are warnings: they suspend nothing.
warnings == {"moving_unignited", "ignition_skipped", "brake_impossible"}
=============================================================================
