---------------------------- MODULE SensorFusion ----------------------------
(***************************************************************************)
(* The theft detector (sensor_fusion.c): a weighted score of glass-break   *)
(* and accelerometer, debounced on the way up, with hysteresis on the way  *)
(* down.  The C floats are integers here: inputs and weights in percent of *)
(* full scale, the score and its two thresholds in percent of a percent,   *)
(* so 0.6f * 1.0f is 60 * 100 and SF_THRESH = 0.7f is 7000.  The SF_ prefix of *)
(* the C names is FUSION_ here: SF_ is TLA+'s strong fairness.             *)
(***************************************************************************)
EXTENDS Integers

CONSTANTS
    FUSION_W_GLASS, FUSION_W_ACCEL,             \* weights, percent
    FUSION_THRESH, FUSION_THRESH_HYST_LOW,      \* thresholds on the score
    FUSION_DEBOUNCE_CYCLES                  \* cycles above FUSION_THRESH to detect

ASSUME FusionAssumption ==
    /\ FUSION_DEBOUNCE_CYCLES \in Nat \ {0}
    /\ {FUSION_W_GLASS, FUSION_W_ACCEL, FUSION_THRESH, FUSION_THRESH_HYST_LOW} \subseteq Nat

FULL_SCALE == 100

sf_ctx_t == [ debounce_cnt : 0..FUSION_DEBOUNCE_CYCLES, active : BOOLEAN ]

sf_init == [ debounce_cnt |-> 0, active |-> FALSE ]

clampf(v, lo, hi) == IF v < lo THEN lo ELSE IF v > hi THEN hi ELSE v

\* accel_peak is given in percent of ACCEL_MAX, glass_break in percent.
theft_score(in) ==
    clampf(FUSION_W_GLASS * clampf(in.glass_break_flag, 0, FULL_SCALE)
             + FUSION_W_ACCEL * clampf(in.accel_peak, 0, FULL_SCALE),
           0, FULL_SCALE * FULL_SCALE)

\* The detector's context after the cycle; theft_detected is its field active.
sf_step(ctx, in) ==
    LET score == theft_score(in)
    IN  CASE ~ctx.active /\ score >= FUSION_THRESH ->
                 [ debounce_cnt |-> ctx.debounce_cnt + 1,
                   active       |-> ctx.debounce_cnt + 1 >= FUSION_DEBOUNCE_CYCLES ]
          [] ~ctx.active /\ score < FUSION_THRESH -> sf_init
          [] ctx.active /\ score < FUSION_THRESH_HYST_LOW -> sf_init
          [] OTHER -> ctx

\* A detector that has not fired is still counting.
sf_counting(ctx) == ~ctx.active => ctx.debounce_cnt < FUSION_DEBOUNCE_CYCLES
=============================================================================
