--------------------------- MODULE ReversalWindow ---------------------------
(***************************************************************************)
(* The owner's cancellation window of an automatic activation              *)
(* (reversal_window.c).  limit_cycles is T_REVERSAL_CYCLES whenever the    *)
(* window is active and pre_block_alert_active always equals active, so    *)
(* neither is a field here.                                                *)
(***************************************************************************)
EXTENDS Integers

CONSTANT T_REVERSAL_CYCLES

ASSUME WindowAssumption == T_REVERSAL_CYCLES \in Nat \ {0}

rw_ctx_t ==
    [ timer_cycles              : 0..T_REVERSAL_CYCLES,
      active                    : BOOLEAN,
      blocking_actuation_issued : BOOLEAN ]

rw_init ==
    [ timer_cycles |-> 0, active |-> FALSE, blocking_actuation_issued |-> FALSE ]

rw_start_idle == rw_init    \* mutant: the window is reset but never opened
rw_start == [rw_init EXCEPT !.active = TRUE]

rw_cancel(ctx) == [ctx EXCEPT !.active = FALSE, !.timer_cycles = 0]

rw_set_actuation_issued(ctx) == [ctx EXCEPT !.blocking_actuation_issued = TRUE]

rw_aborts(ctx, password_valid) ==
    /\ ctx.active
    /\ password_valid
    /\ ~ctx.blocking_actuation_issued

rw_expires_late(ctx, password_valid) ==     \* mutant: > for >= at the limit
    /\ ctx.active
    /\ ~rw_aborts(ctx, password_valid)
    /\ ctx.timer_cycles + 1 > T_REVERSAL_CYCLES

rw_expires(ctx, password_valid) ==
    /\ ctx.active
    /\ ~rw_aborts(ctx, password_valid)
    /\ ctx.timer_cycles + 1 >= T_REVERSAL_CYCLES

\* rw_step's context; its result is RW_ABORT when rw_aborts, RW_EXPIRE when
\* rw_expires and RW_RUNNING otherwise, in particular when no window is active.
rw_step(ctx, password_valid) ==
    IF ctx.active
    THEN [ctx EXCEPT !.timer_cycles = @ + 1,
                     !.active = /\ ~rw_aborts(ctx, password_valid)
                                /\ ~rw_expires(ctx, password_valid)]
    ELSE ctx

\* A window that is open has not reached its limit.
rw_counting(ctx) == ctx.active => ctx.timer_cycles < T_REVERSAL_CYCLES
=============================================================================
