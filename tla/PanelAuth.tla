----------------------------- MODULE PanelAuth -----------------------------
(***************************************************************************)
(* The physical panel (panel_auth.c): edge-triggered password entry with a *)
(* lockout after MAX_AUTH_ATTEMPTS consecutive failures.  The C functions  *)
(* update a context through a pointer; here they are operators from the    *)
(* old context record to the new one.                                      *)
(***************************************************************************)
EXTENDS Integers

CONSTANTS
    MAX_AUTH_ATTEMPTS,      \* wrong attempts before the lockout
    LOCKOUT_CYCLES,         \* length of the lockout, in solver cycles
    CYCLES_PER_SECOND,      \* sec_to_cycles_u32(1)
    PANEL_PASSWORD_HASH     \* the hash of the right password

ASSUME PanelAssumption ==
    /\ MAX_AUTH_ATTEMPTS \in Nat \ {0}
    /\ LOCKOUT_CYCLES \in Nat \ {0}
    /\ CYCLES_PER_SECOND \in Nat \ {0}

panel_auth_ctx_t ==
    [ wrong_cnt       : 0..MAX_AUTH_ATTEMPTS,
      lockout_active  : BOOLEAN,
      lockout_timer   : 0..LOCKOUT_CYCLES,
      prev_auth_pulse : BOOLEAN,
      prev_cancel_req : BOOLEAN,
      auth_ok         : BOOLEAN ]

panel_auth_init ==
    [ wrong_cnt       |-> 0,
      lockout_active  |-> FALSE,
      lockout_timer   |-> 0,
      prev_auth_pulse |-> FALSE,
      prev_cancel_req |-> FALSE,
      auth_ok         |-> FALSE ]

\* A password is looked at on a rising edge of either button, and never while
\* the panel is locked out.
panel_attempt(ctx, in) ==
    /\ ~ctx.lockout_active
    /\ \/ in.auth_manual_out /\ ~ctx.prev_auth_pulse
       \/ in.cancel_request /\ ~ctx.prev_cancel_req

\* *auth_ok_out of the cycle.
panel_auth_ok(ctx, in) ==
    /\ panel_attempt(ctx, in)
    /\ in.password_attempt = PANEL_PASSWORD_HASH

panel_auth_fails(ctx, in) ==
    /\ panel_attempt(ctx, in)
    /\ in.password_attempt # PANEL_PASSWORD_HASH

lockout_tick_stuck(ctx) ==      \* mutant: the lockout is not lifted
    IF ctx.lockout_timer > 0 THEN [ctx EXCEPT !.lockout_timer = @ - 1]
    ELSE [ctx EXCEPT !.wrong_cnt = 0]

lockout_tick_fast(ctx) ==       \* mutant: counts twice in a cycle
    IF ctx.lockout_timer > 1 THEN [ctx EXCEPT !.lockout_timer = @ - 2]
    ELSE [ctx EXCEPT !.lockout_active = FALSE, !.wrong_cnt = 0]

\* One cycle of a lockout: the countdown runs to zero first and the lockout ends
\* one cycle later.
lockout_tick(ctx) ==
    IF ctx.lockout_timer > 0 THEN [ctx EXCEPT !.lockout_timer = @ - 1]
    ELSE [ctx EXCEPT !.lockout_active = FALSE, !.wrong_cnt = 0]

\* The context after the cycle.  ctx.auth_ok is only ever rewritten by the next
\* attempt.
panel_auth_step(ctx, in) ==
    LET seen == [ctx EXCEPT !.prev_auth_pulse = in.auth_manual_out,
                            !.prev_cancel_req = in.cancel_request]
    IN  CASE ctx.lockout_active -> lockout_tick(seen)
          [] panel_auth_ok(ctx, in) ->
                 [seen EXCEPT !.wrong_cnt = 0, !.auth_ok = TRUE]
          [] panel_auth_fails(ctx, in) /\ ctx.wrong_cnt + 1 < MAX_AUTH_ATTEMPTS ->
                 [seen EXCEPT !.wrong_cnt = @ + 1, !.auth_ok = FALSE]
          [] panel_auth_fails(ctx, in) /\ ctx.wrong_cnt + 1 >= MAX_AUTH_ATTEMPTS ->
                 [seen EXCEPT !.wrong_cnt      = MAX_AUTH_ATTEMPTS,
                              !.lockout_active = TRUE,
                              !.lockout_timer  = LOCKOUT_CYCLES,
                              !.auth_ok        = FALSE]
          [] OTHER -> seen

\* What persist_state keeps of the panel: whole seconds of the countdown.
lockout_remaining_s(ctx) == ctx.lockout_timer \div CYCLES_PER_SECOND

\* The panel reb_fsm_init rebuilds from a snapshot.
panel_restore(wrong_cnt, lockout_active, remaining_s) ==
    [panel_auth_init EXCEPT !.wrong_cnt      = wrong_cnt,
                            !.lockout_active = lockout_active,
                            !.lockout_timer  = remaining_s * CYCLES_PER_SECOND]
=============================================================================
