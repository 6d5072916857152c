-------------------------- MODULE SecurityManager --------------------------
(***************************************************************************)
(* The anti-replay check of remote commands (security_manager.c).  The     *)
(* signature arrives as a verdict (cmd_sig_ok): the code computes no MAC.  *)
(* Which of the three reasons refused a command only reaches the log.      *)
(***************************************************************************)
EXTENDS Integers

CONSTANTS
    MAX_NONCE,          \* the largest cmd_nonce (a uint16_t)
    NONCE_WINDOW_MS     \* how old a command may be

ASSUME SecurityAssumption == MAX_NONCE \in Nat /\ NONCE_WINDOW_MS \in Nat

sec_mgr_verify_replay(last_nonce, in) ==    \* mutant: < for <= in the replay test
    /\ in.cmd_sig_ok
    /\ in.cmd_nonce >= last_nonce
    /\ in.sim_time_ms >= in.cmd_timestamp_ms
    /\ in.sim_time_ms - in.cmd_timestamp_ms <= NONCE_WINDOW_MS

\* sec_mgr_verify returns true, and records the nonce, exactly when this holds.
\* A timestamp ahead of the clock is treated as too old.
sec_mgr_verify(last_nonce, in) ==
    /\ in.cmd_sig_ok
    /\ in.cmd_nonce > last_nonce
    /\ in.sim_time_ms >= in.cmd_timestamp_ms
    /\ in.sim_time_ms - in.cmd_timestamp_ms <= NONCE_WINDOW_MS

\* ctx->last_nonce after the call.
nonce_after(last_nonce, in) ==
    IF sec_mgr_verify(last_nonce, in) THEN in.cmd_nonce ELSE last_nonce
=============================================================================
