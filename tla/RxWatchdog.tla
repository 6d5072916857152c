----------------------------- MODULE RxWatchdog -----------------------------
(***************************************************************************)
(* Supervision of the two reception channels (can_rx.c).  The timer counts *)
(* cycles of REB_TS_MS instead of milliseconds; absence_count is an        *)
(* int32_t that grows by one per timeout for as long as the silence lasts  *)
(* and is capped here at MAX_RETRIES, the value it is compared with.       *)
(***************************************************************************)
EXTENDS Naturals

CONSTANTS
    ACK_TIMEOUT_CYCLES,     \* cycles in one absence period
    MAX_RETRIES             \* absence periods before supervision fails

ASSUME RxWatchdogAssumption ==
    /\ ACK_TIMEOUT_CYCLES \in Nat \ {0}
    /\ MAX_RETRIES \in Nat \ {0}

can_rx_watchdog_ctx_t ==
    [ absence_count : 0..MAX_RETRIES,
      timer_count   : 0..(ACK_TIMEOUT_CYCLES - 1) ]

can_rx_watchdog_init == [absence_count |-> 0, timer_count |-> 0]

received_over_ip(in) == in.ip_rx_ok     \* mutant: SMS does not count
received(in)         == in.ip_rx_ok \/ in.sms_rx_ok

period_ends_late(w) == w.timer_count >= ACK_TIMEOUT_CYCLES      \* mutant: off by one
period_ends(w)      == w.timer_count + 1 >= ACK_TIMEOUT_CYCLES

\* A reception over either channel, IP first, starts both counts again.
can_rx_watchdog_step(w, in) ==
    IF received(in) THEN can_rx_watchdog_init
    ELSE IF ~period_ends(w) THEN [w EXCEPT !.timer_count = @ + 1]
    ELSE [ absence_count |-> IF w.absence_count < MAX_RETRIES THEN w.absence_count + 1
                             ELSE MAX_RETRIES,
           timer_count   |-> 0 ]

\* The verdict on the counts a step has left.
rx_fail(w) == w.absence_count >= MAX_RETRIES
=============================================================================
