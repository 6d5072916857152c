------------------------------ MODULE MCBackend ------------------------------
(***************************************************************************)
(* Requests for model checking Backend: a remote block, one that unblocks, *)
(* and a vehicle that moves.                                               *)
(***************************************************************************)
EXTENDS Backend, TLC

nothing == [safe EXCEPT !.password_attempt = "WRONG", !.tcu_ack = FALSE]

Requests ==
    { [nothing EXCEPT !.auth_blocked_remote = TRUE],
      [nothing EXCEPT !.remote_unblock_remote = TRUE, !.cmd_nonce = 2, !.tcu_ack = TRUE],
      [nothing EXCEPT !.vehicle_speed = V_STOP + 1] }

Tabs == Permutations(Clients)
=============================================================================
