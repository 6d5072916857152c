------------------------------- MODULE Backend -------------------------------
(***************************************************************************)
(* The simulation server: the threads of ThreadingHTTPServer (app.py), one *)
(* per request, share one RebLib (reb_backend.py) and through it one       *)
(* handle of the bridge (backend_bridge.c), without a lock.  A request is  *)
(* a sequence of calls into the bridge with Python between them, and       *)
(* another thread may run at every point in between.                       *)
(*                                                                         *)
(* Calls into the bridge are atomic here.  ctypes gives up the interpreter *)
(* lock for the length of a call, so two calls may really overlap; that is *)
(* a data race on the whole context, and what follows it is left out.      *)
(*                                                                         *)
(* Kept of an answer: the outputs of the machine and the dwell the backend *)
(* counts itself.  Left out: logs, anti-replay verdict, last_inputs and    *)
(* the other numbers read for display, and the neutral step of RebLib's    *)
(* constructor, which only counts one cycle of the status period.  The     *)
(* self test of app.py is a sequence of these requests.                    *)
(***************************************************************************)
EXTENDS RebFsm

CONSTANTS
    Clients,        \* requests that can be served at the same time
    Payloads,       \* the inputs a step request may carry
    MaxCycles       \* the cycles it may ask for, clamped to 15000

ASSUME BackendAssumption ==
    /\ Payloads \subseteq reb_inputs_t
    /\ MaxCycles \in Nat \ {0}
    /\ MAX_NONCE >= 1

VARIABLES
    last_out,       \* reb_bridge_t
    parked_cycles,  \* RebLib._parked_timer_cycles
    client,         \* what each thread is doing
    \* history, read by no action:
    alone,          \* no other request that steps or restarts has run beside this one
    mixed,          \* two such requests have overlapped since the last undisturbed restart
    obeyed,         \* commands of this request the machine has obeyed
    before          \* the state of the machine when the request arrived

history      == <<alone, mixed, obeyed, before>>
backend_vars == <<vars, last_out, parked_cycles, client, history>>

\* The outputs of a cycle that started in block phase old: the phase is that of
\* the start, unless BLOCKING has just computed it or the machine is in IDLE.
outputs(old) ==
    [ current_state          |-> state',
      block_phase            |-> IF state' = "IDLE" THEN "PREALERT"
                                 ELSE IF state = "BLOCKING" THEN block_phase' ELSE old,
      starter_inhibit_active |-> act'.starter_inhibit_active ]

\* memset of last_out.
no_outputs ==
    [current_state |-> "IDLE", block_phase |-> "PREALERT", starter_inhibit_active |-> FALSE]

\* The neutral inputs of reset and power_cycle.
safe ==
    [ vehicle_speed |-> 0, speed_is_valid |-> TRUE,
      accel_peak |-> 0, glass_break_flag |-> 0,
      ip_rx_ok |-> TRUE, sms_rx_ok |-> TRUE,
      auth_blocked_remote |-> FALSE, auth_block_automatic |-> "PENDING",
      remote_unblock_remote |-> FALSE,
      cmd_nonce |-> 1, cmd_timestamp_ms |-> 0, cmd_sig_ok |-> TRUE, tcu_ack |-> TRUE,
      cancel_request |-> FALSE, auth_manual_out |-> FALSE,
      password_attempt |-> PANEL_PASSWORD_HASH, sim_time_ms |-> 0 ]

kinds == {"step", "power_cycle", "reset", "snapshot"}
points == {"idle", "boot", "clear", "cycle", "count", "store", "poll", "answer"}

\* pc: the point its thread has reached; cycles to run, and done; out: its own
\* BridgeOutputs; loaded: what it has read of parked_cycles.
request(kind, pc, payload, cycles) ==
    [ kind |-> kind, pc |-> pc, payload |-> payload, cycles |-> cycles, done |-> 0,
      out |-> no_outputs, loaded |-> 0 ]

no_request == request("snapshot", "idle", safe, 0)

\* The most parked_cycles can be told apart; a stale store can push it up without end.
COUNT_LIMIT == T_PARKED_CYCLES + 1

BackendInit ==
    /\ Init
    /\ last_out = no_outputs
    /\ parked_cycles = 0
    /\ client = [c \in Clients |-> no_request]
    /\ alone = [c \in Clients |-> TRUE]
    /\ mixed = FALSE
    /\ obeyed = [c \in Clients |-> 0]
    /\ before = [c \in Clients |-> "IDLE"]

-----------------------------------------------------------------------------
(* Requests arrive *)

is_at(c, pc) == client[c].pc = pc
go(c, pc)    == client' = [client EXCEPT ![c].pc = pc]

mutating(c) == ~is_at(c, "idle") /\ client[c].kind # "snapshot"
disturbed(c) == \E d \in Clients \ {c} : mutating(d)

arrive(c, req) ==
    LET moves == req.kind # "snapshot"
    IN  /\ is_at(c, "idle")
        /\ client' = [client EXCEPT ![c] = req]
        /\ alone' = [d \in Clients |-> IF d = c THEN ~disturbed(c) ELSE alone[d] /\ ~moves]
        /\ mixed' = IF moves /\ disturbed(c) THEN TRUE
                    ELSE mixed /\ ~(req.kind \in {"power_cycle", "reset"} /\ ~disturbed(c))
        /\ obeyed' = [obeyed EXCEPT ![c] = 0]
        /\ before' = [before EXCEPT ![c] = state]
        /\ UNCHANGED <<vars, last_out, parked_cycles>>

\* POST /api/step, /api/power_cycle or /api/reset; GET /api/snapshot.
PostStep(c) == \E payload \in Payloads, cycles \in 1..MaxCycles :
                   arrive(c, request("step", "cycle", payload, cycles))
PostRestart(c) == \E kind \in {"power_cycle", "reset"} :
                      arrive(c, request(kind, "boot", safe, 1))
GetSnapshot(c) == arrive(c, request("snapshot", "poll", safe, 0))

-----------------------------------------------------------------------------
(* RebLib.reset and RebLib.power_cycle *)

\* reb_bridge_reset; a command the memory has forgotten may be obeyed again.
Boot(c) ==
    /\ is_at(c, "boot")
    /\ IF client[c].kind = "reset" THEN FactoryReset ELSE PowerCycle
    /\ last_out' = no_outputs
    /\ go(c, "clear")
    /\ obeyed' = IF client[c].kind = "reset" THEN [d \in Clients |-> 0] ELSE obeyed
    /\ UNCHANGED <<parked_cycles, alone, mixed, before>>

count_kept == parked_cycles    \* mutant: a restart keeps the count
count_at_start == 0
ClearCount(c) ==
    /\ is_at(c, "clear")
    /\ parked_cycles' = count_at_start
    /\ go(c, "cycle")
    /\ UNCHANGED <<vars, last_out, history>>

-----------------------------------------------------------------------------
(* RebLib.step *)

\* The inputs of a cycle: the clock advances from one to the next, the stamp of
\* the command does not.  Whether validation trusts the speed is free.
cycle_inputs(req, trusts) ==
    [req.payload EXCEPT !.speed_is_valid = @ /\ trusts, !.sim_time_ms = @ + req.done]

\* The last_out that reb_bridge_step leaves.
cached_outputs_kept == last_out     \* mutant: the bridge does not keep the outputs
cached_outputs == outputs(block_phase)

\* reb_bridge_step.
Cycle(c) ==
    /\ is_at(c, "cycle")
    /\ \E trusts \in BOOLEAN : reb_fsm_step(cycle_inputs(client[c], trusts))
    /\ last_out' = cached_outputs
    /\ client' = [client EXCEPT ![c].pc   = "count",
                                ![c].out  = outputs(block_phase),
                                ![c].done = @ + 1]
    /\ obeyed' = [obeyed EXCEPT ![c] = saturate(@ + Len(acted') - Len(acted), 2)]
    /\ UNCHANGED <<parked_cycles, alone, mixed, before>>

after_cycle_late(req) ==    \* mutant: one cycle too many
    IF req.done <= req.cycles THEN "cycle" ELSE "answer"

\* Where a request goes when its cycle is counted: to its next cycle, to its
\* answer, or, after a restart, to the snapshot app.py takes of it.
after_cycle(req) ==
    CASE req.done < req.cycles -> "cycle"
      [] req.done >= req.cycles /\ req.kind = "step" -> "answer"
      [] req.done >= req.cycles /\ req.kind # "step" -> "poll"

shows(c, st, phases) ==
    client[c].out.current_state = st /\ client[c].out.block_phase \in phases

\* A parked cycle adds one to the count, in a load and a store; a moving one and
\* every cycle outside BLOCKING and BLOCKED clear it.
CountParked(c) ==
    /\ is_at(c, "count")
    /\ shows(c, "BLOCKING", {"PARKED"})
    /\ client' = [client EXCEPT ![c].pc = "store", ![c].loaded = parked_cycles]
    /\ UNCHANGED <<vars, last_out, parked_cycles, history>>

StoreCount(c) ==
    /\ is_at(c, "store")
    /\ parked_cycles' = saturate(client[c].loaded + 1, COUNT_LIMIT)
    /\ client' = [client EXCEPT ![c].pc = after_cycle(client[c]), ![c].loaded = 0]
    /\ UNCHANGED <<vars, last_out, history>>

CountOther(c) ==
    /\ is_at(c, "count")
    /\ ~shows(c, "BLOCKING", {"PARKED"})
    /\ parked_cycles' =
           IF \/ shows(c, "BLOCKING", {"DERATING"})
              \/ client[c].out.current_state \in {"IDLE", "THEFT_CONFIRMED"}
           THEN 0 ELSE parked_cycles
    /\ go(c, after_cycle(client[c]))
    /\ UNCHANGED <<vars, last_out, history>>

-----------------------------------------------------------------------------
(* RebLib.snapshot *)

\* reb_bridge_snapshot.
Poll(c) ==
    /\ is_at(c, "poll")
    /\ client' = [client EXCEPT ![c].pc = "answer", ![c].out = last_out]
    /\ UNCHANGED <<vars, last_out, parked_cycles, history>>

\* The answer is built from out and parked_cycles, and sent.
Answer(c) ==
    /\ is_at(c, "answer")
    /\ client' = [client EXCEPT ![c] = no_request]
    /\ alone' = [alone EXCEPT ![c] = TRUE]
    /\ obeyed' = [obeyed EXCEPT ![c] = 0]
    /\ before' = [before EXCEPT ![c] = "IDLE"]
    /\ UNCHANGED <<vars, last_out, parked_cycles, mixed>>

serve(c) ==
    \/ PostStep(c) \/ PostRestart(c) \/ GetSnapshot(c)
    \/ Boot(c) \/ ClearCount(c)
    \/ Cycle(c) \/ CountParked(c) \/ StoreCount(c) \/ CountOther(c)
    \/ Poll(c) \/ Answer(c)

BackendNext == \E c \in Clients : serve(c)

BackendSpec == BackendInit /\ [][BackendNext]_backend_vars

-----------------------------------------------------------------------------
(* Properties *)

outputs_t ==
    [ current_state          : reb_state_t,
      block_phase            : reb_block_phase_t,
      starter_inhibit_active : BOOLEAN ]

\* The bridge, the count and the threads' own variables are what the code
\* declares, and a thread has run no more cycles than its request asked for.
BackendTypeOK ==
    /\ last_out \in outputs_t
    /\ parked_cycles \in 0..COUNT_LIMIT
    /\ \A c \in Clients :
           /\ client[c].kind \in kinds /\ client[c].pc \in points
           /\ client[c].out \in outputs_t
           /\ client[c].loaded \in 0..COUNT_LIMIT
           /\ client[c].done \in 0..client[c].cycles

\* Between reb_bridge_reset and the neutral step of the same or another request.
restarting == \E c \in Clients : client[c].kind \in {"power_cycle", "reset"}
                                    /\ client[c].pc \in {"clear", "cycle"}

\* What a poll reads is what the machine is in, except inside a restart, when it
\* reads IDLE whatever the restart has restored: the cockpit may miss a restraint
\* for that moment, and is never shown one that is not there.
PollsShowTheMachine ==
    \/ /\ last_out.current_state = state
       /\ last_out.starter_inhibit_active = act.starter_inhibit_active
    \/ restarting /\ last_out = no_outputs

\* The dwell the backend counts from the outputs is the dwell the machine counts
\* from the speed, in every answer no other stepping request has run beside:
\* through motion, faults, power cycles, and whatever overlapped before the last
\* undisturbed restart.
ShownDwellIsTheMachines ==
    \A c \in Clients :
        is_at(c, "answer") /\ alone[c] /\ ~mixed /\ client[c].out.current_state = "BLOCKING"
            => parked_cycles = parked_timer

\* A step request carries its command through all its cycles, and other requests
\* step and restart the machine between them: it is obeyed once at most, until
\* the memory is cleared.
ObeyedOncePerRequest == \A c \in Clients : obeyed[c] <= 1

\* A power cycle of a blocked vehicle that nothing runs beside is answered with
\* BLOCKED and the starter inhibited, which the neutral step must not undo.
BlockedSurvivesRestart ==
    \A c \in Clients :
        is_at(c, "answer") /\ client[c].kind = "power_cycle" /\ alone[c] /\ before[c] = "BLOCKED"
            => /\ client[c].out.current_state = "BLOCKED"
               /\ client[c].out.starter_inhibit_active
=============================================================================
