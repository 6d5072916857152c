---------------------------- MODULE BackendProofs ----------------------------
(***************************************************************************)
(* Proofs about the threads of the simulation server (Backend), for any    *)
(* number of requests at once, every payload and every length of a step.   *)
(***************************************************************************)
EXTENDS Backend, RebFsmProofs

USE BackendAssumption

-----------------------------------------------------------------------------
(* Requests *)

restarts == {"power_cycle", "reset"}

request_t ==
    [ kind : kinds, pc : points, payload : reb_inputs_t, cycles : Nat, done : Nat,
      out : outputs_t, loaded : 0..COUNT_LIMIT ]

\* A request is at a point of its own kind, and runs no more cycles than asked.
wellformed(r) ==
    /\ r.done <= r.cycles
    /\ r.pc \in {"boot", "clear", "cycle"} => r.done < r.cycles
    /\ r.pc \in {"boot", "clear"} => r.kind \in restarts
    /\ r.pc \in {"cycle", "count", "store"} => r.kind # "snapshot"
    /\ r.kind \in restarts => r.payload = safe

ready_t == {r \in request_t : wellformed(r)}

LEMMA CountLimit == COUNT_LIMIT \in Nat /\ 0 \in 0..COUNT_LIMIT
  BY FsmAssumption DEF COUNT_LIMIT

LEMMA SafeType == safe \in reb_inputs_t
<1>1. 1 \in 0..MAX_NONCE /\ 0 \in Nat /\ 0 \in Int
  BY SecurityAssumption
<1>2. /\ TRUE \in BOOLEAN /\ FALSE \in BOOLEAN /\ "PENDING" \in {"PENDING", "YES", "NO"}
      /\ PANEL_PASSWORD_HASH \in {PANEL_PASSWORD_HASH, "WRONG"}
  OBVIOUS
<1> QED BY <1>1, <1>2, Zenon DEF safe, reb_inputs_t

LEMMA NoOutputsType == no_outputs \in outputs_t
  BY DEF no_outputs, outputs_t, reb_state_t, reb_block_phase_t

\* What a request is when it arrives, and when there is none.
LEMMA RequestReady ==
    ASSUME NEW kind \in kinds, NEW pc \in points, NEW payload \in reb_inputs_t,
           NEW cycles \in Nat,
           pc \in {"boot", "clear", "cycle"} => cycles > 0,
           pc \in {"boot", "clear"} => kind \in restarts,
           pc \in {"cycle", "count", "store"} => kind # "snapshot",
           kind \in restarts => payload = safe
    PROVE  LET r == request(kind, pc, payload, cycles)
           IN  /\ r \in ready_t
               /\ r.kind = kind /\ r.pc = pc /\ r.payload = payload
<1> DEFINE r == request(kind, pc, payload, cycles)
<1>1. r \in request_t
  BY NoOutputsType, CountLimit DEF request, request_t
<1>2. r.kind = kind /\ r.pc = pc /\ r.payload = payload /\ r.cycles = cycles /\ r.done = 0
  BY DEF request
<1> HIDE DEF r
<1>3. wellformed(r)
  BY <1>2 DEF wellformed
<1> QED BY <1>1, <1>2, <1>3 DEF r, ready_t

LEMMA NoRequestReady == no_request \in ready_t /\ no_request.pc = "idle"
<1>1. "snapshot" \in kinds /\ "idle" \in points /\ "snapshot" \notin restarts
  BY DEF kinds, points, restarts
<1> QED BY <1>1, SafeType, RequestReady DEF no_request

\* One thread moves.
LEMMA Moves ==
    ASSUME client \in [Clients -> ready_t], NEW c \in Clients, NEW r \in ready_t,
           client' = [client EXCEPT ![c] = r]
    PROVE  /\ client' \in [Clients -> ready_t]
           /\ client'[c] = r
           /\ \A d \in Clients \ {c} : client'[d] = client[d]
  OBVIOUS

\* To its next point.
LEMMA Goes ==
    ASSUME client \in [Clients -> ready_t], NEW c \in Clients, NEW pc \in points, go(c, pc),
           pc \in {"boot", "clear", "cycle"} => client[c].done < client[c].cycles,
           pc \in {"boot", "clear"} => client[c].kind \in restarts,
           pc \in {"cycle", "count", "store"} => client[c].kind # "snapshot"
    PROVE  /\ client' \in [Clients -> ready_t]
           /\ \A d \in Clients \ {c} : client'[d] = client[d]
           /\ client'[c].pc = pc /\ client'[c].kind = client[c].kind
           /\ client'[c].payload = client[c].payload /\ client'[c].out = client[c].out
           /\ client'[c].done = client[c].done /\ client'[c].cycles = client[c].cycles
           /\ client'[c].loaded = client[c].loaded
<1> DEFINE r == [client[c] EXCEPT !.pc = pc]
<1>1. client[c] \in request_t /\ wellformed(client[c])
  BY DEF ready_t
<1>2. /\ r \in request_t /\ r.pc = pc /\ r.kind = client[c].kind
      /\ r.payload = client[c].payload /\ r.out = client[c].out
      /\ r.done = client[c].done /\ r.cycles = client[c].cycles /\ r.loaded = client[c].loaded
  BY <1>1, Zenon DEF request_t
<1>3. client' = [client EXCEPT ![c] = r]
  BY Zenon DEF go
<1> HIDE DEF r
<1>4. wellformed(r)
  BY <1>1, <1>2 DEF wellformed
<1>5. r \in ready_t
  BY <1>2, <1>4 DEF ready_t
<1> QED BY <1>2, <1>3, <1>5, Moves

-----------------------------------------------------------------------------
(* The invariant of the types *)

ThreadsTyped ==
    /\ client \in [Clients -> ready_t]
    /\ last_out \in outputs_t
    /\ parked_cycles \in 0..COUNT_LIMIT

BackendInv == TypeInv /\ acted \in Seq(0..MAX_NONCE) /\ ThreadsTyped

LEMMA CycleInput ==
    ASSUME NEW req \in ready_t, NEW trusts \in BOOLEAN
    PROVE  cycle_inputs(req, trusts) \in reb_inputs_t
<1>1. req.payload \in reb_inputs_t /\ req.done \in Nat
  BY DEF ready_t, request_t
<1>2. /\ (req.payload.speed_is_valid /\ trusts) \in BOOLEAN
      /\ req.payload.sim_time_ms + req.done \in Nat
  BY <1>1 DEF reb_inputs_t
<1> QED BY <1>1, <1>2, Zenon DEF cycle_inputs, reb_inputs_t

\* What the bridge keeps of a cycle.
LEMMA CycleOutputs ==
    ASSUME TypeInv, TypeInv'
    PROVE  LET out == outputs(block_phase)
           IN  /\ out \in outputs_t
               /\ out.current_state = state'
               /\ out.starter_inhibit_active = act'.starter_inhibit_active
<1>1. /\ state' \in reb_state_t /\ block_phase \in reb_block_phase_t
      /\ block_phase' \in reb_block_phase_t /\ act'.starter_inhibit_active \in BOOLEAN
  BY DEF TypeInv, ContextTypeOK, actuator_output_t
<1>2. (IF state' = "IDLE" THEN "PREALERT"
       ELSE IF state = "BLOCKING" THEN block_phase' ELSE block_phase) \in reb_block_phase_t
  BY <1>1 DEF reb_block_phase_t
<1> QED BY <1>1, <1>2 DEF outputs, outputs_t

\* The machine is only stepped or restarted.
MachineMoves ==
    \/ UNCHANGED <<vars, last_out>>
    \/ (PowerCycle \/ FactoryReset) /\ last_out' = no_outputs
    \/ (\E in \in reb_inputs_t : reb_fsm_step(in)) /\ last_out' = outputs(block_phase)

LEMMA BackendMoves ==
    ASSUME BackendInv, [BackendNext]_backend_vars
    PROVE  MachineMoves
<1>1. ASSUME NEW c \in Clients, Boot(c) PROVE MachineMoves
  BY <1>1, Zenon DEF Boot, MachineMoves
<1>2. ASSUME NEW c \in Clients, Cycle(c) PROVE MachineMoves
  <2>1. PICK trusts \in BOOLEAN : reb_fsm_step(cycle_inputs(client[c], trusts))
    BY <1>2, Zenon DEF Cycle
  <2>2. client[c] \in ready_t
    BY DEF BackendInv, ThreadsTyped
  <2>3. last_out' = outputs(block_phase)
    BY <1>2, Zenon DEF Cycle, cached_outputs
  <2> QED BY <2>1, <2>2, <2>3, CycleInput, Zenon DEF MachineMoves
<1>3. ASSUME NEW c \in Clients, serve(c), ~Boot(c), ~Cycle(c)
      PROVE  UNCHANGED <<vars, last_out>>
  BY <1>3, Zenon DEF serve, PostStep, PostRestart, GetSnapshot, arrive, ClearCount, CountParked,
     StoreCount, CountOther, Poll, Answer
<1>4. UNCHANGED backend_vars => UNCHANGED <<vars, last_out>>
  BY Zenon DEF backend_vars
<1> QED BY <1>1, <1>2, <1>3, <1>4, Zenon DEF BackendNext, MachineMoves

LEMMA MachineType ==
    ASSUME BackendInv, MachineMoves
    PROVE  TypeInv' /\ acted' \in Seq(0..MAX_NONCE) /\ last_out' \in outputs_t
<1>1. TypeInv /\ acted \in Seq(0..MAX_NONCE) /\ last_out \in outputs_t
  BY DEF BackendInv, ThreadsTyped
<1>2. CASE UNCHANGED <<vars, last_out>>
  <2>1. TypeInv'
    BY <1>1, <1>2, NextType
  <2> QED BY <1>1, <1>2, <2>1, Zenon DEF vars
<1>3. CASE (PowerCycle \/ FactoryReset) /\ last_out' = no_outputs
  <2>1. TypeInv'
    BY <1>1, <1>3, RestartType
  <2>2. acted' = acted \/ acted' = <<>>
    BY <1>3, Zenon DEF PowerCycle, FactoryReset
  <2>3. <<>> \in Seq(0..MAX_NONCE)
    OBVIOUS
  <2> QED BY <1>1, <1>3, <2>1, <2>2, <2>3, NoOutputsType, Zenon
<1>4. CASE (\E in \in reb_inputs_t : reb_fsm_step(in)) /\ last_out' = outputs(block_phase)
  <2>1. TypeInv' /\ acted' \in Seq(0..MAX_NONCE)
    BY <1>1, <1>4, CycleType
  <2> QED BY <1>1, <1>4, <2>1, CycleOutputs
<1> QED BY <1>2, <1>3, <1>4 DEF MachineMoves

\* What a request is after each action of its thread.
LEMMA ThreadsStep ==
    ASSUME BackendInv, TypeInv', [BackendNext]_backend_vars
    PROVE  client' \in [Clients -> ready_t] /\ parked_cycles' \in 0..COUNT_LIMIT
<1> DEFINE Typed == client' \in [Clients -> ready_t] /\ parked_cycles' \in 0..COUNT_LIMIT
<1>1. /\ client \in [Clients -> ready_t] /\ parked_cycles \in 0..COUNT_LIMIT
      /\ COUNT_LIMIT \in Nat /\ 0 \in 0..COUNT_LIMIT
      /\ TypeInv
  BY CountLimit DEF BackendInv, ThreadsTyped
<1>2. ASSUME NEW c \in Clients, NEW r \in ready_t, arrive(c, r)
      PROVE  Typed
  BY <1>1, <1>2, Moves DEF arrive
<1>3. ASSUME NEW c \in Clients, PostStep(c) PROVE Typed
  <2>1. PICK payload \in Payloads, cycles \in 1..MaxCycles :
            arrive(c, request("step", "cycle", payload, cycles))
    BY <1>3, Zenon DEF PostStep
  <2>2. /\ payload \in reb_inputs_t /\ cycles \in Nat /\ cycles > 0
        /\ "step" \in kinds /\ "cycle" \in points
        /\ "step" \notin restarts /\ "cycle" \notin {"boot", "clear"} /\ "step" # "snapshot"
    BY DEF kinds, points, restarts
  <2>3. request("step", "cycle", payload, cycles) \in ready_t
    BY <2>2, RequestReady
  <2> QED BY <1>2, <2>1, <2>3
<1>4. ASSUME NEW c \in Clients, PostRestart(c) PROVE Typed
  <2>1. PICK kind \in {"power_cycle", "reset"} : arrive(c, request(kind, "boot", safe, 1))
    BY <1>4, Zenon DEF PostRestart
  <2>2. /\ kind \in kinds /\ "boot" \in points /\ kind \in restarts
        /\ 1 \in Nat /\ 1 > 0 /\ "boot" \notin {"cycle", "count", "store"}
    BY DEF kinds, points, restarts
  <2>3. request(kind, "boot", safe, 1) \in ready_t
    BY <2>2, SafeType, RequestReady
  <2> QED BY <1>2, <2>1, <2>3
<1>5. ASSUME NEW c \in Clients, GetSnapshot(c) PROVE Typed
  <2>1. /\ "snapshot" \in kinds /\ "poll" \in points /\ 0 \in Nat
        /\ "poll" \notin {"boot", "clear", "cycle", "count", "store"}
        /\ "snapshot" \notin restarts
    BY DEF kinds, points, restarts
  <2>2. request("snapshot", "poll", safe, 0) \in ready_t
    BY <2>1, SafeType, RequestReady
  <2> QED BY <1>2, <1>5, <2>2 DEF GetSnapshot
<1>6. ASSUME NEW c \in Clients
      PROVE  /\ client[c] \in request_t /\ wellformed(client[c])
             /\ client[c].done \in Nat /\ client[c].cycles \in Nat
             /\ client[c].kind \in kinds
  BY <1>1 DEF ready_t, request_t
<1>7. ASSUME NEW c \in Clients, Boot(c) \/ ClearCount(c) PROVE Typed
  <2>1. \/ is_at(c, "boot") /\ go(c, "clear") /\ parked_cycles' = parked_cycles
        \/ is_at(c, "clear") /\ go(c, "cycle") /\ parked_cycles' = 0
    BY <1>7, Zenon DEF Boot, ClearCount, count_at_start
  <2>2. /\ client[c].done < client[c].cycles
        /\ client[c].kind \in restarts /\ client[c].kind # "snapshot"
    BY <1>6, <2>1 DEF wellformed, is_at, restarts
  <2>3. "clear" \in points /\ "cycle" \in points
    BY DEF points
  <2> QED BY <1>1, <2>1, <2>2, <2>3, Goes
<1>8. ASSUME NEW c \in Clients, Cycle(c) PROVE Typed
  <2> DEFINE r == [client[c] EXCEPT !.pc = "count", !.out = outputs(block_phase), !.done = @ + 1]
  <2>1. outputs(block_phase) \in outputs_t /\ "count" \in points
    BY <1>1, CycleOutputs DEF points
  <2>2. client[c].done + 1 \in Nat /\ client[c].done + 1 <= client[c].cycles
        /\ client[c].kind # "snapshot" /\ client[c].pc = "cycle"
    BY <1>6, <1>8 DEF Cycle, is_at, wellformed
  <2>3. client' = [client EXCEPT ![c] = r] /\ parked_cycles' = parked_cycles
    BY <1>8, Zenon DEF Cycle
  <2>4. /\ r \in request_t /\ r.pc = "count" /\ r.kind = client[c].kind
        /\ r.payload = client[c].payload /\ r.cycles = client[c].cycles
        /\ r.done = client[c].done + 1
    BY <1>6, <2>1, <2>2, Zenon DEF request_t
  <2> HIDE DEF r
  <2>5. wellformed(r)
    BY <1>6, <2>2, <2>4 DEF wellformed
  <2>6. r \in ready_t
    BY <2>4, <2>5 DEF ready_t
  <2> QED BY <1>1, <2>3, <2>6, Moves
<1>9. ASSUME NEW c \in Clients, client[c].kind # "snapshot"
      PROVE  /\ after_cycle(client[c]) \in {"cycle", "answer", "poll"}
             /\ after_cycle(client[c]) \in points
             /\ after_cycle(client[c]) = "cycle" => client[c].done < client[c].cycles
  BY <1>6, <1>9 DEF after_cycle, points
<1>10. ASSUME NEW c \in Clients, CountParked(c) PROVE Typed
  <2> DEFINE r == [client[c] EXCEPT !.pc = "store", !.loaded = parked_cycles]
  <2>1. client[c].pc = "count" /\ client' = [client EXCEPT ![c] = r]
        /\ parked_cycles' = parked_cycles
    BY <1>10, Zenon DEF CountParked, is_at
  <2>2. "store" \in points /\ client[c].kind # "snapshot"
    BY <1>6, <2>1 DEF points, wellformed
  <2>3. /\ r \in request_t /\ r.pc = "store" /\ r.kind = client[c].kind
        /\ r.payload = client[c].payload /\ r.cycles = client[c].cycles
        /\ r.done = client[c].done
    BY <1>1, <1>6, <2>2, Zenon DEF request_t
  <2> HIDE DEF r
  <2>4. wellformed(r)
    BY <1>6, <2>2, <2>3 DEF wellformed
  <2>5. r \in ready_t
    BY <2>3, <2>4 DEF ready_t
  <2> QED BY <1>1, <2>1, <2>5, Moves
<1>11. ASSUME NEW c \in Clients, StoreCount(c) PROVE Typed
  <2> DEFINE r == [client[c] EXCEPT !.pc = after_cycle(client[c]), !.loaded = 0]
  <2>1. /\ client[c].pc = "store" /\ client' = [client EXCEPT ![c] = r]
        /\ parked_cycles' = saturate(client[c].loaded + 1, COUNT_LIMIT)
    BY <1>11, Zenon DEF StoreCount, is_at
  <2>2. client[c].kind # "snapshot"
    BY <1>6, <2>1 DEF wellformed
  <2>3. /\ r \in request_t /\ r.pc = after_cycle(client[c]) /\ r.kind = client[c].kind
        /\ r.payload = client[c].payload /\ r.cycles = client[c].cycles
        /\ r.done = client[c].done
    BY <1>1, <1>6, <1>9, <2>2, Zenon DEF request_t
  <2> HIDE DEF r
  <2>4. wellformed(r)
    BY <1>6, <1>9, <2>2, <2>3 DEF wellformed
  <2>5. r \in ready_t
    BY <2>3, <2>4 DEF ready_t
  <2>6. parked_cycles' \in 0..COUNT_LIMIT
    <3>1. client[c].loaded \in 0..COUNT_LIMIT
      BY <1>6 DEF request_t
    <3> QED BY <1>1, <2>1, <3>1 DEF saturate
  <2> QED BY <1>1, <2>1, <2>5, <2>6, Moves
<1>12. ASSUME NEW c \in Clients, CountOther(c) PROVE Typed
  <2>1. /\ client[c].pc = "count" /\ go(c, after_cycle(client[c]))
        /\ parked_cycles' = 0 \/ parked_cycles' = parked_cycles
    BY <1>12, Zenon DEF CountOther, is_at
  <2>2. client[c].kind # "snapshot"
    BY <1>6, <2>1 DEF wellformed
  <2>3. client' \in [Clients -> ready_t]
    BY <1>1, <1>9, <2>1, <2>2, Goes
  <2> QED BY <1>1, <2>1, <2>3
<1>13. ASSUME NEW c \in Clients, Poll(c) PROVE Typed
  <2> DEFINE r == [client[c] EXCEPT !.pc = "answer", !.out = last_out]
  <2>1. client' = [client EXCEPT ![c] = r] /\ parked_cycles' = parked_cycles
    BY <1>13, Zenon DEF Poll
  <2>2. "answer" \in points /\ last_out \in outputs_t
    BY DEF points, BackendInv, ThreadsTyped
  <2>3. /\ r \in request_t /\ r.pc = "answer" /\ r.kind = client[c].kind
        /\ r.payload = client[c].payload /\ r.cycles = client[c].cycles
        /\ r.done = client[c].done
    BY <1>6, <2>2, Zenon DEF request_t
  <2> HIDE DEF r
  <2>4. wellformed(r)
    BY <1>6, <2>3 DEF wellformed
  <2>5. r \in ready_t
    BY <2>3, <2>4 DEF ready_t
  <2> QED BY <1>1, <2>1, <2>5, Moves
<1>14. ASSUME NEW c \in Clients, Answer(c) PROVE Typed
  <2>1. client' = [client EXCEPT ![c] = no_request] /\ parked_cycles' = parked_cycles
    BY <1>14, Zenon DEF Answer
  <2> QED BY <1>1, <2>1, NoRequestReady, Moves
<1>15. CASE UNCHANGED backend_vars
  <2>1. client' = client /\ parked_cycles' = parked_cycles
    BY <1>15, Zenon DEF backend_vars
  <2> QED BY <1>1, <2>1
<1>16. ASSUME NEW c \in Clients, serve(c) PROVE Typed
  BY <1>3, <1>4, <1>5, <1>7, <1>8, <1>10, <1>11, <1>12, <1>13, <1>14, <1>16 DEF serve
<1> QED BY <1>15, <1>16 DEF BackendNext

LEMMA BackendInvariant == BackendSpec => []BackendInv
<1>1. BackendInit => BackendInv
  <2> SUFFICES ASSUME BackendInit PROVE BackendInv
    OBVIOUS
  <2>1. TypeInv /\ acted \in Seq(0..MAX_NONCE)
    BY InitType DEF BackendInit, Init
  <2>2. client \in [Clients -> ready_t]
    BY NoRequestReady DEF BackendInit
  <2> QED BY <2>1, <2>2, NoOutputsType, CountLimit DEF BackendInit, BackendInv, ThreadsTyped
<1>2. BackendInv /\ [BackendNext]_backend_vars => BackendInv'
  <2> SUFFICES ASSUME BackendInv, [BackendNext]_backend_vars PROVE BackendInv'
    OBVIOUS
  <2>1. TypeInv' /\ acted' \in Seq(0..MAX_NONCE) /\ last_out' \in outputs_t
    BY BackendMoves, MachineType
  <2> QED BY <2>1, ThreadsStep DEF BackendInv, ThreadsTyped
<1> QED BY <1>1, <1>2, PTL DEF BackendSpec

\* The threads' variables keep their types, and no request runs more cycles than
\* it asked for, however the requests interleave (reb_backend.py).
THEOREM BackendTypeCorrect == BackendSpec => []BackendTypeOK
<1>1. BackendInv => BackendTypeOK
  <2> SUFFICES ASSUME BackendInv PROVE BackendTypeOK
    OBVIOUS
  <2>1. ASSUME NEW c \in Clients
        PROVE  client[c] \in request_t /\ client[c].done <= client[c].cycles
    BY DEF BackendInv, ThreadsTyped, ready_t, wellformed
  <2> QED BY <2>1 DEF BackendInv, ThreadsTyped, BackendTypeOK, request_t
<1> QED BY <1>1, BackendInvariant, PTL

-----------------------------------------------------------------------------
(* The machine of the server is the machine of RebFsm *)

\* The input is a payload, with the clock the server has reached.
LEMMA MachineIsFsm ==
    ASSUME MachineMoves
    PROVE  [AnyNext]_vars
<1>1. UNCHANGED <<vars, last_out>> => UNCHANGED vars
  OBVIOUS
<1> QED BY <1>1 DEF MachineMoves, AnyNext, AnyStep

\* Whatever the threads do, the machine takes the steps of RebFsm, so that what
\* is proved of AnySpec holds behind the server too.
THEOREM BackendImplementsFsm == BackendSpec => AnySpec
<1>1. BackendInit => Init
  BY DEF BackendInit
<1>2. BackendInv /\ [BackendNext]_backend_vars => [AnyNext]_vars
  BY BackendMoves, MachineIsFsm
<1> QED BY <1>1, <1>2, BackendInvariant, PTL DEF BackendSpec, AnySpec

\* So it keeps its promises whatever requests overlap, whatever they step, reset
\* or restart.
THEOREM BackendMachineSafe == BackendSpec => MachineIsSafe
  BY BackendImplementsFsm, MachineCorrect, PTL

-----------------------------------------------------------------------------
(* PollsShowTheMachine *)

\* Only the request that has just reset the bridge, and has not stepped, parts
\* the outputs it keeps from the machine; and nothing ends a restart but its own
\* cycle.
LEMMA RestartGoesOn ==
    ASSUME BackendInv, NEW c \in Clients, serve(c), ~Cycle(c), restarting
    PROVE  restarting'
<1> DEFINE between(d) == client[d].kind \in restarts /\ client[d].pc \in {"clear", "cycle"}
<1>1. PICK d \in Clients : between(d)
  BY DEF restarting, restarts
<1>2. client \in [Clients -> ready_t]
  BY DEF BackendInv, ThreadsTyped
<1>3. CASE d # c
  <2>1. client'[d] = client[d]
    <3>1. \E r : client' = [client EXCEPT ![c] = r]
      BY Zenon DEF serve, PostStep, PostRestart, GetSnapshot, arrive, Boot, ClearCount, Cycle,
         CountParked, StoreCount, CountOther, Poll, Answer, go
    <3> QED BY <1>2, <1>3, <3>1
  <2> QED BY <1>1, <2>1 DEF restarting, restarts
<1>4. CASE d = c
  <2>1. ClearCount(c)
    BY <1>1, <1>4 DEF serve, PostStep, PostRestart, GetSnapshot, arrive, Boot, Cycle,
       CountParked, StoreCount, CountOther, Poll, Answer, is_at
  <2>2. go(c, "cycle") /\ client[c].kind \in restarts
    BY <1>1, <1>4, <2>1, Zenon DEF ClearCount
  <2>3. client'[c].pc = "cycle" /\ client'[c].kind = client[c].kind
    BY <1>2, <2>2 DEF go, ready_t, request_t
  <2> QED BY <2>2, <2>3 DEF restarting, restarts
<1> QED BY <1>3, <1>4

LEMMA BootBegins ==
    ASSUME BackendInv, NEW c \in Clients, Boot(c)
    PROVE  restarting' /\ last_out' = no_outputs
<1>1. client \in [Clients -> ready_t] /\ client[c] \in request_t /\ wellformed(client[c])
  BY DEF BackendInv, ThreadsTyped, ready_t
<1>2. client[c].pc = "boot" /\ go(c, "clear") /\ last_out' = no_outputs
  BY Zenon DEF Boot, is_at
<1>3. client'[c].pc = "clear" /\ client'[c].kind = client[c].kind
  BY <1>1, <1>2 DEF go, ready_t, request_t
<1> QED BY <1>1, <1>2, <1>3 DEF wellformed, restarting, restarts

\* A poll between two calls reads the machine as it is, or IDLE inside a restart,
\* with any number of requests under way (reb_bridge_step, reb_bridge_reset).
THEOREM PollsShow == BackendSpec => []PollsShowTheMachine
<1>1. BackendInit => PollsShowTheMachine
  BY DEF BackendInit, Init, no_outputs, act_init, PollsShowTheMachine
<1>2. BackendInv /\ BackendInv' /\ PollsShowTheMachine /\ [BackendNext]_backend_vars
         => PollsShowTheMachine'
  <2> SUFFICES ASSUME BackendInv, BackendInv', PollsShowTheMachine, [BackendNext]_backend_vars
               PROVE  PollsShowTheMachine'
    OBVIOUS
  <2>1. ASSUME NEW c \in Clients, Boot(c) PROVE PollsShowTheMachine'
    BY <2>1, BootBegins DEF PollsShowTheMachine
  <2>2. ASSUME NEW c \in Clients, Cycle(c) PROVE PollsShowTheMachine'
    <3>1. last_out' = outputs(block_phase)
      BY <2>2, Zenon DEF Cycle, cached_outputs
    <3> QED BY <3>1, CycleOutputs DEF BackendInv, PollsShowTheMachine
  <2>3. ASSUME NEW c \in Clients, serve(c), ~Boot(c), ~Cycle(c) PROVE PollsShowTheMachine'
    <3>1. UNCHANGED <<state, act, last_out>>
      BY <2>3, Zenon DEF serve, PostStep, PostRestart, GetSnapshot, arrive, ClearCount,
         CountParked, StoreCount, CountOther, Poll, Answer, vars
    <3> QED BY <2>3, <3>1, RestartGoesOn DEF PollsShowTheMachine
  <2>4. CASE UNCHANGED backend_vars
    <3>1. UNCHANGED <<state, act, last_out, client>>
      BY <2>4, Zenon DEF backend_vars, vars
    <3> QED BY <3>1 DEF PollsShowTheMachine, restarting
  <2> QED BY <2>1, <2>2, <2>3, <2>4 DEF BackendNext
<1> QED BY <1>1, <1>2, BackendInvariant, PTL DEF BackendSpec

-----------------------------------------------------------------------------
(* ObeyedOncePerRequest *)

\* Every cycle of a request carries the same nonce, so a second command would
\* not be newer than the first.
ObeyedInv ==
    /\ obeyed \in [Clients -> 0..1]
    /\ \A c \in Clients : obeyed[c] = 1 =>
           \E i \in 1..Len(acted) : acted[i] = client[c].payload.cmd_nonce

\* An increasing history holds no nonce twice.
LEMMA AddedNonceIsNew ==
    ASSUME NEW s \in Seq(0..MAX_NONCE), NEW n \in 0..MAX_NONCE,
           LET t == Append(s, n) IN \A i, j \in 1..Len(t) : i < j => t[i] < t[j],
           NEW i \in 1..Len(s)
    PROVE  s[i] # n
<1> DEFINE t == Append(s, n)
<1>1. /\ Len(s) \in Nat /\ Len(t) = Len(s) + 1
      /\ \A k \in 1..Len(s) : t[k] = s[k]
      /\ t[Len(s) + 1] = n
  BY AppendProperties, LenProperties
<1>2. i \in 1..Len(t) /\ Len(s) + 1 \in 1..Len(t) /\ i < Len(s) + 1
  BY <1>1
<1> HIDE DEF t
<1>3. t[i] < t[Len(s) + 1]
  BY <1>2 DEF t
<1>4. \A k \in 1..Len(s) : s[k] \in 0..MAX_NONCE
  BY ElementOfSeq
<1> QED BY <1>1, <1>3, <1>4, SecurityAssumption

LEMMA CycleObeyed ==
    ASSUME BackendInv, ActedNoncesIncrease', ObeyedInv, NEW c \in Clients, Cycle(c)
    PROVE  ObeyedInv'
<1>1. PICK trusts \in BOOLEAN : reb_fsm_step(cycle_inputs(client[c], trusts))
  BY Zenon DEF Cycle
<1> DEFINE in == cycle_inputs(client[c], trusts)
           n  == client[c].payload.cmd_nonce
<1>2. /\ client \in [Clients -> ready_t] /\ client[c] \in request_t
      /\ client[c].payload \in reb_inputs_t /\ acted \in Seq(0..MAX_NONCE)
  BY DEF BackendInv, ThreadsTyped, ready_t, request_t
<1>3. in.cmd_nonce = n /\ n \in 0..MAX_NONCE
  BY <1>2, Zenon DEF cycle_inputs, reb_inputs_t
<1> HIDE DEF in
<1>4. acted' = acted \/ acted' = Append(acted, n)
  BY <1>1, <1>3, CycleObeys DEF Obeyed, in
<1>5. \A d \in Clients : client'[d].payload = client[d].payload
  <2>1. client' = [client EXCEPT ![c].pc   = "count",
                                 ![c].out  = outputs(block_phase),
                                 ![c].done = @ + 1]
    BY Zenon DEF Cycle
  <2> QED BY <1>2, <2>1 DEF ready_t, request_t
<1>6. obeyed' = [obeyed EXCEPT ![c] = saturate(@ + Len(acted') - Len(acted), 2)]
  BY Zenon DEF Cycle
<1>7. obeyed \in [Clients -> 0..1] /\ Len(acted) \in Nat
  BY <1>2, LenProperties DEF ObeyedInv
<1>8. CASE acted' = acted
  <2>1. saturate(obeyed[c] + Len(acted') - Len(acted), 2) = obeyed[c]
    BY <1>7, <1>8 DEF saturate
  <2>2. obeyed' = obeyed
    BY <1>6, <1>7, <2>1
  <2> QED BY <1>5, <1>8, <2>2 DEF ObeyedInv
<1>9. CASE acted' = Append(acted, n)
  <2>1. /\ Len(acted') = Len(acted) + 1 /\ acted'[Len(acted) + 1] = n
        /\ \A i \in 1..Len(acted) : acted'[i] = acted[i] /\ i \in 1..Len(acted')
        /\ Len(acted) + 1 \in 1..Len(acted')
    BY <1>2, <1>3, <1>9, AppendProperties, LenProperties
  <2>2. LET t == Append(acted, n) IN \A i, j \in 1..Len(t) : i < j => t[i] < t[j]
    BY <1>9 DEF ActedNoncesIncrease
  <2>3. obeyed[c] # 1
    BY <1>2, <1>3, <2>2, AddedNonceIsNew DEF ObeyedInv
  <2>4. obeyed[c] = 0
    BY <1>7, <2>3
  <2>5. saturate(obeyed[c] + Len(acted') - Len(acted), 2) = 1
    BY <1>7, <2>1, <2>4 DEF saturate
  <2>6. obeyed' = [obeyed EXCEPT ![c] = 1]
    BY <1>6, <2>5
  <2>7. obeyed' \in [Clients -> 0..1]
    BY <1>7, <2>6
  <2>8. ASSUME NEW d \in Clients, obeyed'[d] = 1
        PROVE  \E i \in 1..Len(acted') : acted'[i] = client'[d].payload.cmd_nonce
    <3>1. CASE d = c
      BY <1>5, <2>1, <3>1
    <3>2. CASE d # c
      <4>1. obeyed[d] = 1
        BY <1>7, <2>6, <2>8, <3>2
      <4>2. PICK i \in 1..Len(acted) : acted[i] = client[d].payload.cmd_nonce
        BY <4>1 DEF ObeyedInv
      <4> QED BY <1>5, <2>1, <4>2
    <3> QED BY <3>1, <3>2
  <2> QED BY <2>7, <2>8 DEF ObeyedInv
<1> QED BY <1>4, <1>8, <1>9

\* No other action lets a command be obeyed.
LEMMA OthersObeyed ==
    ASSUME BackendInv, ObeyedInv, NEW c \in Clients, serve(c), ~Cycle(c)
    PROVE  ObeyedInv'
<1>1. /\ client \in [Clients -> ready_t] /\ obeyed \in [Clients -> 0..1]
      /\ \A d \in Clients : client[d] \in request_t
  BY DEF BackendInv, ThreadsTyped, ready_t, ObeyedInv
<1>2. CASE PostStep(c) \/ PostRestart(c) \/ GetSnapshot(c) \/ Answer(c)
  <2>1. PICK r : client' = [client EXCEPT ![c] = r]
    BY <1>2, Zenon DEF PostStep, PostRestart, GetSnapshot, Answer, arrive
  <2>2. acted' = acted /\ obeyed' = [obeyed EXCEPT ![c] = 0]
    BY <1>2, Zenon DEF PostStep, PostRestart, GetSnapshot, Answer, arrive, vars
  <2> QED BY <1>1, <2>1, <2>2 DEF ObeyedInv
<1>3. CASE Boot(c)
  <2>1. client' = [client EXCEPT ![c].pc = "clear"]
    BY <1>3, Zenon DEF Boot, go
  <2>2. \A d \in Clients : client'[d].payload = client[d].payload
    BY <1>1, <2>1 DEF request_t
  <2>3. \/ acted' = acted /\ obeyed' = obeyed
        \/ obeyed' = [d \in Clients |-> 0]
    BY <1>3, Zenon DEF Boot, PowerCycle
  <2> QED BY <1>1, <2>2, <2>3 DEF ObeyedInv
<1>4. CASE ClearCount(c) \/ CountParked(c) \/ StoreCount(c) \/ CountOther(c) \/ Poll(c)
  <2>1. acted' = acted /\ obeyed' = obeyed
    BY <1>4, Zenon DEF ClearCount, CountParked, StoreCount, CountOther, Poll, vars, history
  <2>2. \A d \in Clients : client'[d].payload = client[d].payload
    BY <1>1, <1>4 DEF ClearCount, CountParked, StoreCount, CountOther, Poll, go, request_t
  <2> QED BY <1>1, <2>1, <2>2 DEF ObeyedInv
<1> QED BY <1>2, <1>3, <1>4 DEF serve

\* The command a step request repeats in every cycle is obeyed once at most,
\* however other requests step and restart the machine in between.
THEOREM ObeyedOnce == BackendSpec => []ObeyedOncePerRequest
<1>1. BackendInit => ObeyedInv
  BY DEF BackendInit, ObeyedInv
<1>2. BackendInv /\ ActedNoncesIncrease' /\ ObeyedInv /\ [BackendNext]_backend_vars
         => ObeyedInv'
  <2>1. UNCHANGED backend_vars /\ ObeyedInv => ObeyedInv'
    BY DEF backend_vars, vars, history, ObeyedInv
  <2> QED BY <2>1, CycleObeyed, OthersObeyed DEF BackendNext
<1>3. ObeyedInv => ObeyedOncePerRequest
  BY DEF ObeyedInv, ObeyedOncePerRequest
<1>4. BackendSpec => []ActedNoncesIncrease
  BY BackendImplementsFsm, InputsOnlyNarrow, NoReplay, PTL
<1> QED BY <1>1, <1>2, <1>3, <1>4, BackendInvariant, PTL DEF BackendSpec

-----------------------------------------------------------------------------
(* BlockedSurvivesRestart *)

\* The neutral cycle finds nothing to release a blocked machine for: it carries
\* no unblock command and no request of the panel.
LEMMA SafeCycleKeepsBlocked ==
    ASSUME NEW req \in ready_t, req.payload = safe, NEW trusts \in BOOLEAN,
           state = "BLOCKED", reb_fsm_step(cycle_inputs(req, trusts))
    PROVE  state' = "BLOCKED"
<1> DEFINE in == cycle_inputs(req, trusts)
<1>1. /\ in.remote_unblock_remote = safe.remote_unblock_remote
      /\ in.cancel_request = safe.cancel_request
      /\ in.auth_manual_out = safe.auth_manual_out
  <2>1. safe \in reb_inputs_t
    BY SafeType
  <2> QED BY <2>1, Zenon DEF cycle_inputs, reb_inputs_t
<1>2. ~in.remote_unblock_remote /\ ~in.cancel_request /\ ~in.auth_manual_out
  BY <1>1 DEF safe
<1> HIDE DEF in
<1>3. ~unblock_accepted(in) /\ ~panel_auth_ok(panel, in)
  BY <1>2 DEF unblock_accepted, unblock_checked, panel_auth_ok, panel_attempt
<1>4. reb_fsm_step(in)
  BY DEF in
<1>5. ~returns(in, FALSE)
  BY <1>3 DEF returns, TheftRemoteUnblocks, TheftSignalFault, TheftOwnerDenies,
     TheftWindowAborts, theft_goes_on, BlockingSignalFault, BlockingRemoteUnblocks,
     BlockingPanelUnblocks, blocking_goes_on, BlockedRemoteUnblocks, BlockedPanelUnblocks
<1>6. BlockedStays(in)
  BY <1>4, <1>5 DEF reb_fsm_step, keeps_or_advances, IdlePanelActivates, IdleRemoteActivates,
     IdleSensorsActivate, IdleWatches, TheftOwnerConfirms, TheftWindowExpires, TheftWindowRuns,
     TheftHoldElapses, TheftHolds, theft_goes_on, BlockingParks, BlockingContinues,
     blocking_goes_on
<1> QED BY <1>6 DEF BlockedStays

\* Beside a request that is alone nothing moves the machine;
AloneInv ==
    /\ alone \in [Clients -> BOOLEAN]
    /\ \A c \in Clients : client[c].pc # "idle" /\ alone[c] =>
           \A d \in Clients \ {c} : ~mutating(d)

\* and a power cycle that found it blocked keeps it so, up to its answer.
blocked_restart(c) ==
    /\ mutating(c) /\ alone[c]
    /\ client[c].kind = "power_cycle" /\ before[c] = "BLOCKED"

shown_blocked(out) == out.current_state = "BLOCKED" /\ out.starter_inhibit_active

blocked_so_far(c) ==
    /\ state = "BLOCKED"
    /\ client[c].pc \in {"count", "store", "poll", "answer"} => shown_blocked(last_out)
    /\ client[c].pc = "answer" => shown_blocked(client[c].out)

RestartInv ==
    /\ before \in [Clients -> reb_state_t]
    /\ \A c \in Clients : blocked_restart(c) => blocked_so_far(c)

\* An arrival.
LEMMA ArriveAlone ==
    ASSUME BackendInv, AloneInv, RestartInv, NEW c \in Clients, NEW r \in ready_t,
           r.kind = "power_cycle" => r.pc = "boot",
           arrive(c, r)
    PROVE  AloneInv' /\ RestartInv'
<1>1. /\ client \in [Clients -> ready_t] /\ alone \in [Clients -> BOOLEAN]
      /\ before \in [Clients -> reb_state_t] /\ state \in reb_state_t
  BY DEF BackendInv, ThreadsTyped, AloneInv, RestartInv, TypeInv, ContextTypeOK
<1> DEFINE moves == r.kind # "snapshot"
<1>2. /\ client[c].pc = "idle"
      /\ client' = [client EXCEPT ![c] = r]
      /\ alone' = [d \in Clients |-> IF d = c THEN ~disturbed(c) ELSE alone[d] /\ ~moves]
      /\ before' = [before EXCEPT ![c] = state]
      /\ state' = state /\ last_out' = last_out
  BY Zenon DEF arrive, is_at, vars
<1>3. /\ client'[c] = r /\ \A d \in Clients \ {c} : client'[d] = client[d]
      /\ alone'[c] = ~disturbed(c)
      /\ \A d \in Clients \ {c} : alone'[d] = (alone[d] /\ ~moves)
      /\ before'[c] = state /\ \A d \in Clients \ {c} : before'[d] = before[d]
      /\ before' \in [Clients -> reb_state_t]
      /\ ~mutating(c)
  BY <1>1, <1>2 DEF mutating, is_at
<1>4. disturbed(c) \in BOOLEAN
  BY DEF disturbed, mutating, is_at
<1>5. alone' \in [Clients -> BOOLEAN]
  BY <1>1, <1>2, <1>4
<1>6. \A d \in Clients \ {c} : mutating(d)' = mutating(d)
  BY <1>3 DEF mutating, is_at
<1>7. mutating(c)' => moves
  BY <1>3 DEF mutating
<1>8. ASSUME NEW d \in Clients, client'[d].pc # "idle", alone'[d], NEW e \in Clients \ {d}
      PROVE  ~mutating(e)'
  <2>1. CASE d = c
    BY <1>3, <1>6, <1>8, <2>1 DEF disturbed
  <2>2. CASE d # c
    <3>1. alone[d] /\ ~moves /\ client[d].pc # "idle"
      BY <1>3, <1>6, <1>8, <2>2
    <3> QED BY <1>6, <1>7, <1>8, <2>2, <3>1 DEF AloneInv
  <2> QED BY <2>1, <2>2
<1>9. ASSUME NEW d \in Clients, blocked_restart(d)'
      PROVE  blocked_so_far(d)'
  <2>1. CASE d = c
    <3>1. state = "BLOCKED" /\ client'[d].pc = "boot"
      BY <1>3, <1>9, <2>1 DEF blocked_restart
    <3> QED BY <1>2, <3>1 DEF blocked_so_far
  <2>2. CASE d # c
    <3>1. blocked_restart(d)
      BY <1>3, <1>6, <1>9, <2>2 DEF blocked_restart
    <3> QED BY <1>2, <1>3, <2>2, <3>1 DEF RestartInv, blocked_so_far
  <2> QED BY <2>1, <2>2
<1> QED BY <1>3, <1>5, <1>8, <1>9 DEF AloneInv, RestartInv

\* A step of a thread: one that moves the machine spares every other blocked
\* restart, because there is none.
LEMMA ThreadAlone ==
    ASSUME BackendInv, AloneInv, RestartInv, NEW c \in Clients, NEW r \in ready_t,
           client[c].pc # "idle", r.pc # "idle", r.kind = client[c].kind,
           client' = [client EXCEPT ![c] = r], UNCHANGED <<alone, before>>,
           mutating(c) \/ UNCHANGED <<state, last_out>>,
           blocked_restart(c) => blocked_so_far(c)'
    PROVE  AloneInv' /\ RestartInv'
<1>1. /\ client \in [Clients -> ready_t]
      /\ client'[c] = r /\ \A d \in Clients \ {c} : client'[d] = client[d]
  BY DEF BackendInv, ThreadsTyped
<1>2. \A d \in Clients : mutating(d)' = mutating(d)
  BY <1>1 DEF mutating, is_at
<1>3. AloneInv'
  BY <1>1, <1>2 DEF AloneInv
<1>4. \A d \in Clients : blocked_restart(d)' = blocked_restart(d)
  BY <1>1, <1>2 DEF blocked_restart
<1>5. ASSUME NEW d \in Clients, blocked_restart(d)'
      PROVE  blocked_so_far(d)'
  <2>1. CASE d = c
    BY <1>4, <1>5, <2>1
  <2>2. CASE d # c
    <3>1. ~mutating(c) /\ blocked_so_far(d)
      BY <1>4, <1>5, <2>2 DEF AloneInv, RestartInv, blocked_restart, mutating, is_at
    <3>2. state' = state /\ last_out' = last_out
      BY <3>1
    <3> QED BY <1>1, <2>2, <3>1, <3>2 DEF blocked_so_far
  <2> QED BY <2>1, <2>2
<1> QED BY <1>3, <1>5 DEF RestartInv

\* The cycle of a restart.
LEMMA CycleAlone ==
    ASSUME BackendInv, BackendInv', StarterInhibitedOnlyInBlocked', AloneInv, RestartInv,
           NEW c \in Clients, Cycle(c)
    PROVE  AloneInv' /\ RestartInv'
<1>1. /\ client \in [Clients -> ready_t] /\ client[c] \in request_t
      /\ wellformed(client[c]) /\ client' \in [Clients -> ready_t]
  BY DEF BackendInv, ThreadsTyped, ready_t
<1> DEFINE r == [client[c] EXCEPT !.pc = "count", !.out = outputs(block_phase), !.done = @ + 1]
<1>2. /\ client[c].pc = "cycle" /\ client' = [client EXCEPT ![c] = r]
      /\ UNCHANGED <<alone, before>> /\ last_out' = outputs(block_phase)
      /\ \E trusts \in BOOLEAN : reb_fsm_step(cycle_inputs(client[c], trusts))
  BY Zenon DEF Cycle, is_at, cached_outputs
<1>3. r.pc = "count" /\ r.kind = client[c].kind
  BY <1>1, Zenon DEF request_t
<1> HIDE DEF r
<1>4. client'[c] = r /\ r \in ready_t
  BY <1>1, <1>2
<1>5. mutating(c)
  BY <1>1, <1>2 DEF mutating, is_at, wellformed
<1>6. ASSUME blocked_restart(c)
      PROVE  blocked_so_far(c)'
  <2>1. state = "BLOCKED" /\ client[c].payload = safe
    BY <1>1, <1>6 DEF RestartInv, blocked_restart, blocked_so_far, wellformed, restarts
  <2>2. state' = "BLOCKED"
    BY <1>1, <1>2, <2>1, SafeCycleKeepsBlocked DEF ready_t
  <2>3. shown_blocked(last_out')
    BY <1>2, <2>2, CycleOutputs DEF BackendInv, StarterInhibitedOnlyInBlocked, shown_blocked
  <2> QED BY <1>3, <1>4, <2>2, <2>3 DEF blocked_so_far, shown_blocked
<1> QED BY <1>2, <1>3, <1>4, <1>5, <1>6, ThreadAlone

LEMMA BootAlone ==
    ASSUME BackendInv, BackendInv', MemoryMirrorsState, AloneInv, RestartInv,
           NEW c \in Clients, Boot(c)
    PROVE  AloneInv' /\ RestartInv'
<1>1. /\ client \in [Clients -> ready_t] /\ client[c] \in request_t
      /\ wellformed(client[c]) /\ client' \in [Clients -> ready_t]
  BY DEF BackendInv, ThreadsTyped, ready_t
<1> DEFINE r == [client[c] EXCEPT !.pc = "clear"]
<1>2. /\ client[c].pc = "boot" /\ client' = [client EXCEPT ![c] = r]
      /\ UNCHANGED <<alone, before>>
      /\ client[c].kind # "reset" => PowerCycle
  BY Zenon DEF Boot, is_at, go
<1>3. r.pc = "clear" /\ r.kind = client[c].kind
  BY <1>1, Zenon DEF request_t
<1> HIDE DEF r
<1>4. client'[c] = r /\ r \in ready_t
  BY <1>1, <1>2
<1>5. mutating(c)
  BY <1>1, <1>2 DEF mutating, is_at, wellformed, restarts
<1>6. ASSUME blocked_restart(c)
      PROVE  blocked_so_far(c)'
  <2>1. state = "BLOCKED" /\ PowerCycle
    BY <1>2, <1>6 DEF RestartInv, blocked_restart, blocked_so_far
  <2>2. state' = "BLOCKED"
    BY <2>1 DEF PowerCycle, boot, MemoryMirrorsState
  <2> QED BY <1>3, <1>4, <2>2 DEF blocked_so_far
<1> QED BY <1>2, <1>3, <1>4, <1>5, <1>6, ThreadAlone

\* The points between the calls.
LEMMA PointAlone ==
    ASSUME BackendInv, BackendInv', AloneInv, RestartInv, NEW c \in Clients,
           ClearCount(c) \/ CountParked(c) \/ StoreCount(c) \/ CountOther(c) \/ Poll(c)
    PROVE  AloneInv' /\ RestartInv'
<1>1. /\ client \in [Clients -> ready_t] /\ client[c] \in request_t
      /\ wellformed(client[c]) /\ client' \in [Clients -> ready_t]
  BY DEF BackendInv, ThreadsTyped, ready_t
<1>2. PICK r : client' = [client EXCEPT ![c] = r]
  BY Zenon DEF ClearCount, CountParked, StoreCount, CountOther, Poll, go
<1>3. client'[c] = r /\ r \in ready_t
  BY <1>1, <1>2
<1>4. UNCHANGED <<state, last_out, alone, before>>
  BY Zenon DEF ClearCount, CountParked, StoreCount, CountOther, Poll, vars, history
<1>5. /\ client[c].pc # "idle" /\ r.pc # "idle" /\ r.kind = client[c].kind
      /\ r.pc \in {"count", "store", "poll", "answer"}
             => client[c].pc \in {"count", "store", "poll"}
      /\ r.pc = "answer" /\ r.kind # "step" => r.out = last_out
  <2>1. CASE ClearCount(c)
    BY <1>1, <1>3, <2>1 DEF ClearCount, go, is_at, request_t
  <2>2. CASE CountParked(c)
    BY <1>1, <1>3, <2>2 DEF CountParked, is_at, request_t
  <2>3. after_cycle(client[c]) \in {"cycle", "answer", "poll"}
        /\ (after_cycle(client[c]) = "answer" => client[c].kind = "step")
    BY <1>1 DEF after_cycle, request_t, wellformed
  <2>4. CASE StoreCount(c)
    BY <1>1, <1>3, <2>3, <2>4 DEF StoreCount, is_at, request_t
  <2>5. CASE CountOther(c)
    BY <1>1, <1>3, <2>3, <2>5 DEF CountOther, go, is_at, request_t
  <2>6. CASE Poll(c)
    BY <1>1, <1>3, <2>6 DEF Poll, is_at, request_t
  <2> QED BY <2>1, <2>2, <2>4, <2>5, <2>6
<1>6. ASSUME blocked_restart(c)
      PROVE  blocked_so_far(c)'
  <2>1. blocked_so_far(c) /\ client[c].kind = "power_cycle"
    BY <1>6 DEF RestartInv, blocked_restart
  <2> QED BY <1>3, <1>4, <1>5, <2>1 DEF blocked_so_far, shown_blocked
<1> QED BY <1>2, <1>3, <1>4, <1>5, <1>6, ThreadAlone

LEMMA AnswerAlone ==
    ASSUME BackendInv, AloneInv, RestartInv, NEW c \in Clients, Answer(c)
    PROVE  AloneInv' /\ RestartInv'
<1>1. /\ client \in [Clients -> ready_t] /\ alone \in [Clients -> BOOLEAN]
      /\ before \in [Clients -> reb_state_t] /\ "IDLE" \in reb_state_t
  BY DEF BackendInv, ThreadsTyped, AloneInv, RestartInv, reb_state_t
<1>2. /\ client' = [client EXCEPT ![c] = no_request]
      /\ alone' = [alone EXCEPT ![c] = TRUE]
      /\ before' = [before EXCEPT ![c] = "IDLE"]
      /\ state' = state /\ last_out' = last_out
  BY Zenon DEF Answer, vars
<1>3. /\ client'[c].pc = "idle"
      /\ \A d \in Clients \ {c} : /\ client'[d] = client[d] /\ alone'[d] = alone[d]
                                   /\ before'[d] = before[d]
      /\ alone' \in [Clients -> BOOLEAN] /\ before' \in [Clients -> reb_state_t]
  BY <1>1, <1>2, NoRequestReady
<1>4. ~mutating(c)' /\ \A d \in Clients \ {c} : mutating(d)' = mutating(d)
  BY <1>3 DEF mutating, is_at
<1>5. AloneInv'
  BY <1>3, <1>4 DEF AloneInv
<1>6. ASSUME NEW d \in Clients, blocked_restart(d)'
      PROVE  blocked_so_far(d)'
  <2>1. d # c /\ blocked_restart(d)
    BY <1>3, <1>4, <1>6 DEF blocked_restart
  <2> QED BY <1>2, <1>3, <2>1 DEF RestartInv, blocked_so_far
<1> QED BY <1>3, <1>5, <1>6 DEF RestartInv

LEMMA AloneStep ==
    ASSUME BackendInv, BackendInv', MemoryMirrorsState, StarterInhibitedOnlyInBlocked',
           AloneInv, RestartInv, [BackendNext]_backend_vars
    PROVE  AloneInv' /\ RestartInv'
<1> DEFINE Kept == AloneInv' /\ RestartInv'
<1>1. ASSUME NEW c \in Clients, NEW kind, NEW pc, NEW payload, NEW cycles,
             arrive(c, request(kind, pc, payload, cycles)),
             kind = "power_cycle" => pc = "boot"
      PROVE  Kept
  <2> DEFINE r == request(kind, pc, payload, cycles)
  <2>1. (r.kind = "power_cycle" => r.pc = "boot") /\ arrive(c, r)
    BY <1>1 DEF request
  <2> HIDE DEF r
  <2>2. client' = [client EXCEPT ![c] = r]
    BY <2>1, Zenon DEF arrive
  <2>3. client \in [Clients -> ready_t] /\ client' \in [Clients -> ready_t]
    BY DEF BackendInv, ThreadsTyped
  <2>4. client'[c] = r
    BY <2>2, <2>3
  <2>5. r \in ready_t
    BY <2>3, <2>4
  <2> QED BY <2>1, <2>5, ArriveAlone
<1>2. ASSUME NEW c \in Clients, PostStep(c) \/ PostRestart(c) \/ GetSnapshot(c)
      PROVE  Kept
  BY <1>1, <1>2 DEF PostStep, PostRestart, GetSnapshot
<1>3. ASSUME NEW c \in Clients, serve(c) PROVE Kept
  BY <1>2, <1>3, BootAlone, CycleAlone, PointAlone, AnswerAlone DEF serve
<1>4. CASE UNCHANGED backend_vars
  <2>1. UNCHANGED <<state, last_out, client, alone, before>>
    BY <1>4, Zenon DEF backend_vars, vars, history
  <2> QED BY <2>1 DEF AloneInv, RestartInv, mutating, is_at, blocked_restart, blocked_so_far,
          shown_blocked
<1> QED BY <1>3, <1>4 DEF BackendNext

LEMMA AloneInvariant == BackendSpec => [](AloneInv /\ RestartInv)
<1>1. BackendInit => AloneInv /\ RestartInv
  <2> SUFFICES ASSUME BackendInit PROVE AloneInv /\ RestartInv
    OBVIOUS
  <2>1. \A c \in Clients : client[c].pc = "idle"
    BY NoRequestReady DEF BackendInit
  <2> QED BY <2>1 DEF BackendInit, AloneInv, RestartInv, mutating, is_at, blocked_restart,
          reb_state_t
<1>2. BackendInv /\ BackendInv' /\ MemoryMirrorsState /\ StarterInhibitedOnlyInBlocked'
        /\ AloneInv /\ RestartInv /\ [BackendNext]_backend_vars
         => (AloneInv /\ RestartInv)'
  BY AloneStep
<1>3. BackendSpec => [](MemoryMirrorsState /\ StarterInhibitedOnlyInBlocked)
  BY BackendImplementsFsm, InputsOnlyNarrow, MemorySafe, StarterSafe, PTL
<1> QED BY <1>1, <1>2, <1>3, BackendInvariant, PTL DEF BackendSpec

\* A blocked vehicle is shown blocked, with its starter inhibited, in the answer
\* to every power cycle that no other request runs beside (RebLib.power_cycle).
THEOREM BlockedSurvives == BackendSpec => []BlockedSurvivesRestart
<1>1. RestartInv => BlockedSurvivesRestart
  <2> SUFFICES ASSUME RestartInv, NEW c \in Clients, client[c].pc = "answer",
                      client[c].kind = "power_cycle", alone[c], before[c] = "BLOCKED"
               PROVE  shown_blocked(client[c].out)
    BY DEF BlockedSurvivesRestart, shown_blocked, is_at
  <2>1. blocked_restart(c)
    BY DEF blocked_restart, mutating, is_at
  <2> QED BY <2>1 DEF RestartInv, blocked_so_far
<1> QED BY <1>1, AloneInvariant, PTL

-----------------------------------------------------------------------------
(* ShownDwellIsTheMachines *)

\* Outside BLOCKING and BLOCKED the block phase is PREALERT, in memory too: a
\* first cycle in BLOCKING shows no phase of an earlier one.
PhaseInv ==
    /\ state \in {"IDLE", "THEFT_CONFIRMED"} => block_phase = "PREALERT"
    /\ nvm_sim_valid /\ nvm_sim_buf.last_state \in {"IDLE", "THEFT_CONFIRMED"}
           => nvm_sim_buf.last_block_phase = "PREALERT"

LEMMA PhaseStep ==
    ASSUME TypeInv, PhaseInv, [AnyNext]_vars
    PROVE  PhaseInv'
<1>1. ASSUME NEW in \in reb_inputs_t, keeps_or_advances(in)
      PROVE  PhaseInv'
  <2>1. ASSUME NEW src, enter_theft_confirmed(in, src), state = "IDLE"
        PROVE  PhaseInv'
    <3>1. block_phase' = "PREALERT" /\ nvm_sim_buf'.last_block_phase = block_phase
      BY <2>1 DEF enter_theft_confirmed, do_transition, nvm_write_state, snapshot
    <3> QED BY <2>1, <3>1 DEF PhaseInv
  <2>2. ASSUME NEW new, NEW phase, NEW parked, NEW min_after, NEW ramp,
               do_transition(new, phase, parked, min_after, ramp),
               new \in {"BLOCKING", "BLOCKED"}
        PROVE  PhaseInv'
    <3>1. state' = new /\ nvm_sim_buf'.last_state = new
      BY <2>2 DEF do_transition, nvm_write_state, snapshot
    <3> QED BY <2>2, <3>1 DEF PhaseInv
  <2>3. CASE IdlePanelActivates(in) \/ IdleRemoteActivates(in) \/ IdleSensorsActivate(in)
    BY <2>1, <2>3 DEF IdlePanelActivates, IdleRemoteActivates, IdleSensorsActivate
  <2>4. CASE TheftOwnerConfirms(in) \/ TheftWindowExpires(in) \/ TheftHoldElapses(in)
    BY <2>2, <2>4 DEF TheftOwnerConfirms, TheftWindowExpires, TheftHoldElapses, enter_blocking
  <2>5. CASE BlockingParks(in)
    BY <2>2, <2>5 DEF BlockingParks
  <2>6. CASE IdleWatches(in) \/ TheftWindowRuns(in) \/ TheftHolds(in) \/ BlockedStays(in)
    <3>1. UNCHANGED <<state, block_phase>> /\ UNCHANGED nvm_vars
      BY <2>6, Zenon DEF IdleWatches, TheftWindowRuns, TheftHolds, theft_stays, BlockedStays
    <3> QED BY <3>1 DEF nvm_vars, PhaseInv
  <2>7. CASE BlockingContinues(in)
    BY <2>7 DEF BlockingContinues, blocking_goes_on, nvm_vars, PhaseInv
  <2> QED BY <1>1, <2>3, <2>4, <2>5, <2>6, <2>7 DEF keeps_or_advances
<1>2. ASSUME NEW in \in reb_inputs_t, returns(in, FALSE)
      PROVE  PhaseInv'
  <2>1. PICK first \in nvm_data_t, pnl \in panel_auth_ctx_t : Returning(first, pnl, in, FALSE)
    BY <1>2, ReturningSnapshot
  <2>2. block_phase' = "PREALERT" /\ nvm_sim_buf' = idle_snapshot(first)
    BY <2>1 DEF Returning, return_to_idle, nvm_write_state
  <2>3. idle_snapshot(first).last_block_phase = "PREALERT"
    BY Zenon DEF idle_snapshot, nvm_data_t
  <2> QED BY <2>2, <2>3 DEF PhaseInv
<1>3. ASSUME NEW d, boot(d), d.last_state \in {"IDLE", "THEFT_CONFIRMED"}
                                 => d.last_block_phase = "PREALERT"
      PROVE  state' \in {"IDLE", "THEFT_CONFIRMED"} => block_phase' = "PREALERT"
  BY <1>3 DEF boot
<1>4. factory_defaults.last_block_phase = "PREALERT"
  BY DEF factory_defaults, snapshot
<1>5. CASE PowerCycle
  BY <1>3, <1>4, <1>5 DEF PowerCycle, PhaseInv, nvm_vars
<1>6. CASE FactoryReset
  BY <1>3, <1>4, <1>6 DEF FactoryReset, PhaseInv
<1>7. CASE UNCHANGED vars
  BY <1>7 DEF vars, PhaseInv
<1> QED BY <1>1, <1>2, <1>5, <1>6, <1>7 DEF AnyNext, AnyStep, reb_fsm_step

LEMMA PhaseInvariant == AnySpec => [](PhaseInv /\ AfreshBeforeBlocking)
<1>1. Init => PhaseInv
  BY DEF Init, PhaseInv
<1>2. DwellInv => TypeInv /\ AfreshBeforeBlocking
  BY DEF DwellInv
<1> QED BY <1>1, <1>2, PhaseStep, DwellInvariant, PTL DEF AnySpec

\* What a cycle that ends in BLOCKING shows, and what it does to the dwell.
LEMMA DwellCycle ==
    ASSUME TypeInv, AfreshBeforeBlocking, PhaseInv, NEW in \in reb_inputs_t,
           reb_fsm_step(in), state' = "BLOCKING"
    PROVE  LET out == outputs(block_phase)
           IN  \/ /\ state = "BLOCKING" /\ out.block_phase = "PARKED"
                  /\ parked_timer' = parked_timer + 1
               \/ /\ state = "BLOCKING" /\ out.block_phase = "DERATING"
                  /\ parked_timer' = 0
               \/ /\ state = "THEFT_CONFIRMED" /\ out.block_phase = "PREALERT"
                  /\ parked_timer' = 0
<1>1. CASE BlockingContinues(in)
  <2>1. /\ state = "BLOCKING" /\ block_phase' = next_phase(in)
        /\ parked_timer' = next_parked(in) /\ next_parked(in) < T_PARKED_CYCLES
    BY <1>1 DEF BlockingContinues, blocking_goes_on
  <2>2. outputs(block_phase).block_phase = next_phase(in)
    BY <2>1 DEF outputs
  <2>3. parked_timer \in Nat /\ T_PARKED_CYCLES \in Nat
    BY FsmAssumption DEF TypeInv, ContextTypeOK
  <2> QED BY <2>1, <2>2, <2>3 DEF next_phase, next_parked, saturate
<1>2. CASE TheftOwnerConfirms(in) \/ TheftWindowExpires(in) \/ TheftHoldElapses(in)
  <2>1. state = "THEFT_CONFIRMED" /\ parked_timer' = 0
    BY <1>2 DEF TheftOwnerConfirms, TheftWindowExpires, TheftHoldElapses, theft_goes_on,
       enter_blocking
  <2> QED BY <2>1 DEF outputs, PhaseInv
<1>3. CASE keeps_or_advances(in) /\ ~BlockingContinues(in)
           /\ ~(TheftOwnerConfirms(in) \/ TheftWindowExpires(in) \/ TheftHoldElapses(in))
  BY <1>3 DEF keeps_or_advances, IdlePanelActivates, IdleRemoteActivates, IdleSensorsActivate,
     IdleWatches, enter_theft_confirmed, TheftWindowRuns, TheftHolds, theft_stays,
     theft_goes_on, BlockingParks, BlockedStays, do_transition
<1>4. CASE returns(in, FALSE)
  BY <1>4, ReturningSnapshot, ReturnEffect
<1> QED BY <1>1, <1>2, <1>3, <1>4 DEF reb_fsm_step

\* The count agrees with the machine when no request is between its call and
\* its counting; in between, it is what the next points will make of it.
agree ==
    /\ state = "BLOCKING" => parked_cycles = parked_timer
    /\ state \in {"IDLE", "THEFT_CONFIRMED"} => parked_cycles = 0

due(out, count) ==
    IF out.current_state = "BLOCKING" /\ out.block_phase = "PARKED" THEN count + 1
    ELSE IF \/ out.current_state = "BLOCKING" /\ out.block_phase = "DERATING"
            \/ out.current_state \in {"IDLE", "THEFT_CONFIRMED"}
         THEN 0 ELSE count

counted(c) ==
    /\ is_at(c, "clear") => (state = "BLOCKING" => parked_timer = 0)
    /\ is_at(c, "count") => /\ client[c].out.current_state = state
                            /\ state = "BLOCKING"
                                 => due(client[c].out, parked_cycles) = parked_timer
    /\ is_at(c, "store") => state = "BLOCKING" /\ client[c].loaded + 1 = parked_timer
    /\ client[c].pc \in {"cycle", "poll", "answer"} => agree

CountInv ==
    /\ mixed \in BOOLEAN
    /\ ~mixed =>
           /\ \A c, d \in Clients : mutating(c) /\ mutating(d) => c = d
           /\ \A c \in Clients : mutating(c) => counted(c)
           /\ (\A c \in Clients : ~mutating(c)) => agree

\* What a request that is alone is about to answer is still true.
ShownInv ==
    \A c \in Clients : client[c].pc \in {"count", "store", "answer"} /\ alone[c]
                           => client[c].out.current_state \in {state, "IDLE"}

DwellShown == CountInv /\ ShownInv

LEMMA ArriveCounts ==
    ASSUME BackendInv, AloneInv, DwellShown, NEW c \in Clients, NEW r \in ready_t,
           r.kind = "snapshot" => r.pc = "poll",
           r.kind = "step" => r.pc = "cycle",
           r.kind \in restarts => r.pc = "boot",
           arrive(c, r)
    PROVE  DwellShown'
<1>1. /\ client \in [Clients -> ready_t] /\ alone \in [Clients -> BOOLEAN]
      /\ mixed \in BOOLEAN /\ r.kind \in {"snapshot", "step"} \cup restarts
  BY DEF BackendInv, ThreadsTyped, AloneInv, DwellShown, CountInv, ready_t, request_t, kinds,
     restarts
<1> DEFINE moves == r.kind # "snapshot"
<1>2. /\ client[c].pc = "idle"
      /\ client' = [client EXCEPT ![c] = r]
      /\ alone' = [d \in Clients |-> IF d = c THEN ~disturbed(c) ELSE alone[d] /\ ~moves]
      /\ mixed' = IF moves /\ disturbed(c) THEN TRUE
                  ELSE mixed /\ ~(r.kind \in restarts /\ ~disturbed(c))
      /\ UNCHANGED <<state, parked_timer, parked_cycles>>
  BY Zenon DEF arrive, is_at, vars, restarts
<1>3. /\ client'[c] = r /\ \A d \in Clients \ {c} : client'[d] = client[d]
      /\ \A d \in Clients \ {c} : alone'[d] => alone[d]
      /\ ~mutating(c) /\ r.pc \in {"poll", "cycle", "boot"}
  BY <1>1, <1>2 DEF mutating, is_at
<1>4. /\ \A d \in Clients \ {c} : mutating(d)' = mutating(d)
      /\ mutating(c)' => moves
  BY <1>3 DEF mutating, is_at
<1>5. ShownInv'
  BY <1>2, <1>3 DEF DwellShown, ShownInv
<1>6. agree' = agree /\ \A d \in Clients \ {c} : counted(d)' = counted(d)
  BY <1>2, <1>3 DEF agree, counted, due, is_at
<1>7. CASE ~moves
  <2>1. ~mutating(c)' /\ mixed' = mixed
    BY <1>1, <1>2, <1>4, <1>7 DEF restarts
  <2> QED BY <1>1, <1>3, <1>4, <1>5, <1>6, <2>1 DEF DwellShown, CountInv
<1>8. CASE moves /\ disturbed(c)
  BY <1>2, <1>5, <1>8 DEF DwellShown, CountInv
<1>9. CASE moves /\ ~disturbed(c)
  <2>1. /\ mixed' \in BOOLEAN
        /\ ~mixed' => ~mixed \/ r.kind \in restarts
        /\ \A d \in Clients \ {c} : ~mutating(d) /\ ~mutating(d)'
    BY <1>1, <1>2, <1>4, <1>9 DEF disturbed
  <2>2. ~mixed => agree
    BY <1>3, <2>1 DEF DwellShown, CountInv
  <2>3. ~mixed' => counted(c)'
    BY <1>1, <1>3, <1>6, <1>9, <2>1, <2>2 DEF counted, is_at, restarts
  <2>4. mutating(c)'
    BY <1>3, <1>9 DEF mutating, is_at
  <2> QED BY <1>5, <2>1, <2>3, <2>4 DEF DwellShown, CountInv
<1> QED BY <1>7, <1>8, <1>9

\* A step of a thread: one that moves the machine or the count is the only one,
\* unless requests have been mixed.
LEMMA ThreadCounts ==
    ASSUME BackendInv, AloneInv, DwellShown, NEW c \in Clients, NEW r \in ready_t,
           client[c].pc # "idle", r.pc # "idle", r.kind = client[c].kind,
           client' = [client EXCEPT ![c] = r], UNCHANGED <<alone, mixed>>,
           mutating(c) \/ UNCHANGED <<state, parked_timer, parked_cycles>>,
           mutating(c) /\ ~mixed /\ counted(c) => counted(c)',
           r.pc \in {"count", "store", "answer"} /\ alone[c]
               => r.out.current_state \in {state', "IDLE"}
    PROVE  DwellShown'
<1>1. /\ client \in [Clients -> ready_t] /\ mixed \in BOOLEAN
      /\ client'[c] = r /\ \A d \in Clients \ {c} : client'[d] = client[d]
  BY DEF BackendInv, ThreadsTyped, DwellShown, CountInv
<1>2. \A d \in Clients : mutating(d)' = mutating(d)
  BY <1>1 DEF mutating, is_at
<1>3. UNCHANGED <<state, parked_timer, parked_cycles>>
         => agree' = agree /\ \A d \in Clients \ {c} : counted(d)' = counted(d)
  BY <1>1 DEF agree, counted, due, is_at
<1>4. ASSUME NEW d \in Clients, client'[d].pc \in {"count", "store", "answer"}, alone'[d]
      PROVE  client'[d].out.current_state \in {state', "IDLE"}
  <2>1. CASE d = c
    BY <1>1, <1>4, <2>1
  <2>2. CASE d # c
    <3>1. ~mutating(c) /\ client'[d] = client[d]
      BY <1>1, <1>4, <2>2 DEF AloneInv
    <3> QED BY <1>4, <3>1 DEF DwellShown, ShownInv
  <2> QED BY <2>1, <2>2
<1>5. ASSUME ~mixed
      PROVE  /\ \A d \in Clients : mutating(d)' => counted(d)'
             /\ (\A d \in Clients : ~mutating(d)') => agree'
  <2>1. CASE mutating(c)
    <3>1. \A d \in Clients \ {c} : ~mutating(d)
      BY <1>5, <2>1 DEF DwellShown, CountInv
    <3>2. counted(c)'
      BY <1>5, <2>1 DEF DwellShown, CountInv
    <3> QED BY <1>2, <2>1, <3>1, <3>2
  <2>2. CASE ~mutating(c)
    BY <1>2, <1>3, <1>5, <2>2 DEF DwellShown, CountInv
  <2> QED BY <2>1, <2>2
<1> QED BY <1>1, <1>2, <1>4, <1>5 DEF DwellShown, CountInv, ShownInv

LEMMA CycleCounts ==
    ASSUME BackendInv, BackendInv', AfreshBeforeBlocking, PhaseInv, AloneInv, DwellShown,
           NEW c \in Clients, Cycle(c)
    PROVE  DwellShown'
<1>1. /\ client \in [Clients -> ready_t] /\ client[c] \in request_t
      /\ wellformed(client[c]) /\ client' \in [Clients -> ready_t]
      /\ parked_cycles \in 0..COUNT_LIMIT /\ TypeInv /\ TypeInv'
  BY DEF BackendInv, ThreadsTyped, ready_t
<1> DEFINE r == [client[c] EXCEPT !.pc = "count", !.out = outputs(block_phase), !.done = @ + 1]
<1>2. /\ client[c].pc = "cycle" /\ client' = [client EXCEPT ![c] = r]
      /\ UNCHANGED <<alone, mixed, parked_cycles>>
  BY Zenon DEF Cycle, is_at
<1>3. PICK in \in reb_inputs_t : reb_fsm_step(in)
  <2>1. PICK trusts \in BOOLEAN : reb_fsm_step(cycle_inputs(client[c], trusts))
    BY Zenon DEF Cycle
  <2> QED BY <1>1, <2>1, CycleInput DEF BackendInv, ThreadsTyped
<1>4. r.pc = "count" /\ r.kind = client[c].kind /\ r.out = outputs(block_phase)
  BY <1>1, Zenon DEF request_t
<1> HIDE DEF r
<1>5. client'[c] = r /\ r \in ready_t
  BY <1>1, <1>2
<1>6. mutating(c)
  BY <1>1, <1>2 DEF mutating, is_at, wellformed
<1>7. r.out.current_state = state'
  BY <1>1, <1>4, CycleOutputs
<1>8. ASSUME counted(c)
      PROVE  counted(c)'
  <2>1. agree
    BY <1>2, <1>8 DEF counted
  <2>2. ASSUME state' = "BLOCKING"
        PROVE  due(r.out, parked_cycles) = parked_timer'
    <3>1. \/ /\ state = "BLOCKING" /\ r.out.block_phase = "PARKED"
             /\ parked_timer' = parked_timer + 1
          \/ /\ state = "BLOCKING" /\ r.out.block_phase = "DERATING"
             /\ parked_timer' = 0
          \/ /\ state = "THEFT_CONFIRMED" /\ r.out.block_phase = "PREALERT"
             /\ parked_timer' = 0
      BY <1>1, <1>3, <1>4, <2>2, DwellCycle
    <3>2. r.out.current_state = "BLOCKING"
      BY <1>7, <2>2
    <3> QED BY <2>1, <3>1, <3>2 DEF due, agree
  <2>3. client'[c].pc = "count" /\ client'[c].out = r.out /\ parked_cycles' = parked_cycles
    BY <1>2, <1>4, <1>5
  <2> QED BY <1>7, <2>2, <2>3 DEF counted, is_at
<1> QED BY <1>2, <1>4, <1>5, <1>6, <1>7, <1>8, ThreadCounts

LEMMA BootCounts ==
    ASSUME BackendInv, BackendInv', AfreshBeforeBlocking, AloneInv, DwellShown,
           NEW c \in Clients, Boot(c)
    PROVE  DwellShown'
<1>1. /\ client \in [Clients -> ready_t] /\ client[c] \in request_t
      /\ wellformed(client[c]) /\ client' \in [Clients -> ready_t]
  BY DEF BackendInv, ThreadsTyped, ready_t
<1> DEFINE r == [client[c] EXCEPT !.pc = "clear"]
<1>2. /\ client[c].pc = "boot" /\ client' = [client EXCEPT ![c] = r]
      /\ UNCHANGED <<alone, mixed>>
      /\ PowerCycle \/ FactoryReset
  BY Zenon DEF Boot, is_at, go
<1>3. r.pc = "clear" /\ r.kind = client[c].kind
  BY <1>1, Zenon DEF request_t
<1> HIDE DEF r
<1>4. client'[c] = r /\ r \in ready_t
  BY <1>1, <1>2
<1>5. mutating(c)
  BY <1>1, <1>2 DEF mutating, is_at, wellformed, restarts
<1>6. state' = "BLOCKING" => parked_timer' = 0
  <2>1. factory_defaults.parked_timer = 0
    BY DEF factory_defaults, snapshot
  <2> QED BY <1>2, <2>1 DEF PowerCycle, FactoryReset, boot, AfreshBeforeBlocking
<1>7. counted(c)'
  BY <1>3, <1>4, <1>6 DEF counted, is_at
<1> QED BY <1>2, <1>3, <1>4, <1>5, <1>7, ThreadCounts

LEMMA PointCounts ==
    ASSUME BackendInv, BackendInv', PollsShowTheMachine, AloneInv, DwellShown,
           NEW c \in Clients,
           ClearCount(c) \/ CountParked(c) \/ StoreCount(c) \/ CountOther(c) \/ Poll(c)
    PROVE  DwellShown'
<1>1. /\ client \in [Clients -> ready_t] /\ client[c] \in request_t
      /\ wellformed(client[c]) /\ client' \in [Clients -> ready_t]
      /\ parked_cycles \in 0..COUNT_LIMIT /\ parked_timer \in 0..T_PARKED_CYCLES
  BY DEF BackendInv, ThreadsTyped, ready_t, TypeInv, ContextTypeOK
<1>2. PICK r : client' = [client EXCEPT ![c] = r]
  BY Zenon DEF ClearCount, CountParked, StoreCount, CountOther, Poll, go
<1>3. client'[c] = r /\ r \in ready_t
  BY <1>1, <1>2
<1>4. UNCHANGED <<state, parked_timer, alone, mixed>>
  BY Zenon DEF ClearCount, CountParked, StoreCount, CountOther, Poll, vars, history
<1>5. ASSUME ShownInv, alone[c], client[c].pc \in {"count", "store"}
      PROVE  client[c].out.current_state \in {state', "IDLE"}
  BY <1>4, <1>5 DEF ShownInv
<1>6. after_cycle(client[c]) \in {"cycle", "answer", "poll"}
  BY <1>1 DEF after_cycle, request_t
<1>7. CASE ClearCount(c)
  <2>1. /\ client[c].pc = "clear" /\ r.pc = "cycle" /\ r.kind = client[c].kind
        /\ parked_cycles' = 0
    BY <1>1, <1>3, <1>7 DEF ClearCount, count_at_start, go, is_at, request_t
  <2>2. mutating(c)
    BY <1>1, <2>1 DEF mutating, is_at, wellformed, restarts
  <2>3. counted(c) => counted(c)'
    BY <1>3, <1>4, <2>1 DEF counted, agree, is_at
  <2> QED BY <1>2, <1>3, <1>4, <2>1, <2>2, <2>3, ThreadCounts
<1>8. CASE CountParked(c)
  <2>1. /\ client[c].pc = "count" /\ r.pc = "store" /\ r.kind = client[c].kind
        /\ r.out = client[c].out /\ r.loaded = parked_cycles
        /\ UNCHANGED <<state, parked_timer, parked_cycles>>
    BY <1>1, <1>3, <1>4, <1>8 DEF CountParked, is_at, request_t
  <2>2. client[c].out.current_state = "BLOCKING" /\ client[c].out.block_phase = "PARKED"
    BY <1>8 DEF CountParked, shows
  <2>3. counted(c) => counted(c)'
    BY <1>3, <2>1, <2>2 DEF counted, due, is_at
  <2> QED BY <1>2, <1>3, <1>4, <1>5, <2>1, <2>3, ThreadCounts DEF DwellShown
<1>9. CASE StoreCount(c)
  <2>1. /\ client[c].pc = "store" /\ r.pc = after_cycle(client[c]) /\ r.kind = client[c].kind
        /\ r.out = client[c].out
        /\ parked_cycles' = saturate(client[c].loaded + 1, COUNT_LIMIT)
    BY <1>1, <1>3, <1>9 DEF StoreCount, is_at, request_t
  <2>2. mutating(c)
    BY <1>1, <2>1 DEF mutating, is_at, wellformed
  <2>3. ASSUME counted(c)
        PROVE  counted(c)'
    <3>1. state = "BLOCKING" /\ client[c].loaded + 1 = parked_timer
      BY <2>1, <2>3 DEF counted, is_at
    <3>2. parked_cycles' = parked_timer
      BY <1>1, <2>1, <3>1, FsmAssumption DEF saturate, COUNT_LIMIT
    <3>3. agree'
      BY <1>4, <3>1, <3>2 DEF agree
    <3> QED BY <1>3, <1>6, <2>1, <3>3 DEF counted, is_at
  <2> QED BY <1>2, <1>3, <1>4, <1>5, <1>6, <2>1, <2>2, <2>3, ThreadCounts DEF DwellShown
<1>10. CASE CountOther(c)
  <2>1. /\ client[c].pc = "count" /\ r.pc = after_cycle(client[c]) /\ r.kind = client[c].kind
        /\ r.out = client[c].out
    BY <1>1, <1>3, <1>10 DEF CountOther, go, is_at, request_t
  <2>2. mutating(c)
    BY <1>1, <2>1 DEF mutating, is_at, wellformed
  <2>3. parked_cycles' = due(client[c].out, parked_cycles)
    BY <1>10 DEF CountOther, shows, due
  <2>4. ASSUME counted(c)
        PROVE  counted(c)'
    <3>1. /\ client[c].out.current_state = state
          /\ state = "BLOCKING" => due(client[c].out, parked_cycles) = parked_timer
      BY <2>1, <2>4 DEF counted, is_at
    <3>2. state \in {"IDLE", "THEFT_CONFIRMED"} => due(client[c].out, parked_cycles) = 0
      BY <3>1 DEF due
    <3>3. agree'
      BY <1>4, <2>3, <3>1, <3>2 DEF agree
    <3> QED BY <1>3, <1>6, <2>1, <3>3 DEF counted, is_at
  <2> QED BY <1>2, <1>3, <1>4, <1>5, <1>6, <2>1, <2>2, <2>4, ThreadCounts DEF DwellShown
<1>11. CASE Poll(c)
  <2>1. /\ client[c].pc = "poll" /\ r.pc = "answer" /\ r.kind = client[c].kind
        /\ r.out = last_out
        /\ UNCHANGED <<state, parked_timer, parked_cycles>>
    BY <1>1, <1>3, <1>4, <1>11 DEF Poll, is_at, request_t
  <2>2. last_out.current_state \in {state', "IDLE"}
    BY <2>1 DEF PollsShowTheMachine, no_outputs
  <2>3. counted(c) => counted(c)'
    BY <1>3, <2>1 DEF counted, agree, is_at
  <2> QED BY <1>2, <1>3, <1>4, <2>1, <2>2, <2>3, ThreadCounts
<1> QED BY <1>7, <1>8, <1>9, <1>10, <1>11

LEMMA AnswerCounts ==
    ASSUME BackendInv, AloneInv, DwellShown, NEW c \in Clients, Answer(c)
    PROVE  DwellShown'
<1>1. client \in [Clients -> ready_t] /\ alone \in [Clients -> BOOLEAN]
  BY DEF BackendInv, ThreadsTyped, AloneInv
<1>2. /\ client[c].pc = "answer" /\ client' = [client EXCEPT ![c] = no_request]
      /\ alone' = [alone EXCEPT ![c] = TRUE]
      /\ UNCHANGED <<state, parked_timer, parked_cycles, mixed>>
  BY Zenon DEF Answer, is_at, vars
<1>3. /\ client'[c].pc = "idle"
      /\ \A d \in Clients \ {c} : client'[d] = client[d] /\ alone'[d] = alone[d]
  BY <1>1, <1>2, NoRequestReady
<1>4. ~mutating(c)' /\ \A d \in Clients \ {c} : mutating(d)' = mutating(d)
  BY <1>3 DEF mutating, is_at
<1>5. ShownInv'
  BY <1>2, <1>3 DEF DwellShown, ShownInv
<1>6. agree' = agree /\ \A d \in Clients \ {c} : counted(d)' = counted(d)
  BY <1>2, <1>3 DEF agree, counted, due, is_at
<1>7. ASSUME ~mixed, \A d \in Clients \ {c} : ~mutating(d)
      PROVE  agree
  <2>1. CASE mutating(c)
    BY <1>2, <1>7, <2>1 DEF DwellShown, CountInv, counted
  <2>2. CASE ~mutating(c)
    BY <1>7, <2>2 DEF DwellShown, CountInv
  <2> QED BY <2>1, <2>2
<1>8. CountInv'
  BY <1>2, <1>4, <1>6, <1>7 DEF DwellShown, CountInv
<1> QED BY <1>5, <1>8 DEF DwellShown

LEMMA DwellShownStep ==
    ASSUME BackendInv, BackendInv', AfreshBeforeBlocking, PhaseInv, PollsShowTheMachine,
           AloneInv, DwellShown, [BackendNext]_backend_vars
    PROVE  DwellShown'
<1>1. ASSUME NEW c \in Clients, NEW kind, NEW pc, NEW payload, NEW cycles,
             arrive(c, request(kind, pc, payload, cycles)),
             kind = "snapshot" => pc = "poll",
             kind = "step" => pc = "cycle",
             kind \in restarts => pc = "boot"
      PROVE  DwellShown'
  <2> DEFINE r == request(kind, pc, payload, cycles)
  <2>1. r.kind = kind /\ r.pc = pc /\ arrive(c, r)
    BY <1>1 DEF request
  <2> HIDE DEF r
  <2>2. client' = [client EXCEPT ![c] = r]
    BY <2>1, Zenon DEF arrive
  <2>3. client \in [Clients -> ready_t] /\ client' \in [Clients -> ready_t]
    BY DEF BackendInv, ThreadsTyped
  <2>4. client'[c] = r
    BY <2>2, <2>3
  <2>5. r \in ready_t
    BY <2>3, <2>4
  <2> QED BY <1>1, <2>1, <2>5, ArriveCounts
<1>2. ASSUME NEW c \in Clients, PostStep(c) \/ PostRestart(c) \/ GetSnapshot(c)
      PROVE  DwellShown'
  BY <1>1, <1>2 DEF PostStep, PostRestart, GetSnapshot, restarts
<1>3. ASSUME NEW c \in Clients, serve(c) PROVE DwellShown'
  BY <1>2, <1>3, BootCounts, CycleCounts, PointCounts, AnswerCounts DEF serve
<1>4. CASE UNCHANGED backend_vars
  <2>1. UNCHANGED <<state, parked_timer, parked_cycles, client, alone, mixed>>
    BY <1>4, Zenon DEF backend_vars, vars, history
  <2> QED BY <2>1 DEF DwellShown, CountInv, ShownInv, mutating, counted, agree, due, is_at
<1> QED BY <1>3, <1>4 DEF BackendNext

\* The dwell the cockpit shows of a blocking machine is the one the machine
\* counts, in every answer no other request has run beside since the last
\* restart that was alone (RebLib.step against during_blocking).
THEOREM DwellIsShown == BackendSpec => []ShownDwellIsTheMachines
<1>1. BackendInit => DwellShown
  <2> SUFFICES ASSUME BackendInit PROVE DwellShown
    OBVIOUS
  <2>1. \A c \in Clients : client[c].pc = "idle"
    BY NoRequestReady DEF BackendInit
  <2> QED BY <2>1 DEF BackendInit, Init, DwellShown, CountInv, ShownInv, mutating, is_at, agree
<1>2. BackendInv /\ BackendInv' /\ AfreshBeforeBlocking /\ PhaseInv /\ PollsShowTheMachine
        /\ AloneInv /\ DwellShown /\ [BackendNext]_backend_vars => DwellShown'
  BY DwellShownStep
<1>3. AloneInv /\ DwellShown => ShownDwellIsTheMachines
  <2> SUFFICES ASSUME AloneInv, DwellShown, NEW c \in Clients, client[c].pc = "answer",
                      alone[c], ~mixed, client[c].out.current_state = "BLOCKING"
               PROVE  parked_cycles = parked_timer
    BY DEF ShownDwellIsTheMachines, is_at
  <2>1. state = "BLOCKING"
    BY DEF DwellShown, ShownInv
  <2>2. \A d \in Clients \ {c} : ~mutating(d)
    BY DEF AloneInv
  <2>3. agree
    BY <2>2 DEF DwellShown, CountInv, counted
  <2> QED BY <2>1, <2>3 DEF agree
<1>4. BackendSpec => [](PhaseInv /\ AfreshBeforeBlocking)
  BY BackendImplementsFsm, PhaseInvariant, PTL
<1>5. BackendSpec => []AloneInv
  BY AloneInvariant
<1> QED BY <1>1, <1>2, <1>3, <1>4, <1>5, BackendInvariant, PollsShow, PTL DEF BackendSpec
=============================================================================
