------------------------------ MODULE EventLog ------------------------------
(***************************************************************************)
(* The event log: the ring of event_log.c, the part of the snapshot that   *)
(* persist_state copies out of it and reb_fsm_init copies back, and the    *)
(* reader of the bridge.  The state machine may write any record at any    *)
(* time; a record is reduced to its event code.                            *)
(***************************************************************************)
EXTENDS Naturals, Sequences

CONSTANTS
    Events,                     \* the event codes the state machine writes
    EVT_NVM_WRITE, EVT_NVM_RESTORE,
    ZEROED,                     \* a record of memset
    EVENT_LOG_MAX_ENTRIES,      \* 256
    NVM_LOG_SNAPSHOT_ENTRIES    \* 32

ASSUME EventLogAssumption ==
    /\ EVENT_LOG_MAX_ENTRIES \in Nat \ {0}
    /\ NVM_LOG_SNAPSHOT_ENTRIES \in 1..EVENT_LOG_MAX_ENTRIES

event_record_t == Events \cup {EVT_NVM_WRITE, EVT_NVM_RESTORE, ZEROED}

Slots == 0..(EVENT_LOG_MAX_ENTRIES - 1)

VARIABLES
    entries, head, count,       \* event_log_ctx_t
    nvm_sim_valid,
    log_entries, log_head       \* of nvm_data_t

log_vars == <<entries, head, count>>
nvm_vars == <<nvm_sim_valid, log_entries, log_head>>
vars     == <<entries, head, count, nvm_sim_valid, log_entries, log_head>>

zeroed(n) == [i \in 0..(n - 1) |-> ZEROED]

-----------------------------------------------------------------------------
(* The ring *)

next_slot(h) == (h + 1) % EVENT_LOG_MAX_ENTRIES

evlog_init ==
    /\ entries' = zeroed(EVENT_LOG_MAX_ENTRIES)
    /\ head' = 0
    /\ count' = 0

\* evlog_write of rec on a ring <e, h, c>.
counted_always(c) == c + 1      \* mutant: the count does not stop at the capacity
counted(c)        == IF c < EVENT_LOG_MAX_ENTRIES THEN c + 1 ELSE c
written(e, h, c, rec) ==
    /\ entries' = [e EXCEPT ![h] = rec]
    /\ head' = next_slot(h)
    /\ count' = counted(c)

\* The slots the two readers read, below count.
evlog_get(idx)             == entries[idx % EVENT_LOG_MAX_ENTRIES]
recent_slot_off(back_idx)  ==   \* mutant: reads the slot written next
    (head + EVENT_LOG_MAX_ENTRIES - back_idx) % EVENT_LOG_MAX_ENTRIES
recent_slot(back_idx)      ==
    (head + EVENT_LOG_MAX_ENTRIES - 1 - back_idx) % EVENT_LOG_MAX_ENTRIES
evlog_get_recent(back_idx) == entries[recent_slot(back_idx)]

-----------------------------------------------------------------------------
(* Its snapshot *)

\* evlog_write: any record but the two the log's own operations write.
Record == \E e \in Events : written(entries, head, count, e) /\ UNCHANGED nvm_vars

saved_entries ==
    IF count < NVM_LOG_SNAPSHOT_ENTRIES THEN count ELSE NVM_LOG_SNAPSHOT_ENTRIES

\* The newest records, oldest first, and then the record of the write itself.
persist_state ==
    /\ log_entries' = [i \in 0..(NVM_LOG_SNAPSHOT_ENTRIES - 1) |->
                          IF i < saved_entries THEN evlog_get_recent(saved_entries - 1 - i)
                          ELSE ZEROED]
    /\ log_head' = saved_entries
    /\ nvm_sim_valid' = TRUE
    /\ written(entries, head, count, EVT_NVM_WRITE)

\* reb_fsm_init: an empty log, or the snapshot and the record of its restore.
restored_entries ==
    [i \in Slots |-> IF i < log_head THEN log_entries[i] ELSE ZEROED]
PowerCycle ==
    /\ UNCHANGED nvm_vars
    /\ IF nvm_sim_valid
       THEN written(restored_entries, log_head % EVENT_LOG_MAX_ENTRIES, log_head,
                    EVT_NVM_RESTORE)
       ELSE evlog_init

\* nvm_invalidate before reb_fsm_init.
FactoryReset ==
    /\ evlog_init
    /\ nvm_sim_valid' = FALSE
    /\ log_entries' = zeroed(NVM_LOG_SNAPSHOT_ENTRIES)
    /\ log_head' = 0

Init ==
    /\ entries = zeroed(EVENT_LOG_MAX_ENTRIES)
    /\ head = 0
    /\ count = 0
    /\ nvm_sim_valid = FALSE
    /\ log_entries = zeroed(NVM_LOG_SNAPSHOT_ENTRIES)
    /\ log_head = 0

Next == Record \/ persist_state \/ PowerCycle \/ FactoryReset

Spec == Init /\ [][Next]_vars

-----------------------------------------------------------------------------
(* The reader of the bridge *)

\* reb_bridge_get_logs, which the backend calls with at most count entries.
reb_bridge_get_logs_late(max_entries) ==        \* mutant: starts one record late
    [i \in 1..max_entries |-> evlog_get(count - max_entries + i)]
reb_bridge_get_logs(max_entries) ==
    [i \in 1..max_entries |-> evlog_get(count - max_entries + i - 1)]

-----------------------------------------------------------------------------
(* Properties *)

TypeOK ==
    /\ entries \in [Slots -> event_record_t]
    /\ head \in Slots
    /\ count \in 0..EVENT_LOG_MAX_ENTRIES
    /\ nvm_sim_valid \in BOOLEAN
    /\ log_entries \in [0..(NVM_LOG_SNAPSHOT_ENTRIES - 1) -> event_record_t]
    /\ log_head \in 0..NVM_LOG_SNAPSHOT_ENTRIES

\* TypeOK, and: until the ring is full it is filled from slot 0, after a restore
\* as well, so the readers never see a slot that was not written.
RingOK ==
    /\ TypeOK
    /\ count < EVENT_LOG_MAX_ENTRIES => head = count

\* The records oldest first, as evlog_get_recent tells them.
log == [i \in 1..count |-> evlog_get_recent(count - i)]

Promise == INSTANCE RecentRecords WITH
    Records      <- Events,
    SAVED        <- EVT_NVM_WRITE,
    RESTORED     <- EVT_NVM_RESTORE,
    Capacity     <- EVENT_LOG_MAX_ENTRIES,
    SaveCapacity <- NVM_LOG_SNAPSHOT_ENTRIES,
    shown        <- log,
    saved        <- [i \in 1..log_head |-> log_entries[i - 1]],
    is_saved     <- nvm_sim_valid

\* The log always shows the newest records in order, through the wrap of the
\* ring and through any number of saves and restarts (evlog_write,
\* evlog_get_recent, persist_state, reb_fsm_init).
KeepsRecentRecords == Promise!Spec

\* The bridge returns the most recent records, oldest first, as long as slot order
\* is age order: until the ring wraps, on a ring restored from a snapshot too, and
\* whenever the next record would go to slot 0.  Past the wrap it does not:
\* evlog_get counts from slot 0 and not from the oldest record.
BridgeShowsRecent ==
    count < EVENT_LOG_MAX_ENTRIES \/ head = 0 =>
        \A n \in 1..count : reb_bridge_get_logs(n) = Promise!newest(log, n)
=============================================================================
