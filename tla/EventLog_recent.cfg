\* Two events, a ring of four and a snapshot of three, saves, restarts and resets at any time.
SPECIFICATION Spec
CONSTANTS
    Events = {EVT_AUTH_FAIL, EVT_STATE_TRANSITION}
    EVT_NVM_WRITE = EVT_NVM_WRITE
    EVT_NVM_RESTORE = EVT_NVM_RESTORE
    ZEROED = ZEROED
    EVENT_LOG_MAX_ENTRIES = 4
    NVM_LOG_SNAPSHOT_ENTRIES = 3
INVARIANT RingOK
INVARIANT BridgeShowsRecent
PROPERTY KeepsRecentRecords
