\* Two browser tabs.
SPECIFICATION BackendSpec
CONSTANTS
    Payloads <- Requests
    Inputs = {}
    Clients = {tab1, tab2}
    MaxCycles = 2
    PANEL_PASSWORD_HASH = "RIGHT"
    MAX_AUTH_ATTEMPTS = 1
    LOCKOUT_CYCLES = 1
    CYCLES_PER_SECOND = 2
    FUSION_W_GLASS = 60
    FUSION_W_ACCEL = 40
    FUSION_THRESH = 7000
    FUSION_THRESH_HYST_LOW = 4000
    FUSION_DEBOUNCE_CYCLES = 1
    T_REVERSAL_CYCLES = 1
    MAX_NONCE = 2
    NONCE_WINDOW_MS = 2
    DERATE_PCT_INIT = 2
    FUEL_FLOOR_PCT = 1
    V_STOP = 5
    RETRANSMIT_BLOCK_TIMEOUT_CYCLES = 1
    HORN_HALF_PERIOD_CYCLES = 1
    T_PARKED_CYCLES = 3
    T_MIN_AFTER_CYCLES = 1
    RAMP_SCALE = 1
    DERATE_STEP = 1
    STATUS_PERIOD_CYCLES = 1
    DERATE_CMD_PERIOD_CYCLES = 1
SYMMETRY Tabs
INVARIANT BackendTypeOK
INVARIANT PollsShowTheMachine
INVARIANT ShownDwellIsTheMachines
INVARIANT ObeyedOncePerRequest
INVARIANT BlockedSurvivesRestart
