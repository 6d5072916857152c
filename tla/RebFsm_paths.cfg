\* All activation paths, every panel button and sensor reading, with power cycles between cycles, timed.
SPECIFICATION TimedSpec
CONSTANTS
    Inputs <- LocalInputs
    PANEL_PASSWORD_HASH = "RIGHT"
    MAX_AUTH_ATTEMPTS = 2
    LOCKOUT_CYCLES = 2
    CYCLES_PER_SECOND = 2
    FUSION_W_GLASS = 60
    FUSION_W_ACCEL = 40
    FUSION_THRESH = 7000
    FUSION_THRESH_HYST_LOW = 4000
    FUSION_DEBOUNCE_CYCLES = 2
    T_REVERSAL_CYCLES = 2
    MAX_NONCE = 1
    NONCE_WINDOW_MS = 2
    DERATE_PCT_INIT = 6
    FUEL_FLOOR_PCT = 3
    V_STOP = 5
    RETRANSMIT_BLOCK_TIMEOUT_CYCLES = 2
    HORN_HALF_PERIOD_CYCLES = 2
    T_PARKED_CYCLES = 2
    T_MIN_AFTER_CYCLES = 2
    RAMP_SCALE = 2
    DERATE_STEP = 3
    STATUS_PERIOD_CYCLES = 1
    DERATE_CMD_PERIOD_CYCLES = 1
INVARIANT TypeOK
INVARIANT FuelFollowsRamp
INVARIANT AlertsOnlyForAutomatic
PROPERTY KeepsPromise
PROPERTY BlockedAfterDwell
PROPERTY RampStartsFull
INVARIANT TheftEndsInTime
INVARIANT BlockedInTime
INVARIANT FuelOnSchedule
INVARIANT LockoutKeepsTime
