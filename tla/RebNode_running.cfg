\* A moving vehicle without power cycles.
SPECIFICATION NodeRunningSpec
CONSTANTS
    Inputs <- PressedInputs
    Signals <- DrivingSignals
    PANEL_PASSWORD_HASH = "RIGHT"
    MAX_AUTH_ATTEMPTS = 1
    LOCKOUT_CYCLES = 1
    CYCLES_PER_SECOND = 2
    FUSION_W_GLASS = 60
    FUSION_W_ACCEL = 40
    FUSION_THRESH = 7000
    FUSION_THRESH_HYST_LOW = 4000
    FUSION_DEBOUNCE_CYCLES = 1
    T_REVERSAL_CYCLES = 2
    MAX_NONCE = 1
    NONCE_WINDOW_MS = 2
    DERATE_PCT_INIT = 4
    FUEL_FLOOR_PCT = 2
    V_STOP = 5
    RETRANSMIT_BLOCK_TIMEOUT_CYCLES = 1
    HORN_HALF_PERIOD_CYCLES = 1
    T_PARKED_CYCLES = 2
    T_MIN_AFTER_CYCLES = 2
    RAMP_SCALE = 2
    DERATE_STEP = 3
    STATUS_PERIOD_CYCLES = 2
    DERATE_CMD_PERIOD_CYCLES = 1
    NAN = NAN
    UINT8_RANGE = 4
    SPD_JITTER_LIMIT = 2
    IGN_JITTER_LIMIT = 2
    BRK_JITTER_LIMIT = 2
    PWT_RECOVERY_CYCLES = 3
    ACK_TIMEOUT_CYCLES = 2
    MAX_RETRIES = 2
INVARIANT BlockingOnlyWhileTrusted
PROPERTY BlockingKeptOnSteadySignals
PROPERTY SteadySignalsAreTrusted
