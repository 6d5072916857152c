\* A power cycle during a panel lockout.
SPECIFICATION RestartSpec
CONSTANTS
    Inputs <- PanelInputs
    PANEL_PASSWORD_HASH = "RIGHT"
    MAX_AUTH_ATTEMPTS = 2
    LOCKOUT_CYCLES = 5
    CYCLES_PER_SECOND = 2
    FUSION_W_GLASS = 60
    FUSION_W_ACCEL = 40
    FUSION_THRESH = 7000
    FUSION_THRESH_HYST_LOW = 4000
    FUSION_DEBOUNCE_CYCLES = 2
    T_REVERSAL_CYCLES = 3
    MAX_NONCE = 0
    NONCE_WINDOW_MS = 2
    DERATE_PCT_INIT = 8
    FUEL_FLOOR_PCT = 2
    V_STOP = 5
    RETRANSMIT_BLOCK_TIMEOUT_CYCLES = 1
    HORN_HALF_PERIOD_CYCLES = 2
    T_PARKED_CYCLES = 2
    T_MIN_AFTER_CYCLES = 2
    RAMP_SCALE = 2
    DERATE_STEP = 3
    STATUS_PERIOD_CYCLES = 1
    DERATE_CMD_PERIOD_CYCLES = 1
PROPERTY LockoutIsServed
