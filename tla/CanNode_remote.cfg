\* Commands, acknowledgements, panel and speed frames.
SPECIFICATION CanSpec
CONSTANTS
    Inputs = {}
    Frames <- RemoteFrames
    Times <- Now
    Local <- RemoteLocal
    Verdicts <- Trusted
    BYTE = 8
    CAN_CODEC_DERATE_PCT_MAX = 4
    SHOCK_PCT = 10
    PANEL_PASSWORD_HASH = "RIGHT"
    MAX_AUTH_ATTEMPTS = 1
    LOCKOUT_CYCLES = 1
    CYCLES_PER_SECOND = 2
    FUSION_W_GLASS = 60
    FUSION_W_ACCEL = 40
    FUSION_THRESH = 7000
    FUSION_THRESH_HYST_LOW = 4000
    FUSION_DEBOUNCE_CYCLES = 1
    T_REVERSAL_CYCLES = 1
    MAX_NONCE = 63
    NONCE_WINDOW_MS = 2
    DERATE_PCT_INIT = 4
    FUEL_FLOOR_PCT = 1
    V_STOP = 50
    RETRANSMIT_BLOCK_TIMEOUT_CYCLES = 1
    HORN_HALF_PERIOD_CYCLES = 1
    T_PARKED_CYCLES = 1
    T_MIN_AFTER_CYCLES = 1
    RAMP_SCALE = 1
    DERATE_STEP = 1
    STATUS_PERIOD_CYCLES = 2
    DERATE_CMD_PERIOD_CYCLES = 2
INVARIANT CanTypeOK
INVARIANT StatusReachesPeers
INVARIANT FuelCommandReachesPeers
PROPERTY OnlyTheLastOrderIsObeyed
