------------------------------- MODULE CanCodec -------------------------------
(***************************************************************************)
(* What the bytes of a frame mean (can_codec.c) and the two dispatchers    *)
(* above the codec, can_rx_process_frame (can_rx_dev.c) and                *)
(* can_tx_build_frame (can_tx.c).  C enumerations are their numbers: the   *)
(* decoders cast a byte to one without a check.  Null pointers are left    *)
(* out; which error a refused frame gets does not matter, since the        *)
(* documented loop of can_v3_adapter.h looks at none.                      *)
(***************************************************************************)
EXTENDS CanFrames

CONSTANT CAN_CODEC_DERATE_PCT_MAX       \* 100

ASSUME CodecAssumption == CAN_CODEC_DERATE_PCT_MAX \in byte /\ BYTE > 3

can_codec_read_u16_wide(data, i) == data[i] + BYTE * BYTE * data[i + 1] \* mutant: << 16
can_codec_read_u16_le(data, i) == data[i] + BYTE * data[i + 1]
can_codec_read_u32_le(data, i) ==
    can_codec_read_u16_le(data, i) + BYTE * BYTE * can_codec_read_u16_le(data, i + 2)

\* The two bytes of a 16-bit value.
can_codec_write_u16_le(value) == <<value % BYTE, (value \div BYTE) % BYTE>>

-----------------------------------------------------------------------------
(* Decoders *)

\* can_codec_validate_rx_frame: a remote frame is as good as a data frame.
can_codec_validate_rx_frame(frame, m) ==
    /\ can_frame_is_valid(frame)
    /\ g_can_msg_table[m].direction = "RX"
    /\ carries(frame, m)
    /\ frame.dlc = g_can_msg_table[m].dlc

can_codec_decode_reb_cmd(data) ==
    [ cmd_type      |-> data[0],
      cmd_mode      |-> data[1],
      cmd_nonce     |-> can_codec_read_u16_le(data, 2),
      cmd_timestamp |-> can_codec_read_u32_le(data, 4) ]

can_codec_decode_tcu_to_reb(data) ==
    [ tcu_cmd        |-> data[0],
      fail_reason    |-> data[1],
      echo_timestamp |-> can_codec_read_u32_le(data, 2) ]

can_codec_decode_vehicle_state(data) ==
    [ vehicle_speed_centi_kmh |-> can_codec_read_u16_le(data, 0),
      ignition_on             |-> data[2],
      engine_running          |-> data[3],
      engine_rpm              |-> can_codec_read_u16_le(data, 4) ]

can_codec_decode_bcm_intrusion_status(data) ==
    [ door_open       |-> data[0],
      glass_break     |-> data[1],
      shock_detected  |-> data[2],
      intrusion_level |-> data[3] ]

can_codec_decode_panel_auth_cmd(data) ==
    [ auth_request |-> data[0],
      auth_method  |-> data[1],
      auth_nonce   |-> can_codec_read_u16_le(data, 2) ]

can_codec_decode_panel_cancel_cmd(data) ==
    [ cancel_request |-> data[0],
      cancel_reason  |-> data[1],
      cancel_nonce   |-> can_codec_read_u16_le(data, 2) ]

can_codec_decode(m, data) ==
    CASE m = "REB_CMD"              -> can_codec_decode_reb_cmd(data)
      [] m = "TCU_TO_REB"           -> can_codec_decode_tcu_to_reb(data)
      [] m = "VEHICLE_STATE"        -> can_codec_decode_vehicle_state(data)
      [] m = "BCM_INTRUSION_STATUS" -> can_codec_decode_bcm_intrusion_status(data)
      [] m = "PANEL_AUTH_CMD"       -> can_codec_decode_panel_auth_cmd(data)
      [] m = "PANEL_CANCEL_CMD"     -> can_codec_decode_panel_cancel_cmd(data)

can_rx_message(m, data) == [msg_id |-> m, data |-> can_codec_decode(m, data)]

\* A zeroed can_rx_message_t.
no_rx_message == [msg_id |-> "INVALID"]

\* The messages the frame is accepted as: one, or none.
accepted_as(frame) == {m \in RxMessages : can_codec_validate_rx_frame(frame, m)}

\* *out_msg after can_rx_process_frame, which leaves it alone when it refuses the
\* frame.
can_rx_process_frame(frame, out_msg) ==
    IF accepted_as(frame) = {} THEN out_msg
    ELSE can_rx_message(CHOOSE m \in RxMessages : m \in accepted_as(frame), frame.data)

-----------------------------------------------------------------------------
(* Encoders *)

\* can_codec_prepare_tx_frame, and the bytes the encoder writes behind it.
tx_frame(m, bytes) ==
    [can_frame_init EXCEPT !.id      = g_can_msg_table[m].can_id,
                           !.id_type = g_can_msg_table[m].id_type,
                           !.dlc     = g_can_msg_table[m].dlc,
                           !.data    = payload(bytes)]

\* What the range checks of each encoder let through.
reb_status_encodable_short(msg) ==      \* mutant: the last status code is refused
    /\ msg.status_code \in 0..2
    /\ msg.blocked_flag \in 0..1
    /\ {msg.vehicle_speed_centi_kmh, msg.error_code, msg.reserved} \subseteq UINT16
reb_status_encodable(msg) ==
    /\ msg.status_code \in 0..3
    /\ msg.blocked_flag \in 0..1
    /\ {msg.vehicle_speed_centi_kmh, msg.error_code, msg.reserved} \subseteq UINT16

reb_derate_cmd_encodable(msg) ==
    /\ msg.derate_pct \in 0..CAN_CODEC_DERATE_PCT_MAX
    /\ msg.derate_mode \in 0..3
    /\ msg.safety_flag \in 0..1

reb_prevent_start_encodable(msg) == msg.prevent_start \in 0..1 /\ msg.auth_token_lsb \in byte

reb_gps_request_encodable(msg) == msg.gps_request \in 0..1 /\ msg.state_id_echo \in byte

can_codec_encode_reb_status(msg) ==
    tx_frame("REB_STATUS",
             <<msg.status_code, msg.blocked_flag>>
               \o can_codec_write_u16_le(msg.vehicle_speed_centi_kmh)
               \o can_codec_write_u16_le(msg.error_code)
               \o can_codec_write_u16_le(msg.reserved))

can_codec_encode_reb_derate_swapped(msg) ==     \* mutant: the mode comes first
    tx_frame("REB_DERATE_CMD", <<msg.derate_mode, msg.derate_pct, msg.safety_flag>>)
can_codec_encode_reb_derate_cmd(msg) ==
    tx_frame("REB_DERATE_CMD", <<msg.derate_pct, msg.derate_mode, msg.safety_flag>>)

can_codec_encode_reb_prevent_start(msg) ==
    tx_frame("REB_PREVENT_START", <<msg.prevent_start, msg.auth_token_lsb>>)

can_codec_encode_reb_gps_request(msg) ==
    tx_frame("REB_GPS_REQUEST", <<msg.gps_request, msg.state_id_echo>>)

\* The frames can_tx_build_frame may return with CAN_TX_STATUS_OK: one, or none.
can_tx_build_frame(m, msg) ==
    CASE m = "REB_STATUS" ->
             IF reb_status_encodable(msg) THEN {can_codec_encode_reb_status(msg)} ELSE {}
      [] m = "REB_DERATE_CMD" ->
             IF reb_derate_cmd_encodable(msg) THEN {can_codec_encode_reb_derate_cmd(msg)} ELSE {}
      [] m = "REB_PREVENT_START" ->
             IF reb_prevent_start_encodable(msg)
             THEN {can_codec_encode_reb_prevent_start(msg)} ELSE {}
      [] m = "REB_GPS_REQUEST" ->
             IF reb_gps_request_encodable(msg) THEN {can_codec_encode_reb_gps_request(msg)} ELSE {}
      [] m \notin {"REB_STATUS", "REB_DERATE_CMD", "REB_PREVENT_START", "REB_GPS_REQUEST"} -> {}
=============================================================================
