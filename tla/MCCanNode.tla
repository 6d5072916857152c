------------------------------ MODULE MCCanNode ------------------------------
(***************************************************************************)
(* Frames for model checking CanNode, byte by byte.                        *)
(***************************************************************************)
EXTENDS CanNode

NOW == 10

frame_of(m, bytes) ==
    [ id |-> g_can_msg_table[m].can_id, id_type |-> "STANDARD", frame_type |-> "DATA",
      dlc |-> 8, data |-> payload(bytes) ]

stamp == <<NOW % BYTE, NOW \div BYTE, 0, 0>>

command(type, nonce) == frame_of("REB_CMD", <<type, 0>> \o can_codec_write_u16_le(nonce) \o stamp)
tcu(cmd)             == frame_of("TCU_TO_REB", <<cmd>>)
speed(v)             == frame_of("VEHICLE_STATE", can_codec_write_u16_le(v))
bcm(glass, shock)    == frame_of("BCM_INTRUSION_STATUS", <<0, glass, shock>>)
panel_auth(nonce)    == frame_of("PANEL_AUTH_CMD", <<1, 0>> \o can_codec_write_u16_le(nonce))
panel_cancel(req)    == frame_of("PANEL_CANCEL_CMD", <<req>>)

\* A remote frame, a frame cut short, and one of our own.
remote(frame)    == [frame EXCEPT !.frame_type = "REMOTE"]
truncated(frame) == [frame EXCEPT !.dlc = 7]
own              == frame_of("REB_STATUS", <<3, 1>>)

first  == 1
second == BYTE + 1      \* both bytes of the nonce matter

RemoteFrames ==
    { remote(command(CAN_CMD_TYPE_BLOCK, first)), command(CAN_CMD_TYPE_UNBLOCK, second),
      tcu(CAN_TCU_CMD_ACK), panel_auth(second), speed(0), speed(60), truncated(speed(0)) }

Online == [ip_rx_ok |-> TRUE, sms_rx_ok |-> FALSE, auth_block_automatic |-> "PENDING",
           password_attempt |-> "WRONG"]
RemoteLocal == {Online}

IntrusionFrames == { bcm(1, 1), bcm(0, 0), speed(0), own, panel_cancel(1) }

Now == {NOW}
Trusted == {TRUE}
=============================================================================
