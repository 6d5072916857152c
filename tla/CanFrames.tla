------------------------------ MODULE CanFrames ------------------------------
(***************************************************************************)
(* CAN frames (can_frame.c) and the table of the messages of the bus       *)
(* (can_ids.c).  A byte is a number below BYTE, 256 in the code; the       *)
(* values a multi-byte field can hold follow from it.  A descriptor keeps  *)
(* what the codec reads: identifier, length, direction.  Every message of  *)
(* the table has a standard identifier and eight bytes.                    *)
(***************************************************************************)
EXTENDS Integers, Sequences

CONSTANT BYTE

ASSUME ByteAssumption == BYTE \in Nat \ {0, 1}

CAN_STD_ID_MAX == 2047
CAN_EXT_ID_MAX == 536870911
CAN_DLC_MAX    == 8

byte    == 0..(BYTE - 1)
UINT16  == 0..(BYTE * BYTE - 1)
UINT32  == 0..(BYTE * BYTE * BYTE * BYTE - 1)
data_t  == [0..(CAN_DLC_MAX - 1) -> byte]

\* "OTHER" is any value that is no member of the C enumeration.
can_id_type_t    == {"STANDARD", "EXTENDED", "OTHER"}
can_frame_type_t == {"DATA", "REMOTE", "OTHER"}

can_frame_t ==
    [ id : Nat, id_type : can_id_type_t, frame_type : can_frame_type_t, dlc : Nat, data : data_t ]

\* The first bytes of a frame, and zeros behind them.
payload(bytes) ==
    [i \in 0..(CAN_DLC_MAX - 1) |-> IF i < Len(bytes) THEN bytes[i + 1] ELSE 0]

can_frame_init ==
    [id |-> 0, id_type |-> "STANDARD", frame_type |-> "DATA", dlc |-> 0, data |-> payload(<<>>)]

can_frame_is_valid(frame) ==
    /\ frame.frame_type \in {"DATA", "REMOTE"}
    /\ \/ frame.id_type = "STANDARD" /\ frame.id <= CAN_STD_ID_MAX
       \/ frame.id_type = "EXTENDED" /\ frame.id <= CAN_EXT_ID_MAX
    /\ frame.dlc <= CAN_DLC_MAX

-----------------------------------------------------------------------------
can_msg_desc(id, direction) ==
    [can_id |-> id, id_type |-> "STANDARD", dlc |-> 8, direction |-> direction]

\* 0x200, 0x300 and 0x500..0x503 are received; 0x201 and 0x400..0x402 are sent.
g_can_msg_table ==
    [ REB_CMD              |-> can_msg_desc(512, "RX"),
      REB_STATUS           |-> can_msg_desc(513, "TX"),
      TCU_TO_REB           |-> can_msg_desc(768, "RX"),
      REB_DERATE_CMD       |-> can_msg_desc(1024, "TX"),
      REB_PREVENT_START    |-> can_msg_desc(1025, "TX"),
      REB_GPS_REQUEST      |-> can_msg_desc(1026, "TX"),
      VEHICLE_STATE        |-> can_msg_desc(1280, "RX"),
      BCM_INTRUSION_STATUS |-> can_msg_desc(1281, "RX"),
      PANEL_AUTH_CMD       |-> can_msg_desc(1282, "RX"),
      PANEL_CANCEL_CMD     |-> can_msg_desc(1283, "RX") ]

can_msg_id_t == DOMAIN g_can_msg_table

RxMessages == {m \in can_msg_id_t : g_can_msg_table[m].direction = "RX"}

\* can_ids_from_can_id's match: no two messages share an identifier.
carries(frame, m) ==
    /\ frame.id = g_can_msg_table[m].can_id
    /\ frame.id_type = g_can_msg_table[m].id_type
=============================================================================
