------------------------------ MODULE CanProofs ------------------------------
(***************************************************************************)
(* Proofs about the controller on its bus (CanNode).  Its machine is the   *)
(* one of RebFsm, so whatever is proved there of every input holds here;   *)
(* what is added is what the bytes of the frames make of the inputs, and   *)
(* what the outputs make of the frames.                                    *)
(***************************************************************************)
EXTENDS CanNode, RebFsmProofs

USE ByteAssumption, CodecAssumption, AdapterAssumption

-----------------------------------------------------------------------------
(* Received bytes *)

LEMMA RxMessageNames ==
    RxMessages = {"REB_CMD", "TCU_TO_REB", "VEHICLE_STATE", "BCM_INTRUSION_STATUS",
                  "PANEL_AUTH_CMD", "PANEL_CANCEL_CMD"}
  BY DEF RxMessages, can_msg_id_t, g_can_msg_table, can_msg_desc

\* Two bytes are a 16-bit value, four a natural number.
LEMMA ReadType ==
    ASSUME NEW data \in data_t
    PROVE  /\ \A i \in 0..6 : can_codec_read_u16_le(data, i) \in UINT16
           /\ \A i \in 0..4 : can_codec_read_u32_le(data, i) \in Nat
<1>1. \A i \in 0..7 : data[i] \in 0..(BYTE - 1)
  BY DEF data_t, byte, CAN_DLC_MAX
<1>2. ASSUME NEW a \in 0..(BYTE - 1), NEW b \in 0..(BYTE - 1)
      PROVE  a + BYTE * b \in 0..(BYTE * BYTE - 1)
  <2>1. BYTE * b \in Nat /\ BYTE * b <= BYTE * (BYTE - 1)
    BY <1>2
  <2>2. BYTE * (BYTE - 1) = BYTE * BYTE - BYTE
    OBVIOUS
  <2>3. BYTE * BYTE \in Nat
    OBVIOUS
  <2> QED BY <1>2, <2>1, <2>2, <2>3
<1>3. \A i \in 0..6 : can_codec_read_u16_le(data, i) \in UINT16
  BY <1>1, <1>2 DEF can_codec_read_u16_le, UINT16
<1>4. ASSUME NEW a \in Nat, NEW b \in Nat
      PROVE  a + BYTE * BYTE * b \in Nat
  BY <1>4
<1>5. ASSUME NEW i \in 0..4
      PROVE  can_codec_read_u32_le(data, i) \in Nat
  <2>1. /\ can_codec_read_u16_le(data, i) \in UINT16
        /\ can_codec_read_u16_le(data, i + 2) \in UINT16
    BY <1>3
  <2>2. UINT16 \subseteq Nat
    BY DEF UINT16
  <2> QED BY <1>4, <2>1, <2>2 DEF can_codec_read_u32_le
<1> QED BY <1>3, <1>5

\* A message is decoded from eight bytes.
received(rx) ==
    \/ rx.msg_id = "INVALID"
    \/ \E m \in RxMessages, d \in data_t : rx = can_rx_message(m, d)

LEMMA ProcessFrameType ==
    ASSUME NEW frame \in can_frame_t, NEW rx, received(rx)
    PROVE  received(can_rx_process_frame(frame, rx))
<1>1. frame.data \in data_t
  BY DEF can_frame_t
<1>2. CASE accepted_as(frame) = {}
  BY <1>2 DEF can_rx_process_frame
<1>3. CASE accepted_as(frame) # {}
  <2>1. \E m \in RxMessages : m \in accepted_as(frame)
    BY <1>3 DEF accepted_as
  <2> DEFINE m == CHOOSE m \in RxMessages : m \in accepted_as(frame)
  <2>2. m \in RxMessages
    BY <2>1
  <2> HIDE DEF m
  <2>3. can_rx_process_frame(frame, rx) = can_rx_message(m, frame.data)
    BY <1>3, Zenon DEF can_rx_process_frame, m
  <2> QED BY <1>1, <2>2, <2>3 DEF received
<1> QED BY <1>2, <1>3

\* What the fields the adapter reads can be.
LEMMA DecodedType ==
    ASSUME NEW m \in RxMessages, NEW d \in data_t
    PROVE  LET x == can_codec_decode(m, d)
           IN  /\ m = "REB_CMD" => x.cmd_nonce \in UINT16 /\ x.cmd_timestamp \in Nat
                                   /\ x.cmd_type \in byte
               /\ m = "VEHICLE_STATE" => x.vehicle_speed_centi_kmh \in UINT16
               /\ m = "PANEL_AUTH_CMD" => x.auth_nonce \in UINT16
<1>1. d[0] \in byte
  BY DEF data_t, CAN_DLC_MAX
<1>2. CASE m = "REB_CMD"
  <2>1. can_codec_decode(m, d) = can_codec_decode_reb_cmd(d)
    BY <1>2 DEF can_codec_decode
  <2> QED BY <1>1, <1>2, <2>1, ReadType DEF can_codec_decode_reb_cmd
<1>3. CASE m = "VEHICLE_STATE"
  <2>1. can_codec_decode(m, d) = can_codec_decode_vehicle_state(d)
    BY <1>3 DEF can_codec_decode
  <2> QED BY <1>3, <2>1, ReadType DEF can_codec_decode_vehicle_state
<1>4. CASE m = "PANEL_AUTH_CMD"
  <2>1. can_codec_decode(m, d) = can_codec_decode_panel_auth_cmd(d)
    BY <1>4 DEF can_codec_decode
  <2> QED BY <1>4, <2>1, ReadType DEF can_codec_decode_panel_auth_cmd
<1>5. CASE m \notin {"REB_CMD", "VEHICLE_STATE", "PANEL_AUTH_CMD"}
  BY <1>5
<1> QED BY <1>2, <1>3, <1>4, <1>5

\* A message leaves inputs the machine may see, and so does the adapter.
LEMMA MergedType ==
    ASSUME NEW rx, received(rx), NEW in \in reb_inputs_t
    PROVE  merged(rx, in) \in reb_inputs_t
<1>1. CASE rx.msg_id = "INVALID"
  BY <1>1, RxMessageNames DEF merged
<1>2. ASSUME NEW m \in RxMessages, NEW d \in data_t, rx = can_rx_message(m, d)
      PROVE  merged(rx, in) \in reb_inputs_t
  <2> DEFINE x == can_codec_decode(m, d)
  <2>1. rx.msg_id = m /\ rx.data = x
    BY <1>2 DEF can_rx_message
  <2> HIDE DEF x
  <2>2. UINT16 = 0..MAX_NONCE /\ UINT16 \subseteq Nat
    BY CanAssumption DEF UINT16
  <2>3. /\ m = "REB_CMD" => x.cmd_nonce \in 0..MAX_NONCE /\ x.cmd_timestamp \in Nat
        /\ m = "VEHICLE_STATE" => x.vehicle_speed_centi_kmh \in Nat
        /\ m = "PANEL_AUTH_CMD" => x.auth_nonce \in 0..MAX_NONCE
    BY <2>2, DecodedType DEF x
  <2>4. CASE m = "REB_CMD"
    <3>1. merged(rx, in) = merge_reb_cmd(x, in)
      BY <2>1, <2>4 DEF merged
    <3> QED BY <2>3, <2>4, <3>1, Zenon DEF merge_reb_cmd, reb_inputs_t
  <2>5. CASE m = "TCU_TO_REB"
    <3>1. merged(rx, in) = merge_tcu_to_reb(x, in)
      BY <2>1, <2>5 DEF merged
    <3> QED BY <3>1, Zenon DEF merge_tcu_to_reb, reb_inputs_t
  <2>6. CASE m = "VEHICLE_STATE"
    <3>1. merged(rx, in) = merge_vehicle_state(x, in)
      BY <2>1, <2>6 DEF merged
    <3> QED BY <2>3, <2>6, <3>1, Zenon DEF merge_vehicle_state, reb_inputs_t
  <2>7. CASE m = "BCM_INTRUSION_STATUS"
    <3>1. merged(rx, in) = merge_bcm_intrusion(x, in)
      BY <2>1, <2>7 DEF merged
    <3>2. /\ (IF x.shock_detected # 0 THEN SHOCK_PCT ELSE 0) \in Int
          /\ (IF x.glass_break # 0 THEN 100 ELSE 0) \in Int
      OBVIOUS
    <3> QED BY <3>1, <3>2, Zenon DEF merge_bcm_intrusion, reb_inputs_t
  <2>8. CASE m = "PANEL_AUTH_CMD"
    <3>1. merged(rx, in) = merge_panel_auth(x, in)
      BY <2>1, <2>8 DEF merged
    <3> QED BY <2>3, <2>8, <3>1, Zenon DEF merge_panel_auth, reb_inputs_t
  <2>9. CASE m = "PANEL_CANCEL_CMD"
    <3>1. merged(rx, in) = merge_panel_cancel(x, in)
      BY <2>1, <2>9 DEF merged
    <3> QED BY <3>1, Zenon DEF merge_panel_cancel, reb_inputs_t
  <2> QED BY <2>4, <2>5, <2>6, <2>7, <2>8, <2>9, RxMessageNames
<1> QED BY <1>1, <1>2 DEF received

LEMMA AdapterType ==
    ASSUME NEW rx, received(rx), NEW in \in reb_inputs_t, NEW now \in Nat
    PROVE  LET next == can_adapter_rx_to_inputs(rx, in, now)
           IN  /\ next \in reb_inputs_t
               /\ next.auth_blocked_remote = merged(rx, in).auth_blocked_remote
               /\ next.remote_unblock_remote = merged(rx, in).remote_unblock_remote
               /\ next.cmd_nonce = merged(rx, in).cmd_nonce
<1> DEFINE old == merged(rx, in)
<1>1. old \in reb_inputs_t
  BY MergedType
<1>2. can_adapter_rx_to_inputs(rx, in, now) = [old EXCEPT !.sim_time_ms = now]
  BY Zenon DEF can_adapter_rx_to_inputs
<1> HIDE DEF old
<1>3. LET next == [old EXCEPT !.sim_time_ms = now]
      IN  /\ next \in reb_inputs_t
          /\ next.auth_blocked_remote = old.auth_blocked_remote
          /\ next.remote_unblock_remote = old.remote_unblock_remote
          /\ next.cmd_nonce = old.cmd_nonce
  BY <1>1, Zenon DEF reb_inputs_t
<1> QED BY <1>2, <1>3, Zenon DEF old

-----------------------------------------------------------------------------
(* The machine on the bus is the machine of RebFsm *)

InputsInv == received(rx_msg) /\ inputs \in reb_inputs_t

LEMMA SeenType ==
    ASSUME inputs \in reb_inputs_t, NEW trusts \in BOOLEAN
    PROVE  /\ seen_with(trusts) \in reb_inputs_t
           /\ seen_with(trusts).cmd_nonce = inputs.cmd_nonce
           /\ seen_with(trusts).auth_blocked_remote = inputs.auth_blocked_remote
           /\ seen_with(trusts).remote_unblock_remote = inputs.remote_unblock_remote
<1>1. (inputs.speed_is_valid /\ trusts) \in BOOLEAN
  OBVIOUS
<1> QED BY <1>1, Zenon DEF seen_with, reb_inputs_t

\* Whatever frames arrive, the record the adapter keeps is one reb_fsm_step may
\* be given.
LEMMA InputsInvariant == CanSpec => []InputsInv
<1>1. no_inputs \in reb_inputs_t
  <2>1. 0 \in 0..MAX_NONCE /\ 0 \in Nat /\ 0 \in Int
    BY SecurityAssumption
  <2>2. /\ "PENDING" \in {"PENDING", "YES", "NO"} /\ "WRONG" \in {PANEL_PASSWORD_HASH, "WRONG"}
        /\ FALSE \in BOOLEAN
    OBVIOUS
  <2> QED BY <2>1, <2>2, Zenon DEF no_inputs, reb_inputs_t
<1>2. received(no_rx_message)
  BY DEF received, no_rx_message
<1>3. CanInit => InputsInv
  BY <1>1, <1>2, Zenon DEF CanInit, InputsInv
<1>4. InputsInv /\ [CanNext]_can_vars => InputsInv'
  <2> SUFFICES ASSUME InputsInv, [CanNext]_can_vars
               PROVE  received(rx_msg') /\ inputs' \in reb_inputs_t
    BY Zenon DEF InputsInv, received
  <2>1. CASE CanReceive
    <3>1. PICK frame \in Frames, now \in Times :
              /\ rx_msg' = can_rx_process_frame(frame, rx_msg)
              /\ inputs' = can_adapter_rx_to_inputs(rx_msg', inputs, now)
      BY <2>1, Zenon DEF CanReceive
    <3>2. frame \in can_frame_t /\ now \in Nat
      BY CanAssumption
    <3>3. received(rx_msg')
      BY <3>1, <3>2, ProcessFrameType DEF InputsInv
    <3> QED BY <3>1, <3>2, <3>3, AdapterType DEF InputsInv
  <2>2. CASE Supervise
    <3>1. rx_msg' = rx_msg
      BY <2>2, Zenon DEF Supervise
    <3>2. CASE inputs' = [inputs EXCEPT !.speed_is_valid = FALSE]
      BY <3>1, <3>2, Zenon DEF InputsInv, reb_inputs_t
    <3>3. ASSUME NEW l \in Local,
                 inputs' = [inputs EXCEPT !.ip_rx_ok             = l.ip_rx_ok,
                                          !.sms_rx_ok            = l.sms_rx_ok,
                                          !.auth_block_automatic = l.auth_block_automatic,
                                          !.password_attempt     = l.password_attempt]
          PROVE  inputs' \in reb_inputs_t
      <4>1. l \in local_t
        BY CanAssumption
      <4> QED BY <3>3, <4>1, Zenon DEF InputsInv, reb_inputs_t, local_t
    <3> QED BY <2>2, <3>1, <3>2, <3>3, Zenon DEF Supervise, InputsInv
  <2>3. CASE CanCycle \/ UNCHANGED can_vars
    BY <2>3, Zenon DEF CanCycle, can_vars, rx_vars, InputsInv
  <2>4. CASE CanPowerCycle \/ CanFactoryReset
    BY <1>1, <1>2, <2>4, Zenon DEF CanPowerCycle, CanFactoryReset, can_boot
  <2> QED BY <2>1, <2>2, <2>3, <2>4, Zenon DEF CanNext
<1> QED BY <1>3, <1>4, PTL DEF CanSpec

\* A step on the bus is a step of the machine on some input, or none.
LEMMA CanStepIsFsmStep ==
    ASSUME InputsInv, [CanNext]_can_vars
    PROVE  [AnyNext]_vars
<1>1. ASSUME CanCycle PROVE AnyNext
  <2>1. PICK trusts \in Verdicts : reb_fsm_step(seen_with(trusts))
    BY <1>1, Zenon DEF CanCycle
  <2>2. seen_with(trusts) \in reb_inputs_t
    BY <2>1, CanAssumption, SeenType DEF InputsInv
  <2> QED BY <2>1, <2>2, Zenon DEF AnyNext, AnyStep
<1>2. ASSUME CanPowerCycle \/ CanFactoryReset PROVE AnyNext
  BY <1>2, Zenon DEF CanPowerCycle, CanFactoryReset, AnyNext
<1>3. ASSUME CanReceive \/ Supervise \/ UNCHANGED can_vars PROVE UNCHANGED vars
  BY <1>3, Zenon DEF CanReceive, Supervise, can_vars
<1> QED BY <1>1, <1>2, <1>3, Zenon DEF CanNext

\* Whatever the bus delivers, the machine behind the adapter is the one of RebFsm
\* (can_adapter_rx_to_inputs leaves a reb_inputs_t, and nothing else reaches the
\* machine): every property proved of AnySpec holds on the bus.
THEOREM CanImplementsFsm == CanSpec => AnySpec
<1>1. CanInit => Init
  BY DEF CanInit
<1>2. InputsInv /\ [CanNext]_can_vars => [AnyNext]_vars
  BY CanStepIsFsmStep
<1> QED BY <1>1, <1>2, InputsInvariant, PTL DEF CanSpec, AnySpec

\* So it keeps its promises whatever frames arrive, in whatever order, lost,
\* repeated or cut short.
THEOREM CanMachineSafe == CanSpec => MachineIsSafe
  BY CanImplementsFsm, MachineCorrect, PTL

-----------------------------------------------------------------------------
(* OnlyTheLastOrderIsObeyed *)

CanInv == InputsInv /\ TypeInv /\ acted \in Seq(0..MAX_NONCE)

LEMMA CanInvariant == CanSpec => []CanInv
<1> DEFINE Typed == TypeInv /\ acted \in Seq(0..MAX_NONCE)
<1>1. CanInit => Typed
  BY InitType DEF CanInit, Init
<1>2. CanInv /\ [CanNext]_can_vars => Typed'
  <2> SUFFICES ASSUME CanInv, [CanNext]_can_vars
               PROVE  TypeInv' /\ acted' \in Seq(0..MAX_NONCE)
    OBVIOUS
  <2>1. ASSUME CanCycle
        PROVE  TypeInv' /\ acted' \in Seq(0..MAX_NONCE)
    <3>1. PICK trusts \in Verdicts : reb_fsm_step(seen_with(trusts))
      BY <2>1, Zenon DEF CanCycle
    <3>2. seen_with(trusts) \in reb_inputs_t
      BY <3>1, CanAssumption, SeenType DEF InputsInv, CanInv
    <3> QED BY <3>1, <3>2, CycleType DEF CanInv
  <2>2. ASSUME PowerCycle \/ FactoryReset
        PROVE  TypeInv' /\ acted' \in Seq(0..MAX_NONCE)
    <3>1. acted' = acted \/ acted' = <<>>
      BY <2>2, Zenon DEF PowerCycle, FactoryReset
    <3>2. <<>> \in Seq(0..MAX_NONCE)
      OBVIOUS
    <3> QED BY <2>2, <3>1, <3>2, RestartType DEF CanInv
  <2>3. ASSUME UNCHANGED vars
        PROVE  TypeInv' /\ acted' \in Seq(0..MAX_NONCE)
    BY <2>3 DEF vars, TypeInv, ContextTypeOK, CountersBelowLimits, MemoryTypeOK, CanInv
  <2>4. CASE CanReceive \/ Supervise \/ UNCHANGED can_vars
    <3>1. UNCHANGED vars
      BY <2>4, Zenon DEF CanReceive, Supervise, can_vars
    <3> QED BY <2>3, <3>1
  <2>5. CASE CanPowerCycle \/ CanFactoryReset
    BY <2>2, <2>5, Zenon DEF CanPowerCycle, CanFactoryReset
  <2> QED BY <2>1, <2>4, <2>5 DEF CanNext
<1>3. CanInv <=> InputsInv /\ Typed
  BY DEF CanInv
<1> HIDE DEF Typed
<1> QED BY <1>1, <1>2, <1>3, InputsInvariant, PTL DEF CanSpec

\* The flags of the inputs are those of the last command, and the nonce beside
\* them came in it or since.
OrderInv ==
    /\ inputs.auth_blocked_remote => order.type = CAN_CMD_TYPE_BLOCK
    /\ inputs.remote_unblock_remote => order.type = CAN_CMD_TYPE_UNBLOCK
    /\ inputs.cmd_nonce = 0 \/ inputs.cmd_nonce \in order.nonces

order_t == [type : byte, nonces : SUBSET UINT16]

\* A received message keeps it so: a command replaces flags, nonce and order, a
\* panel frame the nonce, which joins the order.
LEMMA OrderMerged ==
    ASSUME inputs \in reb_inputs_t, order \in order_t, OrderInv,
           NEW rx, received(rx), NEW now \in Nat,
           inputs' = can_adapter_rx_to_inputs(rx, inputs, now), order' = order_after(rx)
    PROVE  OrderInv' /\ order' \in order_t
<1> DEFINE new == merged(rx, inputs)
<1>1. /\ inputs'.auth_blocked_remote = new.auth_blocked_remote
      /\ inputs'.remote_unblock_remote = new.remote_unblock_remote
      /\ inputs'.cmd_nonce = new.cmd_nonce
  BY AdapterType
<1>2. ASSUME /\ new.auth_blocked_remote = inputs.auth_blocked_remote
             /\ new.remote_unblock_remote = inputs.remote_unblock_remote
             /\ new.cmd_nonce = inputs.cmd_nonce
             /\ order' = order
      PROVE  OrderInv' /\ order' \in order_t
  BY <1>1, <1>2 DEF OrderInv
<1>3. CASE rx.msg_id = "INVALID"
  BY <1>2, <1>3, RxMessageNames DEF merged, order_after
<1>4. ASSUME NEW m \in RxMessages, NEW d \in data_t, rx = can_rx_message(m, d)
      PROVE  OrderInv' /\ order' \in order_t
  <2> DEFINE x == can_codec_decode(m, d)
  <2>1. rx.msg_id = m /\ rx.data = x
    BY <1>4 DEF can_rx_message
  <2>2. /\ m = "REB_CMD" => x.cmd_nonce \in UINT16 /\ x.cmd_type \in byte
        /\ m = "PANEL_AUTH_CMD" => x.auth_nonce \in UINT16
    BY DecodedType
  <2> HIDE DEF x
  <2>3. CASE m = "REB_CMD"
    <3>1. new = merge_reb_cmd(x, inputs)
      BY <2>1, <2>3 DEF merged
    <3>2. /\ new.auth_blocked_remote => x.cmd_type = CAN_CMD_TYPE_BLOCK
          /\ new.remote_unblock_remote => x.cmd_type = CAN_CMD_TYPE_UNBLOCK
          /\ new.cmd_nonce = x.cmd_nonce
      BY <3>1, Zenon DEF merge_reb_cmd, reb_inputs_t
    <3>3. order' = [type |-> x.cmd_type, nonces |-> {x.cmd_nonce}]
      BY <2>1, <2>3 DEF order_after
    <3> HIDE DEF new
    <3>4. order' \in order_t
      BY <2>2, <2>3, <3>3 DEF order_t
    <3> QED BY <1>1, <3>2, <3>3, <3>4 DEF OrderInv
  <2>4. CASE m = "PANEL_AUTH_CMD"
    <3>1. new = merge_panel_auth(x, inputs)
      BY <2>1, <2>4 DEF merged
    <3>2. /\ new.auth_blocked_remote = inputs.auth_blocked_remote
          /\ new.remote_unblock_remote = inputs.remote_unblock_remote
          /\ new.cmd_nonce = x.auth_nonce
      BY <3>1, Zenon DEF merge_panel_auth, reb_inputs_t
    <3>3. order' = [order EXCEPT !.nonces = @ \cup {x.auth_nonce}]
      BY <2>1, <2>4 DEF order_after
    <3> HIDE DEF new
    <3>4. order' \in order_t /\ order'.type = order.type /\ x.auth_nonce \in order'.nonces
      BY <2>2, <2>4, <3>3 DEF order_t
    <3> QED BY <1>1, <3>2, <3>4 DEF OrderInv
  <2>5. CASE m \notin {"REB_CMD", "PANEL_AUTH_CMD"}
    <3>1. new \in { merge_tcu_to_reb(x, inputs), merge_vehicle_state(x, inputs),
                    merge_bcm_intrusion(x, inputs), merge_panel_cancel(x, inputs) }
      BY <2>1, <2>5, RxMessageNames DEF merged
    <3>2. /\ new.auth_blocked_remote = inputs.auth_blocked_remote
          /\ new.remote_unblock_remote = inputs.remote_unblock_remote
          /\ new.cmd_nonce = inputs.cmd_nonce
      BY <3>1, Zenon DEF merge_tcu_to_reb, merge_vehicle_state, merge_bcm_intrusion,
         merge_panel_cancel, reb_inputs_t
    <3>3. order' = order
      BY <2>1, <2>5 DEF order_after
    <3> QED BY <1>2, <3>2, <3>3
  <2> QED BY <2>3, <2>4, <2>5
<1> QED BY <1>3, <1>4 DEF received

OrderInvariant == order \in order_t /\ OrderInv

LEMMA OrderKept == CanSpec => []OrderInvariant
<1>1. no_order \in order_t
  <2>1. CAN_CMD_TYPE_NOP \in byte /\ {} \in SUBSET UINT16
    BY DEF byte, CAN_CMD_TYPE_NOP
  <2> QED BY <2>1, Zenon DEF no_order, order_t
<1>2. /\ no_inputs.cmd_nonce = 0
      /\ ~no_inputs.auth_blocked_remote /\ ~no_inputs.remote_unblock_remote
  BY DEF no_inputs
<1>3. CanInit => OrderInvariant
  BY <1>1, <1>2 DEF CanInit, OrderInvariant, OrderInv
<1>4. InputsInv /\ InputsInv' /\ OrderInvariant /\ [CanNext]_can_vars => OrderInvariant'
  <2> SUFFICES ASSUME InputsInv, received(rx_msg'), OrderInvariant, [CanNext]_can_vars
               PROVE  OrderInvariant'
    BY DEF InputsInv, received
  <2>1. CASE CanReceive
    <3>1. PICK now \in Times :
              /\ inputs' = can_adapter_rx_to_inputs(rx_msg', inputs, now)
              /\ order' = order_after(rx_msg')
      BY <2>1, Zenon DEF CanReceive
    <3>2. now \in Nat
      BY CanAssumption
    <3> QED BY <3>1, <3>2, OrderMerged DEF InputsInv, OrderInvariant
  <2>2. CASE Supervise
    <3>1. order' = order
      BY <2>2, Zenon DEF Supervise
    <3>2. /\ inputs'.cmd_nonce = inputs.cmd_nonce
          /\ inputs'.auth_blocked_remote = inputs.auth_blocked_remote
          /\ inputs'.remote_unblock_remote = inputs.remote_unblock_remote
      BY <2>2, Zenon DEF Supervise, InputsInv, reb_inputs_t
    <3> QED BY <3>1, <3>2 DEF OrderInvariant, OrderInv
  <2>3. CASE CanCycle \/ UNCHANGED can_vars
    <3>1. inputs' = inputs /\ order' = order
      BY <2>3, Zenon DEF CanCycle, can_vars, rx_vars
    <3> QED BY <3>1 DEF OrderInvariant, OrderInv
  <2>4. CASE CanPowerCycle \/ CanFactoryReset
    <3>1. inputs' = no_inputs /\ order' = no_order
      BY <2>4, Zenon DEF CanPowerCycle, CanFactoryReset, can_boot
    <3> QED BY <1>1, <1>2, <3>1 DEF OrderInvariant, OrderInv
  <2> QED BY <2>1, <2>2, <2>3, <2>4 DEF CanNext
<1> QED BY <1>3, <1>4, InputsInvariant, PTL DEF CanSpec

\* A remote command that moves the machine is the last one heard, with a nonce
\* that came in it or in a panel frame since (the flags priv_merge_reb_cmd
\* latches in the inputs end with the next command).
THEOREM LastOrderObeyed == CanSpec => OnlyTheLastOrderIsObeyed
<1>1. CanInv /\ OrderInvariant /\ [CanNext]_can_vars
         => [acted' # acted /\ Len(acted') > Len(acted) =>
               /\ order.type = IF state = "IDLE" THEN CAN_CMD_TYPE_BLOCK
                               ELSE CAN_CMD_TYPE_UNBLOCK
               /\ acted'[Len(acted')] \in order.nonces]_can_vars
  <2> SUFFICES ASSUME CanInv, OrderInvariant, CanNext,
                      acted' # acted, Len(acted') > Len(acted)
               PROVE  /\ order.type = IF state = "IDLE" THEN CAN_CMD_TYPE_BLOCK
                                      ELSE CAN_CMD_TYPE_UNBLOCK
                      /\ acted'[Len(acted')] \in order.nonces
    OBVIOUS
  <2>1. acted' # <<>>
    BY LenProperties, EmptySeq DEF CanInv
  <2>2. CanCycle
    BY <2>1, Zenon DEF CanNext, CanReceive, Supervise, CanPowerCycle, CanFactoryReset,
       PowerCycle, FactoryReset, vars
  <2>3. PICK trusts \in Verdicts : reb_fsm_step(seen_with(trusts))
    BY <2>2, Zenon DEF CanCycle
  <2> DEFINE in == seen_with(trusts)
  <2>4. /\ in \in reb_inputs_t
        /\ in.cmd_nonce = inputs.cmd_nonce
        /\ in.auth_blocked_remote = inputs.auth_blocked_remote
        /\ in.remote_unblock_remote = inputs.remote_unblock_remote
    BY <2>3, CanAssumption, SeenType DEF CanInv, InputsInv
  <2>5. Obeyed(in)
    BY <2>3, CycleObeys
  <2> HIDE DEF in
  <2>6. /\ in.cmd_nonce \in 0..MAX_NONCE /\ in.cmd_nonce > last_nonce
        /\ last_nonce \in 0..MAX_NONCE
    BY <2>4, <2>5 DEF Obeyed, sec_mgr_verify, CanInv, TypeInv, ContextTypeOK, reb_inputs_t
  <2>7. in.cmd_nonce \in order.nonces
    BY <2>4, <2>6, SecurityAssumption DEF OrderInvariant, OrderInv
  <2>8. acted'[Len(acted')] = in.cmd_nonce
    BY <2>5, <2>6, AppendProperties, LenProperties DEF Obeyed, CanInv
  <2> QED BY <2>4, <2>5, <2>7, <2>8 DEF Obeyed, OrderInvariant, OrderInv
<1> QED BY <1>1, CanInvariant, OrderKept, PTL DEF CanSpec, OnlyTheLastOrderIsObeyed

-----------------------------------------------------------------------------
(* Frames that are sent *)

\* Bytes make a frame: the first ones are where they were, zeros behind them.
LEMMA TxFrameType ==
    ASSUME NEW m \in can_msg_id_t, NEW bytes \in Seq(byte)
    PROVE  /\ tx_frame(m, bytes) \in can_frame_t
           /\ \A i \in 0..7 : i < Len(bytes) => tx_frame(m, bytes).data[i] = bytes[i + 1]
<1>1. Len(bytes) \in Nat /\ \A i \in 1..Len(bytes) : bytes[i] \in byte
  BY LenProperties, ElementOfSeq
<1>2. \A i \in 0..7 : (IF i < Len(bytes) THEN bytes[i + 1] ELSE 0) \in byte
  BY <1>1 DEF byte
<1>3. /\ payload(bytes) \in data_t
      /\ \A i \in 0..7 : i < Len(bytes) => payload(bytes)[i] = bytes[i + 1]
  BY <1>2 DEF payload, data_t, CAN_DLC_MAX
<1>4. payload(<<>>) \in data_t
  BY DEF payload, data_t, CAN_DLC_MAX, byte
<1>5. can_frame_init \in can_frame_t
  <2>1. "DATA" \in can_frame_type_t /\ "STANDARD" \in can_id_type_t /\ 0 \in Nat
    BY DEF can_frame_type_t, can_id_type_t
  <2> QED BY <1>4, <2>1, Zenon DEF can_frame_init, can_frame_t
<1> DEFINE id      == g_can_msg_table[m].can_id
           id_type == g_can_msg_table[m].id_type
           dlc     == g_can_msg_table[m].dlc
           data    == payload(bytes)
           frame   == [can_frame_init EXCEPT !.id = id, !.id_type = id_type, !.dlc = dlc,
                                             !.data = data]
<1>6. id \in Nat /\ id_type \in can_id_type_t /\ dlc \in Nat
  BY DEF can_msg_id_t, g_can_msg_table, can_msg_desc, can_id_type_t
<1>7. tx_frame(m, bytes) = frame
  BY Zenon DEF tx_frame
<1> HIDE DEF id, id_type, dlc, data
<1>8. data \in data_t
  BY <1>3 DEF data
<1>9. frame \in can_frame_t /\ frame.data = data
  BY <1>5, <1>6, <1>8, Zenon DEF can_frame_t
<1> QED BY <1>3, <1>7, <1>9 DEF data

\* A 16-bit value survives its two bytes.
LEMMA SixteenBits ==
    ASSUME NEW value \in UINT16
    PROVE  LET bytes == can_codec_write_u16_le(value)
           IN  bytes \in byte \X byte /\ bytes[1] + BYTE * bytes[2] = value
<1> DEFINE low  == value % BYTE
           high == value \div BYTE
<1>1. /\ low \in 0..(BYTE - 1) /\ high \in Nat
      /\ value = BYTE * high + low
      /\ value \in Nat /\ value <= BYTE * BYTE - 1
  BY DEF UINT16
<1> HIDE DEF low, high
<1>2. high <= BYTE - 1
  <2>1. ASSUME high >= BYTE
        PROVE  FALSE
    <3>1. BYTE * high >= BYTE * BYTE
      BY <1>1, <2>1
    <3> QED BY <1>1, <3>1
  <2> QED BY <1>1, <2>1
<1>3. high % BYTE = high
  BY <1>1, <1>2
<1>4. can_codec_write_u16_le(value) = <<low, high>>
  BY <1>3 DEF can_codec_write_u16_le, low, high
<1> QED BY <1>1, <1>2, <1>4 DEF byte

\* Two more bytes behind the bytes of a frame.
LEMMA ConcatPair ==
    ASSUME NEW s \in Seq(byte), NEW p \in byte \X byte
    PROVE  /\ s \o p \in Seq(byte) /\ Len(s \o p) = Len(s) + 2
           /\ \A i \in 1..Len(s) : (s \o p)[i] = s[i]
           /\ (s \o p)[Len(s) + 1] = p[1] /\ (s \o p)[Len(s) + 2] = p[2]
<1>1. PICK x \in byte, y \in byte : p = <<x, y>>
  OBVIOUS
<1>2. p \in Seq(byte) /\ Len(p) = 2 /\ p[1] = x /\ p[2] = y
  BY <1>1
<1>3. Len(s) \in Nat
  BY LenProperties
<1>4. /\ s \o p \in Seq(byte)
      /\ Len(s \o p) = Len(s) + Len(p)
      /\ \A i \in 1..(Len(s) + Len(p)) : (s \o p)[i] = IF i <= Len(s) THEN s[i] ELSE p[i - Len(s)]
  BY <1>2, ConcatProperties, Zenon
<1> QED BY <1>2, <1>3, <1>4

\* Two bytes, and three 16-bit values behind them.
LEMMA EightBytes ==
    ASSUME NEW a \in byte, NEW b \in byte, NEW u \in UINT16, NEW v \in UINT16, NEW w \in UINT16,
           NEW m \in can_msg_id_t
    PROVE  LET bytes == <<a, b>> \o can_codec_write_u16_le(u) \o can_codec_write_u16_le(v)
                          \o can_codec_write_u16_le(w)
               data  == tx_frame(m, bytes).data
           IN  /\ tx_frame(m, bytes) \in can_frame_t
               /\ data[0] = a /\ data[1] = b
               /\ can_codec_read_u16_le(data, 2) = u
               /\ can_codec_read_u16_le(data, 4) = v
               /\ can_codec_read_u16_le(data, 6) = w
<1> DEFINE ub == can_codec_write_u16_le(u)
           vb == can_codec_write_u16_le(v)
           wb == can_codec_write_u16_le(w)
           bytes == <<a, b>> \o ub \o vb \o wb
           data  == tx_frame(m, bytes).data
<1>1. /\ ub \in byte \X byte /\ ub[1] + BYTE * ub[2] = u
      /\ vb \in byte \X byte /\ vb[1] + BYTE * vb[2] = v
      /\ wb \in byte \X byte /\ wb[1] + BYTE * wb[2] = w
  BY SixteenBits
<1> HIDE DEF ub, vb, wb
<1>2. /\ bytes \in Seq(byte) /\ Len(bytes) = 8
      /\ bytes[1] = a /\ bytes[2] = b /\ bytes[3] = ub[1] /\ bytes[4] = ub[2]
      /\ bytes[5] = vb[1] /\ bytes[6] = vb[2] /\ bytes[7] = wb[1] /\ bytes[8] = wb[2]
  <2> DEFINE two  == <<a, b>>
             four == two \o ub
             six  == four \o vb
  <2>1. two \in Seq(byte) /\ Len(two) = 2 /\ two[1] = a /\ two[2] = b
    OBVIOUS
  <2> HIDE DEF two
  <2>2. /\ four \in Seq(byte) /\ Len(four) = 4
        /\ four[1] = a /\ four[2] = b /\ four[3] = ub[1] /\ four[4] = ub[2]
    <3>1. /\ four \in Seq(byte) /\ Len(four) = Len(two) + 2
          /\ \A i \in 1..Len(two) : four[i] = two[i]
          /\ four[Len(two) + 1] = ub[1] /\ four[Len(two) + 2] = ub[2]
      BY <1>1, <2>1, ConcatPair, Zenon
    <3> HIDE DEF four
    <3> QED BY <2>1, <3>1
  <2> HIDE DEF four
  <2>3. /\ six \in Seq(byte) /\ Len(six) = 6
        /\ six[1] = a /\ six[2] = b /\ six[3] = ub[1] /\ six[4] = ub[2]
        /\ six[5] = vb[1] /\ six[6] = vb[2]
    <3>1. /\ six \in Seq(byte) /\ Len(six) = Len(four) + 2
          /\ \A i \in 1..Len(four) : six[i] = four[i]
          /\ six[Len(four) + 1] = vb[1] /\ six[Len(four) + 2] = vb[2]
      BY <1>1, <2>2, ConcatPair, Zenon
    <3> HIDE DEF six
    <3> QED BY <2>2, <3>1
  <2> HIDE DEF six
  <2>4. bytes = six \o wb
    BY Zenon DEF six, four, two
  <2> HIDE DEF bytes
  <2>5. /\ bytes \in Seq(byte) /\ Len(bytes) = Len(six) + 2
        /\ \A i \in 1..Len(six) : bytes[i] = six[i]
        /\ bytes[Len(six) + 1] = wb[1] /\ bytes[Len(six) + 2] = wb[2]
    BY <1>1, <2>3, <2>4, ConcatPair, Zenon
  <2> QED BY <2>3, <2>5
<1> HIDE DEF bytes
<1>4. /\ tx_frame(m, bytes) \in can_frame_t
      /\ \A i \in 0..7 : i < Len(bytes) => tx_frame(m, bytes).data[i] = bytes[i + 1]
  BY <1>2, TxFrameType, Zenon
<1>5. /\ data[0] = bytes[1] /\ data[1] = bytes[2] /\ data[2] = bytes[3] /\ data[3] = bytes[4]
      /\ data[4] = bytes[5] /\ data[5] = bytes[6] /\ data[6] = bytes[7] /\ data[7] = bytes[8]
  BY <1>2, <1>4
<1> HIDE DEF data
<1>6. /\ data[0] = a /\ data[1] = b /\ data[2] = ub[1] /\ data[3] = ub[2]
      /\ data[4] = vb[1] /\ data[5] = vb[2] /\ data[6] = wb[1] /\ data[7] = wb[2]
  BY <1>2, <1>5
<1>7. /\ can_codec_read_u16_le(data, 2) = ub[1] + BYTE * ub[2]
      /\ can_codec_read_u16_le(data, 4) = vb[1] + BYTE * vb[2]
      /\ can_codec_read_u16_le(data, 6) = wb[1] + BYTE * wb[2]
  BY <1>6 DEF can_codec_read_u16_le
<1> QED BY <1>1, <1>4, <1>6, <1>7 DEF bytes, data, ub, vb, wb

\* A status frame is sent in every state, and carries it.
LEMMA StatusFrame ==
    ASSUME NEW st \in reb_state_t
    PROVE  LET frames == can_tx_build_frame("REB_STATUS", can_adapter_outputs_to_tx_status(st))
           IN  /\ frames \subseteq can_frame_t
               /\ \E frame \in frames : frame.data[0] = status_code(st)
<1> DEFINE msg   == can_adapter_outputs_to_tx_status(st)
           zero  == can_codec_write_u16_le(0)
           bytes == <<msg.status_code, msg.blocked_flag>> \o zero \o zero \o zero
<1>1. /\ msg.status_code = status_code(st) /\ status_code(st) \in 0..3
      /\ msg.blocked_flag \in 0..1
      /\ msg.vehicle_speed_centi_kmh = 0 /\ msg.error_code = 0 /\ msg.reserved = 0
  BY DEF can_adapter_outputs_to_tx_status, status_code, reb_state_t
<1>2. 0 \in UINT16 /\ 0..3 \subseteq byte /\ 0..1 \subseteq byte
  BY DEF UINT16, byte
<1>3. reb_status_encodable(msg)
  BY <1>1, <1>2 DEF reb_status_encodable
<1>4. can_tx_build_frame("REB_STATUS", msg) = {tx_frame("REB_STATUS", bytes)}
  BY <1>1, <1>3 DEF can_tx_build_frame, can_codec_encode_reb_status
<1>5. zero \in Seq(byte) /\ zero = <<0, 0>>
  BY DEF can_codec_write_u16_le, byte
<1> DEFINE first == <<msg.status_code, msg.blocked_flag>>
<1>6. first \in Seq(byte) /\ Len(first) = 2 /\ first[1] = msg.status_code
  BY <1>1, <1>2
<1> HIDE DEF msg, zero, first
<1>7. /\ bytes \in Seq(byte) /\ Len(bytes) >= 2
      /\ bytes[1] = first[1]
  <2>1. /\ first \o zero \in Seq(byte) /\ Len(first \o zero) >= 2
        /\ (first \o zero)[1] = first[1]
    BY <1>5, <1>6, ConcatProperties, LenProperties
  <2>2. /\ (first \o zero) \o zero \in Seq(byte) /\ Len((first \o zero) \o zero) >= 2
        /\ ((first \o zero) \o zero)[1] = first[1]
    BY <1>5, <2>1, ConcatProperties, LenProperties
  <2> QED BY <1>5, <2>2, ConcatProperties, LenProperties DEF first
<1>8. "REB_STATUS" \in can_msg_id_t
  BY DEF can_msg_id_t, g_can_msg_table
<1> HIDE DEF bytes
<1>9. /\ tx_frame("REB_STATUS", bytes) \in can_frame_t
      /\ tx_frame("REB_STATUS", bytes).data[0] = bytes[0 + 1]
  BY <1>7, <1>8, TxFrameType
<1> QED BY <1>1, <1>4, <1>6, <1>7, <1>9 DEF msg

\* So is a derating command, while fuel is derated: percentage and mode.
LEMMA DerateFrame ==
    ASSUME NEW out \in actuator_output_t, out.fuel_derating_active
    PROVE  LET frames == can_tx_build_frame("REB_DERATE_CMD",
                                            can_adapter_outputs_to_tx_derate(out))
           IN  /\ frames \subseteq can_frame_t
               /\ \E frame \in frames :
                     /\ frame.data[0] = out.derate_pct
                     /\ frame.data[1] = CAN_DERATE_MODE_GRADUAL_RAMP
<1> DEFINE msg   == can_adapter_outputs_to_tx_derate(out)
           bytes == <<msg.derate_pct, msg.derate_mode, msg.safety_flag>>
<1>1. /\ msg.derate_pct = out.derate_pct /\ out.derate_pct \in 0..DERATE_PCT_INIT
      /\ msg.derate_mode = CAN_DERATE_MODE_GRADUAL_RAMP
      /\ msg.safety_flag \in 0..1
  BY DEF can_adapter_outputs_to_tx_derate, actuator_output_t
<1>2. 0..DERATE_PCT_INIT \subseteq byte /\ 0..1 \subseteq byte
  BY CanAssumption, ActuatorAssumption DEF byte
<1>3. reb_derate_cmd_encodable(msg)
  BY <1>1, CanAssumption DEF reb_derate_cmd_encodable, CAN_DERATE_MODE_GRADUAL_RAMP
<1>4. can_tx_build_frame("REB_DERATE_CMD", msg) = {tx_frame("REB_DERATE_CMD", bytes)}
  BY <1>3 DEF can_tx_build_frame, can_codec_encode_reb_derate_cmd
<1> HIDE DEF msg
<1>5. /\ bytes \in Seq(byte) /\ Len(bytes) = 3
      /\ bytes[1] = msg.derate_pct /\ bytes[2] = msg.derate_mode
  BY <1>1, <1>2 DEF CAN_DERATE_MODE_GRADUAL_RAMP
<1>6. "REB_DERATE_CMD" \in can_msg_id_t
  BY DEF can_msg_id_t, g_can_msg_table
<1> HIDE DEF bytes
<1> DEFINE sent == tx_frame("REB_DERATE_CMD", bytes)
<1>7. /\ sent \in can_frame_t
      /\ sent.data[0] = bytes[1] /\ sent.data[1] = bytes[2]
  <2>1. /\ sent \in can_frame_t
        /\ \A i \in 0..7 : i < Len(bytes) => sent.data[i] = bytes[i + 1]
    BY <1>5, <1>6, TxFrameType
  <2> HIDE DEF sent
  <2> QED BY <1>5, <2>1
<1> QED BY <1>1, <1>4, <1>5, <1>7 DEF msg

-----------------------------------------------------------------------------
(* Frames and messages *)

\* The header of a frame that is sent is the one the table gives its message.
LEMMA TxFrameHeader ==
    ASSUME NEW m \in can_msg_id_t, NEW bytes
    PROVE  /\ carries(tx_frame(m, bytes), m)
           /\ tx_frame(m, bytes).dlc = g_can_msg_table[m].dlc
           /\ can_frame_is_valid(tx_frame(m, bytes))
<1>1. /\ g_can_msg_table[m].can_id <= CAN_STD_ID_MAX
      /\ g_can_msg_table[m].id_type = "STANDARD"
      /\ g_can_msg_table[m].dlc = CAN_DLC_MAX
  BY DEF can_msg_id_t, g_can_msg_table, can_msg_desc, CAN_STD_ID_MAX, CAN_DLC_MAX
<1>2. /\ tx_frame(m, bytes).id = g_can_msg_table[m].can_id
      /\ tx_frame(m, bytes).id_type = g_can_msg_table[m].id_type
      /\ tx_frame(m, bytes).dlc = g_can_msg_table[m].dlc
      /\ tx_frame(m, bytes).frame_type = "DATA"
  BY DEF tx_frame, can_frame_init
<1> QED BY <1>1, <1>2 DEF carries, can_frame_is_valid, CAN_DLC_MAX

\* An identifier belongs to one message, whatever the frame: the order in which
\* can_ids.c looks for it in its table does not matter, and the message a receiver
\* takes a frame for is the one it was sent as.
THEOREM OneMessagePerFrame ==
    ASSUME NEW frame, NEW m \in can_msg_id_t, NEW n \in can_msg_id_t,
           carries(frame, m), carries(frame, n)
    PROVE  m = n
<1>1. g_can_msg_table[m].can_id = g_can_msg_table[n].can_id
  BY DEF carries
<1> QED BY <1>1 DEF can_msg_id_t, g_can_msg_table, can_msg_desc

\* A frame the unit has built is never accepted as a message to it: heard back
\* from the bus, it merges nothing (can_codec_validate_rx_frame).
THEOREM OwnFramesIgnored ==
    ASSUME NEW m, NEW msg, NEW frame \in can_tx_build_frame(m, msg)
    PROVE  accepted_as(frame) = {}
<1>1. PICK sent \in {"REB_STATUS", "REB_DERATE_CMD", "REB_PREVENT_START", "REB_GPS_REQUEST"} :
        \E bytes : frame = tx_frame(sent, bytes)
  BY Zenon DEF can_tx_build_frame, can_codec_encode_reb_status, can_codec_encode_reb_derate_cmd,
     can_codec_encode_reb_prevent_start, can_codec_encode_reb_gps_request
<1>2. sent \in can_msg_id_t /\ g_can_msg_table[sent].direction # "RX"
  BY DEF can_msg_id_t, g_can_msg_table, can_msg_desc
<1>3. carries(frame, sent)
  BY <1>1, <1>2, TxFrameHeader
<1>4. ASSUME NEW n \in RxMessages, n \in accepted_as(frame)
      PROVE  FALSE
  <2>1. n \in can_msg_id_t /\ g_can_msg_table[n].direction = "RX" /\ carries(frame, n)
    BY <1>4 DEF RxMessages, accepted_as, can_codec_validate_rx_frame
  <2>2. n = sent
    BY <1>2, <1>3, <2>1, OneMessagePerFrame
  <2> QED BY <1>2, <2>1, <2>2
<1> QED BY <1>4 DEF accepted_as

\* Whatever status the encoder does not refuse, the bytes on the bus are a valid
\* frame of that message, and read little-endian they give back every field
\* (can_codec_encode_reb_status).
THEOREM StatusReadable ==
    ASSUME NEW msg, NEW frame \in can_tx_build_frame("REB_STATUS", msg)
    PROVE  /\ frame \in can_frame_t /\ can_frame_is_valid(frame) /\ carries(frame, "REB_STATUS")
           /\ frame.data[0] = msg.status_code
           /\ frame.data[1] = msg.blocked_flag
           /\ can_codec_read_u16_le(frame.data, 2) = msg.vehicle_speed_centi_kmh
           /\ can_codec_read_u16_le(frame.data, 4) = msg.error_code
           /\ can_codec_read_u16_le(frame.data, 6) = msg.reserved
<1>1. reb_status_encodable(msg) /\ frame = can_codec_encode_reb_status(msg)
  BY DEF can_tx_build_frame
<1>2. "REB_STATUS" \in can_msg_id_t
  BY DEF can_msg_id_t, g_can_msg_table
<1>3. /\ msg.status_code \in byte /\ msg.blocked_flag \in byte
      /\ msg.vehicle_speed_centi_kmh \in UINT16
      /\ msg.error_code \in UINT16 /\ msg.reserved \in UINT16
  BY <1>1 DEF reb_status_encodable, byte
<1>4. can_frame_is_valid(frame) /\ carries(frame, "REB_STATUS")
  BY <1>1, <1>2, TxFrameHeader, Zenon DEF can_codec_encode_reb_status
<1> DEFINE bytes == <<msg.status_code, msg.blocked_flag>>
                      \o can_codec_write_u16_le(msg.vehicle_speed_centi_kmh)
                      \o can_codec_write_u16_le(msg.error_code)
                      \o can_codec_write_u16_le(msg.reserved)
           data  == tx_frame("REB_STATUS", bytes).data
<1>5. frame = tx_frame("REB_STATUS", bytes)
  BY <1>1, Zenon DEF can_codec_encode_reb_status
<1>6. /\ tx_frame("REB_STATUS", bytes) \in can_frame_t
      /\ data[0] = msg.status_code /\ data[1] = msg.blocked_flag
      /\ can_codec_read_u16_le(data, 2) = msg.vehicle_speed_centi_kmh
      /\ can_codec_read_u16_le(data, 4) = msg.error_code
      /\ can_codec_read_u16_le(data, 6) = msg.reserved
  BY <1>2, <1>3, EightBytes
<1> HIDE DEF bytes
<1> QED BY <1>4, <1>5, <1>6

\* The same of a derating command: a percentage above the maximum is never sent,
\* and the one that is sent is the one the message asked for
\* (can_codec_encode_reb_derate_cmd).
THEOREM DerateReadable ==
    ASSUME NEW msg, NEW frame \in can_tx_build_frame("REB_DERATE_CMD", msg)
    PROVE  /\ frame \in can_frame_t /\ can_frame_is_valid(frame)
           /\ carries(frame, "REB_DERATE_CMD")
           /\ frame.data[0] = msg.derate_pct /\ frame.data[0] <= CAN_CODEC_DERATE_PCT_MAX
           /\ frame.data[1] = msg.derate_mode
           /\ frame.data[2] = msg.safety_flag
<1>1. reb_derate_cmd_encodable(msg) /\ frame = can_codec_encode_reb_derate_cmd(msg)
  BY DEF can_tx_build_frame
<1>2. "REB_DERATE_CMD" \in can_msg_id_t
  BY DEF can_msg_id_t, g_can_msg_table
<1> DEFINE bytes == <<msg.derate_pct, msg.derate_mode, msg.safety_flag>>
<1>3. /\ msg.derate_pct \in byte /\ msg.derate_mode \in byte /\ msg.safety_flag \in byte
      /\ msg.derate_pct <= CAN_CODEC_DERATE_PCT_MAX
  BY <1>1 DEF reb_derate_cmd_encodable, byte
<1>4. /\ bytes \in Seq(byte) /\ Len(bytes) = 3
      /\ bytes[1] = msg.derate_pct /\ bytes[2] = msg.derate_mode /\ bytes[3] = msg.safety_flag
  BY <1>3
<1>5. frame = tx_frame("REB_DERATE_CMD", bytes)
  BY <1>1, Zenon DEF can_codec_encode_reb_derate_cmd
<1> HIDE DEF bytes
<1>6. can_frame_is_valid(frame) /\ carries(frame, "REB_DERATE_CMD")
  BY <1>2, <1>5, TxFrameHeader
<1>7. /\ frame \in can_frame_t
      /\ \A i \in 0..7 : i < Len(bytes) => frame.data[i] = bytes[i + 1]
  BY <1>2, <1>4, <1>5, TxFrameType, Zenon
<1> QED BY <1>3, <1>4, <1>6, <1>7

-----------------------------------------------------------------------------
(* StatusReachesPeers and FuelCommandReachesPeers *)

\* The cycle behind a step of the bus: its input, and how it ends.
LEMMA CanCycleEnds ==
    ASSUME CanInv, CanCycle
    PROVE  \E in \in reb_inputs_t :
              reb_fsm_step(in) /\ end_of_step(in) /\ TypeInv'
<1>1. PICK trusts \in Verdicts : reb_fsm_step(seen_with(trusts))
  BY Zenon DEF CanCycle
<1> DEFINE in == seen_with(trusts)
<1>2. in \in reb_inputs_t
  BY <1>1, CanAssumption, SeenType DEF CanInv, InputsInv
<1> HIDE DEF in
<1>3. reb_fsm_step(in)
  BY <1>1 DEF in
<1>4. TypeInv'
  BY <1>2, <1>3, CycleType DEF CanInv
<1>5. CASE keeps_or_advances(in)
  BY <1>2, <1>3, <1>4, <1>5, CycleEnds
<1>6. CASE returns(in, FALSE)
  <2>1. PICK first \in nvm_data_t, pnl \in panel_auth_ctx_t : Returning(first, pnl, in, FALSE)
    BY <1>2, <1>6, ReturningSnapshot DEF CanInv
  <2>2. end_of_step(in)
    BY <2>1, ReturnFuel
  <2> QED BY <1>2, <1>3, <1>4, <2>2
<1> QED BY <1>3, <1>5, <1>6 DEF reb_fsm_step

\* A state older than the status counter has been sent: the counter passed its
\* end while the machine was in it.
StatusInv ==
    /\ held \in 0..STATUS_PERIOD_CYCLES
    /\ bus_status \subseteq can_frame_t
    /\ held > status_timer => \E frame \in bus_status : frame.data[0] = status_code(state)

LEMMA StatusStep ==
    ASSUME CanInv, StatusInv, [CanNext]_can_vars
    PROVE  StatusInv'
<1>1. /\ STATUS_PERIOD_CYCLES \in Nat \ {0}
      /\ status_timer \in 0..(STATUS_PERIOD_CYCLES - 1)
  BY FsmAssumption DEF CanInv, TypeInv, ContextTypeOK
<1>2. CASE CanCycle
  <2>1. PICK in \in reb_inputs_t : end_of_step(in) /\ TypeInv'
    BY <1>2, CanCycleEnds
  <2>2. /\ state' \in reb_state_t
        /\ status_timer' \in 0..(STATUS_PERIOD_CYCLES - 1)
    BY <2>1 DEF TypeInv, ContextTypeOK
  <2>3. /\ held' = IF state' = state THEN saturate(held + 1, STATUS_PERIOD_CYCLES) ELSE 0
        /\ bus_status' = IF status_timer' = 0
                         THEN can_tx_build_frame("REB_STATUS",
                                  can_adapter_outputs_to_tx_status(state'))
                         ELSE bus_status
    BY <1>2, Zenon DEF CanCycle, reb_status_tx_due
  <2>4. held' \in 0..STATUS_PERIOD_CYCLES
    BY <1>1, <2>3, CounterTypes DEF StatusInv
  <2>5. CASE status_timer' = 0
    <3>1. bus_status' \subseteq can_frame_t
          /\ \E frame \in bus_status' : frame.data[0] = status_code(state')
      BY <2>2, <2>3, <2>5, StatusFrame
    <3>2. status_code(state)' = status_code(state')
      BY DEF status_code
    <3> QED BY <2>4, <3>1, <3>2 DEF StatusInv
  <2>6. CASE status_timer' # 0
    <3>1. bus_status' = bus_status
      BY <2>3, <2>6
    <3>2. status_timer' = count_to(IF state # "IDLE" /\ state' = "IDLE" THEN 0 ELSE status_timer,
                                   STATUS_PERIOD_CYCLES)
      BY <2>1 DEF end_of_step
    <3>3. CASE state' = state
      <4>1. status_timer' = status_timer + 1 /\ held' <= held + 1
        BY <1>1, <2>3, <2>6, <3>2, <3>3 DEF count_to, saturate, StatusInv
      <4>2. held' > status_timer' => held > status_timer
        BY <1>1, <2>4, <4>1 DEF StatusInv
      <4>3. status_code(state)' = status_code(state)
        BY <3>3 DEF status_code
      <4> QED BY <2>4, <3>1, <4>2, <4>3 DEF StatusInv
    <3>4. CASE state' # state
      <4>1. ~(held' > status_timer')
        BY <2>2, <2>3, <3>4
      <4> QED BY <2>4, <3>1, <4>1 DEF StatusInv
    <3> QED BY <3>3, <3>4
  <2> QED BY <2>5, <2>6
<1>3. CASE CanPowerCycle \/ CanFactoryReset
  <2>1. held' = 0 /\ bus_status' = {} /\ status_timer' = 0
    BY <1>3, Zenon DEF CanPowerCycle, CanFactoryReset, can_boot, PowerCycle, FactoryReset, boot
  <2> QED BY <1>1, <2>1 DEF StatusInv
<1>4. CASE CanReceive \/ Supervise \/ UNCHANGED can_vars
  <2>1. /\ held' = held /\ bus_status' = bus_status
        /\ status_timer' = status_timer /\ state' = state
    BY <1>4, Zenon DEF CanReceive, Supervise, can_vars, vars, tx_vars, run_vars
  <2>2. status_code(state)' = status_code(state)
    BY <2>1 DEF status_code
  <2> QED BY <2>1, <2>2 DEF StatusInv
<1> QED BY <1>2, <1>3, <1>4 DEF CanNext

LEMMA StatusInvariant == CanSpec => []StatusInv
<1>1. CanInit => StatusInv
  BY FsmAssumption DEF CanInit, Init, StatusInv
<1> QED BY <1>1, StatusStep, CanInvariant, PTL DEF CanSpec

\* The receivers of REB_STATUS are never more than a period behind the machine,
\* although entry_idle and every start clear the counter of reb_fsm_step.
THEOREM StatusReaches == CanSpec => []StatusReachesPeers
<1>1. CanInv /\ StatusInv => StatusReachesPeers
  <2> SUFFICES ASSUME CanInv, StatusInv, held >= STATUS_PERIOD_CYCLES
               PROVE  \E frame \in bus_status : frame.data[0] = status_code(state)
    BY DEF StatusReachesPeers
  <2>1. /\ STATUS_PERIOD_CYCLES \in Nat \ {0}
        /\ status_timer \in 0..(STATUS_PERIOD_CYCLES - 1)
    BY FsmAssumption DEF CanInv, TypeInv, ContextTypeOK
  <2> QED BY <2>1 DEF StatusInv
<1> QED BY <1>1, StatusInvariant, CanInvariant, PTL

\* A ramp command was sent when the derating counter last passed its end, and the
\* ramp has fallen one step in each cycle since.
MaxDrop == (DERATE_STEP + RAMP_SCALE - 1) \div RAMP_SCALE

CommandedWithin(frames, pct, cycles) ==
    \E frame \in frames :
        /\ frame.data[1] = CAN_DERATE_MODE_GRADUAL_RAMP
        /\ frame.data[0] \in Nat
        /\ frame.data[0] >= FUEL_FLOOR_PCT
        /\ frame.data[0] >= pct
        /\ frame.data[0] - pct <= cycles * MaxDrop

FuelCommandInv ==
    /\ derating \in 0..DERATE_CMD_PERIOD_CYCLES
    /\ bus_derate \subseteq can_frame_t
    /\ derating > 0 => state = "BLOCKING"
    /\ derating > derate_timer => CommandedWithin(bus_derate, act.derate_pct, derate_timer)

LEMMA MaxDropType == MaxDrop \in Nat
<1>1. RAMP_SCALE \in Nat \ {0} /\ DERATE_STEP \in Nat \ {0}
  BY FsmAssumption
<1> QED BY <1>1 DEF MaxDrop

\* One more cycle of the ramp leaves the last command one step further ahead.
LEMMA CommandAges ==
    ASSUME NEW frames, NEW pct \in Nat, NEW low \in Nat, NEW cycles \in Nat,
           low <= pct, pct - low <= MaxDrop, CommandedWithin(frames, pct, cycles)
    PROVE  CommandedWithin(frames, low, cycles + 1)
<1>1. PICK frame \in frames :
          /\ frame.data[1] = CAN_DERATE_MODE_GRADUAL_RAMP
          /\ frame.data[0] \in Nat
          /\ frame.data[0] >= FUEL_FLOOR_PCT
          /\ frame.data[0] >= pct
          /\ frame.data[0] - pct <= cycles * MaxDrop
  BY DEF CommandedWithin
<1>2. (cycles + 1) * MaxDrop = cycles * MaxDrop + MaxDrop /\ cycles * MaxDrop \in Nat
  BY MaxDropType
<1>3. frame.data[0] >= low /\ frame.data[0] - low <= (cycles + 1) * MaxDrop
  BY <1>1, <1>2, MaxDropType
<1> QED BY <1>1, <1>3 DEF CommandedWithin

LEMMA FuelCommandStep ==
    ASSUME CanInv, FuelCommandInv, PromiseInv, FuelFollowsRamp,
           act'.derate_pct >= FUEL_FLOOR_PCT, [CanNext]_can_vars
    PROVE  FuelCommandInv'
<1>1. /\ DERATE_CMD_PERIOD_CYCLES \in Nat \ {0}
      /\ derate_timer \in 0..(DERATE_CMD_PERIOD_CYCLES - 1)
  BY FsmAssumption DEF CanInv, TypeInv, ContextTypeOK
<1>2. CASE CanCycle
  <2>1. PICK in \in reb_inputs_t : reb_fsm_step(in) /\ end_of_step(in) /\ TypeInv'
    BY <1>2, CanCycleEnds
  <2>2. /\ act' \in actuator_output_t
        /\ derate_timer' \in 0..(DERATE_CMD_PERIOD_CYCLES - 1)
        /\ act'.derate_pct \in 0..DERATE_PCT_INIT
        /\ DERATE_PCT_INIT \in Nat /\ FUEL_FLOOR_PCT \in Nat
    BY <2>1, ActuatorAssumption DEF TypeInv, ContextTypeOK, actuator_output_t
  <2> DEFINE goes_on == state' = "BLOCKING" /\ act'.fuel_derating_active
  <2>3. /\ derating' = IF goes_on THEN saturate(derating + 1, DERATE_CMD_PERIOD_CYCLES) ELSE 0
        /\ bus_derate' = IF goes_on /\ derate_timer' = 0
                         THEN can_tx_build_frame("REB_DERATE_CMD",
                                  can_adapter_outputs_to_tx_derate(act'))
                         ELSE bus_derate
    BY <1>2, Zenon DEF CanCycle, derate_cmd_tx_due
  <2>4. derating' \in 0..DERATE_CMD_PERIOD_CYCLES
    BY <1>1, <2>3, CounterTypes DEF FuelCommandInv
  <2>5. CASE ~goes_on
    <3>1. derating' = 0 /\ bus_derate' = bus_derate
      BY <2>3, <2>5
    <3> QED BY <2>2, <2>4, <3>1 DEF FuelCommandInv
  <2>6. CASE goes_on /\ derate_timer' = 0
    <3>1. /\ bus_derate' \subseteq can_frame_t
          /\ \E frame \in bus_derate' : /\ frame.data[0] = act'.derate_pct
                                        /\ frame.data[1] = CAN_DERATE_MODE_GRADUAL_RAMP
      BY <2>2, <2>3, <2>6, DerateFrame
    <3>2. act'.derate_pct - act'.derate_pct <= 0 * MaxDrop
      BY <2>2, MaxDropType
    <3>3. CommandedWithin(bus_derate', act'.derate_pct, 0)
      BY <2>2, <3>1, <3>2 DEF CommandedWithin
    <3> QED BY <2>4, <2>6, <3>1, <3>3 DEF FuelCommandInv, CommandedWithin
  <2>7. CASE goes_on /\ derate_timer' # 0
    <3>1. bus_derate' = bus_derate /\ derating' = saturate(derating + 1, DERATE_CMD_PERIOD_CYCLES)
      BY <2>3, <2>7
    <3>2. derate_timer' = derate_timer + 1
      BY <1>1, <2>1, <2>7 DEF end_of_step, count_to
    <3>3. derating' > derate_timer' => derating > derate_timer
      BY <1>1, <2>4, <3>1, <3>2 DEF FuelCommandInv, saturate
    <3>4. ASSUME derating' > derate_timer'
          PROVE  CommandedWithin(bus_derate', act'.derate_pct, derate_timer')
      <4>1. /\ state = "BLOCKING"
            /\ CommandedWithin(bus_derate, act.derate_pct, derate_timer)
        BY <1>1, <3>3, <3>4 DEF FuelCommandInv
      <4>2. keeps_or_advances(in)
        <5>1. ASSUME returns(in, FALSE) PROVE FALSE
          <6>1. PICK first \in nvm_data_t, pnl \in panel_auth_ctx_t :
                    Returning(first, pnl, in, FALSE)
            BY <2>1, <5>1, ReturningSnapshot DEF CanInv
          <6>2. act' = act_init
            BY <6>1, ReturnFuel
          <6> QED BY <2>7, <6>2 DEF act_init
        <5> QED BY <2>1, <5>1 DEF reb_fsm_step
      <4>3. /\ act'.derate_pct \in FUEL_FLOOR_PCT..act.derate_pct
            /\ act.derate_pct - act'.derate_pct <= MaxDrop
            /\ act.derate_pct \in Nat
        BY <2>7, <4>1, <4>2, FuelDrop DEF MaxDrop
      <4>4. CommandedWithin(bus_derate, act'.derate_pct, derate_timer + 1)
        BY <1>1, <2>2, <4>1, <4>3, CommandAges
      <4> QED BY <3>1, <3>2, <4>4
    <3> QED BY <2>4, <2>7, <3>1, <3>4 DEF FuelCommandInv, CommandedWithin
  <2> QED BY <2>5, <2>6, <2>7
<1>3. CASE CanPowerCycle \/ CanFactoryReset
  <2>1. derating' = 0 /\ bus_derate' = {} /\ derate_timer' = 0
    BY <1>3, Zenon DEF CanPowerCycle, CanFactoryReset, can_boot, PowerCycle, FactoryReset, boot
  <2> QED BY <1>1, <2>1 DEF FuelCommandInv
<1>4. CASE CanReceive \/ Supervise \/ UNCHANGED can_vars
  <2>1. /\ derating' = derating /\ bus_derate' = bus_derate
        /\ derate_timer' = derate_timer /\ state' = state /\ act' = act
    BY <1>4, Zenon DEF CanReceive, Supervise, can_vars, vars, tx_vars, run_vars
  <2> QED BY <2>1 DEF FuelCommandInv, CommandedWithin
<1> QED BY <1>2, <1>3, <1>4 DEF CanNext

\* While fuel is being taken away the fuel pump controller follows: the last
\* REB_DERATE_CMD is a ramp command, no lower than the floor, and no further from
\* the fuel command than reb_fsm_step's ramp falls in a transmission period.
THEOREM FuelCommandReaches == CanSpec => []FuelCommandReachesPeers
<1>1. CanInit => FuelCommandInv
  BY FsmAssumption DEF CanInit, Init, FuelCommandInv
<1>2. CanInv /\ FuelCommandInv /\ PromiseInv /\ FuelFollowsRamp /\ (PromiseInv /\ FuelFollowsRamp)'
        /\ [CanNext]_can_vars => FuelCommandInv'
  <2>1. PromiseInv' => act'.derate_pct >= FUEL_FLOOR_PCT
    BY DEF PromiseInv, FuelNeverBelowFloor
  <2> QED BY <2>1, FuelCommandStep
<1>3. CanSpec => [](PromiseInv /\ FuelFollowsRamp)
  BY CanImplementsFsm, PromiseInvariant, PTL
<1>4. CanInv /\ FuelCommandInv /\ PromiseInv => FuelCommandReachesPeers
  <2> SUFFICES ASSUME CanInv, FuelCommandInv, PromiseInv, derating >= DERATE_CMD_PERIOD_CYCLES
               PROVE  \E frame \in bus_derate :
                         /\ frame.data[1] = CAN_DERATE_MODE_GRADUAL_RAMP
                         /\ frame.data[0] >= FUEL_FLOOR_PCT
                         /\ frame.data[0] >= act.derate_pct
                         /\ frame.data[0] - act.derate_pct
                              <= DERATE_CMD_PERIOD_CYCLES * MaxDrop
    BY DEF FuelCommandReachesPeers, MaxDrop
  <2>1. /\ DERATE_CMD_PERIOD_CYCLES \in Nat \ {0}
        /\ derate_timer \in 0..(DERATE_CMD_PERIOD_CYCLES - 1)
        /\ act.derate_pct \in 0..DERATE_PCT_INIT /\ DERATE_PCT_INIT \in Nat
    BY FsmAssumption, ActuatorAssumption DEF CanInv, TypeInv, ContextTypeOK, actuator_output_t
  <2>2. CommandedWithin(bus_derate, act.derate_pct, derate_timer)
    BY <2>1 DEF FuelCommandInv
  <2>3. derate_timer * MaxDrop <= DERATE_CMD_PERIOD_CYCLES * MaxDrop
        /\ derate_timer * MaxDrop \in Nat /\ DERATE_CMD_PERIOD_CYCLES * MaxDrop \in Nat
    BY <2>1, MaxDropType
  <2> QED BY <2>1, <2>2, <2>3 DEF CommandedWithin
<1> QED BY <1>1, <1>2, <1>3, <1>4, CanInvariant, PTL DEF CanSpec

-----------------------------------------------------------------------------
(* CanTypeOK *)

\* What the bus and the run variables hold, whatever the machine does.
BusInv ==
    /\ bus_derate \subseteq can_frame_t
    /\ derating \in 0..DERATE_CMD_PERIOD_CYCLES
    /\ intruded \in 0..FUSION_DEBOUNCE_CYCLES

LEMMA BusStep ==
    ASSUME CanInv, BusInv, [CanNext]_can_vars
    PROVE  BusInv'
<1>1. DERATE_CMD_PERIOD_CYCLES \in Nat \ {0} /\ FUSION_DEBOUNCE_CYCLES \in Nat \ {0}
  BY FsmAssumption, FusionAssumption
<1>2. CASE CanCycle
  <2>1. PICK trusts \in Verdicts :
            /\ reb_fsm_step(seen_with(trusts))
            /\ bus_derate' = IF derate_cmd_tx_due
                             THEN can_tx_build_frame("REB_DERATE_CMD",
                                      can_adapter_outputs_to_tx_derate(act'))
                             ELSE bus_derate
            /\ derating' \in {saturate(derating + 1, DERATE_CMD_PERIOD_CYCLES), 0}
            /\ intruded' \in {saturate(intruded + 1, FUSION_DEBOUNCE_CYCLES), 0}
    BY <1>2 DEF CanCycle
  <2>2. TypeInv'
    BY <1>2, CanCycleEnds
  <2>3. act' \in actuator_output_t
    BY <2>2 DEF TypeInv, ContextTypeOK
  <2>4. bus_derate' \subseteq can_frame_t
    <3>1. CASE derate_cmd_tx_due
      <4>1. act'.fuel_derating_active
        BY <3>1 DEF derate_cmd_tx_due
      <4> QED BY <2>1, <2>3, <3>1, <4>1, DerateFrame
    <3>2. CASE ~derate_cmd_tx_due
      BY <2>1, <3>2 DEF BusInv
    <3> QED BY <3>1, <3>2
  <2>5. /\ derating' \in 0..DERATE_CMD_PERIOD_CYCLES
        /\ intruded' \in 0..FUSION_DEBOUNCE_CYCLES
    <3>1. derating + 1 \in Nat /\ intruded + 1 \in Nat
      BY <1>1 DEF BusInv
    <3>2. /\ saturate(derating + 1, DERATE_CMD_PERIOD_CYCLES) \in 0..DERATE_CMD_PERIOD_CYCLES
          /\ saturate(intruded + 1, FUSION_DEBOUNCE_CYCLES) \in 0..FUSION_DEBOUNCE_CYCLES
      BY <1>1, <3>1, CounterTypes
    <3>3. 0 \in 0..DERATE_CMD_PERIOD_CYCLES /\ 0 \in 0..FUSION_DEBOUNCE_CYCLES
      BY <1>1
    <3> QED BY <2>1, <3>2, <3>3
  <2> QED BY <2>4, <2>5 DEF BusInv
<1>3. CASE CanPowerCycle \/ CanFactoryReset
  <2>1. derating' = 0 /\ intruded' = 0 /\ bus_derate' = {}
    BY <1>3, Zenon DEF CanPowerCycle, CanFactoryReset, can_boot
  <2> QED BY <1>1, <2>1 DEF BusInv
<1>4. CASE CanReceive \/ Supervise \/ UNCHANGED can_vars
  <2>1. derating' = derating /\ intruded' = intruded /\ bus_derate' = bus_derate
    BY <1>4, Zenon DEF CanReceive, Supervise, can_vars, tx_vars, run_vars
  <2> QED BY <2>1 DEF BusInv
<1> QED BY <1>2, <1>3, <1>4 DEF CanNext

\* Bytes from the bus and bytes to it, the inputs between them and the machine
\* behind them keep to what the code declares.
THEOREM CanTypeCorrect == CanSpec => []CanTypeOK
<1>1. CanInit => BusInv
  BY FsmAssumption, FusionAssumption DEF CanInit, BusInv
<1>2. CanSpec => []BusInv
  BY <1>1, BusStep, CanInvariant, PTL DEF CanSpec
<1>3. CanInv => TypeOK /\ inputs \in reb_inputs_t /\ rx_msg.msg_id \in RxMessages \cup {"INVALID"}
  <2>1. CanInv => TypeOK
    BY DEF CanInv, TypeInv, MemoryTypeOK, TypeOK
  <2>2. CanInv => rx_msg.msg_id \in RxMessages \cup {"INVALID"}
    BY DEF CanInv, InputsInv, received, can_rx_message
  <2> QED BY <2>1, <2>2 DEF CanInv, InputsInv
<1>4. OrderInvariant => order.type \in byte /\ order.nonces \subseteq UINT16
  BY DEF OrderInvariant, order_t
<1>5. CanInv /\ StatusInv /\ BusInv /\ OrderInvariant => CanTypeOK
  BY <1>3, <1>4 DEF StatusInv, BusInv, CanTypeOK
<1> QED BY <1>2, <1>5, CanInvariant, StatusInvariant, OrderKept, PTL
=============================================================================
