--------------------------- MODULE VirtioNetInit ---------------------------
(***************************************************************************)
(* VirtioNet::new of src/devices/virtio/net.rs for a device whose type is *)
(* 1, written over the register accessors that VirtioMMIO implements in    *)
(* src/devices/virtio/mmio.rs.  The device on the other side is a          *)
(* virtio-mmio version 2 device, answering those accesses as virtio 1.x    *)
(* describes it.                                                            *)
(*                                                                         *)
(* A feature word is a set of bit numbers, because the 64-bit words do not *)
(* fit TLC's integers.  A window w describes its device:                   *)
(*   - w.features: the features the device offers;                        *)
(*   - w.required: the features it needs accepted before it keeps         *)
(*     FEATURES_OK;                                                        *)
(*   - w.qmax: the QueueNumMax of each queue.                              *)
(* The device record holds its registers: status, the enabled features,   *)
(* QueueSel, and QueueNum and QueueReady per queue.  It also holds what   *)
(* the device saw, in order, for the properties:                          *)
(*   - every status value written;                                        *)
(*   - the status at the features write;                                  *)
(*   - the status at each queue's activation;                             *)
(*   - the status at each notify.                                         *)
(***************************************************************************)
EXTENDS Integers, Sequences
LOCAL INSTANCE Bitwise

\* device status bits
ACKNOWLEDGE == 1
DRIVER == 2
DRIVER_OK == 4
FEATURES_OK == 8

NetQueues == 0 .. 2   \* rxqueue, txqueue, cxqueue

\* drv_features_common | drv_features_net == 0x30000000 | 0x1AEA3
DrvFeatures == {28, 29} \cup {0, 1, 5, 7, 9, 10, 11, 13, 15, 16}

(* the device before the driver's first access, and after a reset *)
PoweredOn == [status |-> 0, features |-> {}, sel |-> 0,
              num |-> [q \in NetQueues |-> 0], ready |-> [q \in NetQueues |-> FALSE],
              statuses |-> <<>>, featuresAt |-> 0,
              readyAt |-> [q \in NetQueues |-> 0], notifiedAt |-> {}]

(***************************************************************************)
(* set_status: a write of the Status register.  A write of 0 resets the   *)
(* device.  A write that sets FEATURES_OK for the first time is refused,  *)
(* leaving the status as it was, when the enabled features miss one the   *)
(* device requires.  Any other value is stored.                           *)
(***************************************************************************)
SetStatus(d, w, v) ==
  LET seen == [d EXCEPT !.statuses = Append(@, v)]
  IN CASE v = 0 -> [seen EXCEPT !.status = 0, !.features = {}, !.sel = 0,
                                !.num = PoweredOn.num, !.ready = PoweredOn.ready]
       [] (v & FEATURES_OK) # 0 /\ (d.status & FEATURES_OK) = 0
            /\ ~(w.required \subseteq d.features) -> seen
       [] OTHER -> [seen EXCEPT !.status = v]

\* get_status: the register read as u8
GetStatus(d) == d.status % 256

\* the driver's idiom dev.set_status(dev.get_status() | bits)
SetStatusOr(d, w, bits) == SetStatus(d, w, GetStatus(d) | bits)

\* the 32-bit half `sel` of a feature word, as DeviceFeaturesSel selects it
FeatureHalf(f, sel) == {b - 32 * sel : b \in {x \in f : x \div 32 = sel}}

\* Mutant: the high half not shifted back into place.
GetAvailableFeaturesNoShift(w) == FeatureHalf(w.features, 1) \cup FeatureHalf(w.features, 0)

(* get_available_features: the high half (select 1) shifted left 32, or'd *)
(* with the low half (select 0)                                            *)
GetAvailableFeatures(w) ==
  {b + 32 : b \in FeatureHalf(w.features, 1)} \cup FeatureHalf(w.features, 0)

(* set_enabled_features: the high half under select 1, the low half under *)
(* select 0                                                                *)
SetEnabledFeatures(d, f) ==
  [d EXCEPT !.features = {b + 32 : b \in FeatureHalf(f, 1)} \cup FeatureHalf(f, 0),
            !.featuresAt = d.status]

\* select_queue's assert_eq!(QueueReady, 0): it panics on a queue already live
SelectPanics(d, q) == d.ready[q]

(***************************************************************************)
(* The setup_queue closure of VirtioNet::new:                             *)
(*   - select_queue(idx);                                                 *)
(*   - Virtqueue::new takes QueueNumMax as u16 as its size;              *)
(*   - the VirtioMMIO setup_queue writes QueueNum and the ring addresses; *)
(*   - activate_queue sets QueueReady of the selected queue.              *)
(***************************************************************************)
SetupQueue(d, w, q) ==
  LET s == [d EXCEPT !.sel = q]
  IN [s EXCEPT !.num[s.sel] = w.qmax[q] % 65536, !.ready[s.sel] = TRUE,
               !.readyAt[s.sel] = d.status]

\* kick_queue: a write of QueueNotify
KickQueue(d, q) == [d EXCEPT !.notifiedAt = @ \cup {<<q, d.status>>}]

(***************************************************************************)
(* VirtioNet::new, once get_type is 1.  The steps run in this order:     *)
(*   - reset, then ACKNOWLEDGE, then DRIVER;                              *)
(*   - the offered features and'd with the driver's are enabled;          *)
(*   - FEATURES_OK, whose assert panics if the device cleared the bit;    *)
(*   - the three queues are set up;                                       *)
(*   - the RX ring is pre-filled (VirtioNet's BootRx) and queue 0 kicked; *)
(*   - DRIVER_OK.                                                         *)
(* The MAC comes from Conf.  is_legacy is false for VirtioMMIO.           *)
(***************************************************************************)
NetNew(w) ==
  LET d3 == SetStatusOr(SetStatusOr(SetStatus(PoweredOn, w, 0), w, ACKNOWLEDGE), w, DRIVER)
      subset == GetAvailableFeatures(w) \cap DrvFeatures
      d4 == SetStatusOr(SetEnabledFeatures(d3, subset), w, FEATURES_OK)
      rx == SetupQueue(d4, w, 0)
      tx == SetupQueue(rx, w, 1)
      cx == SetupQueue(tx, w, 2)
  IN [dev |-> SetStatusOr(KickQueue(cx, 0), w, DRIVER_OK),
      features |-> subset,
      panic |-> \/ (GetStatus(d4) & FEATURES_OK) # FEATURES_OK
                \/ SelectPanics(d4, 0) \/ SelectPanics(rx, 1) \/ SelectPanics(tx, 2)]

=============================================================================
