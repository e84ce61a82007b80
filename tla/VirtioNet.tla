------------------------------ MODULE VirtioNet ------------------------------
(***************************************************************************)
(* The virtio-net driver of src/devices/virtio/net.rs over the RX and TX  *)
(* virtqueues of Virtqueue, together with the device that fills RX        *)
(* buffers and consumes TX buffers concurrently with the guest.            *)
(*                                                                         *)
(* The guest is one CPU.  The interrupt handler runs with interrupts      *)
(* disabled (interrupt gate, then cli in irq_handler), so two runs of it   *)
(* never overlap; the device, on the host, can act between any two of its *)
(* steps.  The handler is split where the device can observe a           *)
(* difference: after read_and_ack_isr and fill_rx_queue, and after pop    *)
(* and the delivery of the batch to the processing graph.  The graph's    *)
(* replies (arp-in, icmpv4-in-local, icmpv6-in-local) reach the driver     *)
(* as Netif::xmit calls made during the delivery; how many there are is   *)
(* chosen by the graph (module Pipeline), here any number up to           *)
(* MaxTxPerIrq when the batch is not empty.                                *)
(***************************************************************************)
EXTENDS Virtqueue

LOCAL INSTANCE Bitwise

CONSTANTS
  RefillThreshold, \* fill_rx_queue refills only when free - 1 exceeds it (32)
  MaxTxPerIrq,     \* bound on the replies the graph sends for one batch
  MaxPackets,      \* bound on the packets the device receives
  StartIdx,        \* 0: boot; otherwise the refilled ring at that index
  DeviceFeatures,  \* the feature bits the device offers
  UsedEventInit    \* what the allocation may hold where used_event lies

ASSUME /\ RefillThreshold \in Nat
       /\ MaxTxPerIrq \in Nat
       /\ MaxPackets \in Nat
       /\ StartIdx \in Idx
       /\ UsedEventInit \subseteq Idx

VARIABLES
  rxq, txq,       \* queues[0] and queues[1] of VirtioNet
  rxdev, txdev,   \* the device's view of each queue
  isr,            \* the used-buffer bit of the InterruptStatus register
  hpc,            \* where the interrupt handler is: "idle" or "pop"
  received,       \* packets the device has received so far (bounded)
  panicked,       \* a u16 overflow panicked the kernel (debug build)
  used_event,     \* the RX avail ring's used_event word (never written)
  signalled       \* the device has notified the RX queue at least once

notifyVars == <<used_event, signalled>>

vars == <<rxq, txq, rxdev, txdev, isr, hpc, received, panicked, notifyVars>>

-----------------------------------------------------------------------------
(***************************************************************************)
(* VirtioNet::new: after feature negotiation and queue setup, the RX      *)
(* queue is pre-filled with get_avail_free_size() / 3 buffers and kicked. *)
(* Buffer::new never fails (alloc's null is not checked) and push never    *)
(* fails, so exactly that many are pushed.  With StartIdx # 0 the run     *)
(* starts instead from the ring as a handler leaves it after a refill:    *)
(* QueueSize - 1 fresh buffers posted past used.idx = last_used_idx =     *)
(* StartIdx, none fetched by the device.                                  *)
(***************************************************************************)
(***************************************************************************)
(* VirtioNet::new, feature negotiation: the driver offers INDIRECT_DESC,  *)
(* EVENT_IDX and ten net features, and accepts their AND with what the    *)
(* device offers.  With EVENT_IDX accepted the device notifies a queue    *)
(* only when its used index passes the driver's used_event, the word      *)
(* after the avail ring, which Virtqueue::new leaves as alloc returned it *)
(* and nothing later writes.                                               *)
(***************************************************************************)
DRV_FEATURES == 805306368 + 110243   \* 0x30000000 | 0x1AEA3

EventIdxCap == ((DeviceFeatures & DRV_FEATURES) & 536870912) # 0

BootRx == PushMany(NewQueue(0), GetAvailFreeSize(NewQueue(0)) \div 3)

RefilledRx(c) == PushMany(NewQueue(c), QueueSize - 1)

Init ==
  /\ rxq = IF StartIdx = 0 THEN BootRx ELSE RefilledRx(StartIdx)
  /\ txq = NewQueue(0)
  /\ rxdev = NewDevice(StartIdx)
  /\ txdev = NewDevice(0)
  /\ isr = FALSE
  /\ hpc = "idle"
  /\ received = 0
  /\ panicked = FALSE
  /\ used_event \in UsedEventInit
  /\ signalled = FALSE

-----------------------------------------------------------------------------
(* Device side of the RX queue: a packet arrives and the device takes the *)
(* next available buffer for it.                                           *)
DeviceRxFetch ==
  /\ ~panicked
  /\ received < MaxPackets
  /\ DeviceCanFetch(rxq, rxdev)
  /\ rxdev' = DeviceFetch(rxq, rxdev)
  /\ received' = received + 1
  /\ UNCHANGED <<rxq, txq, txdev, isr, hpc, panicked, notifyVars>>

(* vring_need_event: the used index moved from old to new past event. *)
NeedEvent(event, new, old) == IdxDiff(new, event + 1) < IdxDiff(new, old)

(* The device writes the packet, publishes it in the used ring and raises *)
(* the used-buffer interrupt (avail.flags = 0 on RX) or, with EVENT_IDX,  *)
(* only on its first notification and when the used index passes          *)
(* used_event (QEMU's virtio_should_notify).                                *)
DeviceRxComplete ==
  /\ ~panicked
  /\ rxdev.held # <<>>
  /\ rxq' = DeviceCompleteQueue(rxq, rxdev)
  /\ rxdev' = DeviceCompleteDevice(rxdev)
  /\ isr' = \/ isr
            \/ ~EventIdxCap
            \/ ~signalled
            \/ NeedEvent(used_event, rxq'.used_idx, rxq.used_idx)
  /\ signalled' = TRUE
  /\ UNCHANGED <<txq, txdev, hpc, received, panicked, used_event>>

(* The device reads the next TX buffer (the driver kicked on every xmit). *)
DeviceTxFetch ==
  /\ ~panicked
  /\ DeviceCanFetch(txq, txdev)
  /\ txdev' = DeviceFetch(txq, txdev)
  /\ UNCHANGED <<rxq, txq, rxdev, isr, hpc, received, panicked, notifyVars>>

(* The device has sent the frame and returns the TX descriptor; TX used   *)
(* interrupts are suppressed (avail.flags = 1) and nothing pops TX.        *)
DeviceTxComplete ==
  /\ ~panicked
  /\ txdev.held # <<>>
  /\ txq' = DeviceCompleteQueue(txq, txdev)
  /\ txdev' = DeviceCompleteDevice(txdev)
  /\ UNCHANGED <<rxq, rxdev, isr, hpc, received, panicked, notifyVars>>

-----------------------------------------------------------------------------
(***************************************************************************)
(* fill_rx_queue: size = get_avail_free_size() - 1 (u16); if size > 32,   *)
(* push `size` fresh buffers and kick.  Pushing a slot drops the buffer   *)
(* that was in it.                                                         *)
(***************************************************************************)
RefillSize(q) == (GetAvailFreeSize(q) - 1) % IdxMod

FillOverflows(q) ==
  \/ FreeSizeOverflows(q)
  \/ GetAvailFreeSize(q) = 0
  \/ RefillSize(q) > RefillThreshold /\ PushOverflows(q, RefillSize(q))

\* Mutant: the threshold test inverted.
FillRxInverted(q, dev) ==
  IF RefillSize(q) <= RefillThreshold
  THEN [queue |-> PushMany(q, RefillSize(q)),
        dev |-> DropSlots(dev, PushedSlots(q, RefillSize(q)))]
  ELSE [queue |-> q, dev |-> dev]

FillRx(q, dev) ==
  IF RefillSize(q) > RefillThreshold
  THEN [queue |-> PushMany(q, RefillSize(q)),
        dev |-> DropSlots(dev, PushedSlots(q, RefillSize(q)))]
  ELSE [queue |-> q, dev |-> dev]

(* interrupt_handler, first part: read_and_ack_isr, then fill_rx_queue.   *)
InterruptAckFill ==
  /\ ~panicked
  /\ hpc = "idle"
  /\ isr
  /\ isr' = FALSE
  /\ IF BuildProfile = "debug" /\ FillOverflows(rxq)
     THEN /\ panicked' = TRUE
          /\ UNCHANGED <<rxq, rxdev, hpc>>
     ELSE /\ rxq' = FillRx(rxq, rxdev).queue
          /\ rxdev' = FillRx(rxq, rxdev).dev
          /\ hpc' = "pop"
          /\ UNCHANGED panicked
  /\ UNCHANGED <<txq, txdev, received, notifyVars>>

(***************************************************************************)
(* interrupt_handler, second part: pop the RX queue, slide each buffer    *)
(* past the 12-byte header, deliver the batch to ethernet-in, and send    *)
(* the graph's replies with Netif::xmit (pre_xmit allocates, xmit pushes  *)
(* device-readable on TX without checking space, then kicks).  When the   *)
(* handler returns the batch is dropped, freeing the popped buffers.       *)
(***************************************************************************)
InterruptPopDeliver ==
  /\ ~panicked
  /\ hpc = "pop"
  /\ LET popped == Pop(rxq)
         slotsOut == {popped.out[i] : i \in DOMAIN popped.out}
     IN IF BuildProfile = "debug" /\ PopOverflows(rxq)
        THEN /\ panicked' = TRUE
             /\ UNCHANGED <<rxq, rxdev, txq, txdev, hpc>>
        ELSE \E r \in 0 .. (IF popped.out = <<>> THEN 0 ELSE MaxTxPerIrq) :
               /\ rxq' = popped.queue
               /\ rxdev' = DropSlots(rxdev, slotsOut)
               /\ IF BuildProfile = "debug" /\ PushOverflows(txq, r)
                  THEN /\ panicked' = TRUE
                       /\ UNCHANGED <<txq, txdev, hpc>>
                  ELSE /\ txq' = PushMany(txq, r)
                       /\ txdev' = DropSlots(txdev, PushedSlots(txq, r))
                       /\ hpc' = "idle"
                       /\ UNCHANGED panicked
  /\ UNCHANGED <<isr, received, notifyVars>>

-----------------------------------------------------------------------------
Next ==
  \/ DeviceRxFetch
  \/ DeviceRxComplete
  \/ DeviceTxFetch
  \/ DeviceTxComplete
  \/ InterruptAckFill
  \/ InterruptPopDeliver

(***************************************************************************)
(* Fairness.  The handler runs whenever the interrupt is pending: the     *)
(* main loop re-enables interrupts after every executor run.  The device  *)
(* completes a descriptor it fetched (QEMU fills and returns an RX buffer *)
(* in the same receive call; TX is processed on the kick).  Packet        *)
(* arrival (DeviceRxFetch) is not fair.                                    *)
(***************************************************************************)
Fairness ==
  /\ WF_vars(InterruptAckFill)
  /\ WF_vars(InterruptPopDeliver)
  /\ WF_vars(DeviceRxComplete)
  /\ WF_vars(DeviceTxFetch)
  /\ WF_vars(DeviceTxComplete)

Spec == Init /\ [][Next]_vars /\ Fairness

-----------------------------------------------------------------------------
(* The device never holds an RX descriptor whose buffer the driver has    *)
(* dropped: fill_rx_queue must not push into a slot whose buffer is still *)
(* with the device or waiting in the used ring to be popped.              *)
RxNoDmaIntoFreed ==
  \A i \in DOMAIN rxdev.held : rxdev.held[i].live

(* Spec section 8: (avail.idx - used.idx) mod 2^16 never exceeds the      *)
(* queue size, for the RX ring that fill_rx_queue sizes with              *)
(* get_avail_free_size, across the 16-bit wrap of the indices.            *)
RxRingBound ==
  IdxDiff(rxq.avail_idx, rxq.used_idx) <= QueueSize

(* The same bound for the TX ring, which xmit pushes without consulting   *)
(* get_avail_free_size and which nobody pops.                              *)
TxRingBound ==
  IdxDiff(txq.avail_idx, txq.used_idx) <= QueueSize

(* The RX ring never starves for good: whenever the device has no buffer  *)
(* to receive into, the interrupt handler eventually gives it one.        *)
RxStarved == ~DeviceCanFetch(rxq, rxdev)

RxRefilled == RxStarved ~> ~RxStarved

=============================================================================
