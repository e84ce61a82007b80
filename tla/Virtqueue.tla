------------------------------ MODULE Virtqueue ------------------------------
(***************************************************************************)
(* The split virtqueue of src/devices/virtio.rs, driver side and device    *)
(* side, as operators over a queue record and a device record.  Modules    *)
(* that own queues (VirtioNet) use these operators inside their actions.   *)
(*                                                                         *)
(* Data abstraction: a buffer is not named.  Slot d of the per-descriptor  *)
(* table `buffers` is TRUE when it holds an Arc<Buffer> (Some) and FALSE   *)
(* for None.  The device keeps, for every descriptor it has fetched and   *)
(* not yet returned, whether the buffer it                                 *)
(* read from that descriptor is still allocated (`live`): dropping the     *)
(* last Arc of a buffer the device still holds turns `live` to FALSE.      *)
(* Descriptor addresses, lengths and flags are not modelled: push always   *)
(* writes the descriptor of the slot it fills.                             *)
(***************************************************************************)
EXTENDS Integers, Sequences

CONSTANTS
  QueueSize,     \* size read from the device's QueueNumMax register
  IdxMod,        \* 2^16: avail.idx, used.idx and last_used_idx are u16
  BuildProfile   \* "debug" (u16 overflow panics) or "release" (it wraps)

ASSUME /\ QueueSize \in {2, 4, 8, 16}
       /\ IdxMod \in {2^k : k \in 3..16}
       /\ IdxMod >= 2 * QueueSize
       /\ BuildProfile \in {"debug", "release"}

Slots == 0 .. QueueSize - 1
Idx == 0 .. IdxMod - 1

\* idx & (size - 1) for a power-of-two size
RingPos(i) == i % QueueSize

\* u16 wrapping subtraction a - b
IdxDiff(a, b) == (a - b) % IdxMod

Hold == [slot : Slots, live : BOOLEAN]

QueueType ==
  [avail_idx : Idx, avail_ring : [Slots -> Slots], buffers : [Slots -> BOOLEAN],
   free_head : Slots, last_used_idx : Idx,
   used_idx : Idx, used_ring : [Slots -> Slots]]

DeviceType == [last_avail : Idx, held : Seq(Hold)]

(***************************************************************************)
(* Virtqueue::new: rings zeroed, no buffer in any slot.  `start` is the    *)
(* value of every index (0 for a fresh queue).                             *)
(***************************************************************************)
NewQueue(start) ==
  [avail_idx |-> start, avail_ring |-> [i \in Slots |-> 0],
   buffers |-> [i \in Slots |-> FALSE],
   free_head |-> RingPos(start), last_used_idx |-> start,
   used_idx |-> start, used_ring |-> [i \in Slots |-> 0]]

NewDevice(start) == [last_avail |-> start, held |-> <<>>]

(***************************************************************************)
(* Virtqueue::get_avail_free_size.  The subtraction size - (avail - used)  *)
(* is u16; FreeSizeOverflows is the case where it underflows.              *)
(***************************************************************************)
\* Mutant: the outstanding count subtracted the wrong way round.
GetAvailFreeSizeSwapped(q) ==
  IF q.avail_idx >= q.used_idx
  THEN (QueueSize - (q.used_idx - q.avail_idx)) % IdxMod
  ELSE q.used_idx - q.avail_idx

GetAvailFreeSize(q) ==
  IF q.avail_idx >= q.used_idx
  THEN (QueueSize - (q.avail_idx - q.used_idx)) % IdxMod
  ELSE q.used_idx - q.avail_idx

FreeSizeOverflows(q) ==
  q.avail_idx >= q.used_idx /\ q.avail_idx - q.used_idx > QueueSize

(***************************************************************************)
(* k successive calls of Virtqueue::push with fresh buffers, in closed      *)
(* form.  Each push writes avail_ring[avail.idx & (size-1)] = free_head,   *)
(* increments avail.idx, stores the new buffer in buffers[free_head]       *)
(* (dropping the one that was there) and advances free_head.  Push never  *)
(* checks for space and always returns Ok.  A slot written several times  *)
(* keeps the value of its last write.                                      *)
(***************************************************************************)
PushedSlots(q, k) ==
  IF k >= QueueSize THEN Slots ELSE {RingPos(q.free_head + j) : j \in 0 .. k - 1}

PushMany(q, k) ==
  LET \* ring positions written: the same ring arithmetic as the slots
      ringPos == IF k >= QueueSize THEN Slots
                 ELSE {RingPos(q.avail_idx + j) : j \in 0 .. k - 1}
      \* the last push j < k that wrote ring position p
      lastJ(p) == k - 1 - ((q.avail_idx + k - 1 - p) % QueueSize)
  IN [q EXCEPT
        !.avail_ring = [p \in Slots |-> IF p \in ringPos
                                         THEN RingPos(q.free_head + lastJ(p))
                                         ELSE @[p]],
        !.avail_idx = (@ + k) % IdxMod,
        !.buffers = [d \in Slots |-> IF d \in PushedSlots(q, k) THEN TRUE ELSE @[d]],
        !.free_head = RingPos(@ + k)]

\* `self.avail.idx + 1` overflows a u16 during the k pushes
PushOverflows(q, k) == q.avail_idx + k >= IdxMod

(***************************************************************************)
(* Virtqueue::pop: drain used ring entries from last_used_idx up to        *)
(* used.idx.  For each entry, if buffers[id] is Some the buffer is         *)
(* returned (as its slot), and the slot is cleared.                       *)
(***************************************************************************)
RECURSIVE PopLoop(_, _)
PopLoop(q, out) ==
  IF q.last_used_idx = q.used_idx
  THEN [queue |-> q, out |-> out]
  ELSE LET d == q.used_ring[RingPos(q.last_used_idx)]
       IN PopLoop([q EXCEPT !.buffers[d] = FALSE,
                            !.last_used_idx = (@ + 1) % IdxMod],
                  IF q.buffers[d]
                  THEN Append(out, d)
                  ELSE out)

Pop(q) == PopLoop(q, <<>>)

\* `self.last_used_idx + 1` overflows a u16 while draining
PopOverflows(q) == q.used_idx < q.last_used_idx

(***************************************************************************)
(* Dropping the buffers of slots S: every device hold that read one of    *)
(* them now refers to freed memory.                                        *)
(***************************************************************************)
DropSlots(dev, S) ==
  [dev EXCEPT !.held = [i \in DOMAIN @ |->
                          IF @[i].slot \in S THEN [@[i] EXCEPT !.live = FALSE]
                                             ELSE @[i]]]

(***************************************************************************)
(* Device side (the virtio device on the host, running concurrently with  *)
(* the guest).  It refuses a ring whose avail.idx moved more than         *)
(* QueueSize past what it has consumed (QEMU marks the device broken).     *)
(***************************************************************************)
DeviceCanFetch(q, dev) ==
  IdxDiff(q.avail_idx, dev.last_avail) \in 1 .. QueueSize

\* the device reads the next available descriptor and the buffer it names
DeviceFetch(q, dev) ==
  LET d == q.avail_ring[RingPos(dev.last_avail)]
  IN [last_avail |-> (dev.last_avail + 1) % IdxMod,
      held |-> Append(dev.held, [slot |-> d, live |-> q.buffers[d]])]

\* the device returns its oldest held descriptor through the used ring
DeviceCompleteQueue(q, dev) ==
  LET h == Head(dev.held)
  IN [q EXCEPT !.used_ring[RingPos(q.used_idx)] = h.slot,
               !.used_idx = (@ + 1) % IdxMod]

DeviceCompleteDevice(dev) == [dev EXCEPT !.held = Tail(@)]

=============================================================================
