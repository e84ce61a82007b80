----------------------------- MODULE MCVirtioNet -----------------------------
(***************************************************************************)
(* Model-checking instance of VirtioNet.  The driver's ring of 256        *)
(* descriptors and its refill threshold of 32 are scaled to 4 and 1: the  *)
(* refill still fires only when the free count exceeds threshold + 1 and  *)
(* still leaves one slot unposted, and every index is a true u16.         *)
(***************************************************************************)
EXTENDS VirtioNet

\* ring size: the code reads 256 from QueueNumMax
MCQueueSize == 4
\* u16 indices, unscaled
MCIdxMod == 65536
\* fill_rx_queue's `size > 32`, scaled with the ring
MCRefillThreshold == 1
\* replies the graph may send for one received batch
MCMaxTxPerIrq == 1
\* packets the device receives in one behaviour
MCMaxPackets == 6
\* a refilled ring whose avail.idx is one push away from the u16 wrap
MCWrapStart == 65532

\* a device offering MAC and STATUS only (no EVENT_IDX, no INDIRECT_DESC)
MCDeviceFeatures == 65568
\* QEMU's virtio-net device: also INDIRECT_DESC and EVENT_IDX (its default)
MCDeviceFeaturesQemu == 65568 + 805306368
\* RAM the heap hands out fresh is zero
MCUsedEventInit == {0}

=============================================================================
