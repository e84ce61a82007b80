CONSTANTS
  QueueSize <- MCQueueSize
  IdxMod <- MCIdxMod
  BuildProfile = "release"
  RefillThreshold <- MCRefillThreshold
  MaxTxPerIrq <- MCMaxTxPerIrq
  MaxPackets <- MCMaxPackets
  StartIdx <- MCWrapStart
  DeviceFeatures <- MCDeviceFeatures
  UsedEventInit <- MCUsedEventInit
SPECIFICATION Spec
\* the device receives at most MaxPackets packets; then the system is quiet
CHECK_DEADLOCK FALSE
INVARIANT RxRingBound
