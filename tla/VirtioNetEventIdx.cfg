\* Does the RX ring keep being refilled when the device uses EVENT_IDX?
CONSTANTS
  QueueSize <- MCQueueSize
  IdxMod <- MCIdxMod
  BuildProfile = "release"
  RefillThreshold <- MCRefillThreshold
  MaxTxPerIrq <- MCMaxTxPerIrq
  MaxPackets <- MCMaxPackets
  StartIdx = 0
  DeviceFeatures <- MCDeviceFeaturesQemu
  UsedEventInit <- MCUsedEventInit
SPECIFICATION Spec
\* the device receives at most MaxPackets packets; then the system is quiet
CHECK_DEADLOCK FALSE
PROPERTY RxRefilled
