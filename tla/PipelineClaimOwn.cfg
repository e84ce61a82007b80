CONSTANTS
  AddrBits = 4
  BuildProfile = "release"
  NoEntry = NoEntry
  n0 = n0  n1 = n1  M0 = M0  M1 = M1  SNM0 = SNM0  SNM1 = SNM1  ALLN = ALLN
  P1 = P1  P2 = P2  BCAST = BCAST  KEY0 = KEY0
  KEY = KEY0
  MmioWindows <- MCMmioWindows
  IoapicPins = 24
  Cmdlines <- MCCmdlineQemu
  Netifs <- MCNetifs
  NetifOrder <- MCNetifOrder
  Conf <- MCConf
  Bcast = BCAST
  Macs <- MCMacs
  SubnetBits = 2
  Ipv6EchoSource = 2
  Frames <- MCFramesClaim
  MaxBatch = 2
  MaxBatches = 2
SPECIFICATION Spec
\* the peer stops after MaxBatches batches; a panic halts the kernel
CHECK_DEADLOCK FALSE
INVARIANT LocalRouteStaysLocal
