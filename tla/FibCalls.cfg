CONSTANTS
  AddrBits = 4
  BuildProfile = "release"
  NoEntry = NoEntry
  e1 = e1  e2 = e2  k1 = k1  k2 = k2  m1 = m1  m2 = m2
  Entries <- MCEntries
  Keys <- MCKeys
  AdjInfos <- MCAdjInfos
  Ipv4Masks <- MCMasksNonZero
  Ipv6Prefixes <- MCIpv6HostPrefix
  MaxCalls = 2
SPECIFICATION Spec
\* the callers stop after MaxCalls calls; the tables then stay as they are
CHECK_DEADLOCK FALSE
INVARIANT Ipv4LongestMatch
