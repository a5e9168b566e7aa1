SPECIFICATION AllSpec
CONSTANTS
  OSFP = OSFP
  ICMP = ICMP
  x = x
  Probes <- MCProbes
  Channels = {OSFP, ICMP}
  Addrs = {x}
  NoAddr = NoAddr
  HasKube = TRUE
  HistoryLen = 2
  ChannelIdle = 5
  ActiveWindow = 4
  ProberTTL = 6
  IndexRefresh = 5
  CallTimeout = 2
  MaxTime = 9
  MaxMsgs = 3
  RingLen = 3
  MaxSamples = 9
INVARIANTS
  EveryDenialPlotted
  NamesFollowIndex
  NoGhostLine
  SnapshotIsStable
PROPERTIES
  CloseReturns
CHECK_DEADLOCK FALSE
