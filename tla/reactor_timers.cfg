\* Three downloads, pages of one and two reads, callbacks that block any time.
CONSTANTS
  k1 = k1  k2 = k2  k3 = k3
  Conn = {k1, k2, k3}
  Timeout = 2
  Delay = 1
  MaxReads = 2
SPECIFICATION FairSpec
INVARIANTS TypeOK OnlyBlockingLosesPages
PROPERTIES TimedCallsAreKept DownloadsEnd
