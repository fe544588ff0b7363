SPECIFICATION FairSpec
CONSTANTS
  Name = {"wlan0", "eth0"}
  Addrs = {"a", "b"}
  Sock = {1, 2, 3, 4}
  MaxMoves = 2
  None = None
INVARIANTS NoLeak HotspotQuiet AnnouncedTwice Retracted
PROPERTIES ShutdownEnds Converges
CHECK_DEADLOCK FALSE
