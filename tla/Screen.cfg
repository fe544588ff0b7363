SPECIFICATION FairSpec
CONSTANTS
  Id = {1, 2, 3, 4, 5, 6, 7, 8, 9}
  Hotspot = {"ap"}
  Stage = {"dns", "dhcp"}
  Publishes <- MCPublishes
  DarkLevel = 32
  BootLevel = 159
  MaxMoves = 4
  None = None
INVARIANTS CachesUnseen NoChurn
PROPERTIES DrawnAnew Settles
