SPECIFICATION MeshSpec
CONSTANTS
  Profiles = {1, 2, 3}
  Creator = 2
  Near = {}
  Restless = {3}
  PeerSlots = {1, 2, 3}
  RosterPlaces = 6
  MaxReturns = 1
  Losable = {"Hello", "HelloAck"}
  MaxLost = 1
INVARIANT OnePlaceEach
 
CHECK_DEADLOCK FALSE
