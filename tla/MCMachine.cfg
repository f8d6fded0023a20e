SPECIFICATION AllSpec
CONSTANTS
  Bios = {"Plain", "Wide"}
  Unreadable = FALSE
  MaxChanges = 4
  MaxLaunches = 3
  MaxFaults = 2
  Latest = 3
  Slots = {1, 2}
  Floor = 2
  BadToStepDown = 2
  CleanToStepUp = 2
  MaxOutages = 3
INVARIANTS FileIsWhole InstallationKept
PROPERTIES IdentityKept ChangesAreKept SlowestIsHeard  SilenceIsNoticed
CHECK_DEADLOCK FALSE
