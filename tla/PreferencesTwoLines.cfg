SPECIFICATION Spec
CONSTANTS
  Bios = {"Plain", "Lines"}
  Unreadable = FALSE
  MaxChanges = 4
  MaxLaunches = 3
  MaxFaults = 2
CHECK_DEADLOCK FALSE
PROPERTY IdentityKept
