SPECIFICATION Spec
CONSTANTS
  Hosts = {h}
  Guests = {g1}
  Codes = {k}
  NoCode = NoCode
  MaxWaiting = 2
  InviteForm = "JL1"
  MaxRegs = 2
  MaxReqs = 2
  MaxLost = 1
  MaxOrders = 1
INVARIANT ToldTheTruth
 
PROPERTY ImplementsAdmission
PROPERTY AdmittedGetsIn
CHECK_DEADLOCK FALSE
