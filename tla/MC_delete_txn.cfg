CONSTANTS
  n1 = n1  n2 = n2  c1 = c1  c2 = c2  f1 = f1  f2 = f2
  NoNro = NoNro  NoFdt = NoFdt
  Worker = worker
  Nros = {n1}
  Contracts = {c1, c2}
  ManualFdts = {}
  Requests = {r1, r2}
  Gb <- TwoAndOneGb
  Phone <- OwnPhone
  Reach <- ReachAll
  Capacity <- RoomForTwo
  PortsTotal <- OnePort
  Home <- OneEach
  Transactional = TRUE
  Events <- AllEvents
  RestOps = {"delete", "edit"}
  Edits <- SomeEdits
  MaxAttempts = 2
  MaxJobs = 2
  MaxCalls = 2
  MaxFaults = 1
SPECIFICATION Spec
SYMMETRY CallsAlike
INVARIANTS LoadIsHeld PortsAreHeld LedgerInv
PROPERTIES ClaimsFit ImplementsLedger
