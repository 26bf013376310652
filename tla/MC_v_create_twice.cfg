CONSTANTS
  n1 = n1  n2 = n2  c1 = c1  c2 = c2  f1 = f1  f2 = f2
  NoNro = NoNro  NoFdt = NoFdt
  Worker = worker
  Nros = {n1}
  Contracts = {c1}
  ManualFdts = {f1}
  Requests = {r1}
  Gb <- OneGb
  Phone <- OwnPhone
  Reach <- ReachAll
  Capacity <- RoomForTwo
  PortsTotal <- TwoPorts
  Home <- OneEach
  Transactional = TRUE
  Events <- NoEvents
  RestOps = {"create"}
  Edits <- NoEdits
  MaxAttempts = 1
  MaxJobs = 0
  MaxCalls = 2
  MaxFaults = 0
SPECIFICATION Spec
INVARIANTS HeldAtRest
