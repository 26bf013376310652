CONSTANTS
  n1 = n1  n2 = n2  c1 = c1  c2 = c2  f1 = f1  f2 = f2
  NoNro = NoNro  NoFdt = NoFdt
  Worker = worker
  Nros = {n1}
  Contracts = {c1}
  ManualFdts = {}
  Requests = {}
  Gb <- OneGb
  Phone <- OwnPhone
  Reach <- ReachAll
  Capacity <- RoomForTwo
  PortsTotal <- TwoPorts
  Home <- OneEach
  Transactional = FALSE
  Events <- News
  RestOps = {}
  Edits <- NoEdits
  MaxAttempts = 3
  MaxJobs = 1
  MaxCalls = 0
  MaxFaults = 1
SPECIFICATION Spec
INVARIANT RetriesCountOnce
