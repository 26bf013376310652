CONSTANTS
  n1 = n1  n2 = n2  c1 = c1  c2 = c2  f1 = f1  f2 = f2
  NoNro = NoNro  NoFdt = NoFdt
  Worker = worker
  Nros = {n1, n2}
  Contracts = {c1, c2}
  ManualFdts = {}
  Requests = {}
  Gb <- OneGb
  Phone <- SharedPhone
  Reach <- ReachAll
  Capacity <- RoomForTwo
  PortsTotal <- OnePort
  Home <- OneEach
  Transactional = FALSE
  Events <- ContractEvents
  RestOps = {}
  Edits <- NoEdits
  MaxAttempts = 2
  MaxJobs = 2
  MaxCalls = 0
  MaxFaults = 2
SPECIFICATION FairSpec
PROPERTIES JobSettles
