CONSTANTS
  n1 = n1  n2 = n2  c1 = c1  c2 = c2  f1 = f1  f2 = f2
  NoNro = NoNro  NoFdt = NoFdt
  Worker = worker
  Nros = {n1}
  Contracts = {c1, c2}
  ManualFdts = {}
  Requests = {}
  Gb <- TwoAndOneGb
  Phone <- OwnPhone
  Reach <- ReachAll
  Capacity <- RoomForTwo
  PortsTotal <- OnePort
  Home <- OneEach
  Transactional = TRUE
  Events <- AllEvents
  RestOps = {}
  Edits <- NoEdits
  MaxAttempts = 2
  MaxJobs = 4
  MaxCalls = 0
  MaxFaults = 1
SPECIFICATION Spec
INVARIANTS TypeOK ClientsAreHeld AnnouncedOnce
PROPERTIES StatusSticks
