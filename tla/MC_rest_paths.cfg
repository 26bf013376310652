CONSTANTS
  n1 = n1  n2 = n2  c1 = c1  c2 = c2  f1 = f1  f2 = f2
  NoNro = NoNro  NoFdt = NoFdt
  Worker = worker
  Nros = {n1, n2}
  Contracts = {c1, c2}
  ManualFdts = {f1, f2}
  Requests = {r1}
  Gb <- TwoAndOneGb
  Phone <- OwnPhone
  Reach <- ReachAll
  Capacity <- RoomForTwo
  PortsTotal <- OnePort
  Home <- OneEach
  Transactional = FALSE
  Events <- NroEvents
  RestOps = {"create", "delete", "edit"}
  Edits <- SomeEdits
  MaxAttempts = 1
  MaxJobs = 2
  MaxCalls = 4
  MaxFaults = 0
SPECIFICATION Spec
INVARIANTS CoveredAtRest
