CONSTANTS
  z1 = z1  z2 = z2  k1 = k1  n1 = n1  n2 = n2  f1 = f1
  c1 = c1  c2 = c2  c3 = c3  x1 = x1  p1 = p1  t1 = t1  t2 = t2
  None = None
  Zones = {z1, z2}
  Centrales = {k1}
  Nros = {n1, n2}
  Fdts = {f1}
  Contracts = {c1, c2, c3}
  Fibers = {x1}
  Places = {p1}
  Phones = {t1, t2}
  Place <- AllInPlaceOne
  Stored <- TreeInZoneOne
  Importers <- TwoImporters
  Transactional = TRUE
  Payloads <- AllPayloads
  Users <- Admin
  MaxBegun = 2
  MaxFaults = 1
  Clerks = {p, q}
  Requests <- AllRequests
SPECIFICATION FairSpec
INVARIANTS TypeOK AllOrNothing
PROPERTIES ImportRecounts ImportIsIdempotent ImportsEnd Repaired
CHECK_DEADLOCK FALSE
