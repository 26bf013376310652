CONSTANTS
  z1 = z1  z2 = z2  boss = boss  ann = ann  bob = bob
  e0 = e0  e1 = e1  e2 = e2  w0 = w0  w1 = w1  w2 = w2
  r1 = r1  r2 = r2  k1 = k1  p1 = p1
  None = None  Nobody = None  NoName = None
  Accounts = {boss, ann, bob}
  Zones = {z1, z2}
  Regions = {z1, z2}
  Names = {boss, ann, bob}
  Emails = {e0, e1, e2}
  Passwords = {w0, w1, w2}
  Admin = boss
  Staff <- OneManager
  Desks = {d1, d2}
  AccountAsks <- AllAccountAsks
  Reports = {r1, r2}
  Clients = {k1}
  Places = {p1}
  Home0 <- HomeInOne
  Drawn0 <- DrawnNowhere
  Senders = {s1}
  Counters = {c1}
  Deliveries <- AllDeliveries
  CounterAsks <- AllCounterAsks
  MaxTries = 2
  MaxAttempts = 2
  MaxFaults = 2
  MaxSent = 2
SPECIFICATION FairSpec
INVARIANTS TypeOK TokensAreOwn ComplaintsAreTold RoutedAsSent
PROPERTIES FieldsAreKept EventsAreHandled
CHECK_DEADLOCK FALSE
