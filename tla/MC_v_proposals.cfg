CONSTANTS
  spike = spike  s1 = s1  n1 = n1  f1 = f1  f2 = f2  z1 = z1  z2 = z2  fr = fr
  admin = admin  cron = cron  chief = chief
  None = None
  Services = {s1}
  Nros = {n1}
  Fdts = {f1, f2}
  Zones = {z1, z2}
  Watch <- Row
  ZoneOf <- InOneZone
  ParentOf <- UnderOne
  Total <- Sizes
  Levels <- LevelsSome
  Level0 <- LevelsCrowded
  Layout <- Clusters
  Langs = {fr}
  Tasks = {t1, t2}
  Suggestions <- Words
  Unusual <- Strange
  Askers = {admin, cron, chief}
  Requests <- Wishes
  MaxSpent = 2
SPECIFICATION Spec
CHECK_DEADLOCK FALSE
PROPERTIES ProposalsArePending
