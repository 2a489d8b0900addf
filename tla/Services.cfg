SPECIFICATION MCSpec
CHECK_DEADLOCK FALSE
CONSTANTS
  r1 = r1
  r2 = r2
  c1 = c1
  c2 = c2
  d1 = d1
  t1 = t1
  t2 = t2
  k1 = k1
  k2 = k2
  Learners = {ann}
  Ticks = {t1, t2}
  HostOf <- Hosts
  Connections = {c1, c2, d1}
  PoolOf <- Pools
  Submits = {s1}
  ByLearner <- Asked
  MaxPushes = 2
  MaxDepth = 2
  Lookups = {r1, r2}
  Sessions = {k1, k2}
  Features = {a, b}
  Answers = {{a}, {b}}
  Days = {"mon", "sat"}
  Workdays = {"mon"}
  Weekend = {"sat"}
  DayMinutes = 3
  Localities <- LocalityChoices
  Councils <- CouncilChoices
  Keys = {ka, kb, kc}
  Values = {va, vb}
  MaxEntries = 2
  Ttl = 3
  MaxSessions = 2
  Finishes = {r1, r2}
  Durations = {1, 2}
  Reviews = {ra}
  Handlers = {r1, r2}
  MaxRecent = 1
  Owners = {oa, ob}
  Pupils = {pa}
  Codes = {1234, 5678}
  Errands = {r1, r2}
  Labels = {"x"}
  Rules <- RuleChoices
  Replacers = {r1, r2}
  Centres = {k1, k2}
  Horizon = 1
  Calls = {r1, r2}
SYMMETRY Symmetry
INVARIANTS ServicesTypeOK RemindedOnce CacheIsWhole StaleIsAnswered ToldIsTrue KeepsRecent PracticeIsCounted ModerationStands LinksAreKept AtlasIsOneSource AccessIsPaidFor
