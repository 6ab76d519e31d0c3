SPECIFICATION MCSpec
CONSTANTS
  a = a
  b = b
  st = st
  xa = xa
  xs = xs
  n = n
  xn = xn
  t1 = t1
  t2 = t2
  t3 = t3
  Subjects = {a, b, st, n}
  Sessions = {xa, xs, xn}
  Tokens = {t1, t2, t3}
  Requests = {r1, r2}
  IdOrder <- MCIdOrder
  SeedAdmins = {a, b}
  SeedStaff = {st}
  SeedSessions <- MCSeedSessions
  SeedTokens <- MCSeedTokens
  Manifests <- MCManifests
  Ceilings <- MCCeilings
  QuoteQuota = 1
  Horizon = 2
  MaxEvents = 3
  Files = {28, 46, 69, 81}
  Newest <- MCNewest
  ManifestOf <- MCManifestOf
  Migrators = {m1}
  Probes = {p1}
  Confirms = {c1}
  Tolerance = 1
  MaxTime = 2
  MaxSteps = 1
  MaxRuns = 2
  MaxDamage = 1
SYMMETRY Interchangeable
CHECK_DEADLOCK FALSE
INVARIANTS LocksSuffice CredentialsStayBounded CommandsSeeOneProtocol UpgradeIsSound
