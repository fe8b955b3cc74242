SPECIFICATION FairSpec
CONSTANTS
  None = None
  Hashed = Hashed
  Customer = Customer
  t0 = t0
  a1 = a1
  a2 = a2
  p1 = p1
  p2 = p2
  n1 = n1
  n2 = n2
  d1 = d1
  d2 = d2
  c1 = c1
  c2 = c2
  Requests = {r1, r2}
  InitIds = {i1}
  InitTokens = {t0}
  InitAddresses = {a1}
  Passwords = {p1, p2}
  Names = {n1, n2}
  Domains = {d1, d2}
  TakenDomains = {d2}
  Cities = {c1, c2}
  Local = n1
  Threshold = 2
  LockTime = 1
  MaxCount = 3
  MaxAttempts = 2
  Window = 1
  ResetLife = 1
  SessionLife = 1
  MaxTime = 2
  Workloads <- MCWorkloads
INVARIANTS LockMatchesCount LimitRespected TenantlessForReason AccountInv
PROPERTIES UncontestedCommands TenantComes
