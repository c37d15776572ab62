SPECIFICATION KeptSpec
CONSTANTS
  u1 = u1
  u2 = u2
  r1 = r1
  m1 = m1
  m2 = m2
  v1 = v1
  Files = {u1, u2}
  Readers = {r1}
  Ttl = 1
  Names = {"plain", "meta", "dotdot"}
  Modes = {"memory", "disk", "box"}
  Nobody = Nobody
  Mints = {m1, m2}
  Viewers = {v1}
  VncTtl = 1
  MaxNow = 2
  MaxEpoch = 1
  l1 = l1
  l2 = l2
  s1 = s1
  Logins = {l1, l2}
  Nothing = Nothing
  Sockets = {s1}
  Providers = {"oidc", "wecom"}
  Gates = {"dev", "static", "oidc"}
  Enrolled = {l1}
  Life = 0
  MaxTime = 1
  MaxKey = 1
INVARIANTS
  UnexpiredHasFile
  MissHasCause
  LeftoverHasCause
  RefusalHasCause
  StoredIsOwn
  FileIsNewest
  SignInIsAdmitted
CHECK_DEADLOCK FALSE
