SPECIFICATION MCSpec
SYMMETRY MCSymmetry
CONSTANTS
  Users = {u1, u2}
  Settled = u1
  Devices = {d1}
  Characters = {c1, c2}
  Types = {t1, t2}
  Required <- MCRequired
  MaxChats = 1
  RefreshTokens = {r1, r2}
  Slots = {s1, s2}
  AccessLife = 2
  RefreshLife = 2
  MaxTime = 4
  Overlap = 2
  Concurrent = 2
  None = None
INVARIANTS RevokedIsRejected SessionHasItsRefreshKey SessionTokenIsUsable AccountsTypeOK NothingWithoutAnAccount RegistrationSettles UnlockedOnceAndEarned
CHECK_DEADLOCK FALSE
