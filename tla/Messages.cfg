SPECIFICATION MCSpec
SYMMETRY MCSymmetry
CONSTANTS
  Members = {u1, u2}
  Connections = {c1, c2, c3}
  Messages = {k1, k2}
  NoConnection = NoConnection
  Users = {u1, u2}
  Tokens = {k1, k2}
  RowIds = {c1, c2, c3}
  Broadcasts = {b1}
  Happenings = {h1}
  Nobody = Nobody
  Concurrent = 2
  PageIds = {1, 2, 3, 4}
  PageTimes = {1, 2}
  PageSize = 2
INVARIANTS LiveIffRegistered NoEntryOutlivesItsSocket ListenersAreRegistered NothingMissed OneTokenPerUser RegistrationLasts PushedHaveTheNotice OneAudience WalkIsExact
PROPERTIES ReadTimeStays
CHECK_DEADLOCK FALSE
