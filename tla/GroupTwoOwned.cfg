SPECIFICATION MCSpec
SYMMETRY MCSymmetry
CONSTANTS
  Users = {u1, u2}
  Groups = {g1, g2}
  Home = g1
  MemberIds = {m1, m2, m3}
  CodeValues = {c1, c2}
  Spare = c2
  Events = {e1}
  Slots = {s1}
  None = None
  MaxMembers = 2
  Lifetime = 0
  MaxTime = 0
INVARIANTS OneOwnershipStrictly
CHECK_DEADLOCK FALSE
