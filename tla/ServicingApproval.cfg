SPECIFICATION Spec
CONSTANTS
  Requests = {r1}
  Calls = {c1, c2}
  Admins = {a1, a2, a3}
  Eligible = {a1, a2}
  Servicers = {s0, s1}
  Servicer0 = s0
  Expiry = 1
  MaxNow = 2
  None = None
INVARIANTS
  TransfersAreApproved
PROPERTIES
  DecisionIsFinal
  ServicingSettles
CHECK_DEADLOCK FALSE
