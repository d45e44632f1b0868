\* Two resources over two priorities, with every disturbance.
SPECIFICATION Spec
CONSTANTS
  Resources = {r1, r2}
  Priorities = {p1, p2}
  Other = other
  None = none
  Disturbances = {"external", "late", "lostDelete"}
SYMMETRY Symmetry
INVARIANTS
  TypeOK
  LockHeldByCreate
  CheckedSlotStaysFree
PROPERTIES
  ClaimedRuleSafe
  RulesKeepOwners
