\* Static routes, nobody else writing: a lost answer to an update.
SPECIFICATION Spec
CONSTANTS
  Kinds = {"route"}
  Resources = {r1, r2}
  Keys = {k}
  Rests = {a}
  Other = other
  None = none
  MaxIds = 3
  MaxLate = 0
  Disturbances = {}
SYMMETRY Symmetry
INVARIANTS
  FollowsNewId
