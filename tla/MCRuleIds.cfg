\* Equal rules asked for at once, and reservations for clients that change
\* places, imports, somebody else writing, a late request.
SPECIFICATION Spec
CONSTANTS
  Kinds = {"triggering", "forwarding", "route", "reserved"}
  Resources = {r1, r2}
  Keys = {k, l}
  Rests = {a, b}
  Other = other
  None = none
  MaxIds = 3
  MaxLate = 1
  Disturbances = {"add", "remove"}
SYMMETRY Symmetry
CONSTRAINTS
  AllTheSame
  OneAddress
  DisturbedInTurn
INVARIANTS
  TypeOK
  LockHeldByCreate
  IdIsOwn
  FoundAtOnce
  IdsNotShared
PROPERTIES
  NumbersKeepOwners
