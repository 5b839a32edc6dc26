SPECIFICATION Spec
CONSTANTS
  Requests = {r1, r2}
  Users = {u1}
  Identifiers <- EachAlone
  Threshold = 2
  Kinds <- AllKinds
  MaxVersion = 2
  MaxLinks = 2
SYMMETRY Symmetric
INVARIANTS TypeOK NoSessionUnconfirmed CodeIsForced LinkUsedOnce FailuresLock
PROPERTIES ForcedUntilChosen DeadStaysDead
CONSTRAINT Shallow
