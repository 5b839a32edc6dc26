SPECIFICATION FairSpec
CONSTANTS
  Requests = {r1, r2}
  Categories = {c1, c2}
  Items = {i1}
  Names = {"first"}
  Writers <- WriterKinds
  MaxChanges = 4
INVARIANTS TypeOK SalesKeepTheirItems CachedIsCurrent
PROPERTIES EventuallyCurrent
