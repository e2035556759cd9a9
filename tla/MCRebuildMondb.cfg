CONSTANTS
  m1 = m1
  m2 = m2
  m3 = m3
  o1 = o1
  o2 = o2
  Gone = Gone
  Mons <- MCMons
  Osds <- MCOsds
SPECIFICATION Spec
INVARIANT TypeOK
INVARIANT RebuiltStoreHasAllOsds
INVARIANT MonRevivedWithData
