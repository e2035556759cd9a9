CONSTANTS
  c1 = c1
  c2 = c2
  c3 = c3
  h1 = h1
  h2 = h2
  Order <- MCOrder
  Hosts <- MCHosts
  HostOf <- MCHostOf
  NTests = 2
SPECIFICATION Spec
INVARIANT TypeOK
INVARIANT ArchiveKeepsOnlyFailures
