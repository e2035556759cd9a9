\* The config sets 'subdir' and has no 'all' list.
CONSTANTS
  r1 = r1
  r2 = r2
  Roles <- MCRoles
  Explicit <- MCExplicit
  NTests = 1
  NAll = 0
  Subdir = TRUE
SPECIFICATION Spec
INVARIANT CleanAfterReturn
