CONSTANTS
  r1 = r1
  r2 = r2
  Roles <- MCRoles
  Explicit <- MCExplicit
  NTests = 2
  NAll = 2
  Subdir = FALSE
SPECIFICATION Spec
INVARIANT TypeOK
INVARIANT NoSimultaneousRuns
INVARIANT MountPointKept
INVARIANT StackCleanOnReturn
INVARIANT NestedFailureUnmounts
INVARIANT SourceLeftOnlyByCloneOrMake
PROPERTY UnmountAfterWorkunits
