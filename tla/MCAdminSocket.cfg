CONSTANTS
  c1 = c1
  c2 = c2
  Clients <- MCClients
  Commands <- MCCommands
  MaxTries <- MCMaxTries

SPECIFICATION Spec

INVARIANT TypeOK
INVARIANT TmpDirGoneAfterScope
PROPERTY Termination
