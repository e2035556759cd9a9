CONSTANTS
  CreateTimeout <- MCCreateTimeout
SPECIFICATION Spec
INVARIANT TypeOK
PROPERTY CreationWaitContract
PROPERTY Termination
