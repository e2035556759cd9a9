CONSTANTS
  NPgs <- MCNPgs
  PollTimeout <- MCPollTimeout
SPECIFICATION Spec
INVARIANT ChecksAfterReviveWithOsdsUp
PROPERTY Termination
