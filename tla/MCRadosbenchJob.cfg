CONSTANTS
  h1 = h1
  h2 = h2
  c1 = c1
  c2 = c2
  Remotes <- MCRemotes
  Clients <- MCClients
  WClients <- MCClients
SPECIFICATION Spec
INVARIANT TypeOK
INVARIANT NoThrasherInRadosbenchCleanup
INVARIANT PackagesBeforeTasks
INVARIANT BenchesLeftOnlyBySetupOrTimeout
PROPERTY PoolRemovedAfterBenches
PROPERTY JobTermination
