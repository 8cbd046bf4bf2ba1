SPECIFICATION StartupSpec
CONSTANTS
  Conns = {1, 2}
  Clients = {1}
  Services <- MCServices
  Providers <- MCProviders
  FlowSets <- MCFlowSets
  WorkerSets <- MCWorkerSets
  OptionSets <- MCOptionSets
INVARIANTS AssemblySound HandlesHeld NoSickClient
PROPERTIES ShutdownCompletes
CHECK_DEADLOCK FALSE
