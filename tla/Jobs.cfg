SPECIFICATION FairSpec
CONSTANTS
  None = None a1 = a1 a2 = a2 f1 = f1 s1 = s1 k1 = k1 h1 = h1
  Agents = {a1, a2} Futures = {f1} Services = {s1} Probes = {k1, h1}
  Parent <- MCParent Policies <- MCPolicies Mixes <- MCMixes
  MaxMemory = 4 MaxConcurrent = 2 Floor = 1 MaxPressure = 1 Total = 6
  MaxCrashes = 1 MaxOutages = 1 MaxCancels = 1 MaxEvents = 2
CHECK_DEADLOCK FALSE
INVARIANTS TypeOK PromisesFit ForkedWorldsAreSupervised StoppedNeverValid
PROPERTIES RunningKeepsItsEntry JobsSettle
