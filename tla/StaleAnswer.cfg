SPECIFICATION Spec
CONSTANTS
  None = None a1 = a1 a2 = a2 f1 = f1 s1 = s1 k1 = k1 h1 = h1
  Agents = {a1, a2} Futures = {f1} Services = {s1} Probes = {k1, h1}
  Parent <- MCParent Policies <- MCPolicies Mixes <- MCRace
  MaxMemory = 4 MaxConcurrent = 2 Floor = 1 MaxPressure = 1 Total = 6
  MaxCrashes = 0 MaxOutages = 0 MaxCancels = 0 MaxEvents = 0
CHECK_DEADLOCK FALSE
PROPERTY AnswerIsNotOvertaken
