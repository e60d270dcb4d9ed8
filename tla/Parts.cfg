SPECIFICATION PartsSpec
CONSTANTS
  top = top middle = middle leaf = leaf Tops = {top} Subs = {middle, leaf} Above <- MCAbove Home <- MCHome
  QueueMax = 2 MaxNodes = 4 MaxWrites = 1 MaxGen = 3 MaxFailures = 1 MaxHalfDrains = 1
  Roots = {r1, r2} NoRoot = NoRoot MaxGens = 3 MaxEdits = 2 MaxFaults = 1 MaxKills = 1
  Retained = {w1, w2} Strays = {"event", "payload", "log", "other"}
  Blemishes = {"foreign owner", "unreadable", "work directory"} MaxDeaths = 2
  Handles = {h1, h2} MaxTreeWrites = 2
  Worlds = {1, 2, 3, 4} Forked = {2, 3} MaxRemovalFaults = 1 MaxPruneKills = 1
  Writers = {t1, t2} MaxEventRows = 3 MaxReceipts = 3 MaxLedgerFaults = 1 MaxDaemonKills = 2
  MaxChecks = 2 MaxVerifierEdits = 2 MaxUnitFaults = 1
CHECK_DEADLOCK FALSE
INVARIANTS
  CoverageIsHonest NoContentLost DoctorIsComplete PrimaryIsKept NothingLost ServedStoreIsWhole OldStoreUntouched
  CompleteRunIsWhole NoOutputLost LivingPayloadsKept PrunedIsRecorded ChainsVerify AnchorsAreHonest
  PromotedWasExamined
PROPERTIES CapturesAreStable RemovalKeepsWorlds CanBeRepeated
