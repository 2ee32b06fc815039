SPECIFICATION Spec
CONSTANTS
  Nobody = Nobody
  Threads = {0, 1, 2, 3}
  IntMax = 3
  MaxAcquisitions = 2
  Configs <- AllConfigs
  g_scale = 1
  Minimum = 2
  WordBits = 5
  SIZE = 1
  CAP = 2
CHECK_DEADLOCK FALSE
INVARIANTS MutualExclusion TimedWindow OwnCore ReportHonest
PROPERTIES RunFinishes
