SPECIFICATION Spec
CONSTANTS
  n1 = n1  n2 = n2
  s1 = s1  s2 = s2
  p1 = p1  p2 = p2  p3 = p3
  None = None
  Nodes = {n1, n2}
  Services = {s1, s2}
  Pods = {p1, p2, p3}
  Rank <- ByName
  ServiceOf <- MyService
  Containers <- MyContainers
  InitContainers <- MyInits
  DefaultAsk <- SmallAsk
  TopK = 3
  Statuses <- TwoStatuses
  InitStatus <- AllWell
  InitWhere <- OneEach
  Prefs <- OnePref
  MetricSets <- SomeMetrics
  Faults = {"redis", "api", "crash", "pods", "nodes"}
INVARIANTS TypeOK 
PROPERTIES DecidedNodeFits 
