SPECIFICATION FairSpec
CONSTANTS
  n1 = n1  n2 = n2
  p1 = p1  p2 = p2  p3 = p3
  r1 = r1  r2 = r2  r3 = r3
  None = None  Unbound = Unbound  Gone = Gone
  Nodes = {n1}
  Requests = {r1, r2}
  Pods = {p1, p2}
  Resources = {"cpu"}
  Archs = {"arm64", "amd64"}
  Labels = {"ssd"}
  Taints = {"spot"}
  HardTaints = {}
  Alloc <- SmallAlloc
  PodsAlloc <- TwoPodsEach
  Intent <- Mixed
  PodOf <- OwnPod
  Missing = {}
  CandidateSets <- SomeNodes
  Decided = {n1}
  Views <- ViewsArmDown
  InitView <- ArmEverywhere
  MaxChanges = 2
  Faults = {"api"}
INVARIANTS NothingStranded
PROPERTIES EveryRequestReturns 
