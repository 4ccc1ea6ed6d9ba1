SPECIFICATION Spec
CONSTANTS
  n1 = n1  n2 = n2
  p1 = p1  p2 = p2  p3 = p3
  r1 = r1  r2 = r2  r3 = r3
  None = None  Unbound = Unbound  Gone = Gone
  Nodes = {n1, n2}
  Requests = {r1}
  Pods = {p1}
  Resources = {"cpu"}
  Archs = {"arm64", "amd64"}
  Labels = {"ssd"}
  Taints = {"spot"}
  HardTaints = {}
  Alloc <- SmallAlloc
  PodsAlloc <- TwoPodsEach
  Intent <- Mixed
  PodOf <- OwnPod
  Missing = {}
  CandidateSets <- AllNodes
  Decided = {}
  Views <- ViewsArmAmd
  InitView <- ArmAndAmd
  MaxChanges = 0
  Faults = {}
PROPERTIES NeverWrongArch
