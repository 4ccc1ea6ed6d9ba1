SPECIFICATION Spec
CONSTANTS
  n1 = n1  n2 = n2
  p1 = p1  p2 = p2  p3 = p3
  r1 = r1  r2 = r2  r3 = r3
  None = None  Unbound = Unbound  Gone = Gone
  Nodes = {n1}
  Requests = {r1, r2}
  Pods = {p1, p2}
  Resources = {"cpu"}
  Archs = {"arm64", "amd64"}
  Labels = {"ssd"}
  Taints = {"spot"}
  HardTaints = {}
  Alloc <- SmallAlloc
  PodsAlloc <- TwoPodsEach
  Intent <- Big
  PodOf <- OwnPod
  Missing = {}
  CandidateSets <- AllNodes
  Decided = {}
  Views <- ViewsArm
  InitView <- ArmEverywhere
  MaxChanges = 0
  Faults = {"redis", "api", "lost", "crash", "cancel", "binder", "delete"}
INVARIANTS TypeOK NoOvercommit LedgerExact ClaimsCounted Inv
PROPERTIES GrantOnDecidedState UnlockOnlyOwn ImplementsAtomicLedger
