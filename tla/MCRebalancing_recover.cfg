SPECIFICATION FairSpec
CONSTANTS
  n1 = n1  n2 = n2  n3 = n3
  Unborn = Unborn  Pending = Pending  Gone = Gone  None = None
  Keys = {"node-role.kubernetes.io/control-plane", "spot"}
  Values = {""}
  Nodes = {n1, n2, n3}
  Decided = {}
  Specs <- OneTainted
  Alloc <- LessRoom
  Tolerations <- ToleratesSpot
  MainReq <- One
  InitReq <- One
  Changes = {}
  Endpoints = {}
  Wanted = 2
  MaxPods = 4
  OwnerKinds = {"ReplicaSet"}
  Faults = {"api"}
  Records <- SomeRecords
  Hotspots = {FALSE}
  Restarted = {}
  MinAvailable = 1
  MinAge = 1
  Cooldown = 2
  MaxMoves = 1
  MaxDuration = 0
  AntiThrash = 2
  MaxTime = 3
CHECK_DEADLOCK FALSE
INVARIANTS RateLimited 
PROPERTIES ServiceRecovers
