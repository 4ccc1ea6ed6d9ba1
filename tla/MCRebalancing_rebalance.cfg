SPECIFICATION Spec
CONSTANTS
  n1 = n1  n2 = n2  n3 = n3
  Unborn = Unborn  Pending = Pending  Gone = Gone  None = None
  Keys = {"node-role.kubernetes.io/control-plane", "spot"}
  Values = {""}
  Nodes = {n1, n2, n3}
  Decided = {}
  Specs <- OneAvoided
  Alloc <- LessRoom
  Tolerations <- ToleratesSpot
  MainReq <- One
  InitReq <- One
  Changes = {}
  Endpoints = {}
  Wanted = 3
  MaxPods = 5
  OwnerKinds = {"ReplicaSet"}
  Faults = {"lost", "crash"}
  Records <- SomeRecords
  Hotspots = {FALSE}
  Restarted = {}
  MinAvailable = 1
  MinAge = 1
  Cooldown = 1
  MaxMoves = 2
  MaxDuration = 0
  AntiThrash = 2
  MaxTime = 1
CHECK_DEADLOCK FALSE
INVARIANTS TypeOK BudgetKept NotOversubscribed
