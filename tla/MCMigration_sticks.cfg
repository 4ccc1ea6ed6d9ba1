SPECIFICATION Spec
CONSTANTS
  n1 = n1  n2 = n2  n3 = n3  c1 = c1  c2 = c2
  Unborn = Unborn  Pending = Pending  Gone = Gone  None = None
  Keys = {"node-role.kubernetes.io/control-plane"}
  Values = {""}
  Nodes = {n1, n2}
  Decided = {}
  Specs <- NodesAsUsual
  Alloc <- Plenty
  Tolerations = {}
  MainReq <- Nothing
  InitReq <- Nothing
  Changes = {c1}
  Endpoints = {"change-node"}
  Wanted = 1
  MaxPods = 4
  OwnerKinds = {"ReplicaSet"}
  Faults = {}
CHECK_DEADLOCK FALSE
INVARIANTS MigrationSticks
