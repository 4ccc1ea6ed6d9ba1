SPECIFICATION FairSpec
CONSTANTS
  n1 = n1  n2 = n2  n3 = n3  c1 = c1  c2 = c2
  Unborn = Unborn  Pending = Pending  Gone = Gone  None = None
  Keys = {"node-role.kubernetes.io/control-plane"}
  Values = {""}
  Nodes = {n1, n3}
  Decided = {n1, n3}
  Specs <- NodesAsUsual
  Alloc <- Plenty
  Tolerations = {}
  MainReq <- Nothing
  InitReq <- Nothing
  Changes = {c1, c2}
  Endpoints = {"change-node", "restart"}
  Wanted = 1
  MaxPods = 5
  OwnerKinds = {"ReplicaSet", "StatefulSet"}
  Faults = {"redis"}
CHECK_DEADLOCK FALSE
INVARIANTS TypeOK 
PROPERTIES  EveryChangeReturns ServiceSettles
