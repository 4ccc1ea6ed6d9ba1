SPECIFICATION FairSpec
CONSTANTS
  n1 = n1  n2 = n2  q1 = q1  q2 = q2  q3 = q3  None = None
  Nodes = {n1, n2}
  Queries = {}
  CandidateSets <- SomeCandidates
  Rankings <- N1First
  MaxChanges = 2
  Faults = {}
PROPERTIES RemovalTakesEffect
