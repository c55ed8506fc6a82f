\* A restarted controller uses version 1 again for another worker.
SPECIFICATION Spec
CONSTANTS
  MCSolutions = {"here", "there"}
  Solutions <- MCSolutions
  Workers = {"w1", "w2"}
  Flows = {"f1", "f2"}
  Hops <- MCHops
  PlanOf <- AllPlans
  FlowsOf <- AllFlows
  Convertible <- MCConvertible
  MaxPuts = 2
  MaxRestarts = 1
  NoSolution = "none"
  NoWorker = "none"
CHECK_DEADLOCK FALSE
INVARIANTS ReplicaIdsAreSystemWide
