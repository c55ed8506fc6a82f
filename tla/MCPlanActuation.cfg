\* Two solutions put, and at most one restart of the controller.
SPECIFICATION FairSpec
CONSTANTS
  MCSolutions = {"split", "swapped", "broken"}
  Solutions <- MCSolutions
  Workers = {"w1", "w2"}
  Flows = {"f1", "f2"}
  Hops <- MCHops
  PlanOf <- AllPlans
  FlowsOf <- AllFlows
  Convertible <- MCConvertible
  MaxPuts = 2
  MaxRestarts = 1
  NoSolution = "none"
  NoWorker = "none"
CHECK_DEADLOCK FALSE
INVARIANTS TypeOK PublishedPlansAreStored PublishedHopsAreDeployed
PROPERTIES ImplementsPublication NewestSolutionIsActuated
