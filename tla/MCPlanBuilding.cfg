\* Two flows over three workers and two models, cut into up to three components.
SPECIFICATION Spec
CONSTANTS
  Workers = {w1, w2, w3}
  MaxComponents = 3
  MaxFlows = 2
  PriorityCount = 2
  Period = 4
  ComputeLimit = 75
  NetworkLimit = 75
  RelativeError <- MCRelativeError
SYMMETRY Symmetry
CHECK_DEADLOCK FALSE
INVARIANTS PlansAreWellFormed RoutesMeet
           RequestsPassTheWholeModel AnswersAreAccepted ContextIsCarried
           RoutesFollowConnections DeploymentsFitTheWorkers
           PartitionsComputeTheModel ResponsesAreNotUnderestimated
           BoundsCutNothingOff
