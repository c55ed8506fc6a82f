\* One execution of a partition fails.
SPECIFICATION FairSpec
CONSTANTS
  w1 = w1
  w2 = w2
  p1 = p1
  p2 = p2
  Workers = {w1, w2}
  Loops = {l1}
  Passes = {p1, p2}
  Flows = {"f", "g"}
  FlowOf <- TwoFlows
  Route <- Crossing
  MaxHops = 4
  MaxVersion = 1
  MaxFailures = 1
CHECK_DEADLOCK FALSE
PROPERTY HopInvocationsEnd
