\* Two passes of a flow whose plan may be replaced, by a higher version or a lower one, between them.
SPECIFICATION Spec
CONSTANTS
  w1 = w1
  w2 = w2
  p1 = p1
  p2 = p2
  Workers = {w1, w2}
  Loops = {l1, l2}
  Passes = {p1, p2}
  Flows = {"f"}
  FlowOf <- OneFlow
  Route <- TwoPlans
  MaxHops = 3
  MaxVersion = 2
  MaxFailures = 1
CHECK_DEADLOCK FALSE
SYMMETRY Symmetric
INVARIANTS WaitingLoopsAreServed
PROPERTIES OlderPlansGoFirst
