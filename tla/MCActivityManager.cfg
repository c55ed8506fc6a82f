\* A worker as composed, one request of every task.
SPECIFICATION FairSpec
CONSTANTS
  MCLoops = {l1, l2, l3, l4}
  controller = controller
  modelProfiler = modelProfiler
  networkProfiler = networkProfiler
  Tasks <- MCWorker
  ActivityOf <- MCWorkerActivity
  MaxRequests = 1
CHECK_DEADLOCK FALSE
INVARIANTS TypeOK ExclusiveMeansAlone IdleResourceIsWhole NoLostWakeup
PROPERTIES WaitersAreServed
