-------------------------- MODULE MCActivityManager --------------------------
(***************************************************************************)
(* The tasks of a worker: coordination loops that transmit (as composed    *)
(* there are four), the partition controller and both profilers.           *)
(***************************************************************************)
EXTENDS ActivityManager, TLC

CONSTANTS MCLoops, controller, modelProfiler, networkProfiler

MCWorker == MCLoops \cup {controller, modelProfiler, networkProfiler}
MCWorkerActivity ==
  [t \in MCWorker |->
     CASE t = controller -> "EXECUTION_INFERENCE"
       [] t = modelProfiler -> "EXECUTION_PROFILING"
       [] t = networkProfiler -> "NETWORK_PROFILING"
       [] OTHER -> "NETWORK_TRANSMISSION"]
=============================================================================
