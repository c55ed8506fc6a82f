--------------------------- MODULE MCInferencePass ---------------------------
(***************************************************************************)
(* Routes over two workers.                                                *)
(***************************************************************************)
EXTENDS InferencePass, TLC

CONSTANTS w1, w2, p1, p2

Ingress(w) == [worker |-> w, kind |-> "ingress", priority |-> 0]
Sink(w) == [worker |-> w, kind |-> "sink", priority |-> 0]
Partition(w, n) == [worker |-> w, kind |-> "partition", priority |-> n]

\* Two plans that use partitions of different priority on worker w2.
TwoPlans ==
  [f \in Flows |-> <<<<Ingress(w1), Partition(w2, 1), Sink(w1)>>,
                     <<Ingress(w1), Partition(w2, 0), Sink(w2)>>>>]

\* Two flows, one plan each.
Crossing ==
  [f \in Flows |->
     <<IF f = "f"
       THEN <<Ingress(w1), Partition(w1, 0), Partition(w2, 0), Sink(w1)>>
       ELSE <<Ingress(w2), Partition(w1, 1), Sink(w2)>>>>]

TwoFlows == [p \in Passes |-> IF p = p1 THEN "f" ELSE "g"]
OneFlow == [p \in Passes |-> "f"]

Symmetric == Permutations(Passes) \cup Permutations(Loops)
=============================================================================
