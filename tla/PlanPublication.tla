--------------------------- MODULE PlanPublication ---------------------------
(***************************************************************************)
(* What the controller promises to the front ends: a flow is served with   *)
(* the solution of one actuation at a time, it moves only to newer ones,   *)
(* and only when all workers of the newer one are ready for it.  Phases,   *)
(* versions, requests and failures are not visible here.                   *)
(*                                                                         *)
(*   chosen[a]    the solution actuation a is about                        *)
(*   ready        <<a, w>>: worker w has applied its part of a             *)
(*   serving[f]   the actuation flow f is served with, 0 before the first  *)
(***************************************************************************)
EXTENDS Integers

CONSTANTS Workers, Flows, Solutions, PlanOf, FlowsOf, MaxPuts, NoSolution

VARIABLES chosen, ready, serving

Init ==
  /\ chosen = [a \in 1 .. MaxPuts |-> NoSolution]
  /\ ready = {}
  /\ serving = [f \in Flows |-> 0]

Choose(a, s) ==
  /\ chosen[a] = NoSolution
  /\ chosen' = [chosen EXCEPT ![a] = s]
  /\ UNCHANGED <<ready, serving>>

\* A worker becomes ready for what was chosen, once.
BecomeReady(a, w) ==
  /\ chosen[a] # NoSolution
  /\ w \in DOMAIN PlanOf[chosen[a]]
  /\ <<a, w>> \notin ready
  /\ ready' = ready \cup {<<a, w>>}
  /\ UNCHANGED <<chosen, serving>>

Publish(a) ==
  /\ chosen[a] # NoSolution
  /\ \A w \in DOMAIN PlanOf[chosen[a]] : <<a, w>> \in ready
  /\ \A f \in FlowsOf[chosen[a]] : serving[f] < a
  /\ serving' =
       [f \in Flows |-> IF f \in FlowsOf[chosen[a]] THEN a ELSE serving[f]]
  /\ UNCHANGED <<chosen, ready>>

Next ==
  \E a \in 1 .. MaxPuts :
    \/ \E s \in Solutions : Choose(a, s)
    \/ \E w \in Workers : BecomeReady(a, w)
    \/ Publish(a)

Spec == Init /\ [][Next]_<<chosen, ready, serving>>
=============================================================================
