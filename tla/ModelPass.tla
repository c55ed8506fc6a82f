------------------------------ MODULE ModelPass ------------------------------
(***************************************************************************)
(* What a model pass is to the client that asked for it.                   *)
(*                                                                         *)
(*   length[p]     the hops of its route, fixed once and for all           *)
(*   reached[p]    how many of them have accepted its data, in their order *)
(*   outcome[p]    at the sink, exists once, is handed out once            *)
(*   delivered[p]  the outcome the front end was given                     *)
(*   answer[p]     the end of the request                                  *)
(***************************************************************************)
EXTENDS Naturals

CONSTANTS Passes

VARIABLES length, reached, outcome, delivered, answer

vars == <<length, reached, outcome, delivered, answer>>

Init ==
  /\ length = [p \in Passes |-> 0]
  /\ reached = [p \in Passes |-> 0]
  /\ outcome = [p \in Passes |-> "none"]
  /\ delivered = [p \in Passes |-> "nothing"]
  /\ answer = [p \in Passes |-> "none"]

Begin(p) ==
  /\ length[p] = 0
  /\ length'[p] \in Nat \ {0}
  /\ length' = [length EXCEPT ![p] = length'[p]]
  /\ UNCHANGED <<reached, outcome, delivered, answer>>

Advance(p) ==
  /\ reached[p] < length[p]
  /\ reached' = [reached EXCEPT ![p] = @ + 1]
  /\ UNCHANGED <<length, outcome, delivered, answer>>

\* A result takes the whole route, an error may come from any hop.
Conclude(p) ==
  /\ outcome[p] = "none"
  /\ \/ reached[p] = length[p] /\ outcome' = [outcome EXCEPT ![p] = "result"]
     \/ reached[p] > 0 /\ outcome' = [outcome EXCEPT ![p] = "error"]
  /\ UNCHANGED <<length, reached, delivered, answer>>

Deliver(p) ==
  /\ outcome[p] \in {"result", "error"}
  /\ delivered' = [delivered EXCEPT ![p] = outcome[p]]
  /\ outcome' = [outcome EXCEPT ![p] = "extracted"]
  /\ UNCHANGED <<length, reached, answer>>

\* The request may fail at any time; it succeeds with a result only.
Answer(p) ==
  /\ answer[p] = "none"
  /\ \/ delivered[p] = "result" /\ answer' = [answer EXCEPT ![p] = "returned"]
     \/ answer' = [answer EXCEPT ![p] = "failed"]
  /\ UNCHANGED <<length, reached, outcome, delivered>>

Next ==
  \E p \in Passes :
    Begin(p) \/ Advance(p) \/ Conclude(p) \/ Deliver(p) \/ Answer(p)

Spec == Init /\ [][Next]_vars
=============================================================================
