--------------------------- MODULE ActivityManager ---------------------------
(***************************************************************************)
(* LocalActivityManagerAdapter: the shares of a worker's COMPUTE and       *)
(* NETWORK its activities hold, and the condition they wait on.            *)
(*                                                                         *)
(* A task is a coroutine that acquires one grant at a time: a coordination *)
(* loop that transmits, the partition controller that executes, the two    *)
(* profilers.  The code between two awaits runs alone on the event loop,   *)
(* and no await happens while the condition's lock is held, so acquiring,  *)
(* waking up and releasing are one step each.                              *)
(*                                                                         *)
(*   pc[t]         "idle", "parked" in the condition, "notified" but not   *)
(*                 yet run again, "holding" a grant                        *)
(*   available[r]  _current_available_res                                  *)
(*   grants        _grants, by the task that holds each                    *)
(*   requests[t]   requests t has made; MaxRequests bounds them            *)
(*                                                                         *)
(* Quantities are IEEE doubles.  One transmission takes 0.1, which is the  *)
(* integer D = 3602879701896397 in units of 2^-55, and 1.0 is 10 D - 2.    *)
(* [tenths |-> k, units |-> e] is the number k D + e of those units; all   *)
(* the numbers met have |e| small against D.                               *)
(***************************************************************************)
EXTENDS Integers, FiniteSets

CONSTANTS Tasks,        \* coroutines that acquire grants
          ActivityOf,   \* the activity of each task
          MaxRequests   \* bound on the requests of one task

Resources == {"COMPUTE", "NETWORK"}
Activities == {"EXECUTION_INFERENCE", "EXECUTION_PROFILING",
               "NETWORK_TRANSMISSION", "NETWORK_PROFILING"}

ASSUME ActivityAssumption ==
  /\ IsFiniteSet(Tasks)
  /\ ActivityOf \in [Tasks -> Activities]
  /\ MaxRequests \in Nat

VARIABLES pc, available, grants, requests

vars == <<pc, available, grants, requests>>

-----------------------------------------------------------------------------
(* Double arithmetic between 0 and 1.                                      *)

Double(k, e) == [tenths |-> k, units |-> e]
Zero == Double(0, 0)
One == Double(10, -2)
Tenth == Double(1, 0)

AtLeast(x, y) ==
  x.tenths > y.tenths \/ (x.tenths = y.tenths /\ x.units >= y.units)

\* The distance between neighbouring doubles doubles at 1/4, 1/2 and 1; below
\* 1/4 every whole number of units is representable.
Spacing(x) ==
  IF AtLeast(x, One) THEN 8
  ELSE IF AtLeast(x, Double(5, -1)) THEN 4
  ELSE IF x.tenths >= 3 THEN 2 ELSE 1

\* D % 16 = 13.
Residue(x, m) == (13 * x.tenths + x.units) % m

\* Round half to even.
Rounded(x) ==
  LET s == Spacing(x)
      r == Residue(x, s)
      even == Residue(x, 2 * s) = r
  IN IF 2 * r < s \/ (2 * r = s /\ even)
     THEN Double(x.tenths, x.units - r)
     ELSE Double(x.tenths, x.units - r + s)

Plus(x, y) == Rounded(Double(x.tenths + y.tenths, x.units + y.units))
Minus(x, y) == Rounded(Double(x.tenths - y.tenths, x.units - y.units))

-----------------------------------------------------------------------------
(* Requests of the activities.                                             *)

exclusive(a) == a # "NETWORK_TRANSMISSION"

resource(a) ==
  IF a \in {"EXECUTION_INFERENCE", "EXECUTION_PROFILING"} THEN "COMPUTE"
  ELSE "NETWORK"

\* _all_res, as composed.
capacity == [r \in Resources |-> One]

\* Mutant of required_allocation: the quantity of the requirement, which is
\* zero for an exclusive one.
required_quantity(t) ==
  IF exclusive(ActivityOf[t]) THEN Zero ELSE Tenth

\* An exclusive requirement takes the whole capacity.
required_allocation(t) ==
  IF exclusive(ActivityOf[t]) THEN capacity[resource(ActivityOf[t])] ELSE Tenth

ResourceOf(t) == resource(ActivityOf[t])

Waiting(t) == pc[t] \in {"parked", "notified"}

Init ==
  /\ pc = [t \in Tasks |-> "idle"]
  /\ available = capacity
  /\ grants = {}
  /\ requests = [t \in Tasks |-> 0]

\* Mutant of fits: anything left is enough.
fits_when_some_left(t) ==
  AtLeast(available[ResourceOf(t)], Double(0, 1))

fits(t) == AtLeast(available[ResourceOf(t)], required_allocation(t))

\* Mutant of give_back: the quantity of the requirement is returned.
give_back_quantity(t) == Plus(available[ResourceOf(t)], required_quantity(t))

\* What a release makes available.
give_back(t) == Plus(available[ResourceOf(t)], required_allocation(t))

grant(t) ==
  /\ pc' = [pc EXCEPT ![t] = "holding"]
  /\ available' = [available EXCEPT ![ResourceOf(t)] = Minus(@, required_allocation(t))]
  /\ grants' = grants \cup {t}

\* acquire_activity_grant: the predicate is evaluated before any wait, so a
\* newcomer overtakes those already notified.
Acquire(t) ==
  /\ pc[t] = "idle"
  /\ requests[t] < MaxRequests
  /\ requests' = [requests EXCEPT ![t] = @ + 1]
  /\ IF fits(t) THEN grant(t)
     ELSE /\ pc' = [pc EXCEPT ![t] = "parked"]
          /\ UNCHANGED <<available, grants>>

\* A notified task runs again and re-evaluates its predicate.
Wake(t) ==
  /\ pc[t] = "notified"
  /\ IF fits(t) THEN grant(t)
     ELSE /\ pc' = [pc EXCEPT ![t] = "parked"]
          /\ UNCHANGED <<available, grants>>
  /\ UNCHANGED requests

\* The task is cancelled while it waits.
Cancel(t) ==
  /\ Waiting(t)
  /\ pc' = [pc EXCEPT ![t] = "idle"]
  /\ UNCHANGED <<available, grants, requests>>

\* Mutant of notify_all: one waiter is woken.
notify_one(p) ==
  IF \E w \in Tasks : p[w] = "parked"
  THEN [p EXCEPT ![CHOOSE w \in Tasks : p[w] = "parked"] = "notified"]
  ELSE p

notify_all(p) ==
  [w \in Tasks |-> IF p[w] = "parked" THEN "notified" ELSE p[w]]

\* Leaving "async with activity_grant", by whatever path.
Release(t) ==
  /\ pc[t] = "holding"
  /\ t \in grants
  /\ grants' = grants \ {t}
  /\ available' = [available EXCEPT ![ResourceOf(t)] = give_back(t)]
  /\ pc' = notify_all([pc EXCEPT ![t] = "idle"])
  /\ UNCHANGED requests

Next == \E t \in Tasks : Acquire(t) \/ Wake(t) \/ Cancel(t) \/ Release(t)

Spec == Init /\ [][Next]_vars

\* The event loop runs notified tasks, and the work done under a grant ends:
\* sends and probes have timeouts, executions terminate.
FairSpec == Spec /\ \A t \in Tasks : WF_vars(Wake(t)) /\ WF_vars(Release(t))

-----------------------------------------------------------------------------
(* Properties.                                                             *)

HoldersOf(r) == {t \in grants : ResourceOf(t) = r}

\* Grants are held by the tasks at work, and every quantity is a double the
\* representation covers.
TypeOK ==
  /\ pc \in [Tasks -> {"idle", "parked", "notified", "holding"}]
  /\ available \in [Resources -> [tenths : 0..10, units : -2..5]]
  /\ grants = {t \in Tasks : pc[t] = "holding"}
  /\ requests \in [Tasks -> 0..MaxRequests]

\* A task that profiles the network, profiles a model or executes a partition
\* has the resource for itself.
ExclusiveMeansAlone ==
  \A t, u \in grants :
    /\ exclusive(ActivityOf[t])
    /\ ResourceOf(t) = ResourceOf(u)
    => t = u

\* No more than ten transmissions share the network.
TransmissionsFitTheNetwork == Cardinality(HoldersOf("NETWORK")) <= 10

\* Subtracting and adding 0.1 in floating point never drifts: a resource that
\* nobody holds is available to the last bit, as an exclusive requirement
\* needs it to be.
IdleResourceIsWhole ==
  \A r \in Resources : HoldersOf(r) = {} => available[r] = capacity[r]

\* A task parked in the condition could not be served: no release is missed,
\* whatever resource it was for and whoever overtook.
NoLostWakeup == \A t \in Tasks : pc[t] = "parked" => ~ fits(t)

\* With finitely many requests every waiting task is served or cancelled.
WaitersAreServed == \A t \in Tasks : Waiting(t) ~> ~ Waiting(t)

=============================================================================
