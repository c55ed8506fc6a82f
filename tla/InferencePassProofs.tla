------------------------- MODULE InferencePassProofs -------------------------
(***************************************************************************)
(* Theorems about InferencePass, for any workers, loops, flows and routes. *)
(*                                                                         *)
(* The invariant says where the data of a pass can be.  Hops accept it in  *)
(* the order of the route (CallsInv).  A hop that has accepted it is one   *)
(* job, at the worker of the hop, in its inbox or with one loop            *)
(* (JobsAreHandledOnce), and the call to the next hop is not made before   *)
(* that loop makes it (InboxesInv, LoopsInv), so that no call is made      *)
(* twice.  A request, queued or under execution, is the one its loop       *)
(* awaits (RequestsInv).                                                   *)
(***************************************************************************)
EXTENDS InferencePass, FiniteSetTheorems, WellFoundedInduction, TLAPS

\* TypeOK without the length of the queues, which takes the whole invariant.
TypeInv ==
  /\ active_version \in [Flows -> 1 .. MaxVersion]
  /\ runner \in [Passes -> {"idle", "contract", "current", "submitting",
                            "retrieving", "returned", "failed"}]
  /\ version \in [Passes -> 0 .. MaxVersion]
  /\ call \in [Passes -> [1 .. MaxHops -> {"none", "sent", "accepted"}]]
  /\ inbox \in [Workers -> Seq(Jobs)]
  /\ loop \in [Workers -> [Loops ->
       {Idle} \cup [pc : {"handling", "waiting", "propagating", "sending", "reporting"},
                   job : Jobs]]]
  /\ waiting \in [Workers -> Seq(Requests)]
  /\ controller \in [Workers -> {NoRequest} \cup Requests]
  /\ outcome \in [Passes -> {"none", "result", "error", "extracted"}]
  /\ retrieval \in [Passes -> {"none", "requested", "result", "error"}]
  /\ failures \in 0 .. MaxFailures

Busy(w, l) == loop[w][l].pc # "extracting"

\* Job is at worker w: its hop is there and has accepted the data.
IsAt(w, job) ==
  /\ job \in Jobs
  /\ version[job[1]] > 0
  /\ job[2] <= Len(route(job[1]))
  /\ hop(job).worker = w
  /\ call[job[1]][job[2]] = "accepted"

\* The call to the hop after the job's is not made.
NotForwarded(job) ==
  job[2] < MaxHops => call[job[1]][job[2] + 1] = "none"

\* A runner has a version from its contract on, has submitted nothing before the
\* version was found current, and asks for an outcome only after submitting.
RunnersInv ==
  \A p \in Passes :
    /\ version[p] = 0 <=> runner[p] = "idle"
    /\ runner[p] \in {"idle", "contract", "current"} => call[p][1] = "none"
    /\ retrieval[p] # "none" => runner[p] \in {"retrieving", "returned", "failed"}

\* A call to a hop of the route is made when all hops before have accepted.
CallsInv ==
  \A p \in Passes, k \in 1 .. MaxHops :
    call[p][k] # "none" =>
      /\ version[p] > 0
      /\ k <= Len(route(p))
      /\ \A j \in 1 .. k - 1 : call[p][j] = "accepted"

\* What waits in an inbox is at its worker and has not been handed on.
InboxesInv ==
  \A w \in Workers : \A n \in DOMAIN inbox[w] :
    IsAt(w, inbox[w][n]) /\ NotForwarded(inbox[w][n])

\* So is what a loop is busy with, up to the call it makes to the next hop.
LoopsInv ==
  \A w \in Workers, l \in Loops :
    Busy(w, l) =>
      /\ IsAt(w, JobOf(w, l))
      /\ loop[w][l].pc \in {"handling", "waiting", "propagating"}
           => NotForwarded(JobOf(w, l))
      /\ loop[w][l].pc \in {"waiting", "propagating", "sending"}
           => JobOf(w, l)[2] < Len(route(JobOf(w, l)[1]))

\* No job is in two places.
JobsAreHandledOnce ==
  \A w \in Workers :
    /\ \A m, n \in DOMAIN inbox[w] : inbox[w][m] = inbox[w][n] => m = n
    /\ \A l \in Loops, n \in DOMAIN inbox[w] :
         Busy(w, l) => inbox[w][n] # JobOf(w, l)
    /\ \A k, l \in Loops :
         Busy(w, k) /\ Busy(w, l) /\ JobOf(w, k) = JobOf(w, l) => k = l

\* The loop of request q waits for it.
Awaited(w, q) == q.loop \in Loops /\ At(w, q.loop, "waiting") /\ q.job = JobOf(w, q.loop)

\* Every request is for the job of a loop that awaits it, one per loop.
RequestsInv ==
  \A w \in Workers :
    /\ \A n \in DOMAIN waiting[w] : Awaited(w, waiting[w][n])
    /\ \A m, n \in DOMAIN waiting[w] :
         waiting[w][m].loop = waiting[w][n].loop => m = n
    /\ controller[w] # NoRequest =>
         /\ Awaited(w, controller[w])
         /\ \A n \in DOMAIN waiting[w] : waiting[w][n].loop # controller[w].loop

Inv == TypeInv /\ RunnersInv /\ CallsInv /\ InboxesInv /\ LoopsInv
       /\ JobsAreHandledOnce /\ RequestsInv

\* From the well-foundedness of inclusion between finite sets: no induction.
LEMMA LeastNatural ==
  ASSUME NEW S, S \subseteq Nat, S # {}
  PROVE  \E x \in S : \A y \in S : x <= y
<1> DEFINE T == {0 .. x : x \in S}
<1>1. T \subseteq FiniteSubsetsOf(Nat)
  <2> SUFFICES ASSUME NEW x \in S PROVE (0 .. x) \in FiniteSubsetsOf(Nat)
    OBVIOUS
  <2>1. IsFiniteSet(0 .. x) BY FS_Interval
  <2>2. (0 .. x) \subseteq Nat OBVIOUS
  <2> QED BY <2>1, <2>2 DEF FiniteSubsetsOf
<1>2. \E u \in T : \A v \in T : ~(<<v, u>> \in StrictSubsetOrdering(Nat))
  <2>1. T # {} OBVIOUS
  <2> HIDE DEF T
  <2> QED BY <1>1, <2>1, FS_StrictSubsetOrderingWellFounded, WFMin
<1>3. PICK x \in S : \A y \in S : ~(<<0 .. y, 0 .. x>> \in StrictSubsetOrdering(Nat))
  BY <1>2
<1>4. SUFFICES ASSUME NEW y \in S, y < x PROVE FALSE
  BY <1>3
<1>5. (0 .. y) \subseteq (0 .. x) /\ (0 .. y) # (0 .. x)
  <2>1. x \in 0 .. x /\ x \notin 0 .. y /\ x \in Nat /\ y \in Nat
    BY <1>4
  <2> QED BY <2>1, <1>4
<1>6. (0 .. y) \in SUBSET Nat /\ (0 .. x) \in SUBSET Nat
  OBVIOUS
<1>7. <<0 .. y, 0 .. x>> \in StrictSubsetOrdering(Nat)
  BY <1>5, <1>6, Zenon DEF StrictSubsetOrdering
<1> QED BY <1>3, <1>4, <1>7

\* The route of a pass that has a version; its last hop is its only sink.
LEMMA Routes ==
  ASSUME TypeInv, NEW p \in Passes, version[p] > 0
  PROVE  /\ route(p) \in Seq(Hops) /\ Len(route(p)) \in 2 .. MaxHops
         /\ \A k \in 1 .. Len(route(p)) :
              /\ route(p)[k] \in Hops
              /\ route(p)[k].worker \in Workers
              /\ route(p)[k].priority \in Nat
              /\ route(p)[k].kind = "sink" <=> k = Len(route(p))
<1>1. FlowOf[p] \in Flows /\ version[p] \in 1 .. MaxVersion
  BY RouteAssumption DEF TypeInv
<1>2. route(p) \in Seq(Hops) /\ Len(route(p)) \in 2 .. MaxHops
  BY <1>1, RouteAssumption DEF route
<1> SUFFICES ASSUME NEW k \in 1 .. Len(route(p))
             PROVE  /\ route(p)[k] \in Hops
                    /\ route(p)[k].kind = "sink" <=> k = Len(route(p))
  BY <1>2 DEF Hops
<1>3. route(p)[k] \in Hops
  BY <1>2
<1>4. route(p)[k].kind = CASE k = 1 -> "ingress"
                           [] k = Len(route(p)) -> "sink"
                           [] OTHER -> "partition"
  BY <1>1, <1>2, RouteAssumption, SMTT(20) DEF route
<1> QED BY <1>2, <1>3, <1>4

\* What dequeue leaves.
LEMMA WithoutOne ==
  ASSUME NEW S, NEW s \in Seq(S), NEW n \in 1 .. Len(s)
  PROVE  /\ without(s, n) \in Seq(S)
         /\ Len(without(s, n)) = Len(s) - 1
         /\ \A i \in 1 .. Len(s) - 1 :
              without(s, n)[i] = s[IF i < n THEN i ELSE i + 1]
<1>1. SubSeq(s, 1, n - 1) \in Seq(S) /\ Len(SubSeq(s, 1, n - 1)) = n - 1
  OBVIOUS
<1>2. SubSeq(s, n + 1, Len(s)) \in Seq(S)
      /\ Len(SubSeq(s, n + 1, Len(s))) = Len(s) - n
  OBVIOUS
<1> DEFINE u == SubSeq(s, 1, n - 1)
           v == SubSeq(s, n + 1, Len(s))
<1>3. \A i \in 1 .. n - 1 : u[i] = s[i]
  OBVIOUS
<1>4. \A i \in 1 .. Len(s) - n : v[i] = s[n + i]
  OBVIOUS
<1>5. u \o v \in Seq(S) /\ Len(u \o v) = Len(s) - 1
      /\ \A i \in 1 .. Len(s) - 1 :
           (u \o v)[i] = IF i < n THEN u[i] ELSE v[i - n + 1]
  <2>1. /\ u \in Seq(S) /\ Len(u) = n - 1
        /\ v \in Seq(S) /\ Len(v) = Len(s) - n
    BY <1>1, <1>2
  <2> HIDE DEF u, v
  <2> QED BY <2>1
<1>6. ASSUME NEW i \in 1 .. Len(s) - 1
      PROVE  (u \o v)[i] = s[IF i < n THEN i ELSE i + 1]
  <2> HIDE DEF u, v
  <2>1. CASE i < n
    BY <2>1, <1>3, <1>5
  <2>2. CASE ~(i < n)
    <3>1. i - n + 1 \in 1 .. Len(s) - n /\ n + (i - n + 1) = i + 1
      BY <2>2
    <3> QED BY <2>2, <3>1, <1>4, <1>5
  <2> QED BY <2>1, <2>2
<1> QED BY <1>5, <1>6 DEF without

\* Requests can be compared.
LEMMA WaitingRequests ==
  ASSUME Inv, NEW w \in Workers, NEW n \in DOMAIN waiting[w]
  PROVE  LET q == waiting[w][n] IN
         /\ q \in Requests /\ q.loop \in Loops
         /\ q.job \in Jobs /\ q.job[1] \in Passes /\ q.job[2] \in 1 .. MaxHops
         /\ version[q.job[1]] \in Nat
         /\ hop(q.job).priority \in Nat
<1> DEFINE q == waiting[w][n]
<1>1. q \in Requests
  BY DEF Inv, TypeInv
<1>2. q.loop \in Loops /\ q.job \in Jobs /\ q.job[1] \in Passes /\ q.job[2] \in 1 .. MaxHops
  BY <1>1 DEF Requests, Jobs
<1>3. At(w, q.loop, "waiting") /\ q.job = JobOf(w, q.loop)
  BY DEF Inv, RequestsInv, Awaited
<1>4. IsAt(w, q.job)
  BY <1>2, <1>3 DEF Inv, LoopsInv, Busy, At
<1>5. version[q.job[1]] \in Nat /\ version[q.job[1]] > 0
  BY <1>2, <1>4, RouteAssumption DEF IsAt, Inv, TypeInv
<1>6. q.job[2] \in 1 .. Len(route(q.job[1]))
  BY <1>2, <1>4, <1>5, Routes DEF IsAt, Inv
<1>7. hop(q.job).priority \in Nat
  BY <1>2, <1>5, <1>6, Routes DEF Inv, hop
<1> QED BY <1>1, <1>2, <1>5, <1>7

\* The priority queue always has a request to hand out: one of the lowest version,
\* of these the lowest priority, of these the oldest.
LEMMA NextRequest ==
  ASSUME Inv, NEW w \in Workers, waiting[w] # <<>>
  PROVE  /\ next_request(w) \in DOMAIN waiting[w]
         /\ \A m \in DOMAIN waiting[w] :
              ~precedes(waiting[w][m], waiting[w][next_request(w)])
<1> DEFINE D == DOMAIN waiting[w]
           ver(i) == version[waiting[w][i].job[1]]
           pri(i) == hop(waiting[w][i].job).priority
<1>1. D \subseteq Nat /\ D # {}
  <2>1. waiting[w] \in Seq(Requests)
    BY DEF Inv, TypeInv
  <2>2. DOMAIN waiting[w] = 1 .. Len(waiting[w]) /\ Len(waiting[w]) \in Nat
        /\ Len(waiting[w]) # 0
    BY <2>1
  <2>3. D = 1 .. Len(waiting[w])
    BY <2>2
  <2> QED BY <2>2, <2>3
<1>2. \A i \in D : ver(i) \in Nat /\ pri(i) \in Nat
  BY WaitingRequests
<1>3. \A i, j \in D :
        precedes(waiting[w][i], waiting[w][j]) <=>
          ver(i) < ver(j) \/ (ver(i) = ver(j) /\ pri(i) < pri(j))
  BY DEF precedes
<1> HIDE DEF D, ver, pri
<1>4. PICK v \in Nat : (\E i \in D : ver(i) = v) /\ \A i \in D : v <= ver(i)
  <2> DEFINE V == {ver(i) : i \in D}
  <2>1. V \subseteq Nat /\ V # {}
    BY <1>1, <1>2
  <2>2. \E v \in V : \A u \in V : v <= u
    <3> HIDE DEF V
    <3> QED BY <2>1, LeastNatural
  <2> QED BY <2>1, <2>2
<1>5. PICK r \in Nat : /\ \E i \in D : ver(i) = v /\ pri(i) = r
                       /\ \A i \in D : ver(i) = v => r <= pri(i)
  <2> DEFINE R == {pri(i) : i \in {j \in D : ver(j) = v}}
  <2>1. R \subseteq Nat /\ R # {}
    BY <1>1, <1>2, <1>4
  <2>2. \E x \in R : \A y \in R : x <= y
    <3> HIDE DEF R
    <3> QED BY <2>1, LeastNatural
  <2> QED BY <2>1, <2>2
<1>6. PICK n \in D : /\ ver(n) = v /\ pri(n) = r
                     /\ \A i \in D : ver(i) = v /\ pri(i) = r => n <= i
  <2> DEFINE N == {i \in D : ver(i) = v /\ pri(i) = r}
  <2>1. N \subseteq Nat /\ N # {}
    BY <1>1, <1>5
  <2>2. \E x \in N : \A y \in N : x <= y
    <3> HIDE DEF N
    <3> QED BY <2>1, LeastNatural
  <2> QED BY <2>1, <2>2
<1>7. \A m \in D \ {n} :
        /\ ~precedes(waiting[w][m], waiting[w][n])
        /\ m < n => precedes(waiting[w][n], waiting[w][m])
  <2> SUFFICES ASSUME NEW m \in D \ {n}
               PROVE  /\ ~(ver(m) < ver(n) \/ (ver(m) = ver(n) /\ pri(m) < pri(n)))
                      /\ m < n => ver(n) < ver(m) \/ (ver(n) = ver(m) /\ pri(n) < pri(m))
    BY <1>3
  <2>1. v <= ver(m) /\ (ver(m) = v => r <= pri(m)) /\ ver(m) \in Nat /\ pri(m) \in Nat
    BY <1>2, <1>4, <1>5
  <2>2. ver(m) = v /\ pri(m) = r => n <= m
    BY <1>6
  <2>3. m \in Nat /\ n \in Nat
    BY <1>1
  <2> QED BY <1>6, <2>1, <2>2, <2>3
<1>8. next_request(w) = CHOOSE i \in D :
        \A m \in D \ {i} :
          /\ ~precedes(waiting[w][m], waiting[w][i])
          /\ m < i => precedes(waiting[w][i], waiting[w][m])
  BY DEF next_request, D
<1>9. /\ next_request(w) \in D
      /\ \A m \in D \ {next_request(w)} :
           ~precedes(waiting[w][m], waiting[w][next_request(w)])
  BY <1>7, <1>8
<1>10. ~precedes(waiting[w][next_request(w)], waiting[w][next_request(w)])
  BY <1>2, <1>3, <1>9
<1> QED BY <1>9, <1>10 DEF D

LEMMA NextTypeInv ==
  ASSUME Inv, [Next]_vars
  PROVE  TypeInv'
<1> USE DEF Inv, TypeInv, frontEndVars, workerVars
<1>1. ASSUME NEW f \in Flows, NEW v \in 1 .. MaxVersion, Publish(f, v) PROVE TypeInv'
  BY <1>1, RouteAssumption DEF Publish
<1>2. ASSUME NEW p \in Passes, RunnerStep(p) PROVE TypeInv'
  <2> USE DEF RunnerGoes
  <2>1. CASE GetContract(p)
    <3>1. FlowOf[p] \in Flows BY RouteAssumption
    <3> QED BY <2>1, <3>1, RouteAssumption DEF GetContract
  <2>2. CASE CheckVersion(p)
    BY <2>2 DEF CheckVersion
  <2>3. CASE SubmitModelPass(p)
    BY <2>3 DEF SubmitModelPass
  <2>4. CASE RunnerFails(p)
    BY <2>4 DEF RunnerFails
  <2>5. CASE RetrieveResult(p)
    BY <2>5 DEF RetrieveResult
  <2>6. CASE ReceiveOutcome(p)
    BY <2>6 DEF ReceiveOutcome
  <2> QED BY <1>2, <2>1, <2>2, <2>3, <2>4, <2>5, <2>6 DEF RunnerStep
<1>3. ASSUME NEW p \in Passes, ExtractOutcome(p) PROVE TypeInv'
  BY <1>3 DEF ExtractOutcome
<1>4. ASSUME NEW p \in Passes, NEW k \in 1 .. MaxHops, Accept(p, k) PROVE TypeInv'
  <2>1. <<p, k>> \in Jobs
    BY DEF Jobs
  <2>2. hop(<<p, k>>).worker \in Workers
    <3>1. version[p] > 0 /\ k <= Len(route(p)) /\ CallsInv
      BY <1>4 DEF Accept, CallsInv
    <3> HIDE DEF TypeInv
    <3> QED BY <3>1, Routes DEF hop
  <2> QED BY <1>4, <2>1, <2>2 DEF Accept
<1>5. ASSUME NEW w \in Workers, NEW l \in Loops, LoopStep(w, l) PROVE TypeInv'
  <2> USE DEF LoopGoes, LoopEnds, At, JobOf
  <2>0. /\ Busy(w, l) => loop[w][l].job \in Jobs
        /\ loop[w][l] \in {Idle} \cup [pc : {"handling", "waiting", "propagating", "sending", "reporting"}, job : Jobs]
        /\ Idle.pc = "extracting"
    BY DEF Busy, Idle
  <2>1. CASE ExtractNext(w, l)
    <3>1. Head(inbox[w]) \in Jobs /\ Tail(inbox[w]) \in Seq(Jobs)
      BY <2>1 DEF ExtractNext
    <3> QED BY <2>1, <3>1 DEF ExtractNext
  <2>2. CASE HandleIngress(w, l)
    BY <2>0, <2>2 DEF HandleIngress
  <2>3. CASE Enqueue(w, l)
    <3>1. [job |-> JobOf(w, l), loop |-> l] \in Requests
      BY <2>0, <2>3 DEF Enqueue, Requests, Busy
    <3>2. waiting' \in [Workers -> Seq(Requests)]
      <4>1. waiting \in [Workers -> Seq(Requests)]
        BY DEF Inv, TypeInv
      <4>2. waiting' = [waiting EXCEPT ![w] = Append(@, [job |-> JobOf(w, l), loop |-> l])]
        BY <2>3 DEF Enqueue
      <4> HIDE DEF Inv, TypeInv
      <4> QED BY <3>1, <4>1, <4>2
    <3>3. loop' = [loop EXCEPT ![w][l].pc = "waiting"]
      BY <2>3 DEF Enqueue
    <3>4. loop' \in [Workers -> [Loops -> {Idle} \cup
            [pc : {"handling", "waiting", "propagating", "sending", "reporting"}, job : Jobs]]]
      BY <2>0, <2>3, <3>3 DEF Enqueue
    <3>5. UNCHANGED <<active_version, frontEndVars, call, inbox, controller, failures, outcome>>
      BY <2>3 DEF Enqueue
    <3> QED BY <3>2, <3>4, <3>5
  <2>4. CASE HandleSink(w, l)
    BY <2>0, <2>4 DEF HandleSink
  <2>5. CASE HandleSinkDuplicate(w, l)
    BY <2>0, <2>5 DEF HandleSinkDuplicate
  <2>6. CASE Propagate(w, l)
    BY <2>0, <2>6 DEF Propagate
  <2>7. CASE SendAcknowledged(w, l)
    BY <2>0, <2>7 DEF SendAcknowledged
  <2>8. CASE PipelineFails(w, l)
    BY <2>0, <2>8 DEF PipelineFails, after_failure
  <2>9. CASE ReportFailure(w, l)
    BY <2>0, <2>9 DEF ReportFailure, report_failure
  <2> QED BY <1>5, <2>1, <2>2, <2>3, <2>4, <2>5, <2>6, <2>7, <2>8, <2>9 DEF LoopStep
<1>6. ASSUME NEW w \in Workers, ControllerStep(w) PROVE TypeInv'
  <2>1. CASE Dequeue(w)
    <3>1. /\ waiting[w] \in Seq(Requests)
          /\ next_request(w) \in 1 .. Len(waiting[w])
      BY <2>1, NextRequest DEF Dequeue
    <3>2. /\ without(waiting[w], next_request(w)) \in Seq(Requests)
          /\ waiting[w][next_request(w)] \in Requests
      BY <3>1, WithoutOne
    <3> QED BY <2>1, <3>2 DEF Dequeue
  <2>2. CASE ExecutionSucceeds(w)
    <3>1. Awaited(w, controller[w])
      BY <2>2 DEF ExecutionSucceeds, RequestsInv
    <3>2. loop[w][controller[w].loop] \in [pc : {"handling", "waiting", "propagating", "sending", "reporting"}, job : Jobs]
      BY <3>1 DEF Awaited, At, Idle
    <3> QED BY <2>2, <3>1, <3>2 DEF ExecutionSucceeds, LoopGoes, Awaited
  <2>3. CASE ExecutionFails(w)
    BY <2>3, RouteAssumption DEF ExecutionFails
  <2> QED BY <1>6, <2>1, <2>2, <2>3 DEF ControllerStep
<1>7. CASE UNCHANGED vars
  BY <1>7 DEF vars
<1> QED BY <1>1, <1>2, <1>3, <1>4, <1>5, <1>6, <1>7 DEF Next

-----------------------------------------------------------------------------
(* What a step may change, and how.                                        *)

\* The steps that change versions or calls.
ContributionsMove ==
  \/ \E p \in Passes : GetContract(p) \/ SubmitModelPass(p)
  \/ \E p \in Passes, k \in 1 .. MaxHops : Accept(p, k)
  \/ \E w \in Workers, l \in Loops : Propagate(w, l)

LEMMA ContributionChanges ==
  ASSUME [Next]_vars
  PROVE  UNCHANGED <<version, call>> \/ ContributionsMove
<1> USE DEF ContributionsMove, frontEndVars, workerVars
<1>1. ASSUME NEW f \in Flows, NEW v \in 1 .. MaxVersion, Publish(f, v) PROVE UNCHANGED <<version, call>>
  BY <1>1 DEF Publish
<1>2. ASSUME NEW p \in Passes, RunnerStep(p)
      PROVE  UNCHANGED <<version, call>> \/ ContributionsMove
  BY <1>2 DEF RunnerStep, CheckVersion, RunnerFails, RetrieveResult, ReceiveOutcome
<1>3. ASSUME NEW p \in Passes, ExtractOutcome(p) PROVE UNCHANGED <<version, call>>
  BY <1>3 DEF ExtractOutcome
<1>4. ASSUME NEW w \in Workers, NEW l \in Loops, LoopStep(w, l)
      PROVE  UNCHANGED <<version, call>> \/ ContributionsMove
  BY <1>4 DEF LoopStep, ExtractNext, HandleIngress, Enqueue, HandleSink,
              HandleSinkDuplicate, SendAcknowledged, PipelineFails,
              ReportFailure
<1>5. ASSUME NEW w \in Workers, ControllerStep(w) PROVE UNCHANGED <<version, call>>
  BY <1>5 DEF ControllerStep, Dequeue, ExecutionSucceeds, ExecutionFails
<1>6. CASE UNCHANGED vars
  BY <1>6 DEF vars
<1> QED BY <1>1, <1>2, <1>3, <1>4, <1>5, <1>6 DEF Next

\* What a coordination loop does to its own state and the queues of its worker.
LoopMoves(w, l) ==
  \/ ExtractNext(w, l)
  \/ Enqueue(w, l)
  \/ /\ Busy(w, l) /\ ~At(w, l, "waiting")
     /\ UNCHANGED <<inbox, waiting, controller>>
     /\ \/ LoopEnds(w, l)
        \/ LoopGoes(w, l, "reporting")
        \/ HandleIngress(w, l)
        \/ Propagate(w, l)

LEMMA LoopSteps ==
  ASSUME NEW w \in Workers, NEW l \in Loops, LoopStep(w, l)
  PROVE  LoopMoves(w, l)
<1> USE DEF LoopMoves, Busy, At, frontEndVars, workerVars
<1>1. CASE HandleIngress(w, l)
  BY <1>1 DEF HandleIngress
<1>2. CASE HandleSink(w, l)
  BY <1>2 DEF HandleSink
<1>3. CASE HandleSinkDuplicate(w, l)
  BY <1>3 DEF HandleSinkDuplicate
<1>4. CASE Propagate(w, l)
  BY <1>4 DEF Propagate
<1>5. CASE SendAcknowledged(w, l)
  BY <1>5 DEF SendAcknowledged
<1>6. CASE PipelineFails(w, l)
  BY <1>6 DEF PipelineFails, after_failure
<1>7. CASE ReportFailure(w, l)
  BY <1>7 DEF ReportFailure
<1> QED BY <1>1, <1>2, <1>3, <1>4, <1>5, <1>6, <1>7 DEF LoopStep

\* The steps that change inboxes, loops or requests.
JobsMove ==
  \/ \E p \in Passes, k \in 1 .. MaxHops : Accept(p, k)
  \/ \E w \in Workers, l \in Loops : LoopMoves(w, l)
  \/ \E w \in Workers : ControllerStep(w)

LEMMA JobChanges ==
  ASSUME [Next]_vars
  PROVE  UNCHANGED <<inbox, loop, waiting, controller>> \/ JobsMove
<1> USE DEF JobsMove, frontEndVars, workerVars
<1>1. ASSUME NEW f \in Flows, NEW v \in 1 .. MaxVersion, Publish(f, v)
      PROVE  UNCHANGED <<inbox, loop, waiting, controller>>
  BY <1>1 DEF Publish
<1>2. ASSUME NEW p \in Passes, RunnerStep(p)
      PROVE  UNCHANGED <<inbox, loop, waiting, controller>>
  BY <1>2 DEF RunnerStep, GetContract, CheckVersion, SubmitModelPass, RunnerFails,
              RetrieveResult, ReceiveOutcome
<1>3. ASSUME NEW p \in Passes, ExtractOutcome(p)
      PROVE  UNCHANGED <<inbox, loop, waiting, controller>>
  BY <1>3 DEF ExtractOutcome
<1>4. CASE UNCHANGED vars
  BY <1>4 DEF vars
<1> QED BY <1>1, <1>2, <1>3, <1>4, LoopSteps DEF Next

\* The loop that propagates job <<p, k>> finds the call to hop k + 1 unmade.
LEMMA PropagatedCall ==
  ASSUME Inv, NEW w \in Workers, NEW l \in Loops, Propagate(w, l)
  PROVE  \E p \in Passes, k \in 1 .. MaxHops :
           /\ JobOf(w, l) \in Jobs /\ JobOf(w, l) = <<p, k>>
           /\ k + 1 \in 1 .. MaxHops
           /\ version[p] > 0 /\ k + 1 <= Len(route(p))
           /\ call[p][k] = "accepted" /\ call[p][k + 1] = "none"
           /\ call' = [call EXCEPT ![p][k + 1] = "sent"]
<1>1. At(w, l, "propagating") /\ Busy(w, l)
  BY DEF Propagate, At, Busy
<1>2. /\ IsAt(w, JobOf(w, l)) /\ NotForwarded(JobOf(w, l))
      /\ JobOf(w, l)[2] < Len(route(JobOf(w, l)[1]))
  BY <1>1 DEF Inv, LoopsInv, At
<1>3. PICK p \in Passes, k \in 1 .. MaxHops : JobOf(w, l) = <<p, k>>
  BY <1>2 DEF IsAt, Jobs
<1>4. version[p] > 0 /\ Len(route(p)) \in 2 .. MaxHops
  BY <1>2, <1>3, Routes DEF IsAt, Inv
<1>5. k + 1 <= Len(route(p)) /\ k + 1 \in 1 .. MaxHops /\ JobOf(w, l) \in Jobs
  BY <1>2, <1>3, <1>4, RouteAssumption DEF IsAt
<1>6. call[p][k] = "accepted" /\ call[p][k + 1] = "none"
  BY <1>2, <1>3, <1>5, RouteAssumption DEF IsAt, NotForwarded
<1>7. call' = [call EXCEPT ![p][k + 1] = "sent"]
  BY <1>3 DEF Propagate
<1> QED BY <1>3, <1>4, <1>5, <1>6, <1>7

\* A pass keeps the version, and so the route, of its contract.
LEMMA VersionsStay ==
  ASSUME Inv, [Next]_vars, NEW p \in Passes, version[p] > 0
  PROVE  version'[p] = version[p] /\ route(p)' = route(p)
<1>1. version'[p] = version[p]
  <2>1. ASSUME NEW q \in Passes, GetContract(q) PROVE version'[p] = version[p]
    <3>1. version[q] = 0
      BY <2>1 DEF GetContract, Inv, RunnersInv
    <3> QED BY <2>1, <3>1 DEF GetContract, Inv, TypeInv
  <2> QED BY <2>1, ContributionChanges
          DEF ContributionsMove, SubmitModelPass, Accept, Propagate, frontEndVars
<1> QED BY <1>1 DEF route

LEMMA AcceptedStays ==
  ASSUME Inv, [Next]_vars, NEW p \in Passes, NEW k \in 1 .. MaxHops,
         call[p][k] = "accepted"
  PROVE  call'[p][k] = "accepted"
<1>1. ASSUME NEW q \in Passes, SubmitModelPass(q) PROVE call'[p][k] = "accepted"
  <2>1. call[q][1] = "none"
    BY <1>1 DEF SubmitModelPass, Inv, RunnersInv
  <2> QED BY <1>1, <2>1 DEF SubmitModelPass, Inv, TypeInv
<1>2. ASSUME NEW q \in Passes, NEW j \in 1 .. MaxHops, Accept(q, j)
      PROVE  call'[p][k] = "accepted"
  BY <1>2 DEF Accept, Inv, TypeInv
<1>3. ASSUME NEW w \in Workers, NEW l \in Loops, Propagate(w, l)
      PROVE  call'[p][k] = "accepted"
  <2>1. PICK q \in Passes, j \in 1 .. MaxHops :
          /\ j + 1 \in 1 .. MaxHops /\ call[q][j + 1] = "none"
          /\ call' = [call EXCEPT ![q][j + 1] = "sent"]
    BY <1>3, PropagatedCall
  <2> QED BY <2>1 DEF Inv, TypeInv
<1> QED BY <1>1, <1>2, <1>3, ContributionChanges
        DEF ContributionsMove, GetContract, frontEndVars

LEMMA JobsStay ==
  ASSUME Inv, [Next]_vars, NEW w \in Workers, NEW job, IsAt(w, job)
  PROVE  IsAt(w, job)' /\ hop(job)' = hop(job) /\ route(job[1])' = route(job[1])
<1>1. job[1] \in Passes /\ job[2] \in 1 .. MaxHops
  BY DEF IsAt, Jobs
<1>2. version'[job[1]] = version[job[1]] /\ route(job[1])' = route(job[1])
  BY <1>1, VersionsStay DEF IsAt
<1>3. call'[job[1]][job[2]] = "accepted"
  BY <1>1, AcceptedStays DEF IsAt
<1> QED BY <1>2, <1>3 DEF IsAt, hop

\* Data is handed on from a hop by the loop that is busy with its job only.
LEMMA OnlyTheHolderForwards ==
  ASSUME Inv, [Next]_vars, NEW w \in Workers, NEW job, IsAt(w, job),
         NotForwarded(job)
  PROVE  \/ NotForwarded(job)'
         \/ \E l \in Loops : Propagate(w, l) /\ JobOf(w, l) = job
<1>1. job[1] \in Passes /\ job[2] \in 1 .. MaxHops /\ job = <<job[1], job[2]>>
  BY DEF IsAt, Jobs
<1>2. SUFFICES ASSUME job[2] < MaxHops,
                      ~\E l \in Loops : Propagate(w, l) /\ JobOf(w, l) = job
               PROVE  call'[job[1]][job[2] + 1] = "none"
  BY DEF NotForwarded
<1>3. call[job[1]][job[2] + 1] = "none" /\ job[2] + 1 \in 1 .. MaxHops
  BY <1>1, <1>2, RouteAssumption DEF NotForwarded
<1>4. ASSUME NEW q \in Passes, SubmitModelPass(q)
      PROVE  call'[job[1]][job[2] + 1] = "none"
  BY <1>1, <1>3, <1>4 DEF SubmitModelPass, Inv, TypeInv
<1>5. ASSUME NEW q \in Passes, NEW j \in 1 .. MaxHops, Accept(q, j)
      PROVE  call'[job[1]][job[2] + 1] = "none"
  BY <1>1, <1>3, <1>5 DEF Accept, Inv, TypeInv
<1>6. ASSUME NEW v \in Workers, NEW l \in Loops, Propagate(v, l)
      PROVE  call'[job[1]][job[2] + 1] = "none"
  <2>1. PICK p \in Passes, k \in 1 .. MaxHops :
          /\ JobOf(v, l) = <<p, k>>
          /\ call' = [call EXCEPT ![p][k + 1] = "sent"]
    BY <1>6, PropagatedCall
  <2>2. CASE JobOf(v, l) = job
    <3>1. IsAt(v, job)
      BY <1>6, <2>2 DEF Propagate, Inv, LoopsInv, Busy, At
    <3> QED BY <1>2, <1>6, <2>2, <3>1 DEF IsAt
  <2>3. CASE JobOf(v, l) # job
    <3>1. ~(p = job[1] /\ k = job[2])
      BY <1>1, <2>1, <2>3
    <3>2. call \in [Passes -> [1 .. MaxHops -> {"none", "sent", "accepted"}]]
      BY DEF Inv, TypeInv
    <3> QED BY <1>1, <1>3, <2>1, <3>1, <3>2
  <2> QED BY <2>2, <2>3
<1> QED BY <1>3, <1>4, <1>5, <1>6, ContributionChanges
        DEF ContributionsMove, GetContract, frontEndVars

LEMMA NextCallsInv ==
  ASSUME Inv, TypeInv', [Next]_vars
  PROVE  CallsInv'
<1> SUFFICES ASSUME NEW p \in Passes, NEW k \in 1 .. MaxHops, call'[p][k] # "none"
             PROVE  /\ version'[p] > 0
                    /\ k <= Len(route(p)')
                    /\ \A j \in 1 .. k - 1 : call'[p][j] = "accepted"
  BY DEF CallsInv, route
<1>1. ASSUME version[p] > 0, k <= Len(route(p)),
             \A j \in 1 .. k - 1 : call[p][j] = "accepted"
      PROVE  /\ version'[p] > 0
             /\ k <= Len(route(p)')
             /\ \A j \in 1 .. k - 1 : call'[p][j] = "accepted"
  <2>1. \A j \in 1 .. k - 1 : j \in 1 .. MaxHops
    BY RouteAssumption
  <2> QED BY <1>1, <2>1, VersionsStay, AcceptedStays
<1>2. CASE call[p][k] # "none"
  BY <1>1, <1>2 DEF Inv, CallsInv
<1>3. ASSUME call[p][k] = "none", NEW q \in Passes, SubmitModelPass(q)
      PROVE  version[p] > 0 /\ k = 1 /\ k <= Len(route(p))
  <2>1. p = q /\ k = 1
    BY <1>3 DEF SubmitModelPass, Inv, TypeInv
  <2>2. version[p] > 0
    BY <1>3, <2>1, RouteAssumption DEF SubmitModelPass, Inv, TypeInv, RunnersInv
  <2> QED BY <2>1, <2>2, Routes DEF Inv
<1>4. ASSUME call[p][k] = "none", NEW q \in Passes, NEW j \in 1 .. MaxHops, Accept(q, j)
      PROVE  FALSE
  BY <1>4 DEF Accept, Inv, TypeInv
<1>5. ASSUME call[p][k] = "none", NEW w \in Workers, NEW l \in Loops, Propagate(w, l)
      PROVE  /\ version[p] > 0 /\ k <= Len(route(p))
             /\ \A j \in 1 .. k - 1 : call[p][j] = "accepted"
  <2>1. PICK q \in Passes, i \in 1 .. MaxHops :
        /\ i + 1 \in 1 .. MaxHops
        /\ version[q] > 0 /\ i + 1 <= Len(route(q))
        /\ call[q][i] = "accepted"
        /\ call' = [call EXCEPT ![q][i + 1] = "sent"]
    BY <1>5, PropagatedCall
  <2>2. p = q /\ k = i + 1
    BY <1>5, <2>1 DEF Inv, TypeInv
  <2>3. \A j \in 1 .. i - 1 : call[q][j] = "accepted"
    BY <2>1 DEF Inv, CallsInv
  <2>4. \A j \in 1 .. k - 1 : j = i \/ j \in 1 .. i - 1
    BY <2>1, <2>2
  <2> QED BY <2>1, <2>2, <2>3, <2>4
<1>6. CASE call[p][k] = "none"
  <2>1. ~UNCHANGED <<version, call>> /\ ~\E q \in Passes : GetContract(q)
    BY <1>6 DEF GetContract
  <2>2. \/ \E q \in Passes : SubmitModelPass(q)
        \/ \E q \in Passes, j \in 1 .. MaxHops : Accept(q, j)
        \/ \E w \in Workers, l \in Loops : Propagate(w, l)
    BY <2>1, ContributionChanges DEF ContributionsMove
  <2> QED BY <1>1, <1>3, <1>4, <1>5, <1>6, <2>2
<1> QED BY <1>2, <1>6

LEMMA NextRunnersInv ==
  ASSUME Inv, TypeInv', [Next]_vars
  PROVE  RunnersInv'
<1> USE DEF Inv, TypeInv, RunnersInv
<1>1. ASSUME NEW p \in Passes, RunnerStep(p) PROVE RunnersInv'
  <2> USE DEF RunnerGoes
  <2>1. CASE GetContract(p)
    <3>1. FlowOf[p] \in Flows /\ active_version[FlowOf[p]] > 0
      BY RouteAssumption
    <3> QED BY <2>1, <3>1, RouteAssumption DEF GetContract
  <2>2. CASE CheckVersion(p)
    BY <2>2 DEF CheckVersion
  <2>3. CASE SubmitModelPass(p)
    BY <2>3 DEF SubmitModelPass
  <2>4. CASE RunnerFails(p)
    BY <2>4 DEF RunnerFails
  <2>5. CASE RetrieveResult(p)
    BY <2>5 DEF RetrieveResult
  <2>6. CASE ReceiveOutcome(p)
    BY <2>6 DEF ReceiveOutcome
  <2> QED BY <1>1, <2>1, <2>2, <2>3, <2>4, <2>5, <2>6 DEF RunnerStep
<1>2. ASSUME NEW p \in Passes, ExtractOutcome(p) PROVE RunnersInv'
  BY <1>2 DEF ExtractOutcome
<1>3. ASSUME NEW p \in Passes, NEW k \in 1 .. MaxHops, Accept(p, k) PROVE RunnersInv'
  <2>1. call[p][k] = "sent" /\ call' = [call EXCEPT ![p][k] = "accepted"]
    BY <1>3 DEF Accept
  <2>2. ASSUME NEW q \in Passes, call[q][1] = "none" PROVE call'[q][1] = "none"
    <3>1. call \in [Passes -> [1 .. MaxHops -> {"none", "sent", "accepted"}]]
      OBVIOUS
    <3> HIDE DEF Inv, TypeInv, RunnersInv
    <3> QED BY <2>1, <2>2, <3>1
  <2>3. UNCHANGED <<version, runner, retrieval>>
    BY <1>3 DEF Accept, frontEndVars
  <2> HIDE DEF TypeInv
  <2> QED BY <2>2, <2>3
<1>4. ASSUME NEW w \in Workers, NEW l \in Loops, Propagate(w, l) PROVE RunnersInv'
  <2>1. PICK q \in Passes, j \in 1 .. MaxHops :
          j + 1 \in 1 .. MaxHops /\ call' = [call EXCEPT ![q][j + 1] = "sent"]
    <3> HIDE DEF Inv, TypeInv, RunnersInv
    <3> QED BY <1>4, PropagatedCall
  <2>2. ASSUME NEW p \in Passes PROVE call'[p][1] = call[p][1]
    <3>1. j + 1 # 1 /\ 1 \in 1 .. MaxHops
      <4>1. MaxHops \in Nat
        BY RouteAssumption
      <4> HIDE DEF Inv, TypeInv, RunnersInv
      <4> QED BY <4>1
    <3>2. call \in [Passes -> [1 .. MaxHops -> {"none", "sent", "accepted"}]]
      OBVIOUS
    <3> HIDE DEF Inv, TypeInv, RunnersInv
    <3> QED BY <2>1, <3>1, <3>2
  <2>3. UNCHANGED <<version, runner, retrieval>>
    BY <1>4 DEF Propagate, frontEndVars
  <2> HIDE DEF TypeInv
  <2> QED BY <2>2, <2>3
<1>5. CASE UNCHANGED <<version, runner, retrieval, call>>
  BY <1>5
<1>6. ASSUME NEW f \in Flows, NEW v \in 1 .. MaxVersion, Publish(f, v) PROVE RunnersInv'
  BY <1>5, <1>6 DEF Publish, frontEndVars
<1>7. ASSUME NEW w \in Workers, NEW l \in Loops, LoopStep(w, l) PROVE RunnersInv'
  BY <1>4, <1>5, <1>7
     DEF LoopStep, ExtractNext, HandleIngress, Enqueue, HandleSink,
         HandleSinkDuplicate, SendAcknowledged, PipelineFails, ReportFailure, frontEndVars
<1>8. ASSUME NEW w \in Workers, ControllerStep(w) PROVE RunnersInv'
  BY <1>5, <1>8 DEF ControllerStep, Dequeue, ExecutionSucceeds, ExecutionFails, frontEndVars
<1>9. CASE UNCHANGED vars
  BY <1>5, <1>9 DEF vars, frontEndVars
<1> QED BY <1>1, <1>2, <1>3, <1>6, <1>7, <1>8, <1>9 DEF Next

\* The contribution that arrives makes a job no one has met.
LEMMA AcceptedJob ==
  ASSUME Inv, TypeInv', NEW p \in Passes, NEW k \in 1 .. MaxHops, Accept(p, k)
  PROVE  \E w \in Workers, job \in Jobs :
           /\ inbox' = [inbox EXCEPT ![w] = Append(@, job)]
           /\ IsAt(w, job)' /\ NotForwarded(job)'
           /\ \A v \in Workers : ~IsAt(v, job)
<1>1. call[p][k] = "sent" /\ call'[p][k] = "accepted" /\ version' = version
  BY DEF Accept, Inv, TypeInv, frontEndVars
<1>2. version[p] > 0 /\ k <= Len(route(p))
  BY <1>1 DEF Inv, CallsInv
<1>3. PICK w \in Workers : w = hop(<<p, k>>).worker
  BY <1>2, Routes DEF Inv, hop
<1>4. PICK job \in Jobs : job = <<p, k>>
  BY DEF Jobs
<1>5. IsAt(w, job)'
  BY <1>1, <1>2, <1>3, <1>4 DEF IsAt, hop, route
<1>6. NotForwarded(job)'
  <2>1. ASSUME k < MaxHops PROVE call[p][k + 1] = "none"
    <3>1. k + 1 \in 1 .. MaxHops /\ k \in 1 .. (k + 1) - 1
      BY <2>1, RouteAssumption
    <3> QED BY <1>1, <3>1 DEF Inv, CallsInv
  <2>2. ASSUME k < MaxHops PROVE call'[p][k + 1] = "none"
    BY <2>1, <2>2, RouteAssumption, SMTT(20) DEF Accept, Inv, TypeInv
  <2> QED BY <1>4, <2>2 DEF NotForwarded
<1>7. \A v \in Workers : ~IsAt(v, job)
  BY <1>1, <1>4 DEF IsAt
<1> QED BY <1>3, <1>4, <1>5, <1>6, <1>7 DEF Accept

LEMMA NextInboxesInv ==
  ASSUME Inv, TypeInv', [Next]_vars
  PROVE  InboxesInv'
<1> SUFFICES ASSUME NEW w \in Workers, NEW n \in DOMAIN inbox'[w]
             PROVE  IsAt(w, inbox[w][n])' /\ NotForwarded(inbox[w][n])'
  BY DEF InboxesInv
<1> PICK job : job = inbox'[w][n]
  OBVIOUS
<1> SUFFICES IsAt(w, job)' /\ NotForwarded(job)'
  BY DEF IsAt, NotForwarded, hop, route
<1>1. ASSUME NEW m \in DOMAIN inbox[w], job = inbox[w][m]
      PROVE  IsAt(w, job)' /\ NotForwarded(job)'
  <2>1. IsAt(w, job) /\ NotForwarded(job)
    BY <1>1 DEF Inv, InboxesInv
  <2>2. IsAt(w, job)'
    BY <2>1, JobsStay
  <2>3. ASSUME NEW l \in Loops, Propagate(w, l), JobOf(w, l) = job PROVE FALSE
    BY <1>1, <2>3 DEF Propagate, At, Busy, Inv, JobsAreHandledOnce
  <2>4. NotForwarded(job)'
    BY <2>1, <2>3, OnlyTheHolderForwards
  <2> QED BY <2>2, <2>4
<1>2. CASE inbox' = inbox
  BY <1>1, <1>2
<1>3. ASSUME NEW p \in Passes, NEW k \in 1 .. MaxHops, Accept(p, k)
      PROVE  IsAt(w, job)' /\ NotForwarded(job)'
  <2>1. PICK v \in Workers, new \in Jobs :
          /\ inbox' = [inbox EXCEPT ![v] = Append(@, new)]
          /\ IsAt(v, new)' /\ NotForwarded(new)'
    BY <1>3, AcceptedJob
  <2>2. CASE w # v
    BY <1>1, <2>1, <2>2 DEF Inv, TypeInv
  <2>3. CASE w = v
    <3>1. inbox[w] \in Seq(Jobs) /\ inbox'[w] = Append(inbox[w], new)
      BY <2>1, <2>3 DEF Inv, TypeInv
    <3>2. CASE n \in DOMAIN inbox[w]
      BY <1>1, <3>1, <3>2
    <3>3. CASE n \notin DOMAIN inbox[w]
      <4>1. job = new
        BY <3>1, <3>3
      <4> QED BY <2>1, <2>3, <4>1
    <3> QED BY <3>2, <3>3
  <2> QED BY <2>2, <2>3
<1>4. ASSUME NEW v \in Workers, NEW l \in Loops, ExtractNext(v, l)
      PROVE  IsAt(w, job)' /\ NotForwarded(job)'
  <2>1. CASE w # v
    BY <1>1, <1>4, <2>1 DEF ExtractNext, Inv, TypeInv
  <2>2. CASE w = v
    <3>1. inbox[w] \in Seq(Jobs) /\ inbox[w] # <<>> /\ inbox'[w] = Tail(inbox[w])
      BY <1>4, <2>2 DEF ExtractNext, Inv, TypeInv
    <3>2. n + 1 \in DOMAIN inbox[w] /\ inbox'[w][n] = inbox[w][n + 1]
      BY <3>1
    <3> QED BY <1>1, <3>2
  <2> QED BY <2>1, <2>2
<1> QED BY <1>2, <1>3, <1>4, JobChanges
        DEF JobsMove, LoopMoves, Enqueue, HandleIngress, ControllerStep, Dequeue,
            ExecutionSucceeds, ExecutionFails

\* Where a loop stands with its job.
Stands(pc, job) ==
  /\ pc \in {"handling", "waiting", "propagating"} => NotForwarded(job)
  /\ pc \in {"waiting", "propagating", "sending"} => job[2] < Len(route(job[1]))

\* LoopsInv of one busy loop.
LEMMA BusyLoops ==
  ASSUME Inv, NEW w \in Workers, NEW l \in Loops, Busy(w, l)
  PROVE  /\ loop[w][l].pc \in {"handling", "waiting", "propagating", "sending", "reporting"}
         /\ JobOf(w, l) \in Jobs
         /\ IsAt(w, JobOf(w, l)) /\ Stands(loop[w][l].pc, JobOf(w, l))
<1>1. loop[w][l] \in {Idle} \cup
        [pc : {"handling", "waiting", "propagating", "sending", "reporting"}, job : Jobs]
  BY DEF Inv, TypeInv
<1>2. loop[w][l] # Idle
  BY DEF Busy, Idle
<1> QED BY <1>1, <1>2 DEF Inv, LoopsInv, Stands, JobOf

\* Hops before the last are those that are no sink.
LEMMA NoSink ==
  ASSUME Inv, NEW w, NEW job, IsAt(w, job), hop(job).kind # "sink"
  PROVE  job[2] < Len(route(job[1]))
<1>1. job[1] \in Passes /\ job[2] \in 1 .. Len(route(job[1])) /\ version[job[1]] > 0
  <2>1. job[1] \in Passes /\ job[2] \in 1 .. MaxHops /\ version[job[1]] > 0
    BY DEF IsAt, Jobs
  <2>2. Len(route(job[1])) \in Nat
    BY <2>1, Routes DEF Inv
  <2> QED BY <2>1, <2>2 DEF IsAt
<1> QED BY <1>1, Routes DEF Inv, hop

\* What became of a loop that is busy after a step: it is where it was, has moved
\* on with its job, or has taken a new one.
StaysWhereItWas(w, l) == loop'[w][l] = loop[w][l] /\ ~Propagate(w, l)

MovesOn(w, l) ==
  /\ Busy(w, l) /\ JobOf(w, l)' = JobOf(w, l)
  /\ \/ loop'[w][l].pc = "reporting"
     \/ /\ loop[w][l].pc = "handling"
        /\ loop'[w][l].pc \in {"waiting", "propagating"}
        /\ hop(JobOf(w, l)).kind # "sink"
        /\ ~Propagate(w, l)
     \/ /\ loop[w][l].pc = "waiting" /\ loop'[w][l].pc = "propagating"
        /\ ~Propagate(w, l)
     \/ loop[w][l].pc = "propagating" /\ loop'[w][l].pc = "sending"

Takes(w, l) ==
  /\ ExtractNext(w, l)
  /\ loop'[w][l] = [pc |-> "handling", job |-> Head(inbox[w])]

LEMMA LoopAfter ==
  ASSUME Inv, TypeInv', [Next]_vars, NEW w \in Workers, NEW l \in Loops, Busy(w, l)'
  PROVE  StaysWhereItWas(w, l) \/ MovesOn(w, l) \/ Takes(w, l)
<1> USE DEF StaysWhereItWas, MovesOn, Takes
<1> DEFINE Goal == StaysWhereItWas(w, l) \/ MovesOn(w, l) \/ Takes(w, l)
<1>1. loop \in [Workers -> [Loops -> {Idle} \cup
        [pc : {"handling", "waiting", "propagating", "sending", "reporting"}, job : Jobs]]]
  BY DEF Inv, TypeInv
<1>2. loop'[w][l].pc # "extracting"
  BY DEF Busy
<1>3. ASSUME loop[w][l].pc # "propagating" PROVE ~Propagate(w, l)
  BY <1>3 DEF Propagate, At
<1>4. ASSUME Propagate(w, l) PROVE loop'[w][l].pc = "sending" /\ loop[w][l].pc = "propagating"
  BY <1>1, <1>4 DEF Propagate, At, LoopGoes, Idle
<1>5. CASE loop'[w][l] = loop[w][l]
  BY <1>4, <1>5
<1>6. ASSUME NEW v \in Workers, NEW m \in Loops, LoopMoves(v, m) PROVE Goal
  <2>1. CASE ~(v = w /\ m = l)
    <3>1. loop'[w][l] = loop[w][l]
      BY <1>1, <1>6, <2>1 DEF LoopMoves, ExtractNext, Enqueue, LoopEnds, LoopGoes,
                              HandleIngress, Propagate
    <3> QED BY <1>5, <3>1
  <2>2. CASE v = w /\ m = l
    <3>1. CASE ExtractNext(w, l)
      BY <1>1, <3>1 DEF ExtractNext
    <3>2. CASE Enqueue(w, l)
      <4>1. loop[w][l].pc = "handling" /\ loop'[w][l] = [loop[w][l] EXCEPT !.pc = "waiting"]
        BY <1>1, <3>2 DEF Enqueue, At, LoopGoes
      <4>2. loop'[w][l].pc = "waiting" /\ loop'[w][l].job = loop[w][l].job
        BY <1>1, <4>1 DEF Idle
      <4> QED BY <1>3, <3>2, <4>1, <4>2 DEF Enqueue, Busy, JobOf
    <3>3. CASE LoopEnds(w, l)
      BY <1>1, <1>2, <3>3 DEF LoopEnds, Idle
    <3>4. CASE LoopGoes(w, l, "reporting") /\ Busy(w, l)
      BY <1>1, <3>4 DEF LoopGoes, JobOf, Idle
    <3>5. CASE HandleIngress(w, l)
      <4>1. loop[w][l].pc = "handling" /\ loop'[w][l] = [loop[w][l] EXCEPT !.pc = "propagating"]
        BY <1>1, <3>5 DEF HandleIngress, At, LoopGoes
      <4>2. loop'[w][l].pc = "propagating" /\ loop'[w][l].job = loop[w][l].job
        BY <1>1, <4>1 DEF Idle
      <4> QED BY <1>3, <3>5, <4>1, <4>2 DEF HandleIngress, Busy, JobOf
    <3>6. CASE Propagate(w, l)
      BY <1>1, <3>6 DEF Propagate, At, LoopGoes, Busy, JobOf, Idle
    <3> QED BY <1>6, <2>2, <3>1, <3>2, <3>3, <3>4, <3>5, <3>6 DEF LoopMoves
  <2> QED BY <2>1, <2>2
<1>7. ASSUME NEW v \in Workers, ExecutionSucceeds(v) PROVE Goal
  <2>1. /\ loop' = [loop EXCEPT ![v][controller[v].loop].pc = "propagating"]
        /\ loop[v][controller[v].loop].pc = "waiting"
    BY <1>7 DEF ExecutionSucceeds, LoopGoes, Inv, RequestsInv, Awaited, At
  <2>2. CASE v = w /\ controller[v].loop = l
    <3>1. loop'[w][l] = [loop[w][l] EXCEPT !.pc = "propagating"]
      BY <1>1, <2>1, <2>2
    <3>2. loop'[w][l].pc = "propagating" /\ loop'[w][l].job = loop[w][l].job
      BY <1>1, <3>1 DEF Idle
    <3> QED BY <1>3, <2>1, <2>2, <3>2 DEF Busy, JobOf
  <2>3. CASE ~(v = w /\ controller[v].loop = l)
    BY <1>1, <1>5, <2>1, <2>3
  <2> QED BY <2>2, <2>3
<1>8. CASE UNCHANGED loop
  BY <1>5, <1>8
<1> QED BY <1>6, <1>7, <1>8, JobChanges
        DEF JobsMove, Accept, ControllerStep, Dequeue, ExecutionFails

LEMMA NextLoopsInv ==
  ASSUME Inv, TypeInv', [Next]_vars
  PROVE  LoopsInv'
<1> SUFFICES ASSUME NEW w \in Workers, NEW l \in Loops, Busy(w, l)'
             PROVE  IsAt(w, JobOf(w, l))' /\ Stands(loop[w][l].pc, JobOf(w, l))'
  BY DEF LoopsInv, Stands
<1> PICK job : job = JobOf(w, l)'
  OBVIOUS
<1> PICK pc : pc = loop'[w][l].pc
  OBVIOUS
<1> SUFFICES IsAt(w, job)' /\ Stands(pc, job)'
  BY DEF IsAt, Stands, NotForwarded, hop, route
<1>1. ASSUME Busy(w, l), job = JobOf(w, l),
             pc \in {"waiting", "propagating", "sending"} => job[2] < Len(route(job[1])),
             pc \in {"handling", "waiting", "propagating"} =>
               NotForwarded(job) /\ ~Propagate(w, l)
      PROVE  IsAt(w, job)' /\ Stands(pc, job)'
  <2>1. IsAt(w, job)
    BY <1>1, BusyLoops
  <2>2. IsAt(w, job)' /\ route(job[1])' = route(job[1])
    BY <2>1, JobsStay
  <2>3. ASSUME pc \in {"handling", "waiting", "propagating"} PROVE NotForwarded(job)'
    <3>1. ASSUME NEW m \in Loops, Propagate(w, m), JobOf(w, m) = job PROVE FALSE
      <4>1. Busy(w, m)
        BY <3>1 DEF Propagate, At, Busy
      <4>2. m = l
        BY <1>1, <3>1, <4>1 DEF Inv, JobsAreHandledOnce
      <4> QED BY <1>1, <2>3, <3>1, <4>2
    <3>2. NotForwarded(job)
      BY <1>1, <2>3
    <3> QED BY <2>1, <3>1, <3>2, OnlyTheHolderForwards
  <2> QED BY <1>1, <2>2, <2>3 DEF Stands
<1>2. CASE loop'[w][l] = loop[w][l] /\ ~Propagate(w, l)
  <2>1. Busy(w, l) /\ job = JobOf(w, l) /\ pc = loop[w][l].pc
    BY <1>2 DEF Busy, JobOf
  <2>2. Stands(pc, job)
    BY <2>1, BusyLoops
  <2> QED BY <1>1, <1>2, <2>1, <2>2 DEF Stands
<1>3. CASE /\ Busy(w, l) /\ JobOf(w, l)' = JobOf(w, l)
           /\ pc = "reporting"
  BY <1>1, <1>3
<1>4. CASE /\ Busy(w, l) /\ JobOf(w, l)' = JobOf(w, l)
           /\ loop[w][l].pc = "handling" /\ pc \in {"waiting", "propagating"}
           /\ hop(JobOf(w, l)).kind # "sink" /\ ~Propagate(w, l)
  <2>1. IsAt(w, job) /\ Stands("handling", job) /\ hop(job).kind # "sink"
    BY <1>4, BusyLoops
  <2>2. job[2] < Len(route(job[1]))
    BY <2>1, NoSink
  <2> QED BY <1>1, <1>4, <2>1, <2>2 DEF Stands
<1>5. CASE /\ Busy(w, l) /\ JobOf(w, l)' = JobOf(w, l)
           /\ loop[w][l].pc = "waiting" /\ pc = "propagating" /\ ~Propagate(w, l)
  <2>1. Stands("waiting", job)
    BY <1>5, BusyLoops
  <2> QED BY <1>1, <1>5, <2>1 DEF Stands
<1>6. CASE /\ Busy(w, l) /\ JobOf(w, l)' = JobOf(w, l)
           /\ loop[w][l].pc = "propagating" /\ pc = "sending"
  <2>1. Stands("propagating", job)
    BY <1>6, BusyLoops
  <2> QED BY <1>1, <1>6, <2>1 DEF Stands
<1>7. CASE ExtractNext(w, l) /\ job = Head(inbox[w]) /\ pc = "handling"
  <2>1. inbox[w] \in Seq(Jobs) /\ inbox[w] # <<>>
    BY <1>7 DEF ExtractNext, Inv, TypeInv
  <2>2. 1 \in DOMAIN inbox[w] /\ job = inbox[w][1]
    BY <1>7, <2>1
  <2>3. IsAt(w, job) /\ NotForwarded(job)
    BY <2>2 DEF Inv, InboxesInv
  <2>4. UNCHANGED <<version, call>>
    BY <1>7 DEF ExtractNext, frontEndVars
  <2> QED BY <1>7, <2>3, <2>4 DEF IsAt, NotForwarded, Stands, hop, route
<1>8. ASSUME loop'[w][l] = [pc |-> "handling", job |-> Head(inbox[w])]
      PROVE  job = Head(inbox[w]) /\ pc = "handling"
  BY <1>8 DEF JobOf
<1> QED BY <1>2, <1>3, <1>4, <1>5, <1>6, <1>7, <1>8, LoopAfter
        DEF StaysWhereItWas, MovesOn, Takes

\* The jobs of a worker, before and after a step in which no loop takes one.
LEMMA SameJobs ==
  ASSUME Inv, TypeInv', [Next]_vars, NEW w \in Workers, NEW l \in Loops,
         Busy(w, l)', ~ExtractNext(w, l)
  PROVE  Busy(w, l) /\ JobOf(w, l)' = JobOf(w, l)
BY LoopAfter DEF StaysWhereItWas, MovesOn, Takes, Busy, JobOf

LEMMA NextJobsAreHandledOnce ==
  ASSUME Inv, TypeInv', [Next]_vars
  PROVE  JobsAreHandledOnce'
<1> DEFINE Once(w) ==
      /\ \A m, n \in DOMAIN inbox'[w] : inbox'[w][m] = inbox'[w][n] => m = n
      /\ \A l \in Loops, n \in DOMAIN inbox'[w] :
           Busy(w, l)' => inbox'[w][n] # JobOf(w, l)'
      /\ \A k, l \in Loops :
           Busy(w, k)' /\ Busy(w, l)' /\ JobOf(w, k)' = JobOf(w, l)' => k = l
<1> SUFFICES ASSUME NEW w \in Workers PROVE Once(w)
  BY DEF JobsAreHandledOnce
<1>1. /\ \A m, n \in DOMAIN inbox[w] : inbox[w][m] = inbox[w][n] => m = n
      /\ \A l \in Loops, n \in DOMAIN inbox[w] :
           Busy(w, l) => inbox[w][n] # JobOf(w, l)
      /\ \A k, l \in Loops :
           Busy(w, k) /\ Busy(w, l) /\ JobOf(w, k) = JobOf(w, l) => k = l
  BY DEF Inv, JobsAreHandledOnce
<1>2. ASSUME NEW v \in Workers, NEW m \in Loops, ExtractNext(v, m) PROVE Once(w)
  <2>1. CASE v # w
    <3>1. inbox'[w] = inbox[w] /\ loop'[w] = loop[w]
      BY <1>2, <2>1 DEF ExtractNext, Inv, TypeInv
    <3> QED BY <1>1, <3>1 DEF Busy, JobOf
  <2>2. CASE v = w
    <3>1. /\ inbox[w] \in Seq(Jobs) /\ inbox[w] # <<>>
          /\ inbox'[w] = Tail(inbox[w])
          /\ loop'[w] = [loop[w] EXCEPT ![m] = [pc |-> "handling", job |-> Head(inbox[w])]]
      BY <1>2, <2>2 DEF ExtractNext, Inv, TypeInv
    <3>2. \A n \in DOMAIN inbox'[w] : n # 0 /\ n + 1 \in DOMAIN inbox[w] /\ n \in Nat
                                      /\ inbox'[w][n] = inbox[w][n + 1]
      BY <3>1
    <3>3. 1 \in DOMAIN inbox[w] /\ inbox[w][1] = Head(inbox[w])
      BY <3>1
    <3>4. JobOf(w, m)' = inbox[w][1] /\ ~Busy(w, m)
      BY <1>2, <2>2, <3>1, <3>3 DEF JobOf, Busy, ExtractNext, At, Inv, TypeInv
    <3>5. \A l \in Loops : l # m => loop'[w][l] = loop[w][l]
      BY <3>1 DEF Inv, TypeInv
    <3>6. \A i, n \in DOMAIN inbox'[w] : inbox'[w][i] = inbox'[w][n] => i = n
      BY <1>1, <3>2
    <3>7. ASSUME NEW l \in Loops, NEW n \in DOMAIN inbox'[w], Busy(w, l)'
          PROVE  inbox'[w][n] # JobOf(w, l)'
      <4>1. CASE l = m
        <5>1. n + 1 # 1 /\ n + 1 \in DOMAIN inbox[w] /\ inbox'[w][n] = inbox[w][n + 1]
          BY <3>2
        <5> QED BY <1>1, <3>3, <3>4, <4>1, <5>1
      <4>2. CASE l # m
        <5>1. Busy(w, l) /\ JobOf(w, l)' = JobOf(w, l)
          BY <3>5, <3>7, <4>2 DEF Busy, JobOf
        <5> QED BY <1>1, <3>2, <5>1
      <4> QED BY <4>1, <4>2
    <3>8. ASSUME NEW k \in Loops, NEW l \in Loops, Busy(w, k)', Busy(w, l)',
                 JobOf(w, k)' = JobOf(w, l)', k # l
          PROVE  FALSE
      <4>1. \A j \in Loops : j # m /\ Busy(w, j)' =>
              Busy(w, j) /\ JobOf(w, j)' = JobOf(w, j) /\ JobOf(w, j) # inbox[w][1]
        BY <1>1, <3>3, <3>5 DEF Busy, JobOf
      <4> QED BY <1>1, <3>4, <3>8, <4>1
    <3> QED BY <3>6, <3>7, <3>8
  <2> QED BY <2>1, <2>2
<1>3. ASSUME \A l \in Loops : ~ExtractNext(w, l)
      PROVE  \A l \in Loops : Busy(w, l)' => Busy(w, l) /\ JobOf(w, l)' = JobOf(w, l)
  BY <1>3, SameJobs
<1>4. ASSUME inbox' = inbox, \A l \in Loops : ~ExtractNext(w, l) PROVE Once(w)
  BY <1>1, <1>3, <1>4
<1>5. ASSUME NEW p \in Passes, NEW k \in 1 .. MaxHops, Accept(p, k) PROVE Once(w)
  <2>1. PICK v \in Workers, new \in Jobs :
          /\ inbox' = [inbox EXCEPT ![v] = Append(@, new)]
          /\ \A u \in Workers : ~IsAt(u, new)
    BY <1>5, AcceptedJob
  <2>2. \A l \in Loops : Busy(w, l)' => Busy(w, l) /\ JobOf(w, l)' = JobOf(w, l)
    BY <1>5 DEF Accept, Busy, JobOf
  <2>3. CASE v # w
    <3>1. inbox'[w] = inbox[w]
      BY <2>1, <2>3 DEF Inv, TypeInv
    <3> QED BY <1>1, <2>2, <3>1
  <2>4. CASE v = w
    <3>1. inbox[w] \in Seq(Jobs) /\ inbox'[w] = Append(inbox[w], new)
      BY <2>1, <2>4 DEF Inv, TypeInv
    <3>2. \A n \in DOMAIN inbox[w] : inbox[w][n] # new
      BY <2>1 DEF Inv, InboxesInv
    <3>3. \A l \in Loops : Busy(w, l) => JobOf(w, l) # new
      BY <2>1, BusyLoops
    <3>4. \A n \in DOMAIN inbox'[w] :
            \/ n \in DOMAIN inbox[w] /\ inbox'[w][n] = inbox[w][n]
            \/ n = Len(inbox[w]) + 1 /\ inbox'[w][n] = new
      BY <3>1
    <3> QED BY <1>1, <2>2, <3>2, <3>3, <3>4
  <2> QED BY <2>3, <2>4
<1>6. CASE \A l \in Loops : ~ExtractNext(w, l)
  BY <1>2, <1>4, <1>5, <1>6, JobChanges
     DEF JobsMove, LoopMoves, Enqueue, HandleIngress, ControllerStep, Dequeue,
         ExecutionSucceeds, ExecutionFails
<1> QED BY <1>2, <1>6

-----------------------------------------------------------------------------
(* Requests and the loops that await them.                                 *)

\* RequestsInv of one worker.
RequestsInvAt(w) ==
  /\ \A n \in DOMAIN waiting[w] : Awaited(w, waiting[w][n])
  /\ \A m, n \in DOMAIN waiting[w] :
       waiting[w][m].loop = waiting[w][n].loop => m = n
  /\ controller[w] # NoRequest =>
       /\ Awaited(w, controller[w])
       /\ \A n \in DOMAIN waiting[w] : waiting[w][n].loop # controller[w].loop

\* Somebody has a request of the loop.
Requested(w, l) ==
  \/ \E n \in DOMAIN waiting[w] : waiting[w][n].loop = l
  \/ controller[w].loop = l

\* A member of Stranded.
Unserved(w, l) == At(w, l, "waiting") /\ ~Requested(w, l)

\* The requests of a worker and its stranded loops, when nothing of it changes
\* and then action by action: only a failing execution strands a loop.
LEMMA OtherWorkersRequests ==
  ASSUME NEW w \in Workers, RequestsInvAt(w),
         waiting'[w] = waiting[w], controller'[w] = controller[w], loop'[w] = loop[w]
  PROVE  RequestsInvAt(w)' /\ \A l \in Loops : Unserved(w, l)' <=> Unserved(w, l)
BY DEF RequestsInvAt, Awaited, At, JobOf, Unserved, Requested

\* A loop nobody has a request of may move, and neither starts nor ends waiting.
LEMMA FreeLoopMoves ==
  ASSUME NEW w \in Workers, NEW l \in Loops, RequestsInvAt(w),
         ~At(w, l, "waiting"), ~At(w, l, "waiting")',
         \A k \in Loops \ {l} : loop'[w][k] = loop[w][k],
         waiting'[w] = waiting[w], controller'[w] = controller[w]
  PROVE  RequestsInvAt(w)' /\ \A k \in Loops : Unserved(w, k)' <=> Unserved(w, k)
<1>1. \A q : Awaited(w, q) => q.loop \in Loops \ {l}
  BY DEF Awaited
<1>2. \A q : Awaited(w, q) => q.loop \in Loops /\ At(w, q.loop, "waiting")'
                             /\ q.job = JobOf(w, q.loop)'
  BY <1>1 DEF Awaited, At, JobOf
<1>3. RequestsInvAt(w)'
  <2>1. \A n \in DOMAIN waiting'[w] : Awaited(w, waiting[w][n])'
    BY <1>2 DEF RequestsInvAt, Awaited, At, JobOf
  <2>2. controller'[w] # NoRequest => Awaited(w, controller[w])'
    BY <1>2 DEF RequestsInvAt, Awaited, At, JobOf
  <2> QED BY <2>1, <2>2 DEF RequestsInvAt
<1>4. \A k \in Loops : Unserved(w, k)' <=> Unserved(w, k)
  BY DEF Unserved, Requested, At
<1> QED BY <1>3, <1>4

LEMMA EnqueueRequests ==
  ASSUME TypeInv, NEW w \in Workers, NEW l \in Loops, RequestsInvAt(w), Enqueue(w, l)
  PROVE  RequestsInvAt(w)' /\ \A k \in Loops : Unserved(w, k)' <=> Unserved(w, k)
<1> DEFINE new == [job |-> JobOf(w, l), loop |-> l]
<1>1. /\ waiting[w] \in Seq(Requests) /\ waiting'[w] = Append(waiting[w], new)
      /\ controller'[w] = controller[w]
      /\ loop[w][l].pc = "handling"
      /\ loop' = [loop EXCEPT ![w][l].pc = "waiting"]
  BY DEF Enqueue, TypeInv, At, LoopGoes
<1>2. loop \in [Workers -> [Loops -> {Idle} \cup
        [pc : {"handling", "waiting", "propagating", "sending", "reporting"}, job : Jobs]]]
  BY DEF TypeInv
<1>3. /\ \A k \in Loops \ {l} : loop'[w][k] = loop[w][k]
      /\ loop'[w][l] = [loop[w][l] EXCEPT !.pc = "waiting"]
  BY <1>1, <1>2
<1>4. loop'[w][l].pc = "waiting" /\ loop'[w][l].job = loop[w][l].job
  BY <1>1, <1>2, <1>3 DEF Idle
<1>5. /\ DOMAIN waiting'[w] = DOMAIN waiting[w] \cup {Len(waiting[w]) + 1}
      /\ Len(waiting[w]) + 1 \notin DOMAIN waiting[w]
      /\ \A n \in DOMAIN waiting[w] : waiting'[w][n] = waiting[w][n]
      /\ waiting'[w][Len(waiting[w]) + 1] = new
  BY <1>1
<1> HIDE DEF new
<1>6. new.loop = l /\ new.job = JobOf(w, l)
  BY DEF new
<1>7. \A q : Awaited(w, q) => q.loop \in Loops \ {l}
  BY <1>1 DEF Awaited, At
<1>8. \A q : Awaited(w, q) => /\ q.loop \in Loops /\ loop'[w][q.loop].pc = "waiting"
                              /\ q.job = loop'[w][q.loop].job
  BY <1>3, <1>7 DEF Awaited, At, JobOf
<1>9. RequestsInvAt(w)'
  <2>1. \A n \in DOMAIN waiting'[w] :
          LET q == waiting'[w][n] IN /\ q.loop \in Loops
                                     /\ loop'[w][q.loop].pc = "waiting"
                                     /\ q.job = loop'[w][q.loop].job
    BY <1>4, <1>5, <1>6, <1>8 DEF RequestsInvAt, JobOf
  <2>2. \A n \in DOMAIN waiting[w] : waiting[w][n].loop # l
    BY <1>7 DEF RequestsInvAt
  <2>3. \A m, n \in DOMAIN waiting'[w] :
          waiting'[w][m].loop = waiting'[w][n].loop => m = n
    BY <1>5, <1>6, <2>2 DEF RequestsInvAt
  <2>4. controller'[w] # NoRequest =>
          /\ controller[w].loop \in Loops
          /\ loop'[w][controller[w].loop].pc = "waiting"
          /\ controller[w].job = loop'[w][controller[w].loop].job
          /\ controller[w].loop # l
    BY <1>1, <1>7, <1>8 DEF RequestsInvAt
  <2>5. controller'[w] # NoRequest =>
          \A n \in DOMAIN waiting'[w] : waiting'[w][n].loop # controller'[w].loop
    BY <1>1, <1>5, <1>6, <2>4 DEF RequestsInvAt
  <2> QED BY <1>1, <2>1, <2>3, <2>4, <2>5 DEF RequestsInvAt, Awaited, At, JobOf
<1>10. ~Unserved(w, l)' /\ ~Unserved(w, l)
  BY <1>1, <1>5, <1>6 DEF Unserved, Requested, At
<1>11. ASSUME NEW k \in Loops \ {l} PROVE Unserved(w, k)' <=> Unserved(w, k)
  BY <1>1, <1>3, <1>5, <1>6 DEF Unserved, Requested, At
<1> QED BY <1>9, <1>10, <1>11

LEMMA DequeueRequests ==
  ASSUME Inv, NEW w \in Workers, RequestsInvAt(w), Dequeue(w)
  PROVE  RequestsInvAt(w)' /\ \A k \in Loops : Unserved(w, k)' <=> Unserved(w, k)
<1>1. PICK n \in DOMAIN waiting[w] : n = next_request(w)
  BY NextRequest DEF Dequeue
<1>2. /\ waiting[w] \in Seq(Requests) /\ loop' = loop
      /\ n \in 1 .. Len(waiting[w])
      /\ controller[w] = NoRequest
      /\ controller'[w] = waiting[w][n]
      /\ waiting'[w] = without(waiting[w], n)
  BY <1>1 DEF Dequeue, Inv, TypeInv
<1>3. /\ DOMAIN waiting'[w] = 1 .. Len(waiting[w]) - 1
      /\ \A i \in 1 .. Len(waiting[w]) - 1 :
           waiting'[w][i] = waiting[w][IF i < n THEN i ELSE i + 1]
  <2>1. /\ without(waiting[w], n) \in Seq(Requests)
        /\ Len(without(waiting[w], n)) = Len(waiting[w]) - 1
        /\ \A i \in 1 .. Len(waiting[w]) - 1 :
             without(waiting[w], n)[i] = waiting[w][IF i < n THEN i ELSE i + 1]
    BY <1>2, WithoutOne
  <2>2. /\ waiting'[w] \in Seq(Requests)
        /\ Len(waiting'[w]) = Len(waiting[w]) - 1
    BY <1>2, <2>1
  <2>3. DOMAIN waiting'[w] = 1 .. Len(waiting'[w])
    BY <2>2
  <2> QED BY <1>2, <2>1, <2>2, <2>3
<1>4. ASSUME NEW i \in DOMAIN waiting'[w]
      PROVE  \E j \in DOMAIN waiting[w] : /\ j # n /\ waiting'[w][i] = waiting[w][j]
                                          /\ j = IF i < n THEN i ELSE i + 1
  <2>1. (IF i < n THEN i ELSE i + 1) \in DOMAIN waiting[w]
        /\ (IF i < n THEN i ELSE i + 1) # n
    BY <1>2, <1>3
  <2> QED BY <1>3, <2>1
<1>5. ASSUME NEW j \in DOMAIN waiting[w], j # n
      PROVE  \E i \in DOMAIN waiting'[w] : waiting'[w][i] = waiting[w][j]
  <2> DEFINE i == IF j < n THEN j ELSE j - 1
  <2>1. i \in 1 .. Len(waiting[w]) - 1 /\ (IF i < n THEN i ELSE i + 1) = j
    BY <1>2, <1>5
  <2> QED BY <1>3, <2>1
<1>6. RequestsInvAt(w)'
  <2>1. \A i \in DOMAIN waiting'[w] : Awaited(w, waiting'[w][i])
    BY <1>4 DEF RequestsInvAt
  <2>2. \A i, k \in DOMAIN waiting'[w] :
          waiting'[w][i].loop = waiting'[w][k].loop => i = k
    <3> SUFFICES ASSUME NEW i \in DOMAIN waiting'[w], NEW k \in DOMAIN waiting'[w],
                        waiting'[w][i].loop = waiting'[w][k].loop
                 PROVE  i = k
      OBVIOUS
    <3>1. (IF i < n THEN i ELSE i + 1) = (IF k < n THEN k ELSE k + 1)
      BY <1>4 DEF RequestsInvAt
    <3>2. i \in Nat /\ k \in Nat /\ n \in Nat
      BY <1>2, <1>3
    <3> QED BY <3>1, <3>2
  <2>3. Awaited(w, controller'[w])
    BY <1>2 DEF RequestsInvAt
  <2>4. \A i \in DOMAIN waiting'[w] : waiting'[w][i].loop # controller'[w].loop
    BY <1>2, <1>4 DEF RequestsInvAt
  <2> QED BY <1>2, <2>1, <2>2, <2>3, <2>4 DEF RequestsInvAt, Awaited, At, JobOf
<1>7. ASSUME NEW k \in Loops PROVE Unserved(w, k)' <=> Unserved(w, k)
  <2>1. controller[w].loop # k
    BY <1>2, RouteAssumption DEF NoRequest
  <2> QED BY <1>2, <1>4, <1>5, <2>1 DEF Unserved, Requested, At
<1> QED BY <1>6, <1>7

LEMMA ResolvedRequest ==
  ASSUME Inv, NEW w \in Workers, RequestsInvAt(w), ExecutionSucceeds(w)
  PROVE  RequestsInvAt(w)' /\ \A k \in Loops : Unserved(w, k)' <=> Unserved(w, k)
<1>1. PICK l \in Loops : l = controller[w].loop
  BY DEF ExecutionSucceeds, RequestsInvAt, Awaited
<1>2. /\ waiting' = waiting /\ controller'[w] = NoRequest
      /\ At(w, l, "waiting")
      /\ loop' = [loop EXCEPT ![w][l].pc = "propagating"]
      /\ \A n \in DOMAIN waiting[w] : waiting[w][n].loop # l
  BY <1>1 DEF ExecutionSucceeds, LoopGoes, RequestsInvAt, Awaited, Inv, TypeInv
<1>3. loop \in [Workers -> [Loops -> {Idle} \cup
        [pc : {"handling", "waiting", "propagating", "sending", "reporting"}, job : Jobs]]]
  BY DEF Inv, TypeInv
<1>4. /\ \A k \in Loops \ {l} : loop'[w][k] = loop[w][k]
      /\ loop'[w][l] = [loop[w][l] EXCEPT !.pc = "propagating"]
  BY <1>2, <1>3
<1>5. loop'[w][l].pc = "propagating"
  BY <1>3, <1>4 DEF Idle
<1>6. \A n \in DOMAIN waiting[w] : Awaited(w, waiting[w][n])'
  BY <1>2, <1>4 DEF RequestsInvAt, Awaited, At, JobOf
<1>7. RequestsInvAt(w)'
  BY <1>2, <1>6 DEF RequestsInvAt
<1>8. \A k \in Loops : Unserved(w, k)' <=> Unserved(w, k)
  <2>1. ~Unserved(w, l) /\ ~Unserved(w, l)'
    BY <1>1, <1>5 DEF Unserved, Requested, At
  <2>2. \A k \in Loops \ {l} : controller[w].loop # k /\ controller'[w].loop # k
    BY <1>1, <1>2, RouteAssumption DEF NoRequest
  <2> QED BY <1>2, <1>4, <2>1, <2>2 DEF Unserved, Requested, At
<1> QED BY <1>7, <1>8

LEMMA LostRequest ==
  ASSUME Inv, NEW w \in Workers, RequestsInvAt(w), ExecutionFails(w)
  PROVE  /\ RequestsInvAt(w)'
         /\ \E l \in Loops :
              /\ ~Unserved(w, l)
              /\ \A k \in Loops : Unserved(w, k)' <=> Unserved(w, k) \/ k = l
<1>1. PICK l \in Loops : l = controller[w].loop
  BY DEF ExecutionFails, RequestsInvAt, Awaited
<1>2. /\ waiting' = waiting /\ controller'[w] = NoRequest /\ loop' = loop
      /\ At(w, l, "waiting")
      /\ \A n \in DOMAIN waiting[w] : waiting[w][n].loop # l
  BY <1>1 DEF ExecutionFails, RequestsInvAt, Awaited, Inv, TypeInv
<1>3. RequestsInvAt(w)'
  BY <1>2 DEF RequestsInvAt, Awaited, At, JobOf
<1>4. ~Unserved(w, l)
  BY <1>1 DEF Unserved, Requested
<1>5. \A k \in Loops : controller'[w].loop # k
  BY <1>2, RouteAssumption DEF NoRequest
<1>6. \A k \in Loops : Unserved(w, k)' <=> Unserved(w, k) \/ k = l
  BY <1>1, <1>2, <1>5 DEF Unserved, Requested, At
<1> QED BY <1>3, <1>4, <1>6

\* Of all the steps only a failing execution strands a loop, one; none is rescued.
LEMMA NextRequests ==
  ASSUME Inv, [Next]_vars
  PROVE  /\ RequestsInv'
         /\ \/ /\ failures' = failures
               /\ \A w \in Workers, l \in Loops : Unserved(w, l)' <=> Unserved(w, l)
            \/ /\ failures' = failures + 1
               /\ \E v \in Workers, m \in Loops :
                    /\ ~Unserved(v, m)
                    /\ \A w \in Workers, l \in Loops :
                         Unserved(w, l)' <=> Unserved(w, l) \/ (w = v /\ l = m)
<1> DEFINE Same(w) == RequestsInvAt(w)' /\ \A l \in Loops : Unserved(w, l)' <=> Unserved(w, l)
<1>1. RequestsInv <=> \A w \in Workers : RequestsInvAt(w)
  BY DEF RequestsInv, RequestsInvAt
<1>2. \A w \in Workers : RequestsInvAt(w)
  BY <1>1 DEF Inv
<1>3. RequestsInv' <=> \A w \in Workers : RequestsInvAt(w)'
  BY DEF RequestsInv, RequestsInvAt
<1>4. ASSUME failures' = failures, \A w \in Workers : Same(w)
      PROVE  /\ RequestsInv' /\ failures' = failures
             /\ \A w \in Workers, l \in Loops : Unserved(w, l)' <=> Unserved(w, l)
  BY <1>3, <1>4
<1>5. CASE UNCHANGED <<loop, waiting, controller, failures>>
  <2>1. \A w \in Workers : Same(w)
    BY <1>2, <1>5, OtherWorkersRequests
  <2> QED BY <1>4, <1>5, <2>1
<1>6. ASSUME NEW v \in Workers, Same(v), failures' = failures,
             \A w \in Workers \ {v} : /\ waiting'[w] = waiting[w]
                                      /\ controller'[w] = controller[w]
                                      /\ loop'[w] = loop[w]
      PROVE  /\ RequestsInv' /\ failures' = failures
             /\ \A w \in Workers, l \in Loops : Unserved(w, l)' <=> Unserved(w, l)
  <2>1. \A w \in Workers \ {v} : Same(w)
    BY <1>2, <1>6, OtherWorkersRequests
  <2> QED BY <1>4, <1>6, <2>1
<1>7. ASSUME NEW v \in Workers, NEW m \in Loops, LoopStep(v, m)
      PROVE  /\ RequestsInv' /\ failures' = failures
             /\ \A w \in Workers, l \in Loops : Unserved(w, l)' <=> Unserved(w, l)
  <2>1. failures' = failures
    BY <1>7 DEF LoopStep, ExtractNext, HandleIngress, Enqueue, HandleSink,
                HandleSinkDuplicate, Propagate, SendAcknowledged, PipelineFails,
                ReportFailure
  <2>2. LoopMoves(v, m)
    BY <1>7, LoopSteps
  <2>3. loop \in [Workers -> [Loops -> {Idle} \cup
          [pc : {"handling", "waiting", "propagating", "sending", "reporting"}, job : Jobs]]]
    BY DEF Inv, TypeInv
  <2>4. CASE Enqueue(v, m)
    <3>1. \A w \in Workers \ {v} : /\ waiting'[w] = waiting[w]
                                   /\ controller'[w] = controller[w]
                                   /\ loop'[w] = loop[w]
      BY <2>3, <2>4 DEF Enqueue, LoopGoes, Inv, TypeInv
    <3>2. Same(v)
      BY <1>2, <2>4, EnqueueRequests DEF Inv
    <3> QED BY <1>6, <2>1, <3>1, <3>2
  <2>5. CASE ~Enqueue(v, m)
    <3>1. waiting' = waiting /\ controller' = controller
      BY <2>2, <2>5 DEF LoopMoves, ExtractNext
    <3>2. \E x : loop' = [loop EXCEPT ![v][m] = x] /\ x.pc # "waiting"
      <4>1. ASSUME NEW pc, LoopGoes(v, m, pc), pc # "waiting"
            PROVE  \E x : loop' = [loop EXCEPT ![v][m] = x] /\ x.pc # "waiting"
        <5> DEFINE x == [loop[v][m] EXCEPT !.pc = pc]
        <5>1. x.pc = pc
          BY <2>3 DEF Idle
        <5>2. loop' = [loop EXCEPT ![v][m] = x]
          BY <4>1 DEF LoopGoes
        <5> QED BY <4>1, <5>1, <5>2
      <4>2. CASE LoopEnds(v, m)
        <5>1. Idle.pc # "waiting"
          BY DEF Idle
        <5> QED BY <4>2, <5>1 DEF LoopEnds
      <4>3. CASE ExtractNext(v, m)
        <5> DEFINE x == [pc |-> "handling", job |-> Head(inbox[v])]
        <5>1. x.pc # "waiting" /\ loop' = [loop EXCEPT ![v][m] = x]
          BY <4>3 DEF ExtractNext
        <5> QED BY <5>1
      <4> QED BY <2>2, <2>5, <4>1, <4>2, <4>3 DEF LoopMoves, HandleIngress, Propagate
    <3>3. PICK x : loop' = [loop EXCEPT ![v][m] = x] /\ x.pc # "waiting"
      BY <3>2
    <3>4. ~At(v, m, "waiting")
      BY <2>2, <2>5 DEF LoopMoves, ExtractNext, At
    <3>5. ~At(v, m, "waiting")'
      BY <2>3, <3>3 DEF At
    <3>6. \A k \in Loops \ {m} : loop'[v][k] = loop[v][k]
      BY <2>3, <3>3
    <3>7. Same(v)
      BY <1>2, <3>1, <3>4, <3>5, <3>6, FreeLoopMoves
    <3>8. \A w \in Workers \ {v} : loop'[w] = loop[w]
      BY <2>3, <3>3
    <3> QED BY <1>6, <2>1, <3>1, <3>7, <3>8
  <2> QED BY <2>4, <2>5
<1>8. ASSUME NEW v \in Workers, Dequeue(v)
      PROVE  /\ RequestsInv' /\ failures' = failures
             /\ \A w \in Workers, l \in Loops : Unserved(w, l)' <=> Unserved(w, l)
  <2>1. Same(v)
    BY <1>2, <1>8, DequeueRequests
  <2> QED BY <1>6, <1>8, <2>1 DEF Dequeue, Inv, TypeInv
<1>9. ASSUME NEW v \in Workers, ExecutionSucceeds(v)
      PROVE  /\ RequestsInv' /\ failures' = failures
             /\ \A w \in Workers, l \in Loops : Unserved(w, l)' <=> Unserved(w, l)
  <2>1. Same(v)
    BY <1>2, <1>9, ResolvedRequest
  <2> QED BY <1>6, <1>9, <2>1 DEF ExecutionSucceeds, LoopGoes, Inv, TypeInv
<1>10. ASSUME NEW v \in Workers, ExecutionFails(v)
       PROVE  /\ RequestsInv' /\ failures' = failures + 1
              /\ \E u \in Workers, m \in Loops :
                   /\ ~Unserved(u, m)
                   /\ \A w \in Workers, l \in Loops :
                        Unserved(w, l)' <=> Unserved(w, l) \/ (w = u /\ l = m)
  <2>1. PICK m \in Loops :
          /\ ~Unserved(v, m)
          /\ \A k \in Loops : Unserved(v, k)' <=> Unserved(v, k) \/ k = m
    BY <1>2, <1>10, LostRequest
  <2>2. RequestsInvAt(v)'
    BY <1>2, <1>10, LostRequest
  <2>3. \A w \in Workers \ {v} : Same(w)
    BY <1>2, <1>10, OtherWorkersRequests DEF ExecutionFails, Inv, TypeInv
  <2>4. \A w \in Workers, l \in Loops :
          Unserved(w, l)' <=> Unserved(w, l) \/ (w = v /\ l = m)
    BY <2>1, <2>3
  <2> QED BY <1>3, <1>10, <2>1, <2>2, <2>3, <2>4 DEF ExecutionFails
<1>11. ASSUME NEW f \in Flows, NEW v \in 1 .. MaxVersion, Publish(f, v) PROVE UNCHANGED <<loop, waiting, controller, failures>>
  BY <1>11 DEF Publish, workerVars
<1>12. ASSUME NEW p \in Passes, RunnerStep(p)
       PROVE  UNCHANGED <<loop, waiting, controller, failures>>
  BY <1>12 DEF RunnerStep, GetContract, CheckVersion, SubmitModelPass, RunnerFails,
               RetrieveResult, ReceiveOutcome, workerVars
<1>13. ASSUME NEW p \in Passes, ExtractOutcome(p)
       PROVE  UNCHANGED <<loop, waiting, controller, failures>>
  BY <1>13 DEF ExtractOutcome, workerVars
<1>14. ASSUME NEW p \in Passes, NEW k \in 1 .. MaxHops, Accept(p, k)
       PROVE  UNCHANGED <<loop, waiting, controller, failures>>
  BY <1>14 DEF Accept
<1>15. CASE UNCHANGED vars
  BY <1>5, <1>15 DEF vars, workerVars
<1> QED BY <1>5, <1>7, <1>8, <1>9, <1>10, <1>11, <1>12, <1>13, <1>14, <1>15
        DEF Next, ControllerStep

-----------------------------------------------------------------------------
(* The invariant.                                                          *)

LEMMA InitInv ==
  ASSUME Init
  PROVE  Inv
<1> USE DEF Init
<1>1. \A w \in Workers : /\ inbox[w] = <<>> /\ waiting[w] = <<>>
                         /\ controller[w] = NoRequest
                         /\ \A l \in Loops : loop[w][l].pc = "extracting"
  BY DEF Idle
<1>2. TypeInv
  <2>1. MaxVersion \in Nat \ {0} /\ MaxFailures \in Nat
    BY RouteAssumption
  <2> QED BY <2>1 DEF TypeInv
<1>3. RunnersInv
  <2>1. ASSUME NEW p \in Passes PROVE call[p][1] = "none"
    <3>1. 1 \in 1 .. MaxHops
      <4>1. FlowOf[p] \in Flows /\ 1 \in 1 .. MaxVersion
        BY RouteAssumption
      <4>2. Len(Route[FlowOf[p]][1]) \in 2 .. MaxHops /\ MaxHops \in Nat
        BY <4>1, RouteAssumption
      <4> QED BY <4>2
    <3> QED BY <3>1
  <2> QED BY <2>1 DEF RunnersInv
<1>4. CallsInv
  BY DEF CallsInv
<1>5. InboxesInv /\ LoopsInv /\ JobsAreHandledOnce
  BY <1>1 DEF InboxesInv, LoopsInv, JobsAreHandledOnce, Busy
<1>6. RequestsInv
  BY <1>1 DEF RequestsInv
<1> QED BY <1>2, <1>3, <1>4, <1>5, <1>6 DEF Inv

LEMMA NextInv ==
  ASSUME Inv, [Next]_vars
  PROVE  Inv'
<1>1. TypeInv'
  BY NextTypeInv
<1> QED BY <1>1, NextRunnersInv, NextCallsInv, NextInboxesInv, NextLoopsInv,
           NextJobsAreHandledOnce, NextRequests DEF Inv

LEMMA Invariance == Spec => []Inv
BY InitInv, NextInv, PTL DEF Spec

\* Requests of one worker are of different loops, so there are no more of them.
LEMMA QueueLength ==
  ASSUME Inv, NEW w \in Workers
  PROVE  Len(waiting[w]) <= Cardinality(Loops)
<1> DEFINE f == [n \in 1 .. Len(waiting[w]) |-> waiting[w][n].loop]
<1>1. waiting[w] \in Seq(Requests)
  BY DEF Inv, TypeInv
<1>2. Len(waiting[w]) \in Nat
  BY <1>1
<1>3. f \in Injection(1 .. Len(waiting[w]), Loops)
  BY <1>1 DEF Injection, IsInjective, Inv, RequestsInv, Awaited
<1>4. Cardinality(1 .. Len(waiting[w])) <= Cardinality(Loops)
  BY <1>3, FS_Injection, RouteAssumption
<1>5. Cardinality(1 .. Len(waiting[w])) = Len(waiting[w])
  BY <1>2, FS_Interval
<1> QED BY <1>4, <1>5

\* Every variable keeps its type, and the queue of a worker stays as short as its
\* coordination loops are few.
THEOREM TypeCorrect == Spec => []TypeOK
<1>1. Inv => TypeOK
  BY QueueLength DEF Inv, TypeInv, TypeOK
<1> QED BY <1>1, Invariance, PTL

\* Failed executions are all that strands loops.
StrandedInv == Cardinality(Stranded) = failures

LEMMA StrandedIsUnserved ==
  ASSUME Inv
  PROVE  /\ Stranded = {wl \in Workers \X Loops : Unserved(wl[1], wl[2])}
         /\ IsFiniteSet(Stranded)
<1>1. ASSUME NEW w \in Workers, NEW l \in Loops
      PROVE  RequestsOf(w, l) = {} <=> ~Requested(w, l)
  BY DEF RequestsOf, Requested
<1>2. Stranded = {wl \in Workers \X Loops : Unserved(wl[1], wl[2])}
  BY <1>1 DEF Stranded, Unserved
<1>3. IsFiniteSet(Workers \X Loops)
  BY FS_Product, RouteAssumption
<1> QED BY <1>2, <1>3, FS_Subset

LEMMA NextStrandedInv ==
  ASSUME Inv, Inv', StrandedInv, [Next]_vars
  PROVE  StrandedInv'
<1>1. /\ Stranded = {wl \in Workers \X Loops : Unserved(wl[1], wl[2])}
      /\ IsFiniteSet(Stranded)
  BY StrandedIsUnserved
<1>2. Stranded' = {wl \in Workers \X Loops : Unserved(wl[1], wl[2])'}
  <2>1. ASSUME NEW w \in Workers, NEW l \in Loops
        PROVE  RequestsOf(w, l)' = {} <=> ~Requested(w, l)'
    BY DEF RequestsOf, Requested
  <2> QED BY <2>1 DEF Stranded, Unserved
<1>3. CASE /\ failures' = failures
           /\ \A w \in Workers, l \in Loops : Unserved(w, l)' <=> Unserved(w, l)
  <2>1. Stranded' = Stranded
    BY <1>1, <1>2, <1>3
  <2> QED BY <1>3, <2>1 DEF StrandedInv
<1>4. ASSUME failures' = failures + 1, NEW v \in Workers, NEW m \in Loops,
             ~Unserved(v, m),
             \A w \in Workers, l \in Loops :
               Unserved(w, l)' <=> Unserved(w, l) \/ (w = v /\ l = m)
      PROVE  StrandedInv'
  <2>1. Stranded' = Stranded \cup {<<v, m>>}
    BY <1>1, <1>2, <1>4
  <2>2. <<v, m>> \notin Stranded
    BY <1>1, <1>4
  <2>3. Cardinality(Stranded \cup {<<v, m>>}) = Cardinality(Stranded) + 1
    BY <1>1, <2>2, FS_AddElement
  <2> QED BY <1>4, <2>1, <2>3 DEF StrandedInv
<1> QED BY <1>3, <1>4, NextRequests

\* A coordination loop that awaits the future of a request has that request, and
\* it alone, queued or under execution; those whose request an execution that
\* failed took with it are as many as executions failed.
THEOREM WaitingLoopsAreServedHolds == Spec => []WaitingLoopsAreServed
<1>1. Init => StrandedInv
  <2> SUFFICES ASSUME Init PROVE StrandedInv
    OBVIOUS
  <2>1. \A w \in Workers, l \in Loops : ~Unserved(w, l)
    BY DEF Init, Idle, Unserved, At
  <2>2. Stranded = {}
    BY <2>1, InitInv, StrandedIsUnserved
  <2> QED BY <2>2, FS_EmptySet DEF StrandedInv, Init
<1>2. Inv /\ Inv' /\ StrandedInv /\ [Next]_vars => StrandedInv'
  BY NextStrandedInv
<1>3. Inv /\ StrandedInv => WaitingLoopsAreServed
  <2> SUFFICES ASSUME Inv, StrandedInv,
                      NEW w \in Workers, NEW l \in Loops
               PROVE  /\ RequestsOf(w, l) # {} => At(w, l, "waiting")
                      /\ \A m, n \in RequestsOf(w, l) : m = n
                      /\ \A n \in RequestsOf(w, l) : IsFor(w, l, n)
    BY DEF WaitingLoopsAreServed, StrandedInv
  <2>1. \A n \in RequestsOf(w, l) :
          \/ n = 0 /\ controller[w].loop = l /\ controller[w] # NoRequest
          \/ n # 0 /\ n \in DOMAIN waiting[w] /\ waiting[w][n].loop = l
    <3>1. waiting[w] \in Seq(Requests)
      BY DEF Inv, TypeInv
    <3>2. 0 \notin DOMAIN waiting[w]
      BY <3>1
    <3> QED BY <3>2, RouteAssumption DEF RequestsOf, NoRequest
  <2> QED BY <2>1 DEF Inv, RequestsInv, Awaited, IsFor
<1> QED BY <1>1, <1>2, <1>3, Invariance, PTL DEF Spec

\* The controller takes no request while one of a lower plan version waits.
THEOREM OlderPlansGoFirstHolds == Spec => OlderPlansGoFirst
<1> DEFINE Act == \A w \in Workers :
      controller'[w] \notin {controller[w], NoRequest} =>
        \A n \in DOMAIN waiting[w] :
          version[controller'[w].job[1]] <= version[waiting[w][n].job[1]]
<1>1. ASSUME Inv, [Next]_vars PROVE Act
  <2> SUFFICES ASSUME NEW w \in Workers,
                      controller'[w] \notin {controller[w], NoRequest},
                      NEW n \in DOMAIN waiting[w]
               PROVE  version[controller'[w].job[1]] <= version[waiting[w][n].job[1]]
    OBVIOUS
  <2>1. ASSUME NEW v \in Workers, ControllerStep(v) PROVE Dequeue(w)
    <3>1. controller \in [Workers -> {NoRequest} \cup Requests]
      BY <1>1 DEF Inv, TypeInv
    <3>2. \E x : controller' = [controller EXCEPT ![v] = x] /\ (x = NoRequest \/ Dequeue(v))
      BY <2>1 DEF ControllerStep, Dequeue, ExecutionSucceeds, ExecutionFails
    <3> QED BY <3>1, <3>2
  <2>2. Dequeue(w)
    BY <2>1, <1>1, JobChanges
       DEF JobsMove, Accept, LoopMoves, ExtractNext, Enqueue, HandleIngress, Propagate
  <2>3. PICK i \in DOMAIN waiting[w] : i = next_request(w)
    BY <1>1, <2>2, NextRequest DEF Dequeue
  <2>4. controller'[w] = waiting[w][i]
    BY <1>1, <2>2, <2>3 DEF Dequeue, Inv, TypeInv
  <2>5. ~precedes(waiting[w][n], waiting[w][i])
    BY <1>1, <2>2, <2>3, NextRequest DEF Dequeue
  <2>6. version[waiting[w][n].job[1]] \in Nat /\ version[waiting[w][i].job[1]] \in Nat
    BY <1>1, WaitingRequests
  <2> QED BY <2>4, <2>5, <2>6 DEF precedes
<1> HIDE DEF Act
<1>2. Inv /\ [Next]_vars => Act
  BY <1>1
<1>3. Spec => [][Act]_vars
  BY <1>2, Invariance, PTL DEF Spec
<1> QED BY <1>3 DEF Act, OlderPlansGoFirst

-----------------------------------------------------------------------------
(* The refinement of ModelPass.                                            *)

\* The refinement mapping: the hops of p's route, those reached, what the front end
\* was given and what it answered.
Length(p) == IF version[p] = 0 THEN 0 ELSE Len(route(p))
Reached(p) == {k \in 1 .. MaxHops : call[p][k] = "accepted"}
Delivered(p) == IF retrieval[p] \in {"result", "error"} THEN retrieval[p] ELSE "nothing"
Answered(p) == IF runner[p] \in {"returned", "failed"} THEN runner[p] ELSE "none"

\* The hops reached are hops of the route.
LEMMA ReachedHops ==
  ASSUME Inv, NEW p \in Passes
  PROVE  /\ IsFiniteSet(Reached(p)) /\ Cardinality(Reached(p)) \in Nat
         /\ Reached(p) \subseteq 1 .. Length(p)
         /\ Length(p) \in Nat
         /\ version[p] > 0 => Length(p) = Len(route(p)) /\ Length(p) > 0
         /\ \A k \in 1 .. Length(p) : k \in 1 .. MaxHops
<1>1. Reached(p) \subseteq 1 .. MaxHops
  BY DEF Reached
<1>2. MaxHops \in Nat /\ version[p] \in Nat
  BY RouteAssumption DEF Inv, TypeInv
<1>3. IsFiniteSet(1 .. MaxHops)
  BY <1>2, FS_Interval
<1>4. IsFiniteSet(Reached(p)) /\ Cardinality(Reached(p)) \in Nat
  BY <1>1, <1>3, FS_Subset, FS_CardinalityType
<1>5. version[p] > 0 => Len(route(p)) \in 2 .. MaxHops
  BY Routes DEF Inv
<1>6. \A k \in Reached(p) : version[p] > 0 /\ k <= Len(route(p))
  BY DEF Reached, Inv, CallsInv
<1> QED BY <1>1, <1>2, <1>4, <1>5, <1>6 DEF Length

\* What no step of the client's view touches stays.
LEMMA Invisible ==
  ASSUME \A p \in Passes : /\ Length(p)' = Length(p)
                           /\ Reached(p)' = Reached(p)
                           /\ Delivered(p)' = Delivered(p)
                           /\ Answered(p)' = Answered(p),
         outcome' = outcome
  PROVE  UNCHANGED ClientView!vars
BY DEF ClientView!vars, Length, Reached, Delivered, Answered

LEMMA InitView ==
  ASSUME Init
  PROVE  ClientView!Init
<1>1. \A p \in Passes : Reached(p) = {} /\ Length(p) = 0
                        /\ Delivered(p) = "nothing" /\ Answered(p) = "none"
  BY DEF Init, Reached, Length, Delivered, Answered
<1>2. \A p \in Passes : Cardinality(Reached(p)) = 0
  BY <1>1, FS_EmptySet
<1> QED BY <1>1, <1>2 DEF Init, ClientView!Init, Reached, Length, Delivered, Answered

LEMMA GetContractBegins ==
  ASSUME Inv, TypeInv', NEW p \in Passes, GetContract(p)
  PROVE  ClientView!Begin(p)
<1>1. version[p] = 0 /\ runner[p] = "idle"
  BY DEF GetContract, Inv, RunnersInv
<1>2. FlowOf[p] \in Flows
  BY RouteAssumption
<1>3. /\ version' = [version EXCEPT ![p] = active_version[FlowOf[p]]]
      /\ active_version[FlowOf[p]] \in 1 .. MaxVersion
      /\ runner' = [runner EXCEPT ![p] = "contract"]
      /\ UNCHANGED <<call, retrieval, outcome>>
  BY <1>2 DEF GetContract, RunnerGoes, Inv, TypeInv
<1>4. version'[p] > 0 /\ Len(Route[FlowOf[p]][version'[p]]) \in Nat \ {0}
  <2>1. version'[p] = active_version[FlowOf[p]]
    BY <1>3 DEF Inv, TypeInv
  <2>2. version'[p] \in 1 .. MaxVersion /\ MaxHops \in Nat
    BY <1>3, <2>1, RouteAssumption
  <2>3. Len(Route[FlowOf[p]][version'[p]]) \in 2 .. MaxHops
    BY <1>2, <2>2, RouteAssumption
  <2> QED BY <2>2, <2>3
<1>5. Length(p) = 0 /\ Length(p)' \in Nat \ {0}
  BY <1>1, <1>4 DEF Length, route
<1>6. \A q \in Passes : q # p => Length(q)' = Length(q)
  BY <1>3 DEF Length, route, Inv, TypeInv
<1>7. \A q \in Passes : /\ Reached(q)' = Reached(q)
                        /\ Delivered(q)' = Delivered(q)
                        /\ Answered(q)' = Answered(q)
  BY <1>1, <1>3 DEF Reached, Delivered, Answered, Inv, TypeInv
<1> QED BY <1>3, <1>5, <1>6, <1>7
        DEF ClientView!Begin, Length, Reached, Delivered, Answered

LEMMA AcceptAdvances ==
  ASSUME Inv, TypeInv', NEW p \in Passes, NEW k \in 1 .. MaxHops, Accept(p, k)
  PROVE  ClientView!Advance(p)
<1>1. /\ call[p][k] = "sent"
      /\ call' = [call EXCEPT ![p][k] = "accepted"]
      /\ UNCHANGED <<version, runner, retrieval, outcome>>
  BY DEF Accept, frontEndVars
<1>2. version[p] > 0 /\ k <= Len(route(p))
  BY <1>1 DEF Inv, CallsInv
<1>3. k \notin Reached(p) /\ k \in 1 .. Length(p)
  <2>1. Length(p) = Len(route(p)) /\ Length(p) \in Nat
    BY <1>2, ReachedHops
  <2>2. k \notin Reached(p)
    BY <1>1 DEF Reached
  <2> QED BY <1>2, <2>1, <2>2
<1>4. Reached(p)' = Reached(p) \cup {k}
  BY <1>1 DEF Reached, Inv, TypeInv
<1>5. Cardinality(Reached(p) \cup {k}) = Cardinality(Reached(p)) + 1
  BY <1>3, ReachedHops, FS_AddElement
<1>6. Cardinality(Reached(p)) < Length(p)
  <2>1. Reached(p) \cup {k} \subseteq 1 .. Length(p) /\ Length(p) \in Nat
    BY <1>3, ReachedHops
  <2>2. IsFiniteSet(1 .. Length(p)) /\ Cardinality(1 .. Length(p)) = Length(p)
    BY <2>1, FS_Interval
  <2>3. Cardinality(Reached(p) \cup {k}) <= Length(p)
    BY <2>1, <2>2, FS_Subset
  <2> QED BY <1>5, <2>1, <2>3, ReachedHops
<1>7. \A q \in Passes : q # p => Reached(q)' = Reached(q)
  BY <1>1 DEF Reached, Inv, TypeInv
<1>8. \A q \in Passes : /\ Length(q)' = Length(q)
                        /\ Delivered(q)' = Delivered(q)
                        /\ Answered(q)' = Answered(q)
  BY <1>1 DEF Length, Delivered, Answered, route
<1>9. \A q \in Passes : Cardinality(Reached(q))' =
        IF q = p THEN Cardinality(Reached(q)) + 1 ELSE Cardinality(Reached(q))
  BY <1>4, <1>5, <1>7
<1> QED BY <1>1, <1>6, <1>8, <1>9
        DEF ClientView!Advance, Length, Reached, Delivered, Answered

LEMMA ExtractDelivers ==
  ASSUME Inv, NEW p \in Passes, ExtractOutcome(p)
  PROVE  ClientView!Deliver(p)
<1>1. /\ outcome[p] \in {"result", "error"}
      /\ retrieval' = [retrieval EXCEPT ![p] = outcome[p]]
      /\ outcome' = [outcome EXCEPT ![p] = "extracted"]
      /\ UNCHANGED <<version, runner, call>>
  BY DEF ExtractOutcome
<1>2. \A q \in Passes : Delivered(q)' = IF q = p THEN outcome[p] ELSE Delivered(q)
  BY <1>1 DEF Delivered, Inv, TypeInv
<1>3. \A q \in Passes : /\ Length(q)' = Length(q)
                        /\ Reached(q)' = Reached(q)
                        /\ Answered(q)' = Answered(q)
  BY <1>1 DEF Length, Reached, Answered, route
<1> QED BY <1>1, <1>2, <1>3
        DEF ClientView!Deliver, Length, Reached, Delivered, Answered

\* The runner's end of a request.
LEMMA RunnerAnswers ==
  ASSUME Inv, NEW p \in Passes, NEW pc \in {"returned", "failed"},
         RunnerGoes(p, pc), runner[p] \notin {"returned", "failed"},
         pc = "returned" => retrieval[p] = "result",
         UNCHANGED <<version, call, retrieval, outcome>>
  PROVE  ClientView!Answer(p)
<1>1. \A q \in Passes : Answered(q)' = IF q = p THEN pc ELSE Answered(q)
  BY DEF Answered, RunnerGoes, Inv, TypeInv
<1>2. Answered(p) = "none"
  BY DEF Answered
<1>3. \A q \in Passes : /\ Length(q)' = Length(q)
                        /\ Reached(q)' = Reached(q)
                        /\ Delivered(q)' = Delivered(q)
  BY DEF Length, Reached, Delivered, route
<1>4. pc = "returned" => Delivered(p) = "result"
  BY DEF Delivered
<1> QED BY <1>1, <1>2, <1>3, <1>4
        DEF ClientView!Answer, Length, Reached, Delivered, Answered

\* The outcome at the sink.
LEMMA OutcomeConcludes ==
  ASSUME Inv, NEW p \in Passes, outcome[p] = "none",
         \/ outcome' = [outcome EXCEPT ![p] = "result"]
            /\ Cardinality(Reached(p)) = Length(p)
         \/ outcome' = [outcome EXCEPT ![p] = "error"] /\ Cardinality(Reached(p)) > 0,
         UNCHANGED <<version, call, runner, retrieval>>
  PROVE  ClientView!Conclude(p)
<1>1. \A q \in Passes : /\ Length(q)' = Length(q)
                        /\ Reached(q)' = Reached(q)
                        /\ Delivered(q)' = Delivered(q)
                        /\ Answered(q)' = Answered(q)
  BY DEF Length, Reached, Delivered, Answered, route
<1> QED BY <1>1 DEF ClientView!Conclude, Length, Reached, Delivered, Answered

LEMMA SinkConcludes ==
  ASSUME Inv, NEW w \in Workers, NEW l \in Loops, HandleSink(w, l)
  PROVE  \E p \in Passes : ClientView!Conclude(p)
<1>1. Busy(w, l) /\ hop(JobOf(w, l)).kind = "sink"
  BY DEF HandleSink, At, Busy
<1>2. PICK p \in Passes, k \in 1 .. MaxHops : JobOf(w, l) = <<p, k>>
  BY <1>1, BusyLoops DEF Jobs
<1>3. version[p] > 0 /\ k <= Len(route(p)) /\ call[p][k] = "accepted"
  BY <1>1, <1>2, BusyLoops DEF IsAt
<1>4. k = Len(route(p)) /\ Length(p) = k
  BY <1>1, <1>2, <1>3, Routes, ReachedHops DEF Inv, hop
<1>5. \A j \in 1 .. k : j \in Reached(p)
  <2>1. \A j \in 1 .. k - 1 : call[p][j] = "accepted"
    BY <1>3 DEF Inv, CallsInv
  <2>2. \A j \in 1 .. k : j = k \/ j \in 1 .. k - 1
    OBVIOUS
  <2>3. \A j \in 1 .. k : j \in 1 .. MaxHops
    BY RouteAssumption
  <2> QED BY <1>3, <2>1, <2>2, <2>3 DEF Reached
<1>6. Reached(p) = 1 .. k
  BY <1>4, <1>5, ReachedHops
<1>7. Cardinality(Reached(p)) = Length(p)
  <2>1. Cardinality(1 .. k) = k
    BY FS_Interval
  <2> QED BY <1>4, <1>6, <2>1
<1>8. /\ outcome[p] = "none" /\ outcome' = [outcome EXCEPT ![p] = "result"]
      /\ UNCHANGED <<version, call, runner, retrieval>>
  BY <1>2 DEF HandleSink, is_new_outcome, frontEndVars
<1> QED BY <1>7, <1>8, OutcomeConcludes

LEMMA ReportConcludes ==
  ASSUME Inv, NEW w \in Workers, NEW l \in Loops, ReportFailure(w, l)
  PROVE  (\E p \in Passes : ClientView!Conclude(p)) \/ UNCHANGED ClientView!vars
<1>1. Busy(w, l)
  BY DEF ReportFailure, At, Busy
<1>2. PICK p \in Passes, k \in 1 .. MaxHops : JobOf(w, l) = <<p, k>>
  BY <1>1, BusyLoops DEF Jobs
<1>3. k \in Reached(p)
  BY <1>1, <1>2, BusyLoops DEF IsAt, Reached
<1>4. Cardinality(Reached(p)) > 0
  BY <1>3, ReachedHops, FS_EmptySet
<1>5. /\ UNCHANGED <<version, call, runner, retrieval>>
      /\ \/ UNCHANGED outcome
         \/ outcome[p] = "none" /\ outcome' = [outcome EXCEPT ![p] = "error"]
  BY <1>2 DEF ReportFailure, report_failure, is_new_outcome, frontEndVars
<1>6. CASE outcome[p] = "none" /\ outcome' = [outcome EXCEPT ![p] = "error"]
  BY <1>4, <1>5, <1>6, OutcomeConcludes
<1>7. CASE UNCHANGED outcome
  <2>1. \A q \in Passes : /\ Length(q)' = Length(q)
                          /\ Reached(q)' = Reached(q)
                          /\ Delivered(q)' = Delivered(q)
                          /\ Answered(q)' = Answered(q)
    BY <1>5 DEF Length, Reached, Delivered, Answered, route
  <2> QED BY <1>5, <1>7, <2>1, Invisible
<1> QED BY <1>5, <1>6, <1>7

\* A contribution sent is none accepted.
LEMMA SendingIsInvisible ==
  ASSUME Inv, NEW p \in Passes, NEW k \in 1 .. MaxHops, call[p][k] = "none",
         call' = [call EXCEPT ![p][k] = "sent"],
         \A q \in Passes : Answered(q)' = Answered(q),
         UNCHANGED <<version, retrieval, outcome>>
  PROVE  UNCHANGED ClientView!vars
<1>1. \A q \in Passes : Reached(q)' = Reached(q)
  BY DEF Reached, Inv, TypeInv
<1>2. \A q \in Passes : Length(q)' = Length(q) /\ Delivered(q)' = Delivered(q)
  BY DEF Length, Delivered, route
<1> QED BY <1>1, <1>2, Invisible

LEMMA NextView ==
  ASSUME Inv, TypeInv', [Next]_vars
  PROVE  ClientView!Next \/ UNCHANGED ClientView!vars
<1> USE DEF ClientView!Next
<1>1. CASE UNCHANGED <<version, call, runner, retrieval, outcome>>
  <2>1. \A q \in Passes : /\ Length(q)' = Length(q)
                          /\ Reached(q)' = Reached(q)
                          /\ Delivered(q)' = Delivered(q)
                          /\ Answered(q)' = Answered(q)
    BY <1>1 DEF Length, Reached, Delivered, Answered, route
  <2> QED BY <1>1, <2>1, Invisible
<1>2. ASSUME NEW f \in Flows, NEW v \in 1 .. MaxVersion, Publish(f, v)
      PROVE  UNCHANGED <<version, call, runner, retrieval, outcome>>
  BY <1>2 DEF Publish, frontEndVars
<1>3. ASSUME NEW p \in Passes, RunnerStep(p)
      PROVE  ClientView!Next \/ UNCHANGED ClientView!vars
  <2>1. CASE GetContract(p)
    BY <2>1, GetContractBegins
  <2>2. CASE CheckVersion(p)
    <3>1. CASE is_current(p)
      <4>1. /\ runner[p] = "contract" /\ runner' = [runner EXCEPT ![p] = "current"]
            /\ UNCHANGED <<version, call, retrieval, outcome>>
        BY <2>2, <3>1 DEF CheckVersion, RunnerGoes
      <4>2. \A q \in Passes : /\ Length(q)' = Length(q)
                              /\ Reached(q)' = Reached(q)
                              /\ Delivered(q)' = Delivered(q)
                              /\ Answered(q)' = Answered(q)
        BY <4>1 DEF Length, Reached, Delivered, Answered, route, Inv, TypeInv
      <4> QED BY <4>1, <4>2, Invisible
    <3>2. CASE ~is_current(p)
      <4>1. /\ runner[p] = "contract" /\ RunnerGoes(p, "failed")
            /\ UNCHANGED <<version, call, retrieval, outcome>>
        BY <2>2, <3>2 DEF CheckVersion, RunnerGoes
      <4> QED BY <4>1, RunnerAnswers
    <3> QED BY <3>1, <3>2
  <2>3. CASE SubmitModelPass(p)
    <3>1. /\ runner[p] = "current" /\ runner' = [runner EXCEPT ![p] = "submitting"]
          /\ call' = [call EXCEPT ![p][1] = "sent"] /\ call[p][1] = "none"
          /\ UNCHANGED <<version, retrieval, outcome>>
      BY <2>3 DEF SubmitModelPass, RunnerGoes, Inv, RunnersInv
    <3>2. \A q \in Passes : Answered(q)' = Answered(q)
      BY <3>1 DEF Answered, Inv, TypeInv
    <3>3. 1 \in 1 .. MaxHops
      <4>1. version[p] > 0
        BY <3>1, RouteAssumption DEF Inv, TypeInv, RunnersInv
      <4> QED BY <4>1, ReachedHops
    <3> QED BY <3>1, <3>2, <3>3, SendingIsInvisible
  <2>4. CASE RunnerFails(p)
    <3>1. /\ runner[p] \notin {"returned", "failed"} /\ RunnerGoes(p, "failed")
          /\ UNCHANGED <<version, call, retrieval, outcome>>
      BY <2>4 DEF RunnerFails
    <3> QED BY <3>1, RunnerAnswers
  <2>5. CASE RetrieveResult(p)
    <3>1. /\ runner[p] = "submitting" /\ runner' = [runner EXCEPT ![p] = "retrieving"]
          /\ retrieval' = [retrieval EXCEPT ![p] = "requested"] /\ retrieval[p] = "none"
          /\ UNCHANGED <<version, call, outcome>>
      BY <2>5 DEF RetrieveResult, RunnerGoes, Inv, RunnersInv
    <3>2. \A q \in Passes : /\ Length(q)' = Length(q)
                            /\ Reached(q)' = Reached(q)
                            /\ Delivered(q)' = Delivered(q)
                            /\ Answered(q)' = Answered(q)
      BY <3>1 DEF Length, Reached, Delivered, Answered, route, Inv, TypeInv
    <3> QED BY <3>1, <3>2, Invisible
  <2>6. CASE ReceiveOutcome(p)
    <3>1. /\ runner[p] = "retrieving"
          /\ UNCHANGED <<version, call, retrieval, outcome>>
          /\ \/ RunnerGoes(p, "returned") /\ retrieval[p] = "result"
             \/ RunnerGoes(p, "failed")
      BY <2>6 DEF ReceiveOutcome
    <3> QED BY <3>1, RunnerAnswers
  <2> QED BY <1>3, <2>1, <2>2, <2>3, <2>4, <2>5, <2>6 DEF RunnerStep
<1>4. ASSUME NEW p \in Passes, ExtractOutcome(p) PROVE ClientView!Next
  BY <1>4, ExtractDelivers
<1>5. ASSUME NEW p \in Passes, NEW k \in 1 .. MaxHops, Accept(p, k)
      PROVE  ClientView!Next
  BY <1>5, AcceptAdvances
<1>6. ASSUME NEW w \in Workers, NEW l \in Loops, LoopStep(w, l)
      PROVE  ClientView!Next \/ UNCHANGED ClientView!vars
  <2>1. CASE HandleSink(w, l)
    BY <2>1, SinkConcludes
  <2>2. CASE ReportFailure(w, l)
    BY <2>2, ReportConcludes
  <2>3. CASE Propagate(w, l)
    <3>1. PICK p \in Passes, k \in 1 .. MaxHops :
            /\ k + 1 \in 1 .. MaxHops /\ call[p][k + 1] = "none"
            /\ call' = [call EXCEPT ![p][k + 1] = "sent"]
      BY <2>3, PropagatedCall
    <3>2. UNCHANGED <<version, retrieval, outcome, runner>>
      BY <2>3 DEF Propagate, frontEndVars
    <3>3. \A q \in Passes : Answered(q)' = Answered(q)
      BY <3>2 DEF Answered
    <3> QED BY <3>1, <3>2, <3>3, SendingIsInvisible
  <2>4. CASE ~HandleSink(w, l) /\ ~ReportFailure(w, l) /\ ~Propagate(w, l)
    <3>1. UNCHANGED <<version, call, runner, retrieval, outcome>>
      BY <1>6, <2>4
         DEF LoopStep, ExtractNext, HandleIngress, Enqueue, HandleSinkDuplicate,
             SendAcknowledged, PipelineFails, frontEndVars
    <3> QED BY <1>1, <3>1
  <2> QED BY <2>1, <2>2, <2>3, <2>4
<1>7. ASSUME NEW w \in Workers, ControllerStep(w)
      PROVE  UNCHANGED <<version, call, runner, retrieval, outcome>>
  BY <1>7 DEF ControllerStep, Dequeue, ExecutionSucceeds, ExecutionFails, frontEndVars
<1>8. CASE UNCHANGED vars
  BY <1>1, <1>8 DEF vars, frontEndVars
<1> QED BY <1>1, <1>2, <1>3, <1>4, <1>5, <1>6, <1>7, <1>8 DEF Next

\* What the front end, the workers and the sink do with a pass is ModelPass: its
\* data passes the hops of one route in order, one outcome is made of it, a result
\* only after the whole route, and handed out once, and the client is answered
\* once, with success only after a result.
THEOREM ImplementsModelPassHolds == Spec => ImplementsModelPass
<1>1. Init => ClientView!Init
  BY InitView
<1>2. Inv /\ Inv' /\ [Next]_vars => [ClientView!Next]_ClientView!vars
  BY NextView DEF Inv
<1> QED BY <1>1, <1>2, Invariance, PTL DEF Spec, ImplementsModelPass, ClientView!Spec
=============================================================================
