---------------------------- MODULE InferencePass ----------------------------
(***************************************************************************)
(* A model pass from the front end through the workers and back:           *)
(* DefaultInferenceRunner, the coordination loops and the partition        *)
(* controller of every worker, the sending of contributions, the sink.     *)
(*                                                                         *)
(* A pass visits the hops of its route in order, an ingress, partitions    *)
(* and a sink, each on a worker: plans have no other shape (PlanBuilding). *)
(* Hop k of pass p is the job <<p, k>>.  A hop with one source is          *)
(* deposited as soon as its contribution arrives (HopGathering), which     *)
(* answers the sender.                                                     *)
(*                                                                         *)
(*   active_version[f]  the version Redis names for flow f                 *)
(*   runner[p]          where the front end stands with p                  *)
(*   version[p]         the version of p's contract, 0 before              *)
(*   call[p][k]         the submission of the contribution to hop k        *)
(*   inbox[w]           OrderedPostbox of worker w                         *)
(*   loop[w][l]         a coordination loop, and the job it is busy with   *)
(*   waiting[w]         requests in the priority queue, oldest first       *)
(*   controller[w]      the request being executed                         *)
(*   outcome[p]         KeyedPostbox of the sink's worker                  *)
(*   retrieval[p]       the front end's request for the outcome            *)
(*                                                                         *)
(* A call whose sender has given up goes on.  MaxVersion and MaxFailures   *)
(* bound the plans and the executions that fail; MaxHops is the length of  *)
(* the longest route.                                                      *)
(***************************************************************************)
EXTENDS Integers, Sequences, FiniteSets

CONSTANTS Workers, Loops, Passes, Flows,
          FlowOf,     \* the flow of each pass
          Route,      \* Route[f][v]: hops [worker, kind, priority] of flow f
          MaxHops,    \* of any route
          MaxVersion, MaxFailures

Kinds == {"ingress", "partition", "sink"}
Hops == [worker : Workers, kind : Kinds, priority : Nat]

ASSUME RouteAssumption ==
  /\ IsFiniteSet(Workers) /\ IsFiniteSet(Loops) /\ "none" \notin Loops
  /\ FlowOf \in [Passes -> Flows]
  /\ MaxHops \in Nat /\ MaxVersion \in Nat \ {0}
  /\ MaxFailures \in Nat
  /\ \A f \in Flows, v \in 1 .. MaxVersion :
       /\ Route[f][v] \in Seq(Hops)
       /\ Len(Route[f][v]) \in 2 .. MaxHops
       /\ \A k \in DOMAIN Route[f][v] :
            Route[f][v][k].kind = CASE k = 1 -> "ingress"
                                    [] k = Len(Route[f][v]) -> "sink"
                                    [] OTHER -> "partition"

VARIABLES active_version, runner, version, call, inbox, loop, waiting,
          controller, outcome, retrieval, failures

frontEndVars == <<runner, version, retrieval>>
workerVars == <<inbox, loop, waiting, controller, failures>>
vars == <<active_version, frontEndVars, call, workerVars, outcome>>

route(p) == Route[FlowOf[p]][version[p]]
hop(job) == route(job[1])[job[2]]

NoJob == <<>>
Idle == [pc |-> "extracting", job |-> NoJob]
NoRequest == [job |-> NoJob, loop |-> "none"]

Init ==
  /\ active_version = [f \in Flows |-> 1]
  /\ runner = [p \in Passes |-> "idle"]
  /\ version = [p \in Passes |-> 0]
  /\ call = [p \in Passes |-> [k \in 1 .. MaxHops |-> "none"]]
  /\ inbox = [w \in Workers |-> <<>>]
  /\ loop = [w \in Workers |-> [l \in Loops |-> Idle]]
  /\ waiting = [w \in Workers |-> <<>>]
  /\ controller = [w \in Workers |-> NoRequest]
  /\ outcome = [p \in Passes |-> "none"]
  /\ retrieval = [p \in Passes |-> "none"]
  /\ failures = 0

\* The controller publishes another plan of a flow.  Its version need not be
\* higher: versions are counted from 1 again when the controller restarts.  That
\* a version then names another plan is left to PlanActuation.
Publish(f, v) ==
  /\ v # active_version[f]
  /\ active_version' = [active_version EXCEPT ![f] = v]
  /\ UNCHANGED <<frontEndVars, call, workerVars, outcome>>

-----------------------------------------------------------------------------
(* The front end.                                                          *)

RunnerGoes(p, pc) == runner' = [runner EXCEPT ![p] = pc]

GetContract(p) ==
  /\ runner[p] = "idle"
  /\ RunnerGoes(p, "contract")
  /\ version' = [version EXCEPT ![p] = active_version[FlowOf[p]]]
  /\ UNCHANGED <<active_version, retrieval, call, workerVars, outcome>>

is_current(p) == version[p] = active_version[FlowOf[p]]

CheckVersion(p) ==
  /\ runner[p] = "contract"
  /\ RunnerGoes(p, IF is_current(p) THEN "current" ELSE "failed")
  /\ UNCHANGED <<active_version, version, retrieval, call, workerVars, outcome>>

\* The flow plan is valid for the input, and the workers of ingress and sink are
\* known.
SubmitModelPass(p) ==
  /\ runner[p] = "current"
  /\ RunnerGoes(p, "submitting")
  /\ call' = [call EXCEPT ![p][1] = "sent"]
  /\ UNCHANGED <<active_version, version, retrieval, workerVars, outcome>>

\* The plan or a worker cannot be read, the call fails, is refused or times out.
RunnerFails(p) ==
  /\ runner[p] \in {"current", "submitting", "retrieving"}
  /\ RunnerGoes(p, "failed")
  /\ UNCHANGED <<active_version, version, retrieval, call, workerVars, outcome>>

RetrieveResult(p) ==
  /\ runner[p] = "submitting"
  /\ call[p][1] = "accepted"
  /\ RunnerGoes(p, "retrieving")
  /\ retrieval' = [retrieval EXCEPT ![p] = "requested"]
  /\ UNCHANGED <<active_version, version, call, workerVars, outcome>>

\* retrieve_result on the sink's worker, whether or not somebody still waits.
\* A ModelPassError is raised there.
ExtractOutcome(p) ==
  /\ retrieval[p] = "requested"
  /\ outcome[p] \in {"result", "error"}
  /\ retrieval' = [retrieval EXCEPT ![p] = outcome[p]]
  /\ outcome' = [outcome EXCEPT ![p] = "extracted"]
  /\ UNCHANGED <<active_version, runner, version, call, workerVars>>

ReceiveOutcome(p) ==
  /\ runner[p] = "retrieving"
  /\ retrieval[p] \in {"result", "error"}
  /\ RunnerGoes(p, IF retrieval[p] = "result" THEN "returned" ELSE "failed")
  /\ UNCHANGED <<active_version, version, retrieval, call, workerVars, outcome>>

-----------------------------------------------------------------------------
(* A contribution arrives at a worker; a lost or refused one never does.   *)

Accept(p, k) ==
  /\ call[p][k] = "sent"
  /\ call' = [call EXCEPT ![p][k] = "accepted"]
  /\ LET w == hop(<<p, k>>).worker
     IN inbox' = [inbox EXCEPT ![w] = Append(@, <<p, k>>)]
  /\ UNCHANGED <<active_version, frontEndVars, loop, waiting, controller,
                 failures, outcome>>

-----------------------------------------------------------------------------
(* A coordination loop.                                                    *)

At(w, l, pc) == loop[w][l].pc = pc
JobOf(w, l) == loop[w][l].job
LoopGoes(w, l, pc) == loop' = [loop EXCEPT ![w][l].pc = pc]
LoopEnds(w, l) == loop' = [loop EXCEPT ![w][l] = Idle]

ExtractNext(w, l) ==
  /\ At(w, l, "extracting")
  /\ inbox[w] # <<>>
  /\ loop' = [loop EXCEPT ![w][l] = [pc |-> "handling", job |-> Head(inbox[w])]]
  /\ inbox' = [inbox EXCEPT ![w] = Tail(@)]
  /\ UNCHANGED <<active_version, frontEndVars, call, waiting, controller,
                 failures, outcome>>

\* An ingress hands on what it was given.
HandleIngress(w, l) ==
  /\ At(w, l, "handling") /\ hop(JobOf(w, l)).kind = "ingress"
  /\ LoopGoes(w, l, "propagating")
  /\ UNCHANGED <<active_version, frontEndVars, call, inbox, waiting, controller,
                 failures, outcome>>

\* A partition's request is queued, and its future awaited.
Enqueue(w, l) ==
  /\ At(w, l, "handling") /\ hop(JobOf(w, l)).kind = "partition"
  /\ waiting' =
       [waiting EXCEPT ![w] = Append(@, [job |-> JobOf(w, l), loop |-> l])]
  /\ LoopGoes(w, l, "waiting")
  /\ UNCHANGED <<active_version, frontEndVars, call, inbox, controller,
                 failures, outcome>>

\* Mutant of is_new_outcome: what has been extracted is forgotten.
is_not_available(p) == outcome[p] \notin {"result", "error"}

\* A key is deposited in the KeyedPostbox once.
is_new_outcome(p) == outcome[p] = "none"

\* A sink deposits the result and has nothing to propagate.
HandleSink(w, l) ==
  /\ At(w, l, "handling") /\ hop(JobOf(w, l)).kind = "sink"
  /\ is_new_outcome(JobOf(w, l)[1])
  /\ outcome' = [outcome EXCEPT ![JobOf(w, l)[1]] = "result"]
  /\ LoopEnds(w, l)
  /\ UNCHANGED <<active_version, frontEndVars, call, inbox, waiting, controller,
                 failures>>

HandleSinkDuplicate(w, l) ==
  /\ At(w, l, "handling") /\ hop(JobOf(w, l)).kind = "sink"
  /\ ~is_new_outcome(JobOf(w, l)[1])
  /\ LoopGoes(w, l, "reporting")
  /\ UNCHANGED <<active_version, frontEndVars, call, inbox, waiting, controller,
                 failures, outcome>>

\* Route and dispatch: the worker of the next hop is looked up, the network
\* granted, and the contribution sent.
Propagate(w, l) ==
  /\ At(w, l, "propagating")
  /\ LET job == JobOf(w, l) IN call' = [call EXCEPT ![job[1]][job[2] + 1] = "sent"]
  /\ LoopGoes(w, l, "sending")
  /\ UNCHANGED <<active_version, frontEndVars, inbox, waiting, controller,
                 failures, outcome>>

SendAcknowledged(w, l) ==
  /\ At(w, l, "sending")
  /\ LET job == JobOf(w, l) IN call[job[1]][job[2] + 1] = "accepted"
  /\ LoopEnds(w, l)
  /\ UNCHANGED <<active_version, frontEndVars, call, inbox, waiting, controller,
                 failures, outcome>>

\* Mutant of after_failure: the failure is logged only.
only_logged == "extracting"

after_failure == "reporting"

\* Assembling or handling fails, the worker of the next hop is not found, the call
\* is refused or times out.
PipelineFails(w, l) ==
  /\ loop[w][l].pc \in {"handling", "propagating", "sending"}
  /\ LoopGoes(w, l, after_failure)
  /\ UNCHANGED <<active_version, frontEndVars, call, inbox, waiting, controller,
                 failures, outcome>>

\* FailureReporter is a port that nothing implements.  A reporter may make the
\* error the outcome of the pass, as the sink takes errors, or fail, or lose it.
report_failure(p) ==
  \/ UNCHANGED outcome
  \/ is_new_outcome(p) /\ outcome' = [outcome EXCEPT ![p] = "error"]

\* The failure is handed to the reporter; what the reporter raises is logged.
ReportFailure(w, l) ==
  /\ At(w, l, "reporting")
  /\ report_failure(JobOf(w, l)[1])
  /\ LoopEnds(w, l)
  /\ UNCHANGED <<active_version, frontEndVars, call, inbox, waiting, controller,
                 failures>>

-----------------------------------------------------------------------------
(* The scheduler and the partition controller.                             *)

\* Mutant of precedes: priorities of different plans are compared.
precedes_by_priority(q, r) == hop(q.job).priority < hop(r.job).priority

precedes(q, r) ==
  \/ version[q.job[1]] < version[r.job[1]]
  \/ /\ version[q.job[1]] = version[r.job[1]]
     /\ hop(q.job).priority < hop(r.job).priority

\* The first of the requests no other precedes.
next_request(w) ==
  CHOOSE n \in DOMAIN waiting[w] :
    \A m \in DOMAIN waiting[w] \ {n} :
      /\ ~precedes(waiting[w][m], waiting[w][n])
      /\ m < n => precedes(waiting[w][n], waiting[w][m])

\* Mutant of without: the oldest request is removed, whichever was taken.
without_oldest(s, n) == Tail(s)

without(s, n) == SubSeq(s, 1, n - 1) \o SubSeq(s, n + 1, Len(s))

Dequeue(w) ==
  /\ controller[w] = NoRequest
  /\ waiting[w] # <<>>
  /\ LET n == next_request(w)
     IN /\ controller' = [controller EXCEPT ![w] = waiting[w][n]]
        /\ waiting' = [waiting EXCEPT ![w] = without(@, n)]
  /\ UNCHANGED <<active_version, frontEndVars, call, inbox, loop, failures,
                 outcome>>

\* Mutant of ExecutionSucceeds: nobody resolves the future.
ExecutionIsUnnoticed(w) ==
  /\ controller[w] # NoRequest
  /\ controller' = [controller EXCEPT ![w] = NoRequest]
  /\ UNCHANGED <<active_version, frontEndVars, call, inbox, loop, waiting,
                 failures, outcome>>

\* The result is set on the future the loop awaits.
ExecutionSucceeds(w) ==
  /\ controller[w] # NoRequest
  /\ LoopGoes(w, controller[w].loop, "propagating")
  /\ controller' = [controller EXCEPT ![w] = NoRequest]
  /\ UNCHANGED <<active_version, frontEndVars, call, inbox, waiting, failures,
                 outcome>>

\* The controller loop passes over every exception; the future stays pending.
ExecutionFails(w) ==
  /\ controller[w] # NoRequest
  /\ failures < MaxFailures
  /\ failures' = failures + 1
  /\ controller' = [controller EXCEPT ![w] = NoRequest]
  /\ UNCHANGED <<active_version, frontEndVars, call, inbox, loop, waiting,
                 outcome>>

-----------------------------------------------------------------------------
RunnerStep(p) ==
  \/ GetContract(p) \/ CheckVersion(p) \/ SubmitModelPass(p)
  \/ RunnerFails(p) \/ RetrieveResult(p) \/ ReceiveOutcome(p)

LoopStep(w, l) ==
  \/ ExtractNext(w, l) \/ HandleIngress(w, l) \/ Enqueue(w, l)
  \/ HandleSink(w, l) \/ HandleSinkDuplicate(w, l)
  \/ Propagate(w, l) \/ SendAcknowledged(w, l) \/ PipelineFails(w, l)
  \/ ReportFailure(w, l)

ControllerStep(w) == Dequeue(w) \/ ExecutionSucceeds(w) \/ ExecutionFails(w)

Next ==
  \/ \E f \in Flows, v \in 1 .. MaxVersion : Publish(f, v)
  \/ \E p \in Passes : RunnerStep(p) \/ ExtractOutcome(p)
  \/ \E p \in Passes, k \in 1 .. MaxHops : Accept(p, k)
  \/ \E w \in Workers, l \in Loops : LoopStep(w, l)
  \/ \E w \in Workers : ControllerStep(w)

Spec == Init /\ [][Next]_vars

\* Runnable coroutines run, calls and retrievals time out, executions and the
\* failure reporter end.  Nothing is assumed of the network.
Fairness ==
  /\ \A p \in Passes : WF_vars(RunnerStep(p)) /\ WF_vars(ExtractOutcome(p))
  /\ \A w \in Workers, l \in Loops : WF_vars(LoopStep(w, l))
  /\ \A w \in Workers : WF_vars(ControllerStep(w))

FairSpec == Spec /\ Fairness

-----------------------------------------------------------------------------
(* Properties.                                                             *)

Jobs == Passes \X (1 .. MaxHops)
Requests == [job : Jobs, loop : Loops]

\* Every variable has its type.  The priority queue of a worker, unbounded in the
\* code, never holds more requests than there are coordination loops.
TypeOK ==
  /\ active_version \in [Flows -> 1 .. MaxVersion]
  /\ runner \in [Passes -> {"idle", "contract", "current", "submitting",
                            "retrieving", "returned", "failed"}]
  /\ version \in [Passes -> 0 .. MaxVersion]
  /\ call \in [Passes -> [1 .. MaxHops -> {"none", "sent", "accepted"}]]
  /\ inbox \in [Workers -> Seq(Jobs)]
  /\ loop \in [Workers -> [Loops ->
       {Idle} \cup [pc : {"handling", "waiting", "propagating", "sending", "reporting"},
                   job : Jobs]]]
  /\ waiting \in [Workers -> Seq(Requests)]
  /\ controller \in [Workers -> {NoRequest} \cup Requests]
  /\ outcome \in [Passes -> {"none", "result", "error", "extracted"}]
  /\ retrieval \in [Passes -> {"none", "requested", "result", "error"}]
  /\ failures \in 0 .. MaxFailures
  /\ \A w \in Workers : Len(waiting[w]) <= Cardinality(Loops)

RequestsOf(w, l) ==
  {n \in DOMAIN waiting[w] : waiting[w][n].loop = l}
    \cup (IF controller[w].loop = l THEN {0} ELSE {})

\* The request of a loop, in the queue or being executed, is for the loop's job.
IsFor(w, l, n) ==
  (IF n = 0 THEN controller[w] ELSE waiting[w][n]).job = JobOf(w, l)

Stranded == {wl \in Workers \X Loops :
               At(wl[1], wl[2], "waiting") /\ RequestsOf(wl[1], wl[2]) = {}}

\* A coordination loop that awaits a future has exactly one request, queued or
\* being executed, for the job it is busy with, and no other loop has any; loops
\* whose future nobody will resolve are exactly as many as executions failed.
WaitingLoopsAreServed ==
  /\ \A w \in Workers, l \in Loops :
       /\ RequestsOf(w, l) # {} => At(w, l, "waiting")
       /\ \A m, n \in RequestsOf(w, l) : m = n
       /\ \A n \in RequestsOf(w, l) : IsFor(w, l, n)
  /\ Cardinality(Stranded) = failures

\* While a plan is replaced, what runs under the older one is not overtaken: the
\* partition controller starts no request while one of a lower version waits.
OlderPlansGoFirst ==
  [][\A w \in Workers :
       controller'[w] \notin {controller[w], NoRequest} =>
         \A n \in DOMAIN waiting[w] :
           version[controller'[w].job[1]] <= version[waiting[w][n].job[1]]]_vars

\* What the passes look like to a client: ModelPass.
ClientView == INSTANCE ModelPass WITH
  length <- [p \in Passes |-> IF version[p] = 0 THEN 0 ELSE Len(route(p))],
  reached <- [p \in Passes |-> Cardinality({k \in 1 .. MaxHops : call[p][k] = "accepted"})],
  delivered <- [p \in Passes |-> IF retrieval[p] \in {"result", "error"}
                                 THEN retrieval[p] ELSE "nothing"],
  answer <- [p \in Passes |-> IF runner[p] \in {"returned", "failed"}
                              THEN runner[p] ELSE "none"]

ImplementsModelPass == ClientView!Spec

\* Every invocation of a hop ends: its coordination loop turns to the next one.
HopInvocationsEnd ==
  \A w \in Workers, l \in Loops :
    loop[w][l].pc # "extracting" ~> loop[w][l].pc = "extracting"

\* A hop of the pass has been accepted by its worker and waits to be handled.
Waits(p) == \E w \in Workers : \E n \in DOMAIN inbox[w] : inbox[w][n][1] = p

\* The failure of the pass is in the hands of the failure reporter.
BeingReported(p) ==
  \E w \in Workers, l \in Loops : At(w, l, "reporting") /\ JobOf(w, l)[1] = p

\* A pass that a worker has accepted is not lost without a trace, whatever becomes
\* of the calls between the workers: the sink gets its outcome or the reporter its
\* failure.  Not so once the execution of a partition has failed: that pass, and
\* those that wait for its coordination loop, may get neither.
AcceptedPassesEnd ==
  \A p \in Passes :
    Waits(p) ~> outcome[p] # "none" \/ BeingReported(p) \/ failures > 0
=============================================================================
