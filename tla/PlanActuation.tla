---------------------------- MODULE PlanActuation ----------------------------
(***************************************************************************)
(* How a solution of the optimizer becomes the plan inferences run under:  *)
(* the solution store, DefaultActuationManager, the plan deployers of the  *)
(* workers, and the hop catalog and flow plans in Redis.                   *)
(*                                                                         *)
(* An actuation is one turn of the observation loop; they are numbered in  *)
(* order, and solution_of[a] and version_of[a] are what it observed and    *)
(* the version it built (0 before).  A phase asks every worker of the      *)
(* solution over HTTP.  A request the controller has given up on still     *)
(* runs on the worker, or is still to arrive: nothing cancels it, so       *)
(* preparing[a][w] and applying[a][w] outlive actuation a and even the     *)
(* controller.  A restarted controller counts versions from 1 again, while *)
(* workers and Redis keep what they have.                                  *)
(*                                                                         *)
(*   current_solution, pending   InMemoryOptimizationSolutionStore         *)
(*   phase, call[w]              actuate_solution, and the reply of each   *)
(*                               worker in the phase that runs             *)
(*   executors                   <<w, v, h>> in the registry of worker w   *)
(*   plans[w][v]                 the solution whose plan w stores under v  *)
(*   prepared_versions[w], active_version[w]                               *)
(*   catalog[v][h]               the worker registered for hop h of v      *)
(*   flow_plans[f][v]            the actuation that published it (or 0)    *)
(*   active_flow_version[f]      the version inferences of f must name     *)
(*                                                                         *)
(* MaxPuts and MaxRestarts bound the solutions and the restarts.           *)
(***************************************************************************)
EXTENDS Integers, Sequences, FiniteSets

CONSTANTS Workers, Flows, Hops, Solutions,
          PlanOf,      \* PlanOf[s][w]: worker w's part of solution s
          FlowsOf,     \* FlowsOf[s]: the flows s plans
          Convertible, \* solutions the plan converter accepts
          MaxPuts, MaxRestarts, NoSolution, NoWorker

Involved(s) == DOMAIN PlanOf[s]
executable_hops(s, w) == PlanOf[s][w].executable_hops
ExecutableHops(s, w) ==
  {executable_hops(s, w)[n] : n \in DOMAIN executable_hops(s, w)}
planned_hops(s, w) == ExecutableHops(s, w) \cup PlanOf[s][w].endpoint_hops

ASSUME SolutionAssumption ==
  /\ NoSolution \notin Solutions /\ NoWorker \notin Workers
  /\ Convertible \subseteq Solutions
  /\ MaxPuts \in Nat /\ MaxRestarts \in Nat
  /\ Solutions \subseteq DOMAIN PlanOf
  /\ \A s \in Solutions :
       /\ FlowsOf[s] \subseteq Flows
       /\ Involved(s) \subseteq Workers
       /\ \A w \in Involved(s) :
            /\ DOMAIN executable_hops(s, w) = 1 .. Len(executable_hops(s, w))
            /\ Len(executable_hops(s, w)) \in Nat
            /\ planned_hops(s, w) \subseteq Hops
       /\ \A w, x \in Involved(s) :
            planned_hops(s, w) \cap planned_hops(s, x) # {} => w = x

Actuations == 1 .. MaxPuts
Versions == 1 .. MaxPuts

VARIABLES current_solution, pending, puts,
          phase, actuation, solution_of, version_of, plan_counter, call,
          preparing, applying,
          executors, plans, prepared_versions, active_version,
          catalog, flow_plans, active_flow_version,
          restarts

storeVars == <<current_solution, pending, puts>>
controllerVars ==
  <<phase, actuation, solution_of, version_of, plan_counter, call>>
handlerVars == <<preparing, applying>>
workerVars == <<executors, plans, prepared_versions, active_version>>
redisVars == <<catalog, flow_plans, active_flow_version>>
vars == <<storeVars, controllerVars, handlerVars, workerVars, redisVars,
          restarts>>

Request(pc, at) == [pc |-> pc, at |-> at]

Init ==
  /\ current_solution = NoSolution /\ pending = NoSolution /\ puts = 0
  /\ phase = "idle" /\ actuation = 0 /\ plan_counter = 0
  /\ solution_of = [a \in Actuations |-> NoSolution]
  /\ version_of = [a \in Actuations |-> 0]
  /\ call = [w \in Workers |-> "none"]
  /\ preparing = [a \in Actuations |-> [w \in Workers |-> Request("none", 1)]]
  /\ applying = [a \in Actuations |-> [w \in Workers |-> "none"]]
  /\ executors = {}
  /\ plans = [w \in Workers |-> [v \in Versions |-> NoSolution]]
  /\ prepared_versions = [w \in Workers |-> {}]
  /\ active_version = [w \in Workers |-> 0]
  /\ catalog = [v \in Versions |-> [h \in Hops |-> NoWorker]]
  /\ flow_plans = [f \in Flows |-> [v \in Versions |-> 0]]
  /\ active_flow_version = [f \in Flows |-> 0]
  /\ restarts = 0

-----------------------------------------------------------------------------
(* The solution store: a queue of length one whose entry is replaced.      *)

\* Mutant of replaced_by: a full queue refuses the newer solution.
refuses(s) == IF pending = NoSolution THEN s ELSE pending

replaced_by(s) == s

PutSolution(s) ==
  /\ puts < MaxPuts
  /\ puts' = puts + 1
  /\ current_solution' = s
  /\ pending' = replaced_by(s)
  /\ UNCHANGED <<controllerVars, handlerVars, workerVars, redisVars, restarts>>

ObserveNewSolution ==
  /\ phase = "idle"
  /\ pending # NoSolution
  /\ pending' = NoSolution
  /\ phase' = "build"
  /\ actuation' = actuation + 1
  /\ solution_of' = [solution_of EXCEPT ![actuation + 1] = pending]
  /\ UNCHANGED <<current_solution, puts, version_of, plan_counter, call,
                 handlerVars, workerVars, redisVars, restarts>>

-----------------------------------------------------------------------------
(* actuate_solution.                                                       *)

Solution == solution_of[actuation]

Asked(w) == w \in Involved(Solution)
ToAll == [w \in Workers |-> IF Asked(w) THEN "sent" ELSE "none"]

\* The model manager could not build every partition, or not in time.
BuildPartitionsFails ==
  /\ phase = "build"
  /\ phase' = "idle"
  /\ UNCHANGED <<storeVars, actuation, solution_of, version_of, plan_counter,
                 call, handlerVars, workerVars, redisVars, restarts>>

\* Mutant of next_plan_version: the counter is advanced twice.
plan_version_after_next == plan_counter + 2

next_plan_version == plan_counter + 1

\* The conversion raises, after a version has been used up.
ConversionFails ==
  /\ phase = "build"
  /\ Solution \notin Convertible
  /\ phase' = "idle"
  /\ plan_counter' = next_plan_version
  /\ version_of' = [version_of EXCEPT ![actuation] = next_plan_version]
  /\ UNCHANGED <<storeVars, actuation, solution_of, call, handlerVars,
                 workerVars, redisVars, restarts>>

StartDeploy ==
  /\ phase = "build"
  /\ Solution \in Convertible
  /\ phase' = "deploy"
  /\ plan_counter' = next_plan_version
  /\ version_of' = [version_of EXCEPT ![actuation] = next_plan_version]
  /\ call' = ToAll
  /\ preparing' = [preparing EXCEPT ![actuation] =
       [w \in Workers |->
          IF Asked(w) THEN Request("requested", 1) ELSE Request("none", 1)]]
  /\ UNCHANGED <<storeVars, actuation, solution_of, applying, workerVars,
                 redisVars, restarts>>

Outcome(w) ==
  IF phase = "deploy" THEN preparing[actuation][w].pc ELSE applying[actuation][w]

\* The worker answers, and the answer arrives in time.
Reply(w) ==
  /\ phase \in {"deploy", "apply"}
  /\ call[w] = "sent"
  /\ Outcome(w) \in {"done", "failed"}
  /\ call' = [call EXCEPT ![w] = IF Outcome(w) = "done" THEN "ok" ELSE "error"]
  /\ UNCHANGED <<storeVars, phase, actuation, solution_of, version_of,
                 plan_counter, handlerVars, workerVars, redisVars, restarts>>

\* The worker cannot be found or reached, or no answer arrives within the
\* client's timeout.
CallFails(w) ==
  /\ phase \in {"deploy", "apply"}
  /\ call[w] = "sent"
  /\ call' = [call EXCEPT ![w] = "error"]
  /\ UNCHANGED <<storeVars, phase, actuation, solution_of, version_of,
                 plan_counter, handlerVars, workerVars, redisVars, restarts>>

\* _run_worker_phase gathers every worker's result before it looks at any.
Gathered == \A w \in Workers : call[w] # "sent"

\* Mutant of Failed: the failures are logged and forgotten.
Forgotten == \A w \in Workers : call[w] = "error"

Failed == \E w \in Workers : call[w] = "error"

PhaseFails ==
  /\ phase \in {"deploy", "apply"}
  /\ Gathered /\ Failed
  /\ phase' = "idle"
  /\ UNCHANGED <<storeVars, actuation, solution_of, version_of, plan_counter,
                 call, handlerVars, workerVars, redisVars, restarts>>

StartApply ==
  /\ phase = "deploy"
  /\ Gathered /\ ~Failed
  /\ phase' = "apply"
  /\ call' = ToAll
  /\ applying' = [applying EXCEPT ![actuation] =
       [w \in Workers |-> IF Asked(w) THEN "requested" ELSE "none"]]
  /\ UNCHANGED <<storeVars, actuation, solution_of, version_of, plan_counter,
                 preparing, workerVars, redisVars, restarts>>

StartPublish ==
  /\ phase = "apply"
  /\ Gathered /\ ~Failed
  /\ phase' = "publish"
  /\ UNCHANGED <<storeVars, actuation, solution_of, version_of, plan_counter,
                 call, handlerVars, workerVars, redisVars, restarts>>

\* One Redis transaction for all flows.  Whether its answer arrives makes no
\* difference: an error is logged.
PublishFlowPlans ==
  /\ phase = "publish"
  /\ phase' = "idle"
  /\ LET v == version_of[actuation]
         planned == FlowsOf[Solution]
     IN /\ flow_plans' = [f \in Flows |->
             IF f \in planned THEN [flow_plans[f] EXCEPT ![v] = actuation]
             ELSE flow_plans[f]]
        /\ active_flow_version' = [f \in Flows |->
             IF f \in planned THEN v ELSE active_flow_version[f]]
  /\ UNCHANGED <<storeVars, actuation, solution_of, version_of, plan_counter,
                 call, handlerVars, workerVars, catalog, restarts>>

PublishFails ==
  /\ phase = "publish"
  /\ phase' = "idle"
  /\ UNCHANGED <<storeVars, actuation, solution_of, version_of, plan_counter,
                 call, handlerVars, workerVars, redisVars, restarts>>

-----------------------------------------------------------------------------
(* The controller stops or crashes and starts again.                       *)

initial_plan_version == 0

Restart ==
  /\ restarts < MaxRestarts
  /\ restarts' = restarts + 1
  /\ current_solution' = NoSolution /\ pending' = NoSolution
  /\ phase' = "idle"
  /\ plan_counter' = initial_plan_version
  /\ call' = [w \in Workers |-> "none"]
  /\ UNCHANGED <<puts, actuation, solution_of, version_of, handlerVars,
                 workerVars, redisVars>>

-----------------------------------------------------------------------------
(* prepare_plan on worker w, for actuation a.                              *)

PlanOfRequest(a, w) == PlanOf[solution_of[a]][w]
NextHop(a, w) == PlanOfRequest(a, w).executable_hops[preparing[a][w].at]
HopsLeft(a, w) ==
  preparing[a][w].at <= Len(PlanOfRequest(a, w).executable_hops)

Goes(a, w, pc) == preparing' = [preparing EXCEPT ![a][w].pc = pc]
GoesToNextHop(a, w) ==
  preparing' = [preparing EXCEPT ![a][w] = Request("loading", @.at + 1)]

ReceivePrepare(a, w) ==
  /\ preparing[a][w].pc = "requested"
  /\ Goes(a, w, "loading")
  /\ UNCHANGED <<storeVars, controllerVars, applying, workerVars, redisVars,
                 restarts>>

HasExecutor(a, w) == <<w, version_of[a], NextHop(a, w)>> \in executors

SkipExecutor(a, w) ==
  /\ preparing[a][w].pc = "loading" /\ HopsLeft(a, w)
  /\ HasExecutor(a, w)
  /\ GoesToNextHop(a, w)
  /\ UNCHANGED <<storeVars, controllerVars, applying, workerVars, redisVars,
                 restarts>>

\* The executor is missing: its artifact is downloaded, and it is created.
LoadExecutor(a, w) ==
  /\ preparing[a][w].pc = "loading" /\ HopsLeft(a, w)
  /\ ~HasExecutor(a, w)
  /\ Goes(a, w, "creating")
  /\ UNCHANGED <<storeVars, controllerVars, applying, workerVars, redisVars,
                 restarts>>

RegisterExecutor(a, w) ==
  /\ preparing[a][w].pc = "creating"
  /\ ~HasExecutor(a, w)
  /\ executors' = executors \cup {<<w, version_of[a], NextHop(a, w)>>}
  /\ GoesToNextHop(a, w)
  /\ UNCHANGED <<storeVars, controllerVars, applying, plans, prepared_versions,
                 active_version, redisVars, restarts>>

\* The reference cannot be read, the artifact not downloaded or the executor
\* not created; or another request registered the executor meanwhile.
CreatingFails(a, w) ==
  /\ preparing[a][w].pc = "creating"
  /\ Goes(a, w, "failed")
  /\ UNCHANGED <<storeVars, controllerVars, applying, workerVars, redisVars,
                 restarts>>

\* Mutant of registered: ingresses and sinks are not registered.
registered_executable(a, w) ==
  [catalog EXCEPT ![version_of[a]] =
     [h \in Hops |-> IF h \in ExecutableHops(solution_of[a], w) THEN w ELSE @[h]]]

registered(a, w) ==
  [catalog EXCEPT ![version_of[a]] =
     [h \in Hops |-> IF h \in planned_hops(solution_of[a], w) THEN w ELSE @[h]]]

RegisterHops(a, w) ==
  /\ preparing[a][w].pc = "loading" /\ ~HopsLeft(a, w)
  /\ catalog' = registered(a, w)
  /\ Goes(a, w, "registered")
  /\ UNCHANGED <<storeVars, controllerVars, applying, workerVars, flow_plans,
                 active_flow_version, restarts>>

\* A Redis error, whether or not the command took effect.
RegisterHopsFails(a, w) ==
  /\ preparing[a][w].pc = "loading" /\ ~HopsLeft(a, w)
  /\ catalog' \in {catalog, registered(a, w)}
  /\ Goes(a, w, "failed")
  /\ UNCHANGED <<storeVars, controllerVars, applying, workerVars, flow_plans,
                 active_flow_version, restarts>>

StoredPlan(a, w) == plans[w][version_of[a]]

\* Mutant of conflicts: a plan of a known version is overwritten.
never_conflicts(a, w) == FALSE

\* put_plan compares the plans themselves.
conflicts(a, w) ==
  /\ StoredPlan(a, w) # NoSolution
  /\ PlanOf[StoredPlan(a, w)][w] # PlanOfRequest(a, w)

PutPlan(a, w) ==
  /\ preparing[a][w].pc = "registered"
  /\ ~conflicts(a, w)
  /\ plans' = [plans EXCEPT ![w][version_of[a]] = solution_of[a]]
  /\ prepared_versions' =
       [prepared_versions EXCEPT ![w] = @ \cup {version_of[a]}]
  /\ Goes(a, w, "done")
  /\ UNCHANGED <<storeVars, controllerVars, applying, executors,
                 active_version, redisVars, restarts>>

PutDuplicatePlan(a, w) ==
  /\ preparing[a][w].pc = "registered"
  /\ conflicts(a, w)
  /\ Goes(a, w, "failed")
  /\ UNCHANGED <<storeVars, controllerVars, applying, workerVars, redisVars,
                 restarts>>

\* apply_plan on worker w: activate_plan finds what was prepared.
Apply(a, w) ==
  /\ applying[a][w] = "requested"
  /\ version_of[a] \in prepared_versions[w]
  /\ active_version' = [active_version EXCEPT ![w] = version_of[a]]
  /\ applying' = [applying EXCEPT ![a][w] = "done"]
  /\ UNCHANGED <<storeVars, controllerVars, preparing, executors, plans,
                 prepared_versions, redisVars, restarts>>

-----------------------------------------------------------------------------
WorkerStep(a, w) ==
  \/ ReceivePrepare(a, w) \/ SkipExecutor(a, w) \/ LoadExecutor(a, w)
  \/ RegisterExecutor(a, w) \/ CreatingFails(a, w)
  \/ RegisterHops(a, w) \/ RegisterHopsFails(a, w)
  \/ PutPlan(a, w) \/ PutDuplicatePlan(a, w) \/ Apply(a, w)

CallEnds(w) == Reply(w) \/ CallFails(w)

PhaseEnds ==
  \/ BuildPartitionsFails \/ ConversionFails \/ StartDeploy
  \/ PhaseFails \/ StartApply \/ StartPublish
  \/ PublishFlowPlans \/ PublishFails

Next ==
  \/ \E s \in Solutions : PutSolution(s)
  \/ ObserveNewSolution
  \/ PhaseEnds
  \/ \E w \in Workers : CallEnds(w)
  \/ \E a \in Actuations, w \in Workers : WorkerStep(a, w)
  \/ Restart

Spec == Init /\ [][Next]_vars

\* The event loop of the controller runs what is ready, and its HTTP and Redis
\* clients time out; nothing is assumed of the workers.
Fairness ==
  /\ WF_vars(ObserveNewSolution)
  /\ WF_vars(PhaseEnds)
  /\ \A w \in Workers : WF_vars(CallEnds(w))

FairSpec == Spec /\ Fairness

-----------------------------------------------------------------------------
Phases == {"idle", "build", "deploy", "apply", "publish"}
Calls == {"none", "sent", "ok", "error"}
PrepareStates ==
  {"none", "requested", "loading", "creating", "registered", "done", "failed"}

\* Type invariant: what can be stored where.
TypeOK ==
  /\ {current_solution, pending} \subseteq Solutions \cup {NoSolution}
  /\ puts \in 0 .. MaxPuts /\ restarts \in 0 .. MaxRestarts
  /\ phase \in Phases
  /\ actuation \in 0 .. MaxPuts /\ plan_counter \in 0 .. MaxPuts
  /\ solution_of \in [Actuations -> Solutions \cup {NoSolution}]
  /\ version_of \in [Actuations -> 0 .. MaxPuts]
  /\ call \in [Workers -> Calls]
  /\ preparing \in
       [Actuations -> [Workers -> [pc : PrepareStates, at : Nat \ {0}]]]
  /\ applying \in [Actuations -> [Workers -> {"none", "requested", "done"}]]
  /\ executors \subseteq Workers \X Versions \X Hops
  /\ plans \in [Workers -> [Versions -> Solutions \cup {NoSolution}]]
  /\ prepared_versions \in [Workers -> SUBSET Versions]
  /\ active_version \in [Workers -> 0 .. MaxPuts]
  /\ catalog \in [Versions -> [Hops -> Workers \cup {NoWorker}]]
  /\ flow_plans \in [Flows -> [Versions -> 0 .. MaxPuts]]
  /\ active_flow_version \in [Flows -> 0 .. MaxPuts]

Published(f, v) == flow_plans[f][v] # 0
PublishedSolution(f, v) == solution_of[flow_plans[f][v]]

Stores(w, v, s) ==
  /\ plans[w][v] # NoSolution
  /\ PlanOf[plans[w][v]][w] = PlanOf[s][w]

\* A flow plan in Redis names a version under which every worker of the flow's
\* solution stores exactly its part of that solution: whatever requests of
\* other actuations are still running, and even when a restarted controller
\* uses the version again ("Publish after all workers apply").
PublishedPlansAreStored ==
  \A f \in Flows, v \in Versions : Published(f, v) =>
    \A w \in Involved(PublishedSolution(f, v)) :
      Stores(w, v, PublishedSolution(f, v))

\* As long as the controller has not restarted, an inference under a published
\* version finds all it needs: every hop of the solution has its executor on
\* its worker, and the catalog says that worker.
PublishedHopsAreDeployed ==
  restarts = 0 =>
    \A f \in Flows, v \in Versions : Published(f, v) =>
      \A w \in Involved(PublishedSolution(f, v)) :
        /\ \A h \in ExecutableHops(PublishedSolution(f, v), w) :
             <<w, v, h>> \in executors
        /\ \A h \in planned_hops(PublishedSolution(f, v), w) :
             catalog[v][h] = w

\* "Identifier of a partition replica system-wide for a specific version of
\* the plan": the executors of a version never give one replica two workers.
ReplicaIdsAreSystemWide ==
  \A e, x \in executors : e[2] = x[2] /\ e[3] = x[3] => e[1] = x[1]

\* What flow f is served with: the actuation whose plan its active version names.
ServedBy(f) ==
  IF active_flow_version[f] = 0 THEN 0 ELSE flow_plans[f][active_flow_version[f]]

\* The actuation implements what it promises: a flow is switched to a solution
\* only after every worker of that solution has applied it, and only ever to a
\* newer one.
Publication ==
  INSTANCE PlanPublication WITH
    chosen <- solution_of,
    ready <- {p \in Actuations \X Workers : applying[p[1]][p[2]] = "done"},
    serving <- [f \in Flows |-> ServedBy(f)]

ImplementsPublication == Publication!Spec

\* No worker, however slow, keeps the controller from the newest solution: when
\* one waits, the controller comes to a point where the newest solution it has
\* been given is the one it has taken up last.
NewestSolutionIsActuated ==
  pending # NoSolution
    ~> /\ pending = NoSolution
       /\ \/ current_solution = NoSolution
          \/ actuation > 0 /\ solution_of[actuation] = current_solution
=============================================================================
