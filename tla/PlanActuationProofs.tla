------------------------ MODULE PlanActuationProofs ------------------------
(***************************************************************************)
(* What the runs of PlanActuation check, for every set of workers, flows   *)
(* and solutions.                                                          *)
(*                                                                         *)
(* The argument follows a request: once the worker has answered that a     *)
(* plan is prepared, it stores that plan, whatever else happens, because   *)
(* put_plan never replaces a different plan (Stored); a phase goes on only *)
(* when every worker has answered (Phases); so what is published was       *)
(* prepared everywhere (Publications).                                     *)
(***************************************************************************)
EXTENDS PlanActuation, TLAPS

Active == phase # "idle"

\* Actuations are observed in order, at most one per solution put, and versions
\* are used up by them.
Counters ==
  /\ actuation <= puts
  /\ pending # NoSolution => actuation < puts
  /\ plan_counter <= actuation
  /\ Active => /\ actuation \in Actuations
               /\ solution_of[actuation] \in Solutions
  /\ phase = "build" => /\ plan_counter < actuation
                        /\ version_of[actuation] = 0
  /\ phase \in {"deploy", "apply", "publish"} =>
       version_of[actuation] \in Versions
  /\ \A a \in Actuations : a > actuation =>
       solution_of[a] = NoSolution /\ version_of[a] = 0

\* A request on a worker is about a solution with a version and a part for the
\* worker.
IsAboutPlan(a, w) ==
  /\ a <= actuation
  /\ solution_of[a] \in Solutions
  /\ w \in Involved(solution_of[a])
  /\ version_of[a] \in Versions

Requests ==
  \A a \in Actuations, w \in Workers :
    /\ preparing[a][w].pc # "none" => IsAboutPlan(a, w)
    /\ preparing[a][w].pc = "creating" => HopsLeft(a, w)
    /\ applying[a][w] # "none" => IsAboutPlan(a, w)

Prepared(a, w) == preparing[a][w].pc = "done"
Applied(a, w) == applying[a][w] = "done"

\* What the controller knows of the workers in each phase.
PhaseFacts ==
  /\ phase \in {"build", "deploy"} =>
       \A w \in Workers : applying[actuation][w] = "none"
  /\ phase \in {"deploy", "apply"} =>
       \A w \in Involved(Solution) : call[w] # "none"
  /\ phase = "deploy" =>
       \A w \in Workers : call[w] = "ok" => Prepared(actuation, w)
  /\ phase \in {"apply", "publish"} =>
       \A w \in Involved(Solution) : Prepared(actuation, w)
  /\ phase = "apply" =>
       \A w \in Workers : call[w] = "ok" => Applied(actuation, w)
  /\ phase = "publish" =>
       \A w \in Involved(Solution) : Applied(actuation, w)

\* A worker that has prepared a plan stores it.
Stored ==
  \A a \in Actuations, w \in Workers :
    Prepared(a, w) => Stores(w, version_of[a], solution_of[a])

\* A published flow plan belongs to a former actuation, which built the version
\* and was prepared by all its workers.
Publications ==
  \A f \in Flows, v \in Versions : flow_plans[f][v] # 0 =>
    LET a == flow_plans[f][v] IN
    /\ a \in Actuations
    /\ a <= actuation
    /\ Active => a < actuation
    /\ version_of[a] = v
    /\ solution_of[a] \in Solutions
    /\ \A w \in Involved(solution_of[a]) : Prepared(a, w)

Inv ==
  TypeOK /\ Counters /\ Requests /\ PhaseFacts /\ Stored /\ Publications

-----------------------------------------------------------------------------
(* Facts about solutions, and about how actions change requests.           *)

\* A worker's part of a solution names hops of the system (SolutionAssumption).
LEMMA HopsOfSolution ==
  ASSUME NEW s \in Solutions, NEW w \in Involved(s)
  PROVE  /\ w \in Workers
         /\ planned_hops(s, w) \subseteq Hops
         /\ Len(executable_hops(s, w)) \in Nat
         /\ \A n \in 1 .. Len(executable_hops(s, w)) :
              /\ executable_hops(s, w)[n] \in ExecutableHops(s, w)
              /\ executable_hops(s, w)[n] \in planned_hops(s, w)
              /\ executable_hops(s, w)[n] \in Hops
<1>1. /\ w \in Workers
      /\ planned_hops(s, w) \subseteq Hops
      /\ Len(executable_hops(s, w)) \in Nat
      /\ DOMAIN executable_hops(s, w) = 1 .. Len(executable_hops(s, w))
  BY SolutionAssumption
<1>2. \A n \in 1 .. Len(executable_hops(s, w)) :
         executable_hops(s, w)[n] \in ExecutableHops(s, w)
  BY <1>1 DEF ExecutableHops
<1>3. ExecutableHops(s, w) \subseteq planned_hops(s, w)
  BY DEF planned_hops
<1> QED BY <1>1, <1>2, <1>3

\* A step of a handler changes that handler only.
LEMMA HandlerStep ==
  ASSUME TypeOK, NEW a \in Actuations, NEW w \in Workers,
         NEW pc \in PrepareStates, NEW at \in Nat \ {0},
         preparing' = [preparing EXCEPT ![a][w] = Request(pc, at)]
  PROVE  /\ preparing' \in
              [Actuations -> [Workers -> [pc : PrepareStates, at : Nat \ {0}]]]
         /\ preparing'[a][w].pc = pc
         /\ preparing'[a][w].at = at
         /\ \A b \in Actuations, x \in Workers :
              <<b, x>> # <<a, w>> => preparing'[b][x] = preparing[b][x]
BY DEF TypeOK, Request

\* Goes and GoesToNextHop are such steps.
LEMMA GoesSteps ==
  ASSUME TypeOK, NEW a \in Actuations, NEW w \in Workers
  PROVE  /\ \A pc \in PrepareStates : Goes(a, w, pc) =>
              preparing' =
                [preparing EXCEPT ![a][w] = Request(pc, preparing[a][w].at)]
         /\ GoesToNextHop(a, w) =>
              preparing' = [preparing EXCEPT ![a][w] =
                Request("loading", preparing[a][w].at + 1)]
         /\ preparing[a][w].at \in Nat \ {0}
         /\ preparing[a][w].pc \in PrepareStates
<1>1. preparing[a] \in [Workers -> [pc : PrepareStates, at : Nat \ {0}]]
  BY DEF TypeOK
<1>2. preparing[a][w] \in [pc : PrepareStates, at : Nat \ {0}]
  BY <1>1
<1>3. ASSUME NEW pc \in PrepareStates
      PROVE  [preparing[a][w] EXCEPT !.pc = pc]
               = Request(pc, preparing[a][w].at)
  BY <1>2 DEF Request
<1>4. ASSUME NEW pc \in PrepareStates, Goes(a, w, pc)
      PROVE  preparing' =
               [preparing EXCEPT ![a][w] = Request(pc, preparing[a][w].at)]
  BY <1>3, <1>4 DEF Goes
<1> QED BY <1>2, <1>4 DEF GoesToNextHop

-----------------------------------------------------------------------------
(* What an action changes.                                                 *)

\* The controller's own steps, the replies, and the workers leave alone what is
\* not theirs.
LEMMA Frames ==
  ASSUME NEW s, NEW a, NEW w
  PROVE  /\ PutSolution(s) =>
              UNCHANGED <<controllerVars, handlerVars, workerVars, redisVars,
                          restarts>>
         /\ CallEnds(w) =>
              UNCHANGED <<storeVars, phase, actuation, solution_of, version_of,
                          plan_counter, handlerVars, workerVars, redisVars,
                          restarts>>
         /\ WorkerStep(a, w) =>
              UNCHANGED <<storeVars, controllerVars, flow_plans,
                          active_flow_version, restarts>>
         /\ PhaseEnds \/ ObserveNewSolution =>
              UNCHANGED <<current_solution, puts, workerVars, catalog,
                          restarts>>
BY DEF PutSolution, CallEnds, Reply, CallFails, WorkerStep, ReceivePrepare,
       SkipExecutor, LoadExecutor, RegisterExecutor, CreatingFails,
       RegisterHops, RegisterHopsFails, PutPlan, PutDuplicatePlan, Apply,
       PhaseEnds, ObserveNewSolution, BuildPartitionsFails, ConversionFails,
       StartDeploy, PhaseFails, StartApply, StartPublish, PublishFlowPlans,
       PublishFails, storeVars, controllerVars, handlerVars, workerVars,
       redisVars

\* The parts of the type invariant the workers' steps disturb.
LEMMA WorkerStepTypes ==
  ASSUME TypeOK, Counters, Requests,
         NEW a \in Actuations, NEW w \in Workers, WorkerStep(a, w)
  PROVE  TypeOK'
<1> USE GoesSteps, HandlerStep DEF PrepareStates
<1>1. UNCHANGED <<current_solution, pending, puts, phase, actuation,
                  solution_of, version_of, plan_counter, call, flow_plans,
                  active_flow_version, restarts>>
  BY Frames DEF storeVars, controllerVars
<1>2. preparing[a][w].at \in Nat \ {0} /\ preparing[a][w].at + 1 \in Nat \ {0}
  OBVIOUS
<1>3. CASE \/ ReceivePrepare(a, w) \/ SkipExecutor(a, w) \/ LoadExecutor(a, w)
           \/ CreatingFails(a, w) \/ PutDuplicatePlan(a, w)
  <2>1. preparing' \in
          [Actuations -> [Workers -> [pc : PrepareStates, at : Nat \ {0}]]]
    BY <1>2, <1>3 DEF ReceivePrepare, SkipExecutor, LoadExecutor,
                      CreatingFails, PutDuplicatePlan
  <2>2. UNCHANGED <<applying, executors, plans, prepared_versions,
                    active_version, catalog>>
    BY <1>3 DEF ReceivePrepare, SkipExecutor, LoadExecutor, CreatingFails,
                PutDuplicatePlan, workerVars, redisVars
  <2> QED BY <1>1, <2>1, <2>2 DEF TypeOK
<1>4. CASE RegisterExecutor(a, w)
  <2>1. preparing' \in
          [Actuations -> [Workers -> [pc : PrepareStates, at : Nat \ {0}]]]
    BY <1>2, <1>4 DEF RegisterExecutor
  <2>2. IsAboutPlan(a, w) /\ HopsLeft(a, w)
    BY <1>4 DEF RegisterExecutor, Requests
  <2>3. NextHop(a, w) \in Hops
    BY <2>2, <1>2, HopsOfSolution
       DEF NextHop, HopsLeft, IsAboutPlan, PlanOfRequest, executable_hops
  <2>4. executors' \subseteq Workers \X Versions \X Hops
    BY <1>4, <2>2, <2>3 DEF RegisterExecutor, TypeOK, IsAboutPlan
  <2> QED BY <1>1, <1>4, <2>1, <2>4 DEF TypeOK, RegisterExecutor, redisVars
<1>5. CASE RegisterHops(a, w) \/ RegisterHopsFails(a, w)
  <2>1. preparing' \in
          [Actuations -> [Workers -> [pc : PrepareStates, at : Nat \ {0}]]]
    BY <1>5 DEF RegisterHops, RegisterHopsFails
  <2>a. version_of[a] \in Versions
    BY <1>5 DEF RegisterHops, RegisterHopsFails, Requests, IsAboutPlan
  <2>b. [h \in Hops |-> IF h \in planned_hops(solution_of[a], w) THEN w
                        ELSE catalog[version_of[a]][h]]
          \in [Hops -> Workers \cup {NoWorker}]
    BY <2>a DEF TypeOK
  <2>2. registered(a, w) \in [Versions -> [Hops -> Workers \cup {NoWorker}]]
    BY <2>b DEF registered, TypeOK
  <2>3. catalog' \in [Versions -> [Hops -> Workers \cup {NoWorker}]]
    BY <1>5, <2>2 DEF RegisterHops, RegisterHopsFails, TypeOK
  <2> QED BY <1>1, <1>5, <2>1, <2>3
          DEF TypeOK, RegisterHops, RegisterHopsFails, workerVars
<1>6. CASE PutPlan(a, w)
  <2>1. preparing' \in
          [Actuations -> [Workers -> [pc : PrepareStates, at : Nat \ {0}]]]
    BY <1>6 DEF PutPlan
  <2>2. IsAboutPlan(a, w)
    BY <1>6 DEF PutPlan, Requests
  <2>3. plans' \in [Workers -> [Versions -> Solutions \cup {NoSolution}]]
    BY <1>6, <2>2 DEF PutPlan, IsAboutPlan, TypeOK
  <2>4. prepared_versions' \in [Workers -> SUBSET Versions]
    BY <1>6, <2>2 DEF PutPlan, IsAboutPlan, TypeOK
  <2> QED BY <1>1, <1>6, <2>1, <2>3, <2>4 DEF TypeOK, PutPlan, redisVars
<1>7. CASE Apply(a, w)
  <2>1. IsAboutPlan(a, w)
    BY <1>7 DEF Apply, Requests
  <2>2. active_version' \in [Workers -> 0 .. MaxPuts]
    BY <1>7, <2>1 DEF Apply, IsAboutPlan, TypeOK, Versions
  <2>3. applying' \in [Actuations -> [Workers -> {"none", "requested", "done"}]]
    BY <1>7 DEF Apply, TypeOK
  <2> QED BY <1>1, <1>7, <2>2, <2>3 DEF TypeOK, Apply, redisVars
<1> QED BY <1>3, <1>4, <1>5, <1>6, <1>7 DEF WorkerStep

\* A worker's step starts no request and undoes none that is done.
LEMMA WorkerStepHandlers ==
  ASSUME TypeOK, Requests,
         NEW a \in Actuations, NEW w \in Workers, WorkerStep(a, w)
  PROVE  /\ \A b \in Actuations, x \in Workers :
              /\ preparing'[b][x].pc # "none" => preparing[b][x].pc # "none"
              /\ Prepared(b, x) => Prepared(b, x)'
              /\ applying'[b][x] # "none" => applying[b][x] # "none"
              /\ applying[b][x] = "none" => applying'[b][x] = "none"
              /\ Applied(b, x) => Applied(b, x)'
              /\ preparing'[b][x].pc = "creating" =>
                   /\ preparing'[b][x].at = preparing[b][x].at
                   /\ HopsLeft(b, x)
<1>1. CASE \/ ReceivePrepare(a, w) \/ SkipExecutor(a, w) \/ LoadExecutor(a, w)
           \/ RegisterExecutor(a, w) \/ CreatingFails(a, w)
           \/ RegisterHops(a, w) \/ RegisterHopsFails(a, w)
           \/ PutPlan(a, w) \/ PutDuplicatePlan(a, w)
  <2>1. UNCHANGED applying
    BY <1>1 DEF ReceivePrepare, SkipExecutor, LoadExecutor, RegisterExecutor,
       CreatingFails, RegisterHops, RegisterHopsFails, PutPlan, PutDuplicatePlan
  <2>2. preparing[a][w].pc \notin {"none", "done"}
    BY <1>1 DEF ReceivePrepare, SkipExecutor, LoadExecutor, RegisterExecutor,
       CreatingFails, RegisterHops, RegisterHopsFails, PutPlan, PutDuplicatePlan
  <2>3. PICK pc \in PrepareStates, at \in Nat \ {0} :
          /\ preparing' = [preparing EXCEPT ![a][w] = Request(pc, at)]
          /\ pc # "none"
          /\ pc = "creating" => at = preparing[a][w].at /\ HopsLeft(a, w)
    BY <1>1, GoesSteps DEF PrepareStates, ReceivePrepare, SkipExecutor, LoadExecutor, RegisterExecutor,
       CreatingFails, RegisterHops, RegisterHopsFails, PutPlan, PutDuplicatePlan
  <2>4. /\ preparing'[a][w].pc = pc /\ preparing'[a][w].at = at
        /\ \A b \in Actuations, x \in Workers :
             <<b, x>> # <<a, w>> => preparing'[b][x] = preparing[b][x]
    BY <2>3 DEF TypeOK, Request
  <2>5. ASSUME NEW b \in Actuations, NEW x \in Workers
        PROVE  /\ preparing'[b][x].pc # "none" => preparing[b][x].pc # "none"
               /\ Prepared(b, x) => Prepared(b, x)'
               /\ preparing'[b][x].pc = "creating" =>
                    /\ preparing'[b][x].at = preparing[b][x].at
                    /\ HopsLeft(b, x)
    <3>1. CASE <<b, x>> = <<a, w>>
      BY <2>2, <2>3, <2>4, <3>1 DEF Prepared
    <3>2. CASE <<b, x>> # <<a, w>>
      BY <2>4, <3>2 DEF Prepared, Requests
    <3> QED BY <3>1, <3>2
  <2> QED BY <2>1, <2>5 DEF Applied
<1>2. CASE Apply(a, w)
  BY <1>2 DEF Apply, Prepared, Applied, Requests, TypeOK
<1> QED BY <1>1, <1>2 DEF WorkerStep

\* put_plan keeps what is stored, up to equality of plans.
LEMMA WorkerStepStored ==
  ASSUME TypeOK, Requests, Stored,
         NEW a \in Actuations, NEW w \in Workers, WorkerStep(a, w)
  PROVE  Stored'
<1>1. UNCHANGED <<solution_of, version_of>>
  BY Frames DEF controllerVars
<1>2. CASE UNCHANGED plans /\ preparing'[a][w].pc # "done"
  <2>1. \A b \in Actuations, x \in Workers : Prepared(b, x)' => Prepared(b, x)
    <3>1. CASE Apply(a, w)
      BY <3>1 DEF Apply, Prepared
    <3>2. CASE ~Apply(a, w)
      <4>1. PICK pc \in PrepareStates, at \in Nat \ {0} :
              preparing' = [preparing EXCEPT ![a][w] = Request(pc, at)]
        BY <3>2, GoesSteps DEF WorkerStep, ReceivePrepare, SkipExecutor,
           LoadExecutor, RegisterExecutor, CreatingFails, RegisterHops,
           RegisterHopsFails, PutPlan, PutDuplicatePlan, PrepareStates
      <4> QED BY <4>1, <1>2, HandlerStep DEF Prepared
    <3> QED BY <3>1, <3>2
  <2> QED BY <1>1, <1>2, <2>1 DEF Stored, Stores
<1>3. CASE UNCHANGED plans /\ preparing'[a][w].pc = "done" /\ ~PutPlan(a, w)
  <2>1. Apply(a, w)
    <3>1. SUFFICES ASSUME ~Apply(a, w) PROVE FALSE
      OBVIOUS
    <3>2. PICK pc \in PrepareStates, at \in Nat \ {0} :
            /\ preparing' = [preparing EXCEPT ![a][w] = Request(pc, at)]
            /\ pc # "done"
      BY <1>3, <3>1, GoesSteps DEF WorkerStep, ReceivePrepare, SkipExecutor,
         LoadExecutor, RegisterExecutor, CreatingFails, RegisterHops,
         RegisterHopsFails, PutDuplicatePlan, PrepareStates
    <3> QED BY <1>3, <3>2, HandlerStep
  <2> QED BY <1>1, <1>3, <2>1 DEF Apply, Stored, Stores, Prepared
<1>4. CASE PutPlan(a, w)
  <2>1. IsAboutPlan(a, w)
    BY <1>4 DEF PutPlan, Requests
  <2>2. /\ version_of[a] \in Versions
        /\ solution_of[a] \in Solutions
        /\ solution_of[a] # NoSolution
    BY <2>1, SolutionAssumption DEF IsAboutPlan
  <2>3. /\ plans'[w][version_of[a]] = solution_of[a]
        /\ \A x \in Workers, v \in Versions :
             <<x, v>> # <<w, version_of[a]>> => plans'[x][v] = plans[x][v]
    BY <1>4, <2>2 DEF PutPlan, TypeOK
  <2>4. preparing' =
          [preparing EXCEPT ![a][w] = Request("done", preparing[a][w].at)]
    BY <1>4, GoesSteps DEF PutPlan, PrepareStates
  <2>5. \A b \in Actuations, x \in Workers :
           <<b, x>> # <<a, w>> => preparing'[b][x] = preparing[b][x]
    BY <2>4, HandlerStep, GoesSteps DEF PrepareStates
  <2>6. plans[w][version_of[a]] # NoSolution =>
          PlanOf[plans[w][version_of[a]]][w] = PlanOf[solution_of[a]][w]
    BY <1>4 DEF PutPlan, conflicts, StoredPlan, PlanOfRequest
  <2>7. ASSUME NEW b \in Actuations, NEW x \in Workers, Prepared(b, x)'
        PROVE  Stores(x, version_of[b], solution_of[b])'
    <3>1. CASE <<b, x>> = <<a, w>>
      BY <1>1, <2>2, <2>3, <3>1 DEF Stores
    <3>2. CASE <<b, x>> # <<a, w>>
      <4>1. Prepared(b, x)
        BY <2>5, <2>7, <3>2 DEF Prepared
      <4>2. Stores(x, version_of[b], solution_of[b]) /\ version_of[b] \in Versions
        BY <4>1 DEF Stored, Requests, IsAboutPlan, Prepared
      <4> QED BY <1>1, <2>2, <2>3, <2>6, <4>2 DEF Stores
    <3> QED BY <3>1, <3>2
  <2> QED BY <2>7 DEF Stored
<1>5. ~PutPlan(a, w) => UNCHANGED plans
  BY DEF WorkerStep, ReceivePrepare, SkipExecutor, LoadExecutor,
     RegisterExecutor, CreatingFails, RegisterHops, RegisterHopsFails,
     PutDuplicatePlan, Apply, workerVars
<1> QED BY <1>2, <1>3, <1>4, <1>5

\* A worker's step preserves the invariant.
LEMMA WorkerStepInv ==
  ASSUME Inv, NEW a \in Actuations, NEW w \in Workers, WorkerStep(a, w)
  PROVE  Inv'
<1> USE DEF Inv
<1>1. UNCHANGED <<storeVars, controllerVars, flow_plans>>
  BY Frames
<1>2. TypeOK'
  BY WorkerStepTypes
<1>3. Counters'
  BY <1>1 DEF Counters, Active, storeVars, controllerVars
<1>4. Requests'
  BY <1>1, WorkerStepHandlers
     DEF Requests, IsAboutPlan, HopsLeft, PlanOfRequest, controllerVars
<1>5. PhaseFacts'
  <2>1. phase # "idle" => actuation \in Actuations /\ Involved(Solution) \subseteq Workers
    BY SolutionAssumption DEF Counters, Active, Solution
  <2> QED BY <1>1, <2>1, WorkerStepHandlers DEF PhaseFacts, Solution, controllerVars
<1>6. Stored'
  BY WorkerStepStored
<1>7. Publications'
  <2>1. \A s \in Solutions : Involved(s) \subseteq Workers
    BY SolutionAssumption
  <2> QED BY <1>1, <2>1, WorkerStepHandlers
          DEF Publications, Active, controllerVars
<1> QED BY <1>2, <1>3, <1>4, <1>5, <1>6, <1>7

-----------------------------------------------------------------------------
(* The controller's steps.                                                 *)

\* While an actuation runs, the controller speaks of known workers only.
LEMMA ActiveFacts ==
  ASSUME TypeOK, Counters, Active
  PROVE  /\ actuation \in Actuations
         /\ Solution \in Solutions
         /\ Solution # NoSolution
         /\ Involved(Solution) \subseteq Workers
BY SolutionAssumption DEF Counters, Solution

\* A submitted solution changes the store only.
LEMMA PutSolutionInv ==
  ASSUME Inv, NEW s \in Solutions, PutSolution(s)
  PROVE  Inv'
<1> USE DEF Inv
<1>1. UNCHANGED <<phase, actuation, solution_of, version_of, plan_counter, call,
                  handlerVars, workerVars, redisVars, restarts>>
  BY DEF PutSolution, controllerVars
<1>2. TypeOK'
  BY <1>1, SolutionAssumption
     DEF TypeOK, PutSolution, replaced_by, handlerVars, workerVars, redisVars
<1>3. Counters'
  BY <1>1 DEF Counters, Active, PutSolution, TypeOK
<1>4. Requests' /\ PhaseFacts' /\ Stored' /\ Publications'
  BY <1>1 DEF Requests, IsAboutPlan, HopsLeft, PlanOfRequest, PhaseFacts,
     Prepared, Applied, Solution, Stored, Stores, Publications, Active,
     handlerVars, workerVars, redisVars
<1> QED BY <1>2, <1>3, <1>4

\* The pending solution becomes the next actuation's.
LEMMA ObserveInv ==
  ASSUME Inv, ObserveNewSolution
  PROVE  Inv'
<1> USE DEF Inv
<1>1. /\ phase = "idle" /\ phase' = "build"
      /\ pending \in Solutions /\ pending' = NoSolution
      /\ actuation' = actuation + 1 /\ actuation + 1 \in Actuations
      /\ solution_of' = [solution_of EXCEPT ![actuation + 1] = pending]
      /\ UNCHANGED <<current_solution, puts, version_of, plan_counter, call,
                     preparing, applying, workerVars, redisVars, restarts>>
  <2>1. /\ pending \in Solutions
        /\ actuation + 1 \in Actuations
    BY SolutionAssumption DEF ObserveNewSolution, Counters, TypeOK, Actuations
  <2> QED BY <2>1 DEF ObserveNewSolution, handlerVars
<1>2. /\ solution_of'[actuation + 1] = pending
      /\ \A a \in Actuations : a # actuation + 1 =>
           solution_of'[a] = solution_of[a]
  BY <1>1 DEF TypeOK
<1>3. \A a \in Actuations, w \in Workers :
         a > actuation =>
           preparing[a][w].pc = "none" /\ applying[a][w] = "none"
  BY DEF Requests, IsAboutPlan, TypeOK, Actuations
<1>4. TypeOK'
  BY <1>1 DEF TypeOK, Actuations, workerVars, redisVars, Phases
<1>5. Counters'
  <2>1. /\ actuation' <= puts'
        /\ actuation' \in Actuations
        /\ plan_counter' < actuation'
    BY <1>1, SolutionAssumption DEF ObserveNewSolution, Counters, TypeOK
  <2>2. solution_of'[actuation'] \in Solutions /\ version_of'[actuation'] = 0
    BY <1>1, <1>2 DEF Counters, TypeOK, Actuations
  <2>3. \A a \in Actuations : a > actuation' =>
           solution_of'[a] = NoSolution /\ version_of'[a] = 0
    BY <1>1, <1>2 DEF Counters, TypeOK, Actuations
  <2> QED BY <1>1, <2>1, <2>2, <2>3 DEF Counters, Active, TypeOK
<1>6. Requests'
  <2>1. ASSUME NEW a \in Actuations, NEW w \in Workers, IsAboutPlan(a, w)
        PROVE  IsAboutPlan(a, w)' /\ HopsLeft(a, w)' = HopsLeft(a, w)
    BY <1>1, <1>2, <2>1
       DEF IsAboutPlan, HopsLeft, PlanOfRequest, TypeOK, Actuations
  <2> QED BY <1>1, <2>1 DEF Requests
<1>7. PhaseFacts'
  BY <1>1, <1>3 DEF PhaseFacts, TypeOK, Actuations
<1>8. Stored'
  <2>1. \A a \in Actuations, w \in Workers :
           Prepared(a, w) => solution_of'[a] = solution_of[a]
    BY <1>2, <1>3 DEF Prepared, TypeOK, Actuations
  <2> QED BY <1>1, <2>1 DEF Stored, Stores, Prepared, workerVars
<1>9. Publications'
  <2>1. ASSUME NEW f \in Flows, NEW v \in Versions, flow_plans[f][v] # 0
        PROVE  /\ flow_plans[f][v] \in Actuations
               /\ flow_plans[f][v] <= actuation
               /\ solution_of'[flow_plans[f][v]] = solution_of[flow_plans[f][v]]
    BY <1>2, <2>1 DEF Publications, TypeOK, Actuations
  <2> QED BY <1>1, <2>1 DEF Publications, Prepared, Active, redisVars, TypeOK, Actuations
<1> QED BY <1>4, <1>5, <1>6, <1>7, <1>8, <1>9

\* An answer, or its absence, is noted.
LEMMA CallEndsInv ==
  ASSUME Inv, NEW w \in Workers, CallEnds(w)
  PROVE  Inv'
<1> USE DEF Inv
<1>1. /\ phase \in {"deploy", "apply"}
      /\ UNCHANGED <<storeVars, phase, actuation, solution_of, version_of,
                     plan_counter, handlerVars, workerVars, redisVars, restarts>>
  BY DEF CallEnds, Reply, CallFails
<1>2. PICK answer \in {"ok", "error"} :
        /\ call' = [call EXCEPT ![w] = answer]
        /\ answer = "ok" => Outcome(w) = "done"
  BY DEF CallEnds, Reply, CallFails
<1>3. TypeOK'
  BY <1>1, <1>2 DEF TypeOK, Calls, storeVars, handlerVars, workerVars, redisVars
<1>4. Counters'
  BY <1>1 DEF Counters, Active, storeVars
<1>6. Requests' /\ Stored'
  BY <1>1 DEF Requests, IsAboutPlan, HopsLeft, PlanOfRequest, Prepared, Stored,
     Stores, handlerVars, workerVars
<1>7. Publications'
  BY <1>1 DEF Publications, Prepared, Active, handlerVars, redisVars
<1>5. PhaseFacts'
  BY <1>1, <1>2, ActiveFacts DEF PhaseFacts, Prepared, Applied, Outcome, Solution, Active,
     handlerVars, TypeOK
<1> QED BY <1>3, <1>4, <1>5, <1>6, <1>7

\* A restart forgets what the controller keeps in memory.
LEMMA RestartInv ==
  ASSUME Inv, Restart
  PROVE  Inv'
<1> USE DEF Inv
<1>1. /\ phase' = "idle" /\ plan_counter' = 0
      /\ pending' = NoSolution /\ current_solution' = NoSolution
      /\ call' = [w \in Workers |-> "none"]
      /\ UNCHANGED <<puts, actuation, solution_of, version_of, handlerVars,
                     workerVars, redisVars>>
  BY DEF Restart, initial_plan_version
<1>2. TypeOK'
  <2>1. restarts' \in 0 .. MaxRestarts /\ plan_counter' \in 0 .. MaxPuts
    BY <1>1, SolutionAssumption DEF TypeOK, Restart
  <2> QED BY <1>1, <2>1
          DEF TypeOK, Calls, Phases, handlerVars, workerVars, redisVars
<1>3. Counters'
  BY <1>1 DEF Counters, Active, TypeOK
<1>4. Requests' /\ PhaseFacts' /\ Stored' /\ Publications'
  BY <1>1 DEF Requests, IsAboutPlan, HopsLeft, PlanOfRequest, PhaseFacts,
     Prepared, Stored, Stores, Publications, Active, handlerVars, workerVars,
     redisVars
<1> QED BY <1>2, <1>3, <1>4

\* A step that ends a phase without changing anything else.
LEMMA PhaseChangeInv ==
  ASSUME Inv,
         phase' = "idle" \/ (StartPublish /\ phase' = "publish"),
         UNCHANGED <<storeVars, actuation, solution_of, version_of,
                     plan_counter, call, handlerVars, workerVars, redisVars,
                     restarts>>
  PROVE  Inv'
<1> USE DEF Inv
<1>1. TypeOK'
  BY DEF TypeOK, Phases, storeVars, handlerVars, workerVars, redisVars
<1>2. Counters'
  BY DEF Counters, Active, storeVars, StartPublish
<1>3. Requests' /\ Stored'
  BY DEF Requests, IsAboutPlan, HopsLeft, PlanOfRequest, Prepared, Stored,
     Stores, handlerVars, workerVars
<1>4. Publications'
  BY DEF Publications, Prepared, Active, handlerVars, redisVars, StartPublish
<1>5. PhaseFacts'
  <2>1. CASE phase' = "idle"
    BY <2>1 DEF PhaseFacts
  <2>2. CASE StartPublish /\ phase' = "publish"
    <3>1. phase = "apply"
      BY <2>2 DEF StartPublish
    <3>2. Involved(Solution) \subseteq Workers
      BY <3>1, ActiveFacts DEF Active
    <3>3. \A w \in Involved(Solution) : call[w] = "ok"
      BY <2>2, <3>1, <3>2
         DEF StartPublish, Gathered, Failed, PhaseFacts, TypeOK, Calls
    <3> QED BY <2>2, <3>1, <3>2, <3>3
            DEF PhaseFacts, Prepared, Applied, Solution, handlerVars
  <2> QED BY <2>1, <2>2
<1> QED BY <1>1, <1>2, <1>3, <1>4, <1>5

\* The actuation takes its version: no request speaks of the actuation yet.
LEMMA VersionTaken ==
  ASSUME Inv, phase = "build",
         plan_counter' = next_plan_version,
         version_of' = [version_of EXCEPT ![actuation] = next_plan_version]
  PROVE  /\ actuation \in Actuations
         /\ plan_counter' \in 0 .. MaxPuts /\ plan_counter' <= actuation
         /\ version_of' \in [Actuations -> 0 .. MaxPuts]
         /\ version_of'[actuation] \in Versions
         /\ \A a \in Actuations : a # actuation => version_of'[a] = version_of[a]
         /\ \A w \in Workers : /\ preparing[actuation][w].pc = "none"
                               /\ applying[actuation][w] = "none"
         /\ \A f \in Flows, v \in Versions :
              flow_plans[f][v] # 0 => version_of'[flow_plans[f][v]] = v
<1> USE DEF Inv
<1>1. actuation \in Actuations /\ plan_counter < actuation
  BY DEF Counters, Active
<1>2. next_plan_version \in Versions /\ next_plan_version <= actuation
  BY <1>1, SolutionAssumption DEF next_plan_version, TypeOK, Versions, Actuations
<1>3. /\ version_of' \in [Actuations -> 0 .. MaxPuts]
      /\ version_of'[actuation] \in Versions
      /\ \A a \in Actuations : a # actuation => version_of'[a] = version_of[a]
  BY <1>1, <1>2 DEF TypeOK, Versions
<1>5. \A w \in Workers : ~IsAboutPlan(actuation, w)
  BY DEF Counters, IsAboutPlan, Versions
<1>6. \A w \in Workers : /\ preparing[actuation][w].pc = "none"
                         /\ applying[actuation][w] = "none"
  BY <1>1, <1>5 DEF Requests
<1>7. \A f \in Flows, v \in Versions :
         flow_plans[f][v] # 0 => version_of'[flow_plans[f][v]] = v
  BY <1>1, <1>3 DEF Publications, Active, Actuations
<1> QED BY <1>1, <1>2, <1>3, <1>6, <1>7 DEF Versions

\* A conversion that raises leaves its version unused.
LEMMA ConversionFailsInv ==
  ASSUME Inv, ConversionFails
  PROVE  Inv'
<1> USE DEF Inv
<1>1. /\ phase = "build" /\ phase' = "idle"
      /\ plan_counter' = next_plan_version
      /\ version_of' = [version_of EXCEPT ![actuation] = next_plan_version]
      /\ UNCHANGED <<storeVars, actuation, solution_of, call, handlerVars,
                     workerVars, redisVars, restarts>>
  BY DEF ConversionFails
<1>2. TypeOK'
  BY <1>1, VersionTaken
     DEF TypeOK, Phases, storeVars, handlerVars, workerVars, redisVars
<1>3. Counters'
  BY <1>1, VersionTaken DEF Counters, Active, TypeOK, Actuations, storeVars
<1>4. Requests'
  BY <1>1, VersionTaken
     DEF Requests, IsAboutPlan, HopsLeft, PlanOfRequest, handlerVars
<1>5. PhaseFacts'
  BY <1>1 DEF PhaseFacts
<1>6. Stored'
  BY <1>1, VersionTaken DEF Stored, Stores, Prepared, handlerVars, workerVars
<1>7. Publications'
  BY <1>1, VersionTaken DEF Publications, Prepared, Active, handlerVars, redisVars
<1> QED BY <1>2, <1>3, <1>4, <1>5, <1>6, <1>7

\* The requests to prepare go to the workers of the solution.
LEMMA StartDeployInv ==
  ASSUME Inv, StartDeploy
  PROVE  Inv'
<1> USE DEF Inv
<1>1. /\ phase = "build" /\ phase' = "deploy"
      /\ plan_counter' = next_plan_version
      /\ version_of' = [version_of EXCEPT ![actuation] = next_plan_version]
      /\ call' = ToAll
      /\ UNCHANGED <<storeVars, actuation, solution_of, applying, workerVars,
                     redisVars, restarts>>
  BY DEF StartDeploy
<1>2. /\ actuation \in Actuations /\ Solution \in Solutions
      /\ Involved(Solution) \subseteq Workers
  BY <1>1, ActiveFacts DEF Active
<1>3. \A w \in Workers :
         /\ preparing'[actuation][w] =
              IF Asked(w) THEN Request("requested", 1) ELSE Request("none", 1)
         /\ \A a \in Actuations :
              a # actuation => preparing'[a][w] = preparing[a][w]
  BY <1>2 DEF StartDeploy, TypeOK
<1>4. preparing' \in
        [Actuations -> [Workers -> [pc : PrepareStates, at : Nat \ {0}]]]
  <2>1. \A w \in Workers :
           (IF Asked(w) THEN Request("requested", 1) ELSE Request("none", 1))
             \in [pc : PrepareStates, at : Nat \ {0}]
    BY DEF Request, PrepareStates
  <2> QED BY <1>2, <2>1 DEF StartDeploy, TypeOK
<1>5. call' \in [Workers -> Calls]
  BY <1>1 DEF ToAll, Calls
<1>6. TypeOK'
  BY <1>1, <1>4, <1>5, VersionTaken
     DEF TypeOK, Phases, storeVars, workerVars, redisVars
<1>7. Counters'
  BY <1>1, <1>2, VersionTaken
     DEF Counters, Active, TypeOK, Actuations, Solution, storeVars
<1>8. Requests'
  <2> SUFFICES ASSUME NEW a \in Actuations, NEW w \in Workers
               PROVE  /\ preparing'[a][w].pc # "none" => IsAboutPlan(a, w)'
                      /\ preparing'[a][w].pc = "creating" => HopsLeft(a, w)'
                      /\ applying'[a][w] # "none" => IsAboutPlan(a, w)'
    BY DEF Requests
  <2>1. CASE a = actuation
    <3>1. applying'[a][w] = "none"
      BY <1>1, <2>1, VersionTaken
    <3>2. preparing'[a][w].pc # "none" => IsAboutPlan(a, w)'
      BY <1>1, <1>2, <1>3, <2>1, VersionTaken
         DEF IsAboutPlan, Asked, Solution, Request, Actuations
    <3>3. preparing'[a][w].pc # "creating"
      BY <1>3, <2>1 DEF Request
    <3> QED BY <3>1, <3>2, <3>3
  <2>2. CASE a # actuation
    BY <1>1, <1>3, <2>2, VersionTaken
       DEF Requests, IsAboutPlan, HopsLeft, PlanOfRequest
  <2> QED BY <2>1, <2>2
<1>9. PhaseFacts'
  BY <1>1, <1>2, VersionTaken DEF PhaseFacts, ToAll, Asked, Solution
<1>10. \A a \in Actuations, w \in Workers :
          /\ Prepared(a, w)' => Prepared(a, w) /\ a # actuation
          /\ Prepared(a, w) => Prepared(a, w)'
  BY <1>1, <1>3, VersionTaken DEF Prepared, Request
<1>11. Stored'
  BY <1>1, <1>10, VersionTaken DEF Stored, Stores, workerVars
<1>12. Publications'
  <2>1. \A s \in Solutions : Involved(s) \subseteq Workers
    BY SolutionAssumption
  <2> QED BY <1>1, <1>10, <2>1, VersionTaken DEF Publications, Active, redisVars
<1> QED BY <1>6, <1>7, <1>8, <1>9, <1>11, <1>12

\* The requests to apply go to workers that have all prepared the plan.
LEMMA StartApplyInv ==
  ASSUME Inv, StartApply
  PROVE  Inv'
<1> USE DEF Inv
<1>1. /\ phase = "deploy" /\ phase' = "apply"
      /\ call' = ToAll
      /\ UNCHANGED <<storeVars, actuation, solution_of, version_of,
                     plan_counter, preparing, workerVars, redisVars, restarts>>
  BY DEF StartApply
<1>2. /\ actuation \in Actuations /\ Solution \in Solutions
      /\ Involved(Solution) \subseteq Workers
  BY <1>1, ActiveFacts DEF Active
<1>3. \A w \in Workers :
         /\ applying'[actuation][w] = IF Asked(w) THEN "requested" ELSE "none"
         /\ \A a \in Actuations :
              a # actuation => applying'[a][w] = applying[a][w]
  BY <1>2 DEF StartApply, TypeOK
<1>4. applying' \in [Actuations -> [Workers -> {"none", "requested", "done"}]]
  BY <1>2 DEF StartApply, TypeOK
<1>5. call' \in [Workers -> Calls]
  BY <1>1 DEF ToAll, Calls
<1>6. TypeOK'
  BY <1>1, <1>4, <1>5 DEF TypeOK, Phases, storeVars, workerVars, redisVars
<1>7. Counters'
  BY <1>1 DEF Counters, Active, storeVars
<1>8. Requests'
  <2>1. \A w \in Workers : Asked(w) => IsAboutPlan(actuation, w)
    BY <1>1, <1>2 DEF Asked, IsAboutPlan, Counters, Solution, Actuations, TypeOK
  <2> QED BY <1>1, <1>3, <2>1 DEF Requests, IsAboutPlan, HopsLeft, PlanOfRequest
<1>9. PhaseFacts'
  <2>1. \A w \in Involved(Solution) : Prepared(actuation, w)
    BY <1>1, <1>2 DEF StartApply, Gathered, Failed, PhaseFacts, TypeOK, Calls
  <2> QED BY <1>1, <1>2, <2>1 DEF PhaseFacts, ToAll, Asked, Solution, Prepared
<1>10. Stored' /\ Publications'
  BY <1>1 DEF Stored, Stores, Prepared, Publications, Active, workerVars, redisVars
<1> QED BY <1>6, <1>7, <1>8, <1>9, <1>10

\* What is published was prepared by every worker.
LEMMA PublishInv ==
  ASSUME Inv, PublishFlowPlans
  PROVE  Inv'
<1> USE DEF Inv
<1>1. /\ phase = "publish" /\ phase' = "idle"
      /\ UNCHANGED <<storeVars, actuation, solution_of, version_of,
                     plan_counter, call, handlerVars, workerVars, catalog,
                     restarts>>
  BY DEF PublishFlowPlans
<1>2. /\ actuation \in Actuations /\ Solution \in Solutions
      /\ version_of[actuation] \in Versions
  BY <1>1, ActiveFacts DEF Active, Counters
<1>3. /\ flow_plans' = [f \in Flows |->
           IF f \in FlowsOf[Solution]
           THEN [flow_plans[f] EXCEPT ![version_of[actuation]] = actuation]
           ELSE flow_plans[f]]
      /\ active_flow_version' = [f \in Flows |->
           IF f \in FlowsOf[Solution] THEN version_of[actuation]
           ELSE active_flow_version[f]]
  BY DEF PublishFlowPlans
<1>4. \A f \in Flows :
         /\ flow_plans'[f] \in [Versions -> 0 .. MaxPuts]
         /\ \A v \in Versions :
              \/ flow_plans'[f][v] = flow_plans[f][v]
              \/ flow_plans'[f][v] = actuation /\ v = version_of[actuation]
  BY <1>2, <1>3 DEF TypeOK
<1>5. TypeOK'
  <2>1. flow_plans' \in [Flows -> [Versions -> 0 .. MaxPuts]]
    BY <1>3, <1>4
  <2>2. active_flow_version' \in [Flows -> 0 .. MaxPuts]
    BY <1>2, <1>3 DEF TypeOK, Versions
  <2> QED BY <1>1, <2>1, <2>2
          DEF TypeOK, Phases, storeVars, handlerVars, workerVars
<1>6. Counters'
  BY <1>1 DEF Counters, Active, storeVars
<1>7. Requests' /\ PhaseFacts' /\ Stored'
  BY <1>1 DEF Requests, IsAboutPlan, HopsLeft, PlanOfRequest, PhaseFacts,
     Prepared, Stored, Stores, handlerVars, workerVars
<1>8. Publications'
  <2> SUFFICES ASSUME NEW f \in Flows, NEW v \in Versions, flow_plans'[f][v] # 0
               PROVE  LET a == flow_plans'[f][v] IN
                        /\ a \in Actuations
                        /\ a <= actuation
                        /\ version_of[a] = v
                        /\ solution_of[a] \in Solutions
                        /\ \A w \in Involved(solution_of[a]) : Prepared(a, w)
    BY <1>1 DEF Publications, Active, Prepared, handlerVars
  <2>1. CASE flow_plans'[f][v] = flow_plans[f][v]
    BY <2>1 DEF Publications
  <2>2. CASE flow_plans'[f][v] = actuation /\ v = version_of[actuation]
    BY <1>1, <1>2, <2>2 DEF PhaseFacts, Solution, Actuations
  <2> QED BY <1>4, <2>1, <2>2
<1> QED BY <1>5, <1>6, <1>7, <1>8

-----------------------------------------------------------------------------
(* The invariant holds initially and is preserved.                         *)

\* Nothing is asked, stored or published at the start.
LEMMA InitInv == Init => Inv
<1> SUFFICES ASSUME Init PROVE Inv
  OBVIOUS
<1>1. TypeOK
  BY SolutionAssumption
     DEF Init, TypeOK, Phases, Calls, PrepareStates, Request
<1>2. Counters
  BY SolutionAssumption DEF Init, Counters, Active
<1>3. Requests /\ PhaseFacts /\ Stored /\ Publications
  BY DEF Init, Requests, PhaseFacts, Stored, Publications, Prepared, Request
<1> QED BY <1>1, <1>2, <1>3 DEF Inv

\* Every step of the system, or none, preserves the invariant.
LEMMA NextInv == Inv /\ [Next]_vars => Inv'
<1> SUFFICES ASSUME Inv, [Next]_vars PROVE Inv'
  OBVIOUS
<1>1. ASSUME NEW s \in Solutions, PutSolution(s) PROVE Inv'
  BY <1>1, PutSolutionInv
<1>2. CASE ObserveNewSolution
  BY <1>2, ObserveInv
<1>3. CASE PhaseEnds
  <2>1. CASE BuildPartitionsFails \/ PhaseFails \/ PublishFails
    BY <2>1, PhaseChangeInv DEF BuildPartitionsFails, PhaseFails, PublishFails
  <2>2. CASE StartPublish
    BY <2>2, PhaseChangeInv DEF StartPublish
  <2> QED BY <1>3, <2>1, <2>2, ConversionFailsInv, StartDeployInv,
             StartApplyInv, PublishInv DEF PhaseEnds
<1>4. ASSUME NEW w \in Workers, CallEnds(w) PROVE Inv'
  BY <1>4, CallEndsInv
<1>5. ASSUME NEW a \in Actuations, NEW w \in Workers, WorkerStep(a, w)
      PROVE  Inv'
  BY <1>5, WorkerStepInv
<1>6. CASE Restart
  BY <1>6, RestartInv
<1>7. CASE UNCHANGED vars
  BY <1>7 DEF vars, storeVars, controllerVars, handlerVars, workerVars,
     redisVars, Inv, TypeOK, Counters, Requests, PhaseFacts, Stored,
     Publications, Active, IsAboutPlan, HopsLeft, PlanOfRequest, Prepared,
     Applied, Solution, Stores
<1> QED BY <1>1, <1>2, <1>3, <1>4, <1>5, <1>6, <1>7 DEF Next

\* The inductive invariant holds in every behaviour.
LEMMA InvHolds == Spec => []Inv
BY InitInv, NextInv, PTL DEF Spec

\* Every variable of the actuation keeps its type, whatever the workers, flows
\* and solutions are.
THEOREM TypeCorrect == Spec => []TypeOK
<1>1. Inv => TypeOK
  BY DEF Inv
<1> QED BY <1>1, InvHolds, PTL

\* A flow plan that front ends can read is stored, part by part, by every worker
\* of its solution: late requests of abandoned actuations, failed phases and
\* restarts of the controller never leave a published version half deployed.
THEOREM PublishedPlansAreStoredHolds == Spec => []PublishedPlansAreStored
<1>1. ASSUME Inv PROVE PublishedPlansAreStored
  <2> SUFFICES ASSUME NEW f \in Flows, NEW v \in Versions, flow_plans[f][v] # 0,
                      NEW w \in Involved(PublishedSolution(f, v))
               PROVE  Stores(w, v, PublishedSolution(f, v))
    BY DEF PublishedPlansAreStored, Published
  <2>1. PICK a \in Actuations :
          /\ a = flow_plans[f][v] /\ version_of[a] = v
          /\ solution_of[a] \in Solutions
          /\ w \in Involved(solution_of[a])
          /\ Prepared(a, w)
    BY <1>1 DEF Inv, Publications, PublishedSolution
  <2>2. w \in Workers
    BY <2>1, SolutionAssumption
  <2> QED BY <1>1, <2>1, <2>2 DEF Inv, Stored, PublishedSolution
<1> QED BY <1>1, InvHolds, PTL

-----------------------------------------------------------------------------
(* Executors and catalog entries.                                          *)

\* The executors of the hops a prepare request has passed are registered.
PassedHopsHaveExecutors ==
  \A a \in Actuations, w \in Workers : preparing[a][w].pc # "none" =>
    \A n \in 1 .. Len(executable_hops(solution_of[a], w)) :
      n < preparing[a][w].at =>
        <<w, version_of[a], executable_hops(solution_of[a], w)[n]>> \in executors

AllHopsPassed ==
  \A a \in Actuations, w \in Workers :
    preparing[a][w].pc \in {"registered", "done"} => ~HopsLeft(a, w)

\* Until the controller restarts, no version is used twice ...
VersionsAreUsedOnce ==
  restarts = 0 =>
    /\ \A a \in Actuations : version_of[a] <= plan_counter
    /\ \A a, b \in Actuations :
         version_of[a] # 0 /\ version_of[a] = version_of[b] => a = b

\* ... so that no later request redirects the hops of an earlier one.
RegisteredHopsAreFound ==
  restarts = 0 =>
    \A a \in Actuations, w \in Workers :
      preparing[a][w].pc \in {"registered", "done"} =>
        \A h \in planned_hops(solution_of[a], w) : catalog[version_of[a]][h] = w

DeployInv ==
  /\ PassedHopsHaveExecutors
  /\ AllHopsPassed
  /\ VersionsAreUsedOnce
  /\ RegisteredHopsAreFound

\* Which steps change what executors and catalog entries are about.
LEMMA DeployFrames ==
  ASSUME NEW a, NEW w, WorkerStep(a, w)
  PROVE  /\ UNCHANGED <<solution_of, version_of, plan_counter, restarts>>
         /\ executors \subseteq executors'
         /\ ~(RegisterHops(a, w) \/ RegisterHopsFails(a, w)) => UNCHANGED catalog
<1>1. UNCHANGED <<solution_of, version_of, plan_counter, restarts>>
  BY Frames DEF controllerVars
<1>2. executors \subseteq executors'
  BY DEF WorkerStep, ReceivePrepare, SkipExecutor, LoadExecutor,
     RegisterExecutor, CreatingFails, RegisterHops, RegisterHopsFails, PutPlan,
     PutDuplicatePlan, Apply, workerVars
<1>3. ASSUME ~(RegisterHops(a, w) \/ RegisterHopsFails(a, w))
      PROVE  UNCHANGED catalog
  BY <1>3 DEF WorkerStep, ReceivePrepare, SkipExecutor, LoadExecutor,
     RegisterExecutor, CreatingFails, PutPlan, PutDuplicatePlan, Apply, redisVars
<1> QED BY <1>1, <1>2, <1>3

\* A prepare request goes on to the next hop when the executor of this one is
\* registered, and past the hops when none is left.
LEMMA PrepareProgress ==
  ASSUME Inv, NEW a \in Actuations, NEW w \in Workers, WorkerStep(a, w)
  PROVE  /\ \A b \in Actuations, x \in Workers :
              b # a \/ x # w => preparing'[b][x] = preparing[b][x]
         /\ \/ preparing'[a][w].at = preparing[a][w].at
            \/ /\ preparing'[a][w].at = preparing[a][w].at + 1
               /\ preparing'[a][w].pc = "loading"
               /\ <<w, version_of[a], NextHop(a, w)>> \in executors'
         /\ preparing'[a][w].pc = "registered" =>
              /\ preparing'[a][w].at = preparing[a][w].at
              /\ \/ RegisterHops(a, w) /\ ~HopsLeft(a, w)
                 \/ Apply(a, w) /\ preparing[a][w].pc = "registered"
         /\ preparing'[a][w].pc = "done" =>
              /\ preparing'[a][w].at = preparing[a][w].at
              /\ preparing[a][w].pc \in {"registered", "done"}
              /\ ~(RegisterHops(a, w) \/ RegisterHopsFails(a, w))
<1> USE DEF Inv
<1>1. CASE Apply(a, w)
  BY <1>1 DEF Apply, RegisterHops, RegisterHopsFails
<1>2. CASE SkipExecutor(a, w) \/ RegisterExecutor(a, w)
  <2>1. /\ preparing' = [preparing EXCEPT ![a][w] =
             Request("loading", preparing[a][w].at + 1)]
        /\ preparing[a][w].at + 1 \in Nat \ {0}
        /\ <<w, version_of[a], NextHop(a, w)>> \in executors'
    BY <1>2, GoesSteps DEF SkipExecutor, RegisterExecutor, HasExecutor, workerVars
  <2> QED BY <2>1 DEF TypeOK, Request
<1>3. CASE \/ ReceivePrepare(a, w) \/ LoadExecutor(a, w) \/ CreatingFails(a, w)
           \/ RegisterHops(a, w) \/ RegisterHopsFails(a, w)
           \/ PutPlan(a, w) \/ PutDuplicatePlan(a, w)
  <2>1. PICK pc \in PrepareStates :
          /\ preparing' = [preparing EXCEPT ![a][w] = Request(pc, preparing[a][w].at)]
          /\ pc = "registered" => RegisterHops(a, w) /\ ~HopsLeft(a, w)
          /\ pc = "done" => preparing[a][w].pc = "registered"
    BY <1>3, GoesSteps
       DEF ReceivePrepare, LoadExecutor, CreatingFails, RegisterHops,
           RegisterHopsFails, PutPlan, PutDuplicatePlan, PrepareStates
  <2>2. /\ preparing'[a][w].pc = pc
        /\ preparing'[a][w].at = preparing[a][w].at
        /\ \A b \in Actuations, x \in Workers :
             b # a \/ x # w => preparing'[b][x] = preparing[b][x]
    BY <2>1, GoesSteps DEF TypeOK, Request
  <2>3. preparing[a][w].pc = "registered" =>
          ~(RegisterHops(a, w) \/ RegisterHopsFails(a, w))
    BY DEF RegisterHops, RegisterHopsFails
  <2> QED BY <2>1, <2>2, <2>3
<1> QED BY <1>1, <1>2, <1>3 DEF WorkerStep

\* What a worker registers leaves the hops of other workers and versions alone.
LEMMA RegisteredEntries ==
  ASSUME Inv, NEW a \in Actuations, NEW w \in Workers, IsAboutPlan(a, w),
         NEW v \in Versions, NEW h \in Hops
  PROVE  registered(a, w)[v][h] =
           IF v = version_of[a] /\ h \in planned_hops(solution_of[a], w)
           THEN w ELSE catalog[v][h]
<1>1. version_of[a] \in Versions /\ catalog \in [Versions -> [Hops -> Workers \cup {NoWorker}]]
  BY DEF IsAboutPlan, Inv, TypeOK
<1> QED BY <1>1 DEF registered

\* A worker's step preserves what is deployed.
LEMMA WorkerStepDeployInv ==
  ASSUME Inv, DeployInv, NEW a \in Actuations, NEW w \in Workers, WorkerStep(a, w)
  PROVE  DeployInv'
<1> USE DEF DeployInv
<1>1. /\ UNCHANGED <<solution_of, version_of, plan_counter, restarts>>
      /\ executors \subseteq executors'
  BY DeployFrames
<1>2. /\ preparing \in [Actuations -> [Workers -> [pc : PrepareStates, at : Nat \ {0}]]]
      /\ \A b \in Actuations, x \in Workers :
           preparing'[b][x].pc # "none" => preparing[b][x].pc # "none"
  BY WorkerStepHandlers DEF Inv, TypeOK
<1>0. \A b \in Actuations, x \in Workers :
         b # a \/ x # w => preparing'[b][x] = preparing[b][x]
  BY PrepareProgress
<1>3. PassedHopsHaveExecutors'
  <2> SUFFICES ASSUME NEW b \in Actuations, NEW x \in Workers,
                      preparing'[b][x].pc # "none",
                      NEW n \in 1 .. Len(executable_hops(solution_of[b], x)),
                      n < preparing'[b][x].at
               PROVE  <<x, version_of[b], executable_hops(solution_of[b], x)[n]>>
                        \in executors'
    BY <1>1 DEF PassedHopsHaveExecutors, executable_hops
  <2>1. CASE n < preparing[b][x].at
    BY <1>1, <1>2, <2>1 DEF PassedHopsHaveExecutors
  <2>2. CASE ~(n < preparing[b][x].at)
    <3>1. /\ b = a /\ x = w
          /\ preparing'[a][w].at = preparing[a][w].at + 1
          /\ <<w, version_of[a], NextHop(a, w)>> \in executors'
      BY <2>2, PrepareProgress
    <3>2. preparing[a][w].at \in Nat
      BY <1>2
    <3>3. n = preparing[a][w].at
      BY <2>2, <3>1, <3>2
    <3> QED BY <3>1, <3>3 DEF NextHop, PlanOfRequest, executable_hops
  <2> QED BY <2>1, <2>2
<1>4. AllHopsPassed'
  <2> SUFFICES ASSUME NEW b \in Actuations, NEW x \in Workers,
                      preparing'[b][x].pc \in {"registered", "done"}
               PROVE  HopsLeft(b, x)' = FALSE
    BY DEF AllHopsPassed
  <2>1. preparing'[b][x].at = preparing[b][x].at /\ ~HopsLeft(b, x)
    <3>1. CASE b = a /\ x = w
      BY <3>1, PrepareProgress DEF AllHopsPassed
    <3>2. CASE b # a \/ x # w
      BY <1>0, <3>2 DEF AllHopsPassed
    <3> QED BY <3>1, <3>2
  <2> QED BY <1>1, <2>1 DEF HopsLeft, PlanOfRequest
<1>5. VersionsAreUsedOnce'
  BY <1>1 DEF VersionsAreUsedOnce
<1>6. RegisteredHopsAreFound'
  <2> SUFFICES ASSUME restarts' = 0, NEW b \in Actuations, NEW x \in Workers,
                      preparing'[b][x].pc \in {"registered", "done"},
                      NEW h \in planned_hops(solution_of[b], x)'
               PROVE  catalog'[version_of[b]'][h] = x
    BY DEF RegisteredHopsAreFound
  <2>0. /\ restarts = 0 /\ version_of'[b] = version_of[b]
        /\ h \in planned_hops(solution_of[b], x)
    BY <1>1 DEF planned_hops, ExecutableHops, executable_hops
  <2>1. /\ IsAboutPlan(b, x)
        /\ version_of[b] \in Versions /\ version_of[b] # 0
        /\ solution_of[b] \in Solutions /\ x \in Involved(solution_of[b])
        /\ h \in Hops
    <3>1. preparing[b][x].pc # "none"
      BY <1>2
    <3>2. IsAboutPlan(b, x)
      BY <3>1 DEF Inv, Requests
    <3> QED BY <2>0, <3>2, HopsOfSolution DEF IsAboutPlan, Versions
  <2>2. CASE RegisterHops(a, w) \/ RegisterHopsFails(a, w)
    <3>1. catalog' \in {catalog, registered(a, w)} /\ IsAboutPlan(a, w)
      BY <2>2 DEF RegisterHops, RegisterHopsFails, Inv, Requests
    <3>2. CASE b = a /\ x = w
      <4>1. RegisterHops(a, w)
        <5>1. preparing[a][w].pc # "registered"
          BY <2>2 DEF RegisterHops, RegisterHopsFails
        <5> QED BY <2>2, <3>2, <5>1, PrepareProgress
      <4> QED BY <2>0, <2>1, <3>1, <3>2, <4>1, RegisteredEntries DEF RegisterHops
    <3>3. CASE b # a \/ x # w
      <4>1. catalog[version_of[b]][h] = x
        BY <1>0, <2>0, <3>3 DEF RegisteredHopsAreFound
      <4>2. version_of[b] = version_of[a] => h \notin planned_hops(solution_of[a], w)
        <5> SUFFICES ASSUME version_of[b] = version_of[a],
                            h \in planned_hops(solution_of[a], w)
                     PROVE  FALSE
          OBVIOUS
        <5>1. a = b
          BY <2>0, <2>1 DEF VersionsAreUsedOnce
        <5>2. w \in Involved(solution_of[b])
          BY <3>1, <5>1 DEF IsAboutPlan
        <5>3. w = x
          BY <2>0, <2>1, <5>1, <5>2, SolutionAssumption
        <5> QED BY <3>3, <5>1, <5>3
      <4> QED BY <2>0, <2>1, <3>1, <4>1, <4>2, RegisteredEntries
    <3> QED BY <3>2, <3>3
  <2>3. CASE ~(RegisterHops(a, w) \/ RegisterHopsFails(a, w))
    <3>1. UNCHANGED catalog
      BY <2>3, DeployFrames
    <3>2. preparing[b][x].pc \in {"registered", "done"}
      <4>1. CASE b = a /\ x = w
        BY <2>3, <4>1, PrepareProgress
      <4>2. CASE b # a \/ x # w
        BY <1>0, <4>2
      <4> QED BY <4>1, <4>2
    <3> QED BY <2>0, <3>1, <3>2 DEF RegisteredHopsAreFound
  <2> QED BY <2>2, <2>3
<1> QED BY <1>3, <1>4, <1>5, <1>6

\* A new version is greater than all before, and belongs to an actuation no worker
\* was asked for.
LEMMA BuildDeployInv ==
  ASSUME Inv, DeployInv, StartDeploy \/ ConversionFails
  PROVE  DeployInv'
<1> USE DEF Inv, DeployInv
<1>1. /\ phase = "build"
      /\ actuation \in Actuations /\ version_of[actuation] = 0
      /\ plan_counter' = plan_counter + 1
      /\ version_of' = [version_of EXCEPT ![actuation] = plan_counter + 1]
      /\ UNCHANGED <<solution_of, executors, catalog, restarts>>
  BY DEF StartDeploy, ConversionFails, next_plan_version, Counters, Active,
         workerVars, redisVars
<1>2. /\ version_of'[actuation] = plan_counter + 1
      /\ \A a \in Actuations : a # actuation => version_of'[a] = version_of[a]
      /\ plan_counter \in Nat
      /\ \A a \in Actuations : version_of[a] \in Nat
  BY <1>1, SolutionAssumption DEF TypeOK
<1>3. \A w \in Workers : preparing[actuation][w].pc = "none"
  BY <1>1 DEF Requests, IsAboutPlan, Versions
<1>4. \A a \in Actuations, w \in Workers :
         \/ a # actuation /\ preparing'[a][w] = preparing[a][w]
         \/ preparing'[a][w].pc = "none"
         \/ preparing'[a][w] = Request("requested", 1)
  <2>1. CASE StartDeploy
    BY <1>1, <2>1 DEF StartDeploy, TypeOK, Request
  <2>2. CASE ConversionFails
    BY <1>3, <2>2 DEF ConversionFails, handlerVars
  <2> QED BY <2>1, <2>2
<1>5. PassedHopsHaveExecutors'
  <2> SUFFICES ASSUME NEW a \in Actuations, NEW w \in Workers,
                      preparing'[a][w].pc # "none",
                      NEW n \in 1 .. Len(executable_hops(solution_of[a], w)),
                      n < preparing'[a][w].at
               PROVE  <<w, version_of'[a], executable_hops(solution_of[a], w)[n]>>
                        \in executors
    BY <1>1 DEF PassedHopsHaveExecutors, executable_hops
  <2>1. a # actuation /\ preparing'[a][w] = preparing[a][w]
    BY <1>4 DEF Request
  <2> QED BY <1>2, <2>1 DEF PassedHopsHaveExecutors
<1>6. AllHopsPassed'
  BY <1>1, <1>4 DEF AllHopsPassed, HopsLeft, PlanOfRequest, Request
<1>7. VersionsAreUsedOnce'
  BY <1>1, <1>2 DEF VersionsAreUsedOnce
<1>8. RegisteredHopsAreFound'
  <2> SUFFICES ASSUME restarts' = 0, NEW a \in Actuations, NEW w \in Workers,
                      preparing'[a][w].pc \in {"registered", "done"},
                      NEW h \in planned_hops(solution_of[a], w)'
               PROVE  catalog'[version_of'[a]][h] = w
    BY DEF RegisteredHopsAreFound
  <2>1. a # actuation /\ preparing'[a][w] = preparing[a][w]
    BY <1>4 DEF Request
  <2>2. h \in planned_hops(solution_of[a], w)
    BY <1>1 DEF planned_hops, ExecutableHops, executable_hops
  <2> QED BY <1>1, <1>2, <2>1, <2>2 DEF RegisteredHopsAreFound
<1> QED BY <1>5, <1>6, <1>7, <1>8

\* A solution that is taken up is one no worker was asked for yet.
LEMMA ObserveDeployInv ==
  ASSUME Inv, DeployInv, ObserveNewSolution
  PROVE  DeployInv'
<1> USE DEF Inv, DeployInv
<1>1. /\ UNCHANGED <<preparing, version_of, plan_counter, executors, catalog, restarts>>
      /\ solution_of' = [solution_of EXCEPT ![actuation + 1] = pending]
  BY DEF ObserveNewSolution, handlerVars, workerVars, redisVars
<1>2. \A a \in Actuations, w \in Workers :
         preparing[a][w].pc # "none" => solution_of'[a] = solution_of[a]
  BY <1>1 DEF Requests, IsAboutPlan, TypeOK, Actuations
<1>3. PassedHopsHaveExecutors'
  BY <1>1, <1>2 DEF PassedHopsHaveExecutors, executable_hops
<1>4. AllHopsPassed'
  BY <1>1, <1>2 DEF AllHopsPassed, HopsLeft, PlanOfRequest
<1>5. VersionsAreUsedOnce'
  BY <1>1 DEF VersionsAreUsedOnce
<1>6. RegisteredHopsAreFound'
  BY <1>1, <1>2 DEF RegisteredHopsAreFound, planned_hops, ExecutableHops, executable_hops
<1> QED BY <1>3, <1>4, <1>5, <1>6

\* Nothing is deployed at the start.
LEMMA InitDeployInv == Init => DeployInv
BY DEF Init, DeployInv, PassedHopsHaveExecutors, AllHopsPassed,
   VersionsAreUsedOnce, RegisteredHopsAreFound, Request

\* Every step of the system, or none, preserves what is deployed.
LEMMA NextDeployInv == Inv /\ DeployInv /\ [Next]_vars => DeployInv'
<1> SUFFICES ASSUME Inv, DeployInv, [Next]_vars PROVE DeployInv'
  OBVIOUS
<1>1. CASE Restart
  <2>1. /\ restarts' # 0
        /\ UNCHANGED <<preparing, solution_of, version_of, executors>>
    BY <1>1 DEF Restart, Inv, TypeOK, handlerVars, workerVars
  <2> QED BY <2>1 DEF DeployInv, PassedHopsHaveExecutors, AllHopsPassed, HopsLeft,
             PlanOfRequest, VersionsAreUsedOnce, RegisteredHopsAreFound, executable_hops
<1>2. CASE \/ \E s \in Solutions : PutSolution(s)
           \/ PhaseEnds /\ ~StartDeploy /\ ~ConversionFails
           \/ \E w \in Workers : CallEnds(w)
           \/ UNCHANGED vars
  <2>1. UNCHANGED <<preparing, solution_of, version_of, plan_counter, executors,
                    catalog, restarts>>
    BY <1>2 DEF PutSolution, PhaseEnds, BuildPartitionsFails, PhaseFails, StartApply,
       StartPublish, PublishFlowPlans, PublishFails, CallEnds, Reply, CallFails,
       vars, controllerVars, handlerVars, workerVars, redisVars
  <2> QED BY <2>1 DEF DeployInv, PassedHopsHaveExecutors, AllHopsPassed, HopsLeft,
             PlanOfRequest, VersionsAreUsedOnce, RegisteredHopsAreFound, planned_hops,
             ExecutableHops, executable_hops
<1> QED BY <1>1, <1>2, WorkerStepDeployInv, BuildDeployInv, ObserveDeployInv
        DEF Next, PhaseEnds

\* Until the controller restarts, an inference under a published version finds the
\* executor of every hop on the worker that the catalog names for it: no late or
\* repeated prepare request of another actuation leaves one out or redirects one.
THEOREM PublishedHopsAreDeployedHolds == Spec => []PublishedHopsAreDeployed
<1>1. Inv /\ DeployInv => PublishedHopsAreDeployed
  <2> SUFFICES ASSUME Inv, DeployInv, restarts = 0,
                      NEW f \in Flows, NEW v \in Versions, flow_plans[f][v] # 0,
                      NEW w \in Involved(PublishedSolution(f, v))
               PROVE  /\ \A h \in ExecutableHops(PublishedSolution(f, v), w) :
                           <<w, v, h>> \in executors
                      /\ \A h \in planned_hops(PublishedSolution(f, v), w) :
                           catalog[v][h] = w
    BY DEF PublishedHopsAreDeployed, Published
  <2>1. PICK a \in Actuations :
          /\ version_of[a] = v
          /\ solution_of[a] = PublishedSolution(f, v)
          /\ solution_of[a] \in Solutions
          /\ w \in Involved(solution_of[a])
          /\ preparing[a][w].pc = "done"
    BY DEF Inv, Publications, PublishedSolution, Prepared
  <2>2. w \in Workers
    BY <2>1, HopsOfSolution
  <2>3. /\ preparing[a][w].at \in Nat
        /\ preparing[a][w].at > Len(executable_hops(solution_of[a], w))
        /\ Len(executable_hops(solution_of[a], w)) \in Nat
        /\ DOMAIN executable_hops(solution_of[a], w)
             = 1 .. Len(executable_hops(solution_of[a], w))
    BY <2>1, <2>2, SolutionAssumption
       DEF DeployInv, AllHopsPassed, HopsLeft, PlanOfRequest, executable_hops,
           Inv, TypeOK
  <2>4. \A n \in DOMAIN executable_hops(solution_of[a], w) :
           <<w, v, executable_hops(solution_of[a], w)[n]>> \in executors
    BY <2>1, <2>2, <2>3 DEF DeployInv, PassedHopsHaveExecutors
  <2>5. \A h \in planned_hops(solution_of[a], w) : catalog[v][h] = w
    BY <2>1, <2>2 DEF DeployInv, RegisteredHopsAreFound
  <2> QED BY <2>1, <2>4, <2>5 DEF ExecutableHops
<1> QED BY <1>1, InitInv, NextInv, InitDeployInv, NextDeployInv, PTL DEF Spec

-----------------------------------------------------------------------------
(* The refinement.                                                         *)

Ready == {p \in Actuations \X Workers : applying[p[1]][p[2]] = "done"}
Serving == [f \in Flows |-> ServedBy(f)]

\* A step that neither applies a plan, nor publishes, nor begins an actuation
\* is invisible.
LEMMA InvisibleSteps ==
  ASSUME Inv,
         \/ \E s \in Solutions : PutSolution(s)
         \/ PhaseEnds /\ ~PublishFlowPlans
         \/ \E w \in Workers : CallEnds(w)
         \/ \E a \in Actuations, w \in Workers :
              WorkerStep(a, w) /\ ~Apply(a, w)
         \/ Restart
         \/ UNCHANGED vars
  PROVE  UNCHANGED <<solution_of, Ready, Serving>>
<1>1. UNCHANGED <<solution_of, flow_plans, active_flow_version>>
  BY DEF PutSolution, PhaseEnds, BuildPartitionsFails, ConversionFails,
     StartDeploy, PhaseFails, StartApply, StartPublish, PublishFails, CallEnds,
     Reply, CallFails, WorkerStep, ReceivePrepare, SkipExecutor, LoadExecutor,
     RegisterExecutor, CreatingFails, RegisterHops, RegisterHopsFails, PutPlan,
     PutDuplicatePlan, Apply, Restart, vars, controllerVars, redisVars
<1>2. \A a \in Actuations, w \in Workers :
         applying'[a][w] = "done" <=> applying[a][w] = "done"
  <2>1. CASE StartApply
    <3>1. phase = "deploy" /\ actuation \in Actuations
      BY <2>1, ActiveFacts DEF StartApply, Inv, Active
    <3>2. \A w \in Workers :
             /\ applying[actuation][w] = "none"
             /\ applying'[actuation][w] \in {"none", "requested"}
             /\ \A a \in Actuations :
                  a # actuation => applying'[a][w] = applying[a][w]
      BY <2>1, <3>1 DEF StartApply, Inv, PhaseFacts, TypeOK
    <3> QED BY <3>2
  <2>2. CASE ~StartApply
    <3>1. UNCHANGED applying
      BY <2>2 DEF PutSolution, PhaseEnds, BuildPartitionsFails, ConversionFails,
         StartDeploy, PhaseFails, StartPublish, PublishFails, CallEnds, Reply,
         CallFails, WorkerStep, ReceivePrepare, SkipExecutor, LoadExecutor,
         RegisterExecutor, CreatingFails, RegisterHops, RegisterHopsFails,
         PutPlan, PutDuplicatePlan, Restart, vars, handlerVars
    <3> QED BY <3>1
  <2> QED BY <2>1, <2>2
<1>3. UNCHANGED Ready
  BY <1>2 DEF Ready
<1>4. UNCHANGED Serving
  BY <1>1 DEF Serving, ServedBy
<1> QED BY <1>1, <1>3, <1>4

\* An observed solution is chosen for an actuation that had none.
LEMMA ObserveChooses ==
  ASSUME Inv, ObserveNewSolution
  PROVE  /\ actuation + 1 \in Actuations /\ pending \in Solutions
         /\ solution_of[actuation + 1] = NoSolution
         /\ solution_of' = [solution_of EXCEPT ![actuation + 1] = pending]
         /\ UNCHANGED <<Ready, Serving>>
<1>1. /\ pending \in Solutions
      /\ actuation + 1 \in Actuations /\ actuation + 1 > actuation
  BY SolutionAssumption DEF Inv, ObserveNewSolution, Counters, TypeOK, Actuations
<1>2. solution_of[actuation + 1] = NoSolution
  BY <1>1 DEF Inv, Counters
<1>3. UNCHANGED <<applying, flow_plans, active_flow_version>>
  BY DEF ObserveNewSolution, handlerVars, redisVars
<1>4. UNCHANGED <<Ready, Serving>>
  BY <1>3 DEF Ready, Serving, ServedBy
<1> QED BY <1>1, <1>2, <1>4 DEF ObserveNewSolution

\* A worker that applies a plan becomes ready for it.
LEMMA ApplyBecomesReady ==
  ASSUME Inv, NEW a \in Actuations, NEW w \in Workers, Apply(a, w)
  PROVE  /\ solution_of[a] # NoSolution
         /\ w \in DOMAIN PlanOf[solution_of[a]]
         /\ <<a, w>> \notin Ready
         /\ Ready' = Ready \cup {<<a, w>>}
         /\ UNCHANGED <<solution_of, Serving>>
<1>1. IsAboutPlan(a, w)
  BY DEF Inv, Requests, Apply
<1>2. solution_of[a] # NoSolution /\ w \in DOMAIN PlanOf[solution_of[a]]
  BY <1>1, SolutionAssumption DEF IsAboutPlan, Involved
<1>3. \A b \in Actuations, x \in Workers :
         applying'[b][x] = IF <<b, x>> = <<a, w>> THEN "done" ELSE applying[b][x]
  BY DEF Apply, Inv, TypeOK
<1>4. applying[a][w] # "done"
  BY DEF Apply
<1>5. <<a, w>> \notin Ready /\ Ready' = Ready \cup {<<a, w>>}
  BY <1>3, <1>4 DEF Ready
<1>6. UNCHANGED solution_of /\ UNCHANGED Serving
  BY DEF Apply, controllerVars, redisVars, Serving, ServedBy
<1> QED BY <1>2, <1>5, <1>6

\* A publication moves the flows of the solution to a newer actuation, for which
\* every worker is ready.
LEMMA PublishServes ==
  ASSUME Inv, PublishFlowPlans
  PROVE  /\ actuation \in Actuations
         /\ Solution # NoSolution
         /\ \A w \in DOMAIN PlanOf[Solution] : <<actuation, w>> \in Ready
         /\ \A f \in FlowsOf[Solution] : Serving[f] < actuation
         /\ Serving' = [f \in Flows |-> IF f \in FlowsOf[Solution]
                                        THEN actuation ELSE Serving[f]]
         /\ UNCHANGED <<solution_of, Ready>>
<1>1. /\ phase = "publish"
      /\ UNCHANGED <<actuation, solution_of, applying>>
      /\ flow_plans' = [f \in Flows |->
           IF f \in FlowsOf[Solution]
           THEN [flow_plans[f] EXCEPT ![version_of[actuation]] = actuation]
           ELSE flow_plans[f]]
      /\ active_flow_version' = [f \in Flows |->
           IF f \in FlowsOf[Solution] THEN version_of[actuation]
           ELSE active_flow_version[f]]
  BY DEF PublishFlowPlans, handlerVars
<1>2. /\ actuation \in Actuations /\ Solution \in Solutions
      /\ Solution # NoSolution
      /\ Involved(Solution) \subseteq Workers
      /\ FlowsOf[Solution] \subseteq Flows
      /\ version_of[actuation] \in Versions
  BY <1>1, ActiveFacts, SolutionAssumption DEF Active, Inv, Counters
<1>3. \A w \in DOMAIN PlanOf[Solution] : <<actuation, w>> \in Ready
  BY <1>1, <1>2 DEF Inv, PhaseFacts, Applied, Ready, Involved
<1>4. \A f \in Flows : Serving[f] < actuation
  <2> SUFFICES ASSUME NEW f \in Flows PROVE ServedBy(f) < actuation
    BY DEF Serving
  <2>1. CASE active_flow_version[f] = 0
    BY <1>2, <2>1 DEF ServedBy, Actuations
  <2>2. CASE active_flow_version[f] # 0
    <3>1. active_flow_version[f] \in Versions
      BY <2>2, SolutionAssumption DEF Inv, TypeOK, Versions
    <3>2. flow_plans[f][active_flow_version[f]] # 0 =>
            flow_plans[f][active_flow_version[f]] < actuation
      BY <1>1, <3>1 DEF Inv, Publications, Active
    <3> QED BY <1>2, <2>2, <3>2 DEF ServedBy, Actuations
  <2> QED BY <2>1, <2>2
<1>5. \A f \in Flows :
         ServedBy(f)' = IF f \in FlowsOf[Solution] THEN actuation ELSE ServedBy(f)
  <2> SUFFICES ASSUME NEW f \in Flows
               PROVE  ServedBy(f)' = IF f \in FlowsOf[Solution]
                                     THEN actuation ELSE ServedBy(f)
    OBVIOUS
  <2>1. /\ flow_plans[f] \in [Versions -> 0 .. MaxPuts]
        /\ version_of[actuation] # 0
    BY <1>2 DEF Inv, TypeOK, Versions
  <2>2. CASE f \in FlowsOf[Solution]
    <3>1. /\ active_flow_version'[f] = version_of[actuation]
          /\ flow_plans'[f][version_of[actuation]] = actuation
      BY <1>1, <1>2, <2>1, <2>2
    <3> QED BY <2>1, <2>2, <3>1 DEF ServedBy
  <2>3. CASE f \notin FlowsOf[Solution]
    <3>1. /\ active_flow_version'[f] = active_flow_version[f]
          /\ flow_plans'[f] = flow_plans[f]
      BY <1>1, <2>3
    <3> QED BY <2>3, <3>1 DEF ServedBy
  <2> QED BY <2>2, <2>3
<1>6. Serving' = [f \in Flows |-> IF f \in FlowsOf[Solution]
                                  THEN actuation ELSE Serving[f]]
  BY <1>5 DEF Serving
<1>7. UNCHANGED Ready
  BY <1>1 DEF Ready
<1> QED BY <1>1, <1>2, <1>3, <1>4, <1>6, <1>7

\* The actuation of plans implements the publication it promises: its phases,
\* requests that arrive late, versions, failures and restarts are invisible to a
\* front end, which sees a flow move to a newer solution when all is ready.
THEOREM ImplementsPublicationHolds == Spec => ImplementsPublication
<1> USE DEF Publication!Spec, Publication!Init, Publication!Next
<1>1. Init => Publication!Init
  BY DEF Init, Actuations, ServedBy
<1>2. Inv /\ [Next]_vars =>
        [Publication!Next]_<<solution_of, Ready, Serving>>
  <2> SUFFICES ASSUME Inv, [Next]_vars
               PROVE  \/ Publication!Next
                      \/ UNCHANGED <<solution_of, Ready, Serving>>
    OBVIOUS
  <2>1. CASE ObserveNewSolution
    <3>1. Publication!Choose(actuation + 1, pending)
      BY <2>1, ObserveChooses DEF Publication!Choose, Ready, Serving
    <3> QED BY <3>1, <2>1, ObserveChooses DEF Actuations
  <2>2. ASSUME NEW a \in Actuations, NEW w \in Workers, Apply(a, w)
        PROVE  Publication!Next
    <3>1. Publication!BecomeReady(a, w)
      BY <2>2, ApplyBecomesReady DEF Publication!BecomeReady, Ready, Serving
    <3> QED BY <3>1 DEF Actuations
  <2>3. CASE PublishFlowPlans
    <3>1. Publication!Publish(actuation)
      BY <2>3, PublishServes DEF Publication!Publish, Ready, Serving, Solution
    <3> QED BY <3>1, <2>3, PublishServes DEF Actuations
  <2>4. CASE ~ \/ ObserveNewSolution
               \/ PublishFlowPlans
               \/ \E a \in Actuations, w \in Workers : Apply(a, w)
    <3>1. \/ \E s \in Solutions : PutSolution(s)
          \/ PhaseEnds /\ ~PublishFlowPlans
          \/ \E w \in Workers : CallEnds(w)
          \/ \E a \in Actuations, w \in Workers :
               WorkerStep(a, w) /\ ~Apply(a, w)
          \/ Restart
          \/ UNCHANGED vars
      BY <2>4 DEF Next
    <3> QED BY <3>1, InvisibleSteps
  <2> QED BY <2>1, <2>2, <2>3, <2>4
<1> QED BY <1>1, <1>2, InvHolds, PTL DEF Spec, ImplementsPublication, Ready, Serving
=============================================================================
