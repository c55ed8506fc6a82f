# Verification of distributed-inference

TLA+ modules, TLC configurations and TLAPS proofs kept beside the code of a
platform that splits neural networks into partitions, places them on workers
and runs inferences through them.

* `PROJECT.json` lists the components, the runs, the hazards and, for every
  definition that models code, the lines it stands for.
* `tlc -config <cfg> <MC module>` repeats a run, `tlapm <module>Proofs.tla` a
  proof.

## 1. The system

Four services talk over HTTP, Arrow Flight and Redis.  Paths below are relative
to `services/<service>/src/<service>/` or to `packages/`.

| Component | State it keeps | Operations | Interacts with | Hard because | Correct when | Status |
|---|---|---|---|---|---|---|
| **Worker: contribution pipeline** `application/hop_contribution_rcv`, `ordered_postbox`, contribution store | lock slots with user counts, handles with futures, stored contributions, deposited keys | `submit` | plan store (reads), Arrow server (calls it), coordination loops (take deposits) | many submissions of one key, suspended between check and use; duplicates; slots and handles created and dropped on demand | collections are exact, deposited once, every contributor is answered truthfully | `ContributionPipeline`, `HopGathering` |
| **Worker: activity manager** `adapters/outbound/activity_manager`, `application/activity`, `domain/activity` | available share of COMPUTE and NETWORK, grants, a condition with waiters | acquire, release | partition controller, dispatcher, both profilers | float arithmetic, two resources on one condition, overtaking, cancellation | exclusive means alone, nothing lost to rounding, nobody sleeps through a release | `ActivityManager` |
| **Worker: hop invocation** `application/hop_invocation`, `hop_handler`, `scheduling`, `adapters/outbound/partition_execution` | four coordination loops, priority queue, controller loop, futures | extract, assemble, handle, propagate, report failure | pipeline, activity manager, executor registry | a failure must free the loop that waits; loops hold their slot while they send | every deposited collection is propagated or reported, unless its execution fails; a hop computes its part of the model | control in `InferencePass` (failure of an execution: see the finding), data in `HopExecution`; stopping not modelled |
| **Worker: contribution sending and sink** `application/hop_contribution_snd`, `application/sink`, Arrow adapters, `keyed_postbox` | grants, results by model pass | route, dispatch, send; deposit, extract | hop catalog, remote workers, front end | time-outs whose call goes on, results extracted for a client that left | one outcome per pass, results only of complete passes | `InferencePass`, `ModelPass` |
| **Worker: plan deployment** `application/deployment`, plan store, executor registry, `domain/plan` | executors, plans by version, active version | prepare, apply | controller (HTTP), hop catalog | requests that outlive their caller; plans are parallel lists | see plan actuation | `PlanActuation`, the message in `PlanTransfer` |
| **Worker: model execution profiling** `application/profiling`, `adapters/outbound/profiling/model_execution` | a round over pending variants; profiles in Redis | poll, download, measure, publish | activity manager, Redis, artifact store | failures are logged and passed over; traces of asynchronous GPU work | every variant is profiled in the end, layer by layer | `ExecutionProfiling`, `ModelRegistration` |
| **Worker: network and resource profiling** `application/profiling`, `adapters/outbound/profiling` | a round over the known workers; profiles in Redis | probe, read counters, publish | activity manager, catalog, Redis | workers come and go during a round | workers that run become usable | `OptimizationContext`, `ResourceProfiling` |
| **Controller: solution store and actuation** `application/deployment/default_actuation_manager.py`, `adapters/outbound/store`, `adapters/outbound/plan_share` | current and pending solution, phase, version counter | put, observe, build, deploy, apply, publish | workers (HTTP), model manager (HTTP), Redis | partial failure, late requests, restarts | what is published is deployed, flows move to newer solutions only | `PlanActuation`, `PlanPublication` |
| **Controller: plan building** `application/deployment/builder` | none | solution to worker and flow plans | optimisation (takes its solutions) | collapsed components; the two ends of a route are derived separately | the routes of different workers meet, replicas are numbered once, a request passes the whole model | `PlanBuilding`, `PlanTransfer` |
| **Controller: optimisation** `application/optimization`, `adapters/outbound/optimization`, profile stores | none | collect profiles, solve, store | Gurobi, Redis | stores are read one after the other; a large mixed-integer program with cuts, boundary layers, queues and memory shared by flows | a context can always be built; every answer can be extracted, converted and run, and its times are not too short | context: `OptimizationContext`; problem: `FlowOptimization`, `ResponseTimes`; the objective not modelled |
| **Front end** `application/inference`, `application/loading`, HTTP router | none | current contract, run inference, load model | Redis, workers (Arrow), model manager (HTTP) | plan replaced between check and use; time-outs | a result belongs to its request; a load that ended well took effect | inference: `InferencePass`, `ModelPass`; loading: `ModelRegistration` |
| **Model manager** `application`, metadata store | pending registrations; models, variants, partitions in Redis and the artifact store | register, generate partition | Redis, artifact store | steps that fail halfway, loads that overlap, restarts | what is declared can be fetched and was profiled from what was loaded | `ModelRegistration` |
| **Model analysis** profiler, extractor, maximal cut, contractions | none | pure functions of ONNX graphs | ONNX Runtime, onnx_tool | graph algorithms; profiles change form four times on their way | profiles are kept, partitions compute the model | `ModelTopology`, `StaticProfiles`; the libraries modelled from their use |
| **Advertisement and catalog** `packages/advertisement`, `packages/catalog` | registrations with a time to live | advertise, look up | Redis | life checks, expiry | workers that run stay listed | `OptimizationContext`; hop catalog in `PlanActuation` |
| **Artifact stores** `packages/artifacts` | S3 objects; files | upload, download, check | S3, file system | artifacts of several objects, written in place | an artifact is whole when it is known of | S3 store: `ArtifactStore`; local and cached store not modelled |

Not part of the system proper: `experiments/`, `_model_management_try/`,
`assets/`, `docker/`, `deployment/`, notes and design documents.  Of the tests in
`test/` many follow older revisions of the code; the coordinator, the hop handlers,
the scheduler and the postboxes have none.

### What is hard

* *Concurrency.*  Every worker is one event loop; the interleavings are those of
  coroutines between two awaits.  Arrow Flight servers run in threads and hand
  coroutines to the loop, HTTP handlers run on it.
* *Calls that outlive their caller.*  HTTP (30 s) and Flight calls (30 s, 300 s for
  results) time out at the client only.  The handler goes on, and its effects come
  during or after whatever the client does next.  There are no retries.
* *Partial failure.*  Plans are prepared and applied on many workers without a
  roll-back; a pass crosses several workers.
* *Restart.*  The controller counts versions from 1 again, all that is stored
  under versions outlives it.  The model manager forgets pending registrations,
  workers leave and come back while their profiles stay.
* *Reading what changes.*  The controller reads five stores one after the other;
  artifacts are fetched object by object while they are replaced.
* *Numbers.*  Shares of resources are floats that are subtracted and added; the
  optimiser rounds utilizations up to bins and bounds its variables by constants.
* *Two derivations of one thing.*  The tensors of a component, the ends of a route,
  the parts of a plan and the form of a profile are computed on two sides that must agree.

## 2. Modules

| Module | Models | Checked by | Proved in |
|---|---|---|---|
| `HopGathering` | what the pipeline promises: contributions are gathered per hop and deposited once | `ImplementsGathering` | refinement in `ContributionPipelineProofs` |
| `ContributionPipeline` | `submit` from await to await | `MCContributionPipeline` | `ContributionPipelineProofs` |
| `ActivityManager` | grants over doubles, the condition | `MCActivityManager` | `ActivityManagerProofs` |
| `ModelTopology` | model file to topology, contractions, largest cut, partition files; operators | `MCPlanBuilding` | `PlanBuildingProofs` |
| `StaticProfiles` | profiles from the model file over Redis to worker and optimizer; operators | `MCPlanBuilding` | `PlanBuildingProofs` |
| `FlowOptimization` | the answers the optimizer's problem admits, their extraction; operators | `MCPlanBuilding` | `PlanBuildingProofs` |
| `ResponseTimes` | the problem's utilizations, queues, bins, bounds and response times; operators | `MCPlanBuilding` | `OperatorProofs` |
| `PlanBuilding` | solution to worker and flow plans; operators | `MCPlanBuilding` | `PlanBuildingProofs` |
| `PlanTransfer` | a worker plan as lists and message, its checks and look-ups; operators | `MCPlanBuilding` | `OperatorProofs` |
| `HopExecution` | one hop invocation: checks, payload, session, what is sent on; operators | `MCPlanBuilding` | `PlanBuildingProofs` |
| `PlanPublication` | what the actuation promises: flows move to newer, fully applied plans | `ImplementsPublication` | refinement in `PlanActuationProofs` |
| `PlanActuation` | controller and workers from solution store to published flow plans | `MCPlanActuation`, whose plans are those of `PlanBuilding` | `PlanActuationProofs` |
| `ModelPass` | a pass as its client sees it | `ImplementsModelPass` | refinement in `InferencePassProofs` |
| `InferencePass` | front end, coordination loops, scheduler, partition controller, sending, sink | `MCInferencePass` | `InferencePassProofs` |
| `ArtifactStore` | bundles, uploads and downloads object by object; operators | `MCModelRegistration` | `ModelRegistrationProofs` |
| `ExecutionProfiling` | the trace of a session to the times and memory of layers; operators | `MCModelRegistration` | `ModelRegistrationProofs` |
| `ModelRegistration` | loads, manager, partitions and the workers' profiling rounds | `MCModelRegistration` | `ModelRegistrationProofs` |
| `ResourceProfiling` | readings of a host to profiles, checked on both sides; operators | `MCOptimizationContext` | `OptimizationContextProofs` |
| `OptimizationContext` | advertisement, expiry, probing, publication, and the reading of it all | `MCOptimizationContext` | `OptimizationContextProofs` |

Names follow the source.  An operator introduced by a comment "Mutant of X" is a
plausible wrong version of X: put in its place, it makes a property fail.  It is
used nowhere else.

**ContributionPipeline.**  A submission is a coroutine with a program counter that
names the await it is suspended at; an action is the code from one await to the
next.  Adapters in memory never really suspend, so the suspension points of
their ports admit more interleavings than today's adapters show.  Lock slots
carry their owner, their queue and their user count as `_LockSlot` does; a
handle is the future all contributors of a key await.  The Flight thread that
waits for the answer has no time-out and is part of the submission.
`HandlesAreInStep` says what the table of handles is good for: who waits can be answered, and until its
collection is deposited a key has a handle exactly while contributions are kept.  After the deposit it says
less, because the code does less: a late duplicate for a hop with one source enters a handle (line 89),
its deposit raises, and the release drops only resolved handles (132-134), so that one stays.

**ActivityManager.**  No await happens while the condition's lock is held, so
acquiring, waking and releasing are single steps.  Newcomers overtake notified
waiters, as in asyncio.  The numbers that occur are written as k D + e units of
2^-55, where 0.1 is D units, and rounding is round-half-even at the spacing of
doubles.  Refusals of quantities above the capacity and the branch for
exceptions of a release cannot be reached with the requirements the factory
makes and are left out.

**ModelTopology, StaticProfiles.**  A model file is a record of nodes, tensors, shapes and
types.  Layers are the nodes reachable from the input; a tensor read by several
layers is an edge to each.  The largest cut, which the code gets from an integer
program, is the maximum over the cuts that program admits.  onnx_tool (shapes),
`extract_model` (cutting) and ONNX Runtime (fusing nodes) are modelled from what the code asks
of them.  A profile is followed through the forms it takes: computed, stored, read by
a worker, read by the controller, given to the optimizer.  Sizes are in bytes
(the code's are in MiB); flops are stored and used by nobody, and so are
contractions after the model manager.

**FlowOptimization, ResponseTimes.**  The binary variables of a flow are one record: the
model, a map from its layers to components, a map from components to workers.  The
constraints on them are operators, one per function of
`gurobi_structure_constraints.py`, with the eligibility of models and workers, the
available layers per worker and the memory all flows share.  A solution is extracted as the code
does it: components with their boundary layers taken out, their tensors with
them taken in, and the tensors that cross each cut.  The continuous variables
are bounded from below by the constraints that define them: an operator is the
least value of the variable, a fraction, so that rounding of floats is not
modelled.  Utilizations, bins, waits per priority, transmissions and
response times follow the compact formulation, the only one there is.  The relative error is a fraction above zero,
the limits of utilization are whole percents.  A limit on a request's mean response time
(`gurobi_qos_constraints.py:84-94`) is left out, which only admits more answers.  The
objective selects among these answers and is left out: the modules admit every feasible
answer, the solver returns one of them.

**PlanBuilding, PlanTransfer, HopExecution.**  A solution is a record per flow: the chain of
components with worker, layers, inputs and outputs, and the tensors cut between them.
Operators mirror the builder: which components collapse, what the replicas are called, how
input and output routings of each worker are derived.  The plan is then listed as
the parallel lists the code keeps, mapped to the message and back, and checked as
either side does.  Tensors of a route or a scheme are sets; the code keeps tuples without
repetition.  A tensor's value is the term it was computed as: two values
are equal only if the same operators made them of the same inputs and weights.  An
invocation checks sources and tensors, assembles the payload, runs the file that
was cut for the partition, and routes the result.

`MCPlanBuilding` composes the seven: model files are profiled, a step adds the answer for one
more flow, another converts the solution; plans are read by the workers, files are
cut for their partitions and a request is passed hop by hop.  A flow's
constraints are its own, and memory, processors and links only fill up, so flow by flow all
answers are reached.  Waits and bounds are checked for every ranking of components,
response times for the rankings flow by flow; the plans carry one of these.

**PlanActuation.**  Variables of the controller (pending solution, phase, version
counter), of Redis (hop catalog, published plans), of the workers (executors, stored
plans, active version), and the requests in flight.  An actuation is one turn
of the observation loop.  A prepare request walks over the hops of the plan,
one await at a time; it may be given up by the controller and go on.  Plans are
compared by their parts; `MCPlanActuation` assumes (and TLC evaluates) that
this distinguishes the plans `PlanBuilding` makes of its solutions.  `Restart`
is stop and start of the controller.  Restarts of workers and failing single commands
of a Redis pipeline are not modelled; the 409 of apply is out of reach without
the former.

**InferencePass.**  Passes carry the flow and the version of their contract; hop k of a
pass is a job.  Per worker there are the ordered postbox, the coordination
loops, the priority queue and the partition controller.  Plans are chains
(`PlanBuilding`), so every hop has one source, and the pipeline deposits the job with the contribution
(`HopGathering`).  Grants of the network and of the processor only delay
(`ActivityManager`).  A call that is refused or lost is one that never arrives; the
sender's failure may come before, after or without the arrival.  The failure
reporter is a port without an implementation, and the composition root builds the coordinator
without one (`composition/default_composition_root.py` 276-287: the constructor
requires it).  So nothing is claimed of what a report does: it may become the outcome of the
pass or not (`report_failure`), and what is shown holds for both.  A flow may get a plan of
any other version, as versions are counted from 1 again when the controller restarts; that a version then
names another plan is the finding of `PlanActuation`, here a version keeps its route.

**ModelRegistration.**  A load is the front end's three calls; the manager's handler of
the last one is an actor of its own, because it goes on when the caller has
given up.  Uploads and downloads move one object at a time.  The pending registrations are
lost when the manager restarts, Redis and S3 are not.  A worker that restarts keeps its id, and so
what it has profiled, only if `SERVICE_ID` is set (`shared/service/service.py:11-15`), as is assumed here and in
`OptimizationContext`; without it a new process is a new worker.  A worker polls for the variants it has
no profile of and measures them one after another; whatever fails is passed over
until the next poll.  What ONNX Runtime writes is an input: a
sequence of node and kernel events.  Two variables record which load of a variant is
the newest and whether two overlapped; only properties read them.

**OptimizationContext, ResourceProfiling.**  A worker advertises what its life checks answer for;
an entry lives for `EntryLife` missed heartbeats.  A network round reads the
catalog once and probes one worker per step.  A resource round and the publication of
an execution profile are single steps, being one write of values nobody else can change.
The builder is five reads, each a step, with the checks a store gateway, a domain
class or the context makes of what was read from different stores or measured; a check that raises is the step "failed".  The
checks for duplicates (`default_optimization_context_builder.py:50`, `73`, `84`) pass as long as a scan returns a variant once.  An error
of Redis there changes nothing and is not a step.  Readings of the host hold integers, a quantity the
code keeps as a float is a fraction.

## 3. Runs

| Run | Instance | Shows |
|---|---|---|
| `contribution_pipeline` | four submissions, a hop with two sources, one with one, one unknown, plan possibly late | lock, slots, handles, store and postbox are consistent at every await |
| `contribution_pipeline_live` | three submissions of whole contributions | refinement of `HopGathering`; sections are left, deposits acknowledged, complete inputs deposited |
| `activity_manager` | a worker as composed, one request each | exclusive means alone, no drift, no lost wake-up, every waiter served |
| `plan_building` | every answer for up to two flows, three workers, two models of four and five layers, three components; three kinds of requests, a complete network and one over a hub with a missing way and a missing profile | times bound the exact formulas within the relative error, and no bound cuts an answer off; answers are accepted by extraction and conversion; replicas are numbered once and plans arrive as sent; the ends of every route agree; a request passes the whole model in order, over measured connections, and its outcome is the model's; partition files compute the model; deployments fit the workers |
| `plan_building_shared` | the same | **finding**: a solution whose flows share a partition with different boundary layers is not convertible |
| `plan_actuation` | two of three solutions, two workers, one restart of the controller | published plans stay stored and their hops deployed, refinement of `PlanPublication`, the newest solution is taken |
| `plan_actuation_reuse` | two solutions, one restart | **finding**: after a restart a replica of a version has two workers |
| `inference_pass` | two passes, two loops on each of two workers, plans of two versions that replace each other, one failed execution | each waiting loop has its one request, lower versions go first |
| `inference_pass_live` | two flows that cross on two workers, executions succeed, calls and reports may fail | refinement of `ModelPass`; loops get free, accepted passes get an outcome or reach the failure reporter |
| `inference_pass_stranded` | one failed execution | **finding**: the loop never gets free |
| `registration` | two loads of a variant with bundles of one and two files, one partition, one worker with two backends, one failure or restart anywhere | artifacts are whole whenever they are known of, loads that ended well took effect, every variant is profiled in the end, and the profile is that of its layers |
| `optimization_context` | two workers, one variant stored, one registered meanwhile, one failure or stop of a worker at any time, which may start again | a context is always built; running workers end up listed, measured and connected |

*Bounds.*  Response times are computed with a relative error of 50%, four bins up to 75%: with the composed 10% the
fractions exceed TLC's 32-bit integers, so that value is left to the proofs.  Four submissions are enough for an owner, a waiter, a late-comer and one
between lookup and lock; two sources for partial and complete collections.  Eleven
tasks would be needed for the last tenth of the network; that bound is proved instead.
Two solutions with one restart let every late request meet the version that
reuses its number; two workers let a phase fail halfway.  Two passes with two
loops let requests overtake in the queue and a late call race the report of its failure.
Three components let one tensor skip one, and let one that executes nothing stand
between two that do; one model has tensors that skip a component and a node that is
no layer, the other has two layers side by side and batches of two; the memory of three layers holds one flow anywhere and two flows only
in part.  Two flows suffice for what flows share: partitions, indexes and memory
are counted over all flows in the same way.
Two bundles that share a file name let an upload replace part of
an artifact that is being read; one fault lets either of two loads stop anywhere,
and a second variant would share nothing with the first.  A worker with a graphics
card and one without, one stored and one new variant give every combination of what a
context may lack; `EntryLife` of two lets a heartbeat be missed without expiry.
Besides, the run of `MCModelRegistration` evaluates the parsing of traces for every division of three layers
over GPU and CPU, `MCOptimizationContext` the acceptance of profiles over a thousand
readings, `MCPlanBuilding` contractions over all files of three layers.
`MaxRequests`, `MaxPuts`, `MaxFlows`, `MaxComponents`, `MaxRestarts`, `MaxVersion`, `MaxFailures`,
`MaxLoads` and `MaxFaults` bound counters and nothing else;
`MaxHops` is the length of the longest route.  Deadlock is not checked
where all work may have ended.

*Fairness.*  The event loop runs what is runnable: weak fairness of the steps a
coroutine can take.  Calls, and whatever is behind the failure reporter, end because they have time-outs: weak fairness of "the
call ended, one way or another", never of its success.  Nothing is assumed of
the network, of other services' answers, or of new requests.  Profiling loops are
weakly fair because they sleep and go on whatever was raised; a probe, a download or
a measurement waits for its grant, and that it comes is what `ActivityManager` shows
only if other requests stop (`WaitersAreServed`).  Faults are bounded, so the liveness of
profiling is about what happens after the last of them.

## 4. Findings

* `except: pass` in the partition controller loop
  (`application/hop_handler/default_planned_partition_replica_hop_handler.py:97`)
  neither resolves the future nor reports: the coordination loop is lost, after four of them the worker is.
* `PlanVersionBuilder` starts from 0 in every process
  (`application/deployment/builder/plan_version_builder.py:6`): after a restart replica ids
  of a version are no longer system-wide.
* A partition is named by its executable layers
  (`application/deployment/builder/partition_replica_id_builder.py:33`), its execution scheme by the tensors of the
  component with boundary layers.  Two flows that run the same layers on one worker, one of
  them next to the model's output layer, give one partition two schemes, and
  `default_worker_plan_builder.py:220` raises: none of the flows is deployed.  The run gives
  such a pair of answers.

Met on the way, and stated by assumptions that TLC evaluates, because the code itself
announces the refusal: one worker with two GPUs makes every context fail
(`SeveralGpusAreRefused`), one variant registered for several input shapes makes the
optimizer raise for every request (`SeveralShapesAreRefused`).

## 5. Proofs

All for arbitrary constants under the named assumptions of each module: numbers of
submissions, requests, passes, loads, workers, flows and failures, and the bounds of
counters.  The assumptions only say what a constant is (a finite set, a positive
number, a route that starts at an ingress and ends in a sink), and TLC evaluates each of them.  Every invariant and
action property of the runs is proved but for those named under "Only model-checked".

* `ContributionPipelineProofs`: types, mutual exclusion, slot accounting, exact deposits,
  truthful answers, `NoCompleteCollectionLeftBehind`, `HandlesAreInStep` and the refinement of
  `HopGathering`.  The invariant is built in layers: user counts equal the
  submissions that refer to a slot; hence a slot in the table is shared by all of
  them; hence it has one owner; hence what the owner read of the store still holds when it uses it.
  On top of that, what is put has been found not to complete its collection
  (`NotReady`, `Incomplete`); a handle is built in the section, is the table's while its
  submission works on it, and is resolved when it is dropped (`Fresh`, `Built`, `InTable`); and one
  entered for a key not yet deposited belongs to kept contributions or to a submission that will keep or
  deposit its own (`Planned`, `Accounted`).
* `ActivityManagerProofs`: all safety properties.  The availability of the network
  moves on a ladder of eleven doubles, one per number of transmissions; the rungs are computed, and the
  invariant says on which one the number of grants puts it.
* `PlanActuationProofs`: types, `PublishedPlansAreStored`, `PublishedHopsAreDeployed`, and the
  refinement of `PlanPublication`.  The invariant says that requests carry the plan of the
  actuation that sent them, that a stored plan is never replaced by another one, and
  that a phase goes on only when all workers have answered; so what is published was prepared everywhere.
  For the hops it adds that a request has made an executor for each hop it has
  passed, and has passed all of them when it stores the plan; while the controller has
  not restarted, a version is used once, so the catalog has the hops where the plan has them.
* `InferencePassProofs`: types, `WaitingLoopsAreServed`, `OlderPlansGoFirst`, and the
  refinement of `ModelPass`.  The invariant says where the data of a pass can be: hops accept it
  in the order of the route, a hop that has accepted is one job, in one inbox or with one
  loop (`JobsAreHandledOnce`), and the next hop is not called before that loop calls it.  So no call is made
  twice, the sink keeps one outcome, and a request in the queue is the one its loop awaits.  The loops nobody serves
  are counted by the failures of executions, one each.
* `ModelRegistrationProofs`: `ArtifactsAreWhole`, `LoadsTakeEffect` and `ProfilesMeasureTheirLayers`.  An upload stores what a manifest names before
  the manifest, and nothing is ever removed, so who holds a manifest finds its files, whatever
  other uploads replace and wherever somebody stops.  A load that ended well took effect because, if no other load
  of its variant overlapped it, it was the newest one while it ran (`OneAtATime`), and nobody else
  touched what it uploaded and declared.
  What a worker published is what it measured (`ExecutionsInv`), so the third is about the parsers, which are folds over the events of a
  session.  A list of events `Leads` a fold from one set of states into another; lists in a row, events one by one
  and blocks that are flattened lead as their parts do (`InTurn`, `ByEvents`, `InBlocks`), and a fold is where its events lead
  (`FoldLeads`).  After a layer of a run each parser has one sample for every layer it has met in every run
  (`SamplesAfter`); the one for durations on a GPU may owe the last, which it appends when the next node
  comes (`ParsedAfter`).  So a whole session is parsed to the means and maxima of its own layers
  (`SessionIsParsed`), for any number of warm-up and measured runs and of kernels per layer, zero included;
  only a session on a GPU that no layer ran on is refused.  Sessions are those of
  `MCModelRegistration`, with its three layers and its times: `SessionsAssumption` says that these are what ONNX Runtime
  leaves, and `MarksAssumption` that marks such as `Invalid` are not values.
* `OperatorProofs`: what operators compute, whatever the behaviours.  Of sums: the library's fold takes elements out in an
  order of its own; that there is a fold over all subsets is shown for inductive sets of subsets
  (`ByElement`, `FoldingExists`), and of a sum any element may be taken out first (`SumTakesOut`), so sums over
  parts, unions and images compare as they should.  Of plans, as the parallel lists and the message: slots are finitely many and totally
  ordered, so the number of slots before one is its position: every slot is listed once, and
  entries of two lists at one position belong to one slot.  So the lists and the message of any plan are
  accepted (`SentIsValid`, `MessageIsAccepted`), and a plan arrives as it was sent (`PlanArrives`).
  Of fractions: Euclid's algorithm gives the greatest common divisor, in lowest terms fractions of one value are
  equal, so sums, products and quotients obey the laws of an ordered field, and a sum over a set is one over a common
  denominator.  Of the optimizer's times, for any context, flows and priorities (`IsProblem`), limits of utilization in whole percents and
  any fraction above zero as relative error: the powers of `1 + relative_error` exceed every limit (`Bernoulli`), so there are
  finitely many bins, 17 of them for the composed 0.1 and 0.8; the limits of the bins
  rise, and the multipliers `1 / (1 - limit)` of neighbours are at most a factor of `1 + relative_error` apart;
  hence a wait or a transmission is not below its formula and not above it by more than that factor
  (`WaitsAreClose`, `TransmissionsAreClose`), and neither are the response times, which are sums of them
  (`ResponsesAreClose`).  The second moment of a queue is at most the sum over the flows of their heaviest models, and
  at most the limit of utilization times the longest execution, so no wait exceeds the
  bound made of the lesser of both (`WaitsAreBounded`), and no transmission the nominal one of its worker (`TransmissionsAreBounded`).
* `PlanBuildingProofs`: `RoutesMeet`, `HopsAreDeployedOnce`, `RoutesFollowConnections`, `AnswersAreAccepted`,
  `ContextIsCarried`, `PlansAreWellFormed`, and that plans arrive as sent.  First for any solution the
  conversion accepts, then for every answer of the optimizer's constraints, for any workers, number of
  flows and number of components.  The slots of a flow that execute something form a chain in
  which next and previous are inverse, so both ends of a route name each other however many
  components collapse between them; the replicas of a partition are numbered by how many come before, which
  differs for any two of them, so no two slots are one hop.  That data suffice is an
  argument about cuts: a tensor crosses a cut iff one of its readers is behind it, so what a component sends on
  was sent to it or is made by its layers; and a way of tensors leads from the inputs to the outputs, so no route
  is empty.  It needs that topologies are data flows, which is proved of the profiler for every model file
  (`ModelFilesAreDataFlows`).  A model file (`IsModelFile`) lists its nodes in the order of its data, has one maker per tensor,
  no node named like the boundary layers, reads nothing that comes from nowhere, and each of its
  layers leads to its outputs: a file with dead layers is outside.  TLC evaluates `FilesAreModels`, that the
  two files of the runs and all small ones are such files.  The flows range over the files, requests and
  kinds of networks of `MCPlanBuilding`.
  `PartitionsComputeTheModel` is proved of any set of layers of any model file (`PartitionFiles`):
  `GetReachable` is the least set that is closed under going back, because a set that grows in every
  round has after as many rounds as there are nodes all of them.
  `RequestsPassTheWholeModel` builds on all of this.  A session has a *run*: values of all tensors of
  which each is what its node makes of the ones it reads (`SessionRuns`: a node that comes first among those that have
  not run could have run; `RunsAgree`: there is one).  A partition file
  given values of the whole file's run is itself run with them, so it returns values of that run
  (`PartitionsRunAsTheModel`).  Then one round of a pass takes a contribution that has values of the run to the
  next hop, as such a contribution again (`HopsAreInvoked`): its worker is the only one that plans the hop, looks up
  routings that meet, and has what it sends on.  So along the chain of the flow what reaches the sink are values of the run of the
  whole model (`PassOfRun`), all its results among them (`SinkHasTheResults`).
  `DeploymentsFitTheWorkers` relates three computations of one number: the controller's, over layers and weights of profiles;
  the profiles', over shapes the model manager stored and the worker read and bound; and what the files hold.  `FeasibleInv`
  says that every solution obeys the memory constraint.  The profiles give each tensor the bytes that it takes
  (`LayerWeights`, `ModelSizes`), and each hop that is deployed has a component that the optimizer counted, another for
  each hop, that weighs no less (`HopsHaveComponents`: two flows that share a partition share a hop, so
  the sum over hops has at most the terms of the sum over components).  That a file describes finitely many
  tensors, by dimensions that are numbers or the batch, is the assumption `FilesAreDescribed`.
  `ResponsesAreNotUnderestimated` and `BoundsCutNothingOff` apply the bounds of `OperatorProofs` to the states.  For that
  `TimesInv` says that the times kept of a flow are those of its request and answer, and that the answers are
  stable; profiles bound to one batch give positive batches and natural times (`RequestsAreProfiled`), and what two
  components exchange crosses a cut of the topology, so it is at most the profiled largest one (`CutsAreBounded`).
  Arithmetic is exact: rounding of floats is outside.
* `OptimizationContextProofs`: `ContextsAreBuilt`, for any workers, variants and readings.
  First, about the operators alone: the controller accepts every profile a
  worker with one GPU at most can collect (`CollectedProfilesAreAccepted`).  Then the
  invariant: published resource profiles are collected ones, and no worker, in a round or
  in a published profile, measures itself.  The first is what keeps the reading of resource profiles
  from failing, the second that of the network; the assumption on GPUs is needed (`SeveralGpusAreRefused`).

*Instead of induction.*  Sequences of slots, ways through a topology and positions of a list call for induction.
It is replaced by what is first-order: a set of naturals that is not empty has a least element (`LeastNatural`,
from the well-foundedness of inclusion between finite sets), applied to the set of counterexamples (`UpTo`
for what holds of each round up to some round, or of a fold after each of its events); that what grows within a finite set stops growing (`GrowthEnds`); numbers of elements that come before; and, for folds, that a set of subsets of a finite set that has the empty one, and with a subset
any that has one element more, has all of them (`ByElement`, from the same well-foundedness).

Only model-checked:

* liveness, and whatever needs ENABLED (out of the prover's reach): `WaitersAreServed`,
  `CompleteInputsAreDeposited`, `DepositIsAcknowledged`, `NewestSolutionIsActuated`, `HopInvocationsEnd`,
  `AcceptedPassesEnd`, `VariantsAreProfiled`, `RunningWorkersBecomeUsable`;
* that a session that lacks an event of a layer, or the memory of one, is refused (`IncompleteSessionsAreRefused`).

## 6. Not modelled, and what could follow

* The objective and the search of the solver, and the incumbents it keeps: numeric optimisation.  Concurrent
  optimisation requests, whose solutions are stored in the order the solver ends.
* Rounding of floats outside the activity manager.
* Errors for traces with durations or sizes of memory that are no numbers or negative
  (`ort_engine_model_execution_profiler.py:301-322`, `446-453`), and of mappers for stored profiles that are damaged.
* A scan of a Redis set that returns a member twice, as Redis permits while the set grows: the optimization context
  is then refused as one with duplicate profiles (`default_optimization_context_builder.py:50`).
* The local and the cached artifact store: no service composes them.
* What onnx_tool, ONNX Runtime and NVML do inside; `model_graph_utils.py` is
  commented out as a whole.
* Wiring, starting and stopping of services, restarts of workers while plans are actuated,
  single failing commands of a Redis pipeline.
* Identifiers, keys and Arrow schemas: identifiers are values.
