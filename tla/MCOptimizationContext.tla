------------------------ MODULE MCOptimizationContext ------------------------
(* Two workers, one with a GPU, and two model variants.                     *)
EXTENDS OptimizationContext, TLC

CONSTANTS a, b, v1, v2

MCCapabilities == RequiredCapabilities
MCAnswering == {RequiredCapabilities \ {"IN_NETWORK_PROFILING"}}

Cpu(quota, usage, now) ==
  [logical |-> 4, quota |-> quota, period |-> 2, usage |-> usage, now |-> now]
Ram(limit, current) ==
  [limit |-> limit, current |-> current, total |-> 8, free |-> 3, resident |-> 1]
Gpu(used, rates) == [total |-> 8, used |-> used, free |-> 8 - used, rates |-> rates]

MCReadings ==
  (a :> {[gpus |-> <<Gpu(3, Unsupported)>>, cpu |-> Cpu(Unlimited, 9, 2),
          previous |-> Cpu(Unlimited, 1, 1), ram |-> Ram(Unlimited, 0)]}) @@
  (b :> {[gpus |-> <<>>, cpu |-> Cpu(1, 2, 3), previous |-> None, ram |-> Ram(4, 5)]})

(***************************************************************************)
(* Every profile a worker can collect is one the controller accepts, if    *)
(* the worker has one GPU at most: over all small readings, invalid ones   *)
(* included, and all pairs of successive CPU readings.                     *)
(***************************************************************************)
CpuReadings ==
  [logical : {0, 1, 2}, quota : {Unlimited, 0, 1, 3}, period : {0, 1, 2},
   usage : {-1, 0, 1, 5}, now : {1, 2}]
RamReadings ==
  [limit : {Unlimited, 0, 2}, current : {-1, 0, 3}, total : 0 .. 2, free : 0 .. 3,
   resident : {-1, 1}]
GpuReadings ==
  [total : 0 .. 2, used : -1 .. 3, free : -1 .. 3,
   rates : {Unsupported, <<None, None>>, <<0, 100>>, <<100, 101>>, <<-1, None>>}]

Profile(gpus, cpu, previous, ram) ==
  profile_resources([gpus |-> gpus, cpu |-> cpu, previous |-> previous, ram |-> ram])

AnyCpu == Cpu(1, 2, 3)
AnyRam == Ram(4, 5)

Accepted(p) == p # Refused => worker_resource_profile_from_dto(p) = p

ASSUME CpuProfilesAreAccepted ==
  \A c \in CpuReadings : \A previous \in {p \in CpuReadings : capacity_is_valid(p)} \cup {None} :
    Accepted(Profile(<<>>, c, previous, AnyRam))

ASSUME MemoryIsAccounted ==
  /\ \A r \in RamReadings :
       LET p == Profile(<<>>, AnyCpu, None, r)
       IN  /\ Accepted(p)
           /\ p # Refused =>
                /\ execution_backend(p) = "cpu"
                /\ available_inference_memory_bytes(p) \in 0 .. p.ram_profile.capacity_bytes
  /\ \A g \in GpuReadings :
       LET p == Profile(<<g>>, AnyCpu, None, AnyRam)
       IN  /\ Accepted(p)
           /\ p # Refused =>
                execution_backend(p) = "gpu" /\ available_inference_memory_bytes(p) = g.free

\* A worker with two GPUs publishes a profile the controller refuses.
ASSUME SeveralGpusAreRefused ==
  LET p == Profile(<<Gpu(3, Unsupported), Gpu(4, Unsupported)>>, AnyCpu, None, AnyRam)
  IN  p # Refused /\ worker_resource_profile_from_dto(p) = Refused
==============================================================================
