--------------------------- MODULE ResourceProfiling ---------------------------
(***************************************************************************)
(* What a worker reads off its host and what the controller makes of it:   *)
(* CgroupCpuProfiler, CgroupRamProfiler, NvidiaGpuProfiler, the worker's   *)
(* and the controller's resource profiles.                                 *)
(*                                                                         *)
(* A reading is what the files of the control group, /proc and the NVML    *)
(* hold.  A quantity the code keeps as a float is a fraction <<n, d>> with *)
(* d > 0.  Refused stands for ResourceProfilingError (and, at the          *)
(* controller, for the ValueError of a profile's validation).              *)
(***************************************************************************)
EXTENDS Integers, Sequences

CONSTANTS Refused, None,
          Unlimited,    \* "max" in cpu.max and memory.max
          Unsupported   \* NVMLError_NotSupported

\* None is no number and no fraction.
ASSUME NoneAssumption == None \notin Int /\ None \notin Int \X Int

at_most(x, y) == x[1] * y[2] <= y[1] * x[2]
lower(x, y) == IF at_most(x, y) THEN x ELSE y
equal(x, y) == x[1] * y[2] = y[1] * x[2]
is_ratio(x) == x # None => x[2] > 0 /\ 0 <= x[1] /\ x[1] <= x[2]

(***************************************************************************)
(* CPU.  A reading is [logical, quota, period, usage, now]; usage and now  *)
(* are in the same unit.                                                   *)
(***************************************************************************)

CpuReading ==
  [logical : Int, quota : Int \cup {Unlimited}, period : Int, usage : Int, now : Int]

capacity_is_valid(r) ==
  r.logical > 0 /\ r.period > 0 /\ (r.quota = Unlimited \/ r.quota > 0)

capacity_cores(r) ==
  IF r.quota = Unlimited THEN <<r.logical, 1>>
  ELSE lower(<<r.logical, 1>>, <<r.quota, r.period>>)

\* The previous sample is used if it was taken at the same capacity and
\* neither the clock nor the counter went back.
is_comparable(r, previous) ==
  /\ previous # None
  /\ equal(capacity_cores(previous), capacity_cores(r))
  /\ r.now > previous.now /\ r.usage >= previous.usage

utilization_ratio(r, previous) ==
  LET capacity == capacity_cores(r)
  IN  lower(<<(r.usage - previous.usage) * capacity[2],
              (r.now - previous.now) * capacity[1]>>, <<1, 1>>)

\* profile_cpu, after the reading `previous` (or None).
profile_cpu(r, previous) ==
  IF ~capacity_is_valid(r) \/ r.usage < 0 THEN Refused
  ELSE [logical_cpu_count |-> r.logical,
        capacity_cores |-> capacity_cores(r),
        utilization_ratio |->
          IF is_comparable(r, previous) THEN utilization_ratio(r, previous) ELSE None,
        sample_duration |->
          IF is_comparable(r, previous) THEN r.now - previous.now ELSE None]

cpu_profile_is_valid(p) ==
  /\ p.logical_cpu_count > 0
  /\ p.capacity_cores[1] > 0 /\ at_most(p.capacity_cores, <<p.logical_cpu_count, 1>>)
  /\ (p.utilization_ratio = None) <=> (p.sample_duration = None)
  /\ is_ratio(p.utilization_ratio)
  /\ p.sample_duration # None => p.sample_duration > 0

(***************************************************************************)
(* Memory.  A reading is [limit, current, total, free, resident]; total    *)
(* and free are the host's MemTotal and MemAvailable.                      *)
(***************************************************************************)

RamReading ==
  [limit : Int \cup {Unlimited}, current : Int, total : Int, free : Int, resident : Int]

ram_is_valid(r) ==
  /\ r.resident >= 0
  /\ IF r.limit = Unlimited THEN r.total > 0 /\ 0 <= r.free /\ r.free <= r.total
     ELSE r.limit > 0 /\ r.current >= 0

profile_ram(r) ==
  IF ~ram_is_valid(r) THEN Refused
  ELSE IF r.limit = Unlimited
  THEN [capacity_bytes |-> r.total, used_bytes |-> r.total - r.free,
        available_bytes |-> r.free, worker_rss_bytes |-> r.resident]
  ELSE [capacity_bytes |-> r.limit, used_bytes |-> r.current,
        available_bytes |-> IF r.current > r.limit THEN 0 ELSE r.limit - r.current,
        worker_rss_bytes |-> r.resident]

ram_profile_is_valid(p) ==
  /\ p.capacity_bytes > 0
  /\ p.used_bytes >= 0 /\ p.available_bytes >= 0 /\ p.worker_rss_bytes >= 0
  /\ p.available_bytes <= p.capacity_bytes

(***************************************************************************)
(* GPU.  A reading is [total, used, free, rates]; rates is Unsupported or  *)
(* <<compute, memory>>, each a percentage or None.                         *)
(***************************************************************************)

GpuReading ==
  [total : Int, used : Int, free : Int,
   rates : ((Int \cup {None}) \X (Int \cup {None})) \cup {Unsupported}]

gpu_memory_is_valid(r) ==
  r.total > 0 /\ r.used \in 0 .. r.total /\ r.free \in 0 .. r.total

rates_are_valid(r) ==
  r.rates # Unsupported =>
    \A i \in 1 .. 2 : r.rates[i] # None => r.rates[i] \in 0 .. 100

percentage_to_ratio(r, i) ==
  IF r.rates = Unsupported THEN None
  ELSE IF r.rates[i] = None THEN None ELSE <<r.rates[i], 100>>

profile_gpu(r) ==
  IF gpu_memory_is_valid(r) /\ rates_are_valid(r)
  THEN [total_memory_bytes |-> r.total, used_memory_bytes |-> r.used,
        available_memory_bytes |-> r.free,
        compute_utilization_ratio |-> percentage_to_ratio(r, 1),
        memory_io_utilization_ratio |-> percentage_to_ratio(r, 2)]
  ELSE Refused

gpu_profile_is_valid(p) ==
  /\ gpu_memory_is_valid([total |-> p.total_memory_bytes, used |-> p.used_memory_bytes,
                          free |-> p.available_memory_bytes])
  /\ is_ratio(p.compute_utilization_ratio) /\ is_ratio(p.memory_io_utilization_ratio)

(***************************************************************************)
(* The whole profile, of a reading [gpus, cpu, previous, ram].  The three  *)
(* parts are collected in turn and one that fails fails the round.         *)
(***************************************************************************)

HostReading ==
  [gpus : Seq(GpuReading), cpu : CpuReading, previous : CpuReading \cup {None},
   ram : RamReading]

profile_gpus(gpus) == [i \in DOMAIN gpus |-> profile_gpu(gpus[i])]

profile_resources(r) ==
  LET gpus == profile_gpus(r.gpus)
      cpu == profile_cpu(r.cpu, r.previous)
      ram == profile_ram(r.ram)
  IN  IF Refused \in {gpus[i] : i \in DOMAIN gpus} \cup {cpu, ram} THEN Refused
      ELSE [gpu_profiles |-> gpus, cpu_profile |-> cpu, ram_profile |-> ram]

\* worker_resource_profile_from_dto: the controller validates it again, and
\* supports one GPU per worker.
worker_resource_profile_from_dto(p) ==
  IF /\ \A i \in DOMAIN p.gpu_profiles : gpu_profile_is_valid(p.gpu_profiles[i])
     /\ cpu_profile_is_valid(p.cpu_profile)
     /\ ram_profile_is_valid(p.ram_profile)
     /\ Len(p.gpu_profiles) <= 1
  THEN p
  ELSE Refused

execution_backend(p) == IF p.gpu_profiles # <<>> THEN "gpu" ELSE "cpu"

available_inference_memory_bytes(p) ==
  IF p.gpu_profiles # <<>> THEN p.gpu_profiles[1].available_memory_bytes
  ELSE p.ram_profile.available_bytes
================================================================================
