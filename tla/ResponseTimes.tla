---------------------------- MODULE ResponseTimes ----------------------------
(***************************************************************************)
(* The quantitative part of GurobiSolver's problem: the utilization of     *)
(* workers and links, the waiting times of their queues and the response   *)
(* times of flows.                                                         *)
(*                                                                         *)
(* The continuous variables of the problem are bounded from below by the   *)
(* constraints that define them, and from above by constants; an operator  *)
(* here is the least value of the variable it is named for.  Numbers are   *)
(* fractions <<numerator, denominator>>; the floats of the code have       *)
(* rounding errors that are not modelled.                                  *)
(*                                                                         *)
(* What a flow's answer says of its times does not depend on the other     *)
(* flows: an element of the sequence "timings" holds it for the element of *)
(* "answers" at the same place.                                            *)
(*                                                                         *)
(* The context of FlowOptimization also has                                *)
(*   time[w][<<variant, layer>>], bandwidth[<<source, target>>] and        *)
(*   round_trip_time[<<source, target>>],                                  *)
(* a model its batch_size and the size of its tensors, and a request its   *)
(* arrival_rate, all natural numbers; arrivals are counted per Period.     *)
(* A ranking maps components <<flow, component>> to priorities.            *)
(***************************************************************************)
EXTENDS FlowOptimization, Functions

CONSTANTS
  PriorityCount,
  Period,
  ComputeLimit,       \* compute_utilization_limit, in percent,
  NetworkLimit,       \* network_utilization_limit, in percent,
  RelativeError       \* relative_error, a fraction <<numerator, denominator>>

ASSUME ProblemConfigAssumption ==
  /\ PriorityCount \in Nat \ {0} /\ Period \in Nat \ {0}
  /\ ComputeLimit \in 1 .. 99 /\ NetworkLimit \in 1 .. 99
  /\ RelativeError \in (Nat \ {0}) \X (Nat \ {0})

-----------------------------------------------------------------------------
(* Fractions.                                                              *)

gcd[p \in Nat \X Nat] ==
  IF p[2] = 0 THEN p[1] ELSE gcd[<<p[2], p[1] % p[2]>>]

Fraction(n, d) == LET g == gcd[<<n, d>>] IN <<n \div g, d \div g>>
Zero == <<0, 1>>
One == <<1, 1>>

Plus(x, y) == Fraction(x[1] * y[2] + y[1] * x[2], x[2] * y[2])
Minus(x, y) == Fraction(x[1] * y[2] - y[1] * x[2], x[2] * y[2])
Times(x, y) == Fraction(x[1] * y[1], x[2] * y[2])
Over(x, y) == Fraction(x[1] * y[2], x[2] * y[1])
Leq(x, y) == x[1] * y[2] <= y[1] * x[2]
Least(x, y) == IF Leq(x, y) THEN x ELSE y

Total(f) == FoldFunction(Plus, Zero, f)
Greatest(S) == CHOOSE x \in S : \A y \in S : Leq(y, x)

-----------------------------------------------------------------------------
(* The problem's coefficients.                                             *)

service_arrival_rate(ctx, request, v) ==
  Fraction(request.arrival_rate, Period * ctx.models[v].batch_size)

batch_fill_time(ctx, request, v) ==
  Fraction((ctx.models[v].batch_size - 1) * Period, 2 * request.arrival_rate)

\* 1 + relative error, and its powers.
growth_factor == Fraction(RelativeError[1] + RelativeError[2], RelativeError[2])
growth[n \in Nat] == IF n = 0 THEN One ELSE Times(growth_factor, growth[n - 1])

\* Limits of utilization: from each to the next 1 / (1 - limit) grows by a factor
\* of 1 + relative error.  The powers reach 1 / (1 - limit), which is at most 100,
\* no later than 1 + n * relative error does.
interval_count(percent) ==
  LET reached(n) == Leq(Over(One, growth[n]), Minus(One, Fraction(percent, 100))) IN
  CHOOSE n \in 1 .. 100 * RelativeError[2] : reached(n) /\ ~ reached(n - 1)

bin_limits(percent) ==
  [i \in 0 .. interval_count(percent) |->
     IF i = interval_count(percent) THEN Fraction(percent, 100)
     ELSE Minus(One, Over(One, growth[i]))]

compute_bin_limits == bin_limits(ComputeLimit)
network_bin_limits == bin_limits(NetworkLimit)

\* Mutant of bin_upper: utilization is taken for the lower limit of its bin.
bin_lower(limits, rho) ==
  limits[Max({0} \cup {i \in DOMAIN limits : Leq(limits[i], rho)})]

bin_of(limits, rho) == Min({i \in DOMAIN limits \ {0} : Leq(rho, limits[i])})
bin_upper(limits, rho) == limits[bin_of(limits, rho)]

-----------------------------------------------------------------------------
(* Times of one flow.  A component is followed by one on another worker.   *)

layer_time(ctx, v, w, l) ==
  IF l \in boundary(ctx.models[v].topology) THEN 0 ELSE ctx.time[w][<<v, l>>]

\* The time of a component binds on the worker that it is on.
execution_time(ctx, a, k) ==
  MapThenSumSet(LAMBDA l : layer_time(ctx, a.variant, a.worker_of[k], l), layers_of(a, k))

Link(a, k) == <<a.worker_of[k], a.worker_of[k + 1]>>
CutsOf(a) == components(a) \ {component_last(a)}

transmitted_data_size(ctx, a, k) ==
  LET model == ctx.models[a.variant] IN
  MapThenSumSet(LAMBDA x : model.size[x], cut_tensors(model.tensor_routes, a, k))

\* Of the constraints for every pair of workers the one of the link binds,
\* unless more is transmitted than the largest cut.
transmission_time(ctx, a, k) ==
  Fraction(transmitted_data_size(ctx, a, k), ctx.bandwidth[Link(a, k)])

\* The time a transmission may take at most, over any link of the worker.
nominal_upper(ctx, request, w) ==
  Greatest({Zero} \cup
    {Fraction(ctx.models[v].max_cut, ctx.bandwidth[c]) :
       v \in eligible_models(ctx, request), c \in {d \in ctx.connections : d[1] = w}})

latency(ctx, a, k) == Fraction(ctx.round_trip_time[Link(a, k)], 2)

timing(ctx, request, a) ==
  LET rate == service_arrival_rate(ctx, request, a.variant)
      time == [k \in components(a) |-> <<execution_time(ctx, a, k), 1>>]
      sent == [k \in CutsOf(a) |-> transmission_time(ctx, a, k)]
  IN [batch_fill |-> batch_fill_time(ctx, request, a.variant),
      execution |-> time,
      utilization |-> [k \in components(a) |-> Times(rate, time[k])],
      second_moment |-> [k \in components(a) |-> Times(rate, Times(time[k], time[k]))],
      transmission |-> sent,
      network_utilization |-> [k \in CutsOf(a) |-> Times(rate, sent[k])],
      latency |-> [k \in CutsOf(a) |-> latency(ctx, a, k)]]

-----------------------------------------------------------------------------
(* Compute queues: one of every worker, served by priority.                *)

\* The class utilizations of some components, together.
utilization(timings, slots) == Total([s \in slots |-> timings[s[1]].utilization[s[2]]])

second_moment(answers, timings, w) ==
  Total([s \in components_on(answers, w) |-> timings[s[1]].second_moment[s[2]]])

compute_stability(answers, timings, w) ==
  Leq(utilization(timings, components_on(answers, w)), Fraction(ComputeLimit, 100))

\* Every component on a worker has one priority; a worker uses a prefix of them.
rankings(slots) ==
  {r \in [slots -> 1 .. PriorityCount] :
     \A s \in slots : \A p \in 1 .. r[s] : \E u \in slots : r[u] = p}

higher_priority_rho(answers, timings, r, w, p) ==
  utilization(timings, {s \in components_on(answers, w) : r[s] < p})

higher_equal_priority_rho(answers, timings, r, w, p) ==
  utilization(timings, {s \in components_on(answers, w) : r[s] <= p})

remaining_compute_capacity(answers, timings, r, w, p) ==
  Minus(One, higher_equal_priority_rho(answers, timings, r, w, p))

\* The cone constraint: second moment <= 2 * wait * remaining capacity.
weighted_queue_wait(answers, timings, r, w, p) ==
  Over(second_moment(answers, timings, w),
       Times(<<2, 1>>, remaining_compute_capacity(answers, timings, r, w, p)))

queue_wait(answers, timings, r, w, p) ==
  LET weighted == weighted_queue_wait(answers, timings, r, w, p)
      rho == higher_priority_rho(answers, timings, r, w, p)
  IN IF p = 1 THEN weighted
     ELSE Over(weighted, Minus(One, bin_upper(compute_bin_limits, rho)))

component_queue_wait(answers, timings, r, s) ==
  queue_wait(answers, timings, r, answers[s[1]].worker_of[s[2]], r[s])

-----------------------------------------------------------------------------
(* The constants that bound the waiting times from above, which must not   *)
(* exclude any answer that is stable.                                      *)

whole_model_time(ctx, v, w) ==
  MapThenSumSet(LAMBDA l : layer_time(ctx, v, w, l), layer_execution_profiles(ctx, v, w))

\* Of every flow the model that would load the worker most.
max_second_moment(ctx, requests, w) ==
  Total([f \in DOMAIN requests |->
           Greatest({Times(service_arrival_rate(ctx, requests[f], v),
                           <<whole_model_time(ctx, v, w) * whole_model_time(ctx, v, w), 1>>) :
                       v \in eligible_models(ctx, requests[f])})])

maximum_time(ctx, requests, w) ==
  Max({whole_model_time(ctx, v, w) :
         v \in UNION {eligible_models(ctx, requests[f]) : f \in DOMAIN requests}})

max_queue_wait(ctx, requests, w) ==
  LET limit == Fraction(ComputeLimit, 100)
      free == Minus(One, limit)
      most == Least(max_second_moment(ctx, requests, w),
                    Times(limit, <<maximum_time(ctx, requests, w), 1>>))
  IN Over(most, Times(<<2, 1>>, Times(free, free)))

\* The tighter bounds of the compact formulation, by priority and bin.
queue_wait_bound(worst, answers, timings, r, w, p) ==
  LET most == Times(worst, Minus(One, Fraction(ComputeLimit, 100)))
      rho == higher_priority_rho(answers, timings, r, w, p)
  IN IF p = 1 THEN most
     ELSE Over(most, Minus(One, bin_upper(compute_bin_limits, rho)))

-----------------------------------------------------------------------------
(* Transmission: a worker's sends share its link to the network.           *)

transmissions_from(answers, w) ==
  {s \in components_on(answers, w) : s[2] \in CutsOf(answers[s[1]])}

network_utilization(answers, timings, w) ==
  Total([s \in transmissions_from(answers, w) |-> timings[s[1]].network_utilization[s[2]]])

network_stability(answers, timings, w) ==
  Leq(network_utilization(answers, timings, w), Fraction(NetworkLimit, 100))

multiplier(i) == Over(One, Minus(One, network_bin_limits[i]))

\* A constraint for every bin i, of which those above the selected one are
\* relaxed by upper * (multiplier(i) - multiplier(bin)).
projected_ps_epigraph(nominal, upper, bin) ==
  LET relaxed(i) == Times(upper, Minus(multiplier(i), multiplier(bin)))
      bound(i) == Times(multiplier(i), nominal)
  IN Greatest({bound(i) : i \in 1 .. bin}
       \cup {Minus(bound(i), Least(bound(i), relaxed(i))) :
               i \in bin + 1 .. Max(DOMAIN network_bin_limits)})

transmission_response(ctx, requests, answers, timings, s) ==
  LET w == answers[s[1]].worker_of[s[2]]
      rho == network_utilization(answers, timings, w)
  IN projected_ps_epigraph(timings[s[1]].transmission[s[2]],
                           nominal_upper(ctx, requests[s[1]], w),
                           bin_of(network_bin_limits, rho))

-----------------------------------------------------------------------------
(* Quality of service.                                                     *)

response_time(ctx, requests, answers, timings, r, f) ==
  LET of_component(k) ==
        Plus(timings[f].execution[k], component_queue_wait(answers, timings, r, <<f, k>>))
      of_cut(k) ==
        Plus(transmission_response(ctx, requests, answers, timings, <<f, k>>), timings[f].latency[k])
  IN Plus(timings[f].batch_fill,
          Plus(Total([k \in components(answers[f]) |-> of_component(k)]),
               Total([k \in CutsOf(answers[f]) |-> of_cut(k)])))

stable(ctx, answers, timings) ==
  \A w \in ctx.workers :
    /\ compute_stability(answers, timings, w)
    /\ network_stability(answers, timings, w)
=============================================================================
