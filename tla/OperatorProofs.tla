---------------------------- MODULE OperatorProofs ----------------------------
(***************************************************************************)
(* Theorems about operators, whatever the behaviours: sums over finite     *)
(* sets, worker plans as they are listed, sent and looked up, fractions,   *)
(* and the times of the optimizer's problem.                               *)
(*                                                                         *)
(* A fold over a set takes out elements in an order of its own.  One over  *)
(* all subsets exists (FoldingExists), and of sums every element may be    *)
(* taken out first (SumTakesOut), so that sums over parts, unions and      *)
(* images compare as sums do.  What is shown by induction elsewhere is     *)
(* shown for inductive sets of subsets here (ByElement).                   *)
(*                                                                         *)
(* The slots of a plan are finitely many and totally ordered, so that the  *)
(* number of slots before one is its position (Positions): every slot is   *)
(* listed, and listed once, and what two lists of a plan have at the same  *)
(* position belongs to the same slot (LookUp).                             *)
(*                                                                         *)
(* A fraction is kept in lowest terms, in which those of one value are one *)
(* pair, so that fractions have the laws of an ordered field.  The powers  *)
(* of 1 + relative error exceed every limit (Bernoulli), so that there are *)
(* finitely many bins however small the error.  The multipliers at the     *)
(* limits of a bin are at most a factor of 1 + relative error apart, so    *)
(* each wait and transmission is as close as the error allows to its       *)
(* formula (WaitsAreClose, TransmissionsAreClose), and so are their sums   *)
(* (ResponsesAreClose).  What a queue holds is bounded by what its         *)
(* worker would, of every flow, be loaded most with (WaitsAreBounded).     *)
(***************************************************************************)
EXTENDS PlanTransfer, ResponseTimes, FiniteSetTheorems, WellFoundedInduction, TLAPS

\* From the well-foundedness of inclusion between finite sets: no induction.
LEMMA LeastNatural ==
  ASSUME NEW S, S \subseteq Nat, S # {}
  PROVE  \E x \in S : \A y \in S : x <= y
<1> DEFINE Below == {0 .. x : x \in S}
<1>1. Below \subseteq FiniteSubsetsOf(Nat)
  <2> SUFFICES ASSUME NEW x \in S PROVE (0 .. x) \in FiniteSubsetsOf(Nat)
    OBVIOUS
  <2>1. IsFiniteSet(0 .. x) BY FS_Interval
  <2>2. (0 .. x) \subseteq Nat OBVIOUS
  <2> QED BY <2>1, <2>2 DEF FiniteSubsetsOf
<1>2. \E u \in Below : \A v \in Below : ~(<<v, u>> \in StrictSubsetOrdering(Nat))
  <2>1. Below # {} OBVIOUS
  <2> HIDE DEF Below
  <2> QED BY <1>1, <2>1, FS_StrictSubsetOrderingWellFounded, WFMin
<1>3. PICK x \in S : \A y \in S : ~(<<0 .. y, 0 .. x>> \in StrictSubsetOrdering(Nat))
  BY <1>2
<1>4. SUFFICES ASSUME NEW y \in S, y < x PROVE FALSE
  BY <1>3
<1>5. (0 .. y) \subseteq (0 .. x) /\ (0 .. y) # (0 .. x)
  <2>1. x \in 0 .. x /\ x \notin 0 .. y /\ x \in Nat /\ y \in Nat
    BY <1>4
  <2> QED BY <2>1, <1>4
<1>6. (0 .. y) \in SUBSET Nat /\ (0 .. x) \in SUBSET Nat
  OBVIOUS
<1>7. <<0 .. y, 0 .. x>> \in StrictSubsetOrdering(Nat)
  BY <1>5, <1>6, Zenon DEF StrictSubsetOrdering
<1> QED BY <1>3, <1>4, <1>7

LEMMA MinIsLeast ==
  ASSUME NEW S, S \subseteq Nat, S # {}
  PROVE  Min(S) \in S /\ \A y \in S : Min(S) <= y
<1>1. \E x \in S : \A y \in S : x <= y
  BY LeastNatural
<1> QED BY <1>1, Zenon DEF Min

LEMMA MaxIsGreatest ==
  ASSUME NEW S, S \subseteq Nat, S # {}, NEW n \in Nat, \A y \in S : y <= n
  PROVE  Max(S) \in S /\ \A y \in S : y <= Max(S)
<1> DEFINE Above == {n - y : y \in S}
<1>1. Above \subseteq Nat
  <2> SUFFICES ASSUME NEW y \in S PROVE n - y \in Nat
    OBVIOUS
  <2>1. y \in Nat /\ y <= n
    OBVIOUS
  <2> QED BY <2>1
<1>2. Above # {}
  OBVIOUS
<1>3. PICK r \in Above : \A q \in Above : r <= q
  <2> HIDE DEF Above
  <2> QED BY <1>1, <1>2, LeastNatural
<1>4. PICK x \in S : r = n - x
  OBVIOUS
<1>5. ASSUME NEW y \in S PROVE x >= y
  <2>1. x \in Nat /\ y \in Nat /\ n - y \in Above
    OBVIOUS
  <2>2. r <= n - y
    BY <1>3, <2>1
  <2> QED BY <1>4, <2>1, <2>2
<1>6. Max(S) \in S /\ \A y \in S : Max(S) >= y
  BY <1>5, Zenon DEF Max
<1>7. ASSUME NEW y \in S PROVE y <= Max(S)
  <2>1. y \in Nat /\ Max(S) \in Nat /\ Max(S) >= y
    BY <1>6
  <2> QED BY <2>1
<1> QED BY <1>6, <1>7

\* What induction says of numbers up to N.
LEMMA UpTo ==
  ASSUME NEW N \in Nat, NEW P \in SUBSET (0 .. N), 0 \in P,
         \A k \in 0 .. N : k # N /\ k \in P => k + 1 \in P
  PROVE  \A k \in 0 .. N : k \in P
<1> PICK Others : Others = (0 .. N) \ P
  OBVIOUS
<1>1. SUFFICES ASSUME Others # {} PROVE FALSE
  OBVIOUS
<1>2. Others \subseteq Nat
  OBVIOUS
<1>3. PICK b \in Others : \A k \in Others : b <= k
  BY <1>1, <1>2, LeastNatural
<1>4. b \in 0 .. N /\ b # 0 /\ b - 1 \in 0 .. N /\ b - 1 # N
  BY <1>3
<1>5. b - 1 \in P
  BY <1>3, <1>4
<1> QED BY <1>3, <1>4, <1>5

-----------------------------------------------------------------------------
(* Sums over finite sets.                                                  *)

\* What induction says of the subsets of a finite set.
IsInductive(P, S) ==
  /\ {} \in P
  /\ \A s \in SUBSET S : s # {} /\ (\A x \in s : s \ {x} \in P) => s \in P

LEMMA ByElement ==
  ASSUME NEW S, IsFiniteSet(S), NEW P, IsInductive(P, S)
  PROVE  S \in P
<1> PICK Others : Others = (SUBSET S) \ P
  OBVIOUS
<1>1. SUFFICES ASSUME Others # {} PROVE FALSE
  OBVIOUS
<1>2. Others \subseteq FiniteSubsetsOf(S)
  BY FS_Subset DEF FiniteSubsetsOf
<1>3. PICK s \in Others : \A r \in Others : ~(<<r, s>> \in StrictSubsetOrdering(S))
  BY <1>1, <1>2, FS_StrictSubsetOrderingWellFounded, WFMin
<1>4. ASSUME NEW x \in s PROVE s \ {x} \in P
  <2>1. <<s \ {x}, s>> \in StrictSubsetOrdering(S)
    BY DEF StrictSubsetOrdering
  <2> QED BY <1>3, <2>1
<1> QED BY <1>3, <1>4 DEF IsInductive

\* A set folded by taking out elements one by one, as they are chosen.
Chooses(chosen, S) == \A s \in SUBSET S : s # {} => chosen[s] \in s
FoldedOf(s, f, base, step, chosen) ==
  IF s = {} THEN base ELSE step[<<chosen[s], f[s \ {chosen[s]}]>>]
IsFolding(f, S, base, step, chosen) ==
  f = [s \in SUBSET S |-> FoldedOf(s, f, base, step, chosen)]

LEMMA FoldingExists ==
  ASSUME NEW S, IsFiniteSet(S), NEW V, NEW base \in V, NEW step \in [S \X V -> V],
         NEW chosen, Chooses(chosen, S)
  PROVE  \E f \in [SUBSET S -> V] : IsFolding(f, S, base, step, chosen)
<1> PICK N \in Nat : N = Cardinality(S)
  BY FS_CardinalityType
<1> DEFINE Small(n) == {s \in SUBSET S : Cardinality(s) <= n}
           P == {n \in 0 .. N : \E f \in [SUBSET S -> V] :
                   \A s \in Small(n) : f[s] = FoldedOf(s, f, base, step, chosen)}
<1>1. \A s \in SUBSET S : IsFiniteSet(s) /\ Cardinality(s) \in 0 .. N
  BY FS_Subset, FS_CardinalityType
<1>2. 0 \in P
  <2> PICK f : f = [s \in SUBSET S |-> base]
    OBVIOUS
  <2>1. ASSUME NEW s \in Small(0) PROVE f[s] = FoldedOf(s, f, base, step, chosen)
    <3>1. s = {}
      BY <1>1, FS_EmptySet
    <3> QED BY <3>1 DEF FoldedOf
  <2> QED BY <2>1
<1>3. ASSUME NEW n \in 0 .. N, n # N, n \in P PROVE n + 1 \in P
  <2>1. PICK f \in [SUBSET S -> V] : \A s \in Small(n) : f[s] = FoldedOf(s, f, base, step, chosen)
    BY <1>3
  <2> PICK g : g = [s \in SUBSET S |->
                      IF Cardinality(s) = n + 1 THEN FoldedOf(s, f, base, step, chosen) ELSE f[s]]
    OBVIOUS
  <2>2. ASSUME NEW s \in SUBSET S, s # {}
        PROVE  /\ chosen[s] \in s
               /\ Cardinality(s \ {chosen[s]}) = Cardinality(s) - 1
               /\ s \ {chosen[s]} \in SUBSET S
    BY <1>1, <2>2, FS_RemoveElement DEF Chooses
  <2>3. \A s \in SUBSET S : FoldedOf(s, f, base, step, chosen) \in V
    BY <2>2 DEF FoldedOf
  <2>4. g \in [SUBSET S -> V]
    BY <2>3
  <2>5. ASSUME NEW s \in Small(n + 1) PROVE g[s] = FoldedOf(s, f, base, step, chosen)
    <3>1. CASE Cardinality(s) = n + 1
      BY <3>1
    <3>2. CASE Cardinality(s) # n + 1
      <4>1. s \in Small(n)
        BY <1>1, <3>2
      <4> QED BY <2>1, <3>2, <4>1
    <3> QED BY <3>1, <3>2
  <2>6. ASSUME NEW s \in Small(n + 1) PROVE g[s] = FoldedOf(s, g, base, step, chosen)
    <3>1. CASE s = {}
      BY <2>5, <3>1 DEF FoldedOf
    <3>2. CASE s # {}
      <4> PICK c : c = chosen[s]
        OBVIOUS
      <4>1. Cardinality(s \ {c}) = Cardinality(s) - 1 /\ s \ {c} \in SUBSET S
        BY <2>2, <3>2
      <4>2. Cardinality(s \ {c}) # n + 1
        BY <1>1, <4>1
      <4>3. g[s \ {c}] = f[s \ {c}]
        BY <4>1, <4>2
      <4>4. FoldedOf(s, f, base, step, chosen) = step[<<c, f[s \ {c}]>>]
            /\ FoldedOf(s, g, base, step, chosen) = step[<<c, g[s \ {c}]>>]
        BY <3>2, Zenon DEF FoldedOf
      <4> QED BY <2>5, <4>3, <4>4
    <3> QED BY <3>1, <3>2
  <2>7. n + 1 \in 0 .. N
    BY <1>3
  <2> QED BY <2>4, <2>6, <2>7
<1>4. N \in P
  <2>1. P \in SUBSET (0 .. N) /\ \A n \in 0 .. N : n # N /\ n \in P => n + 1 \in P
    BY <1>3
  <2> HIDE DEF P
  <2>2. \A n \in 0 .. N : n \in P
    BY <1>2, <2>1, UpTo
  <2> QED BY <2>2
<1>5. PICK f \in [SUBSET S -> V] : \A s \in Small(N) : f[s] = FoldedOf(s, f, base, step, chosen)
  BY <1>4
<1>6. \A s \in SUBSET S : f[s] = FoldedOf(s, f, base, step, chosen)
  BY <1>1, <1>5
<1> QED BY <1>6 DEF IsFolding

\* h gives a number of each element of S; g is the sum over each subset of S.
Counts(h, S) == IsFiniteSet(S) /\ \A x \in S : h[x] \in Nat
Summed(s, g, h) ==
  IF s = {} THEN 0 ELSE LET x == CHOOSE x \in s : TRUE IN h[x] + g[s \ {x}]
IsSumming(g, h, S) == g = [s \in SUBSET S |-> Summed(s, g, h)]
SumOver(h, S) == (CHOOSE g : IsSumming(g, h, S))[S]

LEMMA CountsOfPart ==
  ASSUME NEW S, NEW h, Counts(h, S), NEW T \in SUBSET S
  PROVE  Counts(h, T)
BY FS_Subset DEF Counts

LEMMA SumsOfSubsets ==
  ASSUME NEW S, NEW h, Counts(h, S)
  PROVE  \E g \in [SUBSET S -> Nat] : IsSumming(g, h, S)
<1> PICK step : step = [p \in S \X Nat |-> h[p[1]] + p[2]]
  OBVIOUS
<1>1. step \in [S \X Nat -> Nat] /\ \A x \in S, n \in Nat : step[<<x, n>>] = h[x] + n
  BY DEF Counts
<1> PICK chosen : chosen = [s \in SUBSET S |-> CHOOSE x \in s : TRUE]
  OBVIOUS
<1>c. Chooses(chosen, S)
  BY DEF Chooses
<1>2. PICK g \in [SUBSET S -> Nat] : IsFolding(g, S, 0, step, chosen)
  BY <1>1, <1>c, FoldingExists DEF Counts
<1>3. ASSUME NEW s \in SUBSET S PROVE Summed(s, g, h) = FoldedOf(s, g, 0, step, chosen)
  <2>1. CASE s = {}
    BY <2>1 DEF Summed, FoldedOf
  <2>2. CASE s # {}
    <3> PICK c : c = CHOOSE x \in s : TRUE
      OBVIOUS
    <3>1. c \in S /\ g[s \ {c}] \in Nat
      BY <2>2
    <3>2. step[<<c, g[s \ {c}]>>] = h[c] + g[s \ {c}]
      BY <1>1, <3>1
    <3>3. Summed(s, g, h) = h[c] + g[s \ {c}]
      BY <2>2, Zenon DEF Summed
    <3>4. FoldedOf(s, g, 0, step, chosen) = step[<<c, g[s \ {c}]>>]
      <4>1. chosen[s] = c
        OBVIOUS
      <4> QED BY <2>2, <4>1, Zenon DEF FoldedOf
    <3> QED BY <3>2, <3>3, <3>4
  <2> QED BY <2>1, <2>2
<1>4. IsSumming(g, h, S)
  BY <1>2, <1>3 DEF IsSumming, IsFolding
<1> QED BY <1>4

\* Whatever sums h over the subsets of S gives the sum of each of them.
LEMMA SumIs ==
  ASSUME NEW S, NEW h, Counts(h, S), NEW g, IsSumming(g, h, S)
  PROVE  \A T \in SUBSET S : g[T] = SumOver(h, T) /\ g[T] \in Nat
<1> SUFFICES ASSUME NEW T \in SUBSET S PROVE g[T] = SumOver(h, T) /\ g[T] \in Nat
  OBVIOUS
<1>1. Counts(h, T)
  BY CountsOfPart
<1>2. PICK f : IsSumming(f, h, T) /\ f = CHOOSE k : IsSumming(k, h, T)
  BY <1>1, SumsOfSubsets
<1>3. PICK k \in [SUBSET T -> Nat] : IsSumming(k, h, T)
  BY <1>1, SumsOfSubsets
<1> PICK P : P = {s \in SUBSET T : g[s] = f[s] /\ g[s] = k[s]}
  OBVIOUS
<1>4. \A s \in SUBSET T : /\ f[s] = Summed(s, f, h) /\ g[s] = Summed(s, g, h)
                          /\ k[s] = Summed(s, k, h)
  BY <1>2, <1>3 DEF IsSumming
<1>5. {} \in P
  BY <1>4 DEF Summed
<1>6. ASSUME NEW s \in SUBSET T, s # {}, \A x \in s : s \ {x} \in P PROVE s \in P
  <2> PICK c : c = CHOOSE x \in s : TRUE
    OBVIOUS
  <2>1. c \in s
    BY <1>6
  <2>2. g[s \ {c}] = f[s \ {c}] /\ g[s \ {c}] = k[s \ {c}]
    BY <1>6, <2>1
  <2>3. /\ Summed(s, f, h) = h[c] + f[s \ {c}] /\ Summed(s, g, h) = h[c] + g[s \ {c}]
        /\ Summed(s, k, h) = h[c] + k[s \ {c}]
    BY <1>6, Zenon DEF Summed
  <2> QED BY <1>4, <2>2, <2>3
<1>7. IsInductive(P, T)
  BY <1>5, <1>6 DEF IsInductive
<1>8. T \in P
  BY <1>1, <1>7, ByElement DEF Counts
<1>9. g[T] = f[T] /\ g[T] \in Nat
  BY <1>8
<1>10. SumOver(h, T) = f[T]
  BY <1>2, Zenon DEF SumOver
<1> QED BY <1>9, <1>10

LEMMA SumOfNone == \A h : SumOver(h, {}) = 0
<1> SUFFICES ASSUME NEW h PROVE SumOver(h, {}) = 0
  OBVIOUS
<1>1. Counts(h, {})
  BY FS_EmptySet DEF Counts
<1>2. PICK g : IsSumming(g, h, {})
  BY <1>1, SumsOfSubsets
<1>3. g[{}] = 0
  BY <1>2 DEF IsSumming, Summed
<1> QED BY <1>1, <1>2, <1>3, SumIs

\* Any element may be taken out of a sum.
LEMMA SumTakesOut ==
  ASSUME NEW S, NEW h, Counts(h, S)
  PROVE  \A x \in S : SumOver(h, S) = h[x] + SumOver(h, S \ {x})
<1>1. PICK g : IsSumming(g, h, S)
  BY SumsOfSubsets
<1>2. \A s \in SUBSET S : g[s] = SumOver(h, s) /\ g[s] \in Nat
  BY <1>1, SumIs
<1>3. \A x \in S : h[x] \in Nat
  BY DEF Counts
<1> PICK P : P = {s \in SUBSET S : \A x \in s : g[s] = h[x] + g[s \ {x}]}
  OBVIOUS
<1>4. {} \in P
  OBVIOUS
<1>5. ASSUME NEW s \in SUBSET S, s # {}, \A x \in s : s \ {x} \in P PROVE s \in P
  <2> PICK c : c = CHOOSE x \in s : TRUE
    OBVIOUS
  <2>1. c \in s
    BY <1>5
  <2>2. g[s] = h[c] + g[s \ {c}]
    <3>1. g[s] = Summed(s, g, h)
      BY <1>1 DEF IsSumming
    <3>2. Summed(s, g, h) = h[c] + g[s \ {c}]
      BY <1>5, Zenon DEF Summed
    <3> QED BY <3>1, <3>2
  <2>3. ASSUME NEW x \in s, x # c PROVE g[s] = h[x] + g[s \ {x}]
    <3> PICK least : least = (s \ {c}) \ {x}
      OBVIOUS
    <3>1. least = (s \ {x}) \ {c} /\ x \in s \ {c} /\ c \in s \ {x}
      BY <2>1, <2>3
    <3>2. s \ {c} \in P /\ s \ {x} \in P
      BY <1>5, <2>1
    <3>3. g[s \ {c}] = h[x] + g[least] /\ g[s \ {x}] = h[c] + g[least]
      BY <3>1, <3>2
    <3>4. h[x] \in Nat /\ h[c] \in Nat /\ least \in SUBSET S
      BY <1>3, <2>1
    <3>5. g[least] \in Nat
      BY <1>2, <3>4
    <3> QED BY <2>2, <3>3, <3>4, <3>5
  <2>4. \A x \in s : g[s] = h[x] + g[s \ {x}]
    BY <2>2, <2>3
  <2> QED BY <2>4
<1>6. IsInductive(P, S)
  BY <1>4, <1>5 DEF IsInductive
<1>7. S \in P
  BY <1>6, ByElement DEF Counts
<1>8. \A x \in S : g[S] = h[x] + g[S \ {x}] /\ S \ {x} \in SUBSET S /\ S \in SUBSET S
  BY <1>7
<1> HIDE DEF SumOver
<1> QED BY <1>2, <1>8

LEMMA SumIsNatural ==
  ASSUME NEW S, NEW h, Counts(h, S)
  PROVE  SumOver(h, S) \in Nat
<1>1. PICK g : IsSumming(g, h, S)
  BY SumsOfSubsets
<1> QED BY <1>1, SumIs

LEMMA SumOfPart ==
  ASSUME NEW S, NEW h, Counts(h, S), NEW T \in SUBSET S
  PROVE  SumOver(h, T) <= SumOver(h, S)
<1> PICK P : P = {s \in SUBSET S : SumOver(h, s \cap T) <= SumOver(h, s)}
  OBVIOUS
<1>1. {} \in P
  <2>1. SumOver(h, {}) = 0 /\ {} \cap T = {}
    BY SumOfNone
  <2> QED BY <2>1
<1>2. ASSUME NEW s \in SUBSET S, s # {}, \A x \in s : s \ {x} \in P PROVE s \in P
  <2>1. PICK x \in s : TRUE
    BY <1>2
  <2> PICK u : u = s \cap T
    OBVIOUS
  <2>2. Counts(h, s) /\ Counts(h, u) /\ Counts(h, u \ {x}) /\ Counts(h, s \ {x})
    BY CountsOfPart
  <2>3. SumOver(h, s) = h[x] + SumOver(h, s \ {x}) /\ h[x] \in Nat
    BY <2>2, SumTakesOut DEF Counts
  <2>4. /\ SumOver(h, s) \in Nat /\ SumOver(h, u) \in Nat /\ SumOver(h, u \ {x}) \in Nat
        /\ SumOver(h, s \ {x}) \in Nat
    BY <2>2, SumIsNatural
  <2>5. SumOver(h, (s \ {x}) \cap T) <= SumOver(h, s \ {x})
    BY <1>2
  <2>6. CASE x \in T
    <3>1. SumOver(h, u) = h[x] + SumOver(h, u \ {x}) /\ (s \ {x}) \cap T = u \ {x}
      BY <2>2, <2>6, SumTakesOut
    <3> QED BY <2>3, <2>4, <2>5, <3>1
  <2>7. CASE x \notin T
    <3>1. (s \ {x}) \cap T = u
      BY <2>7
    <3> QED BY <2>3, <2>4, <2>5, <3>1
  <2> QED BY <2>6, <2>7
<1>3. IsInductive(P, S)
  BY <1>1, <1>2 DEF IsInductive
<1>4. S \in P
  BY <1>3, ByElement DEF Counts
<1>5. S \cap T = T
  OBVIOUS
<1> QED BY <1>4, <1>5

\* A sum is at most that of other numbers, if each of its numbers has one of them,
\* no smaller, of its own.
AtMostInto(h, S, k, T, into) ==
  /\ into \in [S -> T]
  /\ \A x, y \in S : into[x] = into[y] => x = y
  /\ \A x \in S : h[x] <= k[into[x]]

LEMMA SumAtMost ==
  ASSUME NEW S, NEW h, Counts(h, S), NEW T, NEW k, Counts(k, T),
         NEW into, AtMostInto(h, S, k, T, into)
  PROVE  SumOver(h, S) <= SumOver(k, T)
<1> DEFINE image(s) == {into[x] : x \in s}
<1> PICK P : P = {s \in SUBSET S : SumOver(h, s) <= SumOver(k, image(s))}
  OBVIOUS
<1>1. {} \in P
  <2>1. SumOver(h, {}) = 0 /\ SumOver(k, {}) = 0 /\ image({}) = {}
    BY SumOfNone
  <2> QED BY <2>1
<1>2. ASSUME NEW s \in SUBSET S, s # {}, \A x \in s : s \ {x} \in P PROVE s \in P
  <2>1. PICK x \in s : TRUE
    BY <1>2
  <2>2. into[x] \in image(s) /\ image(s) \in SUBSET T
    BY DEF AtMostInto
  <2>3. image(s) \ {into[x]} = image(s \ {x})
    BY DEF AtMostInto
  <2>4. SumOver(h, s \ {x}) <= SumOver(k, image(s \ {x}))
    BY <1>2
  <2> PICK i : i = image(s)
    OBVIOUS
  <2> PICK y : y = into[x]
    OBVIOUS
  <2>5. y \in i /\ i \in SUBSET T /\ SumOver(h, s \ {x}) <= SumOver(k, i \ {y})
    BY <2>2, <2>3, <2>4
  <2>6. Counts(h, s) /\ Counts(h, s \ {x}) /\ Counts(k, i) /\ Counts(k, i \ {y})
    BY <2>5, CountsOfPart
  <2>7. SumOver(h, s) = h[x] + SumOver(h, s \ {x}) /\ SumOver(k, i) = k[y] + SumOver(k, i \ {y})
    BY <2>5, <2>6, SumTakesOut
  <2>8. h[x] \in Nat /\ k[y] \in Nat /\ h[x] <= k[y]
    BY <2>5 DEF Counts, AtMostInto
  <2>9. SumOver(h, s \ {x}) \in Nat /\ SumOver(k, i \ {y}) \in Nat
    BY <2>6, SumIsNatural
  <2>10. SumOver(h, s) <= SumOver(k, i)
    BY <2>5, <2>7, <2>8, <2>9
  <2> HIDE DEF image
  <2> QED BY <2>10
<1>3. IsInductive(P, S)
  BY <1>1, <1>2 DEF IsInductive
<1>4. SumOver(h, S) <= SumOver(k, image(S))
  BY <1>3, ByElement DEF Counts
<1>5. image(S) \in SUBSET T
  BY DEF AtMostInto
<1>6. SumOver(k, image(S)) <= SumOver(k, T)
  BY <1>5, SumOfPart
<1>7. /\ SumOver(h, S) \in Nat /\ SumOver(k, T) \in Nat /\ SumOver(k, image(S)) \in Nat
  BY <1>5, CountsOfPart, SumIsNatural
<1> QED BY <1>4, <1>6, <1>7

LEMMA SumsAgree ==
  ASSUME NEW S, NEW h, Counts(h, S), NEW k, \A x \in S : h[x] = k[x]
  PROVE  Counts(k, S) /\ SumOver(h, S) = SumOver(k, S)
<1> PICK into : into = [x \in S |-> x]
  OBVIOUS
<1>1. Counts(k, S)
  BY DEF Counts
<1>2. \A x \in S : h[x] \in Nat
  BY DEF Counts
<1>3. AtMostInto(h, S, k, S, into) /\ AtMostInto(k, S, h, S, into)
  BY <1>2 DEF AtMostInto
<1>4. SumOver(h, S) <= SumOver(k, S) /\ SumOver(k, S) <= SumOver(h, S)
  BY <1>1, <1>3, SumAtMost
<1>5. SumOver(h, S) \in Nat /\ SumOver(k, S) \in Nat
  BY <1>1, SumIsNatural
<1> QED BY <1>1, <1>4, <1>5

LEMMA SumOfUnion ==
  ASSUME NEW A, NEW B, NEW h, Counts(h, A \cup B)
  PROVE  SumOver(h, A \cup B) <= SumOver(h, A) + SumOver(h, B)
<1> PICK P : P = {s \in SUBSET A : SumOver(h, s \cup B) <= SumOver(h, s) + SumOver(h, B)}
  OBVIOUS
<1>0. Counts(h, A) /\ Counts(h, B)
  BY CountsOfPart
<1>b. SumOver(h, B) \in Nat
  BY <1>0, SumIsNatural
<1>1. {} \in P
  <2>1. SumOver(h, {}) = 0 /\ {} \cup B = B
    BY SumOfNone
  <2> QED BY <1>b, <2>1
<1>2. ASSUME NEW s \in SUBSET A, s # {}, \A x \in s : s \ {x} \in P PROVE s \in P
  <2>1. PICK x \in s : TRUE
    BY <1>2
  <2> PICK u : u = s \cup B
    OBVIOUS
  <2> PICK least : least = s \ {x}
    OBVIOUS
  <2>2. Counts(h, s) /\ Counts(h, u) /\ Counts(h, u \ {x}) /\ Counts(h, least)
    BY CountsOfPart
  <2>3. SumOver(h, s) = h[x] + SumOver(h, least) /\ h[x] \in Nat
    BY <2>2, SumTakesOut DEF Counts
  <2>4. SumOver(h, u) = h[x] + SumOver(h, u \ {x})
    BY <2>2, SumTakesOut
  <2>5. SumOver(h, u \ {x}) \in Nat /\ SumOver(h, least) \in Nat /\ SumOver(h, u) \in Nat
    BY <2>2, SumIsNatural
  <2>6. SumOver(h, least \cup B) <= SumOver(h, least) + SumOver(h, B)
    BY <1>2
  <2>7. CASE x \in B
    <3>1. least \cup B = u
      BY <2>7
    <3> QED BY <1>b, <2>3, <2>5, <2>6, <3>1
  <2>8. CASE x \notin B
    <3>1. least \cup B = u \ {x}
      BY <2>8
    <3> QED BY <1>b, <2>3, <2>4, <2>5, <2>6, <3>1
  <2> QED BY <2>7, <2>8
<1>3. IsInductive(P, A)
  BY <1>1, <1>2 DEF IsInductive
<1> QED BY <1>0, <1>3, ByElement DEF Counts

\* What several sets hold counts at most as often as sets hold it.
LEMMA SumOfUnions ==
  ASSUME NEW L, IsFiniteSet(L), NEW sets, NEW h, \A l \in L : Counts(h, sets[l])
  PROVE  LET sums == [l \in L |-> SumOver(h, sets[l])]
             all == UNION {sets[l] : l \in L}
         IN Counts(h, all) /\ Counts(sums, L) /\ SumOver(h, all) <= SumOver(sums, L)
<1> DEFINE all(s) == UNION {sets[l] : l \in s}
<1> PICK sums : sums = [l \in L |-> SumOver(h, sets[l])]
  OBVIOUS
<1>0. Counts(sums, L)
  BY SumIsNatural DEF Counts
<1> PICK P : P = {s \in SUBSET L : Counts(h, all(s)) /\ SumOver(h, all(s)) <= SumOver(sums, s)}
  OBVIOUS
<1>1. {} \in P
  <2>1. SumOver(h, {}) = 0 /\ SumOver(sums, {}) = 0 /\ all({}) = {}
    BY SumOfNone
  <2>2. Counts(h, {})
    BY FS_EmptySet DEF Counts
  <2>3. Counts(h, all({})) /\ SumOver(h, all({})) <= SumOver(sums, {})
    BY <2>1, <2>2
  <2> HIDE DEF all
  <2> QED BY <2>3
<1>2. ASSUME NEW s \in SUBSET L, s # {}, \A x \in s : s \ {x} \in P PROVE s \in P
  <2>1. PICK x \in s : TRUE
    BY <1>2
  <2> PICK own : own = sets[x]
    OBVIOUS
  <2> PICK rest : rest = all(s \ {x})
    OBVIOUS
  <2>2. all(s) = own \cup rest
    OBVIOUS
  <2>3. Counts(h, rest) /\ SumOver(h, rest) <= SumOver(sums, s \ {x})
    BY <1>2
  <2>4. Counts(h, own) /\ sums[x] = SumOver(h, own)
    OBVIOUS
  <2> HIDE DEF all
  <2>5. Counts(h, own \cup rest)
    <3>1. IsFiniteSet(own \cup rest)
      BY <2>3, <2>4, FS_Union DEF Counts
    <3> QED BY <2>3, <2>4, <3>1 DEF Counts
  <2>6. SumOver(h, own \cup rest) <= SumOver(h, own) + SumOver(h, rest)
    BY <2>5, SumOfUnion
  <2>7. SumOver(sums, s) = sums[x] + SumOver(sums, s \ {x}) /\ Counts(sums, s \ {x})
    BY <1>0, CountsOfPart, SumTakesOut
  <2>8. /\ SumOver(h, own) \in Nat /\ SumOver(h, rest) \in Nat
        /\ SumOver(h, own \cup rest) \in Nat /\ SumOver(sums, s \ {x}) \in Nat
    BY <2>3, <2>4, <2>5, <2>7, SumIsNatural
  <2>9. SumOver(h, own \cup rest) <= SumOver(sums, s)
    BY <2>3, <2>4, <2>6, <2>7, <2>8
  <2> QED BY <2>2, <2>5, <2>9
<1>3. IsInductive(P, L)
  <2> HIDE DEF all
  <2> QED BY <1>1, <1>2 DEF IsInductive
<1>4. L \in P
  BY <1>3, ByElement
<1> QED BY <1>0, <1>4

-----------------------------------------------------------------------------
(* Fractions in lowest terms: equal values are equal fractions.            *)

Positive == Nat \ {0}
Divides(d, n) == \E q \in Nat : n = d * q
CommonDivisors(a, b) == {d \in Positive : Divides(d, a) /\ Divides(d, b)}

LEMMA Cancels ==
  ASSUME NEW a \in Nat, NEW b \in Nat, NEW c \in Positive
  PROVE  (a * c <= b * c <=> a <= b) /\ (a * c = b * c <=> a = b)
<1>1. c \in Nat /\ c >= 1
  BY DEF Positive
<1>2. ASSUME NEW m \in Nat, NEW n \in Nat, m < n PROVE m * c < n * c
  <2>1. n - m \in Nat /\ n - m >= 1
    BY <1>2
  <2> PICK e \in Nat : e = n - m
    BY <2>1
  <2>2. e * c >= 1
    BY <1>1, <2>1
  <2>3. n * c = m * c + e * c
    BY <1>1
  <2>4. m * c \in Nat /\ n * c \in Nat /\ e * c \in Nat
    BY <1>1
  <2> QED BY <2>2, <2>3, <2>4
<1>3. a * c \in Nat /\ b * c \in Nat
  BY <1>1
<1>4. CASE a < b
  BY <1>2, <1>3, <1>4
<1>5. CASE b < a
  BY <1>2, <1>3, <1>5
<1>6. CASE a = b
  BY <1>3, <1>6
<1> QED BY <1>4, <1>5, <1>6

LEMMA DivisionIs ==
  ASSUME NEW a \in Nat, NEW b \in Positive
  PROVE  /\ a \div b \in Nat /\ a % b \in Nat /\ a % b < b
         /\ a = b * (a \div b) + (a % b)
BY DEF Positive

LEMMA DivisionIsUnique ==
  ASSUME NEW b \in Positive, NEW q \in Nat, NEW r \in Nat, r < b,
         NEW p \in Nat, NEW s \in Nat, s < b, b * q + r = b * p + s
  PROVE  q = p /\ r = s
<1>1. b \in Nat
  BY DEF Positive
<1>2. ASSUME NEW x \in Nat, NEW y \in Nat, NEW u \in Nat, NEW v \in Nat,
             u < b, v < b, b * x + u = b * y + v, x > y
      PROVE  FALSE
  <2> PICK e \in Nat : x = y + e /\ e >= 1
    <3>1. x - y \in Nat /\ x = y + (x - y) /\ x - y >= 1
      BY <1>2
    <3> QED BY <3>1
  <2>1. b * x = b * y + b * e
    BY <1>1
  <2>2. b * e >= b
    BY <1>1
  <2>3. b * x \in Nat /\ b * y \in Nat /\ b * e \in Nat
    BY <1>1
  <2>4. v = b * e + u
    BY <1>2, <2>1, <2>3
  <2> QED BY <1>1, <1>2, <2>2, <2>3, <2>4
<1> QED BY <1>1, <1>2

LEMMA QuotientIs ==
  ASSUME NEW b \in Positive, NEW q \in Nat
  PROVE  (b * q) \div b = q
<1>1. b * q \in Nat /\ b * q = b * q + 0 /\ 0 < b
  BY DEF Positive
<1> PICK a \in Nat : a = b * q
  BY <1>1
<1>2. a \div b \in Nat /\ a % b \in Nat /\ a % b < b /\ a = b * (a \div b) + (a % b)
  BY DivisionIs
<1> PICK p \in Nat, s \in Nat : p = a \div b /\ s = a % b
  BY <1>2
<1> QED BY <1>1, <1>2, DivisionIsUnique

LEMMA RemainderScales ==
  ASSUME NEW a \in Nat, NEW b \in Positive, NEW k \in Positive
  PROVE  (k * a) % (k * b) = k * (a % b)
<1>1. PICK q \in Nat, r \in Nat : q = a \div b /\ r = a % b /\ r < b /\ a = b * q + r
  BY DivisionIs
<1>2. k \in Nat /\ b \in Nat /\ k * a \in Nat /\ k * r \in Nat
  BY DEF Positive
<1>3. k * b \in Positive
  BY DEF Positive
<1> PICK m \in Positive, n \in Nat, s \in Nat : m = k * b /\ n = k * a /\ s = k * r
  BY <1>2, <1>3
<1>4. n = m * q + s
  <2>1. k * (b * q + r) = (k * b) * q + k * r
    BY <1>2
  <2> QED BY <1>1, <2>1
<1>5. s < m
  <2>1. r * k <= b * k /\ r * k # b * k
    BY <1>1, <1>2, Cancels
  <2>2. r * k = s /\ b * k = m
    BY <1>2
  <2>3. m \in Nat
    BY DEF Positive
  <2> QED BY <2>1, <2>2, <2>3
<1>6. PICK p \in Nat, u \in Nat : p = n \div m /\ u = n % m /\ u < m /\ n = m * p + u
  <2>1. /\ n \div m \in Nat /\ n % m \in Nat /\ n % m < m
        /\ n = m * (n \div m) + (n % m)
    BY DivisionIs
  <2> QED BY <2>1
<1>7. s = u
  <2>1. s < m /\ u < m /\ m * q + s = m * p + u
    BY <1>4, <1>5, <1>6
  <2>2. \A c \in Positive, i, v, j, w \in Nat :
          v < c /\ w < c /\ c * i + v = c * j + w => v = w
    BY DivisionIsUnique
  <2> HIDE DEF Positive
  <2> QED BY <2>1, <2>2, Zenon
<1> QED BY <1>1, <1>6, <1>7

LEMMA DividesIsAtMost ==
  ASSUME NEW d \in Positive, NEW n \in Positive, Divides(d, n)
  PROVE  d <= n
<1>1. PICK q \in Nat : n = d * q
  BY DEF Divides
<1>2. q >= 1
  BY <1>1 DEF Positive
<1> QED BY <1>1, <1>2 DEF Positive

LEMMA DividesBoth ==
  ASSUME NEW d \in Positive, NEW a \in Nat, NEW b \in Nat, NEW k \in Nat, Divides(d, b)
  PROVE  Divides(d, a) <=> Divides(d, (b * k) + a)
<1>1. PICK q \in Nat : b = d * q
  BY DEF Divides
<1>2. ASSUME NEW p \in Nat, a = d * p PROVE \E r \in Nat : (b * k) + a = d * r
  <2>1. b * k + a = d * (q * k + p) /\ q * k + p \in Nat
    BY <1>1, <1>2 DEF Positive
  <2> QED BY <2>1
<1>3. ASSUME NEW p \in Nat, b * k + a = d * p PROVE \E r \in Nat : a = d * r
  <2>1. q * k \in Nat /\ b * k = d * (q * k)
    BY <1>1 DEF Positive
  <2> PICK m \in Nat : m = q * k
    BY <2>1
  <2>2. a = d * p - d * m
    BY <1>3, <2>1 DEF Positive
  <2>3. a = d * (p - m)
    BY <2>2 DEF Positive
  <2>4. p - m \in Nat
    BY <2>3 DEF Positive
  <2> QED BY <2>3, <2>4
<1> QED BY <1>2, <1>3 DEF Divides

LEMMA Euclid ==
  ASSUME NEW a \in Nat, NEW b \in Positive
  PROVE  CommonDivisors(a, b) = CommonDivisors(b, a % b)
<1> PICK q, r : q = a \div b /\ r = a % b
  OBVIOUS
<1>1. q \in Nat /\ r \in Nat /\ a = b * q + r
  BY DivisionIs
<1>2. ASSUME NEW d \in Positive, Divides(d, b) PROVE Divides(d, r) <=> Divides(d, a)
  <2>1. Divides(d, r) <=> Divides(d, b * q + r)
    BY <1>1, <1>2, DividesBoth DEF Positive
  <2> QED BY <1>1, <2>1
<1> QED BY <1>2 DEF CommonDivisors

GreatestDivisor(p) ==
  IF p[1] = 0 /\ p[2] = 0 THEN 0 ELSE Max(CommonDivisors(p[1], p[2]))

LEMMA GcdIs ==
  ASSUME NEW a \in Nat, NEW b \in Nat
  PROVE  gcd[<<a, b>>] = IF b = 0 THEN a ELSE gcd[<<b, a % b>>]
<1> DEFINE is(g) == g = [p \in Nat \X Nat |-> IF p[2] = 0 THEN p[1] ELSE g[<<p[2], p[1] % p[2]>>]]
<1>1. gcd = CHOOSE g : is(g)
  BY Zenon DEF gcd
<1> PICK f : f = [p \in Nat \X Nat |-> GreatestDivisor(p)]
  OBVIOUS
<1>2. ASSUME NEW c \in Positive PROVE GreatestDivisor(<<c, 0>>) = c
  <2> PICK S : S = CommonDivisors(c, 0)
    OBVIOUS
  <2>1. c \in S
    <3>1. c = c * 1 /\ 0 = c * 0
      BY DEF Positive
    <3> QED BY <3>1 DEF CommonDivisors, Divides
  <2>2. S \subseteq Nat /\ \A d \in S : d <= c
    BY DividesIsAtMost DEF CommonDivisors, Positive
  <2>3. Max(S) \in S /\ \A d \in S : d <= Max(S)
    BY <2>1, <2>2, MaxIsGreatest DEF Positive
  <2>4. Max(S) = c
    BY <2>1, <2>2, <2>3
  <2> QED BY <2>4 DEF GreatestDivisor, Positive
<1>3. ASSUME NEW p \in Nat \X Nat
      PROVE  f[p] = IF p[2] = 0 THEN p[1] ELSE f[<<p[2], p[1] % p[2]>>]
  <2>1. CASE p[2] = 0
    <3>1. CASE p[1] = 0
      BY <2>1, <3>1 DEF GreatestDivisor
    <3>2. CASE p[1] # 0
      <4>1. p[1] \in Positive /\ p = <<p[1], 0>>
        BY <2>1, <3>2 DEF Positive
      <4>2. f[p] = p[1]
        BY <1>2, <4>1
      <4> QED BY <2>1, <4>2
    <3> QED BY <3>1, <3>2
  <2>2. CASE p[2] # 0
    <3>1. p[1] \in Nat /\ p[2] \in Positive
      BY <2>2 DEF Positive
    <3>2. p[1] % p[2] \in Nat
      BY <3>1, DivisionIs
    <3>3. f[<<p[2], p[1] % p[2]>>] = Max(CommonDivisors(p[2], p[1] % p[2]))
      BY <2>2, <3>1, <3>2 DEF GreatestDivisor
    <3>4. f[p] = Max(CommonDivisors(p[1], p[2]))
      BY <2>2 DEF GreatestDivisor
    <3> QED BY <2>2, <3>1, <3>3, <3>4, Euclid
  <2> QED BY <2>1, <2>2
<1>4. is(f)
  BY <1>3
<1> HIDE DEF is
<1>5. is(gcd)
  BY <1>1, <1>4
<1> USE DEF is
<1>6. gcd = [p \in Nat \X Nat |-> IF p[2] = 0 THEN p[1] ELSE gcd[<<p[2], p[1] % p[2]>>]]
  BY <1>5
<1> HIDE DEF is
<1>7. <<a, b>> \in Nat \X Nat
  OBVIOUS
<1> QED BY <1>6, <1>7

LEMMA GcdDivides ==
  ASSUME NEW a \in Nat, NEW b \in Nat, a # 0 \/ b # 0
  PROVE  LET g == gcd[<<a, b>>] IN g \in Positive /\ Divides(g, a) /\ Divides(g, b)
<1> DEFINE Good(m, n) ==
      (m = 0 /\ n = 0) \/ gcd[<<m, n>>] \in CommonDivisors(m, n)
<1> PICK Bad : Bad = {n \in Nat : \E m \in Nat : ~ Good(m, n)}
  OBVIOUS
<1>1. Bad = {}
  <2> SUFFICES ASSUME Bad # {} PROVE FALSE
    OBVIOUS
  <2>1. PICK n \in Bad : \A k \in Bad : n <= k
    <3> HIDE DEF Good
    <3>1. Bad \subseteq Nat
      OBVIOUS
    <3> QED BY <3>1, LeastNatural
  <2>2. PICK m \in Nat : ~ Good(m, n)
    OBVIOUS
  <2>3. n # 0
    <3> SUFFICES ASSUME n = 0 PROVE FALSE
      OBVIOUS
    <3>1. gcd[<<m, n>>] = m /\ m \in Positive
      BY <2>2, GcdIs DEF Positive
    <3>2. m = m * 1 /\ 0 = m * 0
      OBVIOUS
    <3>3. m \in CommonDivisors(m, n)
      BY <3>1, <3>2 DEF CommonDivisors, Divides
    <3> QED BY <2>2, <3>1, <3>3
  <2>4. n \in Positive /\ m % n \in Nat /\ m % n < n
    <3>1. n \in Positive
      BY <2>3 DEF Positive
    <3> QED BY <3>1, DivisionIs
  <2>5. gcd[<<m, n>>] = gcd[<<n, m % n>>]
    BY <2>3, GcdIs
  <2>6. Good(n, m % n)
    <3> HIDE DEF Good
    <3>1. m % n \notin Bad
      BY <2>1, <2>4
    <3> QED BY <2>4, <3>1
  <2>7. gcd[<<m, n>>] \in CommonDivisors(m, n)
    BY <2>3, <2>4, <2>5, <2>6, Euclid
  <2> QED BY <2>2, <2>7
<1>2. Good(a, b)
  BY <1>1
<1> QED BY <1>2 DEF CommonDivisors

LEMMA GcdScales ==
  ASSUME NEW a \in Nat, NEW b \in Nat, NEW k \in Positive
  PROVE  gcd[<<k * a, k * b>>] = k * gcd[<<a, b>>]
<1> DEFINE Good(m, n) == gcd[<<k * m, k * n>>] = k * gcd[<<m, n>>]
<1>k. k \in Nat /\ \A m \in Nat : k * m \in Nat
  BY DEF Positive
<1> PICK Bad : Bad = {n \in Nat : \E m \in Nat : ~ Good(m, n)}
  OBVIOUS
<1>1. Bad = {}
  <2> SUFFICES ASSUME Bad # {} PROVE FALSE
    OBVIOUS
  <2>1. PICK n \in Bad : \A i \in Bad : n <= i
    <3> HIDE DEF Good
    <3>1. Bad \subseteq Nat
      OBVIOUS
    <3> QED BY <3>1, LeastNatural
  <2>2. PICK m \in Nat : ~ Good(m, n)
    OBVIOUS
  <2>3. n # 0
    <3> SUFFICES ASSUME n = 0 PROVE FALSE
      OBVIOUS
    <3>1. gcd[<<m, 0>>] = m
      BY GcdIs
    <3>2. k * 0 = 0
      BY <1>k
    <3>3. gcd[<<k * m, 0>>] = k * m
      BY <1>k, GcdIs
    <3> QED BY <2>2, <3>1, <3>2, <3>3
  <2>4. n \in Positive /\ m % n \in Nat /\ m % n < n
    <3>1. n \in Positive
      BY <2>3 DEF Positive
    <3> QED BY <3>1, DivisionIs
  <2>5. gcd[<<m, n>>] = gcd[<<n, m % n>>]
    BY <2>3, GcdIs
  <2>6. gcd[<<k * m, k * n>>] = gcd[<<k * n, k * (m % n)>>]
    <3>1. k * n # 0
      BY <2>4, <1>k DEF Positive
    <3>2. (k * m) % (k * n) = k * (m % n)
      BY <2>4, RemainderScales
    <3> QED BY <1>k, <3>1, <3>2, GcdIs
  <2>7. Good(n, m % n)
    <3> HIDE DEF Good
    <3>1. m % n \notin Bad
      BY <2>1, <2>4
    <3> QED BY <2>4, <3>1
  <2> QED BY <2>2, <2>5, <2>6, <2>7
<1>2. Good(a, b)
  BY <1>1
<1> QED BY <1>2

LEMMA FractionScales ==
  ASSUME NEW n \in Nat, NEW d \in Positive, NEW k \in Positive
  PROVE  Fraction(k * n, k * d) = Fraction(n, d)
<1>1. PICK g \in Positive : g = gcd[<<n, d>>] /\ Divides(g, n) /\ Divides(g, d)
  BY GcdDivides DEF Positive
<1>2. PICK p \in Nat, q \in Nat : n = g * p /\ d = g * q
  BY <1>1 DEF Divides
<1>3. gcd[<<k * n, k * d>>] = k * g
  BY <1>1, GcdScales DEF Positive
<1>4. k * g \in Positive /\ k * n = (k * g) * p /\ k * d = (k * g) * q
  <2>1. k \in Nat /\ g \in Nat /\ k # 0 /\ g # 0
    BY DEF Positive
  <2>2. k * g \in Nat /\ k * g # 0
    BY <2>1
  <2>3. k * (g * p) = (k * g) * p /\ k * (g * q) = (k * g) * q
    BY <2>1
  <2> QED BY <1>2, <2>2, <2>3 DEF Positive
<1>5. (k * n) \div (k * g) = p /\ (k * d) \div (k * g) = q
  BY <1>4, QuotientIs
<1>6. n \div g = p /\ d \div g = q
  BY <1>2, QuotientIs
<1> QED BY <1>1, <1>3, <1>5, <1>6, Zenon DEF Fraction

\* Fractions in lowest terms.
Rationals == {Fraction(n, d) : n \in Nat, d \in Positive}

LEMMA SameFraction ==
  ASSUME NEW n \in Nat, NEW d \in Positive, NEW m \in Nat, NEW e \in Positive, n * e = m * d
  PROVE  Fraction(n, d) = Fraction(m, e)
<1>1. Fraction(e * n, e * d) = Fraction(n, d)
  BY FractionScales
<1>2. Fraction(d * m, d * e) = Fraction(m, e)
  BY FractionScales
<1>3. e * n = d * m /\ e * d = d * e
  BY DEF Positive
<1> QED BY <1>1, <1>2, <1>3

LEMMA FractionIs ==
  ASSUME NEW n \in Nat, NEW d \in Positive
  PROVE  \E p \in Nat, q \in Positive :
           Fraction(n, d) = <<p, q>> /\ p * d = n * q /\ Fraction(p, q) = Fraction(n, d)
<1>1. PICK g \in Positive : g = gcd[<<n, d>>] /\ Divides(g, n) /\ Divides(g, d)
  BY GcdDivides DEF Positive
<1>2. PICK p \in Nat, q \in Nat : n = g * p /\ d = g * q
  BY <1>1 DEF Divides
<1>3. n \div g = p /\ d \div g = q
  BY <1>2, QuotientIs
<1>4. Fraction(n, d) = <<p, q>>
  BY <1>1, <1>3, Zenon DEF Fraction
<1>5. q \in Positive
  <2>1. q = 0 => g * q = 0
    BY DEF Positive
  <2> QED BY <1>2, <2>1 DEF Positive
<1>6. p * d = n * q
  <2>1. g \in Nat
    BY DEF Positive
  <2>2. p * (g * q) = (g * p) * q
    BY <2>1
  <2> QED BY <1>2, <2>2
<1>7. Fraction(p, q) = Fraction(n, d)
  BY <1>5, <1>6, SameFraction
<1> QED BY <1>4, <1>5, <1>6, <1>7

LEMMA FractionsAre ==
  ASSUME NEW n \in Nat, NEW d \in Positive
  PROVE  Fraction(n, d) \in Rationals
BY DEF Rationals

LEMMA WholeIs ==
  ASSUME NEW n \in Nat
  PROVE  <<n, 1>> = Fraction(n, 1) /\ <<n, 1>> \in Rationals
<1>1. 1 \in Positive /\ n % 1 = 0 /\ n = 1 * n /\ 1 = 1 * 1
  BY DEF Positive
<1>2. gcd[<<n, 1>>] = gcd[<<1, 0>>] /\ gcd[<<1, 0>>] = 1
  <2>1. gcd[<<1, 0>>] = 1
    BY GcdIs
  <2>2. gcd[<<n, 1>>] = gcd[<<1, n % 1>>]
    BY GcdIs
  <2> QED BY <1>1, <2>1, <2>2
<1>3. n \div 1 = n /\ 1 \div 1 = 1
  BY <1>1, QuotientIs
<1>4. Fraction(n, 1) = <<n, 1>>
  BY <1>2, <1>3, Zenon DEF Fraction
<1> QED BY <1>1, <1>4, FractionsAre

LEMMA LeqOf ==
  ASSUME NEW m \in Nat, NEW d \in Positive, NEW n \in Nat, NEW e \in Positive
  PROVE  Leq(Fraction(m, d), Fraction(n, e)) <=> m * e <= n * d
<1>1. PICK p \in Nat, q \in Positive : Fraction(m, d) = <<p, q>> /\ p * d = m * q
  BY FractionIs
<1>2. PICK r \in Nat, s \in Positive : Fraction(n, e) = <<r, s>> /\ r * e = n * s
  BY FractionIs
<1>n. d \in Nat /\ e \in Nat /\ q \in Nat /\ s \in Nat
  BY DEF Positive
<1>3. Leq(Fraction(m, d), Fraction(n, e)) <=> p * s <= r * q
  BY <1>1, <1>2 DEF Leq
<1>4. (p * s) * (d * e) = (m * e) * (q * s) /\ (r * q) * (d * e) = (n * d) * (q * s)
  <2>1. (p * s) * (d * e) = (p * d) * (e * s) /\ (m * e) * (q * s) = (m * q) * (e * s)
    BY <1>n
  <2>2. (r * q) * (d * e) = (r * e) * (q * d) /\ (n * d) * (q * s) = (n * s) * (q * d)
    BY <1>n
  <2> QED BY <1>1, <1>2, <2>1, <2>2
<1>5. d * e \in Positive /\ q * s \in Positive
  BY DEF Positive
<1>6. (p * s) * (d * e) <= (r * q) * (d * e) <=> p * s <= r * q
  <2>1. p * s \in Nat /\ r * q \in Nat
    BY <1>n
  <2> QED BY <1>5, <2>1, Cancels
<1>7. (m * e) * (q * s) <= (n * d) * (q * s) <=> m * e <= n * d
  <2>1. m * e \in Nat /\ n * d \in Nat
    BY <1>n
  <2> QED BY <1>5, <2>1, Cancels
<1> QED BY <1>3, <1>4, <1>6, <1>7

LEMMA ProductsArePositive ==
  ASSUME NEW d \in Positive, NEW e \in Positive
  PROVE  d * e \in Positive
BY DEF Positive

LEMMA PlusOf ==
  ASSUME NEW m \in Nat, NEW d \in Positive, NEW n \in Nat, NEW e \in Positive
  PROVE  Plus(Fraction(m, d), Fraction(n, e)) = Fraction((m * e) + (n * d), d * e)
<1>1. PICK p \in Nat, q \in Positive : Fraction(m, d) = <<p, q>> /\ p * d = m * q
  BY FractionIs
<1>2. PICK r \in Nat, s \in Positive : Fraction(n, e) = <<r, s>> /\ r * e = n * s
  BY FractionIs
<1>n. d \in Nat /\ e \in Nat /\ q \in Nat /\ s \in Nat
  BY DEF Positive
<1>3. Plus(Fraction(m, d), Fraction(n, e)) = Fraction((p * s) + (r * q), q * s)
  BY <1>1, <1>2 DEF Plus
<1>4. ((p * s) + (r * q)) * (d * e) = ((m * e) + (n * d)) * (q * s)
  <2>1. (p * s) * (d * e) = (p * d) * (e * s) /\ (m * e) * (q * s) = (m * q) * (e * s)
    BY <1>n
  <2>2. (r * q) * (d * e) = (r * e) * (q * d) /\ (n * d) * (q * s) = (n * s) * (q * d)
    BY <1>n
  <2>3. (p * s) * (d * e) = (m * e) * (q * s) /\ (r * q) * (d * e) = (n * d) * (q * s)
    BY <1>1, <1>2, <2>1, <2>2
  <2>4. ((p * s) + (r * q)) * (d * e) = ((p * s) * (d * e)) + ((r * q) * (d * e))
    BY <1>n
  <2>5. ((m * e) + (n * d)) * (q * s) = ((m * e) * (q * s)) + ((n * d) * (q * s))
    BY <1>n
  <2> QED BY <2>3, <2>4, <2>5
<1>5. d * e \in Positive /\ q * s \in Positive
  BY ProductsArePositive
<1>6. (p * s) + (r * q) \in Nat /\ (m * e) + (n * d) \in Nat
  BY <1>n
<1> QED BY <1>3, <1>4, <1>5, <1>6, SameFraction

LEMMA ProductOf ==
  ASSUME NEW m \in Nat, NEW d \in Positive, NEW n \in Nat, NEW e \in Positive
  PROVE  Times(Fraction(m, d), Fraction(n, e)) = Fraction(m * n, d * e)
<1>1. PICK p \in Nat, q \in Positive : Fraction(m, d) = <<p, q>> /\ p * d = m * q
  BY FractionIs
<1>2. PICK r \in Nat, s \in Positive : Fraction(n, e) = <<r, s>> /\ r * e = n * s
  BY FractionIs
<1>n. d \in Nat /\ e \in Nat /\ q \in Nat /\ s \in Nat
  BY DEF Positive
<1>3. Times(Fraction(m, d), Fraction(n, e)) = Fraction(p * r, q * s)
  BY <1>1, <1>2 DEF Times
<1>4. (p * r) * (d * e) = (m * n) * (q * s)
  <2>1. (p * r) * (d * e) = (p * d) * (r * e) /\ (m * n) * (q * s) = (m * q) * (n * s)
    BY <1>n
  <2> QED BY <1>1, <1>2, <2>1
<1>5. d * e \in Positive /\ q * s \in Positive
  BY ProductsArePositive
<1>6. p * r \in Nat /\ m * n \in Nat
  BY <1>n
<1> QED BY <1>3, <1>4, <1>5, <1>6, SameFraction

LEMMA OverOf ==
  ASSUME NEW m \in Nat, NEW d \in Positive, NEW n \in Positive, NEW e \in Positive
  PROVE  Over(Fraction(m, d), Fraction(n, e)) = Fraction(m * e, d * n)
<1>n. n \in Nat /\ d \in Nat /\ e \in Nat
  BY DEF Positive
<1>1. PICK p \in Nat, q \in Positive : Fraction(m, d) = <<p, q>> /\ p * d = m * q
  BY FractionIs
<1>2. PICK r \in Nat, s \in Positive : Fraction(n, e) = <<r, s>> /\ r * e = n * s
  BY <1>n, FractionIs
<1>m. q \in Nat /\ s \in Nat
  BY DEF Positive
<1>0. r \in Positive
  <2>1. n * s \in Positive
    BY ProductsArePositive
  <2>2. r = 0 => r * e = 0
    BY <1>n
  <2> QED BY <1>2, <2>1, <2>2 DEF Positive
<1>3. Over(Fraction(m, d), Fraction(n, e)) = Fraction(p * s, q * r)
  BY <1>1, <1>2 DEF Over
<1>4. (p * s) * (d * n) = (m * e) * (q * r)
  <2>1. (p * s) * (d * n) = (p * d) * (n * s) /\ (m * e) * (q * r) = (m * q) * (r * e)
    BY <1>n, <1>m
  <2> QED BY <1>1, <1>2, <2>1
<1>5. d * n \in Positive /\ q * r \in Positive
  BY <1>0, ProductsArePositive
<1>6. p * s \in Nat /\ m * e \in Nat
  BY <1>n, <1>m
<1> QED BY <1>3, <1>4, <1>5, <1>6, SameFraction

LEMMA MinusOf ==
  ASSUME NEW m \in Nat, NEW d \in Positive, NEW n \in Nat, NEW e \in Positive, n * d <= m * e
  PROVE  /\ Minus(Fraction(m, d), Fraction(n, e)) = Fraction((m * e) - (n * d), d * e)
         /\ (m * e) - (n * d) \in Nat
<1>1. PICK p \in Nat, q \in Positive : Fraction(m, d) = <<p, q>> /\ p * d = m * q
  BY FractionIs
<1>2. PICK r \in Nat, s \in Positive : Fraction(n, e) = <<r, s>> /\ r * e = n * s
  BY FractionIs
<1>n. d \in Nat /\ e \in Nat /\ q \in Nat /\ s \in Nat
  BY DEF Positive
<1>3. Minus(Fraction(m, d), Fraction(n, e)) = Fraction((p * s) - (r * q), q * s)
  BY <1>1, <1>2 DEF Minus
<1>5. d * e \in Positive /\ q * s \in Positive
  BY ProductsArePositive
<1>7. (p * s) * (d * e) = (m * e) * (q * s) /\ (r * q) * (d * e) = (n * d) * (q * s)
  <2>1. (p * s) * (d * e) = (p * d) * (e * s) /\ (m * e) * (q * s) = (m * q) * (e * s)
    BY <1>n
  <2>2. (r * q) * (d * e) = (r * e) * (q * d) /\ (n * d) * (q * s) = (n * s) * (q * d)
    BY <1>n
  <2> QED BY <1>1, <1>2, <2>1, <2>2
<1>8. r * q <= p * s
  <2>1. Leq(Fraction(n, e), Fraction(m, d))
    BY LeqOf
  <2> QED BY <1>1, <1>2, <2>1 DEF Leq
<1>4. ((p * s) - (r * q)) * (d * e) = ((m * e) - (n * d)) * (q * s)
  <2>4. ((p * s) - (r * q)) * (d * e) = ((p * s) * (d * e)) - ((r * q) * (d * e))
    BY <1>n
  <2>5. ((m * e) - (n * d)) * (q * s) = ((m * e) * (q * s)) - ((n * d) * (q * s))
    BY <1>n
  <2> QED BY <1>7, <2>4, <2>5
<1>6. (p * s) - (r * q) \in Nat /\ (m * e) - (n * d) \in Nat
  <2>1. p * s \in Nat /\ r * q \in Nat /\ m * e \in Nat /\ n * d \in Nat
    BY <1>n
  <2> QED BY <1>8, <2>1
<1> QED BY <1>3, <1>4, <1>5, <1>6, SameFraction

-----------------------------------------------------------------------------
(* The laws of fractions.                                                  *)

LEMMA RationalsAre ==
  ASSUME NEW x \in Rationals
  PROVE  \E m \in Nat, d \in Positive : x = Fraction(m, d)
BY DEF Rationals

LEMMA NumbersAre ==
  /\ Zero = Fraction(0, 1) /\ Zero \in Rationals
  /\ One = Fraction(1, 1) /\ One \in Rationals
BY WholeIs DEF Zero, One

LEMMA PositiveIs == Positive = {n \in Nat : n >= 1} /\ Positive \subseteq Nat /\ 1 \in Positive
BY DEF Positive

LEMMA PlusIsRational ==
  ASSUME NEW x \in Rationals, NEW y \in Rationals
  PROVE  Plus(x, y) \in Rationals
<1>1. PICK m \in Nat, d \in Positive : x = Fraction(m, d)
  BY RationalsAre
<1>2. PICK n \in Nat, e \in Positive : y = Fraction(n, e)
  BY RationalsAre
<1>3. m * e + n * d \in Nat /\ d * e \in Positive
  BY PositiveIs, ProductsArePositive
<1> QED BY <1>1, <1>2, <1>3, PlusOf, FractionsAre

LEMMA TimesIsRational ==
  ASSUME NEW x \in Rationals, NEW y \in Rationals
  PROVE  Times(x, y) \in Rationals
<1>1. PICK m \in Nat, d \in Positive : x = Fraction(m, d)
  BY RationalsAre
<1>2. PICK n \in Nat, e \in Positive : y = Fraction(n, e)
  BY RationalsAre
<1>3. m * n \in Nat /\ d * e \in Positive
  BY ProductsArePositive
<1> QED BY <1>1, <1>2, <1>3, ProductOf, FractionsAre

\* The fractions that may be divided by.
Divisors == {Fraction(n, d) : n \in Positive, d \in Positive}

LEMMA DivisorsAre ==
  /\ Divisors \subseteq Rationals
  /\ \A x \in Divisors : \E n \in Positive, d \in Positive : x = Fraction(n, d)
  /\ \A n \in Positive, d \in Positive : Fraction(n, d) \in Divisors
  /\ One \in Divisors
BY NumbersAre, PositiveIs DEF Divisors, Rationals

LEMMA TimesIsDivisor ==
  ASSUME NEW x \in Divisors, NEW y \in Divisors
  PROVE  Times(x, y) \in Divisors
<1>1. PICK m \in Positive, d \in Positive : x = Fraction(m, d)
  BY DivisorsAre
<1>2. PICK n \in Positive, e \in Positive : y = Fraction(n, e)
  BY DivisorsAre
<1>3. m * n \in Positive /\ d * e \in Positive
  BY ProductsArePositive
<1>4. Times(x, y) = Fraction(m * n, d * e)
  BY <1>1, <1>2, ProductOf, PositiveIs
<1> QED BY <1>3, <1>4, DivisorsAre

LEMMA OverIsRational ==
  ASSUME NEW x \in Rationals, NEW y \in Divisors
  PROVE  Over(x, y) \in Rationals
<1>1. PICK m \in Nat, d \in Positive : x = Fraction(m, d)
  BY RationalsAre
<1>2. PICK n \in Positive, e \in Positive : y = Fraction(n, e)
  BY DivisorsAre
<1>3. m * e \in Nat /\ d * n \in Positive
  BY PositiveIs, ProductsArePositive
<1> QED BY <1>1, <1>2, <1>3, OverOf, FractionsAre

LEMMA LeqIsOrder ==
  /\ \A x \in Rationals : Leq(x, x)
  /\ \A x, y \in Rationals : Leq(x, y) \/ Leq(y, x)
  /\ \A x, y \in Rationals : Leq(x, y) /\ Leq(y, x) => x = y
  /\ \A x \in Rationals : Leq(Zero, x)
<1> SUFFICES ASSUME NEW x \in Rationals, NEW y \in Rationals
             PROVE  /\ Leq(x, x) /\ (Leq(x, y) \/ Leq(y, x))
                    /\ Leq(x, y) /\ Leq(y, x) => x = y
                    /\ Leq(Zero, x)
  OBVIOUS
<1>1. PICK m \in Nat, d \in Positive : x = Fraction(m, d)
  BY RationalsAre
<1>2. PICK n \in Nat, e \in Positive : y = Fraction(n, e)
  BY RationalsAre
<1>n. d \in Nat /\ e \in Nat
  BY PositiveIs
<1>3. m * e \in Nat /\ n * d \in Nat /\ m * d \in Nat
  BY <1>n
<1>4. Leq(x, x) /\ (Leq(x, y) <=> m * e <= n * d) /\ (Leq(y, x) <=> n * d <= m * e)
  BY <1>1, <1>2, <1>3, LeqOf
<1>5. ASSUME m * e = n * d PROVE x = y
  BY <1>1, <1>2, <1>5, SameFraction
<1>6. Leq(Zero, x)
  <2>1. 0 * d <= m * 1
    BY <1>n
  <2> QED BY <1>1, <2>1, LeqOf, NumbersAre, PositiveIs
<1> QED BY <1>3, <1>4, <1>5, <1>6

LEMMA ProductsAreMonotone ==
  ASSUME NEW a \in Nat, NEW b \in Nat, NEW c \in Nat, NEW d \in Nat, a <= b, c <= d
  PROVE  a * c <= b * d
<1> PICK e \in Nat : b = a + e
  <2>1. b - a \in Nat /\ b = a + (b - a)
    OBVIOUS
  <2> QED BY <2>1
<1> PICK f \in Nat : d = c + f
  <2>1. d - c \in Nat /\ d = c + (d - c)
    OBVIOUS
  <2> QED BY <2>1
<1>1. (a + e) * (c + f) = a * c + (a * f + e * c + e * f)
  OBVIOUS
<1>2. a * f + e * c + e * f \in Nat /\ a * c \in Nat
  OBVIOUS
<1> QED BY <1>1, <1>2

LEMMA LeqIsTransitive ==
  ASSUME NEW x \in Rationals, NEW y \in Rationals, NEW z \in Rationals, Leq(x, y), Leq(y, z)
  PROVE  Leq(x, z)
<1>1. PICK m \in Nat, d \in Positive : x = Fraction(m, d)
  BY RationalsAre
<1>2. PICK n \in Nat, e \in Positive : y = Fraction(n, e)
  BY RationalsAre
<1>3. PICK p \in Nat, f \in Positive : z = Fraction(p, f)
  BY RationalsAre
<1>n. d \in Nat /\ e \in Nat /\ f \in Nat
  BY PositiveIs
<1>4. m * e <= n * d /\ n * f <= p * e
  BY <1>1, <1>2, <1>3, LeqOf
<1>5. (m * e) * f <= (n * d) * f /\ (n * f) * d <= (p * e) * d
  <2>1. m * e \in Nat /\ n * d \in Nat /\ n * f \in Nat /\ p * e \in Nat
    BY <1>n
  <2> QED BY <1>4, <2>1, Cancels
<1>6. /\ (m * e) * f = (m * f) * e /\ (n * d) * f = (n * f) * d
      /\ (p * e) * d = (p * d) * e
  BY <1>n
<1>7. m * f \in Nat /\ p * d \in Nat /\ (m * f) * e \in Nat /\ (p * d) * e \in Nat
      /\ (n * f) * d \in Nat
  BY <1>n
<1>8. (m * f) * e <= (p * d) * e
  BY <1>5, <1>6, <1>7
<1>9. m * f <= p * d
  BY <1>7, <1>8, Cancels
<1> QED BY <1>1, <1>3, <1>9, LeqOf

LEMMA PlusIsMonotone ==
  ASSUME NEW x \in Rationals, NEW y \in Rationals, NEW u \in Rationals, NEW v \in Rationals,
         Leq(x, u), Leq(y, v)
  PROVE  Leq(Plus(x, y), Plus(u, v))
<1>1. PICK m \in Nat, d \in Positive : x = Fraction(m, d)
  BY RationalsAre
<1>2. PICK n \in Nat, e \in Positive : y = Fraction(n, e)
  BY RationalsAre
<1>3. PICK p \in Nat, f \in Positive : u = Fraction(p, f)
  BY RationalsAre
<1>4. PICK q \in Nat, g \in Positive : v = Fraction(q, g)
  BY RationalsAre
<1>n. d \in Nat /\ e \in Nat /\ f \in Nat /\ g \in Nat
  BY PositiveIs
<1>5. m * f <= p * d /\ n * g <= q * e
  BY <1>1, <1>2, <1>3, <1>4, LeqOf
<1>6. /\ Plus(x, y) = Fraction((m * e) + (n * d), d * e)
      /\ Plus(u, v) = Fraction((p * g) + (q * f), f * g)
  BY <1>1, <1>2, <1>3, <1>4, PlusOf
<1>7. ((m * e) + (n * d)) * (f * g) <= ((p * g) + (q * f)) * (d * e)
  <2>1. (m * f) * (e * g) <= (p * d) * (e * g) /\ (n * g) * (d * f) <= (q * e) * (d * f)
    <3>1. /\ m * f \in Nat /\ p * d \in Nat /\ e * g \in Nat
          /\ n * g \in Nat /\ q * e \in Nat /\ d * f \in Nat /\ e * g <= e * g /\ d * f <= d * f
      BY <1>n
    <3> QED BY <1>5, <3>1, ProductsAreMonotone
  <2>2. ((m * e) + (n * d)) * (f * g) = (m * f) * (e * g) + (n * g) * (d * f)
    BY <1>n
  <2>3. ((p * g) + (q * f)) * (d * e) = (p * d) * (e * g) + (q * e) * (d * f)
    BY <1>n
  <2>4. /\ (m * f) * (e * g) \in Nat /\ (p * d) * (e * g) \in Nat
        /\ (n * g) * (d * f) \in Nat /\ (q * e) * (d * f) \in Nat
    BY <1>n
  <2> QED BY <2>1, <2>2, <2>3, <2>4
<1>8. /\ (m * e) + (n * d) \in Nat /\ (p * g) + (q * f) \in Nat
      /\ d * e \in Positive /\ f * g \in Positive
  <2>1. d * e \in Positive /\ f * g \in Positive
    BY ProductsArePositive
  <2> QED BY <1>n, <2>1
<1> QED BY <1>6, <1>7, <1>8, LeqOf

LEMMA TimesIsMonotone ==
  ASSUME NEW x \in Rationals, NEW y \in Rationals, NEW u \in Rationals, NEW v \in Rationals,
         Leq(x, u), Leq(y, v)
  PROVE  Leq(Times(x, y), Times(u, v))
<1>1. PICK m \in Nat, d \in Positive : x = Fraction(m, d)
  BY RationalsAre
<1>2. PICK n \in Nat, e \in Positive : y = Fraction(n, e)
  BY RationalsAre
<1>3. PICK p \in Nat, f \in Positive : u = Fraction(p, f)
  BY RationalsAre
<1>4. PICK q \in Nat, g \in Positive : v = Fraction(q, g)
  BY RationalsAre
<1>n. d \in Nat /\ e \in Nat /\ f \in Nat /\ g \in Nat
  BY PositiveIs
<1>5. m * f <= p * d /\ n * g <= q * e
  BY <1>1, <1>2, <1>3, <1>4, LeqOf
<1>6. Times(x, y) = Fraction(m * n, d * e) /\ Times(u, v) = Fraction(p * q, f * g)
  BY <1>1, <1>2, <1>3, <1>4, ProductOf
<1>7. (m * n) * (f * g) <= (p * q) * (d * e)
  <2>1. (m * f) * (n * g) <= (p * d) * (q * e)
    <3>1. m * f \in Nat /\ p * d \in Nat /\ n * g \in Nat /\ q * e \in Nat
      BY <1>n
    <3> QED BY <1>5, <3>1, ProductsAreMonotone
  <2>2. (m * n) * (f * g) = (m * f) * (n * g) /\ (p * q) * (d * e) = (p * d) * (q * e)
    BY <1>n
  <2> QED BY <2>1, <2>2
<1>8. m * n \in Nat /\ p * q \in Nat /\ d * e \in Positive /\ f * g \in Positive
  BY ProductsArePositive
<1> QED BY <1>6, <1>7, <1>8, LeqOf

LEMMA TimesCommutes ==
  ASSUME NEW x \in Rationals, NEW y \in Rationals
  PROVE  Times(x, y) = Times(y, x)
<1>1. PICK m \in Nat, d \in Positive : x = Fraction(m, d)
  BY RationalsAre
<1>2. PICK n \in Nat, e \in Positive : y = Fraction(n, e)
  BY RationalsAre
<1>3. m * n = n * m /\ d * e = e * d
  BY PositiveIs
<1> QED BY <1>1, <1>2, <1>3, ProductOf

LEMMA TimesAssociates ==
  ASSUME NEW x \in Rationals, NEW y \in Rationals, NEW z \in Rationals
  PROVE  Times(Times(x, y), z) = Times(x, Times(y, z))
<1>1. PICK m \in Nat, d \in Positive : x = Fraction(m, d)
  BY RationalsAre
<1>2. PICK n \in Nat, e \in Positive : y = Fraction(n, e)
  BY RationalsAre
<1>3. PICK p \in Nat, f \in Positive : z = Fraction(p, f)
  BY RationalsAre
<1>4. m * n \in Nat /\ n * p \in Nat /\ d * e \in Positive /\ e * f \in Positive
  BY ProductsArePositive
<1>5. (m * n) * p = m * (n * p) /\ (d * e) * f = d * (e * f)
  BY PositiveIs
<1>6. Times(Times(x, y), z) = Fraction((m * n) * p, (d * e) * f)
  BY <1>1, <1>2, <1>3, <1>4, ProductOf
<1>7. Times(x, Times(y, z)) = Fraction(m * (n * p), d * (e * f))
  BY <1>1, <1>2, <1>3, <1>4, ProductOf
<1> QED BY <1>5, <1>6, <1>7

LEMMA TimesOne ==
  ASSUME NEW x \in Rationals
  PROVE  Times(x, One) = x /\ Times(One, x) = x
<1>1. PICK m \in Nat, d \in Positive : x = Fraction(m, d)
  BY RationalsAre
<1>2. m * 1 = m /\ d * 1 = d
  BY PositiveIs
<1>3. Times(x, One) = Fraction(m * 1, d * 1)
  BY <1>1, NumbersAre, ProductOf, PositiveIs
<1> QED BY <1>1, <1>2, <1>3, TimesCommutes, NumbersAre

LEMMA TimesDistributes ==
  ASSUME NEW x \in Rationals, NEW y \in Rationals, NEW z \in Rationals
  PROVE  Times(x, Plus(y, z)) = Plus(Times(x, y), Times(x, z))
<1>1. PICK m \in Nat, d \in Positive : x = Fraction(m, d)
  BY RationalsAre
<1>2. PICK n \in Nat, e \in Positive : y = Fraction(n, e)
  BY RationalsAre
<1>3. PICK p \in Nat, f \in Positive : z = Fraction(p, f)
  BY RationalsAre
<1>n. d \in Nat /\ e \in Nat /\ f \in Nat
  BY PositiveIs
<1>4. /\ m * n \in Nat /\ m * p \in Nat /\ (n * f) + (p * e) \in Nat
      /\ d * e \in Positive /\ d * f \in Positive /\ e * f \in Positive
  <2>1. d * e \in Positive /\ d * f \in Positive /\ e * f \in Positive
    BY ProductsArePositive
  <2> QED BY <1>n, <2>1
<1>5. Times(x, Plus(y, z)) = Fraction(m * ((n * f) + (p * e)), d * (e * f))
  BY <1>1, <1>2, <1>3, <1>4, ProductOf, PlusOf
<1>6. Plus(Times(x, y), Times(x, z))
        = Fraction(((m * n) * (d * f)) + ((m * p) * (d * e)), (d * e) * (d * f))
  BY <1>1, <1>2, <1>3, <1>4, ProductOf, PlusOf
<1>7. (m * ((n * f) + (p * e))) * ((d * e) * (d * f))
        = (((m * n) * (d * f)) + ((m * p) * (d * e))) * (d * (e * f))
  <2>1. (m * ((n * f) + (p * e))) * ((d * e) * (d * f))
          = (m * n * f + m * p * e) * (d * d * e * f)
    BY <1>n
  <2>2. (((m * n) * (d * f)) + ((m * p) * (d * e))) * (d * (e * f))
          = (m * n * f + m * p * e) * (d * d * e * f)
    BY <1>n
  <2> QED BY <2>1, <2>2
<1>8. /\ m * ((n * f) + (p * e)) \in Nat /\ d * (e * f) \in Positive
      /\ ((m * n) * (d * f)) + ((m * p) * (d * e)) \in Nat /\ (d * e) * (d * f) \in Positive
  BY <1>n, <1>4, ProductsArePositive
<1> QED BY <1>5, <1>6, <1>7, <1>8, SameFraction

LEMMA OverTimes ==
  ASSUME NEW x \in Rationals, NEW y \in Divisors
  PROVE  Times(Over(x, y), y) = x /\ Over(Times(x, y), y) = x
<1>1. PICK m \in Nat, d \in Positive : x = Fraction(m, d)
  BY RationalsAre
<1>2. PICK n \in Positive, e \in Positive : y = Fraction(n, e)
  BY DivisorsAre
<1>n. d \in Nat /\ e \in Nat /\ n \in Nat
  BY PositiveIs
<1>3. m * e \in Nat /\ m * n \in Nat /\ d * n \in Positive /\ d * e \in Positive
  BY <1>n, ProductsArePositive
<1>4. Times(Over(x, y), y) = Fraction((m * e) * n, (d * n) * e)
  <2>1. Over(x, y) = Fraction(m * e, d * n)
    BY <1>1, <1>2, OverOf
  <2> QED BY <1>2, <1>3, <1>n, <2>1, ProductOf
<1>5. Over(Times(x, y), y) = Fraction((m * n) * e, (d * e) * n)
  <2>1. Times(x, y) = Fraction(m * n, d * e)
    BY <1>1, <1>2, <1>n, ProductOf
  <2> QED BY <1>2, <1>3, <2>1, OverOf
<1>6. n * e \in Positive
  BY ProductsArePositive
<1>7. /\ (m * e) * n = (n * e) * m /\ (d * n) * e = (n * e) * d
      /\ (m * n) * e = (n * e) * m /\ (d * e) * n = (n * e) * d
  BY <1>n
<1>8. Fraction((n * e) * m, (n * e) * d) = Fraction(m, d)
  BY <1>6, FractionScales
<1> QED BY <1>1, <1>4, <1>5, <1>7, <1>8

LEMMA TimesCancels ==
  ASSUME NEW x \in Rationals, NEW y \in Rationals, NEW z \in Divisors
  PROVE  Leq(Times(x, z), Times(y, z)) <=> Leq(x, y)
<1>1. PICK m \in Nat, d \in Positive : x = Fraction(m, d)
  BY RationalsAre
<1>2. PICK n \in Nat, e \in Positive : y = Fraction(n, e)
  BY RationalsAre
<1>3. PICK p \in Positive, f \in Positive : z = Fraction(p, f)
  BY DivisorsAre
<1>n. d \in Nat /\ e \in Nat /\ f \in Nat /\ p \in Nat
  BY PositiveIs
<1>4. m * p \in Nat /\ n * p \in Nat /\ d * f \in Positive /\ e * f \in Positive
  BY <1>n, ProductsArePositive
<1>5. Leq(Times(x, z), Times(y, z)) <=> (m * p) * (e * f) <= (n * p) * (d * f)
  <2>1. Times(x, z) = Fraction(m * p, d * f) /\ Times(y, z) = Fraction(n * p, e * f)
    BY <1>1, <1>2, <1>3, <1>n, ProductOf
  <2> QED BY <1>4, <2>1, LeqOf
<1>6. (m * p) * (e * f) = (m * e) * (p * f) /\ (n * p) * (d * f) = (n * d) * (p * f)
  BY <1>n
<1>7. p * f \in Positive /\ m * e \in Nat /\ n * d \in Nat
  BY <1>n, ProductsArePositive
<1>8. (m * e) * (p * f) <= (n * d) * (p * f) <=> m * e <= n * d
  BY <1>7, Cancels
<1>9. Leq(x, y) <=> m * e <= n * d
  BY <1>1, <1>2, LeqOf
<1> QED BY <1>5, <1>6, <1>8, <1>9

LEMMA MinusPlus ==
  ASSUME NEW x \in Rationals, NEW y \in Rationals, Leq(y, x)
  PROVE  Minus(x, y) \in Rationals /\ Plus(Minus(x, y), y) = x
<1>1. PICK m \in Nat, d \in Positive : x = Fraction(m, d)
  BY RationalsAre
<1>2. PICK n \in Nat, e \in Positive : y = Fraction(n, e)
  BY RationalsAre
<1>n. d \in Nat /\ e \in Nat
  BY PositiveIs
<1>3. n * d <= m * e
  BY <1>1, <1>2, LeqOf
<1> PICK k \in Nat : k = (m * e) - (n * d)
  BY <1>3, MinusOf
<1>4. Minus(x, y) = Fraction(k, d * e) /\ d * e \in Positive
  BY <1>1, <1>2, <1>3, MinusOf, ProductsArePositive
<1>5. Plus(Minus(x, y), y) = Fraction((k * e) + (n * (d * e)), (d * e) * e)
  BY <1>2, <1>4, PlusOf
<1>6. (k * e) + (n * (d * e)) = (e * e) * m
  <2>1. k + (n * d) = m * e
    BY <1>n
  <2>2. (k * e) + (n * (d * e)) = (k + (n * d)) * e
    BY <1>n
  <2>3. (m * e) * e = (e * e) * m
    BY <1>n
  <2> QED BY <2>1, <2>2, <2>3
<1>7. (d * e) * e = (e * e) * d /\ e * e \in Positive
  BY <1>n, ProductsArePositive
<1>8. Fraction((e * e) * m, (e * e) * d) = Fraction(m, d)
  BY <1>7, FractionScales
<1> QED BY <1>1, <1>4, <1>5, <1>6, <1>7, <1>8, FractionsAre

LEMMA PlusCancels ==
  ASSUME NEW x \in Rationals, NEW y \in Rationals, NEW z \in Rationals
  PROVE  Leq(Plus(x, z), Plus(y, z)) <=> Leq(x, y)
<1>1. PICK m \in Nat, d \in Positive : x = Fraction(m, d)
  BY RationalsAre
<1>2. PICK n \in Nat, e \in Positive : y = Fraction(n, e)
  BY RationalsAre
<1>3. PICK p \in Nat, f \in Positive : z = Fraction(p, f)
  BY RationalsAre
<1>n. d \in Nat /\ e \in Nat /\ f \in Nat
  BY PositiveIs
<1>4. /\ (m * f) + (p * d) \in Nat /\ (n * f) + (p * e) \in Nat
      /\ d * f \in Positive /\ e * f \in Positive
  <2>1. d * f \in Positive /\ e * f \in Positive
    BY ProductsArePositive
  <2> QED BY <1>n, <2>1
<1>5. Leq(Plus(x, z), Plus(y, z))
        <=> ((m * f) + (p * d)) * (e * f) <= ((n * f) + (p * e)) * (d * f)
  BY <1>1, <1>2, <1>3, <1>4, PlusOf, LeqOf
<1>6. /\ ((m * f) + (p * d)) * (e * f) = (m * e) * (f * f) + (p * d) * (e * f)
      /\ ((n * f) + (p * e)) * (d * f) = (n * d) * (f * f) + (p * d) * (e * f)
  <2>1. ((m * f) + (p * d)) * (e * f) = (m * e) * (f * f) + (p * d) * (e * f)
    BY <1>n
  <2>2. ((n * f) + (p * e)) * (d * f) = (n * d) * (f * f) + (p * d) * (e * f)
    BY <1>n
  <2> QED BY <2>1, <2>2
<1>7. /\ m * e \in Nat /\ n * d \in Nat /\ f * f \in Positive
      /\ (m * e) * (f * f) \in Nat /\ (n * d) * (f * f) \in Nat /\ (p * d) * (e * f) \in Nat
  BY <1>n, ProductsArePositive
<1>8. (m * e) * (f * f) <= (n * d) * (f * f) <=> m * e <= n * d
  BY <1>7, Cancels
<1>9. Leq(x, y) <=> m * e <= n * d
  BY <1>1, <1>2, LeqOf
<1> QED BY <1>5, <1>6, <1>7, <1>8, <1>9

-----------------------------------------------------------------------------
(* Totals of fractions are sums over a common denominator.                 *)

LEMMA SumScales ==
  ASSUME NEW S, NEW h, Counts(h, S), NEW c \in Nat, NEW k, \A x \in S : k[x] = h[x] * c
  PROVE  Counts(k, S) /\ SumOver(k, S) = SumOver(h, S) * c
<1>1. Counts(k, S)
  BY DEF Counts
<1> PICK P : P = {s \in SUBSET S : SumOver(k, s) = SumOver(h, s) * c}
  OBVIOUS
<1>2. {} \in P
  <2>1. SumOver(h, {}) = 0 /\ SumOver(k, {}) = 0
    BY SumOfNone
  <2> QED BY <2>1
<1>3. ASSUME NEW s \in SUBSET S, s # {}, \A x \in s : s \ {x} \in P PROVE s \in P
  <2>1. PICK x \in s : TRUE
    BY <1>3
  <2> PICK rest : rest = s \ {x}
    OBVIOUS
  <2>2. Counts(h, s) /\ Counts(k, s) /\ Counts(h, rest) /\ Counts(k, rest)
    BY <1>1, CountsOfPart
  <2>3. SumOver(h, s) = h[x] + SumOver(h, rest) /\ SumOver(k, s) = k[x] + SumOver(k, rest)
    BY <2>2, SumTakesOut
  <2>4. h[x] \in Nat /\ k[x] = h[x] * c
    BY DEF Counts
  <2>5. SumOver(k, rest) = SumOver(h, rest) * c
    BY <1>3
  <2>6. SumOver(h, rest) \in Nat
    BY <2>2, SumIsNatural
  <2>7. (h[x] + SumOver(h, rest)) * c = h[x] * c + SumOver(h, rest) * c
    BY <2>4, <2>6
  <2>8. SumOver(k, s) = SumOver(h, s) * c
    BY <2>3, <2>4, <2>5, <2>7
  <2> QED BY <2>8
<1>4. IsInductive(P, S)
  BY <1>2, <1>3 DEF IsInductive
<1>5. S \in P
  BY <1>4, ByElement DEF Counts
<1> QED BY <1>1, <1>5

\* f gives the fractions of the numbers h over the denominator d.
IsOver(f, h, d, S) ==
  d \in Positive /\ Counts(h, S) /\ \A x \in S : f[x] = Fraction(h[x], d)

LEMMA FractionScaled ==
  ASSUME NEW n \in Nat, NEW d \in Positive, NEW e \in Positive
  PROVE  Fraction(n * e, d * e) = Fraction(n, d)
<1>1. n * e = e * n /\ d * e = e * d
  BY PositiveIs
<1> QED BY <1>1, FractionScales

LEMMA OverScales ==
  ASSUME NEW S, NEW f, NEW h, NEW d, IsOver(f, h, d, S), NEW e \in Positive,
         NEW k, \A x \in S : k[x] = h[x] * e
  PROVE  IsOver(f, k, d * e, S) /\ SumOver(k, S) = SumOver(h, S) * e
<1>1. d \in Positive /\ Counts(h, S) /\ e \in Nat
  BY PositiveIs DEF IsOver
<1>2. Counts(k, S) /\ SumOver(k, S) = SumOver(h, S) * e
  BY <1>1, SumScales
<1>3. d * e \in Positive
  BY <1>1, ProductsArePositive
<1>4. ASSUME NEW x \in S PROVE f[x] = Fraction(k[x], d * e)
  <2>1. h[x] \in Nat /\ k[x] = h[x] * e /\ f[x] = Fraction(h[x], d)
    BY <1>1 DEF Counts, IsOver
  <2>2. Fraction(h[x] * e, d * e) = Fraction(h[x], d)
    BY <1>1, <2>1, FractionScaled
  <2> QED BY <2>1, <2>2
<1> QED BY <1>2, <1>3, <1>4 DEF IsOver

LEMMA CommonDenominator ==
  ASSUME NEW S, IsFiniteSet(S), NEW f, \A x \in S : f[x] \in Rationals
  PROVE  \E h, d : IsOver(f, h, d, S)
<1> PICK P : P = {s \in SUBSET S : \E h, d : IsOver(f, h, d, s)}
  OBVIOUS
<1>1. {} \in P
  <2>1. Counts([x \in {} |-> 0], {})
    BY FS_EmptySet DEF Counts
  <2>2. IsOver(f, [x \in {} |-> 0], 1, {})
    BY <2>1, PositiveIs DEF IsOver
  <2> QED BY <2>2
<1>2. ASSUME NEW s \in SUBSET S, s # {}, \A x \in s : s \ {x} \in P PROVE s \in P
  <2>1. PICK x \in s : TRUE
    BY <1>2
  <2>2. PICK h, d : IsOver(f, h, d, s \ {x})
    BY <1>2
  <2>3. PICK n \in Nat, e \in Positive : f[x] = Fraction(n, e)
    BY RationalsAre
  <2>a. PICK k : k = [y \in s |-> IF y = x THEN n * d ELSE h[y] * e]
    OBVIOUS
  <2>4. d \in Positive /\ d \in Nat /\ e \in Nat
    BY <2>2, PositiveIs DEF IsOver
  <2>5. IsOver(f, k, d * e, s \ {x})
    <3>1. \A y \in s \ {x} : k[y] = h[y] * e
      BY <2>a
    <3> QED BY <2>2, <3>1, OverScales
  <2>6. f[x] = Fraction(k[x], d * e) /\ k[x] \in Nat
    <3>1. k[x] = n * d /\ d * e = e * d
      BY <2>a, <2>4
    <3>2. n * d \in Nat
      BY <2>4
    <3> QED BY <2>3, <2>4, <3>1, <3>2, FractionScaled
  <2>7. IsOver(f, k, d * e, s)
    <3>1. IsFiniteSet(s)
      BY FS_Subset
    <3>2. \A y \in s : y = x \/ y \in s \ {x}
      OBVIOUS
    <3> QED BY <2>5, <2>6, <3>1, <3>2 DEF IsOver, Counts
  <2> QED BY <2>7
<1>3. IsInductive(P, S)
  BY <1>1, <1>2 DEF IsInductive
<1>4. S \in P
  BY <1>3, ByElement
<1> QED BY <1>4

LEMMA PlusOver ==
  ASSUME NEW m \in Nat, NEW n \in Nat, NEW d \in Positive
  PROVE  Plus(Fraction(m, d), Fraction(n, d)) = Fraction(m + n, d)
<1>1. Plus(Fraction(m, d), Fraction(n, d)) = Fraction((m * d) + (n * d), d * d)
  BY PlusOf
<1>2. (m * d) + (n * d) = (m + n) * d
  BY PositiveIs
<1> QED BY <1>1, <1>2, FractionScaled

\* What FoldFunction computes.
Totaled(s, g, f) ==
  IF s = {} THEN Zero ELSE LET x == CHOOSE x \in s : TRUE IN Plus(f[x], g[s \ {x}])
IsTotaling(g, f, S) == g = [s \in SUBSET S |-> Totaled(s, g, f)]

LEMMA TotalFolds ==
  ASSUME NEW f
  PROVE  Total(f) = (CHOOSE g : IsTotaling(g, f, DOMAIN f))[DOMAIN f]
BY Zenon DEF Total, FoldFunction, FoldFunctionOnSet, MapThenFoldSet, IsTotaling, Totaled

LEMMA TotalIs ==
  ASSUME NEW S, NEW f, S = DOMAIN f, NEW h, NEW d, IsOver(f, h, d, S)
  PROVE  Total(f) = Fraction(SumOver(h, S), d) /\ SumOver(h, S) \in Nat
<1>1. d \in Positive /\ Counts(h, S) /\ \A x \in S : f[x] = Fraction(h[x], d)
  BY DEF IsOver
<1>2. PICK i \in [SUBSET S -> Nat] : IsSumming(i, h, S)
  BY <1>1, SumsOfSubsets
<1>3. \A s \in SUBSET S : i[s] = SumOver(h, s) /\ i[s] \in Nat
  BY <1>1, <1>2, SumIs
<1>a. PICK j : j = [s \in SUBSET S |-> Fraction(i[s], d)]
  OBVIOUS
<1>4. ASSUME NEW s \in SUBSET S PROVE Totaled(s, j, f) = Fraction(i[s], d)
  <2>1. i[s] = Summed(s, i, h)
    BY <1>2 DEF IsSumming
  <2>2. CASE s = {}
    <3>1. i[s] = 0 /\ Totaled(s, j, f) = Zero
      BY <2>1, <2>2 DEF Summed, Totaled
    <3>2. Zero = Fraction(0, d)
      <4>1. 0 * d = 0 * 1
        BY <1>1, PositiveIs
      <4> QED BY <1>1, <4>1, SameFraction, NumbersAre, PositiveIs
    <3> QED BY <3>1, <3>2
  <2>3. CASE s # {}
    <3> PICK c : c = CHOOSE x \in s : TRUE
      OBVIOUS
    <3>1. c \in s /\ s \ {c} \in SUBSET S
      BY <2>3
    <3>2. i[s] = h[c] + i[s \ {c}]
      BY <2>1, <2>3, Zenon DEF Summed
    <3>3. Totaled(s, j, f) = Plus(f[c], j[s \ {c}])
      BY <2>3, Zenon DEF Totaled
    <3>4. f[c] = Fraction(h[c], d) /\ h[c] \in Nat /\ i[s \ {c}] \in Nat
      BY <1>1, <1>3, <3>1 DEF Counts
    <3>5. j[s \ {c}] = Fraction(i[s \ {c}], d)
      BY <1>a, <3>1
    <3> QED BY <1>1, <3>2, <3>3, <3>4, <3>5, PlusOver
  <2> QED BY <2>2, <2>3
<1>5. IsTotaling(j, f, S)
  BY <1>a, <1>4 DEF IsTotaling
<1>6. PICK g : IsTotaling(g, f, S) /\ g = CHOOSE k : IsTotaling(k, f, S)
  BY <1>5, Zenon
<1>7. PICK P : P = {s \in SUBSET S : g[s] = Fraction(i[s], d)}
  OBVIOUS
<1>8. ASSUME NEW s \in SUBSET S, \A x \in s : s \ {x} \in P PROVE s \in P
  <2>1. g[s] = Totaled(s, g, f)
    BY <1>6 DEF IsTotaling
  <2>2. Totaled(s, g, f) = Totaled(s, j, f)
    <3>1. CASE s = {}
      BY <3>1 DEF Totaled
    <3>2. CASE s # {}
      <4> PICK c : c = CHOOSE x \in s : TRUE
        OBVIOUS
      <4>1. c \in s /\ s \ {c} \in SUBSET S
        BY <3>2
      <4>2. g[s \ {c}] = Fraction(i[s \ {c}], d)
        BY <1>7, <1>8, <4>1
      <4>3. j[s \ {c}] = Fraction(i[s \ {c}], d)
        BY <1>a, <4>1
      <4>4. /\ Totaled(s, g, f) = Plus(f[c], g[s \ {c}])
            /\ Totaled(s, j, f) = Plus(f[c], j[s \ {c}])
        BY <3>2, Zenon DEF Totaled
      <4> QED BY <4>2, <4>3, <4>4
    <3> QED BY <3>1, <3>2
  <2> QED BY <1>7, <1>4, <2>1, <2>2
<1>9. IsInductive(P, S)
  BY <1>8 DEF IsInductive
<1>10. S \in P
  BY <1>1, <1>9, ByElement DEF Counts
<1>11. g[S] = Fraction(SumOver(h, S), d) /\ SumOver(h, S) \in Nat
  BY <1>3, <1>7, <1>10
<1> QED BY <1>6, <1>11, TotalFolds

\* What there are totals of.
Totals(f) == IsFiniteSet(DOMAIN f) /\ \A x \in DOMAIN f : f[x] \in Rationals

LEMMA TotalIsRational ==
  ASSUME NEW f, Totals(f)
  PROVE  Total(f) \in Rationals
<1>1. PICK h, d : IsOver(f, h, d, DOMAIN f)
  BY CommonDenominator DEF Totals
<1>2. d \in Positive
  BY <1>1 DEF IsOver
<1> QED BY <1>1, <1>2, TotalIs, FractionsAre

LEMMA TotalOfNone ==
  ASSUME NEW f, DOMAIN f = {}
  PROVE  Total(f) = Zero
<1>1. Counts([x \in {} |-> 0], {})
  BY FS_EmptySet DEF Counts
<1>2. IsOver(f, [x \in {} |-> 0], 1, {})
  BY <1>1, PositiveIs DEF IsOver
<1>3. SumOver([x \in {} |-> 0], {}) = 0
  BY SumOfNone
<1> QED BY <1>2, <1>3, TotalIs, NumbersAre

\* Two totals over one denominator.
LEMMA CommonDenominators ==
  ASSUME NEW S, IsFiniteSet(S), NEW T, IsFiniteSet(T), NEW f, \A x \in S : f[x] \in Rationals,
         NEW g, \A x \in T : g[x] \in Rationals
  PROVE  \E h, k, d : IsOver(f, h, d, S) /\ IsOver(g, k, d, T)
<1>1. PICK h, d : IsOver(f, h, d, S)
  BY CommonDenominator
<1>2. PICK k, e : IsOver(g, k, e, T)
  BY CommonDenominator
<1>3. d \in Positive /\ e \in Positive
  BY <1>1, <1>2 DEF IsOver
<1>a. PICK i : i = [x \in S |-> h[x] * e]
  OBVIOUS
<1>b. PICK j : j = [x \in T |-> k[x] * d]
  OBVIOUS
<1>4. IsOver(f, i, d * e, S)
  BY <1>1, <1>3, <1>a, OverScales
<1>5. IsOver(g, j, e * d, T)
  BY <1>2, <1>3, <1>b, OverScales
<1>6. e * d = d * e
  BY <1>3, PositiveIs
<1> QED BY <1>4, <1>5, <1>6

LEMMA LeqOver ==
  ASSUME NEW m \in Nat, NEW n \in Nat, NEW d \in Positive
  PROVE  Leq(Fraction(m, d), Fraction(n, d)) <=> m <= n
BY LeqOf, Cancels

\* A total is at most that of other fractions, if each of its fractions has one of
\* them, no smaller, of its own.
LEMMA TotalAtMost ==
  ASSUME NEW f, Totals(f), NEW g, Totals(g), NEW into, into \in [DOMAIN f -> DOMAIN g],
         \A x, y \in DOMAIN f : into[x] = into[y] => x = y,
         \A x \in DOMAIN f : Leq(f[x], g[into[x]])
  PROVE  Leq(Total(f), Total(g))
<1> PICK S, T : S = DOMAIN f /\ T = DOMAIN g
  OBVIOUS
<1>1. PICK h, k, d : IsOver(f, h, d, S) /\ IsOver(g, k, d, T)
  BY CommonDenominators DEF Totals
<1>2. d \in Positive /\ Counts(h, S) /\ Counts(k, T)
  BY <1>1 DEF IsOver
<1>3. AtMostInto(h, S, k, T, into)
  <2>1. ASSUME NEW x \in S PROVE h[x] <= k[into[x]]
    <3>1. f[x] = Fraction(h[x], d) /\ g[into[x]] = Fraction(k[into[x]], d)
      BY <1>1 DEF IsOver
    <3>2. h[x] \in Nat /\ k[into[x]] \in Nat
      BY <1>2 DEF Counts
    <3> QED BY <1>2, <3>1, <3>2, LeqOver
  <2> QED BY <2>1 DEF AtMostInto
<1>4. SumOver(h, S) <= SumOver(k, T)
  BY <1>2, <1>3, SumAtMost
<1>5. /\ Total(f) = Fraction(SumOver(h, S), d) /\ SumOver(h, S) \in Nat
      /\ Total(g) = Fraction(SumOver(k, T), d) /\ SumOver(k, T) \in Nat
  BY <1>1, TotalIs
<1> QED BY <1>2, <1>4, <1>5, LeqOver

LEMMA TotalRises ==
  ASSUME NEW f, Totals(f), NEW g, Totals(g), DOMAIN f \subseteq DOMAIN g,
         \A x \in DOMAIN f : Leq(f[x], g[x])
  PROVE  Leq(Total(f), Total(g))
<1> PICK into : into = [x \in DOMAIN f |-> x]
  OBVIOUS
<1>1. /\ into \in [DOMAIN f -> DOMAIN g]
      /\ \A x, y \in DOMAIN f : into[x] = into[y] => x = y
      /\ \A x \in DOMAIN f : Leq(f[x], g[into[x]])
  OBVIOUS
<1> QED BY <1>1, TotalAtMost

LEMMA TotalScales ==
  ASSUME NEW f, Totals(f), NEW g, DOMAIN g = DOMAIN f, NEW c \in Rationals,
         \A x \in DOMAIN f : g[x] = Times(c, f[x])
  PROVE  Totals(g) /\ Total(g) = Times(c, Total(f))
<1> PICK S : S = DOMAIN f
  OBVIOUS
<1>1. PICK h, d : IsOver(f, h, d, S)
  BY CommonDenominator DEF Totals
<1>2. d \in Positive /\ Counts(h, S) /\ d \in Nat
  BY <1>1, PositiveIs DEF IsOver
<1>3. PICK m \in Nat, e \in Positive : c = Fraction(m, e)
  BY RationalsAre
<1>a. PICK k : k = [x \in S |-> h[x] * m]
  OBVIOUS
<1>4. Counts(k, S) /\ SumOver(k, S) = SumOver(h, S) * m
  BY <1>2, <1>a, SumScales
<1>5. e * d \in Positive
  BY <1>2, ProductsArePositive
<1>6. ASSUME NEW x \in S PROVE g[x] = Fraction(k[x], e * d)
  <2>1. f[x] = Fraction(h[x], d) /\ h[x] \in Nat /\ k[x] = h[x] * m
    BY <1>1, <1>2, <1>a DEF IsOver, Counts
  <2>2. m * h[x] = h[x] * m
    BY <2>1
  <2> QED BY <1>2, <1>3, <2>1, <2>2, ProductOf
<1>7. IsOver(g, k, e * d, S)
  BY <1>4, <1>5, <1>6 DEF IsOver
<1>8. Total(g) = Fraction(SumOver(k, S), e * d) /\ Total(f) = Fraction(SumOver(h, S), d)
      /\ SumOver(h, S) \in Nat
  BY <1>1, <1>7, TotalIs
<1>9. m * SumOver(h, S) = SumOver(h, S) * m
  BY <1>8
<1>10. Total(g) = Times(c, Total(f))
  BY <1>2, <1>3, <1>4, <1>8, <1>9, ProductOf
<1>11. Totals(g)
  BY TimesIsRational DEF Totals
<1> QED BY <1>10, <1>11

-----------------------------------------------------------------------------
(* Quotients, and what is left of one.                                     *)

LEMMA PlusCommutes ==
  ASSUME NEW x \in Rationals, NEW y \in Rationals
  PROVE  Plus(x, y) = Plus(y, x)
<1>1. PICK m \in Nat, d \in Positive : x = Fraction(m, d)
  BY RationalsAre
<1>2. PICK n \in Nat, e \in Positive : y = Fraction(n, e)
  BY RationalsAre
<1>3. (m * e) + (n * d) = (n * d) + (m * e) /\ d * e = e * d
  BY PositiveIs
<1> QED BY <1>1, <1>2, <1>3, PlusOf

LEMMA PlusZero ==
  ASSUME NEW x \in Rationals
  PROVE  Plus(x, Zero) = x /\ Plus(Zero, x) = x
<1>1. PICK m \in Nat, d \in Positive : x = Fraction(m, d)
  BY RationalsAre
<1>2. Plus(x, Zero) = Fraction((m * 1) + (0 * d), d * 1)
  BY <1>1, PlusOf, NumbersAre, PositiveIs
<1>3. (m * 1) + (0 * d) = m /\ d * 1 = d
  BY PositiveIs
<1> QED BY <1>1, <1>2, <1>3, PlusCommutes, NumbersAre

LEMMA GreaterIsDivisor ==
  ASSUME NEW x \in Divisors, NEW y \in Rationals, Leq(x, y)
  PROVE  y \in Divisors
<1>1. PICK n \in Positive, d \in Positive : x = Fraction(n, d)
  BY DivisorsAre
<1>2. PICK m \in Nat, e \in Positive : y = Fraction(m, e)
  BY RationalsAre
<1>3. n * e <= m * d
  BY <1>1, <1>2, LeqOf, PositiveIs
<1>4. m # 0
  <2>1. n * e \in Positive
    BY ProductsArePositive
  <2>2. m = 0 => m * d = 0
    BY PositiveIs
  <2> QED BY <1>3, <2>1, <2>2, PositiveIs
<1>5. m \in Positive
  BY <1>4 DEF Positive
<1> QED BY <1>2, <1>5, DivisorsAre

LEMMA OverOver ==
  ASSUME NEW x \in Rationals, NEW y \in Divisors, NEW z \in Divisors
  PROVE  Over(Over(x, y), z) = Over(x, Times(y, z))
<1> PICK q \in Rationals : q = Over(Over(x, y), z)
  BY OverIsRational
<1>1. Over(x, y) \in Rationals /\ y \in Rationals /\ z \in Rationals /\ Times(y, z) \in Divisors
  BY OverIsRational, DivisorsAre, TimesIsDivisor
<1>2. Times(q, z) = Over(x, y)
  BY <1>1, OverTimes
<1>3. Times(Times(q, z), y) = x
  BY <1>2, OverTimes
<1>4. Times(Times(q, z), y) = Times(q, Times(z, y)) /\ Times(z, y) = Times(y, z)
  BY <1>1, TimesAssociates, TimesCommutes
<1>5. Over(Times(q, Times(y, z)), Times(y, z)) = q
  BY <1>1, OverTimes
<1> QED BY <1>3, <1>4, <1>5

LEMMA TimesOver ==
  ASSUME NEW c \in Rationals, NEW x \in Rationals, NEW y \in Divisors
  PROVE  Times(c, Over(x, y)) = Over(Times(c, x), y)
<1> PICK q \in Rationals : q = Over(x, y)
  BY OverIsRational
<1>1. y \in Rationals /\ Times(c, q) \in Rationals
  BY DivisorsAre, TimesIsRational
<1>2. Times(Times(c, q), y) = Times(c, x)
  <2>1. Times(Times(c, q), y) = Times(c, Times(q, y))
    BY <1>1, TimesAssociates
  <2> QED BY <2>1, OverTimes
<1>3. Over(Times(Times(c, q), y), y) = Times(c, q)
  BY <1>1, OverTimes
<1> QED BY <1>2, <1>3

LEMMA OverIsMonotone ==
  ASSUME NEW x \in Rationals, NEW y \in Divisors, NEW u \in Rationals, NEW v \in Divisors,
         Leq(x, u), Leq(v, y)
  PROVE  Leq(Over(x, y), Over(u, v))
<1> PICK p \in Rationals, q \in Rationals : p = Over(x, y) /\ q = Over(u, v)
  BY OverIsRational
<1>1. y \in Rationals /\ v \in Rationals /\ \A z \in Rationals : Leq(z, z)
  BY DivisorsAre, LeqIsOrder
<1>2. Times(p, y) = x /\ Times(q, v) = u
  BY OverTimes
<1>3. Leq(Times(p, v), x)
  <2>1. Leq(Times(p, v), Times(p, y))
    BY <1>1, TimesIsMonotone
  <2> QED BY <1>2, <2>1
<1>4. Leq(Times(p, v), Times(q, v))
  BY <1>1, <1>2, <1>3, LeqIsTransitive, TimesIsRational
<1> QED BY <1>4, TimesCancels

\* Divided by a number that is at most another, which is at most c times it.
LEMMA QuotientsAreClose ==
  ASSUME NEW x \in Rationals, NEW y \in Divisors, NEW z \in Divisors, NEW c \in Divisors,
         Leq(z, y), Leq(y, Times(c, z))
  PROVE  Leq(Over(x, y), Over(x, z)) /\ Leq(Over(x, z), Times(c, Over(x, y)))
<1>1. y \in Rationals /\ z \in Rationals /\ c \in Rationals /\ Leq(x, x)
  BY DivisorsAre, LeqIsOrder
<1>2. Leq(Over(x, y), Over(x, z))
  BY <1>1, OverIsMonotone
<1>3. Times(c, x) \in Rationals /\ Times(c, z) \in Divisors /\ Leq(Times(c, x), Times(c, x))
  BY <1>1, TimesIsRational, TimesIsDivisor, LeqIsOrder
<1>4. Leq(Over(Times(c, x), Times(c, z)), Over(Times(c, x), y))
  BY <1>3, OverIsMonotone
<1>5. Over(Times(c, x), Times(c, z)) = Over(x, z)
  <2>1. Over(Over(Times(c, x), c), z) = Over(Times(c, x), Times(c, z))
    BY <1>3, OverOver
  <2>2. Over(Times(x, c), c) = x /\ Times(x, c) = Times(c, x)
    BY <1>1, OverTimes, TimesCommutes
  <2> QED BY <2>1, <2>2
<1>6. Over(Times(c, x), y) = Times(c, Over(x, y))
  BY <1>1, TimesOver
<1> QED BY <1>2, <1>4, <1>5, <1>6

LEMMA MinusIsAntitone ==
  ASSUME NEW x \in Rationals, NEW y \in Rationals, NEW z \in Rationals, Leq(y, z), Leq(z, x)
  PROVE  Leq(Minus(x, z), Minus(x, y))
<1>1. Leq(y, x)
  BY LeqIsTransitive
<1> PICK p \in Rationals, q \in Rationals : p = Minus(x, z) /\ q = Minus(x, y)
  BY <1>1, MinusPlus
<1>2. Plus(p, z) = x /\ Plus(q, y) = x
  BY <1>1, MinusPlus
<1>3. Leq(q, q) /\ Leq(Plus(q, y), Plus(q, z))
  BY LeqIsOrder, PlusIsMonotone
<1>4. Leq(Plus(p, z), Plus(q, z))
  BY <1>2, <1>3
<1> QED BY <1>4, PlusCancels

\* What is left of one.
Free(x) == Minus(One, x)

LEMMA FreeZero == Free(Zero) = One
<1>1. 0 * 1 <= 1 * 1 /\ (1 * 1) - (0 * 1) = 1 /\ 1 * 1 = 1
  OBVIOUS
<1>2. Minus(Fraction(1, 1), Fraction(0, 1)) = Fraction((1 * 1) - (0 * 1), 1 * 1)
  BY <1>1, MinusOf, PositiveIs
<1> QED BY <1>1, <1>2, NumbersAre DEF Free

LEMMA FreeIs ==
  ASSUME NEW x \in Rationals, Leq(x, One)
  PROVE  Free(x) \in Rationals /\ Leq(Free(x), One) /\ Free(Free(x)) = x
<1> PICK y \in Rationals : y = Minus(One, x) /\ Plus(y, x) = One
  BY MinusPlus, NumbersAre
<1>1. Leq(y, One)
  <2>1. Leq(Zero, x) /\ Leq(y, y)
    BY LeqIsOrder
  <2>2. Leq(Plus(y, Zero), Plus(y, x))
    BY <2>1, PlusIsMonotone, NumbersAre
  <2>3. Plus(y, Zero) = y
    BY PlusZero
  <2> QED BY <2>2, <2>3
<1> PICK z \in Rationals : z = Minus(One, y) /\ Plus(z, y) = One
  BY <1>1, MinusPlus, NumbersAre
<1>2. z = x
  <2>1. Plus(x, y) = One
    BY PlusCommutes
  <2>2. Leq(Plus(z, y), Plus(x, y)) /\ Leq(Plus(x, y), Plus(z, y))
    BY <2>1, LeqIsOrder, NumbersAre
  <2>3. Leq(z, x) /\ Leq(x, z)
    BY <2>2, PlusCancels
  <2> QED BY <2>3, LeqIsOrder
<1> QED BY <1>1, <1>2 DEF Free

LEMMA FreeIsAntitone ==
  ASSUME NEW x \in Rationals, NEW y \in Rationals, Leq(y, One)
  PROVE  Leq(x, y) <=> Leq(x, One) /\ Leq(Free(y), Free(x))
<1>1. ASSUME Leq(x, y) PROVE Leq(x, One) /\ Leq(Free(y), Free(x))
  BY <1>1, LeqIsTransitive, MinusIsAntitone, NumbersAre DEF Free
<1>2. ASSUME Leq(x, One), Leq(Free(y), Free(x)) PROVE Leq(x, y)
  <2>1. /\ Free(x) \in Rationals /\ Free(y) \in Rationals /\ Leq(Free(x), One)
        /\ Free(Free(x)) = x /\ Free(Free(y)) = y
    BY <1>2, FreeIs
  <2>2. Leq(Minus(One, Free(x)), Minus(One, Free(y)))
    BY <1>2, <2>1, MinusIsAntitone, NumbersAre
  <2> QED BY <2>1, <2>2 DEF Free
<1> QED BY <1>1, <1>2

-----------------------------------------------------------------------------
(* The bins of utilization.                                                *)

\* What induction says of all numbers.
LEMMA FromZero ==
  ASSUME NEW P \in SUBSET Nat, 0 \in P, \A k \in Nat : k \in P => k + 1 \in P
  PROVE  \A k \in Nat : k \in P
<1> PICK Others : Others = Nat \ P
  OBVIOUS
<1>1. SUFFICES ASSUME Others # {} PROVE FALSE
  OBVIOUS
<1>2. PICK b \in Others : \A k \in Others : b <= k
  <2>1. Others \subseteq Nat
    OBVIOUS
  <2> QED BY <1>1, <2>1, LeastNatural
<1>3. b \in Nat /\ b # 0 /\ b - 1 \in Nat /\ (b - 1) + 1 = b /\ ~ (b <= b - 1)
  BY <1>2
<1>4. b - 1 \in P
  BY <1>2, <1>3
<1> QED BY <1>2, <1>3, <1>4

LEMMA FactorIs ==
  /\ \E a \in Positive, b \in Positive :
       RelativeError = <<a, b>> /\ growth_factor = Fraction(a + b, b)
  /\ growth_factor \in Divisors /\ growth_factor \in Rationals /\ Leq(One, growth_factor)
<1>1. PICK a \in Positive, b \in Positive : RelativeError = <<a, b>>
  BY ProblemConfigAssumption DEF Positive
<1>2. growth_factor = Fraction(a + b, b)
  BY <1>1, Zenon DEF growth_factor
<1>3. a + b \in Positive /\ 1 * b <= (a + b) * 1
  BY DEF Positive
<1>4. growth_factor \in Divisors
  BY <1>2, <1>3, DivisorsAre
<1>5. Leq(One, growth_factor)
  BY <1>2, <1>3, LeqOf, NumbersAre, PositiveIs
<1> QED BY <1>1, <1>2, <1>4, <1>5, DivisorsAre

\* Powers exist up to each number, and agree.
ArePowers(h, N) ==
  /\ h \in [0 .. N -> Rationals] /\ h[0] = One
  /\ \A n \in 1 .. N : h[n] = Times(growth_factor, h[n - 1])

LEMMA PowersExist ==
  ASSUME NEW N \in Nat
  PROVE  \E h : ArePowers(h, N)
<1> PICK P : P = {n \in Nat : \E h : ArePowers(h, n)}
  OBVIOUS
<1>1. 0 \in P
  <2> PICK h : h = [n \in 0 .. 0 |-> One]
    OBVIOUS
  <2>1. ArePowers(h, 0)
    BY NumbersAre DEF ArePowers
  <2> QED BY <2>1
<1>2. ASSUME NEW k \in Nat, k \in P PROVE k + 1 \in P
  <2>1. PICK h : ArePowers(h, k)
    BY <1>2
  <2>2. PICK power : power = Times(growth_factor, h[k])
    OBVIOUS
  <2>3. h \in [0 .. k -> Rationals] /\ h[0] = One /\ k \in 0 .. k
    BY <2>1 DEF ArePowers
  <2>4. power \in Rationals
    BY <2>2, <2>3, FactorIs, TimesIsRational
  <2> PICK g : g = [n \in 0 .. k + 1 |-> IF n = k + 1 THEN power ELSE h[n]]
    OBVIOUS
  <2>5. g \in [0 .. k + 1 -> Rationals] /\ g[0] = One
    BY <2>3, <2>4
  <2>6. ASSUME NEW n \in 1 .. k + 1 PROVE g[n] = Times(growth_factor, g[n - 1])
    <3>1. n - 1 \in 0 .. k /\ n - 1 \in 0 .. k + 1 /\ n - 1 # k + 1 /\ n \in 0 .. k + 1
      BY <2>6
    <3>2. g[n - 1] = h[n - 1]
      BY <3>1
    <3>3. CASE n = k + 1
      <4>1. n - 1 = k /\ g[n] = power
        BY <3>1, <3>3
      <4> QED BY <2>2, <3>2, <4>1
    <3>4. CASE n # k + 1
      <4>1. n \in 1 .. k /\ g[n] = h[n]
        BY <2>6, <3>1, <3>4
      <4> QED BY <2>1, <3>2, <4>1 DEF ArePowers
    <3> QED BY <3>3, <3>4
  <2>7. ArePowers(g, k + 1)
    BY <2>5, <2>6 DEF ArePowers
  <2> QED BY <2>7
<1>3. P \in SUBSET Nat
  OBVIOUS
<1>4. N \in P
  BY <1>1, <1>2, <1>3, FromZero
<1> QED BY <1>4

LEMMA PowersAgree ==
  ASSUME NEW N \in Nat, NEW M \in Nat, N <= M,
         NEW h, ArePowers(h, N), NEW g, ArePowers(g, M)
  PROVE  \A n \in 0 .. N : h[n] = g[n]
<1> PICK P : P = {n \in 0 .. N : h[n] = g[n]}
  OBVIOUS
<1>1. 0 \in P
  BY DEF ArePowers
<1>2. ASSUME NEW k \in 0 .. N, k # N, k \in P PROVE k + 1 \in P
  <2>1. k + 1 \in 1 .. N /\ k + 1 \in 1 .. M /\ (k + 1) - 1 = k /\ k + 1 \in 0 .. N
    BY <1>2
  <2>2. h[k + 1] = Times(growth_factor, h[k]) /\ g[k + 1] = Times(growth_factor, g[k])
    BY <2>1 DEF ArePowers
  <2> QED BY <1>2, <2>1, <2>2
<1>3. P \in SUBSET (0 .. N)
  OBVIOUS
<1>4. \A k \in 0 .. N : k \in P
  BY <1>1, <1>2, <1>3, UpTo
<1> QED BY <1>4

LEMMA GrowthIs ==
  /\ growth[0] = One
  /\ \A n \in Nat \ {0} : growth[n] = Times(growth_factor, growth[n - 1])
<1> DEFINE is(g) ==
      g = [n \in Nat |-> IF n = 0 THEN One ELSE Times(growth_factor, g[n - 1])]
<1>1. growth = CHOOSE g : is(g)
  BY Zenon DEF growth
<1>a. PICK p : p = [n \in Nat |-> CHOOSE h : ArePowers(h, n)]
  OBVIOUS
<1>2. ASSUME NEW n \in Nat PROVE ArePowers(p[n], n)
  <2>1. \E h : ArePowers(h, n)
    BY PowersExist
  <2>2. p[n] = CHOOSE h : ArePowers(h, n)
    BY <1>a
  <2> QED BY <2>1, <2>2, Zenon
<1>b. PICK f : f = [n \in Nat |-> p[n][n]]
  OBVIOUS
<1>3. ASSUME NEW n \in Nat
      PROVE  f[n] = IF n = 0 THEN One ELSE Times(growth_factor, f[n - 1])
  <2>1. CASE n = 0
    BY <1>2, <1>b, <2>1 DEF ArePowers
  <2>2. CASE n # 0
    <3>1. n \in 1 .. n /\ n - 1 \in Nat /\ n - 1 <= n /\ n - 1 \in 0 .. n - 1
      BY <2>2
    <3>2. p[n][n] = Times(growth_factor, p[n][n - 1])
      BY <1>2, <3>1 DEF ArePowers
    <3>3. p[n - 1][n - 1] = p[n][n - 1]
      BY <1>2, <3>1, PowersAgree
    <3>4. f[n] = p[n][n] /\ f[n - 1] = p[n - 1][n - 1]
      BY <1>b, <3>1
    <3> QED BY <2>2, <3>2, <3>3, <3>4
  <2> QED BY <2>1, <2>2
<1>4. is(f)
  <2>1. f = [n \in Nat |-> f[n]]
    BY <1>b
  <2> QED BY <1>3, <2>1
<1> HIDE DEF is
<1>5. is(growth)
  BY <1>1, <1>4
<1>6. growth = [n \in Nat |-> IF n = 0 THEN One ELSE Times(growth_factor, growth[n - 1])]
  BY <1>5 DEF is
<1>7. ASSUME NEW n \in Nat
      PROVE  growth[n] = IF n = 0 THEN One ELSE Times(growth_factor, growth[n - 1])
  BY <1>6
<1> QED BY <1>7

LEMMA GrowthGrows ==
  /\ \A n \in Nat : growth[n] \in Divisors /\ growth[n] \in Rationals
  /\ \A i, j \in Nat : i <= j => Leq(growth[i], growth[j])
<1> PICK P : P = {n \in Nat : growth[n] \in Divisors}
  OBVIOUS
<1>1. 0 \in P
  BY GrowthIs, DivisorsAre
<1>2. ASSUME NEW k \in Nat, k \in P PROVE k + 1 \in P
  <2>1. k + 1 \in Nat \ {0} /\ (k + 1) - 1 = k
    BY <1>2
  <2>2. growth[k + 1] = Times(growth_factor, growth[k])
    BY <2>1, GrowthIs
  <2> QED BY <1>2, <2>1, <2>2, FactorIs, TimesIsDivisor
<1>3. \A n \in Nat : n \in P
  BY <1>1, <1>2, FromZero
<1>4. \A n \in Nat : growth[n] \in Divisors /\ growth[n] \in Rationals
  BY <1>3, DivisorsAre
<1>5. ASSUME NEW n \in Nat \ {0} PROVE Leq(growth[n - 1], growth[n])
  <2>1. n - 1 \in Nat /\ growth[n - 1] \in Rationals /\ One \in Rationals
    BY <1>4, <1>5, NumbersAre
  <2>2. Leq(growth[n - 1], growth[n - 1])
    BY <2>1, LeqIsOrder
  <2>3. Leq(Times(One, growth[n - 1]), Times(growth_factor, growth[n - 1]))
    BY <2>1, <2>2, FactorIs, TimesIsMonotone
  <2>4. Times(One, growth[n - 1]) = growth[n - 1]
    BY <2>1, TimesOne
  <2> QED BY <2>3, <2>4, GrowthIs
<1>6. ASSUME NEW i \in Nat, NEW j \in Nat, i <= j PROVE Leq(growth[i], growth[j])
  <2> PICK Q : Q = {n \in Nat : n < i \/ Leq(growth[i], growth[n])}
    OBVIOUS
  <2>1. Leq(growth[i], growth[i])
    BY <1>4, LeqIsOrder
  <2>2. 0 \in Q
    BY <2>1
  <2>3. ASSUME NEW k \in Nat, k \in Q PROVE k + 1 \in Q
    <3>1. CASE k + 1 < i
      BY <3>1
    <3>2. CASE k + 1 = i
      BY <2>1, <3>2
    <3>3. CASE i < k + 1
      <4>1. Leq(growth[i], growth[k]) /\ k + 1 \in Nat \ {0} /\ (k + 1) - 1 = k
        BY <2>3, <3>3
      <4>2. Leq(growth[k], growth[k + 1])
        BY <1>5, <4>1
      <4>3. Leq(growth[i], growth[k + 1])
        BY <1>4, <4>1, <4>2, LeqIsTransitive
      <4> QED BY <4>1, <4>3
    <3> QED BY <3>1, <3>2, <3>3
  <2>4. Q \in SUBSET Nat
    OBVIOUS
  <2>5. j \in Q
    BY <2>2, <2>3, <2>4, FromZero
  <2> QED BY <1>6, <2>5
<1> QED BY <1>4, <1>6

\* The powers of 1 + a / b exceed 1 + n * a / b.
LEMMA Bernoulli ==
  ASSUME NEW a \in Positive, NEW b \in Positive, growth_factor = Fraction(a + b, b),
         NEW N \in Nat
  PROVE  Leq(Fraction(b + (N * a), b), growth[N])
<1> PICK P : P = {n \in Nat : Leq(Fraction(b + (n * a), b), growth[n])}
  OBVIOUS
<1>n. a \in Nat /\ b \in Nat /\ \A n \in Nat : b + (n * a) \in Nat
  BY PositiveIs
<1>1. 0 \in P
  <2>1. b + (0 * a) = b /\ b * 1 <= 1 * b
    BY <1>n
  <2>2. Leq(Fraction(b, b), Fraction(1, 1))
    BY <1>n, <2>1, LeqOf, PositiveIs
  <2> QED BY <2>1, <2>2, GrowthIs, NumbersAre
<1>2. ASSUME NEW k \in Nat, k \in P PROVE k + 1 \in P
  <2> PICK m \in Nat, l \in Nat : m = b + (k * a) /\ l = b + ((k + 1) * a)
    BY <1>n
  <2>1. growth[k + 1] = Times(growth_factor, growth[k])
    <3>1. k + 1 \in Nat \ {0} /\ (k + 1) - 1 = k
      BY <1>2
    <3> QED BY <3>1, GrowthIs
  <2>2. Fraction(m, b) \in Rationals /\ growth[k] \in Rationals /\ growth[k + 1] \in Rationals
    BY FractionsAre, GrowthGrows
  <2>3. Leq(Fraction(m, b), growth[k]) /\ Leq(growth_factor, growth_factor)
    BY <1>2, FactorIs, LeqIsOrder
  <2>4. Leq(Times(growth_factor, Fraction(m, b)), growth[k + 1])
    BY <2>1, <2>2, <2>3, FactorIs, TimesIsMonotone
  <2>5. a + b \in Nat /\ (a + b) * m \in Nat /\ b * b \in Positive
    <3>1. b * b \in Positive
      BY ProductsArePositive
    <3> QED BY <1>n, <3>1
  <2>6. Times(growth_factor, Fraction(m, b)) = Fraction((a + b) * m, b * b)
    BY <2>5, ProductOf
  <2>7. l * (b * b) <= ((a + b) * m) * b
    <3>1. (a + b) * (b + k * a) = (b + (k + 1) * a) * b + k * (a * a)
      BY <1>n
    <3>2. k * (a * a) \in Nat /\ (b + (k + 1) * a) * b \in Nat
      BY <1>n
    <3>3. l * b <= (a + b) * m
      BY <3>1, <3>2
    <3>4. l * b \in Nat /\ b <= b
      BY <1>n
    <3>5. (l * b) * b <= ((a + b) * m) * b
      BY <1>n, <2>5, <3>3, <3>4, ProductsAreMonotone
    <3>6. (l * b) * b = l * (b * b)
      BY <1>n
    <3> QED BY <3>5, <3>6
  <2>8. Leq(Fraction(l, b), Fraction((a + b) * m, b * b))
    BY <2>5, <2>7, LeqOf
  <2>9. Fraction(l, b) \in Rationals /\ Fraction((a + b) * m, b * b) \in Rationals
    BY <2>5, FractionsAre
  <2>10. Leq(Fraction(l, b), growth[k + 1])
    BY <2>2, <2>4, <2>6, <2>8, <2>9, LeqIsTransitive
  <2> QED BY <2>10
<1>3. P \in SUBSET Nat
  OBVIOUS
<1>4. N \in P
  BY <1>1, <1>2, <1>3, FromZero
<1> QED BY <1>4

LEMMA LimitIs ==
  ASSUME NEW percent \in 1 .. 99
  PROVE  LET limit == Fraction(percent, 100) IN
         /\ limit \in Rationals /\ Leq(limit, One)
         /\ Free(limit) = Fraction(100 - percent, 100) /\ Free(limit) \in Divisors
<1> PICK limit : limit = Fraction(percent, 100)
  OBVIOUS
<1>1. 100 \in Positive /\ 100 - percent \in Positive /\ percent \in Nat
  BY DEF Positive
<1>2. limit \in Rationals
  BY <1>1, FractionsAre
<1>3. Leq(limit, One)
  <2>1. percent * 1 <= 1 * 100
    OBVIOUS
  <2> QED BY <1>1, <2>1, LeqOf, NumbersAre, PositiveIs
<1>4. Free(limit) = Fraction(100 - percent, 100)
  <2>1. percent * 1 <= 1 * 100 /\ (1 * 100) - (percent * 1) = 100 - percent /\ 1 * 100 = 100
    OBVIOUS
  <2>2. Minus(Fraction(1, 1), Fraction(percent, 100))
          = Fraction((1 * 100) - (percent * 1), 1 * 100)
    BY <1>1, <2>1, MinusOf, PositiveIs
  <2>3. Minus(One, limit) = Minus(Fraction(1, 1), Fraction(percent, 100))
    BY NumbersAre
  <2> QED BY <2>1, <2>2, <2>3 DEF Free
<1> QED BY <1>1, <1>2, <1>3, <1>4, DivisorsAre

\* What is left at the limits of bins: one divided by the powers.
Share(n) == Over(One, growth[n])

LEMMA SharesAre ==
  /\ Share(0) = One
  /\ \A n \in Nat : /\ Share(n) \in Divisors /\ Share(n) \in Rationals
                    /\ Leq(Share(n), One)
  /\ \A n \in Nat \ {0} : Share(n - 1) = Times(growth_factor, Share(n))
  /\ \A i, j \in Nat : i <= j => Leq(Share(j), Share(i))
<1>1. Share(0) = One
  <2>1. Over(Times(One, One), One) = One /\ Times(One, One) = One
    BY OverTimes, TimesOne, NumbersAre, DivisorsAre
  <2> QED BY <2>1, GrowthIs DEF Share
<1>2. ASSUME NEW n \in Nat PROVE Share(n) \in Divisors /\ Share(n) \in Rationals
  <2>1. PICK m \in Positive, d \in Positive : growth[n] = Fraction(m, d)
    BY GrowthGrows, DivisorsAre
  <2>2. Over(Fraction(1, 1), Fraction(m, d)) = Fraction(1 * d, 1 * m)
    BY PositiveIs, OverOf
  <2>3. 1 * d = d /\ 1 * m = m
    BY PositiveIs
  <2>4. Share(n) = Fraction(d, m)
    BY <2>1, <2>2, <2>3, NumbersAre DEF Share
  <2> QED BY <2>4, DivisorsAre
<1>3. ASSUME NEW i \in Nat, NEW j \in Nat, i <= j PROVE Leq(Share(j), Share(i))
  <2>1. /\ Leq(growth[i], growth[j]) /\ growth[i] \in Divisors /\ growth[j] \in Divisors
        /\ Leq(One, One)
    BY <1>3, GrowthGrows, LeqIsOrder, NumbersAre
  <2> QED BY <2>1, OverIsMonotone, NumbersAre DEF Share
<1>4. ASSUME NEW n \in Nat \ {0} PROVE Share(n - 1) = Times(growth_factor, Share(n))
  <2>a. PICK c, g : c = growth_factor /\ g = growth[n - 1]
    OBVIOUS
  <2>1. c \in Divisors /\ c \in Rationals /\ g \in Divisors /\ growth[n] = Times(c, g)
    <3>1. n - 1 \in Nat
      BY <1>4
    <3> QED BY <2>a, <3>1, FactorIs, GrowthIs, GrowthGrows
  <2>2. Times(c, Over(One, Times(c, g))) = Over(Times(c, One), Times(c, g))
    BY <2>1, TimesOver, TimesIsDivisor, NumbersAre
  <2>3. Over(Over(c, c), g) = Over(c, Times(c, g))
    BY <2>1, OverOver
  <2>4. Over(Times(One, c), c) = One /\ Times(One, c) = c /\ Times(c, One) = c
    BY <2>1, OverTimes, TimesOne, NumbersAre
  <2>5. Times(c, Over(One, Times(c, g))) = Over(One, g)
    BY <2>2, <2>3, <2>4
  <2> QED BY <2>a, <2>1, <2>5 DEF Share
<1>5. ASSUME NEW n \in Nat PROVE Leq(Share(n), One)
  BY <1>1, <1>3
<1> QED BY <1>1, <1>2, <1>3, <1>4, <1>5

LEMMA IntervalCountIs ==
  ASSUME NEW percent \in 1 .. 99
  PROVE  LET n == interval_count(percent)
             free == Free(Fraction(percent, 100))
         IN /\ n \in Nat \ {0}
            /\ Leq(Share(n), free)
            /\ \A i \in 0 .. n - 1 : Leq(free, Share(i))
<1>a. PICK free : free = Free(Fraction(percent, 100))
  OBVIOUS
<1>f. free = Fraction(100 - percent, 100) /\ free \in Rationals /\ 100 - percent \in Nat
      /\ 100 \in Positive /\ 100 - percent >= 1 /\ 100 - percent < 100
  <2>1. 100 - percent \in Nat /\ 100 \in Positive /\ 100 - percent >= 1 /\ 100 - percent < 100
    BY DEF Positive
  <2>2. free = Fraction(100 - percent, 100)
    BY <1>a, LimitIs
  <2> QED BY <2>1, <2>2, FractionsAre
<1>1. PICK a \in Positive, b \in Positive :
        RelativeError = <<a, b>> /\ growth_factor = Fraction(a + b, b)
  BY FactorIs
<1>m. PICK M : M = 100 * b
  OBVIOUS
<1>n. a \in Nat /\ b \in Nat /\ a >= 1 /\ M \in Nat
  BY <1>m, PositiveIs
<1> DEFINE Reached(n) == Leq(Share(n), free)
<1>2. interval_count(percent) = CHOOSE n \in 1 .. M : Reached(n) /\ ~ Reached(n - 1)
  <2>1. M = 100 * RelativeError[2]
    BY <1>1, <1>m
  <2> QED BY <1>a, <2>1, Zenon DEF interval_count, Share, Free
<1>3. Reached(M)
  <2> PICK top \in Positive : top = b + (M * a)
    <3>1. M * a \in Nat
      BY <1>n
    <3> QED BY <1>n, <3>1, PositiveIs
  <2>1. Leq(Fraction(top, b), growth[M])
    BY <1>1, <1>n, Bernoulli
  <2>2. Leq(Share(M), Over(One, Fraction(top, b)))
    <3>1. Fraction(top, b) \in Divisors /\ growth[M] \in Divisors /\ Leq(One, One)
      BY <1>n, DivisorsAre, GrowthGrows, LeqIsOrder, NumbersAre
    <3> QED BY <2>1, <3>1, OverIsMonotone, NumbersAre DEF Share
  <2>3. Over(One, Fraction(top, b)) = Fraction(b, top)
    <3>1. Over(Fraction(1, 1), Fraction(top, b)) = Fraction(1 * b, 1 * top)
      BY PositiveIs, OverOf
    <3>2. 1 * b = b /\ 1 * top = top
      BY PositiveIs
    <3> QED BY <3>1, <3>2, NumbersAre
  <2>4. b * 100 <= (100 - percent) * top
    <3>1. 100 * b <= M * a
      <4>1. (100 * b) * 1 <= (100 * b) * a
        <5>1. 100 * b \in Nat /\ 100 * b <= 100 * b
          BY <1>n
        <5> QED BY <1>n, <5>1, ProductsAreMonotone
      <4> QED BY <1>m, <1>n, <4>1
    <3>2. 1 * top <= (100 - percent) * top
      BY <1>f, PositiveIs, ProductsAreMonotone
    <3>3. M * a \in Nat /\ (100 - percent) * top \in Nat /\ top \in Nat
      BY <1>f, <1>n, PositiveIs
    <3> QED BY <1>n, <3>1, <3>2, <3>3
  <2>5. Leq(Fraction(b, top), free)
    BY <1>f, <1>n, <2>4, LeqOf
  <2>6. Share(M) \in Rationals /\ Fraction(b, top) \in Rationals
    BY <1>n, SharesAre, FractionsAre
  <2> QED BY <1>f, <2>2, <2>3, <2>5, <2>6, LeqIsTransitive
<1>4. ~ Reached(0)
  <2>1. ~ (1 * 100 <= (100 - percent) * 1)
    BY <1>f
  <2>2. ~ Leq(One, free)
    BY <1>f, <2>1, LeqOf, NumbersAre, PositiveIs
  <2> QED BY <2>2, SharesAre
<1>5. \E n \in 1 .. M : Reached(n) /\ ~ Reached(n - 1)
  <2> PICK S : S = {n \in Nat : Reached(n)}
    OBVIOUS
  <2> HIDE DEF Reached
  <2>1. S \subseteq Nat /\ S # {}
    BY <1>3, <1>n
  <2>2. PICK k \in S : \A n \in S : k <= n
    BY <2>1, LeastNatural
  <2>3. k \in Nat /\ Reached(k) /\ k <= M /\ k # 0
    BY <1>3, <1>4, <1>n, <2>2
  <2>4. k \in 1 .. M /\ k - 1 \in Nat /\ ~ (k <= k - 1)
    BY <1>n, <2>3
  <2>5. ~ Reached(k - 1)
    BY <2>2, <2>4
  <2> QED BY <2>3, <2>4, <2>5
<1>6. PICK n \in 1 .. M : n = interval_count(percent) /\ Reached(n) /\ ~ Reached(n - 1)
  <2> HIDE DEF Reached
  <2> QED BY <1>2, <1>5, Zenon
<1>7. n \in Nat \ {0} /\ n - 1 \in Nat
  BY <1>n, <1>6
<1>8. ASSUME NEW i \in 0 .. n - 1 PROVE Leq(free, Share(i))
  <2>1. i \in Nat /\ i <= n - 1
    BY <1>7, <1>8
  <2>2. /\ Share(i) \in Rationals /\ Share(n - 1) \in Rationals
        /\ Leq(Share(n - 1), Share(i))
    BY <1>7, <2>1, SharesAre
  <2>3. Leq(free, Share(n - 1))
    BY <1>f, <1>6, <2>2, LeqIsOrder
  <2> QED BY <1>f, <2>2, <2>3, LeqIsTransitive
<1> QED BY <1>a, <1>6, <1>7, <1>8

\* The limits rise from none to the configured one; what is left falls by the
\* factor 1 + relative error at most.
LEMMA BinLimitsAre ==
  ASSUME NEW percent \in 1 .. 99
  PROVE  LET limits == bin_limits(percent)
             n == interval_count(percent)
         IN /\ n \in Nat \ {0} /\ DOMAIN limits = 0 .. n
            /\ limits[0] = Zero /\ limits[n] = Fraction(percent, 100)
            /\ \A i \in 0 .. n : limits[i] \in Rationals /\ Leq(limits[i], One)
                                 /\ Free(limits[i]) \in Divisors
            /\ \A i, j \in 0 .. n : i <= j => Leq(limits[i], limits[j])
            /\ \A i \in 1 .. n : Leq(Free(limits[i - 1]), Times(growth_factor, Free(limits[i])))
<1> PICK limits, n : limits = bin_limits(percent) /\ n = interval_count(percent)
  OBVIOUS
<1> PICK limit : limit = Fraction(percent, 100)
  OBVIOUS
<1>1. /\ n \in Nat \ {0} /\ Leq(Share(n), Free(limit))
      /\ \A i \in 0 .. n - 1 : Leq(Free(limit), Share(i))
  BY IntervalCountIs
<1>2. DOMAIN limits = 0 .. n /\ \A i \in 0 .. n : limits[i] =
        IF i = n THEN limit ELSE Free(Share(i))
  BY DEF bin_limits, Free, Share
<1>3. limit \in Rationals /\ Leq(limit, One) /\ Free(limit) \in Divisors
  BY LimitIs
<1>4. ASSUME NEW i \in 0 .. n, i # n
      PROVE  /\ limits[i] \in Rationals /\ Leq(limits[i], One)
             /\ Free(limits[i]) = Share(i) /\ Free(limits[i]) \in Divisors
             /\ Leq(limits[i], limit)
  <2>1. i \in Nat /\ i \in 0 .. n - 1
    BY <1>1, <1>4
  <2> PICK share : share = Share(i)
    OBVIOUS
  <2>2. share \in Divisors /\ Leq(share, One) /\ share \in Rationals
    BY <2>1, SharesAre, DivisorsAre
  <2>3. limits[i] = Free(share)
    BY <1>2, <1>4
  <2>4. Free(share) \in Rationals /\ Leq(Free(share), One) /\ Free(Free(share)) = share
    BY <2>2, FreeIs
  <2>5. Leq(Free(share), limit)
    <3>1. Leq(Free(limit), Free(Free(share)))
      BY <1>1, <2>1, <2>4
    <3> QED BY <1>3, <2>4, <3>1, FreeIsAntitone
  <2> QED BY <2>2, <2>3, <2>4, <2>5
<1>5. limits[n] = limit
  BY <1>1, <1>2
<1>6. limits[0] = Zero
  <2>1. 0 \in 0 .. n /\ 0 # n
    BY <1>1
  <2>2. Share(0) = One
    BY SharesAre
  <2>3. Free(One) = Zero
    <3>1. Zero \in Rationals /\ Leq(Zero, One)
      BY NumbersAre, LeqIsOrder
    <3>2. Free(Zero) = One
      BY FreeZero
    <3> QED BY <3>1, <3>2, FreeIs
  <2> QED BY <1>2, <2>1, <2>2, <2>3
<1>7. ASSUME NEW i \in 0 .. n
      PROVE  limits[i] \in Rationals /\ Leq(limits[i], One) /\ Free(limits[i]) \in Divisors
  <2>1. CASE i = n
    BY <1>3, <1>5, <2>1
  <2>2. CASE i # n
    BY <1>4, <2>2
  <2> QED BY <2>1, <2>2
<1>8. ASSUME NEW i \in 0 .. n, NEW j \in 0 .. n, i <= j PROVE Leq(limits[i], limits[j])
  <2>1. CASE i = j
    BY <1>7, <2>1, LeqIsOrder
  <2>2. CASE i # j /\ j = n
    BY <1>4, <1>5, <2>2
  <2>3. CASE i # j /\ j # n
    <3>1. i # n /\ i \in Nat /\ j \in Nat
      BY <1>1, <1>8, <2>3
    <3>2. /\ Free(limits[i]) = Share(i) /\ Free(limits[j]) = Share(j)
          /\ limits[i] \in Rationals /\ limits[j] \in Rationals
          /\ Leq(limits[i], One) /\ Leq(limits[j], One)
      BY <1>4, <2>3, <3>1
    <3>3. Leq(Free(limits[j]), Free(limits[i]))
      BY <1>8, <3>1, <3>2, SharesAre
    <3> QED BY <3>2, <3>3, FreeIsAntitone
  <2> QED BY <2>1, <2>2, <2>3
<1>9. ASSUME NEW i \in 1 .. n PROVE Leq(Free(limits[i - 1]), Times(growth_factor, Free(limits[i])))
  <2>1. i - 1 \in 0 .. n /\ i - 1 # n /\ i \in 0 .. n /\ i \in Nat \ {0}
    BY <1>1, <1>9
  <2>2. Free(limits[i - 1]) = Times(growth_factor, Share(i))
    BY <1>4, <2>1, SharesAre
  <2>3. Leq(Share(i), Free(limits[i]))
    <3>1. CASE i = n
      BY <1>1, <1>5, <3>1
    <3>2. CASE i # n
      <4>1. Share(i) \in Rationals
        BY <2>1, SharesAre, DivisorsAre
      <4>2. Free(limits[i]) = Share(i)
        BY <1>4, <2>1, <3>2
      <4> QED BY <4>1, <4>2, LeqIsOrder
    <3> QED BY <3>1, <3>2
  <2>4. /\ growth_factor \in Rationals /\ Leq(growth_factor, growth_factor) /\ Free(limits[i]) \in Rationals
        /\ Share(i) \in Rationals
    BY <1>7, <2>1, SharesAre, FactorIs, DivisorsAre, LeqIsOrder
  <2> QED BY <2>2, <2>3, <2>4, TimesIsMonotone
<1> QED BY <1>1, <1>2, <1>5, <1>6, <1>7, <1>8, <1>9

\* Where a utilization is put: at most the upper limit of its bin, of which no less
\* is left than its share.
LEMMA BinIs ==
  ASSUME NEW percent \in 1 .. 99, NEW rho \in Rationals, Leq(rho, Fraction(percent, 100))
  PROVE  LET limits == bin_limits(percent)
             bin == bin_of(limits, rho)
             upper == bin_upper(limits, rho)
         IN /\ bin \in 1 .. interval_count(percent) /\ upper = limits[bin]
            /\ upper \in Rationals /\ Leq(rho, upper) /\ Leq(upper, Fraction(percent, 100))
            /\ Leq(upper, One) /\ Free(upper) \in Divisors
            /\ Leq(rho, One) /\ Free(rho) \in Divisors
            /\ Leq(Free(upper), Free(rho)) /\ Leq(Free(rho), Times(growth_factor, Free(upper)))
<1> PICK limits, n : limits = bin_limits(percent) /\ n = interval_count(percent)
  OBVIOUS
<1>1. n \in Nat \ {0} /\ DOMAIN limits = 0 .. n
  BY BinLimitsAre
<1>2. limits[0] = Zero /\ limits[n] = Fraction(percent, 100)
  BY BinLimitsAre
<1>3. \A i \in 0 .. n : limits[i] \in Rationals /\ Leq(limits[i], One)
                                 /\ Free(limits[i]) \in Divisors
  BY BinLimitsAre
<1>4. \A i, j \in 0 .. n : i <= j => Leq(limits[i], limits[j])
  BY BinLimitsAre
<1>5. \A i \in 1 .. n : Leq(Free(limits[i - 1]), Times(growth_factor, Free(limits[i])))
  BY BinLimitsAre
<1>a. PICK S : S = {i \in DOMAIN limits \ {0} : Leq(rho, limits[i])}
  OBVIOUS
<1>b. PICK bin : bin = bin_of(limits, rho)
  OBVIOUS
<1>6. bin \in S /\ \A i \in S : bin <= i
  <2>1. S \subseteq Nat
    BY <1>a, <1>1
  <2>2. n \in S
    BY <1>a, <1>1, <1>2
  <2>3. bin = Min(S)
    BY <1>a, <1>b DEF bin_of
  <2> QED BY <2>1, <2>2, <2>3, MinIsLeast
<1>7. bin \in 1 .. n /\ Leq(rho, limits[bin]) /\ bin \in 0 .. n /\ bin - 1 \in 0 .. n
  <2>1. bin \in 0 .. n /\ bin # 0 /\ Leq(rho, limits[bin])
    BY <1>1, <1>6, <1>a
  <2> QED BY <1>1, <2>1
<1> PICK upper : upper = limits[bin]
  OBVIOUS
<1>8. upper \in Rationals /\ Leq(upper, One) /\ Free(upper) \in Divisors /\ Leq(rho, upper)
  BY <1>3, <1>7
<1>9. Leq(upper, Fraction(percent, 100))
  <2>1. n \in 0 .. n /\ bin <= n
    BY <1>1, <1>7
  <2> QED BY <1>2, <1>4, <1>7, <2>1
<1>10. Leq(rho, One) /\ Leq(Free(upper), Free(rho))
  BY <1>8, FreeIsAntitone
<1>11. Free(rho) \in Rationals /\ Free(rho) \in Divisors
  <2>1. Free(rho) \in Rationals
    BY <1>10, FreeIs
  <2> QED BY <1>8, <1>10, <2>1, GreaterIsDivisor
<1>12. Leq(limits[bin - 1], rho)
  <2>1. CASE bin = 1
    BY <1>2, <2>1, LeqIsOrder
  <2>2. CASE bin # 1
    <3>1. bin - 1 \in 0 .. n /\ bin - 1 # 0 /\ bin - 1 \notin S
      <4>1. bin - 1 \in S => bin <= bin - 1
        BY <1>6
      <4> QED BY <1>1, <1>7, <2>2, <4>1
    <3>2. ~ Leq(rho, limits[bin - 1])
      BY <1>a, <1>1, <3>1
    <3> QED BY <1>3, <3>1, <3>2, LeqIsOrder
  <2> QED BY <2>1, <2>2
<1>13. Leq(Free(rho), Free(limits[bin - 1]))
  BY <1>3, <1>7, <1>10, <1>12, FreeIsAntitone
<1>14. Leq(Free(rho), Times(growth_factor, Free(upper)))
  <2>1. /\ Free(limits[bin - 1]) \in Rationals /\ Free(upper) \in Rationals
        /\ Times(growth_factor, Free(upper)) \in Rationals
    BY <1>3, <1>7, <1>8, DivisorsAre, FactorIs, TimesIsRational
  <2>2. Leq(Free(limits[bin - 1]), Times(growth_factor, Free(upper)))
    BY <1>5, <1>7
  <2> QED BY <1>11, <1>13, <2>1, <2>2, LeqIsTransitive
<1>15. bin_upper(limits, rho) = upper
  BY <1>b DEF bin_upper
<1> QED BY <1>7, <1>8, <1>9, <1>10, <1>11, <1>14, <1>15, <1>b

-----------------------------------------------------------------------------
(* Waiting times.                                                          *)

\* A number, what is promised for it, and the configured relative error.
IsClose(exact, promised) ==
  /\ exact \in Rationals /\ promised \in Rationals
  /\ Leq(exact, promised) /\ Leq(promised, Times(growth_factor, exact))

LEMMA ClosestIs ==
  ASSUME NEW x \in Rationals
  PROVE  IsClose(x, x)
<1>1. growth_factor \in Rationals /\ One \in Rationals /\ Leq(x, x)
  BY FactorIs, DivisorsAre, NumbersAre, LeqIsOrder
<1>2. Leq(One, growth_factor)
  BY FactorIs
<1>3. Leq(Times(One, x), Times(growth_factor, x))
  BY <1>1, <1>2, TimesIsMonotone
<1> QED BY <1>1, <1>3, TimesOne DEF IsClose

\* The components on a worker have times.
IsLoaded(timings, C) ==
  /\ IsFiniteSet(C)
  /\ \A s \in C : /\ timings[s[1]].utilization[s[2]] \in Rationals
                  /\ timings[s[1]].second_moment[s[2]] \in Rationals

LEMMA UtilizationOfPart ==
  ASSUME NEW timings, NEW C, IsLoaded(timings, C), NEW U \in SUBSET C, NEW T \in SUBSET U
  PROVE  /\ utilization(timings, T) \in Rationals /\ utilization(timings, U) \in Rationals
         /\ Leq(utilization(timings, T), utilization(timings, U))
<1>a. PICK f : f = [s \in T |-> timings[s[1]].utilization[s[2]]]
  OBVIOUS
<1>b. PICK g : g = [s \in U |-> timings[s[1]].utilization[s[2]]]
  OBVIOUS
<1>1. Totals(f)
  BY <1>a, FS_Subset DEF Totals, IsLoaded
<1>2. Totals(g)
  BY <1>b, FS_Subset DEF Totals, IsLoaded
<1>3. DOMAIN f \subseteq DOMAIN g /\ \A s \in DOMAIN f : Leq(f[s], g[s])
  <2>1. \A s \in DOMAIN f : f[s] = g[s] /\ f[s] \in Rationals
    BY <1>a, <1>b, <1>1 DEF Totals
  <2> QED BY <1>a, <1>b, <2>1, LeqIsOrder
<1>4. utilization(timings, T) = Total(f) /\ utilization(timings, U) = Total(g)
  BY <1>a, <1>b DEF utilization
<1> QED BY <1>1, <1>2, <1>3, <1>4, TotalIsRational, TotalRises

\* A worker's queue as it is, with any priorities of its components.
IsQueue(answers, timings, r, w, p) ==
  /\ IsLoaded(timings, components_on(answers, w))
  /\ compute_stability(answers, timings, w)
  /\ \A s \in components_on(answers, w) : r[s] \in Nat \ {0}
  /\ p \in Nat \ {0}

LEMMA QueueIs ==
  ASSUME NEW answers, NEW timings, NEW r, NEW w, NEW p, IsQueue(answers, timings, r, w, p)
  PROVE  LET higher == higher_priority_rho(answers, timings, r, w, p)
             equal == higher_equal_priority_rho(answers, timings, r, w, p)
         IN /\ second_moment(answers, timings, w) \in Rationals
            /\ higher \in Rationals /\ equal \in Rationals
            /\ Leq(higher, equal) /\ Leq(equal, Fraction(ComputeLimit, 100))
            /\ Leq(higher, Fraction(ComputeLimit, 100))
            /\ p = 1 => higher = Zero
<1>a. PICK C : C = components_on(answers, w)
  OBVIOUS
<1>b. PICK T : T = {s \in C : r[s] < p}
  OBVIOUS
<1>c. PICK U : U = {s \in C : r[s] <= p}
  OBVIOUS
<1>1. IsLoaded(timings, C) /\ \A s \in C : r[s] \in Nat \ {0}
  BY <1>a DEF IsQueue
<1>2. U \in SUBSET C /\ C \in SUBSET C /\ T \in SUBSET U
  BY <1>b, <1>c, <1>1 DEF IsQueue
<1>3. PICK higher, equal : /\ higher = higher_priority_rho(answers, timings, r, w, p)
                           /\ equal = higher_equal_priority_rho(answers, timings, r, w, p)
  OBVIOUS
<1>4. higher = utilization(timings, T) /\ equal = utilization(timings, U)
  BY <1>3, <1>a, <1>b, <1>c DEF higher_priority_rho, higher_equal_priority_rho
<1>5. higher \in Rationals /\ equal \in Rationals /\ Leq(higher, equal)
  BY <1>1, <1>2, <1>4, UtilizationOfPart
<1>6. utilization(timings, C) \in Rationals /\ Leq(equal, utilization(timings, C))
  BY <1>1, <1>2, <1>4, UtilizationOfPart
<1>7. Leq(utilization(timings, C), Fraction(ComputeLimit, 100))
  BY <1>a DEF IsQueue, compute_stability
<1>8. Fraction(ComputeLimit, 100) \in Rationals
  BY LimitIs, ProblemConfigAssumption
<1>9. Leq(equal, Fraction(ComputeLimit, 100)) /\ Leq(higher, Fraction(ComputeLimit, 100))
  BY <1>5, <1>6, <1>7, <1>8, LeqIsTransitive
<1>10. ASSUME p = 1 PROVE higher = Zero
  <2>1. T = {}
    BY <1>b, <1>1, <1>10
  <2>2. DOMAIN [s \in T |-> timings[s[1]].utilization[s[2]]] = {}
    BY <2>1
  <2> QED BY <1>4, <2>2, TotalOfNone DEF utilization
<1>11. second_moment(answers, timings, w) \in Rationals
  <2>a. PICK f : f = [s \in C |-> timings[s[1]].second_moment[s[2]]]
    OBVIOUS
  <2>1. Totals(f)
    BY <1>1, <2>a DEF Totals, IsLoaded
  <2>2. second_moment(answers, timings, w) = Total(f)
    BY <1>a, <2>a DEF second_moment
  <2> QED BY <2>1, <2>2, TotalIsRational
<1> QED BY <1>3, <1>5, <1>9, <1>10, <1>11

Twofold == <<2, 1>>

LEMMA TwofoldIs == Twofold \in Divisors
<1>1. 2 \in Positive /\ 1 \in Positive
  BY DEF Positive
<1>2. Twofold = Fraction(2, 1)
  BY WholeIs DEF Twofold
<1> QED BY <1>1, <1>2, DivisorsAre

\* The wait that is promised, in terms of the utilizations.
LEMMA WaitIs ==
  ASSUME NEW answers, NEW timings, NEW r, NEW w, NEW p, IsQueue(answers, timings, r, w, p),
         NEW E, E = second_moment(answers, timings, w),
         NEW higher, higher = higher_priority_rho(answers, timings, r, w, p),
         NEW equal, equal = higher_equal_priority_rho(answers, timings, r, w, p)
  PROVE  LET upper == bin_upper(compute_bin_limits, higher)
             weighted == Over(E, Times(Twofold, Free(equal)))
         IN /\ weighted \in Rationals /\ Free(equal) \in Divisors
            /\ Times(Twofold, Free(equal)) \in Divisors
            /\ p = 1 => queue_wait(answers, timings, r, w, p) = weighted
            /\ p # 1 => queue_wait(answers, timings, r, w, p) = Over(weighted, Free(upper))
<1> PICK upper : upper = bin_upper(compute_bin_limits, higher)
  OBVIOUS
<1>a. PICK weighted : weighted = Over(E, Times(Twofold, Free(equal)))
  OBVIOUS
<1>1. E \in Rationals /\ equal \in Rationals /\ Leq(equal, Fraction(ComputeLimit, 100))
  BY QueueIs
<1>2. Free(equal) \in Divisors
  BY <1>1, BinIs, ProblemConfigAssumption
<1>3. Times(Twofold, Free(equal)) \in Divisors
  BY <1>2, TwofoldIs, TimesIsDivisor
<1>4. weighted \in Rationals
  BY <1>a, <1>1, <1>3, OverIsRational
<1>5. weighted_queue_wait(answers, timings, r, w, p) = weighted
  BY <1>a, Zenon DEF weighted_queue_wait, remaining_compute_capacity, Free, Twofold
<1>6. queue_wait(answers, timings, r, w, p) = IF p = 1 THEN weighted ELSE Over(weighted, Free(upper))
  BY <1>5, Zenon DEF queue_wait, Free
<1> QED BY <1>a, <1>2, <1>3, <1>4, <1>6

\* The wait that is promised is that of the queue, up to the relative error.
LEMMA WaitIsClose ==
  ASSUME NEW answers, NEW timings, NEW r, NEW w, NEW p, IsQueue(answers, timings, r, w, p)
  PROVE  IsClose(Over(second_moment(answers, timings, w),
                      Times(<<2, 1>>,
                            Times(Minus(One, higher_priority_rho(answers, timings, r, w, p)),
                                  Minus(One, higher_equal_priority_rho(answers, timings, r, w, p))))),
                 queue_wait(answers, timings, r, w, p))
<1>a. PICK E, higher, equal : /\ E = second_moment(answers, timings, w)
                              /\ higher = higher_priority_rho(answers, timings, r, w, p)
                              /\ equal = higher_equal_priority_rho(answers, timings, r, w, p)
  OBVIOUS
<1>b. PICK upper : upper = bin_upper(compute_bin_limits, higher)
  OBVIOUS
<1>c. PICK weighted : weighted = Over(E, Times(Twofold, Free(equal)))
  OBVIOUS
<1>d. PICK exact : exact = Over(E, Times(Twofold, Times(Free(higher), Free(equal))))
  OBVIOUS
<1>e. PICK wait : wait = queue_wait(answers, timings, r, w, p)
  OBVIOUS
<1>1. /\ E \in Rationals /\ higher \in Rationals /\ Leq(higher, Fraction(ComputeLimit, 100))
      /\ p = 1 => higher = Zero
  BY <1>a, QueueIs
<1>2. /\ weighted \in Rationals /\ Free(equal) \in Divisors /\ Times(Twofold, Free(equal)) \in Divisors
      /\ p = 1 => wait = weighted
      /\ p # 1 => wait = Over(weighted, Free(upper))
  BY <1>a, <1>b, <1>c, <1>e, WaitIs
<1>3. /\ Free(upper) \in Divisors /\ Free(higher) \in Divisors /\ Leq(Free(upper), Free(higher))
      /\ Leq(Free(higher), Times(growth_factor, Free(upper)))
  BY <1>b, <1>1, BinIs, ProblemConfigAssumption DEF compute_bin_limits
<1>4. exact = Over(weighted, Free(higher))
  <2> PICK x, y : x = Free(higher) /\ y = Free(equal)
    OBVIOUS
  <2>1. x \in Divisors /\ y \in Divisors /\ x \in Rationals /\ y \in Rationals /\ Twofold \in Rationals
        /\ Times(Twofold, y) \in Divisors
    BY <1>2, <1>3, TwofoldIs, DivisorsAre
  <2>2. Times(Twofold, Times(x, y)) = Times(Times(Twofold, y), x)
    <3>1. Times(x, y) = Times(y, x)
      BY <2>1, TimesCommutes
    <3> QED BY <2>1, <3>1, TimesAssociates
  <2>3. Over(Over(E, Times(Twofold, y)), x) = Over(E, Times(Times(Twofold, y), x))
    BY <1>1, <2>1, OverOver
  <2> QED BY <1>c, <1>d, <2>2, <2>3
<1>5. IsClose(exact, wait)
  <2>1. CASE p = 1
    <3>1. Free(higher) = One
      <4>1. Free(Zero) = One
        BY FreeZero
      <4> QED BY <1>1, <2>1, <4>1
    <3>2. Over(weighted, One) = weighted
      <4>1. One \in Divisors
        BY DivisorsAre
      <4>2. Over(Times(weighted, One), One) = weighted /\ Times(weighted, One) = weighted
        BY <1>2, <4>1, OverTimes, TimesOne
      <4> QED BY <4>2
    <3> QED BY <1>2, <1>4, <2>1, <3>1, <3>2, ClosestIs
  <2>2. CASE p # 1
    <3>1. wait = Over(weighted, Free(upper))
      BY <1>2, <2>2
    <3>2. exact \in Rationals /\ wait \in Rationals
      BY <1>2, <1>3, <1>4, <3>1, OverIsRational
    <3>3. Leq(exact, wait) /\ Leq(wait, Times(growth_factor, exact))
      BY <1>2, <1>3, <1>4, <3>1, QuotientsAreClose, FactorIs
    <3> QED BY <3>2, <3>3 DEF IsClose
  <2> QED BY <2>1, <2>2
<1> QED BY <1>5, <1>a, <1>d, <1>e DEF Free, Twofold

\* The bounds of the problem for the waits, of which "most" is what the second
\* moment is at most.
LEMMA WaitIsBounded ==
  ASSUME NEW answers, NEW timings, NEW r, NEW w, NEW p, IsQueue(answers, timings, r, w, p),
         NEW most \in Rationals, Leq(second_moment(answers, timings, w), most),
         NEW free, free = Minus(One, Fraction(ComputeLimit, 100)),
         NEW worst, worst = Over(most, Times(<<2, 1>>, Times(free, free)))
  PROVE  /\ Leq(queue_wait(answers, timings, r, w, p),
                queue_wait_bound(worst, answers, timings, r, w, p))
         /\ Leq(queue_wait(answers, timings, r, w, p), worst)
<1>a. PICK E, higher, equal : /\ E = second_moment(answers, timings, w)
                              /\ higher = higher_priority_rho(answers, timings, r, w, p)
                              /\ equal = higher_equal_priority_rho(answers, timings, r, w, p)
  OBVIOUS
<1>b. PICK upper : upper = bin_upper(compute_bin_limits, higher)
  OBVIOUS
<1>c. PICK weighted : weighted = Over(E, Times(Twofold, Free(equal)))
  OBVIOUS
<1>e. PICK wait : wait = queue_wait(answers, timings, r, w, p)
  OBVIOUS
<1> PICK limit : limit = Fraction(ComputeLimit, 100)
  OBVIOUS
<1>0. limit \in Rationals /\ Leq(limit, One) /\ free \in Divisors /\ free \in Rationals
      /\ Leq(free, One) /\ free = Free(limit)
  <2>1. free = Free(limit)
    BY DEF Free
  <2>2. limit \in Rationals /\ Leq(limit, One) /\ Free(limit) \in Divisors
    BY LimitIs, ProblemConfigAssumption
  <2>3. Leq(Free(limit), One)
    BY <2>2, FreeIs
  <2> QED BY <2>1, <2>2, <2>3, DivisorsAre
<1>1. /\ E \in Rationals /\ higher \in Rationals /\ equal \in Rationals
      /\ Leq(higher, limit) /\ Leq(equal, limit)
  BY <1>a, QueueIs
<1>2. /\ weighted \in Rationals /\ Free(equal) \in Divisors /\ Times(Twofold, Free(equal)) \in Divisors
      /\ p = 1 => wait = weighted
      /\ p # 1 => wait = Over(weighted, Free(upper))
  BY <1>a, <1>b, <1>c, <1>e, WaitIs
<1>3. upper \in Rationals /\ Free(upper) \in Divisors /\ Leq(upper, limit)
  BY <1>b, <1>1, BinIs, ProblemConfigAssumption DEF compute_bin_limits
<1>d. PICK bound : bound = Over(most, Times(Twofold, free))
  OBVIOUS
<1>4. /\ Twofold \in Divisors /\ Twofold \in Rationals /\ Times(Twofold, free) \in Divisors
      /\ Times(Twofold, free) \in Rationals /\ bound \in Rationals
  BY <1>0, <1>d, TwofoldIs, DivisorsAre, TimesIsDivisor, OverIsRational
<1>5. worst \in Rationals /\ worst = Over(bound, free) /\ Times(worst, free) = bound
  <2>1. Times(Twofold, Times(free, free)) = Times(Times(Twofold, free), free)
    BY <1>0, <1>4, TimesAssociates
  <2>2. Over(bound, free) = Over(most, Times(Times(Twofold, free), free))
    BY <1>0, <1>4, <1>d, OverOver
  <2>3. worst = Over(bound, free)
    BY <2>1, <2>2 DEF Twofold
  <2> QED BY <1>0, <1>4, <2>3, OverTimes, OverIsRational
<1>6. Leq(free, Free(equal)) /\ Leq(free, Free(upper))
  BY <1>0, <1>1, <1>3, FreeIsAntitone
<1>7. Leq(weighted, bound)
  <2>1. Leq(Times(Twofold, free), Times(Twofold, Free(equal)))
    BY <1>0, <1>2, <1>4, <1>6, DivisorsAre, LeqIsOrder, TimesIsMonotone
  <2> QED BY <1>1, <1>2, <1>4, <1>a, <1>c, <1>d, <2>1, OverIsMonotone
<1>8. queue_wait_bound(worst, answers, timings, r, w, p)
        = IF p = 1 THEN bound ELSE Over(bound, Free(upper))
  BY <1>5, <1>a, <1>b, Zenon DEF queue_wait_bound, Free
<1>9. Leq(bound, worst)
  <2>1. Leq(Times(worst, free), Times(worst, One))
    BY <1>0, <1>5, LeqIsOrder, TimesIsMonotone, NumbersAre
  <2> QED BY <1>5, <2>1, TimesOne
<1>10. CASE p = 1
  <2>1. wait = weighted /\ queue_wait_bound(worst, answers, timings, r, w, p) = bound
    BY <1>2, <1>8, <1>10
  <2>2. Leq(weighted, worst)
    BY <1>2, <1>4, <1>5, <1>7, <1>9, LeqIsTransitive
  <2> QED BY <1>e, <1>7, <2>1, <2>2
<1>11. CASE p # 1
  <2>1. wait = Over(weighted, Free(upper))
        /\ queue_wait_bound(worst, answers, timings, r, w, p) = Over(bound, Free(upper))
    BY <1>2, <1>8, <1>11
  <2>2. Leq(Free(upper), Free(upper)) /\ Leq(bound, bound)
    BY <1>3, <1>4, DivisorsAre, LeqIsOrder
  <2>3. Leq(Over(weighted, Free(upper)), Over(bound, Free(upper)))
    BY <1>2, <1>3, <1>4, <1>7, <2>2, OverIsMonotone
  <2>4. Leq(Over(bound, Free(upper)), worst)
    BY <1>0, <1>3, <1>4, <1>5, <1>6, <2>2, OverIsMonotone
  <2>5. Over(weighted, Free(upper)) \in Rationals /\ Over(bound, Free(upper)) \in Rationals
    BY <1>2, <1>3, <1>4, OverIsRational
  <2>6. Leq(Over(weighted, Free(upper)), worst)
    BY <1>5, <2>3, <2>4, <2>5, LeqIsTransitive
  <2> QED BY <1>e, <2>1, <2>3, <2>6
<1> QED BY <1>10, <1>11

-----------------------------------------------------------------------------
(* Transmissions.                                                          *)

LEMMA TransmissionIsClose ==
  ASSUME NEW nominal \in Rationals, NEW most \in Rationals, Leq(nominal, most),
         NEW rho \in Rationals, Leq(rho, Fraction(NetworkLimit, 100)),
         NEW bin, bin = bin_of(network_bin_limits, rho)
  PROVE  IsClose(Over(nominal, Minus(One, rho)), projected_ps_epigraph(nominal, most, bin))
<1>a. PICK limits, n : limits = network_bin_limits /\ n = interval_count(NetworkLimit)
  OBVIOUS
<1>n. limits = bin_limits(NetworkLimit) /\ NetworkLimit \in 1 .. 99
  BY <1>a, ProblemConfigAssumption DEF network_bin_limits
<1>1. n \in Nat \ {0} /\ DOMAIN limits = 0 .. n
  BY <1>a, <1>n, BinLimitsAre
<1>2. \A i \in 0 .. n : limits[i] \in Rationals /\ Leq(limits[i], One) /\ Free(limits[i]) \in Divisors
  BY <1>a, <1>n, BinLimitsAre
<1>3. \A i, j \in 0 .. n : i <= j => Leq(limits[i], limits[j])
  BY <1>a, <1>n, BinLimitsAre
<1> PICK upper : upper = bin_upper(limits, rho)
  OBVIOUS
<1>4. /\ bin \in 1 .. n /\ upper = limits[bin]
      /\ Free(upper) \in Divisors /\ Free(rho) \in Divisors
      /\ Leq(Free(upper), Free(rho)) /\ Leq(Free(rho), Times(growth_factor, Free(upper)))
  BY <1>a, <1>n, BinIs
<1>5. ASSUME NEW i \in 0 .. n
      PROVE  /\ multiplier(i) = Over(One, Free(limits[i])) /\ multiplier(i) \in Rationals
             /\ Times(multiplier(i), nominal) = Over(nominal, Free(limits[i]))
             /\ Times(multiplier(i), nominal) \in Rationals
  <2>1. multiplier(i) = Over(One, Free(limits[i]))
    BY <1>a DEF multiplier, Free
  <2>2. multiplier(i) \in Rationals
    BY <1>2, <2>1, OverIsRational, NumbersAre
  <2>3. Times(nominal, Over(One, Free(limits[i]))) = Over(Times(nominal, One), Free(limits[i]))
    BY <1>2, TimesOver, NumbersAre
  <2>4. Times(multiplier(i), nominal) = Times(nominal, multiplier(i))
    BY <2>2, TimesCommutes
  <2> QED BY <2>1, <2>2, <2>3, <2>4, TimesOne, TimesIsRational
<1>6. ASSUME NEW i \in 0 .. n, NEW j \in 0 .. n, i <= j
      PROVE  Leq(multiplier(i), multiplier(j))
  <2>1. Leq(Free(limits[j]), Free(limits[i]))
    BY <1>2, <1>3, <1>6, FreeIsAntitone
  <2> QED BY <1>2, <1>5, <2>1, OverIsMonotone, NumbersAre, LeqIsOrder
<1> DEFINE relaxed(i) == Times(most, Minus(multiplier(i), multiplier(bin)))
           bound(i) == Times(multiplier(i), nominal)
           least(i) == Least(bound(i), relaxed(i))
<1>b. PICK x : x = bound(bin)
  OBVIOUS
<1>7. ASSUME NEW i \in 1 .. bin PROVE bound(i) \in Rationals /\ Leq(bound(i), x)
  <2>1. i \in 0 .. n /\ bin \in 0 .. n /\ i <= bin
    BY <1>1, <1>4, <1>7
  <2>2. Leq(multiplier(i), multiplier(bin)) /\ Leq(nominal, nominal)
    BY <1>6, <2>1, LeqIsOrder
  <2> QED BY <1>5, <1>b, <2>1, <2>2, TimesIsMonotone
<1>8. ASSUME NEW i \in bin + 1 .. n
      PROVE  Minus(bound(i), least(i)) \in Rationals /\ Leq(Minus(bound(i), least(i)), x)
  <2>1. i \in 0 .. n /\ bin \in 0 .. n /\ bin <= i
    BY <1>1, <1>4, <1>8
  <2>a. PICK m, k, b, q : m = multiplier(i) /\ k = multiplier(bin) /\ b = bound(i) /\ q = relaxed(i)
    OBVIOUS
  <2>2. /\ m \in Rationals /\ k \in Rationals /\ Leq(k, m)
        /\ b = Times(m, nominal) /\ x = Times(k, nominal) /\ b \in Rationals /\ x \in Rationals
    BY <1>5, <1>6, <1>b, <2>1, <2>a
  <2>b. PICK d : d = Minus(m, k)
    OBVIOUS
  <2>3. d \in Rationals /\ Plus(d, k) = m
    BY <2>2, <2>b, MinusPlus
  <2>4. q = Times(most, d) /\ q \in Rationals
    BY <2>3, <2>a, <2>b, TimesIsRational
  <2>5. Leq(b, Plus(x, q))
    <3>1. Times(nominal, Plus(d, k)) = Plus(Times(nominal, d), Times(nominal, k))
      BY <2>2, <2>3, TimesDistributes
    <3>2. Times(nominal, Plus(d, k)) = b /\ Times(nominal, k) = x
      BY <2>2, <2>3, TimesCommutes
    <3>3. Leq(Times(nominal, d), q) /\ Times(nominal, d) \in Rationals
      BY <2>3, <2>4, LeqIsOrder, TimesIsMonotone, TimesIsRational
    <3>4. Leq(Plus(Times(nominal, d), x), Plus(q, x))
      BY <2>2, <2>4, <3>3, LeqIsOrder, PlusIsMonotone
    <3>5. Plus(q, x) = Plus(x, q)
      BY <2>2, <2>4, PlusCommutes
    <3> QED BY <3>1, <3>2, <3>4, <3>5
  <2>6. least(i) = IF Leq(b, q) THEN b ELSE q
    BY <2>a DEF Least
  <2>7. CASE Leq(b, q)
    <3>1. least(i) = b
      BY <2>6, <2>7
    <3>2. Minus(b, b) \in Rationals /\ Plus(Minus(b, b), b) = b
      BY <2>2, LeqIsOrder, MinusPlus
    <3>3. Leq(Minus(b, b), x)
      <4>1. Leq(Plus(Minus(b, b), b), Plus(x, b))
        <5>1. Leq(Zero, x) /\ Leq(b, b)
          BY <2>2, LeqIsOrder
        <5>2. Leq(Plus(Zero, b), Plus(x, b))
          BY <2>2, <5>1, PlusIsMonotone, NumbersAre
        <5>3. Plus(Zero, b) = b
          BY <2>2, PlusZero
        <5> QED BY <3>2, <5>2, <5>3
      <4> QED BY <2>2, <3>2, <4>1, PlusCancels
    <3> QED BY <2>a, <3>1, <3>2, <3>3
  <2>8. CASE ~ Leq(b, q)
    <3>1. least(i) = q /\ Leq(q, b)
      BY <2>2, <2>4, <2>6, <2>8, LeqIsOrder
    <3>2. Minus(b, q) \in Rationals /\ Plus(Minus(b, q), q) = b
      BY <2>2, <2>4, <3>1, MinusPlus
    <3>3. Leq(Plus(Minus(b, q), q), Plus(x, q))
      BY <2>5, <3>2
    <3>4. Leq(Minus(b, q), x)
      BY <2>2, <2>4, <3>2, <3>3, PlusCancels
    <3> QED BY <2>a, <3>1, <3>2, <3>4
  <2> QED BY <2>7, <2>8
<1>c. PICK B : B = {bound(i) : i \in 1 .. bin} \cup {Minus(bound(i), least(i)) : i \in bin + 1 .. n}
  OBVIOUS
<1>9. projected_ps_epigraph(nominal, most, bin) = Greatest(B)
  <2>1. Max(DOMAIN network_bin_limits) = n
    <3>1. Max(0 .. n) \in 0 .. n /\ \A j \in 0 .. n : j <= Max(0 .. n)
      <4>1. n \in Nat
        BY <1>1
      <4>2. 0 \in 0 .. n
        BY <4>1
      <4>3. 0 .. n \subseteq Nat
        OBVIOUS
      <4>4. \A j \in 0 .. n : j <= n
        BY <4>1
      <4>5. 0 .. n # {}
        BY <4>2
      <4> QED BY <4>1, <4>3, <4>4, <4>5, MaxIsGreatest
    <3> QED BY <1>a, <1>1, <3>1
  <2> QED BY <1>c, <2>1, Zenon DEF projected_ps_epigraph
<1>10. x \in B /\ x \in Rationals /\ \A y \in B : y \in Rationals /\ Leq(y, x)
  <2>1. bin \in 1 .. bin
    BY <1>1, <1>4
  <2> HIDE DEF bound, least
  <2> QED BY <1>b, <1>c, <1>7, <1>8, <2>1
<1>11. Greatest(B) = x
  <2>1. Greatest(B) \in B /\ Leq(x, Greatest(B))
    BY <1>10, Zenon DEF Greatest
  <2> QED BY <1>10, <2>1, LeqIsOrder
<1>12. x = Over(nominal, Free(upper))
  <2>1. bin \in 0 .. n
    BY <1>1, <1>4
  <2> QED BY <1>b, <1>4, <1>5, <2>1
<1>13. IsClose(Over(nominal, Free(rho)), Over(nominal, Free(upper)))
  <2>1. Over(nominal, Free(rho)) \in Rationals /\ Over(nominal, Free(upper)) \in Rationals
    BY <1>4, OverIsRational
  <2>2. /\ Leq(Over(nominal, Free(rho)), Over(nominal, Free(upper)))
        /\ Leq(Over(nominal, Free(upper)), Times(growth_factor, Over(nominal, Free(rho))))
    BY <1>4, QuotientsAreClose, FactorIs
  <2> QED BY <2>1, <2>2 DEF IsClose
<1> QED BY <1>9, <1>11, <1>12, <1>13 DEF Free

-----------------------------------------------------------------------------
(* Response times.                                                         *)

LEMMA PlusIsClose ==
  ASSUME NEW x, NEW y, IsClose(x, y), NEW u, NEW v, IsClose(u, v)
  PROVE  IsClose(Plus(x, u), Plus(y, v))
<1>1. /\ x \in Rationals /\ y \in Rationals /\ u \in Rationals /\ v \in Rationals
      /\ Leq(x, y) /\ Leq(u, v) /\ Leq(y, Times(growth_factor, x)) /\ Leq(v, Times(growth_factor, u))
  BY DEF IsClose
<1>2. /\ growth_factor \in Rationals /\ Times(growth_factor, x) \in Rationals /\ Times(growth_factor, u) \in Rationals
      /\ Plus(x, u) \in Rationals /\ Plus(y, v) \in Rationals
  BY <1>1, FactorIs, DivisorsAre, TimesIsRational, PlusIsRational
<1>3. Leq(Plus(x, u), Plus(y, v))
  BY <1>1, PlusIsMonotone
<1>4. Leq(Plus(y, v), Plus(Times(growth_factor, x), Times(growth_factor, u)))
  BY <1>1, <1>2, PlusIsMonotone
<1>5. Times(growth_factor, Plus(x, u)) = Plus(Times(growth_factor, x), Times(growth_factor, u))
  BY <1>1, <1>2, TimesDistributes
<1> QED BY <1>2, <1>3, <1>4, <1>5 DEF IsClose

LEMMA TotalIsClose ==
  ASSUME NEW f, IsFiniteSet(DOMAIN f), NEW g, DOMAIN g = DOMAIN f,
         \A x \in DOMAIN f : IsClose(f[x], g[x])
  PROVE  IsClose(Total(f), Total(g))
<1>1. Totals(f) /\ Totals(g)
  BY DEF Totals, IsClose
<1>2. \A x \in DOMAIN f : Leq(f[x], g[x]) /\ Leq(g[x], Times(growth_factor, f[x]))
  BY DEF IsClose
<1>3. Total(f) \in Rationals /\ Total(g) \in Rationals
  BY <1>1, TotalIsRational
<1>4. Leq(Total(f), Total(g))
  BY <1>1, <1>2, TotalRises
<1>a. PICK h : h = [x \in DOMAIN f |-> Times(growth_factor, f[x])]
  OBVIOUS
<1>5. Totals(h) /\ Total(h) = Times(growth_factor, Total(f))
  <2>1. growth_factor \in Rationals
    BY FactorIs, DivisorsAre
  <2> QED BY <1>1, <1>a, <2>1, TotalScales
<1>6. Leq(Total(g), Total(h))
  <2>1. DOMAIN g \subseteq DOMAIN h /\ \A x \in DOMAIN g : Leq(g[x], h[x])
    BY <1>2, <1>a
  <2> QED BY <1>1, <1>5, <2>1, TotalRises
<1> QED BY <1>3, <1>4, <1>5, <1>6 DEF IsClose

LEMMA GreatestIs ==
  ASSUME NEW S, IsFiniteSet(S), S \subseteq Rationals, S # {}
  PROVE  Greatest(S) \in S /\ \A x \in S : Leq(x, Greatest(S))
<1> PICK P : P = {T \in SUBSET S : T # {} => \E x \in T : \A y \in T : Leq(y, x)}
  OBVIOUS
<1>1. {} \in P
  OBVIOUS
<1>2. ASSUME NEW U \in SUBSET S, U # {}, \A x \in U : U \ {x} \in P
      PROVE  \E x \in U : \A y \in U : Leq(y, x)
  <2>1. PICK x \in U : TRUE
    BY <1>2
  <2>2. PICK T : T = U \ {x}
    OBVIOUS
  <2>3. T \in P /\ T \subseteq Rationals /\ x \in Rationals /\ Leq(x, x) /\ U = T \cup {x}
    <3>1. x \in Rationals
      BY <2>1
    <3> QED BY <1>2, <2>2, <3>1, LeqIsOrder
  <2>4. CASE T = {}
    BY <2>3, <2>4
  <2>5. CASE T # {}
    <3>1. PICK y \in T : \A z \in T : Leq(z, y)
      BY <2>3, <2>5
    <3>2. CASE Leq(x, y)
      BY <2>3, <3>1, <3>2
    <3>3. CASE ~ Leq(x, y)
      <4>1. y \in Rationals /\ Leq(y, x)
        BY <2>3, <3>1, <3>3, LeqIsOrder
      <4>2. \A z \in T : Leq(z, x)
        BY <2>3, <3>1, <4>1, LeqIsTransitive
      <4> QED BY <2>3, <4>2
    <3> QED BY <3>2, <3>3
  <2> QED BY <2>4, <2>5
<1>3. IsInductive(P, S)
  BY <1>1, <1>2 DEF IsInductive
<1>4. S \in P
  BY <1>3, ByElement
<1>5. \E x \in S : \A y \in S : Leq(y, x)
  BY <1>4
<1> QED BY <1>5, Zenon DEF Greatest

LEMMA LeastIs ==
  ASSUME NEW x \in Rationals, NEW y \in Rationals
  PROVE  /\ Least(x, y) \in Rationals
         /\ \A z : Leq(z, x) /\ Leq(z, y) => Leq(z, Least(x, y))
BY DEF Least

\* Disjoint sets count at most what a set that holds them does.
LEMMA SumOfDisjoint ==
  ASSUME NEW A, NEW B, NEW h, Counts(h, A \cup B), A \cap B = {}
  PROVE  SumOver(h, A) + SumOver(h, B) <= SumOver(h, A \cup B)
<1> PICK P : P = {s \in SUBSET A : SumOver(h, s) + SumOver(h, B) <= SumOver(h, s \cup B)}
  OBVIOUS
<1>0. Counts(h, A) /\ Counts(h, B)
  BY CountsOfPart
<1>b. SumOver(h, B) \in Nat
  BY <1>0, SumIsNatural
<1>1. {} \in P
  <2>1. SumOver(h, {}) = 0 /\ {} \cup B = B
    BY SumOfNone
  <2> QED BY <1>b, <2>1
<1>2. ASSUME NEW s \in SUBSET A, s # {}, \A x \in s : s \ {x} \in P PROVE s \in P
  <2>1. PICK x \in s : TRUE
    BY <1>2
  <2> PICK u : u = s \cup B
    OBVIOUS
  <2> PICK least : least = s \ {x}
    OBVIOUS
  <2>2. Counts(h, s) /\ Counts(h, u) /\ Counts(h, u \ {x}) /\ Counts(h, least)
    BY CountsOfPart
  <2>3. SumOver(h, s) = h[x] + SumOver(h, least) /\ h[x] \in Nat
    BY <2>2, SumTakesOut DEF Counts
  <2>4. SumOver(h, u) = h[x] + SumOver(h, u \ {x})
    BY <2>2, SumTakesOut
  <2>5. SumOver(h, u \ {x}) \in Nat /\ SumOver(h, least) \in Nat /\ SumOver(h, u) \in Nat
    BY <2>2, SumIsNatural
  <2>6. SumOver(h, least) + SumOver(h, B) <= SumOver(h, least \cup B)
    BY <1>2
  <2>7. least \cup B = u \ {x}
    <3>1. x \notin B
      BY <2>1
    <3> QED BY <3>1
  <2> QED BY <1>b, <2>3, <2>4, <2>5, <2>6, <2>7
<1>3. IsInductive(P, A)
  BY <1>1, <1>2 DEF IsInductive
<1> QED BY <1>0, <1>3, ByElement DEF Counts

LEMMA SumOfParts ==
  ASSUME NEW K, IsFiniteSet(K), NEW S, NEW h, Counts(h, S), NEW sets,
         \A k \in K : sets[k] \subseteq S,
         \A j, k \in K : j # k => sets[j] \cap sets[k] = {},
         NEW sums, \A k \in K : sums[k] = SumOver(h, sets[k])
  PROVE  Counts(sums, K) /\ SumOver(sums, K) <= SumOver(h, S)
<1> DEFINE all(s) == UNION {sets[k] : k \in s}
<1>0. Counts(sums, K)
  BY CountsOfPart, SumIsNatural DEF Counts
<1>p. \A s \in SUBSET K : Counts(h, all(s)) /\ all(s) \in SUBSET S
  <2> SUFFICES ASSUME NEW s \in SUBSET K PROVE Counts(h, all(s)) /\ all(s) \in SUBSET S
    OBVIOUS
  <2>1. all(s) \in SUBSET S
    OBVIOUS
  <2> QED BY <2>1, CountsOfPart
<1> PICK P : P = {s \in SUBSET K : SumOver(sums, s) <= SumOver(h, all(s))}
  OBVIOUS
<1>1. {} \in P
  <2>1. SumOver(h, {}) = 0 /\ SumOver(sums, {}) = 0 /\ all({}) = {}
    BY SumOfNone
  <2>2. SumOver(sums, {}) <= SumOver(h, all({}))
    BY <2>1
  <2> HIDE DEF all
  <2> QED BY <2>2
<1>2. ASSUME NEW s \in SUBSET K, s # {}, \A x \in s : s \ {x} \in P PROVE s \in P
  <2>1. PICK x \in s : TRUE
    BY <1>2
  <2> PICK own : own = sets[x]
    OBVIOUS
  <2> PICK rest : rest = all(s \ {x})
    OBVIOUS
  <2>2. all(s) = own \cup rest /\ own \cap rest = {}
    <3>1. \A k \in s \ {x} : sets[k] \cap own = {}
      OBVIOUS
    <3> QED BY <3>1
  <2>3. SumOver(sums, s \ {x}) <= SumOver(h, rest)
    BY <1>2
  <2>4. sums[x] = SumOver(h, own) /\ own \subseteq S
    OBVIOUS
  <2>5. Counts(h, own \cup rest) /\ Counts(h, own) /\ Counts(h, rest)
    <3>1. Counts(h, all(s))
      BY <1>p
    <3> HIDE DEF all
    <3>2. Counts(h, own \cup rest)
      BY <2>2, <3>1
    <3>3. own \in SUBSET (own \cup rest) /\ rest \in SUBSET (own \cup rest)
      OBVIOUS
    <3>4. Counts(h, own)
      BY <3>2, <3>3, CountsOfPart
    <3>5. Counts(h, rest)
      BY <3>2, <3>3, CountsOfPart
    <3> QED BY <3>2, <3>4, <3>5
  <2> HIDE DEF all
  <2>6. SumOver(h, own) + SumOver(h, rest) <= SumOver(h, own \cup rest)
    BY <2>2, <2>5, SumOfDisjoint
  <2>7. SumOver(sums, s) = sums[x] + SumOver(sums, s \ {x}) /\ Counts(sums, s \ {x})
    BY <1>0, CountsOfPart, SumTakesOut
  <2>8. /\ SumOver(h, own) \in Nat /\ SumOver(h, rest) \in Nat
        /\ SumOver(h, own \cup rest) \in Nat /\ SumOver(sums, s \ {x}) \in Nat
    BY <2>5, <2>7, SumIsNatural
  <2>9. SumOver(sums, s) <= SumOver(h, own \cup rest)
    BY <2>3, <2>4, <2>6, <2>7, <2>8
  <2> QED BY <2>2, <2>9
<1>3. IsInductive(P, K)
  <2> HIDE DEF all
  <2> QED BY <1>1, <1>2 DEF IsInductive
<1>4. SumOver(sums, K) <= SumOver(h, all(K))
  <2> HIDE DEF all
  <2>1. K \in P
    BY <1>3, ByElement
  <2> QED BY <2>1
<1>5. SumOver(h, all(K)) <= SumOver(h, S)
  <2>1. all(K) \in SUBSET S
    BY <1>p
  <2> HIDE DEF all
  <2> QED BY <2>1, SumOfPart
<1> HIDE DEF all
<1>6. SumOver(sums, K) \in Nat /\ SumOver(h, all(K)) \in Nat /\ SumOver(h, S) \in Nat
  BY <1>0, <1>p, SumIsNatural
<1> QED BY <1>0, <1>4, <1>5, <1>6

LEMMA CountIsAtMostSum ==
  ASSUME NEW S, NEW h, Counts(h, S), NEW x \in S
  PROVE  h[x] <= SumOver(h, S) /\ SumOver(h, S) \in Nat
<1>1. SumOver(h, S) = h[x] + SumOver(h, S \ {x})
  BY SumTakesOut
<1>2. SumOver(h, S \ {x}) \in Nat /\ SumOver(h, S) \in Nat /\ h[x] \in Nat
  BY CountsOfPart, SumIsNatural DEF Counts
<1> QED BY <1>1, <1>2

LEMMA SquaresAreAtMost ==
  ASSUME NEW S, NEW h, Counts(h, S), NEW k, \A x \in S : k[x] = h[x] * h[x]
  PROVE  Counts(k, S) /\ SumOver(k, S) <= SumOver(h, S) * SumOver(h, S)
<1> PICK m \in Nat : m = SumOver(h, S)
  BY SumIsNatural
<1>a. PICK j : j = [x \in S |-> h[x] * m]
  OBVIOUS
<1>1. Counts(j, S) /\ SumOver(j, S) = m * m
  BY <1>a, SumScales
<1>2. ASSUME NEW x \in S PROVE k[x] \in Nat /\ k[x] <= j[x]
  <2>1. h[x] \in Nat /\ h[x] <= m
    BY CountIsAtMostSum DEF Counts
  <2>2. h[x] * h[x] \in Nat /\ h[x] * h[x] <= h[x] * m
    BY <2>1, ProductsAreMonotone
  <2> QED BY <1>a, <2>2
<1>3. Counts(k, S)
  BY <1>2 DEF Counts
<1> PICK into : into = [x \in S |-> x]
  OBVIOUS
<1>4. AtMostInto(k, S, j, S, into)
  BY <1>2 DEF AtMostInto
<1>5. SumOver(k, S) <= SumOver(j, S)
  BY <1>1, <1>3, <1>4, SumAtMost
<1> QED BY <1>1, <1>3, <1>5

\* A total is at most that of bounds for the totals of its parts.
AreParts(parts, sets, L, e) ==
  /\ IsFiniteSet(L) /\ \A l \in L : IsFiniteSet(sets[l]) /\ parts[l] = [x \in sets[l] |-> e[x]]
  /\ DOMAIN e = UNION {sets[l] : l \in L} /\ \A x \in DOMAIN e : e[x] \in Rationals

LEMMA TotalOfUnions ==
  ASSUME NEW L, NEW sets, NEW e, NEW parts, AreParts(parts, sets, L, e),
         NEW g, DOMAIN g = L, \A l \in L : g[l] \in Rationals /\ Leq(Total(parts[l]), g[l])
  PROVE  Totals(e) /\ Totals(g) /\ Leq(Total(e), Total(g))
<1>0. /\ IsFiniteSet(L) /\ \A l \in L : IsFiniteSet(sets[l])
      /\ \A l \in L : parts[l] = [x \in sets[l] |-> e[x]]
      /\ DOMAIN e = UNION {sets[l] : l \in L} /\ \A x \in DOMAIN e : e[x] \in Rationals
  BY Zenon DEF AreParts
<1> PICK all : all = DOMAIN e
  OBVIOUS
<1>1. IsFiniteSet(all)
  <2>1. IsFiniteSet({sets[l] : l \in L})
    <3>1. PICK f : f = [l \in L |-> sets[l]]
      OBVIOUS
    <3>2. f \in Surjection(L, {sets[l] : l \in L})
      BY <3>1 DEF Surjection
    <3> QED BY <1>0, <3>2, FS_Surjection
  <2>2. \A s \in {sets[l] : l \in L} : IsFiniteSet(s)
    BY <1>0
  <2>3. IsFiniteSet(UNION {sets[l] : l \in L})
    BY <2>1, <2>2, FS_UNION
  <2> QED BY <1>0, <2>3
<1>2. Totals(e) /\ Totals(g)
  BY <1>0, <1>1 DEF Totals
<1>3. PICK h, k, d : IsOver(e, h, d, all) /\ IsOver(g, k, d, L)
  BY <1>0, <1>1, CommonDenominators
<1>4. d \in Positive /\ Counts(h, all) /\ Counts(k, L)
  BY <1>3 DEF IsOver
<1>5. ASSUME NEW l \in L PROVE Counts(h, sets[l]) /\ SumOver(h, sets[l]) <= k[l]
  <2>1. PICK part : part = parts[l] /\ part = [x \in sets[l] |-> e[x]]
    BY <1>0
  <2>2. sets[l] \in SUBSET all
    BY <1>0
  <2>3. Counts(h, sets[l])
    BY <1>4, <2>2, CountsOfPart
  <2>4. IsOver(part, h, d, sets[l])
    BY <1>3, <2>1, <2>2, <2>3 DEF IsOver
  <2>5. Total(part) = Fraction(SumOver(h, sets[l]), d) /\ SumOver(h, sets[l]) \in Nat
    BY <2>1, <2>4, TotalIs
  <2>6. g[l] = Fraction(k[l], d) /\ k[l] \in Nat
    BY <1>3 DEF IsOver, Counts
  <2>7. Leq(Total(part), g[l])
    BY <2>1
  <2> QED BY <1>4, <2>3, <2>5, <2>6, <2>7, LeqOver
<1>6. PICK sums : sums = [l \in L |-> SumOver(h, sets[l])]
  OBVIOUS
<1>7. Counts(sums, L) /\ SumOver(h, all) <= SumOver(sums, L)
  BY <1>0, <1>5, <1>6, SumOfUnions
<1>8. SumOver(sums, L) <= SumOver(k, L)
  <2> PICK into : into = [l \in L |-> l]
    OBVIOUS
  <2>1. AtMostInto(sums, L, k, L, into)
    BY <1>5, <1>6 DEF AtMostInto
  <2> QED BY <1>4, <1>7, <2>1, SumAtMost
<1>9. /\ Total(e) = Fraction(SumOver(h, all), d) /\ SumOver(h, all) \in Nat
      /\ Total(g) = Fraction(SumOver(k, L), d) /\ SumOver(k, L) \in Nat
  BY <1>3, TotalIs
<1>10. SumOver(h, all) <= SumOver(k, L)
  <2>1. SumOver(sums, L) \in Nat
    BY <1>7, SumIsNatural
  <2> QED BY <1>7, <1>8, <1>9, <2>1
<1> QED BY <1>2, <1>4, <1>9, <1>10, LeqOver

-----------------------------------------------------------------------------
(* Times of layers.                                                        *)

TimeOver(ctx, v, w, L) ==
  (CHOOSE g : g = [s \in SUBSET L |->
     IF s = {} THEN 0 ELSE LET l == CHOOSE l \in s : TRUE IN layer_time(ctx, v, w, l) + g[s \ {l}]])[L]

LEMMA ExecutionTimeFolds ==
  ASSUME NEW ctx, NEW a, NEW k
  PROVE  execution_time(ctx, a, k) = TimeOver(ctx, a.variant, a.worker_of[k], layers_of(a, k))
BY Zenon DEF execution_time, TimeOver, MapThenSumSet, MapThenFoldSet

LEMMA WholeTimeFolds ==
  ASSUME NEW ctx, NEW v, NEW w
  PROVE  whole_model_time(ctx, v, w) = TimeOver(ctx, v, w, layer_execution_profiles(ctx, v, w))
BY Zenon DEF whole_model_time, TimeOver, MapThenSumSet, MapThenFoldSet

LEMMA TimeOverIs ==
  ASSUME NEW ctx, NEW v, NEW w, NEW L, NEW h, Counts(h, L), \A l \in L : h[l] = layer_time(ctx, v, w, l)
  PROVE  TimeOver(ctx, v, w, L) = SumOver(h, L)
<1> DEFINE sums(g) == g = [s \in SUBSET L |->
             IF s = {} THEN 0 ELSE LET l == CHOOSE l \in s : TRUE IN layer_time(ctx, v, w, l) + g[s \ {l}]]
<1>1. TimeOver(ctx, v, w, L) = (CHOOSE g : sums(g))[L]
  BY Zenon DEF TimeOver
<1>2. \A g : sums(g) <=> IsSumming(g, h, L)
  <2> SUFFICES ASSUME NEW g PROVE sums(g) <=> IsSumming(g, h, L)
    OBVIOUS
  <2>1. ASSUME NEW s \in SUBSET L
        PROVE  Summed(s, g, h)
                 = IF s = {} THEN 0
                   ELSE LET l == CHOOSE l \in s : TRUE IN layer_time(ctx, v, w, l) + g[s \ {l}]
    BY DEF Summed
  <2> QED BY <2>1 DEF IsSumming
<1> HIDE DEF sums
<1>3. PICK g : sums(g) /\ g = CHOOSE k : sums(k)
  BY <1>2, SumsOfSubsets
<1>4. g[L] = SumOver(h, L)
  BY <1>2, <1>3, SumIs
<1> QED BY <1>1, <1>3, <1>4

-----------------------------------------------------------------------------
(* The problem of the optimizer and a solution of it.                      *)

\* What the context has measured for a request.
IsProfiled(ctx, request) ==
  /\ request.arrival_rate \in Positive
  /\ IsFiniteSet(eligible_models(ctx, request))
  /\ \A v \in eligible_models(ctx, request) :
       /\ ctx.models[v].batch_size \in Positive /\ ctx.models[v].max_cut \in Nat
       /\ IsFiniteSet(ctx.models[v].topology.layers)
       /\ \A w \in ctx.workers : \A l \in layer_execution_profiles(ctx, v, w) :
            layer_time(ctx, v, w, l) \in Nat

AreLinks(ctx) ==
  /\ IsFiniteSet({ctx.bandwidth[c] : c \in ctx.connections})
  /\ \A c \in ctx.connections : ctx.bandwidth[c] \in Positive /\ ctx.round_trip_time[c] \in Nat

\* An answer for it.
IsServed(ctx, request, a) ==
  /\ placeable(ctx, request, a)
  /\ successive_components_use_different_workers(a)
  /\ component_last(a) \in Positive /\ components(a) = 1 .. component_last(a)
  /\ \A k \in components(a) : a.worker_of[k] \in ctx.workers
  /\ \A k \in CutsOf(a) : /\ transmitted_data_size(ctx, a, k) \in Nat
                          /\ transmitted_data_size(ctx, a, k) <= ctx.models[a.variant].max_cut

LEMMA WholeTimeIs ==
  ASSUME NEW ctx, NEW request, IsProfiled(ctx, request), NEW v \in eligible_models(ctx, request),
         NEW w \in ctx.workers,
         NEW S, S = layer_execution_profiles(ctx, v, w),
         NEW h, h = [l \in S |-> layer_time(ctx, v, w, l)]
  PROVE  /\ Counts(h, S) /\ whole_model_time(ctx, v, w) = SumOver(h, S)
         /\ whole_model_time(ctx, v, w) \in Nat
<1>1. IsFiniteSet(S)
  <2>1. S \subseteq ctx.models[v].topology.layers
    BY DEF layer_execution_profiles
  <2>2. IsFiniteSet(ctx.models[v].topology.layers)
    BY DEF IsProfiled
  <2> QED BY <2>1, <2>2, FS_Subset
<1>2. \A l \in S : h[l] \in Nat
  BY DEF IsProfiled
<1>3. Counts(h, S)
  BY <1>1, <1>2 DEF Counts
<1>4. TimeOver(ctx, v, w, S) = SumOver(h, S)
  BY <1>3, TimeOverIs
<1> QED BY <1>3, <1>4, WholeTimeFolds, SumIsNatural

\* The components that a flow has on a worker take no longer than its whole model.
LEMMA ExecutionTimesAre ==
  ASSUME NEW ctx, NEW request, IsProfiled(ctx, request), NEW a, IsServed(ctx, request, a),
         NEW w \in ctx.workers, NEW K, K \subseteq {k \in components(a) : a.worker_of[k] = w},
         NEW t, t = [k \in K |-> execution_time(ctx, a, k)]
  PROVE  Counts(t, K) /\ SumOver(t, K) <= whole_model_time(ctx, a.variant, w)
<1> PICK v : v = a.variant
  OBVIOUS
<1> PICK S : S = layer_execution_profiles(ctx, v, w)
  OBVIOUS
<1>a. PICK h : h = [l \in S |-> layer_time(ctx, v, w, l)]
  OBVIOUS
<1>1. v \in eligible_models(ctx, request) /\ supported(ctx, request, a)
  BY DEF IsServed, placeable
<1>2. Counts(h, S) /\ whole_model_time(ctx, v, w) = SumOver(h, S)
  BY <1>1, <1>a, WholeTimeIs
<1>3. ASSUME NEW k \in K PROVE layers_of(a, k) \subseteq S /\ t[k] = SumOver(h, layers_of(a, k))
  <2>1. a.worker_of[k] = w
    OBVIOUS
  <2>2. ASSUME NEW l \in layers_of(a, k) PROVE l \in S
    <3>1. l \in DOMAIN a.component_of /\ a.component_of[l] = k
      BY DEF layers_of
    <3>2. l \in available(ctx, request, v, a.worker_of[k])
      BY <1>1, <3>1 DEF supported
    <3> QED BY <2>1, <3>2 DEF available
  <2>3. Counts(h, layers_of(a, k))
    BY <1>2, <2>2, CountsOfPart
  <2>4. \A l \in layers_of(a, k) : h[l] = layer_time(ctx, v, w, l)
    BY <1>a, <2>2
  <2>5. TimeOver(ctx, v, w, layers_of(a, k)) = SumOver(h, layers_of(a, k))
    BY <2>3, <2>4, TimeOverIs
  <2>6. execution_time(ctx, a, k) = TimeOver(ctx, v, w, layers_of(a, k))
    BY <2>1, ExecutionTimeFolds
  <2> QED BY <2>2, <2>5, <2>6
<1>4. IsFiniteSet(K)
  <2>1. IsFiniteSet(components(a))
    BY PositiveIs, FS_Interval DEF IsServed
  <2> QED BY <2>1, FS_Subset
<1>b. PICK sets : sets = [k \in K |-> layers_of(a, k)]
  OBVIOUS
<1>5. /\ \A k \in K : sets[k] \subseteq S /\ t[k] = SumOver(h, sets[k])
      /\ \A j, k \in K : j # k => sets[j] \cap sets[k] = {}
  BY <1>3, <1>b DEF layers_of
<1> QED BY <1>2, <1>4, <1>5, SumOfParts

-----------------------------------------------------------------------------
(* The times of a flow.                                                    *)

IsTimed(ctx, request, a, t) ==
  LET rate == service_arrival_rate(ctx, request, a.variant) IN
  /\ rate \in Rationals /\ t.batch_fill \in Rationals
  /\ \A k \in components(a) :
       LET time == <<execution_time(ctx, a, k), 1>> IN
       /\ execution_time(ctx, a, k) \in Nat /\ time \in Rationals
       /\ t.execution[k] = time
       /\ t.utilization[k] = Times(rate, time) /\ t.utilization[k] \in Rationals
       /\ t.second_moment[k] = Times(rate, Times(time, time)) /\ t.second_moment[k] \in Rationals
  /\ \A k \in CutsOf(a) :
       /\ Link(a, k) \in ctx.connections
       /\ t.transmission[k] = transmission_time(ctx, a, k) /\ t.transmission[k] \in Rationals
       /\ t.network_utilization[k] \in Rationals /\ t.latency[k] \in Rationals

LEMMA RateIs ==
  ASSUME NEW ctx, NEW request, IsProfiled(ctx, request), NEW v \in eligible_models(ctx, request)
  PROVE  service_arrival_rate(ctx, request, v) \in Rationals /\ batch_fill_time(ctx, request, v) \in Rationals
<1> PICK b \in Positive : b = ctx.models[v].batch_size
  BY DEF IsProfiled
<1> PICK n \in Positive : n = request.arrival_rate
  BY DEF IsProfiled
<1>1. Period \in Positive /\ 2 \in Positive
  BY ProblemConfigAssumption DEF Positive
<1>2. Period * b \in Positive /\ 2 * n \in Positive
  BY <1>1, ProductsArePositive
<1>3. n \in Nat /\ (b - 1) * Period \in Nat
  <2>1. b - 1 \in Nat /\ Period \in Nat
    BY <1>1, PositiveIs
  <2> QED BY <2>1, PositiveIs
<1> QED BY <1>2, <1>3, FractionsAre DEF service_arrival_rate, batch_fill_time

LEMMA TimingIs ==
  ASSUME NEW ctx, AreLinks(ctx), NEW request, IsProfiled(ctx, request),
         NEW a, IsServed(ctx, request, a)
  PROVE  IsTimed(ctx, request, a, timing(ctx, request, a))
<1> PICK t : t = timing(ctx, request, a)
  OBVIOUS
<1> PICK rate : rate = service_arrival_rate(ctx, request, a.variant)
  OBVIOUS
<1>1. a.variant \in eligible_models(ctx, request) /\ transition_marginals(ctx, a)
  BY DEF IsServed, placeable
<1>2. rate \in Rationals /\ t.batch_fill \in Rationals
  BY <1>1, RateIs DEF timing
<1>3. ASSUME NEW k \in components(a)
      PROVE  LET time == <<execution_time(ctx, a, k), 1>> IN
             /\ execution_time(ctx, a, k) \in Nat /\ time \in Rationals
             /\ t.execution[k] = time
             /\ t.utilization[k] = Times(rate, time) /\ t.utilization[k] \in Rationals
             /\ t.second_moment[k] = Times(rate, Times(time, time))
             /\ t.second_moment[k] \in Rationals
  <2> PICK e : e = execution_time(ctx, a, k)
    OBVIOUS
  <2>1. e \in Nat
    <3>1. PICK w \in ctx.workers : w = a.worker_of[k]
      BY DEF IsServed
    <3>2. {k} \subseteq {i \in components(a) : a.worker_of[i] = w}
      BY <3>1
    <3>3. PICK f : f = [i \in {k} |-> execution_time(ctx, a, i)]
      OBVIOUS
    <3>4. Counts(f, {k})
      BY <3>2, <3>3, ExecutionTimesAre
    <3> QED BY <3>3, <3>4 DEF Counts
  <2>2. <<e, 1>> \in Rationals
    BY <2>1, WholeIs
  <2>3. Times(rate, <<e, 1>>) \in Rationals /\ Times(rate, Times(<<e, 1>>, <<e, 1>>)) \in Rationals
    BY <1>2, <2>2, TimesIsRational
  <2>4. /\ t.execution[k] = <<e, 1>> /\ t.utilization[k] = Times(rate, <<e, 1>>)
        /\ t.second_moment[k] = Times(rate, Times(<<e, 1>>, <<e, 1>>))
    BY DEF timing
  <2> QED BY <2>1, <2>2, <2>3, <2>4
<1>4. ASSUME NEW k \in CutsOf(a)
      PROVE  /\ Link(a, k) \in ctx.connections
             /\ t.transmission[k] = transmission_time(ctx, a, k) /\ t.transmission[k] \in Rationals
             /\ t.network_utilization[k] \in Rationals /\ t.latency[k] \in Rationals
  <2>1. k \in 1 .. component_last(a) /\ k # component_last(a) /\ component_last(a) \in Nat
    BY PositiveIs DEF IsServed, CutsOf
  <2>2. k + 1 \in components(a) \ {1} /\ (k + 1) - 1 = k
    BY <2>1 DEF IsServed
  <2>3. Link(a, k) \in ctx.connections
    <3>1. a.worker_of[k] # a.worker_of[k + 1]
      <4>1. \A i \in components(a) \ {1} : a.worker_of[i - 1] # a.worker_of[i]
        BY DEF IsServed, successive_components_use_different_workers
      <4> QED BY <2>2, <4>1
    <3>2. a.worker_of[k] = a.worker_of[k + 1] \/ <<a.worker_of[k], a.worker_of[k + 1]>> \in ctx.connections
      <4>1. \A i \in components(a) \ {1} :
              \/ a.worker_of[i - 1] = a.worker_of[i]
              \/ <<a.worker_of[i - 1], a.worker_of[i]>> \in ctx.connections
        BY <1>1 DEF transition_marginals
      <4> QED BY <2>2, <4>1
    <3> QED BY <3>1, <3>2 DEF Link
  <2>4. ctx.bandwidth[Link(a, k)] \in Positive /\ ctx.round_trip_time[Link(a, k)] \in Nat
        /\ transmitted_data_size(ctx, a, k) \in Nat
    BY <2>3 DEF AreLinks, IsServed
  <2>5. transmission_time(ctx, a, k) \in Rationals
    BY <2>4, FractionsAre DEF transmission_time
  <2>6. latency(ctx, a, k) \in Rationals
    <3>1. 2 \in Positive
      BY DEF Positive
    <3> QED BY <2>4, <3>1, FractionsAre DEF latency
  <2>7. Times(rate, transmission_time(ctx, a, k)) \in Rationals
    BY <1>2, <2>5, TimesIsRational
  <2>8. /\ t.transmission[k] = transmission_time(ctx, a, k)
        /\ t.network_utilization[k] = Times(rate, transmission_time(ctx, a, k))
        /\ t.latency[k] = latency(ctx, a, k)
    BY DEF timing
  <2> QED BY <2>3, <2>5, <2>6, <2>7, <2>8
<1> QED BY <1>2, <1>3, <1>4 DEF IsTimed

-----------------------------------------------------------------------------
(* All flows of a solution.                                                *)

IsProblem(ctx, requests, answers, timings) ==
  /\ IsFiniteSet(DOMAIN requests) /\ DOMAIN answers = DOMAIN requests
  /\ AreLinks(ctx)
  /\ \A f \in DOMAIN requests :
       /\ IsProfiled(ctx, requests[f]) /\ IsServed(ctx, requests[f], answers[f])
       /\ timings[f] = timing(ctx, requests[f], answers[f])

LEMMA FlowIsTimed ==
  ASSUME NEW ctx, NEW requests, NEW answers, NEW timings,
         IsProblem(ctx, requests, answers, timings), NEW f \in DOMAIN answers
  PROVE  /\ IsTimed(ctx, requests[f], answers[f], timings[f])
         /\ IsFiniteSet(components(answers[f])) /\ IsFiniteSet(CutsOf(answers[f]))
<1>1. IsTimed(ctx, requests[f], answers[f], timings[f])
  BY TimingIs DEF IsProblem
<1>2. IsFiniteSet(components(answers[f]))
  BY PositiveIs, FS_Interval DEF IsProblem, IsServed
<1>3. CutsOf(answers[f]) \subseteq components(answers[f])
  BY DEF CutsOf
<1> QED BY <1>1, <1>2, <1>3, FS_Subset

LEMMA SlotsOn ==
  ASSUME NEW answers, NEW w, NEW s \in components_on(answers, w)
  PROVE  /\ s = <<s[1], s[2]>> /\ s[1] \in DOMAIN answers /\ s[2] \in components(answers[s[1]])
         /\ answers[s[1]].worker_of[s[2]] = w
BY DEF components_on

LEMMA WorkersAreLoaded ==
  ASSUME NEW ctx, NEW requests, NEW answers, NEW timings,
         IsProblem(ctx, requests, answers, timings), NEW w
  PROVE  IsLoaded(timings, components_on(answers, w))
<1> PICK C : C = components_on(answers, w)
  OBVIOUS
<1>1. IsFiniteSet(C)
  <2> PICK all : all = {{i} \X components(answers[i]) : i \in DOMAIN answers}
    OBVIOUS
  <2>1. \A i \in DOMAIN answers : IsFiniteSet({i} \X components(answers[i]))
    BY FlowIsTimed, FS_Singleton, FS_Product
  <2>2. IsFiniteSet(all)
    <3> PICK g : g = [i \in DOMAIN answers |-> {i} \X components(answers[i])]
      OBVIOUS
    <3>1. g \in Surjection(DOMAIN answers, all)
      BY DEF Surjection
    <3> QED BY <3>1, FS_Surjection DEF IsProblem
  <2>3. IsFiniteSet(UNION all)
    BY <2>1, <2>2, FS_UNION
  <2> QED BY <2>3, FS_Subset DEF components_on
<1>2. ASSUME NEW s \in C
      PROVE  /\ timings[s[1]].utilization[s[2]] \in Rationals
             /\ timings[s[1]].second_moment[s[2]] \in Rationals
  <2>1. s[1] \in DOMAIN answers /\ s[2] \in components(answers[s[1]])
    BY SlotsOn
  <2> QED BY <2>1, FlowIsTimed DEF IsTimed
<1> QED BY <1>1, <1>2 DEF IsLoaded

LEMMA NetworkIsLoaded ==
  ASSUME NEW ctx, NEW requests, NEW answers, NEW timings,
         IsProblem(ctx, requests, answers, timings), NEW w
  PROVE  network_utilization(answers, timings, w) \in Rationals
<1> PICK C : C = transmissions_from(answers, w)
  OBVIOUS
<1>1. IsFiniteSet(C)
  <2>1. C \subseteq components_on(answers, w)
    BY DEF transmissions_from
  <2> QED BY <2>1, WorkersAreLoaded, FS_Subset DEF IsLoaded
<1>2. ASSUME NEW s \in C PROVE timings[s[1]].network_utilization[s[2]] \in Rationals
  <2>1. s[1] \in DOMAIN answers /\ s[2] \in CutsOf(answers[s[1]])
    BY SlotsOn DEF transmissions_from
  <2> QED BY <2>1, FlowIsTimed DEF IsTimed
<1>a. PICK f : f = [s \in C |-> timings[s[1]].network_utilization[s[2]]]
  OBVIOUS
<1>3. Totals(f)
  BY <1>1, <1>2, <1>a DEF Totals
<1> QED BY <1>3, <1>a, TotalIsRational DEF network_utilization

Ranks(r, answers, w) == \A s \in components_on(answers, w) : r[s] \in Nat \ {0}

LEMMA QueuesAre ==
  ASSUME NEW ctx, NEW requests, NEW answers, NEW timings,
         IsProblem(ctx, requests, answers, timings), stable(ctx, answers, timings),
         NEW w \in ctx.workers, NEW r, Ranks(r, answers, w), NEW p \in Nat \ {0}
  PROVE  IsQueue(answers, timings, r, w, p)
BY WorkersAreLoaded DEF IsQueue, stable, Ranks

-----------------------------------------------------------------------------
(* Bounds for what is transmitted.                                         *)

LEMMA TransmissionsAreBounded ==
  ASSUME NEW ctx, NEW requests, NEW answers, NEW timings,
         IsProblem(ctx, requests, answers, timings), NEW f \in DOMAIN answers,
         NEW k \in CutsOf(answers[f]),
         NEW most, most = nominal_upper(ctx, requests[f], answers[f].worker_of[k])
  PROVE  most \in Rationals /\ Leq(timings[f].transmission[k], most)
<1> PICK a, request : a = answers[f] /\ request = requests[f]
  OBVIOUS
<1>a. IsProfiled(ctx, request) /\ IsServed(ctx, request, a) /\ AreLinks(ctx)
  BY DEF IsProblem
<1> PICK E, w : E = eligible_models(ctx, request) /\ w = a.worker_of[k]
  OBVIOUS
<1> PICK B : B = {ctx.bandwidth[c] : c \in ctx.connections}
  OBVIOUS
<1> PICK v : v = a.variant
  OBVIOUS
<1>1. v \in E /\ IsFiniteSet(E) /\ IsFiniteSet(B) /\ B \subseteq Positive
      /\ \A u \in E : ctx.models[u].max_cut \in Nat
  BY <1>a DEF IsProfiled, IsServed, placeable, AreLinks
<1> DEFINE cost(p) == Fraction(ctx.models[p[1]].max_cut, p[2])
<1> PICK All : All = {cost(p) : p \in E \X B}
  OBVIOUS
<1>2. IsFiniteSet(All) /\ All \subseteq Rationals
  <2>1. IsFiniteSet(E \X B)
    BY <1>1, FS_Product
  <2>a. PICK g : g = [p \in E \X B |-> cost(p)]
    OBVIOUS
  <2>2. g \in Surjection(E \X B, All)
    <3> HIDE DEF cost
    <3> QED BY <2>a DEF Surjection
  <2>3. IsFiniteSet(All)
    BY <2>1, <2>2, FS_Surjection
  <2>4. All \subseteq Rationals
    BY <1>1, FractionsAre
  <2> QED BY <2>3, <2>4
<1> DEFINE S == {Zero} \cup {Fraction(ctx.models[u].max_cut, ctx.bandwidth[c]) :
                               u \in E, c \in {d \in ctx.connections : d[1] = w}}
<1>3. most = Greatest(S)
  BY DEF nominal_upper
<1>b. \A x : x \in S <=>
        \/ x = Zero
        \/ \E u \in E : \E c \in ctx.connections :
             c[1] = w /\ x = Fraction(ctx.models[u].max_cut, ctx.bandwidth[c])
  OBVIOUS
<1> HIDE DEF S
<1>4. S \subseteq {Zero} \cup All
  <2>1. \A u \in E, c \in ctx.connections :
          Fraction(ctx.models[u].max_cut, ctx.bandwidth[c]) \in All
    <3> SUFFICES ASSUME NEW u \in E, NEW c \in ctx.connections
                 PROVE  Fraction(ctx.models[u].max_cut, ctx.bandwidth[c]) \in All
      OBVIOUS
    <3>0. ctx.bandwidth[c] \in B
      BY Zenon
    <3>1. PICK p \in E \X B : p = <<u, ctx.bandwidth[c]>>
      BY <3>0
    <3>2. cost(p) = Fraction(ctx.models[u].max_cut, ctx.bandwidth[c])
      BY <3>1
    <3> QED BY <3>2
  <2> HIDE DEF cost
  <2> QED BY <1>b, <2>1
<1> HIDE DEF cost
<1>5. IsFiniteSet(S) /\ S \subseteq Rationals /\ S # {}
  <2>1. IsFiniteSet({Zero} \cup All)
    BY <1>2, FS_Singleton, FS_Union
  <2> QED BY <1>2, <1>4, <1>b, <2>1, NumbersAre, FS_Subset
<1>6. most \in Rationals /\ \A x \in S : Leq(x, most)
  <2>1. most \in S /\ \A x \in S : Leq(x, most)
    BY <1>3, <1>5, GreatestIs
  <2> QED BY <1>5, <2>1
<1>7. IsTimed(ctx, request, a, timings[f])
  BY FlowIsTimed
<1>8. PICK b, n, m : /\ b = ctx.bandwidth[Link(a, k)] /\ n = transmitted_data_size(ctx, a, k)
                     /\ m = ctx.models[v].max_cut
  OBVIOUS
<1>9. /\ Link(a, k) \in ctx.connections /\ Link(a, k)[1] = w /\ b \in Positive
      /\ timings[f].transmission[k] = Fraction(n, b) /\ n \in Nat /\ m \in Nat /\ n <= m
  BY <1>1, <1>7, <1>8, <1>a DEF IsTimed, transmission_time, Link, IsServed
<1>10. Leq(Fraction(n, b), Fraction(m, b))
  BY <1>9, LeqOver
<1>11. Fraction(m, b) \in S
  BY <1>1, <1>8, <1>9, <1>b
<1>12. Leq(Fraction(m, b), most)
  BY <1>6, <1>11
<1>13. Fraction(n, b) \in Rationals /\ Fraction(m, b) \in Rationals
  BY <1>9, FractionsAre
<1> QED BY <1>6, <1>9, <1>10, <1>12, <1>13, LeqIsTransitive

-----------------------------------------------------------------------------
(* The promised response times.                                            *)

exact_wait(answers, timings, r, w, p) ==
  Over(second_moment(answers, timings, w),
       Times(<<2, 1>>, Times(Minus(One, higher_priority_rho(answers, timings, r, w, p)),
                             Minus(One, higher_equal_priority_rho(answers, timings, r, w, p)))))

exact_transmission(answers, timings, s) ==
  Over(timings[s[1]].transmission[s[2]],
       Minus(One, network_utilization(answers, timings, answers[s[1]].worker_of[s[2]])))

exact_response(answers, timings, r, f) ==
  LET a == answers[f] IN
  Plus(timings[f].batch_fill,
       Plus(Total([k \in components(a) |->
              Plus(timings[f].execution[k],
                   exact_wait(answers, timings, r, a.worker_of[k], r[<<f, k>>]))]),
            Total([k \in CutsOf(a) |->
              Plus(exact_transmission(answers, timings, <<f, k>>), timings[f].latency[k])])))

LEMMA WaitsAreClose ==
  ASSUME NEW ctx, NEW requests, NEW answers, NEW timings,
         IsProblem(ctx, requests, answers, timings), stable(ctx, answers, timings),
         NEW w \in ctx.workers, NEW r, Ranks(r, answers, w), NEW p \in Nat \ {0}
  PROVE  IsClose(exact_wait(answers, timings, r, w, p), queue_wait(answers, timings, r, w, p))
BY QueuesAre, WaitIsClose DEF exact_wait

LEMMA TransmissionsAreClose ==
  ASSUME NEW ctx, NEW requests, NEW answers, NEW timings,
         IsProblem(ctx, requests, answers, timings), stable(ctx, answers, timings),
         NEW f \in DOMAIN answers, NEW k \in CutsOf(answers[f]),
         NEW s, s = <<f, k>>
  PROVE  IsClose(exact_transmission(answers, timings, s),
                 transmission_response(ctx, requests, answers, timings, s))
<1> PICK w : w = answers[f].worker_of[k]
  OBVIOUS
<1>a. PICK nominal, most, rho, bin : /\ nominal = timings[f].transmission[k]
                                     /\ most = nominal_upper(ctx, requests[f], w)
                                     /\ rho = network_utilization(answers, timings, w)
                                     /\ bin = bin_of(network_bin_limits, rho)
  OBVIOUS
<1>1. most \in Rationals /\ Leq(nominal, most)
  BY <1>a, TransmissionsAreBounded
<1>2. nominal \in Rationals
  BY <1>a, FlowIsTimed DEF IsTimed
<1>3. rho \in Rationals
  BY <1>a, NetworkIsLoaded
<1>4. Leq(rho, Fraction(NetworkLimit, 100))
  <2>1. w \in ctx.workers
    BY DEF IsProblem, IsServed, CutsOf
  <2> QED BY <1>a, <2>1 DEF stable, network_stability
<1>5. IsClose(Over(nominal, Minus(One, rho)), projected_ps_epigraph(nominal, most, bin))
  BY <1>1, <1>2, <1>3, <1>4, <1>a, TransmissionIsClose
<1>6. /\ exact_transmission(answers, timings, s) = Over(nominal, Minus(One, rho))
      /\ transmission_response(ctx, requests, answers, timings, s)
           = projected_ps_epigraph(nominal, most, bin)
  BY <1>a, Zenon DEF exact_transmission, transmission_response
<1> QED BY <1>5, <1>6

\* The response time that is promised is that of the queues and links.
LEMMA ResponsesAreClose ==
  ASSUME NEW ctx, NEW requests, NEW answers, NEW timings,
         IsProblem(ctx, requests, answers, timings), stable(ctx, answers, timings),
         NEW r, \A w \in ctx.workers : Ranks(r, answers, w), NEW f \in DOMAIN answers
  PROVE  IsClose(exact_response(answers, timings, r, f),
                 response_time(ctx, requests, answers, timings, r, f))
<1> PICK a, t : a = answers[f] /\ t = timings[f]
  OBVIOUS
<1>1. IsTimed(ctx, requests[f], a, t) /\ IsFiniteSet(components(a)) /\ IsFiniteSet(CutsOf(a))
  BY FlowIsTimed
<1>2. /\ t.batch_fill \in Rationals
      /\ \A k \in components(a) : t.execution[k] \in Rationals
      /\ \A k \in CutsOf(a) : t.latency[k] \in Rationals
  BY <1>1, Zenon DEF IsTimed
<1>a. PICK exact : exact = [k \in components(a) |->
        Plus(t.execution[k], exact_wait(answers, timings, r, a.worker_of[k], r[<<f, k>>]))]
  OBVIOUS
<1>b. PICK promised : promised = [k \in components(a) |->
        Plus(t.execution[k], component_queue_wait(answers, timings, r, <<f, k>>))]
  OBVIOUS
<1>c. PICK sent : sent = [k \in CutsOf(a) |->
        Plus(exact_transmission(answers, timings, <<f, k>>), t.latency[k])]
  OBVIOUS
<1>d. PICK sending : sending = [k \in CutsOf(a) |->
        Plus(transmission_response(ctx, requests, answers, timings, <<f, k>>), t.latency[k])]
  OBVIOUS
<1>3. ASSUME NEW k \in components(a) PROVE IsClose(exact[k], promised[k])
  <2> PICK s, w : s = <<f, k>> /\ w = a.worker_of[k]
    OBVIOUS
  <2>1. w \in ctx.workers
    BY DEF IsProblem, IsServed
  <2>2. r[s] \in Nat \ {0}
    <3>1. s \in components_on(answers, w)
      BY DEF components_on
    <3> QED BY <2>1, <3>1 DEF Ranks
  <2>3. IsClose(exact_wait(answers, timings, r, w, r[s]), queue_wait(answers, timings, r, w, r[s]))
    BY <2>1, <2>2, WaitsAreClose
  <2>4. component_queue_wait(answers, timings, r, s) = queue_wait(answers, timings, r, w, r[s])
    BY DEF component_queue_wait
  <2>5. t.execution[k] \in Rationals
    BY <1>2
  <2> QED BY <1>a, <1>b, <2>3, <2>4, <2>5, ClosestIs, PlusIsClose
<1>4. ASSUME NEW k \in CutsOf(a) PROVE IsClose(sent[k], sending[k])
  <2>1. t.latency[k] \in Rationals
    BY <1>2
  <2> QED BY <1>c, <1>d, <2>1, TransmissionsAreClose, ClosestIs, PlusIsClose
<1>5. IsClose(Total(exact), Total(promised))
  BY <1>1, <1>3, <1>a, <1>b, TotalIsClose
<1>6. IsClose(Total(sent), Total(sending))
  BY <1>1, <1>4, <1>c, <1>d, TotalIsClose
<1>7. IsClose(Plus(t.batch_fill, Plus(Total(exact), Total(sent))),
              Plus(t.batch_fill, Plus(Total(promised), Total(sending))))
  BY <1>2, <1>5, <1>6, ClosestIs, PlusIsClose
<1>8. exact_response(answers, timings, r, f) = Plus(t.batch_fill, Plus(Total(exact), Total(sent)))
  BY <1>a, <1>c DEF exact_response
<1>9. response_time(ctx, requests, answers, timings, r, f)
        = Plus(t.batch_fill, Plus(Total(promised), Total(sending)))
  BY <1>b, <1>d DEF response_time
<1> QED BY <1>7, <1>8, <1>9

-----------------------------------------------------------------------------
(* Bounds for the second moments.                                          *)

\* The components that a flow has on a worker.
LEMMA SecondMomentOfFlow ==
  ASSUME NEW ctx, NEW requests, NEW answers, NEW timings,
         IsProblem(ctx, requests, answers, timings), NEW w \in ctx.workers,
         NEW f \in DOMAIN answers,
         NEW T, T = {s \in components_on(answers, w) : s[1] = f},
         NEW part, part = [s \in T |-> timings[s[1]].second_moment[s[2]]],
         NEW rate, rate = service_arrival_rate(ctx, requests[f], answers[f].variant),
         NEW W, W = whole_model_time(ctx, answers[f].variant, w)
  PROVE  W \in Nat /\ rate \in Rationals /\ IsFiniteSet(T) /\ Leq(Total(part), Times(rate, <<W * W, 1>>))
<1> PICK a, t : a = answers[f] /\ t = timings[f]
  OBVIOUS
<1>0. /\ IsProfiled(ctx, requests[f]) /\ IsServed(ctx, requests[f], a)
      /\ a.variant \in eligible_models(ctx, requests[f])
  BY DEF IsProblem, IsServed, placeable
<1>1. W \in Nat
  BY <1>0, WholeTimeIs
<1>2. rate \in Rationals
  BY <1>0, RateIs
<1>a. PICK K : K = {k \in components(a) : a.worker_of[k] = w}
  OBVIOUS
<1>b. PICK e : e = [k \in K |-> execution_time(ctx, a, k)]
  OBVIOUS
<1>3. Counts(e, K) /\ SumOver(e, K) <= W
  BY <1>0, <1>a, <1>b, ExecutionTimesAre
<1>4. IsFiniteSet(T)
  <2>1. T \subseteq components_on(answers, w)
    OBVIOUS
  <2> QED BY <2>1, WorkersAreLoaded, FS_Subset DEF IsLoaded
<1>5. \A s \in T : s = <<f, s[2]>> /\ s[1] = f /\ s[2] \in K
  BY <1>a, SlotsOn
<1>c. PICK h : h = [s \in T |-> e[s[2]]]
  OBVIOUS
<1>6. Counts(h, T)
  BY <1>3, <1>4, <1>5, <1>c DEF Counts
<1>7. SumOver(h, T) <= SumOver(e, K)
  <2> PICK into : into = [s \in T |-> s[2]]
    OBVIOUS
  <2>1. AtMostInto(h, T, e, K, into)
    <3>1. \A s \in T : h[s] <= e[into[s]]
      BY <1>5, <1>c, <1>3 DEF Counts
    <3>2. \A s, u \in T : into[s] = into[u] => s = u
      BY <1>5
    <3> QED BY <1>5, <3>1, <3>2 DEF AtMostInto
  <2> QED BY <1>3, <1>6, <2>1, SumAtMost
<1>d. PICK q : q = [s \in T |-> h[s] * h[s]]
  OBVIOUS
<1>8. Counts(q, T) /\ SumOver(q, T) <= SumOver(h, T) * SumOver(h, T)
  BY <1>6, <1>d, SquaresAreAtMost
<1>9. SumOver(q, T) \in Nat /\ SumOver(q, T) <= W * W /\ W * W \in Nat
  <2> PICK m, n : m = SumOver(h, T) /\ n = SumOver(q, T)
    OBVIOUS
  <2>1. n \in Nat /\ m \in Nat /\ SumOver(e, K) \in Nat
    BY <1>3, <1>6, <1>8, SumIsNatural
  <2>2. m <= W
    BY <1>1, <1>3, <1>7, <2>1
  <2>3. m * m <= W * W /\ m * m \in Nat /\ W * W \in Nat
    BY <1>1, <2>1, <2>2, ProductsAreMonotone
  <2>4. n <= m * m
    BY <1>8
  <2> HIDE <1>a
  <2> QED BY <2>1, <2>3, <2>4
<1>e. PICK moments : moments = [s \in T |-> Times(<<h[s], 1>>, <<h[s], 1>>)]
  OBVIOUS
<1>10. IsOver(moments, q, 1, T)
  <2>1. ASSUME NEW s \in T PROVE moments[s] = Fraction(q[s], 1)
    <3>1. h[s] \in Nat
      BY <1>6 DEF Counts
    <3>2. Times(Fraction(h[s], 1), Fraction(h[s], 1)) = Fraction(h[s] * h[s], 1 * 1)
      BY <3>1, ProductOf, PositiveIs
    <3> QED BY <1>d, <1>e, <3>1, <3>2, WholeIs
  <2> QED BY <1>8, <2>1, PositiveIs DEF IsOver
<1>11. Totals(moments) /\ Total(moments) = Fraction(SumOver(q, T), 1)
  <2>1. \A s \in T : moments[s] = Fraction(q[s], 1) /\ q[s] \in Nat
    BY <1>10 DEF IsOver, Counts
  <2>2. Totals(moments)
    BY <1>4, <1>e, <2>1, FractionsAre, PositiveIs DEF Totals
  <2> QED BY <1>10, <1>e, <2>2, TotalIs
<1>12. \A s \in T : part[s] = Times(rate, moments[s])
  <2> SUFFICES ASSUME NEW s \in T PROVE part[s] = Times(rate, moments[s])
    OBVIOUS
  <2>1. s[1] = f /\ s[2] \in K /\ s[2] \in components(a) /\ h[s] = execution_time(ctx, a, s[2])
    BY <1>5, <1>a, <1>b, <1>c
  <2>2. IsTimed(ctx, requests[f], a, t)
    BY FlowIsTimed
  <2>3. t.second_moment[s[2]] = Times(rate, Times(<<h[s], 1>>, <<h[s], 1>>))
    BY <2>1, <2>2 DEF IsTimed
  <2> QED BY <1>e, <2>1, <2>3
<1>13. Total(part) = Times(rate, Total(moments))
  BY <1>2, <1>11, <1>12, <1>e, TotalScales
<1>14. Leq(Total(moments), <<W * W, 1>>) /\ Total(moments) \in Rationals /\ <<W * W, 1>> \in Rationals
  BY <1>9, <1>11, WholeIs, LeqOver, PositiveIs, TotalIsRational
<1>15. Leq(Times(rate, Total(moments)), Times(rate, <<W * W, 1>>))
  BY <1>2, <1>14, LeqIsOrder, TimesIsMonotone
<1> QED BY <1>1, <1>2, <1>4, <1>13, <1>15

\* For every model that a flow may be served by.
LEMMA GreatestMomentIs ==
  ASSUME NEW ctx, NEW request, IsProfiled(ctx, request), NEW w \in ctx.workers,
         NEW v \in eligible_models(ctx, request),
         NEW E, E = eligible_models(ctx, request),
         NEW most, most = Greatest({Times(service_arrival_rate(ctx, request, u),
                                          <<whole_model_time(ctx, u, w) * whole_model_time(ctx, u, w), 1>>) :
                                      u \in E})
  PROVE  /\ most \in Rationals
         /\ Leq(Times(service_arrival_rate(ctx, request, v),
                      <<whole_model_time(ctx, v, w) * whole_model_time(ctx, v, w), 1>>), most)
<1> DEFINE moment(u) == Times(service_arrival_rate(ctx, request, u),
                              <<whole_model_time(ctx, u, w) * whole_model_time(ctx, u, w), 1>>)
<1> PICK S : S = {moment(u) : u \in E}
  OBVIOUS
<1>1. ASSUME NEW u \in E PROVE moment(u) \in Rationals
  <2>1. whole_model_time(ctx, u, w) \in Nat /\ service_arrival_rate(ctx, request, u) \in Rationals
    BY WholeTimeIs, RateIs
  <2>2. whole_model_time(ctx, u, w) * whole_model_time(ctx, u, w) \in Nat
    BY <2>1
  <2> QED BY <2>1, <2>2, WholeIs, TimesIsRational
<1>2. most = Greatest(S)
  OBVIOUS
<1> HIDE DEF moment
<1>3. IsFiniteSet(S)
  <2> PICK g : g = [u \in E |-> moment(u)]
    OBVIOUS
  <2>1. g \in Surjection(E, S)
    BY DEF Surjection
  <2> QED BY <2>1, FS_Surjection DEF IsProfiled
<1>4. S \subseteq Rationals /\ moment(v) \in S
  BY <1>1
<1>5. Greatest(S) \in S /\ \A x \in S : Leq(x, Greatest(S))
  BY <1>3, <1>4, GreatestIs
<1>6. most \in Rationals /\ Leq(moment(v), most)
  BY <1>2, <1>4, <1>5
<1> QED BY <1>6 DEF moment

LEMMA SecondMomentIsAtMost ==
  ASSUME NEW ctx, NEW requests, NEW answers, NEW timings,
         IsProblem(ctx, requests, answers, timings), NEW w \in ctx.workers
  PROVE  /\ max_second_moment(ctx, requests, w) \in Rationals
         /\ Leq(second_moment(answers, timings, w), max_second_moment(ctx, requests, w))
<1> PICK C, L : C = components_on(answers, w) /\ L = DOMAIN requests
  OBVIOUS
<1>0. L = DOMAIN answers /\ IsFiniteSet(L)
  BY DEF IsProblem
<1>a. PICK e : e = [s \in C |-> timings[s[1]].second_moment[s[2]]]
  OBVIOUS
<1>b. PICK sets : sets = [f \in L |-> {s \in C : s[1] = f}]
  OBVIOUS
<1>c. PICK g : g = [f \in L |->
        Greatest({Times(service_arrival_rate(ctx, requests[f], u),
                        <<whole_model_time(ctx, u, w) * whole_model_time(ctx, u, w), 1>>) :
                    u \in eligible_models(ctx, requests[f])})]
  OBVIOUS
<1>d. PICK parts : parts = [f \in L |-> [s \in sets[f] |-> e[s]]]
  OBVIOUS
<1>1. max_second_moment(ctx, requests, w) = Total(g) /\ second_moment(answers, timings, w) = Total(e)
  BY <1>a, <1>c DEF max_second_moment, second_moment
<1>2. DOMAIN e = UNION {sets[f] : f \in L} /\ \A f \in L : sets[f] \subseteq C
  <2>1. \A s \in C : s[1] \in L
    BY <1>0, SlotsOn
  <2> QED BY <1>a, <1>b, <2>1
<1>3. \A s \in C : e[s] \in Rationals
  BY <1>a, WorkersAreLoaded DEF IsLoaded
<1>4. ASSUME NEW f \in L
      PROVE  IsFiniteSet(sets[f]) /\ g[f] \in Rationals /\ Leq(Total(parts[f]), g[f])
  <2>a. PICK part : part = [s \in sets[f] |-> timings[s[1]].second_moment[s[2]]]
    OBVIOUS
  <2> PICK v : v = answers[f].variant
    OBVIOUS
  <2>b. PICK rate, W : rate = service_arrival_rate(ctx, requests[f], v) /\ W = whole_model_time(ctx, v, w)
    OBVIOUS
  <2>1. part = [s \in sets[f] |-> e[s]] /\ part = parts[f]
    BY <1>2, <1>a, <1>d, <2>a
  <2>2. /\ W \in Nat /\ rate \in Rationals /\ IsFiniteSet(sets[f])
        /\ Leq(Total(part), Times(rate, <<W * W, 1>>))
    <3>1. PICK T : T = {s \in components_on(answers, w) : s[1] = f} /\ T = sets[f]
      BY <1>b
    <3>2. f \in DOMAIN answers /\ part = [s \in T |-> timings[s[1]].second_moment[s[2]]]
      BY <1>0, <2>a, <3>1
    <3>3. rate = service_arrival_rate(ctx, requests[f], answers[f].variant)
          /\ W = whole_model_time(ctx, answers[f].variant, w)
      BY <2>b
    <3>4. /\ W \in Nat /\ rate \in Rationals /\ IsFiniteSet(T)
          /\ Leq(Total(part), Times(rate, <<W * W, 1>>))
      BY <3>1, <3>2, <3>3, SecondMomentOfFlow
    <3> QED BY <3>1, <3>4
  <2>3. g[f] \in Rationals /\ Leq(Times(rate, <<W * W, 1>>), g[f])
    <3>1. IsProfiled(ctx, requests[f]) /\ v \in eligible_models(ctx, requests[f])
      BY DEF IsProblem, IsServed, placeable
    <3> QED BY <1>c, <2>b, <3>1, GreatestMomentIs
  <2>4. Total(part) \in Rationals /\ Times(rate, <<W * W, 1>>) \in Rationals
    <3>1. Totals(part)
      BY <1>2, <1>3, <2>1, <2>2 DEF Totals
    <3>2. W * W \in Nat
      BY <2>2
    <3> QED BY <2>2, <3>1, <3>2, TotalIsRational, WholeIs, TimesIsRational
  <2> QED BY <2>1, <2>2, <2>3, <2>4, LeqIsTransitive
<1>5. Totals(g) /\ Leq(Total(e), Total(g))
  <2>1. DOMAIN g = L /\ \A s \in DOMAIN e : e[s] \in Rationals
    BY <1>3, <1>a, <1>c
  <2>2. \A f \in L : IsFiniteSet(sets[f])
    BY <1>4
  <2>3. \A f \in L : g[f] \in Rationals /\ Leq(Total(parts[f]), g[f])
    BY <1>4
  <2>4. DOMAIN e = UNION {sets[f] : f \in L}
    BY <1>2
  <2>5. \A f \in L : parts[f] = [s \in sets[f] |-> e[s]]
    BY <1>d
  <2>6. AreParts(parts, sets, L, e)
    BY <1>0, <2>1, <2>2, <2>4, <2>5, Zenon DEF AreParts
  <2> QED BY <2>1, <2>3, <2>6, TotalOfUnions
<1> QED BY <1>1, <1>5, TotalIsRational

LEMMA MaxOfFinite ==
  ASSUME NEW S, IsFiniteSet(S), S \subseteq Nat, S # {}
  PROVE  Max(S) \in S /\ \A x \in S : x <= Max(S)
<1> PICK h : h = [x \in S |-> x]
  OBVIOUS
<1>1. Counts(h, S)
  BY DEF Counts
<1>2. PICK n \in Nat : n = SumOver(h, S)
  BY <1>1, SumIsNatural
<1>3. \A x \in S : x <= n
  BY <1>1, <1>2, CountIsAtMostSum
<1> QED BY <1>2, <1>3, MaxIsGreatest

LEMMA MaximumTimeIs ==
  ASSUME NEW ctx, NEW requests, IsFiniteSet(DOMAIN requests),
         \A f \in DOMAIN requests : IsProfiled(ctx, requests[f]),
         NEW w \in ctx.workers, NEW f \in DOMAIN requests, NEW v \in eligible_models(ctx, requests[f])
  PROVE  /\ maximum_time(ctx, requests, w) \in Nat
         /\ whole_model_time(ctx, v, w) <= maximum_time(ctx, requests, w)
<1> PICK E : E = UNION {eligible_models(ctx, requests[g]) : g \in DOMAIN requests}
  OBVIOUS
<1> PICK S : S = {whole_model_time(ctx, u, w) : u \in E}
  OBVIOUS
<1>1. IsFiniteSet(E)
  <2> PICK all : all = {eligible_models(ctx, requests[g]) : g \in DOMAIN requests}
    OBVIOUS
  <2>1. IsFiniteSet(all)
    <3> PICK g : g = [i \in DOMAIN requests |-> eligible_models(ctx, requests[i])]
      OBVIOUS
    <3>1. g \in Surjection(DOMAIN requests, all)
      BY DEF Surjection
    <3> QED BY <3>1, FS_Surjection
  <2>2. \A s \in all : IsFiniteSet(s)
    BY DEF IsProfiled
  <2> QED BY <2>1, <2>2, FS_UNION
<1>2. IsFiniteSet(S)
  <2> PICK g : g = [u \in E |-> whole_model_time(ctx, u, w)]
    OBVIOUS
  <2>1. g \in Surjection(E, S)
    BY DEF Surjection
  <2> QED BY <1>1, <2>1, FS_Surjection
<1>3. \A u \in E : whole_model_time(ctx, u, w) \in Nat
  BY WholeTimeIs
<1>4. S \subseteq Nat /\ whole_model_time(ctx, v, w) \in S
  BY <1>3
<1>5. Max(S) \in S /\ \A x \in S : x <= Max(S)
  BY <1>2, <1>4, MaxOfFinite
<1>6. maximum_time(ctx, requests, w) = Max(S)
  BY DEF maximum_time
<1> QED BY <1>4, <1>5, <1>6

\* As long as a worker keeps up, its second moment is at most its utilization times
\* that of the longest any component may take.
LEMMA SecondMomentIsLimited ==
  ASSUME NEW ctx, NEW requests, NEW answers, NEW timings,
         IsProblem(ctx, requests, answers, timings), stable(ctx, answers, timings),
         NEW w \in ctx.workers, DOMAIN requests # {},
         NEW bound, bound = Times(Fraction(ComputeLimit, 100), <<maximum_time(ctx, requests, w), 1>>)
  PROVE  bound \in Rationals /\ Leq(second_moment(answers, timings, w), bound)
<1> PICK C : C = components_on(answers, w)
  OBVIOUS
<1> PICK m : m = maximum_time(ctx, requests, w)
  OBVIOUS
<1> PICK limit : limit = Fraction(ComputeLimit, 100)
  OBVIOUS
<1>0. /\ IsFiniteSet(DOMAIN requests) /\ DOMAIN answers = DOMAIN requests
      /\ \A f \in DOMAIN answers :
           /\ IsProfiled(ctx, requests[f]) /\ IsServed(ctx, requests[f], answers[f])
           /\ answers[f].variant \in eligible_models(ctx, requests[f])
  BY DEF IsProblem, IsServed, placeable
<1>1. /\ m \in Nat
      /\ \A f \in DOMAIN answers : whole_model_time(ctx, answers[f].variant, w) <= m
  BY <1>0, MaximumTimeIs
<1>2. limit \in Rationals /\ <<m, 1>> \in Rationals
  BY <1>1, LimitIs, ProblemConfigAssumption, WholeIs
<1>a. PICK e : e = [s \in C |-> timings[s[1]].second_moment[s[2]]]
  OBVIOUS
<1>b. PICK u : u = [s \in C |-> timings[s[1]].utilization[s[2]]]
  OBVIOUS
<1>c. PICK g : g = [s \in C |-> Times(<<m, 1>>, u[s])]
  OBVIOUS
<1>3. Totals(e) /\ Totals(u)
  BY <1>a, <1>b, WorkersAreLoaded DEF Totals, IsLoaded
<1>4. Totals(g) /\ Total(g) = Times(<<m, 1>>, Total(u))
  BY <1>2, <1>3, <1>b, <1>c, TotalScales
<1>5. ASSUME NEW s \in C PROVE Leq(e[s], g[s])
  <2> PICK f, k : f = s[1] /\ k = s[2]
    OBVIOUS
  <2>1. f \in DOMAIN answers /\ k \in components(answers[f]) /\ answers[f].worker_of[k] = w
    BY SlotsOn
  <2> PICK a, t : a = answers[f] /\ t = timings[f]
    OBVIOUS
  <2>b. PICK n, rate : n = execution_time(ctx, a, k)
                       /\ rate = service_arrival_rate(ctx, requests[f], a.variant)
    OBVIOUS
  <2>2. /\ n \in Nat /\ rate \in Rationals /\ <<n, 1>> \in Rationals
        /\ t.utilization[k] = Times(rate, <<n, 1>>)
        /\ t.second_moment[k] = Times(rate, Times(<<n, 1>>, <<n, 1>>))
        /\ t.utilization[k] \in Rationals
    BY <2>1, <2>b, FlowIsTimed DEF IsTimed
  <2>3. n <= m
    <3>a. PICK W : W = whole_model_time(ctx, a.variant, w)
      OBVIOUS
    <3>b. PICK h : h = [i \in {k} |-> execution_time(ctx, a, i)]
      OBVIOUS
    <3>1. {k} \subseteq {i \in components(a) : a.worker_of[i] = w}
      BY <2>1
    <3>2. Counts(h, {k}) /\ SumOver(h, {k}) <= W
      BY <1>0, <2>1, <3>1, <3>a, <3>b, ExecutionTimesAre
    <3>3. n <= SumOver(h, {k}) /\ SumOver(h, {k}) \in Nat
      BY <2>b, <3>2, <3>b, CountIsAtMostSum
    <3>4. W <= m /\ W \in Nat
      BY <1>0, <1>1, <2>1, <3>a, WholeTimeIs
    <3> QED BY <1>1, <2>2, <3>2, <3>3, <3>4
  <2>4. Leq(<<n, 1>>, <<m, 1>>)
    BY <1>1, <2>2, <2>3, LeqOver, WholeIs, PositiveIs
  <2>5. Leq(Times(<<n, 1>>, t.utilization[k]), Times(<<m, 1>>, t.utilization[k]))
    BY <1>2, <2>2, <2>4, LeqIsOrder, TimesIsMonotone
  <2>6. t.second_moment[k] = Times(<<n, 1>>, t.utilization[k])
    <3>1. Times(Times(rate, <<n, 1>>), <<n, 1>>) = Times(rate, Times(<<n, 1>>, <<n, 1>>))
      BY <2>2, TimesAssociates
    <3>2. Times(t.utilization[k], <<n, 1>>) = Times(<<n, 1>>, t.utilization[k])
      BY <2>2, TimesCommutes
    <3> QED BY <2>2, <3>1, <3>2
  <2> QED BY <1>a, <1>b, <1>c, <2>5, <2>6
<1>6. Leq(Total(e), Total(g))
  BY <1>3, <1>4, <1>5, <1>a, <1>c, TotalRises
<1>7. Total(u) \in Rationals /\ Total(e) \in Rationals /\ Leq(Total(u), limit)
  <2>1. utilization(timings, C) = Total(u)
    BY <1>b DEF utilization
  <2>2. Leq(utilization(timings, C), limit)
    BY DEF stable, compute_stability
  <2> QED BY <1>3, <2>1, <2>2, TotalIsRational
<1>8. Leq(Total(g), bound) /\ bound \in Rationals /\ Total(g) \in Rationals
  <2>1. bound = Times(<<m, 1>>, limit)
    BY <1>2, TimesCommutes
  <2>2. Leq(Times(<<m, 1>>, Total(u)), Times(<<m, 1>>, limit))
    BY <1>2, <1>7, LeqIsOrder, TimesIsMonotone
  <2> QED BY <1>2, <1>4, <2>1, <2>2, TimesIsRational, TotalIsRational
<1>9. second_moment(answers, timings, w) = Total(e)
  BY <1>a DEF second_moment
<1> QED BY <1>6, <1>7, <1>8, <1>9, LeqIsTransitive

\* No queue waits longer than the bounds of the problem.
LEMMA WaitsAreBounded ==
  ASSUME NEW ctx, NEW requests, NEW answers, NEW timings,
         IsProblem(ctx, requests, answers, timings), stable(ctx, answers, timings),
         NEW w \in ctx.workers, DOMAIN requests # {},
         NEW r, Ranks(r, answers, w), NEW p \in Nat \ {0},
         NEW worst, worst = max_queue_wait(ctx, requests, w)
  PROVE  /\ Leq(queue_wait(answers, timings, r, w, p),
                queue_wait_bound(worst, answers, timings, r, w, p))
         /\ Leq(queue_wait(answers, timings, r, w, p), worst)
<1>a. PICK free : free = Minus(One, Fraction(ComputeLimit, 100))
  OBVIOUS
<1>b. PICK x, y : /\ x = max_second_moment(ctx, requests, w)
                  /\ y = Times(Fraction(ComputeLimit, 100), <<maximum_time(ctx, requests, w), 1>>)
  OBVIOUS
<1>c. PICK most : most = Least(x, y)
  OBVIOUS
<1>1. x \in Rationals /\ Leq(second_moment(answers, timings, w), x)
  BY <1>b, SecondMomentIsAtMost
<1>2. y \in Rationals /\ Leq(second_moment(answers, timings, w), y)
  BY <1>b, SecondMomentIsLimited
<1>3. most \in Rationals /\ Leq(second_moment(answers, timings, w), most)
  BY <1>1, <1>2, <1>c, LeastIs
<1>4. worst = Over(most, Times(<<2, 1>>, Times(free, free)))
  BY <1>a, <1>b, <1>c DEF max_queue_wait
<1>5. IsQueue(answers, timings, r, w, p)
  BY QueuesAre
<1> QED BY <1>3, <1>4, <1>5, <1>a, WaitIsBounded

-----------------------------------------------------------------------------
(* Worker plans.                                                           *)

\* Slots as the builder orders them: finitely many pairs of numbers.
AreSlots(slots) ==
  /\ IsFiniteSet(slots)
  /\ \A s \in slots : s = <<s[1], s[2]>> /\ s[1] \in Nat /\ s[2] \in Nat

rank(slots, s) == Cardinality({t \in slots : Before(t, s)})

LEMMA SlotsAreOrdered ==
  ASSUME NEW slots, AreSlots(slots)
  PROVE  /\ \A s \in slots : ~ Before(s, s)
         /\ \A s, t \in slots : s = t \/ Before(s, t) \/ Before(t, s)
         /\ \A s, t, u \in slots : Before(s, t) /\ Before(t, u) => Before(s, u)
<1>1. \A s \in slots : s[1] \in Nat /\ s[2] \in Nat
  BY DEF AreSlots
<1>2. ASSUME NEW s \in slots, NEW t \in slots
      PROVE  s = t \/ Before(s, t) \/ Before(t, s)
  <2>1. s = <<s[1], s[2]>> /\ t = <<t[1], t[2]>>
    BY DEF AreSlots
  <2> QED BY <1>1, <2>1 DEF Before
<1>3. \A s \in slots : ~ Before(s, s)
  BY <1>1 DEF Before
<1>4. \A s, t, u \in slots : Before(s, t) /\ Before(t, u) => Before(s, u)
  BY <1>1 DEF Before
<1> QED BY <1>2, <1>3, <1>4

LEMMA RanksRise ==
  ASSUME NEW slots, AreSlots(slots), NEW s \in slots
  PROVE  /\ rank(slots, s) \in 0 .. Cardinality(slots) - 1
         /\ \A t \in slots : Before(s, t) => rank(slots, s) < rank(slots, t)
<1> DEFINE earlier(t) == {u \in slots : Before(u, t)}
<1>1. \A t \in slots : /\ IsFiniteSet(earlier(t)) /\ rank(slots, t) = Cardinality(earlier(t))
                       /\ Cardinality(earlier(t)) \in Nat
  <2> SUFFICES ASSUME NEW t \in slots
               PROVE  /\ IsFiniteSet(earlier(t)) /\ rank(slots, t) = Cardinality(earlier(t))
                      /\ Cardinality(earlier(t)) \in Nat
    OBVIOUS
  <2>1. IsFiniteSet(earlier(t))
    BY FS_Subset DEF AreSlots
  <2> QED BY <2>1, FS_CardinalityType DEF rank
<1>2. earlier(s) \in SUBSET slots /\ earlier(s) # slots
  BY SlotsAreOrdered
<1>3. Cardinality(earlier(s)) < Cardinality(slots) /\ Cardinality(slots) \in Nat
  <2>1. IsFiniteSet(slots) /\ Cardinality(slots) \in Nat
    BY FS_CardinalityType DEF AreSlots
  <2> HIDE DEF earlier
  <2>2. Cardinality(earlier(s)) <= Cardinality(slots)
        /\ (Cardinality(earlier(s)) = Cardinality(slots) => slots = earlier(s))
    BY <1>2, <2>1, FS_Subset
  <2> QED BY <1>1, <1>2, <2>1, <2>2
<1>4. ASSUME NEW t \in slots, Before(s, t) PROVE Cardinality(earlier(s)) < Cardinality(earlier(t))
  <2>1. earlier(s) \in SUBSET earlier(t)
    BY <1>4, SlotsAreOrdered
  <2>2. s \in earlier(t) /\ s \notin earlier(s)
    BY <1>4, SlotsAreOrdered
  <2> HIDE DEF earlier
  <2>3. earlier(s) # earlier(t)
    BY <2>2
  <2>4. Cardinality(earlier(s)) <= Cardinality(earlier(t))
        /\ (Cardinality(earlier(s)) = Cardinality(earlier(t)) => earlier(t) = earlier(s))
    BY <1>1, <2>1, FS_Subset
  <2> QED BY <1>1, <2>3, <2>4
<1> HIDE DEF earlier
<1> QED BY <1>1, <1>3, <1>4

\* Every position below the number of slots is that of exactly one slot.
LEMMA Positions ==
  ASSUME NEW slots, AreSlots(slots)
  PROVE  /\ \A s, t \in slots : rank(slots, s) = rank(slots, t) => s = t
         /\ \A n \in 0 .. Cardinality(slots) - 1 : \E s \in slots : rank(slots, s) = n
<1> PICK N : N = Cardinality(slots)
  OBVIOUS
<1>0. IsFiniteSet(slots) /\ N \in Nat
  BY FS_CardinalityType DEF AreSlots
<1>1. ASSUME NEW s \in slots, NEW t \in slots, rank(slots, s) = rank(slots, t) PROVE s = t
  <2>1. rank(slots, s) \in 0 .. N - 1 /\ ~ Before(s, t) /\ ~ Before(t, s)
    BY <1>0, <1>1, RanksRise
  <2> QED BY <2>1, SlotsAreOrdered
<1> PICK f : f = [s \in slots |-> rank(slots, s)]
  OBVIOUS
<1> PICK R : R = {rank(slots, s) : s \in slots}
  OBVIOUS
<1>2. f \in [slots -> R] /\ f \in Surjection(slots, R)
  BY DEF Surjection
<1>3. f \in Injection(slots, R)
  BY <1>1, <1>2 DEF Injection, IsInjective
<1>4. IsFiniteSet(R) /\ Cardinality(R) = N
  BY <1>0, <1>2, <1>3, FS_Surjection
<1>5. R \in SUBSET (0 .. N - 1)
  BY RanksRise
<1>6. IsFiniteSet(0 .. N - 1) /\ Cardinality(0 .. N - 1) = N
  <2>1. /\ IsFiniteSet(0 .. N - 1)
        /\ Cardinality(0 .. N - 1) = IF 0 <= N - 1 THEN (N - 1) - 0 + 1 ELSE 0
    <3>1. 0 \in Int /\ N - 1 \in Int
      BY <1>0
    <3> QED BY <3>1, FS_Interval
  <2> QED BY <1>0, <2>1
<1>7. R = 0 .. N - 1
  BY <1>4, <1>5, <1>6, FS_Subset
<1> QED BY <1>1, <1>7

\* The list of the slots has each of them once.
LEMMA InOrder ==
  ASSUME NEW slots, AreSlots(slots)
  PROVE  /\ DOMAIN in_order(slots) = 1 .. Cardinality(slots) /\ Cardinality(slots) \in Nat
         /\ \A n \in 1 .. Cardinality(slots) :
              in_order(slots)[n] \in slots /\ rank(slots, in_order(slots)[n]) = n - 1
         /\ \A s \in slots : rank(slots, s) + 1 \in 1 .. Cardinality(slots)
                             /\ in_order(slots)[rank(slots, s) + 1] = s
<1> PICK N : N = Cardinality(slots)
  OBVIOUS
<1>0. N \in Nat
  BY FS_CardinalityType DEF AreSlots
<1>1. DOMAIN in_order(slots) = 1 .. N
  BY DEF in_order
<1>2. ASSUME NEW n \in 1 .. N
      PROVE  in_order(slots)[n] \in slots /\ rank(slots, in_order(slots)[n]) = n - 1
  <2>1. n - 1 \in 0 .. N - 1
    BY <1>0
  <2>2. \E s \in slots : rank(slots, s) = n - 1
    BY <2>1, Positions
  <2>3. in_order(slots)[n] = CHOOSE s \in slots : rank(slots, s) = n - 1
    BY DEF in_order, rank
  <2> QED BY <2>2, <2>3
<1>3. ASSUME NEW s \in slots
      PROVE  rank(slots, s) + 1 \in 1 .. N /\ in_order(slots)[rank(slots, s) + 1] = s
  <2>1. rank(slots, s) \in 0 .. N - 1
    BY RanksRise
  <2> PICK n : n = rank(slots, s) + 1
    OBVIOUS
  <2>2. n \in 1 .. N /\ n - 1 = rank(slots, s)
    BY <1>0, <2>1
  <2> QED BY <1>2, <2>2, Positions
<1> QED BY <1>0, <1>1, <1>2, <1>3

\* A list of a plan: its entries are those of the slots, each at its slot's position.
LEMMA ListedEntries ==
  ASSUME NEW slots, AreSlots(slots), NEW entry
  PROVE  /\ DOMAIN Listed(entry, slots) = 1 .. Cardinality(slots)
         /\ Len(Listed(entry, slots)) = Cardinality(slots)
         /\ \A n \in 1 .. Cardinality(slots) :
              Listed(entry, slots)[n] = entry[in_order(slots)[n]]
<1> PICK N : N = Cardinality(slots)
  OBVIOUS
<1> PICK order : order = in_order(slots)
  OBVIOUS
<1> PICK list : list = Listed(entry, slots)
  OBVIOUS
<1>1. /\ DOMAIN order = 1 .. N /\ N \in Nat
      /\ \A n \in 1 .. N : order[n] \in slots
  BY InOrder
<1>2. list = [n \in 1 .. N |-> entry[order[n]]]
  BY <1>1 DEF Listed
<1>3. list \in Seq({entry[s] : s \in slots})
  BY <1>1, <1>2
<1>4. Len(list) = N
  BY <1>1, <1>2, <1>3
<1> QED BY <1>1, <1>2, <1>4

LEMMA ListedFrom ==
  ASSUME NEW slots, AreSlots(slots), NEW entry, NEW n \in DOMAIN Listed(entry, slots)
  PROVE  \E s \in slots : Listed(entry, slots)[n] = entry[s]
<1>1. n \in 1 .. Cardinality(slots)
  BY ListedEntries
<1>2. in_order(slots)[n] \in slots
  BY <1>1, InOrder
<1>3. Listed(entry, slots)[n] = entry[in_order(slots)[n]]
  BY <1>1, ListedEntries
<1> QED BY <1>2, <1>3

LEMMA ListedRange ==
  ASSUME NEW slots, AreSlots(slots), NEW entry
  PROVE  Range(Listed(entry, slots)) = {entry[s] : s \in slots}
<1> PICK N : N = Cardinality(slots)
  OBVIOUS
<1> PICK order : order = in_order(slots)
  OBVIOUS
<1>1. /\ DOMAIN order = 1 .. N
      /\ \A n \in 1 .. N : order[n] \in slots
      /\ \A s \in slots : \E n \in 1 .. N : order[n] = s
  <2>1. \A s \in slots : \E n \in 1 .. N : order[n] = s
    BY InOrder
  <2> QED BY <2>1, InOrder
<1>2. Listed(entry, slots) = [n \in 1 .. N |-> entry[order[n]]]
  BY <1>1 DEF Listed
<1> QED BY <1>1, <1>2 DEF Range

LEMMA ListedOnce ==
  ASSUME NEW slots, AreSlots(slots), NEW entry,
         \A s, t \in slots : entry[s] = entry[t] => s = t
  PROVE  IsInjective(Listed(entry, slots))
<1> PICK N : N = Cardinality(slots)
  OBVIOUS
<1> SUFFICES ASSUME NEW m \in 1 .. N, NEW n \in 1 .. N,
                    Listed(entry, slots)[m] = Listed(entry, slots)[n]
             PROVE  m = n
  BY ListedEntries DEF IsInjective
<1>1. in_order(slots)[m] = in_order(slots)[n]
  BY ListedEntries, InOrder
<1>2. rank(slots, in_order(slots)[m]) = m - 1
  BY InOrder
<1>3. rank(slots, in_order(slots)[n]) = n - 1
  BY InOrder
<1>4. N \in Nat
  BY InOrder
<1> QED BY <1>1, <1>2, <1>3, <1>4

\* What is looked up in one list by an entry of another belongs to the same slot.
LEMMA LookUp ==
  ASSUME NEW slots, AreSlots(slots), NEW key, NEW entry,
         \A s, t \in slots : key[s] = key[t] => s = t, NEW s \in slots
  PROVE  Listed(entry, slots)[index(Listed(key, slots), key[s])] = entry[s]
<1> PICK N : N = Cardinality(slots)
  OBVIOUS
<1> PICK keys : keys = Listed(key, slots)
  OBVIOUS
<1> PICK p : p = rank(slots, s) + 1
  OBVIOUS
<1>1. N \in Nat /\ p \in 1 .. N /\ in_order(slots)[p] = s
  BY InOrder
<1>2. Len(keys) = N /\ keys[p] = key[s]
  BY <1>1, ListedEntries
<1>3. \A n \in 1 .. N : keys[n] = key[s] => n = p
  <2>1. IsInjective(keys) /\ DOMAIN keys = 1 .. N
    BY ListedOnce, ListedEntries
  <2> QED BY <1>1, <1>2, <2>1 DEF IsInjective
<1> PICK I : I = {n \in 1 .. Len(keys) : keys[n] = key[s]}
  OBVIOUS
<1>4. I = {p}
  BY <1>1, <1>2, <1>3
<1>5. Min({p}) = p
  BY <1>1 DEF Min
<1>6. index(keys, key[s]) = p
  <2>1. index(keys, key[s]) = IF I # {} THEN Min(I) ELSE 0
    BY DEF index, SelectInSeq
  <2> QED BY <1>4, <1>5, <2>1
<1> QED BY <1>1, <1>6, ListedEntries

-----------------------------------------------------------------------------
(* Plans.                                                                  *)

\* A plan as the conversion makes it: its parts are about the same slots, which
\* have different hops, and every route carries something.
IsPlan(plan) ==
  LET executed == DOMAIN plan.executable_hops
      slots == DOMAIN plan.hop_addresses
  IN /\ AreSlots(slots) /\ executed \subseteq slots
     /\ DOMAIN plan.endpoint_hops = slots \ executed /\ DOMAIN plan.routings = slots
     /\ \A s, t \in slots : plan.hop_addresses[s].hop = plan.hop_addresses[t].hop => s = t
     /\ \A s \in executed :
          /\ plan.executable_hops[s] = plan.hop_addresses[s].hop
          /\ plan.hop_addresses[s].hop.kind = "partition"
          /\ plan.priority_keys[s] = plan.hop_addresses[s]
          /\ plan.priorities[s] \in Nat
          /\ \E p \in plan.schemes : p.partition = plan.executable_hops[s].of
     /\ \A s \in slots \ executed :
          /\ plan.endpoint_hops[s] = plan.hop_addresses[s].hop
          /\ plan.hop_addresses[s].hop.kind \in {"ingress", "sink"}
     /\ \A s \in slots :
          /\ plan.routings[s].input.tensors # {}
          /\ plan.routings[s].input.source.hop = ExternalHop
               \/ plan.routings[s].input.source.hop.kind \in {"ingress", "partition"}
          /\ \A o \in plan.routings[s].output :
               o.tensors # {} /\ o.destination.hop.kind \in {"partition", "sink"}
          /\ \A o, q \in plan.routings[s].output : o = q

\* The slots a partition's scheme is taken from.
partition_of(plan) == [s \in DOMAIN plan.executable_hops |-> plan.executable_hops[s].of]
first_slots(plan) ==
  {s \in DOMAIN plan.executable_hops :
     \A t \in DOMAIN plan.executable_hops :
       Before(t, s) => plan.executable_hops[t].of # plan.executable_hops[s].of}
scheme_of(plan, partition) ==
  LET scheme == CHOOSE p \in plan.schemes : p.partition = partition
  IN [inputs |-> scheme.inputs, outputs |-> scheme.outputs]
endpoint_slots(plan, kind) ==
  {s \in DOMAIN plan.endpoint_hops : plan.endpoint_hops[s].kind = kind}

LEMMA SlotsWithin ==
  ASSUME NEW slots, AreSlots(slots), NEW part \in SUBSET slots
  PROVE  AreSlots(part)
BY FS_Subset DEF AreSlots

LEMMA PartsOfPlan ==
  ASSUME NEW plan, IsPlan(plan)
  PROVE  /\ AreSlots(DOMAIN plan.hop_addresses) /\ AreSlots(DOMAIN plan.executable_hops)
         /\ AreSlots(first_slots(plan))
         /\ \A kind : AreSlots(endpoint_slots(plan, kind))
<1>1. AreSlots(DOMAIN plan.hop_addresses)
  BY DEF IsPlan
<1>2. /\ DOMAIN plan.executable_hops \in SUBSET DOMAIN plan.hop_addresses
      /\ first_slots(plan) \in SUBSET DOMAIN plan.hop_addresses
      /\ \A kind : endpoint_slots(plan, kind) \in SUBSET DOMAIN plan.hop_addresses
  BY DEF IsPlan, first_slots, endpoint_slots
<1> QED BY <1>1, <1>2, SlotsWithin

\* Every executed partition has a first slot.
LEMMA FirstSlots ==
  ASSUME NEW plan, IsPlan(plan), NEW s \in DOMAIN plan.executable_hops
  PROVE  \E t \in first_slots(plan) : plan.executable_hops[t].of = plan.executable_hops[s].of
<1> PICK executed : executed = DOMAIN plan.executable_hops
  OBVIOUS
<1> PICK same : same = {t \in executed : plan.executable_hops[t].of = plan.executable_hops[s].of}
  OBVIOUS
<1>1. AreSlots(executed) /\ AreSlots(same) /\ s \in same
  <2>1. AreSlots(executed) /\ same \in SUBSET executed
    BY PartsOfPlan
  <2> QED BY <2>1, SlotsWithin
<1>2. PICK t \in same : rank(same, t) = 0
  <2>1. 0 \in 0 .. Cardinality(same) - 1
    <3>1. rank(same, s) \in 0 .. Cardinality(same) - 1
      BY <1>1, RanksRise
    <3>2. Cardinality(same) \in Nat
      BY <1>1, FS_CardinalityType DEF AreSlots
    <3> QED BY <3>1, <3>2
  <2> QED BY <1>1, <2>1, Positions
<1>3. ASSUME NEW u \in executed, Before(u, t)
      PROVE  plan.executable_hops[u].of # plan.executable_hops[t].of
  <2>1. SUFFICES ASSUME u \in same PROVE FALSE
    OBVIOUS
  <2>2. rank(same, u) < rank(same, t) /\ rank(same, u) \in 0 .. Cardinality(same) - 1
    BY <1>1, <1>3, <2>1, RanksRise
  <2>3. Cardinality(same) \in Nat
    BY <1>1, FS_CardinalityType DEF AreSlots
  <2> QED BY <1>2, <2>2, <2>3
<1>4. t \in first_slots(plan)
  BY <1>3 DEF first_slots
<1> QED BY <1>4

\* The lists of a plan.
LEMMA PartsOfSent ==
  ASSUME NEW plan, IsPlan(plan)
  PROVE  LET executed == DOMAIN plan.executable_hops
             slots == DOMAIN plan.hop_addresses
             sent == build_worker_plan(plan)
         IN /\ sent.deployment_plan.executable_hops = Listed(plan.executable_hops, executed)
            /\ sent.deployment_plan.allocations = Listed(plan.allocations, executed)
            /\ sent.deployment_plan.ingress_hops
                 = Listed(plan.endpoint_hops, endpoint_slots(plan, "ingress"))
            /\ sent.deployment_plan.sink_hops
                 = Listed(plan.endpoint_hops, endpoint_slots(plan, "sink"))
            /\ sent.scheduling_plan.priority_keys = Listed(plan.priority_keys, executed)
            /\ sent.scheduling_plan.priorities = Listed(plan.priorities, executed)
            /\ sent.partition_execution_plan.partition_ids
                 = Listed(partition_of(plan), first_slots(plan))
            /\ \E scheme :
                 /\ sent.partition_execution_plan.schemes = Listed(scheme, first_slots(plan))
                 /\ \A s \in first_slots(plan) : scheme[s] = scheme_of(plan, plan.executable_hops[s].of)
            /\ sent.hop_routing_plan.hop_addresses = Listed(plan.hop_addresses, slots)
            /\ sent.hop_routing_plan.routings
                 = Listed([s \in slots |-> [input_routings |-> {plan.routings[s].input},
                                            output_routings |-> plan.routings[s].output]], slots)
<1> PICK executed, slots, partition, first :
      /\ executed = DOMAIN plan.executable_hops /\ slots = DOMAIN plan.hop_addresses
      /\ partition = partition_of(plan) /\ first = first_slots(plan)
  OBVIOUS
<1> DEFINE with_scheme == {s \in executed : \E p \in plan.schemes : p.partition = partition[s]}
           listed == {s \in with_scheme : \A t \in with_scheme :
                        Before(t, s) => partition[t] # partition[s]}
<1>1. partition = [s \in executed |-> plan.executable_hops[s].of]
  BY DEF partition_of
<1>2. with_scheme = executed
  BY <1>1 DEF IsPlan
<1>3. listed = first
  <2>1. \A s \in executed : partition[s] = plan.executable_hops[s].of
    BY <1>1
  <2>2. first = {s \in executed : \A t \in executed :
                   Before(t, s) => plan.executable_hops[t].of # plan.executable_hops[s].of}
    BY DEF first_slots
  <2> HIDE DEF with_scheme
  <2> QED BY <1>2, <2>1, <2>2
<1>4. DOMAIN plan.routings = slots
  BY DEF IsPlan
<1> PICK sent : sent = build_worker_plan(plan)
  OBVIOUS
<1>5. /\ sent.deployment_plan.executable_hops = Listed(plan.executable_hops, executed)
      /\ sent.deployment_plan.allocations = Listed(plan.allocations, executed)
  BY DEF build_worker_plan
<1>6. /\ sent.deployment_plan.ingress_hops
           = Listed(plan.endpoint_hops, endpoint_slots(plan, "ingress"))
      /\ sent.deployment_plan.sink_hops
           = Listed(plan.endpoint_hops, endpoint_slots(plan, "sink"))
  BY DEF build_worker_plan, endpoint_slots
<1>7. /\ sent.scheduling_plan.priority_keys = Listed(plan.priority_keys, executed)
      /\ sent.scheduling_plan.priorities = Listed(plan.priorities, executed)
  BY DEF build_worker_plan
<1>8. /\ sent.partition_execution_plan.partition_ids = Listed(partition, listed)
      /\ \E scheme :
           /\ sent.partition_execution_plan.schemes = Listed(scheme, listed)
           /\ \A s \in listed : scheme[s] = scheme_of(plan, plan.executable_hops[s].of)
  <2> DEFINE ids == [s \in DOMAIN plan.executable_hops |-> plan.executable_hops[s].of]
             planned == {s \in DOMAIN plan.executable_hops :
                           \E p \in plan.schemes : p.partition = ids[s]}
             heads == {s \in planned : \A t \in planned : Before(t, s) => ids[t] # ids[s]}
             chosen == [s \in heads |-> CHOOSE p \in plan.schemes : p.partition = ids[s]]
             told == [s \in heads |-> [inputs |-> chosen[s].inputs, outputs |-> chosen[s].outputs]]
  <2>1. sent.partition_execution_plan
          = [partition_ids |-> Listed(ids, heads), schemes |-> Listed(told, heads)]
    BY DEF build_worker_plan
  <2>2. ids = partition /\ heads = listed
    <3>1. ids = partition
      BY <1>1
    <3>2. planned = with_scheme
      <4> HIDE DEF ids
      <4> QED BY <3>1
    <3> HIDE DEF ids, planned, with_scheme
    <3>3. heads = listed
      BY <3>1, <3>2
    <3> QED BY <3>1, <3>3
  <2>3. ASSUME NEW s \in heads PROVE told[s] = scheme_of(plan, plan.executable_hops[s].of)
    <3>1. s \in DOMAIN plan.executable_hops
      OBVIOUS
    <3>2. ids[s] = plan.executable_hops[s].of
      BY <3>1
    <3>3. told[s] = [inputs |-> chosen[s].inputs, outputs |-> chosen[s].outputs]
      <4> HIDE DEF heads, chosen
      <4> QED OBVIOUS
    <3>4. chosen[s] = CHOOSE p \in plan.schemes : p.partition = ids[s]
      <4> HIDE DEF heads, ids
      <4> QED OBVIOUS
    <3> HIDE DEF told, chosen, heads, ids
    <3> QED BY <3>2, <3>3, <3>4, Zenon DEF scheme_of
  <2> HIDE DEF ids, heads, told, listed
  <2> QED BY <2>1, <2>2, <2>3
<1>9. /\ sent.hop_routing_plan.hop_addresses = Listed(plan.hop_addresses, slots)
      /\ sent.hop_routing_plan.routings
           = Listed([s \in slots |-> [input_routings |-> {plan.routings[s].input},
                                      output_routings |-> plan.routings[s].output]], slots)
  BY <1>4 DEF build_worker_plan
<1> HIDE DEF listed
<1> QED BY <1>3, <1>5, <1>6, <1>7, <1>8, <1>9

\* The controller does not reject the plan it has built.
THEOREM SentIsValid ==
  ASSUME NEW plan, IsPlan(plan)
  PROVE  worker_plan_is_valid(build_worker_plan(plan))
<1> PICK executed, slots, first, sent :
      /\ executed = DOMAIN plan.executable_hops /\ slots = DOMAIN plan.hop_addresses
      /\ first = first_slots(plan) /\ sent = build_worker_plan(plan)
  OBVIOUS
<1>a. PICK hops, ingresses, sinks, keys, priorities, ids, contracts, addresses, routings :
      /\ hops = sent.deployment_plan.executable_hops
      /\ ingresses = sent.deployment_plan.ingress_hops /\ sinks = sent.deployment_plan.sink_hops
      /\ keys = sent.scheduling_plan.priority_keys
      /\ priorities = sent.scheduling_plan.priorities
      /\ ids = sent.partition_execution_plan.partition_ids
      /\ contracts = sent.partition_execution_plan.schemes
      /\ addresses = sent.hop_routing_plan.hop_addresses
      /\ routings = sent.hop_routing_plan.routings
  OBVIOUS
<1>b. PICK routed : routed = [s \in slots |-> [input_routings |-> {plan.routings[s].input},
                                             output_routings |-> plan.routings[s].output]]
  OBVIOUS
<1>1. /\ AreSlots(slots) /\ AreSlots(executed) /\ AreSlots(first)
      /\ \A kind : AreSlots(endpoint_slots(plan, kind))
      /\ executed \subseteq slots /\ first \subseteq executed
      /\ \A kind : endpoint_slots(plan, kind)
                    = {s \in slots \ executed : plan.hop_addresses[s].hop.kind = kind}
      /\ \A s, t \in slots : plan.hop_addresses[s].hop = plan.hop_addresses[t].hop => s = t
  <2>1. \A kind : endpoint_slots(plan, kind)
                    = {s \in slots \ executed : plan.hop_addresses[s].hop.kind = kind}
    BY DEF IsPlan, endpoint_slots
  <2>2. executed \subseteq slots /\ first \subseteq executed
    BY DEF IsPlan, first_slots
  <2>3. \A s, t \in slots : plan.hop_addresses[s].hop = plan.hop_addresses[t].hop => s = t
    BY DEF IsPlan
  <2> QED BY <2>1, <2>2, <2>3, PartsOfPlan
<1>2. /\ hops = Listed(plan.executable_hops, executed)
      /\ ingresses = Listed(plan.endpoint_hops, endpoint_slots(plan, "ingress"))
      /\ sinks = Listed(plan.endpoint_hops, endpoint_slots(plan, "sink"))
      /\ keys = Listed(plan.priority_keys, executed)
      /\ priorities = Listed(plan.priorities, executed)
      /\ ids = Listed(partition_of(plan), first)
      /\ addresses = Listed(plan.hop_addresses, slots)
      /\ routings = Listed(routed, slots)
  BY <1>a, <1>b, PartsOfSent
<1>3. ASSUME NEW s \in executed
      PROVE  /\ plan.executable_hops[s] = plan.hop_addresses[s].hop
             /\ plan.priority_keys[s] = plan.hop_addresses[s]
             /\ plan.priorities[s] \in Nat
  BY DEF IsPlan
<1>4. ASSUME NEW s \in slots \ executed
      PROVE  /\ plan.endpoint_hops[s] = plan.hop_addresses[s].hop
             /\ plan.hop_addresses[s].hop.kind \in {"ingress", "sink"}
  BY DEF IsPlan
<1>5. deployment_is_valid(sent.deployment_plan)
  <2>1. IsInjective(hops)
    <3>1. \A s, t \in executed : plan.executable_hops[s] = plan.executable_hops[t] => s = t
      BY <1>1, <1>3
    <3> QED BY <1>1, <1>2, <3>1, ListedOnce
  <2>2. ASSUME NEW kind PROVE IsInjective(Listed(plan.endpoint_hops, endpoint_slots(plan, kind)))
    <3>1. \A s, t \in endpoint_slots(plan, kind) :
            plan.endpoint_hops[s] = plan.endpoint_hops[t] => s = t
      BY <1>1, <1>4
    <3> QED BY <1>1, <3>1, ListedOnce
  <2>3. Len(hops) = Len(sent.deployment_plan.allocations)
    <3>1. sent.deployment_plan.allocations = Listed(plan.allocations, executed)
      BY PartsOfSent
    <3>2. /\ Len(Listed(plan.allocations, executed)) = Cardinality(executed)
          /\ Len(Listed(plan.executable_hops, executed)) = Cardinality(executed)
      BY <1>1, ListedEntries
    <3> QED BY <1>2, <3>1, <3>2
  <2> QED BY <1>a, <1>2, <2>1, <2>2, <2>3 DEF deployment_is_valid
<1>6. scheduling_is_valid(sent.scheduling_plan)
  <2>1. IsInjective(keys)
    <3>1. \A s, t \in executed : plan.priority_keys[s] = plan.priority_keys[t] => s = t
      BY <1>1, <1>3
    <3> QED BY <1>1, <1>2, <3>1, ListedOnce
  <2>2. Len(keys) = Len(priorities)
    BY <1>1, <1>2, ListedEntries
  <2>3. ASSUME NEW n \in DOMAIN priorities PROVE priorities[n] >= 0
    <3>1. n \in 1 .. Cardinality(executed) /\ priorities[n] = plan.priorities[in_order(executed)[n]]
      BY <1>1, <1>2, ListedEntries
    <3>2. priorities[n] \in Nat
      BY <1>1, <1>3, <3>1, InOrder
    <3> QED BY <3>2
  <2> QED BY <1>a, <2>1, <2>2, <2>3 DEF scheduling_is_valid
<1>7. execution_is_valid(sent.partition_execution_plan)
  <2>1. \A s, t \in first : partition_of(plan)[s] = partition_of(plan)[t] => s = t
    <3> SUFFICES ASSUME NEW s \in first, NEW t \in first,
                        partition_of(plan)[s] = partition_of(plan)[t]
                 PROVE  s = t
      OBVIOUS
    <3>1. plan.executable_hops[s].of = plan.executable_hops[t].of
      BY <1>1 DEF partition_of
    <3>2. ~ Before(s, t) /\ ~ Before(t, s)
      BY <1>1, <3>1 DEF first_slots
    <3> QED BY <1>1, <3>2, SlotsAreOrdered
  <2>2. IsInjective(ids)
    BY <1>1, <1>2, <2>1, ListedOnce
  <2>3. Len(ids) = Len(contracts)
    <3>1. PICK scheme : contracts = Listed(scheme, first)
      BY <1>a, PartsOfSent
    <3> QED BY <1>1, <1>2, <3>1, ListedEntries
  <2> QED BY <1>a, <2>2, <2>3 DEF execution_is_valid
<1>8. routing_is_valid(sent.hop_routing_plan)
  <2>1. IsInjective(addresses)
    <3>1. \A s, t \in slots : plan.hop_addresses[s] = plan.hop_addresses[t] => s = t
      BY <1>1
    <3> QED BY <1>1, <1>2, <3>1, ListedOnce
  <2>2. Len(addresses) = Len(routings)
    BY <1>1, <1>2, ListedEntries
  <2>3. ASSUME NEW n \in DOMAIN routings PROVE hop_routings_are_valid(routings[n])
    <3>1. n \in DOMAIN Listed(routed, slots) /\ AreSlots(slots)
      BY <1>1, <1>2
    <3>2. PICK s \in slots : routings[n] = routed[s]
      BY <1>2, <3>1, ListedFrom
    <3>3. /\ routings[n].input_routings = {plan.routings[s].input}
          /\ routings[n].output_routings = plan.routings[s].output
      BY <1>b, <3>2
    <3>4. /\ plan.routings[s].input.tensors # {}
          /\ \A o \in plan.routings[s].output : o.tensors # {}
          /\ \A o, q \in plan.routings[s].output : o = q
      BY DEF IsPlan
    <3> QED BY <3>3, <3>4 DEF hop_routings_are_valid
  <2> QED BY <1>a, <2>1, <2>2, <2>3 DEF routing_is_valid
<1>9. /\ Range(hops) = {plan.executable_hops[s] : s \in executed}
       /\ Range(ingresses) = {plan.endpoint_hops[s] : s \in endpoint_slots(plan, "ingress")}
       /\ Range(sinks) = {plan.endpoint_hops[s] : s \in endpoint_slots(plan, "sink")}
       /\ Range(keys) = {plan.priority_keys[s] : s \in executed}
       /\ Range(ids) = {partition_of(plan)[s] : s \in first}
       /\ Range(addresses) = {plan.hop_addresses[s] : s \in slots}
  <2>1. \A S, entry : AreSlots(S) => Range(Listed(entry, S)) = {entry[s] : s \in S}
    BY ListedRange
  <2>2. AreSlots(executed) /\ AreSlots(first) /\ AreSlots(slots)
    BY <1>1
  <2>3. AreSlots(endpoint_slots(plan, "ingress")) /\ AreSlots(endpoint_slots(plan, "sink"))
    BY <1>1
  <2>4. /\ Range(Listed(plan.executable_hops, executed)) = {plan.executable_hops[s] : s \in executed}
        /\ Range(Listed(plan.priority_keys, executed)) = {plan.priority_keys[s] : s \in executed}
    BY <2>1, <2>2, ZenonT(30)
  <2>6. /\ Range(Listed(partition_of(plan), first)) = {partition_of(plan)[s] : s \in first}
        /\ Range(Listed(plan.hop_addresses, slots)) = {plan.hop_addresses[s] : s \in slots}
    BY <2>1, <2>2, ZenonT(30)
  <2>5. /\ Range(Listed(plan.endpoint_hops, endpoint_slots(plan, "ingress")))
             = {plan.endpoint_hops[s] : s \in endpoint_slots(plan, "ingress")}
        /\ Range(Listed(plan.endpoint_hops, endpoint_slots(plan, "sink")))
             = {plan.endpoint_hops[s] : s \in endpoint_slots(plan, "sink")}
    BY <2>1, <2>3, Zenon
  <2> QED BY <1>2, <2>4, <2>5, <2>6, Zenon
<1>10. planned_hops(sent) = {a.hop : a \in Range(sent.hop_routing_plan.hop_addresses)}
  <2>1. /\ Range(hops) = {plan.executable_hops[s] : s \in executed}
        /\ Range(ingresses) = {plan.endpoint_hops[s] : s \in endpoint_slots(plan, "ingress")}
        /\ Range(sinks) = {plan.endpoint_hops[s] : s \in endpoint_slots(plan, "sink")}
        /\ Range(addresses) = {plan.hop_addresses[s] : s \in slots}
    BY <1>9
  <2>2. /\ Range(hops) = {plan.hop_addresses[s].hop : s \in executed}
        /\ Range(ingresses) \cup Range(sinks) = {plan.hop_addresses[s].hop : s \in slots \ executed}
    BY <1>1, <1>3, <1>4, <2>1
  <2>3. {a.hop : a \in Range(addresses)} = {plan.hop_addresses[s].hop : s \in slots}
    BY <2>1
  <2>4. planned_hops(sent) = Range(hops) \cup Range(ingresses) \cup Range(sinks)
    BY <1>a DEF planned_hops
  <2> PICK H, E : H = Range(hops) /\ E = Range(ingresses) \cup Range(sinks)
    OBVIOUS
  <2>5. slots = executed \cup (slots \ executed)
    BY <1>1
  <2>6. {plan.hop_addresses[s].hop : s \in slots} = H \cup E
    BY <2>2, <2>5
  <2> QED BY <1>a, <2>3, <2>4, <2>6
<1>11. deployed_partitions(sent) = Range(sent.partition_execution_plan.partition_ids)
  <2>1. /\ Range(hops) = {plan.executable_hops[s] : s \in executed}
        /\ Range(ids) = {partition_of(plan)[s] : s \in first}
    BY <1>9
  <2>2. Range(ids) = {plan.executable_hops[s].of : s \in first}
    <3>1. \A s \in first : partition_of(plan)[s] = plan.executable_hops[s].of
      BY <1>1 DEF partition_of
    <3> QED BY <2>1, <3>1
  <2>3. {hop.of : hop \in Range(hops)} = {plan.executable_hops[s].of : s \in executed}
    BY <2>1
  <2>4. \A s \in executed : \E t \in first : plan.executable_hops[t].of = plan.executable_hops[s].of
    BY FirstSlots
  <2>5. {plan.executable_hops[s].of : s \in first} = {plan.executable_hops[s].of : s \in executed}
    BY <1>1, <2>4
  <2> QED BY <1>a, <2>2, <2>3, <2>5 DEF deployed_partitions
<1>12. {key.hop : key \in Range(sent.scheduling_plan.priority_keys)}
         \subseteq Range(sent.deployment_plan.executable_hops)
  <2>1. /\ Range(hops) = {plan.executable_hops[s] : s \in executed}
        /\ Range(keys) = {plan.priority_keys[s] : s \in executed}
    BY <1>9
  <2> QED BY <1>a, <1>3, <2>1
<1> QED BY <1>5, <1>6, <1>7, <1>8, <1>10, <1>11, <1>12 DEF worker_plan_is_valid

-----------------------------------------------------------------------------
(* The message.                                                            *)

LEMMA Tags ==
  ASSUME NEW hop
  PROVE  /\ hop = ExternalHop => hop_to_dto(hop).kind = "external"
         /\ hop.kind = "partition" => hop_to_dto(hop).kind = "partition_replica"
         /\ hop.kind = "ingress" => hop_to_dto(hop).kind = "ingress"
         /\ hop.kind = "sink" => hop_to_dto(hop).kind = "sink"
<1>1. ExternalHop.kind = "external"
  BY DEF ExternalHop
<1> QED BY <1>1 DEF hop_to_dto

\* Only the hops of routes change their form on the way.
LEMMA PartsOfMessage ==
  ASSUME NEW plan, NEW sent, sent = build_worker_plan(plan)
  PROVE  LET dto == to_worker_plan_dto(sent)
             read == worker_plan_from_dto(dto)
         IN /\ dto.scheduling_plan = sent.scheduling_plan
            /\ dto.hop_routing_plan = map_hops(hop_to_dto, sent.hop_routing_plan)
            /\ read.deployment_plan = sent.deployment_plan
            /\ read.scheduling_plan = sent.scheduling_plan
            /\ read.partition_execution_plan = sent.partition_execution_plan
            /\ read.hop_routing_plan = map_hops(hop_from_dto, dto.hop_routing_plan)
<1>1. DOMAIN sent = {"deployment_plan", "scheduling_plan", "partition_execution_plan",
                     "hop_routing_plan"}
  BY DEF build_worker_plan
<1> PICK dto : dto = to_worker_plan_dto(sent)
  OBVIOUS
<1> PICK out : out = map_hops(hop_to_dto, sent.hop_routing_plan)
  OBVIOUS
<1>2. dto = [sent EXCEPT !.hop_routing_plan = out]
  BY DEF to_worker_plan_dto
<1>3. /\ DOMAIN dto = DOMAIN sent /\ dto.hop_routing_plan = out
      /\ dto.deployment_plan = sent.deployment_plan
      /\ dto.scheduling_plan = sent.scheduling_plan
      /\ dto.partition_execution_plan = sent.partition_execution_plan
  BY <1>1, <1>2
<1> PICK read, in : read = worker_plan_from_dto(dto) /\ in = map_hops(hop_from_dto, out)
  OBVIOUS
<1>4. read = [dto EXCEPT !.hop_routing_plan = in]
  BY <1>3 DEF worker_plan_from_dto
<1>5. /\ read.hop_routing_plan = in
      /\ read.deployment_plan = dto.deployment_plan
      /\ read.scheduling_plan = dto.scheduling_plan
      /\ read.partition_execution_plan = dto.partition_execution_plan
  BY <1>1, <1>3, <1>4
<1> QED BY <1>3, <1>5

\* The worker does not reject the message either.
THEOREM MessageIsAccepted ==
  ASSUME NEW plan, IsPlan(plan)
  PROVE  worker_accepts(to_worker_plan_dto(build_worker_plan(plan)))
<1> PICK sent : sent = build_worker_plan(plan)
  OBVIOUS
<1> PICK dto : dto = to_worker_plan_dto(sent)
  OBVIOUS
<1> PICK read : read = worker_plan_from_dto(dto)
  OBVIOUS
<1>1. /\ dto.scheduling_plan = sent.scheduling_plan
      /\ dto.hop_routing_plan = map_hops(hop_to_dto, sent.hop_routing_plan)
      /\ read.deployment_plan = sent.deployment_plan
      /\ read.scheduling_plan = sent.scheduling_plan
      /\ read.partition_execution_plan = sent.partition_execution_plan
  BY PartsOfMessage
<1>2. /\ deployment_is_valid(read.deployment_plan)
      /\ scheduling_is_valid(read.scheduling_plan)
      /\ execution_is_valid(read.partition_execution_plan)
      /\ deployed_partitions(read) = Range(read.partition_execution_plan.partition_ids)
  BY <1>1, SentIsValid DEF worker_plan_is_valid, deployed_partitions
<1> PICK slots, h, g : /\ slots = DOMAIN plan.hop_addresses
                       /\ h = sent.hop_routing_plan /\ g = dto.hop_routing_plan
  OBVIOUS
<1> DEFINE routed == [s \in slots |-> [input_routings |-> {plan.routings[s].input},
                                       output_routings |-> plan.routings[s].output]]
<1>3. AreSlots(slots)
  BY PartsOfPlan
<1>4. /\ h.hop_addresses = Listed(plan.hop_addresses, slots)
      /\ h.routings = Listed(routed, slots)
  BY PartsOfSent
<1>5. \A s \in slots : plan.hop_addresses[s].hop.kind \in {"partition", "ingress", "sink"}
  BY DEF IsPlan
<1>6. ASSUME NEW n \in DOMAIN g.hop_addresses
      PROVE  g.hop_addresses[n].hop.kind \in DestinationTags
  <2>1. n \in DOMAIN h.hop_addresses /\ g.hop_addresses[n].hop = hop_to_dto(h.hop_addresses[n].hop)
    BY <1>1, <1>6 DEF map_hops
  <2>2. PICK s \in slots : h.hop_addresses[n] = plan.hop_addresses[s]
    BY <1>3, <1>4, <2>1, ListedFrom
  <2> QED BY <1>5, <2>1, <2>2, Tags DEF DestinationTags
<1>7. ASSUME NEW n \in DOMAIN g.routings
      PROVE  /\ \A i \in g.routings[n].input_routings : i.source.hop.kind \in SourceTags
             /\ \A o \in g.routings[n].output_routings : o.destination.hop.kind \in DestinationTags
  <2>1. /\ n \in DOMAIN h.routings
        /\ \A i \in g.routings[n].input_routings : \E j \in h.routings[n].input_routings :
             i.source.hop = hop_to_dto(j.source.hop)
        /\ \A o \in g.routings[n].output_routings : \E q \in h.routings[n].output_routings :
             o.destination.hop = hop_to_dto(q.destination.hop)
    BY <1>1, <1>7, SMTT(20) DEF map_hops
  <2>2. PICK s \in slots : h.routings[n] = routed[s]
    <3> HIDE DEF routed
    <3> QED BY <1>3, <1>4, <2>1, ListedFrom
  <2>3. /\ h.routings[n].input_routings = {plan.routings[s].input}
        /\ h.routings[n].output_routings = plan.routings[s].output
    BY <2>2
  <2>4. /\ plan.routings[s].input.source.hop = ExternalHop
             \/ plan.routings[s].input.source.hop.kind \in {"ingress", "partition"}
        /\ \A o \in plan.routings[s].output : o.destination.hop.kind \in {"partition", "sink"}
    BY DEF IsPlan
  <2> HIDE DEF routed
  <2>5. \A j \in h.routings[n].input_routings : hop_to_dto(j.source.hop).kind \in SourceTags
    BY <2>3, <2>4, Tags DEF SourceTags
  <2>6. \A q \in h.routings[n].output_routings :
          hop_to_dto(q.destination.hop).kind \in DestinationTags
    BY <2>3, <2>4, Tags DEF DestinationTags
  <2> QED BY <2>1, <2>5, <2>6
<1>8. \A n \in DOMAIN dto.scheduling_plan.priorities : dto.scheduling_plan.priorities[n] >= 0
  BY <1>1, <1>2 DEF scheduling_is_valid
<1> HIDE DEF routed
<1>9. dto_is_valid(dto)
  BY <1>6, <1>7, <1>8 DEF dto_is_valid
<1> QED BY <1>2, <1>9 DEF worker_accepts

\* What the worker looks up for a hop is its slot's.
LEMMA WorkerLooksUp ==
  ASSUME NEW plan, IsPlan(plan), NEW s \in DOMAIN plan.executable_hops
  PROVE  LET read == worker_plan_from_dto(to_worker_plan_dto(build_worker_plan(plan)))
         IN /\ get_priority_by_key(read, plan.hop_addresses[s]) = plan.priorities[s]
            /\ get_allocation(read, plan.executable_hops[s]) = plan.allocations[s]
<1> PICK sent : sent = build_worker_plan(plan)
  OBVIOUS
<1> PICK read : read = worker_plan_from_dto(to_worker_plan_dto(sent))
  OBVIOUS
<1> PICK executed : executed = DOMAIN plan.executable_hops
  OBVIOUS
<1>1. /\ read.deployment_plan = sent.deployment_plan
      /\ read.scheduling_plan = sent.scheduling_plan
  BY PartsOfMessage
<1>2. /\ sent.deployment_plan.executable_hops = Listed(plan.executable_hops, executed)
      /\ sent.deployment_plan.allocations = Listed(plan.allocations, executed)
      /\ sent.scheduling_plan.priority_keys = Listed(plan.priority_keys, executed)
      /\ sent.scheduling_plan.priorities = Listed(plan.priorities, executed)
  BY PartsOfSent
<1>3. AreSlots(executed)
  BY PartsOfPlan
<1>4. /\ \A t, u \in executed : plan.executable_hops[t] = plan.executable_hops[u] => t = u
      /\ \A t, u \in executed : plan.priority_keys[t] = plan.priority_keys[u] => t = u
      /\ plan.priority_keys[s] = plan.hop_addresses[s]
  BY DEF IsPlan
<1>5. get_allocation(read, plan.executable_hops[s]) = plan.allocations[s]
  BY <1>1, <1>2, <1>3, <1>4, LookUp DEF get_allocation
<1>6. get_priority_by_key(read, plan.priority_keys[s]) = plan.priorities[s]
  BY <1>1, <1>2, <1>3, <1>4, LookUp DEF get_priority_by_key
<1> QED BY <1>4, <1>5, <1>6

\* So are the routings of a hop and the scheme of a partition.
LEMMA HopLooksUp ==
  ASSUME NEW plan, IsPlan(plan), NEW sent, sent = build_worker_plan(plan),
         NEW s \in DOMAIN plan.hop_addresses
  PROVE  /\ has_routings(sent, plan.hop_addresses[s])
         /\ get_routings_for_hop_address(sent, plan.hop_addresses[s])
              = [input_routings |-> {plan.routings[s].input},
                 output_routings |-> plan.routings[s].output]
<1>a. PICK slots, routed, at :
      /\ slots = DOMAIN plan.hop_addresses /\ at = plan.hop_addresses
      /\ routed = [t \in slots |-> [input_routings |-> {plan.routings[t].input},
                                    output_routings |-> plan.routings[t].output]]
  OBVIOUS
<1>1. /\ sent.hop_routing_plan.hop_addresses = Listed(at, slots)
      /\ sent.hop_routing_plan.routings = Listed(routed, slots)
  BY <1>a, PartsOfSent
<1>2. AreSlots(slots) /\ s \in slots
  BY <1>a, PartsOfPlan
<1>3. \A t, u \in slots : at[t] = at[u] => t = u
  BY <1>a DEF IsPlan
<1>4. has_routings(sent, at[s])
  <2>1. Range(Listed(at, slots)) = {at[t] : t \in slots}
    BY <1>2, ListedRange
  <2> QED BY <1>1, <1>2, <2>1 DEF has_routings
<1>5. Listed(routed, slots)[index(Listed(at, slots), at[s])] = routed[s]
  BY <1>2, <1>3, LookUp
<1>6. get_routings_for_hop_address(sent, at[s]) = routed[s]
  BY <1>1, <1>5 DEF get_routings_for_hop_address
<1> QED BY <1>a, <1>2, <1>4, <1>6

LEMMA PlannedHops ==
  ASSUME NEW plan, IsPlan(plan)
  PROVE  planned_hops(build_worker_plan(plan))
           = {plan.hop_addresses[s].hop : s \in DOMAIN plan.hop_addresses}
<1> PICK sent, slots : sent = build_worker_plan(plan) /\ slots = DOMAIN plan.hop_addresses
  OBVIOUS
<1>1. planned_hops(sent) = {a.hop : a \in Range(sent.hop_routing_plan.hop_addresses)}
  BY SentIsValid DEF worker_plan_is_valid
<1>2. sent.hop_routing_plan.hop_addresses = Listed(plan.hop_addresses, slots)
  BY PartsOfSent
<1>3. Range(Listed(plan.hop_addresses, slots)) = {plan.hop_addresses[s] : s \in slots}
  BY PartsOfPlan, ListedRange
<1> QED BY <1>1, <1>2, <1>3

LEMMA PartitionLooksUp ==
  ASSUME NEW plan, IsPlan(plan), NEW sent, sent = build_worker_plan(plan),
         NEW s \in DOMAIN plan.executable_hops,
         NEW partition, partition = plan.executable_hops[s].of
  PROVE  /\ partition \in Range(sent.partition_execution_plan.partition_ids)
         /\ get_scheme_by_partition_id(sent, partition) = scheme_of(plan, partition)
<1> PICK first, of : first = first_slots(plan) /\ of = partition_of(plan)
  OBVIOUS
<1>1. PICK scheme :
        /\ sent.partition_execution_plan.partition_ids = Listed(of, first)
        /\ sent.partition_execution_plan.schemes = Listed(scheme, first)
        /\ \A t \in first : scheme[t] = scheme_of(plan, plan.executable_hops[t].of)
  BY PartsOfSent, ZenonT(30)
<1>2. AreSlots(first) /\ AreSlots(DOMAIN plan.executable_hops)
  BY PartsOfPlan
<1>3. PICK t \in first : plan.executable_hops[t].of = partition
  BY FirstSlots
<1>4. \A u \in first : u \in DOMAIN plan.executable_hops /\ of[u] = plan.executable_hops[u].of
  BY DEF first_slots, partition_of
<1>5. \A u, v \in first : of[u] = of[v] => u = v
  <2> SUFFICES ASSUME NEW u \in first, NEW v \in first, of[u] = of[v] PROVE u = v
    OBVIOUS
  <2>1. u = v \/ Before(u, v) \/ Before(v, u)
    BY <1>2, SlotsAreOrdered
  <2> QED BY <1>4, <2>1 DEF first_slots
<1>6. of[t] = partition
  BY <1>3, <1>4
<1>7. Listed(scheme, first)[index(Listed(of, first), of[t])] = scheme[t]
  BY <1>2, <1>5, LookUp
<1>8. get_scheme_by_partition_id(sent, partition) = scheme_of(plan, partition)
  BY <1>1, <1>3, <1>6, <1>7 DEF get_scheme_by_partition_id
<1>9. partition \in Range(sent.partition_execution_plan.partition_ids)
  <2>1. Range(Listed(of, first)) = {of[u] : u \in first}
    BY <1>2, ListedRange
  <2> QED BY <1>1, <1>6, <2>1
<1> QED BY <1>8, <1>9

\* Hops and addresses as the builder makes them.
IsHop(hop) ==
  \/ hop = ExternalHop
  \/ /\ hop = [kind |-> hop.kind, of |-> hop.of, replica_idx |-> hop.replica_idx]
     /\ hop.kind \in {"partition", "ingress", "sink"}
IsAddress(a) == a = [flow |-> a.flow, hop |-> a.hop] /\ IsHop(a.hop)

\* The tag of a hop says what it was.
LEMMA HopsArrive ==
  ASSUME NEW hop, IsHop(hop)
  PROVE  hop_from_dto(hop_to_dto(hop)) = hop
<1>1. CASE hop = ExternalHop
  <2>1. hop_to_dto(hop).kind = "external"
    BY <1>1, Tags
  <2> QED BY <1>1, <2>1 DEF hop_from_dto
<1>2. CASE hop # ExternalHop
  <2> PICK k, o, r : k = hop.kind /\ o = hop.of /\ r = hop.replica_idx
    OBVIOUS
  <2>1. hop = [kind |-> k, of |-> o, replica_idx |-> r] /\ k \in {"partition", "ingress", "sink"}
    BY <1>2 DEF IsHop
  <2> PICK tag : tag = IF k = "partition" THEN "partition_replica" ELSE k
    OBVIOUS
  <2>2. hop_to_dto(hop) = [kind |-> tag, id |-> [of |-> o, replica_idx |-> r]]
    BY <1>2 DEF hop_to_dto
  <2>3. tag # "external" /\ k = IF tag = "partition_replica" THEN "partition" ELSE tag
    BY <2>1
  <2>4. hop_from_dto([kind |-> tag, id |-> [of |-> o, replica_idx |-> r]])
          = [kind |-> k, of |-> o, replica_idx |-> r]
    BY <2>3 DEF hop_from_dto
  <2> QED BY <2>1, <2>2, <2>4
<1> QED BY <1>1, <1>2

\* A plan whose routes are between such addresses arrives as it was sent.
THEOREM PlanArrives ==
  ASSUME NEW plan, IsPlan(plan),
         \A s \in DOMAIN plan.hop_addresses :
           LET i == plan.routings[s].input IN
           /\ IsAddress(plan.hop_addresses[s])
           /\ i = [source |-> i.source, tensors |-> i.tensors] /\ IsAddress(i.source)
           /\ \A o \in plan.routings[s].output :
                o = [destination |-> o.destination, tensors |-> o.tensors]
                /\ IsAddress(o.destination)
  PROVE  worker_plan_from_dto(to_worker_plan_dto(build_worker_plan(plan)))
           = build_worker_plan(plan)
<1> PICK sent : sent = build_worker_plan(plan)
  OBVIOUS
<1> PICK dto : dto = to_worker_plan_dto(sent)
  OBVIOUS
<1> PICK read : read = worker_plan_from_dto(dto)
  OBVIOUS
<1> PICK slots : slots = DOMAIN plan.hop_addresses
  OBVIOUS
<1> PICK h, g, f : h = sent.hop_routing_plan /\ g = map_hops(hop_to_dto, h)
                   /\ f = map_hops(hop_from_dto, g)
  OBVIOUS
<1> DEFINE there(a) == [flow |-> a.flow, hop |-> hop_to_dto(a.hop)]
           back(a) == [flow |-> a.flow, hop |-> hop_from_dto(a.hop)]
           routed == [s \in slots |-> [input_routings |-> {plan.routings[s].input},
                                       output_routings |-> plan.routings[s].output]]
<1>1. \A a : IsAddress(a) => back(there(a)) = a
  <2> SUFFICES ASSUME NEW a, IsAddress(a) PROVE back(there(a)) = a
    OBVIOUS
  <2>1. hop_from_dto(hop_to_dto(a.hop)) = a.hop /\ a = [flow |-> a.flow, hop |-> a.hop]
    BY HopsArrive DEF IsAddress
  <2>2. there(a).flow = a.flow /\ there(a).hop = hop_to_dto(a.hop)
    OBVIOUS
  <2> HIDE DEF there
  <2> QED BY <2>1, <2>2
<1>2. /\ h.hop_addresses = Listed(plan.hop_addresses, slots)
      /\ h.routings = Listed(routed, slots)
      /\ AreSlots(slots)
  BY PartsOfSent, PartsOfPlan
<1>3. /\ g.hop_addresses = [n \in DOMAIN h.hop_addresses |-> there(h.hop_addresses[n])]
      /\ f.hop_addresses = [n \in DOMAIN g.hop_addresses |-> back(g.hop_addresses[n])]
  BY DEF map_hops
<1> DEFINE in_there(i) == [source |-> there(i.source), tensors |-> i.tensors]
           in_back(i) == [source |-> back(i.source), tensors |-> i.tensors]
           out_there(o) == [destination |-> there(o.destination), tensors |-> o.tensors]
           out_back(o) == [destination |-> back(o.destination), tensors |-> o.tensors]
<1>4. /\ g.routings = [n \in DOMAIN h.routings |->
                         [input_routings |-> {in_there(i) : i \in h.routings[n].input_routings},
                          output_routings |-> {out_there(o) : o \in h.routings[n].output_routings}]]
      /\ f.routings = [n \in DOMAIN g.routings |->
                         [input_routings |-> {in_back(i) : i \in g.routings[n].input_routings},
                          output_routings |-> {out_back(o) : o \in g.routings[n].output_routings}]]
  BY DEF map_hops
<1>13. ASSUME NEW n \in DOMAIN h.routings
       PROVE  /\ g.routings[n].input_routings = {in_there(i) : i \in h.routings[n].input_routings}
              /\ g.routings[n].output_routings = {out_there(o) : o \in h.routings[n].output_routings}
              /\ n \in DOMAIN g.routings
  <2> HIDE DEF in_there, out_there, in_back, out_back
  <2> DEFINE moved(m) == [input_routings |-> {in_there(i) : i \in h.routings[m].input_routings},
                          output_routings |-> {out_there(o) : o \in h.routings[m].output_routings}]
  <2>1. g.routings = [m \in DOMAIN h.routings |-> moved(m)]
    BY <1>4, Zenon
  <2>2. g.routings[n] = moved(n) /\ n \in DOMAIN g.routings
    <3> HIDE DEF moved
    <3> QED BY <2>1
  <2> QED BY <2>2
<1>14. ASSUME NEW n \in DOMAIN g.routings
       PROVE  f.routings[n] = [input_routings |-> {in_back(i) : i \in g.routings[n].input_routings},
                               output_routings |-> {out_back(o) : o \in g.routings[n].output_routings}]
  <2> HIDE DEF in_there, out_there, in_back, out_back
  <2> DEFINE moved(m) == [input_routings |-> {in_back(i) : i \in g.routings[m].input_routings},
                          output_routings |-> {out_back(o) : o \in g.routings[m].output_routings}]
  <2>1. f.routings = [m \in DOMAIN g.routings |-> moved(m)]
    BY <1>4, Zenon
  <2>2. f.routings[n] = moved(n)
    <3> HIDE DEF moved
    <3> QED BY <2>1
  <2> QED BY <2>2
<1>5. f.hop_addresses = h.hop_addresses
  <2> HIDE DEF there, back
  <2>1. ASSUME NEW n \in DOMAIN h.hop_addresses PROVE back(there(h.hop_addresses[n])) = h.hop_addresses[n]
    <3>1. PICK s \in slots : h.hop_addresses[n] = plan.hop_addresses[s]
      BY <1>2, <2>1, ListedFrom
    <3> QED BY <1>1, <3>1
  <2>2. f.hop_addresses = [n \in DOMAIN h.hop_addresses |-> back(there(h.hop_addresses[n]))]
    BY <1>3
  <2>3. h.hop_addresses = [n \in DOMAIN h.hop_addresses |-> h.hop_addresses[n]]
    BY <1>2 DEF Listed
  <2> QED BY <2>1, <2>2, <2>3
<1>6. f.routings = h.routings
  <2> HIDE DEF there, back, routed
  <2>1. ASSUME NEW n \in DOMAIN h.routings
        PROVE  f.routings[n] = h.routings[n]
    <3>1. PICK s \in slots : h.routings[n] = routed[s]
      BY <1>2, <2>1, ListedFrom
    <3> PICK i, O : i = plan.routings[s].input /\ O = plan.routings[s].output
      OBVIOUS
    <3>2. h.routings[n] = [input_routings |-> {i}, output_routings |-> O]
      BY <3>1 DEF routed
    <3>3. /\ i = [source |-> i.source, tensors |-> i.tensors] /\ back(there(i.source)) = i.source
          /\ \A o \in O : /\ o = [destination |-> o.destination, tensors |-> o.tensors]
                           /\ back(there(o.destination)) = o.destination
      BY <1>1
    <3>4. in_back(in_there(i)) = i
      BY <3>3
    <3>5. \A o \in O : out_back(out_there(o)) = o
      BY <3>3
    <3> HIDE DEF in_there, in_back, out_there, out_back
    <3>6. /\ g.routings[n].input_routings = {in_there(i)}
          /\ g.routings[n].output_routings = {out_there(o) : o \in O}
          /\ n \in DOMAIN g.routings
      <4>1. /\ g.routings[n].input_routings = {in_there(j) : j \in h.routings[n].input_routings}
            /\ g.routings[n].output_routings = {out_there(o) : o \in h.routings[n].output_routings}
            /\ n \in DOMAIN g.routings
        BY <1>13, <2>1
      <4>2. h.routings[n].input_routings = {i} /\ h.routings[n].output_routings = O
        BY <3>2
      <4> QED BY <4>1, <4>2
    <3> PICK A, B : A = {in_back(x) : x \in g.routings[n].input_routings}
                    /\ B = {out_back(x) : x \in g.routings[n].output_routings}
      OBVIOUS
    <3>7. /\ f.routings[n] = [input_routings |-> A, output_routings |-> B]
          /\ A = {in_back(in_there(i))}
          /\ B = {out_back(out_there(o)) : o \in O}
      <4>1. f.routings[n] = [input_routings |-> {in_back(x) : x \in g.routings[n].input_routings},
                             output_routings |-> {out_back(x) : x \in g.routings[n].output_routings}]
        BY <1>14, <3>6
      <4>2. f.routings[n] = [input_routings |-> A, output_routings |-> B]
        BY <4>1, Zenon
      <4>3. A = {in_back(in_there(i))}
        BY <3>6
      <4>4. B = {out_back(out_there(o)) : o \in O}
        BY <3>6
      <4> QED BY <4>2, <4>3, <4>4
    <3>8. A = {i}
      BY <3>4, <3>7
    <3>9. B = O
      BY <3>5, <3>7
    <3> QED BY <3>2, <3>7, <3>8, <3>9
  <2> HIDE DEF in_there, in_back, out_there, out_back
  <2>2. f.routings = [n \in DOMAIN h.routings |-> f.routings[n]]
    BY <1>4
  <2>3. h.routings = [n \in DOMAIN h.routings |-> h.routings[n]]
    BY <1>2 DEF Listed
  <2> QED BY <2>1, <2>2, <2>3
<1>7. f = [hop_addresses |-> f.hop_addresses, routings |-> f.routings]
      /\ h = [hop_addresses |-> h.hop_addresses, routings |-> h.routings]
  <2>1. f = [hop_addresses |-> f.hop_addresses, routings |-> f.routings]
    BY DEF map_hops
  <2>2. h = [hop_addresses |-> h.hop_addresses, routings |-> h.routings]
    BY DEF build_worker_plan
  <2> QED BY <2>1, <2>2
<1>8. f = h
  <2> HIDE DEF there, back, routed
  <2> QED BY <1>5, <1>6, <1>7
<1>9. dto = [sent EXCEPT !.hop_routing_plan = g] /\ read = [dto EXCEPT !.hop_routing_plan = f]
  <2>1. dto = [sent EXCEPT !.hop_routing_plan = g]
    BY DEF to_worker_plan_dto
  <2>2. dto.hop_routing_plan = g
    BY PartsOfMessage
  <2> QED BY <2>1, <2>2 DEF worker_plan_from_dto
<1>10. sent = [x \in DOMAIN sent |-> sent[x]] /\ "hop_routing_plan" \in DOMAIN sent
  BY DEF build_worker_plan
<1>11. \A x \in DOMAIN sent : read[x] = sent[x]
  BY <1>8, <1>9, <1>10
<1>12. read = [x \in DOMAIN sent |-> read[x]]
  BY <1>9, <1>10
<1> QED BY <1>10, <1>11, <1>12
=============================================================================
