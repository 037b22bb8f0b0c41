-------------------------- MODULE RoleCall_proofs --------------------------
(* Proofs about the model calls of a run, for every strategy and every      *)
(* sequence of role calls: types, the budget of expensive uses, the retry,  *)
(* and the failure metric.                                                  *)
EXTENDS RoleCall, SequenceTheorems, FiniteSetTheorems, WellFoundedInduction, TLAPS

(* FirstIn returns an element of the sequence that lies in the set and is   *)
(* preceded by no other, or None.                                           *)
LEMMA FirstInFinds ==
    ASSUME NEW seq, NEW S
    PROVE  \/ FirstIn(seq, S) = None
           \/ \E i \in DOMAIN seq : FirstIn(seq, S) = seq[i] /\ IsFirstIn(seq, S, i)
<1>1. CASE \E i \in DOMAIN seq : IsFirstIn(seq, S, i)
  <2> DEFINE n == CHOOSE i \in DOMAIN seq : IsFirstIn(seq, S, i)
  <2>1. n \in DOMAIN seq /\ IsFirstIn(seq, S, n)
    BY <1>1
  <2>2. FirstIn(seq, S) = seq[n]
    BY <1>1 DEF FirstIn
  <2> QED
    BY <2>1, <2>2
<1>2. CASE ~\E i \in DOMAIN seq : IsFirstIn(seq, S, i)
  BY <1>2 DEF FirstIn
<1> QED
  BY <1>1, <1>2

(* The registry returns a registered model or an error.                     *)
LEMMA ResolveType ==
    ASSUME NEW s \in Strategies, NEW name
    PROVE  Resolve(s, name) \in (s.registered \cap Models) \cup {None}
BY DEF Resolve, Strategies

(* The first fallback is a registered model, or there is none.              *)
LEMMA FirstFallbackType ==
    ASSUME NEW s \in Strategies
    PROVE  FirstFallback(s) \in (s.registered \cap Models) \cup {None}
<1> DEFINE resolved == [i \in DOMAIN s.fallbacks |-> Resolve(s, s.fallbacks[i])]
<1>1. s.fallbacks \in Seq(Names)
  BY DEF Strategies
<1>2. DOMAIN s.fallbacks = 1..Len(s.fallbacks) /\ Len(s.fallbacks) \in Nat
  BY <1>1, LenProperties
<1>3. \A i \in 1..Len(s.fallbacks) :
         Resolve(s, s.fallbacks[i]) \in (s.registered \cap Models) \cup {None}
  BY ResolveType
<1>4. resolved \in Seq((s.registered \cap Models) \cup {None})
  BY <1>2, <1>3, IsASeq
<1> HIDE DEF resolved
<1>5. \A i \in DOMAIN resolved : resolved[i] \in (s.registered \cap Models) \cup {None}
  BY <1>4, LenProperties
<1>6. FirstIn(resolved, Models) \in (s.registered \cap Models) \cup {None}
  BY <1>5, FirstInFinds
<1> QED
  BY <1>6 DEF FirstFallback, resolved

LEMMA ResolveModelType ==
    ASSUME NEW s \in Strategies, NEW r, NEW override
    PROVE  ResolveModel(s, r, override) \in (s.registered \cap Models) \cup {None}
BY ResolveType, FirstFallbackType DEF ResolveModel

LEMMA PickType ==
    ASSUME NEW s \in Strategies, NEW r, NEW override, NEW n
    PROVE  PickWithBudget(s, r, override, n) \in (s.registered \cap Models) \cup {None}
BY ResolveType, FirstFallbackType, ResolveModelType DEF PickWithBudget

LEMMA NextFallbackType ==
    ASSUME NEW s \in Strategies, NEW current
    PROVE  NextFallback(s, current) \in Models \cup {None}
BY FirstInFinds DEF NextFallback, IsFirstIn

(* At the limit, a strategy with a cheap first fallback or a cheap default  *)
(* picks no expensive model.                                                *)
LEMMA PickAtTheLimit ==
    ASSUME NEW s \in Strategies, NEW r, NEW override, NEW n \in Nat,
           s.maxExp > 0, n >= s.maxExp, CheapWayOut(s)
    PROVE  PickWithBudget(s, r, override, n) \notin s.expensive
<1> DEFINE chosen   == ResolveModel(s, r, override)
           replaced == IF OverBudget(s, chosen, n) /\ FirstFallback(s) # None
                       THEN FirstFallback(s) ELSE chosen
<1>1. \A m : OverBudget(s, m, n) <=> m \in s.expensive
  BY DEF OverBudget
<1>2. CASE FirstFallback(s) \notin s.expensive \cup {None}
  <2>1. replaced \notin s.expensive
    BY <1>1, <1>2
  <2> QED
    BY <1>1, <2>1 DEF PickWithBudget
<1>3. CASE s.default # None /\ Resolve(s, s.default) \notin s.expensive \cup {None}
  BY <1>1, <1>3 DEF PickWithBudget
<1> QED
  BY <1>2, <1>3 DEF CheapWayOut
-----------------------------------------------------------------------------
(* What a strategy of the daemon is, and what the operators return for it.  *)
LEMMA StrategyFacts ==
    ASSUME strategy \in StrategyChoices
    PROVE  strategy \in Strategies /\ strategy.maxExp \in Nat
BY ChoicesValidated DEF Strategies

(* Choosing a model keeps the types of the choice and of its counters.      *)
LEMMA UseType ==
    ASSUME RoleTypeOK, NEW m \in Models, Use(m)
    PROVE  model' \in Names /\ used' \in Nat /\ usage' \in [Models -> Nat]
BY DEF RoleTypeOK, Use, Expensive, Names

LEMMA SelectType ==
    ASSUME RoleTypeOK, NEW r \in Roles, NEW requested \in Names, Select(r, requested)
    PROVE  RoleTypeOK'
<1> DEFINE pick == PickWithBudget(strategy, r, requested, used)
<1>1. pick \in Models \cup {None}
  BY PickType, StrategyFacts DEF RoleTypeOK
<1> HIDE DEF pick
<1>2. model' \in Names /\ used' \in Nat /\ usage' \in [Models -> Nat]
  <2>1. CASE pick # None /\ Use(pick)
    BY <1>1, <2>1, UseType
  <2>2. CASE model' = requested /\ UNCHANGED <<used, usage>>
    BY <2>2 DEF RoleTypeOK
  <2> QED
    BY <2>1, <2>2 DEF RecordFailure, Select, pick
<1>3. failures' \in Nat /\ failed' \in Nat
  BY DEF RecordFailure, Select, RoleTypeOK
<1>4. /\ strategy' \in StrategyChoices /\ phase' \in Phases /\ role' \in Roles
      /\ candidate' \in Names /\ tried' \in SUBSET Models
      /\ called' \in SUBSET Names /\ begun' \in Nat
  BY DEF RecordFailure, Select, RoleTypeOK, Phases
<1> QED
  BY <1>2, <1>3, <1>4 DEF RoleTypeOK

LEMMA CallType ==
    ASSUME RoleTypeOK, CallSucceeds \/ CallFails \/ RetryFails
    PROVE  RoleTypeOK'
<1>1. NextFallback(strategy, model) \in Names
  BY NextFallbackType, StrategyFacts DEF RoleTypeOK, Names
<1>2. model \in Names => {model} \ {None} \subseteq Models
  BY DEF Names
<1> QED
  BY <1>1, <1>2 DEF RecordFailure, RoleTypeOK, CallSucceeds, CallFails, RetryFails, Phases

LEMMA SearchType ==
    ASSUME RoleTypeOK, SearchStep
    PROVE  RoleTypeOK'
<1>1. NextFallback(strategy, candidate) \in Names
  BY NextFallbackType, StrategyFacts DEF RoleTypeOK, Names
<1>2. CASE SkipTried \/ NoFallback
  BY <1>1, <1>2 DEF RoleTypeOK, SkipTried, NoFallback, Reject, Phases
<1>3. CASE ConsiderFallback
  <2> DEFINE pick == PickWithBudget(strategy, role, candidate, used)
  <2>1. pick \in Models \cup {None}
    BY PickType, StrategyFacts DEF RoleTypeOK
  <2> HIDE DEF pick
  <2>2. /\ candidate \in Models \ tried
        /\ tried' = tried \cup {candidate}
        /\ UNCHANGED <<strategy, role, called, begun>>
    BY <1>3 DEF RecordFailure, AnotherModel, ConsiderFallback
  <2>3. CASE Reject /\ failures' \in Nat /\ failed' \in Nat
    BY <1>1, <2>2, <2>3 DEF RoleTypeOK, Reject
  <2>4. CASE /\ pick # None /\ phase' = "retrying" /\ Use(pick)
             /\ UNCHANGED <<candidate, failures, failed>>
    <3>1. model' \in Names /\ used' \in Nat /\ usage' \in [Models -> Nat]
      BY <2>1, <2>4, UseType
    <3> QED
      BY <2>2, <2>4, <3>1 DEF RoleTypeOK, Phases
  <2> QED
    BY <1>3, <2>3, <2>4 DEF RecordFailure, AnotherModel, ConsiderFallback, pick, RoleTypeOK
<1> QED
  BY <1>2, <1>3 DEF SearchStep

(* Every step of a role call keeps the type invariant.                      *)
LEMMA StepType == RoleTypeOK /\ [RoleNext]_roleVars => RoleTypeOK'
<1> SUFFICES ASSUME RoleTypeOK, [RoleNext]_roleVars
             PROVE  RoleTypeOK'
  OBVIOUS
<1>1. CASE BeginCall
  BY <1>1, SelectType, RequestsAreNames DEF BeginCall
<1>2. CASE CallSucceeds \/ CallFails \/ RetryFails
  BY <1>2, CallType
<1>3. CASE SearchStep
  BY <1>3, SearchType
<1>4. CASE UNCHANGED roleVars
  BY <1>4 DEF roleVars, RoleTypeOK
<1> QED
  BY <1>1, <1>2, <1>3, <1>4 DEF RoleNext, RunOver

(* The state of a run's model calls has its types in every behaviour.       *)
THEOREM RoleTypeCorrect == RoleSpec => []RoleTypeOK
<1>1. RoleInit => RoleTypeOK
  BY DEF RoleInit, RoleTypeOK, Phases, Roles, Names
<1> QED
  BY <1>1, StepType, PTL DEF RoleSpec

-----------------------------------------------------------------------------
(* A use of a picked model stays within the limit of a strategy that has a  *)
(* cheap way out.                                                           *)
LEMMA UseWithinBudget ==
    ASSUME RoleTypeOK, BudgetKept, NEW r, NEW requested,
           Use(PickWithBudget(strategy, r, requested, used)),
           strategy' = strategy
    PROVE  BudgetKept'
<1> DEFINE pick == PickWithBudget(strategy, r, requested, used)
<1> SUFFICES ASSUME strategy.maxExp > 0, CheapWayOut(strategy)
             PROVE  used' <= strategy.maxExp
  BY DEF BudgetKept
<1>1. used \in Nat /\ used <= strategy.maxExp
  BY DEF BudgetKept, RoleTypeOK
<1>2. strategy \in Strategies /\ strategy.maxExp \in Nat
  BY StrategyFacts DEF RoleTypeOK
<1>3. used >= strategy.maxExp => pick \notin strategy.expensive
  BY <1>1, <1>2, PickAtTheLimit
<1> HIDE DEF pick
<1>4. used' = used + Expensive(pick)
  BY DEF Use, pick
<1> QED
  BY <1>1, <1>2, <1>3, <1>4 DEF Expensive

LEMMA StepBudget == RoleTypeOK /\ BudgetKept /\ [RoleNext]_roleVars => BudgetKept'
<1> SUFFICES ASSUME RoleTypeOK, BudgetKept, [RoleNext]_roleVars
             PROVE  BudgetKept'
  OBVIOUS
<1>1. CASE BeginCall
  <2> PICK r \in Roles, requested \in Requests : Select(r, requested)
    BY <1>1 DEF BeginCall
  <2>1. CASE Use(PickWithBudget(strategy, r, requested, used))
    BY <2>1, UseWithinBudget DEF RecordFailure, Select
  <2>2. CASE UNCHANGED used
    BY <2>2 DEF RecordFailure, Select, BudgetKept
  <2> QED
    BY <2>1, <2>2 DEF RecordFailure, Select
<1>2. CASE ConsiderFallback
  <2>1. CASE Use(PickWithBudget(strategy, role, candidate, used))
    BY <1>2, <2>1, UseWithinBudget DEF RecordFailure, AnotherModel, ConsiderFallback
  <2>2. CASE UNCHANGED used
    BY <1>2, <2>2 DEF RecordFailure, AnotherModel, ConsiderFallback, BudgetKept
  <2> QED
    BY <1>2, <2>1, <2>2 DEF RecordFailure, AnotherModel, ConsiderFallback, Reject
<1>3. CASE UNCHANGED <<strategy, used>>
  BY <1>3 DEF BudgetKept
<1> QED
  BY <1>1, <1>2, <1>3
     DEF RoleNext, RunOver, SearchStep, SkipTried, Reject, NoFallback,
         CallSucceeds, CallFails, RetryFails, RecordFailure, roleVars

(* The limit on expensive uses is never exceeded, over any number of role   *)
(* calls, failures and searches, when the first fallback or the default     *)
(* model is cheap.                                                          *)
THEOREM BudgetIsKept == RoleSpec => []BudgetKept
<1>1. RoleInit => BudgetKept
  BY StrategyFacts DEF RoleInit, BudgetKept
<1> QED
  BY <1>1, RoleTypeCorrect, StepBudget, PTL DEF RoleSpec

-----------------------------------------------------------------------------
(* What a phase says of the models called so far in the role call: nothing  *)
(* is called before the first call, only the failed model while the search  *)
(* runs, and the search stands on a candidate until it ends.                *)
CallHistory ==
    /\ phase = "calling" => called = {}
    /\ phase = "searching" => called = {model}
    /\ phase = "retrying" => model \notin called /\ candidate # None

LEMMA StepHistory == RoleTypeOK /\ CallHistory /\ [RoleNext]_roleVars => CallHistory'
<1> SUFFICES ASSUME RoleTypeOK, CallHistory, [RoleNext]_roleVars
             PROVE  CallHistory'
  OBVIOUS
<1>1. CASE BeginCall
  BY <1>1 DEF RecordFailure, BeginCall, Select, CallHistory
<1>2. CASE CallSucceeds \/ CallFails \/ RetryFails
  BY <1>2 DEF RecordFailure, CallSucceeds, CallFails, RetryFails, CallHistory
<1>3. CASE SkipTried \/ NoFallback
  BY <1>3 DEF SkipTried, NoFallback, Reject, CallHistory
<1>4. CASE ConsiderFallback
  <2> DEFINE pick == PickWithBudget(strategy, role, candidate, used)
  <2>1. candidate # None
    BY <1>4, NoneIsNoModel DEF RecordFailure, AnotherModel, ConsiderFallback
  <2>2. CASE Reject
    BY <1>4, <2>2 DEF RecordFailure, AnotherModel, ConsiderFallback, Reject, CallHistory
  <2>3. CASE phase' = "retrying" /\ pick # model /\ Use(pick) /\ UNCHANGED candidate
    BY <1>4, <2>1, <2>3 DEF RecordFailure, AnotherModel, ConsiderFallback, Use, CallHistory
  <2> QED
    BY <1>4, <2>2, <2>3 DEF RecordFailure, AnotherModel, ConsiderFallback
<1>5. CASE UNCHANGED roleVars
  BY <1>5 DEF roleVars, CallHistory
<1> QED
  BY <1>1, <1>2, <1>3, <1>4, <1>5 DEF RoleNext, RunOver, SearchStep

LEMMA HistoryHolds == RoleSpec => [](RoleTypeOK /\ CallHistory)
<1>1. RoleInit => CallHistory
  BY DEF RoleInit, CallHistory
<1> QED
  BY <1>1, RoleTypeCorrect, StepHistory, PTL DEF RoleSpec

(* A retry never calls the model that has just failed.                      *)
THEOREM RetryIsNew == RoleSpec => []RetryIsAnotherModel
<1>1. CallHistory => RetryIsAnotherModel
  BY DEF CallHistory, RetryIsAnotherModel
<1> QED
  BY <1>1, HistoryHolds, PTL

(* Failures are counted once each, and once too often only by a run that    *)
(* gives up without a retry.                                                *)
LEMMA StepFailures ==
    RoleTypeOK /\ CallHistory /\ FailuresCountedOnce /\ [RoleNext]_roleVars
      => FailuresCountedOnce'
<1> SUFFICES ASSUME RoleTypeOK, CallHistory, FailuresCountedOnce, [RoleNext]_roleVars
             PROVE  FailuresCountedOnce'
  OBVIOUS
<1> USE DEF FailuresCountedOnce, RoleTypeOK
<1>1. CASE BeginCall
  BY <1>1 DEF RecordFailure, BeginCall, Select
<1>2. CASE CallSucceeds \/ CallFails
  BY <1>2 DEF RecordFailure, CallSucceeds, CallFails
<1>3. CASE RetryFails
  BY <1>3 DEF RecordFailure, RetryFails, CallHistory
<1>4. CASE SkipTried \/ ConsiderFallback
  BY <1>4 DEF RecordFailure, AnotherModel, SkipTried, ConsiderFallback, Reject
<1>5. CASE NoFallback
  BY <1>5 DEF NoFallback
<1>6. CASE UNCHANGED roleVars
  BY <1>6 DEF roleVars
<1> QED
  BY <1>1, <1>2, <1>3, <1>4, <1>5, <1>6 DEF RoleNext, RunOver, SearchStep

THEOREM FailuresAreCounted == RoleSpec => []FailuresCountedOnce
<1>1. RoleInit => FailuresCountedOnce
  BY DEF RoleInit, FailuresCountedOnce
<1> QED
  BY <1>1, HistoryHolds, StepFailures, PTL DEF RoleSpec

-----------------------------------------------------------------------------
(* The least element of a set of naturals.                                  *)
LEMMA LeastNatural ==
    ASSUME NEW B \in SUBSET Nat, B # {}
    PROVE  \E n \in B : \A m \in B : n <= m
<1>1. PICK n \in B : \A m \in B : <<m, n>> \notin OpToRel(<, Nat)
  BY NatLessThanWellFounded, WFMin
<1>2. \A m \in B : ~(m < n)
  BY <1>1 DEF OpToRel
<1> QED
  BY <1>2

(* The function behind the sum of f over the subsets of S: an element is    *)
(* taken out and added to the sum of the rest.                              *)
FirstOf(s) == CHOOSE x \in s : TRUE

Summand(g, f, s) == IF s = {} THEN 0 ELSE f[FirstOf(s)] + g[s \ {FirstOf(s)}]

IsSumOver(g, f, D) == g = [s \in D |-> Summand(g, f, s)]

Sums(f, S) == CHOOSE g : IsSumOver(g, f, SUBSET S)

(* The fold of f over S is the value of that function at S.                 *)
SumOver(f, S) == FoldFunctionOnSet(+, 0, f, S)

LEMMA FoldIsSum ==
    ASSUME NEW f, NEW S
    PROVE  SumOver(f, S) = Sums(f, S)[S]
BY Zenon DEF SumOver, FoldFunctionOnSet, MapThenFoldSet, Sums, IsSumOver, Summand, FirstOf

LEMMA RestIsSmaller ==
    ASSUME NEW s, IsFiniteSet(s), s # {}
    PROVE  /\ FirstOf(s) \in s
           /\ IsFiniteSet(s \ {FirstOf(s)})
           /\ Cardinality(s) \in Nat
           /\ Cardinality(s \ {FirstOf(s)}) = Cardinality(s) - 1
<1>1. FirstOf(s) \in s
  BY DEF FirstOf
<1> QED
  BY <1>1, FS_RemoveElement, FS_CardinalityType

(* The function exists: it is built up by the size of the subsets.          *)
Small(S, n) == {s \in SUBSET S : Cardinality(s) <= n}

LEMMA SmallSumsExist ==
    ASSUME NEW S, IsFiniteSet(S), NEW f, NEW k \in Nat
    PROVE  \E g : IsSumOver(g, f, Small(S, k))
<1> DEFINE Bad == {n \in Nat : ~\E g : IsSumOver(g, f, Small(S, n))}
<1> SUFFICES ASSUME Bad # {}
             PROVE  FALSE
  OBVIOUS
<1>0. \A s \in SUBSET S : IsFiniteSet(s) /\ Cardinality(s) \in Nat
  BY FS_Subset, FS_CardinalityType
<1>1. PICK n \in Bad : \A m \in Bad : n <= m
  BY LeastNatural
<1>2. CASE n = 0
  <2> DEFINE g == [s \in Small(S, n) |-> 0]
  <2>1. \A s \in Small(S, n) : s = {}
    BY <1>0, <1>2, FS_EmptySet DEF Small
  <2>2. IsSumOver(g, f, Small(S, n))
    BY <2>1 DEF IsSumOver, Summand
  <2> QED
    BY <1>1, <2>2
<1>3. CASE n # 0
  <2>1. n - 1 \in Nat /\ n - 1 \notin Bad
    BY <1>1, <1>3
  <2>2. PICK h : IsSumOver(h, f, Small(S, n - 1))
    BY <2>1
  <2> DEFINE g == [s \in Small(S, n) |-> Summand(h, f, s)]
  <2>3. ASSUME NEW s \in Small(S, n - 1)
        PROVE  g[s] = h[s]
    <3>1. s \in Small(S, n)
      BY <1>0, <2>1 DEF Small
    <3>2. h[s] = Summand(h, f, s)
      BY <2>2 DEF IsSumOver
    <3> QED
      BY <3>1, <3>2
  <2>4. ASSUME NEW s \in Small(S, n)
        PROVE  Summand(g, f, s) = Summand(h, f, s)
    <3>1. CASE s = {}
      BY <3>1 DEF Summand
    <3>2. CASE s # {}
      <4>1. s \ {FirstOf(s)} \in Small(S, n - 1)
        BY <1>0, <3>2, RestIsSmaller DEF Small
      <4> HIDE DEF g
      <4> QED
        BY <4>1, <2>3, <3>2 DEF Summand
    <3> QED
      BY <3>1, <3>2
  <2>5. IsSumOver(g, f, Small(S, n))
    <3> HIDE DEF Summand
    <3> QED BY <2>4 DEF IsSumOver
  <2> QED
    BY <1>1, <2>5
<1> QED
  BY <1>2, <1>3

(* What it is defined to be at a subset, it is.                             *)
LEMMA SumsExist ==
    ASSUME NEW S, IsFiniteSet(S), NEW f, NEW s \in SUBSET S
    PROVE  Sums(f, S)[s] = Summand(Sums(f, S), f, s)
<1>1. Cardinality(S) \in Nat
  BY FS_CardinalityType
<1>2. SUBSET S = Small(S, Cardinality(S))
  BY <1>1, FS_Subset DEF Small
<1>3. \E g : IsSumOver(g, f, SUBSET S)
  <2>1. \E g : IsSumOver(g, f, Small(S, Cardinality(S)))
    BY <1>1, SmallSumsExist
  <2> QED
    BY <1>2, <2>1
<1>4. IsSumOver(Sums(f, S), f, SUBSET S)
  BY <1>3 DEF Sums
<1> QED
  BY <1>4 DEF IsSumOver

(* A claim about every subset that fails somewhere fails at a subset that is *)
(* empty or whose rest, without its first element, keeps it: induction over  *)
(* a finite set.                                                             *)
LEMMA SmallestFailure ==
    ASSUME NEW S, IsFiniteSet(S), NEW Failing \in SUBSET SUBSET S, Failing # {}
    PROVE  \E s \in Failing : s = {} \/ s \ {FirstOf(s)} \notin Failing
<1> DEFINE Sizes == {Cardinality(s) : s \in Failing}
<1>0. \A s \in Failing : IsFiniteSet(s) /\ Cardinality(s) \in Nat
  BY FS_Subset, FS_CardinalityType
<1>1. PICK n \in Sizes : \A k \in Sizes : n <= k
  <2>1. Sizes \in SUBSET Nat /\ Sizes # {}
    BY <1>0
  <2> QED
    BY <2>1, LeastNatural
<1>2. PICK s \in Failing : Cardinality(s) = n
  BY <1>1
<1>3. CASE s # {} /\ s \ {FirstOf(s)} \in Failing
  <2>1. Cardinality(s \ {FirstOf(s)}) \in Sizes
    BY <1>3
  <2>2. n <= Cardinality(s \ {FirstOf(s)})
    BY <1>1, <2>1
  <2>3. Cardinality(s \ {FirstOf(s)}) = n - 1 /\ n \in Nat
    BY <1>0, <1>2, <1>3, RestIsSmaller
  <2> QED
    BY <2>2, <2>3
<1> QED
  BY <1>2, <1>3

LEMMA SumOfZeros ==
    ASSUME NEW S, IsFiniteSet(S), NEW T, S \subseteq T
    PROVE  SumOver([x \in T |-> 0], S) = 0
<1> DEFINE f == [x \in T |-> 0]
           Failing == {s \in SUBSET S : Sums(f, S)[s] # 0}
<1>1. Failing = {}
  <2> SUFFICES ASSUME Failing # {}
               PROVE  FALSE
    OBVIOUS
  <2>1. PICK s \in Failing : s = {} \/ s \ {FirstOf(s)} \notin Failing
    BY SmallestFailure
  <2>2. Sums(f, S)[s] = Summand(Sums(f, S), f, s)
    BY SumsExist
  <2>3. CASE s = {}
    BY <2>1, <2>2, <2>3 DEF Summand
  <2>4. CASE s # {}
    <3>1. FirstOf(s) \in T /\ s \ {FirstOf(s)} \in SUBSET S
      BY <2>4 DEF FirstOf
    <3>2. Sums(f, S)[s \ {FirstOf(s)}] = 0
      BY <2>1, <2>4, <3>1
    <3> QED
      BY <2>1, <2>2, <2>4, <3>1, <3>2 DEF Summand
  <2> QED
    BY <2>3, <2>4
<1>2. Sums(f, S)[S] = 0
  BY <1>1
<1> QED
  BY <1>2, FoldIsSum

(* A function that is f raised by one at m has a sum that is one more over  *)
(* a set with m, and the same over a set without it.                        *)
LEMMA SumOfRaised ==
    ASSUME NEW S, IsFiniteSet(S), NEW f, NEW r, NEW m,
           \A x \in S : f[x] \in Nat /\ r[x] = f[x] + (IF x = m THEN 1 ELSE 0)
    PROVE  /\ SumOver(f, S) \in Nat
           /\ SumOver(r, S) = SumOver(f, S) + (IF m \in S THEN 1 ELSE 0)
<1> DEFINE Holds(s) == /\ Sums(f, S)[s] \in Nat
                       /\ Sums(r, S)[s] = Sums(f, S)[s] + (IF m \in s THEN 1 ELSE 0)
           Failing == {s \in SUBSET S : ~Holds(s)}
<1>1. Failing = {}
  <2> SUFFICES ASSUME Failing # {}
               PROVE  FALSE
    OBVIOUS
  <2>1. PICK s \in Failing : s = {} \/ s \ {FirstOf(s)} \notin Failing
    <3> HIDE DEF Holds
    <3> QED
      BY SmallestFailure
  <2>2. s \in SUBSET S /\ ~Holds(s)
    BY <2>1
  <2>3. Sums(f, S)[s] = Summand(Sums(f, S), f, s) /\ Sums(r, S)[s] = Summand(Sums(r, S), r, s)
    BY <2>2, SumsExist
  <2>4. CASE s = {}
    BY <2>2, <2>3, <2>4 DEF Summand
  <2>5. CASE s # {}
    <3> DEFINE x == FirstOf(s)
               t == s \ {x}
    <3>1. x \in s /\ t \in SUBSET S
      BY <2>2, <2>5 DEF FirstOf
    <3>2. Holds(t)
      BY <2>1, <2>5, <3>1
    <3>3. /\ Sums(f, S)[s] = f[x] + Sums(f, S)[t]
          /\ Sums(r, S)[s] = r[x] + Sums(r, S)[t]
      BY <2>3, <2>5 DEF Summand
    <3>4. f[x] \in Nat /\ r[x] = f[x] + (IF x = m THEN 1 ELSE 0)
      BY <2>2, <3>1
    <3>5. m \in s <=> (m = x \/ m \in t)
      BY <3>1
    <3>6. m = x => m \notin t
      OBVIOUS
    <3> HIDE DEF x, t
    <3> QED
      BY <2>2, <3>2, <3>3, <3>4, <3>5, <3>6
  <2> QED
    BY <2>4, <2>5
<1>2. Holds(S)
  BY <1>1
<1> QED
  BY <1>2, FoldIsSum

-----------------------------------------------------------------------------
(* The counter and the metric move together whenever a model is chosen.     *)
Counted == used = SumOver(usage, strategy.expensive)

LEMMA UseCounted ==
    ASSUME RoleTypeOK, Counted, NEW m \in Models, Use(m), strategy' = strategy
    PROVE  Counted'
<1>1. IsFiniteSet(strategy.expensive) /\ strategy.expensive \subseteq Models
  <2>1. strategy.expensive \subseteq strategy.registered /\ strategy \in Strategies
    BY ChoicesValidated DEF RoleTypeOK, Validated
  <2> QED
    BY <2>1, RegistriesAreFinite, FS_Subset DEF RoleTypeOK, Strategies
<1>2. usage \in [Models -> Nat]
  BY DEF RoleTypeOK
<1>3. usage' = [usage EXCEPT ![m] = @ + 1] /\ used' = used + Expensive(m)
  BY DEF Use
<1>4. \A x \in strategy.expensive :
        usage[x] \in Nat /\ usage'[x] = usage[x] + (IF x = m THEN 1 ELSE 0)
  BY <1>1, <1>2, <1>3
<1>5. SumOver(usage', strategy.expensive)
        = SumOver(usage, strategy.expensive) + (IF m \in strategy.expensive THEN 1 ELSE 0)
  BY <1>1, <1>4, SumOfRaised
<1> QED
  BY <1>3, <1>5 DEF Counted, Expensive

LEMMA StepCounted ==
    RoleTypeOK /\ Counted /\ [RoleNext]_roleVars => Counted'
<1> SUFFICES ASSUME RoleTypeOK, Counted, [RoleNext]_roleVars
             PROVE  Counted'
  OBVIOUS
<1>1. CASE UNCHANGED <<strategy, used, usage>>
  BY <1>1 DEF Counted
<1>2. ASSUME NEW r, NEW requested, NEW pick,
             pick = PickWithBudget(strategy, r, requested, used),
             pick # None, Use(pick), strategy' = strategy
      PROVE  Counted'
  <2>1. pick \in Models
    BY <1>2, PickType, StrategyFacts DEF RoleTypeOK
  <2> QED
    BY <1>2, <2>1, UseCounted
<1>3. CASE BeginCall
  <2> PICK r \in Roles, requested \in Requests : Select(r, requested)
    BY <1>3 DEF BeginCall
  <2> QED
    BY <1>1, <1>2 DEF Select
<1>4. CASE ConsiderFallback
  <2>1. \/ UNCHANGED <<strategy, used, usage>>
        \/ /\ PickWithBudget(strategy, role, candidate, used) # None
           /\ Use(PickWithBudget(strategy, role, candidate, used))
           /\ strategy' = strategy
    BY <1>4 DEF ConsiderFallback, AnotherModel, Reject
  <2> QED
    BY <1>1, <1>2, <2>1
<1> QED
  BY <1>1, <1>3, <1>4
     DEF RoleNext, RunOver, SearchStep, SkipTried, Reject, NoFallback,
         CallSucceeds, CallFails, RetryFails, roleVars

(* The budget counter and the usage metric agree over any number of role    *)
(* calls, retries and searches: each is the other's sum.                    *)
THEOREM UsageIsCounted == RoleSpec => []UsedMatchesUsage
<1>1. RoleInit => Counted
  <2> SUFFICES ASSUME RoleInit
               PROVE  used = SumOver(usage, strategy.expensive)
    BY DEF Counted
  <2>1. strategy.expensive \subseteq strategy.registered /\ strategy \in Strategies
    BY ChoicesValidated DEF RoleInit, Validated
  <2>2. IsFiniteSet(strategy.expensive) /\ strategy.expensive \subseteq Models
    BY <2>1, RegistriesAreFinite, FS_Subset DEF RoleInit, Strategies
  <2> QED
    BY <2>2, SumOfZeros DEF RoleInit
<1>2. Counted <=> UsedMatchesUsage
  BY Zenon DEF Counted, UsedMatchesUsage, SumOver
<1> QED
  BY <1>1, <1>2, RoleTypeCorrect, StepCounted, PTL DEF RoleSpec

-----------------------------------------------------------------------------
(* The first candidate of a search is another fallback than the failed      *)
(* model, if there is one.                                                  *)
LEMMA NextFallbackFinds ==
    ASSUME strategy \in StrategyChoices
    PROVE  /\ OtherFallback => NextFallback(strategy, model) \in strategy.registered \ {model}
           /\ ~OtherFallback => NextFallback(strategy, model) = None
<1>1. /\ strategy \in Strategies
      /\ \A i \in DOMAIN strategy.fallbacks :
           strategy.fallbacks[i] \in strategy.registered /\ strategy.fallbacks[i] \in Models
  BY ChoicesValidated DEF Validated, Strategies
<1>2. strategy.fallbacks \in Seq(Names)
  BY <1>1 DEF Strategies
<1>3. CASE OtherFallback
  <2> DEFINE Others == {i \in DOMAIN strategy.fallbacks : strategy.fallbacks[i] # model}
  <2>1. Others \in SUBSET Nat /\ Others # {}
    BY <1>2, <1>3, LenProperties DEF OtherFallback
  <2>2. PICK i \in Others : \A j \in Others : i <= j
    BY <2>1, LeastNatural
  <2>3. i \in DOMAIN strategy.fallbacks /\ strategy.fallbacks[i] \in Models \ {model}
    BY <1>1, <2>2
  <2>4. \A j \in 1..i - 1 : strategy.fallbacks[j] \notin Models \ {model}
    <3>1. \A j \in 1..i - 1 : j \in DOMAIN strategy.fallbacks /\ ~(i <= j)
      BY <1>2, <2>3, LenProperties
    <3> QED
      BY <2>2, <3>1
  <2>5. IsFirstIn(strategy.fallbacks, Models \ {model}, i)
    BY <2>3, <2>4 DEF IsFirstIn
  <2>6. NextFallback(strategy, model) # None
    <3> DEFINE n == CHOOSE k \in DOMAIN strategy.fallbacks :
                      IsFirstIn(strategy.fallbacks, Models \ {model}, k)
    <3>1. n \in DOMAIN strategy.fallbacks
      BY <2>3, <2>5
    <3>2. FirstIn(strategy.fallbacks, Models \ {model}) = strategy.fallbacks[n]
      BY <2>3, <2>5 DEF FirstIn
    <3>3. strategy.fallbacks[n] \in Models
      BY <1>1, <3>1
    <3> HIDE DEF n
    <3> QED
      BY <3>2, <3>3, NoneIsNoModel DEF NextFallback
  <2> QED
    BY <1>1, <1>3, <2>6, FirstInFinds DEF NextFallback, IsFirstIn
<1>4. CASE ~OtherFallback
  BY <1>4, FirstInFinds DEF NextFallback, IsFirstIn, OtherFallback
<1> QED
  BY <1>3, <1>4

(* While the budget is not spent, a fallback of the list is picked as asked.*)
LEMMA PickAsAsked ==
    ASSUME RoleTypeOK, ~BudgetSpent, NEW r \in Roles, NEW m \in strategy.registered
    PROVE  PickWithBudget(strategy, r, m, used) = m
<1>1. strategy \in Strategies /\ strategy.maxExp \in Nat /\ used \in Nat
  BY StrategyFacts DEF RoleTypeOK
<1>2. m \in Models /\ m # None /\ Resolve(strategy, m) = m
  BY <1>1, NoneIsNoModel DEF Strategies, Resolve
<1> DEFINE names == <<m, strategy.overrides[r], strategy.roleModel[r], strategy.default>>
<1>3. IsFirstIn(names, Models, 1) /\ 1 \in DOMAIN names
  BY <1>2 DEF IsFirstIn
<1>4. \A i \in DOMAIN names : IsFirstIn(names, Models, i) => i = 1
  <2> SUFFICES ASSUME NEW i \in 2..4
               PROVE  ~IsFirstIn(names, Models, i)
    OBVIOUS
  <2>1. 1 \in 1..i - 1 /\ names[1] \in Models
    BY <1>2
  <2> QED
    BY <2>1 DEF IsFirstIn
<1>5. FirstNonEmpty(names) = m
  <2> HIDE DEF names
  <2>1. FirstIn(names, Models) = names[1]
    BY <1>3, <1>4 DEF FirstIn
  <2> QED
    BY <2>1 DEF FirstNonEmpty, names
<1>6. ResolveModel(strategy, r, m) = m
  BY <1>2, <1>5 DEF ResolveModel
<1>7. \A x : ~OverBudget(strategy, x, used)
  BY <1>1 DEF OverBudget, BudgetSpent
<1> QED
  BY <1>6, <1>7 DEF PickWithBudget

(* A search that has not been decided is at its first candidate, unless the *)
(* budget is spent.                                                         *)
SearchBegins ==
    phase = "searching" /\ ~BudgetSpent =>
      candidate = NextFallback(strategy, model) /\ tried = {model} \ {None}

LEMMA FirstTurnDecides ==
    ASSUME RoleTypeOK, SearchBegins, SearchStep, ~BudgetSpent
    PROVE  phase' = IF OtherFallback THEN "retrying" ELSE "gaveUp"
<1>1. phase = "searching"
  BY DEF SearchStep, SkipTried, ConsiderFallback, NoFallback
<1>2. candidate = NextFallback(strategy, model) /\ tried = {model} \ {None}
  BY <1>1 DEF SearchBegins
<1>3. CASE OtherFallback
  <2>1. candidate \in strategy.registered \ {model} /\ candidate \in Models
    BY <1>2, <1>3, NextFallbackFinds, StrategyFacts DEF RoleTypeOK, Strategies
  <2>2. PickWithBudget(strategy, role, candidate, used) = candidate
    BY <2>1, PickAsAsked DEF RoleTypeOK
  <2>3. candidate # None /\ candidate \notin tried
    BY <1>2, <2>1, NoneIsNoModel
  <2> QED
    BY <1>3, <2>1, <2>2, <2>3
       DEF SearchStep, SkipTried, ConsiderFallback, NoFallback, AnotherModel
<1>4. CASE ~OtherFallback
  <2>1. candidate = None /\ candidate \notin tried /\ candidate \notin Models
    BY <1>2, <1>4, NextFallbackFinds, NoneIsNoModel DEF RoleTypeOK
  <2> QED
    BY <1>4, <2>1 DEF SearchStep, SkipTried, ConsiderFallback, NoFallback
<1> QED
  BY <1>3, <1>4

LEMMA StepSearchBegins ==
    RoleTypeOK /\ SearchBegins /\ [RoleNext]_roleVars => SearchBegins'
<1> SUFFICES ASSUME RoleTypeOK, SearchBegins, [RoleNext]_roleVars,
                    phase' = "searching", ~BudgetSpent'
             PROVE  candidate' = NextFallback(strategy, model)' /\ tried' = {model'} \ {None}
  BY DEF SearchBegins
<1>1. CASE CallFails
  BY <1>1 DEF CallFails
<1>2. CASE SearchStep
  <2>1. UNCHANGED <<strategy, used>> \/ phase' # "searching"
    BY <1>2 DEF SearchStep, SkipTried, ConsiderFallback, Reject, NoFallback
  <2>2. ~BudgetSpent
    BY <2>1 DEF BudgetSpent
  <2> QED
    BY <1>2, <2>2, FirstTurnDecides
<1>3. CASE UNCHANGED roleVars
  BY <1>3 DEF roleVars, SearchBegins, BudgetSpent
<1> QED
  BY <1>1, <1>2, <1>3
     DEF RoleNext, RunOver, BeginCall, Select, CallSucceeds, RetryFails

LEMMA SearchBeginsHolds == RoleSpec => [](RoleTypeOK /\ SearchBegins)
<1>1. RoleInit => SearchBegins
  BY DEF RoleInit, SearchBegins
<1> QED
  BY <1>1, RoleTypeCorrect, StepSearchBegins, PTL DEF RoleSpec

(* While the budget is not spent, the first turn of a search decides it.    *)
THEOREM SearchesDecide == RoleSpec => SearchDecidesAtOnce
<1>1. RoleTypeOK /\ SearchBegins /\ [RoleNext]_roleVars =>
        [phase = "searching" /\ ~BudgetSpent =>
           phase' = IF OtherFallback THEN "retrying" ELSE "gaveUp"]_roleVars
  <2> SUFFICES ASSUME RoleTypeOK, SearchBegins, RoleNext, phase = "searching", ~BudgetSpent,
                      roleVars' # roleVars
               PROVE  phase' = IF OtherFallback THEN "retrying" ELSE "gaveUp"
    OBVIOUS
  <2>1. SearchStep
    BY DEF RoleNext, RunOver, BeginCall, Select, CallSucceeds, CallFails, RetryFails
  <2> QED
    BY <2>1, FirstTurnDecides
<1> QED
  BY <1>1, SearchBeginsHolds, PTL DEF RoleSpec, SearchDecidesAtOnce
=============================================================================
