------------------------------ MODULE RoleCall ------------------------------
(* The model calls of one run (internal/rpc/agent/runner.go): a role picks  *)
(* a model under the budget of expensive uses, calls it, and when the call  *)
(* fails searches the fallbacks once for another model and calls that one.  *)
(* A second failure, or a search that finds nothing, ends the run.          *)
(* The runner goroutine owns all of this state; it is created per run.      *)
EXTENDS ModelStrategy, FiniteSets, Functions

CONSTANTS
    StrategyChoices,    \* the strategies the daemon may have been given
    Requests,           \* the model names a request may carry, None for no name
    MaxRoleCalls        \* bound: role calls of one run when explored alone

ASSUME ChoicesValidated ==
    \A s \in StrategyChoices : s \in Strategies /\ Validated(s)

(* A registry is filled from a configuration file.                          *)
ASSUME RegistriesAreFinite ==
    \A s \in StrategyChoices : IsFiniteSet(s.registered)

ASSUME RequestsAreNames == Requests \subseteq Names

VARIABLES
    strategy,   \* the daemon's strategy, fixed before the run
    phase,      \* where the role call is
    role,       \* the role of the current call
    model,      \* the model that is called: planModel, modelOverride, criticModel
    used,       \* expensiveUsed
    candidate,  \* fb of pickFallbackModel
    tried,      \* its set of models already looked at
    usage,      \* mycodex_model_usage_total, model by model
    failures,   \* mycodex_model_failures_total
    failed,     \* history: calls and selections that did fail
    called,     \* history: models called for the current role call
    begun       \* history: role calls begun

roleVars == <<strategy, phase, role, model, used, candidate, tried,
              usage, failures, failed, called, begun>>

Phases == {"idle", "calling", "searching", "retrying", "gaveUp"}

RoleTypeOK ==
    /\ strategy \in StrategyChoices
    /\ phase \in Phases
    /\ role \in Roles
    /\ model \in Names
    /\ used \in Nat
    /\ candidate \in Names
    /\ tried \in SUBSET Models
    /\ usage \in [Models -> Nat]
    /\ failures \in Nat
    /\ failed \in Nat
    /\ called \in SUBSET Names
    /\ begun \in Nat

RoleInit ==
    /\ strategy \in StrategyChoices
    /\ phase = "idle"
    /\ role = "planner"
    /\ model = None
    /\ used = 0
    /\ candidate = None
    /\ tried = {}
    /\ usage = [m \in Models |-> 0]
    /\ failures = 0
    /\ failed = 0
    /\ called = {}
    /\ begun = 0

-----------------------------------------------------------------------------
Expensive(m) == IF m \in strategy.expensive THEN 1 ELSE 0

(* Mutants: the counter runs the other way; a use is not counted.           *)
UseBackwards(m) ==
    /\ model' = m
    /\ used' = used - Expensive(m)
    /\ usage' = [usage EXCEPT ![m] = @ + 1]

UseUncounted(m) ==
    /\ model' = m
    /\ UNCHANGED used
    /\ usage' = [usage EXCEPT ![m] = @ + 1]

(* Model m is chosen: counted against the budget and in the usage metric.   *)
Use(m) ==
    /\ model' = m
    /\ used' = used + Expensive(m)
    /\ usage' = [usage EXCEPT ![m] = @ + 1]

(* A call or a selection failed, and is recorded.  Mutant: it is not.       *)
ForgetFailure == failures' = failures /\ failed' = failed + 1

RecordFailure == failures' = failures + 1 /\ failed' = failed + 1

(* selectModel: a role call begins.  A selection that fails is recorded and *)
(* leaves the requested name in place.                                      *)
Select(r, requested) ==
    LET pick == PickWithBudget(strategy, r, requested, used)
    IN  /\ phase = "idle"
        /\ phase' = "calling"
        /\ role' = r
        /\ called' = {}
        /\ begun' = begun + 1
        /\ \/ /\ pick # None
              /\ Use(pick)
              /\ UNCHANGED <<failures, failed>>
           \/ /\ pick = None
              /\ model' = requested
              /\ RecordFailure
              /\ UNCHANGED <<used, usage>>
        /\ UNCHANGED <<strategy, candidate, tried>>

(* The call returned a result.  A planner call whose plan is cached returns *)
(* it before the model is resolved; every other call resolves the model.    *)
CallSucceeds ==
    /\ phase \in {"calling", "retrying"}
    /\ role = "planner" \/ Resolve(strategy, model) # None
    /\ phase' = "idle"
    /\ called' = called \cup {model}
    /\ UNCHANGED <<strategy, role, model, used, candidate, tried, usage,
                   failures, failed, begun>>

(* The first call failed: the failure is recorded and the search starts.    *)
CallFails ==
    /\ phase = "calling"
    /\ phase' = "searching"
    /\ candidate' = NextFallback(strategy, model)
    /\ tried' = {model} \ {None}
    /\ called' = called \cup {model}
    /\ RecordFailure
    /\ UNCHANGED <<strategy, role, model, used, usage, begun>>

(* The retry failed too: the failure is recorded and the run gives up.      *)
RetryFails ==
    /\ phase = "retrying"
    /\ phase' = "gaveUp"
    /\ called' = called \cup {model}
    /\ RecordFailure
    /\ UNCHANGED <<strategy, role, model, used, candidate, tried, usage, begun>>

(* One turn of the loop of pickFallbackModel.                               *)
Reject ==
    /\ phase' = phase
    /\ candidate' = NextFallback(strategy, candidate)
    /\ UNCHANGED <<model, used, usage>>

SkipTried ==
    /\ phase = "searching"
    /\ candidate \in tried
    /\ Reject
    /\ UNCHANGED <<strategy, role, tried, failures, failed, called, begun>>

(* The pick is worth a retry.  Mutant: even the model that just failed.     *)
AnyPick(pick) == pick # None

AnotherModel(pick) == pick \notin {None, model}

ConsiderFallback ==
    LET pick == PickWithBudget(strategy, role, candidate, used)
    IN  /\ phase = "searching"
        /\ candidate \in Models \ tried
        /\ tried' = tried \cup {candidate}
        /\ \/ /\ pick = None
              /\ RecordFailure
              /\ Reject
           \/ /\ pick # None
              /\ ~AnotherModel(pick)
              /\ UNCHANGED <<failures, failed>>
              /\ Reject
           \/ /\ AnotherModel(pick)
              /\ phase' = "retrying"
              /\ Use(pick)
              /\ UNCHANGED <<candidate, failures, failed>>
        /\ UNCHANGED <<strategy, role, called, begun>>

(* The search found nothing.  The caller still holds the error of the first *)
(* call and records it a second time before it ends the run.                *)
NoFallback ==
    /\ phase = "searching"
    /\ candidate = None
    /\ phase' = "gaveUp"
    /\ failures' = failures + 1
    /\ UNCHANGED <<strategy, role, model, used, candidate, tried, usage,
                   failed, called, begun>>

SearchStep == SkipTried \/ ConsiderFallback \/ NoFallback

-----------------------------------------------------------------------------
(* A run on its own: role calls in any order, with any requested model.     *)
BeginCall ==
    /\ begun < MaxRoleCalls
    /\ \E r \in Roles, requested \in Requests : Select(r, requested)

(* The run is over: it gave up, or made its last role call.                 *)
RunOver ==
    /\ phase = "gaveUp" \/ (phase = "idle" /\ begun = MaxRoleCalls)
    /\ UNCHANGED roleVars

RoleNext ==
    \/ BeginCall
    \/ CallSucceeds
    \/ CallFails
    \/ RetryFails
    \/ SearchStep
    \/ RunOver

(* The goroutine is scheduled and every provider call returns.              *)
RoleFairness ==
    /\ WF_roleVars(CallSucceeds \/ CallFails \/ RetryFails)
    /\ WF_roleVars(SearchStep)

RoleSpec == RoleInit /\ [][RoleNext]_roleVars

FairRoleSpec == RoleSpec /\ RoleFairness

-----------------------------------------------------------------------------
(* Some model the budget test falls back on is cheap: the first fallback or *)
(* the default model.                                                       *)
CheapWayOut(s) ==
    \/ FirstFallback(s) \notin s.expensive \cup {None}
    \/ s.default # None /\ Resolve(s, s.default) \notin s.expensive \cup {None}

(* The limit on expensive uses holds over the selections, retries and       *)
(* fallback searches of a whole run, when the budget test has a cheap model *)
(* to fall back on (PickWithBudget tests the limit only twice).             *)
BudgetKept ==
    strategy.maxExp > 0 /\ CheapWayOut(strategy) => used <= strategy.maxExp

(* The limit as documented: when it is reached the fallbacks are walked in  *)
(* order, so one cheap model anywhere in the list is enough to keep it.     *)
CheapFallback(s) == \E i \in DOMAIN s.fallbacks : s.fallbacks[i] \notin s.expensive

FallbacksKeepBudget ==
    strategy.maxExp > 0 /\ CheapFallback(strategy) => used <= strategy.maxExp

(* The budget counter and the usage metric agree: every selection that is   *)
(* counted in one is counted in the other, on the selection path and on the *)
(* fallback path (runner.go 467-471 and 505-509).                           *)
UsedMatchesUsage ==
    used = FoldFunctionOnSet(+, 0, usage, strategy.expensive)

(* A retry calls a model that this role call has not called yet.            *)
RetryIsAnotherModel == phase = "retrying" => model \notin called

(* While the run goes on, the failure metric counts each failed call and    *)
(* each failed selection once; only giving up without a retry adds one.     *)
FailuresCountedOnce ==
    failures = failed + (IF phase = "gaveUp" /\ candidate = None THEN 1 ELSE 0)

(* While the budget is not spent a search is decided by its first turn: the *)
(* failed call is retried if any fallback is another model, and the run     *)
(* gives up if there is none.  What keeps a search going is the budget.     *)
BudgetSpent == strategy.maxExp > 0 /\ used >= strategy.maxExp

OtherFallback == \E i \in DOMAIN strategy.fallbacks : strategy.fallbacks[i] # model

SearchDecidesAtOnce ==
    [][phase = "searching" /\ ~BudgetSpent =>
         phase' = IF OtherFallback THEN "retrying" ELSE "gaveUp"]_roleVars

(* The fallback list is walked to a decision: every search ends with a      *)
(* retry or by giving up.                                                   *)
SearchEnds == (phase = "searching") ~> (phase \in {"retrying", "gaveUp"})
=============================================================================
