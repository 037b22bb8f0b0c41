-------------------------- MODULE AgentRun_proofs --------------------------
(* The agent makes only the role calls of RoleCall, for every configuration, *)
(* request and strategy.  Its own calls are bounded by its steps, which is   *)
(* what keeps them within the bound of RoleCall.                             *)
EXTENDS AgentRun, RoleCall_proofs

RunFields == [ plan : BOOLEAN, reflect : BOOLEAN, enforce : BOOLEAN,
               tests : BOOLEAN, retries : Nat, maxSteps : Nat \ {0},
               tools : Nat, request : [Roles -> Requests] ]

(* The steps taken bound the role calls begun: one for the plan, then one   *)
(* for the coder and one for the critic of each step.                       *)
CallsBounded ==
    /\ run \in Runs
    /\ begun \in Nat
    /\ step \in 0..run.maxSteps
    /\ begun <= 2 * step + 1
    /\ pc \in {"start", "initial"} => begun = 0
    /\ pc \in {"coder", "tools", "tests", "reflect"} => begun <= 2 * step

LEMMA RunFacts ==
    ASSUME run \in Runs
    PROVE  /\ run \in RunFields
           /\ run.maxSteps \in Nat /\ run.tools \in Nat /\ run.retries \in Nat
           /\ \A r \in Roles : run.request[r] \in Requests
           /\ 2 * run.maxSteps + 1 <= MaxRoleCalls
<1>1. run \in RunFields
  BY RunsWellFormed DEF RunFields
<1> QED
  BY <1>1, RoleCallsSuffice DEF RunFields

(* The actions that leave the state of the role call alone.                 *)
LocalStep ==
    \/ LoadContext \/ InitialTool \/ SkipPlanning
    \/ StopAtLimit \/ StopCancelled \/ StepTool \/ JudgeAnswer
    \/ TestsPass \/ TestsFail \/ SkipReflection \/ FinishStep
    \/ Send \/ CancelTokens \/ Return \/ Receive \/ ReceiveLast \/ CancelRequest

(* Those that move it on without beginning a call.                          *)
CallStep ==
    \/ PlannerAnswers \/ CoderAnswers \/ CriticAnswers
    \/ RoleFails \/ SearchFallback

LEMMA LocalStepFrame == LocalStep => UNCHANGED roleVars
BY DEF LocalStep, LoadContext, InitialTool, ToolFails, SkipPlanning, StopAtLimit,
       StopCancelled, StepTool, JudgeAnswer, TestsPass, TestsFail, SkipReflection,
       FinishStep, Send, CancelTokens, Return, Receive, ReceiveLast, TakeEvent, CancelRequest

LEMMA CallStepIsRoleStep ==
    CallStep => (CallSucceeds \/ CallFails \/ RetryFails \/ SearchStep) /\ UNCHANGED begun
<1>1. CallStep => CallSucceeds \/ CallFails \/ RetryFails \/ SearchStep
  BY DEF CallStep, PlannerAnswers, CoderAnswers, CriticAnswers, RoleFails, SearchFallback
<1>2. CallSucceeds \/ CallFails \/ RetryFails \/ SearchStep => UNCHANGED begun
  BY DEF CallSucceeds, CallFails, RetryFails, SearchStep, SkipTried, ConsiderFallback, NoFallback
<1> QED
  BY <1>1, <1>2

LEMMA BeginIsRoleStep ==
    ASSUME CallsBounded, BeginPlanning \/ BeginStep \/ BeginReflection
    PROVE  BeginCall
<1>1. /\ run.request["planner"] \in Requests /\ run.request["coder"] \in Requests
      /\ run.request["critic"] \in Requests
      /\ run.maxSteps \in Nat \ {0} /\ 2 * run.maxSteps + 1 <= MaxRoleCalls
  BY RunFacts DEF CallsBounded, Roles, RunFields
<1>2. MaxRoleCalls \in Nat
  BY RoleCallsSuffice
<1>3. CASE BeginPlanning
  <2>1. begun < MaxRoleCalls
    BY <1>1, <1>2, <1>3 DEF BeginPlanning, At, CallsBounded
  <2> QED
    BY <1>1, <1>3, <2>1 DEF BeginPlanning, BeginCall, Roles
<1>4. CASE BeginStep
  <2>1. begun < MaxRoleCalls
    BY <1>1, <1>2, <1>4 DEF BeginStep, StepsLeft, At, CallsBounded
  <2> QED
    BY <1>1, <1>4, <2>1 DEF BeginStep, BeginCall, Roles
<1>5. CASE BeginReflection
  <2>1. begun < MaxRoleCalls
    BY <1>1, <1>2, <1>5 DEF BeginReflection, At, CallsBounded
  <2> QED
    BY <1>1, <1>5, <2>1 DEF BeginReflection, BeginCall, Roles
<1> QED
  BY <1>3, <1>4, <1>5

LEMMA RunNextCases ==
    ASSUME [RunNext]_runVars
    PROVE  \/ LocalStep \/ CallStep
           \/ BeginPlanning \/ BeginStep \/ BeginReflection
           \/ UNCHANGED runVars
BY DEF RunNext, RunnerStep, LocalStep, CallStep, RunClosed

LEMMA StepIsRoleStep == CallsBounded /\ [RunNext]_runVars => [RoleNext]_roleVars
BY RunNextCases, LocalStepFrame, CallStepIsRoleStep, BeginIsRoleStep DEF RoleNext, runVars

LEMMA StepCallsBounded == CallsBounded /\ [RunNext]_runVars => CallsBounded'
<1> SUFFICES ASSUME CallsBounded, [RunNext]_runVars
             PROVE  CallsBounded'
  OBVIOUS
<1> USE DEF CallsBounded
<1>0. run.maxSteps \in Nat
  BY RunFacts
<1>1. CASE LocalStep
  <2>1. UNCHANGED <<run, begun, step>>
    BY <1>1, LocalStepFrame
       DEF LocalStep, roleVars, answerVars, GoTo, LoadContext, InitialTool, ToolFails,
           SkipPlanning, StopAtLimit, StopCancelled, StepTool, JudgeAnswer, AfterTools, TestsPass,
           TestsFail, SkipReflection, FinishStep, Send, CancelTokens, Return, Receive,
           ReceiveLast, TakeEvent, CancelRequest
  <2>2. pc' \in {"start", "initial"} => pc \in {"start", "initial"}
    BY <1>1
       DEF LocalStep, At, GoTo, LoadContext, InitialTool, ToolFails,
           SkipPlanning, StopAtLimit, StopCancelled, StepTool, JudgeAnswer, AfterTools, TestsPass,
           TestsFail, SkipReflection, FinishStep, Send, CancelTokens, Return, Receive,
           ReceiveLast, TakeEvent, CancelRequest
  <2>3. pc' \in {"coder", "tools", "tests", "reflect"} =>
          pc \in {"coder", "tools", "tests", "reflect"}
    BY <1>1
       DEF LocalStep, At, GoTo, LoadContext, InitialTool, ToolFails,
           SkipPlanning, StopAtLimit, StopCancelled, StepTool, JudgeAnswer, AfterTools, TestsPass,
           TestsFail, SkipReflection, FinishStep, Send, CancelTokens, Return, Receive,
           ReceiveLast, TakeEvent, CancelRequest
  <2> QED
    BY <2>1, <2>2, <2>3
<1>2. CASE CallStep
  <2>1. UNCHANGED <<run, begun, step>>
    BY <1>2, CallStepIsRoleStep
       DEF CallStep, answerVars, GoTo, GiveUpOr, PlannerAnswers, CoderAnswers,
           CriticAnswers, RoleFails, SearchFallback
  <2>2. /\ pc' \notin {"start", "initial"}
        /\ pc' \in {"coder", "tools", "tests", "reflect"} => pc = "coder"
    BY <1>2
       DEF CallStep, At, GoTo, GiveUpOr, Roles, PlannerAnswers, CoderAnswers,
           CriticAnswers, RoleFails, SearchFallback
  <2> QED
    BY <2>1, <2>2
<1>3. CASE BeginPlanning
  BY <1>3 DEF BeginPlanning, At, GoTo, Select, answerVars
<1>4. CASE BeginStep
  BY <1>0, <1>4 DEF BeginStep, StepsLeft, At, GoTo, Select
<1>5. CASE BeginReflection
  BY <1>5 DEF BeginReflection, At, GoTo, Select, answerVars
<1>6. CASE UNCHANGED runVars
  BY <1>6 DEF runVars, roleVars, answerVars
<1> QED
  BY <1>1, <1>2, <1>3, <1>4, <1>5, <1>6, RunNextCases

LEMMA CallsAreBounded == RunSpec => []CallsBounded
<1>1. RunInit => CallsBounded
  BY RunFacts DEF RunInit, RoleInit, CallsBounded
<1> QED
  BY <1>1, StepCallsBounded, PTL DEF RunSpec

(* Every run of the agent is a run of RoleCall.                             *)
THEOREM RunsMakeRoleCalls == RunSpec => ImplementsRoleCall
<1>1. RunInit => RoleInit
  BY DEF RunInit
<1> QED
  BY <1>1, CallsAreBounded, StepIsRoleStep, PTL DEF RunSpec, RoleSpec, ImplementsRoleCall

(* The budget of expensive uses holds over a whole run of the agent.        *)
THEOREM RunKeepsBudget == RunSpec => []BudgetKept
BY RunsMakeRoleCalls, BudgetIsKept, PTL DEF ImplementsRoleCall

(* The metric counts what the budget counts over a whole run of the agent.  *)
THEOREM RunCountsUsage == RunSpec => []UsedMatchesUsage
BY RunsMakeRoleCalls, UsageIsCounted, PTL DEF ImplementsRoleCall

(* In a run of the agent, too, the first turn of a search decides it while  *)
(* the budget is not spent.                                                 *)
THEOREM RunSearchesDecide == RunSpec => SearchDecidesAtOnce
BY RunsMakeRoleCalls, SearchesDecide, PTL DEF ImplementsRoleCall
=============================================================================
