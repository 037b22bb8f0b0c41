------------------------------ MODULE AgentRun ------------------------------
(* The goroutine that runs one task (AgentRunner.Run in                     *)
(* internal/rpc/agent/runner.go) and the bounded channel it reports on.     *)
(* It runs the request's tools, plans, then takes up to max_steps steps; a  *)
(* step asks the coder, streams the answer, runs the tools it names, runs   *)
(* the tests when the answer is final, and has the critic reflect on it.    *)
(* Its role calls are those of RoleCall.  The consumer of the channel and   *)
(* the cancellation of the request are its environment.                     *)
(*                                                                          *)
(* A send blocks on a full channel: an action that reports leaves its       *)
(* events in `pend`, and nothing but a send happens until they are gone.    *)
EXTENDS RoleCall, SequencesExt

CONSTANTS
    Runs,       \* agent configuration and request of the runs explored
    Answers,    \* the coder answers explored
    ChanCap     \* capacity of the event channel (16 in the code)

ASSUME RunsWellFormed ==
    /\ Runs \subseteq [ plan : BOOLEAN, reflect : BOOLEAN, enforce : BOOLEAN,
                        tests : BOOLEAN, retries : Nat, maxSteps : Nat \ {0},
                        tools : Nat, request : [Roles -> Requests] ]
    /\ Answers \subseteq [ tokens : Nat, calls : Nat,
                           finish : {"none", "length", "stop"}, marker : BOOLEAN ]
    /\ \A a \in Answers : a.tokens = 0 => a.calls = 0 /\ ~a.marker
    /\ ChanCap \in Nat \ {0}

ASSUME RoleCallsSuffice ==
    MaxRoleCalls \in Nat /\ \A r \in Runs : 2 * r.maxSteps + 1 <= MaxRoleCalls

VARIABLES
    run,            \* the agent configuration and the request
    pc,             \* where the goroutine is; a role's name during its calls
    step,           \* the step number, 0 before the first
    planned,        \* the session holds a plan (Session.Plan is not blank)
    answer,         \* resp: the coder's last answer
    executed,       \* tool calls executed from the current list
    initialTools,   \* observations of the request's tools, until step 1 takes them
    stepTools,      \* observations the critic of this step is shown
    attempts,       \* loop counter of runTests
    done,           \* the answer ends the run
    forced,         \* forcedFinish is set: the critic blocked the run
    recorded,       \* the run is counted in mycodex_agent_requests_total
    ctxDone,        \* the request's context is cancelled
    pend,           \* events the goroutine is about to send, in order
    sent,           \* history: every event put into the channel
    taken,          \* how many of them the consumer has received
    deserted        \* the consumer has returned without draining the channel

toolVars == <<executed, initialTools, stepTools>>
answerVars == <<step, planned, answer, done, forced>>
chanVars == <<pend, sent, taken, deserted>>
runVars == <<roleVars, run, pc, toolVars, answerVars, attempts, recorded, ctxDone, chanVars>>

Event(type, n, info) == [type |-> type, step |-> n, info |-> info]

Failed == Event("error", 0, "failed")
Cancelled == Event("error", 0, "cancelled")

(* The stream has said how the run ended.  A tool that fails ends it too.   *)
Outcome(e) == e.type \in {"done", "error"} \/ e.info = "tool failed"

(* The zero value of agent.Response, before the first answer.               *)
NoAnswer == [tokens |-> 0, calls |-> 0, finish |-> "none", marker |-> FALSE]

RunInit ==
    /\ RoleInit
    /\ run \in Runs
    /\ pc = "start"
    /\ step = 0
    /\ planned \in BOOLEAN
    /\ answer = NoAnswer
    /\ executed = 0 /\ initialTools = 0 /\ stepTools = 0
    /\ attempts = 0
    /\ done = FALSE /\ forced = FALSE /\ recorded = FALSE /\ ctxDone = FALSE
    /\ pend = <<>> /\ sent = <<>> /\ taken = 0 /\ deserted = FALSE

-----------------------------------------------------------------------------
At(place) == pc = place /\ pend = <<>>

GoTo(place, events) ==
    /\ pc' = place
    /\ pend' = events
    /\ UNCHANGED <<run, recorded, ctxDone, sent, taken, deserted>>

(* The context files are read; an error ends the run before it starts.      *)
LoadContext ==
    /\ At("start")
    /\ GoTo("initial", <<>>) \/ GoTo("ending", <<Failed>>)
    /\ UNCHANGED <<roleVars, toolVars, answerVars, attempts>>

(* One tool runs and is reported.  Its failure is reported by the same kind *)
(* of event and ends the run; a cancelled context is a failure.             *)
ToolFails(place) ==
    /\ At(place)
    /\ GoTo("ending", <<Event("tool", 0, "tool failed")>>)
    /\ UNCHANGED <<roleVars, toolVars, answerVars, attempts>>

(* executeTool looks at the context first.  Mutant: it does not.            *)
ToolAlwaysRuns == TRUE

ToolMayRun == ~ctxDone

InitialTool ==
    /\ executed < run.tools
    /\ \/ ToolFails("initial")
       \/ /\ At("initial")
          /\ ToolMayRun
          /\ GoTo("initial", <<Event("tool", 0, "ok")>>)
          /\ executed' = executed + 1
          /\ initialTools' = initialTools + 1
          /\ UNCHANGED <<roleVars, stepTools, answerVars, attempts>>

BeginPlanning ==
    /\ At("initial")
    /\ executed = run.tools
    /\ run.plan
    /\ Select("planner", run.request["planner"])
    /\ GoTo("planner", <<>>)
    /\ UNCHANGED <<toolVars, answerVars, attempts>>

SkipPlanning ==
    /\ At("initial")
    /\ executed = run.tools
    /\ ~run.plan
    /\ GoTo("step", <<>>)
    /\ UNCHANGED <<roleVars, toolVars, answerVars, attempts>>

(* The plan is the cached one, or a new one, which is cached unless blank.  *)
PlannerAnswers ==
    /\ At("planner")
    /\ CallSucceeds
    /\ planned \/ (~ctxDone /\ Resolve(strategy, model) # None)
    /\ planned' \in IF planned THEN {TRUE} ELSE BOOLEAN
    /\ GoTo("step", IF planned' THEN <<Event("plan", 0, "ok")>> ELSE <<>>)
    /\ UNCHANGED <<toolVars, step, answer, done, forced, attempts>>

-----------------------------------------------------------------------------
(* The head of the step loop.  Mutant: it takes one step too many.          *)
OneStepMore == step <= run.maxSteps

StepsLeft == step < run.maxSteps

StopAtLimit ==
    /\ At("step")
    /\ ~StepsLeft
    /\ GoTo("record", <<Event("done", step, "max_steps")>>)
    /\ UNCHANGED <<roleVars, toolVars, answerVars, attempts>>

StopCancelled ==
    /\ At("step")
    /\ StepsLeft
    /\ ctxDone
    /\ GoTo("ending", <<Cancelled>>)
    /\ UNCHANGED <<roleVars, toolVars, answerVars, attempts>>

(* The observations of step n are the request's tools or none.  Mutant:     *)
(* those of the steps before stay.                                          *)
KeepTools == stepTools' = stepTools + initialTools /\ initialTools' = 0

TakeTools == stepTools' = initialTools /\ initialTools' = 0

BeginStep ==
    /\ At("step")
    /\ StepsLeft
    /\ ~ctxDone
    /\ step' = step + 1
    /\ TakeTools
    /\ executed' = 0
    /\ Select("coder", run.request["coder"])
    /\ GoTo("coder", <<>>)
    /\ UNCHANGED <<planned, answer, done, forced, attempts>>

(* Agent.Run plans first when the session still has no plan (with the       *)
(* coder's model), then asks for the answer, which is streamed in words.    *)
PlanOnTheWay == IF run.plan /\ ~planned /\ ~ctxDone THEN BOOLEAN ELSE {planned}

Words(a) == [i \in 1..a.tokens |-> Event("token", step * 1000 + i - 1, "ok")]

(* Mutant: the words are streamed before the message.                       *)
WordsFirst(a) == Words(a) \o <<Event("message", step, "answer")>>

AnswerEvents(a) == <<Event("message", step, "answer")>> \o Words(a)

CoderAnswers ==
    /\ At("coder")
    /\ ~ctxDone
    /\ CallSucceeds
    /\ planned' \in PlanOnTheWay
    /\ answer' \in Answers
    /\ GoTo("tools", AnswerEvents(answer'))
    /\ UNCHANGED <<toolVars, step, done, forced, attempts>>

StepTool ==
    /\ executed < answer.calls
    /\ \/ ToolFails("tools")
       \/ /\ At("tools")
          /\ ToolMayRun
          /\ GoTo("tools", <<Event("tool", 0, "ok")>>)
          /\ executed' = executed + 1
          /\ stepTools' = stepTools + 1
          /\ UNCHANGED <<roleVars, initialTools, answerVars, attempts>>

IsResponseDone(a) == a.finish \notin {"none", "length"} \/ a.marker

(* A final answer is tested.  Mutant: only one whose reason is "stop" is.   *)
TestIfStopped(isDone) == IF answer.finish = "stop" /\ run.tests THEN "tests" ELSE "reflect"

AfterTools(isDone) == IF isDone /\ run.tests THEN "tests" ELSE "reflect"

JudgeAnswer ==
    /\ At("tools")
    /\ executed = answer.calls
    /\ done' = IsResponseDone(answer)
    /\ attempts' = 1
    /\ GoTo(AfterTools(done'), <<>>)
    /\ UNCHANGED <<roleVars, toolVars, step, planned, answer, forced>>

(* One attempt of runTests.                                                 *)
TestsPass ==
    /\ At("tests")
    /\ ~ctxDone
    /\ GoTo("reflect", <<Event("test", attempts, "passed")>>)
    /\ UNCHANGED <<roleVars, toolVars, answerVars, attempts>>

(* Mutant: after the last attempt the tests start over.                     *)
TestsStartOver ==
    /\ At("tests")
    /\ attempts' = IF attempts > run.retries THEN 1 ELSE attempts + 1
    /\ GoTo("tests", <<>>)
    /\ UNCHANGED <<roleVars, toolVars, answerVars>>

(* The event carries the loop counter, which has moved past the last        *)
(* attempt when every attempt failed.                                       *)
TestsFail ==
    /\ At("tests")
    /\ attempts' = attempts + 1
    /\ IF attempts' <= run.retries + 1
       THEN GoTo("tests", <<>>)
       ELSE GoTo("reflect", <<Event("test", attempts', "tests failed")>>)
    /\ UNCHANGED <<roleVars, toolVars, answerVars>>

(* Mutant: the critic takes the coder's model, without a selection.         *)
ReflectWithoutSelect ==
    /\ At("reflect")
    /\ run.reflect
    /\ phase' = "calling" /\ role' = "critic"
    /\ GoTo("critic", <<>>)
    /\ UNCHANGED <<strategy, model, used, candidate, tried, usage, failures, failed,
                   called, begun, toolVars, answerVars, attempts>>

BeginReflection ==
    /\ At("reflect")
    /\ run.reflect
    /\ Select("critic", run.request["critic"])
    /\ GoTo("critic", <<>>)
    /\ UNCHANGED <<toolVars, answerVars, attempts>>

SkipReflection ==
    /\ At("reflect")
    /\ ~run.reflect
    /\ GoTo("finish", <<>>)
    /\ UNCHANGED <<roleVars, toolVars, answerVars, attempts>>

(* The critique sets block_apply, and the policy does not ignore that.      *)
Blocks(verdict) == verdict = "blocks" /\ run.enforce

(* Agent.Reflect refuses a blank answer.  A critique that blocks ends the   *)
(* run, whatever the answer said.                                           *)
CriticAnswers ==
    /\ At("critic")
    /\ ~ctxDone
    /\ answer.tokens > 0
    /\ CallSucceeds
    /\ \E verdict \in {"blank", "plain", "blocks"} :
         /\ GoTo("finish", IF verdict = "blank" THEN <<>>
                           ELSE <<Event("reflect", step, verdict)>>)
         /\ done' = (done \/ Blocks(verdict))
         /\ forced' = (forced \/ Blocks(verdict))
    /\ UNCHANGED <<toolVars, step, planned, answer, attempts>>

(* Mutant: the block is forgotten when the step is finished.                *)
FinishUnblocked ==
    /\ At("finish")
    /\ IF ~done THEN GoTo("step", <<>>) ELSE GoTo("record", <<Event("done", step, answer.finish)>>)
    /\ UNCHANGED <<roleVars, toolVars, answerVars, attempts>>

FinishStep ==
    /\ At("finish")
    /\ IF ~done THEN GoTo("step", <<>>)
       ELSE IF forced THEN
         GoTo("record", <<Event("message", step, "halted"),
                          Event("done", step, "blocked_by_reflect")>>)
       ELSE GoTo("record", <<Event("done", step, answer.finish)>>)
    /\ UNCHANGED <<roleVars, toolVars, answerVars, attempts>>

-----------------------------------------------------------------------------
(* A role call fails: of a planner, only when there is no cached plan.  The *)
(* run ends with an error event when there is no other model to try.        *)
(* Mutant: it goes on as if there were.                                     *)
NeverGiveUp(place) == GoTo(place, <<>>)

GiveUpOr(place) ==
    IF phase' = "gaveUp" THEN GoTo("ending", <<Failed>>) ELSE GoTo(place, <<>>)

RoleFails ==
    /\ pc \in Roles /\ At(pc)
    /\ pc = "planner" => ~planned
    /\ CallFails \/ RetryFails
    /\ planned' \in IF pc = "coder" THEN PlanOnTheWay ELSE {planned}
    /\ GiveUpOr(pc)
    /\ UNCHANGED <<toolVars, step, answer, done, forced, attempts>>

SearchFallback ==
    /\ pc \in Roles /\ At(pc)
    /\ SearchStep
    /\ GiveUpOr(pc)
    /\ UNCHANGED <<toolVars, answerVars, attempts>>

(* The next event enters the channel when there is room.                    *)
Send ==
    /\ pend # <<>>
    /\ Len(sent) - taken < ChanCap
    /\ sent' = Append(sent, Head(pend))
    /\ pend' = Tail(pend)
    /\ UNCHANGED <<roleVars, run, pc, toolVars, answerVars, attempts, recorded, ctxDone,
                   taken, deserted>>

(* Only the send of a token also watches the context.                       *)
CancelTokens ==
    /\ pend # <<>>
    /\ Head(pend).type = "token"
    /\ ctxDone
    /\ pc' = "ending"
    /\ pend' = <<Cancelled>>
    /\ UNCHANGED <<roleVars, run, toolVars, answerVars, attempts, recorded, ctxDone, sent,
                   taken, deserted>>

(* The goroutine returns; a run that reached its done event is recorded.    *)
Return ==
    /\ pc \in {"record", "ending"} /\ At(pc)
    /\ recorded' = (pc = "record")
    /\ pc' = "closed"
    /\ UNCHANGED <<roleVars, run, toolVars, answerVars, attempts, ctxDone, chanVars>>

RunnerStep ==
    \/ LoadContext \/ InitialTool
    \/ BeginPlanning \/ SkipPlanning \/ PlannerAnswers
    \/ StopAtLimit \/ StopCancelled \/ BeginStep \/ CoderAnswers
    \/ StepTool \/ JudgeAnswer \/ TestsPass \/ TestsFail
    \/ BeginReflection \/ SkipReflection \/ CriticAnswers \/ FinishStep
    \/ RoleFails \/ SearchFallback
    \/ Send \/ CancelTokens \/ Return

-----------------------------------------------------------------------------
(* The environment: the handler that ranges over the channel, and whoever   *)
(* cancels the request's context.                                           *)
TakeEvent ==
    /\ ~deserted
    /\ taken < Len(sent)
    /\ taken' = taken + 1
    /\ UNCHANGED <<roleVars, run, pc, toolVars, answerVars, attempts, recorded, pend, sent>>

Receive == TakeEvent /\ UNCHANGED <<ctxDone, deserted>>

(* A consumer that cannot pass the event on returns, which cancels.  Nobody *)
(* takes the events that are left, or that the run still sends.             *)
ReceiveLast == TakeEvent /\ ctxDone' = TRUE /\ deserted' = TRUE

CancelRequest ==
    /\ ~ctxDone
    /\ ctxDone' = TRUE
    /\ UNCHANGED <<roleVars, run, pc, toolVars, answerVars, attempts, recorded, chanVars>>

(* The goroutine is blocked for good on a full channel that nobody drains.  *)
(* (A token it would give up, for the context is cancelled.)                *)
Stranded ==
    /\ deserted /\ Len(sent) - taken = ChanCap
    /\ pend # <<>> /\ Head(pend).type # "token"

(* A run that is closed, and drained by a consumer that is there, or one    *)
(* that is stranded does nothing more.                                      *)
RunClosed ==
    /\ (pc = "closed" /\ (deserted \/ taken = Len(sent))) \/ Stranded
    /\ UNCHANGED runVars

RunNext == RunnerStep \/ Receive \/ ReceiveLast \/ CancelRequest \/ RunClosed

RunSpec == RunInit /\ [][RunNext]_runVars

(* The goroutine keeps running while it is not blocked on the channel, its  *)
(* provider and tool calls return, and the consumer, unless it has returned,*)
(* takes what is in the channel.                                            *)
FairRunSpec == RunSpec /\ WF_runVars(RunnerStep) /\ WF_runVars(Receive)

-----------------------------------------------------------------------------
Places == Roles \cup {"start", "initial", "step", "tools", "tests", "reflect",
                      "finish", "record", "ending", "closed"}

Infos == {"ok", "tool failed", "failed", "cancelled", "answer", "halted", "passed",
          "tests failed", "plain", "blocks", "max_steps", "blocked_by_reflect",
          "none", "length", "stop"}

Events == [ type : {"tool", "plan", "message", "token", "test", "reflect",
                    "error", "done"},
            step : Nat, info : Infos ]

RunTypeOK ==
    /\ RoleTypeOK
    /\ run \in Runs
    /\ pc \in Places
    /\ step \in 0..run.maxSteps
    /\ {planned, done, forced, recorded, ctxDone, deserted} \subseteq BOOLEAN
    /\ answer \in Answers \cup {NoAnswer}
    /\ {executed, initialTools, stepTools, attempts, taken} \subseteq Nat
    /\ pend \in Seq(Events)
    /\ sent \in Seq(Events)

(* A client learns the fate of every run from the last event of its stream, *)
(* and from no earlier one: no event follows an outcome, and a closed       *)
(* stream has one.                                                          *)
OneOutcome ==
    /\ \A i \in DOMAIN (sent \o pend) :
         Outcome((sent \o pend)[i]) => i = Len(sent \o pend)
    /\ pc = "closed" => sent # <<>> /\ pend = <<>> /\ Outcome(Last(sent))

(* A run that the policy blocks does no more work: after a blocking         *)
(* critique come only the halt message and a done event with its reason,    *)
(* and no other run ends with that reason.                                  *)
Blocking(e) == run.enforce /\ e.type = "reflect" /\ e.info = "blocks"

BlockedRunHalts ==
    /\ \A i \in DOMAIN sent : Blocking(sent[i]) =>
         \A j \in i + 1..Len(sent) : sent[j].info \in {"halted", "blocked_by_reflect"}
    /\ \A j \in DOMAIN sent : sent[j].info = "blocked_by_reflect" =>
         \E i \in 1..j - 1 : Blocking(sent[i])

(* The critic is shown every tool that ran for this step, those of the      *)
(* request being part of step 1, and none of an earlier step's.             *)
ToolsSince(n) == Cardinality({i \in n..Len(sent) : sent[i].type = "tool"})

CriticSeesTheTools ==
    pc = "critic" =>
      LET own == CHOOSE i \in DOMAIN sent :
                   /\ sent[i].type = "message"
                   /\ \A j \in i + 1..Len(sent) : sent[j].type # "message"
      IN  stepTools = ToolsSince(IF step = 1 THEN 1 ELSE own)

(* Once the context is cancelled the run takes on no new work: no step      *)
(* begins, no tool runs, no answer and no plan is accepted.                 *)
CancelStopsWork ==
    [][ctxDone => UNCHANGED <<step, answer, executed, planned>>]_runVars

(* No run ends on an answer that was not tested: with tests enabled, the    *)
(* done event of an answer comes after a test event of that very answer,    *)
(* whatever the tests said (only the limit and a block end a run untested). *)
TestedBeforeDone ==
    \A j \in DOMAIN sent :
      ( /\ run.tests /\ sent[j].type = "done"
        /\ sent[j].info \notin {"max_steps", "blocked_by_reflect"} )
      => \E i \in 1..j - 1 :
           /\ sent[i].type = "test"
           /\ \A k \in i..j : sent[k].type # "message"

(* Every run ends, cancelled or not, whatever its calls and tools return,   *)
(* or is stranded: only a consumer that returned early can hold it up.      *)
RunEnds == <>(pc = "closed" \/ Stranded)

(* How far a run is from its end, the most significant part first: the      *)
(* steps left, the places left in this one, the work left at this place,    *)
(* the events left to send.                                                 *)
PlacesLeft ==
    CASE pc = "start" -> 11 [] pc = "initial" -> 10 [] pc = "planner" -> 9
      [] pc = "coder" -> 8 [] pc = "tools" -> 7 [] pc = "tests" -> 6
      [] pc = "reflect" -> 5 [] pc = "critic" -> 4 [] pc = "finish" -> 3
      [] pc = "step" -> 2 [] pc \in {"record", "ending"} -> 1 [] pc = "closed" -> 0

CallsLeft ==
    CASE phase = "calling" -> 2 [] phase = "searching" -> 1 [] OTHER -> 0

WorkLeft ==
    CASE pc = "initial" -> run.tools - executed
      [] pc = "tools"   -> answer.calls - executed
      [] pc = "tests"   -> run.retries + 1 - attempts
      [] pc \in Roles   -> CallsLeft
      [] OTHER          -> 0

Distance == <<run.maxSteps - step, PlacesLeft, WorkLeft, Len(pend)>>

(* The first part that changes gets smaller, and none is below zero.        *)
Nearer ==
    /\ \A i \in 1..4 : Distance'[i] >= 0
    /\ \E i \in 1..4 : /\ Distance'[i] < Distance[i]
                       /\ \A j \in 1..i - 1 : Distance'[j] = Distance[j]

(* Whatever its calls and tools return, a step of the run brings it nearer  *)
(* its end: only the search under a spent budget can take steps for ever,   *)
(* and only a full channel or a call that hangs can hold the run up.        *)
SearchGoesOn == BudgetSpent /\ phase = "searching" /\ phase' = "searching"

RunMovesOn == [][RunnerStep => Nearer \/ SearchGoesOn]_runVars

(* Test output drives the next step: when the tests fail, the critic is     *)
(* enabled and steps remain, the run does not end on the answer tested but  *)
(* asks the coder for another (unless the critique blocks it).              *)
FailedTestsDriveNextStep ==
    \A i, j \in DOMAIN sent :
      ( /\ run.reflect /\ i < j
        /\ sent[i].info = "tests failed"
        /\ sent[j].type = "done" /\ sent[j].step < run.maxSteps
        /\ sent[j].info # "blocked_by_reflect" )
      => \E k \in i..j : sent[k].info = "answer"

-----------------------------------------------------------------------------
(* The stream a consumer is given obeys the protocol of RunStream: order of *)
(* the events of a run and of a step, one outcome, then the end.            *)
Stream == INSTANCE RunStream WITH
            stream <- sent, ended <- pc = "closed",
            Outcomes <- {e \in Events : Outcome(e)}

ImplementsStream == Stream!Spec

(* The role calls of a run are those of RoleCall: no step of the runner     *)
(* touches the budget, the metrics or the search behind its back.           *)
ImplementsRoleCall == RoleSpec
=============================================================================
