------------------------- MODULE AgentStream_proofs -------------------------
(* Proofs about one run of the agent and its stream, for every              *)
(* configuration, request, strategy and answer: its state has its types, a  *)
(* cancelled run takes on no new work, and the stream has one outcome.      *)
EXTENDS AgentRun_proofs

(* The part of RunTypeOK that the runner itself looks after.                *)
RunnerTypes ==
    /\ CallsBounded
    /\ pc \in Places
    /\ planned \in BOOLEAN /\ done \in BOOLEAN /\ forced \in BOOLEAN
    /\ recorded \in BOOLEAN /\ ctxDone \in BOOLEAN /\ deserted \in BOOLEAN
    /\ answer \in Answers \cup {NoAnswer}
    /\ executed \in Nat /\ initialTools \in Nat /\ stepTools \in Nat
    /\ attempts \in Nat /\ taken \in Nat
    /\ pend \in Seq(Events)
    /\ sent \in Seq(Events)

LEMMA AnswerFacts ==
    ASSUME NEW a \in Answers \cup {NoAnswer}
    PROVE  a.tokens \in Nat /\ a.calls \in Nat /\ a.finish \in {"none", "length", "stop"}
<1>1. CASE a \in Answers
  <2>1. a \in [ tokens : Nat, calls : Nat,
                finish : {"none", "length", "stop"}, marker : BOOLEAN ]
    BY <1>1, RunsWellFormed
  <2> QED
    BY <2>1
<1>2. CASE a = NoAnswer
  BY <1>2 DEF NoAnswer
<1> QED
  BY <1>1, <1>2

(* What is streamed for an answer are events, and none of them an outcome.  *)
LEMMA AnswerEventsFacts ==
    ASSUME NEW a \in Answers, step \in Nat
    PROVE  /\ AnswerEvents(a) \in Seq(Events)
           /\ \A i \in 1..Len(AnswerEvents(a)) : ~Outcome(AnswerEvents(a)[i])
<1> DEFINE head == <<Event("message", step, "answer")>>
           words == Words(a)
<1>1. a.tokens \in Nat
  BY AnswerFacts
<1>2. words \in Seq(Events) /\ Len(words) = a.tokens
  <2>1. \A i \in 1..a.tokens : Event("token", step * 1000 + i - 1, "ok") \in Events
    BY <1>1 DEF Event, Events, Infos
  <2> QED
    BY <1>1, <2>1 DEF Words
<1>3. \A i \in 1..a.tokens : ~Outcome(words[i])
  BY <1>1 DEF Words, Event, Outcome
<1>4. head \in Seq(Events) /\ Len(head) = 1 /\ ~Outcome(head[1])
  <2>1. Event("message", step, "answer") \in Events
    BY DEF Event, Events, Infos
  <2>2. ~Outcome(Event("message", step, "answer"))
    BY DEF Event, Outcome
  <2> QED
    BY <2>1, <2>2
<1>5. AnswerEvents(a) = head \o words
  BY DEF AnswerEvents
<1> HIDE DEF head, words
<1>6. /\ head \o words \in Seq(Events)
      /\ Len(head \o words) = 1 + a.tokens
      /\ \A i \in 1..1 + a.tokens :
           (head \o words)[i] = IF i <= 1 THEN head[i] ELSE words[i - 1]
  <2>1. /\ head \o words \in Seq(Events)
        /\ Len(head \o words) = Len(head) + Len(words)
        /\ \A i \in 1..Len(head) + Len(words) :
             (head \o words)[i] = IF i <= Len(head) THEN head[i] ELSE words[i - Len(head)]
    BY <1>2, <1>4, ConcatProperties, Zenon
  <2> QED
    BY <1>2, <1>4, <2>1
<1>7. \A i \in 1..1 + a.tokens : ~Outcome((head \o words)[i])
  <2> TAKE i \in 1..1 + a.tokens
  <2>1. CASE i = 1
    BY <1>4, <1>6, <2>1
  <2>2. CASE i # 1
    BY <1>1, <1>3, <1>6, <2>2
  <2> QED
    BY <2>1, <2>2
<1> QED
  BY <1>5, <1>6, <1>7
-----------------------------------------------------------------------------
(* What a step of the runner leaves to be sent: no outcome while it goes    *)
(* on, and an outcome in the last place when it is over.                    *)
Over == {"record", "ending", "closed"}

Quiet(s) == s \in Seq(Events) /\ \A i \in 1..Len(s) : ~Outcome(s[i])

Final(s) ==
    /\ s \in Seq(Events)
    /\ s # <<>>
    /\ Outcome(s[Len(s)])
    /\ \A i \in 1..Len(s) : Outcome(s[i]) => i = Len(s)

ReportStep ==
    /\ pend = <<>> /\ pc \notin Over
    /\ UNCHANGED <<recorded, ctxDone, sent, taken, deserted>>
    /\ \/ pc' \in Places \ Over /\ Quiet(pend')
       \/ pc' \in {"record", "ending"} /\ Final(pend')

LEMMA NoEvent == Quiet(<<>>)
BY DEF Quiet

LEMMA QuietEvent ==
    ASSUME NEW e \in Events, ~Outcome(e)
    PROVE  Quiet(<<e>>)
BY DEF Quiet

LEMMA FinalEvent ==
    ASSUME NEW e \in Events, Outcome(e)
    PROVE  Final(<<e>>)
BY DEF Final

LEMMA FinalAfter ==
    ASSUME NEW d \in Events, NEW e \in Events, ~Outcome(d), Outcome(e)
    PROVE  Final(<<d, e>>)
BY DEF Final

LEMMA ErrorEvents ==
    /\ Failed \in Events /\ Outcome(Failed)
    /\ Cancelled \in Events /\ Outcome(Cancelled)
BY DEF Failed, Cancelled, Event, Events, Infos, Outcome

LEMMA ToolEvents ==
    /\ Event("tool", 0, "ok") \in Events /\ ~Outcome(Event("tool", 0, "ok"))
    /\ Event("tool", 0, "tool failed") \in Events /\ Outcome(Event("tool", 0, "tool failed"))
BY DEF Event, Events, Infos, Outcome

LEMMA PassingEvent ==
    ASSUME NEW type \in {"plan", "message", "token", "test", "reflect"}, NEW n \in Nat,
           NEW info \in Infos \ {"tool failed"}
    PROVE  Quiet(<<Event(type, n, info)>>)
<1>1. Event(type, n, info) \in Events /\ ~Outcome(Event(type, n, info))
  BY DEF Event, Events, Outcome
<1> QED
  BY <1>1, QuietEvent

LEMMA DoneEvent ==
    ASSUME NEW n \in Nat, NEW info \in Infos
    PROVE  Event("done", n, info) \in Events /\ Outcome(Event("done", n, info))
BY DEF Event, Events, Outcome

LEMMA RunnerFacts ==
    ASSUME RunnerTypes
    PROVE  /\ run \in Runs /\ step \in Nat /\ run.maxSteps \in Nat
           /\ answer.tokens \in Nat /\ answer.calls \in Nat
           /\ answer.finish \in Infos
<1>1. run \in Runs /\ run.maxSteps \in Nat /\ step \in 0..run.maxSteps
  BY RunFacts DEF RunnerTypes, CallsBounded
<1>2. answer \in Answers \cup {NoAnswer}
  BY DEF RunnerTypes
<1>3. answer.tokens \in Nat /\ answer.calls \in Nat /\ answer.finish \in {"none", "length", "stop"}
  BY <1>2, AnswerFacts
<1>4. answer.finish \in Infos
  BY <1>3 DEF Infos
<1> QED
  BY <1>1, <1>3, <1>4

(* The steps that report by way of GoTo, up to the first words of the coder *)
(* and from its tools to the end.                                           *)
Preparing == LoadContext \/ InitialTool \/ BeginPlanning \/ SkipPlanning \/ PlannerAnswers

Stepping == StopAtLimit \/ StopCancelled \/ BeginStep \/ CoderAnswers \/ StepTool \/ JudgeAnswer

Reviewing ==
    \/ TestsPass \/ TestsFail \/ BeginReflection \/ SkipReflection
    \/ CriticAnswers \/ FinishStep

Recovering == RoleFails \/ SearchFallback

LEMMA PreparingReports == RunnerTypes /\ Preparing => ReportStep
<1> SUFFICES ASSUME RunnerTypes, Preparing
             PROVE  ReportStep
  OBVIOUS
<1> USE NoEvent DEF At, GoTo, ReportStep, Places, Over, Roles
<1>1. CASE LoadContext
  BY <1>1, ErrorEvents, FinalEvent DEF LoadContext
<1>2. CASE InitialTool
  BY <1>2, ToolEvents, FinalEvent, QuietEvent DEF InitialTool, ToolFails
<1>3. CASE BeginPlanning \/ SkipPlanning
  BY <1>3 DEF BeginPlanning, SkipPlanning
<1>4. CASE PlannerAnswers
  <2>1. Quiet(<<Event("plan", 0, "ok")>>)
    BY PassingEvent DEF Infos
  <2> QED
    BY <1>4, <2>1 DEF PlannerAnswers
<1> QED
  BY <1>1, <1>2, <1>3, <1>4 DEF Preparing

LEMMA SteppingReports == RunnerTypes /\ Stepping => ReportStep
<1> SUFFICES ASSUME RunnerTypes, Stepping
             PROVE  ReportStep
  OBVIOUS
<1> USE NoEvent DEF At, GoTo, ReportStep, Places, Over, Roles
<1>1. CASE StopAtLimit
  <2>1. Final(<<Event("done", step, "max_steps")>>)
    BY RunnerFacts, DoneEvent, FinalEvent DEF Infos
  <2> QED
    BY <1>1, <2>1 DEF StopAtLimit
<1>2. CASE StopCancelled
  BY <1>2, ErrorEvents, FinalEvent DEF StopCancelled
<1>3. CASE BeginStep
  BY <1>3 DEF BeginStep
<1>4. CASE CoderAnswers
  <2>1. answer' \in Answers => Quiet(AnswerEvents(answer'))
    BY RunnerFacts, AnswerEventsFacts DEF Quiet
  <2> QED
    BY <1>4, <2>1 DEF CoderAnswers
<1>5. CASE StepTool
  BY <1>5, ToolEvents, FinalEvent, QuietEvent DEF StepTool, ToolFails
<1>6. CASE JudgeAnswer
  BY <1>6 DEF JudgeAnswer, AfterTools
<1> QED
  BY <1>1, <1>2, <1>3, <1>4, <1>5, <1>6 DEF Stepping

LEMMA ReviewingReports == RunnerTypes /\ Reviewing => ReportStep
<1> SUFFICES ASSUME RunnerTypes, Reviewing
             PROVE  ReportStep
  OBVIOUS
<1> USE NoEvent DEF At, GoTo, ReportStep, Places, Over, Roles
<1>0. attempts \in Nat
  BY DEF RunnerTypes
<1>1. CASE TestsPass
  <2>1. Quiet(<<Event("test", attempts, "passed")>>)
    BY <1>0, PassingEvent DEF Infos
  <2> QED
    BY <1>1, <2>1 DEF TestsPass
<1>2. CASE TestsFail
  <2>1. attempts' \in Nat
    <3>1. attempts' = attempts + 1
      BY <1>2, Zenon DEF TestsFail
    <3> QED
      BY <1>0, <3>1
  <2>2. Quiet(<<Event("test", attempts', "tests failed")>>)
    BY <2>1, PassingEvent DEF Infos
  <2>3. \/ GoTo("tests", <<>>)
        \/ GoTo("reflect", <<Event("test", attempts', "tests failed")>>)
    BY <1>2 DEF TestsFail
  <2> QED
    BY <1>2, <2>2, <2>3 DEF TestsFail
<1>3. CASE BeginReflection \/ SkipReflection
  BY <1>3 DEF BeginReflection, SkipReflection
<1>4. CASE CriticAnswers
  <2>1. \A verdict \in {"plain", "blocks"} : Quiet(<<Event("reflect", step, verdict)>>)
    BY RunnerFacts, PassingEvent DEF Infos
  <2> QED
    BY <1>4, <2>1 DEF CriticAnswers
<1>5. CASE FinishStep
  <2>1. Final(<<Event("message", step, "halted"), Event("done", step, "blocked_by_reflect")>>)
    <3>1. Event("message", step, "halted") \in Events /\ ~Outcome(Event("message", step, "halted"))
      BY RunnerFacts DEF Event, Events, Infos, Outcome
    <3> QED
      BY <3>1, RunnerFacts, DoneEvent, FinalAfter DEF Infos
  <2>2. Final(<<Event("done", step, answer.finish)>>)
    BY RunnerFacts, DoneEvent, FinalEvent
  <2> QED
    BY <1>5, <2>1, <2>2 DEF FinishStep
<1> QED
  BY <1>1, <1>2, <1>3, <1>4, <1>5 DEF Reviewing

LEMMA RecoveringReports == Recovering => ReportStep
<1>1. Final(<<Failed>>)
  BY ErrorEvents, FinalEvent
<1> QED
  BY <1>1, NoEvent
     DEF Recovering, RoleFails, SearchFallback, GiveUpOr, At, GoTo, ReportStep, Places,
         Over, Roles
Reporting == Preparing \/ Stepping \/ Reviewing \/ Recovering

LEMMA ReportingReports == RunnerTypes /\ Reporting => ReportStep
BY PreparingReports, SteppingReports, ReviewingReports, RecoveringReports DEF Reporting

LEMMA StepKinds ==
    ASSUME [RunNext]_runVars
    PROVE  \/ Reporting \/ Send \/ CancelTokens \/ Return
           \/ Receive \/ ReceiveLast \/ CancelRequest \/ UNCHANGED runVars
BY DEF RunNext, RunnerStep, RunClosed, Reporting, Preparing, Stepping, Reviewing, Recovering

-----------------------------------------------------------------------------
(* The types of the channel and of the control state.                       *)
ChannelTypes ==
    /\ pc \in Places
    /\ recorded \in BOOLEAN /\ ctxDone \in BOOLEAN /\ deserted \in BOOLEAN
    /\ taken \in Nat
    /\ pend \in Seq(Events)
    /\ sent \in Seq(Events)

LEMMA ChannelStep == RunnerTypes /\ [RunNext]_runVars => ChannelTypes'
<1> SUFFICES ASSUME RunnerTypes, [RunNext]_runVars
             PROVE  ChannelTypes'
  OBVIOUS
<1>0. ChannelTypes
  BY DEF RunnerTypes, ChannelTypes
<1>1. CASE Reporting
  BY <1>0, <1>1, ReportingReports DEF ReportStep, Quiet, Final, ChannelTypes, Over, Places, Roles
<1>2. CASE Send
  BY <1>0, <1>2 DEF Send, ChannelTypes
<1>3. CASE CancelTokens
  BY <1>0, <1>3, ErrorEvents DEF CancelTokens, ChannelTypes, Places
<1>4. CASE Return
  <2>1. recorded' \in BOOLEAN
    BY <1>4, Zenon DEF Return
  <2> QED
    BY <1>0, <1>4, <2>1 DEF Return, chanVars, ChannelTypes, Places
<1>5. CASE Receive \/ ReceiveLast
  <2>1. taken' = taken + 1 /\ UNCHANGED <<pc, recorded, pend, sent>>
    BY <1>5 DEF Receive, ReceiveLast, TakeEvent
  <2>2. ctxDone' \in BOOLEAN /\ deserted' \in BOOLEAN
    BY <1>0, <1>5, Zenon DEF Receive, ReceiveLast, ChannelTypes
  <2> QED
    BY <1>0, <2>1, <2>2 DEF ChannelTypes
<1>6. CASE CancelRequest
  BY <1>0, <1>6 DEF CancelRequest, chanVars, ChannelTypes
<1>7. CASE UNCHANGED runVars
  BY <1>0, <1>7 DEF runVars, chanVars, ChannelTypes
<1> QED
  BY <1>1, <1>2, <1>3, <1>4, <1>5, <1>6, <1>7, StepKinds

(* The types of what the runner remembers of tools, tests and answers.      *)
MemoryTypes ==
    /\ planned \in BOOLEAN /\ done \in BOOLEAN /\ forced \in BOOLEAN
    /\ answer \in Answers \cup {NoAnswer}
    /\ executed \in Nat /\ initialTools \in Nat /\ stepTools \in Nat
    /\ attempts \in Nat

memoryVars == <<toolVars, planned, answer, done, forced, attempts>>

LEMMA MemoryStep == RunnerTypes /\ [RunNext]_runVars => MemoryTypes'
<1> SUFFICES ASSUME RunnerTypes, [RunNext]_runVars
             PROVE  MemoryTypes'
  OBVIOUS
<1>0. MemoryTypes
  BY DEF RunnerTypes, MemoryTypes
<1> USE DEF MemoryTypes, toolVars, answerVars
<1>1. CASE UNCHANGED memoryVars
  BY <1>0, <1>1 DEF memoryVars
<1>2. CASE InitialTool
  <2>1. UNCHANGED <<planned, answer, done, forced, stepTools, attempts>>
    BY <1>2, Zenon DEF InitialTool, ToolFails
  <2>2. /\ executed' = executed \/ executed' = executed + 1
        /\ initialTools' = initialTools \/ initialTools' = initialTools + 1
    BY <1>2, Zenon DEF InitialTool, ToolFails
  <2> QED
    BY <1>0, <2>1, <2>2
<1>3. CASE StepTool
  <2>1. UNCHANGED <<planned, answer, done, forced, initialTools, attempts>>
    BY <1>3, Zenon DEF StepTool, ToolFails
  <2>2. /\ executed' = executed \/ executed' = executed + 1
        /\ stepTools' = stepTools \/ stepTools' = stepTools + 1
    BY <1>3, Zenon DEF StepTool, ToolFails
  <2> QED
    BY <1>0, <2>1, <2>2
<1>4. CASE PlannerAnswers
  <2>1. planned' \in BOOLEAN
    BY <1>4, Zenon DEF PlannerAnswers
  <2> QED
    BY <1>0, <1>4, <2>1 DEF PlannerAnswers
<1>5. CASE BeginStep
  BY <1>0, <1>5 DEF BeginStep, TakeTools
<1>6. CASE CoderAnswers
  <2>1. planned' \in BOOLEAN
    BY <1>0, <1>6 DEF CoderAnswers, PlanOnTheWay
  <2> QED
    BY <1>0, <1>6, <2>1 DEF CoderAnswers
<1>7. CASE JudgeAnswer
  <2>1. done' \in BOOLEAN
    BY <1>7, Zenon DEF JudgeAnswer, IsResponseDone
  <2> QED
    BY <1>0, <1>7, <2>1 DEF JudgeAnswer
<1>8. CASE TestsFail
  <2>1. attempts' = attempts + 1 /\ UNCHANGED <<toolVars, answerVars>>
    BY <1>8, Zenon DEF TestsFail
  <2> QED
    BY <1>0, <2>1
<1>9. CASE CriticAnswers
  <2>1. done' \in BOOLEAN /\ forced' \in BOOLEAN
    BY <1>9, Zenon DEF CriticAnswers
  <2> QED
    BY <1>0, <1>9, <2>1 DEF CriticAnswers
<1>10. CASE RoleFails
  <2>1. planned' \in BOOLEAN
    BY <1>0, <1>10 DEF RoleFails, PlanOnTheWay
  <2> QED
    BY <1>0, <1>10, <2>1 DEF RoleFails
<1>11. \/ UNCHANGED memoryVars
       \/ InitialTool \/ StepTool \/ PlannerAnswers \/ BeginStep \/ CoderAnswers
       \/ JudgeAnswer \/ TestsFail \/ CriticAnswers \/ RoleFails
  BY DEF RunNext, RunnerStep, RunClosed, runVars, memoryVars, LoadContext, BeginPlanning,
         SkipPlanning, StopAtLimit, StopCancelled, TestsPass, BeginReflection,
         SkipReflection, FinishStep, SearchFallback, Send, CancelTokens, Return, Receive,
         ReceiveLast, TakeEvent, CancelRequest
<1> QED
  BY <1>1, <1>2, <1>3, <1>4, <1>5, <1>6, <1>7, <1>8, <1>9, <1>10, <1>11
LEMMA RunnerInit == RunInit => RunnerTypes
<1> SUFFICES ASSUME RunInit
             PROVE  RunnerTypes
  OBVIOUS
<1>1. CallsBounded
  BY RunFacts DEF RunInit, RoleInit, CallsBounded
<1>2. ChannelTypes
  <2>1. recorded \in BOOLEAN /\ ctxDone \in BOOLEAN /\ deserted \in BOOLEAN
    BY Zenon DEF RunInit
  <2>2. taken \in Nat /\ pend \in Seq(Events) /\ sent \in Seq(Events)
    BY DEF RunInit
  <2>3. pc \in Places
    BY DEF RunInit, Places
  <2> QED
    BY <2>1, <2>2, <2>3 DEF ChannelTypes
<1>3. MemoryTypes
  BY DEF RunInit, MemoryTypes
<1> QED
  BY <1>1, <1>2, <1>3 DEF RunnerTypes, ChannelTypes, MemoryTypes

LEMMA RunnerStepTyped == RunnerTypes /\ [RunNext]_runVars => RunnerTypes'
<1> SUFFICES ASSUME RunnerTypes, [RunNext]_runVars
             PROVE  RunnerTypes'
  OBVIOUS
<1>1. CallsBounded'
  BY StepCallsBounded DEF RunnerTypes
<1> QED
  BY <1>1, ChannelStep, MemoryStep DEF RunnerTypes, ChannelTypes, MemoryTypes

LEMMA RunnerTyped == RunSpec => []RunnerTypes
BY RunnerInit, RunnerStepTyped, PTL DEF RunSpec

(* The state of a run has its types.                                        *)
THEOREM RunTypeCorrect == RunSpec => []RunTypeOK
<1>1. RoleTypeOK /\ RunnerTypes => RunTypeOK
  <2> SUFFICES ASSUME RoleTypeOK, RunnerTypes
               PROVE  RunTypeOK
    OBVIOUS
  <2>1. {planned, done, forced, recorded, ctxDone, deserted} \subseteq BOOLEAN
    BY DEF RunnerTypes
  <2>2. {executed, initialTools, stepTools, attempts, taken} \subseteq Nat
    BY DEF RunnerTypes
  <2> QED
    BY <2>1, <2>2 DEF RunTypeOK, RunnerTypes, CallsBounded
<1> QED
  BY <1>1, RunnerTyped, RunsMakeRoleCalls, RoleTypeCorrect, PTL DEF ImplementsRoleCall

-----------------------------------------------------------------------------
(* A cancelled request takes on no new work.                                *)
workVars == <<step, answer, executed, planned>>

LEMMA CancelledStep == RunnerTypes /\ [RunNext]_runVars /\ ctxDone => UNCHANGED workVars
<1> SUFFICES ASSUME RunnerTypes, [RunNext]_runVars, ctxDone
             PROVE  UNCHANGED workVars
  OBVIOUS
<1> USE DEF workVars, toolVars, answerVars
<1>0. planned \in BOOLEAN
  BY DEF RunnerTypes
<1>1. CASE InitialTool \/ StepTool
  BY <1>1, Zenon DEF InitialTool, StepTool, ToolFails, ToolMayRun
<1>2. CASE PlannerAnswers
  <2>1. planned /\ planned' = TRUE
    BY <1>2, Zenon DEF PlannerAnswers
  <2> QED
    BY <1>0, <1>2, <2>1 DEF PlannerAnswers
<1>3. CASE RoleFails
  BY <1>3 DEF RoleFails, PlanOnTheWay
<1>4. ~BeginStep /\ ~CoderAnswers
  BY DEF BeginStep, CoderAnswers
<1>5. \/ UNCHANGED workVars
      \/ InitialTool \/ StepTool \/ PlannerAnswers \/ RoleFails
  BY <1>4 DEF RunNext, RunnerStep, RunClosed, runVars, LoadContext, BeginPlanning,
         SkipPlanning, StopAtLimit, StopCancelled, JudgeAnswer, TestsPass, TestsFail,
         BeginReflection, SkipReflection, CriticAnswers, FinishStep, SearchFallback, Send,
         CancelTokens, Return, Receive, ReceiveLast, TakeEvent, CancelRequest
<1> QED
  BY <1>1, <1>2, <1>3, <1>5

THEOREM CancelledRunsStop == RunSpec => CancelStopsWork
<1>1. RunnerTypes /\ [RunNext]_runVars
        => [ctxDone => UNCHANGED <<step, answer, executed, planned>>]_runVars
  BY CancelledStep DEF workVars
<1> QED
  BY <1>1, RunnerTyped, PTL DEF RunSpec, CancelStopsWork
-----------------------------------------------------------------------------
(* Why the outcome is one: while the run goes on neither the events sent    *)
(* nor those about to be sent are outcomes; when it is over the last event  *)
(* about to be sent is the first outcome, or the last event sent was it.    *)
OutcomeInv ==
    /\ pc \notin Over => Quiet(pend)
    /\ pc \in Over /\ pend # <<>> => Final(pend)
    /\ pc \in Over /\ pend = <<>> => sent # <<>> /\ Outcome(sent[Len(sent)])
    /\ \A i \in 1..Len(sent) : Outcome(sent[i]) => i = Len(sent) /\ pc \in Over /\ pend = <<>>
    /\ pc = "closed" => pend = <<>>

LEMMA SendKeepsOutcome == RunnerTypes /\ OutcomeInv /\ Send => OutcomeInv'
<1> SUFFICES ASSUME RunnerTypes, OutcomeInv, Send
             PROVE  OutcomeInv'
  OBVIOUS
<1> DEFINE n == Len(pend)
           m == Len(sent)
<1>1. /\ pend \in Seq(Events) /\ pend # <<>> /\ n \in Nat \ {0}
      /\ sent \in Seq(Events) /\ m \in Nat
      /\ pc' = pc /\ sent' = Append(sent, Head(pend)) /\ pend' = Tail(pend)
  BY DEF RunnerTypes, Send
<1>2. /\ Len(sent') = m + 1 /\ sent'[m + 1] = pend[1]
      /\ \A i \in 1..m : sent'[i] = sent[i]
  BY <1>1
<1>3. /\ pend' \in Seq(Events) /\ Len(pend') = n - 1
      /\ \A i \in 1..n - 1 : pend'[i] = pend[i + 1]
      /\ pend' = <<>> <=> n = 1
  <2>1. pend' \in Seq(Events) /\ Len(pend') = n - 1
    BY <1>1
  <2>2. \A i \in 1..n - 1 : pend'[i] = pend[i + 1]
    BY <1>1, HeadTailProperties
  <2>3. pend' = <<>> <=> Len(pend') = 0
    BY <2>1, EmptySeq
  <2> QED
    BY <1>1, <2>1, <2>2, <2>3
<1>4. \A i \in 1..m : ~Outcome(sent[i])
  BY <1>1 DEF OutcomeInv
<1>5. pc # "closed"
  BY <1>1 DEF OutcomeInv
<1>6. CASE pc \notin Over
  <2>1. \A i \in 1..n : ~Outcome(pend[i])
    BY <1>6 DEF OutcomeInv, Quiet
  <2>2. Quiet(pend')
    BY <1>1, <1>3, <2>1 DEF Quiet
  <2>3. \A i \in 1..m + 1 : ~Outcome(sent'[i])
    <3> TAKE i \in 1..m + 1
    <3>1. CASE i = m + 1
      BY <1>1, <1>2, <2>1, <3>1
    <3>2. CASE i # m + 1
      BY <1>1, <1>2, <1>4, <3>2
    <3> QED
      BY <3>1, <3>2
  <2> QED
    BY <1>1, <1>2, <1>6, <2>2, <2>3 DEF OutcomeInv, Over
<1>7. CASE pc \in Over /\ n = 1
  <2>1. pend' = <<>>
    BY <1>3, <1>7
  <2>2. Outcome(sent'[m + 1])
    BY <1>1, <1>2, <1>7 DEF OutcomeInv, Final
  <2>3. \A i \in 1..m + 1 : Outcome(sent'[i]) => i = m + 1
    BY <1>1, <1>2, <1>4
  <2>4. sent' # <<>>
    BY <1>1
  <2> QED
    BY <1>1, <1>2, <1>5, <1>7, <2>1, <2>2, <2>3, <2>4 DEF OutcomeInv
<1>8. CASE pc \in Over /\ n # 1
  <2>1. Outcome(pend[n]) /\ \A i \in 1..n : Outcome(pend[i]) => i = n
    BY <1>1, <1>8 DEF OutcomeInv, Final
  <2>2. pend' # <<>> /\ Outcome(pend'[n - 1])
    <3>1. n - 1 \in 1..n - 1 /\ pend'[n - 1] = pend[n]
      BY <1>1, <1>3, <1>8
    <3> QED
      BY <1>3, <1>8, <2>1, <3>1
  <2>3. \A i \in 1..n - 1 : Outcome(pend'[i]) => i = n - 1
    <3> TAKE i \in 1..n - 1
    <3>1. i + 1 \in 1..n /\ pend'[i] = pend[i + 1]
      BY <1>1, <1>3
    <3> QED
      BY <1>1, <2>1, <3>1
  <2>4. Final(pend')
    BY <1>3, <2>2, <2>3 DEF Final
  <2>5. \A i \in 1..m + 1 : ~Outcome(sent'[i])
    <3> TAKE i \in 1..m + 1
    <3>1. CASE i = m + 1
      <4>1. 1 \in 1..n /\ 1 # n
        BY <1>1, <1>8
      <4>2. ~Outcome(pend[1])
        BY <2>1, <4>1
      <4> QED
        BY <1>2, <3>1, <4>2
    <3>2. CASE i # m + 1
      BY <1>1, <1>2, <1>4, <3>2
    <3> QED
      BY <3>1, <3>2
  <2> QED
    BY <1>1, <1>2, <1>5, <1>8, <2>2, <2>4, <2>5 DEF OutcomeInv
<1> QED
  BY <1>6, <1>7, <1>8

LEMMA StepKeepsOutcome == RunnerTypes /\ OutcomeInv /\ [RunNext]_runVars => OutcomeInv'
<1> SUFFICES ASSUME RunnerTypes, OutcomeInv, [RunNext]_runVars
             PROVE  OutcomeInv'
  OBVIOUS
<1>1. CASE Reporting
  <2>1. ReportStep
    BY <1>1, ReportingReports
  <2>2. sent' = sent /\ \A i \in 1..Len(sent) : ~Outcome(sent[i])
    BY <2>1 DEF ReportStep, OutcomeInv
  <2>3. CASE pc' \in Places \ Over /\ Quiet(pend')
    BY <2>2, <2>3 DEF OutcomeInv, Over
  <2>4. CASE pc' \in {"record", "ending"} /\ Final(pend')
    BY <2>2, <2>4 DEF OutcomeInv, Over, Final
  <2> QED
    BY <2>1, <2>3, <2>4 DEF ReportStep
<1>2. CASE Send
  BY <1>2, SendKeepsOutcome
<1>3. CASE CancelTokens
  <2>1. pc' = "ending" /\ sent' = sent /\ pend' = <<Cancelled>>
    BY <1>3 DEF CancelTokens
  <2>2. \A i \in 1..Len(sent) : ~Outcome(sent[i])
    BY <1>3 DEF CancelTokens, OutcomeInv
  <2>3. Final(pend') /\ pend' # <<>>
    BY <2>1, ErrorEvents, FinalEvent DEF Final
  <2> QED
    BY <2>1, <2>2, <2>3 DEF OutcomeInv, Over
<1>4. CASE Return
  <2>1. pc \in Over /\ pc' = "closed" /\ pend = <<>> /\ UNCHANGED <<pend, sent>>
    BY <1>4 DEF Return, At, Over, chanVars
  <2> QED
    BY <2>1 DEF OutcomeInv, Over
<1>5. CASE UNCHANGED <<pc, pend, sent>>
  BY <1>5 DEF OutcomeInv, Quiet, Final
<1>6. Receive \/ ReceiveLast \/ CancelRequest \/ UNCHANGED runVars => UNCHANGED <<pc, pend, sent>>
  BY DEF Receive, ReceiveLast, TakeEvent, CancelRequest, runVars, chanVars
<1> QED
  BY <1>1, <1>2, <1>3, <1>4, <1>5, <1>6, StepKinds

LEMMA OutcomeInit == RunInit => OutcomeInv
BY DEF RunInit, OutcomeInv, Over, Quiet

(* The stream of every run has one outcome, which is its last event.        *)
THEOREM StreamsHaveOneOutcome == RunSpec => []OneOutcome
<1>1. RunnerTypes /\ OutcomeInv => OneOutcome
  <2> SUFFICES ASSUME RunnerTypes, OutcomeInv
               PROVE  OneOutcome
    OBVIOUS
  <2>1. /\ sent \in Seq(Events) /\ Len(sent) \in Nat
        /\ pend \in Seq(Events) /\ Len(pend) \in Nat
    BY DEF RunnerTypes
  <2>2. /\ sent \o pend \in Seq(Events)
        /\ Len(sent \o pend) = Len(sent) + Len(pend)
        /\ \A i \in 1..Len(sent) + Len(pend) :
             (sent \o pend)[i] = IF i <= Len(sent) THEN sent[i] ELSE pend[i - Len(sent)]
    BY <2>1, ConcatProperties, Zenon
  <2>3. \A i \in 1..Len(pend) : Outcome(pend[i]) => i = Len(pend)
    BY DEF OutcomeInv, Quiet, Final
  <2>4. ASSUME NEW i \in DOMAIN (sent \o pend), Outcome((sent \o pend)[i])
        PROVE  i = Len(sent \o pend)
    <3>1. i \in 1..Len(sent) + Len(pend)
      BY <2>1, <2>2
    <3>2. CASE i <= Len(sent)
      <4>1. i \in 1..Len(sent) /\ Outcome(sent[i])
        BY <2>1, <2>2, <2>4, <3>1, <3>2
      <4>2. i = Len(sent) /\ pend = <<>>
        BY <4>1 DEF OutcomeInv
      <4> QED
        BY <2>1, <2>2, <4>2
    <3>3. CASE i > Len(sent)
      <4>1. i - Len(sent) \in 1..Len(pend) /\ Outcome(pend[i - Len(sent)])
        BY <2>1, <2>2, <2>4, <3>1, <3>3
      <4> QED
        BY <2>1, <2>2, <2>3, <3>1, <4>1
    <3> QED
      BY <2>1, <3>1, <3>2, <3>3
  <2>5. pc = "closed" => sent # <<>> /\ pend = <<>> /\ Outcome(Last(sent))
    BY DEF OutcomeInv, Over, Last
  <2> QED
    BY <2>4, <2>5 DEF OneOutcome
<1> QED
  BY <1>1, OutcomeInit, StepKeepsOutcome, RunnerTyped, PTL DEF RunSpec

-----------------------------------------------------------------------------
(* How far a run is from its end.  The work left at a place is not below    *)
(* zero, and only an answer leaves words to be sent.                        *)
WorkWithin ==
    /\ pc \in {"start", "initial"} => executed <= run.tools
    /\ pc = "coder" => executed = 0
    /\ pc = "tools" => executed <= answer.calls
    /\ pc = "tests" => attempts <= run.retries + 1
    /\ pc # "tools" => \A i \in 1..Len(pend) : pend[i].type # "token"

LEMMA DistanceBounds ==
    ASSUME RunnerTypes, WorkWithin
    PROVE  /\ run.maxSteps - step \in Nat /\ PlacesLeft \in 0..11
           /\ WorkLeft \in Nat /\ Len(pend) \in Nat
<1>1. /\ step \in 0..run.maxSteps /\ run.maxSteps \in Nat
      /\ run.tools \in Nat /\ run.retries \in Nat /\ answer.calls \in Nat
  BY RunFacts, RunnerFacts DEF RunnerTypes, CallsBounded
<1>2. executed \in Nat /\ attempts \in Nat /\ Len(pend) \in Nat /\ pc \in Places
  BY DEF RunnerTypes
<1>3. PlacesLeft \in 0..11
  BY <1>2 DEF PlacesLeft, Places, Roles
<1>4. WorkLeft \in Nat
  <2>1. CallsLeft \in Nat
    BY DEF CallsLeft
  <2>2. CASE pc \in Roles
    BY <2>1, <2>2 DEF WorkLeft, Roles
  <2>3. CASE pc = "initial"
    BY <1>1, <1>2, <2>3 DEF WorkLeft, WorkWithin, Roles
  <2>4. CASE pc = "tools"
    BY <1>1, <1>2, <2>4 DEF WorkLeft, WorkWithin, Roles
  <2>5. CASE pc = "tests"
    BY <1>1, <1>2, <2>5 DEF WorkLeft, WorkWithin, Roles
  <2>6. CASE pc \notin Roles \cup {"initial", "tools", "tests"}
    BY <2>6 DEF WorkLeft, Roles
  <2> QED
    BY <2>2, <2>3, <2>4, <2>5, <2>6
<1> QED
  BY <1>1, <1>2, <1>3, <1>4

(* The four ways to come nearer: the next step begins, the run goes on to a *)
(* later place, does a piece of its work there, or sends an event.          *)
Later == UNCHANGED run /\ step' = step + 1

Onward == UNCHANGED <<run, step>> /\ PlacesLeft' < PlacesLeft

Shorter == UNCHANGED <<run, step, pc>> /\ WorkLeft' < WorkLeft

Sending == UNCHANGED <<run, step, pc>> /\ WorkLeft' = WorkLeft /\ Len(pend') < Len(pend)

Moves == Later \/ Onward \/ Shorter \/ Sending

LEMMA PreparingMoves == RunnerTypes /\ Preparing => Moves
<1> SUFFICES ASSUME RunnerTypes, Preparing
             PROVE  Moves
  OBVIOUS
<1> USE DEF Moves, At, GoTo, answerVars, Roles
<1>1. CASE LoadContext
  BY <1>1 DEF LoadContext, Onward, PlacesLeft
<1>2. CASE InitialTool
  <2>1. CASE ToolFails("initial")
    <3>1. pc = "initial" /\ pc' = "ending" /\ UNCHANGED <<run, step>>
      BY <2>1 DEF ToolFails
    <3> QED
      BY <3>1 DEF Onward, PlacesLeft
  <2>2. CASE ~ToolFails("initial")
    <3>1. /\ UNCHANGED <<run, step, pc>> /\ pc = "initial"
          /\ executed' = executed + 1
      BY <1>2, <2>2 DEF InitialTool
    <3>2. executed \in Nat /\ run.tools \in Nat
      BY RunFacts DEF RunnerTypes, CallsBounded
    <3> QED
      BY <3>1, <3>2 DEF Shorter, WorkLeft
  <2> QED
    BY <2>1, <2>2
<1>3. CASE BeginPlanning \/ SkipPlanning
  BY <1>3 DEF BeginPlanning, SkipPlanning, Onward, PlacesLeft
<1>4. CASE PlannerAnswers
  BY <1>4 DEF PlannerAnswers, Onward, PlacesLeft
<1> QED
  BY <1>1, <1>2, <1>3, <1>4 DEF Preparing

LEMMA SteppingMoves == RunnerTypes /\ Stepping => Moves
<1> SUFFICES ASSUME RunnerTypes, Stepping
             PROVE  Moves
  OBVIOUS
<1> USE DEF Moves, At, GoTo, answerVars, Roles
<1>1. CASE StopAtLimit \/ StopCancelled
  BY <1>1 DEF StopAtLimit, StopCancelled, Onward, PlacesLeft
<1>2. CASE BeginStep
  BY <1>2 DEF BeginStep, Later
<1>3. CASE CoderAnswers
  BY <1>3 DEF CoderAnswers, Onward, PlacesLeft
<1>4. CASE StepTool
  <2>1. CASE ToolFails("tools")
    <3>1. pc = "tools" /\ pc' = "ending" /\ UNCHANGED <<run, step>>
      BY <2>1 DEF ToolFails
    <3> QED
      BY <3>1 DEF Onward, PlacesLeft
  <2>2. CASE ~ToolFails("tools")
    <3>1. /\ UNCHANGED <<run, step, pc, answer>> /\ pc = "tools"
          /\ executed' = executed + 1
      BY <1>4, <2>2 DEF StepTool
    <3>2. executed \in Nat /\ answer.calls \in Nat
      BY RunnerFacts DEF RunnerTypes
    <3> QED
      BY <3>1, <3>2 DEF Shorter, WorkLeft, Roles
  <2> QED
    BY <2>1, <2>2
<1>5. CASE JudgeAnswer
  BY <1>5 DEF JudgeAnswer, AfterTools, Onward, PlacesLeft
<1> QED
  BY <1>1, <1>2, <1>3, <1>4, <1>5 DEF Stepping

LEMMA ReviewingMoves == RunnerTypes /\ Reviewing => Moves
<1> SUFFICES ASSUME RunnerTypes, Reviewing
             PROVE  Moves
  OBVIOUS
<1> USE DEF Moves, At, GoTo, answerVars, Roles
<1>1. CASE TestsPass
  BY <1>1 DEF TestsPass, Onward, PlacesLeft
<1>2. CASE TestsFail
  <2>1. /\ UNCHANGED <<run, step>> /\ attempts' = attempts + 1 /\ pc = "tests"
        /\ pc' = "tests" \/ pc' = "reflect"
    BY <1>2 DEF TestsFail
  <2>2. attempts \in Nat /\ run.retries \in Nat
    BY RunFacts DEF RunnerTypes, CallsBounded
  <2>3. CASE pc' = "tests"
    BY <2>1, <2>2, <2>3 DEF Shorter, WorkLeft, Roles
  <2>4. CASE pc' = "reflect"
    BY <2>1, <2>4 DEF Onward, PlacesLeft
  <2> QED
    BY <2>1, <2>3, <2>4
<1>3. CASE BeginReflection \/ SkipReflection
  BY <1>3 DEF BeginReflection, SkipReflection, Onward, PlacesLeft
<1>4. CASE CriticAnswers
  BY <1>4 DEF CriticAnswers, Onward, PlacesLeft
<1>5. CASE FinishStep
  BY <1>5 DEF FinishStep, Onward, PlacesLeft
<1> QED
  BY <1>1, <1>2, <1>3, <1>4, <1>5 DEF Reviewing

(* A call that fails is searched for or ends the run; what a search leads   *)
(* to is nearer, unless the budget keeps it going.                          *)
LEMMA RecoveringMoves ==
    ASSUME RoleTypeOK, SearchBegins, Recovering
    PROVE  Moves \/ SearchGoesOn
<1>1. /\ pc \in Roles /\ UNCHANGED <<run, step>>
      /\ \/ pc' = "ending" /\ phase' = "gaveUp"
         \/ pc' = pc /\ phase' # "gaveUp"
  BY DEF Recovering, RoleFails, SearchFallback, GiveUpOr, GoTo, answerVars
<1>2. CASE phase' = "gaveUp"
  BY <1>1, <1>2 DEF Moves, Onward, PlacesLeft, Roles
<1>3. CASE phase' # "gaveUp" /\ CallsLeft' < CallsLeft
  BY <1>1, <1>3 DEF Moves, Shorter, WorkLeft, Roles
<1>4. CASE CallFails
  BY <1>2, <1>3, <1>4 DEF CallFails, CallsLeft
<1>5. CASE RetryFails
  BY <1>2, <1>5 DEF RetryFails
<1>6. CASE SearchStep
  <2>1. phase = "searching" /\ phase' \in {"searching", "retrying", "gaveUp"}
    BY <1>6 DEF SearchStep, SkipTried, ConsiderFallback, Reject, NoFallback
  <2>2. CASE phase' = "searching"
    <3>1. BudgetSpent
      BY <1>6, <2>2, FirstTurnDecides
    <3> QED
      BY <2>1, <2>2, <3>1 DEF SearchGoesOn
  <2>3. CASE phase' = "retrying"
    BY <1>3, <2>1, <2>3 DEF CallsLeft
  <2> QED
    BY <1>2, <2>1, <2>2, <2>3
<1> QED
  BY <1>4, <1>5, <1>6 DEF Recovering, RoleFails, SearchFallback

LEMMA ChannelMoves ==
    ASSUME RunnerTypes, WorkWithin, Send \/ CancelTokens \/ Return
    PROVE  Moves
<1>1. CASE Send
  <2>1. UNCHANGED <<run, step, pc, phase, executed, answer, attempts>> /\ pend' = Tail(pend)
    BY <1>1 DEF Send, roleVars, answerVars, toolVars
  <2>2. WorkLeft' = WorkLeft
    BY <2>1 DEF WorkLeft, CallsLeft
  <2>3. Len(pend') < Len(pend)
    BY <1>1, <2>1 DEF Send, RunnerTypes
  <2> QED
    BY <2>1, <2>2, <2>3 DEF Moves, Sending
<1>2. CASE CancelTokens
  <2>1. pend # <<>> /\ Head(pend).type = "token" /\ pc' = "ending" /\ UNCHANGED <<run, step>>
    BY <1>2 DEF CancelTokens, answerVars
  <2>2. pc = "tools"
    <3>1. 1 \in 1..Len(pend) /\ pend[1].type = "token"
      BY <2>1 DEF RunnerTypes
    <3> QED
      BY <3>1 DEF WorkWithin
  <2> QED
    BY <2>1, <2>2 DEF Moves, Onward, PlacesLeft
<1>3. CASE Return
  BY <1>3 DEF Return, At, answerVars, Moves, Onward, PlacesLeft
<1> QED
  BY <1>1, <1>2, <1>3

LEMMA RunnerStepMoves ==
    ASSUME RunnerTypes, WorkWithin, RoleTypeOK, SearchBegins, RunnerStep
    PROVE  Moves \/ SearchGoesOn
<1>1. Reporting \/ Send \/ CancelTokens \/ Return
  BY DEF RunnerStep, Reporting, Preparing, Stepping, Reviewing, Recovering
<1> QED
  BY <1>1, PreparingMoves, SteppingMoves, ReviewingMoves, RecoveringMoves, ChannelMoves
     DEF Reporting

NoWords(s) == \A i \in 1..Len(s) : s[i].type # "token"

LEMMA FewEvents ==
    /\ NoWords(<<>>)
    /\ \A e : e.type # "token" => NoWords(<<e>>)
    /\ \A d, e : d.type # "token" /\ e.type # "token" => NoWords(<<d, e>>)
BY DEF NoWords

LEMMA ReportsNoWords ==
    ASSUME Reporting, ~CoderAnswers
    PROVE  NoWords(pend')
<1> USE FewEvents DEF GoTo, Event, Failed, Cancelled
<1>1. CASE LoadContext
  BY <1>1 DEF LoadContext
<1>2. CASE InitialTool \/ StepTool
  BY <1>2 DEF InitialTool, StepTool, ToolFails
<1>3. CASE BeginPlanning \/ SkipPlanning \/ BeginStep \/ JudgeAnswer
  BY <1>3 DEF BeginPlanning, SkipPlanning, BeginStep, JudgeAnswer
<1>4. CASE PlannerAnswers
  BY <1>4 DEF PlannerAnswers
<1>5. CASE StopAtLimit \/ StopCancelled
  BY <1>5 DEF StopAtLimit, StopCancelled
<1>6. CASE TestsPass \/ TestsFail
  BY <1>6 DEF TestsPass, TestsFail
<1>7. CASE BeginReflection \/ SkipReflection \/ CriticAnswers
  BY <1>7 DEF BeginReflection, SkipReflection, CriticAnswers
<1>8. CASE FinishStep
  BY <1>8 DEF FinishStep
<1>9. CASE Recovering
  BY <1>9 DEF Recovering, RoleFails, SearchFallback, GiveUpOr
<1> QED
  BY <1>1, <1>2, <1>3, <1>4, <1>5, <1>6, <1>7, <1>8, <1>9
     DEF Reporting, Preparing, Stepping, Reviewing

LEMMA StepWithin == RunnerTypes /\ WorkWithin /\ [RunNext]_runVars => WorkWithin'
<1> SUFFICES ASSUME RunnerTypes, WorkWithin, [RunNext]_runVars
             PROVE  WorkWithin'
  OBVIOUS
<1>0. /\ executed \in Nat /\ attempts \in Nat /\ run.tools \in Nat /\ run.retries \in Nat
      /\ answer.calls \in Nat /\ pend \in Seq(Events)
  BY RunFacts, RunnerFacts DEF RunnerTypes, CallsBounded
<1>1. CASE Reporting /\ ~CoderAnswers
  <2>1. NoWords(pend') /\ run' = run
    <3>1. run' = run
      BY <1>1 DEF Reporting, Preparing, Stepping, Reviewing, Recovering, GoTo, LoadContext,
           InitialTool, ToolFails, BeginPlanning, SkipPlanning, PlannerAnswers, StopAtLimit,
           StopCancelled, BeginStep, StepTool, JudgeAnswer, TestsPass, TestsFail,
           BeginReflection, SkipReflection, CriticAnswers, FinishStep, RoleFails,
           SearchFallback, GiveUpOr
    <3> QED
      BY <1>1, <3>1, ReportsNoWords
  <2> SUFFICES /\ pc' \in {"start", "initial"} => executed' <= run.tools
               /\ pc' = "coder" => executed' = 0
               /\ pc' = "tools" => executed' <= answer'.calls
               /\ pc' = "tests" => attempts' <= run.retries + 1
    BY <2>1 DEF WorkWithin, NoWords
  <2> USE <1>0 DEF At, GoTo, WorkWithin, toolVars, answerVars, Roles
  <2>1a. CASE LoadContext
    BY <2>1a DEF LoadContext
  <2>2. CASE InitialTool
    <3>1. CASE ToolFails("initial")
      <4>1. pc' = "ending"
        BY <3>1 DEF ToolFails
      <4> QED
        BY <4>1
    <3>2. CASE ~ToolFails("initial")
      <4>1. pc' = "initial" /\ executed' = executed + 1 /\ executed < run.tools
        BY <2>2, <3>2 DEF InitialTool
      <4> QED
        BY <4>1
    <3> QED
      BY <3>1, <3>2
  <2>3. CASE BeginPlanning \/ SkipPlanning \/ PlannerAnswers
    BY <2>3 DEF BeginPlanning, SkipPlanning, PlannerAnswers
  <2>4. CASE StopAtLimit \/ StopCancelled
    BY <2>4 DEF StopAtLimit, StopCancelled
  <2>5. CASE BeginStep
    BY <2>5 DEF BeginStep
  <2>6. CASE StepTool
    <3>1. CASE ToolFails("tools")
      <4>1. pc' = "ending"
        BY <3>1 DEF ToolFails
      <4> QED
        BY <4>1
    <3>2. CASE ~ToolFails("tools")
      <4>1. pc' = "tools" /\ executed' = executed + 1 /\ executed < answer.calls /\ answer' = answer
        BY <2>6, <3>2 DEF StepTool
      <4> QED
        BY <4>1
    <3> QED
      BY <3>1, <3>2
  <2>7. CASE JudgeAnswer
    BY <2>7 DEF JudgeAnswer, AfterTools
  <2>8. CASE TestsPass
    BY <2>8 DEF TestsPass
  <2>9. CASE TestsFail
    <3>1. /\ pc' \in {"tests", "reflect"}
          /\ pc' = "tests" => attempts' <= run.retries + 1
      BY <2>9 DEF TestsFail
    <3> QED
      BY <3>1
  <2>10. CASE BeginReflection \/ SkipReflection \/ CriticAnswers \/ FinishStep
    BY <2>10 DEF BeginReflection, SkipReflection, CriticAnswers, FinishStep
  <2>11. CASE Recovering
    BY <2>11 DEF Recovering, RoleFails, SearchFallback, GiveUpOr
  <2> QED
    BY <1>1, <2>1a, <2>2, <2>3, <2>4, <2>5, <2>6, <2>7, <2>8, <2>9, <2>10, <2>11
       DEF Reporting, Preparing, Stepping, Reviewing
<1>2. CASE CoderAnswers
  <2>1. /\ pc = "coder" /\ pc' = "tools" /\ executed' = executed
        /\ answer' \in Answers
    BY <1>2 DEF CoderAnswers, At, GoTo, toolVars
  <2>2. answer'.calls \in Nat
    BY <2>1, AnswerFacts
  <2> QED
    BY <2>1, <2>2 DEF WorkWithin
<1>3. CASE Send
  <2>1. UNCHANGED <<run, pc, executed, answer, attempts>> /\ pend' = Tail(pend) /\ pend # <<>>
    BY <1>3 DEF Send, toolVars, answerVars
  <2>2. \A i \in 1..Len(pend') : i + 1 \in 1..Len(pend) /\ pend'[i] = pend[i + 1]
    BY <1>0, <2>1, HeadTailProperties
  <2> QED
    BY <2>1, <2>2 DEF WorkWithin
<1>4. CASE CancelTokens
  <2>1. pc' = "ending" /\ NoWords(pend')
    BY <1>4, FewEvents DEF CancelTokens, Cancelled, Event
  <2> QED
    BY <2>1 DEF WorkWithin, NoWords
<1>5. CASE Return
  <2>1. pc' = "closed" /\ pend' = <<>>
    BY <1>5 DEF Return, At, chanVars
  <2> QED
    BY <2>1 DEF WorkWithin
<1>6. CASE Receive \/ ReceiveLast \/ CancelRequest \/ UNCHANGED runVars
  <2>1. UNCHANGED <<run, pc, executed, answer, attempts, pend>>
    BY <1>6 DEF Receive, ReceiveLast, TakeEvent, CancelRequest, runVars, chanVars, toolVars,
         answerVars
  <2> QED
    BY <2>1 DEF WorkWithin
<1> QED
  BY <1>1, <1>2, <1>3, <1>4, <1>5, <1>6, StepKinds

LEMMA WorkHolds == RunSpec => [](RunnerTypes /\ WorkWithin)
<1>1. RunInit => WorkWithin
  <2> SUFFICES ASSUME RunInit
               PROVE  WorkWithin
    OBVIOUS
  <2>1. run.tools \in Nat
    BY RunFacts DEF RunInit
  <2> QED
    BY <2>1 DEF RunInit, WorkWithin
<1> QED
  BY <1>1, StepWithin, RunnerTyped, PTL DEF RunSpec

DistanceKnown ==
    /\ Distance \in [1..4 -> Nat]
    /\ Distance[1] = run.maxSteps - step /\ Distance[2] = PlacesLeft
    /\ Distance[3] = WorkLeft /\ Distance[4] = Len(pend)

LEMMA DistanceIs == RunnerTypes /\ WorkWithin => DistanceKnown
BY DistanceBounds DEF Distance, DistanceKnown

(* What is known of a run before and after each of its steps.               *)
Known == RunnerTypes /\ WorkWithin /\ RoleTypeOK /\ SearchBegins /\ DistanceKnown

LEMMA KnownHolds == RunSpec => []Known
BY WorkHolds, RunsMakeRoleCalls, SearchBeginsHolds, DistanceIs, PTL
   DEF ImplementsRoleCall, Known

(* Moves are steps down in the lexicographic order of the distances.        *)
LEMMA MovesDown ==
    ASSUME RunnerTypes, DistanceKnown, DistanceKnown', Moves
    PROVE  \E i \in 1..4 : /\ Distance'[i] < Distance[i]
                           /\ \A j \in 1..i - 1 : Distance'[j] = Distance[j]
<1>1. /\ Distance[1] = run.maxSteps - step /\ Distance[2] = PlacesLeft
      /\ Distance[3] = WorkLeft /\ Distance[4] = Len(pend)
  BY DEF DistanceKnown
<1>2. /\ Distance'[1] = run'.maxSteps - step' /\ Distance'[2] = PlacesLeft'
      /\ Distance'[3] = WorkLeft' /\ Distance'[4] = Len(pend')
  BY DEF DistanceKnown
<1>3. run.maxSteps \in Nat /\ step \in Nat
  BY RunnerFacts
<1>4. CASE Later
  <2>1. Distance'[1] < Distance[1]
    BY <1>1, <1>2, <1>3, <1>4 DEF Later
  <2> QED
    BY <2>1
<1>5. CASE Onward
  <2>1. Distance'[2] < Distance[2] /\ \A j \in 1..1 : Distance'[j] = Distance[j]
    BY <1>1, <1>2, <1>5 DEF Onward
  <2> QED
    BY <2>1
<1>6. CASE Shorter
  <2>1. PlacesLeft' = PlacesLeft
    BY <1>6 DEF Shorter, PlacesLeft
  <2>2. Distance'[3] < Distance[3] /\ \A j \in 1..2 : Distance'[j] = Distance[j]
    BY <1>1, <1>2, <1>6, <2>1 DEF Shorter
  <2> QED
    BY <2>2
<1>7. CASE Sending
  <2>1. PlacesLeft' = PlacesLeft
    BY <1>7 DEF Sending, PlacesLeft
  <2>2. Distance'[4] < Distance[4] /\ \A j \in 1..3 : Distance'[j] = Distance[j]
    BY <1>1, <1>2, <1>7, <2>1 DEF Sending
  <2> QED
    BY <2>2
<1> QED
  BY <1>4, <1>5, <1>6, <1>7 DEF Moves

LEMMA StepNearer ==
    ASSUME Known, Known', RunnerStep
    PROVE  Nearer \/ SearchGoesOn
<1>1. CASE Moves
  <2>1. \A i \in 1..4 : Distance'[i] >= 0
    <3>1. Distance' \in [1..4 -> Nat]
      BY DEF Known, DistanceKnown
    <3> QED
      BY <3>1
  <2> QED
    BY <1>1, <2>1, MovesDown DEF Known, Nearer
<1> QED
  BY <1>1, RunnerStepMoves DEF Known

(* Whatever the calls, the tools and the consumer do, a step of the run     *)
(* brings it nearer its end, unless a spent budget keeps a search going.    *)
THEOREM RunsMoveOn == RunSpec => RunMovesOn
<1>1. Known /\ Known' /\ [RunNext]_runVars => [RunnerStep => Nearer \/ SearchGoesOn]_runVars
  BY StepNearer
<1> QED
  BY <1>1, KnownHolds, PTL DEF RunSpec, RunMovesOn

(* Nobody but the runner changes the distance of its run.                   *)
LEMMA OthersDoNotMove ==
    ASSUME Receive \/ ReceiveLast \/ CancelRequest \/ UNCHANGED runVars
    PROVE  Distance' = Distance
<1>1. UNCHANGED <<run, pc, phase, step, executed, answer, attempts, pend>>
  BY DEF Receive, ReceiveLast, TakeEvent, CancelRequest, runVars, roleVars, chanVars, toolVars,
         answerVars
<1>2. UNCHANGED <<PlacesLeft, WorkLeft>>
  BY <1>1 DEF PlacesLeft, WorkLeft, CallsLeft
<1> QED
  BY <1>1, <1>2 DEF Distance

(* The order of the distances has no infinite descent, and nobody but the   *)
(* runner changes a run's: every run in which the budget does not keep a    *)
(* search going takes finitely many steps of its runner.                    *)
Below(n) == LexProductOrdering(OpToRel(<, Nat), Nat, n)

THEOREM DistancesEnd == \A n \in Nat : IsWellFoundedOn(Below(n), [1..n -> Nat])
BY NatLessThanWellFounded, WFLexProductOrdering DEF Below

THEOREM RunsDescend ==
    RunSpec => [][\/ <<Distance', Distance>> \in Below(4)
                  \/ RunnerStep /\ SearchGoesOn
                  \/ ~RunnerStep /\ Distance' = Distance]_runVars
<1>1. Known /\ Known' /\ [RunNext]_runVars =>
        [\/ <<Distance', Distance>> \in Below(4)
         \/ RunnerStep /\ SearchGoesOn
         \/ ~RunnerStep /\ Distance' = Distance]_runVars
  <2> SUFFICES ASSUME Known, Known', RunNext, runVars' # runVars
               PROVE  \/ <<Distance', Distance>> \in Below(4)
                      \/ RunnerStep /\ SearchGoesOn
                      \/ ~RunnerStep /\ Distance' = Distance
    OBVIOUS
  <2>1. CASE RunnerStep
    <3>1. CASE Moves
      <4>1. Distance' \in [1..4 -> Nat] /\ Distance \in [1..4 -> Nat]
        BY DEF Known, DistanceKnown
      <4>2. PICK i \in 1..4 : /\ Distance'[i] < Distance[i]
                              /\ \A j \in 1..i - 1 : Distance'[j] = Distance[j]
        BY <3>1, MovesDown DEF Known
      <4>3. <<Distance'[i], Distance[i]>> \in OpToRel(<, Nat)
        BY <4>1, <4>2 DEF OpToRel
      <4> QED
        BY <4>1, <4>2, <4>3 DEF Below, LexProductOrdering
    <3> QED
      BY <2>1, <3>1, RunnerStepMoves DEF Known
  <2>2. CASE ~RunnerStep
    <3>1. Receive \/ ReceiveLast \/ CancelRequest
      BY <2>2 DEF RunNext, RunClosed
    <3> QED
      BY <2>2, <3>1, OthersDoNotMove
  <2> QED
    BY <2>1, <2>2
<1> QED
  BY <1>1, KnownHolds, PTL DEF RunSpec
=============================================================================
