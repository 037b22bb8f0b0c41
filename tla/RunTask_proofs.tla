--------------------------- MODULE RunTask_proofs ---------------------------
(* Proofs about a run end to end, for every configuration, request, answer, *)
(* transport and channel: what the client was given is what was sent, only  *)
(* a lost client strands a runner, and the exit of the client's command     *)
(* says what became of the run, a daemon that stops meanwhile included.     *)
EXTENDS RunTask, AgentOrder_proofs

(* The control of the handler, of the client and of the daemon.             *)
ControlTypes ==
    /\ transport \in Transports
    /\ handler \in {"idle", "reading", "rejected", "serving", "returned"}
    /\ listener \in {"off", "listening", "stopped"}
    /\ gauge = IF handler \in {"reading", "serving"} THEN 1 ELSE 0
    /\ errors \subseteq Reasons
    /\ client \in {"open", "halfClosed", "gone"}
    /\ wire \in Seq({"cancel", "eof"}) /\ Len(wire) <= MaxUnread
    /\ asked \in BOOLEAN
    /\ daemon \in {"up", "draining", "stopped", "gaveUp", "failed"}
    /\ exit \in {"none", "ok", "error", "tooLong", "refused", "broken"}

(* A client has the events the handler took from the channel; when it is    *)
(* lost the rest is taken for nobody.                                       *)
StreamInv ==
    /\ received \in Seq(Events) /\ taken <= Len(sent) /\ Len(received) <= taken
    /\ \A i \in 1..Len(received) : received[i] = sent[i]
    /\ client # "gone" => Len(received) = taken
    /\ handler = "returned" =>
         ctxDone /\ (client = "gone" \/ (pc = "closed" /\ taken = Len(sent)))

(* Why the command returned, which stays true.                              *)
CommandInv ==
    /\ exit # "none" => client = "gone"
    /\ exit = "ok" => handler = "returned" /\ pc = "closed" /\ Len(received) = Len(sent) /\ ~SawError
    /\ exit = "error" => SawError
    /\ exit = "tooLong" => transport = "ndjson"
    /\ exit = "refused" => handler = "rejected" \/ (handler = "idle" /\ daemon # "up")
    /\ exit = "broken" => Down
    /\ daemon = "stopped" /\ transport = "ndjson" =>
         handler \notin {"reading", "serving"} /\ exit # "broken"

TaskInv == RunnerTypes /\ OutcomeInv /\ ControlTypes /\ StreamInv /\ CommandInv

(* The actions of everybody but the runner.                                 *)
Outside ==
    \/ /\ ~Down
       /\ \/ Arrive \/ RejectRun \/ AcceptRun
          \/ Forward \/ WriteFails \/ StreamEnds
          \/ HearClient \/ HearNothingMore \/ NoticeLoss
    \/ SendCancel \/ CloseRequest \/ Vanish
    \/ ReportError \/ ReportEnd \/ ReportRefused \/ ReportBroken \/ ReportTooLong
    \/ Signal \/ ShutdownReturns \/ ShutdownTimesOut \/ ServerFails

LEMMA TaskCases ==
    ASSUME [TaskNext]_taskVars
    PROVE  RunnerMoves \/ Outside \/ UNCHANGED taskVars
BY DEF TaskNext, Outside, Admit, HandlerStep, ListenerStep, CommandStep, DaemonStep, TaskOver,
       Arrive, NoticeLoss, Down

(* What a step of the runner does to the stream: nothing when it is over.   *)
LEMMA RunnerEffect ==
    ASSUME RunnerTypes, OutcomeInv, RunnerStep
    PROVE  /\ pc # "closed" /\ UNCHANGED <<ctxDone, taken>>
           /\ sent' = sent \/ (pend # <<>> /\ sent' = Append(sent, Head(pend)))
<1>1. Reporting \/ Send \/ CancelTokens \/ Return
  BY DEF RunnerStep, Reporting, Preparing, Stepping, Reviewing, Recovering
<1>2. CASE Reporting
  <2>1. ReportStep
    BY <1>2, ReportingReports
  <2> QED
    BY <2>1 DEF ReportStep, Over
<1>3. CASE Send
  BY <1>3 DEF Send, OutcomeInv
<1>4. CASE CancelTokens
  BY <1>4 DEF CancelTokens, OutcomeInv
<1>5. CASE Return
  BY <1>5 DEF Return, chanVars
<1> QED
  BY <1>1, <1>2, <1>3, <1>4, <1>5

(* The others take events off the channel and cancel the context.           *)
LEMMA OutsideEffect ==
    ASSUME RunnerTypes, Outside
    PROVE  /\ UNCHANGED runnerOnly
           /\ (ctxDone' = ctxDone \/ ctxDone' = TRUE)
           /\ (deserted' = deserted \/ deserted' = TRUE)
           /\ taken' = taken \/ (taken < Len(sent) /\ taken' = taken + 1)
BY DEF Outside, Arrive, RejectRun, AcceptRun, Forward, Receive, TakeEvent, WriteFails,
       ReceiveLast, StreamEnds, HandlerReturns,
       HearClient, HearNothingMore, Heard, NoticeLoss, SendCancel, CloseRequest, Vanish,
       ReportError, ReportEnd, ReportRefused, ReportBroken, ReportTooLong, CommandReturns,
       Signal, ShutdownReturns, ShutdownTimesOut, ServerFails, DaemonMoves,
       runVars, chanVars, runnerOnly, roleVars, toolVars, answerVars

(* The runner's own invariants do not depend on its environment.            *)
LEMMA RunnerKept ==
    ASSUME RunnerTypes, OutcomeInv, [TaskNext]_taskVars
    PROVE  RunnerTypes' /\ OutcomeInv'
<1>1. CASE RunnerMoves
  <2>1. [RunNext]_runVars
    BY <1>1 DEF RunnerMoves, RunNext
  <2> QED
    BY <2>1, RunnerStepTyped, StepKeepsOutcome
<1>2. CASE Outside
  <2>1. /\ UNCHANGED runnerOnly
        /\ (ctxDone' = ctxDone \/ ctxDone' = TRUE) /\ (deserted' = deserted \/ deserted' = TRUE)
        /\ taken' \in Nat
    <3>1. /\ UNCHANGED runnerOnly /\ (ctxDone' = ctxDone \/ ctxDone' = TRUE)
          /\ (deserted' = deserted \/ deserted' = TRUE) /\ (taken' = taken \/ taken' = taken + 1)
      BY <1>2, OutsideEffect, Zenon
    <3>2. taken \in Nat
      BY DEF RunnerTypes
    <3> QED
      BY <3>1, <3>2
  <2>2. UNCHANGED <<run, pc, pend, sent, recorded, step, begun>> /\ UNCHANGED memoryVars
    BY <2>1 DEF runnerOnly, roleVars, memoryVars, answerVars
  <2>3. ctxDone' \in BOOLEAN /\ deserted' \in BOOLEAN
    BY <2>1 DEF RunnerTypes
  <2>4. CallsBounded'
    BY <2>2 DEF RunnerTypes, CallsBounded
  <2>5. RunnerTypes'
    BY <2>1, <2>2, <2>3, <2>4 DEF RunnerTypes, memoryVars, toolVars
  <2>6. OutcomeInv'
    BY <2>2 DEF OutcomeInv, Quiet, Final
  <2> QED
    BY <2>5, <2>6
<1>3. CASE UNCHANGED taskVars
  <2>1. [RunNext]_runVars
    BY <1>3 DEF taskVars
  <2> QED
    BY <2>1, RunnerStepTyped, StepKeepsOutcome
<1> QED
  BY <1>1, <1>2, <1>3, TaskCases

-----------------------------------------------------------------------------
(* The actions, as the names of their parts.                                *)
ConnectionStep == Arrive \/ RejectRun \/ AcceptRun \/ Forward \/ WriteFails \/ StreamEnds

ListeningStep == HearClient \/ HearNothingMore \/ NoticeLoss

ClientStep ==
    \/ SendCancel \/ CloseRequest \/ Vanish
    \/ ReportError \/ ReportEnd \/ ReportRefused \/ ReportBroken \/ ReportTooLong

ProcessStep == Signal \/ ShutdownReturns \/ ShutdownTimesOut \/ ServerFails

LEMMA OutsideParts ==
    Outside => (~Down /\ (ConnectionStep \/ ListeningStep)) \/ ClientStep \/ ProcessStep
BY DEF Outside, ConnectionStep, ListeningStep, ClientStep, ProcessStep

LEMMA ControlStep ==
    ASSUME TaskInv, [TaskNext]_taskVars
    PROVE  ControlTypes'
<1>0. ControlTypes /\ MaxUnread \in Nat
  BY TransportsKnown DEF TaskInv
<1>1. CASE UNCHANGED taskOnly
  BY <1>0, <1>1 DEF ControlTypes, taskOnly, outside
<1>2. CASE ConnectionStep
  <2>1. UNCHANGED <<transport, client, wire, asked, daemon, exit>>
    BY <1>2 DEF ConnectionStep, Arrive, RejectRun, AcceptRun, Forward, WriteFails, StreamEnds, outside
  <2>2. listener' = listener \/ listener' \in {"off", "listening"}
    BY <1>2 DEF ConnectionStep, Arrive, RejectRun, AcceptRun, Forward, WriteFails, StreamEnds
  <2>3. errors' \subseteq Reasons
    BY <1>0, <1>2 DEF ConnectionStep, Arrive, RejectRun, AcceptRun, Forward, WriteFails, StreamEnds,
       ControlTypes, Reasons
  <2>4. /\ handler' \in {"idle", "reading", "rejected", "serving", "returned"}
        /\ gauge' = IF handler' \in {"reading", "serving"} THEN 1 ELSE 0
    <3>1. \/ handler = "idle" /\ handler' = "reading" /\ gauge' = gauge + 1
          \/ handler = "reading" /\ handler' = "rejected" /\ gauge' = gauge - 1
          \/ handler = "reading" /\ handler' = "serving" /\ gauge' = gauge
          \/ handler = "serving" /\ handler' = "serving" /\ gauge' = gauge
          \/ handler = "serving" /\ handler' = "returned" /\ gauge' = gauge - 1
      BY <1>2 DEF ConnectionStep, Arrive, RejectRun, AcceptRun, Forward, WriteFails, StreamEnds,
         HandlerReturns
    <3> QED
      BY <1>0, <3>1 DEF ControlTypes
  <2> QED
    BY <1>0, <2>1, <2>2, <2>3, <2>4 DEF ControlTypes
<1>3. CASE HearClient \/ HearNothingMore
  <2>1. UNCHANGED <<transport, handler, gauge, client, asked, daemon, exit>> /\ listener' = "stopped"
    BY <1>3 DEF HearClient, HearNothingMore, Heard, outside
  <2>2. errors' \subseteq Reasons
    BY <1>0, <1>3 DEF HearClient, HearNothingMore, Heard, ControlTypes, Reasons
  <2>3. wire' \in Seq({"cancel", "eof"}) /\ Len(wire') <= MaxUnread
    <3>1. wire' = wire \/ (wire # <<>> /\ wire' = Tail(wire))
      BY <1>3 DEF HearClient, HearNothingMore
    <3> QED
      BY <1>0, <3>1 DEF ControlTypes
  <2> QED
    BY <1>0, <2>1, <2>2, <2>3 DEF ControlTypes
<1>4. CASE ClientStep
  <2>1. UNCHANGED <<transport, handler, listener, gauge, errors, daemon>>
    BY <1>4 DEF ClientStep, SendCancel, CloseRequest, Vanish, ReportError, ReportEnd, ReportRefused,
       ReportBroken, ReportTooLong, CommandReturns, outside
  <2>2. wire' \in Seq({"cancel", "eof"}) /\ Len(wire') <= MaxUnread
    <3>1. wire' = <<>> \/ (Len(wire) < MaxUnread /\ \E m \in {"cancel", "eof"} : wire' = Append(wire, m))
      BY <1>4 DEF ClientStep, SendCancel, CloseRequest, Vanish, ReportError, ReportEnd, ReportRefused,
         ReportBroken, ReportTooLong, CommandReturns
    <3>2. wire \in Seq({"cancel", "eof"}) /\ Len(wire) <= MaxUnread
      BY <1>0 DEF ControlTypes
    <3>3. CASE wire' = <<>>
      BY <1>0, <3>3
    <3>4. ASSUME NEW m \in {"cancel", "eof"}, Len(wire) < MaxUnread, wire' = Append(wire, m)
          PROVE  wire' \in Seq({"cancel", "eof"}) /\ Len(wire') <= MaxUnread
      <4>1. Append(wire, m) \in Seq({"cancel", "eof"}) /\ Len(Append(wire, m)) = Len(wire) + 1
        BY <3>2, AppendProperties
      <4> QED
        BY <1>0, <3>2, <3>4, <4>1
    <3> QED
      BY <3>1, <3>3, <3>4
  <2>3. /\ client' = client \/ client' \in {"halfClosed", "gone"}
        /\ exit' = exit \/ exit' \in {"ok", "error", "tooLong", "refused", "broken"}
        /\ asked' = asked \/ asked' = TRUE
    BY <1>4 DEF ClientStep, SendCancel, CloseRequest, Vanish, ReportError, ReportEnd, ReportRefused,
       ReportBroken, ReportTooLong, CommandReturns, outside
  <2>4. asked' \in BOOLEAN
    BY <1>0, <2>3 DEF ControlTypes
  <2> QED
    BY <1>0, <2>1, <2>2, <2>3, <2>4 DEF ControlTypes
<1>5. CASE ProcessStep
  <2>1. UNCHANGED <<transport, handler, listener, gauge, errors, client, wire, asked, exit>>
    BY <1>5 DEF ProcessStep, Signal, ShutdownReturns, ShutdownTimesOut, ServerFails, DaemonMoves
  <2>2. daemon' \in {"draining", "stopped", "gaveUp", "failed"}
    BY <1>5 DEF ProcessStep, Signal, ShutdownReturns, ShutdownTimesOut, ServerFails, DaemonMoves
  <2> QED
    BY <1>0, <2>1, <2>2 DEF ControlTypes
<1>6. RunnerMoves \/ NoticeLoss \/ UNCHANGED taskVars => UNCHANGED taskOnly
  BY DEF RunnerMoves, NoticeLoss, taskVars
<1> QED
  BY <1>1, <1>2, <1>3, <1>4, <1>5, <1>6, TaskCases, OutsideParts DEF ListeningStep

LEMMA StreamStep ==
    ASSUME TaskInv, [TaskNext]_taskVars
    PROVE  StreamInv'
<1>0. /\ StreamInv /\ ControlTypes /\ RunnerTypes /\ OutcomeInv
      /\ sent \in Seq(Events) /\ received \in Seq(Events) /\ taken \in Nat
  BY DEF TaskInv, StreamInv, RunnerTypes
<1>1. CASE RunnerMoves
  <2>1. /\ pc # "closed" /\ UNCHANGED <<ctxDone, taken, handler, client, received>>
        /\ sent' = sent \/ (pend # <<>> /\ sent' = Append(sent, Head(pend)))
    BY <1>0, <1>1, RunnerEffect DEF RunnerMoves, taskOnly
  <2>2. Len(sent') >= Len(sent) /\ \A i \in 1..Len(sent) : sent'[i] = sent[i]
    <3>1. pend # <<>> => Head(pend) \in Events
      BY <1>0 DEF RunnerTypes
    <3> QED
      BY <1>0, <2>1, <3>1
  <2>3. handler = "returned" => client = "gone"
    BY <1>0, <2>1 DEF StreamInv
  <2>4. \A i \in 1..Len(received) : i \in 1..Len(sent)
    BY <1>0 DEF StreamInv
  <2>5. taken' <= Len(sent')
    BY <1>0, <2>1, <2>2 DEF StreamInv, RunnerTypes
  <2> QED
    BY <1>0, <2>1, <2>2, <2>3, <2>4, <2>5 DEF StreamInv
<1>2. CASE Forward
  <2>1. /\ taken < Len(sent) /\ taken' = taken + 1 /\ handler = "serving"
        /\ UNCHANGED <<sent, ctxDone, pc, handler, client>>
        /\ received' = IF client = "gone" THEN received ELSE Append(received, sent[taken + 1])
    BY <1>2 DEF Forward, Receive, TakeEvent
  <2>2. CASE client = "gone"
    BY <1>0, <2>1, <2>2 DEF StreamInv
  <2>3. CASE client # "gone"
    <3>1. sent[taken + 1] \in Events /\ Len(received) = taken
      BY <1>0, <2>1, <2>3 DEF StreamInv
    <3>2. /\ received' \in Seq(Events) /\ Len(received') = taken + 1
          /\ \A i \in 1..taken : received'[i] = received[i]
          /\ received'[taken + 1] = sent[taken + 1]
      BY <1>0, <2>1, <2>3, <3>1
    <3> QED
      BY <1>0, <2>1, <2>3, <3>1, <3>2 DEF StreamInv
  <2> QED
    BY <2>2, <2>3
<1>3. CASE WriteFails
  <2>1. /\ taken < Len(sent) /\ taken' = taken + 1 /\ client = "gone" /\ ctxDone'
        /\ UNCHANGED <<sent, pc, client, received>>
    BY <1>3 DEF WriteFails, ReceiveLast, TakeEvent, HandlerReturns
  <2> QED
    BY <1>0, <2>1 DEF StreamInv
<1>4. CASE StreamEnds
  <2>1. /\ pc = "closed" /\ taken = Len(sent) /\ ctxDone'
        /\ UNCHANGED <<sent, taken, pc, client, received>>
    BY <1>4 DEF StreamEnds, Drained, HandlerReturns, runnerOnly
  <2> QED
    BY <1>0, <2>1 DEF StreamInv
<1>5. CASE ~RunnerMoves /\ ~Forward /\ ~WriteFails /\ ~StreamEnds
  <2>1. /\ UNCHANGED <<sent, taken, pc, received>>
        /\ ctxDone' = ctxDone \/ ctxDone'
        /\ handler' = "returned" => handler = "returned"
        /\ client = "gone" => client' = "gone"
    BY <1>0, <1>5, TaskCases
       DEF Outside, Arrive, RejectRun, AcceptRun, HearClient, HearNothingMore, Heard, NoticeLoss,
           SendCancel, CloseRequest, Vanish, ReportError, ReportEnd, ReportRefused, ReportBroken,
           ReportTooLong, CommandReturns, Signal, ShutdownReturns, ShutdownTimesOut, ServerFails,
           DaemonMoves, runVars, chanVars, runnerOnly, taskOnly, taskVars
  <2> QED
    BY <1>0, <2>1 DEF StreamInv
<1> QED
  BY <1>1, <1>2, <1>3, <1>4, <1>5

(* What the command has seen it has seen for good.                          *)
LEMMA CommandStepHolds ==
    ASSUME TaskInv, [TaskNext]_taskVars
    PROVE  CommandInv'
<1>0. /\ CommandInv /\ StreamInv /\ ControlTypes /\ RunnerTypes /\ OutcomeInv
  BY DEF TaskInv
<1>1. CASE RunnerMoves
  <2>1. pc # "closed" /\ ~Down /\ UNCHANGED taskOnly
    BY <1>0, <1>1, RunnerEffect DEF RunnerMoves
  <2> QED
    BY <1>0, <2>1 DEF CommandInv, SawError, Down, taskOnly, outside
<1>2. CASE UNCHANGED taskVars
  BY <1>0, <1>2 DEF taskVars, runVars, chanVars, CommandInv, SawError, Down, taskOnly, outside
<1>3. CASE Outside
  <2>1. UNCHANGED <<sent, pc, transport>> /\ (exit # "none" => received' = received)
    BY <1>0, <1>3 DEF Outside, Arrive, RejectRun, AcceptRun, Forward, Receive, TakeEvent, WriteFails,
         ReceiveLast, StreamEnds,
       HearClient, HearNothingMore, Heard, NoticeLoss, SendCancel, CloseRequest, Vanish,
       ReportError, ReportEnd, ReportRefused, ReportBroken, ReportTooLong, CommandReturns,
       Signal, ShutdownReturns, ShutdownTimesOut, ServerFails, DaemonMoves,
       runVars, chanVars, runnerOnly, taskOnly, CommandInv
  <2>2. CASE ConnectionStep \/ ListeningStep
    <3>1. UNCHANGED <<daemon, exit, client>>
      BY <2>2 DEF ConnectionStep, Arrive, RejectRun, AcceptRun, Forward, WriteFails, StreamEnds,
         ListeningStep, HearClient, HearNothingMore, Heard, NoticeLoss, outside, taskOnly
    <3>2. /\ handler \in {"rejected", "returned"} => handler' = handler
          /\ handler' \in {"reading", "serving"} => handler \in {"reading", "serving"} \/ daemon = "up"
          /\ handler = "idle" => handler' = handler \/ daemon = "up"
      BY <2>2 DEF ConnectionStep, Arrive, RejectRun, AcceptRun, Forward, WriteFails, StreamEnds,
         HandlerReturns, ListeningStep, HearClient, HearNothingMore, Heard, NoticeLoss, taskOnly
    <3> QED
      BY <1>0, <2>1, <3>1, <3>2 DEF CommandInv, SawError, Down
  <2>3. CASE SendCancel \/ CloseRequest \/ Vanish
    <3>1. UNCHANGED <<daemon, exit, handler, received>> /\ client # "gone"
      BY <2>3 DEF SendCancel, CloseRequest, Vanish, outside
    <3> QED
      BY <1>0, <2>1, <3>1 DEF CommandInv, SawError, Down
  <2>4. CASE ProcessStep
    <3>1. UNCHANGED <<exit, client, handler, received>>
      BY <2>4 DEF ProcessStep, Signal, ShutdownReturns, ShutdownTimesOut, ServerFails, DaemonMoves
    <3>2. /\ (Down' /\ ~Down) \/ (daemon = "up" /\ daemon' = "draining")
          /\ daemon' = "stopped" => NoneServed
          /\ daemon' # "up"
      BY <2>4 DEF ProcessStep, Signal, ShutdownReturns, ShutdownTimesOut, ServerFails, DaemonMoves, Down
    <3> QED
      BY <1>0, <2>1, <3>1, <3>2 DEF CommandInv, SawError, NoneServed, Down
  <2>5. ASSUME NEW code \in {"ok", "error", "tooLong", "refused", "broken"}, CommandReturns(code),
               code = "ok" => ReportEnd, code = "error" => SawError,
               code = "tooLong" => transport = "ndjson", code = "refused" => ReportRefused,
               code = "broken" => ReportBroken
        PROVE  CommandInv'
    <3>1. /\ exit = "none" /\ exit' = code /\ client # "gone" /\ client' = "gone"
          /\ UNCHANGED <<handler, received, daemon>>
      BY <2>5 DEF CommandReturns
    <3>2. Down' <=> Down
      BY <3>1 DEF Down
    <3>3. SawError' <=> SawError
      BY <3>1 DEF SawError
    <3>4. CASE code = "ok"
      <4>1. handler = "returned" /\ ~SawError
        BY <2>5, <3>4 DEF ReportEnd
      <4>2. pc = "closed" /\ Len(received) = Len(sent)
        BY <1>0, <3>1, <4>1 DEF StreamInv
      <4> QED
        BY <1>0, <2>1, <3>1, <3>2, <3>3, <3>4, <4>1, <4>2 DEF CommandInv
    <3>5. CASE code = "refused"
      <4>1. handler = "rejected" \/ (handler = "idle" /\ daemon # "up")
        BY <2>5, <3>5 DEF ReportRefused
      <4> QED
        BY <1>0, <2>1, <3>1, <3>2, <3>3, <3>5, <4>1 DEF CommandInv
    <3>6. CASE code = "broken"
      <4>1. Down /\ ~(daemon = "stopped" /\ transport = "ndjson")
        BY <1>0, <2>5, <3>6 DEF ReportBroken, Served, CommandInv
      <4> QED
        BY <1>0, <2>1, <3>1, <3>2, <3>3, <3>6, <4>1 DEF CommandInv
    <3>7. CASE code \in {"error", "tooLong"}
      BY <1>0, <2>1, <2>5, <3>1, <3>2, <3>3, <3>7 DEF CommandInv
    <3> QED
      BY <3>4, <3>5, <3>6, <3>7
  <2>6. CASE ReportError \/ ReportEnd \/ ReportRefused \/ ReportBroken \/ ReportTooLong
    BY <2>5, <2>6 DEF ReportError, ReportEnd, ReportRefused, ReportBroken, ReportTooLong
  <2> QED
    BY <1>3, <2>2, <2>3, <2>4, <2>6, OutsideParts DEF ClientStep
<1> QED
  BY <1>1, <1>2, <1>3, TaskCases

LEMMA TaskInvHolds == TaskSpec => []TaskInv
<1>1. TaskInit => TaskInv
  <2> SUFFICES ASSUME TaskInit
               PROVE  TaskInv
    OBVIOUS
  <2>1. RunnerTypes /\ OutcomeInv
    BY RunnerInit, OutcomeInit DEF TaskInit
  <2>2. ControlTypes
    <3>1. wire \in Seq({"cancel", "eof"}) /\ Len(wire) <= MaxUnread
      BY TransportsKnown DEF TaskInit
    <3>2. asked \in BOOLEAN
      BY DEF TaskInit
    <3> QED
      BY <3>1, <3>2 DEF TaskInit, ControlTypes, Reasons
  <2>3. StreamInv
    BY DEF TaskInit, RunInit, StreamInv
  <2>4. CommandInv
    BY DEF TaskInit, CommandInv
  <2> QED
    BY <2>1, <2>2, <2>3, <2>4 DEF TaskInv
<1>2. TaskInv /\ [TaskNext]_taskVars => TaskInv'
  <2> SUFFICES ASSUME TaskInv, [TaskNext]_taskVars
               PROVE  TaskInv'
    OBVIOUS
  <2> QED
    BY RunnerKept, ControlStep, StreamStep, CommandStepHolds DEF TaskInv
<1> QED
  BY <1>1, <1>2, PTL DEF TaskSpec

-----------------------------------------------------------------------------
(* The state of a call has its types, and the gauge counts it exactly while *)
(* its handler is in it.                                                    *)
THEOREM TaskTypeCorrect == TaskSpec => []TaskTypeOK
<1>1. TaskInv => TaskTypeOK
  BY DEF TaskInv, ControlTypes, StreamInv, TaskTypeOK
<1> QED
  BY <1>1, TaskInvHolds, PTL

(* A connected client is given every event in order and once.               *)
THEOREM DeliveryHolds == TaskSpec => []DeliveredInOrder
<1>1. TaskInv => DeliveredInOrder
  <2> SUFFICES ASSUME TaskInv
               PROVE  DeliveredInOrder
    OBVIOUS
  <2>1. /\ received \in Seq(Events) /\ sent \in Seq(Events) /\ taken \in Nat
        /\ taken <= Len(sent) /\ Len(received) <= taken
        /\ \A i \in 1..Len(received) : received[i] = sent[i]
    BY DEF TaskInv, RunnerTypes, StreamInv
  <2>2. Len(received) <= Len(sent)
    BY <2>1
  <2>3. SubSeq(received, 1, Len(received)) = SubSeq(sent, 1, Len(received))
    BY <2>1, <2>2
  <2>4. handler = "returned" /\ client # "gone" => pc = "closed" /\ Len(received) = Len(sent)
    BY DEF TaskInv, StreamInv
  <2>5. Len(received) = Len(sent) => received = sent
    BY <2>1, SeqEqual
  <2> QED
    BY <2>2, <2>3, <2>4, <2>5 DEF DeliveredInOrder, IsPrefix
<1> QED
  BY <1>1, TaskInvHolds, PTL

(* Only a client that was lost strands a runner.                            *)
THEOREM StrandingHolds == TaskSpec => []StrandedOnlyByLoss
<1>1. TaskInv => StrandedOnlyByLoss
  BY DEF TaskInv, StreamInv, StrandedOnlyByLoss
<1> QED
  BY <1>1, TaskInvHolds, PTL

(* The client's command does not take a cut stream for a run that ended.    *)
THEOREM ExitsAreHonest == TaskSpec => []ExitIsHonest
<1>1. TaskInv => ExitIsHonest
  <2> SUFFICES ASSUME TaskInv
               PROVE  ExitIsHonest
    OBVIOUS
  <2>1. /\ received \in Seq(Events) /\ sent \in Seq(Events)
        /\ Len(received) <= taken /\ taken <= Len(sent)
        /\ \A i \in 1..Len(received) : received[i] = sent[i]
    BY DEF TaskInv, RunnerTypes, StreamInv
  <2>2. CASE exit = "ok"
    <3>1. pc = "closed" /\ Len(received) = Len(sent) /\ ~SawError
      BY <2>2 DEF TaskInv, CommandInv
    <3>2. received = sent
      BY <2>1, <3>1, SeqEqual
    <3>3. sent # <<>> /\ Outcome(sent[Len(sent)])
      BY <3>1 DEF TaskInv, OutcomeInv, Over
    <3> QED
      BY <2>2, <3>1, <3>2, <3>3 DEF ExitIsHonest, Last
  <2>3. CASE exit # "ok"
    BY <2>3 DEF TaskInv, ControlTypes, CommandInv, ExitIsHonest
  <2> QED
    BY <2>2, <2>3
<1> QED
  BY <1>1, TaskInvHolds, PTL

(* A shutdown that succeeds has cut no NDJSON call.                         *)
THEOREM ShutdownIsGraceful == TaskSpec => []ShutdownSparesNdjson
<1>1. TaskInv => ShutdownSparesNdjson
  BY DEF TaskInv, CommandInv, ShutdownSparesNdjson
<1> QED
  BY <1>1, TaskInvHolds, PTL

-----------------------------------------------------------------------------
(* The rest of a call is, to its runner, a consumer that takes events and a *)
(* context that may be cancelled.                                           *)
LEMMA OutsideIsEnvironment ==
    ASSUME RunnerTypes, Outside
    PROVE  [Receive \/ ReceiveLast \/ CancelRequest]_runVars
<1>1. CASE Forward
  BY <1>1 DEF Forward
<1>2. CASE WriteFails
  BY <1>2 DEF WriteFails
<1>3. CASE StreamEnds \/ HearClient \/ HearNothingMore \/ NoticeLoss
  <2>1. ctxDone' = TRUE /\ UNCHANGED <<runnerOnly, taken, deserted>>
    BY <1>3 DEF StreamEnds, HandlerReturns, HearClient, HearNothingMore, Heard, NoticeLoss
  <2>2. UNCHANGED <<roleVars, run, pc, toolVars, answerVars, attempts, recorded, chanVars>>
    BY <2>1 DEF runnerOnly, chanVars
  <2>3. CASE ctxDone
    <3>1. ctxDone' = ctxDone
      BY <2>1, <2>3 DEF RunnerTypes
    <3> QED
      BY <2>2, <3>1 DEF runVars
  <2>4. CASE ~ctxDone
    BY <2>1, <2>2, <2>4 DEF CancelRequest
  <2> QED
    BY <2>3, <2>4
<1>4. CASE ~(Forward \/ WriteFails \/ StreamEnds \/ HearClient \/ HearNothingMore \/ NoticeLoss)
  <2>1. UNCHANGED runVars
    BY <1>4 DEF Outside, Arrive, RejectRun, AcceptRun, SendCancel, CloseRequest, Vanish,
       ReportError, ReportEnd, ReportRefused, ReportBroken, ReportTooLong, CommandReturns,
       Signal, ShutdownReturns, ShutdownTimesOut, ServerFails, DaemonMoves
  <2> QED
    BY <2>1
<1> QED
  BY <1>1, <1>2, <1>3, <1>4

(* A task is a run of AgentRun, whatever its client and its daemon do: what *)
(* is proved of a run holds of it.                                          *)
THEOREM TasksAreRuns == TaskSpec => ImplementsRun
<1>1. TaskInit => RunInit
  BY DEF TaskInit
<1>2. TaskInv /\ [TaskNext]_taskVars => [RunNext]_runVars
  <2> SUFFICES ASSUME TaskInv, [TaskNext]_taskVars
               PROVE  [RunNext]_runVars
    OBVIOUS
  <2>1. CASE RunnerMoves
    BY <2>1 DEF RunnerMoves, RunNext
  <2>2. CASE Outside
    BY <2>2, OutsideIsEnvironment DEF TaskInv, RunNext
  <2>3. CASE UNCHANGED taskVars
    BY <2>3 DEF taskVars
  <2> QED
    BY <2>1, <2>2, <2>3, TaskCases
<1> QED
  BY <1>1, <1>2, TaskInvHolds, PTL DEF TaskSpec, RunSpec, ImplementsRun

(* The properties of runs, of the runs of tasks.                            *)
THEOREM TasksMakeOrderedRuns ==
    TaskSpec => /\ ImplementsRoleCall /\ ImplementsStream
                /\ CancelStopsWork /\ RunMovesOn
                /\ [](BudgetKept /\ UsedMatchesUsage)
                /\ [](BlockedRunHalts /\ TestedBeforeDone /\ CriticSeesTheTools)
BY TasksAreRuns, RunsMakeRoleCalls, StreamsAreOrdered, CancelledRunsStop, RunsMoveOn,
   RunKeepsBudget, RunCountsUsage, BlocksHalt, AnswersAreTested, CriticsSeeTheirTools, PTL
   DEF ImplementsRun

-----------------------------------------------------------------------------
(* The protocol of the stream is the same for its reader.                   *)
LEMMA SameProtocol ==
    ASSUME NEW s, NEW e
    PROVE  ClientStream!MayFollow(s, e) <=> Stream!MayFollow(s, e)
<1>1. ClientStream!Steps(s) = Stream!Steps(s)
  BY DEF ClientStream!Steps, ClientStream!IsAnswer, ClientStream!Cardinality,
         ClientStream!IsFiniteSet, Stream!Steps, Stream!IsAnswer, Stream!Cardinality,
         Stream!IsFiniteSet
<1>2. ClientStream!Last(s) = Stream!Last(s)
  BY DEF ClientStream!Last, Stream!Last
<1>3. ClientStream!Halted(s) <=> Stream!Halted(s)
  BY <1>2 DEF ClientStream!Halted, Stream!Halted
<1>4. ClientStream!IsAnswer(e) <=> Stream!IsAnswer(e)
  BY DEF ClientStream!IsAnswer, Stream!IsAnswer
<1>5. ClientStream!Halts(s, e) <=> Stream!Halts(s, e)
  BY <1>1, <1>2 DEF ClientStream!Halts, Stream!Halts
<1>6. ClientStream!EndsWell(s, e) <=> Stream!EndsWell(s, e)
  BY <1>1, <1>3 DEF ClientStream!EndsWell, Stream!EndsWell
<1>7. ClientStream!BeginsStep(s, e) <=> Stream!BeginsStep(s, e)
  BY <1>1, <1>4 DEF ClientStream!BeginsStep, Stream!BeginsStep
<1>8. ClientStream!InOrder(s, e) <=> Stream!InOrder(s, e)
  BY <1>1, <1>2 DEF ClientStream!InOrder, ClientStream!Rank, ClientStream!Repeats,
                    Stream!InOrder, Stream!Rank, Stream!Repeats
<1> QED
  BY <1>2, <1>3, <1>5, <1>6, <1>7, <1>8 DEF ClientStream!MayFollow, Stream!MayFollow

(* An event of the channel may follow those that were taken before it.      *)
LEMMA TakenFollows ==
    ASSUME RunnerTypes, OrderInv, StreamInv, client # "gone", taken < Len(sent)
    PROVE  sent[taken + 1] \in Events /\ Stream!MayFollow(received, sent[taken + 1])
<1>1. /\ sent \in Seq(Events) /\ pend \in Seq(Events) /\ received \in Seq(Events)
      /\ taken \in Nat /\ Len(received) = taken
      /\ \A i \in 1..taken : received[i] = sent[i]
  BY DEF RunnerTypes, StreamInv
<1>2. /\ Story \in Seq(Events) /\ Len(Story) = Len(sent) + Len(pend)
      /\ \A i \in 1..Len(sent) : Story[i] = sent[i]
  BY <1>1, ConcatProperties DEF Story
<1> DEFINE k == taken + 1
<1>3. k \in 1..Len(sent) /\ k \in 1..Len(Story) /\ Story[k] = sent[k]
  BY <1>1, <1>2
<1>4. SubSeq(Story, 1, k - 1) = received
  <2>1. SubSeq(Story, 1, taken) \in Seq(Events) /\ Len(SubSeq(Story, 1, taken)) = taken
    BY <1>1, <1>2, <1>3
  <2>2. \A i \in 1..taken : SubSeq(Story, 1, taken)[i] = received[i]
    <3>1. \A i \in 1..taken : i \in 1..Len(sent)
      BY <1>1
    <3>2. \A i \in 1..taken : SubSeq(Story, 1, taken)[i] = Story[i]
      BY <1>1, <1>2, <1>3
    <3> QED
      BY <1>1, <1>2, <3>1, <3>2, Zenon
  <2>3. SubSeq(Story, 1, taken) = received
    BY <1>1, <2>1, <2>2, SeqEqual
  <2> QED
    BY <1>1, <2>3
<1>5. Stream!MayFollow(SubSeq(Story, 1, k - 1), Story[k])
  <2> HIDE DEF k
  <2> QED
    BY <1>3 DEF OrderInv, Orderly
<1>6. sent[k] \in Events
  BY <1>1, <1>3
<1> HIDE DEF k
<1>7. Stream!MayFollow(received, sent[k])
  BY <1>3, <1>4, <1>5
<1> QED
  BY <1>6, <1>7 DEF k

LEMMA ReadingStep ==
    ASSUME TaskInv, TaskInv', OrderInv, [TaskNext]_taskVars
    PROVE  [ClientStream!Next]_<<received, exit = "ok">>
<1>1. CASE Forward /\ client # "gone"
  <2>1. /\ taken < Len(sent) /\ received' = Append(received, sent[taken + 1])
        /\ exit' = exit /\ received \in Seq(Events) /\ exit = "none"
    BY <1>1 DEF Forward, Receive, TakeEvent, outside, TaskInv, StreamInv, CommandInv
  <2>2. sent[taken + 1] \in Events /\ Stream!MayFollow(received, sent[taken + 1])
    BY <1>1, <2>1, TakenFollows DEF TaskInv
  <2>3. Len(received') = Len(received) + 1 /\ received'[Len(received')] = sent[taken + 1]
    BY <2>1, <2>2
  <2>4. ClientStream!MayFollow(received, sent[taken + 1])
    BY <2>2, SameProtocol
  <2> QED
    BY <2>1, <2>3, <2>4 DEF ClientStream!Next, ClientStream!Emit, ClientStream!Last
<1>2. CASE ReportEnd
  <2>1. exit = "none" /\ exit' = "ok" /\ UNCHANGED <<received, sent, pc>>
    BY <1>2 DEF ReportEnd, CommandReturns, runVars, chanVars
  <2>2. pc = "closed" /\ Len(received) = Len(sent)
    BY <2>1 DEF TaskInv, CommandInv
  <2>3. /\ received \in Seq(Events) /\ sent \in Seq(Events)
        /\ \A i \in 1..Len(received) : received[i] = sent[i]
    BY DEF TaskInv, RunnerTypes, StreamInv
  <2>4. received = sent
    BY <2>2, <2>3, SeqEqual
  <2>5. sent # <<>> /\ Outcome(sent[Len(sent)]) /\ sent[Len(sent)] \in Events
    BY <2>2, <2>3 DEF TaskInv, OutcomeInv, Over
  <2> QED
    BY <2>1, <2>4, <2>5 DEF ClientStream!Next, ClientStream!End, ClientStream!Last
<1>3. CASE ~(Forward /\ client # "gone") /\ ~ReportEnd
  <2>1. CASE RunnerMoves \/ UNCHANGED taskVars
    BY <2>1 DEF RunnerMoves, taskVars, taskOnly, outside
  <2>2. CASE Forward
    BY <1>3, <2>2 DEF Forward, outside
  <2>3. CASE Arrive \/ RejectRun \/ AcceptRun \/ WriteFails \/ StreamEnds \/ ListeningStep
    BY <2>3 DEF Arrive, RejectRun, AcceptRun, WriteFails, StreamEnds, ListeningStep, HearClient,
       HearNothingMore, Heard, NoticeLoss, taskOnly, outside
  <2>4. CASE SendCancel \/ CloseRequest \/ Vanish \/ ProcessStep
    BY <2>4 DEF SendCancel, CloseRequest, Vanish, ProcessStep, Signal, ShutdownReturns,
       ShutdownTimesOut, ServerFails, DaemonMoves, outside
  <2>5. CASE ReportError \/ ReportTooLong \/ ReportRefused \/ ReportBroken
    <3>1. received' = received /\ exit = "none" /\ exit' # "ok"
      BY <2>5 DEF ReportError, ReportTooLong, ReportRefused, ReportBroken, CommandReturns
    <3> QED
      BY <3>1
  <2> QED
    BY <1>3, <2>1, <2>2, <2>3, <2>4, <2>5, TaskCases
       DEF Outside, ListeningStep, ProcessStep
<1> QED
  BY <1>1, <1>2, <1>3

(* The client's command reads a stream of the protocol, and takes it for    *)
(* complete only at an outcome.                                             *)
THEOREM ClientsReadStreams == TaskSpec => ClientReadsStream
<1>1. TaskInit => ClientStream!Init
  BY DEF TaskInit, ClientStream!Init
<1>2. RunSpec => []OrderInv
  BY OrderHolds, PTL
<1> QED
  BY <1>1, <1>2, TasksAreRuns, TaskInvHolds, ReadingStep, PTL
     DEF TaskSpec, ImplementsRun, ClientReadsStream, ClientStream!Spec
-----------------------------------------------------------------------------
(* How far a task is from its rest.                                         *)
LEMMA LeftFacts ==
    ASSUME ControlTypes, ctxDone \in BOOLEAN
    PROVE  /\ HandlerLeft \in 0..3 /\ ClientLeft \in 0..2 /\ DaemonLeft \in 0..2
           /\ Left(listener = "listening") \in 0..1 /\ Left(~ctxDone) \in 0..1
           /\ Left(exit = "none") \in 0..1 /\ OthersLeft \in Nat
<1>1. HandlerLeft \in 0..3 /\ ClientLeft \in 0..2 /\ DaemonLeft \in 0..2
  BY DEF ControlTypes, HandlerLeft, ClientLeft, DaemonLeft
<1>2. /\ Left(listener = "listening") \in 0..1 /\ Left(~ctxDone) \in 0..1
      /\ Left(exit = "none") \in 0..1
  BY DEF Left
<1> QED
  BY <1>1, <1>2 DEF OthersLeft

TaskDistanceKnown ==
    /\ TaskDistance \in [1..6 -> Nat]
    /\ TaskDistance[1] = Distance[1] /\ TaskDistance[2] = Distance[2]
    /\ TaskDistance[3] = Distance[3] /\ TaskDistance[4] = Distance[4]
    /\ TaskDistance[5] = OthersLeft /\ TaskDistance[6] = Len(sent) - taken

LEMMA TaskDistanceIs == TaskInv /\ Known => TaskDistanceKnown
<1> SUFFICES ASSUME TaskInv, Known
             PROVE  TaskDistanceKnown
  OBVIOUS
<1>1. OthersLeft \in Nat
  BY LeftFacts DEF TaskInv, RunnerTypes
<1>2. Len(sent) - taken \in Nat
  BY DEF TaskInv, RunnerTypes, StreamInv
<1>3. /\ run.maxSteps - step \in Nat /\ PlacesLeft \in Nat /\ WorkLeft \in Nat
      /\ Len(pend) \in Nat
  BY DistanceBounds DEF Known
<1>4. /\ Distance[1] = run.maxSteps - step /\ Distance[2] = PlacesLeft
      /\ Distance[3] = WorkLeft /\ Distance[4] = Len(pend)
  BY DEF Known, DistanceKnown
<1> QED
  BY <1>1, <1>2, <1>3, <1>4 DEF TaskDistanceKnown, TaskDistance

Weighed(h, l, x, c, e, d) == 2 * h + l + x + c + e + d

LEMMA WeighedDrops ==
    ASSUME NEW h1 \in 0..3, NEW l1 \in 0..1, NEW x1 \in 0..1,
           NEW c1 \in 0..2, NEW e1 \in 0..1, NEW d1 \in 0..2,
           NEW h2 \in 0..3, NEW l2 \in 0..1, NEW x2 \in 0..1,
           NEW c2 \in 0..2, NEW e2 \in 0..1, NEW d2 \in 0..2,
           h2 <= h1, x2 <= x1, c2 <= c1, e2 <= e1, d2 <= d1,
           \/ h2 < h1
           \/ l2 < l1
           \/ l2 = l1 /\ (x2 < x1 \/ c2 < c1 \/ d2 < d1)
    PROVE  Weighed(h2, l2, x2, c2, e2, d2) < Weighed(h1, l1, x1, c1, e1, d1)
BY DEF Weighed

(* The five kinds of what the others do, apart from a client that repeats   *)
(* itself: each leaves less to do, and takes nothing back.                  *)
LEMMA OutsideMoves ==
    ASSUME TaskInv, TaskInv', Outside, ~SendCancel
    PROVE  \/ OthersLeft' < OthersLeft
           \/ OthersLeft' = OthersLeft /\ Len(sent') - taken' < Len(sent) - taken
<1> DEFINE l == Left(listener = "listening")
           x == Left(~ctxDone)
           e == Left(exit = "none")
<1>1. /\ HandlerLeft \in 0..3 /\ ClientLeft \in 0..2 /\ DaemonLeft \in 0..2
      /\ l \in 0..1 /\ x \in 0..1 /\ e \in 0..1
  BY LeftFacts DEF TaskInv, RunnerTypes
<1>2. /\ HandlerLeft' \in 0..3 /\ ClientLeft' \in 0..2 /\ DaemonLeft' \in 0..2
      /\ l' \in 0..1 /\ x' \in 0..1 /\ e' \in 0..1
  BY LeftFacts DEF TaskInv, RunnerTypes, ControlTypes, HandlerLeft, ClientLeft, DaemonLeft, Left
<1>3. OthersLeft = Weighed(HandlerLeft, l, x, ClientLeft, e, DaemonLeft)
  BY DEF OthersLeft, Weighed
<1>4. OthersLeft' = Weighed(HandlerLeft', l', x', ClientLeft', e', DaemonLeft')
  BY DEF OthersLeft, Weighed
<1>5. x' <= x
  <2>1. ctxDone' = ctxDone \/ ctxDone' = TRUE
    BY OutsideEffect DEF TaskInv
  <2>2. CASE ctxDone' = ctxDone
    <3>1. x' = x
      BY <2>2
    <3> QED
      BY <1>1, <3>1
  <2>3. CASE ctxDone' = TRUE
    <3>1. x' = 0
      BY <2>3 DEF Left
    <3> QED
      BY <1>1, <3>1
  <2> QED
    BY <2>1, <2>2, <2>3
<1>6. CASE Arrive \/ RejectRun \/ AcceptRun \/ WriteFails \/ StreamEnds
  <2>1. HandlerLeft' < HandlerLeft
    BY <1>6 DEF Arrive, RejectRun, AcceptRun, WriteFails, StreamEnds, HandlerReturns, HandlerLeft
  <2>2. UNCHANGED <<client, exit, daemon>>
    BY <1>6 DEF Arrive, RejectRun, AcceptRun, WriteFails, StreamEnds, outside
  <2>3. ClientLeft' = ClientLeft /\ e' = e /\ DaemonLeft' = DaemonLeft
    BY <2>2 DEF ClientLeft, DaemonLeft
  <2> QED
    BY <1>1, <1>2, <1>3, <1>4, <1>5, <2>1, <2>3, WeighedDrops
<1>7. CASE HearClient \/ HearNothingMore
  <2>1. l = 1 /\ l' = 0
    BY <1>7 DEF HearClient, HearNothingMore, Heard, Left
  <2>2. UNCHANGED <<handler, client, exit, daemon>>
    BY <1>7 DEF HearClient, HearNothingMore, Heard, outside
  <2>3. HandlerLeft' = HandlerLeft /\ ClientLeft' = ClientLeft /\ e' = e /\ DaemonLeft' = DaemonLeft
    BY <2>2 DEF HandlerLeft, ClientLeft, DaemonLeft
  <2> QED
    BY <1>1, <1>2, <1>3, <1>4, <1>5, <2>1, <2>3, WeighedDrops
<1>8. CASE NoticeLoss
  <2>1. x = 1 /\ x' = 0
    BY <1>8 DEF NoticeLoss, Left
  <2>2. UNCHANGED <<handler, listener, client, exit, daemon>>
    BY <1>8 DEF NoticeLoss, taskOnly, outside
  <2>3. /\ HandlerLeft' = HandlerLeft /\ ClientLeft' = ClientLeft /\ e' = e
        /\ DaemonLeft' = DaemonLeft /\ l' = l
    BY <2>2 DEF HandlerLeft, ClientLeft, DaemonLeft
  <2> QED
    BY <1>1, <1>2, <1>3, <1>4, <2>1, <2>3, WeighedDrops
<1>9. CASE CloseRequest \/ Vanish \/ ReportError \/ ReportEnd \/ ReportRefused \/ ReportBroken
           \/ ReportTooLong
  <2>1. client \in {"open", "halfClosed", "gone"}
    BY DEF TaskInv, ControlTypes
  <2>2. ClientLeft' < ClientLeft
    BY <1>9, <2>1 DEF CloseRequest, Vanish, ReportError, ReportEnd, ReportRefused, ReportBroken,
         ReportTooLong, CommandReturns, ClientLeft
  <2>3. UNCHANGED <<handler, listener, daemon>> /\ (exit' = exit \/ exit = "none")
    BY <1>9 DEF CloseRequest, Vanish, ReportError, ReportEnd, ReportRefused, ReportBroken,
         ReportTooLong, CommandReturns, outside
  <2>4. HandlerLeft' = HandlerLeft /\ DaemonLeft' = DaemonLeft /\ l' = l
    BY <2>3 DEF HandlerLeft, DaemonLeft
  <2>5. e' <= e
    <3>1. CASE exit' = exit
      <4>1. e' = e
        BY <3>1
      <4> QED
        BY <1>1, <4>1
    <3>2. CASE exit = "none"
      <4>1. e = 1
        BY <3>2 DEF Left
      <4> QED
        BY <1>2, <4>1
    <3> QED
      BY <2>3, <3>1, <3>2
  <2> QED
    BY <1>1, <1>2, <1>3, <1>4, <1>5, <2>2, <2>4, <2>5, WeighedDrops
<1>10. CASE Signal \/ ShutdownReturns \/ ShutdownTimesOut \/ ServerFails
  <2>1. DaemonLeft' < DaemonLeft
    BY <1>10 DEF Signal, ShutdownReturns, ShutdownTimesOut, ServerFails, DaemonMoves, DaemonLeft
  <2>2. UNCHANGED <<handler, listener, client, exit>>
    BY <1>10 DEF Signal, ShutdownReturns, ShutdownTimesOut, ServerFails, DaemonMoves
  <2>3. HandlerLeft' = HandlerLeft /\ ClientLeft' = ClientLeft /\ e' = e /\ l' = l
    BY <2>2 DEF HandlerLeft, ClientLeft
  <2> QED
    BY <1>1, <1>2, <1>3, <1>4, <1>5, <2>1, <2>3, WeighedDrops
<1>11. CASE Forward
  <2>1. /\ taken < Len(sent) /\ taken' = taken + 1 /\ sent' = sent /\ ctxDone' = ctxDone
        /\ UNCHANGED <<handler, listener, client, exit, daemon>>
    BY <1>11 DEF Forward, Receive, TakeEvent, outside
  <2>2. /\ HandlerLeft' = HandlerLeft /\ ClientLeft' = ClientLeft /\ e' = e
        /\ DaemonLeft' = DaemonLeft /\ l' = l /\ x' = x
    BY <2>1 DEF HandlerLeft, ClientLeft, DaemonLeft
  <2>3. OthersLeft' = OthersLeft
    BY <1>3, <1>4, <2>2
  <2>4. Len(sent) \in Nat /\ taken \in Nat
    BY DEF TaskInv, RunnerTypes
  <2> QED
    BY <2>1, <2>3, <2>4
<1> QED
  BY <1>6, <1>7, <1>8, <1>9, <1>10, <1>11 DEF Outside

(* The steps of the runner move its run, those of the others leave it where *)
(* it is and move themselves.                                               *)
LEMMA TaskMovesDown ==
    ASSUME TaskInv, TaskInv', Known, Known', TaskDistanceKnown, TaskDistanceKnown',
           RunnerMoves \/ Outside, ~SendCancel, ~SearchGoesOn
    PROVE  \E i \in 1..6 : /\ TaskDistance'[i] < TaskDistance[i]
                           /\ \A j \in 1..i - 1 : TaskDistance'[j] = TaskDistance[j]
<1>1. \A i \in 1..4 : TaskDistance[i] = Distance[i]
  <2>1. \A i \in 1..4 : i = 1 \/ i = 2 \/ i = 3 \/ i = 4
    OBVIOUS
  <2> QED
    BY <2>1 DEF TaskDistanceKnown
<1>2. \A i \in 1..4 : TaskDistance'[i] = Distance'[i]
  <2>1. \A i \in 1..4 : i = 1 \/ i = 2 \/ i = 3 \/ i = 4
    OBVIOUS
  <2> QED
    BY <2>1 DEF TaskDistanceKnown
<1>3. CASE RunnerMoves
  <2>1. Moves
    BY <1>3, RunnerStepMoves DEF Known, RunnerMoves
  <2>2. PICK i \in 1..4 : /\ Distance'[i] < Distance[i]
                          /\ \A j \in 1..i - 1 : Distance'[j] = Distance[j]
    BY <2>1, MovesDown DEF Known
  <2>3. i \in 1..6 /\ \A j \in 1..i - 1 : j \in 1..4
    BY <2>2
  <2> QED
    BY <1>1, <1>2, <2>2, <2>3
<1>4. CASE Outside
  <2>1. Distance' = Distance
    <3>1. [Receive \/ ReceiveLast \/ CancelRequest]_runVars
      BY <1>4, OutsideIsEnvironment DEF TaskInv
    <3> QED
      BY <3>1, OthersDoNotMove
  <2>2. \A j \in 1..4 : TaskDistance'[j] = TaskDistance[j]
    BY <1>1, <1>2, <2>1
  <2>3. /\ TaskDistance[5] = OthersLeft /\ TaskDistance[6] = Len(sent) - taken
        /\ TaskDistance'[5] = OthersLeft' /\ TaskDistance'[6] = Len(sent') - taken'
    BY DEF TaskDistanceKnown
  <2>4. CASE OthersLeft' < OthersLeft
    <3>1. TaskDistance'[5] < TaskDistance[5] /\ \A j \in 1..5 - 1 : TaskDistance'[j] = TaskDistance[j]
      BY <2>2, <2>3, <2>4
    <3> QED
      BY <3>1
  <2>5. CASE OthersLeft' = OthersLeft /\ Len(sent') - taken' < Len(sent) - taken
    <3>1. \A j \in 1..6 - 1 : j \in 1..4 \/ j = 5
      OBVIOUS
    <3>2. TaskDistance'[6] < TaskDistance[6] /\ \A j \in 1..6 - 1 : TaskDistance'[j] = TaskDistance[j]
      BY <2>2, <2>3, <2>5, <3>1
    <3> QED
      BY <3>2
  <2> QED
    BY <1>4, <2>4, <2>5, OutsideMoves
<1> QED
  BY <1>3, <1>4

LEMMA RepeatsStay ==
    ASSUME TaskInv, SendCancel
    PROVE  TaskDistance' = TaskDistance
<1>1. UNCHANGED <<runVars, handler, listener, client, exit, daemon>>
  BY DEF SendCancel, outside
<1>2. Distance' = Distance /\ UNCHANGED <<sent, taken, ctxDone>>
  BY <1>1, OthersDoNotMove DEF runVars, chanVars
<1>3. UNCHANGED <<run, step, pend, PlacesLeft, WorkLeft>>
  BY <1>1 DEF runVars, chanVars, roleVars, answerVars, toolVars, PlacesLeft, WorkLeft, CallsLeft
<1>4. OthersLeft' = OthersLeft
  BY <1>1, <1>2 DEF OthersLeft, HandlerLeft, ClientLeft, DaemonLeft
<1> QED
  BY <1>2, <1>3, <1>4 DEF TaskDistance

LEMMA TaskKnownHolds == TaskSpec => [](TaskInv /\ Known /\ TaskDistanceKnown)
BY TaskInvHolds, TasksAreRuns, KnownHolds, TaskDistanceIs, PTL DEF ImplementsRun

(* What the goroutines, the client and the daemon of a task do brings it to *)
(* its rest: no interleaving of them goes round in a circle.                *)
THEOREM TasksMoveOn == TaskSpec => TaskMovesOn
<1>1. /\ TaskInv /\ Known /\ TaskDistanceKnown
      /\ TaskInv' /\ Known' /\ TaskDistanceKnown'
      /\ [TaskNext]_taskVars
      => [TaskNearer \/ SearchGoesOn \/ (SendCancel /\ TaskDistance' = TaskDistance)]_taskVars
  <2> SUFFICES ASSUME TaskInv, Known, TaskDistanceKnown, TaskInv', Known', TaskDistanceKnown',
                      [TaskNext]_taskVars, taskVars' # taskVars, ~SendCancel, ~SearchGoesOn
               PROVE  TaskNearer
    BY RepeatsStay
  <2>1. RunnerMoves \/ Outside
    BY TaskCases
  <2>2. \A i \in 1..6 : TaskDistance'[i] >= 0
    <3>1. TaskDistance' \in [1..6 -> Nat]
      BY DEF TaskDistanceKnown
    <3> QED
      BY <3>1
  <2> QED
    BY <2>1, <2>2, TaskMovesDown DEF TaskNearer
<1> QED
  BY <1>1, TaskKnownHolds, PTL DEF TaskSpec, TaskMovesOn

(* In the order of the distances, which is well-founded (DistancesEnd).     *)
THEOREM TasksDescend ==
    TaskSpec => [][\/ <<TaskDistance', TaskDistance>> \in Below(6)
                   \/ SearchGoesOn
                   \/ SendCancel /\ TaskDistance' = TaskDistance]_taskVars
<1>1. /\ TaskInv /\ Known /\ TaskDistanceKnown
      /\ TaskInv' /\ Known' /\ TaskDistanceKnown'
      /\ [TaskNext]_taskVars
      => [\/ <<TaskDistance', TaskDistance>> \in Below(6)
          \/ SearchGoesOn
          \/ SendCancel /\ TaskDistance' = TaskDistance]_taskVars
  <2> SUFFICES ASSUME TaskInv, Known, TaskDistanceKnown, TaskInv', Known', TaskDistanceKnown',
                      [TaskNext]_taskVars, taskVars' # taskVars, ~SendCancel, ~SearchGoesOn
               PROVE  <<TaskDistance', TaskDistance>> \in Below(6)
    BY RepeatsStay
  <2>1. TaskDistance' \in [1..6 -> Nat] /\ TaskDistance \in [1..6 -> Nat]
    BY DEF TaskDistanceKnown
  <2>2. RunnerMoves \/ Outside
    BY TaskCases
  <2>3. PICK i \in 1..6 : /\ TaskDistance'[i] < TaskDistance[i]
                          /\ \A j \in 1..i - 1 : TaskDistance'[j] = TaskDistance[j]
    BY <2>2, TaskMovesDown
  <2>4. <<TaskDistance'[i], TaskDistance[i]>> \in OpToRel(<, Nat)
    BY <2>1, <2>3 DEF OpToRel
  <2> QED
    BY <2>1, <2>3, <2>4 DEF Below, LexProductOrdering
<1> QED
  BY <1>1, TaskKnownHolds, PTL DEF TaskSpec
=============================================================================
