------------------------------ MODULE RunTask ------------------------------
(* One RunTask call end to end: the client, the transport handler that      *)
(* serves it (internal/rpc/agent/connect_handler.go or handler.go), the     *)
(* runner of AgentRun and the daemon around them.  Three goroutines share   *)
(* the request's context: the runner reads it, the handler cancels it when  *)
(* it returns, and the Connect listener cancels it on what the client       *)
(* sends.  The daemon may be told to stop at any time, and its process then *)
(* ends with whatever is still running in it.                               *)
EXTENDS AgentRun

CONSTANTS
    Transports,     \* the transports explored
    MaxUnread       \* bound: messages of the client that the daemon has not read

ASSUME TransportsKnown ==
    Transports \subseteq {"connect", "ndjson"} /\ MaxUnread \in Nat

VARIABLES
    transport,  \* the surface the client chose
    handler,    \* the handler of the call
    listener,   \* the goroutine that listens for cancellation (Connect only)
    gauge,      \* mycodex_transport_active_sessions
    errors,     \* reasons counted in mycodex_transport_errors_total
    client,     \* the client's end of the connection
    wire,       \* what the client has sent after the run message, unread
    asked,      \* history: the client has sent a cancel message
    received,   \* history: the events handed to a client that is there
    daemon,     \* the daemon's process: up, draining, or ended in one of three ways
    exit        \* how the client's command returned, "none" while it runs

outside == <<daemon, exit>>
taskOnly == <<transport, handler, listener, gauge, errors, client, wire, asked, received, outside>>
taskVars == <<runVars, taskOnly>>

Reasons == {"receive_first", "missing_run", "decode", "receive_stream", "send"}

(* The types; the gauge counts the call exactly while its handler is in it. *)
TaskTypeOK ==
    /\ transport \in Transports
    /\ handler \in {"idle", "reading", "rejected", "serving", "returned"}
    /\ listener \in {"off", "listening", "stopped"}
    /\ gauge = IF handler \in {"reading", "serving"} THEN 1 ELSE 0
    /\ errors \subseteq Reasons
    /\ client \in {"open", "halfClosed", "gone"}
    /\ wire \in Seq({"cancel", "eof"}) /\ Len(wire) <= MaxUnread
    /\ asked \in BOOLEAN
    /\ received \in Seq(Events)
    /\ daemon \in {"up", "draining", "stopped", "gaveUp", "failed"}
    /\ exit \in {"none", "ok", "error", "tooLong", "refused", "broken"}

TaskInit ==
    /\ RunInit
    /\ transport \in Transports
    /\ handler = "idle" /\ listener = "off" /\ gauge = 0 /\ errors = {}
    /\ client = "open" /\ wire = <<>> /\ asked = FALSE /\ received = <<>>
    /\ daemon = "up" /\ exit = "none"

(* The process has ended, and every goroutine with it.                      *)
Down == daemon \in {"stopped", "gaveUp", "failed"}

(* What an action leaves alone in the runner, the context and the consumer's*)
(* side of the channel apart.                                               *)
runnerOnly == <<roleVars, run, pc, toolVars, answerVars, attempts, recorded, pend, sent>>

-----------------------------------------------------------------------------
(* The call arrives and the handler waits for its first message, or body.   *)
(* Mutant: the call is not counted.                                         *)
ArriveUncounted ==
    /\ daemon = "up" /\ handler = "idle"
    /\ handler' = "reading"
    /\ UNCHANGED <<runVars, transport, listener, gauge, errors, client, wire, asked, received, outside>>

Arrive ==
    /\ daemon = "up" /\ handler = "idle"
    /\ handler' = "reading"
    /\ gauge' = gauge + 1
    /\ UNCHANGED <<runVars, transport, listener, errors, client, wire, asked, received, outside>>

(* It does not come, or does not hold a run.                                *)
RejectRun ==
    /\ handler = "reading"
    /\ handler' = "rejected"
    /\ gauge' = gauge - 1
    /\ errors' = errors \cup { IF transport = "ndjson" THEN "decode"
                               ELSE IF client = "gone" THEN "receive_first" ELSE "missing_run" }
    /\ UNCHANGED <<runVars, transport, listener, client, wire, asked, received, outside>>

AcceptRun ==
    /\ handler = "reading"
    /\ handler' = "serving"
    /\ listener' = IF transport = "connect" THEN "listening" ELSE "off"
    /\ UNCHANGED <<runVars, transport, gauge, errors, client, wire, asked, received, outside>>

(* Returning decrements the gauge and cancels the request's context.        *)
(* Mutant: it forgets the gauge.                                            *)
ReturnUncounted == handler' = "returned" /\ ctxDone' = TRUE /\ UNCHANGED gauge

HandlerReturns ==
    /\ handler' = "returned"
    /\ gauge' = gauge - 1
    /\ ctxDone' = TRUE

(* One turn of the loop over the events.  A write to a client that is gone  *)
(* may still seem to succeed: the connection buffers it, and NDJSON ignores *)
(* the errors of its flushes.                                               *)
Forward ==
    /\ handler = "serving"
    /\ Receive
    /\ received' = IF client = "gone" THEN received
                   ELSE Append(received, sent[taken + 1])
    /\ UNCHANGED <<transport, handler, listener, gauge, errors, client, wire, asked, outside>>

WriteFails ==
    /\ handler = "serving"
    /\ client = "gone"
    /\ ReceiveLast
    /\ HandlerReturns
    /\ errors' = IF transport = "connect" THEN errors \cup {"send"} ELSE errors
    /\ UNCHANGED <<transport, listener, client, wire, asked, received, outside>>

(* The channel is closed and drained.  Mutants: it is closed; the context   *)
(* is cancelled.                                                            *)
ClosedOnly == pc = "closed"

ClosedOrCancelled == ctxDone \/ (pc = "closed" /\ taken = Len(sent))

Drained == pc = "closed" /\ taken = Len(sent)

StreamEnds ==
    /\ handler = "serving"
    /\ Drained
    /\ HandlerReturns
    /\ UNCHANGED <<runnerOnly, taken, deserted, transport, listener, errors, client, wire, asked, received, outside>>

(* The Connect listener reads one message, or the end of the request        *)
(* stream, or the error of a stream that is gone or served.                 *)
Heard(reasons) ==
    /\ listener = "listening"
    /\ listener' = "stopped"
    /\ ctxDone' = TRUE
    /\ errors' \in {errors \cup r : r \in reasons}
    /\ UNCHANGED <<runnerOnly, taken, deserted, transport, handler, gauge, client, asked, received, outside>>

HearClient ==
    /\ wire # <<>>
    /\ Heard(IF Head(wire) = "eof" THEN {{"receive_stream"}} ELSE {{}})
    /\ wire' = Tail(wire)

HearNothingMore ==
    /\ client = "gone" \/ handler = "returned"
    /\ Heard({{}, {"receive_stream"}})
    /\ UNCHANGED wire

(* The server notices a lost connection and cancels the request's context.  *)
NoticeLoss ==
    /\ ~Down /\ client = "gone" /\ handler = "serving"
    /\ ~ctxDone
    /\ ctxDone' = TRUE
    /\ UNCHANGED <<runnerOnly, taken, deserted, taskOnly>>

RunnerMoves ==
    /\ ~Down /\ handler \in {"serving", "returned"}
    /\ RunnerStep
    /\ UNCHANGED taskOnly

-----------------------------------------------------------------------------
(* The client: cancel on the same stream, close its sending side, or vanish.*)
SendCancel ==
    /\ transport = "connect" /\ client = "open"
    /\ Len(wire) < MaxUnread
    /\ wire' = Append(wire, "cancel")
    /\ asked' = TRUE
    /\ UNCHANGED <<runVars, transport, handler, listener, gauge, errors, client, received, outside>>

CloseRequest ==
    /\ transport = "connect" /\ client = "open"
    /\ Len(wire) < MaxUnread
    /\ client' = "halfClosed"
    /\ wire' = Append(wire, "eof")
    /\ UNCHANGED <<runVars, transport, handler, listener, gauge, errors, asked, received, outside>>

Vanish ==
    /\ client # "gone" /\ handler \in {"reading", "serving"}
    /\ client' = "gone"
    /\ wire' = <<>>
    /\ UNCHANGED <<runVars, transport, handler, listener, gauge, errors, asked, received, outside>>

(* The client's command reads the stream to its end, unless an event makes  *)
(* it return before (runConnect, runNDJSON and renderEvent in               *)
(* internal/cli/run.go).  When it returns, its connection goes.             *)
CommandReturns(code) ==
    /\ exit = "none" /\ client # "gone"
    /\ exit' = code
    /\ client' = "gone" /\ wire' = <<>>
    /\ UNCHANGED <<runVars, transport, handler, listener, gauge, errors, asked, received, daemon>>

SawError == \E i \in DOMAIN received : received[i].type = "error"

ReportError == SawError /\ CommandReturns("error")

(* Mutant: only a done event ends it.                                       *)
ReportDone ==
    /\ handler = "returned" /\ ~SawError
    /\ \E i \in DOMAIN received : received[i].type = "done"
    /\ CommandReturns("ok")

ReportEnd == handler = "returned" /\ ~SawError /\ CommandReturns("ok")

(* Over NDJSON an event is a line, and a line that is longer than the       *)
(* scanner's buffer of 64 KB is an error.                                   *)
ReportTooLong ==
    /\ transport = "ndjson"
    /\ \E i \in DOMAIN received : received[i].type \notin {"token", "done"}
    /\ CommandReturns("tooLong")

ReportRefused ==
    /\ handler = "rejected" \/ (handler = "idle" /\ daemon # "up")
    /\ CommandReturns("refused")

(* The daemon's process ended before the end of the stream reached the      *)
(* client.  A shutdown that waited for the connection saw it through.       *)
Served == handler = "returned" /\ transport = "ndjson" /\ daemon = "stopped"

ReportBroken ==
    /\ Down /\ handler \in {"reading", "serving", "returned"}
    /\ ~Served
    /\ CommandReturns("broken")

-----------------------------------------------------------------------------
(* The daemon is told to stop and shuts its HTTP server down: no call is    *)
(* let in, and it waits for the connections that serve one, for five        *)
(* seconds.  HTTP/2 connections were taken over by the h2c handler: the     *)
(* server does not know them and does not wait for them.  Other calls may   *)
(* hold the shutdown up, too.                                               *)
DaemonMoves(now, next) ==
    /\ daemon = now
    /\ daemon' = next
    /\ UNCHANGED <<runVars, transport, handler, listener, gauge, errors, client, wire,
                   asked, received, exit>>

Signal == DaemonMoves("up", "draining")

(* Mutant: connections are not waited for.                                  *)
AtOnce == TRUE

NoneServed == transport = "connect" \/ handler \notin {"reading", "serving"}

ShutdownReturns == NoneServed /\ DaemonMoves("draining", "stopped")

ShutdownTimesOut == DaemonMoves("draining", "gaveUp")

(* ListenAndServe returns an error: the process ends without a shutdown.    *)
ServerFails == DaemonMoves("up", "failed")

TaskOver ==
    /\ Down \/ (handler \in {"rejected", "returned"} /\ listener # "listening")
    /\ UNCHANGED taskVars

Admit == Arrive \/ (~Down /\ (RejectRun \/ AcceptRun))

HandlerStep == ~Down /\ (Forward \/ WriteFails \/ StreamEnds)

ListenerStep == ~Down /\ (HearClient \/ HearNothingMore)

CommandStep == ReportError \/ ReportEnd \/ ReportRefused \/ ReportBroken

DaemonStep == Signal \/ ShutdownReturns \/ ShutdownTimesOut \/ ServerFails

TaskNext ==
    \/ Admit
    \/ RunnerMoves \/ HandlerStep \/ ListenerStep \/ NoticeLoss
    \/ SendCancel \/ CloseRequest \/ Vanish
    \/ CommandStep \/ ReportTooLong
    \/ DaemonStep
    \/ TaskOver

TaskSpec == TaskInit /\ [][TaskNext]_taskVars

(* The daemon's goroutines keep running, a lost connection is noticed, and  *)
(* the client's command reads on.  Nobody need cancel, vanish or stop.      *)
FairTaskSpec ==
    /\ TaskSpec
    /\ WF_taskVars(RunnerMoves)
    /\ WF_taskVars(HandlerStep)
    /\ WF_taskVars(ListenerStep)
    /\ WF_taskVars(NoticeLoss)
    /\ WF_taskVars(CommandStep)

-----------------------------------------------------------------------------
(* A client that stays connected is given every event of the run, in order  *)
(* and once, before the handler returns; one that leaves has a prefix.      *)
DeliveredInOrder ==
    /\ IsPrefix(received, sent)
    /\ handler = "returned" /\ client # "gone" => received = sent /\ pc = "closed"

(* The runner outlives its handler only when the client was lost, and then  *)
(* it ends or stays blocked on a channel that nobody drains.                *)
StrandedOnlyByLoss ==
    handler = "returned" /\ pc # "closed" => client = "gone" /\ ctxDone

(* The client's command never takes a stream that was cut for a run that    *)
(* ended: it succeeds only when it was given all events of a run that is    *)
(* over, the last of them an outcome that is no error, whether or not the   *)
(* daemon went away meanwhile; and over Connect it fails only for a reason  *)
(* the daemon gave or because the daemon is gone.                           *)
ExitIsHonest ==
    /\ exit = "ok" => /\ pc = "closed" /\ received = sent
                      /\ Outcome(Last(received)) /\ ~SawError
    /\ exit \notin {"none", "ok"} /\ transport = "connect" =>
         SawError \/ Down \/ handler \in {"idle", "rejected"}

(* A shutdown that reports success has cut no NDJSON call: its client has   *)
(* read the stream to the end or left by itself.                            *)
ShutdownSparesNdjson ==
    daemon = "stopped" /\ transport = "ndjson" => exit # "broken"

(* Whatever the run comes to, a failing tool and a stopping daemon          *)
(* included, the client's command returns, unless it was killed.            *)
ClientReturns == (handler = "serving") ~> (client = "gone")

(* The handler of a served call returns and gives its gauge count back,     *)
(* whatever the client does and whatever becomes of the runner, unless the  *)
(* process ends before.                                                     *)
GaugeDrains == (handler = "serving") ~> (gauge = 0 \/ Down)

(* The runner ends, by itself or with the process, or is stranded by a      *)
(* client that was lost.                                                    *)
RunnerEndsOrStranded ==
    (handler = "serving") ~> (pc = "closed" \/ Down \/ (client = "gone" /\ Stranded))

(* Cancellation is the client's: while the client is connected and has sent *)
(* no cancel message, its run is not cancelled.                             *)
OnlyTheClientCancels ==
    handler = "serving" /\ client # "gone" /\ ctxDone => asked

-----------------------------------------------------------------------------
(* To the runner the handler, the client and the daemon are no more than a  *)
(* consumer and a cancellation: a task is a run of AgentRun.                *)
ImplementsRun == RunSpec

(* What the client's command is given obeys the protocol of RunStream, too, *)
(* up to where it is cut, and the command takes the stream for complete     *)
(* only where the protocol lets it end.                                     *)
ClientStream == INSTANCE RunStream WITH
                  stream <- received, ended <- exit = "ok",
                  Outcomes <- {e \in Events : Outcome(e)}

ClientReadsStream == ClientStream!Spec

(* What the others have left to do: the handler to come to its end, the     *)
(* listener to stop, the context to be cancelled, the client to leave, its  *)
(* command to return and the daemon to end.                                 *)
HandlerLeft ==
    CASE handler = "idle" -> 3 [] handler = "reading" -> 2 [] handler = "serving" -> 1
      [] OTHER -> 0

ClientLeft == CASE client = "open" -> 2 [] client = "halfClosed" -> 1 [] client = "gone" -> 0

DaemonLeft == CASE daemon = "up" -> 2 [] daemon = "draining" -> 1 [] OTHER -> 0

Left(open) == IF open THEN 1 ELSE 0

OthersLeft ==
    2 * HandlerLeft + Left(listener = "listening") + Left(~ctxDone) + ClientLeft
      + Left(exit = "none") + DaemonLeft

(* How far a task is from the moment when nothing more happens: the         *)
(* distance of its run, what the others have left, the events on their way. *)
TaskDistance ==
    <<run.maxSteps - step, PlacesLeft, WorkLeft, Len(pend), OthersLeft, Len(sent) - taken>>

TaskNearer ==
    /\ \A i \in 1..6 : TaskDistance'[i] >= 0
    /\ \E i \in 1..6 : /\ TaskDistance'[i] < TaskDistance[i]
                       /\ \A j \in 1..i - 1 : TaskDistance'[j] = TaskDistance[j]

(* Whatever the calls return, the client does and becomes of the daemon,    *)
(* every step of a task brings it nearer its rest: no goroutine undoes or   *)
(* repeats what another did.  Only a search under a spent budget goes on,   *)
(* and a client may repeat itself, which moves nothing.                     *)
TaskMovesOn ==
    [][TaskNearer \/ SearchGoesOn \/ (SendCancel /\ TaskDistance' = TaskDistance)]_taskVars
=============================================================================
