--------------------------- MODULE AgentSessions ---------------------------
(* One session of the agent (internal/agent/agent.go) that several runs use *)
(* at once: a client may start a run on the id of a session that is still   *)
(* running.  A run calls Plan, then Agent.Run and Reflect step by step; the *)
(* model calls in between take as long as they take.  Every access to the   *)
(* session takes the agent's lock on its own, except for the two reads of   *)
(* History in Agent.Run, which take none: the one that looks for the        *)
(* previous answer, and the one that copies History into the request.       *)
(*                                                                          *)
(* Planning and reflection are enabled: without them a run takes fewer of   *)
(* these steps.                                                             *)
EXTENDS Integers, Sequences

CONSTANTS
    Workers,    \* the runs of the session
    None,       \* no plan, no reflection
    FirstCap,   \* capacity History is made with (8 in the code)
    MaxTurns    \* bound: answers of one run (max_steps)

ASSUME SessionWellFormed ==
    None \notin Workers /\ FirstCap \in Nat \ {0} /\ MaxTurns \in Nat \ {0}

VARIABLES
    history,    \* Session.History
    capacity,   \* the capacity of the array behind it
    plan,       \* Session.Plan: the run whose plan it is, or None when blank
    reflection, \* Session.LastReflection
    at,         \* where each run is
    asked,      \* the run is inside Agent.Run, not in the runner's own Plan call
    turns,      \* answers of each run so far
    previous,   \* what kind of message resp.PreviousAssistant is, or None
    header,     \* the slice header as first read: length and capacity
    view,       \* how many messages of History the run's request carries, or Torn
    cached,     \* history: how many plans were cached, 2 standing for more
    raced       \* history: a run began to plan while another was planning

sessionVars == <<history, capacity, plan, reflection, at, asked, turns, previous,
                 header, view, cached, raced>>

Torn == 0 - 1

NoHeader == [len |-> 0, cap |-> 0]

Messages == [by : Workers, kind : {"user", "assistant", "reflection"}, turn : 1..MaxTurns]

Places == {"plan", "planning", "compose", "gather", "copy", "ask", "reflect", "noting", "next", "stopped"}

SessionTypeOK ==
    /\ history \in Seq(Messages)
    /\ capacity \in Nat /\ Len(history) <= capacity
    /\ plan \in Workers \cup {None}
    /\ reflection = None \/ reflection \in Messages
    /\ at \in [Workers -> Places]
    /\ asked \in [Workers -> BOOLEAN]
    /\ turns \in [Workers -> 0..MaxTurns]
    /\ previous \in [Workers -> {None, "assistant", "reflection"}]
    /\ header \in [Workers -> [len : Nat, cap : Nat]]
    /\ view \in [Workers -> Nat \cup {Torn}]
    /\ cached \in 0..2
    /\ raced \in BOOLEAN

SessionInit ==
    /\ history = <<>> /\ capacity = FirstCap
    /\ plan = None /\ reflection = None
    /\ at = [w \in Workers |-> "plan"]
    /\ asked = [w \in Workers |-> FALSE]
    /\ turns = [w \in Workers |-> 0]
    /\ previous = [w \in Workers |-> None]
    /\ header = [w \in Workers |-> NoHeader]
    /\ view = [w \in Workers |-> 0]
    /\ cached = 0
    /\ raced = FALSE

-----------------------------------------------------------------------------
At(w, place) == at[w] = place

Move(w, place) == at' = [at EXCEPT ![w] = place]

Message(w, kind, n) == [by |-> w, kind |-> kind, turn |-> n]

(* Mutant: the newest messages come first.                                  *)
PutMessagesFirst(ms) == history' = ms \o history /\ capacity' = 2 * Len(history')

(* append: a longer array replaces the one that is full.                    *)
AddMessages(ms) ==
    LET needed == Len(history) + Len(ms)
    IN  /\ history' = history \o ms
        /\ capacity' = IF needed <= capacity THEN capacity
                       ELSE IF needed > 2 * capacity THEN needed ELSE 2 * capacity

(* Plan returns: to the runner, which goes on to its first step, or to      *)
(* Agent.Run, which composes its request.                                   *)
PlanReturns(w) ==
    IF asked[w] THEN Move(w, "compose") /\ UNCHANGED asked
    ELSE Move(w, "plan") /\ asked' = [asked EXCEPT ![w] = TRUE]

PlanCached(w) ==
    /\ At(w, "plan")
    /\ plan # None
    /\ PlanReturns(w)
    /\ UNCHANGED <<history, capacity, plan, reflection, turns, previous, header, view, cached, raced>>

(* Mutant: the cached plan is not looked at.                                *)
PlanAlways(w) ==
    /\ At(w, "plan")
    /\ Move(w, "planning")
    /\ raced' = (raced \/ \E v \in Workers : At(v, "planning"))
    /\ UNCHANGED <<history, capacity, plan, reflection, asked, turns, previous, header, view, cached>>

StartPlanning(w) ==
    /\ At(w, "plan")
    /\ plan = None
    /\ Move(w, "planning")
    /\ raced' = (raced \/ \E v \in Workers : At(v, "planning"))
    /\ UNCHANGED <<history, capacity, plan, reflection, asked, turns, previous, header, view, cached>>

(* The model's plan is cached as it comes, blank or not.                    *)
SetPlan(w) ==
    /\ At(w, "planning")
    /\ PlanReturns(w)
    /\ \/ plan' = w /\ cached' = IF cached = 0 THEN 1 ELSE 2
       \/ plan' = None /\ UNCHANGED cached
    /\ UNCHANGED <<history, capacity, reflection, turns, previous, header, view, raced>>

(* A model is not resolved or its call fails: the runner calls again with   *)
(* another model, or ends the run.  Nothing of the call stays behind.       *)
CallAgain(w) == IF At(w, "reflect") THEN "reflect" ELSE "plan"

CallFails(w) ==
    /\ at[w] \in {"plan", "planning", "ask", "reflect"}
    /\ Move(w, "stopped") \/ Move(w, CallAgain(w))
    /\ view' = [view EXCEPT ![w] = 0]
    /\ UNCHANGED <<history, capacity, plan, reflection, asked, turns, previous, header, cached, raced>>

(* Agent.Run looks for the last message of the assistant's role, and        *)
(* critiques are stored with that role, too.                                *)
Backwards == {i \in DOMAIN history : history[i].kind # "user"}

LastAssistant == {i \in Backwards : \A j \in Backwards : j <= i}

LookBack(w) ==
    /\ At(w, "compose")
    /\ \/ Backwards = {} /\ previous' = [previous EXCEPT ![w] = None]
       \/ \E i \in LastAssistant : previous' = [previous EXCEPT ![w] = history[i].kind]
    /\ Move(w, "gather")
    /\ UNCHANGED <<history, capacity, plan, reflection, asked, turns, header, view, cached, raced>>

(* Then it reads History without the lock: the words of the slice header    *)
(* are read one after the other, while others may append.                   *)
ReadHeader(w) ==
    /\ At(w, "gather")
    /\ header' = [header EXCEPT ![w] = [len |-> Len(history), cap |-> capacity]]
    /\ Move(w, "copy")
    /\ UNCHANGED <<history, capacity, plan, reflection, asked, turns, previous, view, cached, raced>>

(* Mutant: only the first request of a run carries the history.             *)
CopyOnce(w) ==
    /\ At(w, "copy")
    /\ view' = [view EXCEPT ![w] = IF turns[w] > 0 THEN 0 ELSE Len(history)]
    /\ header' = [header EXCEPT ![w] = NoHeader]
    /\ Move(w, "ask")
    /\ UNCHANGED <<history, capacity, plan, reflection, asked, turns, previous, cached, raced>>

(* The length is the old or the new one.  A new length with the old array,  *)
(* which it exceeds, reads memory that never was part of History.           *)
CopyHistory(w) ==
    /\ At(w, "copy")
    /\ \E n \in {header[w].len, Len(history)} \cup
                IF header[w].cap # capacity THEN {Torn} ELSE {} :
         view' = [view EXCEPT ![w] = n]
    /\ header' = [header EXCEPT ![w] = NoHeader]
    /\ Move(w, "ask")
    /\ UNCHANGED <<history, capacity, plan, reflection, asked, turns, previous, cached, raced>>

(* The answer came: the question and the answer enter the history together. *)
(* Mutant: the answer comes before the question.                            *)
AnswerFirst(w, n) == <<Message(w, "assistant", n), Message(w, "user", n)>>

Turn(w, n) == <<Message(w, "user", n), Message(w, "assistant", n)>>

AppendHistory(w) ==
    /\ At(w, "ask")
    /\ turns' = [turns EXCEPT ![w] = @ + 1]
    /\ AddMessages(Turn(w, turns'[w]))
    /\ Move(w, "reflect")
    /\ view' = [view EXCEPT ![w] = 0]
    /\ UNCHANGED <<plan, reflection, asked, previous, header, cached, raced>>

(* The critique came: it is stored, then appended, under two locks.         *)
SetReflection(w) ==
    /\ At(w, "reflect")
    /\ reflection' = Message(w, "reflection", turns[w])
    /\ Move(w, "noting")
    /\ UNCHANGED <<history, capacity, plan, asked, turns, previous, header, view, cached, raced>>

AppendReflection(w) ==
    /\ At(w, "noting")
    /\ AddMessages(<<Message(w, "reflection", turns[w])>>)
    /\ Move(w, "next")
    /\ UNCHANGED <<plan, reflection, asked, turns, previous, header, view, cached, raced>>

(* The runner takes another step, or the run is over.                       *)
(* Mutant: without a limit.                                                 *)
NextStepAlways(w) ==
    /\ At(w, "next")
    /\ Move(w, "plan")
    /\ UNCHANGED <<history, capacity, plan, reflection, asked, turns, previous, header, view, cached, raced>>

NextStep(w) ==
    /\ At(w, "next")
    /\ Move(w, "stopped") \/ (turns[w] < MaxTurns /\ Move(w, "plan"))
    /\ previous' = [previous EXCEPT ![w] = None]
    /\ UNCHANGED <<history, capacity, plan, reflection, asked, turns, header, view, cached, raced>>

WorkerStep(w) ==
    \/ PlanCached(w) \/ StartPlanning(w) \/ SetPlan(w) \/ CallFails(w)
    \/ LookBack(w) \/ ReadHeader(w) \/ CopyHistory(w) \/ AppendHistory(w)
    \/ SetReflection(w) \/ AppendReflection(w) \/ NextStep(w)

AllStopped == (\A w \in Workers : At(w, "stopped")) /\ UNCHANGED sessionVars

SessionNext == (\E w \in Workers : WorkerStep(w)) \/ AllStopped

SessionSpec == SessionInit /\ [][SessionNext]_sessionVars

-----------------------------------------------------------------------------
(* However runs interleave, each question in the history is followed at     *)
(* once by the answer to it: the two are appended under one lock.           *)
TurnsStayWhole ==
    \A i \in DOMAIN history :
      history[i].kind = "user" =>
        i < Len(history) /\ history[i + 1] = [history[i] EXCEPT !.kind = "assistant"]

(* A run's messages keep their order in the shared history: its critique of *)
(* a turn comes after the answer and before its next question.              *)
Place(m) == 2 * m.turn + (IF m.kind = "reflection" THEN 1 ELSE 0)

OwnOrderIsKept ==
    \A i, j \in DOMAIN history :
      i < j /\ history[i].by = history[j].by => Place(history[i]) <= Place(history[j])

(* A run's request carries everything the run itself has said so far,       *)
(* unless the unlocked read was torn.                                       *)
OwnPastIsSeen ==
    \A w \in Workers : At(w, "ask") /\ view[w] # Torn =>
      \A i \in DOMAIN history : history[i].by = w => i <= view[w]

(* As long as no two runs plan at the same time, the session is planned     *)
(* once, over all its runs, steps and retries.                              *)
OnePlanUnlessRaced == ~raced => cached <= 1

(* The self-diff that the critic is shown is between the previous answer    *)
(* and the current one: what the step compares with is an answer.           *)
SelfDiffComparesAnswers ==
    \A w \in Workers : At(w, "reflect") /\ previous[w] # None => previous[w] = "assistant"
=============================================================================
