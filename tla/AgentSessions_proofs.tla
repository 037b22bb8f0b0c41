------------------------ MODULE AgentSessions_proofs ------------------------
(* Proofs about a session that runs share, for any number of runs and of    *)
(* steps: types, the order of the history, what a request carries of it,    *)
(* and how often the session is planned.                                    *)
EXTENDS AgentSessions, SequenceTheorems, TLAPS

(* A run that has yet to answer has a turn left, and one whose answer is    *)
(* being reviewed has taken one.                                            *)
TurnsLeft ==
    \A w \in Workers :
      /\ at[w] \in {"plan", "planning", "compose", "gather", "copy", "ask"} => turns[w] < MaxTurns
      /\ at[w] \in {"reflect", "noting"} => turns[w] >= 1

SessionInv == SessionTypeOK /\ TurnsLeft

(* What a step of run w does to the history: nothing, or it appends a turn  *)
(* or a critique of w.                                                      *)
SameHistory == history' = history /\ turns' = turns /\ capacity' = capacity

AddsTurn(w) ==
    /\ at[w] = "ask" /\ turns' = [turns EXCEPT ![w] = @ + 1]
    /\ AddMessages(Turn(w, turns'[w]))

AddsCritique(w) ==
    /\ at[w] = "noting" /\ turns' = turns
    /\ AddMessages(<<Message(w, "reflection", turns[w])>>)

LEMMA HistorySteps ==
    ASSUME NEW w \in Workers, WorkerStep(w)
    PROVE  SameHistory \/ AddsTurn(w) \/ AddsCritique(w)
BY DEF WorkerStep, PlanCached, StartPlanning, SetPlan, CallFails, LookBack, ReadHeader, CopyHistory,
       AppendHistory, SetReflection, AppendReflection, NextStep, SameHistory, AddsTurn, AddsCritique, At

LEMMA TurnFacts ==
    ASSUME SessionInv, NEW w \in Workers, at[w] = "ask"
    PROVE  LET n == turns[w] + 1
           IN  /\ n \in 1..MaxTurns
               /\ Turn(w, n) \in Seq(Messages) /\ Len(Turn(w, n)) = 2
               /\ Turn(w, n)[1] = Message(w, "user", n) /\ Turn(w, n)[2] = Message(w, "assistant", n)
<1> DEFINE n == turns[w] + 1
<1>1. turns[w] \in 0..MaxTurns /\ turns[w] < MaxTurns /\ MaxTurns \in Nat
  BY SessionWellFormed DEF SessionInv, SessionTypeOK, TurnsLeft
<1>2. n \in 1..MaxTurns
  BY <1>1
<1> HIDE DEF n
<1>3. Message(w, "user", n) \in Messages /\ Message(w, "assistant", n) \in Messages
  BY <1>2 DEF Messages, Message
<1>4. /\ Turn(w, n) \in Seq(Messages) /\ Len(Turn(w, n)) = 2
      /\ Turn(w, n)[1] = Message(w, "user", n) /\ Turn(w, n)[2] = Message(w, "assistant", n)
  BY <1>3 DEF Turn
<1> QED
  BY <1>2, <1>4 DEF n

LEMMA CritiqueFacts ==
    ASSUME SessionInv, NEW w \in Workers, at[w] \in {"reflect", "noting"}
    PROVE  LET m == Message(w, "reflection", turns[w])
           IN  m \in Messages /\ <<m>> \in Seq(Messages) /\ Len(<<m>>) = 1 /\ <<m>>[1] = m
<1>1. turns[w] \in 1..MaxTurns
  BY SessionWellFormed DEF SessionInv, SessionTypeOK, TurnsLeft
<1>2. Message(w, "reflection", turns[w]) \in Messages
  BY <1>1 DEF Messages, Message
<1> QED
  BY <1>2

LEMMA Appended ==
    ASSUME SessionTypeOK, NEW ms \in Seq(Messages), AddMessages(ms)
    PROVE  /\ history' \in Seq(Messages) /\ Len(history') = Len(history) + Len(ms)
           /\ capacity' \in Nat /\ Len(history') <= capacity'
           /\ \A i \in 1..Len(history) : history'[i] = history[i]
           /\ \A i \in 1..Len(ms) : history'[Len(history) + i] = ms[i]
<1>1. history \in Seq(Messages) /\ capacity \in Nat /\ Len(history) \in Nat /\ Len(ms) \in Nat
  BY DEF SessionTypeOK
<1>2. history' = history \o ms
  BY DEF AddMessages
<1>3. /\ history' \in Seq(Messages) /\ Len(history') = Len(history) + Len(ms)
      /\ \A i \in 1..(Len(history) + Len(ms)) :
           history'[i] = IF i <= Len(history) THEN history[i] ELSE ms[i - Len(history)]
  BY <1>1, <1>2, ConcatProperties
<1>4. \A i \in 1..Len(history) : history'[i] = history[i]
  BY <1>1, <1>3
<1>5. \A i \in 1..Len(ms) : history'[Len(history) + i] = ms[i]
  <2> TAKE i \in 1..Len(ms)
  <2>1. Len(history) + i \in 1..(Len(history) + Len(ms)) /\ ~(Len(history) + i <= Len(history))
        /\ (Len(history) + i) - Len(history) = i
    BY <1>1
  <2> QED
    BY <1>3, <2>1
<1>6. capacity' \in Nat /\ Len(history') <= capacity'
  <2>1. capacity' = IF Len(history) + Len(ms) <= capacity THEN capacity
                    ELSE IF Len(history) + Len(ms) > 2 * capacity THEN Len(history) + Len(ms)
                    ELSE 2 * capacity
    BY DEF AddMessages
  <2> QED
    BY <1>1, <1>3, <2>1
<1> QED
  BY <1>3, <1>4, <1>5, <1>6

LEMMA HistoryTypeStep ==
    ASSUME SessionInv, NEW w \in Workers, WorkerStep(w)
    PROVE  /\ history' \in Seq(Messages)
           /\ capacity' \in Nat /\ Len(history') <= capacity'
           /\ turns' \in [Workers -> 0..MaxTurns]
<1>1. SessionTypeOK
  BY DEF SessionInv
<1>2. CASE SameHistory
  BY <1>1, <1>2 DEF SameHistory, SessionTypeOK
<1>3. CASE AddsTurn(w)
  <2>1. turns[w] + 1 \in 1..MaxTurns /\ Turn(w, turns[w] + 1) \in Seq(Messages)
    BY <1>3, TurnFacts DEF AddsTurn
  <2>2. turns'[w] = turns[w] + 1 /\ turns' \in [Workers -> 0..MaxTurns]
    BY <1>1, <1>3, <2>1 DEF AddsTurn, SessionTypeOK
  <2> QED
    BY <1>1, <1>3, <2>1, <2>2, Appended DEF AddsTurn
<1>4. CASE AddsCritique(w)
  <2>1. <<Message(w, "reflection", turns[w])>> \in Seq(Messages)
    BY <1>4, CritiqueFacts DEF AddsCritique
  <2> QED
    BY <1>1, <1>4, <2>1, Appended DEF AddsCritique, SessionTypeOK
<1> QED
  BY <1>2, <1>3, <1>4, HistorySteps

(* Where a run is, and the plan.                                            *)
LEMMA ControlTypeStep ==
    ASSUME SessionInv, NEW w \in Workers, WorkerStep(w)
    PROVE  /\ plan' \in Workers \cup {None}
           /\ at' \in [Workers -> Places]
           /\ asked' \in [Workers -> BOOLEAN]
           /\ cached' \in 0..2
<1> USE DEF SessionInv, SessionTypeOK, Places, Move, At, PlanReturns, CallAgain
<1>1. plan' \in Workers \cup {None} /\ cached' \in 0..2
  BY DEF WorkerStep, PlanCached, StartPlanning, SetPlan, CallFails, LookBack, ReadHeader, CopyHistory,
         AppendHistory, SetReflection, AppendReflection, NextStep
<1>2. at' \in [Workers -> Places]
  BY DEF WorkerStep, PlanCached, StartPlanning, SetPlan, CallFails, LookBack, ReadHeader, CopyHistory,
         AppendHistory, SetReflection, AppendReflection, NextStep
<1>3. asked' = asked \/ asked' = [asked EXCEPT ![w] = TRUE]
  BY DEF WorkerStep, PlanCached, StartPlanning, SetPlan, CallFails, LookBack, ReadHeader, CopyHistory,
         AppendHistory, SetReflection, AppendReflection, NextStep
<1>4. asked' \in [Workers -> BOOLEAN]
  BY <1>3
<1> QED
  BY <1>1, <1>2, <1>4

(* What a run holds of the session.                                         *)
LEMMA HoldingsTypeStep ==
    ASSUME SessionInv, NEW w \in Workers, WorkerStep(w)
    PROVE  /\ reflection' = None \/ reflection' \in Messages
           /\ previous' \in [Workers -> {None, "assistant", "reflection"}]
           /\ header' \in [Workers -> [len : Nat, cap : Nat]]
           /\ view' \in [Workers -> Nat \cup {Torn}]
<1>0. /\ history \in Seq(Messages) /\ Len(history) \in Nat /\ capacity \in Nat
      /\ reflection = None \/ reflection \in Messages
      /\ previous \in [Workers -> {None, "assistant", "reflection"}]
      /\ header \in [Workers -> [len : Nat, cap : Nat]]
      /\ view \in [Workers -> Nat \cup {Torn}]
  BY DEF SessionInv, SessionTypeOK
<1>1. reflection' = None \/ reflection' \in Messages
  <2>1. reflection' = reflection \/ (At(w, "reflect") /\ reflection' = Message(w, "reflection", turns[w]))
    BY DEF WorkerStep, PlanCached, StartPlanning, SetPlan, CallFails, LookBack, ReadHeader, CopyHistory,
           AppendHistory, SetReflection, AppendReflection, NextStep
  <2> QED
    BY <1>0, <2>1, CritiqueFacts DEF At
<1>2. previous' \in [Workers -> {None, "assistant", "reflection"}]
  <2>1. \A i \in Backwards : history[i].kind \in {"assistant", "reflection"}
    <3>1. \A i \in DOMAIN history : history[i] \in Messages
      BY <1>0
    <3> QED
      BY <3>1 DEF Backwards, Messages
  <2>2. \/ previous' = previous
        \/ previous' = [previous EXCEPT ![w] = None]
        \/ \E i \in Backwards : previous' = [previous EXCEPT ![w] = history[i].kind]
    BY DEF WorkerStep, PlanCached, StartPlanning, SetPlan, CallFails, LookBack, ReadHeader, CopyHistory,
           AppendHistory, SetReflection, AppendReflection, NextStep, LastAssistant
  <2> QED
    BY <1>0, <2>1, <2>2
<1>3. header' \in [Workers -> [len : Nat, cap : Nat]]
  <2>1. NoHeader \in [len : Nat, cap : Nat] /\ [len |-> Len(history), cap |-> capacity] \in [len : Nat, cap : Nat]
    BY <1>0 DEF NoHeader
  <2>2. \/ header' = header
        \/ header' = [header EXCEPT ![w] = NoHeader]
        \/ header' = [header EXCEPT ![w] = [len |-> Len(history), cap |-> capacity]]
    BY DEF WorkerStep, PlanCached, StartPlanning, SetPlan, CallFails, LookBack, ReadHeader, CopyHistory,
           AppendHistory, SetReflection, AppendReflection, NextStep
  <2> QED
    BY <1>0, <2>1, <2>2
<1>4. view' \in [Workers -> Nat \cup {Torn}]
  <2>1. \/ view' = view
        \/ view' = [view EXCEPT ![w] = 0]
        \/ \E n \in {header[w].len, Len(history), Torn} : view' = [view EXCEPT ![w] = n]
    BY DEF WorkerStep, PlanCached, StartPlanning, SetPlan, CallFails, LookBack, ReadHeader, CopyHistory,
           AppendHistory, SetReflection, AppendReflection, NextStep
  <2>2. header[w].len \in Nat
    BY <1>0
  <2>3. ASSUME NEW n \in Nat \cup {Torn}
        PROVE  [view EXCEPT ![w] = n] \in [Workers -> Nat \cup {Torn}]
    BY <1>0
  <2>4. {header[w].len, Len(history), Torn} \subseteq Nat \cup {Torn} /\ 0 \in Nat \cup {Torn}
    BY <1>0, <2>2
  <2> QED
    BY <1>0, <2>1, <2>3, <2>4, Zenon
<1> QED
  BY <1>1, <1>2, <1>3, <1>4

LEMMA TurnsLeftStep ==
    ASSUME SessionInv, NEW w \in Workers, WorkerStep(w)
    PROVE  TurnsLeft'
<1>0. /\ at \in [Workers -> Places] /\ turns \in [Workers -> 0..MaxTurns] /\ MaxTurns \in Nat
  BY SessionWellFormed DEF SessionInv, SessionTypeOK
<1> SUFFICES ASSUME NEW v \in Workers
             PROVE  /\ at'[v] \in {"plan", "planning", "compose", "gather", "copy", "ask"} => turns'[v] < MaxTurns
                    /\ at'[v] \in {"reflect", "noting"} => turns'[v] >= 1
  BY DEF TurnsLeft
<1>1. CASE v # w
  <2>1. at'[v] = at[v] /\ turns'[v] = turns[v]
    BY <1>0, <1>1 DEF WorkerStep, PlanCached, StartPlanning, SetPlan, CallFails, LookBack, ReadHeader,
       CopyHistory, AppendHistory, SetReflection, AppendReflection, NextStep, Move, At, PlanReturns
  <2> QED
    BY <2>1 DEF SessionInv, TurnsLeft
<1>2. CASE v = w
  <2>1. CASE AppendHistory(w)
    BY <1>0, <1>2, <2>1 DEF AppendHistory, Move
  <2>2. CASE ~AppendHistory(w)
    <3>1. turns' = turns
      BY <2>2 DEF WorkerStep, PlanCached, StartPlanning, SetPlan, CallFails, LookBack, ReadHeader,
         CopyHistory, SetReflection, AppendReflection, NextStep
    <3> QED
      BY <1>0, <1>2, <2>2, <3>1 DEF SessionInv, TurnsLeft, WorkerStep, PlanCached, StartPlanning,
         SetPlan, CallFails, LookBack, ReadHeader, CopyHistory, SetReflection, AppendReflection,
         NextStep, Move, At, PlanReturns, CallAgain, Places
  <2> QED
    BY <2>1, <2>2
<1> QED
  BY <1>1, <1>2

LEMMA SessionInvStep == SessionInv /\ [SessionNext]_sessionVars => SessionInv'
<1> SUFFICES ASSUME SessionInv, [SessionNext]_sessionVars
             PROVE  SessionInv'
  OBVIOUS
<1>1. ASSUME NEW w \in Workers, WorkerStep(w)
      PROVE  SessionInv'
  <2>1. raced' \in BOOLEAN
    <3>1. raced' = raced \/ raced' = (raced \/ \E v \in Workers : At(v, "planning"))
      BY <1>1 DEF WorkerStep, PlanCached, StartPlanning, SetPlan, CallFails, LookBack, ReadHeader,
         CopyHistory, AppendHistory, SetReflection, AppendReflection, NextStep
    <3>2. raced \in BOOLEAN
      BY DEF SessionInv, SessionTypeOK
    <3> QED
      BY <3>1, <3>2, Zenon
  <2> QED
    BY <1>1, <2>1, HistoryTypeStep, ControlTypeStep, HoldingsTypeStep, TurnsLeftStep
       DEF SessionInv, SessionTypeOK
<1>2. CASE UNCHANGED sessionVars
  BY <1>2 DEF sessionVars, SessionInv, SessionTypeOK, TurnsLeft
<1> QED
  BY <1>1, <1>2 DEF SessionNext, AllStopped

LEMMA SessionInvHolds == SessionSpec => []SessionInv
<1>1. SessionInit => SessionInv
  <2> SUFFICES ASSUME SessionInit
               PROVE  SessionInv
    OBVIOUS
  <2>1. history \in Seq(Messages) /\ capacity \in Nat /\ Len(history) <= capacity
    BY SessionWellFormed DEF SessionInit
  <2>2. /\ plan \in Workers \cup {None} /\ reflection = None /\ cached \in 0..2
        /\ previous \in [Workers -> {None, "assistant", "reflection"}]
    BY DEF SessionInit
  <2>3. asked \in [Workers -> BOOLEAN] /\ raced \in BOOLEAN
    BY Zenon DEF SessionInit
  <2>4. /\ at \in [Workers -> Places] /\ turns \in [Workers -> 0..MaxTurns]
        /\ header \in [Workers -> [len : Nat, cap : Nat]] /\ view \in [Workers -> Nat \cup {Torn}]
    BY SessionWellFormed DEF SessionInit, Places, NoHeader
  <2>5. TurnsLeft
    <3>1. \A w \in Workers : at[w] = "plan" /\ turns[w] = 0
      BY DEF SessionInit
    <3>2. 0 < MaxTurns
      BY SessionWellFormed
    <3> QED
      BY <3>1, <3>2 DEF TurnsLeft
  <2> QED
    BY <2>1, <2>2, <2>3, <2>4, <2>5 DEF SessionInv, SessionTypeOK
<1> QED
  BY <1>1, SessionInvStep, PTL DEF SessionSpec

(* The session and the runs that share it have their types.                 *)
THEOREM SessionTypeCorrect == SessionSpec => []SessionTypeOK
BY SessionInvHolds, PTL DEF SessionInv
-----------------------------------------------------------------------------
(* A step of a run that appends appends what HistorySteps says, in terms of *)
(* the messages: where the history was, it stays; behind it come the new    *)
(* ones.                                                                    *)
LEMMA HistoryGrows ==
    ASSUME SessionInv, NEW w \in Workers, WorkerStep(w)
    PROVE  /\ history \in Seq(Messages) /\ history' \in Seq(Messages)
           /\ Len(history) \in Nat /\ Len(history') \in Nat
           /\ Len(history') >= Len(history)
           /\ \A i \in 1..Len(history) : history'[i] = history[i]
           /\ \/ history' = history /\ turns' = turns
              \/ /\ at[w] = "ask" /\ turns' = [turns EXCEPT ![w] = @ + 1]
                 /\ Len(history') = Len(history) + 2
                 /\ history'[Len(history) + 1] = Message(w, "user", turns[w] + 1)
                 /\ history'[Len(history) + 2] = Message(w, "assistant", turns[w] + 1)
              \/ /\ at[w] = "noting" /\ turns' = turns
                 /\ Len(history') = Len(history) + 1
                 /\ history'[Len(history) + 1] = Message(w, "reflection", turns[w])
<1>0. /\ history \in Seq(Messages) /\ Len(history) \in Nat /\ turns \in [Workers -> 0..MaxTurns]
      /\ SessionTypeOK
  BY DEF SessionInv, SessionTypeOK
<1>1. CASE SameHistory
  BY <1>0, <1>1 DEF SameHistory
<1>2. CASE AddsTurn(w)
  <2> DEFINE n == turns[w] + 1
             ms == Turn(w, n)
  <2>1. /\ ms \in Seq(Messages) /\ Len(ms) = 2
        /\ ms[1] = Message(w, "user", n) /\ ms[2] = Message(w, "assistant", n)
    BY <1>2, TurnFacts DEF AddsTurn
  <2>2. turns'[w] = n
    BY <1>0, <1>2 DEF AddsTurn
  <2>3. AddMessages(ms)
    BY <1>2, <2>2 DEF AddsTurn
  <2> HIDE DEF ms, n
  <2>4. /\ history' \in Seq(Messages) /\ Len(history') = Len(history) + Len(ms)
        /\ \A i \in 1..Len(history) : history'[i] = history[i]
        /\ \A i \in 1..Len(ms) : history'[Len(history) + i] = ms[i]
    BY <1>0, <2>1, <2>3, Appended
  <2>5. history'[Len(history) + 1] = Message(w, "user", n)
    BY <2>1, <2>4
  <2>6. history'[Len(history) + 2] = Message(w, "assistant", n)
    BY <2>1, <2>4
  <2> QED
    BY <1>0, <1>2, <2>1, <2>4, <2>5, <2>6 DEF AddsTurn, n
<1>3. CASE AddsCritique(w)
  <2> DEFINE ms == <<Message(w, "reflection", turns[w])>>
  <2>1. ms \in Seq(Messages) /\ Len(ms) = 1 /\ ms[1] = Message(w, "reflection", turns[w])
    BY <1>3, CritiqueFacts DEF AddsCritique
  <2>2. AddMessages(ms)
    BY <1>3 DEF AddsCritique
  <2> HIDE DEF ms
  <2>3. /\ history' \in Seq(Messages) /\ Len(history') = Len(history) + Len(ms)
        /\ \A i \in 1..Len(history) : history'[i] = history[i]
        /\ \A i \in 1..Len(ms) : history'[Len(history) + i] = ms[i]
    BY <1>0, <2>1, <2>2, Appended
  <2>4. history'[Len(history) + 1] = Message(w, "reflection", turns[w])
    BY <2>1, <2>3
  <2> QED
    BY <1>0, <1>3, <2>1, <2>3, <2>4 DEF AddsCritique
<1> QED
  BY <1>1, <1>2, <1>3, HistorySteps

(* The fields of a message.                                                 *)
LEMMA MessageFields ==
    ASSUME NEW w, NEW k, NEW n
    PROVE  /\ Message(w, k, n).by = w /\ Message(w, k, n).kind = k /\ Message(w, k, n).turn = n
           /\ [Message(w, k, n) EXCEPT !.kind = "assistant"] = Message(w, "assistant", n)
BY DEF Message

LEMMA TurnsStayWholeStep ==
    SessionInv /\ TurnsStayWhole /\ [SessionNext]_sessionVars => TurnsStayWhole'
<1> SUFFICES ASSUME SessionInv, TurnsStayWhole, [SessionNext]_sessionVars
             PROVE  TurnsStayWhole'
  OBVIOUS
<1>1. ASSUME NEW w \in Workers, WorkerStep(w), NEW i \in DOMAIN history', history'[i].kind = "user"
      PROVE  i < Len(history') /\ history'[i + 1] = [history'[i] EXCEPT !.kind = "assistant"]
  <2> DEFINE n == Len(history)
  <2>1. /\ history \in Seq(Messages) /\ n \in Nat /\ Len(history') \in Nat /\ Len(history') >= n
        /\ i \in 1..Len(history') /\ \A j \in 1..n : history'[j] = history[j]
    BY <1>1, HistoryGrows
  <2>2. CASE i <= n
    <3>1. i \in DOMAIN history /\ i \in 1..n /\ history[i].kind = "user"
      BY <1>1, <2>1, <2>2
    <3>2. i < n /\ history[i + 1] = [history[i] EXCEPT !.kind = "assistant"]
      BY <3>1 DEF TurnsStayWhole
    <3>3. i + 1 \in 1..n
      BY <2>1, <3>1, <3>2
    <3> QED
      BY <2>1, <3>1, <3>2, <3>3
  <2>3. CASE i > n
    <3>1. history' # history
      BY <2>1, <2>3
    <3>2. CASE at[w] = "ask"
      <4>1. /\ Len(history') = n + 2
            /\ history'[n + 1] = Message(w, "user", turns[w] + 1)
            /\ history'[n + 2] = Message(w, "assistant", turns[w] + 1)
        BY <1>1, <3>1, <3>2, HistoryGrows
      <4>2. i # n + 2
        BY <1>1, <4>1, MessageFields
      <4>3. i = n + 1
        BY <2>1, <2>3, <4>1, <4>2
      <4> QED
        BY <2>1, <4>1, <4>3, MessageFields
    <3>3. CASE at[w] = "noting"
      <4>1. Len(history') = n + 1 /\ history'[n + 1].kind = "reflection"
        BY <1>1, <3>1, <3>3, HistoryGrows, MessageFields
      <4>2. i = n + 1
        BY <2>1, <2>3, <4>1
      <4> QED
        BY <1>1, <4>1, <4>2
    <3> QED
      BY <1>1, <3>1, <3>2, <3>3, HistoryGrows
  <2> QED
    BY <2>1, <2>2, <2>3
<1>2. CASE UNCHANGED sessionVars
  BY <1>2 DEF sessionVars, TurnsStayWhole
<1>3. (\E w \in Workers : WorkerStep(w)) \/ UNCHANGED sessionVars
  BY DEF SessionNext, AllStopped
<1> QED
  BY <1>1, <1>2, <1>3 DEF TurnsStayWhole

(* Whatever the other runs of the session do, a question is followed by its *)
(* answer.                                                                  *)
THEOREM TurnsAreWhole == SessionSpec => []TurnsStayWhole
<1>1. SessionInit => TurnsStayWhole
  BY DEF SessionInit, TurnsStayWhole
<1> QED
  BY <1>1, SessionInvHolds, TurnsStayWholeStep, PTL DEF SessionSpec

-----------------------------------------------------------------------------
(* No message is of a turn that its run has not taken.                      *)
PastTurns == \A i \in 1..Len(history) : history[i].turn <= turns[history[i].by]

Ordered ==
    \A i, j \in 1..Len(history) :
      i < j /\ history[i].by = history[j].by => Place(history[i]) <= Place(history[j])

LEMMA PlaceFacts ==
    ASSUME NEW m \in Messages
    PROVE  /\ m.by \in Workers /\ m.turn \in Nat /\ Place(m) \in Nat
           /\ Place(m) <= 2 * m.turn + 1
<1>1. m.by \in Workers /\ m.turn \in 1..MaxTurns
  BY DEF Messages
<1>2. m.turn \in Nat
  BY <1>1, SessionWellFormed
<1> QED
  BY <1>1, <1>2 DEF Place

LEMMA PastTurnsStep ==
    ASSUME SessionInv, PastTurns, NEW w \in Workers, WorkerStep(w)
    PROVE  PastTurns'
<1> DEFINE n == Len(history)
<1>0. turns \in [Workers -> 0..MaxTurns] /\ turns' \in [Workers -> 0..MaxTurns] /\ MaxTurns \in Nat
  BY SessionWellFormed, HistoryTypeStep DEF SessionInv, SessionTypeOK
<1>1. \A v \in Workers : turns[v] \in Nat /\ turns'[v] \in Nat /\ turns[v] <= turns'[v]
  <2>1. \A v \in Workers : turns[v] \in Nat /\ turns'[v] \in Nat
    BY <1>0
  <2>2. turns' = turns \/ turns' = [turns EXCEPT ![w] = @ + 1]
    BY HistoryGrows
  <2> QED
    BY <1>0, <2>1, <2>2
<1>2. ASSUME NEW i \in 1..Len(history')
      PROVE  history'[i].turn <= turns'[history'[i].by]
  <2>0. history \in Seq(Messages) /\ n \in Nat /\ Len(history') \in Nat
    BY HistoryGrows
  <2>1. CASE i <= n
    <3>1. i \in 1..n /\ history'[i] = history[i]
      BY <2>0, <2>1, HistoryGrows
    <3>2. history[i] \in Messages /\ history[i].turn <= turns[history[i].by]
      BY <2>0, <3>1 DEF PastTurns
    <3>3. history[i].by \in Workers /\ history[i].turn \in Nat
      BY <3>2, PlaceFacts
    <3> QED
      BY <1>1, <3>1, <3>2, <3>3
  <2>2. CASE i > n
    <3>1. CASE history' = history
      BY <2>0, <2>2, <3>1
    <3>2. CASE at[w] = "ask" /\ history' # history
      <4>1. Len(history') = n + 2 /\ turns' = [turns EXCEPT ![w] = @ + 1]
        BY <3>2, HistoryGrows
      <4>2. history'[i].by = w /\ history'[i].turn = turns[w] + 1
        <5>1. i = n + 1 \/ i = n + 2
          BY <2>0, <2>2, <4>1
        <5> QED
          BY <3>2, <5>1, HistoryGrows, MessageFields
      <4>3. turns'[w] = turns[w] + 1
        BY <1>0, <4>1
      <4> QED
        BY <1>1, <4>2, <4>3
    <3>3. CASE at[w] = "noting" /\ history' # history
      <4>1. Len(history') = n + 1 /\ turns' = turns
        BY <3>3, HistoryGrows
      <4>2. i = n + 1
        BY <2>0, <2>2, <4>1
      <4>3. history'[i].by = w /\ history'[i].turn = turns[w]
        BY <3>3, <4>2, HistoryGrows, MessageFields
      <4> QED
        BY <1>1, <4>1, <4>3
    <3> QED
      BY <3>1, <3>2, <3>3, HistoryGrows
  <2> QED
    BY <2>0, <2>1, <2>2
<1> QED
  BY <1>2 DEF PastTurns

LEMMA OrderedStep ==
    ASSUME SessionInv, PastTurns, Ordered, NEW w \in Workers, WorkerStep(w)
    PROVE  Ordered'
<1> DEFINE n == Len(history)
<1>0. /\ history \in Seq(Messages) /\ history' \in Seq(Messages) /\ n \in Nat /\ Len(history') \in Nat
      /\ \A i \in 1..n : history'[i] = history[i] /\ history[i] \in Messages
      /\ turns[w] \in Nat
  <2>1. turns[w] \in Nat
    BY SessionWellFormed DEF SessionInv, SessionTypeOK
  <2>2. /\ history \in Seq(Messages) /\ history' \in Seq(Messages) /\ n \in Nat /\ Len(history') \in Nat
        /\ \A i \in 1..n : history'[i] = history[i]
    BY HistoryGrows
  <2> QED
    BY <2>1, <2>2
<1>1. ASSUME NEW i \in 1..n, history[i].by = w
      PROVE  Place(history[i]) \in Nat /\ Place(history[i]) <= 2 * turns[w] + 1
  <2>1. history[i].turn <= turns[w]
    BY <1>1 DEF PastTurns
  <2> QED
    BY <1>0, <2>1, PlaceFacts
<1>2. ASSUME NEW i \in 1..Len(history'), NEW j \in 1..Len(history'), i < j,
             history'[i].by = history'[j].by
      PROVE  Place(history'[i]) <= Place(history'[j])
  <2>1. CASE j <= n
    <3>1. i \in 1..n /\ j \in 1..n
      BY <1>0, <1>2, <2>1
    <3> QED
      BY <1>0, <1>2, <3>1 DEF Ordered
  <2>2. CASE j > n
    <3>1. history' # history
      BY <1>0, <2>2
    <3>2. CASE at[w] = "ask"
      <4>1. /\ Len(history') = n + 2
            /\ history'[n + 1] = Message(w, "user", turns[w] + 1)
            /\ history'[n + 2] = Message(w, "assistant", turns[w] + 1)
        BY <3>1, <3>2, HistoryGrows
      <4>2. Place(history'[n + 1]) = 2 * turns[w] + 2 /\ Place(history'[n + 2]) = 2 * turns[w] + 2
        BY <1>0, <4>1, MessageFields DEF Place
      <4>3. (j = n + 1 \/ j = n + 2) /\ history'[j].by = w /\ Place(history'[j]) = 2 * turns[w] + 2
        BY <1>0, <2>2, <4>1, <4>2, MessageFields
      <4>4. CASE i <= n
        <5>1. i \in 1..n /\ history[i].by = w /\ history'[i] = history[i]
          BY <1>0, <1>2, <4>3, <4>4
        <5> QED
          BY <1>0, <1>1, <4>3, <5>1
      <4>5. CASE i = n + 1
        BY <1>0, <4>2, <4>3, <4>5
      <4> QED
        BY <1>0, <1>2, <4>1, <4>3, <4>4, <4>5
    <3>3. CASE at[w] = "noting"
      <4>1. Len(history') = n + 1 /\ history'[n + 1] = Message(w, "reflection", turns[w])
        BY <3>1, <3>3, HistoryGrows
      <4>2. j = n + 1 /\ i \in 1..n
        BY <1>0, <1>2, <2>2, <4>1
      <4>3. history'[j].by = w /\ Place(history'[j]) = 2 * turns[w] + 1
        BY <1>0, <4>1, <4>2, MessageFields DEF Place
      <4>4. history[i].by = w /\ history'[i] = history[i]
        BY <1>0, <1>2, <4>2, <4>3
      <4> QED
        BY <1>1, <4>2, <4>3, <4>4
    <3> QED
      BY <3>1, <3>2, <3>3, HistoryGrows
  <2> QED
    BY <1>0, <2>1, <2>2
<1> QED
  BY <1>2 DEF Ordered

(* A run's messages keep their order in the history that it shares.         *)
THEOREM OwnOrderHolds == SessionSpec => []OwnOrderIsKept
<1> DEFINE Inv == PastTurns /\ Ordered
<1>1. SessionInit => Inv
  BY DEF SessionInit, PastTurns, Ordered
<1>2. SessionInv /\ Inv /\ [SessionNext]_sessionVars => Inv'
  <2>1. CASE UNCHANGED sessionVars
    BY <2>1 DEF sessionVars, PastTurns, Ordered
  <2> QED
    BY <2>1, PastTurnsStep, OrderedStep DEF SessionNext, AllStopped
<1>3. SessionInv /\ Inv => OwnOrderIsKept
  <2> SUFFICES ASSUME SessionInv, Inv
               PROVE  OwnOrderIsKept
    OBVIOUS
  <2>1. DOMAIN history = 1..Len(history)
    BY DEF SessionInv, SessionTypeOK
  <2> QED
    BY <2>1 DEF Ordered, OwnOrderIsKept
<1> QED
  BY <1>1, <1>2, <1>3, SessionInvHolds, PTL DEF SessionSpec
-----------------------------------------------------------------------------
(* What a run has said so far lies before the length it first read, and     *)
(* before what its request carries, unless that read was torn.  The other   *)
(* runs only append behind it.                                              *)
Own(w) == {i \in 1..Len(history) : history[i].by = w}

OwnPast ==
    \A w \in Workers :
      /\ at[w] = "copy" => \A i \in Own(w) : i <= header[w].len
      /\ at[w] = "ask" /\ view[w] # Torn => \A i \in Own(w) : i <= view[w]

(* A step of another run leaves what w says and holds alone.                *)
LEMMA OthersStep ==
    ASSUME SessionInv, NEW v \in Workers, WorkerStep(v), NEW w \in Workers, w # v
    PROVE  /\ at'[w] = at[w] /\ header'[w] = header[w] /\ view'[w] = view[w]
           /\ Own(w)' = Own(w)
<1>1. at'[w] = at[w] /\ header'[w] = header[w] /\ view'[w] = view[w]
  BY DEF SessionInv, SessionTypeOK, WorkerStep, PlanCached, StartPlanning, SetPlan, CallFails, LookBack,
         ReadHeader, CopyHistory, AppendHistory, SetReflection, AppendReflection, NextStep, Move, At,
         PlanReturns
<1> DEFINE n == Len(history)
<1>2. /\ n \in Nat /\ Len(history') \in Nat /\ Len(history') >= n
      /\ \A i \in 1..n : history'[i] = history[i]
  BY HistoryGrows
<1>3. ASSUME NEW i \in 1..Len(history'), i > n
      PROVE  history'[i].by = v
  <2>1. history' # history
    BY <1>2, <1>3
  <2>2. CASE at[v] = "ask"
    <3>1. /\ Len(history') = n + 2
          /\ history'[n + 1].by = v /\ history'[n + 2].by = v
      BY <2>1, <2>2, HistoryGrows, MessageFields
    <3>2. i = n + 1 \/ i = n + 2
      BY <1>2, <1>3, <3>1
    <3> QED
      BY <3>1, <3>2
  <2>3. CASE at[v] = "noting"
    <3>1. Len(history') = n + 1 /\ history'[n + 1].by = v
      BY <2>1, <2>3, HistoryGrows, MessageFields
    <3>2. i = n + 1
      BY <1>2, <1>3, <3>1
    <3> QED
      BY <3>1, <3>2
  <2> QED
    BY <2>1, <2>2, <2>3, HistoryGrows
<1>4. Own(w)' = Own(w)
  <2>1. \A i \in 1..Len(history') : history'[i].by = w => i \in 1..n
    BY <1>2, <1>3
  <2>2. \A i \in 1..n : i \in 1..Len(history')
    BY <1>2
  <2> QED
    BY <1>2, <2>1, <2>2 DEF Own
<1> QED
  BY <1>1, <1>4

LEMMA OwnPastStep ==
    ASSUME SessionInv, OwnPast, NEW v \in Workers, WorkerStep(v)
    PROVE  OwnPast'
<1> SUFFICES ASSUME NEW w \in Workers
             PROVE  /\ at'[w] = "copy" => \A i \in Own(w)' : i <= header'[w].len
                    /\ at'[w] = "ask" /\ view'[w] # Torn => \A i \in Own(w)' : i <= view'[w]
  BY DEF OwnPast
<1>1. CASE w # v
  BY <1>1, OthersStep DEF OwnPast
<1>2. CASE w = v
  <2>0. /\ at \in [Workers -> Places] /\ header \in [Workers -> [len : Nat, cap : Nat]]
        /\ view \in [Workers -> Nat \cup {Torn}] /\ Len(history) \in Nat
        /\ \A i \in Own(w) : i <= Len(history)
    BY DEF SessionInv, SessionTypeOK, Own
  <2>1. CASE ReadHeader(w)
    <3>1. at'[w] = "copy" /\ header'[w].len = Len(history) /\ history' = history
      BY <2>0, <2>1 DEF ReadHeader, Move
    <3> QED
      BY <2>0, <3>1 DEF Own
  <2>2. CASE CopyHistory(w)
    <3>1. at[w] = "copy" /\ at'[w] = "ask" /\ history' = history
      BY <2>0, <2>2 DEF CopyHistory, Move, At
    <3>2. view'[w] \in {header[w].len, Len(history), Torn}
      BY <2>0, <2>2 DEF CopyHistory
    <3>3. \A i \in Own(w) : i <= header[w].len
      BY <3>1 DEF OwnPast
    <3>4. Own(w)' = Own(w)
      BY <3>1 DEF Own
    <3> QED
      BY <2>0, <3>1, <3>2, <3>3, <3>4
  <2>3. CASE ~ReadHeader(w) /\ ~CopyHistory(w)
    <3>1. at'[w] \notin {"copy", "ask"}
      BY <1>2, <2>0, <2>3 DEF WorkerStep, PlanCached, StartPlanning, SetPlan, CallFails, LookBack,
         AppendHistory, SetReflection, AppendReflection, NextStep, Move, At, PlanReturns, CallAgain
    <3> QED
      BY <3>1
  <2> QED
    BY <2>1, <2>2, <2>3
<1> QED
  BY <1>1, <1>2

(* A run's requests carry all that the run has said, unless torn.           *)
THEOREM OwnPastHolds == SessionSpec => []OwnPastIsSeen
<1>1. SessionInit => OwnPast
  BY DEF SessionInit, OwnPast
<1>2. SessionInv /\ OwnPast /\ [SessionNext]_sessionVars => OwnPast'
  <2>1. CASE UNCHANGED sessionVars
    BY <2>1 DEF sessionVars, OwnPast, Own
  <2> QED
    BY <2>1, OwnPastStep DEF SessionNext, AllStopped
<1>3. SessionInv /\ OwnPast => OwnPastIsSeen
  <2> SUFFICES ASSUME SessionInv, OwnPast
               PROVE  OwnPastIsSeen
    OBVIOUS
  <2>1. DOMAIN history = 1..Len(history)
    BY DEF SessionInv, SessionTypeOK
  <2> QED
    BY <2>1 DEF OwnPast, Own, OwnPastIsSeen, At
<1> QED
  BY <1>1, <1>2, <1>3, SessionInvHolds, PTL DEF SessionSpec

-----------------------------------------------------------------------------
(* Until two runs plan at once, a run plans only while nothing is cached,   *)
(* and what is cached stays.                                                *)
PlanInv ==
    ~raced => /\ \A v, w \in Workers : at[v] = "planning" /\ at[w] = "planning" => v = w
              /\ (\E w \in Workers : at[w] = "planning") => plan = None
              /\ plan = None => cached = 0
              /\ cached <= 1

LEMMA PlanStep ==
    ASSUME SessionInv, PlanInv, NEW w \in Workers, WorkerStep(w)
    PROVE  PlanInv'
<1>0. at \in [Workers -> Places] /\ cached \in 0..2 /\ None \notin Workers
  BY SessionWellFormed DEF SessionInv, SessionTypeOK
<1>1. \A v \in Workers : v # w => at'[v] = at[v]
  BY <1>0 DEF WorkerStep, PlanCached, StartPlanning, SetPlan, CallFails, LookBack, ReadHeader,
     CopyHistory, AppendHistory, SetReflection, AppendReflection, NextStep, Move, At, PlanReturns
<1> SUFFICES ASSUME ~raced'
             PROVE  /\ \A v, u \in Workers : at'[v] = "planning" /\ at'[u] = "planning" => v = u
                    /\ (\E v \in Workers : at'[v] = "planning") => plan' = None
                    /\ plan' = None => cached' = 0
                    /\ cached' <= 1
  BY DEF PlanInv
<1>2. CASE StartPlanning(w)
  <2>1. /\ ~raced /\ \A v \in Workers : at[v] # "planning"
    BY <1>2 DEF StartPlanning, At
  <2>2. plan = None /\ plan' = plan /\ cached' = cached
    BY <1>2 DEF StartPlanning
  <2> QED
    BY <1>1, <2>1, <2>2 DEF PlanInv
<1>3. CASE SetPlan(w)
  <2>1. ~raced /\ at[w] = "planning"
    BY <1>3 DEF SetPlan, At
  <2>2. plan = None /\ cached = 0 /\ \A v \in Workers : at[v] = "planning" => v = w
    BY <2>1 DEF PlanInv
  <2>3. at'[w] # "planning"
    BY <1>0, <1>3 DEF SetPlan, PlanReturns, Move
  <2>4. \A v \in Workers : at'[v] # "planning"
    BY <1>1, <2>2, <2>3
  <2>5. \/ plan' = w /\ cached' = 1
        \/ plan' = None /\ cached' = cached
    BY <1>3, <2>2 DEF SetPlan
  <2> QED
    BY <1>0, <2>2, <2>4, <2>5
<1>4. CASE ~StartPlanning(w) /\ ~SetPlan(w)
  <2>1. raced' = raced /\ plan' = plan /\ cached' = cached
    BY <1>4 DEF WorkerStep, PlanCached, CallFails, LookBack, ReadHeader, CopyHistory,
       AppendHistory, SetReflection, AppendReflection, NextStep
  <2>2. at'[w] # "planning"
    BY <1>0, <1>4 DEF WorkerStep, PlanCached, CallFails, LookBack, ReadHeader, CopyHistory,
       AppendHistory, SetReflection, AppendReflection, NextStep, Move, At, PlanReturns, CallAgain
  <2>3. \A v \in Workers : at'[v] = "planning" => at[v] = "planning"
    BY <1>1, <2>2
  <2> QED
    BY <2>1, <2>3 DEF PlanInv
<1> QED
  BY <1>2, <1>3, <1>4

(* Unless two runs plan at the same time, one plan is all a session gets.   *)
THEOREM OnePlanHolds == SessionSpec => []OnePlanUnlessRaced
<1>1. SessionInit => PlanInv
  <2> SUFFICES ASSUME SessionInit
               PROVE  PlanInv
    OBVIOUS
  <2>1. cached = 0 /\ \A w \in Workers : at[w] # "planning"
    BY DEF SessionInit
  <2> QED
    BY <2>1 DEF PlanInv
<1>2. SessionInv /\ PlanInv /\ [SessionNext]_sessionVars => PlanInv'
  <2>1. CASE UNCHANGED sessionVars
    BY <2>1 DEF sessionVars, PlanInv
  <2> QED
    BY <2>1, PlanStep DEF SessionNext, AllStopped
<1>3. PlanInv => OnePlanUnlessRaced
  BY DEF PlanInv, OnePlanUnlessRaced
<1> QED
  BY <1>1, <1>2, <1>3, SessionInvHolds, PTL DEF SessionSpec
=============================================================================
