------------------------- MODULE AgentOrder_proofs -------------------------
(* Proofs about the order of a run's events, for every configuration,       *)
(* request, strategy and answer: the runner implements RunStream, a run     *)
(* that the policy blocks does no more, an answer is tested before the run  *)
(* ends on it, and the critic is shown the tools of its step.               *)
EXTENDS AgentStream_proofs, FiniteSetTheorems

(* Everything the run has reported, what waits to be sent included.         *)
Story == sent \o pend

LastEvent == Story[Len(Story)]

(* A sequence each of whose events may follow those before it.              *)
Orderly(s) == \A k \in 1..Len(s) : Stream!MayFollow(SubSeq(s, 1, k - 1), s[k])

(* The places after the coder's answer, and the kinds of event that may be  *)
(* the last of the story there.                                             *)
Answered == {"tools", "tests", "reflect", "critic", "finish"}

LastTypes(place) ==
    {"message", "token", "tool"}
      \cup (IF place \in {"reflect", "critic", "finish"} THEN {"test"} ELSE {})
      \cup (IF place = "finish" THEN {"reflect"} ELSE {})

(* What the story says of the place the goroutine is at.                    *)
PlaceInv ==
    /\ pc \notin Over => ~Stream!Halted(Story)
    /\ pc \in {"start", "initial", "planner"} =>
         /\ step = 0 /\ Stream!Steps(Story) = 0
         /\ Story # <<>> => LastEvent.type = "tool"
    /\ pc = "step" => Stream!Steps(Story) = step
    /\ pc = "coder" => Stream!Steps(Story) = step - 1
    /\ pc \in Answered =>
         /\ Stream!Steps(Story) = step /\ step # 0
         /\ Story # <<>> /\ LastEvent.type \in LastTypes(pc)
    /\ forced => pc \in Over \cup {"finish"}
    /\ forced /\ pc = "finish" => done /\ Blocking(LastEvent)

OrderInv == Orderly(Story) /\ PlaceInv

-----------------------------------------------------------------------------
(* Counting answers.                                                        *)
LEMMA StepsAre ==
    ASSUME NEW s
    PROVE  Stream!Steps(s) =
             Cardinality({i \in DOMAIN s : s[i].type = "message" /\ s[i].info = "answer"})
BY DEF Stream!Steps, Stream!IsAnswer, Stream!Cardinality, Cardinality,
       Stream!IsFiniteSet, IsFiniteSet

(* The positions at which a sequence holds an event of some set.            *)
Positions(s, set) == {i \in 1..Len(s) : s[i] \in set}

LEMMA PositionsAdded ==
    ASSUME NEW s \in Seq(Events), NEW e \in Events, NEW set
    PROVE  /\ IsFiniteSet(Positions(s, set))
           /\ Cardinality(Positions(s, set)) \in Nat
           /\ Cardinality(Positions(Append(s, e), set)) =
                IF e \in set THEN Cardinality(Positions(s, set)) + 1
                             ELSE Cardinality(Positions(s, set))
<1> DEFINE n == Len(s)
           u == Append(s, e)
           before == Positions(s, set)
           after == Positions(u, set)
<1>1. n \in Nat /\ u \in Seq(Events) /\ Len(u) = n + 1 /\ u[n + 1] = e
      /\ \A i \in 1..n : u[i] = s[i]
  OBVIOUS
<1>2. IsFiniteSet(before) /\ Cardinality(before) \in Nat
  <2>1. IsFiniteSet(1..n)
    BY <1>1, FS_Interval
  <2>2. before \subseteq 1..n
    BY DEF Positions
  <2> QED
    BY <2>1, <2>2, FS_Subset, FS_CardinalityType
<1>3. CASE e \in set
  <2>1. after = before \cup {n + 1} /\ n + 1 \notin before
    BY <1>1, <1>3 DEF Positions
  <2> HIDE DEF before, after, n
  <2>2. Cardinality(after) = Cardinality(before) + 1
    BY <1>2, <2>1, FS_AddElement
  <2> QED
    BY <1>2, <1>3, <2>2 DEF before, after
<1>4. CASE e \notin set
  <2>1. after = before
    BY <1>1, <1>4 DEF Positions
  <2> QED
    BY <1>2, <1>4, <2>1
<1> QED
  BY <1>3, <1>4

AnswerMessages == {e \in Events : e.type = "message" /\ e.info = "answer"}

LEMMA StepsCount ==
    ASSUME NEW s \in Seq(Events)
    PROVE  Stream!Steps(s) = Cardinality(Positions(s, AnswerMessages))
<1>1. {i \in DOMAIN s : s[i].type = "message" /\ s[i].info = "answer"}
        = Positions(s, AnswerMessages)
  BY DEF Positions, AnswerMessages
<1> QED
  BY <1>1, StepsAre

(* One event more.                                                          *)
LEMMA Grown ==
    ASSUME NEW s \in Seq(Events), NEW e \in Events
    PROVE  LET u == Append(s, e)
           IN  /\ u \in Seq(Events) /\ u # <<>>
               /\ Len(u) = Len(s) + 1 /\ u[Len(u)] = e
               /\ \A i \in 1..Len(s) : u[i] = s[i]
               /\ Stream!Steps(s) \in Nat
               /\ Stream!Steps(u) = IF e \in AnswerMessages THEN Stream!Steps(s) + 1
                                                            ELSE Stream!Steps(s)
               /\ Stream!Halted(u) <=> e.info = "halted"
               /\ Orderly(s) /\ Stream!MayFollow(s, e) => Orderly(u)
<1> DEFINE u == Append(s, e)
           n == Len(s)
<1>1. /\ n \in Nat /\ u \in Seq(Events) /\ u # <<>> /\ Len(u) = n + 1 /\ u[n + 1] = e
      /\ \A i \in 1..n : u[i] = s[i]
  OBVIOUS
<1>2. /\ Stream!Steps(s) \in Nat
      /\ Stream!Steps(u) = IF e \in AnswerMessages THEN Stream!Steps(s) + 1
                                                   ELSE Stream!Steps(s)
  <2>1. Stream!Steps(s) = Cardinality(Positions(s, AnswerMessages))
    BY StepsCount
  <2>2. Stream!Steps(u) = Cardinality(Positions(u, AnswerMessages))
    BY <1>1, StepsCount
  <2> QED
    BY <2>1, <2>2, PositionsAdded
<1>3. Stream!Halted(u) <=> e.info = "halted"
  BY <1>1 DEF Stream!Halted, Stream!Last
<1>4. ASSUME Orderly(s), Stream!MayFollow(s, e)
      PROVE  Orderly(u)
  <2>1. ASSUME NEW k \in 1..n + 1
        PROVE  Stream!MayFollow(SubSeq(u, 1, k - 1), u[k])
    <3>1. SubSeq(u, 1, k - 1) = SubSeq(s, 1, k - 1)
      <4>1. k - 1 \in 0..n
        BY <1>1
      <4>2. u = s \o <<e>> /\ <<e>> \in Seq(Events)
        OBVIOUS
      <4> HIDE DEF u
      <4> QED
        BY <1>1, <4>1, <4>2, SubSeqOfConcat1
    <3>2. CASE k = n + 1
      <4>1. SubSeq(s, 1, n) = s
        BY SubSeqFull
      <4>2. k - 1 = n /\ u[k] = e
        BY <1>1, <3>2
      <4>3. SubSeq(u, 1, k - 1) = s
        BY <3>1, <4>1, <4>2
      <4> QED
        BY <1>4, <4>2, <4>3
    <3>3. CASE k # n + 1
      <4>1. k \in 1..n /\ u[k] = s[k]
        BY <1>1, <3>3
      <4> QED
        BY <1>4, <3>1, <4>1 DEF Orderly
    <3> QED
      BY <3>2, <3>3
  <2> QED
    BY <1>1, <2>1 DEF Orderly
<1> QED
  BY <1>1, <1>2, <1>3, <1>4

(* What may follow a story that is not halted and has no outcome yet.       *)
Continues(s) == ~Stream!Halted(s) /\ (s # <<>> => ~Outcome(s[Len(s)]))

LEMMA ErrorFollows ==
    ASSUME NEW s \in Seq(Events), NEW e \in Events, Continues(s), e.type = "error"
    PROVE  Stream!MayFollow(s, e)
BY DEF Continues, Stream!MayFollow, Stream!Last

LEMMA FirstFollows ==
    ASSUME NEW s \in Seq(Events), NEW e \in Events, Continues(s), Stream!Steps(s) = 0,
           s # <<>> => s[Len(s)].type = "tool",
           e.type \in {"tool", "plan"}
    PROVE  Stream!MayFollow(s, e)
<1>1. s # <<>> => \/ Stream!Rank[s[Len(s)].type] < Stream!Rank[e.type]
                  \/ s[Len(s)].type = e.type /\ e.type \in Stream!Repeats
  BY DEF Stream!Rank, Stream!Repeats
<1> QED
  BY <1>1 DEF Continues, Stream!MayFollow, Stream!InOrder, Stream!Last

LEMMA NextFollows ==
    ASSUME NEW s \in Seq(Events), NEW e \in Events, Continues(s), Stream!Steps(s) # 0,
           s # <<>>,
           \/ s[Len(s)].type \in {"message", "token"} /\ e.type = "token"
           \/ s[Len(s)].type \in {"message", "token", "tool"} /\ e.type \in {"tool", "test"}
           \/ s[Len(s)].type \in {"message", "token", "tool", "test"} /\ e.type = "reflect"
    PROVE  Stream!MayFollow(s, e)
<1>1. \/ Stream!Rank[s[Len(s)].type] < Stream!Rank[e.type]
      \/ s[Len(s)].type = e.type /\ e.type \in Stream!Repeats
  BY DEF Stream!Rank, Stream!Repeats
<1> QED
  BY <1>1 DEF Continues, Stream!MayFollow, Stream!InOrder, Stream!Last

LEMMA AnswerFollows ==
    ASSUME NEW s \in Seq(Events), NEW e \in AnswerMessages, Continues(s),
           e.step = Stream!Steps(s) + 1
    PROVE  Stream!MayFollow(s, e)
BY DEF AnswerMessages, Continues, Stream!MayFollow, Stream!BeginsStep, Stream!IsAnswer, Stream!Last

LEMMA HaltFollows ==
    ASSUME NEW s \in Seq(Events), NEW e \in Events, Continues(s), Stream!Steps(s) \in Nat \ {0},
           s # <<>>, s[Len(s)].type = "reflect", s[Len(s)].info = "blocks",
           e.type = "message", e.info = "halted"
    PROVE  Stream!MayFollow(s, e)
BY DEF Continues, Stream!MayFollow, Stream!Halts, Stream!Last

LEMMA DoneFollows ==
    ASSUME NEW s \in Seq(Events), NEW e \in Events, s # <<>> => ~Outcome(s[Len(s)]),
           e.type = "done", e.step = Stream!Steps(s), Stream!Steps(s) \in Nat \ {0},
           e.info = "blocked_by_reflect" <=> Stream!Halted(s)
    PROVE  Stream!MayFollow(s, e)
BY DEF Stream!MayFollow, Stream!EndsWell, Stream!Last

-----------------------------------------------------------------------------
(* How the story grows.                                                     *)
LEMMA StoryFacts ==
    ASSUME RunnerTypes
    PROVE  /\ Story \in Seq(Events) /\ Len(Story) = Len(sent) + Len(pend)
           /\ \A i \in 1..Len(sent) : Story[i] = sent[i]
           /\ \A i \in 1..Len(pend) : Story[Len(sent) + i] = pend[i]
           /\ pend = <<>> => Story = sent
<1>1. sent \in Seq(Events) /\ pend \in Seq(Events)
  BY DEF RunnerTypes
<1>2. /\ sent \o pend \in Seq(Events)
      /\ Len(sent \o pend) = Len(sent) + Len(pend)
      /\ \A i \in 1..Len(sent) + Len(pend) :
           (sent \o pend)[i] = IF i <= Len(sent) THEN sent[i] ELSE pend[i - Len(sent)]
  BY <1>1, ConcatProperties, Zenon
<1>3. pend = <<>> => sent \o pend = sent
  BY <1>1, ConcatEmptySeq
<1> QED
  BY <1>1, <1>2, <1>3 DEF Story

LEMMA StoryRests ==
    ASSUME RunnerTypes, pend = <<>>, pend' = <<>>, sent' = sent
    PROVE  Story' = Story
BY DEF Story

LEMMA StoryAdds ==
    ASSUME RunnerTypes, pend = <<>>, sent' = sent, NEW e \in Events, pend' = <<e>>
    PROVE  Story' = Append(Story, e)
<1>1. Story = sent /\ sent \in Seq(Events)
  BY StoryFacts DEF RunnerTypes
<1> QED
  BY <1>1, AppendIsConcat DEF Story

LEMMA StorySent == RunnerTypes /\ Send => Story' = Story
<1> SUFFICES ASSUME RunnerTypes, Send
             PROVE  Story' = Story
  OBVIOUS
<1>1. /\ sent \in Seq(Events) /\ pend \in Seq(Events) /\ pend # <<>>
      /\ sent' = Append(sent, Head(pend)) /\ pend' = Tail(pend)
  BY DEF RunnerTypes, Send
<1>2. Head(pend) \in Events /\ pend = <<Head(pend)>> \o Tail(pend) /\ Tail(pend) \in Seq(Events)
  BY <1>1
<1>3. sent' = sent \o <<Head(pend)>>
  BY <1>1, <1>2, AppendIsConcat
<1>4. <<Head(pend)>> \in Seq(Events)
  BY <1>2
<1> QED
  BY <1>1, <1>2, <1>3, <1>4, ConcatAssociative DEF Story

(* While the run goes on its story has no outcome.                          *)
LEMMA NoOutcomeYet ==
    ASSUME RunnerTypes, OutcomeInv, pc \notin Over, pend = <<>>, PlaceInv
    PROVE  Continues(Story)
<1>1. Story = sent /\ sent \in Seq(Events)
  BY StoryFacts DEF RunnerTypes
<1>2. Story # <<>> => ~Outcome(Story[Len(Story)])
  BY <1>1 DEF OutcomeInv
<1> QED
  BY <1>2 DEF Continues, PlaceInv

(* A report of one event.                                                   *)
LEMMA StoryGrows ==
    ASSUME RunnerTypes, OrderInv, pend = <<>>, sent' = sent,
           NEW e \in Events, pend' = <<e>>, Stream!MayFollow(Story, e)
    PROVE  /\ Orderly(Story')
           /\ Story' # <<>> /\ LastEvent' = e
           /\ Stream!Steps(Story') = IF e \in AnswerMessages THEN Stream!Steps(Story) + 1
                                                             ELSE Stream!Steps(Story)
           /\ Stream!Halted(Story') <=> e.info = "halted"
<1>1. Story' = Append(Story, e) /\ Story \in Seq(Events) /\ Orderly(Story)
  BY StoryAdds, StoryFacts DEF OrderInv
<1> QED
  BY <1>1, Grown DEF LastEvent

(* An error, or a tool that fails, ends the run.                            *)
LEMMA FailureReport ==
    ASSUME RunnerTypes, OutcomeInv, OrderInv, pc \notin Over, pend = <<>>, sent' = sent,
           pc' = "ending",
           NEW e \in Events, pend' = <<e>>, Stream!MayFollow(Story, e)
    PROVE  OrderInv'
<1>1. Orderly(Story')
  BY StoryGrows
<1> QED
  BY <1>1 DEF OrderInv, PlaceInv, Over, Answered

LEMMA ErrorReport ==
    ASSUME RunnerTypes, OutcomeInv, OrderInv, pc \notin Over, pend = <<>>, sent' = sent,
           pc' = "ending", pend' = <<Failed>> \/ pend' = <<Cancelled>>
    PROVE  OrderInv'
<1>1. Continues(Story) /\ Story \in Seq(Events)
  BY NoOutcomeYet, StoryFacts DEF OrderInv
<1>2. Failed.type = "error" /\ Cancelled.type = "error"
  BY DEF Failed, Cancelled, Event
<1> QED
  BY <1>1, <1>2, ErrorFollows, ErrorEvents, FailureReport

(* A step that reports nothing.                                             *)
LEMMA SilentReport ==
    ASSUME RunnerTypes, OrderInv, pend = <<>>, pend' = <<>>, sent' = sent
    PROVE  Story' = Story /\ LastEvent' = LastEvent /\ Orderly(Story')
BY StoryRests DEF OrderInv, LastEvent

LEMMA PreparingInOrder == RunnerTypes /\ OutcomeInv /\ OrderInv /\ Preparing => OrderInv'
<1> SUFFICES ASSUME RunnerTypes, OutcomeInv, OrderInv, Preparing
             PROVE  OrderInv'
  OBVIOUS
<1>0. Orderly(Story) /\ PlaceInv /\ Story \in Seq(Events) /\ Stream!Steps(Story) \in Nat
  BY StoryFacts, StepsCount, PositionsAdded, Grown, ErrorEvents DEF OrderInv
<1>1. CASE LoadContext
  <2>1. /\ pc = "start" /\ pend = <<>> /\ sent' = sent /\ UNCHANGED <<step, forced, done>>
        /\ \/ pc' = "initial" /\ pend' = <<>>
           \/ pc' = "ending" /\ pend' = <<Failed>>
    BY <1>1 DEF LoadContext, At, GoTo, answerVars
  <2>2. CASE pc' = "initial" /\ pend' = <<>>
    BY <1>0, <2>1, <2>2, SilentReport DEF OrderInv, PlaceInv, Over, Answered
  <2>3. CASE pc' = "ending" /\ pend' = <<Failed>>
    BY <2>1, <2>3, ErrorReport DEF Over
  <2> QED
    BY <2>1, <2>2, <2>3
<1>2. CASE InitialTool
  <2>1. /\ pc = "initial" /\ pend = <<>> /\ sent' = sent /\ UNCHANGED <<step, forced, done>>
        /\ \/ pc' = "ending" /\ pend' = <<Event("tool", 0, "tool failed")>>
           \/ pc' = "initial" /\ pend' = <<Event("tool", 0, "ok")>>
    BY <1>2 DEF InitialTool, ToolFails, At, GoTo, answerVars
  <2>2. Continues(Story) /\ Stream!Steps(Story) = 0 /\ (Story # <<>> => LastEvent.type = "tool")
    BY <1>0, <2>1, NoOutcomeYet DEF Over, PlaceInv
  <2>3. ASSUME NEW info \in {"ok", "tool failed"}
        PROVE  /\ Event("tool", 0, info) \in Events \ AnswerMessages
               /\ Event("tool", 0, info).type = "tool" /\ Event("tool", 0, info).info # "halted"
               /\ Stream!MayFollow(Story, Event("tool", 0, info))
    <3>1. /\ Event("tool", 0, info) \in Events \ AnswerMessages
          /\ Event("tool", 0, info).type = "tool" /\ Event("tool", 0, info).info # "halted"
      BY <2>3 DEF Event, Events, Infos, AnswerMessages
    <3> QED
      BY <1>0, <2>2, <3>1, FirstFollows DEF LastEvent
  <2>4. CASE pc' = "ending" /\ pend' = <<Event("tool", 0, "tool failed")>>
    BY <2>1, <2>3, <2>4, FailureReport DEF Over
  <2>5. CASE pc' = "initial" /\ pend' = <<Event("tool", 0, "ok")>>
    BY <1>0, <2>1, <2>3, <2>5, StoryGrows DEF OrderInv, PlaceInv, Over, Answered
  <2> QED
    BY <2>1, <2>4, <2>5
<1>3. CASE BeginPlanning \/ SkipPlanning
  <2>1. /\ pc = "initial" /\ pend = <<>> /\ sent' = sent /\ UNCHANGED <<step, forced, done>>
        /\ pc' \in {"planner", "step"} /\ pend' = <<>>
    BY <1>3 DEF BeginPlanning, SkipPlanning, At, GoTo, answerVars
  <2> QED
    BY <1>0, <2>1, SilentReport DEF OrderInv, PlaceInv, Over, Answered
<1>4. CASE PlannerAnswers
  <2>1. /\ pc = "planner" /\ pend = <<>> /\ sent' = sent /\ UNCHANGED <<step, forced, done>>
        /\ pc' = "step"
        /\ pend' = <<>> \/ pend' = <<Event("plan", 0, "ok")>>
    BY <1>4 DEF PlannerAnswers, At, GoTo
  <2>2. CASE pend' = <<>>
    BY <1>0, <2>1, <2>2, SilentReport DEF OrderInv, PlaceInv, Over, Answered
  <2>3. CASE pend' = <<Event("plan", 0, "ok")>>
    <3>1. Continues(Story) /\ Stream!Steps(Story) = 0 /\ (Story # <<>> => LastEvent.type = "tool")
      BY <1>0, <2>1, NoOutcomeYet DEF Over, PlaceInv
    <3>2. /\ Event("plan", 0, "ok") \in Events \ AnswerMessages
          /\ Event("plan", 0, "ok").type = "plan" /\ Event("plan", 0, "ok").info # "halted"
      BY DEF Event, Events, Infos, AnswerMessages
    <3>3. Stream!MayFollow(Story, Event("plan", 0, "ok"))
      BY <1>0, <3>1, <3>2, FirstFollows DEF LastEvent
    <3> QED
      BY <1>0, <2>1, <2>3, <3>2, <3>3, StoryGrows DEF OrderInv, PlaceInv, Over, Answered
  <2> QED
    BY <2>1, <2>2, <2>3
<1> QED
  BY <1>1, <1>2, <1>3, <1>4 DEF Preparing

-----------------------------------------------------------------------------
(* The words of an answer follow its message.                               *)
LEMMA WordsFollow ==
    ASSUME NEW s \in Seq(Events), NEW w \in Seq(Events), s # <<>>, Orderly(s),
           s[Len(s)] \in AnswerMessages,
           \A i \in 1..Len(w) : w[i].type = "token" /\ w[i].info = "ok"
    PROVE  LET u == s \o w
           IN  /\ Orderly(u)
               /\ u # <<>> /\ u[Len(u)].type \in {"message", "token"}
               /\ ~Stream!Halted(u)
               /\ Stream!Steps(u) = Stream!Steps(s)
<1> DEFINE u == s \o w
           n == Len(s)
           m == Len(w)
<1>1. /\ n \in Nat /\ m \in Nat /\ u \in Seq(Events) /\ Len(u) = n + m
      /\ \A i \in 1..n + m : u[i] = IF i <= n THEN s[i] ELSE w[i - n]
  BY ConcatProperties, LenProperties, Zenon
<1>2. n \in Nat \ {0} /\ n \in 1..n + m
  BY <1>1, EmptySeq
<1>3. \A i \in 1..n : u[i] = s[i]
  BY <1>1
<1>4. \A i \in n + 1..n + m : u[i].type = "token" /\ u[i].info = "ok"
  <2> TAKE i \in n + 1..n + m
  <2>1. i \in 1..n + m /\ ~(i <= n) /\ i - n \in 1..m
    BY <1>1
  <2> QED
    BY <1>1, <2>1
<1>5. u[n] \in AnswerMessages /\ u[n].type = "message" /\ u[n].info = "answer"
  BY <1>2, <1>3 DEF AnswerMessages
<1> HIDE DEF u
<1>6. ASSUME NEW k \in n..n + m
      PROVE  /\ u[k].type \in {"message", "token"}
             /\ u[k].info # "halted" /\ ~Outcome(u[k])
  <2>1. CASE k = n
    BY <1>5, <2>1 DEF Outcome
  <2>2. CASE k # n
    <3>1. k \in n + 1..n + m
      BY <1>1, <2>2
    <3> QED
      BY <1>4, <3>1 DEF Outcome
  <2> QED
    BY <2>1, <2>2
<1>7. Stream!Steps(u) = Stream!Steps(s)
  <2>1. Positions(u, AnswerMessages) = Positions(s, AnswerMessages)
    BY <1>1, <1>3, <1>4 DEF Positions, AnswerMessages
  <2> QED
    BY <1>1, <2>1, StepsCount
<1>8. ASSUME NEW k \in 1..n + m
      PROVE  Stream!MayFollow(SubSeq(u, 1, k - 1), u[k])
  <2> DEFINE p == SubSeq(u, 1, k - 1)
  <2>1. CASE k <= n
    <3>1. p = SubSeq(s, 1, k - 1)
      BY <1>1, <2>1, SubSeqOfConcat1 DEF u
    <3>2. k \in 1..n /\ u[k] = s[k]
      BY <1>1, <1>3, <2>1
    <3> QED
      BY <3>1, <3>2 DEF Orderly
  <2>2. CASE k > n
    <3>1. /\ p \in Seq(Events) /\ Len(p) = k - 1
          /\ \A i \in 1..k - 1 : p[i] = u[i]
      BY <1>1
    <3>2. k - 1 \in n..n + m /\ k \in n + 1..n + m /\ k - 1 # 0
      BY <1>1, <1>2, <2>2
    <3> HIDE DEF p
    <3>3. p # <<>> /\ p[Len(p)] = u[k - 1] /\ n \in 1..Len(p) /\ p[n] = u[n]
      BY <1>1, <1>2, <3>1, <3>2
    <3>4. Continues(p) /\ p[Len(p)].type \in {"message", "token"}
      BY <1>6, <3>2, <3>3 DEF Continues, Stream!Halted, Stream!Last
    <3>5. Stream!Steps(p) # 0
      <4>1. n \in Positions(p, AnswerMessages)
        BY <1>5, <3>3 DEF Positions
      <4>2. IsFiniteSet(Positions(p, AnswerMessages))
        BY <3>1, ErrorEvents, PositionsAdded
      <4>3. Cardinality(Positions(p, AnswerMessages)) # 0
        BY <4>1, <4>2, FS_EmptySet
      <4> QED
        BY <3>1, <4>3, StepsCount
    <3>6. u[k] \in Events /\ u[k].type = "token"
      BY <1>1, <1>2, <1>4, <3>2
    <3> QED
      BY <3>1, <3>3, <3>4, <3>5, <3>6, NextFollows DEF p
  <2> QED
    BY <1>1, <2>1, <2>2
<1>9. Orderly(u)
  BY <1>1, <1>8 DEF Orderly
<1>10. u # <<>> /\ u[Len(u)].type \in {"message", "token"} /\ ~Stream!Halted(u)
  <2>1. Len(u) \in n..n + m /\ u # <<>>
    BY <1>1, <1>2
  <2> QED
    BY <1>6, <2>1 DEF Stream!Halted, Stream!Last
<1> QED
  BY <1>7, <1>9, <1>10 DEF u

LEMMA WordsFacts ==
    ASSUME NEW a \in Answers, step \in Nat
    PROVE  /\ Words(a) \in Seq(Events)
           /\ \A i \in 1..Len(Words(a)) : Words(a)[i].type = "token" /\ Words(a)[i].info = "ok"
<1>1. a.tokens \in Nat
  BY AnswerFacts
<1>2. \A i \in 1..a.tokens : Event("token", step * 1000 + i - 1, "ok") \in Events
  BY <1>1 DEF Event, Events, Infos
<1>3. Words(a) \in Seq(Events) /\ Len(Words(a)) = a.tokens
  BY <1>1, <1>2 DEF Words
<1> QED
  BY <1>1, <1>3 DEF Words, Event

(* The answer itself.                                                       *)
LEMMA AnswerReport ==
    ASSUME RunnerTypes, OutcomeInv, OrderInv, pc = "coder", pend = <<>>, sent' = sent,
           answer' \in Answers, pend' = AnswerEvents(answer')
    PROVE  /\ Orderly(Story')
           /\ Story' # <<>> /\ LastEvent'.type \in {"message", "token"}
           /\ ~Stream!Halted(Story') /\ Stream!Steps(Story') = step
<1> DEFINE head == Event("message", step, "answer")
           words == Words(answer')
           asked == Append(Story, head)
<1>1. /\ Story \in Seq(Events) /\ Story = sent /\ Orderly(Story) /\ PlaceInv
      /\ step \in Nat
  BY StoryFacts, RunnerFacts DEF OrderInv
<1>2. head \in AnswerMessages /\ head \in Events /\ head.step = step
  BY <1>1 DEF Event, Events, Infos, AnswerMessages
<1>3. words \in Seq(Events)
  BY <1>1, WordsFacts
<1>4. \A i \in 1..Len(words) : words[i].type = "token" /\ words[i].info = "ok"
  BY <1>1, WordsFacts
<1>5. Stream!MayFollow(Story, head)
  <2>1. Continues(Story) /\ Stream!Steps(Story) = step - 1
    BY <1>1, NoOutcomeYet DEF Over, PlaceInv
  <2> QED
    BY <1>1, <1>2, <2>1, AnswerFollows
<1>6. Story' = asked \o words
  <2>1. AnswerEvents(answer') = <<head>> \o words
    BY DEF AnswerEvents
  <2>2. Story' = sent \o (<<head>> \o words)
    BY <2>1 DEF Story
  <2>3. asked = sent \o <<head>> /\ <<head>> \in Seq(Events)
    BY <1>1, <1>2, AppendIsConcat
  <2> HIDE DEF head, words, asked
  <2> QED
    BY <1>1, <1>3, <2>2, <2>3, ConcatAssociative
<1> HIDE DEF words, head
<1>7. /\ asked \in Seq(Events) /\ asked # <<>> /\ asked[Len(asked)] = head
      /\ Stream!Steps(asked) = step /\ Orderly(asked)
  <2>1. Stream!Steps(Story) = step - 1 /\ Stream!Steps(Story) \in Nat
    BY <1>1, <1>2, Grown DEF PlaceInv
  <2> QED
    BY <1>1, <1>2, <1>5, <2>1, Grown
<1> HIDE DEF asked
<1>8. /\ Orderly(Story')
      /\ Story' # <<>> /\ Story'[Len(Story')].type \in {"message", "token"}
      /\ ~Stream!Halted(Story') /\ Stream!Steps(Story') = Stream!Steps(asked)
  BY <1>2, <1>3, <1>4, <1>6, <1>7, WordsFollow
<1> QED
  BY <1>7, <1>8 DEF LastEvent

LEMMA SteppingInOrder == RunnerTypes /\ OutcomeInv /\ OrderInv /\ Stepping => OrderInv'
<1> SUFFICES ASSUME RunnerTypes, OutcomeInv, OrderInv, Stepping
             PROVE  OrderInv'
  OBVIOUS
<1>0. /\ Orderly(Story) /\ PlaceInv /\ Story \in Seq(Events) /\ Stream!Steps(Story) \in Nat
      /\ step \in Nat /\ run.maxSteps \in Nat \ {0}
  <2>1. step \in Nat /\ run.maxSteps \in Nat \ {0}
    BY RunnerFacts, RunFacts DEF RunFields
  <2>2. Story \in Seq(Events)
    BY StoryFacts
  <2>3. Stream!Steps(Story) \in Nat
    BY <2>2, ErrorEvents, Grown
  <2> QED
    BY <2>1, <2>2, <2>3 DEF OrderInv
<1>1. CASE StopAtLimit
  <2> DEFINE e == Event("done", step, "max_steps")
  <2>1. /\ pc = "step" /\ pend = <<>> /\ sent' = sent /\ ~StepsLeft
        /\ pc' = "record" /\ pend' = <<e>> /\ UNCHANGED <<step, forced, done>>
    BY <1>1 DEF StopAtLimit, At, GoTo, answerVars
  <2>2. Continues(Story) /\ Stream!Steps(Story) = step /\ step # 0
    BY <1>0, <2>1, NoOutcomeYet DEF Over, PlaceInv, StepsLeft
  <2>3. e \in Events /\ e.type = "done" /\ e.step = step /\ e.info # "blocked_by_reflect"
    BY <1>0 DEF Event, Events, Infos
  <2> HIDE DEF e
  <2>4. Stream!MayFollow(Story, e)
    BY <1>0, <2>2, <2>3, DoneFollows DEF Continues
  <2>5. Orderly(Story')
    BY <2>1, <2>3, <2>4, StoryGrows
  <2> QED
    BY <2>1, <2>5 DEF OrderInv, PlaceInv, Over, Answered
<1>2. CASE StopCancelled
  <2>1. /\ pc = "step" /\ pend = <<>> /\ sent' = sent
        /\ pc' = "ending" /\ pend' = <<Cancelled>>
    BY <1>2 DEF StopCancelled, At, GoTo
  <2> QED
    BY <2>1, ErrorReport DEF Over
<1>3. CASE BeginStep
  <2>1. /\ pc = "step" /\ pend = <<>> /\ sent' = sent /\ step' = step + 1
        /\ pc' = "coder" /\ pend' = <<>> /\ UNCHANGED <<forced, done>>
    BY <1>3 DEF BeginStep, At, GoTo
  <2> QED
    BY <1>0, <2>1, SilentReport DEF OrderInv, PlaceInv, Over, Answered
<1>4. CASE CoderAnswers
  <2>1. /\ pc = "coder" /\ pend = <<>> /\ sent' = sent /\ UNCHANGED <<step, forced, done>>
        /\ answer' \in Answers /\ pend' = AnswerEvents(answer') /\ pc' = "tools"
    BY <1>4 DEF CoderAnswers, At, GoTo
  <2>2. step # 0
    BY <1>0, <2>1 DEF PlaceInv
  <2>3. /\ Orderly(Story')
        /\ Story' # <<>> /\ LastEvent'.type \in {"message", "token"}
        /\ ~Stream!Halted(Story') /\ Stream!Steps(Story') = step
    BY <2>1, AnswerReport
  <2> QED
    BY <1>0, <2>1, <2>2, <2>3 DEF OrderInv, PlaceInv, Over, Answered, LastTypes
<1>5. CASE StepTool
  <2>1. /\ pc = "tools" /\ pend = <<>> /\ sent' = sent /\ UNCHANGED <<step, forced, done>>
        /\ \/ pc' = "ending" /\ pend' = <<Event("tool", 0, "tool failed")>>
           \/ pc' = "tools" /\ pend' = <<Event("tool", 0, "ok")>>
    BY <1>5 DEF StepTool, ToolFails, At, GoTo, answerVars
  <2>2. /\ Continues(Story) /\ Stream!Steps(Story) = step /\ step # 0
        /\ Story # <<>> /\ LastEvent.type \in {"message", "token", "tool"}
    BY <1>0, <2>1, NoOutcomeYet DEF Over, PlaceInv, Answered, LastTypes
  <2>3. ASSUME NEW info \in {"ok", "tool failed"}
        PROVE  /\ Event("tool", 0, info) \in Events \ AnswerMessages
               /\ Event("tool", 0, info).type = "tool" /\ Event("tool", 0, info).info # "halted"
               /\ Stream!MayFollow(Story, Event("tool", 0, info))
    <3>1. /\ Event("tool", 0, info) \in Events \ AnswerMessages
          /\ Event("tool", 0, info).type = "tool" /\ Event("tool", 0, info).info # "halted"
      BY <2>3 DEF Event, Events, Infos, AnswerMessages
    <3> QED
      BY <1>0, <2>2, <3>1, NextFollows DEF LastEvent
  <2>4. CASE pc' = "ending" /\ pend' = <<Event("tool", 0, "tool failed")>>
    BY <2>1, <2>3, <2>4, FailureReport DEF Over
  <2>5. CASE pc' = "tools" /\ pend' = <<Event("tool", 0, "ok")>>
    <3>1. /\ Orderly(Story') /\ Story' # <<>> /\ LastEvent' = Event("tool", 0, "ok")
          /\ Stream!Steps(Story') = step /\ ~Stream!Halted(Story')
      BY <2>1, <2>2, <2>3, <2>5, StoryGrows
    <3> QED
      BY <1>0, <2>1, <2>2, <2>3, <2>5, <3>1 DEF OrderInv, PlaceInv, Over, Answered, LastTypes
  <2> QED
    BY <2>1, <2>4, <2>5
<1>6. CASE JudgeAnswer
  <2>1. /\ pc = "tools" /\ pend = <<>> /\ sent' = sent /\ UNCHANGED <<step, forced>>
        /\ pc' \in {"tests", "reflect"} /\ pend' = <<>>
    BY <1>6 DEF JudgeAnswer, AfterTools, At, GoTo
  <2> QED
    BY <1>0, <2>1, SilentReport DEF OrderInv, PlaceInv, Over, Answered, LastTypes
<1> QED
  BY <1>1, <1>2, <1>3, <1>4, <1>5, <1>6 DEF Stepping

(* What the reviewing steps report continues a story that is not empty.     *)
LEMMA ReviewReport ==
    ASSUME RunnerTypes, OutcomeInv, OrderInv, pc \in {"tests", "reflect", "critic"},
           pend = <<>>, sent' = sent,
           NEW type \in {"test", "reflect"}, NEW n \in Nat, NEW info \in Infos,
           type = "test" => pc = "tests",
           info \notin {"halted", "tool failed"},
           pend' = <<Event(type, n, info)>>
    PROVE  /\ Orderly(Story') /\ Story' # <<>> /\ LastEvent' = Event(type, n, info)
           /\ Stream!Steps(Story') = step /\ step # 0 /\ ~Stream!Halted(Story')
<1> DEFINE e == Event(type, n, info)
<1>1. Orderly(Story) /\ PlaceInv /\ Story \in Seq(Events)
  BY StoryFacts DEF OrderInv
<1>2. /\ Continues(Story) /\ Stream!Steps(Story) = step /\ step # 0
      /\ Story # <<>> /\ LastEvent.type \in LastTypes(pc)
  BY <1>1, NoOutcomeYet DEF Over, PlaceInv, Answered
<1>3. /\ e \in Events \ AnswerMessages /\ e.type = type /\ e.info = info
  BY DEF Event, Events, AnswerMessages
<1> HIDE DEF e
<1>4. Stream!MayFollow(Story, e)
  BY <1>1, <1>2, <1>3, NextFollows DEF LastEvent, LastTypes
<1> QED
  BY <1>2, <1>3, <1>4, StoryGrows DEF e

LEMMA ReviewingInOrder == RunnerTypes /\ OutcomeInv /\ OrderInv /\ Reviewing => OrderInv'
<1> SUFFICES ASSUME RunnerTypes, OutcomeInv, OrderInv, Reviewing
             PROVE  OrderInv'
  OBVIOUS
<1>0. /\ Orderly(Story) /\ PlaceInv /\ Story \in Seq(Events) /\ Stream!Steps(Story) \in Nat
      /\ step \in Nat /\ attempts \in Nat /\ answer.finish \in {"none", "length", "stop"}
  <2>1. answer \in Answers \cup {NoAnswer} /\ attempts \in Nat
    BY DEF RunnerTypes
  <2>2. Story \in Seq(Events) /\ step \in Nat
    BY StoryFacts, RunnerFacts
  <2>3. Stream!Steps(Story) \in Nat
    BY <2>2, ErrorEvents, Grown
  <2> QED
    BY <2>1, <2>2, <2>3, AnswerFacts DEF OrderInv
<1>1. CASE TestsPass \/ TestsFail
  <2>1. /\ pc = "tests" /\ pend = <<>> /\ sent' = sent /\ UNCHANGED <<step, forced, done>>
        /\ \/ pc' = "tests" /\ pend' = <<>>
           \/ /\ pc' = "reflect"
              /\ \/ pend' = <<Event("test", attempts, "passed")>>
                 \/ pend' = <<Event("test", attempts + 1, "tests failed")>>
    <3>1. CASE TestsPass
      BY <3>1 DEF TestsPass, At, GoTo, answerVars
    <3>2. CASE TestsFail
      BY <3>2 DEF TestsFail, At, GoTo, answerVars
    <3> QED
      BY <1>1, <3>1, <3>2
  <2>2. CASE pc' = "tests" /\ pend' = <<>>
    BY <1>0, <2>1, <2>2, SilentReport DEF OrderInv, PlaceInv, Over, Answered, LastTypes
  <2>3. ASSUME NEW n \in Nat, NEW info \in {"passed", "tests failed"}, pc' = "reflect",
               pend' = <<Event("test", n, info)>>
        PROVE  OrderInv'
    <3>1. Event("test", n, info).type = "test"
      BY DEF Event
    <3>2. /\ Orderly(Story') /\ Story' # <<>> /\ LastEvent' = Event("test", n, info)
          /\ Stream!Steps(Story') = step /\ step # 0 /\ ~Stream!Halted(Story')
      BY <2>1, <2>3, ReviewReport DEF Infos
    <3> QED
      BY <1>0, <2>1, <2>3, <3>1, <3>2 DEF OrderInv, PlaceInv, Over, Answered, LastTypes
  <2>4. CASE pc' = "reflect" /\ pend' = <<Event("test", attempts, "passed")>>
    BY <1>0, <2>3, <2>4
  <2>5. CASE pc' = "reflect" /\ pend' = <<Event("test", attempts + 1, "tests failed")>>
    <3>1. attempts + 1 \in Nat
      BY <1>0
    <3> QED
      BY <2>3, <2>5, <3>1
  <2> QED
    BY <2>1, <2>2, <2>4, <2>5
<1>2. CASE BeginReflection \/ SkipReflection
  <2>1. /\ pc = "reflect" /\ pend = <<>> /\ sent' = sent /\ UNCHANGED <<step, forced, done>>
        /\ pc' \in {"critic", "finish"} /\ pend' = <<>>
    BY <1>2 DEF BeginReflection, SkipReflection, At, GoTo, answerVars
  <2> QED
    BY <1>0, <2>1, SilentReport DEF OrderInv, PlaceInv, Over, Answered, LastTypes
<1>3. CASE CriticAnswers
  <2>1. PICK verdict \in {"blank", "plain", "blocks"} :
             /\ pend' = IF verdict = "blank" THEN <<>> ELSE <<Event("reflect", step, verdict)>>
             /\ done' = (done \/ Blocks(verdict)) /\ forced' = (forced \/ Blocks(verdict))
    BY <1>3 DEF CriticAnswers, GoTo
  <2>2. /\ pc = "critic" /\ pend = <<>> /\ sent' = sent /\ step' = step /\ run' = run
        /\ pc' = "finish"
    BY <1>3 DEF CriticAnswers, At, GoTo
  <2>3. ~forced
    BY <1>0, <2>2 DEF PlaceInv, Over
  <2>4. CASE verdict = "blank"
    <3>1. pend' = <<>> /\ ~forced'
      BY <2>1, <2>3, <2>4 DEF Blocks
    <3> QED
      BY <1>0, <2>2, <3>1, SilentReport DEF OrderInv, PlaceInv, Over, Answered, LastTypes
  <2>5. CASE verdict # "blank"
    <3>1. pend' = <<Event("reflect", step, verdict)>> /\ verdict \in {"plain", "blocks"}
      BY <2>1, <2>5
    <3>2. /\ Orderly(Story') /\ Story' # <<>> /\ LastEvent' = Event("reflect", step, verdict)
          /\ Stream!Steps(Story') = step /\ step # 0 /\ ~Stream!Halted(Story')
      BY <1>0, <2>2, <3>1, ReviewReport DEF Infos
    <3>3. /\ Event("reflect", step, verdict).type = "reflect"
          /\ Event("reflect", step, verdict).info = verdict
      BY DEF Event
    <3>4. forced' => verdict = "blocks" /\ run.enforce /\ done'
      BY <2>1, <2>3 DEF Blocks
    <3>5. forced' => done' /\ Blocking(LastEvent)'
      BY <2>2, <3>2, <3>3, <3>4 DEF Blocking
    <3> QED
      BY <2>2, <3>2, <3>3, <3>5 DEF OrderInv, PlaceInv, Over, Answered, LastTypes
  <2> QED
    BY <2>4, <2>5
<1>4. CASE FinishStep
  <2>1. /\ pc = "finish" /\ pend = <<>> /\ sent' = sent /\ UNCHANGED <<step, forced, done>>
    BY <1>4 DEF FinishStep, At, GoTo, answerVars
  <2>2. /\ Continues(Story) /\ Stream!Steps(Story) = step /\ step # 0 /\ Story # <<>>
        /\ forced => done /\ Blocking(LastEvent)
    BY <1>0, <2>1, NoOutcomeYet DEF Over, PlaceInv, Answered
  <2>3. CASE ~done
    <3>1. pc' = "step" /\ pend' = <<>>
      BY <1>4, <2>3 DEF FinishStep, GoTo
    <3> QED
      BY <1>0, <2>1, <2>2, <2>3, <3>1, SilentReport DEF OrderInv, PlaceInv, Over, Answered
  <2>4. CASE done /\ ~forced
    <3> DEFINE e == Event("done", step, answer.finish)
    <3>1. pc' = "record" /\ pend' = <<e>>
      BY <1>4, <2>4 DEF FinishStep, GoTo
    <3>2. e \in Events /\ e.type = "done" /\ e.step = step /\ e.info # "blocked_by_reflect"
      BY <1>0 DEF Event, Events, Infos
    <3> HIDE DEF e
    <3>3. Stream!MayFollow(Story, e)
      BY <1>0, <2>2, <3>2, DoneFollows DEF Continues
    <3>4. Orderly(Story')
      BY <2>1, <3>1, <3>2, <3>3, StoryGrows
    <3> QED
      BY <2>1, <2>4, <3>1, <3>4 DEF OrderInv, PlaceInv, Over, Answered
  <2>5. CASE done /\ forced
    <3> DEFINE h == Event("message", step, "halted")
               e == Event("done", step, "blocked_by_reflect")
               halted == Append(Story, h)
    <3>1. pc' = "record" /\ pend' = <<h, e>>
      BY <1>4, <2>5 DEF FinishStep, GoTo
    <3>2. /\ h \in Events \ AnswerMessages /\ h.type = "message" /\ h.info = "halted" /\ ~Outcome(h)
          /\ e \in Events /\ e.type = "done" /\ e.step = step /\ e.info = "blocked_by_reflect"
      BY <1>0 DEF Event, Events, Infos, AnswerMessages, Outcome
    <3>3. Story' = Append(halted, e)
      <4>1. sent \in Seq(Events) /\ Story = sent
        BY <2>1, StoryFacts DEF RunnerTypes
      <4> HIDE DEF h, e
      <4> QED
        BY <2>1, <3>1, <3>2, <4>1 DEF Story
    <3> HIDE DEF h, e
    <3>4. Stream!MayFollow(Story, h)
      BY <1>0, <2>2, <2>5, <3>2, HaltFollows DEF LastEvent, Blocking
    <3>5. /\ halted \in Seq(Events) /\ halted # <<>> /\ halted[Len(halted)] = h
          /\ Stream!Steps(halted) = step /\ Stream!Halted(halted) /\ Orderly(halted)
      BY <1>0, <2>2, <3>2, <3>4, Grown
    <3> HIDE DEF halted
    <3>6. Stream!MayFollow(halted, e)
      BY <1>0, <2>2, <3>2, <3>5, DoneFollows
    <3>7. Orderly(Story')
      BY <3>2, <3>3, <3>5, <3>6, Grown
    <3> QED
      BY <2>1, <3>1, <3>7 DEF OrderInv, PlaceInv, Over, Answered
  <2> QED
    BY <2>3, <2>4, <2>5
<1> QED
  BY <1>1, <1>2, <1>3, <1>4 DEF Reviewing

LEMMA RecoveringInOrder == RunnerTypes /\ OutcomeInv /\ OrderInv /\ Recovering => OrderInv'
<1> SUFFICES ASSUME RunnerTypes, OutcomeInv, OrderInv, Recovering
             PROVE  OrderInv'
  OBVIOUS
<1>1. /\ pc \in Roles /\ pend = <<>> /\ sent' = sent
      /\ UNCHANGED <<step, forced, done, run>>
      /\ \/ pc' = "ending" /\ pend' = <<Failed>>
         \/ pc' = pc /\ pend' = <<>>
  BY DEF Recovering, RoleFails, SearchFallback, GiveUpOr, At, GoTo, answerVars
<1>2. CASE pc' = "ending" /\ pend' = <<Failed>>
  BY <1>1, <1>2, ErrorReport DEF Roles, Over
<1>3. CASE pc' = pc /\ pend' = <<>>
  BY <1>1, <1>3, SilentReport DEF OrderInv, PlaceInv, Over, Answered, LastTypes, Roles, Blocking
<1> QED
  BY <1>1, <1>2, <1>3

LEMMA ReportingInOrder == RunnerTypes /\ OutcomeInv /\ OrderInv /\ Reporting => OrderInv'
BY PreparingInOrder, SteppingInOrder, ReviewingInOrder, RecoveringInOrder DEF Reporting

(* A prefix of an orderly sequence is orderly.                              *)
LEMMA OrderlyPrefix ==
    ASSUME NEW s \in Seq(Events), NEW n \in 0..Len(s), Orderly(s)
    PROVE  Orderly(SubSeq(s, 1, n))
<1> DEFINE p == SubSeq(s, 1, n)
<1>1. p \in Seq(Events) /\ Len(p) = n /\ \A i \in 1..n : p[i] = s[i]
  OBVIOUS
<1>2. ASSUME NEW k \in 1..n
      PROVE  Stream!MayFollow(SubSeq(p, 1, k - 1), p[k])
  <2>1. SubSeq(p, 1, k - 1) = SubSeq(s, 1, k - 1)
    OBVIOUS
  <2>2. k \in 1..Len(s) /\ p[k] = s[k]
    BY <1>1
  <2> HIDE DEF p
  <2> QED
    BY <2>1, <2>2 DEF Orderly
<1> HIDE DEF p
<1>3. Orderly(p)
  BY <1>1, <1>2 DEF Orderly
<1> QED
  BY <1>3 DEF p

(* The next event to be sent may follow what was sent.                      *)
LEMMA HeadFollows ==
    ASSUME RunnerTypes, OrderInv, pend # <<>>
    PROVE  /\ Orderly(sent)
           /\ Head(pend) \in Events
           /\ Stream!MayFollow(sent, Head(pend))
<1> DEFINE m == Len(sent)
<1>1. /\ Story \in Seq(Events) /\ sent \in Seq(Events) /\ pend \in Seq(Events) /\ Orderly(Story)
      /\ Len(Story) = m + Len(pend) /\ Len(pend) \in Nat \ {0} /\ m \in Nat
      /\ \A i \in 1..m : Story[i] = sent[i]
      /\ \A i \in 1..Len(pend) : Story[m + i] = pend[i]
  BY StoryFacts, EmptySeq DEF RunnerTypes, OrderInv
<1>2. Head(pend) \in Events /\ Story[m + 1] = Head(pend)
  BY <1>1
<1>3. SubSeq(Story, 1, m) = sent
  <2>1. /\ SubSeq(Story, 1, m) \in Seq(Events) /\ Len(SubSeq(Story, 1, m)) = m
        /\ \A i \in 1..m : SubSeq(Story, 1, m)[i] = sent[i]
    BY <1>1
  <2> QED
    BY <1>1, <2>1, SeqEqual
<1>4. Orderly(sent)
  <2>1. m \in 0..Len(Story)
    BY <1>1
  <2>2. Orderly(SubSeq(Story, 1, m))
    BY <1>1, <2>1, OrderlyPrefix
  <2> QED
    BY <1>3, <2>2
<1>5. m + 1 \in 1..Len(Story) /\ m + 1 - 1 = m
  BY <1>1
<1>6. Stream!MayFollow(SubSeq(Story, 1, m + 1 - 1), Story[m + 1])
  BY <1>1, <1>5 DEF Orderly
<1> QED
  BY <1>2, <1>3, <1>4, <1>5, <1>6

LEMMA CancelInOrder == RunnerTypes /\ OutcomeInv /\ OrderInv /\ CancelTokens => OrderInv'
<1> SUFFICES ASSUME RunnerTypes, OutcomeInv, OrderInv, CancelTokens
             PROVE  OrderInv'
  OBVIOUS
<1>1. /\ pend # <<>> /\ Head(pend).type = "token" /\ pc' = "ending" /\ pend' = <<Cancelled>>
      /\ UNCHANGED <<sent, forced>> /\ sent \in Seq(Events)
  BY DEF CancelTokens, answerVars, RunnerTypes
<1>2. Orderly(sent) /\ Stream!MayFollow(sent, Head(pend))
  BY <1>1, HeadFollows
<1>3. ~Stream!Halted(sent)
  BY <1>1, <1>2 DEF Stream!MayFollow, Stream!EndsWell
<1>4. sent # <<>> => ~Outcome(sent[Len(sent)])
  BY <1>1 DEF OutcomeInv
<1>5. Stream!MayFollow(sent, Cancelled)
  BY <1>1, <1>3, <1>4, ErrorEvents, ErrorFollows DEF Continues, Cancelled, Event
<1>6. Story' = Append(sent, Cancelled)
  BY <1>1, ErrorEvents, AppendIsConcat DEF Story
<1>7. Orderly(Story')
  BY <1>1, <1>2, <1>5, <1>6, ErrorEvents, Grown
<1> QED
  BY <1>1, <1>7 DEF OrderInv, PlaceInv, Over, Answered

LEMMA OrderStep == RunnerTypes /\ OutcomeInv /\ OrderInv /\ [RunNext]_runVars => OrderInv'
<1> SUFFICES ASSUME RunnerTypes, OutcomeInv, OrderInv, [RunNext]_runVars
             PROVE  OrderInv'
  OBVIOUS
<1>1. CASE Reporting
  BY <1>1, ReportingInOrder
<1>2. CASE Send
  <2>1. Story' = Story /\ UNCHANGED <<pc, step, forced, done, run>>
    BY <1>2, StorySent DEF Send, answerVars
  <2> QED
    BY <2>1 DEF OrderInv, PlaceInv, LastEvent, Blocking
<1>3. CASE CancelTokens
  BY <1>3, CancelInOrder
<1>4. CASE Return
  <2>1. UNCHANGED <<pend, sent, forced>> /\ pc' = "closed"
    BY <1>4 DEF Return, chanVars, answerVars
  <2> QED
    BY <2>1 DEF OrderInv, PlaceInv, Story, Over, Answered
<1>5. CASE UNCHANGED <<pc, step, forced, done, run, pend, sent>>
  BY <1>5 DEF OrderInv, PlaceInv, LastEvent, Blocking, Story
<1>6. Receive \/ ReceiveLast \/ CancelRequest \/ UNCHANGED runVars
        => UNCHANGED <<pc, step, forced, done, run, pend, sent>>
  BY DEF Receive, ReceiveLast, TakeEvent, CancelRequest, runVars, chanVars, answerVars
<1> QED
  BY <1>1, <1>2, <1>3, <1>4, <1>5, <1>6, StepKinds

LEMMA OrderInit == RunInit => OrderInv
<1> SUFFICES ASSUME RunInit
             PROVE  OrderInv
  OBVIOUS
<1>1. Story = <<>> /\ pc = "start" /\ step = 0 /\ ~forced
  BY DEF RunInit, Story
<1>2. Stream!Steps(<<>>) = 0
  <2>1. Positions(<<>>, AnswerMessages) = {} /\ <<>> \in Seq(Events)
    BY DEF Positions
  <2> QED
    BY <2>1, StepsCount, FS_EmptySet
<1>3. ~Stream!Halted(<<>>) /\ Orderly(<<>>)
  BY DEF Stream!Halted, Orderly
<1> QED
  BY <1>1, <1>2, <1>3 DEF OrderInv, PlaceInv, Over, Answered

(* The runner implements the abstract order of events.                      *)
THEOREM StreamsAreOrdered == RunSpec => ImplementsStream
<1>1. RunInit => Stream!Init
  BY DEF RunInit, Stream!Init
<1>2. RunnerTypes /\ OutcomeInv /\ OrderInv /\ [RunNext]_runVars
        => [Stream!Next]_<<sent, pc = "closed">>
  <2> SUFFICES ASSUME RunnerTypes, OutcomeInv, OrderInv, [RunNext]_runVars
               PROVE  [Stream!Next]_<<sent, pc = "closed">>
    OBVIOUS
  <2>1. CASE Send
    <3>1. /\ pend # <<>> /\ sent' = Append(sent, Head(pend)) /\ pc' = pc
          /\ sent \in Seq(Events)
      BY <2>1 DEF Send, RunnerTypes
    <3>2. pc # "closed"
      BY <3>1 DEF OutcomeInv
    <3>3. Head(pend) \in Events /\ Stream!MayFollow(sent, Head(pend))
      BY <3>1, HeadFollows
    <3>4. Len(sent') = Len(sent) + 1 /\ sent'[Len(sent')] = Head(pend)
      BY <3>1, <3>3
    <3> QED
      BY <3>1, <3>2, <3>3, <3>4 DEF Stream!Next, Stream!Emit, Stream!Last
  <2>2. CASE Return
    <3>1. /\ pc \in {"record", "ending"} /\ pend = <<>> /\ pc' = "closed" /\ sent' = sent
          /\ sent \in Seq(Events)
      BY <2>2 DEF Return, At, chanVars, RunnerTypes
    <3>2. sent # <<>> /\ Outcome(sent[Len(sent)]) /\ sent[Len(sent)] \in Events
      BY <3>1 DEF OutcomeInv, Over
    <3> QED
      BY <3>1, <3>2 DEF Stream!Next, Stream!End, Stream!Last
  <2>3. Reporting => UNCHANGED <<sent, pc = "closed">>
    <3>1. Reporting => sent' = sent /\ pc # "closed" /\ pc' # "closed"
      BY ReportingReports DEF ReportStep, Over
    <3> QED
      BY <3>1
  <2>4. CancelTokens => UNCHANGED <<sent, pc = "closed">>
    <3>1. CancelTokens => sent' = sent /\ pc # "closed" /\ pc' # "closed"
      BY DEF CancelTokens, OutcomeInv
    <3> QED
      BY <3>1
  <2>5. Receive \/ ReceiveLast \/ CancelRequest \/ UNCHANGED runVars => UNCHANGED <<sent, pc = "closed">>
    BY DEF Receive, ReceiveLast, TakeEvent, CancelRequest, runVars, chanVars
  <2> QED
    BY <2>1, <2>2, <2>3, <2>4, <2>5, StepKinds
<1> QED
  BY <1>1, <1>2, RunnerTyped, OutcomeInit, StepKeepsOutcome, OrderInit, OrderStep, PTL
     DEF RunSpec, ImplementsStream, Stream!Spec

-----------------------------------------------------------------------------
(* All reports but those of the critic and of the end of a step are plain.  *)
Plain(e) ==
    /\ e.type # "reflect" /\ e.info # "blocked_by_reflect"
    /\ e.type = "done" => e.info = "max_steps"

PlainReport ==
    /\ \A i \in 1..Len(pend') : Plain(pend'[i]) /\ (pend'[i].type = "token" => pc' = "tools")
    /\ forced' = forced /\ run' = run /\ pc # "finish"

LEMMA PlainPreparing == Preparing => PlainReport
<1> SUFFICES ASSUME Preparing
             PROVE  PlainReport
  OBVIOUS
<1>0. forced' = forced /\ run' = run /\ pc # "finish"
  BY DEF Preparing, LoadContext, InitialTool, ToolFails, BeginPlanning, SkipPlanning,
         PlannerAnswers, At, GoTo, answerVars
<1>1. \/ pend' = <<>> \/ pend' = <<Failed>>
      \/ \E info \in {"ok", "tool failed"} : pend' = <<Event("tool", 0, info)>>
      \/ pend' = <<Event("plan", 0, "ok")>>
  BY DEF Preparing, LoadContext, InitialTool, ToolFails, BeginPlanning, SkipPlanning,
         PlannerAnswers, At, GoTo, answerVars
<1>2. CASE pend' = <<>>
  BY <1>0, <1>2 DEF PlainReport
<1>3. ASSUME NEW e, Plain(e), e.type # "token", pend' = <<e>>
      PROVE  PlainReport
  BY <1>0, <1>3 DEF PlainReport
<1> QED
  BY <1>1, <1>2, <1>3 DEF Event, Failed, Plain

LEMMA PlainStepping == RunnerTypes /\ Stepping => PlainReport
<1> SUFFICES ASSUME RunnerTypes, Stepping
             PROVE  PlainReport
  OBVIOUS
<1>0. forced' = forced /\ run' = run /\ pc # "finish"
  BY DEF Stepping, StopAtLimit, StopCancelled, BeginStep, CoderAnswers, StepTool, ToolFails,
         JudgeAnswer, At, GoTo, answerVars
<1>1. CASE CoderAnswers
  <2>1. pend' = AnswerEvents(answer') /\ answer' \in Answers /\ pc' = "tools" /\ step \in Nat
    BY <1>1, RunnerFacts DEF CoderAnswers, GoTo
  <2>2. ASSUME NEW a \in Answers, NEW i \in 1..Len(AnswerEvents(a))
        PROVE  Plain(AnswerEvents(a)[i])
    <3> DEFINE head == <<Event("message", step, "answer")>>
               words == Words(a)
    <3>1. words \in Seq(Events) /\ \A k \in 1..Len(words) : words[k].type = "token" /\ words[k].info = "ok"
      BY <2>1, WordsFacts
    <3>2. head \in Seq(Events) /\ Len(head) = 1
      <4>1. Event("message", step, "answer") \in Events
        BY <2>1 DEF Event, Events, Infos
      <4> QED
        BY <4>1
    <3>3. head[1].type = "message" /\ head[1].info = "answer"
      BY DEF Event
    <3>4. AnswerEvents(a) = head \o words
      BY DEF AnswerEvents
    <3> HIDE DEF head, words
    <3>5. \/ AnswerEvents(a)[i].type = "message" /\ AnswerEvents(a)[i].info = "answer"
          \/ AnswerEvents(a)[i].type = "token" /\ AnswerEvents(a)[i].info = "ok"
      <4>1. /\ Len(head \o words) = Len(head) + Len(words)
            /\ \A j \in 1..Len(head) + Len(words) :
                 (head \o words)[j] = IF j <= Len(head) THEN head[j] ELSE words[j - Len(head)]
        <5>1. head \in Seq(Events) /\ words \in Seq(Events)
          BY <3>1, <3>2
        <5> QED
          BY <5>1, ConcatProperties, Zenon
      <4>2. i \in 1..1 + Len(words) /\ Len(words) \in Nat
        BY <2>2, <3>1, <3>2, <3>4, <4>1
      <4>3. AnswerEvents(a)[i] = IF i <= 1 THEN head[i] ELSE words[i - 1]
        BY <3>2, <3>4, <4>1, <4>2
      <4>4. CASE i = 1
        BY <3>3, <4>3, <4>4
      <4>5. CASE i > 1
        BY <3>1, <4>2, <4>3, <4>5
      <4> QED
        BY <4>2, <4>4, <4>5
    <3> QED
      BY <3>5 DEF Plain
  <2> QED
    BY <1>0, <2>1, <2>2 DEF PlainReport
<1>2. CASE ~CoderAnswers
  <2>1. \/ pend' = <<>> \/ pend' = <<Cancelled>>
        \/ pend' = <<Event("done", step, "max_steps")>>
        \/ \E info \in {"ok", "tool failed"} : pend' = <<Event("tool", 0, info)>>
    BY <1>2 DEF Stepping, StopAtLimit, StopCancelled, BeginStep, StepTool, ToolFails,
         JudgeAnswer, At, GoTo
  <2>2. CASE pend' = <<>>
    BY <1>0, <2>2 DEF PlainReport
  <2>3. ASSUME NEW e, Plain(e), e.type # "token", pend' = <<e>>
        PROVE  PlainReport
    BY <1>0, <2>3 DEF PlainReport
  <2> QED
    BY <2>1, <2>2, <2>3 DEF Event, Cancelled, Plain
<1> QED
  BY <1>1, <1>2

LEMMA PlainReviewing == Reviewing => PlainReport \/ CriticAnswers \/ FinishStep
<1> SUFFICES ASSUME Reviewing, ~CriticAnswers, ~FinishStep
             PROVE  PlainReport
  OBVIOUS
<1>0. forced' = forced /\ run' = run /\ pc # "finish"
  BY DEF Reviewing, TestsPass, TestsFail, BeginReflection, SkipReflection, At, GoTo, answerVars
<1>1. \/ pend' = <<>>
      \/ \E n \in {attempts, attempts'}, info \in {"passed", "tests failed"} :
           pend' = <<Event("test", n, info)>>
  BY DEF Reviewing, TestsPass, TestsFail, BeginReflection, SkipReflection, At, GoTo, answerVars
<1>2. CASE pend' = <<>>
  BY <1>0, <1>2 DEF PlainReport
<1>3. ASSUME NEW e, Plain(e), e.type # "token", pend' = <<e>>
      PROVE  PlainReport
  BY <1>0, <1>3 DEF PlainReport
<1> QED
  BY <1>1, <1>2, <1>3 DEF Event, Plain

LEMMA PlainRecovering == Recovering => PlainReport
<1> SUFFICES ASSUME Recovering
             PROVE  PlainReport
  OBVIOUS
<1>1. /\ pend' = <<>> \/ pend' = <<Failed>>
      /\ forced' = forced /\ run' = run /\ pc # "finish"
  BY DEF Recovering, RoleFails, SearchFallback, GiveUpOr, At, GoTo, answerVars, Roles
<1>2. CASE pend' = <<>>
  BY <1>1, <1>2 DEF PlainReport
<1>3. CASE pend' = <<Failed>>
  BY <1>1, <1>3 DEF PlainReport, Plain, Failed, Event
<1> QED
  BY <1>1, <1>2, <1>3

LEMMA PlainReports ==
    ASSUME RunnerTypes, Reporting
    PROVE  PlainReport \/ CriticAnswers \/ FinishStep
BY PlainPreparing, PlainStepping, PlainReviewing, PlainRecovering DEF Reporting

(* A report lengthens the story by its events.                              *)
LEMMA StoryExtends ==
    ASSUME RunnerTypes, pend = <<>>, sent' = sent, pend' \in Seq(Events)
    PROVE  /\ Story = sent /\ Story \in Seq(Events)
           /\ Story' \in Seq(Events) /\ Len(Story') = Len(Story) + Len(pend')
           /\ \A i \in 1..Len(Story) : Story'[i] = Story[i]
           /\ \A i \in 1..Len(Story') : i > Len(Story) =>
                i - Len(Story) \in 1..Len(pend') /\ Story'[i] = pend'[i - Len(Story)]
<1>1. Story = sent /\ sent \in Seq(Events)
  BY StoryFacts DEF RunnerTypes
<1>2. Story' = sent \o pend'
  BY DEF Story
<1>3. /\ sent \o pend' \in Seq(Events)
      /\ Len(sent \o pend') = Len(sent) + Len(pend')
      /\ \A i \in 1..Len(sent) + Len(pend') :
           (sent \o pend')[i] = IF i <= Len(sent) THEN sent[i] ELSE pend'[i - Len(sent)]
  BY <1>1, ConcatProperties, Zenon
<1>4. Len(sent) \in Nat /\ Len(pend') \in Nat
  BY <1>1
<1> QED
  BY <1>1, <1>2, <1>3, <1>4

-----------------------------------------------------------------------------
(* Why a blocked run halts: until the critic blocks it no event is about    *)
(* blocking; when it has, the critique is the last event of the story and   *)
(* the run is at the end of its step, which adds the halt and nothing else. *)
Clear(e) == ~Blocking(e) /\ e.info # "blocked_by_reflect"

HaltsAfter(s) ==
    /\ \A i, j \in 1..Len(s) :
         Blocking(s[i]) /\ i < j => s[j].info \in {"halted", "blocked_by_reflect"}
    /\ \A j \in 1..Len(s) : s[j].info = "blocked_by_reflect" =>
         \E i \in 1..j - 1 : Blocking(s[i])

BlockInv ==
    /\ \A i \in 1..Len(pend) : pend[i].type = "token" => pc = "tools"
    /\ pc \notin Over /\ ~forced => \A i \in 1..Len(Story) : Clear(Story[i])
    /\ pc = "finish" /\ forced => \A i \in 1..Len(Story) - 1 : Clear(Story[i])
    /\ HaltsAfter(Story)

LEMMA ClearStory ==
    ASSUME NEW s \in Seq(Events), \A i \in 1..Len(s) : Clear(s[i])
    PROVE  HaltsAfter(s)
BY DEF HaltsAfter, Clear

(* A plain report keeps the story clear.                                    *)
LEMMA PlainKeepsClear ==
    ASSUME RunnerTypes, OrderInv, BlockInv, ReportStep, PlainReport
    PROVE  BlockInv'
<1>1. /\ pend = <<>> /\ sent' = sent /\ pend' \in Seq(Events) /\ pc \notin Over \cup {"finish"}
      /\ run' = run /\ forced' = forced
      /\ \A i \in 1..Len(pend') : Plain(pend'[i]) /\ (pend'[i].type = "token" => pc' = "tools")
  BY DEF ReportStep, Quiet, Final, PlainReport
<1>2. ~forced /\ \A i \in 1..Len(Story) : Clear(Story[i])
  BY <1>1 DEF OrderInv, PlaceInv, BlockInv
<1>3. /\ Story \in Seq(Events) /\ Story' \in Seq(Events)
      /\ \A i \in 1..Len(Story) : Story'[i] = Story[i]
      /\ \A i \in 1..Len(Story') : i > Len(Story) =>
           i - Len(Story) \in 1..Len(pend') /\ Story'[i] = pend'[i - Len(Story)]
  BY <1>1, StoryExtends
<1>4. ASSUME NEW i \in 1..Len(Story')
      PROVE  Clear(Story'[i])
  <2>1. CASE i <= Len(Story)
    <3>1. i \in 1..Len(Story)
      BY <1>3, <2>1
    <3> QED
      BY <1>2, <1>3, <3>1
  <2>2. CASE i > Len(Story)
    <3>1. Plain(Story'[i])
      BY <1>1, <1>3, <2>2
    <3> QED
      BY <3>1 DEF Plain, Clear, Blocking
  <2> QED
    BY <1>3, <2>1, <2>2
<1>5. \A i \in 1..Len(Story') : Clear(Story'[i])
  BY <1>4
<1>6. HaltsAfter(Story')
  BY <1>3, <1>5, ClearStory
<1> QED
  BY <1>1, <1>2, <1>5, <1>6 DEF BlockInv, Clear, Blocking, HaltsAfter

(* The critic's answer, and the end of a step, in terms of what they report.*)
LEMMA CriticReports ==
    ASSUME RunnerTypes, CriticAnswers
    PROVE  /\ pc = "critic" /\ pc' = "finish" /\ pend = <<>>
           /\ UNCHANGED <<sent, run, step, attempts>>
           /\ \/ pend' = <<>> /\ UNCHANGED <<done, forced>>
              \/ \E verdict \in {"plain", "blocks"} :
                   /\ pend' = <<Event("reflect", step, verdict)>>
                   /\ done' = (done \/ Blocks(verdict)) /\ forced' = (forced \/ Blocks(verdict))
<1>1. /\ pc = "critic" /\ pc' = "finish" /\ pend = <<>>
      /\ UNCHANGED <<sent, run, step, attempts>>
  BY DEF CriticAnswers, At, GoTo
<1>2. PICK verdict \in {"blank", "plain", "blocks"} :
           /\ pend' = IF verdict = "blank" THEN <<>> ELSE <<Event("reflect", step, verdict)>>
           /\ done' = (done \/ Blocks(verdict)) /\ forced' = (forced \/ Blocks(verdict))
  BY DEF CriticAnswers, GoTo
<1>3. done \in BOOLEAN /\ forced \in BOOLEAN
  BY DEF RunnerTypes
<1>4. CASE verdict = "blank"
  <2>1. pend' = <<>> /\ ~Blocks(verdict)
    BY <1>2, <1>4 DEF Blocks
  <2> QED
    BY <1>1, <1>2, <1>3, <2>1
<1>5. CASE verdict # "blank"
  <2>1. verdict \in {"plain", "blocks"} /\ pend' = <<Event("reflect", step, verdict)>>
    BY <1>2, <1>5
  <2> QED
    BY <1>1, <1>2, <2>1
<1> QED
  BY <1>4, <1>5

LEMMA FinishReports ==
    ASSUME FinishStep
    PROVE  /\ pc = "finish" /\ pend = <<>>
           /\ UNCHANGED <<sent, run, step, done, forced>>
           /\ \/ ~done /\ pc' = "step" /\ pend' = <<>>
              \/ /\ done /\ ~forced /\ pc' = "record"
                 /\ pend' = <<Event("done", step, answer.finish)>>
              \/ /\ done /\ forced /\ pc' = "record"
                 /\ pend' = <<Event("message", step, "halted"),
                              Event("done", step, "blocked_by_reflect")>>
BY DEF FinishStep, At, GoTo, answerVars

LEMMA CriticKeepsBlock ==
    ASSUME RunnerTypes, OrderInv, BlockInv, CriticAnswers
    PROVE  BlockInv'
<1> DEFINE n == Len(Story)
<1>1. /\ pc = "critic" /\ pc' = "finish" /\ pend = <<>> /\ sent' = sent /\ run' = run
      /\ ~forced /\ Story \in Seq(Events) /\ n \in Nat /\ step \in Nat
  BY CriticReports, StoryFacts, RunnerFacts DEF OrderInv, PlaceInv, Over
<1>2. \A i \in 1..n : Clear(Story[i])
  BY <1>1 DEF BlockInv, Over
<1>3. CASE pend' = <<>> /\ UNCHANGED <<done, forced>>
  <2>1. Story' = Story
    BY <1>1, <1>3, StoryRests
  <2> QED
    BY <1>1, <1>2, <1>3, <2>1 DEF BlockInv, Clear, Blocking, HaltsAfter
<1>4. ASSUME NEW verdict \in {"plain", "blocks"},
             pend' = <<Event("reflect", step, verdict)>>, forced' = (forced \/ Blocks(verdict))
      PROVE  BlockInv'
  <2> DEFINE e == Event("reflect", step, verdict)
  <2>1. e \in Events /\ e.type = "reflect" /\ e.info = verdict
    BY <1>1 DEF Event, Events, Infos
  <2> HIDE DEF e
  <2>2. Story' = Append(Story, e)
    BY <1>1, <1>4, <2>1, StoryAdds DEF e
  <2>3. /\ Len(Story') = n + 1 /\ Story'[n + 1] = e /\ Story' \in Seq(Events)
        /\ \A i \in 1..n : Story'[i] = Story[i]
    BY <1>1, <2>1, <2>2
  <2>4. Blocking(e) <=> forced'
    BY <1>1, <1>4, <2>1 DEF Blocking, Blocks
  <2>5. e.info # "blocked_by_reflect" /\ e.type # "token"
    BY <2>1
  <2>6. \A i \in 1..n : Clear(Story'[i])
    BY <1>2, <2>3
  <2>7. \A i \in 1..n + 1 : Story'[i].info # "blocked_by_reflect"
    BY <1>1, <2>3, <2>5, <2>6 DEF Clear
  <2>8. HaltsAfter(Story')
    BY <1>1, <2>3, <2>6, <2>7 DEF HaltsAfter, Clear
  <2>9. ~forced' => \A i \in 1..n + 1 : Clear(Story'[i])
    BY <1>1, <2>3, <2>4, <2>5, <2>6 DEF Clear
  <2>10. \A i \in 1..Len(pend') : pend'[i].type # "token"
    BY <1>4, <2>5 DEF e
  <2>11. n + 1 - 1 = n
    BY <1>1
  <2> QED
    BY <1>1, <2>3, <2>6, <2>8, <2>9, <2>10, <2>11 DEF BlockInv, Clear, Blocking, HaltsAfter
<1> QED
  BY <1>3, <1>4, CriticReports

LEMMA FinishKeepsBlock ==
    ASSUME RunnerTypes, OrderInv, BlockInv, FinishStep
    PROVE  BlockInv'
<1> DEFINE n == Len(Story)
<1>1. /\ pc = "finish" /\ pend = <<>> /\ UNCHANGED <<sent, run, step, done, forced>>
      /\ Story \in Seq(Events) /\ n \in Nat /\ Story = sent /\ step \in Nat
      /\ forced => done /\ Blocking(LastEvent)
      /\ Story # <<>> /\ answer.finish \in {"none", "length", "stop"}
  <2>1. answer \in Answers \cup {NoAnswer}
    BY DEF RunnerTypes
  <2> QED
    BY <2>1, AnswerFacts, FinishReports, StoryFacts, RunnerFacts DEF OrderInv, PlaceInv, Answered
<1>2. CASE ~done /\ pc' = "step" /\ pend' = <<>>
  <2>1. Story' = Story /\ ~forced
    BY <1>1, <1>2, StoryRests
  <2> QED
    BY <1>1, <1>2, <2>1 DEF BlockInv, Clear, Blocking, HaltsAfter, Over
<1>3. CASE ~forced /\ pc' = "record" /\ pend' = <<Event("done", step, answer.finish)>>
  <2> DEFINE e == Event("done", step, answer.finish)
  <2>1. e \in Events /\ e.type = "done" /\ e.info # "blocked_by_reflect" /\ e.type # "token"
    BY <1>1 DEF Event, Events, Infos
  <2> HIDE DEF e
  <2>2. Story' = Append(Story, e)
    BY <1>1, <1>3, <2>1, StoryAdds DEF e
  <2>3. /\ Len(Story') = n + 1 /\ Story'[n + 1] = e /\ Story' \in Seq(Events)
        /\ \A i \in 1..n : Story'[i] = Story[i]
    BY <1>1, <2>1, <2>2
  <2>4. \A i \in 1..n + 1 : Clear(Story'[i])
    BY <1>1, <1>3, <2>1, <2>3 DEF BlockInv, Over, Clear, Blocking
  <2>5. HaltsAfter(Story')
    BY <2>3, <2>4, ClearStory
  <2>6. \A i \in 1..Len(pend') : pend'[i].type # "token"
    BY <1>3, <2>1 DEF e
  <2> QED
    BY <1>1, <1>3, <2>5, <2>6 DEF BlockInv, Clear, Blocking, HaltsAfter, Over
<1>4. CASE /\ forced /\ pc' = "record"
           /\ pend' = <<Event("message", step, "halted"), Event("done", step, "blocked_by_reflect")>>
  <2> DEFINE h == Event("message", step, "halted")
             e == Event("done", step, "blocked_by_reflect")
  <2>1. /\ h \in Events /\ h.info = "halted" /\ h.type = "message"
        /\ e \in Events /\ e.info = "blocked_by_reflect" /\ e.type = "done"
    BY <1>1 DEF Event, Events, Infos
  <2> HIDE DEF h, e
  <2>2. pend' = <<h, e>>
    BY <1>4 DEF h, e
  <2>3. /\ Len(Story') = n + 2 /\ Story'[n + 1] = h /\ Story'[n + 2] = e /\ Story' \in Seq(Events)
        /\ \A i \in 1..n : Story'[i] = Story[i]
    <3>1. Story' = sent \o <<h, e>> /\ <<h, e>> \in Seq(Events) /\ Len(<<h, e>>) = 2
      BY <1>1, <2>1, <2>2 DEF Story
    <3> QED
      BY <1>1, <3>1, ConcatProperties
  <2>4. n # 0 /\ n \in 1..n + 1 /\ Blocking(Story'[n])
    <3>1. n # 0 /\ n \in 1..n
      BY <1>1, EmptySeq
    <3> QED
      BY <1>1, <1>4, <2>3, <3>1 DEF LastEvent
  <2>5. \A i \in 1..n - 1 : Clear(Story'[i])
    BY <1>1, <1>4, <2>3 DEF BlockInv
  <2>6. ~Blocking(h) /\ ~Blocking(e)
    BY <2>1 DEF Blocking
  <2>7. \A i \in 1..n + 2 : Blocking(Story'[i]) => i = n
    <3> TAKE i \in 1..n + 2
    <3>1. i \in 1..n - 1 \/ i = n \/ i = n + 1 \/ i = n + 2
      BY <1>1
    <3> QED
      BY <2>3, <2>5, <2>6, <3>1 DEF Clear
  <2>8. \A j \in 1..n + 2 : Story'[j].info = "blocked_by_reflect" => j = n + 2
    <3> TAKE j \in 1..n + 2
    <3>1. j \in 1..n - 1 \/ j = n \/ j = n + 1 \/ j = n + 2
      BY <1>1
    <3>2. Story'[n].info # "blocked_by_reflect"
      BY <2>4 DEF Blocking
    <3> QED
      BY <2>1, <2>3, <2>5, <3>1, <3>2 DEF Clear
  <2>9. HaltsAfter(Story')
    <3>1. ASSUME NEW i \in 1..n + 2, NEW j \in 1..n + 2, Blocking(Story'[i]), i < j
          PROVE  Story'[j].info \in {"halted", "blocked_by_reflect"}
      <4>1. j = n + 1 \/ j = n + 2
        BY <1>1, <2>7, <3>1
      <4> QED
        BY <2>1, <2>3, <4>1
    <3>2. ASSUME NEW j \in 1..n + 2, Story'[j].info = "blocked_by_reflect"
          PROVE  \E i \in 1..j - 1 : Blocking(Story'[i])
      <4>1. n \in 1..j - 1
        BY <1>1, <2>4, <2>8, <3>2
      <4> QED
        BY <2>4, <4>1
    <3> QED
      BY <2>3, <3>1, <3>2 DEF HaltsAfter
  <2>10. \A i \in 1..Len(pend') : pend'[i].type # "token"
    BY <2>1, <2>2
  <2> QED
    BY <1>1, <1>4, <2>9, <2>10 DEF BlockInv, Clear, Blocking, HaltsAfter, Over
<1> QED
  BY <1>1, <1>2, <1>3, <1>4, FinishReports

(* Sending moves an event from what waits to what was sent.                 *)
LEMMA PendingSent ==
    ASSUME RunnerTypes, Send
    PROVE  /\ Len(pend') = Len(pend) - 1 /\ Len(pend) \in Nat
           /\ \A i \in 1..Len(pend) - 1 : pend'[i] = pend[i + 1]
<1>1. pend \in Seq(Events) /\ pend # <<>> /\ pend' = Tail(pend)
  BY DEF RunnerTypes, Send
<1>2. /\ Len(Tail(pend)) = Len(pend) - 1
      /\ \A i \in 1..Len(Tail(pend)) : Tail(pend)[i] = pend[i + 1]
  BY <1>1, HeadTailProperties
<1> QED
  BY <1>1, <1>2

(* What a cancelled answer leaves: the story sent so far, and the error.    *)
LEMMA CancelledStory ==
    ASSUME RunnerTypes, BlockInv, CancelTokens
    PROVE  /\ pc = "tools" /\ pc' = "ending" /\ pend' = <<Cancelled>>
           /\ UNCHANGED <<run, forced, done>>
           /\ Len(sent) \in Nat /\ Story \in Seq(Events) /\ Len(sent) <= Len(Story)
           /\ Story' \in Seq(Events) /\ Len(Story') = Len(sent) + 1
           /\ Story'[Len(sent) + 1] = Cancelled
           /\ \A i \in 1..Len(sent) : Story'[i] = Story[i]
<1>1. /\ pend # <<>> /\ Head(pend).type = "token" /\ pc' = "ending" /\ pend' = <<Cancelled>>
      /\ UNCHANGED <<sent, run, forced, done>>
      /\ sent \in Seq(Events) /\ pend \in Seq(Events)
  BY DEF CancelTokens, answerVars, RunnerTypes
<1>2. pc = "tools"
  <2>1. 1 \in 1..Len(pend) /\ pend[1] = Head(pend)
    BY <1>1, EmptySeq
  <2> QED
    BY <1>1, <2>1 DEF BlockInv
<1>3. Story' = Append(sent, Cancelled)
  BY <1>1, ErrorEvents, AppendIsConcat DEF Story
<1>4. /\ Story' \in Seq(Events) /\ Len(Story') = Len(sent) + 1
      /\ Story'[Len(sent) + 1] = Cancelled
      /\ \A i \in 1..Len(sent) : Story'[i] = sent[i]
  BY <1>1, <1>3, ErrorEvents
<1>5. /\ Story \in Seq(Events) /\ Len(sent) \in Nat /\ Len(sent) <= Len(Story)
      /\ \A i \in 1..Len(sent) : Story[i] = sent[i]
  <2>1. Len(sent) \in Nat /\ Len(pend) \in Nat
    BY <1>1
  <2> QED
    BY <2>1, StoryFacts
<1> QED
  BY <1>1, <1>2, <1>4, <1>5

LEMMA BlockStep == RunnerTypes /\ OrderInv /\ BlockInv /\ [RunNext]_runVars => BlockInv'
<1> SUFFICES ASSUME RunnerTypes, OrderInv, BlockInv, [RunNext]_runVars
             PROVE  BlockInv'
  OBVIOUS
<1>1. CASE Reporting
  BY <1>1, ReportingReports, PlainReports, PlainKeepsClear, CriticKeepsBlock, FinishKeepsBlock
<1>2. CASE Send
  <2>1. Story' = Story /\ UNCHANGED <<pc, forced, run>>
    BY <1>2, StorySent DEF Send, answerVars
  <2>2. \A i \in 1..Len(pend') : pend'[i].type = "token" => pc' = "tools"
    <3> TAKE i \in 1..Len(pend')
    <3>1. i + 1 \in 1..Len(pend) /\ pend'[i] = pend[i + 1]
      BY <1>2, PendingSent
    <3> QED
      BY <2>1, <3>1 DEF BlockInv
  <2> QED
    BY <2>1, <2>2 DEF BlockInv, Clear, Blocking, HaltsAfter
<1>3. CASE CancelTokens
  <2> DEFINE m == Len(sent)
  <2>1. /\ pc = "tools" /\ pc' = "ending" /\ pend' = <<Cancelled>> /\ run' = run
        /\ m \in Nat /\ m <= Len(Story) /\ Len(Story) \in Nat
        /\ Story' \in Seq(Events) /\ Len(Story') = m + 1 /\ Story'[m + 1] = Cancelled
        /\ \A i \in 1..m : Story'[i] = Story[i]
    BY <1>3, CancelledStory
  <2>2. ~forced
    BY <2>1 DEF OrderInv, PlaceInv, Over
  <2>3. Clear(Cancelled) /\ Cancelled.type # "token"
    BY DEF Clear, Blocking, Cancelled, Event
  <2>4. \A i \in 1..m : Clear(Story[i])
    BY <2>1, <2>2 DEF BlockInv, Over
  <2>5. \A i \in 1..m + 1 : Clear(Story'[i])
    BY <2>1, <2>3, <2>4
  <2>6. HaltsAfter(Story')
    BY <2>1, <2>5, ClearStory
  <2>7. \A i \in 1..Len(pend') : pend'[i].type # "token"
    BY <2>1, <2>3
  <2> QED
    BY <2>1, <2>6, <2>7 DEF BlockInv, Clear, Blocking, HaltsAfter, Over
<1>4. CASE Return
  <2>1. UNCHANGED <<pend, sent, forced, run>> /\ pc' = "closed" /\ pc \in Over /\ pend = <<>>
    BY <1>4 DEF Return, At, Over, chanVars, answerVars
  <2>2. Story' = Story
    BY <2>1 DEF Story
  <2> QED
    BY <2>1, <2>2 DEF BlockInv, Clear, Blocking, HaltsAfter, Over
<1>5. CASE UNCHANGED <<pc, forced, run, pend, sent>>
  <2>1. Story' = Story
    BY <1>5 DEF Story
  <2> QED
    BY <1>5, <2>1 DEF BlockInv, Clear, Blocking, HaltsAfter
<1>6. Receive \/ ReceiveLast \/ CancelRequest \/ UNCHANGED runVars =>
        UNCHANGED <<pc, forced, run, pend, sent>>
  BY DEF Receive, ReceiveLast, TakeEvent, CancelRequest, runVars, chanVars, answerVars
<1> QED
  BY <1>1, <1>2, <1>3, <1>4, <1>5, <1>6, StepKinds

LEMMA OrderHolds == RunSpec => [](RunnerTypes /\ OutcomeInv /\ OrderInv)
BY RunnerTyped, OutcomeInit, StepKeepsOutcome, OrderInit, OrderStep, PTL DEF RunSpec

LEMMA BlockHolds == RunSpec => []BlockInv
<1>1. RunInit => BlockInv
  BY DEF RunInit, BlockInv, HaltsAfter, Story
<1> QED
  BY <1>1, BlockStep, OrderHolds, PTL DEF RunSpec

(* A run that the policy blocks does no more work, and only such a run ends *)
(* with the reason of a block.                                              *)
THEOREM BlocksHalt == RunSpec => []BlockedRunHalts
<1>1. RunnerTypes /\ BlockInv => BlockedRunHalts
  <2> SUFFICES ASSUME RunnerTypes, BlockInv
               PROVE  BlockedRunHalts
    OBVIOUS
  <2>1. /\ DOMAIN sent = 1..Len(sent) /\ Len(sent) \in Nat /\ Len(Story) \in Nat
        /\ Len(sent) <= Len(Story)
        /\ \A i \in 1..Len(sent) : Story[i] = sent[i]
    <3>1. sent \in Seq(Events) /\ pend \in Seq(Events)
      BY DEF RunnerTypes
    <3>2. DOMAIN sent = 1..Len(sent) /\ Len(sent) \in Nat /\ Len(pend) \in Nat
      BY <3>1
    <3> QED
      BY <3>2, StoryFacts
  <2>2. HaltsAfter(Story)
    BY DEF BlockInv
  <2>3. ASSUME NEW i \in 1..Len(sent), NEW j \in i + 1..Len(sent), Blocking(sent[i])
        PROVE  sent[j].info \in {"halted", "blocked_by_reflect"}
    <3>1. i \in 1..Len(Story) /\ j \in 1..Len(Story) /\ i < j /\ j \in 1..Len(sent)
      BY <2>1
    <3> QED
      BY <2>1, <2>2, <2>3, <3>1 DEF HaltsAfter
  <2>4. ASSUME NEW j \in 1..Len(sent), sent[j].info = "blocked_by_reflect"
        PROVE  \E i \in 1..j - 1 : Blocking(sent[i])
    <3>1. j \in 1..Len(Story)
      BY <2>1
    <3>2. PICK i \in 1..j - 1 : Blocking(Story[i])
      BY <2>1, <2>2, <2>4, <3>1 DEF HaltsAfter
    <3>3. i \in 1..Len(sent)
      BY <2>1
    <3> QED
      BY <2>1, <3>2, <3>3
  <2> QED
    BY <2>1, <2>3, <2>4 DEF BlockedRunHalts
<1> QED
  BY <1>1, OrderHolds, BlockHolds, PTL

-----------------------------------------------------------------------------
(* Why no answer ends the run untested: from the tests on, a final answer   *)
(* has a test event behind it and no message after that.                    *)
NeedsTest(e) ==
    /\ run.tests /\ e.type = "done"
    /\ e.info \notin {"max_steps", "blocked_by_reflect"}

TestedUpTo(s, n) ==
    \E i \in 1..n : s[i].type = "test" /\ \A k \in i..n : s[k].type # "message"

TestInv ==
    /\ \A j \in 1..Len(Story) : NeedsTest(Story[j]) => TestedUpTo(Story, j)
    /\ run.tests /\ done /\ ~forced /\ pc \in {"reflect", "critic", "finish"} =>
         TestedUpTo(Story, Len(Story))

(* A sequence that begins as another does is tested up to the same places.  *)
LEMMA TestsStay ==
    ASSUME NEW s, NEW u, NEW n \in Nat, NEW j \in 1..n, \A i \in 1..n : u[i] = s[i],
           TestedUpTo(s, j)
    PROVE  TestedUpTo(u, j)
<1>1. PICK i \in 1..j : s[i].type = "test" /\ \A k \in i..j : s[k].type # "message"
  BY DEF TestedUpTo
<1>2. u[i].type = "test"
  BY <1>1
<1>3. ASSUME NEW k \in i..j
      PROVE  u[k].type # "message"
  BY <1>1, <1>3
<1> QED
  BY <1>2, <1>3 DEF TestedUpTo

(* One more event, which is no message, leaves a tested story tested.       *)
LEMMA TestedStays ==
    ASSUME NEW s \in Seq(Events), NEW e \in Events, e.type # "message",
           TestedUpTo(s, Len(s)) \/ e.type = "test"
    PROVE  TestedUpTo(Append(s, e), Len(s) + 1)
<1> DEFINE u == Append(s, e)
           n == Len(s)
<1>1. n \in Nat /\ u[n + 1] = e /\ \A i \in 1..n : u[i] = s[i]
  OBVIOUS
<1> HIDE DEF u
<1>2. CASE e.type = "test"
  <2>1. n + 1 \in 1..n + 1 /\ \A k \in n + 1..n + 1 : u[k].type # "message"
    BY <1>1
  <2> QED
    BY <1>1, <1>2, <2>1 DEF TestedUpTo, u
<1>3. CASE TestedUpTo(s, n)
  <2>1. PICK i \in 1..n : s[i].type = "test" /\ \A k \in i..n : s[k].type # "message"
    BY <1>3 DEF TestedUpTo
  <2>2. \A k \in i..n + 1 : u[k].type # "message"
    BY <1>1, <2>1
  <2>3. i \in 1..n + 1 /\ u[i].type = "test"
    BY <1>1, <2>1
  <2> QED
    BY <2>2, <2>3 DEF TestedUpTo, u
<1> QED
  BY <1>2, <1>3

(* How a run comes to the places where a final answer must be tested.       *)
LEMMA ReviewedAfter ==
    ASSUME RunnerTypes, Reporting, ~CriticAnswers, ~FinishStep,
           pc' \in {"reflect", "critic", "finish"}
    PROVE  \/ ~(run.tests /\ done') /\ pend' = <<>>
           \/ /\ done' = done
              /\ \E n \in Nat, info \in {"passed", "tests failed"} : pend' = <<Event("test", n, info)>>
           \/ done' = done /\ pend' = <<>> /\ pc \in {"reflect", "critic"}
<1>0. attempts \in Nat /\ attempts + 1 \in Nat
  BY DEF RunnerTypes
<1>1. CASE JudgeAnswer
  BY <1>1 DEF JudgeAnswer, AfterTools, GoTo
<1>2. CASE TestsPass
  BY <1>0, <1>2 DEF TestsPass, GoTo, answerVars
<1>3. CASE TestsFail
  <2>1. attempts' = attempts + 1 /\ done' = done
    BY <1>3 DEF TestsFail, answerVars
  <2>2. pend' = <<Event("test", attempts', "tests failed")>>
    BY <1>3 DEF TestsFail, GoTo
  <2> QED
    BY <1>0, <2>1, <2>2
<1>4. CASE BeginReflection \/ SkipReflection
  BY <1>4 DEF BeginReflection, SkipReflection, At, GoTo, answerVars
<1>5. CASE Recovering
  BY <1>5 DEF Recovering, RoleFails, SearchFallback, GiveUpOr, GoTo, answerVars, Roles
<1>6. ~Preparing
  BY DEF Preparing, LoadContext, InitialTool, ToolFails, BeginPlanning, SkipPlanning,
         PlannerAnswers, GoTo
<1>7. Stepping => JudgeAnswer
  BY DEF Stepping, StopAtLimit, StopCancelled, BeginStep, CoderAnswers, StepTool, ToolFails, GoTo
<1> QED
  BY <1>1, <1>2, <1>3, <1>4, <1>5, <1>6, <1>7 DEF Reporting, Reviewing

LEMMA PlainKeepsTested ==
    ASSUME RunnerTypes, OrderInv, TestInv, Reporting, ~CriticAnswers, ~FinishStep
    PROVE  TestInv'
<1>1. /\ pend = <<>> /\ sent' = sent /\ pend' \in Seq(Events)
      /\ run' = run /\ forced' = forced
      /\ \A i \in 1..Len(pend') : Plain(pend'[i])
  BY ReportingReports, PlainReports DEF ReportStep, Quiet, Final, PlainReport
<1>2. /\ Story \in Seq(Events) /\ Story' \in Seq(Events) /\ Len(Story) \in Nat
      /\ \A i \in 1..Len(Story) : Story'[i] = Story[i]
      /\ \A i \in 1..Len(Story') : i > Len(Story) =>
           i - Len(Story) \in 1..Len(pend') /\ Story'[i] = pend'[i - Len(Story)]
  BY <1>1, StoryExtends
<1>3. ASSUME NEW j \in 1..Len(Story'), NeedsTest(Story'[j])
      PROVE  TestedUpTo(Story', j)
  <2>1. ~(j > Len(Story))
    BY <1>1, <1>2, <1>3 DEF Plain, NeedsTest
  <2>2. j \in 1..Len(Story)
    BY <1>2, <2>1
  <2>3. TestedUpTo(Story, j)
    BY <1>2, <1>3, <2>2 DEF TestInv
  <2> QED
    BY <1>2, <2>2, <2>3, TestsStay
<1>4. ASSUME run.tests, done', ~forced, pc' \in {"reflect", "critic", "finish"}
      PROVE  TestedUpTo(Story', Len(Story'))
  <2>1. CASE done' = done /\ pend' = <<>> /\ pc \in {"reflect", "critic"}
    <3>1. Story' = Story
      BY <1>1, <2>1, StoryRests
    <3> QED
      BY <1>4, <2>1, <3>1 DEF TestInv
  <2>2. ASSUME NEW n \in Nat, NEW info \in {"passed", "tests failed"},
               pend' = <<Event("test", n, info)>>
        PROVE  TestedUpTo(Story', Len(Story'))
    <3>1. Event("test", n, info) \in Events /\ Event("test", n, info).type = "test"
      BY DEF Event, Events, Infos
    <3>2. Story' = Append(Story, Event("test", n, info))
      BY <1>1, <2>2, <3>1, StoryAdds
    <3>3. Len(Story') = Len(Story) + 1
      BY <1>2, <3>1, <3>2, AppendProperties
    <3> QED
      BY <1>2, <3>1, <3>2, <3>3, TestedStays
  <2> QED
    BY <1>4, <2>1, <2>2, ReviewedAfter
<1> QED
  BY <1>1, <1>3, <1>4 DEF TestInv, NeedsTest

(* A critique that does not block leaves the answer tested.                 *)
LEMMA CriticKeepsTested ==
    ASSUME RunnerTypes, OrderInv, TestInv, CriticAnswers
    PROVE  TestInv'
<1>1. /\ pc = "critic" /\ pend = <<>> /\ sent' = sent /\ run' = run /\ ~forced
      /\ step \in Nat /\ Story \in Seq(Events) /\ Len(Story) \in Nat
  BY CriticReports, StoryFacts, RunnerFacts DEF OrderInv, PlaceInv, Over
<1>2. CASE pend' = <<>> /\ UNCHANGED <<done, forced>>
  <2>1. Story' = Story
    BY <1>1, <1>2, StoryRests
  <2> QED
    BY <1>1, <1>2, <2>1 DEF TestInv, NeedsTest
<1>3. ASSUME NEW verdict \in {"plain", "blocks"},
             pend' = <<Event("reflect", step, verdict)>>,
             done' = (done \/ Blocks(verdict)), forced' = (forced \/ Blocks(verdict))
      PROVE  TestInv'
  <2> DEFINE e == Event("reflect", step, verdict)
  <2>1. e \in Events /\ e.type = "reflect"
    BY <1>1 DEF Event, Events, Infos
  <2> HIDE DEF e
  <2>2. Story' = Append(Story, e)
    BY <1>1, <1>3, <2>1, StoryAdds DEF e
  <2>3. /\ Len(Story') = Len(Story) + 1 /\ Story'[Len(Story) + 1] = e
        /\ \A i \in 1..Len(Story) : Story'[i] = Story[i]
    BY <1>1, <2>1, <2>2, AppendProperties
  <2>4. ASSUME NEW j \in 1..Len(Story'), NeedsTest(Story'[j])
        PROVE  TestedUpTo(Story', j)
    <3>1. j # Len(Story) + 1
      BY <2>1, <2>3, <2>4 DEF NeedsTest
    <3>2. j \in 1..Len(Story)
      BY <1>1, <2>3, <3>1
    <3>3. TestedUpTo(Story, j)
      BY <2>3, <2>4, <3>2 DEF TestInv
    <3> QED
      BY <1>1, <2>3, <3>2, <3>3, TestsStay
  <2>5. ASSUME run.tests, done', ~forced'
        PROVE  TestedUpTo(Story', Len(Story'))
    <3>1. done
      BY <1>3, <2>5
    <3>2. TestedUpTo(Story, Len(Story))
      BY <1>1, <2>5, <3>1 DEF TestInv
    <3> QED
      BY <1>1, <2>1, <2>2, <2>3, <3>2, TestedStays
  <2> QED
    BY <1>1, <2>4, <2>5 DEF TestInv, NeedsTest
<1> QED
  BY <1>2, <1>3, CriticReports

(* The end of a step: the done event of a tested answer, or a halt.         *)
LEMMA FinishKeepsTested ==
    ASSUME RunnerTypes, OrderInv, TestInv, FinishStep
    PROVE  TestInv'
<1>1. /\ pc = "finish" /\ pend = <<>> /\ UNCHANGED <<sent, run, step, done, forced>>
      /\ pc' \in {"step", "record"}
      /\ step \in Nat /\ answer.finish \in Infos
      /\ Story \in Seq(Events) /\ Len(Story) \in Nat
  BY FinishReports, StoryFacts, RunnerFacts
<1>2. CASE pend' = <<>>
  <2>1. Story' = Story
    BY <1>1, <1>2, StoryRests
  <2> QED
    BY <1>1, <2>1 DEF TestInv, NeedsTest
<1>3. CASE done /\ ~forced /\ pend' = <<Event("done", step, answer.finish)>>
  <2> DEFINE e == Event("done", step, answer.finish)
  <2>1. e \in Events /\ e.type = "done"
    BY <1>1 DEF Event, Events
  <2> HIDE DEF e
  <2>2. Story' = Append(Story, e)
    BY <1>1, <1>3, <2>1, StoryAdds DEF e
  <2>3. /\ Len(Story') = Len(Story) + 1
        /\ \A i \in 1..Len(Story) : Story'[i] = Story[i]
    BY <1>1, <2>1, <2>2, AppendProperties
  <2>4. ASSUME NEW j \in 1..Len(Story'), NeedsTest(Story'[j])
        PROVE  TestedUpTo(Story', j)
    <3>1. CASE j = Len(Story) + 1
      <4>1. TestedUpTo(Story, Len(Story))
        BY <1>1, <1>3, <2>4 DEF TestInv, NeedsTest
      <4>2. TestedUpTo(Append(Story, e), Len(Story) + 1)
        BY <1>1, <2>1, <4>1, TestedStays
      <4> QED
        BY <2>2, <3>1, <4>2
    <3>2. CASE j # Len(Story) + 1
      <4>1. j \in 1..Len(Story)
        BY <1>1, <2>3, <3>2
      <4>2. TestedUpTo(Story, j)
        BY <2>3, <2>4, <4>1 DEF TestInv
      <4> QED
        BY <1>1, <2>3, <4>1, <4>2, TestsStay
    <3> QED
      BY <3>1, <3>2
  <2> QED
    BY <1>1, <1>3, <2>4, FinishReports DEF TestInv, NeedsTest
<1>4. CASE /\ done /\ forced
           /\ pend' = <<Event("message", step, "halted"), Event("done", step, "blocked_by_reflect")>>
  <2>1. /\ Event("message", step, "halted") \in Events
        /\ Event("done", step, "blocked_by_reflect") \in Events
    BY <1>1 DEF Event, Events, Infos
  <2>2. pend' \in Seq(Events) /\ Len(pend') = 2
    BY <1>4, <2>1
  <2>3. /\ Story' \in Seq(Events)
        /\ \A i \in 1..Len(Story) : Story'[i] = Story[i]
        /\ \A i \in 1..Len(Story') : i > Len(Story) =>
             i - Len(Story) \in 1..Len(pend') /\ Story'[i] = pend'[i - Len(Story)]
    <3>1. sent' = sent
      BY <1>1
    <3> QED
      BY <1>1, <2>2, <3>1, StoryExtends
  <2>4. \A i \in 1..2 : ~NeedsTest(pend'[i])
    BY <1>4 DEF NeedsTest, Event
  <2>5. ASSUME NEW j \in 1..Len(Story'), NeedsTest(Story'[j])
        PROVE  TestedUpTo(Story', j)
    <3>1. ~(j > Len(Story))
      BY <2>2, <2>3, <2>4, <2>5
    <3>2. j \in 1..Len(Story)
      BY <1>1, <3>1
    <3>3. TestedUpTo(Story, j)
      BY <2>3, <2>5, <3>2 DEF TestInv
    <3> QED
      BY <1>1, <2>3, <3>2, <3>3, TestsStay
  <2> QED
    BY <1>1, <1>4, <2>5 DEF TestInv, NeedsTest
<1> QED
  BY <1>2, <1>3, <1>4, FinishReports

(* A cancelled answer leaves a part of the story, and an error.             *)
LEMMA CancelKeepsTested ==
    ASSUME RunnerTypes, BlockInv, TestInv, CancelTokens
    PROVE  TestInv'
<1> DEFINE n == Len(sent)
<1>1. /\ pc' = "ending" /\ run' = run /\ n \in Nat /\ n <= Len(Story) /\ Len(Story) \in Nat
      /\ Len(Story') = n + 1 /\ Story'[n + 1] = Cancelled
      /\ \A i \in 1..n : Story'[i] = Story[i]
  BY CancelledStory
<1>2. ASSUME NEW j \in 1..Len(Story'), NeedsTest(Story'[j])
      PROVE  TestedUpTo(Story', j)
  <2>1. j # n + 1
    BY <1>1, <1>2 DEF NeedsTest, Cancelled, Event
  <2>2. j \in 1..n /\ j \in 1..Len(Story)
    BY <1>1, <2>1
  <2>3. TestedUpTo(Story, j)
    BY <1>1, <1>2, <2>2 DEF TestInv
  <2> QED
    BY <1>1, <2>2, <2>3, TestsStay
<1> QED
  BY <1>1, <1>2 DEF TestInv, NeedsTest

LEMMA TestStep ==
    RunnerTypes /\ OrderInv /\ BlockInv /\ TestInv /\ [RunNext]_runVars => TestInv'
<1> SUFFICES ASSUME RunnerTypes, OrderInv, BlockInv, TestInv, [RunNext]_runVars
             PROVE  TestInv'
  OBVIOUS
<1>1. CASE Reporting
  BY <1>1, PlainKeepsTested, CriticKeepsTested, FinishKeepsTested
<1>2. CASE CancelTokens
  BY <1>2, CancelKeepsTested
<1>3. CASE Story' = Story /\ UNCHANGED <<run, done, forced>> /\ (pc' = pc \/ pc' = "closed")
  BY <1>3 DEF TestInv, NeedsTest
<1>4. Send => Story' = Story /\ UNCHANGED <<run, done, forced, pc>>
  BY StorySent DEF Send, answerVars
<1>5. Return \/ Receive \/ ReceiveLast \/ CancelRequest \/ UNCHANGED runVars =>
        UNCHANGED <<run, done, forced, sent, pend>> /\ (pc' = pc \/ pc' = "closed")
  BY DEF Return, Receive, ReceiveLast, TakeEvent, CancelRequest, runVars, chanVars, answerVars
<1> QED
  BY <1>1, <1>2, <1>3, <1>4, <1>5, StepKinds DEF Story

LEMMA TestHolds == RunSpec => []TestInv
<1>1. RunInit => TestInv
  BY DEF RunInit, TestInv, Story
<1> QED
  BY <1>1, TestStep, OrderHolds, BlockHolds, PTL DEF RunSpec

(* With tests enabled, no answer ends the run before a test event of that   *)
(* very answer.                                                             *)
THEOREM AnswersAreTested == RunSpec => []TestedBeforeDone
<1>1. RunnerTypes /\ TestInv => TestedBeforeDone
  <2> SUFFICES ASSUME RunnerTypes, TestInv
               PROVE  TestedBeforeDone
    OBVIOUS
  <2>1. /\ DOMAIN sent = 1..Len(sent) /\ Len(sent) \in Nat /\ Len(Story) \in Nat
        /\ Len(sent) <= Len(Story)
        /\ \A i \in 1..Len(sent) : Story[i] = sent[i]
    <3>1. sent \in Seq(Events) /\ pend \in Seq(Events)
      BY DEF RunnerTypes
    <3>2. DOMAIN sent = 1..Len(sent) /\ Len(sent) \in Nat /\ Len(pend) \in Nat
      BY <3>1
    <3> QED
      BY <3>2, StoryFacts
  <2>2. ASSUME NEW j \in 1..Len(sent), NeedsTest(sent[j])
        PROVE  \E i \in 1..j - 1 : /\ sent[i].type = "test"
                                   /\ \A k \in i..j : sent[k].type # "message"
    <3>1. j \in 1..Len(Story) /\ NeedsTest(Story[j])
      BY <2>1, <2>2
    <3>2. PICK i \in 1..j : /\ Story[i].type = "test"
                            /\ \A k \in i..j : Story[k].type # "message"
      BY <3>1 DEF TestInv, TestedUpTo
    <3>3. i \in 1..Len(sent) /\ i # j
      BY <2>1, <2>2, <3>2 DEF NeedsTest
    <3>4. i \in 1..j - 1 /\ sent[i].type = "test"
      BY <2>1, <3>2, <3>3
    <3>5. \A k \in i..j : sent[k].type # "message"
      <4> TAKE k \in i..j
      <4>1. k \in 1..Len(sent)
        BY <2>1
      <4> QED
        BY <2>1, <3>2, <4>1
    <3> QED
      BY <3>4, <3>5
  <2> QED
    BY <2>1, <2>2 DEF TestedBeforeDone, NeedsTest
<1> QED
  BY <1>1, OrderHolds, TestHolds, PTL

-----------------------------------------------------------------------------
(* Why the critic is shown the tools of its step: what is put aside for it  *)
(* is the number of tools in the story since the answer of the step, or     *)
(* since the start in step 1, which takes the tools of the request.         *)
ToolPlaces(s, n) == {i \in n..Len(s) : s[i].type = "tool"}

ToolsFrom(s, n) == Cardinality(ToolPlaces(s, n))

LastMessage(s, m) ==
    /\ m \in 1..Len(s) /\ s[m].type = "message"
    /\ \A j \in m + 1..Len(s) : s[j].type # "message"

Prepared == {"start", "initial", "planner"}

ToolInv ==
    /\ pc \in Prepared => step = 0 /\ initialTools = ToolsFrom(Story, 1)
    /\ pc = "step" => initialTools = IF step = 0 THEN ToolsFrom(Story, 1) ELSE 0
    /\ pc = "coder" => /\ initialTools = 0
                       /\ stepTools = IF step = 1 THEN ToolsFrom(Story, 1) ELSE 0
    /\ pc \in Answered =>
         /\ initialTools = 0
         /\ \E m \in 1..Len(Story) :
              /\ LastMessage(Story, m)
              /\ stepTools = ToolsFrom(Story, IF step = 1 THEN 1 ELSE m)
    /\ pc = "critic" => pend = <<>>

(* One more tool.                                                           *)
LEMMA ToolAdded ==
    ASSUME NEW s \in Seq(Events), NEW e \in Events, e.type = "tool",
           NEW n \in 1..Len(s) + 1
    PROVE  /\ ToolsFrom(Append(s, e), n) = ToolsFrom(s, n) + 1
           /\ \A m : LastMessage(s, m) => LastMessage(Append(s, e), m)
<1> DEFINE u == Append(s, e)
           len == Len(s)
           before == ToolPlaces(s, n)
           after == ToolPlaces(u, n)
<1>1. len \in Nat /\ Len(u) = len + 1 /\ u[len + 1] = e /\ \A i \in 1..len : u[i] = s[i]
  OBVIOUS
<1> HIDE DEF u, len
<1>2. after = before \cup {len + 1} /\ len + 1 \notin before
  <2>1. len = Len(s)
    BY DEF len
  <2> QED
    BY <1>1, <2>1 DEF ToolPlaces
<1>3. IsFiniteSet(before)
  <2>1. IsFiniteSet(n..len)
    BY <1>1, FS_Interval
  <2>2. before \subseteq n..len
    BY DEF ToolPlaces, len
  <2> QED
    BY <2>1, <2>2, FS_Subset
<1> HIDE DEF before, after
<1>4. Cardinality(after) = Cardinality(before) + 1
  BY <1>2, <1>3, FS_AddElement
<1>5. ASSUME NEW m, LastMessage(s, m)
      PROVE  LastMessage(u, m)
  BY <1>1, <1>5 DEF LastMessage, len
<1> QED
  BY <1>4, <1>5 DEF ToolsFrom, before, after, u

(* A report without a tool or a message.                                    *)
Silent(e) == e.type \notin {"tool", "message"}

LEMMA ToolsStay ==
    ASSUME NEW s \in Seq(Events), NEW u \in Seq(Events), Len(s) <= Len(u),
           \A i \in 1..Len(s) : u[i] = s[i],
           \A i \in 1..Len(u) : i > Len(s) => Silent(u[i])
    PROVE  /\ \A n \in 1..Len(s) + 1 : ToolsFrom(u, n) = ToolsFrom(s, n)
           /\ \A m : LastMessage(s, m) => LastMessage(u, m)
<1>1. Len(s) \in Nat /\ Len(u) \in Nat
  OBVIOUS
<1>2. ASSUME NEW n \in 1..Len(s) + 1
      PROVE  ToolPlaces(u, n) = ToolPlaces(s, n)
  <2>1. ASSUME NEW i \in ToolPlaces(u, n)
        PROVE  i \in ToolPlaces(s, n)
    <3>1. i \in n..Len(u) /\ i \in 1..Len(u) /\ u[i].type = "tool"
      BY <1>1, <2>1 DEF ToolPlaces
    <3>2. ~(i > Len(s))
      BY <3>1 DEF Silent
    <3>3. i \in 1..Len(s) /\ i \in n..Len(s)
      BY <1>1, <3>1, <3>2
    <3> QED
      BY <3>1, <3>3 DEF ToolPlaces
  <2>2. ASSUME NEW i \in ToolPlaces(s, n)
        PROVE  i \in ToolPlaces(u, n)
    <3>1. i \in n..Len(s) /\ s[i].type = "tool"
      BY <2>2 DEF ToolPlaces
    <3>2. i \in n..Len(u) /\ i \in 1..Len(s)
      BY <1>1, <3>1
    <3> QED
      BY <3>1, <3>2 DEF ToolPlaces
  <2> QED
    BY <2>1, <2>2
<1>3. ASSUME NEW m, LastMessage(s, m)
      PROVE  LastMessage(u, m)
  <2>1. m \in 1..Len(s) /\ s[m].type = "message"
    BY <1>3 DEF LastMessage
  <2>2. ASSUME NEW j \in m + 1..Len(u)
        PROVE  u[j].type # "message"
    <3>1. CASE j > Len(s)
      BY <1>1, <2>1, <2>2, <3>1 DEF Silent
    <3>2. CASE ~(j > Len(s))
      <4>1. j \in m + 1..Len(s) /\ j \in 1..Len(s)
        BY <1>1, <2>1, <2>2, <3>2
      <4> QED
        BY <1>3, <4>1 DEF LastMessage
    <3> QED
      BY <3>1, <3>2
  <2>3. m \in 1..Len(u) /\ u[m].type = "message"
    BY <1>1, <2>1
  <2> QED
    BY <2>2, <2>3 DEF LastMessage
<1> QED
  BY <1>2, <1>3 DEF ToolsFrom

(* The steps that run no tool and ask for no answer.                        *)
SameGroup ==
    \/ pc \in Prepared /\ pc' \in Prepared \cup {"step"}
    \/ pc = "coder" /\ pc' = "coder"
    \/ pc \in Answered /\ pc' \in Answered \cup {"step"}

ToolSteps == InitialTool \/ BeginStep \/ CoderAnswers \/ StepTool

LEMMA QuietMoves ==
    ASSUME RunnerTypes, Reporting, ~ToolSteps, pc' \notin Over
    PROVE  /\ UNCHANGED <<initialTools, stepTools, step>>
           /\ SameGroup
           /\ \A i \in 1..Len(pend') : Silent(pend'[i])
           /\ pc' = "critic" => pend' = <<>>
<1>1. CASE LoadContext \/ BeginPlanning \/ SkipPlanning
  BY <1>1 DEF LoadContext, BeginPlanning, SkipPlanning, At, GoTo, Over, SameGroup, Prepared,
              toolVars, answerVars
<1>2. CASE PlannerAnswers
  <2>1. /\ UNCHANGED <<initialTools, stepTools, step>> /\ pc = "planner" /\ pc' = "step"
        /\ pend' = <<>> \/ pend' = <<Event("plan", 0, "ok")>>
    BY <1>2 DEF PlannerAnswers, At, GoTo, toolVars
  <2> QED
    BY <2>1 DEF SameGroup, Prepared, Silent, Event
<1>3. ~StopAtLimit /\ ~StopCancelled
  BY DEF StopAtLimit, StopCancelled, GoTo, Over
<1>4. CASE JudgeAnswer
  BY <1>4 DEF JudgeAnswer, AfterTools, At, GoTo, SameGroup, Answered, toolVars
<1>5. CASE TestsPass
  BY <1>5 DEF TestsPass, At, GoTo, SameGroup, Answered, toolVars, answerVars, Silent, Event
<1>6. CASE TestsFail
  <2> DEFINE e == Event("test", attempts', "tests failed")
  <2>1. /\ UNCHANGED <<initialTools, stepTools, step>>
        /\ pc = "tests" /\ pc' \in {"tests", "reflect"}
        /\ pend' = <<>> \/ pend' = <<e>>
    BY <1>6 DEF TestsFail, At, GoTo, toolVars, answerVars
  <2>2. e.type = "test"
    BY DEF Event
  <2> HIDE DEF e
  <2>3. \A i \in 1..Len(pend') : pend'[i].type = "test"
    BY <2>1, <2>2
  <2>4. SameGroup /\ pc' # "critic"
    BY <2>1 DEF SameGroup, Answered
  <2> QED
    BY <2>1, <2>3, <2>4 DEF Silent
<1>7. CASE BeginReflection \/ SkipReflection
  BY <1>7 DEF BeginReflection, SkipReflection, At, GoTo, SameGroup, Answered, toolVars, answerVars
<1>8. CASE CriticAnswers
  <2>1. /\ UNCHANGED <<initialTools, stepTools, step>> /\ pc = "critic" /\ pc' = "finish"
    BY <1>8 DEF CriticAnswers, At, GoTo, toolVars
  <2>2. pend' = <<>> \/ \E verdict \in {"plain", "blocks"} : pend' = <<Event("reflect", step, verdict)>>
    BY <1>8, CriticReports
  <2> QED
    BY <2>1, <2>2 DEF SameGroup, Answered, Silent, Event
<1>9. CASE FinishStep
  <2>1. UNCHANGED <<initialTools, stepTools, step>>
    BY <1>9 DEF FinishStep, toolVars, answerVars
  <2>2. pc = "finish" /\ pc' = "step" /\ pend' = <<>>
    BY <1>9, FinishReports DEF Over
  <2> QED
    BY <2>1, <2>2 DEF SameGroup, Answered
<1>10. CASE Recovering
  <2>1. /\ UNCHANGED <<initialTools, stepTools, step>> /\ pc \in Roles
        /\ pc' = pc /\ pend' = <<>>
    BY <1>10 DEF Recovering, RoleFails, SearchFallback, GiveUpOr, GoTo, toolVars, answerVars, Over
  <2> QED
    BY <2>1 DEF SameGroup, Answered, Prepared, Roles
<1> QED
  BY <1>1, <1>2, <1>3, <1>4, <1>5, <1>6, <1>7, <1>8, <1>9, <1>10
     DEF Reporting, Preparing, Stepping, Reviewing, ToolSteps

LEMMA QuietKeepsTools ==
    ASSUME RunnerTypes, OrderInv, ToolInv, Reporting, ~ToolSteps
    PROVE  ToolInv'
<1>1. CASE pc' \in Over
  BY <1>1 DEF ToolInv, Over, Prepared, Answered
<1>2. CASE pc' \notin Over
  <2>1. /\ UNCHANGED <<initialTools, stepTools, step>> /\ SameGroup
        /\ \A i \in 1..Len(pend') : Silent(pend'[i])
        /\ pc' = "critic" => pend' = <<>>
    BY <1>2, QuietMoves
  <2>2. pend = <<>> /\ sent' = sent /\ pend' \in Seq(Events)
    BY ReportingReports DEF ReportStep, Quiet, Final
  <2>3. /\ Story \in Seq(Events) /\ Story' \in Seq(Events)
        /\ Len(Story') = Len(Story) + Len(pend')
        /\ \A i \in 1..Len(Story) : Story'[i] = Story[i]
        /\ \A i \in 1..Len(Story') : i > Len(Story) =>
             i - Len(Story) \in 1..Len(pend') /\ Story'[i] = pend'[i - Len(Story)]
    BY <2>2, StoryExtends
  <2>4. Len(Story) \in Nat /\ Len(Story') \in Nat /\ Len(Story) <= Len(Story')
    BY <2>2, <2>3
  <2>5. \A i \in 1..Len(Story') : i > Len(Story) => Silent(Story'[i])
    BY <2>1, <2>3
  <2>6. /\ \A n \in 1..Len(Story) + 1 : ToolsFrom(Story', n) = ToolsFrom(Story, n)
        /\ \A m : LastMessage(Story, m) => LastMessage(Story', m)
    BY <2>3, <2>4, <2>5, ToolsStay
  <2>7. 1 \in 1..Len(Story) + 1 /\ \A m \in 1..Len(Story) : m \in 1..Len(Story) + 1 /\ m \in 1..Len(Story')
    BY <2>4
  <2>8. CASE pc \in Prepared
    BY <2>1, <2>6, <2>7, <2>8 DEF ToolInv, SameGroup, Prepared, Answered
  <2>9. CASE pc = "coder"
    BY <2>1, <2>6, <2>7, <2>9 DEF ToolInv, SameGroup, Prepared, Answered
  <2>10. CASE pc \in Answered
    <3>1. step # 0
      BY <2>10 DEF OrderInv, PlaceInv
    <3>2. PICK m \in 1..Len(Story) :
                 /\ LastMessage(Story, m)
                 /\ stepTools = ToolsFrom(Story, IF step = 1 THEN 1 ELSE m)
      BY <2>10 DEF ToolInv
    <3>3. /\ m \in 1..Len(Story') /\ LastMessage(Story', m)
          /\ stepTools' = ToolsFrom(Story', IF step' = 1 THEN 1 ELSE m)
      BY <2>1, <2>6, <2>7, <3>2
    <3>4. initialTools' = 0 /\ pc' \in Answered \cup {"step"}
      BY <2>1, <2>10 DEF ToolInv, SameGroup, Prepared, Answered
    <3> QED
      BY <2>1, <3>1, <3>3, <3>4 DEF ToolInv, Prepared, Answered
  <2> QED
    BY <2>1, <2>8, <2>9, <2>10 DEF SameGroup
<1> QED
  BY <1>1, <1>2

-----------------------------------------------------------------------------
(* The steps that run tools, and those that start their count.              *)
LEMMA ToolStepsKeepTools ==
    ASSUME RunnerTypes, OrderInv, ToolInv, ToolSteps
    PROVE  ToolInv'
<1>1. /\ Story \in Seq(Events) /\ Len(Story) \in Nat /\ step \in Nat
      /\ 1 \in 1..Len(Story) + 1 /\ \A m \in 1..Len(Story) : m \in 1..Len(Story) + 1
  <2>1. Story \in Seq(Events) /\ step \in Nat
    BY StoryFacts, RunnerFacts
  <2>2. Len(Story) \in Nat
    BY <2>1
  <2> QED
    BY <2>1, <2>2
<1>2. CASE ToolFails("initial") \/ ToolFails("tools")
  BY <1>2 DEF ToolFails, GoTo, ToolInv, Prepared, Answered
<1> DEFINE e == Event("tool", 0, "ok")
<1>3. e \in Events /\ e.type = "tool"
  BY ToolEvents DEF Event
<1> HIDE DEF e
<1>4. CASE InitialTool /\ ~ToolFails("initial")
  <2>1. /\ pc = "initial" /\ pc' = "initial" /\ pend = <<>> /\ sent' = sent /\ pend' = <<e>>
        /\ initialTools' = initialTools + 1 /\ step' = step
    BY <1>4 DEF InitialTool, At, GoTo, e, answerVars
  <2>2. Story' = Append(Story, e)
    BY <1>3, <2>1, StoryAdds
  <2>3. ToolsFrom(Story', 1) = ToolsFrom(Story, 1) + 1
    BY <1>1, <1>3, <2>2, ToolAdded
  <2> QED
    BY <2>1, <2>3 DEF ToolInv, Prepared, Answered
<1>5. CASE BeginStep
  <2>1. /\ pc = "step" /\ pc' = "coder" /\ pend = <<>> /\ sent' = sent /\ pend' = <<>>
        /\ stepTools' = initialTools /\ initialTools' = 0 /\ step' = step + 1
    BY <1>5 DEF BeginStep, TakeTools, At, GoTo
  <2>2. Story' = Story
    BY <2>1, StoryRests
  <2>3. step' = 1 <=> step = 0
    BY <1>1, <2>1
  <2> QED
    BY <2>1, <2>2, <2>3 DEF ToolInv, Prepared, Answered
<1>6. CASE StepTool /\ ~ToolFails("tools")
  <2>1. /\ pc = "tools" /\ pc' = "tools" /\ pend = <<>> /\ sent' = sent /\ pend' = <<e>>
        /\ stepTools' = stepTools + 1 /\ step' = step /\ initialTools' = initialTools
    BY <1>6 DEF StepTool, At, GoTo, e, answerVars
  <2>2. Story' = Append(Story, e)
    BY <1>3, <2>1, StoryAdds
  <2>3. PICK m \in 1..Len(Story) :
               /\ LastMessage(Story, m)
               /\ stepTools = ToolsFrom(Story, IF step = 1 THEN 1 ELSE m)
    BY <2>1 DEF ToolInv, Answered
  <2>4. ToolsFrom(Story', IF step = 1 THEN 1 ELSE m) = stepTools + 1
    BY <1>1, <1>3, <2>2, <2>3, ToolAdded
  <2>5. LastMessage(Story', m)
    BY <1>1, <1>3, <2>2, <2>3, ToolAdded
  <2>6. m \in 1..Len(Story')
    BY <2>5 DEF LastMessage
  <2> QED
    BY <2>1, <2>4, <2>5, <2>6 DEF ToolInv, Prepared, Answered
<1>7. CASE CoderAnswers
  <2>1. /\ pc = "coder" /\ pc' = "tools" /\ pend = <<>> /\ sent' = sent
        /\ answer' \in Answers /\ pend' = AnswerEvents(answer')
        /\ UNCHANGED <<initialTools, stepTools, step>>
    BY <1>7 DEF CoderAnswers, At, GoTo, toolVars
  <2> DEFINE q == Event("message", step, "answer")
             w == Words(answer')
             n == Len(Story)
  <2>2. q \in Events /\ q.type = "message"
    BY <1>1 DEF Event, Events, Infos
  <2>3. w \in Seq(Events) /\ \A i \in 1..Len(w) : w[i].type = "token"
    BY <1>1, <2>1, WordsFacts
  <2>4. pend' = <<q>> \o w
    BY <2>1 DEF AnswerEvents
  <2> HIDE DEF q, w
  <2>5. /\ pend' \in Seq(Events) /\ Len(pend') = 1 + Len(w) /\ pend'[1] = q
        /\ \A i \in 2..Len(pend') : pend'[i].type = "token"
    <3>1. <<q>> \in Seq(Events) /\ Len(<<q>>) = 1 /\ <<q>>[1] = q /\ Len(w) \in Nat
      BY <2>2, <2>3
    <3>2. /\ <<q>> \o w \in Seq(Events) /\ Len(<<q>> \o w) = 1 + Len(w)
          /\ \A i \in 1..1 + Len(w) : (<<q>> \o w)[i] = IF i <= 1 THEN <<q>>[i] ELSE w[i - 1]
      BY <2>3, <3>1, ConcatProperties
    <3> HIDE DEF n
    <3>3. ASSUME NEW i \in 2..1 + Len(w)
          PROVE  (<<q>> \o w)[i].type = "token"
      <4>1. i \in 1..1 + Len(w) /\ ~(i <= 1) /\ i - 1 \in 1..Len(w)
        BY <3>1
      <4> QED
        BY <2>3, <3>2, <4>1
    <3> QED
      BY <2>4, <3>1, <3>2, <3>3
  <2>6. /\ Story' \in Seq(Events) /\ Len(Story') = n + Len(pend')
        /\ \A i \in 1..n : Story'[i] = Story[i]
        /\ \A i \in 1..Len(Story') : i > n =>
             i - n \in 1..Len(pend') /\ Story'[i] = pend'[i - n]
    BY <2>1, <2>5, StoryExtends
  <2>7. Len(w) \in Nat /\ Len(Story') = n + 1 + Len(w) /\ n \in Nat
    BY <1>1, <2>3, <2>5, <2>6
  <2>8. Story'[n + 1] = q
    <3>1. n + 1 \in 1..Len(Story') /\ n + 1 > n /\ (n + 1) - n = 1
      BY <2>7
    <3> QED
      BY <2>5, <2>6, <3>1
  <2>9. ASSUME NEW i \in n + 2..Len(Story')
        PROVE  Story'[i].type = "token"
    <3>1. i \in 1..Len(Story') /\ i > n /\ i - n \in 2..Len(pend')
      BY <2>5, <2>6, <2>7
    <3> QED
      BY <2>5, <2>6, <3>1
  <2> HIDE DEF n
  <2>10. n + 1 \in 1..Len(Story') /\ LastMessage(Story', n + 1)
    BY <2>2, <2>7, <2>8, <2>9 DEF LastMessage
  <2>11. \A i \in n + 1..Len(Story') : Story'[i].type # "tool"
    <3> TAKE i \in n + 1..Len(Story')
    <3>1. i = n + 1 \/ i \in n + 2..Len(Story')
      BY <2>7
    <3> QED
      BY <2>2, <2>8, <2>9, <3>1
  <2>12. ToolPlaces(Story', 1) = ToolPlaces(Story, 1)
    <3>1. ASSUME NEW i \in ToolPlaces(Story', 1)
          PROVE  i \in ToolPlaces(Story, 1)
      <4>1. i \in 1..Len(Story') /\ Story'[i].type = "tool"
        BY <3>1 DEF ToolPlaces
      <4>2. i \in 1..n
        BY <2>7, <2>11, <4>1
      <4> QED
        BY <2>6, <4>1, <4>2 DEF ToolPlaces, n
    <3>2. ASSUME NEW i \in ToolPlaces(Story, 1)
          PROVE  i \in ToolPlaces(Story', 1)
      <4>1. i \in 1..n /\ Story[i].type = "tool"
        BY <3>2 DEF ToolPlaces, n
      <4>2. i \in 1..Len(Story')
        BY <2>7, <4>1
      <4> QED
        BY <2>6, <4>1, <4>2 DEF ToolPlaces
    <3> QED
      BY <3>1, <3>2
  <2>13. ToolsFrom(Story', n + 1) = 0
    <3>1. ToolPlaces(Story', n + 1) = {}
      BY <2>11 DEF ToolPlaces
    <3> QED
      BY <3>1, FS_EmptySet DEF ToolsFrom
  <2>14. stepTools' = ToolsFrom(Story', IF step' = 1 THEN 1 ELSE n + 1)
    BY <2>1, <2>12, <2>13 DEF ToolInv, ToolsFrom
  <2> QED
    BY <2>1, <2>10, <2>14 DEF ToolInv, Prepared, Answered
<1> QED
  BY <1>2, <1>4, <1>5, <1>6, <1>7 DEF ToolSteps, InitialTool, StepTool

LEMMA ToolStep == RunnerTypes /\ OrderInv /\ BlockInv /\ ToolInv /\ [RunNext]_runVars => ToolInv'
<1> SUFFICES ASSUME RunnerTypes, OrderInv, BlockInv, ToolInv, [RunNext]_runVars
             PROVE  ToolInv'
  OBVIOUS
<1>1. CASE Reporting
  BY <1>1, QuietKeepsTools, ToolStepsKeepTools
<1>2. CASE CancelTokens \/ Return
  BY <1>2 DEF CancelTokens, Return, ToolInv, Prepared, Answered
<1>3. CASE Send
  <2>1. Story' = Story /\ UNCHANGED <<pc, step, initialTools, stepTools>> /\ pend # <<>>
    BY <1>3, StorySent DEF Send, toolVars, answerVars
  <2> QED
    BY <2>1 DEF ToolInv
<1>4. CASE Receive \/ ReceiveLast \/ CancelRequest \/ UNCHANGED runVars
  <2>1. UNCHANGED <<sent, pend, pc, step, initialTools, stepTools>>
    BY <1>4 DEF Receive, ReceiveLast, TakeEvent, CancelRequest, runVars, chanVars, toolVars, answerVars
  <2>2. Story' = Story
    BY <2>1 DEF Story
  <2> QED
    BY <2>1, <2>2 DEF ToolInv
<1> QED
  BY <1>1, <1>2, <1>3, <1>4, StepKinds

LEMMA ToolHolds == RunSpec => []ToolInv
<1>1. RunInit => ToolInv
  <2> SUFFICES ASSUME RunInit
               PROVE  ToolInv
    OBVIOUS
  <2>1. pc = "start" /\ step = 0 /\ initialTools = 0 /\ Story = <<>>
    BY DEF RunInit, Story
  <2>2. ToolPlaces(<<>>, 1) = {}
    BY DEF ToolPlaces
  <2> QED
    BY <2>1, <2>2, FS_EmptySet DEF ToolInv, ToolsFrom, Prepared, Answered
<1> QED
  BY <1>1, ToolStep, OrderHolds, BlockHolds, PTL DEF RunSpec

(* Whenever the critic is called it is shown every tool of its step, those  *)
(* of the request in step 1, and none of an earlier step's.                 *)
THEOREM CriticsSeeTheirTools == RunSpec => []CriticSeesTheTools
<1>1. RunnerTypes /\ ToolInv => CriticSeesTheTools
  <2> SUFFICES ASSUME RunnerTypes, ToolInv, pc = "critic"
               PROVE  CriticSeesTheTools
    BY DEF CriticSeesTheTools
  <2>1. Story = sent /\ sent \in Seq(Events) /\ DOMAIN sent = 1..Len(sent) /\ Len(sent) \in Nat
    <3>1. sent \in Seq(Events) /\ pend = <<>>
      BY DEF RunnerTypes, ToolInv
    <3> QED
      BY <3>1, StoryFacts
  <2>2. PICK m \in 1..Len(sent) :
               /\ LastMessage(sent, m)
               /\ stepTools = ToolsFrom(sent, IF step = 1 THEN 1 ELSE m)
    BY <2>1 DEF ToolInv, Answered
  <2> DEFINE IsLast(i) == /\ sent[i].type = "message"
                          /\ \A j \in i + 1..Len(sent) : sent[j].type # "message"
             own == CHOOSE i \in DOMAIN sent : IsLast(i)
  <2>3. m \in DOMAIN sent /\ IsLast(m)
    BY <2>1, <2>2 DEF LastMessage
  <2>4. own \in DOMAIN sent /\ IsLast(own)
    BY <2>3
  <2>5. own = m
    <3> HIDE DEF own
    <3>1. ~(own < m) /\ ~(m < own)
      BY <2>1, <2>3, <2>4
    <3> QED
      BY <2>1, <2>3, <2>4, <3>1
  <2>6. stepTools = ToolsSince(IF step = 1 THEN 1 ELSE own)
    BY <2>2, <2>5 DEF ToolsSince, ToolsFrom, ToolPlaces
  <2> QED
    BY <2>6 DEF CriticSeesTheTools
<1> QED
  BY <1>1, OrderHolds, ToolHolds, PTL
=============================================================================
