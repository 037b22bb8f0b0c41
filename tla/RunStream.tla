----------------------------- MODULE RunStream -----------------------------
(* What the runner promises to whoever reads the events of a run: the order *)
(* of the stream, said without the goroutine that produces it.  It is one   *)
(* preamble (the request's tools, then the plan) and one section per step:  *)
(* the answer, its words, its tools, its tests, its critique.  The stream   *)
(* ends after exactly one outcome.                                          *)
EXTENDS Naturals, Sequences, FiniteSets

CONSTANTS
    Outcomes    \* the events that say how a run ended

VARIABLES stream, ended

Last(s) == s[Len(s)]

(* The place of an event within its section; words and tools may repeat.    *)
Rank == [ message |-> 1, token |-> 2, tool |-> 3, test |-> 4, plan |-> 5, reflect |-> 5 ]

Repeats == {"token", "tool"}

(* The number of steps begun: one per answer.                               *)
IsAnswer(e) == e.type = "message" /\ e.info = "answer"

Steps(s) == Cardinality({i \in DOMAIN s : IsAnswer(s[i])})

Halted(s) == s # <<>> /\ Last(s).info = "halted"

(* e continues the current section.                                         *)
InOrder(s, e) ==
    /\ e.type \in IF Steps(s) = 0 THEN {"tool", "plan"}
                                  ELSE {"token", "tool", "test", "reflect"}
    /\ s # <<>> => \/ Rank[Last(s).type] < Rank[e.type]
                   \/ Last(s).type = e.type /\ e.type \in Repeats

BeginsStep(s, e) == IsAnswer(e) /\ e.step = Steps(s) + 1

Halts(s, e) ==
    /\ e.type = "message" /\ e.info = "halted"
    /\ Steps(s) > 0 /\ Last(s).type = "reflect" /\ Last(s).info = "blocks"

EndsWell(s, e) ==
    /\ e.type = "done"
    /\ e.step = Steps(s) /\ Steps(s) > 0
    /\ e.info = "blocked_by_reflect" <=> Halted(s)

MayFollow(s, e) ==
    /\ s # <<>> => Last(s) \notin Outcomes
    /\ \/ EndsWell(s, e)
       \/ ~Halted(s) /\ (e.type = "error" \/ InOrder(s, e) \/ BeginsStep(s, e) \/ Halts(s, e))

Init == stream = <<>> /\ ended = FALSE

Emit ==
    /\ ~ended
    /\ Len(stream') = Len(stream) + 1
    /\ stream' = Append(stream, Last(stream'))
    /\ MayFollow(stream, Last(stream'))
    /\ UNCHANGED ended

End ==
    /\ ~ended
    /\ stream # <<>> /\ Last(stream) \in Outcomes
    /\ ended' = TRUE
    /\ UNCHANGED stream

Next == Emit \/ End

Spec == Init /\ [][Next]_<<stream, ended>>
=============================================================================
