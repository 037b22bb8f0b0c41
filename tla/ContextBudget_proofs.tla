------------------------ MODULE ContextBudget_proofs ------------------------
(* Proofs about the context of a run, for every tree, every change of it,   *)
(* every cap and every list of candidates: types, the cap on the total,     *)
(* which files are cut, and how far an outline exceeds its caps.            *)
EXTENDS ContextBudget, SequenceTheorems, WellFoundedInduction, TLAPS

(* A file is only read while the total is below its cap: without this the   *)
(* caps would not bound what is added, nor would the limit be a number.  An *)
(* outline starts from nothing.                                             *)
ContextInv ==
    /\ ContextTypes
    /\ phase \in {"read", "outline"} => candidates # <<>> /\ ~Full
    /\ phase \notin {"outline", "failed"} => NoOutline

LEMMA CapFacts ==
    ASSUME ContextTypes
    PROVE  /\ max \in Nat /\ total \in Nat /\ FileCap \in Nat \ {0}
           /\ MarkerLen \in Nat /\ PerFileCap \in Nat \ {0}
           /\ \A p \in Paths : tree[p].size \in Nat
<1>1. max \in Nat /\ MarkerLen \in Nat /\ PerFileCap \in Nat \ {0} /\ total \in Nat
  BY ContextWellFormed DEF ContextTypes
<1>2. FileCap \in Nat \ {0}
  BY <1>1 DEF FileCap, Smaller
<1>3. \A p \in Paths : tree[p].size \in Nat
  <2> TAKE p \in Paths
  <2>1. tree[p] \in Nodes
    BY DEF ContextTypes
  <2> QED
    BY <2>1, ContextWellFormed
<1> QED
  BY <1>1, <1>2, <1>3

(* What is left of the caps, and what a file adds.                          *)
LEMMA LimitFacts ==
    ASSUME ContextTypes, ~Full, NEW size \in Nat
    PROVE  /\ Limit \in Nat \ {0} /\ KeptLen(size) \in Nat
           /\ KeptLen(size) <= Limit + MarkerLen
           /\ max > 0 => total + Limit <= max
           /\ Limit = FileCap \/ (max > 0 /\ total + Limit = max)
<1>1. max \in Nat /\ total \in Nat /\ FileCap \in Nat \ {0} /\ MarkerLen \in Nat
  BY CapFacts
<1>2. max > 0 => max - total \in Nat \ {0}
  BY <1>1 DEF Full
<1> QED
  BY <1>1, <1>2 DEF Limit, Smaller, KeptLen

LEMMA PathLists ==
    /\ Requested \subseteq Seq(Paths)
    /\ Hits \cup {<<>>} \subseteq Seq(Paths)
    /\ RawPaths \subseteq Seq(Paths)
<1>1. /\ Requested \subseteq Seq(Paths) /\ Hits \subseteq Seq(Paths)
      /\ Mentioned \subseteq Seq(Paths) /\ Defaults \in Seq(Paths)
  BY ContextWellFormed
<1>2. <<>> \in Seq(Paths)
  OBVIOUS
<1>3. \A m \in Mentioned : m \o Defaults \in Seq(Paths)
  BY <1>1, ConcatProperties
<1> QED
  BY <1>1, <1>2, <1>3 DEF RawPaths

LEMMA NextCandidate ==
    ASSUME NEW s \in Seq(Paths), s # <<>>
    PROVE  Head(s) \in Paths /\ Tail(s) \in Seq(Paths)
OBVIOUS

(* The levels of an outline are a stack of numbers.                         *)
LEMMA StackFacts ==
    ASSUME NEW s \in Seq(Nat), s # <<>>, s[Len(s)] > 0
    PROVE  [s EXCEPT ![Len(s)] = @ - 1] \in Seq(Nat)
           /\ Len([s EXCEPT ![Len(s)] = @ - 1]) = Len(s)
<1>1. Len(s) \in 1..Len(s) /\ s[Len(s)] \in Nat /\ s[Len(s)] - 1 \in Nat
  OBVIOUS
<1> QED
  BY <1>1

LEMMA AboveFacts ==
    ASSUME NEW s \in Seq(Nat), s # <<>>
    PROVE  SubSeq(s, 1, Len(s) - 1) \in Seq(Nat) /\ Len(SubSeq(s, 1, Len(s) - 1)) = Len(s) - 1
<1> DEFINE k == Len(s) - 1
<1>1. k \in Nat /\ k <= Len(s) /\ 1 \in Int /\ k \in Int
  OBVIOUS
<1>2. \A i \in 1..k : s[i] \in Nat
  OBVIOUS
<1> HIDE DEF k
<1>3. /\ SubSeq(s, 1, k) \in Seq(Nat)
      /\ Len(SubSeq(s, 1, k)) = IF 1 <= k THEN k - 1 + 1 ELSE 0
  BY <1>1, <1>2, SubSeqProperties
<1>4. Len(SubSeq(s, 1, k)) = k
  BY <1>1, <1>3
<1> QED
  BY <1>3, <1>4 DEF k

LEMMA OpenLevelFacts ==
    ASSUME NEW s \in Seq(Nat), OpenLevel(s)
    PROVE  open' \in Seq(Nat) /\ Len(open') = Len(s) + 1
<1>1. PICK n \in 0..MaxListing : open' = Append(s, n)
  BY DEF OpenLevel
<1>2. n \in Nat
  BY OutlineCaps
<1> QED
  BY <1>1, <1>2

(* What each step of an outline does to the number of open levels and to    *)
(* the two counters.                                                        *)
LEMMA OutlineSteps ==
    ASSUME OutlineTypeOK, OutlineStep \/ LevelUnreadable
    PROVE  /\ OutlineTypeOK'
           /\ \/ added' = added + 1 /\ added' >= MaxEntries
                 /\ marks' = marks + 1 /\ Len(open') = Len(open) - 1
              \/ added' = added + 1 /\ added' < MaxEntries /\ marks' = marks
                 /\ (Len(open') = Len(open) \/ (Len(open) < MaxDepth /\ Len(open') = Len(open) + 1))
              \/ added' = added /\ marks' = marks /\ Len(open') = Len(open) - 1
<1> USE DEF OutlineTypeOK
<1>0. MaxEntries \in Nat /\ MaxDepth \in Nat
  BY OutlineCaps
<1>1. open # <<>>
  BY DEF OutlineStep, ListEntry, LeaveLevel, LevelUnreadable
<1>2. Above \in Seq(Nat) /\ Len(Above) = Len(open) - 1
  BY <1>1, AboveFacts DEF Above, Last
<1>3. ASSUME open[Last] > 0
      PROVE  Rest \in Seq(Nat) /\ Len(Rest) = Len(open)
  BY <1>1, <1>3, StackFacts DEF Rest, Last
<1>4. CASE LeaveLevel
  BY <1>2, <1>4 DEF LeaveLevel
<1>5. CASE LevelUnreadable
  <2>1. Rest \in Seq(Nat) /\ Len(Rest) = Len(open)
    BY <1>3, <1>5 DEF LevelUnreadable
  <2>2. open' = Rest /\ added' = added + 1 /\ added' < MaxEntries /\ marks' = marks
    BY <1>5 DEF LevelUnreadable
  <2> QED
    BY <2>1, <2>2
<1>6. CASE ListEntry
  <2>1. Rest \in Seq(Nat) /\ Len(Rest) = Len(open)
    BY <1>3, <1>6 DEF ListEntry
  <2>2. added' = added + 1
    BY <1>6 DEF ListEntry
  <2>3. CASE added + 1 >= MaxEntries
    <3>1. open' = Above /\ marks' = marks + 1
      BY <1>6, <2>3 DEF ListEntry
    <3> QED
      BY <1>2, <2>2, <2>3, <3>1
  <2>4. CASE ~(added + 1 >= MaxEntries)
    <3>1. marks' = marks /\ (open' = Rest \/ (Last < MaxDepth /\ OpenLevel(Rest)))
      BY <1>6, <2>4 DEF ListEntry
    <3>2. added' < MaxEntries
      BY <1>0, <2>2, <2>4
    <3>3. CASE open' = Rest
      BY <2>1, <2>2, <3>1, <3>2, <3>3
    <3>4. CASE Last < MaxDepth /\ OpenLevel(Rest)
      <4>1. open' \in Seq(Nat) /\ Len(open') = Len(open) + 1
        BY <2>1, <3>4, OpenLevelFacts
      <4> QED
        BY <2>2, <3>1, <3>2, <3>4, <4>1 DEF Last
    <3> QED
      BY <3>1, <3>3, <3>4
  <2> QED
    BY <2>3, <2>4
<1> QED
  BY <1>4, <1>5, <1>6 DEF OutlineStep

(* The size of an outline is a number.                                      *)
LEMMA OutlineSize == OutlineTypeOK => LineLen * OutlineLen \in Nat
<1> SUFFICES ASSUME OutlineTypeOK
             PROVE  LineLen * OutlineLen \in Nat
  OBVIOUS
<1>1. OutlineLen \in Nat
  BY DEF OutlineTypeOK, OutlineLen
<1>2. LineLen \in Nat
  BY ContextWellFormed
<1>3. \A a, b \in Nat : a * b \in Nat
  OBVIOUS
<1> QED
  BY <1>1, <1>2, <1>3

(* Whether it is a file or an outline, what is added is a number of bytes.  *)
LEMMA AddingSteps ==
    ASSUME ContextTypes, candidates # <<>>, ReadCandidate \/ AddOutline
    PROVE  \E size \in Nat : AddContext(size)
<1>1. Head(candidates) \in Paths
  BY NextCandidate DEF ContextTypes
<1>2. CASE ReadCandidate
  <2>1. tree[Head(candidates)].size \in Nat
    BY <1>1, CapFacts
  <2> QED
    BY <1>2, <2>1 DEF ReadCandidate
<1>3. CASE AddOutline
  <2>1. LineLen * OutlineLen \in Nat
    BY OutlineSize DEF ContextTypes
  <2> QED
    BY <1>3, <2>1 DEF AddOutline
<1> QED
  BY <1>2, <1>3

LEMMA AddStep ==
    ASSUME ContextInv, phase \in {"read", "outline"}, NEW size \in Nat, AddContext(size),
           OutlineTypeOK', NoOutline'
    PROVE  ContextInv'
<1> DEFINE p == Head(candidates)
           e == [path |-> p, len |-> KeptLen(size), cut |-> size > Limit]
<1>1. ContextTypes /\ ~Full /\ p \in Paths /\ Tail(candidates) \in Seq(Paths)
  BY NextCandidate DEF ContextInv, ContextTypes
<1>2. total \in Nat /\ KeptLen(size) \in Nat
  BY <1>1, CapFacts, LimitFacts
<1>3. e \in [path : Paths, len : Nat, cut : BOOLEAN]
  BY <1>1, <1>2
<1>4. out' \in Seq([path : Paths, len : Nat, cut : BOOLEAN])
  <2>1. out' = Append(out, e)
    BY DEF AddContext
  <2> QED
    BY <1>1, <1>3, <2>1 DEF ContextTypes
<1>5. total' \in Nat /\ candidates' \in Seq(Paths) /\ stated' = "none"
  BY <1>1, <1>2 DEF AddContext
<1>6. phase' \in {"done", "gather"} /\ UNCHANGED <<tree, inputs, todo, seen, touched>>
  BY DEF AddContext
<1> QED
  BY <1>1, <1>4, <1>5, <1>6 DEF ContextInv, ContextTypes, Phases, inputs

LEMMA GatherStep == ContextInv /\ GatherFiles /\ UNCHANGED outlineVars => ContextInv'
<1> SUFFICES ASSUME ContextInv, GatherFiles, UNCHANGED outlineVars
             PROVE  ContextInv'
  OBVIOUS
<1>0. (OutlineTypeOK' <=> OutlineTypeOK) /\ (NoOutline' <=> NoOutline)
  BY DEF outlineVars, OutlineTypeOK, NoOutline
<1> USE DEF ContextInv, ContextTypes, Phases, inputs
<1>1. CASE UseRequested
  BY <1>0, <1>1, PathLists DEF UseRequested
<1>2. CASE SearchSemantic
  <2>1. candidates' \in Hits \cup {<<>>} /\ todo' \in RawPaths
    BY <1>0, <1>2, Zenon DEF SearchSemantic
  <2> QED
    BY <1>0, <1>2, <2>1, PathLists DEF SearchSemantic
<1>3. CASE DiscoverPath
  <2> DEFINE p == Head(todo)
  <2>1. p \in Paths /\ Tail(todo) \in Seq(Paths)
    BY <1>0, <1>3, NextCandidate DEF DiscoverPath
  <2>2. \/ UNCHANGED <<candidates, seen>>
        \/ seen' = seen \cup {p} /\ candidates' = Append(candidates, p)
    BY <1>0, <1>3 DEF DiscoverPath
  <2>3. candidates' \in Seq(Paths) /\ seen' \in SUBSET Paths
    <3>1. candidates \in Seq(Paths) /\ seen \in SUBSET Paths
      OBVIOUS
    <3>2. Append(candidates, p) \in Seq(Paths)
      BY <2>1, <3>1
    <3>3. seen \cup {p} \in SUBSET Paths
      BY <2>1, <3>1
    <3> QED
      BY <2>2, <3>1, <3>2, <3>3, Zenon
  <2> QED
    BY <1>0, <1>3, <2>1, <2>3 DEF DiscoverPath
<1>4. CASE DiscoverEnds
  BY <1>0, <1>4 DEF DiscoverEnds
<1>5. CASE SkipSeen
  BY <1>0, <1>5, NextCandidate DEF SkipSeen
<1>6. CASE GatherEnds
  BY <1>0, <1>6 DEF GatherEnds
<1>7. CASE StatCandidate
  <2>1. Head(candidates) \in Paths
    BY <1>0, <1>7, NextCandidate DEF StatCandidate
  <2>2. \/ phase' = "read" /\ stated' \in {"file", "dir"}
        \/ phase' = "failed" /\ stated' = stated
    BY <1>0, <1>7 DEF StatCandidate
  <2>3. Full' <=> Full
    BY <1>0, <1>7 DEF StatCandidate, Full
  <2> QED
    BY <1>0, <1>7, <2>1, <2>2, <2>3 DEF StatCandidate
<1>8. CASE ReadCandidate
  <2>1. \E size \in Nat : AddContext(size)
    BY <1>0, <1>8, AddingSteps DEF ReadCandidate
  <2> QED
    BY <1>0, <1>0, <1>8, <2>1, AddStep DEF ReadCandidate
<1>9. CASE ReadFails
  BY <1>0, <1>9 DEF ReadFails
<1> QED
  BY <1>1, <1>2, <1>3, <1>4, <1>5, <1>6, <1>7, <1>8, <1>9 DEF GatherFiles

LEMMA ContextStep == ContextInv /\ [ContextNext]_contextVars => ContextInv'
<1> SUFFICES ASSUME ContextInv, [ContextNext]_contextVars
             PROVE  ContextInv'
  OBVIOUS
<1> USE DEF ContextInv, ContextTypes, Phases, inputs
<1>1. CASE GatherFiles /\ UNCHANGED outlineVars
  BY <1>1, GatherStep
<1>2. CASE OpenOutline
  <2>1. open' \in Seq(Nat) /\ added' = added /\ marks' = marks
    <3>1. <<>> \in Seq(Nat) /\ OpenLevel(<<>>)
      BY <1>2 DEF OpenOutline, OpenRoot
    <3> QED
      BY <1>2, <3>1, OpenLevelFacts DEF OpenOutline, OpenRoot
  <2>2. OutlineTypeOK'
    BY <2>1 DEF OutlineTypeOK
  <2>3. phase = "read" /\ phase' = "outline"
    BY <1>2 DEF OpenOutline
  <2>4. UNCHANGED <<tree, inputs, todo, candidates, seen, stated, total, out, touched>>
    BY <1>2 DEF OpenOutline
  <2>5. Full' <=> Full
    BY <2>4 DEF Full
  <2> QED
    BY <2>2, <2>3, <2>4, <2>5
<1>3. CASE WalkOutline
  <2>1. OutlineTypeOK'
    BY <1>3, OutlineSteps DEF WalkOutline
  <2> QED
    BY <1>3, <2>1 DEF WalkOutline, gatherVars, Full
<1>4. CASE OutlineFails
  <2>1. OutlineTypeOK'
    BY <1>4, OutlineSteps DEF OutlineFails
  <2> QED
    BY <1>4, <2>1 DEF OutlineFails
<1>5. CASE AddOutline
  <2>1. OutlineTypeOK' /\ NoOutline'
    BY <1>5 DEF AddOutline, CloseOutline, OutlineTypeOK, NoOutline
  <2>2. \E size \in Nat : AddContext(size)
    BY <1>5, AddingSteps DEF AddOutline
  <2> QED
    BY <1>5, <2>1, <2>2, AddStep DEF AddOutline
<1>6. CASE ChangeTree /\ UNCHANGED outlineVars
  <2>1. tree' \in [Paths -> Nodes] /\ touched' \in SUBSET Paths
    BY <1>6 DEF ChangeTree
  <2>2. (Full' <=> Full) /\ (OutlineTypeOK' <=> OutlineTypeOK) /\ (NoOutline' <=> NoOutline)
    BY <1>6 DEF ChangeTree, Full, outlineVars, OutlineTypeOK, NoOutline
  <2> QED
    BY <1>6, <2>1, <2>2 DEF ChangeTree
<1>7. CASE UNCHANGED contextVars
  BY <1>7 DEF contextVars, gatherVars, outlineVars, Full, OutlineTypeOK, NoOutline
<1> QED
  BY <1>1, <1>2, <1>3, <1>4, <1>5, <1>6, <1>7
     DEF ContextNext, Gather, OutlineCandidate, ContextOver

LEMMA ContextInvHolds == ContextSpec => []ContextInv
<1>1. ContextInit => ContextInv
  <2> SUFFICES ASSUME ContextInit
               PROVE  ContextInv
    OBVIOUS
  <2>1. /\ todo \in Seq(Paths) /\ candidates \in Seq(Paths)
        /\ out \in Seq([path : Paths, len : Nat, cut : BOOLEAN])
    BY DEF ContextInit
  <2>2. phase = "start" /\ seen = {} /\ stated = "none" /\ total = 0
    BY DEF ContextInit
  <2>3. touched \in SUBSET Paths
    BY DEF ContextInit
  <2>4. tree \in [Paths -> Nodes] /\ max \in MaxContexts /\ requested \in Requested
    BY DEF ContextInit
  <2>5. NoOutline /\ OutlineTypeOK
    <3>1. <<>> \in Seq(Nat)
      OBVIOUS
    <3> QED
      BY <3>1 DEF ContextInit, NoOutline, OutlineTypeOK
  <2> QED
    BY <2>1, <2>2, <2>3, <2>4, <2>5 DEF ContextInv, ContextTypes, Phases
<1> QED
  BY <1>1, ContextStep, PTL DEF ContextSpec

(* The state of the gathering has its types, and what the caps leave to a   *)
(* file or an outline that is being read is never nothing: the loop has     *)
(* tested the total before.                                                 *)
THEOREM ContextTypeCorrect == ContextSpec => []ContextTypeOK
<1>1. ContextInv => ContextTypeOK
  <2> SUFFICES ASSUME ContextInv
               PROVE  ContextTypeOK
    OBVIOUS
  <2>1. ContextTypes /\ (phase \in {"read", "outline"} => ~Full)
    BY DEF ContextInv
  <2>2. ~Full => Limit \in Nat \ {0}
    BY <2>1, LimitFacts
  <2> QED
    BY <2>1, <2>2 DEF ContextTypeOK
<1> QED
  BY <1>1, ContextInvHolds, PTL

-----------------------------------------------------------------------------
(* A step adds a file or an outline, or leaves the totals alone.            *)
LEMMA AddsOrNot ==
    ASSUME ContextInv, [ContextNext]_contextVars
    PROVE  \/ \E size \in Nat : AddContext(size) /\ phase \in {"read", "outline"}
           \/ UNCHANGED <<out, max, total>> /\ (phase = "done" => phase' = "done")
<1>1. CASE ReadCandidate \/ AddOutline
  <2>1. phase \in {"read", "outline"}
    BY <1>1 DEF ReadCandidate, AddOutline
  <2> QED
    BY <1>1, <2>1, AddingSteps DEF ContextInv
<1>2. CASE ~(ReadCandidate \/ AddOutline)
  BY <1>2 DEF ContextNext, Gather, GatherFiles, OutlineCandidate, ContextOver, contextVars, gatherVars,
         inputs, UseRequested, SearchSemantic, DiscoverPath, DiscoverEnds, SkipSeen, GatherEnds,
         StatCandidate, ReadFails, OpenOutline, WalkOutline, OutlineFails, ChangeTree
<1> QED
  BY <1>1, <1>2

(* The cap on the total holds, but for one truncation mark.                 *)
LEMMA CapStep == ContextInv /\ ContextCapped /\ [ContextNext]_contextVars => ContextCapped'
<1> SUFFICES ASSUME ContextInv, ContextCapped, [ContextNext]_contextVars
             PROVE  ContextCapped'
  OBVIOUS
<1>1. ASSUME NEW size \in Nat, AddContext(size), phase \in {"read", "outline"}
      PROVE  ContextCapped'
  <2>1. ContextTypes /\ ~Full
    BY <1>1 DEF ContextInv
  <2>2. total' = total + KeptLen(size) /\ max' = max
    BY <1>1 DEF AddContext, inputs
  <2>3. max > 0 => total' <= max + MarkerLen
    BY <2>1, <2>2, CapFacts, LimitFacts
  <2> QED
    BY <2>2, <2>3 DEF ContextCapped
<1>2. CASE UNCHANGED <<max, total>>
  BY <1>2 DEF ContextCapped
<1> QED
  BY <1>1, <1>2, AddsOrNot

THEOREM ContextIsCapped == ContextSpec => []ContextCapped
<1>1. ContextInit => ContextCapped
  <2> SUFFICES ASSUME ContextInit
               PROVE  ContextCapped
    OBVIOUS
  <2>1. total = 0 /\ max \in Nat /\ MarkerLen \in Nat
    BY ContextWellFormed DEF ContextInit
  <2> QED
    BY <2>1 DEF ContextCapped
<1> QED
  BY <1>1, ContextInvHolds, CapStep, PTL DEF ContextSpec
-----------------------------------------------------------------------------
(* A file that is cut below the cap for one file has used up the total, so  *)
(* that nothing is read behind it.                                          *)
CutInv ==
    \A i \in 1..Len(out) :
      out[i].cut => \/ out[i].len = FileCap + MarkerLen
                    \/ i = Len(out) /\ phase = "done" /\ Full

LEMMA CutByAdding ==
    ASSUME ContextInv, CutInv, phase \in {"read", "outline"}, NEW n \in Nat, AddContext(n)
    PROVE  CutInv'
<1> DEFINE m == Len(out)
           e == [path |-> Head(candidates), len |-> KeptLen(n), cut |-> n > Limit]
<1>1. ContextTypes /\ ~Full
  BY DEF ContextInv
<1>2. n \in Nat
  OBVIOUS
<1>3. /\ m \in Nat /\ Len(out') = m + 1 /\ out'[m + 1] = e
      /\ \A i \in 1..m : out'[i] = out[i]
  <2>1. out' = Append(out, e)
    BY DEF AddContext
  <2>2. out \in Seq([path : Paths, len : Nat, cut : BOOLEAN])
    BY <1>1 DEF ContextTypes
  <2> QED
    BY <2>1, <2>2
<1>4. max' = max /\ total' = total + KeptLen(n) /\ FileCap' = FileCap
  BY DEF AddContext, inputs, FileCap
<1>5. phase' = IF max > 0 /\ total' >= max THEN "done" ELSE "gather"
  BY DEF AddContext
<1>6. ASSUME NEW i \in 1..Len(out'), out'[i].cut
      PROVE  \/ out'[i].len = FileCap + MarkerLen
             \/ i = Len(out') /\ phase' = "done" /\ Full'
  <2>1. CASE i \in 1..m
    <3>1. out[i].cut => out[i].len = FileCap + MarkerLen
      BY <2>1 DEF CutInv, AddContext
    <3> QED
      BY <1>3, <1>6, <2>1, <3>1
  <2>2. CASE i = m + 1
    <3>1. n > Limit /\ out'[i].len = Limit + MarkerLen /\ KeptLen(n) = Limit + MarkerLen
      <4>1. out'[i] = e
        BY <1>3, <2>2
      <4>2. out'[i].len = KeptLen(n) /\ out'[i].cut = (n > Limit)
        BY <4>1
      <4>3. n > Limit
        BY <1>6, <4>2, Zenon
      <4> QED
        BY <4>2, <4>3 DEF KeptLen
    <3>2. CASE Limit = FileCap
      BY <3>1, <3>2
    <3>3. CASE max > 0 /\ total + Limit = max
      <4>0. Limit \in Nat
        BY <1>1, <1>2, LimitFacts
      <4>1. total' >= max
        BY <1>1, <1>4, <3>1, <3>3, <4>0, CapFacts
      <4> QED
        BY <1>3, <1>4, <1>5, <2>2, <3>3, <4>1 DEF Full
    <3> QED
      BY <1>1, <1>2, <3>2, <3>3, LimitFacts
  <2> QED
    BY <1>3, <1>6, <2>1, <2>2
<1> QED
  BY <1>4, <1>6 DEF CutInv

LEMMA CutStep == ContextInv /\ CutInv /\ [ContextNext]_contextVars => CutInv'
<1> SUFFICES ASSUME ContextInv, CutInv, [ContextNext]_contextVars
             PROVE  CutInv'
  OBVIOUS
<1>1. ASSUME NEW n \in Nat, AddContext(n), phase \in {"read", "outline"}
      PROVE  CutInv'
  BY <1>1, CutByAdding
<1>2. CASE UNCHANGED <<out, max, total>> /\ (phase = "done" => phase' = "done")
  BY <1>2 DEF CutInv, FileCap, Full
<1> QED
  BY <1>1, <1>2, AddsOrNot

(* Files are cut only at the caps.                                          *)
THEOREM CutsAreAtCaps == ContextSpec => []CutOnlyAtCaps
<1>1. ContextInit => CutInv
  BY DEF ContextInit, CutInv
<1>2. ContextInv /\ CutInv => CutOnlyAtCaps
  <2> SUFFICES ASSUME ContextInv, CutInv
               PROVE  CutOnlyAtCaps
    OBVIOUS
  <2>1. DOMAIN out = 1..Len(out)
    BY DEF ContextInv, ContextTypes
  <2> QED
    BY <2>1 DEF CutInv, CutOnlyAtCaps
<1> QED
  BY <1>1, <1>2, ContextInvHolds, CutStep, PTL DEF ContextSpec
-----------------------------------------------------------------------------
(* Below the cap no line says that the outline was truncated; from there on *)
(* each entry or mark that is added has closed a level.                     *)
OutlineInv ==
    /\ Len(open) <= MaxDepth
    /\ added < MaxEntries => marks = 0
    /\ added >= MaxEntries => /\ added + Len(open) <= MaxEntries + MaxDepth - 1
                              /\ marks + Len(open) <= MaxDepth

LEMMA OutlineInvStep == ContextInv /\ OutlineInv /\ [ContextNext]_contextVars => OutlineInv'
<1> SUFFICES ASSUME ContextInv, OutlineInv, [ContextNext]_contextVars
             PROVE  OutlineInv'
  OBVIOUS
<1>0. /\ MaxDepth \in Nat \ {0} /\ MaxEntries \in Nat \ {0}
      /\ added \in Nat /\ marks \in Nat /\ Len(open) \in Nat
  BY OutlineCaps DEF ContextInv, ContextTypes, OutlineTypeOK
<1>1. CASE OutlineStep \/ LevelUnreadable
  <2>1. OutlineTypeOK
    BY DEF ContextInv, ContextTypes
  <2>2. Len(open') \in Nat
    BY <1>1, <2>1, OutlineSteps DEF OutlineTypeOK
  <2>3. CASE /\ added' = added + 1 /\ added' >= MaxEntries
             /\ marks' = marks + 1 /\ Len(open') = Len(open) - 1
    BY <1>0, <2>2, <2>3 DEF OutlineInv
  <2>4. CASE /\ added' = added + 1 /\ added' < MaxEntries /\ marks' = marks
             /\ (Len(open') = Len(open) \/ (Len(open) < MaxDepth /\ Len(open') = Len(open) + 1))
    BY <1>0, <2>2, <2>4 DEF OutlineInv
  <2>5. CASE added' = added /\ marks' = marks /\ Len(open') = Len(open) - 1
    BY <1>0, <2>2, <2>5 DEF OutlineInv
  <2> QED
    BY <1>1, <2>1, <2>3, <2>4, <2>5, OutlineSteps
<1>2. CASE OpenOutline
  <2>1. added = 0 /\ marks = 0
    BY <1>2 DEF OpenOutline, ContextInv, NoOutline
  <2>2. Len(open') = 1
    <3>1. <<>> \in Seq(Nat) /\ Len(<<>>) = 0
      OBVIOUS
    <3>2. OpenLevel(<<>>)
      BY <1>2 DEF OpenOutline, OpenRoot
    <3>3. Len(open') = Len(<<>>) + 1
      BY <3>1, <3>2, OpenLevelFacts
    <3> QED
      BY <3>1, <3>3
  <2>3. added' = added /\ marks' = marks
    BY <1>2 DEF OpenOutline, OpenRoot
  <2> QED
    BY <1>0, <2>1, <2>2, <2>3 DEF OutlineInv
<1>3. CASE AddOutline
  BY <1>0, <1>3 DEF AddOutline, CloseOutline, OutlineInv
<1>4. CASE UNCHANGED outlineVars
  BY <1>4 DEF outlineVars, OutlineInv
<1> QED
  BY <1>1, <1>2, <1>3, <1>4
     DEF ContextNext, Gather, OutlineCandidate, WalkOutline, OutlineFails, ContextOver, contextVars

LEMMA OutlineInvHolds == ContextSpec => [](ContextInv /\ OutlineInv)
<1>1. ContextInit => OutlineInv
  <2> SUFFICES ASSUME ContextInit
               PROVE  OutlineInv
    OBVIOUS
  <2>1. Len(open) = 0 /\ added = 0 /\ marks = 0
    BY DEF ContextInit, NoOutline
  <2>2. MaxDepth \in Nat \ {0} /\ MaxEntries \in Nat \ {0}
    BY OutlineCaps
  <2> QED
    BY <2>1, <2>2 DEF OutlineInv
<1> QED
  BY <1>1, ContextInvHolds, OutlineInvStep, PTL DEF ContextSpec

(* An outline passes its cap on entries by less than the cap on its depth.  *)
THEOREM OutlineIsBounded == ContextSpec => []OutlineBounded
<1>1. ContextInv /\ OutlineInv => OutlineBounded
  <2> SUFFICES ASSUME ContextInv, OutlineInv
               PROVE  OutlineBounded
    OBVIOUS
  <2>1. /\ MaxDepth \in Nat \ {0} /\ MaxEntries \in Nat \ {0}
        /\ added \in Nat /\ marks \in Nat /\ Len(open) \in Nat
    BY OutlineCaps DEF ContextInv, ContextTypes, OutlineTypeOK
  <2> QED
    BY <2>1 DEF OutlineInv, OutlineBounded
<1> QED
  BY <1>1, OutlineInvHolds, PTL
-----------------------------------------------------------------------------
(* A candidate is there unless the request names it or it was changed, and  *)
(* a path that was not changed is still what it was when it was looked at.  *)
Expected(p) == p \in touched \/ Exists(p) \/ \E j \in DOMAIN requested : requested[j] = p

AsStated(p) ==
    p \notin touched => /\ tree[p].kind \in {"file", "locked", "dir"}
                       /\ stated = IF tree[p].kind = "dir" THEN "dir" ELSE "file"

FailInv ==
    /\ \A i \in 1..Len(candidates) : Expected(candidates[i])
    /\ phase \in {"read", "outline"} => AsStated(Head(candidates))
    /\ phase = "outline" => stated = "dir"

LEMMA FailStep == ContextInv /\ FailInv /\ FailsForAReason /\ [ContextNext]_contextVars
                    => FailInv' /\ FailsForAReason'
<1> SUFFICES ASSUME ContextInv, FailInv, FailsForAReason, [ContextNext]_contextVars
             PROVE  FailInv' /\ FailsForAReason'
  OBVIOUS
<1>0. /\ candidates \in Seq(Paths) /\ todo \in Seq(Paths) /\ requested \in Seq(Paths)
      /\ \A p \in Paths : tree[p].kind \in {"absent", "file", "locked", "dir"}
  <2>1. \A p \in Paths : tree[p] \in Nodes
    BY DEF ContextInv, ContextTypes
  <2> QED
    BY <2>1, PathLists, ContextWellFormed DEF ContextInv, ContextTypes
<1>17. CASE ChangeTree /\ UNCHANGED outlineVars
  <2>1. /\ UNCHANGED <<phase, candidates, requested, stated>> /\ touched \subseteq touched'
        /\ phase # "failed"
        /\ \A p \in Paths : p \notin touched' => tree'[p] = tree[p] /\ p \notin touched
    <3>1. PICK p \in Paths, n \in Nodes : tree' = [tree EXCEPT ![p] = n] /\ touched' = touched \cup {p}
      BY <1>17 DEF ChangeTree
    <3>2. tree \in [Paths -> Nodes]
      BY DEF ContextInv, ContextTypes
    <3> QED
      BY <1>17, <3>1, <3>2 DEF ChangeTree, inputs
  <2>2. ASSUME NEW p \in Paths, Expected(p)
        PROVE  Expected(p)'
    BY <2>1, <2>2 DEF Expected, Exists
  <2>3. \A i \in 1..Len(candidates) : candidates[i] \in Paths
    BY <1>0
  <2>4. (\A i \in 1..Len(candidates) : Expected(candidates[i]))'
    BY <2>1, <2>2, <2>3 DEF FailInv
  <2>5. phase \in {"read", "outline"} => Head(candidates) \in Paths
    BY <1>0, NextCandidate DEF ContextInv
  <2>6. phase' \in {"read", "outline"} => AsStated(Head(candidates))'
    BY <2>1, <2>5 DEF FailInv, AsStated
  <2> QED
    BY <2>1, <2>4, <2>6 DEF FailInv, FailsForAReason
<1> SUFFICES ASSUME ~(ChangeTree /\ UNCHANGED outlineVars)
             PROVE  FailInv' /\ FailsForAReason'
  BY <1>17
<1>2. /\ tree' = tree /\ requested' = requested /\ touched' = touched
      /\ \A p : Expected(p)' <=> Expected(p)
  <2>1. tree' = tree /\ requested' = requested /\ touched' = touched
    BY DEF ContextNext, Gather, GatherFiles, OutlineCandidate, ContextOver, contextVars,
         gatherVars, inputs, UseRequested, SearchSemantic, DiscoverPath, DiscoverEnds, SkipSeen,
         GatherEnds, StatCandidate, ReadCandidate, ReadFails, OpenOutline, WalkOutline,
         OutlineFails, AddOutline, AddContext
  <2> QED
    BY <2>1 DEF Expected, Exists
<1>3. \A i \in 1..Len(candidates) : Expected(candidates[i])
  BY DEF FailInv
<1>4. ASSUME candidates # <<>>
      PROVE  /\ Head(candidates) \in Paths /\ Expected(Head(candidates))
             /\ \A i \in 1..Len(Tail(candidates)) : Expected(Tail(candidates)[i])
  <2>1. Len(candidates) >= 1 /\ Head(candidates) = candidates[1] /\ 1 \in 1..Len(candidates)
    BY <1>0, <1>4
  <2>2. \A i \in 1..Len(Tail(candidates)) :
          Tail(candidates)[i] = candidates[i + 1] /\ i + 1 \in 1..Len(candidates)
    BY <1>0, <1>4
  <2> QED
    BY <1>0, <1>3, <2>1, <2>2
<1>5. ASSUME phase' \notin {"read", "outline", "failed"},
             \A i \in 1..Len(candidates') : Expected(candidates'[i])
      PROVE  FailInv' /\ FailsForAReason'
  BY <1>2, <1>5 DEF FailInv, FailsForAReason
<1>6. CASE UseRequested
  <2>1. \A i \in 1..Len(requested) : Expected(requested[i])
    BY <1>0 DEF Expected
  <2> QED
    BY <1>5, <1>6, <2>1 DEF UseRequested
<1>7. CASE SearchSemantic
  <2>1. candidates' \in Hits \cup {<<>>} /\ \A i \in DOMAIN candidates' : tree[candidates'[i]].kind = "file"
    BY <1>7 DEF SearchSemantic
  <2>2. DOMAIN candidates' = 1..Len(candidates')
    BY <2>1, PathLists
  <2> QED
    BY <1>5, <1>7, <2>1, <2>2 DEF SearchSemantic, Expected, Exists
<1>8. CASE DiscoverPath
  <2>1. phase' = "discover"
    BY <1>8 DEF DiscoverPath
  <2>2. candidates' = candidates \/ (Exists(Head(todo)) /\ candidates' = Append(candidates, Head(todo)))
    BY <1>8 DEF DiscoverPath
  <2>3. Head(todo) \in Paths
    BY <1>0, <1>8, NextCandidate DEF DiscoverPath
  <2>4. ASSUME Exists(Head(todo)), candidates' = Append(candidates, Head(todo)),
               NEW i \in 1..Len(candidates')
        PROVE  Expected(candidates'[i])
    <3>1. candidates'[i] = Head(todo) \/ (i \in 1..Len(candidates) /\ candidates'[i] = candidates[i])
      BY <1>0, <2>3, <2>4
    <3> QED
      BY <1>3, <2>4, <3>1 DEF Expected
  <2> QED
    BY <1>3, <1>5, <2>1, <2>2, <2>4
<1>9. CASE DiscoverEnds \/ GatherEnds
  <2>1. candidates' = candidates /\ phase' \notin {"read", "outline", "failed"}
    BY <1>9 DEF DiscoverEnds, GatherEnds
  <2> QED
    BY <1>3, <1>5, <2>1
<1>10. CASE SkipSeen
  BY <1>4, <1>5, <1>10 DEF SkipSeen
<1>11. CASE StatCandidate
  <2> DEFINE p == Head(candidates)
  <2>1. p \in Paths /\ Expected(p) /\ candidates' = candidates
    BY <1>4, <1>11 DEF StatCandidate
  <2>2. CASE Exists(p)
    <3>1. phase' = "read" /\ stated' = IF tree[p].kind = "dir" THEN "dir" ELSE "file"
      BY <1>11, <2>2 DEF StatCandidate
    <3>2. tree[p].kind \in {"file", "locked", "dir"}
      BY <1>0, <2>1, <2>2 DEF Exists
    <3>3. AsStated(Head(candidates))'
      BY <1>2, <2>1, <3>1, <3>2 DEF AsStated
    <3> QED
      BY <1>2, <1>3, <2>1, <3>1, <3>3 DEF FailInv, FailsForAReason
  <2>3. CASE ~Exists(p)
    <3>1. phase' = "failed"
      BY <1>11, <2>3 DEF StatCandidate
    <3>2. p \in touched \/ \E j \in DOMAIN requested : requested[j] = p
      BY <2>1, <2>3 DEF Expected
    <3>3. ~Exists(p)'
      BY <1>2, <2>1, <2>3 DEF Exists
    <3>4. FailsForAReason'
      BY <1>2, <2>1, <3>2, <3>3 DEF FailsForAReason
    <3> QED
      BY <1>2, <1>3, <2>1, <3>1, <3>4 DEF FailInv
  <2> QED
    BY <2>2, <2>3
<1>12. CASE ReadCandidate \/ AddOutline
  <2>1. candidates # <<>> /\ candidates' = Tail(candidates) /\ phase' \in {"done", "gather"}
    BY <1>12 DEF ContextInv, ReadCandidate, AddOutline, AddContext
  <2> QED
    BY <1>4, <1>5, <2>1
<1>13. CASE ReadFails
  <2>1. /\ phase = "read" /\ tree[Head(candidates)].kind # stated /\ phase' = "failed"
        /\ candidates' = candidates /\ stated' = stated
    BY <1>13 DEF ReadFails
  <2>2. AsStated(Head(candidates))
    BY <2>1 DEF FailInv
  <2>3. \/ Head(candidates') \in touched'
        \/ tree'[Head(candidates')].kind = "locked" /\ stated' = "file"
    BY <1>2, <2>1, <2>2 DEF AsStated
  <2> QED
    BY <1>2, <1>3, <2>1, <2>3 DEF FailInv, FailsForAReason
<1>14. CASE OutlineFails
  <2>1. /\ phase = "outline" /\ phase' = "failed" /\ candidates' = candidates /\ stated' = stated
        /\ open # <<>> /\ open' = Rest
    BY <1>14 DEF OutlineFails, LevelUnreadable
  <2>2. open' # <<>>
    <3>1. open \in Seq(Nat) /\ open[Last] > 0
      BY <1>14 DEF OutlineFails, LevelUnreadable, ContextInv, ContextTypes, OutlineTypeOK
    <3>2. Rest \in Seq(Nat) /\ Len(Rest) = Len(open)
      BY <2>1, <3>1, StackFacts DEF Rest, Last
    <3> QED
      BY <2>1, <3>1, <3>2
  <2>3. Head(candidates') \in touched' \/ tree'[Head(candidates')].kind = "dir"
    BY <1>2, <2>1 DEF FailInv, AsStated
  <2> QED
    BY <1>2, <1>3, <2>1, <2>2, <2>3 DEF FailInv, FailsForAReason
<1>15. CASE OpenOutline \/ WalkOutline
  <2>1. /\ candidates' = candidates /\ phase' = "outline" /\ stated' = stated /\ stated = "dir"
        /\ phase \in {"read", "outline"}
    BY <1>15 DEF OpenOutline, WalkOutline, gatherVars, FailInv
  <2>2. AsStated(Head(candidates))'
    BY <1>2, <2>1 DEF FailInv, AsStated
  <2> QED
    BY <1>2, <1>3, <2>1, <2>2 DEF FailInv, FailsForAReason
<1>16. CASE UNCHANGED contextVars
  BY <1>16 DEF contextVars, gatherVars, outlineVars, FailInv, FailsForAReason, AsStated, Expected, Exists
<1> QED
  BY <1>6, <1>7, <1>8, <1>9, <1>10, <1>11, <1>12, <1>13, <1>14, <1>15, <1>16
     DEF ContextNext, Gather, GatherFiles, OutlineCandidate, ContextOver

(* Gathering fails only for a reason the user can see.                      *)
THEOREM FailuresHaveReasons == ContextSpec => []FailsForAReason
<1>1. ContextInit => FailInv /\ FailsForAReason
  BY DEF ContextInit, FailInv, FailsForAReason
<1>2. FailInv /\ FailsForAReason /\ ContextInv /\ [ContextNext]_contextVars
        => (FailInv /\ FailsForAReason)'
  BY FailStep
<1> QED
  BY <1>1, <1>2, ContextInvHolds, PTL DEF ContextSpec
-----------------------------------------------------------------------------
(* How far the context is from being gathered: none of the five numbers is  *)
(* below zero, the entries of an outline included, which pass their cap.    *)
DistanceKnown ==
    /\ ContextDistance \in [1..5 -> Nat]
    /\ ContextDistance[1] = StagesLeft /\ ContextDistance[2] = PathsLeft
    /\ ContextDistance[3] = WorkLeft /\ ContextDistance[4] = EntriesLeft
    /\ ContextDistance[5] = Len(open)

LEMMA DistanceIs == ContextInv /\ OutlineInv => DistanceKnown
<1> SUFFICES ASSUME ContextInv, OutlineInv
             PROVE  DistanceKnown
  OBVIOUS
<1>1. phase \in Phases /\ todo \in Seq(Paths) /\ candidates \in Seq(Paths)
  BY DEF ContextInv, ContextTypes
<1>2. StagesLeft \in Nat /\ PathsLeft \in Nat /\ WorkLeft \in Nat
  BY <1>1 DEF StagesLeft, PathsLeft, WorkLeft, Phases
<1>3. open \in Seq(Nat) /\ added \in Nat
  BY DEF ContextInv, ContextTypes, OutlineTypeOK
<1>4. MaxDepth \in Nat \ {0} /\ MaxEntries \in Nat \ {0}
  BY OutlineCaps
<1>5. Len(open) \in Nat /\ EntriesLeft \in Nat
  BY <1>3, <1>4 DEF OutlineInv, EntriesLeft
<1> QED
  BY <1>2, <1>5 DEF DistanceKnown, ContextDistance

(* The ways to come nearer: the next stage, the next path, more done with   *)
(* this path, an entry listed, a level left.                                *)
NextStage == StagesLeft' < StagesLeft

NextPath == StagesLeft' = StagesLeft /\ PathsLeft' < PathsLeft

SamePath == StagesLeft' = StagesLeft /\ PathsLeft' = PathsLeft

WithPath == SamePath /\ WorkLeft' < WorkLeft

WithEntry == SamePath /\ WorkLeft' = WorkLeft /\ EntriesLeft' < EntriesLeft

WithLevel == SamePath /\ WorkLeft' = WorkLeft /\ EntriesLeft' = EntriesLeft
             /\ Len(open') < Len(open)

GatherMoves == NextStage \/ NextPath \/ WithPath \/ WithEntry \/ WithLevel

LEMMA ShorterList == ASSUME NEW s \in Seq(Paths), s # <<>>
                     PROVE  Len(Tail(s)) < Len(s)
OBVIOUS

LEMMA AddingMoves ==
    ASSUME ContextInv, phase \in {"read", "outline"}, NEW size \in Nat, AddContext(size)
    PROVE  GatherMoves
<1>1. candidates # <<>> /\ candidates \in Seq(Paths)
  BY DEF ContextInv, ContextTypes
<1>2. candidates' = Tail(candidates) /\ phase' \in {"done", "gather"}
  BY DEF AddContext
<1>3. Len(candidates') < Len(candidates)
  BY <1>1, <1>2, ShorterList
<1>4. CASE phase' = "done"
  BY <1>4 DEF GatherMoves, NextStage, StagesLeft
<1>5. CASE phase' = "gather"
  BY <1>3, <1>5 DEF GatherMoves, NextPath, StagesLeft, PathsLeft
<1> QED
  BY <1>2, <1>4, <1>5

LEMMA GatheringMoves == ContextInv /\ OutlineInv /\ Gather => GatherMoves
<1> SUFFICES ASSUME ContextInv, OutlineInv, Gather
             PROVE  GatherMoves
  OBVIOUS
<1>0. todo \in Seq(Paths) /\ candidates \in Seq(Paths) /\ OutlineTypeOK
  BY DEF ContextInv, ContextTypes
<1>1. CASE UseRequested \/ SearchSemantic \/ DiscoverEnds
  BY <1>1 DEF UseRequested, SearchSemantic, DiscoverEnds, GatherMoves, NextStage, StagesLeft
<1>2. CASE GatherEnds \/ ReadFails \/ OutlineFails
  BY <1>2 DEF GatherEnds, ReadFails, OutlineFails, GatherMoves, NextStage, StagesLeft
<1>3. CASE DiscoverPath
  <2>1. todo # <<>> /\ todo' = Tail(todo) /\ phase = "discover" /\ phase' = "discover"
    BY <1>3 DEF DiscoverPath
  <2>2. Len(todo') < Len(todo)
    BY <1>0, <2>1, ShorterList
  <2> QED
    BY <2>1, <2>2 DEF GatherMoves, NextPath, StagesLeft, PathsLeft
<1>4. CASE SkipSeen
  <2>1. /\ candidates # <<>> /\ candidates' = Tail(candidates)
        /\ phase = "gather" /\ phase' = "gather"
    BY <1>4 DEF SkipSeen
  <2>2. Len(candidates') < Len(candidates)
    BY <1>0, <2>1, ShorterList
  <2> QED
    BY <2>1, <2>2 DEF GatherMoves, NextPath, StagesLeft, PathsLeft
<1>5. CASE StatCandidate
  <2>1. phase = "gather" /\ phase' \in {"read", "failed"} /\ candidates' = candidates
    BY <1>5 DEF StatCandidate
  <2>2. CASE phase' = "failed"
    BY <2>1, <2>2 DEF GatherMoves, NextStage, StagesLeft
  <2>3. CASE phase' = "read"
    BY <2>1, <2>3 DEF GatherMoves, WithPath, SamePath, StagesLeft, PathsLeft, WorkLeft
  <2> QED
    BY <2>1, <2>2, <2>3
<1>6. CASE ReadCandidate \/ AddOutline
  <2>1. candidates # <<>> /\ phase \in {"read", "outline"}
    BY <1>6 DEF ContextInv, ReadCandidate, AddOutline
  <2>2. PICK size \in Nat : AddContext(size)
    BY <1>6, <2>1, AddingSteps DEF ContextInv
  <2> QED
    BY <2>1, <2>2, AddingMoves
<1>7. CASE OpenOutline
  <2>1. phase = "read" /\ phase' = "outline" /\ candidates' = candidates
    BY <1>7 DEF OpenOutline
  <2> QED
    BY <2>1 DEF GatherMoves, WithPath, SamePath, StagesLeft, PathsLeft, WorkLeft
<1>8. CASE WalkOutline
  <2>1. OutlineStep /\ UNCHANGED <<phase, todo, candidates>>
    BY <1>8 DEF WalkOutline, gatherVars
  <2>2. SamePath /\ WorkLeft' = WorkLeft
    BY <2>1 DEF SamePath, StagesLeft, PathsLeft, WorkLeft
  <2>3. added \in Nat /\ Len(open) \in Nat /\ MaxEntries \in Nat /\ MaxDepth \in Nat
    BY <1>0, OutlineCaps DEF OutlineTypeOK
  <2>4. \/ added' = added + 1
        \/ added' = added /\ Len(open') = Len(open) - 1
    BY <1>0, <2>1, OutlineSteps
  <2>5. CASE added' = added + 1
    <3>1. EntriesLeft' < EntriesLeft
      BY <2>3, <2>5 DEF EntriesLeft
    <3> QED
      BY <2>2, <3>1 DEF GatherMoves, WithEntry
  <2>6. CASE added' = added /\ Len(open') = Len(open) - 1
    <3>1. EntriesLeft' = EntriesLeft /\ Len(open') < Len(open)
      BY <2>3, <2>6 DEF EntriesLeft
    <3> QED
      BY <2>2, <3>1 DEF GatherMoves, WithLevel
  <2> QED
    BY <2>4, <2>5, <2>6
<1> QED
  BY <1>1, <1>2, <1>3, <1>4, <1>5, <1>6, <1>7, <1>8 DEF Gather, GatherFiles, OutlineCandidate

(* Moves are steps down in the lexicographic order of the distances.        *)
LEMMA GatherMovesDown ==
    ASSUME DistanceKnown, DistanceKnown', GatherMoves
    PROVE  \E i \in 1..5 : /\ ContextDistance'[i] < ContextDistance[i]
                           /\ \A j \in 1..i - 1 : ContextDistance'[j] = ContextDistance[j]
<1>1. /\ ContextDistance[1] = StagesLeft /\ ContextDistance[2] = PathsLeft
      /\ ContextDistance[3] = WorkLeft /\ ContextDistance[4] = EntriesLeft
      /\ ContextDistance[5] = Len(open)
  BY DEF DistanceKnown
<1>2. /\ ContextDistance'[1] = StagesLeft' /\ ContextDistance'[2] = PathsLeft'
      /\ ContextDistance'[3] = WorkLeft' /\ ContextDistance'[4] = EntriesLeft'
      /\ ContextDistance'[5] = Len(open')
  BY DEF DistanceKnown
<1> DEFINE d == ContextDistance
           e == ContextDistance'
<1> SUFFICES \E i \in 1..5 : e[i] < d[i] /\ \A j \in 1..i - 1 : e[j] = d[j]
  OBVIOUS
<1>3. \/ e[1] < d[1]
      \/ e[1] = d[1] /\ e[2] < d[2]
      \/ e[1] = d[1] /\ e[2] = d[2] /\ e[3] < d[3]
      \/ e[1] = d[1] /\ e[2] = d[2] /\ e[3] = d[3] /\ e[4] < d[4]
      \/ e[1] = d[1] /\ e[2] = d[2] /\ e[3] = d[3] /\ e[4] = d[4] /\ e[5] < d[5]
  BY <1>1, <1>2 DEF GatherMoves, NextStage, NextPath, SamePath, WithPath, WithEntry, WithLevel
<1> HIDE DEF d, e
<1>4. CASE e[1] < d[1]
  BY <1>4
<1>5. CASE e[1] = d[1] /\ e[2] < d[2]
  <2>1. \A j \in 1..2 - 1 : e[j] = d[j]
    BY <1>5
  <2> QED
    BY <1>5, <2>1
<1>6. CASE e[1] = d[1] /\ e[2] = d[2] /\ e[3] < d[3]
  <2>1. \A j \in 1..3 - 1 : e[j] = d[j]
    BY <1>6
  <2> QED
    BY <1>6, <2>1
<1>7. CASE e[1] = d[1] /\ e[2] = d[2] /\ e[3] = d[3] /\ e[4] < d[4]
  <2>1. \A j \in 1..4 - 1 : e[j] = d[j]
    BY <1>7
  <2> QED
    BY <1>7, <2>1
<1>8. CASE e[1] = d[1] /\ e[2] = d[2] /\ e[3] = d[3] /\ e[4] = d[4] /\ e[5] < d[5]
  <2>1. \A j \in 1..5 - 1 : e[j] = d[j]
    BY <1>8
  <2> QED
    BY <1>8, <2>1
<1> QED
  BY <1>3, <1>4, <1>5, <1>6, <1>7, <1>8

LEMMA ChangesStay == [ContextNext]_contextVars /\ ~Gather => ContextDistance' = ContextDistance
<1> SUFFICES ASSUME [ContextNext]_contextVars, ~Gather
             PROVE  ContextDistance' = ContextDistance
  OBVIOUS
<1>1. UNCHANGED <<phase, todo, candidates, open, added>>
  BY DEF ContextNext, ChangeTree, ContextOver, contextVars, gatherVars, outlineVars
<1> QED
  BY <1>1 DEF ContextDistance, StagesLeft, PathsLeft, WorkLeft, EntriesLeft

(* However the tree is changed, every step of the gathering brings it       *)
(* nearer its end, and no change of the tree moves the end away.            *)
THEOREM GatheringMovesOn == ContextSpec => GatherMovesOn
<1>1. ASSUME ContextInv, OutlineInv, DistanceKnown, DistanceKnown', Gather
      PROVE  ContextNearer
  <2>1. \A i \in 1..5 : ContextDistance'[i] >= 0
    <3>1. ContextDistance' \in [1..5 -> Nat]
      BY <1>1 DEF DistanceKnown
    <3> QED
      BY <3>1
  <2> QED
    BY <1>1, <2>1, GatheringMoves, GatherMovesDown DEF ContextNearer
<1>2. ContextInv /\ OutlineInv /\ DistanceKnown /\ DistanceKnown' /\ [ContextNext]_contextVars
        => [IF Gather THEN ContextNearer ELSE ContextDistance' = ContextDistance]_contextVars
  BY <1>1, ChangesStay
<1>3. ContextSpec => [](ContextInv /\ OutlineInv /\ DistanceKnown)
  BY OutlineInvHolds, DistanceIs, PTL
<1> QED
  BY <1>2, <1>3, PTL DEF ContextSpec, GatherMovesOn

(* Nothing descends for ever in that order: a run's context takes finitely  *)
(* many steps to gather.                                                    *)
THEOREM GatheringDescends ==
    /\ IsWellFoundedOn(LexProductOrdering(OpToRel(<, Nat), Nat, 5), [1..5 -> Nat])
    /\ ContextSpec => [][Gather => <<ContextDistance', ContextDistance>>
                                     \in LexProductOrdering(OpToRel(<, Nat), Nat, 5)]_contextVars
<1> DEFINE Below == LexProductOrdering(OpToRel(<, Nat), Nat, 5)
<1>1. IsWellFoundedOn(Below, [1..5 -> Nat])
  BY NatLessThanWellFounded, WFLexProductOrdering
<1>2. ASSUME ContextInv, OutlineInv, DistanceKnown, DistanceKnown', Gather
      PROVE  <<ContextDistance', ContextDistance>> \in Below
  <2>1. ContextDistance' \in [1..5 -> Nat] /\ ContextDistance \in [1..5 -> Nat]
    BY <1>2 DEF DistanceKnown
  <2>2. PICK i \in 1..5 : /\ ContextDistance'[i] < ContextDistance[i]
                          /\ \A j \in 1..i - 1 : ContextDistance'[j] = ContextDistance[j]
    BY <1>2, GatheringMoves, GatherMovesDown
  <2>3. <<ContextDistance'[i], ContextDistance[i]>> \in OpToRel(<, Nat)
    BY <2>1, <2>2 DEF OpToRel
  <2> QED
    BY <2>1, <2>2, <2>3 DEF LexProductOrdering
<1> HIDE DEF Below
<1>3. ContextInv /\ OutlineInv /\ DistanceKnown /\ DistanceKnown' /\ [ContextNext]_contextVars
        => [Gather => <<ContextDistance', ContextDistance>> \in Below]_contextVars
  BY <1>2
<1>4. ContextSpec => [](ContextInv /\ OutlineInv /\ DistanceKnown)
  BY OutlineInvHolds, DistanceIs, PTL
<1>5. ContextSpec => [][Gather => <<ContextDistance', ContextDistance>> \in Below]_contextVars
  BY <1>3, <1>4, PTL DEF ContextSpec
<1> QED
  BY <1>1, <1>5 DEF Below
=============================================================================
