------------------------------- MODULE Outline -------------------------------
(* The outline of a directory (DescribeStructure and skipStructureDir in    *)
(* internal/tools/filesystem.go): a recursive listing with a cap on its     *)
(* depth and one on its entries.  The recursion is a stack of open levels.  *)
(* A level that reaches the cap on entries writes a line that says so and   *)
(* ends; the level above takes that for a skipped directory and goes on.    *)
EXTENDS Integers, Sequences

CONSTANTS
    MaxDepth,       \* levels that are listed (3 in buildContextFiles)
    MaxEntries,     \* entries at which a level ends (200 in buildContextFiles)
    MaxListing      \* bound: entries of one directory, those skipped by name left out

ASSUME OutlineCaps ==
    /\ MaxDepth \in Nat \ {0} /\ MaxEntries \in Nat \ {0} /\ MaxListing \in Nat

VARIABLES
    open,           \* entries left in each level that is open, the deepest last
    added,          \* entries listed so far
    marks           \* lines that say the outline was truncated

outlineVars == <<open, added, marks>>

OutlineTypeOK ==
    /\ open \in Seq(Nat)
    /\ added \in Nat
    /\ marks \in Nat

NoOutline == open = <<>> /\ added = 0 /\ marks = 0

(* os.ReadDir of a directory that is to be listed, below the open levels.   *)
OpenLevel(levels) == \E n \in 0..MaxListing : open' = Append(levels, n)

OpenRoot == OpenLevel(<<>>) /\ UNCHANGED <<added, marks>>

Last == Len(open)

Above == SubSeq(open, 1, Last - 1)

Rest == [open EXCEPT ![Last] = @ - 1]

(* One entry is listed.  At the cap the level ends: SkipDir.  Mutant: the   *)
(* line is written, but the level goes on.                                  *)
ListOn ==
    /\ open # <<>> /\ open[Last] > 0
    /\ added' = added + 1
    /\ IF added + 1 >= MaxEntries
       THEN open' = Rest /\ marks' = marks + 1
       ELSE /\ UNCHANGED marks
            /\ open' = Rest \/ (Last < MaxDepth /\ OpenLevel(Rest))

ListEntry ==
    /\ open # <<>> /\ open[Last] > 0
    /\ added' = added + 1
    /\ IF added + 1 >= MaxEntries
       THEN open' = Above /\ marks' = marks + 1
       ELSE /\ UNCHANGED marks
            /\ open' = Rest \/ (Last < MaxDepth /\ OpenLevel(Rest))

(* A level is through: the one above goes on.                               *)
LeaveLevel ==
    /\ open # <<>> /\ open[Last] = 0
    /\ open' = Above
    /\ UNCHANGED <<added, marks>>

(* A directory below the cap on depth cannot be read: the whole outline     *)
(* fails.                                                                   *)
LevelUnreadable ==
    /\ open # <<>> /\ open[Last] > 0
    /\ added + 1 < MaxEntries /\ Last < MaxDepth
    /\ added' = added + 1
    /\ open' = Rest
    /\ UNCHANGED marks

(* What is kept of an outline when it is done: nothing.                     *)
CloseOutline == open' = <<>> /\ added' = 0 /\ marks' = 0

OutlineStep == ListEntry \/ LeaveLevel

(* The path itself and a line for every entry and every truncation.         *)
OutlineLen == 1 + added + marks

-----------------------------------------------------------------------------
(* The caps bound the outline: a level above one that reached the cap still *)
(* lists an entry before it ends too, so that every level but the deepest   *)
(* may put one on top of the cap, and each level ends with one mark.        *)
OutlineBounded ==
    /\ Len(open) <= MaxDepth
    /\ added <= MaxEntries + MaxDepth - 1
    /\ marks <= MaxDepth
=============================================================================
