--------------------------- MODULE ContextBudget ---------------------------
(* The context files of a run (buildContextFiles, appendWithBudget and      *)
(* discoverContextPaths in internal/rpc/agent/runner.go).  The candidates   *)
(* are the paths of the request or, without any, the hits of the semantic   *)
(* search followed by the existing paths among those the prompt mentions    *)
(* and the defaults.  Each is looked at, read and added under a cap per     *)
(* file and a cap on the total; a directory is added as its outline.  The   *)
(* tree may change between any two steps: other runs write it and git       *)
(* patches it.                                                              *)
EXTENDS Outline, FiniteSets

CONSTANTS
    Paths,          \* the paths explored
    Nodes,          \* what may be at a path: [kind, size]
    Requested,      \* the lists of context paths a request may carry
    Hits,           \* the results the semantic search may give
    Mentioned,      \* the paths a prompt may mention, in order
    Defaults,       \* the default paths, in order
    MaxFound,       \* how many paths are discovered at most (12 in the code)
    MaxContexts,    \* the values of agent.max_context_bytes, 0 for no cap
    PerFileCap,     \* bytes of one file (32768 in the code)
    MarkerLen,      \* length of the truncation mark, a newline and [truncated] (12)
    LineLen         \* bytes of a line of an outline, taken to be alike

ASSUME ContextWellFormed ==
    /\ Nodes \subseteq [kind : {"absent", "file", "locked", "dir"}, size : Nat]
    /\ Requested \cup Hits \cup Mentioned \cup {Defaults} \subseteq Seq(Paths)
    /\ MaxContexts \subseteq Nat
    /\ PerFileCap \in Nat \ {0} /\ MarkerLen \in Nat /\ LineLen \in Nat
    /\ MaxFound \in Nat

VARIABLES
    tree,           \* what is at each path
    max,            \* maxContext
    requested,      \* the paths of the request
    phase,          \* where buildContextFiles is
    todo,           \* raw: paths discovery has not looked at
    candidates,     \* the candidates that are left
    seen,           \* the candidates that were taken up
    stated,         \* kind of the current one when it was looked at
    total,          \* bytes collected
    out,            \* the context files collected: path, length, whether cut
    touched         \* history: the paths changed since the run began

gatherVars == <<tree, max, requested, phase, todo, candidates, seen, stated, total, out, touched>>
contextVars == <<gatherVars, outlineVars>>
inputs == <<max, requested>>

Phases == {"start", "discover", "gather", "read", "outline", "done", "failed"}

ContextTypes ==
    /\ tree \in [Paths -> Nodes]
    /\ max \in MaxContexts
    /\ requested \in Requested
    /\ phase \in Phases
    /\ todo \in Seq(Paths)
    /\ candidates \in Seq(Paths)
    /\ seen \in SUBSET Paths
    /\ stated \in {"none", "file", "dir"}
    /\ total \in Nat
    /\ out \in Seq([path : Paths, len : Nat, cut : BOOLEAN])
    /\ touched \in SUBSET Paths
    /\ OutlineTypeOK

(* What the caps leave to the next file: of the cap for one file, and of    *)
(* the total.  Mutant: what was collected is not counted.                   *)
Smaller(a, b) == IF a < b THEN a ELSE b

FileCap == IF max > 0 THEN Smaller(PerFileCap, max) ELSE PerFileCap

LimitOfOne == FileCap

Limit == IF max > 0 THEN Smaller(FileCap, max - total) ELSE FileCap

(* The types; and that there is always room for part of what is being read  *)
(* or outlined: appendWithBudget would not cut at all under a limit of 0.   *)
ContextTypeOK ==
    /\ ContextTypes
    /\ phase \in {"read", "outline"} => Limit \in Nat \ {0}

ContextInit ==
    /\ tree \in [Paths -> Nodes]
    /\ max \in MaxContexts
    /\ requested \in Requested
    /\ phase = "start"
    /\ todo = <<>> /\ candidates = <<>> /\ seen = {} /\ stated = "none"
    /\ total = 0 /\ out = <<>> /\ touched = {}
    /\ NoOutline

Exists(p) == tree[p].kind # "absent"

-----------------------------------------------------------------------------
UseRequested ==
    /\ phase = "start"
    /\ requested # <<>>
    /\ candidates' = requested
    /\ phase' = "gather"
    /\ UNCHANGED <<tree, inputs, todo, seen, stated, total, out, touched>>

(* Discovery looks at what the prompt mentions, then at the defaults.       *)
RawPaths == {m \o Defaults : m \in Mentioned}

(* The search reads the files it returns; it may be disabled or fail.       *)
SearchSemantic ==
    /\ phase = "start"
    /\ requested = <<>>
    /\ candidates' \in {h \in Hits : \A i \in DOMAIN h : tree[h[i]].kind = "file"} \cup {<<>>}
    /\ todo' \in RawPaths
    /\ phase' = "discover"
    /\ UNCHANGED <<tree, inputs, seen, stated, total, out, touched>>

(* discoverContextPaths looks at one path; it keeps those that exist, once  *)
(* each, up to its limit.  What it found is in `seen` until it is done.     *)
(* Mutant: whether it exists is not looked at.                              *)
DiscoverUnchecked ==
    /\ phase = "discover"
    /\ todo # <<>>
    /\ seen' = seen \cup {Head(todo)}
    /\ candidates' = Append(candidates, Head(todo))
    /\ todo' = Tail(todo)
    /\ UNCHANGED <<tree, inputs, phase, stated, total, out, touched>>

DiscoverPath ==
    /\ phase = "discover"
    /\ todo # <<>>
    /\ LET p == Head(todo)
       IN  /\ p \in seen \/ Cardinality(seen) < MaxFound
           /\ IF p \in seen \/ ~Exists(p)
              THEN UNCHANGED <<candidates, seen>>
              ELSE seen' = seen \cup {p} /\ candidates' = Append(candidates, p)
    /\ todo' = Tail(todo)
    /\ UNCHANGED <<tree, inputs, phase, stated, total, out, touched>>

DiscoverEnds ==
    /\ phase = "discover"
    /\ IF todo = <<>> THEN TRUE ELSE Head(todo) \notin seen /\ Cardinality(seen) >= MaxFound
    /\ phase' = "gather"
    /\ todo' = <<>>
    /\ seen' = {}
    /\ UNCHANGED <<tree, inputs, candidates, stated, total, out, touched>>

-----------------------------------------------------------------------------
(* The head of the loop: the next candidate, unless it was taken up before. *)
SkipSeen ==
    /\ phase = "gather"
    /\ candidates # <<>>
    /\ Head(candidates) \in seen
    /\ candidates' = Tail(candidates)
    /\ UNCHANGED <<tree, inputs, phase, todo, seen, stated, total, out, touched>>

Full == max > 0 /\ total >= max

GatherEnds ==
    /\ phase = "gather"
    /\ IF candidates = <<>> THEN TRUE ELSE Head(candidates) \notin seen /\ Full
    /\ phase' = "done"
    /\ UNCHANGED <<tree, inputs, todo, candidates, seen, stated, total, out, touched>>

StatCandidate ==
    /\ phase = "gather"
    /\ candidates # <<>>
    /\ Head(candidates) \notin seen
    /\ ~Full
    /\ seen' = seen \cup {Head(candidates)}
    /\ IF Exists(Head(candidates))
       THEN /\ phase' = "read"
            /\ stated' = IF tree[Head(candidates)].kind = "dir" THEN "dir" ELSE "file"
       ELSE phase' = "failed" /\ UNCHANGED stated
    /\ UNCHANGED <<tree, inputs, todo, candidates, total, out, touched>>

(* appendWithBudget: the content is cut to what the caps leave, and the     *)
(* mark that says so comes on top.  Mutant: the mark is cut off, too.       *)
KeptWithMark(size) == IF size > Limit THEN Limit - MarkerLen ELSE size

KeptLen(size) == IF size > Limit THEN Limit + MarkerLen ELSE size

AddContext(size) ==
    /\ candidates' = Tail(candidates)
    /\ stated' = "none"
    /\ out' = Append(out, [path |-> Head(candidates), len |-> KeptLen(size), cut |-> size > Limit])
    /\ total' = total + KeptLen(size)
    /\ phase' = IF max > 0 /\ total' >= max THEN "done" ELSE "gather"
    /\ UNCHANGED <<tree, inputs, todo, seen, touched>>

ReadCandidate ==
    /\ phase = "read"
    /\ stated = "file"
    /\ tree[Head(candidates)].kind = "file"
    /\ AddContext(tree[Head(candidates)].size)

(* The file cannot be read, or is no longer what it was when looked at.     *)
ReadFails ==
    /\ phase = "read"
    /\ tree[Head(candidates)].kind # stated
    /\ phase' = "failed"
    /\ UNCHANGED <<tree, inputs, todo, candidates, seen, stated, total, out, touched>>

(* A directory is outlined level by level, and its outline is added.        *)
OpenOutline ==
    /\ phase = "read"
    /\ stated = "dir"
    /\ tree[Head(candidates)].kind = "dir"
    /\ phase' = "outline"
    /\ OpenRoot
    /\ UNCHANGED <<tree, inputs, todo, candidates, seen, stated, total, out, touched>>

WalkOutline ==
    /\ phase = "outline"
    /\ OutlineStep
    /\ UNCHANGED gatherVars

OutlineFails ==
    /\ phase = "outline"
    /\ LevelUnreadable
    /\ phase' = "failed"
    /\ UNCHANGED <<tree, inputs, todo, candidates, seen, stated, total, out, touched>>

AddOutline ==
    /\ phase = "outline"
    /\ open = <<>>
    /\ AddContext(LineLen * OutlineLen)
    /\ CloseOutline

OutlineCandidate == OpenOutline \/ WalkOutline \/ OutlineFails \/ AddOutline

(* Someone else writes, removes or replaces a file.                         *)
ChangeTree ==
    /\ phase \notin {"done", "failed"}
    /\ \E p \in Paths, n \in Nodes :
         /\ n # tree[p]
         /\ tree' = [tree EXCEPT ![p] = n]
         /\ touched' = touched \cup {p}
    /\ UNCHANGED <<inputs, phase, todo, candidates, seen, stated, total, out>>

ContextOver == phase \in {"done", "failed"} /\ UNCHANGED contextVars

GatherFiles ==
    \/ UseRequested \/ SearchSemantic \/ DiscoverPath \/ DiscoverEnds
    \/ SkipSeen \/ GatherEnds \/ StatCandidate \/ ReadCandidate \/ ReadFails

Gather == (GatherFiles /\ UNCHANGED outlineVars) \/ OutlineCandidate

ContextNext ==
    \/ Gather
    \/ ChangeTree /\ UNCHANGED outlineVars
    \/ ContextOver

ContextSpec == ContextInit /\ [][ContextNext]_contextVars

-----------------------------------------------------------------------------
(* The total stays within agent.max_context_bytes, but for one truncation   *)
(* mark: only the last file can pass the cap, and only by the mark.         *)
ContextCapped == max > 0 => total <= max + MarkerLen

(* A file is cut only when it is over the cap for one file, or when it is   *)
(* the one that exhausts the total: no later file is squeezed in behind it. *)
CutOnlyAtCaps ==
    \A i \in DOMAIN out :
      out[i].cut => out[i].len = FileCap + MarkerLen \/ i = Len(out)

(* Gathering the context ends a run with an error only for the candidate it *)
(* is at, which is left at the head: one that the request names and that is *)
(* not there, an unreadable file, a directory with one in its outline that  *)
(* cannot be read, or a path that itself was changed since the run began.   *)
(* What the search or the discovery returned can be read otherwise, and no  *)
(* change of any other path fails the run.                                  *)
FailsForAReason ==
    phase = "failed" =>
      LET p == Head(candidates)
      IN  \/ p \in touched
          \/ ~Exists(p) /\ \E i \in DOMAIN requested : requested[i] = p
          \/ tree[p].kind = "locked" /\ stated = "file"
          \/ tree[p].kind = "dir" /\ open # <<>>

(* How far the context is from being gathered, the most significant part    *)
(* first: the stages left, the paths left in this one, what is left to do   *)
(* with the first of them, the entries its outline may still list, the      *)
(* levels of the outline that are open.                                     *)
StagesLeft ==
    CASE phase = "start" -> 3 [] phase = "discover" -> 2
      [] phase \in {"gather", "read", "outline"} -> 1 [] phase \in {"done", "failed"} -> 0

PathsLeft == IF phase = "discover" THEN Len(todo) ELSE Len(candidates)

WorkLeft == CASE phase = "gather" -> 2 [] phase = "read" -> 1 [] OTHER -> 0

EntriesLeft == MaxEntries + MaxDepth - 1 - added

ContextDistance == <<StagesLeft, PathsLeft, WorkLeft, EntriesLeft, Len(open)>>

ContextNearer ==
    /\ \A i \in 1..5 : ContextDistance'[i] >= 0
    /\ \E i \in 1..5 : /\ ContextDistance'[i] < ContextDistance[i]
                       /\ \A j \in 1..i - 1 : ContextDistance'[j] = ContextDistance[j]

(* Whatever the search finds and however the tree is changed meanwhile,     *)
(* each step of the gathering brings it nearer its end; a change of the     *)
(* tree does not move the end.                                              *)
GatherMovesOn ==
    [][IF Gather THEN ContextNearer ELSE ContextDistance' = ContextDistance]_contextVars
=============================================================================
