-------------------------- MODULE MCContextBudget --------------------------
(* Three paths whose files are smaller than, equal to and larger than the   *)
(* caps, over a mark of two bytes, and outlines of up to two levels of up   *)
(* to two entries, which reach both of their caps.                          *)
EXTENDS ContextBudget

CONSTANTS readme, main, dir

MCPaths == {readme, main, dir}

Node(kind, size) == [kind |-> kind, size |-> size]

MCNodes == {Node("absent", 0), Node("file", 2), Node("file", 5), Node("locked", 2), Node("dir", 0)}

MCRequested == {<<>>, <<main, main>>, <<dir, main, readme>>}

MCHits == {<<main, readme>>}

MCMentioned == {<<>>, <<main>>}

MCDefaults == <<dir, readme>>
=============================================================================
