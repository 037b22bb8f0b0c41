------------------------------ MODULE PatchLog ------------------------------
(* What the backups of patches promise, said without calls, crashes and     *)
(* files: a log of copies that is written ahead of the working tree.  A     *)
(* copy is made under an id that has none, in whatever order, and is never  *)
(* changed or removed; a patch is applied or reverted only when it has a    *)
(* copy, one at a time; and whatever is listed, to preview or restore, is   *)
(* in the log.                                                              *)
CONSTANTS
    Ids,        \* the ids of copies
    Patches,
    None        \* no copy

VARIABLES
    copies,     \* the patch copied under each id, or None
    applied,    \* the patches applied to the working tree
    listed      \* the ids that the backups listed name

logVars == <<copies, applied, listed>>

Written == {i \in Ids : copies[i] # None}

Init ==
    /\ copies = [i \in Ids |-> None]
    /\ applied = {}
    /\ listed = {}

Copy ==
    \E i \in Ids, patch \in Patches :
      /\ copies[i] = None
      /\ copies' = [copies EXCEPT ![i] = patch]
      /\ UNCHANGED <<applied, listed>>

Apply ==
    \E i \in Written :
      /\ copies[i] \notin applied
      /\ applied' = applied \cup {copies[i]}
      /\ UNCHANGED <<copies, listed>>

Revert ==
    \E i \in Written :
      /\ copies[i] \in applied
      /\ applied' = applied \ {copies[i]}
      /\ UNCHANGED <<copies, listed>>

(* The list grows, shrinks or is lost.                                      *)
List ==
    /\ listed' \subseteq Written
    /\ UNCHANGED <<copies, applied>>

Next == Copy \/ Apply \/ Revert \/ List

Spec == Init /\ [][Next]_logVars
=============================================================================
