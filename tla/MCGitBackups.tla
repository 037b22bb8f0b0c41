---------------------------- MODULE MCGitBackups ----------------------------
(* Two runs that apply and restore two patches, over at most three backups, *)
(* with all flags of the configuration on, or all but one.                  *)
EXTENDS GitBackups, TLC

CONSTANTS a, b, p, q

MCCallers == {a, b}
MCPatches == {p, q}

AllOn == [enabled |-> TRUE, allowWrite |-> TRUE, allowGit |-> TRUE, allowFileWrite |-> TRUE]

MCConfigs == {AllOn} \cup {[AllOn EXCEPT ![flag] = FALSE] : flag \in DOMAIN AllOn}

(* Runs are alike, and so are patches.                                      *)
MCSymmetry == Permutations(MCCallers) \cup Permutations(MCPatches)
=============================================================================
