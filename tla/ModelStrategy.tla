--------------------------- MODULE ModelStrategy ---------------------------
(* How a model is chosen for a role: the strategy engine                    *)
(* (internal/agent/strategy.go) over the model registry                     *)
(* (internal/llm/registry.go).  Pure operators of one strategy record `s`:  *)
(*   registered   models whose route and provider are both registered       *)
(*   expensive    models marked expensive                                   *)
(*   regDefault   the registry's default model                              *)
(*   default      strategy.default_model, or None                           *)
(*   overrides    strategy.overrides, role by role, None where absent       *)
(*   roleModel    planner_model / coder_model / critic_model, or None       *)
(*   fallbacks    strategy.fallbacks, in order                              *)
(*   maxExp       strategy.max_expensive, 0 for no limit                    *)
(* The blank string of the code is None; an error of the registry is None.  *)
EXTENDS Integers, Sequences

CONSTANTS
    Models,     \* every model id a configuration or a request may name
    None        \* the blank model id

ASSUME NoneIsNoModel == None \notin Models

Roles == {"planner", "coder", "critic"}

Names == Models \cup {None}

Strategies ==
    [ registered : SUBSET Models,
      expensive  : SUBSET Models,
      regDefault : Names,
      default    : Names,
      overrides  : [Roles -> Names],
      roleModel  : [Roles -> Names],
      fallbacks  : Seq(Names),
      maxExp     : Nat ]

-----------------------------------------------------------------------------
(* The first element of seq that lies in S; None when there is none.        *)
IsFirstIn(seq, S, i) == seq[i] \in S /\ \A j \in 1..i - 1 : seq[j] \notin S

FirstIn(seq, S) ==
    IF \E i \in DOMAIN seq : IsFirstIn(seq, S, i)
    THEN seq[CHOOSE i \in DOMAIN seq : IsFirstIn(seq, S, i)]
    ELSE None

FirstNonEmpty(names) == FirstIn(names, Models)

(* Registry.Resolve: a blank name stands for the registry's default, an     *)
(* unregistered one is an error.                                            *)
Resolve(s, name) ==
    LET m == IF name = None THEN s.regDefault ELSE name
    IN  IF m \in s.registered THEN m ELSE None

(* The model of the first fallback that the registry resolves.              *)
FirstFallback(s) ==
    FirstIn([i \in DOMAIN s.fallbacks |-> Resolve(s, s.fallbacks[i])], Models)

ResolveModel(s, role, override) ==
    LET named == FirstNonEmpty(<<override, s.overrides[role],
                                 s.roleModel[role], s.default>>)
    IN  IF named # None /\ Resolve(s, named) # None THEN Resolve(s, named)
        ELSE IF FirstFallback(s) # None THEN FirstFallback(s)
        ELSE Resolve(s, None)

(* A use of model m would go over the budget after `used` expensive uses.   *)
OverBudget(s, m, used) ==
    s.maxExp > 0 /\ m \in s.expensive /\ used >= s.maxExp

(* Mutant: the budget is never tested.                                      *)
PickIgnoringBudget(s, role, override, used) == ResolveModel(s, role, override)

(* The budget is tested twice: an over-budget choice is replaced by the     *)
(* first fallback, whatever it costs, and what is still over budget by the  *)
(* default model, whatever it costs.                                        *)
PickWithBudget(s, role, override, used) ==
    LET chosen   == ResolveModel(s, role, override)
        replaced == IF OverBudget(s, chosen, used) /\ FirstFallback(s) # None
                    THEN FirstFallback(s) ELSE chosen
    IN  IF OverBudget(s, replaced, used) /\ s.default # None
                                         /\ Resolve(s, s.default) # None
        THEN Resolve(s, s.default) ELSE replaced

(* Mutant: the walk stops at the head of the list.                          *)
OnlyFirstFallback(s, current) ==
    IF s.fallbacks = <<>> THEN None ELSE FirstIn(<<Head(s.fallbacks)>>, Models \ {current})

(* The first fallback that is neither blank nor the current model.  It is   *)
(* a function of the current model only, not of a position in the list.     *)
NextFallback(s, current) == FirstIn(s.fallbacks, Models \ {current})

(* What Config.Validate guarantees of a strategy the daemon starts with:    *)
(* every model it names is configured, and some model is the default.       *)
Validated(s) ==
    /\ s.regDefault \in s.registered
    /\ s.expensive \subseteq s.registered
    /\ s.default \in s.registered \cup {None}
    /\ \A r \in Roles : {s.overrides[r], s.roleModel[r]} \subseteq s.registered \cup {None}
    /\ \A i \in DOMAIN s.fallbacks : s.fallbacks[i] \in s.registered
=============================================================================
