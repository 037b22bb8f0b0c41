----------------------------- MODULE MCAgentRun -----------------------------
(* Small runs for model checking AgentRun: every combination of the stages  *)
(* a run may have, over one strategy with a fallback and one without.       *)
EXTENDS AgentRun

CONSTANTS c1, c2

MCModels == {c1, c2}
MCRequests == {None}

StrategyOf(fallbacks) ==
    [ registered |-> MCModels, expensive |-> {}, regDefault |-> c1, default |-> None,
      overrides  |-> [r \in Roles |-> None], roleModel |-> [r \in Roles |-> None],
      fallbacks  |-> fallbacks, maxExp |-> 0 ]

MCStrategies == {StrategyOf(<<>>), StrategyOf(<<c2>>)}

RunOf(plan, reflect, enforce, tests, retries, maxSteps, tools) ==
    [ plan |-> plan, reflect |-> reflect, enforce |-> enforce, tests |-> tests,
      retries |-> retries, maxSteps |-> maxSteps, tools |-> tools,
      request |-> [r \in Roles |-> None] ]

(* Every combination of the stages, with two steps and one retry; the tools *)
(* of the request only where there is a plan.                               *)
MCRuns ==
    { RunOf(p, r, e, t, 1, 2, n) :
        p \in BOOLEAN, r \in BOOLEAN, e \in BOOLEAN, t \in BOOLEAN, n \in {0, 2} }

AnswerOf(tokens, calls, finish, marker) ==
    [tokens |-> tokens, calls |-> calls, finish |-> finish, marker |-> marker]

MCAnswers ==
    { AnswerOf(0, 0, "stop", FALSE), AnswerOf(1, 0, "none", TRUE),
      AnswerOf(1, 1, "length", FALSE), AnswerOf(2, 1, "stop", FALSE) }
=============================================================================
