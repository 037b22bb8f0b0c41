----------------------------- MODULE MCRunTask -----------------------------
(* Small tasks for model checking RunTask: short runs, both transports.     *)
EXTENDS RunTask

CONSTANTS c1

MCModels == {c1}
MCRequests == {None}

MCStrategies ==
    { [ registered |-> {c1}, expensive |-> {}, regDefault |-> c1, default |-> None,
        overrides  |-> [r \in Roles |-> None], roleModel |-> [r \in Roles |-> None],
        fallbacks  |-> <<>>, maxExp |-> 0 ] }

RunOf(plan, reflect, tools) ==
    [ plan |-> plan, reflect |-> reflect, enforce |-> TRUE, tests |-> FALSE,
      retries |-> 0, maxSteps |-> 1, tools |-> tools,
      request |-> [r \in Roles |-> None] ]

MCRuns == {RunOf(TRUE, FALSE, 0), RunOf(FALSE, TRUE, 1)}

MCAnswers ==
    { [tokens |-> 2, calls |-> 1, finish |-> "stop", marker |-> FALSE],
      [tokens |-> 1, calls |-> 0, finish |-> "length", marker |-> FALSE] }
=============================================================================
