# Formal models of animus-coder

`mycodexd` is a daemon that runs a coding agent: a client opens a streaming
`RunTask` call, the daemon plans, asks a model, runs tools and tests, lets a
critic look at the answer, and streams what happens. This directory holds TLA+
models of the parts of the daemon that carry its logic, TLC configurations that
check them on small instances, and proofs, checked by TLAPS, that hold for every
value of the constants. Source paths below are relative to the repository root.

## 1. The system

| part | code | state it keeps | operations | modelled in |
|---|---|---|---|---|
| model strategy and registry | `internal/agent/strategy.go`, `internal/llm/registry.go`, `internal/llm/configbuilder/configbuilder.go` | routes and providers, fixed after start | `Resolve`, `ResolveModel`, `PickWithBudget`, `NextFallback` | `ModelStrategy` |
| role calls of a run | `selectModel`, `pickFallbackModel` and their callers in `internal/rpc/agent/runner.go` | `expensiveUsed`, the model in use, two metrics | select, call, search a fallback, retry | `RoleCall` |
| agent runner | `AgentRunner.Run` in `internal/rpc/agent/runner.go` | step, done, forced finish, tool observations, a channel of 16 events | context, request tools, plan, step, tools, tests, reflection | `AgentRun`, `RunStream` |
| transport handlers | `internal/rpc/agent/connect_handler.go`, `handler.go`, `internal/observability/metrics.go` | active-session gauge, error counters, the request's context | accept, forward, listen for cancel | `RunTask` |
| client | `internal/cli/run.go` | its end of the connection, what its command will return | run, read on, cancel, close, vanish, return | `RunTask` |
| daemon | `cmd/mycodexd/main.go`, `internal/daemon/server.go` | the process, with every goroutine in it | signal, shutdown with five seconds, failure | `RunTask` |
| sessions | `internal/agent/agent.go` | history, plan, last reflection, behind one lock | `Plan`, `Run`, `Reflect`, append, look back | `AgentSessions` |
| git tool and backups | `internal/tools/git.go`, `patch_stack.go`, the git part of `validator.go`, the flags of `internal/config/config.go` | patch copies, `stack.json`, the stack in memory | which calls get through; apply, restore, list and preview | `GitBackups`, `PatchLog` |
| context files | `buildContextFiles`, `appendWithBudget`, `discoverContextPaths` in `runner.go`, `DescribeStructure` in `internal/tools/filesystem.go` | total of bytes, files collected, levels of an outline | discover, stat, read, cut, outline | `ContextBudget`, `Outline` |
| other tools, validation | `internal/tools/*.go` | none | path, command and schema checks | one action of `AgentRun` that succeeds or fails |
| providers, prompts, codec, logging, doctor | `internal/llm/providers`, ... | none of interest | HTTP, formatting | not modelled |

How they interact. Each `RunTask` call has a handler goroutine; the Connect
handler adds a listener goroutine. The handler starts the runner's goroutine and
ranges over its event channel. All three share the context of the request: the
runner reads it, the handler's return cancels it, the listener cancels it. The
runner owns the state of its role calls, but the sessions and the git tool are
one object for the whole daemon and are used by all runs at once: the sessions
under a lock taken per access, the git tool without a lock. The tools write the
tree that the context of another run is read from. The process may be told to stop
at any moment: a shutdown waits for the connections it knows of, and not for the
goroutines of the runs, which end with the process wherever they are.

What is hard in it: three goroutines and a client that race on one context; a
bounded channel whose reader may leave; a retry that shares a budget with
everything before it; check-then-act over a lock that is released for a model
call; a stack on disk and in memory, written in place, without a lock, by a
process that may die; a tree that changes between a stat and a read; a stream that
ends the same way for the client whether the run, its handler or the daemon ended
it. The list of
hazards, line by line, is in `PROJECT.json`, each with the property that
watches it.

## 2. The modules

`AgentRun` extends `RoleCall`, which extends `ModelStrategy`; `RunTask` extends
`AgentRun`; `ContextBudget` extends `Outline`. `RunStream` is instantiated by
`AgentRun` as the abstract specification of its stream, and by `RunTask` as that of
what the client is given; `PatchLog` by `GitBackups` as the abstract specification of
the backups. `AgentSessions`,
`GitBackups` and `ContextBudget` share no variable with the runner. Each `MC...`
module gives one of them small constants. Operators headed "Mutant:" are plausible
bugs, in the form of the definition that follows them; no specification uses one.
Each property is shown to have teeth by a mutant that breaks it.

**ModelStrategy.** Pure operators of one strategy record. A model is a model
value; the blank id and a registry error are `None`. `Validated` is what `Config.Validate` guarantees at start.

**RoleCall.** `Select` is `selectModel` (a failed selection is recorded and
leaves the requested name in place); `CallSucceeds`, `CallFails`, `RetryFails`
are the returns of a call; `ConsiderFallback`, `SkipTried`, `NoFallback` are the
turns of `pickFallbackModel`. `failed`, `called` and `begun` are history
variables. A planner call with a cached plan returns before a model is resolved,
as `Agent.Plan` does.

**AgentRun.** `pc` says where `AgentRunner.Run` is; the name of a role stands for
the role call in progress. An event is put into `pend` by the action that
reports and into `sent` by `Send`, which needs room in the channel: nothing else
of the goroutine moves until `pend` is empty, which is what a blocking send
does. Only the send of a token also watches the context (`CancelTokens`).
`Outcome` names the events that end a stream. A tool that fails ends the run with
its tool event: the code returns without an error or done event there. The consumer is
an environment of two actions: `Receive` takes an event, `ReceiveLast` takes one it cannot
pass on, so that it returns (`deserted`) and its return cancels the context. Nothing is
taken from the channel after that, as in the code: a runner with more to report than
the channel has room for is then `Stranded`, blocked in its send for good. Contents
are abstracted: an answer is its number of words, its number of tool calls, its
finish reason and whether the end marker occurs in it; a critique is blank, plain
or blocking.

**RunStream.** The order a reader may rely on: one preamble (tools, then the
plan), one section per step (answer, words, tools, tests, critique), one outcome,
the end. `ImplementsStream` says that the runner refines it, with the stream
mapped to `sent`. `ClientReadsStream` says the same of what the client is given, with
the stream mapped to `received` and its end to the success of the command: a stream may be
cut anywhere, but the command takes it for complete only where the protocol ends it.

**RunTask.** Both transports, the client's command and the daemon's process. `wire`
holds what the client has sent and the listener has not read. Writes to a client
that is gone may succeed for a while, since the connection buffers them. A handler
that has returned leaves its runner behind (`RunnerMoves` goes on). `exit` says how
the client's command returned: it reads on until an error event or the end of the
stream (a done event does not stop it); the NDJSON client also returns when a line is
longer than its scanner takes (`ReportTooLong`). `daemon` is the process:
once it is `Down`, every goroutine in it has ended, and a client that was being
served sees its connection break. `ShutdownReturns` waits for the connections the
server knows of. The h2c handler takes HTTP/2 connections over, so those of Connect
calls are not among them: a shutdown may report success with Connect runs in
progress, which end with the process. After five seconds `ShutdownTimesOut`.
Method and flusher checks answer before anything starts and are left out.
`ImplementsRun` says that all of this is, to the runner, a consumer and a
cancellation: a task is a behaviour of `AgentRun`.

**AgentSessions.** Several runs on one session id. Each lock section is one
action; the model call is the gap between two. `Agent.Run` reads the history twice
without the lock: when it looks back for the answer that the self-diff compares with
(`LookBack`), and when it copies the history, whose slice header is read in two
moments (`ReadHeader`, `CopyHistory`), so that its length may be old, new or (with
another array) torn.

**GitBackups.** The calls of concurrent runs on the one `GitTool`. Which calls get
through is decided in three layers, all from the flags of the configuration: the
validation of the arguments (`Valid`), the default of a `dry_run` that is absent
(`IsDry`) and the tool's own tests (`MayRun`). The test of `g.stack`, the read of the
file and the assignment are separate moments. So are the read of the parent, the id
taken from the clock and the write of the copy under it, so that two applies may write
their copies in the other order than they took their ids, or under a parent that is no
longer the latest; the read and write of the entries; and the marshalling of the stack, the truncation
and the write of `stack.json`, so that an older stack may be written over a newer one.
The clock is taken to be strictly increasing: two readings of `time.Now().UnixNano()`
differ and the later is the larger. Every write may fail; `Crash` may fall anywhere, loses the memory, and the daemon may come back under
another configuration. What git does with a patch is its environment: it applies a
patch that is not applied, or refuses.

**PatchLog.** What is left of `GitBackups` when calls, files and crashes are taken
away: a log of copies written ahead of the tree. A copy is made under an id that has
none, in no order of the ids, and never changes; a patch is applied or reverted only when it has a copy, one at a time; the
backups that can be listed, from the file or from memory, are in the log.
`ImplementsLog` says that `GitBackups` refines it. In particular every applied patch has
its copy (`BackedUpFirst`) and every entry names one (`EntriesHaveCopies`).

**ContextBudget** and **Outline.** Candidates, discovery, stat, read and both caps,
while `ChangeTree` replaces files at any moment; `touched` remembers which paths it
replaced, so that a failure can be held against the very path it fell on. A directory among the candidates is
given as an outline, entry by entry: the recursion of `DescribeStructure` is the
stack `open` of levels with the entries left in each. Its cap on entries ends the
level that meets it, not the walk: the levels above go on, and each adds a mark of
its own. A directory below it that cannot be read fails the whole outline. The scores
of the search and the matching of paths are abstracted to the list of paths they
return; a line of an outline has one length, `LineLen`.

## 3. What is checked

| run | instance | shows |
|---|---|---|
| `role_calls` | 120 strategies over two cheap and two expensive models, 3 role calls | `BudgetKept`, `UsedMatchesUsage`, `RetryIsAnotherModel`, `FailuresCountedOnce`, `SearchDecidesAtOnce` |
| `agent_run` | all combinations of planning, reflection, policy, tests and request tools; 2 steps, 1 retry, 4 answers, channel of 2 | `BlockedRunHalts`, `CriticSeesTheTools`, `TestedBeforeDone`, `CancelStopsWork`, `RunMovesOn`, `RunEnds`, refinement of `RunStream` and of `RoleCall` |
| `run_task` | both transports, channel of 2, two unread client messages, a daemon that may stop or fail | `DeliveredInOrder`, `StrandedOnlyByLoss`, `ExitIsHonest`, `ShutdownSparesNdjson`, `ClientReturns`, `GaugeDrains`, `RunnerEndsOrStranded`, `ClientReadsStream` |
| `agent_sessions` | two runs of two steps, first array of 4 messages | `TurnsStayWhole`, `OwnOrderIsKept`, `OwnPastIsSeen`, `OnePlanUnlessRaced` |
| `git_backups` | two callers, two patches, three backups, any number of crashes, all flags on or all but one | `TrackedUnlessRaced`, `LineageIsChain`, `TornStackStopsAll`, `ReadOnlyTouchesNothing`, `ImplementsLog` |
| `context_budget` | three paths, files below, at and above the caps, no cap and two caps, outlines of two levels of two entries | `ContextCapped`, `FailsForAReason`, `OutlineBounded`, `GatherMovesOn` |

Six runs look for a violation and find one. In each, the property is what a
document or a test of the repository says, and the run shows the code doing
otherwise:

| run | what is said | what happens |
|---|---|---|
| `role_calls_budget` | fallbacks are walked in order when the budget is spent (`docs/strategy.md:9,16`) | only the first fallback is looked at, so a cheap one behind it does not help |
| `role_calls_search` | the list is walked (`docs/strategy.md:9`) | the walk is a function of the current model and can alternate between two tried models for ever |
| `agent_run_tests` | test output drives the next step (`docs/agent.md:43`) | tests run only when the answer already ends the run |
| `run_task_cancel` | the client cancels with a cancel message (`docs/rpc.md:12`) | closing the sending side cancels too |
| `git_backups_race` | applied patches are tracked (`docs/tools.md:16`) | two concurrent applies lose an entry |
| `agent_sessions_diff` | the self-diff is between the previous assistant response and the current one (`docs/agent.md:39`) | critiques are stored with the assistant's role, so from the second step on the answer is compared with the critique of the one before |

Bounds. Strategies: the operators look at the fallbacks one at a time and at the
budget at most twice, so two models of each kind and lists of up to two show
every path; three role calls are one of each role. `AgentRun`: two steps show
what one step leaves for the next and what the last does; a channel of two, with
answers of two words, is full in the middle of an answer; one retry shows a
failure that is and one that is not the last. `RunTask`: one step, since the
steps are `AgentRun`'s. `AgentSessions`: a first array of four messages is
outgrown in the second turn of either run, so a torn header occurs. `GitBackups`:
three backups with two callers show a lost entry, a lineage of three and a
restart between them; `raced` marks the histories where calls overlapped and is
never reset, since one lost entry may show later; each flag is off in one
configuration, and a crash leads from any configuration to any other. The run takes
states that differ only in the names of callers or patches as one (`MCSymmetry`): no
definition tells two callers or two patches apart, and none of the run's properties is a
liveness property, for which symmetry would be unsound.
`ContextBudget`: a cap below, between and above what one and two files need; an
outline of two levels with a cap of two entries and listings of two reaches both of
its caps, and exceeds the cap on entries, which a single level cannot.

Two runs that start on a session at once both plan, and the later plan replaces the
earlier; `OnePlanUnlessRaced` says that nothing else plans twice. Other places where
code and documents differ, without a run of their own: `docs/tools.md:28` says that
git apply defaults to a dry run when writes are off, but the validation refuses a
call whose `dry_run` is absent before the default is looked at; the attempts that a
test event reports are one too many when every retry has failed; `docs/agent.md:42` and
`docs/context_handling.md:14` cap the bytes of the context at `agent.max_context_bytes`,
but the mark, `[truncated]` on a line of its own, 12 bytes, are added after the cut and
counted in the total, so the total may pass the cap by them, once (`ContextCapped`
allows exactly that).

Deadlock is checked in every run: a run that is over stutters in an action of its
own (`RunOver`, `RunClosed`, `TaskOver`, `AllStopped`, `ContextOver`).

Fairness. `RunnerStep` is weakly fair: it is one goroutine that
the Go scheduler runs, whose calls return: the providers' HTTP clients and the
terminal tool have timeouts, git and the file system are assumed to answer. `Receive` and `HandlerStep` are fair because the
handler's loop does nothing but receive and write, and only while it is in that loop:
after `ReceiveLast` nobody receives, and `Receive` is disabled. So `RunEnds` says that a
run ends or is stranded, and `RunnerEndsOrStranded` that it is stranded only by the loss
of its client. `ListenerStep` is fair: it is
a goroutine blocked on a receive that has something to return. `NoticeLoss` is
fair: the HTTP server cancels the context of a lost connection. `CommandStep` is
fair: the client's command does nothing but read the stream and return. No fairness is
given to the user, to cancellation, to signals and failures of the daemon or to
changes of the tree: nothing that must happen relies on them. `SearchStep` is
fair in `RoleCall`, so that a search that goes on for ever does so by itself.

## 4. What is proved

Eight proof modules, from the assumptions named in the models (`NoneIsNoModel`,
`ChoicesValidated`, `RegistriesAreFinite`, `RequestsAreNames`, `RunsWellFormed`, `RoleCallsSuffice`,
`TransportsKnown`, `SessionWellFormed`, `BackupsBounded`, `EntriesAreNoMarks`,
`OutlineCaps`, `ContextWellFormed`), for every value of the constants: any set of
models, any strategy that `Config.Validate` lets through, any configuration, number
of steps, answer length, channel capacity, number of runs on a session, callers of
the git tool, tree and cap. Every safety property and every refinement that a passing
run checks is a theorem.

*RoleCall_proofs.* `RoleTypeCorrect` (types). `BudgetIsKept`: `BudgetKept` is
inductive over the types, since the only step that spends is `Use` of a pick, and
`PickAtTheLimit` shows that at the limit a strategy with a cheap way out picks a
cheap model. `RetryIsNew` and `FailuresAreCounted` need `CallHistory`: what
`called` holds in each phase, and that the search begins with the failed model.
`UsageIsCounted`: the counter is updated by one, the metric by model, and the property
sums the metric over the registry. What a fold over a finite set does when one more
element is counted, or one summand grows by one, cannot be had from an induction theorem
with an operator parameter; it is shown by minimal counterexample, with the
well-foundedness of the numbers, over the sizes of the sets. It needs registries to be
finite (`RegistriesAreFinite`): they are filled from a file. `SearchesDecide`:
`SearchDecidesAtOnce` follows from what the pick is while the budget is not spent, and
from the search beginning with the failed model.

*AgentRun_proofs.* `RunsMakeRoleCalls`: every behaviour of `AgentRun` is one of
`RoleCall`. Almost every action either leaves the role call alone (`LocalStep`) or
is an action of it (`CallStep`); those that begin a call must be shown to stay
within the bound of `RoleCall`, and that is what the invariant `CallsBounded` is
for (calls begun against steps taken, by place). `RunKeepsBudget`, `RunCountsUsage` and
`RunSearchesDecide` carry those theorems over to whole runs.

*AgentStream_proofs.* `RunTypeCorrect` (types, put together from the types of the
role calls, which the refinement gives, and `RunnerTypes`). `CancelledRunsStop`.
`StreamsHaveOneOutcome`: `OneOutcome` is not inductive, for it does not say that a
run that goes on has nothing final to send. `OutcomeInv` does: while the run goes
on neither `sent` nor `pend` holds an outcome; when it is over, the last event of
`pend` is the first outcome or, with `pend` empty, the last event sent was it.
Every reporting action is shown once to be a `ReportStep` (quiet, or final with
the move to the end), so the invariant is argued once and not for every action.

Whether a run comes to its end is liveness, but what it rests on is proved.
`Distance` is how far the run is from its end: the steps left, the places left in this
step, the work left at this place (tools, attempts, calls), the events left to send.
`RunsMoveOn`: every step of the runner, whatever calls and tools return, makes the first of
these that changes smaller, and none is ever below zero (`WorkWithin`: the counters stay
within what they count to). The one exception is a turn of a search under a spent budget,
and `SearchesDecide` says that no other search takes a second turn. `DistancesEnd`: the
order is well-founded. `RunsDescend` puts this together: a step goes down in that
order, or is such a turn, or is not the runner's and leaves the distance unchanged. So a
run can go on for ever only by never being scheduled, by blocking on a full channel (as
one whose consumer has returned does) or a call that hangs, or by the search that `role_calls_search` shows.

*AgentOrder_proofs.* What the events of a run say about each other, argued over the
`Story` of a run, that is `sent` followed by `pend`: a send does not change it, a
report appends to it, and only a cancelled answer cuts it (`CancelledStory`).
`StreamsAreOrdered` is the refinement of `RunStream`: `OrderInv` says that every event
of the story may follow those before it (`Orderly`) and what the place of the
goroutine says of the last event and of the number of answers (`PlaceInv`), which is
counted with a cardinality so that no induction over the sequence is needed.
`BlocksHalt` adds `BlockInv`: nothing is said of blocking before the critic blocks,
and then the critique is the last event and the run at the end of its step.
`AnswersAreTested` adds `TestInv`: from the tests on, a final answer that is not
blocked has a test event behind it and no message after that.
`CriticsSeeTheirTools` adds `ToolInv`: what is put aside for the critic is the number
of tools in the story since the last message, or since the start in step 1.

*RunTask_proofs.* `TaskInv` joins the invariants of the runner with those of the
connection (`StreamInv`: what was received is a prefix of what was sent, and a client
that is there has all that was taken), and of the command (`CommandInv`: each way to
return keeps its cause). The steps of the runner keep them because they touch neither
(`RunnerMoves`). `TaskTypeCorrect` holds the gauge at 1 exactly while the handler reads or
serves the call. `DeliveryHolds`, `StrandingHolds`, `ExitsAreHonest` and
`ShutdownIsGraceful` follow from `TaskInv` alone. `TasksAreRuns` is the refinement of
`AgentRun`: a handler that forwards is `Receive`, one whose write fails is `ReceiveLast`, what
ends the context is `CancelRequest`, all else stutters. `TasksMakeOrderedRuns` carries the
theorems about runs over to tasks, without a second proof of any.
`ClientsReadStreams` rests on both: what is received is a prefix of the story of an
ordered run, so each event may follow those before it; and the command succeeds only for
a stream received whole from a run that is closed.
`TasksMoveOn` and `TasksDescend` extend the distance of a run by what the others have left
(handler, listener, context, client, command, daemon) and by the events on their way:
every step of a task goes down. No interleaving goes round in a circle; what can keep a
task from its rest is a search under a spent budget, a process that is not scheduled, or
one that waits. A client may repeat its cancel message, which changes no distance.

*AgentSessions_proofs.* `TurnsAreWhole`, `OwnOrderHolds`, `OwnPastHolds`,
`OnePlanHolds`. A step appends a turn or a critique of its run or nothing, which is
shown once; `PastTurns` and `Ordered` then compare positions, `OwnPast` says that a
header or a copy reaches over everything its run has appended, and `PlanInv` that
without a race one run plans at most and that it plans for a session without a plan.

*GitBackups_proofs.* `BackupsAreALog` is the refinement of `PatchLog`. It needs
`CopyInv`, that no copy has an id the clock has not shown, that the id of a call which
is about to write its copy has no copy and is no other such call's (`ComesToCopy`), and
that a call which is about to apply or revert holds the id of a copy of its patch, over
every crash and every failed write in between. `BackupsComeFirst` and `EntriesKeepCopies` from `CopyInv`: every
list of entries, on disk, in memory or held by a call, names copies that exist, and a
call past its backup has the copy of its patch. `ReadOnlyIsReadOnly` from `PermInv`:
a call in progress has passed the tests of the present configuration.
`TornStackIsFinal` from `LoadInv`. `LineageHolds` and `TrackingHolds` for callers that
come one at a time (`Solo`): `ChainInv` and `TrackInv` follow the entries from memory
to disk, over crashes and failed saves.

*ContextBudget_proofs.* `ContextTypeCorrect`, `ContextIsCapped`, `CutsAreAtCaps`
(stated for no run: it is the reason for the second). `ContextTypeOK` says beside the
types that the limit of a file that is looked at is positive; it needs that a file
is read only while the total is below the cap: else the limit of a file could be
zero or negative, and such a limit cuts nothing. `CutInv` adds that a file cut below the cap for one file has filled the total
and ended the gathering. `OutlineIsBounded` needs `OutlineInv`: once the cap on
entries is met, the entries and the open levels trade one for one.
`FailuresHaveReasons` needs `FailInv`: every path still to be read that nobody changed
is as it was found, and the one at the head is as it was stated. `GatheringMovesOn` and `GatheringDescends` do for
the gathering what `RunsDescend` does for runs: stages, paths, work on a path, entries
an outline may still list (never below zero, by `OutlineInv`), open levels. Changes of the
tree leave the distance as it is, so they cannot put the end off, and the cap on
entries ends an outline of any tree.

Only model-checked. Liveness under fairness (`RunEnds`, `ClientReturns`, `GaugeDrains`,
`RunnerEndsOrStranded`): the provers do not reason about what is
enabled, so that no process waits for ever where it should not is left to TLC. That nobody
can be busy for ever is proved (`RunsDescend`, `TasksDescend`, `GatheringDescends`).
`TaskMovesOn`, `ImplementsRun` and `CutOnlyAtCaps` are theorems that no
run lists; TLC finds them true on the instances of `context_budget` and `run_task`.

## 5. What is not modelled

The providers are stateless HTTP clients: one request, one answer, no retry and no
stream; what a call can come to is in `RoleCall`. Prompts, schemas, the codec, logging,
the version and the doctor command are formatting and I/O. The health and metrics
endpoints keep no state. Of texts (answers, tools, tests, critiques) only what decides
something is kept; the parsing of test output only decorates an event. The rules by
which paths, commands and arguments of the tools other than git are accepted are
checks of strings without state: a success or a failure of a tool here. Loading and
defaulting of the configuration are I/O; what its validation guarantees is
`Validated`. Scoring of the semantic search is text processing. Metrics other than
those named above.

## 6. Plan

Written, in this order: the strategy and the role calls (everything spends
through them), the runner and its stream, the call with its client and the daemon's
process, then the three pieces of shared state (git backups, sessions, context), each
with its proofs.

Left, in the models:

1. runs composed with sessions and the git tool: two runs with their tools, so
   that the plan and the backups of `AgentRun` are those of the shared objects;
2. the confined path and the command lists of the other tools as operators over
   path components and words, against a reference definition;
3. the order in which models are registered, and which default wins;
4. the cost of a planning call that `Agent.Run` makes on its way, which neither the
   budget nor the metrics count.

Left, in the proofs: that a run composed with the shared objects implements
`AgentRun`, `AgentSessions` and `GitBackups` each, so that their theorems carry over.
