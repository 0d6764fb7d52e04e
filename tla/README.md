# Verification of parsimony-agents

TLA+ models of the agent framework in `src/parsimony_agents`, the TLC
configurations that check them on small instances, and theorems checked by
TLAPS. This document lists the parts of the system, says which module models
which part, what the checks and the proofs show, and what is left.

    tlc -workers 2 -config failures.cfg MCDefaultRun.tla     # one run
    tlapm DefaultRunProofs.tla                               # the proofs about one module

## 1. The system

parsimony-agents runs an LLM agent that writes and executes analysis code and
publishes *artifacts* (datasets, charts, notebooks, reports). A host drives a
*run* as an asynchronous generator of events; a run is a sequence of *turns*,
each of which ends with a closing event and may be resumed after a question to
the user. Everything is asyncio: one task per run, tools as coroutines, user code
in threads or in a subprocess.

| Component | Files (`src/parsimony_agents/`) | State | Operations | Correct when | Modules |
|---|---|---|---|---|---|
| failure vocabulary and policy | `agent/failure/kinds.py`, `policy.py` | none | `decide`, `backoff` | a budget per kind is never exceeded | `FailurePolicy` |
| recovery funnel | `agent/failure/recovery.py` | attempts, lessons, pending instruction (in the run state) | `handle_failure` | every failure is counted, learnt and answered by exactly one action | `RunLoop`, `Prompt` |
| detectors | `agent/failure/detectors.py` | repeat counters, last event time | `pre_step`, `post_llm`, `post_tool`, `record_tool_call` | limits fire once, loops are caught at the threshold | `RunLoop` |
| run loop | `agent/loop.py` | phase of the generator | `run_loop`, `_execute_tool_calls`, `resume_run` | every turn ends, says why, and asks the model nothing afterwards | `RunLoop`, `DefaultRun`, `WorkspaceRun` |
| run state, suspension | `agent/state.py`, `agent/failure/suspension.py` | counters, transcript, record | `from_suspension` | a resumption renews one budget and forgets nothing | `RunLoop`, `Prompt` |
| LLM chokepoint | `agent/llm.py`, `agent/cancellation.py` | stream | `call_llm` | ends, or raises a classified failure, or notices cancellation | `RunLoop` |
| termination tools | `agent/termination_tools.py`, `agent/failure/termination.py`, `tools.py` | none | `return_done`, `return_unable`, `ask_user` | the loop sees the request exactly once | `DefaultRun`, `WorkspaceRun` |
| host interface | `agent/events.py` | - | the event stream | see section 5 | `BudgetedRun` |
| prompt renderer, snapshots | `agent/renderer.py`, `agent/models.py` | the messages | `render_for_llm`, `to_snapshot` | the model has read what is compacted | `Prompt` |
| seen references, local store | `agent/seen_refs.py`, `session_state.py`, `local_store.py` | none: read off the messages | `extract_seen_live_names`, `fuse_workspace_artifacts` | a terminal is shown, and may change, what it has touched | `Prompt`, `Publication` |
| workspace hooks | `agent/workspace_hooks.py` | turn state: minted references, drift, errors | `dispatch_tools`, `on_iteration_start`, ... | every dispatched call is answered once; what the host hears of and what the model may refer to is on disk, and the same | `WorkspaceRun`, `Publication` |
| agent facade and tools | `agent/agent.py` | session | `run`, `resume`, the tool bodies | what is published is what ran, with the lineage it had | `Publication`, `Refresh`, `Prompt` |
| in-process executor | `execution/executor.py`, `run_scope.py`, `fetch_log.py`, `load.py` | namespace, origins, two locks, the process's directory | `execute`, `clear_namespace`, `set_cwd` | cells are serialised; an origin cites all that its run fetched | `CodeExecutor` |
| sandboxed executor, RPC | `execution/sandbox/*` | kernel process, connection, pending calls | `_ensure_started`, `_call`, `_restore_kernel_state`, `_teardown` | a call ends once and says whether it ran | `SandboxedExecutor` |
| artifact store | `execution/artifact_store.py`, `identity.py`, `storage.py` | snapshots, curation, log | `persist_artifact`, `persist_notebook` | what a reader resolves was written completely | `ArtifactStore` |
| refresh, lineage | `refresh.py`, `lineage_diff.py`, `closure.py` | the stack of the walk | `refresh_artifact` | a walk that nothing disturbs, over notebooks that load what their artifacts cite, mixes no two versions, cites what it used and changes nothing when it is repeated | `Refresh` |
| connector cache | `execution/connector_cache.py` | cached fetches | `__call__`, `clear` | a hit is recorded like a miss | `CodeExecutor`, `Refresh` |
| output conversion, artifact formats | `execution/outputs.py`, `data_objects.py`, `notebook_io.py`, `report_format.py`, ... | none | conversions | - | in part |
| cache markers, display, theme, tracing | `agent/caching.py`, `display.py`, `theme.py`, `agent/tracing.py`, `views.py` | - | - | - | none |

Interactions. `agent.run` builds a `RunState` and drives `run_loop`. The loop
calls `pre_step`, renders the messages, iterates `call_llm`, judges the response
with `post_llm`, and dispatches its tool calls, by default one after the other
(`_execute_tool_calls`) or through the `dispatch_tools` hook of the workspace,
which runs a batch of read-only tools concurrently and writes deliverables down when
the batch is over. All failures of the loop and the default dispatch
go to `handle_failure`; the workspace's dispatch answers a failing tool with an error
message and does not ask the funnel. Control tools raise `SuspensionRequest` or
`TerminationRequest` through the tool wrapper, which must let them pass. The host
shares one flag with the run, `cancellation.is_set()`, and may cancel its task;
a `SuspensionRecord` it keeps comes back through `resume_run`. Publishing tools run code in
an executor, in the process or in a kernel behind an RPC connection, ask its
origin ledger where a variable came from, and hand an artifact to the store. A
refresh walks the references that the store's snapshots hold and runs their
notebooks in the same executor. What the agent may change is decided from its own
messages, in which each iteration replaces one snapshot of the workspace.

Hard behaviours, each listed with its line under `hazards` in `PROJECT.json`:
failures of different kinds interleaved in batches and over suspensions; budgets
that a resumption must renew or keep; a batch that goes on after one of its calls
ended the run; the cancellation flag and the cancellation of the task at every
await; detectors that read counters and clocks which the loop has not refreshed;
several ways to go round the loop without progress; batches whose calls see a tree that their
neighbours change before they are written; threads that outlive their timeout;
kernels that die under several calls; writers, crashes and readers between three
files; a recursive walk while the world moves.

## 2. Modules

| Module | What it is |
|---|---|
| `FailurePolicy` | kinds, actions, budgets, `Decide` and the lessons list: constant operators |
| `RunLoop` | state and actions of a run, without the dispatch of tools |
| `DefaultRun` | `RunLoop` and `_execute_tool_calls`: the specification and its properties |
| `WorkspaceRun` | `RunLoop` and `WorkspaceRunHooks.dispatch_tools`: the specification and its properties |
| `BudgetedRun` | the abstract specification both implement: what a host may rely on |
| `Prompt` | the messages of a conversation over turns and suspensions, and what is rendered of them |
| `Publication` | batches that publish, executed call by call and written down afterwards |
| `CodeExecutor` | several in-process executors with their locks, threads, ledger and cache |
| `SandboxedExecutor` | the supervisor of a kernel process, the RPC endpoints and the kernel |
| `ArtifactStore` | persisting, file by file, and a load by name beside it |
| `Refresh` | the recursive refresh, the closure and the diff of lineages |
| `MC*` | instances for TLC |
| `*Proofs` | theorems about `DefaultRun`, `WorkspaceRun`, `Prompt`, `Publication`, `CodeExecutor`, `SandboxedExecutor`, `ArtifactStore` and `Refresh`, one module for each |

`RunLoop` declares actions and no specification, because the dispatch of tools is
exchangeable: `DefaultRun` and `WorkspaceRun` complete it, each with its own
dispatch, and share the mapping onto `BudgetedRun`. The other modules meet at an
interface and are not composed into one state space: the deliverables of
`WorkspaceRun` become `Publication`'s calls, whose writing is one step there and
seven in `ArtifactStore`; `Publication` and `Refresh` run cells in one step that
`CodeExecutor` and `SandboxedExecutor` take apart; `Prompt` shares the lessons list
of `FailurePolicy` with `RunLoop` and lets a failure end in any way the funnel knows.

### The run: state

| Variable | Code |
|---|---|
| `phase` | where the generator stands: `top` (of the `while`), `streaming` (in `call_llm`), `answered` (response in hand), `tools` / `running` (in the batch, between and inside calls), `backoff` / `toolBackoff` (asleep in `handle_failure`), `ended`, `raised` |
| `iteration`, `attempts`, `lessons`, `repeats`, `done` | the fields `iteration`, `failure_attempts`, `lessons_learned`, `last_repeat_counts`, `done` of `RunState` |
| `elapsed`, `silence` | `elapsed_seconds()` and the age of `last_event_time_s`, in ticks, saturating where no comparison tells values apart any more |
| `pending` | `pending_instruction`, as the kind that caused it |
| `dangling` | whether `messages` holds a tool call without its tool message |
| `cancelSet` | the host's flag |
| `finish`, `queue` | the response in hand: finish reason, calls not yet answered |
| `record` | the last `SuspensionRecord` the host received |
| `emitted` | closing events of the turn, in order |
| `resumes` | bound on resumptions |
| `llmCalls`, `recoveries` | auxiliary: requests paid from the present budget, failures answered by going on |

`WorkspaceRun` adds the state of one dispatch and of the turn:

| Variable | Code |
|---|---|
| `phase` | further points: `dispatching` (stage 1 done), `running` (sequential batch), `gathering` (concurrent batch), `flushing` (stage 3, between two results), `persisting` (in `persist_artifact` or `persist_notebook`), `written` (the write is done, the host has not heard of it), `announced` (at the `yield` of its event) |
| `batch` | `tool_executions`, as positions in the response |
| `results` | `raw_results`: `ok`, `error` (an exception, a timeout, no success), `cancelled`, `asked`, `unable` |
| `flushed`, `request` | how far the loop of stage 3 got; `pending_termination` |
| `minted` | `turn_state.minted_refs`, as the calls that minted |
| `announced` | deliverables whose event the host has had |
| `persisted` | deliverables completely on disk |
| `answers` | auxiliary: tool messages per call of the last response |

A notebook is minted before its event, a dataset, chart or report after it
(`NotebookCalls` tells them apart); the host may stop in between.

The entry `ReturnDone` of `emitted` stands for the completion event of a successful
`return_done`; there is no event class of that name.

### The run: actions

An action runs from one point at which the coroutine may be left (an `await` or
a `yield`) to the next, so that time, the host and the task's cancellation may
come in between.

| Action | Code (`agent/loop.py` unless named) |
|---|---|
| `LoopExit` | the `while` condition finds `done` |
| `CancelledAtTop`, `LimitHit`, `CallLlm` | iteration counter, cancellation pre-check, `pre_step`, rendering and the request |
| `LlmSignal`, `LlmCompletes`, `LlmFails`, `LlmCancelled`, `BackoffEnds` | the stream: a delta, its end, a classified failure and its backoff, the flag noticed inside `call_llm` |
| `CancelledAfterStream`, `ResponseRejected`, `TextOnly`, `StartTools` | the checks of the response |
| `UnknownTool`, `InvokeTool`, `ToolSucceeds`, `ToolFails`, `ToolBackoffEnds`, `AskUser`, `ReturnUnable`, `BatchEnds` | `_execute_tool_calls`, and the two exceptions `run_loop` catches |
| `TaskCancelledInLlm`, `TaskCancelledInBackoff`, `TaskCancelledInTools` | `CancelledError` at each await |
| `Tick`, `Cancel`, `Resume` | the clock; the host's flag; `resume_run` with `from_suspension` |

In a workspace run these take the place of `_execute_tool_calls`
(`agent/workspace_hooks.py` unless named):

| Action | Code |
|---|---|
| `ValidateCalls`, `CancelledBeforeBatch` | stage 1: refusals, counting, announcements; the flag found set before any tool |
| `StartBatch` | the choice between a sequential and a concurrent batch |
| `ToolEnds`, `TaskCancelledInTool` | the sequential branch of `_run_tool_coros_with_cancellation` (`agent/agent.py`), which takes the task's cancellation for the result of the tool |
| `GatherEnds`, `GatherCancelled`, `TaskCancelledInGather` | its concurrent branch: the gather, the flag that wins against it, the task cancelled in `asyncio.wait` |
| `FlushResult`, `StartPersist`, `LastWrite`, `WriteFails`, `Announce`, `Mint`, `TaskCancelledInPersist`, `NotebookUnreadable` | stage 3: one result each; a deliverable is written, announced and minted in steps of their own; the write may fail, end unheard of, be cut off or not be read back |
| `BatchEnds`, `AskUser`, `ReturnUnable` | the `RunCancelled` after the batch, and the control request raised again |
| `ResumeTurn` | `Agent.resume`, with a `TurnState` from the record |

Abstractions. A call is its signature, taken from `WorkCalls` (may come
back), `OneOffCalls` (never does, so it is not counted), the three control tools and
one unknown name. Texts, tokens, costs and event payloads are left out. The
provider may stop, truncate, refuse or fail, transiently or for good; the branch
that handles a stream which ends without a response (`loop.py:431-443`) does what
`LlmFails` does for a transient failure. Delays of a backoff are a state
to be left, not a number. The checks of a resumption's token, reply and age come
before the state is touched and are left out. A host may resume the same record
more than once: the code does not forbid it and `Resume` keeps the record. A
deliverable without a logical id, which real tools never return, is left out. One
call stands for every refusal before the count (unknown name, malformed
arguments), one for the refusal after it.

### The prompt

`Prompt` follows `messages` itself: system prompt, catalog, answers, tool results and
snapshots, each with the names its tags carry. `StartTurn`, `ResumeKept` and
`ResumeStored` are `Agent.run` and `Agent.resume`; `Request` is
`on_iteration_start`, which replaces the snapshot, and the rendering; `Answer`
appends what the model said and what its calls returned; `LimitHit`,
`RequestFails` and `AnswerRejected` are the places where the funnel is asked.
`Rendered` is `render_for_llm`: the window in which results are kept in full is
`Cutoff`. A batch reads an artifact, writes one (if `Resolves` lets it) or does
neither. Any failure may be followed by any of the funnel's outcomes. A host
drops a record it has not resumed when it starts a new run. The mints of a turn do
not reach a record (section 6), so `Saved` has none.

### Publishing

`Publication` models one turn of several batches. Calls (`ReturnNotebook`,
`EditNotebook`, `ReturnDataset`, `ReturnReport`, `EditReport`, `ReadArtifact`,
`RestartKernel`) see the tree as it is when they run and are kept in `results`;
`WriteNotebook`, `WriteDataset`, `WriteReport`, `WriteFails` and `ShowArtifact`
are stage 3. `OtherNotebook` and `OtherDataset` are another terminal. A script is a
text per part, so that two edits touch the same or different parts; logs are the
deduplicating `log.jsonl`; a chart is published as a dataset is. A call that is
refused changes nothing and is left out. The auxiliary `slips` says why the log of a
notebook may not end with the script that made the value, `maker` which result of
the batch made it.

### Executors

`CodeExecutor`: several executors in one process. A call takes
`_global_execution_lock` and the gate of its executor (`TakeGlobal`, `StartCell`) or the gate
only (`Inner`, `Rebind`); a cell ends in its thread (`ThreadReturns`), as a coroutine
(`AwaitEnds`), or is given up while its thread lingers (`GiveUp`, `LingeringEnds`);
`Fetch` goes through the cache and the hooks and may be done by a lingering thread
too. Every notebook binds the one variable whose origin is followed. `seen`, the
names `load_dataset` would be checked against, is kept so that its windows are in the model
(section 6).

`SandboxedExecutor`: what a teardown resets is `sup`, with an entry per coroutine
(`call`), per request (`req`) and per boot (`kernel`, `closed`, `listening`, `dirs`).
A call boots a kernel if there is none (`Locked`, `Serves`, `Spawned`, `Connects`,
`Booted`, `BootFails`), sends requests (`TakeCell`, `Serve`, `BrokerAnswers`,
`CellEnds`), and gets the answer in two steps, the future being set (`Deliver`,
`ReadLoopEnds`) before the coroutine goes on (`Resume`, `ResumeFailed`). A
teardown has three awaits: `Closed`, `Killed`, `Stopped`. `KernelDies` may happen
at any time. Each await may take arbitrarily long, so the interleavings are at
least those of the code.

### The store and refresh

`ArtifactStore`: a writer reads and writes one file at a time (`LookForSnapshot`,
`WriteSnapshot`, `VerifySnapshot`, `ReadCuration`, `WriteCuration`, `ReadLog`,
`WriteLog`) and may fail or die at each; a loader (`LookUpName`, `ReadLatest`,
`ReadBytes`) runs beside. The write of one file is atomic, as the docstring of
`_write_snapshot_verified` demands of a backend; what it keeps may be corrupt.

`Refresh`: the recursion is a stack of frames. `Begin` resolves the name;
`ReadSnapshot`, `Descend`, `RunNotebook`, `NotebookRaises`, `GetVariable` and
`Persist` are `refresh.py`; `Reread` is the tool of the agent that reads the
variable once more. Between any two of them come `Move` (of the source), `Edit` (a
new version of a notebook, of any recipe), `ReturnDerived` and `ReturnReport`
(somebody publishes), `Restart` (of the kernel) and `Intrude` (another cell binds
the variable). `Closure`, `Coherent`, `Keyed` and `Diffs` are `closure.py` and
`lineage_diff.py`; the diff keeps one version per artifact and `Diffs` is the set of
what it may find, one for each choice of what is kept.

| Variable | Code |
|---|---|
| `world`, `cache` | what the source would answer, and what the connector cache of the kernel does |
| `kernel` | per variable, the value in the namespace: the code that made it and the inputs it had |
| `recipe` | per notebook, for each of its snapshots which datasets it loads and whether it fetches |
| `log` | per artifact its snapshots: words (title, notes, body), references cited, value |
| `stack`, `outcome` | the refreshes in progress, what the last walk ended with |
| `walks`, `events` | bounds |
| `spoiled`, `regular`, `origin`, `settled` | auxiliary: whether this walk was disturbed, whether it started from a regular lineage, what from, and the last walk if nothing has changed since |

A notebook is edited to anything: it may load other datasets, and fetch or not. A run
takes its inputs from the recipe as it is then (`Inputs`), while a refresh cites
what the old snapshot cited and what was fetched or refreshed (`Sources`), as the
code does. `Uses` is constant for another reason: the inputs an artifact was first made
from, or the artifacts a report embeds, are part of its logical id
(`identity.py:302-380`), so that a `return_dataset` from other inputs is another artifact,
and `ReturnDerived` publishes under this one only if the notebook loads and fetches what it
did then. A refresh keeps the logical id whatever its notebook has become.

The lineage properties are not true of every walk. They are stated of a `Clean` one:

- It started from a `Regular` lineage: each notebook below, as it is now, loads
  nothing that its artifact does not cite, and still fetches if a fetch is cited
  (`Follows`); and two versions of one artifact below it say the same words.
- It is not `spoiled`: no notebook raised, nobody edited, published, restarted the
  kernel or bound a variable meanwhile, and no content came back that is in the log before
  another. The source may move at any time.

An edit that makes a notebook load less, or fetch where it did not, keeps a lineage
regular. What goes wrong for the others is in section 6.

## 3. Runs

All runs have `CHECK_DEADLOCK FALSE`: a turn that has ended and left no record, a host
whose calls are over, or a bound that is used up really stops.

| Run | Bounds | Properties | Shows |
|---|---|---|---|
| `failures` | 3 iterations, 5 tool failures (plain error, narrowed, asked about, provider, one that stops), batches of up to 2, equal calls among them, hard threshold 3, 1 resumption, no grace | `TypeOK`, `RecoveriesWithinBudget`, `LessonsMatchAttempts`, `RepeatsNearThreshold` | no order of failures over batches, iterations and suspensions exceeds a kind's budget, loses a lesson or invents one; signatures stay within one batch of the threshold |
| `turns` | 3 iterations, time limit 1 and grace 1, stall 1, every control tool alone and in company, cancellation, 1 resumption, fairness | `LlmCallsWithinBudget`, `NoSilentEnd`, `NoLlmCallAfterClosing`, `TurnEnds`, `KeepsPromise` | a budget of N iterations pays for less than N requests and is renewed by the answer to its exhaustion only; a turn ends, says why, and makes no request after; the run implements `BudgetedRun`, liveness included |
| `workspace` | 3 iterations, batches of 2 with refused calls, two reads at once, deliverables and control tools, cancellation of flag and task, failing writes, 1 resumption, fairness | `BatchTypeOK`, `EachCallAnsweredOnce`, `DeliverablesAreReusable`, `KeepsPromise` | each call of the batch the loop goes on with, or suspends after, is answered exactly once; what the host has heard of and what was minted is on disk, and the same once the event is handled; the staged dispatch keeps the same promise |
| `prompts` | 2 names, 3 kinds of failure, room for 2 lessons, 6 iterations, 3 answers, 2 turns, a hosted terminal and another one | `TypeOK`, `ResultsAreRead`, `TurnArtifactsAreMine`, `LessonsAreTheLatest` | no tool result is compacted before a request showed it in full; the turn's artifacts are those of this terminal or read by it; the capped lessons are of the kinds that failed last, in order |
| `sandbox` | 3 calls (a cell that fetches, a cell and a reset; or a file, connectors and a close), 4 boots, a setup snippet, fairness | `TypeOK`, `OutcomeTellsWhatRan`, `AnswersStand`, `EveryCallEnds` | a cell runs at most once, and as often as its outcome says; an answer stands; every call ends, whatever dies |
| `kernel` | 3 calls of all kinds on 2 executors, one whose fetch the pool refuses, fairness | `TypeOK`, `LineageComplete`, `InWorkspaceUntilLeft`, `EveryCallEnds` | an origin cites every fetch of its run, which ended well; a cell runs in its workspace as long as nothing lingers; no lock is kept |
| `store` | 2 writers, 1 artifact, 3 versions, one refused, a loader | `TypeOK`, `LoggedIsStored`, `PublishedIsLogged`, `VersionsOnce`, `NoDanglingLoad` | what a log names is stored and named, over crashes between any two files; a load never dangles |
| `refresh` | a report over a chart over a dataset, 2 walks, 2 events, notebooks edited to any recipe, fairness of the walk | `TypeOK`, `LineageTellsTheValue`, `EndsCoherent`, `Idempotent`, `DiffExplains`, `RefreshEnds` | of a clean walk from a regular lineage: a snapshot cites what its value came from; a source met twice stays one version; a second refresh changes nothing; a new version has a difference below it that the diff finds; every walk ends, clean or not |
| `publication` | 2 notebooks of 2 parts, 3 batches of 2 calls, 3 scripts, 1 act of the other terminal | `TypeOK`, `WrittenAsRun`, `CitesItsCode`, `EmbedsResolve` | the script written is the one that ran; a dataset cites the script that made it; a report embeds what it pins |
| `claim_*` | small | one each, violated | section 6 |

Why the bounds are enough. Every constant is the smallest that makes the
boundary it is compared with reachable from both sides: with 3 iterations a run
makes two requests and meets the limit, before and after a resumption; a time
limit of 1 and a grace of 1 separate before, within and after the grace;
`StallThreshold` 1 lets a stall be seen twice. A batch of 2 is the smallest in
which one call can follow another that ended the run, in which a cancellation can
come between two tools, and in which two calls run at once. Two equal
calls in each of two responses, one of them after a resumption, pass the hard
threshold of 3. The retry budget of 3 of the provider failure is
reached by requests and tools together and by requests before and after a
resumption. `workspace` sets the stall threshold to 0, so that a single tick
between two events is a stall, and the hard threshold out of reach: both are the
business of the other runs.

The code keeps 5 lessons; `prompts` keeps 2 and lets 3 kinds fail, which passes the cap with
kinds that come back before and after they fell out. Three answers are one more
than the window of results kept in full. Three calls of an executor are the smallest number in which two
overlap and a third meets what they left, and four boots let a kernel die under a
boot, a restoration and a call. Two writers and a loader are all whose overlap
matters to one artifact; the theorems lift the numbers. A report over a chart over a
dataset is the smallest lineage with a source that is reached along two paths.
Three scripts in two batches are two edits of a third.

Distinct states: `failures` 2,385,660, `turns` 586,876, `workspace` 872,203,
`prompts` 602,866, `sandbox` 215,823, `kernel` 110,368, `store` 462,456, `refresh`
247,938, `publication` 1,245,472 (up to the exchange of its two notebooks).

Bounds in guards: `MaxResumes` (resumptions of a run); `MaxIterations`, `MaxAnswers`
and `MaxTurns` of `Prompt`, where the first counts over all turns; `MaxBoots`;
`MaxWalks` and `MaxEvents` (what happens around a walk, and runs that raise); `MaxBatches`, `MaxCalls`, `MaxScripts` and
`MaxOthers`. The clocks saturate. The iteration counter of a run bounds it by
itself, which is one of the things proved; `CodeExecutor` and `ArtifactStore` need
no bound.

Each property has a mutant: a variant of one definition with a plausible bug, named
in `PROJECT.json`; TLC finds the property violated under the run's own
configuration. Among them: the limit compared one iteration late, a budget renewed
by every suspension, a refused call run nevertheless, an event emitted before the write; old
snapshots that stay in the messages, a window counted in messages; pending calls
forgotten with their connection, or overwritten when they were answered, a
failed call repeated; hooks that run on a miss of the cache only, a lock that is not given back, a scope left
open; a snapshot left for later, a log written without the lines of
before; sources cited as they were, a fetch that asks the source again within one
walk, a log that does not deduplicate; an edit made on the first version, a ledger
that outlives its namespace.

## 4. Fairness

`FairSpec` of the runs assumes weak fairness of `LoopStep \/ ToolStep` as one action: if the
loop can go on, it goes on eventually. `asyncio` schedules a ready task; `call_llm`
has a request timeout and a heartbeat between chunks and its output is finite; a
sleep ends. That every tool returns is an assumption about the tools: the default
dispatch has no timeout of its own. A workspace run needs no such assumption, for
`trace_tool_execution` puts every tool under `asyncio.wait_for`; what it assumes
is that a write to the workspace comes to an end. Because the
disjunction is fair and not each action, a stream may be refreshed by deltas
as often as it likes but not for ever. Nothing is assumed of deltas, the clock,
the host or a cancelled task, so `TurnEnds` holds when no timeout ever strikes
and nobody cancels: the iteration counter ends the turn.

`CodeExecutor` assumes that the coroutine of each call goes on when it can: a
lock of asyncio is given to those who wait in their order, and a cell is given up
at its timeout. That a thread which was given up ever ends is not assumed. `SandboxedExecutor`
assumes the same of the supervisor's coroutines, that the kernel reads and answers
requests, that a cell ends by its timeout if need be, that a kernel whose
connection is gone exits and that the end of a connection is noticed; not that the
host calls, that a kernel connects (the wait for it has a timeout) or that it dies.
`Refresh` assumes that the walk goes on.

## 5. What a host may rely on

`BudgetedRun` is the abstract specification, in five variables: whether the turn
runs, whether the host was told that it is over, whether the host cancelled, the
requests left, and the credit a record offers. A request needs credit, an open turn and
no cancellation; closing may offer what is left or a fresh budget; a turn may
raise at any time, and then offers nothing new; a resumption starts from an offer.
Both runs map their state onto it (`HostStatus`, `HostOffer`, `MaxIterations - 1 - llmCalls`).
Note that `max_iterations = N` grants N - 1 requests: the counter is increased
before it is compared (the repository's tests expect the same).
`KeepsPromise` is checked with fairness by `turns` and `workspace`; its safety part
is the theorem `Implements` for `DefaultRun` and `WorkspaceImplements` for
`WorkspaceRun`.

## 6. Where code and documentation disagree

Three disagreements are runs that TLC ends with a counterexample; `findings` in
`PROJECT.json` quotes the sentences.

| Run | Says | Does |
|---|---|---|
| `claim_stored` | a record is JSON-serializable and resumes "with all prior state intact" (`suspend-resume.md:67-81`) | after JSON its messages are dicts and `Agent.resume` raises `AttributeError` (`agent.py:201`) |
| `claim_reapplied` | an edit re-applied at the end of the batch "reproduces what the tool method itself executed" (`_notebook_script_after_tool`) | two edits of one notebook in a batch: the second is written on top of the first, on which it never ran |
| `claim_restored` | the next call boots a fresh kernel "(names + setup snippets restored)" (`sandbox/executor.py:168`) | the kernel counts as started before it is restored; another call runs on it bare (`:121`) |

Others have no run of their own. They were met while modelling; the models do what
the code does.

The run.
- A pending instruction is said to be shown once and then cleared (`state.py:82`,
  `renderer.py:19-20`). Nobody clears it but a resumption: it is added to every later request of the
  turn (`renderer.py:284`).
- "The policy gave the agent one chance to recover" before the second strike
  (`policy.py:70-73`): a stall is seen again before any request is made, and hands
  off (`loop.py:359`).
- `post_llm` projects the calls of one response one by one, so that two equal calls
  pass the threshold they should meet (`detectors.py:214`).
  `RepeatsNearThreshold` is what remains true.
- A batch goes on after a handoff, and a later `ask_user` suspends a run of which
  `failure-and-recovery.md:241-244` says that nothing is left to resume
  (`loop.py:583`).
- With a hook registered `CancelledError` is said never to leave the loop
  (`loop.py:334-336`); the sleep before a retry is outside every handler
  (`recovery.py:225`).
- A rejected response, and a default batch that suspends, leave calls without an answer in
  the next request (`loop.py:465`, against `:651`).
- A workspace batch with a question and a cancelled call announces `RunCancelled`, then
  suspends with a record (`workspace_hooks.py:953`, against
  `suspend-resume.md:243`).
- A record never carries the references minted before it: the hooks mint into
  another object (`loop.py:290`, against `agent.py:714`).
- `time_limit` narrows the scope (`kinds.py:85`) where `failure-and-recovery.md:117`
  says it asks the user; its instruction announces "your last turn", where any
  number of requests fits into the grace window.
- `on_turn_end`'s report of a lingering tool error asks for `not state.done`, which
  is never so (`workspace_hooks.py:986`).

The prompt.
- After a turn boundary the mints of the turn before are in no message any more: a
  terminal can no longer edit, refresh or load what it published itself unless
  it reads it again, though `seen_refs.py:13-18` counts on those tags. A
  standalone agent's snapshot lists its artifacts, but the gates do not ask the
  snapshot.
- In a workspace run the pending instruction comes before the system prompt, which
  is one of the messages (`renderer.py:282-290`, against `:18-19`).
- The cache mark for the stable history goes to the second last message, which is
  the volatile snapshot when lessons follow it (`caching.py:103-107`).

Publishing.
- A dataset returned in the batch of its notebook, or after `execute=false`, cites
  the latest version on disk, which is not the code that made its value
  (`agent.py:2153`); `CitesItsCode` lists the cases that are excepted.
- After A, B, A the log still ends with B, which is what a name resolves to.
- A notebook that collides between its run and its writing is written into the
  other terminal's log (`workspace_hooks.py:836-842`).
- Datasets, charts and reports take a `live_name` without asking whether another artifact has it; `load_dataset` then
  calls the name ambiguous (`load.py:94`).

Executors and store.
- `execute` stores what its caller has seen before it waits for the lock, and
  `clear_namespace` and `set_cwd` give the lock back half-way
  (`executor.py:929`, `:891`, `:863`): `seen`, the reset and the binding of the
  connectors can be seen by another call in between. A cell with top-level await
  runs in whatever directory the process is in by then (`:984`).
- A run that fails half-way leaves the old origin on a name it rebound (`:1011`); a
  fetch that cannot be kept is left out of the lineage without a word
  (`data_objects.py:91`); a lingering thread may fetch into the scope of the next
  run and change the directory under it (`:302`).
- Two writes of one file at once share the name of their temporary file (`:709`).
- A call that finds the connection gone after `_ensure_started` ends with an
  `AssertionError` (`sandbox/executor.py:159`), and a teardown that is late closes
  the kernel that a third call has booted meanwhile (`:171`).
- A corrupt snapshot stays in place after `SnapshotIntegrityError`, and the next
  attempt finds the file and is content (`artifact_store.py:339`).

- Two writers of one artifact that overlap lose a line of its log, which each reads,
  extends and writes back (`artifact_store.py:394`): a version that was announced is no
  longer listed. `PublishedIsLogged` is stated for writers that do not.

Refresh. The first five were counterexamples of TLC to the properties without their
preconditions.
- A chart edited to load a dataset that it does not cite runs on whatever version is there: what
  it loads is neither refreshed first nor cited (`refresh.py:357-365`, `:195`). A report that
  pins the chart before that dataset moves the dataset last, and the next refresh, with nothing
  changed, publishes once more, where a refresh is "fully idempotent" if nothing upstream
  changed (`refresh.py:25-27`; `docs/concepts/artifacts.md:361`).
- That dataset moves: the chart has a new version, and the diff with the one before is
  empty (`refresh.py:206-211`), where one "can see *why* a deliverable moved, not just
  *that* it did" (`lineage_diff.py:8-10`).
- A chart edited to fetch no more keeps the source that its old snapshot cites ("a stale ref
  no longer fetched by any re-run", `refresh.py:380-388`). When the source moves, the chart
  cites its old state beside a dataset that cites the new one, and the end is
  not coherent. The docstring means it so.
- A notebook that raises is not told from one that ends well: the value that an earlier
  version left in the kernel is published with the new code as its notebook
  (`refresh.py:344-356`), where an artifact links "to the code and data that produced it"
  (`README.md:84`).
- A content that is in the log keeps its place there: a refresh that computes an old
  value again returns the old version, and the name stands for a newer one
  (`artifact_store.py:379-410`), where a refresh "Returns the latest" reference
  (`refresh.py:83`).
- The load edges that a re-run adds to the ledger are said to be read off it by "downstream
  callers" (`refresh.py:320-323`); nobody in `refresh.py` does.
- Within one kernel a refresh is answered by the connector cache, so that it does
  not see the source move (`connector_cache.py:108`, against
  `docs/concepts/artifacts.md:348-349`).
- A walk that is refused half-way has published what it met below.
- A dependent that is pinned at an older version brings that version's title back
  (`refresh.py:301`). A lineage with two versions of one artifact and two titles
  publishes one after the other and changes at every refresh; `Regular` excludes it.

## 7. Proofs

Every invariant and every action property that a passing run checks is stated by a
theorem of its specification, for every value of the constants that the named
assumptions allow; so is the safety part of the promise to the host. The inductive
invariants can be evaluated by TLC and were, on the constants of the component's run, but for
`CleanInv` of `RefreshProofs`, whose plans are too many. What stays with TLC is liveness (end of this section).

### The run

`DefaultRunProofs` proves for every value of the constants, from
`BoundsAssumption` (naturals, at least one iteration, a hard threshold of at least
2), `CallsAssumption` (a response is a finite list of at most `MaxBatch` calls;
counted signatures are neither unknown nor one-off) and `ToolFailuresAssumption`
(tools fail with failures of the closed vocabulary):

| Theorem | Property | Argument |
|---|---|---|
| `TypeCorrect` | `TypeOK` | `TypeInv` = `TypeOK`, `IterationsLeft`, `RecordIterationsLeft` |
| `RecoveriesBounded` | `RecoveriesWithinBudget` | `RecoveryInv`: recoveries never exceed attempts, in the state and in the record |
| `LlmCallsBounded` | `LlmCallsWithinBudget` | `LlmInv`: requests never run ahead of the iteration counter, in the state and in the record |
| `NoTurnEndsSilently` | `NoSilentEnd` | `ClosingInv`: `done` is set exactly when the host was told |
| `NoRequestAfterClosing` | `NoLlmCallAfterClosing` | the same; a request needs `~done` |
| `RepeatsBounded` | `RepeatsNearThreshold` | `RepeatsInv` with `BatchWithinCap` |
| `LessonsTold` | `LessonsMatchAttempts` | `LessonsInv`: what the list lacks was given up when the list was full |
| `Implements` | the safety part of `KeepsPromise` | `HostInv`; every step is a step of `BudgetedRun` or hidden |

Why the strengthenings are needed. That the iteration counter stays below its limit
while an iteration runs (`IterationsLeft`) does not survive a resumption unless the
saved counter does too, except for a record that asks about the limit itself,
whose counter is reset. Recoveries are bounded because each one was an attempt
first and the policy goes on only below the cap; both counters travel through the
record, so the invariant speaks of both. For the repeated signatures the distance
that `post_llm` leaves is used up by the calls of the batch: the invariant
says that a counter and the calls still queued stay within the cap, one more
while the call at hand is already counted but still queued (`InFlight`). For the
refinement, a request or a failure in the middle of an iteration must not meet a
turn that is closed (`OpenInv`). For the lessons, tracking a kind gives up one
place of the list, that of the kind or the first of a full list, and puts the kind last
(`LessonMoves`); the invariant counts by finite cardinalities what that does to the
kinds listed, in the state and in the record.

`WorkspaceRunProofs` proves about the staged dispatch, from `CallsAssumption`
(a response is a finite list of calls) and, for the last two, `BoundsAssumption`:

| Theorem | Property | Argument |
|---|---|---|
| `AnsweredOnce` | `EachCallAnsweredOnce` | `AnswersInv`: while a batch is dealt with, the calls without an answer are exactly those that stage 3 has still before it, and these are different calls; outside, there are none |
| `DeliverablesReusable` | `DeliverablesAreReusable` | `PublishedInv`: what is written and not announced is on disk; at the event the mints lack at most the deliverable at hand; a resumed turn starts with none |
| `BatchTypes` | `BatchTypeOK` | `DispatchInv`: where the dispatch stands, how many results there are and how many are flushed agree; `CountInv` for the iteration counter |
| `WorkspaceImplements` | the safety part of `KeepsPromise` | `HostInv`; every step is a step of `BudgetedRun` or hidden |

`EachCallAnsweredOnce` speaks of the points at which the loop goes on; what carries
it there is `LeftIsUnanswered`, which relates `answers`, `batch` and `flushed`
after each result. The list of a batch has no call twice because it keeps the
order of the response (`InOrderLists`). A turn that the cancellation of its task
ends may leave calls unanswered: it must then be known not to end with a question,
for which the last closing event is followed (`ClosedWith`). That stage 3 finds a
result for each call is not so while results come in: a batch that the flag cuts
short fills the rest with `cancelled` (`CutShort`), so `StageOK` says at which phases
the two lists have the same length. The refinement repeats the argument of
`DefaultRunProofs` about counters, closing events and records, which in a workspace are
changed by other actions, and none of the lemmas of one module is about the other's.

### The prompt

`PromptProofs` proves about conversations of any length, from `BoundsAssumption` (the
bounds are naturals), `KindsAssumption` (kinds are of the closed vocabulary),
`BatchesAssumption` (a batch is a finite list of calls, each of which works, reads or
writes a name) and `LessonsCapAssumption` (at least one lesson is kept):

| Theorem | Property | Argument |
|---|---|---|
| `InductivePrompt` | - | `IInv` = `ConversationInv`, `LessonsInv` |
| `PromptTypes` | `TypeOK` | `Headed`, `OneSnapshot`: system prompt, catalog, and one snapshot, which a request finds last |
| `CompactedWereRead` | `ResultsAreRead` | `Known`, and `CompactedIsRead` about `Cutoff` |
| `ListedAreMine` | `TurnArtifactsAreMine` | the names in the messages were touched; mints were |
| `LessonsSorted` | `LessonsAreTheLatest` | `Latest`: the list is sorted by what failed later, and what it lacks failed before all of it |

Why it is needed. That a compacted result has been read follows from where it
stands: the window of results kept in full begins at the second last answer, so
that a compacted result has an answer behind it. `Known` says for every result and
every answer after it that the result was read, which every step keeps, also those
that put a message between them or take the snapshot and the catalog away.
`WithoutRole`, which takes messages of a role away, is a recursive function: that what it leaves
is a subsequence with all the others in it (`Left`, `RolesGo`) is proved
by induction over the length, with the set of lengths for which it holds
(`SetInduction`, from the well-foundedness of the naturals; the library's own
induction theorem takes an operator).

### Publishing

`PublicationProofs` proves about batches of any length, notebooks of any parts and
another terminal, from `PublicationAssumption` (the drafts are scripts; `None` is no name,
no part and no code):

| Theorem | Property | Argument |
|---|---|---|
| `InductivePublication` | - | `IInv`, below |
| `PublicationTypes` | `TypeOK` | `Types`, `NamedInv`: what has a version has a name |
| `ScriptsAreWrittenAsRun`, `DatasetsCiteTheirCode`, `EmbedsAreInTheTree` | `WrittenAsRun`, `CitesItsCode`, `EmbedsResolve` | parts of it |

A batch is executed first and written afterwards, so the invariant says what a result
that waits (`Holds`) may still claim about the tree: an edit was made from a version that
is in the log, where it stood; a dataset without slips cites what made it; the pins
of a report resolve. It lasts because logs only grow (`Grown`). `KernelInv` says the
same of the value in the kernel: `maker` is the waiting result that made it, and without
slips and with a log the value is what a dataset would cite now.

### Executors

`CodeExecutorProofs` proves about the in-process executor, from `ExecutorAssumption`
(the calls are of the kinds modelled, `NoCall` is none of them), for any
number of calls, executors and directories, and threads that linger as long as they like:

| Theorem | Property | Argument |
|---|---|---|
| `InductiveExecutor` | - | `IInv`, below |
| `ExecutorTypes`, `CellsRunAtHome`, `LineageIsComplete` | `TypeOK`, `InWorkspaceUntilLeft`, `LineageComplete` | parts of it |

A cell is in its workspace because no other one moves the process: `Locks` says who
holds which lock, `Threads` ties a live thread to a call that is inside, so that
there is one, and `Returns` says that it goes back home. For the lineage, `Scopes`
says that the scope of a producing run is open, and holds what the run was
given, from its first step to its stamp; a thread left behind may add to it and take
nothing away.

`SandboxedExecutorProofs` proves about any number of calls, boots and setup snippets, from
`SandboxAssumption` (calls are of the kinds modelled, `NoCall` is none of them, the bounds
are naturals):

| Theorem | Property | Argument |
|---|---|---|
| `InductiveSandbox` | - | `IInv`, below |
| `SandboxTypes` | `TypeOK` | `Types`, `LockInv` |
| `OutcomesTell` | `OutcomeTellsWhatRan` | `Count`, `Verdict` |
| `AnswersAreKept` | `AnswersStand` | a step tells a coroutine only while it waits (`Told`) |

The argument follows the one request of a call that runs its own cell. `Position` says
what a coroutine may have asked for where it stands: its own cell not before the
start and the restoration are behind it. `Count` says how often the cell was begun by
where the request is, and `Verdict` what a result says of the request. `KernelInv` ties the
running cell of a kernel to a request that is marked as running there, so that no cell ends
for a call that has gone on; `LockInv` keeps a second call from booting meanwhile.
A teardown, a death or the end of a connection moves many calls at once; `Effect`
collects what it may do to the others.

### The store and refresh

`ArtifactStoreProofs` proves about persisting, from `StoreAssumption` alone (the
refused versions are versions, and `None` is no writer), for any number of writers,
artifacts and versions:

| Theorem | Property | Argument |
|---|---|---|
| `InductiveStore` | - | `IInv`, below |
| `StoreTypes`, `LogNamesStored`, `LogIsASet`, `LoadsFind`, `AnnouncedIsLogged` | `TypeOK`, `LoggedIsStored`, `VersionsOnce`, `NoDanglingLoad`, `PublishedIsLogged` | parts of it |

Why it is needed: that a log names what is stored holds when a line is added only if the
writer knows so, from a look at a file some steps ago. `WriterKnows` says
what each step of a writer may take for granted, and it lasts because
snapshots and sidecars are never taken away. The lines a writer has read may be old by the time
it writes them back, but what they name is stored still. Only that nothing
announced is lost needs writers that do not overlap: `Alone` says that the lines
read are then the log. `LoaderKnows` is the same for a load.

`RefreshProofs` proves about any lineage, any edits and any number of events, from
`RefreshAssumption` (datasets and charts are no reports, notebooks and the source are no
artifacts, and an artifact was first made from what its notebook loads then),
`DerivationAssumption` (there are finitely many artifacts and none is derived from
itself) and `NoneAssumption` (`None` is no state of the source, no reference, no value and no
settled walk). The second is justified by identity: a snapshot cites the content
hashes of what was there before it, so no first publication can cite in a circle. It
says nothing of what notebooks load later, which may well go round.

| Theorem | Property | Argument |
|---|---|---|
| `InductiveTypes`, `RefreshTypes` | `TypeOK` | `TypeInv`: versions are never taken away, so a reference stays good; a value came from what its code loads and fetches (`Computed`) |
| `InductiveRefresh` | - | `RefreshInv` = `TypeInv`, `Distinct`, `CleanInv`, below |
| `LineageTells` | `LineageTellsTheValue` | `Made` and `HonestNow`: what is published cites what a run computes now |
| `RefreshIsIdempotent` | `Idempotent` | `SettledInv`, `ComesFrom` |
| `RefreshEndsCoherent` | `EndsCoherent` | `NewestAreClosed`: below what is up to date lies the newest of each |
| `DiffTellsWhy` | `DiffExplains` | `SameSnapshot`: if all below it were as before, the content would be, and the log would have it |

The four properties are about clean walks from a regular lineage (section 2, The store and
refresh), but the log may still hold any mixture of versions, and the walk may meet several
versions of one artifact. `CleanInv` says that there are a set `D` of datasets and charts,
those the walk has been through, and a plan `P`. The plan has the versions the walk may
still meet and what each artifact says; it takes from the regular lineage that all of
them say so and that their notebooks follow them (`PlanInv`). `D` is closed
downwards and its newest versions are what a run would make of them now (`DoneInv`):
they cite the newest of each source, what the cache answers and the newest
code, and their notebooks load nothing else (`Served`). Each frame has handed up the newest
version of what it has refreshed, or has it still to do (`FrameInv`, `LinkInv`), and
refreshes something of smaller rank than the root (`LinkInv`, `RootInv`), which is published
last and is not in `D`. A dataset that two inputs share is refreshed twice; the second time
it is in `D`, its run produces the content that is there, and no content is in a log twice
(`Distinct`), so the reference is the same and nothing in `D` is disturbed (`Steady`).

The plan of a walk that starts from a regular lineage is made from the closure of its root. For
that the closure must contain all that its snapshots cite: it goes as many steps as there are
artifacts, and a snapshot met after `k` steps has a rank of at most the number of artifacts
less `k` (`ClosureClosed`, an induction with a set). A second walk starts from what the first
one left: it keeps `D`, and its plan has the newest versions of `D` and of
the root (`Follow`, `Again`, `SettledInv`).

Without the preconditions none of the four is true (section 6, Refresh).

### What is not proved

Only model-checked are the liveness properties: `TurnEnds`, the fairness part of
`KeepsPromise` (for both dispatches), `EveryCallEnds` (for both executors) and
`RefreshEnds`. They rest on weak fairness, and the prover does not treat `ENABLED`. That TLC
checks the inductive invariants on instances is no part of the runs: the proofs say more.
The three violated claims are what TLC shows by a counterexample.

## 8. Not modelled

`status` and `note` of each component in `PROJECT.json` say what is left out. Cache
marks, display, theme and tracing decide nothing. Formats and conversions appear as
far as a decision reads them. Of the modelled components the following is left
out: `loop_soft_threshold` (only logs), the usage accumulator, tokens and ages of
records, the texts of instructions and blocks, the hooks that only translate
events, the plain file tools (`write_file`, `edit_file`, `read_file`, `read_data`,
`list_files`), `list_artifacts`, the collection of an `AgentResult`, the bytes of
frames and the confinement of the kernel process, more than one source of data and
more than one variable per notebook. Tools of a concurrent batch that are still
running when the task is cancelled are left to themselves by the code;
`WorkspaceRun` does not follow them further. `Publication` is one turn;
what a turn boundary does to the names is in `Prompt`. `Refresh` knows of a notebook
what it loads and whether it fetches, from one source, and of a value what
it came from; a notebook that loads a report's file or reads a file of the tree
is not told apart from one that loads nothing.

Where a model allows more than the code: every await may take arbitrarily long; in
`Prompt` a failure of any kind may end in any of the funnel's ways; in
`CodeExecutor` a lingering thread fetches at any moment; in `ArtifactStore` a
writer may fail at each of its steps. A safety property that holds with that freedom
holds without it, under the preconditions that it states and within what is modelled; the
violated claims use none of this freedom but the time of an await.

## 9. Plan

1. An abstract kernel, up or down, whose calls end once with an outcome that says
   whether the cell ran, implemented by `SandboxedExecutor`; the map sends a boot
   that is not restored yet to a kernel that is down.
2. An abstract store in which a version is published in one step, implemented by
   `ArtifactStore` where writers of an artifact do not overlap.
3. Properties for the hazards that have none: what a call sees of `seen` and of the
   directory when another one stores its own before it has the lock, and what a
   record forgets, stated as what remains true.
