---------------------------- MODULE WorkspaceRun -----------------------------
(***************************************************************************)
(* The run of an Agent on a workspace: RunLoop with the tools of a batch   *)
(* run by WorkspaceRunHooks.dispatch_tools (agent/workspace_hooks.py) in   *)
(* three stages.  Stage 1 answers the calls it refuses.  Stage 2 runs the  *)
(* others, one after the other or all at once, and collects what each came *)
(* to (_run_tool_coros_with_cancellation, agent/agent.py).  Stage 3        *)
(* answers them in order, persists, announces and mints the deliverables,  *)
(* and only then acts on a question or a surrender found among them.       *)
(***************************************************************************)
EXTENDS RunLoop, SequencesExt

CONSTANTS
    ReadOnlyCalls,   \* calls of the tools in _TOOL_NAMES_SAFE_CONCURRENT
    Deliverables,    \* calls of return_* and of the notebook tools
    NotebookCalls,   \* those of the notebook tools
    PathlessCalls    \* calls of notebook tools without a path

ASSUME CallKindsAssumption ==
    /\ ReadOnlyCalls \cup Deliverables \cup PathlessCalls \subseteq WorkCalls \cup OneOffCalls
    /\ ReadOnlyCalls \cap Deliverables = {}
    /\ NotebookCalls \subseteq Deliverables

VARIABLES
    batch,      \* tool_executions: positions in the response, in order
    results,    \* raw_results, as far as they are known
    flushed,    \* how many of them stage 3 has dealt with
    request,    \* pending_termination: the control call that raised last
    minted,     \* turn_state.minted_refs, as the calls that minted them
    announced,  \* deliverables whose event the host has had in this run
    persisted,  \* deliverables completely written to the workspace
    answers     \* auxiliary: per call of the response, its tool messages

batchVars == <<batch, results, flushed, request>>
workspaceVars == <<minted, announced, persisted>>
dispatchVars == <<batchVars, workspaceVars, answers>>
allVars == <<vars, dispatchVars>>

DispatchPhase == {"tools", "dispatching", "running", "gathering", "flushing",
                  "persisting", "written", "announced"}

\* What a call came to.  A ToolOutput without success and a captured exception
\* are answered alike.
Outcome == {"ok", "error", "cancelled", "asked", "unable"}

OutcomesOf(c) ==
    CASE c = "ask_user"      -> {"asked", "error"}
      [] c = "return_unable" -> {"unable", "error"}
      [] OTHER               -> {"ok", "error"}

CallAt(n) == queue[batch[n]]

-----------------------------------------------------------------------------
(***************************************************************************)
(* Stage 1.                                                                *)
(***************************************************************************)

Occurrences(c) == Cardinality({n \in DOMAIN queue : queue[n] = c})

\* An unknown tool, like one with malformed arguments, is refused before it is
\* counted, a notebook without a path after that.
Refused(n) == queue[n] \in {"unknown"} \cup PathlessCalls

\* Mutant: a notebook without a path is refused and yet run.
AcceptedPathless(n) == queue[n] # "unknown"

Accepted(n) == ~Refused(n)

\* The elements of S in their order.
InOrder(S) ==
    {list \in [1 .. Cardinality(S) -> S] :
       /\ \A m, n \in DOMAIN list : m < n => list[m] < list[n]
       /\ \A x \in S : \E n \in DOMAIN list : list[n] = x}

\* A refusal is an event, and so is the announcement of some of the tools.
ValidateCalls ==
    /\ phase = "tools"
    /\ repeats' = [c \in Counted |-> repeats[c] + Occurrences(c)]
    /\ batch' \in InOrder({n \in DOMAIN queue : Accepted(n)})
    /\ answers' = [n \in DOMAIN queue |-> IF Refused(n) THEN 1 ELSE 0]
    /\ results' = <<>> /\ flushed' = 0 /\ request' = None
    /\ phase' = "dispatching"
    /\ silence' \in IF \E n \in DOMAIN queue : Refused(n) THEN {0} ELSE {0, silence}
    /\ UNCHANGED <<iteration, elapsed, failureVars, dangling, cancelSet,
                   answerVars, resumes, llmCalls, workspaceVars>>

\* The response is dealt with; the loop goes round.
Return ==
    /\ phase' = "top"
    /\ queue' = <<>>
    /\ batch' = <<>> /\ results' = <<>> /\ flushed' = 0 /\ request' = None

AnswerAll(positions) ==
    answers' = [n \in DOMAIN answers |->
                  IF n \in positions THEN answers[n] + 1 ELSE answers[n]]

\* The flag is set before any tool was started.
CancelledBeforeBatch ==
    /\ phase = "dispatching" /\ CancelSeen /\ batch # <<>>
    /\ AnswerAll(ToSet(batch))
    /\ emitted' = Append(emitted, "RunCancelled")
    /\ done' = TRUE
    /\ silence' = 0
    /\ Return
    /\ UNCHANGED <<iteration, elapsed, attempts, lessons, pending, record,
                   recoveries, repeats, dangling, cancelSet, finish, resumes,
                   llmCalls, workspaceVars>>

-----------------------------------------------------------------------------
(***************************************************************************)
(* Stage 2.                                                                *)
(***************************************************************************)

Concurrent == \A n \in DOMAIN batch : CallAt(n) \in ReadOnlyCalls

\* Mutant: the tools that were not started have no result.
ResultsSoFar(rs) == rs

CancelledFrom(rs) == [n \in DOMAIN batch |-> IF n <= Len(rs) THEN rs[n] ELSE "cancelled"]

\* Between two tools of a sequential batch the flag is asked for.
Proceed(rs) ==
    LET cut == CancelSeen /\ Len(rs) < Len(batch)
    IN /\ results' = IF cut THEN CancelledFrom(rs) ELSE rs
       /\ phase' = IF cut \/ Len(rs) = Len(batch) THEN "flushing" ELSE "running"

StartBatch ==
    /\ phase = "dispatching" /\ (~CancelSeen \/ batch = <<>>)
    /\ IF Concurrent /\ batch # <<>>
       THEN phase' = "gathering" /\ results' = <<>>
       ELSE Proceed(<<>>)
    /\ UNCHANGED <<iteration, clockVars, failureVars, repeats, dangling, cancelSet,
                   answerVars, resumes, llmCalls, batch, flushed, request,
                   workspaceVars, answers>>

\* A tool returns, raises or is cut off by its timeout.
ToolEnds ==
    /\ phase = "running"
    /\ \E o \in OutcomesOf(CallAt(Len(results) + 1)) : Proceed(Append(results, o))
    /\ UNCHANGED <<iteration, clockVars, failureVars, repeats, dangling, cancelSet,
                   answerVars, resumes, llmCalls, batch, flushed, request,
                   workspaceVars, answers>>

\* The task is cancelled while a tool of a sequential batch runs: this is caught
\* as the outcome of that tool, and the next tool runs.
TaskCancelledInTool ==
    /\ phase = "running"
    /\ Proceed(Append(results, "cancelled"))
    /\ UNCHANGED <<iteration, clockVars, failureVars, repeats, dangling, cancelSet,
                   answerVars, resumes, llmCalls, batch, flushed, request,
                   workspaceVars, answers>>

GatherEnds ==
    /\ phase = "gathering"
    /\ results' \in [DOMAIN batch -> {"ok", "error"}]
    /\ phase' = "flushing"
    /\ UNCHANGED <<iteration, clockVars, failureVars, repeats, dangling, cancelSet,
                   answerVars, resumes, llmCalls, batch, flushed, request,
                   workspaceVars, answers>>

\* The flag is set first, or together with the last tool: all results are lost.
GatherCancelled ==
    /\ phase = "gathering" /\ cancelSet
    /\ results' = CancelledFrom(<<>>)
    /\ phase' = "flushing"
    /\ UNCHANGED <<iteration, clockVars, failureVars, repeats, dangling, cancelSet,
                   answerVars, resumes, llmCalls, batch, flushed, request,
                   workspaceVars, answers>>

\* The task is cancelled where dispatch_tools does not catch it: run_loop closes
\* the turn, and calls stay without an answer.
LeaveDispatch ==
    /\ CloseWith("RunCancelled")
    /\ dangling' = TRUE
    /\ queue' = <<>>
    /\ batch' = <<>> /\ results' = <<>> /\ flushed' = 0 /\ request' = None
    /\ UNCHANGED <<iteration, clockVars, attempts, lessons, pending, record,
                   recoveries, repeats, cancelSet, finish, resumes, llmCalls, minted,
                   announced, answers>>

TaskCancelledInGather ==
    /\ phase = "gathering"
    /\ LeaveDispatch
    /\ UNCHANGED persisted

-----------------------------------------------------------------------------
(***************************************************************************)
(* Stage 3.                                                                *)
(***************************************************************************)

Next3 == flushed + 1

ToPersist == CallAt(Next3) \in Deliverables /\ results[Next3] = "ok"

\* The tool message of the result at hand.
Answer ==
    /\ AnswerAll({batch[Next3]})
    /\ flushed' = flushed + 1
    /\ silence' = 0

FlushResult ==
    /\ phase = "flushing" /\ flushed < Len(batch) /\ ~ToPersist
    /\ Answer
    /\ request' = IF results[Next3] \in {"asked", "unable"} THEN CallAt(Next3) ELSE request
    /\ LET finished == CallAt(Next3) = "return_done" /\ results[Next3] = "ok"
       IN /\ done' = (done \/ finished)
          /\ emitted' = IF finished THEN Append(emitted, "ReturnDone") ELSE emitted
    /\ UNCHANGED <<phase, iteration, elapsed, attempts, lessons, pending, record,
                   recoveries, repeats, dangling, cancelSet, answerVars,
                   resumes, llmCalls, batch, results, workspaceVars>>

\* Mutant: the event is emitted before the deliverable is written.
AnnounceFirst ==
    /\ phase = "flushing" /\ flushed < Len(batch) /\ ToPersist
    /\ phase' = "persisting"
    /\ announced' = announced \cup {CallAt(Next3)}
    /\ UNCHANGED <<iteration, clockVars, failureVars, repeats, dangling, cancelSet,
                   answerVars, resumes, llmCalls, batchVars, minted, persisted, answers>>

StartPersist ==
    /\ phase = "flushing" /\ flushed < Len(batch) /\ ToPersist
    /\ phase' = "persisting"
    /\ UNCHANGED <<iteration, clockVars, failureVars, repeats, dangling, cancelSet,
                   answerVars, resumes, llmCalls, dispatchVars>>

\* The log, the last of the three files, is on disk; nobody has heard of it yet.
LastWrite ==
    /\ phase = "persisting"
    /\ persisted' = persisted \cup {CallAt(Next3)}
    /\ phase' = "written"
    /\ UNCHANGED <<iteration, clockVars, failureVars, repeats, dangling, cancelSet,
                   answerVars, resumes, llmCalls, batchVars, minted, announced, answers>>

\* A body is refused, a write fails, or the kernel dies before it answers for a
\* file that is there: the model is told that nothing was published.
WriteFails ==
    /\ phase \in {"persisting", "written"}
    /\ Answer
    /\ phase' = "flushing"
    /\ UNCHANGED <<iteration, elapsed, failureVars, repeats, dangling, cancelSet,
                   answerVars, resumes, llmCalls, batch, results, request, workspaceVars>>

\* The write has returned, and the host has the event; a notebook is minted by then.
Announce ==
    /\ phase = "written"
    /\ announced' = announced \cup {CallAt(Next3)}
    /\ minted' = minted \cup ({CallAt(Next3)} \cap NotebookCalls)
    /\ silence' = 0
    /\ phase' = "announced"
    /\ UNCHANGED <<iteration, elapsed, failureVars, repeats, dangling, cancelSet,
                   answerVars, resumes, llmCalls, batchVars, persisted, answers>>

\* The host asks for more: the others are minted only now.
Mint ==
    /\ phase = "announced"
    /\ minted' = minted \cup {CallAt(Next3)}
    /\ Answer
    /\ phase' = "flushing"
    /\ UNCHANGED <<iteration, elapsed, failureVars, repeats, dangling, cancelSet,
                   answerVars, resumes, llmCalls, batch, results, request,
                   announced, persisted>>

\* The task is cancelled in the wait for a write; the thread that writes may still
\* bring it to its end.
TaskCancelledInPersist ==
    /\ phase \in {"persisting", "written"}
    /\ LeaveDispatch
    /\ persisted' \in {persisted, persisted \cup {CallAt(Next3)}}

\* A notebook cannot be read back before it is persisted: nothing catches this.
NotebookUnreadable ==
    /\ phase = "persisting" /\ CallAt(Next3) \in NotebookCalls
    /\ phase' = "raised"
    /\ dangling' = TRUE
    /\ queue' = <<>>
    /\ batch' = <<>> /\ results' = <<>> /\ flushed' = 0 /\ request' = None
    /\ UNCHANGED <<iteration, clockVars, failureVars, repeats, cancelSet, finish,
                   resumes, llmCalls, workspaceVars, answers>>

\* The event that ends a batch which a cancellation cut short.
CancelNotice ==
    IF ~done /\ \E n \in DOMAIN results : results[n] = "cancelled"
    THEN <<"RunCancelled">> ELSE <<>>

Flushed == phase = "flushing" /\ flushed = Len(batch)

\* Mutant: the notice does not stop the loop.
GoesOn(notice) == FALSE

StopsLoop(notice) == notice # <<>>

BatchEnds ==
    /\ Flushed /\ request = None
    /\ emitted' = emitted \o CancelNotice
    /\ done' = (done \/ StopsLoop(CancelNotice))
    /\ Return
    /\ UNCHANGED <<iteration, clockVars, attempts, lessons, pending, record,
                   recoveries, repeats, dangling, cancelSet, finish, resumes,
                   llmCalls, workspaceVars, answers>>

\* The last control call that raised is raised again, and closes the turn.
RequestEnds(call, event) ==
    /\ Flushed /\ request = call
    /\ emitted' = emitted \o CancelNotice \o <<event>>
    /\ done' = TRUE
    /\ phase' = "ended"
    /\ queue' = <<>>
    /\ batch' = <<>> /\ results' = <<>> /\ flushed' = 0 /\ request' = None
    /\ UNCHANGED <<iteration, clockVars, attempts, lessons, pending,
                   recoveries, repeats, dangling, cancelSet, finish, resumes,
                   llmCalls, workspaceVars, answers>>

AskUser ==
    /\ RequestEnds("ask_user", "UserInputRequested")
    /\ record' = Snapshot(None, iteration, attempts, lessons, dangling)

ReturnUnable ==
    /\ RequestEnds("return_unable", "Handoff")
    /\ UNCHANGED record

-----------------------------------------------------------------------------
\* The refs a suspension record carries over: the loop copies those of
\* state.turn, to which nothing is ever added.
RecordedRefs == {}

ResumeTurn ==
    /\ Resume
    /\ minted' = RecordedRefs /\ announced' = {}
    /\ answers' = <<>>
    /\ UNCHANGED <<batchVars, persisted>>

DispatchStep ==
    \/ ValidateCalls \/ CancelledBeforeBatch \/ StartBatch \/ ToolEnds
    \/ GatherEnds \/ GatherCancelled \/ FlushResult \/ StartPersist \/ LastWrite
    \/ WriteFails \/ Announce \/ Mint \/ BatchEnds \/ AskUser \/ ReturnUnable

\* What the loop does outside the dispatch of tools.
LoopOnly == LoopStep /\ UNCHANGED dispatchVars

DispatchEnvironment ==
    \/ TaskCancelledInTool \/ TaskCancelledInGather \/ TaskCancelledInPersist
    \/ NotebookUnreadable

LoopEvents ==
    /\ LlmSignal \/ Tick \/ Cancel \/ TaskCancelledInLlm \/ TaskCancelledInBackoff
    /\ UNCHANGED dispatchVars

StartRun ==
    /\ Init
    /\ batch = <<>> /\ results = <<>> /\ flushed = 0 /\ request = None
    /\ minted = {} /\ announced = {} /\ persisted = {} /\ answers = <<>>

NextStep == LoopOnly \/ DispatchStep \/ DispatchEnvironment \/ LoopEvents \/ ResumeTurn

Spec == StartRun /\ [][NextStep]_allVars

(***************************************************************************)
(* Fairness.  As in a default run; here every tool has a timeout of its    *)
(* own (trace_tool_execution), so that each of them comes to an end.       *)
(***************************************************************************)
FairSpec == Spec /\ WF_allVars(LoopOnly \/ DispatchStep)

-----------------------------------------------------------------------------
Publishing == {"persisting", "written", "announced"}
Stage3 == {"flushing"} \cup Publishing

\* The batch is a list of positions of the response; results come in its order,
\* and stage 3 works on complete results only.
BatchTypeOK ==
    /\ phase \in Phase \cup DispatchPhase
    /\ iteration \in 0 .. MaxIterations
    /\ queue \in Seq(Call)
    /\ \A n \in DOMAIN batch : batch[n] \in DOMAIN queue
    /\ Len(results) <= Len(batch) /\ ToSet(results) \subseteq Outcome
    /\ flushed \in 0 .. Len(results)
    /\ request \in {None, "ask_user", "return_unable"}
    /\ minted \cup announced \cup persisted \subseteq Deliverables
    /\ phase = "running" => Len(results) < Len(batch)
    /\ phase \in Stage3 => Len(results) = Len(batch)
    /\ phase \in Publishing => flushed < Len(batch) /\ ToPersist

EndsWithQuestion == phase = "ended" /\ Last(emitted) = "UserInputRequested"

\* Whatever is refused, run, cancelled or cut short, the loop goes on with one
\* tool message for each call of its last batch, never with two, and so does a
\* suspended run ("keeps one tool output per tool call id", CANCELLED_TOOL_TEXT).
EachCallAnsweredOnce ==
    /\ \A n \in DOMAIN answers : answers[n] <= 1
    /\ phase \in {"top", "streaming", "answered", "backoff"} \/ EndsWithQuestion
         => \A n \in DOMAIN answers : answers[n] = 1

\* Write, event and mint are three steps with the host, the kernel and a
\* cancellation between them.  What the host reads back and what the next request
\* lists is on disk, and both hear of the same deliverables: one that failed, that
\* was cut off or that was written unheard of is known to neither (dispatch_tools).
DeliverablesAreReusable ==
    /\ announced \cup minted \subseteq persisted
    /\ phase # "announced" => minted = announced

==============================================================================
