------------------------------- MODULE RunLoop -------------------------------
(***************************************************************************)
(* One turn after another of an agent run, without the dispatch of tools:  *)
(* run_loop and resume_run (agent/loop.py), the detectors pre_step and     *)
(* post_llm (agent/failure/detectors.py), the recovery funnel              *)
(* handle_failure (agent/failure/recovery.py), the stream of call_llm as   *)
(* the loop sees it (agent/llm.py), and the state a suspension saves and a *)
(* resumption restores (agent/state.py).                                   *)
(*                                                                         *)
(* The module declares actions, no specification: the tools of a batch are *)
(* run by _execute_tool_calls, or by the workspace's dispatch_tools hook.  *)
(* DefaultRun completes this module with the first of them, WorkspaceRun   *)
(* with the second.                                                        *)
(*                                                                         *)
(* An action runs from one await (or from one yield at which the host may  *)
(* take its time) to the next.  Three things happen at any of these points *)
(* without the loop's doing: time passes, the host sets the cancellation   *)
(* flag, the asyncio task of the run is cancelled.                         *)
(***************************************************************************)
EXTENDS FailurePolicy, FiniteSets

CONSTANTS
    MaxIterations,      \* guardrails.max_iterations
    TimeLimit,          \* guardrails.max_execution_time_s, in ticks
    Grace,              \* _TIME_LIMIT_FINALIZE_GRACE_S, in ticks
    StallThreshold,     \* guardrails.stall_threshold_s, in ticks
    LoopHardThreshold,  \* guardrails.loop_hard_threshold
    MaxBatch,           \* the most tool calls of one response
    WorkCalls,          \* signatures of ordinary calls the model may repeat
    OneOffCalls,        \* ordinary calls whose signature never comes back
    Batches,            \* the tool-call lists a response may carry
    HookRegistered,     \* whether the host passes a CancellationRequest
    MaxResumes          \* bound on the resumptions of one run

ControlCalls == {"return_done", "return_unable", "ask_user"}

\* A call is its signature.  "unknown" names no tool of the agent.
Call == WorkCalls \cup OneOffCalls \cup ControlCalls \cup {"unknown"}

\* The signatures whose repetitions matter.  An unknown tool is never counted;
\* a signature that never comes back needs no counter.
Counted == WorkCalls \cup ControlCalls

ASSUME BoundsAssumption ==
    /\ MaxIterations \in Nat \ {0}
    /\ TimeLimit \in Nat
    /\ Grace \in Nat
    /\ StallThreshold \in Nat
    /\ LoopHardThreshold \in Nat /\ LoopHardThreshold >= 2
    /\ MaxBatch \in Nat
    /\ MaxResumes \in Nat
    /\ HookRegistered \in BOOLEAN

ASSUME CallsAssumption ==
    /\ Counted \cap (OneOffCalls \cup {"unknown"}) = {}
    /\ Batches \subseteq Seq(Call)
    /\ \A b \in Batches : Len(b) <= MaxBatch

VARIABLES
    phase,       \* where run_loop stands
    iteration,   \* state.iteration
    elapsed,     \* state.elapsed_seconds(), saturating at TimeLimit + Grace
    silence,     \* now - state.last_event_time_s, saturating at StallThreshold + 1
    attempts,    \* state.failure_attempts
    lessons,     \* the kinds of state.lessons_learned
    pending,     \* the kind whose text is state.pending_instruction
    repeats,     \* state.last_repeat_counts
    dangling,    \* state.messages has a tool call without a tool message
    done,        \* state.done
    cancelSet,   \* cancellation.is_set()
    finish,      \* finish_reason of the response in hand
    queue,       \* its tool calls that are not answered yet
    record,      \* the SuspensionRecord the host holds
    emitted,     \* closing events of this turn, in the order the host got them
    resumes,     \* how often the run was resumed
    \* Auxiliary: no guard of the program reads the next two.
    llmCalls,    \* LLM requests since the iteration budget was last granted
    recoveries   \* per kind, the failures answered by going on

vars == <<phase, iteration, elapsed, silence, attempts, lessons, pending,
          repeats, dangling, done, cancelSet, finish, queue, record, emitted,
          resumes, llmCalls, recoveries>>

failureVars == <<attempts, lessons, pending, record, emitted, done, recoveries>>
answerVars == <<finish, queue>>
clockVars == <<elapsed, silence>>

None == "none"
NoRecord == [origin |-> "no record"]

Phase == {"top", "streaming", "answered", "tools", "running", "backoff",
          "toolBackoff", "ended", "raised"}
Stopped == {"ended", "raised"}
Finish == {None, "stop", "length", "refused"}
ClosingEvent == {"ReturnDone", "UserInputRequested", "Handoff",
                 "PartialRunSummary", "RunCancelled"}

Ceiling == TimeLimit + Grace

-----------------------------------------------------------------------------
(***************************************************************************)
(* The recovery funnel.                                                    *)
(***************************************************************************)

\* What a SuspensionRecord keeps of the run, and where it comes from: the
\* failure kind the funnel asked about, or None for an ask_user call.
Snapshot(origin, i, counts, learned, open) ==
    [origin |-> origin, iteration |-> i, elapsed |-> elapsed,
     attempts |-> counts, lessons |-> learned, repeats |-> repeats,
     dangling |-> open, llmCalls |-> llmCalls, recoveries |-> recoveries]

\* Mutant: a handoff is not announced.
ClosingSilently(action) ==
    CASE action = "ask_user" -> <<"UserInputRequested">>
      [] action = "stop"     -> <<"PartialRunSummary">>
      [] OTHER               -> <<>>

Closing(action) ==
    CASE action = "ask_user" -> <<"UserInputRequested">>
      [] action = "handoff"  -> <<"Handoff">>
      [] action = "stop"     -> <<"PartialRunSummary">>
      [] OTHER               -> <<>>

\* handle_failure(f): decide on the attempts so far, count this one, learn the
\* lesson, then act.  A suspension record saves the iteration counter i and
\* whether the transcript lacks a tool message, as they are at this moment.
HandleFailure(f, i, open) ==
    LET k == f.kind
        action == Decide(f, attempts[k])
        counts == [attempts EXCEPT ![k] = @ + 1]
        learned == TrackLesson(lessons, k)
    IN /\ attempts' = counts
       /\ lessons' = learned
       /\ pending' = IF action = "narrow_scope" THEN k ELSE pending
       /\ recoveries' = IF action \in Continuing
                        THEN [recoveries EXCEPT ![k] = @ + 1] ELSE recoveries
       /\ record' = IF action = "ask_user"
                    THEN Snapshot(k, i, counts, learned, open) ELSE record
       /\ emitted' = emitted \o Closing(action)
       /\ done' = (done \/ action \notin Continuing)

\* handle_failure awaits policy.backoff before a retry.
BacksOff(f) == Sleeps(f.kind) /\ Decide(f, attempts[f.kind]) = "retry"

\* An event the loop yields and then leaves by `break`, with done set.
CloseWith(event) ==
    /\ emitted' = Append(emitted, event)
    /\ done' = TRUE
    /\ phase' = "ended"

-----------------------------------------------------------------------------
(***************************************************************************)
(* The top of the loop.                                                    *)
(***************************************************************************)

\* pre_step, on the iteration counter after its increment.
TimeLimitHits ==
    /\ elapsed >= TimeLimit
    /\ attempts["time_limit"] = 0 \/ elapsed >= Ceiling

\* Mutant: the iteration limit is noticed one iteration late.
PreStepLate(i) ==
    CASE i > MaxIterations      -> "iteration_limit"
      [] i <= MaxIterations /\ TimeLimitHits -> "time_limit"
      [] i <= MaxIterations /\ ~TimeLimitHits /\ silence > StallThreshold -> "no_progress"
      [] OTHER                  -> None

PreStep(i) ==
    CASE i >= MaxIterations       -> "iteration_limit"
      [] i < MaxIterations /\ TimeLimitHits -> "time_limit"
      [] i < MaxIterations /\ ~TimeLimitHits /\ silence > StallThreshold -> "no_progress"
      [] OTHER                    -> None

\* cancellation.is_set(), as run_loop asks.  Mutant: it does not ask.
CancelIgnored == FALSE

CancelSeen == cancelSet

\* Mutant: a cancelled turn is not left although it is done.
LoopExitUnlessCancelled ==
    /\ phase = "top" /\ done /\ ~cancelSet
    /\ phase' = "ended"
    /\ UNCHANGED <<iteration, clockVars, failureVars, repeats, dangling,
                   cancelSet, answerVars, resumes, llmCalls>>

LoopExit ==
    /\ phase = "top" /\ done
    /\ phase' = "ended"
    /\ UNCHANGED <<iteration, clockVars, failureVars, repeats, dangling,
                   cancelSet, answerVars, resumes, llmCalls>>

\* The cancellation pre-check of an iteration.
CancelledAtTop ==
    /\ phase = "top" /\ ~done /\ CancelSeen
    /\ iteration' = iteration + 1
    /\ CloseWith("RunCancelled")
    /\ UNCHANGED <<clockVars, attempts, lessons, pending, record,
                   recoveries, repeats, dangling, cancelSet, answerVars,
                   resumes, llmCalls>>

\* pre_step reports a failure; the loop handles it and starts over.
LimitHit ==
    /\ phase = "top" /\ ~done /\ ~CancelSeen
    /\ PreStep(iteration + 1) # None
    /\ iteration' = iteration + 1
    /\ HandleFailure(FailureOf(PreStep(iteration + 1)), iteration + 1, dangling)
    /\ UNCHANGED <<phase, clockVars, repeats, dangling, cancelSet, answerVars,
                   resumes, llmCalls>>

\* Render the messages, the pending instruction among them, and call the model.
CallLlm ==
    /\ phase = "top" /\ ~done /\ ~CancelSeen
    /\ PreStep(iteration + 1) = None
    /\ iteration' = iteration + 1
    /\ phase' = "streaming"
    /\ llmCalls' = llmCalls + 1
    /\ UNCHANGED <<clockVars, attempts, lessons, pending, record, emitted, done,
                   recoveries, repeats, dangling, cancelSet, answerVars, resumes>>

-----------------------------------------------------------------------------
(***************************************************************************)
(* The LLM call.                                                           *)
(***************************************************************************)

\* call_llm yields a delta; the loop notes the time.
LlmSignal ==
    /\ phase = "streaming"
    /\ silence' = 0
    /\ UNCHANGED <<phase, iteration, elapsed, failureVars, repeats, dangling,
                   cancelSet, answerVars, resumes, llmCalls>>

\* The stream ends with LLMComplete.
LlmCompletes ==
    /\ phase = "streaming"
    /\ finish' \in Finish \ {None}
    /\ queue' \in Batches
    /\ silence' = 0
    /\ phase' = "answered"
    /\ UNCHANGED <<iteration, elapsed, failureVars, repeats, dangling, cancelSet,
                   resumes, llmCalls>>

\* call_llm raises FailureRaised: an error of the provider or a missed
\* heartbeat, classified into one of two kinds.  A provider failure may be
\* slept off first (BackoffEnds).
LlmFails ==
    /\ phase = "streaming"
    /\ \E k \in {"transient_provider", "capability_gap"} :
         /\ phase' = IF BacksOff(FailureOf(k)) THEN "backoff" ELSE "top"
         /\ HandleFailure(FailureOf(k), iteration, dangling)
    /\ UNCHANGED <<iteration, clockVars, repeats, dangling, cancelSet, answerVars,
                   resumes, llmCalls>>

BackoffEnds ==
    /\ phase = "backoff"
    /\ phase' = "top"
    /\ UNCHANGED <<iteration, clockVars, failureVars, repeats, dangling,
                   cancelSet, answerVars, resumes, llmCalls>>

\* call_llm sees the flag before the request or between two chunks.
LlmCancelled ==
    /\ phase = "streaming" /\ cancelSet
    /\ CloseWith("RunCancelled")
    /\ UNCHANGED <<iteration, clockVars, attempts, lessons, pending, record,
                   recoveries, repeats, dangling, cancelSet, answerVars,
                   resumes, llmCalls>>

-----------------------------------------------------------------------------
(***************************************************************************)
(* The response.                                                           *)
(***************************************************************************)

\* Mutant: the call at hand is not projected.
ProjectedWithoutThis(c) == IF c \in Counted THEN repeats[c] ELSE 0

Projected(c) == IF c \in Counted THEN repeats[c] + 1 ELSE 1

WouldLoop(calls) ==
    \E n \in DOMAIN calls : Projected(calls[n]) >= LoopHardThreshold

\* post_llm, on the response in hand.
PostLlm ==
    CASE finish = "length"  -> "output_truncated"
      [] finish = "refused" -> "output_refused"
      [] finish = "stop" /\ WouldLoop(queue) -> "loop_detected"
      [] OTHER              -> None

\* The flag was set between the end of the stream and now: no message is kept.
CancelledAfterStream ==
    /\ phase = "answered" /\ CancelSeen
    /\ CloseWith("RunCancelled")
    /\ finish' = None /\ queue' = <<>>
    /\ UNCHANGED <<iteration, clockVars, attempts, lessons, pending, record,
                   recoveries, repeats, dangling, cancelSet, resumes,
                   llmCalls>>

\* The message is appended, then the failure handled: the calls of the message
\* are never run and never answered.
ResponseRejected ==
    /\ phase = "answered" /\ ~CancelSeen
    /\ PostLlm # None
    /\ dangling' = (dangling \/ queue # <<>>)
    /\ HandleFailure(FailureOf(PostLlm), iteration, dangling \/ queue # <<>>)
    /\ finish' = None /\ queue' = <<>>
    /\ phase' = "top"
    /\ UNCHANGED <<iteration, clockVars, repeats, cancelSet, resumes, llmCalls>>

\* A response without tool calls is a failure of its own.
TextOnly ==
    /\ phase = "answered" /\ ~CancelSeen
    /\ PostLlm = None /\ queue = <<>>
    /\ HandleFailure(FailureOf("no_progress"), iteration, dangling)
    /\ finish' = None
    /\ phase' = "top"
    /\ UNCHANGED <<iteration, clockVars, repeats, dangling, cancelSet, queue,
                   resumes, llmCalls>>

StartTools ==
    /\ phase = "answered" /\ ~CancelSeen
    /\ PostLlm = None /\ queue # <<>>
    /\ finish' = None
    /\ phase' = "tools"
    /\ UNCHANGED <<iteration, clockVars, failureVars, repeats, dangling,
                   cancelSet, queue, resumes, llmCalls>>

-----------------------------------------------------------------------------
(***************************************************************************)
(* What happens to the loop.                                               *)
(***************************************************************************)

Tick ==
    /\ phase \notin Stopped
    /\ elapsed' = IF elapsed < Ceiling THEN elapsed + 1 ELSE elapsed
    /\ silence' = IF silence <= StallThreshold THEN silence + 1 ELSE silence
    /\ UNCHANGED <<phase, iteration, failureVars, repeats, dangling, cancelSet,
                   answerVars, resumes, llmCalls>>

\* The host sets the cancellation flag.
Cancel ==
    /\ HookRegistered /\ phase \notin Stopped
    /\ cancelSet' = TRUE
    /\ UNCHANGED <<phase, iteration, clockVars, failureVars, repeats, dangling,
                   answerVars, resumes, llmCalls>>

\* The asyncio task is cancelled while the loop awaits the LLM.
TaskCancelledInLlm ==
    /\ phase = "streaming"
    /\ CloseWith("RunCancelled")
    /\ UNCHANGED <<iteration, clockVars, attempts, lessons, pending, record,
                   recoveries, repeats, dangling, cancelSet, answerVars,
                   resumes, llmCalls>>

\* The task is cancelled while handle_failure sleeps outside the dispatch of
\* tools, where nothing catches CancelledError.
TaskCancelledInBackoff ==
    /\ phase = "backoff"
    /\ phase' = "raised"
    /\ UNCHANGED <<iteration, clockVars, failureVars, repeats, dangling,
                   cancelSet, answerVars, resumes, llmCalls>>

\* Which of the saved counters a resumption gives back.  Mutants: every
\* suspension renews the iteration budget; no suspension keeps the strikes.
IterationRenewed == 0

RestoredIteration == IF record.origin = "iteration_limit" THEN 0 ELSE record.iteration

StrikesForgotten == [k \in FailureKind |-> 0]

RestoredAttempts == record.attempts

\* resume_run with the record the host holds: RunState.from_suspension gives
\* back the budget the user was asked about, and no other.  The record stays
\* with the host, which may use it again.
Resume ==
    /\ phase \in Stopped /\ record # NoRecord
    /\ resumes < MaxResumes
    /\ resumes' = resumes + 1
    /\ iteration' = RestoredIteration
    /\ llmCalls' = IF record.origin = "iteration_limit" THEN 0 ELSE record.llmCalls
    /\ elapsed' = IF record.origin = "time_limit" THEN 0 ELSE record.elapsed
    /\ silence' = 0
    /\ attempts' = RestoredAttempts
    /\ lessons' = record.lessons
    /\ repeats' = record.repeats
    /\ dangling' = record.dangling
    /\ recoveries' = record.recoveries
    /\ pending' = None
    /\ done' = FALSE
    /\ cancelSet' = FALSE
    /\ emitted' = <<>>
    /\ finish' = None /\ queue' = <<>>
    /\ phase' = "top"
    /\ UNCHANGED record

-----------------------------------------------------------------------------
Zero == [k \in FailureKind |-> 0]

Init ==
    /\ phase = "top"
    /\ iteration = 0 /\ elapsed = 0 /\ silence = 0
    /\ attempts = Zero /\ lessons = <<>> /\ pending = None
    /\ repeats = [c \in Counted |-> 0]
    /\ dangling = FALSE /\ done = FALSE /\ cancelSet = FALSE
    /\ finish = None /\ queue = <<>>
    /\ record = NoRecord /\ emitted = <<>> /\ resumes = 0
    /\ llmCalls = 0 /\ recoveries = Zero

\* The steps of the loop that bring a turn forward, before its tools.
LoopStep ==
    \/ LoopExit \/ CancelledAtTop \/ LimitHit \/ CallLlm
    \/ LlmCompletes \/ LlmFails \/ LlmCancelled \/ BackoffEnds
    \/ CancelledAfterStream \/ ResponseRejected \/ TextOnly \/ StartTools

\* Everything else that may happen before the tools: another delta, and what
\* the host and the clock do.
LoopEnvironment ==
    \/ LlmSignal \/ Tick \/ Cancel
    \/ TaskCancelledInLlm \/ TaskCancelledInBackoff
    \/ Resume

-----------------------------------------------------------------------------
(***************************************************************************)
(* What the host sees of the run, whichever way its tools are dispatched.  *)
(***************************************************************************)

HostStatus ==
    CASE phase = "ended"  -> "stopped"
      [] phase = "raised" -> "raised"
      [] OTHER            -> "running"

HostOffer ==
    CASE record = NoRecord -> {}
      [] record # NoRecord /\ record.origin = "iteration_limit" -> {MaxIterations - 1}
      [] OTHER -> {MaxIterations - 1 - record.llmCalls}

Promise == INSTANCE BudgetedRun WITH
    Budget <- MaxIterations - 1,
    status <- HostStatus,
    closed <- emitted # <<>>,
    cancelled <- cancelSet,
    credit <- MaxIterations - 1 - llmCalls,
    offer <- HostOffer

\* The run implements its abstract specification, liveness included: what the
\* host is promised of requests, closing events, cancellation and resumption
\* (run_loop and resume_run).
KeepsPromise == Promise!FairSpec

==============================================================================
