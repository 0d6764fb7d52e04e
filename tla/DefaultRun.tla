----------------------------- MODULE DefaultRun ------------------------------
(***************************************************************************)
(* A run whose agent has no dispatch_tools hook: RunLoop with the tools of *)
(* a batch executed one after the other by _execute_tool_calls             *)
(* (agent/loop.py), which routes their failures through the recovery       *)
(* funnel (post_tool in agent/failure/detectors.py).                       *)
(***************************************************************************)
EXTENDS RunLoop

CONSTANT ToolFailures   \* the failures a tool's result may carry

ASSUME ToolFailuresAssumption == ToolFailures \subseteq Failure

\* record_tool_call.
Counting(c) == IF c \in Counted THEN [repeats EXCEPT ![c] = @ + 1] ELSE repeats

\* The call at the head of the queue got its tool message and its event.
Answered ==
    /\ queue' = Tail(queue)
    /\ silence' = 0
    /\ phase' = "tools"

\* A name that is no tool of the agent: not counted, not invoked.
UnknownTool ==
    /\ phase = "tools" /\ queue # <<>> /\ Head(queue) = "unknown"
    /\ HandleFailure(FailureOf("tool_error"), iteration, TRUE)
    /\ Answered
    /\ UNCHANGED <<iteration, elapsed, repeats, dangling, cancelSet, finish,
                   resumes, llmCalls>>

\* Count the call, then invoke the tool.
InvokeTool ==
    /\ phase = "tools" /\ queue # <<>> /\ Head(queue) # "unknown"
    /\ repeats' = Counting(Head(queue))
    /\ phase' = "running"
    /\ UNCHANGED <<iteration, clockVars, failureVars, dangling, cancelSet,
                   answerVars, resumes, llmCalls>>

\* return_done asks the loop to stop; the rest of its batch still runs.
ToolSucceeds ==
    /\ phase = "running" /\ Head(queue) \notin {"return_unable", "ask_user"}
    /\ Answered
    /\ done' = (done \/ Head(queue) = "return_done")
    /\ emitted' = IF Head(queue) = "return_done"
                  THEN Append(emitted, "ReturnDone") ELSE emitted
    /\ UNCHANGED <<iteration, elapsed, attempts, lessons, pending, record,
                   recoveries, repeats, dangling, cancelSet, finish,
                   resumes, llmCalls>>

\* A tool raised, or returned a failure of its own: post_tool hands it to the
\* funnel.  The control tools fail only by refusing their arguments.
ToolFails ==
    /\ phase = "running"
    /\ \E f \in ToolFailures :
         /\ Head(queue) \in ControlCalls => f = FailureOf("tool_error")
         /\ HandleFailure(f, iteration, TRUE)
         /\ IF BacksOff(f)
            THEN phase' = "toolBackoff" /\ UNCHANGED <<queue, silence>>
            ELSE Answered
    /\ UNCHANGED <<iteration, elapsed, repeats, dangling, cancelSet, finish,
                   resumes, llmCalls>>

ToolBackoffEnds ==
    /\ phase = "toolBackoff"
    /\ Answered
    /\ UNCHANGED <<iteration, elapsed, failureVars, repeats, dangling, cancelSet,
                   finish, resumes, llmCalls>>

\* A control tool raised: the loop closes the turn and drops what is left of
\* the batch, the call that raised included.
LeaveBatch(event) ==
    /\ CloseWith(event)
    /\ queue' = <<>>
    /\ dangling' = TRUE

\* SuspensionRequest.
AskUser ==
    /\ phase = "running" /\ Head(queue) = "ask_user"
    /\ LeaveBatch("UserInputRequested")
    /\ record' = Snapshot(None, iteration, attempts, lessons, TRUE)
    /\ UNCHANGED <<iteration, clockVars, attempts, lessons, pending,
                   recoveries, repeats, cancelSet, finish, resumes, llmCalls>>

\* TerminationRequest.
ReturnUnable ==
    /\ phase = "running" /\ Head(queue) = "return_unable"
    /\ LeaveBatch("Handoff")
    /\ UNCHANGED <<iteration, clockVars, attempts, lessons, pending, record,
                   recoveries, repeats, cancelSet, finish, resumes,
                   llmCalls>>

\* The task is cancelled while a tool runs or a tool's failure is slept off.
TaskCancelledInTools ==
    /\ phase \in {"running", "toolBackoff"}
    /\ LeaveBatch("RunCancelled")
    /\ UNCHANGED <<iteration, clockVars, attempts, lessons, pending, record,
                   recoveries, repeats, cancelSet, finish, resumes,
                   llmCalls>>

BatchEnds ==
    /\ phase = "tools" /\ queue = <<>>
    /\ phase' = "top"
    /\ UNCHANGED <<iteration, clockVars, failureVars, repeats, dangling,
                   cancelSet, answerVars, resumes, llmCalls>>

ToolStep ==
    \/ UnknownTool \/ InvokeTool \/ ToolSucceeds \/ ToolFails \/ ToolBackoffEnds
    \/ AskUser \/ ReturnUnable \/ BatchEnds

Next == LoopStep \/ ToolStep \/ TaskCancelledInTools \/ LoopEnvironment

Spec == Init /\ [][Next]_vars

(***************************************************************************)
(* Fairness.  The loop goes on as long as it can, every LLM call ends (a   *)
(* request timeout, a heartbeat between chunks and a finite output see to  *)
(* that), every sleep ends and every tool returns.  No fairness is assumed *)
(* of a delta, the clock, the host or a cancelled task.                    *)
(***************************************************************************)
FairSpec == Spec /\ WF_vars(LoopStep \/ ToolStep)

-----------------------------------------------------------------------------
(***************************************************************************)
(* Types.                                                                  *)
(***************************************************************************)

Saved ==
    [origin : FailureKind \cup {None}, iteration : 0 .. MaxIterations,
     elapsed : 0 .. Ceiling, attempts : [FailureKind -> Nat],
     lessons : Seq(FailureKind), repeats : [Counted -> Nat],
     dangling : BOOLEAN, llmCalls : Nat,
     recoveries : [FailureKind -> Nat]]

\* Every variable stays in its range; a tool is invoked only while calls are
\* queued; the iteration counter never passes its limit.
TypeOK ==
    /\ phase \in Phase
    /\ iteration \in 0 .. MaxIterations
    /\ elapsed \in 0 .. Ceiling /\ silence \in 0 .. StallThreshold + 1
    /\ attempts \in [FailureKind -> Nat] /\ lessons \in Seq(FailureKind)
    /\ pending \in FailureKind \cup {None}
    /\ repeats \in [Counted -> Nat]
    /\ dangling \in BOOLEAN /\ done \in BOOLEAN /\ cancelSet \in BOOLEAN
    /\ finish \in Finish /\ queue \in Seq(Call)
    /\ record \in Saved \cup {NoRecord}
    /\ emitted \in Seq(ClosingEvent) /\ resumes \in Nat
    /\ llmCalls \in Nat
    /\ recoveries \in [FailureKind -> Nat]
    /\ phase \in {"running", "toolBackoff"} => queue # <<>>

-----------------------------------------------------------------------------
(***************************************************************************)
(* What a run keeps.                                                       *)
(***************************************************************************)

\* However failures of different kinds follow each other, inside a batch, over
\* iterations and over suspensions, a kind is answered by going on at most as
\* often as its budget says: RETRY_BUDGETS for a retry, one strike for a
\* narrowed scope (DefaultPolicy.decide, RunState.from_suspension).
RecoveriesWithinBudget == \A k \in FailureKind : recoveries[k] <= RecoveryCap(k)

\* A budget of N iterations pays for less than N requests to the model, and a
\* suspension for any other reason than that budget gives none of them back
\* (pre_step, RunState.from_suspension).
LlmCallsWithinBudget == llmCalls < MaxIterations

\* post_llm looks at each call of a response on its own and the batch is
\* counted later: a signature stays below the hard threshold but for the calls
\* of one batch (post_llm, record_tool_call).
RepeatsNearThreshold ==
    \A c \in Counted : repeats[c] <= LoopHardThreshold - 2 + MaxBatch

\* A turn that has stopped told the host why (every exit of run_loop).
NoSilentEnd == phase = "ended" => emitted # <<>>

\* A turn that told the host it is over makes no further request to the model
\* (state.done in handle_failure and in _execute_tool_calls).
NoLlmCallAfterClosing ==
    [][phase' = "streaming" /\ phase # "streaming" => emitted = <<>>]_vars

\* What the model is told of past failures is what happened: a lesson for the
\* latest LessonsCap kinds that failed, none twice, over suspensions as well
\* (_track_lesson, SuspensionRecord.lessons_learned).
LessonsMatchAttempts ==
    LET failed == {k \in FailureKind : attempts[k] > 0}
    IN /\ \A i, j \in DOMAIN lessons : lessons[i] = lessons[j] => i = j
       /\ \A i \in DOMAIN lessons : lessons[i] \in failed
       /\ Cardinality(failed) <= LessonsCap => Len(lessons) = Cardinality(failed)

\* Every turn ends (max_iterations bounds the iterations of run_loop).
TurnEnds == (phase \notin Stopped) ~> (phase \in Stopped)

==============================================================================
