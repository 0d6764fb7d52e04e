--------------------------- MODULE DefaultRunProofs --------------------------
(***************************************************************************)
(* Theorems about DefaultRun, for every value of its constants.            *)
(***************************************************************************)
EXTENDS DefaultRun, SequenceTheorems, FiniteSetTheorems, TLAPS

-----------------------------------------------------------------------------
(***************************************************************************)
(* The policy.                                                             *)
(***************************************************************************)

\* A classified failure has a kind and an action of the closed sets.
LEMMA FailureOfType ==
    ASSUME NEW k \in FailureKind
    PROVE  FailureOf(k) \in Failure /\ FailureOf(k).kind = k
  BY DEF FailureOf, Failure, DefaultAction, FailureKind, Action

\* The policy decides for one of the actions.
LEMMA DecideType ==
    ASSUME NEW f \in Failure, NEW prior \in Nat
    PROVE  Decide(f, prior) \in Action
  BY DEF Decide, Failure, Action

\* It goes on only while the kind's attempts are below the cap.
LEMMA DecideContinues ==
    ASSUME NEW f \in Failure, NEW prior \in Nat,
           Decide(f, prior) \in Continuing
    PROVE  prior < RecoveryCap(f.kind)
  <1>1. f.kind \in FailureKind /\ f.suggested \in Action
    BY DEF Failure
  <1>2. RetryBudget[f.kind] \in Nat
    BY <1>1 DEF RetryBudget
  <1>3. CASE f.suggested = "retry"
    BY <1>2, <1>3 DEF Decide, Continuing, RecoveryCap
  <1>4. CASE f.suggested = "narrow_scope"
    BY <1>2, <1>4 DEF Decide, Continuing, RecoveryCap
  <1>5. CASE f.suggested \notin Continuing
    BY <1>5 DEF Decide, Continuing
  <1> QED BY <1>3, <1>4, <1>5 DEF Continuing

\* The lessons stay a list of kinds.
LEMMA LessonsType ==
    ASSUME NEW s \in Seq(FailureKind), NEW k \in FailureKind
    PROVE  TrackLesson(s, k) \in Seq(FailureKind)
  <1>1. Without(s, k) \in Seq(FailureKind)
    <2>1. CASE \E i \in DOMAIN s : s[i] = k
      <3> DEFINE n == CHOOSE i \in DOMAIN s : s[i] = k
      <3>1. n \in 1 .. Len(s)
        BY <2>1
      <3> HIDE DEF n
      <3>2. SubSeq(s, 1, n - 1) \in Seq(FailureKind)
        BY <3>1, SubSeqProperties
      <3>3. SubSeq(s, n + 1, Len(s)) \in Seq(FailureKind)
        BY <3>1, SubSeqProperties
      <3>4. SubSeq(s, 1, n - 1) \o SubSeq(s, n + 1, Len(s)) \in Seq(FailureKind)
        BY <3>2, <3>3
      <3> QED BY <2>1, <3>4 DEF Without, n
    <2>2. CASE ~ \E i \in DOMAIN s : s[i] = k
      BY <2>2 DEF Without
    <2> QED BY <2>1, <2>2
  <1> DEFINE t == Append(Without(s, k), k)
  <1>2. t \in Seq(FailureKind)
    BY <1>1
  <1> HIDE DEF t
  <1>3. LastAtMost(t, LessonsCap) \in Seq(FailureKind)
    BY <1>2, LessonsCapAssumption DEF LastAtMost
  <1> QED BY <1>3 DEF TrackLesson, t

-----------------------------------------------------------------------------
(***************************************************************************)
(* Types.  An iteration that runs has a number below MaxIterations: this   *)
(* is what keeps the counter in its range, and a suspension must save it.  *)
(***************************************************************************)

Iterating == phase \notin Stopped /\ (phase = "top" => ~done)

IterationsLeft == Iterating => iteration < MaxIterations

RecordIterationsLeft ==
    record # NoRecord /\ record.origin # "iteration_limit"
      => record.iteration < MaxIterations

TypeInv == TypeOK /\ IterationsLeft /\ RecordIterationsLeft

FailureVarsOK ==
    /\ attempts \in [FailureKind -> Nat] /\ lessons \in Seq(FailureKind)
    /\ pending \in FailureKind \cup {None}
    /\ record \in Saved \cup {NoRecord}
    /\ emitted \in Seq(ClosingEvent) /\ done \in BOOLEAN
    /\ recoveries \in [FailureKind -> Nat]

\* A record built from the state is a record.
LEMMA SnapshotType ==
    ASSUME TypeOK, NEW origin \in FailureKind \cup {None},
           NEW i \in 0 .. MaxIterations, NEW counts \in [FailureKind -> Nat],
           NEW learned \in Seq(FailureKind), NEW open \in BOOLEAN
    PROVE  Snapshot(origin, i, counts, learned, open) \in Saved
  BY DEF TypeOK, Snapshot, Saved

\* A list of one element.
LEMMA SingletonType ==
    ASSUME NEW S, NEW x \in S
    PROVE  <<x>> \in Seq(S) /\ <<x>> # <<>>
  <1>1. Len(<<x>>) = 1 /\ Len(<<>>) = 0
    OBVIOUS
  <1>2. <<x>> \in Seq(S)
    OBVIOUS
  <1> QED BY <1>1, <1>2

\* A closing event is told by a list of at most one event, of none only when
\* the loop goes on.
LEMMA ClosingType ==
    ASSUME NEW action \in Action
    PROVE  /\ Closing(action) \in Seq(ClosingEvent)
           /\ Closing(action) = <<>> <=> action \in Continuing
  <1>1. CASE action = "ask_user"
    <2>1. Closing(action) = <<"UserInputRequested">>
      BY <1>1 DEF Closing
    <2>2. Closing(action) \in Seq(ClosingEvent) /\ Closing(action) # <<>>
      BY <2>1, SingletonType DEF ClosingEvent
    <2>3. action \notin Continuing
      BY <1>1 DEF Continuing
    <2> QED BY <2>2, <2>3
  <1>2. CASE action = "handoff"
    <2>1. Closing(action) = <<"Handoff">>
      BY <1>2 DEF Closing
    <2>2. Closing(action) \in Seq(ClosingEvent) /\ Closing(action) # <<>>
      BY <2>1, SingletonType DEF ClosingEvent
    <2>3. action \notin Continuing
      BY <1>2 DEF Continuing
    <2> QED BY <2>2, <2>3
  <1>3. CASE action = "stop"
    <2>1. Closing(action) = <<"PartialRunSummary">>
      BY <1>3 DEF Closing
    <2>2. Closing(action) \in Seq(ClosingEvent) /\ Closing(action) # <<>>
      BY <2>1, SingletonType DEF ClosingEvent
    <2>3. action \notin Continuing
      BY <1>3 DEF Continuing
    <2> QED BY <2>2, <2>3
  <1>4. CASE action \in Continuing
    <2>1. Closing(action) = <<>>
      BY <1>4 DEF Closing, Continuing
    <2> QED BY <1>4, <2>1
  <1> QED BY <1>1, <1>2, <1>3, <1>4 DEF Action, Continuing

\* The funnel keeps its variables typed, and a record it builds leaves
\* iterations unless it asks about the iteration limit.
LEMMA HandleFailureType ==
    ASSUME TypeOK, RecordIterationsLeft,
           NEW f \in Failure, NEW i \in 0 .. MaxIterations, NEW open \in BOOLEAN,
           i < MaxIterations \/ f.kind = "iteration_limit",
           HandleFailure(f, i, open)
    PROVE  FailureVarsOK' /\ RecordIterationsLeft'
  <1> DEFINE k == f.kind
             action == Decide(f, attempts[k])
             counts == [attempts EXCEPT ![k] = @ + 1]
             learned == TrackLesson(lessons, k)
  <1>1. k \in FailureKind
    BY DEF Failure
  <1>2. attempts[k] \in Nat /\ counts \in [FailureKind -> Nat]
    BY <1>1 DEF TypeOK
  <1>3. action \in Action
    BY <1>2, DecideType
  <1>4. learned \in Seq(FailureKind)
    BY <1>1, LessonsType DEF TypeOK
  <1>5. Snapshot(k, i, counts, learned, open) \in Saved
    BY <1>1, <1>2, <1>4, SnapshotType
  <1>6. Closing(action) \in Seq(ClosingEvent)
    BY <1>3, ClosingType
  <1>7. /\ attempts' = counts /\ lessons' = learned
        /\ pending' = IF action = "narrow_scope" THEN k ELSE pending
        /\ recoveries' = IF action \in Continuing
                         THEN [recoveries EXCEPT ![k] = @ + 1] ELSE recoveries
        /\ record' = IF action = "ask_user"
                     THEN Snapshot(k, i, counts, learned, open) ELSE record
        /\ emitted' = emitted \o Closing(action)
        /\ done' = (done \/ action \notin Continuing)
    BY DEF HandleFailure
  <1>8. RecordIterationsLeft'
    <2>1. CASE action = "ask_user"
      BY <1>7, <2>1 DEF RecordIterationsLeft, Snapshot, NoRecord
    <2>2. CASE action # "ask_user"
      BY <1>7, <2>2 DEF RecordIterationsLeft, NoRecord
    <2> QED BY <2>1, <2>2
  <1> HIDE DEF k, action, counts, learned
  <1>9. emitted' \in Seq(ClosingEvent)
    BY <1>6, <1>7, ConcatProperties DEF TypeOK
  <1>10. recoveries' \in [FailureKind -> Nat]
    <2>1. recoveries \in [FailureKind -> Nat]
      BY DEF TypeOK
    <2>2. recoveries[k] + 1 \in Nat
      BY <1>1, <2>1
    <2>3. [recoveries EXCEPT ![k] = @ + 1] \in [FailureKind -> Nat]
      BY <2>1, <2>2
    <2> QED BY <1>7, <2>1, <2>3
  <1>11. record' \in Saved \cup {NoRecord}
    BY <1>5, <1>7 DEF TypeOK
  <1>12. done' \in BOOLEAN
    BY <1>7 DEF TypeOK
  <1>13. pending' \in FailureKind \cup {None}
    BY <1>1, <1>7 DEF TypeOK
  <1> QED
    BY <1>2, <1>4, <1>7, <1>8, <1>9, <1>10, <1>11, <1>12, <1>13 DEF FailureVarsOK

\* The initial states are typed.
LEMMA InitType == Init => TypeInv
  <1> SUFFICES ASSUME Init PROVE TypeInv
    OBVIOUS
  <1> USE DEF Init
  <1>1. <<>> \in Seq(FailureKind) /\ <<>> \in Seq(Call) /\ <<>> \in Seq(ClosingEvent)
    OBVIOUS
  <1>2. Zero \in [FailureKind -> Nat] /\ [c \in Counted |-> 0] \in [Counted -> Nat]
    BY DEF Zero
  <1>3. phase \in Phase /\ finish \in Finish /\ pending \in FailureKind \cup {None}
    BY DEF Phase, Finish
  <1>4. /\ iteration \in 0 .. MaxIterations /\ elapsed \in 0 .. Ceiling
        /\ silence \in 0 .. StallThreshold + 1 /\ llmCalls \in Nat /\ resumes \in Nat
    BY BoundsAssumption DEF Ceiling
  <1>5. attempts \in [FailureKind -> Nat] /\ recoveries \in [FailureKind -> Nat] /\ repeats \in [Counted -> Nat]
    BY <1>2
  <1>6. lessons \in Seq(FailureKind) /\ queue \in Seq(Call) /\ emitted \in Seq(ClosingEvent)
    BY <1>1
  <1>7. dangling \in BOOLEAN /\ done \in BOOLEAN /\ cancelSet \in BOOLEAN
    OBVIOUS
  <1>8. record \in Saved \cup {NoRecord}
    OBVIOUS
  <1>9. phase \in {"running", "toolBackoff"} => queue # <<>>
    OBVIOUS
  <1>10. TypeOK
    BY <1>3, <1>4, <1>5, <1>6, <1>7, <1>8, <1>9 DEF TypeOK
  <1>11. IterationsLeft
    BY BoundsAssumption DEF IterationsLeft
  <1>12. RecordIterationsLeft
    BY DEF RecordIterationsLeft
  <1> QED BY <1>10, <1>11, <1>12 DEF TypeInv

\* Leaving the loop with a closing event.
LEMMA CloseWithType ==
    ASSUME TypeOK, NEW event \in ClosingEvent, CloseWith(event)
    PROVE  /\ emitted' \in Seq(ClosingEvent) /\ emitted' # <<>>
           /\ done' = TRUE /\ phase' = "ended"
  <1>1. emitted \in Seq(ClosingEvent)
    BY DEF TypeOK
  <1>2. emitted' = Append(emitted, event)
    BY DEF CloseWith
  <1>3. emitted' \in Seq(ClosingEvent) /\ Len(emitted') = Len(emitted) + 1
    BY <1>1, <1>2
  <1>4. emitted' # <<>>
    BY <1>1, <1>3, EmptySeq
  <1> QED BY <1>3, <1>4 DEF CloseWith

\* pre_step reports one of the kinds, and none but the iteration limit at the
\* limit.
LEMMA PreStepType ==
    ASSUME NEW i \in Nat
    PROVE  /\ PreStep(i) \in FailureKind \cup {None}
           /\ i >= MaxIterations <=> PreStep(i) = "iteration_limit"
  BY BoundsAssumption DEF PreStep, FailureKind, None

\* post_llm reports a failure kind, or none.
LEMMA PostLlmType == PostLlm \in FailureKind \cup {None}
  BY DEF PostLlm, FailureKind, None

\* A failure of pre_step leaves iterations to go, or ends the run.
LEMMA LimitHitType ==
    ASSUME TypeInv, LimitHit
    PROVE  TypeInv'
  <1> USE BoundsAssumption
  <1> DEFINE i == iteration + 1
             f == FailureOf(PreStep(i))
  <1>1. iteration \in 0 .. MaxIterations /\ iteration < MaxIterations
    BY DEF TypeInv, TypeOK, IterationsLeft, Iterating, LimitHit, Stopped
  <1>2. i \in 0 .. MaxIterations
    BY <1>1
  <1>3. PreStep(i) \in FailureKind /\ (i >= MaxIterations <=> PreStep(i) = "iteration_limit")
    BY <1>2, PreStepType DEF LimitHit
  <1>4. f \in Failure /\ f.kind = PreStep(i)
    BY <1>3, FailureOfType
  <1>5. HandleFailure(f, i, dangling) /\ iteration' = i /\ phase = "top" /\ ~done
    BY DEF LimitHit
  <1> HIDE DEF f, i
  <1>6. i < MaxIterations \/ f.kind = "iteration_limit"
    BY <1>2, <1>3, <1>4
  <1>7. FailureVarsOK' /\ RecordIterationsLeft'
    BY <1>2, <1>4, <1>5, <1>6, HandleFailureType DEF TypeInv, TypeOK
  <1>8. TypeOK'
    BY <1>2, <1>5, <1>7 DEF TypeInv, TypeOK, LimitHit, FailureVarsOK, clockVars, answerVars
  <1>9. IterationsLeft'
    <2>1. CASE i < MaxIterations
      BY <1>5, <2>1 DEF IterationsLeft
    <2>2. CASE i >= MaxIterations
      <3>1. f = FailureOf("iteration_limit")
        BY <1>3, <2>2 DEF f
      <3>2. Decide(f, attempts[f.kind]) \notin Continuing
        BY <3>1 DEF FailureOf, DefaultAction, FailureKind, Decide, Continuing
      <3>3. done'
        BY <1>5, <3>2 DEF HandleFailure
      <3> QED BY <1>5, <3>3 DEF IterationsLeft, Iterating, LimitHit
    <2> QED BY <1>2, <2>1, <2>2
  <1> QED BY <1>7, <1>8, <1>9 DEF TypeInv

\* The failures of a running iteration.
LEMMA IterationFailureType ==
    ASSUME TypeInv, Iterating, NEW f \in Failure, NEW open \in BOOLEAN,
           HandleFailure(f, iteration, open)
    PROVE  FailureVarsOK' /\ RecordIterationsLeft'
  <1>1. iteration \in 0 .. MaxIterations /\ iteration < MaxIterations
    BY DEF TypeInv, TypeOK, IterationsLeft
  <1> QED BY <1>1, HandleFailureType DEF TypeInv

\* The steps of the loop keep the type invariant.
LEMMA LoopStepType ==
    ASSUME TypeInv, LoopStep
    PROVE  TypeInv'
  <1> USE BoundsAssumption DEF TypeInv, IterationsLeft, Iterating, Stopped
  <1>1. CASE LoopExit
    BY <1>1 DEF LoopExit, TypeOK, RecordIterationsLeft, Phase, clockVars,
       failureVars, answerVars
  <1>2. CASE CancelledAtTop
    <2>1. CloseWith("RunCancelled") /\ "RunCancelled" \in ClosingEvent
      BY <1>2 DEF CancelledAtTop, ClosingEvent
    <2>2. emitted' \in Seq(ClosingEvent) /\ done' = TRUE /\ phase' = "ended"
      BY <2>1, CloseWithType
    <2> QED
      BY <1>2, <2>2 DEF CancelledAtTop, TypeOK, RecordIterationsLeft, Phase,
         clockVars, answerVars
  <1>3. CASE LimitHit
    BY <1>3, LimitHitType
  <1>4. CASE CallLlm
    <2>1. iteration + 1 < MaxIterations
      <3>1. iteration + 1 \in Nat
        BY DEF TypeOK
      <3>2. PreStep(iteration + 1) # "iteration_limit"
        BY <1>4 DEF CallLlm, None
      <3> QED BY <3>1, <3>2, PreStepType
    <2> QED
      BY <1>4, <2>1 DEF CallLlm, TypeOK, RecordIterationsLeft, Phase, clockVars,
         answerVars
  <1>5. CASE LlmCompletes
    BY <1>5, CallsAssumption DEF LlmCompletes, TypeOK, RecordIterationsLeft, Phase,
       Finish, failureVars
  <1>6. CASE LlmFails
    <2>1. PICK k \in {"transient_provider", "capability_gap"} :
             /\ phase' = IF BacksOff(FailureOf(k)) THEN "backoff" ELSE "top"
             /\ HandleFailure(FailureOf(k), iteration, dangling)
      BY <1>6 DEF LlmFails
    <2>2. FailureOf(k) \in Failure
      BY FailureOfType DEF FailureKind
    <2>3. FailureVarsOK' /\ RecordIterationsLeft'
      BY <1>6, <2>1, <2>2, IterationFailureType DEF LlmFails, TypeOK
    <2> QED
      BY <1>6, <2>1, <2>3 DEF LlmFails, TypeOK, FailureVarsOK, Phase, clockVars, answerVars
  <1>7. CASE LlmCancelled
    <2>1. CloseWith("RunCancelled") /\ "RunCancelled" \in ClosingEvent
      BY <1>7 DEF LlmCancelled, ClosingEvent
    <2>2. emitted' \in Seq(ClosingEvent) /\ done' = TRUE /\ phase' = "ended"
      BY <2>1, CloseWithType
    <2> QED
      BY <1>7, <2>2 DEF LlmCancelled, TypeOK, RecordIterationsLeft, Phase,
         clockVars, answerVars
  <1>8. CASE BackoffEnds
    BY <1>8 DEF BackoffEnds, TypeOK, RecordIterationsLeft, Phase, clockVars,
       failureVars, answerVars
  <1>9. CASE CancelledAfterStream
    <2>1. CloseWith("RunCancelled") /\ "RunCancelled" \in ClosingEvent
      BY <1>9 DEF CancelledAfterStream, ClosingEvent
    <2>2. emitted' \in Seq(ClosingEvent) /\ done' = TRUE /\ phase' = "ended"
      BY <2>1, CloseWithType
    <2>3. finish' \in Finish /\ queue' \in Seq(Call)
      BY <1>9 DEF CancelledAfterStream, Finish
    <2> QED
      BY <1>9, <2>2, <2>3 DEF CancelledAfterStream, TypeOK, RecordIterationsLeft,
         Phase, clockVars
  <1>10. CASE ResponseRejected
    <2>1. FailureOf(PostLlm) \in Failure
      BY <1>10, PostLlmType, FailureOfType DEF ResponseRejected
    <2>2. HandleFailure(FailureOf(PostLlm), iteration, dangling \/ queue # <<>>)
      BY <1>10 DEF ResponseRejected
    <2>3. (dangling \/ queue # <<>>) \in BOOLEAN
      BY DEF TypeOK
    <2>4. Iterating
      BY <1>10 DEF ResponseRejected
    <2>5. FailureVarsOK' /\ RecordIterationsLeft'
      BY <2>1, <2>2, <2>3, <2>4, IterationFailureType
    <2>6. finish' \in Finish /\ queue' \in Seq(Call)
      BY <1>10 DEF ResponseRejected, Finish
    <2> QED
      BY <1>10, <2>5, <2>6 DEF ResponseRejected, TypeOK, FailureVarsOK, Phase, clockVars
  <1>11. CASE TextOnly
    <2>1. FailureOf("no_progress") \in Failure
      BY FailureOfType DEF FailureKind
    <2>2. Iterating /\ HandleFailure(FailureOf("no_progress"), iteration, dangling)
      BY <1>11 DEF TextOnly
    <2>3. FailureVarsOK' /\ RecordIterationsLeft'
      BY <2>1, <2>2, IterationFailureType DEF TypeOK
    <2> QED
      BY <1>11, <2>3 DEF TextOnly, TypeOK, FailureVarsOK, Phase, Finish, clockVars
  <1>12. CASE StartTools
    BY <1>12 DEF StartTools, TypeOK, RecordIterationsLeft, Phase, Finish,
       clockVars, failureVars
  <1> QED
    BY <1>1, <1>2, <1>3, <1>4, <1>5, <1>6, <1>7, <1>8, <1>9, <1>10, <1>11, <1>12
       DEF LoopStep

\* A call leaves the queue.
LEMMA AnsweredType ==
    ASSUME TypeOK, queue # <<>>, Answered
    PROVE  queue' \in Seq(Call) /\ phase' = "tools" /\ silence' = 0
  BY HeadTailProperties DEF TypeOK, Answered

\* Dropping the rest of a batch keeps it.
LEMMA LeaveBatchType ==
    ASSUME TypeOK, NEW event \in ClosingEvent, LeaveBatch(event)
    PROVE  /\ emitted' \in Seq(ClosingEvent) /\ done' = TRUE /\ phase' = "ended"
           /\ queue' \in Seq(Call) /\ dangling' = TRUE
  <1>1. CloseWith(event) /\ queue' = <<>> /\ dangling' = TRUE
    BY DEF LeaveBatch
  <1>2. emitted' \in Seq(ClosingEvent) /\ done' = TRUE /\ phase' = "ended"
    BY <1>1, CloseWithType
  <1>3. queue' \in Seq(Call)
    BY <1>1
  <1> QED BY <1>1, <1>2, <1>3

\* The steps of a batch keep it.
LEMMA ToolStepType ==
    ASSUME TypeInv, ToolStep \/ TaskCancelledInTools
    PROVE  TypeInv'
  <1> USE BoundsAssumption DEF TypeInv, IterationsLeft, Iterating, Stopped
  <1>1. CASE UnknownTool
    <2>1. FailureOf("tool_error") \in Failure
      BY FailureOfType DEF FailureKind
    <2>2. Iterating /\ HandleFailure(FailureOf("tool_error"), iteration, TRUE)
      BY <1>1 DEF UnknownTool
    <2>3. FailureVarsOK' /\ RecordIterationsLeft'
      BY <2>1, <2>2, IterationFailureType
    <2>4. queue' \in Seq(Call) /\ phase' = "tools" /\ silence' = 0
      BY <1>1, AnsweredType DEF UnknownTool
    <2>5. UNCHANGED <<iteration, elapsed, repeats, dangling, cancelSet, finish, resumes,
                      llmCalls>>
      BY <1>1 DEF UnknownTool
    <2>6. silence' \in 0 .. StallThreshold + 1 /\ phase' \in Phase
      BY <2>4 DEF Phase
    <2>7. TypeOK'
      BY <2>3, <2>4, <2>5, <2>6 DEF TypeOK, FailureVarsOK
    <2>8. Iterating => IterationsLeft'
      BY <2>4, <2>5
    <2> QED
      BY <2>2, <2>3, <2>7, <2>8
  <1>2. CASE InvokeTool
    <2>1. repeats' \in [Counted -> Nat]
      BY <1>2 DEF InvokeTool, Counting, TypeOK
    <2> QED
      BY <1>2, <2>1 DEF InvokeTool, TypeOK, RecordIterationsLeft, Phase, clockVars,
         failureVars, answerVars
  <1>3. CASE ToolSucceeds
    <2>1. queue' \in Seq(Call) /\ phase' = "tools" /\ silence' = 0
      BY <1>3, AnsweredType DEF ToolSucceeds, TypeOK
    <2>2. emitted' \in Seq(ClosingEvent) /\ done' \in BOOLEAN
      BY <1>3 DEF ToolSucceeds, TypeOK, ClosingEvent
    <2> QED
      BY <1>3, <2>1, <2>2 DEF ToolSucceeds, TypeOK, RecordIterationsLeft, Phase
  <1>4. CASE ToolFails
    <2>1. PICK f \in ToolFailures :
             /\ HandleFailure(f, iteration, TRUE)
             /\ IF BacksOff(f)
                THEN phase' = "toolBackoff" /\ UNCHANGED <<queue, silence>>
                ELSE Answered
      BY <1>4 DEF ToolFails
    <2>2. f \in Failure /\ Iterating
      BY <1>4, ToolFailuresAssumption DEF ToolFails
    <2>3. FailureVarsOK' /\ RecordIterationsLeft'
      BY <2>1, <2>2, IterationFailureType
    <2>4. queue # <<>>
      BY <1>4 DEF ToolFails, TypeOK
    <2>5. /\ queue' \in Seq(Call) /\ phase' \in {"tools", "toolBackoff"}
          /\ phase' = "toolBackoff" => queue' # <<>>
          /\ silence' \in 0 .. StallThreshold + 1
      <3>1. CASE BacksOff(f)
        BY <2>1, <2>4, <3>1 DEF TypeOK
      <3>2. CASE ~BacksOff(f)
        <4>1. Answered
          BY <2>1, <3>2
        <4>2. queue' \in Seq(Call) /\ phase' = "tools" /\ silence' = 0
          BY <2>4, <4>1, AnsweredType
        <4> QED BY <4>2
      <3> QED BY <3>1, <3>2
    <2> QED
      BY <1>4, <2>3, <2>5 DEF ToolFails, TypeOK, FailureVarsOK, Phase
  <1>5. CASE ToolBackoffEnds
    <2>1. queue' \in Seq(Call) /\ phase' = "tools" /\ silence' = 0
      BY <1>5, AnsweredType DEF ToolBackoffEnds, TypeOK
    <2> QED
      BY <1>5, <2>1 DEF ToolBackoffEnds, TypeOK, RecordIterationsLeft, Phase, failureVars
  <1>6. CASE AskUser
    <2>1. LeaveBatch("UserInputRequested") /\ "UserInputRequested" \in ClosingEvent
      BY <1>6 DEF AskUser, ClosingEvent
    <2>2. /\ emitted' \in Seq(ClosingEvent) /\ done' = TRUE /\ phase' = "ended"
          /\ queue' \in Seq(Call) /\ dangling' = TRUE
      BY <2>1, LeaveBatchType
    <2>3. record' = Snapshot(None, iteration, attempts, lessons, TRUE)
      BY <1>6 DEF AskUser
    <2>4. record' \in Saved
      BY <2>3, SnapshotType DEF TypeOK
    <2>5. RecordIterationsLeft'
      BY <1>6, <2>3 DEF AskUser, RecordIterationsLeft, Snapshot
    <2> QED
      BY <1>6, <2>2, <2>4, <2>5 DEF AskUser, TypeOK, Phase, clockVars
  <1>7. CASE ReturnUnable
    <2>1. LeaveBatch("Handoff") /\ "Handoff" \in ClosingEvent
      BY <1>7 DEF ReturnUnable, ClosingEvent
    <2>2. /\ emitted' \in Seq(ClosingEvent) /\ done' = TRUE /\ phase' = "ended"
          /\ queue' \in Seq(Call) /\ dangling' = TRUE
      BY <2>1, LeaveBatchType
    <2> QED
      BY <1>7, <2>2 DEF ReturnUnable, TypeOK, RecordIterationsLeft, Phase, clockVars
  <1>8. CASE BatchEnds
    BY <1>8 DEF BatchEnds, TypeOK, RecordIterationsLeft, Phase, clockVars,
       failureVars, answerVars
  <1>9. CASE TaskCancelledInTools
    <2>1. LeaveBatch("RunCancelled") /\ "RunCancelled" \in ClosingEvent
      BY <1>9 DEF TaskCancelledInTools, ClosingEvent
    <2>2. /\ emitted' \in Seq(ClosingEvent) /\ done' = TRUE /\ phase' = "ended"
          /\ queue' \in Seq(Call) /\ dangling' = TRUE
      BY <2>1, LeaveBatchType
    <2> QED
      BY <1>9, <2>2 DEF TaskCancelledInTools, TypeOK, RecordIterationsLeft, Phase,
         clockVars
  <1> QED
    BY <1>1, <1>2, <1>3, <1>4, <1>5, <1>6, <1>7, <1>8, <1>9 DEF ToolStep

\* The clock, the host and the task keep it.
LEMMA EnvironmentType ==
    ASSUME TypeInv, LoopEnvironment
    PROVE  TypeInv'
  <1> USE BoundsAssumption DEF TypeInv, IterationsLeft, Iterating, Stopped
  <1>1. CASE LlmSignal
    BY <1>1 DEF LlmSignal, TypeOK, RecordIterationsLeft, Phase, failureVars, answerVars
  <1>2. CASE Tick
    BY <1>2 DEF Tick, Ceiling, TypeOK, RecordIterationsLeft, Phase, failureVars, answerVars
  <1>3. CASE Cancel
    BY <1>3 DEF Cancel, TypeOK, RecordIterationsLeft, Phase, clockVars, failureVars,
       answerVars
  <1>4. CASE TaskCancelledInLlm
    <2>1. CloseWith("RunCancelled") /\ "RunCancelled" \in ClosingEvent
      BY <1>4 DEF TaskCancelledInLlm, ClosingEvent
    <2>2. emitted' \in Seq(ClosingEvent) /\ done' = TRUE /\ phase' = "ended"
      BY <2>1, CloseWithType
    <2> QED
      BY <1>4, <2>2 DEF TaskCancelledInLlm, TypeOK, RecordIterationsLeft, Phase,
         clockVars, answerVars
  <1>5. CASE TaskCancelledInBackoff
    BY <1>5 DEF TaskCancelledInBackoff, TypeOK, RecordIterationsLeft, Phase, clockVars,
       failureVars, answerVars
  <1>6. CASE Resume
    <2>1. record \in Saved
      BY <1>6 DEF Resume, TypeOK
    <2>2. iteration' \in 0 .. MaxIterations /\ iteration' < MaxIterations
      BY <1>6, <2>1 DEF Resume, RestoredIteration, RecordIterationsLeft, Saved
    <2>3. elapsed' \in 0 .. Ceiling /\ llmCalls' \in Nat
      BY <1>6, <2>1 DEF Resume, Saved, Ceiling
    <2>4. /\ attempts' \in [FailureKind -> Nat] /\ recoveries' \in [FailureKind -> Nat]
          /\ lessons' \in Seq(FailureKind) /\ repeats' \in [Counted -> Nat]
          /\ dangling' \in BOOLEAN
      BY <1>6, <2>1 DEF Resume, RestoredAttempts, Saved
    <2>5. emitted' \in Seq(ClosingEvent) /\ queue' \in Seq(Call) /\ finish' \in Finish
      BY <1>6 DEF Resume, Finish
    <2>6. RecordIterationsLeft'
      BY <1>6 DEF Resume, RecordIterationsLeft
    <2>7. /\ phase' = "top" /\ phase' \in Phase /\ pending' \in FailureKind \cup {None}
          /\ done' \in BOOLEAN /\ cancelSet' \in BOOLEAN
      BY <1>6 DEF Resume, Phase
    <2>8. record' \in Saved \cup {NoRecord} /\ resumes' \in Nat
          /\ silence' \in 0 .. StallThreshold + 1
      BY <1>6 DEF Resume, TypeOK
    <2>9. TypeOK'
      BY <2>2, <2>3, <2>4, <2>5, <2>7, <2>8 DEF TypeOK
    <2> QED
      BY <2>2, <2>6, <2>9
  <1> QED BY <1>1, <1>2, <1>3, <1>4, <1>5, <1>6 DEF LoopEnvironment

\* Nothing happens.
LEMMA StutterType ==
    ASSUME TypeInv, UNCHANGED vars
    PROVE  TypeInv'
  BY DEF vars, TypeInv, TypeOK, IterationsLeft, Iterating, RecordIterationsLeft

\* The variables keep their types, the iteration counter its bound, and a
\* suspended run has iterations left, whatever the tools, the model, the clock
\* and the host do.
THEOREM TypeInvariant == Spec => []TypeInv
  <1>1. Init => TypeInv
    BY InitType
  <1>2. TypeInv /\ [Next]_vars => TypeInv'
    BY LoopStepType, ToolStepType, EnvironmentType, StutterType DEF Next
  <1> QED BY <1>1, <1>2, PTL DEF Spec

\* The type invariant of the runs.
THEOREM TypeCorrect == Spec => []TypeOK
  <1>1. TypeInv => TypeOK
    BY DEF TypeInv
  <1> QED BY <1>1, TypeInvariant, PTL

-----------------------------------------------------------------------------
(***************************************************************************)
(* The recovery budgets.  A failure answered by going on was counted as an *)
(* attempt before, and a suspension saves both counters.                   *)
(***************************************************************************)

WithinCaps(r, a) ==
    \A k \in FailureKind : r[k] <= a[k] /\ r[k] <= RecoveryCap(k)

RecoveryInv ==
    /\ WithinCaps(recoveries, attempts)
    /\ record # NoRecord => WithinCaps(record.recoveries, record.attempts)

FailureStep ==
    LimitHit \/ LlmFails \/ ResponseRejected \/ TextOnly \/ UnknownTool \/ ToolFails

\* These steps hand a failure to the funnel.
LEMMA FailureHandled ==
    ASSUME TypeInv, FailureStep
    PROVE  \E f \in Failure, i \in 0 .. MaxIterations, open \in BOOLEAN :
             HandleFailure(f, i, open)
  <1> USE DEF TypeInv
  <1>1. iteration \in 0 .. MaxIterations /\ dangling \in BOOLEAN
    BY DEF TypeOK
  <1>2. CASE LimitHit
    <2>1. iteration < MaxIterations
      BY <1>2 DEF IterationsLeft, Iterating, LimitHit, Stopped
    <2>2. iteration + 1 \in 0 .. MaxIterations
      BY <1>1, <2>1, BoundsAssumption
    <2>3. FailureOf(PreStep(iteration + 1)) \in Failure
      BY <1>2, <2>2, PreStepType, FailureOfType DEF LimitHit
    <2> QED BY <1>1, <1>2, <2>2, <2>3 DEF LimitHit
  <1>3. CASE LlmFails
    <2>1. PICK k \in {"transient_provider", "capability_gap"} :
             HandleFailure(FailureOf(k), iteration, dangling)
      BY <1>3 DEF LlmFails
    <2>2. FailureOf(k) \in Failure
      BY FailureOfType DEF FailureKind
    <2> QED BY <1>1, <2>1, <2>2
  <1>4. CASE ResponseRejected
    <2>1. FailureOf(PostLlm) \in Failure
      BY <1>4, PostLlmType, FailureOfType DEF ResponseRejected
    <2>2. (dangling \/ queue # <<>>) \in BOOLEAN
      BY <1>1
    <2> QED BY <1>1, <1>4, <2>1, <2>2 DEF ResponseRejected
  <1>5. CASE TextOnly
    <2>1. FailureOf("no_progress") \in Failure
      BY FailureOfType DEF FailureKind
    <2> QED BY <1>1, <1>5, <2>1 DEF TextOnly
  <1>6. CASE UnknownTool
    <2>1. FailureOf("tool_error") \in Failure
      BY FailureOfType DEF FailureKind
    <2> QED BY <1>1, <1>6, <2>1 DEF UnknownTool
  <1>7. CASE ToolFails
    <2>1. PICK f \in ToolFailures : HandleFailure(f, iteration, TRUE)
      BY <1>7 DEF ToolFails
    <2> QED BY <1>1, <2>1, ToolFailuresAssumption
  <1> QED BY <1>2, <1>3, <1>4, <1>5, <1>6, <1>7 DEF FailureStep

\* The strikes and the record change through the funnel, by a question of the
\* agent or by a resumption only.
LEMMA FailureSteps ==
    ASSUME TypeInv, Next
    PROVE  \/ \E f \in Failure, i \in 0 .. MaxIterations, open \in BOOLEAN :
                HandleFailure(f, i, open)
           \/ AskUser
           \/ Resume
           \/ UNCHANGED <<attempts, recoveries, record>>
  <1>1. CASE LoopStep
    BY <1>1, FailureHandled DEF LoopStep, FailureStep, LoopExit, CancelledAtTop, CallLlm,
       LlmCompletes, LlmCancelled, BackoffEnds, CancelledAfterStream, StartTools,
       failureVars
  <1>2. CASE ToolStep \/ TaskCancelledInTools
    BY <1>2, FailureHandled DEF ToolStep, FailureStep, InvokeTool, ToolSucceeds,
       ToolBackoffEnds, ReturnUnable, BatchEnds, TaskCancelledInTools, failureVars
  <1>3. CASE LoopEnvironment
    BY <1>3 DEF LoopEnvironment, LlmSignal, Tick, Cancel, TaskCancelledInLlm,
       TaskCancelledInBackoff, failureVars
  <1> QED BY <1>1, <1>2, <1>3 DEF Next

\* The funnel goes on only below the cap, and counts the attempt.
LEMMA FunnelWithinCaps ==
    ASSUME TypeOK, RecoveryInv, NEW f \in Failure, NEW i, NEW open,
           HandleFailure(f, i, open)
    PROVE  RecoveryInv'
  <1> DEFINE k == f.kind
             counts == [attempts EXCEPT ![k] = @ + 1]
             learned == TrackLesson(lessons, k)
             goesOn == Decide(f, attempts[k]) \in Continuing
  <1>1. k \in FailureKind
    BY DEF Failure
  <1>2. \A j \in FailureKind : attempts[j] \in Nat /\ recoveries[j] \in Nat /\ RecoveryCap(j) \in Nat
    BY DEF TypeOK, RecoveryCap, RetryBudget
  <1>3. goesOn => attempts[k] < RecoveryCap(k)
    BY <1>1, <1>2, DecideContinues
  <1>4. /\ attempts' = counts
        /\ recoveries' = IF goesOn THEN [recoveries EXCEPT ![k] = @ + 1] ELSE recoveries
        /\ record' \in {record, Snapshot(k, i, counts, learned, open)}
        /\ record' = record \/ ~goesOn
    BY DEF HandleFailure, Continuing
  <1> HIDE DEF goesOn, learned, k
  <1>5. WithinCaps(recoveries', counts)
    <2> SUFFICES ASSUME NEW j \in FailureKind
                 PROVE  recoveries'[j] <= counts[j] /\ recoveries'[j] <= RecoveryCap(j)
      BY DEF WithinCaps
    <2>1. recoveries[j] <= attempts[j] /\ recoveries[j] <= RecoveryCap(j)
      BY DEF RecoveryInv, WithinCaps
    <2>2. CASE j = k
      <3>1. counts[j] = attempts[j] + 1
        BY <1>1, <2>2 DEF TypeOK
      <3>2. recoveries'[j] = IF goesOn THEN recoveries[j] + 1 ELSE recoveries[j]
        BY <1>1, <1>4, <2>2 DEF TypeOK
      <3> HIDE DEF counts
      <3> QED BY <1>2, <1>3, <2>1, <2>2, <3>1, <3>2
    <2>3. CASE j # k
      <3>1. counts[j] = attempts[j] /\ recoveries'[j] = recoveries[j]
        BY <1>1, <1>4, <2>3 DEF TypeOK
      <3> HIDE DEF counts
      <3> QED BY <2>1, <3>1, <1>2
    <2> QED BY <2>2, <2>3
  <1>6. CASE record' = record
    BY <1>4, <1>5, <1>6 DEF RecoveryInv
  <1>7. CASE record' # record
    <2>1. record' = Snapshot(k, i, counts, learned, open) /\ recoveries' = recoveries
      BY <1>4, <1>7
    <2>2. record'.recoveries = recoveries /\ record'.attempts = counts
      BY <2>1 DEF Snapshot
    <2> QED BY <1>4, <1>5, <2>1, <2>2 DEF RecoveryInv
  <1> QED BY <1>6, <1>7

\* However failures of different kinds follow each other, a kind is answered by
\* going on at most as often as its budget says, over suspensions as well.
THEOREM RecoveriesBounded == Spec => []RecoveriesWithinBudget
  <1>1. Init => RecoveryInv
    BY DEF Init, Zero, RecoveryInv, WithinCaps, RecoveryCap, RetryBudget
  <1>2. TypeInv /\ RecoveryInv /\ [Next]_vars => RecoveryInv'
    <2> SUFFICES ASSUME TypeInv, RecoveryInv, [Next]_vars
                 PROVE  RecoveryInv'
      OBVIOUS
    <2>1. CASE \E f \in Failure, i \in 0 .. MaxIterations, open \in BOOLEAN :
                 HandleFailure(f, i, open)
      BY <2>1, FunnelWithinCaps DEF TypeInv
    <2>2. CASE AskUser
      <3>1. record' = Snapshot(None, iteration, attempts, lessons, TRUE)
            /\ UNCHANGED <<attempts, recoveries>>
        BY <2>2 DEF AskUser
      <3>2. record'.recoveries = recoveries /\ record'.attempts = attempts
        BY <3>1 DEF Snapshot
      <3> QED BY <3>1, <3>2 DEF RecoveryInv
    <2>3. CASE Resume
      BY <2>3 DEF Resume, RestoredAttempts, RecoveryInv
    <2>4. CASE UNCHANGED <<attempts, recoveries, record>>
      BY <2>4 DEF RecoveryInv
    <2>5. CASE UNCHANGED vars
      BY <2>5 DEF vars, RecoveryInv
    <2> QED BY <2>1, <2>2, <2>3, <2>4, <2>5, FailureSteps
  <1>3. RecoveryInv => RecoveriesWithinBudget
    BY DEF RecoveryInv, WithinCaps, RecoveriesWithinBudget
  <1> QED BY <1>1, <1>2, <1>3, TypeInvariant, PTL DEF Spec

-----------------------------------------------------------------------------
(***************************************************************************)
(* The lessons.  They are a list without repetitions of kinds that failed, *)
(* and it lacks one of these only when it is full.                         *)
(***************************************************************************)

Holds(s, k) == \E i \in 1 .. Len(s) : s[i] = k

Distinct(s) == \A i, j \in 1 .. Len(s) : s[i] = s[j] => i = j

Tells(s, counts) ==
    /\ Distinct(s) /\ Len(s) <= LessonsCap
    /\ \A i \in 1 .. Len(s) : counts[s[i]] > 0
    /\ Len(s) < LessonsCap => \A k \in FailureKind : counts[k] > 0 => Holds(s, k)

LessonsInv ==
    /\ Tells(lessons, attempts)
    /\ record # NoRecord => Tells(record.lessons, record.attempts)

\* What learning does to the list: one place is given up, that of the kind or,
\* when the list is full, the first, or none; the kind comes last.
Moved(s, k, n, t) ==
    /\ Len(t) = IF n = Len(s) + 1 THEN Len(s) + 1 ELSE Len(s)
    /\ \A i \in 1 .. Len(t) :
         t[i] = IF i = Len(t) THEN k ELSE IF i < n THEN s[i] ELSE s[i + 1]

GivenUp(s, k, n) ==
    \/ n <= Len(s) /\ s[n] = k
    \/ /\ ~Holds(s, k)
       /\ n = IF Len(s) < LessonsCap THEN Len(s) + 1 ELSE 1

\* Tracking a kind gives up one place of the list and puts the kind last.
LEMMA LessonMoves ==
    ASSUME NEW s \in Seq(FailureKind), Len(s) <= LessonsCap, NEW k \in FailureKind
    PROVE  \E n \in 1 .. Len(s) + 1 : GivenUp(s, k, n) /\ Moved(s, k, n, TrackLesson(s, k))
  <1> DEFINE w == Without(s, k)
             u == Append(w, k)
  <1>1. TrackLesson(s, k) = LastAtMost(u, LessonsCap)
    BY DEF TrackLesson
  <1>2. CASE Holds(s, k)
    <2> DEFINE n == CHOOSE i \in DOMAIN s : s[i] = k
               a == SubSeq(s, 1, n - 1)
               b == SubSeq(s, n + 1, Len(s))
    <2>1. n \in 1 .. Len(s) /\ s[n] = k
      BY <1>2 DEF Holds
    <2>2. w = a \o b
      <3>1. \E i \in DOMAIN s : s[i] = k
        BY <1>2 DEF Holds
      <3> QED BY <3>1 DEF Without
    <2> HIDE DEF n
    <2>3. /\ a \in Seq(FailureKind) /\ Len(a) = n - 1
          /\ \A i \in 1 .. n - 1 : a[i] = s[i]
      BY <2>1, SubSeqProperties
    <2>4. /\ b \in Seq(FailureKind) /\ Len(b) = Len(s) - n
          /\ \A i \in 1 .. Len(s) - n : b[i] = s[n + i]
      BY <2>1, SubSeqProperties
    <2> HIDE DEF a, b, w
    <2>5. /\ w \in Seq(FailureKind) /\ Len(w) = Len(s) - 1
          /\ \A i \in 1 .. Len(w) : w[i] = IF i < n THEN s[i] ELSE s[i + 1]
      <3>1. /\ w \in Seq(FailureKind) /\ Len(w) = Len(a) + Len(b)
            /\ \A i \in 1 .. Len(a) + Len(b) :
                 w[i] = IF i <= Len(a) THEN a[i] ELSE b[i - Len(a)]
        BY <2>2, <2>3, <2>4, ConcatProperties
      <3>2. n \in Nat /\ Len(s) \in Nat /\ Len(w) = Len(s) - 1
        BY <2>1, <2>3, <2>4, <3>1
      <3>3. ASSUME NEW i \in 1 .. Len(w)
            PROVE  w[i] = IF i < n THEN s[i] ELSE s[i + 1]
        <4>1. CASE i < n
          <5>1. i \in 1 .. n - 1 /\ i <= Len(a) /\ i \in 1 .. Len(a) + Len(b)
            BY <2>1, <2>3, <2>4, <3>2, <4>1
          <5> QED BY <2>3, <3>1, <4>1, <5>1
        <4>2. CASE ~(i < n)
          <5>1. /\ ~(i <= Len(a)) /\ i \in 1 .. Len(a) + Len(b)
                /\ i - Len(a) \in 1 .. Len(s) - n /\ n + (i - Len(a)) = i + 1
            BY <2>1, <2>3, <2>4, <3>2, <4>2
          <5>2. b[i - Len(a)] = s[n + (i - Len(a))]
            BY <2>4, <5>1
          <5> QED BY <3>1, <4>2, <5>1, <5>2
        <4> QED BY <4>1, <4>2
      <3> QED BY <3>1, <3>2, <3>3
    <2>6. /\ u \in Seq(FailureKind) /\ Len(u) = Len(s)
          /\ \A i \in 1 .. Len(u) : u[i] = IF i = Len(u) THEN k ELSE w[i]
      BY <2>1, <2>5, AppendProperties
    <2> HIDE DEF u
    <2>7. LastAtMost(u, LessonsCap) = u
      BY <2>6, LessonsCapAssumption DEF LastAtMost
    <2>8. Moved(s, k, n, u) /\ GivenUp(s, k, n)
      BY <2>1, <2>5, <2>6 DEF Moved, GivenUp
    <2> QED BY <1>1, <2>1, <2>7, <2>8
  <1>3. CASE ~Holds(s, k)
    <2>1. w = s
      BY <1>3 DEF Without, Holds
    <2> HIDE DEF w
    <2>2. /\ u \in Seq(FailureKind) /\ Len(u) = Len(s) + 1
          /\ \A i \in 1 .. Len(u) : u[i] = IF i = Len(u) THEN k ELSE s[i]
      BY <2>1, AppendProperties
    <2> HIDE DEF u
    <2>3. CASE Len(s) < LessonsCap
      <3>1. LastAtMost(u, LessonsCap) = u
        BY <2>2, <2>3, LessonsCapAssumption DEF LastAtMost
      <3>2. Moved(s, k, Len(s) + 1, u) /\ GivenUp(s, k, Len(s) + 1)
        BY <1>3, <2>2, <2>3 DEF Moved, GivenUp
      <3> QED BY <1>1, <3>1, <3>2
    <2>4. CASE Len(s) = LessonsCap
      <3> DEFINE t == SubSeq(u, 2, Len(u))
      <3>1. LastAtMost(u, LessonsCap) = t
        BY <2>2, <2>4, LessonsCapAssumption DEF LastAtMost
      <3>2. /\ Len(t) = Len(s)
            /\ \A i \in 1 .. Len(s) : t[i] = u[i + 1]
        BY <2>2, <2>4, LessonsCapAssumption, SubSeqProperties
      <3> HIDE DEF t
      <3>3. Moved(s, k, 1, t) /\ GivenUp(s, k, 1)
        BY <1>3, <2>2, <2>4, <3>2, LessonsCapAssumption DEF Moved, GivenUp
      <3> QED BY <1>1, <3>1, <3>3
    <2> QED BY <2>3, <2>4, LessonsCapAssumption
  <1> QED BY <1>2, <1>3

\* Positions that are counted without one of them stay apart.
LEMMA SkippingKeepsApart ==
    ASSUME NEW n \in Nat, NEW i \in Nat, NEW j \in Nat,
           (IF i < n THEN i ELSE i + 1) = (IF j < n THEN j ELSE j + 1)
    PROVE  i = j
  <1>1. CASE i < n
    BY <1>1
  <1>2. CASE ~(i < n)
    BY <1>2
  <1> QED BY <1>1, <1>2

\* A list that tells the counts tells them after one more failure.
LEMMA LearningTells ==
    ASSUME NEW s \in Seq(FailureKind), NEW counts \in [FailureKind -> Nat], Tells(s, counts),
           NEW k \in FailureKind, NEW more, more = [counts EXCEPT ![k] = counts[k] + 1]
    PROVE  Tells(TrackLesson(s, k), more)
  <1>1. PICK t \in Seq(FailureKind) : t = TrackLesson(s, k)
    BY LessonsType
  <1>2. PICK n \in 1 .. Len(s) + 1 : GivenUp(s, k, n) /\ Moved(s, k, n, t)
    BY <1>1, LessonMoves DEF Tells
  <1>3. more[k] > 0 /\ \A j \in FailureKind : more[j] > 0 <=> (j = k \/ counts[j] > 0)
    OBVIOUS
  <1>4. \A i \in 1 .. Len(s) : i # n => s[i] # k
    BY <1>2 DEF GivenUp, Holds, Tells, Distinct
  <1>5. Len(t) <= LessonsCap /\ Len(t) \in Nat /\ t[Len(t)] = k /\ Len(t) \in 1 .. Len(t)
    BY SMTT(30), <1>2, LessonsCapAssumption DEF Moved, GivenUp, Tells, Holds
  <1>6. ASSUME NEW i \in 1 .. Len(t), i # Len(t)
        PROVE  \E j \in 1 .. Len(s) : j # n /\ t[i] = s[j] /\ j = IF i < n THEN i ELSE i + 1
    <2>1. n \in Nat /\ Len(s) \in Nat /\ Len(t) \in Nat /\ i \in Nat
      BY <1>2
    <2>2. CASE i < n
      <3>1. i \in 1 .. Len(s) /\ i # n
        BY <1>2, <1>6, <2>1, <2>2 DEF Moved
      <3> QED BY <1>2, <1>6, <2>2, <3>1 DEF Moved
    <2>3. CASE ~(i < n)
      <3>1. i + 1 \in 1 .. Len(s) /\ i + 1 # n
        BY <1>2, <1>6, <2>1, <2>3 DEF Moved
      <3> QED BY <1>2, <1>6, <2>3, <3>1 DEF Moved
    <2> QED BY <2>2, <2>3
  <1>7. Distinct(t)
    <2> SUFFICES ASSUME NEW i \in 1 .. Len(t), NEW j \in 1 .. Len(t), t[i] = t[j], i # j
                 PROVE  FALSE
      BY DEF Distinct
    <2>1. i # Len(t) /\ j # Len(t)
      BY <1>4, <1>5, <1>6
    <2>2. PICK x \in 1 .. Len(s) : t[i] = s[x] /\ x = IF i < n THEN i ELSE i + 1
      BY <1>6, <2>1
    <2>3. PICK y \in 1 .. Len(s) : t[j] = s[y] /\ y = IF j < n THEN j ELSE j + 1
      BY <1>6, <2>1
    <2>4. x = y
      BY <2>2, <2>3 DEF Tells, Distinct
    <2>5. i \in Nat /\ j \in Nat /\ n \in Nat
      BY <1>2
    <2>6. (IF i < n THEN i ELSE i + 1) = (IF j < n THEN j ELSE j + 1)
      BY <2>2, <2>3, <2>4
    <2> QED BY <2>5, <2>6, SkippingKeepsApart
  <1>8. ASSUME NEW i \in 1 .. Len(t) PROVE more[t[i]] > 0
    <2>1. CASE i = Len(t)
      BY <1>3, <1>5, <2>1
    <2>2. CASE i # Len(t)
      <3>1. PICK j \in 1 .. Len(s) : t[i] = s[j]
        BY <1>6, <2>2
      <3>2. counts[s[j]] > 0 /\ s[j] \in FailureKind
        BY <3>1 DEF Tells
      <3> QED BY <1>3, <3>1, <3>2
    <2> QED BY <2>1, <2>2
  <1>9. ASSUME Len(t) < LessonsCap, NEW j \in FailureKind, more[j] > 0
        PROVE  Holds(t, j)
    <2>1. CASE j = k
      BY <1>5, <2>1 DEF Holds
    <2>2. CASE j # k
      <3>1. Len(s) < LessonsCap /\ Len(s) \in Nat
        BY <1>2, <1>9, LessonsCapAssumption DEF Moved, GivenUp
      <3>2. PICK x \in 1 .. Len(s) : s[x] = j
        BY <1>3, <1>9, <2>2, <3>1 DEF Tells, Holds
      <3>3. x # n
        BY <1>2, <2>2, <3>1, <3>2 DEF GivenUp
      <3>4. CASE x < n
        <4>1. x \in 1 .. Len(t) /\ x # Len(t)
          BY <1>2, <3>4 DEF Moved
        <4> QED BY <1>2, <3>2, <3>4, <4>1 DEF Moved, Holds
      <3>5. CASE x > n
        <4>1. /\ x - 1 \in 1 .. Len(t) /\ x - 1 # Len(t)
              /\ ~(x - 1 < n) /\ (x - 1) + 1 = x
          BY SMTT(30), <1>2, <3>5 DEF Moved
        <4>2. t[x - 1] = s[x]
          BY <1>2, <4>1 DEF Moved
        <4> QED BY <3>2, <4>1, <4>2 DEF Holds
      <3> QED BY <3>3, <3>4, <3>5
    <2> QED BY <2>1, <2>2
  <1> QED BY <1>1, <1>5, <1>7, <1>8, <1>9 DEF Tells

\* A failure that is handled is counted and learnt in the same step.
LEMMA FunnelTells ==
    ASSUME TypeOK, LessonsInv, NEW f \in Failure, NEW i, NEW open,
           HandleFailure(f, i, open)
    PROVE  LessonsInv'
  <1> DEFINE k == f.kind
             counts == [attempts EXCEPT ![k] = @ + 1]
             learned == TrackLesson(lessons, k)
  <1>1. k \in FailureKind
    BY DEF Failure
  <1>2. Tells(learned, counts)
    BY <1>1, LearningTells DEF TypeOK, LessonsInv
  <1>3. /\ attempts' = counts /\ lessons' = learned
        /\ record' = record \/ record' = Snapshot(k, i, counts, learned, open)
    BY DEF HandleFailure
  <1> HIDE DEF counts, learned, k
  <1>4. ASSUME record' = Snapshot(k, i, counts, learned, open)
        PROVE  Tells(record'.lessons, record'.attempts)
    <2>1. record'.lessons = learned /\ record'.attempts = counts
      BY <1>4 DEF Snapshot
    <2> QED BY <1>2, <2>1
  <1> QED BY <1>2, <1>3, <1>4 DEF LessonsInv

\* The lessons change with the attempts, through the funnel or by a resumption.
LEMMA LessonSteps ==
    ASSUME TypeInv, Next
    PROVE  \/ \E f \in Failure, i \in 0 .. MaxIterations, open \in BOOLEAN :
                HandleFailure(f, i, open)
           \/ AskUser
           \/ Resume
           \/ UNCHANGED <<attempts, lessons, record>>
  <1>1. CASE LoopStep
    BY <1>1, FailureHandled DEF LoopStep, FailureStep, LoopExit, CancelledAtTop, CallLlm,
       LlmCompletes, LlmCancelled, BackoffEnds, CancelledAfterStream, StartTools,
       failureVars
  <1>2. CASE ToolStep \/ TaskCancelledInTools
    BY <1>2, FailureHandled DEF ToolStep, FailureStep, InvokeTool, ToolSucceeds,
       ToolBackoffEnds, ReturnUnable, BatchEnds, TaskCancelledInTools, failureVars
  <1>3. CASE LoopEnvironment
    BY <1>3 DEF LoopEnvironment, LlmSignal, Tick, Cancel, TaskCancelledInLlm,
       TaskCancelledInBackoff, failureVars
  <1> QED BY <1>1, <1>2, <1>3 DEF Next

\* There are finitely many kinds of failure.
LEMMA KindsFinite == IsFiniteSet(FailureKind)
  <1> DEFINE A == {"transient_provider"} \cup {"output_truncated"} \cup {"output_refused"}
                    \cup {"ambiguous_input"} \cup {"scope_too_large"}
                    \cup {"capability_gap"} \cup {"no_progress"}
             B == {"loop_detected"} \cup {"tool_error"} \cup {"policy_violation"}
                    \cup {"kernel_invalidated"} \cup {"iteration_limit"} \cup {"time_limit"}
  <1>1. \A x : IsFiniteSet({x})
    BY FS_Singleton
  <1>2. \A S, T : IsFiniteSet(S) /\ IsFiniteSet(T) => IsFiniteSet(S \cup T)
    BY FS_Union
  <1>3. IsFiniteSet(A)
    BY <1>1, <1>2
  <1>4. IsFiniteSet(B)
    BY <1>1, <1>2
  <1>5. FailureKind = A \cup B
    BY DEF FailureKind
  <1> HIDE DEF A, B
  <1> QED BY <1>2, <1>3, <1>4, <1>5

\* A list that tells the counts has as many lessons as kinds failed, unless it
\* is full.
LEMMA TellsAll ==
    ASSUME NEW s \in Seq(FailureKind), NEW counts, Tells(s, counts),
           NEW failed, failed = {k \in FailureKind : counts[k] > 0},
           Cardinality(failed) <= LessonsCap
    PROVE  Len(s) = Cardinality(failed)
  <1> DEFINE I == 1 .. Len(s)
  <1>1. Len(s) \in Nat /\ IsFiniteSet(I) /\ Cardinality(I) = Len(s)
    <2>1. Len(s) \in Nat
      OBVIOUS
    <2> QED BY SMTT(30), <2>1, FS_Interval
  <1>2. IsFiniteSet(failed)
    BY KindsFinite, FS_Subset
  <1>3. s \in [I -> failed]
    BY DEF Tells
  <1>4. s \in Injection(I, failed)
    BY <1>3 DEF Tells, Distinct, Injection, IsInjective
  <1> HIDE DEF I
  <1>5. /\ Cardinality(I) <= Cardinality(failed)
        /\ Cardinality(I) = Cardinality(failed) <=> s \in Surjection(I, failed)
    BY <1>2, <1>4, FS_Injection
  <1>6. Cardinality(failed) \in Nat
    BY <1>2, FS_CardinalityType
  <1>7. CASE Len(s) = LessonsCap
    BY <1>1, <1>5, <1>6, <1>7, LessonsCapAssumption
  <1>8. CASE Len(s) < LessonsCap
    <2>1. s \in Surjection(I, failed)
      BY <1>3, <1>8 DEF Tells, Holds, Surjection, I
    <2> QED BY <1>1, <1>5, <2>1
  <1> QED BY <1>1, <1>7, <1>8, LessonsCapAssumption DEF Tells

\* What the model is told of past failures is what happened, over suspensions as
\* well (LessonsMatchAttempts).
THEOREM LessonsTold == Spec => []LessonsMatchAttempts
  <1>1. Init => LessonsInv
    BY LessonsCapAssumption DEF Init, Zero, LessonsInv, Tells, Distinct, Holds
  <1>2. TypeInv /\ LessonsInv /\ [Next]_vars => LessonsInv'
    <2> SUFFICES ASSUME TypeInv, LessonsInv, [Next]_vars
                 PROVE  LessonsInv'
      OBVIOUS
    <2>1. CASE \E f \in Failure, i \in 0 .. MaxIterations, open \in BOOLEAN :
                 HandleFailure(f, i, open)
      BY <2>1, FunnelTells DEF TypeInv
    <2>2. CASE AskUser
      <3>1. record' = Snapshot(None, iteration, attempts, lessons, TRUE)
            /\ UNCHANGED <<attempts, lessons>>
        BY <2>2 DEF AskUser
      <3>2. record'.lessons = lessons /\ record'.attempts = attempts
        BY <3>1 DEF Snapshot
      <3> QED BY <3>1, <3>2 DEF LessonsInv
    <2>3. CASE Resume
      BY <2>3 DEF Resume, RestoredAttempts, LessonsInv
    <2>4. CASE UNCHANGED <<attempts, lessons, record>>
      BY <2>4 DEF LessonsInv
    <2>5. CASE UNCHANGED vars
      BY <2>5 DEF vars, failureVars, LessonsInv
    <2> QED BY <2>1, <2>2, <2>3, <2>4, <2>5, LessonSteps
  <1>3. TypeInv /\ LessonsInv => LessonsMatchAttempts
    <2> SUFFICES ASSUME TypeInv, LessonsInv PROVE LessonsMatchAttempts
      OBVIOUS
    <2> DEFINE failed == {k \in FailureKind : attempts[k] > 0}
    <2>1. lessons \in Seq(FailureKind) /\ Tells(lessons, attempts)
      BY DEF TypeInv, TypeOK, LessonsInv
    <2>2. \A i, j \in DOMAIN lessons : lessons[i] = lessons[j] => i = j
      BY <2>1 DEF Tells, Distinct
    <2>3. \A i \in DOMAIN lessons : lessons[i] \in failed
      BY <2>1 DEF Tells
    <2>4. Cardinality(failed) <= LessonsCap => Len(lessons) = Cardinality(failed)
      BY <2>1, TellsAll
    <2> QED BY <2>2, <2>3, <2>4 DEF LessonsMatchAttempts
  <1> QED BY <1>1, <1>2, <1>3, TypeInvariant, PTL DEF Spec

-----------------------------------------------------------------------------
(***************************************************************************)
(* The iteration budget.  Every request is an iteration of its own, and    *)
(* both counters start again together.                                     *)
(***************************************************************************)

LlmInv ==
    /\ llmCalls <= iteration /\ llmCalls < MaxIterations
    /\ record # NoRecord =>
         record.llmCalls <= record.iteration /\ record.llmCalls < MaxIterations

\* How a step moves the two counters.
LEMMA CounterSteps ==
    ASSUME TypeInv, Next
    PROVE  \/ CallLlm
           \/ Resume
           \/ llmCalls' = llmCalls /\ iteration' \in {iteration, iteration + 1}
  <1>1. CASE LoopStep
    BY <1>1 DEF LoopStep, LoopExit, CancelledAtTop, LimitHit, LlmCompletes, LlmFails,
       LlmCancelled, BackoffEnds, CancelledAfterStream, ResponseRejected, TextOnly,
       StartTools
  <1>2. CASE ToolStep \/ TaskCancelledInTools
    BY <1>2 DEF ToolStep, UnknownTool, InvokeTool, ToolSucceeds, ToolFails,
       ToolBackoffEnds, AskUser, ReturnUnable, BatchEnds, TaskCancelledInTools
  <1>3. CASE LoopEnvironment
    BY <1>3 DEF LoopEnvironment, LlmSignal, Tick, Cancel, TaskCancelledInLlm,
       TaskCancelledInBackoff
  <1> QED BY <1>1, <1>2, <1>3 DEF Next

\* Where the record of a step comes from.
LEMMA RecordSteps ==
    ASSUME TypeInv, Next
    PROVE  \/ record' = record
           \/ /\ record'.llmCalls = llmCalls
              /\ record'.iteration \in {iteration, iteration + 1}
              /\ record'.repeats = repeats
  <1>1. CASE LimitHit
    <2>1. record' = record \/ \E k, counts, learned, open :
            record' = Snapshot(k, iteration + 1, counts, learned, open)
      BY <1>1 DEF LimitHit, HandleFailure
    <2> QED BY <2>1 DEF Snapshot
  <1>2. CASE \E f, open : HandleFailure(f, iteration, open)
    <2>1. record' = record \/ \E k, counts, learned, open :
            record' = Snapshot(k, iteration, counts, learned, open)
      BY <1>2 DEF HandleFailure
    <2> QED BY <2>1 DEF Snapshot
  <1>3. CASE AskUser
    BY <1>3 DEF AskUser, Snapshot
  <1>4. CASE record' = record
    BY <1>4
  <1>5. CASE LoopStep
    BY <1>1, <1>2, <1>4, <1>5 DEF LoopStep, LoopExit, CancelledAtTop, CallLlm, LlmCompletes,
       LlmFails, LlmCancelled, BackoffEnds, CancelledAfterStream, ResponseRejected,
       TextOnly, StartTools, failureVars
  <1>6. CASE ToolStep \/ TaskCancelledInTools
    BY <1>2, <1>3, <1>4, <1>6 DEF ToolStep, UnknownTool, InvokeTool, ToolSucceeds, ToolFails,
       ToolBackoffEnds, ReturnUnable, BatchEnds, TaskCancelledInTools, failureVars
  <1>7. CASE LoopEnvironment
    BY <1>4, <1>7 DEF LoopEnvironment, LlmSignal, Tick, Cancel, TaskCancelledInLlm,
       TaskCancelledInBackoff, Resume, failureVars
  <1> QED BY <1>5, <1>6, <1>7 DEF Next

\* Requests never run ahead of iterations, in the state and in the record.
LEMMA LlmInvariant == Spec => []LlmInv
  <1> USE BoundsAssumption
  <1>1. Init => LlmInv
    BY DEF Init, LlmInv
  <1>2. TypeInv /\ LlmInv /\ [Next]_vars => LlmInv'
    <2> SUFFICES ASSUME TypeInv, LlmInv, [Next]_vars
                 PROVE  LlmInv'
      OBVIOUS
    <2>1. /\ iteration \in Nat /\ llmCalls \in Nat
          /\ record # NoRecord => record \in Saved
      BY DEF TypeInv, TypeOK
    <2>2. CASE Next
      <3>1. llmCalls' <= iteration' /\ llmCalls' < MaxIterations
        <4>1. CASE CallLlm
          <5>1. iteration + 1 < MaxIterations
            BY <2>1, <4>1, PreStepType DEF CallLlm, None
          <5> QED BY <2>1, <4>1, <5>1 DEF CallLlm, LlmInv
        <4>2. CASE Resume
          BY <2>1, <4>2 DEF Resume, RestoredIteration, LlmInv, Saved
        <4>3. CASE llmCalls' = llmCalls /\ iteration' \in {iteration, iteration + 1}
          BY <2>1, <4>3 DEF LlmInv
        <4> QED BY <2>2, <4>1, <4>2, <4>3, CounterSteps
      <3>2. record' # NoRecord =>
              record'.llmCalls <= record'.iteration /\ record'.llmCalls < MaxIterations
        BY <2>1, <2>2, RecordSteps DEF LlmInv
      <3> QED BY <3>1, <3>2 DEF LlmInv
    <2>3. CASE UNCHANGED vars
      BY <2>3 DEF vars, LlmInv
    <2> QED BY <2>2, <2>3
  <1> QED BY <1>1, <1>2, TypeInvariant, PTL DEF Spec

\* A run makes fewer requests than its iteration budget has iterations, and only
\* the user's answer to the exhausted budget gives it a new one.
THEOREM LlmCallsBounded == Spec => []LlmCallsWithinBudget
  <1>1. LlmInv => LlmCallsWithinBudget
    BY DEF LlmInv, LlmCallsWithinBudget
  <1> QED BY <1>1, LlmInvariant, PTL

-----------------------------------------------------------------------------
(***************************************************************************)
(* The end of a turn.  A turn is done exactly when the host was told so.   *)
(***************************************************************************)

ClosingInv ==
    /\ done <=> emitted # <<>>
    /\ phase = "ended" => done

\* The funnel tells the host exactly when it stops the loop.
LEMMA FunnelCloses ==
    ASSUME TypeOK, ClosingInv, NEW f \in Failure, NEW i, NEW open,
           HandleFailure(f, i, open)
    PROVE  done' <=> emitted' # <<>>
  <1> DEFINE action == Decide(f, attempts[f.kind])
  <1>1. action \in Action
    BY DecideType DEF TypeOK, Failure
  <1>2. emitted' = emitted \o Closing(action) /\ done' = (done \/ action \notin Continuing)
    BY DEF HandleFailure
  <1> HIDE DEF action
  <1>3. Closing(action) \in Seq(ClosingEvent) /\ (Closing(action) = <<>> <=> action \in Continuing)
    BY <1>1, ClosingType
  <1>4. emitted \in Seq(ClosingEvent)
    BY DEF TypeOK
  <1>5. emitted' = <<>> <=> emitted = <<>> /\ Closing(action) = <<>>
    BY <1>2, <1>3, <1>4, ConcatEqualIffEmpty
  <1> QED BY <1>2, <1>3, <1>5 DEF ClosingInv

\* Every step keeps the agreement of done and the events.
LEMMA ClosingKept ==
    ASSUME TypeInv, ClosingInv, Next
    PROVE  ClosingInv'
  <1> USE DEF TypeInv
  <1>1. CASE \E event \in ClosingEvent : CloseWith(event)
    BY <1>1, CloseWithType DEF ClosingInv
  <1>2. CASE /\ \E f \in Failure, i \in 0 .. MaxIterations, open \in BOOLEAN :
                 HandleFailure(f, i, open)
             /\ phase' # "ended"
    BY <1>2, FunnelCloses DEF ClosingInv
  <1>3. CASE UNCHANGED <<done, emitted>> /\ (phase' = "ended" => done)
    BY <1>3 DEF ClosingInv
  <1>4. CASE ToolSucceeds
    <2>1. phase' # "ended"
      BY <1>4 DEF ToolSucceeds, Answered
    <2>2. CASE Head(queue) = "return_done"
      <3>1. emitted' = Append(emitted, "ReturnDone") /\ done'
        BY <1>4, <2>2 DEF ToolSucceeds
      <3>2. Len(emitted') = Len(emitted) + 1 /\ Len(emitted) \in Nat /\ Len(<<>>) = 0
        BY <3>1 DEF TypeOK, ClosingEvent
      <3> QED BY <2>1, <3>1, <3>2 DEF ClosingInv
    <2>3. CASE Head(queue) # "return_done"
      BY <1>4, <2>1, <2>3 DEF ToolSucceeds, ClosingInv
    <2> QED BY <2>2, <2>3
  <1>5. CASE Resume
    BY <1>5 DEF Resume, ClosingInv
  <1>6. CASE LoopStep
    <2>1. CASE LimitHit \/ LlmFails \/ ResponseRejected \/ TextOnly
      <3>1. phase' # "ended"
        BY <2>1 DEF LimitHit, LlmFails, ResponseRejected, TextOnly
      <3>2. \E f \in Failure, i \in 0 .. MaxIterations, open \in BOOLEAN :
              HandleFailure(f, i, open)
        BY <2>1, FailureHandled DEF FailureStep
      <3> QED BY <1>2, <3>1, <3>2
    <2>2. CASE \/ LoopExit \/ CallLlm \/ LlmCompletes \/ BackoffEnds \/ StartTools
      BY <1>3, <2>2 DEF LoopExit, CallLlm, LlmCompletes, BackoffEnds, StartTools,
         failureVars
    <2>3. CASE CancelledAtTop \/ LlmCancelled \/ CancelledAfterStream
      BY <1>1, <2>3 DEF CancelledAtTop, LlmCancelled, CancelledAfterStream, ClosingEvent
    <2> QED BY <1>6, <2>1, <2>2, <2>3 DEF LoopStep
  <1>7. CASE ToolStep \/ TaskCancelledInTools
    <2>1. CASE UnknownTool \/ ToolFails
      <3>1. phase' # "ended"
        BY <2>1 DEF UnknownTool, ToolFails, Answered
      <3>2. \E f \in Failure, i \in 0 .. MaxIterations, open \in BOOLEAN :
              HandleFailure(f, i, open)
        BY <2>1, FailureHandled DEF FailureStep
      <3> QED BY <1>2, <3>1, <3>2
    <2>2. CASE InvokeTool \/ ToolBackoffEnds \/ BatchEnds
      BY <1>3, <2>2 DEF InvokeTool, ToolBackoffEnds, BatchEnds, Answered, failureVars
    <2>3. CASE AskUser \/ ReturnUnable \/ TaskCancelledInTools
      BY <1>1, <2>3 DEF AskUser, ReturnUnable, TaskCancelledInTools, LeaveBatch,
         ClosingEvent
    <2> QED BY <1>4, <1>7, <2>1, <2>2, <2>3 DEF ToolStep
  <1>8. CASE LoopEnvironment
    <2>1. CASE LlmSignal \/ Tick \/ Cancel \/ TaskCancelledInBackoff
      BY <1>3, <2>1 DEF LlmSignal, Tick, Cancel, TaskCancelledInBackoff, failureVars,
         Stopped
    <2>2. CASE TaskCancelledInLlm
      BY <1>1, <2>2 DEF TaskCancelledInLlm, ClosingEvent
    <2> QED BY <1>5, <1>8, <2>1, <2>2 DEF LoopEnvironment
  <1> QED BY <1>6, <1>7, <1>8 DEF Next

\* The host was told that the turn is over exactly when done is set.
LEMMA ClosingInvariant == Spec => []ClosingInv
  <1>1. Init => ClosingInv
    BY DEF Init, ClosingInv
  <1>2. TypeInv /\ ClosingInv /\ UNCHANGED vars => ClosingInv'
    BY DEF vars, ClosingInv
  <1>3. TypeInv /\ ClosingInv /\ [Next]_vars => ClosingInv'
    BY <1>2, ClosingKept
  <1> QED BY <1>1, <1>3, TypeInvariant, PTL DEF Spec

\* No turn stops without a closing event.
THEOREM NoTurnEndsSilently == Spec => []NoSilentEnd
  <1>1. ClosingInv => NoSilentEnd
    BY DEF ClosingInv, NoSilentEnd
  <1> QED BY <1>1, ClosingInvariant, PTL

\* Only an open turn makes a request.
LEMMA RequestsAreOpen ==
    ASSUME ClosingInv, Next, phase' = "streaming", phase # "streaming"
    PROVE  CallLlm /\ emitted = <<>>
  <1>1. CallLlm
    BY DEF Next, LoopStep, LoopExit, CancelledAtTop, CloseWith, LimitHit, LlmCompletes,
       LlmFails, LlmCancelled, BackoffEnds, CancelledAfterStream, ResponseRejected,
       TextOnly, StartTools, ToolStep, UnknownTool, InvokeTool, ToolSucceeds, ToolFails,
       Answered, ToolBackoffEnds, AskUser, ReturnUnable, LeaveBatch, BatchEnds,
       TaskCancelledInTools, LoopEnvironment, LlmSignal, Tick, Cancel,
       TaskCancelledInLlm, TaskCancelledInBackoff, Resume
  <1> QED BY <1>1 DEF CallLlm, ClosingInv

\* A turn that told the host it is over makes no further request.
THEOREM NoRequestAfterClosing == Spec => NoLlmCallAfterClosing
  <1>1. ClosingInv /\ [Next]_vars =>
          [phase' = "streaming" /\ phase # "streaming" => emitted = <<>>]_vars
    BY RequestsAreOpen
  <1> QED BY <1>1, ClosingInvariant, PTL DEF Spec, NoLlmCallAfterClosing

-----------------------------------------------------------------------------
(***************************************************************************)
(* Repeated calls.  post_llm leaves a distance to the threshold; a batch   *)
(* uses up at most one unit of it per call that is still to be made.       *)
(***************************************************************************)

RepeatsCap == LoopHardThreshold - 2 + MaxBatch

InFlight == IF phase \in {"running", "toolBackoff"} THEN 1 ELSE 0

BatchPhase == {"tools", "running", "toolBackoff"}

BatchWithinCap ==
    phase \in BatchPhase =>
      \A n \in DOMAIN queue : queue[n] \in Counted =>
        repeats[queue[n]] + Len(queue) <= RepeatsCap + InFlight

RepeatsInv ==
    /\ \A c \in Counted : repeats[c] <= RepeatsCap
    /\ record # NoRecord => \A c \in Counted : record.repeats[c] <= RepeatsCap
    /\ phase = "answered" => finish # None /\ Len(queue) <= MaxBatch
    /\ BatchWithinCap

\* The shape of a step: where it leaves the loop, the queue and the counters.
LEMMA QueueSteps ==
    ASSUME TypeInv, Next
    PROVE  \/ LlmCompletes
           \/ StartTools
           \/ InvokeTool
           \/ Resume
           \/ repeats' = repeats /\ phase' \notin BatchPhase \cup {"answered"}
           \/ repeats' = repeats /\ Answered /\ phase \in BatchPhase /\ queue # <<>>
           \/ repeats' = repeats /\ phase = "running" /\ phase' = "toolBackoff" /\ queue' = queue
           \/ UNCHANGED <<repeats, phase, queue, finish>>
  <1>1. CASE LoopStep
    BY <1>1 DEF LoopStep, LoopExit, CancelledAtTop, CloseWith, LimitHit, CallLlm, LlmFails,
       LlmCancelled, BackoffEnds, CancelledAfterStream, ResponseRejected, TextOnly, BatchPhase
  <1>2. CASE UnknownTool \/ ToolSucceeds \/ ToolFails \/ ToolBackoffEnds
    BY <1>2 DEF UnknownTool, ToolSucceeds, ToolFails, ToolBackoffEnds, TypeInv, TypeOK, BatchPhase
  <1>3. CASE AskUser \/ ReturnUnable \/ BatchEnds \/ TaskCancelledInTools
    BY <1>3 DEF AskUser, ReturnUnable, BatchEnds, TaskCancelledInTools, LeaveBatch, CloseWith,
       BatchPhase
  <1>4. CASE LoopEnvironment
    BY <1>4 DEF LoopEnvironment, LlmSignal, Tick, Cancel, TaskCancelledInLlm, CloseWith,
       TaskCancelledInBackoff, BatchPhase, answerVars
  <1> QED BY <1>1, <1>2, <1>3, <1>4 DEF Next, ToolStep

\* Every step keeps the distance of the counters to the threshold.
LEMMA RepeatsKept ==
    ASSUME TypeInv, RepeatsInv, Next
    PROVE  RepeatsInv'
  <1> USE BoundsAssumption
  <1>1. /\ queue \in Seq(Call) /\ repeats \in [Counted -> Nat]
        /\ record # NoRecord => record \in Saved
        /\ RepeatsCap \in Int
        /\ phase \in {"running", "toolBackoff"} => queue # <<>>
    BY DEF TypeInv, TypeOK, RepeatsCap
  <1>2. record' # NoRecord => \A c \in Counted : record'.repeats[c] <= RepeatsCap
    BY RecordSteps DEF RepeatsInv
  <1>3. CASE LlmCompletes
    <2>1. phase' = "answered" /\ repeats' = repeats /\ finish' # None /\ queue' \in Batches
      BY <1>3 DEF LlmCompletes
    <2>2. Len(queue') <= MaxBatch
      BY <2>1, CallsAssumption
    <2> QED BY <1>2, <2>1, <2>2 DEF RepeatsInv, BatchWithinCap, BatchPhase
  <1>4. CASE StartTools
    <2>1. /\ phase = "answered" /\ phase' = "tools" /\ repeats' = repeats /\ queue' = queue
          /\ PostLlm = None
      BY <1>4 DEF StartTools
    <2>2. finish \in Finish /\ finish # None /\ Len(queue) <= MaxBatch
      BY <2>1 DEF RepeatsInv, TypeInv, TypeOK
    <2>3. ~WouldLoop(queue)
      BY <2>1, <2>2 DEF PostLlm, Finish, None
    <2>4. \A n \in DOMAIN queue : queue[n] \in Counted =>
            repeats[queue[n]] + 1 < LoopHardThreshold
      <3> SUFFICES ASSUME NEW n \in DOMAIN queue, queue[n] \in Counted
                   PROVE  repeats[queue[n]] + 1 < LoopHardThreshold
        OBVIOUS
      <3>1. ~(Projected(queue[n]) >= LoopHardThreshold)
        BY <2>3 DEF WouldLoop
      <3>2. Projected(queue[n]) = repeats[queue[n]] + 1
        BY DEF Projected
      <3> QED BY <1>1, <3>1, <3>2
    <2>5. BatchWithinCap'
      <3> SUFFICES ASSUME NEW n \in DOMAIN queue, queue[n] \in Counted
                   PROVE  repeats[queue[n]] + Len(queue) <= RepeatsCap
        BY <2>1 DEF BatchWithinCap, InFlight, RepeatsCap
      <3>1. repeats[queue[n]] \in Nat /\ Len(queue) \in Nat
        BY <1>1
      <3> QED BY <2>2, <2>4, <3>1 DEF RepeatsCap
    <2> QED BY <1>2, <2>1, <2>5 DEF RepeatsInv
  <1>5. CASE InvokeTool
    <2> DEFINE h == Head(queue)
    <2>1. /\ phase = "tools" /\ phase' = "running" /\ queue' = queue /\ queue # <<>>
          /\ repeats' = IF h \in Counted THEN [repeats EXCEPT ![h] = @ + 1] ELSE repeats
      BY <1>5 DEF InvokeTool, Counting, answerVars
    <2>2. Len(queue) \in Nat \ {0} /\ h = queue[1] /\ 1 \in DOMAIN queue
      BY <1>1, <2>1, EmptySeq
    <2>3. \A n \in DOMAIN queue : queue[n] \in Counted =>
            repeats[queue[n]] + Len(queue) <= RepeatsCap
      BY <1>1, <2>1 DEF RepeatsInv, BatchWithinCap, BatchPhase, InFlight
    <2> HIDE DEF h
    <2>4. \A c \in Counted : repeats[c] \in Nat /\ repeats'[c] \in {repeats[c], repeats[c] + 1}
      BY <1>1, <2>1
    <2>5. \A c \in Counted : repeats'[c] <= RepeatsCap
      <3> SUFFICES ASSUME NEW c \in Counted PROVE repeats'[c] <= RepeatsCap
        OBVIOUS
      <3>1. CASE c = h
        <4>1. repeats[c] + Len(queue) <= RepeatsCap
          BY <2>2, <2>3, <3>1
        <4> QED BY <1>1, <2>2, <2>4, <4>1
      <3>2. CASE c # h
        BY <1>1, <2>1, <3>2 DEF RepeatsInv
      <3> QED BY <3>1, <3>2
    <2>6. BatchWithinCap'
      <3> SUFFICES ASSUME NEW n \in DOMAIN queue, queue[n] \in Counted
                   PROVE  repeats'[queue[n]] + Len(queue) <= RepeatsCap + 1
        BY <2>1 DEF BatchWithinCap, InFlight, RepeatsCap
      <3>1. repeats[queue[n]] + Len(queue) <= RepeatsCap
        BY <2>3
      <3> QED BY <1>1, <2>2, <2>4, <3>1
    <2> QED BY <1>2, <2>1, <2>5, <2>6 DEF RepeatsInv
  <1>6. CASE Resume
    <2>1. /\ phase' = "top" /\ repeats' = record.repeats /\ record # NoRecord
      BY <1>6 DEF Resume
    <2> QED BY <1>2, <2>1 DEF RepeatsInv, BatchWithinCap, BatchPhase
  <1>7. CASE repeats' = repeats /\ phase' \notin BatchPhase \cup {"answered"}
    BY <1>2, <1>7 DEF RepeatsInv, BatchWithinCap
  <1>8. CASE repeats' = repeats /\ Answered /\ phase \in BatchPhase /\ queue # <<>>
    <2>1. phase' = "tools" /\ queue' = Tail(queue)
      BY <1>8 DEF Answered
    <2>2. /\ Tail(queue) \in Seq(Call) /\ Len(Tail(queue)) = Len(queue) - 1
          /\ \A n \in 1 .. Len(Tail(queue)) : Tail(queue)[n] = queue[n + 1]
      BY <1>1, <1>8, HeadTailProperties
    <2>3. BatchWithinCap'
      <3> SUFFICES ASSUME NEW n \in DOMAIN Tail(queue), Tail(queue)[n] \in Counted
                   PROVE  repeats[Tail(queue)[n]] + Len(Tail(queue)) <= RepeatsCap
        BY <1>8, <2>1 DEF BatchWithinCap, InFlight, RepeatsCap
      <3>1. n \in 1 .. Len(Tail(queue)) /\ n + 1 \in DOMAIN queue
            /\ Tail(queue)[n] = queue[n + 1]
        BY <1>1, <2>2
      <3>2. repeats[queue[n + 1]] + Len(queue) <= RepeatsCap + InFlight
        BY <1>8, <3>1 DEF RepeatsInv, BatchWithinCap
      <3>3. InFlight \in {0, 1}
        BY DEF InFlight
      <3>4. repeats[queue[n + 1]] \in Nat /\ Len(queue) \in Nat
        BY <1>1, <3>1
      <3> QED BY <1>1, <2>2, <3>1, <3>2, <3>3, <3>4
    <2> QED BY <1>2, <1>8, <2>1, <2>3 DEF RepeatsInv
  <1>9. CASE /\ repeats' = repeats /\ phase = "running" /\ phase' = "toolBackoff"
             /\ queue' = queue
    BY <1>2, <1>9 DEF RepeatsInv, BatchWithinCap, BatchPhase, InFlight, RepeatsCap
  <1>10. CASE UNCHANGED <<repeats, phase, queue, finish>>
    BY <1>2, <1>10 DEF RepeatsInv, BatchWithinCap, InFlight, RepeatsCap
  <1> QED
    BY <1>3, <1>4, <1>5, <1>6, <1>7, <1>8, <1>9, <1>10, QueueSteps

\* A signature stays within one batch of the hard threshold.
THEOREM RepeatsBounded == Spec => []RepeatsNearThreshold
  <1>1. Init => RepeatsInv
    BY BoundsAssumption DEF Init, RepeatsInv, BatchWithinCap, BatchPhase, RepeatsCap
  <1>2. TypeInv /\ RepeatsInv /\ UNCHANGED vars => RepeatsInv'
    BY DEF vars, RepeatsInv, BatchWithinCap, InFlight, RepeatsCap
  <1>3. TypeInv /\ RepeatsInv /\ [Next]_vars => RepeatsInv'
    BY <1>2, RepeatsKept
  <1>4. RepeatsInv => RepeatsNearThreshold
    BY DEF RepeatsInv, RepeatsNearThreshold, RepeatsCap
  <1> QED BY <1>1, <1>3, <1>4, TypeInvariant, PTL DEF Spec

-----------------------------------------------------------------------------
(***************************************************************************)
(* The abstract specification.  A request is a request, an event or an     *)
(* exit closes the turn, a resumption resumes it, and everything else is   *)
(* hidden from the host.                                                   *)
(***************************************************************************)

\* While the model is asked and its answer judged, the turn is open.
OpenPhase == {"streaming", "answered", "backoff"}

OpenInv == phase \in OpenPhase => ~done

\* No step reaches the model, or its answer, with done set.
LEMMA OpenKept ==
    ASSUME TypeInv, OpenInv, Next
    PROVE  OpenInv'
  <1>1. CASE LlmFails
    <2>1. PICK k \in {"transient_provider", "capability_gap"} :
             /\ phase' = IF BacksOff(FailureOf(k)) THEN "backoff" ELSE "top"
             /\ HandleFailure(FailureOf(k), iteration, dangling)
      BY <1>1 DEF LlmFails
    <2>2. phase = "streaming" /\ ~done
      BY <1>1 DEF LlmFails, OpenInv, OpenPhase
    <2>3. phase' \in OpenPhase => BacksOff(FailureOf(k))
      BY <2>1 DEF OpenPhase
    <2>4. BacksOff(FailureOf(k)) => ~done'
      BY <2>1, <2>2 DEF BacksOff, HandleFailure, Continuing
    <2> QED BY <2>3, <2>4 DEF OpenInv
  <1>2. CASE phase' \notin OpenPhase
    BY <1>2 DEF OpenInv
  <1>3. CASE done' = done /\ (phase' \in OpenPhase => ~done)
    BY <1>3 DEF OpenInv
  <1>4. CASE LoopStep
    BY <1>1, <1>2, <1>3, <1>4 DEF OpenInv, OpenPhase, LoopStep, LoopExit, CancelledAtTop,
       CloseWith, LimitHit, CallLlm, LlmCompletes, LlmCancelled, BackoffEnds,
       CancelledAfterStream, ResponseRejected, TextOnly, StartTools, failureVars
  <1>5. CASE ToolStep \/ TaskCancelledInTools
    BY <1>2, <1>5 DEF OpenPhase, ToolStep, UnknownTool, InvokeTool, ToolSucceeds, ToolFails,
       Answered, ToolBackoffEnds, AskUser, ReturnUnable, LeaveBatch, CloseWith, BatchEnds,
       TaskCancelledInTools
  <1>6. CASE LoopEnvironment
    BY <1>2, <1>3, <1>6 DEF OpenInv, OpenPhase, LoopEnvironment, LlmSignal, Tick, Cancel,
       TaskCancelledInLlm, CloseWith, TaskCancelledInBackoff, Resume, failureVars
  <1> QED BY <1>4, <1>5, <1>6 DEF Next

HostInv == TypeInv /\ LlmInv /\ ClosingInv /\ OpenInv

\* All that the refinement needs to know of a state.
LEMMA HostInvariant == Spec => []HostInv
  <1>1. Init => OpenInv
    BY DEF Init, OpenInv, OpenPhase
  <1>2. TypeInv /\ OpenInv /\ UNCHANGED vars => OpenInv'
    BY DEF vars, OpenInv
  <1>3. TypeInv /\ OpenInv /\ [Next]_vars => OpenInv'
    BY <1>2, OpenKept
  <1>4. TypeInv /\ LlmInv /\ ClosingInv /\ OpenInv => HostInv
    BY DEF HostInv
  <1> QED
    BY <1>1, <1>3, <1>4, TypeInvariant, LlmInvariant, ClosingInvariant, PTL DEF Spec

\* A failure handed to the funnel is hidden from the host, or closes the turn.
LEMMA FunnelRefines ==
    ASSUME HostInv, FailureStep
    PROVE  Promise!Close \/ UNCHANGED Promise!vars
  <1> USE DEF HostInv
  <1>1. PICK f \in Failure, i \in 0 .. MaxIterations, open \in BOOLEAN :
          HandleFailure(f, i, open)
    BY FailureHandled
  <1>2. HostStatus = "running" /\ HostStatus' = "running"
    BY DEF FailureStep, LimitHit, LlmFails, ResponseRejected, TextOnly, UnknownTool,
       ToolFails, Answered, HostStatus
  <1>3. UNCHANGED <<cancelSet, llmCalls>>
    BY DEF FailureStep, LimitHit, LlmFails, ResponseRejected, TextOnly, UnknownTool,
       ToolFails
  <1>4. /\ done' <=> emitted' # <<>>
        /\ done <=> emitted # <<>>
    BY <1>1, FunnelCloses DEF TypeInv, ClosingInv
  <1> DEFINE action == Decide(f, attempts[f.kind])
  <1>5. CASE action \in Continuing
    <2>1. record' = record /\ done' = (done \/ FALSE)
      BY <1>1, <1>5 DEF HandleFailure, Continuing
    <2>2. UNCHANGED <<(emitted # <<>>), HostOffer>>
      BY <1>4, <2>1 DEF HostOffer, TypeInv, TypeOK
    <2> QED BY <1>2, <1>3, <2>2 DEF Promise!vars
  <1>6. CASE action \notin Continuing
    <2>1. done'
      BY <1>1, <1>6 DEF HandleFailure
    <2>2. \/ record' = record
          \/ \E counts, learned :
               record' = Snapshot(f.kind, i, counts, learned, open)
      BY <1>1 DEF HandleFailure
    <2>3. HostOffer' \in {HostOffer, {MaxIterations - 1 - llmCalls}, {MaxIterations - 1}}
      <3>1. CASE record' = record
        BY <3>1 DEF HostOffer
      <3>2. CASE \E counts, learned :
                   record' = Snapshot(f.kind, i, counts, learned, open)
        <4>1. record'.llmCalls = llmCalls /\ record' # NoRecord
          <5>1. f.kind \in FailureKind
            BY DEF Failure
          <5>2. f.kind # "no record"
            BY <5>1 DEF FailureKind
          <5>3. record'.origin = f.kind /\ record'.llmCalls = llmCalls
            BY <3>2 DEF Snapshot
          <5>4. NoRecord.origin = "no record"
            BY DEF NoRecord
          <5> QED BY <5>2, <5>3, <5>4
        <4> QED BY <4>1 DEF HostOffer
      <3> QED BY <2>2, <3>1, <3>2
    <2> QED BY <1>2, <1>3, <1>4, <2>1, <2>3 DEF Promise!Close
  <1> QED BY <1>5, <1>6

\* An event followed by the end of the turn closes it.
LEMMA CloseRefines ==
    ASSUME HostInv, phase \notin Stopped, NEW event \in ClosingEvent, CloseWith(event),
           UNCHANGED <<cancelSet, llmCalls>>,
           HostOffer' \in {HostOffer, {MaxIterations - 1 - llmCalls}}
    PROVE  Promise!Close
  <1>1. emitted' # <<>> /\ phase' = "ended"
    BY CloseWithType DEF HostInv, TypeInv
  <1> QED BY <1>1 DEF Promise!Close, HostStatus, Stopped

\* Every step is a step of the abstract run, or hidden from the host.
LEMMA StepRefines ==
    ASSUME HostInv, Next
    PROVE  Promise!Next \/ UNCHANGED Promise!vars
  <1> USE DEF Promise!Next
  <1>1. CASE FailureStep
    BY <1>1, FunnelRefines
  <1>2. CASE CallLlm
    <2>1. HostStatus = "running" /\ HostStatus' = "running"
      BY <1>2 DEF CallLlm, HostStatus
    <2>2. emitted = <<>> /\ emitted' = emitted
      BY <1>2 DEF CallLlm, HostInv, ClosingInv
    <2>3. ~cancelSet /\ cancelSet' = cancelSet /\ record' = record
      BY <1>2 DEF CallLlm, CancelSeen
    <2>4. HostOffer' = HostOffer
      BY <2>3 DEF HostOffer
    <2>5. llmCalls' = llmCalls + 1 /\ llmCalls \in Nat /\ llmCalls' < MaxIterations
      <3>1. iteration + 1 < MaxIterations
        <4>1. iteration + 1 \in Nat
          BY DEF HostInv, TypeInv, TypeOK
        <4>2. PreStep(iteration + 1) # "iteration_limit"
          BY <1>2 DEF CallLlm, None
        <4> QED BY <4>1, <4>2, BoundsAssumption, PreStepType
      <3> QED BY <1>2, <3>1, BoundsAssumption DEF CallLlm, HostInv, LlmInv, TypeInv, TypeOK
    <2> QED BY <2>1, <2>2, <2>3, <2>4, <2>5, BoundsAssumption DEF Promise!Request
  <1>3. CASE LoopExit
    <2>1. emitted' # <<>> /\ HostStatus = "running" /\ HostStatus' = "stopped"
      BY <1>3 DEF LoopExit, HostInv, ClosingInv, HostStatus, failureVars
    <2>2. HostOffer' = HostOffer /\ UNCHANGED <<cancelSet, llmCalls>>
      BY <1>3 DEF LoopExit, HostOffer, failureVars
    <2> QED BY <2>1, <2>2 DEF Promise!Close
  <1>4. CASE \/ CancelledAtTop \/ LlmCancelled \/ CancelledAfterStream
             \/ TaskCancelledInLlm \/ ReturnUnable \/ TaskCancelledInTools
    <2>1. /\ phase \notin Stopped /\ UNCHANGED <<cancelSet, llmCalls, record>>
          /\ \E event \in ClosingEvent : CloseWith(event)
      BY <1>4 DEF CancelledAtTop, LlmCancelled, CancelledAfterStream, TaskCancelledInLlm,
         ReturnUnable, TaskCancelledInTools, LeaveBatch, Stopped, ClosingEvent
    <2>2. HostOffer' = HostOffer
      BY <2>1 DEF HostOffer
    <2> QED BY <2>1, <2>2, CloseRefines
  <1>5. CASE AskUser
    <2>1. /\ phase \notin Stopped /\ UNCHANGED <<cancelSet, llmCalls>>
          /\ CloseWith("UserInputRequested")
          /\ record' = Snapshot(None, iteration, attempts, lessons, TRUE)
      BY <1>5 DEF AskUser, LeaveBatch, Stopped
    <2>2. HostOffer' = {MaxIterations - 1 - llmCalls}
      BY <2>1 DEF HostOffer, Snapshot, NoRecord, None
    <2> QED BY <2>1, <2>2, CloseRefines DEF ClosingEvent
  <1>6. CASE ToolSucceeds
    <2>1. HostStatus = "running" /\ HostStatus' = "running"
      BY <1>6 DEF ToolSucceeds, Answered, HostStatus
    <2>2. UNCHANGED <<cancelSet, llmCalls, record>>
      BY <1>6 DEF ToolSucceeds
    <2>3. HostOffer' = HostOffer
      BY <2>2 DEF HostOffer
    <2>4. CASE Head(queue) = "return_done"
      <3>1. emitted' = Append(emitted, "ReturnDone") /\ done'
        BY <1>6, <2>4 DEF ToolSucceeds
      <3>2. Len(emitted') = Len(emitted) + 1 /\ Len(emitted) \in Nat /\ Len(<<>>) = 0
        BY <3>1 DEF HostInv, TypeInv, TypeOK, ClosingEvent
      <3>3. emitted' # <<>>
        BY <3>2
      <3> QED BY <2>1, <2>2, <2>3, <3>3 DEF Promise!Close
    <2>5. CASE Head(queue) # "return_done"
      <3>1. emitted' = emitted
        BY <1>6, <2>5 DEF ToolSucceeds
      <3> QED BY <2>1, <2>2, <2>3, <3>1 DEF Promise!vars
    <2> QED BY <2>4, <2>5
  <1>7. CASE TaskCancelledInBackoff
    <2>1. HostStatus = "running" /\ HostStatus' = "raised"
      BY <1>7 DEF TaskCancelledInBackoff, HostStatus
    <2>2. emitted = <<>>
      BY <1>7 DEF TaskCancelledInBackoff, HostInv, OpenInv, OpenPhase, ClosingInv
    <2>3. UNCHANGED <<emitted, cancelSet, llmCalls, record>>
      BY <1>7 DEF TaskCancelledInBackoff, failureVars
    <2>4. HostOffer' = HostOffer
      BY <2>3 DEF HostOffer
    <2> QED BY <2>1, <2>2, <2>3, <2>4 DEF Promise!Raise
  <1>8. CASE Cancel
    <2>1. HostStatus = "running" /\ HostStatus' = HostStatus
      BY <1>8 DEF Cancel, HostStatus, Stopped, failureVars
    <2>2. cancelSet' /\ UNCHANGED <<emitted, llmCalls, record>>
      BY <1>8 DEF Cancel, failureVars
    <2>3. HostOffer' = HostOffer
      BY <2>2 DEF HostOffer
    <2> QED BY <1>8, <2>1, <2>2, <2>3 DEF Promise!Cancel, Cancel
  <1>9. CASE Resume
    <2>1. HostStatus # "running" /\ HostStatus' = "running"
      BY <1>9 DEF Resume, HostStatus, Stopped
    <2>2. emitted' = <<>> /\ cancelSet' = FALSE /\ record' = record /\ record # NoRecord
      BY <1>9 DEF Resume
    <2>3. HostOffer' = HostOffer
      BY <2>2 DEF HostOffer
    <2>4. MaxIterations - 1 - llmCalls' \in HostOffer
      BY <1>9, <2>2, BoundsAssumption DEF Resume, HostOffer
    <2> QED BY <2>1, <2>2, <2>3, <2>4 DEF Promise!Resume
  <1>10. CASE \/ LlmCompletes \/ BackoffEnds \/ StartTools \/ InvokeTool \/ ToolBackoffEnds
              \/ BatchEnds \/ LlmSignal \/ Tick
    <2>1. HostStatus' = HostStatus
      BY <1>10 DEF LlmCompletes, BackoffEnds, StartTools, InvokeTool, ToolBackoffEnds,
         BatchEnds, LlmSignal, Tick, Answered, HostStatus
    <2>2. UNCHANGED <<emitted, cancelSet, llmCalls, record>>
      BY <1>10 DEF LlmCompletes, BackoffEnds, StartTools, InvokeTool, ToolBackoffEnds,
         BatchEnds, LlmSignal, Tick, failureVars
    <2>3. HostOffer' = HostOffer
      BY <2>2 DEF HostOffer
    <2> QED BY <2>1, <2>2, <2>3 DEF Promise!vars
  <1> QED
    BY <1>1, <1>2, <1>3, <1>4, <1>5, <1>6, <1>7, <1>8, <1>9, <1>10
       DEF Next, LoopStep, ToolStep, LoopEnvironment, FailureStep

\* The run implements what BudgetedRun promises the host, but for its liveness:
\* every step of the loop, of its tools, of the clock and of the host is a step
\* of the abstract run or hidden from the host.
THEOREM Implements == Spec => Promise!Spec
  <1>1. Init => Promise!Init
    <2> SUFFICES ASSUME Init PROVE Promise!Init
      OBVIOUS
    <2>1. HostStatus = "running" /\ HostOffer = {}
      BY DEF Init, HostStatus, HostOffer
    <2> QED BY <2>1, BoundsAssumption DEF Init, Promise!Init
  <1>2. HostInv /\ UNCHANGED vars => UNCHANGED Promise!vars
    BY DEF vars, Promise!vars, HostStatus, HostOffer
  <1>3. HostInv /\ [Next]_vars => [Promise!Next]_(Promise!vars)
    BY <1>2, StepRefines
  <1> QED BY <1>1, <1>3, HostInvariant, PTL DEF Spec, Promise!Spec

==============================================================================
