-------------------------- MODULE WorkspaceRunProofs -------------------------
(***************************************************************************)
(* Theorems about WorkspaceRun, for every value of its constants.          *)
(***************************************************************************)
EXTENDS WorkspaceRun, SequenceTheorems, FiniteSetTheorems, TLAPS

-----------------------------------------------------------------------------
(***************************************************************************)
(* The inductive invariant.  While a batch is dealt with, the calls still  *)
(* without an answer are those that stage 3 has before it; outside, there  *)
(* are none.  The calls of a batch are different calls.                    *)
(***************************************************************************)

LoopPhase == {"top", "streaming", "answered", "backoff", "tools"}
BatchPhase == {"dispatching", "running", "gathering", "flushing",
               "persisting", "written", "announced"}

AllAnswered == \A n \in DOMAIN answers : answers[n] = 1
NoneTwice == \A n \in DOMAIN answers : answers[n] \in {0, 1}

ListsOK == emitted \in Seq(ClosingEvent) /\ queue \in Seq(Call)

BatchOK ==
    /\ batch \in Seq(Nat)
    /\ \A m, n \in 1 .. Len(batch) : m # n => batch[m] # batch[n]
    /\ \A m \in 1 .. Len(batch) : batch[m] \in DOMAIN answers
    /\ flushed \in 0 .. Len(batch)

LeftIsUnanswered ==
    \A n \in DOMAIN answers :
      answers[n] = IF \E k \in (flushed + 1) .. Len(batch) : batch[k] = n THEN 0 ELSE 1

BatchInv ==
    /\ BatchOK /\ LeftIsUnanswered
    /\ phase \in {"dispatching", "running", "gathering"} => flushed = 0
    /\ phase \in Publishing => flushed < Len(batch)

AnswersInv ==
    /\ ListsOK /\ NoneTwice
    /\ phase \in BatchPhase => BatchInv
    /\ phase \in LoopPhase => AllAnswered
    /\ EndsWithQuestion => AllAnswered

-----------------------------------------------------------------------------
\* The funnel adds closing events and nothing else to what the host was told.
LEMMA ClosingEvents ==
    ASSUME NEW action
    PROVE  Closing(action) \in Seq(ClosingEvent)
  <1>1. CASE action = "ask_user"
    BY <1>1 DEF Closing, ClosingEvent
  <1>2. CASE action = "handoff"
    BY <1>2 DEF Closing, ClosingEvent
  <1>3. CASE action = "stop"
    BY <1>3 DEF Closing, ClosingEvent
  <1>4. CASE action \notin {"ask_user", "handoff", "stop"}
    <2>1. Closing(action) = <<>>
      BY <1>4 DEF Closing
    <2> QED BY <2>1
  <1> QED BY <1>1, <1>2, <1>3, <1>4

\* So it keeps the list of them a list.
LEMMA FunnelEvents ==
    ASSUME NEW f, NEW i, NEW open, emitted \in Seq(ClosingEvent),
           HandleFailure(f, i, open)
    PROVE  emitted' \in Seq(ClosingEvent)
  <1>1. emitted' = emitted \o Closing(Decide(f, attempts[f.kind]))
    BY DEF HandleFailure
  <1>2. Closing(Decide(f, attempts[f.kind])) \in Seq(ClosingEvent)
    BY ClosingEvents
  <1> QED BY <1>1, <1>2, ConcatProperties

\* An event that closes the turn is a closing event.
LEMMA ClosedWith ==
    ASSUME emitted \in Seq(ClosingEvent), CloseWith("RunCancelled")
    PROVE  emitted' \in Seq(ClosingEvent) /\ Last(emitted') = "RunCancelled"
  <1>1. emitted' = Append(emitted, "RunCancelled")
    BY DEF CloseWith
  <1>2. "RunCancelled" \in ClosingEvent
    BY DEF ClosingEvent
  <1> QED BY <1>1, <1>2, AppendProperties DEF Last

\* A step of the loop outside the dispatch of tools starts and ends outside it.
LEMMA LoopStepLists ==
    ASSUME ListsOK, LoopStep
    PROVE  /\ ListsOK'
           /\ phase \in {"top", "streaming", "answered", "backoff"}
           /\ phase' \in LoopPhase \cup {"ended"}
  <1> USE DEF ListsOK, LoopPhase
  <1>1. CASE LoopExit
    BY <1>1 DEF LoopExit, failureVars, answerVars
  <1>2. CASE CancelledAtTop
    BY <1>2, ClosedWith DEF CancelledAtTop, CloseWith, answerVars
  <1>3. CASE LimitHit
    BY <1>3, FunnelEvents DEF LimitHit, answerVars
  <1>4. CASE CallLlm
    BY <1>4 DEF CallLlm, answerVars
  <1>5. CASE LlmCompletes
    BY <1>5, CallsAssumption DEF LlmCompletes, failureVars
  <1>6. CASE LlmFails
    <2>1. PICK k \in {"transient_provider", "capability_gap"} :
            /\ phase' = IF BacksOff(FailureOf(k)) THEN "backoff" ELSE "top"
            /\ HandleFailure(FailureOf(k), iteration, dangling)
      BY <1>6 DEF LlmFails
    <2> QED BY <1>6, <2>1, FunnelEvents DEF LlmFails, answerVars
  <1>7. CASE LlmCancelled
    BY <1>7, ClosedWith DEF LlmCancelled, CloseWith, answerVars
  <1>8. CASE BackoffEnds
    BY <1>8 DEF BackoffEnds, failureVars, answerVars
  <1>9. CASE CancelledAfterStream
    BY <1>9, ClosedWith DEF CancelledAfterStream, CloseWith
  <1>10. CASE ResponseRejected
    BY <1>10, FunnelEvents DEF ResponseRejected
  <1>11. CASE TextOnly
    BY <1>11, FunnelEvents DEF TextOnly
  <1>12. CASE StartTools
    BY <1>12 DEF StartTools, failureVars
  <1> QED BY <1>1, <1>2, <1>3, <1>4, <1>5, <1>6, <1>7, <1>8, <1>9, <1>10, <1>11,
             <1>12 DEF LoopStep

-----------------------------------------------------------------------------
\* The accepted calls of a response, in order, are a list of different calls.
LEMMA InOrderLists ==
    ASSUME NEW q \in Seq(Call), NEW S \in SUBSET DOMAIN q, NEW list \in InOrder(S)
    PROVE  /\ list \in Seq(Nat)
           /\ \A m, n \in 1 .. Len(list) : m # n => list[m] # list[n]
           /\ \A m \in 1 .. Len(list) : list[m] \in S
           /\ \A x \in S : \E k \in 1 .. Len(list) : list[k] = x
  <1>1. S \in SUBSET (1 .. Len(q)) /\ Len(q) \in Nat
    OBVIOUS
  <1>2. IsFiniteSet(1 .. Len(q))
    BY <1>1, FS_Interval
  <1>3. IsFiniteSet(S)
    BY <1>1, <1>2, FS_Subset
  <1>4. Cardinality(S) \in Nat
    BY <1>3, FS_CardinalityType
  <1>5. /\ list \in [1 .. Cardinality(S) -> S]
        /\ \A m, n \in DOMAIN list : m < n => list[m] < list[n]
        /\ \A x \in S : \E n \in DOMAIN list : list[n] = x
    BY DEF InOrder
  <1>6. S \subseteq Nat
    BY <1>1
  <1>7. list \in Seq(Nat) /\ DOMAIN list = 1 .. Cardinality(S) /\ Len(list) = Cardinality(S)
    BY <1>4, <1>5, <1>6
  <1>8. ASSUME NEW m \in 1 .. Len(list), NEW n \in 1 .. Len(list), m # n
        PROVE  list[m] # list[n]
    <2>1. m < n \/ n < m
      BY <1>8, <1>7, <1>4
    <2>2. list[m] \in Nat /\ list[n] \in Nat
      BY <1>5, <1>6, <1>7
    <2> QED BY <2>1, <2>2, <1>5, <1>7
  <1> QED BY <1>5, <1>7, <1>8

\* Stage 1 answers what it refuses and leaves the rest to the batch.
LEMMA ValidateKeeps ==
    ASSUME AnswersInv, ValidateCalls
    PROVE  AnswersInv'
  <1> DEFINE S == {n \in DOMAIN queue : Accepted(n)}
  <1>1. /\ batch' \in InOrder(S)
        /\ answers' = [n \in DOMAIN queue |-> IF Refused(n) THEN 1 ELSE 0]
        /\ flushed' = 0 /\ phase' = "dispatching"
        /\ UNCHANGED <<emitted, queue>>
    BY DEF ValidateCalls, failureVars, answerVars
  <1>2. ListsOK' /\ queue \in Seq(Call)
    BY <1>1 DEF AnswersInv, ListsOK
  <1>3. /\ batch' \in Seq(Nat)
        /\ \A m, n \in 1 .. Len(batch') : m # n => batch'[m] # batch'[n]
        /\ \A m \in 1 .. Len(batch') : batch'[m] \in S
        /\ \A x \in S : \E k \in 1 .. Len(batch') : batch'[k] = x
    <2>1. S \in SUBSET DOMAIN queue
      OBVIOUS
    <2> HIDE DEF S
    <2> DEFINE list == batch'
    <2>2. list \in InOrder(S)
      BY <1>1
    <2>3. queue \in Seq(Call)
      BY <1>2
    <2> HIDE DEF list
    <2>4. /\ list \in Seq(Nat)
          /\ \A m, n \in 1 .. Len(list) : m # n => list[m] # list[n]
          /\ \A m \in 1 .. Len(list) : list[m] \in S
          /\ \A x \in S : \E k \in 1 .. Len(list) : list[k] = x
      BY ONLY <2>1, <2>2, <2>3, InOrderLists
    <2> QED BY <2>4 DEF list
  <1>4. BatchOK'
    BY <1>1, <1>3 DEF BatchOK
  <1>5. LeftIsUnanswered'
    <2> SUFFICES ASSUME NEW n \in DOMAIN queue
                 PROVE  answers'[n] = IF \E k \in 1 .. Len(batch') : batch'[k] = n
                                      THEN 0 ELSE 1
      BY <1>1 DEF LeftIsUnanswered
    <2>1. n \in S <=> ~Refused(n)
      BY DEF Accepted
    <2>2. n \in S <=> \E k \in 1 .. Len(batch') : batch'[k] = n
      BY <1>3
    <2> QED BY <1>1, <2>1, <2>2
  <1>6. NoneTwice'
    BY <1>1 DEF NoneTwice
  <1> QED BY <1>1, <1>2, <1>4, <1>5, <1>6
          DEF AnswersInv, BatchInv, LoopPhase, BatchPhase, EndsWithQuestion, Publishing

\* Once stage 3 is through its batch, every call is answered.
LEMMA FlushedAnswersAll ==
    ASSUME BatchInv, flushed = Len(batch)
    PROVE  AllAnswered
  BY DEF BatchInv, BatchOK, LeftIsUnanswered, AllAnswered

\* The flag stops the batch before it starts: all its calls are answered.
LEMMA CancelledBatchKeeps ==
    ASSUME AnswersInv, CancelledBeforeBatch
    PROVE  AnswersInv'
  <1>1. /\ phase = "dispatching" /\ phase' = "top" /\ queue' = <<>>
        /\ emitted' = Append(emitted, "RunCancelled")
        /\ answers' = [n \in DOMAIN answers |->
                         IF n \in ToSet(batch) THEN answers[n] + 1 ELSE answers[n]]
    BY DEF CancelledBeforeBatch, Return, AnswerAll
  <1>2. BatchOK /\ LeftIsUnanswered /\ flushed = 0
    BY <1>1 DEF AnswersInv, BatchInv, BatchPhase
  <1>3. ListsOK'
    BY <1>1, AppendProperties DEF AnswersInv, ListsOK, ClosingEvent
  <1>4. ASSUME NEW n \in DOMAIN answers
        PROVE  answers'[n] = 1
    <2>1. n \in ToSet(batch) <=> \E k \in 1 .. Len(batch) : batch[k] = n
      BY <1>2 DEF ToSet, BatchOK
    <2>2. answers[n] = IF n \in ToSet(batch) THEN 0 ELSE 1
      BY <1>2, <2>1 DEF LeftIsUnanswered
    <2> QED BY <1>1, <2>2
  <1>5. AllAnswered' /\ NoneTwice'
    BY <1>1, <1>4 DEF AllAnswered, NoneTwice
  <1> QED BY <1>1, <1>3, <1>5 DEF AnswersInv, BatchPhase

-----------------------------------------------------------------------------
\* The batch and its answers do not change while the tools run, and while a
\* deliverable is written and announced.
LEMMA RunningKeeps ==
    ASSUME AnswersInv, \/ StartBatch \/ ToolEnds \/ TaskCancelledInTool
                       \/ GatherEnds \/ GatherCancelled
                       \/ StartPersist \/ LastWrite \/ Announce
    PROVE  AnswersInv'
  <1>1. /\ UNCHANGED <<batch, flushed, answers, emitted, queue>>
        /\ phase' \in BatchPhase
        /\ phase \in BatchPhase
        /\ phase' \in Publishing => flushed < Len(batch)
        /\ phase' \in {"dispatching", "running", "gathering"}
             => phase \in {"dispatching", "running", "gathering"}
    <2> USE DEF BatchPhase, Publishing, failureVars, answerVars
    <2>1. CASE StartBatch
      BY <2>1 DEF StartBatch, Proceed
    <2>2. CASE ToolEnds
      BY <2>2 DEF ToolEnds, Proceed
    <2>3. CASE TaskCancelledInTool
      BY <2>3 DEF TaskCancelledInTool, Proceed
    <2>4. CASE GatherEnds
      BY <2>4 DEF GatherEnds
    <2>5. CASE GatherCancelled
      BY <2>5 DEF GatherCancelled
    <2>6. CASE StartPersist
      BY <2>6 DEF StartPersist, dispatchVars, batchVars
    <2>7. CASE LastWrite \/ Announce
      BY <2>7 DEF LastWrite, Announce, batchVars, AnswersInv, BatchInv
    <2> QED BY <2>1, <2>2, <2>3, <2>4, <2>5, <2>6, <2>7
  <1>2. ListsOK' /\ NoneTwice' /\ BatchOK' /\ LeftIsUnanswered'
    BY <1>1 DEF AnswersInv, ListsOK, NoneTwice, BatchInv, BatchOK, LeftIsUnanswered
  <1> QED BY <1>1, <1>2
          DEF AnswersInv, BatchInv, BatchPhase, LoopPhase, EndsWithQuestion, Publishing

\* A tool message answers the next call of the batch, and no other.
LEMMA AnswerAdvances ==
    ASSUME BatchInv, flushed < Len(batch), Answer, UNCHANGED batch
    PROVE  BatchOK' /\ LeftIsUnanswered'
  <1>1. /\ flushed' = flushed + 1
        /\ answers' = [n \in DOMAIN answers |->
                         IF n \in {batch[flushed + 1]} THEN answers[n] + 1 ELSE answers[n]]
    BY DEF Answer, AnswerAll, Next3
  <1>2. BatchOK /\ LeftIsUnanswered /\ Len(batch) \in Nat /\ flushed \in Nat
    BY DEF BatchInv, BatchOK
  <1>3. BatchOK'
    BY <1>1, <1>2 DEF BatchOK
  <1>4. ASSUME NEW n \in DOMAIN answers
        PROVE  answers'[n] = IF \E k \in (flushed + 2) .. Len(batch) : batch[k] = n
                             THEN 0 ELSE 1
    <2>1. CASE n = batch[flushed + 1]
      <3>1. \A k \in (flushed + 2) .. Len(batch) : batch[k] # n
        BY <1>2, <2>1 DEF BatchOK
      <3>2. answers[n] = 0
        BY <1>2, <2>1 DEF LeftIsUnanswered
      <3> QED BY <1>1, <2>1, <3>1, <3>2
    <2>2. CASE n # batch[flushed + 1]
      <3>1. (\E k \in (flushed + 1) .. Len(batch) : batch[k] = n)
              <=> (\E k \in (flushed + 2) .. Len(batch) : batch[k] = n)
        BY <1>2, <2>2
      <3> QED BY <1>1, <1>2, <2>2, <3>1 DEF LeftIsUnanswered
    <2> QED BY <2>1, <2>2
  <1>5. LeftIsUnanswered'
    BY <1>1, <1>2, <1>4 DEF LeftIsUnanswered
  <1> QED BY <1>3, <1>5

\* Stage 3 answers the results one by one.
LEMMA FlushKeeps ==
    ASSUME AnswersInv, FlushResult \/ WriteFails \/ Mint
    PROVE  AnswersInv'
  <1>1. /\ phase \in Stage3 /\ phase' = "flushing"
        /\ Answer /\ UNCHANGED <<batch, queue>>
        /\ emitted' \in {emitted, Append(emitted, "ReturnDone")}
    BY DEF FlushResult, WriteFails, Mint, Stage3, Publishing, failureVars, answerVars
  <1>2. BatchInv /\ flushed < Len(batch)
    BY <1>1 DEF AnswersInv, BatchInv, BatchPhase, FlushResult, WriteFails, Mint,
                Stage3, Publishing
  <1>3. BatchOK' /\ LeftIsUnanswered'
    BY <1>1, <1>2, AnswerAdvances
  <1>4. ListsOK'
    BY <1>1, AppendProperties DEF AnswersInv, ListsOK, ClosingEvent
  <1>5. NoneTwice'
    BY <1>3 DEF LeftIsUnanswered, NoneTwice
  <1> QED BY <1>1, <1>3, <1>4, <1>5
          DEF AnswersInv, BatchInv, BatchPhase, LoopPhase, EndsWithQuestion, Publishing

\* The batch is left when it is flushed, with or without a closing event.
LEMMA BatchLeft ==
    ASSUME AnswersInv, BatchEnds \/ AskUser \/ ReturnUnable
    PROVE  AnswersInv'
  <1>1. /\ phase = "flushing" /\ flushed = Len(batch)
        /\ phase' \in {"top", "ended"} /\ queue' = <<>> /\ UNCHANGED answers
    BY DEF BatchEnds, AskUser, ReturnUnable, RequestEnds, Return, Flushed
  <1>2. AllAnswered
    BY <1>1, FlushedAnswersAll DEF AnswersInv, BatchPhase
  <1>3. AllAnswered' /\ NoneTwice'
    BY <1>1, <1>2 DEF AllAnswered, NoneTwice
  <1>4. CancelNotice \in Seq(ClosingEvent)
    <2>1. <<"RunCancelled">> \in Seq(ClosingEvent) /\ <<>> \in Seq(ClosingEvent)
      BY DEF ClosingEvent
    <2> QED BY <2>1 DEF CancelNotice
  <1>5. emitted' \in Seq(ClosingEvent)
    <2> USE <1>4, ConcatProperties DEF AnswersInv, ListsOK
    <2>1. CASE BatchEnds
      BY <2>1 DEF BatchEnds
    <2>2. CASE AskUser
      <3>1. emitted' = emitted \o CancelNotice \o <<"UserInputRequested">>
        BY <2>2 DEF AskUser, RequestEnds
      <3>2. <<"UserInputRequested">> \in Seq(ClosingEvent)
        BY DEF ClosingEvent
      <3>3. emitted \o CancelNotice \in Seq(ClosingEvent)
        OBVIOUS
      <3> QED BY <3>1, <3>2, <3>3
    <2>3. CASE ReturnUnable
      <3>1. emitted' = emitted \o CancelNotice \o <<"Handoff">>
        BY <2>3 DEF ReturnUnable, RequestEnds
      <3>2. <<"Handoff">> \in Seq(ClosingEvent)
        BY DEF ClosingEvent
      <3>3. emitted \o CancelNotice \in Seq(ClosingEvent)
        OBVIOUS
      <3> QED BY <3>1, <3>2, <3>3
    <2> QED BY <2>1, <2>2, <2>3
  <1> QED BY <1>1, <1>3, <1>5 DEF AnswersInv, ListsOK, BatchPhase

\* A task cancelled elsewhere in the dispatch ends the turn without a question.
LEMMA LeaveKeeps ==
    ASSUME AnswersInv, LeaveDispatch
    PROVE  AnswersInv'
  <1>1. /\ phase' = "ended" /\ queue' = <<>> /\ UNCHANGED answers
        /\ CloseWith("RunCancelled")
    BY DEF LeaveDispatch, CloseWith
  <1>2. emitted' \in Seq(ClosingEvent) /\ Last(emitted') = "RunCancelled"
    BY <1>1, ClosedWith DEF AnswersInv, ListsOK
  <1>3. ~EndsWithQuestion'
    BY <1>2 DEF EndsWithQuestion
  <1> QED BY <1>1, <1>2, <1>3 DEF AnswersInv, ListsOK, NoneTwice, BatchPhase, LoopPhase

-----------------------------------------------------------------------------
\* Steps of the loop leave the answers of the last batch alone.
LEMMA LoopKeeps ==
    ASSUME AnswersInv, LoopOnly
    PROVE  AnswersInv'
  <1>1. /\ ListsOK' /\ phase \in LoopPhase
        /\ phase' \in LoopPhase \cup {"ended"} /\ UNCHANGED answers
    BY LoopStepLists DEF LoopOnly, AnswersInv, LoopPhase, dispatchVars
  <1>2. AllAnswered' /\ NoneTwice'
    BY <1>1 DEF AnswersInv, AllAnswered, NoneTwice
  <1> QED BY <1>1, <1>2 DEF AnswersInv, LoopPhase, BatchPhase

\* So do the clock, the host and a task cancelled outside the dispatch.
LEMMA EventsKeep ==
    ASSUME AnswersInv, LoopEvents
    PROVE  AnswersInv'
  <1>1. UNCHANGED <<batch, flushed, answers>>
    BY DEF LoopEvents, dispatchVars, batchVars
  <1>2. CASE LlmSignal \/ Tick \/ Cancel
    <2>1. UNCHANGED <<phase, emitted, queue>>
      BY <1>2 DEF LlmSignal, Tick, Cancel, failureVars, answerVars
    <2> QED BY <1>1, <2>1
            DEF AnswersInv, ListsOK, NoneTwice, BatchInv, BatchOK, LeftIsUnanswered,
                AllAnswered, EndsWithQuestion
  <1>3. CASE TaskCancelledInLlm \/ TaskCancelledInBackoff
    <2>1. /\ phase \in LoopPhase /\ phase' \in {"ended", "raised"} /\ queue' = queue
          /\ emitted' \in Seq(ClosingEvent)
      BY <1>3, ClosedWith
         DEF TaskCancelledInLlm, TaskCancelledInBackoff, CloseWith, LoopPhase,
             failureVars, answerVars, AnswersInv, ListsOK
    <2>2. AllAnswered' /\ NoneTwice'
      BY <1>1, <2>1 DEF AnswersInv, AllAnswered, NoneTwice
    <2> QED BY <2>1, <2>2 DEF AnswersInv, ListsOK, LoopPhase, BatchPhase
  <1> QED BY <1>2, <1>3 DEF LoopEvents

\* A resumed turn has no batch yet; nor has one that raised.
LEMMA TurnChangeKeeps ==
    ASSUME AnswersInv, ResumeTurn \/ NotebookUnreadable
    PROVE  AnswersInv'
  <1>1. CASE ResumeTurn
    <2>1. phase' = "top" /\ emitted' = <<>> /\ queue' = <<>> /\ answers' = <<>>
      BY <1>1 DEF ResumeTurn, Resume
    <2> QED BY <2>1
            DEF AnswersInv, ListsOK, AllAnswered, NoneTwice, BatchPhase, EndsWithQuestion
  <1>2. CASE NotebookUnreadable
    <2>1. phase' = "raised" /\ UNCHANGED <<emitted, answers>> /\ queue' = <<>>
      BY <1>2 DEF NotebookUnreadable, failureVars
    <2> QED BY <2>1
            DEF AnswersInv, ListsOK, NoneTwice, LoopPhase, BatchPhase, EndsWithQuestion
  <1> QED BY <1>1, <1>2

\* A step that changes nothing keeps the invariant.
LEMMA AnswersStutter ==
    ASSUME AnswersInv, UNCHANGED allVars
    PROVE  AnswersInv'
  BY DEF AnswersInv, allVars, vars, dispatchVars, batchVars, ListsOK, NoneTwice,
         BatchInv, BatchOK, LeftIsUnanswered, AllAnswered, EndsWithQuestion

\* The invariant of the answers holds throughout.
LEMMA AnswersInvariant == Spec => []AnswersInv
  <1>1. StartRun => AnswersInv
    BY DEF StartRun, Init, AnswersInv, ListsOK, AllAnswered, NoneTwice,
           BatchPhase, EndsWithQuestion
  <1>2. AnswersInv /\ [NextStep]_allVars => AnswersInv'
    <2> SUFFICES ASSUME AnswersInv, NextStep
                 PROVE  AnswersInv'
      BY AnswersStutter
    <2>1. CASE LoopOnly
      BY <2>1, LoopKeeps
    <2>2. CASE DispatchStep
      BY <2>2, ValidateKeeps, CancelledBatchKeeps, RunningKeeps, FlushKeeps, BatchLeft
         DEF DispatchStep
    <2>3. CASE DispatchEnvironment
      BY <2>3, RunningKeeps, LeaveKeeps, TurnChangeKeeps
         DEF DispatchEnvironment, TaskCancelledInGather, TaskCancelledInPersist
    <2>4. CASE LoopEvents
      BY <2>4, EventsKeep
    <2>5. CASE ResumeTurn
      BY <2>5, TurnChangeKeeps
    <2> QED BY <2>1, <2>2, <2>3, <2>4, <2>5 DEF NextStep
  <1> QED BY <1>1, <1>2, PTL DEF Spec

\* Whatever is refused, run, cancelled or cut short, the loop goes on, or the
\* run suspends, with exactly one tool message for each call of its last batch;
\* no call ever gets two (dispatch_tools).
THEOREM AnsweredOnce == Spec => []EachCallAnsweredOnce
  <1>1. AnswersInv => EachCallAnsweredOnce
    BY DEF AnswersInv, NoneTwice, AllAnswered, LoopPhase, EachCallAnsweredOnce
  <1> QED BY <1>1, AnswersInvariant, PTL

\* What carries DeliverablesAreReusable from the write to the mint: a deliverable
\* is announced when it is on disk, and minted, if not before, when it is announced.
PublishedInv ==
    /\ DeliverablesAreReusable
    /\ phase = "written" => CallAt(Next3) \in persisted
    /\ phase = "announced" => minted \cup {CallAt(Next3)} = announced

\* Outside the three steps of a publication, none of the sets changes but for what
\* the disk may come to hold and what a resumed turn forgets.
LEMMA QuietKeepsPublished ==
    ASSUME PublishedInv, phase # "announced", phase' \notin {"written", "announced"},
           \/ UNCHANGED <<minted, announced>>
           \/ minted' = {} /\ announced' = {},
           persisted \subseteq persisted'
    PROVE  PublishedInv'
  BY DEF PublishedInv, DeliverablesAreReusable

\* Whatever write fails, ends unheard of or is cut off, and however often the run
\* is suspended: host and model know the same deliverables, and all of them are on
\* disk (dispatch_tools).
THEOREM DeliverablesReusable == Spec => []DeliverablesAreReusable
  <1>1. StartRun => PublishedInv
    BY DEF StartRun, Init, PublishedInv, DeliverablesAreReusable
  <1>2. AnswersInv /\ PublishedInv /\ [NextStep]_allVars => PublishedInv'
    <2> SUFFICES ASSUME AnswersInv, PublishedInv, [NextStep]_allVars
                 PROVE  PublishedInv'
      OBVIOUS
    <2>1. CASE (UNCHANGED vars \/ LlmSignal \/ Tick \/ Cancel) /\ UNCHANGED dispatchVars
      <3>1. UNCHANGED <<phase, queue>> /\ UNCHANGED dispatchVars
        BY <2>1 DEF LlmSignal, Tick, Cancel, vars, answerVars
      <3> QED BY <3>1
              DEF PublishedInv, DeliverablesAreReusable, CallAt, Next3,
                  dispatchVars, workspaceVars, batchVars
    <2>2. CASE LoopOnly
      <3>1. /\ phase \in {"top", "streaming", "answered", "backoff"}
            /\ phase' \in LoopPhase \cup {"ended"}
        BY <2>2, LoopStepLists DEF LoopOnly, AnswersInv
      <3> QED BY <2>2, <3>1, QuietKeepsPublished
              DEF LoopOnly, LoopPhase, dispatchVars, workspaceVars
    <2>3. CASE (TaskCancelledInLlm \/ TaskCancelledInBackoff) /\ UNCHANGED dispatchVars
      BY <2>3, QuietKeepsPublished
         DEF TaskCancelledInLlm, TaskCancelledInBackoff, CloseWith, dispatchVars,
             workspaceVars
    <2>4. CASE ValidateCalls \/ CancelledBeforeBatch \/ StartBatch \/ ToolEnds
                 \/ GatherEnds \/ GatherCancelled \/ FlushResult \/ StartPersist
                 \/ TaskCancelledInTool
      <3> USE QuietKeepsPublished DEF workspaceVars
      <3>1. CASE ValidateCalls \/ CancelledBeforeBatch \/ FlushResult \/ StartPersist
        BY <3>1 DEF ValidateCalls, CancelledBeforeBatch, Return, FlushResult, Answer,
                    StartPersist, dispatchVars
      <3>2. CASE StartBatch \/ ToolEnds \/ TaskCancelledInTool
        BY <3>2 DEF StartBatch, ToolEnds, TaskCancelledInTool, Proceed
      <3>3. CASE GatherEnds \/ GatherCancelled
        BY <3>3 DEF GatherEnds, GatherCancelled
      <3> QED BY <2>4, <3>1, <3>2, <3>3
    <2>5. CASE LastWrite
      BY <2>5 DEF LastWrite, PublishedInv, DeliverablesAreReusable, CallAt, Next3,
                  batchVars, answerVars
    <2>6. CASE Announce
      BY <2>6 DEF Announce, PublishedInv, DeliverablesAreReusable, CallAt, Next3,
                  batchVars, answerVars
    <2>7. CASE Mint
      BY <2>7 DEF Mint, PublishedInv, DeliverablesAreReusable
    <2>8. CASE WriteFails \/ BatchEnds \/ AskUser \/ ReturnUnable
      BY <2>8, QuietKeepsPublished
         DEF WriteFails, BatchEnds, AskUser, ReturnUnable, RequestEnds, Return, Flushed,
             workspaceVars
    <2>9. CASE TaskCancelledInGather \/ TaskCancelledInPersist \/ NotebookUnreadable
      BY <2>9, QuietKeepsPublished
         DEF TaskCancelledInGather, TaskCancelledInPersist, LeaveDispatch, CloseWith,
             NotebookUnreadable, workspaceVars
    <2>10. CASE ResumeTurn
      BY <2>10, QuietKeepsPublished DEF ResumeTurn, Resume, RecordedRefs, Stopped
    <2> QED BY <2>1, <2>2, <2>3, <2>4, <2>5, <2>6, <2>7, <2>8, <2>9, <2>10
            DEF NextStep, DispatchStep, DispatchEnvironment, LoopEvents, allVars
  <1>3. PublishedInv => DeliverablesAreReusable
    BY DEF PublishedInv
  <1> QED BY <1>1, <1>2, <1>3, AnswersInvariant, PTL DEF Spec

-----------------------------------------------------------------------------
(***************************************************************************)
(* Types.  Outside the dispatch of tools there is no batch; inside, its    *)
(* positions are positions of the response, and a result that ends the     *)
(* run is one of a call that may ask for this.  What keeps the iteration   *)
(* counter in its range is that an iteration which runs has a number below *)
(* MaxIterations, and that a suspension record saves such a number.        *)
(***************************************************************************)

Resting == batch = <<>> /\ results = <<>> /\ flushed = 0 /\ request = None

Positions == batch \in Seq(Nat) /\ \A n \in 1 .. Len(batch) : batch[n] \in 1 .. Len(queue)

Answers(rs) ==
    /\ rs \in Seq(Outcome) /\ Len(rs) <= Len(batch)
    /\ \A n \in 1 .. Len(rs) :
         /\ rs[n] = "asked" => CallAt(n) = "ask_user"
         /\ rs[n] = "unable" => CallAt(n) = "return_unable"

StageOK ==
    /\ phase \in Phase \cup DispatchPhase
    /\ phase \notin BatchPhase => Resting
    /\ phase \in {"dispatching", "gathering"} => results = <<>>
    /\ phase = "running" => Len(results) < Len(batch)
    /\ phase \in Stage3 => Len(results) = Len(batch)
    /\ phase \in Publishing => flushed < Len(batch) /\ ToPersist

DispatchInv ==
    /\ queue \in Seq(Call) /\ Positions /\ Answers(results) /\ StageOK
    /\ flushed \in 0 .. Len(results)
    /\ request \in {None, "ask_user", "return_unable"}
    /\ minted \cup announced \cup persisted \subseteq Deliverables

Iterating == phase \notin Stopped /\ (phase = "top" => ~done)

CountInv ==
    /\ iteration \in 0 .. MaxIterations
    /\ Iterating => iteration < MaxIterations
    /\ record # NoRecord =>
         /\ record.iteration \in 0 .. MaxIterations
         /\ record.origin # "iteration_limit" => record.iteration < MaxIterations

-----------------------------------------------------------------------------
\* The results of a batch that the flag cut short: the tools that were not
\* started count as cancelled.
LEMMA CutShort ==
    ASSUME Positions, NEW rs, Answers(rs)
    PROVE  Answers(CancelledFrom(rs)) /\ Len(CancelledFrom(rs)) = Len(batch)
  <1> DEFINE cut == CancelledFrom(rs)
  <1>1. Len(batch) \in Nat /\ DOMAIN batch = 1 .. Len(batch)
    BY DEF Positions
  <1>2. rs \in Seq(Outcome) /\ Len(rs) \in Nat /\ Len(rs) <= Len(batch)
    BY DEF Answers
  <1>3. cut = [n \in 1 .. Len(batch) |-> IF n <= Len(rs) THEN rs[n] ELSE "cancelled"]
    BY <1>1 DEF CancelledFrom
  <1> HIDE DEF cut
  <1>4. ASSUME NEW n \in 1 .. Len(batch)
        PROVE  cut[n] \in Outcome /\ (n <= Len(rs) => cut[n] = rs[n])
                 /\ (n > Len(rs) => cut[n] = "cancelled")
    <2>1. CASE n <= Len(rs)
      <3>1. cut[n] = rs[n] /\ n \in 1 .. Len(rs)
        BY <1>1, <1>2, <1>3, <2>1
      <3>2. rs[n] \in Outcome
        BY <1>2, <3>1
      <3> QED BY <1>1, <1>2, <2>1, <3>1, <3>2
    <2>2. CASE ~(n <= Len(rs))
      BY <1>1, <1>2, <1>3, <2>2 DEF Outcome
    <2> QED BY <2>1, <2>2
  <1>5. cut \in [1 .. Len(batch) -> Outcome]
    BY <1>3, <1>4
  <1>6. cut \in Seq(Outcome) /\ Len(cut) = Len(batch)
    BY <1>1, <1>5
  <1>7. ASSUME NEW n \in 1 .. Len(cut)
        PROVE  /\ cut[n] = "asked" => CallAt(n) = "ask_user"
               /\ cut[n] = "unable" => CallAt(n) = "return_unable"
    <2>1. CASE n <= Len(rs)
      <3>1. n \in 1 .. Len(rs) /\ cut[n] = rs[n]
        BY <1>1, <1>2, <1>4, <1>6, <2>1
      <3> QED BY <3>1 DEF Answers
    <2>2. CASE ~(n <= Len(rs))
      <3>1. cut[n] = "cancelled"
        BY <1>1, <1>2, <1>4, <1>6, <2>2
      <3> QED BY <3>1
    <2> QED BY <2>1, <2>2
  <1>8. Answers(cut)
    BY <1>6, <1>7, <1>1 DEF Answers
  <1> QED BY <1>6, <1>8 DEF cut

\* One more tool has come to an end.
LEMMA OneMore ==
    ASSUME Positions, Answers(results), Len(results) < Len(batch),
           NEW o \in OutcomesOf(CallAt(Len(results) + 1)) \cup {"cancelled"}
    PROVE  Answers(Append(results, o))
  <1> DEFINE more == Append(results, o)
             last == Len(results) + 1
  <1>1. /\ results \in Seq(Outcome) /\ Len(results) \in Nat
        /\ Len(batch) \in Nat
    BY DEF Answers, Positions
  <1>2. /\ o \in Outcome
        /\ o = "asked" => CallAt(last) = "ask_user"
        /\ o = "unable" => CallAt(last) = "return_unable"
    <2>1. CASE CallAt(last) = "ask_user"
      BY <2>1 DEF OutcomesOf, Outcome
    <2>2. CASE CallAt(last) = "return_unable"
      BY <2>2 DEF OutcomesOf, Outcome
    <2>3. CASE CallAt(last) \notin {"ask_user", "return_unable"}
      BY <2>3 DEF OutcomesOf, Outcome
    <2> QED BY <2>1, <2>2, <2>3
  <1>3. /\ more \in Seq(Outcome) /\ Len(more) = last /\ more[last] = o
        /\ \A n \in 1 .. Len(results) : more[n] = results[n]
    BY <1>1, <1>2, AppendProperties
  <1> HIDE DEF more
  <1>4. ASSUME NEW n \in 1 .. Len(more)
        PROVE  /\ more[n] = "asked" => CallAt(n) = "ask_user"
               /\ more[n] = "unable" => CallAt(n) = "return_unable"
    <2>1. CASE n = last
      BY <1>2, <1>3, <2>1
    <2>2. CASE n # last
      <3>1. n \in 1 .. Len(results)
        BY <1>1, <1>3, <2>2
      <3> QED BY <1>3, <3>1 DEF Answers
    <2> QED BY <2>1, <2>2
  <1>5. Len(more) <= Len(batch)
    BY <1>1, <1>3
  <1>6. Answers(more)
    BY <1>3, <1>4, <1>5 DEF Answers
  <1> QED BY <1>6 DEF more

\* Going on with some results keeps them results of the batch, and stage 3 is
\* reached with all of them.
LEMMA ProceedTypes ==
    ASSUME Positions, NEW rs, Answers(rs), Proceed(rs), UNCHANGED <<batch, queue>>
    PROVE  /\ Answers(results)' /\ phase' \in {"running", "flushing"}
           /\ phase' = "running" => Len(results') < Len(batch)
           /\ phase' = "flushing" => Len(results') = Len(batch)
  <1> DEFINE cut == CancelSeen /\ Len(rs) < Len(batch)
  <1>1. /\ results' = IF cut THEN CancelledFrom(rs) ELSE rs
        /\ phase' = IF cut \/ Len(rs) = Len(batch) THEN "flushing" ELSE "running"
    BY DEF Proceed
  <1>2. Answers(results') /\ (cut => Len(results') = Len(batch))
    BY <1>1, CutShort
  <1>3. Answers(results)'
    BY <1>2 DEF Answers, CallAt
  <1>4. Len(rs) \in Nat /\ Len(batch) \in Nat /\ Len(rs) <= Len(batch)
    BY DEF Answers, Positions
  <1> HIDE DEF cut
  <1>5. CASE cut
    BY <1>1, <1>2, <1>3, <1>5
  <1>6. CASE ~cut
    BY <1>1, <1>3, <1>4, <1>6
  <1> QED BY <1>5, <1>6

\* The loop has no batch before the dispatch and none after it.
LEMMA LoopTypes ==
    ASSUME AnswersInv, DispatchInv, LoopOnly \/ LoopEvents, ListsOK'
    PROVE  DispatchInv'
  <1>1. UNCHANGED <<batch, results, flushed, request, minted, announced, persisted>>
    BY DEF LoopOnly, LoopEvents, dispatchVars, batchVars, workspaceVars
  <1>2. queue' \in Seq(Call)
    BY DEF ListsOK
  <1>3. CASE LlmSignal \/ Tick \/ Cancel
    <2>1. UNCHANGED <<phase, queue>>
      BY <1>3 DEF LlmSignal, Tick, Cancel, answerVars
    <2> QED BY <1>1, <2>1
            DEF DispatchInv, Positions, Answers, StageOK, Resting, ToPersist, CallAt, Next3
  <1>4. CASE LoopOnly \/ TaskCancelledInLlm \/ TaskCancelledInBackoff
    <2>1. /\ phase \notin BatchPhase
          /\ phase' \in Phase \cup DispatchPhase /\ phase' \notin BatchPhase
      <3>1. CASE LoopOnly
        <4>1. /\ phase \in {"top", "streaming", "answered", "backoff"}
              /\ phase' \in LoopPhase \cup {"ended"}
          BY <3>1, LoopStepLists DEF LoopOnly, AnswersInv
        <4> QED BY <4>1 DEF LoopPhase, BatchPhase, Phase
      <3>2. CASE TaskCancelledInLlm \/ TaskCancelledInBackoff
        BY <3>2 DEF TaskCancelledInLlm, TaskCancelledInBackoff, CloseWith,
                    BatchPhase, Phase
      <3> QED BY <1>4, <3>1, <3>2
    <2>2. Resting
      BY <2>1 DEF DispatchInv, StageOK
    <2>3. Resting'
      BY <1>1, <2>2 DEF Resting
    <2>4. Positions' /\ Answers(results)' /\ flushed' \in 0 .. Len(results')
      BY <2>3 DEF Resting, Positions, Answers
    <2>5. StageOK'
      BY <2>1, <2>3 DEF StageOK, BatchPhase, Publishing, Stage3
    <2> QED BY <1>1, <1>2, <2>3, <2>4, <2>5 DEF DispatchInv, Resting
  <1> QED BY <1>3, <1>4 DEF LoopEvents

\* Without a batch there is nothing to type.
LEMMA RestingTypes ==
    ASSUME Resting', queue' \in Seq(Call), phase' \in Phase \cup DispatchPhase,
           phase' \notin BatchPhase, minted' \cup announced' \cup persisted' \subseteq Deliverables
    PROVE  DispatchInv'
  <1>1. Positions' /\ Answers(results)' /\ flushed' \in 0 .. Len(results')
    BY DEF Resting, Positions, Answers
  <1>2. StageOK'
    BY DEF StageOK, BatchPhase, Publishing, Stage3
  <1> QED BY <1>1, <1>2 DEF DispatchInv, Resting

\* Every way out of the dispatch leaves no batch behind.
LEMMA LeavingTypes ==
    ASSUME DispatchInv,
           \/ CancelledBeforeBatch \/ BatchEnds \/ AskUser \/ ReturnUnable
           \/ TaskCancelledInGather \/ TaskCancelledInPersist
           \/ NotebookUnreadable \/ ResumeTurn,
           ListsOK'
    PROVE  DispatchInv'
  <1>1. queue' \in Seq(Call)
    BY DEF ListsOK
  <1>2. minted \cup announced \cup persisted \subseteq Deliverables
    BY DEF DispatchInv
  <1>3. CASE CancelledBeforeBatch \/ BatchEnds
    <2>1. /\ Resting' /\ phase' = "top" /\ UNCHANGED workspaceVars
      BY <1>3 DEF CancelledBeforeBatch, BatchEnds, Return, Resting
    <2> QED BY <1>1, <1>2, <2>1, RestingTypes DEF Phase, BatchPhase, workspaceVars
  <1>4. CASE AskUser \/ ReturnUnable
    <2>1. /\ Resting' /\ phase' = "ended" /\ UNCHANGED workspaceVars
      BY <1>4 DEF AskUser, ReturnUnable, RequestEnds, Resting
    <2> QED BY <1>1, <1>2, <2>1, RestingTypes DEF Phase, BatchPhase, workspaceVars
  <1>5. CASE TaskCancelledInGather
    <2>1. /\ Resting' /\ phase' = "ended" /\ UNCHANGED workspaceVars
      BY <1>5 DEF TaskCancelledInGather, LeaveDispatch, CloseWith, Resting, workspaceVars
    <2> QED BY <1>1, <1>2, <2>1, RestingTypes DEF Phase, BatchPhase, workspaceVars
  <1>6. CASE TaskCancelledInPersist
    <2>1. CallAt(Next3) \in Deliverables
      BY <1>6 DEF TaskCancelledInPersist, DispatchInv, StageOK, ToPersist, Publishing
    <2>2. /\ Resting' /\ phase' = "ended" /\ UNCHANGED <<minted, announced>>
          /\ persisted' \in {persisted, persisted \cup {CallAt(Next3)}}
      BY <1>6 DEF TaskCancelledInPersist, LeaveDispatch, CloseWith, Resting
    <2>3. minted' \cup announced' \cup persisted' \subseteq Deliverables
      BY <1>2, <2>1, <2>2
    <2> QED BY <1>1, <2>2, <2>3, RestingTypes DEF Phase, BatchPhase, workspaceVars
  <1>7. CASE NotebookUnreadable
    <2>1. /\ Resting' /\ phase' = "raised" /\ UNCHANGED workspaceVars
      BY <1>7 DEF NotebookUnreadable, Resting
    <2> QED BY <1>1, <1>2, <2>1, RestingTypes DEF Phase, BatchPhase, workspaceVars
  <1>8. CASE ResumeTurn
    <2>1. /\ phase \in Stopped /\ phase' = "top"
          /\ UNCHANGED <<batch, results, flushed, request, persisted>>
          /\ minted' = {} /\ announced' = {}
      BY <1>8 DEF ResumeTurn, Resume, RecordedRefs, batchVars
    <2>2. Resting
      BY <2>1 DEF DispatchInv, StageOK, Stopped, BatchPhase
    <2>3. Resting'
      BY <2>1, <2>2 DEF Resting
    <2> QED BY <1>1, <1>2, <2>1, <2>3, RestingTypes DEF Phase, BatchPhase, workspaceVars
  <1> QED BY <1>3, <1>4, <1>5, <1>6, <1>7, <1>8

\* Stage 1 makes a batch of positions.
LEMMA ValidateTypes ==
    ASSUME DispatchInv, ValidateCalls
    PROVE  DispatchInv'
  <1> DEFINE S == {n \in DOMAIN queue : Accepted(n)}
  <1>1. /\ batch' \in InOrder(S) /\ queue' = queue /\ phase' = "dispatching"
        /\ results' = <<>> /\ flushed' = 0 /\ request' = None
        /\ UNCHANGED workspaceVars
    BY DEF ValidateCalls, answerVars
  <1>2. queue \in Seq(Call) /\ S \in SUBSET DOMAIN queue
    BY DEF DispatchInv
  <1>3. PICK list : list = batch'
    OBVIOUS
  <1> HIDE DEF S
  <1>4. list \in InOrder(S)
    BY <1>1, <1>3
  <1>5. list \in Seq(Nat) /\ \A n \in 1 .. Len(list) : list[n] \in S
    BY ONLY <1>2, <1>4, InOrderLists
  <1>6. Positions'
    <2>1. DOMAIN queue = 1 .. Len(queue)
      BY <1>2
    <2> QED BY <1>1, <1>2, <1>3, <1>5, <2>1 DEF Positions
  <1>7. Answers(results)' /\ flushed' \in 0 .. Len(results')
    BY <1>1, <1>6 DEF Answers, Positions
  <1>8. StageOK'
    BY <1>1 DEF StageOK, BatchPhase, Publishing, Stage3, DispatchPhase
  <1> QED BY <1>1, <1>2, <1>6, <1>7, <1>8 DEF DispatchInv, workspaceVars

\* Stage 2 collects one result for each call of the batch.
LEMMA RunningTypes ==
    ASSUME AnswersInv, DispatchInv,
           StartBatch \/ ToolEnds \/ TaskCancelledInTool \/ GatherEnds \/ GatherCancelled
    PROVE  DispatchInv'
  <1>1. /\ UNCHANGED <<queue, batch, flushed, request>> /\ UNCHANGED workspaceVars
        /\ phase \in {"dispatching", "running", "gathering"}
    BY DEF StartBatch, ToolEnds, TaskCancelledInTool, GatherEnds, GatherCancelled,
           answerVars
  <1>2. Positions /\ Answers(results) /\ queue \in Seq(Call) /\ Positions'
    BY <1>1 DEF DispatchInv, Positions
  <1>3. Len(batch) \in Nat /\ Answers(<<>>)
    BY <1>2 DEF Positions, Answers
  <1>4. /\ Answers(results)'
        /\ phase' \in {"gathering", "running", "flushing"}
        /\ phase' = "gathering" => results' = <<>>
        /\ phase' = "running" => Len(results') < Len(batch)
        /\ phase' = "flushing" => Len(results') = Len(batch)
    <2>1. CASE StartBatch
      <3>1. CASE Concurrent /\ batch # <<>>
        <4>1. phase' = "gathering" /\ results' = <<>>
          BY <2>1, <3>1 DEF StartBatch
        <4>2. Answers(results)'
          BY <1>1, <1>3, <4>1 DEF Answers
        <4> QED BY <4>1, <4>2
      <3>2. CASE ~(Concurrent /\ batch # <<>>)
        <4>1. Proceed(<<>>)
          BY <2>1, <3>2 DEF StartBatch
        <4> QED BY <1>1, <1>2, <1>3, <4>1, ProceedTypes
      <3> QED BY <3>1, <3>2
    <2>2. CASE ToolEnds
      <3>1. PICK o \in OutcomesOf(CallAt(Len(results) + 1)) : Proceed(Append(results, o))
        BY <2>2 DEF ToolEnds
      <3>2. Len(results) < Len(batch)
        BY <2>2 DEF ToolEnds, DispatchInv, StageOK
      <3>3. Answers(Append(results, o))
        BY <1>2, <3>2, OneMore
      <3> QED BY <1>1, <1>2, <3>1, <3>3, ProceedTypes
    <2>3. CASE TaskCancelledInTool
      <3>1. Len(results) < Len(batch) /\ Proceed(Append(results, "cancelled"))
        BY <2>3 DEF TaskCancelledInTool, DispatchInv, StageOK
      <3>2. Answers(Append(results, "cancelled"))
        BY <1>2, <3>1, OneMore
      <3> QED BY <1>1, <1>2, <3>1, <3>2, ProceedTypes
    <2>4. CASE GatherEnds
      <3>1. results' \in [DOMAIN batch -> {"ok", "error"}] /\ phase' = "flushing"
        BY <2>4 DEF GatherEnds
      <3>2. DOMAIN batch = 1 .. Len(batch)
        BY <1>2 DEF Positions
      <3>3. /\ results' \in Seq(Outcome) /\ Len(results') = Len(batch)
            /\ \A n \in 1 .. Len(results') : results'[n] \in {"ok", "error"}
        BY <1>3, <3>1, <3>2 DEF Outcome
      <3>4. Answers(results)'
        BY <1>1, <1>3, <3>3 DEF Answers
      <3> QED BY <3>1, <3>3, <3>4
    <2>5. CASE GatherCancelled
      <3>1. results' = CancelledFrom(<<>>) /\ phase' = "flushing"
        BY <2>5 DEF GatherCancelled
      <3>2. Answers(results') /\ Len(results') = Len(batch)
        BY <1>2, <1>3, <3>1, CutShort
      <3>3. Answers(results)'
        BY <1>1, <3>2 DEF Answers, CallAt
      <3> QED BY <3>1, <3>2, <3>3
    <2> QED BY <2>1, <2>2, <2>3, <2>4, <2>5
  <1>5. flushed \in 0 .. Len(results')
    <2>1. flushed = 0
      BY <1>1 DEF AnswersInv, BatchInv, BatchPhase
    <2>2. Len(results') \in Nat
      BY <1>4 DEF Answers
    <2> QED BY <2>1, <2>2
  <1>6. StageOK'
    BY <1>1, <1>4 DEF StageOK, BatchPhase, Publishing, Stage3, DispatchPhase
  <1> QED BY <1>1, <1>2, <1>4, <1>5, <1>6 DEF DispatchInv, workspaceVars

\* Stage 3 goes through complete results; only a call that may ask for the end
\* of the run is remembered as such a request.
LEMMA FlushingTypes ==
    ASSUME DispatchInv,
           \/ FlushResult \/ StartPersist \/ LastWrite \/ WriteFails
           \/ Announce \/ Mint
    PROVE  DispatchInv'
  <1>1. /\ UNCHANGED <<queue, batch, results>>
        /\ phase \in Stage3 /\ phase' \in Stage3
        /\ flushed < Len(batch)
    BY DEF FlushResult, StartPersist, LastWrite, WriteFails, Announce, Mint,
           dispatchVars, batchVars, answerVars, DispatchInv, StageOK, Stage3, Publishing
  <1>2. /\ queue \in Seq(Call) /\ Positions /\ Answers(results)
        /\ Len(results) = Len(batch) /\ flushed \in 0 .. Len(results)
    BY <1>1 DEF DispatchInv, StageOK
  <1>3. Len(results) \in Nat
    BY <1>2 DEF Answers
  <1>4. Positions' /\ Answers(results)' /\ queue' \in Seq(Call)
    BY <1>1, <1>2 DEF Positions, Answers, CallAt
  <1>5. CASE FlushResult
    <2>1. /\ flushed' = flushed + 1 /\ phase' = "flushing"
          /\ request' = IF results[Next3] \in {"asked", "unable"} THEN CallAt(Next3)
                        ELSE request
          /\ UNCHANGED <<minted, announced, persisted>>
      BY <1>5 DEF FlushResult, Answer, workspaceVars
    <2>2. Next3 \in 1 .. Len(results)
      BY <1>1, <1>2, <1>3 DEF Next3
    <2>3. results[Next3] \in {"asked", "unable"}
            => CallAt(Next3) \in {"ask_user", "return_unable"}
      BY <1>2, <2>2 DEF Answers
    <2>4. request' \in {None, "ask_user", "return_unable"}
      BY <2>1, <2>3 DEF DispatchInv
    <2>5. flushed' \in 0 .. Len(results')
      BY <1>1, <1>2, <1>3, <2>1
    <2>6. StageOK'
      BY <1>1, <1>2, <2>1 DEF StageOK, BatchPhase, DispatchPhase, Publishing
    <2> QED BY <1>4, <2>1, <2>4, <2>5, <2>6 DEF DispatchInv
  <1>6. CASE StartPersist \/ LastWrite \/ Announce
    <2>1. phase' \in Publishing /\ ToPersist /\ UNCHANGED <<flushed, request>>
      BY <1>6 DEF StartPersist, LastWrite, Announce, dispatchVars, batchVars,
                  DispatchInv, StageOK, Publishing
    <2>2. /\ minted' \subseteq minted \cup {CallAt(Next3)}
          /\ announced' \subseteq announced \cup {CallAt(Next3)}
          /\ persisted' \subseteq persisted \cup {CallAt(Next3)}
      BY <1>6 DEF StartPersist, LastWrite, Announce, dispatchVars, workspaceVars
    <2>3. minted' \cup announced' \cup persisted' \subseteq Deliverables
      BY <2>1, <2>2 DEF DispatchInv, ToPersist
    <2>4. ToPersist'
      BY <1>1, <2>1 DEF ToPersist, CallAt, Next3
    <2>5. StageOK'
      BY <1>1, <1>2, <2>1, <2>4 DEF StageOK, BatchPhase, DispatchPhase, Publishing, Stage3
    <2> QED BY <1>1, <1>4, <2>1, <2>3, <2>5 DEF DispatchInv
  <1>7. CASE WriteFails \/ Mint
    <2>1. /\ flushed' = flushed + 1 /\ phase' = "flushing" /\ request' = request
          /\ phase \in Publishing
      BY <1>7 DEF WriteFails, Mint, Answer, Publishing
    <2>2. CallAt(Next3) \in Deliverables
      BY <2>1 DEF DispatchInv, StageOK, ToPersist
    <2>3. minted' \cup announced' \cup persisted' \subseteq Deliverables
      BY <1>7, <2>2 DEF WriteFails, Mint, workspaceVars, DispatchInv
    <2>4. flushed' \in 0 .. Len(results')
      BY <1>1, <1>2, <1>3, <2>1
    <2>5. StageOK'
      BY <1>1, <1>2, <2>1 DEF StageOK, BatchPhase, DispatchPhase, Publishing, Stage3
    <2> QED BY <1>4, <2>1, <2>3, <2>4, <2>5 DEF DispatchInv
  <1> QED BY <1>5, <1>6, <1>7

\* A step that changes nothing keeps the types.
LEMMA DispatchStutter ==
    ASSUME DispatchInv, UNCHANGED allVars
    PROVE  DispatchInv'
  BY DEF DispatchInv, allVars, vars, dispatchVars, batchVars, Positions, Answers,
         StageOK, Resting, ToPersist, CallAt, Next3, workspaceVars

\* The dispatch stays typed throughout.
LEMMA DispatchInvariant == Spec => []DispatchInv
  <1>1. StartRun => DispatchInv
    <2> SUFFICES ASSUME StartRun PROVE DispatchInv
      OBVIOUS
    <2> USE DEF StartRun, Init
    <2>1. Resting
      BY DEF Resting
    <2>2. Positions /\ Answers(results) /\ flushed \in 0 .. Len(results)
      BY <2>1 DEF Resting, Positions, Answers
    <2>3. StageOK
      BY <2>1 DEF StageOK, BatchPhase, Publishing, Stage3, Phase
    <2>4. queue \in Seq(Call) /\ minted \cup announced \cup persisted \subseteq Deliverables
      OBVIOUS
    <2> QED BY <2>1, <2>2, <2>3, <2>4 DEF DispatchInv, Resting
  <1>2. AnswersInv /\ AnswersInv' /\ DispatchInv /\ [NextStep]_allVars => DispatchInv'
    <2> SUFFICES ASSUME AnswersInv, ListsOK', DispatchInv, NextStep
                 PROVE  DispatchInv'
      BY DispatchStutter DEF AnswersInv
    <2>1. CASE LoopOnly \/ LoopEvents
      BY <2>1, LoopTypes
    <2>2. CASE DispatchStep
      BY <2>2, ValidateTypes, RunningTypes, FlushingTypes, LeavingTypes DEF DispatchStep
    <2>3. CASE DispatchEnvironment
      BY <2>3, RunningTypes, LeavingTypes DEF DispatchEnvironment
    <2>4. CASE ResumeTurn
      BY <2>4, LeavingTypes
    <2> QED BY <2>1, <2>2, <2>3, <2>4 DEF NextStep
  <1> QED BY <1>1, <1>2, AnswersInvariant, PTL DEF Spec

-----------------------------------------------------------------------------
(***************************************************************************)
(* The iteration counter.                                                  *)
(***************************************************************************)

\* The funnel saves the iteration it is given, and asks when it is about the
\* iteration limit.
LEMMA FunnelCounts ==
    ASSUME CountInv, NEW k, NEW i \in 0 .. MaxIterations, NEW open,
           i < MaxIterations \/ k = "iteration_limit",
           HandleFailure(FailureOf(k), i, open)
    PROVE  /\ record' # NoRecord =>
                /\ record'.iteration \in 0 .. MaxIterations
                /\ record'.origin # "iteration_limit" => record'.iteration < MaxIterations
           /\ k = "iteration_limit" => done'
  <1> DEFINE f == FailureOf(k)
             action == Decide(f, attempts[k])
             counts == [attempts EXCEPT ![k] = @ + 1]
             learned == TrackLesson(lessons, k)
             saved == Snapshot(k, i, counts, learned, open)
  <1>1. f.kind = k
    BY DEF FailureOf
  <1>2. /\ record' = IF action = "ask_user" THEN saved ELSE record
        /\ done' = (done \/ action \notin Continuing)
    BY <1>1 DEF HandleFailure
  <1>3. saved.iteration = i /\ saved.origin = k
    BY DEF Snapshot
  <1>4. k = "iteration_limit" => done'
    <2> SUFFICES ASSUME k = "iteration_limit" PROVE action \notin Continuing
      BY <1>2
    <2>1. f.suggested = "ask_user"
      BY DEF FailureOf, DefaultAction, FailureKind
    <2> QED BY <2>1 DEF Decide, Continuing
  <1> HIDE DEF saved, action
  <1>5. CASE action = "ask_user"
    BY <1>2, <1>3, <1>4, <1>5
  <1>6. CASE action # "ask_user"
    BY <1>2, <1>4, <1>6 DEF CountInv
  <1> QED BY <1>5, <1>6

\* A failure of an iteration that runs.
LEMMA FailureCounts ==
    ASSUME CountInv, Iterating, NEW k, NEW open,
           HandleFailure(FailureOf(k), iteration, open), iteration' = iteration
    PROVE  CountInv'
  <1>1. iteration \in 0 .. MaxIterations /\ iteration < MaxIterations
    BY DEF CountInv
  <1> QED BY <1>1, FunnelCounts DEF CountInv

\* The loop counts an iteration only while some are left.
LEMMA LoopCounts ==
    ASSUME CountInv, LoopStep
    PROVE  CountInv'
  <1> USE BoundsAssumption
  <1>1. CASE LoopExit \/ LlmCompletes \/ LlmCancelled \/ BackoffEnds
               \/ CancelledAfterStream \/ StartTools
    <2>1. UNCHANGED <<iteration, record>> /\ (Iterating' => Iterating)
      BY <1>1 DEF LoopExit, LlmCompletes, LlmCancelled, BackoffEnds,
                  CancelledAfterStream, StartTools, failureVars, CloseWith,
                  Iterating, Stopped
    <2> QED BY <2>1 DEF CountInv
  <1>2. CASE CancelledAtTop
    <2>1. /\ phase = "top" /\ ~done /\ iteration' = iteration + 1 /\ phase' = "ended"
          /\ record' = record
      BY <1>2 DEF CancelledAtTop, CloseWith
    <2>2. iteration < MaxIterations
      BY <2>1 DEF CountInv, Iterating, Stopped
    <2> QED BY <2>1, <2>2 DEF CountInv, Iterating, Stopped
  <1>3. CASE LimitHit
    <2> DEFINE i == iteration + 1
    <2>1. /\ phase = "top" /\ ~done /\ iteration' = i /\ phase' = "top"
          /\ HandleFailure(FailureOf(PreStep(i)), i, dangling)
      BY <1>3 DEF LimitHit
    <2>2. iteration \in 0 .. MaxIterations /\ iteration < MaxIterations
      BY <2>1 DEF CountInv, Iterating, Stopped
    <2>3. i \in 0 .. MaxIterations
      BY <2>2
    <2>4. i >= MaxIterations => PreStep(i) = "iteration_limit"
      BY <2>3 DEF PreStep
    <2> HIDE DEF i
    <2>5. i < MaxIterations \/ PreStep(i) = "iteration_limit"
      BY <2>3, <2>4
    <2>6. PICK k : k = PreStep(i)
      OBVIOUS
    <2>7. /\ record' # NoRecord =>
                /\ record'.iteration \in 0 .. MaxIterations
                /\ record'.origin # "iteration_limit" => record'.iteration < MaxIterations
          /\ k = "iteration_limit" => done'
      BY <2>1, <2>3, <2>5, <2>6, FunnelCounts
    <2> QED BY <2>1, <2>3, <2>5, <2>6, <2>7 DEF CountInv, Iterating
  <1>4. CASE CallLlm
    <2>1. /\ phase = "top" /\ ~done /\ iteration' = iteration + 1
          /\ PreStep(iteration + 1) = None /\ record' = record
      BY <1>4 DEF CallLlm
    <2>2. iteration \in 0 .. MaxIterations /\ iteration < MaxIterations
      BY <2>1 DEF CountInv, Iterating, Stopped
    <2>3. iteration + 1 < MaxIterations
      BY <2>1, <2>2 DEF PreStep, None
    <2> QED BY <2>1, <2>2, <2>3 DEF CountInv
  <1>5. CASE LlmFails
    <2>1. PICK k \in {"transient_provider", "capability_gap"} :
            HandleFailure(FailureOf(k), iteration, dangling)
      BY <1>5 DEF LlmFails
    <2>2. Iterating /\ iteration' = iteration
      BY <1>5 DEF LlmFails, Iterating, Stopped
    <2> QED BY <2>1, <2>2, FailureCounts
  <1>6. CASE ResponseRejected
    <2>1. Iterating /\ iteration' = iteration
      BY <1>6 DEF ResponseRejected, Iterating, Stopped
    <2>2. PICK k, open : k = PostLlm /\ open = (dangling \/ queue # <<>>)
      OBVIOUS
    <2>3. HandleFailure(FailureOf(k), iteration, open)
      BY <1>6, <2>2 DEF ResponseRejected
    <2> QED BY <2>1, <2>3, FailureCounts
  <1>7. CASE TextOnly
    <2>1. Iterating /\ iteration' = iteration
      BY <1>7 DEF TextOnly, Iterating, Stopped
    <2>2. HandleFailure(FailureOf("no_progress"), iteration, dangling)
      BY <1>7 DEF TextOnly
    <2> QED BY <2>1, <2>2, FailureCounts
  <1> QED BY <1>1, <1>2, <1>3, <1>4, <1>5, <1>6, <1>7 DEF LoopStep

\* The dispatch counts no iteration; a question saves the number of the one
\* that asked.
LEMMA DispatchCounts ==
    ASSUME CountInv, DispatchStep \/ DispatchEnvironment \/ LoopEvents
    PROVE  CountInv'
  <1>1. CASE AskUser
    <2>1. /\ phase = "flushing" /\ phase' = "ended" /\ iteration' = iteration
          /\ record' = Snapshot(None, iteration, attempts, lessons, dangling)
      BY <1>1 DEF AskUser, RequestEnds, Flushed
    <2>2. iteration \in 0 .. MaxIterations /\ iteration < MaxIterations
      BY <2>1 DEF CountInv, Iterating, Stopped
    <2>3. record'.iteration = iteration
      BY <2>1 DEF Snapshot
    <2> QED BY <2>1, <2>2, <2>3 DEF CountInv, Iterating, Stopped
  <1>2. CASE ~AskUser
    <2>1. UNCHANGED <<iteration, record>> /\ (Iterating' => Iterating)
      <3> USE DEF Iterating, Stopped, failureVars
      <3>1. CASE ValidateCalls \/ CancelledBeforeBatch
        BY <3>1 DEF ValidateCalls, CancelledBeforeBatch, Return
      <3>2. CASE StartBatch \/ ToolEnds \/ TaskCancelledInTool
        BY <3>2 DEF StartBatch, ToolEnds, TaskCancelledInTool, Proceed
      <3>3. CASE GatherEnds \/ GatherCancelled
        BY <3>3 DEF GatherEnds, GatherCancelled
      <3>4. CASE FlushResult \/ StartPersist \/ LastWrite \/ WriteFails
                  \/ Announce \/ Mint
        BY <3>4 DEF FlushResult, StartPersist, LastWrite, WriteFails, Announce, Mint
      <3>5. CASE BatchEnds
        BY <3>5 DEF BatchEnds, Return, Flushed
      <3>6. CASE ReturnUnable
        BY <3>6 DEF ReturnUnable, RequestEnds, Flushed
      <3>7. CASE TaskCancelledInGather \/ TaskCancelledInPersist
        BY <3>7 DEF TaskCancelledInGather, TaskCancelledInPersist, LeaveDispatch,
                    CloseWith
      <3>8. CASE NotebookUnreadable
        BY <3>8 DEF NotebookUnreadable
      <3>9. CASE LoopEvents
        BY <3>9 DEF LoopEvents, LlmSignal, Tick, Cancel, TaskCancelledInLlm,
                    TaskCancelledInBackoff, CloseWith
      <3> QED BY <1>2, <3>1, <3>2, <3>3, <3>4, <3>5, <3>6, <3>7, <3>8, <3>9
              DEF DispatchStep, DispatchEnvironment
    <2> QED BY <2>1 DEF CountInv
  <1> QED BY <1>1, <1>2

\* A run never counts more iterations than it may, over all its resumptions.
LEMMA CountInvariant == Spec => []CountInv
  <1>1. StartRun => CountInv
    BY BoundsAssumption DEF StartRun, Init, CountInv
  <1>2. CountInv /\ [NextStep]_allVars => CountInv'
    <2> SUFFICES ASSUME CountInv, [NextStep]_allVars
                 PROVE  CountInv'
      OBVIOUS
    <2>1. CASE LoopOnly
      BY <2>1, LoopCounts DEF LoopOnly
    <2>2. CASE DispatchStep \/ DispatchEnvironment \/ LoopEvents
      BY <2>2, DispatchCounts
    <2>3. CASE ResumeTurn
      <3>1. /\ record # NoRecord /\ record' = record
            /\ iteration' = IF record.origin = "iteration_limit" THEN 0
                            ELSE record.iteration
        BY <2>3 DEF ResumeTurn, Resume, RestoredIteration
      <3> QED BY <3>1, BoundsAssumption DEF CountInv
    <2>4. CASE UNCHANGED allVars
      BY <2>4 DEF CountInv, Iterating, allVars, vars
    <2> QED BY <2>1, <2>2, <2>3, <2>4 DEF NextStep
  <1> QED BY <1>1, <1>2, PTL DEF Spec

\* At every moment the batch is a list of positions of the response, results
\* come in its order and no more than it has, stage 3 finds them complete, only
\* deliverables are written or minted, and the iteration counter stays within
\* max_iterations (dispatch_tools, run_loop, RunState.from_suspension).
THEOREM BatchTypes == Spec => []BatchTypeOK
  <1>1. DispatchInv /\ CountInv => BatchTypeOK
    <2> SUFFICES ASSUME DispatchInv, CountInv
                 PROVE  BatchTypeOK
      OBVIOUS
    <2>1. \A n \in DOMAIN batch : batch[n] \in DOMAIN queue
      <3>1. DOMAIN batch = 1 .. Len(batch) /\ DOMAIN queue = 1 .. Len(queue)
        BY DEF DispatchInv, Positions
      <3> QED BY <3>1 DEF DispatchInv, Positions
    <2>2. Len(results) <= Len(batch) /\ ToSet(results) \subseteq Outcome
      BY DEF DispatchInv, Answers, ToSet
    <2> QED BY <2>1, <2>2 DEF DispatchInv, StageOK, CountInv, BatchTypeOK
  <1> QED BY <1>1, DispatchInvariant, CountInvariant, PTL

-----------------------------------------------------------------------------
(***************************************************************************)
(* What the host sees.  A step is hidden from it, tells it that the turn   *)
(* is over, raises, asks the model, cancels, or resumes.  The invariant is *)
(* what this needs: a request is an iteration of its own, here and in the  *)
(* record; the turn is done exactly when the host was told so; and nothing *)
(* reaches the model, or judges its answer, with done set.                 *)
(***************************************************************************)

OpenPhase == {"streaming", "answered", "backoff"}

RequestInv ==
    /\ llmCalls \in Nat /\ llmCalls <= iteration /\ llmCalls < MaxIterations
    /\ record # NoRecord =>
         /\ record.llmCalls \in Nat
         /\ record.llmCalls <= record.iteration /\ record.llmCalls < MaxIterations

ClosingInv ==
    /\ done <=> emitted # <<>>
    /\ phase = "ended" => done
    /\ phase \in OpenPhase => ~done

HostInv == ListsOK /\ CountInv /\ RequestInv /\ ClosingInv

\* The iteration counter goes on by at most one.
Goes == iteration' \in {iteration, iteration + 1}

\* The record is the one the host has, or saves the counters of this moment.
Saves ==
    \/ record' = record
    \/ record' # NoRecord /\ record'.llmCalls = llmCalls /\ record'.iteration = iteration'

Hidden ==
    /\ phase \notin Stopped /\ phase' \notin Stopped
    /\ phase' \in OpenPhase => ~done
    /\ done' <=> done
    /\ Goes /\ UNCHANGED <<emitted, record, llmCalls, cancelSet>>

Tells ==
    /\ phase \notin Stopped /\ phase' \notin OpenPhase \cup {"raised"}
    /\ done' /\ emitted' # <<>>
    /\ Goes /\ Saves /\ UNCHANGED <<llmCalls, cancelSet>>

Raises ==
    /\ phase \notin Stopped /\ phase' = "raised"
    /\ Goes /\ UNCHANGED <<done, emitted, record, llmCalls, cancelSet>>

\* A closing event is something the host is told.
LEMMA SomethingTold ==
    ASSUME NEW s \in Seq(ClosingEvent), NEW event \in ClosingEvent
    PROVE  Append(s, event) # <<>> /\ s \o <<event>> # <<>>
  <1>1. Len(Append(s, event)) = Len(s) + 1 /\ Len(s) \in Nat /\ Len(<<>>) = 0
    OBVIOUS
  <1>2. <<event>> \in Seq(ClosingEvent) /\ Len(<<event>>) = 1
    OBVIOUS
  <1>3. Len(s \o <<event>>) = Len(s) + 1
    BY <1>2
  <1> QED BY <1>1, <1>3

\* The funnel goes on without a word, or tells the host and stops the loop.
LEMMA FunnelTells ==
    ASSUME ListsOK, NEW k \in FailureKind, NEW i, NEW open,
           HandleFailure(FailureOf(k), i, open), iteration' = i
    PROVE  \/ (done' <=> done) /\ UNCHANGED <<emitted, record>>
           \/ done' /\ emitted' # <<>> /\ Saves /\ ~BacksOff(FailureOf(k))
  <1> DEFINE f == FailureOf(k)
             action == Decide(f, attempts[k])
             counts == [attempts EXCEPT ![k] = @ + 1]
             learned == TrackLesson(lessons, k)
             saved == Snapshot(k, i, counts, learned, open)
  <1>1. f.kind = k /\ f.suggested = DefaultAction[k]
    BY DEF FailureOf
  <1>2. action \in {"handoff", f.suggested}
    BY DEF Decide
  <1>3. f.suggested \in Action
    BY <1>1 DEF DefaultAction, FailureKind, Action
  <1>4. /\ emitted' = emitted \o Closing(action)
        /\ record' = IF action = "ask_user" THEN saved ELSE record
        /\ done' = (done \/ action \notin Continuing)
        /\ BacksOff(f) => action = "retry"
    BY <1>1 DEF HandleFailure, BacksOff
  <1>5. saved.origin = k /\ saved.llmCalls = llmCalls /\ saved.iteration = i
    BY DEF Snapshot
  <1>6. saved # NoRecord
    <2>1. k # "no record"
      BY DEF FailureKind
    <2>2. NoRecord.origin = "no record"
      BY DEF NoRecord
    <2> QED BY <1>5, <2>1, <2>2
  <1>7. action \in Action
    BY <1>2, <1>3 DEF Action
  <1> HIDE DEF action, saved, f
  <1>8. CASE action \in Continuing
    <2>1. Closing(action) = <<>>
      BY <1>8 DEF Continuing, Closing
    <2>2. emitted' = emitted
      BY <1>4, <2>1, ConcatEmptySeq DEF ListsOK
    <2> QED BY <1>4, <1>8, <2>2 DEF Continuing
  <1>9. CASE action \notin Continuing
    <2>1. Closing(action) \in {<<"UserInputRequested">>, <<"Handoff">>, <<"PartialRunSummary">>}
      BY <1>7, <1>9 DEF Continuing, Action, Closing
    <2>2. emitted' # <<>>
      <3>1. PICK event \in ClosingEvent : Closing(action) = <<event>>
        BY <2>1 DEF ClosingEvent
      <3> QED BY <1>4, <3>1, SomethingTold DEF ListsOK
    <2>3. Saves
      BY <1>4, <1>5, <1>6 DEF Saves
    <2> QED BY <1>4, <1>9, <2>2, <2>3 DEF f, Continuing
  <1> QED BY <1>8, <1>9

\* So does a step whose failure is handled where the turn is open.
LEMMA FailureTells ==
    ASSUME HostInv, NEW k \in FailureKind, NEW i, NEW open,
           HandleFailure(FailureOf(k), i, open), iteration' = i, Goes,
           phase \notin Stopped, phase' = "top", UNCHANGED <<llmCalls, cancelSet>>
    PROVE  Hidden \/ Tells
  <1>1. \/ (done' <=> done) /\ UNCHANGED <<emitted, record>>
        \/ done' /\ emitted' # <<>> /\ Saves
    BY FunnelTells DEF HostInv
  <1> QED BY <1>1 DEF Hidden, Tells, OpenPhase, Stopped

\* An event followed by the end of the turn tells the host.
LEMMA ClosedTells ==
    ASSUME HostInv, CloseWith("RunCancelled"), phase \notin Stopped, Goes,
           UNCHANGED <<record, llmCalls, cancelSet>>
    PROVE  Tells
  <1>1. emitted' = Append(emitted, "RunCancelled") /\ done' /\ phase' = "ended"
    BY DEF CloseWith
  <1>2. "RunCancelled" \in ClosingEvent /\ emitted \in Seq(ClosingEvent)
    BY DEF ClosingEvent, HostInv, ListsOK
  <1>3. emitted' # <<>>
    BY <1>1, <1>2, SomethingTold
  <1> QED BY <1>1, <1>3 DEF Tells, Saves, OpenPhase

\* What the host sees of a step of the loop.
LEMMA LoopTells ==
    ASSUME HostInv, LoopOnly
    PROVE  Hidden \/ Tells \/ CallLlm
  <1> USE DEF LoopOnly
  <1>1. CASE CallLlm
    BY <1>1
  <1>2. CASE LoopExit
    BY <1>2 DEF LoopExit, failureVars, HostInv, ClosingInv, Tells, Goes, Saves,
                OpenPhase, Stopped
  <1>3. CASE CancelledAtTop
    BY <1>3, ClosedTells DEF CancelledAtTop, Goes, Stopped
  <1>4. CASE LimitHit
    <2>1. PICK k, i : k = PreStep(iteration + 1) /\ i = iteration + 1
      OBVIOUS
    <2>2. k \in FailureKind
      BY <1>4, <2>1 DEF LimitHit, PreStep, FailureKind
    <2>3. /\ HandleFailure(FailureOf(k), i, dangling) /\ iteration' = i /\ Goes
          /\ phase \notin Stopped /\ phase' = "top" /\ UNCHANGED <<llmCalls, cancelSet>>
      BY <1>4, <2>1 DEF LimitHit, Goes, Stopped
    <2> QED BY <2>2, <2>3, FailureTells
  <1>5. CASE LlmCompletes \/ BackoffEnds \/ StartTools
    BY <1>5 DEF LlmCompletes, BackoffEnds, StartTools, failureVars, HostInv,
                ClosingInv, Hidden, Goes, OpenPhase, Stopped
  <1>6. CASE LlmFails
    <2>1. PICK k \in {"transient_provider", "capability_gap"} :
            /\ phase' = IF BacksOff(FailureOf(k)) THEN "backoff" ELSE "top"
            /\ HandleFailure(FailureOf(k), iteration, dangling)
      BY <1>6 DEF LlmFails
    <2>2. /\ phase = "streaming" /\ UNCHANGED <<iteration, llmCalls, cancelSet>> /\ ~done
      BY <1>6 DEF LlmFails, HostInv, ClosingInv, OpenPhase
    <2>3. \/ (done' <=> done) /\ UNCHANGED <<emitted, record>>
          \/ done' /\ emitted' # <<>> /\ Saves /\ ~BacksOff(FailureOf(k))
      BY <2>1, <2>2, FunnelTells DEF HostInv, FailureKind
    <2> QED BY <2>1, <2>2, <2>3 DEF Hidden, Tells, Goes, OpenPhase, Stopped
  <1>7. CASE LlmCancelled
    BY <1>7, ClosedTells DEF LlmCancelled, Goes, Stopped
  <1>8. CASE CancelledAfterStream
    BY <1>8, ClosedTells DEF CancelledAfterStream, Goes, Stopped
  <1>9. CASE ResponseRejected
    <2>1. PICK k, open : k = PostLlm /\ open = (dangling \/ queue # <<>>)
      OBVIOUS
    <2>2. k \in FailureKind
      BY <1>9, <2>1 DEF ResponseRejected, PostLlm, FailureKind
    <2>3. /\ HandleFailure(FailureOf(k), iteration, open) /\ iteration' = iteration /\ Goes
          /\ phase \notin Stopped /\ phase' = "top" /\ UNCHANGED <<llmCalls, cancelSet>>
      BY <1>9, <2>1 DEF ResponseRejected, Goes, Stopped
    <2> QED BY <2>2, <2>3, FailureTells
  <1>10. CASE TextOnly
    <2>1. /\ HandleFailure(FailureOf("no_progress"), iteration, dangling)
          /\ iteration' = iteration /\ Goes
          /\ phase \notin Stopped /\ phase' = "top" /\ UNCHANGED <<llmCalls, cancelSet>>
      BY <1>10 DEF TextOnly, Goes, Stopped
    <2> QED BY <2>1, FailureTells DEF FailureKind
  <1> QED BY <1>1, <1>2, <1>3, <1>4, <1>5, <1>6, <1>7, <1>8, <1>9, <1>10 DEF LoopStep

\* What the host sees of the dispatch: a tool that ends the run, a cancellation,
\* a question or a surrender; else nothing, or an error nobody catches.
LEMMA DispatchTells ==
    ASSUME HostInv, DispatchStep \/ DispatchEnvironment
    PROVE  Hidden \/ Tells \/ Raises
  <1>1. emitted \in Seq(ClosingEvent) /\ (done <=> emitted # <<>>)
    BY DEF HostInv, ListsOK, ClosingInv
  <1>2. CASE ValidateCalls \/ StartBatch \/ ToolEnds \/ TaskCancelledInTool
               \/ GatherEnds \/ GatherCancelled \/ StartPersist \/ LastWrite
               \/ WriteFails \/ Announce \/ Mint
    BY <1>2 DEF ValidateCalls, StartBatch, ToolEnds, TaskCancelledInTool, Proceed,
                GatherEnds, GatherCancelled, StartPersist, LastWrite, WriteFails,
                Announce, Mint, failureVars,
                Hidden, Goes, OpenPhase, Stopped
  <1>3. CASE CancelledBeforeBatch
    <2>1. emitted' = Append(emitted, "RunCancelled") /\ done' /\ phase' = "top"
      BY <1>3 DEF CancelledBeforeBatch, Return
    <2>2. emitted' # <<>>
      BY <1>1, <2>1, SomethingTold DEF ClosingEvent
    <2> QED BY <1>3, <2>1, <2>2
            DEF CancelledBeforeBatch, Tells, Goes, Saves, OpenPhase, Stopped
  <1>4. CASE TaskCancelledInGather \/ TaskCancelledInPersist
    BY <1>4, ClosedTells
       DEF TaskCancelledInGather, TaskCancelledInPersist, LeaveDispatch, Goes, Stopped
  <1>5. CASE FlushResult
    <2> DEFINE finished == CallAt(Next3) = "return_done" /\ results[Next3] = "ok"
    <2>1. /\ done' = (done \/ finished)
          /\ emitted' = IF finished THEN Append(emitted, "ReturnDone") ELSE emitted
          /\ phase = "flushing" /\ phase' = phase
          /\ UNCHANGED <<iteration, record, llmCalls, cancelSet>>
      BY <1>5 DEF FlushResult
    <2> HIDE DEF finished
    <2>2. CASE finished
      <3>1. emitted' # <<>>
        BY <1>1, <2>1, <2>2, SomethingTold DEF ClosingEvent
      <3> QED BY <2>1, <2>2, <3>1 DEF Tells, Goes, Saves, OpenPhase, Stopped
    <2>3. CASE ~finished
      BY <2>1, <2>3 DEF Hidden, Goes, OpenPhase, Stopped
    <2> QED BY <2>2, <2>3
  <1>6. CASE NotebookUnreadable
    BY <1>6 DEF NotebookUnreadable, failureVars, Raises, Goes, Stopped
  <1>7. CASE BatchEnds
    <2>1. /\ phase = "flushing" /\ phase' = "top"
          /\ emitted' = emitted \o CancelNotice
          /\ done' = (done \/ CancelNotice # <<>>)
          /\ UNCHANGED <<iteration, record, llmCalls, cancelSet>>
      BY <1>7 DEF BatchEnds, Return, Flushed, StopsLoop
    <2>2. CASE CancelNotice = <<>>
      <3>1. emitted' = emitted
        BY <1>1, <2>1, <2>2, ConcatEmptySeq
      <3> QED BY <2>1, <2>2, <3>1 DEF Hidden, Goes, OpenPhase, Stopped
    <2>3. CASE CancelNotice = <<"RunCancelled">>
      <3>1. emitted' # <<>> /\ CancelNotice # <<>>
        <4>1. <<"RunCancelled">> # <<>>
          OBVIOUS
        <4> QED BY <1>1, <2>1, <2>3, <4>1, SomethingTold DEF ClosingEvent
      <3> QED BY <2>1, <3>1 DEF Tells, Goes, Saves, OpenPhase, Stopped
    <2> QED BY <2>2, <2>3 DEF CancelNotice
  <1>8. CASE AskUser \/ ReturnUnable
    <2>1. PICK event \in ClosingEvent : emitted' = emitted \o CancelNotice \o <<event>>
      BY <1>8 DEF AskUser, ReturnUnable, RequestEnds, ClosingEvent
    <2>2. emitted \o CancelNotice \in Seq(ClosingEvent)
      <3>1. CancelNotice \in Seq(ClosingEvent)
        <4>1. <<"RunCancelled">> \in Seq(ClosingEvent) /\ <<>> \in Seq(ClosingEvent)
          BY DEF ClosingEvent
        <4> QED BY <4>1 DEF CancelNotice
      <3> QED BY <1>1, <3>1, ConcatProperties
    <2>3. emitted' # <<>>
      BY <2>1, <2>2, SomethingTold
    <2>4. /\ phase = "flushing" /\ phase' = "ended" /\ done'
          /\ UNCHANGED <<iteration, llmCalls, cancelSet>>
      BY <1>8 DEF AskUser, ReturnUnable, RequestEnds, Flushed
    <2>5. Saves
      <3>1. CASE AskUser
        <4>1. record' = Snapshot(None, iteration, attempts, lessons, dangling)
          BY <3>1 DEF AskUser
        <4>2. /\ record'.origin = None /\ record'.llmCalls = llmCalls
              /\ record'.iteration = iteration
          BY <4>1 DEF Snapshot
        <4>3. NoRecord.origin = "no record"
          BY DEF NoRecord
        <4>4. record' # NoRecord
          BY <4>2, <4>3 DEF None
        <4> QED BY <2>4, <4>2, <4>4 DEF Saves
      <3>2. CASE ReturnUnable
        BY <3>2 DEF ReturnUnable, Saves
      <3> QED BY <1>8, <3>1, <3>2
    <2> QED BY <2>3, <2>4, <2>5 DEF Tells, Goes, OpenPhase, Stopped
  <1> QED BY <1>2, <1>3, <1>4, <1>5, <1>6, <1>7, <1>8
          DEF DispatchStep, DispatchEnvironment

\* Every step is of one of the six kinds.
LEMMA HostSees ==
    ASSUME HostInv, NextStep
    PROVE  Hidden \/ Tells \/ Raises \/ CallLlm \/ Cancel \/ ResumeTurn
  <1>1. CASE LoopEvents
    <2>1. CASE LlmSignal
      BY <2>1 DEF LlmSignal, failureVars, HostInv, ClosingInv, Hidden, Goes,
                  OpenPhase, Stopped
    <2>2. CASE Tick
      BY <2>2 DEF Tick, failureVars, HostInv, ClosingInv, Hidden, Goes
    <2>3. CASE TaskCancelledInLlm
      BY <2>3, ClosedTells DEF TaskCancelledInLlm, Goes, Stopped
    <2>4. CASE TaskCancelledInBackoff
      BY <2>4 DEF TaskCancelledInBackoff, failureVars, Raises, Goes, Stopped
    <2> QED BY <1>1, <2>1, <2>2, <2>3, <2>4 DEF LoopEvents
  <1> QED BY <1>1, LoopTells, DispatchTells DEF NextStep

\* Every kind of step keeps requests within iterations and done with its event.
LEMMA HostKept ==
    ASSUME HostInv, NextStep
    PROVE  RequestInv' /\ ClosingInv'
  <1> USE BoundsAssumption
  <1>1. /\ iteration \in Nat /\ llmCalls \in Nat
        /\ llmCalls <= iteration /\ llmCalls < MaxIterations
        /\ done <=> emitted # <<>>
    BY DEF HostInv, CountInv, RequestInv, ClosingInv
  <1>2. CASE Hidden
    <2>1. RequestInv'
      BY <1>1, <1>2 DEF Hidden, Goes, HostInv, RequestInv
    <2>2. ClosingInv'
      BY <1>1, <1>2 DEF Hidden, ClosingInv, Stopped
    <2> QED BY <2>1, <2>2
  <1>3. CASE Tells
    <2>1. RequestInv'
      BY <1>1, <1>3 DEF Tells, Goes, Saves, HostInv, RequestInv
    <2>2. ClosingInv'
      BY <1>1, <1>3 DEF Tells, ClosingInv
    <2> QED BY <2>1, <2>2
  <1>4. CASE Raises
    <2>1. RequestInv'
      BY <1>1, <1>4 DEF Raises, Goes, HostInv, RequestInv
    <2>2. ClosingInv'
      BY <1>1, <1>4 DEF Raises, ClosingInv, OpenPhase
    <2> QED BY <2>1, <2>2
  <1>5. CASE CallLlm
    <2>1. /\ ~done /\ PreStep(iteration + 1) = None /\ phase' = "streaming"
          /\ iteration' = iteration + 1 /\ llmCalls' = llmCalls + 1
          /\ UNCHANGED <<done, emitted, record>>
      BY <1>5 DEF CallLlm
    <2>2. iteration + 1 < MaxIterations
      BY <1>1, <2>1 DEF PreStep, None
    <2>3. RequestInv'
      BY <1>1, <2>1, <2>2 DEF HostInv, RequestInv
    <2>4. ClosingInv'
      BY <1>1, <2>1 DEF ClosingInv
    <2> QED BY <2>3, <2>4
  <1>6. CASE Cancel
    BY <1>6 DEF Cancel, failureVars, HostInv, RequestInv, ClosingInv
  <1>7. CASE ResumeTurn
    <2>1. /\ record # NoRecord /\ record' = record
          /\ iteration' = IF record.origin = "iteration_limit" THEN 0 ELSE record.iteration
          /\ llmCalls' = IF record.origin = "iteration_limit" THEN 0 ELSE record.llmCalls
          /\ done' = FALSE /\ emitted' = <<>> /\ phase' = "top"
      BY <1>7 DEF ResumeTurn, Resume, RestoredIteration
    <2>2. RequestInv'
      BY <2>1 DEF HostInv, RequestInv
    <2>3. ClosingInv'
      BY <2>1 DEF ClosingInv, OpenPhase
    <2> QED BY <2>2, <2>3
  <1> QED BY <1>2, <1>3, <1>4, <1>5, <1>6, <1>7, HostSees

\* All that the refinement needs to know of a state.
LEMMA HostInvariant == Spec => []HostInv
  <1>1. StartRun => RequestInv /\ ClosingInv
    BY BoundsAssumption DEF StartRun, Init, RequestInv, ClosingInv, OpenPhase
  <1>2. HostInv /\ UNCHANGED allVars => RequestInv' /\ ClosingInv'
    BY DEF HostInv, RequestInv, ClosingInv, allVars, vars
  <1>3. HostInv /\ [NextStep]_allVars => RequestInv' /\ ClosingInv'
    BY <1>2, HostKept
  <1>4. AnswersInv /\ CountInv /\ RequestInv /\ ClosingInv <=> HostInv /\ AnswersInv
    BY DEF HostInv, AnswersInv
  <1> QED BY <1>1, <1>3, <1>4, AnswersInvariant, CountInvariant, PTL DEF Spec

\* Every step is a step of the abstract run, or hidden from the host.
LEMMA StepRefines ==
    ASSUME HostInv, NextStep
    PROVE  Promise!Next \/ UNCHANGED Promise!vars
  <1> USE BoundsAssumption DEF Promise!Next
  <1>1. /\ llmCalls \in Nat /\ llmCalls < MaxIterations
        /\ done <=> emitted # <<>>
    BY DEF HostInv, RequestInv, ClosingInv
  <1>2. CASE Hidden
    <2>1. HostStatus' = HostStatus /\ HostOffer' = HostOffer
      BY <1>2 DEF Hidden, HostStatus, HostOffer, Stopped
    <2> QED BY <1>2, <2>1 DEF Hidden, Promise!vars
  <1>3. CASE Tells
    <2>1. HostStatus = "running" /\ HostStatus' \in {"running", "stopped"}
      BY <1>3 DEF Tells, HostStatus, Stopped
    <2>2. HostOffer' \in {HostOffer, {MaxIterations - 1 - llmCalls}, {MaxIterations - 1}}
      <3>1. CASE record' = record
        BY <3>1 DEF HostOffer
      <3>2. CASE record' # NoRecord /\ record'.llmCalls = llmCalls
        BY <3>2 DEF HostOffer
      <3> QED BY <1>3, <3>1, <3>2 DEF Tells, Saves
    <2> QED BY <1>3, <2>1, <2>2 DEF Tells, Promise!Close
  <1>4. CASE Raises
    <2>1. HostStatus = "running" /\ HostStatus' = "raised" /\ HostOffer' = HostOffer
      BY <1>4 DEF Raises, HostStatus, HostOffer, Stopped
    <2> QED BY <1>4, <2>1 DEF Raises, Promise!Raise
  <1>5. CASE CallLlm
    <2>1. /\ phase = "top" /\ phase' = "streaming" /\ ~done /\ ~cancelSet
          /\ llmCalls' = llmCalls + 1
          /\ UNCHANGED <<emitted, cancelSet, record>>
      BY <1>5 DEF CallLlm, CancelSeen
    <2>2. HostStatus = "running" /\ HostStatus' = "running" /\ HostOffer' = HostOffer
      BY <2>1 DEF HostStatus, HostOffer
    <2>3. llmCalls' < MaxIterations
      BY <1>5, HostKept DEF RequestInv, NextStep
    <2> QED BY <1>1, <2>1, <2>2, <2>3 DEF Promise!Request
  <1>6. CASE Cancel
    <2>1. /\ phase \notin Stopped /\ cancelSet'
          /\ UNCHANGED <<phase, emitted, llmCalls, record>>
      BY <1>6 DEF Cancel, failureVars
    <2>2. HostStatus = "running" /\ HostStatus' = HostStatus /\ HostOffer' = HostOffer
      BY <2>1 DEF HostStatus, HostOffer, Stopped
    <2> QED BY <1>6, <2>1, <2>2 DEF Promise!Cancel, Cancel
  <1>7. CASE ResumeTurn
    <2>1. Resume
      BY <1>7 DEF ResumeTurn
    <2>2. HostStatus # "running" /\ HostStatus' = "running"
      BY <2>1 DEF Resume, HostStatus, Stopped
    <2>3. emitted' = <<>> /\ cancelSet' = FALSE /\ record' = record /\ record # NoRecord
      BY <2>1 DEF Resume
    <2>4. HostOffer' = HostOffer
      BY <2>3 DEF HostOffer
    <2>5. MaxIterations - 1 - llmCalls' \in HostOffer
      BY <2>1, <2>3 DEF Resume, HostOffer
    <2> QED BY <2>2, <2>3, <2>4, <2>5 DEF Promise!Resume
  <1> QED BY <1>2, <1>3, <1>4, <1>5, <1>6, <1>7, HostSees

\* With the staged dispatch of a workspace, too, the run implements what
\* BudgetedRun promises the host, but for its liveness: whatever tools are
\* refused, run at once, cut short, or raise, every step is a step of the
\* abstract run or hidden from the host.
THEOREM WorkspaceImplements == Spec => Promise!Spec
  <1>1. StartRun => Promise!Init
    <2> SUFFICES ASSUME StartRun PROVE Promise!Init
      OBVIOUS
    <2>1. HostStatus = "running" /\ HostOffer = {}
      BY DEF StartRun, Init, HostStatus, HostOffer
    <2> QED BY <2>1, BoundsAssumption DEF StartRun, Init, Promise!Init
  <1>2. HostInv /\ UNCHANGED allVars => UNCHANGED Promise!vars
    BY DEF allVars, vars, Promise!vars, HostStatus, HostOffer
  <1>3. HostInv /\ [NextStep]_allVars => [Promise!Next]_(Promise!vars)
    BY <1>2, StepRefines
  <1> QED BY <1>1, <1>3, HostInvariant, PTL DEF Spec, Promise!Spec
==============================================================================
