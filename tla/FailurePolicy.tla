---------------------------- MODULE FailurePolicy ----------------------------
(***************************************************************************)
(* The vocabulary of the failure spine: the closed set of failure kinds,   *)
(* the recovery actions, the static action of each kind                    *)
(* (agent/failure/kinds.py), DefaultPolicy's decision                      *)
(* (agent/failure/policy.py) and the lessons-learned list of the recovery  *)
(* funnel (agent/failure/recovery.py).  Everything here is a constant      *)
(* operator; RunLoop holds the state these operators are applied to.       *)
(***************************************************************************)
EXTENDS Integers, Sequences

CONSTANT LessonsCap  \* _LESSONS_LEARNED_CAP, 5 in the code

ASSUME LessonsCapAssumption == LessonsCap \in Nat \ {0}

FailureKind ==
    {"transient_provider", "output_truncated", "output_refused",
     "ambiguous_input", "scope_too_large", "capability_gap", "no_progress",
     "loop_detected", "tool_error", "policy_violation", "kernel_invalidated",
     "iteration_limit", "time_limit"}

Action == {"retry", "ask_user", "narrow_scope", "handoff", "stop"}

DefaultAction ==
    [k \in FailureKind |->
        CASE k \in {"transient_provider", "output_truncated", "tool_error"} -> "retry"
          [] k \in {"ambiguous_input", "loop_detected", "iteration_limit"} -> "ask_user"
          [] k \in {"scope_too_large", "no_progress", "kernel_invalidated",
                    "time_limit"} -> "narrow_scope"
          [] OTHER -> "handoff"]

\* A Failure is its kind and its suggested action; the text is left out.
\* The action defaults to the kind's, but a tool that returns a structured
\* Failure may suggest any other.
Failure == [kind : FailureKind, suggested : Action]

FailureOf(k) == [kind |-> k, suggested |-> DefaultAction[k]]

RetryBudget ==
    [k \in FailureKind |->
        CASE k = "transient_provider" -> 3
          [] k = "tool_error" -> 2
          [] k = "output_truncated" -> 1
          [] OTHER -> 0]

\* DefaultPolicy.decide, from the number of attempts recorded BEFORE this one.
Decide(f, prior) ==
    CASE f.suggested = "retry" /\ prior >= RetryBudget[f.kind] -> "handoff"
      [] f.suggested = "narrow_scope" /\ prior >= 1 -> "handoff"
      [] OTHER -> f.suggested

\* DefaultPolicy.backoff is positive for provider failures only.
Sleeps(k) == k = "transient_provider"

\* Mutant: a question does not stop the loop.
ContinuingAfterAsking == {"retry", "narrow_scope", "ask_user"}

\* After these two actions the loop goes round again.
Continuing == {"retry", "narrow_scope"}

\* How often the run may go round again after failures of one kind.
RecoveryCap(k) == IF RetryBudget[k] > 1 THEN RetryBudget[k] ELSE 1

-----------------------------------------------------------------------------
(***************************************************************************)
(* lessons_learned keeps the kinds of the latest failures: a kind that     *)
(* comes back moves to the end, and only the last LessonsCap are kept.     *)
(***************************************************************************)

LastAtMost(s, n) == IF Len(s) > n THEN SubSeq(s, Len(s) - n + 1, Len(s)) ELSE s

\* The list without k, which it holds at most once.
Without(s, k) ==
    IF \E i \in DOMAIN s : s[i] = k
    THEN LET n == CHOOSE i \in DOMAIN s : s[i] = k
         IN SubSeq(s, 1, n - 1) \o SubSeq(s, n + 1, Len(s))
    ELSE s

\* Mutants: a kind that comes back is listed twice; it keeps its old place.
TrackLessonTwice(lessons, k) == LastAtMost(Append(lessons, k), LessonsCap)

TrackLessonInPlace(lessons, k) ==
    IF \E i \in DOMAIN lessons : lessons[i] = k
    THEN lessons ELSE LastAtMost(Append(lessons, k), LessonsCap)

TrackLesson(lessons, k) ==
    LastAtMost(Append(Without(lessons, k), k), LessonsCap)

==============================================================================
