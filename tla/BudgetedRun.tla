----------------------------- MODULE BudgetedRun -----------------------------
(***************************************************************************)
(* What a run promises to the host that drives it, whatever its tools do.  *)
(* Every turn ends.  Until then it makes at most `credit` requests to the  *)
(* model, none after it told the host that the turn is over and none after *)
(* the host cancelled.  A turn that stops has said so first, unless it     *)
(* raised.  A turn that asked the user leaves an offer: the credit a       *)
(* resumption starts from, which is what was left or a fresh budget.       *)
(***************************************************************************)
EXTENDS Naturals

CONSTANT Budget     \* requests granted at the start, a natural number

VARIABLES
    status,     \* "running", "stopped" or "raised"
    closed,     \* Boolean: the host was told that the turn is over
    cancelled,  \* Boolean: the host asked for cancellation
    credit,     \* requests left, in 0 .. Budget
    offer       \* the credit a resumption may start from, if any, in a set

vars == <<status, closed, cancelled, credit, offer>>

Init ==
    /\ status = "running" /\ closed = FALSE /\ cancelled = FALSE
    /\ credit = Budget /\ offer = {}

Request ==
    /\ status = "running" /\ ~closed /\ ~cancelled
    /\ credit > 0
    /\ credit' = credit - 1
    /\ UNCHANGED <<status, closed, cancelled, offer>>

\* Tell the host that the turn is over, once or more often, and stop now or
\* later.
Close ==
    /\ status = "running"
    /\ closed' = TRUE
    /\ offer' \in {offer, {credit}, {Budget}}
    /\ status' \in {"running", "stopped"}
    /\ UNCHANGED <<cancelled, credit>>

\* An error the turn cannot handle, possibly after it was closed.
Raise ==
    /\ status = "running"
    /\ status' = "raised"
    /\ UNCHANGED <<closed, cancelled, credit, offer>>

Cancel ==
    /\ status = "running"
    /\ cancelled' = TRUE
    /\ UNCHANGED <<status, closed, credit, offer>>

Resume ==
    /\ status # "running"
    /\ status' = "running"
    /\ closed' = FALSE /\ cancelled' = FALSE
    /\ credit' \in offer
    /\ UNCHANGED offer

Next == Request \/ Close \/ Raise \/ Cancel \/ Resume

Spec == Init /\ [][Next]_vars

FairSpec == Spec /\ WF_vars(Request \/ Close)

==============================================================================
