----------------------------- MODULE CodeExecutor -----------------------------
(***************************************************************************)
(* The in-process CodeExecutor (execution/executor.py) with its origin     *)
(* ledger (run_scope.py), the connector cache (connector_cache.py) and the *)
(* hooks that record what a cell fetches and loads (fetch_log.py, load.py).*)
(*                                                                         *)
(* Several executors share one event loop, one process and so one working  *)
(* directory.  A cell runs in a thread of its own; a thread that is timed  *)
(* out or cancelled may linger.  Every notebook binds the one variable     *)
(* whose origin is followed; connectors are reduced to one source.         *)
(***************************************************************************)
EXTENDS Naturals, FiniteSets

CONSTANTS
    Calls, Executors,
    Mixes,       \* which calls the host makes: functions from Calls to records
    Dirs, Home,  \* directories, and the one the process was started in
    Root,        \* the workspace of each executor
    NewRoot,     \* where set_cwd leads
    Lost,        \* calls whose fetches the object pool does not take
    NoCall

\* execute for a notebook, for nobody, and for a notebook with top-level await;
\* as a dry run; in a fresh namespace; eval; clear_namespace; set_cwd;
\* set_connectors; and the calls that only look or move files.
CellOps == {"notebook", "cell", "await", "dry", "workspace", "eval"}
InnerOps == {"clear", "cwd", "connectors", "look"}

ASSUME ExecutorAssumption ==
    /\ Mixes \subseteq [Calls -> [op : CellOps \cup InnerOps, on : Executors]]
    /\ Home \in Dirs /\ NewRoot \in Dirs /\ Root \in [Executors -> Dirs]
    /\ NoCall \notin Calls

VARIABLES
    mix,       \* the calls the host makes
    pc,        \* per call, where its coroutine is
    result,    \* per call, how it ended
    global,    \* holder of _global_execution_lock
    gate,      \* holder of _exec_lock, per executor
    pwd,       \* the working directory of the process
    cwd,       \* per executor
    bound,     \* the workspace that the connectors' hooks persist to
    seen,      \* whose seen names load_dataset would consult
    origin,    \* the notebook run that the origin of the variable names
    refs,      \* the fetches that origin cites
    scope,     \* the run whose RunScope is open
    cache,     \* the call that fetched what the connector cache holds
    thread,    \* per call, its thread
    got,       \* per call, the fetches it was given and the object pool took
               \* (by the call that made them)
    recorded   \* per call, what its RunScope has recorded

locks == <<global, gate>>
ledger == <<origin, refs, scope>>
space == <<cwd, bound, seen, cache>>
body == <<got, recorded>>
vars == <<mix, pc, result, locks, pwd, space, ledger, thread, body>>

Op(c) == mix[c].op
On(c) == mix[c].on

\* Runs under a notebook open a scope; a dry run does not.
Produces(c) == Op(c) \in {"notebook", "await"}
ChangesDir(c) == Op(c) # "eval"

Init ==
    /\ mix \in Mixes
    /\ pc = [c \in Calls |-> "idle"]
    /\ result = [c \in Calls |-> "none"]
    /\ global = NoCall /\ gate = [e \in Executors |-> NoCall]
    /\ pwd = Home
    /\ cwd = Root /\ bound = Root
    /\ seen = [e \in Executors |-> NoCall]
    /\ cache = [e \in Executors |-> NoCall]
    /\ origin = [e \in Executors |-> NoCall]
    /\ refs = [e \in Executors |-> {}]
    /\ scope = [e \in Executors |-> NoCall]
    /\ thread = [c \in Calls |-> [at |-> "none", saved |-> Home]]
    /\ got = [c \in Calls |-> {}] /\ recorded = [c \in Calls |-> {}]

-----------------------------------------------------------------------------
(***************************************************************************)
(* Calls and their locks.  A cell takes the global lock, then the gate of  *)
(* its executor; everything else takes the gate only, and does what it     *)
(* does under it without an await.                                         *)
(***************************************************************************)

\* execute stores what the caller has seen before it waits for the locks.
CallCell(c) ==
    /\ pc[c] = "idle" /\ Op(c) \in CellOps
    /\ pc' = [pc EXCEPT ![c] = "global"]
    /\ seen' = IF Op(c) = "eval" THEN seen ELSE [seen EXCEPT ![On(c)] = c]
    /\ UNCHANGED <<mix, result, locks, pwd, cwd, bound, cache, ledger, thread, body>>

CallInner(c) ==
    /\ pc[c] = "idle" /\ Op(c) \in InnerOps
    /\ pc' = [pc EXCEPT ![c] = "inner"]
    /\ UNCHANGED <<mix, result, locks, pwd, space, ledger, thread, body>>

\* Mutant: nobody waits for the other executors.
GlobalIgnored == TRUE

GlobalFree == global = NoCall

TakeGlobal(c) ==
    /\ pc[c] = "global" /\ GlobalFree
    /\ global' = c
    /\ pc' = [pc EXCEPT ![c] = "gate"]
    /\ UNCHANGED <<mix, result, gate, pwd, space, ledger, thread, body>>

\* A fresh namespace: OriginLedger.clear, ConnectorCache.clear, _base_locals and
\* _apply_connectors.
Reset(e) ==
    /\ cache' = [cache EXCEPT ![e] = NoCall]
    /\ bound' = [bound EXCEPT ![e] = cwd[e]]
    /\ origin' = [origin EXCEPT ![e] = NoCall]
    /\ refs' = [refs EXCEPT ![e] = {}]

\* The thread of the cell starts, in the workspace of its executor.  clear
\* comes here to run the setup snippets.
StartCell(c) ==
    LET e == On(c)
    IN /\ pc[c] = "gate" /\ gate[e] = NoCall
       /\ gate' = [gate EXCEPT ![e] = c]
       /\ pc' = [pc EXCEPT ![c] = "running"]
       /\ thread' = [thread EXCEPT ![c] = [at |-> "alive", saved |-> pwd]]
       /\ pwd' = IF ChangesDir(c) THEN cwd[e] ELSE pwd
       /\ scope' = [scope EXCEPT ![e] = IF Produces(c) THEN c ELSE NoCall]
       /\ IF Op(c) = "workspace" THEN Reset(e)
          ELSE UNCHANGED <<cache, bound, origin, refs>>
       /\ UNCHANGED <<mix, result, global, cwd, seen, body>>

\* Mutant: the gate is kept.
ReleaseGlobal(c) ==
    /\ global' = NoCall
    /\ gate' = gate

\* What a call is left with when its cell is over.
Release(c) ==
    /\ global' = NoCall
    /\ gate' = [gate EXCEPT ![On(c)] = NoCall]

End(c, how) ==
    /\ pc' = [pc EXCEPT ![c] = "ended"]
    /\ result' = [result EXCEPT ![c] = how]

\* The calls that take the gate only.  clear_namespace gives it back before it
\* runs the setup snippets; set_cwd gives it back before the files of the
\* session are fetched and the connectors bound anew.
Inner(c) ==
    LET e == On(c)
    IN /\ pc[c] = "inner" /\ gate[e] = NoCall
       /\ \/ /\ Op(c) = "look"
             /\ End(c, "ok")
             /\ UNCHANGED <<cwd, bound, seen, cache, origin, refs>>
          \/ /\ Op(c) = "connectors"
             /\ bound' = [bound EXCEPT ![e] = cwd[e]]
             /\ End(c, "ok")
             /\ UNCHANGED <<cwd, seen, cache, origin, refs>>
          \/ /\ Op(c) = "clear"
             /\ Reset(e)
             /\ seen' = [seen EXCEPT ![e] = NoCall]
             /\ pc' = [pc EXCEPT ![c] = "global"]
             /\ UNCHANGED <<result, cwd>>
          \/ /\ Op(c) = "cwd"
             /\ cwd' = [cwd EXCEPT ![e] = NewRoot]
             /\ cache' = [cache EXCEPT ![e] = NoCall]
             /\ origin' = [origin EXCEPT ![e] = NoCall]
             /\ refs' = [refs EXCEPT ![e] = {}]
             /\ pc' = [pc EXCEPT ![c] = "rebind"]
             /\ UNCHANGED <<result, bound, seen>>
    /\ UNCHANGED <<mix, locks, pwd, scope, thread, body>>

Rebind(c) ==
    /\ pc[c] = "rebind" /\ gate[On(c)] = NoCall
    /\ bound' = [bound EXCEPT ![On(c)] = cwd[On(c)]]
    /\ End(c, "ok")
    /\ UNCHANGED <<mix, locks, pwd, cwd, seen, cache, ledger, thread, body>>

-----------------------------------------------------------------------------
(***************************************************************************)
(* What a cell does while it runs.  A lingering thread may go on doing so: *)
(* SystemExit waits for a call into C to return, and a bare except catches *)
(* it.                                                                     *)
(***************************************************************************)

Active(c) ==
    \/ thread[c].at \in {"alive", "lingering"} /\ Op(c) # "await"
    \/ pc[c] = "awaiting"

\* Mutant: a hit of the cache returns before the hooks.
HooksOnMissOnly(hit) == ~hit

\* _MemoizingConnector.__call__ and _log_fetch: the hooks run on a hit of the
\* cache too, and record in whichever scope is open.
HooksRun(hit) == TRUE

\* A fetch that the object pool did not take is cited by nobody, and the cell is
\* not told; its answer stays in the cache.
Fetch(c) ==
    LET e == On(c)
        hit == cache[e] # NoCall
        found == IF hit THEN cache[e] ELSE c
        open == scope[e]
    IN /\ Active(c) /\ got[c] = {}
       /\ cache' = [cache EXCEPT ![e] = found]
       /\ \/ /\ c \notin Lost
             /\ got' = [got EXCEPT ![c] = {found}]
             /\ recorded' = IF HooksRun(hit) /\ open # NoCall
                            THEN [recorded EXCEPT ![open] = @ \cup {found}] ELSE recorded
          \/ c \in Lost /\ UNCHANGED body
       /\ UNCHANGED <<mix, pc, result, locks, pwd, cwd, bound, seen, ledger, thread>>

-----------------------------------------------------------------------------
(***************************************************************************)
(* The end of a cell.                                                      *)
(***************************************************************************)

\* Leaving _working_directory.
Back(c) == IF ChangesDir(c) THEN thread[c].saved ELSE pwd

Over(c, at) == [thread EXCEPT ![c] = [at |-> at, saved |-> Home]]

\* A run that ended well stamps the names it assigned with its scope.
Stamp(c) ==
    /\ origin' = IF Produces(c) THEN [origin EXCEPT ![On(c)] = c] ELSE origin
    /\ refs' = IF Produces(c) THEN [refs EXCEPT ![On(c)] = recorded[c]] ELSE refs

StampAfter(c, how) ==
    IF how = "ok" THEN Stamp(c) ELSE UNCHANGED <<origin, refs>>

\* Mutant: the scope is left open.
KeepScope(c) == scope' = scope

CloseScope(c) == scope' = [scope EXCEPT ![On(c)] = NoCall]

\* The thread returns in time; exceptions of the cell are part of its output.
\* With top-level await it has only made the coroutine, which the event loop
\* drives from here, in whatever directory the process is.
ThreadReturns(c) ==
    /\ pc[c] = "running"
    /\ thread' = Over(c, "over")
    /\ pwd' = Back(c)
    /\ \/ /\ Op(c) = "await"
          /\ pc' = [pc EXCEPT ![c] = "awaiting"]
          /\ UNCHANGED <<result, locks, ledger>>
       \/ /\ Op(c) # "await"
          /\ \E how \in {"ok", "raised"} :
               End(c, how) /\ StampAfter(c, how)
          /\ Release(c) /\ CloseScope(c)
    /\ UNCHANGED <<mix, space, body>>

\* The coroutine ends, by itself or by what is left of the timeout.
AwaitEnds(c) ==
    /\ pc[c] = "awaiting"
    /\ \E how \in {"ok", "raised", "timeout", "cancelled"} :
         End(c, how) /\ StampAfter(c, how)
    /\ Release(c) /\ CloseScope(c)
    /\ UNCHANGED <<mix, pwd, space, thread, body>>

\* The time is up, or the task is cancelled: the thread is interrupted and not
\* waited for.
GiveUp(c) ==
    /\ pc[c] = "running"
    /\ \E how \in {"timeout", "cancelled"} :
         End(c, how) /\ StampAfter(c, how)
    /\ thread' = [thread EXCEPT ![c].at = "lingering"]
    /\ Release(c) /\ CloseScope(c)
    /\ UNCHANGED <<mix, pwd, space, body>>

\* Whenever it ends, it goes back to where it came from.
LingeringEnds(c) ==
    /\ thread[c].at = "lingering"
    /\ thread' = Over(c, "lingered")
    /\ pwd' = Back(c)
    /\ UNCHANGED <<mix, pc, result, locks, space, ledger, body>>

-----------------------------------------------------------------------------
Coroutine(c) ==
    TakeGlobal(c) \/ StartCell(c) \/ Inner(c) \/ Rebind(c)
    \/ ThreadReturns(c) \/ AwaitEnds(c) \/ GiveUp(c)

Next ==
    \E c \in Calls :
        \/ CallCell(c) \/ CallInner(c) \/ Coroutine(c)
        \/ Fetch(c) \/ LingeringEnds(c)

Spec == Init /\ [][Next]_vars

\* A coroutine that can go on does, and a cell ends in its time.  That a thread
\* which was interrupted ever ends is not assumed.
FairSpec == Spec /\ \A c \in Calls : WF_vars(Coroutine(c))

-----------------------------------------------------------------------------
TypeOK ==
    /\ mix \in Mixes
    /\ pc \in [Calls -> {"idle", "global", "gate", "inner", "rebind", "running",
                         "awaiting", "ended"}]
    /\ result \in [Calls -> {"none", "ok", "raised", "timeout", "cancelled"}]
    /\ global \in Calls \cup {NoCall}
    /\ gate \in [Executors -> Calls \cup {NoCall}]
    /\ pwd \in Dirs
    /\ cwd \in [Executors -> Dirs] /\ bound \in [Executors -> Dirs]
    /\ seen \in [Executors -> Calls \cup {NoCall}]
    /\ origin \in [Executors -> Calls \cup {NoCall}]
    /\ refs \in [Executors -> SUBSET Calls]
    /\ scope \in [Executors -> {c \in Calls : pc[c] \in {"running", "awaiting"}} \cup {NoCall}]
    /\ cache \in [Executors -> Calls \cup {NoCall}]
    /\ thread \in [Calls -> [at : {"none", "alive", "over", "lingering", "lingered"},
                             saved : Dirs]]
    /\ got \in [Calls -> SUBSET Calls] /\ recorded \in [Calls -> SUBSET Calls]

\* The lineage of a variable cites every persisted fetch of the run it names,
\* those answered by the cache too, whatever lingers beside that run, and that
\* run ended without an exception (execute, OriginLedger.stamp).
LineageComplete ==
    \A e \in Executors : origin[e] # NoCall =>
        /\ result[origin[e]] = "ok"
        /\ got[origin[e]] \subseteq refs[e]

\* As long as no thread was left behind, a cell runs in the workspace of its
\* executor and the process is back where it was when none runs, for all
\* executors of the loop (_working_directory under _global_execution_lock).
InWorkspaceUntilLeft ==
    (\A c \in Calls : thread[c].at \notin {"lingering", "lingered"}) =>
        /\ \A c \in Calls : thread[c].at = "alive" /\ ChangesDir(c) => pwd = cwd[On(c)]
        /\ (\A c \in Calls : thread[c].at # "alive") => pwd = Home

\* Every call ends: the two locks are taken in one order and given back on every
\* way out (execute, clear_namespace, set_cwd).
EveryCallEnds == \A c \in Calls : pc[c] # "idle" ~> pc[c] = "ended"

==============================================================================
