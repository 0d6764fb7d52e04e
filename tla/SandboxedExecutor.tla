-------------------------- MODULE SandboxedExecutor --------------------------
(***************************************************************************)
(* SandboxedCodeExecutor (execution/sandbox/executor.py) with the          *)
(* RpcEndpoint it talks through (protocol.py), the kernel process at the   *)
(* other end (kernel.py, spawn.py) and the ConnectorBroker that a running  *)
(* cell calls back (connector_rpc.py).                                     *)
(*                                                                         *)
(* Calls are coroutines of one event loop: what happens between two awaits *)
(* is one action.  A kernel may die at any time.  How long an await takes  *)
(* is left open.                                                           *)
(***************************************************************************)
EXTENDS Naturals, FiniteSets

CONSTANTS
    Calls,       \* calls of the host, in any order and at once
    Mixes,       \* what each of them is: functions from Calls to Ops
    Snippets,    \* how many setup snippets the host has added
    MaxBoots,    \* bound: how often a kernel is spawned
    NoCall

Ops == {"cell", "fetch", "file", "names", "clear", "close"}

ASSUME SandboxAssumption ==
    /\ Mixes \subseteq [Calls -> Ops]
    /\ Snippets \in Nat /\ MaxBoots \in Nat
    /\ NoCall \notin Calls

\* A boot is named by its number; 0 stands for None.
Boots == 1 .. MaxBoots
Boot0 == 0 .. MaxBoots

VARIABLES
    sup,        \* the fields of the executor that a teardown resets
    spawned,    \* boots begun
    generation, \* _kernel_generation: boots that succeeded
    bundles,    \* connectors are bound: _bundles, and those of the broker
    closed,     \* boots whose endpoint at the supervisor is closed
    listening,  \* boots whose server accepts a connection
    dirs,       \* boots whose socket directory exists
    kernel,     \* per boot, the process
    op,         \* which of the mixes the host makes
    call,       \* per call, where its coroutine is and how it ended
    req,        \* per call, its last request
    runs        \* auxiliary: how often the cell of a call was begun

world == <<closed, listening, dirs, kernel>>
vars == <<sup, spawned, generation, bundles, world, op, call, req, runs>>

Results == {"none", "ok", "error", "died", "boot failed", "rpc error",
            "assertion", "closed"}

Waiting(b) == {c \in Calls : call[c].pc = "waiting" /\ req[c].boot = b}

\* Requests that the kernel of boot b has read and not begun.
Queued(b) == {c \in Calls : req[c].at = "queued" /\ req[c].boot = b}

IsCell(what) == what \in {"cell", "fetch", "snippet"}

Init ==
    /\ sup = [started |-> FALSE, lock |-> NoCall, rpc |-> 0, proc |-> 0,
              server |-> 0, dir |-> 0, connected |-> FALSE]
    /\ spawned = 0 /\ generation = 0
    /\ bundles \in BOOLEAN
    /\ closed = {} /\ listening = {} /\ dirs = {}
    /\ kernel = [b \in Boots |-> [alive |-> FALSE, linked |-> FALSE, names |-> FALSE,
                                  snippets |-> 0, running |-> NoCall, asking |-> FALSE]]
    /\ op \in Mixes
    /\ call = [c \in Calls |-> [pc |-> "idle", step |-> 0, restoring |-> 0,
                                held |-> 0, result |-> "none"]]
    /\ req = [c \in Calls |-> [at |-> "none", boot |-> 0, what |-> "file", ahead |-> {}]]
    /\ runs = [c \in Calls |-> 0]

-----------------------------------------------------------------------------
(***************************************************************************)
(* The end of a call, and the teardown that may come before it.            *)
(***************************************************************************)

\* Mutant: a call whose kernel died is made again.
Retried(cs, c, result) ==
    [cs EXCEPT ![c].pc = IF result = "died" THEN "idle" ELSE "ended",
               ![c].held = 0, ![c].result = result]

Ended(cs, c, result) ==
    [cs EXCEPT ![c].pc = "ended", ![c].held = 0, ![c].result = result]

\* Mutant: an error leaves the lock held.
Kept(s, c) == s

Released(s, c) == [s EXCEPT !.lock = IF @ = c THEN NoCall ELSE @]

\* Mutant: the requests in flight are forgotten with the connection.
ForgetPending(cs, b) == cs

\* Mutant: an answer that was delivered is overwritten.
FailAnswered(cs, b) ==
    [c \in Calls |-> IF req[c].boot = b /\ cs[c].pc \in {"waiting", "answered"}
                     THEN [cs[c] EXCEPT !.pc = "failed"] ELSE cs[c]]

\* RpcEndpoint.close, and the end of the read loop: whoever waits is told.
FailPending(cs, b) ==
    [c \in Calls |-> IF c \in Waiting(b) THEN [cs[c] EXCEPT !.pc = "failed"] ELSE cs[c]]

\* The next resource a teardown still finds, having dealt with stage.
NextStage(stage, s) ==
    IF stage = "begin" /\ s.rpc # 0 THEN "closing"
    ELSE IF stage \in {"begin", "closing"} /\ s.proc # 0 THEN "killing"
    ELSE IF stage \in {"begin", "closing", "killing"} /\ s.server # 0 THEN "stopping"
    ELSE "done"

\* Without an await in between a teardown goes from a stage to the next.  s is
\* the executor after the stage; cs are the calls.
Teardown(c, stage, s, cs) ==
    LET next == NextStage(stage, s)
        at == [cs EXCEPT ![c].pc = next,
                         ![c].held = IF next = "killing" THEN s.proc ELSE 0]
    IN /\ closed' = IF next = "closing" THEN closed \cup {s.rpc} ELSE closed
       /\ listening' = IF next = "stopping" THEN listening \ {s.server} ELSE listening
       /\ dirs' = IF next = "done" THEN dirs \ {s.dir} ELSE dirs
       /\ sup' = IF next = "done"
                 THEN [Released(s, c) EXCEPT !.dir = 0, !.started = FALSE,
                                             !.connected = FALSE]
                 ELSE s
       /\ call' = IF next = "done" THEN Ended(cs, c, cs[c].result)
                  ELSE IF next = "closing" THEN FailPending(at, s.rpc)
                  ELSE at

Closed(c) ==
    /\ call[c].pc = "closing"
    /\ Teardown(c, "closing", [sup EXCEPT !.rpc = 0], call)
    /\ UNCHANGED <<kernel, spawned, generation, bundles, req, runs>>

\* The requests that the kernel did not answer are lost with it.
Gone(b) ==
    /\ kernel' = [kernel EXCEPT ![b] = [@ EXCEPT !.alive = FALSE, !.running = NoCall,
                                                 !.asking = FALSE]]
    /\ req' = [c \in Calls |-> IF req[c].boot = b /\ req[c].at \in {"queued", "running"}
                               THEN [req[c] EXCEPT !.at = "lost", !.ahead = {}]
                               ELSE req[c]]

\* terminate_kernel has waited for the process it was given (and killed it after
\* a while).  What the executor forgets then is the process it holds by now.
Killed(c) ==
    /\ call[c].pc = "killing"
    /\ Gone(call[c].held)
    /\ Teardown(c, "killing", [sup EXCEPT !.proc = 0], call)
    /\ UNCHANGED <<spawned, generation, bundles, runs>>

Stopped(c) ==
    /\ call[c].pc = "stopping"
    /\ Teardown(c, "stopping", [sup EXCEPT !.server = 0], call)
    /\ UNCHANGED <<kernel, spawned, generation, bundles, req, runs>>

\* The host closes the executor, in the middle of whatever is going on.
Close(c) ==
    /\ call[c].pc = "idle" /\ op[c] = "close"
    /\ Teardown(c, "begin", sup, [call EXCEPT ![c].result = "closed"])
    /\ UNCHANGED <<kernel, spawned, generation, bundles, req, runs>>

-----------------------------------------------------------------------------
(***************************************************************************)
(* Requests.                                                               *)
(***************************************************************************)

\* What is written to a connection whose other end is gone never arrives.
Request(c, what, cs) ==
    LET b == sup.rpc
    IN /\ call' = [cs EXCEPT ![c].pc = "waiting", ![c].held = 0]
       /\ req' = [req EXCEPT ![c] = IF kernel[b].alive
                                    THEN [at |-> "queued", boot |-> b, what |-> what,
                                          ahead |-> Queued(b)]
                                    ELSE [at |-> "lost", boot |-> b, what |-> what,
                                          ahead |-> {}]]

\* RpcEndpoint.call fails at once on a closed endpoint.
Linked(s) == s.rpc # 0 /\ s.rpc \notin closed

\* clear_namespace replays the setup snippets, each of them a call of its own.
LastStep(c) == IF op[c] = "clear" THEN Snippets ELSE 0

\* _call with a started executor.  The endpoint may be gone or closed all the
\* same, for a teardown resets `started` last.
CallStarted(c, s, cs) ==
    /\ bundles' = (bundles \/ op[c] = "names")
    /\ \/ /\ Linked(s)
          /\ Request(c, IF cs[c].step > 0 THEN "snippet" ELSE op[c], cs)
          /\ sup' = s
          /\ UNCHANGED <<closed, listening, dirs>>
       \/ /\ s.rpc = 0
          /\ call' = Ended(cs, c, "assertion")
          /\ sup' = s
          /\ UNCHANGED <<req, closed, listening, dirs>>
       \/ /\ s.rpc \in closed
          /\ Teardown(c, "begin", s, [cs EXCEPT ![c].result = "died"])
          /\ UNCHANGED req

\* _ensure_started: without the lock when the executor is started.
Enter(c, cs) ==
    \/ /\ sup.started
       /\ CallStarted(c, sup, cs)
    \/ /\ ~sup.started
       /\ call' = [cs EXCEPT ![c].pc = "locking"]
       /\ UNCHANGED <<sup, closed, listening, dirs, bundles, req>>

Begin(c) ==
    /\ call[c].pc = "idle" /\ op[c] # "close"
    /\ Enter(c, call)
    /\ UNCHANGED <<kernel, spawned, generation, runs>>

\* _restore_kernel_state: the names of the connectors, if there are any, then
\* the snippets; it talks to the endpoint itself, with the lock held.
NextRestore(c) ==
    LET r == call[c].restoring IN IF r = 0 /\ ~bundles THEN 2 ELSE r + 1

Restore(c, s) ==
    LET r == NextRestore(c)
        cs == [call EXCEPT ![c].restoring = r]
    IN \/ /\ r <= Snippets + 1 /\ Linked(s)
          /\ Request(c, IF r = 1 THEN "names" ELSE "snippet", cs)
          /\ sup' = s
          /\ UNCHANGED <<closed, listening, dirs, bundles>>
       \/ /\ r <= Snippets + 1 /\ ~Linked(s)
          /\ call' = Ended(call, c, IF s.rpc = 0 THEN "assertion" ELSE "rpc error")
          /\ sup' = Released(s, c)
          /\ UNCHANGED <<closed, listening, dirs, bundles, req>>
       \/ /\ r > Snippets + 1
          /\ CallStarted(c, Released(s, c), [call EXCEPT ![c].restoring = 0])

-----------------------------------------------------------------------------
(***************************************************************************)
(* Booting, with the start lock held.                                      *)
(***************************************************************************)

Locked(c) ==
    /\ call[c].pc = "locking" /\ sup.lock = NoCall
    /\ \/ /\ sup.started
          /\ CallStarted(c, sup, call)
          /\ UNCHANGED spawned
       \/ /\ ~sup.started /\ spawned < MaxBoots
          /\ spawned' = spawned + 1
          /\ sup' = [sup EXCEPT !.lock = c, !.dir = spawned']
          /\ dirs' = dirs \cup {spawned'}
          /\ call' = [call EXCEPT ![c].pc = "serving", ![c].held = spawned']
          /\ UNCHANGED <<closed, listening, bundles, req>>
    /\ UNCHANGED <<kernel, generation, runs>>

Serves(c) ==
    /\ call[c].pc = "serving"
    /\ sup' = [sup EXCEPT !.server = call[c].held]
    /\ listening' = listening \cup {call[c].held}
    /\ call' = [call EXCEPT ![c].pc = "spawning"]
    /\ UNCHANGED <<closed, dirs, kernel, spawned, generation, bundles, req, runs>>

\* spawn_kernel
Spawned(c) ==
    /\ call[c].pc = "spawning"
    /\ sup' = [sup EXCEPT !.proc = call[c].held]
    /\ kernel' = [kernel EXCEPT ![call[c].held].alive = TRUE]
    /\ call' = [call EXCEPT ![c].pc = "connecting"]
    /\ UNCHANGED <<closed, listening, dirs, spawned, generation, bundles, req, runs>>

\* _on_connect: only one kernel per executor; a second one is hung up on.
Connects(b) ==
    /\ kernel[b].alive /\ ~kernel[b].linked
    /\ b \in listening /\ b \in dirs /\ b \notin closed
    /\ \/ /\ sup.rpc = 0
          /\ sup' = [sup EXCEPT !.rpc = b, !.connected = TRUE]
          /\ kernel' = [kernel EXCEPT ![b].linked = TRUE]
          /\ UNCHANGED closed
       \/ /\ sup.rpc # 0
          /\ closed' = closed \cup {b}
          /\ UNCHANGED <<sup, kernel>>
    /\ UNCHANGED <<listening, dirs, spawned, generation, bundles, call, req, runs>>

\* `started` is set before the new kernel is restored.
Booted(c) ==
    /\ call[c].pc = "connecting" /\ sup.connected
    /\ generation' = generation + 1
    /\ LET s == [sup EXCEPT !.started = TRUE]
       IN IF generation' > 1 THEN Restore(c, s)
          ELSE CallStarted(c, Released(s, c), call)
    /\ UNCHANGED <<kernel, spawned, runs>>

\* The server or the process cannot be started, or the kernel is not there in
\* time.
BootFails(c) ==
    /\ call[c].pc \in {"serving", "spawning", "connecting"}
    /\ call[c].pc = "connecting" => ~sup.connected
    /\ Teardown(c, "begin", sup, [call EXCEPT ![c].result = "boot failed"])
    /\ UNCHANGED <<kernel, spawned, generation, bundles, req, runs>>

-----------------------------------------------------------------------------
(***************************************************************************)
(* The kernel.  Cells take two locks and run one at a time; the other      *)
(* requests take the inner lock only and may overtake cells that wait.     *)
(***************************************************************************)

MayTake(c) ==
    LET b == req[c].boot
    IN /\ req[c].at = "queued"
       /\ kernel[b].alive /\ kernel[b].running = NoCall
       /\ \A d \in req[c].ahead : ~IsCell(req[c].what) /\ IsCell(req[d].what)

\* c is no longer ahead of anyone.
Passed(c, rs) == [d \in Calls |-> [rs[d] EXCEPT !.ahead = @ \ {c}]]

\* A cell runs; one that fetches calls the connector, if it has its name.
TakeCell(c) ==
    /\ MayTake(c) /\ IsCell(req[c].what)
    /\ req' = Passed(c, [req EXCEPT ![c].at = "running"])
    /\ LET k == kernel[req[c].boot]
       IN kernel' = [kernel EXCEPT ![req[c].boot] =
                       [k EXCEPT !.running = c,
                                 !.asking = req[c].what = "fetch" /\ k.names]]
    /\ runs' = IF req[c].what = "snippet" THEN runs ELSE [runs EXCEPT ![c] = @ + 1]
    /\ UNCHANGED <<sup, closed, listening, dirs, spawned, generation, bundles, call>>

\* A request that is no cell is answered at once; reading a missing file is an
\* error that is raised to the caller.
Answers(what) == IF what = "file" THEN {"answered", "refused"} ELSE {"answered"}

Serve(c) ==
    /\ MayTake(c) /\ ~IsCell(req[c].what)
    /\ \E answer \in Answers(req[c].what) :
         req' = Passed(c, [req EXCEPT ![c].at = answer])
    /\ LET k == kernel[req[c].boot]
       IN kernel' = [kernel EXCEPT ![req[c].boot] =
                       [k EXCEPT !.names = @ \/ req[c].what = "names",
                                 !.snippets = IF req[c].what = "clear" THEN 0 ELSE @]]
    /\ UNCHANGED <<sup, closed, listening, dirs, spawned, generation, bundles, call, runs>>

\* ConnectorBroker.handle: whatever comes of the connector, and a binding that
\* is not there, travels as data.
BrokerAnswers(b) ==
    /\ kernel[b].asking /\ b \notin closed
    /\ kernel' = [kernel EXCEPT ![b].asking = FALSE]
    /\ UNCHANGED <<sup, closed, listening, dirs, spawned, generation, bundles, call, req, runs>>

\* Errors of a cell are part of its output.
CellEnds(b) ==
    /\ kernel[b].running # NoCall /\ ~kernel[b].asking
    /\ LET c == kernel[b].running
       IN /\ req' = [req EXCEPT ![c].at = "answered"]
          /\ kernel' = [kernel EXCEPT ![b].running = NoCall,
                                      ![b].snippets = IF req[c].what = "snippet"
                                                      THEN @ + 1 ELSE @]
    /\ UNCHANGED <<sup, closed, listening, dirs, spawned, generation, bundles, call, runs>>

KernelDies(b) ==
    /\ kernel[b].alive
    /\ Gone(b)
    /\ UNCHANGED <<sup, closed, listening, dirs, spawned, generation, bundles, call, runs>>

\* _amain returns when its connection ends, and fails when there is none.
KernelExits(b) ==
    /\ kernel[b].alive
    /\ b \in closed \/ (~kernel[b].linked /\ (b \notin listening \/ b \notin dirs))
    /\ KernelDies(b)

-----------------------------------------------------------------------------
(***************************************************************************)
(* The supervisor reads.                                                   *)
(***************************************************************************)

\* _dispatch
Deliver(c) ==
    /\ call[c].pc = "waiting" /\ req[c].at \in {"answered", "refused"}
    /\ req[c].boot \notin closed
    /\ call' = [call EXCEPT ![c].pc = "answered"]
    /\ UNCHANGED <<sup, world, spawned, generation, bundles, req, runs>>

\* The read loop ends after what was still to be read.
ReadLoopEnds(b) ==
    /\ kernel[b].linked /\ ~kernel[b].alive /\ b \notin closed
    /\ \A c \in Waiting(b) : req[c].at = "lost"
    /\ closed' = closed \cup {b}
    /\ call' = FailPending(call, b)
    /\ UNCHANGED <<sup, listening, dirs, kernel, spawned, generation, bundles, req, runs>>

\* The coroutine goes on with the answer.
Resume(c) ==
    /\ call[c].pc = "answered"
    /\ \/ /\ call[c].restoring > 0
          /\ Restore(c, sup)
       \/ /\ call[c].restoring = 0 /\ req[c].at = "answered" /\ call[c].step < LastStep(c)
          /\ Enter(c, [call EXCEPT ![c].step = @ + 1])
       \/ /\ call[c].restoring = 0
          /\ req[c].at = "answered" => call[c].step = LastStep(c)
          /\ call' = Ended(call, c, IF req[c].at = "answered" THEN "ok" ELSE "error")
          /\ UNCHANGED <<sup, closed, listening, dirs, bundles, req>>
    /\ UNCHANGED <<kernel, spawned, generation, runs>>

\* The connection dropped mid-call.  In _restore_kernel_state nobody handles it.
ResumeFailed(c) ==
    /\ call[c].pc = "failed"
    /\ \/ /\ call[c].restoring > 0
          /\ call' = Ended(call, c, "rpc error")
          /\ sup' = Released(sup, c)
          /\ UNCHANGED <<closed, listening, dirs>>
       \/ /\ call[c].restoring = 0
          /\ Teardown(c, "begin", sup, [call EXCEPT ![c].result = "died"])
    /\ UNCHANGED <<kernel, spawned, generation, bundles, req, runs>>

-----------------------------------------------------------------------------
\* What the event loop of the supervisor does for a call.
Supervisor(c) ==
    \/ Locked(c) \/ Serves(c) \/ Spawned(c) \/ Booted(c) \/ BootFails(c)
    \/ Deliver(c) \/ Resume(c) \/ ResumeFailed(c)
    \/ Closed(c) \/ Killed(c) \/ Stopped(c)

Kernel(b) == Connects(b) \/ BrokerAnswers(b) \/ CellEnds(b) \/ KernelExits(b)

Next ==
    /\ \/ \E c \in Calls : Begin(c) \/ Close(c) \/ Supervisor(c) \/ TakeCell(c) \/ Serve(c)
       \/ \E b \in Boots : Kernel(b) \/ KernelDies(b) \/ ReadLoopEnds(b)
    /\ UNCHANGED op

Spec == Init /\ [][Next]_vars

\* Coroutines that can go on do; a cell ends, by its timeout if need be; the end
\* of a connection is noticed.  That the host calls and that a kernel dies is
\* not assumed.
Fairness ==
    /\ \A c \in Calls : /\ WF_vars(Supervisor(c) /\ UNCHANGED op)
                        /\ WF_vars((TakeCell(c) \/ Serve(c)) /\ UNCHANGED op)
    /\ \A b \in Boots : /\ WF_vars((BrokerAnswers(b) \/ CellEnds(b)) /\ UNCHANGED op)
                        /\ WF_vars((KernelExits(b) \/ ReadLoopEnds(b)) /\ UNCHANGED op)

FairSpec == Spec /\ Fairness

-----------------------------------------------------------------------------
TypeOK ==
    /\ sup \in [started : BOOLEAN,
                lock : {c \in Calls : call[c].pc \notin {"idle", "ended"}} \cup {NoCall},
                rpc : Boot0, proc : Boot0, server : Boot0, dir : Boot0, connected : BOOLEAN]
    /\ spawned \in Boot0 /\ generation \in Boot0 /\ generation <= spawned
    /\ bundles \in BOOLEAN /\ op \in Mixes
    /\ closed \subseteq Boots /\ listening \subseteq Boots /\ dirs \subseteq Boots
    /\ kernel \in [Boots -> [alive : BOOLEAN, linked : BOOLEAN, names : BOOLEAN,
                             snippets : Nat, running : Calls \cup {NoCall},
                             asking : BOOLEAN]]
    /\ call \in [Calls -> [pc : {"idle", "locking", "serving", "spawning", "connecting",
                                 "waiting", "answered", "failed", "closing", "killing",
                                 "stopping", "ended"},
                           step : Nat, restoring : Nat, held : Boot0, result : Results]]
    /\ req \in [Calls -> [at : {"none", "queued", "running", "answered", "refused", "lost"},
                          boot : Boot0, what : Ops \cup {"snippet"},
                          ahead : SUBSET Calls]]
    /\ runs \in [Calls -> Nat]

\* What the host is told of a cell says whether it ran: once when the call
\* returns; not at all when the kernel could not be booted or restored, or the
\* executor was being torn down; at most once when the kernel died, for a
\* failing call is never repeated (_call, _restore_kernel_state).
OutcomeTellsWhatRan ==
    \A c \in Calls :
       /\ runs[c] <= 1
       /\ call[c].pc = "ended" /\ op[c] \in {"cell", "fetch"} =>
            /\ call[c].result = "ok" => runs[c] = 1
            /\ call[c].result \in {"boot failed", "rpc error", "assertion"} => runs[c] = 0

\* A call that got its answer keeps it, whatever happens to the connection
\* before the coroutine resumes, and a call that ended stays as it ended
\* (_dispatch, _fail_pending: futures that are done are left alone).
AnswersStand ==
    [][\A c \in Calls :
         /\ call[c].pc = "answered" => call'[c].pc # "failed"
         /\ call[c].pc = "ended" => call'[c] = call[c]]_vars

\* Every call that was begun ends, with an answer or an error, whatever dies and
\* whoever tears down meanwhile: no future is left pending (_fail_pending) and no
\* start lock is kept (_ensure_started).
EveryCallEnds == \A c \in Calls : call[c].pc # "idle" ~> call[c].pc = "ended"

\* A cell that the host sends runs in a kernel whose setup is restored:
\* executor.py says of a replaced kernel "(names + setup snippets restored)".
RestoredBeforeUse ==
    [][\A c \in Calls : runs'[c] > runs[c] =>
         LET k == kernel[req[c].boot]
         IN generation > 1 => k.snippets = Snippets /\ (bundles => k.names)]_vars
==============================================================================
