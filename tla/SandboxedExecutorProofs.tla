------------------------ MODULE SandboxedExecutorProofs ------------------------
(***************************************************************************)
(* The sandboxed executor for any number of calls, boots and snippets:     *)
(* however a call ends, what the host is told agrees with how often its    *)
(* cell ran.  The argument follows the one request of a call that runs its *)
(* own cell: it is sent once, with the restoring behind it, and what comes *)
(* back decides the result.                                                *)
(***************************************************************************)
EXTENDS SandboxedExecutor, TLAPS

Booting == {"serving", "spawning", "connecting"}
Early == {"idle", "locking"} \cup Booting
Leaving == {"closing", "killing", "stopping"}

SupRec == [started : BOOLEAN, lock : Calls \cup {NoCall}, rpc : Boot0, proc : Boot0,
           server : Boot0, dir : Boot0, connected : BOOLEAN]
CallRec == [pc : Early \cup Leaving \cup {"waiting", "answered", "failed", "ended"},
            step : Nat, restoring : Nat, held : Boot0, result : Results]
ReqRec == [at : {"none", "queued", "running", "answered", "refused", "lost"},
           boot : Boot0, what : Ops \cup {"snippet"}, ahead : SUBSET Calls]
KernelRec == [alive : BOOLEAN, linked : BOOLEAN, names : BOOLEAN, snippets : Nat,
              running : Calls \cup {NoCall}, asking : BOOLEAN]

\* A request that runs the cell of its call, and no snippet.
IsOwn(r) == r.what \in {"cell", "fetch"}

Types ==
    /\ sup \in SupRec
    /\ spawned \in Boot0 /\ generation \in Boot0 /\ generation <= spawned
    /\ bundles \in BOOLEAN /\ op \in Mixes
    /\ closed \subseteq Boots /\ listening \subseteq Boots /\ dirs \subseteq Boots
    /\ kernel \in [Boots -> KernelRec]
    /\ call \in [Calls -> CallRec]
    /\ req \in [Calls -> ReqRec]
    /\ runs \in [Calls -> Nat]

\* Where a coroutine is, and what it has asked for by then.
Position(o, k, r) ==
    /\ k.pc \in Early => k.restoring = 0 /\ r.at \in {"none", "answered", "refused"}
    /\ k.pc = "answered" => r.at \in {"answered", "refused"}
    /\ k.pc \in Early \/ k.restoring > 0 => ~IsOwn(r)
    /\ k.pc \in {"waiting", "answered"} /\ k.restoring = 0 /\ o \in {"cell", "fetch"}
         => IsOwn(r)
    /\ o # "clear" => k.step = 0
    /\ IsOwn(r) => o \in {"cell", "fetch"}

\* How often the cell was begun, by how its request stands.
Count(r, n) ==
    /\ r.at = "refused" => r.what = "file"
    /\ n <= 1
    /\ ~IsOwn(r) \/ r.at \in {"none", "queued"} => n = 0
    /\ IsOwn(r) /\ r.at \in {"running", "answered"} => n = 1

\* What a result says of the request.
Verdict(o, k, r) ==
    /\ k.pc \notin Leaving \cup {"ended"} => k.result = "none"
    /\ k.pc \in Leaving => k.result \in {"died", "boot failed", "closed"}
    /\ IsOwn(r) => k.result \notin {"boot failed", "rpc error", "assertion"}
    /\ k.result = "ok" /\ o \in {"cell", "fetch"} => IsOwn(r) /\ r.at = "answered"

CallInv(c) == /\ Position(op[c], call[c], req[c])
              /\ Count(req[c], runs[c])
              /\ Verdict(op[c], call[c], req[c])

\* Who holds the start lock is booting, restoring or tearing down.
LockInv ==
    /\ \A c \in Calls : call[c].pc \in Booting =>
          sup.lock = c /\ call[c].held \in Boots /\ generation < spawned
    /\ \A c \in Calls : sup.lock = c =>
          \/ call[c].pc \in Booting \cup Leaving
          \/ call[c].restoring > 0 /\ call[c].pc \in {"waiting", "answered", "failed"}

\* What a kernel runs is a request that was sent to it and is not answered.
KernelInv ==
    \A b \in Boots : kernel[b].running # NoCall =>
        LET r == req[kernel[b].running]
        IN r.at = "running" /\ r.boot = b

IInv == Types /\ (\A c \in Calls : CallInv(c)) /\ LockInv /\ KernelInv

USE SandboxAssumption

-----------------------------------------------------------------------------
(***************************************************************************)
(* What the pieces of the actions do to the calls and the start lock.      *)
(***************************************************************************)

\* The coroutine of a call is told that its connection is gone, or left alone.
Told(d) == \/ call'[d] = call[d]
           \/ call[d].pc = "waiting" /\ call'[d] = [call[d] EXCEPT !.pc = "failed"]

\* A request is left alone, or lost with its kernel.
Lost(d) == \/ req'[d] = req[d]
           \/ /\ req[d].at \in {"queued", "running"}
              /\ req'[d] = [req[d] EXCEPT !.at = "lost", !.ahead = {}]

\* A function that is changed in one place.
LEMMA Updated ==
    ASSUME NEW S, NEW T, NEW f \in [S -> T], NEW s \in S, NEW t \in T, NEW g,
           g = [f EXCEPT ![s] = t]
    PROVE  g \in [S -> T] /\ g[s] = t /\ \A x \in S \ {s} : g[x] = f[x]
  OBVIOUS

\* No call has begun and no kernel runs.
LEMMA InitIInv == Init => IInv
<1> SUFFICES ASSUME Init PROVE IInv
  OBVIOUS
<1>1. Types
  BY DEF Init, Types, SupRec, CallRec, ReqRec, KernelRec, Boots, Boot0, Early, Booting,
         Results, Ops
<1>2. ASSUME NEW c \in Calls PROVE CallInv(c)
  <2>1. /\ call[c].pc = "idle" /\ call[c].step = 0 /\ call[c].restoring = 0
        /\ call[c].result = "none"
        /\ req[c].at = "none" /\ req[c].what = "file" /\ runs[c] = 0
    BY DEF Init
  <2> QED
    BY <2>1 DEF CallInv, Position, Count, Verdict, IsOwn, Early, Leaving, Booting
<1>3. LockInv /\ KernelInv
  BY DEF Init, LockInv, KernelInv, Booting, Leaving
<1> QED
  BY <1>1, <1>2, <1>3 DEF IInv

\* Whoever is told, or whose request is lost, has nothing new to say of its cell.
LEMMA BystanderKeeps ==
    ASSUME Types, NEW d \in Calls, CallInv(d), Told(d), Lost(d),
           op' = op, runs'[d] = runs[d]
    PROVE  CallInv(d)'
<1>1. req[d] \in ReqRec /\ call[d] \in CallRec
  BY DEF Types
<1>2. /\ req'[d].what = req[d].what
      /\ \/ req'[d].at = req[d].at
         \/ req[d].at \in {"queued", "running"} /\ req'[d].at = "lost"
  <2>1. CASE req'[d] = req[d]
    BY <2>1
  <2>2. CASE req[d].at \in {"queued", "running"}
             /\ req'[d] = [req[d] EXCEPT !.at = "lost", !.ahead = {}]
    BY <1>1, <2>2 DEF ReqRec
  <2> QED
    BY <2>1, <2>2 DEF Lost
<1>3. /\ call'[d].step = call[d].step /\ call'[d].restoring = call[d].restoring
      /\ call'[d].result = call[d].result
      /\ \/ call'[d].pc = call[d].pc
         \/ call[d].pc = "waiting" /\ call'[d].pc = "failed"
  BY <1>1 DEF Told, CallRec
<1>4. Position(op[d], call[d], req[d])'
  BY <1>2, <1>3 DEF CallInv, Position, IsOwn, Early, Booting
<1>5. Count(req[d], runs[d])'
  BY <1>2 DEF CallInv, Count, IsOwn
<1>6. Verdict(op[d], call[d], req[d])'
  BY <1>2, <1>3 DEF CallInv, Verdict, IsOwn, Leaving
<1> QED
  BY <1>4, <1>5, <1>6 DEF CallInv

\* A teardown goes on to the next stage or ends the call; the others are told,
\* and the lock goes back at the end.
LEMMA TeardownEffect ==
    ASSUME Types, NEW c \in Calls, call[c].pc # "waiting",
           NEW stage, NEW s \in SupRec, NEW cs \in [Calls -> CallRec],
           \A d \in Calls \ {c} : cs[d] = call[d],
           Teardown(c, stage, s, cs)
    PROVE  /\ sup' \in SupRec /\ call' \in [Calls -> CallRec]
           /\ closed' \subseteq Boots /\ listening' \subseteq Boots /\ dirs' \subseteq Boots
           /\ \A d \in Calls \ {c} : Told(d)
           /\ call'[c].pc \in Leaving \cup {"ended"}
           /\ call'[c].step = cs[c].step /\ call'[c].restoring = cs[c].restoring
           /\ call'[c].result = cs[c].result
           /\ sup'.lock = s.lock \/ (s.lock = c /\ sup'.lock = NoCall)
           /\ call'[c].pc = "ended" => sup'.lock # c
<1> DEFINE next == NextStage(stage, s)
           at == [cs EXCEPT ![c].pc = next,
                            ![c].held = IF next = "killing" THEN s.proc ELSE 0]
<1>1. next \in Leaving \cup {"done"} /\ (next = "closing" => s.rpc \in Boots)
  BY DEF NextStage, Leaving, SupRec, Boot0, Boots
<1>2. c # NoCall /\ 0 \in Boot0 /\ cs[c] \in CallRec
  BY DEF Boot0
<1>3. /\ closed' \subseteq Boots /\ listening' \subseteq Boots /\ dirs' \subseteq Boots
  <2>1. (closed' = closed \cup {s.rpc} /\ next = "closing") \/ closed' = closed
    BY DEF Teardown
  <2>2. listening' = listening \ {s.server} \/ listening' = listening
    BY DEF Teardown
  <2>3. dirs' = dirs \ {s.dir} \/ dirs' = dirs
    BY DEF Teardown
  <2> QED
    BY <1>1, <2>1, <2>2, <2>3 DEF Types
<1>4. CASE next = "done"
  <2>1. /\ sup' = [Released(s, c) EXCEPT !.dir = 0, !.started = FALSE, !.connected = FALSE]
        /\ call' = Ended(cs, c, cs[c].result)
    BY <1>4 DEF Teardown
  <2>2. Released(s, c) \in SupRec /\ Released(s, c).lock = IF s.lock = c THEN NoCall ELSE s.lock
    BY DEF Released, SupRec
  <2>3. sup' \in SupRec /\ sup'.lock = Released(s, c).lock
    BY <1>2, <2>1, <2>2 DEF SupRec
  <2>4. call' = [cs EXCEPT ![c] = [cs[c] EXCEPT !.pc = "ended", !.held = 0]]
    BY <2>1 DEF Ended, CallRec
  <2>5. [cs[c] EXCEPT !.pc = "ended", !.held = 0] \in CallRec
    BY <1>2 DEF CallRec
  <2>6. call' \in [Calls -> CallRec] /\ call'[c] = [cs[c] EXCEPT !.pc = "ended", !.held = 0]
        /\ \A d \in Calls \ {c} : call'[d] = cs[d]
    BY <2>4, <2>5, Updated
  <2>7. /\ call'[c].pc = "ended" /\ call'[c].step = cs[c].step
        /\ call'[c].restoring = cs[c].restoring /\ call'[c].result = cs[c].result
    BY <2>6 DEF CallRec
  <2>8. \A d \in Calls \ {c} : Told(d)
    BY <2>6 DEF Told
  <2> QED
    BY <1>2, <1>3, <2>2, <2>3, <2>6, <2>7, <2>8
<1>5. CASE next # "done"
  <2> DEFINE there == [cs[c] EXCEPT !.pc = next, !.held = IF next = "killing" THEN s.proc ELSE 0]
  <2>1. sup' = s /\ call' = IF next = "closing" THEN FailPending(at, s.rpc) ELSE at
    BY <1>5 DEF Teardown
  <2>2. at = [cs EXCEPT ![c] = there]
    OBVIOUS
  <2>3. /\ there \in CallRec
        /\ there.pc = next /\ there.step = cs[c].step
        /\ there.restoring = cs[c].restoring /\ there.result = cs[c].result
    BY <1>1, <1>2, <1>5 DEF CallRec, SupRec, Leaving
  <2>4. at \in [Calls -> CallRec] /\ at[c] = there /\ \A d \in Calls \ {c} : at[d] = call[d]
    BY <2>2, <2>3, Updated
  <2>5. CASE next = "closing"
    <3>1. call' = FailPending(at, s.rpc)
      BY <2>1, <2>5
    <3>2. \A d \in Calls : call'[d] = IF d \in Waiting(s.rpc)
                                      THEN [at[d] EXCEPT !.pc = "failed"] ELSE at[d]
      BY <3>1 DEF FailPending
    <3>3. call' \in [Calls -> CallRec]
      <4>1. ASSUME NEW d \in Calls PROVE call'[d] \in CallRec
        <5>1. at[d] \in CallRec
          BY <2>4
        <5>2. [at[d] EXCEPT !.pc = "failed"] \in CallRec
          BY <5>1 DEF CallRec
        <5> QED
          BY <3>2, <5>1, <5>2
      <4> QED
        BY <3>1, <4>1 DEF FailPending
    <3>4. call'[c] = there
      BY <2>4, <3>2 DEF Waiting
    <3>5. \A d \in Calls \ {c} : Told(d)
      BY <2>4, <3>2 DEF Told, Waiting
    <3> QED
      BY <1>1, <1>3, <1>5, <2>1, <2>3, <3>3, <3>4, <3>5 DEF Leaving
  <2>6. CASE next # "closing"
    <3>1. call' = at /\ \A d \in Calls \ {c} : Told(d)
      BY <2>1, <2>4, <2>6 DEF Told
    <3> QED
      BY <1>1, <1>3, <1>5, <2>1, <2>3, <2>4, <3>1 DEF Leaving
  <2> QED
    BY <2>5, <2>6
<1> QED
  BY <1>4, <1>5

\* Ending a call sets its place and its result, nothing else of it.
LEMMA EndedEffect ==
    ASSUME NEW c \in Calls, NEW cs \in [Calls -> CallRec], NEW result \in Results
    PROVE  /\ Ended(cs, c, result) \in [Calls -> CallRec]
           /\ Ended(cs, c, result)[c].pc = "ended"
           /\ Ended(cs, c, result)[c].step = cs[c].step
           /\ Ended(cs, c, result)[c].restoring = cs[c].restoring
           /\ Ended(cs, c, result)[c].result = result
           /\ \A d \in Calls \ {c} : Ended(cs, c, result)[d] = cs[d]
<1> DEFINE there == [cs[c] EXCEPT !.pc = "ended", !.held = 0, !.result = result]
<1>1. cs[c] \in CallRec /\ 0 \in Boot0
  BY DEF Boot0
<1>2. there \in CallRec
  BY <1>1 DEF CallRec
<1>3. /\ there.pc = "ended" /\ there.step = cs[c].step
      /\ there.restoring = cs[c].restoring /\ there.result = result
  BY <1>1 DEF CallRec
<1>4. Ended(cs, c, result) = [cs EXCEPT ![c] = there]
  BY DEF Ended
<1> QED
  BY <1>2, <1>3, <1>4, Updated

\* A request is queued, or lost with its connection, and its call waits.
LEMMA RequestEffect ==
    ASSUME Types, NEW c \in Calls, NEW what \in Ops \cup {"snippet"},
           NEW cs \in [Calls -> CallRec], Request(c, what, cs)
    PROVE  /\ call' \in [Calls -> CallRec] /\ req' \in [Calls -> ReqRec]
           /\ call'[c].pc = "waiting" /\ call'[c].step = cs[c].step
           /\ call'[c].restoring = cs[c].restoring /\ call'[c].result = cs[c].result
           /\ req'[c].at \in {"queued", "lost"} /\ req'[c].what = what
           /\ \A d \in Calls \ {c} : call'[d] = cs[d] /\ req'[d] = req[d]
<1> DEFINE there == [cs[c] EXCEPT !.pc = "waiting", !.held = 0]
           sent == IF kernel[sup.rpc].alive
                   THEN [at |-> "queued", boot |-> sup.rpc, what |-> what,
                         ahead |-> Queued(sup.rpc)]
                   ELSE [at |-> "lost", boot |-> sup.rpc, what |-> what, ahead |-> {}]
<1>1. cs[c] \in CallRec /\ 0 \in Boot0 /\ sup.rpc \in Boot0
  BY DEF Boot0, Types, SupRec
<1>2. /\ there \in CallRec
      /\ there.pc = "waiting" /\ there.step = cs[c].step
      /\ there.restoring = cs[c].restoring /\ there.result = cs[c].result
  BY <1>1 DEF CallRec
<1>3. call' = [cs EXCEPT ![c] = there]
  BY DEF Request
<1>4. sent \in ReqRec /\ sent.at \in {"queued", "lost"} /\ sent.what = what
  <2>1. Queued(sup.rpc) \subseteq Calls
    BY DEF Queued
  <2>2. CASE kernel[sup.rpc].alive
    BY <1>1, <2>1, <2>2 DEF ReqRec
  <2>3. CASE ~kernel[sup.rpc].alive
    BY <1>1, <2>3 DEF ReqRec
  <2> QED
    BY <2>2, <2>3
<1>5. req' = [req EXCEPT ![c] = sent]
  BY DEF Request
<1>6. /\ call' \in [Calls -> CallRec] /\ call'[c] = there
      /\ \A d \in Calls \ {c} : call'[d] = cs[d]
  BY <1>2, <1>3, Updated
<1>7. /\ req' \in [Calls -> ReqRec] /\ req'[c] = sent
      /\ \A d \in Calls \ {c} : req'[d] = req[d]
  <2> req \in [Calls -> ReqRec]
    BY DEF Types
  <2> QED
    BY <1>4, <1>5, Updated
<1> QED
  BY <1>2, <1>4, <1>6, <1>7

\* What an action of the coroutine of c leaves behind: at most the lock given
\* back, and never in the middle of a boot.
Effect(c) ==
    /\ sup' \in SupRec /\ call' \in [Calls -> CallRec] /\ req' \in [Calls -> ReqRec]
    /\ closed' \subseteq Boots /\ listening' \subseteq Boots /\ dirs' \subseteq Boots
    /\ \A d \in Calls \ {c} : Told(d) /\ Lost(d)
    /\ Position(op[c], call'[c], req'[c])
    /\ Count(req'[c], runs[c])
    /\ Verdict(op[c], call'[c], req'[c])
    /\ sup'.lock = sup.lock \/ (sup.lock = c /\ sup'.lock = NoCall)
    /\ call'[c].pc \notin Booting /\ call'[c].pc # "failed"
    /\ sup'.lock = c =>
         \/ call'[c].pc \in Leaving
         \/ call'[c].restoring > 0 /\ call'[c].pc \in {"waiting", "answered", "failed"}

\* An answer stands, and so does the end of a call.
Stands == \A d \in Calls : /\ call[d].pc = "answered" => call'[d].pc # "failed"
                           /\ call[d].pc = "ended" => call'[d] = call[d]

Preserved == IInv' /\ Stands

\* The requests that kernels run are left alone.
StillRuns == \A c \in Calls : req[c].at = "running" => req'[c] = req[c]

\* A step that moves one call within its effect keeps the invariant.
LEMMA EffectKeeps ==
    ASSUME IInv, NEW c \in Calls, Effect(c), call[c].pc # "ended",
           op' = op, runs' = runs, spawned' = spawned, bundles' \in BOOLEAN,
           kernel' \in [Boots -> KernelRec], KernelInv',
           \/ generation' = generation
           \/ generation' = generation + 1 /\ call[c].pc \in Booting
    PROVE  Preserved
<1> USE DEF IInv
<1>1. Types'
  <2>1. generation' \in Boot0 /\ generation' <= spawned'
    BY DEF Types, LockInv, Boot0, Boots
  <2> QED
    BY <2>1 DEF Types, Effect
<1>2. ASSUME NEW d \in Calls PROVE CallInv(d)'
  <2>1. CASE d = c
    BY <2>1 DEF Effect, CallInv
  <2>2. CASE d # c
    BY <2>2, BystanderKeeps DEF Effect
  <2> QED
    BY <2>1, <2>2
<1>3. LockInv'
  <2>1. ASSUME NEW d \in Calls \ {c}
        PROVE  /\ call'[d].held = call[d].held /\ call'[d].restoring = call[d].restoring
               /\ \/ call'[d].pc = call[d].pc
                  \/ call[d].pc = "waiting" /\ call'[d].pc = "failed"
    <3>1. call[d] \in CallRec /\ Told(d)
      BY DEF Types, Effect
    <3>2. CASE call'[d] = call[d]
      BY <3>2
    <3>3. CASE call[d].pc = "waiting" /\ call'[d] = [call[d] EXCEPT !.pc = "failed"]
      BY <3>1, <3>3 DEF CallRec
    <3> QED
      BY <3>1, <3>2, <3>3 DEF Told
  <2>2. ASSUME NEW d \in Calls, call'[d].pc \in Booting
        PROVE  sup'.lock = d /\ call'[d].held \in Boots /\ generation' < spawned'
    <3>1. d # c
      BY <2>2 DEF Effect
    <3>2. call[d].pc \in Booting /\ call'[d].held = call[d].held
      BY <2>1, <2>2, <3>1 DEF Booting
    <3>3. sup.lock = d /\ call[d].held \in Boots /\ generation < spawned
      BY <3>2 DEF LockInv
    <3>4. generation' = generation
      BY <3>1, <3>3 DEF LockInv
    <3> QED
      BY <3>1, <3>2, <3>3, <3>4 DEF Effect
  <2>3. ASSUME NEW d \in Calls, sup'.lock = d
        PROVE  \/ call'[d].pc \in Booting \cup Leaving
               \/ call'[d].restoring > 0 /\ call'[d].pc \in {"waiting", "answered", "failed"}
    <3>1. CASE d = c
      BY <2>3, <3>1 DEF Effect
    <3>2. CASE d # c
      <4>1. sup.lock = d
        BY <2>3, <3>2 DEF Effect
      <4>2. \/ call[d].pc \in Booting \cup Leaving
            \/ call[d].restoring > 0 /\ call[d].pc \in {"waiting", "answered", "failed"}
        BY <4>1 DEF LockInv
      <4> QED
        BY <2>1, <3>2, <4>2 DEF Booting, Leaving
    <3> QED
      BY <3>1, <3>2
  <2> QED
    BY <2>2, <2>3 DEF LockInv
<1>4. Stands
  <2>1. ASSUME NEW d \in Calls \ {c}, call[d].pc # "waiting" PROVE call'[d] = call[d]
    BY <2>1 DEF Effect, Told
  <2> QED
    BY <2>1 DEF Effect, Stands
<1> QED
  BY <1>1, <1>2, <1>3, <1>4 DEF Preserved

\* The kernels keep theirs when no running request is touched.
LEMMA StillRunsKeeps ==
    ASSUME Types, KernelInv, kernel' = kernel, StillRuns PROVE KernelInv'
<1>1. \A b \in Boots : kernel[b].running \in Calls \cup {NoCall}
  BY DEF Types, KernelRec
<1> QED
  BY <1>1 DEF KernelInv, StillRuns

\* A call that has not asked for its cell yet, with cs what becomes of the calls.
Fresh(c, cs) ==
    /\ cs \in [Calls -> CallRec]
    /\ \A d \in Calls \ {c} : cs[d] = call[d]
    /\ cs[c].result = "none"
    /\ op[c] # "clear" => cs[c].step = 0
    /\ call[c].pc # "waiting"
    /\ ~IsOwn(req[c]) /\ req[c].at \in {"none", "answered", "refused"}

\* The executor with which a call goes on, the lock as it was or given back.
Onward(c, s) ==
    /\ s \in SupRec
    /\ s.lock = sup.lock \/ (sup.lock = c /\ s.lock = NoCall)

\* The call is made at last, or finds no endpoint, or a closed one.
LEMMA CallStartedEffect ==
    ASSUME IInv, NEW c \in Calls, NEW s, NEW cs, Fresh(c, cs), cs[c].restoring = 0,
           Onward(c, s), s.lock # c, CallStarted(c, s, cs)
    PROVE  Effect(c) /\ StillRuns /\ bundles' \in BOOLEAN
<1> USE DEF IInv
<1>1. bundles' \in BOOLEAN
  BY DEF CallStarted, Types
<1>2. /\ Types /\ op[c] \in Ops /\ Count(req[c], runs[c]) /\ cs[c] \in CallRec
      /\ closed \subseteq Boots /\ listening \subseteq Boots /\ dirs \subseteq Boots
      /\ req \in [Calls -> ReqRec] /\ c # NoCall
  BY DEF Types, CallInv, Fresh
<1>3. runs[c] = 0
  BY <1>2 DEF Count, Fresh
<1> DEFINE what == IF cs[c].step > 0 THEN "snippet" ELSE op[c]
<1>4. CASE Request(c, what, cs) /\ sup' = s /\ UNCHANGED <<closed, listening, dirs>>
  <2>1. what \in Ops \cup {"snippet"}
    BY <1>2
  <2>2. /\ call' \in [Calls -> CallRec] /\ req' \in [Calls -> ReqRec]
        /\ call'[c].pc = "waiting" /\ call'[c].step = cs[c].step
        /\ call'[c].restoring = 0 /\ call'[c].result = "none"
        /\ req'[c].at \in {"queued", "lost"} /\ req'[c].what = what
        /\ \A d \in Calls \ {c} : call'[d] = call[d] /\ req'[d] = req[d]
    BY <1>2, <1>4, <2>1, RequestEffect DEF Fresh
  <2>3. what \in {"cell", "fetch"} => op[c] = what
    OBVIOUS
  <2>4. op[c] \in {"cell", "fetch"} => what = op[c]
    BY <1>2 DEF Fresh, CallRec
  <2>5. Position(op[c], call'[c], req'[c])
    BY <2>2, <2>3, <2>4 DEF Position, IsOwn, Early, Booting, Fresh
  <2>6. Count(req'[c], runs[c]) /\ Verdict(op[c], call'[c], req'[c])
    BY <1>3, <2>2 DEF Count, Verdict, IsOwn, Leaving
  <2>7. \A d \in Calls \ {c} : Told(d) /\ Lost(d)
    BY <2>2 DEF Told, Lost
  <2>8. StillRuns
    BY <2>2 DEF StillRuns, Fresh
  <2>9. /\ sup' \in SupRec /\ sup'.lock # c /\ call'[c].pc \notin Booting
        /\ sup'.lock = sup.lock \/ (sup.lock = c /\ sup'.lock = NoCall)
        /\ closed' \subseteq Boots /\ listening' \subseteq Boots /\ dirs' \subseteq Boots
    BY <1>2, <1>4, <2>2 DEF Onward, Booting
  <2> QED
    BY <1>1, <2>2, <2>5, <2>6, <2>7, <2>8, <2>9 DEF Effect
<1>5. CASE call' = Ended(cs, c, "assertion") /\ sup' = s
           /\ UNCHANGED <<req, closed, listening, dirs>>
  <2>1. /\ call' \in [Calls -> CallRec]
        /\ call'[c].pc = "ended" /\ call'[c].step = cs[c].step
        /\ call'[c].restoring = 0 /\ call'[c].result = "assertion"
        /\ \A d \in Calls \ {c} : call'[d] = call[d]
    <3> "assertion" \in Results
      BY DEF Results
    <3> QED
      BY <1>5, EndedEffect DEF Fresh
  <2>2. Position(op[c], call'[c], req[c])
    BY <2>1 DEF Position, Early, Booting, Fresh
  <2>3. Verdict(op[c], call'[c], req[c])
    BY <2>1 DEF Verdict, Leaving, Fresh
  <2>4. \A d \in Calls \ {c} : Told(d) /\ Lost(d)
    BY <1>5, <2>1 DEF Told, Lost
  <2>5. StillRuns
    BY <1>5 DEF StillRuns
  <2>6. /\ sup' \in SupRec /\ sup'.lock # c /\ call'[c].pc \notin Booting
        /\ sup'.lock = sup.lock \/ (sup.lock = c /\ sup'.lock = NoCall)
    BY <1>5, <2>1 DEF Onward, Booting
  <2> QED
    BY <1>1, <1>2, <1>5, <2>1, <2>2, <2>3, <2>4, <2>5, <2>6 DEF Effect
<1>6. CASE Teardown(c, "begin", s, [cs EXCEPT ![c].result = "died"]) /\ UNCHANGED req
  <2> DEFINE there == [cs[c] EXCEPT !.result = "died"]
             cs2 == [cs EXCEPT ![c].result = "died"]
  <2>1. there \in CallRec /\ there.step = cs[c].step /\ there.restoring = 0
        /\ there.result = "died"
    BY <1>2 DEF CallRec, Results
  <2>2. cs2 = [cs EXCEPT ![c] = there]
    OBVIOUS
  <2>3. cs2 \in [Calls -> CallRec] /\ cs2[c] = there /\ \A d \in Calls \ {c} : cs2[d] = call[d]
    BY <2>1, <2>2, Updated DEF Fresh
  <2> HIDE DEF cs2, there
  <2>4. /\ s \in SupRec /\ call[c].pc # "waiting"
    BY DEF Onward, Fresh
  <2>5. Teardown(c, "begin", s, cs2)
    BY <1>6 DEF cs2
  <2>6. /\ sup' \in SupRec /\ call' \in [Calls -> CallRec]
        /\ closed' \subseteq Boots /\ listening' \subseteq Boots /\ dirs' \subseteq Boots
        /\ \A d \in Calls \ {c} : Told(d)
        /\ call'[c].pc \in Leaving \cup {"ended"}
        /\ call'[c].step = cs2[c].step /\ call'[c].restoring = cs2[c].restoring
        /\ call'[c].result = cs2[c].result
        /\ sup'.lock = s.lock \/ (s.lock = c /\ sup'.lock = NoCall)
        /\ call'[c].pc = "ended" => sup'.lock # c
    BY <1>2, <2>3, <2>4, <2>5, TeardownEffect
  <2>7. Position(op[c], call'[c], req[c])
    BY <2>1, <2>3, <2>6 DEF Position, Early, Booting, Leaving, Fresh
  <2>8. Verdict(op[c], call'[c], req[c])
    BY <2>1, <2>3, <2>6 DEF Verdict, Leaving, Fresh
  <2>9. \A d \in Calls \ {c} : Told(d) /\ Lost(d)
    BY <1>6, <2>6 DEF Lost
  <2>10. StillRuns
    BY <1>6 DEF StillRuns
  <2>11. /\ sup'.lock # c /\ call'[c].pc \notin Booting /\ call'[c].pc # "failed"
         /\ sup'.lock = sup.lock \/ (sup.lock = c /\ sup'.lock = NoCall)
    BY <2>6 DEF Onward, Booting, Leaving
  <2> QED
    BY <1>1, <1>2, <1>6, <2>6, <2>7, <2>8, <2>9, <2>10, <2>11 DEF Effect
<1> QED
  BY <1>4, <1>5, <1>6 DEF CallStarted

\* Entering moves a call past the start, or to the lock.
LEMMA EnterEffect ==
    ASSUME IInv, NEW c \in Calls, NEW cs, Fresh(c, cs), cs[c].restoring = 0,
           sup.lock # c, Enter(c, cs)
    PROVE  Effect(c) /\ StillRuns /\ bundles' \in BOOLEAN
<1>1. CASE sup.started /\ CallStarted(c, sup, cs)
  <2>1. Onward(c, sup)
    BY DEF Onward, IInv, Types
  <2> QED
    BY <1>1, <2>1, CallStartedEffect
<1>2. CASE /\ call' = [cs EXCEPT ![c].pc = "locking"]
           /\ UNCHANGED <<sup, closed, listening, dirs, bundles, req>>
  <2> DEFINE there == [cs[c] EXCEPT !.pc = "locking"]
  <2>1. /\ there \in CallRec /\ there.pc = "locking" /\ there.step = cs[c].step
        /\ there.restoring = 0 /\ there.result = "none"
    <3>1. cs[c] \in CallRec
      BY DEF Fresh
    <3> QED
      BY <3>1 DEF CallRec, Early, Fresh
  <2>2. call' = [cs EXCEPT ![c] = there]
    BY <1>2
  <2>3. cs \in [Calls -> CallRec]
    BY DEF Fresh
  <2>4. /\ call' \in [Calls -> CallRec] /\ call'[c] = there
        /\ \A d \in Calls \ {c} : call'[d] = cs[d]
    BY <2>1, <2>2, <2>3, Updated
  <2>5. Position(op[c], call'[c], req[c])
    BY <2>1, <2>4 DEF Position, Fresh
  <2>6. Verdict(op[c], call'[c], req[c]) /\ Count(req[c], runs[c])
    BY <2>1, <2>4 DEF Verdict, Leaving, Fresh, IInv, CallInv
  <2>7. \A d \in Calls \ {c} : Told(d) /\ Lost(d)
    BY <1>2, <2>4 DEF Told, Lost, Fresh
  <2>8. StillRuns /\ call'[c].pc \notin Booting
    BY <1>2, <2>1, <2>4 DEF StillRuns, Booting
  <2> QED
    BY <1>2, <2>4, <2>5, <2>6, <2>7, <2>8 DEF Effect, IInv, Types
<1> QED
  BY <1>1, <1>2 DEF Enter

\* A call that ends without a teardown.
LEMMA EndsEffect ==
    ASSUME IInv, NEW c \in Calls, NEW s, Onward(c, s), s.lock # c, NEW why \in Results,
           \A k : k.pc = "ended" /\ k.result = why => Verdict(op[c], k, req[c]),
           call' = Ended(call, c, why), sup' = s,
           UNCHANGED <<closed, listening, dirs, bundles, req>>
    PROVE  Effect(c) /\ StillRuns /\ bundles' \in BOOLEAN
<1>1. /\ call \in [Calls -> CallRec] /\ bundles \in BOOLEAN
      /\ closed \subseteq Boots /\ listening \subseteq Boots /\ dirs \subseteq Boots
      /\ req \in [Calls -> ReqRec] /\ s \in SupRec /\ CallInv(c)
  BY DEF IInv, Types, Onward
<1>2. /\ call' \in [Calls -> CallRec]
      /\ call'[c].pc = "ended" /\ call'[c].step = call[c].step
      /\ call'[c].restoring = call[c].restoring /\ call'[c].result = why
      /\ \A d \in Calls \ {c} : call'[d] = call[d]
  <2> DEFINE there == [call[c] EXCEPT !.pc = "ended", !.held = 0, !.result = why]
  <2>1. call[c] \in CallRec /\ 0 \in Boot0
    BY <1>1 DEF Boot0
  <2>2. /\ there \in CallRec /\ there.pc = "ended" /\ there.step = call[c].step
        /\ there.restoring = call[c].restoring /\ there.result = why
    BY <1>1, <2>1 DEF CallRec
  <2>3. call' = [call EXCEPT ![c] = there]
    BY DEF Ended
  <2> HIDE DEF there
  <2>4. /\ call' \in [Calls -> CallRec] /\ call'[c] = there
        /\ \A d \in Calls \ {c} : call'[d] = call[d]
    BY <1>1, <2>2, <2>3, Updated
  <2> QED
    BY <2>2, <2>4
<1>3. Position(op[c], call'[c], req[c])
  BY <1>1, <1>2 DEF CallInv, Position, Early, Booting
<1>4. Verdict(op[c], call'[c], req[c])
  BY <1>2
<1>5. \A d \in Calls \ {c} : Told(d) /\ Lost(d)
  BY <1>2 DEF Told, Lost
<1>6. StillRuns /\ call'[c].pc \notin Booting
  BY <1>2 DEF StillRuns, Booting
<1> QED
  BY <1>1, <1>2, <1>3, <1>4, <1>5, <1>6 DEF Effect, Onward, CallInv

\* A step of the restoring is sent, or cannot be sent, or there is none left.
LEMMA RestoreEffect ==
    ASSUME IInv, NEW c \in Calls, NEW s, Fresh(c, call), Onward(c, s), Restore(c, s)
    PROVE  Effect(c) /\ StillRuns /\ bundles' \in BOOLEAN
<1> DEFINE r == NextRestore(c)
           there == [call[c] EXCEPT !.restoring = r]
           cs == [call EXCEPT ![c].restoring = r]
<1>1. /\ call \in [Calls -> CallRec] /\ call[c] \in CallRec /\ bundles \in BOOLEAN
      /\ closed \subseteq Boots /\ listening \subseteq Boots /\ dirs \subseteq Boots
      /\ req \in [Calls -> ReqRec] /\ c # NoCall /\ Types /\ s \in SupRec
      /\ Count(req[c], runs[c])
  BY DEF IInv, Types, Onward, CallInv
<1>2. r \in Nat /\ r > 0
  BY <1>1 DEF NextRestore, CallRec
<1>3. /\ there \in CallRec /\ there.step = call[c].step /\ there.restoring = r
      /\ there.result = call[c].result
  BY <1>1, <1>2 DEF CallRec
<1>4. cs = [call EXCEPT ![c] = there]
  OBVIOUS
<1>5. cs \in [Calls -> CallRec] /\ cs[c] = there /\ \A d \in Calls \ {c} : cs[d] = call[d]
  BY <1>1, <1>3, <1>4, Updated
<1>6. /\ Released(s, c) \in SupRec /\ Onward(c, Released(s, c)) /\ Released(s, c).lock # c
  BY <1>1 DEF Released, SupRec, Onward
<1>7. runs[c] = 0
  BY <1>1 DEF Fresh, Count
<1> HIDE DEF there
<1>8. CASE Request(c, IF r = 1 THEN "names" ELSE "snippet", cs) /\ sup' = s
           /\ UNCHANGED <<closed, listening, dirs, bundles>>
  <2> HIDE DEF r, cs
  <2> DEFINE what == IF r = 1 THEN "names" ELSE "snippet"
  <2>1. what \in Ops \cup {"snippet"} /\ what \notin {"cell", "fetch"}
    BY DEF Ops
  <2> HIDE DEF what
  <2>2. /\ call' \in [Calls -> CallRec] /\ req' \in [Calls -> ReqRec]
        /\ call'[c].pc = "waiting" /\ call'[c].step = cs[c].step
        /\ call'[c].restoring = cs[c].restoring /\ call'[c].result = cs[c].result
        /\ req'[c].at \in {"queued", "lost"} /\ req'[c].what = what
        /\ \A d \in Calls \ {c} : call'[d] = cs[d] /\ req'[d] = req[d]
    <3>1. Request(c, what, cs)
      BY <1>8 DEF what
    <3> QED
      BY <1>1, <1>5, <2>1, <3>1, RequestEffect
  <2>3. Position(op[c], call'[c], req'[c])
    BY <1>2, <1>3, <1>5, <2>1, <2>2 DEF Position, IsOwn, Early, Booting, Fresh
  <2>4. Count(req'[c], runs[c]) /\ Verdict(op[c], call'[c], req'[c])
    BY <1>3, <1>5, <1>7, <2>1, <2>2 DEF Count, Verdict, IsOwn, Leaving, Fresh
  <2>5. \A d \in Calls \ {c} : Told(d) /\ Lost(d)
    BY <1>5, <2>2 DEF Told, Lost
  <2>6. StillRuns /\ call'[c].pc \notin Booting
    BY <2>2 DEF StillRuns, Fresh, Booting
  <2>7. call'[c].restoring > 0
    BY <1>2, <1>3, <1>5, <2>2
  <2> QED
    BY <1>1, <1>8, <2>2, <2>3, <2>4, <2>5, <2>6, <2>7 DEF Effect, Onward
<1>9. CASE /\ call' = Ended(call, c, IF s.rpc = 0 THEN "assertion" ELSE "rpc error")
           /\ sup' = Released(s, c) /\ UNCHANGED <<closed, listening, dirs, bundles, req>>
  <2> HIDE DEF r, cs
  <2>1. ASSUME NEW why \in Results, why \in {"assertion", "rpc error"}
        PROVE  \A k : k.pc = "ended" /\ k.result = why => Verdict(op[c], k, req[c])
    BY <2>1 DEF Verdict, Fresh, Leaving
  <2>2. CASE s.rpc = 0
    <3>1. call' = Ended(call, c, "assertion") /\ sup' = Released(s, c)
          /\ UNCHANGED <<closed, listening, dirs, bundles, req>>
      BY <1>9, <2>2
    <3>2. "assertion" \in Results
      BY DEF Results
    <3>3. \A k : k.pc = "ended" /\ k.result = "assertion" => Verdict(op[c], k, req[c])
      BY <2>1, <3>2
    <3> QED
      BY <1>6, <3>1, <3>2, <3>3, EndsEffect
  <2>3. CASE s.rpc # 0
    <3>1. call' = Ended(call, c, "rpc error") /\ sup' = Released(s, c)
          /\ UNCHANGED <<closed, listening, dirs, bundles, req>>
      BY <1>9, <2>3
    <3>2. "rpc error" \in Results
      BY DEF Results
    <3>3. \A k : k.pc = "ended" /\ k.result = "rpc error" => Verdict(op[c], k, req[c])
      BY <2>1, <3>2
    <3> QED
      BY <1>6, <3>1, <3>2, <3>3, EndsEffect
  <2> QED
    BY <2>2, <2>3
<1>10. CASE CallStarted(c, Released(s, c), [call EXCEPT ![c].restoring = 0])
  <2> DEFINE back == [call[c] EXCEPT !.restoring = 0]
             cs0 == [call EXCEPT ![c].restoring = 0]
  <2>1. /\ back \in CallRec /\ back.step = call[c].step /\ back.restoring = 0
        /\ back.result = call[c].result
    BY <1>1 DEF CallRec
  <2>2. cs0 = [call EXCEPT ![c] = back]
    OBVIOUS
  <2>3. cs0 \in [Calls -> CallRec] /\ cs0[c] = back /\ \A d \in Calls \ {c} : cs0[d] = call[d]
    BY <1>1, <2>1, <2>2, Updated
  <2>4. Fresh(c, cs0) /\ cs0[c].restoring = 0
    BY <2>1, <2>3 DEF Fresh
  <2> HIDE DEF cs0
  <2>5. CallStarted(c, Released(s, c), cs0)
    BY <1>10 DEF cs0
  <2> QED
    BY <1>6, <2>4, <2>5, CallStartedEffect
<1> QED
  BY <1>8, <1>9, <1>10 DEF Restore

-----------------------------------------------------------------------------
(***************************************************************************)
(* The actions of a coroutine.                                             *)
(***************************************************************************)

\* A call that has just begun, waits for the lock, boots or resumes with a
\* request behind it that was not its own.
LEMMA StillFresh ==
    ASSUME IInv, NEW c \in Calls,
           \/ call[c].pc \in Early
           \/ call[c].pc = "answered" /\ (call[c].restoring > 0 \/ op[c] \notin {"cell", "fetch"})
    PROVE  Fresh(c, call)
<1>1. call \in [Calls -> CallRec] /\ CallInv(c)
  BY DEF IInv, Types
<1>2. ~IsOwn(req[c]) /\ req[c].at \in {"none", "answered", "refused"}
  BY <1>1 DEF CallInv, Position
<1>3. call[c].result = "none" /\ call[c].pc # "waiting" /\ (op[c] # "clear" => call[c].step = 0)
  BY <1>1 DEF CallInv, Verdict, Position, Early, Booting, Leaving
<1> QED
  BY <1>1, <1>2, <1>3 DEF Fresh

\* A call begins.
LEMMA BeginKeeps ==
    ASSUME IInv, NEW c \in Calls, Begin(c), op' = op PROVE Preserved
<1>1. call[c].pc = "idle" /\ Enter(c, call) /\ UNCHANGED <<kernel, spawned, generation, runs>>
  BY DEF Begin
<1>2. Fresh(c, call) /\ call[c].restoring = 0 /\ sup.lock # c
  BY <1>1, StillFresh DEF IInv, CallInv, Position, LockInv, Early, Booting, Leaving
<1>3. Effect(c) /\ StillRuns /\ bundles' \in BOOLEAN
  BY <1>1, <1>2, EnterEffect
<1>4. KernelInv' /\ kernel' \in [Boots -> KernelRec]
  BY <1>1, <1>3, StillRunsKeeps DEF IInv, Types
<1> QED
  BY <1>1, <1>3, <1>4, EffectKeeps

\* The stages of a teardown, the first one of the host's close included.
LEMMA LeavingKeeps ==
    ASSUME IInv, NEW c \in Calls, NEW stage, NEW s, NEW cs,
           Onward(c, s), cs \in [Calls -> CallRec],
           \A d \in Calls \ {c} : cs[d] = call[d],
           cs[c].step = call[c].step, cs[c].restoring = call[c].restoring,
           cs[c].result \in {"died", "boot failed", "closed"},
           call[c].pc # "waiting", call[c].pc # "ended",
           IsOwn(req[c]) => cs[c].result \in {"died", "closed"},
           Teardown(c, stage, s, cs), \A d \in Calls : Lost(d), req' \in [Calls -> ReqRec],
           op' = op, runs' = runs, UNCHANGED <<spawned, generation, bundles>>,
           kernel' \in [Boots -> KernelRec], KernelInv'
    PROVE  Preserved
<1>1. Types /\ CallInv(c) /\ s \in SupRec
  BY DEF IInv, Onward
<1>2. /\ sup' \in SupRec /\ call' \in [Calls -> CallRec]
      /\ closed' \subseteq Boots /\ listening' \subseteq Boots /\ dirs' \subseteq Boots
      /\ \A d \in Calls \ {c} : Told(d)
      /\ call'[c].pc \in Leaving \cup {"ended"}
      /\ call'[c].step = cs[c].step /\ call'[c].restoring = cs[c].restoring
      /\ call'[c].result = cs[c].result
      /\ sup'.lock = s.lock \/ (s.lock = c /\ sup'.lock = NoCall)
      /\ call'[c].pc = "ended" => sup'.lock # c
  BY <1>1, TeardownEffect
<1>3. /\ req'[c].what = req[c].what
      /\ \/ req'[c].at = req[c].at
         \/ req[c].at \in {"queued", "running"} /\ req'[c].at = "lost"
  <2>1. req[c] \in ReqRec /\ Lost(c)
    BY <1>1 DEF Types
  <2>2. CASE req'[c] = req[c]
    BY <2>2
  <2>3. CASE req[c].at \in {"queued", "running"}
             /\ req'[c] = [req[c] EXCEPT !.at = "lost", !.ahead = {}]
    BY <2>1, <2>3 DEF ReqRec
  <2> QED
    BY <2>1, <2>2, <2>3 DEF Lost
<1>4. Position(op[c], call'[c], req'[c])
  BY <1>1, <1>2, <1>3 DEF CallInv, Position, IsOwn, Early, Booting, Leaving
<1>5. Count(req'[c], runs[c])
  BY <1>1, <1>3 DEF CallInv, Count, IsOwn
<1>6. Verdict(op[c], call'[c], req'[c])
  BY <1>2, <1>3 DEF Verdict, IsOwn, Leaving
<1>7. /\ sup'.lock = sup.lock \/ (sup.lock = c /\ sup'.lock = NoCall)
      /\ call'[c].pc \notin Booting /\ call'[c].pc # "failed"
      /\ sup'.lock = c => call'[c].pc \in Leaving
  BY <1>2 DEF Onward, Booting, Leaving
<1>8. Effect(c)
  BY <1>2, <1>4, <1>5, <1>6, <1>7 DEF Effect
<1> QED
  BY <1>1, <1>8, EffectKeeps DEF Types

\* What a dying kernel takes with it.
LEMMA GoneEffect ==
    ASSUME IInv, NEW b \in Boot0, Gone(b)
    PROVE  /\ req' \in [Calls -> ReqRec] /\ \A d \in Calls : Lost(d)
           /\ kernel' \in [Boots -> KernelRec] /\ KernelInv'
<1>1. kernel \in [Boots -> KernelRec] /\ req \in [Calls -> ReqRec]
  BY DEF IInv, Types
<1>2. \A d \in Calls : req'[d] = IF req[d].boot = b /\ req[d].at \in {"queued", "running"}
                                 THEN [req[d] EXCEPT !.at = "lost", !.ahead = {}] ELSE req[d]
  BY DEF Gone
<1>3. \A d \in Calls : Lost(d)
  BY <1>2 DEF Lost
<1>4. req' \in [Calls -> ReqRec]
  <2>1. ASSUME NEW d \in Calls PROVE req'[d] \in ReqRec
    <3>1. req[d] \in ReqRec
      BY <1>1
    <3>2. [req[d] EXCEPT !.at = "lost", !.ahead = {}] \in ReqRec
      BY <3>1 DEF ReqRec
    <3> QED
      BY <1>2, <3>1, <3>2
  <2> QED
    BY <2>1 DEF Gone
<1> DEFINE dead == [kernel[b] EXCEPT !.alive = FALSE, !.running = NoCall, !.asking = FALSE]
<1>5. kernel' = [kernel EXCEPT ![b] = dead]
  BY DEF Gone
<1>6. /\ kernel' \in [Boots -> KernelRec]
      /\ \A x \in Boots : x # b => kernel'[x] = kernel[x]
      /\ b \in Boots => kernel'[b].running = NoCall
  <2>1. CASE b \in Boots
    <3>1. dead \in KernelRec /\ dead.running = NoCall
      BY <1>1, <2>1 DEF KernelRec
    <3> QED
      BY <1>1, <1>5, <2>1, <3>1, Updated
  <2>2. CASE b \notin Boots
    BY <1>1, <1>5, <2>2
  <2> QED
    BY <2>1, <2>2
<1>7. KernelInv'
  <2> SUFFICES ASSUME NEW x \in Boots, kernel'[x].running # NoCall
               PROVE  /\ req'[kernel'[x].running].at = "running"
                      /\ req'[kernel'[x].running].boot = x
    BY DEF KernelInv
  <2>1. x # b /\ kernel'[x] = kernel[x]
    BY <1>6
  <2>2. kernel[x].running \in Calls
    BY <1>1, <2>1 DEF KernelRec
  <2>3. req[kernel[x].running].at = "running" /\ req[kernel[x].running].boot = x
    BY <2>1 DEF IInv, KernelInv
  <2> QED
    BY <1>2, <2>1, <2>2, <2>3
<1> QED
  BY <1>3, <1>4, <1>6, <1>7

\* Nothing but the calls and the executor changed.
LEMMA KernelsKeep ==
    ASSUME IInv, UNCHANGED <<kernel, req>>
    PROVE  /\ kernel' \in [Boots -> KernelRec] /\ KernelInv'
           /\ req' \in [Calls -> ReqRec] /\ \A d \in Calls : Lost(d)
<1>1. StillRuns
  BY DEF StillRuns
<1> QED
  BY <1>1, StillRunsKeeps DEF IInv, Types, Lost

\* The stages that come after an await.
LEMMA StagesKeep ==
    ASSUME IInv, NEW c \in Calls, Closed(c) \/ Stopped(c) \/ Killed(c), op' = op
    PROVE  Preserved
<1>1. /\ Types /\ call \in [Calls -> CallRec] /\ call[c] \in CallRec /\ sup \in SupRec
      /\ CallInv(c) /\ 0 \in Boot0
  BY DEF IInv, Types, Boot0
<1>2. call[c].pc \in Leaving
  BY DEF Closed, Stopped, Killed, Leaving
<1>3. /\ call[c].result \in {"died", "boot failed", "closed"}
      /\ IsOwn(req[c]) => call[c].result \in {"died", "closed"}
      /\ call[c].pc # "waiting" /\ call[c].pc # "ended"
  BY <1>1, <1>2 DEF CallInv, Verdict, Leaving
<1>4. ASSUME NEW s, Onward(c, s), NEW stage, Teardown(c, stage, s, call), runs' = runs,
             UNCHANGED <<spawned, generation, bundles>>,
             kernel' \in [Boots -> KernelRec], KernelInv',
             req' \in [Calls -> ReqRec], \A d \in Calls : Lost(d)
      PROVE  Preserved
  BY <1>1, <1>3, <1>4, LeavingKeeps
<1>5. CASE Closed(c)
  <2>1. Onward(c, [sup EXCEPT !.rpc = 0])
    BY <1>1 DEF Onward, SupRec
  <2>2. /\ Teardown(c, "closing", [sup EXCEPT !.rpc = 0], call)
        /\ UNCHANGED <<kernel, spawned, generation, bundles, req, runs>>
    BY <1>5 DEF Closed
  <2> QED
    BY <1>4, <2>1, <2>2, KernelsKeep
<1>6. CASE Stopped(c)
  <2>1. Onward(c, [sup EXCEPT !.server = 0])
    BY <1>1 DEF Onward, SupRec
  <2>2. /\ Teardown(c, "stopping", [sup EXCEPT !.server = 0], call)
        /\ UNCHANGED <<kernel, spawned, generation, bundles, req, runs>>
    BY <1>6 DEF Stopped
  <2> QED
    BY <1>4, <2>1, <2>2, KernelsKeep
<1>7. CASE Killed(c)
  <2>1. Onward(c, [sup EXCEPT !.proc = 0])
    BY <1>1 DEF Onward, SupRec
  <2>2. /\ Gone(call[c].held)
        /\ Teardown(c, "killing", [sup EXCEPT !.proc = 0], call)
        /\ UNCHANGED <<spawned, generation, bundles, runs>>
    BY <1>7 DEF Killed
  <2>3. call[c].held \in Boot0
    BY <1>1 DEF CallRec
  <2>4. /\ req' \in [Calls -> ReqRec] /\ \A d \in Calls : Lost(d)
        /\ kernel' \in [Boots -> KernelRec] /\ KernelInv'
    BY <2>2, <2>3, GoneEffect
  <2> QED
    BY <1>4, <2>1, <2>2, <2>4
<1> QED
  BY <1>5, <1>6, <1>7

\* A teardown begins: the host closes, a boot failed, or the connection dropped.
LEMMA TeardownBegins ==
    ASSUME IInv, NEW c \in Calls, NEW why \in Results, why \in {"died", "boot failed", "closed"},
           IsOwn(req[c]) => why # "boot failed", call[c].pc # "waiting",
           call[c].pc # "ended",
           Teardown(c, "begin", sup, [call EXCEPT ![c].result = why]),
           op' = op, UNCHANGED <<kernel, spawned, generation, bundles, req, runs>>
    PROVE  Preserved
<1> DEFINE there == [call[c] EXCEPT !.result = why]
           cs == [call EXCEPT ![c].result = why]
<1>1. call \in [Calls -> CallRec] /\ call[c] \in CallRec
  BY DEF IInv, Types
<1>2. /\ there \in CallRec /\ there.step = call[c].step
      /\ there.restoring = call[c].restoring /\ there.result = why
  BY <1>1 DEF CallRec
<1>3. cs = [call EXCEPT ![c] = there]
  OBVIOUS
<1> HIDE DEF there
<1>4. cs \in [Calls -> CallRec] /\ cs[c] = there /\ \A d \in Calls \ {c} : cs[d] = call[d]
  BY ZenonT(60), <1>1, <1>2, <1>3, Updated
<1>5. Teardown(c, "begin", sup, cs)
  OBVIOUS
<1> HIDE DEF cs
<1>6. Onward(c, sup)
  BY DEF Onward, IInv, Types
<1>7. /\ kernel' \in [Boots -> KernelRec] /\ KernelInv'
      /\ req' \in [Calls -> ReqRec] /\ \A d \in Calls : Lost(d)
  BY KernelsKeep
<1> QED
  BY <1>2, <1>4, <1>5, <1>6, <1>7, LeavingKeeps

\* The host closes the executor.
LEMMA CloseKeeps ==
    ASSUME IInv, NEW c \in Calls, Close(c), op' = op PROVE Preserved
<1>1. /\ call[c].pc = "idle"
      /\ Teardown(c, "begin", sup, [call EXCEPT ![c].result = "closed"])
      /\ UNCHANGED <<kernel, spawned, generation, bundles, req, runs>>
  BY DEF Close
<1>2. "closed" \in Results
  BY DEF Results
<1> QED
  BY <1>1, <1>2, TeardownBegins

\* A boot fails and is torn down.
LEMMA BootFailsKeeps ==
    ASSUME IInv, NEW c \in Calls, BootFails(c), op' = op PROVE Preserved
<1>1. /\ call[c].pc \in Booting
      /\ Teardown(c, "begin", sup, [call EXCEPT ![c].result = "boot failed"])
      /\ UNCHANGED <<kernel, spawned, generation, bundles, req, runs>>
  BY DEF BootFails, Booting
<1>2. ~IsOwn(req[c]) /\ call[c].pc # "waiting" /\ call[c].pc # "ended"
  BY <1>1 DEF IInv, CallInv, Position, Early, Booting
<1>3. "boot failed" \in Results
  BY DEF Results
<1> QED
  BY <1>1, <1>2, <1>3, TeardownBegins

\* A call whose future has failed goes on.
LEMMA ResumeFailedKeeps ==
    ASSUME IInv, NEW c \in Calls, ResumeFailed(c), op' = op PROVE Preserved
<1>1. call[c].pc = "failed" /\ UNCHANGED <<kernel, spawned, generation, bundles, req, runs>>
  BY DEF ResumeFailed
<1>2. CASE Teardown(c, "begin", sup, [call EXCEPT ![c].result = "died"])
  <2>1. "died" \in Results
    BY DEF Results
  <2> QED
    BY <1>1, <1>2, <2>1, TeardownBegins
<1>3. CASE /\ call[c].restoring > 0 /\ call' = Ended(call, c, "rpc error")
           /\ sup' = Released(sup, c) /\ UNCHANGED <<closed, listening, dirs>>
  <2>1. sup \in SupRec /\ c # NoCall /\ ~IsOwn(req[c])
    BY <1>3 DEF IInv, Types, CallInv, Position
  <2>2. Onward(c, Released(sup, c)) /\ Released(sup, c).lock # c
    BY <2>1 DEF Onward, Released, SupRec
  <2>3. /\ "rpc error" \in Results
        /\ \A k : k.pc = "ended" /\ k.result = "rpc error" => Verdict(op[c], k, req[c])
    BY <2>1 DEF Results, Verdict, Leaving
  <2>4. Effect(c) /\ bundles' \in BOOLEAN
    BY <1>1, <1>3, <2>2, <2>3, EndsEffect
  <2>5. kernel' \in [Boots -> KernelRec] /\ KernelInv'
    BY <1>1, KernelsKeep
  <2> QED
    BY <1>1, <2>4, <2>5, EffectKeeps
<1> QED
  BY <1>2, <1>3 DEF ResumeFailed

\* The answer is set on the future of its call.
LEMMA DeliverKeeps ==
    ASSUME IInv, NEW c \in Calls, Deliver(c), op' = op PROVE Preserved
<1>1. /\ call[c].pc = "waiting" /\ req[c].at \in {"answered", "refused"}
      /\ call' = [call EXCEPT ![c].pc = "answered"]
      /\ UNCHANGED <<sup, closed, listening, dirs, kernel, spawned, generation, bundles, req, runs>>
  BY DEF Deliver, world
<1> DEFINE there == [call[c] EXCEPT !.pc = "answered"]
<1>2. call \in [Calls -> CallRec] /\ call[c] \in CallRec /\ CallInv(c)
  BY DEF IInv, Types
<1>3. /\ there \in CallRec /\ there.pc = "answered" /\ there.step = call[c].step
      /\ there.restoring = call[c].restoring /\ there.result = call[c].result
  BY <1>2 DEF CallRec
<1>4. call' = [call EXCEPT ![c] = there]
  BY <1>1
<1> HIDE DEF there
<1>5. call' \in [Calls -> CallRec] /\ call'[c] = there /\ \A d \in Calls \ {c} : call'[d] = call[d]
  BY <1>2, <1>3, <1>4, Updated
<1>6. Position(op[c], call'[c], req[c])
  BY <1>1, <1>2, <1>3, <1>5 DEF CallInv, Position, Early, Booting
<1>7. Verdict(op[c], call'[c], req[c]) /\ Count(req[c], runs[c])
  BY <1>1, <1>2, <1>3, <1>5 DEF CallInv, Verdict, Leaving
<1>8. \A d \in Calls \ {c} : Told(d) /\ Lost(d)
  BY <1>1, <1>5 DEF Told, Lost
<1>9. sup.lock = c => call'[c].restoring > 0 /\ call'[c].pc \in {"waiting", "answered", "failed"}
  BY <1>1, <1>3, <1>5 DEF IInv, LockInv, Booting, Leaving
<1>10. kernel' \in [Boots -> KernelRec] /\ KernelInv' /\ req' \in [Calls -> ReqRec]
  BY <1>1, KernelsKeep
<1>11. Effect(c) /\ bundles' \in BOOLEAN
  BY <1>1, <1>3, <1>5, <1>6, <1>7, <1>8, <1>9, <1>10 DEF Effect, Booting, IInv, Types
<1> QED
  BY <1>1, <1>10, <1>11, EffectKeeps

\* A call goes on with its answer: to its end, or to the next snippet.
LEMMA ResumeKeeps ==
    ASSUME IInv, NEW c \in Calls, Resume(c), op' = op PROVE Preserved
<1>1. call[c].pc = "answered" /\ UNCHANGED <<kernel, spawned, generation, runs>>
  BY DEF Resume
<1>2. /\ call \in [Calls -> CallRec] /\ call[c] \in CallRec /\ CallInv(c) /\ sup \in SupRec
      /\ Onward(c, sup) /\ bundles \in BOOLEAN
  BY DEF IInv, Types, Onward
<1>3. Effect(c) /\ StillRuns /\ bundles' \in BOOLEAN
  <2>1. CASE call[c].restoring > 0 /\ Restore(c, sup)
    <3>1. Fresh(c, call)
      BY <1>1, <2>1, StillFresh
    <3> QED
      BY <1>2, <2>1, <3>1, RestoreEffect
  <2>2. CASE /\ call[c].restoring = 0 /\ call[c].step < LastStep(c)
             /\ Enter(c, [call EXCEPT ![c].step = @ + 1])
    <3> DEFINE there == [call[c] EXCEPT !.step = @ + 1]
               cs == [call EXCEPT ![c].step = @ + 1]
    <3>1. op[c] = "clear"
      BY <1>2, <2>2 DEF LastStep, CallRec
    <3>2. Fresh(c, call)
      BY <1>1, <3>1, StillFresh
    <3>3. there \in CallRec /\ there.restoring = 0 /\ there.result = call[c].result
      BY <1>2, <2>2 DEF CallRec
    <3>4. cs = [call EXCEPT ![c] = there]
      OBVIOUS
    <3> HIDE DEF there
    <3>5. cs \in [Calls -> CallRec] /\ cs[c] = there /\ \A d \in Calls \ {c} : cs[d] = call[d]
      BY <1>2, <3>3, <3>4, Updated
    <3>6. Enter(c, cs)
      BY <2>2
    <3> HIDE DEF cs
    <3>7. Fresh(c, cs)
      BY <3>1, <3>2, <3>3, <3>5 DEF Fresh
    <3>8. sup.lock # c
      BY <1>1, <2>2 DEF IInv, LockInv, Booting, Leaving
    <3> QED
      BY <3>3, <3>5, <3>6, <3>7, <3>8, EnterEffect
  <2>3. CASE /\ call[c].restoring = 0
             /\ call' = Ended(call, c, IF req[c].at = "answered" THEN "ok" ELSE "error")
             /\ UNCHANGED <<sup, closed, listening, dirs, bundles, req>>
    <3>1. sup.lock # c
      BY <1>1, <2>3 DEF IInv, LockInv, Booting, Leaving
    <3>2. {"ok", "error"} \subseteq Results
      BY DEF Results
    <3>3. op[c] \in {"cell", "fetch"} => IsOwn(req[c])
      BY <1>1, <1>2, <2>3 DEF CallInv, Position
    <3>4. CASE req[c].at = "answered"
      <4>1. \A k : k.pc = "ended" /\ k.result = "ok" => Verdict(op[c], k, req[c])
        BY <3>3, <3>4 DEF Verdict, Leaving
      <4> QED
        BY <1>2, <2>3, <3>1, <3>2, <3>4, <4>1, EndsEffect
    <3>5. CASE req[c].at # "answered"
      <4>1. \A k : k.pc = "ended" /\ k.result = "error" => Verdict(op[c], k, req[c])
        BY DEF Verdict, Leaving
      <4> QED
        BY <1>2, <2>3, <3>1, <3>2, <3>5, <4>1, EndsEffect
    <3> QED
      BY <3>4, <3>5
  <2> QED
    BY <2>1, <2>2, <2>3 DEF Resume
<1>4. kernel' \in [Boots -> KernelRec] /\ KernelInv'
  BY <1>1, <1>3, StillRunsKeeps DEF IInv, Types
<1> QED
  BY <1>1, <1>3, <1>4, EffectKeeps

\* `started` is set, and the call goes on restoring or calls.
LEMMA BootedKeeps ==
    ASSUME IInv, NEW c \in Calls, Booted(c), op' = op PROVE Preserved
<1> DEFINE s == [sup EXCEPT !.started = TRUE]
<1>1. /\ call[c].pc \in Booting /\ call[c].pc # "ended" /\ generation' = generation + 1
      /\ UNCHANGED <<kernel, spawned, runs>>
  BY DEF Booted, Booting
<1>2. s \in SupRec /\ s.lock = sup.lock /\ c # NoCall
  BY DEF IInv, Types, SupRec
<1>3. Onward(c, s) /\ Onward(c, Released(s, c)) /\ Released(s, c).lock # c
  BY <1>2 DEF Onward, Released, SupRec
<1>4. Fresh(c, call) /\ call[c].restoring = 0
  BY <1>1, StillFresh DEF IInv, CallInv, Position, Early
<1>5. Restore(c, s) \/ CallStarted(c, Released(s, c), call)
  BY DEF Booted
<1> HIDE DEF s
<1>6. Effect(c) /\ StillRuns /\ bundles' \in BOOLEAN
  <2>1. CASE Restore(c, s)
    BY <1>3, <1>4, <2>1, RestoreEffect
  <2>2. CASE CallStarted(c, Released(s, c), call)
    BY <1>3, <1>4, <2>2, CallStartedEffect
  <2> QED
    BY <1>5, <2>1, <2>2
<1>7. kernel' \in [Boots -> KernelRec] /\ KernelInv'
  BY <1>1, <1>6, StillRunsKeeps DEF IInv, Types
<1> QED
  BY <1>1, <1>6, <1>7, EffectKeeps

\* A step of a boot: the holder of the lock goes on, or someone takes it.
LEMMA BootStepKeeps ==
    ASSUME IInv, NEW c \in Calls, call[c].pc \in Early, NEW there \in CallRec,
           call' = [call EXCEPT ![c] = there],
           there.pc \in Booting, there.held \in Boots, there.step = call[c].step,
           there.restoring = 0, there.result = "none",
           sup' \in SupRec, sup'.lock = c, sup.lock = c \/ sup.lock = NoCall,
           generation < spawned', spawned' \in Boot0, kernel' \in [Boots -> KernelRec],
           KernelInv', listening' \subseteq Boots, dirs' \subseteq Boots,
           UNCHANGED <<closed, generation, bundles, op, req, runs>>
    PROVE  Preserved
<1>1. call \in [Calls -> CallRec] /\ Types /\ c # NoCall
  BY DEF IInv, Types
<1>2. /\ call' \in [Calls -> CallRec] /\ call'[c] = there
      /\ \A d \in Calls \ {c} : call'[d] = call[d]
  BY <1>1, Updated
<1>3. Types'
  BY <1>1, <1>2 DEF Types, Boot0
<1>4. ASSUME NEW d \in Calls PROVE CallInv(d)'
  <2>1. CASE d = c
    <3>1. CallInv(c)
      BY DEF IInv
    <3>2. Position(op[c], there, req[c])
      BY <3>1 DEF CallInv, Position, Early, Booting
    <3>3. Verdict(op[c], there, req[c])
      BY DEF Verdict, Booting, Leaving
    <3> QED
      BY <1>2, <2>1, <3>1, <3>2, <3>3 DEF CallInv
  <2>2. CASE d # c
    BY <1>2, <2>2 DEF IInv, CallInv
  <2> QED
    BY <2>1, <2>2
<1>5. LockInv'
  <2>1. ASSUME NEW d \in Calls, d # c PROVE call'[d].pc \notin Booting
    BY <1>1, <1>2, <2>1 DEF IInv, LockInv
  <2> QED
    BY <1>2, <2>1 DEF LockInv
<1>6. Stands
  BY <1>2 DEF Stands, Early, Booting
<1> QED
  BY <1>3, <1>4, <1>5, <1>6 DEF IInv, Preserved

\* A call gets the start lock and looks again whether a kernel is up.
LEMMA LockedKeeps ==
    ASSUME IInv, NEW c \in Calls, Locked(c), op' = op PROVE Preserved
<1>1. /\ call[c].pc = "locking" /\ sup.lock = NoCall /\ c # NoCall
      /\ UNCHANGED <<kernel, generation, runs>>
  BY DEF Locked
<1>2. /\ Types /\ call \in [Calls -> CallRec] /\ call[c] \in CallRec /\ sup \in SupRec
      /\ call[c].restoring = 0 /\ call[c].result = "none"
  BY <1>1 DEF IInv, Types, CallInv, Position, Verdict, Early, Leaving
<1>3. CASE CallStarted(c, sup, call) /\ UNCHANGED spawned
  <2>1. Fresh(c, call) /\ Onward(c, sup)
    BY <1>1, <1>2, StillFresh DEF Early, Onward
  <2>2. Effect(c) /\ StillRuns /\ bundles' \in BOOLEAN
    BY <1>1, <1>2, <1>3, <2>1, CallStartedEffect
  <2>3. kernel' \in [Boots -> KernelRec] /\ KernelInv'
    BY <1>1, <2>2, StillRunsKeeps DEF IInv, Types
  <2> QED
    BY <1>1, <1>3, <2>2, <2>3, EffectKeeps
<1>4. CASE /\ spawned < MaxBoots /\ spawned' = spawned + 1
           /\ sup' = [sup EXCEPT !.lock = c, !.dir = spawned']
           /\ dirs' = dirs \cup {spawned'}
           /\ call' = [call EXCEPT ![c].pc = "serving", ![c].held = spawned']
           /\ UNCHANGED <<closed, listening, bundles, req>>
  <2> DEFINE there == [call[c] EXCEPT !.pc = "serving", !.held = spawned']
  <2>1. spawned' \in Boots /\ spawned' \in Boot0 /\ generation < spawned'
    BY <1>2, <1>4 DEF Types, Boots, Boot0
  <2>2. /\ there \in CallRec /\ there.pc = "serving" /\ there.held = spawned'
        /\ there.step = call[c].step /\ there.restoring = 0 /\ there.result = "none"
    BY <1>2, <2>1 DEF CallRec, Booting, Early
  <2>3. call' = [call EXCEPT ![c] = there]
    BY <1>4
  <2>4. sup' \in SupRec /\ sup'.lock = c
    BY <1>2, <1>4, <2>1 DEF SupRec
  <2>5. kernel' \in [Boots -> KernelRec] /\ KernelInv'
    BY <1>1, <1>4, KernelsKeep
  <2>6. listening' \subseteq Boots /\ dirs' \subseteq Boots
    BY <1>2, <1>4, <2>1 DEF Types
  <2> HIDE DEF there
  <2> QED
    BY <1>1, <1>4, <2>1, <2>2, <2>3, <2>4, <2>5, <2>6, BootStepKeeps DEF Early, Booting
<1> QED
  BY <1>3, <1>4 DEF Locked

\* The server listens, the process is spawned.
LEMMA ServesKeeps ==
    ASSUME IInv, NEW c \in Calls, Serves(c) \/ Spawned(c), op' = op PROVE Preserved
<1>1. call[c].pc \in {"serving", "spawning"}
  BY DEF Serves, Spawned
<1>2. /\ Types /\ call \in [Calls -> CallRec] /\ call[c] \in CallRec /\ sup \in SupRec
      /\ kernel \in [Boots -> KernelRec] /\ c # NoCall
      /\ sup.lock = c /\ call[c].held \in Boots /\ generation < spawned
      /\ call[c].restoring = 0 /\ call[c].result = "none"
  BY <1>1 DEF IInv, Types, LockInv, CallInv, Position, Verdict, Early, Booting, Leaving
<1>3. ASSUME NEW at \in {"spawning", "connecting"}
      PROVE  LET there == [call[c] EXCEPT !.pc = at]
             IN /\ there \in CallRec /\ there.pc = at /\ there.held = call[c].held
                /\ there.step = call[c].step /\ there.restoring = 0 /\ there.result = "none"
  BY <1>2 DEF CallRec, Booting, Early
<1>4. call[c].held \in Boot0 /\ spawned \in Boot0
  BY <1>2 DEF Boots, Boot0, Types
<1>5. CASE Serves(c)
  <2> DEFINE there == [call[c] EXCEPT !.pc = "spawning"]
  <2>1. /\ sup' = [sup EXCEPT !.server = call[c].held]
        /\ listening' = listening \cup {call[c].held}
        /\ call' = [call EXCEPT ![c] = there]
        /\ UNCHANGED <<closed, dirs, kernel, spawned, generation, bundles, req, runs>>
    BY <1>5 DEF Serves
  <2>2. sup' \in SupRec /\ sup'.lock = c
    BY <1>2, <1>4, <2>1 DEF SupRec
  <2>3. listening' \subseteq Boots /\ dirs' \subseteq Boots
    BY <1>2, <2>1 DEF Types
  <2>4. kernel' \in [Boots -> KernelRec] /\ KernelInv'
    BY <2>1, KernelsKeep
  <2>5. /\ there \in CallRec /\ there.pc \in Booting /\ there.held \in Boots
        /\ there.step = call[c].step /\ there.restoring = 0 /\ there.result = "none"
    BY <1>2, <1>3 DEF Booting
  <2> HIDE DEF there
  <2> QED
    BY <1>1, <1>2, <1>4, <2>1, <2>2, <2>3, <2>4, <2>5, BootStepKeeps DEF Early, Booting
<1>6. CASE Spawned(c)
  <2> DEFINE there == [call[c] EXCEPT !.pc = "connecting"]
             h == call[c].held
             up == [kernel[h] EXCEPT !.alive = TRUE]
  <2>1. /\ sup' = [sup EXCEPT !.proc = h]
        /\ kernel' = [kernel EXCEPT ![h] = up]
        /\ call' = [call EXCEPT ![c] = there]
        /\ UNCHANGED <<closed, listening, dirs, spawned, generation, bundles, req, runs>>
    BY <1>6 DEF Spawned
  <2>2. sup' \in SupRec /\ sup'.lock = c
    BY <1>2, <1>4, <2>1 DEF SupRec
  <2>3. listening' \subseteq Boots /\ dirs' \subseteq Boots
    BY <1>2, <2>1 DEF Types
  <2>4. up \in KernelRec /\ up.running = kernel[h].running
    <3>1. PICK o \in KernelRec : o = kernel[h]
      BY <1>2
    <3>2. [o EXCEPT !.alive = TRUE] \in KernelRec /\ [o EXCEPT !.alive = TRUE].running = o.running
      BY DEF KernelRec
    <3> QED
      BY <3>1, <3>2
  <2>5. kernel' \in [Boots -> KernelRec] /\ \A b \in Boots : kernel'[b].running = kernel[b].running
    <3> HIDE DEF up
    <3> QED
      BY <1>2, <2>1, <2>4
  <2>6. KernelInv'
    BY <2>1, <2>5 DEF IInv, KernelInv
  <2>7. /\ there \in CallRec /\ there.pc \in Booting /\ there.held \in Boots
        /\ there.step = call[c].step /\ there.restoring = 0 /\ there.result = "none"
    BY <1>2, <1>3 DEF Booting
  <2> HIDE DEF there
  <2> QED
    BY <1>1, <1>2, <1>4, <2>1, <2>2, <2>3, <2>5, <2>6, <2>7, BootStepKeeps DEF Early, Booting
<1> QED
  BY <1>5, <1>6

-----------------------------------------------------------------------------
(***************************************************************************)
(* The kernel and the connection.                                          *)
(***************************************************************************)

\* No coroutine moves, except that some are told of the end of a connection.
LEMMA OutsideKeeps ==
    ASSUME IInv, sup' \in SupRec, sup'.lock = sup.lock, call' \in [Calls -> CallRec],
           req' \in [Calls -> ReqRec], kernel' \in [Boots -> KernelRec], KernelInv',
           \A d \in Calls : Told(d) /\ Lost(d),
           closed' \subseteq Boots, listening' \subseteq Boots, dirs' \subseteq Boots,
           UNCHANGED <<spawned, generation, bundles, op, runs>>
    PROVE  Preserved
<1>1. Types'
  BY DEF IInv, Types
<1>2. \A d \in Calls : CallInv(d)'
  BY BystanderKeeps DEF IInv
<1>3. LockInv'
  <2>1. ASSUME NEW d \in Calls
        PROVE  /\ call'[d].held = call[d].held /\ call'[d].restoring = call[d].restoring
               /\ \/ call'[d].pc = call[d].pc
                  \/ call[d].pc = "waiting" /\ call'[d].pc = "failed"
    <3>1. call[d] \in CallRec /\ Told(d)
      BY DEF IInv, Types
    <3>2. CASE call'[d] = call[d]
      BY <3>2
    <3>3. CASE call[d].pc = "waiting" /\ call'[d] = [call[d] EXCEPT !.pc = "failed"]
      BY <3>1, <3>3 DEF CallRec
    <3> QED
      BY <3>1, <3>2, <3>3 DEF Told
  <2>2. ASSUME NEW d \in Calls, call'[d].pc \in Booting
        PROVE  sup'.lock = d /\ call'[d].held \in Boots /\ generation' < spawned'
    BY <2>1, <2>2 DEF IInv, LockInv, Booting
  <2>3. ASSUME NEW d \in Calls, sup'.lock = d
        PROVE  \/ call'[d].pc \in Booting \cup Leaving
               \/ call'[d].restoring > 0 /\ call'[d].pc \in {"waiting", "answered", "failed"}
    BY <2>1, <2>3 DEF IInv, LockInv, Booting, Leaving
  <2> QED
    BY <2>2, <2>3 DEF LockInv
<1>4. Stands
  BY DEF Stands, Told
<1> QED
  BY <1>1, <1>2, <1>3, <1>4 DEF IInv, Preserved

\* One kernel changes, and not in what it runs.
LEMMA KernelChanged ==
    ASSUME IInv, NEW b \in Boots, NEW k \in KernelRec, k.running = kernel[b].running,
           kernel' = [kernel EXCEPT ![b] = k], req' = req
    PROVE  kernel' \in [Boots -> KernelRec] /\ KernelInv'
<1>1. kernel \in [Boots -> KernelRec]
  BY DEF IInv, Types
<1>2. kernel' \in [Boots -> KernelRec] /\ \A x \in Boots : kernel'[x].running = kernel[x].running
  BY <1>1
<1> QED
  BY <1>2 DEF IInv, KernelInv

\* What kernels and connections do without a call.
LEMMA ConnectionKeeps ==
    ASSUME IInv, NEW b \in Boots, op' = op,
           Connects(b) \/ BrokerAnswers(b) \/ KernelDies(b) \/ ReadLoopEnds(b)
    PROVE  Preserved
<1>1. /\ Types /\ sup \in SupRec /\ call \in [Calls -> CallRec] /\ req \in [Calls -> ReqRec]
      /\ kernel \in [Boots -> KernelRec] /\ kernel[b] \in KernelRec /\ b \in Boot0
      /\ closed \subseteq Boots /\ listening \subseteq Boots /\ dirs \subseteq Boots
  BY DEF IInv, Types, Boots, Boot0
<1>2. CASE Connects(b)
  <2>1. /\ UNCHANGED <<listening, dirs, spawned, generation, bundles, call, req, runs>>
        /\ \/ /\ sup' = [sup EXCEPT !.rpc = b, !.connected = TRUE]
              /\ kernel' = [kernel EXCEPT ![b].linked = TRUE] /\ UNCHANGED closed
           \/ closed' = closed \cup {b} /\ UNCHANGED <<sup, kernel>>
    BY <1>2 DEF Connects
  <2>2. \A d \in Calls : Told(d) /\ Lost(d)
    BY <2>1 DEF Told, Lost
  <2>3. CASE /\ sup' = [sup EXCEPT !.rpc = b, !.connected = TRUE]
             /\ kernel' = [kernel EXCEPT ![b].linked = TRUE] /\ UNCHANGED closed
    <3> DEFINE k == [kernel[b] EXCEPT !.linked = TRUE]
    <3>1. sup' \in SupRec /\ sup'.lock = sup.lock
      BY <1>1, <2>3 DEF SupRec
    <3>2. k \in KernelRec /\ k.running = kernel[b].running
      BY <1>1 DEF KernelRec
    <3>3. kernel' = [kernel EXCEPT ![b] = k] /\ req' = req
      BY <2>1, <2>3
    <3> HIDE DEF k
    <3>4. kernel' \in [Boots -> KernelRec] /\ KernelInv'
      BY <3>2, <3>3, KernelChanged
    <3> QED
      BY <1>1, <2>1, <2>2, <2>3, <3>1, <3>4, OutsideKeeps
  <2>4. CASE closed' = closed \cup {b} /\ UNCHANGED <<sup, kernel>>
    <3>1. kernel' \in [Boots -> KernelRec] /\ KernelInv'
      BY <2>1, <2>4, KernelsKeep
    <3> QED
      BY <1>1, <2>1, <2>2, <2>4, <3>1, OutsideKeeps
  <2> QED
    BY <2>1, <2>3, <2>4
<1>3. CASE BrokerAnswers(b)
  <2> DEFINE k == [kernel[b] EXCEPT !.asking = FALSE]
  <2>1. /\ UNCHANGED <<sup, closed, listening, dirs, spawned, generation, bundles, call, req, runs>>
        /\ kernel' = [kernel EXCEPT ![b] = k]
    BY <1>3 DEF BrokerAnswers
  <2>2. k \in KernelRec /\ k.running = kernel[b].running
    BY <1>1 DEF KernelRec
  <2> HIDE DEF k
  <2>3. kernel' \in [Boots -> KernelRec] /\ KernelInv'
    BY <2>1, <2>2, KernelChanged
  <2>4. \A d \in Calls : Told(d) /\ Lost(d)
    BY <2>1 DEF Told, Lost
  <2> QED
    BY <1>1, <2>1, <2>3, <2>4, OutsideKeeps
<1>4. CASE KernelDies(b)
  <2>1. /\ Gone(b)
        /\ UNCHANGED <<sup, closed, listening, dirs, spawned, generation, bundles, call, runs>>
    BY <1>4 DEF KernelDies
  <2>2. /\ req' \in [Calls -> ReqRec] /\ \A d \in Calls : Lost(d)
        /\ kernel' \in [Boots -> KernelRec] /\ KernelInv'
    BY <1>1, <2>1, GoneEffect
  <2>3. \A d \in Calls : Told(d)
    BY <2>1 DEF Told
  <2> QED
    BY <1>1, <2>1, <2>2, <2>3, OutsideKeeps
<1>5. CASE ReadLoopEnds(b)
  <2>1. /\ closed' = closed \cup {b} /\ call' = FailPending(call, b)
        /\ UNCHANGED <<sup, listening, dirs, kernel, spawned, generation, bundles, req, runs>>
    BY <1>5 DEF ReadLoopEnds
  <2>2. \A d \in Calls : call'[d] = IF d \in Waiting(b) THEN [call[d] EXCEPT !.pc = "failed"]
                                    ELSE call[d]
    BY <2>1 DEF FailPending
  <2>3. call' \in [Calls -> CallRec]
    <3>1. ASSUME NEW d \in Calls PROVE call'[d] \in CallRec
      <4>1. call[d] \in CallRec
        BY <1>1
      <4>2. [call[d] EXCEPT !.pc = "failed"] \in CallRec
        BY <4>1 DEF CallRec
      <4> QED
        BY <2>2, <4>1, <4>2
    <3> QED
      BY <2>1, <3>1 DEF FailPending
  <2>4. \A d \in Calls : Told(d) /\ Lost(d)
    BY <2>1, <2>2 DEF Told, Lost, Waiting
  <2>5. kernel' \in [Boots -> KernelRec] /\ KernelInv'
    BY <2>1, KernelsKeep
  <2> QED
    BY <1>1, <2>1, <2>3, <2>4, <2>5, OutsideKeeps
<1> QED
  BY <1>2, <1>3, <1>4, <1>5

\* A kernel begins or answers the request of c: the other requests stand as they
\* stood.
LEMMA ServingKeeps ==
    ASSUME IInv, NEW c \in Calls, req' \in [Calls -> ReqRec], runs' \in [Calls -> Nat],
           \A d \in Calls : req'[d].what = req[d].what /\ req'[d].boot = req[d].boot,
           \A d \in Calls \ {c} : req'[d].at = req[d].at /\ runs'[d] = runs[d],
           req[c].at \in {"queued", "running"}, req'[c].at # "none",
           Count(req'[c], runs'[c]),
           kernel' \in [Boots -> KernelRec], KernelInv', op' = op,
           UNCHANGED <<sup, closed, listening, dirs, spawned, generation, bundles, call>>
    PROVE  Preserved
<1>1. Types'
  BY DEF IInv, Types
<1>2. ASSUME NEW d \in Calls PROVE CallInv(d)'
  <2>1. CallInv(d) /\ CallInv(c)
    BY DEF IInv
  <2>2. CASE d = c
    <3>1. call[c].pc \notin Early \cup {"answered"}
      BY <2>1 DEF CallInv, Position
    <3>2. Position(op[c], call[c], req'[c])
      BY <2>1, <3>1 DEF CallInv, Position, IsOwn
    <3>3. Verdict(op[c], call[c], req'[c])
      BY <2>1 DEF CallInv, Verdict, IsOwn
    <3> QED
      BY <2>2, <3>2, <3>3 DEF CallInv
  <2>3. CASE d # c
    BY ZenonT(60), <2>1, <2>3 DEF CallInv, Position, Count, Verdict, IsOwn
  <2> QED
    BY <2>2, <2>3
<1>3. LockInv'
  BY DEF IInv, LockInv
<1>4. Stands
  BY DEF Stands
<1> QED
  BY <1>1, <1>2, <1>3, <1>4 DEF IInv, Preserved

\* Taking the request of c off the others' waiting changes nothing else of them.
LEMMA PassedEffect ==
    ASSUME NEW c \in Calls, NEW rs \in [Calls -> ReqRec]
    PROVE  /\ Passed(c, rs) \in [Calls -> ReqRec]
           /\ \A d \in Calls : /\ Passed(c, rs)[d].at = rs[d].at
                               /\ Passed(c, rs)[d].what = rs[d].what
                               /\ Passed(c, rs)[d].boot = rs[d].boot
<1>1. ASSUME NEW d \in Calls
      PROVE  /\ [rs[d] EXCEPT !.ahead = @ \ {c}] \in ReqRec
             /\ [rs[d] EXCEPT !.ahead = @ \ {c}].at = rs[d].at
             /\ [rs[d] EXCEPT !.ahead = @ \ {c}].what = rs[d].what
             /\ [rs[d] EXCEPT !.ahead = @ \ {c}].boot = rs[d].boot
  BY DEF ReqRec
<1> QED
  BY <1>1 DEF Passed

\* One request is answered or begun.
Begun == {"running", "answered", "refused"}

\* Moving a request changes where it is and nothing else.
LEMMA AtEffect ==
    ASSUME NEW c \in Calls, NEW at \in Begun,
           req \in [Calls -> ReqRec]
    PROVE  /\ [req EXCEPT ![c].at = at] \in [Calls -> ReqRec]
           /\ [req EXCEPT ![c].at = at][c].at = at
           /\ \A d \in Calls : /\ d # c => [req EXCEPT ![c].at = at][d].at = req[d].at
                               /\ [req EXCEPT ![c].at = at][d].what = req[d].what
                               /\ [req EXCEPT ![c].at = at][d].boot = req[d].boot
<1> DEFINE r == [req[c] EXCEPT !.at = at]
<1>1. req[c] \in ReqRec
  OBVIOUS
<1>2. r \in ReqRec /\ r.at = at /\ r.what = req[c].what /\ r.boot = req[c].boot
  BY <1>1 DEF ReqRec, Begun
<1>3. [req EXCEPT ![c].at = at] = [req EXCEPT ![c] = r]
  OBVIOUS
<1> HIDE DEF r
<1> QED
  BY <1>2, <1>3, Updated

\* The kernel takes a cell, which has not run before.
LEMMA TakeCellKeeps ==
    ASSUME IInv, NEW c \in Calls, TakeCell(c), op' = op PROVE Preserved
<1> DEFINE b == req[c].boot
           rs == [req EXCEPT ![c].at = "running"]
           k == [kernel[b] EXCEPT !.running = c,
                                  !.asking = req[c].what = "fetch" /\ kernel[b].names]
<1>1. /\ req[c].at = "queued" /\ kernel[b].running = NoCall /\ IsCell(req[c].what)
      /\ req' = Passed(c, rs)
      /\ kernel' = [kernel EXCEPT ![b] = k]
      /\ runs' = IF req[c].what = "snippet" THEN runs ELSE [runs EXCEPT ![c] = @ + 1]
      /\ UNCHANGED <<sup, closed, listening, dirs, spawned, generation, bundles, call>>
  BY DEF TakeCell, MayTake
<1>2. /\ req \in [Calls -> ReqRec] /\ runs \in [Calls -> Nat] /\ kernel \in [Boots -> KernelRec]
      /\ c # NoCall /\ CallInv(c)
  BY DEF IInv, Types
<1>3. /\ rs \in [Calls -> ReqRec] /\ rs[c].at = "running"
      /\ \A d \in Calls : /\ d # c => rs[d].at = req[d].at
                          /\ rs[d].what = req[d].what /\ rs[d].boot = req[d].boot
  BY <1>2, AtEffect DEF Begun
<1> HIDE DEF rs
<1>4. /\ req' \in [Calls -> ReqRec] /\ req'[c].at = "running"
      /\ \A d \in Calls : /\ d # c => req'[d].at = req[d].at
                          /\ req'[d].what = req[d].what /\ req'[d].boot = req[d].boot
  BY <1>1, <1>3, PassedEffect
<1>5. /\ runs' \in [Calls -> Nat] /\ \A d \in Calls \ {c} : runs'[d] = runs[d]
      /\ runs'[c] = IF req[c].what = "snippet" THEN runs[c] ELSE runs[c] + 1
  BY <1>1, <1>2
<1>6. Count(req'[c], runs'[c])
  BY <1>1, <1>2, <1>4, <1>5 DEF CallInv, Count, IsOwn, IsCell
<1>7. ASSUME b \in Boots PROVE k \in KernelRec /\ k.running = c
  <2>1. PICK o \in KernelRec : o = kernel[b]
    BY <1>2, <1>7
  <2>2. PICK asks \in BOOLEAN : asks = (req[c].what = "fetch" /\ kernel[b].names)
    OBVIOUS
  <2>3. /\ [o EXCEPT !.running = c, !.asking = asks] \in KernelRec
        /\ [o EXCEPT !.running = c, !.asking = asks].running = c
    BY DEF KernelRec
  <2> QED
    BY <2>1, <2>2, <2>3
<1> HIDE DEF k
<1>8. /\ kernel' \in [Boots -> KernelRec] /\ (b \in Boots => kernel'[b].running = c)
      /\ \A x \in Boots : x # b => kernel'[x] = kernel[x]
  <2>1. CASE b \in Boots
    BY <1>1, <1>2, <1>7, <2>1, Updated
  <2>2. CASE b \notin Boots
    BY <1>1, <1>2, <2>2
  <2> QED
    BY <2>1, <2>2
<1>9. KernelInv'
  <2> SUFFICES ASSUME NEW x \in Boots, kernel'[x].running # NoCall
               PROVE  /\ req'[kernel'[x].running].at = "running"
                      /\ req'[kernel'[x].running].boot = x
    BY DEF KernelInv
  <2>1. CASE x = b
    BY <1>4, <1>8, <2>1
  <2>2. CASE x # b
    <3>1. kernel'[x] = kernel[x] /\ kernel[x].running \in Calls
      BY <1>2, <1>8, <2>2 DEF KernelRec
    <3>2. req[kernel[x].running].at = "running" /\ req[kernel[x].running].boot = x
      BY <3>1 DEF IInv, KernelInv
    <3> QED
      BY <1>1, <1>4, <3>1, <3>2
  <2> QED
    BY <2>1, <2>2
<1> QED
  BY <1>1, <1>4, <1>5, <1>6, <1>8, <1>9, ServingKeeps

\* The kernel answers a request that is no cell.
LEMMA ServeKeeps ==
    ASSUME IInv, NEW c \in Calls, Serve(c), op' = op PROVE Preserved
<1>1. PICK answer \in Answers(req[c].what) : req' = Passed(c, [req EXCEPT ![c].at = answer])
  BY DEF Serve
<1> DEFINE b == req[c].boot
           rs == [req EXCEPT ![c].at = answer]
           names == kernel[b].names \/ req[c].what = "names"
           snippets == IF req[c].what = "clear" THEN 0 ELSE kernel[b].snippets
           k == [kernel[b] EXCEPT !.names = names, !.snippets = snippets]
<1>2. /\ req[c].at = "queued" /\ ~IsCell(req[c].what)
      /\ kernel' = [kernel EXCEPT ![b] = k]
      /\ UNCHANGED <<sup, closed, listening, dirs, spawned, generation, bundles, call, runs>>
  BY DEF Serve, MayTake
<1>3. /\ req \in [Calls -> ReqRec] /\ runs \in [Calls -> Nat] /\ kernel \in [Boots -> KernelRec]
      /\ CallInv(c)
  BY DEF IInv, Types
<1>4. /\ answer \in Begun /\ answer # "running"
      /\ answer = "refused" => req[c].what = "file"
  BY DEF Answers, Begun
<1>5. /\ rs \in [Calls -> ReqRec] /\ rs[c].at = answer
      /\ \A d \in Calls : /\ d # c => rs[d].at = req[d].at
                          /\ rs[d].what = req[d].what /\ rs[d].boot = req[d].boot
  BY <1>3, <1>4, AtEffect
<1> HIDE DEF rs
<1>6. /\ req' \in [Calls -> ReqRec] /\ req'[c].at = answer
      /\ \A d \in Calls : /\ d # c => req'[d].at = req[d].at
                          /\ req'[d].what = req[d].what /\ req'[d].boot = req[d].boot
  BY ZenonT(60), <1>1, <1>5, PassedEffect DEF rs
<1>7. Count(req'[c], runs'[c])
  BY <1>2, <1>3, <1>4, <1>6 DEF CallInv, Count, IsOwn, IsCell
<1>8. ASSUME b \in Boots PROVE k \in KernelRec /\ k.running = kernel[b].running
  <2>1. kernel[b] \in KernelRec
    BY <1>3, <1>8
  <2>2. names \in BOOLEAN /\ snippets \in Nat
    BY <2>1 DEF KernelRec
  <2> HIDE DEF names, snippets
  <2> QED
    BY <2>1, <2>2 DEF KernelRec
<1> HIDE DEF k
<1>9. /\ kernel' \in [Boots -> KernelRec] /\ \A x \in Boots : kernel'[x].running = kernel[x].running
  <2>1. CASE b \in Boots
    BY <1>2, <1>3, <1>8, <2>1, Updated
  <2>2. CASE b \notin Boots
    BY <1>2, <1>3, <2>2
  <2> QED
    BY <2>1, <2>2
<1>10. KernelInv'
  <2> SUFFICES ASSUME NEW x \in Boots, kernel[x].running # NoCall
               PROVE  /\ req'[kernel[x].running].at = "running"
                      /\ req'[kernel[x].running].boot = x
    BY <1>9 DEF KernelInv
  <2>1. kernel[x].running \in Calls
    BY <1>3 DEF KernelRec
  <2>2. req[kernel[x].running].at = "running" /\ req[kernel[x].running].boot = x
    BY DEF IInv, KernelInv
  <2> QED
    BY <1>2, <1>6, <2>1, <2>2
<1>11. req'[c].at # "none" /\ req[c].at \in {"queued", "running"}
  BY <1>2, <1>4, <1>6 DEF Begun
<1>12. \A d \in Calls \ {c} : req'[d].at = req[d].at /\ runs'[d] = runs[d]
  BY <1>2, <1>6
<1>13. \A d \in Calls : req'[d].what = req[d].what /\ req'[d].boot = req[d].boot
  BY <1>6
<1>14. req' \in [Calls -> ReqRec] /\ runs' \in [Calls -> Nat]
  BY <1>2, <1>3, <1>6
<1> HIDE DEF b
<1> QED
  BY <1>2, <1>7, <1>9, <1>10, <1>11, <1>12, <1>13, <1>14, ServingKeeps

\* The cell that runs ends and is answered.
LEMMA CellEndsKeeps ==
    ASSUME IInv, NEW b \in Boots, CellEnds(b), op' = op PROVE Preserved
<1> DEFINE c == kernel[b].running
           more == IF req[c].what = "snippet" THEN kernel[b].snippets + 1
                   ELSE kernel[b].snippets
           k == [kernel[b] EXCEPT !.running = NoCall, !.snippets = more]
<1>1. /\ c # NoCall /\ req' = [req EXCEPT ![c].at = "answered"]
      /\ kernel' = [kernel EXCEPT ![b] = k]
      /\ UNCHANGED <<sup, closed, listening, dirs, spawned, generation, bundles, call, runs>>
  BY DEF CellEnds
<1>2. /\ req \in [Calls -> ReqRec] /\ runs \in [Calls -> Nat] /\ kernel \in [Boots -> KernelRec]
  BY DEF IInv, Types
<1>3. kernel[b] \in KernelRec /\ c \in Calls
  BY <1>1, <1>2 DEF KernelRec
<1>4. req[c].at = "running" /\ req[c].boot = b /\ CallInv(c)
  BY <1>1, <1>3 DEF IInv, KernelInv
<1>5. k \in KernelRec /\ k.running = NoCall
  <2>1. more \in Nat
    BY <1>3 DEF KernelRec
  <2> HIDE DEF more
  <2> QED
    BY <1>3, <2>1 DEF KernelRec
<1> HIDE DEF k
<1>6. /\ kernel' \in [Boots -> KernelRec] /\ kernel'[b].running = NoCall
      /\ \A x \in Boots \ {b} : kernel'[x] = kernel[x]
  BY <1>1, <1>2, <1>5, Updated
<1> HIDE DEF c
<1>7. /\ req' \in [Calls -> ReqRec] /\ req'[c].at = "answered"
      /\ \A d \in Calls : /\ d # c => req'[d].at = req[d].at
                          /\ req'[d].what = req[d].what /\ req'[d].boot = req[d].boot
  BY ZenonT(60), <1>1, <1>2, <1>3, AtEffect DEF Begun
<1>8. Count(req'[c], runs'[c])
  BY <1>1, <1>3, <1>4, <1>7 DEF CallInv, Count, IsOwn
<1>9. KernelInv'
  <2> SUFFICES ASSUME NEW x \in Boots, kernel'[x].running # NoCall
               PROVE  /\ req'[kernel'[x].running].at = "running"
                      /\ req'[kernel'[x].running].boot = x
    BY DEF KernelInv
  <2>1. x # b /\ kernel'[x] = kernel[x] /\ kernel[x].running \in Calls
    BY <1>2, <1>6 DEF KernelRec
  <2>2. req[kernel[x].running].at = "running" /\ req[kernel[x].running].boot = x
    BY <2>1 DEF IInv, KernelInv
  <2> QED
    BY <1>4, <1>7, <2>1, <2>2
<1> QED
  BY <1>1, <1>2, <1>3, <1>4, <1>6, <1>7, <1>8, <1>9, ServingKeeps

-----------------------------------------------------------------------------
(***************************************************************************)
(* The theorems.                                                           *)
(***************************************************************************)

\* Every step keeps the invariant and the answers.
LEMMA NextKeeps == IInv /\ [Next]_vars => Preserved
<1> SUFFICES ASSUME IInv, [Next]_vars PROVE Preserved
  OBVIOUS
<1>1. CASE UNCHANGED vars
  <2>1. Types' /\ KernelInv' /\ LockInv'
    BY <1>1 DEF IInv, Types, KernelInv, LockInv, vars, world
  <2>2. \A c \in Calls : CallInv(c)'
    BY <1>1 DEF IInv, CallInv, vars, world
  <2>3. Stands
    BY <1>1 DEF Stands, vars
  <2> QED
    BY <2>1, <2>2, <2>3 DEF IInv, Preserved
<1>2. ASSUME NEW c \in Calls, op' = op,
             Begin(c) \/ Close(c) \/ Supervisor(c) \/ TakeCell(c) \/ Serve(c)
      PROVE  Preserved
  <2>1. CASE Supervisor(c)
    BY <1>2, <2>1, LockedKeeps, ServesKeeps, BootedKeeps, BootFailsKeeps, DeliverKeeps,
       ResumeKeeps, ResumeFailedKeeps, StagesKeep DEF Supervisor
  <2> QED
    BY <1>2, <2>1, BeginKeeps, CloseKeeps, TakeCellKeeps, ServeKeeps
<1>3. ASSUME NEW b \in Boots, op' = op, Kernel(b) \/ KernelDies(b) \/ ReadLoopEnds(b)
      PROVE  Preserved
  BY <1>3, ConnectionKeeps, CellEndsKeeps DEF Kernel, KernelExits
<1> QED
  BY <1>1, <1>2, <1>3 DEF Next

\* The inductive invariant: what a call has asked for, where it is and how often
\* its cell was begun always agree, and the start lock has at most one holder,
\* who is booting, restoring or tearing down.
THEOREM InductiveSandbox == Spec => []IInv
<1>1. IInv /\ [Next]_vars => IInv'
  BY NextKeeps DEF Preserved
<1> QED
  BY <1>1, InitIInv, PTL DEF Spec

\* The types; the start lock is held by a call that has begun and not ended.
THEOREM SandboxTypes == Spec => []TypeOK
<1>1. IInv => TypeOK
  <2> SUFFICES ASSUME IInv PROVE TypeOK
    OBVIOUS
  <2>1. sup \in [started : BOOLEAN,
                 lock : {c \in Calls : call[c].pc \notin {"idle", "ended"}} \cup {NoCall},
                 rpc : Boot0, proc : Boot0, server : Boot0, dir : Boot0, connected : BOOLEAN]
    <3>1. ASSUME NEW c \in Calls, sup.lock = c PROVE call[c].pc \notin {"idle", "ended"}
      BY <3>1 DEF IInv, LockInv, Booting, Leaving
    <3> QED
      BY <3>1 DEF IInv, Types, SupRec
  <2>2. call \in [Calls -> [pc : {"idle", "locking", "serving", "spawning", "connecting",
                                  "waiting", "answered", "failed", "closing", "killing",
                                  "stopping", "ended"},
                            step : Nat, restoring : Nat, held : Boot0, result : Results]]
    BY DEF IInv, Types, CallRec, Early, Booting, Leaving
  <2> QED
    BY <2>1, <2>2 DEF IInv, Types, TypeOK, KernelRec, ReqRec
<1> QED
  BY <1>1, InductiveSandbox, PTL

\* What the host is told of a cell says whether it ran (OutcomeTellsWhatRan).
THEOREM OutcomesTell == Spec => []OutcomeTellsWhatRan
<1>1. IInv => OutcomeTellsWhatRan
  <2> SUFFICES ASSUME IInv, NEW c \in Calls
               PROVE  /\ runs[c] <= 1
                      /\ call[c].pc = "ended" /\ op[c] \in {"cell", "fetch"} =>
                           /\ call[c].result = "ok" => runs[c] = 1
                           /\ call[c].result \in {"boot failed", "rpc error", "assertion"}
                                => runs[c] = 0
    BY DEF OutcomeTellsWhatRan
  <2>1. CallInv(c)
    BY DEF IInv
  <2> QED
    BY <2>1 DEF CallInv, Count, Verdict
<1> QED
  BY <1>1, InductiveSandbox, PTL

\* A call that got its answer keeps it, and one that ended stays as it ended
\* (AnswersStand).
THEOREM AnswersAreKept == Spec => AnswersStand
<1>1. IInv /\ [Next]_vars =>
        [\A c \in Calls :
           /\ call[c].pc = "answered" => call'[c].pc # "failed"
           /\ call[c].pc = "ended" => call'[c] = call[c]]_vars
  BY NextKeeps DEF Preserved, Stands
<1> QED
  BY <1>1, InductiveSandbox, PTL DEF Spec, AnswersStand
=============================================================================
