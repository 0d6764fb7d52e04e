-------------------------- MODULE CodeExecutorProofs ---------------------------
(***************************************************************************)
(* The in-process executor for any number of calls, executors and          *)
(* directories: its two locks let one cell run at a time, so that a cell   *)
(* runs where its executor works and what it fetches is recorded in its    *)
(* own scope, whatever lingers beside it.                                  *)
(***************************************************************************)
EXTENDS CodeExecutor, TLAPS

Holding == {"gate", "running", "awaiting"}
Inside == {"running", "awaiting"}

\* Whoever holds a lock is where the code says so, and the other way round.
Locks ==
    /\ \A c \in Calls : pc[c] \in Holding <=> global = c
    /\ \A c \in Calls : pc[c] \in Inside => gate[On(c)] = c
    /\ \A e \in Executors : gate[e] # NoCall => /\ pc[gate[e]] \in Inside
                                                /\ On(gate[e]) = e

\* The thread of a call, by where its coroutine is.
Threads ==
    \A c \in Calls :
        /\ pc[c] = "running" <=> thread[c].at = "alive"
        /\ pc[c] = "awaiting" => thread[c].at = "over"
        /\ pc[c] \notin Inside \cup {"ended"} => thread[c].at = "none"
        /\ result[c] # "none" => pc[c] = "ended"
        /\ result[c] = "ok" => thread[c].at \in {"none", "over"}

\* Where a cell will go back to: as long as nothing lingers, home.
Returns ==
    (\A c \in Calls : thread[c].at \notin {"lingering", "lingered"}) =>
        \A c \in Calls : thread[c].at = "alive" =>
            /\ thread[c].saved = Home
            /\ ~ChangesDir(c) => pwd = Home

\* A run that produces has its scope open, and everything it was given is there.
Scopes ==
    \A c \in Calls :
        /\ pc[c] \in Inside /\ Produces(c) => /\ scope[On(c)] = c
                                              /\ got[c] \subseteq recorded[c]
        /\ pc[c] \notin Inside \cup {"ended"} => got[c] = {}

\* An executor's scope is open for a call of its own.
Owners == \A e \in Executors : scope[e] # NoCall => On(scope[e]) = e

IInv ==
    /\ TypeOK /\ Locks /\ Threads /\ Returns /\ InWorkspaceUntilLeft
    /\ Scopes /\ Owners /\ LineageComplete

USE ExecutorAssumption

-----------------------------------------------------------------------------
\* What the calls are, in every state.
LEMMA MixTypes ==
    ASSUME TypeOK, NEW c \in Calls
    PROVE  On(c) \in Executors /\ Op(c) \in CellOps \cup InnerOps
  BY DEF TypeOK, On, Op

\* A function that is left as it is, or changed in one place.
LEMMA Updated ==
    ASSUME NEW S, NEW T, NEW f \in [S -> T], NEW s \in S, NEW t \in T, NEW g,
           g = f \/ g = [f EXCEPT ![s] = t]
    PROVE  g \in [S -> T] /\ \A x \in S \ {s} : g[x] = f[x]
<1>1. CASE g = f
  BY <1>1
<1>2. CASE g = [f EXCEPT ![s] = t]
  BY <1>2
<1> QED
  BY <1>1, <1>2

\* No call has begun, and every executor is in its workspace.
LEMMA InitIInv == Init => IInv
<1> SUFFICES ASSUME Init PROVE IInv
  OBVIOUS
<1> USE DEF Init
<1>1. TypeOK
  BY DEF TypeOK
<1>2. Locks
  BY DEF Locks, Holding, Inside
<1>3. Threads /\ Returns /\ Scopes
  BY DEF Threads, Returns, Scopes, Inside
<1>4. InWorkspaceUntilLeft /\ LineageComplete
  BY DEF InWorkspaceUntilLeft, LineageComplete
<1> QED
  BY <1>1, <1>2, <1>3, <1>4 DEF IInv, Owners

-----------------------------------------------------------------------------
(***************************************************************************)
(* Calls, locks, and what is done under the gate alone.                    *)
(***************************************************************************)

\* A call is made: it waits for the global lock, or for the gate.
LEMMA CallKeeps ==
    ASSUME IInv, NEW c \in Calls, CallCell(c) \/ CallInner(c) PROVE IInv'
<1> USE DEF IInv
<1>1. /\ pc[c] = "idle"
      /\ \E at \in {"global", "inner"} : pc' = [pc EXCEPT ![c] = at]
      /\ seen' = seen \/ seen' = [seen EXCEPT ![On(c)] = c]
      /\ UNCHANGED <<mix, result, locks, pwd, cwd, bound, cache, ledger, thread, body>>
  BY DEF CallCell, CallInner, space
<1> USE DEF locks, ledger, body
<1>2. TypeOK'
  <2>1. scope' \in [Executors -> {d \in Calls : pc'[d] \in {"running", "awaiting"}} \cup {NoCall}]
    BY <1>1 DEF TypeOK
  <2>2. seen' \in [Executors -> Calls \cup {NoCall}]
    <3>1. CASE seen' = seen
      BY <3>1 DEF TypeOK
    <3>2. CASE seen' = [seen EXCEPT ![On(c)] = c]
      BY <3>2 DEF TypeOK
    <3> QED
      BY <1>1, <3>1, <3>2
  <2>3. pc' \in [Calls -> {"idle", "global", "gate", "inner", "rebind", "running",
                           "awaiting", "ended"}]
    BY <1>1 DEF TypeOK
  <2> QED
    BY <1>1, <2>1, <2>2, <2>3 DEF TypeOK
<1>3. \A d \in Calls : /\ d # c => pc'[d] = pc[d]
                       /\ pc'[c] \notin Holding \cup {"ended"} /\ pc[c] \notin Holding \cup {"ended"}
  BY <1>1 DEF TypeOK, Holding
<1>4. Locks'
  BY <1>1, <1>3 DEF Locks, On, Holding, Inside, TypeOK
<1>5. Threads'
  BY <1>1, <1>3 DEF Threads, Holding, Inside
<1>6. Returns' /\ InWorkspaceUntilLeft'
  BY <1>1 DEF Returns, InWorkspaceUntilLeft, ChangesDir, Op, On
<1>7. Scopes' /\ LineageComplete'
  BY <1>1, <1>3 DEF Scopes, LineageComplete, Produces, Op, On, Holding, Inside
<1>8. Owners'
  BY <1>1 DEF Owners, On
<1> QED
  BY <1>2, <1>4, <1>5, <1>6, <1>7, <1>8

\* A call takes the lock of the process.
LEMMA TakeGlobalKeeps ==
    ASSUME IInv, NEW c \in Calls, TakeGlobal(c) PROVE IInv'
<1> USE DEF IInv
<1>1. /\ pc[c] = "global" /\ global = NoCall /\ global' = c
      /\ pc' = [pc EXCEPT ![c] = "gate"]
      /\ UNCHANGED <<mix, result, gate, pwd, space, ledger, thread, body>>
  BY DEF TakeGlobal, GlobalFree
<1> USE DEF space, ledger, body
<1>2. TypeOK'
  <2>1. scope' \in [Executors -> {d \in Calls : pc'[d] \in {"running", "awaiting"}} \cup {NoCall}]
    BY <1>1 DEF TypeOK
  <2> QED
    BY <1>1, <2>1 DEF TypeOK
<1>3. pc'[c] = "gate" /\ \A d \in Calls : d # c => pc'[d] = pc[d]
  BY <1>1 DEF TypeOK
<1>4. Locks'
  BY <1>1, <1>3 DEF Locks, On, Holding, Inside, TypeOK
<1>5. Threads'
  BY <1>1, <1>3 DEF Threads, Inside
<1>6. Returns' /\ InWorkspaceUntilLeft'
  BY <1>1 DEF Returns, InWorkspaceUntilLeft, ChangesDir, Op, On
<1>7. Scopes' /\ LineageComplete'
  BY <1>1, <1>3 DEF Scopes, LineageComplete, Produces, Op, On, Inside
<1>8. Owners'
  BY <1>1 DEF Owners, On
<1> QED
  BY <1>2, <1>4, <1>5, <1>6, <1>7, <1>8

\* The calls under the gate alone: the one that moves an executor to another
\* directory finds none of its cells running.
LEMMA InnerKeeps ==
    ASSUME IInv, NEW c \in Calls, Inner(c) PROVE IInv'
<1> USE DEF IInv
<1> DEFINE e == On(c)
<1>1. /\ pc[c] = "inner" /\ gate[e] = NoCall
      /\ UNCHANGED <<mix, locks, pwd, scope, thread, body>>
  BY DEF Inner
<1>2. e \in Executors
  BY MixTypes
<1>3. /\ \/ result' = result /\ pc' = [pc EXCEPT ![c] = "global"]
         \/ result' = result /\ pc' = [pc EXCEPT ![c] = "rebind"]
         \/ result' = [result EXCEPT ![c] = "ok"] /\ pc' = [pc EXCEPT ![c] = "ended"]
      /\ cwd' = cwd \/ cwd' = [cwd EXCEPT ![e] = NewRoot]
      /\ bound' = bound \/ bound' = [bound EXCEPT ![e] = cwd[e]]
      /\ seen' = seen \/ seen' = [seen EXCEPT ![e] = NoCall]
      /\ cache' = cache \/ cache' = [cache EXCEPT ![e] = NoCall]
      /\ \/ UNCHANGED <<origin, refs>>
         \/ /\ origin' = [origin EXCEPT ![e] = NoCall]
            /\ refs' = [refs EXCEPT ![e] = {}]
  BY DEF Inner, End, Reset
<1> USE DEF locks, body
<1> HIDE DEF e
<1>4. /\ pc' \in [Calls -> {"idle", "global", "gate", "inner", "rebind", "running",
                            "awaiting", "ended"}]
      /\ result' \in [Calls -> {"none", "ok", "raised", "timeout", "cancelled"}]
      /\ \A d \in Calls : d # c => pc'[d] = pc[d] /\ result'[d] = result[d]
      /\ pc'[c] \notin Holding
      /\ pc'[c] = "ended" \/ result'[c] = result[c]
      /\ pc'[c] # "idle"
  <2>1. CASE result' = result /\ pc' = [pc EXCEPT ![c] = "global"]
    BY <2>1 DEF TypeOK, Holding
  <2>2. CASE result' = result /\ pc' = [pc EXCEPT ![c] = "rebind"]
    BY <2>2 DEF TypeOK, Holding
  <2>3. CASE result' = [result EXCEPT ![c] = "ok"] /\ pc' = [pc EXCEPT ![c] = "ended"]
    BY <2>3 DEF TypeOK, Holding
  <2> QED
    BY <1>3, <2>1, <2>2, <2>3
<1>5. TypeOK'
  <2>1. scope' \in [Executors -> {d \in Calls : pc'[d] \in {"running", "awaiting"}} \cup {NoCall}]
    BY <1>1, <1>4 DEF TypeOK
  <2>2. cwd \in [Executors -> Dirs] /\ cwd[e] \in Dirs
    BY <1>2 DEF TypeOK
  <2>3. cwd' \in [Executors -> Dirs]
    BY <1>2, <1>3, <2>2, Updated
  <2>4. bound' \in [Executors -> Dirs]
    <3>1. bound \in [Executors -> Dirs]
      BY DEF TypeOK
    <3>2. bound' = bound \/ bound' = [bound EXCEPT ![e] = cwd[e]]
      BY <1>3
    <3>3. CASE bound' = bound
      BY <3>1, <3>3
    <3>4. CASE bound' = [bound EXCEPT ![e] = cwd[e]]
      BY <2>2, <3>1, <3>4
    <3> QED
      BY <3>2, <3>3, <3>4
  <2>5. seen' \in [Executors -> Calls \cup {NoCall}]
    <3>1. seen \in [Executors -> Calls \cup {NoCall}]
      BY DEF TypeOK
    <3> QED
      BY <1>2, <1>3, <3>1, Updated, Zenon
  <2>6. cache' \in [Executors -> Calls \cup {NoCall}]
    <3>1. cache \in [Executors -> Calls \cup {NoCall}]
      BY DEF TypeOK
    <3> QED
      BY <1>2, <1>3, <3>1, Updated, Zenon
  <2>7. /\ origin' \in [Executors -> Calls \cup {NoCall}]
        /\ refs' \in [Executors -> SUBSET Calls]
    <3>1. CASE UNCHANGED <<origin, refs>>
      BY <3>1 DEF TypeOK
    <3>2. CASE origin' = [origin EXCEPT ![e] = NoCall] /\ refs' = [refs EXCEPT ![e] = {}]
      BY <3>2 DEF TypeOK
    <3> QED
      BY <1>3, <3>1, <3>2
  <2> QED
    BY <1>1, <1>4, <2>1, <2>3, <2>4, <2>5, <2>6, <2>7 DEF TypeOK
<1>6. Locks'
  <2>1. \A d \in Calls : pc'[d] \in Holding <=> pc[d] \in Holding
    BY <1>1, <1>4 DEF Holding
  <2>2. \A d \in Calls : pc'[d] \in Inside <=> pc[d] \in Inside
    BY <1>1, <1>4 DEF Holding, Inside
  <2>3. \A d \in Calls : On(d)' = On(d)
    BY <1>1 DEF On
  <2>4. \A f \in Executors : gate[f] # NoCall => gate[f] \in Calls
    BY DEF TypeOK
  <2> QED
    BY <1>1, <2>1, <2>2, <2>3, <2>4 DEF Locks, On
<1>7. Threads'
  BY <1>1, <1>3, <1>4 DEF Threads, Holding, Inside, TypeOK
<1>8. Returns'
  BY <1>1 DEF Returns, ChangesDir, Op
<1>9. InWorkspaceUntilLeft'
  <2>1. ASSUME NEW d \in Calls, thread[d].at = "alive"
        PROVE  cwd'[On(d)] = cwd[On(d)]
    <3>1. gate[On(d)] = d /\ d # NoCall
      BY <2>1 DEF Threads, Locks, Inside
    <3>2. On(d) # e
      BY <1>1, <3>1 DEF e
    <3>3. /\ On(d) \in Executors /\ cwd \in [Executors -> Dirs]
      BY MixTypes DEF TypeOK
    <3> QED
      BY <1>3, <3>2, <3>3, <1>2, Updated
  <2> QED
    BY <1>1, <2>1 DEF InWorkspaceUntilLeft, ChangesDir, Op, On
<1>10. Scopes'
  BY <1>1, <1>4 DEF Scopes, Produces, Op, On, Inside, Holding
<1>11. LineageComplete'
  <2> SUFFICES ASSUME NEW f \in Executors, origin'[f] # NoCall
               PROVE  result'[origin'[f]] = "ok" /\ got'[origin'[f]] \subseteq refs'[f]
    BY DEF LineageComplete
  <2>1. origin'[f] = origin[f] /\ refs'[f] = refs[f]
    <3>1. CASE UNCHANGED <<origin, refs>>
      BY <3>1
    <3>2. CASE origin' = [origin EXCEPT ![e] = NoCall] /\ refs' = [refs EXCEPT ![e] = {}]
      BY <3>2 DEF TypeOK
    <3> QED
      BY <1>3, <3>1, <3>2
  <2>2. origin[f] \in Calls /\ result[origin[f]] = "ok" /\ got[origin[f]] \subseteq refs[f]
    BY <2>1 DEF LineageComplete, TypeOK
  <2>3. origin[f] # c
    BY <1>1, <2>2 DEF Threads
  <2> QED
    BY <1>1, <1>4, <2>1, <2>2, <2>3
<1>12. Owners'
  BY <1>1 DEF Owners, On
<1> QED
  BY <1>5, <1>6, <1>7, <1>8, <1>9, <1>10, <1>11, <1>12

\* The connectors are bound under the gate alone.
LEMMA RebindKeeps ==
    ASSUME IInv, NEW c \in Calls, Rebind(c) PROVE IInv'
<1> USE DEF IInv
<1>1. /\ pc[c] = "rebind" /\ gate[On(c)] = NoCall
      /\ bound' = [bound EXCEPT ![On(c)] = cwd[On(c)]]
      /\ pc' = [pc EXCEPT ![c] = "ended"]
      /\ result' = [result EXCEPT ![c] = "ok"]
      /\ UNCHANGED <<mix, locks, pwd, cwd, seen, cache, ledger, thread, body>>
  BY DEF Rebind, End
<1>2. On(c) \in Executors
  BY MixTypes
<1> USE DEF locks, ledger, body
<1>3. /\ pc'[c] = "ended" /\ result'[c] = "ok"
      /\ \A d \in Calls : d # c => pc'[d] = pc[d] /\ result'[d] = result[d]
  BY <1>1 DEF TypeOK
<1>4. TypeOK'
  <2>1. scope' \in [Executors -> {d \in Calls : pc'[d] \in {"running", "awaiting"}} \cup {NoCall}]
    BY <1>1 DEF TypeOK
  <2> QED
    BY <1>1, <1>2, <2>1 DEF TypeOK
<1>5. Locks'
  BY <1>1, <1>3 DEF Locks, On, Holding, Inside, TypeOK
<1>6. Threads'
  BY <1>1, <1>3 DEF Threads, Inside
<1>7. Returns' /\ InWorkspaceUntilLeft'
  BY <1>1 DEF Returns, InWorkspaceUntilLeft, ChangesDir, Op, On
<1>8. Scopes'
  BY <1>1, <1>3 DEF Scopes, Produces, Op, On, Inside
<1>9. LineageComplete'
  BY <1>1, <1>3 DEF LineageComplete, TypeOK
<1>10. Owners'
  BY <1>1 DEF Owners, On
<1> QED
  BY <1>4, <1>5, <1>6, <1>7, <1>8, <1>9, <1>10

-----------------------------------------------------------------------------
(***************************************************************************)
(* What a cell does.                                                       *)
(***************************************************************************)

\* A cell starts alone: whoever holds the global lock is the only one inside.
LEMMA StartCellKeeps ==
    ASSUME IInv, NEW c \in Calls, StartCell(c) PROVE IInv'
<1> USE DEF IInv
<1> DEFINE e == On(c)
<1>1. /\ pc[c] = "gate" /\ gate[e] = NoCall
      /\ gate' = [gate EXCEPT ![e] = c]
      /\ pc' = [pc EXCEPT ![c] = "running"]
      /\ thread' = [thread EXCEPT ![c] = [at |-> "alive", saved |-> pwd]]
      /\ pwd' = IF ChangesDir(c) THEN cwd[e] ELSE pwd
      /\ scope' = [scope EXCEPT ![e] = IF Produces(c) THEN c ELSE NoCall]
      /\ UNCHANGED <<mix, result, global, cwd, seen, body>>
  BY DEF StartCell
<1>2. \/ Reset(e)
      \/ UNCHANGED <<cache, bound, origin, refs>>
  BY DEF StartCell
<1>3. e \in Executors
  BY MixTypes
<1> USE DEF body
<1> HIDE DEF e
<1>4. /\ global = c /\ \A d \in Calls : d # c => pc[d] \notin Holding
      /\ thread[c].at = "none"
  BY <1>1 DEF Locks, Threads, Holding, Inside
<1>5. /\ pc'[c] = "running" /\ \A d \in Calls : d # c => pc'[d] = pc[d]
      /\ thread'[c] = [at |-> "alive", saved |-> pwd]
      /\ \A d \in Calls : d # c => thread'[d] = thread[d]
      /\ gate'[e] = c /\ \A f \in Executors : f # e => gate'[f] = gate[f]
      /\ scope'[e] = IF Produces(c) THEN c ELSE NoCall
  BY <1>1, <1>3 DEF TypeOK
<1>6. /\ pwd \in Dirs /\ cwd[e] \in Dirs
  BY <1>3 DEF TypeOK
<1>7. TypeOK'
  <2>1. scope' \in [Executors -> {d \in Calls : pc'[d] \in {"running", "awaiting"}} \cup {NoCall}]
    BY <1>1, <1>3, <1>5 DEF TypeOK
  <2>2. thread' \in [Calls -> [at : {"none", "alive", "over", "lingering", "lingered"},
                               saved : Dirs]]
    BY <1>1, <1>6 DEF TypeOK
  <2>3. /\ cache' \in [Executors -> Calls \cup {NoCall}]
        /\ bound' \in [Executors -> Dirs]
        /\ origin' \in [Executors -> Calls \cup {NoCall}]
        /\ refs' \in [Executors -> SUBSET Calls]
    <3>1. CASE Reset(e)
      BY <3>1, <1>6 DEF Reset, TypeOK
    <3>2. CASE UNCHANGED <<cache, bound, origin, refs>>
      BY <3>2 DEF TypeOK
    <3> QED
      BY <1>2, <3>1, <3>2
  <2>4. pwd' \in Dirs
    BY <1>1, <1>6
  <2>5. /\ pc' \in [Calls -> {"idle", "global", "gate", "inner", "rebind", "running",
                              "awaiting", "ended"}]
        /\ gate' \in [Executors -> Calls \cup {NoCall}]
    BY <1>1 DEF TypeOK
  <2> QED
    BY <1>1, <2>1, <2>2, <2>3, <2>4, <2>5 DEF TypeOK
<1>8. Locks'
  <2>1. \A d \in Calls : pc'[d] \in Holding <=> global' = d
    BY <1>1, <1>4, <1>5 DEF Locks, Holding
  <2>2. \A d \in Calls : pc'[d] \in Inside => d = c
    BY <1>4, <1>5 DEF Inside, Holding
  <2>3. \A f \in Executors : f # e => gate[f] = NoCall
    <3>1. ASSUME NEW f \in Executors, f # e, gate[f] # NoCall PROVE FALSE
      <4>1. gate[f] \in Calls /\ pc[gate[f]] \in Inside /\ On(gate[f]) = f
        BY <3>1 DEF Locks, TypeOK
      <4>2. gate[f] = c
        BY <4>1, <1>4 DEF Inside, Holding
      <4> QED
        BY <4>1, <4>2, <3>1 DEF e
    <3> QED
      BY <3>1
  <2>4. On(c)' = On(c)
    BY <1>1 DEF On
  <2> QED
    BY <1>1, <1>5, <2>1, <2>2, <2>3, <2>4 DEF Locks, Inside, On, e
<1>9. Threads'
  BY <1>1, <1>4, <1>5 DEF Threads, Inside
<1>10. ASSUME \A d \in Calls : thread'[d].at \notin {"lingering", "lingered"}
       PROVE  /\ pwd = Home
              /\ \A d \in Calls : thread'[d].at = "alive" => d = c
  <2>1. \A d \in Calls : thread[d].at \notin {"lingering", "lingered"}
    BY <1>4, <1>5, <1>10
  <2>2. \A d \in Calls : thread[d].at # "alive"
    BY <1>4 DEF Threads, Holding
  <2> QED
    BY <2>1, <2>2, <1>5 DEF InWorkspaceUntilLeft
<1>11. Returns'
  BY <1>1, <1>5, <1>10 DEF Returns, ChangesDir, Op
<1>12. InWorkspaceUntilLeft'
  BY <1>1, <1>5, <1>10 DEF InWorkspaceUntilLeft, ChangesDir, Op, On, e
<1>13. Scopes'
  BY <1>1, <1>4, <1>5 DEF Scopes, Produces, Op, On, Inside, Holding, e
<1>14. LineageComplete'
  <2>1. CASE Reset(e)
    BY <1>1, <1>3, <2>1 DEF Reset, LineageComplete, TypeOK
  <2>2. CASE UNCHANGED <<cache, bound, origin, refs>>
    BY <1>1, <2>2 DEF LineageComplete
  <2> QED
    BY <1>2, <2>1, <2>2
<1>15. Owners'
  BY <1>1, <1>3, <1>5 DEF Owners, On, e, TypeOK
<1> QED
  BY <1>7, <1>8, <1>9, <1>11, <1>12, <1>13, <1>14, <1>15

\* A fetch is recorded in the scope that is open, which is the caller's own as
\* long as the caller's run is not over.
LEMMA FetchKeeps ==
    ASSUME IInv, NEW c \in Calls, Fetch(c) PROVE IInv'
<1> USE DEF IInv
<1> DEFINE e == On(c)
           found == IF cache[e] # NoCall THEN cache[e] ELSE c
           open == scope[e]
<1>1. /\ Active(c)
      /\ cache' = [cache EXCEPT ![e] = found]
      /\ \/ /\ got' = [got EXCEPT ![c] = {found}]
            /\ recorded' = IF open # NoCall
                           THEN [recorded EXCEPT ![open] = @ \cup {found}] ELSE recorded
         \/ UNCHANGED <<got, recorded>>
      /\ UNCHANGED <<mix, pc, result, locks, pwd, cwd, bound, seen, ledger, thread>>
  BY DEF Fetch, HooksRun, body
<1> USE DEF locks, ledger
<1>2. /\ e \in Executors /\ found \in Calls
      /\ open # NoCall => open \in Calls
  BY MixTypes DEF TypeOK
<1>3. open = scope[On(c)]
  OBVIOUS
<1> HIDE DEF e, found, open
<1>4. /\ pc[c] \in Inside \cup {"ended"}
      /\ result[c] # "ok"
  BY <1>1 DEF Active, Threads, Inside
<1>5. /\ \A d \in Calls : d # c => got'[d] = got[d]
      /\ \A d \in Calls : recorded[d] \subseteq recorded'[d]
      /\ \/ got'[c] = {found} /\ (open # NoCall => found \in recorded'[open])
         \/ got'[c] = got[c]
      /\ got' \in [Calls -> SUBSET Calls] /\ recorded' \in [Calls -> SUBSET Calls]
  <2>1. CASE /\ got' = [got EXCEPT ![c] = {found}]
             /\ recorded' = IF open # NoCall
                            THEN [recorded EXCEPT ![open] = @ \cup {found}] ELSE recorded
    <3>1. CASE open # NoCall
      BY <2>1, <3>1, <1>2 DEF TypeOK
    <3>2. CASE open = NoCall
      BY <2>1, <3>2, <1>2 DEF TypeOK
    <3> QED
      BY <3>1, <3>2
  <2>2. CASE UNCHANGED <<got, recorded>>
    BY <2>2 DEF TypeOK
  <2> QED
    BY <1>1, <2>1, <2>2
<1>6. TypeOK'
  <2>1. cache' \in [Executors -> Calls \cup {NoCall}]
    BY <1>1, <1>2 DEF TypeOK
  <2> QED
    BY <1>1, <1>5, <2>1 DEF TypeOK
<1>7. Locks' /\ Threads' /\ Returns' /\ InWorkspaceUntilLeft'
  BY <1>1 DEF Locks, Threads, Returns, InWorkspaceUntilLeft, ChangesDir, Op, On
<1>8. Scopes'
  <2> SUFFICES ASSUME NEW d \in Calls
               PROVE  /\ pc[d] \in Inside /\ Produces(d) =>
                            scope[On(d)] = d /\ got'[d] \subseteq recorded'[d]
                      /\ pc[d] \notin Inside \cup {"ended"} => got'[d] = {}
    BY <1>1 DEF Scopes, Produces, Op, On
  <2>1. CASE d = c
    BY <2>1, <1>2, <1>3, <1>4, <1>5 DEF Scopes
  <2>2. CASE d # c
    BY <2>2, <1>5 DEF Scopes
  <2> QED
    BY <2>1, <2>2
<1>9. LineageComplete'
  BY <1>1, <1>4, <1>5 DEF LineageComplete, TypeOK
<1>10. Owners'
  BY <1>1 DEF Owners, On
<1> QED
  BY <1>6, <1>7, <1>8, <1>9, <1>10

-----------------------------------------------------------------------------
(***************************************************************************)
(* The end of a cell.                                                      *)
(***************************************************************************)

\* Whoever is inside is the only one.
LEMMA OneInside ==
    ASSUME IInv, NEW c \in Calls, pc[c] \in Inside
    PROVE  /\ global = c
           /\ \A d \in Calls : pc[d] \in Holding => d = c
           /\ \A d \in Calls : thread[d].at = "alive" => d = c
           /\ \A f \in Executors : gate[f] # NoCall => f = On(c)
<1> USE DEF IInv
<1>1. global = c /\ \A d \in Calls : pc[d] \in Holding => d = c
  BY DEF Locks, Inside, Holding
<1>2. \A d \in Calls : thread[d].at = "alive" => d = c
  BY <1>1 DEF Threads, Holding
<1>3. ASSUME NEW f \in Executors, gate[f] # NoCall PROVE f = On(c)
  <2>1. gate[f] \in Calls /\ pc[gate[f]] \in Inside /\ On(gate[f]) = f
    BY <1>3 DEF Locks, TypeOK
  <2>2. gate[f] = c
    BY <1>1, <2>1 DEF Inside, Holding
  <2> QED
    BY <2>1, <2>2
<1> QED
  BY <1>1, <1>2, <1>3

\* A cell is over: its locks are free, its scope is closed, and what it stamped,
\* if it ended well, cites everything it was given.
LEMMA CellEnds ==
    ASSUME IInv, NEW c \in Calls, pc[c] \in Inside,
           NEW how \in {"ok", "raised", "timeout", "cancelled"},
           End(c, how), StampAfter(c, how), Release(c), CloseScope(c),
           UNCHANGED <<mix, space, body>>,
           pwd' \in Dirs,
           thread' \in [Calls -> [at : {"none", "alive", "over", "lingering", "lingered"},
                                  saved : Dirs]],
           \A d \in Calls : d # c => thread'[d] = thread[d],
           thread'[c].at \in {"over", "lingering"},
           how = "ok" => thread'[c].at = "over",
           (\A d \in Calls : thread'[d].at \notin {"lingering", "lingered"}) => pwd' = Home
    PROVE  IInv'
<1> USE DEF IInv
<1> DEFINE e == On(c)
<1>1. e \in Executors
  BY MixTypes
<1>2. /\ pc'[c] = "ended" /\ \A d \in Calls : d # c => pc'[d] = pc[d]
      /\ result'[c] = how /\ \A d \in Calls : d # c => result'[d] = result[d]
      /\ pc' \in [Calls -> {"idle", "global", "gate", "inner", "rebind", "running",
                            "awaiting", "ended"}]
      /\ result' \in [Calls -> {"none", "ok", "raised", "timeout", "cancelled"}]
  BY DEF End, TypeOK
<1>3. /\ global' = NoCall
      /\ gate' \in [Executors -> Calls \cup {NoCall}]
      /\ gate'[e] = NoCall /\ \A f \in Executors : f # e => gate'[f] = gate[f]
  BY <1>1 DEF Release, TypeOK
<1>4. scope' = [scope EXCEPT ![e] = NoCall]
  BY DEF CloseScope
<1>5. \/ UNCHANGED <<origin, refs>>
      \/ /\ origin' = [origin EXCEPT ![e] = c]
         /\ refs' = [refs EXCEPT ![e] = recorded[c]]
         /\ how = "ok" /\ Produces(c)
  BY DEF StampAfter, Stamp
<1>6. \A d \in Calls : pc[d] \in Holding => d = c
  BY OneInside
<1>7. \A d \in Calls : thread'[d].at # "alive"
  BY OneInside
<1> USE DEF space, body
<1> HIDE DEF e
<1>8. TypeOK'
  <2>1. scope' \in [Executors -> {d \in Calls : pc'[d] \in {"running", "awaiting"}} \cup {NoCall}]
    <3>1. \A f \in Executors : scope[f] # NoCall => scope[f] = c
      BY <1>6 DEF TypeOK, Holding
    <3>2. \A f \in Executors : f # e => scope[f] # c
      BY <3>1 DEF Owners, e, TypeOK
    <3> QED
      BY <3>1, <3>2, <1>1, <1>4 DEF TypeOK
  <2>2. /\ origin' \in [Executors -> Calls \cup {NoCall}]
        /\ refs' \in [Executors -> SUBSET Calls]
    <3>1. CASE UNCHANGED <<origin, refs>>
      BY <3>1 DEF TypeOK
    <3>2. CASE origin' = [origin EXCEPT ![e] = c] /\ refs' = [refs EXCEPT ![e] = recorded[c]]
      BY <3>2 DEF TypeOK
    <3> QED
      BY <1>5, <3>1, <3>2
  <2> QED
    BY <1>2, <1>3, <2>1, <2>2 DEF TypeOK
<1>9. Locks'
  <2>1. \A d \in Calls : pc'[d] \notin Holding
    BY <1>2, <1>6 DEF Holding
  <2>2. \A d \in Calls : pc'[d] \notin Inside
    BY <2>1 DEF Holding, Inside
  <2>3. \A f \in Executors : gate'[f] = NoCall
    BY <1>3, OneInside DEF e
  <2> QED
    BY <1>3, <2>1, <2>2, <2>3 DEF Locks
<1>10. Threads'
  BY <1>2, <1>7 DEF Threads, Inside
<1>11. Returns' /\ InWorkspaceUntilLeft'
  BY <1>7 DEF Returns, InWorkspaceUntilLeft
<1>12. Scopes'
  BY <1>2, <1>6 DEF Scopes, Inside, Holding, Produces, Op, On
<1>13. LineageComplete'
  <2>1. CASE UNCHANGED <<origin, refs>>
    <3>1. result[c] # "ok"
      BY DEF Threads, Inside
    <3> QED
      BY <2>1, <3>1, <1>2 DEF LineageComplete, TypeOK
  <2>2. CASE /\ origin' = [origin EXCEPT ![e] = c]
             /\ refs' = [refs EXCEPT ![e] = recorded[c]]
             /\ how = "ok" /\ Produces(c)
    <3>1. got[c] \subseteq recorded[c] /\ result[c] # "ok"
      BY <2>2 DEF Scopes, Threads, Inside
    <3>2. \A f \in Executors : /\ f = e => origin'[f] = c /\ refs'[f] = recorded[c]
                               /\ f # e => origin'[f] = origin[f] /\ refs'[f] = refs[f]
      BY <2>2 DEF TypeOK
    <3> QED
      BY <2>2, <3>1, <3>2, <1>2 DEF LineageComplete, TypeOK
  <2> QED
    BY <1>5, <2>1, <2>2
<1>14. Owners'
  BY <1>1, <1>4 DEF Owners, On, TypeOK
<1> QED
  BY <1>8, <1>9, <1>10, <1>11, <1>12, <1>13, <1>14

\* The thread of a cell is over, and the process back where it was.
LEMMA BackHome ==
    ASSUME IInv, NEW c \in Calls, pc[c] = "running",
           thread' = Over(c, "over"), pwd' = Back(c)
    PROVE  /\ thread' \in [Calls -> [at : {"none", "alive", "over", "lingering", "lingered"},
                                     saved : Dirs]]
           /\ thread'[c].at = "over" /\ \A d \in Calls : d # c => thread'[d] = thread[d]
           /\ pwd' \in Dirs
           /\ (\A d \in Calls : thread'[d].at \notin {"lingering", "lingered"}) => pwd' = Home
<1> USE DEF IInv
<1>1. /\ thread' \in [Calls -> [at : {"none", "alive", "over", "lingering", "lingered"},
                                saved : Dirs]]
      /\ thread'[c].at = "over" /\ \A d \in Calls : d # c => thread'[d] = thread[d]
  BY DEF Over, TypeOK
<1>2. thread[c].at = "alive"
  BY DEF Threads
<1>3. pwd' \in Dirs
  BY DEF Back, TypeOK
<1>4. ASSUME \A d \in Calls : thread'[d].at \notin {"lingering", "lingered"} PROVE pwd' = Home
  <2>1. \A d \in Calls : thread[d].at \notin {"lingering", "lingered"}
    BY <1>1, <1>2, <1>4
  <2> QED
    BY <1>2, <2>1 DEF Returns, Back
<1> QED
  BY <1>1, <1>3, <1>4

\* A cell ends in its thread, which takes the process back home.
LEMMA ThreadReturnsKeeps ==
    ASSUME IInv, NEW c \in Calls, ThreadReturns(c) PROVE IInv'
<1> USE DEF IInv
<1>1. /\ pc[c] = "running" /\ thread' = Over(c, "over") /\ pwd' = Back(c)
      /\ UNCHANGED <<mix, space, body>>
  BY DEF ThreadReturns
<1>2. CASE Op(c) # "await"
  <2>1. PICK how \in {"ok", "raised"} : End(c, how) /\ StampAfter(c, how)
    BY <1>2 DEF ThreadReturns
  <2>2. Release(c) /\ CloseScope(c)
    BY <1>2 DEF ThreadReturns
  <2>3. pc[c] \in Inside /\ how \in {"ok", "raised", "timeout", "cancelled"}
    BY <1>1 DEF Inside
  <2> QED
    BY <1>1, <2>1, <2>2, <2>3, BackHome, CellEnds
<1>3. CASE Op(c) = "await"
  <2>1. pc' = [pc EXCEPT ![c] = "awaiting"] /\ UNCHANGED <<result, locks, ledger>>
    BY <1>3 DEF ThreadReturns
  <2> USE DEF locks, ledger, space, body
  <2>2. /\ pc'[c] = "awaiting" /\ \A d \in Calls : d # c => pc'[d] = pc[d]
        /\ \A d \in Calls : pc'[d] \in Inside <=> pc[d] \in Inside
        /\ \A d \in Calls : pc'[d] \in Holding <=> pc[d] \in Holding
    BY <1>1, <2>1 DEF TypeOK, Inside, Holding
  <2>3. /\ thread'[c].at = "over" /\ \A d \in Calls : d # c => thread'[d] = thread[d]
        /\ (\A d \in Calls : thread'[d].at \notin {"lingering", "lingered"}) => pwd' = Home
    BY <1>1, BackHome
  <2>4. \A d \in Calls : thread'[d].at # "alive"
    BY <1>1, <2>3, OneInside DEF Inside
  <2>5. TypeOK'
    <3>1. scope' \in [Executors -> {d \in Calls : pc'[d] \in {"running", "awaiting"}} \cup {NoCall}]
      BY <2>1, <2>2 DEF TypeOK, Inside
    <3>2. pc' \in [Calls -> {"idle", "global", "gate", "inner", "rebind", "running",
                             "awaiting", "ended"}]
      BY <2>1 DEF TypeOK
    <3> QED
      BY <1>1, <2>1, <3>1, <3>2, BackHome DEF TypeOK
  <2>6. Locks'
    BY <1>1, <2>1, <2>2 DEF Locks, On, TypeOK
  <2>7. Threads'
    BY <1>1, <2>1, <2>2, <2>3 DEF Threads, Inside
  <2>8. Returns' /\ InWorkspaceUntilLeft'
    BY <2>3, <2>4 DEF Returns, InWorkspaceUntilLeft
  <2>9. Scopes'
    BY <1>1, <2>1, <2>2 DEF Scopes, Produces, Op, On, Inside
  <2>10. LineageComplete' /\ Owners'
    BY <1>1, <2>1 DEF LineageComplete, Owners, On
  <2> QED
    BY <2>5, <2>6, <2>7, <2>8, <2>9, <2>10
<1> QED
  BY <1>2, <1>3

\* A cell with top-level await ends as a coroutine.
LEMMA AwaitEndsKeeps ==
    ASSUME IInv, NEW c \in Calls, AwaitEnds(c) PROVE IInv'
<1>1. PICK how \in {"ok", "raised", "timeout", "cancelled"} : End(c, how) /\ StampAfter(c, how)
  BY DEF AwaitEnds
<1>2. /\ pc[c] = "awaiting" /\ pc[c] \in Inside
      /\ Release(c) /\ CloseScope(c) /\ UNCHANGED <<mix, pwd, space, thread, body>>
  BY DEF AwaitEnds, Inside
<1>3. thread[c].at = "over" /\ \A d \in Calls : thread[d].at # "alive"
  BY <1>2, OneInside DEF IInv, Threads
<1>4. (\A d \in Calls : thread[d].at \notin {"lingering", "lingered"}) => pwd = Home
  BY <1>3 DEF IInv, InWorkspaceUntilLeft
<1>5. /\ pwd' \in Dirs
      /\ thread' \in [Calls -> [at : {"none", "alive", "over", "lingering", "lingered"},
                                saved : Dirs]]
  BY <1>2 DEF IInv, TypeOK
<1> QED
  BY <1>1, <1>2, <1>3, <1>4, <1>5, CellEnds

\* A cell is given up at its timeout, its thread lingers.
LEMMA GiveUpKeeps ==
    ASSUME IInv, NEW c \in Calls, GiveUp(c) PROVE IInv'
<1>1. PICK how \in {"timeout", "cancelled"} : End(c, how) /\ StampAfter(c, how)
  BY DEF GiveUp
<1>2. /\ pc[c] \in Inside /\ Release(c) /\ CloseScope(c)
      /\ thread' = [thread EXCEPT ![c].at = "lingering"]
      /\ UNCHANGED <<mix, pwd, space, body>>
  BY DEF GiveUp, Inside
<1>3. /\ thread' \in [Calls -> [at : {"none", "alive", "over", "lingering", "lingered"},
                                saved : Dirs]]
      /\ thread'[c].at = "lingering" /\ \A d \in Calls : d # c => thread'[d] = thread[d]
      /\ pwd' \in Dirs
  <2> DEFINE R == [at : {"none", "alive", "over", "lingering", "lingered"}, saved : Dirs]
  <2>1. thread \in [Calls -> R] /\ pwd \in Dirs
    BY DEF IInv, TypeOK
  <2>2. [thread[c] EXCEPT !.at = "lingering"] \in R
    BY <2>1
  <2>3. thread' = [thread EXCEPT ![c] = [thread[c] EXCEPT !.at = "lingering"]]
    BY <1>2
  <2>4. [thread[c] EXCEPT !.at = "lingering"].at = "lingering"
    BY <2>1
  <2> HIDE DEF R
  <2>5. thread' \in [Calls -> R] /\ thread'[c].at = "lingering"
        /\ \A d \in Calls : d # c => thread'[d] = thread[d]
    BY <2>1, <2>2, <2>3, <2>4
  <2> QED
    BY <2>1, <2>5, <1>2 DEF R
<1>4. how \in {"ok", "raised", "timeout", "cancelled"} /\ how # "ok"
  OBVIOUS
<1> QED
  BY <1>1, <1>2, <1>3, <1>4, CellEnds

\* A thread that lingers ends, and moves the process once more.
LEMMA LingeringEndsKeeps ==
    ASSUME IInv, NEW c \in Calls, LingeringEnds(c) PROVE IInv'
<1> USE DEF IInv
<1>1. /\ thread[c].at = "lingering" /\ thread' = Over(c, "lingered") /\ pwd' = Back(c)
      /\ UNCHANGED <<mix, pc, result, locks, space, ledger, body>>
  BY DEF LingeringEnds
<1> USE DEF locks, space, ledger, body
<1>2. /\ thread' \in [Calls -> [at : {"none", "alive", "over", "lingering", "lingered"},
                                saved : Dirs]]
      /\ thread'[c].at = "lingered" /\ \A d \in Calls : d # c => thread'[d] = thread[d]
      /\ pwd' \in Dirs
  BY <1>1 DEF Over, Back, TypeOK
<1>3. TypeOK'
  BY <1>1, <1>2 DEF TypeOK
<1>4. Threads'
  BY <1>1, <1>2 DEF Threads, Inside
<1>5. Returns' /\ InWorkspaceUntilLeft'
  BY <1>2 DEF Returns, InWorkspaceUntilLeft
<1>6. Locks' /\ Scopes' /\ LineageComplete' /\ Owners'
  BY <1>1 DEF Locks, Scopes, LineageComplete, Owners, Produces, Op, On
<1> QED
  BY <1>3, <1>4, <1>5, <1>6

-----------------------------------------------------------------------------
\* Nothing happens.
LEMMA StutterKeeps == IInv /\ UNCHANGED vars => IInv'
<1> SUFFICES ASSUME IInv, UNCHANGED vars PROVE IInv'
  OBVIOUS
<1> USE DEF IInv, vars, locks, space, ledger, body
<1>1. TypeOK'
  BY DEF TypeOK
<1>2. Locks' /\ Threads' /\ Scopes' /\ Owners' /\ LineageComplete'
  BY DEF Locks, Threads, Scopes, Owners, LineageComplete, Produces, Op, On
<1>3. Returns' /\ InWorkspaceUntilLeft'
  BY DEF Returns, InWorkspaceUntilLeft, ChangesDir, Op, On
<1> QED
  BY <1>1, <1>2, <1>3

\* The invariant is inductive for any number of calls and executors, with
\* threads that linger for as long as they like.
THEOREM InductiveExecutor == Spec => []IInv
<1>1. ASSUME IInv, NEW c \in Calls,
             \/ CallCell(c) \/ CallInner(c) \/ Coroutine(c)
             \/ Fetch(c) \/ LingeringEnds(c)
      PROVE  IInv'
  BY <1>1, CallKeeps, TakeGlobalKeeps, StartCellKeeps, InnerKeeps, RebindKeeps,
     ThreadReturnsKeeps, AwaitEndsKeeps, GiveUpKeeps, FetchKeeps,
     LingeringEndsKeeps, Zenon DEF Coroutine
<1>2. IInv /\ Next => IInv'
  BY <1>1 DEF Next
<1> QED
  BY <1>2, InitIInv, StutterKeeps, PTL DEF Spec

\* The state of the executor keeps its types; a scope is open only for a call
\* that is inside (execute).
THEOREM ExecutorTypes == Spec => []TypeOK
<1>1. IInv => TypeOK
  BY DEF IInv
<1> QED
  BY <1>1, InductiveExecutor, PTL

\* Until a thread is left behind, every cell runs in the workspace of its own
\* executor, and the process is home when none runs (_working_directory under
\* _global_execution_lock).
THEOREM CellsRunAtHome == Spec => []InWorkspaceUntilLeft
<1>1. IInv => InWorkspaceUntilLeft
  BY DEF IInv
<1> QED
  BY <1>1, InductiveExecutor, PTL

\* The lineage of a variable cites every fetch of the run it names, and that run
\* ended well (OriginLedger.stamp, _MemoizingConnector.__call__).
THEOREM LineageIsComplete == Spec => []LineageComplete
<1>1. IInv => LineageComplete
  BY DEF IInv
<1> QED
  BY <1>1, InductiveExecutor, PTL

==============================================================================
