---------------------------- MODULE MCCodeExecutor ----------------------------
(***************************************************************************)
(* Values of CodeExecutor's constants for TLC.                             *)
(***************************************************************************)
EXTENDS CodeExecutor, TLC

CONSTANTS c1, c2, c3, e1, e2

Roots == (e1 :> "w1") @@ (e2 :> "w2")

Do(op, e) == [op |-> op, on |-> e]
Mix(x, y, z) == (c1 :> x) @@ (c2 :> y) @@ (c3 :> z)

\* Notebooks on one executor beside a reset; on two executors beside set_cwd; a
\* coroutine, a dry run and an eval; a fresh namespace, new connectors, a look.
MixedCalls ==
    {Mix(Do("notebook", e1), Do("notebook", e1), Do("clear", e1)),
     Mix(Do("notebook", e1), Do("notebook", e2), Do("cwd", e1)),
     Mix(Do("await", e1), Do("dry", e1), Do("eval", e1)),
     Mix(Do("workspace", e1), Do("connectors", e1), Do("notebook", e1)),
     Mix(Do("look", e1), Do("cell", e1), Do("notebook", e2))}
==============================================================================
