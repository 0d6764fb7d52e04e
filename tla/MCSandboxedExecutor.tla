------------------------- MODULE MCSandboxedExecutor -------------------------
(***************************************************************************)
(* Values of SandboxedExecutor's constants for TLC.                        *)
(***************************************************************************)
EXTENDS SandboxedExecutor, TLC

CONSTANTS c1, c2, c3

Mix(x, y, z) == (c1 :> x) @@ (c2 :> y) @@ (c3 :> z)

\* Cells beside a reset of the namespace; a file read and a change of the
\* connectors beside the host that closes the executor.
MixedOps == {Mix("fetch", "cell", "clear"), Mix("file", "names", "close")}

\* Cells only: the kernel's namespace is never reset by the host.
CellsOnly == {Mix("cell", "cell", "cell")}
==============================================================================
