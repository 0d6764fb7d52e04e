--------------------------- MODULE MCWorkspaceRun ----------------------------
(***************************************************************************)
(* Values of WorkspaceRun's constants for TLC.                             *)
(***************************************************************************)
EXTENDS WorkspaceRun

\* Refused calls among others, two reads at once, deliverables before and after
\* a control call, and two control calls.
MixedBatches ==
    {<<"unknown", "pathless">>, <<"pathless", "read">>, <<"read", "read">>,
     <<"publish", "ask_user">>, <<"return_done", "publish">>,
     <<"notebook", "publish">>, <<"ask_user", "return_unable">>}
==============================================================================
