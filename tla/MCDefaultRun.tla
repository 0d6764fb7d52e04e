---------------------------- MODULE MCDefaultRun -----------------------------
(***************************************************************************)
(* Values of DefaultRun's constants for TLC.                               *)
(***************************************************************************)
EXTENDS DefaultRun

\* One response: nothing, one call, or two; a signature that comes back, alone
\* and twice at once.
FailureBatches ==
    {<<>>, <<"fetch">>, <<"fetch", "fetch">>, <<"unknown", "once">>,
     <<"once", "ask_user">>}

\* Every control tool, alone and with another call.
ControlBatches ==
    {<<>>, <<"return_done">>, <<"return_unable">>, <<"ask_user">>,
     <<"once", "ask_user">>, <<"return_done", "ask_user">>}

\* The plain tool error, one failure the funnel narrows, one it asks about,
\* one provider failure and one that stops the run.
ManyFailures ==
    {FailureOf("tool_error"), FailureOf("scope_too_large"),
     FailureOf("ambiguous_input"), FailureOf("transient_provider"),
     [kind |-> "policy_violation", suggested |-> "stop"]}

FewFailures == {FailureOf("tool_error"), FailureOf("ambiguous_input")}
==============================================================================
