------------------------------- MODULE MCPrompt ------------------------------
(***************************************************************************)
(* Values of Prompt's constants for TLC.                                   *)
(***************************************************************************)
EXTENDS Prompt

\* Plain work, three results at once; a name read; a name written.
SomeBatches ==
    {<<<<"work", "a">>, <<"work", "a">>, <<"work", "a">>>>,
     <<<<"read", "a">>>>, <<<<"write", "b">>>>}

==============================================================================
