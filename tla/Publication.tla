----------------------------- MODULE Publication ------------------------------
(***************************************************************************)
(* The tools that publish: return_notebook, edit_notebook, return_dataset  *)
(* (a chart goes the same way), return_report and edit_report              *)
(* (agent/agent.py), and the persistence of what they return, in the third *)
(* stage of a batch (agent/workspace_hooks.py, dispatch_tools).            *)
(*                                                                         *)
(* A batch is run first, call by call, and written down afterwards, call   *)
(* by call.  What a call saw of the tree when it ran need not be there     *)
(* when it is written: its neighbours are written between, and another     *)
(* terminal publishes into the same tree.  A call that is refused changes  *)
(* nothing and is left out.                                                *)
(***************************************************************************)
EXTENDS Naturals, Sequences, FiniteSets, SequencesExt, Functions

CONSTANTS
    Notebooks,      \* the slugs of notebooks; each binds the one variable
    Parts, Texts,   \* a script holds a text in each of its parts
    Drafts,         \* the scripts that are written whole; others come by edits
    LiveNames,      \* of datasets and reports
    Titles,         \* of reports
    Hosted,         \* whether the host bound a notebook_logical_id_resolver
    MaxBatches, MaxCalls, MaxScripts, MaxOthers,
    None

Scripts == [Parts -> Texts]
Codes == [nb : Notebooks, script : Scripts]

ASSUME PublicationAssumption ==
    /\ Drafts \subseteq Scripts /\ Hosted \in BOOLEAN
    /\ None \notin LiveNames \cup Parts \cup Codes

\* report_logical_id: what is embedded when it is first published, and the title.
ReportIds == [over : SUBSET Notebooks, title : Titles]

VARIABLES
    notebooks,  \* per notebook, its log
    datasets,   \* per notebook that makes it (dataset_logical_id), its log
    reports,    \* per report, its log
    named,      \* the live names of datasets and of reports (curation.json)
    theirs,     \* the notebooks that another terminal published first
    value,      \* the variable in the kernel: the notebook and the script it is of
    origin,     \* the notebook that the ledger names for it (OriginLedger)
    results,    \* of the batch, as its calls returned, that are not written yet
    writing,    \* the batch has run
    seen,       \* the artifacts that the conversation names
    minted,     \* those that this batch wrote
    batches, scripts, others,
    maker,      \* auxiliary: which of the results made the value, or 0
    slips,      \* auxiliary: why the log may not end with the script of the value
    published,  \* auxiliary: the last dataset of the batch, and the slips then
    written     \* auxiliary: its last script, as it was run and as it was written

tree == <<notebooks, datasets, reports, named, theirs>>
kernel == <<value, origin, maker, slips>>
turn == <<results, writing, seen, minted, batches, scripts>>
ghosts == <<published, written>>
vars == <<tree, kernel, turn, ghosts, others>>

Code(nb, script) == [nb |-> nb, script |-> script]

\* read_latest_notebook: the script that the log of the notebook ends with.
Latest(nb) == Last(notebooks[nb])

Init ==
    /\ notebooks = [nb \in Notebooks |-> <<>>]
    /\ datasets = [nb \in Notebooks |-> <<>>]
    /\ reports = [r \in ReportIds |-> <<>>]
    /\ named = [dataset |-> [nb \in Notebooks |-> None],
                report |-> [r \in ReportIds |-> None]]
    /\ theirs = {}
    /\ value = None /\ origin = None /\ maker = 0 /\ slips = {}
    /\ results = <<>> /\ writing = FALSE /\ seen = {} /\ minted = {}
    /\ batches = 0 /\ scripts = 0 /\ others = 0
    /\ published = None /\ written = None

-----------------------------------------------------------------------------
(***************************************************************************)
(* Running a batch.                                                        *)
(***************************************************************************)

Running == ~writing /\ Len(results) < MaxCalls /\ batches < MaxBatches
Return(result) == results' = Append(results, result)
Next1 == Len(results) + 1

\* The resolver of the host refuses the name of a notebook that another terminal
\* published and this conversation has not read.
Collides(nb) == Hosted /\ nb \in theirs /\ <<"notebook", nb>> \notin seen

\* The kernel runs a script for a notebook.  Only a run without an exception
\* stamps the origin of what it bound.
RunCell(nb, script) ==
    \/ /\ value' = Code(nb, script) /\ origin' = nb
       /\ maker' = Next1 /\ slips' = {"unwritten"}
    \/ /\ value' = Code(nb, script) /\ origin' = origin
       /\ maker' = 0 /\ slips' = {"raised"}
    \/ UNCHANGED kernel

NotebookResult(tool, nb, script, part) ==
    [tool |-> tool, nb |-> nb, ran |-> script, part |-> part,
     old |-> IF part = None THEN None ELSE Latest(nb)[part],
     base |-> Len(notebooks[nb])]

PublishScript(tool, nb, script, part) ==
    /\ Running /\ ~Collides(nb)
    /\ scripts < MaxScripts /\ scripts' = scripts + 1
    /\ Return(NotebookResult(tool, nb, script, part))
    /\ UNCHANGED <<tree, writing, seen, minted, batches, ghosts, others>>

\* With execute=False the script is written at the end of the batch, not run.
ReturnNotebook(nb, script) ==
    /\ PublishScript("return_notebook", nb, script, None)
    /\ RunCell(nb, script) \/ UNCHANGED kernel

\* The edit is of the latest snapshot in the tree.
EditNotebook(nb, part, text) ==
    LET script == [Latest(nb) EXCEPT ![part] = text]
    IN /\ notebooks[nb] # <<>>
       /\ Latest(nb)[part] # text
       /\ PublishScript("edit_notebook", nb, script, part)
       /\ RunCell(nb, script) \/ UNCHANGED kernel

\* The run times out or is cancelled: it may have bound the variable, and
\* nothing of it is written.
RunInterrupted(nb, script) ==
    /\ Running /\ ~Collides(nb) /\ Code(nb, script) # value
    /\ value' = Code(nb, script) /\ maker' = 0 /\ slips' = {"raised"}
    /\ UNCHANGED <<tree, origin, turn, ghosts, others>>

\* Mutant: the script that the log begins with is cited.
CitedFirst == Code(origin, Head(notebooks[origin]))

\* _notebook_ref_for_published_path: the latest version of the notebook that the
\* ledger names, which must be published.
Cited == Code(origin, Latest(origin))

ReturnDataset(name) ==
    /\ Running
    /\ value # None /\ origin # None /\ ~Collides(origin)
    /\ notebooks[origin] # <<>>
    /\ Return([tool |-> "return_dataset", id |-> origin, name |-> name,
               content |-> [value |-> value, cites |-> Cited], slips |-> slips])
    /\ UNCHANGED <<tree, kernel, writing, seen, minted, batches, scripts, ghosts, others>>

\* The datasets that a live name may stand for (_resolve_live_name_to_latest_ref
\* takes the first that the listing of the tree holds).
Named(name) == {d \in Notebooks : datasets[d] # <<>> /\ named.dataset[d] = name}

Pin(d) == [id |-> d, version |-> Len(datasets[d])]

ReportResult(id, name, embeds, pins) ==
    [tool |-> "return_report", id |-> id, name |-> name,
     content |-> [embeds |-> embeds, pins |-> pins]]

\* Each embedded name is pinned to what it stands for now.
ReturnReport(name, title, embeds) ==
    /\ Running
    /\ \A n \in embeds : Named(n) # {}
    /\ \E choice \in [embeds -> Notebooks] :
         /\ \A n \in embeds : choice[n] \in Named(n)
         /\ Return(ReportResult([over |-> Range(choice), title |-> title],
                                name, embeds, [n \in embeds |-> Pin(choice[n])]))
    /\ UNCHANGED <<tree, kernel, writing, seen, minted, batches, scripts, ghosts, others>>

\* Mutant: what the edit embeds is not looked up in the pins.
AnyEmbeds(pins) == SUBSET LiveNames

\* The body may embed what is pinned (embedded_refs_from_markdown).
Embeddable(pins) == SUBSET DOMAIN pins

\* The one report of that name, which the conversation must name; its body is
\* changed and its pins are kept.
EditReport(name, embeds) ==
    LET found == {r \in ReportIds : named.report[r] = name}
    IN /\ Running
       /\ Cardinality(found) = 1 /\ <<"report", name>> \in seen
       /\ LET id == CHOOSE r \in found : TRUE
              old == Last(reports[id])
          IN /\ embeds \in Embeddable(old.pins) /\ embeds # old.embeds
             /\ Return(ReportResult(id, name, embeds, old.pins))
       /\ UNCHANGED <<tree, kernel, writing, seen, minted, batches, scripts, ghosts, others>>

ReadArtifact(kind, name) ==
    /\ Running /\ <<kind, name>> \notin seen
    /\ \/ kind = "notebook" /\ name \in Notebooks /\ notebooks[name] # <<>>
       \/ kind = "report" /\ \E r \in ReportIds : named.report[r] = name
    /\ Return([tool |-> "read_artifact", shows |-> <<kind, name>>])
    /\ UNCHANGED <<tree, kernel, writing, seen, minted, batches, scripts, ghosts, others>>

\* Mutant: the ledger outlives the namespace.
RestartKeepsLedger ==
    /\ Running /\ value # None
    /\ value' = None /\ maker' = 0 /\ slips' = {}
    /\ UNCHANGED <<tree, origin, turn, ghosts, others>>

RestartKernel ==
    /\ Running /\ value # None
    /\ value' = None /\ origin' = None /\ maker' = 0 /\ slips' = {}
    /\ UNCHANGED <<tree, turn, ghosts, others>>

-----------------------------------------------------------------------------
(***************************************************************************)
(* Writing it down.                                                        *)
(***************************************************************************)

CloseBatch ==
    /\ ~writing /\ results # <<>>
    /\ writing' = TRUE
    /\ UNCHANGED <<tree, kernel, results, seen, minted, batches, scripts, ghosts, others>>

This == Head(results)

Writing(tools) ==
    /\ writing /\ results # <<>> /\ This.tool \in tools
    /\ results' = Tail(results) /\ writing' = writing
    /\ maker' = IF maker = 0 THEN 0 ELSE maker - 1

\* persist_artifact and persist_notebook: a content that is in the log is not
\* added again.
Logged(log, content) ==
    IF content \in Range(log) THEN log ELSE Append(log, content)

\* str.replace: a text that is not found is not replaced.
Replaced(script, r) ==
    IF script[r.part] = r.old THEN [script EXCEPT ![r.part] = r.ran[r.part]]
    ELSE script

\* Mutant: the edit is made on the script that was written first.
ReappliedToFirst(r) ==
    IF r.tool = "return_notebook" THEN r.ran ELSE Replaced(Head(notebooks[r.nb]), r)

\* _notebook_script_after_tool: an edit is made once more, on what is the latest
\* snapshot by now.
ScriptAfterTool(r) ==
    IF r.tool = "return_notebook" THEN r.ran ELSE Replaced(Latest(r.nb), r)

\* What the writing of a script does to the trust in the citation of the value.
SlipsAfter(r, script, log) ==
    LET lastNow == script \notin Range(log) \/ Last(log) = script
    IN IF maker = 1
       THEN IF script = r.ran /\ lastNow THEN {} ELSE {"shadowed"}
       ELSE IF r.nb = origin /\ script \notin Range(log)
       THEN slips \cup {"republished"} ELSE slips

\* A notebook that collides by now is written into the other terminal's log
\* (except LiveNameCollisionError).
WriteNotebook ==
    LET r == This
        script == ScriptAfterTool(r)
    IN /\ Writing({"return_notebook", "edit_notebook"})
       /\ notebooks' = [notebooks EXCEPT ![r.nb] = Logged(@, script)]
       /\ slips' = SlipsAfter(r, script, notebooks[r.nb])
       /\ minted' = minted \cup {<<"notebook", r.nb>>}
       /\ written' = [tool |-> r.tool, ran |-> r.ran, script |-> script,
                      alone |-> Len(notebooks[r.nb]) = r.base]
       /\ UNCHANGED <<datasets, reports, named, theirs, value, origin,
                      seen, batches, scripts, published, others>>

WriteDataset ==
    LET r == This
    IN /\ Writing({"return_dataset"})
       /\ datasets' = [datasets EXCEPT ![r.id] = Logged(@, r.content)]
       /\ named' = [named EXCEPT !.dataset[r.id] = r.name]
       /\ minted' = minted \cup {<<"dataset", r.name>>}
       /\ published' = [content |-> r.content, slips |-> r.slips]
       /\ UNCHANGED <<notebooks, reports, theirs, value, origin, slips,
                      seen, batches, scripts, written, others>>

WriteReport ==
    LET r == This
    IN /\ Writing({"return_report"})
       /\ reports' = [reports EXCEPT ![r.id] = Logged(@, r.content)]
       /\ named' = [named EXCEPT !.report[r.id] = r.name]
       /\ minted' = minted \cup {<<"report", r.name>>}
       /\ UNCHANGED <<notebooks, datasets, theirs, value, origin, slips,
                      seen, batches, scripts, ghosts, others>>

\* The disk, or the validator of the host, refuses: the model is told, and
\* nothing is written.
WriteFails ==
    /\ Writing({"return_notebook", "edit_notebook", "return_dataset", "return_report"})
    /\ UNCHANGED <<tree, value, origin, slips, seen, minted, batches, scripts, ghosts, others>>

ShowArtifact ==
    /\ Writing({"read_artifact"})
    /\ seen' = seen \cup {This.shows}
    /\ UNCHANGED <<tree, value, origin, slips, minted, batches, scripts, ghosts, others>>

\* The next iteration lists what this one wrote (<turn_artifacts>).
NextIteration ==
    /\ writing /\ results = <<>>
    /\ writing' = FALSE
    /\ seen' = seen \cup minted /\ minted' = {}
    /\ batches' = batches + 1
    /\ published' = None /\ written' = None
    /\ UNCHANGED <<tree, kernel, results, scripts, others>>

-----------------------------------------------------------------------------
(***************************************************************************)
(* Another terminal of the workspace.                                      *)
(***************************************************************************)

OtherNotebook(nb, script) ==
    /\ others < MaxOthers /\ others' = others + 1
    /\ script \notin Range(notebooks[nb])
    /\ notebooks' = [notebooks EXCEPT ![nb] = Append(@, script)]
    /\ theirs' = IF notebooks[nb] = <<>> THEN theirs \cup {nb} ELSE theirs
    /\ slips' = IF nb = origin THEN slips \cup {"republished"} ELSE slips
    /\ UNCHANGED <<datasets, reports, named, value, origin, maker, turn, ghosts>>

OtherDataset(nb, name) ==
    /\ others < MaxOthers /\ others' = others + 1
    /\ notebooks[nb] # <<>>
    /\ LET code == Code(nb, Latest(nb))
       IN datasets' = [datasets EXCEPT
                         ![nb] = Logged(@, [value |-> code, cites |-> code])]
    /\ named' = [named EXCEPT !.dataset[nb] = name]
    /\ UNCHANGED <<notebooks, reports, theirs, kernel, turn, ghosts>>

Call ==
    \/ \E nb \in Notebooks, script \in Drafts :
         ReturnNotebook(nb, script) \/ RunInterrupted(nb, script)
    \/ \E nb \in Notebooks, part \in Parts, text \in Texts : EditNotebook(nb, part, text)
    \/ \E name \in LiveNames : ReturnDataset(name)
    \/ \E name \in LiveNames, title \in Titles, embeds \in SUBSET LiveNames :
         ReturnReport(name, title, embeds)
    \/ \E name \in LiveNames, embeds \in SUBSET LiveNames : EditReport(name, embeds)
    \/ \E kind \in {"notebook", "report"}, name \in Notebooks \cup LiveNames :
         ReadArtifact(kind, name)
    \/ RestartKernel

Write == WriteNotebook \/ WriteDataset \/ WriteReport \/ WriteFails \/ ShowArtifact

Next ==
    \/ Call
    \/ CloseBatch \/ Write \/ NextIteration
    \/ \E nb \in Notebooks, script \in Drafts : OtherNotebook(nb, script)
    \/ \E nb \in Notebooks, name \in LiveNames : OtherDataset(nb, name)

Spec == Init /\ [][Next]_vars

-----------------------------------------------------------------------------
TypeOK ==
    /\ \A nb \in Notebooks :
         /\ Range(notebooks[nb]) \subseteq Scripts
         /\ Range(datasets[nb]) \subseteq [value : Codes, cites : Codes]
         /\ datasets[nb] # <<>> <=> named.dataset[nb] # None
    /\ \A r \in ReportIds : reports[r] # <<>> <=> named.report[r] # None
    /\ value \in Codes \cup {None} /\ origin \in Notebooks \cup {None}
    /\ origin # None => value # None
    /\ maker \in 0 .. Len(results)
    /\ slips \subseteq {"unwritten", "raised", "shadowed", "republished"}

\* What is written for a call is the script that it ran, unless it is an edit
\* and something was written to its notebook between (return_notebook,
\* edit_notebook, _notebook_script_after_tool).
WrittenAsRun ==
    written # None /\ (written.tool = "return_notebook" \/ written.alone)
        => written.script = written.ran

\* A dataset cites the script that computed it, unless the run did not end well,
\* is not written yet, was written to the log before, or was followed by another
\* version of its notebook (return_dataset, _lineage_for_variable).
CitesItsCode ==
    published # None /\ published.slips = {}
        => published.content.cites = published.content.value

\* Whatever a version of a report embeds, it pins to a version that is in the
\* tree, also after edits (return_report, edit_report, _build_report_pin_map).
EmbedsResolve ==
    \A r \in ReportIds : \A content \in Range(reports[r]) :
        \A n \in content.embeds :
            /\ n \in DOMAIN content.pins
            /\ content.pins[n].version \in DOMAIN datasets[content.pins[n].id]

\* "Within a single turn no other writes can have happened, so this reproduces
\* what the tool method itself executed" (_notebook_script_after_tool).
EditWrittenAsRun == written # None => written.script = written.ran
==============================================================================
