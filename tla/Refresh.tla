------------------------------- MODULE Refresh --------------------------------
(***************************************************************************)
(* The refresh of published artifacts (refresh.py), as the refresh tool    *)
(* of the agent calls it, the closure of an artifact (closure.py) and the  *)
(* diff of two of its versions (lineage_diff.py).                          *)
(*                                                                         *)
(* A refresh walks from a snapshot to the snapshots it cites, runs the     *)
(* latest code of the notebooks it meets, reads their variables back from  *)
(* the kernel and publishes.  A notebook may have been edited since: it    *)
(* may load other datasets than the snapshot cites, and fetch or not.      *)
(* Between two awaits of the walk the source may move, and another         *)
(* terminal or the host may publish, restart the kernel or run.            *)
(***************************************************************************)
EXTENDS Naturals, Sequences, FiniteSets, SequencesExt

CONSTANTS
    Datasets, Charts, Reports,
    Uses,              \* the datasets an artifact is made from, or the artifacts
                       \* a report embeds: they are part of its identity
    Notebook,          \* the notebook of a dataset or chart
    Variable,          \* and the variable it is read from
    Initially,         \* the recipe of each notebook at the first publication
    Source,            \* what the connectors fetch
    Data, First,       \* states of the source, and the first
    MaxWalks, MaxEvents,
    None, Refused

Derived == Datasets \cup Charts
Artifacts == Derived \cup Reports
Notebooks == {Notebook[a] : a \in Derived}

\* What a version of a notebook loads by name, and whether it fetches.
Recipe == [loads : SUBSET Datasets, fetches : BOOLEAN]

ASSUME RefreshAssumption ==
    /\ Uses \in [Artifacts -> SUBSET Derived]
    /\ Initially \in [Notebooks -> Recipe]
    /\ \A a \in Derived : Initially[Notebook[a]].loads = Uses[a]
    /\ Variable \in [Derived -> STRING] /\ First \in Data
    /\ Artifacts \cap (Notebooks \cup {Source}) = {} /\ Source \notin Notebooks
    /\ Derived \cap Reports = {}

\* Nothing is published from itself: snapshots cite each other by their contents,
\* which cannot go round in a circle.
ASSUME DerivationAssumption ==
    /\ IsFiniteSet(Artifacts)
    /\ \E rank \in [Artifacts -> 1 .. Cardinality(Artifacts)] :
         \A a \in Artifacts : \A x \in Uses[a] : rank[x] < rank[a]

\* A reference is one version of an artifact, a notebook or the source; a value
\* is what some code computed from some inputs, or what a cell put in its place.
AnyRef == [art : Artifacts \cup Notebooks \cup {Source}, ver : Nat \cup Data]
AnyValue == [code : AnyRef \cup {None}, inputs : SUBSET AnyRef]

ASSUME NoneAssumption ==
    /\ None \notin Data /\ None \notin AnyRef /\ None \notin AnyValue
    /\ None \notin [ref : AnyRef, result : AnyRef, regular : BOOLEAN]

VARIABLES
    world,     \* what the source would answer
    cache,     \* what the connector cache of the kernel answers
    kernel,    \* per variable, the value in the namespace
    recipe,    \* per notebook, the recipes of its snapshots
    log,       \* per artifact, its snapshots
    stack,     \* the refreshes in progress, innermost last
    outcome,   \* of the last walk
    walks, events,
    spoiled,   \* auxiliary: in this walk, a run failed, someone meddled or an
               \* old version came again
    regular,   \* auxiliary: whether it started from a regular lineage
    origin,    \* auxiliary: what the walk started from
    settled    \* auxiliary: the last walk, if nothing has changed since

tree == <<recipe, log>>
vars == <<world, cache, kernel, tree, stack, outcome, walks, events,
          spoiled, regular, origin, settled>>

Ref(x, v) == [art |-> x, ver |-> v]

Latest(a) == Ref(a, Len(log[a]))
Snapshot(r) == log[r.art][r.ver]
Names == {Variable[a] : a \in Derived}

Value(code, inputs) == [code |-> code, inputs |-> inputs]

-----------------------------------------------------------------------------
(***************************************************************************)
(* closure.py and lineage_diff.py.                                         *)
(***************************************************************************)

\* child_refs: notebooks and fetched data are leaves.
Children(r) == IF r.art \in Artifacts THEN Snapshot(r).cites ELSE {}

\* enumerate_closure; a reference leads to snapshots that were there before it.
Closure(r) ==
    LET Reach[n \in 0 .. Cardinality(Artifacts)] ==
          IF n = 0 THEN {r}
          ELSE Reach[n - 1] \cup UNION {Children(x) : x \in Reach[n - 1]}
    IN Reach[Cardinality(Artifacts)]

\* One version of each thing, wherever the closure meets it.
Coherent(r) == \A x, y \in Closure(r) : x.art = y.art => x = y

\* The dictionaries of diff_artifacts: one version of each thing below r, the one
\* that the closure lists last.  The order of the list is left open.
Keyed(r) ==
    LET upstream == {x \in Closure(r) : x.art # r.art}
    IN {kept \in SUBSET upstream :
          \A x \in upstream : \E y \in kept :
             y.art = x.art /\ \A z \in kept : z.art = x.art => z = y}

\* What changed, was added or was dropped, for each way the lists may go.
Diffs(before, after) ==
    {{x.art : x \in (old \ new) \cup (new \ old)} :
        old \in Keyed(before), new \in Keyed(after)}

-----------------------------------------------------------------------------
(***************************************************************************)
(* What a lineage must be like for a refresh to keep its promises.         *)
(***************************************************************************)

LatestRecipe(n) == recipe[n][Len(recipe[n])]
CitesSource(r) == \E x \in Snapshot(r).cites : x.art = Source

\* The notebook of r, as it is now, loads nothing that r does not cite, and still
\* fetches if r cites a fetch.
Follows(r) ==
    LET now == LatestRecipe(Notebook[r.art])
    IN now.loads \subseteq Uses[r.art] /\ (CitesSource(r) => now.fetches)

\* All of a lineage does, and two versions of one artifact in it say the same.
Regular(r) ==
    LET artifacts == {x \in Closure(r) : x.art \in Artifacts}
    IN /\ \A x \in artifacts : x.art \in Derived => Follows(x)
       /\ \A x, y \in artifacts : x.art = y.art => Snapshot(x).words = Snapshot(y).words

-----------------------------------------------------------------------------
\* A snapshot of each artifact, published from the first state of the source,
\* in this kernel or in one before it.
FirstContent(a) ==
    IF a \in Derived
    THEN LET rc == Initially[Notebook[a]]
             inputs == {Ref(x, 1) : x \in rc.loads}
                         \cup IF rc.fetches THEN {Ref(Source, First)} ELSE {}
             code == Ref(Notebook[a], 1)
         IN [words |-> 0, cites |-> inputs \cup {code}, value |-> Value(code, inputs)]
    ELSE [words |-> 0, cites |-> {Ref(x, 1) : x \in Uses[a]}, value |-> None]

Init ==
    /\ world = First
    /\ cache \in {None, First}
    /\ kernel = [n \in Names |-> None]
    /\ recipe = [n \in Notebooks |-> <<Initially[n]>>]
    /\ log = [a \in Artifacts |-> <<FirstContent(a)>>]
    /\ stack = <<>> /\ outcome = None
    /\ walks = 0 /\ events = 0
    /\ spoiled = FALSE /\ regular = TRUE /\ origin = None /\ settled = None

-----------------------------------------------------------------------------
(***************************************************************************)
(* The walk.                                                               *)
(***************************************************************************)

Frame(r) == [ref |-> r, step |-> "read", todo |-> {}, fresh |-> {},
             code |-> None, objects |-> {}, value |-> None]

Top == stack[Len(stack)]
Below == SubSeq(stack, 1, Len(stack) - 1)
Stay(frame) == stack' = Append(Below, frame)
At(step) == stack # <<>> /\ Top.step = step

still == <<world, recipe, walks, events, origin, regular>>

\* The tool resolves the name to the latest version (_resolve_slug_to_latest_ref).
Begin(a) ==
    /\ stack = <<>> /\ walks < MaxWalks
    /\ stack' = <<Frame(Latest(a))>>
    /\ walks' = walks + 1
    /\ origin' = Latest(a)
    /\ outcome' = None
    /\ spoiled' = FALSE /\ regular' = Regular(Latest(a))
    /\ UNCHANGED <<world, cache, kernel, tree, events, settled>>

\* The snapshot is read; its datasets, or the pins of a report, come first.
ReadSnapshot ==
    /\ At("read")
    /\ Stay([Top EXCEPT !.step = "walk",
                        !.todo = {x \in Snapshot(Top.ref).cites : x.art \in Derived}])
    /\ UNCHANGED <<still, cache, kernel, log, outcome, spoiled, settled>>

\* Mutant: a dataset that was refreshed stays to be done.
DescendAgain ==
    /\ At("walk")
    /\ \E x \in Top.todo : stack' = Append(stack, Frame(x))
    /\ UNCHANGED <<still, cache, kernel, log, outcome, spoiled, settled>>

\* Each is refreshed from the version that is cited, whatever became of it.
Descend ==
    /\ At("walk")
    /\ \E x \in Top.todo :
         stack' = Append(Append(Below, [Top EXCEPT !.todo = @ \ {x}]), Frame(x))
    /\ UNCHANGED <<still, cache, kernel, log, outcome, spoiled, settled>>

\* Mutant: a fetch asks the source.
AnswerAnew == world

\* A fetch is answered by the cache as long as the kernel lives.
Answer == IF cache = None THEN world ELSE cache

\* What a notebook computes when it is run now: it loads the latest version of
\* each dataset by name, and fetches through the cache.
Code(n) == Ref(n, Len(recipe[n]))
Fetched(n) == IF LatestRecipe(n).fetches THEN {Ref(Source, Answer)} ELSE {}
Inputs(n) == {Latest(x) : x \in LatestRecipe(n).loads} \cup Fetched(n)

\* It is run, and binds the variables that artifacts are read from.
Execute(n) ==
    /\ cache' = IF LatestRecipe(n).fetches THEN Answer ELSE cache
    /\ kernel' = [v \in Names |->
                    IF \E a \in Derived : Notebook[a] = n /\ Variable[a] = v
                    THEN Value(Code(n), Inputs(n)) ELSE kernel[v]]

\* The latest code is run (_rerun_notebooks); of its lineage, only what it fetched
\* is read from its output.
RunNotebook ==
    LET n == Notebook[Top.ref.art]
    IN /\ At("walk") /\ Top.todo = {} /\ Top.ref.art \in Derived
       /\ Execute(n)
       /\ Stay([Top EXCEPT !.step = "get", !.code = Code(n), !.objects = Fetched(n)])
       /\ UNCHANGED <<still, log, outcome, spoiled, settled>>

\* A cell that raises, before its fetch or after, is not told from one that does
\* not.  It counts among the events.
NotebookRaises ==
    LET n == Notebook[Top.ref.art]
    IN /\ At("walk") /\ Top.todo = {} /\ Top.ref.art \in Derived
       /\ \E objects \in {{}, Fetched(n)} :
            /\ cache' = IF objects = {} THEN cache ELSE Answer
            /\ Stay([Top EXCEPT !.step = "get", !.code = Code(n), !.objects = objects])
       /\ events < MaxEvents /\ events' = events + 1
       /\ spoiled' = TRUE /\ settled' = None
       /\ UNCHANGED <<world, recipe, walks, origin, regular, kernel, log, outcome>>

Refuse ==
    /\ stack' = <<>>
    /\ outcome' = Refused
    /\ settled' = None
    /\ UNCHANGED <<still, cache, kernel, log, spoiled>>

\* executor.get: a variable that is missing ends the whole walk.
GetVariable ==
    /\ At("get")
    /\ LET found == kernel[Variable[Top.ref.art]]
       IN IF found = None THEN Refuse
          ELSE /\ Stay([Top EXCEPT !.step = "persist", !.value = found])
               /\ UNCHANGED <<still, cache, kernel, log, outcome, spoiled, settled>>

\* Mutant: what was cited before is cited again.
SourcesKept(f) == {x \in Snapshot(f.ref).cites : x.art \notin Notebooks}

\* _compose_source_refs: what was fetched or refreshed takes the place of what
\* was cited, and what was not stays.
Sources(f) ==
    LET old == Snapshot(f.ref).cites
        new == f.fresh \cup f.objects
    IN new \cup {x \in old : x.art \notin Notebooks /\ \A y \in new : y.art # x.art}

\* The new snapshot keeps the words of the one that was read.
Rederived(f) ==
    [words |-> Snapshot(f.ref).words,
     cites |-> Sources(f) \cup
                 IF f.ref.art \in Derived THEN {f.code} ELSE {},
     value |-> f.value]

\* Mutant: every publication is a version of its own.
Anew(a, content) == Len(log[a]) + 1

\* persist_artifact: a content that is in the log keeps its version.
Version(a, content) ==
    IF \E i \in DOMAIN log[a] : log[a][i] = content
    THEN CHOOSE i \in DOMAIN log[a] : log[a][i] = content
    ELSE Len(log[a]) + 1

\* Mutant: the reference is returned, the snapshot is not kept.
KeepNothing(a, content) ==
    /\ log' = log
    /\ spoiled' = spoiled

Logged(a, content) ==
    IF Version(a, content) \in DOMAIN log[a] THEN log
    ELSE [log EXCEPT ![a] = Append(@, content)]

Keep(a, content) ==
    /\ log' = Logged(a, content)
    /\ spoiled' = (spoiled \/ Version(a, content) < Len(log[a]))

Finish(r) ==
    /\ outcome' = r
    /\ settled' = IF spoiled' THEN None
                  ELSE [ref |-> origin, result |-> r, regular |-> regular]

\* The caller takes the new reference for the old; a dataset or chart at the
\* root is handed to the tool, which reads it back.
Persist ==
    LET f == Top
        r == Ref(f.ref.art, Version(f.ref.art, Rederived(f)))
    IN /\ \/ At("persist")
          \/ At("walk") /\ f.todo = {} /\ f.ref.art \in Reports
       /\ Keep(f.ref.art, Rederived(f))
       /\ IF Len(stack) > 1
          THEN /\ stack' = [Below EXCEPT ![Len(Below)].fresh =
                              {x \in @ : x.art # r.art} \cup {r}]
               /\ UNCHANGED <<outcome, settled>>
          ELSE IF f.ref.art \in Derived
          THEN Stay([f EXCEPT !.step = "reread", !.ref = r]) /\ UNCHANGED <<outcome, settled>>
          ELSE stack' = <<>> /\ Finish(r)
       /\ UNCHANGED <<still, cache, kernel>>

\* Agent.refresh attaches the variable once more, and the hooks of the turn
\* publish what it returns.
Reread ==
    LET r == Top.ref
        found == kernel[Variable[r.art]]
        content == [Snapshot(r) EXCEPT !.value = found]
    IN /\ At("reread")
       /\ IF found = None THEN Refuse
          ELSE /\ stack' = <<>>
               /\ Keep(r.art, content)
               /\ Finish(Ref(r.art, Version(r.art, content)))
               /\ UNCHANGED <<still, cache, kernel>>

-----------------------------------------------------------------------------
(***************************************************************************)
(* What happens around it.                                                 *)
(***************************************************************************)

Event ==
    /\ events < MaxEvents /\ events' = events + 1
    /\ settled' = None
    /\ UNCHANGED <<stack, outcome, walks, origin, regular>>

Meddle == spoiled' = (spoiled \/ stack # <<>>)

Move ==
    /\ Event
    /\ \E d \in Data \ {world} : world' = d
    /\ UNCHANGED <<cache, kernel, tree, spoiled>>

\* A new version of a notebook is published, with whatever it loads and fetches.
Edit(n, rc) ==
    /\ Event /\ Meddle
    /\ recipe' = [recipe EXCEPT ![n] = Append(@, rc)]
    /\ UNCHANGED <<world, cache, kernel, log>>

\* What a version says beside its lineage (a description, notes, a body): as the
\* latest version does, or anew.
Words(a) == {Last(log[a]).words, events + 1}

\* return_dataset and return_chart: the notebook is run, and what is published
\* cites all that it loaded and fetched.  If that is not what the artifact was
\* made from, it is published as another (dataset_logical_id).
ReturnDerived(a, words) ==
    LET n == Notebook[a]
        content == [words |-> words, cites |-> Inputs(n) \cup {Code(n)},
                    value |-> Value(Code(n), Inputs(n))]
    IN /\ Event /\ Meddle
       /\ Execute(n)
       /\ log' = IF LatestRecipe(n) = Initially[n] THEN Logged(a, content) ELSE log
       /\ UNCHANGED <<world, recipe>>

\* return_report: what the body embeds is pinned at its latest version.  A report
\* that embeds something else is another (report_logical_id).
ReturnReport(r, words) ==
    LET content == [words |-> words, cites |-> {Latest(x) : x \in Uses[r]}, value |-> None]
    IN /\ Event /\ Meddle
       /\ log' = Logged(r, content)
       /\ UNCHANGED <<world, cache, kernel, recipe>>

\* restart_kernel, or another session.
Restart ==
    /\ Event /\ Meddle
    /\ cache' = None
    /\ kernel' = [n \in Names |-> None]
    /\ UNCHANGED <<world, tree>>

\* Another cell binds the variable.
Intrude(n) ==
    /\ Event /\ Meddle
    /\ kernel' = [kernel EXCEPT ![n] = Value(None, {})]
    /\ UNCHANGED <<world, cache, tree>>

Walk ==
    \/ ReadSnapshot \/ Descend \/ RunNotebook \/ NotebookRaises
    \/ GetVariable \/ Persist \/ Reread

Next ==
    \/ \E a \in Artifacts : Begin(a)
    \/ Walk
    \/ Move \/ Restart
    \/ \E n \in Notebooks, rc \in Recipe : Edit(n, rc)
    \/ \E a \in Derived : \E words \in Words(a) : ReturnDerived(a, words)
    \/ \E r \in Reports : \E words \in Words(r) : ReturnReport(r, words)
    \/ \E n \in Names : Intrude(n)

Spec == Init /\ [][Next]_vars /\ WF_vars(Walk)

-----------------------------------------------------------------------------
Refs(x) == IF x \in Artifacts THEN {Ref(x, i) : i \in DOMAIN log[x]}
           ELSE IF x \in Notebooks THEN {Ref(x, i) : i \in DOMAIN recipe[x]}
           ELSE {Ref(Source, d) : d \in Data}
AllRefs == UNION {Refs(x) : x \in Artifacts \cup Notebooks \cup {Source}}

TypeOK ==
    LET refs == AllRefs
        Known(v) == v.code \in refs \cup {None} /\ v.inputs \subseteq refs
    IN /\ world \in Data /\ cache \in Data \cup {None}
       /\ DOMAIN kernel = Names
       /\ \A v \in Names : kernel[v] # None => Known(kernel[v])
       /\ \A a \in Artifacts : \A i \in DOMAIN log[a] :
            LET c == log[a][i] IN c.cites \subseteq refs /\ (c.value # None => Known(c.value))
       /\ \A i \in DOMAIN stack :
            /\ stack[i].ref \in refs
            /\ stack[i].todo \subseteq refs /\ stack[i].fresh \subseteq refs
            /\ stack[i].step \in {"read", "walk", "get", "persist", "reread"}
       /\ outcome \in refs \cup {None, Refused}

-----------------------------------------------------------------------------
(***************************************************************************)
(* What holds of a walk that starts from a regular lineage, in which no    *)
(* run fails, nobody else touches the workspace and no old content comes   *)
(* back.  The documentation promises it of every walk; what an edit that   *)
(* breaks regularity does is in the README.                                *)
(***************************************************************************)

Clean == regular /\ ~spoiled

\* A snapshot cites the code and every version and datum its value came from, and
\* one version of each thing only.
Honest(c) ==
    /\ c.value.inputs \cup {c.value.code} \subseteq c.cites
    /\ \A x, y \in c.cites : x.art = y.art => x = y

\* What a walk publishes is honest, however often it met a dataset, whatever
\* versions it started from, whatever its notebooks have stopped to load, and
\* whatever moved meanwhile (_refresh_dataset, _compose_source_refs).
LineageTellsTheValue ==
    [][stack # <<>> /\ Clean' =>
         \A a \in Derived :
            Len(log'[a]) > Len(log[a]) => Honest(Last(log[a])')]_vars

Ended == stack # <<>> /\ stack' = <<>> /\ outcome' # Refused

\* Whatever the versions an artifact was made from, a refresh leaves it with one
\* version of each thing below it, though the walk refreshes what two of its
\* inputs share once for each of them (_refresh_report, _refresh_chart).
EndsCoherent == [][Ended /\ Clean' => Coherent(outcome)']_vars

\* "Refresh is idempotent": a second one, with nothing changed since, returns
\* the version of the first (docs/concepts/artifacts.md:361).
SameAgain == settled # None /\ settled.ref.art = origin.art => outcome' = settled.result

Idempotent == [][Ended /\ settled # None /\ settled.regular => SameAgain]_vars

\* A version that is new is explained: something below it is not what it was
\* (diff_artifacts, "why a deliverable moved, not just that it did").  What was
\* refreshed must have been honest and coherent for that.
Explained ==
    outcome # origin /\ Coherent(origin)
      /\ (origin.art \in Derived => Honest(Snapshot(origin)))
    => {} \notin Diffs(origin, outcome)

DiffExplains == [][Ended /\ Clean' => Explained']_vars

\* Every walk ends, whatever is published, edited or lost while it goes down: what
\* it has still to refresh is cited by snapshots that do not change (_refresh).
RefreshEnds == stack # <<>> ~> stack = <<>>

==============================================================================
