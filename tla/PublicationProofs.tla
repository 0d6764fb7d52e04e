--------------------------- MODULE PublicationProofs ---------------------------
(***************************************************************************)
(* Publication for any notebooks, scripts, names and lengths of a batch:   *)
(* what a call saw of the tree when it ran is carried in its result, and   *)
(* the logs of the tree only grow; so what its writing finds is what it    *)
(* saw, or the ghosts say what came between.                               *)
(***************************************************************************)
EXTENDS Publication, SequenceTheorems, FiniteSetTheorems, TLAPS

Slips == {"unwritten", "raised", "shadowed", "republished"}
Contents == [value : Codes, cites : Codes]

\* What a report says: the names it embeds, and the versions it pins.
Pinned == [id : Notebooks, version : Nat]
Pages == [embeds : SUBSET LiveNames,
          pins : UNION {[names -> Pinned] : names \in SUBSET LiveNames}]

NotebookResults ==
    [tool : {"return_notebook", "edit_notebook"}, nb : Notebooks, ran : Scripts,
     part : Parts \cup {None}, old : Texts \cup {None}, base : Nat]
DatasetResults ==
    [tool : {"return_dataset"}, id : Notebooks, name : LiveNames,
     content : Contents, slips : SUBSET Slips]
ReportResults ==
    [tool : {"return_report"}, id : ReportIds, name : LiveNames, content : Pages]
ReadResults ==
    [tool : {"read_artifact"},
     shows : {"notebook", "report"} \X (Notebooks \cup LiveNames)]
Result == NotebookResults \cup DatasetResults \cup ReportResults \cup ReadResults

Types ==
    /\ notebooks \in [Notebooks -> Seq(Scripts)]
    /\ datasets \in [Notebooks -> Seq(Contents)]
    /\ reports \in [ReportIds -> Seq(Pages)]
    /\ named \in [dataset : [Notebooks -> LiveNames \cup {None}],
                  report : [ReportIds -> LiveNames \cup {None}]]
    /\ value \in Codes \cup {None} /\ origin \in Notebooks \cup {None}
    /\ slips \subseteq Slips
    /\ results \in Seq(Result) /\ maker \in 0 .. Len(results)

\* What has a version has a live name.
NamedInv ==
    /\ \A nb \in Notebooks : datasets[nb] # <<>> <=> named.dataset[nb] # None
    /\ \A r \in ReportIds : reports[r] # <<>> <=> named.report[r] # None

\* The pins of a page are of versions that are in the tree.
Resolves(page) ==
    /\ page.embeds \subseteq DOMAIN page.pins
    /\ \A n \in DOMAIN page.pins :
         page.pins[n].version \in 1 .. Len(datasets[page.pins[n].id])

PagesResolve ==
    \A id \in ReportIds : \A i \in 1 .. Len(reports[id]) : Resolves(reports[id][i])

\* What a result that waits to be written still says of the tree.
Edited(r) ==
    LET before == notebooks[r.nb][r.base]
    IN /\ r.base \in 1 .. Len(notebooks[r.nb]) /\ r.part \in Parts
       /\ r.old = before[r.part]
       /\ r.ran = [before EXCEPT ![r.part] = r.ran[r.part]]

Holds(r) ==
    /\ r.tool = "edit_notebook" => Edited(r)
    /\ r.tool = "return_dataset" /\ r.slips = {} => r.content.cites = r.content.value
    /\ r.tool = "return_report" => Resolves(r.content)

ResultsHold == \A i \in 1 .. Len(results) : Holds(results[i])

\* The kernel: the value was made by a result that waits, or by one that was
\* written, or the ghosts tell that it may have been made otherwise.
KernelInv ==
    /\ origin # None => value # None
    /\ maker > 0 =>
         /\ results[maker] \in NotebookResults
         /\ value = Code(results[maker].nb, results[maker].ran)
         /\ origin = results[maker].nb
    /\ slips = {} /\ origin # None => notebooks[origin] # <<>> /\ value = Cited

IInv ==
    /\ Types /\ NamedInv /\ KernelInv /\ ResultsHold /\ PagesResolve
    /\ WrittenAsRun /\ CitesItsCode

-----------------------------------------------------------------------------
(***************************************************************************)
(* Logs grow, and what was read off them stays.                            *)
(***************************************************************************)

\* A log keeps its lines; what is new in it is what was logged.
LEMMA LoggedGrows ==
    ASSUME NEW S, NEW log \in Seq(S), NEW content \in S
    PROVE  /\ Logged(log, content) \in Seq(S) /\ Logged(log, content) # <<>>
           /\ Len(log) <= Len(Logged(log, content))
           /\ \A i \in 1 .. Len(log) : Logged(log, content)[i] = log[i]
           /\ \A i \in 1 .. Len(Logged(log, content)) :
                Logged(log, content)[i] = content \/ i \in 1 .. Len(log)
<1>1. CASE content \in Range(log)
  <2>1. Logged(log, content) = log /\ log # <<>>
    BY <1>1 DEF Logged, Range
  <2> QED
    BY <2>1
<1>2. CASE content \notin Range(log)
  <2>1. Logged(log, content) = Append(log, content)
    BY <1>2 DEF Logged
  <2> QED
    BY <2>1, AppendProperties
<1> QED
  BY <1>1, <1>2

Grown(f, g) ==
    \A nb \in Notebooks : /\ Len(f[nb]) <= Len(g[nb])
                          /\ \A i \in 1 .. Len(f[nb]) : g[nb][i] = f[nb][i]

\* One log of several is written to.
LEMMA OneLogGrows ==
    ASSUME NEW D, NEW S, NEW f \in [D -> Seq(S)], NEW d \in D, NEW content \in S,
           NEW g, g = [f EXCEPT ![d] = Logged(f[d], content)]
    PROVE  /\ g \in [D -> Seq(S)] /\ g[d] = Logged(f[d], content) /\ g[d] # <<>>
           /\ \A x \in D \ {d} : g[x] = f[x]
           /\ \A x \in D : /\ Len(f[x]) <= Len(g[x])
                           /\ \A i \in 1 .. Len(f[x]) : g[x][i] = f[x][i]
                           /\ \A i \in 1 .. Len(g[x]) :
                                (x = d /\ g[x][i] = content) \/ i \in 1 .. Len(f[x])
<1> DEFINE new == Logged(f[d], content)
<1>1. /\ new \in Seq(S) /\ new # <<>> /\ Len(f[d]) <= Len(new)
      /\ \A i \in 1 .. Len(f[d]) : new[i] = f[d][i]
      /\ \A i \in 1 .. Len(new) : new[i] = content \/ i \in 1 .. Len(f[d])
  <2>1. PICK log \in Seq(S) : log = f[d]
    OBVIOUS
  <2>2. /\ Logged(log, content) \in Seq(S) /\ Logged(log, content) # <<>>
        /\ Len(log) <= Len(Logged(log, content))
        /\ \A i \in 1 .. Len(log) : Logged(log, content)[i] = log[i]
        /\ \A i \in 1 .. Len(Logged(log, content)) :
             Logged(log, content)[i] = content \/ i \in 1 .. Len(log)
    BY LoggedGrows
  <2> QED
    BY <2>1, <2>2
<1> HIDE DEF new
<1>2. g = [f EXCEPT ![d] = new]
  BY DEF new
<1>3. g \in [D -> Seq(S)] /\ g[d] = new /\ \A x \in D \ {d} : g[x] = f[x]
  BY <1>1, <1>2
<1>4. ASSUME NEW x \in D
      PROVE  /\ Len(f[x]) <= Len(g[x])
             /\ \A i \in 1 .. Len(f[x]) : g[x][i] = f[x][i]
             /\ \A i \in 1 .. Len(g[x]) :
                  (x = d /\ g[x][i] = content) \/ i \in 1 .. Len(f[x])
  <2>1. CASE x = d
    BY <1>1, <1>3, <2>1
  <2>2. CASE x # d
    <3>1. g[x] = f[x] /\ f[x] \in Seq(S)
      BY <1>3, <2>2
    <3> QED
      BY <3>1
  <2> QED
    BY <2>1, <2>2
<1> QED
  BY <1>1, <1>3, <1>4 DEF new

\* What a page of a report embeds stays in the tree.
LEMMA PageStays ==
    ASSUME datasets \in [Notebooks -> Seq(Contents)],
           datasets' \in [Notebooks -> Seq(Contents)],
           Grown(datasets, datasets'), NEW page \in Pages, Resolves(page)
    PROVE  Resolves(page)'
<1>1. ASSUME NEW n \in DOMAIN page.pins
      PROVE  page.pins[n].version \in 1 .. Len(datasets'[page.pins[n].id])
  <2>1. page.pins[n] \in Pinned
    BY DEF Pages
  <2>2. /\ page.pins[n].id \in Notebooks
        /\ page.pins[n].version \in 1 .. Len(datasets[page.pins[n].id])
    BY <2>1 DEF Pinned, Resolves
  <2> QED
    BY <2>2 DEF Grown
<1> QED
  BY <1>1 DEF Resolves

\* What a result that waits says of the tree stays true as the tree grows.
LEMMA HoldsStays ==
    ASSUME Types, notebooks' \in [Notebooks -> Seq(Scripts)],
           datasets' \in [Notebooks -> Seq(Contents)],
           Grown(notebooks, notebooks'), Grown(datasets, datasets'),
           NEW r \in Result, Holds(r)
    PROVE  Holds(r)'
<1>1. CASE r.tool = "edit_notebook"
  <2>1. r.nb \in Notebooks /\ r.base \in Nat
    BY <1>1 DEF Result, NotebookResults, DatasetResults, ReportResults, ReadResults
  <2>2. Edited(r) /\ notebooks[r.nb] \in Seq(Scripts) /\ notebooks'[r.nb] \in Seq(Scripts)
    BY <1>1, <2>1 DEF Holds, Types
  <2>3. r.base \in 1 .. Len(notebooks'[r.nb]) /\ notebooks'[r.nb][r.base] = notebooks[r.nb][r.base]
    BY <2>1, <2>2 DEF Edited, Grown
  <2> QED
    BY <1>1, <2>2, <2>3 DEF Holds, Edited
<1>2. CASE r.tool = "return_report"
  <2>1. r.content \in Pages
    BY <1>2 DEF Result, NotebookResults, DatasetResults, ReportResults, ReadResults
  <2>2. Resolves(r.content)'
    BY <1>2, <2>1, PageStays DEF Holds, Types
  <2> QED
    BY <1>2, <2>2 DEF Holds
<1>3. CASE r.tool \notin {"edit_notebook", "return_report"}
  BY <1>3 DEF Holds
<1> QED
  BY <1>1, <1>2, <1>3

\* The versions of the reports, when the logs grow.
LEMMA PagesStay ==
    ASSUME IInv, reports' = reports, datasets' \in [Notebooks -> Seq(Contents)],
           Grown(datasets, datasets')
    PROVE  PagesResolve'
<1> SUFFICES ASSUME NEW id \in ReportIds, NEW i \in 1 .. Len(reports[id])
             PROVE  Resolves(reports[id][i])'
  BY DEF PagesResolve
<1>1. PICK page \in Pages : page = reports[id][i] /\ Resolves(page)
  BY DEF IInv, Types, PagesResolve
<1>2. Resolves(page)'
  BY <1>1, PageStays DEF IInv, Types
<1> QED
  BY <1>1, <1>2

-----------------------------------------------------------------------------
(***************************************************************************)
(* Running a batch.                                                        *)
(***************************************************************************)

\* Nothing has been written or run.
LEMMA InitIInv == Init => IInv
<1> SUFFICES ASSUME Init PROVE IInv
  OBVIOUS
<1>1. Types /\ NamedInv
  BY DEF Init, Types, NamedInv
<1>2. KernelInv /\ PagesResolve /\ WrittenAsRun /\ CitesItsCode
  BY DEF Init, KernelInv, PagesResolve, WrittenAsRun, CitesItsCode
<1>3. ResultsHold
  BY DEF Init, ResultsHold
<1> QED
  BY <1>1, <1>2, <1>3 DEF IInv

\* A tree that is left alone has grown.
LEMMA NothingGrows ==
    ASSUME Types
    PROVE  Grown(notebooks, notebooks) /\ Grown(datasets, datasets)
  BY DEF Types, Grown

\* A result is added to those that wait.
LEMMA ReturnKeeps ==
    ASSUME IInv, NEW r \in Result, Holds(r), results' = Append(results, r),
           value' \in Codes \cup {None}, origin' \in Notebooks \cup {None},
           slips' \subseteq Slips, maker' \in 0 .. Len(results) + 1, KernelInv',
           UNCHANGED <<tree, ghosts>>
    PROVE  IInv'
<1>1. /\ Types /\ results \in Seq(Result)
      /\ UNCHANGED <<notebooks, datasets, reports, named, published, written>>
  BY DEF IInv, Types, tree, ghosts
<1>2. /\ results' \in Seq(Result) /\ Len(results') = Len(results) + 1
      /\ \A i \in 1 .. Len(results) : results'[i] = results[i]
      /\ results'[Len(results) + 1] = r
  BY <1>1, AppendProperties
<1>3. Types' /\ NamedInv'
  BY <1>1, <1>2 DEF IInv, Types, NamedInv
<1>4. Grown(notebooks, notebooks') /\ Grown(datasets, datasets')
  BY <1>1, NothingGrows
<1>5. ASSUME NEW i \in 1 .. Len(results') PROVE Holds(results[i])'
  <2>1. PICK x \in Result : x = results'[i] /\ Holds(x)
    <3>1. CASE i \in 1 .. Len(results)
      BY <1>1, <1>2, <3>1 DEF IInv, ResultsHold
    <3>2. CASE i = Len(results) + 1
      BY <1>2, <3>2
    <3> QED
      BY <1>1, <1>2, <3>1, <3>2
  <2>2. Holds(x)'
    BY <1>3, <1>4, <2>1, HoldsStays DEF IInv, Types
  <2> QED
    BY <2>1, <2>2
<1>6. PagesResolve' /\ WrittenAsRun' /\ CitesItsCode'
  BY <1>1, <1>3, <1>4, PagesStay DEF IInv, Types, WrittenAsRun, CitesItsCode
<1> QED
  BY <1>3, <1>5, <1>6 DEF IInv, ResultsHold

\* The result is of a call that does not touch the kernel.
LEMMA QuietReturnKeeps ==
    ASSUME IInv, NEW r \in Result, Holds(r), results' = Append(results, r),
           UNCHANGED <<tree, kernel, ghosts>>
    PROVE  IInv'
<1>1. /\ UNCHANGED <<notebooks, value, origin, maker, slips>>
      /\ results \in Seq(Result) /\ maker \in 0 .. Len(results)
  BY DEF IInv, Types, tree, kernel
<1>2. \A i \in 1 .. Len(results) : results'[i] = results[i]
  BY <1>1, AppendProperties
<1>3. KernelInv'
  BY <1>1, <1>2 DEF IInv, KernelInv, Cited, Latest, Code
<1> QED
  BY <1>1, <1>3, ReturnKeeps DEF IInv, Types

\* A script that a kernel may have run.
LEMMA ScriptKeeps ==
    ASSUME IInv, NEW nb \in Notebooks, NEW script \in Scripts,
           NEW r \in NotebookResults, r.nb = nb, r.ran = script, Holds(r),
           results' = Append(results, r), RunCell(nb, script) \/ UNCHANGED kernel,
           UNCHANGED <<tree, ghosts>>
    PROVE  IInv'
<1>1. /\ r \in Result /\ results \in Seq(Result) /\ Code(nb, script) \in Codes
      /\ Code(nb, script) # None /\ maker \in 0 .. Len(results)
  BY PublicationAssumption DEF IInv, Types, Result, Code, Codes
<1>2. results'[Len(results) + 1] = r
  BY <1>1, AppendProperties
<1>3. CASE UNCHANGED kernel
  BY <1>1, <1>3, QuietReturnKeeps
<1>4. CASE /\ value' = Code(nb, script) /\ origin' = nb
           /\ maker' = Next1 /\ slips' = {"unwritten"}
  <2>1. maker' = Len(results) + 1 /\ Len(results) \in Nat
    BY <1>1, <1>4 DEF Next1
  <2>2. KernelInv'
    BY <1>1, <1>2, <1>4, <2>1 DEF KernelInv
  <2> QED
    BY <1>1, <1>4, <2>1, <2>2, ReturnKeeps DEF Slips
<1>5. CASE /\ value' = Code(nb, script) /\ origin' = origin
           /\ maker' = 0 /\ slips' = {"raised"}
  <2>1. KernelInv'
    BY <1>1, <1>5 DEF KernelInv
  <2> QED
    BY <1>1, <1>5, <2>1, ReturnKeeps DEF Slips, IInv, Types
<1> QED
  BY <1>3, <1>4, <1>5 DEF RunCell, kernel

\* A notebook is run and waits to be written.
LEMMA ReturnNotebookKeeps ==
    ASSUME IInv, NEW nb \in Notebooks, NEW script \in Scripts, ReturnNotebook(nb, script)
    PROVE  IInv'
<1> DEFINE r == NotebookResult("return_notebook", nb, script, None)
<1>1. notebooks[nb] \in Seq(Scripts)
  BY DEF IInv, Types
<1>2. r \in NotebookResults /\ r.nb = nb /\ r.ran = script /\ r.tool = "return_notebook"
  BY <1>1 DEF NotebookResult, NotebookResults
<1>3. Holds(r)
  BY <1>2 DEF Holds
<1>4. /\ results' = Append(results, r) /\ UNCHANGED <<tree, ghosts>>
      /\ RunCell(nb, script) \/ UNCHANGED kernel
  BY DEF ReturnNotebook, PublishScript, Return
<1> HIDE DEF r
<1> QED
  BY <1>2, <1>3, <1>4, ScriptKeeps

\* An edit of the latest version is run and waits to be written.
LEMMA EditNotebookKeeps ==
    ASSUME IInv, NEW nb \in Notebooks, NEW part \in Parts, NEW text \in Texts,
           EditNotebook(nb, part, text)
    PROVE  IInv'
<1> DEFINE before == notebooks[nb][Len(notebooks[nb])]
           script == [before EXCEPT ![part] = text]
           r == NotebookResult("edit_notebook", nb, script, part)
<1>1. notebooks[nb] \in Seq(Scripts) /\ notebooks[nb] # <<>>
  BY DEF IInv, Types, EditNotebook
<1>2. Len(notebooks[nb]) \in 1 .. Len(notebooks[nb]) /\ before \in Scripts
  BY <1>1
<1>3. /\ results' = Append(results, r) /\ UNCHANGED <<tree, ghosts>>
      /\ RunCell(nb, script) \/ UNCHANGED kernel
  BY DEF EditNotebook, PublishScript, Return, Latest, Last
<1>4. /\ before[part] \in Texts /\ script \in Scripts /\ script[part] = text
      /\ script = [before EXCEPT ![part] = script[part]]
  BY <1>2 DEF Scripts
<1>5. r = [tool |-> "edit_notebook", nb |-> nb, ran |-> script, part |-> part,
           old |-> before[part], base |-> Len(notebooks[nb])]
  BY PublicationAssumption DEF NotebookResult, Latest, Last
<1> HIDE DEF script, r
<1>6. r \in NotebookResults /\ r.nb = nb /\ r.ran = script
  BY <1>1, <1>2, <1>4, <1>5 DEF NotebookResults
<1>7. Holds(r)
  BY <1>2, <1>4, <1>5 DEF Holds, Edited
<1> QED
  BY <1>3, <1>4, <1>6, <1>7, ScriptKeeps

\* What waits, and the pages, say what they said while the tree and the batch stay.
LEMMA StillHold ==
    ASSUME ResultsHold, PagesResolve, UNCHANGED <<notebooks, datasets, reports, results>>
    PROVE  ResultsHold' /\ PagesResolve'
<1>1. ASSUME NEW i \in 1 .. Len(results) PROVE Holds(results[i])'
  <2>1. Holds(results[i])
    BY DEF ResultsHold
  <2>2. results'[i] = results[i]
    OBVIOUS
  <2> QED BY <2>1, <2>2 DEF Holds, Edited, Resolves
<1>2. ASSUME NEW id \in ReportIds, NEW i \in 1 .. Len(reports[id])
      PROVE  Resolves(reports[id][i])'
  <2>1. Resolves(reports[id][i])
    BY DEF PagesResolve
  <2> QED BY <2>1 DEF Resolves
<1> QED
  BY <1>1, <1>2 DEF ResultsHold, PagesResolve

\* A notebook raises: its value has no result of the batch behind it.
LEMMA RunInterruptedKeeps ==
    ASSUME IInv, NEW nb \in Notebooks, NEW script \in Scripts, RunInterrupted(nb, script)
    PROVE  IInv'
<1>1. /\ value' = Code(nb, script) /\ maker' = 0 /\ slips' = {"raised"}
      /\ UNCHANGED <<notebooks, datasets, reports, named, results, origin, published, written>>
  BY DEF RunInterrupted, tree, turn, ghosts
<1>2. value' \in Codes /\ value' # None
  BY <1>1, PublicationAssumption DEF Code, Codes
<1>3. Types' /\ NamedInv' /\ KernelInv'
  BY <1>1, <1>2 DEF IInv, Types, NamedInv, KernelInv, Slips
<1>4. ResultsHold' /\ PagesResolve' /\ WrittenAsRun' /\ CitesItsCode'
  BY <1>1, StillHold DEF IInv, WrittenAsRun, CitesItsCode
<1> QED
  BY <1>3, <1>4 DEF IInv

\* A restart forgets the value together with its origin.
LEMMA RestartKernelKeeps == ASSUME IInv, RestartKernel PROVE IInv'
<1>1. /\ value' = None /\ origin' = None /\ maker' = 0 /\ slips' = {}
      /\ UNCHANGED <<notebooks, datasets, reports, named, results, published, written>>
  BY DEF RestartKernel, tree, turn, ghosts
<1>2. Types' /\ NamedInv' /\ KernelInv'
  BY <1>1 DEF IInv, Types, NamedInv, KernelInv
<1>3. ResultsHold' /\ PagesResolve' /\ WrittenAsRun' /\ CitesItsCode'
  BY <1>1, StillHold DEF IInv, WrittenAsRun, CitesItsCode
<1> QED
  BY <1>2, <1>3 DEF IInv

\* A dataset waits with the value and the code cited when it was returned.
LEMMA ReturnDatasetKeeps ==
    ASSUME IInv, NEW name \in LiveNames, ReturnDataset(name) PROVE IInv'
<1> DEFINE content == [value |-> value, cites |-> Cited]
           r == [tool |-> "return_dataset", id |-> origin, name |-> name,
                 content |-> content, slips |-> slips]
<1>1. /\ value # None /\ origin # None /\ notebooks[origin] # <<>>
      /\ results' = Append(results, r) /\ UNCHANGED <<tree, kernel, ghosts>>
  BY DEF ReturnDataset, Return
<1>2. value \in Codes /\ origin \in Notebooks /\ slips \subseteq Slips
  BY <1>1 DEF IInv, Types
<1>3. Cited \in Codes
  <2>1. notebooks[origin] \in Seq(Scripts)
    BY <1>2 DEF IInv, Types
  <2>2. Last(notebooks[origin]) \in Scripts
    BY <1>1, <2>1 DEF Last
  <2> QED
    BY <1>2, <2>2 DEF Cited, Code, Codes, Latest
<1>4. slips = {} => Cited = value
  BY <1>1 DEF IInv, KernelInv
<1>5. content \in Contents /\ content.value = value /\ content.cites = Cited
  BY <1>2, <1>3 DEF Contents
<1> HIDE DEF content
<1>6. r \in Result
  BY <1>2, <1>5 DEF Result, DatasetResults
<1>7. Holds(r)
  BY <1>4, <1>5 DEF Holds
<1> QED
  BY <1>1, <1>6, <1>7, QuietReturnKeeps

\* An artifact is read, nothing is to be written for it.
LEMMA ReadArtifactKeeps ==
    ASSUME IInv, NEW kind \in {"notebook", "report"}, NEW name \in Notebooks \cup LiveNames,
           ReadArtifact(kind, name)
    PROVE  IInv'
<1> DEFINE r == [tool |-> "read_artifact", shows |-> <<kind, name>>]
<1>1. results' = Append(results, r) /\ UNCHANGED <<tree, kernel, ghosts>>
  BY DEF ReadArtifact, Return
<1>2. r \in Result /\ Holds(r)
  BY DEF Result, ReadResults, Holds
<1> QED
  BY <1>1, <1>2, QuietReturnKeeps

\* A page that resolves is returned.
LEMMA PageReturned ==
    ASSUME IInv, NEW id \in ReportIds, NEW name \in LiveNames, NEW embeds \in SUBSET LiveNames,
           NEW pins, [embeds |-> embeds, pins |-> pins] \in Pages,
           Resolves([embeds |-> embeds, pins |-> pins]),
           results' = Append(results, ReportResult(id, name, embeds, pins)),
           UNCHANGED <<tree, kernel, ghosts>>
    PROVE  IInv'
<1> DEFINE page == [embeds |-> embeds, pins |-> pins]
           r == ReportResult(id, name, embeds, pins)
<1>1. page \in Pages /\ Resolves(page)
  OBVIOUS
<1>2. r = [tool |-> "return_report", id |-> id, name |-> name, content |-> page]
  BY DEF ReportResult
<1> HIDE DEF page
<1>3. r \in Result /\ Holds(r)
  BY <1>1, <1>2 DEF Result, ReportResults, Holds
<1> HIDE DEF r
<1> QED
  BY <1>3, QuietReturnKeeps DEF r

\* A report pins the latest version of each dataset it embeds.
LEMMA ReturnReportKeeps ==
    ASSUME IInv, NEW name \in LiveNames, NEW title \in Titles, NEW embeds \in SUBSET LiveNames,
           ReturnReport(name, title, embeds)
    PROVE  IInv'
<1>1. PICK choice \in [embeds -> Notebooks] :
        /\ \A n \in embeds : choice[n] \in Named(n)
        /\ results' = Append(results, ReportResult([over |-> Range(choice), title |-> title],
                                                   name, embeds,
                                                   [n \in embeds |-> Pin(choice[n])]))
  BY DEF ReturnReport, Return
<1> DEFINE pins == [n \in embeds |-> Pin(choice[n])]
           id == [over |-> Range(choice), title |-> title]
           page == [embeds |-> embeds, pins |-> pins]
<1>2. id \in ReportIds
  BY DEF ReportIds, Range
<1>3. ASSUME NEW n \in embeds
      PROVE  pins[n] \in Pinned /\ pins[n].version \in 1 .. Len(datasets[pins[n].id])
  <2>1. choice[n] \in Notebooks /\ datasets[choice[n]] # <<>>
    BY <1>1 DEF Named
  <2>2. datasets[choice[n]] \in Seq(Contents)
    BY <2>1 DEF IInv, Types
  <2> QED
    BY <2>1, <2>2 DEF Pin, Pinned
<1>4. pins \in [embeds -> Pinned] /\ DOMAIN pins = embeds
  BY <1>3
<1> HIDE DEF pins
<1>5. page \in Pages
  BY <1>4 DEF Pages
<1>6. Resolves(page)
  BY <1>3, <1>4 DEF Resolves
<1>7. UNCHANGED <<tree, kernel, ghosts>>
  BY DEF ReturnReport
<1> HIDE DEF id
<1> QED
  BY <1>1, <1>2, <1>5, <1>6, <1>7, PageReturned DEF id, pins

\* An edit keeps the pins of before and adds the latest of the others.
LEMMA EditReportKeeps ==
    ASSUME IInv, NEW name \in LiveNames, NEW embeds \in SUBSET LiveNames,
           EditReport(name, embeds)
    PROVE  IInv'
<1> DEFINE found == {r \in ReportIds : named.report[r] = name}
           id == CHOOSE r \in found : TRUE
           old == Last(reports[id])
<1>1. /\ Cardinality(found) = 1 /\ embeds \in Embeddable(old.pins)
      /\ results' = Append(results, ReportResult(id, name, embeds, old.pins))
      /\ UNCHANGED <<tree, kernel, ghosts>>
  BY DEF EditReport, Return
<1>2. id \in found
  <2>1. Cardinality({}) = 0
    BY FS_EmptySet
  <2>2. Cardinality(found) # 0
    BY <1>1
  <2> HIDE DEF found
  <2>3. found # {}
    BY <2>1, <2>2
  <2> QED
    BY <2>3
<1>3. id \in ReportIds /\ reports[id] # <<>> /\ reports[id] \in Seq(Pages)
  BY <1>2, PublicationAssumption DEF IInv, NamedInv, Types
<1> HIDE DEF id
<1>4. old \in Pages /\ Resolves(old)
  <2>1. Len(reports[id]) \in 1 .. Len(reports[id])
    BY <1>3
  <2>2. old = reports[id][Len(reports[id])]
    BY DEF Last
  <2> HIDE DEF old
  <2> QED
    BY <1>3, <2>1, <2>2 DEF IInv, PagesResolve
<1> DEFINE page == [embeds |-> embeds, pins |-> old.pins]
<1> HIDE DEF old
<1>5. page \in Pages
  BY <1>4 DEF Pages
<1>6. Resolves(page)
  BY <1>1, <1>4 DEF Resolves, Embeddable
<1> QED
  BY <1>1, <1>3, <1>5, <1>6, PageReturned

-----------------------------------------------------------------------------
(***************************************************************************)
(* Writing it down.                                                        *)
(***************************************************************************)

\* What every writing step needs to show.
LEMMA WritingKeeps ==
    ASSUME IInv, NEW tools, Writing(tools),
           notebooks' \in [Notebooks -> Seq(Scripts)],
           datasets' \in [Notebooks -> Seq(Contents)],
           reports' \in [ReportIds -> Seq(Pages)],
           named' \in [dataset : [Notebooks -> LiveNames \cup {None}],
                       report : [ReportIds -> LiveNames \cup {None}]],
           NamedInv', Grown(notebooks, notebooks'), Grown(datasets, datasets'),
           PagesResolve', WrittenAsRun', CitesItsCode',
           UNCHANGED <<value, origin>>, slips' \subseteq Slips,
           slips' = {} /\ origin # None => notebooks'[origin] # <<>> /\ value = Cited'
    PROVE  IInv'
<1>1. /\ results \in Seq(Result) /\ results # <<>> /\ maker \in 0 .. Len(results)
      /\ results' = Tail(results)
      /\ maker' = IF maker = 0 THEN 0 ELSE maker - 1
  BY DEF IInv, Types, Writing
<1>2. /\ results' \in Seq(Result) /\ Len(results') = Len(results) - 1
      /\ \A i \in 1 .. Len(results') : results'[i] = results[i + 1]
  BY <1>1, HeadTailProperties
<1>3. Types'
  BY <1>1, <1>2 DEF IInv, Types
<1>4. KernelInv'
  <2>1. maker' > 0 => results'[maker'] = results[maker] /\ maker > 0
    BY <1>1, <1>2
  <2>2. origin' # None => value' # None
    BY DEF IInv, KernelInv
  <2>3. maker' > 0 => /\ results'[maker'] \in NotebookResults
                      /\ value' = Code(results'[maker'].nb, results'[maker'].ran)
                      /\ origin' = results'[maker'].nb
    BY <2>1 DEF IInv, KernelInv
  <2> QED
    BY <2>2, <2>3 DEF KernelInv
<1>5. ASSUME NEW i \in 1 .. Len(results') PROVE Holds(results[i])'
  <2>1. i + 1 \in 1 .. Len(results) /\ results'[i] = results[i + 1]
    BY <1>1, <1>2
  <2>2. PICK x \in Result : x = results'[i] /\ Holds(x)
    BY <1>1, <2>1 DEF IInv, ResultsHold
  <2>3. Holds(x)'
    BY <2>2, HoldsStays DEF IInv
  <2> QED
    BY <2>2, <2>3
<1> QED
  BY <1>3, <1>4, <1>5 DEF IInv, ResultsHold

\* The result that is written next.
LEMMA ThisHolds ==
    ASSUME IInv, NEW tools, Writing(tools)
    PROVE  /\ This \in Result /\ This = results[1] /\ Holds(This) /\ This.tool \in tools
<1>1. results \in Seq(Result) /\ results # <<>> /\ This.tool \in tools
  BY DEF IInv, Types, Writing
<1>2. 1 \in 1 .. Len(results) /\ This = results[1]
  BY <1>1 DEF This
<1> QED
  BY <1>1, <1>2 DEF IInv, ResultsHold

\* Nothing is written to the logs of scripts.
LEMMA KernelLeft ==
    ASSUME IInv, UNCHANGED <<notebooks, value, origin, slips>>
    PROVE  /\ notebooks' \in [Notebooks -> Seq(Scripts)] /\ Grown(notebooks, notebooks')
           /\ slips' \subseteq Slips
           /\ slips' = {} /\ origin # None => notebooks'[origin] # <<>> /\ value = Cited'
  BY NothingGrows DEF IInv, Types, KernelInv, Cited, Latest, Code

\* Of a tree that is left alone all that is said stays true.
LEMMA TreeLeft ==
    ASSUME IInv, UNCHANGED <<datasets, reports, named>>
    PROVE  /\ datasets' \in [Notebooks -> Seq(Contents)] /\ Grown(datasets, datasets')
           /\ reports' \in [ReportIds -> Seq(Pages)]
           /\ named' \in [dataset : [Notebooks -> LiveNames \cup {None}],
                          report : [ReportIds -> LiveNames \cup {None}]]
           /\ NamedInv' /\ PagesResolve'
  BY NothingGrows DEF IInv, Types, NamedInv, PagesResolve, Resolves

\* A write fails: its result is dropped.
LEMMA WriteFailsKeeps == ASSUME IInv, WriteFails PROVE IInv'
<1>1. /\ Writing({"return_notebook", "edit_notebook", "return_dataset", "return_report"})
      /\ UNCHANGED <<notebooks, datasets, reports, named, value, origin, slips,
                     published, written>>
  BY DEF WriteFails, tree, ghosts
<1>2. WrittenAsRun' /\ CitesItsCode'
  BY <1>1 DEF IInv, WrittenAsRun, CitesItsCode
<1> QED
  BY <1>1, <1>2, KernelLeft, TreeLeft, WritingKeeps

\* The result of a read needs no write.
LEMMA ShowArtifactKeeps == ASSUME IInv, ShowArtifact PROVE IInv'
<1>1. /\ Writing({"read_artifact"})
      /\ UNCHANGED <<notebooks, datasets, reports, named, value, origin, slips,
                     published, written>>
  BY DEF ShowArtifact, tree, ghosts
<1>2. WrittenAsRun' /\ CitesItsCode'
  BY <1>1 DEF IInv, WrittenAsRun, CitesItsCode
<1> QED
  BY <1>1, <1>2, KernelLeft, TreeLeft, WritingKeeps

\* A dataset is written as it was returned.
LEMMA WriteDatasetKeeps == ASSUME IInv, WriteDataset PROVE IInv'
<1>1. /\ Writing({"return_dataset"})
      /\ datasets' = [datasets EXCEPT ![This.id] = Logged(datasets[This.id], This.content)]
      /\ named' = [named EXCEPT !.dataset[This.id] = This.name]
      /\ published' = [content |-> This.content, slips |-> This.slips]
      /\ UNCHANGED <<notebooks, reports, value, origin, slips, written>>
  BY DEF WriteDataset
<1>2. /\ This \in Result /\ Holds(This) /\ This.tool = "return_dataset"
  BY <1>1, ThisHolds
<1>3. /\ This.id \in Notebooks /\ This.name \in LiveNames /\ This.content \in Contents
  BY <1>2 DEF Result, NotebookResults, DatasetResults, ReportResults, ReadResults
<1>4. /\ datasets' \in [Notebooks -> Seq(Contents)] /\ datasets'[This.id] # <<>>
      /\ \A x \in Notebooks \ {This.id} : datasets'[x] = datasets[x]
      /\ Grown(datasets, datasets')
  <2>1. PICK d \in Notebooks, c \in Contents : d = This.id /\ c = This.content
    BY <1>3
  <2>2. datasets \in [Notebooks -> Seq(Contents)]
        /\ datasets' = [datasets EXCEPT ![d] = Logged(datasets[d], c)]
    BY <1>1, <2>1 DEF IInv, Types
  <2>3. /\ datasets' \in [Notebooks -> Seq(Contents)] /\ datasets'[d] # <<>>
        /\ \A x \in Notebooks \ {d} : datasets'[x] = datasets[x]
        /\ \A x \in Notebooks :
             /\ Len(datasets[x]) <= Len(datasets'[x])
             /\ \A i \in 1 .. Len(datasets[x]) : datasets'[x][i] = datasets[x][i]
             /\ \A i \in 1 .. Len(datasets'[x]) :
                  (x = d /\ datasets'[x][i] = c) \/ i \in 1 .. Len(datasets[x])
    BY SMTT(30), <2>2, OneLogGrows
  <2> QED
    BY <2>1, <2>3 DEF Grown
<1>5. /\ named' \in [dataset : [Notebooks -> LiveNames \cup {None}],
                     report : [ReportIds -> LiveNames \cup {None}]]
      /\ named'.report = named.report /\ named'.dataset[This.id] = This.name
      /\ \A x \in Notebooks \ {This.id} : named'.dataset[x] = named.dataset[x]
  BY <1>1, <1>3 DEF IInv, Types
<1>6. NamedInv'
  BY <1>1, <1>3, <1>4, <1>5, PublicationAssumption DEF IInv, NamedInv
<1>7. PagesResolve'
  BY <1>1, <1>4, PagesStay
<1>8. WrittenAsRun' /\ CitesItsCode'
  BY <1>1, <1>2 DEF IInv, WrittenAsRun, CitesItsCode, Holds
<1>9. reports' \in [ReportIds -> Seq(Pages)]
  BY <1>1 DEF IInv, Types
<1> QED
  BY <1>1, <1>4, <1>5, <1>6, <1>7, <1>8, <1>9, KernelLeft, WritingKeeps

\* A report is written with the pins it has.
LEMMA WriteReportKeeps == ASSUME IInv, WriteReport PROVE IInv'
<1>1. /\ Writing({"return_report"})
      /\ reports' = [reports EXCEPT ![This.id] = Logged(reports[This.id], This.content)]
      /\ named' = [named EXCEPT !.report[This.id] = This.name]
      /\ UNCHANGED <<notebooks, datasets, value, origin, slips, published, written>>
  BY DEF WriteReport, ghosts
<1>2. /\ This \in Result /\ Holds(This) /\ This.tool = "return_report"
  BY <1>1, ThisHolds
<1>3. /\ This.id \in ReportIds /\ This.name \in LiveNames /\ This.content \in Pages
  BY <1>2 DEF Result, NotebookResults, DatasetResults, ReportResults, ReadResults
<1>4. /\ reports' \in [ReportIds -> Seq(Pages)] /\ reports'[This.id] # <<>>
      /\ \A x \in ReportIds \ {This.id} : reports'[x] = reports[x]
      /\ \A x \in ReportIds :
           /\ \A i \in 1 .. Len(reports[x]) : reports'[x][i] = reports[x][i]
           /\ \A i \in 1 .. Len(reports'[x]) :
                (x = This.id /\ reports'[x][i] = This.content) \/ i \in 1 .. Len(reports[x])
  <2>1. PICK d \in ReportIds, c \in Pages : d = This.id /\ c = This.content
    BY <1>3
  <2>2. reports \in [ReportIds -> Seq(Pages)]
        /\ reports' = [reports EXCEPT ![d] = Logged(reports[d], c)]
    BY <1>1, <2>1 DEF IInv, Types
  <2>3. /\ reports' \in [ReportIds -> Seq(Pages)] /\ reports'[d] # <<>>
        /\ \A x \in ReportIds \ {d} : reports'[x] = reports[x]
        /\ \A x \in ReportIds :
             /\ \A i \in 1 .. Len(reports[x]) : reports'[x][i] = reports[x][i]
             /\ \A i \in 1 .. Len(reports'[x]) :
                  (x = d /\ reports'[x][i] = c) \/ i \in 1 .. Len(reports[x])
    BY SMTT(30), <2>2, OneLogGrows
  <2> QED
    BY <2>1, <2>3
<1>5. /\ named' \in [dataset : [Notebooks -> LiveNames \cup {None}],
                     report : [ReportIds -> LiveNames \cup {None}]]
      /\ named'.dataset = named.dataset /\ named'.report[This.id] = This.name
      /\ \A x \in ReportIds \ {This.id} : named'.report[x] = named.report[x]
  BY <1>1, <1>3 DEF IInv, Types
<1>6. NamedInv'
  BY <1>1, <1>3, <1>4, <1>5, PublicationAssumption DEF IInv, NamedInv
<1>7. PagesResolve'
  <2> SUFFICES ASSUME NEW x \in ReportIds, NEW i \in 1 .. Len(reports'[x])
               PROVE  Resolves(reports[x][i])'
    BY DEF PagesResolve
  <2>1. Resolves(reports'[x][i])
    <3>1. CASE reports'[x][i] = This.content
      BY <1>2, <3>1 DEF Holds
    <3>2. CASE i \in 1 .. Len(reports[x])
      BY <1>4, <3>2 DEF IInv, PagesResolve
    <3> QED
      BY <1>4, <3>1, <3>2
  <2> QED
    BY <1>1, <2>1 DEF Resolves
<1>8. WrittenAsRun' /\ CitesItsCode'
  BY <1>1 DEF IInv, WrittenAsRun, CitesItsCode
<1>9. datasets' \in [Notebooks -> Seq(Contents)] /\ Grown(datasets, datasets')
  BY <1>1, NothingGrows DEF IInv, Types
<1> QED
  BY <1>1, <1>4, <1>5, <1>6, <1>7, <1>8, <1>9, KernelLeft, WritingKeeps

\* What the log ends with, after a script is written to it.
LEMMA LoggedLast ==
    ASSUME NEW S, NEW log \in Seq(S), NEW content \in S
    PROVE  /\ content \notin Range(log) \/ Last(log) = content
                => Last(Logged(log, content)) = content
           /\ content \in Range(log) => Logged(log, content) = log
<1>1. content \in Range(log) => Logged(log, content) = log
  BY DEF Logged
<1>2. ASSUME content \notin Range(log) PROVE Last(Logged(log, content)) = content
  BY <1>2, AppendProperties DEF Logged, Last
<1> QED
  BY <1>1, <1>2

\* The script that is written, and what is known of it.
LEMMA ScriptWritten ==
    ASSUME IInv, NEW r \in NotebookResults, Holds(r)
    PROVE  /\ ScriptAfterTool(r) \in Scripts
           /\ r.tool = "return_notebook" \/ Len(notebooks[r.nb]) = r.base
                => ScriptAfterTool(r) = r.ran
<1>1. /\ r.nb \in Notebooks /\ r.ran \in Scripts
      /\ r.tool \in {"return_notebook", "edit_notebook"}
  BY DEF NotebookResults
<1>2. CASE r.tool = "return_notebook"
  BY <1>1, <1>2 DEF ScriptAfterTool
<1>3. CASE r.tool = "edit_notebook"
  <2>1. notebooks[r.nb] \in Seq(Scripts) /\ Edited(r)
    BY <1>1, <1>3 DEF IInv, Types, Holds
  <2>2. /\ Len(notebooks[r.nb]) \in 1 .. Len(notebooks[r.nb])
        /\ Latest(r.nb) = notebooks[r.nb][Len(notebooks[r.nb])]
    BY <2>1 DEF Edited, Latest, Last
  <2>3. PICK latest \in Scripts : latest = Latest(r.nb)
    BY <2>1, <2>2
  <2>4. ScriptAfterTool(r) = Replaced(latest, r)
    BY <1>3, <2>3 DEF ScriptAfterTool
  <2>5. [latest EXCEPT ![r.part] = r.ran[r.part]] \in Scripts
    BY <1>1, <2>1 DEF Scripts, Edited
  <2>6. Replaced(latest, r) \in Scripts
    BY <2>5 DEF Replaced
  <2>7. Len(notebooks[r.nb]) = r.base => Replaced(latest, r) = r.ran
    BY <2>1, <2>2, <2>3 DEF Edited, Replaced
  <2> QED
    BY <1>3, <2>4, <2>6, <2>7
<1> QED
  BY <1>1, <1>2, <1>3

\* A notebook is written, an edit on top of the latest version.
LEMMA WriteNotebookKeeps == ASSUME IInv, WriteNotebook PROVE IInv'
<1>1. /\ Writing({"return_notebook", "edit_notebook"})
      /\ notebooks' = [notebooks EXCEPT ![This.nb] =
                         Logged(notebooks[This.nb], ScriptAfterTool(This))]
      /\ slips' = SlipsAfter(This, ScriptAfterTool(This), notebooks[This.nb])
      /\ written' = [tool |-> This.tool, ran |-> This.ran, script |-> ScriptAfterTool(This),
                     alone |-> Len(notebooks[This.nb]) = This.base]
      /\ UNCHANGED <<datasets, reports, named, value, origin, published>>
  BY DEF WriteNotebook
<1>2. PICK r \in NotebookResults : r = This /\ r = results[1] /\ Holds(r)
  BY <1>1, ThisHolds DEF Result, DatasetResults, ReportResults, ReadResults
<1>3. PICK script \in Scripts : script = ScriptAfterTool(r)
  BY <1>2, ScriptWritten
<1>4. PICK nb \in Notebooks : nb = r.nb
  BY DEF NotebookResults
<1>5. PICK log \in Seq(Scripts) : log = notebooks[nb]
  BY <1>4 DEF IInv, Types
<1>6. /\ notebooks \in [Notebooks -> Seq(Scripts)]
      /\ notebooks' = [notebooks EXCEPT ![nb] = Logged(notebooks[nb], script)]
  BY <1>1, <1>2, <1>3, <1>4 DEF IInv, Types
<1>7. /\ notebooks' \in [Notebooks -> Seq(Scripts)]
      /\ notebooks'[nb] = Logged(notebooks[nb], script) /\ notebooks'[nb] # <<>>
      /\ \A x \in Notebooks \ {nb} : notebooks'[x] = notebooks[x]
      /\ \A x \in Notebooks :
           /\ Len(notebooks[x]) <= Len(notebooks'[x])
           /\ \A i \in 1 .. Len(notebooks[x]) : notebooks'[x][i] = notebooks[x][i]
           /\ \A i \in 1 .. Len(notebooks'[x]) :
                (x = nb /\ notebooks'[x][i] = script) \/ i \in 1 .. Len(notebooks[x])
  BY <1>6, OneLogGrows
<1>8. Grown(notebooks, notebooks')
  BY <1>7 DEF Grown
<1>9. /\ script \notin Range(log) \/ Last(log) = script => Last(notebooks'[nb]) = script
      /\ script \in Range(log) => notebooks'[nb] = log
  BY <1>5, <1>7, LoggedLast
<1>10. WrittenAsRun' /\ CitesItsCode'
  <2>1. /\ written' = [tool |-> r.tool, ran |-> r.ran, script |-> script,
                       alone |-> Len(notebooks[r.nb]) = r.base]
        /\ r.tool = "return_notebook" \/ Len(notebooks[r.nb]) = r.base => script = r.ran
    BY <1>1, <1>2, <1>3, ScriptWritten
  <2>2. /\ written'.tool = r.tool /\ written'.ran = r.ran /\ written'.script = script
        /\ written'.alone <=> Len(notebooks[r.nb]) = r.base
    BY <2>1, Zenon
  <2>3. WrittenAsRun'
    BY <2>1, <2>2 DEF WrittenAsRun
  <2>4. CitesItsCode'
    BY <1>1 DEF IInv, CitesItsCode
  <2> QED
    BY <2>3, <2>4
<1>11. slips' = SlipsAfter(r, script, log) /\ slips' \subseteq Slips
  BY <1>1, <1>2, <1>3, <1>4, <1>5 DEF SlipsAfter, IInv, Types, Slips
<1>12. ASSUME slips' = {}, origin # None
       PROVE  notebooks'[origin] # <<>> /\ value = Code(origin, Last(notebooks'[origin]))
  <2>1. CASE maker = 1
    <3>1. script = r.ran /\ (script \notin Range(log) \/ Last(log) = script)
      BY <1>11, <1>12, <2>1 DEF SlipsAfter
    <3>2. value = Code(nb, r.ran) /\ origin = nb
      BY <1>2, <1>4, <2>1 DEF IInv, KernelInv
    <3> QED
      BY <1>7, <1>9, <3>1, <3>2
  <2>2. CASE maker # 1
    <3>1. slips = {} /\ (nb # origin \/ script \in Range(log))
      BY <1>4, <1>11, <1>12, <2>2 DEF SlipsAfter
    <3>2. /\ notebooks[origin] # <<>> /\ value = Code(origin, Last(notebooks[origin]))
          /\ origin \in Notebooks
      BY <1>12, <3>1 DEF IInv, KernelInv, Types, Cited, Latest
    <3>3. notebooks'[origin] = notebooks[origin]
      BY <1>5, <1>7, <1>9, <3>1, <3>2
    <3> QED
      BY <3>2, <3>3
  <2> QED
    BY <2>1, <2>2
<1>13. slips' = {} /\ origin # None => notebooks'[origin] # <<>> /\ value = Cited'
  BY <1>1, <1>12 DEF Cited, Latest
<1>14. /\ datasets' \in [Notebooks -> Seq(Contents)] /\ Grown(datasets, datasets')
       /\ reports' \in [ReportIds -> Seq(Pages)]
       /\ named' \in [dataset : [Notebooks -> LiveNames \cup {None}],
                      report : [ReportIds -> LiveNames \cup {None}]]
       /\ NamedInv' /\ PagesResolve'
  BY <1>1, TreeLeft
<1> QED
  BY <1>1, <1>7, <1>8, <1>10, <1>11, <1>13, <1>14, WritingKeeps

-----------------------------------------------------------------------------
(***************************************************************************)
(* Between the batches, and next to them.                                  *)
(***************************************************************************)

\* Neither the kernel nor what waits nor the tree changes.
LEMMA IdleKeeps ==
    ASSUME IInv,
           UNCHANGED <<notebooks, datasets, reports, named, value, origin, maker, slips,
                       results>>,
           WrittenAsRun', CitesItsCode'
    PROVE  IInv'
<1>1. Types' /\ NamedInv' /\ KernelInv'
  BY DEF IInv, Types, NamedInv, KernelInv, Cited, Latest, Code
<1>2. ResultsHold' /\ PagesResolve'
  BY StillHold DEF IInv
<1> QED
  BY <1>1, <1>2 DEF IInv

\* The batch is over, its results are written next.
LEMMA CloseBatchKeeps == ASSUME IInv, CloseBatch PROVE IInv'
  BY IdleKeeps DEF CloseBatch, tree, kernel, ghosts, IInv, WrittenAsRun, CitesItsCode

\* The results are written, the next batch begins.
LEMMA NextIterationKeeps == ASSUME IInv, NextIteration PROVE IInv'
  BY IdleKeeps DEF NextIteration, tree, kernel, WrittenAsRun, CitesItsCode

\* Another terminal writes: the logs of scripts or datasets grow.
LEMMA OtherKeeps ==
    ASSUME IInv, UNCHANGED <<results, reports, value, origin, maker, published, written>>,
           notebooks' \in [Notebooks -> Seq(Scripts)],
           datasets' \in [Notebooks -> Seq(Contents)],
           Grown(notebooks, notebooks'), Grown(datasets, datasets'),
           named' \in [dataset : [Notebooks -> LiveNames \cup {None}],
                       report : [ReportIds -> LiveNames \cup {None}]],
           NamedInv', slips' \subseteq Slips,
           slips' = {} /\ origin # None => notebooks'[origin] # <<>> /\ value = Cited'
    PROVE  IInv'
<1>1. Types' /\ KernelInv'
  BY DEF IInv, Types, KernelInv
<1>2. ASSUME NEW i \in 1 .. Len(results') PROVE Holds(results[i])'
  <2>1. PICK x \in Result : x = results'[i] /\ Holds(x)
    BY DEF IInv, Types, ResultsHold
  <2>2. Holds(x)'
    BY <2>1, HoldsStays DEF IInv
  <2> QED
    BY <2>1, <2>2
<1>3. PagesResolve'
  BY PagesStay
<1>4. WrittenAsRun' /\ CitesItsCode'
  BY DEF IInv, WrittenAsRun, CitesItsCode
<1> QED
  BY <1>1, <1>2, <1>3, <1>4 DEF IInv, ResultsHold

\* Another terminal publishes a notebook.
LEMMA OtherNotebookKeeps ==
    ASSUME IInv, NEW nb \in Notebooks, NEW script \in Scripts, OtherNotebook(nb, script)
    PROVE  IInv'
<1>1. /\ script \notin Range(notebooks[nb])
      /\ notebooks' = [notebooks EXCEPT ![nb] = Append(notebooks[nb], script)]
      /\ slips' = IF nb = origin THEN slips \cup {"republished"} ELSE slips
      /\ UNCHANGED <<results, datasets, reports, named, value, origin, maker,
                     published, written>>
  BY DEF OtherNotebook, turn, ghosts
<1>2. /\ notebooks \in [Notebooks -> Seq(Scripts)]
      /\ notebooks' = [notebooks EXCEPT ![nb] = Logged(notebooks[nb], script)]
  BY <1>1 DEF IInv, Types, Logged
<1>3. /\ notebooks' \in [Notebooks -> Seq(Scripts)]
      /\ notebooks'[nb] = Logged(notebooks[nb], script) /\ notebooks'[nb] # <<>>
      /\ \A x \in Notebooks \ {nb} : notebooks'[x] = notebooks[x]
      /\ \A x \in Notebooks :
           /\ Len(notebooks[x]) <= Len(notebooks'[x])
           /\ \A i \in 1 .. Len(notebooks[x]) : notebooks'[x][i] = notebooks[x][i]
  <2>1. PICK d \in Notebooks, c \in Scripts : d = nb /\ c = script
    OBVIOUS
  <2>2. notebooks' = [notebooks EXCEPT ![d] = Logged(notebooks[d], c)]
    BY <1>2, <2>1
  <2>3. /\ notebooks' \in [Notebooks -> Seq(Scripts)]
        /\ notebooks'[d] = Logged(notebooks[d], c) /\ notebooks'[d] # <<>>
        /\ \A x \in Notebooks \ {d} : notebooks'[x] = notebooks[x]
        /\ \A x \in Notebooks :
             /\ Len(notebooks[x]) <= Len(notebooks'[x])
             /\ \A i \in 1 .. Len(notebooks[x]) : notebooks'[x][i] = notebooks[x][i]
             /\ \A i \in 1 .. Len(notebooks'[x]) :
                  (x = d /\ notebooks'[x][i] = c) \/ i \in 1 .. Len(notebooks[x])
    BY <1>2, <2>2, OneLogGrows
  <2> QED
    BY <2>1, <2>3
<1>4. Grown(notebooks, notebooks')
  BY <1>3 DEF Grown
<1>5. slips' \subseteq Slips
  BY <1>1 DEF IInv, Types, Slips
<1>6. slips' = {} /\ origin # None => notebooks'[origin] # <<>> /\ value = Cited'
  BY <1>1, <1>3 DEF IInv, Types, KernelInv, Cited, Latest, Code
<1> QED
  BY <1>1, <1>3, <1>4, <1>5, <1>6, TreeLeft, OtherKeeps

\* Another terminal publishes a dataset.
LEMMA OtherDatasetKeeps ==
    ASSUME IInv, NEW nb \in Notebooks, NEW name \in LiveNames, OtherDataset(nb, name)
    PROVE  IInv'
<1> DEFINE code == Code(nb, Latest(nb))
<1>1. /\ notebooks[nb] # <<>>
      /\ datasets' = [datasets EXCEPT ![nb] =
                        Logged(datasets[nb], [value |-> code, cites |-> code])]
      /\ named' = [named EXCEPT !.dataset[nb] = name]
      /\ UNCHANGED <<results, notebooks, reports, value, origin, maker, slips,
                     published, written>>
  BY DEF OtherDataset, kernel, turn, ghosts
<1>2. code \in Codes
  <2>1. notebooks[nb] \in Seq(Scripts)
    BY DEF IInv, Types
  <2>2. Last(notebooks[nb]) \in Scripts
    BY <1>1, <2>1 DEF Last
  <2> QED
    BY <2>2 DEF Code, Codes, Latest
<1> HIDE DEF code
<1>3. PICK c \in Contents : c = [value |-> code, cites |-> code]
  BY <1>2 DEF Contents
<1>4. /\ datasets \in [Notebooks -> Seq(Contents)]
      /\ datasets' = [datasets EXCEPT ![nb] = Logged(datasets[nb], c)]
  BY <1>1, <1>3 DEF IInv, Types
<1>5. /\ datasets' \in [Notebooks -> Seq(Contents)]
      /\ datasets'[nb] = Logged(datasets[nb], c) /\ datasets'[nb] # <<>>
      /\ \A x \in Notebooks \ {nb} : datasets'[x] = datasets[x]
      /\ \A x \in Notebooks :
           /\ Len(datasets[x]) <= Len(datasets'[x])
           /\ \A i \in 1 .. Len(datasets[x]) : datasets'[x][i] = datasets[x][i]
           /\ \A i \in 1 .. Len(datasets'[x]) :
                (x = nb /\ datasets'[x][i] = c) \/ i \in 1 .. Len(datasets[x])
  BY SMTT(30), <1>4, OneLogGrows
<1>6. Grown(datasets, datasets')
  BY <1>5 DEF Grown
<1>7. /\ named' \in [dataset : [Notebooks -> LiveNames \cup {None}],
                     report : [ReportIds -> LiveNames \cup {None}]]
      /\ named'.report = named.report /\ named'.dataset[nb] = name
      /\ \A x \in Notebooks \ {nb} : named'.dataset[x] = named.dataset[x]
  BY <1>1 DEF IInv, Types
<1>8. NamedInv'
  BY <1>1, <1>5, <1>7, PublicationAssumption DEF IInv, NamedInv
<1> QED
  BY <1>1, <1>5, <1>6, <1>7, <1>8, KernelLeft, OtherKeeps

-----------------------------------------------------------------------------
(***************************************************************************)
(* The theorems.                                                           *)
(***************************************************************************)

\* The calls of a batch.
LEMMA CallKeeps == ASSUME IInv, Call PROVE IInv'
<1>1. ASSUME NEW nb \in Notebooks, NEW script \in Drafts,
             ReturnNotebook(nb, script) \/ RunInterrupted(nb, script)
      PROVE  IInv'
  <2>1. script \in Scripts
    BY PublicationAssumption
  <2> QED
    BY <1>1, <2>1, ReturnNotebookKeeps, RunInterruptedKeeps
<1>2. ASSUME NEW nb \in Notebooks, NEW part \in Parts, NEW text \in Texts,
             EditNotebook(nb, part, text)
      PROVE  IInv'
  BY <1>2, EditNotebookKeeps
<1>3. ASSUME NEW name \in LiveNames, ReturnDataset(name) PROVE IInv'
  BY <1>3, ReturnDatasetKeeps
<1>4. ASSUME NEW name \in LiveNames, NEW title \in Titles, NEW embeds \in SUBSET LiveNames,
             ReturnReport(name, title, embeds)
      PROVE  IInv'
  BY <1>4, ReturnReportKeeps
<1>5. ASSUME NEW name \in LiveNames, NEW embeds \in SUBSET LiveNames,
             EditReport(name, embeds)
      PROVE  IInv'
  BY <1>5, EditReportKeeps
<1>6. ASSUME NEW kind \in {"notebook", "report"}, NEW name \in Notebooks \cup LiveNames,
             ReadArtifact(kind, name)
      PROVE  IInv'
  BY <1>6, ReadArtifactKeeps
<1> QED
  BY <1>1, <1>2, <1>3, <1>4, <1>5, <1>6, RestartKernelKeeps DEF Call

\* The inductive invariant: what a result that waits to be written says of the
\* tree stays true until it is written.
THEOREM InductivePublication == Spec => []IInv
<1>1. IInv /\ [Next]_vars => IInv'
  <2> SUFFICES ASSUME IInv, [Next]_vars PROVE IInv'
    OBVIOUS
  <2>1. CASE UNCHANGED vars
    BY <2>1, IdleKeeps DEF IInv, WrittenAsRun, CitesItsCode, vars, tree, kernel, turn, ghosts
  <2>2. CASE Write
    BY <2>2, WriteNotebookKeeps, WriteDatasetKeeps, WriteReportKeeps, WriteFailsKeeps,
       ShowArtifactKeeps DEF Write
  <2>3. ASSUME NEW nb \in Notebooks, NEW script \in Drafts, OtherNotebook(nb, script)
        PROVE  IInv'
    <3>1. script \in Scripts
      BY PublicationAssumption
    <3> QED
      BY <2>3, <3>1, OtherNotebookKeeps
  <2>4. ASSUME NEW nb \in Notebooks, NEW name \in LiveNames, OtherDataset(nb, name)
        PROVE  IInv'
    BY <2>4, OtherDatasetKeeps
  <2> QED
    BY <2>1, <2>2, <2>3, <2>4, CallKeeps, CloseBatchKeeps, NextIterationKeeps DEF Next
<1> QED
  BY <1>1, InitIInv, PTL DEF Spec

\* The types; what has a version has a live name, and what the ledger of origins
\* names is bound in the kernel.
THEOREM PublicationTypes == Spec => []TypeOK
<1>1. IInv => TypeOK
  <2> SUFFICES ASSUME IInv PROVE TypeOK
    OBVIOUS
  <2>1. ASSUME NEW nb \in Notebooks
        PROVE  /\ Range(notebooks[nb]) \subseteq Scripts
               /\ Range(datasets[nb]) \subseteq [value : Codes, cites : Codes]
               /\ datasets[nb] # <<>> <=> named.dataset[nb] # None
    <3>1. notebooks[nb] \in Seq(Scripts) /\ datasets[nb] \in Seq(Contents)
      BY DEF IInv, Types
    <3>2. datasets[nb] # <<>> <=> named.dataset[nb] # None
      BY DEF IInv, NamedInv
    <3>3. Range(notebooks[nb]) \subseteq Scripts /\ Range(datasets[nb]) \subseteq Contents
      BY <3>1 DEF Range
    <3> QED
      BY <3>2, <3>3 DEF Contents
  <2> QED
    BY <2>1 DEF IInv, Types, NamedInv, KernelInv, TypeOK, Slips
<1> QED
  BY <1>1, InductivePublication, PTL

\* A script is written as it was run, but for an edit that another write to its
\* notebook came before (WrittenAsRun).
THEOREM ScriptsAreWrittenAsRun == Spec => []WrittenAsRun
<1>1. IInv => WrittenAsRun
  BY DEF IInv
<1> QED
  BY <1>1, InductivePublication, PTL

\* A dataset cites the script that computed it, or the ghosts name the reason
\* why it may not (CitesItsCode).
THEOREM DatasetsCiteTheirCode == Spec => []CitesItsCode
<1>1. IInv => CitesItsCode
  BY DEF IInv
<1> QED
  BY <1>1, InductivePublication, PTL

\* What any version of any report embeds is in the tree (EmbedsResolve).
THEOREM EmbedsAreInTheTree == Spec => []EmbedsResolve
<1>1. IInv => EmbedsResolve
  <2> SUFFICES ASSUME IInv, NEW r \in ReportIds, NEW content \in Range(reports[r]),
                      NEW n \in content.embeds
               PROVE  /\ n \in DOMAIN content.pins
                      /\ content.pins[n].version \in DOMAIN datasets[content.pins[n].id]
    BY DEF EmbedsResolve
  <2>1. PICK i \in 1 .. Len(reports[r]) : content = reports[r][i]
    <3>1. reports[r] \in Seq(Pages)
      BY DEF IInv, Types
    <3> QED
      BY <3>1 DEF Range
  <2>2. Resolves(content) /\ content \in Pages
    BY <2>1 DEF IInv, PagesResolve, Types
  <2>3. n \in DOMAIN content.pins /\ content.pins[n].version \in 1 .. Len(datasets[content.pins[n].id])
    BY <2>2 DEF Resolves
  <2>4. content.pins[n] \in Pinned
    BY <2>2, <2>3 DEF Pages
  <2>5. datasets[content.pins[n].id] \in Seq(Contents)
    BY <2>4 DEF Pinned, IInv, Types
  <2> QED
    BY <2>3, <2>5
<1> QED
  BY <1>1, InductivePublication, PTL
=============================================================================
