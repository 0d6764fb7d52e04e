---------------------------- MODULE ArtifactStore -----------------------------
(***************************************************************************)
(* The store of published artifacts (execution/artifact_store.py): per     *)
(* artifact a directory with immutable snapshots, a curation sidecar and a *)
(* log of versions, written in this order by persist_artifact and          *)
(* persist_notebook through the executor, and read back by live name       *)
(* (execution/load.py).                                                    *)
(*                                                                         *)
(* Several publications may be under way, of a turn and of a host; each of *)
(* their reads and writes of a file is one step, between which anything    *)
(* may happen, and each may be the last.  A cell that loads a dataset by    *)
(* name (load_dataset) reads the same files while they are being written.  *)
(***************************************************************************)
EXTENDS Naturals, Sequences

CONSTANTS
    Writers,      \* publications, one after the other or at once
    Artifacts,    \* logical ids
    Versions,     \* content hashes
    Rejected,     \* versions of a report that the host's validator refuses
    None

ASSUME StoreAssumption == Rejected \subseteq Versions /\ None \notin Writers

VARIABLES
    snapshot,   \* per artifact and version: what is in the file
    curation,   \* per artifact: the writer whose created_at it carries
    log,        \* per artifact: the versions of its log.jsonl
    writer,     \* per publication, where it is and what it has read
    loader,     \* a load by name: where it is, and the version it was led to
    overlapped  \* auxiliary: two publications of one artifact were under way

vars == <<snapshot, curation, log, writer, loader, overlapped>>

Idle == [at |-> "idle", art |-> None, ver |-> None, prior |-> None, lines |-> <<>>]

NoLoad == [at |-> "idle", art |-> None, ver |-> None]

Init ==
    /\ snapshot = [a \in Artifacts |-> [v \in Versions |-> "absent"]]
    /\ curation = [a \in Artifacts |-> None]
    /\ log = [a \in Artifacts |-> <<>>]
    /\ writer = [w \in Writers |-> Idle]
    /\ loader = NoLoad
    /\ overlapped = FALSE

Steps == {"snapshot", "write", "verify", "curate", "recurate", "read", "append"}
Ends == {"published", "refused", "failed"}

Busy(a) == {w \in Writers : writer[w].at \in Steps /\ writer[w].art = a}

GoTo(w, step) == writer' = [writer EXCEPT ![w].at = step]

\* Mutant: only the host validates.
Unvalidated(v) == "snapshot"

\* A body that the validator refuses is refused before anything is written.
FirstStep(v) == IF v \in Rejected THEN "refused" ELSE "snapshot"

Begin(w, a, v) ==
    /\ writer[w].at = "idle"
    /\ writer' = [writer EXCEPT ![w] = [Idle EXCEPT !.at = FirstStep(v), !.art = a, !.ver = v]]
    /\ overlapped' = (overlapped \/ Busy(a) # {})
    /\ UNCHANGED <<snapshot, curation, log, loader>>

-----------------------------------------------------------------------------
(***************************************************************************)
(* _write_snapshot_verified.                                               *)
(***************************************************************************)

Stored(w) == snapshot[writer[w].art][writer[w].ver]

\* Mutant: the snapshot is left for later.
LeaveSnapshot(w) ==
    /\ writer[w].at = "snapshot"
    /\ GoTo(w, "curate")
    /\ UNCHANGED <<snapshot, curation, log, loader, overlapped>>

\* A file that is there is taken for what it should be.
LookForSnapshot(w) ==
    /\ writer[w].at = "snapshot"
    /\ GoTo(w, IF Stored(w) = "absent" THEN "write" ELSE "curate")
    /\ UNCHANGED <<snapshot, curation, log, loader, overlapped>>

\* The write is atomic; what the storage keeps may be something else.
WriteSnapshot(w) ==
    /\ writer[w].at = "write"
    /\ \E kept \in {"sound", "corrupt"} :
         snapshot' = [snapshot EXCEPT ![writer[w].art][writer[w].ver] = kept]
    /\ GoTo(w, "verify")
    /\ UNCHANGED <<curation, log, loader, overlapped>>

VerifySnapshot(w) ==
    /\ writer[w].at = "verify"
    /\ GoTo(w, IF Stored(w) = "sound" THEN "curate" ELSE "failed")
    /\ UNCHANGED <<snapshot, curation, log, loader, overlapped>>

-----------------------------------------------------------------------------
(***************************************************************************)
(* _write_curation, which keeps the created_at of the first publication,   *)
(* and _append_log_dedup.                                                  *)
(***************************************************************************)

ReadCuration(w) ==
    /\ writer[w].at = "curate"
    /\ writer' = [writer EXCEPT ![w].at = "recurate", ![w].prior = curation[writer[w].art]]
    /\ UNCHANGED <<snapshot, curation, log, loader, overlapped>>

CreatedBy(w) == IF writer[w].prior = None THEN w ELSE writer[w].prior

WriteCuration(w) ==
    /\ writer[w].at = "recurate"
    /\ curation' = [curation EXCEPT ![writer[w].art] = CreatedBy(w)]
    /\ GoTo(w, "read")
    /\ UNCHANGED <<snapshot, log, loader, overlapped>>

Logged(lines) == {lines[i] : i \in DOMAIN lines}

\* Mutant: only the last line is compared.
KnownLast(lines, v) == lines # <<>> /\ lines[Len(lines)] = v

Known(lines, v) == v \in Logged(lines)

\* A version that is in the log is not written again, wherever it stands.
ReadLog(w) ==
    /\ writer[w].at = "read"
    /\ LET lines == log[writer[w].art]
           known == Known(lines, writer[w].ver)
       IN writer' = [writer EXCEPT ![w].at = IF known THEN "published" ELSE "append",
                                   ![w].lines = lines]
    /\ UNCHANGED <<snapshot, curation, log, loader, overlapped>>

\* Mutant: a line without its hash.
LineWithoutHash(lines, v) == Append(lines, None)

\* Mutant: the log is started anew.
LineAlone(lines, v) == <<v>>

\* The whole file is written: the lines that were read, and one more.
WithLine(lines, v) == Append(lines, v)

WriteLog(w) ==
    /\ writer[w].at = "append"
    /\ log' = [log EXCEPT ![writer[w].art] = WithLine(writer[w].lines, writer[w].ver)]
    /\ GoTo(w, "published")
    /\ UNCHANGED <<snapshot, curation, loader, overlapped>>

\* A read or write raises, or the process dies between two of them.
Fail(w) ==
    /\ writer[w].at \in Steps
    /\ GoTo(w, "failed")
    /\ UNCHANGED <<snapshot, curation, log, loader, overlapped>>

\* The outcome is forgotten; the same or another artifact may be published.
Forget(w) ==
    /\ writer[w].at \in Ends
    /\ writer' = [writer EXCEPT ![w] = Idle]
    /\ UNCHANGED <<snapshot, curation, log, loader, overlapped>>

Persist(w) ==
    \/ LookForSnapshot(w) \/ WriteSnapshot(w) \/ VerifySnapshot(w)
    \/ ReadCuration(w) \/ WriteCuration(w) \/ ReadLog(w) \/ WriteLog(w)

-----------------------------------------------------------------------------
(***************************************************************************)
(* load_dataset: the name is looked up in the sidecars, then the log is    *)
(* read, then the snapshot of its last line (resolve_dataset_slug).        *)
(***************************************************************************)

LookUpName(a) ==
    /\ loader.at = "idle"
    /\ loader' = [NoLoad EXCEPT !.at = IF curation[a] = None THEN "unknown" ELSE "named",
                                !.art = a]
    /\ UNCHANGED <<snapshot, curation, log, writer, overlapped>>

ReadLatest ==
    /\ loader.at = "named"
    /\ LET lines == log[loader.art]
       IN loader' = IF lines = <<>> THEN [loader EXCEPT !.at = "unknown"]
                    ELSE [loader EXCEPT !.at = "pinned", !.ver = lines[Len(lines)]]
    /\ UNCHANGED <<snapshot, curation, log, writer, overlapped>>

ReadBytes ==
    /\ loader.at = "pinned"
    /\ loader' = [loader EXCEPT
         !.at = IF snapshot[loader.art][loader.ver] = "absent" THEN "dangling" ELSE "loaded"]
    /\ UNCHANGED <<snapshot, curation, log, writer, overlapped>>

EndLoad ==
    /\ loader.at \in {"unknown", "dangling", "loaded"}
    /\ loader' = NoLoad
    /\ UNCHANGED <<snapshot, curation, log, writer, overlapped>>

Next ==
    \/ \E w \in Writers :
         \/ \E a \in Artifacts, v \in Versions : Begin(w, a, v)
         \/ Persist(w) \/ Fail(w) \/ Forget(w)
    \/ \E a \in Artifacts : LookUpName(a)
    \/ ReadLatest \/ ReadBytes \/ EndLoad

Spec == Init /\ [][Next]_vars

-----------------------------------------------------------------------------
TypeOK ==
    /\ snapshot \in [Artifacts -> [Versions -> {"absent", "sound", "corrupt"}]]
    /\ curation \in [Artifacts -> Writers \cup {None}]
    /\ log \in [Artifacts -> Seq(Versions)]
    /\ writer \in [Writers -> [at : {"idle"} \cup Steps \cup Ends,
                               art : Artifacts \cup {None}, ver : Versions \cup {None},
                               prior : Writers \cup {None}, lines : Seq(Versions)]]
    /\ loader \in [at : {"idle", "named", "pinned", "unknown", "dangling", "loaded"},
                   art : Artifacts \cup {None}, ver : Versions \cup {None}]
    /\ overlapped \in BOOLEAN

\* What a log names can be read: its snapshot was written before, and the name
\* leads to it, at any moment and after any crash, whoever else publishes
\* (persist_artifact: snapshot, curation, log).
LoggedIsStored ==
    \A a \in Artifacts, v \in Versions : v \in Logged(log[a]) =>
        /\ snapshot[a][v] # "absent"
        /\ curation[a] # None
        /\ v \notin Rejected

\* A load by name never meets a log whose snapshot is missing ("The workspace
\* tree is corrupted"), whatever is published while it reads, and whatever
\* publication died half-way (load_dataset).
NoDanglingLoad == loader.at # "dangling"

\* One publication of an artifact at a time: what was announced as published is
\* in the log, after crashes and repetitions too (_append_log_dedup).
PublishedIsLogged ==
    ~overlapped =>
        \A w \in Writers : writer[w].at = "published" =>
            writer[w].ver \in Logged(log[writer[w].art])

\* A version stands in a log once (_append_log_dedup).
VersionsOnce ==
    \A a \in Artifacts : \A i, j \in DOMAIN log[a] : log[a][i] = log[a][j] => i = j

==============================================================================
