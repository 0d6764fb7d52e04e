-------------------------- MODULE ArtifactStoreProofs --------------------------
(***************************************************************************)
(* The safety of the artifact store for any number of writers, artifacts   *)
(* and versions.                                                           *)
(*                                                                         *)
(* What a log names was written before it was named; so whoever has come   *)
(* past a write keeps what he knows of it (snapshots and sidecars are       *)
(* never taken away), and what a writer has read of a log stays true of    *)
(* the store even when the log itself has changed since.                   *)
(***************************************************************************)
EXTENDS ArtifactStore, TLAPS

\* A version that a log may name.
Good(a, v) == /\ snapshot[a][v] # "absent"
              /\ curation[a] # None
              /\ v \notin Rejected

Written == {"verify", "curate", "recurate", "read", "append"}

\* What a writer knows, by where it is.
WriterKnows(w) ==
    LET r == writer[w]
    IN /\ r.at \in Steps \cup {"published"} => /\ r.art \in Artifacts
                                                /\ r.ver \in Versions \ Rejected
       /\ r.at \in Written => snapshot[r.art][r.ver] # "absent"
       /\ r.at \in {"read", "append"} => curation[r.art] # None
       /\ r.at = "append" => /\ \A v \in Logged(r.lines) : Good(r.art, v)
                             /\ r.ver \notin Logged(r.lines)
                             /\ \A i, j \in DOMAIN r.lines : r.lines[i] = r.lines[j] => i = j

LoaderKnows ==
    /\ loader.at \in {"named", "pinned"} => loader.art \in Artifacts
    /\ loader.at = "pinned" => /\ loader.ver \in Versions
                               /\ snapshot[loader.art][loader.ver] # "absent"
    /\ loader.at # "dangling"

\* Without overlap a writer has its artifact to itself.
Alone ==
    ~overlapped =>
        \A w \in Writers :
            /\ writer[w].at = "append" => writer[w].lines = log[writer[w].art]
            /\ writer[w].at \in Steps =>
                 \A x \in Writers : writer[x].at \in Steps /\ writer[x].art = writer[w].art
                                    => x = w

IInv ==
    /\ TypeOK /\ LoggedIsStored /\ VersionsOnce /\ PublishedIsLogged
    /\ \A w \in Writers : WriterKnows(w)
    /\ LoaderKnows
    /\ Alone

USE StoreAssumption

-----------------------------------------------------------------------------
\* A line more, and what it adds to a log (_append_log_dedup).
LEMMA LoggedAppend ==
    ASSUME NEW S, NEW lines \in Seq(S), NEW v \in S
    PROVE  /\ Append(lines, v) \in Seq(S)
           /\ Logged(Append(lines, v)) = Logged(lines) \cup {v}
           /\ v \notin Logged(lines)
              /\ (\A i, j \in DOMAIN lines : lines[i] = lines[j] => i = j)
              => \A i, j \in DOMAIN Append(lines, v) :
                    Append(lines, v)[i] = Append(lines, v)[j] => i = j
<1> DEFINE new == Append(lines, v)
<1>1. new \in Seq(S) /\ Len(new) = Len(lines) + 1
  OBVIOUS
<1>2. /\ DOMAIN new = 1 .. Len(lines) + 1
      /\ DOMAIN lines = 1 .. Len(lines)
      /\ Len(lines) \in Nat
  BY <1>1
<1>3. \A i \in 1 .. Len(lines) : new[i] = lines[i]
  OBVIOUS
<1>4. new[Len(lines) + 1] = v
  OBVIOUS
<1> HIDE DEF new
<1>5. \A i \in DOMAIN new : i \in DOMAIN lines \/ i = Len(lines) + 1
  BY <1>2
<1>6. Logged(new) = Logged(lines) \cup {v}
  BY <1>2, <1>3, <1>4, <1>5 DEF Logged
<1>7. ASSUME v \notin Logged(lines),
             \A i, j \in DOMAIN lines : lines[i] = lines[j] => i = j,
             NEW i \in DOMAIN new, NEW j \in DOMAIN new, new[i] = new[j]
      PROVE  i = j
  BY <1>2, <1>3, <1>4, <1>5, <1>7 DEF Logged
<1> QED
  BY <1>1, <1>6, <1>7 DEF new

\* The empty store satisfies the invariant.
LEMMA InitIInv == Init => IInv
<1> SUFFICES ASSUME Init PROVE IInv
  OBVIOUS
<1> USE DEF Init, Idle, NoLoad, Steps, Ends, Written
<1>1. TypeOK
  <2>1. <<>> \in Seq(Versions)
    OBVIOUS
  <2>2. /\ log \in [Artifacts -> Seq(Versions)]
        /\ \A w \in Writers : Idle \in [at : {"idle"} \cup Steps \cup Ends,
                                art : Artifacts \cup {None}, ver : Versions \cup {None},
                                prior : Writers \cup {None}, lines : Seq(Versions)]
    BY <2>1
  <2> QED
    BY <2>2 DEF TypeOK
<1>2. \A a \in Artifacts : Logged(log[a]) = {} /\ DOMAIN log[a] = {}
  BY DEF Logged
<1>3. LoggedIsStored /\ VersionsOnce /\ PublishedIsLogged
  BY <1>2 DEF LoggedIsStored, VersionsOnce, PublishedIsLogged
<1>4. \A w \in Writers : WriterKnows(w)
  BY DEF WriterKnows
<1>5. LoaderKnows /\ Alone
  BY DEF LoaderKnows, Alone
<1> QED
  BY <1>1, <1>3, <1>4, <1>5 DEF IInv

-----------------------------------------------------------------------------
\* What only one writer's record changes, in a step that leaves the files
\* alone: everything the invariant says of the others stays.
LEMMA WriterMoves ==
    ASSUME IInv, NEW w \in Writers,
           UNCHANGED <<snapshot, curation, log, loader>>,
           NEW r, writer' = [writer EXCEPT ![w] = r],
           r \in [at : {"idle"} \cup Steps \cup Ends,
                  art : Artifacts \cup {None}, ver : Versions \cup {None},
                  prior : Writers \cup {None}, lines : Seq(Versions)],
           WriterKnows(w)',
           overlapped' \in BOOLEAN,
           overlapped => overlapped',
           ~overlapped' =>
              /\ r.at = "append" => r.lines = log[r.art]
              /\ r.at = "published" => r.ver \in Logged(log[r.art])
              /\ r.at \in Steps => \A x \in Writers \ {w} :
                    ~(writer[x].at \in Steps /\ writer[x].art = r.art)
    PROVE  IInv'
<1> USE DEF IInv
<1>1. writer' [w] = r /\ \A x \in Writers \ {w} : writer'[x] = writer[x]
  BY DEF TypeOK
<1>2. TypeOK'
  BY DEF TypeOK
<1>3. LoggedIsStored' /\ VersionsOnce'
  BY DEF LoggedIsStored, VersionsOnce, Logged
<1>4. PublishedIsLogged'
  BY <1>1 DEF PublishedIsLogged, Logged
<1>5. ASSUME NEW x \in Writers PROVE WriterKnows(x)'
  <2>1. CASE x = w
    BY <2>1
  <2>2. CASE x # w
    BY <2>2, <1>1 DEF WriterKnows, Good, Logged
  <2> QED
    BY <2>1, <2>2
<1>6. LoaderKnows'
  BY DEF LoaderKnows
<1>7. Alone'
  <2> SUFFICES ASSUME ~overlapped', NEW x \in Writers
               PROVE  /\ writer'[x].at = "append" => writer'[x].lines = log'[writer'[x].art]
                      /\ writer'[x].at \in Steps =>
                           \A y \in Writers :
                              writer'[y].at \in Steps /\ writer'[y].art = writer'[x].art
                              => y = x
    BY DEF Alone, Steps
  <2>1. ~overlapped
    OBVIOUS
  <2>2. CASE x = w
    BY <2>1, <2>2, <1>1 DEF Alone
  <2>3. CASE x # w
    BY <2>1, <2>3, <1>1 DEF Alone
  <2> QED
    BY <2>2, <2>3
<1> QED
  BY <1>2, <1>3, <1>4, <1>5, <1>6, <1>7

-----------------------------------------------------------------------------
\* The records of the writers.
Records == [at : {"idle"} \cup Steps \cup Ends,
            art : Artifacts \cup {None}, ver : Versions \cup {None},
            prior : Writers \cup {None}, lines : Seq(Versions)]

\* The record of a writer that does nothing is typed.
LEMMA IdleRecord == Idle \in Records
<1>1. <<>> \in Seq(Versions)
  OBVIOUS
<1> QED
  BY <1>1 DEF Idle, Records

\* A publication begins, or is refused.
LEMMA BeginKeeps ==
    ASSUME IInv, NEW w \in Writers, NEW a \in Artifacts, NEW v \in Versions, Begin(w, a, v)
    PROVE  IInv'
<1> USE DEF IInv, Begin
<1> DEFINE r == [Idle EXCEPT !.at = FirstStep(v), !.art = a, !.ver = v]
<1>1. Idle \in Records
  BY IdleRecord
<1>2. /\ r \in Records
      /\ r.at = FirstStep(v) /\ r.art = a /\ r.ver = v
  <2>1. FirstStep(v) \in {"idle"} \cup Steps \cup Ends
    BY DEF FirstStep, Steps, Ends
  <2> QED
    BY <1>1, <2>1 DEF Records
<1>3. writer' = [writer EXCEPT ![w] = r]
  OBVIOUS
<1>4. writer'[w] = r
  <2>1. writer \in [Writers -> Records]
    BY DEF TypeOK, Records
  <2> HIDE DEF r
  <2> QED
    BY <1>3, <2>1
<1>5. WriterKnows(w)'
  BY <1>2, <1>4 DEF WriterKnows, FirstStep, Steps, Written
<1>6. ~overlapped' =>
        /\ r.at = "append" => r.lines = log[r.art]
        /\ r.at = "published" => r.ver \in Logged(log[r.art])
        /\ r.at \in Steps => \A x \in Writers \ {w} :
              ~(writer[x].at \in Steps /\ writer[x].art = r.art)
  <2> HIDE DEF r
  <2> QED
    BY <1>2 DEF FirstStep, Busy
<1>7. overlapped' \in BOOLEAN /\ (overlapped => overlapped')
  BY DEF TypeOK
<1> HIDE DEF r
<1> QED
  BY <1>2, <1>3, <1>5, <1>6, <1>7, WriterMoves DEF Records

\* A writer that only goes on to another step, or ends, and reads perhaps the
\* sidecar or the log on its way.
LEMMA StepKeeps ==
    ASSUME IInv, NEW w \in Writers, NEW at, NEW prior, NEW lines,
           UNCHANGED <<snapshot, curation, log, loader, overlapped>>,
           writer[w].at \in Steps,
           at \in Steps \cup Ends, prior \in Writers \cup {None}, lines \in Seq(Versions),
           writer' = [writer EXCEPT ![w].at = at, ![w].prior = prior, ![w].lines = lines],
           at \in Written => snapshot[writer[w].art][writer[w].ver] # "absent",
           at \in {"read", "append"} => curation[writer[w].art] # None,
           at = "append" => /\ lines = log[writer[w].art]
                            /\ writer[w].ver \notin Logged(lines),
           at = "published" => writer[w].ver \in Logged(log[writer[w].art])
    PROVE  IInv'
<1> USE DEF IInv
<1> DEFINE r == [writer[w] EXCEPT !.at = at, !.prior = prior, !.lines = lines]
<1>1. writer[w] \in Records /\ writer \in [Writers -> Records]
  BY DEF TypeOK, Records
<1>2. /\ r \in Records
      /\ r.at = at /\ r.art = writer[w].art /\ r.ver = writer[w].ver /\ r.lines = lines
  BY <1>1 DEF Records
<1>3. writer' = [writer EXCEPT ![w] = r]
  BY <1>1
<1>4. writer'[w] = r
  <2> HIDE DEF r
  <2> QED
    BY <1>1, <1>3
<1>5. writer[w].art \in Artifacts /\ writer[w].ver \in Versions \ Rejected
  BY DEF WriterKnows
<1>6. WriterKnows(w)'
  <2>1. \A v \in Logged(log[writer[w].art]) : v \in Versions
    BY <1>5 DEF TypeOK, Logged
  <2>2. at = "append" =>
          /\ \A v \in Logged(lines) : Good(writer[w].art, v)
          /\ \A i, j \in DOMAIN lines : lines[i] = lines[j] => i = j
    BY <1>5, <2>1 DEF LoggedIsStored, VersionsOnce, Good
  <2>3. /\ writer'[w].at = at /\ writer'[w].art = writer[w].art
        /\ writer'[w].ver = writer[w].ver /\ writer'[w].lines = lines
    BY <1>2, <1>4
  <2>4. at = "append" => writer[w].ver \notin Logged(lines)
    OBVIOUS
  <2>5. at = "append" =>
          /\ \A v \in Logged(lines) : /\ snapshot'[writer[w].art][v] # "absent"
                                      /\ curation'[writer[w].art] # None
                                      /\ v \notin Rejected
          /\ writer[w].ver \notin Logged(lines)
          /\ \A i, j \in DOMAIN lines : lines[i] = lines[j] => i = j
    BY <2>2, <2>4 DEF Good
  <2>6. /\ at \in Written => snapshot'[writer[w].art][writer[w].ver] # "absent"
        /\ at \in {"read", "append"} => curation'[writer[w].art] # None
    OBVIOUS
  <2>7. writer'[w].at \in Steps \cup {"published"} =>
          writer'[w].art \in Artifacts /\ writer'[w].ver \in Versions \ Rejected
    BY <1>5, <2>3
  <2>8. /\ writer'[w].at \in Written => snapshot'[writer'[w].art][writer'[w].ver] # "absent"
        /\ writer'[w].at \in {"read", "append"} => curation'[writer'[w].art] # None
    BY <2>3, <2>6
  <2>9. writer'[w].at = "append" =>
          /\ \A v \in Logged(writer'[w].lines) :
                /\ snapshot'[writer'[w].art][v] # "absent"
                /\ curation'[writer'[w].art] # None
                /\ v \notin Rejected
          /\ writer'[w].ver \notin Logged(writer'[w].lines)
          /\ \A i, j \in DOMAIN writer'[w].lines :
                writer'[w].lines[i] = writer'[w].lines[j] => i = j
    <3> HIDE DEF r
    <3>1. SUFFICES ASSUME writer'[w].at = "append"
                   PROVE  /\ \A v \in Logged(lines) :
                                /\ snapshot'[writer[w].art][v] # "absent"
                                /\ curation'[writer[w].art] # None
                                /\ v \notin Rejected
                          /\ writer[w].ver \notin Logged(lines)
                          /\ \A i, j \in DOMAIN lines : lines[i] = lines[j] => i = j
      BY <2>3, ZenonT(30)
    <3>2. at = "append"
      BY <3>1, <2>3
    <3> QED
      BY <3>2, <2>5, Zenon
  <2> QED
    BY <2>7, <2>8, <2>9 DEF WriterKnows, Good
<1>7. ~overlapped' =>
        /\ r.at = "append" => r.lines = log[r.art]
        /\ r.at = "published" => r.ver \in Logged(log[r.art])
        /\ r.at \in Steps => \A x \in Writers \ {w} :
              ~(writer[x].at \in Steps /\ writer[x].art = r.art)
  <2> HIDE DEF r
  <2> QED
    BY <1>1, <1>2 DEF Alone
<1>8. overlapped' \in BOOLEAN /\ (overlapped => overlapped')
  BY DEF TypeOK
<1> HIDE DEF r
<1> QED
  BY <1>2, <1>3, <1>6, <1>7, <1>8, WriterMoves DEF Records

\* The outcome of a publication is forgotten.
LEMMA ForgetKeeps ==
    ASSUME IInv, NEW w \in Writers, Forget(w)
    PROVE  IInv'
<1> USE DEF IInv, Forget
<1>1. Idle \in Records
  BY IdleRecord
<1>2. writer'[w] = Idle
  BY DEF TypeOK
<1>3. WriterKnows(w)'
  BY <1>2 DEF WriterKnows, Idle, Steps, Written
<1>4. Idle.at = "idle"
  BY DEF Idle
<1>5. overlapped' \in BOOLEAN /\ (overlapped => overlapped')
  BY DEF TypeOK
<1>6. ~overlapped' =>
        /\ Idle.at = "append" => Idle.lines = log[Idle.art]
        /\ Idle.at = "published" => Idle.ver \in Logged(log[Idle.art])
        /\ Idle.at \in Steps => \A x \in Writers \ {w} :
              ~(writer[x].at \in Steps /\ writer[x].art = Idle.art)
  BY <1>4 DEF Steps
<1> HIDE DEF Idle
<1> QED
  BY <1>1, <1>3, <1>5, <1>6, WriterMoves DEF Records

-----------------------------------------------------------------------------
\* Where a writer that only moves stands afterwards.
LEMMA GoToKeeps ==
    ASSUME IInv, NEW w \in Writers, NEW at,
           UNCHANGED <<snapshot, curation, log, loader, overlapped>>,
           writer[w].at \in Steps, GoTo(w, at),
           at \in {"write", "verify", "curate", "failed"},
           at \in Written => snapshot[writer[w].art][writer[w].ver] # "absent"
    PROVE  IInv'
<1> DEFINE p == writer[w].prior
           l == writer[w].lines
<1>1. writer \in [Writers -> Records]
  BY DEF IInv, TypeOK, Records
<1>2. p \in Writers \cup {None} /\ l \in Seq(Versions)
  BY <1>1 DEF Records
<1>3. writer' = [writer EXCEPT ![w].at = at, ![w].prior = p, ![w].lines = l]
  BY <1>1 DEF GoTo, Records
<1>4. at \in Steps \cup Ends
  BY DEF Steps, Ends
<1> HIDE DEF p, l
<1> QED
  BY <1>2, <1>3, <1>4, StepKeeps

\* The writer asks whether the snapshot is there already.
LEMMA LookForSnapshotKeeps ==
    ASSUME IInv, NEW w \in Writers, LookForSnapshot(w) PROVE IInv'
<1>1. CASE Stored(w) = "absent"
  BY <1>1, GoToKeeps DEF LookForSnapshot, Steps, Written
<1>2. CASE Stored(w) # "absent"
  BY <1>2, GoToKeeps DEF LookForSnapshot, Stored, Steps, Written
<1> QED
  BY <1>1, <1>2

\* The read-back finds what was written, or something else.
LEMMA VerifySnapshotKeeps ==
    ASSUME IInv, NEW w \in Writers, VerifySnapshot(w) PROVE IInv'
<1>1. CASE Stored(w) = "sound"
  BY <1>1, GoToKeeps DEF VerifySnapshot, Stored, Steps, Written
<1>2. CASE Stored(w) # "sound"
  BY <1>2, GoToKeeps DEF VerifySnapshot, Steps, Written
<1> QED
  BY <1>1, <1>2

\* A writer that fails, or dies, leaves the files as they are.
LEMMA FailKeeps ==
    ASSUME IInv, NEW w \in Writers, Fail(w) PROVE IInv'
  BY GoToKeeps DEF Fail, Written

\* The sidecar that is read, or its absence, stays with the writer.
LEMMA ReadCurationKeeps ==
    ASSUME IInv, NEW w \in Writers, ReadCuration(w) PROVE IInv'
<1> DEFINE p == curation[writer[w].art]
           l == writer[w].lines
<1>1. writer \in [Writers -> Records]
  BY DEF IInv, TypeOK, Records
<1>2. /\ writer[w].at \in Steps
      /\ writer[w].art \in Artifacts
      /\ snapshot[writer[w].art][writer[w].ver] # "absent"
  BY DEF ReadCuration, IInv, WriterKnows, Steps, Written
<1>3. p \in Writers \cup {None} /\ l \in Seq(Versions)
  BY <1>1, <1>2 DEF Records, IInv, TypeOK
<1>4. writer' = [writer EXCEPT ![w].at = "recurate", ![w].prior = p, ![w].lines = l]
  BY <1>1 DEF ReadCuration, Records
<1>5. UNCHANGED <<snapshot, curation, log, loader, overlapped>>
  BY DEF ReadCuration
<1>6. "recurate" \in Steps \cup Ends
  BY DEF Steps
<1> HIDE DEF p, l
<1> QED
  BY <1>2, <1>3, <1>4, <1>5, <1>6, StepKeeps

\* The lines that are read name what is stored, now and later.
LEMMA ReadLogKeeps ==
    ASSUME IInv, NEW w \in Writers, ReadLog(w) PROVE IInv'
<1> DEFINE p == writer[w].prior
           l == log[writer[w].art]
           at == IF Known(l, writer[w].ver) THEN "published" ELSE "append"
<1>1. writer \in [Writers -> Records]
  BY DEF IInv, TypeOK, Records
<1>2. /\ writer[w].at \in Steps
      /\ writer[w].art \in Artifacts
      /\ snapshot[writer[w].art][writer[w].ver] # "absent"
      /\ curation[writer[w].art] # None
  BY DEF ReadLog, IInv, WriterKnows, Steps, Written
<1>3. p \in Writers \cup {None} /\ l \in Seq(Versions)
  BY <1>1, <1>2 DEF Records, IInv, TypeOK
<1>4. writer' = [writer EXCEPT ![w].at = at, ![w].prior = p, ![w].lines = l]
  BY <1>1 DEF ReadLog, Records
<1>5. UNCHANGED <<snapshot, curation, log, loader, overlapped>>
  BY DEF ReadLog
<1>6. /\ at \in Steps \cup Ends
      /\ at = "append" => writer[w].ver \notin Logged(l)
      /\ at = "published" => writer[w].ver \in Logged(l)
      /\ at = "append" => l = log[writer[w].art]
      /\ at = "published" => writer[w].ver \in Logged(log[writer[w].art])
  BY DEF Known, Steps, Ends
<1> HIDE DEF p, l, at
<1> QED
  BY <1>2, <1>3, <1>4, <1>5, <1>6, StepKeeps

-----------------------------------------------------------------------------
\* The record of one writer moves to a step, and the others' stay.
LEMMA Moved ==
    ASSUME IInv, NEW w \in Writers, NEW at \in Steps \cup Ends, GoTo(w, at)
    PROVE  /\ writer' \in [Writers -> Records]
           /\ writer'[w].at = at
           /\ writer'[w].art = writer[w].art
           /\ writer'[w].ver = writer[w].ver
           /\ writer'[w].lines = writer[w].lines
           /\ \A x \in Writers \ {w} : writer'[x] = writer[x]
<1>1. writer \in [Writers -> Records]
  BY DEF IInv, TypeOK, Records
<1>2. /\ [writer[w] EXCEPT !.at = at] \in Records
      /\ writer' = [writer EXCEPT ![w] = [writer[w] EXCEPT !.at = at]]
  BY <1>1 DEF GoTo, Records
<1> QED
  BY <1>1, <1>2 DEF Records

\* A snapshot is added, sound or corrupt; none is taken away.
LEMMA WriteSnapshotKeeps ==
    ASSUME IInv, NEW w \in Writers, WriteSnapshot(w) PROVE IInv'
<1> USE DEF IInv
<1> DEFINE b == writer[w].art
           u == writer[w].ver
<1>1. b \in Artifacts /\ u \in Versions \ Rejected
  BY DEF WriteSnapshot, WriterKnows, Steps
<1>2. PICK kept \in {"sound", "corrupt"} : snapshot' = [snapshot EXCEPT ![b][u] = kept]
  BY DEF WriteSnapshot
<1>3. GoTo(w, "verify") /\ UNCHANGED <<curation, log, loader, overlapped>>
  BY DEF WriteSnapshot
<1>4. /\ writer' \in [Writers -> Records]
      /\ writer'[w].at = "verify" /\ writer'[w].art = b /\ writer'[w].ver = u
      /\ \A x \in Writers \ {w} : writer'[x] = writer[x]
  BY <1>3, Moved DEF Steps
<1>5. /\ snapshot' \in [Artifacts -> [Versions -> {"absent", "sound", "corrupt"}]]
      /\ snapshot'[b][u] # "absent"
      /\ \A a \in Artifacts, v \in Versions :
            snapshot[a][v] # "absent" => snapshot'[a][v] # "absent"
  BY <1>1, <1>2 DEF TypeOK
<1> HIDE DEF b, u
<1>6. TypeOK'
  BY <1>3, <1>4, <1>5 DEF TypeOK, Records
<1>7. LoggedIsStored' /\ VersionsOnce'
  BY <1>3, <1>5 DEF LoggedIsStored, VersionsOnce
<1>8. PublishedIsLogged'
  BY <1>3, <1>4 DEF PublishedIsLogged
<1>9. ASSUME NEW x \in Writers PROVE WriterKnows(x)'
  <2>1. CASE x = w
    BY <2>1, <1>1, <1>4, <1>5 DEF WriterKnows, Written
  <2>2. CASE x # w
    <3>1. writer'[x] = writer[x] /\ writer[x] \in Records
      BY <2>2, <1>4 DEF TypeOK, Records
    <3>2. \A v \in Logged(writer[x].lines) : v \in Versions
      BY <3>1 DEF Logged, Records
    <3>3. Written \subseteq Steps
      BY DEF Written, Steps
    <3>4. WriterKnows(x)
      OBVIOUS
    <3>5. writer[x].at = "append" => writer[x].art \in Artifacts
      BY <3>4 DEF WriterKnows, Steps
    <3>6. \A v : Good(writer[x].art, v) /\ writer[x].art \in Artifacts /\ v \in Versions
            => /\ snapshot'[writer[x].art][v] # "absent"
               /\ curation'[writer[x].art] # None
               /\ v \notin Rejected
      BY <1>3, <1>5 DEF Good
    <3> QED
      BY <3>1, <3>2, <3>3, <3>4, <3>5, <3>6, <1>3, <1>5 DEF WriterKnows, Good
  <2> QED
    BY <2>1, <2>2
<1>10. LoaderKnows'
  BY <1>3, <1>5 DEF LoaderKnows
<1>11. Alone'
  BY <1>3, <1>4 DEF Alone, Steps, WriteSnapshot, b
<1> QED
  BY <1>6, <1>7, <1>8, <1>9, <1>10, <1>11

\* A sidecar is written for a version that is stored.
LEMMA WriteCurationKeeps ==
    ASSUME IInv, NEW w \in Writers, WriteCuration(w) PROVE IInv'
<1> USE DEF IInv
<1> DEFINE b == writer[w].art
           u == writer[w].ver
<1>1. b \in Artifacts /\ u \in Versions \ Rejected /\ snapshot[b][u] # "absent"
  BY DEF WriteCuration, WriterKnows, Steps, Written
<1>2. /\ curation' = [curation EXCEPT ![b] = CreatedBy(w)]
      /\ GoTo(w, "read") /\ UNCHANGED <<snapshot, log, loader, overlapped>>
  BY DEF WriteCuration
<1>3. CreatedBy(w) \in Writers
  <2>1. writer[w] \in Records
    BY DEF TypeOK, Records
  <2> QED
    BY <2>1 DEF CreatedBy, Records
<1>4. /\ writer' \in [Writers -> Records]
      /\ writer'[w].at = "read" /\ writer'[w].art = b /\ writer'[w].ver = u
      /\ \A x \in Writers \ {w} : writer'[x] = writer[x]
  BY <1>2, Moved DEF Steps
<1>5. /\ curation' \in [Artifacts -> Writers \cup {None}]
      /\ curation'[b] # None
      /\ \A a \in Artifacts : curation[a] # None => curation'[a] # None
  BY <1>1, <1>2, <1>3 DEF TypeOK
<1> HIDE DEF b, u
<1>6. TypeOK'
  BY <1>2, <1>4, <1>5 DEF TypeOK, Records
<1>7. LoggedIsStored' /\ VersionsOnce'
  BY <1>2, <1>5 DEF LoggedIsStored, VersionsOnce
<1>8. PublishedIsLogged'
  BY <1>2, <1>4 DEF PublishedIsLogged
<1>9. ASSUME NEW x \in Writers PROVE WriterKnows(x)'
  <2>1. CASE x = w
    BY <2>1, <1>1, <1>2, <1>4, <1>5 DEF WriterKnows, Written
  <2>2. CASE x # w
    <3>1. writer'[x] = writer[x] /\ writer[x] \in Records
      BY <2>2, <1>4 DEF TypeOK, Records
    <3>2. WriterKnows(x)
      OBVIOUS
    <3>3. writer[x].at \in {"read", "append"} => writer[x].art \in Artifacts
      BY <3>2 DEF WriterKnows, Steps
    <3>4. \A v : Good(writer[x].art, v) /\ writer[x].art \in Artifacts
            => /\ snapshot'[writer[x].art][v] # "absent"
               /\ curation'[writer[x].art] # None
               /\ v \notin Rejected
      BY <1>2, <1>5 DEF Good
    <3> QED
      BY <3>1, <3>2, <3>3, <3>4, <1>2, <1>5 DEF WriterKnows, Good
  <2> QED
    BY <2>1, <2>2
<1>10. LoaderKnows'
  BY <1>2 DEF LoaderKnows
<1>11. Alone'
  BY <1>2, <1>4 DEF Alone, Steps, WriteCuration, b
<1> QED
  BY <1>6, <1>7, <1>8, <1>9, <1>10, <1>11

\* The log becomes the lines of before and one more, all of them stored.
LEMMA WriteLogKeeps ==
    ASSUME IInv, NEW w \in Writers, WriteLog(w) PROVE IInv'
<1> USE DEF IInv
<1> DEFINE b == writer[w].art
           u == writer[w].ver
           l == writer[w].lines
           new == WithLine(l, u)
<1>0. writer[w] \in Records
  BY DEF TypeOK, Records
<1>1. /\ b \in Artifacts /\ u \in Versions \ Rejected
      /\ snapshot[b][u] # "absent" /\ curation[b] # None
      /\ u \notin Logged(l) /\ \A v \in Logged(l) : Good(b, v)
      /\ \A i, j \in DOMAIN l : l[i] = l[j] => i = j
  BY DEF WriteLog, WriterKnows, Steps, Written
<1>2. l \in Seq(Versions)
  BY <1>0 DEF Records
<1>3. /\ log' = [log EXCEPT ![b] = new]
      /\ GoTo(w, "published") /\ UNCHANGED <<snapshot, curation, loader, overlapped>>
  BY DEF WriteLog
<1>4. /\ writer' \in [Writers -> Records]
      /\ writer'[w].at = "published" /\ writer'[w].art = b /\ writer'[w].ver = u
      /\ \A x \in Writers \ {w} : writer'[x] = writer[x]
  BY <1>3, Moved DEF Ends
<1>5. ~overlapped => l = log[b]
  BY DEF Alone, WriteLog
<1>6. writer[w].at = "append"
  BY DEF WriteLog
<1> HIDE DEF b, u, l
<1>7. /\ new \in Seq(Versions)
      /\ Logged(new) = Logged(l) \cup {u}
      /\ \A i, j \in DOMAIN new : new[i] = new[j] => i = j
  BY <1>1, <1>2, LoggedAppend DEF WithLine
<1> HIDE DEF new
<1>8. log' \in [Artifacts -> Seq(Versions)] /\ log'[b] = new
      /\ \A a \in Artifacts \ {b} : log'[a] = log[a]
  BY <1>1, <1>3, <1>7 DEF TypeOK
<1>9. TypeOK'
  BY <1>3, <1>4, <1>8 DEF TypeOK, Records
<1>10. LoggedIsStored'
  BY <1>1, <1>3, <1>7, <1>8 DEF LoggedIsStored, Good
<1>11. VersionsOnce'
  BY <1>7, <1>8 DEF VersionsOnce
<1>12. PublishedIsLogged'
  <2> SUFFICES ASSUME ~overlapped, NEW x \in Writers, writer'[x].at = "published"
               PROVE  writer'[x].ver \in Logged(log'[writer'[x].art])
    BY <1>3 DEF PublishedIsLogged
  <2>1. CASE x = w
    BY <2>1, <1>4, <1>7, <1>8
  <2>2. CASE x # w
    <3>1. writer[x].ver \in Logged(log[writer[x].art]) /\ writer'[x] = writer[x]
      BY <2>2, <1>4 DEF PublishedIsLogged
    <3>2. CASE writer[x].art = b
      BY <3>1, <3>2, <1>5, <1>7, <1>8
    <3>3. CASE writer[x].art # b
      <4>1. writer[x].art \in Artifacts
        BY <3>1, <2>2 DEF WriterKnows
      <4> QED
        BY <4>1, <3>1, <3>3, <1>8
    <3> QED
      BY <3>2, <3>3
  <2> QED
    BY <2>1, <2>2
<1>13. ASSUME NEW x \in Writers PROVE WriterKnows(x)'
  <2>1. CASE x = w
    BY <2>1, <1>1, <1>4 DEF WriterKnows, Written
  <2>2. CASE x # w
    <3>1. writer'[x] = writer[x] /\ WriterKnows(x)
      BY <2>2, <1>4
    <3> QED
      BY <3>1, <1>3 DEF WriterKnows, Good
  <2> QED
    BY <2>1, <2>2
<1>14. LoaderKnows'
  BY <1>3 DEF LoaderKnows
<1>15. Alone'
  <2> SUFFICES ASSUME ~overlapped, NEW x \in Writers
               PROVE  /\ writer'[x].at = "append" => writer'[x].lines = log'[writer'[x].art]
                      /\ writer'[x].at \in Steps =>
                           \A y \in Writers :
                              writer'[y].at \in Steps /\ writer'[y].art = writer'[x].art
                              => y = x
    BY <1>3 DEF Alone
  <2>1. CASE x = w
    BY <2>1, <1>4 DEF Steps
  <2>2. CASE x # w
    <3>1. writer'[x] = writer[x]
      BY <2>2, <1>4
    <3>2. writer[x].at \in Steps => writer[x].art # b /\ writer[x].art \in Artifacts
      BY <2>2, <1>6 DEF Alone, Steps, WriterKnows, b
    <3>3. "append" \in Steps
      BY DEF Steps
    <3>4. writer[x].at = "append" => log'[writer[x].art] = log[writer[x].art]
      BY <3>2, <3>3, <1>8
    <3>5. \A y \in Writers : writer'[y].at \in Steps => writer[y].at \in Steps /\ writer'[y] = writer[y]
      BY <1>4 DEF Steps
    <3> QED
      BY <3>1, <3>4, <3>5 DEF Alone
  <2> QED
    BY <2>1, <2>2
<1> QED
  BY <1>9, <1>10, <1>11, <1>12, <1>13, <1>14, <1>15

-----------------------------------------------------------------------------
\* A load reads files and changes none.
LEMMA LoadKeeps ==
    ASSUME IInv,
           \/ \E a \in Artifacts : LookUpName(a)
           \/ ReadLatest \/ ReadBytes \/ EndLoad
    PROVE  IInv'
<1> USE DEF IInv
<1>1. UNCHANGED <<snapshot, curation, log, writer, overlapped>>
  BY DEF LookUpName, ReadLatest, ReadBytes, EndLoad
<1>2. /\ LoggedIsStored' /\ VersionsOnce' /\ PublishedIsLogged' /\ Alone'
      /\ \A w \in Writers : WriterKnows(w)'
  BY <1>1 DEF LoggedIsStored, VersionsOnce, PublishedIsLogged, Alone, WriterKnows, Good
<1> DEFINE Loads == [at : {"idle", "named", "pinned", "unknown", "dangling", "loaded"},
                     art : Artifacts \cup {None}, ver : Versions \cup {None}]
<1>3. loader \in Loads /\ NoLoad \in Loads
  BY DEF TypeOK, NoLoad
<1>4. loader' \in Loads /\ LoaderKnows'
  <2>1. CASE \E a \in Artifacts : LookUpName(a)
    BY <2>1, <1>1, <1>3 DEF LookUpName, LoaderKnows, NoLoad
  <2>2. CASE ReadLatest
    <3> DEFINE lines == log[loader.art]
               last == lines[Len(lines)]
    <3>1. loader.art \in Artifacts /\ lines \in Seq(Versions)
      BY <2>2 DEF ReadLatest, LoaderKnows, TypeOK
    <3>2. CASE lines = <<>>
      BY <3>2, <2>2, <1>3 DEF ReadLatest, LoaderKnows
    <3>3. CASE lines # <<>>
      <4> HIDE DEF lines
      <4>1. last \in Versions /\ last \in Logged(lines)
        BY <3>1, <3>3 DEF Logged
      <4>2. snapshot[loader.art][last] # "absent"
        BY <4>1, <3>1 DEF LoggedIsStored, lines
      <4>3. loader' = [loader EXCEPT !.at = "pinned", !.ver = last]
        BY <2>2, <3>3 DEF ReadLatest, lines
      <4> HIDE DEF last
      <4>4. loader' \in Loads /\ loader'.at = "pinned" /\ loader'.ver = last
            /\ loader'.art = loader.art
        BY <4>1, <4>3, <1>3
      <4> QED
        BY <4>1, <4>2, <4>4, <3>1, <1>1 DEF LoaderKnows
    <3> QED
      BY <3>2, <3>3
  <2>3. CASE ReadBytes
    <3>1. loader' = [loader EXCEPT !.at = "loaded"]
      BY <2>3 DEF ReadBytes, LoaderKnows
    <3> QED
      BY <3>1, <1>3 DEF LoaderKnows
  <2>4. CASE EndLoad
    BY <2>4, <1>3 DEF EndLoad, LoaderKnows, NoLoad
  <2> QED
    BY <2>1, <2>2, <2>3, <2>4
<1>5. TypeOK'
  BY <1>1, <1>4 DEF TypeOK
<1> QED
  BY <1>2, <1>4, <1>5

-----------------------------------------------------------------------------
\* Nothing happens.
LEMMA StutterKeeps == IInv /\ UNCHANGED vars => IInv'
  BY DEF vars, IInv, TypeOK, LoggedIsStored, VersionsOnce, PublishedIsLogged, WriterKnows,
         Good, LoaderKnows, Alone, Busy

\* The invariant is inductive: writers may overlap, fail and be forgotten at any
\* step, and the loader may run between any two.
THEOREM InductiveStore == Spec => []IInv
<1>1. ASSUME IInv, Next PROVE IInv'
  <2>1. CASE \E w \in Writers : \E a \in Artifacts, v \in Versions : Begin(w, a, v)
    BY <1>1, <2>1, BeginKeeps
  <2>2. CASE \E w \in Writers : Persist(w)
    BY <1>1, <2>2, LookForSnapshotKeeps, WriteSnapshotKeeps, VerifySnapshotKeeps,
       ReadCurationKeeps, WriteCurationKeeps, ReadLogKeeps, WriteLogKeeps DEF Persist
  <2>3. CASE \E w \in Writers : Fail(w) \/ Forget(w)
    BY <1>1, <2>3, FailKeeps, ForgetKeeps
  <2>4. CASE (\E a \in Artifacts : LookUpName(a)) \/ ReadLatest \/ ReadBytes \/ EndLoad
    BY <1>1, <2>4, LoadKeeps
  <2> QED
    BY <1>1, <2>1, <2>2, <2>3, <2>4 DEF Next
<1> QED
  BY <1>1, InitIInv, StutterKeeps, PTL DEF Spec

\* The variables of the store keep their types (persist_artifact, load_dataset).
THEOREM StoreTypes == Spec => []TypeOK
<1>1. IInv => TypeOK
  BY DEF IInv
<1> QED
  BY <1>1, InductiveStore, PTL

\* Whatever a log names has been stored under a curated name, after any crash
\* and beside any other publication (persist_artifact's order of writes).
THEOREM LogNamesStored == Spec => []LoggedIsStored
<1>1. IInv => LoggedIsStored
  BY DEF IInv
<1> QED
  BY <1>1, InductiveStore, PTL

\* A log never repeats a version, however its writers overlap
\* (_append_log_dedup).
THEOREM LogIsASet == Spec => []VersionsOnce
<1>1. IInv => VersionsOnce
  BY DEF IInv
<1> QED
  BY <1>1, InductiveStore, PTL

\* A load by name is never led to a snapshot that is not there, although it
\* reads three files at three moments (load_dataset, resolve_dataset_slug).
THEOREM LoadsFind == Spec => []NoDanglingLoad
<1>1. IInv => NoDanglingLoad
  BY DEF IInv, LoaderKnows, NoDanglingLoad
<1> QED
  BY <1>1, InductiveStore, PTL

\* With one publication of an artifact at a time, what is announced as published
\* is in the log and stays there (_append_log_dedup).
THEOREM AnnouncedIsLogged == Spec => []PublishedIsLogged
<1>1. IInv => PublishedIsLogged
  BY DEF IInv
<1> QED
  BY <1>1, InductiveStore, PTL

==============================================================================
