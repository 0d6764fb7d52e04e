------------------------------- MODULE Prompt --------------------------------
(***************************************************************************)
(* What the model is shown: the conversation of one terminal over several  *)
(* turns, the context snapshot that is rebuilt before every request, the   *)
(* seen-set that is read back out of the messages, and the prompt that     *)
(* render_for_llm makes of it all (agent/renderer.py, seen_refs.py,        *)
(* session_state.py, models.py, Agent.run and Agent.resume).               *)
(*                                                                         *)
(* A message is its role, a number that tells the tool results apart, and  *)
(* the live names a scan of it finds.  Which failure is answered how is    *)
(* RunLoop's subject: here any failure may end in any way.                 *)
(***************************************************************************)
EXTENDS FailurePolicy, FiniteSets, SequencesExt

CONSTANTS
    Names,         \* live names of the artifacts of the workspace
    Kinds,         \* failure kinds that occur
    Hosted,        \* a host with several terminals; else local_discovery
    Batches,       \* the sequences of calls an answer may consist of
    MaxIterations, \* bound on the iterations of a behaviour
    MaxAnswers,    \* bound on the answers in a conversation
    MaxTurns       \* bound on the runs and resumes of a behaviour

ASSUME HostedAssumption == Hosted \in BOOLEAN

ASSUME BoundsAssumption ==
    MaxIterations \in Nat /\ MaxAnswers \in Nat /\ MaxTurns \in Nat

ASSUME KindsAssumption == Kinds \subseteq FailureKind

\* A call is what it does, and the name it does it to.
ASSUME BatchesAssumption == Batches \subseteq Seq({"read", "write", "work"} \X Names)

VARIABLES
    phase,      \* where the turn stands
    messages,   \* ctx.messages, which state.messages equals at every request
    rows,       \* session_state.workspace_artifacts
    minted,     \* turn_state.minted_live_names
    pending,    \* state.pending_instruction is set
    lessons,    \* the kinds of state.lessons_learned
    record,     \* the SuspensionRecord the host holds
    published,  \* live names that have a curation in the workspace
    iterations, turns, \* how many there were: the bounds of a run
    \* Auxiliary: no guard of the program reads the next four.
    read,       \* tool results an answered request has shown in full
    touched,    \* names this terminal has written or read in the conversation
    failed,     \* kinds that failed in this run
    later       \* <<j, k>>: k has failed since j failed last

conversation == <<messages, rows, minted>>
failure == <<pending, lessons, failed, later>>
bounds == <<iterations, turns>>
vars == <<phase, conversation, failure, record, published, bounds, read, touched>>

NoRecord == [messages |-> <<>>]
AtRest == {"idle", "raised"}

-----------------------------------------------------------------------------
(***************************************************************************)
(* The seen-set and the context snapshot.                                  *)
(***************************************************************************)

Plain(role) == [role |-> role, id |-> 0, names |-> {}]

\* The result of a tool call; read_artifact prepends a tag with the name.
ToolMessage(id, tags) == [role |-> "tool", id |-> id, names |-> tags]

IsSnapshot(m) == m.role = "snapshot"

\* extract_seen_live_names: the tags of the tool results, and the keys of
\* minted_live_names in a snapshot; the rows of the workspace are passed over.
SeenIn(ms) == UNION {m.names : m \in ToSet(ms)}

\* Mutant: the scan takes the rows of the workspace for tags.
SeenWithRows(ms) ==
    SeenIn(ms) \cup UNION {m.rows : m \in {s \in ToSet(ms) : IsSnapshot(s)}}

Seen(ms) == SeenIn(ms)

\* ctx.to_snapshot: what was seen is computed on the messages as they are, the
\* previous snapshot among them; a standalone agent has seen all of its rows.
Snapshot(ms, inRows, fresh) ==
    [role |-> "snapshot", id |-> 0, names |-> fresh, rows |-> inRows,
     seen |-> Seen(ms) \cup (IF Hosted THEN {} ELSE inRows)]

\* The messages of another role than this one, in their order.
WithoutRole(ms, role) ==
    LET kept[i \in 0 .. Len(ms)] ==
          IF i = 0 THEN <<>>
          ELSE IF ms[i].role = role THEN kept[i - 1] ELSE Append(kept[i - 1], ms[i])
    IN kept[Len(ms)]

WithoutSnapshots(ms) == WithoutRole(ms, "snapshot")

\* Mutant: the old snapshots stay.
Snapped(ms, inRows, fresh) == Append(ms, Snapshot(ms, inRows, fresh))

\* The old snapshots go, a new one is appended.
Resnapped(ms, inRows, fresh) ==
    Append(WithoutSnapshots(ms), Snapshot(ms, inRows, fresh))

\* fuse_workspace_artifacts: the rows this terminal has seen, then its mints.
Listed(s) == (s.rows \cap s.seen) \cup s.names

\* The connector catalog and the skills, right after the system prompt.
WithCatalog(ms) ==
    LET others == WithoutRole(ms, "catalog")
    IN <<others[1], Plain("catalog")>> \o Tail(others)

-----------------------------------------------------------------------------
(***************************************************************************)
(* render_for_llm.                                                         *)
(***************************************************************************)

RecentIterations == 2

\* All snapshots but the last are dropped.
ToRender(ms) ==
    LET snapshots == {i \in DOMAIN ms : IsSnapshot(ms[i])}
        last == CHOOSE i \in snapshots : \A j \in snapshots : j <= i
    IN IF Cardinality(snapshots) <= 1 THEN ms
       ELSE Append(WithoutSnapshots(SubSeq(ms, 1, last)), ms[last])
            \o SubSeq(ms, last + 1, Len(ms))

AssistantAt(ms) == {i \in DOMAIN ms : ms[i].role = "assistant"}
ToolAt(ms) == {i \in DOMAIN ms : ms[i].role = "tool"}

\* Mutant: the window is counted in messages.
CutoffByMessages(ms) == Len(ms) - RecentIterations

\* The second last answer of the model: what came before is compacted.
Cutoff(ms) ==
    IF Cardinality(AssistantAt(ms)) <= RecentIterations THEN 0
    ELSE CHOOSE i \in AssistantAt(ms) :
           Cardinality({j \in AssistantAt(ms) : j >= i}) = RecentIterations

\* infer_message_mode.
Mode(ms, i) ==
    IF /\ i \in ToolAt(ms)
       /\ \E j \in ToolAt(ms) : j > i
       /\ i < Cutoff(ms)
    THEN "minimal" ELSE "default"

Inserted == [role |-> "user", id |-> 0, mode |-> "default"]
Instruction == IF pending THEN <<Inserted>> ELSE <<>>
Addendum == IF lessons # <<>> THEN <<Inserted>> ELSE <<>>

\* The history stands between the pending instruction and the lessons; the
\* system prompt is its first message.
Rendered ==
    LET ms == ToRender(messages)
        shown(i) == [role |-> ms[i].role, id |-> ms[i].id, mode |-> Mode(ms, i)]
    IN Instruction \o [i \in DOMAIN ms |-> shown(i)] \o Addendum

\* The tool results that the prompt has in a mode.
ResultsIn(mode) ==
    {m.id : m \in {n \in ToSet(Rendered) : n.role = "tool" /\ n.mode = mode}}

-----------------------------------------------------------------------------
(***************************************************************************)
(* Turns.                                                                  *)
(***************************************************************************)

\* What a suspension keeps.  The mints of the turn are in another object than
\* the one it copies from, so the record has none.
Saved == [messages |-> messages, lessons |-> lessons, failed |-> failed,
          later |-> later]

\* A new run: the host passes its context on or starts a new one, and drops a
\* record it has not resumed; "continue" adds no message; the session state is
\* read anew; the seed has no mints.
StartTurn(anew, continues) ==
    /\ phase \in AtRest /\ turns < MaxTurns
    /\ messages = <<>> => anew
    /\ anew => ~continues
    /\ LET base == WithCatalog(IF anew THEN <<Plain("system")>> ELSE messages)
           asked == IF continues THEN base ELSE Append(base, Plain("user"))
       IN messages' = Resnapped(asked, published, {})
    /\ touched' = IF anew THEN {} ELSE touched
    /\ read' = IF anew THEN {} ELSE read
    /\ phase' = "top"
    /\ rows' = published /\ minted' = {}
    /\ pending' = FALSE /\ lessons' = <<>> /\ failed' = {} /\ later' = {}
    /\ record' = NoRecord
    /\ turns' = turns + 1
    /\ UNCHANGED <<published, iterations>>

\* Agent.resume of a record the host kept in memory.
ResumeKept ==
    /\ phase \in AtRest /\ record # NoRecord /\ turns < MaxTurns
    /\ messages' = Resnapped(Append(WithCatalog(record.messages), Plain("user")),
                             published, {})
    /\ phase' = "top"
    /\ rows' = published /\ minted' = {}
    /\ pending' = FALSE /\ lessons' = record.lessons
    /\ failed' = record.failed /\ later' = record.later
    /\ record' = NoRecord
    /\ turns' = turns + 1
    /\ UNCHANGED <<published, iterations, read, touched>>

\* Agent.resume of a record that went through JSON: its messages are dicts,
\* which have no attribute metadata, and the catalog cannot be put in place.
ResumeStored ==
    /\ phase \in AtRest /\ record # NoRecord
    /\ Len(record.messages) > 1
    /\ phase' = "raised"
    /\ UNCHANGED <<conversation, failure, record, published, bounds, read, touched>>

\* Another terminal of the host publishes.
OtherPublishes ==
    /\ Hosted
    /\ \E n \in Names \ published : published' = published \cup {n}
    /\ UNCHANGED <<phase, conversation, failure, record, bounds, read, touched>>

-----------------------------------------------------------------------------
(***************************************************************************)
(* Iterations.                                                             *)
(***************************************************************************)

\* A failure is handled: its lesson is learned, and the loop goes on, with or
\* without an instruction, or ends the turn, with or without a suspension.
Fails(k, ms) ==
    /\ lessons' = TrackLesson(lessons, k)
    /\ failed' = failed \cup {k}
    /\ later' = {p \in later : p[1] # k /\ p[2] # k}
                  \cup ((failed \ {k}) \X {k})
    /\ messages' = ms
    /\ \/ phase' = "top" /\ pending' \in {pending, TRUE} /\ UNCHANGED record
       \/ phase' = "idle" /\ UNCHANGED <<pending, record>>
       \/ /\ phase' = "idle" /\ UNCHANGED pending
          /\ record' = [Saved EXCEPT !.messages = ms, !.lessons = lessons',
                                     !.failed = failed', !.later = later']

\* A kind that failed before, or the first that has not.
MayFail == failed \cup (IF failed = Kinds THEN {}
                        ELSE {CHOOSE k \in Kinds : k \notin failed})

\* pre_step refuses the iteration before the snapshot is rebuilt.
LimitHit ==
    /\ phase = "top" /\ iterations < MaxIterations
    /\ \E k \in MayFail : Fails(k, messages)
    /\ iterations' = iterations + 1
    /\ UNCHANGED <<rows, minted, published, turns, read, touched>>

MayAsk ==
    /\ phase = "top" /\ iterations < MaxIterations
    /\ Cardinality(AssistantAt(messages)) < MaxAnswers

\* on_iteration_start rebuilds the snapshot, then the prompt goes out.
Request ==
    /\ MayAsk
    /\ messages' = Resnapped(messages, rows, minted)
    /\ phase' = "asked"
    /\ iterations' = iterations + 1
    /\ UNCHANGED <<rows, minted, failure, record, published, turns, read, touched>>

\* The request fails: there is no answer to keep.
RequestFails ==
    /\ phase = "asked"
    /\ \E k \in MayFail : Fails(k, messages)
    /\ UNCHANGED <<rows, minted, published, bounds, read, touched>>

\* The answer is kept and refused, or it has no calls: a failure of its own.
AnswerRejected ==
    /\ phase = "asked"
    /\ \E k \in MayFail : Fails(k, Append(messages, Plain("assistant")))
    /\ read' = read \cup ResultsIn("default")
    /\ UNCHANGED <<rows, minted, published, bounds, touched>>

\* May a call that writes the name n go through?  A name nobody has is free;
\* one that is taken must have been seen.
Resolves(n) == n \notin published \/ n \in Seen(messages)

\* What one call does: it reads or writes an artifact, or neither.
Reads(c) == IF c[1] = "read" /\ c[2] \in published THEN {c[2]} ELSE {}
Writes(c) == IF c[1] = "write" /\ Resolves(c[2]) THEN {c[2]} ELSE {}

ReadBy(batch) == UNION {Reads(c) : c \in ToSet(batch)}
WrittenBy(batch) == UNION {Writes(c) : c \in ToSet(batch)}

\* The answer and the results of its calls are appended; the run goes on, or a
\* terminating call ends it, ask_user with a suspension.
Answer ==
    /\ phase = "asked"
    /\ \E batch \in Batches :
         LET first == Cardinality(ToolAt(messages))
             results == [i \in DOMAIN batch |-> ToolMessage(first + i, Reads(batch[i]))]
         IN /\ messages' = Append(messages, Plain("assistant")) \o results
            /\ minted' = minted \cup WrittenBy(batch)
            /\ published' = published \cup WrittenBy(batch)
            /\ touched' = touched \cup WrittenBy(batch) \cup ReadBy(batch)
    /\ read' = read \cup ResultsIn("default")
    /\ \/ phase' = "top" /\ UNCHANGED record
       \/ phase' = "idle" /\ UNCHANGED record
       \/ phase' = "idle" /\ record' = [Saved EXCEPT !.messages = messages']
    /\ UNCHANGED <<rows, failure, bounds>>

-----------------------------------------------------------------------------
Init ==
    /\ phase = "idle" /\ messages = <<>> /\ rows = {} /\ minted = {}
    /\ pending = FALSE /\ lessons = <<>> /\ record = NoRecord
    /\ published = {} /\ iterations = 0 /\ turns = 0
    /\ read = {} /\ touched = {} /\ failed = {} /\ later = {}

Next ==
    \/ \E anew, continues \in BOOLEAN : StartTurn(anew, continues)
    \/ ResumeKept \/ ResumeStored \/ OtherPublishes
    \/ LimitHit \/ Request \/ RequestFails \/ AnswerRejected \/ Answer

Spec == Init /\ [][Next]_vars

-----------------------------------------------------------------------------
(***************************************************************************)
(* Properties.                                                             *)
(***************************************************************************)

Roles == {"system", "catalog", "user", "assistant", "tool", "snapshot"}

\* The types; a conversation that has begun has its system prompt first, the
\* catalog second, and one snapshot, which is the last message of a request.
TypeOK ==
    /\ phase \in AtRest \cup {"top", "asked"}
    /\ \A i \in DOMAIN messages : messages[i].role \in Roles
    /\ \A s \in {rows, minted, published, touched} : s \subseteq Names
    /\ pending \in BOOLEAN /\ failed \subseteq Kinds /\ later \subseteq Kinds \X Kinds
    /\ read \subseteq {messages[i].id : i \in ToolAt(messages)}
    /\ iterations \in 0..MaxIterations /\ turns \in 0..MaxTurns
    /\ messages # <<>> =>
         /\ messages[1].role = "system" /\ messages[2].role = "catalog"
         /\ Cardinality({i \in DOMAIN messages : IsSnapshot(messages[i])}) = 1
    /\ phase = "asked" => IsSnapshot(Last(messages))

\* A tool result is compacted only when the model has had it in full in a
\* request it answered: requests that failed in between, refused answers, text
\* and the boundaries of turns do not use up the window.
ResultsAreRead ==
    phase = "asked" => ResultsIn("minimal") \subseteq read

\* <turn_artifacts> has everything this terminal has published in the turn, and
\* nothing of another terminal that it has not read; a standalone agent owns
\* the whole workspace.
TurnArtifactsAreMine ==
    phase = "asked" =>
        /\ minted \subseteq Listed(Last(messages))
        /\ Hosted => Listed(Last(messages)) \subseteq touched

\* The list of lessons holds the kinds that failed last, the oldest first, and
\* as many of them as fit, also across a suspension (_track_lesson).
LessonsAreTheLatest ==
    LET listed == ToSet(lessons)
    IN /\ Len(lessons) = Cardinality(listed)
       /\ listed \subseteq failed
       /\ Len(lessons) = LessonsCap \/ listed = failed
       /\ \A i, j \in DOMAIN lessons : i < j => <<lessons[i], lessons[j]>> \in later
       /\ (failed \ listed) \X listed \subseteq later

\* A suspension record that was stored as JSON can be resumed
\* (docs/guides/suspend-resume.md).
StoredRecordResumes == phase # "raised"

==============================================================================
