----------------------------- MODULE Conversation -----------------------------
(***************************************************************************)
(* The life of a conversation turn on disk: brain/chat persists it to the  *)
(* session's buffer, brain/ingest extracts it into memories behind a       *)
(* cursor, brain/chat/compaction folds it into the summary row, and        *)
(* brain/chat/rollover or a close ends the session.                        *)
(*                                                                         *)
(* Actors: the chat (one turn in flight), the supervisor thread (snapshot, *)
(* finalize, daily cascade, weekly rollover) and one request thread        *)
(* (snapshot and close routes, launch rollover, the in-turn fold).  Each   *)
(* step of a worker is what happens between two points where another       *)
(* thread, or a crash, can get in.  A session is a number; session s+1 is  *)
(* the successor a rollover creates.  A buffer is [gen, rows]: gen the     *)
(* generation of its summary row (0: none), rows the set of its raw rows,  *)
(* which are numbered as they are appended and keep that order in every    *)
(* file; an absent file reads like an empty one.  Timestamps are whole     *)
(* seconds, as _now_iso writes them.  A closed sid used again stands for a fresh one:  *)
(* nothing of it is left but its archive.                                  *)
(***************************************************************************)
EXTENDS Naturals, FiniteSets, FiniteSetsExt

CONSTANTS
    MaxRows,          \* bound: rows the chat persists
    MaxTime,          \* bound: the clock
    MaxSessions,      \* bound: sessions created
    MaxGen,           \* bound: summary generations
    MaxFaults,        \* bound: process restarts and failed writes
    MaxFailures,      \* bound: failed model calls
    KeepTail,         \* min_keep_tail and _ROLLOVER_TAIL (both 40)
    FailureThreshold, \* _BACKOFF_FAILURE_THRESHOLD
    BackoffWindow,    \* _BACKOFF_WINDOW_MINUTES
    Silence,          \* snapshot_stale_sessions' silence_minutes
    StaleAge,         \* 24 h: finalize, launch rollover, cascade
    WeeklyAge,        \* _WEEKLY_ROLLOVER_AGE
    LockGoesStale     \* a fold may outlast the compaction lock's stale_s

ASSUME ConversationAssumption ==
    /\ {MaxRows, MaxGen, MaxFaults, MaxFailures, KeepTail, BackoffWindow,
        Silence, StaleAge, WeeklyAge} \subseteq Nat
    /\ {MaxTime, MaxSessions, FailureThreshold} \subseteq Nat \ {0}
    /\ LockGoesStale \in BOOLEAN

VARIABLES
    now,       \* the clock
    turn,      \* the chat turn in flight
    appended,  \* rows persisted so far; a row's id is its number
    buf,       \* session -> its buffer
    cursor,    \* session -> .cursor (0: none)
    backoff,   \* session -> .backoff
    rolled,    \* session -> .rolled_to (0: none)
    sessions,  \* sessions created
    archive,   \* ids in archived_conversations
    marker,    \* session -> the archive commit marker
    memory,    \* ids whose extraction was committed
    poison,    \* ids set aside in poison/
    w,         \* worker -> its job
    faults,    \* restarts and failed writes so far
    failed,    \* failed model calls so far
    overrun,   \* history: ids appended between a fold's re-read and replace
    behind,    \* history: ids appended at or before what was extracted
    outran     \* history: ids a rollover had not extracted and no tail held

files == <<buf, cursor, backoff, rolled, sessions, archive, marker, memory, poison>>
history == <<failed, overrun, behind, outran>>
vars == <<now, turn, appended, files, w, faults, history>>

-----------------------------------------------------------------------------
Sessions == 1..MaxSessions
Workers == {"supervisor", "request"}

Absent == [gen |-> 0, rows |-> {}]
NoTurn == [sid |-> 0, start |-> 0, stage |-> "none"]
NoBackoff == [failures |-> 0, first |-> 0, end |-> 0]
NoMarker == [gen |-> 0, batch |-> {}]
Idle == [job |-> "none", pc |-> "idle", sid |-> 0, rows |-> {},
         batch |-> {}, gen |-> 0, again |-> FALSE]

Ids(rows) == {r.id : r \in rows}
Stamps(rows) == {r.ts : r \in rows}
Live == UNION {Ids(buf[s].rows) : s \in Sessions}

(* The raw rows after the cursor: read_session_after without the summary. *)
RowsAfter(s) == {r \in buf[s].rows : r.ts > cursor[s]}

(* The last n rows, in the order of the file. *)
Newest(rows, n) == {r \in rows : Cardinality({q \in rows : q.id > r.id}) < n}

\* Mutant: rows that share a stamp may be split.
CutAllowedInTies(rows, c) ==
    /\ c.user
    /\ \A r, q \in rows : r.id < c.id /\ c.id <= q.id => r.ts <= q.ts

(* _cut_allowed and _units: a chunk ends just before a user row c all of    *)
(* whose followers are strictly newer than everything before it.            *)
CutAllowed(rows, c) ==
    /\ c.user
    /\ \A r, q \in rows : r.id < c.id /\ c.id <= q.id => r.ts < q.ts

(* The first chunk of chunk_turns, with a size limit that holds one unit:   *)
(* it ends before the first row, not the first of all, where a cut may be.  *)
Cuts(rows) == {c \in rows : CutAllowed(rows, c) /\ \E r \in rows : r.id < c.id}
Chunk(rows) == {r \in rows : \A c \in Cuts(rows) : r.id < c.id}
Rest(rows) == rows \ Chunk(rows)

(* resolve_successor: the live end of the rolled_to chain. *)
Resolve(s) == LET chain[i \in Sessions] == IF rolled[i] = 0 THEN i ELSE chain[rolled[i]]
              IN  chain[s]

(* session_silence_minutes against a threshold; the stamp of a summary left *)
(* alone in its buffer is not kept, it counts as old.                        *)
LastStamp(s) == IF buf[s].rows = {} THEN 0
                ELSE (CHOOSE r \in buf[s].rows : \A q \in buf[s].rows : q.id <= r.id).ts
Silent(s, age) ==
    buf[s] # Absent /\ (buf[s].rows # {} => now >= LastStamp(s) + age)

-----------------------------------------------------------------------------
(* Locks, read off the program counters of the threads that hold them. *)
ClosePcs == {"closeMark", "closeConfirm", "closeDelete"}
SeedPcs == {"seedMark", "seedTrim", "seedNew", "seedPoint"}
FoldPcs == {"summarise", "mark", "reread", "replace"}

\* The .extract lock; a close holds it to the end.
ExtractLocked(s) ==
    \E p \in Workers : w[p].sid = s /\ w[p].pc \in {"extract", "close"} \cup ClosePcs
\* The buffer's append lock, as a close and a rollover hold it.
AppendLocked(s) ==
    \E p \in Workers : w[p].sid = s /\ w[p].pc \in ClosePcs \cup SeedPcs \cup {"seedDelete"}
\* registry_lock: a persist holds it from its first row to its last.
RegistryLocked ==
    turn.stage = "assistant" \/ \E p \in Workers : w[p].pc \in SeedPcs
\* The .compacting lock; reaped when its holder is dead or it is too old, so
\* that where folds last long it may or may not keep the others out.
CompactionHeld(p, s) ==
    \E q \in Workers \ {p} : w[q].sid = s /\ w[q].pc \in FoldPcs \cup SeedPcs \cup {"seedDelete"}
CompactionLocked(p, s) == CompactionHeld(p, s) /\ ~LockGoesStale
\* The per-session in-flight lock of the chat, snapshot and close routes.
InFlight(s) ==
    turn.sid = s \/ (w["request"].sid = s /\ w["request"].job \in {"snapshot", "close"})

End(p) == w' = [w EXCEPT ![p] = Idle]
Go(p, pc) == w' = [w EXCEPT ![p].pc = pc]

\* The job goes on to its next stage and keeps nothing of what it had read.
NextStage(job, pc) == [job EXCEPT !.pc = pc, !.rows = {}, !.batch = {}, !.gen = 0]

Init ==
    /\ now = 1
    /\ turn = NoTurn
    /\ appended = 0
    /\ buf = [s \in Sessions |-> Absent]
    /\ cursor = [s \in Sessions |-> 0]
    /\ backoff = [s \in Sessions |-> NoBackoff]
    /\ rolled = [s \in Sessions |-> 0]
    /\ sessions = 1
    /\ archive = {} /\ memory = {} /\ poison = {}
    /\ marker = [s \in Sessions |-> NoMarker]
    /\ w = [p \in Workers |-> Idle]
    /\ faults = 0
    /\ failed = 0 /\ overrun = {} /\ behind = {} /\ outran = {}

Fault == faults < MaxFaults /\ faults' = faults + 1

Tick == now < MaxTime /\ now' = now + 1 /\ UNCHANGED <<turn, appended, files, w, faults, history>>

(* A bridge restart: threads and the locks they held are gone; a dead *)
(* holder's .compacting file is reaped by the next acquire.            *)
Crash ==
    /\ Fault
    /\ w' = [p \in Workers |-> Idle]
    /\ turn' = NoTurn
    /\ UNCHANGED <<now, appended, files, history>>

-----------------------------------------------------------------------------
(* The chat: respond() stamps the user row when the turn starts and        *)
(* persists the pair when the reply is there.                              *)
StartTurn(s) ==
    /\ turn = NoTurn
    /\ s <= sessions /\ rolled[s] = 0 /\ ~InFlight(s)
    /\ turn' = [sid |-> s, start |-> now, stage |-> "reply"]
    /\ UNCHANGED <<now, appended, files, w, faults, history>>

\* An append raised (past the bound on rows every one does): persisting is
\* best effort, the turn is over without its row.
PersistFails ==
    /\ turn.stage = "assistant"
    /\ Fault \/ (appended = MaxRows /\ UNCHANGED faults)
    /\ turn' = NoTurn
    /\ UNCHANGED <<now, appended, files, w, history>>

(* A pass that has read its rows moves the cursor to the newest of them. *)
AlreadyPassed(s, ts) ==
    \/ ts <= cursor[s]
    \/ \E p \in Workers : /\ w[p].sid = s /\ w[p].pc = "extract"
                          /\ \E x \in Stamps(w[p].rows) : ts <= x

(* ingest_turn on the live end of the session's chain. *)
IngestTurn(s, ts, user) ==
    LET row == [id |-> appended + 1, ts |-> ts, user |-> user]
    IN  /\ appended < MaxRows
        /\ ~AppendLocked(s)
        /\ buf' = [buf EXCEPT ![s].rows = @ \cup {row}]
        /\ appended' = row.id
        /\ overrun' = IF \E p \in Workers : w[p].sid = s /\ w[p].pc = "replace"
                      THEN overrun \cup {row.id} ELSE overrun
        /\ behind' = IF AlreadyPassed(s, ts) THEN behind \cup {row.id} ELSE behind
        /\ UNCHANGED <<now, cursor, backoff, rolled, sessions, archive, marker,
                       memory, poison, w, faults, failed, outran>>

(* persist_turns_following_successor, one row at a time: the registry lock  *)
(* is held over the pair, the append lock over each row.                    *)
PersistUser ==
    /\ turn.stage = "reply" /\ w["request"].job # "fold"
    /\ ~RegistryLocked
    /\ IngestTurn(Resolve(turn.sid), turn.start, TRUE)
    /\ turn' = [turn EXCEPT !.stage = "assistant"]

PersistAssistant ==
    /\ turn.stage = "assistant"
    /\ IngestTurn(Resolve(turn.sid), now, FALSE)
    /\ turn' = NoTurn

-----------------------------------------------------------------------------
(* Extraction. *)

\* The backoff guard of _extract_session_snapshot_locked.
BackingOff(s) ==
    /\ backoff[s].failures >= FailureThreshold
    /\ now < backoff[s].first + BackoffWindow

Exhausted(s) == backoff[s].failures >= FailureThreshold

RecordFailure(s, end) ==
    backoff' = [backoff EXCEPT ![s] =
        [failures |-> Min({@.failures + 1, FailureThreshold}),
         first    |-> IF @.failures = 0 THEN now ELSE @.first,
         end      |-> end]]

(* Which job may start an extraction of which session, and when. *)
SnapshotDue(s) == Silent(s, Silence)
FinalizeDue(s) == Silent(s, StaleAge)
WeeklyDue(s) ==
    /\ buf[s].rows # {} /\ Silent(s, Silence) /\ ~InFlight(s)
    /\ now >= Min(Stamps(buf[s].rows)) + WeeklyAge
\* The route acts on the resolved session, under its in-flight lock.
RouteDue(s) == rolled[s] = 0 /\ buf[s] # Absent /\ ~InFlight(s)
\* The launch decision: every session is stale, this is the newest.
LaunchDue(s) ==
    /\ Silent(s, StaleAge)
    /\ \A t \in Sessions :
           buf[t] # Absent => Silent(t, StaleAge) /\ LastStamp(t) <= LastStamp(s)

Due(p, job, s) ==
    \/ p = "supervisor" /\ job = "snapshot" /\ SnapshotDue(s)
    \/ p = "supervisor" /\ job = "finalize" /\ FinalizeDue(s)
    \/ p = "supervisor" /\ job = "weekly" /\ WeeklyDue(s)
    \/ p = "request" /\ job \in {"snapshot", "close"} /\ RouteDue(s)
    \/ p = "request" /\ job = "launch" /\ LaunchDue(s)

Rolling(job) == job \in {"weekly", "launch"}

(* A pass takes the extraction lock and reads the rows after the cursor;   *)
(* inside the backoff window it makes no call (a finalize still looks at   *)
(* the failure record, a rollover keeps the buffer).                       *)
StartExtract(p, job, s) ==
    /\ w[p].pc = "idle"
    /\ s <= sessions /\ Due(p, job, s) /\ ~ExtractLocked(s)
    /\ Rolling(job) => sessions < MaxSessions
    /\ w' = [w EXCEPT ![p] = [Idle EXCEPT !.job = job, !.sid = s,
                !.pc = IF job = "finalize" /\ BackingOff(s) THEN "gate" ELSE "extract",
                !.rows = IF job = "finalize" /\ BackingOff(s) THEN {} ELSE RowsAfter(s),
                !.batch = IF job = "close" THEN RowsAfter(s) ELSE {}]]
    /\ BackingOff(s) => job \in {"close", "finalize"}
    /\ job = "snapshot" => RowsAfter(s) # {}
    /\ UNCHANGED <<now, turn, appended, files, faults, history>>

(* What follows a pass that stopped early, and one that reached the end. *)
AfterStop(p, raised) ==
    w' = [w EXCEPT ![p] =
            IF w[p].job = "finalize" \/ (Rolling(w[p].job) /\ raised /\ ~w[p].again)
            THEN NextStage(@, "gate") ELSE Idle]
AfterEnd(p) ==
    w' = [w EXCEPT ![p] = CASE w[p].job = "snapshot" -> Idle
                            [] w[p].job = "finalize" -> NextStage(@, "gate")
                            [] w[p].job = "close"    -> [@ EXCEPT !.pc = "close"]
                            [] OTHER                 -> NextStage(@, "fold")]

(* run_chunk_stages returned OK: the items are committed, then the cursor   *)
(* moves to the chunk's end (a failed cursor write is only logged).  The    *)
(* sweeps and the snapshot route stop after one chunk.                      *)
ChunkCommitted(p) ==
    LET s == w[p].sid
        chunk == Chunk(w[p].rows)
    IN  /\ w[p].pc = "extract" /\ w[p].rows # {}
        /\ memory' = memory \cup Ids(chunk)
        /\ backoff' = IF w[p].job = "close" THEN backoff ELSE [backoff EXCEPT ![s] = NoBackoff]
        /\ \/ cursor' = [cursor EXCEPT ![s] = Max(Stamps(chunk))] /\ UNCHANGED faults
           \/ Fault /\ UNCHANGED cursor
        /\ IF w[p].job \in {"snapshot", "finalize"}
           THEN AfterEnd(p)
           ELSE w' = [w EXCEPT ![p].rows = Rest(@)]
        /\ UNCHANGED <<now, turn, appended, buf, rolled, sessions, archive, marker,
                       poison, history>>

ChunkDeferred(p) ==
    /\ w[p].pc = "extract" /\ w[p].rows # {}
    /\ AfterStop(p, FALSE)
    /\ UNCHANGED <<now, turn, appended, files, faults, history>>

ChunkFailed(p) ==
    /\ failed < MaxFailures /\ failed' = failed + 1
    /\ w[p].pc = "extract" /\ w[p].rows # {}
    /\ IF w[p].job = "close" THEN UNCHANGED backoff
       ELSE RecordFailure(w[p].sid, Max(Stamps(Chunk(w[p].rows))))
    /\ AfterStop(p, TRUE)
    /\ UNCHANGED <<now, turn, appended, buf, cursor, rolled, sessions, archive,
                   marker, memory, poison, faults, overrun, behind, outran>>

ExtractEnds(p) ==
    /\ w[p].pc = "extract" /\ w[p].rows = {}
    /\ AfterEnd(p)
    /\ UNCHANGED <<now, turn, appended, files, faults, history>>

(* poison_unextracted_span: the failing chunk is kept in poison/ and the    *)
(* cursor moved past it; rows newer than the failed attempt stay.           *)
PoisonSpan(s) ==
    LET tried == {r \in RowsAfter(s) : r.ts <= backoff[s].end}
        chunk == Chunk(tried)
    IN  IF tried = {}
        THEN backoff' = [backoff EXCEPT ![s] = NoBackoff] /\ UNCHANGED <<poison, cursor, faults>>
        ELSE /\ poison' = poison \cup Ids(chunk)
             /\ \/ /\ cursor' = [cursor EXCEPT ![s] = Max(Stamps(chunk))]
                   /\ backoff' = [backoff EXCEPT ![s] = NoBackoff]
                   /\ UNCHANGED faults
                \/ Fault /\ UNCHANGED <<cursor, backoff>>

(* The end of a finalize, and the gate of a rollover whose extraction       *)
(* failed: below the threshold, or with another pass running, nothing more  *)
(* happens; otherwise the failing chunk is set aside, and a rollover goes   *)
(* on to extract what follows it.                                           *)
Gate(p) ==
    LET s == w[p].sid
        goesOn == Exhausted(s) /\ ~ExtractLocked(s)
    IN  /\ w[p].pc = "gate"
        /\ \/ /\ goesOn /\ PoisonSpan(s)
              /\ IF Rolling(w[p].job) /\ backoff' # backoff THEN Go(p, "again") ELSE End(p)
           \/ ~goesOn /\ End(p) /\ UNCHANGED <<backoff, poison, cursor, faults>>
        /\ UNCHANGED <<now, turn, appended, buf, rolled, sessions, archive, marker,
                       memory, history>>

ExtractAgain(p) ==
    LET s == w[p].sid
    IN  /\ w[p].pc = "again"
        /\ IF ExtractLocked(s) \/ BackingOff(s) THEN End(p)
           ELSE w' = [w EXCEPT ![p].pc = "extract", ![p].again = TRUE, ![p].rows = RowsAfter(s)]
        /\ UNCHANGED <<now, turn, appended, files, faults, history>>

-----------------------------------------------------------------------------
(* archive_once: the batch is appended unless the marker proves it was;     *)
(* the marker is written by the next step.                                  *)
BatchKey(rows, gen) == [gen |-> gen, batch |-> rows]
Archived(s, rows, gen) == marker[s] = BatchKey(rows, gen)
AppendArchive(s, rows, gen) ==
    archive' = IF Archived(s, rows, gen) THEN archive ELSE archive \cup Ids(rows)
WriteMarker(s, rows, gen) == marker' = [marker EXCEPT ![s] = BatchKey(rows, gen)]

(* A close: no row arrived meanwhile, archive the whole buffer, make sure   *)
(* it is what was archived, delete.  All under the append lock.             *)
CloseArchive(p) ==
    LET s == w[p].sid
        late == Ids(RowsAfter(s)) \ Ids(w[p].batch)
    IN  /\ w[p].pc = "close" /\ ~AppendLocked(s)
        /\ \/ /\ late = {}
              /\ AppendArchive(s, buf[s].rows, 0)
              /\ w' = [w EXCEPT ![p].rows = buf[s].rows, ![p].gen = buf[s].gen,
                    ![p].pc = IF buf[s] = Absent \/ Archived(s, buf[s].rows, 0)
                              THEN "closeConfirm" ELSE "closeMark"]
           \/ late # {} /\ End(p) /\ UNCHANGED archive
        /\ UNCHANGED <<now, turn, appended, buf, cursor, backoff, rolled, sessions,
                       marker, memory, poison, faults, history>>

CloseMark(p) ==
    /\ w[p].pc = "closeMark"
    /\ WriteMarker(w[p].sid, w[p].rows, 0)
    /\ Go(p, "closeConfirm")
    /\ UNCHANGED <<now, turn, appended, buf, cursor, backoff, rolled, sessions, archive,
                   memory, poison, faults, history>>

CloseConfirm(p) ==
    /\ w[p].pc = "closeConfirm"
    /\ IF buf[w[p].sid] = [gen |-> w[p].gen, rows |-> w[p].rows]
       THEN Go(p, "closeDelete") ELSE End(p)
    /\ UNCHANGED <<now, turn, appended, files, faults, history>>

DeleteFiles(s) ==
    /\ buf' = [buf EXCEPT ![s] = Absent]
    /\ cursor' = [cursor EXCEPT ![s] = 0]
    /\ backoff' = [backoff EXCEPT ![s] = NoBackoff]

CloseDelete(p) ==
    /\ w[p].pc = "closeDelete"
    /\ DeleteFiles(w[p].sid)
    /\ End(p)
    /\ UNCHANGED <<now, turn, appended, rolled, sessions, archive, marker, memory,
                   poison, faults, history>>

-----------------------------------------------------------------------------
(* Folding: compact_conversation, cascade_conversation and                  *)
(* emergency_fold_24h differ in the age and the tail they spare.            *)

\* The rows a fold removes: extracted, old enough, before the kept tail.
Removable(s, age, keep) ==
    {r \in buf[s].rows \ Newest(buf[s].rows, keep) : r.ts <= cursor[s] /\ r.ts + age <= now}

(* The lock is free, something is removable (or, for the cascade, a section *)
(* of an existing summary may cross an age boundary).                       *)
CanFold(p, s, batch, cascade) ==
    /\ ~CompactionLocked(p, s)
    /\ cursor[s] # 0 /\ buf[s].gen < MaxGen
    /\ batch # {} \/ (cascade /\ buf[s].gen > 0)

BeginFold(p, job, s, batch) ==
    w' = [w EXCEPT ![p] = [Idle EXCEPT !.job = job, !.pc = "summarise", !.sid = s,
                                       !.batch = batch, !.gen = buf[s].gen + 1]]

\* The daily tick, on a session without a request in flight.
StartCascade(s) ==
    LET batch == Removable(s, StaleAge, KeepTail)
    IN  /\ w["supervisor"].pc = "idle" /\ ~InFlight(s)
        /\ CanFold("supervisor", s, batch, TRUE)
        /\ BeginFold("supervisor", "cascade", s, batch)
        /\ UNCHANGED <<now, turn, appended, files, faults, history>>

\* The budget backstop and the compact_history tool, inside a turn.
StartTurnFold ==
    LET s == turn.sid
        batch == Removable(s, 0, KeepTail)
    IN  /\ w["request"].pc = "idle" /\ turn.stage = "reply"
        /\ CanFold("request", s, batch, FALSE)
        /\ BeginFold("request", "fold", s, batch)
        /\ UNCHANGED <<now, turn, appended, files, faults, history>>

\* A rollover's own fold: everything (launch) or the aged part (weekly).
RollFold(p) ==
    LET s == w[p].sid
        launch == w[p].job = "launch"
        batch == Removable(s, IF launch THEN 0 ELSE StaleAge, IF launch THEN 0 ELSE KeepTail)
    IN  /\ w[p].pc = "fold"
        /\ \/ CanFold(p, s, batch, ~launch) /\ BeginFold(p, w[p].job, s, batch)
           \/ (~CanFold(p, s, batch, ~launch) \/ CompactionHeld(p, s)) /\ Go(p, "seed")
        /\ UNCHANGED <<now, turn, appended, files, faults, history>>

AfterFold(p) == w' = [w EXCEPT ![p] = IF Rolling(w[p].job) THEN NextStage(@, "seed") ELSE Idle]

\* A deferred model call stores nothing; any other failure folds to a note.
FoldDeferred(p) ==
    /\ w[p].pc = "summarise"
    /\ End(p)
    /\ UNCHANGED <<now, turn, appended, files, faults, history>>

FoldArchive(p) ==
    /\ w[p].pc = "summarise"
    /\ AppendArchive(w[p].sid, w[p].batch, w[p].gen)
    /\ Go(p, IF Archived(w[p].sid, w[p].batch, w[p].gen) THEN "reread" ELSE "mark")
    /\ UNCHANGED <<now, turn, appended, buf, cursor, backoff, rolled, sessions, marker,
                   memory, poison, faults, history>>

FoldMark(p) ==
    /\ w[p].pc = "mark"
    /\ WriteMarker(w[p].sid, w[p].batch, w[p].gen)
    /\ Go(p, "reread")
    /\ UNCHANGED <<now, turn, appended, buf, cursor, backoff, rolled, sessions, archive,
                   memory, poison, faults, history>>

\* What stays: the rows now in the buffer minus the archived ones.
FoldReread(p) ==
    /\ w[p].pc = "reread"
    /\ w' = [w EXCEPT ![p].pc = "replace",
                      ![p].rows = {r \in buf[w[p].sid].rows : r.id \notin Ids(w[p].batch)}]
    /\ UNCHANGED <<now, turn, appended, files, faults, history>>

FoldReplace(p) ==
    /\ w[p].pc = "replace"
    /\ buf' = [buf EXCEPT ![w[p].sid] = [gen |-> w[p].gen, rows |-> w[p].rows]]
    /\ AfterFold(p)
    /\ UNCHANGED <<now, turn, appended, cursor, backoff, rolled, sessions, archive, marker,
                   memory, poison, faults, history>>

-----------------------------------------------------------------------------
(* perform_rollover's destructive section. *)
SeedRows(p) ==
    IF w[p].job = "launch" THEN buf[w[p].sid].rows ELSE Newest(buf[w[p].sid].rows, KeepTail)
\* Mutant: what the seed leaves out is not archived.
NotCarriedForgotten(p) == {}
NotCarried(p) == buf[w[p].sid].rows \ SeedRows(p)

\* Read under the compaction, registry and append locks; archive what the
\* successor will not carry; nothing to seed or the lock taken: give up.
SeedArchive(p) ==
    LET s == w[p].sid
        unlocked == ~RegistryLocked /\ ~AppendLocked(s)
        something == IF w[p].job = "launch" THEN buf[s].gen > 0 ELSE buf[s] # Absent
        out == NotCarried(p)
        carry(pc) == w' = [w EXCEPT ![p].pc = pc, ![p].rows = SeedRows(p),
                                    ![p].batch = out, ![p].gen = buf[s].gen]
    IN  /\ w[p].pc = "seed"
        /\ \/ /\ ~CompactionLocked(p, s) /\ unlocked /\ something
              /\ AppendArchive(s, out, buf[s].gen)
              /\ carry(IF out = {} THEN "seedNew"
                       ELSE IF Archived(s, out, buf[s].gen) THEN "seedTrim" ELSE "seedMark")
              /\ outran' = outran \cup (Ids(out \cap RowsAfter(s)) \ (memory \cup poison))
           \/ /\ CompactionHeld(p, s) \/ (unlocked /\ ~something)
              /\ End(p) /\ UNCHANGED <<archive, outran>>
        /\ UNCHANGED <<now, turn, appended, buf, cursor, backoff, rolled, sessions, marker,
                       memory, poison, faults, failed, overrun, behind>>

SeedMark(p) ==
    /\ w[p].pc = "seedMark"
    /\ WriteMarker(w[p].sid, w[p].batch, w[p].gen)
    /\ Go(p, "seedTrim")
    /\ UNCHANGED <<now, turn, appended, buf, cursor, backoff, rolled, sessions, archive,
                   memory, poison, faults, history>>

\* The archived rows leave the old buffer.
SeedTrim(p) ==
    /\ w[p].pc = "seedTrim"
    /\ buf' = [buf EXCEPT ![w[p].sid] = [gen |-> w[p].gen, rows |-> w[p].rows]]
    /\ Go(p, "seedNew")
    /\ UNCHANGED <<now, turn, appended, cursor, backoff, rolled, sessions, archive, marker,
                   memory, poison, faults, history>>

\* create_session, the successor's buffer and the carried cursor.
SeedNew(p) ==
    LET new == sessions + 1
    IN  /\ w[p].pc = "seedNew" /\ sessions < MaxSessions
        /\ sessions' = new
        /\ buf' = [buf EXCEPT ![new] = [gen |-> w[p].gen, rows |-> w[p].rows]]
        /\ cursor' = [cursor EXCEPT ![new] = cursor[w[p].sid]]
        /\ Go(p, "seedPoint")
        /\ UNCHANGED <<now, turn, appended, backoff, rolled, archive, marker, memory,
                       poison, faults, history>>

\* Mutant: the pointer names the session after the one created.
SeedPointNext(p) ==
    /\ w[p].pc = "seedPoint"
    /\ rolled' = [rolled EXCEPT ![w[p].sid] = sessions + 1]
    /\ Go(p, "seedDelete")
    /\ UNCHANGED <<now, turn, appended, buf, cursor, backoff, sessions, archive, marker,
                   memory, poison, faults, history>>

SeedPoint(p) ==
    /\ w[p].pc = "seedPoint"
    /\ rolled' = [rolled EXCEPT ![w[p].sid] = sessions]
    /\ Go(p, "seedDelete")
    /\ UNCHANGED <<now, turn, appended, buf, cursor, backoff, sessions, archive, marker,
                   memory, poison, faults, history>>

SeedDelete(p) ==
    /\ w[p].pc = "seedDelete"
    /\ DeleteFiles(w[p].sid)
    /\ End(p)
    /\ UNCHANGED <<now, turn, appended, rolled, sessions, archive, marker, memory,
                   poison, faults, history>>

(* A write of the step at hand raises: a fold whose archive failed leaves   *)
(* the buffer as it is (a rollover then goes on without it); everywhere     *)
(* else the exception ends the job, its locks released on the way out.      *)
WriteFails(p) ==
    /\ Fault
    /\ \/ w[p].pc \in {"summarise", "mark"} /\ AfterFold(p)
       \/ w[p].pc \in {"gate", "close", "replace", "seed", "seedDelete"} \cup ClosePcs \cup SeedPcs /\ End(p)
    /\ UNCHANGED <<now, turn, appended, files, history>>

-----------------------------------------------------------------------------
Chat == (\E s \in Sessions : StartTurn(s)) \/ PersistFails \/ PersistUser \/ PersistAssistant

Extract(p) ==
    \/ \E job \in {"snapshot", "finalize", "weekly", "close", "launch"}, s \in Sessions :
           StartExtract(p, job, s)
    \/ ChunkCommitted(p) \/ ChunkDeferred(p) \/ ChunkFailed(p) \/ ExtractEnds(p)
    \/ Gate(p) \/ ExtractAgain(p)

Close(p) == CloseArchive(p) \/ CloseMark(p) \/ CloseConfirm(p) \/ CloseDelete(p)

Fold(p) ==
    \/ RollFold(p) \/ FoldDeferred(p) \/ FoldArchive(p) \/ FoldMark(p)
    \/ FoldReread(p) \/ FoldReplace(p)

Seed(p) ==
    \/ SeedArchive(p) \/ SeedMark(p) \/ SeedTrim(p) \/ SeedNew(p)
    \/ SeedPoint(p) \/ SeedDelete(p)

Next ==
    \/ Tick \/ Crash \/ Chat
    \/ \E s \in Sessions : StartCascade(s)
    \/ StartTurnFold
    \/ \E p \in Workers : Extract(p) \/ Close(p) \/ Fold(p) \/ Seed(p) \/ WriteFails(p)

Spec == Init /\ [][Next]_vars

-----------------------------------------------------------------------------
RowType == [id : 1..MaxRows, ts : 1..MaxTime, user : BOOLEAN]
Jobs == {"none", "snapshot", "finalize", "weekly", "close", "launch", "cascade", "fold"}
Pcs == {"idle", "extract", "gate", "again", "close", "fold", "seed", "seedDelete"}
         \cup ClosePcs \cup SeedPcs \cup FoldPcs
BufferType == [gen : 0..MaxGen, rows : SUBSET RowType]
BackoffType == [failures : 0..FailureThreshold, first : 0..MaxTime, end : 0..MaxTime]
JobType == [job : Jobs, pc : Pcs, sid : 0..MaxSessions, rows : SUBSET RowType,
            batch : SUBSET RowType, gen : 0..MaxGen, again : BOOLEAN]

(* The type invariant: the files and the threads' local copies. *)
TypeOK ==
    /\ now \in 1..MaxTime
    /\ turn \in [sid : 0..MaxSessions, start : 0..MaxTime, stage : {"none", "reply", "assistant"}]
    /\ appended \in 0..MaxRows
    /\ buf \in [Sessions -> BufferType]
    /\ cursor \in [Sessions -> 0..MaxTime]
    /\ backoff \in [Sessions -> BackoffType]
    /\ rolled \in [Sessions -> 0..MaxSessions] /\ sessions \in Sessions
    /\ archive \cup memory \cup poison \subseteq 1..appended
    /\ marker \in [Sessions -> [gen : 0..MaxGen, batch : SUBSET RowType]]
    /\ w \in [Workers -> JobType]

(* Every row the chat persisted is in a live buffer or in the archive,     *)
(* whatever folds, closes, rollovers, failed writes and crashes did since, *)
(* unless it was appended between a fold's re-read and its os.replace.     *)
LostOnlyInRewriteWindow == 1..appended \subseteq Live \cup archive \cup overrun

(* What the folds and the successor rely on: a row at or before the cursor *)
(* of its buffer was extracted or set aside, through deferrals, failures,  *)
(* lost cursor writes, the carried cursor and crashes, with the same two   *)
(* exceptions (a second fold can put an overrun row back, late; one that   *)
(* outlasts its lock can also put back what a rollover left out).          *)
CursorHonest ==
    \A s \in Sessions : \A r \in buf[s].rows : r.ts <= cursor[s] =>
        \/ r.id \in memory \cup poison \cup behind \cup overrun
        \/ LockGoesStale /\ r.id \in outran

(* Claimed by persist_turns_following_successor: an append that wins the   *)
(* registry lock is carried over, "nothing is lost".                       *)
NothingLost == 1..appended \subseteq Live \cup archive
=============================================================================
