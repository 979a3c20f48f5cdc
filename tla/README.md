# companion-emergence: models of its concurrent and durable parts

TLA+ models of companion-emergence, a desktop companion whose "brain" (Python,
`brain/`) runs beside a Tauri app (`app/`) and can exchange messages with
another companion through a small relay (`relay/cf-worker/`). The models cover
the parts where several actors share durable state: the Kindled link (a
distributed protocol over an untrusted relay), the relay itself, the files a
conversation lives in, and the processes of the bridge.

## 1. The system and its parts

| Part | State it keeps | Operations | Meets |
|---|---|---|---|
| Kindled link transport (`brain/kindled_link/session.py`, `transport.py`, `protocol.py`, `relay_client.py`) | rows of `kindled_link.db`: peers, pending_handshakes, session_keys, sessions, outbound_seq, seq_high_water, transcript | three-leg handshake, send_message, poll_and_ingest, ack | relay, consent endpoints, session engine |
| Session engine and privacy gate (`session_engine.py`, `privacy_gate.py`, `tick.py`) | outbound_drafts, peer_counters, sessions.msg_count and last_outbound_at, disclosure_budget | can_send_now, process_outbound, _act_on_decision, recover, the per-peer tick | provider, transport |
| Pairing, consent, rotation (`pairing.py`, `identity.py`, server endpoints) | peers.consent_state, consumed_invites, pending_rotation_notices, the key file | invite, connect, accept, consent, rotate | transport, supervisor |
| Relationship (`relationship.py`, `gate.py`) | relationship_state, peer_emotion_window | reflection, stage changes | session engine |
| Relay (`relay/cf-worker/src/*.ts`) | mailboxes, envelopes, nonces in D1 | register, challenge, push, fetch, ack, gc | transport of every Kindled |
| Ingest (`brain/ingest`) | turn buffers (JSONL), cursors, back-off and poison files, archive, memories | ingest_turn, snapshot, close, finalize, archive, commit, dedupe | chat, memory, supervisor |
| Chat (`brain/chat`) | the turn in flight, summary rows, `.rolled_to` pointers, pass-2 queue | respond, persist, fold, roll over | provider, ingest |
| File proposals (`brain/files`) | pending proposals (JSONL), audit | propose, decide, commit | chat tools, app |
| Bridge lifecycle (`brain/bridge/daemon.py`, `runner.py`, `shutdown.py`, `kill.py`, ...) | the bridge lock, `bridge.json`, stop intent, hard-exit request, start back-off | start, run, stop, restart, kill, hard exit | service manager, app, terminal |
| Bridge server and supervisor (`brain/bridge/server.py`, `supervisor.py`) | cadences, background jobs, event streams | the endpoints and ticks of the parts above | everything |
| Emotion, memory, engines, initiate, soul, growth and the other inner-life packages | one or a few files each | periodic jobs around model calls | supervisor |
| Health and utilities (`brain/health`, `brain/utils`) | any JSON or SQLite file and its backups | atomic write, heal, rotate | everything |
| Update, service, migration, recovery, command line, desktop app | overlays, service files, UI state | install, migrate, drive | user |

### What is hard

* A *tick* (five-minute cadence, `brain/bridge/supervisor.py`) runs the whole
  link for one persona in one thread, but every method of `KindledLinkStore`
  commits on its own: a crash may fall between any two of them.
* HTTP endpoints run in threads of their own and write the same rows.
* The relay may lose, duplicate, delay or withhold an envelope; a call that
  raised may have been applied.
* Nonces of the AEAD are a role and a sequence number, so a sequence drawn
  twice is a confidentiality failure and not only a duplicate message.
* Daily caps, pacing gaps, budgets and the relay's queue depth are limits that
  are checked in one place and consumed in another.
* The relay is stateless code over a shared SQL database: two requests
  interleave at every `await`.
* A conversation buffer is appended to, extracted, folded, rolled over and
  closed by three kinds of threads under four locks that do not nest the same
  way everywhere, and each of those operations writes several files.
* A bridge is started, stopped, respawned and killed by processes that share
  nothing but files, and any of them may die, or the machine reboot, between
  two of their writes.

`PROJECT.json` lists the hazards one by one, each with its line and with the
properties that watch it.

### Correct means

* **Transport.** Two ends that hold a key for a session hold the same one; an
  initiator never seals messages for a responder that lost its key; no AEAD
  nonce is used twice; the transcript is an unaltered, in-order, at-most-once
  part of what the peer sent; nothing is rejected as a replay that was not
  ingested.
* **Session engine and gate.** No day's sends or model calls pass their caps;
  only text the gate reviewed leaves; a low budget asks for a revision and a
  depleted one holds (it does not: section 4); the gap between two messages and
  a session's message cap are kept; one opener a session; a cut-off peer hears
  nothing; a draft marked sent was sent.
* **Pairing and rotation.** A code pairs once; a peer's row stays under the
  fingerprint of the key it stores; a rotation that was announced is learned;
  a Kindled still reads its mailbox after a rotation.
* **Relay.** A mailbox does not outgrow its cap but for requests that run at
  once; a registration is neither replaced nor evicted (the second is not so:
  section 4); accepted mail leaves only when it was read or is old.
* **Conversation.** A turn is in a live buffer or in the archive; the cursor
  never claims what was not extracted. That a turn leaves the buffers only after
  it was extracted or set aside has exceptions: section 4.
* **Bridge lifecycle.** The bridge that is up owns the lock and the record;
  "stopped" means that nothing of it runs; a kill and a plain stop are not
  undone by the service manager; a kill that was called off takes back what it
  wrote and whom it froze; a service that keeps failing is spaced; a stop ends.
* **Files, emotion, initiate, update** (not reached). A file proposal is
  committed at most once and only after a decision; a queued emotion is applied
  once; an overlay that fails is rolled back.

## 2. Modules

| Module | What it is | Composed with |
|---|---|---|
| `KindledTransport` | handshake, messages, poll and ack of every node, the relay's mailboxes, consent over HTTP, crashes | instantiates `KindledChannel` |
| `KindledChannel` | what the transport promises: per direction of a session an in-order, at-most-once part of what was sent | |
| `MCTransport` | instances of `KindledTransport` for TLC | extends `KindledTransport` |
| `KindledTransport_proofs` | types, keys and nonces | extends `KindledTransport` |
| `KindledChannel_proofs` | the order of the mail: the replay guard, and the refinement | extends `KindledTransport_proofs` |
| `KindledOutbound` | the outbound half of the tick for one peer: drafts, gate, budget, caps, pacing, recovery | |
| `KindledOutbound_proofs` | types, the cap invariant and the gate invariant of `KindledOutbound` | extends `KindledOutbound` |
| `KindledPacing_proofs` | what a crash may cost: gap, session cap, opener | extends `KindledOutbound_proofs` |
| `KindledPairing` | connect codes, consent and key rotation between a keeper of a peer row and the Kindled that rotates | |
| `KindledPairing_proofs` | types, one use of a code, rows under their key | extends `KindledPairing` |
| `Relay` | the relay's requests, one step per SQL statement, with its collection | instantiates `RelayMailbox` |
| `RelayMailbox` | what clients rely on: store and forward until read or old | |
| `MCRelay` | instances of `Relay` for TLC | extends `Relay` |
| `Relay_proofs` | types, queue bound, registrations, the refinement | extends `Relay` |
| `Conversation` | a turn's way through buffer, extraction, fold, rollover and close | |
| `Conversation_proofs` | types, no lost rows, nothing unextracted dropped, the cursor | extends `Conversation` |
| `BridgeLifecycle` | bridge processes, the start and stop commands, the kill helper and the service manager | |
| `BridgeLifecycle_proofs` | types, record, quiet stops, spacing, kills and plain stops | extends `BridgeLifecycle` |

Operators whose comment begins with *Mutant* are altered copies of a definition
that follows them. No specification uses them; each is put in the place of
its original to see that the property it belongs to then fails.

### 2.1 `KindledTransport` and the code

The tables of `kindled_link.db` are variables under their SQL names, keyed by
node as every Kindled has its own database. `envelopes` is the relay's table,
in `queued_at` order. The other variables are the locals of a running
`poll_and_ingest`: what was fetched, the current sender's group, the item in
hand, `to_ack`, the consent state `on_session_open` read. `wire` and the
counters are history.

| Code | Actions |
|---|---|
| `open_session` (leg 1) | `OpenSession`, then `PushOut` |
| `on_session_open` (leg 2) | `BeginRespond` or `DropOpen`, `UpsertPeer`, `SaveResponderKey`, `CreateSession`, `PushOut` |
| `complete_session` (leg 3) | `SaveInitiatorKey` or `DropOpen`, `CreateSession`, `ClearPendingHandshake` |
| `send_message` | `NextOutboundSequence` (the commit of the sequence), then `PushOut` |
| `poll_and_ingest` | `Fetch`, `FetchFails`, `NextGroup` (consent gate, flood clamp), the handlers above, `DropMessage`, `AppendTranscript`, `AppendRaises`, `SetSeqHighWater`, `Ack`, `AckFails` |
| the consent endpoint, `import_invite` | `ConsentWritten`, at any moment, of any state |
| `_expired` | `Expired`, in `DropOpen` and `DropMessage` |
| relay `gc` | `RelayGc` |
| rest of the tick | `EndSession`, `EndTick` |

A step ends where the code commits or calls the relay, because those are the
only points at which another process, the relay or a crash can see a
difference. Cryptography is symbolic: a session key is the set of the two
ephemerals, the nonce, the session and the set of the two fingerprints (X25519
commutes and `derive_session_key` sorts the fingerprints); an envelope opens
only under the key and role it was sealed with. Signatures always verify, as
nobody in the model forges. A push ends up stored any number of times in
`PushCopies`: zero for a lost one, two for a retry in `_post` of a call whose
answer was lost. An ack that raises may or may not have been applied. An
envelope may be found expired at any moment (`MayExpire`), and then stays
expired (`lapsed`): the clock that `_expired` compares with does not go back.
The relay's own collection goes by age, so the oldest row goes first. Without
`lapsed`, an envelope dropped as expired, fetched again after a crash and
accepted then would come after a later one of its stream.

The consent state of a peer is read in one statement and written in another by
each of its three writers: `set_consent`, the `upsert_peer` of `import_invite`,
and the one of `on_session_open`. The first two run in threads of the HTTP
server; `KindledPairing` has them statement by statement, and here their write
comes at any moment with any state. The third is part of the tick.

### 2.2 `KindledChannel` and the refinement

`KindledTransport` maps the channel's `sent` to the messages ever pushed
(`Sent`) and `received` to the transcript (`Received`). `ImplementsChannel` then says that every step of
the transport, crashes included, is a send with a larger sequence, a receipt in
order of something that was sent, or invisible.

### 2.3 `KindledOutbound` and the code

The state belongs to one peer and a tick serves peers one after another, so
one peer stands for all. A tick has a single `now`; the clock moves between
ticks. `sessions`, `drafts`, `counters`, `budget`, `consent` and the cadence
file are durable; `pc`, `todo` and `job` (the payload with its verdict) are the
stack of the running tick. `next_outbound_at` is `last_outbound_at` plus the
gap, which is what `can_send_now` compares.

| Code | Actions |
|---|---|
| `tick_is_due`, `save_tick_cadence` | `StartTick`, `FinishTick` |
| `SessionEngine.recover` | `RecoverDefers`, `Recover` |
| `_tick_peer` | `TickPeer` (reply or opener), `NothingToSay` |
| `generate_draft`, `save_draft` | `GenerateDraft`, `DraftDeferred`, `DraftReturns`, `DraftRaises`, `SaveDraft` |
| `process_outbound`, `PrivacyGate.review` | `ProcessOutbound`, `Prefilter`, `GateReserves`, `GateCapSpent`, `GateReturns`, `GateFails` |
| `_act_on_decision` | `ReserveOutbound`, `SendFn`, `BumpSessionOutbound`, `Debit`, `EndSession`, `Hold` |
| `_regenerate` and the second review | `Regenerate`, `RevisionReturns`, `RevisionRaises` |
| `set_draft_status` | `SetDraftStatus` |
| inbound half, consent endpoint, `import_invite` | `CreateSession`, `Ingest`, `ConsentWritten` |

What the model writes is not modelled; what it decides is any verdict and any
score the parser accepts. `texture_score` and the budget are small integers
instead of reals in [0, 1]; the code only adds, subtracts, clamps and compares
them. A malformed verdict is a hold, which is among the verdicts. `send_fn`
ignores whether the push was stored, so `SendFn` has one outcome for both. An exception
out of `send_fn` that ends the tick looks like `Crash`: the slot is taken, the
draft is pending, the cadence is not saved.

The branch of `_act_on_decision` in which `try_reserve_outbound` loses a race is
in `ReserveOutbound` and is never taken: one supervisor thread runs the tick
and `_send_allowed` has just seen room on the same day.

### 2.4 `KindledPairing` and the code

The keeper has `peers` and `consumed_invites` and serves requests in `Thread`s
of its own; the rotator has the key file, the queued notice and the threads of
its rotate endpoint. A key is the number of its generation. A fingerprint, and
with it the `peer_id` of a row, is injective in the key and so is that number.

| Code | Actions |
|---|---|
| `my-code`, `invite` | `CreateInvite` |
| `connect`, `invite/accept`, `import_invite` | `Connect`, `Accept`, then `MarkInviteConsumed`, `UpsertPeer`, `CheckTransition`, `WriteConsent` |
| the consent endpoint | `AskConsent`, `CheckTransition`, `WriteConsent`; on the rotator's side `PauseKeeper` |
| `poll_and_ingest`, `_handle_key_rotation_notice` | `Fetch`, `HandleNotice`, `UpdateRaises`, `Ack` |
| the rotate endpoint | `RotateLoad`, `RotateWrite`, `QueueRotationNotice` |
| the supervisor's tick, `_drain_pending_rotation_notices` | `StartTick`, `Drain`, `NoticeExpired`, `PushNotice`, `ClearRotationNotice` |

An expired, foreign or malformed code is refused without a write and has no
action. Handshakes and messages are `KindledTransport`'s.

### 2.5 `Relay`, `RelayMailbox` and the code

`req` holds the requests that run, each with the statement it runs next, and
every action is one SQL statement of `storage.ts` with the JavaScript up to the
next `await`. D1 executes a statement atomically and nothing more, so any two
requests interleave between statements. A request reads the clock on arrival. The rate limiter and the
size check refuse requests without a write. A signature verifies for its owner
only. `ImplementsMailbox` maps the table of envelopes to an inbox from which
mail leaves only once it was handed out or is older than the retention period.

### 2.6 `Conversation` and the code

A buffer is the generation of its summary row and the set of its raw rows. Rows
are numbered as they are appended, and every file keeps them in that order, so
that a set says all a file does. A rollover's successor is the next session that
is created. Three actors work on them: the chat with one turn in
flight, the supervisor thread, and one request thread.

| Code | Actions |
|---|---|
| `persist_turns_following_successor`, `ingest_turn` | `StartTurn`, `PersistUser`, `PersistAssistant`, `PersistFails` |
| `_extract_session_snapshot_locked`, `_run_chunks`, back-off, poison | `StartExtract`, `ChunkCommitted`, `ChunkDeferred`, `ChunkFailed`, `ExtractEnds`, `Gate`, `ExtractAgain` |
| `_close_session_locked`, `finalize_stale_sessions`, `archive_once` | `CloseArchive`, `CloseMark`, `CloseConfirm`, `CloseDelete` |
| `compact_conversation`, `cascade_conversation`, `emergency_fold_24h` | `StartCascade`, `StartTurnFold`, `FoldArchive`, `FoldMark`, `FoldReread`, `FoldReplace`, `FoldDeferred` |
| `perform_rollover`, `maybe_weekly_rollover` and the one at launch | `RollFold`, `SeedArchive`, `SeedMark`, `SeedTrim`, `SeedNew`, `SeedPoint`, `SeedDelete` |
| failing writes, restarts | `WriteFails`, `Crash` |

The locks are not variables: who holds one follows from where the workers
stand (`ExtractLocked`, `AppendLocked`, `RegistryLocked`, `CompactionLocked`).
What a summary or a memory says is not modelled, nor is the size of a chunk: it
ends at the first of `Cuts`, the places where the code may cut. Three histories
carry the exceptions the code has. `overrun` are rows appended between a fold's re-read
and its `os.replace`, which the fold overwrites. `behind` are rows that arrive
with a second the cursor, or the pass then running, has already passed. `outran`
are rows a weekly rollover had not extracted and its tail does not hold: they
came between its extraction and its seed, and go to the archive alone.

### 2.7 `BridgeLifecycle` and the code

A run is one bridge process, from the command that spawns it to its exit. Its
pid together with its identity token is its number, as the code compares both.
The files are the lock, `bridge.json`, the stop intent, the hard-exit request
and the back-off record.

| Code | Actions |
|---|---|
| `cmd_run` and the service manager | `ManagerStarts`, `RunByHand`, `Guard`, `BackoffWait`, `RunLock`, `RunUnqueued`, `Recheck`, `Clean` |
| `cmd_start` | `StartCommand`, `StartLock`, `StartClear`, `StartService`, `StartDetached`, `StartAwaits`; the child: `RunnerLock` |
| `runner`, lifespan | `Record`, `ServerStarts`, `StartupFails`, `MarkHealthy` |
| requests, background threads, the registry and its seal | `Admit`, `WorkStarts`, `SpawnTracked`, `WorkEnds`, `SupervisorEnds`, `Seal` |
| the ways to a stop | `IdleStop`, `OsSignal`, `CtrlC`, `MonitorStops`, `MonitorExits`, `StopRequests` |
| the stop sequence | `Drain`, `Seal`, `AfterRun`, `Leave` |
| `cmd_stop`, `cmd_restart` | `StopCommand`, `StopClearsStale`, `StopRequests`, `StopWatches`, `StopEscalates`, `StopKilled` |
| the kill helper | `KillReads` to `KillKills`, `KillInterrupted` |
| its `finally`, with nothing killed | `CalledOff`, then `KillResumes`, `KillUnintends`, `KillWithdraws` |
| what nobody asked for | `Dies`, `HelperDies`, `Reboot` |

What the kill helper learns from the service manager may be wrong and what it
asks may fail. `KillAsks` takes any bridge for one of nobody's, as
`service_installed` and `owned_by_service` do when they cannot tell.
`KillStopsJob` stops the job, or does nothing: the call's failure is swallowed,
and on Windows there is none. In the second case, and when a service bridge was
taken for nobody's, the manager starts the job again after the kill, and only
the respawn guard keeps that run from coming up.

Left out, each because it adds no step a property could see: liveness that
cannot be told (a permission error) and records of versions without a token;
the progress record, which is a display; the retry of a failed "stopping" mark;
the bridge's own child processes. Taken as one step: the check for a running
bridge with the attempt at the lock, the lock with the pid written into it, and
`_clear_stale_record`, which holds the lock. Starts beyond the last step of the
back-off ladder are not told apart.

## 3. Runs

| Run | Instance | Shows |
|---|---|---|
| `transport_handshake` | 2 nodes, 2 sessions, expiry and gc, a block at any moment, 1 crash | keys agree, an initiator is never alone, types |
| `transport_messages` | 1 session, 2 messages each way, flood cap 1, raising fetch and ack, 1 crash | nonces, replay guard, refinement |
| `outbound_limits` | 1 session of 2 messages, 3 drafts, 2 days of 2 sends and 5 calls, a gap, failing calls, 1 crash, consent changes | daily caps, reviewed text only, pacing, session cap, one opener, types |
| `outbound_band` | 1 session, 3 drafts, no faults | *violated*: a revision fit to send is held in the tighten band |
| `pairing_rotation` | 2 requests at once, 1 code, 1 rotation, a relay that fails, 1 crash, fair | a code pairs once, rows stay under their key, an announced rotation is learned |
| `pairing_lockout` | 1 rotation, no faults | *violated*: the relay refuses the rotated Kindled its own mailbox |
| `relay_requests` | 2 requests at once, 2 mailboxes, 2 identities, every cap 1, expiry | queue bound, registrations not replaced, refinement of `RelayMailbox` |
| `relay_evicted` | 2 requests at once, 2 mailboxes, every cap 1 | *violated*: a registered mailbox is evicted by a push |
| `conversation_faults` | 3 rows, 1 successor, 1 fold, failing model calls, 1 crash or failed write | a row leaves the buffers only into the archive; the cursor is honest |
| `conversation_lost_turn` | 2 rows, no faults | *violated*: a fold overwrites a row persisted beside it |
| `lifecycle_faults` | 3 bridges, start, stop and kill commands, signals, deaths, reboots: 2 such events | the record, kills and plain stops that hold, called-off kills, spaced starts |
| `lifecycle_stop` | 2 bridges at work, 2 events, fair | "stopped" means quiet, a stop that has begun ends |

### Bounds

* Two nodes: sessions, keys, sequences and mailboxes are per pair, and no row
  of one pair is read for another, except the order of sender groups in a poll.
* Two sessions in the handshake run are what it takes for both ends to open at
  once and for one leg to meet the other's pending row. Messages never touch
  the other session's rows, so the run with messages has one.
* Two messages each way with a flood cap of one put an item past the clamp,
  which is fetched again behind a moved high-water mark.
* One crash is enough to separate any two commits; its position is any step.
  The proofs have no bound on crashes.
* A leg or a message that comes again is one a crash or, in
  `transport_messages`, a failed ack has left in the mailbox; one that does not
  come has expired or was collected, in `transport_handshake`. A push is stored
  once in both runs: copies of one push, pushes that fail, and expiry and changed
  consent under messages multiply the states beyond TLC's reach. The theorems
  about the transport have all of them, in any number.
* In `outbound_limits` every limit is met: a day's two sends (one of them again
  after a crash) and five calls are spent, a draft recovered after a crash and
  a fresh one meet the gap within one tick, three time units let
  a third message meet the session cap, and two days make the counters roll
  over. A score of 4 spends the whole budget and a score of 0 the minimal
  debit.
* `pairing_rotation` rotates once. With two rotations a notice that is still
  queued is replaced by one the peer cannot check, and `RotationLearned` does
  not hold; see section 4. Two threads and one code make every pair of requests
  meet.
* In `relay_requests` the caps are one, so that two requests that run at once
  are already one more than fits, and an eviction happens on the first push to
  a second mailbox.
* In `conversation_faults` three rows with a kept tail of one leave one row to
  fold, one that a chunk may separate from it and one that arrives meanwhile;
  more rows repeat these roles. Two seconds are enough for rows of the same
  and of different seconds and for every age limit to pass once. Crashes and failed
  writes are counted together, failed model calls by themselves (one of each);
  deferred calls are not bounded. The tail of one stands for the code's forty:
  the run has rollovers that more rows outran than it holds (`outran`).
  `LockGoesStale` lets a second fold take a lock that is held too long; it
  doubles the states, and the run leaves it out. The theorems do not: they hold
  with and without it.
* In the lifecycle runs `MaxEvents` bounds commands, runs in a terminal,
  signals and faults together: two of them put a kill or a stop beside any
  other event. The service manager's starts are not events. Requests and
  background threads come in `lifecycle_stop` only (`WorkComes`): no property
  of the other run looks at them. Three bridges are
  one that goes, one queued behind it and one that is respawned.
* The clocks are bounded, so instances end, and the configurations with a clock
  do not check deadlock. The transport instances and the relay do.

### Fairness

`FairSpec` of `KindledPairing` asks for weak fairness of the steps of both ticks
and of requests that have begun: the supervisor thread keeps calling the tick on
its cadence, and a tick that does not raise runs to its end. It also asks that a push that is tried again and again succeeds in the end:
`_drain_pending_rotation_notices` leaves a failed notice in the queue for the
next tick. Expiry of the notice is an outcome of its own.

`FairSpec` of `BridgeLifecycle` asks for weak fairness of the steps a bridge
takes by itself: its startup, its monitor, its supervisor and its shutdown
sequence, and the end of work it has started. The code sets no limit on that
work; a model call is bounded by the provider's time-out. A bridge that a kill
helper has suspended runs no step, and `StopCompletes` says so.

`FairSpec` of `Relay` lets every request that has begun go on: the violated
run needs no request that stops half-way.

The other modules are checked for safety only.

## 4. Where the code and its documents differ

Four runs end in a violation.

1. `pairing_lockout`. A rotation replaces the key and keeps the mailbox. The
   relay keeps the first owner of a mailbox and answers every other identity
   with 401, so that the rotated Kindled never fetches or acks again.
2. `conversation_lost_turn`. A fold reads the buffer again, and replaces the
   file, without the lock appends take. A turn persisted in between is
   overwritten; it is in no buffer and in no archive.
3. `outbound_band`. `1-spec.md` of the gate's milestones 9 and 10 says that a
   depleted budget is a full stop and that above it, in the tighten band, a
   revised text is sent when the second review says so; a test reads the same
   way. The code sends nothing in the band. `_apply_budget` turns a 'send' into a
   'revise', the revision is reviewed on the same budget and its 'send' becomes a
   'revise' again, and `_act_on_decision` holds a second one, after up to four
   model calls. `TightBudgetHolds` proves it for every budget and score.
4. `relay_evicted`. `1.5-criteria.md` of the relay's abuse limits says that a
   push never evicts a registered mailbox. `evictOldestEmptyUnregistered` chooses
   its victim in one statement and deletes it by id in another, so a mailbox
   registered in between goes with its owner.

Three more promises are not kept, and have no run of their own.

* *Blocked and revoked are terminal* (`transport.py:36-41`). Each of the three
  writers of `consent_state` can lift a cut. `on_session_open` writes back what
  it read before it derived the key. `set_consent` checks the transition against
  a state it read before, and then updates whatever is there. `import_invite`
  writes `pending_local` over any state but 'paired', which its endpoint has read
  earlier. The steps are in `KindledTransport` and `KindledPairing`; no property
  is stated of them, since all that is left to say is that nobody else writes
  the column.
* *Never drop the un-extracted* (`compaction.py:15-17`: only rows at or before
  the cursor are removable, "so a turn is never compacted away before it becomes
  a memory"). A row is stamped when its turn starts and stored when it ends. One
  that arrives with a second the cursor has reached meanwhile (`behind`) is
  never extracted, and a fold takes it for extracted and removes it. A weekly
  rollover also leaves rows out that came after its extraction and that its tail
  does not hold (`outran`). `UnextractedKept` proves that these, and the rows of
  the rewrite window, are all that leaves the buffers before it is extracted or
  set aside.
* *An interrupted kill leaves nothing that could still end the bridge*
  (`kill.py:21-24`). The stop asked of the service manager is not taken back: a
  kill called off after it lets the bridge end on it. And the `finally` resumes
  the bridge first and withdraws the request last, so a resumed bridge may obey
  it in between. `CalledOffTakesBack` is about what the helper has taken back by
  the time it returns: its request, its intent and its freeze.

The rest of this list is in the models as steps, and the properties that pass
are stated around it. `PROJECT.json` has each under its hazard.

* `complete_session` treats an existing key as "already done"; the sessions row
  and the clearing of the pending row come after the key. A crash in between
  is final: that side never has the session it holds a key for.
* `append_transcript` is a plain `INSERT` that commits before the high-water
  mark. After a crash in between the redelivered envelope raises on each poll,
  before the ack, until the relay collects it.
* `send_fn` drops the boolean of `send_message`: a draft is then 'send' although
  nothing left, and an opener is not tried again.
* `has_fresh_inbound` asks for any inbound row among the recent ones, and nothing
  writes outbound rows: once a peer has spoken each tick drafts a reply, which
  only the gap, the caps, the budget and the gate slow down.
* `recover` reads no consent state, and pausing or revoking leaves the session
  open: a draft left by a crash goes to a peer that has been cut off since.
* A second rotation before the first notice has left replaces it with one that
  is signed by a key the peer has never seen.
* A rollover that dies between the successor pointer and the delete is done
  again for the same session, which then has a second successor. No row is
  lost by it.
* Two kill helpers that start at the same moment may undo each other's intent;
  with two helpers and three events `KillHolds` fails.
* A service run that finds the lock taken before the holder has written
  `bridge.json` does not count as having waited for it, and may undo a plain
  stop of it. `PlainStopHolds` is about runs that saw the bridge.

## 5. Proofs

Checked by TLAPS for all values of the constants that satisfy the modules'
named assumptions. `TransportAssumption`, `OutboundAssumption`,
`PairingAssumption`, `RelayAssumption`, `LifecycleAssumption` and
`ConversationAssumption` say that bounds and limits are natural numbers, that
days and caps that are divided or counted by are positive, that scores lie
within the budget, that there is a session, that the threads and requests of the
pairing and of the relay are finitely many, and that a helper is not called what
no helper or a plain stop is called. `NullAssumption` keeps the relay's null
outside the identities. None of them bounds the number of nodes, requests, runs,
sessions, rows, crashes or events.

| Theorem | States |
|---|---|
| `KindledTransport_proofs!TypeCorrect` | `TypeOK` |
| `KindledTransport_proofs!KeysAgree` | `KeyAgreement` |
| `KindledTransport_proofs!InitiatorNeverAlone` | `InitiatorHasResponder` |
| `KindledTransport_proofs!NoncesUnique` | `NonceNeverReused` |
| `KindledChannel_proofs!ReplayCostsNothing` | `ReplayRejectsOnlyIngested` |
| `KindledChannel_proofs!ChannelImplemented` | `ImplementsChannel` |
| `KindledOutbound_proofs!TypeCorrect` | `TypeOK` |
| `KindledOutbound_proofs!OutboundCapped` | `DailyCapHeld` |
| `KindledOutbound_proofs!ProviderCapped` | `ProviderCapHeld` |
| `KindledOutbound_proofs!EverythingReviewed` | `NothingLeavesUnreviewed` |
| `KindledOutbound_proofs!TightBudgetHolds` | no message leaves below the tighten threshold (`SilentInTheBand`) |
| `KindledPacing_proofs!GapKept` | `PacingHeld` |
| `KindledPacing_proofs!SessionCapped` | `SessionCapHeld` |
| `KindledPacing_proofs!OneOpener` | `OpenerOnce` |
| `KindledPairing_proofs!TypeCorrect` | `TypeOK` |
| `KindledPairing_proofs!CodePairsOnce` | `InviteUsedOnce` |
| `KindledPairing_proofs!RowFound` | `RowUnderItsKey` |
| `Relay_proofs!TypeCorrect` | `TypeOK` |
| `Relay_proofs!QueueWithinBound` | `QueueBounded` |
| `Relay_proofs!OwnersKept` | `OwnerNeverReplaced` |
| `Relay_proofs!MailboxImplemented` | `ImplementsMailbox` |
| `BridgeLifecycle_proofs!TypeCorrect` | `TypeOK` |
| `BridgeLifecycle_proofs!RecordOwned` | `OwnRecord` |
| `BridgeLifecycle_proofs!StopIsQuiet` | `StoppedIsQuiet` |
| `BridgeLifecycle_proofs!StartsSpaced` | `SpacedStarts` |
| `BridgeLifecycle_proofs!CalledOffClean` | `CalledOffTakesBack` |
| `BridgeLifecycle_proofs!PlainStopFinal` | `PlainStopHolds` |
| `BridgeLifecycle_proofs!KillHoldsAlone` | `KillHolds`, for one kill helper |
| `BridgeLifecycle_proofs!KillHoldsUndisturbed` | `KillHolds`, while no other helper is on its way to commit |
| `Conversation_proofs!TypeCorrect` | `TypeOK` |
| `Conversation_proofs!NoneLost` | `LostOnlyInRewriteWindow` |
| `Conversation_proofs!UnextractedKept` | what leaves the buffers unextracted is known (`UnextractedAreKnown`) |
| `Conversation_proofs!CursorTrusted` | `CursorHonest` |

### 5.1 The link

**Keys.** `KeyAgreement` is not inductive: a key derived tomorrow from a leg in
flight must agree with one stored yesterday. `KeyInv` adds what ties them
together. `HandshakeInv`: every ephemeral is used by one pending row or one
key, a responder's key is made of the ephemeral of its own reply and of the
leg 1 it answered, and a leg in flight belongs to a row that exists.
`Delivered` and `Handling`: whatever the relay stores or a tick holds was once
pushed. `SealedUnder`: a message names a key row of its sender. `SealedOnce`:
its sequence is not above the committed counter, and no two messages of a
stream share one. Then a leg 2 that an initiator accepts carries the ephemeral
of the responder's stored key, and both sides derive the same key from it.

**The order of the mail.** `ReplayRejectsOnlyIngested` is not inductive: the
mailbox is fetched again after a crash or a failed ack, behind a moved high
water. `OrderInv` says how mailbox, batch and group stand to one another.
`OutFresh`: a message about to be pushed has a sequence above all pushed ones
of its stream, so (`HeldOrder`) a mailbox holds a stream in the order of its
sequences. `BatchWhole`: a batch holds all that is older than its items, and
the clamp cuts at the new end. `InTurn`: what is older than a message in hand
is in hand too, is in the transcript, was found expired, or was dropped for
want of a key; and since handshakes are sorted first, a key that was wanting
once stays wanting for the rest of the group. `KeyAgreement` rules out the last
way to lose a message, a key that does not fit. Hence `NonePassed`: what the
transcript has overtaken is in it or has expired; and by `RowsTrue` the high
water is a sequence of the transcript.

**The channel** follows: a push is a `Send` because of `OutFresh`, an append a
`Receive` because of `NonePassed` and of the primary key that `append_transcript`
raises on; every other step is a stutter.

**Types of the outbound tick** need `Timely`: no counter row and no budget is
stamped after now, or a refill would subtract.

**Caps.** `CapInv`: today's sends plus the one in flight are at most today's
outbound count, today's completed calls plus the one in flight at most today's
provider count, and no later day has any of either. The term for the call in
flight is what makes the refund sound: a failed review gives back the slot it
took and no other. A change of day needs the last part, since the counters of
a new day count from zero.

**Gate.** `GateInv`: at the point of acting and of sending, the payload is the
version last reviewed, and a verdict to send was given on an allowance at or
above the threshold (`SendOnBudget`, a lemma on `_apply_budget`).

**What a crash may cost.** Gap, session cap and opener are each kept by a row
that is written after the message has left, so none of the three properties is
inductive. `PaceInv`: what left since the last crash is behind the row's
`next_outbound_at`, but for the message whose bump is still to come.
`CountInv`: the messages of a session exceed the row's count by at most the
crashes and the one still to be counted. `OpenerInv`: every opener but one was
paid for with a crash, and that one is marked as sent or about to be; it needs
`DraftInv`, that the draft in hand is pending and no step but the tick's own
decides it. `Shapes` reduces the thirty steps to the twelve kinds these rows
can tell apart.

**Pairing.** `OnceInv`: nobody is about to import a code that is not yet
marked, at most one request is about to import a marked one, and only if
nobody has imported it. The mark is one statement, and who finds it set
stops. `RowFound` holds because every write of a row, a rotation's move
included, computes the key from the identity it writes.

### 5.2 The relay

`TypeInv` and `WithinCap`: the envelopes of a mailbox and the requests admitted
to insert into it, each counted against the depth it saw. The bound is on
their sum, because the depth is read one statement before the insert.
`History` ties what was stored and handed out to ids that have been given, and
what an acknowledgement names to ids that were handed out: a deposit of
`RelayMailbox` must not reuse the first, and only the second may be removed. `MailboxImplemented` maps every
statement to a deposit, a read, a removal, a tick of the clock or a stutter.

### 5.3 The bridge

The proofs rest on *shapes*: `Spawns`, `Climbs`, `Advances`, `Begins`, `Stops`,
`Falls`, `Still`, `Reboot` say what a step may do to runs, files and commands,
`RunShapes`, `CommandShapes` and `KillShapes` show that every action has one of
them, and each invariant is then proved once per shape.

* `LockInv`: who is past the lock holds it, and only the holder can be the
  record's owner. `SealInv`: after the seal nothing is admitted, so what has
  been drained stays drained.
* `OneService` and `SpacedInv`: at most one service run is between its wait and
  its start, and the back-off it waited for is the one on disk when it goes on.
* `KillInv` (`RequestInv`, `IntentInv`, `FrozenInv`): whose request, whose
  intent and whose suspension it is that a helper still has to undo.
* `ReasonInv` and `BehindInv`: a bridge that ended on a plain stop left that
  reason where the run queued behind it looks.
* `TargetInv` and `HeldInv`: a committed kill has its intent on disk, for the
  target and the boot it was committed in, and whoever could come up in place
  of the target reads it.

`KillHolds` is *not* true of any number of helpers: `kill.py` reads the intent
and writes it in two steps, and of two helpers that read before either wrote,
the second overwrites the first (see section 4). So there are two theorems. With one
helper it holds outright. With any number it holds in the behaviours in which
no other helper is active short of its own commitment while a kill is
committed, and that hypothesis, `NoSecondKill`, is exactly what the code does
not ensure.

### 5.4 The conversation

The theorems but the first speak of rows that may be gone, which no step can
look at, so the invariant says of every row that is still there what will be
true of it if it goes. `Safe` rows may leave: archived and extracted (or set
aside, or of one of the exceptions), or lost in the rewrite window. `Settled`
adds what a rollover leaves out of its tail.

* `Kept`: every row is in a buffer or settled. This is the property that is
  wanted; the rest is what makes each removal keep it.
* `CursorInv` is `CursorHonest`. It needs `PassInv`: a running pass holds, or
  has behind it, everything in its buffer that is not newer than its rows. Then a
  chunk may move the cursor to the last of its rows: `ChunkCut` shows that a
  chunk never ends within a second.
* `ClosingInv`, `FoldingInv` and `SeedingInv` follow a close, a fold and a
  rollover from what they read to what they write: what a fold removes was
  extracted before it began and archived before it rewrites, what a rollover
  leaves out is archived before the trim, and what it carries is in the
  successor before the delete.
* `MarkerInv`: a marker that spares an archive append names rows that are there.
* `LockInv`: who excludes whom. Where a lock may be reaped under a running fold,
  two folds, or a fold and a rollover, of one session meet, and the compaction
  lock excludes nobody. A fold that then rewrites writes back rows another one
  removed, which does no harm since they were safe; or it writes back the buffer
  a rollover deleted. `Deserted` says of the second case that the pointer is set
  and the cursor gone, so that those rows are not taken for extracted
  and nobody else comes to the session while the fold lasts; `StaysBy` and the
  lemmas after it show that it stays so, whoever moves.

`TypeInv` carries what the steps need of the data: whatever is in a buffer or in
hand was appended, a session that was not created has no files, the pointers
lead to sessions created later (`RolledInv`). With the last, `resolve_successor`
ends: the recursion of `Resolve` has a solution for all such pointers
(`ChainExists`), and its value is a session that was not rolled over
(`ResolveExists`). Induction is
used in its set form, by way of the least element of a set of numbers
(`LeastNatural`).

A step is reduced to a *fact* first, one lemma per action (`SeedTrimFacts`,
`FoldReplaceFacts`, ...), which says what it does to buffers, cursors and
histories and to the job that takes it; the invariant is then kept per kind of
step: `Quiet` ones touch no row, others rewrite or remove one buffer
(`RewriteHonest`).

### 5.5 Only model-checked

The liveness properties: fairness is out of the prover's reach. Every invariant
and action property of the passing runs and both refinements are proved,
`KillHolds` under the condition its theorems state. No
module declares a recursive operator.

## 6. Not modelled

* Cryptographic strength, parsing and canonical JSON: an envelope is a record.
* The text of drafts, prompts, summaries and patterns. That `recover` re-gates
  with an empty transcript summary is therefore not visible here.
* `kindled_link_enabled`: a disabled tick is `poll_and_ingest` alone, which is
  `KindledTransport` without its outbound steps.
* Clock changes: `now` never goes back.
* Failing and slow disks, apart from the failing writes of `Conversation`; a
  file that is replaced by rename is replaced at once.
* The composition of the parts: `KindledTransport` has its own relay, as loose
  as `Relay` can behave towards it, and the rows `KindledPairing` moves are
  fixed there.
* The parts `PROJECT.json` lists as not modelled, each with its reason: the
  desktop app, prompt text, ranking and real-valued decay, platform glue, and
  what was not reached (file proposals, the CLI throttle, the emotion queue,
  initiate, update overlays, healing of damaged files).

## 7. Plan

Every safety property of the passing runs is proved; what the proofs leave open
is `KillHolds` with several helpers, which the code does not keep, and liveness.
Worth stating next, in this order:

* that the relay `KindledTransport` assumes is one `Relay` provides: a mailbox
  that takes a push any number of times, hands out its rows and forgets
  what was acknowledged or has aged (so far only `RelayMailbox` is proved of
  `Relay`);
* an abstract conversation, an append-only log of rows each extracted at least
  once, as a specification that `Conversation` implements outside the rewrite
  window.
