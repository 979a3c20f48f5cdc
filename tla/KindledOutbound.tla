--------------------------- MODULE KindledOutbound ---------------------------
(***************************************************************************)
(* What a Kindled says to one peer: the outbound half of                   *)
(* run_kindled_link_tick (tick.py), the session engine (session_engine.py), *)
(* the privacy gate (privacy_gate.py) and the rows they keep (store.py).    *)
(*                                                                         *)
(* All of this state is per peer and a tick serves its peers one after     *)
(* another, so one peer stands for all.  A tick has one `now`: the clock    *)
(* moves between ticks.  Every commit, provider call and push is a step,    *)
(* and the process may die between any two of them.  What a model writes    *)
(* and how it judges is any outcome the code accepts.                       *)
(***************************************************************************)
EXTENDS Integers, Sequences, FiniteSets

CONSTANTS
    Sid,             \* session ids
    Gap,             \* KINDLED_LINK_MIN_OUTBOUND_GAP_SECONDS
    Cadence,         \* the tick's interval (cadence.py)
    DayLength,       \* a calendar day
    SessionCap,      \* KINDLED_LINK_SESSION_MSG_CAP
    OutboundCap,     \* KINDLED_LINK_DAILY_OUTBOUND_CAP
    ProviderCap,     \* KINDLED_LINK_DAILY_PROVIDER_CAP
    BudgetMax, Refill, Tighten, Depleted, MinDebit,   \* KINDLED_LINK_BUDGET_*
    Scores,          \* texture scores a verdict may carry
    MaxTime,         \* bound: the clock
    MaxDrafts,       \* bound: drafts
    MaxCrashes,      \* bound: process crashes
    ConsentChoices,  \* consent states the HTTP endpoints may write
    ProviderMayFail  \* the throttle may defer, a provider call may raise

ASSUME OutboundAssumption ==
    /\ Sid # {}
    /\ Gap \in Nat /\ Cadence \in Nat /\ DayLength \in Nat \ {0}
    /\ SessionCap \in Nat /\ OutboundCap \in Nat /\ ProviderCap \in Nat
    /\ BudgetMax \in Nat /\ Refill \in Nat /\ Tighten \in Nat /\ Depleted \in Nat
    /\ MinDebit \in Nat /\ Scores \subseteq 0 .. BudgetMax
    /\ MaxTime \in Nat /\ MaxDrafts \in Nat /\ MaxCrashes \in Nat
    /\ ConsentChoices \subseteq {"pending_local", "pending_remote", "paired",
                                "paused", "revoked", "blocked"}
    /\ ProviderMayFail \in BOOLEAN

VARIABLES
    clock,
    \* ---- durable: kindled_link.db and the cadence file ----
    consent,    \* peers.consent_state
    sessions,   \* by session: [state, role, started_at, msg_count, next_outbound_at]
    drafts,     \* outbound_drafts by id: [sid, reason, status]
    counters,   \* peer_counters: [reset_date, outbound, provider]
    budget,     \* disclosure_budget: [amount, updated_at]
    inbound,    \* the transcript has an inbound row
    nextDue,    \* last_run plus the interval
    \* ---- volatile: the running tick ----
    pc,
    todo,       \* ids of the pending drafts recover has still to visit
    job,        \* the payload in hand
    \* ---- history and bounds ----
    left,       \* every call of send_fn
    sentOn,     \* calls of send_fn, by day
    completed,  \* provider calls that returned, by day
    crashes

db == <<consent, sessions, drafts, counters, budget, inbound, nextDue>>
history == <<left, sentOn, completed, crashes>>
vars == <<clock, consent, sessions, drafts, counters, budget, inbound, nextDue, pc, todo, job,
          left, sentOn, completed, crashes>>

Day(t) == t \div DayLength
Today == Day(clock)
Days == 0 .. Day(MaxTime)

ConsentStates ==
    {"pending_local", "pending_remote", "paired", "paused", "revoked", "blocked"}

-----------------------------------------------------------------------------
(* The counters and the budget (store.py). *)

\* A row of another day counts as zero, and is reset by the first write.
GetCounters ==
    IF counters.reset_date = Today THEN counters
    ELSE [reset_date |-> Today, outbound |-> 0, provider |-> 0]

\* UPDATE ... WHERE outbound_count < cap RETURNING: one statement.
TryReserveOutbound ==
    /\ GetCounters.outbound < OutboundCap
    /\ counters' = [GetCounters EXCEPT !.outbound = @ + 1]

\* Mutant: the slot is checked but not taken.
CheckProviderOnly ==
    /\ GetCounters.provider < ProviderCap
    /\ counters' = GetCounters

\* Mutant: the cap is compared with <=.
ReserveProviderAtCap ==
    /\ GetCounters.provider <= ProviderCap
    /\ counters' = [GetCounters EXCEPT !.provider = @ + 1]

TryReserveProvider ==
    /\ GetCounters.provider < ProviderCap
    /\ counters' = [GetCounters EXCEPT !.provider = @ + 1]

ReleaseProviderSlot ==
    counters' = [GetCounters EXCEPT !.provider = IF @ = 0 THEN 0 ELSE @ - 1]

Least(x, y) == IF x < y THEN x ELSE y

\* Pull-computed refill since the last debit.
GetDisclosureBudget ==
    Least(BudgetMax, budget.amount + (clock - budget.updated_at) * Refill)

DebitDisclosureBudget(score) ==
    LET amount == IF score < MinDebit THEN MinDebit ELSE score
        now == GetDisclosureBudget
    IN budget' = [amount |-> IF amount > now THEN 0 ELSE now - amount,
                  updated_at |-> clock]

-----------------------------------------------------------------------------
(* Pacing and caps (session_engine.py). *)

\* Mutant: the gap is not looked at.
SendAllowedAtOnce(s) ==
    /\ sessions[s].state = "open"
    /\ sessions[s].msg_count < SessionCap
    /\ GetCounters.outbound < OutboundCap
    /\ GetCounters.provider < ProviderCap

\* Mutant: the session's message cap is compared with <=.
SendAllowedPastCap(s) ==
    /\ sessions[s].state = "open"
    /\ clock >= sessions[s].next_outbound_at
    /\ sessions[s].msg_count <= SessionCap
    /\ GetCounters.outbound < OutboundCap
    /\ GetCounters.provider < ProviderCap

\* _send_allowed: open, can_send_now, under_session_cap, under_daily_caps.
SendAllowed(s) ==
    /\ sessions[s].state = "open"
    /\ clock >= sessions[s].next_outbound_at
    /\ sessions[s].msg_count < SessionCap
    /\ GetCounters.outbound < OutboundCap
    /\ GetCounters.provider < ProviderCap

\* get_active_session: ORDER BY started_at DESC LIMIT 1.
ActiveSession ==
    {s \in Sid : /\ sessions[s].state = "open"
                 /\ \A r \in Sid : sessions[r].state = "open" =>
                        sessions[r].started_at <= sessions[s].started_at}

\* _should_open_first_content: initiator, and no draft marked 'send' here.
ShouldOpenFirstContent(s) ==
    /\ sessions[s].role = "initiator"
    /\ \A d \in DOMAIN drafts : ~(drafts[d].sid = s /\ drafts[d].status = "send")

-----------------------------------------------------------------------------
(* The gate's verdict. *)

Actions == {"send", "revise", "hold", "end_or_pause"}

ApplyBudget(action, allowance) ==
    CASE action = "send" /\ allowance < Depleted -> "hold"
      [] action = "send" /\ allowance >= Depleted /\ allowance < Tighten -> "revise"
      [] OTHER -> action

-----------------------------------------------------------------------------
NoJob == [draft |-> 0, sid |-> CHOOSE s \in Sid : TRUE, reason |-> "none",
          version |-> "draft", reviewed |-> "none", judged |-> "none", action |-> "hold",
          score |-> 0, allowance |-> 0]

Init ==
    /\ clock = 0
    /\ consent = "paired"
    /\ sessions = [s \in Sid |-> [state |-> "none", role |-> "responder", started_at |-> 0,
                                  msg_count |-> 0, next_outbound_at |-> 0]]
    /\ drafts = <<>>
    /\ counters = [reset_date |-> 0, outbound |-> 0, provider |-> 0]
    /\ budget = [amount |-> BudgetMax, updated_at |-> 0]
    /\ inbound = FALSE
    /\ nextDue = 0
    /\ pc = "idle" /\ todo = {} /\ job = NoJob
    /\ left = {}
    /\ sentOn = [d \in Days |-> 0]
    /\ completed = [d \in Days |-> 0]
    /\ crashes = 0

Goto(step) == pc' = step

\* The payload's fate is known: back to set_draft_status.
Decide(action) == job' = [job EXCEPT !.action = action] /\ Goto("status")

ProviderReturns == completed' = [completed EXCEPT ![Today] = @ + 1]

-----------------------------------------------------------------------------
(* recover: pending drafts in id order, each re-gated or deferred. *)

StartTick ==
    /\ pc = "idle"
    /\ clock >= nextDue
    /\ todo' = {d \in DOMAIN drafts : drafts[d].status = "pending"}
    /\ Goto("recover")
    /\ UNCHANGED <<clock, db, job, history>>

NextDraft(d) == pc = "recover" /\ d \in todo /\ \A e \in todo : d <= e

\* Not sendable for pacing, a cap or a closed session: stays pending.
RecoverDefers ==
    \E d \in todo :
        /\ NextDraft(d)
        /\ ~SendAllowed(drafts[d].sid)
        /\ todo' = todo \ {d}
        /\ UNCHANGED <<clock, db, pc, job, history>>

Recover ==
    \E d \in todo :
        /\ NextDraft(d)
        /\ SendAllowed(drafts[d].sid)
        /\ todo' = todo \ {d}
        /\ job' = [NoJob EXCEPT !.draft = d, !.sid = drafts[d].sid, !.reason = "recovery"]
        /\ Goto("outbound")
        /\ UNCHANGED <<clock, db, history>>

-----------------------------------------------------------------------------
(* _tick_peer, for a peer that list_paired_peers returns: a reply when there *)
(* is any inbound row, else the opener.                                      *)

TickPeer ==
    /\ pc = "recover" /\ todo = {}
    /\ consent = "paired"
    /\ \E s \in ActiveSession :
         /\ inbound \/ ShouldOpenFirstContent(s)
         /\ job' = [NoJob EXCEPT !.sid = s, !.reason = IF inbound THEN "reply" ELSE "opener"]
    /\ Len(drafts) < MaxDrafts
    /\ Goto("draft")
    /\ UNCHANGED <<clock, db, todo, history>>

NothingToSay ==
    /\ pc = "recover" /\ todo = {}
    /\ \/ consent # "paired"
       \/ \A s \in ActiveSession : ~inbound /\ ~ShouldOpenFirstContent(s)
       \/ Len(drafts) = MaxDrafts
    /\ Goto("done")
    /\ UNCHANGED <<clock, db, todo, job, history>>

\* generate_draft: the slot is reserved before the provider is called.
GenerateDraft ==
    /\ pc = "draft"
    /\ TryReserveProvider
    /\ Goto("draft_call")
    /\ UNCHANGED <<clock, consent, sessions, drafts, budget, inbound, nextDue, todo, job, history>>

\* The throttle defers, or the cap is spent.
DraftDeferred ==
    /\ pc = "draft"
    /\ \/ ProviderMayFail /\ UNCHANGED counters
       \/ GetCounters.provider >= ProviderCap /\ counters' = GetCounters
    /\ Goto("done")
    /\ UNCHANGED <<clock, consent, sessions, drafts, budget, inbound, nextDue, todo, job, history>>

DraftReturns ==
    /\ pc = "draft_call"
    /\ ProviderReturns
    /\ Goto("save_draft")
    /\ UNCHANGED <<clock, db, todo, job, left, sentOn, crashes>>

\* The exception ends the peer's turn; the slot is not refunded.
DraftRaises ==
    /\ ProviderMayFail
    /\ pc = "draft_call"
    /\ Goto("done")
    /\ UNCHANGED <<clock, db, todo, job, history>>

SaveDraft ==
    /\ pc = "save_draft"
    /\ drafts' = Append(drafts, [sid |-> job.sid, reason |-> job.reason, status |-> "pending"])
    /\ job' = [job EXCEPT !.draft = Len(drafts) + 1]
    /\ Goto("outbound")
    /\ UNCHANGED <<clock, consent, sessions, counters, budget, inbound, nextDue, todo, history>>

-----------------------------------------------------------------------------
(* process_outbound and PrivacyGate.review. *)

ProcessOutbound ==
    /\ pc = "outbound"
    /\ IF SendAllowed(job.sid) THEN Goto("gate") /\ UNCHANGED job ELSE Decide("hold")
    /\ UNCHANGED <<clock, db, todo, history>>

\* A structural leak is never sent, and costs no provider call.
Prefilter ==
    /\ pc = "gate"
    /\ \E action \in {"revise", "hold"} :
          job' = [job EXCEPT !.action = action, !.reviewed = job.version, !.judged = action,
                             !.score = BudgetMax]
    /\ Goto("act")
    /\ UNCHANGED <<clock, db, todo, history>>

GateReserves ==
    /\ pc = "gate"
    /\ TryReserveProvider
    /\ Goto("gate_call")
    /\ UNCHANGED <<clock, consent, sessions, drafts, budget, inbound, nextDue, todo, job, history>>

GateCapSpent ==
    /\ pc = "gate"
    /\ GetCounters.provider >= ProviderCap
    /\ counters' = GetCounters
    /\ Decide("hold")
    /\ UNCHANGED <<clock, consent, sessions, drafts, budget, inbound, nextDue, todo, history>>

\* _parse_verdict, then _apply_budget with the budget read before the call.
GateReturns ==
    /\ pc = "gate_call"
    /\ ProviderReturns
    /\ \E action \in Actions, score \in Scores :
          job' = [job EXCEPT !.action = ApplyBudget(action, GetDisclosureBudget),
                             !.reviewed = job.version, !.judged = action, !.score = score,
                             !.allowance = GetDisclosureBudget]
    /\ Goto("act")
    /\ UNCHANGED <<clock, db, todo, left, sentOn, crashes>>

\* Deferred or raised: the slot is refunded and the gate fails closed.
GateFails ==
    /\ ProviderMayFail
    /\ pc = "gate_call"
    /\ ReleaseProviderSlot
    /\ Decide("hold")
    /\ UNCHANGED <<clock, consent, sessions, drafts, budget, inbound, nextDue, todo, history>>

-----------------------------------------------------------------------------
(* _act_on_decision. *)

\* Mutant: the daily slot is checked but not taken before the send.
SendWithoutSlot ==
    /\ pc = "act" /\ job.action = "send"
    /\ counters' = GetCounters
    /\ IF GetCounters.outbound < OutboundCap
       THEN Goto("send") /\ UNCHANGED job
       ELSE Decide("hold")
    /\ UNCHANGED <<clock, consent, sessions, drafts, budget, inbound, nextDue, todo, history>>

\* The slot is taken before the send; losing it to another caller is a hold.
ReserveOutbound ==
    /\ pc = "act" /\ job.action = "send"
    /\ IF GetCounters.outbound < OutboundCap
       THEN TryReserveOutbound /\ Goto("send") /\ UNCHANGED job
       ELSE counters' = GetCounters /\ Decide("hold")
    /\ UNCHANGED <<clock, consent, sessions, drafts, budget, inbound, nextDue, todo, history>>

\* send_fn ignores what send_message returns, so a push that failed goes on
\* like one that was stored.
SendFn ==
    /\ pc = "send"
    /\ left' = left \cup
         {[n |-> Cardinality(left), sid |-> job.sid, draft |-> job.draft,
           version |-> job.version, reviewed |-> job.reviewed, at |-> clock,
           allowance |-> job.allowance, reason |-> job.reason, crashes |-> crashes]}
    /\ sentOn' = [sentOn EXCEPT ![Today] = @ + 1]
    /\ Goto("bump")
    /\ UNCHANGED <<clock, db, todo, job, completed, crashes>>

Bumped(row) == [row EXCEPT !.msg_count = @ + 1, !.next_outbound_at = clock + Gap]

BumpSessionOutbound ==
    /\ pc = "bump"
    /\ sessions' = [sessions EXCEPT ![job.sid] = Bumped(sessions[job.sid])]
    /\ Goto("debit")
    /\ UNCHANGED <<clock, consent, drafts, counters, budget, inbound, nextDue, todo, job, history>>

Debit ==
    /\ pc = "debit"
    /\ DebitDisclosureBudget(job.score)
    /\ Goto("status")
    /\ UNCHANGED <<clock, consent, sessions, drafts, counters, inbound, nextDue, todo, job, history>>

EndSession ==
    /\ pc = "act" /\ job.action = "end_or_pause"
    /\ sessions' = [sessions EXCEPT ![job.sid].state = "ended"]
    /\ Goto("status")
    /\ UNCHANGED <<clock, consent, drafts, counters, budget, inbound, nextDue, todo, job, history>>

\* A hold, or a second request to revise.
Hold ==
    /\ pc = "act"
    /\ job.action = "hold" \/ (job.action = "revise" /\ job.version = "revision")
    /\ Decide("hold")
    /\ UNCHANGED <<clock, db, todo, history>>

\* _regenerate: one revision, under the same cap.
Regenerate ==
    /\ pc = "act" /\ job.action = "revise" /\ job.version = "draft"
    /\ \/ TryReserveProvider /\ Goto("revise_call") /\ UNCHANGED job
       \/ GetCounters.provider >= ProviderCap /\ counters' = GetCounters /\ Decide("hold")
       \/ ProviderMayFail /\ UNCHANGED counters /\ Decide("hold")
    /\ UNCHANGED <<clock, consent, sessions, drafts, budget, inbound, nextDue, todo, history>>

\* Mutant: the revision is taken as safe and sent without another review.
RevisionTrusted ==
    /\ pc = "revise_call"
    /\ ProviderReturns
    /\ job' = [job EXCEPT !.version = "revision", !.action = "send"]
    /\ Goto("act")
    /\ UNCHANGED <<clock, db, todo, left, sentOn, crashes>>

\* The revision goes through the gate again.
RevisionReturns ==
    /\ pc = "revise_call"
    /\ ProviderReturns
    /\ job' = [job EXCEPT !.version = "revision"]
    /\ Goto("gate")
    /\ UNCHANGED <<clock, db, todo, left, sentOn, crashes>>

RevisionRaises ==
    /\ ProviderMayFail
    /\ pc = "revise_call"
    /\ Decide("hold")
    /\ UNCHANGED <<clock, db, todo, history>>

\* Mutant: the outcome of an opener is not recorded.
SetReplyStatus ==
    /\ pc = "status"
    /\ drafts' = IF job.reason = "opener" THEN drafts
                 ELSE [drafts EXCEPT ![job.draft].status = job.action]
    /\ Goto(IF job.reason = "recovery" THEN "recover" ELSE "done")
    /\ job' = NoJob
    /\ UNCHANGED <<clock, consent, sessions, counters, budget, inbound, nextDue, todo, history>>

SetDraftStatus ==
    /\ pc = "status"
    /\ drafts' = [drafts EXCEPT ![job.draft].status = job.action]
    /\ Goto(IF job.reason = "recovery" THEN "recover" ELSE "done")
    /\ job' = NoJob
    /\ UNCHANGED <<clock, consent, sessions, counters, budget, inbound, nextDue, todo, history>>

\* save_tick_cadence.
FinishTick ==
    /\ pc = "done"
    /\ nextDue' = clock + Cadence
    /\ Goto("idle")
    /\ job' = NoJob
    /\ UNCHANGED <<clock, consent, sessions, drafts, counters, budget, inbound, todo, history>>

-----------------------------------------------------------------------------
(* Around the tick. *)

\* A handshake completed in poll_and_ingest opens a session.
CreateSession(s, role) ==
    /\ pc = "idle"
    /\ consent = "paired"
    /\ sessions[s].state = "none"
    /\ sessions' = [sessions EXCEPT ![s] = [@ EXCEPT !.state = "open", !.role = role,
                                                    !.started_at = clock]]
    /\ UNCHANGED <<clock, consent, drafts, counters, budget, inbound, nextDue, pc, todo, job, history>>

\* poll_and_ingest appends an inbound message.
Ingest ==
    /\ pc = "idle"
    /\ consent = "paired"
    /\ \E s \in Sid : sessions[s].state # "none"
    /\ inbound' = TRUE
    /\ UNCHANGED <<clock, consent, sessions, drafts, counters, budget, nextDue, pc, todo, job,
                   history>>

\* An HTTP thread writes the peer's row: set_consent, or the upsert_peer of
\* import_invite; what it checked it checked in an earlier statement.
ConsentWritten ==
    /\ consent' \in ConsentChoices
    /\ UNCHANGED <<clock, sessions, drafts, counters, budget, inbound, nextDue, pc, todo, job,
                   history>>

Wait ==
    /\ pc = "idle"
    /\ clock < MaxTime
    /\ clock' = clock + 1
    /\ UNCHANGED <<db, pc, todo, job, history>>

Crash ==
    /\ pc # "idle"
    /\ crashes < MaxCrashes
    /\ crashes' = crashes + 1
    /\ Goto("idle") /\ todo' = {} /\ job' = NoJob
    /\ UNCHANGED <<clock, db, left, sentOn, completed>>

Step ==
    \/ StartTick \/ RecoverDefers \/ Recover \/ TickPeer \/ NothingToSay
    \/ GenerateDraft \/ DraftDeferred \/ DraftReturns \/ DraftRaises \/ SaveDraft
    \/ ProcessOutbound \/ Prefilter \/ GateReserves \/ GateCapSpent \/ GateReturns \/ GateFails
    \/ ReserveOutbound \/ SendFn \/ BumpSessionOutbound \/ Debit \/ EndSession \/ Hold
    \/ Regenerate \/ RevisionReturns \/ RevisionRaises \/ SetDraftStatus \/ FinishTick

Next ==
    \/ Step
    \/ \E s \in Sid, role \in {"initiator", "responder"} : CreateSession(s, role)
    \/ Ingest \/ ConsentWritten \/ Wait \/ Crash

Spec == Init /\ [][Next]_vars

-----------------------------------------------------------------------------
(* Types. *)

Steps == {"idle", "recover", "draft", "draft_call", "save_draft", "outbound", "gate",
          "gate_call", "act", "send", "bump", "debit", "revise_call", "status", "done"}

Versions == {"draft", "revision"}
Reasons == {"none", "recovery", "reply", "opener"}

Jobs == [draft : Nat, sid : Sid, reason : Reasons,
         version : Versions, reviewed : Versions \cup {"none"},
         judged : Actions \cup {"none"}, action : Actions,
         score : 0 .. BudgetMax, allowance : 0 .. BudgetMax]

Sends == [n : Nat, sid : Sid, draft : Nat, version : Versions,
          reviewed : Versions \cup {"none"}, at : 0 .. MaxTime,
          allowance : 0 .. BudgetMax, reason : Reasons, crashes : Nat]

SessionRows == [state : {"none", "open", "ended"}, role : {"initiator", "responder"},
                started_at : 0 .. MaxTime, msg_count : Nat, next_outbound_at : Nat]

DraftRows == [sid : Sid, reason : Reasons, status : Actions \cup {"pending"}]

CounterRows == [reset_date : Days, outbound : 0 .. OutboundCap, provider : 0 .. ProviderCap]

DbType ==
    /\ clock \in 0 .. MaxTime
    /\ consent \in ConsentStates
    /\ sessions \in [Sid -> SessionRows]
    /\ drafts \in Seq(DraftRows)
    /\ counters \in CounterRows
    /\ budget \in [amount : 0 .. BudgetMax, updated_at : 0 .. MaxTime]
    /\ inbound \in BOOLEAN
    /\ nextDue \in Nat

TickType == pc \in Steps /\ todo \subseteq DOMAIN drafts /\ job \in Jobs

HistoryType ==
    /\ left \subseteq Sends /\ IsFiniteSet(left)
    /\ sentOn \in [Days -> Nat]
    /\ completed \in [Days -> Nat]
    /\ crashes \in Nat

\* The type invariant: every row, counter and local of the tick stays in its
\* range, the two daily counters within their caps and the budget within its
\* maximum.
TypeOK == DbType /\ TickType /\ HistoryType

-----------------------------------------------------------------------------
(* Safety. *)

\* The daily outbound cap bounds the calls of send_fn of a day, whatever
\* crashes, recoveries and revisions fall on it: the slot is committed before
\* the send (session_engine.py, _act_on_decision).
DailyCapHeld == \A d \in Days : sentOn[d] <= OutboundCap

\* The daily provider cap bounds the completed model calls of a day, drafts,
\* reviews and revisions together, although a failed review refunds its slot
\* (store.py, release_provider_slot).
ProviderCapHeld == \A d \in Days : completed[d] <= ProviderCap

\* "Nothing leaves ungated": the very text that is pushed was reviewed in the
\* turn that pushes it, a revision or a recovered draft included.
NothingLeavesUnreviewed == \A x \in left : x.reviewed = x.version

\* The budget's tighten band permits a revised send and only the depletion floor
\* is a full stop (docs/guarded-change/kindled-link-gate-m9-m10/1-spec.md): a turn
\* that holds a revision the model judged fit to send does so for the daily cap.
\* It does not hold: _apply_budget meets the revision in the same band and asks
\* for a second revision, which _act_on_decision holds.
BandPermitsRevision ==
    ( /\ pc = "status" /\ job.reviewed = "revision" /\ job.judged = "send"
      /\ job.allowance >= Depleted
      /\ GetCounters.outbound < OutboundCap )
    => job.action = "send"

\* Two messages of a session are a full gap apart, unless the process died
\* between the first push and the commit of its time.
PacingHeld ==
    \A x, y \in left :
        x.n < y.n /\ x.sid = y.sid /\ x.crashes = y.crashes => y.at >= x.at + Gap

\* A session carries at most its message cap, plus one for every crash that
\* fell between a push and the commit of its count.
SessionCapHeld ==
    \A s \in Sid : Cardinality({x \in left : x.sid = s}) <= SessionCap + crashes

\* A session has one opener: a second draft is generated as an opener only
\* when a crash kept the first from being marked 'send'.
OpenerOnce ==
    \A s \in Sid :
        Cardinality({x.draft : x \in {y \in left : y.sid = s /\ y.reason = "opener"}})
            <= 1 + crashes
=============================================================================
