----------------------- MODULE KindledOutbound_proofs -----------------------
(***************************************************************************)
(* Proofs about KindledOutbound, for any sessions, gaps, caps, budgets,     *)
(* scores, bounds and faults.                                              *)
(***************************************************************************)
EXTENDS KindledOutbound, FiniteSetTheorems, TLAPS

-----------------------------------------------------------------------------
(* Days, counters and the budget. *)

\* A later time is not on an earlier day.
LEMMA DayMonotone ==
    ASSUME NEW a \in Nat, NEW b \in Nat, a <= b
    PROVE  Day(a) \in Nat /\ Day(b) \in Nat /\ Day(a) <= Day(b)
<1>1. DayLength \in Nat \ {0}
  BY OutboundAssumption
<1>2. ASSUME NEW L \in Nat \ {0}
      PROVE  a \div L \in Nat /\ b \div L \in Nat /\ a \div L <= b \div L
  OBVIOUS
<1> QED
  BY <1>1, <1>2 DEF Day

\* No row is stamped in the future.
Timely == counters.reset_date <= Today /\ budget.updated_at <= clock

\* Today is one of the days of the run.
LEMMA TodayType == ASSUME DbType PROVE Today \in Days /\ Today \in Nat
<1>1. clock \in Nat /\ MaxTime \in Nat /\ clock <= MaxTime
  BY OutboundAssumption DEF DbType
<1> QED
  BY <1>1, DayMonotone DEF Today, Days

\* Reading the counters, reserving a slot and refunding one keep the counts
\* between zero and the caps, and leave a row of today.
LEMMA CounterType ==
    ASSUME DbType
    PROVE  /\ GetCounters \in CounterRows /\ GetCounters.reset_date = Today
           /\ TryReserveOutbound => counters' \in CounterRows /\ counters'.reset_date = Today
           /\ TryReserveProvider => counters' \in CounterRows /\ counters'.reset_date = Today
           /\ ReleaseProviderSlot => counters' \in CounterRows /\ counters'.reset_date = Today
<1>1. counters \in CounterRows /\ Today \in Days
  BY TodayType DEF DbType, CounterRows
<1>2. GetCounters \in CounterRows /\ GetCounters.reset_date = Today
  BY <1>1, OutboundAssumption DEF GetCounters, CounterRows
<1> QED
  BY <1>2, OutboundAssumption
  DEF CounterRows, TryReserveOutbound, TryReserveProvider, ReleaseProviderSlot

\* A refilled budget lies between zero and its maximum.
LEMMA BudgetType == ASSUME DbType, Timely PROVE GetDisclosureBudget \in 0 .. BudgetMax
<1>1. /\ budget.amount \in Nat /\ Refill \in Nat /\ BudgetMax \in Nat
      /\ clock - budget.updated_at \in Nat
  BY OutboundAssumption DEF DbType, Timely
<1>2. (clock - budget.updated_at) * Refill \in Nat
  BY <1>1
<1> QED
  BY <1>1, <1>2 DEF GetDisclosureBudget, Least

\* A debit leaves a budget between zero and its maximum, stamped now.
LEMMA DebitType ==
    ASSUME DbType, Timely, NEW score \in 0 .. BudgetMax, DebitDisclosureBudget(score)
    PROVE  budget' \in [amount : 0 .. BudgetMax, updated_at : {clock}]
<1>1. MinDebit \in Nat /\ BudgetMax \in Nat
  BY OutboundAssumption
<1> QED
  BY <1>1, BudgetType DEF DebitDisclosureBudget

\* What the budget makes of a verdict is a verdict.
LEMMA VerdictType ==
    ASSUME NEW action \in Actions, NEW allowance \in 0 .. BudgetMax
    PROVE  ApplyBudget(action, allowance) \in Actions
BY DEF ApplyBudget, Actions

\* An empty job is a job.
LEMMA NoJobType == NoJob \in Jobs
BY OutboundAssumption DEF NoJob, Jobs, Actions, Reasons, Versions

-----------------------------------------------------------------------------
(* Type correctness, part by part. *)

\* Rows that nothing writes keep their type.
LEMMA DbSame == ASSUME DbType, Timely, UNCHANGED <<clock, db>> PROVE DbType' /\ Timely'
BY DEF DbType, Timely, db, Today

\* Writing a row of counters for today keeps the rows well typed.
LEMMA CountersWritten ==
    ASSUME DbType, Timely, counters' \in CounterRows, counters'.reset_date = Today,
           UNCHANGED <<clock, consent, sessions, drafts, budget, inbound, nextDue>>
    PROVE  DbType' /\ Timely'
<1>1. Today \in Nat /\ Today' = Today
  BY TodayType DEF Today
<1> QED
  BY <1>1 DEF DbType, Timely, CounterRows

\* Writing a session row keeps the rows well typed.
LEMMA SessionsWritten ==
    ASSUME DbType, Timely, UNCHANGED <<clock, consent, drafts, counters, budget, inbound, nextDue>>,
           sessions' \in [Sid -> SessionRows]
    PROVE  DbType' /\ Timely'
BY DEF DbType, Timely, Today

\* Counting a completed provider call keeps the history well typed.
LEMMA ReturnsType ==
    ASSUME DbType, HistoryType, ProviderReturns, UNCHANGED <<left, sentOn, crashes>>
    PROVE  HistoryType'
<1>1. Today \in Days
  BY TodayType
<1> QED
  BY <1>1 DEF HistoryType, ProviderReturns

\* Locals that nothing writes keep their type.
LEMMA TickSame == ASSUME TickType, UNCHANGED <<pc, todo, job, drafts>> PROVE TickType'
BY DEF TickType

\* History that nothing writes keeps its type.
LEMMA HistorySame == ASSUME HistoryType, UNCHANGED history PROVE HistoryType'
BY DEF HistoryType, history

\* The initial state is well typed.
LEMMA TypeInit == ASSUME Init PROVE TypeOK /\ Timely
<1>1. 0 \in 0 .. MaxTime /\ Today \in Nat /\ Day(MaxTime) \in Nat /\ Today <= Day(MaxTime)
  BY DayMonotone, OutboundAssumption DEF Init, Today
<1>2. DbType
  <2>1. /\ clock \in 0 .. MaxTime /\ consent \in ConsentStates
        /\ inbound \in BOOLEAN /\ nextDue \in Nat
    BY <1>1 DEF Init, ConsentStates
  <2>2. sessions \in [Sid -> SessionRows]
    BY <1>1 DEF Init, SessionRows
  <2>3. drafts \in Seq(DraftRows)
    BY DEF Init
  <2>4. counters \in CounterRows
    BY <1>1, OutboundAssumption DEF Init, Days, CounterRows
  <2>5. budget \in [amount : 0 .. BudgetMax, updated_at : 0 .. MaxTime]
    BY <1>1, OutboundAssumption DEF Init
  <2> QED
    BY <2>1, <2>2, <2>3, <2>4, <2>5 DEF DbType
<1>3. TickType
  BY NoJobType DEF Init, TickType, Steps
<1>4. HistoryType
  BY FS_EmptySet DEF Init, HistoryType
<1> QED
  BY <1>1, <1>2, <1>3, <1>4 DEF Init, TypeOK, Timely

\* Every step keeps the types and the stamps.
LEMMA TypeStep == ASSUME TypeOK, Timely, [Next]_vars PROVE TypeOK' /\ Timely'
<1> USE DEF TypeOK
<1>1. CASE StartTick
  <2>1. DbType' /\ Timely'
    BY <1>1, DbSame DEF StartTick
  <2>2. TickType'
    BY <1>1 DEF StartTick, TickType, Goto, Jobs, Steps, Actions, DbType, db
  <2>3. HistoryType'
    BY <1>1, HistorySame DEF StartTick
  <2> QED
    BY <2>1, <2>2, <2>3
<1>2. CASE RecoverDefers
  <2>1. DbType' /\ Timely'
    BY <1>2, DbSame DEF RecoverDefers
  <2>2. TickType'
    BY <1>2 DEF RecoverDefers, TickType, Jobs, Steps, Actions, DbType, db
  <2>3. HistoryType'
    BY <1>2, HistorySame DEF RecoverDefers
  <2> QED
    BY <2>1, <2>2, <2>3
<1>3. CASE Recover
  <2>1. DbType' /\ Timely'
    BY <1>3, DbSame DEF Recover
  <2>2. TickType'
    <3>1. PICK d \in todo :
             /\ job' = [NoJob EXCEPT !.draft = d, !.sid = drafts[d].sid, !.reason = "recovery"]
             /\ todo' = todo \ {d} /\ pc' = "outbound" /\ drafts' = drafts
      BY <1>3 DEF Recover, Goto, db
    <3>2. d \in Nat /\ drafts[d].sid \in Sid
      <4>1. d \in 1 .. Len(drafts) /\ Len(drafts) \in Nat
        BY <3>1 DEF TickType, DbType
      <4>2. drafts[d] \in DraftRows
        BY <4>1 DEF DbType
      <4> QED
        BY <4>1, <4>2 DEF DraftRows
    <3>3. job' \in Jobs
      BY <3>1, <3>2, NoJobType DEF Jobs, Reasons, DbType
    <3> QED
      BY <3>1, <3>3 DEF TickType, Steps
  <2>3. HistoryType'
    BY <1>3, HistorySame DEF Recover
  <2> QED
    BY <2>1, <2>2, <2>3
<1>4. CASE TickPeer
  <2>1. DbType' /\ Timely'
    BY <1>4, DbSame DEF TickPeer
  <2>2. TickType'
    BY <1>4, NoJobType
    DEF TickPeer, ActiveSession, TickType, Goto, Jobs, Steps, Reasons, DbType, db
  <2>3. HistoryType'
    BY <1>4, HistorySame DEF TickPeer
  <2> QED
    BY <2>1, <2>2, <2>3
<1>5. CASE NothingToSay
  <2>1. DbType' /\ Timely'
    BY <1>5, DbSame DEF NothingToSay
  <2>2. TickType'
    BY <1>5 DEF NothingToSay, TickType, Goto, Jobs, Steps, Actions, DbType, db
  <2>3. HistoryType'
    BY <1>5, HistorySame DEF NothingToSay
  <2> QED
    BY <2>1, <2>2, <2>3
<1>6. CASE GenerateDraft
  <2>1. DbType' /\ Timely'
    BY <1>6, CounterType, CountersWritten DEF GenerateDraft
  <2>2. TickType'
    BY <1>6 DEF GenerateDraft, TickType, Goto, Jobs, Steps, Actions, DbType
  <2>3. HistoryType'
    BY <1>6, HistorySame DEF GenerateDraft
  <2> QED
    BY <2>1, <2>2, <2>3
<1>7. CASE DraftDeferred
  <2>1. DbType' /\ Timely'
    BY <1>7, CounterType, CountersWritten, DbSame DEF DraftDeferred, db
  <2>2. TickType'
    BY <1>7 DEF DraftDeferred, TickType, Goto, Jobs, Steps, Actions, DbType
  <2>3. HistoryType'
    BY <1>7, HistorySame DEF DraftDeferred
  <2> QED
    BY <2>1, <2>2, <2>3
<1>8. CASE DraftReturns
  <2>1. DbType' /\ Timely'
    BY <1>8, DbSame DEF DraftReturns
  <2>2. TickType'
    BY <1>8 DEF DraftReturns, TickType, Goto, Jobs, Steps, Actions, DbType, db
  <2>3. HistoryType'
    BY <1>8, ReturnsType DEF DraftReturns
  <2> QED
    BY <2>1, <2>2, <2>3
<1>9. CASE DraftRaises
  <2>1. DbType' /\ Timely'
    BY <1>9, DbSame DEF DraftRaises
  <2>2. TickType'
    BY <1>9 DEF DraftRaises, TickType, Goto, Jobs, Steps, Actions, DbType, db
  <2>3. HistoryType'
    BY <1>9, HistorySame DEF DraftRaises
  <2> QED
    BY <2>1, <2>2, <2>3
<1>10. CASE SaveDraft
  <2>1. DbType' /\ Timely'
    BY <1>10 DEF SaveDraft, DbType, Timely, Today, TickType, Jobs, DraftRows
  <2>2. TickType'
    <3>1. Len(drafts) \in Nat /\ DOMAIN drafts \subseteq DOMAIN drafts'
      BY <1>10 DEF SaveDraft, DbType
    <3>2. job' \in Jobs
      BY <1>10, <3>1 DEF SaveDraft, TickType, Jobs
    <3> QED
      BY <1>10, <3>1, <3>2 DEF SaveDraft, TickType, Goto, Steps
  <2>3. HistoryType'
    BY <1>10, HistorySame DEF SaveDraft
  <2> QED
    BY <2>1, <2>2, <2>3
<1>11. CASE ProcessOutbound
  <2>1. DbType' /\ Timely'
    BY <1>11, DbSame DEF ProcessOutbound
  <2>2. TickType'
    BY <1>11 DEF ProcessOutbound, TickType, Goto, Decide, Jobs, Steps, Actions, DbType, db
  <2>3. HistoryType'
    BY <1>11, HistorySame DEF ProcessOutbound
  <2> QED
    BY <2>1, <2>2, <2>3
<1>12. CASE Prefilter
  <2>1. DbType' /\ Timely'
    BY <1>12, DbSame DEF Prefilter
  <2>2. TickType'
    <3>1. PICK action \in {"revise", "hold"} :
             job' = [job EXCEPT !.action = action, !.reviewed = job.version, !.judged = action,
                                !.score = BudgetMax]
      BY <1>12 DEF Prefilter
    <3>2. BudgetMax \in 0 .. BudgetMax /\ action \in Actions
      BY OutboundAssumption DEF Actions
    <3>3. job' \in Jobs
      BY <3>1, <3>2 DEF TickType, Jobs
    <3> QED
      BY <1>12, <3>3 DEF Prefilter, TickType, Goto, Steps, db
  <2>3. HistoryType'
    BY <1>12, HistorySame DEF Prefilter
  <2> QED
    BY <2>1, <2>2, <2>3
<1>13. CASE GateReserves
  <2>1. DbType' /\ Timely'
    BY <1>13, CounterType, CountersWritten DEF GateReserves
  <2>2. TickType'
    BY <1>13 DEF GateReserves, TickType, Goto, Jobs, Steps, Actions, DbType
  <2>3. HistoryType'
    BY <1>13, HistorySame DEF GateReserves
  <2> QED
    BY <2>1, <2>2, <2>3
<1>14. CASE GateCapSpent
  <2>1. DbType' /\ Timely'
    BY <1>14, CounterType, CountersWritten DEF GateCapSpent
  <2>2. TickType'
    BY <1>14 DEF GateCapSpent, TickType, Goto, Decide, Jobs, Steps, Actions, DbType
  <2>3. HistoryType'
    BY <1>14, HistorySame DEF GateCapSpent
  <2> QED
    BY <2>1, <2>2, <2>3
<1>15. CASE GateReturns
  <2>1. DbType' /\ Timely'
    BY <1>15, DbSame DEF GateReturns
  <2>2. TickType'
    <3>1. PICK action \in Actions, score \in Scores :
             job' = [job EXCEPT !.action = ApplyBudget(action, GetDisclosureBudget),
                                !.reviewed = job.version, !.judged = action, !.score = score,
                                !.allowance = GetDisclosureBudget]
      BY <1>15 DEF GateReturns
    <3>2. score \in 0 .. BudgetMax /\ ApplyBudget(action, GetDisclosureBudget) \in Actions
      BY BudgetType, VerdictType, OutboundAssumption
    <3>3. job' \in Jobs
      BY <3>1, <3>2, BudgetType DEF TickType, Jobs
    <3> QED
      BY <1>15, <3>3 DEF GateReturns, TickType, Goto, Steps, db
  <2>3. HistoryType'
    BY <1>15, ReturnsType DEF GateReturns
  <2> QED
    BY <2>1, <2>2, <2>3
<1>16. CASE GateFails
  <2>1. DbType' /\ Timely'
    BY <1>16, CounterType, CountersWritten DEF GateFails
  <2>2. TickType'
    BY <1>16 DEF GateFails, TickType, Goto, Decide, Jobs, Steps, Actions, DbType
  <2>3. HistoryType'
    BY <1>16, HistorySame DEF GateFails
  <2> QED
    BY <2>1, <2>2, <2>3
<1>17. CASE ReserveOutbound
  <2>1. DbType' /\ Timely'
    BY <1>17, CounterType, CountersWritten DEF ReserveOutbound
  <2>2. TickType'
    BY <1>17 DEF ReserveOutbound, TickType, Goto, Decide, Jobs, Steps, Actions, DbType
  <2>3. HistoryType'
    BY <1>17, HistorySame DEF ReserveOutbound
  <2> QED
    BY <2>1, <2>2, <2>3
<1>18. CASE SendFn
  <2>1. DbType' /\ Timely'
    BY <1>18, DbSame DEF SendFn
  <2>2. TickType'
    BY <1>18 DEF SendFn, TickType, Goto, Jobs, Steps, Actions, DbType, db
  <2>3. HistoryType'
    <3>0. left \subseteq Sends /\ IsFiniteSet(left)
      BY DEF HistoryType
    <3>1. left' = left \cup
             {[n |-> Cardinality(left), sid |-> job.sid, draft |-> job.draft,
               version |-> job.version, reviewed |-> job.reviewed, at |-> clock,
               allowance |-> job.allowance, reason |-> job.reason, crashes |-> crashes]}
      BY <1>18 DEF SendFn
    <3>2. Cardinality(left) \in Nat
      BY <3>0, FS_CardinalityType
    <3>3. left' \subseteq Sends
      BY <3>0, <3>1, <3>2 DEF HistoryType, TickType, DbType, Sends, Jobs
    <3>5. IsFiniteSet(left')
      BY <3>0, <3>1, FS_AddElement
    <3>4. sentOn' \in [Days -> Nat]
      BY <1>18, TodayType DEF SendFn, HistoryType
    <3> QED
      BY <1>18, <3>1, <3>3, <3>4, <3>5 DEF SendFn, HistoryType
  <2> QED
    BY <2>1, <2>2, <2>3
<1>19. CASE BumpSessionOutbound
  <2>1. DbType' /\ Timely'
    <3>1. clock + Gap \in Nat /\ job.sid \in Sid
      BY OutboundAssumption DEF DbType, TickType, Jobs
    <3>2. sessions' \in [Sid -> SessionRows]
      <4>1. sessions[job.sid] \in SessionRows
        BY <3>1 DEF DbType
      <4>2. Bumped(sessions[job.sid]) \in SessionRows
        <5>1. \A row \in SessionRows, count, at \in Nat :
                 [row EXCEPT !.msg_count = count, !.next_outbound_at = at] \in SessionRows
          BY DEF SessionRows
        <5>2. sessions[job.sid].msg_count + 1 \in Nat
          BY <4>1 DEF SessionRows
        <5> QED
          BY <3>1, <4>1, <5>1, <5>2 DEF Bumped
      <4> QED
        BY <1>19, <4>2 DEF BumpSessionOutbound, DbType
    <3> QED
      BY <1>19, <3>2, SessionsWritten DEF BumpSessionOutbound
  <2>2. TickType'
    BY <1>19 DEF BumpSessionOutbound, TickType, Goto, Jobs, Steps, Actions, DbType
  <2>3. HistoryType'
    BY <1>19, HistorySame DEF BumpSessionOutbound
  <2> QED
    BY <2>1, <2>2, <2>3
<1>20. CASE Debit
  <2>1. DbType' /\ Timely'
    <3>1. budget' \in [amount : 0 .. BudgetMax, updated_at : {clock}]
      BY <1>20, DebitType DEF Debit, TickType, Jobs
    <3>2. clock \in Nat
      BY OutboundAssumption DEF DbType
    <3>3. DbType'
      BY <1>20, <3>1, <3>2 DEF Debit, DbType
    <3> QED
      BY <1>20, <3>1, <3>2, <3>3 DEF Debit, Timely, Today
  <2>2. TickType'
    BY <1>20 DEF Debit, TickType, Goto, Jobs, Steps, Actions, DbType
  <2>3. HistoryType'
    BY <1>20, HistorySame DEF Debit
  <2> QED
    BY <2>1, <2>2, <2>3
<1>21. CASE EndSession
  <2>1. DbType' /\ Timely'
    BY <1>21, SessionsWritten DEF EndSession, DbType, SessionRows
  <2>2. TickType'
    BY <1>21 DEF EndSession, TickType, Goto, Jobs, Steps, Actions, DbType
  <2>3. HistoryType'
    BY <1>21, HistorySame DEF EndSession
  <2> QED
    BY <2>1, <2>2, <2>3
<1>22. CASE Hold
  <2>1. DbType' /\ Timely'
    BY <1>22, DbSame DEF Hold
  <2>2. TickType'
    BY <1>22 DEF Hold, TickType, Goto, Decide, Jobs, Steps, Actions, DbType, db
  <2>3. HistoryType'
    BY <1>22, HistorySame DEF Hold
  <2> QED
    BY <2>1, <2>2, <2>3
<1>23. CASE Regenerate
  <2>1. DbType' /\ Timely'
    BY <1>23, CounterType, CountersWritten, DbSame DEF Regenerate, db
  <2>2. TickType'
    BY <1>23 DEF Regenerate, TickType, Goto, Decide, Jobs, Steps, Actions, DbType
  <2>3. HistoryType'
    BY <1>23, HistorySame DEF Regenerate
  <2> QED
    BY <2>1, <2>2, <2>3
<1>24. CASE RevisionReturns
  <2>1. DbType' /\ Timely'
    BY <1>24, DbSame DEF RevisionReturns
  <2>2. TickType'
    BY <1>24 DEF RevisionReturns, TickType, Goto, Jobs, Steps, Versions, db
  <2>3. HistoryType'
    BY <1>24, ReturnsType DEF RevisionReturns
  <2> QED
    BY <2>1, <2>2, <2>3
<1>25. CASE RevisionRaises
  <2>1. DbType' /\ Timely'
    BY <1>25, DbSame DEF RevisionRaises
  <2>2. TickType'
    BY <1>25 DEF RevisionRaises, TickType, Goto, Decide, Jobs, Steps, Actions, DbType, db
  <2>3. HistoryType'
    BY <1>25, HistorySame DEF RevisionRaises
  <2> QED
    BY <2>1, <2>2, <2>3
<1>26. CASE SetDraftStatus
  <2>1. DbType' /\ Timely'
    <3>1. job.action \in Actions \cup {"pending"}
      BY DEF TickType, Jobs
    <3>2. drafts' \in Seq(DraftRows)
      <4>1. drafts \in [1 .. Len(drafts) -> DraftRows] /\ Len(drafts) \in Nat
        BY DEF DbType
      <4>2. drafts' = [drafts EXCEPT ![job.draft] = [@ EXCEPT !.status = job.action]]
        BY <1>26 DEF SetDraftStatus
      <4>3. \A row \in DraftRows : [row EXCEPT !.status = job.action] \in DraftRows
        BY <3>1 DEF DraftRows
      <4>4. drafts' \in [1 .. Len(drafts) -> DraftRows]
        BY <4>1, <4>2, <4>3
      <4> QED
        BY <4>1, <4>4
    <3> QED
      BY <1>26, <3>2 DEF SetDraftStatus, DbType, Timely, Today
  <2>2. TickType'
    BY <1>26, NoJobType DEF SetDraftStatus, TickType, Goto, Jobs, Steps, Actions, DbType
  <2>3. HistoryType'
    BY <1>26, HistorySame DEF SetDraftStatus
  <2> QED
    BY <2>1, <2>2, <2>3
<1>27. CASE FinishTick
  <2>1. DbType' /\ Timely'
    BY <1>27, OutboundAssumption DEF FinishTick, DbType, Timely, Today
  <2>2. TickType'
    BY <1>27, NoJobType DEF FinishTick, TickType, Goto, Jobs, Steps, Actions, DbType
  <2>3. HistoryType'
    BY <1>27, HistorySame DEF FinishTick
  <2> QED
    BY <2>1, <2>2, <2>3
<1>28. CASE \E s \in Sid, role \in {"initiator", "responder"} : CreateSession(s, role)
  <2>1. DbType' /\ Timely'
    <3>1. PICK s \in Sid, role \in {"initiator", "responder"} : CreateSession(s, role)
      BY <1>28
    <3>2. sessions' \in [Sid -> SessionRows]
      <4>1. [sessions[s] EXCEPT !.state = "open", !.role = role, !.started_at = clock]
               \in SessionRows
        <5>1. sessions[s] \in SessionRows /\ clock \in 0 .. MaxTime
          BY DEF DbType
        <5> QED
          BY <5>1 DEF SessionRows
      <4> QED
        BY <3>1, <4>1 DEF CreateSession, DbType
    <3> QED
      BY <3>1, <3>2, SessionsWritten DEF CreateSession
  <2> QED
    BY <1>28, <2>1, TickSame, HistorySame DEF CreateSession
<1>29. CASE Ingest
  <2>1. DbType' /\ Timely'
    BY <1>29 DEF Ingest, DbType, Timely, Today
  <2>2. HistoryType'
    BY <1>29, HistorySame DEF Ingest
  <2> QED
    BY <1>29, <2>1, <2>2, TickSame DEF Ingest
<1>30. CASE ConsentWritten
  <2>1. DbType' /\ Timely'
    BY <1>30, OutboundAssumption DEF ConsentWritten, DbType, Timely, Today, ConsentStates
  <2> QED
    BY <1>30, <2>1, TickSame, HistorySame DEF ConsentWritten
<1>31. CASE Wait
  <2>1. clock \in Nat /\ clock' \in Nat /\ clock <= clock' /\ clock' <= MaxTime
    BY <1>31, OutboundAssumption DEF Wait, DbType
  <2>2. Day(clock) \in Nat /\ Day(clock') \in Nat /\ Day(clock) <= Day(clock')
    BY <2>1, DayMonotone
  <2>3. DbType' /\ Timely'
    <3>1. /\ clock' \in 0 .. MaxTime
          /\ UNCHANGED <<consent, sessions, drafts, counters, budget, inbound, nextDue>>
      BY <1>31, <2>1 DEF Wait, db
    <3>2. counters.reset_date \in Int /\ budget.updated_at \in Int
      BY <2>2, TodayType, OutboundAssumption DEF DbType, Days, CounterRows
    <3>3. Timely'
      BY <2>1, <2>2, <3>1, <3>2 DEF Timely, Today
    <3> QED
      BY <3>1, <3>3 DEF DbType
  <2> QED
    BY <1>31, <2>3, TickSame, HistorySame DEF Wait, db
<1>32. CASE Crash
  <2>1. DbType' /\ Timely'
    BY <1>32, DbSame DEF Crash
  <2>2. TickType'
    BY <1>32, NoJobType DEF Crash, TickType, Goto, Steps, db
  <2>3. HistoryType'
    BY <1>32 DEF Crash, HistoryType
  <2> QED
    BY <2>1, <2>2, <2>3
<1>33. CASE UNCHANGED vars
  BY <1>33, DbSame, TickSame, HistorySame DEF vars, db, history
<1> QED
  BY <1>1, <1>2, <1>3, <1>4, <1>5, <1>6, <1>7, <1>8, <1>9, <1>10, <1>11, <1>12, <1>13, <1>14,
     <1>15, <1>16, <1>17, <1>18, <1>19, <1>20, <1>21, <1>22, <1>23, <1>24, <1>25, <1>26,
     <1>27, <1>28, <1>29, <1>30, <1>31, <1>32, <1>33
  DEF Next, Step

\* Spec keeps every row, counter and local in its range: the daily counters
\* never pass their caps and the disclosure budget stays between zero and its
\* maximum.
THEOREM TypeCorrect == Spec => []TypeOK
<1>1. Init => TypeOK /\ Timely
  BY TypeInit
<1>2. TypeOK /\ Timely /\ [Next]_vars => TypeOK' /\ Timely'
  BY TypeStep
<1> QED
  BY <1>1, <1>2, PTL DEF Spec

-----------------------------------------------------------------------------
(* The daily caps.  A slot that is taken is spent at most once: what today's *)
(* counters hold covers the calls already made and the one in flight.       *)

Sending == IF pc = "send" THEN 1 ELSE 0

Calling == IF pc \in {"draft_call", "gate_call", "revise_call"} THEN 1 ELSE 0

CapInv ==
    /\ \A d \in Days : d > Today => sentOn[d] = 0 /\ completed[d] = 0
    /\ sentOn[Today] + Sending <= GetCounters.outbound
    /\ completed[Today] + Calling <= GetCounters.provider
    /\ DailyCapHeld
    /\ ProviderCapHeld

\* The numbers CapInv compares.
LEMMA CapTypes ==
    ASSUME TypeOK
    PROVE  /\ Today \in Days /\ Today \in Nat /\ OutboundCap \in Nat /\ ProviderCap \in Nat
           /\ sentOn[Today] \in Nat /\ completed[Today] \in Nat
           /\ GetCounters \in [reset_date : {Today}, outbound : Nat, provider : Nat]
           /\ GetCounters.outbound <= OutboundCap /\ GetCounters.provider <= ProviderCap
           /\ Sending \in {0, 1} /\ Calling \in {0, 1}
<1>1. /\ Today \in Days /\ Today \in Nat /\ OutboundCap \in Nat /\ ProviderCap \in Nat
      /\ sentOn[Today] \in Nat /\ completed[Today] \in Nat
  BY TodayType, OutboundAssumption DEF TypeOK, HistoryType
<1>2. GetCounters \in CounterRows /\ GetCounters.reset_date = Today
  BY CounterType DEF TypeOK
<1> QED
  BY <1>1, <1>2 DEF CounterRows, Sending, Calling

\* A step that writes no counter and starts no call and no send keeps CapInv.
LEMMA CapSame ==
    ASSUME TypeOK, CapInv, UNCHANGED <<clock, sentOn, completed>>,
           GetCounters' = GetCounters,
           \/ pc' = pc
           \/ pc' \notin {"send", "draft_call", "gate_call", "revise_call"}
    PROVE  CapInv'
<1>1. Today' = Today
  BY DEF Today
<1>2. Sending' <= Sending /\ Calling' <= Calling /\ Sending' \in {0, 1} /\ Calling' \in {0, 1}
  BY DEF Sending, Calling
<1> QED
  BY <1>1, <1>2, CapTypes DEF CapInv, DailyCapHeld, ProviderCapHeld

\* Counters that are only read count the same after the step.
LEMMA CountersRead ==
    ASSUME TypeOK, UNCHANGED clock, counters' = counters \/ counters' = GetCounters
    PROVE  GetCounters' = GetCounters
<1>1. Today' = Today
  BY DEF Today
<1>2. CASE counters' = counters
  BY <1>1, <1>2 DEF GetCounters
<1>3. CASE counters' = GetCounters
  BY <1>1, <1>3, CapTypes DEF GetCounters
<1> QED
  BY <1>2, <1>3

\* A call that starts has taken a slot of today.
LEMMA CapReserve ==
    ASSUME TypeOK, CapInv, UNCHANGED <<clock, sentOn, completed>>, TryReserveProvider,
           pc \notin {"draft_call", "gate_call", "revise_call"}, pc' # "send"
    PROVE  CapInv'
<1>1. Today' = Today /\ Calling = 0 /\ Calling' \in {0, 1} /\ Sending' = 0
  BY DEF Today, Calling, Sending
<1>2. counters' = [GetCounters EXCEPT !.provider = GetCounters.provider + 1]
  BY DEF TryReserveProvider
<1>3. /\ GetCounters'.outbound = GetCounters.outbound
      /\ GetCounters'.provider = GetCounters.provider + 1
  BY <1>1, <1>2, CapTypes DEF GetCounters
<1> QED
  BY <1>1, <1>3, CapTypes DEF CapInv, DailyCapHeld, ProviderCapHeld

\* A call that returns spends the slot it took.
LEMMA CapReturn ==
    ASSUME TypeOK, CapInv, UNCHANGED <<clock, counters, sentOn>>, ProviderReturns,
           pc \in {"draft_call", "gate_call", "revise_call"},
           pc' \notin {"send", "draft_call", "gate_call", "revise_call"}
    PROVE  CapInv'
<1>1. /\ Today' = Today /\ Calling = 1 /\ Calling' = 0 /\ Sending' = 0 /\ Sending \in {0, 1}
      /\ GetCounters' = GetCounters
  BY CountersRead DEF Today, Calling, Sending
<1>2. completed' = [completed EXCEPT ![Today] = completed[Today] + 1] /\ completed \in [Days -> Nat]
  BY DEF ProviderReturns, TypeOK, HistoryType
<1>3. completed'[Today] = completed[Today] + 1
  BY <1>2, CapTypes
<1>4. \A d \in Days : d # Today => completed'[d] = completed[d]
  BY <1>2
<1>5. completed'[Today] <= GetCounters.provider
  BY <1>1, <1>3, CapTypes DEF CapInv
<1>6. ProviderCapHeld'
  BY <1>2, <1>3, <1>4, <1>5, CapTypes DEF CapInv, ProviderCapHeld
<1> QED
  BY <1>1, <1>3, <1>4, <1>5, <1>6, CapTypes DEF CapInv, DailyCapHeld

\* CapInv holds at first.
LEMMA CapInit == ASSUME Init PROVE CapInv
<1>1. TypeOK
  BY TypeInit
<1>2. OutboundCap \in Nat /\ ProviderCap \in Nat
  BY OutboundAssumption
<1>3. sentOn = [d \in Days |-> 0] /\ completed = [d \in Days |-> 0] /\ pc = "idle"
  BY DEF Init
<1> QED
  BY <1>1, <1>2, <1>3, CapTypes DEF CapInv, DailyCapHeld, ProviderCapHeld, Sending, Calling

\* Every step keeps CapInv.
LEMMA CapStep == ASSUME TypeOK, Timely, CapInv, [Next]_vars PROVE CapInv'
<1>1. CASE StartTick
  BY <1>1, CapSame, CountersRead DEF StartTick, Goto, db, history
<1>2. CASE RecoverDefers
  BY <1>2, CapSame, CountersRead DEF RecoverDefers, db, history
<1>3. CASE Recover
  BY <1>3, CapSame, CountersRead DEF Recover, Goto, db, history
<1>4. CASE TickPeer
  BY <1>4, CapSame, CountersRead DEF TickPeer, Goto, db, history
<1>5. CASE NothingToSay
  BY <1>5, CapSame, CountersRead DEF NothingToSay, Goto, db, history
<1>6. CASE GenerateDraft
  BY <1>6, CapReserve DEF GenerateDraft, Goto, history
<1>7. CASE DraftDeferred
  BY <1>7, CapSame, CountersRead DEF DraftDeferred, Goto, history
<1>8. CASE DraftReturns
  BY <1>8, CapReturn DEF DraftReturns, Goto, db
<1>9. CASE DraftRaises
  BY <1>9, CapSame, CountersRead DEF DraftRaises, Goto, db, history
<1>10. CASE SaveDraft
  BY <1>10, CapSame, CountersRead DEF SaveDraft, Goto, history
<1>11. CASE ProcessOutbound
  BY <1>11, CapSame, CountersRead DEF ProcessOutbound, Goto, Decide, db, history
<1>12. CASE Prefilter
  BY <1>12, CapSame, CountersRead DEF Prefilter, Goto, db, history
<1>13. CASE GateReserves
  BY <1>13, CapReserve DEF GateReserves, Goto, history
<1>14. CASE GateCapSpent
  BY <1>14, CapSame, CountersRead DEF GateCapSpent, Goto, Decide, history
<1>15. CASE GateReturns
  BY <1>15, CapReturn DEF GateReturns, Goto, db
<1>16. CASE GateFails
  <2>1. Today' = Today /\ Calling = 1 /\ Calling' = 0 /\ Sending' = 0 /\ Sending \in {0, 1}
    BY <1>16 DEF GateFails, Decide, Goto, Today, Calling, Sending
  <2>2. 1 <= GetCounters.provider
    BY <2>1, CapTypes DEF CapInv
  <2>3. counters' = [GetCounters EXCEPT !.provider = GetCounters.provider - 1]
    BY <1>16, <2>2, CapTypes DEF GateFails, ReleaseProviderSlot
  <2>4. /\ GetCounters'.outbound = GetCounters.outbound
        /\ GetCounters'.provider = GetCounters.provider - 1
    BY <2>1, <2>3, CapTypes DEF GetCounters
  <2>5. UNCHANGED <<sentOn, completed>>
    BY <1>16 DEF GateFails, history
  <2> QED
    BY <2>1, <2>4, <2>5, CapTypes DEF CapInv, DailyCapHeld, ProviderCapHeld
<1>17. CASE ReserveOutbound
  <2>1. CASE TryReserveOutbound /\ Goto("send")
    <3>1. Today' = Today /\ Sending = 0 /\ Sending' = 1 /\ Calling' = 0 /\ Calling \in {0, 1}
      BY <1>17, <2>1 DEF ReserveOutbound, Goto, Today, Calling, Sending
    <3>2. counters' = [GetCounters EXCEPT !.outbound = GetCounters.outbound + 1]
      BY <2>1 DEF TryReserveOutbound
    <3>3. /\ GetCounters'.outbound = GetCounters.outbound + 1
          /\ GetCounters'.provider = GetCounters.provider
      BY <3>1, <3>2, CapTypes DEF GetCounters
    <3>4. UNCHANGED <<sentOn, completed>>
      BY <1>17 DEF ReserveOutbound, history
    <3> QED
      BY <3>1, <3>3, <3>4, CapTypes DEF CapInv, DailyCapHeld, ProviderCapHeld
  <2>2. CASE counters' = GetCounters /\ Decide("hold")
    BY <1>17, <2>2, CapSame, CountersRead DEF ReserveOutbound, Decide, Goto, history
  <2> QED
    BY <1>17, <2>1, <2>2 DEF ReserveOutbound
<1>18. CASE SendFn
  <2>1. /\ Today' = Today /\ Sending = 1 /\ Sending' = 0 /\ Calling' = 0 /\ Calling \in {0, 1}
        /\ GetCounters' = GetCounters
    BY <1>18, CountersRead DEF SendFn, Goto, db, Today, Calling, Sending
  <2>2. /\ sentOn' = [sentOn EXCEPT ![Today] = sentOn[Today] + 1] /\ sentOn \in [Days -> Nat]
        /\ completed' = completed
    BY <1>18 DEF SendFn, TypeOK, HistoryType
  <2>3. sentOn'[Today] = sentOn[Today] + 1
    BY <2>2, CapTypes
  <2>4. \A d \in Days : d # Today => sentOn'[d] = sentOn[d]
    BY <2>2
  <2>5. sentOn'[Today] <= GetCounters.outbound
    BY <2>1, <2>3, CapTypes DEF CapInv
  <2>6. DailyCapHeld'
    BY <2>2, <2>3, <2>4, <2>5, CapTypes DEF CapInv, DailyCapHeld
  <2> QED
    BY <2>1, <2>2, <2>3, <2>4, <2>5, <2>6, CapTypes DEF CapInv, ProviderCapHeld
<1>19. CASE BumpSessionOutbound
  BY <1>19, CapSame, CountersRead DEF BumpSessionOutbound, Goto, history
<1>20. CASE Debit
  BY <1>20, CapSame, CountersRead DEF Debit, Goto, history
<1>21. CASE EndSession
  BY <1>21, CapSame, CountersRead DEF EndSession, Goto, history
<1>22. CASE Hold
  BY <1>22, CapSame, CountersRead DEF Hold, Goto, Decide, db, history
<1>23. CASE Regenerate
  <2>1. CASE TryReserveProvider /\ Goto("revise_call")
    BY <1>23, <2>1, CapReserve DEF Regenerate, Goto, history
  <2>2. CASE (counters' = counters \/ counters' = GetCounters) /\ Decide("hold")
    BY <1>23, <2>2, CapSame, CountersRead DEF Regenerate, Decide, Goto, history
  <2> QED
    BY <1>23, <2>1, <2>2 DEF Regenerate
<1>24. CASE RevisionReturns
  BY <1>24, CapReturn DEF RevisionReturns, Goto, db
<1>25. CASE RevisionRaises
  BY <1>25, CapSame, CountersRead DEF RevisionRaises, Goto, Decide, db, history
<1>26. CASE SetDraftStatus
  BY <1>26, CapSame, CountersRead DEF SetDraftStatus, Goto, history
<1>27. CASE FinishTick
  BY <1>27, CapSame, CountersRead DEF FinishTick, Goto, history
<1>28. CASE \E s \in Sid, role \in {"initiator", "responder"} : CreateSession(s, role)
  BY <1>28, CapSame, CountersRead DEF CreateSession, history
<1>29. CASE Ingest
  BY <1>29, CapSame, CountersRead DEF Ingest, history
<1>30. CASE ConsentWritten
  BY <1>30, CapSame, CountersRead DEF ConsentWritten, history
<1>31. CASE Wait
  <2>1. clock \in Nat /\ clock' \in Nat /\ clock <= clock'
    BY <1>31, OutboundAssumption DEF Wait, TypeOK, DbType
  <2>2. Today' \in Nat /\ Today <= Today'
    BY <2>1, DayMonotone DEF Today
  <2>3. /\ Sending' = 0 /\ Calling' = 0 /\ Sending = 0 /\ Calling = 0
        /\ UNCHANGED <<counters, sentOn, completed>>
    BY <1>31 DEF Wait, Sending, Calling, db, history
  <2>4. CASE Today' = Today
    <3>1. GetCounters' = GetCounters
      BY <2>3, <2>4 DEF GetCounters
    <3> QED
      BY <2>3, <2>4, <3>1, CapTypes DEF CapInv, DailyCapHeld, ProviderCapHeld
  <2>5. CASE Today' # Today
    <3>1. clock' <= MaxTime /\ MaxTime \in Nat
      BY <1>31, OutboundAssumption DEF Wait, TypeOK, DbType
    <3>2. Today' \in Days
      BY <2>1, <2>2, <3>1, DayMonotone DEF Today, Days
    <3>3. sentOn'[Today'] = 0 /\ completed'[Today'] = 0
      BY <2>2, <2>3, <2>5, <3>2, CapTypes DEF CapInv
    <3>4. counters.reset_date \in Int /\ counters.reset_date <= Today
      BY CapTypes DEF Timely, TypeOK, DbType, CounterRows, Days
    <3>5. GetCounters'.outbound = 0 /\ GetCounters'.provider = 0
      BY <2>2, <2>3, <2>5, <3>4, CapTypes DEF GetCounters
    <3>6. \A d \in Days : d > Today' => d > Today
      BY <2>2, CapTypes DEF Days
    <3> QED
      BY <2>3, <3>3, <3>5, <3>6 DEF CapInv, DailyCapHeld, ProviderCapHeld
  <2> QED
    BY <2>4, <2>5
<1>32. CASE Crash
  BY <1>32, CapSame, CountersRead DEF Crash, Goto, db
<1>33. CASE UNCHANGED vars
  BY <1>33, CapSame, CountersRead DEF vars, db, history
<1> QED
  BY <1>1, <1>2, <1>3, <1>4, <1>5, <1>6, <1>7, <1>8, <1>9, <1>10, <1>11, <1>12, <1>13, <1>14,
     <1>15, <1>16, <1>17, <1>18, <1>19, <1>20, <1>21, <1>22, <1>23, <1>24, <1>25, <1>26,
     <1>27, <1>28, <1>29, <1>30, <1>31, <1>32, <1>33
  DEF Next, Step

\* CapInv and the types hold throughout.
LEMMA CapInvAlways == Spec => [](TypeOK /\ Timely /\ CapInv)
<1>1. Init => TypeOK /\ Timely /\ CapInv
  BY TypeInit, CapInit
<1>2. TypeOK /\ Timely /\ CapInv /\ [Next]_vars => (TypeOK /\ Timely /\ CapInv)'
  BY TypeStep, CapStep
<1> QED
  BY <1>1, <1>2, PTL DEF Spec

\* The calls of send_fn of a day never exceed the daily outbound cap, through
\* any crashes, recoveries and changes of day.
THEOREM OutboundCapped == Spec => []DailyCapHeld
<1>1. TypeOK /\ Timely /\ CapInv => DailyCapHeld
  BY DEF CapInv
<1> QED
  BY <1>1, CapInvAlways, PTL

\* The completed provider calls of a day, drafts, reviews and revisions, never
\* exceed the daily provider cap, refunds and crashes included.
THEOREM ProviderCapped == Spec => []ProviderCapHeld
<1>1. TypeOK /\ Timely /\ CapInv => ProviderCapHeld
  BY DEF CapInv
<1> QED
  BY <1>1, CapInvAlways, PTL
-----------------------------------------------------------------------------
(* The gate.  A payload that is acted on is the one the gate saw, and a      *)
(* verdict to send was given on a budget above the tighten threshold.       *)

\* A peer whose disclosure budget is below the tighten threshold is sent nothing.
SilentInTheBand == \A x \in left : x.allowance >= Tighten

Cleared ==
    job.reviewed = job.version /\ (job.action = "send" => job.allowance >= Tighten)

GateInv ==
    /\ pc = "act" => Cleared
    /\ pc = "send" => Cleared /\ job.action = "send"
    /\ NothingLeavesUnreviewed
    /\ SilentInTheBand

\* The budget lets a verdict to send stand only at or above the threshold.
LEMMA SendOnBudget ==
    ASSUME NEW action \in Actions, NEW allowance \in 0 .. BudgetMax,
           ApplyBudget(action, allowance) = "send"
    PROVE  allowance >= Tighten
BY OutboundAssumption DEF ApplyBudget, Actions

\* A step that leaves the sent messages alone and does not reach the verdict
\* or the send, or leaves both as they are, keeps GateInv.
LEMMA GateSame ==
    ASSUME GateInv, UNCHANGED left, (pc' = pc /\ job' = job) \/ pc' \notin {"act", "send"}
    PROVE  GateInv'
BY DEF GateInv, Cleared, NothingLeavesUnreviewed, SilentInTheBand

\* Every step keeps GateInv.
LEMMA GateStep == ASSUME TypeOK, Timely, GateInv, [Next]_vars PROVE GateInv'
<1>1. CASE StartTick
  BY <1>1, GateSame DEF StartTick, Goto, db, history
<1>2. CASE RecoverDefers
  BY <1>2, GateSame DEF RecoverDefers, db, history
<1>3. CASE Recover
  BY <1>3, GateSame DEF Recover, Goto, db, history
<1>4. CASE TickPeer
  BY <1>4, GateSame DEF TickPeer, Goto, db, history
<1>5. CASE NothingToSay
  BY <1>5, GateSame DEF NothingToSay, Goto, db, history
<1>6. CASE GenerateDraft
  BY <1>6, GateSame DEF GenerateDraft, Goto, history
<1>7. CASE DraftDeferred
  BY <1>7, GateSame DEF DraftDeferred, Goto, history
<1>8. CASE DraftReturns
  BY <1>8, GateSame DEF DraftReturns, Goto, db
<1>9. CASE DraftRaises
  BY <1>9, GateSame DEF DraftRaises, Goto, db, history
<1>10. CASE SaveDraft
  BY <1>10, GateSame DEF SaveDraft, Goto, history
<1>11. CASE ProcessOutbound
  BY <1>11, GateSame DEF ProcessOutbound, Goto, Decide, db, history
<1>12. CASE Prefilter
  <2>1. /\ pc' = "act" /\ left' = left
        /\ \E action \in {"revise", "hold"} :
              job' = [job EXCEPT !.action = action, !.reviewed = job.version, !.judged = action,
                                 !.score = BudgetMax]
    BY <1>12 DEF Prefilter, Goto, history
  <2>2. job'.reviewed = job'.version /\ job'.action # "send"
    BY <2>1 DEF TypeOK, TickType, Jobs
  <2> QED
    BY <2>1, <2>2 DEF GateInv, Cleared, NothingLeavesUnreviewed, SilentInTheBand
<1>13. CASE GateReserves
  BY <1>13, GateSame DEF GateReserves, Goto, history
<1>14. CASE GateCapSpent
  BY <1>14, GateSame DEF GateCapSpent, Goto, Decide, history
<1>15. CASE GateReturns
  <2>1. PICK action \in Actions, score \in Scores :
           job' = [job EXCEPT !.action = ApplyBudget(action, GetDisclosureBudget),
                              !.reviewed = job.version, !.judged = action, !.score = score,
                              !.allowance = GetDisclosureBudget]
    BY <1>15 DEF GateReturns
  <2>2. /\ job'.reviewed = job'.version /\ job'.allowance = GetDisclosureBudget
        /\ job'.action = ApplyBudget(action, GetDisclosureBudget)
    BY <2>1 DEF TypeOK, TickType, Jobs
  <2>3. job'.action = "send" => job'.allowance >= Tighten
    BY <2>2, BudgetType, SendOnBudget DEF TypeOK
  <2>4. pc' = "act" /\ left' = left
    BY <1>15 DEF GateReturns, Goto
  <2> QED
    BY <2>2, <2>3, <2>4 DEF GateInv, Cleared, NothingLeavesUnreviewed, SilentInTheBand
<1>16. CASE GateFails
  BY <1>16, GateSame DEF GateFails, Goto, Decide, history
<1>17. CASE ReserveOutbound
  <2>1. CASE pc' = "send" /\ job' = job
    BY <1>17, <2>1
    DEF ReserveOutbound, GateInv, Cleared, NothingLeavesUnreviewed, SilentInTheBand, history
  <2>2. CASE Decide("hold")
    BY <1>17, <2>2, GateSame DEF ReserveOutbound, Decide, Goto, history
  <2> QED
    BY <1>17, <2>1, <2>2 DEF ReserveOutbound, Goto
<1>18. CASE SendFn
  <2>1. left' = left \cup
           {[n |-> Cardinality(left), sid |-> job.sid, draft |-> job.draft,
             version |-> job.version, reviewed |-> job.reviewed, at |-> clock,
             allowance |-> job.allowance, reason |-> job.reason, crashes |-> crashes]}
    BY <1>18 DEF SendFn
  <2>2. job.reviewed = job.version /\ job.allowance >= Tighten /\ pc' = "bump"
    BY <1>18 DEF SendFn, Goto, GateInv, Cleared
  <2> QED
    BY <2>1, <2>2 DEF GateInv, NothingLeavesUnreviewed, SilentInTheBand
<1>19. CASE BumpSessionOutbound
  BY <1>19, GateSame DEF BumpSessionOutbound, Goto, history
<1>20. CASE Debit
  BY <1>20, GateSame DEF Debit, Goto, history
<1>21. CASE EndSession
  BY <1>21, GateSame DEF EndSession, Goto, history
<1>22. CASE Hold
  BY <1>22, GateSame DEF Hold, Goto, Decide, db, history
<1>23. CASE Regenerate
  BY <1>23, GateSame DEF Regenerate, Goto, Decide, history
<1>24. CASE RevisionReturns
  BY <1>24, GateSame DEF RevisionReturns, Goto, db
<1>25. CASE RevisionRaises
  BY <1>25, GateSame DEF RevisionRaises, Goto, Decide, db, history
<1>26. CASE SetDraftStatus
  BY <1>26, GateSame DEF SetDraftStatus, Goto, history
<1>27. CASE FinishTick
  BY <1>27, GateSame DEF FinishTick, Goto, history
<1>28. CASE \E s \in Sid, role \in {"initiator", "responder"} : CreateSession(s, role)
  BY <1>28, GateSame DEF CreateSession, history
<1>29. CASE Ingest
  BY <1>29, GateSame DEF Ingest, history
<1>30. CASE ConsentWritten
  BY <1>30, GateSame DEF ConsentWritten, history
<1>31. CASE Wait
  BY <1>31, GateSame DEF Wait, db, history
<1>32. CASE Crash
  BY <1>32, GateSame DEF Crash, Goto, db
<1>33. CASE UNCHANGED vars
  BY <1>33, GateSame DEF vars, db, history
<1> QED
  BY <1>1, <1>2, <1>3, <1>4, <1>5, <1>6, <1>7, <1>8, <1>9, <1>10, <1>11, <1>12, <1>13, <1>14,
     <1>15, <1>16, <1>17, <1>18, <1>19, <1>20, <1>21, <1>22, <1>23, <1>24, <1>25, <1>26,
     <1>27, <1>28, <1>29, <1>30, <1>31, <1>32, <1>33
  DEF Next, Step

\* GateInv and the types hold throughout.
LEMMA GateInvAlways == Spec => [](TypeOK /\ Timely /\ GateInv)
<1>1. Init => TypeOK /\ Timely /\ GateInv
  BY TypeInit DEF Init, GateInv, NothingLeavesUnreviewed, SilentInTheBand
<1>2. TypeOK /\ Timely /\ GateInv /\ [Next]_vars => (TypeOK /\ Timely /\ GateInv)'
  BY TypeStep, GateStep
<1> QED
  BY <1>1, <1>2, PTL DEF Spec

\* Nothing leaves ungated: the text pushed is the text the gate reviewed in
\* that turn, for any number of drafts, revisions and recoveries.
THEOREM EverythingReviewed == Spec => []NothingLeavesUnreviewed
<1>1. TypeOK /\ Timely /\ GateInv => NothingLeavesUnreviewed
  BY DEF GateInv
<1> QED
  BY <1>1, GateInvAlways, PTL

\* What the code does where the documents promise a revised send: in the whole
\* tighten band nothing is sent, neither the draft nor the revision it is turned
\* into.  The run outbound_band shows BandPermitsRevision violated on a small
\* instance; this says that no values of the thresholds, caps and gaps let a
\* message through that was judged on a budget below the threshold.
THEOREM TightBudgetHolds == Spec => []SilentInTheBand
<1>1. TypeOK /\ Timely /\ GateInv => SilentInTheBand
  BY DEF GateInv
<1> QED
  BY <1>1, GateInvAlways, PTL
=============================================================================
