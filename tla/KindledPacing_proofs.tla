------------------------- MODULE KindledPacing_proofs -------------------------
(***************************************************************************)
(* What a crash can and cannot cost: the gap between messages, the message  *)
(* cap of a session and its single opener.  Each of the three is a relation *)
(* between what left and a row that is written after it left.               *)
(***************************************************************************)
EXTENDS KindledOutbound_proofs

\* The steps between the check of gap and caps and the send.
Allowed == {"gate", "gate_call", "revise_call", "act", "send"}
Drafting == {"draft", "draft_call", "save_draft"}
InHand == Allowed \cup {"outbound", "bump", "debit", "status"}

\* A draft in hand or still to visit is pending: no other step decides it.
DraftInv ==
    /\ \A d \in todo : drafts[d].status = "pending"
    /\ pc \in InHand =>
          /\ job.draft \in DOMAIN drafts \ todo
          /\ drafts[job.draft].status = "pending" /\ drafts[job.draft].sid = job.sid
    /\ pc = "send" => job.action = "send"

\* The message is out and the session's row does not know it yet.
Unbumped(s) == pc = "bump" /\ job.sid = s

\* What left since the last crash is behind the row's next_outbound_at.
PaceInv ==
    /\ \A x \in left : x.n < Cardinality(left) /\ x.at <= clock /\ x.crashes <= crashes
    /\ \A x \in left : x.crashes = crashes /\ ~Unbumped(x.sid) =>
          x.at + Gap <= sessions[x.sid].next_outbound_at
    /\ pc \in Allowed => sessions[job.sid].next_outbound_at <= clock
    /\ PacingHeld

SentIn(s) == {x \in left : x.sid = s}

\* A message the row does not count is the last one, or was lost to a crash.
CountInv ==
    /\ \A s \in Sid : sessions[s].msg_count <= SessionCap
    /\ pc \in Allowed \cup {"bump"} => sessions[job.sid].msg_count < SessionCap
    /\ \A s \in Sid : Cardinality(SentIn(s))
          <= sessions[s].msg_count + crashes + (IF Unbumped(s) THEN 1 ELSE 0)

Openers(s) == {x.draft : x \in {y \in left : y.sid = s /\ y.reason = "opener"}}
Marked(s) == \E d \in DOMAIN drafts : drafts[d].sid = s /\ drafts[d].status = "send"
Sent(s) == pc \in {"bump", "debit", "status"} /\ job.sid = s /\ job.action = "send"

\* Every opener but one was paid for with a crash, and the one is marked or
\* about to be.
OpenerInv ==
    /\ \A s \in Sid :
          \/ Cardinality(Openers(s)) <= crashes
          \/ Cardinality(Openers(s)) <= 1 + crashes /\ (Marked(s) \/ Sent(s))
    /\ pc \in Drafting \cup Allowed \cup {"outbound"} /\ job.reason = "opener" =>
          Cardinality(Openers(job.sid)) <= crashes

-----------------------------------------------------------------------------
(* The shapes of a step, as far as these rows can tell.                     *)

KeepsPace ==
    /\ UNCHANGED <<left, crashes>>
    /\ \A s \in Sid : /\ sessions'[s].msg_count = sessions[s].msg_count
                      /\ sessions'[s].next_outbound_at = sessions[s].next_outbound_at

Stays == KeepsPace /\ UNCHANGED <<clock, drafts, pc, todo, job>>

\* The tick is between two payloads, or there is none.
Rests ==
    /\ KeepsPace /\ UNCHANGED drafts
    /\ clock' \in Nat /\ clock <= clock'
    /\ pc \in {"idle", "recover", "draft", "draft_call", "done"}
    /\ pc' \in {"idle", "recover", "done"}
    /\ \A d \in todo' : d \in todo \/ drafts[d].status = "pending"

Recovers ==
    /\ KeepsPace /\ UNCHANGED <<clock, drafts>>
    /\ pc = "recover" /\ pc' = "outbound"
    /\ job'.draft \in todo /\ todo' = todo \ {job'.draft}
    /\ job'.sid = drafts[job'.draft].sid /\ job'.reason = "recovery"

Opens ==
    /\ KeepsPace /\ UNCHANGED <<clock, drafts, todo>>
    /\ pc = "recover" /\ pc' = "draft"
    /\ job'.reason = "opener" => ~Marked(job'.sid)

Drafts == KeepsPace /\ UNCHANGED <<clock, drafts, todo, job>> /\ pc \in Drafting /\ pc' \in Drafting

Saves ==
    /\ KeepsPace /\ UNCHANGED <<clock, todo>>
    /\ pc \in Drafting /\ pc' = "outbound"
    /\ drafts' = Append(drafts, [sid |-> job.sid, reason |-> job.reason, status |-> "pending"])
    /\ job'.draft = Len(drafts) + 1 /\ job'.sid = job.sid /\ job'.reason = job.reason

Works ==
    /\ KeepsPace /\ UNCHANGED <<clock, drafts, todo>>
    /\ pc \in Allowed \cup {"outbound"} /\ pc' \in Allowed \cup {"status"}
    /\ job'.draft = job.draft /\ job'.sid = job.sid /\ job'.reason = job.reason
    /\ pc \in Allowed \/ pc' = "status" \/ SendAllowed(job.sid)
    /\ pc' = "send" => job'.action = "send"

Debits == KeepsPace /\ UNCHANGED <<clock, drafts, todo, job>> /\ pc = "debit" /\ pc' = "status"

Marks ==
    /\ KeepsPace /\ UNCHANGED <<clock, todo>>
    /\ pc = "status" /\ pc' \in {"recover", "done"}
    /\ drafts' = [drafts EXCEPT ![job.draft].status = job.action]

Shape ==
    \/ Stays \/ Rests \/ Recovers \/ Opens \/ Drafts \/ Saves \/ Works
    \/ SendFn \/ BumpSessionOutbound \/ Debits \/ Marks \/ Crash

\* Rows that are not written keep their pace.
LEMMA PaceKept ==
    ASSUME UNCHANGED <<sessions, left, crashes>>
    PROVE  KeepsPace
BY DEF KeepsPace

\* Every step has one of the shapes.
LEMMA Shapes == ASSUME TypeOK, [Next]_vars PROVE Shape
<1>0. /\ DbType /\ TickType /\ clock \in Nat /\ job \in Jobs /\ sessions \in [Sid -> SessionRows]
      /\ clock <= clock
  BY OutboundAssumption DEF TypeOK, DbType, TickType
<1>1. CASE StartTick \/ RecoverDefers \/ NothingToSay
  <2>1. /\ UNCHANGED <<clock, sessions, drafts, left, crashes>> /\ pc' \in {"recover", "done"}
        /\ pc \in {"idle", "recover"}
        /\ \A d \in todo' : d \in todo \/ drafts[d].status = "pending"
    BY <1>1 DEF StartTick, RecoverDefers, NextDraft, NothingToSay, Goto, db, history
  <2> QED
    BY <1>0, <2>1, PaceKept DEF Shape, Rests
<1>2. CASE Recover
  <2>1. PICK d \in todo :
           /\ pc = "recover" /\ pc' = "outbound" /\ todo' = todo \ {d}
           /\ job' = [NoJob EXCEPT !.draft = d, !.sid = drafts[d].sid, !.reason = "recovery"]
           /\ UNCHANGED <<clock, sessions, drafts, left, crashes>>
    BY <1>2 DEF Recover, NextDraft, Goto, db, history
  <2>2. job'.draft = d /\ job'.sid = drafts[d].sid /\ job'.reason = "recovery"
    BY <2>1 DEF NoJob
  <2> QED
    BY <2>1, <2>2, PaceKept DEF Shape, Recovers
<1>3. CASE TickPeer
  <2>1. PICK s \in ActiveSession :
           /\ inbound \/ ShouldOpenFirstContent(s)
           /\ job' = [NoJob EXCEPT !.sid = s, !.reason = IF inbound THEN "reply" ELSE "opener"]
    BY <1>3 DEF TickPeer
  <2>2. /\ pc = "recover" /\ pc' = "draft" /\ UNCHANGED <<clock, sessions, drafts, todo, left, crashes>>
    BY <1>3 DEF TickPeer, Goto, db, history
  <2>3. job'.sid = s /\ (job'.reason = "opener" => ~inbound)
    BY <2>1 DEF NoJob
  <2>4. job'.reason = "opener" => ~Marked(job'.sid)
    BY <2>1, <2>3 DEF ShouldOpenFirstContent, Marked
  <2> QED
    BY <2>2, <2>4, PaceKept DEF Shape, Opens
<1>4. CASE GenerateDraft \/ DraftReturns
  <2>1. /\ UNCHANGED <<clock, sessions, drafts, todo, job, left, crashes>>
        /\ pc \in Drafting /\ pc' \in Drafting
    BY <1>4 DEF GenerateDraft, DraftReturns, Goto, Drafting, db, history
  <2> QED
    BY <2>1, PaceKept DEF Shape, Drafts
<1>5. CASE DraftDeferred \/ DraftRaises \/ FinishTick
  <2>1. /\ UNCHANGED <<clock, sessions, drafts, todo, left, crashes>> /\ pc' \in {"done", "idle"}
        /\ pc \in {"draft", "draft_call", "done"}
    BY <1>5 DEF DraftDeferred, DraftRaises, FinishTick, Goto, db, history
  <2> QED
    BY <1>0, <2>1, PaceKept DEF Shape, Rests
<1>6. CASE SaveDraft
  <2>1. /\ UNCHANGED <<clock, sessions, todo, left, crashes>> /\ pc \in Drafting /\ pc' = "outbound"
        /\ drafts' = Append(drafts, [sid |-> job.sid, reason |-> job.reason, status |-> "pending"])
        /\ job' = [job EXCEPT !.draft = Len(drafts) + 1]
    BY <1>6 DEF SaveDraft, Goto, Drafting, history
  <2>2. job'.draft = Len(drafts) + 1 /\ job'.sid = job.sid /\ job'.reason = job.reason
    BY <1>0, <2>1 DEF Jobs
  <2> QED
    BY <2>1, <2>2, PaceKept DEF Shape, Saves
<1>7. ASSUME UNCHANGED <<clock, sessions, drafts, todo, left, crashes>>,
             pc \in Allowed \cup {"outbound"}, pc' \in Allowed \cup {"status"},
             job'.draft = job.draft, job'.sid = job.sid, job'.reason = job.reason,
             pc \in Allowed \/ pc' = "status" \/ SendAllowed(job.sid),
             pc' = "send" => job'.action = "send"
      PROVE  Shape
  BY <1>7, PaceKept DEF Shape, Works
<1>8. ASSUME Decide("hold")
      PROVE  pc' = "status" /\ job'.draft = job.draft /\ job'.sid = job.sid /\ job'.reason = job.reason
  BY <1>0, <1>8 DEF Decide, Goto, Jobs
<1>9. CASE ProcessOutbound
  <2>1. UNCHANGED <<clock, sessions, drafts, todo, left, crashes>> /\ pc = "outbound"
    BY <1>9 DEF ProcessOutbound, db, history
  <2>2. \/ SendAllowed(job.sid) /\ pc' = "gate" /\ job' = job
        \/ Decide("hold")
    BY <1>9 DEF ProcessOutbound, Goto
  <2> QED
    BY <1>7, <1>8, <2>1, <2>2 DEF Allowed
<1>10. CASE Prefilter \/ GateReturns
  <2>1. /\ UNCHANGED <<clock, sessions, drafts, todo, left, crashes>>
        /\ pc \in {"gate", "gate_call"} /\ pc' = "act"
    BY <1>10 DEF Prefilter, GateReturns, Goto, db, history
  <2>2. job'.draft = job.draft /\ job'.sid = job.sid /\ job'.reason = job.reason
    BY <1>0, <1>10 DEF Prefilter, GateReturns, Jobs
  <2> QED
    BY <1>7, <2>1, <2>2 DEF Allowed
<1>11. CASE GateReserves \/ RevisionReturns
  <2>1. /\ UNCHANGED <<clock, sessions, drafts, todo, left, crashes>>
        /\ pc \in {"gate", "revise_call"} /\ pc' \in {"gate_call", "gate"}
    BY <1>11 DEF GateReserves, RevisionReturns, Goto, db, history
  <2>2. job'.draft = job.draft /\ job'.sid = job.sid /\ job'.reason = job.reason
    BY <1>0, <1>11 DEF GateReserves, RevisionReturns, Jobs
  <2> QED
    BY <1>7, <2>1, <2>2 DEF Allowed
<1>12. CASE GateCapSpent \/ GateFails \/ Hold \/ RevisionRaises
  <2>1. /\ UNCHANGED <<clock, sessions, drafts, todo, left, crashes>>
        /\ pc \in {"gate", "gate_call", "act", "revise_call"} /\ Decide("hold")
    BY <1>12 DEF GateCapSpent, GateFails, Hold, RevisionRaises, db, history
  <2> QED
    BY <1>7, <1>8, <2>1 DEF Allowed
<1>13. CASE ReserveOutbound \/ Regenerate
  <2>1. UNCHANGED <<clock, sessions, drafts, todo, left, crashes>> /\ pc = "act"
    BY <1>13 DEF ReserveOutbound, Regenerate, history
  <2>2. \/ /\ pc' \in {"send", "revise_call"} /\ job' = job
           /\ pc' = "send" => job.action = "send"
        \/ Decide("hold")
    BY <1>13 DEF ReserveOutbound, Regenerate, Goto
  <2> QED
    BY <1>7, <1>8, <2>1, <2>2 DEF Allowed
<1>14. CASE EndSession
  <2>1. /\ UNCHANGED <<clock, drafts, todo, job, left, crashes>> /\ pc = "act" /\ pc' = "status"
        /\ sessions' = [sessions EXCEPT ![job.sid].state = "ended"]
    BY <1>14 DEF EndSession, Goto, history
  <2>2. KeepsPace
    BY <1>0, <2>1 DEF KeepsPace, SessionRows
  <2> QED
    BY <2>1, <2>2 DEF Shape, Works, Allowed
<1>15. CASE Debit
  <2>1. UNCHANGED <<clock, sessions, drafts, todo, job, left, crashes>> /\ pc = "debit" /\ pc' = "status"
    BY <1>15 DEF Debit, Goto, history
  <2> QED
    BY <2>1, PaceKept DEF Shape, Debits
<1>16. CASE SetDraftStatus
  <2>1. /\ UNCHANGED <<clock, sessions, todo, left, crashes>> /\ pc = "status" /\ pc' \in {"recover", "done"}
        /\ drafts' = [drafts EXCEPT ![job.draft].status = job.action]
    BY <1>16 DEF SetDraftStatus, Goto, history
  <2> QED
    BY <2>1, PaceKept DEF Shape, Marks
<1>17. ASSUME NEW s \in Sid, NEW role \in {"initiator", "responder"}, CreateSession(s, role) PROVE Shape
  <2>1. /\ UNCHANGED <<clock, drafts, pc, todo, job, left, crashes>>
        /\ sessions' = [sessions EXCEPT ![s] = [@ EXCEPT !.state = "open", !.role = role,
                                                        !.started_at = clock]]
    BY <1>17 DEF CreateSession, history
  <2>2. KeepsPace
    BY <1>0, <2>1 DEF KeepsPace, SessionRows
  <2> QED
    BY <2>1, <2>2 DEF Shape, Stays
<1>18. CASE Ingest \/ ConsentWritten \/ UNCHANGED vars
  <2>1. UNCHANGED <<clock, sessions, drafts, pc, todo, job, left, crashes>>
    BY <1>18 DEF Ingest, ConsentWritten, vars, history
  <2> QED
    BY <2>1, PaceKept DEF Shape, Stays
<1>19. CASE Wait
  <2>1. UNCHANGED <<sessions, drafts, pc, todo, left, crashes>> /\ pc = "idle" /\ clock' = clock + 1
    BY <1>19 DEF Wait, db, history
  <2> QED
    BY <1>0, <2>1, PaceKept DEF Shape, Rests
<1>20. CASE SendFn \/ BumpSessionOutbound \/ Crash
  BY <1>20 DEF Shape
<1> QED
  BY <1>1, <1>2, <1>3, <1>4, <1>5, <1>6, <1>9, <1>10, <1>11, <1>12, <1>13, <1>14, <1>15, <1>16,
     <1>17, <1>18, <1>19, <1>20 DEF Next, Step

-----------------------------------------------------------------------------
(* Drafts. *)

\* Every step keeps DraftInv.
LEMMA DraftStep == ASSUME TypeOK, DraftInv, [Next]_vars PROVE DraftInv'
<1>0. /\ todo \subseteq DOMAIN drafts /\ job \in Jobs /\ drafts \in Seq(DraftRows)
      /\ DOMAIN drafts = 1 .. Len(drafts) /\ Len(drafts) \in Nat
  BY DEF TypeOK, DbType, TickType
<1> USE DEF InHand, Allowed, Drafting
<1>1. CASE Stays
  BY <1>1 DEF Stays, DraftInv
<1>2. CASE Rests
  BY <1>2 DEF Rests, DraftInv
<1>3. CASE Recovers
  <2>1. drafts' = drafts /\ pc' = "outbound" /\ todo' = todo \ {job'.draft}
        /\ job'.draft \in DOMAIN drafts /\ job'.sid = drafts[job'.draft].sid
        /\ drafts[job'.draft].status = "pending"
    BY <1>0, <1>3 DEF Recovers, DraftInv
  <2> QED
    BY <2>1 DEF DraftInv
<1>4. CASE Opens \/ Drafts
  BY <1>4 DEF Opens, Drafts, DraftInv
<1>5. CASE Saves
  <2>1. /\ \A d \in DOMAIN drafts : d \in DOMAIN drafts' /\ drafts'[d] = drafts[d]
        /\ Len(drafts) + 1 \in DOMAIN drafts' /\ Len(drafts) + 1 \notin DOMAIN drafts
        /\ drafts'[Len(drafts) + 1] = [sid |-> job.sid, reason |-> job.reason, status |-> "pending"]
    BY <1>0, <1>5 DEF Saves
  <2> QED
    BY <1>0, <1>5, <2>1 DEF Saves, DraftInv
<1>6. CASE Works \/ Debits
  BY <1>6 DEF Works, Debits, DraftInv
<1>7. CASE SendFn \/ BumpSessionOutbound
  <2>1. UNCHANGED <<drafts, todo, job>> /\ pc \in InHand /\ pc' \in {"bump", "debit"}
    BY <1>7 DEF SendFn, BumpSessionOutbound, Goto, db
  <2> QED
    BY <2>1 DEF DraftInv
<1>8. CASE Marks
  <2>1. /\ job.draft \in DOMAIN drafts \ todo /\ todo' = todo /\ pc' \in {"recover", "done"}
        /\ drafts' = [drafts EXCEPT ![job.draft].status = job.action]
    BY <1>8 DEF Marks, DraftInv
  <2>2. \A d \in todo : drafts'[d] = drafts[d]
    BY <1>0, <2>1
  <2> QED
    BY <2>1, <2>2 DEF DraftInv
<1>9. CASE Crash
  BY <1>9 DEF Crash, Goto, DraftInv
<1> QED
  BY <1>1, <1>2, <1>3, <1>4, <1>5, <1>6, <1>7, <1>8, <1>9, Shapes DEF Shape

-----------------------------------------------------------------------------
(* The gap. *)

\* What is known of a message that left.
LEMMA LeftType ==
    ASSUME TypeOK, NEW x \in left
    PROVE  x.sid \in Sid /\ x.n \in Nat /\ x.at \in Nat /\ x.crashes \in Nat
<1>1. x \in Sends /\ MaxTime \in Nat
  BY OutboundAssumption DEF TypeOK, HistoryType
<1> QED
  BY <1>1 DEF Sends

\* The numbers the rows compare are natural.
LEMMA RowType ==
    ASSUME TypeOK
    PROVE  /\ clock \in Nat /\ crashes \in Nat /\ Gap \in Nat /\ SessionCap \in Nat /\ job.sid \in Sid
           /\ IsFiniteSet(left) /\ Cardinality(left) \in Nat
           /\ \A s \in Sid : sessions[s].msg_count \in Nat /\ sessions[s].next_outbound_at \in Nat
<1>1. clock \in Nat /\ crashes \in Nat /\ Gap \in Nat /\ SessionCap \in Nat /\ job.sid \in Sid
  BY OutboundAssumption DEF TypeOK, DbType, TickType, HistoryType, Jobs
<1>2. IsFiniteSet(left) /\ Cardinality(left) \in Nat
  BY FS_CardinalityType DEF TypeOK, HistoryType
<1>3. ASSUME NEW s \in Sid
      PROVE  sessions[s].msg_count \in Nat /\ sessions[s].next_outbound_at \in Nat
  <2>1. sessions[s] \in SessionRows
    BY DEF TypeOK, DbType
  <2> QED
    BY <2>1 DEF SessionRows
<1> QED
  BY <1>1, <1>2, <1>3

\* What leaves is a new message, numbered by those before it.
LEMMA Leaving ==
    ASSUME TypeOK, PaceInv, SendFn
    PROVE  \E y : /\ left' = left \cup {y} /\ y \notin left
                  /\ y.n = Cardinality(left) /\ y.sid = job.sid /\ y.at = clock
                  /\ y.crashes = crashes /\ y.draft = job.draft /\ y.reason = job.reason
                  /\ Cardinality(left') = Cardinality(left) + 1
<1> DEFINE y == [n |-> Cardinality(left), sid |-> job.sid, draft |-> job.draft,
                 version |-> job.version, reviewed |-> job.reviewed, at |-> clock,
                 allowance |-> job.allowance, reason |-> job.reason, crashes |-> crashes]
<1>1. /\ left' = left \cup {y} /\ y.n = Cardinality(left) /\ y.sid = job.sid /\ y.at = clock
      /\ y.crashes = crashes /\ y.draft = job.draft /\ y.reason = job.reason
  BY DEF SendFn
<1> HIDE DEF y
<1>2. y \notin left
  BY <1>1, RowType DEF PaceInv
<1>3. Cardinality(left') = Cardinality(left) + 1
  BY <1>1, <1>2, RowType, FS_AddElement
<1> QED
  BY <1>1, <1>2, <1>3

\* Every step keeps PaceInv.
LEMMA PaceStep == ASSUME TypeOK, PaceInv, [Next]_vars PROVE PaceInv'
<1>0. /\ clock \in Nat /\ crashes \in Nat /\ Gap \in Nat /\ job.sid \in Sid /\ Cardinality(left) \in Nat
      /\ \A s \in Sid : sessions[s].next_outbound_at \in Nat
  BY RowType
<1>00. \A x \in left : x.sid \in Sid /\ x.n \in Nat /\ x.at \in Nat /\ x.crashes \in Nat
  BY LeftType
\* A step that sends nothing, writes no row and bumps none.
<1>q. ASSUME KeepsPace, clock' \in Nat, clock <= clock', pc # "bump", pc' # "bump",
             pc' \in Allowed => sessions[job'.sid].next_outbound_at <= clock' /\ job'.sid \in Sid
      PROVE  PaceInv'
  <2>1. left' = left /\ crashes' = crashes
    BY <1>q DEF KeepsPace
  <2>2. \A x \in left : x.n < Cardinality(left) /\ x.at <= clock' /\ x.crashes <= crashes
    BY <1>0, <1>00, <1>q DEF PaceInv
  <2>3. \A x \in left : x.crashes = crashes => x.at + Gap <= sessions'[x.sid].next_outbound_at
    BY <1>00, <1>q DEF PaceInv, Unbumped, KeepsPace
  <2>4. pc' \in Allowed => sessions'[job'.sid].next_outbound_at <= clock'
    BY <1>q DEF KeepsPace
  <2>5. PacingHeld'
    BY <2>1 DEF PaceInv, PacingHeld
  <2> QED
    BY <2>1, <2>2, <2>3, <2>4, <2>5 DEF PaceInv
<1>1. CASE Stays
  <2>1. UNCHANGED <<clock, pc, job, left, crashes>>
    BY <1>1 DEF Stays, KeepsPace
  <2>2. \A s \in Sid : sessions'[s].next_outbound_at = sessions[s].next_outbound_at
    BY <1>1 DEF Stays, KeepsPace
  <2> QED
    BY <1>0, <1>00, <2>1, <2>2 DEF PaceInv, PacingHeld, Unbumped
<1>2. CASE Rests \/ Recovers \/ Opens \/ Drafts \/ Saves \/ Debits \/ Marks
  BY <1>0, <1>2, <1>q DEF Rests, Recovers, Opens, Drafts, Saves, Debits, Marks, Allowed, Drafting
<1>3. CASE Works
  <2>1. pc' \in Allowed => sessions[job.sid].next_outbound_at <= clock
    BY <1>0, <1>3 DEF Works, PaceInv, SendAllowed, Allowed
  <2> QED
    BY <1>0, <1>3, <1>q, <2>1 DEF Works, Allowed
<1>4. CASE SendFn
  <2>1. PICK y : /\ left' = left \cup {y} /\ y \notin left
                 /\ y.n = Cardinality(left) /\ y.sid = job.sid /\ y.at = clock
                 /\ y.crashes = crashes /\ Cardinality(left') = Cardinality(left) + 1
    BY <1>4, Leaving
  <2>2. UNCHANGED <<clock, sessions, job, crashes>> /\ pc = "send" /\ pc' = "bump"
    BY <1>4 DEF SendFn, Goto, db
  <2>3. \A x \in left : x.crashes = crashes => x.at + Gap <= sessions[x.sid].next_outbound_at
    BY <2>2 DEF PaceInv, Unbumped
  <2>4. \A x \in left : x.sid = y.sid /\ x.crashes = y.crashes => y.at >= x.at + Gap
    <3>1. sessions[job.sid].next_outbound_at <= clock
      BY <2>2 DEF PaceInv, Allowed
    <3> QED
      BY <1>0, <1>00, <2>1, <2>3, <3>1
  <2>5. PacingHeld'
    <3> SUFFICES ASSUME NEW x \in left', NEW z \in left', x.n < z.n, x.sid = z.sid, x.crashes = z.crashes
                 PROVE  z.at >= x.at + Gap
      BY DEF PacingHeld
    <3>1. CASE x \in left /\ z \in left
      BY <3>1 DEF PaceInv, PacingHeld
    <3>2. CASE x \in left /\ z = y
      BY <2>4, <3>2
    <3>3. CASE x = y
      BY <1>0, <1>00, <2>1, <3>3 DEF PaceInv
    <3> QED
      BY <2>1, <3>1, <3>2, <3>3
  <2>6. \A x \in left' : x.n < Cardinality(left') /\ x.at <= clock' /\ x.crashes <= crashes'
    BY <1>0, <1>00, <2>1, <2>2 DEF PaceInv
  <2>7. \A x \in left' : x.crashes = crashes' /\ ~Unbumped(x.sid)' =>
           x.at + Gap <= sessions'[x.sid].next_outbound_at
    BY <2>1, <2>2, <2>3 DEF Unbumped
  <2> QED
    BY <2>2, <2>5, <2>6, <2>7 DEF PaceInv, Allowed
<1>5. CASE BumpSessionOutbound
  <2>1. /\ UNCHANGED <<clock, job, left, crashes>> /\ pc = "bump" /\ pc' = "debit"
        /\ sessions' = [sessions EXCEPT ![job.sid] = Bumped(sessions[job.sid])]
    BY <1>5 DEF BumpSessionOutbound, Goto, history
  <2>2. /\ \A s \in Sid \ {job.sid} : sessions'[s] = sessions[s]
        /\ sessions'[job.sid].next_outbound_at = clock + Gap
    <3>1. sessions \in [Sid -> SessionRows] /\ sessions[job.sid] \in SessionRows
      BY <1>0 DEF TypeOK, DbType
    <3> QED
      BY <1>0, <2>1, <3>1 DEF Bumped, SessionRows
  <2>3. \A x \in left : x.crashes = crashes => x.at + Gap <= sessions'[x.sid].next_outbound_at
    BY <1>0, <1>00, <2>1, <2>2 DEF PaceInv, Unbumped
  <2>4. PacingHeld'
    BY <2>1 DEF PaceInv, PacingHeld
  <2> QED
    BY <2>1, <2>3, <2>4 DEF PaceInv, Allowed
<1>6. CASE Crash
  <2>1. UNCHANGED <<clock, sessions, left>> /\ crashes' = crashes + 1 /\ pc' = "idle"
    BY <1>6 DEF Crash, Goto, db
  <2>2. \A x \in left : x.crashes # crashes' /\ x.crashes <= crashes'
    BY <1>0, <1>00, <2>1 DEF PaceInv
  <2>3. PacingHeld'
    BY <2>1 DEF PaceInv, PacingHeld
  <2> QED
    BY <2>1, <2>2, <2>3 DEF PaceInv, Allowed
<1> QED
  BY <1>1, <1>2, <1>3, <1>4, <1>5, <1>6, Shapes DEF Shape

-----------------------------------------------------------------------------
(* The message cap of a session. *)

\* The messages of a session are finitely many.
LEMMA SentInFinite ==
    ASSUME TypeOK, NEW s
    PROVE  IsFiniteSet(SentIn(s)) /\ Cardinality(SentIn(s)) \in Nat
<1>1. IsFiniteSet(left) /\ SentIn(s) \subseteq left
  BY RowType DEF SentIn
<1> QED
  BY <1>1, FS_Subset, FS_CardinalityType

\* Every step keeps CountInv.
LEMMA CountStep == ASSUME TypeOK, PaceInv, CountInv, [Next]_vars PROVE CountInv'
<1>0. /\ crashes \in Nat /\ SessionCap \in Nat /\ job.sid \in Sid
      /\ \A s \in Sid : sessions[s].msg_count \in Nat /\ Cardinality(SentIn(s)) \in Nat
  BY RowType, SentInFinite
\* A step that sends nothing, writes no row and bumps none.
<1>q. ASSUME KeepsPace, pc # "bump", pc' # "bump",
             pc' \in Allowed => sessions[job'.sid].msg_count < SessionCap /\ job'.sid \in Sid
      PROVE  CountInv'
  <2>1. left' = left /\ crashes' = crashes /\ \A s \in Sid : sessions'[s].msg_count = sessions[s].msg_count
    BY <1>q DEF KeepsPace
  <2>2. \A s \in Sid : SentIn(s)' = SentIn(s) /\ ~Unbumped(s) /\ ~Unbumped(s)'
    BY <1>q, <2>1 DEF SentIn, Unbumped
  <2>3. \A s \in Sid : Cardinality(SentIn(s))' <= sessions'[s].msg_count + crashes'
                                                  + (IF Unbumped(s)' THEN 1 ELSE 0)
    BY <2>1, <2>2 DEF CountInv
  <2>4. \A s \in Sid : sessions'[s].msg_count <= SessionCap
    BY <2>1 DEF CountInv
  <2>5. pc' \in Allowed \cup {"bump"} => sessions'[job'.sid].msg_count < SessionCap
    BY <1>q, <2>1
  <2> QED
    BY <2>3, <2>4, <2>5 DEF CountInv
<1>1. CASE Stays
  <2>1. /\ UNCHANGED <<pc, job, left, crashes>>
        /\ \A s \in Sid : sessions'[s].msg_count = sessions[s].msg_count
    BY <1>1 DEF Stays, KeepsPace
  <2> QED
    BY <1>0, <2>1 DEF CountInv, Unbumped, SentIn
<1>2. CASE Rests \/ Recovers \/ Opens \/ Drafts \/ Saves \/ Debits \/ Marks
  BY <1>2, <1>q DEF Rests, Recovers, Opens, Drafts, Saves, Debits, Marks, Allowed, Drafting
<1>3. CASE Works
  <2>1. pc' \in Allowed => sessions[job.sid].msg_count < SessionCap
    BY <1>3 DEF Works, CountInv, SendAllowed, Allowed
  <2> QED
    BY <1>0, <1>3, <1>q, <2>1 DEF Works, Allowed
<1>4. CASE SendFn
  <2>1. PICK y : left' = left \cup {y} /\ y \notin left /\ y.sid = job.sid
    BY <1>4, Leaving
  <2>2. UNCHANGED <<sessions, job, crashes>> /\ pc = "send" /\ pc' = "bump"
    BY <1>4 DEF SendFn, Goto, db
  <2>3. ASSUME NEW s \in Sid, s # job.sid
        PROVE  Cardinality(SentIn(s)') <= sessions[s].msg_count + crashes
    <3>1. SentIn(s)' = SentIn(s)
      BY <2>1, <2>3 DEF SentIn
    <3> QED
      BY <1>0, <2>2, <3>1 DEF CountInv, Unbumped
  <2>4. Cardinality(SentIn(job.sid)') <= sessions[job.sid].msg_count + crashes + 1
    <3>1. left' = left \cup {y} => {x \in left' : x.sid = job.sid} = SentIn(job.sid) \cup {y}
      BY <2>1 DEF SentIn
    <3>2. SentIn(job.sid)' = SentIn(job.sid) \cup {y} /\ y \notin SentIn(job.sid)
      BY <2>1, <2>2, <3>1 DEF SentIn
    <3>3. Cardinality(SentIn(job.sid)') = Cardinality(SentIn(job.sid)) + 1
      BY <3>2, SentInFinite, FS_AddElement
    <3> QED
      BY <1>0, <2>2, <3>3 DEF CountInv, Unbumped
  <2>5. \A s \in Sid : Cardinality(SentIn(s)') <= sessions'[s].msg_count + crashes'
                                                  + (IF Unbumped(s)' THEN 1 ELSE 0)
    BY <1>0, <2>2, <2>3, <2>4 DEF Unbumped
  <2> QED
    BY <2>2, <2>5 DEF CountInv, Allowed
<1>5. CASE BumpSessionOutbound
  <2>1. /\ UNCHANGED <<job, left, crashes>> /\ pc = "bump" /\ pc' = "debit"
        /\ sessions' = [sessions EXCEPT ![job.sid] = Bumped(sessions[job.sid])]
    BY <1>5 DEF BumpSessionOutbound, Goto, history
  <2>2. /\ \A s \in Sid \ {job.sid} : sessions'[s] = sessions[s]
        /\ sessions'[job.sid].msg_count = sessions[job.sid].msg_count + 1
    <3>1. sessions \in [Sid -> SessionRows] /\ sessions[job.sid] \in SessionRows
      BY <1>0 DEF TypeOK, DbType
    <3> QED
      BY <1>0, <2>1, <3>1 DEF Bumped, SessionRows
  <2>3. \A s \in Sid : SentIn(s)' = SentIn(s)
    BY <2>1 DEF SentIn
  <2>4. \A s \in Sid : Cardinality(SentIn(s)) <= sessions'[s].msg_count + crashes
    BY <1>0, <2>1, <2>2 DEF CountInv, Unbumped
  <2>5. ASSUME NEW s \in Sid
        PROVE  Cardinality(SentIn(s)') <= sessions'[s].msg_count + crashes'
                                             + (IF Unbumped(s)' THEN 1 ELSE 0)
    <3>1. sessions'[s].msg_count \in Nat /\ ~Unbumped(s)'
      BY <1>0, <2>1, <2>2 DEF Unbumped
    <3>2. Cardinality(SentIn(s)') <= sessions'[s].msg_count + crashes
      BY <2>3, <2>4
    <3> QED
      BY <1>0, <2>1, <3>1, <3>2
  <2>6. \A s \in Sid : sessions'[s].msg_count <= SessionCap
    BY <1>0, <2>1, <2>2 DEF CountInv
  <2> QED
    BY <2>1, <2>5, <2>6 DEF CountInv, Allowed
<1>6. CASE Crash
  <2>1. UNCHANGED <<sessions, left>> /\ crashes' = crashes + 1 /\ pc' = "idle"
    BY <1>6 DEF Crash, Goto, db
  <2>2. ASSUME NEW s \in Sid
        PROVE  Cardinality(SentIn(s)') <= sessions'[s].msg_count + crashes'
                                             + (IF Unbumped(s)' THEN 1 ELSE 0)
    <3>1. Cardinality(SentIn(s)) <= sessions[s].msg_count + (crashes + 1)
      BY <1>0 DEF CountInv
    <3>2. SentIn(s)' = SentIn(s) /\ ~Unbumped(s)'
      BY <2>1 DEF SentIn, Unbumped
    <3> QED
      BY <1>0, <2>1, <3>1, <3>2
  <2> QED
    BY <2>1, <2>2 DEF CountInv, Allowed
<1> QED
  BY <1>1, <1>2, <1>3, <1>4, <1>5, <1>6, Shapes DEF Shape

-----------------------------------------------------------------------------
(* The opener of a session. *)

\* The openers of a session are finitely many, and one more message is at most
\* one more opener.
LEMMA OpenersCount ==
    ASSUME TypeOK, NEW s
    PROVE  IsFiniteSet(Openers(s)) /\ Cardinality(Openers(s)) \in Nat
<1> DEFINE Y == {y \in left : y.sid = s /\ y.reason = "opener"}
<1>1. IsFiniteSet(Y)
  BY RowType, FS_Subset
<1> DEFINE D == {x.draft : x \in Y}
           f == [x \in Y |-> x.draft]
<1>2. f \in Surjection(Y, D)
  BY DEF Surjection
<1> HIDE DEF f
<1>3. IsFiniteSet(D)
  BY <1>1, <1>2, FS_Surjection
<1> QED
  BY <1>3, FS_CardinalityType DEF Openers

\* Every step keeps OpenerInv.
LEMMA OpenerStep ==
    ASSUME TypeOK, Timely, PaceInv, DraftInv, OpenerInv, [Next]_vars PROVE OpenerInv'
<1>0. /\ crashes \in Nat /\ job.sid \in Sid /\ Len(drafts) \in Nat /\ DOMAIN drafts = 1 .. Len(drafts)
      /\ \A s \in Sid : Cardinality(Openers(s)) \in Nat
  BY RowType, OpenersCount DEF TypeOK, DbType
\* A step that sends nothing and unmarks nothing.
<1>q. ASSUME UNCHANGED <<left, crashes>>,
             \A s \in Sid : Marked(s) \/ Sent(s) => Marked(s)' \/ Sent(s)',
             pc' \in Drafting \cup Allowed \cup {"outbound"} /\ job'.reason = "opener" =>
                job'.sid \in Sid /\ Cardinality(Openers(job'.sid)) <= crashes
      PROVE  OpenerInv'
  <2>1. \A s : Openers(s)' = Openers(s)
    BY <1>q DEF Openers
  <2>2. \A s \in Sid : \/ Cardinality(Openers(s)') <= crashes'
                       \/ Cardinality(Openers(s)') <= 1 + crashes' /\ (Marked(s)' \/ Sent(s)')
    BY <1>q, <2>1 DEF OpenerInv
  <2>3. pc' \in Drafting \cup Allowed \cup {"outbound"} /\ job'.reason = "opener" =>
           Cardinality(Openers(job'.sid)) <= crashes
    BY <1>q
  <2>4. pc' \in Drafting \cup Allowed \cup {"outbound"} /\ job'.reason = "opener" =>
           Cardinality(Openers(job.sid)') <= crashes'
    <3>1. Openers(job.sid)' = Openers(job'.sid)
      BY <1>q DEF Openers
    <3> QED
      BY <1>q, <2>3, <3>1
  <2> QED
    BY <2>2, <2>4 DEF OpenerInv
<1>1. CASE Stays
  <2>1. UNCHANGED <<drafts, pc, job, left, crashes>>
    BY <1>1 DEF Stays, KeepsPace
  <2> QED
    BY <1>0, <1>q, <2>1 DEF OpenerInv, Marked, Sent
<1>2. CASE Rests \/ Recovers \/ Opens \/ Drafts \/ Saves \/ Works
  <2>1. UNCHANGED <<left, crashes>> /\ pc \notin {"bump", "debit", "status"}
    BY <1>2 DEF Rests, Recovers, Opens, Drafts, Saves, Works, KeepsPace, Allowed, Drafting
  <2>2. \A s \in Sid : Marked(s) => Marked(s)'
    <3>1. drafts' = drafts \/ \A d \in DOMAIN drafts : d \in DOMAIN drafts' /\ drafts'[d] = drafts[d]
      BY <1>0, <1>2 DEF Rests, Recovers, Opens, Drafts, Saves, Works, TypeOK, DbType
    <3> QED
      BY <3>1 DEF Marked
  <2>3. CASE Opens
    <3>1. \A s \in Sid : ~Sent(s)
      BY <2>1 DEF Sent
    <3>2. job' \in Jobs
      BY TypeStep DEF TypeOK, TickType
    <3> QED
      BY <1>q, <2>1, <2>2, <2>3, <3>1, <3>2 DEF Opens, OpenerInv, Jobs
  <2>4. CASE ~Opens
    <3>1. pc' \in Drafting \cup Allowed \cup {"outbound"} /\ job'.reason = "opener" =>
             /\ pc \in Drafting \cup Allowed \cup {"outbound"} /\ job.reason = "opener"
             /\ job'.sid = job.sid
      BY <1>2, <2>4 DEF Rests, Recovers, Drafts, Saves, Works, Allowed, Drafting
    <3> QED
      BY <1>0, <1>q, <2>1, <2>2, <3>1 DEF OpenerInv, Sent
  <2> QED
    BY <2>3, <2>4
<1>3. CASE SendFn
  <2>1. PICK y : /\ left' = left \cup {y} /\ y.sid = job.sid /\ y.draft = job.draft /\ y.reason = job.reason
    BY <1>3, Leaving
  <2>2. UNCHANGED <<drafts, job, crashes>> /\ pc = "send" /\ pc' = "bump" /\ job.action = "send"
    BY <1>3 DEF SendFn, Goto, db, DraftInv
  <2>3. \A s \in Sid : (Marked(s) \/ Sent(s) => Marked(s)') /\ (s = job.sid => Sent(s)')
    BY <2>2 DEF Marked, Sent
  <2>4. ASSUME NEW s \in Sid, s # job.sid \/ job.reason # "opener"
        PROVE  Openers(s)' = Openers(s)
    BY <2>1, <2>4 DEF Openers
  <2>5. ASSUME NEW s \in Sid, s = job.sid, job.reason = "opener"
        PROVE  Cardinality(Openers(s)') <= 1 + crashes
    <3>1. Openers(s)' = Openers(s) \cup {job.draft}
      BY <2>1, <2>2, <2>5 DEF Openers
    <3>2. /\ IsFiniteSet(Openers(s))
          /\ Cardinality(Openers(s)) <= crashes /\ Cardinality(Openers(s)) \in Nat
      BY <2>2, <2>5, OpenersCount DEF OpenerInv, Allowed
    <3>3. \/ Cardinality(Openers(s) \cup {job.draft}) = Cardinality(Openers(s))
          \/ Cardinality(Openers(s) \cup {job.draft}) = Cardinality(Openers(s)) + 1
      BY <3>2, FS_AddElement
    <3>4. Cardinality(Openers(s)') = Cardinality(Openers(s) \cup {job.draft})
      BY <3>1, Zenon
    <3>5. Cardinality(Openers(s) \cup {job.draft}) <= 1 + crashes
      BY <1>0, <3>2, <3>3
    <3> QED
      BY <3>4, <3>5, Zenon
  <2>6. ASSUME NEW s \in Sid
        PROVE  \/ Cardinality(Openers(s)') <= crashes
               \/ Cardinality(Openers(s)') <= 1 + crashes /\ (Marked(s)' \/ Sent(s)')
    <3>1. CASE s = job.sid /\ job.reason = "opener"
      BY <2>3, <2>5, <3>1
    <3>2. CASE s # job.sid \/ job.reason # "opener"
      BY <2>3, <2>4, <3>2 DEF OpenerInv
    <3> QED
      BY <3>1, <3>2
  <2> QED
    BY <2>2, <2>6 DEF OpenerInv, Drafting, Allowed
<1>4. CASE BumpSessionOutbound \/ Debits
  <2>1. UNCHANGED <<drafts, job, left, crashes>> /\ pc \in {"bump", "debit"} /\ pc' \in {"debit", "status"}
    BY <1>4 DEF BumpSessionOutbound, Debits, KeepsPace, Goto, history
  <2> QED
    BY <1>q, <2>1 DEF Marked, Sent, Drafting, Allowed
<1>5. CASE Marks
  <2>1. /\ UNCHANGED <<left, crashes>> /\ pc' \in {"recover", "done"}
        /\ drafts' = [drafts EXCEPT ![job.draft].status = job.action]
        /\ job.draft \in DOMAIN drafts /\ drafts[job.draft].status = "pending"
        /\ drafts[job.draft].sid = job.sid
    BY <1>5 DEF Marks, KeepsPace, DraftInv, InHand
  <2>2. /\ DOMAIN drafts' = DOMAIN drafts
        /\ \A d \in DOMAIN drafts : d # job.draft => drafts'[d] = drafts[d]
        /\ drafts'[job.draft].status = job.action /\ drafts'[job.draft].sid = job.sid
    <3>1. drafts[job.draft] \in DraftRows /\ drafts \in Seq(DraftRows)
      BY <2>1 DEF TypeOK, DbType
    <3> QED
      BY <2>1, <3>1 DEF DraftRows
  <2>3. \A s \in Sid : Marked(s) \/ Sent(s) => Marked(s)'
    BY <2>1, <2>2 DEF Marked, Sent
  <2> QED
    BY <1>q, <2>1, <2>3 DEF Drafting, Allowed
<1>6. CASE Crash
  <2>1. UNCHANGED <<drafts, left>> /\ crashes' = crashes + 1 /\ pc' = "idle"
    BY <1>6 DEF Crash, Goto, db
  <2>2. \A s \in Sid : Cardinality(Openers(s)) <= crashes + 1
    BY <1>0 DEF OpenerInv
  <2>3. \A s \in Sid : Openers(s)' = Openers(s)
    BY <2>1 DEF Openers
  <2> QED
    BY <2>1, <2>2, <2>3 DEF OpenerInv, Drafting, Allowed
<1> QED
  BY <1>1, <1>2, <1>3, <1>4, <1>5, <1>6, Shapes DEF Shape

-----------------------------------------------------------------------------
(* The theorems. *)

PacingInv == TypeOK /\ Timely /\ DraftInv /\ PaceInv /\ CountInv /\ OpenerInv

\* The invariants hold at the start.
LEMMA PacingInit == Init => PacingInv
<1> SUFFICES ASSUME Init PROVE PacingInv
  OBVIOUS
<1>1. left = {} /\ todo = {} /\ pc = "idle" /\ crashes = 0 /\ SessionCap \in Nat
  BY OutboundAssumption DEF Init
<1>2. \A s \in Sid : sessions[s].msg_count = 0
  BY DEF Init
<1>3. DraftInv /\ PaceInv
  BY <1>1 DEF DraftInv, PaceInv, PacingHeld, InHand, Allowed
<1>4. \A s : SentIn(s) = {} /\ Openers(s) = {}
  BY <1>1 DEF SentIn, Openers
<1>5. CountInv
  <2>1. \A s : Cardinality(SentIn(s)) = 0
    BY <1>4, FS_EmptySet
  <2> QED
    BY <1>1, <1>2, <2>1 DEF CountInv, Allowed, Unbumped
<1>6. OpenerInv
  BY <1>1, <1>4, FS_EmptySet DEF OpenerInv, Drafting, Allowed
<1> QED
  BY <1>3, <1>5, <1>6, TypeInit DEF PacingInv

\* The invariants hold throughout.
LEMMA PacingAlways == Spec => []PacingInv
<1>1. PacingInv /\ [Next]_vars => PacingInv'
  BY TypeStep, DraftStep, PaceStep, CountStep, OpenerStep DEF PacingInv
<1> QED
  BY <1>1, PacingInit, PTL DEF Spec

\* Two messages of a session are a full gap apart unless the process died
\* between them: the row's next_outbound_at is behind nothing that left in this
\* life of the process (session_engine.py, can_send_now).
THEOREM GapKept == Spec => []PacingHeld
<1>1. PacingInv => PacingHeld
  BY DEF PacingInv, PaceInv
<1> QED
  BY <1>1, PacingAlways, PTL

\* A session carries at most its message cap, and one more for every crash.
THEOREM SessionCapped == Spec => []SessionCapHeld
<1>1. ASSUME PacingInv PROVE SessionCapHeld
  <2>1. /\ crashes \in Nat /\ SessionCap \in Nat
        /\ \A s \in Sid : sessions[s].msg_count \in Nat /\ Cardinality(SentIn(s)) \in Nat
    BY <1>1, RowType, SentInFinite DEF PacingInv
  <2>2. ASSUME NEW s \in Sid PROVE Cardinality(SentIn(s)) <= SessionCap + crashes
    <3>1. CASE Unbumped(s)
      BY <1>1, <2>1, <3>1 DEF PacingInv, CountInv, Unbumped
    <3>2. CASE ~Unbumped(s)
      BY <1>1, <2>1, <3>2 DEF PacingInv, CountInv
    <3> QED
      BY <3>1, <3>2
  <2> QED
    BY <2>2 DEF SessionCapHeld, SentIn
<1> QED
  BY <1>1, PacingAlways, PTL

\* A session has one opener, and one more for every crash.
THEOREM OneOpener == Spec => []OpenerOnce
<1>1. ASSUME PacingInv PROVE OpenerOnce
  <2>1. \A s \in Sid : Cardinality(Openers(s)) \in Nat /\ crashes \in Nat
    BY <1>1, RowType, OpenersCount DEF PacingInv
  <2>2. \A s \in Sid : Cardinality(Openers(s)) <= 1 + crashes
    BY <1>1, <2>1 DEF PacingInv, OpenerInv
  <2> QED
    BY <2>2 DEF OpenerOnce, Openers
<1> QED
  BY <1>1, PacingAlways, PTL
=============================================================================
