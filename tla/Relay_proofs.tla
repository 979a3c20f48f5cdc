---------------------------- MODULE Relay_proofs ----------------------------
(***************************************************************************)
(* Proofs about Relay, for any number of concurrent requests, mailboxes,    *)
(* identities, caps and retention periods.                                 *)
(***************************************************************************)
EXTENDS Relay, FiniteSetTheorems, TLAPS

-----------------------------------------------------------------------------
(* Requests and their slots. *)

\* What a request carries, by the statements it may stand at.
RegisterRequest == [op : {"register"}, pc : {"count", "upsert"}, m : Mailbox, who : Ident, at : Time]
ChallengeRequest == [op : {"challenge"}, pc : {"insertNonce"}, m : Mailbox, at : Time]
PushStatements == {"countUnregistered", "selectVictim", "insertMailbox", "depth", "insert"}
PushRequest == [op : {"push"}, pc : PushStatements, m : Mailbox, at : Time]
EvictRequest == [op : {"push"}, pc : {"deleteVictim", "deleteNonces"}, m : Mailbox, at : Time, victim : Mailbox]
AuthRequest == [op : {"fetch", "ack"}, pc : {"nonceLive", "discard", "serve"}, ids : SUBSET Id,
                m : Mailbox, n : Nonce, at : Time]
GcRequest == [op : {"gc"}, pc : {"gcNonces", "gcMailboxes"}, at : Time]

Request == RegisterRequest \cup ChallengeRequest \cup PushRequest \cup EvictRequest
             \cup AuthRequest \cup GcRequest

\* The statement a request stands at tells what it carries.
LEMMA RequestShape ==
    ASSUME NEW q \in Request
    PROVE  /\ q.pc \in Statements /\ q.at \in Time
           /\ q.pc \in {"count", "upsert"} => q \in RegisterRequest
           /\ q.pc = "insertNonce" => q \in ChallengeRequest
           /\ q.pc \in PushStatements => q \in PushRequest
           /\ q.pc \in {"deleteVictim", "deleteNonces"} => q \in EvictRequest
           /\ q.pc \in {"nonceLive", "discard", "serve"} => q \in AuthRequest
           /\ q.pc \in {"gcNonces", "gcMailboxes"} => q \in GcRequest
<1>1. CASE q \in RegisterRequest
  BY <1>1 DEF RegisterRequest, Statements, PushStatements
<1>2. CASE q \in ChallengeRequest
  BY <1>2 DEF ChallengeRequest, Statements, PushStatements
<1>3. CASE q \in PushRequest
  BY <1>3 DEF PushRequest, Statements, PushStatements
<1>4. CASE q \in EvictRequest
  BY <1>4 DEF EvictRequest, Statements, PushStatements
<1>5. CASE q \in AuthRequest
  BY <1>5 DEF AuthRequest, Statements, PushStatements
<1>6. CASE q \in GcRequest
  BY <1>6 DEF GcRequest, Statements, PushStatements
<1> QED
  BY <1>1, <1>2, <1>3, <1>4, <1>5, <1>6 DEF Request

\* Every slot runs at most one request, which arrived in the past.
ReqType ==
    /\ req \in [Req -> SUBSET Request]
    /\ \A r \in Req : \A p, q \in req[r] : p = q
    /\ \A r \in Req : \A q \in req[r] : q.at <= now

\* An answered request leaves its slot, another statement or another request
\* takes it; the clock may move on.
LEMMA SlotType ==
    ASSUME ReqType, NEW r \in Req, now \in Time
    PROVE  /\ Answer(r) /\ UNCHANGED now => ReqType'
           /\ \A p \in Request : p.at <= now /\ req' = [req EXCEPT ![r] = {p}] /\ UNCHANGED now => ReqType'
           /\ UNCHANGED req /\ now' = now + 1 => ReqType'
<1>1. /\ req \in [Req -> SUBSET Request]
      /\ \A s \in Req : \A p, q \in req[s] : p = q
      /\ \A s \in Req : \A q \in req[s] : q \in Request /\ q.at <= now
  BY DEF ReqType
<1>2. ASSUME Answer(r), UNCHANGED now PROVE ReqType'
  BY <1>1, <1>2 DEF ReqType, Answer
<1>3. ASSUME NEW p \in Request, p.at <= now, req' = [req EXCEPT ![r] = {p}], UNCHANGED now PROVE ReqType'
  BY <1>1, <1>3 DEF ReqType
<1>4. ASSUME UNCHANGED req, now' = now + 1 PROVE ReqType'
  <2>1. \A s \in Req : \A q \in req[s] : q.at \in Nat
    BY <1>1, RequestShape, RelayAssumption DEF Time
  <2> QED
    BY <1>1, <1>4, <2>1, RelayAssumption DEF ReqType, Time
<1> QED
  BY <1>2, <1>3, <1>4

\* Moving on to another statement of the same request.
LEMMA GotoType ==
    ASSUME NEW q \in Request, NEW pc,
           \/ q \in RegisterRequest /\ pc \in {"count", "upsert"}
           \/ q \in PushRequest /\ pc \in PushStatements
           \/ q \in EvictRequest /\ pc \in {"deleteVictim", "deleteNonces"}
           \/ q \in AuthRequest /\ pc \in {"nonceLive", "discard", "serve"}
           \/ q \in GcRequest /\ pc \in {"gcNonces", "gcMailboxes"}
    PROVE  /\ [q EXCEPT !.pc = pc] \in Request
           /\ [q EXCEPT !.pc = pc].at = q.at
           /\ [q EXCEPT !.pc = pc].op = q.op
           /\ [q EXCEPT !.pc = pc].pc = pc
           /\ q.op = "ack" => [q EXCEPT !.pc = pc].ids = q.ids
           /\ q \in PushRequest => [q EXCEPT !.pc = pc].m = q.m
<1>1. CASE q \in RegisterRequest /\ pc \in {"count", "upsert"}
  BY <1>1 DEF RegisterRequest, PushRequest, AuthRequest, Request
<1>2. CASE q \in PushRequest /\ pc \in PushStatements
  BY <1>2 DEF PushRequest, AuthRequest, Request
<1>3. CASE q \in EvictRequest /\ pc \in {"deleteVictim", "deleteNonces"}
  BY <1>3 DEF EvictRequest, PushRequest, PushStatements, AuthRequest, Request
<1>4. CASE q \in AuthRequest /\ pc \in {"nonceLive", "discard", "serve"}
  BY <1>4 DEF AuthRequest, PushRequest, Request
<1>5. CASE q \in GcRequest /\ pc \in {"gcNonces", "gcMailboxes"}
  BY <1>5 DEF GcRequest, PushRequest, AuthRequest, Request
<1> QED
  BY <1>1, <1>2, <1>3, <1>4, <1>5

\* A set of slots is finite, no larger than the pool, and one smaller without
\* one of its members.
LEMMA SlotCount ==
    ASSUME NEW A \in SUBSET Req
    PROVE  /\ IsFiniteSet(A) /\ Cardinality(A) \in Nat /\ Cardinality(Req) \in Nat
           /\ Cardinality(A) <= Cardinality(Req)
           /\ \A r \in A : Cardinality(A \ {r}) = Cardinality(A) - 1 /\ Cardinality(A) >= 1
           /\ \A r : Cardinality(A \ {r}) <= Cardinality(A)
<1>1. IsFiniteSet(Req)
  BY RelayAssumption
<1>2. IsFiniteSet(A) /\ Cardinality(A) <= Cardinality(Req)
  BY <1>1, FS_Subset
<1>3. Cardinality(A) \in Nat /\ Cardinality(Req) \in Nat
  BY <1>1, <1>2, FS_CardinalityType
<1>4. ASSUME NEW r \in A
      PROVE  Cardinality(A \ {r}) = Cardinality(A) - 1 /\ Cardinality(A) >= 1
  <2>1. IsFiniteSet(A \ {r}) /\ Cardinality(A \ {r}) = Cardinality(A) - 1
    BY <1>2, FS_RemoveElement
  <2>2. Cardinality(A \ {r}) \in Nat
    BY <2>1, FS_CardinalityType
  <2> QED
    BY <1>3, <2>1, <2>2
<1>5. ASSUME NEW r PROVE Cardinality(A \ {r}) <= Cardinality(A)
  BY <1>2, FS_Subset
<1> QED
  BY <1>2, <1>3, <1>4, <1>5

\* The slots that run an operation, and those that have been admitted to a
\* queue and have not inserted yet.
Slots(op) == {r \in Req : \E q \in req[r] : q.op = op}
Admitted(m) == {r \in Req : \E q \in req[r] : q.pc = "insert" /\ q.m = m}

\* How a slot that is freed, that goes on and that is taken changes them.
LEMMA SlotsAnswered ==
    ASSUME ReqType, NEW r \in Req, Answer(r), NEW op, NEW m
    PROVE  Slots(op)' = Slots(op) \ {r} /\ Admitted(m)' = Admitted(m) \ {r}
BY DEF ReqType, Answer, Slots, Admitted

LEMMA SlotsGo ==
    ASSUME ReqType, NEW r \in Req, NEW q \in req[r], NEW p, p.op = q.op, req' = [req EXCEPT ![r] = {p}],
           NEW op, NEW m
    PROVE  /\ Slots(op)' = Slots(op)
           /\ p.pc # "insert" => Admitted(m)' \subseteq Admitted(m)
           /\ p.m # m => Admitted(m)' \subseteq Admitted(m)
<1>1. req \in [Req -> SUBSET Request] /\ \A x, y \in req[r] : x = y
  BY DEF ReqType
<1>2. req'[r] = {p} /\ \A s \in Req \ {r} : req'[s] = req[s]
  BY <1>1
<1>3. \A s \in Req : s \in Slots(op)' <=> s \in Slots(op)
  BY <1>1, <1>2 DEF Slots
<1>4. \A s \in Req : s \in Admitted(m)' /\ (p.pc # "insert" \/ p.m # m) => s \in Admitted(m)
  BY <1>2 DEF Admitted
<1> QED
  BY <1>3, <1>4 DEF Slots, Admitted

LEMMA SlotsTaken ==
    ASSUME ReqType, NEW r \in Req, req[r] = {}, NEW p, req' = [req EXCEPT ![r] = {p}], p.pc # "insert",
           NEW op, NEW m
    PROVE  /\ Slots(op)' = IF p.op = op THEN Slots(op) \cup {r} ELSE Slots(op)
           /\ Admitted(m)' \subseteq Admitted(m)
<1>1. req \in [Req -> SUBSET Request]
  BY DEF ReqType
<1>2. req'[r] = {p} /\ \A s \in Req \ {r} : req'[s] = req[s]
  BY <1>1
<1> QED
  BY <1>2 DEF Slots, Admitted

-----------------------------------------------------------------------------
(* Types. *)

\* The three tables; a mailbox has at most one row.
TableType ==
    /\ mailboxes \in [Mailbox -> SUBSET MailboxRow]
    /\ \A m \in Mailbox : \A x, y \in mailboxes[m] : x = y
    /\ envelopes \subseteq EnvelopeRow /\ IsFiniteSet(envelopes)
    /\ nonces \subseteq NonceRow

\* What clients know, the counters and the clock.
ClientType ==
    /\ issued \subseteq [m : Mailbox, n : Nonce] /\ seen \subseteq Id
    /\ lastId \in Nat /\ lastNonce \in Nat /\ now \in Time

\* Ids and nonces last for the requests that have passed the bound already.
CountInv ==
    /\ lastId + Cardinality(Slots("push")) <= MaxPushes - 1 + Cardinality(Req)
    /\ lastNonce + Cardinality(Slots("challenge")) <= MaxNonces - 1 + Cardinality(Req)

TypeInv == TableType /\ ReqType /\ ClientType /\ CountInv

\* What a step does to its slot: it answers, goes on with the same operation,
\* or takes a request that has just arrived within the bounds.
GoesOn(r) == \E q \in req[r], p \in Request :
    /\ p.op = q.op /\ p.at = q.at /\ req' = [req EXCEPT ![r] = {p}]
    /\ p.op = "ack" => p.ids = q.ids
Arrives(r) == req[r] = {} /\ \E p \in Request :
    /\ p.at = now /\ p.pc # "insert" /\ req' = [req EXCEPT ![r] = {p}]
    /\ p.op = "push" => lastId < MaxPushes
    /\ p.op = "challenge" => lastNonce < MaxNonces
    /\ p.op = "ack" => p.ids \subseteq seen

LEMMA ArrivalStep ==
    ASSUME TypeInv, NEW r \in Req,
           Register(r) \/ Challenge(r) \/ Push(r) \/ Authenticate(r) \/ GcEnvelopes(r)
    PROVE  Arrives(r) /\ UNCHANGED <<now, lastId, lastNonce>>
<1>0. now \in Time /\ issued \subseteq [m : Mailbox, n : Nonce] /\ seen \subseteq Id
  BY DEF TypeInv, ClientType
<1>1. CASE Register(r)
  <2>1. PICK m \in Mailbox, i \in Ident :
          Start(r, [op |-> "register", pc |-> "count", m |-> m, who |-> i, at |-> now])
    BY <1>1 DEF Register
  <2>2. [op |-> "register", pc |-> "count", m |-> m, who |-> i, at |-> now] \in Request
    BY <1>0 DEF Request, RegisterRequest
  <2> QED
    BY <2>1, <2>2 DEF Start, Arrives, Counters
<1>2. CASE Challenge(r)
  <2>1. PICK m \in Mailbox :
          /\ req[r] = {} /\ lastNonce < MaxNonces
          /\ req' = [req EXCEPT ![r] = {[op |-> "challenge", pc |-> "insertNonce", m |-> m, at |-> now]}]
          /\ UNCHANGED Counters
    BY <1>2 DEF Challenge
  <2>2. [op |-> "challenge", pc |-> "insertNonce", m |-> m, at |-> now] \in Request
    BY <1>0 DEF Request, ChallengeRequest
  <2> QED
    BY <2>1, <2>2 DEF Arrives, Counters
<1>3. CASE Push(r)
  <2>1. PICK m \in Mailbox, pc \in {"depth", "countUnregistered"} :
          lastId < MaxPushes /\ Start(r, PushAt(pc, m, now))
    BY <1>3 DEF Push
  <2>2. PushAt(pc, m, now) \in PushRequest
    BY <1>0, <2>1 DEF PushAt, PushRequest, PushStatements
  <2>3. PushAt(pc, m, now) \in Request
    BY <2>2 DEF Request
  <2>4. /\ PushAt(pc, m, now).at = now /\ PushAt(pc, m, now).op = "push"
        /\ PushAt(pc, m, now).pc # "insert"
    BY DEF PushAt
  <2>5. req[r] = {} /\ req' = [req EXCEPT ![r] = {PushAt(pc, m, now)}] /\ UNCHANGED Counters
    BY <2>1 DEF Start
  <2> QED
    BY <2>1, <2>3, <2>4, <2>5 DEF Arrives, Counters
<1>4. CASE Authenticate(r)
  <2>1. PICK c \in issued, q \in {[op |-> "fetch", ids |-> {}]} \cup [op : {"ack"}, ids : SUBSET seen \ {{}}] :
          Start(r, [op |-> q.op, ids |-> q.ids, pc |-> "nonceLive", m |-> c.m, n |-> c.n, at |-> now])
    BY <1>4 DEF Authenticate
  <2>2. q.op \in {"fetch", "ack"} /\ q.ids \subseteq seen /\ c.m \in Mailbox /\ c.n \in Nonce
    BY <1>0
  <2> DEFINE p == [op |-> q.op, ids |-> q.ids, pc |-> "nonceLive", m |-> c.m, n |-> c.n, at |-> now]
  <2>3. p \in AuthRequest
    BY <1>0, <2>2 DEF AuthRequest
  <2>4. p \in Request
    BY <2>3 DEF Request
  <2> QED
    BY <2>1, <2>2, <2>4 DEF Start, Arrives, Counters
<1>5. CASE GcEnvelopes(r)
  <2>1. [op |-> "gc", pc |-> "gcNonces", at |-> now] \in Request
    BY <1>0 DEF Request, GcRequest
  <2> QED
    BY <1>5, <2>1 DEF GcEnvelopes, Arrives, Counters
<1> QED
  BY <1>1, <1>2, <1>3, <1>4, <1>5

\* The statements that answer, and those that go on.
Final(r, q) ==
    \/ RegisterUpsert(r, q) \/ InsertNonce(r, q) \/ InsertEnvelope(r, q)
    \/ ServeFetch(r, q) \/ ServeAck(r, q) \/ GcMailboxes(r, q)
Inner(r, q) ==
    \/ RegisterCount(r, q) \/ PushPool(r, q) \/ SelectVictim(r, q) \/ DeleteVictim(r, q)
    \/ DeleteVictimNonces(r, q) \/ InsertMailbox(r, q) \/ QueueDepth(r, q) \/ NonceLive(r, q)
    \/ DiscardNonce(r, q) \/ GcNonces(r, q)

LEMMA HandleCases ==
    ASSUME NEW r \in Req, Handle(r)
    PROVE  \/ Register(r) \/ Challenge(r) \/ Push(r) \/ Authenticate(r) \/ GcEnvelopes(r)
           \/ \E q \in req[r] : Final(r, q) \/ Inner(r, q)
BY DEF Handle, Final, Inner

LEMMA FinalStep ==
    ASSUME NEW r \in Req, NEW q \in req[r], Final(r, q)
    PROVE  Answer(r) /\ UNCHANGED now
BY DEF Final, RegisterUpsert, InsertNonce, InsertEnvelope, ServeFetch, ServeAck, GcMailboxes, Counters

LEMMA GotoStep ==
    ASSUME NEW r \in Req, NEW q \in req[r], q \in Request, NEW pc, Goto(r, q, pc),
           \/ q \in RegisterRequest /\ pc \in {"count", "upsert"}
           \/ q \in PushRequest /\ pc \in PushStatements
           \/ q \in EvictRequest /\ pc \in {"deleteVictim", "deleteNonces"}
           \/ q \in AuthRequest /\ pc \in {"nonceLive", "discard", "serve"}
           \/ q \in GcRequest /\ pc \in {"gcNonces", "gcMailboxes"}
    PROVE  GoesOn(r)
<1> DEFINE p == [q EXCEPT !.pc = pc]
<1>1. p \in Request /\ p.at = q.at /\ p.op = q.op /\ (q.op = "ack" => p.ids = q.ids)
  BY GotoType
<1>2. req' = [req EXCEPT ![r] = {p}]
  BY DEF Goto
<1> HIDE DEF p
<1> QED
  BY <1>1, <1>2 DEF GoesOn

LEMMA InnerStep ==
    ASSUME TypeInv, NEW r \in Req, NEW q \in req[r], Inner(r, q)
    PROVE  (Answer(r) \/ GoesOn(r)) /\ UNCHANGED <<now, lastId, lastNonce>>
<1>0. q \in Request /\ mailboxes \in [Mailbox -> SUBSET MailboxRow]
  BY DEF TypeInv, ReqType, TableType
<1>1. CASE RegisterCount(r, q)
  <2>1. q \in RegisterRequest
    BY <1>0, <1>1, RequestShape DEF RegisterCount, At
  <2>2. (Answer(r) \/ \E pc \in {"count", "upsert"} : Goto(r, q, pc)) /\ UNCHANGED Counters
    BY <1>1 DEF RegisterCount
  <2> QED
    BY <1>0, <2>1, <2>2, GotoStep DEF Counters
<1>2. CASE PushPool(r, q)
  <2>1. q \in PushRequest
    BY <1>0, <1>2, RequestShape DEF PushPool, At, PushStatements
  <2>2. (Answer(r) \/ \E pc \in PushStatements : Goto(r, q, pc)) /\ UNCHANGED Counters
    BY <1>2 DEF PushPool, PushStatements
  <2> QED
    BY <1>0, <2>1, <2>2, GotoStep DEF Counters
<1>3. CASE SelectVictim(r, q)
  <2>1. q \in PushRequest
    BY <1>0, <1>3, RequestShape DEF SelectVictim, At, PushStatements
  <2>2. ASSUME NEW m \in Mailbox
        PROVE  /\ [op |-> "push", pc |-> "deleteVictim", m |-> q.m, at |-> q.at, victim |-> m] \in Request
               /\ q.op = "push"
    BY <2>1 DEF PushRequest, Request, EvictRequest
  <2>3. OldestEmpty \subseteq Mailbox
    BY DEF OldestEmpty, EmptyUnregistered, UnregisteredPool
  <2> QED
    BY <1>3, <2>2, <2>3 DEF SelectVictim, GoesOn, Counters
<1>4. CASE DeleteVictim(r, q)
  <2>1. q \in EvictRequest
    BY <1>0, <1>4, RequestShape DEF DeleteVictim, At
  <2>2. (Answer(r) \/ \E pc \in {"deleteVictim", "deleteNonces"} : Goto(r, q, pc)) /\ UNCHANGED Counters
    BY <1>4 DEF DeleteVictim
  <2> QED
    BY <1>0, <2>1, <2>2, GotoStep DEF Counters
<1>5. CASE DeleteVictimNonces(r, q)
  <2>1. q \in EvictRequest
    BY <1>0, <1>5, RequestShape DEF DeleteVictimNonces, At
  <2> DEFINE p == PushAt("insertMailbox", q.m, q.at)
  <2>2. p \in PushRequest /\ p.op = q.op /\ p.op = "push" /\ p.at = q.at
    BY <2>1 DEF EvictRequest, PushAt, PushRequest, PushStatements
  <2>3. req' = [req EXCEPT ![r] = {p}] /\ UNCHANGED Counters
    BY <1>5 DEF DeleteVictimNonces
  <2> HIDE DEF p
  <2> QED
    BY <2>2, <2>3 DEF GoesOn, Request, Counters
<1>6. CASE InsertMailbox(r, q)
  <2>1. q \in PushRequest
    BY <1>0, <1>6, RequestShape DEF InsertMailbox, At, PushStatements
  <2>2. (Answer(r) \/ \E pc \in PushStatements : Goto(r, q, pc)) /\ UNCHANGED Counters
    BY <1>6 DEF InsertMailbox, PushStatements
  <2> QED
    BY <1>0, <2>1, <2>2, GotoStep DEF Counters
<1>7. CASE QueueDepth(r, q)
  <2>1. q \in PushRequest
    BY <1>0, <1>7, RequestShape DEF QueueDepth, At, PushStatements
  <2>2. (Answer(r) \/ \E pc \in PushStatements : Goto(r, q, pc)) /\ UNCHANGED Counters
    BY <1>7 DEF QueueDepth, PushStatements
  <2> QED
    BY <1>0, <2>1, <2>2, GotoStep DEF Counters
<1>8. CASE NonceLive(r, q)
  <2>1. q \in AuthRequest
    BY <1>0, <1>8, RequestShape DEF NonceLive, At
  <2>2. (Answer(r) \/ \E pc \in {"nonceLive", "discard", "serve"} : Goto(r, q, pc)) /\ UNCHANGED Counters
    BY <1>8 DEF NonceLive
  <2> QED
    BY <1>0, <2>1, <2>2, GotoStep DEF Counters
<1>9. CASE DiscardNonce(r, q)
  <2>1. q \in AuthRequest
    BY <1>0, <1>9, RequestShape DEF DiscardNonce, At
  <2>2. (Answer(r) \/ \E pc \in {"nonceLive", "discard", "serve"} : Goto(r, q, pc)) /\ UNCHANGED Counters
    BY <1>9 DEF DiscardNonce
  <2> QED
    BY <1>0, <2>1, <2>2, GotoStep DEF Counters
<1>10. CASE GcNonces(r, q)
  <2>1. q \in GcRequest
    BY <1>0, <1>10, RequestShape DEF GcNonces, At
  <2>2. (Answer(r) \/ \E pc \in {"gcNonces", "gcMailboxes"} : Goto(r, q, pc)) /\ UNCHANGED Counters
    BY <1>10 DEF GcNonces
  <2> QED
    BY <1>0, <2>1, <2>2, GotoStep DEF Counters
<1> QED
  BY <1>1, <1>2, <1>3, <1>4, <1>5, <1>6, <1>7, <1>8, <1>9, <1>10 DEF Inner

LEMMA ReqStep ==
    ASSUME TypeInv, NEW r \in Req, Handle(r)
    PROVE  ReqType' /\ UNCHANGED now
<1>0. ReqType /\ now \in Time
  BY DEF TypeInv, ClientType
<1>1. ASSUME Arrives(r), UNCHANGED now PROVE ReqType'
  <2>1. now <= now
    BY <1>0 DEF Time
  <2> QED
    BY <1>0, <1>1, <2>1, SlotType DEF Arrives
<1>2. ASSUME Answer(r), UNCHANGED now PROVE ReqType'
  BY <1>0, <1>2, SlotType
<1>3. ASSUME GoesOn(r), UNCHANGED now PROVE ReqType'
  <2>1. \A q \in req[r] : q.at <= now
    BY <1>0 DEF ReqType
  <2> QED
    BY <1>0, <1>3, <2>1, SlotType DEF GoesOn
<1> QED
  BY <1>1, <1>2, <1>3, HandleCases, ArrivalStep, FinalStep, InnerStep

\* The ids still to be given out are at least the pushes under way, as are the
\* nonces and the challenges.
LEMMA CountStep ==
    ASSUME TypeInv, NEW r \in Req, Handle(r)
    PROVE  /\ CountInv'
           /\ lastId' \in Nat /\ lastNonce' \in Nat
           /\ lastId' # lastId => lastId' = lastId + 1 /\ lastId' \in Id
           /\ lastNonce' # lastNonce => lastNonce' = lastNonce + 1 /\ lastNonce' \in Nonce
<1>0. /\ ReqType /\ CountInv /\ lastId \in Nat /\ lastNonce \in Nat /\ MaxPushes \in Nat /\ MaxNonces \in Nat
  BY RelayAssumption DEF TypeInv, ClientType
<1>c. \A op : /\ Slots(op) \subseteq Req /\ Cardinality(Slots(op)) \in Nat /\ Cardinality(Req) \in Nat
              /\ Cardinality(Slots(op)) <= Cardinality(Req)
              /\ \A s \in Slots(op) : Cardinality(Slots(op) \ {s}) = Cardinality(Slots(op)) - 1
              /\ \A s : Cardinality(Slots(op) \ {s}) <= Cardinality(Slots(op))
  BY SlotCount DEF Slots
<1>d. \A op : Slots(op)' \subseteq Req /\ Cardinality(Slots(op)') \in Nat /\ Cardinality(Slots(op)') <= Cardinality(Req)
  <2> SUFFICES ASSUME NEW op PROVE Slots(op)' \subseteq Req /\ Cardinality(Slots(op)') \in Nat /\ Cardinality(Slots(op)') <= Cardinality(Req)
    OBVIOUS
  <2>1. Slots(op)' \subseteq Req
    BY DEF Slots
  <2> QED
    BY <2>1, SlotCount
<1>1. ASSUME Arrives(r), UNCHANGED <<lastId, lastNonce>> PROVE CountInv'
  <2>1. PICK p \in Request :
          /\ req[r] = {} /\ req' = [req EXCEPT ![r] = {p}] /\ p.pc # "insert"
          /\ p.op = "push" => lastId < MaxPushes
          /\ p.op = "challenge" => lastNonce < MaxNonces
    BY <1>1 DEF Arrives
  <2>2. \A op : Slots(op)' = IF p.op = op THEN Slots(op) \cup {r} ELSE Slots(op)
    BY <1>0, <2>1, SlotsTaken
  <2>3. lastId + Cardinality(Slots("push")') <= MaxPushes - 1 + Cardinality(Req)
    <3>1. CASE p.op = "push"
      BY <1>0, <1>c, <1>d, <2>1, <3>1
    <3>2. CASE p.op # "push"
      BY <1>0, <2>2, <3>2 DEF CountInv
    <3> QED
      BY <3>1, <3>2
  <2>4. lastNonce + Cardinality(Slots("challenge")') <= MaxNonces - 1 + Cardinality(Req)
    <3>1. CASE p.op = "challenge"
      BY <1>0, <1>c, <1>d, <2>1, <3>1
    <3>2. CASE p.op # "challenge"
      BY <1>0, <2>2, <3>2 DEF CountInv
    <3> QED
      BY <3>1, <3>2
  <2> QED
    BY <1>1, <2>3, <2>4 DEF CountInv
<1>2. ASSUME Answer(r) PROVE \A op : Slots(op)' = Slots(op) \ {r}
  BY <1>0, <1>2, SlotsAnswered
<1>3. ASSUME Answer(r), UNCHANGED <<lastId, lastNonce>> PROVE CountInv'
  <2>1. \A op : Cardinality(Slots(op)') <= Cardinality(Slots(op))
    BY <1>2, <1>3, <1>c
  <2> QED
    BY <1>0, <1>3, <1>c, <1>d, <2>1 DEF CountInv
<1>4. ASSUME GoesOn(r), UNCHANGED <<lastId, lastNonce>> PROVE CountInv'
  <2>1. \A op : Slots(op)' = Slots(op)
    BY <1>0, <1>4, SlotsGo DEF GoesOn
  <2> QED
    BY <1>0, <1>4, <2>1 DEF CountInv
<1>5. ASSUME NEW q \in req[r], InsertNonce(r, q)
      PROVE  CountInv' /\ lastNonce' = lastNonce + 1 /\ lastNonce' \in Nonce /\ lastId' = lastId
  <2>1. q \in ChallengeRequest
    BY <1>0, <1>5, RequestShape DEF InsertNonce, At, ReqType
  <2>2. r \in Slots("challenge")
    BY <2>1 DEF ChallengeRequest, Slots
  <2>3. Answer(r) /\ lastNonce' = lastNonce + 1 /\ lastId' = lastId
    BY <1>5 DEF InsertNonce
  <2>4. /\ Cardinality(Slots("challenge")') = Cardinality(Slots("challenge")) - 1
        /\ Cardinality(Slots("push")') <= Cardinality(Slots("push"))
    BY <1>2, <1>c, <2>2, <2>3
  <2>5. CountInv'
    BY <1>0, <1>c, <1>d, <2>3, <2>4 DEF CountInv
  <2> QED
    BY <1>0, <1>c, <1>d, <2>3, <2>5 DEF CountInv, Nonce
<1>6. ASSUME NEW q \in req[r], InsertEnvelope(r, q)
      PROVE  CountInv' /\ lastId' = lastId + 1 /\ lastId' \in Id /\ lastNonce' = lastNonce
  <2>1. q \in PushRequest
    BY <1>0, <1>6, RequestShape DEF InsertEnvelope, At, ReqType, PushStatements
  <2>2. r \in Slots("push")
    BY <2>1 DEF PushRequest, Slots
  <2>3. Answer(r) /\ lastId' = lastId + 1 /\ lastNonce' = lastNonce
    BY <1>6 DEF InsertEnvelope
  <2>4. /\ Cardinality(Slots("push")') = Cardinality(Slots("push")) - 1
        /\ Cardinality(Slots("challenge")') <= Cardinality(Slots("challenge"))
    BY <1>2, <1>c, <2>2, <2>3
  <2>5. CountInv'
    BY <1>0, <1>c, <1>d, <2>3, <2>4 DEF CountInv
  <2> QED
    BY <1>0, <1>c, <1>d, <2>3, <2>5 DEF CountInv, Id
<1>7. ASSUME NEW q \in req[r], RegisterUpsert(r, q) \/ ServeFetch(r, q) \/ ServeAck(r, q) \/ GcMailboxes(r, q)
      PROVE  Answer(r) /\ UNCHANGED <<lastId, lastNonce>>
  BY <1>7 DEF RegisterUpsert, ServeFetch, ServeAck, GcMailboxes, Counters
<1>8. CASE Arrives(r) /\ UNCHANGED <<lastId, lastNonce>>
  BY <1>0, <1>1, <1>8
<1>9. CASE (Answer(r) \/ GoesOn(r)) /\ UNCHANGED <<lastId, lastNonce>>
  BY <1>0, <1>3, <1>4, <1>9
<1>10. CASE \E q \in req[r] : InsertNonce(r, q) \/ InsertEnvelope(r, q)
  BY <1>0, <1>5, <1>6, <1>10
<1>11. CASE \E q \in req[r] : Final(r, q)
  BY <1>7, <1>9, <1>10, <1>11 DEF Final
<1> QED
  BY <1>8, <1>9, <1>11, HandleCases, ArrivalStep, InnerStep
\* A request's arrival time and mailbox are of their types.
LEMMA RowOf ==
    ASSUME ReqType, now \in Time, NEW r \in Req, NEW q \in req[r]
    PROVE  /\ q \in Request /\ q.at \in Time /\ q.at <= now
           /\ q \notin GcRequest => q.m \in Mailbox
           /\ q.pc \in {"count", "upsert"} => q.who \in Ident
           /\ q.pc \in {"deleteVictim", "deleteNonces"} => q.victim \in Mailbox
<1>1. q \in Request /\ q.at <= now
  BY DEF ReqType
<1>2. q \notin GcRequest => q.m \in Mailbox
  BY <1>1 DEF Request, RegisterRequest, ChallengeRequest, PushRequest, EvictRequest, AuthRequest
<1> QED
  BY <1>1, <1>2, RequestShape DEF RegisterRequest, EvictRequest

\* The mailboxes change by a row that is added to none, replaced or removed.
LEMMA MailboxStep ==
    ASSUME TypeInv, NEW r \in Req, Handle(r)
    PROVE  /\ mailboxes' \in [Mailbox -> SUBSET MailboxRow]
           /\ \A m \in Mailbox : \A x, y \in mailboxes'[m] : x = y
<1> DEFINE Good(t) == t \in [Mailbox -> SUBSET MailboxRow] /\ \A m \in Mailbox : \A x, y \in t[m] : x = y
<1>0. Good(mailboxes) /\ ReqType /\ now \in Time
  BY DEF TypeInv, TableType, ClientType
<1>1. ASSUME NEW q \in req[r], RegisterUpsert(r, q) PROVE Good(mailboxes')
  <2>1. q.m \in Mailbox /\ q.who \in Ident /\ q.at \in Time
    BY <1>0, <1>1, RowOf DEF RegisterUpsert, At, GcRequest
  <2>2. \A m \in Mailbox : mailboxes[m] # {} => (CHOOSE row \in mailboxes[m] : TRUE) \in MailboxRow
    BY <1>0
  <2>3. \A row \in MailboxRow : row.at \in Time
    BY DEF MailboxRow
  <2> DEFINE at == IF mailboxes[q.m] = {} THEN q.at ELSE (CHOOSE row \in mailboxes[q.m] : TRUE).at
  <2>4. at \in Time
    BY <2>1, <2>2, <2>3
  <2>5. mailboxes' = mailboxes \/ mailboxes' = [mailboxes EXCEPT ![q.m] = {[owner |-> q.who, at |-> at]}]
    BY <1>1 DEF RegisterUpsert
  <2> HIDE DEF at
  <2>6. [owner |-> q.who, at |-> at] \in MailboxRow
    BY <2>1, <2>4 DEF MailboxRow
  <2> QED
    BY <1>0, <2>1, <2>5, <2>6
<1>2. ASSUME NEW q \in req[r], InsertMailbox(r, q) PROVE Good(mailboxes')
  <2>1. q.m \in Mailbox /\ q.at \in Time
    BY <1>0, <1>2, RowOf DEF InsertMailbox, At, GcRequest
  <2>2. [owner |-> NULL, at |-> q.at] \in MailboxRow
    BY <2>1 DEF MailboxRow
  <2>3. mailboxes' = mailboxes \/ mailboxes' = [mailboxes EXCEPT ![q.m] = {[owner |-> NULL, at |-> q.at]}]
    BY <1>2 DEF InsertMailbox
  <2> QED
    BY <1>0, <2>1, <2>2, <2>3
<1>3. ASSUME NEW q \in req[r], DeleteVictim(r, q) PROVE Good(mailboxes')
  BY <1>0, <1>3 DEF DeleteVictim
<1>4. ASSUME NEW q \in req[r], GcMailboxes(r, q) PROVE Good(mailboxes')
  <2>1. \A m \in Mailbox : mailboxes'[m] \in {mailboxes[m], {}}
    BY <1>4 DEF GcMailboxes
  <2>2. \A m \in Mailbox : mailboxes'[m] \in SUBSET MailboxRow
    BY <1>0, <2>1
  <2>3. mailboxes' = [m \in Mailbox |-> mailboxes'[m]]
    BY <1>4 DEF GcMailboxes
  <2> QED
    BY <1>0, <2>1, <2>2, <2>3
<1>5. ASSUME UNCHANGED mailboxes PROVE Good(mailboxes')
  BY <1>0, <1>5
<1>6. Register(r) \/ Challenge(r) \/ Push(r) \/ Authenticate(r) \/ GcEnvelopes(r) => UNCHANGED mailboxes
  BY DEF Register, Challenge, Push, Authenticate, GcEnvelopes, Start, Tables
<1>7. ASSUME NEW q \in req[r], Final(r, q) \/ Inner(r, q) PROVE Good(mailboxes')
  <2>1. CASE RegisterUpsert(r, q) \/ InsertMailbox(r, q) \/ DeleteVictim(r, q) \/ GcMailboxes(r, q)
    BY <1>1, <1>2, <1>3, <1>4, <2>1
  <2>2. CASE ~(RegisterUpsert(r, q) \/ InsertMailbox(r, q) \/ DeleteVictim(r, q) \/ GcMailboxes(r, q))
    <3>1. UNCHANGED mailboxes
      BY <1>7, <2>2 DEF Final, Inner, InsertNonce, InsertEnvelope, ServeFetch, ServeAck, RegisterCount, PushPool,
           SelectVictim, DeleteVictimNonces, QueueDepth, NonceLive, DiscardNonce, GcNonces, Tables
    <3> QED
      BY <1>5, <3>1
  <2> QED
    BY <2>1, <2>2
<1> HIDE DEF Good
<1>8. Good(mailboxes')
  BY <1>5, <1>6, <1>7, HandleCases
<1> QED
  BY <1>8 DEF Good

\* The envelopes grow by one row with a fresh id, or shrink.
LEMMA EnvelopeStep ==
    ASSUME TypeInv, NEW r \in Req, Handle(r)
    PROVE  /\ envelopes' \subseteq EnvelopeRow /\ IsFiniteSet(envelopes')
           /\ nonces' \subseteq NonceRow
<1>0. /\ envelopes \subseteq EnvelopeRow /\ IsFiniteSet(envelopes) /\ nonces \subseteq NonceRow
      /\ ReqType /\ now \in Time
  BY DEF TypeInv, TableType, ClientType
<1>1. ASSUME envelopes' \subseteq envelopes PROVE envelopes' \subseteq EnvelopeRow /\ IsFiniteSet(envelopes')
  BY <1>0, <1>1, FS_Subset
<1>2. ASSUME NEW q \in req[r], InsertEnvelope(r, q)
      PROVE  envelopes' \subseteq EnvelopeRow /\ IsFiniteSet(envelopes') /\ UNCHANGED nonces
  <2>1. q.m \in Mailbox /\ q.at \in Time
    BY <1>0, <1>2, RowOf DEF InsertEnvelope, At, GcRequest
  <2>2. lastId' \in Id
    BY <1>2, CountStep DEF InsertEnvelope, TypeInv, ClientType
  <2>3. [id |-> lastId', m |-> q.m, at |-> q.at] \in EnvelopeRow
    BY <2>1, <2>2 DEF EnvelopeRow
  <2> QED
    BY <1>0, <1>2, <2>3, FS_AddElement DEF InsertEnvelope
<1>3. ASSUME NEW q \in req[r], InsertNonce(r, q) PROVE nonces' \subseteq NonceRow /\ UNCHANGED envelopes
  <2>1. q.m \in Mailbox /\ q.at \in Time
    BY <1>0, <1>3, RowOf DEF InsertNonce, At, GcRequest
  <2>2. lastNonce' \in Nonce
    BY <1>3, CountStep DEF InsertNonce, TypeInv, ClientType
  <2>3. q.at + NonceTTL \in 0 .. MaxTime + NonceTTL
    BY <2>1, RelayAssumption DEF Time
  <2>4. [m |-> q.m, n |-> lastNonce', exp |-> q.at + NonceTTL] \in NonceRow
    BY <2>1, <2>2, <2>3 DEF NonceRow
  <2> QED
    BY <1>0, <1>3, <2>4 DEF InsertNonce
<1>4. Register(r) \/ Challenge(r) \/ Push(r) \/ Authenticate(r) \/ GcEnvelopes(r) =>
        envelopes' \subseteq envelopes /\ nonces' \subseteq nonces
  BY DEF Register, Challenge, Push, Authenticate, GcEnvelopes, Start, Tables
<1>5. ASSUME NEW q \in req[r], Final(r, q) \/ Inner(r, q), ~InsertNonce(r, q), ~InsertEnvelope(r, q)
      PROVE  envelopes' \subseteq envelopes /\ nonces' \subseteq nonces
  BY <1>5 DEF Final, Inner, ServeFetch, ServeAck, RegisterCount, RegisterUpsert, PushPool, SelectVictim,
       DeleteVictim, DeleteVictimNonces, InsertMailbox, QueueDepth, NonceLive, DiscardNonce, GcNonces, GcMailboxes, Tables
<1> QED
  BY <1>0, <1>1, <1>2, <1>3, <1>4, <1>5, HandleCases

\* Clients know nonces they were issued and ids of envelopes.
LEMMA ClientStep ==
    ASSUME TypeInv, NEW r \in Req, Handle(r)
    PROVE  ClientType'
<1>0. /\ issued \subseteq [m : Mailbox, n : Nonce] /\ seen \subseteq Id /\ ReqType /\ now \in Time
      /\ envelopes \subseteq EnvelopeRow /\ lastNonce \in Nat
  BY DEF TypeInv, TableType, ClientType
<1>1. lastId' \in Nat /\ lastNonce' \in Nat /\ now' \in Time
  BY <1>0, CountStep, ReqStep
<1>2. ASSUME NEW q \in req[r], InsertNonce(r, q)
      PROVE  issued' \subseteq [m : Mailbox, n : Nonce] /\ UNCHANGED seen
  <2>1. q.m \in Mailbox
    BY <1>0, <1>2, RowOf DEF InsertNonce, At, GcRequest
  <2>2. lastNonce' \in Nonce
    BY <1>0, <1>2, CountStep DEF InsertNonce
  <2> QED
    BY <1>0, <1>2, <2>1, <2>2 DEF InsertNonce
<1>3. ASSUME NEW q \in req[r], ServeFetch(r, q)
      PROVE  seen' \subseteq Id /\ UNCHANGED issued
  BY <1>0, <1>3 DEF ServeFetch, Queue, EnvelopeRow
<1>4. Register(r) \/ Challenge(r) \/ Push(r) \/ Authenticate(r) \/ GcEnvelopes(r) => UNCHANGED Client
  BY DEF Register, Challenge, Push, Authenticate, GcEnvelopes, Start, Client
<1>5. ASSUME NEW q \in req[r], Final(r, q) \/ Inner(r, q), ~InsertNonce(r, q), ~ServeFetch(r, q)
      PROVE  UNCHANGED Client
  BY <1>5 DEF Final, Inner, InsertEnvelope, ServeAck, RegisterCount, RegisterUpsert, PushPool, SelectVictim,
       DeleteVictim, DeleteVictimNonces, InsertMailbox, QueueDepth, NonceLive, DiscardNonce, GcNonces, GcMailboxes, Client
<1>6. issued' \subseteq [m : Mailbox, n : Nonce] /\ seen' \subseteq Id
  BY <1>0, <1>2, <1>3, <1>4, <1>5, HandleCases DEF Client
<1> QED
  BY <1>1, <1>6 DEF ClientType

-----------------------------------------------------------------------------
(* The invariant of every behaviour. *)

LEMMA TypeInit == Init => TypeInv
<1> SUFFICES ASSUME Init PROVE TypeInv
  OBVIOUS
<1>1. TableType
  BY FS_EmptySet DEF Init, TableType
<1>2. ReqType
  BY DEF Init, ReqType
<1>3. ClientType
  BY RelayAssumption DEF Init, ClientType, Time
<1>4. Slots("push") = {} /\ Slots("challenge") = {}
  BY DEF Init, Slots
<1>5. Cardinality(Req) \in Nat /\ Cardinality(Req) >= 1
  BY RelayAssumption, SlotCount
<1>6. CountInv
  <2>1. Cardinality(Slots("push")) = 0 /\ Cardinality(Slots("challenge")) = 0
    BY <1>4, FS_EmptySet
  <2> QED
    BY <1>5, <2>1, RelayAssumption DEF Init, CountInv
<1> QED
  BY <1>1, <1>2, <1>3, <1>6 DEF TypeInv

LEMMA TickStep ==
    ASSUME TypeInv, Tick
    PROVE  TypeInv'
<1>1. TableType'
  BY DEF Tick, TypeInv, TableType, Tables
<1>2. ReqType'
  BY RelayAssumption, SlotType DEF Tick, TypeInv, ClientType
<1>3. ClientType'
  BY RelayAssumption DEF Tick, TypeInv, ClientType, Client, Time
<1>4. CountInv'
  BY DEF Tick, TypeInv, CountInv, Slots
<1> QED
  BY <1>1, <1>2, <1>3, <1>4 DEF TypeInv

LEMMA TypeNext == TypeInv /\ [Next]_vars => TypeInv'
<1> SUFFICES ASSUME TypeInv, [Next]_vars PROVE TypeInv'
  OBVIOUS
<1>1. ASSUME NEW r \in Req, Handle(r) PROVE TypeInv'
  <2>1. TableType'
    BY <1>1, MailboxStep, EnvelopeStep DEF TableType
  <2> QED
    BY <1>1, <2>1, ReqStep, CountStep, ClientStep DEF TypeInv
<1>2. CASE UNCHANGED vars
  BY <1>2 DEF vars, TypeInv, TableType, ReqType, ClientType, CountInv, Slots
<1> QED
  BY <1>1, <1>2, TickStep DEF Next

LEMMA TypeAlways == Spec => []TypeInv
BY TypeInit, TypeNext, PTL DEF Spec

\* The tables hold rows of their types, a mailbox has at most one, ids and nonces
\* stay within what the bounds and the slots allow, and a slot runs at most one
\* request, which arrived in the past (Store and the router of the relay).
THEOREM TypeCorrect == Spec => []TypeOK
<1>1. ASSUME TypeInv PROVE TypeOK
  <2>0. /\ TableType /\ ReqType /\ ClientType /\ CountInv
        /\ Cardinality(Req) \in Nat /\ Cardinality(Slots("push")) \in Nat /\ Cardinality(Slots("challenge")) \in Nat
        /\ Slots("push") \subseteq Req /\ Slots("challenge") \subseteq Req
    BY <1>1, SlotCount DEF TypeInv, Slots
  <2>1. \A m \in Mailbox : mailboxes[m] = {} \/ \E row \in MailboxRow : mailboxes[m] = {row}
    <3> SUFFICES ASSUME NEW m \in Mailbox, NEW row \in mailboxes[m] PROVE \E x \in MailboxRow : mailboxes[m] = {x}
      OBVIOUS
    <3> QED
      BY <2>0 DEF TableType
  <2>2. \A r \in Req : \A q \in req[r] : req[r] = {q} /\ q.pc \in Statements /\ q.at <= now
    BY <2>0, RequestShape DEF ReqType
  <2>3. lastId \in {0} \cup Id
    BY <2>0, RelayAssumption DEF ClientType, CountInv, Id
  <2>4. lastNonce \in {0} \cup Nonce
    BY <2>0, RelayAssumption DEF ClientType, CountInv, Nonce
  <2> QED
    BY <2>0, <2>1, <2>2, <2>3, <2>4 DEF TypeOK, TableType, ClientType
<1> QED
  BY <1>1, TypeAlways, PTL

-----------------------------------------------------------------------------
(* The queue cap. *)

\* A mailbox's queue is finite.
LEMMA QueueCount ==
    ASSUME IsFiniteSet(envelopes), NEW m
    PROVE  IsFiniteSet(Queue(m)) /\ Cardinality(Queue(m)) \in Nat
<1>1. Queue(m) \subseteq envelopes
  BY DEF Queue
<1> QED
  BY <1>1, FS_Subset, FS_CardinalityType

WithinCap(m) == Cardinality(Queue(m)) + Cardinality(Admitted(m)) <= MaxQueueDepth - 1 + Cardinality(Req)

\* A step that lets nothing in keeps the queue within its cap.
LEMMA NothingLetIn ==
    ASSUME TypeInv, NEW m \in Mailbox, WithinCap(m),
           envelopes' \subseteq envelopes, Admitted(m)' \subseteq Admitted(m)
    PROVE  WithinCap(m)'
<1>1. IsFiniteSet(envelopes) /\ IsFiniteSet(Queue(m)) /\ Cardinality(Queue(m)) \in Nat
  BY QueueCount DEF TypeInv, TableType
<1>2. Queue(m)' \subseteq Queue(m)
  BY DEF Queue
<1>3. Cardinality(Queue(m)') \in Nat /\ Cardinality(Queue(m)') <= Cardinality(Queue(m))
  BY <1>1, <1>2, FS_Subset, FS_CardinalityType
<1>4. /\ IsFiniteSet(Admitted(m)) /\ Cardinality(Admitted(m)) \in Nat /\ Cardinality(Req) \in Nat
  BY SlotCount DEF Admitted
<1>5. Cardinality(Admitted(m)') \in Nat /\ Cardinality(Admitted(m)') <= Cardinality(Admitted(m))
  BY <1>4, FS_Subset, FS_CardinalityType
<1> QED
  BY <1>1, <1>3, <1>4, <1>5, RelayAssumption DEF WithinCap

\* The depth check admits below the cap, whatever the other slots have admitted.
LEMMA AdmissionStep ==
    ASSUME TypeInv, NEW r \in Req, NEW q \in req[r], QueueDepth(r, q), NEW m \in Mailbox, WithinCap(m)
    PROVE  WithinCap(m)'
<1>0. ReqType /\ req \in [Req -> SUBSET Request] /\ UNCHANGED envelopes /\ q \in PushRequest
  BY RequestShape DEF TypeInv, ReqType, QueueDepth, At, PushStatements, Tables
<1>1. CASE Answer(r)
  BY <1>0, <1>1, SlotsAnswered, NothingLetIn
<1>2. CASE Cardinality(Queue(q.m)) < MaxQueueDepth /\ Goto(r, q, "insert")
  <2> DEFINE p == [q EXCEPT !.pc = "insert"]
  <2>1. p.op = q.op /\ p.m = q.m /\ req' = [req EXCEPT ![r] = {p}]
    BY <1>0, <1>2 DEF PushRequest, Goto
  <2> HIDE DEF p
  <2>2. CASE q.m # m
    <3>1. Admitted(m)' \subseteq Admitted(m)
      BY <1>0, <2>1, <2>2, SlotsGo
    <3> QED
      BY <1>0, <3>1, NothingLetIn
  <2>3. CASE q.m = m
    <3>1. Queue(m)' = Queue(m)
      BY <1>0 DEF Queue
    <3>2. Cardinality(Queue(m)) \in Nat
      BY QueueCount DEF TypeInv, TableType
    <3>3. Admitted(m)' \subseteq Req
      BY DEF Admitted
    <3>4. Cardinality(Admitted(m)') \in Nat /\ Cardinality(Req) \in Nat
          /\ Cardinality(Admitted(m)') <= Cardinality(Req)
      BY <3>3, SlotCount
    <3> QED
      BY <1>2, <2>3, <3>1, <3>2, <3>4, RelayAssumption DEF WithinCap
  <2> QED
    BY <2>2, <2>3
<1>3. Cardinality(Queue(q.m)) \in Nat
  BY QueueCount DEF TypeInv, TableType
<1> QED
  BY <1>1, <1>2, <1>3, RelayAssumption DEF QueueDepth

\* An insertion takes the place its slot was admitted to.
LEMMA InsertionStep ==
    ASSUME TypeInv, NEW r \in Req, NEW q \in req[r], InsertEnvelope(r, q), NEW m \in Mailbox, WithinCap(m)
    PROVE  WithinCap(m)'
<1>0. ReqType /\ Answer(r) /\ IsFiniteSet(envelopes)
  BY DEF TypeInv, TableType, InsertEnvelope
<1>1. Admitted(m)' = Admitted(m) \ {r}
  BY <1>0, SlotsAnswered
<1>2. /\ Cardinality(Admitted(m)) \in Nat /\ Cardinality(Req) \in Nat
      /\ Cardinality(Admitted(m)') <= Cardinality(Admitted(m))
      /\ r \in Admitted(m) => Cardinality(Admitted(m)') = Cardinality(Admitted(m)) - 1
  BY <1>1, SlotCount DEF Admitted
<1>3. Cardinality(Admitted(m)') \in Nat
  BY <1>1, SlotCount DEF Admitted
<1>4. IsFiniteSet(Queue(m)) /\ Cardinality(Queue(m)) \in Nat
  BY <1>0, QueueCount
<1>5. CASE q.m # m
  <2>1. Queue(m)' = Queue(m)
    BY <1>5 DEF Queue, InsertEnvelope
  <2> QED
    BY <1>2, <1>3, <1>4, <2>1, RelayAssumption DEF WithinCap
<1>6. CASE q.m = m
  <2> DEFINE e == [id |-> lastId', m |-> m, at |-> q.at]
  <2>1. Queue(m)' = Queue(m) \cup {e}
    <3>1. envelopes' = envelopes \cup {e} /\ e.m = m
      BY <1>6 DEF InsertEnvelope
    <3> HIDE DEF e
    <3> QED
      BY <3>1 DEF Queue
  <2> HIDE DEF e
  <2>2. Cardinality(Queue(m)') \in Nat /\ Cardinality(Queue(m)') <= Cardinality(Queue(m)) + 1
    <3>1. IsFiniteSet(Queue(m)') /\ Cardinality(Queue(m)') \in {Cardinality(Queue(m)), Cardinality(Queue(m)) + 1}
      BY <1>4, <2>1, FS_AddElement
    <3> QED
      BY <1>4, <3>1
  <2>3. r \in Admitted(m)
    BY <1>6 DEF Admitted, InsertEnvelope, At
  <2> QED
    BY <1>2, <1>3, <1>4, <2>2, <2>3, RelayAssumption DEF WithinCap
<1> QED
  BY <1>5, <1>6

\* Every other step lets nothing in.
LEMMA QueueStep ==
    ASSUME TypeInv, NEW r \in Req, Handle(r), NEW m \in Mailbox, WithinCap(m)
    PROVE  WithinCap(m)'
<1>0. ReqType
  BY DEF TypeInv
<1>1. ASSUME Register(r) \/ Challenge(r) \/ Push(r) \/ Authenticate(r) \/ GcEnvelopes(r) PROVE WithinCap(m)'
  <2>1. Admitted(m)' \subseteq Admitted(m)
    BY <1>0, <1>1, ArrivalStep, SlotsTaken DEF Arrives
  <2>2. envelopes' \subseteq envelopes
    BY <1>1 DEF Register, Challenge, Push, Authenticate, GcEnvelopes, Start, Tables
  <2> QED
    BY <2>1, <2>2, NothingLetIn
<1>2. ASSUME NEW q \in req[r], Final(r, q), ~InsertEnvelope(r, q) PROVE WithinCap(m)'
  <2>1. Admitted(m)' \subseteq Admitted(m)
    BY <1>0, <1>2, FinalStep, SlotsAnswered
  <2>2. envelopes' \subseteq envelopes
    BY <1>2 DEF Final, RegisterUpsert, InsertNonce, ServeFetch, ServeAck, GcMailboxes, Tables
  <2> QED
    BY <2>1, <2>2, NothingLetIn
<1>3. ASSUME NEW q \in req[r], Inner(r, q), ~QueueDepth(r, q) PROVE WithinCap(m)'
  <2>1. UNCHANGED envelopes
    BY <1>3 DEF Inner, RegisterCount, PushPool, SelectVictim, DeleteVictim, DeleteVictimNonces, InsertMailbox,
         NonceLive, DiscardNonce, GcNonces, Tables
  <2>2. Answer(r) \/ \E p : p.op = q.op /\ p.pc # "insert" /\ req' = [req EXCEPT ![r] = {p}]
    <3>0. q \in Request
      BY <1>0 DEF ReqType
    <3>1. \A pc \in Statements \ {"insert"} : Goto(r, q, pc) =>
            \E p : p.op = q.op /\ p.pc # "insert" /\ req' = [req EXCEPT ![r] = {p}]
      <4> SUFFICES ASSUME NEW pc \in Statements \ {"insert"}, Goto(r, q, pc)
                   PROVE  \E p : p.op = q.op /\ p.pc # "insert" /\ req' = [req EXCEPT ![r] = {p}]
        OBVIOUS
      <4>1. [q EXCEPT !.pc = pc].op = q.op /\ [q EXCEPT !.pc = pc].pc = pc
        BY <3>0 DEF Request, RegisterRequest, ChallengeRequest, PushRequest, EvictRequest, AuthRequest, GcRequest
      <4> QED
        BY <4>1 DEF Goto
    <3>2. CASE SelectVictim(r, q)
      <4>1. q \in PushRequest
        BY <3>0, <3>2, RequestShape DEF SelectVictim, At, PushStatements
      <4> QED
        BY <3>2, <4>1 DEF SelectVictim, PushRequest
    <3>3. CASE DeleteVictimNonces(r, q)
      <4>1. q \in EvictRequest
        BY <3>0, <3>3, RequestShape DEF DeleteVictimNonces, At
      <4> QED
        BY <3>3, <4>1 DEF DeleteVictimNonces, EvictRequest, PushAt
    <3> QED
      BY <1>3, <3>1, <3>2, <3>3 DEF Inner, RegisterCount, PushPool, DeleteVictim, InsertMailbox,
         NonceLive, DiscardNonce, GcNonces, Statements
  <2>3. Admitted(m)' \subseteq Admitted(m)
    BY <1>0, <2>2, SlotsAnswered, SlotsGo
  <2> QED
    BY <2>1, <2>3, NothingLetIn
<1> QED
  BY <1>1, <1>2, <1>3, AdmissionStep, InsertionStep, HandleCases

\* A queue passes its cap by less than the number of requests that run at once
\* (Store.push reads the depth and inserts in two statements).
THEOREM QueueWithinBound == Spec => []QueueBounded
<1> DEFINE Bounded == \A m \in Mailbox : WithinCap(m)
<1>1. Init => Bounded
  <2> SUFFICES ASSUME Init, NEW m \in Mailbox PROVE WithinCap(m)
    OBVIOUS
  <2>1. Queue(m) = {} /\ Admitted(m) = {}
    BY DEF Init, Queue, Admitted
  <2>2. Cardinality(Queue(m)) = 0 /\ Cardinality(Admitted(m)) = 0
    BY <2>1, FS_EmptySet
  <2>3. Cardinality(Req) \in Nat /\ Cardinality(Req) >= 1
    BY RelayAssumption, SlotCount
  <2> QED
    BY <2>2, <2>3, RelayAssumption DEF WithinCap
<1>2. TypeInv /\ Bounded /\ [Next]_vars => Bounded'
  <2> SUFFICES ASSUME TypeInv, [Next]_vars, NEW m \in Mailbox, WithinCap(m) PROVE WithinCap(m)'
    OBVIOUS
  <2>1. CASE Tick \/ UNCHANGED vars
    BY <2>1 DEF Tick, vars, Tables, WithinCap, Queue, Admitted
  <2> QED
    BY <2>1, QueueStep DEF Next
<1>3. Bounded => QueueBounded
  BY DEF QueueBounded, WithinCap, Admitted
<1> HIDE DEF Bounded
<1> QED
  BY <1>1, <1>2, <1>3, TypeAlways, PTL DEF Spec

-----------------------------------------------------------------------------
(* Registrations. *)

\* First-write-wins: whatever the requests that race, as long as a registered
\* mailbox is there it keeps its owner and its age; the only statement that
\* touches its row at all is the DELETE of a push that chose it as its victim.
THEOREM OwnersKept == Spec => OwnerNeverReplaced
<1>1. ASSUME TypeInv, NEW r \in Req, Handle(r), NEW m \in Mailbox, Registered(m), mailboxes'[m] # {}
      PROVE  mailboxes'[m] = mailboxes[m]
  <2>0. ReqType /\ mailboxes \in [Mailbox -> SUBSET MailboxRow]
    BY <1>1 DEF TypeInv, TableType
  <2>1. CASE Register(r) \/ Challenge(r) \/ Push(r) \/ Authenticate(r) \/ GcEnvelopes(r)
    BY <2>1 DEF Register, Challenge, Push, Authenticate, GcEnvelopes, Start, Tables
  <2>2. ASSUME NEW q \in req[r], Final(r, q) \/ Inner(r, q)
        PROVE  mailboxes'[m] = mailboxes[m]
    <3>1. CASE RegisterUpsert(r, q)
      BY <1>1, <2>0, <3>1 DEF RegisterUpsert
    <3>2. CASE InsertMailbox(r, q)
      BY <1>1, <2>0, <3>2 DEF InsertMailbox, Registered
    <3>3. CASE GcMailboxes(r, q)
      BY <1>1, <3>3 DEF GcMailboxes, EmptyUnregistered, UnregisteredPool
    <3>4. CASE DeleteVictim(r, q)
      BY <1>1, <2>0, <3>4 DEF DeleteVictim
    <3>5. CASE UNCHANGED mailboxes
      BY <3>5
    <3> QED
      BY <2>2, <3>1, <3>2, <3>3, <3>4, <3>5
      DEF Final, Inner, ServeAck, InsertNonce, InsertEnvelope, ServeFetch, RegisterCount,
          PushPool, SelectVictim, DeleteVictimNonces, QueueDepth, NonceLive, DiscardNonce,
          GcNonces, Tables
  <2> QED
    BY <1>1, <2>1, <2>2, HandleCases
<1> DEFINE Kept == \A m \in Mailbox : Registered(m) /\ mailboxes'[m] # {}
                                       => mailboxes'[m] = mailboxes[m]
<1>2. TypeInv /\ [Next]_vars => [Kept]_vars
  <2>1. ASSUME TypeInv, Next, NEW m \in Mailbox, Registered(m), mailboxes'[m] # {}
        PROVE  mailboxes'[m] = mailboxes[m]
    <3>1. Tick => mailboxes'[m] = mailboxes[m]
      BY DEF Tick, Tables
    <3> QED
      BY <1>1, <2>1, <3>1 DEF Next
  <2> QED
    BY <2>1
<1> QED
  BY <1>2, TypeAlways, PTL DEF Spec, OwnerNeverReplaced

-----------------------------------------------------------------------------
(* Store-and-forward. *)

\* Ids grow: those stored and those handed out have been given; an
\* acknowledgement names ids that were handed out.
History ==
    /\ \A e \in envelopes : e.id <= lastId
    /\ \A i \in seen : i <= lastId
    /\ \A r \in Req : \A q \in req[r] : q.op = "ack" => q.ids \subseteq seen

LEMMA HistoryStep ==
    ASSUME TypeInv, History, NEW r \in Req, Handle(r)
    PROVE  History'
<1>0. /\ ReqType /\ req \in [Req -> SUBSET Request] /\ lastId \in Nat /\ lastId' \in Nat /\ lastId <= lastId'
      /\ envelopes \subseteq EnvelopeRow /\ seen \subseteq Id /\ Id \subseteq Nat
      /\ MaxPushes + Cardinality(Req) \in Nat
  <2>1. MaxPushes + Cardinality(Req) \in Nat
    BY SlotCount, RelayAssumption
  <2> QED
    BY <2>1, CountStep DEF TypeInv, TableType, ReqType, ClientType, Id
<1>1. seen \subseteq seen' /\ \A i \in seen' : i \in seen \/ \E e \in envelopes : e.id = i
  <2>1. ASSUME NEW q \in req[r], ServeFetch(r, q)
        PROVE  seen \subseteq seen' /\ \A i \in seen' : i \in seen \/ \E e \in envelopes : e.id = i
    BY <2>1 DEF ServeFetch, Queue
  <2>2. ASSUME NEW q \in req[r], Final(r, q) \/ Inner(r, q), ~ServeFetch(r, q) PROVE UNCHANGED seen
    BY <2>2 DEF Final, Inner, InsertNonce, InsertEnvelope, ServeAck, RegisterCount, RegisterUpsert, PushPool, SelectVictim,
       DeleteVictim, DeleteVictimNonces, InsertMailbox, QueueDepth, NonceLive, DiscardNonce, GcNonces, GcMailboxes, Client
  <2>3. Register(r) \/ Challenge(r) \/ Push(r) \/ Authenticate(r) \/ GcEnvelopes(r) => UNCHANGED seen
    BY DEF Register, Challenge, Push, Authenticate, GcEnvelopes, Start, Client
  <2> QED
    BY <2>1, <2>2, <2>3, HandleCases
<1>2. \A i \in seen' : i <= lastId'
  BY <1>0, <1>1 DEF History, EnvelopeRow
<1>3. \A e \in envelopes' : e.id <= lastId'
  <2>1. \A e \in envelopes' : e \in envelopes \/ e.id = lastId'
    <3>1. ASSUME NEW q \in req[r], InsertEnvelope(r, q) PROVE \A e \in envelopes' : e \in envelopes \/ e.id = lastId'
      BY <3>1 DEF InsertEnvelope
    <3>2. ASSUME NEW q \in req[r], Final(r, q) \/ Inner(r, q), ~InsertEnvelope(r, q) PROVE envelopes' \subseteq envelopes
      BY <3>2 DEF Final, Inner, InsertNonce, ServeFetch, ServeAck, RegisterCount, RegisterUpsert, PushPool, SelectVictim,
       DeleteVictim, DeleteVictimNonces, InsertMailbox, QueueDepth, NonceLive, DiscardNonce, GcNonces, GcMailboxes, Tables
    <3>3. Register(r) \/ Challenge(r) \/ Push(r) \/ Authenticate(r) \/ GcEnvelopes(r) => envelopes' \subseteq envelopes
      BY DEF Register, Challenge, Push, Authenticate, GcEnvelopes, Start, Tables
    <3> QED
      BY <3>1, <3>2, <3>3, HandleCases
  <2>2. \A e \in envelopes : e.id <= lastId /\ e.id \in Nat
    BY <1>0 DEF History, EnvelopeRow
  <2> QED
    BY <1>0, <2>1, <2>2
<1>4. \A s \in Req : \A q \in req'[s] : q.op = "ack" => q.ids \subseteq seen
  <2>1. CASE Answer(r)
    BY <1>0, <2>1 DEF Answer, History
  <2>2. CASE Arrives(r)
    BY <1>0, <2>2 DEF Arrives, History
  <2>3. CASE GoesOn(r)
    BY <1>0, <2>3 DEF GoesOn, History
  <2> QED
    BY <2>1, <2>2, <2>3, HandleCases, ArrivalStep, FinalStep, InnerStep
<1> QED
  BY <1>1, <1>2, <1>3, <1>4 DEF History

LEMMA HistoryAlways == Spec => [](TypeInv /\ History)
<1>1. Init => History
  BY DEF Init, History
<1>2. TypeInv /\ History /\ [Next]_vars => History'
  <2> SUFFICES ASSUME TypeInv, History, [Next]_vars PROVE History'
    OBVIOUS
  <2>1. CASE Tick \/ UNCHANGED vars
    BY <2>1 DEF Tick, vars, Tables, Client, History
  <2> QED
    BY <2>1, HistoryStep DEF Next
<1> QED
  BY <1>1, <1>2, TypeAlways, PTL DEF Spec

\* Each statement is a step of the mailbox or leaves it alone.
LEMMA MailboxSimulation ==
    ASSUME TypeInv, History, NEW r \in Req, Handle(r)
    PROVE  Promise!Next \/ UNCHANGED <<envelopes, seen, now>>
<1>0. /\ ReqType /\ lastId \in Nat /\ now \in Nat
      /\ envelopes \subseteq EnvelopeRow /\ seen \subseteq Id /\ Id \subseteq Nat
  <2>1. MaxPushes + Cardinality(Req) \in Nat
    BY SlotCount, RelayAssumption
  <2> QED
    BY <2>1, RelayAssumption DEF TypeInv, TableType, ClientType, Id, Time
<1>1. ASSUME NEW q \in req[r], InsertEnvelope(r, q) PROVE Promise!Deposit
  <2>1. q.m \in Mailbox /\ q.at \in 0 .. now
    BY <1>0, <1>1, RowOf DEF InsertEnvelope, At, GcRequest, TypeInv, ClientType, Time
  <2>2. lastId' \in Id /\ lastId' = lastId + 1
    BY <1>0, <1>1, CountStep DEF InsertEnvelope
  <2>3. \A i \in seen \cup {e.id : e \in envelopes} : i \in Nat /\ i <= lastId
    BY <1>0 DEF History, EnvelopeRow
  <2>4. lastId' \notin seen \cup {e.id : e \in envelopes}
    BY <1>0, <2>2, <2>3
  <2>5. /\ envelopes' = envelopes \cup {[id |-> lastId', m |-> q.m, at |-> q.at]}
        /\ UNCHANGED <<seen, now>>
    BY <1>1 DEF InsertEnvelope, Client
  <2> QED
    BY <2>1, <2>2, <2>4, <2>5 DEF Promise!Deposit
<1>2. ASSUME NEW q \in req[r], ServeFetch(r, q) PROVE Promise!Read
  <2>1. q.m \in Mailbox
    BY <1>0, <1>2, RowOf DEF ServeFetch, At, GcRequest, TypeInv, ClientType
  <2> QED
    BY <1>2, <2>1 DEF Promise!Read, ServeFetch, Queue, Tables, Counters
<1>3. ASSUME NEW q \in req[r], ServeAck(r, q) PROVE Promise!Remove
  <2> DEFINE gone == {e \in envelopes : e.m = q.m /\ e.id \in q.ids}
  <2>1. q.ids \subseteq seen
    BY <1>3 DEF ServeAck, History
  <2>2. envelopes' = envelopes \ gone /\ UNCHANGED <<seen, now>>
    BY <1>3 DEF ServeAck, Client, Counters
  <2>3. gone \in SUBSET envelopes /\ \A e \in gone : e.id \in seen
    BY <2>1
  <2> HIDE DEF gone
  <2> QED
    BY <2>2, <2>3 DEF Promise!Remove
<1>4. ASSUME GcEnvelopes(r) PROVE Promise!Remove
  <2> DEFINE gone == {e \in envelopes : Expired(e.at, now)}
  <2>1. envelopes' = envelopes \ gone /\ UNCHANGED <<seen, now>>
    BY <1>4 DEF GcEnvelopes, Client, Counters
  <2>2. \A e \in gone : e \in envelopes /\ Promise!Old(e)
    BY <1>0, RelayAssumption DEF Expired, Promise!Old, EnvelopeRow, Time
  <2> HIDE DEF gone
  <2>3. gone \in SUBSET envelopes
    BY <2>2
  <2> QED
    BY <2>1, <2>2, <2>3 DEF Promise!Remove
<1>5. Register(r) \/ Challenge(r) \/ Push(r) \/ Authenticate(r) => UNCHANGED <<envelopes, seen, now>>
  BY DEF Register, Challenge, Push, Authenticate, Start, Tables, Client, Counters
<1>6. ASSUME NEW q \in req[r], Final(r, q) \/ Inner(r, q), ~InsertEnvelope(r, q), ~ServeFetch(r, q), ~ServeAck(r, q)
      PROVE  UNCHANGED <<envelopes, seen, now>>
  BY <1>6 DEF Final, Inner, InsertNonce, RegisterCount, RegisterUpsert, PushPool, SelectVictim, DeleteVictim,
       DeleteVictimNonces, InsertMailbox, QueueDepth, NonceLive, DiscardNonce, GcNonces, GcMailboxes, Tables, Client, Counters
<1> QED
  BY <1>1, <1>2, <1>3, <1>4, <1>5, <1>6, HandleCases DEF Promise!Next

\* Whatever requests run at once, an accepted envelope stays in the relay, under
\* its id and its arrival time, until it was handed out or is past its retention
\* (Store.push, fetch, ack and gc).
THEOREM MailboxImplemented == Spec => ImplementsMailbox
<1>1. Init => Promise!Init
  BY DEF Init, Promise!Init
<1>2. TypeInv /\ History /\ [Next]_vars => [Promise!Next]_<<envelopes, seen, now>>
  <2> SUFFICES ASSUME TypeInv, History, [Next]_vars PROVE Promise!Next \/ UNCHANGED <<envelopes, seen, now>>
    OBVIOUS
  <2>1. CASE Tick
    BY <2>1 DEF Tick, Tables, Client, Promise!Next, Promise!Pass
  <2>2. CASE UNCHANGED vars
    BY <2>2 DEF vars
  <2> QED
    BY <2>1, <2>2, MailboxSimulation DEF Next
<1> QED
  BY <1>1, <1>2, HistoryAlways, PTL DEF Spec, ImplementsMailbox, Promise!Spec
=============================================================================
