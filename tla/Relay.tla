------------------------------- MODULE Relay --------------------------------
(* The Cloudflare relay: every HTTP request is a thread that runs one SQL   *)
(* statement at a time against the shared D1 database, so the steps of      *)
(* concurrent requests interleave between any two awaits.  Tables: the      *)
(* mailboxes (a row is unregistered while its owner is NULL), the envelopes *)
(* and the challenge nonces.  A request reads the clock once, on arrival.   *)
(* The clients are RelayClients: they sign with their own key, use nonces   *)
(* they were issued (again, when a lost reply makes them repeat a request)  *)
(* and acknowledge ids they fetched.                                        *)
EXTENDS Integers, FiniteSets

CONSTANTS
    Req,              \* request slots: how many requests run at once
    Mailbox, Ident,
    MaxQueueDepth, MaxRegistered, MaxUnregistered,
    EnvelopeTTL, NonceTTL,
    MaxPushes,        \* bound: no push arrives after that many were accepted
    MaxNonces,        \* bound: no challenge after that many were answered
    MaxTime           \* bound on the clock

ASSUME RelayAssumption ==
    /\ IsFiniteSet(Req) /\ Req # {}
    /\ MaxQueueDepth \in Nat \ {0} /\ MaxRegistered \in Nat /\ MaxUnregistered \in Nat
    /\ EnvelopeTTL \in Nat /\ NonceTTL \in Nat
    /\ MaxPushes \in Nat /\ MaxNonces \in Nat /\ MaxTime \in Nat

NULL == "NULL"
ASSUME NullAssumption == NULL \notin Ident

VARIABLES
    mailboxes,   \* mailbox -> {} or {its row}
    envelopes,   \* the rows of table envelopes
    nonces,      \* the rows of table nonces
    req,         \* slot -> {} or {the request it runs}
    issued,      \* the nonces clients were answered with
    seen,        \* history: the envelope ids clients were answered with
    lastId, lastNonce, now

vars == <<mailboxes, envelopes, nonces, req, issued, seen, lastId, lastNonce, now>>

Time == 0 .. MaxTime
\* The last requests to arrive within the bounds may run at once.
Id == 1 .. MaxPushes + Cardinality(Req)
Nonce == 1 .. MaxNonces + Cardinality(Req)

MailboxRow == [owner : Ident \cup {NULL}, at : Time]
EnvelopeRow == [id : Id, m : Mailbox, at : Time]
NonceRow == [m : Mailbox, n : Nonce, exp : 0 .. MaxTime + NonceTTL]

\* Where a request may stand: the statement it runs next.
Statements == {"count", "upsert", "insertNonce", "countUnregistered",
               "selectVictim", "deleteVictim", "deleteNonces", "insertMailbox",
               "depth", "insert", "nonceLive", "discard", "serve",
               "gcNonces", "gcMailboxes"}

\* The type invariant: tables, clients and the requests under way; a mailbox has
\* at most one row.
TypeOK ==
    /\ \A m \in Mailbox : mailboxes[m] = {} \/ \E r \in MailboxRow : mailboxes[m] = {r}
    /\ envelopes \subseteq EnvelopeRow
    /\ nonces \subseteq NonceRow
    /\ \A r \in Req : \A q \in req[r] : req[r] = {q} /\ q.pc \in Statements /\ q.at <= now
    /\ seen \subseteq Id
    /\ lastId \in {0} \cup Id /\ lastNonce \in {0} \cup Nonce /\ now \in Time

Registered(m) == \E row \in mailboxes[m] : row.owner # NULL
RegisteredPool == {m \in Mailbox : Registered(m)}
UnregisteredPool == {m \in Mailbox : mailboxes[m] # {} /\ ~Registered(m)}
Queue(m) == {e \in envelopes : e.m = m}

Init ==
    /\ mailboxes = [m \in Mailbox |-> {}]
    /\ envelopes = {} /\ nonces = {}
    /\ req = [r \in Req |-> {}]
    /\ issued = {} /\ seen = {}
    /\ lastId = 0 /\ lastNonce = 0 /\ now = 0

-----------------------------------------------------------------------------
(* Requests arrive and end.                                                *)

Client == <<issued, seen>>
Counters == <<lastId, lastNonce, now>>
Tables == <<mailboxes, envelopes, nonces>>

\* A request arrives, reads the clock and gets past its first statement (one
\* that is refused by it changes nothing).
Start(r, q) ==
    /\ req[r] = {}
    /\ req' = [req EXCEPT ![r] = {q}]
    /\ UNCHANGED <<Tables, Client, Counters>>

\* Request r stands before statement pc.
At(r, q, pc) == q \in req[r] /\ q.pc = pc
Goto(r, q, pc) == req' = [req EXCEPT ![r] = {[q EXCEPT !.pc = pc]}]
Answer(r) == req' = [req EXCEPT ![r] = {}]

-----------------------------------------------------------------------------
(* Store.register: the owner, the cap, the upsert.  The winner it reads     *)
(* back is only told to the client, which ignores it.                       *)

Register(r) == \E m \in Mailbox, i \in Ident :
    /\ ~Registered(m)
    /\ Start(r, [op |-> "register", pc |-> "count", m |-> m, who |-> i, at |-> now])

RegisterCount(r, q) ==
    /\ At(r, q, "count")
    /\ IF Cardinality(RegisteredPool) >= MaxRegistered THEN Answer(r) ELSE Goto(r, q, "upsert")
    /\ UNCHANGED <<Tables, Client, Counters>>

\* Mutant: the update is not conditional on registered=0.
RegisterUpsertAlways(r, q) ==
    /\ At(r, q, "upsert")
    /\ mailboxes' = [mailboxes EXCEPT ![q.m] = {[owner |-> q.who, at |-> q.at]}]
    /\ Answer(r)
    /\ UNCHANGED <<envelopes, nonces, Client, Counters>>

\* INSERT ... ON CONFLICT DO UPDATE ... WHERE registered=0: one statement.
RegisterUpsert(r, q) ==
    /\ At(r, q, "upsert")
    /\ mailboxes' = IF Registered(q.m) THEN mailboxes
                    ELSE [mailboxes EXCEPT ![q.m] =
                            {[owner |-> q.who,
                              at |-> IF @ = {} THEN q.at ELSE (CHOOSE row \in @ : TRUE).at]}]
    /\ Answer(r)
    /\ UNCHANGED <<envelopes, nonces, Client, Counters>>

-----------------------------------------------------------------------------
(* /mailbox/challenge and Store.issueNonce.                                *)

\* The gate and the DELETE of expired nonces in one step: no step of another
\* request between the two could tell.
Challenge(r) == \E m \in Mailbox :
    /\ Registered(m)
    /\ req[r] = {} /\ lastNonce < MaxNonces
    /\ nonces' = {c \in nonces : c.exp > now}
    /\ req' = [req EXCEPT ![r] = {[op |-> "challenge", pc |-> "insertNonce", m |-> m, at |-> now]}]
    /\ UNCHANGED <<mailboxes, envelopes, Client, Counters>>

InsertNonce(r, q) ==
    /\ At(r, q, "insertNonce")
    /\ lastNonce' = lastNonce + 1
    /\ nonces' = nonces \cup {[m |-> q.m, n |-> lastNonce', exp |-> q.at + NonceTTL]}
    /\ issued' = issued \cup {[m |-> q.m, n |-> lastNonce']}
    /\ Answer(r)
    /\ UNCHANGED <<mailboxes, envelopes, seen, lastId, now>>

-----------------------------------------------------------------------------
(* Store.push and its eviction.                                            *)

PushAt(pc, m, t) == [op |-> "push", pc |-> pc, m |-> m, at |-> t]

Push(r) == \E m \in Mailbox :
    /\ lastId < MaxPushes
    /\ Start(r, PushAt(IF mailboxes[m] # {} THEN "depth" ELSE "countUnregistered", m, now))

PushPool(r, q) ==
    /\ At(r, q, "countUnregistered")
    /\ Goto(r, q, IF Cardinality(UnregisteredPool) >= MaxUnregistered THEN "selectVictim" ELSE "insertMailbox")
    /\ UNCHANGED <<Tables, Client, Counters>>

\* The unregistered mailboxes without envelopes, oldest first.
EmptyUnregistered == {m \in UnregisteredPool : Queue(m) = {}}
CreatedAt(m) == (CHOOSE row \in mailboxes[m] : TRUE).at
OldestEmpty == {m \in EmptyUnregistered : \A k \in EmptyUnregistered : CreatedAt(m) <= CreatedAt(k)}

SelectVictim(r, q) ==
    /\ At(r, q, "selectVictim")
    /\ \/ EmptyUnregistered = {} /\ Answer(r)                     \* 429
       \/ \E m \in OldestEmpty :
            req' = [req EXCEPT ![r] = {[op |-> "push", pc |-> "deleteVictim", m |-> q.m, at |-> q.at, victim |-> m]}]
    /\ UNCHANGED <<Tables, Client, Counters>>

\* Mutant: eviction takes the queue along.
DeleteVictimAndQueue(r, q) ==
    /\ At(r, q, "deleteVictim")
    /\ mailboxes' = [mailboxes EXCEPT ![q.victim] = {}]
    /\ envelopes' = envelopes \ Queue(q.victim)
    /\ Goto(r, q, "deleteNonces")
    /\ UNCHANGED <<nonces, Client, Counters>>

DeleteVictim(r, q) ==
    /\ At(r, q, "deleteVictim")
    /\ mailboxes' = [mailboxes EXCEPT ![q.victim] = {}]
    /\ Goto(r, q, "deleteNonces")
    /\ UNCHANGED <<envelopes, nonces, Client, Counters>>

DeleteVictimNonces(r, q) ==
    /\ At(r, q, "deleteNonces")
    /\ nonces' = {c \in nonces : c.m # q.victim}
    /\ req' = [req EXCEPT ![r] = {PushAt("insertMailbox", q.m, q.at)}]
    /\ UNCHANGED <<mailboxes, envelopes, Client, Counters>>

\* Mutant: the table has no primary key.
InsertMailboxAgain(r, q) ==
    /\ At(r, q, "insertMailbox")
    /\ mailboxes' = [mailboxes EXCEPT ![q.m] = @ \cup {[owner |-> NULL, at |-> q.at]}]
    /\ Goto(r, q, "depth")
    /\ UNCHANGED <<envelopes, nonces, Client, Counters>>

\* A plain INSERT: if another request created the row meanwhile, it throws
\* and the push is answered with 500.
InsertMailbox(r, q) ==
    /\ At(r, q, "insertMailbox")
    /\ IF mailboxes[q.m] = {}
       THEN /\ mailboxes' = [mailboxes EXCEPT ![q.m] = {[owner |-> NULL, at |-> q.at]}]
            /\ Goto(r, q, "depth")
       ELSE Answer(r) /\ UNCHANGED mailboxes
    /\ UNCHANGED <<envelopes, nonces, Client, Counters>>

\* Mutant: the full queue is off by one.
QueueDepthOffByOne(r, q) ==
    /\ At(r, q, "depth")
    /\ IF Cardinality(Queue(q.m)) > MaxQueueDepth THEN Answer(r) ELSE Goto(r, q, "insert")
    /\ UNCHANGED <<Tables, Client, Counters>>

QueueDepth(r, q) ==
    /\ At(r, q, "depth")
    /\ IF Cardinality(Queue(q.m)) >= MaxQueueDepth THEN Answer(r) ELSE Goto(r, q, "insert")
    /\ UNCHANGED <<Tables, Client, Counters>>

\* The row carries the time the request arrived, not the time it is written.
InsertEnvelope(r, q) ==
    /\ At(r, q, "insert")
    /\ lastId' = lastId + 1
    /\ envelopes' = envelopes \cup {[id |-> lastId', m |-> q.m, at |-> q.at]}
    /\ Answer(r)
    /\ UNCHANGED <<mailboxes, nonces, Client, lastNonce, now>>

-----------------------------------------------------------------------------
(* checkAuth, then fetch or ack.                                           *)

\* checkAuth: the signer must be the owner, then the nonce must be live.
Authenticate(r) == \E c \in issued :
    /\ Registered(c.m)            \* and the client holds the owner's key
    /\ \E q \in {[op |-> "fetch", ids |-> {}]} \cup [op : {"ack"}, ids : SUBSET seen \ {{}}] :
         Start(r, [op |-> q.op, ids |-> q.ids, pc |-> "nonceLive",
                   m |-> c.m, n |-> c.n, at |-> now])

NonceLive(r, q) ==
    /\ At(r, q, "nonceLive")
    /\ IF \E c \in nonces : c.m = q.m /\ c.n = q.n /\ c.exp > q.at
       THEN Goto(r, q, "discard") ELSE Answer(r)
    /\ UNCHANGED <<Tables, Client, Counters>>

DiscardNonce(r, q) ==
    /\ At(r, q, "discard")
    /\ nonces' = {c \in nonces : ~(c.m = q.m /\ c.n = q.n)}
    /\ Goto(r, q, "serve")
    /\ UNCHANGED <<mailboxes, envelopes, Client, Counters>>

ServeFetch(r, q) ==
    /\ At(r, q, "serve") /\ q.op = "fetch"
    /\ seen' = seen \cup {e.id : e \in Queue(q.m)}
    /\ Answer(r)
    /\ UNCHANGED <<Tables, issued, Counters>>

ServeAck(r, q) ==
    /\ At(r, q, "serve") /\ q.op = "ack"
    /\ envelopes' = {e \in envelopes : ~(e.m = q.m /\ e.id \in q.ids)}
    /\ Answer(r)
    /\ UNCHANGED <<mailboxes, nonces, Client, Counters>>

-----------------------------------------------------------------------------
(* The scheduled collection: three statements with one cutoff; it takes a   *)
(* slot like a request.                                                     *)

Expired(at, t) == at < t - EnvelopeTTL

GcEnvelopes(r) ==
    /\ req[r] = {}
    /\ envelopes' = {e \in envelopes : ~Expired(e.at, now)}
    /\ req' = [req EXCEPT ![r] = {[op |-> "gc", pc |-> "gcNonces", at |-> now]}]
    /\ UNCHANGED <<mailboxes, nonces, Client, Counters>>

GcNonces(r, q) ==
    /\ At(r, q, "gcNonces")
    /\ nonces' = {c \in nonces : ~(c.exp < q.at)}
    /\ Goto(r, q, "gcMailboxes")
    /\ UNCHANGED <<mailboxes, envelopes, Client, Counters>>

GcMailboxes(r, q) ==
    /\ At(r, q, "gcMailboxes")
    /\ mailboxes' = [m \in Mailbox |->
         IF m \in EmptyUnregistered /\ Expired(CreatedAt(m), q.at) THEN {} ELSE mailboxes[m]]
    /\ Answer(r)
    /\ UNCHANGED <<envelopes, nonces, Client, Counters>>

Tick == now < MaxTime /\ now' = now + 1 /\ UNCHANGED <<Tables, req, Client, lastId, lastNonce>>

Handle(r) ==
    \/ Register(r) \/ Challenge(r) \/ Push(r) \/ Authenticate(r) \/ GcEnvelopes(r)
    \/ \E q \in req[r] :
        \/ RegisterCount(r, q) \/ RegisterUpsert(r, q)
        \/ InsertNonce(r, q)
        \/ PushPool(r, q) \/ SelectVictim(r, q) \/ DeleteVictim(r, q)
        \/ DeleteVictimNonces(r, q) \/ InsertMailbox(r, q) \/ QueueDepth(r, q) \/ InsertEnvelope(r, q)
        \/ NonceLive(r, q) \/ DiscardNonce(r, q) \/ ServeFetch(r, q) \/ ServeAck(r, q)
        \/ GcNonces(r, q) \/ GcMailboxes(r, q)

Next == (\E r \in Req : Handle(r)) \/ Tick

Spec == Init /\ [][Next]_vars

\* A request under way runs its next statement.
FairSpec == Spec /\ \A r \in Req : WF_vars(req[r] # {} /\ Handle(r))

-----------------------------------------------------------------------------
(* Properties.                                                             *)

\* Store.push checks the depth and inserts in two statements, so a queue may
\* pass its cap; with the envelopes admitted but not yet inserted it does so
\* by less than the number of requests that run at once, whatever is
\* acknowledged, collected or evicted meanwhile.
QueueBounded == \A m \in Mailbox :
    LET admitted == {r \in Req : \E q \in req[r] : q.pc = "insert" /\ q.m = m}
    IN  Cardinality(Queue(m)) + Cardinality(admitted) <= MaxQueueDepth - 1 + Cardinality(Req)

\* A registration is first-write-wins (Store.register): of the requests that
\* race for a mailbox, having all found it unowned, one becomes its owner, and
\* while the mailbox is there none of the others replaces or demotes it.
OwnerNeverReplaced ==
    [][\A m \in Mailbox : Registered(m) /\ mailboxes'[m] # {}
                             => mailboxes'[m] = mailboxes[m]]_vars

\* "Registered mailboxes are NEVER evicted by push"
\* (docs/guarded-change/kindled-link-relay-abuse/1.5-criteria.md, C-13), and
\* nothing else removes one.  It does not hold: Store.push chooses its victim in
\* one statement and deletes it by id in another, and a mailbox may be registered
\* in between.
RegisteredNeverEvicted ==
    [][\A m \in Mailbox : Registered(m) => mailboxes'[m] # {}]_vars

Promise == INSTANCE RelayMailbox WITH inbox <- envelopes, read <- seen, clock <- now

\* Store-and-forward: with concurrent pushes, evictions, repeated and
\* expired requests and collections, an envelope leaves the relay only
\* after it was handed out or after its retention period, and keeps its id
\* and its arrival time until then.
ImplementsMailbox == Promise!Spec
=============================================================================
