----------------------- MODULE BridgeLifecycle_proofs -----------------------
(***************************************************************************)
(* Proofs about BridgeLifecycle, for any number of bridge processes, kill   *)
(* helpers, commands, signals and faults.                                  *)
(***************************************************************************)
EXTENDS BridgeLifecycle, TLAPS

-----------------------------------------------------------------------------
(* Types. *)

Pcs == {"new", "ended", "leaving"} \cup Before \cup Up
Process == [pc : Pcs, origin : Origins, waited : BOOLEAN,
            since : Nat, reason : Reasons, signal : {"none", "term", "int", "int2"},
            work : {"none", "admitted", "running"}, sup : BOOLEAN, sealed : BOOLEAN, frozen : BOOLEAN]
RecordFile == [owner : 0..MaxRuns, phase : {"none", "running", "stopping", "stopped", "hard_exit"},
               clean : BOOLEAN, reason : Reasons]
IntentFile == [target : 0..MaxRuns, state : {"none", "pending", "committed"},
               helper : Helpers \cup {"none"}, boot : Nat]
RequestFile == [target : 0..MaxRuns, by : Helpers \cup {"none", "stop"}]
BackoffFile == [starts : 0..LastStep, at : Nat, healthy : BOOLEAN, boot : Nat]
Managers == {"running", "due", "held", "stopping"}
StartCmd == [pc : {"idle", "lock", "clear", "spawn", "await"}, child : 0..MaxRuns]
StopCmd == [pc : {"idle", "request", "stale", "watch", "escalate", "killing"}, target : 0..MaxRuns,
            why : {"none", "user_stop", "manual_restart"}, kill : Helpers \cup {"none"}]
HelperPcs == {"idle", "read", "pending", "wait", "manager", "probe", "commit", "committed", "frozen",
              "resume", "unintend", "withdraw", "done"}
Outcomes == {"none", "not_running", "in_progress", "other", "called_off", "killed", "died"}
KillCmd == [pc : HelperPcs,
            target : 0..MaxRuns, skip : BOOLEAN, wrote : BOOLEAN,
            outcome : Outcomes]

ProcType == proc \in [Runs -> Process]
ClockType == now \in 0..MaxTime /\ events \in 0..MaxEvents /\ boot \in 1..(events + 1)
FileType ==
    /\ lock \in 0..Starter /\ rec \in RecordFile /\ intent \in IntentFile
    /\ request \in RequestFile /\ backoff \in BackoffFile /\ manager \in Managers
CommandType ==
    /\ starter \in StartCmd /\ (starter.pc = "await" => starter.child \in Runs)
    /\ stopper \in StopCmd /\ (stopper.pc # "idle" => stopper.target \in Runs /\ stopper.why # "none")
    /\ helper \in [Helpers -> KillCmd] /\ \A h \in Helpers : Active(h) => helper[h].target \in Runs
HistoryType == held \in 0..MaxRuns /\ plain \subseteq Runs /\ behind \subseteq Runs

TypeInv == ProcType /\ ClockType /\ FileType /\ CommandType /\ HistoryType

LEMMA Consts ==
    /\ MaxRuns \in Nat /\ MaxEvents \in Nat /\ MaxTime \in Nat /\ HealthyReset \in Nat
    /\ LastStep \in Nat /\ LastStep >= 1
    /\ Runs \subseteq Nat /\ Runs \subseteq 0..MaxRuns /\ Runs \subseteq 0..Starter /\ 0 \notin Runs
    /\ Starter \in 0..Starter /\ 0 \in 0..Starter /\ 0 \in 0..MaxRuns /\ Starter \notin Runs /\ Starter # 0
BY LifecycleAssumption DEF Runs, Starter

\* The records every file and command starts from.
LEMMA Blanks ==
    /\ Blank \in Process /\ [Blank EXCEPT !.pc = "ended"] \in Process
    /\ NoIntent \in IntentFile /\ NoRequest \in RequestFile /\ NoBackoff \in BackoffFile
    /\ IdleStarter \in StartCmd /\ IdleStopper \in StopCmd /\ IdleHelper \in KillCmd
<1>1. Blank \in Process /\ [Blank EXCEPT !.pc = "ended"] \in Process
  BY DEF Blank, Process, Pcs, Before, Up, Origins, Reasons
<1>2. NoIntent \in IntentFile /\ NoRequest \in RequestFile /\ NoBackoff \in BackoffFile
  BY Consts DEF NoIntent, NoRequest, NoBackoff, IntentFile, RequestFile, BackoffFile
<1>3. IdleStarter \in StartCmd /\ IdleStopper \in StopCmd /\ IdleHelper \in KillCmd
  BY Consts DEF IdleStarter, IdleStopper, IdleHelper, StartCmd, StopCmd, KillCmd, HelperPcs, Outcomes
<1> QED
  BY <1>1, <1>2, <1>3

LEMMA TypeInit == Init => TypeInv
<1> SUFFICES ASSUME Init PROVE TypeInv
  OBVIOUS
<1>1. ProcType
  BY Blanks DEF Init, ProcType
<1>2. ClockType /\ HistoryType
  BY Consts DEF Init, ClockType, HistoryType
<1>3. FileType
  BY Blanks, Consts DEF Init, FileType, RecordFile, Reasons, Managers
<1>4. CommandType
  BY Blanks DEF Init, CommandType, IdleStarter, IdleStopper, IdleHelper, Active
<1> QED
  BY <1>1, <1>2, <1>3, <1>4 DEF TypeInv

-----------------------------------------------------------------------------
(* What each action does to its process. *)

SameStart(p, q) == p.origin = q.origin /\ p.since = q.since /\ p.waited = q.waited
SameStop(p, q) == p.reason = q.reason /\ p.signal = q.signal
SameWork(p, q) == p.work = q.work /\ p.sup = q.sup /\ p.sealed = q.sealed

\* The fields of a process one by one.
LEMMA Fields ==
    ASSUME NEW p \in Process
    PROVE  /\ p.pc \in Pcs /\ p.origin \in Origins /\ p.reason \in Reasons /\ p.since \in Nat
           /\ p.waited \in BOOLEAN /\ p.sup \in BOOLEAN /\ p.sealed \in BOOLEAN /\ p.frozen \in BOOLEAN
           /\ p.signal \in {"none", "term", "int", "int2"} /\ p.work \in {"none", "admitted", "running"}
BY DEF Process

\* Only process r changes.
Only(r) == proc' \in [Runs -> Process] /\ \A q \in Runs \ {r} : proc'[q] = proc[q]
Gone(r) == Only(r) /\ proc'[r] = [Blank EXCEPT !.pc = "ended"]

\* An action that replaces r's process by p.
LEMMA Replaced ==
    ASSUME ProcType, NEW r \in Runs, NEW p \in Process, proc' = [proc EXCEPT ![r] = p]
    PROVE  Only(r) /\ proc'[r] = p
BY DEF ProcType, Only

LEMMA GotoFacts ==
    ASSUME ProcType, NEW r \in Runs, NEW x \in Pcs, Goto(r, x)
    PROVE  /\ Only(r) /\ proc'[r].pc = x /\ SameStart(proc'[r], proc[r]) /\ SameStop(proc'[r], proc[r])
           /\ SameWork(proc'[r], proc[r]) /\ proc'[r].frozen = proc[r].frozen
<1> DEFINE p == [proc[r] EXCEPT !.pc = x]
<1>0. proc[r] \in Process
  BY DEF ProcType
<1>1. proc' = [proc EXCEPT ![r] = p]
  BY DEF ProcType, Goto
<1>2. p \in Process /\ p.pc = x /\ SameStart(p, proc[r]) /\ SameStop(p, proc[r]) /\ SameWork(p, proc[r]) /\ p.frozen = proc[r].frozen
  BY <1>0 DEF Process, SameStart, SameStop, SameWork
<1> HIDE DEF p
<1> QED
  BY <1>1, <1>2, Replaced

\* A process is spawned.
LEMMA StartedFacts ==
    ASSUME ProcType, NEW r \in Runs, NEW o \in Origins, NEW x \in Pcs, Started(r, o, x)
    PROVE  /\ Only(r)
           /\ proc'[r].pc = x /\ proc'[r].origin = o /\ proc'[r].waited = proc[r].waited
           /\ SameStop(proc'[r], proc[r]) /\ SameWork(proc'[r], proc[r]) /\ proc'[r].frozen = proc[r].frozen
<1> DEFINE p == [proc[r] EXCEPT !.origin = o, !.pc = x]
<1>0. proc[r] \in Process
  BY DEF ProcType
<1>1. proc' = [proc EXCEPT ![r] = p]
  BY DEF ProcType, Started
<1>2. p \in Process
      /\ p.pc = x /\ p.origin = o /\ p.waited = proc[r].waited
      /\ SameStop(p, proc[r]) /\ SameWork(p, proc[r]) /\ p.frozen = proc[r].frozen
  BY <1>0 DEF Process, SameStop, SameWork
<1> HIDE DEF p
<1> QED
  BY <1>1, <1>2, Replaced

\* It waits for a time, or no longer.
LEMMA SinceFacts ==
    ASSUME ProcType, NEW r \in Runs, NEW x \in Pcs, NEW n \in Nat, proc' = [proc EXCEPT ![r].pc = x, ![r].since = n]
    PROVE  /\ Only(r)
           /\ proc'[r].pc = x /\ proc'[r].since = n
           /\ proc'[r].origin = proc[r].origin /\ proc'[r].waited = proc[r].waited
           /\ SameStop(proc'[r], proc[r]) /\ SameWork(proc'[r], proc[r]) /\ proc'[r].frozen = proc[r].frozen
<1> DEFINE p == [proc[r] EXCEPT !.pc = x, !.since = n]
<1>0. proc[r] \in Process
  BY DEF ProcType
<1>1. proc' = [proc EXCEPT ![r] = p]
  BY DEF ProcType
<1>2. p \in Process
      /\ p.pc = x /\ p.since = n
      /\ p.origin = proc[r].origin /\ p.waited = proc[r].waited
      /\ SameStop(p, proc[r]) /\ SameWork(p, proc[r]) /\ p.frozen = proc[r].frozen
  BY <1>0 DEF Process, SameStop, SameWork
<1> HIDE DEF p
<1> QED
  BY <1>1, <1>2, Replaced

\* It queues behind a bridge, or has done so.
LEMMA WaitedFacts ==
    ASSUME ProcType, NEW r \in Runs, NEW x \in Pcs, NEW b \in BOOLEAN, proc' = [proc EXCEPT ![r].pc = x, ![r].waited = b]
    PROVE  /\ Only(r)
           /\ proc'[r].pc = x /\ proc'[r].waited = b
           /\ proc'[r].origin = proc[r].origin /\ proc'[r].since = proc[r].since
           /\ SameStop(proc'[r], proc[r]) /\ SameWork(proc'[r], proc[r]) /\ proc'[r].frozen = proc[r].frozen
<1> DEFINE p == [proc[r] EXCEPT !.pc = x, !.waited = b]
<1>0. proc[r] \in Process
  BY DEF ProcType
<1>1. proc' = [proc EXCEPT ![r] = p]
  BY DEF ProcType
<1>2. p \in Process
      /\ p.pc = x /\ p.waited = b
      /\ p.origin = proc[r].origin /\ p.since = proc[r].since
      /\ SameStop(p, proc[r]) /\ SameWork(p, proc[r]) /\ p.frozen = proc[r].frozen
  BY <1>0 DEF Process, SameStop, SameWork
<1> HIDE DEF p
<1> QED
  BY <1>1, <1>2, Replaced

\* It serves.
LEMMA ServesFacts ==
    ASSUME ProcType, NEW r \in Runs, now \in Nat, ServerStarts(r)
    PROVE  /\ Only(r)
           /\ proc[r].pc = "starting" /\ proc'[r].pc = "serving"
           /\ proc'[r].origin = proc[r].origin /\ proc'[r].waited = proc[r].waited /\ proc'[r].sealed = proc[r].sealed
           /\ SameStop(proc'[r], proc[r]) /\ proc'[r].frozen = proc[r].frozen
<1> DEFINE p == [proc[r] EXCEPT !.pc = "serving", !.sup = TRUE, !.since = IF proc[r].origin = "service" THEN now ELSE 0]
<1>0. proc[r] \in Process
  BY DEF ProcType
<1>1. proc' = [proc EXCEPT ![r] = p]
  BY DEF ProcType, ServerStarts, Can
<1>2. p \in Process
      /\ proc[r].pc = "starting" /\ p.pc = "serving"
      /\ p.origin = proc[r].origin /\ p.waited = proc[r].waited /\ p.sealed = proc[r].sealed
      /\ SameStop(p, proc[r]) /\ p.frozen = proc[r].frozen
  BY <1>0 DEF Process, SameStop, Pcs, Up, ServerStarts, Can
<1> HIDE DEF p
<1> QED
  BY <1>1, <1>2, Replaced

\* It takes, starts or ends work.
LEMMA WorkFacts ==
    ASSUME ProcType, NEW r \in Runs, NEW w \in {"none", "admitted", "running"}, proc' = [proc EXCEPT ![r].work = w]
    PROVE  /\ Only(r)
           /\ proc'[r].work = w /\ proc'[r].pc = proc[r].pc /\ proc'[r].sup = proc[r].sup /\ proc'[r].sealed = proc[r].sealed
           /\ SameStart(proc'[r], proc[r]) /\ SameStop(proc'[r], proc[r]) /\ proc'[r].frozen = proc[r].frozen
<1> DEFINE p == [proc[r] EXCEPT !.work = w]
<1>0. proc[r] \in Process
  BY DEF ProcType
<1>1. proc' = [proc EXCEPT ![r] = p]
  BY DEF ProcType
<1>2. p \in Process
      /\ p.work = w /\ p.pc = proc[r].pc /\ p.sup = proc[r].sup /\ p.sealed = proc[r].sealed
      /\ SameStart(p, proc[r]) /\ SameStop(p, proc[r]) /\ p.frozen = proc[r].frozen
  BY <1>0 DEF Process, SameStart, SameStop
<1> HIDE DEF p
<1> QED
  BY <1>1, <1>2, Replaced

\* Work registers, unless the registry is sealed.
LEMMA RegisterFacts ==
    ASSUME ProcType, NEW r \in Runs, proc' = [proc EXCEPT ![r] = Register(@)]
    PROVE  /\ Only(r)
           /\ proc'[r].work # "admitted" /\ (proc[r].sealed => proc'[r].work = "none")
           /\ proc'[r].pc = proc[r].pc /\ proc'[r].sup = proc[r].sup /\ proc'[r].sealed = proc[r].sealed
           /\ SameStart(proc'[r], proc[r]) /\ SameStop(proc'[r], proc[r]) /\ proc'[r].frozen = proc[r].frozen
<1> DEFINE p == [proc[r] EXCEPT !.work = IF proc[r].sealed THEN "none" ELSE "running"]
<1>0. proc[r] \in Process
  BY DEF ProcType
<1>1. proc' = [proc EXCEPT ![r] = p]
  BY DEF ProcType, Register
<1>2. p \in Process
      /\ p.work # "admitted" /\ (proc[r].sealed => p.work = "none")
      /\ p.pc = proc[r].pc /\ p.sup = proc[r].sup /\ p.sealed = proc[r].sealed
      /\ SameStart(p, proc[r]) /\ SameStop(p, proc[r]) /\ p.frozen = proc[r].frozen
  BY <1>0 DEF Process, SameStart, SameStop
<1> HIDE DEF p
<1> QED
  BY <1>1, <1>2, Replaced

\* Its supervisor ends.
LEMMA SupFacts ==
    ASSUME ProcType, NEW r \in Runs, SupervisorEnds(r)
    PROVE  /\ Only(r)
           /\ proc'[r].pc = proc[r].pc /\ proc'[r].sup = FALSE /\ proc'[r].work = proc[r].work /\ proc'[r].sealed = proc[r].sealed
           /\ SameStart(proc'[r], proc[r]) /\ SameStop(proc'[r], proc[r]) /\ proc'[r].frozen = proc[r].frozen
<1> DEFINE p == [proc[r] EXCEPT !.sup = FALSE]
<1>0. proc[r] \in Process
  BY DEF ProcType
<1>1. proc' = [proc EXCEPT ![r] = p]
  BY DEF ProcType, SupervisorEnds
<1>2. p \in Process
      /\ p.pc = proc[r].pc /\ p.sup = FALSE /\ p.work = proc[r].work /\ p.sealed = proc[r].sealed
      /\ SameStart(p, proc[r]) /\ SameStop(p, proc[r]) /\ p.frozen = proc[r].frozen
  BY <1>0 DEF Process, SameStart, SameStop
<1> HIDE DEF p
<1> QED
  BY <1>1, <1>2, Replaced

\* Its registry is sealed.
LEMMA SealedFacts ==
    ASSUME ProcType, NEW r \in Runs, NEW x \in Pcs, proc' = [proc EXCEPT ![r].pc = x, ![r].sealed = TRUE]
    PROVE  /\ Only(r)
           /\ proc'[r].pc = x /\ proc'[r].sealed = TRUE /\ proc'[r].work = proc[r].work /\ proc'[r].sup = proc[r].sup
           /\ SameStart(proc'[r], proc[r]) /\ SameStop(proc'[r], proc[r]) /\ proc'[r].frozen = proc[r].frozen
<1> DEFINE p == [proc[r] EXCEPT !.pc = x, !.sealed = TRUE]
<1>0. proc[r] \in Process
  BY DEF ProcType
<1>1. proc' = [proc EXCEPT ![r] = p]
  BY DEF ProcType
<1>2. p \in Process
      /\ p.pc = x /\ p.sealed = TRUE /\ p.work = proc[r].work /\ p.sup = proc[r].sup
      /\ SameStart(p, proc[r]) /\ SameStop(p, proc[r]) /\ p.frozen = proc[r].frozen
  BY <1>0 DEF Process, SameStart, SameStop
<1> HIDE DEF p
<1> QED
  BY <1>1, <1>2, Replaced

\* It is frozen or resumed.
LEMMA FrozenFacts ==
    ASSUME ProcType, NEW r \in Runs, NEW b \in BOOLEAN, proc' = [proc EXCEPT ![r].frozen = b]
    PROVE  /\ Only(r)
           /\ proc'[r].pc = proc[r].pc /\ proc'[r].frozen = b
           /\ SameStart(proc'[r], proc[r]) /\ SameStop(proc'[r], proc[r]) /\ SameWork(proc'[r], proc[r])
<1> DEFINE p == [proc[r] EXCEPT !.frozen = b]
<1>0. proc[r] \in Process
  BY DEF ProcType
<1>1. proc' = [proc EXCEPT ![r] = p]
  BY DEF ProcType
<1>2. p \in Process
      /\ p.pc = proc[r].pc /\ p.frozen = b
      /\ SameStart(p, proc[r]) /\ SameStop(p, proc[r]) /\ SameWork(p, proc[r])
  BY <1>0 DEF Process, SameStart, SameStop, SameWork
<1> HIDE DEF p
<1> QED
  BY <1>1, <1>2, Replaced

\* It stops for a reason.
LEMMA ReasonFacts ==
    ASSUME ProcType, NEW r \in Runs, NEW x \in Pcs, NEW y \in Reasons, proc' = [proc EXCEPT ![r].reason = y, ![r].pc = x]
    PROVE  /\ Only(r)
           /\ proc'[r].pc = x /\ proc'[r].reason = y /\ proc'[r].signal = proc[r].signal
           /\ SameStart(proc'[r], proc[r]) /\ SameWork(proc'[r], proc[r]) /\ proc'[r].frozen = proc[r].frozen
<1> DEFINE p == [proc[r] EXCEPT !.reason = y, !.pc = x]
<1>0. proc[r] \in Process
  BY DEF ProcType
<1>1. proc' = [proc EXCEPT ![r] = p]
  BY DEF ProcType
<1>2. p \in Process
      /\ p.pc = x /\ p.reason = y /\ p.signal = proc[r].signal
      /\ SameStart(p, proc[r]) /\ SameWork(p, proc[r]) /\ p.frozen = proc[r].frozen
  BY <1>0 DEF Process, SameStart, SameWork
<1> HIDE DEF p
<1> QED
  BY <1>1, <1>2, Replaced

\* It notes a signal.
LEMMA SignalFacts ==
    ASSUME ProcType, NEW r \in Runs, NEW x \in {"term", "int", "int2"}, proc' = [proc EXCEPT ![r].signal = x]
    PROVE  /\ Only(r)
           /\ proc'[r].signal = x /\ proc'[r].pc = proc[r].pc /\ proc'[r].reason = proc[r].reason
           /\ SameStart(proc'[r], proc[r]) /\ SameWork(proc'[r], proc[r]) /\ proc'[r].frozen = proc[r].frozen
<1> DEFINE p == [proc[r] EXCEPT !.signal = x]
<1>0. proc[r] \in Process
  BY DEF ProcType
<1>1. proc' = [proc EXCEPT ![r] = p]
  BY DEF ProcType
<1>2. p \in Process
      /\ p.signal = x /\ p.pc = proc[r].pc /\ p.reason = proc[r].reason
      /\ SameStart(p, proc[r]) /\ SameWork(p, proc[r]) /\ p.frozen = proc[r].frozen
  BY <1>0 DEF Process, SameStart, SameWork
<1> HIDE DEF p
<1> QED
  BY <1>1, <1>2, Replaced

\* It ends: the OS frees its lock, and the manager may be due to start it again.
LEMMA EndedFacts ==
    ASSUME ProcType, FileType, NEW r \in Runs, NEW code, Ended(r, code)
    PROVE  /\ Gone(r)
           /\ lock' = (IF lock = r THEN 0 ELSE lock) /\ lock' \in 0..Starter
           /\ manager' \in Managers
           /\ proc[r].origin # "service" => manager' = manager
           /\ proc[r].origin = "service" => manager' = "held" \/ (manager' = "due" /\ manager = "running")
<1>0. lock \in 0..Starter /\ manager \in Managers
  BY DEF FileType
<1> DEFINE p == [Blank EXCEPT !.pc = "ended"]
<1>1. /\ proc' = [proc EXCEPT ![r] = p] /\ lock' = (IF lock = r THEN 0 ELSE lock)
      /\ proc[r].origin # "service" => manager' = manager
      /\ proc[r].origin = "service" => manager' = "held" \/ (manager' = "due" /\ manager = "running")
  BY DEF Ended
<1>2. Only(r) /\ proc'[r] = p
  BY <1>1, Blanks, Replaced
<1> QED
  BY <1>0, <1>1, <1>2, Consts DEF Gone, Managers

LEMMA StoppingFacts ==
    ASSUME ProcType, FileType, NEW r \in Runs, NEW why \in Reasons \ {"none"}, NEW x \in Pcs, Stopping(r, why, x)
    PROVE  /\ Only(r)
           /\ proc'[r].pc = x /\ proc'[r].signal = proc[r].signal
           /\ proc'[r].reason = (IF proc[r].reason = "none" THEN why ELSE proc[r].reason)
           /\ SameStart(proc'[r], proc[r]) /\ SameWork(proc'[r], proc[r]) /\ proc'[r].frozen = proc[r].frozen
           /\ rec' \in RecordFile /\ rec'.owner = rec.owner /\ rec'.clean = rec.clean
           /\ IF proc[r].reason = "none" /\ rec.owner = r
              THEN rec'.phase = "stopping" /\ rec'.reason = (IF rec.reason = "none" THEN why ELSE rec.reason)
              ELSE rec' = rec
<1>0. proc[r] \in Process /\ rec \in RecordFile
  BY DEF ProcType, FileType
<1> DEFINE y == IF proc[r].reason = "none" THEN why ELSE proc[r].reason
           f == [rec EXCEPT !.phase = "stopping", !.reason = IF rec.reason = "none" THEN why ELSE rec.reason]
<1>1. y \in Reasons
  BY <1>0, Fields
<1>2. proc' = [proc EXCEPT ![r].reason = y, ![r].pc = x] /\ rec' = (IF proc[r].reason = "none" /\ rec.owner = r THEN f ELSE rec)
  BY DEF Stopping, ProcType
<1>3. /\ f \in RecordFile /\ f.owner = rec.owner /\ f.clean = rec.clean /\ f.phase = "stopping"
      /\ f.reason = (IF rec.reason = "none" THEN why ELSE rec.reason)
  <2> DEFINE z == IF rec.reason = "none" THEN why ELSE rec.reason
  <2>1. z \in Reasons
    BY <1>0 DEF RecordFile
  <2> HIDE DEF z
  <2> QED
    BY <1>0, <2>1 DEF RecordFile
<1> HIDE DEF y, f
<1>4. /\ Only(r)
      /\ proc'[r].pc = x /\ proc'[r].signal = proc[r].signal /\ proc'[r].reason = y
      /\ SameStart(proc'[r], proc[r]) /\ SameWork(proc'[r], proc[r]) /\ proc'[r].frozen = proc[r].frozen
  BY <1>1, <1>2, ReasonFacts
<1>5. /\ rec' \in RecordFile /\ rec'.owner = rec.owner /\ rec'.clean = rec.clean
      /\ IF proc[r].reason = "none" /\ rec.owner = r
         THEN rec'.phase = "stopping" /\ rec'.reason = (IF rec.reason = "none" THEN why ELSE rec.reason)
         ELSE rec' = rec
  BY <1>0, <1>2, <1>3
<1> QED
  BY <1>4, <1>5 DEF y

LEMMA HardExitFacts ==
    ASSUME ProcType, FileType, NEW r \in Runs, NEW why \in {"crash", "hard_exit"}, HardExit(r, why)
    PROVE  /\ Gone(r)
           /\ lock' = (IF lock = r THEN 0 ELSE lock)
           /\ proc[r].origin # "service" => manager' = manager
           /\ proc[r].origin = "service" => manager' = "held" \/ (manager' = "due" /\ manager = "running")
           /\ rec.owner # r => rec' = rec
           /\ rec'.owner = rec.owner
           /\ backoff' \in {backoff, NoBackoff}
           /\ UNCHANGED <<intent, request>> => FileType'
<1>0. rec \in RecordFile /\ backoff \in BackoffFile
  BY DEF FileType
<1>1. PICK code : Ended(r, code)
  BY DEF HardExit
<1>2. rec' = (IF rec.owner = r THEN [rec EXCEPT !.phase = "hard_exit", !.clean = FALSE, !.reason = why] ELSE rec)
      /\ backoff' \in {backoff, NoBackoff}
  BY DEF HardExit
<1>3. rec' \in RecordFile /\ rec'.owner = rec.owner
  BY <1>0, <1>2 DEF RecordFile, Reasons
<1>4. backoff' \in BackoffFile
  BY <1>0, <1>2, Blanks
<1> QED
  BY <1>1, <1>2, <1>3, <1>4, EndedFacts DEF FileType

LEMMA NotedFacts ==
    ASSUME ProcType, NEW r \in Runs, Noted(r)
    PROVE  /\ Only(r)
           /\ proc'[r].signal # "none" /\ proc'[r].pc = proc[r].pc /\ proc'[r].reason = proc[r].reason
           /\ SameStart(proc'[r], proc[r]) /\ SameWork(proc'[r], proc[r]) /\ proc'[r].frozen = proc[r].frozen
<1> DEFINE p == [proc[r] EXCEPT !.signal = IF proc[r].signal = "none" THEN "term" ELSE proc[r].signal]
<1>0. proc[r] \in Process
  BY DEF ProcType
<1>1. proc' = [proc EXCEPT ![r] = p]
  BY DEF ProcType, Noted
<1>2. p \in Process
      /\ p.signal # "none" /\ p.pc = proc[r].pc /\ p.reason = proc[r].reason
      /\ SameStart(p, proc[r]) /\ SameWork(p, proc[r]) /\ p.frozen = proc[r].frozen
  BY <1>0 DEF Process, SameStart, SameWork
<1> HIDE DEF p
<1> QED
  BY <1>1, <1>2, Replaced

LEMMA TerminatedFacts ==
    ASSUME ProcType, FileType, NEW r \in Runs, Terminated(r)
    PROVE  \/ proc[r].pc \in Up \cup {"leaving"} /\ Noted(r) /\ UNCHANGED <<lock, manager>>
           \/ /\ ~proc[r].frozen /\ proc[r].pc \in Before \cup {"starting", "after", "leaving"}
              /\ \E code \in {0, 1} : Ended(r, code)
BY DEF Terminated

-----------------------------------------------------------------------------
(* What each action does to its kill helper. *)

\* Only helper h changes.
OnlyHelper(h) == helper' \in [Helpers -> KillCmd] /\ \A g \in Helpers \ {h} : helper'[g] = helper[g]

LEMMA HelperReplaced ==
    ASSUME CommandType, NEW h \in Helpers, NEW k \in KillCmd, helper' = [helper EXCEPT ![h] = k]
    PROVE  OnlyHelper(h) /\ helper'[h] = k
BY DEF CommandType, OnlyHelper

LEMMA HelperAtFacts ==
    ASSUME CommandType, NEW h \in Helpers, NEW x \in HelperPcs, HelperAt(h, x)
    PROVE  /\ OnlyHelper(h)
           /\ helper'[h].pc = x /\ helper'[h].target = helper[h].target
           /\ helper'[h].wrote = helper[h].wrote /\ helper'[h].outcome = helper[h].outcome
<1> DEFINE k == [helper[h] EXCEPT !.pc = x]
<1>0. helper[h] \in KillCmd
  BY DEF CommandType
<1>1. helper' = [helper EXCEPT ![h] = k]
  BY DEF CommandType, HelperAt
<1>2. k \in KillCmd /\ k.pc = x /\ k.target = helper[h].target /\ k.wrote = helper[h].wrote /\ k.outcome = helper[h].outcome
  BY <1>0 DEF KillCmd, HelperPcs
<1> HIDE DEF k
<1> QED
  BY <1>1, <1>2, HelperReplaced

\* A kill that is called off touches nothing yet but its helper and the history.
LEMMA CalledOffFacts ==
    ASSUME CommandType, NEW h \in Helpers, NEW outcome \in Outcomes, CalledOff(h, outcome)
    PROVE  /\ OnlyHelper(h)
           /\ helper'[h].pc = (IF helper[h].pc = "frozen" THEN "resume" ELSE "unintend")
           /\ helper'[h].target = helper[h].target
           /\ helper'[h].wrote = helper[h].wrote /\ helper'[h].outcome = outcome
<1> DEFINE k == [helper[h] EXCEPT !.pc = IF @ = "frozen" THEN "resume" ELSE "unintend", !.outcome = outcome]
<1>0. helper[h] \in KillCmd
  BY DEF CommandType
<1>1. helper' = [helper EXCEPT ![h] = k]
  BY <1>0 DEF CommandType, CalledOff
<1>2. k \in KillCmd /\ k.pc = (IF helper[h].pc = "frozen" THEN "resume" ELSE "unintend")
      /\ k.target = helper[h].target /\ k.wrote = helper[h].wrote /\ k.outcome = outcome
  BY <1>0 DEF KillCmd, HelperPcs
<1> HIDE DEF k
<1> QED
  BY <1>1, <1>2, HelperReplaced

\* A helper that is done remembers its target.
LEMMA DoneFacts ==
    ASSUME CommandType, NEW h \in Helpers, NEW outcome \in Outcomes
    PROVE  /\ Done(h, outcome) \in KillCmd
           /\ Done(h, outcome).pc = "done" /\ Done(h, outcome).target = helper[h].target
           /\ Done(h, outcome).outcome = outcome /\ Done(h, outcome).wrote = FALSE
<1>1. helper[h].target \in 0..MaxRuns
  BY DEF CommandType, KillCmd
<1> QED
  BY <1>1 DEF Done, IdleHelper, KillCmd, HelperPcs, Outcomes

\* A helper reads who is recorded, and goes no further beside nobody or another helper's kill.
LEMMA KillReadsFacts ==
    ASSUME CommandType, rec \in RecordFile, NEW h \in Helpers, NEW skip \in BOOLEAN, KillReads(h, skip)
    PROVE  /\ OnlyHelper(h) /\ (Active(h)' => helper'[h].target \in Runs)
           /\ helper[h].pc = "idle"
           /\ helper'[h].pc \in {"read", "done"} /\ helper'[h].wrote = helper[h].wrote
           /\ helper'[h].pc = "read" => /\ helper'[h].target = rec.owner /\ IsRunning
           /\ helper'[h].pc = "done" => helper'[h].outcome \in {"not_running", "in_progress"}
<1> DEFINE Gave(outcome) == [helper[h] EXCEPT !.pc = "done", !.outcome = outcome]
           Reads == [helper[h] EXCEPT !.pc = "read", !.target = rec.owner, !.skip = skip]
<1>1. helper[h] \in KillCmd /\ rec.owner \in 0..MaxRuns /\ helper \in [Helpers -> KillCmd]
  BY DEF CommandType, RecordFile
<1>2. /\ Gave("not_running") \in KillCmd /\ Gave("not_running").pc = "done" /\ Gave("not_running").outcome = "not_running"
      /\ Gave("not_running").wrote = helper[h].wrote
      /\ Gave("in_progress") \in KillCmd /\ Gave("in_progress").pc = "done" /\ Gave("in_progress").outcome = "in_progress"
      /\ Gave("in_progress").wrote = helper[h].wrote
      /\ Reads \in KillCmd /\ Reads.pc = "read" /\ Reads.target = rec.owner /\ Reads.wrote = helper[h].wrote
  BY <1>1 DEF KillCmd, HelperPcs, Outcomes
<1>3. \/ helper' = [helper EXCEPT ![h] = Gave("not_running")]
      \/ helper' = [helper EXCEPT ![h] = Gave("in_progress")]
      \/ IsRunning /\ helper' = [helper EXCEPT ![h] = Reads]
  <2>1. CASE ~IsRunning
    BY <1>1, <2>1 DEF KillReads
  <2>2. CASE IsRunning /\ intent.state = "committed" /\ intent.target = rec.owner
             /\ \E g \in Helpers : intent.helper = g /\ Active(g)
    BY <1>1, <2>2 DEF KillReads
  <2>3. CASE IsRunning /\ ~(intent.state = "committed" /\ intent.target = rec.owner
             /\ \E g \in Helpers : intent.helper = g /\ Active(g))
    BY <1>1, <2>3 DEF KillReads
  <2> QED
    BY <2>1, <2>2, <2>3
<1>4. helper[h].pc = "idle" /\ (IsRunning => rec.owner \in Runs)
  BY DEF KillReads, IsRunning, Alive
<1> HIDE DEF Gave, Reads
<1> QED
  BY <1>2, <1>3, <1>4, HelperReplaced DEF Active

-----------------------------------------------------------------------------
(* Every step keeps the types. *)

LEMMA Frame ==
    ASSUME TypeInv
    PROVE  /\ UNCHANGED proc => ProcType'
           /\ UNCHANGED <<now, boot, events>> => ClockType'
           /\ Event /\ UNCHANGED <<now, boot>> => ClockType'
           /\ UNCHANGED <<files, manager>> => FileType'
           /\ UNCHANGED commands => CommandType'
           /\ UNCHANGED history => HistoryType'
<1>1. UNCHANGED proc => ProcType'
  BY DEF TypeInv, ProcType
<1>2. UNCHANGED <<now, boot, events>> \/ (Event /\ UNCHANGED <<now, boot>>) => ClockType'
  BY Consts DEF TypeInv, ClockType, Event
<1>3. UNCHANGED <<files, manager>> => FileType'
  BY DEF TypeInv, FileType, files
<1>4. UNCHANGED commands => CommandType'
  BY DEF TypeInv, CommandType, commands, Active
<1>5. UNCHANGED history => HistoryType'
  BY DEF TypeInv, HistoryType, history
<1> QED
  BY <1>1, <1>2, <1>3, <1>4, <1>5

LEMMA OnlyType == ASSUME NEW r, Only(r) PROVE ProcType'
BY DEF Only, ProcType

\* A service run's wait for its back-off is a natural number.
LEMMA Waits ==
    ASSUME TypeInv
    PROVE  /\ Backoff \in BackoffFile /\ Step(Backoff.starts) \in 0..LastStep /\ Step(Backoff.starts + 1) \in 0..LastStep
           /\ now \in Nat /\ Remaining \in Nat
           /\ ~Backoff.healthy => now + Remaining >= Backoff.at + Step(Backoff.starts)
<1>1. Backoff \in BackoffFile /\ now \in Nat
  BY Blanks, Consts DEF TypeInv, FileType, ClockType, Backoff
<1>2. Backoff.starts \in 0..LastStep /\ Backoff.at \in Nat
  BY <1>1 DEF BackoffFile
<1>3. Step(Backoff.starts) \in 0..LastStep /\ Step(Backoff.starts + 1) \in 0..LastStep
  BY <1>2, Consts DEF Step
<1> QED
  BY <1>1, <1>2, <1>3, Consts DEF Remaining

LEMMA ComesUpTypes ==
    ASSUME TypeInv, NEW r \in Runs,
           ManagerStarts(r) \/ RunByHand(r) \/ ComesUp(r) \/ StartupFails(r) \/ MarkHealthy(r)
    PROVE  TypeInv'
<1> USE DEF TypeInv
<1>0. /\ Pcs = {"new", "ended", "leaving"} \cup Before \cup Up
      /\ Before = {"lock", "guard", "backoff", "queued", "recheck", "clean", "record"}
      /\ Up = {"starting", "serving", "draining", "after"} /\ Origins = {"app", "cli", "service"}
  BY DEF Pcs, Before, Up, Origins
<1>1. CASE ManagerStarts(r)
  <2>1. ProcType'
    BY <1>0, <1>1, StartedFacts, OnlyType DEF ManagerStarts
  <2>2. FileType'
    BY <1>1 DEF ManagerStarts, FileType, files, Managers
  <2> QED
    BY <1>1, <2>1, <2>2, Frame DEF ManagerStarts
<1>2. CASE RunByHand(r)
  <2>1. ProcType'
    BY <1>0, <1>2, StartedFacts, OnlyType DEF RunByHand
  <2> QED
    BY <1>2, <2>1, Frame DEF RunByHand
<1>3. CASE Guard(r)
  <2>1. CASE Ended(r, 0)
    BY <1>3, <2>1, EndedFacts, OnlyType, Frame DEF Guard, Gone, FileType
  <2>2. CASE proc' = [proc EXCEPT ![r].pc = "backoff", ![r].since = now + Remaining] /\ UNCHANGED <<lock, manager>>
    <3>1. ProcType'
      <4>1. now + Remaining \in Nat /\ "backoff" \in Pcs
        BY <1>0, Waits
      <4> QED
        BY <2>2, <4>1, SinceFacts, OnlyType
    <3> QED
      BY <1>3, <2>2, <3>1, Frame DEF Guard, files
  <2> QED
    BY <1>3, <2>1, <2>2 DEF Guard
<1>4. CASE BackoffWait(r)
  <2>1. CASE Ended(r, 0)
    BY <1>4, <2>1, EndedFacts, OnlyType, Frame DEF BackoffWait, Gone, FileType
  <2>2. CASE proc' = [proc EXCEPT ![r].pc = "lock", ![r].since = 0] /\ UNCHANGED <<lock, manager>>
    <3>1. ProcType'
      BY <1>0, <2>2, SinceFacts, OnlyType
    <3> QED
      BY <1>4, <2>2, <3>1, Frame DEF BackoffWait, files
  <2> QED
    BY <1>4, <2>1, <2>2 DEF BackoffWait
<1>5. CASE RunnerLock(r)
  <2>1. CASE Ended(r, 2)
    BY <1>5, <2>1, EndedFacts, OnlyType, Frame DEF RunnerLock, Gone, FileType
  <2>2. CASE lock' = r /\ Goto(r, "clean") /\ UNCHANGED manager
    <3>1. ProcType'
      BY <1>0, <2>2, GotoFacts, OnlyType
    <3>2. FileType'
      BY <1>5, <2>2, Consts DEF RunnerLock, FileType
    <3> QED
      BY <1>5, <3>1, <3>2, Frame DEF RunnerLock
  <2> QED
    BY <1>5, <2>1, <2>2 DEF RunnerLock
<1>6. CASE RunLock(r)
  <2>1. CASE lock' = r /\ Goto(r, "recheck")
    <3>1. ProcType'
      BY <1>0, <2>1, GotoFacts, OnlyType
    <3>2. FileType'
      BY <1>6, <2>1, Consts DEF RunLock, FileType
    <3> QED
      BY <1>6, <3>1, <3>2, Frame DEF RunLock
  <2>2. CASE proc' = [proc EXCEPT ![r].pc = "queued", ![r].waited = IsRunning] /\ UNCHANGED lock
    <3>1. ProcType'
      <4>1. IsRunning \in BOOLEAN
        BY DEF IsRunning, Alive
      <4> QED
        BY <1>0, <2>2, <4>1, WaitedFacts, OnlyType
    <3> QED
      BY <1>6, <2>2, <3>1, Frame DEF RunLock, files
  <2> QED
    BY <1>6, <2>1, <2>2 DEF RunLock
<1>7. CASE RunUnqueued(r)
  <2>1. ProcType'
    BY <1>0, <1>7, GotoFacts, OnlyType DEF RunUnqueued
  <2>2. FileType'
    BY <1>7, Consts DEF RunUnqueued, FileType
  <2> QED
    BY <1>7, <2>1, <2>2, Frame DEF RunUnqueued
<1>8. CASE Recheck(r)
  <2>1. CASE Ended(r, 0) /\ UNCHANGED backoff
    BY <1>8, <2>1, EndedFacts, OnlyType, Frame DEF Recheck, Gone, FileType
  <2>2. CASE MayStart(r)
    <3>1. ProcType'
      BY <1>0, <1>8, <2>2, WaitedFacts, OnlyType DEF Recheck
    <3>2. [NoBackoff EXCEPT !.starts = Step(Backoff.starts + 1), !.at = now] \in BackoffFile
      BY Waits DEF NoBackoff, BackoffFile
    <3>3. FileType'
      BY <1>8, <2>2, <3>2 DEF Recheck, FileType
    <3> QED
      BY <1>8, <3>1, <3>3, Frame DEF Recheck
  <2> QED
    BY <1>8, <2>1, <2>2 DEF Recheck
<1>9. CASE Clean(r)
  <2>1. ProcType'
    BY <1>0, <1>9, GotoFacts, OnlyType DEF Clean
  <2>2. FileType'
    BY <1>9, Blanks DEF Clean, FileType
  <2>3. HistoryType'
    BY <1>9, Consts DEF Clean, HistoryType
  <2> QED
    BY <1>9, <2>1, <2>2, <2>3, Frame DEF Clean
<1>10. CASE Record(r)
  <2>1. ProcType'
    BY <1>0, <1>10, GotoFacts, OnlyType DEF Record
  <2>2. rec' \in RecordFile
    BY <1>10, Consts DEF Record, RecordFile, Reasons
  <2>3. FileType'
    BY <1>10, <2>2 DEF Record, FileType
  <2>4. HistoryType'
    BY <1>10 DEF Record, HistoryType
  <2> QED
    BY <1>10, <2>1, <2>3, <2>4, Frame DEF Record
<1>11. CASE ServerStarts(r)
  <2>1. ProcType'
    BY <1>11, Waits, ServesFacts, OnlyType
  <2> QED
    BY <1>11, <2>1, Frame DEF ServerStarts
<1>12. CASE StartupFails(r)
  <2>1. ProcType'
    BY <1>0, <1>12, GotoFacts, OnlyType DEF StartupFails
  <2> QED
    BY <1>12, <2>1, Frame DEF StartupFails
<1>13. CASE MarkHealthy(r)
  <2>1. backoff' \in BackoffFile
    BY <1>13, Waits, Consts DEF MarkHealthy, BackoffFile, ClockType
  <2>2. FileType'
    BY <1>13, <2>1 DEF MarkHealthy, FileType
  <2> QED
    BY <1>13, <2>2, Frame DEF MarkHealthy
<1> QED
  BY <1>1, <1>2, <1>3, <1>4, <1>5, <1>6, <1>7, <1>8, <1>9, <1>10, <1>11, <1>12, <1>13 DEF ComesUp

LEMMA GoesDownTypes ==
    ASSUME TypeInv, NEW r \in Runs,
           Admit(r) \/ SpawnTracked(r) \/ IdleStop(r) \/ OsSignal(r) \/ CtrlC(r) \/ GoesDown(r) \/ Dies(r)
    PROVE  TypeInv'
<1> USE DEF TypeInv
<1>0. /\ Pcs = {"new", "ended", "leaving"} \cup Before \cup Up
      /\ Up = {"starting", "serving", "draining", "after"}
      /\ {"idle_timeout", "os_signal", "unknown"} \subseteq Reasons \ {"none"}
  BY DEF Pcs, Up, Reasons
<1>1. CASE Admit(r)
  <2>1. ProcType'
    BY <1>1, WorkFacts, OnlyType DEF Admit
  <2> QED
    BY <1>1, <2>1, Frame DEF Admit
<1>2. CASE SpawnTracked(r)
  <2>1. ProcType'
    BY <1>2, RegisterFacts, OnlyType DEF SpawnTracked
  <2> QED
    BY <1>2, <2>1, Frame DEF SpawnTracked
<1>3. CASE IdleStop(r)
  <2>1. ProcType' /\ FileType'
    BY <1>0, <1>3, StoppingFacts, OnlyType DEF IdleStop, FileType
  <2> QED
    BY <1>3, <2>1, Frame DEF IdleStop
<1>4. CASE OsSignal(r)
  <2>1. ProcType' /\ FileType'
    BY <1>4, TerminatedFacts, NotedFacts, EndedFacts, OnlyType DEF OsSignal, Gone, FileType
  <2> QED
    BY <1>4, <2>1, Frame DEF OsSignal
<1>5. CASE CtrlC(r)
  <2>0. UNCHANGED <<rec, intent, request, backoff>>
    BY <1>5 DEF CtrlC
  <2>1. ASSUME UNCHANGED <<lock, manager>>, NEW x \in {"term", "int", "int2"}, proc' = [proc EXCEPT ![r].signal = x]
        PROVE  ProcType' /\ FileType'
    BY <2>0, <2>1, SignalFacts, OnlyType DEF FileType
  <2>2. ASSUME Ended(r, 1) PROVE ProcType' /\ FileType'
    BY <2>0, <2>2, EndedFacts, OnlyType DEF Gone, FileType
  <2>3. ProcType' /\ FileType'
    BY <1>5, <2>1, <2>2 DEF CtrlC, ProcType
  <2> QED
    BY <1>5, <2>3, Frame DEF CtrlC
<1>6. CASE MonitorStops(r)
  <2>1. proc[r].pc \in Pcs
    BY <1>0, <1>6 DEF MonitorStops
  <2>2. ProcType' /\ FileType'
    BY <1>0, <1>6, <2>1, StoppingFacts, OnlyType DEF MonitorStops, FileType
  <2> QED
    BY <1>6, <2>2, Frame DEF MonitorStops
<1>7. CASE MonitorExits(r)
  <2>1. ProcType' /\ FileType'
    BY <1>7, HardExitFacts, OnlyType DEF MonitorExits, Gone
  <2> QED
    BY <1>7, <2>1, Frame DEF MonitorExits
<1>8. CASE SupervisorEnds(r)
  <2>1. ProcType'
    BY <1>8, SupFacts, OnlyType
  <2> QED
    BY <1>8, <2>1, Frame DEF SupervisorEnds
<1>9. CASE WorkStarts(r)
  <2>1. ProcType'
    BY <1>9, RegisterFacts, OnlyType DEF WorkStarts
  <2> QED
    BY <1>9, <2>1, Frame DEF WorkStarts
<1>10. CASE WorkEnds(r)
  <2>1. ProcType'
    BY <1>10, WorkFacts, OnlyType DEF WorkEnds
  <2> QED
    BY <1>10, <2>1, Frame DEF WorkEnds
<1>11. CASE Drain(r)
  <2>1. ProcType' /\ FileType'
    BY <1>0, <1>11, StoppingFacts, OnlyType DEF Drain, FileType
  <2> QED
    BY <1>11, <2>1, Frame DEF Drain
<1>12. CASE Seal(r)
  <2>1. ProcType'
    BY <1>0, <1>12, SealedFacts, OnlyType DEF Seal
  <2> QED
    BY <1>12, <2>1, Frame DEF Seal
<1>13. CASE AfterRun(r)
  <2>1. plain' \subseteq Runs /\ UNCHANGED <<now, boot, intent, request, commands, events, held>>
    BY <1>13 DEF AfterRun, HistoryType
  <2>2. CASE (HardExit(r, "crash") \/ HardExit(r, "hard_exit")) /\ UNCHANGED behind
    <3>2. HistoryType'
      BY <2>1, <2>2 DEF HistoryType
    <3>3. ProcType' /\ FileType'
      BY <2>1, <2>2, HardExitFacts, OnlyType DEF Gone
    <3> QED
      BY <2>1, <3>2, <3>3, Frame
  <2>3. CASE /\ proc' = [proc EXCEPT ![r].pc = "leaving", ![r].sealed = TRUE]
             /\ rec' = IF rec.owner = r THEN [rec EXCEPT !.owner = 0, !.phase = "stopped", !.clean = TRUE] ELSE rec
             /\ backoff' = NoBackoff
             /\ behind' = IF r \in plain THEN {q \in Runs : Can(q, "queued") /\ proc[q].waited} ELSE behind
             /\ UNCHANGED <<lock, manager>>
    <3>1. ProcType'
      BY <1>0, <2>3, SealedFacts, OnlyType
    <3>2. rec' \in RecordFile
      BY <2>3, Consts DEF FileType, RecordFile
    <3>3. FileType'
      BY <2>1, <2>3, <3>2, Blanks DEF FileType
    <3>4. HistoryType'
      BY <2>1, <2>3 DEF HistoryType
    <3> QED
      BY <2>1, <3>1, <3>3, <3>4, Frame
  <2> QED
    BY <1>13, <2>2, <2>3 DEF AfterRun
<1>14. CASE Leave(r)
  <2>1. ProcType' /\ FileType'
    BY <1>14, EndedFacts, OnlyType DEF Leave, Gone, FileType
  <2> QED
    BY <1>14, <2>1, Frame DEF Leave
<1>15. CASE Dies(r)
  <2>1. ProcType' /\ FileType'
    BY <1>15, EndedFacts, OnlyType DEF Dies, Gone, FileType
  <2> QED
    BY <1>15, <2>1, Frame DEF Dies
<1> QED
  BY <1>1, <1>2, <1>3, <1>4, <1>5, <1>6, <1>7, <1>8, <1>9, <1>10, <1>11, <1>12, <1>13, <1>14, <1>15 DEF GoesDown

LEMMA CommandTypes ==
    ASSUME TypeInv, StartCommand \/ StartStep \/ StopCommand \/ StopStep
    PROVE  TypeInv'
<1> USE DEF TypeInv
<1>0. /\ Pcs = {"new", "ended", "leaving"} \cup Before \cup Up
      /\ Up = {"starting", "serving", "draining", "after"}
      /\ Before = {"lock", "guard", "backoff", "queued", "recheck", "clean", "record"} /\ "app" \in Origins
      /\ {"user_stop", "manual_restart"} \subseteq Reasons \ {"none"}
      /\ starter \in StartCmd /\ stopper \in StopCmd /\ helper \in [Helpers -> KillCmd]
      /\ \A h \in Helpers : Active(h) => helper[h].target \in Runs
      /\ stopper.pc # "idle" => stopper.target \in Runs /\ stopper.why # "none"
      /\ starter.pc = "await" => starter.child \in Runs
  BY DEF Pcs, Up, Before, Reasons, Origins, CommandType
<1>s. \A x : [IdleStarter EXCEPT !.pc = "lock"] \in StartCmd /\ [IdleStarter EXCEPT !.pc = "lock"].pc = "lock"
      /\ IdleStarter \in StartCmd /\ IdleStarter.pc = "idle"
  BY Blanks DEF IdleStarter, StartCmd
<1>a. ASSUME starter' \in StartCmd, starter'.pc # "await", UNCHANGED <<stopper, helper>> PROVE CommandType'
  BY <1>0, <1>a DEF CommandType, Active
<1>r. ASSUME NEW ok, StopReturns(ok), UNCHANGED helper PROVE CommandType'
  BY <1>0, <1>s, <1>r, Blanks DEF StopReturns, CommandType, IdleStopper, Active
<1>1. CASE StartCommand
  <2>1. CommandType'
    BY <1>1, <1>s, <1>a DEF StartCommand
  <2> QED
    BY <1>1, <2>1, Frame DEF StartCommand
<1>2. CASE StartLock
  <2>1. CASE starter' = IdleStarter /\ UNCHANGED lock
    <3>1. CommandType'
      BY <1>2, <2>1, <1>s, <1>a DEF StartLock
    <3> QED
      BY <1>2, <2>1, <3>1, Frame DEF StartLock, files
  <2>2. CASE starter' = [starter EXCEPT !.pc = "clear"] /\ lock' = Starter
    <3>1. starter' \in StartCmd /\ starter'.pc = "clear"
      BY <1>0, <2>2 DEF StartCmd
    <3>2. CommandType'
      BY <1>2, <3>1, <1>a DEF StartLock
    <3>3. FileType'
      BY <1>2, <2>2, Consts DEF StartLock, FileType
    <3> QED
      BY <1>2, <3>2, <3>3, Frame DEF StartLock
  <2> QED
    BY <1>2, <2>1, <2>2 DEF StartLock
<1>3. CASE StartClear
  <2>1. starter' \in StartCmd /\ starter'.pc = "spawn"
    BY <1>0, <1>3 DEF StartClear, StartCmd
  <2>2. CommandType'
    BY <1>3, <2>1, <1>a DEF StartClear
  <2>3. FileType' /\ HistoryType'
    BY <1>3, Blanks, Consts DEF StartClear, FileType, HistoryType
  <2> QED
    BY <1>3, <2>2, <2>3, Frame DEF StartClear
<1>4. CASE StartService
  <2>1. CommandType'
    BY <1>4, <1>s, <1>a DEF StartService
  <2>2. FileType' /\ HistoryType'
    BY <1>4, Blanks, Consts DEF StartService, FileType, HistoryType, Managers
  <2> QED
    BY <1>4, <2>1, <2>2, Frame DEF StartService
<1>5. ASSUME NEW r \in Runs, StartDetached(r) PROVE TypeInv'
  <2>1. ProcType'
    BY <1>0, <1>5, StartedFacts, OnlyType DEF StartDetached
  <2>2. CommandType'
    BY <1>0, <1>5, Consts DEF StartDetached, CommandType, StartCmd, Active
  <2> QED
    BY <1>5, <2>1, <2>2, Frame DEF StartDetached
<1>6. CASE StartAwaits
  <2>1. CommandType'
    BY <1>6, <1>s, <1>a DEF StartAwaits
  <2>2. CASE UNCHANGED <<proc, lock, manager>>
    BY <1>6, <2>1, <2>2, Frame DEF StartAwaits, files
  <2>3. CASE Terminated(starter.child)
    <3>1. starter.child \in Runs
      BY <1>0, <1>6 DEF StartAwaits
    <3>2. ProcType' /\ FileType'
      BY <1>6, <2>3, <3>1, TerminatedFacts, NotedFacts, EndedFacts, OnlyType DEF StartAwaits, Gone, FileType
    <3> QED
      BY <1>6, <2>1, <3>2, Frame DEF StartAwaits
  <2> QED
    BY <1>6, <2>2, <2>3 DEF StartAwaits
<1>7. CASE StopCommand
  <2>1. PICK why \in {"user_stop", "manual_restart"}, pc \in {"request", "stale"} :
          stopper' = [IdleStopper EXCEPT !.pc = pc, !.target = rec.owner, !.why = why]
    BY <1>7 DEF StopCommand
  <2>2. rec.owner \in 0..MaxRuns /\ rec.owner \in Runs
    BY <1>7, Consts DEF StopCommand, FileType, RecordFile, Runs
  <2>3. stopper' \in StopCmd /\ stopper'.target \in Runs /\ stopper'.why # "none"
    BY <2>1, <2>2 DEF IdleStopper, StopCmd
  <2>4. CommandType'
    BY <1>0, <1>7, <2>3 DEF StopCommand, CommandType, Active
  <2> QED
    BY <1>7, <2>4, Frame DEF StopCommand
<1>8. CASE StopClearsStale
  <2>1. rec' \in RecordFile
    BY <1>8, Consts DEF StopClearsStale, StaleRecordCleared, FileType, RecordFile
  <2>2. FileType'
    BY <1>8, <2>1 DEF StopClearsStale, FileType
  <2> QED
    BY <1>8, <1>r, <2>2, Frame DEF StopClearsStale
<1>9. CASE StopRequests
  <2> DEFINE r == stopper.target
  <2>0. r \in Runs /\ stopper.why \in {"user_stop", "manual_restart"}
    BY <1>0, <1>9 DEF StopRequests, StopCmd
  <2>1. CommandType'
    <3>1. stopper' = [stopper EXCEPT !.pc = "watch"] \/ stopper' = IdleStopper
      BY <1>9 DEF StopRequests
    <3>2. stopper' \in StopCmd /\ (stopper'.pc # "idle" => stopper'.target = r /\ stopper'.why = stopper.why)
      BY <1>0, <3>1, Blanks DEF StopCmd, IdleStopper
    <3> QED
      BY <1>0, <1>9, <2>0, <3>2 DEF StopRequests, CommandType, Active
  <2>2. /\ UNCHANGED <<now, boot, intent, request, backoff, events, held, behind>>
        /\ plain' \subseteq plain \cup {r}
    BY <1>9 DEF StopRequests
  <2>3. HistoryType'
    BY <2>0, <2>2 DEF HistoryType
  <2>4. CASE Stopping(r, stopper.why, "serving") /\ UNCHANGED <<lock, manager>>
    <3>1. ProcType' /\ FileType'
      BY <1>0, <2>0, <2>2, <2>4, StoppingFacts, OnlyType DEF FileType
    <3> QED
      BY <2>1, <2>2, <2>3, <3>1, Frame
  <2>5. CASE UNCHANGED <<proc, rec, lock, manager, plain>>
    BY <2>1, <2>2, <2>3, <2>5, Frame DEF files
  <2>6. CASE Terminated(r) /\ UNCHANGED <<rec, plain>>
    <3>1. ProcType' /\ FileType'
      BY <2>0, <2>2, <2>6, TerminatedFacts, NotedFacts, EndedFacts, OnlyType DEF Gone, FileType
    <3> QED
      BY <2>1, <2>2, <2>3, <3>1, Frame
  <2> QED
    BY <1>9, <2>4, <2>5, <2>6 DEF StopRequests
<1>10. CASE StopWatches
  <2>1. CASE (\E ok \in BOOLEAN : StopReturns(ok)) /\ UNCHANGED request
    <3>1. CommandType'
      BY <1>10, <1>r, <2>1 DEF StopWatches
    <3> QED
      BY <1>10, <2>1, <3>1, Frame DEF StopWatches, files
  <2>2. CASE /\ request' = [target |-> stopper.target, by |-> "stop"]
             /\ stopper' = [stopper EXCEPT !.pc = "escalate"]
             /\ UNCHANGED starter
    <3>1. stopper.target \in Runs /\ stopper' \in StopCmd /\ stopper'.target = stopper.target /\ stopper'.why = stopper.why
      BY <1>0, <1>10, <2>2 DEF StopWatches, StopCmd
    <3>2. CommandType'
      BY <1>0, <1>10, <2>2, <3>1 DEF StopWatches, CommandType, Active
    <3>3. request' \in RequestFile
      BY <2>2, <3>1, Consts DEF RequestFile
    <3>4. FileType'
      BY <1>10, <3>3 DEF StopWatches, FileType
    <3> QED
      BY <1>10, <3>2, <3>4, Frame DEF StopWatches
  <2> QED
    BY <1>10, <2>1, <2>2 DEF StopWatches
<1>12. ASSUME NEW h \in Helpers, StopEscalates(h) PROVE TypeInv'
  <2>1. stopper' \in StopCmd /\ stopper'.target = stopper.target /\ stopper.target \in Runs /\ stopper'.why = stopper.why
    BY <1>0, <1>12 DEF StopEscalates, StopCmd
  <2>2. CommandType'
    <3>1. OnlyHelper(h) /\ (Active(h)' => helper'[h].target \in Runs)
      BY <1>12, KillReadsFacts DEF StopEscalates, FileType, CommandType
    <3> QED
      BY <1>0, <1>12, <2>1, <3>1 DEF StopEscalates, CommandType, OnlyHelper, Active
  <2> QED
    BY <1>12, <2>2, Frame DEF StopEscalates
<1>13. CASE StopKilled
  <2>1. CommandType'
    BY <1>13, <1>r DEF StopKilled
  <2> QED
    BY <1>13, <2>1, Frame DEF StopKilled
<1> QED
  BY <1>1, <1>2, <1>3, <1>4, <1>5, <1>6, <1>7, <1>8, <1>9, <1>10, <1>12, <1>13 DEF StartStep, StopStep

LEMMA KillTypes ==
    ASSUME TypeInv, NEW h \in Helpers, KillCommand(h) \/ KillStep(h) \/ KillInterrupted(h) \/ HelperDies(h)
    PROVE  TypeInv'
<1> USE DEF TypeInv
<1>0. /\ helper \in [Helpers -> KillCmd] /\ \A g \in Helpers : Active(g) => helper[g].target \in Runs
      /\ {"pending", "wait", "manager", "probe", "commit", "committed", "frozen", "unintend", "withdraw"} \subseteq HelperPcs
      /\ {"other", "called_off", "killed", "died"} \subseteq Outcomes
  BY DEF HelperPcs, Outcomes, CommandType
<1>n. boot \in Nat /\ \A r \in Runs : r \in 0..MaxRuns
  BY Consts DEF ClockType
<1>a. ASSUME OnlyHelper(h), Active(h)' => helper'[h].target \in Runs, UNCHANGED <<starter, stopper>> PROVE CommandType'
  BY <1>a DEF CommandType, OnlyHelper, Active
<1>b. ASSUME NEW x \in HelperPcs, HelperAt(h, x), helper[h].target \in Runs, UNCHANGED <<starter, stopper>> PROVE CommandType'
  BY <1>a, <1>b, HelperAtFacts
<1>c. ASSUME NEW o \in Outcomes, helper' = [helper EXCEPT ![h] = Done(h, o)], UNCHANGED <<starter, stopper>> PROVE CommandType'
  <2>1. Done(h, o) \in KillCmd /\ Done(h, o).pc = "done"
    BY DoneFacts
  <2>2. OnlyHelper(h) /\ helper'[h].pc = "done"
    BY <1>c, <2>1, HelperReplaced
  <2> QED
    BY <1>a, <1>c, <2>2 DEF Active
<1>d. ASSUME NEW o \in Outcomes, CalledOff(h, o), helper[h].target \in Runs PROVE TypeInv'
  <2>1. CommandType'
    BY <1>a, <1>d, CalledOffFacts DEF CalledOff
  <2>2. HistoryType'
    BY <1>d, Consts DEF CalledOff, HistoryType
  <2> QED
    BY <1>d, <2>1, <2>2, Frame DEF CalledOff
<1>1. CASE KillCommand(h)
  <2>1. CommandType'
    BY <1>1, <1>a, KillReadsFacts DEF KillCommand, FileType
  <2> QED
    BY <1>1, <2>1, Frame DEF KillCommand
<1>2. CASE KillPends(h)
  <2>0. helper[h].target \in Runs
    BY <1>0, <1>2 DEF KillPends, Active
  <2>1. CommandType'
    BY <1>0, <1>2, <1>b, <2>0 DEF KillPends
  <2>2. intent' \in IntentFile
    BY <1>2, <1>n, <2>0 DEF KillPends, IntentFile
  <2>3. FileType'
    BY <1>2, <2>2 DEF KillPends, FileType
  <2> QED
    BY <1>2, <2>1, <2>3, Frame DEF KillPends
<1>3. CASE KillAsks(h)
  <2> DEFINE r == helper[h].target
  <2>0. r \in Runs /\ helper[h] \in KillCmd
    BY <1>0, <1>3 DEF KillAsks, Active
  <2>1. CASE /\ request' = [target |-> r, by |-> h]
             /\ helper' = [helper EXCEPT ![h].pc = "wait", ![h].wrote = TRUE]
    <3>1. [helper[h] EXCEPT !.pc = "wait", !.wrote = TRUE] \in KillCmd
          /\ [helper[h] EXCEPT !.pc = "wait", !.wrote = TRUE].target = r
      BY <2>0 DEF KillCmd, HelperPcs
    <3>2. helper' = [helper EXCEPT ![h] = [helper[h] EXCEPT !.pc = "wait", !.wrote = TRUE]]
      BY <1>0, <2>1
    <3>3. CommandType'
      BY <1>3, <1>a, <2>0, <3>1, <3>2, HelperReplaced DEF KillAsks
    <3>4. request' \in RequestFile
      BY <2>0, <2>1, Consts DEF RequestFile
    <3>5. FileType'
      BY <1>3, <3>4 DEF KillAsks, FileType
    <3> QED
      BY <1>3, <3>3, <3>5, Frame DEF KillAsks
  <2>2. CASE (HelperAt(h, "manager") \/ HelperAt(h, "probe")) /\ UNCHANGED request
    <3>1. CommandType'
      BY <1>0, <1>3, <1>b, <2>0, <2>2 DEF KillAsks
    <3> QED
      BY <1>3, <2>2, <3>1, Frame DEF KillAsks, files
  <2> QED
    BY <1>3, <2>1, <2>2 DEF KillAsks
<1>4. CASE KillWaits(h)
  <2>1. CommandType'
    BY <1>0, <1>4, <1>b DEF KillWaits, Active
  <2> QED
    BY <1>4, <2>1, Frame DEF KillWaits
<1>5. CASE KillStopsJob(h)
  <2>0. helper[h].target \in Runs
    BY <1>0, <1>5 DEF KillStopsJob, Active
  <2>1. CommandType'
    BY <1>0, <1>5, <1>b, <2>0 DEF KillStopsJob
  <2>2. ProcType' /\ FileType'
    <3>1. CASE Noted(helper[h].target) /\ manager' = "stopping" /\ UNCHANGED lock
      BY <1>5, <2>0, <3>1, NotedFacts, OnlyType DEF KillStopsJob, FileType, Managers
    <3>2. CASE Ended(helper[h].target, 0)
      BY <1>5, <2>0, <3>2, EndedFacts, OnlyType DEF KillStopsJob, Gone, FileType
    <3>3. CASE UNCHANGED <<proc, lock, manager>>
      BY <1>5, <3>3, Frame DEF KillStopsJob, files
    <3> QED
      BY <1>5, <3>1, <3>2, <3>3 DEF KillStopsJob
  <2> QED
    BY <1>5, <2>1, <2>2, Frame DEF KillStopsJob
<1>6. CASE KillProbes(h)
  <2>0. helper[h].target \in Runs
    BY <1>0, <1>6 DEF KillProbes, Active
  <2>1. CASE HelperAt(h, "commit") /\ UNCHANGED <<now, boot, proc, files, manager, starter, stopper, events, history>>
    <3>1. CommandType'
      BY <1>0, <1>b, <2>0, <2>1
    <3> QED
      BY <2>1, <3>1, Frame
  <2>2. CASE CalledOff(h, "other")
    BY <1>0, <1>6, <1>d, <2>0, <2>2 DEF KillProbes
  <2> QED
    BY <1>6, <2>1, <2>2 DEF KillProbes
<1>7. CASE KillCommits(h)
  <2>0. helper[h].target \in Runs
    BY <1>0, <1>7 DEF KillCommits, Active
  <2>1. CommandType'
    BY <1>0, <1>7, <1>b, <2>0 DEF KillCommits
  <2>2. intent' \in IntentFile
    BY <1>7, <1>n, <2>0 DEF KillCommits, IntentFile
  <2>3. FileType'
    BY <1>7, <2>2 DEF KillCommits, FileType
  <2>4. HistoryType'
    BY <1>7, <2>0, Consts DEF KillCommits, HistoryType
  <2> QED
    BY <1>7, <2>1, <2>3, <2>4, Frame DEF KillCommits
<1>8. CASE KillFreezes(h)
  <2>0. helper[h].target \in Runs
    BY <1>0, <1>8 DEF KillFreezes, Active
  <2>1. CASE CalledOff(h, "other")
    BY <1>0, <1>8, <1>d, <2>0, <2>1 DEF KillFreezes
  <2>2. CASE /\ proc' = [proc EXCEPT ![helper[h].target].frozen = TRUE]
             /\ HelperAt(h, "frozen")
             /\ UNCHANGED <<now, boot, files, manager, starter, stopper, events, history>>
    <3>1. ProcType'
      BY <2>0, <2>2, FrozenFacts, OnlyType
    <3>2. CommandType'
      BY <1>0, <1>b, <2>0, <2>2
    <3> QED
      BY <2>2, <3>1, <3>2, Frame
  <2>3. CASE /\ helper' = [helper EXCEPT ![h] = Done(h, "killed")]
             /\ UNCHANGED <<now, boot, proc, files, manager, starter, stopper, events, history>>
    <3>1. CommandType'
      BY <1>0, <1>c, <2>3
    <3> QED
      BY <2>3, <3>1, Frame
  <2> QED
    BY <1>8, <2>1, <2>2, <2>3 DEF KillFreezes
<1>9. CASE KillKills(h)
  <2>0. helper[h].target \in Runs
    BY <1>0, <1>9 DEF KillKills, Active
  <2>1. CommandType'
    BY <1>0, <1>9, <1>c DEF KillKills
  <2>2. ProcType' /\ FileType'
    <3>1. ASSUME NEW code \in {0, 1}, Ended(helper[h].target, code) PROVE ProcType' /\ FileType'
      BY <1>9, <2>0, <3>1, EndedFacts, OnlyType DEF KillKills, Gone, FileType
    <3>2. CASE UNCHANGED <<proc, lock, manager>>
      BY <1>9, <3>2, Frame DEF KillKills, files
    <3> QED
      BY <1>9, <3>1, <3>2 DEF KillKills
  <2> QED
    BY <1>9, <2>1, <2>2, Frame DEF KillKills
<1>10. CASE KillInterrupted(h)
  BY <1>0, <1>10, <1>d DEF KillInterrupted, Active
<1>11. CASE HelperDies(h)
  <2>1. CommandType'
    BY <1>0, <1>11, <1>c DEF HelperDies
  <2> QED
    BY <1>11, <2>1, Frame DEF HelperDies
<1>12. CASE KillResumes(h)
  <2>0. helper[h].target \in Runs
    BY <1>0, <1>12 DEF KillResumes, Active
  <2>1. CommandType'
    BY <1>0, <1>12, <1>b, <2>0 DEF KillResumes
  <2>2. ProcType'
    BY <1>12, <2>0, FrozenFacts, OnlyType DEF KillResumes
  <2> QED
    BY <1>12, <2>1, <2>2, Frame DEF KillResumes
<1>13. CASE KillUnintends(h)
  <2>0. helper[h].target \in Runs
    BY <1>0, <1>13 DEF KillUnintends, Active
  <2>1. CommandType'
    BY <1>0, <1>13, <1>b, <2>0 DEF KillUnintends
  <2>2. FileType'
    BY <1>13, Blanks DEF KillUnintends, FileType
  <2> QED
    BY <1>13, <2>1, <2>2, Frame DEF KillUnintends
<1>14. CASE KillWithdraws(h)
  <2>0. helper[h].outcome \in Outcomes
    BY <1>0 DEF KillCmd
  <2>1. CommandType'
    BY <1>14, <1>c, <2>0 DEF KillWithdraws
  <2>2. FileType'
    BY <1>14, Blanks DEF KillWithdraws, FileType
  <2> QED
    BY <1>14, <2>1, <2>2, Frame DEF KillWithdraws
<1> QED
  BY <1>1, <1>2, <1>3, <1>4, <1>5, <1>6, <1>7, <1>8, <1>9, <1>10, <1>11, <1>12, <1>13, <1>14 DEF KillStep

\* A reboot ends every process, and leaves the files.
LEMMA RebootFacts ==
    ASSUME TypeInv, Reboot
    PROVE  /\ proc' \in [Runs -> Process]
           /\ \A r \in Runs : ~Alive(r)' /\ (proc'[r] = [Blank EXCEPT !.pc = "ended"] \/ proc'[r] = proc[r])
           /\ helper' \in [Helpers -> KillCmd]
           /\ \A h \in Helpers : /\ ~Active(h)' /\ helper'[h].target = helper[h].target
                                 /\ Active(h) => helper'[h].pc = "done" /\ helper'[h].outcome = "died"
                                 /\ ~Active(h) => helper'[h] = helper[h]
           /\ lock' = 0 /\ held' = 0 /\ UNCHANGED <<rec, intent, request, backoff, plain, behind>>
           /\ boot' = boot + 1 /\ manager' \in {"due", "held"} /\ starter' = IdleStarter /\ stopper' = IdleStopper
<1>1. /\ proc \in [Runs -> Process] /\ proc' = [r \in Runs |-> IF Alive(r) THEN [Blank EXCEPT !.pc = "ended"] ELSE proc[r]]
      /\ helper \in [Helpers -> KillCmd]
      /\ helper' = [h \in Helpers |-> IF Active(h) THEN Done(h, "died") ELSE helper[h]]
  BY DEF TypeInv, ProcType, CommandType, Reboot
<1>2. [Blank EXCEPT !.pc = "ended"] \in Process /\ [Blank EXCEPT !.pc = "ended"].pc = "ended"
  BY Blanks DEF Blank
<1>3. \A r \in Runs : ~Alive(r)' /\ (proc'[r] = [Blank EXCEPT !.pc = "ended"] \/ proc'[r] = proc[r])
  BY <1>1, <1>2 DEF Alive
<1>4. \A h \in Helpers : /\ Done(h, "died") \in KillCmd /\ Done(h, "died").pc = "done"
                         /\ Done(h, "died").target = helper[h].target /\ Done(h, "died").outcome = "died"
  BY DoneFacts DEF TypeInv, Outcomes
<1>5. /\ helper' \in [Helpers -> KillCmd]
      /\ \A h \in Helpers : /\ ~Active(h)' /\ helper'[h].target = helper[h].target
                            /\ Active(h) => helper'[h].pc = "done" /\ helper'[h].outcome = "died"
                            /\ ~Active(h) => helper'[h] = helper[h]
  BY <1>1, <1>4 DEF Active
<1>6. proc' \in [Runs -> Process]
  BY <1>1, <1>2
<1> QED
  BY <1>3, <1>5, <1>6 DEF Reboot

LEMMA TypeNext == TypeInv /\ [Next]_vars => TypeInv'
<1> SUFFICES ASSUME TypeInv, [Next]_vars PROVE TypeInv'
  OBVIOUS
<1>1. CASE Reboot
  <2>1. boot' \in 1..(events' + 1) /\ now' \in 0..MaxTime /\ events' \in 0..MaxEvents
    BY <1>1, Consts DEF Reboot, Event, TypeInv, ClockType
  <2>2. ProcType' /\ ClockType'
    BY <1>1, <2>1, RebootFacts DEF ProcType, ClockType
  <2>3. FileType' /\ HistoryType'
    BY <1>1, RebootFacts, Consts DEF TypeInv, FileType, HistoryType, Managers
  <2>4. IdleStarter.pc = "idle" /\ IdleStopper.pc = "idle"
    BY DEF IdleStarter, IdleStopper
  <2>5. CommandType'
    BY <1>1, <2>4, RebootFacts, Blanks DEF CommandType
  <2> QED
    BY <2>2, <2>3, <2>5 DEF TypeInv
<1>2. CASE Tick
  <2>1. ClockType'
    BY <1>2, Consts DEF Tick, TypeInv, ClockType
  <2> QED
    BY <1>2, <2>1, Frame DEF Tick, TypeInv
<1>3. CASE UNCHANGED vars
  BY <1>3, Frame DEF vars, TypeInv
<1> QED
  BY <1>1, <1>2, <1>3, ComesUpTypes, GoesDownTypes, CommandTypes, KillTypes DEF Next

LEMMA TypeAlways == Spec => []TypeInv
BY TypeInit, TypeNext, PTL DEF Spec

(* Every process, file and command of the lifecycle keeps its type whatever runs, stops, kills,  *)
(* faults and reboots interleave; the back-off record counts no start beyond its ladder.         *)
THEOREM TypeCorrect == Spec => []TypeOK
<1>1. TypeInv => TypeOK
  <2> SUFFICES ASSUME TypeInv PROVE TypeOK
    OBVIOUS
  <2>1. \A r \in Runs : proc[r] \in Process
    BY DEF TypeInv, ProcType
  <2>2. now \in 0..MaxTime /\ events \in 0..MaxEvents /\ boot \in 1..(MaxEvents + 1)
    BY Consts DEF TypeInv, ClockType
  <2>3. rec.owner \in 0..MaxRuns /\ rec.reason \in Reasons /\ backoff.starts \in 0..LastStep
    BY DEF TypeInv, FileType, RecordFile, BackoffFile
  <2> QED
    BY <2>1, <2>2, <2>3, Fields DEF TypeOK, TypeInv, FileType, HistoryType, Managers, Pcs
<1> QED
  BY <1>1, TypeAlways, PTL

-----------------------------------------------------------------------------
(* The shapes a step can have: what the actions have in common, for the invariants below. *)

\* A run is spawned.
Spawns(r) ==
    /\ Only(r)
    /\ proc[r].pc = "new" /\ proc'[r].pc \in {"guard", "lock"}
    /\ SameStop(proc'[r], proc[r]) /\ SameWork(proc'[r], proc[r]) /\ proc'[r].frozen = proc[r].frozen
    /\ proc'[r].origin = "service" => proc'[r].pc = "guard" /\ manager = "due" /\ manager' = "running"
    /\ proc'[r].origin # "service" => manager' = manager
    /\ starter'.pc = "clear" => starter.pc = "clear"
    /\ UNCHANGED <<now, boot, files, helper, history>>

\* What the files are when it goes one step up.
ClimbFiles(r) ==
    \/ /\ proc[r].pc = "guard" /\ proc'[r].pc = "backoff" /\ proc'[r].since = now + Remaining
       /\ UNCHANGED <<files, history>>
    \/ /\ proc[r].pc = "backoff" /\ proc'[r].pc = "lock"
       /\ now >= proc[r].since \/ Backoff.starts = 0
       /\ UNCHANGED <<files, history>>
    \/ /\ proc[r].pc = "lock" /\ proc'[r].pc = "queued"
       /\ UNCHANGED <<files, history>>
    \/ /\ proc[r].pc = "lock" /\ proc[r].origin = "app" /\ proc'[r].pc = "clean"
       /\ lock = 0 /\ lock' = r
       /\ UNCHANGED <<rec, intent, request, backoff, history>>
    \/ /\ proc[r].pc \in {"lock", "queued"} /\ proc'[r].pc = "recheck"
       /\ proc'[r].waited = proc[r].waited
       /\ lock = 0 /\ lock' = r
       /\ UNCHANGED <<rec, intent, request, backoff, history>>
    \/ /\ proc[r].pc = "recheck" /\ proc'[r].pc = "clean"
       /\ MayStart(r)
       /\ proc[r].origin # "service" => backoff' = backoff
       /\ UNCHANGED <<lock, rec, intent, request, history>>
    \/ /\ proc[r].pc = "clean" /\ proc'[r].pc = "record"
       /\ intent' = NoIntent /\ request' = NoRequest
       /\ held' = IF proc[r].origin = "service" THEN held ELSE 0
       /\ UNCHANGED <<lock, rec, backoff, plain, behind>>
    \/ /\ proc[r].pc = "record" /\ proc'[r].pc = "starting"
       /\ rec' = [owner |-> r, phase |-> "running", clean |-> FALSE, reason |-> "none"]
       /\ plain' = {} /\ behind' = {}
       /\ UNCHANGED <<lock, intent, request, backoff, held>>

Climbs(r) ==
    /\ Only(r)
    /\ proc[r].pc \in Before /\ proc'[r].pc \in Before \cup {"starting"}
    /\ proc'[r].origin = proc[r].origin
    /\ SameStop(proc'[r], proc[r]) /\ SameWork(proc'[r], proc[r]) /\ proc'[r].frozen = proc[r].frozen
    /\ ClimbFiles(r)
    /\ UNCHANGED <<now, boot, manager, commands>>

\* A bridge that is up goes on.
Advances(r) ==
    /\ Only(r)
    /\ proc[r].pc \in Up /\ proc'[r].pc \in Up
    /\ proc'[r].origin = proc[r].origin /\ SameStop(proc'[r], proc[r]) /\ proc'[r].frozen = proc[r].frozen
    /\ \/ proc'[r].sealed = proc[r].sealed /\ proc[r].pc = "starting"
       \/ proc'[r].pc = "after" /\ Quiet(proc'[r])
    /\ UNCHANGED <<now, boot, files, manager, commands, history>>

\* A stop begins, or one that has begun gets on.
Begins(r) ==
    /\ Only(r)
    /\ proc[r].pc \in Up /\ proc'[r].pc \in Up
    /\ proc'[r].pc = proc[r].pc \/ proc[r].pc = "serving"
    /\ SameStart(proc'[r], proc[r]) /\ SameWork(proc'[r], proc[r]) /\ proc'[r].frozen = proc[r].frozen
    /\ proc[r].reason # "none" => proc'[r].reason = proc[r].reason
    /\ proc[r].reason = "none" => proc'[r].reason # "none"
    /\ rec' \in RecordFile /\ rec'.owner = rec.owner /\ rec'.clean = rec.clean
    /\ proc[r].reason = "none" /\ rec.owner = r =>
          /\ rec'.phase = "stopping"
          /\ rec.reason = "none" => rec'.reason = proc'[r].reason
    /\ proc[r].reason # "none" \/ rec.owner # r => rec' = rec
    /\ plain' \subseteq plain \cup {r}
    /\ r \in plain' => r \in plain \/ proc'[r].reason = "user_stop"
    /\ starter'.pc = starter.pc
    /\ UNCHANGED <<now, boot, lock, intent, request, backoff, manager, helper, held, behind>>

\* A bridge writes "stopped" and lets go of bridge.json.
Stops(r) ==
    /\ Only(r)
    /\ proc[r].pc = "after" /\ proc'[r].pc = "leaving"
    /\ SameStart(proc'[r], proc[r]) /\ SameStop(proc'[r], proc[r]) /\ proc'[r].frozen = proc[r].frozen
    /\ proc'[r].sealed /\ (proc[r].sealed \/ Quiet(proc[r])) /\ proc'[r].work = proc[r].work /\ ~proc'[r].sup
    /\ rec' \in RecordFile /\ (rec.owner # r => rec' = rec)
    /\ rec.owner = r => rec'.owner = 0 /\ rec'.phase = "stopped" /\ rec'.reason = rec.reason
    /\ backoff' = NoBackoff
    /\ behind' = IF r \in plain THEN {q \in Runs : Can(q, "queued") /\ proc[q].waited} ELSE behind
    /\ plain' \subseteq plain
    /\ UNCHANGED <<now, boot, lock, intent, request, manager, commands, held>>

\* A process ends.
Falls(r) ==
    /\ Gone(r)
    /\ Alive(r)
    /\ lock' = IF lock = r THEN 0 ELSE lock
    /\ proc[r].origin # "service" => manager' = manager
    /\ proc[r].origin = "service" => manager' = "held" \/ (manager' = "due" /\ manager = "running")
    /\ rec'.owner = rec.owner /\ (rec' = rec \/ (proc[r].pc \in Up /\ rec.owner = r))
    /\ backoff' \in {backoff, NoBackoff}
    /\ starter'.pc = "clear" => starter.pc = "clear"
    /\ plain' \subseteq plain /\ behind' = behind
    /\ helper' = helper \/ \E h \in Helpers : KillKills(h) \/ KillStopsJob(h)
    /\ UNCHANGED <<now, boot, intent, request, held>>

\* What a kill helper does beside killing.
KillMove(h) ==
    \/ KillCommand(h) \/ StopEscalates(h) \/ KillPends(h) \/ KillAsks(h) \/ KillWaits(h) \/ KillStopsJob(h)
    \/ KillProbes(h) \/ KillCommits(h) \/ KillFreezes(h) \/ KillKills(h) \/ KillResumes(h) \/ KillUnintends(h) \/ KillWithdraws(h)
    \/ KillInterrupted(h) \/ HelperDies(h)

\* Nobody comes up or ends.
Calm(p, q) ==
    /\ p.pc = q.pc /\ SameStart(p, q) /\ p.reason = q.reason
    /\ p.sealed = q.sealed /\ (p.sup => q.sup)
    /\ p.work = "running" => q.work = "running" \/ ~q.sealed
AllCalm == proc' \in [Runs -> Process] /\ \A q \in Runs : Calm(proc'[q], proc[q])

Still ==
    /\ AllCalm
    /\ now' >= now /\ boot' = boot
    /\ \/ lock' = lock /\ (starter'.pc = "clear" => starter.pc = "clear")
       \/ lock = 0 /\ lock' = Starter
       \/ starter.pc = "clear" /\ starter'.pc # "clear" /\ lock' = 0
    /\ rec' = rec \/ (lock = 0 /\ rec'.owner = 0 /\ rec'.phase = rec.phase /\ rec'.reason = rec.reason)
    /\ backoff' \in {backoff, NoBackoff} \/ (backoff'.healthy /\ backoff'.boot = boot)
    /\ manager' \in {manager, "stopping"} \/ (manager = "held" /\ manager' = "due")
    /\ \/ /\ \A q \in Runs : proc'[q].frozen = proc[q].frozen
          /\ helper' = helper
          /\ request' = request \/ request'.by = "stop"
          /\ UNCHANGED <<intent, held>> \/ (intent' = NoIntent /\ held' = 0)
       \/ \E h \in Helpers : KillMove(h)
    /\ UNCHANGED <<plain, behind>>

LEMMA CalmOne ==
    ASSUME NEW r \in Runs, Only(r), Calm(proc'[r], proc[r])
    PROVE  AllCalm
<1>1. \A p : Calm(p, p)
  BY DEF Calm, SameStart
<1> QED
  BY <1>1 DEF AllCalm, Only

LEMMA CalmAll == ASSUME ProcType, UNCHANGED proc PROVE AllCalm
BY DEF ProcType, AllCalm, Calm, SameStart

\* An ended process has let go of what it held.
LEMMA FallsFrom ==
    ASSUME TypeInv, NEW r \in Runs, NEW code, Ended(r, code), Alive(r),
           UNCHANGED <<now, boot, rec, intent, request, backoff, history>>,
           starter'.pc = "clear" => starter.pc = "clear",
           helper' = helper \/ \E h \in Helpers : KillKills(h) \/ KillStopsJob(h)
    PROVE  Falls(r)
BY EndedFacts DEF Falls, TypeInv, history

\* A SIGTERM is noted, or ends the process.
LEMMA TerminatedShapes ==
    ASSUME TypeInv, NEW r \in Runs, Terminated(r),
           UNCHANGED <<now, boot, rec, intent, request, backoff, helper, history>>,
           starter'.pc = "clear" => starter.pc = "clear"
    PROVE  Falls(r) \/ Still
<1>1. CASE Noted(r) /\ UNCHANGED <<lock, manager>>
  <2>1. Only(r) /\ Calm(proc'[r], proc[r]) /\ proc'[r].frozen = proc[r].frozen
    BY <1>1, NotedFacts DEF TypeInv, Calm, SameWork
  <2>2. AllCalm /\ \A q \in Runs : proc'[q].frozen = proc[q].frozen
    BY <2>1, CalmOne DEF Only
  <2>3. now \in Nat
    BY Waits
  <2> QED
    BY <1>1, <2>2, <2>3 DEF Still, history
<1>2. CASE proc[r].pc \in Before \cup {"starting", "after", "leaving"} /\ \E code \in {0, 1} : Ended(r, code)
  <2>1. Alive(r)
    BY <1>2 DEF Before, Alive
  <2> QED
    BY <1>2, <2>1, FallsFrom
<1> QED
  BY <1>1, <1>2, TerminatedFacts DEF TypeInv

LEMMA RunShapes ==
    ASSUME TypeInv, NEW r \in Runs,
           \/ ManagerStarts(r) \/ RunByHand(r) \/ ComesUp(r) \/ StartupFails(r) \/ MarkHealthy(r)
           \/ Admit(r) \/ SpawnTracked(r) \/ IdleStop(r) \/ OsSignal(r) \/ CtrlC(r) \/ GoesDown(r) \/ Dies(r)
    PROVE  Spawns(r) \/ Climbs(r) \/ Advances(r) \/ Begins(r) \/ Stops(r) \/ Falls(r) \/ Still
<1> USE DEF TypeInv
<1>0. /\ Pcs = {"new", "ended", "leaving"} \cup Before \cup Up
      /\ Before = {"lock", "guard", "backoff", "queued", "recheck", "clean", "record"}
      /\ Up = {"starting", "serving", "draining", "after"} /\ Origins = {"app", "cli", "service"}
      /\ {"idle_timeout", "os_signal", "unknown"} \subseteq Reasons \ {"none"}
      /\ now \in Nat
  BY Waits DEF Pcs, Before, Up, Origins, Reasons
<1>p. proc[r] \in Process /\ rec \in RecordFile
  BY DEF ProcType, FileType
<1>a. ASSUME proc[r].pc \in Before \cup Up \cup {"leaving"} PROVE Alive(r)
  BY <1>0, <1>a DEF Alive
<1>1. CASE ManagerStarts(r)
  <2>1. Started(r, "service", "guard") /\ proc[r].pc = "new"
    BY <1>1 DEF ManagerStarts, Fresh
  <2> QED
    BY <1>0, <1>1, <2>1, StartedFacts DEF ManagerStarts, Spawns, commands
<1>2. CASE RunByHand(r)
  <2>1. Started(r, "cli", "lock") /\ proc[r].pc = "new"
    BY <1>2 DEF RunByHand, Fresh
  <2> QED
    BY <1>0, <1>2, <2>1, StartedFacts DEF RunByHand, Spawns, commands
<1>3. CASE Guard(r)
  <2>1. CASE Ended(r, 0)
    BY <1>0, <1>3, <1>a, <2>1, FallsFrom DEF Guard, Can, commands
  <2>2. CASE proc' = [proc EXCEPT ![r].pc = "backoff", ![r].since = now + Remaining] /\ UNCHANGED <<lock, manager>>
    <3>1. now + Remaining \in Nat /\ "backoff" \in Pcs
      BY <1>0, Waits
    <3>2. ClimbFiles(r)
      BY <1>3, <2>2, <3>1, SinceFacts DEF Guard, Can, ClimbFiles, files
    <3> QED
      BY <1>0, <1>3, <2>2, <3>1, <3>2, SinceFacts DEF Guard, Can, Climbs
  <2> QED
    BY <1>3, <2>1, <2>2 DEF Guard
<1>4. CASE BackoffWait(r)
  <2>1. CASE Ended(r, 0)
    BY <1>0, <1>4, <1>a, <2>1, FallsFrom DEF BackoffWait, Can, commands
  <2>2. CASE /\ now >= proc[r].since \/ Backoff.starts = 0
             /\ proc' = [proc EXCEPT ![r].pc = "lock", ![r].since = 0] /\ UNCHANGED <<lock, manager>>
    <3>1. ClimbFiles(r)
      BY <1>0, <1>4, <2>2, SinceFacts DEF BackoffWait, Can, ClimbFiles, files
    <3>d. "lock" \in Pcs /\ "lock" \in Before /\ 0 \in Nat
      BY <1>0
    <3>e. /\ Only(r) /\ proc'[r].pc = "lock" /\ proc'[r].origin = proc[r].origin
          /\ SameStop(proc'[r], proc[r]) /\ SameWork(proc'[r], proc[r]) /\ proc'[r].frozen = proc[r].frozen
      BY <1>4, <2>2, <3>d, SinceFacts
    <3>f. proc[r].pc \in Before /\ proc'[r].pc \in Before
      BY <1>0, <1>4, <2>2, <3>d, <3>e DEF BackoffWait, Can
    <3> QED
      BY <1>4, <2>2, <3>1, <3>e, <3>f DEF BackoffWait, Climbs
  <2> QED
    BY <1>4, <2>1, <2>2 DEF BackoffWait
<1>5. CASE RunnerLock(r)
  <2>1. CASE Ended(r, 2)
    BY <1>0, <1>5, <1>a, <2>1, FallsFrom DEF RunnerLock, Can, commands
  <2>2. CASE ~(IsRunning \/ lock # 0)
    <3>1. lock = 0 /\ lock' = r /\ Goto(r, "clean") /\ UNCHANGED manager /\ proc[r].pc = "lock" /\ proc[r].origin = "app"
      BY <1>5, <2>2 DEF RunnerLock, Can
    <3>2. ClimbFiles(r)
      BY <1>0, <1>5, <3>1, GotoFacts DEF RunnerLock, ClimbFiles
    <3> QED
      BY <1>0, <1>5, <3>1, <3>2, GotoFacts DEF RunnerLock, Climbs, SameStart
  <2> QED
    BY <1>5, <2>1, <2>2 DEF RunnerLock
<1>6. CASE RunLock(r)
  <2>1. CASE lock = 0
    <3>1. lock' = r /\ Goto(r, "recheck") /\ proc[r].pc = "lock"
      BY <1>6, <2>1 DEF RunLock, Can
    <3>2. ClimbFiles(r)
      BY <1>0, <1>6, <2>1, <3>1, GotoFacts DEF RunLock, ClimbFiles, SameStart
    <3> QED
      BY <1>0, <1>6, <3>1, <3>2, GotoFacts DEF RunLock, Climbs, SameStart
  <2>2. CASE lock # 0
    <3>1. proc' = [proc EXCEPT ![r].pc = "queued", ![r].waited = IsRunning] /\ UNCHANGED lock /\ proc[r].pc = "lock"
      BY <1>6, <2>2 DEF RunLock, Can
    <3>2. IsRunning \in BOOLEAN
      BY DEF IsRunning, Alive
    <3>3. ClimbFiles(r)
      BY <1>0, <1>6, <3>1, <3>2, WaitedFacts DEF RunLock, ClimbFiles, files
    <3>d. "queued" \in Pcs /\ "queued" \in Before
      BY <1>0
    <3>e. /\ Only(r) /\ proc'[r].pc = "queued" /\ proc'[r].origin = proc[r].origin
          /\ SameStop(proc'[r], proc[r]) /\ SameWork(proc'[r], proc[r]) /\ proc'[r].frozen = proc[r].frozen
      BY <3>1, <3>2, <3>d, WaitedFacts
    <3>f. proc[r].pc \in Before /\ proc'[r].pc \in Before
      BY <1>0, <3>1, <3>2, <3>d, <3>e
    <3> QED
      BY <1>6, <3>3, <3>e, <3>f DEF RunLock, Climbs
  <2> QED
    BY <2>1, <2>2
<1>7. CASE RunUnqueued(r)
  <2>1. Goto(r, "recheck") /\ proc[r].pc = "queued"
    BY <1>7 DEF RunUnqueued, Can
  <2>2. ClimbFiles(r)
    BY <1>0, <1>7, <2>1, GotoFacts DEF RunUnqueued, ClimbFiles, SameStart
  <2>3. "recheck" \in Pcs /\ "recheck" \in Before /\ "queued" \in Before
    BY <1>0
  <2>4. /\ Only(r) /\ proc'[r].pc = "recheck" /\ proc'[r].origin = proc[r].origin
        /\ SameStop(proc'[r], proc[r]) /\ SameWork(proc'[r], proc[r]) /\ proc'[r].frozen = proc[r].frozen
    BY <1>0, <2>1, <2>3, GotoFacts DEF SameStart
  <2>5. UNCHANGED <<now, boot, manager, commands>>
    BY <1>7 DEF RunUnqueued
  <2>6. proc[r].pc \in Before /\ proc'[r].pc \in Before
    BY <2>1, <2>3, <2>4
  <2> QED
    BY <2>2, <2>4, <2>5, <2>6 DEF Climbs
<1>8. CASE Recheck(r)
  <2>1. CASE ~MayStart(r)
    BY <1>0, <1>8, <1>a, <2>1, FallsFrom DEF Recheck, Can, commands
  <2>2. CASE MayStart(r)
    <3>1. proc' = [proc EXCEPT ![r].pc = "clean", ![r].waited = FALSE] /\ proc[r].pc = "recheck"
      BY <1>8, <2>2 DEF Recheck, Can
    <3>2. ClimbFiles(r)
      BY <1>0, <1>8, <2>2, <3>1, WaitedFacts DEF Recheck, ClimbFiles
    <3>d. "clean" \in Pcs /\ "clean" \in Before /\ FALSE \in BOOLEAN
      BY <1>0
    <3>e. /\ Only(r) /\ proc'[r].pc = "clean" /\ proc'[r].origin = proc[r].origin
          /\ SameStop(proc'[r], proc[r]) /\ SameWork(proc'[r], proc[r]) /\ proc'[r].frozen = proc[r].frozen
      BY <3>1, <3>d, WaitedFacts
    <3>f. proc[r].pc \in Before /\ proc'[r].pc \in Before
      BY <1>0, <3>1, <3>d, <3>e
    <3> QED
      BY <1>8, <2>2, <3>2, <3>e, <3>f DEF Recheck, Climbs
  <2> QED
    BY <2>1, <2>2
<1>9. CASE Clean(r)
  <2>1. Goto(r, "record") /\ proc[r].pc = "clean"
    BY <1>9 DEF Clean, Can
  <2>2. ClimbFiles(r)
    BY <1>0, <1>9, <2>1, GotoFacts DEF Clean, ClimbFiles
  <2> QED
    BY <1>0, <1>9, <2>1, <2>2, GotoFacts DEF Clean, Climbs, SameStart
<1>10. CASE Record(r)
  <2>1. Goto(r, "starting") /\ proc[r].pc = "record"
    BY <1>10 DEF Record, Can
  <2>2. ClimbFiles(r)
    BY <1>0, <1>10, <2>1, GotoFacts DEF Record, ClimbFiles
  <2> QED
    BY <1>0, <1>10, <2>1, <2>2, GotoFacts DEF Record, Climbs, SameStart
<1>11. CASE ServerStarts(r)
  <2>1. /\ Only(r) /\ proc[r].pc = "starting" /\ proc'[r].pc = "serving" /\ proc'[r].origin = proc[r].origin
        /\ proc'[r].sealed = proc[r].sealed /\ SameStop(proc'[r], proc[r]) /\ proc'[r].frozen = proc[r].frozen
    BY <1>0, <1>11, ServesFacts
  <2> QED
    BY <1>0, <1>11, <2>1 DEF ServerStarts, Advances
<1>12. CASE StartupFails(r)
  <2>1. Goto(r, "after") /\ proc[r].pc = "starting"
    BY <1>12 DEF StartupFails, Can
  <2> QED
    BY <1>0, <1>12, <2>1, GotoFacts DEF StartupFails, Advances, SameStart, SameWork
<1>13. CASE MarkHealthy(r)
  <2>1. AllCalm
    BY <1>13, CalmAll DEF MarkHealthy
  <2>2. backoff'.healthy /\ backoff'.boot = boot
    BY <1>13 DEF MarkHealthy
  <2> QED
    BY <1>0, <1>13, <2>1, <2>2 DEF MarkHealthy, Still, commands, history
<1>s. ASSUME AllCalm, UNCHANGED <<now, boot, files, manager, commands, history>>, \A q \in Runs : proc'[q].frozen = proc[q].frozen
      PROVE  Still
  BY <1>0, <1>s DEF Still, files, commands, history
<1>14. CASE Admit(r)
  <2>1. Only(r) /\ Calm(proc'[r], proc[r]) /\ proc'[r].frozen = proc[r].frozen
    BY <1>14, WorkFacts DEF Admit, Calm, SameStop
  <2> QED
    BY <1>14, <1>s, <2>1, CalmOne DEF Admit, Only
<1>15. CASE SpawnTracked(r) \/ WorkStarts(r)
  <2>1. proc' = [proc EXCEPT ![r] = Register(@)]
    BY <1>15 DEF SpawnTracked, WorkStarts
  <2>2. Only(r) /\ Calm(proc'[r], proc[r]) /\ proc'[r].frozen = proc[r].frozen
    BY <2>1, RegisterFacts DEF Calm, SameStop
  <2> QED
    BY <1>15, <1>s, <2>2, CalmOne DEF SpawnTracked, WorkStarts, Only
<1>16. CASE IdleStop(r)
  <2>1. Stopping(r, "idle_timeout", "serving") /\ proc[r].pc = "serving"
    BY <1>16 DEF IdleStop, Can
  <2> QED
    BY <1>0, <1>16, <2>1, StoppingFacts DEF IdleStop, Begins, commands, history
<1>17. CASE OsSignal(r)
  <2>1. /\ Terminated(r) /\ starter' = starter
        /\ UNCHANGED <<now, boot, rec, intent, request, backoff, helper, history>>
    BY <1>17 DEF OsSignal, commands
  <2> QED
    BY <2>1, TerminatedShapes
<1>18. CASE CtrlC(r)
  <2>1. UNCHANGED <<now, boot, rec, intent, request, backoff, commands, events, history>>
    BY <1>18 DEF CtrlC
  <2>2. ASSUME UNCHANGED <<lock, manager>>, NEW x \in {"term", "int", "int2"}, proc' = [proc EXCEPT ![r].signal = x]
        PROVE  Still
    <3>1. Only(r) /\ Calm(proc'[r], proc[r]) /\ proc'[r].frozen = proc[r].frozen
      BY <2>2, SignalFacts DEF Calm, SameWork
    <3> QED
      BY <1>s, <2>1, <2>2, <3>1, CalmOne DEF files, Only
  <2>3. CASE Can(r, "after") /\ Ended(r, 1)
    BY <1>0, <2>1, <2>3, FallsFrom DEF Can, Alive, commands, history
  <2> QED
    BY <1>18, <2>2, <2>3 DEF CtrlC, ProcType
<1>19. CASE MonitorStops(r)
  <2>1. Stopping(r, "os_signal", proc[r].pc) /\ proc[r].pc \in Up
    BY <1>19 DEF MonitorStops
  <2> QED
    BY <1>0, <1>19, <2>1, StoppingFacts DEF MonitorStops, Begins, commands, history
<1>20. CASE MonitorExits(r)
  <2>1. /\ proc[r].pc \in Up /\ HardExit(r, "hard_exit") /\ FileType'
        /\ UNCHANGED <<now, boot, intent, request, commands, history>>
    BY <1>20, HardExitFacts DEF MonitorExits
  <2> QED
    BY <1>0, <1>a, <2>1, HardExitFacts DEF Falls, commands, history
<1>21. CASE SupervisorEnds(r)
  <2>1. Only(r) /\ Calm(proc'[r], proc[r]) /\ proc'[r].frozen = proc[r].frozen
    BY <1>21, SupFacts DEF Calm, SameStop
  <2> QED
    BY <1>21, <1>s, <2>1, CalmOne DEF SupervisorEnds, Only
<1>22. CASE WorkEnds(r)
  <2>1. Only(r) /\ Calm(proc'[r], proc[r]) /\ proc'[r].frozen = proc[r].frozen
    BY <1>22, WorkFacts DEF WorkEnds, Calm, SameStop
  <2> QED
    BY <1>22, <1>s, <2>1, CalmOne DEF WorkEnds, Only
<1>23. CASE Drain(r)
  <2>1. PICK why \in {"unknown", "os_signal"} : Stopping(r, why, "draining") /\ proc[r].pc = "serving"
    BY <1>23 DEF Drain, Can
  <2> QED
    BY <1>0, <1>23, <2>1, StoppingFacts DEF Drain, Begins, commands, history
<1>24. CASE Seal(r)
  <2>1. /\ proc' = [proc EXCEPT ![r].pc = "after", ![r].sealed = TRUE] /\ proc[r].pc = "draining"
        /\ ~proc[r].sup /\ proc[r].work # "running"
    BY <1>24 DEF Seal, Can
  <2> QED
    BY <1>0, <1>24, <2>1, SealedFacts DEF Seal, Advances, SameStart, Quiet
<1>25. CASE AfterRun(r)
  <2>1. /\ plain' \subseteq plain /\ proc[r].pc = "after"
        /\ UNCHANGED <<now, boot, intent, request, commands, events, held>>
    BY <1>25 DEF AfterRun, Can
  <2>2. CASE (HardExit(r, "crash") \/ HardExit(r, "hard_exit")) /\ UNCHANGED behind
    BY <1>0, <1>a, <2>1, <2>2, HardExitFacts DEF Falls, commands
  <2>3. CASE /\ proc[r].sealed \/ Quiet(proc[r])
             /\ ~proc[r].sup
             /\ proc' = [proc EXCEPT ![r].pc = "leaving", ![r].sealed = TRUE]
             /\ rec' = IF rec.owner = r THEN [rec EXCEPT !.owner = 0, !.phase = "stopped", !.clean = TRUE] ELSE rec
             /\ backoff' = NoBackoff
             /\ behind' = IF r \in plain THEN {q \in Runs : Can(q, "queued") /\ proc[q].waited} ELSE behind
             /\ UNCHANGED <<lock, manager>>
    <3>1. /\ rec' \in RecordFile /\ (rec.owner # r => rec' = rec)
          /\ rec.owner = r => rec'.owner = 0 /\ rec'.phase = "stopped" /\ rec'.reason = rec.reason
      BY <1>p, <2>3, Consts DEF RecordFile
    <3>2. Only(r) /\ proc'[r].pc = "leaving"
          /\ SameStart(proc'[r], proc[r]) /\ SameStop(proc'[r], proc[r]) /\ proc'[r].frozen = proc[r].frozen
          /\ proc'[r].sealed /\ proc'[r].work = proc[r].work /\ proc'[r].sup = proc[r].sup
      BY <1>0, <2>3, SealedFacts
    <3> QED
      BY <2>1, <2>3, <3>1, <3>2 DEF Stops
  <2> QED
    BY <1>25, <2>2, <2>3 DEF AfterRun
<1>26. CASE Leave(r)
  BY <1>a, <1>26, FallsFrom DEF Leave, Can, commands
<1>27. CASE Dies(r)
  BY <1>27, FallsFrom DEF Dies, commands
<1> QED
  BY <1>1, <1>2, <1>3, <1>4, <1>5, <1>6, <1>7, <1>8, <1>9, <1>10, <1>11, <1>12, <1>13, <1>14, <1>15, <1>16, <1>17,
     <1>18, <1>19, <1>20, <1>21, <1>22, <1>23, <1>24, <1>25, <1>26, <1>27 DEF ComesUp, GoesDown

LEMMA CommandShapes ==
    ASSUME TypeInv, StartCommand \/ StartStep \/ StopCommand \/ StopStep
    PROVE  Still \/ \E r \in Runs : Spawns(r) \/ Begins(r) \/ Falls(r)
<1> USE DEF TypeInv
<1>0. /\ now \in Nat /\ {"user_stop", "manual_restart"} \subseteq Reasons \ {"none"} /\ "serving" \in Pcs /\ "serving" \in Up
      /\ "app" \in Origins /\ "lock" \in Pcs
      /\ stopper \in StopCmd /\ (stopper.pc # "idle" => stopper.target \in Runs /\ stopper.why # "none")
      /\ starter \in StartCmd /\ (starter.pc = "await" => starter.child \in Runs)
  BY Waits DEF Reasons, Pcs, Up, Before, Origins, CommandType
<1>s. [IdleStarter EXCEPT !.pc = "lock"].pc # "clear" /\ IdleStarter.pc # "clear"
  BY DEF IdleStarter
<1>r. ASSUME NEW ok, StopReturns(ok) PROVE starter'.pc = "clear" => starter.pc = "clear"
  BY <1>s, <1>r DEF StopReturns
<1>q. ASSUME UNCHANGED <<now, boot, proc, lock, rec, backoff, manager, helper, plain, behind>>,
             request' = request \/ request'.by = "stop",
             UNCHANGED <<intent, held>>,
             starter'.pc = "clear" => starter.pc = "clear"
      PROVE  Still
  BY <1>0, <1>q, CalmAll DEF Still
<1>1. CASE StartCommand
  BY <1>1, <1>q, <1>s DEF StartCommand, files, history
<1>2. CASE StartLock
  <2>1. CASE starter' = IdleStarter /\ UNCHANGED lock
    BY <1>2, <1>q, <1>s, <2>1 DEF StartLock, history
  <2>2. CASE ~(IsRunning \/ lock # 0)
    <3>1. lock = 0 /\ lock' = Starter
      BY <1>2, <2>2 DEF StartLock
    <3> QED
      BY <1>0, <1>2, <3>1, CalmAll DEF StartLock, Still, history
  <2> QED
    BY <1>2, <2>1, <2>2 DEF StartLock
<1>3. CASE StartClear
  <2>1. starter.pc = "clear" /\ starter'.pc # "clear" /\ lock' = 0
    BY <1>0, <1>3 DEF StartClear, StartCmd
  <2> QED
    BY <1>0, <1>3, <2>1, CalmAll DEF StartClear, Still
<1>4. CASE StartService
  BY <1>0, <1>4, <1>s, CalmAll DEF StartService, Still
<1>5. ASSUME NEW r \in Runs, StartDetached(r) PROVE Spawns(r)
  <2>1. Started(r, "app", "lock") /\ proc[r].pc = "new" /\ starter'.pc # "clear"
    BY <1>5 DEF StartDetached, Fresh
  <2> QED
    BY <1>0, <1>5, <2>1, StartedFacts DEF StartDetached, Spawns
<1>6. CASE StartAwaits
  <2>0. starter'.pc # "clear" /\ starter.child \in Runs
    BY <1>0, <1>6, <1>s DEF StartAwaits
  <2>1. CASE UNCHANGED <<proc, lock, manager>>
    BY <1>6, <1>q, <2>0, <2>1 DEF StartAwaits, history
  <2>2. CASE Terminated(starter.child)
    BY <1>6, <2>0, <2>2, TerminatedShapes DEF StartAwaits
  <2> QED
    BY <1>6, <2>1, <2>2 DEF StartAwaits
<1>7. CASE StopCommand
  BY <1>7, <1>q DEF StopCommand, files, history
<1>8. CASE StopClearsStale
  <2>1. rec' = rec \/ (lock = 0 /\ rec'.owner = 0 /\ rec'.phase = rec.phase /\ rec'.reason = rec.reason)
    BY <1>8 DEF StopClearsStale, StaleRecordCleared, FileType, RecordFile
  <2>2. starter'.pc = "clear" => starter.pc = "clear"
    BY <1>8, <1>r DEF StopClearsStale
  <2> QED
    BY <1>0, <1>8, <2>1, <2>2, CalmAll DEF StopClearsStale, Still, history
<1>9. CASE StopRequests
  <2> DEFINE r == stopper.target
  <2>0. r \in Runs /\ stopper.why \in {"user_stop", "manual_restart"}
    BY <1>0, <1>9 DEF StopRequests, StopCmd
  <2>1. UNCHANGED <<now, boot, intent, request, backoff, starter, helper, events, held, behind>>
    BY <1>9 DEF StopRequests
  <2>2. CASE /\ Can(r, "serving")
             /\ Stopping(r, stopper.why, "serving")
             /\ plain' = IF proc[r].reason = "none" /\ stopper.why = "user_stop" THEN plain \cup {r} ELSE plain
             /\ UNCHANGED <<lock, manager>>
    <3>1. proc[r].pc = "serving" /\ Stopping(r, stopper.why, "serving")
      BY <2>2 DEF Can
    <3> HIDE DEF r
    <3>2. /\ plain' \subseteq plain \cup {r}
          /\ r \in plain' => r \in plain \/ (proc[r].reason = "none" /\ stopper.why = "user_stop")
      BY <2>2
    <3>3. proc[r].reason \in Reasons
      BY <2>0, Fields DEF ProcType
    <3> QED
      BY <1>0, <2>0, <2>1, <2>2, <3>1, <3>2, <3>3, StoppingFacts DEF Begins
  <2>3. CASE UNCHANGED <<proc, rec, lock, manager, plain>>
    BY <1>q, <2>1, <2>3
  <2>4. CASE Terminated(r) /\ UNCHANGED <<rec, plain>>
    BY <2>0, <2>1, <2>4, TerminatedShapes DEF history
  <2> QED
    BY <1>9, <2>2, <2>3, <2>4 DEF StopRequests
<1>10. CASE StopWatches
  <2>1. CASE (\E ok \in BOOLEAN : StopReturns(ok)) /\ UNCHANGED request
    BY <1>10, <1>q, <1>r, <2>1 DEF StopWatches, history
  <2>2. CASE request' = [target |-> stopper.target, by |-> "stop"] /\ UNCHANGED starter
    BY <1>10, <1>q, <2>2 DEF StopWatches, history
  <2> QED
    BY <1>10, <2>1, <2>2 DEF StopWatches
<1>11. ASSUME NEW h \in Helpers, StopEscalates(h) PROVE Still
  <2>1. KillMove(h)
    BY <1>11 DEF KillMove
  <2> QED
    BY <1>0, <1>11, <2>1, CalmAll DEF StopEscalates, Still, files, history
<1>12. CASE StopKilled
  <2>1. starter'.pc = "clear" => starter.pc = "clear"
    BY <1>12, <1>r DEF StopKilled
  <2> QED
    BY <1>12, <1>q, <2>1 DEF StopKilled, files, history
<1> QED
  BY <1>1, <1>2, <1>3, <1>4, <1>5, <1>6, <1>7, <1>8, <1>9, <1>10, <1>11, <1>12 DEF StartStep, StopStep

LEMMA KillShapes ==
    ASSUME TypeInv, NEW h \in Helpers, KillCommand(h) \/ KillStep(h) \/ KillInterrupted(h) \/ HelperDies(h)
    PROVE  Still \/ \E r \in Runs : Falls(r)
<1> USE DEF TypeInv
<1>0. now \in Nat /\ helper \in [Helpers -> KillCmd] /\ \A g \in Helpers : Active(g) => helper[g].target \in Runs
  BY Waits DEF CommandType
<1>m. KillMove(h)
  BY DEF KillMove, KillStep
<1>q. ASSUME AllCalm, UNCHANGED <<now, boot, lock, rec, backoff, starter, plain, behind>>, manager' \in {manager, "stopping"}
      PROVE  Still
  BY <1>0, <1>m, <1>q DEF Still
<1>d. ASSUME NEW o, CalledOff(h, o) PROVE Still
  BY <1>d, <1>q, CalmAll DEF CalledOff, files
<1>1. CASE \/ KillCommand(h) \/ KillPends(h) \/ KillAsks(h) \/ KillWaits(h) \/ KillCommits(h)
           \/ KillUnintends(h) \/ KillWithdraws(h) \/ HelperDies(h)
  <2>1. UNCHANGED <<now, boot, proc, lock, rec, backoff, manager, starter, plain, behind>>
    BY <1>1 DEF KillCommand, KillPends, KillAsks, KillWaits, KillCommits, KillUnintends, KillWithdraws, HelperDies, files, history
  <2> QED
    BY <1>q, <2>1, CalmAll
<1>2. CASE KillStopsJob(h)
  <2>0. helper[h].target \in Runs /\ UNCHANGED <<now, boot, rec, intent, request, backoff, starter, stopper, history>>
    BY <1>0, <1>2 DEF KillStopsJob, Active
  <2>1. CASE Noted(helper[h].target) /\ manager' = "stopping" /\ UNCHANGED lock
    <3>1. AllCalm
      BY <2>0, <2>1, NotedFacts, CalmOne DEF Calm, SameWork
    <3> QED
      BY <1>q, <2>0, <2>1, <3>1 DEF history
  <2>2. CASE proc[helper[h].target].pc \in {"starting", "after", "leaving"} /\ Ended(helper[h].target, 0)
    <3>1. Alive(helper[h].target)
      BY <2>0, <2>2 DEF Alive
    <3> QED
      BY <1>2, <2>0, <2>2, <3>1, FallsFrom
  <2>3. CASE UNCHANGED <<proc, lock, manager>>
    BY <1>q, <2>0, <2>3, CalmAll DEF history
  <2> QED
    BY <1>2, <2>1, <2>2, <2>3 DEF KillStopsJob
<1>3. CASE KillProbes(h)
  <2>1. CASE UNCHANGED <<now, boot, proc, files, manager, starter, history>>
    BY <1>q, <2>1, CalmAll DEF files, history
  <2> QED
    BY <1>3, <1>d, <2>1 DEF KillProbes
<1>4. CASE KillFreezes(h) \/ KillResumes(h)
  <2>0. helper[h].target \in Runs
    BY <1>0, <1>4 DEF KillFreezes, KillResumes, Active
  <2>1. ASSUME NEW b \in BOOLEAN, proc' = [proc EXCEPT ![helper[h].target].frozen = b],
               UNCHANGED <<now, boot, files, manager, starter, history>>
        PROVE  Still
    <3>1. /\ Only(helper[h].target)
          /\ LET q == helper[h].target IN
             proc'[q].pc = proc[q].pc /\ SameStart(proc'[q], proc[q]) /\ SameStop(proc'[q], proc[q]) /\ SameWork(proc'[q], proc[q])
      BY <2>0, <2>1, FrozenFacts
    <3>2. AllCalm
      BY <2>0, <3>1, CalmOne DEF Calm, SameStop, SameWork
    <3> QED
      BY <1>q, <2>1, <3>2 DEF files, history
  <2>2. CASE UNCHANGED <<now, boot, proc, files, manager, starter, history>>
    BY <1>q, <2>2, CalmAll DEF files, history
  <2> QED
    BY <1>4, <1>d, <2>1, <2>2 DEF KillFreezes, KillResumes
<1>5. CASE KillKills(h)
  <2>0. helper[h].target \in Runs
    BY <1>0, <1>5 DEF KillKills, Active
  <2>1. CASE Alive(helper[h].target)
    <3>1. PICK code \in {0, 1} : Ended(helper[h].target, code)
      BY <1>5, <2>1 DEF KillKills
    <3> QED
      BY <1>5, <2>0, <2>1, <3>1, FallsFrom DEF KillKills
  <2>2. CASE ~Alive(helper[h].target)
    <3>1. UNCHANGED <<proc, lock, manager>>
      BY <1>5, <2>2 DEF KillKills
    <3> QED
      BY <1>5, <1>q, <3>1, CalmAll DEF KillKills, history
  <2> QED
    BY <2>1, <2>2
<1>6. CASE KillInterrupted(h)
  BY <1>6, <1>d DEF KillInterrupted
<1> QED
  BY <1>1, <1>2, <1>3, <1>4, <1>5, <1>6 DEF KillStep

LEMMA Shapes ==
    ASSUME TypeInv, [Next]_vars
    PROVE  \/ Still \/ Reboot
           \/ \E r \in Runs : Spawns(r) \/ Climbs(r) \/ Advances(r) \/ Begins(r) \/ Stops(r) \/ Falls(r)
<1>0. now \in Nat
  BY Waits
<1>1. CASE Tick
  <2>1. now' >= now
    BY <1>0, <1>1 DEF Tick
  <2> QED
    BY <1>1, <2>1, CalmAll DEF Tick, TypeInv, Still, files, commands, history
<1>2. CASE UNCHANGED vars
  BY <1>0, <1>2, CalmAll DEF vars, TypeInv, Still, files, commands, history
<1>3. CASE StartCommand \/ StartStep \/ StopCommand \/ StopStep
  BY <1>3, CommandShapes
<1>4. ASSUME NEW h \in Helpers, KillCommand(h) \/ KillStep(h) \/ KillInterrupted(h) \/ HelperDies(h)
      PROVE  Still \/ \E r \in Runs : Falls(r)
  BY <1>4, KillShapes
<1>5. ASSUME NEW r \in Runs,
             \/ ManagerStarts(r) \/ RunByHand(r) \/ ComesUp(r) \/ StartupFails(r) \/ MarkHealthy(r)
             \/ Admit(r) \/ SpawnTracked(r) \/ IdleStop(r) \/ OsSignal(r) \/ CtrlC(r) \/ GoesDown(r) \/ Dies(r)
      PROVE  Spawns(r) \/ Climbs(r) \/ Advances(r) \/ Begins(r) \/ Stops(r) \/ Falls(r) \/ Still
  BY <1>5, RunShapes
<1> QED
  BY <1>1, <1>2, <1>3, <1>4, <1>5 DEF Next

-----------------------------------------------------------------------------
(* The bridge lock. *)

\* A run holds the lock from the recheck to its end, and a start command while it clears.
Holding == {"recheck", "clean", "record", "leaving"} \cup Up
LockInv ==
    /\ \A r \in Runs : proc[r].pc \in Holding => lock = r
    /\ starter.pc = "clear" => lock = Starter
    /\ OwnRecord

LEMMA LockInit == Init => LockInv
BY DEF Init, Blank, IdleStarter, LockInv, Holding, Up, OwnRecord

LEMMA LockNext == TypeInv /\ LockInv /\ [Next]_vars => LockInv'
<1> SUFFICES ASSUME TypeInv, LockInv, [Next]_vars PROVE LockInv'
  OBVIOUS
<1>0. /\ Holding = {"recheck", "clean", "record", "leaving"} \cup Up /\ Up = {"starting", "serving", "draining", "after"}
      /\ Before = {"lock", "guard", "backoff", "queued", "recheck", "clean", "record"}
  BY DEF Holding, Up, Before
<1>1. /\ \A q \in Runs : proc[q].pc \in Holding => lock = q
      /\ \A q \in Runs : proc[q].pc \in Up => lock = q /\ rec.owner = q /\ ~rec.clean
      /\ starter.pc = "clear" => lock = Starter
  BY DEF LockInv, OwnRecord
<1>2. ASSUME NEW r \in Runs, Falls(r) PROVE LockInv'
  <2>1. [Blank EXCEPT !.pc = "ended"].pc = "ended"
    BY DEF Blank
  <2>2. /\ proc'[r].pc = "ended" /\ \A q \in Runs \ {r} : proc'[q] = proc[q]
        /\ lock' = IF lock = r THEN 0 ELSE lock
        /\ rec' = rec \/ (rec.owner = r /\ proc[r].pc \in Up)
        /\ starter'.pc = "clear" => starter.pc = "clear"
    BY <1>2, <2>1 DEF Falls, Gone, Only
  <2> QED
    BY <1>0, <1>1, <2>2, Consts DEF LockInv, OwnRecord
<1>3. CASE Still
  <2>1. \A q \in Runs : proc'[q].pc = proc[q].pc
    BY <1>3 DEF Still, AllCalm, Calm
  <2>2. \/ lock' = lock /\ (starter'.pc = "clear" => starter.pc = "clear")
        \/ lock = 0 /\ lock' = Starter
        \/ starter.pc = "clear" /\ starter'.pc # "clear" /\ lock' = 0
    BY <1>3 DEF Still
  <2>3. rec' = rec \/ lock = 0
    BY <1>3 DEF Still
  <2> QED
    BY <1>0, <1>1, <2>1, <2>2, <2>3, Consts DEF LockInv, OwnRecord
<1>4. CASE Reboot
  <2>1. \A q \in Runs : proc'[q].pc \in {"new", "ended"}
    BY <1>4, RebootFacts DEF Alive
  <2>2. starter'.pc = "idle"
    BY <1>4 DEF Reboot, IdleStarter
  <2> QED
    BY <1>0, <2>1, <2>2 DEF LockInv, OwnRecord
<1>5. ASSUME NEW r \in Runs, Spawns(r) PROVE LockInv'
  <2>1. proc'[r].pc \in {"guard", "lock"} /\ (\A q \in Runs \ {r} : proc'[q] = proc[q])
        /\ UNCHANGED <<lock, rec>> /\ (starter'.pc = "clear" => starter.pc = "clear")
    BY <1>5 DEF Spawns, Only, files
  <2> QED
    BY <1>0, <1>1, <2>1 DEF LockInv, OwnRecord
<1>6. ASSUME NEW r \in Runs, Climbs(r) PROVE LockInv'
  <2>1. \A q \in Runs \ {r} : proc'[q] = proc[q]
    BY <1>6 DEF Climbs, Only
  <2>2. starter' = starter
    BY <1>6 DEF Climbs, commands
  <2>3. CASE proc'[r].pc = "starting"
    <3>1. /\ proc[r].pc = "record" /\ lock' = lock
          /\ rec' = [owner |-> r, phase |-> "running", clean |-> FALSE, reason |-> "none"]
      BY <1>6, <2>3 DEF Climbs, ClimbFiles
    <3> QED
      BY <1>0, <1>1, <2>1, <2>2, <2>3, <3>1 DEF LockInv, OwnRecord
  <2>4. CASE proc'[r].pc # "starting"
    <3>1. /\ proc'[r].pc \in Before /\ rec' = rec
          /\ \/ lock' = lock /\ (proc'[r].pc \in Holding => proc[r].pc \in Holding)
             \/ lock = 0 /\ lock' = r
      BY <1>0, <1>6, <2>4 DEF Climbs, ClimbFiles, files
    <3> QED
      BY <1>0, <1>1, <2>1, <2>2, <3>1, Consts DEF LockInv, OwnRecord
  <2> QED
    BY <2>3, <2>4
<1>7. ASSUME NEW r \in Runs, Advances(r) \/ Begins(r) PROVE LockInv'
  <2>1. /\ proc[r].pc \in Up /\ proc'[r].pc \in Up /\ \A q \in Runs \ {r} : proc'[q] = proc[q]
        /\ lock' = lock /\ rec'.owner = rec.owner /\ rec'.clean = rec.clean /\ starter'.pc = starter.pc
    BY <1>7 DEF Advances, Begins, Only, files, commands
  <2> QED
    BY <1>0, <1>1, <2>1 DEF LockInv, OwnRecord
<1>8. ASSUME NEW r \in Runs, Stops(r) PROVE LockInv'
  <2>1. /\ proc[r].pc = "after" /\ proc'[r].pc = "leaving" /\ \A q \in Runs \ {r} : proc'[q] = proc[q]
        /\ lock' = lock /\ starter' = starter
    BY <1>8 DEF Stops, Only, commands
  <2> QED
    BY <1>0, <1>1, <2>1 DEF LockInv, OwnRecord
<1> QED
  BY <1>2, <1>3, <1>4, <1>5, <1>6, <1>7, <1>8, Shapes

LEMMA LockAlways == Spec => []LockInv
BY LockInit, LockNext, TypeAlways, PTL DEF Spec

(* A bridge that is up holds bridge.json.lock and owns bridge.json: no second start, no stop that *)
(* clears a stale record, no kill and no dying predecessor takes either from it.                  *)
THEOREM RecordOwned == Spec => []OwnRecord
<1>1. LockInv => OwnRecord
  BY DEF LockInv
<1> QED
  BY <1>1, LockAlways, PTL

-----------------------------------------------------------------------------
(* The task registry. *)

\* The registry is sealed in the same step in which nothing runs any more, and before "stopped".
SealOk(p) == (p.sealed => p.pc \in {"after", "leaving"} /\ Quiet(p)) /\ (p.pc = "leaving" => p.sealed)
SealInv == \A r \in Runs : SealOk(proc[r])

LEMMA SealInit == Init => SealInv
BY DEF Init, Blank, SealInv, SealOk

LEMMA SealNext == TypeInv /\ SealInv /\ [Next]_vars => SealInv'
<1> SUFFICES ASSUME TypeInv, SealInv, [Next]_vars PROVE SealInv'
  OBVIOUS
<1>0. Up = {"starting", "serving", "draining", "after"}
      /\ Before = {"lock", "guard", "backoff", "queued", "recheck", "clean", "record"}
  BY DEF Up, Before
<1>a. ASSUME NEW r \in Runs, Only(r), SealOk(proc'[r]) PROVE SealInv'
  BY <1>a DEF SealInv, Only
<1>b. SealOk([Blank EXCEPT !.pc = "ended"])
  BY DEF SealOk, Blank
<1>1. CASE Still
  <2> SUFFICES ASSUME NEW q \in Runs PROVE SealOk(proc'[q])
    BY DEF SealInv
  <2> QED
    BY <1>1 DEF Still, AllCalm, Calm, SealInv, SealOk, Quiet
<1>2. CASE Reboot
  BY <1>2, <1>b, RebootFacts DEF SealInv
<1>3. ASSUME NEW r \in Runs, Falls(r) PROVE SealInv'
  BY <1>3, <1>a, <1>b DEF Falls, Gone
<1>4. ASSUME NEW r \in Runs, Spawns(r) \/ Climbs(r) PROVE SealInv'
  <2>1. Only(r) /\ proc[r].pc \notin {"after", "leaving"} /\ proc'[r].pc # "leaving" /\ SameWork(proc'[r], proc[r])
    BY <1>0, <1>4 DEF Spawns, Climbs
  <2> QED
    BY <1>a, <2>1 DEF SealInv, SealOk, SameWork
<1>5. ASSUME NEW r \in Runs, Advances(r) PROVE SealInv'
  BY <1>0, <1>5, <1>a DEF Advances, SealInv, SealOk
<1>6. ASSUME NEW r \in Runs, Begins(r) PROVE SealInv'
  BY <1>0, <1>6, <1>a DEF Begins, SealInv, SealOk, SameWork, Quiet
<1>7. ASSUME NEW r \in Runs, Stops(r) PROVE SealInv'
  BY <1>7, <1>a DEF Stops, SealInv, SealOk, Quiet
<1> QED
  BY <1>1, <1>2, <1>3, <1>4, <1>5, <1>6, <1>7, Shapes

(* When a bridge writes "stopped" no supervisor, request worker or background thread of its runs, *)
(* and none starts afterwards: the registry was sealed in the step that found it empty.           *)
THEOREM StopIsQuiet == Spec => []StoppedIsQuiet
<1>1. SealInv => StoppedIsQuiet
  BY DEF SealInv, SealOk, StoppedIsQuiet
<1> QED
  BY <1>1, SealInit, SealNext, TypeAlways, PTL DEF Spec

-----------------------------------------------------------------------------
(* The service manager's job and the start back-off. *)

\* The manager starts its job only when no process of the job is left.
AliveService(r) == Alive(r) /\ proc[r].origin = "service"
OneService ==
    /\ \A q, r \in Runs : AliveService(q) /\ AliveService(r) => q = r
    /\ manager \in {"due", "held"} => \A r \in Runs : ~AliveService(r)

LEMMA EndedBlank ==
    LET p == [Blank EXCEPT !.pc = "ended"]
    IN p.pc = "ended" /\ p.origin = "app" /\ p.reason = "none" /\ ~p.frozen
BY DEF Blank

LEMMA ServiceInit == Init => OneService
BY DEF Init, Blank, OneService, AliveService, Alive

LEMMA ServiceNext == TypeInv /\ OneService /\ [Next]_vars => OneService'
<1> SUFFICES ASSUME TypeInv, OneService, [Next]_vars PROVE OneService'
  OBVIOUS
<1>0. /\ Up = {"starting", "serving", "draining", "after"}
      /\ Before = {"lock", "guard", "backoff", "queued", "recheck", "clean", "record"}
  BY DEF Up, Before
<1>a. ASSUME \A q \in Runs : AliveService(q)' => AliveService(q), manager' \in {manager, "stopping", "running"} \/ manager = "held"
      PROVE  OneService'
  BY <1>a DEF OneService
<1>1. CASE Still
  <2>1. \A q \in Runs : AliveService(q)' => AliveService(q)
    BY <1>1 DEF Still, AllCalm, Calm, SameStart, AliveService, Alive
  <2>2. manager' \in {manager, "stopping"} \/ manager = "held"
    BY <1>1 DEF Still
  <2> QED
    BY <1>a, <2>1, <2>2
<1>2. CASE Reboot
  BY <1>2, RebootFacts DEF OneService, AliveService
<1>3. ASSUME NEW r \in Runs, Falls(r) PROVE OneService'
  <2>1. \A q \in Runs : AliveService(q)' => q # r /\ AliveService(q)
    BY <1>3, EndedBlank DEF Falls, Gone, Only, AliveService, Alive
  <2>2. CASE proc[r].origin # "service"
    BY <1>3, <1>a, <2>1, <2>2 DEF Falls
  <2>3. CASE proc[r].origin = "service"
    <3>1. AliveService(r)
      BY <1>3, <2>3 DEF Falls, AliveService
    <3> QED
      BY <2>1, <3>1 DEF OneService
  <2> QED
    BY <2>2, <2>3
<1>4. ASSUME NEW r \in Runs, Spawns(r) PROVE OneService'
  <2>1. CASE proc'[r].origin # "service"
    BY <1>4, <1>a, <2>1 DEF Spawns, Only, AliveService, Alive
  <2>2. CASE proc'[r].origin = "service"
    <3>1. manager = "due" /\ manager' = "running" /\ \A q \in Runs \ {r} : proc'[q] = proc[q]
      BY <1>4, <2>2 DEF Spawns, Only
    <3> QED
      BY <3>1 DEF OneService, AliveService, Alive
  <2> QED
    BY <2>1, <2>2
<1>5. ASSUME NEW r \in Runs, Climbs(r) \/ Advances(r) \/ Begins(r) \/ Stops(r) PROVE OneService'
  <2>1. /\ Only(r) /\ proc'[r].origin = proc[r].origin /\ manager' = manager
        /\ proc[r].pc \in Before \cup Up
    BY <1>0, <1>5 DEF Climbs, Advances, Begins, Stops, SameStart
  <2> QED
    BY <1>0, <1>a, <2>1 DEF Only, AliveService, Alive
<1> QED
  BY <1>1, <1>2, <1>3, <1>4, <1>5, Shapes

\* A time at which the last unproven start of the series is far enough back.
Spaced(t) == Backoff.healthy \/ Backoff.starts = 0 \/ t >= Backoff.at + Step(Backoff.starts)

\* A service run that is past its wait, however long it queues, may start; one in its wait ends it in time.
SpacedRun(r) ==
    proc[r].origin = "service" =>
        /\ proc[r].pc \in {"lock", "queued", "recheck"} => Spaced(now)
        /\ proc[r].pc = "backoff" => Spaced(proc[r].since)
SpacedInv == \A r \in Runs : SpacedRun(r)

LEMMA SpacedInit == Init => SpacedInv
BY DEF Init, Blank, SpacedInv, SpacedRun

LEMMA SpacedNext == TypeInv /\ OneService /\ SpacedInv /\ [Next]_vars => SpacedInv'
<1> SUFFICES ASSUME TypeInv, OneService, SpacedInv, [Next]_vars PROVE SpacedInv'
  OBVIOUS
<1>0. /\ Up = {"starting", "serving", "draining", "after"}
      /\ Before = {"lock", "guard", "backoff", "queued", "recheck", "clean", "record"}
  BY DEF Up, Before
\* Without a new start the record only gets milder.
<1>a. ASSUME boot' = boot, backoff' \in {backoff, NoBackoff} \/ (backoff'.healthy /\ backoff'.boot = boot),
             NEW t \in Nat, NEW u \in Nat, u >= t, Spaced(t)
      PROVE  Backoff'.healthy \/ Backoff'.starts = 0 \/ u >= Backoff'.at + Step(Backoff'.starts)
  <2>1. CASE backoff' = backoff
    <3>1. Backoff' = Backoff
      BY <1>a, <2>1 DEF Backoff
    <3>2. Backoff.at \in Nat /\ Step(Backoff.starts) \in Nat
      BY Waits, Consts DEF BackoffFile
    <3> QED
      BY <1>a, <3>1, <3>2 DEF Spaced
  <2>2. CASE backoff' = NoBackoff
    BY <1>a, <2>2 DEF Backoff, NoBackoff
  <2>3. CASE backoff'.healthy /\ backoff'.boot = boot
    BY <1>a, <2>3 DEF Backoff
  <2> QED
    BY <1>a, <2>1, <2>2, <2>3
<1>n. now \in Nat /\ now' \in Nat /\ \A q \in Runs : proc[q].since \in Nat
  <2>1. TypeInv'
    BY TypeNext
  <2>2. now' \in 0..MaxTime /\ \A q \in Runs : proc[q] \in Process
    BY <2>1 DEF TypeInv, ClockType, ProcType
  <2> QED
    BY <2>2, Waits, Fields, Consts
<1>b. ASSUME boot' = boot, backoff' \in {backoff, NoBackoff} \/ (backoff'.healthy /\ backoff'.boot = boot), now' >= now,
             NEW q \in Runs, proc'[q].pc = proc[q].pc, proc'[q].origin = proc[q].origin, proc'[q].since = proc[q].since
      PROVE  SpacedRun(q)'
  <2> SUFFICES ASSUME proc[q].origin = "service"
               PROVE  /\ proc[q].pc \in {"lock", "queued", "recheck"} => Spaced(now)'
                      /\ proc[q].pc = "backoff" => Spaced(proc[q].since)'
    BY <1>b DEF SpacedRun
  <2>1. CASE proc[q].pc \in {"lock", "queued", "recheck"}
    <3>1. Spaced(now)
      BY <2>1 DEF SpacedInv, SpacedRun
    <3> QED
      BY <1>a, <1>b, <1>n, <2>1, <3>1 DEF Spaced
  <2>2. CASE proc[q].pc = "backoff"
    <3>1. Spaced(proc[q].since)
      BY <2>2 DEF SpacedInv, SpacedRun
    <3>2. proc[q].since >= proc[q].since
      BY <1>n
    <3> QED
      BY <1>a, <1>b, <1>n, <2>2, <3>1, <3>2 DEF Spaced
  <2> QED
    BY <2>1, <2>2
\* A run beside the one that moves.
<1>c. ASSUME NEW r \in Runs, Only(r), SpacedRun(r)', boot' = boot, now' >= now,
             backoff' \in {backoff, NoBackoff} \/ (backoff'.healthy /\ backoff'.boot = boot)
      PROVE  SpacedInv'
  <2> SUFFICES ASSUME NEW q \in Runs \ {r} PROVE SpacedRun(q)'
    BY <1>c DEF SpacedInv
  <2> QED
    BY <1>b, <1>c DEF Only
<1>1. CASE Still
  <2> SUFFICES ASSUME NEW q \in Runs PROVE SpacedRun(q)'
    BY DEF SpacedInv
  <2> QED
    BY <1>1, <1>b DEF Still, AllCalm, Calm, SameStart
<1>2. CASE Reboot
  <2>1. \A q \in Runs : proc'[q].pc \in {"new", "ended"}
    BY <1>2, RebootFacts DEF Alive
  <2> QED
    BY <2>1 DEF SpacedInv, SpacedRun
<1>3. ASSUME NEW r \in Runs, Falls(r) PROVE SpacedInv'
  <2>1. SpacedRun(r)'
    BY <1>3, EndedBlank DEF Falls, Gone, SpacedRun
  <2> QED
    BY <1>3, <1>c, <1>n, <2>1 DEF Falls, Gone
<1>4. ASSUME NEW r \in Runs, Spawns(r) PROVE SpacedInv'
  <2>1. SpacedRun(r)'
    BY <1>4 DEF Spawns, SpacedRun
  <2> QED
    BY <1>4, <1>c, <1>n, <2>1 DEF Spawns, files
<1>5. ASSUME NEW r \in Runs, Advances(r) \/ Begins(r) \/ Stops(r) PROVE SpacedInv'
  <2>1. SpacedRun(r)'
    BY <1>0, <1>5 DEF Advances, Begins, Stops, SpacedRun
  <2> QED
    BY <1>5, <1>c, <1>n, <2>1 DEF Advances, Begins, Stops, files
<1>6. ASSUME NEW r \in Runs, Climbs(r) PROVE SpacedInv'
  <2>0. Only(r) /\ proc'[r].origin = proc[r].origin /\ boot' = boot /\ now' = now /\ now >= now /\ proc[r].pc \in Before
    BY <1>6, <1>n DEF Climbs
  <2>1. CASE backoff' # backoff
    <3>1. proc[r].origin = "service" /\ proc[r].pc = "recheck" /\ proc'[r].pc = "clean"
      BY <1>6, <2>1 DEF Climbs, ClimbFiles, files
    <3>2. AliveService(r)
      BY <3>1 DEF AliveService, Alive
    <3> SUFFICES ASSUME NEW q \in Runs, q # r PROVE SpacedRun(q)'
      BY <3>1 DEF SpacedInv, SpacedRun
    <3>3. ~AliveService(q) /\ proc'[q] = proc[q]
      BY <2>0, <3>2 DEF OneService, Only
    <3> QED
      BY <3>3 DEF SpacedRun, AliveService, Alive
  <2>2. CASE backoff' = backoff
    <3> SUFFICES ASSUME proc[r].origin = "service" PROVE SpacedRun(r)'
      BY <1>c, <2>0, <2>2 DEF SpacedRun
    <3>1. Backoff' = Backoff
      BY <2>0, <2>2 DEF Backoff
    <3>2. CASE proc'[r].pc = "backoff"
      <4>1. proc'[r].since = now + Remaining
        BY <1>6, <3>2 DEF Climbs, ClimbFiles
      <4> QED
        BY <3>1, <3>2, <4>1, Waits DEF SpacedRun, Spaced
    <3>3. CASE proc'[r].pc = "lock"
      <4>1. proc[r].pc = "backoff" /\ (now >= proc[r].since \/ Backoff.starts = 0)
        BY <1>6, <3>3 DEF Climbs, ClimbFiles
      <4>2. Spaced(proc[r].since)
        BY <4>1 DEF SpacedInv, SpacedRun
      <4>3. Backoff.at \in Nat /\ Step(Backoff.starts) \in Nat
        BY Waits, Consts DEF BackoffFile
      <4> QED
        BY <1>n, <2>0, <3>1, <3>3, <4>1, <4>2, <4>3 DEF SpacedRun, Spaced
    <3>4. CASE proc'[r].pc \in {"queued", "recheck"}
      <4>1. proc[r].pc \in {"lock", "queued"}
        BY <1>6, <3>4 DEF Climbs, ClimbFiles
      <4>2. Spaced(now)
        BY <4>1 DEF SpacedInv, SpacedRun
      <4> QED
        BY <2>0, <3>1, <3>4, <4>2 DEF SpacedRun, Spaced
    <3>5. CASE proc'[r].pc \notin {"backoff", "lock", "queued", "recheck"}
      BY <3>5 DEF SpacedRun
    <3> QED
      BY <3>2, <3>3, <3>4, <3>5
  <2> QED
    BY <2>1, <2>2
<1> QED
  BY <1>1, <1>2, <1>3, <1>4, <1>5, <1>6, Shapes

(* A service run never starts within the step of the series' last unproven start, however long   *)
(* it was queued for the lock since it waited: only one process of the job is alive at a time,    *)
(* so no other run's start can slip in between.                                                   *)
THEOREM StartsSpaced == Spec => SpacedStarts
<1>1. SpacedInv => \A r \in Runs : proc[r].pc = "recheck" /\ proc'[r].pc = "clean" /\ proc[r].origin = "service"
                                   => Backoff.healthy \/ Backoff.starts = 0 \/ now >= Backoff.at + Step(Backoff.starts)
  BY DEF SpacedInv, SpacedRun, Spaced
<1>2. Spec => []SpacedInv
  BY ServiceInit, ServiceNext, SpacedInit, SpacedNext, TypeAlways, PTL DEF Spec
<1> QED
  BY <1>1, <1>2, PTL DEF SpacedStarts

-----------------------------------------------------------------------------
(* What a kill helper leaves in the files and among the processes. *)

\* A request or an intent of a helper's is one it can still take back, or one it had every right to leave.
LeftFor(h) == helper[h].pc = "done" /\ helper[h].outcome \in {"killed", "died"}
RequestInv ==
    \A h \in Helpers : request.by = h =>
        (Active(h) /\ helper[h].wrote /\ request.target = helper[h].target) \/ LeftFor(h)
IntentInv ==
    \A h \in Helpers : intent.helper = h => (Active(h) /\ helper[h].pc \notin {"read", "withdraw"}) \/ LeftFor(h)

\* Whoever is frozen was frozen by a helper that is about to kill or to resume it, or that died.
Freezer(g, r) ==
    /\ helper[g].target = r
    /\ helper[g].pc \in {"frozen", "resume"} \/ (helper[g].pc = "done" /\ helper[g].outcome = "died")
FrozenInv == \A r \in Runs : proc[r].frozen => Alive(r) /\ \E g \in Helpers : Freezer(g, r)

KillInv == RequestInv /\ IntentInv /\ FrozenInv

LEMMA KillInit == Init => KillInv
<1> SUFFICES ASSUME Init PROVE KillInv
  OBVIOUS
<1>1. "none" \notin Helpers
  BY LifecycleAssumption
<1> QED
  BY <1>1 DEF Init, Blank, NoIntent, NoRequest, KillInv, RequestInv, IntentInv, FrozenInv

LEMMA KillNext == TypeInv /\ KillInv /\ [Next]_vars => KillInv'
<1> SUFFICES ASSUME TypeInv, KillInv, [Next]_vars PROVE KillInv'
  OBVIOUS
<1>0. /\ "none" \notin Helpers /\ "stop" \notin Helpers /\ NoIntent.helper = "none" /\ NoRequest.by = "none"
      /\ CommandType /\ ProcType /\ FileType /\ rec \in RecordFile
      /\ \A g \in Helpers : Active(g) => helper[g].target \in Runs
      /\ Before = {"lock", "guard", "backoff", "queued", "recheck", "clean", "record"}
      /\ Up = {"starting", "serving", "draining", "after"}
  BY LifecycleAssumption DEF NoIntent, NoRequest, TypeInv, CommandType, FileType, Before, Up
\* A step of no helper.
<1>q. ASSUME helper' = helper, request' \in {request, NoRequest} \/ request'.by = "stop", intent' \in {intent, NoIntent},
             \A q \in Runs : proc'[q].frozen => proc[q].frozen /\ (Alive(q) => Alive(q)')
      PROVE  KillInv'
  <2>1. RequestInv'
    BY <1>0, <1>q DEF KillInv, RequestInv, Active, LeftFor
  <2>2. IntentInv'
    BY <1>0, <1>q DEF KillInv, IntentInv, Active, LeftFor
  <2>3. FrozenInv'
    BY <1>q DEF KillInv, FrozenInv, Freezer
  <2> QED
    BY <2>1, <2>2, <2>3 DEF KillInv
\* A step of one helper.
<1>h. ASSUME NEW h \in Helpers, OnlyHelper(h),
             \A g \in Helpers \ {h} : request'.by = g => request' = request,
             \A g \in Helpers \ {h} : intent'.helper = g => intent' = intent,
             request'.by = h => (Active(h)' /\ helper'[h].wrote /\ request'.target = helper'[h].target) \/ LeftFor(h)',
             intent'.helper = h => (Active(h)' /\ helper'[h].pc \notin {"read", "withdraw"}) \/ LeftFor(h)'
      PROVE  RequestInv' /\ IntentInv'
  BY <1>h DEF KillInv, RequestInv, IntentInv, OnlyHelper, Active, LeftFor
<1>f. ASSUME NEW h \in Helpers, OnlyHelper(h), ~\E r \in Runs : proc'[r].frozen /\ Freezer(h, r),
             \A q \in Runs : proc'[q].frozen => proc[q].frozen /\ (Alive(q) => Alive(q)')
      PROVE  FrozenInv'
  BY <1>f DEF KillInv, FrozenInv, Freezer, OnlyHelper
\* A kill that is called off is still its helper's.
<1>c. ASSUME NEW h \in Helpers, NEW o \in Outcomes, Active(h), helper[h].pc \notin {"read", "resume", "withdraw"}, CalledOff(h, o)
      PROVE  KillInv'
  <2>1. /\ OnlyHelper(h) /\ helper'[h].target = helper[h].target /\ helper'[h].wrote = helper[h].wrote
        /\ helper'[h].pc = (IF helper[h].pc = "frozen" THEN "resume" ELSE "unintend")
    BY <1>0, <1>c, CalledOffFacts
  <2>2. UNCHANGED <<proc, intent, request>>
    BY <1>c DEF CalledOff, files
  <2>3. RequestInv' /\ IntentInv'
    BY <1>h, <1>c, <2>1, <2>2 DEF KillInv, RequestInv, IntentInv, Active, LeftFor
  <2>4. \A g \in Helpers, r \in Runs : Freezer(g, r) => Freezer(g, r)'
    BY <1>c, <2>1 DEF Freezer, OnlyHelper, Active
  <2>5. FrozenInv'
    BY <2>2, <2>4 DEF KillInv, FrozenInv, Alive
  <2> QED
    BY <2>3, <2>5 DEF KillInv
<1>1. ASSUME NEW h \in Helpers, KillMove(h) PROVE KillInv'
  <2>0. Active(h) => helper[h].pc \notin {"idle", "done"} /\ helper[h].target \in Runs
    BY <1>0 DEF Active
  <2>p. ASSUME UNCHANGED proc PROVE \A q \in Runs : proc'[q].frozen => proc[q].frozen /\ (Alive(q) => Alive(q)')
    BY <2>p DEF Alive
  <2>x. /\ {"pending", "wait", "manager", "probe", "commit", "committed", "frozen", "unintend", "withdraw"} \subseteq HelperPcs
        /\ {"other", "called_off", "killed", "died"} \subseteq Outcomes
    BY DEF HelperPcs, Outcomes
  \* A helper that goes on, and neither freezes nor writes.
  <2>a. ASSUME NEW x \in HelperPcs, x \notin {"idle", "read", "frozen", "resume", "withdraw", "done"}, HelperAt(h, x),
               UNCHANGED <<proc, request>>, Active(h), helper[h].pc \notin {"frozen", "resume", "withdraw"},
               intent' = intent \/ intent'.helper = h, helper[h].pc = "read" => intent'.helper = h
        PROVE  KillInv'
    <3>1. /\ OnlyHelper(h) /\ helper'[h].pc = x /\ helper'[h].target = helper[h].target /\ helper'[h].wrote = helper[h].wrote
      BY <1>0, <2>a, HelperAtFacts
    <3>2. RequestInv' /\ IntentInv'
      BY <1>h, <2>0, <2>a, <3>1 DEF KillInv, RequestInv, IntentInv, Active, LeftFor
    <3>3. FrozenInv'
      BY <1>f, <2>0, <2>p, <2>a, <3>1 DEF Freezer
    <3> QED
      BY <3>2, <3>3 DEF KillInv
  <2>d. ASSUME NEW o \in {"killed", "died"}, helper' = [helper EXCEPT ![h] = Done(h, o)], UNCHANGED <<intent, request>>
        PROVE  /\ OnlyHelper(h) /\ helper'[h].target = helper[h].target /\ helper'[h].pc = "done" /\ helper'[h].outcome = o
               /\ RequestInv' /\ IntentInv'
    <3>0. /\ Done(h, o) \in KillCmd /\ Done(h, o).pc = "done"
          /\ Done(h, o).target = helper[h].target /\ Done(h, o).outcome = o
      <4>1. o \in Outcomes
        BY <2>x
      <4> QED
        BY <1>0, <4>1, DoneFacts
    <3>1. /\ OnlyHelper(h) /\ helper'[h].target = helper[h].target /\ helper'[h].pc = "done" /\ helper'[h].outcome = o
      BY <1>0, <2>d, <3>0, HelperReplaced
    <3> QED
      BY <1>h, <2>d, <3>1 DEF LeftFor
  <2>1. ASSUME NEW skip \in BOOLEAN, KillReads(h, skip), UNCHANGED <<proc, intent, request>> PROVE KillInv'
    <3>1. OnlyHelper(h) /\ helper[h].pc = "idle"
          /\ (helper'[h].pc = "read" \/ (helper'[h].pc = "done" /\ helper'[h].outcome \in {"not_running", "in_progress"}))
      BY <1>0, <2>1, KillReadsFacts
    <3>2. request.by # h /\ intent.helper # h
      BY <3>1 DEF KillInv, RequestInv, IntentInv, Active, LeftFor
    <3>3. RequestInv' /\ IntentInv'
      BY <1>h, <2>1, <3>1, <3>2
    <3>4. FrozenInv'
      BY <1>f, <2>p, <2>1, <3>1 DEF Freezer
    <3> QED
      BY <3>3, <3>4 DEF KillInv
  <2>2. CASE KillCommand(h) \/ StopEscalates(h)
    BY <2>1, <2>2 DEF KillCommand, StopEscalates, files
  <2>3. CASE KillPends(h) \/ KillCommits(h)
    <3>1. /\ HelperAt(h, "pending") \/ HelperAt(h, "committed")
          /\ Active(h) /\ helper[h].pc \in {"read", "commit"} /\ UNCHANGED <<proc, request>> /\ intent'.helper = h
      BY <2>3 DEF KillPends, KillCommits, Active
    <3> QED
      BY <2>a, <2>x, <3>1
  <2>4. CASE KillAsks(h)
    <3>1. CASE (HelperAt(h, "manager") \/ HelperAt(h, "probe")) /\ UNCHANGED request
      <4>1. Active(h) /\ helper[h].pc = "pending" /\ UNCHANGED <<proc, intent>>
        BY <2>4 DEF KillAsks, Active
      <4> QED
        BY <2>a, <2>x, <3>1, <4>1
    <3>2. CASE /\ request' = [target |-> helper[h].target, by |-> h]
               /\ helper' = [helper EXCEPT ![h].pc = "wait", ![h].wrote = TRUE]
      <4>0. helper[h] \in KillCmd /\ helper \in [Helpers -> KillCmd]
        BY <1>0 DEF CommandType
      <4> DEFINE k == [helper[h] EXCEPT !.pc = "wait", !.wrote = TRUE]
      <4>1. k \in KillCmd /\ k.pc = "wait" /\ k.wrote /\ k.target = helper[h].target
        BY <4>0 DEF KillCmd, HelperPcs
      <4>2. helper' = [helper EXCEPT ![h] = k]
        BY <3>2, <4>0
      <4> HIDE DEF k
      <4>3. OnlyHelper(h) /\ helper'[h].pc = "wait" /\ helper'[h].wrote /\ helper'[h].target = helper[h].target
        BY <1>0, <4>1, <4>2, HelperReplaced
      <4>4. UNCHANGED <<proc, intent>>
        BY <2>4 DEF KillAsks
      <4>5. RequestInv' /\ IntentInv'
        BY <1>h, <3>2, <4>3, <4>4 DEF Active
      <4>6. FrozenInv'
        BY <1>f, <2>4, <2>p, <4>3, <4>4 DEF Freezer, KillAsks
      <4> QED
        BY <4>5, <4>6 DEF KillInv
    <3> QED
      BY <2>4, <3>1, <3>2 DEF KillAsks
  <2>5. CASE KillWaits(h)
    <3>1. /\ HelperAt(h, "manager") \/ HelperAt(h, "probe")
          /\ Active(h) /\ helper[h].pc = "wait" /\ UNCHANGED <<proc, request, intent>>
      BY <2>5 DEF KillWaits, Active, files
    <3> QED
      BY <2>a, <2>x, <3>1
  <2>6. CASE KillStopsJob(h)
    <3>0. Active(h) /\ helper[h].pc = "manager" /\ HelperAt(h, "probe") /\ UNCHANGED <<request, intent>>
      BY <2>6 DEF KillStopsJob, Active, files
    <3>1. OnlyHelper(h) /\ helper'[h].pc = "probe" /\ helper'[h].target = helper[h].target /\ helper'[h].wrote = helper[h].wrote
      BY <1>0, <2>x, <3>0, HelperAtFacts
    <3>2. RequestInv' /\ IntentInv'
      BY <1>h, <3>0, <3>1 DEF KillInv, RequestInv, IntentInv, Active, LeftFor
    <3>3. FrozenInv'
      <4>1. CASE Noted(helper[h].target)
        <5>1. \A q \in Runs : proc'[q].frozen = proc[q].frozen /\ proc'[q].pc = proc[q].pc
          BY <1>0, <2>0, <3>0, <4>1, NotedFacts DEF Only
        <5> QED
          BY <1>f, <3>0, <3>1, <5>1 DEF Freezer, Alive
      <4>2. CASE Ended(helper[h].target, 0)
        <5>1. Gone(helper[h].target)
          BY <1>0, <2>0, <3>0, <4>2, EndedFacts
        <5>2. \A q \in Runs : proc'[q].frozen => proc[q].frozen /\ proc'[q] = proc[q]
          BY <5>1, EndedBlank DEF Gone, Only
        <5> QED
          BY <1>f, <3>0, <3>1, <5>2 DEF Freezer, Alive
      <4>3. CASE UNCHANGED proc
        BY <1>f, <2>p, <3>0, <3>1, <4>3 DEF Freezer
      <4> QED
        BY <2>6, <4>1, <4>2, <4>3 DEF KillStopsJob
    <3> QED
      BY <3>2, <3>3 DEF KillInv
  <2>7. CASE KillProbes(h)
    <3>1. Active(h) /\ helper[h].pc = "probe"
      BY <2>7 DEF KillProbes, Active
    <3>2. CASE HelperAt(h, "commit") /\ UNCHANGED <<proc, intent, request>>
      BY <2>a, <2>x, <3>1, <3>2
    <3>3. CASE CalledOff(h, "other")
      BY <1>c, <2>x, <3>1, <3>3
    <3> QED
      BY <2>7, <3>2, <3>3 DEF KillProbes, files
  <2>8. CASE KillFreezes(h)
    <3>1. Active(h) /\ helper[h].pc = "committed"
      BY <2>8 DEF KillFreezes, Active
    <3>2. CASE CalledOff(h, "other")
      BY <1>c, <2>x, <3>1, <3>2
    <3>3. CASE /\ Alive(helper[h].target)
               /\ proc' = [proc EXCEPT ![helper[h].target].frozen = TRUE]
               /\ HelperAt(h, "frozen")
               /\ UNCHANGED <<intent, request>>
      <4>1. OnlyHelper(h) /\ helper'[h].pc = "frozen" /\ helper'[h].target = helper[h].target /\ helper'[h].wrote = helper[h].wrote
        BY <1>0, <2>x, <3>3, HelperAtFacts
      <4>2. RequestInv' /\ IntentInv'
        BY <1>h, <3>1, <3>3, <4>1 DEF KillInv, RequestInv, IntentInv, Active, LeftFor
      <4>3. /\ \A q \in Runs : proc'[q].pc = proc[q].pc
            /\ \A q \in Runs \ {helper[h].target} : proc'[q] = proc[q]
        BY <1>0, <2>0, <3>1, <3>3, FrozenFacts DEF Only
      <4>4. FrozenInv'
        <5> SUFFICES ASSUME NEW r \in Runs, proc'[r].frozen PROVE Alive(r)' /\ \E g \in Helpers : Freezer(g, r)'
          BY DEF FrozenInv
        <5>1. CASE r = helper[h].target
          BY <3>3, <4>1, <4>3, <5>1 DEF Alive, Freezer
        <5>2. CASE r # helper[h].target
          <6>1. Alive(r) /\ \E g \in Helpers : Freezer(g, r)
            BY <4>3, <5>2 DEF KillInv, FrozenInv
          <6> QED
            BY <3>1, <4>1, <4>3, <5>2, <6>1 DEF Alive, Freezer, OnlyHelper
        <5> QED
          BY <5>1, <5>2
      <4> QED
        BY <4>2, <4>4 DEF KillInv
    <3>4. CASE /\ helper' = [helper EXCEPT ![h] = Done(h, "killed")]
               /\ UNCHANGED <<proc, intent, request>>
      BY <1>f, <2>d, <2>p, <3>1, <3>4 DEF KillInv, Freezer
    <3> QED
      BY <2>8, <3>2, <3>3, <3>4 DEF KillFreezes, files
  <2>9. CASE KillKills(h)
    <3>1. Active(h) /\ helper[h].pc = "frozen" /\ helper' = [helper EXCEPT ![h] = Done(h, "killed")] /\ UNCHANGED <<intent, request>>
      BY <2>9 DEF KillKills, Active
    <3>2. CASE Alive(helper[h].target)
      <4>1. Gone(helper[h].target)
        BY <1>0, <2>0, <2>9, <3>1, <3>2, EndedFacts DEF KillKills
      <4>2. ~proc'[helper[h].target].frozen /\ \A q \in Runs : proc'[q].frozen => proc[q].frozen /\ proc'[q] = proc[q]
        BY <4>1, EndedBlank DEF Gone, Only
      <4> QED
        BY <1>f, <2>d, <3>1, <4>2 DEF KillInv, Freezer, Alive
    <3>3. CASE ~Alive(helper[h].target)
      <4>1. UNCHANGED proc /\ ~proc[helper[h].target].frozen
        BY <2>0, <2>9, <3>1, <3>3 DEF KillKills, KillInv, FrozenInv
      <4> QED
        BY <1>f, <2>d, <2>p, <3>1, <4>1 DEF KillInv, Freezer
    <3> QED
      BY <3>2, <3>3
  <2>10. CASE KillInterrupted(h)
    BY <1>c, <2>x, <2>10 DEF KillInterrupted, Active
  <2>11. CASE HelperDies(h)
    <3>1. helper' = [helper EXCEPT ![h] = Done(h, "died")] /\ UNCHANGED <<proc, intent, request>>
      BY <2>11 DEF HelperDies, files
    <3>2. OnlyHelper(h) /\ helper'[h].target = helper[h].target /\ helper'[h].pc = "done" /\ helper'[h].outcome = "died"
          /\ RequestInv' /\ IntentInv'
      BY <2>d, <3>1
    <3>3. \A g \in Helpers, r \in Runs : Freezer(g, r) => Freezer(g, r)'
      BY <3>2 DEF Freezer, OnlyHelper
    <3>4. FrozenInv'
      BY <3>1, <3>3 DEF KillInv, FrozenInv, Alive
    <3> QED
      BY <3>2, <3>4 DEF KillInv
  <2>12. CASE KillResumes(h)
    <3>1. Active(h) /\ helper[h].pc = "resume" /\ HelperAt(h, "unintend") /\ UNCHANGED <<intent, request>>
          /\ proc' = [proc EXCEPT ![helper[h].target].frozen = FALSE]
      BY <2>12 DEF KillResumes, Active, files
    <3>2. OnlyHelper(h) /\ helper'[h].pc = "unintend" /\ helper'[h].target = helper[h].target /\ helper'[h].wrote = helper[h].wrote
      BY <1>0, <2>x, <3>1, HelperAtFacts
    <3>3. RequestInv' /\ IntentInv'
      BY <1>h, <3>1, <3>2 DEF KillInv, RequestInv, IntentInv, Active, LeftFor
    <3>4. \A q \in Runs : proc'[q].pc = proc[q].pc /\ (proc'[q].frozen => proc[q].frozen)
      BY <1>0, <2>0, <3>1, FrozenFacts DEF Only
    <3>5. FrozenInv'
      <4>1. \A q \in Runs : proc'[q].frozen => proc[q].frozen /\ (Alive(q) => Alive(q)')
        BY <3>4 DEF Alive
      <4>2. ~\E q \in Runs : proc'[q].frozen /\ Freezer(h, q)
        BY <1>0, <2>0, <3>1, FrozenFacts DEF Freezer
      <4> QED
        BY <1>f, <3>2, <4>1, <4>2
    <3> QED
      BY <3>3, <3>5 DEF KillInv
  <2>13. CASE KillUnintends(h)
    <3>1. Active(h) /\ helper[h].pc = "unintend" /\ HelperAt(h, "withdraw") /\ UNCHANGED <<proc, request>>
          /\ intent' = (IF intent.helper = h THEN NoIntent ELSE intent)
      BY <2>13 DEF KillUnintends, Active
    <3>2. OnlyHelper(h) /\ helper'[h].pc = "withdraw" /\ helper'[h].target = helper[h].target /\ helper'[h].wrote = helper[h].wrote
      BY <1>0, <2>x, <3>1, HelperAtFacts
    <3>3. intent'.helper # h /\ \A g \in Helpers : intent'.helper = g => intent' = intent
      BY <1>0, <3>1
    <3>4. RequestInv' /\ IntentInv'
      BY <1>h, <3>1, <3>2, <3>3 DEF KillInv, RequestInv, Active, LeftFor
    <3>5. FrozenInv'
      BY <1>f, <2>p, <3>1, <3>2 DEF Freezer
    <3> QED
      BY <3>4, <3>5 DEF KillInv
  <2>14. CASE KillWithdraws(h)
    <3>1. Active(h) /\ helper[h].pc = "withdraw" /\ helper' = [helper EXCEPT ![h] = Done(h, helper[h].outcome)] /\ UNCHANGED <<proc, intent>>
          /\ request' = (IF helper[h].wrote /\ request.target = helper[h].target THEN NoRequest ELSE request)
      BY <2>14 DEF KillWithdraws, Active
    <3>2. helper[h].outcome \in Outcomes
      BY <1>0 DEF CommandType, KillCmd
    <3>d. Done(h, helper[h].outcome) \in KillCmd /\ Done(h, helper[h].outcome).pc = "done"
          /\ Done(h, helper[h].outcome).target = helper[h].target
      BY <1>0, <3>2, DoneFacts
    <3>3. OnlyHelper(h) /\ helper'[h].pc = "done" /\ helper'[h].target = helper[h].target
      BY <1>0, <3>1, <3>d, HelperReplaced
    <3>4. intent.helper # h /\ request'.by # h /\ \A g \in Helpers : request'.by = g => request' = request
      BY <1>0, <3>1 DEF KillInv, RequestInv, IntentInv, LeftFor
    <3>5. RequestInv' /\ IntentInv'
      BY <1>h, <3>1, <3>3, <3>4
    <3>6. \A g \in Helpers, r \in Runs : Freezer(g, r) => Freezer(g, r)'
      BY <3>1, <3>3 DEF Freezer, OnlyHelper
    <3>7. FrozenInv'
      BY <3>1, <3>6 DEF KillInv, FrozenInv, Alive
    <3> QED
      BY <3>5, <3>7 DEF KillInv
  <2> QED
    BY <1>1, <2>2, <2>3, <2>4, <2>5, <2>6, <2>7, <2>8, <2>9, <2>10, <2>11, <2>12, <2>13, <2>14 DEF KillMove
<1>2. CASE Still
  <2>1. CASE /\ \A q \in Runs : proc'[q].frozen = proc[q].frozen
             /\ helper' = helper
             /\ request' = request \/ request'.by = "stop"
             /\ UNCHANGED <<intent, held>> \/ (intent' = NoIntent /\ held' = 0)
    <3>1. \A q \in Runs : proc'[q].pc = proc[q].pc
      BY <1>2 DEF Still, AllCalm, Calm
    <3> QED
      BY <1>q, <2>1, <3>1 DEF Alive
  <2> QED
    BY <1>1, <1>2, <2>1 DEF Still
<1>3. ASSUME NEW r \in Runs, Falls(r) PROVE KillInv'
  <2>1. CASE helper' = helper
    <3>1. \A q \in Runs : proc'[q].frozen => proc[q].frozen /\ proc'[q] = proc[q]
      BY <1>3, EndedBlank DEF Falls, Gone, Only
    <3> QED
      BY <1>3, <1>q, <2>1, <3>1 DEF Falls, Alive
  <2>2. ASSUME NEW h \in Helpers, KillKills(h) \/ KillStopsJob(h) PROVE KillInv'
    BY <1>1, <2>2 DEF KillMove
  <2> QED
    BY <1>3, <2>1, <2>2 DEF Falls
<1>4. ASSUME NEW r \in Runs, Spawns(r) \/ Climbs(r) \/ Advances(r) \/ Begins(r) \/ Stops(r) PROVE KillInv'
  <2>1. /\ Only(r) /\ proc'[r].frozen = proc[r].frozen /\ proc'[r].pc \notin {"new", "ended"}
        /\ helper' = helper
    BY <1>0, <1>4 DEF Spawns, Climbs, Advances, Begins, Stops, commands
  <2>2. intent' \in {intent, NoIntent} /\ request' \in {request, NoRequest}
    BY <1>4 DEF Spawns, Climbs, ClimbFiles, Advances, Begins, Stops, files
  <2> QED
    BY <1>q, <2>1, <2>2 DEF Only, Alive
<1>5. CASE Reboot
  <2>1. /\ \A h \in Helpers : /\ Active(h) => helper'[h].pc = "done" /\ helper'[h].outcome = "died"
                              /\ ~Active(h) => helper'[h] = helper[h]
        /\ UNCHANGED <<intent, request>>
    BY <1>5, RebootFacts
  <2>2. RequestInv' /\ IntentInv'
    BY <2>1 DEF KillInv, RequestInv, IntentInv, Active, LeftFor
  <2>3. \A q \in Runs : ~proc'[q].frozen
    BY <1>5, RebootFacts, EndedBlank DEF KillInv, FrozenInv, Alive
  <2> QED
    BY <2>2, <2>3 DEF KillInv, FrozenInv
<1> QED
  BY <1>2, <1>3, <1>4, <1>5, Shapes

(* A kill that was called off, or gave way to another bridge, has resumed whom it froze and taken *)
(* back its own request and intent when its helper returns, in three operations, whatever other   *)
(* helpers, stops, starts and bridges wrote over the same two files in between.  It says nothing  *)
(* of the stop the helper asked of the manager: the code does not take that back.                 *)
THEOREM CalledOffClean == Spec => []CalledOffTakesBack
<1>1. TypeInv /\ KillInv => CalledOffTakesBack
  <2> SUFFICES ASSUME TypeInv, KillInv, NEW h \in Helpers, helper[h].pc = "done", helper[h].outcome \in {"called_off", "other"}
               PROVE  /\ request.by # h /\ intent.helper # h
                      /\ Alive(helper[h].target) /\ proc[helper[h].target].frozen =>
                            \E g \in Helpers \ {h} : helper[g].target = helper[h].target /\ helper[g].pc \in {"frozen", "resume", "done"}
    BY DEF CalledOffTakesBack
  <2>1. request.by # h /\ intent.helper # h
    BY DEF KillInv, RequestInv, IntentInv, Active, LeftFor
  <2>2. ASSUME Alive(helper[h].target), proc[helper[h].target].frozen
        PROVE  \E g \in Helpers \ {h} : helper[g].target = helper[h].target /\ helper[g].pc \in {"frozen", "resume", "done"}
    <3>1. helper[h].target \in Runs
      BY <2>2 DEF Alive
    <3>2. PICK g \in Helpers : Freezer(g, helper[h].target)
      BY <2>2, <3>1 DEF KillInv, FrozenInv
    <3> QED
      BY <3>2 DEF Freezer
  <2> QED
    BY <2>1, <2>2
<1> QED
  BY <1>1, KillInit, KillNext, TypeAlways, PTL DEF Spec

-----------------------------------------------------------------------------
(* A plain stop and the runs queued behind it. *)

\* Who has not begun to stop has no reason; bridge.json says why the bridge that is up stops.
ReasonInv ==
    /\ \A r \in Runs : proc[r].pc \in {"new"} \cup Before => proc[r].reason = "none"
    /\ \A r \in Runs : proc[r].pc \in Up =>
          rec.reason = proc[r].reason /\ (proc[r].reason # "none" => rec.phase \notin {"none", "running"})
    /\ \A r \in plain : proc[r].pc \in Up => proc[r].reason = "user_stop"

\* Behind a plain stop the record stays as it is until a bridge comes up, and whoever waits cannot.
QueuedBehind(q) == proc[q].pc # "new" /\ (proc[q].origin = "service" => proc[q].pc \in {"queued", "recheck"} /\ proc[q].waited)
BehindInv ==
    /\ behind # {} => PlainStop /\ \A r \in Runs : proc[r].pc \notin Up
    /\ \A q \in behind : QueuedBehind(q)

LEMMA PlainInit == Init => ReasonInv /\ BehindInv
BY DEF Init, Blank, ReasonInv, BehindInv, Up

LEMMA PlainNext == TypeInv /\ LockInv /\ ReasonInv /\ BehindInv /\ [Next]_vars => ReasonInv' /\ BehindInv'
<1> SUFFICES ASSUME TypeInv, LockInv, ReasonInv, BehindInv, [Next]_vars PROVE ReasonInv' /\ BehindInv'
  OBVIOUS
<1>0. /\ Up = {"starting", "serving", "draining", "after"}
      /\ Before = {"lock", "guard", "backoff", "queued", "recheck", "clean", "record"}
      /\ plain \subseteq Runs /\ behind \subseteq Runs
  BY DEF Up, Before, TypeInv, HistoryType
<1>1. \A q \in Runs : proc[q].pc \in Up \cup {"record"} => lock = q
  BY DEF LockInv, Holding
<1>2. \A q \in Runs : proc[q].pc \in Up => rec.owner = q
  BY DEF LockInv, OwnRecord
<1>3. CASE Still
  <2>1. \A q \in Runs : /\ proc'[q].pc = proc[q].pc /\ proc'[q].reason = proc[q].reason
                        /\ proc'[q].origin = proc[q].origin /\ proc'[q].waited = proc[q].waited
    BY <1>3 DEF Still, AllCalm, Calm, SameStart
  <2>2. rec'.phase = rec.phase /\ rec'.reason = rec.reason /\ UNCHANGED <<plain, behind>>
    BY <1>3 DEF Still
  <2>3. ReasonInv'
    BY <1>0, <2>1, <2>2 DEF ReasonInv
  <2>4. BehindInv'
    BY <1>0, <2>1, <2>2 DEF BehindInv, QueuedBehind, PlainStop
  <2> QED
    BY <2>3, <2>4
<1>4. CASE Reboot
  <2>1. \A q \in Runs : /\ proc'[q].pc \in {"new", "ended"}
                        /\ proc'[q] = proc[q] \/ (proc'[q].pc = "ended" /\ proc'[q].origin # "service")
    BY <1>4, RebootFacts, EndedBlank DEF Alive
  <2>2. UNCHANGED <<rec, plain, behind>>
    BY <1>4, RebootFacts
  <2>3. ReasonInv'
    BY <1>0, <2>1, <2>2 DEF ReasonInv
  <2>4. BehindInv'
    BY <1>0, <2>1, <2>2 DEF BehindInv, QueuedBehind, PlainStop
  <2> QED
    BY <2>3, <2>4
<1>5. ASSUME NEW r \in Runs, Falls(r) PROVE ReasonInv' /\ BehindInv'
  <2>1. /\ proc'[r].pc = "ended" /\ proc'[r].origin # "service" /\ \A q \in Runs \ {r} : proc'[q] = proc[q]
        /\ rec' = rec \/ (proc[r].pc \in Up /\ rec.owner = r)
        /\ plain' \subseteq plain /\ behind' = behind
    BY <1>5, EndedBlank DEF Falls, Gone, Only
  <2>2. ReasonInv'
    BY <1>0, <1>2, <2>1 DEF ReasonInv
  <2>3. BehindInv'
    BY <1>0, <2>1 DEF BehindInv, QueuedBehind, PlainStop
  <2> QED
    BY <2>2, <2>3
<1>6. ASSUME NEW r \in Runs, Spawns(r) PROVE ReasonInv' /\ BehindInv'
  <2>1. /\ proc[r].pc = "new" /\ proc'[r].pc \in {"guard", "lock"} /\ proc'[r].reason = proc[r].reason
        /\ \A q \in Runs \ {r} : proc'[q] = proc[q]
        /\ UNCHANGED <<rec, plain, behind>>
    BY <1>6 DEF Spawns, Only, SameStop, files, history
  <2>2. ReasonInv'
    BY <1>0, <2>1 DEF ReasonInv
  <2>3. BehindInv'
    BY <1>0, <2>1 DEF BehindInv, QueuedBehind, PlainStop
  <2> QED
    BY <2>2, <2>3
<1>7. ASSUME NEW r \in Runs, Climbs(r) PROVE ReasonInv' /\ BehindInv'
  <2>1. /\ proc[r].pc \in Before /\ proc'[r].reason = proc[r].reason /\ proc'[r].origin = proc[r].origin
        /\ \A q \in Runs \ {r} : proc'[q] = proc[q]
    BY <1>7 DEF Climbs, Only, SameStop
  <2>2. CASE proc'[r].pc = "starting"
    <3>1. /\ proc[r].pc = "record" /\ plain' = {} /\ behind' = {}
          /\ rec' = [owner |-> r, phase |-> "running", clean |-> FALSE, reason |-> "none"]
      BY <1>7, <2>2 DEF Climbs, ClimbFiles
    <3>2. ReasonInv'
      BY <1>0, <1>1, <2>1, <2>2, <3>1 DEF ReasonInv
    <3> QED
      BY <3>1, <3>2 DEF BehindInv
  <2>3. CASE proc'[r].pc # "starting"
    <3>1. proc'[r].pc \in Before /\ UNCHANGED <<rec, plain, behind>>
      BY <1>0, <1>7, <2>3 DEF Climbs, ClimbFiles, files, history
    <3>2. ReasonInv'
      BY <1>0, <2>1, <3>1 DEF ReasonInv
    <3>3. ASSUME r \in behind, proc[r].origin = "service" PROVE proc'[r].pc \in {"queued", "recheck"} /\ proc'[r].waited
      <4>1. /\ proc[r].pc \in {"queued", "recheck"} /\ proc[r].waited /\ PlainStop
        BY <3>3 DEF BehindInv, QueuedBehind
      <4>2. ~MayStart(r)
        BY <3>3, <4>1 DEF MayStart
      <4> QED
        BY <1>7, <4>1, <4>2 DEF Climbs, ClimbFiles
    <3>4. BehindInv'
      BY <1>0, <2>1, <3>1, <3>3 DEF BehindInv, QueuedBehind, PlainStop
    <3> QED
      BY <3>2, <3>4
  <2> QED
    BY <2>2, <2>3
<1>8. ASSUME NEW r \in Runs, Advances(r) PROVE ReasonInv' /\ BehindInv'
  <2>1. /\ proc[r].pc \in Up /\ proc'[r].pc \in Up /\ proc'[r].reason = proc[r].reason
        /\ \A q \in Runs \ {r} : proc'[q] = proc[q]
        /\ UNCHANGED <<rec, plain, behind>>
    BY <1>8 DEF Advances, Only, SameStop, files, history
  <2>2. ReasonInv'
    BY <1>0, <2>1 DEF ReasonInv
  <2>3. behind' = {}
    BY <2>1 DEF BehindInv
  <2> QED
    BY <2>2, <2>3 DEF BehindInv
<1>9. ASSUME NEW r \in Runs, Begins(r) PROVE ReasonInv' /\ BehindInv'
  <2>1. /\ proc[r].pc \in Up /\ proc'[r].pc \in Up
        /\ \A q \in Runs \ {r} : proc'[q] = proc[q]
        /\ proc[r].reason # "none" => proc'[r].reason = proc[r].reason /\ rec' = rec
        /\ proc[r].reason = "none" /\ rec.owner = r =>
              /\ rec'.phase = "stopping"
              /\ rec.reason = "none" => rec'.reason = proc'[r].reason
        /\ plain' \subseteq plain \cup {r}
        /\ r \in plain' => r \in plain \/ proc'[r].reason = "user_stop"
        /\ behind' = behind
    BY <1>9 DEF Begins, Only
  <2>2. rec.owner = r /\ lock = r /\ rec.reason = proc[r].reason
    BY <1>1, <1>2, <2>1 DEF ReasonInv
  <2>3. \A q \in Runs \ {r} : proc[q].pc \notin Up
    BY <1>1, <2>2
  <2>4. ReasonInv'
    <3>1. \A q \in Runs : proc'[q].pc \in {"new"} \cup Before => proc'[q].reason = "none"
      BY <1>0, <2>1 DEF ReasonInv
    <3>2. \A q \in Runs : proc'[q].pc \in Up =>
             rec'.reason = proc'[q].reason /\ (proc'[q].reason # "none" => rec'.phase \notin {"none", "running"})
      BY <2>1, <2>2, <2>3 DEF ReasonInv
    <3>3. \A q \in plain' : proc'[q].pc \in Up => proc'[q].reason = "user_stop"
      BY <1>0, <2>1, <2>3 DEF ReasonInv
    <3> QED
      BY <3>1, <3>2, <3>3 DEF ReasonInv
  <2>5. behind' = {}
    BY <2>1 DEF BehindInv
  <2> QED
    BY <2>4, <2>5 DEF BehindInv
<1>10. ASSUME NEW r \in Runs, Stops(r) PROVE ReasonInv' /\ BehindInv'
  <2>1. /\ proc[r].pc = "after" /\ proc'[r].pc = "leaving" /\ \A q \in Runs \ {r} : proc'[q] = proc[q]
        /\ rec.owner = r => rec'.phase = "stopped" /\ rec'.reason = rec.reason
        /\ behind' = IF r \in plain THEN {q \in Runs : Can(q, "queued") /\ proc[q].waited} ELSE behind
        /\ plain' \subseteq plain
    BY <1>10 DEF Stops, Only
  <2>2. rec.owner = r /\ lock = r /\ behind = {}
    BY <1>0, <1>1, <1>2, <2>1 DEF BehindInv
  <2>3. \A q \in Runs : proc'[q].pc \notin Up
    BY <1>0, <1>1, <2>1, <2>2
  <2>4. ReasonInv'
    BY <1>0, <2>1, <2>3 DEF ReasonInv
  <2>5. BehindInv'
    <3>1. r \in plain => rec'.phase = "stopped" /\ rec'.reason = "user_stop"
      BY <1>0, <2>1, <2>2 DEF ReasonInv
    <3>2. \A q \in behind' : QueuedBehind(q)'
      <4> SUFFICES ASSUME NEW q \in behind' PROVE QueuedBehind(q)'
        OBVIOUS
      <4>1. q \in Runs /\ proc[q].pc = "queued" /\ proc[q].waited
        BY <2>1, <2>2 DEF Can
      <4>2. proc'[q] = proc[q]
        BY <2>1, <4>1
      <4> QED
        BY <4>1, <4>2 DEF QueuedBehind
    <3> QED
      BY <2>1, <2>2, <2>3, <3>1, <3>2 DEF BehindInv, PlainStop
  <2> QED
    BY <2>4, <2>5
<1> QED
  BY <1>3, <1>4, <1>5, <1>6, <1>7, <1>8, <1>9, <1>10, Shapes

(* A service run that queued behind a bridge it saw alive does not come up when that bridge ended *)
(* on a plain stop, whatever signals, joined stops, kills and restarts came after the request.    *)
THEOREM PlainStopFinal == Spec => []PlainStopHolds
<1>1. TypeInv /\ BehindInv => PlainStopHolds
  BY DEF TypeInv, HistoryType, BehindInv, QueuedBehind, PlainStopHolds, ServiceUp, Up
<1> QED
  BY <1>1, PlainInit, PlainNext, TypeAlways, LockAlways, PTL DEF Spec

-----------------------------------------------------------------------------
(* A committed kill. *)

\* bridge.json names a bridge that is up or ended without saying so, and a helper's target has been up.
BeenUp(r) == proc[r].pc \in {"leaving", "ended"} \cup Up
TargetInv ==
    /\ rec.owner # 0 => proc[rec.owner].pc \in {"ended"} \cup Up
    /\ \A h \in Helpers : Active(h) => BeenUp(helper[h].target)

LEMMA TargetInit == Init => TargetInv
BY DEF Init, TargetInv, IdleHelper, Active

LEMMA TargetNext == TypeInv /\ LockInv /\ TargetInv /\ [Next]_vars => TargetInv'
<1> SUFFICES ASSUME TypeInv, LockInv, TargetInv, [Next]_vars PROVE TargetInv'
  OBVIOUS
<1>0. /\ Up = {"starting", "serving", "draining", "after"}
      /\ Before = {"lock", "guard", "backoff", "queued", "recheck", "clean", "record"}
      /\ CommandType /\ ProcType /\ FileType /\ rec \in RecordFile
      /\ \A g \in Helpers : Active(g) => helper[g].target \in Runs
      /\ rec.owner # 0 => rec.owner \in Runs
  <2>1. rec.owner \in 0..MaxRuns
    BY DEF TypeInv, FileType, RecordFile
  <2> QED
    BY <2>1, Consts DEF Up, Before, TypeInv, CommandType, FileType, Runs
<1>q. ASSUME helper' = helper, \A q \in Runs : BeenUp(q) => BeenUp(q)',
             rec'.owner # 0 => proc'[rec'.owner].pc \in {"ended"} \cup Up
      PROVE  TargetInv'
  BY <1>0, <1>q DEF TargetInv, Active
\* A step of a helper, which keeps its target or reads whom the record names.
<1>1. ASSUME NEW h \in Helpers, KillMove(h), \A q \in Runs : BeenUp(q) => BeenUp(q)',
             rec'.owner # 0 => proc'[rec'.owner].pc \in {"ended"} \cup Up
      PROVE  TargetInv'
  <2>x. /\ {"pending", "wait", "manager", "probe", "commit", "committed", "frozen", "unintend", "withdraw"} \subseteq HelperPcs
        /\ {"other", "called_off", "killed", "died"} \subseteq Outcomes
    BY DEF HelperPcs, Outcomes
  <2>a. ASSUME OnlyHelper(h), Active(h)' => Active(h) /\ helper'[h].target = helper[h].target PROVE TargetInv'
    BY <1>0, <1>1, <2>a DEF TargetInv, OnlyHelper, Active
  <2>b. ASSUME NEW x \in HelperPcs, HelperAt(h, x), Active(h) PROVE TargetInv'
    BY <1>0, <2>a, <2>b, HelperAtFacts
  <2>c. ASSUME NEW o \in Outcomes, helper' = [helper EXCEPT ![h] = Done(h, o)] PROVE TargetInv'
    <3>1. Done(h, o) \in KillCmd /\ Done(h, o).pc = "done"
      BY <1>0, DoneFacts
    <3>2. OnlyHelper(h) /\ helper'[h].pc = "done"
      BY <1>0, <2>c, <3>1, HelperReplaced
    <3> QED
      BY <2>a, <3>2 DEF Active
  <2>d. ASSUME NEW o \in Outcomes, CalledOff(h, o), Active(h) PROVE TargetInv'
    BY <1>0, <2>a, <2>d, CalledOffFacts
  <2>1. ASSUME NEW skip \in BOOLEAN, KillReads(h, skip) PROVE TargetInv'
    <3>1. /\ OnlyHelper(h) /\ helper'[h].pc \in {"read", "done"}
          /\ helper'[h].pc = "read" => helper'[h].target = rec.owner /\ IsRunning
      BY <1>0, <2>1, KillReadsFacts
    <3>2. IsRunning => rec.owner \in Runs /\ BeenUp(rec.owner)
      BY Consts DEF IsRunning, Alive, TargetInv, BeenUp
    <3> QED
      BY <1>0, <1>1, <3>1, <3>2 DEF TargetInv, OnlyHelper, Active
  <2>2. CASE KillCommand(h) \/ StopEscalates(h)
    BY <2>1, <2>2 DEF KillCommand, StopEscalates
  <2>3. CASE KillPends(h) \/ KillWaits(h) \/ KillStopsJob(h) \/ KillCommits(h) \/ KillResumes(h) \/ KillUnintends(h)
    <3>1. Active(h) /\ \E x \in HelperPcs : HelperAt(h, x)
      BY <2>x, <2>3 DEF KillPends, KillWaits, KillStopsJob, KillCommits, KillResumes, KillUnintends, Active
    <3> QED
      BY <2>b, <3>1
  <2>4. CASE KillAsks(h)
    <3>0. Active(h)
      BY <2>4 DEF KillAsks, Active
    <3>1. CASE HelperAt(h, "manager") \/ HelperAt(h, "probe")
      BY <2>b, <2>x, <3>0, <3>1
    <3>2. CASE helper' = [helper EXCEPT ![h].pc = "wait", ![h].wrote = TRUE]
      <4>0. helper[h] \in KillCmd /\ helper \in [Helpers -> KillCmd]
        BY <1>0 DEF CommandType
      <4> DEFINE k == [helper[h] EXCEPT !.pc = "wait", !.wrote = TRUE]
      <4>1. k \in KillCmd /\ k.target = helper[h].target /\ helper' = [helper EXCEPT ![h] = k]
        BY <3>2, <4>0 DEF KillCmd, HelperPcs
      <4> HIDE DEF k
      <4> QED
        BY <1>0, <2>a, <3>0, <4>1, HelperReplaced
    <3> QED
      BY <2>4, <3>1, <3>2 DEF KillAsks
  <2>5. CASE KillProbes(h)
    <3>1. CASE HelperAt(h, "commit")
      BY <2>b, <2>x, <2>5, <3>1 DEF KillProbes, Active
    <3>2. CASE CalledOff(h, "other")
      BY <2>d, <2>x, <2>5, <3>2 DEF KillProbes, Active
    <3> QED
      BY <2>5, <3>1, <3>2 DEF KillProbes
  <2>6. CASE KillFreezes(h)
    <3>1. CASE HelperAt(h, "frozen")
      BY <2>b, <2>x, <2>6, <3>1 DEF KillFreezes, Active
    <3>2. CASE CalledOff(h, "other")
      BY <2>d, <2>x, <2>6, <3>2 DEF KillFreezes, Active
    <3>3. CASE helper' = [helper EXCEPT ![h] = Done(h, "killed")]
      BY <2>c, <2>x, <3>3
    <3> QED
      BY <2>6, <3>1, <3>2, <3>3 DEF KillFreezes
  <2>7. CASE KillKills(h) \/ KillWithdraws(h) \/ HelperDies(h)
    <3>1. helper[h].outcome \in Outcomes
      BY <1>0 DEF CommandType, KillCmd
    <3>2. \E o \in Outcomes : helper' = [helper EXCEPT ![h] = Done(h, o)]
      BY <2>x, <2>7, <3>1 DEF KillKills, KillWithdraws, HelperDies
    <3> QED
      BY <2>c, <3>2
  <2>8. CASE KillInterrupted(h)
    BY <2>d, <2>x, <2>8 DEF KillInterrupted, Active
  <2> QED
    BY <1>1, <2>2, <2>3, <2>4, <2>5, <2>6, <2>7, <2>8 DEF KillMove
<1>2. CASE Still
  <2>1. \A q \in Runs : proc'[q].pc = proc[q].pc
    BY <1>2 DEF Still, AllCalm, Calm
  <2>2. rec' = rec \/ rec'.owner = 0
    BY <1>2 DEF Still
  <2>3. /\ \A q \in Runs : BeenUp(q) => BeenUp(q)'
        /\ rec'.owner # 0 => proc'[rec'.owner].pc \in {"ended"} \cup Up
    BY <1>0, <2>1, <2>2 DEF BeenUp, TargetInv
  <2>4. helper' = helper \/ \E h \in Helpers : KillMove(h)
    BY <1>2 DEF Still
  <2> QED
    BY <1>1, <1>q, <2>3, <2>4
<1>3. ASSUME NEW r \in Runs, Falls(r) PROVE TargetInv'
  <2>1. proc'[r].pc = "ended" /\ (\A q \in Runs \ {r} : proc'[q] = proc[q]) /\ rec'.owner = rec.owner
    BY <1>3, EndedBlank DEF Falls, Gone, Only
  <2>2. /\ \A q \in Runs : BeenUp(q) => BeenUp(q)'
        /\ rec'.owner # 0 => proc'[rec'.owner].pc \in {"ended"} \cup Up
    BY <1>0, <2>1 DEF BeenUp, TargetInv
  <2>3. helper' = helper \/ \E h \in Helpers : KillMove(h)
    BY <1>3 DEF Falls, KillMove
  <2> QED
    BY <1>1, <1>q, <2>2, <2>3
<1>4. ASSUME NEW r \in Runs, Spawns(r) \/ Climbs(r) PROVE TargetInv'
  <2>1. /\ ~BeenUp(r) /\ (\A q \in Runs \ {r} : proc'[q] = proc[q]) /\ helper' = helper
        /\ rec' = rec \/ (rec'.owner = r /\ proc'[r].pc \in Up)
    BY <1>0, <1>4 DEF Spawns, Climbs, ClimbFiles, Only, BeenUp, files, commands
  <2> QED
    BY <1>0, <1>q, <2>1 DEF BeenUp, TargetInv
<1>5. ASSUME NEW r \in Runs, Advances(r) \/ Begins(r) PROVE TargetInv'
  <2>1. /\ proc'[r].pc \in Up /\ (\A q \in Runs \ {r} : proc'[q] = proc[q]) /\ helper' = helper
        /\ rec'.owner = rec.owner
    BY <1>5 DEF Advances, Begins, Only, files, commands
  <2> QED
    BY <1>0, <1>q, <2>1 DEF BeenUp, TargetInv
<1>6. ASSUME NEW r \in Runs, Stops(r) PROVE TargetInv'
  <2>1. /\ proc[r].pc = "after" /\ proc'[r].pc = "leaving" /\ (\A q \in Runs \ {r} : proc'[q] = proc[q]) /\ helper' = helper
        /\ rec.owner = r => rec'.owner = 0
    BY <1>6 DEF Stops, Only, commands
  <2>2. rec.owner = r
    BY <1>0, <2>1 DEF LockInv, OwnRecord
  <2> QED
    BY <1>0, <1>q, <2>1, <2>2 DEF BeenUp
<1>7. CASE Reboot
  <2>1. \A q \in Runs : proc'[q].pc = "ended" \/ proc'[q] = proc[q]
    BY <1>7, RebootFacts, EndedBlank
  <2>2. rec' = rec /\ \A h \in Helpers : ~Active(h)'
    BY <1>7, RebootFacts
  <2> QED
    BY <1>0, <2>1, <2>2 DEF TargetInv
<1> QED
  BY <1>2, <1>3, <1>4, <1>5, <1>6, <1>7, Shapes

\* While a kill is committed no other kill is on its way to be.
NoSecondKill == held # 0 => \A h \in Helpers : Active(h) => helper[h].pc \in {"committed", "frozen"}

\* Whoever would come up in place of a bridge under a committed kill meets the intent.
HeldInv ==
    held # 0 =>
        /\ intent.state = "committed" /\ intent.target = held /\ intent.boot = boot
        /\ held \in Runs /\ BeenUp(held)
        /\ KillHolds

LEMMA HeldInit == Init => HeldInv
BY DEF Init, HeldInv

LEMMA HeldNext == TypeInv /\ LockInv /\ TargetInv /\ HeldInv /\ NoSecondKill /\ [Next]_vars => HeldInv'
<1> SUFFICES ASSUME TypeInv, LockInv, TargetInv, HeldInv, NoSecondKill, [Next]_vars PROVE HeldInv'
  OBVIOUS
<1>0. /\ Up = {"starting", "serving", "draining", "after"}
      /\ Before = {"lock", "guard", "backoff", "queued", "recheck", "clean", "record"}
      /\ CommandType /\ ProcType /\ FileType
      /\ \A g \in Helpers : Active(g) => helper[g].target \in Runs
      /\ \A q \in Runs : proc[q].pc \in {"recheck", "clean", "record", "leaving"} \cup Up => lock = q
  BY DEF Up, Before, TypeInv, CommandType, LockInv, Holding
\* The intent stays, and nobody new is up.
<1>q. ASSUME held' \in {0, held}, held' # 0 => intent' = intent, boot' = boot,
             \A q \in Runs : /\ BeenUp(q) => BeenUp(q)'
                             /\ held' # 0 /\ q # held /\ ServiceUp(q)' => ServiceUp(q)
      PROVE  HeldInv'
  <2> SUFFICES ASSUME held' # 0 PROVE HeldInv'
    BY DEF HeldInv
  <2>1. held' = held /\ intent' = intent
    BY <1>q
  <2>2. /\ intent.state = "committed" /\ intent.target = held /\ intent.boot = boot
        /\ held \in Runs /\ BeenUp(held) /\ \A q \in Runs \ {held} : ~ServiceUp(q)
    BY <2>1 DEF HeldInv, KillHolds
  <2>3. proc'[held].pc \in {"leaving", "ended"} \cup Up
    BY <1>q, <2>2 DEF BeenUp
  <2>4. ASSUME NEW q \in Runs, q # held
        PROVE  ~(proc'[q].origin = "service" /\ proc'[q].pc \in {"clean", "record"} \cup Up)
    BY <1>q, <2>2, <2>4 DEF ServiceUp
  <2>6. KillHolds'
    BY <2>1, <2>4 DEF KillHolds, ServiceUp
  <2>7. intent'.state = "committed" /\ intent'.target = held' /\ intent'.boot = boot'
    BY <1>q, <2>1, <2>2
  <2> QED
    BY <2>1, <2>3, <2>2, <2>6, <2>7 DEF HeldInv, BeenUp
<1>1. ASSUME NEW h \in Helpers, KillMove(h), boot' = boot, \A q \in Runs : proc'[q].pc = proc[q].pc /\ proc'[q].origin = proc[q].origin
      PROVE  HeldInv'
  <2>1. \A q \in Runs : (BeenUp(q) => BeenUp(q)') /\ (ServiceUp(q)' => ServiceUp(q))
    BY <1>1 DEF BeenUp, ServiceUp
  <2>2. CASE KillCommits(h)
    <3>1. Active(h) /\ helper[h].pc = "commit"
      BY <2>2 DEF KillCommits, Active
    <3>2. held = 0
      BY <3>1 DEF NoSecondKill
    <3> SUFFICES ASSUME held' # 0 PROVE HeldInv'
      BY DEF HeldInv
    <3>3. /\ held' = helper[h].target /\ Alive(held') /\ intent' = [target |-> held', state |-> "committed", helper |-> h, boot |-> boot]
      BY <2>2, <3>2 DEF KillCommits
    <3>4. held' \in Runs /\ BeenUp(held') /\ proc[held'].pc # "ended"
      BY <1>0, <3>1, <3>3 DEF TargetInv, Alive
    <3>5. lock = held'
      BY <1>0, <3>4 DEF BeenUp
    <3>6. \A q \in Runs \ {held'} : ~ServiceUp(q)
      BY <1>0, <3>5 DEF ServiceUp
    <3> QED
      BY <1>1, <2>1, <3>3, <3>4, <3>6 DEF HeldInv, KillHolds, BeenUp
  <2>3. CASE ~KillCommits(h)
    <3>1. held' \in {0, held} /\ (held' # 0 => intent' = intent)
      <4>1. ASSUME NEW o, CalledOff(h, o), Active(h) PROVE held' = 0
        BY <4>1 DEF CalledOff, NoSecondKill
      <4>2. CASE KillPends(h)
        <5>1. held = 0 /\ held' = held
          BY <4>2 DEF KillPends, NoSecondKill, Active, history
        <5> QED
          BY <5>1
      <4>3. CASE KillProbes(h) \/ KillInterrupted(h) \/ KillFreezes(h)
        <5>1. Active(h)
          BY <4>3 DEF KillProbes, KillInterrupted, KillFreezes, Active
        <5>2. UNCHANGED <<intent, held>> \/ \E o \in {"other", "called_off"} : CalledOff(h, o)
          BY <4>3 DEF KillProbes, KillInterrupted, KillFreezes, files, history
        <5> QED
          BY <4>1, <5>1, <5>2
      <4>4. CASE KillCommand(h) \/ StopEscalates(h) \/ KillAsks(h) \/ KillWaits(h) \/ KillStopsJob(h) \/ KillKills(h) \/ HelperDies(h)
        BY <4>4 DEF KillCommand, StopEscalates, KillAsks, KillWaits, KillStopsJob, KillKills, HelperDies, files, history
      <4>5. CASE KillResumes(h) \/ KillUnintends(h) \/ KillWithdraws(h)
        <5>1. held = 0
          BY <4>5 DEF KillResumes, KillUnintends, KillWithdraws, NoSecondKill, Active
        <5>2. held' = held
          BY <4>5 DEF KillResumes, KillUnintends, KillWithdraws, history
        <5> QED
          BY <5>1, <5>2
      <4> QED
        BY <1>1, <2>3, <4>2, <4>3, <4>4, <4>5 DEF KillMove
    <3> QED
      BY <1>1, <1>q, <2>1, <3>1
  <2> QED
    BY <2>2, <2>3
<1>2. CASE Still
  <2>1. \A q \in Runs : proc'[q].pc = proc[q].pc /\ proc'[q].origin = proc[q].origin
    BY <1>2 DEF Still, AllCalm, Calm, SameStart
  <2>2. boot' = boot
    BY <1>2 DEF Still
  <2>3. CASE UNCHANGED <<intent, held>> \/ held' = 0
    BY <1>q, <2>1, <2>2, <2>3 DEF BeenUp, ServiceUp
  <2>4. CASE \E h \in Helpers : KillMove(h)
    BY <1>1, <2>1, <2>2, <2>4
  <2> QED
    BY <1>2, <2>3, <2>4 DEF Still
<1>3. ASSUME NEW r \in Runs, Falls(r) PROVE HeldInv'
  <2>1. proc'[r].pc = "ended" /\ (\A q \in Runs \ {r} : proc'[q] = proc[q]) /\ UNCHANGED <<intent, held, boot>>
    BY <1>3, EndedBlank DEF Falls, Gone, Only
  <2> QED
    BY <1>0, <1>q, <2>1 DEF BeenUp, ServiceUp
<1>4. ASSUME NEW r \in Runs, Spawns(r) PROVE HeldInv'
  <2>1. /\ proc[r].pc = "new" /\ proc'[r].pc \in {"guard", "lock"} /\ (\A q \in Runs \ {r} : proc'[q] = proc[q])
        /\ UNCHANGED <<intent, held, boot>>
    BY <1>4 DEF Spawns, Only, files, history
  <2> QED
    BY <1>0, <1>q, <2>1 DEF BeenUp, ServiceUp
<1>5. ASSUME NEW r \in Runs, Climbs(r) PROVE HeldInv'
  <2> SUFFICES ASSUME held' # 0 PROVE HeldInv'
    BY DEF HeldInv
  <2>1. /\ proc[r].pc \in Before /\ proc'[r].origin = proc[r].origin /\ (\A q \in Runs \ {r} : proc'[q] = proc[q]) /\ boot' = boot
        /\ held' = held
        /\ intent' = intent \/ (proc[r].pc = "clean" /\ proc[r].origin = "service")
    BY <1>5 DEF Climbs, ClimbFiles, Only, files, history
  <2>2. /\ intent.state = "committed" /\ intent.target = held /\ intent.boot = boot
        /\ held \in Runs /\ BeenUp(held) /\ \A q \in Runs \ {held} : ~ServiceUp(q)
    BY <2>1 DEF HeldInv, KillHolds
  <2>3. r # held
    BY <1>0, <2>1, <2>2 DEF BeenUp
  <2>4. intent' = intent
    BY <2>1, <2>2, <2>3 DEF ServiceUp
  <2>5. ~ServiceUp(r)'
    <3> SUFFICES ASSUME ServiceUp(r)' PROVE FALSE
      OBVIOUS
    <3>1. proc[r].origin = "service" /\ proc'[r].pc \in {"clean", "record", "starting"}
      BY <1>0, <1>5, <2>1 DEF ServiceUp, Climbs
    <3>2. proc[r].pc = "recheck" /\ MayStart(r)
      BY <1>5, <2>2, <2>3, <3>1 DEF Climbs, ClimbFiles, ServiceUp
    <3>3. Alive(held)
      BY <2>2, <3>1, <3>2 DEF MayStart, GuardFires
    <3>4. lock = held /\ lock = r
      BY <1>0, <2>2, <3>2, <3>3 DEF BeenUp, Alive
    <3> QED
      BY <2>3, <3>4
  <2> QED
    BY <1>0, <1>q, <2>1, <2>4, <2>5 DEF BeenUp, ServiceUp
<1>6. ASSUME NEW r \in Runs, Advances(r) \/ Begins(r) \/ Stops(r) PROVE HeldInv'
  <2>1. /\ proc[r].pc \in Up /\ proc'[r].pc \in {"leaving"} \cup Up /\ proc'[r].origin = proc[r].origin
        /\ (\A q \in Runs \ {r} : proc'[q] = proc[q]) /\ UNCHANGED <<intent, held, boot>>
    BY <1>0, <1>6 DEF Advances, Begins, Stops, Only, SameStart, files, history
  <2> QED
    BY <1>0, <1>q, <2>1 DEF BeenUp, ServiceUp
<1>7. CASE Reboot
  BY <1>7, RebootFacts DEF HeldInv
<1> QED
  BY <1>2, <1>3, <1>4, <1>5, <1>6, <1>7, Shapes

(* Once a helper has committed to killing a live bridge, no service run of that boot, respawned or *)
(* queued, comes up in its place until somebody asks for a start: as long as no second kill gets   *)
(* under way meanwhile, whose pending intent would overwrite the committed one.                    *)
THEOREM KillHoldsUndisturbed == Spec /\ []NoSecondKill => []KillHolds
<1>1. HeldInv => KillHolds
  BY DEF HeldInv, KillHolds
<1> QED
  BY <1>1, HeldInit, HeldNext, TargetInit, TargetNext, LockAlways, TypeAlways, PTL DEF Spec

\* A helper that is the only one cannot be a second.
Alone == \A g, h \in Helpers : g = h
AloneInv == held # 0 => \A h \in Helpers : helper[h].pc \in {"committed", "frozen", "done"}

LEMMA AloneNext == ASSUME Alone PROVE TypeInv /\ AloneInv /\ [Next]_vars => AloneInv'
<1> SUFFICES ASSUME TypeInv, AloneInv, [Next]_vars, held' # 0 PROVE AloneInv'
  BY DEF AloneInv
<1>0. CommandType
  BY DEF TypeInv
<1>q. ASSUME helper' = helper, held' = held PROVE AloneInv'
  BY <1>q DEF AloneInv
<1>1. ASSUME NEW h \in Helpers, KillMove(h) PROVE AloneInv'
  <2>x. {"commit", "committed", "frozen", "done"} \subseteq HelperPcs /\ {"other", "called_off", "killed", "died"} \subseteq Outcomes
    BY DEF HelperPcs, Outcomes
  <2>a. ASSUME helper'[h].pc \in {"committed", "frozen", "done"} PROVE AloneInv'
    BY <2>a DEF Alone, AloneInv
  <2>b. ASSUME NEW x \in {"committed", "frozen"}, HelperAt(h, x) PROVE AloneInv'
    <3>1. x \in HelperPcs
      BY <2>x
    <3> QED
      BY <1>0, <2>a, <2>b, <3>1, HelperAtFacts
  <2>c. ASSUME NEW o \in Outcomes, helper' = [helper EXCEPT ![h] = Done(h, o)] PROVE AloneInv'
    <3>1. Done(h, o) \in KillCmd /\ Done(h, o).pc = "done"
      BY <1>0, DoneFacts
    <3> QED
      BY <1>0, <2>a, <2>c, <3>1, HelperReplaced
  <2>1. CASE KillCommits(h)
    BY <2>b, <2>1 DEF KillCommits
  <2>d. ASSUME NEW o, CalledOff(h, o), Active(h) PROVE AloneInv'
    <3>1. held = 0 \/ helper[h].pc \in {"committed", "frozen"}
      BY <2>d DEF AloneInv, Active
    <3>2. held' = 0
      BY <2>d, <3>1 DEF CalledOff
    <3> QED
      BY <3>2
  <2>2. CASE KillFreezes(h) \/ KillKills(h) \/ KillInterrupted(h) \/ HelperDies(h)
    <3>1. \/ HelperAt(h, "frozen")
          \/ \E o \in Outcomes : helper' = [helper EXCEPT ![h] = Done(h, o)]
          \/ Active(h) /\ \E o \in Outcomes : CalledOff(h, o)
      BY <2>x, <2>2 DEF KillFreezes, KillKills, KillInterrupted, HelperDies, Active
    <3> QED
      BY <2>b, <2>c, <2>d, <3>1
  <2>3. CASE KillProbes(h) \/ KillResumes(h) \/ KillUnintends(h) \/ KillWithdraws(h)
    <3>1. held = 0
      BY <2>3 DEF KillProbes, KillResumes, KillUnintends, KillWithdraws, AloneInv
    <3>2. held' = 0
      BY <2>3, <3>1 DEF KillProbes, KillResumes, KillUnintends, KillWithdraws, CalledOff, history
    <3> QED
      BY <3>2
  <2>4. CASE KillCommand(h) \/ StopEscalates(h) \/ KillPends(h) \/ KillAsks(h) \/ KillWaits(h) \/ KillStopsJob(h)
    <3>1. helper[h].pc \in {"idle", "read", "pending", "wait", "manager"} /\ held' = held
      BY <2>4 DEF KillCommand, StopEscalates, KillReads, KillPends, KillAsks, KillWaits, KillStopsJob, history
    <3> QED
      BY <3>1 DEF AloneInv
  <2> QED
    BY <1>1, <2>1, <2>2, <2>3, <2>4 DEF KillMove
<1>2. CASE Still
  BY <1>1, <1>2, <1>q DEF Still
<1>3. ASSUME NEW r \in Runs, Falls(r) PROVE AloneInv'
  BY <1>1, <1>3, <1>q DEF Falls, KillMove
<1>4. ASSUME NEW r \in Runs, Spawns(r) \/ Climbs(r) \/ Advances(r) \/ Begins(r) \/ Stops(r) PROVE AloneInv'
  <2>1. helper' = helper /\ held' \in {0, held}
    BY <1>4 DEF Spawns, Climbs, ClimbFiles, Advances, Begins, Stops, commands, history
  <2> QED
    BY <1>q, <2>1
<1>5. CASE Reboot
  BY <1>5, RebootFacts
<1> QED
  BY <1>2, <1>3, <1>4, <1>5, Shapes

(* A single kill helper, whatever it is interrupted by, is never a second kill: its commit holds. *)
THEOREM KillHoldsAlone ==
    ASSUME \A g, h \in Helpers : g = h
    PROVE  Spec => []KillHolds
<1>1. Alone
  BY DEF Alone
<1>2. Init => AloneInv
  BY DEF Init, AloneInv
<1>3. TypeInv /\ AloneInv /\ [Next]_vars => AloneInv'
  BY <1>1, AloneNext
<1>4. AloneInv => NoSecondKill
  BY DEF AloneInv, NoSecondKill, Active
<1>5. Spec => []NoSecondKill
  BY <1>2, <1>3, <1>4, TypeAlways, PTL DEF Spec
<1> QED
  BY <1>5, KillHoldsUndisturbed, PTL

=============================================================================
