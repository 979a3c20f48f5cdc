--------------------------- MODULE BridgeLifecycle ---------------------------
(***************************************************************************)
(* How the bridge of one persona comes up and goes down (brain/bridge:     *)
(* daemon, runner, shutdown, shutdown_progress, kill, respawn_guard,       *)
(* start_backoff, stop_watch, state_file).                                 *)
(*                                                                         *)
(* A run is one bridge process: spawned by `nell supervisor start` (app),  *)
(* `nell supervisor run` in a terminal (cli) or under the service manager  *)
(* (service).  Its pid together with its identity token is its number.     *)
(* Beside the runs there are one start command, one stop (or restart)      *)
(* command and the kill helpers, all processes of their own that share     *)
(* only files: the bridge lock, bridge.json, the hard-exit request, the    *)
(* stop intent and the start back-off record.                              *)
(***************************************************************************)
EXTENDS Naturals

CONSTANTS
    Helpers,          \* the kill helpers ever started, one nonce each
    MaxRuns,          \* bound: bridge processes
    MaxEvents,        \* bound: commands, foreground runs, OS signals and faults together
    MaxTime,          \* bound: the clock
    LastStep,         \* length of DELAYS_S; step n lasts n time units
    HealthyReset,     \* HEALTHY_RESET_S
    ServiceInstalled, \* the persona's OS service is installed
    WorkComes         \* bound: bridges are given requests and background work

ASSUME LifecycleAssumption ==
    /\ {MaxRuns, MaxEvents, MaxTime, HealthyReset} \subseteq Nat
    /\ LastStep \in Nat \ {0}
    /\ ServiceInstalled \in BOOLEAN /\ WorkComes \in BOOLEAN
    /\ Helpers \intersect {"none", "stop"} = {}

VARIABLES
    now,       \* the wall clock
    boot,      \* the boot id
    proc,      \* run -> its process
    lock,      \* who holds bridge.json.lock: a run, Starter or 0
    rec,       \* bridge.json
    intent,    \* the stop intent
    request,   \* the hard-exit request, with its writer
    backoff,   \* the start back-off record
    manager,   \* the service manager's job
    starter,   \* the start command
    stopper,   \* the stop or restart command
    helper,    \* helper -> the kill helper
    events,    \* commands, foreground runs, OS signals and faults so far
    held,      \* history: the bridge a helper has committed to kill, while nobody asks for a start
    plain,     \* history: runs whose stop began with a plain `nell supervisor stop`
    behind     \* history: runs queued behind a bridge they saw, that then ended on a plain stop

files == <<lock, rec, intent, request, backoff>>
commands == <<starter, stopper, helper>>
history == <<held, plain, behind>>
vars == <<now, boot, proc, files, manager, commands, events, history>>

-----------------------------------------------------------------------------
Runs == 1..MaxRuns
Starter == MaxRuns + 1

Origins == {"app", "cli", "service"}
Reasons == {"none", "user_stop", "manual_restart", "idle_timeout", "os_signal", "hard_exit", "crash", "unknown"}
Before == {"lock", "guard", "backoff", "queued", "recheck", "clean", "record"}
Up == {"starting", "serving", "draining", "after"}

Blank == [pc |-> "new", origin |-> "app", waited |-> FALSE, since |-> 0, reason |-> "none",
          signal |-> "none", work |-> "none", sup |-> FALSE, sealed |-> FALSE, frozen |-> FALSE]
NoIntent == [target |-> 0, state |-> "none", helper |-> "none", boot |-> 0]
NoRequest == [target |-> 0, by |-> "none"]
NoBackoff == [starts |-> 0, at |-> 0, healthy |-> FALSE, boot |-> 0]
IdleStarter == [pc |-> "idle", child |-> 0]
IdleStopper == [pc |-> "idle", target |-> 0, why |-> "none", kill |-> "none"]
IdleHelper == [pc |-> "idle", target |-> 0, skip |-> FALSE, wrote |-> FALSE, outcome |-> "none"]

Alive(r) == r \in Runs /\ proc[r].pc \notin {"new", "ended"}
Can(r, pc) == proc[r].pc = pc /\ ~proc[r].frozen

(* bridge_liveness of the recorded bridge. *)
IsRunning == Alive(rec.owner)

(* guard_fires: a committed intent of this boot whose bridge is gone. *)
GuardFires == intent.state = "committed" /\ intent.boot = boot /\ ~Alive(intent.target)

(* read: a healthy run's record of an earlier boot is no crash. *)
Backoff == IF backoff.healthy /\ backoff.boot # boot THEN NoBackoff ELSE backoff

(* Mutant: the ladder has no last step. *)
StepUnbounded(n) == n

(* step_s: the ladder's last step repeats, so starts beyond it need not be told apart. *)
Step(n) == IF n <= LastStep THEN n ELSE LastStep

(* Mutant: the step is not added to the last start. *)
RemainingAnyAge ==
    LET due == Backoff.at
    IN IF Backoff.healthy THEN Step(Backoff.starts) ELSE IF due > now THEN due - now ELSE 0

(* remaining_wait_s at the time the record is first seen. *)
Remaining ==
    LET due == Backoff.at + Step(Backoff.starts)
    IN IF Backoff.healthy THEN Step(Backoff.starts) ELSE IF due > now THEN due - now ELSE 0

Init ==
    /\ now = 0
    /\ boot = 1
    /\ proc = [r \in Runs |-> Blank]
    /\ lock = 0
    /\ rec = [owner |-> 0, phase |-> "none", clean |-> TRUE, reason |-> "none"]
    /\ intent = NoIntent
    /\ request = NoRequest
    /\ backoff = NoBackoff
    /\ manager = IF ServiceInstalled THEN "due" ELSE "held"
    /\ starter = IdleStarter
    /\ stopper = IdleStopper
    /\ helper = [h \in Helpers |-> IdleHelper]
    /\ events = 0
    /\ held = 0
    /\ plain = {}
    /\ behind = {}

-----------------------------------------------------------------------------
(* Processes coming and going. *)

(* Something from outside: a command, a signal, a fault. *)
Event == events < MaxEvents /\ events' = events + 1

Fresh(r) == proc[r].pc = "new" /\ \A q \in 1..(r - 1) : proc[q].pc # "new"
Started(r, origin, pc) == proc' = [proc EXCEPT ![r].origin = origin, ![r].pc = pc]
Goto(r, pc) == proc' = [proc EXCEPT ![r].pc = pc]

(* The OS frees the lock; a non-zero exit makes the manager start the job again. *)
Ended(r, code) ==
    /\ proc' = [proc EXCEPT ![r] = [Blank EXCEPT !.pc = "ended"]]
    /\ lock' = IF lock = r THEN 0 ELSE lock
    /\ manager' = IF proc[r].origin # "service" THEN manager
                  ELSE IF code # 0 /\ manager = "running" THEN "due" ELSE "held"

(* Mutant: a later reason replaces the first. *)
StoppingAnew(r, why, pc) ==
    /\ proc' = [proc EXCEPT ![r].reason = why, ![r].pc = pc]
    /\ rec' = IF rec.owner = r THEN [rec EXCEPT !.phase = "stopping", !.reason = why] ELSE rec

(* begin_stop: the first reason stays, in the controller and in the record. *)
Stopping(r, why, pc) ==
    /\ proc' = [proc EXCEPT ![r].reason = IF @ = "none" THEN why ELSE @, ![r].pc = pc]
    /\ rec' = IF proc[r].reason = "none" /\ rec.owner = r
              THEN [rec EXCEPT !.phase = "stopping", !.reason = IF @ = "none" THEN why ELSE @]
              ELSE rec

(* hard_exit: the record says so, and only a crash keeps the back-off record. *)
HardExit(r, why) ==
    /\ rec' = IF rec.owner = r THEN [rec EXCEPT !.phase = "hard_exit", !.clean = FALSE, !.reason = why] ELSE rec
    /\ backoff' = IF why = "crash" THEN backoff ELSE NoBackoff
    /\ Ended(r, IF why = "crash" THEN 1 ELSE 0)

(* SIGTERM: noted once the handlers are there; the end of the process before, and again once *)
(* serve() has ended, without what is left of _after_run.                                    *)
Noted(r) == proc' = [proc EXCEPT ![r].signal = IF @ = "none" THEN "term" ELSE @]
Terminated(r) ==
    \/ /\ proc[r].pc \in Up \cup {"leaving"}
       /\ Noted(r)
       /\ UNCHANGED <<lock, manager>>
    \/ /\ ~proc[r].frozen
       /\ \/ proc[r].pc \in Before \cup {"starting"} /\ \E code \in {0, 1} : Ended(r, code)
          \/ proc[r].pc \in {"after", "leaving"} /\ Ended(r, 0)

-----------------------------------------------------------------------------
(* A run on its way up. *)

ManagerStarts(r) ==
    /\ manager = "due"
    /\ Fresh(r)
    /\ manager' = "running"
    /\ Started(r, "service", "guard")
    /\ UNCHANGED <<now, boot, files, commands, events, history>>

RunByHand(r) ==
    /\ Fresh(r)
    /\ Event
    /\ Started(r, "cli", "lock")
    /\ UNCHANGED <<now, boot, files, manager, commands, history>>

(* cmd_run: a service run asks the respawn guard, then waits out the back-off. *)
Guard(r) ==
    /\ Can(r, "guard")
    /\ IF GuardFires THEN Ended(r, 0)
       ELSE /\ proc' = [proc EXCEPT ![r].pc = "backoff", ![r].since = now + Remaining]
            /\ UNCHANGED <<lock, manager>>
    /\ UNCHANGED <<now, boot, rec, intent, request, backoff, commands, events, history>>

BackoffWait(r) ==
    /\ Can(r, "backoff")
    /\ \/ /\ now >= proc[r].since \/ Backoff.starts = 0
          /\ proc' = [proc EXCEPT ![r].pc = "lock", ![r].since = 0]
          /\ UNCHANGED <<lock, manager>>
       \/ /\ now < proc[r].since
          /\ GuardFires
          /\ Ended(r, 0)
    /\ UNCHANGED <<now, boot, rec, intent, request, backoff, commands, events, history>>

(* runner.main refuses beside a live bridge or a held lock; cmd_run queues. *)
RunnerLock(r) ==
    /\ Can(r, "lock")
    /\ proc[r].origin = "app"
    /\ IF IsRunning \/ lock # 0 THEN Ended(r, 2)
       ELSE lock' = r /\ Goto(r, "clean") /\ UNCHANGED manager
    /\ UNCHANGED <<now, boot, rec, intent, request, backoff, commands, events, history>>

RunLock(r) ==
    /\ Can(r, "lock")
    /\ proc[r].origin # "app"
    /\ IF lock = 0
       THEN lock' = r /\ Goto(r, "recheck")
       ELSE /\ proc' = [proc EXCEPT ![r].pc = "queued", ![r].waited = IsRunning]
            /\ UNCHANGED lock
    /\ UNCHANGED <<now, boot, rec, intent, request, backoff, manager, commands, events, history>>

RunUnqueued(r) ==
    /\ Can(r, "queued")
    /\ lock = 0
    /\ lock' = r
    /\ Goto(r, "recheck")
    /\ UNCHANGED <<now, boot, rec, intent, request, backoff, manager, commands, events, history>>

(* _ended_on_a_plain_stop *)
PlainStop == rec.phase \notin {"none", "running"} /\ rec.reason = "user_stop"

(* Mutant: the guard is not asked again under the lock. *)
MayStartUnguarded(r) == proc[r].origin = "service" => ~(proc[r].waited /\ PlainStop)

(* Under the lock: may a service run start after all? *)
MayStart(r) == proc[r].origin = "service" => ~GuardFires /\ ~(proc[r].waited /\ PlainStop)

(* note_start: a service run's start counts until a recorded stop. *)
Recheck(r) ==
    /\ Can(r, "recheck")
    /\ IF MayStart(r)
       THEN /\ proc' = [proc EXCEPT ![r].pc = "clean", ![r].waited = FALSE]
            /\ backoff' = IF proc[r].origin # "service" THEN backoff
                          ELSE [NoBackoff EXCEPT !.starts = Step(Backoff.starts + 1), !.at = now]
            /\ UNCHANGED <<lock, manager>>
       ELSE Ended(r, 0) /\ UNCHANGED backoff
    /\ UNCHANGED <<now, boot, rec, intent, request, commands, events, history>>

(* run_bridge_foreground: delete the watcher files, then write bridge.json. *)
Clean(r) ==
    /\ Can(r, "clean")
    /\ intent' = NoIntent
    /\ request' = NoRequest
    /\ held' = IF proc[r].origin = "service" THEN held ELSE 0
    /\ Goto(r, "record")
    /\ UNCHANGED <<now, boot, lock, rec, backoff, manager, commands, events, plain, behind>>

Record(r) ==
    /\ Can(r, "record")
    /\ rec' = [owner |-> r, phase |-> "running", clean |-> FALSE, reason |-> "none"]
    /\ Goto(r, "starting")
    /\ plain' = {} /\ behind' = {}
    /\ UNCHANGED <<now, boot, lock, intent, request, backoff, manager, commands, events, held>>

(* The lifespan's start: the supervisor thread is a counted task from here on. *)
ServerStarts(r) ==
    /\ Can(r, "starting")
    /\ proc' = [proc EXCEPT ![r].pc = "serving", ![r].sup = TRUE,
                           ![r].since = IF proc[r].origin = "service" THEN now ELSE 0]
    /\ UNCHANGED <<now, boot, files, manager, commands, events, history>>

StartupFails(r) ==
    /\ Can(r, "starting")
    /\ Goto(r, "after")
    /\ UNCHANGED <<now, boot, files, manager, commands, events, history>>

(* SuccessWatch.poll_once, for service runs: healthy long enough, and not stopping. *)
MarkHealthy(r) ==
    /\ Can(r, "serving")
    /\ proc[r].origin = "service"
    /\ proc[r].reason = "none"
    /\ now >= proc[r].since + HealthyReset
    /\ ~backoff.healthy
    /\ backoff' = [starts |-> 1, at |-> now, healthy |-> TRUE, boot |-> boot]
    /\ UNCHANGED <<now, boot, proc, lock, rec, intent, request, manager, commands, events, history>>

-----------------------------------------------------------------------------
(* A bridge at work, and its stop. *)

(* The admission middleware lets a request in until the stop has begun ... *)
Admit(r) ==
    /\ WorkComes
    /\ Can(r, "serving")
    /\ proc[r].reason = "none"
    /\ proc[r].work = "none"
    /\ proc' = [proc EXCEPT ![r].work = "admitted"]
    /\ UNCHANGED <<now, boot, files, manager, commands, events, history>>

(* Mutant: a worker registers after the seal. *)
RegisterUnsealed(p) == [p EXCEPT !.work = "running"]

(* ... and its worker registers later: TaskRegistry.register, refused after the seal. *)
Register(p) == [p EXCEPT !.work = IF p.sealed THEN "none" ELSE "running"]

WorkStarts(r) ==
    /\ Alive(r) /\ ~proc[r].frozen
    /\ proc[r].work = "admitted"
    /\ proc' = [proc EXCEPT ![r] = Register(@)]
    /\ UNCHANGED <<now, boot, files, manager, commands, events, history>>

(* start_tracked_thread: a background spawner starts nothing once the stop has begun. *)
SpawnTracked(r) ==
    /\ WorkComes
    /\ Can(r, "serving")
    /\ proc[r].reason = "none"
    /\ proc[r].work = "none"
    /\ proc' = [proc EXCEPT ![r] = Register(@)]
    /\ UNCHANGED <<now, boot, files, manager, commands, events, history>>

WorkEnds(r) ==
    /\ Alive(r) /\ ~proc[r].frozen
    /\ proc[r].work = "running"
    /\ proc' = [proc EXCEPT ![r].work = "none"]
    /\ UNCHANGED <<now, boot, files, manager, commands, events, history>>

(* Mutant: only a requested stop sets the stop event. *)
SupervisorEndsOnRequest(r) ==
    /\ Alive(r) /\ ~proc[r].frozen
    /\ proc[r].sup
    /\ proc[r].reason \in {"user_stop", "manual_restart"}
    /\ proc' = [proc EXCEPT ![r].sup = FALSE]
    /\ UNCHANGED <<now, boot, files, manager, commands, events, history>>

(* begin_stop has set the supervisor's stop event. *)
SupervisorEnds(r) ==
    /\ Alive(r) /\ ~proc[r].frozen
    /\ proc[r].sup
    /\ proc[r].reason # "none"
    /\ proc' = [proc EXCEPT ![r].sup = FALSE]
    /\ UNCHANGED <<now, boot, files, manager, commands, events, history>>

(* _idle_watcher: services run without one; no chat turn is in flight, other work may run. *)
IdleStop(r) ==
    /\ Can(r, "serving")
    /\ proc[r].origin # "service"
    /\ proc[r].reason = "none"
    /\ Stopping(r, "idle_timeout", "serving")
    /\ UNCHANGED <<now, boot, lock, intent, request, backoff, manager, commands, events, history>>

(* note_signal: a SIGTERM from outside, or a Ctrl-C at a foreground run. *)
OsSignal(r) ==
    /\ Event
    /\ proc[r].pc \in Up
    /\ Terminated(r)
    /\ UNCHANGED <<now, boot, rec, intent, request, backoff, commands, history>>

CtrlC(r) ==
    /\ proc[r].pc \in Up
    /\ proc[r].origin = "cli"
    /\ \/ /\ proc' = [proc EXCEPT ![r].signal = IF @ \in {"int", "int2"} THEN "int2" ELSE "int"]
          /\ UNCHANGED <<lock, manager>>
       \/ Can(r, "after") /\ Ended(r, 1)
    /\ UNCHANGED <<now, boot, rec, intent, request, backoff, commands, events, history>>

(* Monitor.poll_once: apply a signal, then obey a second Ctrl-C or a request that names this bridge. *)
MonitorStops(r) ==
    /\ proc[r].pc \in Up /\ ~proc[r].frozen
    /\ proc[r].signal # "none"
    /\ proc[r].reason = "none"
    /\ Stopping(r, "os_signal", proc[r].pc)
    /\ UNCHANGED <<now, boot, lock, intent, request, backoff, manager, commands, events, history>>

MonitorExits(r) ==
    /\ proc[r].pc \in Up /\ ~proc[r].frozen
    /\ request.target = r \/ (proc[r].signal = "int2" /\ proc[r].reason # "none")
    /\ HardExit(r, "hard_exit")
    /\ UNCHANGED <<now, boot, intent, request, commands, events, history>>

(* uvicorn saw should_exit: the lifespan's teardown, with its own begin_stop. *)
Drain(r) ==
    /\ Can(r, "serving")
    /\ proc[r].reason # "none" \/ proc[r].signal # "none"
    /\ Stopping(r, IF proc[r].signal = "none" THEN "unknown" ELSE "os_signal", "draining")
    /\ UNCHANGED <<now, boot, lock, intent, request, backoff, manager, commands, events, history>>

(* The lifespan waits, without a limit, until nothing runs and seals in the same step. *)
Seal(r) ==
    /\ Can(r, "draining")
    /\ ~proc[r].sup
    /\ proc[r].work # "running"
    /\ proc' = [proc EXCEPT ![r].pc = "after", ![r].sealed = TRUE]
    /\ UNCHANGED <<now, boot, files, manager, commands, events, history>>

(* _after_run: a crash, the honest end, or a hard exit beside work that still runs. *)
Deliberate(p) == p.signal # "none" \/ p.reason \notin {"none", "unknown"}
Quiet(p) == ~p.sup /\ p.work # "running"

AfterRun(r) ==
    /\ Can(r, "after")
    /\ LET p == proc[r] IN
       \/ /\ ~Deliberate(p)
          /\ HardExit(r, "crash")
          /\ UNCHANGED behind
       \/ /\ Deliberate(p) /\ (p.sealed \/ Quiet(p)) /\ ~p.sup
          /\ proc' = [proc EXCEPT ![r].pc = "leaving", ![r].sealed = TRUE]
          /\ rec' = IF rec.owner = r THEN [rec EXCEPT !.owner = 0, !.phase = "stopped", !.clean = TRUE] ELSE rec
          /\ backoff' = NoBackoff
          /\ behind' = IF r \in plain THEN {q \in Runs : Can(q, "queued") /\ proc[q].waited} ELSE behind
          /\ UNCHANGED <<lock, manager>>
       \/ /\ Deliberate(p) /\ ~((p.sealed \/ Quiet(p)) /\ ~p.sup)
          /\ HardExit(r, "hard_exit")
          /\ UNCHANGED behind
    /\ plain' = plain \ {r}
    /\ UNCHANGED <<now, boot, intent, request, commands, events, held>>

Leave(r) ==
    /\ Can(r, "leaving")
    /\ Ended(r, 0)
    /\ UNCHANGED <<now, boot, rec, intent, request, backoff, commands, events, history>>

-----------------------------------------------------------------------------
(* nell supervisor start *)

StartCommand ==
    /\ starter.pc = "idle"
    /\ Event
    /\ starter' = [IdleStarter EXCEPT !.pc = "lock"]
    /\ UNCHANGED <<now, boot, proc, files, manager, stopper, helper, history>>

(* Refused beside a live bridge or a held lock. *)
StartLock ==
    /\ starter.pc = "lock"
    /\ IF IsRunning \/ lock # 0
       THEN starter' = IdleStarter /\ UNCHANGED lock
       ELSE starter' = [starter EXCEPT !.pc = "clear"] /\ lock' = Starter
    /\ UNCHANGED <<now, boot, proc, rec, intent, request, backoff, manager, stopper, helper, events, history>>

(* An explicit start clears a kill's intent and the back-off, then hands the lock over. *)
StartClear ==
    /\ starter.pc = "clear"
    /\ intent' = NoIntent
    /\ backoff' = NoBackoff
    /\ held' = 0
    /\ lock' = 0
    /\ starter' = [starter EXCEPT !.pc = "spawn"]
    /\ UNCHANGED <<now, boot, proc, rec, request, manager, stopper, helper, events, plain, behind>>

(* Through the manager, or as a child of its own; an unreadable install state counts as none. *)
StartService ==
    /\ starter.pc = "spawn"
    /\ ServiceInstalled
    /\ intent' = NoIntent
    /\ backoff' = NoBackoff
    /\ held' = 0
    /\ manager' = IF manager = "held" THEN "due" ELSE manager
    /\ starter' = IdleStarter
    /\ UNCHANGED <<now, boot, proc, lock, rec, request, stopper, helper, events, plain, behind>>

StartDetached(r) ==
    /\ starter.pc = "spawn"
    /\ Fresh(r)
    /\ Started(r, "app", "lock")
    /\ starter' = [pc |-> "await", child |-> r]
    /\ UNCHANGED <<now, boot, files, manager, stopper, helper, events, history>>

(* _await_readiness: ready, or gone, or out of time and then terminated. *)
StartAwaits ==
    /\ starter.pc = "await"
    /\ \/ /\ ~Alive(starter.child) \/ (rec.owner = starter.child /\ proc[starter.child].pc = "serving")
          /\ UNCHANGED <<proc, lock, manager>>
       \/ /\ Alive(starter.child) /\ proc[starter.child].pc # "serving"
          /\ Terminated(starter.child)
    /\ starter' = IdleStarter
    /\ UNCHANGED <<now, boot, rec, intent, request, backoff, stopper, helper, events, history>>

-----------------------------------------------------------------------------
(* nell supervisor stop and restart *)

(* cmd_restart starts again only after a stop that returned 0. *)
StopReturns(ok) ==
    /\ stopper' = IdleStopper
    /\ IF ok /\ stopper.why = "manual_restart"
       THEN starter.pc = "idle" /\ starter' = [IdleStarter EXCEPT !.pc = "lock"]
       ELSE UNCHANGED starter

StopCommand ==
    /\ stopper.pc = "idle"
    /\ rec.owner # 0
    /\ Event
    /\ \E why \in {"user_stop", "manual_restart"} :
          stopper' = [IdleStopper EXCEPT !.pc = IF IsRunning THEN "request" ELSE "stale", !.target = rec.owner, !.why = why]
    /\ UNCHANGED <<now, boot, proc, files, manager, starter, helper, history>>

(* Mutant: the record is cleared without the lock and without a second look. *)
StaleRecordClearedAnyway(r) == [rec EXCEPT !.owner = 0]

(* _clear_stale_record: only under the lock, and only what was read. *)
StaleRecordCleared(r) == IF lock = 0 /\ rec.owner = r THEN [rec EXCEPT !.owner = 0] ELSE rec

StopClearsStale ==
    /\ stopper.pc = "stale"
    /\ rec' = StaleRecordCleared(stopper.target)
    /\ StopReturns(TRUE)
    /\ UNCHANGED <<now, boot, proc, lock, intent, request, backoff, manager, helper, events, history>>

(* It runs, but the request may fail and no stop is recorded. *)
Unanswering(r) ==
    /\ Alive(r)
    /\ proc[r].pc \in {"starting", "serving"} \/ proc[r].frozen
    /\ proc[r].reason = "none"

(* POST /supervisor/shutdown; a stop under way is joined; no answer means SIGTERM, on Windows *)
(* that the command gives up.                                                                *)
StopRequests ==
    /\ stopper.pc = "request"
    /\ LET r == stopper.target
           watched == stopper' = [stopper EXCEPT !.pc = "watch"]
       IN
       \/ /\ Can(r, "serving")
          /\ Stopping(r, stopper.why, "serving")
          /\ plain' = IF proc[r].reason = "none" /\ stopper.why = "user_stop" THEN plain \cup {r} ELSE plain
          /\ watched
          /\ UNCHANGED <<lock, manager>>
       \/ /\ ~Alive(r) \/ proc[r].pc \in {"draining", "after", "leaving"} \/ proc[r].reason # "none"
          /\ watched
          /\ UNCHANGED <<proc, rec, lock, manager, plain>>
       \/ /\ Unanswering(r)
          /\ Terminated(r)
          /\ watched
          /\ UNCHANGED <<rec, plain>>
       \/ /\ Unanswering(r)
          /\ stopper' = IdleStopper
          /\ UNCHANGED <<proc, rec, lock, manager, plain>>
    /\ UNCHANGED <<now, boot, intent, request, backoff, starter, helper, events, held, behind>>

(* watch_stop: gone, given up (no terminal), or the hard exit the user agreed to. *)
StopWatches ==
    /\ stopper.pc \in {"watch", "escalate"}
    /\ \/ ~Alive(stopper.target) /\ StopReturns(TRUE) /\ UNCHANGED request
       \/ /\ Alive(stopper.target) /\ stopper.pc = "watch"
          /\ \/ StopReturns(FALSE) /\ UNCHANGED request
             \/ /\ request' = [target |-> stopper.target, by |-> "stop"]
                /\ stopper' = [stopper EXCEPT !.pc = "escalate"]
                /\ UNCHANGED starter
    /\ UNCHANGED <<now, boot, proc, lock, rec, intent, backoff, manager, helper, events, history>>

-----------------------------------------------------------------------------
(* kill_bridge *)

Done(h, outcome) == [IdleHelper EXCEPT !.pc = "done", !.target = helper[h].target, !.outcome = outcome]
Active(h) == helper[h].pc \notin {"idle", "done"}
HelperAt(h, pc) == helper' = [helper EXCEPT ![h].pc = pc]

(* Identity and the other helper's intent are read first ... *)
KillReads(h, skip) ==
    /\ helper[h].pc = "idle"
    /\ helper' = [helper EXCEPT ![h] =
          CASE ~IsRunning -> [@ EXCEPT !.pc = "done", !.outcome = "not_running"]
            [] /\ IsRunning /\ intent.state = "committed" /\ intent.target = rec.owner
               /\ \E g \in Helpers : intent.helper = g /\ Active(g) ->
               [@ EXCEPT !.pc = "done", !.outcome = "in_progress"]
            [] OTHER -> [@ EXCEPT !.pc = "read", !.target = rec.owner, !.skip = skip]]

KillCommand(h) ==
    /\ IsRunning
    /\ Event
    /\ KillReads(h, FALSE)
    /\ UNCHANGED <<now, boot, proc, files, manager, starter, stopper, history>>

(* A hard exit the bridge did not act on in time is escalated. *)
StopEscalates(h) ==
    /\ stopper.pc = "escalate"
    /\ Alive(stopper.target)
    /\ KillReads(h, TRUE)
    /\ stopper' = [stopper EXCEPT !.pc = "killing", !.kill = h]
    /\ UNCHANGED <<now, boot, proc, files, manager, starter, events, history>>

StopKilled ==
    /\ stopper.pc = "killing"
    /\ \E h \in Helpers :
          /\ stopper.kill = h
          /\ helper[h].pc = "done"
          /\ StopReturns(helper[h].outcome \in {"killed", "not_running"})
    /\ UNCHANGED <<now, boot, proc, files, manager, helper, events, history>>

(* ... then the pending intent is written, over whatever is there. *)
KillPends(h) ==
    /\ helper[h].pc = "read"
    /\ intent' = [target |-> helper[h].target, state |-> "pending", helper |-> h, boot |-> boot]
    /\ HelperAt(h, "pending")
    /\ UNCHANGED <<now, boot, proc, lock, rec, request, backoff, manager, starter, stopper, events, history>>

(* The manager would say that the bridge is its job. *)
Owned(r) == ServiceInstalled /\ Alive(r) /\ proc[r].origin = "service"

(* service_installed and owned_by_service: an install state that cannot be read and a manager *)
(* that does not answer are "not owned", so any bridge may be killed as one of nobody's.      *)
KillAsks(h) ==
    /\ helper[h].pc = "pending"
    /\ \/ /\ Owned(helper[h].target) /\ ~helper[h].skip
          /\ request' = [target |-> helper[h].target, by |-> h]
          /\ helper' = [helper EXCEPT ![h].pc = "wait", ![h].wrote = TRUE]
       \/ /\ Owned(helper[h].target) /\ helper[h].skip
          /\ HelperAt(h, "manager")
          /\ UNCHANGED request
       \/ HelperAt(h, "probe") /\ UNCHANGED request
    /\ UNCHANGED <<now, boot, proc, lock, rec, intent, backoff, manager, starter, stopper, events, history>>

(* Gone, or out of time. *)
KillWaits(h) ==
    /\ helper[h].pc = "wait"
    /\ HelperAt(h, IF Alive(helper[h].target) THEN "manager" ELSE "probe")
    /\ UNCHANGED <<now, boot, proc, files, manager, starter, stopper, events, history>>

(* manager_stop: the job gets its stop signal and is not started again; or the call fails, *)
(* which is swallowed, or is none (Windows).                                               *)
KillStopsJob(h) ==
    /\ helper[h].pc = "manager"
    /\ LET r == helper[h].target IN
       \/ /\ proc[r].pc \in Up \cup {"leaving"}
          /\ Noted(r)
          /\ manager' = "stopping"
          /\ UNCHANGED lock
       \/ /\ proc[r].pc \in {"starting", "after", "leaving"} /\ ~proc[r].frozen
          /\ Ended(r, 0)
       \/ UNCHANGED <<proc, lock, manager>>
    /\ HelperAt(h, "probe")
    /\ UNCHANGED <<now, boot, rec, intent, request, backoff, starter, stopper, events, history>>

(* _other_live_bridge: another process has the lock, or the record names another live bridge. *)
OtherLiveBridge(r) == lock \notin {0, r} \/ (rec.owner # r /\ IsRunning)

(* The finally of a kill that has killed nothing, with stop signals ignored: resume the tree ... *)
CalledOff(h, outcome) ==
    /\ helper' = [helper EXCEPT ![h].pc = IF @ = "frozen" THEN "resume" ELSE "unintend", ![h].outcome = outcome]
    /\ held' = IF helper[h].pc \in {"committed", "frozen"} THEN 0 ELSE held
    /\ UNCHANGED <<now, boot, proc, files, manager, starter, stopper, events, plain, behind>>

KillResumes(h) ==
    /\ helper[h].pc = "resume"
    /\ proc' = [proc EXCEPT ![helper[h].target].frozen = FALSE]
    /\ HelperAt(h, "unintend")
    /\ UNCHANGED <<now, boot, files, manager, starter, stopper, events, history>>

(* ... then delete the intent, if it still holds this nonce ... *)
KillUnintends(h) ==
    /\ helper[h].pc = "unintend"
    /\ intent' = IF intent.helper = h THEN NoIntent ELSE intent
    /\ HelperAt(h, "withdraw")
    /\ UNCHANGED <<now, boot, proc, lock, rec, request, backoff, manager, starter, stopper, events, history>>

(* Mutant: the hard-exit request stays behind. *)
KillLeavesRequest(h) ==
    /\ helper[h].pc = "withdraw"
    /\ helper' = [helper EXCEPT ![h] = Done(h, helper[h].outcome)]
    /\ UNCHANGED <<now, boot, proc, files, manager, starter, stopper, events, history>>

(* ... and the request this helper wrote, if it still names the bridge, which runs by now. *)
KillWithdraws(h) ==
    /\ helper[h].pc = "withdraw"
    /\ request' = IF helper[h].wrote /\ request.target = helper[h].target THEN NoRequest ELSE request
    /\ helper' = [helper EXCEPT ![h] = Done(h, helper[h].outcome)]
    /\ UNCHANGED <<now, boot, proc, lock, rec, intent, backoff, manager, starter, stopper, events, history>>

(* _cas_intent with _commit: compare and look around ... *)
KillProbes(h) ==
    /\ helper[h].pc = "probe"
    /\ IF intent.helper = h /\ ~OtherLiveBridge(helper[h].target)
       THEN /\ HelperAt(h, "commit")
            /\ UNCHANGED <<now, boot, proc, files, manager, starter, stopper, events, history>>
       ELSE CalledOff(h, "other")

(* ... and set, in another step: its lock is only a thread lock. *)
KillCommits(h) ==
    /\ helper[h].pc = "commit"
    /\ intent' = [target |-> helper[h].target, state |-> "committed", helper |-> h, boot |-> boot]
    /\ HelperAt(h, "committed")
    /\ held' = IF Alive(helper[h].target) THEN helper[h].target ELSE held
    /\ UNCHANGED <<now, boot, proc, lock, rec, request, backoff, manager, starter, stopper, events, plain, behind>>

KillFreezes(h) ==
    /\ helper[h].pc = "committed"
    /\ \/ intent.state = "none" /\ CalledOff(h, "other")
       \/ /\ intent.state # "none" /\ Alive(helper[h].target)
          /\ proc' = [proc EXCEPT ![helper[h].target].frozen = TRUE]
          /\ HelperAt(h, "frozen")
          /\ UNCHANGED <<now, boot, files, manager, starter, stopper, events, history>>
       \/ /\ intent.state # "none" /\ ~Alive(helper[h].target)
          /\ helper' = [helper EXCEPT ![h] = Done(h, "killed")]
          /\ UNCHANGED <<now, boot, proc, files, manager, starter, stopper, events, history>>

(* SIGKILL, or on Windows an end with exit code 0. *)
KillKills(h) ==
    /\ helper[h].pc = "frozen"
    /\ helper' = [helper EXCEPT ![h] = Done(h, "killed")]
    /\ IF Alive(helper[h].target)
       THEN \E code \in {0, 1} : Ended(helper[h].target, code)
       ELSE UNCHANGED <<proc, lock, manager>>
    /\ UNCHANGED <<now, boot, rec, intent, request, backoff, starter, stopper, events, history>>

(* A stop signal to the helper itself. *)
KillInterrupted(h) ==
    /\ helper[h].pc \in {"pending", "wait", "manager", "probe", "commit", "committed", "frozen"}
    /\ CalledOff(h, "called_off")

-----------------------------------------------------------------------------
(* What no code sees coming. *)

Dies(r) ==
    /\ Event
    /\ Alive(r)
    /\ Ended(r, 1)
    /\ UNCHANGED <<now, boot, rec, intent, request, backoff, commands, history>>

HelperDies(h) ==
    /\ Event
    /\ Active(h)
    /\ helper' = [helper EXCEPT ![h] = Done(h, "died")]
    /\ UNCHANGED <<now, boot, proc, files, manager, starter, stopper, history>>

Reboot ==
    /\ Event
    /\ boot' = boot + 1
    /\ proc' = [r \in Runs |-> IF Alive(r) THEN [Blank EXCEPT !.pc = "ended"] ELSE proc[r]]
    /\ lock' = 0
    /\ manager' = IF ServiceInstalled THEN "due" ELSE "held"
    /\ starter' = IdleStarter
    /\ stopper' = IdleStopper
    /\ helper' = [h \in Helpers |-> IF Active(h) THEN Done(h, "died") ELSE helper[h]]
    /\ held' = 0
    /\ UNCHANGED <<now, rec, intent, request, backoff, plain, behind>>

Tick ==
    /\ now < MaxTime
    /\ now' = now + 1
    /\ UNCHANGED <<boot, proc, files, manager, commands, events, history>>

-----------------------------------------------------------------------------
ComesUp(r) ==
    \/ Guard(r) \/ BackoffWait(r) \/ RunnerLock(r) \/ RunLock(r) \/ RunUnqueued(r) \/ Recheck(r)
    \/ Clean(r) \/ Record(r) \/ ServerStarts(r)
GoesDown(r) ==
    \/ MonitorStops(r) \/ MonitorExits(r) \/ SupervisorEnds(r) \/ WorkStarts(r) \/ WorkEnds(r)
    \/ Drain(r) \/ Seal(r) \/ AfterRun(r) \/ Leave(r)
StartStep == StartLock \/ StartClear \/ StartService \/ (\E r \in Runs : StartDetached(r)) \/ StartAwaits
StopStep == StopClearsStale \/ StopRequests \/ StopWatches \/ (\E h \in Helpers : StopEscalates(h)) \/ StopKilled
KillStep(h) ==
    \/ KillPends(h) \/ KillAsks(h) \/ KillWaits(h) \/ KillStopsJob(h) \/ KillProbes(h) \/ KillCommits(h)
    \/ KillFreezes(h) \/ KillKills(h) \/ KillResumes(h) \/ KillUnintends(h) \/ KillWithdraws(h)

Next ==
    \/ \E r \in Runs :
          \/ ManagerStarts(r) \/ RunByHand(r) \/ ComesUp(r) \/ StartupFails(r) \/ MarkHealthy(r)
          \/ Admit(r) \/ SpawnTracked(r) \/ IdleStop(r) \/ OsSignal(r) \/ CtrlC(r) \/ GoesDown(r) \/ Dies(r)
    \/ StartCommand \/ StartStep
    \/ StopCommand \/ StopStep
    \/ \E h \in Helpers : KillCommand(h) \/ KillStep(h) \/ KillInterrupted(h) \/ HelperDies(h)
    \/ Reboot
    \/ Tick

Spec == Init /\ [][Next]_vars

(* The OS runs every bridge process, and the work a bridge has started ends. *)
FairSpec == Spec /\ \A r \in Runs : WF_vars(ServerStarts(r) \/ GoesDown(r))

-----------------------------------------------------------------------------
(* The type invariant: processes, files and commands; the back-off counts no start beyond its ladder. *)
TypeOK ==
    /\ now \in 0..MaxTime /\ boot \in 1..(MaxEvents + 1) /\ events \in 0..MaxEvents
    /\ \A r \in Runs :
          /\ proc[r].pc \in {"new", "ended", "leaving"} \cup Before \cup Up
          /\ proc[r].origin \in Origins /\ proc[r].reason \in Reasons
    /\ lock \in 0..Starter
    /\ rec.owner \in 0..MaxRuns /\ rec.reason \in Reasons
    /\ backoff.starts \in 0..LastStep
    /\ manager \in {"running", "due", "held", "stopping"}
    /\ held \in 0..MaxRuns /\ plain \subseteq Runs /\ behind \subseteq Runs

(* A bridge that is up holds the lock and owns bridge.json: nothing another process does (a    *)
(* second start, a stop that clears a stale record, a dying predecessor) takes them away.      *)
OwnRecord == \A r \in Runs : proc[r].pc \in Up => lock = r /\ rec.owner = r /\ ~rec.clean

(* "stopped" is written only when nothing the bridge started still runs, and nothing starts    *)
(* afterwards: no supervisor, no request worker, no background thread.                         *)
StoppedIsQuiet == \A r \in Runs : proc[r].pc = "leaving" => Quiet(proc[r])

ServiceUp(r) == proc[r].origin = "service" /\ proc[r].pc \in {"clean", "record"} \cup Up

(* Once a helper has committed to killing a live bridge, no service run of that boot, respawned *)
(* or queued, comes up in its place until somebody asks for a start.                           *)
KillHolds == held # 0 => \A r \in Runs \ {held} : ~ServiceUp(r)

(* A kill that was called off, or gave way to another bridge, has taken back what it wrote and  *)
(* whom it froze when its helper returns, through starts, stops, deaths and other helpers in   *)
(* between.  The stop it asked of the manager is not among it (see the README).                *)
CalledOffTakesBack ==
    \A h \in Helpers : helper[h].pc = "done" /\ helper[h].outcome \in {"called_off", "other"} =>
        /\ request.by # h
        /\ intent.helper # h
        /\ Alive(helper[h].target) /\ proc[helper[h].target].frozen =>
              \E g \in Helpers \ {h} : helper[g].target = helper[h].target /\ helper[g].pc \in {"frozen", "resume", "done"}

(* A service run that queued behind a bridge it saw alive does not come up when that bridge    *)
(* ended on a plain stop, whatever signals, joined stops and restarts came after the request.  *)
PlainStopHolds == \A r \in behind : ~ServiceUp(r)

(* A service run never starts within the step of the series' last unproven start, however long *)
(* it was queued for the lock since it waited.                                                 *)
SpacedStarts ==
    [][\A r \in Runs : proc[r].pc = "recheck" /\ proc'[r].pc = "clean" /\ proc[r].origin = "service"
          => Backoff.healthy \/ Backoff.starts = 0 \/ now >= Backoff.at + Step(Backoff.starts)]_vars

(* A stop that has begun ends: the bridge lets go of bridge.json or dies, unless a kill helper  *)
(* holds it frozen; no request, background thread or supervisor keeps it waiting for ever.     *)
StopCompletes ==
    \A r \in Runs : (rec.owner = r /\ rec.phase = "stopping") ~> (rec.owner # r \/ ~Alive(r) \/ proc[r].frozen)
=============================================================================
