---------------------------- MODULE HarnessHost ----------------------------
(* The desktop host of the harness: the controller that starts, switches,      *)
(* restarts and stops one DSH process from a durable selection of its home,    *)
(* the adapter that owns the process, the migration of a managed home with its *)
(* verification after a restart and its cleanup, quitting and power loss.      *)
(*                                                                             *)
(* JavaScript runs one continuation at a time: a settled promise, and the next *)
(* operation of the controller's queue, run before anything from outside       *)
(* (Quiet).  A home is a set of facts in one file; profiles are left out.      *)
EXTENDS Integers, FiniteSets, Sequences

CONSTANTS
  Managed,   \* places of a managed home; Default is the one that was never moved
  Default,
  Existing,  \* homes of the user's own
  Proc,      \* DSH processes
  Fact,      \* what the user's page stores
  None,
  Faults,    \* "kill": a process survives its stop; "write": a file operation
             \* throws; "silent": a process dies unseen behind its loaded page
  MaxCalls,  \* bound: commands of the user
  MaxEarly,  \* bound: those given before the harness is first started
  MaxRuns    \* bound: starts of the application

Home == Managed \cup Existing
ASSUME HostAssumption ==
  /\ Default \in Managed /\ Managed \cap Existing = {}
  /\ None \notin Home \cup Proc /\ Proc \cap {"none", "done", "failed"} = {}
  /\ MaxCalls \in Nat /\ MaxEarly \in 0..MaxCalls /\ MaxRuns \in Nat

VARIABLES
  app,       \* [stage, run, quit]: down, opening (the session import is offered),
             \* booting or up; proceedQuit no, stopping or finishing
  launcher,  \* the durable selection [active, pending, lkg]
  status,    \* runtimeStatus [phase, home]
  queue,     \* operations that wait for queueTail
  job,       \* the operation under way, and where it waits
  shutdown,  \* shutdownRequested; stopInFlight is set exactly as long
  calls,     \* the stopProcess awaited by the job, and by stop()
  woken,     \* callers whose awaited operation has settled, with its outcome
  child, stopped, settled,  \* service.child, .stopped and .bootSettled
  proc,      \* [state, home, fate] of each process; its fate is "unseen" when it died
             \* before its boot settled, "survived" when it outlived a stop or the host
  files,     \* the facts in each home
  here,      \* homes that exist
  manifest,  \* the migration manifest in each home
  written,   \* facts stored while the harness was running
  migration, \* [pc, source, target]
  dialog,    \* the operation an open confirmation holds
  used       \* commands given

ctl  == <<launcher, status, queue, job, shutdown, calls, woken>>
os   == <<child, stopped, settled, proc>>
disk == <<files, here, manifest, written>>
ui   == <<app, migration, dialog, used>>
vars == <<ctl, os, disk, ui>>

NoCalls == [w \in {"job", "stop"} |-> "none"]
Party == {"boot", "quit", "migration"}
Asleep == [p \in Party |-> "no"]
NoMigration == [pc |-> "none", source |-> None, target |-> None]
NoJob == [op |-> "none"]
Op(op, by, home) ==
  [op |-> op, by |-> by, home |-> home, pc |-> "queued", first |-> TRUE, before |-> None]
Dead == [state |-> "dead", home |-> None, fate |-> "none"]
Live(p) == p # None /\ proc[p].state # "dead"
Idle == [phase |-> "idle", home |-> None]
Failed == [phase |-> "failed", home |-> None]

Init ==
  /\ launcher = [active |-> Default, pending |-> None, lkg |-> None]
  /\ here = {Default} \cup Existing
  /\ app = [stage |-> "down", run |-> 0, quit |-> "no"]
  /\ status = Idle /\ queue = <<>> /\ job = NoJob /\ shutdown = FALSE
  /\ calls = NoCalls /\ woken = Asleep
  /\ child = None /\ stopped = FALSE /\ settled = FALSE
  /\ proc = [p \in Proc |-> Dead]
  /\ files = [h \in Home |-> {}] /\ manifest = [h \in Home |-> None] /\ written = {}
  /\ migration = NoMigration /\ dialog = None /\ used = 0
-----------------------------------------------------------------------------
(* Stopping a process: stopService and stopProcess.                          *)
StopCall(w) ==
  IF Live(child)
  THEN /\ calls' = [calls EXCEPT ![w] = child]
       /\ stopped' = TRUE /\ UNCHANGED child
  ELSE /\ calls' = [calls EXCEPT ![w] = "done"]
       /\ child' = None /\ stopped' = (child = None /\ stopped)
\* controller.stop(): a second call shares the stop in flight.
CallStop ==
  IF shutdown
  THEN UNCHANGED <<status, queue, shutdown, calls, child, stopped>>
  ELSE /\ shutdown' = TRUE /\ status' = [phase |-> "stopping", home |-> None]
       /\ StopCall("stop")
       /\ queue' = Append(queue, Op("stop", "all", None))
\* The exit watcher of a process, which runs before those that wait for its end,
\* and looks away until the boot has settled.
Watcher(p) ==
  IF child = p /\ ~stopped /\ settled
  THEN Append(queue, Op("exit", "none", None))
  ELSE queue
Die(p) ==
  /\ Live(p)
  /\ proc' = [proc EXCEPT ![p] =
       [Dead EXCEPT !.fate = IF child = p /\ ~stopped /\ ~settled THEN "unseen" ELSE "none"]]
  /\ queue' = Watcher(p)
  /\ LET awaited == {w \in DOMAIN calls : calls[w] = p}
     IN /\ calls' = [w \in DOMAIN calls |-> IF w \in awaited THEN "done" ELSE calls[w]]
        /\ IF awaited = {}
           THEN UNCHANGED <<child, stopped>>
           ELSE child' = None /\ stopped' = FALSE
  /\ UNCHANGED <<launcher, status, job, shutdown, woken, settled, disk, ui>>
\* Mutant: A failed stop forgets to take back `stopped`.
GiveUpStopped(w) ==
  /\ "kill" \in Faults /\ calls[w] \in Proc
  /\ calls' = [calls EXCEPT ![w] = "failed"]
  /\ proc' = [proc EXCEPT ![calls[w]].fate = "survived"]
  /\ UNCHANGED <<launcher, status, queue, job, shutdown, woken, child, stopped, settled, disk, ui>>
\* The hard deadline of a stop: the process is still there.
GiveUp(w) ==
  /\ "kill" \in Faults /\ calls[w] \in Proc
  /\ calls' = [calls EXCEPT ![w] = "failed"]
  /\ stopped' = FALSE
  /\ proc' = [proc EXCEPT ![calls[w]].fate = "survived"]
  /\ UNCHANGED <<launcher, status, queue, job, shutdown, woken, child, settled, disk, ui>>
-----------------------------------------------------------------------------
(* The controller's operations.                                              *)
Awaits(p, j) ==
  \/ j.by = p
  \/ j.op = "stop" /\ p = "quit" /\ app.quit = "stopping"
  \/ j.op = "stop" /\ p = "migration" /\ migration.pc = "stopping"
Finish(j, outcome) ==
  /\ job' = NoJob
  /\ woken' = [p \in Party |-> IF Awaits(p, j) THEN outcome ELSE woken[p]]
\* A job that goes on to wait for the end of the process.
StopFor(j, pc) ==
  /\ StopCall("job")
  /\ job' = [j EXCEPT !.pc = pc] /\ UNCHANGED woken
\* bootSteps, up to the spawn.
BeginBoot(j, phase) ==
  /\ status' = [phase |-> phase, home |-> j.home]
  /\ IF shutdown
     THEN Finish(j, "ok")
     ELSE job' = [j EXCEPT !.pc = "spawning"] /\ UNCHANGED woken

TakeStart(j) ==
  LET cleared == [launcher EXCEPT !.pending = None]
      home == IF launcher.pending # None /\ launcher.lkg # None THEN launcher.lkg
              ELSE launcher.active
  IN /\ UNCHANGED <<calls, child, stopped>>
     /\ \/ /\ launcher' = cleared
           /\ BeginBoot([j EXCEPT !.home = home, !.before = cleared], "starting")
        \/ /\ "write" \in Faults /\ launcher.pending # None
           /\ Finish(j, "failed") /\ UNCHANGED <<launcher, status>>
TakeSwitch(j) ==
  /\ UNCHANGED status
  /\ \/ /\ launcher' = [launcher EXCEPT !.pending = j.home]
        /\ StopFor([j EXCEPT !.before = launcher], "stopping")
     \/ /\ "write" \in Faults
        /\ Finish(j, "failed") /\ UNCHANGED <<launcher, calls, child, stopped>>
TakeRestart(j) ==
  /\ StopFor([j EXCEPT !.home = launcher.active, !.before = launcher], "stopping")
  /\ UNCHANGED <<launcher, status>>
TakeStop(j) ==
  /\ job' = [j EXCEPT !.pc = "terminating"]
  /\ UNCHANGED <<launcher, status, calls, woken, child, stopped>>
\* notifyUnexpectedExit
TakeExit(j) ==
  /\ status' = IF ~shutdown /\ status.phase = "running" THEN Failed ELSE status
  /\ Finish(j, "ok") /\ UNCHANGED <<launcher, calls, child, stopped>>
\* A public operation that was queued before a stop gives way to it.
GiveWay(j) ==
  /\ Finish(j, "ok") /\ UNCHANGED <<launcher, status, calls, child, stopped>>
TakeJob ==
  /\ job = NoJob /\ queue # <<>> /\ woken = Asleep /\ migration.pc # "copying"
  /\ queue' = Tail(queue)
  /\ LET j == Head(queue)
     IN \/ j.op = "stop" /\ TakeStop(j)
        \/ j.op = "exit" /\ TakeExit(j)
        \/ j.op \in {"start", "switch", "restart"} /\ shutdown /\ GiveWay(j)
        \/ j.op = "start" /\ ~shutdown /\ TakeStart(j)
        \/ j.op = "switch" /\ ~shutdown /\ TakeSwitch(j)
        \/ j.op = "restart" /\ ~shutdown /\ TakeRestart(j)
  /\ UNCHANGED <<shutdown, settled, proc, disk, ui>>
-----------------------------------------------------------------------------
(* The process answers the job.                                              *)
At(pc) == job # NoJob /\ job.pc = pc
\* Each failing step of a boot ends in cleanUpAfterFailedBoot, or gives way.
StepFails ==
  /\ IF shutdown
     THEN Finish(job, "ok") /\ UNCHANGED <<calls, child, stopped>>
     ELSE StopFor(job, "cleaning")
  /\ UNCHANGED <<launcher, status, queue, shutdown, settled, proc, disk, ui>>
\* The port is free: no process answers on it.
Fresh == CHOOSE p \in Proc : ~Live(p)
Spawn ==
  /\ At("spawning") /\ \E p \in Proc : ~Live(p)
  /\ \A p \in Proc : proc[p].state # "serving"
  /\ proc' = [proc EXCEPT ![Fresh] = [state |-> "spawned", home |-> job.home, fate |-> "none"]]
  /\ here' = here \cup {job.home}
  /\ child' = Fresh /\ settled' = FALSE
  /\ UNCHANGED <<launcher, status, queue, shutdown, files, manifest, written, ui>>
\* Mutant: the boot leaves a process spawned after a stop to that stop.
SpawnedUnstopped ==
  /\ Spawn
  /\ UNCHANGED <<calls, stopped>>
  /\ IF shutdown
     THEN Finish(job, "ok")
     ELSE job' = [job EXCEPT !.pc = "ready"] /\ UNCHANGED woken
\* The process may be the orphan of a stop that came while it was being spawned.
Spawned ==
  /\ Spawn /\ UNCHANGED woken
  /\ IF shutdown
     THEN /\ calls' = [calls EXCEPT !["job"] = Fresh] /\ stopped' = TRUE
          /\ job' = [job EXCEPT !.pc = "orphan"]
     ELSE /\ job' = [job EXCEPT !.pc = "ready"] /\ UNCHANGED <<calls, stopped>>
SpawnFails == At("spawning") /\ StepFails
Ready ==
  /\ At("ready") /\ Live(child)
  /\ proc' = [proc EXCEPT ![child].state = "serving"]
  /\ IF shutdown
     THEN Finish(job, "ok")
     ELSE job' = [job EXCEPT !.pc = "loading"] /\ UNCHANGED woken
  /\ UNCHANGED <<launcher, status, queue, shutdown, calls, child, stopped, settled, disk, ui>>
NotReady == At("ready") /\ Live(child) /\ StepFails
\* The snapshot the job took before it waited is written back whole.
Promoted(j) ==
  [j.before EXCEPT !.active = j.home, !.lkg = j.home,
                   !.pending = IF j.op = "switch" THEN None ELSE @]
PublishRunning ==
  \/ /\ launcher' = Promoted(job)
     /\ status' = [phase |-> "running", home |-> job.home]
     /\ Finish(job, "ok") /\ UNCHANGED <<calls, child, stopped>>
  \/ /\ "write" \in Faults
     /\ StopFor(job, "unpublish") /\ UNCHANGED <<launcher, status>>
\* The page may settle although its process has died since it was served.
Loaded ==
  /\ At("loading") /\ (Live(child) \/ "silent" \in Faults)
  /\ settled' = TRUE
  /\ IF shutdown
     THEN Finish(job, "ok") /\ UNCHANGED <<launcher, status, calls, child, stopped>>
     ELSE PublishRunning
  /\ UNCHANGED <<queue, shutdown, proc, disk, ui>>
NotLoaded == At("loading") /\ StepFails
-----------------------------------------------------------------------------
(* The job goes on when what it awaited inside the host has settled.         *)
Caller(j) == IF j.pc = "terminating" THEN "stop" ELSE "job"
Released ==
  /\ job # NoJob
  /\ job.pc \in {"stopping", "orphan", "cleaning", "unpublish", "terminating"}
  /\ calls[Caller(job)] \in {"done", "failed"}
Release(pc, outcome) ==
  /\ Released /\ job.pc = pc /\ calls[Caller(job)] = outcome
  /\ calls' = [calls EXCEPT ![Caller(job)] = "none"]
  /\ UNCHANGED <<queue, os, disk, ui>>
BootAfterStop ==
  /\ Release("stopping", "done")
  /\ BeginBoot(job, IF job.op = "switch" THEN "switching" ELSE "starting")
  /\ UNCHANGED <<launcher, shutdown>>
StopFailed ==
  /\ Release("stopping", "failed")
  /\ Finish(job, "failed") /\ UNCHANGED <<launcher, status, shutdown>>
OrphanStopped ==
  /\ \/ Release("orphan", "done") /\ Finish(job, "ok")
     \/ Release("orphan", "failed") /\ Finish(job, "failed")
  /\ UNCHANGED <<launcher, status, shutdown>>
\* The failure is recorded, and a switch falls back once.
FallsBack(j) == j.op = "switch" /\ j.first /\ j.before.lkg # None
BootFailed ==
  /\ \E outcome \in {"done", "failed"} : Release("cleaning", outcome)
  /\ \/ /\ launcher' = [job.before EXCEPT !.pending = IF job.op = "switch" THEN None ELSE @]
        /\ IF FallsBack(job)
           THEN BeginBoot([job EXCEPT !.home = job.before.lkg, !.first = FALSE], "recovering")
           ELSE status' = Failed /\ Finish(job, "ok")
     \/ /\ "write" \in Faults /\ UNCHANGED launcher
        /\ status' = Failed /\ Finish(job, "failed")
  /\ UNCHANGED shutdown
Unpublished ==
  /\ \E outcome \in {"done", "failed"} : Release("unpublish", outcome)
  /\ status' = Failed /\ Finish(job, "failed") /\ UNCHANGED <<launcher, shutdown>>
\* Mutant: stop() without its finally.
TerminatedUnreset ==
  /\ \/ Release("terminating", "done") /\ status' = Idle /\ Finish(job, "ok") /\ shutdown' = FALSE
     \/ Release("terminating", "failed") /\ status' = Failed /\ Finish(job, "failed") /\ UNCHANGED shutdown
  /\ UNCHANGED launcher
Terminated ==
  /\ \/ Release("terminating", "done") /\ status' = Idle /\ Finish(job, "ok")
     \/ Release("terminating", "failed") /\ status' = Failed /\ Finish(job, "failed")
  /\ shutdown' = FALSE /\ UNCHANGED launcher
\* waitReady sees its process leave at once.
LeftBeforeReady == At("ready") /\ ~Live(child) /\ StepFails
-----------------------------------------------------------------------------
(* Starting and leaving the application.                                     *)
\* Everything in memory is gone.
Leave ==
  /\ app' = [app EXCEPT !.stage = "down", !.quit = "no"]
  /\ status' = Idle /\ queue' = <<>> /\ job' = NoJob /\ shutdown' = FALSE
  /\ calls' = NoCalls /\ woken' = Asleep
  /\ child' = None /\ stopped' = FALSE /\ settled' = FALSE
  /\ migration' = NoMigration /\ dialog' = None
  /\ UNCHANGED used
\* Processes that live on are nobody's.
Outlive ==
  proc' = [p \in Proc |-> IF Live(p) THEN [proc[p] EXCEPT !.fate = "survived"] ELSE Dead]
\* The window and its commands are there; the session import is still offered.
StartApp ==
  /\ app.stage = "down" /\ app.run < MaxRuns
  /\ app' = [stage |-> "opening", run |-> app.run + 1, quit |-> "no"]
  /\ UNCHANGED <<ctl, os, disk, migration, dialog, used>>
\* verifyOnStartup: the migrated home is there and can be read.
VerifyOnStartup ==
  LET h == launcher.active
      m == manifest[h]
  IN \/ manifest' = IF m # None /\ m.verification = "awaiting-restart"
                    THEN [manifest EXCEPT ![h].verification = IF h \in here THEN "verified" ELSE "failed",
                                          ![h].checked = app.run]
                    ELSE manifest
     \/ "write" \in Faults /\ UNCHANGED manifest
\* The rest of the startup, which a rejected start() never reaches.
GoOn(outcome) ==
  /\ UNCHANGED <<launcher, files, here, written>>
  /\ \/ /\ outcome = "ok" /\ status.phase = "failed"
        /\ VerifyOnStartup /\ Leave /\ Outlive
     \/ /\ outcome = "failed" \/ status.phase # "failed"
        /\ IF outcome = "ok" THEN VerifyOnStartup ELSE UNCHANGED manifest
        /\ app' = [app EXCEPT !.stage = "up"]
        /\ woken' = [woken EXCEPT !["boot"] = "no"]
        /\ UNCHANGED <<status, queue, job, shutdown, calls, os, migration, dialog, used>>
\* The offer is answered: controller.start(), which gives way at once to a stop.
BootBegins ==
  /\ app.stage = "opening"
  /\ IF shutdown
     THEN GoOn("ok")
     ELSE /\ app' = [app EXCEPT !.stage = "booting"]
          /\ queue' = Append(queue, Op("start", "boot", None))
          /\ UNCHANGED <<launcher, status, job, shutdown, calls, woken, os, disk,
                         migration, dialog, used>>
BootReturns == woken["boot"] # "no" /\ GoOn(woken["boot"])
\* proceedQuit
Quit ==
  /\ app.stage # "down" /\ app.quit = "no"
  /\ app' = [app EXCEPT !.quit = "stopping"]
  /\ CallStop
  /\ UNCHANGED <<launcher, job, woken, settled, proc, disk, migration, dialog, used>>
QuitReturns ==
  /\ woken["quit"] # "no"
  /\ app' = [app EXCEPT !.quit = IF woken["quit"] = "ok" THEN "finishing" ELSE "no"]
  /\ woken' = [woken EXCEPT !["quit"] = "no"]
  /\ UNCHANGED <<launcher, status, queue, job, shutdown, calls, os, disk, migration, dialog, used>>
Exit ==
  /\ app.quit = "finishing" /\ Leave /\ Outlive
  /\ UNCHANGED <<launcher, disk>>
\* Power loss, also in the middle of a copy.
Crash ==
  /\ app.stage # "down" /\ Leave
  /\ proc' = [p \in Proc |-> Dead]
  /\ here' \in {here} \cup (IF migration.pc = "copying" THEN {here \cup {migration.target}} ELSE {})
  /\ UNCHANGED <<launcher, files, manifest, written>>
-----------------------------------------------------------------------------
(* Commands of the user, and what the harness stores.                        *)
Command ==
  /\ app.stage # "down" /\ used < IF app.stage = "opening" THEN MaxEarly ELSE MaxCalls
  /\ used' = used + 1
Submit(op, home) ==
  queue' = IF shutdown THEN queue ELSE Append(queue, Op(op, "user", home))
Migrating == migration.pc # "none"
Submitted ==
  UNCHANGED <<launcher, status, job, shutdown, calls, woken, os, disk, app, migration>>
\* What would disrupt a running harness is held until the user confirms it.
Ask(op, home) ==
  /\ Command /\ Submitted
  /\ IF status.phase = "running"
     THEN dialog = None /\ dialog' = Op(op, "user", home) /\ UNCHANGED queue
     ELSE Submit(op, home) /\ UNCHANGED dialog
\* restart-harness; the developer mode restarts one under way during a migration too.
Restart == (Migrating => status.phase \notin {"idle", "failed"}) /\ Ask("restart", None)
UseManagedHome == ~Migrating /\ Ask("switch", Default)
ChooseExisting(h) == ~Migrating /\ Ask("switch", h)
SwitchProfile == ~Migrating /\ Ask("switch", launcher.active)
\* A migration may have begun since.
Confirm ==
  /\ dialog # None
  /\ Submit(dialog.op, dialog.home) /\ dialog' = None
  /\ UNCHANGED used /\ Submitted
Store(f) ==
  /\ f \notin written
  /\ status.phase = "running" /\ Live(child)
  /\ LET h == proc[child].home
     IN files' = [files EXCEPT ![h] = @ \cup {f}] /\ here' = here \cup {h}
  /\ written' = written \cup {f}
  /\ UNCHANGED <<ctl, os, manifest, ui>>
-----------------------------------------------------------------------------
(* Migration of the managed home.                                            *)
Migrate(t) ==
  /\ Command /\ ~Migrating
  /\ launcher.active \in Managed \cap here /\ t \in Managed \ here
  /\ migration' = [pc |-> "stopping", source |-> launcher.active, target |-> t]
  /\ CallStop
  /\ UNCHANGED <<launcher, job, woken, settled, proc, disk, app, dialog>>
\* startHarness, after a failure.
StartHarness ==
  IF app.quit = "no" /\ status.phase # "running" /\ ~shutdown
  THEN /\ queue' = Append(queue, Op("start", "migration", None))
       /\ migration' = [migration EXCEPT !.pc = "restoring"]
  ELSE migration' = NoMigration /\ UNCHANGED queue
Woken(pc) ==
  /\ woken["migration"] # "no" /\ migration.pc = pc
  /\ woken' = [woken EXCEPT !["migration"] = "no"]
  /\ UNCHANGED <<launcher, status, job, shutdown, calls, os, written, app, dialog, used>>
HarnessStopped ==
  /\ Woken("stopping") /\ UNCHANGED <<files, here, manifest>>
  /\ \/ /\ woken["migration"] = "failed"
        /\ migration' = NoMigration /\ UNCHANGED queue
     \/ /\ woken["migration"] = "ok" /\ launcher.active # migration.source
        /\ StartHarness
     \/ /\ woken["migration"] = "ok" /\ launcher.active = migration.source
        /\ migration' = [migration EXCEPT !.pc = "copying"] /\ UNCHANGED queue
\* A target which has become active is never erased.
RemoveTargetCopy ==
  IF launcher.active = migration.target
  THEN UNCHANGED <<files, here, manifest>>
  ELSE /\ files' = [files EXCEPT ![migration.target] = {}]
       /\ here' = here \ {migration.target}
       /\ manifest' = [manifest EXCEPT ![migration.target] = None]
\* Items, copy, manifest, markLastKnownGood and switchTo, without a pause.
Copy ==
  LET s == migration.source
      t == migration.target
  IN /\ migration.pc = "copying" /\ t \notin here
     /\ files' = [files EXCEPT ![t] = files[s]]
     /\ here' = here \cup {t}
     /\ manifest' = [manifest EXCEPT ![t] =
          [source |-> s, items |-> files[s], run |-> app.run, early |-> app.stage = "opening",
           checked |-> 0, verification |-> "awaiting-restart", cleanup |-> "pending"]]
     /\ launcher' = [launcher EXCEPT !.lkg = launcher.active]
     /\ app.quit = "no" /\ ~shutdown
     /\ queue' = Append(queue, Op("switch", "migration", t))
     /\ migration' = [migration EXCEPT !.pc = "switching"]
     /\ UNCHANGED <<status, job, shutdown, calls, woken, os, written, app, dialog, used>>
\* The target was taken meanwhile, an operation on a file throws, or the
\* application quits.
CopyFails ==
  /\ migration.pc = "copying"
  /\ \/ migration.target \in here /\ UNCHANGED <<launcher, files, here, manifest>>
     \/ /\ migration.target \notin here /\ "write" \in Faults
        /\ UNCHANGED launcher /\ RemoveTargetCopy
     \/ /\ migration.target \notin here /\ (app.quit # "no" \/ shutdown)
        /\ launcher' = [launcher EXCEPT !.lkg = launcher.active] /\ RemoveTargetCopy
  /\ StartHarness
  /\ UNCHANGED <<status, job, shutdown, calls, woken, os, written, app, dialog, used>>
Moved ==
  /\ woken["migration"] = "ok" /\ status.phase = "running" /\ launcher.active = migration.target
\* Mutant: the migration declares itself good.
HomeSwitchedVerifies ==
  /\ Woken("switching")
  /\ IF Moved
     THEN migration' = NoMigration /\ VerifyOnStartup /\ UNCHANGED <<queue, files, here>>
     ELSE RemoveTargetCopy /\ StartHarness
HomeSwitched ==
  /\ Woken("switching")
  /\ IF Moved
     THEN migration' = NoMigration /\ UNCHANGED <<queue, files, here, manifest>>
     ELSE RemoveTargetCopy /\ StartHarness
HarnessRestored ==
  /\ Woken("restoring")
  /\ migration' = NoMigration /\ UNCHANGED <<queue, files, here, manifest>>
\* Mutant: deleteOldCopy trusts the manifest.
UnchangedTrusted(m) == files[m.source] = m.items \/ m.verification = "verified"
\* deleteOldCopy compares the content with the manifest, item by item.
Unchanged(m) == files[m.source] = m.items
Cleanup ==
  /\ app.stage # "down" /\ ~Migrating
  /\ LET h == launcher.active
         m == manifest[h]
         kept == [manifest EXCEPT ![m.source] = None]
     IN /\ m # None /\ m.verification = "verified" /\ m.cleanup # "done" /\ m.source \in here
        /\ IF Unchanged(m)
           THEN /\ files' = [files EXCEPT ![m.source] = {}]
                /\ here' = here \ {m.source}
                /\ \/ manifest' = [kept EXCEPT ![h].cleanup = "done"]
                   \/ "write" \in Faults /\ manifest' = kept
           ELSE /\ manifest' = [manifest EXCEPT ![h].cleanup = "partial"]
                /\ UNCHANGED <<files, here>>
  /\ UNCHANGED <<ctl, os, written, ui>>
-----------------------------------------------------------------------------
Continue ==
  \/ BootAfterStop \/ StopFailed \/ OrphanStopped \/ BootFailed \/ Unpublished \/ Terminated
  \/ LeftBeforeReady \/ TakeJob
  \/ BootReturns \/ QuitReturns
  \/ HarnessStopped \/ Copy \/ CopyFails \/ HomeSwitched \/ HarnessRestored
\* Nothing is left to run until something happens outside.
Quiet ==
  /\ woken = Asleep /\ migration.pc # "copying"
  /\ IF job = NoJob THEN queue = <<>> ELSE ~Released /\ (At("ready") => Live(child))
Answers ==
  \/ Spawned \/ SpawnFails \/ Ready \/ NotReady \/ Loaded \/ NotLoaded
User ==
  \/ Restart \/ UseManagedHome \/ SwitchProfile \/ Confirm \/ Quit \/ Cleanup
  \/ \E h \in Existing : ChooseExisting(h)
  \/ \E t \in Managed : Migrate(t)
World ==
  \/ \E p \in Proc : Die(p)
  \/ \E w \in {"job", "stop"} : GiveUp(w)
  \/ \E f \in Fact : Store(f)
  \/ StartApp \/ BootBegins \/ Exit \/ Answers
Next ==
  \/ Continue
  \/ Quiet /\ (World \/ User)
  \/ (Quiet \/ migration.pc = "copying") /\ Crash

Spec == Init /\ [][Next]_vars
-----------------------------------------------------------------------------
(* What the host promises.                                                   *)
Homes == Home \cup {None}
Operation ==
  [op : {"start", "switch", "restart", "stop", "exit"}, by : Party \cup {"user", "all", "none"},
   home : Homes, first : BOOLEAN, pc : {"queued", "stopping", "spawning", "orphan", "ready",
   "loading", "cleaning", "unpublish", "terminating"},
   before : {None} \cup [active : Home, pending : Homes, lkg : Homes]]
\* What a confirmation may hold.
Held == {Op("restart", "user", None)} \cup {Op("switch", "user", h) : h \in Home}
Manifest ==
  [source : Managed, items : SUBSET Fact, run : 0..MaxRuns, early : BOOLEAN, checked : 0..MaxRuns,
   verification : {"awaiting-restart", "verified", "failed"},
   cleanup : {"pending", "partial", "done"}]
\* Every variable holds a value the program can hold.
TypeOK ==
  /\ app \in [stage : {"down", "opening", "booting", "up"}, run : 0..MaxRuns, quit : {"no", "stopping", "finishing"}]
  /\ launcher \in [active : Home, pending : Homes, lkg : Homes]
  /\ status \in [phase : {"idle", "starting", "switching", "recovering", "stopping", "running", "failed"},
                 home : Homes]
  /\ queue \in Seq(Operation) /\ job \in {NoJob} \cup Operation
  /\ shutdown \in BOOLEAN /\ stopped \in BOOLEAN /\ settled \in BOOLEAN
  /\ calls \in [{"job", "stop"} -> Proc \cup {"none", "done", "failed"}]
  /\ woken \in [Party -> {"no", "ok", "failed"}]
  /\ child \in Proc \cup {None}
  /\ proc \in [Proc -> [state : {"dead", "spawned", "serving"}, home : Homes,
                       fate : {"none", "unseen", "survived"}]]
  /\ files \in [Home -> SUBSET Fact] /\ here \subseteq Home /\ written \subseteq Fact
  /\ manifest \in [Home -> Manifest \cup {None}]
  /\ migration \in [pc : {"none", "stopping", "copying", "switching", "restoring"},
                    source : Homes, target : Homes]
  /\ dialog \in {None} \cup Held /\ used \in 0..MaxCalls

\* What the user stored while the harness was running is in some home: a move,
\* its rollback, a cleanup, a switch or a power loss in between never drops it.
DataNeverLost == written \subseteq UNION {files[h] : h \in Home}

\* When the host rests, a running status names the durable selection, and its
\* process is alive and works on that home, whatever stop failed and whatever exit
\* came when; the one exit nobody hears of is that of a process whose page had
\* loaded and whose boot had not settled.
RunningIsTrue ==
  Quiet /\ status.phase = "running" =>
    /\ status.home = launcher.active
    /\ \/ Live(child) /\ proc[child].home = status.home
       \/ child # None /\ proc[child].fate = "unseen"

\* No move made after the startup is declared good by the run of the application
\* that made it.
SameRunNeverVerifies ==
  \A h \in Home : manifest[h] # None /\ manifest[h].verification # "awaiting-restart" =>
    manifest[h].checked > manifest[h].run \/ manifest[h].early

\* While a stop is requested no boot begins and nothing is promoted; when it has
\* settled, a process that still lives is one whose stop was given up, also the one
\* that a boot was spawning when the stop was requested.
ShutdownWins ==
  [][shutdown =>
       IF shutdown'
       THEN launcher'.active = launcher.active /\ (At("spawning")' => At("spawning"))
       ELSE \A p \in Proc : Live(p)' => proc'[p].fate = "survived"]_vars

\* A host with nothing left to run or to wait for is at rest: no status, stop or
\* quit is left half way, whichever operation, file or stop failed.
RestIsReal ==
  Quiet /\ job = NoJob =>
    /\ ~shutdown /\ status.phase \in {"idle", "running", "failed"}
    /\ app.stage # "booting" /\ app.quit # "stopping" /\ ~Migrating

\* A stop that interrupts an operation leaves the durable selection to the next start.
ShutdownRecordsNothing == [][shutdown /\ shutdown' => launcher' = launcher]_vars
=============================================================================
