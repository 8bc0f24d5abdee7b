----------------------------- MODULE HostProofs -----------------------------
(***************************************************************************)
(* HarnessHost for any homes, processes, facts, faults and bounds.         *)
(***************************************************************************)
EXTENDS HarnessHost, SequenceTheorems, TLAPS

Launchers == [active : Home, pending : Homes, lkg : Homes]

\* The awaits of a start, a switch or a restart, and those for the end of a process.
Working  == {"stopping", "spawning", "orphan", "ready", "loading", "cleaning", "unpublish"}
Awaiting == {"stopping", "orphan", "cleaning", "unpublish"}
Booting  == {"spawning", "ready", "loading", "cleaning", "unpublish"}

Process == [state : {"dead", "spawned", "serving"}, home : Homes, fate : {"none", "unseen", "survived"}]
Callees == {"job", "stop"}

Queued == 1..Len(queue)
NoWork == \A k \in Queued : queue[k].op = "exit"

\* A stop is the last operation, but for notices of exits.
QueueInv ==
  /\ \A k \in Queued : /\ queue[k].op = "switch" => queue[k].home \in Home
                       /\ queue[k].op = "stop" => queue[k].by = "all"
                       /\ queue[k].op = "exit" => queue[k].by = "none"
  /\ \A k \in Queued : queue[k].op = "stop" =>
       shutdown /\ \A m \in Queued : m > k => queue[m].op = "exit"
  /\ shutdown => (job # NoJob /\ job.op = "stop") \/ \E k \in Queued : queue[k].op = "stop"

JobInv ==
  job # NoJob =>
    /\ woken = Asleep
    /\ job.pc \in Working \cup {"terminating"}
    /\ job.op \in {"start", "switch", "restart", "stop"}
    /\ job.op = "stop" <=> job.pc = "terminating"
    /\ job.op = "stop" => shutdown /\ job.by = "all" /\ NoWork
    /\ job.pc = "orphan" => shutdown
    /\ job.pc \in Working =>
         job.home \in Home /\ job.before \in Launchers /\ job.before.active = launcher.active
    /\ job.pc \in {"ready", "loading"} /\ Live(child) => proc[child].home = job.home

CallInv ==
  /\ calls["job"] # "none" <=> job # NoJob /\ job.pc \in Awaiting
  /\ calls["stop"] # "none" <=> shutdown
  /\ \A w \in {"job", "stop"} : calls[w] \in Proc => Live(calls[w])
  /\ stopped => \E w \in {"job", "stop"} : calls[w] \in Proc

StatusInv ==
  ~shutdown =>
    /\ status.phase # "stopping"
    /\ status.phase \in {"starting", "switching", "recovering"} => job # NoJob /\ job.pc \in Booting

RunInv ==
  status.phase = "running" =>
    /\ ~shutdown /\ settled /\ status.home = launcher.active
    /\ Live(child) => proc[child].home = status.home
    /\ job # NoJob =>
         /\ job.pc = "stopping"
         /\ calls["job"] \in Proc => calls["job"] = child
         /\ calls["job"] = "failed" => Live(child)
    /\ job = NoJob =>
         \/ Live(child)
         \/ child # None /\ proc[child].fate = "unseen"
         \/ \E k \in Queued : queue[k].op = "exit"

\* A process whose end is awaited, or that was given up.
Minded(p) == proc[p].fate = "survived" \/ \E w \in Callees : calls[w] = p

\* No process is forgotten: it is the harness's own, or a stop of it is awaited or was given up.
MindInv ==
  /\ \A p \in Proc : Live(p) /\ (p # child \/ shutdown) => Minded(p)
  /\ \A p \in Proc : proc[p].state = "spawned" => Minded(p) \/ (At("ready") /\ p = child)
  /\ calls["job"] \in Proc /\ ~shutdown => child = calls["job"]
  /\ job # NoJob /\ job.pc \in {"ready", "loading"} =>
       /\ ~settled
       /\ ~shutdown => child # None /\ (Live(child) \/ proc[child].fate = "unseen")

\* The application starts the harness once in a run.
BootInv ==
  /\ \A k \in Queued : queue[k].by = "boot" =>
       /\ app.stage = "booting" /\ woken["boot"] = "no" /\ queue[k].op = "start"
       /\ job # NoJob => job.by # "boot"
       /\ \A m \in Queued : queue[m].by = "boot" => m = k
  /\ job # NoJob /\ job.by = "boot" => app.stage = "booting"
  /\ woken["boot"] # "no" => app.stage = "booting"
  /\ app.stage = "booting" =>
       \/ woken["boot"] # "no"
       \/ job # NoJob /\ job.by = "boot"
       \/ \E k \in Queued : queue[k].by = "boot"
  /\ app.quit = "stopping" => shutdown \/ woken["quit"] # "no"

\* An application that is not running has nothing in memory.
DownInv ==
  app.stage = "down" =>
    /\ job = NoJob /\ queue = <<>> /\ ~shutdown /\ woken = Asleep
    /\ child = None /\ dialog = None /\ status.phase = "idle" /\ migration.pc = "none"

Moves == {"switching", "restoring"}

\* A migration has one operation of its own under way at a time.
MoveInv ==
  /\ migration.pc # "none" =>
       {migration.source, migration.target} \subseteq Managed /\ migration.source # migration.target
  /\ migration.pc = "none" => woken["migration"] = "no"
  /\ migration.pc = "stopping" => shutdown \/ woken["migration"] # "no"
  /\ migration.pc = "copying" => woken["migration"] = "no" /\ launcher.active = migration.source
  /\ migration.pc = "copying" \/ (migration.pc = "stopping" /\ woken["migration"] # "no") =>
       job = NoJob /\ ~shutdown /\ app.stage # "booting" /\ NoWork
  /\ migration.pc \in Moves /\ woken["migration"] = "no" =>
       (job # NoJob /\ job.by = "migration") \/ \E k \in Queued : queue[k].by = "migration"
  /\ \A k \in Queued : queue[k].by = "migration" =>
       /\ migration.pc \in Moves /\ woken["migration"] = "no"
       /\ job # NoJob => job.by # "migration"
       /\ \A m \in Queued : queue[m].by = "migration" => m = k
  /\ job # NoJob /\ job.by = "migration" => migration.pc \in Moves

\* Until its switch has settled, a move has changed nothing but the copy.
SwitchInv ==
  migration.pc = "switching" =>
    /\ files[migration.target] \subseteq files[migration.source]
    /\ woken["migration"] = "no" => launcher.active = migration.source
    /\ \A k \in Queued : queue[k].by = "migration" =>
         /\ queue[k].op = "switch" /\ job = NoJob /\ launcher.lkg = migration.source
         /\ queue[k].home = migration.target
         /\ \A m \in Queued : m < k => queue[m].op = "exit"
    /\ job # NoJob =>
         /\ job.by = "migration" /\ job.op = "switch" /\ job.before.lkg = migration.source
         /\ job.home \in {migration.source, migration.target}

DiskInv ==
  /\ DataNeverLost
  /\ \A h \in Home : h \notin here => files[h] = {}
  /\ \A h \in Home : manifest[h] # None =>
       /\ manifest[h].source # h
       /\ manifest[h].items \subseteq files[h]
       /\ manifest[h].run <= app.run
       /\ app.stage \in {"opening", "booting"} => manifest[h].run < app.run \/ manifest[h].early
       /\ manifest[h].verification # "awaiting-restart" =>
            manifest[h].checked > manifest[h].run \/ manifest[h].early

IInv ==
  TypeOK /\ QueueInv /\ JobInv /\ CallInv /\ StatusInv /\ RunInv /\ MindInv /\ BootInv /\ DownInv
    /\ MoveInv /\ SwitchInv /\ DiskInv
----------------------------------------------------------------------------
(* The queue, and what is known of the job from its type.                  *)

Kinds == {"start", "switch", "restart", "stop", "exit"}

LEMMA NoJobIsNone == NoJob.op = "none" /\ NoJob \notin Operation
  BY DEF NoJob, Operation

LEMMA AsleepIs == \A p \in Party : Asleep[p] = "no"
  BY DEF Asleep

LEMMA NewOp ==
  ASSUME NEW op \in Kinds, NEW by \in Party \cup {"user", "all", "none"}, NEW home \in Homes
  PROVE  /\ Op(op, by, home) \in Operation
         /\ Op(op, by, home).op = op /\ Op(op, by, home).by = by /\ Op(op, by, home).home = home
  BY DEF Op, Operation, Kinds

LEMMA Waiting ==
  ASSUME TypeOK
  PROVE  /\ Len(queue) \in Nat
         /\ \A k \in Queued : queue[k] \in Operation
         /\ queue # <<>> => 1 \in Queued /\ Head(queue) = queue[1]
         /\ queue = <<>> => Queued = {}
<1>1. queue \in Seq(Operation)
  BY DEF TypeOK
<1>2. Len(queue) \in Nat /\ \A k \in 1..Len(queue) : queue[k] \in Operation
  BY <1>1, LenProperties, ElementOfSeq
<1>3. queue # <<>> => Len(queue) >= 1 /\ Head(queue) = queue[1]
  BY <1>1
<1>4. queue = <<>> => Len(queue) = 0
  OBVIOUS
<1> QED BY <1>2, <1>3, <1>4 DEF Queued

\* An operation joins the queue.
LEMMA Joined ==
  ASSUME TypeOK, NEW e \in Operation, queue' = Append(queue, e)
  PROVE  /\ queue' \in Seq(Operation)
         /\ Len(queue) + 1 \in Queued' /\ queue'[Len(queue) + 1] = e
         /\ \A k \in Queued : k \in Queued' /\ queue'[k] = queue[k] /\ k < Len(queue) + 1
         /\ \A k \in Queued' : k \in Queued \/ k = Len(queue) + 1
         /\ queue' # <<>> /\ (queue # <<>> => queue'[1] = queue[1])
<1>1. queue \in Seq(Operation)
  BY DEF TypeOK
<1>2. /\ queue' \in Seq(Operation) /\ queue' # <<>> /\ Len(queue') = Len(queue) + 1
      /\ \A k \in 1..Len(queue) : queue'[k] = queue[k]
      /\ queue'[Len(queue) + 1] = e
  BY <1>1, AppendProperties
<1>3. Len(queue) \in Nat /\ (queue # <<>> => 1 \in Queued)
  BY Waiting
<1> QED BY <1>2, <1>3 DEF Queued

\* The next operation leaves the queue.
LEMMA Left ==
  ASSUME TypeOK, queue # <<>>, queue' = Tail(queue)
  PROVE  /\ queue' \in Seq(Operation)
         /\ 1 \in Queued /\ Head(queue) = queue[1] /\ queue[1] \in Operation
         /\ \A k \in Queued' : /\ k \in Nat /\ k >= 1 /\ k + 1 \in Queued
                                /\ queue'[k] = queue[k + 1]
         /\ \A k \in Queued : k = 1 \/ (k - 1 \in Queued' /\ queue'[k - 1] = queue[k])
<1>1. queue \in Seq(Operation)
  BY DEF TypeOK
<1>2. /\ queue' \in Seq(Operation) /\ Len(queue') = Len(queue) - 1
      /\ \A k \in 1..Len(queue') : queue'[k] = queue[k + 1]
  BY <1>1, HeadTailProperties
<1>3. Len(queue) \in Nat /\ 1 \in Queued /\ Head(queue) = queue[1] /\ queue[1] \in Operation
  BY Waiting
<1>4. ASSUME NEW k \in Queued'
      PROVE  k \in Nat /\ k >= 1 /\ k + 1 \in Queued /\ queue'[k] = queue[k + 1]
  BY <1>2, <1>3, <1>4 DEF Queued
<1>5. ASSUME NEW k \in Queued, k # 1 PROVE k - 1 \in Queued' /\ queue'[k - 1] = queue[k]
  <2>1. k - 1 \in 1..Len(queue') /\ (k - 1) + 1 = k
    BY <1>2, <1>3, <1>5 DEF Queued
  <2> QED BY <1>2, <2>1 DEF Queued
<1> QED BY <1>2, <1>3, <1>4, <1>5
----------------------------------------------------------------------------
(* The flow of operations through the queue.                               *)

Flow == QueueInv /\ BootInv /\ MoveInv /\ SwitchInv

\* Nothing of it moves.
LEMMA FlowSame ==
  ASSUME IInv, UNCHANGED <<queue, job, shutdown, woken, migration, launcher>>,
         app'.stage = app.stage \/ "booting" \notin {app.stage, app'.stage},
         app'.quit \in {app.quit, "no", "finishing"},
         migration.pc = "switching" => files'[migration.target] \subseteq files'[migration.source]
  PROVE  Flow'
<1>1. QueueInv'
  BY DEF IInv, QueueInv, Queued
<1>2. BootInv'
  BY DEF IInv, BootInv, Queued
<1>3. MoveInv'
  BY DEF IInv, MoveInv, Queued, NoWork
<1>4. SwitchInv'
  BY DEF IInv, SwitchInv, Queued
<1> QED BY <1>1, <1>2, <1>3, <1>4 DEF Flow

\* A job goes on.
LEMMA FlowOn ==
  ASSUME IInv, job # NoJob, job' # NoJob, job'.op = job.op, job'.by = job.by,
         job'.before.lkg = job.before.lkg, job'.home \in {job.home, job.before.lkg},
         launcher'.active = launcher.active,
         UNCHANGED <<queue, shutdown, woken, app, migration, files>>
  PROVE  Flow'
<1>1. QueueInv'
  BY DEF IInv, QueueInv, Queued
<1>2. BootInv'
  BY DEF IInv, BootInv, Queued
<1>3. MoveInv'
  BY DEF IInv, MoveInv, Queued, NoWork
<1>4. SwitchInv'
  BY DEF IInv, SwitchInv, Queued
<1> QED BY <1>1, <1>2, <1>3, <1>4 DEF Flow

\* A job ends, and wakes who awaits it.
LEMMA FlowEnds ==
  ASSUME IInv, job # NoJob, NEW j, j.op = job.op, j.by = job.by,
         NEW outcome \in {"ok", "failed"}, Finish(j, outcome),
         shutdown' = (shutdown /\ job.op # "stop"),
         UNCHANGED <<queue, app, migration, files>>
  PROVE  Flow' /\ JobInv'
<1> USE DEF IInv
<1>1. job' = NoJob /\ woken = Asleep
  BY DEF Finish, JobInv
<1>2. \A p \in Party : woken[p] = "no" /\ woken'[p] = IF Awaits(p, j) THEN outcome ELSE "no"
  BY <1>1, AsleepIs DEF Finish
<1>3. {"boot", "quit", "migration"} = Party
  BY DEF Party
<1>5. job.op = "stop" => app.stage # "booting" /\ NoWork /\ job.by = "all"
  <2>1. woken["boot"] = "no"
    BY <1>2, <1>3
  <2>2. job.op = "stop" => NoWork /\ \A k \in Queued : queue[k].by # "boot"
    BY DEF BootInv, JobInv, NoWork
  <2> QED BY <2>1, <2>2 DEF BootInv, JobInv
<1>6. QueueInv'
  <2>1. CASE job.op = "stop"
    BY <1>1, <1>5, <2>1 DEF QueueInv, NoWork, Queued
  <2>2. CASE job.op # "stop"
    <3>1. shutdown' = shutdown
      BY <2>2 DEF TypeOK
    <3> QED BY <1>1, <2>2, <3>1 DEF QueueInv, Queued
  <2> QED BY <2>1, <2>2
<1>7. BootInv'
  <2>1. woken'["boot"] # "no" <=> job.by = "boot"
    BY <1>2, <1>3 DEF Awaits
  <2>2. /\ app.stage = "booting" => job.by = "boot" \/ \E k \in Queued : queue[k].by = "boot"
        /\ \A k \in Queued : queue[k].by = "boot" => job.by # "boot"
    BY <1>2, <1>3 DEF BootInv
  <2>3. app.quit = "stopping" => shutdown
    BY <1>2, <1>3 DEF BootInv
  <2>4. app.quit = "stopping" /\ job.op = "stop" => woken'["quit"] # "no"
    BY <1>2, <1>3 DEF Awaits
  <2>5. job.by = "boot" => app.stage = "booting"
    BY DEF BootInv
  <2> QED BY <1>1, <2>1, <2>2, <2>3, <2>4, <2>5 DEF BootInv, Queued
<1>8. woken["migration"] = "no"
      /\ (woken'["migration"] # "no" <=>
            job.by = "migration" \/ (job.op = "stop" /\ migration.pc = "stopping"))
  BY <1>2, <1>3 DEF Awaits
<1>9. MoveInv'
  <2>1. migration.pc = "none" => woken'["migration"] = "no"
    BY <1>8 DEF MoveInv, Moves
  <2>2. migration.pc = "stopping" => shutdown' \/ woken'["migration"] # "no"
    BY <1>8 DEF MoveInv
  <2>3. migration.pc # "copying"
    BY DEF MoveInv
  <2>4. migration.pc = "stopping" /\ woken'["migration"] # "no" =>
          ~shutdown' /\ app.stage # "booting" /\ NoWork
    BY <1>5, <1>8 DEF MoveInv, Moves
  <2>5. migration.pc \in Moves /\ woken'["migration"] = "no" =>
          \E k \in Queued : queue[k].by = "migration"
    BY <1>8 DEF MoveInv
  <2>6. \A k \in Queued : queue[k].by = "migration" =>
          /\ migration.pc \in Moves /\ woken'["migration"] = "no"
          /\ \A m \in Queued : queue[m].by = "migration" => m = k
    BY <1>8 DEF MoveInv, Moves
  <2> QED BY <1>1, <2>1, <2>2, <2>3, <2>4, <2>5, <2>6 DEF MoveInv, Queued, NoWork
<1>10. SwitchInv'
  <2>1. migration.pc = "switching" => job.by = "migration" /\ woken'["migration"] # "no"
    BY <1>8 DEF SwitchInv
  <2>2. \A k \in Queued : queue[k].by = "migration" => job.by # "migration"
    BY DEF MoveInv
  <2> QED BY <1>1, <2>1, <2>2 DEF SwitchInv, Queued
<1> QED BY <1>1, <1>6, <1>7, <1>9, <1>10 DEF Flow, JobInv
\* A start of the application's that waits behind the next operation is the only one.
LEMMA LaterBoot ==
  ASSUME IInv, queue # <<>>, queue' = Tail(queue), NEW k \in Queued', queue'[k].by = "boot"
  PROVE  /\ app.stage = "booting" /\ queue'[k].op = "start" /\ queue[1].by # "boot"
         /\ \A m \in Queued' : queue'[m].by = "boot" => m = k
<1>1. /\ 1 \in Queued /\ k \in Nat /\ k >= 1 /\ k + 1 \in Queued /\ queue'[k] = queue[k + 1]
      /\ \A m \in Queued' : m \in Nat /\ m + 1 \in Queued /\ queue'[m] = queue[m + 1]
  BY Left DEF IInv
<1>2. k + 1 # 1
  BY <1>1
<1>3. app.stage = "booting" /\ queue'[k].op = "start" /\ queue[1].by # "boot"
  BY <1>1, <1>2 DEF IInv, BootInv
<1>4. ASSUME NEW m \in Queued', queue'[m].by = "boot" PROVE m = k
  <2>1. m \in Nat /\ m + 1 = k + 1
    BY <1>1, <1>4 DEF IInv, BootInv
  <2> QED BY <1>1, <2>1
<1> QED BY <1>3, <1>4

\* The next operation is begun.
LEMMA FlowTakes ==
  ASSUME IInv, job = NoJob, queue # <<>>, woken = Asleep, migration.pc # "copying",
         queue' = Tail(queue), NEW j, j = Head(queue), j.op # "exit",
         job' # NoJob, job'.op = j.op, job'.by = j.by,
         j.op = "switch" => job'.home = j.home /\ job'.before.lkg = launcher.lkg,
         launcher'.active = launcher.active,
         UNCHANGED <<shutdown, woken, app, migration, files>>
  PROVE  Flow' /\ (j.op = "stop" => NoWork')
<1> USE DEF IInv
<1>1. 1 \in Queued /\ j = queue[1] /\ queue[1] \in Operation
  BY Left
<1>a. ASSUME NEW k \in Queued'
      PROVE  k \in Nat /\ k >= 1 /\ k + 1 # 1 /\ k + 1 \in Queued /\ queue'[k] = queue[k + 1]
  <2>1. k \in Nat /\ k >= 1 /\ k + 1 \in Queued /\ queue'[k] = queue[k + 1]
    BY Left, Zenon
  <2>2. ASSUME NEW n \in Nat, n >= 1 PROVE n + 1 # 1
    BY <2>2
  <2> QED BY <2>1, <2>2, Zenon
<1>b. ASSUME NEW k \in Queued, k # 1
      PROVE  k - 1 \in Queued' /\ queue'[k - 1] = queue[k]
  BY <1>b, Left, Zenon
<1>2. \A k \in Queued : k \in Nat /\ k >= 1
  BY Waiting DEF Queued
<1>4. \A p \in Party : woken[p] = "no"
  BY AsleepIs
<1>5. "boot" \in Party /\ "quit" \in Party /\ "migration" \in Party
  BY DEF Party
<1>6. QueueInv'
  <2>1. ASSUME NEW k \in Queued'
        PROVE  /\ queue'[k].op = "switch" => queue'[k].home \in Home
               /\ queue'[k].op = "stop" => queue'[k].by = "all"
               /\ queue'[k].op = "exit" => queue'[k].by = "none"
    <3>1. k + 1 \in Queued /\ queue'[k] = queue[k + 1]
      BY <1>a
    <3> QED BY <3>1 DEF QueueInv
  <2>2. ASSUME NEW k \in Queued', queue'[k].op = "stop"
        PROVE  shutdown /\ \A m \in Queued' : m > k => queue'[m].op = "exit"
    <3>1. k \in Nat /\ k + 1 \in Queued /\ queue[k + 1].op = "stop"
      BY <1>a, <2>2
    <3>2. shutdown /\ \A m \in Queued : m > k + 1 => queue[m].op = "exit"
      BY <3>1 DEF QueueInv
    <3>3. ASSUME NEW m \in Queued', m > k PROVE queue'[m].op = "exit"
      <4>1. m \in Nat /\ m + 1 \in Queued /\ queue'[m] = queue[m + 1]
        BY <1>a
      <4>2. m + 1 > k + 1
        BY <3>1, <3>3, <4>1
      <4> QED BY <3>2, <4>1, <4>2
    <3> QED BY <3>2, <3>3
  <2>3. ASSUME shutdown PROVE job'.op = "stop" \/ \E k \in Queued' : queue'[k].op = "stop"
    <3>1. PICK k \in Queued : queue[k].op = "stop"
      BY <2>3 DEF QueueInv
    <3> QED BY <1>1, <1>b, <3>1
  <2> QED BY <1>4, <2>1, <2>2, <2>3 DEF QueueInv
<1>7. j.op = "stop" => NoWork'
  <2> SUFFICES ASSUME j.op = "stop", NEW k \in Queued' PROVE queue'[k].op = "exit"
    BY DEF NoWork
  <2>1. k \in Nat /\ k >= 1 /\ k + 1 \in Queued /\ queue'[k] = queue[k + 1]
    BY <1>a, Zenon
  <2>2. k + 1 > 1
    BY <2>1
  <2> QED BY <1>1, <2>1, <2>2 DEF QueueInv
<1>8. BootInv'
  <2>1. ASSUME NEW k \in Queued', queue'[k].by = "boot"
        PROVE  /\ app.stage = "booting" /\ queue'[k].op = "start" /\ j.by # "boot"
               /\ \A m \in Queued' : queue'[m].by = "boot" => m = k
    BY <1>1, <1>a, <2>1, LaterBoot
  <2>2. app.stage = "booting" => j.by = "boot" \/ \E k \in Queued' : queue'[k].by = "boot"
    <3>1. app.stage = "booting" => \E k \in Queued : queue[k].by = "boot"
      BY <1>4, <1>5 DEF BootInv
    <3> QED BY <1>1, <1>b, <3>1
  <2>3. j.by = "boot" => app.stage = "booting"
    BY <1>1 DEF BootInv
  <2> QED BY <1>4, <1>5, <2>1, <2>2, <2>3 DEF BootInv
<1>9. ASSUME NEW k \in Queued', queue'[k].by = "migration"
      PROVE  queue[k + 1].by = "migration" /\ j.by # "migration"
  <2>1. k + 1 \in Queued /\ queue[k + 1].by = "migration" /\ k + 1 # 1
    BY <1>a, <1>9
  <2> QED BY <1>1, <2>1 DEF MoveInv
<1>10. MoveInv'
  <2>1. migration.pc \in Moves =>
          job'.by = "migration" \/ \E k \in Queued' : queue'[k].by = "migration"
    <3> SUFFICES ASSUME migration.pc \in Moves, j.by # "migration"
                 PROVE  \E k \in Queued' : queue'[k].by = "migration"
      OBVIOUS
    <3>1. PICK k \in Queued : queue[k].by = "migration"
      BY <1>4, <1>5 DEF MoveInv
    <3> QED BY <1>1, <1>b, <3>1
  <2>2. ASSUME NEW k \in Queued', NEW m \in Queued', queue'[k].by = "migration",
               queue'[m].by = "migration"
        PROVE  m = k
    <3>1. /\ k \in Nat /\ k + 1 \in Queued /\ queue[k + 1].by = "migration"
          /\ m \in Nat /\ m + 1 \in Queued /\ queue[m + 1].by = "migration"
      BY <1>a, <2>2
    <3>2. m + 1 = k + 1
      BY <3>1 DEF MoveInv
    <3> QED BY <3>1, <3>2
  <2>3. \A k \in Queued' : queue'[k].by = "migration" =>
          migration.pc \in Moves /\ woken["migration"] = "no" /\ job'.by # "migration"
    <3> SUFFICES ASSUME NEW k \in Queued', queue'[k].by = "migration"
                 PROVE  migration.pc \in Moves /\ woken["migration"] = "no" /\ job'.by # "migration"
      OBVIOUS
    <3>1. k + 1 \in Queued
      BY <1>a
    <3> QED BY <1>9, <3>1 DEF MoveInv
  <2>4. j.by = "migration" => migration.pc \in Moves
    BY <1>1 DEF MoveInv
  <2> QED BY <1>4, <1>5, <2>1, <2>2, <2>3, <2>4 DEF MoveInv
<1>11. SwitchInv'
  <2> SUFFICES ASSUME migration.pc = "switching" PROVE SwitchInv'
    BY DEF SwitchInv
  <2>1. PICK k \in Queued : queue[k].by = "migration"
    BY <1>4, <1>5 DEF MoveInv, Moves
  <2>2. /\ queue[k].op = "switch" /\ launcher.lkg = migration.source
        /\ queue[k].home = migration.target
        /\ \A m \in Queued : m < k => queue[m].op = "exit"
    BY <2>1 DEF SwitchInv
  <2>3. k = 1
    BY <1>1, <1>2, <2>2
  <2>4. \A m \in Queued' : queue'[m].by # "migration"
    BY <1>9, <1>1, <2>1, <2>3
  <2>5. launcher.active = migration.source /\ files[migration.target] \subseteq files[migration.source]
    BY <1>4, <1>5 DEF SwitchInv
  <2>6. /\ job'.by = "migration" /\ job'.op = "switch" /\ job'.before.lkg = migration.source
        /\ job'.home \in {migration.source, migration.target}
    BY <1>1, <2>1, <2>2, <2>3
  <2> HIDE DEF IInv
  <2> QED BY <2>4, <2>5, <2>6 DEF SwitchInv
<1> QED BY <1>6, <1>7, <1>8, <1>10, <1>11 DEF Flow

\* The next operation ends as soon as it is begun.
LEMMA FlowPasses ==
  ASSUME IInv, job = NoJob, queue # <<>>, woken = Asleep, migration.pc # "copying",
         queue' = Tail(queue), NEW j, j = Head(queue), j.op # "stop",
         NEW outcome \in {"ok", "failed"}, Finish(j, outcome),
         launcher'.active = launcher.active, launcher'.lkg = launcher.lkg,
         UNCHANGED <<shutdown, app, migration, files>>
  PROVE  Flow' /\ JobInv'
<1> USE DEF IInv
<1>1. 1 \in Queued /\ j = queue[1]
  BY Left
<1>a. ASSUME NEW k \in Queued'
      PROVE  k \in Nat /\ k >= 1 /\ k + 1 # 1 /\ k + 1 \in Queued /\ queue'[k] = queue[k + 1]
  <2>1. k \in Nat /\ k >= 1 /\ k + 1 \in Queued /\ queue'[k] = queue[k + 1]
    BY Left, Zenon
  <2>2. ASSUME NEW n \in Nat, n >= 1 PROVE n + 1 # 1
    BY <2>2
  <2> QED BY <2>1, <2>2, Zenon
<1>b. ASSUME NEW k \in Queued, k # 1
      PROVE  k - 1 \in Queued' /\ queue'[k - 1] = queue[k]
  BY <1>b, Left, Zenon
<1>2. \A k \in Queued : k \in Nat /\ k >= 1
  BY Waiting DEF Queued
<1>4. /\ job' = NoJob
      /\ \A p \in Party : woken[p] = "no" /\ woken'[p] = IF Awaits(p, j) THEN outcome ELSE "no"
  BY AsleepIs DEF Finish
<1>5. "boot" \in Party /\ "quit" \in Party /\ "migration" \in Party
  BY DEF Party
<1>6. QueueInv'
  <2>1. ASSUME NEW k \in Queued'
        PROVE  /\ queue'[k].op = "switch" => queue'[k].home \in Home
               /\ queue'[k].op = "stop" => queue'[k].by = "all"
               /\ queue'[k].op = "exit" => queue'[k].by = "none"
    <3>1. k + 1 \in Queued /\ queue'[k] = queue[k + 1]
      BY <1>a
    <3> QED BY <3>1 DEF QueueInv
  <2>2. ASSUME NEW k \in Queued', queue'[k].op = "stop"
        PROVE  shutdown /\ \A m \in Queued' : m > k => queue'[m].op = "exit"
    <3>1. k \in Nat /\ k + 1 \in Queued /\ queue[k + 1].op = "stop"
      BY <1>a, <2>2
    <3>2. shutdown /\ \A m \in Queued : m > k + 1 => queue[m].op = "exit"
      BY <3>1 DEF QueueInv
    <3>3. ASSUME NEW m \in Queued', m > k PROVE queue'[m].op = "exit"
      <4>1. m \in Nat /\ m + 1 \in Queued /\ queue'[m] = queue[m + 1]
        BY <1>a
      <4>2. m + 1 > k + 1
        BY <3>1, <3>3, <4>1
      <4> QED BY <3>2, <4>1, <4>2
    <3> QED BY <3>2, <3>3
  <2>3. ASSUME shutdown PROVE \E k \in Queued' : queue'[k].op = "stop"
    <3>1. PICK k \in Queued : queue[k].op = "stop"
      BY <2>3 DEF QueueInv
    <3> QED BY <1>1, <1>b, <3>1
  <2> QED BY <1>4, <2>1, <2>2, <2>3 DEF QueueInv
<1>7. BootInv'
  <2>1. ASSUME NEW k \in Queued', queue'[k].by = "boot"
        PROVE  /\ app.stage = "booting" /\ queue'[k].op = "start" /\ j.by # "boot"
               /\ \A m \in Queued' : queue'[m].by = "boot" => m = k
    BY <1>1, <1>a, <2>1, LaterBoot
  <2>2. app.stage = "booting" => j.by = "boot" \/ \E k \in Queued' : queue'[k].by = "boot"
    <3>1. app.stage = "booting" => \E k \in Queued : queue[k].by = "boot"
      BY <1>4, <1>5 DEF BootInv
    <3> QED BY <1>1, <1>b, <3>1
  <2>5. j.by = "boot" => app.stage = "booting"
    BY <1>1 DEF BootInv
  <2>3. woken'["boot"] # "no" <=> j.by = "boot"
    BY <1>4, <1>5 DEF Awaits
  <2>4. app.quit = "stopping" => shutdown
    BY <1>4, <1>5 DEF BootInv
  <2> QED BY <1>4, <2>1, <2>2, <2>3, <2>4, <2>5 DEF BootInv
<1>8. woken'["migration"] # "no" <=> j.by = "migration"
  BY <1>4, <1>5 DEF Awaits
<1>9. ASSUME NEW k \in Queued', queue'[k].by = "migration"
      PROVE  k + 1 \in Queued /\ queue[k + 1].by = "migration" /\ j.by # "migration"
  <2>1. k + 1 \in Queued /\ queue[k + 1].by = "migration" /\ k + 1 # 1
    BY <1>a, <1>9
  <2> QED BY <1>1, <2>1 DEF MoveInv
<1>10. MoveInv'
  <2>1. j.by = "migration" => migration.pc \in Moves
    BY <1>1 DEF MoveInv
  <2>2. migration.pc \in Moves /\ j.by # "migration" => \E k \in Queued' : queue'[k].by = "migration"
    <3> SUFFICES ASSUME migration.pc \in Moves, j.by # "migration"
                 PROVE  \E k \in Queued' : queue'[k].by = "migration"
      OBVIOUS
    <3>1. PICK k \in Queued : queue[k].by = "migration"
      BY <1>4, <1>5 DEF MoveInv
    <3> QED BY <1>1, <1>b, <3>1
  <2>3. ASSUME NEW k \in Queued', NEW m \in Queued', queue'[k].by = "migration",
               queue'[m].by = "migration"
        PROVE  m = k
    <3>1. /\ k \in Nat /\ k + 1 \in Queued /\ queue[k + 1].by = "migration"
          /\ m \in Nat /\ m + 1 \in Queued /\ queue[m + 1].by = "migration"
      BY <1>a, <2>3
    <3>2. m + 1 = k + 1
      BY <3>1 DEF MoveInv
    <3> QED BY <3>1, <3>2
  <2>4. \A k \in Queued' : queue'[k].by = "migration" => migration.pc \in Moves /\ j.by # "migration"
    BY <1>9 DEF MoveInv
  <2>5. migration.pc = "stopping" => shutdown
    BY <1>4, <1>5 DEF MoveInv
  <2> QED BY <1>4, <1>8, <2>1, <2>2, <2>3, <2>4, <2>5 DEF MoveInv, Moves
<1>11. SwitchInv'
  <2> SUFFICES ASSUME migration.pc = "switching" PROVE SwitchInv'
    BY DEF SwitchInv
  <2>1. ASSUME NEW k \in Queued', queue'[k].by = "migration"
        PROVE  /\ queue'[k].op = "switch" /\ launcher'.lkg = migration.source
               /\ queue'[k].home = migration.target
               /\ \A m \in Queued' : m < k => queue'[m].op = "exit"
    <3>1. k \in Nat /\ k + 1 \in Queued /\ queue'[k] = queue[k + 1] /\ queue[k + 1].by = "migration"
      BY <1>a, <2>1
    <3>2. /\ queue[k + 1].op = "switch" /\ launcher.lkg = migration.source
          /\ queue[k + 1].home = migration.target
          /\ \A m \in Queued : m < k + 1 => queue[m].op = "exit"
      BY <3>1 DEF SwitchInv
    <3>3. ASSUME NEW m \in Queued', m < k PROVE queue'[m].op = "exit"
      <4>1. m \in Nat /\ m + 1 \in Queued /\ queue'[m] = queue[m + 1]
        BY <1>a
      <4>2. m + 1 < k + 1
        BY <3>1, <3>3, <4>1
      <4> QED BY <3>2, <4>1, <4>2
    <3> QED BY <3>1, <3>2, <3>3
  <2>2. launcher.active = migration.source
    BY <1>4, <1>5 DEF SwitchInv
  <2>3. files[migration.target] \subseteq files[migration.source]
    BY DEF SwitchInv
  <2> QED BY <1>4, <2>1, <2>2, <2>3 DEF SwitchInv
<1> QED BY <1>4, <1>6, <1>7, <1>10, <1>11 DEF Flow, JobInv

\* A notice of an exit, a command of the user, or the application's start joins the queue.
LEMMA FlowJoins ==
  ASSUME IInv, NEW e \in Operation, queue' = Append(queue, e),
         \/ e.op = "exit" /\ e.by = "none"
         \/ /\ e.op \in {"switch", "restart"} /\ e.by = "user" /\ ~shutdown
            /\ e.op = "switch" => e.home \in Home
            /\ woken = Asleep /\ migration.pc # "copying"
         \/ /\ e.op = "start" /\ e.by = "boot" /\ ~shutdown
            /\ app.stage = "opening" /\ app'.stage = "booting"
            /\ woken = Asleep /\ migration.pc # "copying",
         e.by # "boot" => app'.stage = app.stage, app'.quit = app.quit,
         UNCHANGED <<job, shutdown, woken, migration, launcher, files>>
  PROVE  Flow' /\ (job # NoJob /\ job.op = "stop" => NoWork')
<1> USE DEF IInv
<1> DEFINE n == Len(queue) + 1
<1>1. /\ n \in Queued' /\ queue'[n] = e
      /\ \A k \in Queued : k \in Queued' /\ queue'[k] = queue[k] /\ k < n
      /\ \A k \in Queued' : k \in Queued \/ k = n
      /\ queue' # <<>> /\ (queue # <<>> => queue'[1] = queue[1])
  BY Joined
<1>2. n \in Nat /\ \A k \in Queued : k \in Nat /\ ~(k > n) /\ ~(n < k)
  BY Waiting DEF Queued
<1> HIDE DEF n
<1>3. "boot" \in Party /\ "quit" \in Party /\ "migration" \in Party
  BY DEF Party
<1>4. e.by # "migration" /\ e.op # "stop"
  OBVIOUS
<1>5. NoWork => NoWork' \/ (woken = Asleep /\ ~shutdown /\ migration.pc # "copying")
  BY <1>1 DEF NoWork
<1>6. job # NoJob /\ job.op = "stop" => NoWork'
  BY <1>5 DEF JobInv
<1>7. QueueInv'
  <2>1. ASSUME NEW k \in Queued'
        PROVE  /\ queue'[k].op = "switch" => queue'[k].home \in Home
               /\ queue'[k].op = "stop" => queue'[k].by = "all"
               /\ queue'[k].op = "exit" => queue'[k].by = "none"
    <3>1. CASE k \in Queued
      BY <1>1, <3>1 DEF QueueInv
    <3>2. CASE k = n
      BY <1>1, <3>2
    <3> QED BY <1>1, <3>1, <3>2
  <2>2. ASSUME NEW k \in Queued', queue'[k].op = "stop"
        PROVE  shutdown /\ \A m \in Queued' : m > k => queue'[m].op = "exit"
    <3>1. k \in Queued /\ queue[k].op = "stop"
      BY <1>1, <1>4, <2>2
    <3>2. shutdown /\ e.op = "exit"
      BY <3>1 DEF QueueInv
    <3> QED BY <1>1, <3>1, <3>2 DEF QueueInv
  <2>3. shutdown => (job # NoJob /\ job.op = "stop") \/ \E k \in Queued' : queue'[k].op = "stop"
    BY <1>1 DEF QueueInv
  <2> QED BY <2>1, <2>2, <2>3 DEF QueueInv
<1>8. BootInv'
  <2>1. CASE e.by = "boot"
    <3>1. /\ app.stage # "booting" /\ app'.stage = "booting" /\ e.op = "start" /\ woken["boot"] = "no"
          /\ \A k \in Queued : queue[k].by # "boot"
      BY <1>3, <2>1, AsleepIs DEF BootInv
    <3>2. \A k \in Queued' : queue'[k].by = "boot" => k = n
      BY <1>1, <3>1
    <3> QED BY <1>1, <2>1, <3>1, <3>2 DEF BootInv
  <2>2. CASE e.by # "boot"
    <3>1. \A k \in Queued' : queue'[k].by = "boot" => k \in Queued /\ queue[k].by = "boot"
      BY <1>1, <2>2
    <3>2. (\E k \in Queued : queue[k].by = "boot") => \E k \in Queued' : queue'[k].by = "boot"
      BY <1>1
    <3>3. \A k \in Queued' : queue'[k].by = "boot" => \A m \in Queued' : queue'[m].by = "boot" => m = k
      BY <3>1 DEF BootInv
    <3>4. ASSUME NEW k \in Queued', queue'[k].by = "boot"
          PROVE  /\ app.stage = "booting" /\ woken["boot"] = "no" /\ queue'[k].op = "start"
                 /\ job # NoJob => job.by # "boot"
      <4>1. k \in Queued /\ queue'[k] = queue[k] /\ queue[k].by = "boot"
        BY <1>1, <3>1, <3>4
      <4> QED BY <4>1 DEF BootInv
    <3> QED BY <2>2, <3>2, <3>3, <3>4 DEF BootInv
  <2> QED BY <2>1, <2>2
<1>9. \A k \in Queued' : queue'[k].by = "migration" => k \in Queued /\ queue[k].by = "migration"
  BY <1>1, <1>4
<1>10. MoveInv'
  <2>1. migration.pc = "copying" \/ (migration.pc = "stopping" /\ woken["migration"] # "no") => NoWork'
    BY <1>3, <1>5, AsleepIs DEF MoveInv
  <2>2. (\E k \in Queued : queue[k].by = "migration") => \E k \in Queued' : queue'[k].by = "migration"
    BY <1>1
  <2>3. migration.pc = "copying" \/ (migration.pc = "stopping" /\ woken["migration"] # "no") =>
          app'.stage # "booting"
    BY <1>3, AsleepIs DEF MoveInv
  <2> QED BY <1>9, <2>1, <2>2, <2>3 DEF MoveInv
<1>11. SwitchInv'
  <2>1. ASSUME NEW k \in Queued', queue'[k].by = "migration", NEW m \in Queued', m < k
        PROVE  m \in Queued
    BY <1>1, <1>2, <1>9, <2>1
  <2>2. ASSUME migration.pc = "switching", NEW k \in Queued', queue'[k].by = "migration"
        PROVE  /\ queue'[k].op = "switch" /\ job = NoJob /\ launcher.lkg = migration.source
               /\ queue'[k].home = migration.target
               /\ \A m \in Queued' : m < k => queue'[m].op = "exit"
    <3>1. k \in Queued /\ queue'[k] = queue[k] /\ queue[k].by = "migration"
      BY <1>1, <1>9, <2>2
    <3>2. ASSUME NEW m \in Queued', m < k PROVE queue'[m].op = "exit"
      <4>1. m \in Queued /\ queue'[m] = queue[m]
        BY <1>1, <2>1, <2>2, <3>2
      <4> QED BY <2>2, <3>1, <3>2, <4>1 DEF SwitchInv
    <3> QED BY <2>2, <3>1, <3>2 DEF SwitchInv
  <2> QED BY <2>2 DEF SwitchInv
<1> QED BY <1>6, <1>7, <1>8, <1>10, <1>11 DEF Flow

\* A caller hears of its operation: the startup, a quit, or a migration that goes on.
LEMMA FlowHears ==
  ASSUME IInv, woken # Asleep, NEW p \in Party, woken[p] # "no",
         woken' = [woken EXCEPT ![p] = "no"],
         p = "boot" => app'.stage = "up",
         p # "boot" => app'.stage = app.stage,
         p = "quit" => app'.quit # "stopping",
         p # "quit" => app'.quit = app.quit,
         p = "migration" =>
           \/ migration' = NoMigration
           \/ /\ migration.pc = "stopping" /\ launcher.active = migration.source
              /\ migration' = [migration EXCEPT !.pc = "copying"],
         p # "migration" => UNCHANGED migration,
         UNCHANGED <<queue, job, shutdown, launcher>>,
         migration'.pc = "switching" => files' = files
  PROVE  Flow' /\ JobInv'
<1> USE DEF IInv
<1>1. job = NoJob
  BY DEF JobInv
<1>2. \A q \in Party : woken'[q] = IF q = p THEN "no" ELSE woken[q]
  BY DEF TypeOK
<1>3. "boot" \in Party /\ "quit" \in Party /\ "migration" \in Party
  BY DEF Party
<1>4. QueueInv'
  BY <1>1 DEF QueueInv, Queued
<1>5. BootInv'
  <2>1. app.stage = "booting" /\ woken["boot"] # "no" => \A k \in Queued : queue[k].by # "boot"
    BY DEF BootInv
  <2>3. CASE p = "boot"
    BY <1>1, <1>2, <1>3, <2>1, <2>3 DEF BootInv, Queued
  <2>4. CASE p # "boot"
    BY <1>1, <1>2, <1>3, <2>4 DEF BootInv, Queued
  <2> QED BY <2>3, <2>4
<1>6. MoveInv'
  <2>1. CASE p # "migration"
    <3>1. app'.stage = "booting" => app.stage = "booting"
      OBVIOUS
    <3> QED BY <1>1, <1>2, <1>3, <2>1, <3>1 DEF MoveInv, Queued, NoWork
  <2>2. CASE p = "migration"
    <3>1. \A k \in Queued : queue[k].by # "migration"
      BY <2>2 DEF MoveInv
    <3>2. CASE migration' = NoMigration
      BY <1>1, <1>2, <1>3, <2>2, <3>1, <3>2 DEF MoveInv, NoMigration, Queued, NoWork, Moves
    <3>3. CASE migration' # NoMigration
      <4>1. /\ migration'.pc = "copying" /\ migration'.source = migration.source
            /\ migration'.target = migration.target
        BY <2>2, <3>3 DEF TypeOK
      <4> QED BY <1>1, <1>2, <1>3, <2>2, <3>1, <3>3, <4>1 DEF MoveInv, Queued, NoWork, Moves
    <3> QED BY <3>2, <3>3
  <2> QED BY <2>1, <2>2
<1>7. SwitchInv'
  <2>1. CASE p # "migration"
    BY <1>1, <1>2, <1>3, <2>1 DEF SwitchInv, Queued
  <2>2. CASE p = "migration"
    <3>1. migration'.pc # "switching"
      BY <2>2 DEF TypeOK, NoMigration
    <3> QED BY <3>1 DEF SwitchInv
  <2> QED BY <2>1, <2>2
<1> QED BY <1>1, <1>4, <1>5, <1>6, <1>7 DEF Flow, JobInv

\* A migration queues its switch, or the restart that follows its failure.
LEMMA FlowQueues ==
  ASSUME IInv, job = NoJob, ~shutdown, migration.pc # "none",
         \A k \in Queued : queue[k].by # "migration",
         NEW e \in Operation, queue' = Append(queue, e), e.by = "migration",
         e.op \in {"start", "switch"},
         migration'.source = migration.source, migration'.target = migration.target,
         e.op = "start" => migration'.pc = "restoring",
         e.op = "switch" =>
           /\ migration'.pc = "switching" /\ e.home = migration.target
           /\ launcher.active = migration.source /\ launcher'.lkg = migration.source /\ NoWork
           /\ files'[migration.target] \subseteq files'[migration.source],
         launcher'.active = launcher.active,
         woken'["migration"] = "no", \A p \in {"boot", "quit"} : woken'[p] = woken[p],
         UNCHANGED <<job, shutdown, app>>
  PROVE  Flow' /\ JobInv'
<1> USE DEF IInv
<1> DEFINE n == Len(queue) + 1
<1>1. /\ n \in Queued' /\ queue'[n] = e
      /\ \A k \in Queued : k \in Queued' /\ queue'[k] = queue[k] /\ k < n
      /\ \A k \in Queued' : k \in Queued \/ k = n
      /\ queue' # <<>> /\ (queue # <<>> => queue'[1] = queue[1])
  BY Joined
<1>2. n \in Nat /\ \A k \in Queued : k \in Nat /\ ~(k > n) /\ ~(n < k)
  BY Waiting DEF Queued
<1> HIDE DEF n
<1>3. {migration.source, migration.target} \subseteq Managed /\ migration.source # migration.target
      /\ Managed \subseteq Home
  BY DEF MoveInv, Home
<1>4. \A k \in Queued : queue[k].op # "stop"
  BY DEF QueueInv
<1>5. QueueInv'
  <2>1. ASSUME NEW k \in Queued'
        PROVE  /\ queue'[k].op = "switch" => queue'[k].home \in Home
               /\ queue'[k].op # "stop"
               /\ queue'[k].op = "exit" => queue'[k].by = "none"
    <3>1. CASE k \in Queued
      BY <1>1, <1>4, <3>1 DEF QueueInv
    <3>2. CASE k = n
      BY <1>1, <1>3, <3>2
    <3> QED BY <1>1, <3>1, <3>2
  <2> QED BY <2>1 DEF QueueInv
<1>6. BootInv'
  <2>1. \A k \in Queued' : queue'[k].by = "boot" => k \in Queued /\ queue[k].by = "boot"
    BY <1>1
  <2>2. (\E k \in Queued : queue[k].by = "boot") => \E k \in Queued' : queue'[k].by = "boot"
    BY <1>1
  <2>3. \A k \in Queued' : queue'[k].by = "boot" => \A m \in Queued' : queue'[m].by = "boot" => m = k
    BY <2>1 DEF BootInv
  <2>4. ASSUME NEW k \in Queued', queue'[k].by = "boot"
        PROVE  app.stage = "booting" /\ woken["boot"] = "no" /\ queue'[k].op = "start"
    <3>1. k \in Queued /\ queue'[k] = queue[k] /\ queue[k].by = "boot"
      BY <1>1, <2>1, <2>4
    <3> QED BY <3>1 DEF BootInv
  <2> QED BY <2>2, <2>3, <2>4 DEF BootInv
<1>7. \A k \in Queued' : queue'[k].by = "migration" <=> k = n
  BY <1>1, <1>2
<1>8. migration'.pc \in Moves
  BY DEF Moves
<1>9. MoveInv'
  BY <1>1, <1>3, <1>7, <1>8 DEF MoveInv, Moves
<1>10. SwitchInv'
  <2> SUFFICES ASSUME migration'.pc = "switching" PROVE SwitchInv'
    BY DEF SwitchInv
  <2>1. e.op = "switch"
    OBVIOUS
  <2>2. \A m \in Queued' : m < n => queue'[m].op = "exit"
    <3> SUFFICES ASSUME NEW m \in Queued', m < n PROVE queue'[m].op = "exit"
      OBVIOUS
    <3>1. m # n
      BY <1>2
    <3>2. m \in Queued /\ queue'[m] = queue[m]
      BY <1>1, <3>1, Zenon
    <3> QED BY <2>1, <3>2 DEF NoWork
  <2>3. /\ queue'[n] = e /\ launcher'.lkg = migration'.source /\ e.home = migration'.target
        /\ files'[migration'.target] \subseteq files'[migration'.source]
        /\ launcher'.active = migration'.source /\ job' = NoJob
    BY <1>1, <2>1
  <2> HIDE DEF IInv
  <2>4. ASSUME NEW k \in Queued', queue'[k].by = "migration"
        PROVE  /\ queue'[k].op = "switch" /\ job' = NoJob /\ launcher'.lkg = migration'.source
               /\ queue'[k].home = migration'.target
               /\ \A m \in Queued' : m < k => queue'[m].op = "exit"
    <3>1. k = n
      BY <1>7, <2>4
    <3> QED BY <2>1, <2>2, <2>3, <3>1
  <2> QED BY <2>3, <2>4 DEF SwitchInv
<1> QED BY <1>5, <1>6, <1>9, <1>10 DEF Flow, JobInv

\* A stop is requested: by a quit, or by a migration that begins.
LEMMA FlowStops ==
  ASSUME IInv, woken = Asleep, CallStop, app'.stage = app.stage,
         \/ UNCHANGED migration
         \/ /\ migration.pc = "none" /\ migration'.pc = "stopping"
            /\ {migration'.source, migration'.target} \subseteq Managed
            /\ migration'.source # migration'.target,
         migration.pc # "copying",
         UNCHANGED <<launcher, job, woken, files>>
  PROVE  Flow' /\ shutdown' /\ (job # NoJob /\ job.op = "stop" => NoWork')
<1> USE DEF IInv
<1>1. \A p \in Party : woken[p] = "no"
  BY AsleepIs
<1>2. "boot" \in Party /\ "quit" \in Party /\ "migration" \in Party
  BY DEF Party
<1>3. migration'.pc = "switching" => migration' = migration
  OBVIOUS
<1>4. CASE shutdown
  <2>1. shutdown' = shutdown /\ queue' = queue
    BY <1>4 DEF CallStop
  <2>2. QueueInv' /\ BootInv' /\ (job # NoJob /\ job.op = "stop" => NoWork')
    BY <1>1, <1>2, <1>4, <2>1 DEF QueueInv, BootInv, JobInv, Queued, NoWork
  <2>3. \A k \in Queued : queue[k].by = "migration" => migration' = migration
    BY DEF MoveInv, Moves
  <2>4. MoveInv'
    <3>1. CASE migration' = migration
      BY <1>1, <1>2, <1>4, <2>1, <3>1 DEF MoveInv, Queued, NoWork
    <3>2. CASE migration.pc = "none"
      BY <1>1, <1>2, <1>4, <2>1, <3>2 DEF MoveInv, Queued, NoWork, Moves
    <3> QED BY <3>1, <3>2
  <2>5. SwitchInv'
    BY <1>3, <2>1 DEF SwitchInv, Queued
  <2> QED BY <1>4, <2>1, <2>2, <2>4, <2>5 DEF Flow
<1>5. CASE ~shutdown
  <2> DEFINE e == Op("stop", "all", None)
  <2> DEFINE n == Len(queue) + 1
  <2>1. e \in Operation /\ e.op = "stop" /\ e.by = "all"
    BY NewOp DEF Kinds, Homes
  <2>2. shutdown' = TRUE /\ queue' = Append(queue, e)
    BY <1>5 DEF CallStop
  <2> HIDE DEF e
  <2>3. /\ n \in Queued' /\ queue'[n] = e
        /\ \A k \in Queued : k \in Queued' /\ queue'[k] = queue[k] /\ k < n
        /\ \A k \in Queued' : k \in Queued \/ k = n
        /\ queue' # <<>> /\ (queue # <<>> => queue'[1] = queue[1])
    BY <2>1, <2>2, Joined
  <2>4. n \in Nat /\ \A k \in Queued : k \in Nat /\ ~(k > n)
    BY Waiting DEF Queued
  <2> HIDE DEF n
  <2>5. job # NoJob => job.op # "stop"
    BY <1>5 DEF JobInv
  <2>6. QueueInv'
    <3>1. \A k \in Queued : queue[k].op # "stop"
      BY <1>5 DEF QueueInv
    <3>2. ASSUME NEW k \in Queued'
          PROVE  /\ queue'[k].op = "switch" => queue'[k].home \in Home
                 /\ queue'[k].op = "stop" => queue'[k].by = "all" /\ k = n
                 /\ queue'[k].op = "exit" => queue'[k].by = "none"
      <4>1. CASE k \in Queued
        BY <2>3, <3>1, <4>1 DEF QueueInv
      <4>2. CASE k = n
        BY <2>1, <2>3, <4>2
      <4> QED BY <2>3, <4>1, <4>2
    <3>3. \A m \in Queued' : ~(m > n)
      BY <2>3, <2>4
    <3> HIDE DEF IInv
    <3>4. shutdown' /\ n \in Queued' /\ queue'[n].op = "stop"
      BY <2>1, <2>2, <2>3
    <3>5. ASSUME NEW k \in Queued', queue'[k].op = "stop"
          PROVE  shutdown' /\ \A m \in Queued' : m > k => queue'[m].op = "exit"
      BY <3>2, <3>3, <3>4, <3>5
    <3>6. \A k \in Queued' : /\ queue'[k].op = "switch" => queue'[k].home \in Home
                             /\ queue'[k].op = "stop" => queue'[k].by = "all"
                             /\ queue'[k].op = "exit" => queue'[k].by = "none"
      BY <3>2
    <3>7. \E k \in Queued' : queue'[k].op = "stop"
      BY <3>4
    <3> QED BY <3>5, <3>6, <3>7 DEF QueueInv
  <2>7. \A k \in Queued' : queue'[k].by \in {"boot", "migration"} => k \in Queued /\ queue'[k] = queue[k]
    BY <2>1, <2>3
  <2>8. BootInv'
    <3>1. (\E k \in Queued : queue[k].by = "boot") => \E k \in Queued' : queue'[k].by = "boot"
      BY <2>3
    <3>2. \A k \in Queued' : queue'[k].by = "boot" =>
            /\ app.stage = "booting" /\ queue'[k].op = "start" /\ (job # NoJob => job.by # "boot")
            /\ \A m \in Queued' : queue'[m].by = "boot" => m = k
      BY <2>7 DEF BootInv
    <3> QED BY <1>1, <1>2, <2>2, <3>1, <3>2 DEF BootInv
  <2>9. MoveInv'
    <3>1. (\E k \in Queued : queue[k].by = "migration") => \E k \in Queued' : queue'[k].by = "migration"
      BY <2>3
    <3>2. CASE migration' = migration
      <4>1. migration'.pc # "copying" /\ woken'["migration"] = "no"
        BY <1>1, <1>2, <3>2
      <4>2. \A k \in Queued' : queue'[k].by = "migration" =>
              /\ migration.pc \in Moves /\ woken["migration"] = "no"
              /\ job # NoJob => job.by # "migration"
              /\ \A m \in Queued' : queue'[m].by = "migration" => m = k
        BY <2>7 DEF MoveInv
      <4> QED BY <2>2, <3>1, <3>2, <4>1, <4>2 DEF MoveInv
    <3>3. CASE migration.pc = "none" /\ migration'.pc = "stopping"
      <4>1. (\A k \in Queued : queue[k].by # "migration") /\ (job # NoJob => job.by # "migration")
        BY <3>3 DEF MoveInv, Moves
      <4> QED BY <1>1, <1>2, <2>2, <2>7, <3>3, <4>1 DEF MoveInv, Moves
    <3> QED BY <3>2, <3>3
  <2>10. SwitchInv'
    <3> SUFFICES ASSUME migration'.pc = "switching" PROVE SwitchInv'
      BY DEF SwitchInv
    <3>1. ASSUME NEW k \in Queued', queue'[k].by = "migration", NEW m \in Queued', m < k
          PROVE  m \in Queued
      BY <2>3, <2>4, <2>7, <3>1
    <3>2. ASSUME NEW k \in Queued', queue'[k].by = "migration"
          PROVE  /\ queue'[k].op = "switch" /\ job = NoJob /\ launcher.lkg = migration.source
                 /\ queue'[k].home = migration.target
                 /\ \A m \in Queued' : m < k => queue'[m].op = "exit"
      <4>1. k \in Queued /\ queue'[k] = queue[k] /\ queue[k].by = "migration"
        BY <2>7, <3>2
      <4>2. ASSUME NEW m \in Queued', m < k PROVE queue'[m].op = "exit"
        <5>1. m \in Queued /\ queue'[m] = queue[m]
          BY <2>3, <3>1, <3>2, <4>2
        <5> QED BY <1>3, <4>1, <4>2, <5>1 DEF SwitchInv
      <4> QED BY <1>3, <4>1, <4>2 DEF SwitchInv
    <3> QED BY <1>3, <3>2 DEF SwitchInv
  <2> QED BY <2>2, <2>5, <2>6, <2>8, <2>9, <2>10 DEF Flow
<1> QED BY <1>4, <1>5 DEF TypeOK
----------------------------------------------------------------------------
(* What the operation under way does to the rest.                          *)

\* The types of what an operation changes besides the queue and the disk.
MachineTypes ==
  /\ launcher \in Launchers
  /\ status \in [phase : {"idle", "starting", "switching", "recovering", "stopping", "running", "failed"},
                 home : Homes]
  /\ calls \in [Callees -> Proc \cup {"none", "done", "failed"}]
  /\ child \in Proc \cup {None} /\ stopped \in BOOLEAN /\ settled \in BOOLEAN
  /\ proc \in [Proc -> Process]

LEMMA Machine == TypeOK => MachineTypes
  BY DEF TypeOK, MachineTypes, Launchers, Callees, Process

LEMMA ProcIsNot ==
  ASSUME NEW p \in Proc
  PROVE  p # None /\ p \notin {"none", "done", "failed"}
  BY HostAssumption DEF Home

\* Nothing is stored, moved or erased, and no start of the application begins.
LEMMA DiskSame ==
  ASSUME IInv, UNCHANGED <<files, manifest, written>>, here \subseteq here', app'.run = app.run,
         app'.stage \in {"opening", "booting"} => app.stage \in {"opening", "booting"}
  PROVE  DiskInv'
<1>1. DataNeverLost'
  BY DEF IInv, DiskInv, DataNeverLost
<1>2. \A h \in Home : h \notin here' => files'[h] = {}
  BY DEF IInv, DiskInv
<1>3. ASSUME NEW h \in Home, manifest[h] # None
      PROVE  /\ manifest[h].source # h
             /\ manifest[h].items \subseteq files[h]
             /\ manifest[h].run <= app'.run
             /\ app'.stage \in {"opening", "booting"} => manifest[h].run < app'.run \/ manifest[h].early
             /\ manifest[h].verification # "awaiting-restart" =>
                  manifest[h].checked > manifest[h].run \/ manifest[h].early
  BY <1>3 DEF IInv, DiskInv
<1> QED BY <1>1, <1>2, <1>3 DEF DiskInv

LEMMA StopCalled ==
  ASSUME IInv, NEW w \in Callees, calls[w] = "none", StopCall(w), UNCHANGED proc
  PROVE  /\ calls' \in [Callees -> Proc \cup {"none", "done", "failed"}]
         /\ child' \in Proc \cup {None} /\ stopped' \in BOOLEAN
         /\ calls'[w] \in Proc \cup {"done"}
         /\ calls'[w] \in Proc => calls'[w] = child'
         /\ \A v \in Callees : v # w => calls'[v] = calls[v]
         /\ \A v \in Callees : calls'[v] \in Proc => Live(calls[v])'
         /\ stopped' => \E v \in Callees : calls'[v] \in Proc
         /\ Live(child)' => child' = child /\ Live(child)
         /\ Live(child) => calls'[w] = child /\ child' = child
<1>1. MachineTypes
  BY Machine DEF IInv
<1>2. /\ \A v \in Callees : calls[v] \in Proc => Live(calls[v])
      /\ stopped => \E v \in Callees : calls[v] \in Proc
  BY DEF IInv, CallInv, Callees
<1>3. CASE Live(child)
  <2>1. /\ calls' = [calls EXCEPT ![w] = child] /\ stopped' = TRUE /\ child' = child
        /\ child \in Proc
    BY <1>1, <1>3 DEF StopCall, MachineTypes, Live
  <2>2. \A v \in Callees : calls'[v] = IF v = w THEN child ELSE calls[v]
    BY <1>1, <2>1 DEF MachineTypes
  <2>3. calls' \in [Callees -> Proc \cup {"none", "done", "failed"}]
    BY <1>1, <2>1 DEF MachineTypes
  <2>4. \A v \in Callees : calls'[v] \in Proc => Live(calls[v])'
    BY <1>2, <1>3, <2>2 DEF Live
  <2> QED BY <1>3, <2>1, <2>2, <2>3, <2>4 DEF Live
<1>4. CASE ~Live(child)
  <2>1. calls' = [calls EXCEPT ![w] = "done"] /\ child' = None
    BY <1>4 DEF StopCall
  <2>2. \A v \in Callees : calls'[v] = IF v = w THEN "done" ELSE calls[v]
    BY <1>1, <2>1 DEF MachineTypes
  <2>3. calls' \in [Callees -> Proc \cup {"none", "done", "failed"}]
    BY <1>1, <2>1 DEF MachineTypes
  <2>4. stopped' \in BOOLEAN /\ (stopped' => stopped)
    BY <1>1, <1>4 DEF StopCall, MachineTypes
  <2>5. "done" \notin Proc /\ "none" \notin Proc
    BY ProcIsNot
  <2>6. \A v \in Callees : calls'[v] \in Proc => Live(calls[v])'
    BY <1>2, <2>2, <2>5 DEF Live
  <2>7. stopped' => \E v \in Callees : calls'[v] \in Proc
    BY <1>2, <2>2, <2>4, <2>5
  <2> QED BY <1>4, <2>1, <2>2, <2>3, <2>4, <2>5, <2>6, <2>7 DEF Live
<1> QED BY <1>3, <1>4

\* No process ends or begins.
LEMMA Minds ==
  ASSUME IInv, UNCHANGED proc, Live(child) => child' = child,
         \A w \in Callees : calls[w] \in Proc => calls'[w] = calls[w],
         shutdown' = shutdown \/ (~shutdown' /\ calls'["job"] \notin Proc),
         calls'["job"] \in Proc => calls'["job"] \in {calls["job"], child'},
         At("ready") /\ Live(child) => shutdown \/ \E w \in Callees : calls'[w] = child,
         job' = NoJob \/ job'.pc \notin {"ready", "loading"}
  PROVE  MindInv'
<1>1. MachineTypes /\ None \notin Proc
  BY Machine, ProcIsNot DEF IInv
<1>2. \A p \in Proc : Live(p)' <=> Live(p)
  BY DEF Live
<1>3. \A p \in Proc : Minded(p) => Minded(p)'
  BY DEF Minded
<1>4. ASSUME NEW p \in Proc, Live(p), p # child' \/ shutdown' PROVE Minded(p)'
  <2>1. p # child \/ shutdown
    BY <1>4
  <2> QED BY <1>3, <1>4, <2>1 DEF IInv, MindInv
<1>5. ASSUME NEW p \in Proc, proc[p].state = "spawned" PROVE Minded(p)'
  <2>1. Live(p)
    BY <1>1, <1>5 DEF Live
  <2>2. CASE Minded(p)
    BY <1>3, <2>2
  <2>3. CASE At("ready") /\ p = child
    <3>1. shutdown => Minded(p)
      BY <2>1 DEF IInv, MindInv
    <3> QED BY <1>3, <2>1, <2>3, <3>1 DEF Minded
  <2> QED BY <1>5, <2>2, <2>3 DEF IInv, MindInv
<1>6. ASSUME calls'["job"] \in Proc, ~shutdown' PROVE child' = calls'["job"]
  <2>1. CASE calls'["job"] = calls["job"]
    <3>1. child = calls["job"] /\ Live(child)
      BY <1>6, <2>1 DEF IInv, MindInv, CallInv
    <3> QED BY <2>1, <3>1
  <2> QED BY <1>6, <2>1
<1> QED BY <1>2, <1>4, <1>5, <1>6 DEF MindInv

\* Nothing happens to the processes, their calls or the operation under way.
LEMMA MindSame ==
  ASSUME IInv, UNCHANGED <<proc, child, calls, shutdown, settled, job>>
  PROVE  MindInv'
  BY DEF IInv, MindInv, Minded, Live, At

\* The operation under way ends.
LEMMA Ends ==
  ASSUME IInv, job # NoJob, NEW j, j.op = job.op, j.by = job.by,
         NEW outcome \in {"ok", "failed"}, Finish(j, outcome),
         shutdown' = (shutdown /\ job.op # "stop"),
         MachineTypes', CallInv', StatusInv', RunInv', MindInv', UNCHANGED <<queue, disk, ui>>
  PROVE  IInv'
<1>1. Flow' /\ JobInv'
  BY FlowEnds DEF ui, disk
<1>2. DiskInv'
  BY DiskSame DEF ui, disk
<1>3. DownInv'
  BY DEF IInv, DownInv, ui
<1>4. TypeOK'
  <2>1. woken' \in [Party -> {"no", "ok", "failed"}]
    BY DEF IInv, TypeOK, Finish
  <2>2. job' = NoJob
    BY DEF Finish
  <2>3. shutdown' \in BOOLEAN
    OBVIOUS
  <2> QED BY <2>1, <2>2, <2>3 DEF IInv, TypeOK, MachineTypes, Launchers, Callees, Process, ui, disk
<1> QED BY <1>1, <1>2, <1>3, <1>4 DEF IInv, Flow

\* The operation under way goes on to another await.
LEMMA GoesOn ==
  ASSUME IInv, job # NoJob, job.op # "stop", job' \in Operation,
         job'.op = job.op, job'.by = job.by, job'.before = job.before, job'.home \in Home,
         job'.home \in {job.home, job.before.lkg}, job'.pc \in Working,
         job'.pc = "orphan" => shutdown,
         job'.pc \in {"ready", "loading"} /\ Live(child)' => proc'[child'].home = job'.home,
         launcher'.active = launcher.active,
         MachineTypes', CallInv', StatusInv', RunInv', MindInv',
         here \subseteq here', here' \subseteq Home,
         UNCHANGED <<queue, shutdown, woken, files, manifest, written, ui>>
  PROVE  IInv'
<1>1. job' # NoJob /\ job.pc \in Working
  BY NoJobIsNone DEF IInv, JobInv
<1>2. Flow'
  BY <1>1, FlowOn DEF ui
<1>3. DiskInv'
  BY DiskSame DEF ui
<1>4. DownInv'
  BY DEF IInv, DownInv, ui
<1>5. TypeOK'
  BY DEF IInv, TypeOK, MachineTypes, Launchers, Callees, Process, ui
<1>6. JobInv'
  BY <1>1 DEF IInv, JobInv, Working
<1> QED BY <1>2, <1>3, <1>4, <1>5, <1>6 DEF IInv, Flow

\* What is known of an operation that is not a stop.
LEMMA AtWork ==
  ASSUME IInv, job # NoJob, job.pc # "terminating"
  PROVE  /\ job \in Operation /\ job.op \in {"start", "switch", "restart"} /\ job.pc \in Working
         /\ job.home \in Home /\ job.before \in Launchers /\ job.before.active = launcher.active
         /\ woken = Asleep /\ here \subseteq Home
  BY DEF IInv, JobInv, TypeOK

LEMMA AtAwait ==
  ASSUME NEW j \in Operation, NEW pc \in Working
  PROVE  /\ [j EXCEPT !.pc = pc] \in Operation
         /\ [j EXCEPT !.pc = pc].op = j.op /\ [j EXCEPT !.pc = pc].by = j.by
         /\ [j EXCEPT !.pc = pc].home = j.home /\ [j EXCEPT !.pc = pc].before = j.before
         /\ [j EXCEPT !.pc = pc].pc = pc
  BY DEF Operation, Working

\* The operation under way goes on to the await pc, and keeps the rest.
LEMMA MovesOn ==
  ASSUME NEW pc \in Working, job \in Operation, job' = [job EXCEPT !.pc = pc]
  PROVE  /\ job' \in Operation /\ job'.op = job.op /\ job'.by = job.by /\ job'.home = job.home
         /\ job'.before = job.before /\ job'.pc = pc /\ job' # NoJob
<1>1. /\ [job EXCEPT !.pc = pc] \in Operation
      /\ [job EXCEPT !.pc = pc].op = job.op /\ [job EXCEPT !.pc = pc].by = job.by
      /\ [job EXCEPT !.pc = pc].home = job.home /\ [job EXCEPT !.pc = pc].before = job.before
      /\ [job EXCEPT !.pc = pc].pc = pc
  BY AtAwait
<1>2. job' # NoJob
  BY <1>1, NoJobIsNone
<1> QED BY <1>1, <1>2

LEMMA StepFailsKeeps ==
  ASSUME IInv, job # NoJob, job.pc \in {"spawning", "ready", "loading"}, StepFails
  PROVE  IInv'
<1>1. /\ job \in Operation /\ job.op \in {"start", "switch", "restart"} /\ job.pc \in Working
      /\ job.home \in Home /\ woken = Asleep /\ here \subseteq Home
  BY AtWork
<1>2. calls["job"] = "none" /\ "none" \notin Proc /\ MachineTypes
  BY ProcIsNot, Machine DEF IInv, CallInv, Awaiting
<1>3. status.phase # "running"
  BY DEF IInv, RunInv
<1>4. CASE shutdown
  <2>1. Finish(job, "ok") /\ UNCHANGED <<calls, child, stopped, launcher, status, shutdown, settled, proc>>
    BY <1>4 DEF StepFails
  <2>2. MachineTypes'
    BY <1>2, <2>1 DEF MachineTypes
  <2>3. CallInv'
    BY <1>2, <2>1 DEF IInv, CallInv, Finish, Live
  <2>4. StatusInv' /\ RunInv'
    BY <1>3, <1>4, <2>1 DEF StatusInv, RunInv
  <2>5. MindInv'
    BY <1>2, <1>4, <2>1, Minds DEF Finish
  <2> QED BY <1>1, <1>4, <2>1, <2>2, <2>3, <2>4, <2>5, Ends DEF StepFails
<1>5. CASE ~shutdown
  <2>1. /\ StopCall("job") /\ job' = [job EXCEPT !.pc = "cleaning"]
        /\ UNCHANGED <<launcher, status, shutdown, settled, proc, woken>>
    BY <1>5 DEF StepFails, StopFor
  <2>2. /\ calls' \in [Callees -> Proc \cup {"none", "done", "failed"}]
        /\ child' \in Proc \cup {None} /\ stopped' \in BOOLEAN
        /\ calls'["job"] \in Proc \cup {"done"}
        /\ calls'["stop"] = calls["stop"]
        /\ \A v \in Callees : calls'[v] \in Proc => Live(calls[v])'
        /\ stopped' => \E v \in Callees : calls'[v] \in Proc
        /\ calls'["job"] \in Proc => calls'["job"] = child'
        /\ Live(child) => calls'["job"] = child /\ child' = child
    BY <1>2, <2>1, StopCalled DEF Callees
  <2>3. MachineTypes'
    BY <1>2, <2>1, <2>2 DEF MachineTypes
  <2>4. /\ job' \in Operation /\ job'.op = job.op /\ job'.by = job.by /\ job'.home = job.home
        /\ job'.before = job.before /\ job'.pc = "cleaning" /\ job' # NoJob
    <3>1. "cleaning" \in Working
      BY DEF Working
    <3> QED BY <1>1, <2>1, <3>1, MovesOn
  <2>5. CallInv'
    BY <1>2, <2>1, <2>2, <2>4, Zenon DEF IInv, CallInv, Callees, Awaiting
  <2>6. StatusInv' /\ RunInv'
    BY <1>3, <2>1, <2>4 DEF IInv, StatusInv, RunInv, Booting
  <2>7. here' \subseteq Home /\ here \subseteq here' /\ UNCHANGED <<queue, files, manifest, written, ui>>
    BY <1>1 DEF StepFails, disk
  <2>8. job'.pc \in Working /\ job'.pc \notin {"orphan", "ready", "loading"}
    BY <2>4 DEF Working
  <2>9. MindInv'
    BY <1>2, <2>1, <2>2, <2>8, Minds DEF Callees
  <2> QED BY <1>1, <2>1, <2>3, <2>4, <2>5, <2>6, <2>7, <2>8, <2>9, GoesOn
<1> QED BY <1>4, <1>5 DEF IInv, TypeOK

LEMMA SpawnedKeeps == IInv /\ Spawned => IInv'
<1> SUFFICES ASSUME IInv, Spawned PROVE IInv'
  OBVIOUS
<1>1. job # NoJob /\ job.pc = "spawning"
  BY DEF Spawned, Spawn, At
<1>2. /\ job \in Operation /\ job.op \in {"start", "switch", "restart"} /\ job.pc \in Working
      /\ job.home \in Home /\ woken = Asleep /\ here \subseteq Home
  BY <1>1, AtWork
<1>3. calls["job"] = "none" /\ "none" \notin Proc /\ MachineTypes
  BY <1>1, ProcIsNot, Machine DEF IInv, CallInv, Awaiting
<1>4. status.phase # "running"
  BY <1>1 DEF IInv, RunInv
<1>5. Fresh \in Proc /\ ~Live(Fresh)
  BY DEF Spawned, Spawn, Fresh
<1>6. /\ proc' = [proc EXCEPT ![Fresh] = [state |-> "spawned", home |-> job.home, fate |-> "none"]]
      /\ here' = here \cup {job.home} /\ child' = Fresh /\ settled' = FALSE
      /\ UNCHANGED <<launcher, status, queue, shutdown, woken, files, manifest, written, ui>>
  BY DEF Spawned, Spawn
<1> DEFINE f == Fresh
<1> HIDE DEF f
<1>7. /\ f \in Proc /\ ~Live(f) /\ child' = f
      /\ proc' = [proc EXCEPT ![f] = [state |-> "spawned", home |-> job.home, fate |-> "none"]]
  BY <1>5, <1>6 DEF f
<1>8. /\ \A p \in Proc : p # f => proc'[p] = proc[p]
      /\ proc'[f] = [state |-> "spawned", home |-> job.home, fate |-> "none"]
      /\ proc' \in [Proc -> Process]
  BY <1>2, <1>3, <1>7 DEF MachineTypes, Homes, Process
<1>9. \A v \in Callees : calls[v] \in Proc => calls[v] # f /\ calls[v] # None /\ proc'[calls[v]].state # "dead"
  BY <1>7, <1>8 DEF IInv, CallInv, Callees, Live
<1>10. f # None
  BY <1>7, ProcIsNot
<1>11. here' \subseteq Home /\ here \subseteq here'
  BY <1>2, <1>6
<1>14. \A p \in Proc : p # f /\ Live(p)' =>
         proc'[p].fate = "survived" \/ \E v \in Callees : calls[v] = p
  <2> SUFFICES ASSUME NEW p \in Proc, p # f, Live(p)' PROVE Minded(p)
    BY <1>8 DEF Minded
  <2>1. proc[p].state = "spawned"
    BY <1>3, <1>8 DEF Spawned, Spawn, Live, MachineTypes, Process
  <2> QED BY <1>1, <2>1 DEF IInv, MindInv, At
<1>15. \A p \in Proc : proc'[p].state = "spawned" => Live(p)'
  BY ProcIsNot DEF Live
<1>12. CASE shutdown
  <2>1. calls' = [calls EXCEPT !["job"] = f] /\ stopped' = TRUE /\ job' = [job EXCEPT !.pc = "orphan"]
    BY <1>12 DEF Spawned, Spawn, f
  <2>2. /\ job' \in Operation /\ job'.op = job.op /\ job'.by = job.by /\ job'.home = job.home
        /\ job'.before = job.before /\ job'.pc = "orphan" /\ job' # NoJob
    <3>1. "orphan" \in Working
      BY DEF Working
    <3> QED BY <1>2, <2>1, <3>1, MovesOn
  <2>3. calls'["job"] = f /\ calls'["stop"] = calls["stop"]
        /\ calls' \in [Callees -> Proc \cup {"none", "done", "failed"}]
    BY <1>3, <1>7, <2>1 DEF MachineTypes, Callees
  <2>4. MachineTypes'
    BY <1>3, <1>6, <1>7, <1>8, <2>1, <2>3 DEF MachineTypes
  <2>5. \A v \in Callees : calls'[v] \in Proc => Live(calls[v])'
    BY <1>8, <1>9, <1>10, <2>3 DEF Callees, Live
  <2>6. CallInv'
    <3>1. calls'["job"] # "none" /\ "orphan" \in Awaiting
      BY <1>3, <1>7, <2>3 DEF Awaiting
    <3>2. calls'["stop"] # "none" <=> shutdown'
      BY <1>6, <2>3 DEF IInv, CallInv
    <3> QED BY <1>7, <2>2, <2>3, <2>5, <3>1, <3>2 DEF CallInv, Callees
  <2>7. StatusInv' /\ RunInv'
    BY <1>4, <1>6, <1>12 DEF StatusInv, RunInv
  <2>8. job'.pc \in Working /\ job'.pc \notin {"ready", "loading"}
    BY <2>2 DEF Working
  <2>9. MindInv'
    <3>1. \A p \in Proc : Live(p)' => Minded(p)'
      BY <1>3, <1>14, <2>3, ProcIsNot DEF Minded, Callees
    <3> QED BY <1>6, <1>12, <1>15, <2>8, <3>1 DEF MindInv
  <2> QED BY <1>1, <1>2, <1>6, <1>11, <1>12, <2>2, <2>4, <2>6, <2>7, <2>8, <2>9, GoesOn
<1>13. CASE ~shutdown
  <2>1. job' = [job EXCEPT !.pc = "ready"] /\ UNCHANGED <<calls, stopped>>
    BY <1>13 DEF Spawned, Spawn
  <2>2. /\ job' \in Operation /\ job'.op = job.op /\ job'.by = job.by /\ job'.home = job.home
        /\ job'.before = job.before /\ job'.pc = "ready" /\ job' # NoJob
    <3>1. "ready" \in Working
      BY DEF Working
    <3> QED BY <1>2, <2>1, <3>1, MovesOn
  <2>3. MachineTypes'
    BY <1>3, <1>6, <1>7, <1>8, <2>1 DEF MachineTypes
  <2>4. \A v \in Callees : calls'[v] \in Proc => Live(calls[v])'
    BY <1>9, <2>1 DEF Live
  <2>5. CallInv'
    <3>1. calls'["job"] = "none" /\ "ready" \notin Awaiting
      BY <1>3, <2>1 DEF Awaiting
    <3>2. calls'["stop"] # "none" <=> shutdown'
      BY <1>6, <2>1 DEF IInv, CallInv
    <3>3. stopped' => \E v \in Callees : calls'[v] \in Proc
      BY <2>1 DEF IInv, CallInv, Callees
    <3> QED BY <2>2, <2>4, <3>1, <3>2, <3>3 DEF CallInv, Callees
  <2>6. StatusInv' /\ RunInv'
    BY <1>1, <1>4, <1>6, <2>2 DEF IInv, StatusInv, RunInv, Booting
  <2>7. job'.pc \in Working /\ job'.pc # "orphan"
    BY <2>2 DEF Working
  <2>8. proc'[child'].home = job'.home
    BY <1>7, <1>8, <2>2
  <2>9. MindInv'
    <3>1. \A p \in Proc : p # f /\ Live(p)' => Minded(p)'
      BY <1>14, <2>1 DEF Minded
    <3>2. At("ready")' /\ Live(child)' /\ child' # None
      BY <1>7, <1>8, <1>10, <2>2 DEF At, Live
    <3>3. calls'["job"] \notin Proc
      BY <1>3, <2>1
    <3> QED BY <1>6, <1>7, <1>13, <1>15, <3>1, <3>2, <3>3 DEF MindInv
  <2> QED BY <1>1, <1>2, <1>6, <1>11, <1>13, <2>2, <2>3, <2>5, <2>6, <2>7, <2>8, <2>9, GoesOn
<1> QED BY <1>12, <1>13 DEF IInv, TypeOK

LEMMA ReadyKeeps == IInv /\ Ready => IInv'
<1> SUFFICES ASSUME IInv, Ready PROVE IInv'
  OBVIOUS
<1>1. job # NoJob /\ job.pc = "ready" /\ Live(child)
  BY DEF Ready, At
<1>2. /\ job \in Operation /\ job.op \in {"start", "switch", "restart"} /\ job.pc \in Working
      /\ job.home \in Home /\ woken = Asleep /\ here \subseteq Home
  BY <1>1, AtWork
<1>3. calls["job"] = "none" /\ "none" \notin Proc /\ MachineTypes
  BY <1>1, ProcIsNot, Machine DEF IInv, CallInv, Awaiting
<1>4. status.phase # "running"
  BY <1>1 DEF IInv, RunInv
<1>5. child \in Proc /\ child # None /\ proc[child].home = job.home
  BY <1>1, <1>3 DEF IInv, JobInv, MachineTypes, Live
<1>6. /\ proc' = [proc EXCEPT ![child].state = "serving"]
      /\ UNCHANGED <<launcher, status, queue, shutdown, calls, child, stopped, settled, disk, ui>>
  BY DEF Ready
<1>7. /\ proc' \in [Proc -> Process]
      /\ \A p \in Proc : p # child => proc'[p] = proc[p]
      /\ proc'[child].state = "serving" /\ proc'[child].home = job.home
  BY <1>3, <1>5, <1>6 DEF MachineTypes, Process
<1>8. \A v \in Callees : calls'[v] \in Proc => Live(calls[v])'
  BY <1>6, <1>7 DEF IInv, CallInv, Callees, Live
<1>9. MachineTypes'
  BY <1>3, <1>6, <1>7 DEF MachineTypes
<1>10. /\ calls'["job"] = "none" /\ (calls'["stop"] # "none" <=> shutdown')
       /\ (stopped' => \E v \in Callees : calls'[v] \in Proc)
  BY <1>3, <1>6 DEF IInv, CallInv, Callees
<1>13. /\ \A p \in Proc : Live(p)' => Live(p)
       /\ \A p \in Proc : Minded(p) => Minded(p)'
       /\ \A p \in Proc : proc'[p].state = "spawned" => proc[p].state = "spawned" /\ p # child
       /\ ~settled /\ Live(child)'
  BY <1>1, <1>3, <1>5, <1>6, <1>7 DEF Live, Minded, MachineTypes, Process, IInv, MindInv
<1>14. /\ \A p \in Proc : Live(p)' /\ (p # child' \/ shutdown') => Minded(p)'
       /\ \A p \in Proc : proc'[p].state = "spawned" => Minded(p)'
       /\ calls'["job"] \notin Proc
  BY <1>3, <1>6, <1>10, <1>13 DEF IInv, MindInv
<1>11. CASE shutdown
  <2>1. Finish(job, "ok") /\ job' = NoJob
    BY <1>11 DEF Ready, Finish
  <2>2. CallInv'
    BY <1>8, <1>10, <2>1 DEF CallInv, Callees
  <2>3. StatusInv' /\ RunInv'
    BY <1>4, <1>6, <1>11 DEF StatusInv, RunInv
  <2>4. MindInv'
    BY <1>14, <2>1 DEF MindInv
  <2> QED BY <1>1, <1>2, <1>6, <1>9, <1>11, <2>1, <2>2, <2>3, <2>4, Ends
<1>12. CASE ~shutdown
  <2>1. job' = [job EXCEPT !.pc = "loading"] /\ UNCHANGED woken
    BY <1>12 DEF Ready
  <2>2. /\ job' \in Operation /\ job'.op = job.op /\ job'.by = job.by /\ job'.home = job.home
        /\ job'.before = job.before /\ job'.pc = "loading" /\ job' # NoJob
    <3>1. "loading" \in Working
      BY DEF Working
    <3> QED BY <1>2, <2>1, <3>1, MovesOn
  <2>3. CallInv'
    <3>1. "loading" \notin Awaiting
      BY DEF Awaiting
    <3> QED BY <1>8, <1>10, <2>2, <3>1 DEF CallInv, Callees
  <2>4. StatusInv' /\ RunInv'
    BY <1>1, <1>4, <1>6, <2>2 DEF IInv, StatusInv, RunInv, Booting
  <2>5. job'.pc \in Working /\ job'.pc # "orphan"
    BY <2>2 DEF Working
  <2>6. proc'[child'].home = job'.home
    BY <1>6, <1>7, <2>2
  <2>7. here' \subseteq Home /\ here \subseteq here' /\ UNCHANGED <<queue, files, manifest, written, ui>>
    BY <1>2, <1>6 DEF disk
  <2>8. MindInv'
    BY <1>5, <1>6, <1>13, <1>14 DEF MindInv
  <2> QED BY <1>1, <1>2, <1>6, <1>9, <1>12, <2>1, <2>2, <2>3, <2>4, <2>5, <2>6, <2>7, <2>8, GoesOn
<1> QED BY <1>11, <1>12 DEF IInv, TypeOK

LEMMA LoadedKeeps == IInv /\ Loaded => IInv'
<1> SUFFICES ASSUME IInv, Loaded PROVE IInv'
  OBVIOUS
<1>1. job # NoJob /\ job.pc = "loading" 
      /\ (shutdown \/ Live(child) \/ (child # None /\ proc[child].fate = "unseen"))
  BY DEF Loaded, At, IInv, MindInv
<1>2. /\ job \in Operation /\ job.op \in {"start", "switch", "restart"} /\ job.pc \in Working
      /\ job.home \in Home /\ woken = Asleep /\ here \subseteq Home /\ job.before \in Launchers
  BY <1>1, AtWork
<1>3. calls["job"] = "none" /\ "none" \notin Proc /\ MachineTypes
  BY <1>1, ProcIsNot, Machine DEF IInv, CallInv, Awaiting
<1>4. status.phase # "running"
  BY <1>1 DEF IInv, RunInv
<1>5. settled' = TRUE /\ UNCHANGED <<queue, shutdown, proc, disk, ui>>
  BY DEF Loaded
<1>6. Live(child) => proc[child].home = job.home
  BY <1>1 DEF IInv, JobInv
<1>7. ASSUME Finish(job, "ok"), UNCHANGED <<calls, child, stopped>>
      PROVE  CallInv'
  <2>1. job' = NoJob
    BY <1>7 DEF Finish
  <2>2. \A v \in Callees : calls'[v] \in Proc => Live(calls[v])'
    BY <1>5, <1>7 DEF IInv, CallInv, Callees, Live
  <2>3. /\ calls'["job"] = "none" /\ (calls'["stop"] # "none" <=> shutdown')
        /\ (stopped' => \E v \in Callees : calls'[v] \in Proc)
    BY <1>3, <1>5, <1>7 DEF IInv, CallInv, Callees
  <2> QED BY <2>1, <2>2, <2>3 DEF CallInv, Callees
<1>8. CASE shutdown
  <2>1. Finish(job, "ok") /\ UNCHANGED <<launcher, status, calls, child, stopped>>
    BY <1>8 DEF Loaded
  <2>2. MachineTypes'
    BY <1>3, <1>5, <2>1 DEF MachineTypes
  <2>3. StatusInv' /\ RunInv'
    BY <1>4, <1>5, <1>8, <2>1 DEF StatusInv, RunInv
  <2>4. MindInv'
    BY <1>1, <1>3, <1>5, <2>1, Minds DEF Finish, At
  <2> QED BY <1>1, <1>2, <1>5, <1>7, <1>8, <2>1, <2>2, <2>3, <2>4, Ends
<1>9. ASSUME ~shutdown, launcher' = Promoted(job),
             status' = [phase |-> "running", home |-> job.home],
             Finish(job, "ok"), UNCHANGED <<calls, child, stopped>>
      PROVE  IInv'
  <2>1. launcher' \in Launchers /\ launcher'.active = job.home
    BY <1>2, <1>9 DEF Promoted, Launchers, Homes
  <2>2. status'.phase = "running" /\ status'.home = job.home
    BY <1>9
  <2>3. MachineTypes'
    BY <1>2, <1>3, <1>5, <1>9, <2>1 DEF MachineTypes, Homes
  <2>4. StatusInv'
    BY <2>2 DEF StatusInv
  <2>5. RunInv'
    <3>1. job' = NoJob
      BY <1>9 DEF Finish
    <3>2. Live(child)' <=> Live(child)
      BY <1>5, <1>9 DEF Live
    <3>3. Live(child)' => proc'[child'].home = status'.home
      BY <1>5, <1>6, <1>9, <2>2, <3>2
    <3>4. Live(child)' \/ (child' # None /\ proc'[child'].fate = "unseen")
      BY <1>1, <1>5, <1>9, <3>2
    <3> QED BY <1>5, <1>9, <2>1, <2>2, <3>1, <3>3, <3>4 DEF RunInv
  <2>8. MindInv'
    BY <1>1, <1>3, <1>5, <1>9, Minds DEF Finish, At
  <2>6. CallInv' /\ Finish(job, "ok") /\ job.op # "stop"
    BY <1>2, <1>7, <1>9
  <2>7. shutdown' = (shutdown /\ job.op # "stop")
    BY <1>5, <1>9 DEF IInv, TypeOK
  <2> QED BY <1>1, <1>5, <2>3, <2>4, <2>5, <2>6, <2>7, <2>8, Ends
<1>10. ASSUME ~shutdown, StopFor(job, "unpublish"), UNCHANGED <<launcher, status>>
       PROVE  IInv'
  <2>1. StopCall("job") /\ job' = [job EXCEPT !.pc = "unpublish"] /\ UNCHANGED woken
    BY <1>10 DEF StopFor
  <2>2. /\ calls' \in [Callees -> Proc \cup {"none", "done", "failed"}]
        /\ child' \in Proc \cup {None} /\ stopped' \in BOOLEAN
        /\ calls'["job"] \in Proc \cup {"done"}
        /\ calls'["stop"] = calls["stop"]
        /\ \A v \in Callees : calls'[v] \in Proc => Live(calls[v])'
        /\ stopped' => \E v \in Callees : calls'[v] \in Proc
        /\ calls'["job"] \in Proc => calls'["job"] = child'
        /\ Live(child) => child' = child
    BY <1>3, <1>5, <2>1, StopCalled DEF Callees
  <2>3. MachineTypes'
    BY <1>3, <1>5, <1>10, <2>2 DEF MachineTypes
  <2>4. /\ job' \in Operation /\ job'.op = job.op /\ job'.by = job.by /\ job'.home = job.home
        /\ job'.before = job.before /\ job'.pc = "unpublish" /\ job' # NoJob
    <3>1. "unpublish" \in Working
      BY DEF Working
    <3> QED BY <1>2, <2>1, <3>1, MovesOn
  <2>5. CallInv'
    BY <1>3, <1>5, <2>2, <2>4, Zenon DEF IInv, CallInv, Callees, Awaiting
  <2>6. StatusInv' /\ RunInv'
    BY <1>1, <1>4, <1>5, <1>10, <2>4 DEF IInv, StatusInv, RunInv, Booting
  <2>7. here' \subseteq Home /\ here \subseteq here' /\ UNCHANGED <<queue, files, manifest, written, ui>>
    BY <1>2, <1>5 DEF disk
  <2>8. job'.pc \in Working /\ job'.pc \notin {"orphan", "ready", "loading"}
    BY <2>4 DEF Working
  <2>9. MindInv'
    BY <1>1, <1>3, <1>5, <1>10, <2>2, <2>8, Minds DEF At, Callees
  <2> QED BY <1>1, <1>2, <1>5, <1>10, <2>1, <2>3, <2>4, <2>5, <2>6, <2>7, <2>8, <2>9, GoesOn
<1> QED BY <1>8, <1>9, <1>10 DEF IInv, TypeOK, Loaded, PublishRunning

\* What is known of an operation whose stop has settled.
LEMMA AtRelease ==
  ASSUME IInv, NEW pc \in Awaiting, NEW outcome \in {"done", "failed"}, Release(pc, outcome)
  PROVE  /\ job # NoJob /\ job.pc = pc /\ calls["job"] = outcome
         /\ job \in Operation /\ job.op \in {"start", "switch", "restart"} /\ job.pc \in Working
         /\ job.home \in Home /\ woken = Asleep /\ here \subseteq Home
         /\ job.before \in Launchers /\ job.before.active = launcher.active
         /\ calls' \in [Callees -> Proc \cup {"none", "done", "failed"}]
         /\ calls'["job"] = "none" /\ calls'["stop"] = calls["stop"]
         /\ \A v \in Callees : calls'[v] \in Proc => Live(calls[v])'
         /\ calls'["stop"] # "none" <=> shutdown
         /\ stopped' => \E v \in Callees : calls'[v] \in Proc
         /\ UNCHANGED <<queue, os, disk, ui>>
         /\ shutdown' = shutdown /\ (job' = NoJob \/ job'.pc \notin {"ready", "loading"}) => MindInv'
<1>1. job # NoJob /\ job.pc = pc /\ UNCHANGED <<queue, os, disk, ui>>
  BY DEF Release, Released
<1>2. Caller(job) = "job" /\ job.pc # "terminating"
  BY <1>1 DEF Caller, Awaiting
<1>3. calls["job"] = outcome /\ calls' = [calls EXCEPT !["job"] = "none"]
  BY <1>2 DEF Release
<1>4. MachineTypes /\ "none" \notin Proc /\ "done" \notin Proc /\ "failed" \notin Proc
  BY Machine, ProcIsNot DEF IInv
<1>5. /\ calls' \in [Callees -> Proc \cup {"none", "done", "failed"}]
      /\ calls'["job"] = "none" /\ calls'["stop"] = calls["stop"]
  BY <1>3, <1>4 DEF MachineTypes, Callees
<1>6. \A v \in Callees : calls'[v] \in Proc => Live(calls[v])'
  BY <1>1, <1>4, <1>5 DEF IInv, CallInv, Callees, Live, os
<1>7. stopped' => \E v \in Callees : calls'[v] \in Proc
  <2>1. stopped' = stopped
    BY <1>1 DEF os
  <2>2. calls["job"] \notin Proc
    BY <1>3, <1>4
  <2>3. stopped => calls["stop"] \in Proc
    BY <2>2 DEF IInv, CallInv
  <2> QED BY <1>5, <2>1, <2>3 DEF Callees
<1>8. calls'["stop"] # "none" <=> shutdown
  BY <1>5 DEF IInv, CallInv
<1>9. shutdown' = shutdown /\ (job' = NoJob \/ job'.pc \notin {"ready", "loading"}) => MindInv'
  BY <1>1, <1>3, <1>4, <1>5, Minds DEF Callees, At, Awaiting, os
<1> QED BY <1>1, <1>2, <1>3, <1>5, <1>6, <1>7, <1>8, <1>9, AtWork

\* A boot begins or, behind a stop, ends before it has begun.
LEMMA BootKeeps ==
  ASSUME IInv, NEW pc \in Awaiting, NEW outcome \in {"done", "failed"}, Release(pc, outcome),
         NEW j \in Operation, j.op = job.op, j.by = job.by, j.before = job.before, j.home \in Home,
         j.home \in {job.home, job.before.lkg},
         NEW phase \in {"starting", "switching", "recovering"}, BeginBoot(j, phase),
         launcher' \in Launchers, launcher'.active = launcher.active, UNCHANGED shutdown
  PROVE  IInv'
<1>1. /\ job # NoJob /\ job.op \in {"start", "switch", "restart"}
      /\ here \subseteq Home
      /\ calls' \in [Callees -> Proc \cup {"none", "done", "failed"}]
      /\ calls'["job"] = "none"
      /\ \A v \in Callees : calls'[v] \in Proc => Live(calls[v])'
      /\ calls'["stop"] # "none" <=> shutdown
      /\ stopped' => \E v \in Callees : calls'[v] \in Proc
      /\ UNCHANGED <<queue, os, disk, ui>>
  BY AtRelease
<1>2. status' = [phase |-> phase, home |-> j.home] /\ MachineTypes /\ "none" \notin Proc
  BY Machine, ProcIsNot DEF BeginBoot, IInv
<1>3. MachineTypes'
  BY <1>1, <1>2 DEF MachineTypes, os, Homes
<1>4. status'.phase = phase
  BY <1>2
<1>5. RunInv'
  BY <1>4 DEF RunInv
<1>6. CASE shutdown
  <2>1. Finish(j, "ok") /\ job' = NoJob
    BY <1>6 DEF BeginBoot, Finish
  <2>2. CallInv'
    BY <1>1, <2>1 DEF CallInv, Callees
  <2>3. StatusInv'
    BY <1>6 DEF StatusInv
  <2>4. shutdown' = (shutdown /\ job.op # "stop")
    BY <1>1, <1>6 DEF IInv, TypeOK
  <2>5. MindInv'
    BY <2>1, AtRelease
  <2> QED BY <1>1, <1>3, <1>5, <2>1, <2>2, <2>3, <2>4, <2>5, Ends
<1>7. CASE ~shutdown
  <2>1. job' = [j EXCEPT !.pc = "spawning"] /\ UNCHANGED woken
    BY <1>7 DEF BeginBoot
  <2>2. /\ job' \in Operation /\ job'.op = job.op /\ job'.by = job.by /\ job'.home = j.home
        /\ job'.before = job.before /\ job'.pc = "spawning" /\ job' # NoJob
    <3>1. "spawning" \in Working
      BY DEF Working
    <3>2. /\ job' \in Operation /\ job'.op = j.op /\ job'.by = j.by /\ job'.home = j.home
          /\ job'.before = j.before /\ job'.pc = "spawning"
      BY <2>1, <3>1, AtAwait
    <3> QED BY <3>2, NoJobIsNone
  <2>3. CallInv'
    BY <1>1, <2>2 DEF CallInv, Callees, Awaiting
  <2>4. StatusInv'
    BY <1>4, <2>2 DEF StatusInv, Booting
  <2>5. here' \subseteq Home /\ here \subseteq here' /\ UNCHANGED <<queue, files, manifest, written, ui>>
    BY <1>1 DEF disk
  <2>6. job'.pc \in Working /\ job'.pc \notin {"orphan", "ready", "loading"}
    BY <2>2 DEF Working
  <2>7. MindInv'
    BY <2>6, AtRelease
  <2> QED BY <1>1, <1>3, <1>5, <2>1, <2>2, <2>3, <2>4, <2>5, <2>6, <2>7, GoesOn
<1> QED BY <1>6, <1>7 DEF IInv, TypeOK

\* An operation ends with what it awaited, and leaves a status that is at rest.
LEMMA RestKeeps ==
  ASSUME IInv, NEW pc \in Awaiting, NEW outcome \in {"done", "failed"}, Release(pc, outcome),
         NEW result \in {"ok", "failed"}, Finish(job, result),
         \/ status' = Failed
         \/ /\ UNCHANGED <<status, launcher>>
            /\ pc = "orphan" \/ (pc = "stopping" /\ outcome = "failed"),
         launcher' \in Launchers, UNCHANGED shutdown
  PROVE  IInv'
<1>1. /\ job # NoJob /\ job.op \in {"start", "switch", "restart"} /\ job.pc = pc
      /\ calls["job"] = outcome
      /\ calls' \in [Callees -> Proc \cup {"none", "done", "failed"}]
      /\ calls'["job"] = "none"
      /\ \A v \in Callees : calls'[v] \in Proc => Live(calls[v])'
      /\ calls'["stop"] # "none" <=> shutdown
      /\ stopped' => \E v \in Callees : calls'[v] \in Proc
      /\ UNCHANGED <<queue, os, disk, ui>>
  BY AtRelease
<1>2. MachineTypes
  BY Machine DEF IInv
<1>3. MachineTypes'
  BY <1>1, <1>2 DEF MachineTypes, os, Homes, Failed
<1>4. job' = NoJob
  BY DEF Finish
<1>5. CallInv'
  BY <1>1, <1>4 DEF CallInv, Callees
<1>6. StatusInv'
  <2>1. CASE status' = Failed
    BY <2>1 DEF StatusInv, Failed
  <2>2. CASE status' = status /\ pc = "orphan"
    BY <1>1, <2>2 DEF IInv, StatusInv, JobInv
  <2>3. CASE status' = status /\ pc = "stopping"
    BY <1>1, <2>3 DEF IInv, StatusInv, Booting
  <2> QED BY <2>1, <2>2, <2>3
<1>7. RunInv'
  <2>1. CASE status' = Failed
    BY <2>1 DEF RunInv, Failed
  <2>2. CASE status' = status /\ pc = "orphan"
    BY <1>1, <2>2 DEF IInv, RunInv
  <2>3. CASE UNCHANGED <<status, launcher>> /\ pc = "stopping" /\ outcome = "failed"
    BY <1>1, <1>4, <2>3 DEF IInv, RunInv, os, Live
  <2> QED BY <2>1, <2>2, <2>3
<1>8. shutdown' = (shutdown /\ job.op # "stop")
  BY <1>1 DEF IInv, TypeOK
<1>9. MindInv'
  BY <1>4, AtRelease
<1> QED BY <1>1, <1>3, <1>5, <1>6, <1>7, <1>8, <1>9, Ends

LEMMA BootAfterStopKeeps == IInv /\ BootAfterStop => IInv'
<1> SUFFICES ASSUME IInv, BootAfterStop PROVE IInv'
  OBVIOUS
<1> DEFINE phase == IF job.op = "switch" THEN "switching" ELSE "starting"
<1>1. /\ Release("stopping", "done") /\ BeginBoot(job, phase)
      /\ UNCHANGED <<launcher, shutdown>> /\ phase \in {"starting", "switching", "recovering"}
  BY DEF BootAfterStop
<1>2. "stopping" \in Awaiting
  BY DEF Awaiting
<1>3. job \in Operation /\ job.home \in Home
  BY <1>1, <1>2, AtRelease
<1>4. launcher' \in Launchers /\ launcher'.active = launcher.active
  BY <1>1, Machine DEF IInv, MachineTypes
<1> HIDE DEF phase
<1> QED BY <1>1, <1>2, <1>3, <1>4, BootKeeps

LEMMA StopFailedKeeps == IInv /\ (StopFailed \/ OrphanStopped \/ Unpublished) => IInv'
<1> SUFFICES ASSUME IInv, StopFailed \/ OrphanStopped \/ Unpublished PROVE IInv'
  OBVIOUS
<1>1. "stopping" \in Awaiting /\ "orphan" \in Awaiting /\ "unpublish" \in Awaiting
  BY DEF Awaiting
<1>2. UNCHANGED <<launcher, shutdown>> /\ launcher \in Launchers
  BY Machine DEF StopFailed, OrphanStopped, Unpublished, IInv, MachineTypes
<1>3. CASE StopFailed
  BY <1>1, <1>2, <1>3, RestKeeps DEF StopFailed
<1>4. CASE OrphanStopped
  BY <1>1, <1>2, <1>4, RestKeeps DEF OrphanStopped
<1>5. CASE Unpublished
  BY <1>1, <1>2, <1>5, RestKeeps DEF Unpublished
<1> QED BY <1>3, <1>4, <1>5

LEMMA BootFailedKeeps == IInv /\ BootFailed => IInv'
<1> SUFFICES ASSUME IInv, BootFailed PROVE IInv'
  OBVIOUS
<1>1. PICK outcome \in {"done", "failed"} : Release("cleaning", outcome)
  BY DEF BootFailed
<1>2. "cleaning" \in Awaiting /\ shutdown' = shutdown
  BY DEF Awaiting, BootFailed
<1>3. /\ job \in Operation /\ job.home \in Home /\ job.before \in Launchers
      /\ job.before.active = launcher.active
  BY <1>1, <1>2, AtRelease
<1>4. launcher \in Launchers
  BY Machine DEF IInv, MachineTypes
<1>5. ASSUME launcher' = [job.before EXCEPT !.pending = IF job.op = "switch" THEN None ELSE @]
      PROVE  launcher' \in Launchers /\ launcher'.active = launcher.active
  BY <1>3, <1>5 DEF Launchers, Homes
<1>6. CASE /\ launcher' = [job.before EXCEPT !.pending = IF job.op = "switch" THEN None ELSE @]
           /\ FallsBack(job)
           /\ BeginBoot([job EXCEPT !.home = job.before.lkg, !.first = FALSE], "recovering")
  <2> DEFINE j == [job EXCEPT !.home = job.before.lkg, !.first = FALSE]
  <2>1. job.before.lkg \in Home
    BY <1>3, <1>6 DEF FallsBack, Launchers, Homes
  <2>2. /\ j \in Operation /\ j.op = job.op /\ j.by = job.by /\ j.before = job.before
        /\ j.home = job.before.lkg
    BY <1>3, <2>1 DEF Operation, Homes
  <2>3. BeginBoot(j, "recovering")
    BY <1>6
  <2> HIDE DEF j
  <2> QED BY <1>1, <1>2, <1>5, <1>6, <2>1, <2>2, <2>3, BootKeeps
<1>7. CASE /\ launcher' = [job.before EXCEPT !.pending = IF job.op = "switch" THEN None ELSE @]
           /\ status' = Failed /\ Finish(job, "ok")
  BY <1>1, <1>2, <1>5, <1>7, RestKeeps
<1>8. CASE UNCHANGED launcher /\ status' = Failed /\ Finish(job, "failed")
  BY <1>1, <1>2, <1>4, <1>8, RestKeeps
<1> QED BY <1>6, <1>7, <1>8 DEF BootFailed

LEMMA TerminatedKeeps == IInv /\ Terminated => IInv'
<1> SUFFICES ASSUME IInv, Terminated PROVE IInv'
  OBVIOUS
<1>1. PICK outcome \in {"done", "failed"}, result \in {"ok", "failed"} :
        /\ Release("terminating", outcome) /\ Finish(job, result)
        /\ status' \in {Idle, Failed} /\ shutdown' = FALSE /\ UNCHANGED launcher
  BY DEF Terminated
<1>2. /\ job # NoJob /\ job.pc = "terminating" /\ calls["stop"] = outcome
      /\ calls' = [calls EXCEPT !["stop"] = "none"] /\ UNCHANGED <<queue, os, disk, ui>>
  BY <1>1 DEF Release, Released, Caller
<1>3. job.op = "stop" /\ shutdown /\ calls["job"] = "none"
  BY <1>2 DEF IInv, JobInv, CallInv, Awaiting
<1>4. MachineTypes /\ "none" \notin Proc /\ outcome \notin Proc
  BY Machine, ProcIsNot DEF IInv
<1>5. /\ calls' \in [Callees -> Proc \cup {"none", "done", "failed"}]
      /\ calls'["job"] = "none" /\ calls'["stop"] = "none"
  BY <1>2, <1>3, <1>4 DEF MachineTypes, Callees
<1>6. MachineTypes'
  BY <1>1, <1>2, <1>4, <1>5 DEF MachineTypes, os, Idle, Failed, Homes
<1>7. ~stopped'
  <2>1. stopped => FALSE
    BY <1>2, <1>3, <1>4 DEF IInv, CallInv
  <2> QED BY <1>2, <2>1 DEF os
<1>8. job' = NoJob
  BY <1>1 DEF Finish
<1>9. CallInv'
  BY <1>1, <1>4, <1>5, <1>7, <1>8 DEF CallInv
<1>10. status'.phase \in {"idle", "failed"}
  BY <1>1 DEF Idle, Failed
<1>11. StatusInv' /\ RunInv'
  BY <1>10 DEF StatusInv, RunInv
<1>12. shutdown' = (shutdown /\ job.op # "stop")
  BY <1>1, <1>3
<1>13. MindInv'
  BY <1>1, <1>2, <1>3, <1>4, <1>5, <1>8, Minds DEF At, Callees, os
<1> QED BY <1>1, <1>2, <1>6, <1>9, <1>11, <1>12, <1>13, Ends

\* The next operation is begun.
LEMMA Begins ==
  ASSUME IInv, job = NoJob, queue # <<>>, woken = Asleep, migration.pc # "copying",
         queue' = Tail(queue), NEW j, j = Head(queue), job' \in Operation, job'.op = j.op,
         job'.by = j.by,
         j.op = "switch" => job'.home = j.home /\ job'.before.lkg = launcher.lkg,
         \/ j.op = "stop" /\ job'.pc = "terminating"
         \/ /\ j.op \in {"start", "switch", "restart"} /\ job'.pc \in {"stopping", "spawning"}
            /\ job'.home \in Home /\ job'.before \in Launchers
            /\ job'.before.active = launcher.active,
         launcher'.active = launcher.active,
         MachineTypes', CallInv', StatusInv', RunInv', MindInv', UNCHANGED <<shutdown, woken, disk, ui>>
  PROVE  IInv'
<1>1. job' # NoJob /\ j.op # "exit"
  BY NoJobIsNone
<1>2. Flow' /\ (j.op = "stop" => NoWork')
  BY <1>1, FlowTakes DEF ui, disk
<1>3. DiskInv'
  BY DiskSame DEF ui, disk
<1>4. DownInv'
  BY DEF IInv, DownInv, ui
<1>5. /\ queue' \in Seq(Operation) /\ 1 \in Queued /\ j = queue[1]
  BY Left DEF IInv
<1>6. TypeOK'
  BY <1>5 DEF IInv, TypeOK, MachineTypes, Launchers, Callees, Process, ui, disk
<1>7. j.op = "stop" => shutdown /\ j.by = "all"
  BY <1>5 DEF IInv, QueueInv
<1>8. JobInv'
  BY <1>1, <1>2, <1>7 DEF JobInv, Working
<1> QED BY <1>2, <1>3, <1>4, <1>6, <1>8 DEF IInv, Flow

\* The next operation ends as soon as it is begun.
LEMMA Passes ==
  ASSUME IInv, job = NoJob, queue # <<>>, woken = Asleep, migration.pc # "copying",
         queue' = Tail(queue), NEW j, j = Head(queue), j.op # "stop",
         NEW outcome \in {"ok", "failed"}, Finish(j, outcome),
         UNCHANGED <<launcher, calls, child, stopped, settled, proc, shutdown, disk, ui>>,
         status' \in {status, Failed}, status' = status /\ status.phase = "running" => j.op # "exit"
  PROVE  IInv'
<1>1. Flow' /\ JobInv'
  BY FlowPasses DEF ui, disk
<1>2. DiskInv'
  BY DiskSame DEF ui, disk
<1>3. DownInv'
  BY DEF IInv, DownInv, ui
<1>4. /\ queue' \in Seq(Operation) /\ 1 \in Queued /\ j = queue[1]
  BY Left DEF IInv
<1>5. job' = NoJob
  BY DEF Finish
<1>6. MachineTypes'
  BY Machine DEF IInv, MachineTypes, Failed, Homes
<1>7. TypeOK'
  <2>1. woken' \in [Party -> {"no", "ok", "failed"}]
    BY DEF IInv, TypeOK, Finish
  <2> QED BY <1>4, <1>5, <1>6, <2>1 DEF IInv, TypeOK, MachineTypes, Launchers, Callees, Process, ui, disk
<1>8. CallInv'
  BY <1>5 DEF IInv, CallInv, Live
<1>11. MindInv'
  <2>1. calls["job"] \notin Proc
    BY ProcIsNot DEF IInv, CallInv
  <2> QED BY <1>5, <2>1, Minds DEF At
<1>9. StatusInv'
  BY DEF IInv, StatusInv, Failed
<1>10. RunInv'
  <2> SUFFICES ASSUME status'.phase = "running" PROVE RunInv'
    BY DEF RunInv
  <2>1. status' = status /\ j.op # "exit"
    BY DEF Failed
  <2>2. Live(child)' <=> Live(child)
    BY DEF Live
  <2>3. ASSUME NEW k \in Queued, queue[k].op = "exit" PROVE \E m \in Queued' : queue'[m].op = "exit"
    <3>1. k # 1
      BY <1>4, <2>1, <2>3
    <3>2. k - 1 \in Queued' /\ queue'[k - 1] = queue[k]
      BY <3>1, Left, Zenon DEF IInv
    <3> QED BY <2>3, <3>2
  <2> QED BY <1>5, <2>1, <2>2, <2>3 DEF IInv, RunInv
<1> QED BY <1>1, <1>2, <1>3, <1>7, <1>8, <1>9, <1>10, <1>11 DEF IInv, Flow

LEMMA TakeJobKeeps == IInv /\ TakeJob => IInv'
<1> SUFFICES ASSUME IInv, TakeJob PROVE IInv'
  OBVIOUS
<1> DEFINE j == Head(queue)
<1>1. /\ job = NoJob /\ queue # <<>> /\ woken = Asleep /\ migration.pc # "copying"
      /\ queue' = Tail(queue) /\ UNCHANGED <<shutdown, settled, proc, disk, ui>>
  BY DEF TakeJob
<1>2. j = queue[1] /\ 1 \in Queued /\ j \in Operation
  BY <1>1, Left DEF IInv
<1>3. \/ j.op = "stop" /\ TakeStop(j)
      \/ j.op = "exit" /\ TakeExit(j)
      \/ j.op \in {"start", "switch", "restart"} /\ shutdown /\ GiveWay(j)
      \/ j.op = "start" /\ ~shutdown /\ TakeStart(j)
      \/ j.op = "switch" /\ ~shutdown /\ TakeSwitch(j)
      \/ j.op = "restart" /\ ~shutdown /\ TakeRestart(j)
  BY DEF TakeJob
<1>4. /\ j.op = "switch" => j.home \in Home
      /\ j.op = "stop" => shutdown
  BY <1>2 DEF IInv, QueueInv
<1> HIDE DEF j
<1>5. j = Head(queue)
  BY DEF j
<1>6. calls["job"] = "none" /\ "none" \notin Proc /\ MachineTypes
  BY <1>1, Machine, ProcIsNot DEF IInv, CallInv
<1>7. status.phase \notin {"starting", "switching", "recovering"} \/ shutdown
  BY <1>1 DEF IInv, StatusInv
<1>8. launcher \in Launchers
  BY <1>6 DEF MachineTypes
<1>9. CASE j.op = "stop" /\ TakeStop(j)
  <2>1. /\ job' = [j EXCEPT !.pc = "terminating"]
        /\ UNCHANGED <<launcher, status, calls, woken, child, stopped>>
    BY <1>9 DEF TakeStop
  <2>2. /\ job' \in Operation /\ job'.op = j.op /\ job'.by = j.by /\ job'.pc = "terminating"
        /\ job' # NoJob
    BY <1>2, <2>1, NoJobIsNone DEF Operation
  <2>3. MachineTypes'
    BY <1>1, <1>6, <2>1 DEF MachineTypes
  <2>4. CallInv'
    BY <1>1, <1>6, <2>1, <2>2 DEF IInv, CallInv, Live, Awaiting
  <2>5. StatusInv' /\ RunInv'
    BY <1>1, <1>4, <1>9, <2>1 DEF IInv, StatusInv, RunInv
  <2>6. MindInv'
    BY <1>1, <1>6, <2>1, <2>2, Minds DEF At
  <2> QED BY <1>1, <1>5, <1>9, <2>1, <2>2, <2>3, <2>4, <2>5, <2>6, Begins
<1>10. CASE j.op = "exit" /\ TakeExit(j)
  <2>1. /\ status' = IF ~shutdown /\ status.phase = "running" THEN Failed ELSE status
        /\ Finish(j, "ok") /\ UNCHANGED <<launcher, calls, child, stopped>>
    BY <1>10 DEF TakeExit
  <2>2. status.phase = "running" => status' = Failed /\ ~shutdown /\ status # Failed
    BY <2>1 DEF IInv, RunInv, Failed
  <2>3. status' \in {status, Failed}
    BY <2>1
  <2>4. status' = status /\ status.phase = "running" => j.op # "exit"
    BY <2>2
  <2> QED BY <1>1, <1>5, <1>10, <2>1, <2>3, <2>4, Passes
<1>11. CASE j.op \in {"start", "switch", "restart"} /\ shutdown /\ GiveWay(j)
  BY <1>1, <1>5, <1>11, Passes DEF GiveWay
<1>12. CASE j.op = "start" /\ ~shutdown /\ TakeStart(j)
  <2> DEFINE cleared == [launcher EXCEPT !.pending = None]
             home == IF launcher.pending # None /\ launcher.lkg # None THEN launcher.lkg
                     ELSE launcher.active
             b == [j EXCEPT !.home = home, !.before = cleared]
  <2>1. cleared \in Launchers /\ cleared.active = launcher.active /\ home \in Home
    BY <1>8 DEF Launchers, Homes
  <2>2. CASE launcher' = cleared /\ BeginBoot(b, "starting")
    <3>1. /\ status' = [phase |-> "starting", home |-> b.home] /\ job' = [b EXCEPT !.pc = "spawning"]
          /\ UNCHANGED <<calls, child, stopped, woken>>
      BY <1>12, <2>2 DEF BeginBoot, TakeStart
    <3>2. /\ b \in Operation /\ b.op = j.op /\ b.by = j.by /\ b.home = home /\ b.before = cleared
      <4> HIDE DEF home, cleared
      <4>1. b = [j EXCEPT !.home = home, !.before = cleared]
        OBVIOUS
      <4> HIDE DEF b
      <4>2. home \in Homes
        BY <2>1 DEF Homes
      <4> QED BY <1>2, <2>1, <4>1, <4>2 DEF Operation, Launchers
    <3> HIDE DEF b
    <3>3. "spawning" \in Working
      BY DEF Working
    <3>4. /\ job' \in Operation /\ job'.op = b.op /\ job'.by = b.by /\ job'.home = b.home
          /\ job'.before = b.before /\ job'.pc = "spawning"
      BY <3>1, <3>2, <3>3, AtAwait
    <3> HIDE DEF home, cleared
    <3>5. /\ job' \in Operation /\ job'.op = j.op /\ job'.by = j.by /\ job'.home = home
          /\ job'.before = cleared /\ job'.pc = "spawning" /\ job' # NoJob
      BY <3>2, <3>4, NoJobIsNone
    <3>6. MachineTypes'
      BY <1>1, <1>6, <2>1, <2>2, <3>1, <3>2 DEF MachineTypes, Homes
    <3>7. CallInv'
      BY <1>1, <1>6, <3>1, <3>5 DEF IInv, CallInv, Live, Awaiting
    <3>8. StatusInv' /\ RunInv'
      BY <3>1, <3>5 DEF StatusInv, RunInv, Booting
    <3>9. MindInv'
      BY <1>1, <1>6, <3>1, <3>5, Minds DEF At
    <3> QED BY <1>1, <1>5, <1>12, <2>1, <2>2, <3>1, <3>5, <3>6, <3>7, <3>8, <3>9, Begins
  <2>3. CASE Finish(j, "failed") /\ UNCHANGED <<launcher, status>>
    BY <1>1, <1>5, <1>12, <2>3, Passes DEF TakeStart
  <2> QED BY <1>12, <2>2, <2>3 DEF TakeStart
<1>13. ASSUME ~shutdown, j.op \in {"switch", "restart"}, NEW b \in Operation, b.op = j.op, b.by = j.by,
              b.home \in Home, j.op = "switch" => b.home = j.home, b.before = launcher,
              StopFor(b, "stopping"), launcher' \in Launchers, launcher'.active = launcher.active,
              UNCHANGED status
       PROVE  IInv'
  <2>1. StopCall("job") /\ job' = [b EXCEPT !.pc = "stopping"] /\ UNCHANGED woken
    BY <1>13 DEF StopFor
  <2>2. /\ calls' \in [Callees -> Proc \cup {"none", "done", "failed"}]
        /\ child' \in Proc \cup {None} /\ stopped' \in BOOLEAN
        /\ calls'["job"] \in Proc \cup {"done"}
        /\ calls'["job"] \in Proc => calls'["job"] = child'
        /\ calls'["stop"] = calls["stop"]
        /\ \A v \in Callees : calls'[v] \in Proc => Live(calls[v])'
        /\ stopped' => \E v \in Callees : calls'[v] \in Proc
        /\ Live(child)' => child' = child /\ Live(child)
        /\ Live(child) => child' = child
    BY <1>1, <1>6, <2>1, StopCalled DEF Callees
  <2>3. MachineTypes'
    BY <1>1, <1>6, <1>13, <2>2 DEF MachineTypes
  <2>4. "stopping" \in Working
    BY DEF Working
  <2>5. /\ job' \in Operation /\ job'.op = b.op /\ job'.by = b.by /\ job'.home = b.home
        /\ job'.before = b.before /\ job'.pc = "stopping"
    BY <2>1, <2>4, AtAwait
  <2>6. /\ job' \in Operation /\ job'.op = j.op /\ job'.by = j.by /\ job'.home \in Home
        /\ job'.before = launcher /\ job'.pc = "stopping" /\ job' # NoJob
        /\ j.op = "switch" => job'.home = j.home
    BY <1>13, <2>5, NoJobIsNone
  <2>7. CallInv'
    BY <1>1, <1>6, <2>2, <2>6, Zenon DEF IInv, CallInv, Callees, Awaiting
  <2>8. StatusInv'
    BY <1>1, <1>7, <1>13 DEF IInv, StatusInv
  <2>9. RunInv'
    <3> SUFFICES ASSUME status'.phase = "running" PROVE RunInv'
      BY DEF RunInv
    <3>1. /\ ~shutdown' /\ settled' /\ status'.home = launcher'.active
          /\ Live(child) => proc[child].home = status'.home
      BY <1>1, <1>13 DEF IInv, RunInv
    <3>2. Live(child)' => proc'[child'].home = status'.home
      BY <1>1, <2>2, <3>1
    <3>3. calls'["job"] # "failed"
      BY <2>2, ProcIsNot
    <3> QED BY <2>2, <2>6, <3>1, <3>2, <3>3 DEF RunInv
  <2>10. MindInv'
    BY <1>1, <1>6, <2>2, <2>6, Minds DEF At, Callees
  <2> QED BY <1>1, <1>5, <1>8, <1>13, <2>1, <2>3, <2>6, <2>7, <2>8, <2>9, <2>10, Begins
<1>14. CASE j.op = "switch" /\ ~shutdown /\ TakeSwitch(j)
  <2>1. CASE launcher' = [launcher EXCEPT !.pending = j.home] /\ StopFor([j EXCEPT !.before = launcher], "stopping")
    <3> DEFINE b == [j EXCEPT !.before = launcher]
    <3>1. b \in Operation /\ b.op = j.op /\ b.by = j.by /\ b.home = j.home /\ b.before = launcher
      BY <1>2, <1>8 DEF Operation, Launchers
    <3>2. launcher' \in Launchers /\ launcher'.active = launcher.active
      BY <1>4, <1>8, <1>14, <2>1 DEF Launchers, Homes
    <3>3. UNCHANGED status /\ StopFor(b, "stopping")
      BY <1>14, <2>1 DEF TakeSwitch
    <3> HIDE DEF b
    <3> QED BY <1>4, <1>13, <1>14, <3>1, <3>2, <3>3
  <2>2. CASE Finish(j, "failed") /\ UNCHANGED <<launcher, calls, child, stopped>>
    BY <1>1, <1>5, <1>14, <2>2, Passes DEF TakeSwitch
  <2> QED BY <1>14, <2>1, <2>2 DEF TakeSwitch
<1>15. CASE j.op = "restart" /\ ~shutdown /\ TakeRestart(j)
  <2> DEFINE b == [j EXCEPT !.home = launcher.active, !.before = launcher]
  <2>1. /\ b \in Operation /\ b.op = j.op /\ b.by = j.by /\ b.home = launcher.active
        /\ b.before = launcher /\ launcher.active \in Home
    BY <1>2, <1>8 DEF Operation, Launchers, Homes
  <2>2. UNCHANGED <<launcher, status>> /\ StopFor(b, "stopping")
    BY <1>15 DEF TakeRestart
  <2> HIDE DEF b
  <2> QED BY <1>8, <1>13, <1>15, <2>1, <2>2
<1> QED BY <1>3, <1>9, <1>10, <1>11, <1>12, <1>14, <1>15
----------------------------------------------------------------------------
(* What happens outside: processes end, the harness stores.                *)

\* Only processes, their calls and notices of exits change.
LEMMA DieKeeps ==
  ASSUME IInv, Quiet, NEW p \in Proc, Die(p)
  PROVE  IInv'
<1> DEFINE fate == IF child = p /\ ~stopped /\ ~settled THEN "unseen" ELSE "none"
<1>1. /\ Live(p) /\ proc' = [proc EXCEPT ![p] = [Dead EXCEPT !.fate = fate]]
      /\ queue' = Watcher(p)
      /\ UNCHANGED <<launcher, status, job, shutdown, woken, settled, disk, ui>>
  BY DEF Die
<1>2. MachineTypes /\ p # None /\ p \notin {"none", "done", "failed"} /\ None \notin Proc
  BY Machine, ProcIsNot DEF IInv
<1>3. \A v \in Callees : calls'[v] = IF calls[v] = p THEN "done" ELSE calls[v]
  BY <1>2 DEF Die, MachineTypes, Callees
<1>4. calls' \in [Callees -> Proc \cup {"none", "done", "failed"}]
  BY <1>2 DEF Die, MachineTypes, Callees
<1>5. \/ (\A v \in Callees : calls[v] # p) /\ UNCHANGED <<child, stopped>>
      \/ (\E v \in Callees : calls[v] = p) /\ child' = None /\ stopped' = FALSE
  <2>1. DOMAIN calls = Callees
    BY <1>2 DEF MachineTypes
  <2>2. CASE {w \in DOMAIN calls : calls[w] = p} = {}
    BY <2>1, <2>2 DEF Die
  <2>3. CASE {w \in DOMAIN calls : calls[w] = p} # {}
    <3>1. child' = None /\ stopped' = FALSE
      BY <2>3 DEF Die
    <3> QED BY <2>1, <2>3, <3>1
  <2> QED BY <2>2, <2>3
<1>6. /\ proc'[p].state = "dead" /\ proc'[p].fate = fate
      /\ \A q \in Proc : q # p => proc'[q] = proc[q]
      /\ proc' \in [Proc -> Process]
  <2> DEFINE r == [Dead EXCEPT !.fate = fate]
  <2>1. r \in Process /\ r.state = "dead" /\ r.fate = fate
    BY DEF Dead, Process, Homes
  <2>2. proc' = [proc EXCEPT ![p] = r]
    BY <1>1
  <2> HIDE DEF r, fate
  <2> QED BY <1>2, <2>1, <2>2 DEF MachineTypes
<1>7. child' \in {child, None} /\ stopped' \in BOOLEAN
  BY <1>2, <1>5 DEF MachineTypes
<1>8. MachineTypes'
  BY <1>1, <1>2, <1>4, <1>6, <1>7 DEF MachineTypes
<1>9. Live(child)' => child' = child /\ child \in Proc /\ child # p /\ Live(child) /\ proc'[child] = proc[child]
  BY <1>2, <1>6, <1>7 DEF Live, MachineTypes
<1> DEFINE e == Op("exit", "none", None)
<1>10. e \in Operation /\ e.op = "exit" /\ e.by = "none"
  BY NewOp DEF Kinds, Homes
<1> HIDE DEF e
<1>11. /\ queue' = queue \/ queue' = Append(queue, e)
       /\ child = p /\ ~stopped /\ settled => queue' = Append(queue, e)
       /\ child # p => queue' = queue
  BY <1>1 DEF Watcher, e
<1>12. UNCHANGED <<files, here, manifest, written, app, migration, dialog, used>>
  BY <1>1 DEF disk, ui
<1>13. /\ Flow' /\ (job # NoJob /\ job.op = "stop" => NoWork') /\ queue' \in Seq(Operation)
       /\ \A k \in Queued : k \in Queued' /\ queue'[k] = queue[k]
       /\ queue' = Append(queue, e) => \E k \in Queued' : queue'[k].op = "exit"
  <2>1. CASE queue' = queue
    <3>1. Flow'
      BY <1>1, <1>12, <2>1, FlowSame DEF IInv, SwitchInv
    <3>2. queue' \in Seq(Operation) /\ \A k \in Queued : k \in Queued' /\ queue'[k] = queue[k]
      BY <2>1 DEF IInv, TypeOK, Queued
    <3>3. job # NoJob /\ job.op = "stop" => NoWork'
      BY <2>1 DEF IInv, JobInv, NoWork, Queued
    <3>4. queue # Append(queue, e)
      <4>1. queue \in Seq(Operation)
        BY DEF IInv, TypeOK
      <4>2. Len(Append(queue, e)) = Len(queue) + 1 /\ Len(queue) \in Nat
        BY <1>10, <4>1, AppendProperties, LenProperties
      <4> QED BY <4>2
    <3> QED BY <2>1, <3>1, <3>2, <3>3, <3>4
  <2>2. CASE queue' = Append(queue, e)
    <3>1. Flow' /\ (job # NoJob /\ job.op = "stop" => NoWork')
      BY <1>1, <1>10, <1>12, <2>2, FlowJoins
    <3>2. /\ queue' \in Seq(Operation) /\ \A k \in Queued : k \in Queued' /\ queue'[k] = queue[k]
          /\ Len(queue) + 1 \in Queued' /\ queue'[Len(queue) + 1] = e
      BY <1>10, <2>2, Joined DEF IInv
    <3> QED BY <1>10, <3>1, <3>2
  <2> QED BY <1>11, <2>1, <2>2
<1>14. DiskInv'
  BY <1>12, DiskSame
<1>15. DownInv'
  BY <1>1, <1>2, <1>7, <1>11, <1>12 DEF IInv, DownInv
<1>16. TypeOK'
  BY <1>1, <1>8, <1>12, <1>13 DEF IInv, TypeOK, MachineTypes, Launchers, Callees, Process
<1>17. JobInv'
  BY <1>1, <1>9, <1>13 DEF IInv, JobInv
<1>18. CallInv'
  <2>1. calls["job"] # "none" <=> calls'["job"] # "none"
    BY <1>2, <1>3 DEF Callees
  <2>2. calls["stop"] # "none" <=> calls'["stop"] # "none"
    BY <1>2, <1>3 DEF Callees
  <2>3. ASSUME NEW v \in Callees, calls'[v] \in Proc PROVE Live(calls[v])'
    <3>1. calls'[v] = calls[v] /\ calls[v] # p /\ calls[v] \in Proc
      BY <1>2, <1>3, <2>3, ProcIsNot
    <3>2. Live(calls[v])
      BY <3>1 DEF IInv, CallInv, Callees
    <3> QED BY <1>6, <3>1, <3>2 DEF Live
  <2>4. stopped' => \E v \in Callees : calls'[v] \in Proc
    BY <1>3, <1>5 DEF IInv, CallInv, Callees
  <2> QED BY <1>1, <2>1, <2>2, <2>3, <2>4 DEF IInv, CallInv, Callees
<1>19. StatusInv'
  BY <1>1 DEF IInv, StatusInv
<1>20. RunInv'
  <2> SUFFICES ASSUME status.phase = "running" PROVE RunInv'
    BY <1>1 DEF RunInv
  <2>1. ~shutdown /\ settled /\ status.home = launcher.active /\ calls["stop"] = "none"
    BY DEF IInv, RunInv, CallInv
  <2>2. Live(child)' => proc'[child'].home = status.home
    BY <1>9 DEF IInv, RunInv
  <2>3. ASSUME job # NoJob
        PROVE  /\ job.pc = "stopping" /\ calls'["job"] # "failed"
               /\ calls'["job"] \in Proc => calls'["job"] = child'
    <3>1. job.pc = "stopping" /\ calls["job"] # "none"
      BY <2>3 DEF IInv, RunInv, CallInv, Awaiting
    <3>2. calls["job"] \in Proc
      <4>1. calls["job"] \notin {"done", "failed"}
        BY <2>3, <3>1 DEF Quiet, Released, Caller
      <4> QED BY <1>2, <3>1, <4>1 DEF MachineTypes, Callees
    <3>3. calls["job"] = child
      BY <2>3, <3>2 DEF IInv, RunInv
    <3>4. calls'["job"] # "failed"
      BY <1>3, <3>2, ProcIsNot DEF Callees
    <3>5. calls'["job"] \in Proc => calls["job"] # p /\ calls'["job"] = child
      BY <1>2, <1>3, <3>2, <3>3, ProcIsNot DEF Callees
    <3>6. calls'["job"] \in Proc => child' = child
      BY <1>5, <2>1, <1>2, <3>5 DEF Callees
    <3> QED BY <3>1, <3>4, <3>5, <3>6
  <2>4. ASSUME job = NoJob
        PROVE  \/ Live(child)'
               \/ child' # None /\ proc'[child'].fate = "unseen"
               \/ \E k \in Queued' : queue'[k].op = "exit"
    <3>1. calls["job"] = "none" /\ ~stopped
      BY <1>2, <2>1, <2>4, ProcIsNot DEF IInv, CallInv
    <3>2. UNCHANGED child
      BY <1>2, <1>5, <2>1, <3>1 DEF Callees
    <3>3. CASE child = p
      BY <1>11, <1>13, <2>1, <3>1, <3>3
    <3>4. CASE child # p /\ Live(child)
      <4>1. child \in Proc
        BY <1>2, <3>4 DEF MachineTypes, Live
      <4> QED BY <1>6, <3>2, <3>4, <4>1 DEF Live
    <3>5. CASE \E k \in Queued : queue[k].op = "exit"
      BY <1>13, <3>5
    <3>6. CASE child # p /\ child # None /\ proc[child].fate = "unseen"
      BY <1>2, <1>6, <3>2, <3>6 DEF MachineTypes
    <3> QED BY <2>4, <3>3, <3>4, <3>5, <3>6 DEF IInv, RunInv
  <2> QED BY <1>1, <2>1, <2>2, <2>3, <2>4 DEF RunInv
<1>21. MindInv'
  <2>1. \A q \in Proc : q # p /\ Minded(q) => Minded(q)'
    BY <1>3, <1>6 DEF Minded
  <2>2. \A q \in Proc : Live(q)' => q # p /\ Live(q) /\ proc'[q] = proc[q]
    BY <1>6 DEF Live
  <2>3. ASSUME NEW q \in Proc, Live(q)', q # child' \/ shutdown PROVE Minded(q)'
    <3>1. CASE q # child \/ shutdown
      BY <2>1, <2>2, <2>3, <3>1 DEF IInv, MindInv
    <3>2. CASE q = child /\ ~shutdown
      <4>1. \E v \in Callees : calls[v] = p
        BY <1>5, <2>3, <3>2
      <4>2. calls["stop"] = "none"
        BY <3>2 DEF IInv, CallInv
      <4>3. calls["job"] = p
        BY <1>2, <4>1, <4>2 DEF Callees
      <4>4. child = p
        BY <3>2, <4>3 DEF IInv, MindInv
      <4> QED BY <2>2, <2>3, <3>2, <4>4
    <3> QED BY <3>1, <3>2
  <2>4. ASSUME NEW q \in Proc, proc'[q].state = "spawned"
        PROVE  Minded(q)' \/ (At("ready")' /\ q = child')
    <3>1. q # p /\ proc[q].state = "spawned" /\ Live(q)'
      BY <1>6, <2>4, ProcIsNot DEF Live
    <3>2. CASE Minded(q)
      BY <2>1, <3>1, <3>2
    <3>3. CASE At("ready") /\ q = child
      <4>1. child' = child \/ Minded(q)'
        BY <1>7, <2>3, <3>1, <3>3, ProcIsNot
      <4> QED BY <1>1, <3>3, <4>1 DEF At
    <3> QED BY <3>1, <3>2, <3>3 DEF IInv, MindInv
  <2>5. ASSUME calls'["job"] \in Proc, ~shutdown PROVE child' = calls'["job"]
    <3>1. calls["job"] = calls'["job"] /\ calls["job"] # p /\ child = calls["job"]
      BY <1>2, <1>3, <2>5, ProcIsNot DEF IInv, MindInv, Callees
    <3>2. calls["stop"] = "none"
      BY <2>5 DEF IInv, CallInv
    <3> QED BY <1>2, <1>5, <3>1, <3>2 DEF Callees
  <2>6. ASSUME job # NoJob, job.pc \in {"ready", "loading"}
        PROVE  /\ ~settled
               /\ ~shutdown => child' # None /\ (Live(child)' \/ proc'[child'].fate = "unseen")
    <3>1. ~settled /\ (~shutdown => child # None /\ (Live(child) \/ proc[child].fate = "unseen"))
      BY <2>6 DEF IInv, MindInv
    <3> SUFFICES ASSUME ~shutdown
                 PROVE  child' # None /\ (Live(child)' \/ proc'[child'].fate = "unseen")
      BY <3>1
    <3>2. calls["job"] = "none" /\ calls["stop"] = "none" /\ ~stopped
      BY <2>6, ProcIsNot DEF IInv, CallInv, Awaiting
    <3>3. UNCHANGED child /\ child \in Proc
      BY <1>2, <1>5, <3>1, <3>2 DEF Callees, MachineTypes
    <3>4. CASE child = p
      BY <1>6, <3>1, <3>2, <3>3, <3>4
    <3>5. CASE child # p
      BY <1>6, <3>1, <3>3, <3>5 DEF Live
    <3> QED BY <3>4, <3>5
  <2> QED BY <1>1, <2>3, <2>4, <2>5, <2>6 DEF MindInv
<1> QED BY <1>13, <1>14, <1>15, <1>16, <1>17, <1>18, <1>19, <1>20, <1>21 DEF IInv, Flow

\* The deadline of a stop only changes the call and the mark of the process.
LEMMA GiveUpKeeps ==
  ASSUME IInv, NEW w \in Callees, GiveUp(w)
  PROVE  IInv'
<1>1. /\ calls[w] \in Proc /\ calls' = [calls EXCEPT ![w] = "failed"] /\ stopped' = FALSE
      /\ proc' = [proc EXCEPT ![calls[w]].fate = "survived"]
      /\ UNCHANGED <<launcher, status, queue, job, shutdown, woken, child, settled, disk, ui>>
  BY DEF GiveUp
<1>2. MachineTypes /\ calls[w] # "none" /\ "failed" \notin Proc
  BY <1>1, Machine, ProcIsNot DEF IInv
<1>3. /\ \A v \in Callees : calls'[v] = IF v = w THEN "failed" ELSE calls[v]
      /\ calls' \in [Callees -> Proc \cup {"none", "done", "failed"}]
  BY <1>1, <1>2 DEF MachineTypes
<1>12. /\ proc' \in [Proc -> Process] /\ proc'[calls[w]].fate = "survived"
       /\ \A p \in Proc : /\ proc'[p].state = proc[p].state /\ proc'[p].home = proc[p].home
                          /\ p # calls[w] => proc'[p] = proc[p]
  <2> DEFINE q == calls[w]
             r == [proc[q] EXCEPT !.fate = "survived"]
  <2>1. q \in Proc /\ proc' = [proc EXCEPT ![q] = r]
    BY <1>1
  <2>2. proc[q] \in Process
    BY <1>2, <2>1 DEF MachineTypes
  <2>3. r \in Process /\ r.fate = "survived" /\ r.state = proc[q].state /\ r.home = proc[q].home
    BY <2>2 DEF Process
  <2> HIDE DEF q, r
  <2>4. /\ proc' \in [Proc -> Process] /\ proc'[q] = r
        /\ \A p \in Proc : p # q => proc'[p] = proc[p]
    BY <1>2, <2>1, <2>3 DEF MachineTypes
  <2>5. /\ proc'[q].fate = "survived"
        /\ \A p \in Proc : /\ proc'[p].state = proc[p].state /\ proc'[p].home = proc[p].home
                           /\ p # q => proc'[p] = proc[p]
    BY <2>3, <2>4
  <2> QED BY <2>4, <2>5 DEF q
<1>13. /\ \A p \in Proc : Live(p)' <=> Live(p)
       /\ child \in Proc \cup {None} /\ child' = child /\ (Live(child)' <=> Live(child))
       /\ Live(child) => proc'[child].home = proc[child].home
  BY <1>1, <1>2, <1>12 DEF Live, MachineTypes
<1>4. UNCHANGED <<files, here, manifest, written, app, migration, dialog, used>>
  BY <1>1 DEF disk, ui
<1>5. Flow'
  BY <1>1, <1>4, FlowSame DEF IInv, SwitchInv
<1>6. TypeOK'
  <2>1. MachineTypes'
    BY <1>1, <1>2, <1>3, <1>12 DEF MachineTypes
  <2> QED BY <1>1, <1>4, <2>1 DEF IInv, TypeOK, MachineTypes, Launchers, Callees, Process
<1>7. JobInv'
  BY <1>1, <1>13 DEF IInv, JobInv, NoWork, Queued
<1>8. CallInv'
  <2>1. \A v \in Callees : calls'[v] \in Proc => Live(calls[v])'
    <3> SUFFICES ASSUME NEW v \in Callees, calls'[v] \in Proc PROVE Live(calls[v])'
      OBVIOUS
    <3>1. calls'[v] = calls[v] /\ Live(calls[v])
      BY <1>2, <1>3 DEF IInv, CallInv, Callees
    <3> QED BY <1>12, <3>1 DEF Live
  <2>2. \A v \in Callees : calls'[v] # "none" <=> calls[v] # "none"
    BY <1>2, <1>3
  <2> QED BY <1>1, <2>1, <2>2 DEF IInv, CallInv, Callees
<1>9. StatusInv' /\ DownInv'
  BY <1>1, <1>4 DEF IInv, StatusInv, DownInv
<1>10. DiskInv'
  BY <1>4, DiskSame
<1>11. RunInv'
  <2> SUFFICES ASSUME status.phase = "running" PROVE RunInv'
    BY <1>1 DEF RunInv
  <2>1. w = "job"
    BY <1>2 DEF IInv, RunInv, CallInv, Callees
  <2>2. job # NoJob
    BY <1>2, <2>1 DEF IInv, CallInv
  <2>3. Live(child)
    BY <1>1, <2>1, <2>2 DEF IInv, RunInv, CallInv
  <2>4. Live(child)' /\ calls'["job"] = "failed" /\ proc'[child'].home = proc[child].home
    BY <1>3, <1>13, <2>1, <2>3 DEF Callees
  <2> QED BY <1>1, <1>2, <2>2, <2>3, <2>4 DEF IInv, RunInv
<1>14. MindInv'
  <2>1. ASSUME NEW p \in Proc, Minded(p) PROVE Minded(p)'
    <3>1. CASE p = calls[w]
      BY <1>12, <3>1 DEF Minded
    <3>2. CASE p # calls[w]
      BY <1>3, <1>12, <2>1, <3>2 DEF Minded
    <3> QED BY <3>1, <3>2
  <2>2. ASSUME job # NoJob, job.pc \in {"ready", "loading"}, ~shutdown PROVE FALSE
    BY <1>2, <2>2 DEF IInv, CallInv, Callees, Awaiting
  <2>3. \A p \in Proc : Live(p)' /\ (p # child' \/ shutdown') => Minded(p)'
    BY <1>1, <1>13, <2>1 DEF IInv, MindInv
  <2>4. \A p \in Proc : proc'[p].state = "spawned" => Minded(p)' \/ (At("ready")' /\ p = child')
    BY <1>1, <1>12, <2>1 DEF IInv, MindInv, At
  <2>5. calls'["job"] \in Proc /\ ~shutdown' => child' = calls'["job"]
    BY <1>1, <1>2, <1>3 DEF IInv, MindInv, Callees
  <2>6. job # NoJob /\ job.pc \in {"ready", "loading"} => ~settled
    BY DEF IInv, MindInv
  <2> QED BY <1>1, <2>2, <2>3, <2>4, <2>5, <2>6 DEF MindInv
<1> QED BY <1>5, <1>6, <1>7, <1>8, <1>9, <1>10, <1>11, <1>14 DEF IInv, Flow

\* What is stored goes to the active home, which is not the target of a move.
LEMMA StoreKeeps ==
  ASSUME IInv, Quiet, NEW f \in Fact, Store(f)
  PROVE  IInv'
<1> DEFINE h == proc[child].home
<1>1. /\ status.phase = "running" /\ Live(child)
      /\ files' = [files EXCEPT ![h] = @ \cup {f}] /\ here' = here \cup {h}
      /\ written' = written \cup {f} /\ UNCHANGED <<ctl, os, manifest, ui>>
  BY DEF Store
<1>2. h = launcher.active /\ h \in Home
  BY <1>1 DEF IInv, RunInv, TypeOK
<1> HIDE DEF h
<1>3. /\ files' \in [Home -> SUBSET Fact] /\ files'[h] = files[h] \cup {f}
      /\ \A x \in Home : files[x] \subseteq files'[x] /\ (x # h => files'[x] = files[x])
  BY <1>1, <1>2 DEF IInv, TypeOK
<1>4. UNCHANGED <<launcher, status, queue, job, shutdown, calls, woken, child, stopped, settled, proc,
                  manifest, app, migration, dialog, used>>
  BY <1>1 DEF ctl, os, ui
<1>5. migration.pc = "switching" => files'[migration.target] \subseteq files'[migration.source]
  <2> SUFFICES ASSUME migration.pc = "switching"
               PROVE  files'[migration.target] \subseteq files'[migration.source]
    OBVIOUS
  <2>1. /\ {migration.source, migration.target} \subseteq Home /\ migration.source # migration.target
        /\ files[migration.target] \subseteq files[migration.source]
    BY DEF IInv, MoveInv, SwitchInv, Home
  <2>2. woken["migration"] = "no"
    BY AsleepIs DEF Quiet, Party
  <2>3. h = migration.source
    BY <1>2, <2>2 DEF IInv, SwitchInv
  <2> QED BY <1>3, <2>1, <2>3
<1>6. Flow'
  BY <1>4, <1>5, FlowSame
<1>7. TypeOK'
  BY <1>1, <1>2, <1>3, <1>4 DEF IInv, TypeOK
<1>8. JobInv' /\ CallInv' /\ MindInv'
  BY <1>1, <1>4, MindSame DEF IInv, JobInv, CallInv, NoWork, Queued, Live, os
<1>9. StatusInv' /\ DownInv'
  BY <1>4 DEF IInv, StatusInv, DownInv
<1>10. RunInv'
  BY <1>4 DEF IInv, RunInv, Queued, Live
<1>11. DiskInv'
  <2>1. DataNeverLost'
    BY <1>1, <1>2, <1>3 DEF IInv, DiskInv, DataNeverLost
  <2>2. \A x \in Home : x \notin here' => files'[x] = {}
    BY <1>1, <1>3 DEF IInv, DiskInv
  <2>3. ASSUME NEW x \in Home, manifest'[x] # None
        PROVE  /\ manifest'[x].source # x
               /\ manifest'[x].items \subseteq files'[x]
               /\ manifest'[x].run <= app'.run
               /\ app'.stage \in {"opening", "booting"} => manifest'[x].run < app'.run \/ manifest'[x].early
               /\ manifest'[x].verification # "awaiting-restart" =>
                    manifest'[x].checked > manifest'[x].run \/ manifest'[x].early
    <3>1. manifest'[x] = manifest[x] /\ app' = app /\ files[x] \subseteq files'[x]
      BY <1>3, <1>4
    <3> QED BY <2>3, <3>1 DEF IInv, DiskInv
  <2> QED BY <2>1, <2>2, <2>3 DEF DiskInv
<1> QED BY <1>6, <1>7, <1>8, <1>9, <1>10, <1>11 DEF IInv, Flow
----------------------------------------------------------------------------
(* Starting and leaving the application.                                   *)

\* Callers, queue and migration move; the controller and its process do not.
LEMMA Undisturbed ==
  ASSUME IInv, UNCHANGED <<status, job, shutdown, calls, os>>, launcher'.active = launcher.active,
         \A k \in Queued : k \in Queued' /\ queue'[k] = queue[k]
  PROVE  CallInv' /\ StatusInv' /\ RunInv' /\ MindInv'
<1>1. CallInv'
  BY DEF IInv, CallInv, Live, os
<1>2. StatusInv'
  BY DEF IInv, StatusInv
<1>3. RunInv'
  <2>1. (\E k \in Queued : queue[k].op = "exit") => \E k \in Queued' : queue'[k].op = "exit"
    OBVIOUS
  <2> QED BY <2>1 DEF IInv, RunInv, Live, os
<1>4. MindInv'
  BY MindSame DEF os
<1> QED BY <1>1, <1>2, <1>3, <1>4

\* The startup judges the manifest of the home it has started on: of an earlier run, or of a move
\* made before the harness was started.
LEMMA Verified ==
  ASSUME IInv, app.stage \in {"opening", "booting"}, VerifyOnStartup \/ UNCHANGED manifest
  PROVE  /\ manifest' \in [Home -> Manifest \cup {None}]
         /\ \A h \in Home : manifest'[h] # None =>
              /\ manifest'[h].source # h
              /\ manifest'[h].items \subseteq files[h]
              /\ manifest'[h].run <= app.run
              /\ manifest'[h].verification # "awaiting-restart" =>
                   manifest'[h].checked > manifest'[h].run \/ manifest'[h].early
<1>1. /\ manifest \in [Home -> Manifest \cup {None}] /\ launcher.active \in Home
      /\ app.run \in 0..MaxRuns /\ MaxRuns \in Nat
  BY HostAssumption DEF IInv, TypeOK
<1>2. \A h \in Home : manifest[h] # None =>
        /\ manifest[h] \in Manifest
        /\ manifest[h].source # h
        /\ manifest[h].items \subseteq files[h]
        /\ manifest[h].run <= app.run /\ (manifest[h].run < app.run \/ manifest[h].early)
        /\ manifest[h].verification # "awaiting-restart" =>
             manifest[h].checked > manifest[h].run \/ manifest[h].early
  BY <1>1 DEF IInv, DiskInv
<1>3. CASE UNCHANGED manifest
  BY <1>1, <1>2, <1>3
<1>4. CASE VerifyOnStartup /\ manifest' # manifest
  <2> DEFINE a == launcher.active
             v == IF a \in here THEN "verified" ELSE "failed"
             m == [manifest[a] EXCEPT !.verification = v, !.checked = app.run]
  <2>1. /\ manifest[a] # None /\ manifest[a] \in Manifest /\ v \in {"verified", "failed"}
        /\ manifest' = [manifest EXCEPT ![a].verification = v, ![a].checked = app.run]
    BY <1>1, <1>2, <1>4 DEF VerifyOnStartup
  <2>2. /\ m \in Manifest /\ m.source = manifest[a].source /\ m.items = manifest[a].items
        /\ m.run = manifest[a].run /\ m.checked = app.run /\ m.early = manifest[a].early
    BY <1>1, <2>1 DEF Manifest
  <2>3. /\ manifest' \in [Home -> Manifest \cup {None}] /\ manifest'[a] = m
        /\ \A h \in Home : h # a => manifest'[h] = manifest[h]
    BY <1>1, <2>1, <2>2
  <2>4. m.run \in 0..MaxRuns
    BY <2>2 DEF Manifest
  <2> HIDE DEF m, v
  <2>5. \A h \in Home : manifest'[h] # None => h = a \/ (h # a /\ manifest'[h] = manifest[h])
    BY <2>3
  <2>6. m.run <= app.run /\ (app.run > m.run \/ m.early)
    BY <1>1, <1>2, <2>1, <2>2, <2>4
  <2>7. /\ m.source # a /\ m.items \subseteq files[a] /\ m.checked = app.run
    BY <1>1, <1>2, <2>1, <2>2
  <2> HIDE DEF a
  <2> QED BY <1>2, <2>3, <2>5, <2>6, <2>7
<1> QED BY <1>3, <1>4

\* An exit, a rejected startup or a power loss leaves the durable state as it is.
LEMMA LeaveKeeps ==
  ASSUME IInv, Leave, UNCHANGED <<launcher, files, written>>,
         proc' \in [Proc -> Process],
         \A p \in Proc : proc'[p].state = "dead" \/ proc'[p].fate = "survived",
         here \subseteq here', here' \subseteq Home,
         manifest' \in [Home -> Manifest \cup {None}],
         \A h \in Home : manifest'[h] # None =>
           /\ manifest'[h].source # h
           /\ manifest'[h].items \subseteq files[h]
           /\ manifest'[h].run <= app.run
           /\ manifest'[h].verification # "awaiting-restart" =>
                manifest'[h].checked > manifest'[h].run \/ manifest'[h].early
  PROVE  IInv'
<1>1. /\ app' = [app EXCEPT !.stage = "down", !.quit = "no"]
      /\ status' = Idle /\ queue' = <<>> /\ job' = NoJob /\ shutdown' = FALSE
      /\ calls' = NoCalls /\ woken' = Asleep
      /\ child' = None /\ stopped' = FALSE /\ settled' = FALSE
      /\ migration' = NoMigration /\ dialog' = None /\ used' = used
  BY DEF Leave
<1>2. app'.stage = "down" /\ app'.quit = "no" /\ app'.run = app.run
      /\ app' \in [stage : {"down", "opening", "booting", "up"}, run : 0..MaxRuns, quit : {"no", "stopping", "finishing"}]
  BY <1>1 DEF IInv, TypeOK
<1>3. /\ calls'["job"] = "none" /\ calls'["stop"] = "none"
      /\ calls' \in [Callees -> Proc \cup {"none", "done", "failed"}]
  BY <1>1 DEF NoCalls, Callees
<1>4. status'.phase = "idle" /\ status'.home = None /\ migration'.pc = "none"
  BY <1>1 DEF Idle, NoMigration
<1>5. "none" \notin Proc
  BY ProcIsNot
<1>6. Queued' = {} /\ queue' \in Seq(Operation)
  BY <1>1 DEF Queued
<1>7. \A p \in Party : woken'[p] = "no"
  BY <1>1, AsleepIs
<1>8. "boot" \in Party /\ "quit" \in Party /\ "migration" \in Party
  BY DEF Party
<1>9. TypeOK'
  <2>1. MachineTypes'
    BY <1>1, <1>3, Machine DEF IInv, MachineTypes, Idle, Homes
  <2>2. woken' \in [Party -> {"no", "ok", "failed"}]
    BY <1>1 DEF Asleep
  <2>3. migration' \in [pc : {"none", "stopping", "copying", "switching", "restoring"},
                        source : Homes, target : Homes]
    BY <1>1 DEF NoMigration, Homes
  <2> QED BY <1>1, <1>2, <1>6, <2>1, <2>2, <2>3
             DEF IInv, TypeOK, MachineTypes, Launchers, Callees, Process, Homes
<1>10. Flow'
  BY <1>1, <1>2, <1>4, <1>6, <1>7, <1>8 DEF Flow, QueueInv, BootInv, MoveInv, SwitchInv, Moves, NoWork
<1>11. JobInv' /\ CallInv'
  BY <1>1, <1>3, <1>5 DEF JobInv, CallInv
<1>14. MindInv'
  <2>1. \A p \in Proc : proc'[p].state = "dead" \/ Minded(p)'
    BY DEF Minded
  <2> QED BY <1>1, <1>3, <1>5, <2>1 DEF MindInv, Live
<1>12. StatusInv' /\ RunInv' /\ DownInv'
  BY <1>1, <1>4 DEF StatusInv, RunInv, DownInv
<1>13. DiskInv'
  <2>1. DataNeverLost'
    BY DEF IInv, DiskInv, DataNeverLost
  <2>2. \A h \in Home : h \notin here' => files'[h] = {}
    BY DEF IInv, DiskInv
  <2> QED BY <1>2, <2>1, <2>2 DEF DiskInv
<1> QED BY <1>9, <1>10, <1>11, <1>12, <1>13, <1>14 DEF IInv, Flow

\* What lives on is nobody's.
LEMMA Outlived ==
  ASSUME IInv, Outlive
  PROVE  /\ proc' \in [Proc -> Process]
         /\ \A p \in Proc : proc'[p].state = "dead" \/ proc'[p].fate = "survived"
<1>1. proc \in [Proc -> Process] /\ Dead \in Process /\ Dead.state = "dead"
  BY DEF IInv, TypeOK, Process, Dead, Homes
<1>2. \A p \in Proc : [proc[p] EXCEPT !.fate = "survived"] \in Process
                      /\ [proc[p] EXCEPT !.fate = "survived"].fate = "survived"
  BY <1>1 DEF Process
<1> QED BY <1>1, <1>2 DEF Outlive

LEMMA ExitKeeps == IInv /\ (Exit \/ Crash) => IInv'
<1> SUFFICES ASSUME IInv, Exit \/ Crash PROVE IInv'
  OBVIOUS
<1>1. Leave /\ UNCHANGED <<launcher, files, manifest, written>>
  BY DEF Exit, Crash, disk
<1>2. \A h \in Home : manifest[h] # None =>
           /\ manifest[h].source # h
           /\ manifest[h].items \subseteq files[h]
           /\ manifest[h].run <= app.run
           /\ manifest[h].verification # "awaiting-restart" =>
                manifest[h].checked > manifest[h].run \/ manifest[h].early
  BY DEF IInv, DiskInv
<1>3. manifest \in [Home -> Manifest \cup {None}] /\ here \subseteq Home
  BY DEF IInv, TypeOK
<1>4. /\ proc' \in [Proc -> Process]
      /\ \A p \in Proc : proc'[p].state = "dead" \/ proc'[p].fate = "survived"
  <2>1. CASE Exit
    BY <2>1, Outlived DEF Exit
  <2>2. CASE Crash
    BY <2>2 DEF Crash, Dead, Process, Homes
  <2> QED BY <2>1, <2>2
<1>5. here \subseteq here' /\ here' \subseteq Home
  <2>1. migration.pc = "copying" => migration.target \in Home
    BY DEF IInv, MoveInv, Home
  <2>2. CASE Exit
    BY <1>3, <2>2 DEF Exit, disk
  <2>3. CASE Crash
    BY <1>3, <2>1, <2>3 DEF Crash
  <2> QED BY <2>2, <2>3
<1> QED BY <1>1, <1>2, <1>3, <1>4, <1>5, LeaveKeeps

\* The window opens: no move of this run has been made.
LEMMA StartAppKeeps == IInv /\ StartApp => IInv'
<1> SUFFICES ASSUME IInv, StartApp PROVE IInv'
  OBVIOUS
<1>1. /\ app.stage = "down" /\ app.run < MaxRuns
      /\ app' = [stage |-> "opening", run |-> app.run + 1, quit |-> "no"]
      /\ UNCHANGED <<launcher, status, queue, job, shutdown, calls, woken, child, stopped, settled, proc,
                     files, here, manifest, written, migration, dialog, used>>
  BY DEF StartApp, ctl, os, disk
<1>2. app'.stage = "opening" /\ app'.run = app.run + 1 /\ app'.quit = "no" /\ app.run \in Nat
      /\ app' \in [stage : {"down", "opening", "booting", "up"}, run : 0..MaxRuns, quit : {"no", "stopping", "finishing"}]
  BY <1>1, HostAssumption DEF IInv, TypeOK
<1>3. TypeOK'
  BY <1>1, <1>2 DEF IInv, TypeOK
<1>4. Flow'
  BY <1>1, <1>2, FlowSame DEF IInv, SwitchInv
<1>5. JobInv' /\ CallInv' /\ StatusInv' /\ RunInv' /\ DownInv'
  BY <1>1, <1>2 DEF IInv, JobInv, CallInv, StatusInv, RunInv, DownInv, NoWork, Queued, Live
<1>6. MindInv'
  BY <1>1, MindSame
<1>7. DiskInv'
  <2>1. DataNeverLost' /\ \A h \in Home : h \notin here' => files'[h] = {}
    BY <1>1 DEF IInv, DiskInv, DataNeverLost
  <2>2. ASSUME NEW h \in Home, manifest[h] # None
        PROVE  manifest[h].run <= app'.run /\ manifest[h].run < app'.run
    <3>1. manifest[h].run \in 0..MaxRuns /\ manifest[h].run <= app.run
      <4>1. manifest[h] \in Manifest
        BY <2>2 DEF IInv, TypeOK
      <4> QED BY <2>2, <4>1 DEF Manifest, IInv, DiskInv
    <3> QED BY <1>2, <3>1, HostAssumption
  <2> QED BY <1>1, <2>1, <2>2 DEF IInv, DiskInv
<1> QED BY <1>3, <1>4, <1>5, <1>6, <1>7 DEF IInv, Flow

\* The startup goes on, once its start has settled or when it gave way to a stop.
LEMMA GoOnKeeps ==
  ASSUME IInv, NEW outcome, GoOn(outcome), app.stage \in {"opening", "booting"},
         app.stage = "booting" => woken["boot"] # "no"
  PROVE  IInv'
<1>1. UNCHANGED <<launcher, files, here, written>>
  BY DEF GoOn
<1>2. VerifyOnStartup \/ UNCHANGED manifest
  BY DEF GoOn
<1>3. /\ manifest' \in [Home -> Manifest \cup {None}]
      /\ \A h \in Home : manifest'[h] # None =>
           /\ manifest'[h].source # h
           /\ manifest'[h].items \subseteq files[h]
           /\ manifest'[h].run <= app.run
           /\ manifest'[h].verification # "awaiting-restart" =>
                manifest'[h].checked > manifest'[h].run \/ manifest'[h].early
  BY <1>2, Verified
<1>4. CASE Leave /\ Outlive
  <2>1. here \subseteq here' /\ here' \subseteq Home
    BY <1>1 DEF IInv, TypeOK
  <2> QED BY <1>1, <1>3, <1>4, <2>1, Outlived, LeaveKeeps
<1>5. CASE /\ app' = [app EXCEPT !.stage = "up"]
           /\ woken' = [woken EXCEPT !["boot"] = "no"]
           /\ UNCHANGED <<status, queue, job, shutdown, calls, os, migration, dialog, used>>
  <2>1. /\ app'.stage = "up" /\ app'.quit = app.quit /\ app'.run = app.run
        /\ app' \in [stage : {"down", "opening", "booting", "up"}, run : 0..MaxRuns, quit : {"no", "stopping", "finishing"}]
    BY <1>5 DEF IInv, TypeOK
  <2>2. woken' \in [Party -> {"no", "ok", "failed"}] /\ UNCHANGED <<child, stopped, settled, proc>>
    BY <1>5 DEF IInv, TypeOK, os
  <2>3. Flow' /\ JobInv'
    <3>1. "boot" \in Party
      BY DEF Party
    <3>2. CASE woken["boot"] # "no"
      BY <1>1, <1>5, <2>1, <3>1, <3>2, AsleepIs, FlowHears
    <3>3. CASE woken["boot"] = "no"
      <4>1. app.stage # "booting" /\ woken' = woken
        BY <1>5, <3>1, <3>3 DEF IInv, TypeOK
      <4> QED BY <1>1, <1>5, <2>1, <2>2, <4>1, FlowSame DEF IInv, SwitchInv, JobInv, Live, NoWork, Queued
    <3> QED BY <3>2, <3>3
  <2>4. TypeOK'
    BY <1>1, <1>3, <1>5, <2>1, <2>2 DEF IInv, TypeOK
  <2>5. CallInv' /\ StatusInv' /\ RunInv' /\ DownInv'
    BY <1>1, <1>5, <2>1, <2>2 DEF IInv, CallInv, StatusInv, RunInv, DownInv, Live, Queued
  <2>6. MindInv'
    BY <1>5, <2>2, MindSame
  <2>7. DiskInv'
    <3>1. DataNeverLost' /\ \A h \in Home : h \notin here' => files'[h] = {}
      BY <1>1 DEF IInv, DiskInv, DataNeverLost
    <3> QED BY <1>1, <1>3, <2>1, <3>1 DEF DiskInv
  <2> QED BY <2>3, <2>4, <2>5, <2>6, <2>7 DEF IInv, Flow
<1> QED BY <1>4, <1>5 DEF GoOn

LEMMA BootReturnsKeeps == IInv /\ BootReturns => IInv'
<1> SUFFICES ASSUME IInv, BootReturns PROVE IInv'
  OBVIOUS
<1>1. woken["boot"] # "no" /\ app.stage = "booting" /\ GoOn(woken["boot"])
  BY DEF BootReturns, IInv, BootInv
<1> QED BY <1>1, GoOnKeeps

\* The first operation of the startup: no stop is under way, and nobody waits for anything.
LEMMA BootBeginsKeeps == IInv /\ Quiet /\ BootBegins => IInv'
<1> SUFFICES ASSUME IInv, Quiet, BootBegins PROVE IInv'
  OBVIOUS
<1>1. app.stage = "opening" /\ woken = Asleep /\ migration.pc # "copying"
  BY DEF BootBegins, Quiet
<1>2. CASE shutdown
  BY <1>1, <1>2, GoOnKeeps DEF BootBegins
<1>3. CASE ~shutdown
  <2> DEFINE e == Op("start", "boot", None)
  <2>1. /\ app' = [app EXCEPT !.stage = "booting"] /\ queue' = Append(queue, e)
        /\ UNCHANGED <<launcher, status, job, shutdown, calls, woken, os, disk, migration, dialog, used>>
    BY <1>3 DEF BootBegins
  <2>2. e \in Operation /\ e.op = "start" /\ e.by = "boot"
    BY NewOp DEF Kinds, Homes, Party
  <2> HIDE DEF e
  <2>3. UNCHANGED <<child, stopped, settled, proc, files, here, manifest, written>>
    BY <2>1 DEF os, disk
  <2>4. /\ app'.stage = "booting" /\ app'.quit = app.quit /\ app'.run = app.run
        /\ app' \in [stage : {"down", "opening", "booting", "up"}, run : 0..MaxRuns, quit : {"no", "stopping", "finishing"}]
    BY <2>1 DEF IInv, TypeOK
  <2>5. Flow' /\ (job # NoJob /\ job.op = "stop" => NoWork')
    BY <1>1, <1>3, <2>1, <2>2, <2>3, <2>4, FlowJoins
  <2>6. queue' \in Seq(Operation) /\ \A k \in Queued : k \in Queued' /\ queue'[k] = queue[k]
    BY <2>1, <2>2, Joined DEF IInv
  <2>7. CallInv' /\ StatusInv' /\ RunInv' /\ MindInv'
    BY <2>1, <2>6, Undisturbed
  <2>8. TypeOK'
    BY <2>1, <2>3, <2>4, <2>6 DEF IInv, TypeOK
  <2>9. JobInv'
    BY <2>1, <2>3, <2>5 DEF IInv, JobInv, Live
  <2>10. DiskInv' /\ DownInv'
    BY <1>1, <2>3, <2>4, DiskSame DEF DownInv
  <2> QED BY <2>5, <2>7, <2>8, <2>9, <2>10 DEF IInv, Flow
<1> QED BY <1>2, <1>3 DEF IInv, TypeOK

LEMMA QuitReturnsKeeps == IInv /\ QuitReturns => IInv'
<1> SUFFICES ASSUME IInv, QuitReturns PROVE IInv'
  OBVIOUS
<1>1. /\ woken["quit"] # "no" /\ "quit" \in Party /\ woken # Asleep
      /\ app' = [app EXCEPT !.quit = IF woken["quit"] = "ok" THEN "finishing" ELSE "no"]
      /\ woken' = [woken EXCEPT !["quit"] = "no"]
      /\ UNCHANGED <<launcher, status, queue, job, shutdown, calls, os, disk, migration, dialog, used>>
  BY AsleepIs DEF QuitReturns, Party
<1>2. /\ app'.stage = app.stage /\ app'.run = app.run /\ app'.quit # "stopping"
      /\ app' \in [stage : {"down", "opening", "booting", "up"}, run : 0..MaxRuns, quit : {"no", "stopping", "finishing"}]
  BY <1>1 DEF IInv, TypeOK
<1>3. Flow' /\ JobInv'
  BY <1>1, <1>2, FlowHears DEF disk
<1>4. TypeOK'
  <2>1. woken' \in [Party -> {"no", "ok", "failed"}]
    BY <1>1 DEF IInv, TypeOK
  <2> QED BY <1>1, <1>2, <2>1 DEF IInv, TypeOK, os, disk
<1>5. app.stage # "down"
  BY <1>1 DEF IInv, DownInv
<1>6. CallInv' /\ StatusInv' /\ RunInv' /\ MindInv'
  BY <1>1, Undisturbed DEF Queued
<1>8. DownInv'
  BY <1>1, <1>2, <1>5 DEF IInv, DownInv
<1>7. DiskInv'
  BY <1>1, <1>2, DiskSame DEF disk
<1> QED BY <1>3, <1>4, <1>6, <1>7, <1>8 DEF IInv, Flow
----------------------------------------------------------------------------
(* The migration goes on, or gives up.                                     *)

\* The migration has given up.
LEMMA FlowOver ==
  ASSUME IInv, job = NoJob, \A k \in Queued : queue[k].by # "migration",
         migration' = NoMigration, woken'["migration"] = "no",
         \A p \in {"boot", "quit"} : woken'[p] = woken[p],
         UNCHANGED <<queue, job, shutdown, app>>
  PROVE  Flow' /\ JobInv'
<1>1. migration'.pc = "none"
  BY DEF NoMigration
<1>2. QueueInv' /\ BootInv'
  BY DEF IInv, QueueInv, BootInv, Queued
<1>3. MoveInv' /\ SwitchInv'
  BY <1>1 DEF MoveInv, SwitchInv, Moves, Queued
<1> QED BY <1>2, <1>3 DEF Flow, JobInv

\* No operation of the migration is under way.
LEMMA Unqueued ==
  ASSUME IInv, migration.pc = "copying" \/ woken["migration"] # "no"
  PROVE  /\ job = NoJob /\ migration.pc # "none" /\ app.stage # "down"
         /\ \A k \in Queued : queue[k].by # "migration"
         /\ {migration.source, migration.target} \subseteq Managed
         /\ migration.source # migration.target
<1>1. "migration" \in Party
  BY DEF Party
<1>2. job = NoJob
  BY <1>1, AsleepIs DEF IInv, JobInv, MoveInv
<1>3. migration.pc # "none" /\ \A k \in Queued : queue[k].by # "migration"
  BY DEF IInv, MoveInv, Moves
<1>4. app.stage # "down"
  BY <1>3 DEF IInv, DownInv
<1> QED BY <1>2, <1>3, <1>4 DEF IInv, MoveInv

Migrations == [pc : {"none", "stopping", "copying", "switching", "restoring"},
               source : Homes, target : Homes]

\* startHarness queues its start, or there is nothing left to do.
LEMMA Restarted ==
  ASSUME IInv, migration.pc = "copying" \/ woken["migration"] # "no", StartHarness,
         woken'["migration"] = "no", \A p \in {"boot", "quit"} : woken'[p] = woken[p],
         launcher'.active = launcher.active, UNCHANGED <<status, job, shutdown, calls, os, app>>
  PROVE  /\ Flow' /\ JobInv' /\ CallInv' /\ StatusInv' /\ RunInv' /\ MindInv' /\ DownInv'
         /\ queue' \in Seq(Operation) /\ migration' \in Migrations
<1>1. /\ job = NoJob /\ migration.pc # "none" /\ app.stage # "down"
      /\ \A k \in Queued : queue[k].by # "migration"
  BY Unqueued
<1>2. DownInv'
  BY <1>1 DEF DownInv
<1>3. migration \in Migrations /\ queue \in Seq(Operation)
  BY DEF IInv, TypeOK, Migrations
<1>4. CASE app.quit = "no" /\ status.phase # "running" /\ ~shutdown
  <2> DEFINE e == Op("start", "migration", None)
  <2>1. queue' = Append(queue, e) /\ migration' = [migration EXCEPT !.pc = "restoring"]
    BY <1>4 DEF StartHarness
  <2>2. e \in Operation /\ e.op = "start" /\ e.by = "migration"
    BY NewOp DEF Kinds, Homes, Party
  <2> HIDE DEF e
  <2>3. /\ migration' \in Migrations /\ migration'.pc = "restoring"
        /\ migration'.source = migration.source /\ migration'.target = migration.target
    BY <1>3, <2>1 DEF Migrations
  <2>4. Flow' /\ JobInv'
    BY <1>1, <1>4, <2>1, <2>2, <2>3, FlowQueues
  <2>5. queue' \in Seq(Operation) /\ \A k \in Queued : k \in Queued' /\ queue'[k] = queue[k]
    BY <2>1, <2>2, Joined DEF IInv
  <2>6. CallInv' /\ StatusInv' /\ RunInv' /\ MindInv'
    BY <2>5, Undisturbed
  <2> QED BY <1>2, <2>3, <2>4, <2>5, <2>6
<1>5. CASE ~(app.quit = "no" /\ status.phase # "running" /\ ~shutdown)
  <2>1. migration' = NoMigration /\ queue' = queue
    BY <1>5 DEF StartHarness
  <2>2. migration' \in Migrations
    BY <2>1 DEF NoMigration, Migrations, Homes
  <2>3. Flow' /\ JobInv'
    BY <1>1, <2>1, FlowOver
  <2>4. \A k \in Queued : k \in Queued' /\ queue'[k] = queue[k]
    BY <2>1 DEF Queued
  <2>5. CallInv' /\ StatusInv' /\ RunInv' /\ MindInv'
    BY <2>4, Undisturbed
  <2> QED BY <1>2, <1>3, <2>1, <2>2, <2>3, <2>5
<1> QED BY <1>4, <1>5

\* What is erased with the copy is still in the source.
LEMMA CopyErased ==
  ASSUME IInv, migration.pc = "copying" \/ woken["migration"] # "no",
         files[migration.target] \subseteq files[migration.source],
         RemoveTargetCopy, UNCHANGED <<written, app>>
  PROVE  /\ DiskInv' /\ files' \in [Home -> SUBSET Fact] /\ here' \subseteq Home
         /\ manifest' \in [Home -> Manifest \cup {None}]
<1> DEFINE s == migration.source
           t == migration.target
<1>1. s \in Home /\ t \in Home /\ s # t
  BY Unqueued DEF Home
<1>2. /\ files \in [Home -> SUBSET Fact] /\ here \subseteq Home
      /\ manifest \in [Home -> Manifest \cup {None}]
  BY DEF IInv, TypeOK
<1>3. CASE launcher.active = t
  <2>1. UNCHANGED <<files, here, manifest>>
    BY <1>3 DEF RemoveTargetCopy
  <2> QED BY <1>2, <2>1, DiskSame
<1>4. CASE launcher.active # t
  <2>1. /\ files' = [files EXCEPT ![t] = {}] /\ here' = here \ {t}
        /\ manifest' = [manifest EXCEPT ![t] = None]
    BY <1>4 DEF RemoveTargetCopy
  <2>2. files[t] \subseteq files[s]
    OBVIOUS
  <2> HIDE DEF s, t
  <2>3. /\ files' \in [Home -> SUBSET Fact] /\ files'[t] = {}
        /\ \A h \in Home : h # t => files'[h] = files[h]
    BY <1>1, <1>2, <2>1
  <2>4. /\ manifest' \in [Home -> Manifest \cup {None}] /\ manifest'[t] = None
        /\ \A h \in Home : h # t => manifest'[h] = manifest[h]
    BY <1>1, <1>2, <2>1
  <2>5. DataNeverLost'
    <3>1. \A f \in written : \E h \in Home : f \in files[h]
      BY DEF IInv, DiskInv, DataNeverLost
    <3>2. ASSUME NEW f \in written PROVE \E h \in Home : f \in files'[h]
      <4>1. PICK h \in Home : f \in files[h]
        BY <3>1
      <4>2. CASE h = t
        BY <1>1, <2>2, <2>3, <4>1, <4>2
      <4>3. CASE h # t
        BY <2>3, <4>1, <4>3
      <4> QED BY <4>2, <4>3
    <3> QED BY <3>2 DEF DataNeverLost
  <2>6. \A h \in Home : h \notin here' => files'[h] = {}
    BY <2>1, <2>3 DEF IInv, DiskInv
  <2>7. ASSUME NEW h \in Home, manifest'[h] # None
        PROVE  /\ manifest'[h].source # h
               /\ manifest'[h].items \subseteq files'[h]
               /\ manifest'[h].run <= app'.run
               /\ app'.stage \in {"opening", "booting"} => manifest'[h].run < app'.run \/ manifest'[h].early
               /\ manifest'[h].verification # "awaiting-restart" =>
                    manifest'[h].checked > manifest'[h].run \/ manifest'[h].early
    <3>1. manifest'[h] = manifest[h] /\ files'[h] = files[h] /\ app' = app
      BY <2>3, <2>4, <2>7
    <3> QED BY <2>7, <3>1 DEF IInv, DiskInv
  <2> QED BY <1>2, <2>1, <2>3, <2>4, <2>5, <2>6, <2>7 DEF DiskInv
<1> QED BY <1>3, <1>4

LEMMA MigrationTypes ==
  ASSUME IInv, launcher' \in Launchers, queue' \in Seq(Operation), migration' \in Migrations,
         woken' \in [Party -> {"no", "ok", "failed"}],
         files' \in [Home -> SUBSET Fact], here' \subseteq Home,
         manifest' \in [Home -> Manifest \cup {None}],
         UNCHANGED <<status, job, shutdown, calls, os, written, app, dialog, used>>
  PROVE  TypeOK'
  BY DEF IInv, TypeOK, Launchers, Migrations, os

\* A caller's wake is consumed.
LEMMA Consumed ==
  ASSUME IInv, NEW pc, Woken(pc)
  PROVE  /\ woken["migration"] # "no" /\ migration.pc = pc /\ woken # Asleep
         /\ woken' = [woken EXCEPT !["migration"] = "no"] /\ woken'["migration"] = "no"
         /\ \A p \in {"boot", "quit"} : woken'[p] = woken[p]
         /\ woken' \in [Party -> {"no", "ok", "failed"}]
         /\ launcher \in Launchers /\ "migration" \in Party
         /\ migration \in Migrations /\ queue \in Seq(Operation)
         /\ files \in [Home -> SUBSET Fact] /\ here \subseteq Home
         /\ manifest \in [Home -> Manifest \cup {None}]
         /\ UNCHANGED <<launcher, status, job, shutdown, calls, os, written, app, dialog, used>>
<1>1. "migration" \in Party /\ "boot" \in Party /\ "quit" \in Party
  BY DEF Party
<1>2. woken \in [Party -> {"no", "ok", "failed"}]
  BY DEF IInv, TypeOK
<1>3. /\ woken["migration"] # "no" /\ migration.pc = pc
      /\ woken' = [woken EXCEPT !["migration"] = "no"]
      /\ UNCHANGED <<launcher, status, job, shutdown, calls, os, written, app, dialog, used>>
  BY DEF Woken
<1>4. /\ launcher \in Launchers /\ migration \in Migrations /\ queue \in Seq(Operation)
      /\ files \in [Home -> SUBSET Fact] /\ here \subseteq Home
      /\ manifest \in [Home -> Manifest \cup {None}]
  BY DEF IInv, TypeOK, Launchers, Migrations
<1> QED BY <1>1, <1>2, <1>3, <1>4, AsleepIs

\* The migration is over and nothing else has happened.
LEMMA OverKeeps ==
  ASSUME IInv, NEW pc, Woken(pc), migration' = NoMigration, UNCHANGED <<queue, files, here, manifest>>
  PROVE  IInv'
<1>1. /\ woken["migration"] # "no" /\ woken'["migration"] = "no"
      /\ \A p \in {"boot", "quit"} : woken'[p] = woken[p]
      /\ woken' \in [Party -> {"no", "ok", "failed"}] /\ launcher \in Launchers
      /\ queue \in Seq(Operation) /\ files \in [Home -> SUBSET Fact] /\ here \subseteq Home
      /\ manifest \in [Home -> Manifest \cup {None}]
      /\ UNCHANGED <<launcher, status, job, shutdown, calls, os, written, app, dialog, used>>
  BY Consumed
<1>2. /\ job = NoJob /\ app.stage # "down" /\ \A k \in Queued : queue[k].by # "migration"
  BY <1>1, Unqueued
<1>3. Flow' /\ JobInv'
  BY <1>1, <1>2, FlowOver
<1>4. \A k \in Queued : k \in Queued' /\ queue'[k] = queue[k]
  BY DEF Queued
<1>5. CallInv' /\ StatusInv' /\ RunInv' /\ MindInv'
  BY <1>1, <1>4, Undisturbed
<1>6. DiskInv' /\ DownInv'
  BY <1>1, <1>2, DiskSame DEF DownInv
<1>7. migration' \in Migrations
  BY DEF NoMigration, Migrations, Homes
<1>8. TypeOK'
  BY <1>1, <1>7, MigrationTypes
<1> QED BY <1>3, <1>5, <1>6, <1>8 DEF IInv, Flow

LEMMA HarnessStoppedKeeps == IInv /\ HarnessStopped => IInv'
<1> SUFFICES ASSUME IInv, HarnessStopped PROVE IInv'
  OBVIOUS
<1>1. Woken("stopping") /\ UNCHANGED <<files, here, manifest>>
  BY DEF HarnessStopped
<1>2. /\ woken["migration"] # "no" /\ migration.pc = "stopping" /\ woken # Asleep
      /\ woken' = [woken EXCEPT !["migration"] = "no"] /\ woken'["migration"] = "no"
      /\ \A p \in {"boot", "quit"} : woken'[p] = woken[p]
      /\ woken' \in [Party -> {"no", "ok", "failed"}] /\ launcher \in Launchers
      /\ "migration" \in Party /\ migration \in Migrations
      /\ queue \in Seq(Operation) /\ files \in [Home -> SUBSET Fact] /\ here \subseteq Home
      /\ manifest \in [Home -> Manifest \cup {None}]
      /\ UNCHANGED <<launcher, status, job, shutdown, calls, os, written, app, dialog, used>>
  BY <1>1, Consumed
<1>3. app.stage # "down"
  BY <1>2, Unqueued
<1>4. DiskInv'
  BY <1>1, <1>2, DiskSame
<1>5. CASE migration' = NoMigration /\ UNCHANGED queue
  BY <1>1, <1>5, OverKeeps
<1>6. CASE StartHarness
  <2>1. /\ Flow' /\ JobInv' /\ CallInv' /\ StatusInv' /\ RunInv' /\ MindInv' /\ DownInv'
        /\ queue' \in Seq(Operation) /\ migration' \in Migrations
    BY <1>2, <1>6, Restarted
  <2>2. TypeOK'
    BY <1>1, <1>2, <2>1, MigrationTypes
  <2> QED BY <1>4, <2>1, <2>2 DEF IInv, Flow
<1>7. CASE /\ launcher.active = migration.source
           /\ migration' = [migration EXCEPT !.pc = "copying"] /\ UNCHANGED queue
  <2>1. migration' \in Migrations /\ migration'.pc = "copying"
    BY <1>2, <1>7 DEF Migrations
  <2>2. Flow' /\ JobInv'
    BY <1>1, <1>2, <1>7, <2>1, FlowHears
  <2>3. \A k \in Queued : k \in Queued' /\ queue'[k] = queue[k]
    BY <1>7 DEF Queued
  <2>4. CallInv' /\ StatusInv' /\ RunInv' /\ MindInv'
    BY <1>2, <2>3, Undisturbed
  <2>5. DownInv'
    BY <1>2, <1>3 DEF DownInv
  <2>6. TypeOK'
    BY <1>1, <1>2, <1>7, <2>1, MigrationTypes
  <2> QED BY <1>4, <2>2, <2>4, <2>5, <2>6 DEF IInv, Flow
<1> QED BY <1>5, <1>6, <1>7 DEF HarnessStopped

LEMMA HomeSwitchedKeeps == IInv /\ (HomeSwitched \/ HarnessRestored) => IInv'
<1> SUFFICES ASSUME IInv, HomeSwitched \/ HarnessRestored PROVE IInv'
  OBVIOUS
<1>1. CASE HarnessRestored
  BY <1>1, OverKeeps DEF HarnessRestored
<1>2. CASE Woken("switching") /\ Moved /\ migration' = NoMigration /\ UNCHANGED <<queue, files, here, manifest>>
  BY <1>2, OverKeeps
<1>3. CASE Woken("switching") /\ RemoveTargetCopy /\ StartHarness
  <2>1. /\ woken["migration"] # "no" /\ migration.pc = "switching" /\ woken'["migration"] = "no"
        /\ \A p \in {"boot", "quit"} : woken'[p] = woken[p]
        /\ woken' \in [Party -> {"no", "ok", "failed"}] /\ launcher \in Launchers
        /\ UNCHANGED <<launcher, status, job, shutdown, calls, os, written, app, dialog, used>>
    BY <1>3, Consumed
  <2>2. files[migration.target] \subseteq files[migration.source]
    BY <2>1 DEF IInv, SwitchInv
  <2>3. /\ DiskInv' /\ files' \in [Home -> SUBSET Fact] /\ here' \subseteq Home
        /\ manifest' \in [Home -> Manifest \cup {None}]
    BY <1>3, <2>1, <2>2, CopyErased
  <2>4. /\ Flow' /\ JobInv' /\ CallInv' /\ StatusInv' /\ RunInv' /\ MindInv' /\ DownInv'
        /\ queue' \in Seq(Operation) /\ migration' \in Migrations
    BY <1>3, <2>1, Restarted
  <2>5. TypeOK'
    BY <2>1, <2>3, <2>4, MigrationTypes
  <2> QED BY <2>3, <2>4, <2>5 DEF IInv, Flow
<1> QED BY <1>1, <1>2, <1>3 DEF HomeSwitched

LEMMA CopyFailsKeeps == IInv /\ CopyFails => IInv'
<1> SUFFICES ASSUME IInv, CopyFails PROVE IInv'
  OBVIOUS
<1>1. /\ migration.pc = "copying" /\ StartHarness
      /\ UNCHANGED <<status, job, shutdown, calls, woken, os, written, app, dialog, used>>
  BY DEF CopyFails
<1>2. /\ launcher \in Launchers /\ woken \in [Party -> {"no", "ok", "failed"}]
      /\ files \in [Home -> SUBSET Fact] /\ here \subseteq Home
      /\ manifest \in [Home -> Manifest \cup {None}]
  BY DEF IInv, TypeOK, Launchers
<1>3. launcher' \in Launchers /\ launcher'.active = launcher.active
  BY <1>2 DEF CopyFails, Launchers, Homes
<1>4. woken["migration"] = "no" /\ {migration.source, migration.target} \subseteq Home
  BY <1>1 DEF IInv, MoveInv, Home
<1>5. /\ DiskInv' /\ files' \in [Home -> SUBSET Fact] /\ here' \subseteq Home
      /\ manifest' \in [Home -> Manifest \cup {None}]
  <2>1. CASE UNCHANGED <<files, here, manifest>>
    BY <1>1, <1>2, <2>1, DiskSame
  <2>2. CASE migration.target \notin here /\ RemoveTargetCopy
    <3>1. files[migration.target] = {}
      BY <1>4, <2>2 DEF IInv, DiskInv
    <3>2. files[migration.target] \subseteq files[migration.source]
      BY <3>1
    <3> QED BY <1>1, <2>2, <3>2, CopyErased
  <2> QED BY <2>1, <2>2 DEF CopyFails
<1>6. /\ Flow' /\ JobInv' /\ CallInv' /\ StatusInv' /\ RunInv' /\ MindInv' /\ DownInv'
      /\ queue' \in Seq(Operation) /\ migration' \in Migrations
  BY <1>1, <1>3, <1>4, Restarted
<1>7. TypeOK'
  BY <1>1, <1>2, <1>3, <1>5, <1>6, MigrationTypes
<1> QED BY <1>5, <1>6, <1>7 DEF IInv, Flow

LEMMA CopyKeeps == IInv /\ Copy => IInv'
<1> SUFFICES ASSUME IInv, Copy PROVE IInv'
  OBVIOUS
<1> DEFINE s == migration.source
           t == migration.target
           e == Op("switch", "migration", t)
           m == [source |-> s, items |-> files[s], run |-> app.run,
                 early |-> app.stage = "opening", checked |-> 0, verification |-> "awaiting-restart", cleanup |-> "pending"]
<1>1. /\ migration.pc = "copying" /\ t \notin here
      /\ files' = [files EXCEPT ![t] = files[s]]
      /\ here' = here \cup {t}
      /\ manifest' = [manifest EXCEPT ![t] = m]
      /\ launcher' = [launcher EXCEPT !.lkg = launcher.active]
      /\ app.quit = "no" /\ ~shutdown
      /\ queue' = Append(queue, e)
      /\ migration' = [migration EXCEPT !.pc = "switching"]
      /\ UNCHANGED <<status, job, shutdown, calls, woken, os, written, app, dialog, used>>
  BY DEF Copy
<1>2. /\ job = NoJob /\ app.stage # "down" /\ \A k \in Queued : queue[k].by # "migration"
      /\ {s, t} \subseteq Managed /\ s # t
  BY <1>1, Unqueued
<1>3. s \in Home /\ t \in Home
  BY <1>2 DEF Home
<1>4. /\ woken["migration"] = "no" /\ launcher.active = s /\ app.stage # "booting" /\ NoWork
  BY <1>1 DEF IInv, MoveInv
<1>5. /\ launcher \in Launchers /\ woken \in [Party -> {"no", "ok", "failed"}]
      /\ files \in [Home -> SUBSET Fact] /\ here \subseteq Home
      /\ manifest \in [Home -> Manifest \cup {None}] /\ migration \in Migrations
      /\ app.run \in 0..MaxRuns /\ 0 \in 0..MaxRuns
  BY HostAssumption DEF IInv, TypeOK, Launchers, Migrations
<1>6. e \in Operation /\ e.op = "switch" /\ e.by = "migration" /\ e.home = t
  BY <1>3, NewOp DEF Kinds, Homes, Party
<1>7. /\ m \in Manifest /\ m.source = s /\ m.items = files[s] /\ m.run = app.run
      /\ m.verification = "awaiting-restart"
      /\ m.early = (app.stage = "opening")
  BY <1>2, <1>3, <1>5 DEF Manifest
<1> HIDE DEF e, m
<1>8. launcher' \in Launchers /\ launcher'.active = launcher.active /\ launcher'.lkg = s
  BY <1>1, <1>4, <1>5 DEF Launchers, Homes
<1>9. /\ migration' \in Migrations /\ migration'.pc = "switching"
      /\ migration'.source = migration.source /\ migration'.target = migration.target
  BY <1>1, <1>5 DEF Migrations
<1>10. /\ files' \in [Home -> SUBSET Fact] /\ files'[t] = files[s]
       /\ \A h \in Home : h # t => files'[h] = files[h]
  BY <1>1, <1>3, <1>5
<1>11. /\ manifest' \in [Home -> Manifest \cup {None}] /\ manifest'[t] = m
       /\ \A h \in Home : h # t => manifest'[h] = manifest[h]
  BY <1>1, <1>3, <1>5, <1>7
<1>12. files'[migration.target] \subseteq files'[migration.source]
  BY <1>2, <1>3, <1>10
<1>13. Flow' /\ JobInv'
  BY <1>1, <1>2, <1>4, <1>6, <1>8, <1>9, <1>12, FlowQueues
<1>14. queue' \in Seq(Operation) /\ \A k \in Queued : k \in Queued' /\ queue'[k] = queue[k]
  BY <1>1, <1>6, Joined DEF IInv
<1>15. CallInv' /\ StatusInv' /\ RunInv' /\ MindInv'
  BY <1>1, <1>8, <1>14, Undisturbed
<1>16. DownInv'
  BY <1>1, <1>2 DEF DownInv
<1>17. here' \subseteq Home
  BY <1>1, <1>3, <1>5
<1>18. TypeOK'
  BY <1>1, <1>5, <1>8, <1>9, <1>10, <1>11, <1>14, <1>17, MigrationTypes
<1>19. files[t] = {}
  BY <1>1, <1>3 DEF IInv, DiskInv
<1>20. DiskInv'
  <2>1. DataNeverLost'
    <3>1. \A h \in Home : files[h] \subseteq files'[h]
      BY <1>10, <1>19
    <3> QED BY <1>1, <3>1 DEF IInv, DiskInv, DataNeverLost
  <2>2. \A h \in Home : h \notin here' => files'[h] = {}
    BY <1>1, <1>10 DEF IInv, DiskInv
  <2>3. ASSUME NEW h \in Home, manifest'[h] # None
        PROVE  /\ manifest'[h].source # h
               /\ manifest'[h].items \subseteq files'[h]
               /\ manifest'[h].run <= app'.run
               /\ app'.stage \in {"opening", "booting"} => manifest'[h].run < app'.run \/ manifest'[h].early
               /\ manifest'[h].verification # "awaiting-restart" =>
                    manifest'[h].checked > manifest'[h].run \/ manifest'[h].early
    <3>1. CASE h = t
      <4>1. app.stage \in {"opening", "booting"} => m.early
        BY <1>4, <1>7
      <4>2. manifest'[h] = m /\ app' = app /\ files'[h] = files[s]
        BY <1>1, <1>10, <1>11, <3>1
      <4>3. app.run <= app.run
        BY <1>5
      <4> HIDE DEF s, t
      <4> QED BY <1>2, <1>7, <3>1, <4>1, <4>2, <4>3
    <3>2. CASE h # t
      BY <1>1, <1>10, <1>11, <2>3, <3>2 DEF IInv, DiskInv
    <3> QED BY <3>1, <3>2
  <2> QED BY <2>1, <2>2, <2>3 DEF DiskInv
<1> QED BY <1>13, <1>15, <1>16, <1>18, <1>20 DEF IInv, Flow
----------------------------------------------------------------------------
(* Stops asked for while others work: quitting, and moving the home.       *)

LEMMA StopKeeps ==
  ASSUME IInv, Quiet, CallStop, app.stage # "down", app'.stage = app.stage, app'.run = app.run,
         app' \in [stage : {"down", "opening", "booting", "up"}, run : 0..MaxRuns, quit : {"no", "stopping", "finishing"}],
         \/ UNCHANGED migration
         \/ /\ migration.pc = "none" /\ migration'.pc = "stopping"
            /\ {migration'.source, migration'.target} \subseteq Managed
            /\ migration'.source # migration'.target /\ migration' \in Migrations,
         used' \in 0..MaxCalls,
         UNCHANGED <<launcher, job, woken, settled, proc, disk, dialog>>
  PROVE  IInv'
<1>1. woken = Asleep /\ migration.pc # "copying"
  BY DEF Quiet
<1>2. UNCHANGED <<files, here, manifest, written>>
  BY DEF disk
<1>3. Flow' /\ shutdown' /\ (job # NoJob /\ job.op = "stop" => NoWork')
  BY <1>1, <1>2, FlowStops
<1>4. MachineTypes
  BY Machine DEF IInv
<1>5. migration' \in Migrations
  BY DEF IInv, TypeOK, Migrations
<1>6. /\ MachineTypes' /\ CallInv' /\ queue' \in Seq(Operation) /\ shutdown' \in BOOLEAN
      /\ Live(child)' => child' = child
      /\ status'.phase # "running"
  <2>1. CASE shutdown
    <3>1. UNCHANGED <<status, queue, shutdown, calls, child, stopped>>
      BY <2>1 DEF CallStop
    <3>2. status.phase # "running"
      BY <2>1 DEF IInv, RunInv
    <3> QED BY <1>4, <3>1, <3>2 DEF IInv, TypeOK, CallInv, MachineTypes, Live
  <2>2. CASE ~shutdown
    <3>1. /\ shutdown' = TRUE /\ status' = [phase |-> "stopping", home |-> None]
          /\ StopCall("stop")
          /\ queue' = Append(queue, Op("stop", "all", None))
      BY <2>2 DEF CallStop
    <3>2. calls["stop"] = "none" /\ "stop" \in Callees /\ "job" \in Callees
      BY <2>2 DEF IInv, CallInv, Callees
    <3>3. /\ calls' \in [Callees -> Proc \cup {"none", "done", "failed"}]
          /\ child' \in Proc \cup {None} /\ stopped' \in BOOLEAN
          /\ calls'["stop"] \in Proc \cup {"done"}
          /\ calls'["job"] = calls["job"]
          /\ \A v \in Callees : calls'[v] \in Proc => Live(calls[v])'
          /\ stopped' => \E v \in Callees : calls'[v] \in Proc
          /\ Live(child)' => child' = child /\ Live(child)
      BY <3>1, <3>2, StopCalled
    <3>4. calls'["stop"] # "none"
      BY <3>3, ProcIsNot
    <3>5. CallInv'
      BY <3>1, <3>3, <3>4 DEF IInv, CallInv, Callees, Awaiting
    <3>6. Op("stop", "all", None) \in Operation
      BY NewOp DEF Kinds, Homes
    <3>7. queue' \in Seq(Operation)
      BY <3>1, <3>6, Joined DEF IInv
    <3>8. MachineTypes'
      BY <1>4, <3>1, <3>3 DEF MachineTypes, Homes
    <3> QED BY <3>1, <3>3, <3>5, <3>7, <3>8
  <2> QED BY <2>1, <2>2
<1>7. TypeOK'
  BY <1>2, <1>5, <1>6 DEF IInv, TypeOK, MachineTypes, Launchers, Callees, Process, Migrations
<1>8. JobInv'
  BY <1>3, <1>6 DEF IInv, JobInv, Live
<1>9. StatusInv' /\ RunInv' /\ DownInv'
  BY <1>3, <1>6 DEF StatusInv, RunInv, DownInv
<1>10. DiskInv'
  BY <1>2, DiskSame
<1>11. MindInv'
  <2>1. CASE shutdown
    BY <2>1, MindSame DEF CallStop
  <2>2. CASE ~shutdown
    <3>1. StopCall("stop") /\ calls["stop"] = "none" /\ "stop" \in Callees /\ "job" \in Callees
      BY <2>2 DEF CallStop, IInv, CallInv, Callees
    <3>2. /\ calls'["job"] = calls["job"] /\ (Live(child) => child' = child /\ calls'["stop"] = child)
          /\ Live(child)' => child' = child /\ Live(child)
          /\ \A p \in Proc : Live(p)' <=> Live(p)
      BY <1>4, <3>1 DEF StopCall, Callees, MachineTypes, Live
    <3>3. \A p \in Proc : Minded(p) => Minded(p)'
      BY <3>1, <3>2, ProcIsNot DEF Minded, Callees
    <3>4. ASSUME NEW p \in Proc, Live(p) PROVE Minded(p)'
      BY <3>1, <3>2, <3>3, <3>4 DEF Minded, IInv, MindInv
    <3>5. \A p \in Proc : proc[p].state = "spawned" => Live(p)
      BY ProcIsNot DEF Live
    <3>6. job # NoJob /\ job.pc \in {"ready", "loading"} => ~settled
      BY DEF IInv, MindInv
    <3> QED BY <1>3, <3>2, <3>4, <3>5, <3>6 DEF MindInv
  <2> QED BY <2>1, <2>2 DEF IInv, TypeOK
<1> QED BY <1>3, <1>6, <1>7, <1>8, <1>9, <1>10, <1>11 DEF IInv, Flow

LEMMA QuitKeeps == IInv /\ Quiet /\ Quit => IInv'
<1> SUFFICES ASSUME IInv, Quiet, Quit PROVE IInv'
  OBVIOUS
<1>1. /\ app.stage # "down" /\ CallStop /\ app' = [app EXCEPT !.quit = "stopping"]
      /\ UNCHANGED <<launcher, job, woken, settled, proc, disk, migration, dialog, used>>
  BY DEF Quit
<1>2. /\ app'.stage = app.stage /\ app'.run = app.run
      /\ app' \in [stage : {"down", "opening", "booting", "up"}, run : 0..MaxRuns, quit : {"no", "stopping", "finishing"}]
      /\ used' \in 0..MaxCalls
  BY <1>1 DEF IInv, TypeOK
<1> QED BY <1>1, <1>2, StopKeeps

LEMMA Commanded ==
  ASSUME IInv, Command
  PROVE  app.stage # "down" /\ used' \in 0..MaxCalls
BY HostAssumption DEF IInv, TypeOK, Command

LEMMA MigrateKeeps ==
  ASSUME IInv, Quiet, NEW t \in Managed, Migrate(t)
  PROVE  IInv'
<1>1. /\ Command /\ migration.pc = "none" /\ CallStop
      /\ launcher.active \in Managed \cap here /\ t \in Managed \ here
      /\ migration' = [pc |-> "stopping", source |-> launcher.active, target |-> t]
      /\ UNCHANGED <<launcher, job, woken, settled, proc, disk, app, dialog>>
  BY DEF Migrate, Migrating
<1>2. app \in [stage : {"down", "opening", "booting", "up"}, run : 0..MaxRuns, quit : {"no", "stopping", "finishing"}]
  BY DEF IInv, TypeOK
<1>3. app.stage # "down" /\ used' \in 0..MaxCalls
  BY <1>1, Commanded
<1>4. /\ migration'.pc = "stopping" /\ migration'.source # migration'.target
      /\ {migration'.source, migration'.target} \subseteq Managed
      /\ migration' \in Migrations
  BY <1>1 DEF Migrations, Homes, Home
<1> QED BY <1>1, <1>2, <1>3, <1>4, StopKeeps

\* A command of the user queues an operation, or gives way to a stop.
LEMMA SubmitKeeps ==
  ASSUME IInv, Quiet, Submitted, app.stage # "down", used' \in 0..MaxCalls,
         dialog' \in {None} \cup Held,
         \/ UNCHANGED queue
         \/ \E op \in {"switch", "restart"}, home \in Homes :
              Submit(op, home) /\ (op = "switch" => home \in Home)
  PROVE  IInv'
<1>1. UNCHANGED <<launcher, status, job, shutdown, calls, woken, child, stopped, settled, proc,
                  files, here, manifest, written, app, migration>>
  BY DEF Submitted, os, disk
<1>2. woken = Asleep /\ migration.pc # "copying"
  BY DEF Quiet
<1>3. /\ Flow' /\ (job # NoJob /\ job.op = "stop" => NoWork') /\ queue' \in Seq(Operation)
      /\ \A k \in Queued : k \in Queued' /\ queue'[k] = queue[k]
  <2>1. CASE UNCHANGED queue
    <3>1. Flow'
      BY <1>1, <2>1, FlowSame DEF IInv, SwitchInv
    <3> QED BY <2>1, <3>1 DEF IInv, TypeOK, JobInv, NoWork, Queued
  <2>2. CASE /\ ~shutdown
             /\ \E op \in {"switch", "restart"}, home \in Homes :
                  queue' = Append(queue, Op(op, "user", home)) /\ (op = "switch" => home \in Home)
    <3>1. PICK op \in {"switch", "restart"}, home \in Homes :
                  queue' = Append(queue, Op(op, "user", home)) /\ (op = "switch" => home \in Home)
      BY <2>2
    <3> DEFINE e == Op(op, "user", home)
    <3>2. e \in Operation /\ e.op = op /\ e.by = "user" /\ e.home = home
      BY NewOp DEF Kinds
    <3> HIDE DEF e
    <3>3. queue' = Append(queue, e) /\ e.op \in {"switch", "restart"} /\ (e.op = "switch" => e.home \in Home)
      BY <3>1, <3>2 DEF e
    <3>4. Flow' /\ (job # NoJob /\ job.op = "stop" => NoWork')
      BY <1>1, <1>2, <2>2, <3>2, <3>3, FlowJoins
    <3>5. queue' \in Seq(Operation) /\ \A k \in Queued : k \in Queued' /\ queue'[k] = queue[k]
      BY <3>2, <3>3, Joined DEF IInv
    <3> QED BY <3>4, <3>5
  <2> QED BY <2>1, <2>2 DEF Submit
<1>4. CallInv' /\ StatusInv' /\ RunInv' /\ MindInv'
  BY <1>1, <1>3, Undisturbed DEF os
<1>5. TypeOK'
  BY <1>1, <1>3 DEF IInv, TypeOK
<1>6. JobInv'
  BY <1>1, <1>3 DEF IInv, JobInv, Live
<1>7. DiskInv' /\ DownInv'
  BY <1>1, DiskSame DEF DownInv
<1> QED BY <1>3, <1>4, <1>5, <1>6, <1>7 DEF IInv, Flow

LEMMA AskKeeps ==
  ASSUME IInv, Quiet, NEW op \in {"switch", "restart"}, NEW home \in Homes, Ask(op, home),
         op = "switch" => home \in Home, op = "restart" => home = None
  PROVE  IInv'
<1>1. Command /\ Submitted /\ dialog \in {None} \cup Held
  BY DEF Ask, IInv, TypeOK
<1>2. Op(op, "user", home) \in Held
  BY DEF Held
<1>3. \/ dialog' = Op(op, "user", home) /\ UNCHANGED queue
      \/ Submit(op, home) /\ UNCHANGED dialog
  BY DEF Ask
<1>4. dialog' \in {None} \cup Held
  BY <1>1, <1>2, <1>3
<1> QED BY <1>1, <1>3, <1>4, Commanded, SubmitKeeps

LEMMA UserKeeps ==
  ASSUME IInv, Quiet,
         Restart \/ UseManagedHome \/ SwitchProfile \/ Confirm \/ \E h \in Existing : ChooseExisting(h)
  PROVE  IInv'
<1>1. launcher.active \in Home /\ dialog \in {None} \cup Held /\ used \in 0..MaxCalls
  BY DEF IInv, TypeOK
<1>2. Default \in Home /\ Existing \subseteq Home /\ Home \subseteq Homes /\ None \in Homes
  BY HostAssumption DEF Home, Homes
<1>3. CASE Restart
  BY <1>2, <1>3, AskKeeps DEF Restart
<1>4. CASE UseManagedHome
  BY <1>2, <1>4, AskKeeps DEF UseManagedHome
<1>5. ASSUME NEW h \in Existing, ChooseExisting(h) PROVE IInv'
  BY <1>2, <1>5, AskKeeps DEF ChooseExisting
<1>6. CASE SwitchProfile
  BY <1>1, <1>2, <1>6, AskKeeps DEF SwitchProfile
<1>7. CASE Confirm
  <2>1. dialog # None /\ Submit(dialog.op, dialog.home) /\ dialog' = None /\ used' = used /\ Submitted
    BY <1>7 DEF Confirm
  <2>2. app.stage # "down"
    BY <2>1 DEF IInv, DownInv
  <2>3. dialog.op \in {"switch", "restart"} /\ dialog.home \in Homes
        /\ (dialog.op = "switch" => dialog.home \in Home)
    BY <1>1, <1>2, <2>1 DEF Held, Op
  <2> QED BY <1>1, <1>2, <2>1, <2>2, <2>3, SubmitKeeps
<1> QED BY <1>3, <1>4, <1>5, <1>6, <1>7

\* The old copy is deleted only where the active home holds all of it.
LEMMA CleanupKeeps == IInv /\ Cleanup => IInv'
<1> SUFFICES ASSUME IInv, Cleanup PROVE IInv'
  OBVIOUS
<1> DEFINE h == launcher.active
           s == manifest[h].source
<1>1. /\ migration.pc = "none" /\ manifest[h] # None /\ manifest[h].verification = "verified"
      /\ app.stage # "down" /\ UNCHANGED <<ctl, os, written, ui>>
  BY DEF Cleanup, Migrating
<1>2. UNCHANGED <<launcher, status, queue, job, shutdown, calls, woken, child, stopped, settled, proc,
                  app, migration, dialog, used>>
  BY <1>1 DEF ctl, os, ui
<1>3. /\ files \in [Home -> SUBSET Fact] /\ here \subseteq Home
      /\ manifest \in [Home -> Manifest \cup {None}] /\ h \in Home
  BY DEF IInv, TypeOK
<1>4. /\ manifest[h] \in Manifest /\ s # h /\ s \in Home /\ manifest[h].items \subseteq files[h]
  BY <1>1, <1>3 DEF IInv, DiskInv, Manifest, Home
<1>5. Flow'
  BY <1>1, <1>2, FlowSame
<1>10. MindInv'
  BY <1>2, MindSame
<1>6. JobInv' /\ CallInv' /\ StatusInv' /\ DownInv'
  BY <1>2 DEF IInv, JobInv, CallInv, StatusInv, DownInv, NoWork, Queued, Live
<1>7. RunInv'
  BY <1>2 DEF IInv, RunInv, Queued, Live
<1>8. /\ files' \in [Home -> SUBSET Fact] /\ here' \subseteq Home
      /\ manifest' \in [Home -> Manifest \cup {None}] /\ DiskInv'
  <2>1. ASSUME NEW c \in {"done", "partial"}
        PROVE  LET m == [manifest[h] EXCEPT !.cleanup = c]
               IN /\ m \in Manifest /\ m.source = s /\ m.items = manifest[h].items
                  /\ m.run = manifest[h].run /\ m.checked = manifest[h].checked
                  /\ m.verification = manifest[h].verification /\ m.early = manifest[h].early
    BY <1>4 DEF Manifest
  <2>2. CASE /\ files[s] = manifest[h].items
             /\ files' = [files EXCEPT ![s] = {}] /\ here' = here \ {s}
             /\ \/ manifest' = [[manifest EXCEPT ![s] = None] EXCEPT ![h].cleanup = "done"]
                \/ manifest' = [manifest EXCEPT ![s] = None]
    <3> DEFINE n == [manifest EXCEPT ![s] = None]
               m == IF manifest' = n THEN manifest[h] ELSE [manifest[h] EXCEPT !.cleanup = "done"]
    <3>1. /\ m \in Manifest /\ m.source = s /\ m.items = manifest[h].items
          /\ m.run = manifest[h].run /\ m.checked = manifest[h].checked
          /\ m.verification = manifest[h].verification /\ m.early = manifest[h].early
      BY <1>4, <2>1
    <3>2. files[s] \subseteq files[h]
      BY <1>4, <2>2
    <3>9. /\ n \in [Home -> Manifest \cup {None}] /\ n[s] = None /\ n[h] = manifest[h]
          /\ \A x \in Home : x # s => n[x] = manifest[x]
      BY <1>3, <1>4
    <3>3. manifest' = [n EXCEPT ![h] = m]
      BY <2>2, <3>9
    <3> HIDE DEF h, s, m, n
    <3>4. /\ files' \in [Home -> SUBSET Fact] /\ files'[s] = {}
          /\ \A x \in Home : x # s => files'[x] = files[x]
      BY <1>3, <1>4, <2>2
    <3>5. /\ manifest' \in [Home -> Manifest \cup {None}] /\ manifest'[s] = None /\ manifest'[h] = m
          /\ \A x \in Home : x # s /\ x # h => manifest'[x] = manifest[x]
      BY <1>3, <1>4, <3>1, <3>3, <3>9
    <3>6. DataNeverLost'
      <4>1. ASSUME NEW f \in written PROVE \E x \in Home : f \in files'[x]
        <5>1. PICK x \in Home : f \in files[x]
          BY DEF IInv, DiskInv, DataNeverLost
        <5>2. CASE x = s
          BY <1>3, <1>4, <3>2, <3>4, <5>1, <5>2
        <5>3. CASE x # s
          BY <3>4, <5>1, <5>3
        <5> QED BY <5>2, <5>3
      <4> QED BY <1>1, <4>1 DEF DataNeverLost
    <3>7. \A x \in Home : x \notin here' => files'[x] = {}
      BY <2>2, <3>4 DEF IInv, DiskInv
    <3>8. ASSUME NEW x \in Home, manifest'[x] # None
          PROVE  /\ manifest'[x].source # x
                 /\ manifest'[x].items \subseteq files'[x]
                 /\ manifest'[x].run <= app'.run
                 /\ app'.stage \in {"opening", "booting"} => manifest'[x].run < app'.run \/ manifest'[x].early
                 /\ manifest'[x].verification # "awaiting-restart" =>
                      manifest'[x].checked > manifest'[x].run \/ manifest'[x].early
      <4>1. x # s /\ app' = app /\ manifest[x] # None
        BY <1>1, <1>2, <3>5, <3>8 DEF h
      <4>2. manifest'[x].source = manifest[x].source /\ manifest'[x].items = manifest[x].items
        BY <3>1, <3>5, <4>1 DEF s
      <4>3. /\ manifest'[x].run = manifest[x].run /\ manifest'[x].checked = manifest[x].checked
            /\ manifest'[x].verification = manifest[x].verification
            /\ manifest'[x].early = manifest[x].early
        BY <3>1, <3>5, <4>1
      <4> QED BY <3>4, <4>1, <4>2, <4>3 DEF IInv, DiskInv
    <3> QED BY <1>3, <2>2, <3>4, <3>5, <3>6, <3>7, <3>8 DEF DiskInv
  <2>3. CASE manifest' = [manifest EXCEPT ![h].cleanup = "partial"] /\ UNCHANGED <<files, here>>
    <3> DEFINE m == [manifest[h] EXCEPT !.cleanup = "partial"]
    <3>1. /\ m \in Manifest /\ m.source = s /\ m.items = manifest[h].items
          /\ m.run = manifest[h].run /\ m.checked = manifest[h].checked
          /\ m.verification = manifest[h].verification /\ m.early = manifest[h].early
      BY <2>1
    <3>2. manifest' = [manifest EXCEPT ![h] = m]
      BY <1>3, <2>3
    <3> HIDE DEF h, m
    <3>3. /\ manifest' \in [Home -> Manifest \cup {None}] /\ manifest'[h] = m
          /\ \A x \in Home : x # h => manifest'[x] = manifest[x]
      BY <1>3, <3>1, <3>2
    <3>4. DataNeverLost' /\ \A x \in Home : x \notin here' => files'[x] = {}
      BY <1>1, <2>3 DEF IInv, DiskInv, DataNeverLost
    <3>5. ASSUME NEW x \in Home, manifest'[x] # None
          PROVE  /\ manifest'[x].source # x
                 /\ manifest'[x].items \subseteq files'[x]
                 /\ manifest'[x].run <= app'.run
                 /\ app'.stage \in {"opening", "booting"} => manifest'[x].run < app'.run \/ manifest'[x].early
                 /\ manifest'[x].verification # "awaiting-restart" =>
                      manifest'[x].checked > manifest'[x].run \/ manifest'[x].early
      <4>1. app' = app /\ files' = files /\ manifest[x] # None
        BY <1>1, <1>2, <2>3, <3>3, <3>5 DEF h
      <4>2. /\ manifest'[x].source = manifest[x].source /\ manifest'[x].items = manifest[x].items
            /\ manifest'[x].run = manifest[x].run /\ manifest'[x].checked = manifest[x].checked
            /\ manifest'[x].verification = manifest[x].verification
            /\ manifest'[x].early = manifest[x].early
        BY <3>1, <3>3 DEF s
      <4> QED BY <4>1, <4>2 DEF IInv, DiskInv
    <3> QED BY <1>3, <2>3, <3>3, <3>4, <3>5 DEF DiskInv
  <2> QED BY <2>2, <2>3 DEF Cleanup, Unchanged
<1>9. TypeOK'
  BY <1>1, <1>2, <1>8 DEF IInv, TypeOK
<1> QED BY <1>5, <1>6, <1>7, <1>8, <1>9, <1>10 DEF IInv, Flow
----------------------------------------------------------------------------
(* The invariant.                                                          *)

LEMMA InitIInv == Init => IInv
<1> SUFFICES ASSUME Init PROVE IInv
  OBVIOUS
<1>1. /\ launcher = [active |-> Default, pending |-> None, lkg |-> None]
      /\ here = {Default} \cup Existing
  BY DEF Init
<1>2. /\ app = [stage |-> "down", run |-> 0, quit |-> "no"]
      /\ status = Idle /\ queue = <<>> /\ job = NoJob /\ shutdown = FALSE
      /\ calls = NoCalls /\ woken = Asleep
      /\ child = None /\ stopped = FALSE /\ settled = FALSE
      /\ proc = [p \in Proc |-> Dead]
      /\ files = [x \in Home |-> {}] /\ manifest = [x \in Home |-> None] /\ written = {}
      /\ migration = NoMigration /\ dialog = None /\ used = 0
  BY DEF Init
<1>3. Queued = {} /\ queue \in Seq(Operation)
  BY <1>2 DEF Queued
<1>4. TypeOK
  <2>1. launcher \in [active : Home, pending : Homes, lkg : Homes] /\ here \subseteq Home
    BY <1>1, HostAssumption DEF Home, Homes
  <2>2. /\ app \in [stage : {"down", "opening", "booting", "up"}, run : 0..MaxRuns, quit : {"no", "stopping", "finishing"}]
        /\ used \in 0..MaxCalls
    BY <1>2, HostAssumption
  <2>3. /\ calls \in [{"job", "stop"} -> Proc \cup {"none", "done", "failed"}]
        /\ woken \in [Party -> {"no", "ok", "failed"}]
    BY <1>2 DEF NoCalls, Asleep
  <2>4. /\ status \in [phase : {"idle", "starting", "switching", "recovering", "stopping", "running", "failed"},
                       home : Homes]
        /\ migration \in [pc : {"none", "stopping", "copying", "switching", "restoring"},
                          source : Homes, target : Homes]
        /\ proc \in [Proc -> Process]
    BY <1>2 DEF Idle, NoMigration, Homes, Dead, Process
  <2>5. files \in [Home -> SUBSET Fact] /\ manifest \in [Home -> Manifest \cup {None}]
    BY <1>2
  <2> QED BY <1>2, <1>3, <2>1, <2>2, <2>3, <2>4, <2>5 DEF TypeOK, Homes, Process
<1>5. QueueInv /\ BootInv /\ DownInv /\ MoveInv /\ SwitchInv
  BY <1>2, <1>3 DEF QueueInv, BootInv, DownInv, MoveInv, SwitchInv, Moves, Idle, NoMigration, Asleep, Party
<1>6. JobInv /\ CallInv
  BY <1>2, ProcIsNot DEF JobInv, CallInv, NoCalls
<1>7. StatusInv /\ RunInv
  BY <1>2 DEF StatusInv, RunInv, Idle
<1>8. DiskInv
  BY <1>2 DEF DiskInv, DataNeverLost
<1>9. MindInv
  BY <1>2, ProcIsNot DEF MindInv, NoCalls, Live, Dead
<1> QED BY <1>4, <1>5, <1>6, <1>7, <1>8, <1>9 DEF IInv

LEMMA StutterKeeps == IInv /\ UNCHANGED vars => IInv'
<1> SUFFICES ASSUME IInv, UNCHANGED vars PROVE IInv'
  OBVIOUS
<1>1. UNCHANGED <<launcher, status, queue, job, shutdown, calls, woken, child, stopped, settled, proc,
                  files, here, manifest, written, app, migration, dialog, used>>
  BY DEF vars, ctl, os, disk, ui
<1>2. Flow' /\ DiskInv'
  BY <1>1, FlowSame, DiskSame DEF IInv, SwitchInv
<1>3. TypeOK'
  BY <1>1 DEF IInv, TypeOK
<1>4. JobInv' /\ CallInv' /\ StatusInv' /\ DownInv'
  BY <1>1 DEF IInv, JobInv, CallInv, StatusInv, DownInv, NoWork, Queued, Live
<1>5. RunInv'
  BY <1>1 DEF IInv, RunInv, Queued, Live
<1>6. MindInv'
  BY <1>1, MindSame
<1> QED BY <1>2, <1>3, <1>4, <1>5, <1>6 DEF IInv, Flow

LEMMA AnswersKeep == IInv /\ (Answers \/ LeftBeforeReady) => IInv'
<1> SUFFICES ASSUME IInv, Answers \/ LeftBeforeReady PROVE IInv'
  OBVIOUS
<1>1. CASE SpawnFails \/ NotReady \/ NotLoaded \/ LeftBeforeReady
  <2>1. StepFails /\ job # NoJob /\ job.pc \in {"spawning", "ready", "loading"}
    BY <1>1 DEF SpawnFails, NotReady, NotLoaded, LeftBeforeReady, At
  <2> QED BY <2>1, StepFailsKeeps
<1> QED BY <1>1, SpawnedKeeps, ReadyKeeps, LoadedKeeps DEF Answers

LEMMA NextKeeps == IInv /\ [Next]_vars => IInv'
<1> SUFFICES ASSUME IInv, Next PROVE IInv'
  BY StutterKeeps
<1>1. CASE Continue
  <2>1. CASE BootAfterStop \/ StopFailed \/ OrphanStopped \/ BootFailed \/ Unpublished \/ Terminated
    BY <2>1, BootAfterStopKeeps, StopFailedKeeps, BootFailedKeeps, TerminatedKeeps
  <2>2. CASE LeftBeforeReady \/ TakeJob \/ BootReturns \/ QuitReturns
    BY <2>2, AnswersKeep, TakeJobKeeps, BootReturnsKeeps, QuitReturnsKeeps
  <2>3. CASE HarnessStopped \/ Copy \/ CopyFails \/ HomeSwitched \/ HarnessRestored
    BY <2>3, HarnessStoppedKeeps, CopyKeeps, CopyFailsKeeps, HomeSwitchedKeeps
  <2> QED BY <1>1, <2>1, <2>2, <2>3 DEF Continue
<1>2. CASE Quiet /\ World
  BY <1>2, DieKeeps, GiveUpKeeps, StoreKeeps, StartAppKeeps, BootBeginsKeeps, ExitKeeps, AnswersKeep DEF World, Callees
<1>3. CASE Quiet /\ User
  BY <1>3, UserKeeps, QuitKeeps, CleanupKeeps, MigrateKeeps DEF User
<1>4. CASE Crash
  BY <1>4, ExitKeeps
<1> QED BY <1>1, <1>2, <1>3, <1>4 DEF Next

\* The host never leaves its invariant.
THEOREM HostInductive == Spec => []IInv
<1>1. Init => IInv
  BY InitIInv
<1>2. IInv /\ [Next]_vars => IInv'
  BY NextKeeps
<1> QED BY <1>1, <1>2, PTL DEF Spec
----------------------------------------------------------------------------
(* What follows.                                                           *)

\* Every variable of the host holds a value the program can hold.
THEOREM HostTypes == Spec => []TypeOK
<1>1. IInv => TypeOK
  BY DEF IInv
<1> QED BY <1>1, HostInductive, PTL

\* Whatever homes are switched, moved, rolled back, cleaned up or cut off by a power loss, each
\* fact stored through a running harness is still in a home (copyData, removeTargetCopy,
\* deleteOldCopy).
THEOREM DataSurvives == Spec => []DataNeverLost
<1>1. IInv => DataNeverLost
  BY DEF IInv, DiskInv
<1> QED BY <1>1, HostInductive, PTL

\* A move made after the startup is judged only by verifyOnStartup in a later run than the one that
\* copied the home; one made while the session import was still offered may be judged in its own.
THEOREM LaterRunVerifies == Spec => []SameRunNeverVerifies
<1>1. IInv => SameRunNeverVerifies
  BY DEF IInv, DiskInv, SameRunNeverVerifies
<1> QED BY <1>1, HostInductive, PTL

\* With nothing left to run, no stop, start, quit or migration of the controller is half done.
THEOREM RestIsFinal == Spec => []RestIsReal
<1>1. ASSUME IInv PROVE RestIsReal
  <2> SUFFICES ASSUME Quiet, job = NoJob
               PROVE  /\ ~shutdown /\ status.phase \in {"idle", "running", "failed"}
                      /\ app.stage # "booting" /\ app.quit # "stopping" /\ ~Migrating
    BY DEF RestIsReal
  <2>1. queue = <<>> /\ woken = Asleep /\ migration.pc # "copying"
    BY DEF Quiet
  <2>2. Queued = {} /\ \A p \in {"boot", "quit", "migration"} : woken[p] = "no"
    BY <1>1, <2>1, AsleepIs, Waiting DEF IInv, Party
  <2>3. ~shutdown
    BY <1>1, <2>2 DEF IInv, QueueInv
  <2>4. status.phase \in {"idle", "running", "failed"}
    BY <1>1, <2>3 DEF IInv, TypeOK, StatusInv
  <2>5. app.stage # "booting" /\ app.quit # "stopping"
    BY <1>1, <2>1, <2>2, <2>3 DEF IInv, BootInv
  <2>6. migration.pc = "none"
    BY <1>1, <2>1, <2>2, <2>3 DEF IInv, TypeOK, MoveInv, Moves
  <2> QED BY <2>3, <2>4, <2>5, <2>6 DEF Migrating
<1> QED BY <1>1, HostInductive, PTL

\* The phase "running" of runtimeStatus names the durable selection and a live process of that
\* home; a dead one only if it died between the load of its page and the end of its boot, when
\* the exit watcher looks away.
THEOREM RunningIsSo == Spec => []RunningIsTrue
<1>1. ASSUME IInv PROVE RunningIsTrue
  <2> SUFFICES ASSUME Quiet, status.phase = "running"
               PROVE  /\ status.home = launcher.active
                      /\ \/ Live(child) /\ proc[child].home = status.home
                         \/ child # None /\ proc[child].fate = "unseen"
    BY DEF RunningIsTrue
  <2>1. /\ ~shutdown /\ status.home = launcher.active
        /\ Live(child) => proc[child].home = status.home
    BY <1>1 DEF IInv, RunInv
  <2>2. CASE job = NoJob
    <3>1. Queued = {}
      BY <1>1, <2>2, Waiting DEF IInv, Quiet
    <3> QED BY <1>1, <2>1, <2>2, <3>1 DEF IInv, RunInv
  <2>3. CASE job # NoJob
    <3>1. job.pc = "stopping" /\ calls["job"] # "none"
      BY <1>1, <2>3 DEF IInv, RunInv, CallInv, Awaiting
    <3>2. calls["job"] \notin {"done", "failed"}
      BY <1>1, <2>3, <3>1 DEF Quiet, Released, Caller
    <3>3. calls["job"] \in Proc
      BY <1>1, <3>1, <3>2 DEF IInv, TypeOK
    <3>4. calls["job"] = child /\ Live(child)
      BY <1>1, <2>3, <3>3 DEF IInv, RunInv, CallInv
    <3> QED BY <2>1, <3>4
  <2> QED BY <2>2, <2>3
<1> QED BY <1>1, HostInductive, PTL

\* From the request of a stop until it settles no boot begins and nothing is promoted, wherever the
\* operation it interrupts was waiting (assertNotShuttingDown after each await); and the stop ends
\* with no process left but one whose own stop was given up: the orphan of a boot that was
\* spawning is stopped by that boot (spawnServer).
THEOREM StopWins == Spec => ShutdownWins
<1> DEFINE Won == launcher'.active = launcher.active /\ (At("spawning")' => At("spawning"))
           Rest == \A p \in Proc : Live(p)' => proc'[p].fate = "survived"
<1>1. ASSUME NEW j, NEW outcome, Finish(j, outcome) PROVE ~At("spawning")'
  BY <1>1 DEF Finish, At
<1>2. ASSUME IInv, Next, shutdown, shutdown' PROVE Won
  <2>1. CASE TakeJob
    <3>1. TakeStop(Head(queue)) \/ TakeExit(Head(queue)) \/ GiveWay(Head(queue))
      BY <1>2, <2>1 DEF TakeJob
    <3>2. launcher' = launcher
      BY <3>1 DEF TakeStop, TakeExit, GiveWay
    <3>3. CASE TakeStop(Head(queue))
      <4>1. Head(queue) \in Operation
        BY <1>2, <2>1, Waiting DEF TakeJob, IInv
      <4>2. job'.pc = "terminating"
        BY <3>3, <4>1 DEF TakeStop, Operation
      <4> QED BY <3>2, <4>2 DEF At
    <3> QED BY <1>1, <3>1, <3>2, <3>3 DEF TakeExit, GiveWay
  <2>2. CASE BootFailed
    <3>1. job # NoJob /\ job.pc = "cleaning"
      BY <2>2 DEF BootFailed, Release, Released
    <3>2. job.before \in Launchers /\ job.before.active = launcher.active
      BY <1>2, <3>1 DEF IInv, JobInv, Working
    <3>3. launcher'.active = launcher.active
      BY <2>2, <3>2 DEF BootFailed, Launchers
    <3>4. ~At("spawning")'
      BY <1>1, <1>2, <2>2 DEF BootFailed, BeginBoot
    <3> QED BY <3>3, <3>4
  <2>3. CASE BootAfterStop
    BY <1>1, <1>2, <2>3 DEF BootAfterStop, BeginBoot
  <2>4. CASE StopFailed \/ OrphanStopped \/ Unpublished \/ Terminated
    BY <1>1, <2>4 DEF StopFailed, OrphanStopped, Unpublished, Terminated
  <2>5. CASE LeftBeforeReady \/ SpawnFails \/ NotReady \/ NotLoaded
    BY <1>1, <1>2, <2>5 DEF LeftBeforeReady, SpawnFails, NotReady, NotLoaded, StepFails
  <2>6. CASE Ready \/ Loaded
    BY <1>1, <1>2, <2>6 DEF Ready, Loaded
  <2>7. CASE Spawned
    BY <2>7 DEF Spawned, Spawn, At
  <2>8. CASE BootReturns \/ BootBegins \/ Exit \/ Crash
    BY <1>2, <2>8 DEF BootReturns, BootBegins, GoOn, Exit, Crash, Leave, At
  <2>9. CASE Copy \/ CopyFails
    <3>1. UNCHANGED job
      BY <2>9 DEF Copy, CopyFails
    <3>2. launcher'.active = launcher.active
      BY <1>2, <2>9 DEF Copy, CopyFails, IInv, TypeOK
    <3> QED BY <3>1, <3>2 DEF At
  <2>10. CASE HarnessStopped \/ HomeSwitched \/ HarnessRestored \/ QuitReturns \/ StartApp
    BY <2>10 DEF HarnessStopped, HomeSwitched, HarnessRestored, Woken, QuitReturns, StartApp, ctl, At
  <2>11. CASE User
    BY <2>11 DEF User, Restart, UseManagedHome, SwitchProfile, Confirm, ChooseExisting, Ask, Submitted,
                 Quit, Cleanup, ctl, Migrate, At
  <2>12. CASE \/ \E p \in Proc : Die(p)
              \/ \E w \in {"job", "stop"} : GiveUp(w)
              \/ \E f \in Fact : Store(f)
    BY <2>12 DEF Die, GiveUp, Store, ctl, At
  <2> QED BY <1>2, <2>1, <2>2, <2>3, <2>4, <2>5, <2>6, <2>7, <2>8, <2>9, <2>10, <2>11, <2>12
             DEF Next, Continue, World, Answers
<1>3. ASSUME IInv, Next, shutdown, ~shutdown' PROVE Rest
  <2>1. Terminated \/ Exit \/ Crash \/ Outlive
    <3>1. CASE Continue \/ Crash
      BY <1>3, <3>1 DEF Continue, BootAfterStop, StopFailed, OrphanStopped, BootFailed, Unpublished,
           LeftBeforeReady, StepFails, TakeJob, BootReturns, GoOn, QuitReturns,
           HarnessStopped, Copy, CopyFails, HomeSwitched, HarnessRestored, Woken
    <3>2. CASE World
      BY <1>3, <3>2 DEF World, Die, GiveUp, Store, ctl, StartApp, BootBegins, GoOn, Answers, Spawned,
           Spawn, SpawnFails, Ready, NotReady, Loaded, NotLoaded, StepFails
    <3>3. CASE User
      BY <1>3, <3>3 DEF User, Restart, UseManagedHome, SwitchProfile, Confirm, ChooseExisting, Ask,
           Submitted, Quit, CallStop, Cleanup, ctl, Migrate
    <3> QED BY <1>3, <3>1, <3>2, <3>3 DEF Next
  <2>2. CASE Terminated
    <3>1. /\ job # NoJob /\ job.pc = "terminating" /\ calls["stop"] \in {"done", "failed"}
          /\ UNCHANGED proc
      BY <2>2 DEF Terminated, Release, Released, Caller, os
    <3>2. calls["job"] = "none"
      BY <1>3, <3>1 DEF IInv, CallInv, Awaiting
    <3>3. \A w \in Callees : calls[w] \notin Proc
      BY <3>1, <3>2, ProcIsNot DEF Callees
    <3>4. \A p \in Proc : Live(p) => proc[p].fate = "survived"
      BY <1>3, <3>3 DEF IInv, MindInv, Minded
    <3> QED BY <3>1, <3>4 DEF Live
  <2>3. CASE Exit \/ Outlive
    BY <1>3, <2>3, Outlived DEF Exit, Live
  <2>4. CASE Crash
    BY <2>4 DEF Crash, Dead, Live
  <2> QED BY <2>1, <2>2, <2>3, <2>4
<1>4. IInv /\ [Next]_vars => [shutdown => IF shutdown' THEN Won ELSE Rest]_vars
  BY <1>2, <1>3
<1> QED BY <1>4, HostInductive, PTL DEF Spec, ShutdownWins
=============================================================================
