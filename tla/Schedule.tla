------------------------------ MODULE Schedule ------------------------------
(* Host reminders: stored tasks, one timer, management calls and deliveries    *)
(* that take turns, and the run that drives due tasks into the inbox of their  *)
(* session.                                                                    *)
(*                                                                             *)
(* A task's row is published as part of one whole document; a failed publish   *)
(* leaves the rows in memory alone and may have landed on disk.  Delivery      *)
(* restores the session, puts one message in its inbox, waits for the flush    *)
(* and only then records each member.                                          *)
(*                                                                             *)
(* The FIFO chain is modelled by its turns: callers are concurrent, so the     *)
(* next turn is anyone's, and a call waits in the state only for what it read  *)
(* before it joined the chain.                                                 *)
EXTENDS Integers, FiniteSets, FiniteSetsExt, Sequences

CONSTANTS
  Task,        \* ids of reminders (fresh for every creation)
  Session,
  SessionOf,   \* the session a task is bound to for its whole life
  Timings,     \* bound: the pairs of interval and delay callers ask of a task, in turn
  MaxNow,      \* bound: the clock
  Horizon,     \* the last representable instant
  MaxCalls,    \* bound: calls waiting at once
  Faults,      \* which of "io", "session", "clock", "crash" happen
  NoRow        \* the task is not stored

ASSUME ScheduleAssumption ==
  /\ SessionOf \in [Task -> Session]
  /\ Timings \in [Task -> Seq(Nat \X (Nat \ {0}))]
  /\ \A t \in Task :
       Len(Timings[t]) >= 1 /\ \A k \in 1..Len(Timings[t]) : Timings[t][k][1] \in {0, Timings[t][k][2]}
  /\ MaxNow \in Nat /\ Horizon \in Nat /\ MaxNow <= Horizon
  /\ MaxCalls \in Nat

Instant == 0..Horizon
NoTimer == Horizon + 1
NoDelivery == [epoch |-> 0, at |-> 0]
Delivery == [epoch : Nat, at : Instant]
\* every is the interval of a recurring task and 0 of a one-shot task; epoch
\* counts the changes of timing.
Row == [at : Instant, every : Nat, epoch : Nat \ {0}, active : BOOLEAN, last : Delivery]
ASSUME NoRowAssumption == NoRow \notin Row
Table == [Task -> Row \cup {NoRow}]
NoRows == [t \in Task |-> NoRow]
Entry == [task : Task, epoch : Nat \ {0}, at : Instant]
Call ==
  [do : {"create"}, task : Task, row : Row]
    \cup [do : {"update"}, task : Task, expected : Row]

VARIABLES
  now,        \* Date.now()
  rows,       \* the table in memory
  disk,       \* the table a restart reads
  life,       \* unborn, born, or deleted with an acknowledgment
  waiting,    \* calls that have read something and wait for their turn
  run,        \* the run of requestDrive: idle, driving, looping or ending
  requested,  \* ScheduleRuntime.requested
  timer,      \* the instant the timer was armed for
  stage,      \* of the service: up, stopping or closed
  step,       \* where the operation that holds the chain is, or none
  seen,       \* the rows a delivery read when it scanned
  todo,       \* tasks the running operation has still to handle
  group,      \* the members of the delivery under way
  entries,    \* their occurrences in the message, until each is recorded
  removed,    \* a session stop deleted something
  failed      \* tasks the last delivery could not acknowledge

store   == <<rows, disk, life>>
runtime == <<run, requested, timer>>
work    == <<step, seen, todo, group, entries, removed, failed>>
vars    == <<now, store, waiting, runtime, stage, work>>

Idle ==
  /\ step = "none" /\ seen = NoRows /\ todo = {} /\ group = {} /\ entries = {}
  /\ removed = FALSE /\ failed = {}
\* The service's init: the first drive is requested at once.
Init ==
  /\ now = 0
  /\ rows = NoRows /\ disk = NoRows /\ life = [t \in Task |-> "unborn"]
  /\ waiting = {} /\ run = "driving" /\ requested = FALSE /\ timer = NoTimer
  /\ stage = "up" /\ Idle

Stored(table) == {t \in Task : table[t] # NoRow}
Active(table) == {t \in Stored(table) : table[t].active}
DueAt(table, instant) == {t \in Active(table) : table[t].at <= instant}
-----------------------------------------------------------------------------
(* The table: one publish per write.                                         *)
Publish(t, row) == rows' = [rows EXCEPT ![t] = row] /\ disk' = rows'
\* The rows in memory are kept as they were; the new document may be in place.
PublishFails(t, row) ==
  /\ "io" \in Faults
  /\ disk' \in {disk, [rows EXCEPT ![t] = row]}
  /\ UNCHANGED rows

RequestDrive ==
  IF stage # "up"
  THEN UNCHANGED runtime
  ELSE /\ timer' = NoTimer
       /\ IF run = "idle"
          THEN run' = "driving" /\ requested' = FALSE
          ELSE requested' = TRUE /\ UNCHANGED run

TurnBetweenWrites == step \in {"none", "resolve", "flush"} /\ stage # "closed"
\* The chain is free for the next turn.
Turn == step = "none" /\ stage # "closed"
-----------------------------------------------------------------------------
(* Management calls.  An accepted one may have its turn while the service    *)
(* stops; one whose signal is canceled, whose task is unknown or whose       *)
(* session is refused leaves without a trace.                                *)
Changes(t, row) ==
  /\ \/ Publish(t, row) /\ RequestDrive
     \/ PublishFails(t, row) /\ UNCHANGED runtime
  /\ UNCHANGED <<now, stage, work>>
Wait(call) ==
  /\ stage = "up" /\ Cardinality(waiting) < MaxCalls
  /\ waiting' = waiting \cup {call}
  /\ UNCHANGED <<now, rows, disk, runtime, stage, work>>
\* create() builds its record before it waits.
CallCreate(t) ==
  LET timing == Timings[t][1]
  IN /\ life[t] = "unborn" /\ now + timing[2] <= Horizon
     /\ Wait([do |-> "create", task |-> t,
              row |-> [at |-> now + timing[2], every |-> timing[1], epoch |-> 1,
                       active |-> TRUE, last |-> NoDelivery]])
     /\ life' = [life EXCEPT ![t] = "born"]
\* update() carries the record its caller observed.
CallUpdate(t) ==
  /\ t \in Active(rows) /\ rows[t].epoch < Len(Timings[t])
  /\ Wait([do |-> "update", task |-> t, expected |-> rows[t]])
  /\ UNCHANGED life
Withdraw(call) ==
  /\ Turn
  /\ waiting' = waiting \ {call}
  /\ UNCHANGED <<now, store, runtime, stage, work>>
Create(call) ==
  /\ Turn /\ call.do = "create"
  /\ waiting' = waiting \ {call}
  /\ Changes(call.task, call.row) /\ UNCHANGED life
\* resolveScheduleUpdate: the record is compared, and deliveries are kept.
Expected(call) ==
  /\ call.task \in Active(rows)
  /\ [rows[call.task] EXCEPT !.last = call.expected.last] = call.expected
\* An equivalent interval keeps the record.
NewTiming(call) == Timings[call.task][call.expected.epoch + 1]
CanChange(call) ==
  /\ Expected(call)
  /\ ~(NewTiming(call)[1] # 0 /\ NewTiming(call)[1] = call.expected.every)
  /\ now + NewTiming(call)[2] <= Horizon
Changed(call) ==
  [rows[call.task] EXCEPT !.every = NewTiming(call)[1], !.at = now + NewTiming(call)[2],
                          !.epoch = @ + 1]
Update(call) ==
  /\ Turn /\ call.do = "update" /\ CanChange(call)
  /\ waiting' = waiting \ {call}
  /\ Changes(call.task, Changed(call)) /\ UNCHANGED life
\* update() of the name or the instruction alone, which the model does not keep.
Rename(t) ==
  /\ Turn /\ t \in Active(rows)
  /\ Changes(t, rows[t]) /\ UNCHANGED <<waiting, life>>
Delete(t) ==
  /\ Turn /\ rows[t] # NoRow
  /\ Changes(t, NoRow) /\ UNCHANGED waiting
  /\ life' = IF rows'[t] = NoRow THEN [life EXCEPT ![t] = "deleted"] ELSE life
\* stopSessionTasks(): the session's active rows, one publish each, in one turn.
BeginStop(s) ==
  /\ Turn
  /\ todo' = {t \in Active(rows) : SessionOf[t] = s}
  /\ todo' # {}
  /\ step' = "sweep"
  /\ UNCHANGED <<now, store, waiting, runtime, stage, seen, group, entries, removed, failed>>
Sweep(t) ==
  /\ step = "sweep" /\ t \in todo
  /\ todo' = todo \ {t}
  /\ \/ /\ Publish(t, NoRow)
        /\ life' = [life EXCEPT ![t] = "deleted"] /\ removed' = TRUE
     \/ PublishFails(t, NoRow) /\ UNCHANGED <<life, removed>>
  /\ UNCHANGED <<now, waiting, runtime, stage, step, seen, group, entries, failed>>
EndStop ==
  /\ step = "sweep" /\ todo = {}
  /\ step' = "none" /\ removed' = FALSE
  /\ IF removed THEN RequestDrive ELSE UNCHANGED runtime
  /\ UNCHANGED <<now, store, waiting, stage, seen, todo, group, entries, failed>>
-----------------------------------------------------------------------------
(* drive(): the due tasks in the order of the table, the recurring ones of   *)
(* one session together.                                                     *)
Scan ==
  /\ Turn /\ run = "driving"
  /\ timer' = NoTimer
  /\ seen' = rows /\ todo' = DueAt(rows, now) /\ failed' = {}
  /\ step' = "next"
  /\ UNCHANGED <<now, store, waiting, run, requested, stage, group, entries, removed>>
Recurring(t) == seen[t].every > 0
PickGroup(t) ==
  /\ step = "next" /\ stage = "up" /\ t \in todo
  /\ group' = IF Recurring(t) THEN {u \in todo : Recurring(u) /\ SessionOf[u] = SessionOf[t]}
                              ELSE {t}
  /\ todo' = todo \ group'
  /\ step' = "resolve"
  /\ UNCHANGED <<now, store, waiting, runtime, stage, seen, entries, removed, failed>>
NextTargetLatest(tasks) == IF tasks = {} THEN NoTimer ELSE Max({rows[t].at : t \in tasks})
\* The drive's turn ends: with a timer unless the service is stopping.
NextTarget(tasks) == IF tasks = {} THEN NoTimer ELSE Min({rows[t].at : t \in tasks})
LeaveDrive ==
  /\ step' = "none" /\ seen' = NoRows /\ todo' = {} /\ group' = {}
  /\ run' = "looping"
FinishDrive ==
  /\ step = "next" /\ (todo = {} \/ stage # "up")
  /\ LeaveDrive
  /\ timer' = IF stage = "up" THEN NextTarget(Active(rows) \ failed) ELSE timer
  /\ UNCHANGED <<now, store, waiting, requested, stage, entries, removed, failed>>
\* resolveEveryOccurrence: the latest occurrence due, without enumerating.
Occurrence(row, at) ==
  IF row.every = 0 THEN row.at ELSE row.at + ((at - row.at) \div row.every) * row.every
\* The session is restored, after which stopping and the clock are read again;
\* the message is then in the session's inbox.
Resolve ==
  /\ step = "resolve"
  /\ IF stage # "up"
     THEN LeaveDrive /\ UNCHANGED entries
     ELSE /\ group' = {t \in group : seen[t].at <= now}
          /\ entries' = {[task |-> t, epoch |-> seen[t].epoch, at |-> Occurrence(seen[t], now)]
                           : t \in group'}
          /\ step' = IF group' = {} THEN "next" ELSE "flush"
          /\ UNCHANGED <<run, seen, todo>>
  /\ UNCHANGED <<now, store, waiting, requested, timer, stage, removed, failed>>
\* The catch block: the members not recorded that are still due.
CatchDelivery(pending) ==
  /\ failed' = failed \cup {t \in pending : seen[t].at <= now}
  /\ group' = {} /\ entries' = {}
  /\ step' = "next"
ResolveFails ==
  /\ "session" \in Faults /\ step = "resolve"
  /\ CatchDelivery(group)
  /\ UNCHANGED <<now, store, waiting, runtime, stage, seen, todo, removed>>
Flush ==
  /\ step = "flush"
  /\ step' = "commit"
  /\ UNCHANGED <<now, store, waiting, runtime, stage, seen, todo, group, entries, removed, failed>>
FlushFails ==
  /\ "session" \in Faults /\ step = "flush"
  /\ CatchDelivery(group)
  /\ UNCHANGED <<now, store, waiting, runtime, stage, seen, todo, removed>>
RecordedAgain(e) ==
  [seen[e.task] EXCEPT !.at = e.at, !.active = seen[e.task].every > 0,
                       !.last = [epoch |-> e.epoch, at |-> e.at]]
\* The row that records an occurrence: its next target, or its end.
Recorded(e) ==
  LET row  == seen[e.task]
      next == e.at + row.every
      more == row.every > 0 /\ next <= Horizon
  IN [row EXCEPT !.at = IF more THEN next ELSE e.at, !.active = more,
                 !.last = [epoch |-> e.epoch, at |-> e.at]]
Commit(e) ==
  /\ step = "commit" /\ e \in entries
  /\ \/ /\ Publish(e.task, Recorded(e)) /\ UNCHANGED failed
        /\ entries' = entries \ {e}
        /\ IF entries' = {} THEN group' = {} /\ step' = "next" ELSE UNCHANGED <<group, step>>
     \/ /\ PublishFails(e.task, Recorded(e))
        /\ CatchDelivery({x.task : x \in entries})
  /\ UNCHANGED <<now, life, waiting, runtime, stage, seen, todo, removed>>
-----------------------------------------------------------------------------
(* requestDrive()'s loop, its finally block, the timer and the service.      *)
LoopCheck ==
  /\ run = "looping"
  /\ IF requested /\ stage = "up"
     THEN run' = "driving" /\ requested' = FALSE
     ELSE run' = "ending" /\ UNCHANGED requested
  /\ UNCHANGED <<now, store, waiting, timer, stage, work>>
EndRunAtOnce ==
  /\ run = "ending"
  /\ run' = "idle"
  /\ UNCHANGED <<now, store, waiting, requested, timer, stage, work>>
\* The finally block drops the run and looks for a request made meanwhile.
EndRun ==
  /\ run = "ending"
  /\ IF requested /\ stage = "up"
     THEN run' = "driving" /\ requested' = FALSE /\ timer' = NoTimer
     ELSE run' = "idle" /\ UNCHANGED <<requested, timer>>
  /\ UNCHANGED <<now, store, waiting, stage, work>>
\* A timer may fire before its instant: long delays are cut, and clocks jump.
FireTimer ==
  /\ timer # NoTimer /\ stage = "up"
  /\ RequestDrive
  /\ UNCHANGED <<now, store, waiting, stage, work>>
\* The service's cleanup: the runtime stops, the chain drains, the domain closes.
Stop ==
  /\ stage = "up"
  /\ stage' = "stopping" /\ timer' = NoTimer
  /\ UNCHANGED <<now, store, waiting, run, requested, work>>
Close ==
  /\ stage = "stopping" /\ waiting = {} /\ Turn /\ run = "idle"
  /\ stage' = "closed"
  /\ UNCHANGED <<now, store, waiting, runtime, work>>
Start ==
  /\ stage = "closed"
  /\ stage' = "up"
  /\ rows' = disk
  /\ waiting' = {} /\ run' = "driving" /\ requested' = FALSE /\ timer' = NoTimer
  /\ step' = "none" /\ seen' = NoRows /\ todo' = {} /\ group' = {} /\ entries' = {}
  /\ removed' = FALSE /\ failed' = {}
  /\ UNCHANGED <<now, disk, life>>
\* What the operation that holds the chain may be publishing when the process dies.
Writes ==
  CASE step = "none" ->
         {<<t, NoRow>> : t \in Stored(rows)}
           \cup {<<call.task, call.row>> : call \in {c \in waiting : c.do = "create"}}
           \cup {<<call.task, Changed(call)>> : call \in {c \in waiting : c.do = "update" /\ CanChange(c)}}
    [] step = "sweep" -> {<<t, NoRow>> : t \in todo}
    [] step = "commit" -> {<<e.task, Recorded(e)>> : e \in entries}
    [] OTHER -> {}
Crash ==
  /\ "crash" \in Faults /\ stage # "closed"
  /\ disk' \in {disk} \cup {[rows EXCEPT ![w[1]] = w[2]] : w \in Writes}
  /\ rows' = disk'
  /\ stage' = "closed"
  /\ waiting' = {} /\ run' = "idle" /\ requested' = FALSE /\ timer' = NoTimer
  /\ step' = "none" /\ seen' = NoRows /\ todo' = {} /\ group' = {} /\ entries' = {}
  /\ removed' = FALSE /\ failed' = {}
  /\ UNCHANGED <<now, life>>
Tick ==
  /\ now < MaxNow
  /\ now' = now + 1
  /\ UNCHANGED <<store, waiting, runtime, stage, work>>
\* The wall clock is set back.
Rollback ==
  /\ "clock" \in Faults /\ now > 0
  /\ now' = now - 1
  /\ UNCHANGED <<store, waiting, runtime, stage, work>>
-----------------------------------------------------------------------------
Drive ==
  \/ Scan \/ FinishDrive \/ Resolve \/ ResolveFails \/ Flush \/ FlushFails
  \/ \E t \in Task : PickGroup(t)
  \/ \E e \in entries : Commit(e)
SweepOn == EndStop \/ \E t \in Task : Sweep(t)
Manage ==
  \/ \E t \in Task : CallCreate(t) \/ CallUpdate(t) \/ Rename(t) \/ Delete(t)
  \/ \E call \in waiting : Create(call) \/ Update(call) \/ Withdraw(call)
  \/ \E s \in Session : BeginStop(s)
Next ==
  \/ Manage \/ SweepOn \/ Drive \/ LoopCheck \/ EndRun \/ FireTimer
  \/ Stop \/ Close \/ Start \/ Crash \/ Tick \/ Rollback
Spec == Init /\ [][Next]_vars
\* Operations that hold the chain settle, the chain is first come first served,
\* the event loop runs, and a timer whose instant the clock has passed fires.
FairSpec ==
  /\ Spec /\ SF_vars(Drive) /\ WF_vars(SweepOn) /\ WF_vars(LoopCheck \/ EndRun)
  /\ WF_vars(FireTimer /\ timer <= now)
-----------------------------------------------------------------------------
TypeOK ==
  /\ now \in Instant
  /\ rows \in Table /\ disk \in Table
  /\ life \in [Task -> {"unborn", "born", "deleted"}]
  /\ waiting \subseteq Call
  /\ run \in {"idle", "driving", "looping", "ending"}
  /\ requested \in BOOLEAN /\ timer \in 0..NoTimer
  /\ stage \in {"up", "stopping", "closed"}
  /\ step \in {"none", "sweep", "next", "resolve", "flush", "commit"}
  /\ seen \in Table /\ todo \subseteq Task /\ group \subseteq Task
  /\ entries \subseteq Entry
  /\ removed \in BOOLEAN /\ failed \subseteq Task

\* Whenever the runtime rests, a timer covers every task the last delivery did
\* not fail, whatever was called, stopped or failed while that delivery ran.
NoneForgotten ==
  stage = "up" /\ run = "idle" =>
    ~requested /\ \A t \in Active(rows) \ failed : timer <= rows[t].at
\* A delivery, a failed publish or a crash never brings a deleted task back and
\* never undoes a change a caller was told of.
ManagementHolds ==
  [][\A t \in Task :
       /\ life[t] = "deleted" => rows'[t] = NoRow /\ disk'[t] = NoRow
       /\ t \in Stored(rows) /\ t \in Stored(rows') =>
            rows'[t].epoch >= rows[t].epoch]_vars
\* A message announces only occurrences past the last one recorded for the same
\* timing: clock jumps, retries and restarts repeat none that was acknowledged.
AcknowledgedNotRepeated ==
  [][\A e \in entries' \ entries :
       rows[e.task].last.epoch = e.epoch => rows[e.task].last.at < e.at]_vars
\* A task that is due is delivered, moved, removed or reported failed, unless
\* the clock goes back or the service stops first.
DueIsTried ==
  \A t \in Task :
    stage = "up" /\ t \in DueAt(rows, now) /\ t \notin failed ~>
      stage # "up" \/ t \notin DueAt(rows, now) \/ t \in failed
=============================================================================
