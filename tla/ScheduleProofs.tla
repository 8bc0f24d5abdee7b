--------------------------- MODULE ScheduleProofs ---------------------------
(* Proofs about Schedule, for any tasks, sessions, timings, bounds and faults. *)
EXTENDS Schedule, WellFoundedInduction, TLAPS

(* The inductive invariant.                                                    *)
DriveSteps == {"next", "resolve", "flush", "commit"}
\* A row records nothing later than its own timing, and an active one waits for
\* an instant past what it has recorded.
Ahead(row) ==
  /\ row.last.epoch <= row.epoch
  /\ row.active /\ row.last.epoch = row.epoch => row.last.at < row.at
\* Only a born task has rows; the disk is level with the memory or ahead of it.
StoreInv ==
  /\ rows \in Table /\ disk \in Table
  /\ life \in [Task -> {"unborn", "born", "deleted"}]
  /\ \A t \in Task :
       /\ life[t] # "born" => rows[t] = NoRow /\ disk[t] = NoRow
       /\ rows[t] # NoRow /\ disk[t] # NoRow => rows[t].epoch <= disk[t].epoch
       /\ rows[t] # NoRow => Ahead(rows[t])
       /\ disk[t] # NoRow => Ahead(disk[t])
\* What the running operation holds on to.
HoldInv ==
  /\ step \in DriveSteps => run = "driving"
  /\ step # "none" => stage # "closed"
  /\ step = "sweep" => \A t \in todo : rows[t] # NoRow
  /\ step \notin {"flush", "commit"} => entries = {}
\* A task a delivery has still to record.
Current(t) == rows[t] # NoRow /\ rows[t].active /\ seen[t] = rows[t]
SnapshotInv ==
  /\ step \in DriveSteps => \A t \in todo : Current(t)
  /\ step = "resolve" => \A t \in group : Current(t) /\ t \notin todo
  /\ \A e \in entries :
       /\ Current(e.task) /\ e.task \notin todo
       /\ e.epoch = seen[e.task].epoch /\ seen[e.task].at <= e.at
  /\ \A e, f \in entries : e.task = f.task => e = f
CallInv ==
  /\ waiting \subseteq Call
  /\ \A c \in waiting :
       /\ c.do = "create" =>
            life[c.task] = "born" /\ rows[c.task] = NoRow /\ Ahead(c.row)
       /\ c.do = "update" => c.expected.epoch < Len(Timings[c.task])
  /\ \A c, d \in waiting : c.do = "create" /\ d.do = "create" /\ c.task = d.task => c = d
Covered == \A t \in Task :
  rows[t] # NoRow /\ rows[t].active /\ t \notin failed => timer <= rows[t].at
TimerInv ==
  stage = "up" =>
    /\ run = "idle" => ~requested
    /\ run # "driving" /\ ~requested => Covered
ControlType ==
  /\ now \in Instant
  /\ run \in {"idle", "driving", "looping", "ending"}
  /\ requested \in BOOLEAN /\ timer \in 0..NoTimer
  /\ stage \in {"up", "stopping", "closed"}
  /\ step \in {"none", "sweep"} \cup DriveSteps
  /\ removed \in BOOLEAN
WorkType ==
  /\ seen \in Table /\ todo \subseteq Task /\ group \subseteq Task
  /\ entries \subseteq Entry /\ failed \subseteq Task
IInv ==
  /\ StoreInv /\ ControlType /\ WorkType
  /\ HoldInv /\ SnapshotInv /\ CallInv /\ TimerInv
-----------------------------------------------------------------------------
(* Arithmetic.                                                               *)

LEMMA LessIsRelated ==
  ASSUME NEW x \in Nat, NEW y \in Nat, y < x
  PROVE  <<y, x>> \in OpToRel(<, Nat)
BY Zenon DEF OpToRel

\* A non-empty set of naturals has a least element, which Min returns.
LEMMA MinLeast ==
  ASSUME NEW S, S \subseteq Nat, S # {}
  PROVE  Min(S) \in S /\ \A x \in S : Min(S) <= x
<1>1. \E x \in S : \A y \in S : <<y, x>> \notin OpToRel(<, Nat)
  BY NatLessThanWellFounded, WFMin
<1>2. \A x, y \in S : <<y, x>> \notin OpToRel(<, Nat) => ~(y < x)
  BY LessIsRelated, Zenon
<1>3. \E x \in S : \A y \in S : ~(y < x)
  BY <1>1, <1>2, Zenon
<1>4. \E x \in S : \A y \in S : x =< y
  BY <1>3
<1> QED BY <1>4 DEF Min

\* The occurrence lies between the target and the decision.
LEMMA OccurrenceBounds ==
  ASSUME NEW row \in Row, NEW at \in Instant, row.at <= at
  PROVE  Occurrence(row, at) \in Instant /\ row.at <= Occurrence(row, at)
<1>1. row.at \in Nat /\ at \in Nat /\ row.every \in Nat /\ Horizon \in Nat /\ at <= Horizon
  BY ScheduleAssumption DEF Row, Instant
<1>2. CASE row.every = 0
  BY <1>1, <1>2 DEF Occurrence, Instant
<1>3. CASE row.every # 0
  <2> DEFINE d == at - row.at  e == row.every
  <2>1. d \in Nat /\ e \in Nat /\ e > 0 BY <1>1, <1>3
  <2>2. d \div e \in Nat /\ e * (d \div e) <= d /\ (d \div e) * e = e * (d \div e)
    <3> HIDE DEF d, e
    <3> QED BY <2>1
  <2>3. e * (d \div e) \in Nat
    <3> HIDE DEF d
    <3> QED BY <2>1, <2>2
  <2> QED BY <1>1, <1>3, <2>2, <2>3 DEF Occurrence, Instant
<1> QED BY <1>2, <1>3

\* What callers ask for.
LEMMA TimingType ==
  ASSUME NEW t \in Task, NEW k \in 1..Len(Timings[t])
  PROVE  Timings[t][k][1] \in Nat /\ Timings[t][k][2] \in Nat \ {0}
<1>1. Timings[t][k] \in Nat \X (Nat \ {0})
  BY ScheduleAssumption
<1> QED BY <1>1
-----------------------------------------------------------------------------
(* Writes.  Every row anybody publishes is legal where it is published, and   *)
(* legal writes keep the store.                                              *)
Legal(t, row) ==
  row # NoRow =>
    /\ life[t] = "born" /\ Ahead(row)
    /\ rows[t] # NoRow => rows[t].epoch <= row.epoch
Written(t, row) ==
  /\ Publish(t, row) \/ PublishFails(t, row)
  /\ \/ life' = life
     \/ life' = [life EXCEPT ![t] = "deleted"] /\ Publish(t, NoRow)

LEMMA RowFields ==
  ASSUME NEW row \in Row
  PROVE  /\ row.at \in Instant /\ row.every \in Nat /\ row.epoch \in Nat /\ row.epoch >= 1
         /\ row.active \in BOOLEAN /\ row.last \in Delivery
         /\ row.last.epoch \in Nat /\ row.last.at \in Instant
         /\ row # NoRow
BY NoRowAssumption DEF Row, Delivery

LEMMA InstantIsNat == Instant \subseteq Nat /\ Horizon \in Nat
BY ScheduleAssumption DEF Instant

LEMMA CreateLegal ==
  ASSUME IInv, NEW call \in waiting, call.do = "create"
  PROVE  call.task \in Task /\ call.row \in Row /\ Legal(call.task, call.row)
<1>1. call \in Call BY DEF IInv, CallInv
<1>2. call \in [do : {"create"}, task : Task, row : Row] BY <1>1 DEF Call
<1> QED BY <1>2 DEF IInv, CallInv, Legal

LEMMA ChangedLegal ==
  ASSUME IInv, NEW call \in waiting, call.do = "update", CanChange(call)
  PROVE  /\ call.task \in Task /\ rows[call.task] \in Row
         /\ Changed(call) \in Row /\ Legal(call.task, Changed(call))
<1> DEFINE t == call.task  row == rows[t]  timing == NewTiming(call)
<1>1. call \in [do : {"update"}, task : Task, expected : Row]
  BY DEF IInv, CallInv, Call
<1>2. t \in Task /\ call.expected \in Row /\ call.expected.epoch \in Nat /\ call.expected.epoch >= 1
  BY <1>1, RowFields
<1>3. row # NoRow /\ row \in Row
  BY <1>2 DEF CanChange, Expected, Active, Stored, IInv, StoreInv, Table
<1>4. row.epoch = call.expected.epoch
  <2>1. [row EXCEPT !.last = call.expected.last] = call.expected
    BY DEF CanChange, Expected
  <2>2. [row EXCEPT !.last = call.expected.last].epoch = row.epoch
    BY <1>3 DEF Row
  <2> QED BY <2>1, <2>2
<1>5. timing[1] \in Nat /\ timing[2] \in Nat \ {0}
  <2>1. call.expected.epoch < Len(Timings[t]) BY DEF IInv, CallInv
  <2>2. Len(Timings[t]) \in Nat BY <1>2, ScheduleAssumption
  <2>3. call.expected.epoch + 1 \in 1..Len(Timings[t]) BY <1>2, <2>1, <2>2
  <2> QED BY <1>2, <2>3, TimingType DEF NewTiming
<1>6. now + timing[2] \in Instant
  BY <1>5, ScheduleAssumption DEF CanChange, IInv, ControlType, Instant
<1>7. /\ Changed(call) \in Row /\ Changed(call) # NoRow
      /\ Changed(call).epoch = row.epoch + 1 /\ Changed(call).last = row.last
  <2> HIDE DEF timing
  <2> DEFINE every == timing[1]  at == now + timing[2]  epoch == row.epoch + 1
  <2>1. Changed(call) = [row EXCEPT !.every = every, !.at = at, !.epoch = epoch]
    BY DEF Changed, timing
  <2>2. every \in Nat /\ at \in Instant /\ epoch \in Nat \ {0} BY <1>3, <1>5, <1>6, RowFields
  <2>3. Changed(call) \in Row /\ Changed(call).epoch = epoch /\ Changed(call).last = row.last
    <3> HIDE DEF row, every, at, epoch
    <3> QED BY <1>3, <2>1, <2>2 DEF Row
  <2> QED BY <2>3, NoRowAssumption
<1>8. life[t] = "born" BY <1>2, <1>3 DEF IInv, StoreInv
<1>9. Ahead(Changed(call))
  <2>1. row.last.epoch <= row.epoch BY <1>2, <1>3 DEF IInv, StoreInv, Ahead
  <2> QED BY <1>3, <1>7, <2>1, RowFields DEF Ahead
<1> QED BY <1>2, <1>3, <1>7, <1>8, <1>9, RowFields DEF Legal

LEMMA RecordedLegal ==
  ASSUME IInv, NEW e \in entries
  PROVE  e.task \in Task /\ Recorded(e) \in Row /\ Legal(e.task, Recorded(e))
<1> DEFINE row == seen[e.task]
           next == e.at + row.every
           more == row.every > 0 /\ next <= Horizon
<1>1. e.task \in Task /\ e.epoch \in Nat /\ e.at \in Instant
  BY DEF IInv, WorkType, Entry
<1>2. /\ row = rows[e.task] /\ rows[e.task] # NoRow /\ e.epoch = row.epoch
      /\ row \in Row
  BY <1>1 DEF IInv, SnapshotInv, Current, StoreInv, Table
<1>3. e.at \in Nat /\ e.at <= Horizon /\ Horizon \in Nat /\ row.every \in Nat
  BY <1>1, <1>2, RowFields, ScheduleAssumption DEF Instant
<1>4. (IF more THEN next ELSE e.at) \in Instant
  BY <1>3 DEF Instant
<1>5. /\ Recorded(e) = [row EXCEPT !.at = IF more THEN next ELSE e.at, !.active = more,
                                   !.last = [epoch |-> e.epoch, at |-> e.at]]
      /\ more \in BOOLEAN
  BY DEF Recorded
<1>6. /\ Recorded(e) \in Row /\ Recorded(e).epoch = row.epoch
      /\ Recorded(e).active = more
      /\ Recorded(e).at = (IF more THEN next ELSE e.at)
      /\ Recorded(e).last = [epoch |-> e.epoch, at |-> e.at]
  <2>1. [epoch |-> e.epoch, at |-> e.at] \in Delivery BY <1>1 DEF Delivery
  <2> HIDE DEF more, next, row
  <2> QED BY <1>2, <1>4, <1>5, <2>1 DEF Row
<1>7. Ahead(Recorded(e))
  BY <1>2, <1>3, <1>6, RowFields DEF Ahead
<1>8. life[e.task] = "born" BY <1>1, <1>2 DEF IInv, StoreInv
<1> QED BY <1>1, <1>2, <1>6, <1>7, <1>8, RowFields DEF Legal

\* A legal write keeps the store, and no epoch decreases.
LEMMA WriteKeeps ==
  ASSUME IInv, NEW t \in Task, NEW row \in Row \cup {NoRow}, Legal(t, row), Written(t, row)
  PROVE  StoreInv' /\ \A u \in Task :
           rows[u] # NoRow /\ rows'[u] # NoRow => rows[u].epoch <= rows'[u].epoch
<1> DEFINE new == [rows EXCEPT ![t] = row]
<1>1. new \in Table /\ rows \in Table /\ disk \in Table
  BY DEF Table, IInv, StoreInv
<1>2. (rows' = new /\ disk' = new) \/ (rows' = rows /\ disk' \in {disk, new})
  BY DEF Written, Publish, PublishFails
<1>3. \A u \in Task : new[u] = IF u = t THEN row ELSE rows[u]
  BY <1>1 DEF Table
<1>4. \A u \in Task : /\ rows[u] # NoRow => rows[u] \in Row /\ rows[u].epoch \in Nat
                      /\ disk[u] # NoRow => disk[u] \in Row /\ disk[u].epoch \in Nat
                      /\ new[u] # NoRow => new[u] \in Row /\ new[u].epoch \in Nat
  BY <1>1, RowFields DEF Table
<1>5. \A u \in Task :
        /\ rows[u] # NoRow /\ new[u] # NoRow => rows[u].epoch <= new[u].epoch
        /\ new[u] # NoRow => Ahead(new[u]) /\ life[u] = "born"
  <2> HIDE DEF new
  <2> QED BY <1>3, <1>4 DEF Legal, IInv, StoreInv
<1>6. rows' \in Table /\ disk' \in Table BY <1>1, <1>2
<1>7. /\ life' \in [Task -> {"unborn", "born", "deleted"}]
      /\ \A u \in Task : life'[u] # "born" => rows'[u] = NoRow /\ disk'[u] = NoRow
  <2>1. CASE life' = life
    <3> HIDE DEF new
    <3> QED BY <1>2, <1>5, <2>1 DEF IInv, StoreInv
  <2>2. CASE life' = [life EXCEPT ![t] = "deleted"] /\ Publish(t, NoRow)
    <3>1. rows' = [rows EXCEPT ![t] = NoRow] /\ disk' = rows' BY <2>2 DEF Publish
    <3>2. \A u \in Task : rows'[u] = IF u = t THEN NoRow ELSE rows[u]
      BY <3>1, <1>1 DEF Table
    <3>3. \A u \in Task : life'[u] = IF u = t THEN "deleted" ELSE life[u]
      BY <2>2 DEF IInv, StoreInv
    <3>4. life' \in [Task -> {"unborn", "born", "deleted"}]
      BY <2>2 DEF IInv, StoreInv
    <3> QED BY <3>1, <3>2, <3>3, <3>4 DEF IInv, StoreInv
  <2> QED BY <2>1, <2>2 DEF Written
<1>8. \A u \in Task :
        /\ rows'[u] # NoRow /\ disk'[u] # NoRow => rows'[u].epoch <= disk'[u].epoch
        /\ rows'[u] # NoRow => Ahead(rows'[u])
        /\ disk'[u] # NoRow => Ahead(disk'[u])
        /\ rows[u] # NoRow /\ rows'[u] # NoRow => rows[u].epoch <= rows'[u].epoch
  <2> HIDE DEF new
  <2> QED BY <1>2, <1>4, <1>5 DEF IInv, StoreInv
<1>9. \A u \in Task :
        /\ rows'[u] # NoRow => Ahead(rows[u])' /\ Ahead(rows'[u])
        /\ disk'[u] # NoRow => Ahead(disk[u])'
  BY <1>8 DEF Ahead
<1> QED BY <1>6, <1>7, <1>8, <1>9 DEF StoreInv

\* A write the process died in is in place or not, and memory is lost.
LEMMA CrashWrites ==
  ASSUME IInv, Crash
  PROVE  /\ rows' = disk' /\ life' = life
         /\ \/ disk' = disk
            \/ \E t \in Task, row \in Row \cup {NoRow} :
                 Legal(t, row) /\ disk' = [rows EXCEPT ![t] = row]
<1>1. rows' = disk' /\ life' = life
  BY DEF Crash
<1>2. ASSUME NEW w \in Writes
      PROVE  w[1] \in Task /\ w[2] \in Row \cup {NoRow} /\ Legal(w[1], w[2])
  <2>1. CASE step = "none"
    <3>1. ASSUME NEW t \in Stored(rows), w = <<t, NoRow>>
          PROVE  w[1] \in Task /\ w[2] \in Row \cup {NoRow} /\ Legal(w[1], w[2])
      BY <3>1 DEF Stored, Legal
    <3>2. ASSUME NEW call \in waiting, call.do = "create", w = <<call.task, call.row>>
          PROVE  w[1] \in Task /\ w[2] \in Row \cup {NoRow} /\ Legal(w[1], w[2])
      BY <3>2, CreateLegal
    <3>3. ASSUME NEW call \in waiting, call.do = "update", CanChange(call),
                 w = <<call.task, Changed(call)>>
          PROVE  w[1] \in Task /\ w[2] \in Row \cup {NoRow} /\ Legal(w[1], w[2])
      BY <3>3, ChangedLegal
    <3> QED BY <1>2, <2>1, <3>1, <3>2, <3>3 DEF Writes
  <2>2. CASE step = "sweep"
    <3>1. PICK t \in todo : w = <<t, NoRow>> BY <1>2, <2>2 DEF Writes
    <3> QED BY <3>1 DEF IInv, WorkType, Legal
  <2>3. CASE step = "commit"
    <3>1. PICK e \in entries : w = <<e.task, Recorded(e)>> BY <1>2, <2>3 DEF Writes
    <3> QED BY <3>1, RecordedLegal
  <2>4. CASE step \notin {"none", "sweep", "commit"}
    BY <1>2, <2>4 DEF Writes
  <2> QED BY <2>1, <2>2, <2>3, <2>4
<1>3. disk' = disk \/ \E w \in Writes : disk' = [rows EXCEPT ![w[1]] = w[2]]
  BY DEF Crash
<1> QED BY <1>1, <1>2, <1>3

LEMMA WriterSteps ==
  ASSUME IInv, [Next]_vars
  PROVE  \/ UNCHANGED store
         \/ \E t \in Task : CallCreate(t)
         \/ \E t \in Task, row \in Row \cup {NoRow} : Legal(t, row) /\ Written(t, row)
         \/ Start \/ Crash
<1>1. ASSUME NEW t \in Task, Rename(t)
      PROVE  rows[t] \in Row /\ Legal(t, rows[t]) /\ Written(t, rows[t])
  <2>1. rows[t] # NoRow /\ rows[t] \in Row
    BY <1>1 DEF Rename, Active, Stored, IInv, StoreInv, Table
  <2>2. Legal(t, rows[t]) BY <2>1, RowFields DEF Legal, IInv, StoreInv
  <2>3. Written(t, rows[t]) BY <1>1 DEF Rename, Changes, Written
  <2> QED BY <2>1, <2>2, <2>3
<1>2. ASSUME NEW t \in Task, Delete(t)
      PROVE  Legal(t, NoRow) /\ Written(t, NoRow)
  <2>1. rows \in [Task -> Row \cup {NoRow}] BY DEF IInv, StoreInv, Table
  <2>2. CASE Publish(t, NoRow)
    <3>1. rows'[t] = NoRow BY <2>1, <2>2 DEF Publish
    <3>2. life' = [life EXCEPT ![t] = "deleted"] BY <1>2, <3>1 DEF Delete
    <3> QED BY <2>2, <3>2 DEF Written, Legal
  <2>3. CASE PublishFails(t, NoRow)
    <3>1. rows'[t] # NoRow BY <1>2, <2>3 DEF Delete, PublishFails
    <3>2. life' = life BY <1>2, <3>1 DEF Delete
    <3> QED BY <2>3, <3>2 DEF Written, Legal
  <2> QED BY <1>2, <2>2, <2>3 DEF Delete, Changes
<1>3. ASSUME NEW call \in waiting, Create(call)
      PROVE  /\ call.task \in Task /\ call.row \in Row
             /\ Legal(call.task, call.row) /\ Written(call.task, call.row)
  BY <1>3, CreateLegal DEF Create, Changes, Written
<1>4. ASSUME NEW call \in waiting, Update(call)
      PROVE  /\ call.task \in Task /\ Changed(call) \in Row
             /\ Legal(call.task, Changed(call)) /\ Written(call.task, Changed(call))
  <2>1. call.do = "update" /\ CanChange(call) BY <1>4 DEF Update
  <2>2. Written(call.task, Changed(call)) BY <1>4 DEF Update, Changes, Written
  <2> QED BY <2>1, <2>2, ChangedLegal
<1>5. ASSUME NEW t \in Task, Sweep(t)
      PROVE  Legal(t, NoRow) /\ Written(t, NoRow)
  BY <1>5 DEF Sweep, Written, Legal
<1>6. ASSUME NEW e \in entries, Commit(e)
      PROVE  /\ e.task \in Task /\ Recorded(e) \in Row
             /\ Legal(e.task, Recorded(e)) /\ Written(e.task, Recorded(e))
  BY <1>6, RecordedLegal DEF Commit, Written
<1>7. CASE Manage
  <2>1. ASSUME NEW t \in Task, CallUpdate(t) PROVE UNCHANGED store
    BY <2>1 DEF CallUpdate, Wait, store
  <2>2. ASSUME NEW call \in waiting, Withdraw(call) PROVE UNCHANGED store
    BY <2>2 DEF Withdraw, store
  <2>3. ASSUME NEW s \in Session, BeginStop(s) PROVE UNCHANGED store
    BY <2>3 DEF BeginStop, store
  <2> QED BY <1>1, <1>2, <1>3, <1>4, <1>7, <2>1, <2>2, <2>3 DEF Manage
<1>8. CASE SweepOn
  <2>1. EndStop => UNCHANGED store BY DEF EndStop, store
  <2> QED BY <1>5, <1>8, <2>1 DEF SweepOn
<1>9. CASE Drive
  <2>1. ASSUME \/ Scan \/ FinishDrive \/ Resolve \/ ResolveFails \/ Flush \/ FlushFails
               \/ \E t \in Task : PickGroup(t)
        PROVE  UNCHANGED store
    BY <2>1 DEF Scan, FinishDrive, Resolve, ResolveFails, Flush, FlushFails, PickGroup, store
  <2> QED BY <1>6, <1>9, <2>1 DEF Drive
<1>10. CASE LoopCheck \/ EndRun \/ FireTimer \/ Stop \/ Close \/ Tick \/ Rollback
  BY <1>10 DEF LoopCheck, EndRun, FireTimer, Stop, Close, Tick, Rollback, store
<1>11. CASE UNCHANGED vars
  BY <1>11 DEF vars, store
<1> QED BY <1>7, <1>8, <1>9, <1>10, <1>11 DEF Next

\* Whatever happens, the store keeps its shape and no stored epoch decreases.
LEMMA StoreStep ==
  ASSUME IInv, [Next]_vars
  PROVE  StoreInv' /\ \A t \in Task :
           rows[t] # NoRow /\ rows'[t] # NoRow => rows[t].epoch <= rows'[t].epoch
<1> USE DEF IInv
<1>0. \A t \in Task : /\ rows[t] # NoRow => rows[t].epoch \in Nat
                      /\ disk[t] # NoRow => disk[t].epoch \in Nat
  BY RowFields DEF StoreInv, Table
<1>1. CASE UNCHANGED store
  BY <1>0, <1>1 DEF store, StoreInv, Ahead
<1>2. ASSUME NEW t \in Task, CallCreate(t)
      PROVE  StoreInv' /\ UNCHANGED rows
  <2>1. UNCHANGED <<rows, disk>> /\ life[t] = "unborn" /\ life' = [life EXCEPT ![t] = "born"]
    BY <1>2 DEF CallCreate, Wait
  <2>2. \A u \in Task : life'[u] = IF u = t THEN "born" ELSE life[u]
    BY <2>1 DEF StoreInv
  <2> QED BY <2>1, <2>2 DEF StoreInv, Ahead
<1>3. ASSUME NEW t \in Task, NEW row \in Row \cup {NoRow}, Legal(t, row), Written(t, row)
      PROVE  StoreInv' /\ \A u \in Task :
               rows[u] # NoRow /\ rows'[u] # NoRow => rows[u].epoch <= rows'[u].epoch
  BY <1>3, WriteKeeps
<1>4. CASE Start
  <2>1. rows' = disk /\ disk' = disk /\ life' = life BY <1>4 DEF Start
  <2> QED BY <1>0, <2>1 DEF StoreInv, Ahead
<1>5. CASE Crash
  <2>1. CASE disk' = disk
    <3>1. rows' = disk /\ disk' = disk /\ life' = life BY <1>5, <2>1, CrashWrites
    <3> QED BY <1>0, <3>1 DEF StoreInv, Ahead
  <2>2. ASSUME NEW t \in Task, NEW row \in Row \cup {NoRow}, Legal(t, row),
               disk' = [rows EXCEPT ![t] = row]
        PROVE  StoreInv' /\ \A u \in Task :
                 rows[u] # NoRow /\ rows'[u] # NoRow => rows[u].epoch <= rows'[u].epoch
    <3>1. rows' = [rows EXCEPT ![t] = row] /\ disk' = rows' /\ life' = life
      BY <1>5, <2>2, CrashWrites
    <3>2. Written(t, row) BY <3>1 DEF Written, Publish
    <3> QED BY <2>2, <3>2, WriteKeeps
  <2> QED BY <1>5, <2>1, <2>2, CrashWrites
<1> QED BY <1>0, <1>1, <1>2, <1>3, <1>4, <1>5, WriterSteps
-----------------------------------------------------------------------------
(* Control.                                                                  *)
LEMMA NextTargetBound ==
  ASSUME IInv, NEW tasks, tasks \subseteq Active(rows)
  PROVE  NextTarget(tasks) \in 0..NoTimer /\ \A t \in tasks : NextTarget(tasks) <= rows[t].at
<1> DEFINE ats == {rows[t].at : t \in tasks}
<1>1. \A t \in tasks : rows[t].at \in Instant
  BY RowFields DEF Active, Stored, IInv, StoreInv, Table
<1>2. CASE tasks = {}
  BY <1>2, InstantIsNat DEF NextTarget, NoTimer
<1>3. CASE tasks # {}
  <2>1. ats \subseteq Nat /\ ats # {} BY <1>1, <1>3, InstantIsNat
  <2>2. Min(ats) \in ats /\ \A x \in ats : Min(ats) <= x
    <3> HIDE DEF ats
    <3> QED BY <2>1, MinLeast
  <2>3. NextTarget(tasks) = Min(ats) BY <1>3 DEF NextTarget
  <2>4. Min(ats) \in Instant BY <1>1, <2>2
  <2>5. \A t \in tasks : rows[t].at \in ats OBVIOUS
  <2> HIDE DEF ats
  <2> QED BY <2>2, <2>3, <2>4, <2>5, InstantIsNat DEF Instant, NoTimer
<1> QED BY <1>2, <1>3

LEMMA ControlStep ==
  ASSUME IInv, [Next]_vars
  PROVE  ControlType'
<1> USE DEF ControlType
<1>0. ControlType /\ NoTimer \in 0..NoTimer /\ Horizon \in Nat /\ MaxNow \in Nat /\ MaxNow <= Horizon
  BY ScheduleAssumption DEF IInv, NoTimer
<1>1. RequestDrive => /\ run' \in {"idle", "driving", "looping", "ending"}
                      /\ requested' \in BOOLEAN /\ timer' \in 0..NoTimer
  BY <1>0 DEF RequestDrive, runtime
<1>2. ASSUME NEW t \in Task, NEW row, Changes(t, row) PROVE ControlType'
  BY <1>0, <1>1, <1>2 DEF Changes, runtime, work
<1>3. CASE Manage
  <2>1. ASSUME NEW call, Wait(call) PROVE ControlType'
    BY <1>0, <2>1 DEF Wait, runtime, work
  <2>2. ASSUME NEW t \in Task, CallCreate(t) \/ CallUpdate(t) PROVE ControlType'
    BY <2>1, <2>2 DEF CallCreate, CallUpdate
  <2>3. ASSUME NEW t \in Task, Rename(t) \/ Delete(t) PROVE ControlType'
    BY <1>2, <2>3 DEF Rename, Delete
  <2>4. ASSUME NEW call \in waiting, Create(call) \/ Update(call) PROVE ControlType'
    <3>1. call.task \in Task BY DEF IInv, CallInv, Call
    <3> QED BY <1>2, <2>4, <3>1 DEF Create, Update
  <2>5. ASSUME NEW call \in waiting, Withdraw(call) PROVE ControlType'
    BY <1>0, <2>5 DEF Withdraw, runtime, work
  <2>6. ASSUME NEW s \in Session, BeginStop(s) PROVE ControlType'
    BY <1>0, <2>6 DEF BeginStop, runtime
  <2> QED BY <1>3, <2>2, <2>3, <2>4, <2>5, <2>6 DEF Manage
<1>4. CASE SweepOn
  <2>1. ASSUME NEW t \in Task, Sweep(t) PROVE ControlType'
    BY <1>0, <2>1 DEF Sweep, runtime
  <2>2. CASE EndStop
    BY <1>0, <1>1, <2>2 DEF EndStop, runtime
  <2> QED BY <1>4, <2>1, <2>2 DEF SweepOn
<1>5. CASE Drive
  <2>1. CASE Scan BY <1>0, <2>1 DEF Scan, DriveSteps
  <2>2. CASE FinishDrive
    <3>1. NextTarget(Active(rows) \ failed) \in 0..NoTimer BY NextTargetBound
    <3> QED BY <1>0, <2>2, <3>1 DEF FinishDrive, LeaveDrive
  <2>3. CASE Resolve BY <1>0, <2>3 DEF Resolve, LeaveDrive, DriveSteps
  <2>4. CASE ResolveFails \/ FlushFails
    BY <1>0, <2>4 DEF ResolveFails, FlushFails, CatchDelivery, DriveSteps, runtime
  <2>5. CASE Flush BY <1>0, <2>5 DEF Flush, DriveSteps, runtime
  <2>6. ASSUME NEW t \in Task, PickGroup(t) PROVE ControlType'
    BY <1>0, <2>6 DEF PickGroup, DriveSteps, runtime
  <2>7. ASSUME NEW e \in entries, Commit(e) PROVE ControlType'
    BY <1>0, <2>7 DEF Commit, CatchDelivery, DriveSteps, runtime
  <2> QED BY <1>5, <2>1, <2>2, <2>3, <2>4, <2>5, <2>6, <2>7 DEF Drive
<1>6. CASE LoopCheck \/ EndRun
  BY <1>0, <1>6 DEF LoopCheck, EndRun, work
<1>7. CASE FireTimer
  BY <1>0, <1>1, <1>7 DEF FireTimer, work
<1>8. CASE Stop \/ Close \/ Start \/ Crash
  BY <1>0, <1>8 DEF Stop, Close, Start, Crash, runtime, work
<1>9. CASE Tick \/ Rollback
  BY <1>0, <1>9 DEF Tick, Rollback, Instant, runtime, work
<1>10. CASE UNCHANGED vars
  BY <1>0, <1>10 DEF vars, runtime, work
<1> QED BY <1>3, <1>4, <1>5, <1>6, <1>7, <1>8, <1>9, <1>10 DEF Next
-----------------------------------------------------------------------------
(* What the running operation holds.                                         *)

\* A management call takes its turn when nothing runs, or changes neither rows
\* nor the operation that runs.
LEMMA ManageFrame ==
  ASSUME IInv, Manage
  PROVE  /\ UNCHANGED <<now, stage>>
         /\ run = "driving" => run' = "driving"
         /\ \/ UNCHANGED <<rows, work>>
            \/ step = "none" /\ UNCHANGED work
            \/ /\ step = "none" /\ step' = "sweep" /\ todo' \subseteq Stored(rows) /\ stage # "closed"
               /\ UNCHANGED <<rows, seen, group, entries, failed>>
<1> USE DEF Turn, runtime
<1>1. ASSUME NEW t \in Task, NEW row, Changes(t, row)
      PROVE  UNCHANGED <<now, stage, work>> /\ (run = "driving" => run' = "driving")
  BY <1>1 DEF Changes, RequestDrive
<1>2. ASSUME NEW call, Wait(call) PROVE UNCHANGED <<now, stage, rows, run, work>>
  BY <1>2 DEF Wait
<1>3. ASSUME NEW t \in Task, CallCreate(t) \/ CallUpdate(t)
      PROVE UNCHANGED <<now, stage, rows, run, work>>
  BY <1>2, <1>3 DEF CallCreate, CallUpdate
<1>4. ASSUME NEW t \in Task, Rename(t) \/ Delete(t)
      PROVE  step = "none" /\ UNCHANGED <<now, stage, work>> /\ (run = "driving" => run' = "driving")
  BY <1>1, <1>4 DEF Rename, Delete
<1>5. ASSUME NEW call \in waiting, Create(call) \/ Update(call)
      PROVE  step = "none" /\ UNCHANGED <<now, stage, work>> /\ (run = "driving" => run' = "driving")
  <2>1. call.task \in Task BY DEF IInv, CallInv, Call
  <2> QED BY <1>1, <1>5, <2>1 DEF Create, Update
<1>6. ASSUME NEW call \in waiting, Withdraw(call)
      PROVE  UNCHANGED <<now, stage, rows, run, work>>
  BY <1>6 DEF Withdraw, store
<1>7. ASSUME NEW s \in Session, BeginStop(s)
      PROVE  /\ UNCHANGED <<now, stage, run>> /\ step = "none" /\ step' = "sweep"
             /\ todo' \subseteq Stored(rows) /\ stage # "closed"
             /\ UNCHANGED <<rows, seen, group, entries, failed>>
  BY <1>7 DEF BeginStop, store, Active
<1> QED BY <1>3, <1>4, <1>5, <1>6, <1>7 DEF Manage

LEMMA HoldStep ==
  ASSUME IInv, [Next]_vars
  PROVE  HoldInv'
<1> USE DEF HoldInv, DriveSteps
<1>0. HoldInv BY DEF IInv
<1>1. CASE Manage BY <1>0, <1>1, ManageFrame DEF work, Stored
<1>2. CASE SweepOn
  <2>1. ASSUME NEW t \in Task, Sweep(t) PROVE HoldInv'
    <3>1. \A u \in Task \ {t} : rows'[u] = rows[u]
      BY <2>1 DEF Sweep, Publish, PublishFails, IInv, StoreInv, Table
    <3>2. todo \subseteq Task BY DEF IInv, WorkType
    <3> QED BY <1>0, <2>1, <3>1, <3>2 DEF Sweep, runtime
  <2>2. CASE EndStop BY <1>0, <2>2 DEF EndStop
  <2> QED BY <1>2, <2>1, <2>2 DEF SweepOn
<1>3. CASE Drive
  <2>1. CASE Scan BY <1>0, <2>1 DEF Scan, Turn
  <2>2. CASE FinishDrive BY <1>0, <2>2 DEF FinishDrive, LeaveDrive
  <2>3. CASE Resolve BY <1>0, <2>3 DEF Resolve, LeaveDrive
  <2>4. CASE ResolveFails \/ FlushFails
    BY <1>0, <2>4 DEF ResolveFails, FlushFails, CatchDelivery, runtime
  <2>5. CASE Flush BY <1>0, <2>5 DEF Flush, runtime
  <2>6. ASSUME NEW t \in Task, PickGroup(t) PROVE HoldInv'
    BY <1>0, <2>6 DEF PickGroup, runtime
  <2>7. ASSUME NEW e \in entries, Commit(e) PROVE HoldInv'
    BY <1>0, <2>7 DEF Commit, CatchDelivery, runtime
  <2> QED BY <1>3, <2>1, <2>2, <2>3, <2>4, <2>5, <2>6, <2>7 DEF Drive
<1>4. CASE LoopCheck \/ EndRun BY <1>0, <1>4 DEF LoopCheck, EndRun, store, work
<1>5. CASE FireTimer BY <1>0, <1>5 DEF FireTimer, RequestDrive, runtime, store, work
<1>6. CASE Stop BY <1>0, <1>6 DEF Stop, store, work
<1>7. CASE Close BY <1>0, <1>7 DEF Close, Turn, runtime, work
<1>8. CASE Start \/ Crash BY <1>8 DEF Start, Crash
<1>9. CASE Tick \/ Rollback BY <1>0, <1>9 DEF Tick, Rollback, runtime, store, work
<1>10. CASE UNCHANGED vars BY <1>0, <1>10 DEF vars, runtime, store, work
<1> QED BY <1>1, <1>2, <1>3, <1>4, <1>5, <1>6, <1>7, <1>8, <1>9, <1>10 DEF Next

\* The members still due when the session is back, and their occurrences.
LEMMA ResolveEntries ==
  ASSUME IInv, Resolve, stage = "up"
  PROVE  /\ group' \subseteq group /\ entries' \subseteq Entry
         /\ \A e \in entries' : /\ e.task \in group /\ e.task \in Task
                                /\ e.epoch = seen[e.task].epoch /\ seen[e.task].at <= e.at
         /\ \A e, f \in entries' : e.task = f.task => e = f
<1>1. /\ step = "resolve" /\ group' = {t \in group : seen[t].at <= now}
      /\ entries' = {[task |-> t, epoch |-> seen[t].epoch, at |-> Occurrence(seen[t], now)]
                       : t \in group'}
  BY DEF Resolve
<1>2. ASSUME NEW t \in group'
      PROVE  /\ t \in Task /\ t \in group
             /\ seen[t].epoch \in Nat \ {0} /\ Occurrence(seen[t], now) \in Instant
             /\ seen[t].at <= Occurrence(seen[t], now)
  <2>1. t \in group /\ t \in Task /\ seen[t].at <= now BY <1>1, <1>2 DEF IInv, WorkType
  <2>2. seen[t] \in Row
    BY <1>1, <2>1 DEF IInv, SnapshotInv, Current, StoreInv, Table
  <2>3. now \in Instant BY DEF IInv, ControlType
  <2> QED BY <2>1, <2>2, <2>3, OccurrenceBounds, RowFields
<1>3. \A e \in entries' : \E t \in group' :
        e = [task |-> t, epoch |-> seen[t].epoch, at |-> Occurrence(seen[t], now)]
  BY <1>1
<1>4. entries' \subseteq Entry BY <1>2, <1>3 DEF Entry
<1>5. \A e, f \in entries' : e.task = f.task => e = f BY <1>3
<1> QED BY <1>1, <1>2, <1>3, <1>4, <1>5

LEMMA WorkStep ==
  ASSUME IInv, [Next]_vars
  PROVE  WorkType'
<1> USE DEF WorkType
<1>0. WorkType /\ rows \in Table BY DEF IInv, StoreInv
<1>1. NoRows \in Table BY DEF NoRows, Table
<1>2. CASE Manage BY <1>0, <1>2, ManageFrame DEF work, Stored
<1>3. CASE SweepOn
  <2>1. ASSUME NEW t \in Task, Sweep(t) PROVE WorkType' BY <1>0, <2>1 DEF Sweep
  <2>2. CASE EndStop BY <1>0, <2>2 DEF EndStop
  <2> QED BY <1>3, <2>1, <2>2 DEF SweepOn
<1>4. CASE Drive
  <2>1. CASE Scan
    <3>1. DueAt(rows, now) \subseteq Task BY DEF DueAt, Active, Stored
    <3> QED BY <1>0, <2>1, <3>1 DEF Scan
  <2>2. CASE FinishDrive BY <1>0, <1>1, <2>2 DEF FinishDrive, LeaveDrive
  <2>3. CASE Resolve
    <3>1. CASE stage = "up"
      BY <1>0, <2>3, <3>1, ResolveEntries DEF Resolve
    <3>2. CASE stage # "up" BY <1>0, <1>1, <2>3, <3>2 DEF Resolve, LeaveDrive
    <3> QED BY <3>1, <3>2
  <2>4. CASE ResolveFails \/ FlushFails
    BY <1>0, <2>4 DEF ResolveFails, FlushFails, CatchDelivery
  <2>5. CASE Flush BY <1>0, <2>5 DEF Flush
  <2>6. ASSUME NEW t \in Task, PickGroup(t) PROVE WorkType' BY <1>0, <2>6 DEF PickGroup
  <2>7. ASSUME NEW e \in entries, Commit(e) PROVE WorkType'
    <3>1. {x.task : x \in entries} \subseteq Task BY <1>0 DEF Entry
    <3> QED BY <1>0, <2>7, <3>1 DEF Commit, CatchDelivery
  <2> QED BY <1>4, <2>1, <2>2, <2>3, <2>4, <2>5, <2>6, <2>7 DEF Drive
<1>5. CASE LoopCheck \/ EndRun \/ FireTimer \/ Stop \/ Close \/ Tick \/ Rollback
  BY <1>0, <1>5 DEF LoopCheck, EndRun, FireTimer, Stop, Close, Tick, Rollback, work
<1>6. CASE Start \/ Crash BY <1>1, <1>6 DEF Start, Crash
<1>7. CASE UNCHANGED vars BY <1>0, <1>7 DEF vars, work
<1> QED BY <1>2, <1>3, <1>4, <1>5, <1>6, <1>7 DEF Next

\* A delivery writes what it has read: nothing writes between its scan and its end.
LEMMA SnapshotStep ==
  ASSUME IInv, [Next]_vars
  PROVE  SnapshotInv'
<1> USE DEF SnapshotInv, Current, DriveSteps
<1>0. /\ SnapshotInv /\ HoldInv /\ rows \in Table
      /\ todo \subseteq Task /\ group \subseteq Task /\ entries \subseteq Entry
  BY DEF IInv, StoreInv, WorkType
<1>1. ASSUME UNCHANGED <<rows, work>> PROVE SnapshotInv'
  BY <1>0, <1>1 DEF work
<1>2. CASE Manage
  <2>1. CASE step = "none" /\ UNCHANGED work
    BY <1>0, <2>1 DEF work, HoldInv
  <2>2. CASE step' = "sweep" /\ step = "none" /\ UNCHANGED <<rows, seen, group, entries, failed>>
    BY <1>0, <2>2 DEF HoldInv
  <2> QED BY <1>1, <1>2, <2>1, <2>2, ManageFrame
<1>3. CASE SweepOn
  <2>1. SweepOn => step = "sweep" /\ step' \in {"sweep", "none"} /\ UNCHANGED entries
    BY DEF SweepOn, Sweep, EndStop
  <2> QED BY <1>0, <1>3, <2>1 DEF HoldInv
<1>4. CASE Drive
  <2>1. CASE Scan
    BY <1>0, <2>1 DEF Scan, Turn, DueAt, Active, Stored, store, HoldInv
  <2>2. CASE FinishDrive BY <1>0, <2>2 DEF FinishDrive, LeaveDrive, HoldInv
  <2>3. CASE Resolve
    <3>1. CASE stage = "up"
      <4>1. UNCHANGED <<rows, seen, todo>> /\ step' \in {"next", "flush"} /\ step = "resolve"
        BY <2>3, <3>1 DEF Resolve, store
      <4> QED BY <1>0, <2>3, <3>1, <4>1, ResolveEntries
    <3>2. CASE stage # "up" BY <1>0, <2>3, <3>2 DEF Resolve, LeaveDrive, HoldInv
    <3> QED BY <3>1, <3>2
  <2>4. CASE ResolveFails \/ FlushFails
    BY <1>0, <2>4 DEF ResolveFails, FlushFails, CatchDelivery, store
  <2>5. CASE Flush BY <1>0, <2>5 DEF Flush, store
  <2>6. ASSUME NEW t \in Task, PickGroup(t) PROVE SnapshotInv'
    BY <1>0, <2>6 DEF PickGroup, store, HoldInv
  <2>7. ASSUME NEW e \in entries, Commit(e) PROVE SnapshotInv'
    <3>1. CASE Publish(e.task, Recorded(e)) /\ entries' = entries \ {e}
      <4>1. \A u \in Task : u # e.task => rows'[u] = rows[u]
        BY <1>0, <3>1 DEF Publish, Table
      <4>2. UNCHANGED <<seen, todo>> /\ step' \in {"next", "commit"}
        BY <2>7 DEF Commit, CatchDelivery
      <4>3. \A f \in entries' : f.task \in Task /\ f.task # e.task
        BY <1>0, <3>1 DEF Entry
      <4> QED BY <1>0, <2>7, <3>1, <4>1, <4>2, <4>3 DEF Commit
    <3>2. CASE PublishFails(e.task, Recorded(e)) /\ CatchDelivery({x.task : x \in entries})
      BY <1>0, <2>7, <3>2 DEF Commit, PublishFails, CatchDelivery
    <3> QED BY <2>7, <3>1, <3>2 DEF Commit
  <2> QED BY <1>4, <2>1, <2>2, <2>3, <2>4, <2>5, <2>6, <2>7 DEF Drive
<1>5. CASE LoopCheck \/ EndRun \/ FireTimer \/ Stop \/ Close \/ Tick \/ Rollback
  BY <1>1, <1>5 DEF LoopCheck, EndRun, FireTimer, Stop, Close, Tick, Rollback, store
<1>6. CASE Start \/ Crash BY <1>6 DEF Start, Crash
<1>7. CASE UNCHANGED vars BY <1>1, <1>7 DEF vars, store
<1> QED BY <1>2, <1>3, <1>4, <1>5, <1>6, <1>7 DEF Next
-----------------------------------------------------------------------------
(* Calls that wait.                                                          *)

\* A write to a stored task disturbs no call that waits.
LEMMA CallFrame ==
  ASSUME IInv, waiting' \subseteq waiting,
         NEW t \in Task,
         \/ rows[t] # NoRow
         \/ \A c \in waiting' : c.do = "create" => c.task # t
         \/ rows'[t] = rows[t] /\ life'[t] = life[t],
         \A u \in Task \ {t} : rows'[u] = rows[u] /\ life'[u] = life[u]
  PROVE  CallInv'
<1>1. \A c \in waiting' : c \in Call /\ c.task \in Task
  BY DEF IInv, CallInv, Call
<1>2. \A c \in waiting' : c.do = "create" =>
        rows'[c.task] = rows[c.task] /\ life'[c.task] = life[c.task]
  BY <1>1 DEF IInv, CallInv
<1> QED BY <1>1, <1>2 DEF IInv, CallInv, Ahead

LEMMA CallStep ==
  ASSUME IInv, [Next]_vars
  PROVE  CallInv'
<1>0. rows \in Table /\ life \in [Task -> {"unborn", "born", "deleted"}] /\ CallInv
  BY DEF IInv, StoreInv
<1>1. ASSUME waiting' \subseteq waiting, UNCHANGED <<rows, life>> PROVE CallInv'
  BY <1>0, <1>1 DEF CallInv, Ahead
<1>2. ASSUME NEW t \in Task, NEW row, Publish(t, row) \/ PublishFails(t, row)
      PROVE  \A u \in Task \ {t} : rows'[u] = rows[u]
  BY <1>0, <1>2 DEF Publish, PublishFails, Table
<1>3. CASE Manage
  <2>1. ASSUME NEW t \in Task, CallCreate(t) PROVE CallInv'
    <3> DEFINE timing == Timings[t][1]
               row == [at |-> now + timing[2], every |-> timing[1], epoch |-> 1,
                       active |-> TRUE, last |-> NoDelivery]
               call == [do |-> "create", task |-> t, row |-> row]
    <3>1. /\ life[t] = "unborn" /\ now + timing[2] <= Horizon
          /\ waiting' = waiting \cup {call}
          /\ life' = [life EXCEPT ![t] = "born"] /\ UNCHANGED rows
      BY <2>1 DEF CallCreate, Wait
    <3>2. rows[t] = NoRow BY <3>1 DEF IInv, StoreInv
    <3>3. 1 \in 1..Len(Timings[t])
      BY ScheduleAssumption
    <3>4. timing[1] \in Nat /\ timing[2] \in Nat \ {0} BY <3>3, TimingType
    <3>5. now + timing[2] \in Instant
      <4> HIDE DEF timing
      <4> QED BY <3>1, <3>4, ScheduleAssumption DEF IInv, ControlType, Instant
    <3>6. row \in Row /\ Ahead(row)
      <4>1. NoDelivery \in Delivery /\ NoDelivery.epoch = 0
        BY InstantIsNat DEF NoDelivery, Delivery, Instant
      <4> HIDE DEF timing
      <4> QED BY <3>4, <3>5, <4>1 DEF Row, Ahead
    <3>7. call \in Call /\ call.do = "create" /\ call.task = t /\ call.row = row
      <4> HIDE DEF row
      <4> QED BY <3>6 DEF Call
    <3> HIDE DEF call, row
    <3>8. \A c \in waiting : c.task \in Task /\ (c.do = "create" => c.task # t)
      BY <3>1 DEF IInv, CallInv, Call
    <3>9. \A u \in Task : life'[u] = IF u = t THEN "born" ELSE life[u]
      BY <1>0, <3>1
    <3>10. \A c \in waiting' : c = call \/ c \in waiting BY <3>1
    <3> QED BY <1>0, <3>1, <3>2, <3>6, <3>7, <3>8, <3>9, <3>10 DEF CallInv, Ahead
  <2>2. ASSUME NEW t \in Task, CallUpdate(t) PROVE CallInv'
    <3> DEFINE call == [do |-> "update", task |-> t, expected |-> rows[t]]
    <3>1. /\ waiting' = waiting \cup {call} /\ UNCHANGED <<rows, life>>
          /\ rows[t].epoch < Len(Timings[t]) /\ rows[t] \in Row
      BY <1>0, <2>2 DEF CallUpdate, Wait, Active, Stored, Table
    <3>2. /\ call \in Call /\ call.do = "update" /\ call.task = t
          /\ call.expected.epoch < Len(Timings[t])
      BY <3>1 DEF Call
    <3> HIDE DEF call
    <3> QED BY <1>0, <3>1, <3>2 DEF CallInv, Ahead
  <2>3. ASSUME NEW t \in Task, Rename(t) \/ Delete(t) PROVE CallInv'
    <3>1. UNCHANGED waiting /\ rows[t] # NoRow
      BY <2>3 DEF Rename, Delete, Active, Stored
    <3>2. \A u \in Task \ {t} : rows'[u] = rows[u]
      BY <1>2, <2>3 DEF Rename, Delete, Changes
    <3>3. \A u \in Task \ {t} : life'[u] = life[u]
      BY <1>0, <2>3 DEF Rename, Delete
    <3> QED BY <3>1, <3>2, <3>3, CallFrame
  <2>4. ASSUME NEW call \in waiting, Create(call) \/ Update(call) PROVE CallInv'
    <3>1. call.task \in Task BY DEF IInv, CallInv, Call
    <3>2. waiting' = waiting \ {call} /\ UNCHANGED life
      BY <2>4 DEF Create, Update
    <3>3. \A u \in Task \ {call.task} : rows'[u] = rows[u]
      BY <1>2, <2>4, <3>1 DEF Create, Update, Changes
    <3>4. CASE Create(call)
      <4>1. \A c \in waiting' : c.do = "create" => c.task # call.task
        BY <1>0, <3>2, <3>4 DEF Create, CallInv
      <4> QED BY <3>1, <3>2, <3>3, <4>1, CallFrame
    <3>5. CASE Update(call)
      <4>1. rows[call.task] # NoRow
        BY <3>5 DEF Update, CanChange, Expected, Active, Stored
      <4> QED BY <3>1, <3>2, <3>3, <4>1, CallFrame
    <3> QED BY <2>4, <3>4, <3>5
  <2>5. ASSUME NEW call \in waiting, Withdraw(call) PROVE CallInv'
    BY <1>1, <2>5 DEF Withdraw, store
  <2>6. ASSUME NEW s \in Session, BeginStop(s) PROVE CallInv'
    BY <1>1, <2>6 DEF BeginStop, store
  <2> QED BY <1>3, <2>1, <2>2, <2>3, <2>4, <2>5, <2>6 DEF Manage
<1>4. CASE SweepOn
  <2>1. ASSUME NEW t \in Task, Sweep(t) PROVE CallInv'
    <3>1. UNCHANGED waiting /\ rows[t] # NoRow
      BY <2>1 DEF Sweep, IInv, HoldInv
    <3>2. \A u \in Task \ {t} : rows'[u] = rows[u]
      BY <1>2, <2>1 DEF Sweep
    <3>3. \A u \in Task \ {t} : life'[u] = life[u]
      BY <1>0, <2>1 DEF Sweep
    <3> QED BY <3>1, <3>2, <3>3, CallFrame
  <2>2. CASE EndStop BY <1>1, <2>2 DEF EndStop, store
  <2> QED BY <1>4, <2>1, <2>2 DEF SweepOn
<1>5. CASE Drive
  <2>1. ASSUME \/ Scan \/ FinishDrive \/ Resolve \/ ResolveFails \/ Flush \/ FlushFails
               \/ \E t \in Task : PickGroup(t)
        PROVE  CallInv'
    BY <1>1, <2>1 DEF Scan, FinishDrive, Resolve, ResolveFails, Flush, FlushFails, PickGroup, store
  <2>2. ASSUME NEW e \in entries, Commit(e) PROVE CallInv'
    <3>1. e.task \in Task /\ rows[e.task] # NoRow
      BY DEF IInv, WorkType, Entry, SnapshotInv, Current
    <3>2. UNCHANGED <<waiting, life>> BY <2>2 DEF Commit
    <3>3. \A u \in Task \ {e.task} : rows'[u] = rows[u]
      BY <1>2, <2>2, <3>1 DEF Commit
    <3> QED BY <3>1, <3>2, <3>3, CallFrame
  <2> QED BY <1>5, <2>1, <2>2 DEF Drive
<1>6. CASE LoopCheck \/ EndRun \/ FireTimer \/ Stop \/ Close \/ Tick \/ Rollback
  BY <1>1, <1>6 DEF LoopCheck, EndRun, FireTimer, Stop, Close, Tick, Rollback, store
<1>7. CASE Start \/ Crash
  <2>1. waiting' = {} BY <1>7 DEF Start, Crash
  <2> QED BY <2>1 DEF CallInv
<1>8. CASE UNCHANGED vars BY <1>1, <1>8 DEF vars, store
<1> QED BY <1>3, <1>4, <1>5, <1>6, <1>7, <1>8 DEF Next
-----------------------------------------------------------------------------
(* The timer.                                                                *)
LEMMA TimerStep ==
  ASSUME IInv, [Next]_vars
  PROVE  TimerInv'
<1> USE DEF TimerInv, Covered
<1>0. TimerInv /\ run \in {"idle", "driving", "looping", "ending"} /\ rows \in Table
  BY DEF IInv, ControlType, StoreInv
<1>1. ASSUME UNCHANGED <<stage, rows, run, requested, timer, failed>> PROVE TimerInv'
  BY <1>0, <1>1
<1>2. ASSUME RequestDrive, UNCHANGED stage, stage = "up" PROVE TimerInv'
  BY <1>0, <1>2 DEF RequestDrive
<1>3. ASSUME RequestDrive, UNCHANGED <<stage, rows, failed>> PROVE TimerInv'
  BY <1>1, <1>2, <1>3 DEF RequestDrive, runtime
<1>4. ASSUME NEW t \in Task, NEW row, Changes(t, row) PROVE TimerInv'
  <2>1. CASE PublishFails(t, row) /\ UNCHANGED runtime
    BY <1>1, <1>4, <2>1 DEF Changes, PublishFails, runtime, work
  <2>2. CASE RequestDrive
    <3>1. CASE stage = "up" BY <1>2, <1>4, <2>2, <3>1 DEF Changes
    <3>2. CASE stage # "up" BY <1>4, <3>2 DEF Changes
    <3> QED BY <3>1, <3>2
  <2> QED BY <1>4, <2>1, <2>2 DEF Changes
<1>5. CASE Manage
  <2>1. ASSUME NEW call, Wait(call) PROVE TimerInv'
    BY <1>1, <2>1 DEF Wait, runtime, work
  <2>2. ASSUME NEW t \in Task, CallCreate(t) \/ CallUpdate(t) PROVE TimerInv'
    BY <2>1, <2>2 DEF CallCreate, CallUpdate
  <2>3. ASSUME NEW t \in Task, Rename(t) \/ Delete(t) PROVE TimerInv'
    BY <1>4, <2>3 DEF Rename, Delete
  <2>4. ASSUME NEW call \in waiting, Create(call) \/ Update(call) PROVE TimerInv'
    <3>1. call.task \in Task BY DEF IInv, CallInv, Call
    <3> QED BY <1>4, <2>4, <3>1 DEF Create, Update
  <2>5. ASSUME NEW call \in waiting, Withdraw(call) PROVE TimerInv'
    BY <1>1, <2>5 DEF Withdraw, store, runtime, work
  <2>6. ASSUME NEW s \in Session, BeginStop(s) PROVE TimerInv'
    BY <1>1, <2>6 DEF BeginStop, store, runtime
  <2> QED BY <1>5, <2>2, <2>3, <2>4, <2>5, <2>6 DEF Manage
<1>6. CASE SweepOn
  <2>1. ASSUME NEW t \in Task, Sweep(t) PROVE TimerInv'
    <3>1. UNCHANGED <<stage, run, requested, timer, failed>> BY <2>1 DEF Sweep, runtime
    <3>2. \A u \in Task : rows'[u] = rows[u] \/ rows'[u] = NoRow
      BY <1>0, <2>1 DEF Sweep, Publish, PublishFails, Table
    <3> QED BY <1>0, <3>1, <3>2
  <2>2. CASE EndStop
    <3>1. CASE RequestDrive BY <1>3, <2>2, <3>1 DEF EndStop, store
    <3>2. CASE UNCHANGED runtime BY <1>1, <2>2, <3>2 DEF EndStop, store, runtime
    <3> QED BY <2>2, <3>1, <3>2 DEF EndStop
  <2> QED BY <1>6, <2>1, <2>2 DEF SweepOn
<1>7. CASE Drive
  <2>1. run = "driving" /\ UNCHANGED stage
    BY <1>7 DEF Drive, Scan, FinishDrive, Resolve, ResolveFails, Flush, FlushFails, PickGroup,
                Commit, IInv, HoldInv, DriveSteps
  <2>2. CASE FinishDrive
    <3>1. CASE stage = "up"
      <4>1. /\ timer' = NextTarget(Active(rows) \ failed)
            /\ run' = "looping" /\ UNCHANGED <<rows, failed>>
        BY <2>2, <3>1 DEF FinishDrive, LeaveDrive, store
      <4>2. \A t \in Active(rows) \ failed : timer' <= rows[t].at
        BY <4>1, NextTargetBound
      <4> QED BY <4>1, <4>2 DEF Active, Stored
    <3>2. CASE stage # "up" BY <2>1, <3>2
    <3> QED BY <3>1, <3>2
  <2>3. CASE Resolve
    <3>1. CASE stage = "up" BY <2>1, <2>3, <3>1 DEF Resolve
    <3>2. CASE stage # "up" BY <2>1, <3>2
    <3> QED BY <3>1, <3>2
  <2>4. ASSUME Scan \/ ResolveFails \/ Flush \/ FlushFails \/ (\E t \in Task : PickGroup(t))
               \/ (\E e \in entries : Commit(e))
        PROVE  run' = run
    BY <2>4 DEF Scan, ResolveFails, Flush, FlushFails, PickGroup, Commit, runtime
  <2> QED BY <1>7, <2>1, <2>2, <2>3, <2>4 DEF Drive
<1>8. CASE LoopCheck \/ EndRun
  BY <1>0, <1>8 DEF LoopCheck, EndRun, store, work
<1>9. CASE FireTimer BY <1>2, <1>9 DEF FireTimer
<1>10. CASE Stop \/ Close \/ Start \/ Crash
  BY <1>10 DEF Stop, Close, Start, Crash
<1>11. CASE Tick \/ Rollback BY <1>1, <1>11 DEF Tick, Rollback, store, runtime, work
<1>12. CASE UNCHANGED vars BY <1>1, <1>12 DEF vars, store, runtime, work
<1> QED BY <1>5, <1>6, <1>7, <1>8, <1>9, <1>10, <1>11, <1>12 DEF Next
-----------------------------------------------------------------------------
(* The theorems.                                                             *)
LEMMA IInvInit == Init => IInv
<1> SUFFICES ASSUME Init PROVE IInv OBVIOUS
<1>1. NoRows \in Table /\ \A t \in Task : NoRows[t] = NoRow BY DEF NoRows, Table
<1>2. 0 \in Instant /\ NoTimer \in 0..NoTimer BY InstantIsNat DEF Instant, NoTimer
<1>3. StoreInv BY <1>1 DEF Init, StoreInv
<1>4. ControlType BY <1>2 DEF Init, Idle, ControlType
<1>5. WorkType BY <1>1 DEF Init, Idle, WorkType
<1>6. HoldInv /\ SnapshotInv BY DEF Init, Idle, HoldInv, SnapshotInv, DriveSteps
<1>7. CallInv /\ TimerInv BY DEF Init, CallInv, TimerInv
<1> QED BY <1>3, <1>4, <1>5, <1>6, <1>7 DEF IInv

LEMMA IInvStep == IInv /\ [Next]_vars => IInv'
BY StoreStep, ControlStep, WorkStep, HoldStep, SnapshotStep, CallStep, TimerStep DEF IInv

\* The inductive invariant.
THEOREM ScheduleInvariant == Spec => []IInv
BY IInvInit, IInvStep, PTL DEF Spec

\* Types, for any tasks, timings, bounds and faults.
THEOREM ScheduleType == Spec => []TypeOK
<1>1. IInv => TypeOK
  BY DEF IInv, StoreInv, ControlType, WorkType, CallInv, DriveSteps, TypeOK
<1> QED BY <1>1, ScheduleInvariant, PTL

\* Whenever the runtime rests, no request is pending and the timer covers every
\* active task the last delivery did not fail.
THEOREM NeverForgotten == Spec => []NoneForgotten
<1>1. IInv => NoneForgotten
  BY DEF IInv, TimerInv, Covered, NoneForgotten, Active, Stored
<1> QED BY <1>1, ScheduleInvariant, PTL

\* No delivery, failed publish, stop, crash or restart brings a deleted task
\* back or lowers the epoch of a stored one.
THEOREM ManagementSurvives == Spec => ManagementHolds
<1>1. IInv /\ [Next]_vars => [\A t \in Task :
        /\ life[t] = "deleted" => rows'[t] = NoRow /\ disk'[t] = NoRow
        /\ t \in Stored(rows) /\ t \in Stored(rows') =>
             rows'[t].epoch >= rows[t].epoch]_vars
  <2> SUFFICES ASSUME IInv, [Next]_vars, NEW t \in Task
               PROVE  /\ life[t] = "deleted" => rows'[t] = NoRow /\ disk'[t] = NoRow
                      /\ t \in Stored(rows) /\ t \in Stored(rows') =>
                           rows'[t].epoch >= rows[t].epoch
    OBVIOUS
  <2>1. life[t] = "deleted" => life'[t] = "deleted"
    <3>1. CASE UNCHANGED store BY <3>1 DEF store
    <3>2. ASSUME NEW u \in Task, CallCreate(u) PROVE life[t] = "deleted" => life'[t] = "deleted"
      BY <3>2 DEF CallCreate, IInv, StoreInv
    <3>3. ASSUME NEW u \in Task, NEW row \in Row \cup {NoRow}, Written(u, row)
          PROVE  life[t] = "deleted" => life'[t] = "deleted"
      BY <3>3 DEF Written, IInv, StoreInv
    <3>4. CASE Start \/ Crash BY <3>4 DEF Start, Crash
    <3> QED BY <3>1, <3>2, <3>3, <3>4, WriterSteps
  <2>2. StoreInv' /\ (t \in Stored(rows) /\ t \in Stored(rows') => rows[t].epoch <= rows'[t].epoch)
    BY StoreStep DEF Stored
  <2>3. t \in Stored(rows) /\ t \in Stored(rows') => rows[t].epoch \in Nat /\ rows'[t].epoch \in Nat
    BY <2>2, RowFields DEF Stored, IInv, StoreInv, Table
  <2>4. life'[t] = "deleted" => rows'[t] = NoRow /\ disk'[t] = NoRow
    BY <2>2 DEF StoreInv
  <2> QED BY <2>1, <2>2, <2>3, <2>4
<1> QED BY <1>1, ScheduleInvariant, PTL DEF Spec, ManagementHolds

\* What a message announces is past what was recorded for the same timing.
THEOREM NeverRepeated == Spec => AcknowledgedNotRepeated
<1>1. IInv /\ [Next]_vars => [\A e \in entries' \ entries :
        rows[e.task].last.epoch = e.epoch => rows[e.task].last.at < e.at]_vars
  <2> SUFFICES ASSUME IInv, [Next]_vars, NEW e \in entries' \ entries,
                      rows[e.task].last.epoch = e.epoch
               PROVE  rows[e.task].last.at < e.at
    OBVIOUS
  <2>1. Resolve /\ stage = "up"
    <3>1. Manage => entries' = entries BY ManageFrame DEF work
    <3>2. SweepOn => entries' = entries BY DEF SweepOn, Sweep, EndStop
    <3>3. Drive /\ ~Resolve => entries' \subseteq entries
      BY DEF Drive, Scan, FinishDrive, ResolveFails, Flush, FlushFails, PickGroup, Commit,
             CatchDelivery
    <3>4. Resolve /\ stage # "up" => entries' = entries BY DEF Resolve
    <3>5. LoopCheck \/ EndRun \/ FireTimer \/ Stop \/ Close \/ Start \/ Crash \/ Tick \/ Rollback
            => entries' \subseteq entries
      BY DEF LoopCheck, EndRun, FireTimer, Stop, Close, Start, Crash, Tick, Rollback, work
    <3>6. UNCHANGED vars => entries' = entries BY DEF vars, work
    <3> QED BY <3>1, <3>2, <3>3, <3>4, <3>5, <3>6 DEF Next
  <2>2. /\ e \in Entry /\ e.task \in Task /\ Current(e.task)
        /\ e.epoch = rows[e.task].epoch /\ rows[e.task].at <= e.at
    <3>1. step = "resolve" BY <2>1 DEF Resolve
    <3> QED BY <2>1, <3>1, ResolveEntries DEF IInv, SnapshotInv, Current
  <2>3. rows[e.task] \in Row BY <2>2 DEF Current, IInv, StoreInv, Table
  <2>4. rows[e.task].last.at < rows[e.task].at
    BY <2>2, <2>3 DEF Current, IInv, StoreInv, Ahead
  <2>5. rows[e.task].last.at \in Nat /\ rows[e.task].at \in Nat /\ e.at \in Nat
    BY <2>2, <2>3, RowFields, InstantIsNat DEF Entry
  <2> QED BY <2>2, <2>4, <2>5
<1> QED BY <1>1, ScheduleInvariant, PTL DEF Spec, AcknowledgedNotRepeated
=============================================================================
