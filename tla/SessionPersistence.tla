------------------------- MODULE SessionPersistence -------------------------
(***************************************************************************)
(* The write path of one stored session in                                 *)
(* packages/session/session-persistence-jsonl: handles that create it or   *)
(* open it for writing, in several processes over one directory; the       *)
(* in-process claim and the kernel lock; the buffer of routed live events, *)
(* its timer and its single-flight drain; torn tails and their repair;     *)
(* close; crashes of a process.                                            *)
(*                                                                         *)
(* A handle serialises its mutations on a chain.  Its head is at one of    *)
(* the awaits of persistContiguous (step), the rest are turns to come.     *)
(***************************************************************************)
EXTENDS Naturals, Sequences

CONSTANTS Process,   \* processes sharing the storage root
          Handle,    \* write handles, each used once
          Home,      \* Home[h]: the process that calls for it
          Creators,  \* the handles asked for with create(); the others open
          NoOne,     \* no handle
          MaxSeq,    \* bound on the events of the session
          Faults     \* "io", "dirsync", "crash", "late"

ASSUME HandleAssumption ==
  /\ NoOne \notin Handle
  /\ Creators \subseteq Handle
  /\ Home \in [Handle -> Process]
  /\ MaxSeq \in Nat

VARIABLES
  framed,    \* the root is compressed: a batch is one frame
  exists,    \* the log has a name in the session's directory
  lines,     \* the events of its complete lines or frames
  fragment,  \* complete events inside a torn final frame
  torn,      \* the file ends in an incomplete line or frame
  acked,     \* history: the length of the log acknowledged so far
  lock,      \* the holder of the kernel lock on the directory
  claim,     \* JsonlBackendTracker.writers of each process
  stage,     \* the life of a handle
  length,    \* the events of the session in its owner's memory
  cursor,    \* state.cursor: the events the handle knows are stored
  materialized,
  repair,    \* state.tornTruncateTo is set
  recovered, \* state.recoveredTail
  leased,    \* this.lease is set
  chain,     \* the turns of the mutation chain, the head running
  step,      \* where the head is
  batch,     \* the events it writes
  buffered, timer, drainPaused, draining,
  closing,   \* where close() is
  failures   \* close() has a failure to reject with

disk    == <<framed, exists, lines, fragment, torn, acked>>
owners  == <<lock, claim>>
state   == <<cursor, materialized, repair, recovered>>
turn    == <<chain, step, batch>>
buffer  == <<buffered, timer, drainPaused, draining>>
ending  == <<closing, failures>>
vars == <<disk, owners, stage, length, state, leased, turn, buffer, ending>>

Event == [seq: 1..MaxSeq, by: Handle]
Events == UNION {[1..n -> Event] : n \in 0..MaxSeq}
Steps == {"none", "lease", "truncate", "rewrite", "write"}

TypeOK ==
  /\ framed \in BOOLEAN
  /\ exists \in BOOLEAN /\ torn \in BOOLEAN
  /\ lines \in Events /\ fragment \in Events
  /\ acked \in 0..MaxSeq
  /\ lock \in Handle \cup {NoOne}
  /\ claim \in [Process -> Handle \cup {NoOne}]
  /\ stage \in [Handle -> {"unused", "creating", "opening", "locked", "open", "closed",
                           "failed", "dead"}]
  /\ length \in [Handle -> 0..MaxSeq] /\ cursor \in [Handle -> 0..MaxSeq]
  /\ materialized \in [Handle -> BOOLEAN] /\ repair \in [Handle -> BOOLEAN]
  /\ recovered \in [Handle -> Events] /\ leased \in [Handle -> BOOLEAN]
  /\ chain \in [Handle -> Seq({"append", "flush", "drain"})]
  /\ step \in [Handle -> Steps]
  /\ batch \in [Handle -> Events] /\ buffered \in [Handle -> Events]
  /\ timer \in [Handle -> BOOLEAN] /\ drainPaused \in [Handle -> BOOLEAN]
  /\ draining \in [Handle -> BOOLEAN]
  /\ closing \in [Handle -> {"no", "drain", "release", "free", "done"}]
  /\ failures \in [Handle -> BOOLEAN]

Init ==
  /\ framed \in BOOLEAN
  /\ exists = FALSE /\ lines = <<>> /\ fragment = <<>> /\ torn = FALSE /\ acked = 0
  /\ lock = NoOne /\ claim = [p \in Process |-> NoOne]
  /\ stage = [h \in Handle |-> "unused"]
  /\ length = [h \in Handle |-> 0] /\ cursor = [h \in Handle |-> 0]
  /\ materialized = [h \in Handle |-> FALSE] /\ repair = [h \in Handle |-> FALSE]
  /\ recovered = [h \in Handle |-> <<>>] /\ leased = [h \in Handle |-> FALSE]
  /\ chain = [h \in Handle |-> <<>>] /\ step = [h \in Handle |-> "none"]
  /\ batch = [h \in Handle |-> <<>>] /\ buffered = [h \in Handle |-> <<>>]
  /\ timer = [h \in Handle |-> FALSE] /\ drainPaused = [h \in Handle |-> FALSE]
  /\ draining = [h \in Handle |-> FALSE]
  /\ closing = [h \in Handle |-> "no"] /\ failures = [h \in Handle |-> FALSE]

\* What a read returns.
Stored == lines \o fragment

Writer(h) == claim[Home[h]] = h

Live(h) == stage[h] = "open"

Own(h, v) == claim' = [claim EXCEPT ![Home[h]] = v]

\* The handle leaves the claim to others, if it has it.
Disown(h) == claim' = IF Writer(h) THEN [claim EXCEPT ![Home[h]] = NoOne] ELSE claim

Unlock(h) == lock' = IF lock = h THEN NoOne ELSE lock

Become(h, s) == stage' = [stage EXCEPT ![h] = s]

----------------------------------------------------------------------------
(* create() and open(id, 'write').                                         *)

\* create() finds neither a pending session of this process nor a log.
CreateLooks(h) ==
  /\ h \in Creators /\ stage[h] = "unused" /\ ~exists
  /\ LET w == claim[Home[h]] IN w # NoOne => materialized[w]
  /\ Become(h, "creating")
  /\ UNCHANGED <<disk, owners, length, state, leased, turn, buffer, ending>>

\* registerCreated, after the awaits of create().
CreateRegisters(h) ==
  /\ stage[h] = "creating"
  /\ IF claim[Home[h]] = NoOne
     THEN Become(h, "open") /\ Own(h, h)
     ELSE Become(h, "failed") /\ UNCHANGED claim
  /\ UNCHANGED <<disk, lock, length, state, leased, turn, buffer, ending>>

\* claimWrite; a process that already has a writer is refused.
OpenClaims(h) ==
  /\ h \notin Creators /\ stage[h] = "unused" /\ claim[Home[h]] = NoOne
  /\ Become(h, "opening") /\ Own(h, h)
  /\ UNCHANGED <<disk, lock, length, state, leased, turn, buffer, ending>>

\* Mutant: a lock that another holder keeps is taken over.
OpenLocksAnyway(h) ==
  /\ stage[h] = "opening" /\ exists
  /\ Become(h, "locked") /\ lock' = h
  /\ leased' = [leased EXCEPT ![h] = TRUE]
  /\ UNCHANGED <<disk, claim, length, state, turn, buffer, ending>>

\* findLog finds the log and the kernel lock is free.
OpenLocks(h) ==
  /\ stage[h] = "opening" /\ exists /\ lock = NoOne
  /\ Become(h, "locked") /\ lock' = h
  /\ leased' = [leased EXCEPT ![h] = TRUE]
  /\ UNCHANGED <<disk, claim, length, state, turn, buffer, ending>>

\* requireStoredLog: complete records of a torn tail count as stored, and are owed a
\* rewrite.
OpenReads(h) ==
  /\ stage[h] = "locked"
  /\ Become(h, "open")
  /\ length' = [length EXCEPT ![h] = Len(Stored)]
  /\ cursor' = [cursor EXCEPT ![h] = Len(Stored)]
  /\ materialized' = [materialized EXCEPT ![h] = TRUE]
  /\ repair' = [repair EXCEPT ![h] = torn]
  /\ recovered' = [recovered EXCEPT ![h] = fragment]
  /\ UNCHANGED <<disk, owners, leased, turn, buffer, ending>>

\* No log, no lock, an abort or an I/O error: the lock and the claim are given back.
OpenFails(h) ==
  /\ stage[h] \in {"opening", "locked"}
  /\ Become(h, "failed") /\ Unlock(h) /\ Disown(h)
  /\ leased' = [leased EXCEPT ![h] = FALSE]
  /\ UNCHANGED <<disk, length, state, turn, buffer, ending>>

----------------------------------------------------------------------------
(* What the owner of a handle asks of it.                                  *)

NextEvent(h) == [seq |-> length[h] + 1, by |-> h]

\* Mutant: the deadline is left to whatever turn is under way.
PublishUnarmed(h) ==
  /\ Live(h) /\ Writer(h)
  /\ length[h] < MaxSeq /\ "append" \notin {chain[h][i] : i \in DOMAIN chain[h]}
  /\ length' = [length EXCEPT ![h] = @ + 1]
  /\ buffered' = [buffered EXCEPT ![h] = Append(@, NextEvent(h))]
  /\ timer' = [timer EXCEPT ![h] = @ \/ (~drainPaused[h] /\ chain[h] = <<>>)]
  /\ UNCHANGED <<disk, owners, stage, state, leased, turn, drainPaused, draining, ending>>

\* The session publishes an event, routed to the process's writer: enqueueLive.  It is
\* buffered until releaseHandle, also while close() releases the lease.
Publish(h) ==
  /\ Live(h) /\ Writer(h)
  /\ length[h] < MaxSeq /\ "append" \notin {chain[h][i] : i \in DOMAIN chain[h]}
  /\ length' = [length EXCEPT ![h] = @ + 1]
  /\ buffered' = [buffered EXCEPT ![h] = Append(@, NextEvent(h))]
  /\ timer' = [timer EXCEPT ![h] = @ \/ ~drainPaused[h]]
  /\ UNCHANGED <<disk, owners, stage, state, leased, turn, drainPaused, draining, ending>>

\* append(): the closers and the suffix a resumed agent owes, before its session is
\* published.
AppendEvent(h) ==
  /\ Live(h) /\ closing[h] = "no" /\ length[h] < MaxSeq
  /\ chain[h] = <<>> /\ buffered[h] = <<>>
  /\ chain' = [chain EXCEPT ![h] = <<"append">>]
  /\ batch' = [batch EXCEPT ![h] = <<NextEvent(h)>>]
  /\ UNCHANGED <<disk, owners, stage, length, state, leased, step, buffer, ending>>

\* flush() creates a log that does not exist yet; of one that does it changes nothing.
Flush(h) ==
  /\ Live(h) /\ closing[h] = "no" /\ ~materialized[h]
  /\ chain[h] = <<>>
  /\ chain' = [chain EXCEPT ![h] = Append(@, "flush")]
  /\ UNCHANGED <<disk, owners, stage, length, state, leased, step, batch, buffer, ending>>

\* drainLive: callers join a drain in flight; otherwise the pause is lifted and a turn
\* queued unless the buffer is empty.
DrainLive(h) ==
  IF draining[h]
  THEN UNCHANGED <<chain, drainPaused, draining>>
  ELSE /\ drainPaused' = [drainPaused EXCEPT ![h] = FALSE]
       /\ draining' = [draining EXCEPT ![h] = buffered[h] # <<>>]
       /\ chain' = [chain EXCEPT ![h] = IF buffered[h] # <<>> THEN Append(@, "drain") ELSE @]

\* session/flush asks for a drain, whatever the timer.
Drain(h) ==
  /\ Live(h) /\ Writer(h) /\ closing[h] = "no" /\ ~draining[h] /\ buffered[h] # <<>>
  /\ DrainLive(h)
  /\ timer' = [timer EXCEPT ![h] = FALSE]
  /\ UNCHANGED <<disk, owners, stage, length, state, leased, step, batch, buffered, ending>>

\* close() has still to look at the buffer; when its drain fails, or finds the buffer
\* empty, it goes on to release the lock.
Attended(h) == Live(h) /\ closing[h] \in {"no", "drain"} /\ ~failures[h]

\* After that last look: the lease is being released, or has been.
Late(h) ==
  /\ "late" \in Faults
  /\ closing[h] = "done" \/ (closing[h] \in {"release", "free"} /\ leased[h])

\* The batching deadline.  Nothing clears the timer of a handle that closes.
TimerFires(h) ==
  /\ timer[h] /\ (Attended(h) \/ Late(h))
  /\ DrainLive(h)
  /\ timer' = [timer EXCEPT ![h] = FALSE]
  /\ UNCHANGED <<disk, owners, stage, length, state, leased, step, batch, buffered, ending>>

----------------------------------------------------------------------------
(* Turns of the chain: persistContiguous, persistBatch and persistHeader.  *)

\* The await after the lease is held.
AfterLease(h) ==
  IF repair[h] THEN "truncate" ELSE IF recovered[h] # <<>> THEN "rewrite" ELSE "write"

Pop(h) ==
  /\ chain' = [chain EXCEPT ![h] = Tail(@)]
  /\ step' = [step EXCEPT ![h] = "none"]
  /\ batch' = [batch EXCEPT ![h] = <<>>]

\* A queued append or flush is refused once close has begun.
TurnDropped(h) ==
  /\ chain[h] # <<>> /\ step[h] = "none"
  /\ Head(chain[h]) # "drain" /\ closing[h] # "no"
  /\ Pop(h)
  /\ UNCHANGED <<disk, owners, stage, length, state, leased, buffer, ending>>

\* A drain takes the whole buffer when its turn comes.
TurnStarts(h) ==
  /\ chain[h] # <<>> /\ step[h] = "none"
  /\ LET drain == Head(chain[h]) = "drain"
     IN  /\ drain \/ closing[h] = "no"
         /\ batch' = [batch EXCEPT ![h] = IF drain THEN buffered[h] ELSE @]
         /\ buffered' = [buffered EXCEPT ![h] = IF drain THEN <<>> ELSE @]
  /\ step' = [step EXCEPT ![h] = IF leased[h] THEN AfterLease(h) ELSE "lease"]
  /\ UNCHANGED <<disk, owners, stage, length, state, leased, chain, timer, drainPaused,
                 draining, ending>>

\* Mutant: a failed drain is still taken for one in flight.
TurnFailsDraining(h) ==
  LET drain == Head(chain[h]) = "drain"
  IN  /\ Pop(h)
      /\ buffered' = [buffered EXCEPT ![h] = IF drain THEN batch[h] \o @ ELSE @]
      /\ drainPaused' = [drainPaused EXCEPT ![h] = @ \/ drain]
      /\ failures' = [failures EXCEPT ![h] = @ \/ (drain /\ closing[h] = "drain")]
      /\ UNCHANGED <<timer, draining, closing>>

\* The turn rejects; a drain puts its batch back in front of the buffer and pauses,
\* and fails the close that waits for it.
TurnFails(h) ==
  LET drain == Head(chain[h]) = "drain"
  IN  /\ Pop(h)
      /\ buffered' = [buffered EXCEPT ![h] = IF drain THEN batch[h] \o @ ELSE @]
      /\ drainPaused' = [drainPaused EXCEPT ![h] = @ \/ drain]
      /\ draining' = [draining EXCEPT ![h] = @ /\ ~drain]
      /\ failures' = [failures EXCEPT ![h] = @ \/ (drain /\ closing[h] = "drain")]
      /\ UNCHANGED <<timer, closing>>

\* ensureLease, for a created log.
TakeLease(h) ==
  /\ step[h] = "lease" /\ lock = NoOne
  /\ lock' = h /\ leased' = [leased EXCEPT ![h] = TRUE]
  /\ step' = [step EXCEPT ![h] = AfterLease(h)]
  /\ UNCHANGED <<disk, claim, stage, length, state, chain, batch, buffer, ending>>

\* Another process holds the lock, or the log to be created has appeared.
TurnRefused(h) ==
  /\ \/ step[h] = "lease" /\ lock # NoOne
     \/ step[h] = "write" /\ ~materialized[h] /\ exists
  /\ TurnFails(h)
  /\ UNCHANGED <<disk, owners, stage, length, state, leased>>

\* Mutant: the offset is that of the last complete frame.
TruncatesFrame(h) ==
  /\ step[h] = "truncate"
  /\ lines' = IF lines = <<>> THEN lines ELSE SubSeq(lines, 1, Len(lines) - 1)
  /\ torn' = FALSE /\ fragment' = <<>>
  /\ repair' = [repair EXCEPT ![h] = FALSE]
  /\ step' = [step EXCEPT ![h] = IF recovered[h] # <<>> THEN "rewrite" ELSE "write"]
  /\ UNCHANGED <<framed, exists, acked, owners, stage, length, cursor, materialized, recovered,
                 leased, chain, batch, buffer, ending>>

\* truncateTornTail.
Truncates(h) ==
  /\ step[h] = "truncate"
  /\ torn' = FALSE /\ fragment' = <<>>
  /\ repair' = [repair EXCEPT ![h] = FALSE]
  /\ step' = [step EXCEPT ![h] = IF recovered[h] # <<>> THEN "rewrite" ELSE "write"]
  /\ UNCHANGED <<framed, exists, lines, acked, owners, stage, length, cursor, materialized, recovered,
                 leased, chain, batch, buffer, ending>>

\* The recovered events, counted in the cursor since the open, are written again.
Rewrites(h) ==
  /\ step[h] = "rewrite"
  /\ lines' = lines \o recovered[h] /\ acked' = cursor[h]
  /\ recovered' = [recovered EXCEPT ![h] = <<>>]
  /\ step' = [step EXCEPT ![h] = "write"]
  /\ UNCHANGED <<framed, exists, fragment, torn, owners, stage, length, cursor, materialized, repair,
                 leased, chain, batch, buffer, ending>>

\* The batch is written and synced, in a new log or at the end of the old one; a drain
\* goes on while events have arrived meanwhile.
Writes(h) ==
  /\ step[h] = "write" /\ (materialized[h] \/ ~exists)
  /\ exists' = TRUE /\ lines' = lines \o batch[h]
  /\ materialized' = [materialized EXCEPT ![h] = TRUE]
  /\ cursor' = [cursor EXCEPT ![h] = @ + Len(batch[h])]
  /\ acked' = cursor[h] + Len(batch[h])
  /\ length' = [length EXCEPT ![h] = IF Head(chain[h]) = "append" THEN @ + 1 ELSE @]
  /\ LET again == Head(chain[h]) = "drain" /\ buffered[h] # <<>>
     IN  /\ chain' = [chain EXCEPT ![h] = IF again THEN Append(Tail(@), "drain") ELSE Tail(@)]
         /\ draining' = [draining EXCEPT ![h] = IF Head(chain[h]) = "drain" THEN again ELSE @]
  /\ step' = [step EXCEPT ![h] = "none"] /\ batch' = [batch EXCEPT ![h] = <<>>]
  /\ UNCHANGED <<framed, fragment, torn, owners, stage, repair, recovered, leased, buffered, timer,
                 drainPaused, ending>>

----------------------------------------------------------------------------
(* Faults.                                                                 *)

\* A write fails and is rolled back; a truncation may have landed all the same.
WriteFails(h) ==
  /\ "io" \in Faults /\ step[h] # "none"
  /\ TurnFails(h)
  /\ \/ UNCHANGED <<torn, fragment>>
     \/ step[h] = "truncate" /\ torn' = FALSE /\ fragment' = <<>>
  /\ UNCHANGED <<framed, exists, lines, acked, owners, stage, length, state, leased>>

\* The new log is linked, but its directory cannot be synced.
PublishUnsynced(h) ==
  /\ "dirsync" \in Faults /\ step[h] = "write" /\ ~materialized[h] /\ ~exists
  /\ exists' = TRUE /\ lines' = batch[h]
  /\ TurnFails(h)
  /\ UNCHANGED <<framed, fragment, torn, acked, owners, stage, length, state, leased>>

\* What the death of the process may leave of the await a handle is at.
Interrupted(h) ==
  LET B == IF step[h] = "rewrite" THEN recovered[h] ELSE batch[h]
  IN  \/ UNCHANGED <<exists, lines, fragment, torn>>
      \/ /\ step[h] = "truncate" /\ torn' = FALSE /\ fragment' = <<>>
         /\ UNCHANGED <<exists, lines>>
      \/ /\ step[h] = "write" /\ ~materialized[h] /\ ~exists
         /\ exists' = TRUE /\ lines' = B /\ UNCHANGED <<fragment, torn>>
      \/ /\ step[h] \in {"rewrite", "write"} /\ materialized[h]
         /\ \/ /\ torn' = FALSE /\ lines' = lines \o B /\ UNCHANGED fragment
            \/ /\ framed /\ torn' = TRUE /\ UNCHANGED lines
               /\ \E k \in 0..Len(B) : fragment' = SubSeq(B, 1, k)
            \/ /\ ~framed /\ torn' \in BOOLEAN /\ UNCHANGED fragment
               /\ \E k \in 0..Len(B) - 1 : lines' = lines \o SubSeq(B, 1, k)
         /\ UNCHANGED exists

Dies(p) == {h \in Handle : Home[h] = p /\ stage[h] \notin {"unused", "failed", "closed"}}

\* The fields of the handles in H are lost.
Cleared(H, field, empty) == [h \in Handle |-> IF h \in H THEN empty ELSE field[h]]

Forget(H) ==
  /\ length' = Cleared(H, length, 0) /\ cursor' = Cleared(H, cursor, 0)
  /\ materialized' = Cleared(H, materialized, FALSE) /\ repair' = Cleared(H, repair, FALSE)
  /\ recovered' = Cleared(H, recovered, <<>>) /\ leased' = Cleared(H, leased, FALSE)
  /\ chain' = Cleared(H, chain, <<>>) /\ step' = Cleared(H, step, "none")
  /\ batch' = Cleared(H, batch, <<>>) /\ buffered' = Cleared(H, buffered, <<>>)
  /\ timer' = Cleared(H, timer, FALSE) /\ drainPaused' = Cleared(H, drainPaused, FALSE)
  /\ draining' = Cleared(H, draining, FALSE)
  /\ closing' = Cleared(H, closing, "no") /\ failures' = Cleared(H, failures, FALSE)

\* The process dies, and with it its claims, handles and timers; the kernel drops its
\* lock.
Crash(p) ==
  /\ "crash" \in Faults /\ Dies(p) # {}
  /\ \/ (\A h \in Dies(p) : step[h] \in {"none", "lease"}) /\ UNCHANGED disk
     \/ (\E h \in Dies(p) : step[h] \notin {"none", "lease"} /\ Interrupted(h)) /\ UNCHANGED <<framed, acked>>
  /\ lock' = IF lock \in Dies(p) THEN NoOne ELSE lock
  /\ claim' = [claim EXCEPT ![p] = NoOne]
  /\ stage' = [h \in Handle |-> IF h \in Dies(p) THEN "dead" ELSE stage[h]]
  /\ Forget(Dies(p))

----------------------------------------------------------------------------
(* close().                                                                *)

Close(h) ==
  /\ Live(h) /\ closing[h] = "no"
  /\ closing' = [closing EXCEPT ![h] = "drain"]
  /\ DrainLive(h)
  /\ timer' = [timer EXCEPT ![h] = @ /\ draining[h]]
  /\ UNCHANGED <<disk, owners, stage, length, state, leased, step, batch, buffered, failures>>

\* Mutant: one drain is enough.
CloseDrainedOnce(h) ==
  /\ closing[h] = "drain" /\ ~draining[h] /\ chain[h] = <<>>
  /\ closing' = [closing EXCEPT ![h] = "release"]
  /\ UNCHANGED <<disk, owners, stage, length, state, leased, turn, buffer, failures>>

\* The drain and the chain have settled: the buffer is looked at again, unless the drain
\* failed.
CloseDrained(h) ==
  /\ closing[h] = "drain" /\ ~draining[h] /\ chain[h] = <<>>
  /\ IF failures[h] \/ buffered[h] = <<>>
     THEN /\ closing' = [closing EXCEPT ![h] = "release"]
          /\ UNCHANGED <<chain, buffer>>
     ELSE /\ DrainLive(h) /\ timer' = [timer EXCEPT ![h] = FALSE]
          /\ UNCHANGED <<buffered, closing>>
  /\ UNCHANGED <<disk, owners, stage, length, state, leased, step, batch, failures>>

\* The lease is released; this may reject, and the kernel has dropped the lock anyway.
CloseUnlocks(h) ==
  /\ closing[h] = "release"
  /\ Unlock(h)
  /\ closing' = [closing EXCEPT ![h] = "free"]
  /\ \E failed \in (IF "io" \in Faults /\ leased[h] THEN BOOLEAN ELSE {FALSE}) :
        failures' = [failures EXCEPT ![h] = @ \/ failed]
  /\ UNCHANGED <<disk, claim, stage, length, state, leased, turn, buffer>>

\* Only what is late can still use the fields of a handle that is closed.
Leave(h) ==
  IF "late" \in Faults
  THEN /\ closing' = [closing EXCEPT ![h] = "done"]
       /\ UNCHANGED <<length, state, leased, turn, buffer, failures>>
  ELSE Forget({h})

\* Mutant: a close that failed keeps the claim.
CloseFreesOnSuccess(h) ==
  /\ closing[h] = "free"
  /\ Become(h, "closed") /\ Leave(h)
  /\ IF failures[h] THEN UNCHANGED claim ELSE Disown(h)
  /\ UNCHANGED <<disk, lock>>

\* releaseHandle, whatever failed.
CloseFrees(h) ==
  /\ closing[h] = "free"
  /\ Become(h, "closed") /\ Leave(h) /\ Disown(h)
  /\ UNCHANGED <<disk, lock>>

----------------------------------------------------------------------------

Obtain(h) ==
  \/ CreateLooks(h) \/ CreateRegisters(h)
  \/ OpenClaims(h) \/ OpenLocks(h) \/ OpenReads(h) \/ OpenFails(h)

Use(h) == Publish(h) \/ AppendEvent(h) \/ Flush(h) \/ Drain(h) \/ Close(h)

Turn(h) ==
  \/ TurnDropped(h) \/ TurnStarts(h) \/ TakeLease(h) \/ TurnRefused(h)
  \/ Truncates(h) \/ Rewrites(h) \/ Writes(h)

Closing(h) == CloseDrained(h) \/ CloseUnlocks(h) \/ CloseFrees(h)

Fault ==
  \/ \E h \in Handle : WriteFails(h) \/ PublishUnsynced(h)
  \/ \E p \in Process : Crash(p)

Next ==
  \/ \E h \in Handle : Obtain(h) \/ Use(h) \/ Turn(h) \/ TimerFires(h) \/ Closing(h)
  \/ Fault

Spec == Init /\ [][Next]_vars

\* Turns settle, timers fire and a close that has begun goes on.  Nobody need open,
\* publish, flush or close.
FairSpec ==
  Spec /\ \A h \in Handle : WF_vars(Turn(h) \/ Closing(h)) /\ WF_vars(TimerFires(h))

----------------------------------------------------------------------------
(* Properties.                                                             *)

\* Whatever the handles do, the log they share is a DurableLog: it keeps what was acknowledged
\* and never misses or repeats an event, over write failures, retried drains, crashes and the
\* rewriting of torn tails (assertContiguous).
Promise == INSTANCE DurableLog WITH log <- Stored
AckedNeverLost == Promise!Spec

\* A close that stops draining and has no failure to report has stored every event its handle
\* was given so far, those published while it was closing too ("drain again until a full pass
\* leaves the routed buffer empty").  What is published after that look, while the lease is
\* released, is not: it is buffered and close() does not look again.
CloseLosesNothing ==
  [][\A h \in Handle : closing[h] = "drain" /\ closing'[h] = "release" /\ ~failures[h]
                        => cursor[h] = length[h]]_vars

\* A handle that is closed, or was never obtained, keeps neither the claim nor the lock,
\* whatever failed on the way ("a skipped releaseHandle would wedge the id").
NothingWedged ==
  \A h \in Handle : stage[h] \in {"closed", "failed", "dead"} => lock # h /\ ~Writer(h)

\* Only the one handle with both the claim of its process and the lock changes the log
\* ("a write handle is its session's single mutator").
SingleMutator ==
  [][<<exists, Stored>>' # <<exists, Stored>> =>
       \E h \in Handle : lock = h /\ Writer(h) /\ step[h] # step'[h]]_vars

\* A published event reaches the log without anyone asking for it, unless a drain fails,
\* which leaves it to the next drain.
EventsReachLog ==
  \A h \in Handle : Live(h) /\ buffered[h] # <<>> ~>
                      cursor[h] = length[h] \/ drainPaused[h] \/ ~Live(h)

\* Whatever fails, a close settles.
CloseSettles == \A h \in Handle : closing[h] # "no" ~> ~Live(h)
=============================================================================
