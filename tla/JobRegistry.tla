---------------------------- MODULE JobRegistry ----------------------------
(***************************************************************************)
(* Background jobs: packages/jobs/jobs-local, the registry with its output *)
(* rings, waits, kills and teardowns; packages/jobs/tool-jobs, which gives *)
(* the model its controls over them and reports their ends to it; and the  *)
(* bash tool, which runs a foreground command as a job it waits on.        *)
(*                                                                         *)
(* Every operation of the registry is synchronous, its events included; an *)
(* action is one of them.  What is awaited is a producer's done promise, a *)
(* wait, and the settlements a teardown collects.  A wait that times out   *)
(* or aborts is one action with what its call does next: the timer or the  *)
(* abort is a task of its own, and only microtasks of that call follow it. *)
(***************************************************************************)
EXTENDS Naturals, FiniteSets

CONSTANTS Job,        \* jobs, each started once
          Owner,      \* agents
          Nobody,     \* the owner of unowned jobs
          Foreground, \* the jobs of foreground bash calls; such a job also names its call
          Pumped,     \* the jobs that name a pull source; the others push
          Throwing,   \* the jobs whose cancel may throw
          Reader,     \* job_output calls that wait
          Caller,     \* Caller[w]: the agent whose call it is
          Limits,     \* the values maxConcurrentJobsPerOwner may have
          RetainBytes, SettledRetainBytes,
          Budget      \* Budget[j]: bound on the bytes job j produces

Call == Reader \cup Foreground

ASSUME JobAssumption ==
  /\ Nobody \notin Owner
  /\ IsFiniteSet(Job) /\ Foreground \subseteq Job
  /\ Pumped \subseteq Job
  /\ Throwing \subseteq Job \ Foreground
  /\ Reader \cap Job = {} /\ Nobody \notin Job
  /\ Caller \in [Reader -> Owner]
  /\ Limits \subseteq Nat \ {0}
  /\ RetainBytes \in Nat \ {0} /\ SettledRetainBytes \in Nat \ {0}
  /\ Budget \in [Job -> Nat]

VARIABLES
  limit,     \* maxConcurrentJobsPerOwner
  owner,     \* job.owner
  status,    \* job.status; "unborn" before start, "settled" for whatever outcome
             \* the producer reported, "failed" for the one a teardown forces
  listed,    \* the jobs in the store
  cause,     \* job.settleCause ?? 'producer'
  done,      \* the jobs whose producer's done promise has resolved
  canceled,  \* the jobs of which a cancel has returned
  produced,  \* bytes the job's work has written
  total,     \* ring.total; of a pumped job also the offset of its pump
  ring,      \* the offsets at which the chunks in job.ring start
  cursor,    \* job.modelCursor
  call,      \* what a waiting call is at
  awaits,    \* the job it waits for
  known,     \* the jobs whose id the model has been given
  life,      \* the life of an agent
  attached,  \* ownerCleanups
  leaving,   \* the jobs the disposal of an owner awaits
  service,   \* the life of the registry
  all,       \* the jobs its disposal awaits
  killedByModel,
  announced, \* history: the cause of the settled event
  torn,      \* history: the jobs a teardown has canceled
  heard      \* history: how the model was told of the end of a job

output  == <<produced, total, ring, cursor>>
calls   == <<call, awaits, known>>
owners  == <<owner, life, attached, leaving>>
backend == <<limit, service, all>>
settling == <<announced, heard, killedByModel>>
vars == <<status, listed, cause, done, canceled, output, calls, owners, backend,
          settling, torn>>

Terminal == {"settled", "failed"}
Active == {"running", "stopping"}

TypeOK ==
  /\ limit \in Limits
  /\ owner \in [Job -> Owner \cup {Nobody}]
  /\ status \in [Job -> Active \cup Terminal \cup {"unborn"}]
  /\ listed \subseteq Job
  /\ cause \in [Job -> {"producer", "kill", "teardown"}]
  /\ done \subseteq Job
  /\ canceled \subseteq Job
  /\ produced \in [Job -> Nat]
  /\ total \in [Job -> Nat] /\ cursor \in [Job -> Nat]
  /\ ring \in [Job -> SUBSET Nat]
  /\ call \in [Call -> {"idle", "waiting", "stopping", "released"}]
  /\ awaits \in [Call -> Job \cup {Nobody}]
  /\ known \subseteq Job
  /\ life \in [Owner -> {"live", "leaving", "cleaning", "gone"}]
  /\ attached \subseteq Owner
  /\ leaving \in [Owner -> SUBSET Job]
  /\ service \in {"up", "cleaning", "gone"}
  /\ all \subseteq Job
  /\ killedByModel \subseteq Job
  /\ announced \in [Job -> {"none", "producer", "kill", "teardown"}]
  /\ torn \subseteq Job
  /\ heard \in [Job -> SUBSET {"notice", "wait", "kill"}]

Init ==
  /\ limit \in Limits
  /\ owner = [j \in Job |-> Nobody]
  /\ status = [j \in Job |-> "unborn"] /\ listed = {}
  /\ cause = [j \in Job |-> "producer"]
  /\ done = {} /\ canceled = {}
  /\ produced = [j \in Job |-> 0] /\ total = [j \in Job |-> 0]
  /\ ring = [j \in Job |-> {}]
  /\ cursor = [j \in Job |-> 0]
  /\ call = [c \in Call |-> "idle"]
  /\ awaits = [c \in Call |-> IF c \in Foreground THEN c ELSE Nobody]
  /\ known = {}
  /\ life = [o \in Owner |-> "live"] /\ attached = {}
  /\ leaving = [o \in Owner |-> {}]
  /\ service = "up" /\ all = {}
  /\ killedByModel = {}
  /\ announced = [j \in Job |-> "none"] /\ torn = {}
  /\ heard = [j \in Job |-> {}]

----------------------------------------------------------------------------
(* The output ring.                                                        *)

Larger(m, n) == IF m > n THEN m ELSE n

\* Chunks are dropped from the head until the rest fits; the last one keeps its tail.
Trim(starts, end, cap) ==
  LET fitting == {at \in starts : end - at <= cap}
  IN  IF starts = {} \/ fitting # {} THEN fitting ELSE {end - cap}

\* ring.earliest
Earliest(starts, end) ==
  IF starts = {} THEN end ELSE CHOOSE at \in starts : \A other \in starts : at <= other

\* What the pump of job j has not copied yet, and the ring once it has.
Behind(j) == IF j \in Pumped THEN produced[j] - total[j] ELSE 0
Drained(j) ==
  IF Behind(j) = 0 THEN ring[j] ELSE Trim(ring[j] \cup {total[j]}, produced[j], RetainBytes)

\* Mutant: the settled cap alone.
SettledCapFixed(j) == SettledRetainBytes

\* What settlement trims to: the settled cap, and whatever the model has not read.
SettledCap(j) == Larger(SettledRetainBytes, total'[j] - cursor[j])

----------------------------------------------------------------------------
(* Settlement.                                                             *)

Awaited(j) == \E c \in Call : call[c] \in {"waiting", "stopping"} /\ awaits[c] = j

\* Mutant: only waits of job_output count.
ReportsReadersOnly(j, why) ==
  /\ j \notin killedByModel
  /\ ~\E c \in Reader : call[c] = "waiting" /\ awaits[c] = j
  /\ why # "teardown" /\ owner[j] # Nobody

\* Mutant: a notice is owed only to jobs nobody has killed.
ReportsUnkilled(j, why) ==
  /\ why = "producer" /\ ~Awaited(j) /\ owner[j] # Nobody

\* The reporter skips what a wait or the model's own kill delivers, and
\* teardowns; the notice goes to the agent registered for the owner's session.
Reports(j, why) ==
  /\ j \notin killedByModel /\ ~Awaited(j)
  /\ why # "teardown" /\ owner[j] # Nobody

\* The jobs of S settle for the given cause: their rings, which hold chunks by
\* now, are trimmed, their waits are released, then the event goes out.
Conclude(S, why, chunks) ==
  /\ ring' = [j \in Job |-> IF j \in S THEN Trim(chunks[j], total'[j], SettledCap(j))
                            ELSE ring[j]]
  /\ call' = [c \in Call |-> IF /\ call[c] \in {"waiting", "stopping"}
                                /\ awaits[c] \in S
                             THEN "released" ELSE call[c]]
  /\ announced' = [j \in Job |-> IF j \in S THEN why ELSE announced[j]]
  /\ heard' = [j \in Job |-> heard[j] \cup
                             IF j \in S /\ Reports(j, why) THEN {"notice"} ELSE {}]
  /\ killedByModel' = killedByModel \ S


\* The producer is done: the pump drains once more, then the job settles.
Settles(j) ==
  /\ status[j] \in Active /\ j \in done
  /\ status' = [status EXCEPT ![j] = "settled"]
  /\ total' = [total EXCEPT ![j] = @ + Behind(j)]
  /\ Conclude({j}, cause[j], [ring EXCEPT ![j] = Drained(j)])
  /\ UNCHANGED <<listed, cause, done, canceled, produced, cursor, awaits, known,
                 owners, backend, torn>>

----------------------------------------------------------------------------
(* Registration and output.                                                *)


Count(o) == Cardinality({j \in listed : owner[j] = o /\ status[j] \in Active})

\* Mutant: a scope that is disposing is thought to take the cleanup.
TakesCleanupAlways(o) == o # Nobody => life[o] # "gone"

\* A live owner takes a cleanup; a scope that is disposing takes no new one.
TakesCleanup(o) == o # Nobody => life[o] = "live" \/ o \in attached


\* start attaches the cleanup before it looks at the limit.
Admission(o) ==
  /\ service = "up" /\ TakesCleanup(o)
  /\ attached' = attached \cup ({o} \ {Nobody})

StartRefused(j, o) ==
  /\ status[j] = "unborn"
  /\ j \in Foreground => o \in Owner /\ life[o] = "live"
  /\ Admission(o) /\ Count(o) >= limit
  /\ UNCHANGED <<owner, status, listed, cause, done, canceled, output, calls, life,
                 leaving, backend, settling, torn>>

\* A foreground call of a live agent waits at once; other calls return the id.
Start(j, o) ==
  /\ status[j] = "unborn"
  /\ Admission(o) /\ Count(o) < limit
  /\ j \in Foreground => o \in Owner /\ life[o] = "live"
  /\ owner' = [owner EXCEPT ![j] = o]
  /\ status' = [status EXCEPT ![j] = "running"]
  /\ listed' = listed \cup {j}
  /\ call' = [c \in Call |-> IF c = j THEN "waiting" ELSE call[c]]
  /\ known' = known \cup ({j} \ Foreground)
  /\ UNCHANGED <<cause, done, canceled, output, awaits, life, leaving, backend,
                 settling, torn>>

\* The work behind a pull source writes n bytes.
SourceWrites(j, n) ==
  /\ j \in Pumped /\ status[j] # "unborn" /\ j \notin done
  /\ produced[j] + n <= Budget[j]
  /\ produced' = [produced EXCEPT ![j] = @ + n]
  /\ UNCHANGED <<status, listed, cause, done, canceled, total, ring, cursor, calls,
                 owners, backend, settling, torn>>

PumpPolls(j) ==
  /\ status[j] \in Active /\ j \notin done /\ Behind(j) > 0
  /\ ring' = [ring EXCEPT ![j] = Drained(j)]
  /\ total' = [total EXCEPT ![j] = @ + Behind(j)]
  /\ UNCHANGED <<status, listed, cause, done, canceled, produced, cursor, calls,
                 owners, backend, settling, torn>>

\* A producer that pushes appends n bytes; a settled job drops them.
Push(j, n) ==
  /\ j \notin Pumped /\ status[j] # "unborn" /\ j \notin done
  /\ produced[j] + n <= Budget[j]
  /\ produced' = [produced EXCEPT ![j] = @ + n]
  /\ IF status[j] \in Terminal THEN UNCHANGED <<ring, total>>
     ELSE /\ ring' = [ring EXCEPT ![j] = Trim(@ \cup {total[j]}, total[j] + n, RetainBytes)]
          /\ total' = [total EXCEPT ![j] = @ + n]
  /\ UNCHANGED <<status, listed, cause, done, canceled, cursor, calls, owners,
                 backend, settling, torn>>

\* Its done promise resolves.
ProducerEnds(j) ==
  /\ status[j] # "unborn" /\ j \notin done
  /\ done' = done \cup {j}
  /\ UNCHANGED <<status, listed, cause, canceled, output, calls, owners, backend,
                 settling, torn>>

----------------------------------------------------------------------------
(* The calls of the model, and the kills of others.                        *)

Reachable(o, j) == j \in listed /\ j \in known /\ owner[j] \in {o, Nobody}

\* A consuming read; the first one after settlement also cuts the ring.
ReadJob(j) ==
  /\ cursor' = [cursor EXCEPT ![j] = total[j]]
  /\ ring' = IF status[j] \in Terminal
             THEN [ring EXCEPT ![j] = Trim(@, total[j], SettledRetainBytes)] ELSE ring
  /\ UNCHANGED <<produced, total>>

\* Cancel first: a cancel that throws leaves the job as it is.
KillJob(j) ==
  /\ status[j] \in Active
  /\ canceled' = canceled \cup {j}
  /\ status' = [status EXCEPT ![j] = "stopping"]
  /\ cause' = [cause EXCEPT ![j] = "kill"]
  /\ UNCHANGED <<listed, done, output, owners, backend, announced, torn>>

\* A client, or the archiving of the session, kills with the owner's own id.
Kill(j) ==
  /\ service = "up" /\ j \in listed
  /\ KillJob(j)
  /\ UNCHANGED <<calls, heard, killedByModel>>

\* job_kill, whose result is the model's delivery.
JobKill(o, j) ==
  /\ service = "up" /\ life[o] = "live" /\ Reachable(o, j)
  /\ KillJob(j)
  /\ killedByModel' = killedByModel \cup {j}
  /\ heard' = [heard EXCEPT ![j] = @ \cup {"kill"}]
  /\ UNCHANGED calls

\* job_output, without a wait or of a settled job.
JobOutput(o, j) ==
  /\ service = "up" /\ life[o] = "live" /\ Reachable(o, j)
  /\ ReadJob(j)
  /\ UNCHANGED <<status, listed, cause, done, canceled, calls, owners, backend,
                 settling, torn>>


\* job_output with a wait.
Wait(w, j) ==
  /\ service = "up" /\ life[Caller[w]] = "live" /\ Reachable(Caller[w], j)
  /\ call[w] = "idle" /\ status[j] \in Active
  /\ call' = [call EXCEPT ![w] = "waiting"]
  /\ awaits' = [awaits EXCEPT ![w] = j]
  /\ UNCHANGED <<status, listed, cause, done, canceled, output, known, owners, backend,
                 settling, torn>>

\* The wait leaves the registry's set and the call reads the running job.
WaitTimesOut(w) ==
  /\ w \in Reader /\ call[w] = "waiting"
  /\ call' = [call EXCEPT ![w] = "idle"]
  /\ awaits' = [awaits EXCEPT ![w] = Nobody]
  /\ ReadJob(awaits[w])
  /\ UNCHANGED <<status, listed, cause, done, canceled, known, owners, backend,
                 settling, torn>>

WaitAborts(w) ==
  /\ w \in Reader /\ call[w] = "waiting"
  /\ call' = [call EXCEPT ![w] = "idle"]
  /\ awaits' = [awaits EXCEPT ![w] = Nobody]
  /\ UNCHANGED <<status, listed, cause, done, canceled, output, known, owners,
                 backend, settling, torn>>

\* The wait of a foreground command expires: the job stays and the model has its id.
Promote(j) ==
  /\ j \in Foreground /\ call[j] = "waiting"
  /\ call' = [call EXCEPT ![j] = "idle"]
  /\ known' = known \cup {j}
  /\ ReadJob(j)
  /\ UNCHANGED <<status, listed, cause, done, canceled, awaits, owners, backend,
                 settling, torn>>

\* The call is aborted, or expires before a process runs: it kills the job
\* and waits again.
Stop(j) ==
  /\ j \in Foreground /\ call[j] = "waiting"
  /\ KillJob(j)
  /\ call' = [call EXCEPT ![j] = "stopping"]
  /\ UNCHANGED <<awaits, known, heard, killedByModel>>


\* That wait expires too: the record stays and the call is over.
StopTimesOut(j) ==
  /\ j \in Foreground /\ call[j] = "stopping"
  /\ call' = [call EXCEPT ![j] = "idle"]
  /\ UNCHANGED <<status, listed, cause, done, canceled, output, awaits, known, owners,
                 backend, settling, torn>>

\* A released wait returns.  job_output reads the settled job; a foreground
\* call carries the result and removes the record, whose id nobody was given.
CallReturns(c) ==
  /\ call[c] = "released"
  /\ call' = [call EXCEPT ![c] = "idle"]
  /\ heard' = [heard EXCEPT ![awaits[c]] = @ \cup {"wait"}]
  /\ IF c \in Foreground THEN listed' = listed \ {c} /\ UNCHANGED <<output, awaits>>
     ELSE /\ ReadJob(awaits[c])
          /\ awaits' = [awaits EXCEPT ![c] = Nobody]
          /\ UNCHANGED listed
  /\ UNCHANGED <<status, cause, done, canceled, known, owners, backend,
                 announced, killedByModel, torn>>

----------------------------------------------------------------------------
(* Teardown of an owner and of the registry.                               *)

\* Mutant: a cancel that throws leaves the job as it is.
CancelUncontained(S) ==
  \E T \in SUBSET (S \cap Throwing) :
    LET live == {j \in S : status[j] \in Active} \ T
    IN  /\ status' = [j \in Job |-> IF j \in live THEN "stopping" ELSE status[j]]
        /\ cause' = [j \in Job |-> IF j \in live THEN "teardown" ELSE cause[j]]
        /\ canceled' = canceled \cup live
        /\ torn' = torn \cup live
        /\ UNCHANGED <<output, call, settling>>

\* The live jobs of S are canceled; one whose cancel throws is failed by force.
CancelForTeardown(S) ==
  \E T \in SUBSET (S \cap Throwing) :
    LET live   == {j \in S : status[j] \in Active}
        forced == live \cap T
    IN  /\ status' = [j \in Job |-> IF j \in forced THEN "failed"
                                   ELSE IF j \in live THEN "stopping" ELSE status[j]]
        /\ cause' = [j \in Job |-> IF j \in live THEN "teardown" ELSE cause[j]]
        /\ canceled' = canceled \cup (live \ forced)
        /\ torn' = torn \cup live
        /\ UNCHANGED <<produced, total, cursor>>
        /\ Conclude(forced, "teardown", ring)

\* Disposal waits for the driver first, so for the calls of the agent's turn.
OwnerLeaves(o) ==
  /\ life[o] = "live"
  /\ \A c \in Call : call[c] # "idle" => o # IF c \in Reader THEN Caller[c] ELSE owner[c]
  /\ life' = [life EXCEPT ![o] = "leaving"]
  /\ UNCHANGED <<owner, status, listed, cause, done, canceled, output, calls, attached, leaving,
                 backend, settling, torn>>

\* Then its scope: the cleanup, if one is attached, cancels what is listed now.
OwnerCleans(o) ==
  /\ life[o] = "leaving" /\ o \in attached
  /\ life' = [life EXCEPT ![o] = "cleaning"]
  /\ attached' = attached \ {o}
  /\ leaving' = [leaving EXCEPT ![o] = {j \in listed : owner[j] = o}]
  /\ CancelForTeardown({j \in listed : owner[j] = o})
  /\ UNCHANGED <<owner, listed, done, awaits, known, backend>>

OwnerUnused(o) ==
  /\ life[o] = "leaving" /\ o \notin attached
  /\ life' = [life EXCEPT ![o] = "gone"]
  /\ UNCHANGED <<owner, status, listed, cause, done, canceled, output, calls, attached, leaving,
                 backend, settling, torn>>

\* The settlements of S have been awaited, and the waits they released, which
\* they resolved first.
Quiet(S) ==
  /\ \A j \in S : status[j] \in Terminal
  /\ \A c \in Call : awaits[c] \in S => call[c] # "released"

OwnerCleaned(o) ==
  /\ life[o] = "cleaning" /\ Quiet(leaving[o])
  /\ life' = [life EXCEPT ![o] = "gone"]
  /\ listed' = listed \ leaving[o]
  /\ killedByModel' = killedByModel \ leaving[o]
  /\ UNCHANGED <<owner, status, cause, done, canceled, output, calls, attached, leaving,
                 backend, announced, heard, torn>>

\* The registry unloads; from here its name resolves to nothing.
DisposeAll ==
  /\ service = "up" /\ service' = "cleaning"
  /\ all' = listed
  /\ CancelForTeardown(listed)
  /\ UNCHANGED <<limit, listed, done, awaits, known, owners>>

\* The records go, then the cleanups, which find nothing left.
AllDisposed ==
  /\ service = "cleaning" /\ Quiet(all) /\ service' = "gone"
  /\ listed' = listed \ all
  /\ attached' = {}
  /\ killedByModel' = killedByModel \ all
  /\ UNCHANGED <<limit, owner, status, cause, done, canceled, output, calls, life, leaving, all,
                 announced, heard, torn>>

----------------------------------------------------------------------------
Producer(j) ==
  \/ \E o \in Owner \cup {Nobody} : StartRefused(j, o) \/ Start(j, o)
  \/ ProducerEnds(j)
  \/ PumpPolls(j) \/ Settles(j)
  \/ \E n \in 1..Budget[j] : SourceWrites(j, n) \/ Push(j, n)

Control(j) ==
  \/ Kill(j) \/ Promote(j) \/ Stop(j) \/ StopTimesOut(j)
  \/ \E o \in Owner : JobKill(o, j) \/ JobOutput(o, j)
  \/ \E w \in Reader : Wait(w, j)

Teardown ==
  \/ \E o \in Owner : OwnerLeaves(o) \/ OwnerCleans(o) \/ OwnerUnused(o) \/ OwnerCleaned(o)
  \/ DisposeAll \/ AllDisposed

Next ==
  \/ \E j \in Job : Producer(j) \/ Control(j)
  \/ \E w \in Reader : WaitTimesOut(w) \/ WaitAborts(w)
  \/ \E c \in Call : CallReturns(c)
  \/ Teardown

Spec == Init /\ [][Next]_vars

\* Promises run on, and a canceled producer settles; but for the waits of
\* job_output, each of these steps comes at most once.
Promised ==
  \/ \E j \in Job : (j \in canceled /\ ProducerEnds(j)) \/ Settles(j)
  \/ \E j \in Foreground : CallReturns(j)
  \/ \E o \in Owner : OwnerCleaned(o)
  \/ AllDisposed

Fairness == WF_vars(Promised) /\ \A w \in Reader : WF_vars(CallReturns(w))

FairSpec == Spec /\ Fairness

----------------------------------------------------------------------------
(* Properties.                                                             *)

\* A job is settled once: whatever a late outcome, a kill or a second
\* teardown does, a terminal status stays, and so does the announced cause.
SettledOnce ==
  [][\A j \in Job : announced[j] # "none" =>
       status'[j] = status[j] /\ announced'[j] = announced[j]]_vars

\* No call waits for a job that has settled: a settlement releases every
\* wait, and none begins after it.
NoStaleWaiter == \A j \in Job : Awaited(j) => status[j] \in Active

\* A completion notice is news: it never repeats what a released wait or the
\* model's own job_kill has told or is about to tell.
NoticeIsNews ==
  \A j \in Job : "notice" \in heard[j] =>
    /\ heard[j] = {"notice"}
    /\ \A c \in Call : call[c] = "released" => awaits[c] # j

\* The end of an owned job that no teardown touched reaches the model, by a
\* notice, a released wait or its own kill: no end stays untold for good.
EndReachesModel ==
  []<>(\A j \in Job :
         status[j] \in Terminal /\ owner[j] # Nobody /\ j \notin torn => heard[j] # {})

\* No job outlives its owner or the registry: what they leave is settled and
\* unlisted, and work may only run on where a cancel has thrown.
NothingOutlives ==
  \A j \in Job :
    /\ status[j] # "unborn"
    /\ service = "gone" \/ owner[j] \in {o \in Owner : life[o] = "gone"}
    => /\ status[j] \in Terminal /\ j \notin listed
       /\ j \notin done => j \in Throwing

\* A live job is always listed, so that someone can see and stop it.
LiveIsListed == \A j \in Job : status[j] \in Active => j \in listed

\* No owner, nor the shared bucket, has more active jobs than the limit.
LimitHeld ==
  \A o \in Owner \cup {Nobody} :
    Cardinality({j \in Job : owner[j] = o /\ status[j] \in Active}) <= limit

\* A job that its producer settled has all the producer's output, the part
\* of it the live cap kept and the model has not read included.
OutputComplete ==
  [][\A j \in Job : status[j] \in Active /\ status'[j] = "settled" =>
       /\ total'[j] = produced[j]
       /\ Earliest(ring'[j], total'[j]) <=
            Larger(cursor[j], Earliest(Drained(j), produced[j]))]_vars

\* The disposal of an owner or of the registry ends, if canceled producers do.
DisposalEnds == []<>(service # "cleaning" /\ \A o \in Owner : life[o] # "cleaning")

\* What the contract says: jobs that a teardown cancels announce a teardown.
TeardownAnnounced ==
  \A j \in torn : announced[j] \in {"none", "teardown"}
=============================================================================
