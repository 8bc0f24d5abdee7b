--------------------------- MODULE AgentLifecycle ---------------------------
(***************************************************************************)
(* The agent factory of packages/core/agent-loop/src/index.ts: attempts to *)
(* create, resume or restore (from the configuration) an agent at ONE      *)
(* identity, the memoised teardown of each, and the factories themselves,  *)
(* which a reload replaces while the previous one is still draining.       *)
(* Identities meet only in the factory's own disposal, which waits for all *)
(* of them, so one identity shows everything.  A persistence backend is    *)
(* mounted; its calls are the seam session-persistence-jsonl implements.   *)
(*                                                                         *)
(* An attempt is at one of its awaits (stage), a teardown at one of its    *)
(* own (teardown), a backend call may outlive the attempt that made it     *)
(* (op, handle).                                                           *)
(***************************************************************************)
EXTENDS Naturals

CONSTANTS Attempt,    \* calls of createAgent, resume and restoreOrCreateConfigured
          Via,        \* Via[a]: "create", "resume" or "configured"
          Factories,  \* factories are mounted in the order 1..Factories
          FactoryOf,  \* FactoryOf[a]: the factory the attempt is made on
          Signaled,   \* the attempts whose caller passed an AbortSignal
          NoOne       \* no attempt

ASSUME AttemptAssumption ==
  /\ NoOne \notin Attempt
  /\ Via \in [Attempt -> {"create", "resume", "configured"}]
  /\ Factories \in Nat
  /\ FactoryOf \in [Attempt -> 1..Factories]
  /\ Signaled \subseteq {a \in Attempt : Via[a] # "configured"}

VARIABLES
  factory,     \* life of each FactoryOwnership and its fiber
  joined,      \* the attempts a factory's disposal waits for
  stage,       \* the await an attempt is at
  teardown,    \* the await its memoised teardown is at
  canceled,    \* attempts whose caller's signal has aborted
  ownerGone,   \* attempts whose owner's fiber is unloading or disposed
  ownerAbort,  \* resumes whose signal has heard an unload of their owner
  aborted,     \* attempts whose prepared lifecycle has aborted
  op,          \* the backend call of an attempt: before or after its write claim
  handle,      \* the write handle an attempt obtained
  claim,       \* the attempt holding the backend's write claim
  stored,      \* the log of the identity is materialised
  registered,  \* the attempt in the session and agent registries
  released     \* waiting attempts that have seen the registries empty

own     == <<canceled, ownerGone, ownerAbort, aborted>>
backend == <<op, handle, claim, stored>>
vars == <<factory, joined, stage, teardown, own, backend, registered, released>>

Factory == 1..Factories
Stage == {"idle", "draining", "opening", "creating", "reading", "repairing", "suffix",
          "rejecting", "setup", "storing", "announcing", "live", "failing", "failed"}

TypeOK ==
  /\ factory \in [Factory -> {"absent", "active", "unloading", "closing", "closed"}]
  /\ joined \in [Factory -> SUBSET Attempt]
  /\ stage \in [Attempt -> Stage]
  /\ \A a \in Attempt : stage[a] \in {"draining", "creating"} => Via[a] = "configured"
  /\ teardown \in [Attempt -> {"none", "publication", "stopping", "scope", "closing", "done"}]
  /\ canceled \subseteq Attempt /\ ownerGone \subseteq Attempt
  /\ ownerAbort \subseteq Attempt /\ aborted \subseteq Attempt
  /\ op \in [Attempt -> {"none", "pending", "claimed"}]
  /\ handle \in [Attempt -> {"none", "open", "abandoned", "closed"}]
  /\ claim \in Attempt \cup {NoOne}
  /\ stored \in BOOLEAN
  /\ registered \in Attempt \cup {NoOne}
  /\ released \subseteq Attempt

Init ==
  /\ factory = [f \in Factory |-> "absent"]
  /\ joined = [f \in Factory |-> {}]
  /\ stage = [a \in Attempt |-> "idle"]
  /\ teardown = [a \in Attempt |-> "none"]
  /\ canceled = {} /\ ownerGone = {} /\ ownerAbort = {} /\ aborted = {}
  /\ op = [a \in Attempt |-> "none"]
  /\ handle = [a \in Attempt |-> "none"]
  /\ claim = NoOne /\ stored \in BOOLEAN
  /\ registered = NoOne /\ released = {}

Active(a) == factory[FactoryOf[a]] = "active"
TearingDown(a) == factory[FactoryOf[a]] \in {"closing", "closed"}

\* The lifecycle exists: prepare() has returned and its disposer is tracked.
Tracked(a) == stage[a] \in {"setup", "storing", "announcing", "live", "failing"}

\* Nothing of the attempt is still going on.
AtRest(a) == stage[a] \in {"idle", "failed"} \/ (stage[a] = "live" /\ teardown[a] = "done")

\* Mutant: the factory's teardown is not fused into the signal of an open.
RaceLostToOwners(a) ==
  stage[a] = "opening" /\ a \in canceled \cup ownerAbort

\* raceAbortCall has its signal aborted: the caller's alone for createAgent, fused
\* with the owner's and the factory's for resumeWith.
RaceLost(a) ==
  /\ stage[a] = "opening"
  /\ \/ a \in canceled
     \/ Via[a] # "create" /\ (a \in ownerAbort \/ TearingDown(a))

\* prepare() passes its checks.  That of the owner, and the effect registered on it,
\* refuse a fiber that is disposed or unloading, and not one that has unloaded since.
CanPrepare(a) == a \notin ownerGone /\ Active(a) /\ a \notin canceled

\* The memoised teardown: only its first caller starts it.
StartTeardown(S) ==
  [a \in Attempt |->
     IF a \in S /\ Tracked(a) /\ teardown[a] = "none"
     THEN IF stage[a] = "announcing" THEN "publication" ELSE "stopping"
     ELSE teardown[a]]

Go(a, s) == stage' = [stage EXCEPT ![a] = s]

\* Initialisation threw: the driver is cancelled and the lifecycle disposed.
Fail(a) ==
  /\ Go(a, "failing")
  /\ aborted' = aborted \cup {a}
  /\ teardown' = [teardown EXCEPT ![a] = IF @ = "none" THEN "stopping" ELSE @]

----------------------------------------------------------------------------
(* Factories, owners and callers.                                          *)

\* The constructor; its configured agents start at once, and wait when the
\* identity is still registered.
Mount(f) ==
  /\ factory[f] = "absent"
  /\ \A g \in 1..(f - 1) : factory[g] \in {"closing", "closed"}
  /\ factory' = [factory EXCEPT ![f] = "active"]
  /\ LET starting == {a \in Attempt : FactoryOf[a] = f /\ Via[a] = "configured"}
     IN  /\ stage' = [a \in Attempt |->
                        IF a \notin starting THEN stage[a]
                        ELSE IF registered = NoOne THEN "opening" ELSE "draining"]
         /\ op' = [a \in Attempt |->
                     IF a \in starting /\ registered = NoOne THEN "pending" ELSE op[a]]
  /\ UNCHANGED <<joined, teardown, own, handle, claim, stored, registered, released>>

\* The factory's fiber begins to unload: the factory is inactive, and its effects,
\* ownership.dispose() among them, run a microtask later.
Unload(f) ==
  /\ factory[f] = "active"
  /\ factory' = [factory EXCEPT ![f] = "unloading"]
  /\ UNCHANGED <<joined, stage, teardown, own, backend, registered, released>>

\* Mutant: the disposal does not join the wrappers of attempts without a lifecycle.
DisposeLiveOnly(f) ==
  /\ factory[f] = "unloading"
  /\ factory' = [factory EXCEPT ![f] = "closing"]
  /\ LET mine == {a \in Attempt : FactoryOf[a] = f /\ Tracked(a) /\ ~AtRest(a)}
     IN  /\ joined' = [joined EXCEPT ![f] = mine]
         /\ aborted' = aborted \cup mine
         /\ teardown' = StartTeardown(mine)
  /\ UNCHANGED <<stage, canceled, ownerGone, ownerAbort, backend, registered, released>>

\* FactoryOwnership.dispose up to its await: the live agents' teardowns and the
\* startup work it has tracked so far.
Dispose(f) ==
  /\ factory[f] = "unloading"
  /\ factory' = [factory EXCEPT ![f] = "closing"]
  /\ LET mine == {a \in Attempt : FactoryOf[a] = f /\ ~AtRest(a)}
     IN  /\ joined' = [joined EXCEPT ![f] = mine]
         /\ aborted' = aborted \cup {a \in mine : Tracked(a)}
         /\ teardown' = StartTeardown(mine)
  /\ UNCHANGED <<stage, canceled, ownerGone, ownerAbort, backend, registered, released>>

Disposed(f) ==
  /\ factory[f] = "closing"
  /\ \A a \in joined[f] : AtRest(a)
  /\ factory' = [factory EXCEPT ![f] = "closed"]
  /\ UNCHANGED <<joined, stage, teardown, own, backend, registered, released>>

\* The caller's signal; once an agent is live nothing reads it.
CancelCaller(a) ==
  /\ a \in Signaled \ canceled
  /\ stage[a] \notin {"live", "failed"}
  /\ canceled' = canceled \cup {a}
  /\ aborted' = IF Tracked(a) THEN aborted \cup {a} ELSE aborted
  /\ UNCHANGED <<factory, joined, stage, teardown, ownerGone, ownerAbort, backend, registered,
                 released>>

\* A resume awaits what its fused signal is given to: the open and the read.
LoadsOwned(a) == Via[a] = "resume" /\ stage[a] \in {"opening", "reading"}

\* The owner's fiber begins to unload.
OwnerUnload(a) ==
  /\ Via[a] # "configured" /\ a \notin ownerGone /\ ~AtRest(a)
  /\ ownerGone' = ownerGone \cup {a}
  /\ ownerAbort' = IF LoadsOwned(a) THEN ownerAbort \cup {a} ELSE ownerAbort
  /\ aborted' = IF Tracked(a) THEN aborted \cup {a} ELSE aborted
  /\ teardown' = StartTeardown({a})
  /\ UNCHANGED <<factory, joined, stage, canceled, backend, registered, released>>

\* The owner's fiber has unloaded, which includes the teardown of its agents, and was
\* not disposed: it waits for a dependency or runs again.
OwnerUnloaded(a) ==
  /\ a \in ownerGone /\ ~AtRest(a)
  /\ ~Tracked(a) \/ teardown[a] = "done"
  /\ ownerGone' = ownerGone \ {a}
  /\ UNCHANGED <<factory, joined, stage, teardown, canceled, ownerAbort, aborted, backend,
                 registered, released>>

\* The dispose of the handle a live agent's owner holds.
DisposeAgent(a) ==
  /\ stage[a] = "live" /\ teardown[a] = "none"
  /\ aborted' = aborted \cup {a}
  /\ teardown' = StartTeardown({a})
  /\ UNCHANGED <<factory, joined, stage, canceled, ownerGone, ownerAbort, backend, registered,
                 released>>

----------------------------------------------------------------------------
(* Starting an attempt and obtaining the write handle.                     *)

\* createAgent prepares its session first, which refuses a registered identity.
Call(a) ==
  /\ stage[a] = "idle" /\ Via[a] # "configured" /\ Active(a)
  /\ IF a \in canceled \/ (Via[a] = "create" /\ registered # NoOne)
     THEN Go(a, "failed") /\ UNCHANGED op
     ELSE Go(a, "opening") /\ op' = [op EXCEPT ![a] = "pending"]
  /\ UNCHANGED <<factory, joined, teardown, own, handle, claim, stored, registered, released>>


\* waitForDrainingConfiguredIdentity returns.
Drained(a) ==
  /\ stage[a] = "draining"
  /\ a \in released \/ TearingDown(a)
  /\ IF Active(a)
     THEN Go(a, "opening") /\ op' = [op EXCEPT ![a] = "pending"]
     ELSE Go(a, "failed") /\ UNCHANGED op
  /\ UNCHANGED <<factory, joined, teardown, own, handle, claim, stored, registered, released>>

\* The attempt is no longer waiting for its backend call.
Abandoned(a) == stage[a] \notin {"opening", "creating"} \/ RaceLost(a)

\* The backend call is a create: createAgent's, or the fallback of a configured one.
Creates(a) == Via[a] = "create" \/ stage[a] = "creating"

AbandonOpen(a) ==
  /\ RaceLost(a)
  /\ Go(a, "failed")
  /\ UNCHANGED <<factory, joined, teardown, own, backend, registered, released>>

\* Mutant: an open takes the claim of another writer over.
ClaimWriteAnyway(a) ==
  /\ op[a] = "pending" /\ ~Creates(a)
  /\ op' = [op EXCEPT ![a] = "claimed"] /\ claim' = a
  /\ UNCHANGED <<factory, joined, stage, teardown, own, handle, stored, registered, released>>

\* open(id, 'write') claims the log before it looks for it, reads it and locks it.
ClaimWrite(a) ==
  /\ op[a] = "pending" /\ ~Creates(a) /\ claim = NoOne
  /\ op' = [op EXCEPT ![a] = "claimed"] /\ claim' = a
  /\ UNCHANGED <<factory, joined, stage, teardown, own, handle, stored, registered, released>>


\* The call rejects.  An abandoned one is forgotten; only NotFound sends a configured
\* attempt on to create the session.
CallRejects(a, notFound) ==
  /\ op[a] # "none"
  /\ notFound => op[a] = "claimed" /\ ~stored
  /\ claim' = IF claim = a THEN NoOne ELSE claim
  /\ IF Abandoned(a)
     THEN op' = [op EXCEPT ![a] = "none"] /\ UNCHANGED stage
     ELSE IF /\ notFound /\ Via[a] = "configured" /\ Active(a)
             /\ registered = NoOne
          THEN Go(a, "creating") /\ op' = [op EXCEPT ![a] = "pending"]
          ELSE Go(a, "failed") /\ op' = [op EXCEPT ![a] = "none"]
  /\ UNCHANGED <<factory, joined, teardown, own, handle, stored, registered, released>>


\* The call returns a write handle; createAgent goes straight on to prepare().
CallReturns(a) ==
  /\ IF Creates(a) THEN op[a] = "pending" /\ claim = NoOne /\ ~stored
                   ELSE op[a] = "claimed" /\ stored
  /\ op' = [op EXCEPT ![a] = "none"] /\ claim' = a
  /\ handle' = [handle EXCEPT ![a] = IF Abandoned(a) THEN "abandoned" ELSE "open"]
  /\ IF Abandoned(a) THEN UNCHANGED stage
     ELSE Go(a, IF ~Creates(a) THEN "reading"
                ELSE IF ~CanPrepare(a) THEN "rejecting"
                ELSE IF stage[a] = "creating" THEN "storing" ELSE "setup")
  /\ UNCHANGED <<factory, joined, teardown, own, stored, registered, released>>

CloseHandle(a) ==
  /\ handle' = [handle EXCEPT ![a] = "closed"]
  /\ claim' = IF claim = a THEN NoOne ELSE claim

\* releaseAbandoned closes a handle that arrived after its attempt gave up.
CloseAbandoned(a) ==
  /\ handle[a] = "abandoned" /\ CloseHandle(a)
  /\ UNCHANGED <<factory, joined, stage, teardown, own, op, stored, registered, released>>

\* The handle of an attempt that fails before it has a lifecycle.
CloseRejected(a) ==
  /\ stage[a] = "rejecting" /\ CloseHandle(a)
  /\ Go(a, "failed")
  /\ UNCHANGED <<factory, joined, teardown, own, op, stored, registered, released>>

----------------------------------------------------------------------------
(* Resuming, setting up and publishing.                                    *)

\* Mutant: a failed resume does not close its handle.
SettleWithoutClose(a, from, ok, next) ==
  /\ stage[a] = from
  /\ Go(a, IF ok THEN next ELSE "failed")
  /\ UNCHANGED <<factory, joined, teardown, own, backend, registered, released>>

\* One await of resumeWith settles and the attempt goes on to "next", or to "rejecting".
Settle(a, from, ok, next) ==
  /\ stage[a] = from
  /\ Go(a, IF ok THEN next ELSE "rejecting")
  /\ UNCHANGED <<factory, joined, teardown, own, backend, registered, released>>

ReadReturns(a, ok) ==
  Settle(a, "reading", ok /\ a \notin canceled \cup ownerAbort /\ ~TearingDown(a), "repairing")

\* The closers are appended, then sessions.prepare refuses a registered identity.
RepairReturns(a, ok) == Settle(a, "repairing", ok /\ registered = NoOne, "suffix")

SuffixReturns(a, ok) == Settle(a, "suffix", ok /\ CanPrepare(a), "setup")

\* raceAbort(setup): an abort ends the wait whatever setup does.
SetupReturns(a, ok) ==
  /\ stage[a] = "setup"
  /\ IF ok /\ a \notin aborted
     THEN Go(a, "storing") /\ UNCHANGED <<teardown, aborted>>
     ELSE Fail(a)
  /\ UNCHANGED <<factory, joined, canceled, ownerGone, ownerAbort, backend, registered, released>>

SetupAborts(a) == a \in aborted /\ SetupReturns(a, FALSE)

\* appendUnstoredSuffix returns and publish() runs up to its await: it enters the
\* registries unless the lifecycle has aborted or the identity is taken, and a
\* session/created listener may still veto it.
StoreReturns(a, ok, vetoed) ==
  /\ stage[a] = "storing"
  /\ stored' \in (IF ok THEN {stored, TRUE} ELSE {stored})
  /\ LET enters == ok /\ a \notin aborted /\ registered = NoOne
     IN  /\ registered' = IF enters THEN a ELSE registered
         /\ IF enters /\ ~vetoed
            THEN Go(a, "announcing") /\ UNCHANGED <<teardown, aborted>>
            ELSE Fail(a)
  /\ UNCHANGED <<factory, joined, canceled, ownerGone, ownerAbort, op, handle, claim, released>>

\* Mutant: publish() does not look at the signal after its last await.
AnnounceReturnsUnchecked(a, ok) ==
  /\ stage[a] = "announcing"
  /\ IF ok THEN Go(a, "live") /\ UNCHANGED <<teardown, aborted>> ELSE Fail(a)
  /\ UNCHANGED <<factory, joined, canceled, ownerGone, ownerAbort, backend, registered, released>>

\* The agent/created listeners have settled.
AnnounceReturns(a, ok) ==
  /\ stage[a] = "announcing"
  /\ IF ok /\ a \notin aborted
     THEN Go(a, "live") /\ UNCHANGED <<teardown, aborted>>
     ELSE Fail(a)
  /\ UNCHANGED <<factory, joined, canceled, ownerGone, ownerAbort, backend, registered, released>>

\* The driver's events reach the log.
Materialize(a) ==
  /\ stage[a] = "live" /\ handle[a] = "open" /\ ~stored
  /\ stored' = TRUE
  /\ UNCHANGED <<factory, joined, stage, teardown, own, op, handle, claim, registered,
                 released>>

----------------------------------------------------------------------------
(* Teardown, in reverse order.                                             *)

Advance(a, from, to) ==
  /\ teardown[a] = from
  /\ teardown' = [teardown EXCEPT ![a] = to]
  /\ UNCHANGED <<factory, joined, stage, own, backend, registered, released>>

\* "if (publication !== undefined) await publication.promise"
PublicationSettled(a) == stage[a] # "announcing" /\ Advance(a, "publication", "stopping")

\* machine.cancel and whenIdle: initialisation is the driver's maintenance.
DriverIdle(a) == stage[a] \in {"failing", "live"} /\ Advance(a, "stopping", "scope")

ScopeDisposed(a) == Advance(a, "scope", "closing")

\* Mutant: an attempt that was never announced as an agent leaves unheard.
HeardAgentDisposal(a) == registered = a /\ stage[a] = "live"

\* Waiting configured attempts check the registries when session/disposed or
\* agent/disposed is emitted; the session leaves last and was announced.
HeardDisposal(a) == registered = a

\* handle.close() settles, whatever its outcome, and the registries are left in the
\* same run of microtasks.
CloseAndDetach(a) ==
  /\ teardown[a] = "closing"
  /\ teardown' = [teardown EXCEPT ![a] = "done"]
  /\ CloseHandle(a)
  /\ registered' = IF registered = a THEN NoOne ELSE registered
  /\ released' = IF HeardDisposal(a)
                 THEN released \cup {b \in Attempt : stage[b] = "draining"} ELSE released
  /\ UNCHANGED <<factory, joined, stage, own, op, stored>>

\* initializeAgent has awaited the disposal and rethrows.
RolledBack(a) ==
  /\ stage[a] = "failing" /\ teardown[a] = "done"
  /\ Go(a, "failed")
  /\ UNCHANGED <<factory, joined, teardown, own, backend, registered, released>>

----------------------------------------------------------------------------

OpenSettles(a) == ClaimWrite(a) \/ CallReturns(a) \/ \E notFound \in BOOLEAN : CallRejects(a, notFound)

Initialize(a) ==
  \E ok \in BOOLEAN :
     \/ ReadReturns(a, ok) \/ RepairReturns(a, ok) \/ SuffixReturns(a, ok)
     \/ SetupReturns(a, ok) \/ AnnounceReturns(a, ok)
     \/ \E vetoed \in BOOLEAN : StoreReturns(a, ok, vetoed)

Continue(a) ==
  \/ Drained(a) \/ AbandonOpen(a) \/ CloseAbandoned(a) \/ CloseRejected(a) \/ SetupAborts(a)
  \/ PublicationSettled(a) \/ DriverIdle(a) \/ ScopeDisposed(a) \/ CloseAndDetach(a)
  \/ RolledBack(a)

FactoryStep(f) == Dispose(f) \/ Disposed(f)

Outside ==
  \/ \E f \in Factory : Mount(f) \/ Unload(f)
  \/ \E a \in Attempt : Call(a) \/ CancelCaller(a) \/ OwnerUnload(a) \/ OwnerUnloaded(a)
                        \/ DisposeAgent(a) \/ Materialize(a)

Next ==
  \/ Outside
  \/ \E f \in Factory : FactoryStep(f)
  \/ \E a \in Attempt : OpenSettles(a) \/ Initialize(a) \/ Continue(a)

Spec == Init /\ [][Next]_vars

Settling(a) == stage[a] \in {"reading", "repairing", "suffix", "storing", "announcing"}

\* JavaScript runs what is ready, and the backend's reads, appends and creates and the
\* creation listeners settle.  Nothing is assumed of an open or of a setup, which
\* are raced against their signal: they may never settle.
FairSpec ==
  /\ Spec
  /\ \A f \in Factory : WF_vars(FactoryStep(f))
  /\ \A a \in Attempt :
       WF_vars((Settling(a) /\ Initialize(a)) \/ Continue(a) \/ (Creates(a) /\ OpenSettles(a)))

----------------------------------------------------------------------------
(* Properties.                                                             *)

\* The factory implements the promise of LogOwnership: the writer is the holder of the
\* backend's claim, the published writer the registered agent.
Ownership == INSTANCE LogOwnership
  WITH Writer <- Attempt, writer <- claim, published <- registered
OwnershipKept == Ownership!Spec

\* Whoever is registered holds the write claim through an open handle: two resumes,
\* or a resume against a draining agent, never publish two writers of one log
\* (resumeWith's "Taking write ownership FIRST").
PublishedOwnsLog ==
  registered # NoOne => claim = registered /\ handle[registered] = "open"

\* While the agent/created listeners run the agent is registered and its scope and
\* handle live, even if it is being disposed ("Creation listeners retain the session
\* and scope through their awaits").
ListenersSeeLiveAgent ==
  \A a \in Attempt : stage[a] = "announcing" =>
     registered = a /\ handle[a] = "open" /\ teardown[a] \in {"none", "publication"}

\* An attempt that rejected has left nothing: no entry, no teardown under way, no
\* handle but one that arrived too late and is being closed.
RollbackComplete ==
  \A a \in Attempt : stage[a] = "failed" =>
     registered # a /\ teardown[a] \in {"none", "done"} /\ handle[a] # "open"

\* Once a factory's disposal has settled nothing it started goes on, whichever await
\* each attempt was at when the disposal took its snapshot.
ClosedIsQuiet ==
  \A a \in Attempt : factory[FactoryOf[a]] = "closed" => AtRest(a) /\ registered # a

\* No attempt becomes a live agent that was cancelled, whose factory is being torn
\* down, or whose owner is unloading or has unloaded since the lifecycle exists.  An
\* owner that has unloaded earlier and runs again is not noticed, unless by the open
\* or the read of a resume.
CanceledNeverLive ==
  [][\A a \in Attempt : stage'[a] = "live" /\ stage[a] # "live" =>
        a \notin canceled \cup ownerGone /\ ~TearingDown(a)]_vars

\* A factory's disposal always settles, even when a backend never settles an open.
FactoryCloses == \A f \in Factory : factory[f] = "closing" ~> factory[f] = "closed"

\* A configured agent that waits for a draining one stops waiting.
DrainingEnds ==
  \A a \in {b \in Attempt : Via[b] = "configured"} :
     stage[a] = "draining" ~> stage[a] # "draining"

=============================================================================
