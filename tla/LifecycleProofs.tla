--------------------------- MODULE LifecycleProofs ---------------------------
(***************************************************************************)
(* AgentLifecycle for any attempts and factories: types, the promise of    *)
(* LogOwnership, rollback, publication and factory disposal.               *)
(***************************************************************************)
EXTENDS AgentLifecycle, TLAPS

Early == {"idle", "draining", "opening", "creating"}
Loading == {"reading", "repairing", "suffix", "rejecting"}

\* Where each attempt's backend call, handle and write claim are.
HandleInv ==
  \A a \in Attempt :
    /\ handle[a] = "open" <=> stage[a] \in Loading \/ (Tracked(a) /\ teardown[a] # "done")
    /\ handle[a] \in {"open", "abandoned"} \/ op[a] = "claimed" => claim = a
    /\ op[a] # "none" => stage[a] \in {"opening", "creating", "failed"} /\ handle[a] = "none"
    /\ stage[a] = "creating" => op[a] = "pending"
    /\ stage[a] \in {"idle", "draining"} => handle[a] = "none" /\ op[a] = "none"

\* How far a teardown may be at each await of its attempt, and where the attempt is
\* registered.
TeardownInv ==
  \A a \in Attempt :
    /\ stage[a] \in Early \cup Loading => teardown[a] = "none"
    /\ stage[a] \in {"setup", "storing"} => teardown[a] \in {"none", "stopping"}
    /\ stage[a] = "announcing" => teardown[a] \in {"none", "publication"}
    /\ stage[a] = "failing" => teardown[a] # "none"
    /\ stage[a] = "failed" => teardown[a] \in {"none", "done"}
    /\ teardown[a] # "none" => a \in aborted
    /\ registered = a => stage[a] \in {"announcing", "live", "failing"} /\ teardown[a] # "done"
    /\ stage[a] = "announcing" \/ (stage[a] = "live" /\ teardown[a] # "done") => registered = a

\* An abort that came before the lifecycle was published is in its own signal.
CancelInv ==
  \A a \in Attempt :
    stage[a] \in {"setup", "storing", "announcing"} /\ a \notin aborted =>
      a \notin canceled \cup ownerGone /\ ~TearingDown(a)

\* What a factory's disposal waits for.
JoinInv ==
  \A a \in Attempt :
    /\ factory[FactoryOf[a]] = "absent" => stage[a] = "idle"
    /\ factory[FactoryOf[a]] = "closing" /\ ~AtRest(a) => a \in joined[FactoryOf[a]]
    /\ factory[FactoryOf[a]] = "closed" => AtRest(a)

IInv == TypeOK /\ HandleInv /\ TeardownInv /\ CancelInv /\ JoinInv

\* Every step is one of these actions, or leaves everything as it is.
LEMMA Steps ==
  ASSUME [Next]_vars
  PROVE  \/ UNCHANGED vars
         \/ \E f \in Factory : Mount(f) \/ Unload(f) \/ Dispose(f) \/ Disposed(f)
         \/ \E a \in Attempt :
              \/ CancelCaller(a) \/ OwnerUnload(a) \/ OwnerUnloaded(a)
              \/ DisposeAgent(a) \/ Call(a) \/ Materialize(a)
              \/ Drained(a) \/ AbandonOpen(a) \/ ClaimWrite(a) \/ CallReturns(a)
              \/ \E notFound \in BOOLEAN : CallRejects(a, notFound)
              \/ CloseAbandoned(a) \/ CloseRejected(a)
              \/ \E ok \in BOOLEAN : \/ ReadReturns(a, ok) \/ RepairReturns(a, ok)
                                     \/ SuffixReturns(a, ok) \/ SetupReturns(a, ok)
                                     \/ AnnounceReturns(a, ok)
                                     \/ \E vetoed \in BOOLEAN : StoreReturns(a, ok, vetoed)
              \/ PublicationSettled(a) \/ DriverIdle(a) \/ ScopeDisposed(a)
              \/ CloseAndDetach(a) \/ RolledBack(a)
  BY DEF Next, Outside, FactoryStep, OpenSettles, Initialize, Continue, SetupAborts

\* An await of the initialisation ends: the attempt goes on, or the lifecycle is
\* disposed.
LEMMA Moved ==
  ASSUME TypeOK, NEW a \in Attempt, NEW s \in {"opening", "failed", "storing", "announcing", "live"},
         (Go(a, s) /\ UNCHANGED <<teardown, aborted>>) \/ Fail(a)
  PROVE  /\ stage' \in [Attempt -> Stage]
         /\ \A b \in Attempt : stage'[b] \in {"draining", "creating"} => Via[b] = "configured"
         /\ teardown' \in [Attempt -> {"none", "publication", "stopping", "scope", "closing", "done"}]
         /\ aborted' \subseteq Attempt
<1>1. PICK t \in Stage : t \notin {"draining", "creating"} /\ stage' = [stage EXCEPT ![a] = t]
  BY DEF Go, Fail, Stage
<1>2. stage' \in [Attempt -> Stage]
  BY <1>1 DEF TypeOK
<1>3. ASSUME NEW b \in Attempt, stage'[b] \in {"draining", "creating"} PROVE Via[b] = "configured"
  BY <1>1, <1>3 DEF TypeOK
<1>4. /\ teardown' \in [Attempt -> {"none", "publication", "stopping", "scope", "closing", "done"}]
      /\ aborted' \subseteq Attempt
  BY DEF TypeOK, Fail
<1> QED BY <1>2, <1>3, <1>4

LEMMA ReturnTypes ==
  ASSUME TypeOK, NEW a \in Attempt, NEW ok \in BOOLEAN, NEW vetoed \in BOOLEAN,
         SetupReturns(a, ok) \/ StoreReturns(a, ok, vetoed) \/ AnnounceReturns(a, ok)
  PROVE  TypeOK'
<1>1. CASE SetupReturns(a, ok)
  <2>1. (Go(a, "storing") /\ UNCHANGED <<teardown, aborted>>) \/ Fail(a)
    BY <1>1 DEF SetupReturns
  <2> QED BY <1>1, <2>1, Moved DEF SetupReturns, backend, TypeOK
<1>2. CASE StoreReturns(a, ok, vetoed)
  <2>1. (Go(a, "announcing") /\ UNCHANGED <<teardown, aborted>>) \/ Fail(a)
    BY <1>2 DEF StoreReturns
  <2>2. stored' \in BOOLEAN /\ registered' \in Attempt \cup {NoOne}
    BY <1>2 DEF StoreReturns, TypeOK
  <2> QED BY <1>2, <2>1, <2>2, Moved DEF StoreReturns, TypeOK
<1>3. CASE AnnounceReturns(a, ok)
  <2>1. (Go(a, "live") /\ UNCHANGED <<teardown, aborted>>) \/ Fail(a)
    BY <1>3 DEF AnnounceReturns
  <2> QED BY <1>3, <2>1, Moved DEF AnnounceReturns, backend, TypeOK
<1> QED BY <1>1, <1>2, <1>3

\* A configured attempt waits for a registered agent until that is released.
LEMMA DrainedType ==
  ASSUME TypeOK, NEW a \in Attempt, Drained(a)
  PROVE  TypeOK'
<1>1. PICK t \in Stage : t \in {"opening", "failed"} /\ stage' = [stage EXCEPT ![a] = t]
  BY DEF Drained, Go, Stage
<1>2. stage' \in [Attempt -> Stage]
  BY <1>1 DEF TypeOK
<1>3. ASSUME NEW b \in Attempt, stage'[b] \in {"draining", "creating"} PROVE Via[b] = "configured"
  BY <1>1, <1>3 DEF TypeOK
<1>4. op' \in [Attempt -> {"none", "pending", "claimed"}]
  BY DEF Drained, TypeOK
<1> QED BY <1>2, <1>3, <1>4 DEF Drained, own, TypeOK

\* Types survive every step.
LEMMA TypeStep ==
  ASSUME TypeOK, [Next]_vars
  PROVE  TypeOK'
  <1> USE AttemptAssumption DEF TypeOK, Stage, Go, Fail, Advance, Settle, CloseHandle,
        StartTeardown, own, backend, Factory
  <1>1. ASSUME NEW f \in Factory, Mount(f) PROVE TypeOK'
    BY <1>1 DEF Mount
  <1>2. ASSUME NEW f \in Factory, Unload(f) PROVE TypeOK'
    BY <1>2 DEF Unload
  <1>3. ASSUME NEW f \in Factory, Dispose(f) PROVE TypeOK'
    BY <1>3 DEF Dispose
  <1>4. ASSUME NEW f \in Factory, Disposed(f) PROVE TypeOK'
    BY <1>4 DEF Disposed
  <1>5. ASSUME NEW a \in Attempt, CancelCaller(a) PROVE TypeOK'
    BY <1>5 DEF CancelCaller
  <1>6. ASSUME NEW a \in Attempt, OwnerUnload(a) PROVE TypeOK'
    BY <1>6 DEF OwnerUnload
  <1>60. ASSUME NEW a \in Attempt, OwnerUnloaded(a) PROVE TypeOK'
    BY <1>60 DEF OwnerUnloaded
  <1>7. ASSUME NEW a \in Attempt, DisposeAgent(a) PROVE TypeOK'
    BY <1>7 DEF DisposeAgent
  <1>8. ASSUME NEW a \in Attempt, Call(a) PROVE TypeOK'
    <2>1. PICK s \in Stage : Go(a, s) /\ (s \in {"draining", "creating"} => Via[a] = "configured")
      BY <1>8 DEF Call
    <2>2. \A b \in Attempt : stage'[b] \in {"draining", "creating"} => Via[b] = "configured"
      BY <2>1
    <2>3. op' = op \/ op' = [op EXCEPT ![a] = "pending"]
      BY <1>8 DEF Call
    <2>4. op' \in [Attempt -> {"none", "pending", "claimed"}]
      <3>1. [op EXCEPT ![a] = "pending"] \in [Attempt -> {"none", "pending", "claimed"}]
        OBVIOUS
      <3> QED
        BY <2>3, <3>1
    <2>5. UNCHANGED <<factory, joined, teardown, own, handle, claim, stored, registered, released>>
      BY <1>8 DEF Call
    <2> QED
      BY <2>1, <2>2, <2>4, <2>5
  <1>9. ASSUME NEW a \in Attempt, Drained(a) PROVE TypeOK'
    BY <1>9, DrainedType
  <1>10. ASSUME NEW a \in Attempt, AbandonOpen(a) PROVE TypeOK'
    BY <1>10 DEF AbandonOpen
  <1>11. ASSUME NEW a \in Attempt, ClaimWrite(a) PROVE TypeOK'
    BY <1>11 DEF ClaimWrite
  <1>12. ASSUME NEW a \in Attempt, NEW notFound \in BOOLEAN, CallRejects(a, notFound) PROVE TypeOK'
    <2>1. PICK s \in Stage : Go(a, s) /\ (s \in {"draining", "creating"} => Via[a] = "configured")
      BY <1>12 DEF CallRejects
    <2>2. \A b \in Attempt : stage'[b] \in {"draining", "creating"} => Via[b] = "configured"
      BY <2>1
    <2>3. op' \in [Attempt -> {"none", "pending", "claimed"}]
      <3>1. op' = [op EXCEPT ![a] = "none"] \/ op' = [op EXCEPT ![a] = "pending"]
        BY <1>12 DEF CallRejects
      <3>2. [op EXCEPT ![a] = "none"] \in [Attempt -> {"none", "pending", "claimed"}]
        OBVIOUS
      <3>3. [op EXCEPT ![a] = "pending"] \in [Attempt -> {"none", "pending", "claimed"}]
        OBVIOUS
      <3> QED
        BY <3>1, <3>2, <3>3
    <2>4. claim' \in Attempt \cup {NoOne}
      BY <1>12 DEF CallRejects
    <2>5. UNCHANGED <<factory, joined, teardown, own, handle, stored, registered, released>>
      BY <1>12 DEF CallRejects
    <2> QED
      BY <2>1, <2>2, <2>3, <2>4, <2>5
  <1>13. ASSUME NEW a \in Attempt, CallReturns(a) PROVE TypeOK'
    BY <1>13 DEF CallReturns
  <1>14. ASSUME NEW a \in Attempt, CloseAbandoned(a) PROVE TypeOK'
    BY <1>14 DEF CloseAbandoned
  <1>15. ASSUME NEW a \in Attempt, CloseRejected(a) PROVE TypeOK'
    BY <1>15 DEF CloseRejected
  <1>16. ASSUME NEW a \in Attempt, NEW ok \in BOOLEAN, ReadReturns(a, ok) PROVE TypeOK'
    BY <1>16 DEF ReadReturns
  <1>17. ASSUME NEW a \in Attempt, NEW ok \in BOOLEAN, RepairReturns(a, ok) PROVE TypeOK'
    BY <1>17 DEF RepairReturns
  <1>18. ASSUME NEW a \in Attempt, NEW ok \in BOOLEAN, SuffixReturns(a, ok) PROVE TypeOK'
    BY <1>18 DEF SuffixReturns
  <1>19. ASSUME NEW a \in Attempt, NEW ok \in BOOLEAN, SetupReturns(a, ok) PROVE TypeOK'
    BY <1>19, ReturnTypes
  <1>20. ASSUME NEW a \in Attempt, NEW ok \in BOOLEAN, NEW vetoed \in BOOLEAN, StoreReturns(a, ok, vetoed) PROVE TypeOK'
    BY <1>20, ReturnTypes
  <1>21. ASSUME NEW a \in Attempt, NEW ok \in BOOLEAN, AnnounceReturns(a, ok) PROVE TypeOK'
    BY <1>21, ReturnTypes
  <1>22. ASSUME NEW a \in Attempt, Materialize(a) PROVE TypeOK'
    BY <1>22 DEF Materialize
  <1>23. ASSUME NEW a \in Attempt, PublicationSettled(a) PROVE TypeOK'
    BY <1>23 DEF PublicationSettled
  <1>24. ASSUME NEW a \in Attempt, DriverIdle(a) PROVE TypeOK'
    BY <1>24 DEF DriverIdle
  <1>25. ASSUME NEW a \in Attempt, ScopeDisposed(a) PROVE TypeOK'
    BY <1>25 DEF ScopeDisposed
  <1>26. ASSUME NEW a \in Attempt, CloseAndDetach(a) PROVE TypeOK'
    BY <1>26 DEF CloseAndDetach, HeardDisposal
  <1>27. ASSUME NEW a \in Attempt, RolledBack(a) PROVE TypeOK'
    BY <1>27 DEF RolledBack
  <1>28. CASE UNCHANGED vars
    BY <1>28 DEF vars
  <1> HIDE DEF TypeOK, Stage, Go, Fail, Advance, Settle, CloseHandle, StartTeardown, own,
        backend, Factory
  <1> QED
    BY <1>1, <1>2, <1>3, <1>4, <1>5, <1>6, <1>60, <1>7, <1>8, <1>9, <1>10, <1>11, <1>12, 
       <1>13, <1>14, <1>15, <1>16, <1>17, <1>18, <1>19, <1>20, <1>21, <1>22, <1>23, 
       <1>24, <1>25, <1>26, <1>27, <1>28, Steps

\* Handles, claims and backend calls stay with their attempts.
LEMMA HandleStep ==
  ASSUME IInv, [Next]_vars
  PROVE  HandleInv'
  <1> USE AttemptAssumption DEF IInv, TypeOK, Stage, Go, Fail, Advance, Settle, CloseHandle,
        StartTeardown, own, backend, HandleInv, TeardownInv, Loading, Early, Tracked,
        Abandoned, Creates, RaceLost
  <1>1. ASSUME NEW f \in Factory, Mount(f) PROVE HandleInv'
    BY <1>1 DEF Mount, JoinInv, Factory
  <1>2. ASSUME NEW f \in Factory, Unload(f) PROVE HandleInv'
    BY <1>2 DEF Unload
  <1>3. ASSUME NEW f \in Factory, Dispose(f) PROVE HandleInv'
    BY <1>3 DEF Dispose
  <1>4. ASSUME NEW f \in Factory, Disposed(f) PROVE HandleInv'
    BY <1>4 DEF Disposed
  <1>5. ASSUME NEW a \in Attempt, CancelCaller(a) PROVE HandleInv'
    BY <1>5 DEF CancelCaller
  <1>6. ASSUME NEW a \in Attempt, OwnerUnload(a) PROVE HandleInv'
    BY <1>6 DEF OwnerUnload
  <1>60. ASSUME NEW a \in Attempt, OwnerUnloaded(a) PROVE HandleInv'
    BY <1>60 DEF OwnerUnloaded
  <1>7. ASSUME NEW a \in Attempt, DisposeAgent(a) PROVE HandleInv'
    BY <1>7 DEF DisposeAgent
  <1>8. ASSUME NEW a \in Attempt, Call(a) PROVE HandleInv'
    BY <1>8 DEF Call
  <1>9. ASSUME NEW a \in Attempt, Drained(a) PROVE HandleInv'
    BY <1>9 DEF Drained
  <1>10. ASSUME NEW a \in Attempt, AbandonOpen(a) PROVE HandleInv'
    BY <1>10 DEF AbandonOpen
  <1>11. ASSUME NEW a \in Attempt, ClaimWrite(a) PROVE HandleInv'
    BY <1>11 DEF ClaimWrite
  <1>12. ASSUME NEW a \in Attempt, NEW notFound \in BOOLEAN, CallRejects(a, notFound) PROVE HandleInv'
    BY <1>12 DEF CallRejects
  <1>13. ASSUME NEW a \in Attempt, CallReturns(a) PROVE HandleInv'
    BY <1>13 DEF CallReturns
  <1>14. ASSUME NEW a \in Attempt, CloseAbandoned(a) PROVE HandleInv'
    BY <1>14 DEF CloseAbandoned
  <1>15. ASSUME NEW a \in Attempt, CloseRejected(a) PROVE HandleInv'
    BY <1>15 DEF CloseRejected
  <1>16. ASSUME NEW a \in Attempt, NEW ok \in BOOLEAN, ReadReturns(a, ok) PROVE HandleInv'
    BY <1>16 DEF ReadReturns
  <1>17. ASSUME NEW a \in Attempt, NEW ok \in BOOLEAN, RepairReturns(a, ok) PROVE HandleInv'
    BY <1>17 DEF RepairReturns
  <1>18. ASSUME NEW a \in Attempt, NEW ok \in BOOLEAN, SuffixReturns(a, ok) PROVE HandleInv'
    BY <1>18 DEF SuffixReturns
  <1>19. ASSUME NEW a \in Attempt, NEW ok \in BOOLEAN, SetupReturns(a, ok) PROVE HandleInv'
    BY <1>19 DEF SetupReturns
  <1>20. ASSUME NEW a \in Attempt, NEW ok \in BOOLEAN, NEW vetoed \in BOOLEAN, StoreReturns(a, ok, vetoed) PROVE HandleInv'
    BY <1>20 DEF StoreReturns
  <1>21. ASSUME NEW a \in Attempt, NEW ok \in BOOLEAN, AnnounceReturns(a, ok) PROVE HandleInv'
    BY <1>21 DEF AnnounceReturns
  <1>22. ASSUME NEW a \in Attempt, Materialize(a) PROVE HandleInv'
    BY <1>22 DEF Materialize
  <1>23. ASSUME NEW a \in Attempt, PublicationSettled(a) PROVE HandleInv'
    BY <1>23 DEF PublicationSettled
  <1>24. ASSUME NEW a \in Attempt, DriverIdle(a) PROVE HandleInv'
    BY <1>24 DEF DriverIdle
  <1>25. ASSUME NEW a \in Attempt, ScopeDisposed(a) PROVE HandleInv'
    BY <1>25 DEF ScopeDisposed
  <1>26. ASSUME NEW a \in Attempt, CloseAndDetach(a) PROVE HandleInv'
    BY <1>26 DEF CloseAndDetach, HeardDisposal
  <1>27. ASSUME NEW a \in Attempt, RolledBack(a) PROVE HandleInv'
    BY <1>27 DEF RolledBack
  <1>28. CASE UNCHANGED vars
    BY <1>28 DEF vars
  <1> HIDE DEF IInv, TypeOK, Stage, Go, Fail, Advance, Settle, CloseHandle, StartTeardown,
        own, backend, HandleInv, TeardownInv, Loading, Early, Tracked, Abandoned, Creates,
        RaceLost
  <1> QED
    BY <1>1, <1>2, <1>3, <1>4, <1>5, <1>6, <1>60, <1>7, <1>8, <1>9, <1>10, <1>11, <1>12, 
       <1>13, <1>14, <1>15, <1>16, <1>17, <1>18, <1>19, <1>20, <1>21, <1>22, <1>23, 
       <1>24, <1>25, <1>26, <1>27, <1>28, Steps

\* Each teardown stays within what its attempt's await allows.
LEMMA TeardownStep ==
  ASSUME IInv, [Next]_vars
  PROVE  TeardownInv'
  <1> USE AttemptAssumption DEF IInv, TypeOK, Stage, Go, Fail, Advance, Settle, CloseHandle,
        StartTeardown, own, backend, HandleInv, TeardownInv, Loading, Early, Tracked,
        Abandoned, Creates, RaceLost, AtRest
  <1>1. ASSUME NEW f \in Factory, Mount(f) PROVE TeardownInv'
    BY <1>1 DEF Mount, JoinInv, Factory
  <1>2. ASSUME NEW f \in Factory, Unload(f) PROVE TeardownInv'
    BY <1>2 DEF Unload
  <1>3. ASSUME NEW f \in Factory, Dispose(f) PROVE TeardownInv'
    BY <1>3 DEF Dispose
  <1>4. ASSUME NEW f \in Factory, Disposed(f) PROVE TeardownInv'
    BY <1>4 DEF Disposed
  <1>5. ASSUME NEW a \in Attempt, CancelCaller(a) PROVE TeardownInv'
    BY <1>5 DEF CancelCaller
  <1>6. ASSUME NEW a \in Attempt, OwnerUnload(a) PROVE TeardownInv'
    BY <1>6 DEF OwnerUnload
  <1>60. ASSUME NEW a \in Attempt, OwnerUnloaded(a) PROVE TeardownInv'
    BY <1>60 DEF OwnerUnloaded
  <1>7. ASSUME NEW a \in Attempt, DisposeAgent(a) PROVE TeardownInv'
    BY <1>7 DEF DisposeAgent
  <1>8. ASSUME NEW a \in Attempt, Call(a) PROVE TeardownInv'
    BY <1>8 DEF Call
  <1>9. ASSUME NEW a \in Attempt, Drained(a) PROVE TeardownInv'
    BY <1>9 DEF Drained
  <1>10. ASSUME NEW a \in Attempt, AbandonOpen(a) PROVE TeardownInv'
    BY <1>10 DEF AbandonOpen
  <1>11. ASSUME NEW a \in Attempt, ClaimWrite(a) PROVE TeardownInv'
    BY <1>11 DEF ClaimWrite
  <1>12. ASSUME NEW a \in Attempt, NEW notFound \in BOOLEAN, CallRejects(a, notFound) PROVE TeardownInv'
    BY <1>12 DEF CallRejects
  <1>13. ASSUME NEW a \in Attempt, CallReturns(a) PROVE TeardownInv'
    BY <1>13 DEF CallReturns
  <1>14. ASSUME NEW a \in Attempt, CloseAbandoned(a) PROVE TeardownInv'
    BY <1>14 DEF CloseAbandoned
  <1>15. ASSUME NEW a \in Attempt, CloseRejected(a) PROVE TeardownInv'
    BY <1>15 DEF CloseRejected
  <1>16. ASSUME NEW a \in Attempt, NEW ok \in BOOLEAN, ReadReturns(a, ok) PROVE TeardownInv'
    BY <1>16 DEF ReadReturns
  <1>17. ASSUME NEW a \in Attempt, NEW ok \in BOOLEAN, RepairReturns(a, ok) PROVE TeardownInv'
    BY <1>17 DEF RepairReturns
  <1>18. ASSUME NEW a \in Attempt, NEW ok \in BOOLEAN, SuffixReturns(a, ok) PROVE TeardownInv'
    BY <1>18 DEF SuffixReturns
  <1>19. ASSUME NEW a \in Attempt, NEW ok \in BOOLEAN, SetupReturns(a, ok) PROVE TeardownInv'
    BY <1>19 DEF SetupReturns
  <1>20. ASSUME NEW a \in Attempt, NEW ok \in BOOLEAN, NEW vetoed \in BOOLEAN, StoreReturns(a, ok, vetoed) PROVE TeardownInv'
    BY <1>20 DEF StoreReturns
  <1>21. ASSUME NEW a \in Attempt, NEW ok \in BOOLEAN, AnnounceReturns(a, ok) PROVE TeardownInv'
    BY <1>21 DEF AnnounceReturns
  <1>22. ASSUME NEW a \in Attempt, Materialize(a) PROVE TeardownInv'
    BY <1>22 DEF Materialize
  <1>23. ASSUME NEW a \in Attempt, PublicationSettled(a) PROVE TeardownInv'
    BY <1>23 DEF PublicationSettled
  <1>24. ASSUME NEW a \in Attempt, DriverIdle(a) PROVE TeardownInv'
    BY <1>24 DEF DriverIdle
  <1>25. ASSUME NEW a \in Attempt, ScopeDisposed(a) PROVE TeardownInv'
    BY <1>25 DEF ScopeDisposed
  <1>26. ASSUME NEW a \in Attempt, CloseAndDetach(a) PROVE TeardownInv'
    BY <1>26 DEF CloseAndDetach, HeardDisposal
  <1>27. ASSUME NEW a \in Attempt, RolledBack(a) PROVE TeardownInv'
    BY <1>27 DEF RolledBack
  <1>28. CASE UNCHANGED vars
    BY <1>28 DEF vars
  <1> HIDE DEF IInv, TypeOK, Stage, Go, Fail, Advance, Settle, CloseHandle, StartTeardown,
        own, backend, HandleInv, TeardownInv, Loading, Early, Tracked, Abandoned, Creates,
        RaceLost, AtRest
  <1> QED
    BY <1>1, <1>2, <1>3, <1>4, <1>5, <1>6, <1>60, <1>7, <1>8, <1>9, <1>10, <1>11, <1>12, 
       <1>13, <1>14, <1>15, <1>16, <1>17, <1>18, <1>19, <1>20, <1>21, <1>22, <1>23, 
       <1>24, <1>25, <1>26, <1>27, <1>28, Steps

\* No cancellation is forgotten between two awaits.
LEMMA CancelStep ==
  ASSUME IInv, [Next]_vars
  PROVE  CancelInv'
  <1> USE AttemptAssumption DEF IInv, TypeOK, Stage, Go, Fail, Advance, Settle, CloseHandle,
        StartTeardown, own, backend, HandleInv, TeardownInv, CancelInv, Factory, Loading,
        Early, Tracked, Abandoned, Creates, RaceLost, CanPrepare, TearingDown, Active, AtRest
  <1>1. ASSUME NEW f \in Factory, Mount(f) PROVE CancelInv'
    BY <1>1 DEF Mount
  <1>2. ASSUME NEW f \in Factory, Unload(f) PROVE CancelInv'
    BY <1>2 DEF Unload
  <1>3. ASSUME NEW f \in Factory, Dispose(f) PROVE CancelInv'
    BY <1>3 DEF Dispose
  <1>4. ASSUME NEW f \in Factory, Disposed(f) PROVE CancelInv'
    BY <1>4 DEF Disposed
  <1>5. ASSUME NEW a \in Attempt, CancelCaller(a) PROVE CancelInv'
    BY <1>5 DEF CancelCaller
  <1>6. ASSUME NEW a \in Attempt, OwnerUnload(a) PROVE CancelInv'
    BY <1>6 DEF OwnerUnload
  <1>60. ASSUME NEW a \in Attempt, OwnerUnloaded(a) PROVE CancelInv'
    BY <1>60 DEF OwnerUnloaded
  <1>7. ASSUME NEW a \in Attempt, DisposeAgent(a) PROVE CancelInv'
    BY <1>7 DEF DisposeAgent
  <1>8. ASSUME NEW a \in Attempt, Call(a) PROVE CancelInv'
    BY <1>8 DEF Call
  <1>9. ASSUME NEW a \in Attempt, Drained(a) PROVE CancelInv'
    BY <1>9 DEF Drained
  <1>10. ASSUME NEW a \in Attempt, AbandonOpen(a) PROVE CancelInv'
    BY <1>10 DEF AbandonOpen
  <1>11. ASSUME NEW a \in Attempt, ClaimWrite(a) PROVE CancelInv'
    BY <1>11 DEF ClaimWrite
  <1>12. ASSUME NEW a \in Attempt, NEW notFound \in BOOLEAN, CallRejects(a, notFound) PROVE CancelInv'
    BY <1>12 DEF CallRejects
  <1>13. ASSUME NEW a \in Attempt, CallReturns(a) PROVE CancelInv'
    BY <1>13 DEF CallReturns
  <1>14. ASSUME NEW a \in Attempt, CloseAbandoned(a) PROVE CancelInv'
    BY <1>14 DEF CloseAbandoned
  <1>15. ASSUME NEW a \in Attempt, CloseRejected(a) PROVE CancelInv'
    BY <1>15 DEF CloseRejected
  <1>16. ASSUME NEW a \in Attempt, NEW ok \in BOOLEAN, ReadReturns(a, ok) PROVE CancelInv'
    BY <1>16 DEF ReadReturns
  <1>17. ASSUME NEW a \in Attempt, NEW ok \in BOOLEAN, RepairReturns(a, ok) PROVE CancelInv'
    BY <1>17 DEF RepairReturns
  <1>18. ASSUME NEW a \in Attempt, NEW ok \in BOOLEAN, SuffixReturns(a, ok) PROVE CancelInv'
    BY <1>18 DEF SuffixReturns
  <1>19. ASSUME NEW a \in Attempt, NEW ok \in BOOLEAN, SetupReturns(a, ok) PROVE CancelInv'
    BY <1>19 DEF SetupReturns
  <1>20. ASSUME NEW a \in Attempt, NEW ok \in BOOLEAN, NEW vetoed \in BOOLEAN, StoreReturns(a, ok, vetoed) PROVE CancelInv'
    BY <1>20 DEF StoreReturns
  <1>21. ASSUME NEW a \in Attempt, NEW ok \in BOOLEAN, AnnounceReturns(a, ok) PROVE CancelInv'
    BY <1>21 DEF AnnounceReturns
  <1>22. ASSUME NEW a \in Attempt, Materialize(a) PROVE CancelInv'
    BY <1>22 DEF Materialize
  <1>23. ASSUME NEW a \in Attempt, PublicationSettled(a) PROVE CancelInv'
    BY <1>23 DEF PublicationSettled
  <1>24. ASSUME NEW a \in Attempt, DriverIdle(a) PROVE CancelInv'
    BY <1>24 DEF DriverIdle
  <1>25. ASSUME NEW a \in Attempt, ScopeDisposed(a) PROVE CancelInv'
    BY <1>25 DEF ScopeDisposed
  <1>26. ASSUME NEW a \in Attempt, CloseAndDetach(a) PROVE CancelInv'
    BY <1>26 DEF CloseAndDetach, HeardDisposal
  <1>27. ASSUME NEW a \in Attempt, RolledBack(a) PROVE CancelInv'
    BY <1>27 DEF RolledBack
  <1>28. CASE UNCHANGED vars
    BY <1>28 DEF vars
  <1> HIDE DEF IInv, TypeOK, Stage, Go, Fail, Advance, Settle, CloseHandle, StartTeardown,
        own, backend, HandleInv, TeardownInv, CancelInv, Factory, Loading, Early, Tracked,
        Abandoned, Creates, RaceLost, CanPrepare, TearingDown, Active, AtRest
  <1> QED
    BY <1>1, <1>2, <1>3, <1>4, <1>5, <1>6, <1>60, <1>7, <1>8, <1>9, <1>10, <1>11, <1>12, 
       <1>13, <1>14, <1>15, <1>16, <1>17, <1>18, <1>19, <1>20, <1>21, <1>22, <1>23, 
       <1>24, <1>25, <1>26, <1>27, <1>28, Steps

\* A factory's disposal has joined whatever is not at rest.
LEMMA JoinStep ==
  ASSUME IInv, [Next]_vars
  PROVE  JoinInv'
  <1> USE AttemptAssumption DEF IInv, TypeOK, Stage, Go, Fail, Advance, Settle, CloseHandle,
        StartTeardown, own, backend, HandleInv, TeardownInv, JoinInv, Factory, Loading, Early,
        Tracked, Abandoned, Creates, RaceLost, CanPrepare, Active, AtRest, TearingDown
  <1>1. ASSUME NEW f \in Factory, Mount(f) PROVE JoinInv'
    BY <1>1 DEF Mount
  <1>2. ASSUME NEW f \in Factory, Unload(f) PROVE JoinInv'
    BY <1>2 DEF Unload
  <1>3. ASSUME NEW f \in Factory, Dispose(f) PROVE JoinInv'
    BY <1>3 DEF Dispose
  <1>4. ASSUME NEW f \in Factory, Disposed(f) PROVE JoinInv'
    BY <1>4 DEF Disposed
  <1>5. ASSUME NEW a \in Attempt, CancelCaller(a) PROVE JoinInv'
    BY <1>5 DEF CancelCaller
  <1>6. ASSUME NEW a \in Attempt, OwnerUnload(a) PROVE JoinInv'
    BY <1>6 DEF OwnerUnload
  <1>60. ASSUME NEW a \in Attempt, OwnerUnloaded(a) PROVE JoinInv'
    BY <1>60 DEF OwnerUnloaded
  <1>7. ASSUME NEW a \in Attempt, DisposeAgent(a) PROVE JoinInv'
    BY <1>7 DEF DisposeAgent
  <1>8. ASSUME NEW a \in Attempt, Call(a) PROVE JoinInv'
    BY <1>8 DEF Call
  <1>9. ASSUME NEW a \in Attempt, Drained(a) PROVE JoinInv'
    BY <1>9 DEF Drained
  <1>10. ASSUME NEW a \in Attempt, AbandonOpen(a) PROVE JoinInv'
    BY <1>10 DEF AbandonOpen
  <1>11. ASSUME NEW a \in Attempt, ClaimWrite(a) PROVE JoinInv'
    BY <1>11 DEF ClaimWrite
  <1>12. ASSUME NEW a \in Attempt, NEW notFound \in BOOLEAN, CallRejects(a, notFound) PROVE JoinInv'
    BY <1>12 DEF CallRejects
  <1>13. ASSUME NEW a \in Attempt, CallReturns(a) PROVE JoinInv'
    BY <1>13 DEF CallReturns
  <1>14. ASSUME NEW a \in Attempt, CloseAbandoned(a) PROVE JoinInv'
    BY <1>14 DEF CloseAbandoned
  <1>15. ASSUME NEW a \in Attempt, CloseRejected(a) PROVE JoinInv'
    BY <1>15 DEF CloseRejected
  <1>16. ASSUME NEW a \in Attempt, NEW ok \in BOOLEAN, ReadReturns(a, ok) PROVE JoinInv'
    BY <1>16 DEF ReadReturns
  <1>17. ASSUME NEW a \in Attempt, NEW ok \in BOOLEAN, RepairReturns(a, ok) PROVE JoinInv'
    BY <1>17 DEF RepairReturns
  <1>18. ASSUME NEW a \in Attempt, NEW ok \in BOOLEAN, SuffixReturns(a, ok) PROVE JoinInv'
    BY <1>18 DEF SuffixReturns
  <1>19. ASSUME NEW a \in Attempt, NEW ok \in BOOLEAN, SetupReturns(a, ok) PROVE JoinInv'
    BY <1>19 DEF SetupReturns
  <1>20. ASSUME NEW a \in Attempt, NEW ok \in BOOLEAN, NEW vetoed \in BOOLEAN, StoreReturns(a, ok, vetoed) PROVE JoinInv'
    BY <1>20 DEF StoreReturns
  <1>21. ASSUME NEW a \in Attempt, NEW ok \in BOOLEAN, AnnounceReturns(a, ok) PROVE JoinInv'
    BY <1>21 DEF AnnounceReturns
  <1>22. ASSUME NEW a \in Attempt, Materialize(a) PROVE JoinInv'
    BY <1>22 DEF Materialize
  <1>23. ASSUME NEW a \in Attempt, PublicationSettled(a) PROVE JoinInv'
    BY <1>23 DEF PublicationSettled
  <1>24. ASSUME NEW a \in Attempt, DriverIdle(a) PROVE JoinInv'
    BY <1>24 DEF DriverIdle
  <1>25. ASSUME NEW a \in Attempt, ScopeDisposed(a) PROVE JoinInv'
    BY <1>25 DEF ScopeDisposed
  <1>26. ASSUME NEW a \in Attempt, CloseAndDetach(a) PROVE JoinInv'
    BY <1>26 DEF CloseAndDetach, HeardDisposal
  <1>27. ASSUME NEW a \in Attempt, RolledBack(a) PROVE JoinInv'
    BY <1>27 DEF RolledBack
  <1>28. CASE UNCHANGED vars
    BY <1>28 DEF vars
  <1> HIDE DEF IInv, TypeOK, Stage, Go, Fail, Advance, Settle, CloseHandle, StartTeardown,
        own, backend, HandleInv, TeardownInv, JoinInv, Factory, Loading, Early, Tracked,
        Abandoned, Creates, RaceLost, CanPrepare, Active, AtRest, TearingDown
  <1> QED
    BY <1>1, <1>2, <1>3, <1>4, <1>5, <1>6, <1>60, <1>7, <1>8, <1>9, <1>10, <1>11, <1>12, 
       <1>13, <1>14, <1>15, <1>16, <1>17, <1>18, <1>19, <1>20, <1>21, <1>22, <1>23, 
       <1>24, <1>25, <1>26, <1>27, <1>28, Steps

LEMMA IInvInit == Init => IInv
  BY AttemptAssumption
     DEF Init, IInv, TypeOK, HandleInv, TeardownInv, CancelInv, JoinInv, Stage, Factory, Early,
         Loading, Tracked, AtRest, TearingDown

LEMMA IInvStep == IInv /\ [Next]_vars => IInv'
  BY TypeStep, HandleStep, TeardownStep, CancelStep, JoinStep DEF IInv

LEMMA IInvAlways == Spec => []IInv
  BY IInvInit, IInvStep, PTL DEF Spec

\* Every variable of the factory keeps its type, and only configured agents wait for a
\* draining identity or create a session they could not restore.
THEOREM TypeCorrect == Spec => []TypeOK
  <1>1. IInv => TypeOK BY DEF IInv
  <1> QED BY <1>1, IInvAlways, PTL

\* The registered agent holds the write claim of its log through an open handle.
THEOREM OwnerCorrect == Spec => []PublishedOwnsLog
  <1>1. IInv => PublishedOwnsLog
    BY DEF IInv, PublishedOwnsLog, TypeOK, HandleInv, TeardownInv, Tracked
  <1> QED BY <1>1, IInvAlways, PTL

\* The agent/created listeners see a registered agent with its handle and scope.
THEOREM ListenersCorrect == Spec => []ListenersSeeLiveAgent
  <1>1. IInv => ListenersSeeLiveAgent
    BY DEF IInv, ListenersSeeLiveAgent, HandleInv, TeardownInv, Tracked
  <1> QED BY <1>1, IInvAlways, PTL

\* An attempt that rejected has left nothing behind.
THEOREM RollbackCorrect == Spec => []RollbackComplete
  <1>1. IInv => RollbackComplete
    BY DEF IInv, RollbackComplete, HandleInv, TeardownInv, Tracked, Loading
  <1> QED BY <1>1, IInvAlways, PTL

\* After a factory's disposal nothing it started goes on.
THEOREM QuietCorrect == Spec => []ClosedIsQuiet
  <1>1. IInv => ClosedIsQuiet
    BY DEF IInv, ClosedIsQuiet, JoinInv, TeardownInv, AtRest
  <1> QED BY <1>1, IInvAlways, PTL

\* No attempt becomes a live agent that was cancelled, whose factory is being torn down,
\* or whose owner is unloading or has unloaded since the lifecycle exists.
THEOREM CancelCorrect == Spec => CanceledNeverLive
  <1>1. ASSUME IInv, [Next]_vars, NEW b \in Attempt, stage'[b] = "live", stage[b] # "live"
        PROVE  \E ok \in BOOLEAN : AnnounceReturns(b, ok) /\ b \notin aborted
    <2> USE <1>1, AttemptAssumption
        DEF IInv, TypeOK, Stage, Go, Fail, Advance, Settle, own, backend
    <2>1. ASSUME NEW f \in Factory
          PROVE  ~(Mount(f) \/ Unload(f) \/ Dispose(f) \/ Disposed(f))
      BY DEF Mount, Unload, Dispose, Disposed
    <2>2. ASSUME NEW a \in Attempt
          PROVE  ~(CancelCaller(a) \/ OwnerUnload(a) \/ OwnerUnloaded(a) \/ DisposeAgent(a) \/ Materialize(a)
                   \/ CloseAbandoned(a) \/ ClaimWrite(a) \/ CloseAndDetach(a))
      BY DEF CancelCaller, OwnerUnload, OwnerUnloaded, DisposeAgent, Materialize, CloseAbandoned,
             ClaimWrite, CloseAndDetach
    <2>3. ASSUME NEW a \in Attempt
          PROVE  ~(PublicationSettled(a) \/ DriverIdle(a) \/ ScopeDisposed(a))
      BY DEF PublicationSettled, DriverIdle, ScopeDisposed
    <2>4. ASSUME NEW a \in Attempt
          PROVE  ~(Call(a) \/ Drained(a) \/ AbandonOpen(a) \/ CloseRejected(a) \/ RolledBack(a))
      BY DEF Call, Drained, AbandonOpen, CloseRejected, RolledBack
    <2>5. ASSUME NEW a \in Attempt, NEW notFound \in BOOLEAN
          PROVE  ~(CallReturns(a) \/ CallRejects(a, notFound))
      BY DEF CallReturns, CallRejects
    <2>6. ASSUME NEW a \in Attempt, NEW ok \in BOOLEAN, NEW vetoed \in BOOLEAN
          PROVE  ~(ReadReturns(a, ok) \/ RepairReturns(a, ok) \/ SuffixReturns(a, ok)
                   \/ SetupReturns(a, ok) \/ StoreReturns(a, ok, vetoed))
      <3>1. ~(ReadReturns(a, ok) \/ RepairReturns(a, ok) \/ SuffixReturns(a, ok))
        BY DEF ReadReturns, RepairReturns, SuffixReturns
      <3>2. ~SetupReturns(a, ok)
        BY DEF SetupReturns
      <3>3. ~StoreReturns(a, ok, vetoed)
        <4>1. ASSUME StoreReturns(a, ok, vetoed)
              PROVE  \E s \in {"announcing", "failing"} : stage' = [stage EXCEPT ![a] = s]
          BY <4>1 DEF StoreReturns
        <4> HIDE DEF IInv, Go, Fail
        <4>2. stage \in [Attempt -> Stage]
          BY DEF IInv
        <4> QED
          BY <4>1, <4>2
      <3> QED
        BY <3>1, <3>2, <3>3
    <2>7. ASSUME NEW a \in Attempt, NEW ok \in BOOLEAN, AnnounceReturns(a, ok)
          PROVE  a = b /\ a \notin aborted
      BY <2>7 DEF AnnounceReturns
    <2>8. ~UNCHANGED vars
      BY DEF vars
    <2> QED
      BY ONLY <1>1, <2>1, <2>2, <2>3, <2>4, <2>5, <2>6, <2>7, <2>8, Steps
  <1>2. ASSUME IInv, [Next]_vars PROVE [\A a \in Attempt : stage'[a] = "live" /\ stage[a] # "live" =>
          a \notin canceled \cup ownerGone /\ ~TearingDown(a)]_vars
    BY <1>1, <1>2 DEF IInv, CancelInv, AnnounceReturns
  <1> QED BY <1>2, IInvAlways, PTL DEF CanceledNeverLive, Spec

\* The factory implements LogOwnership: every step acquires, publishes or releases the
\* log of the identity, or leaves its ownership alone.
THEOREM OwnershipRefined == Spec => OwnershipKept
  <1>1. Init => Ownership!Init
    BY DEF Init, Ownership!Init
  <1>2. ASSUME IInv, [Next]_vars
        PROVE  \/ UNCHANGED <<claim, registered>>
               \/ \E a \in Attempt :
                    \/ claim = NoOne /\ claim' = a /\ registered' = registered
                    \/ claim = a /\ registered = NoOne /\ registered' = a /\ claim' = claim
                    \/ claim = a /\ claim' = NoOne /\ registered' = NoOne
    <2> USE AttemptAssumption
    <2>0. /\ registered # NoOne => claim = registered /\ handle[registered] = "open"
          /\ claim \in Attempt \cup {NoOne} /\ registered \in Attempt \cup {NoOne}
      BY <1>2 DEF IInv, TypeOK, HandleInv, TeardownInv, Tracked
    <2>1. ASSUME NEW f \in Factory, Mount(f) \/ Unload(f) \/ Dispose(f) \/ Disposed(f)
          PROVE  UNCHANGED <<claim, registered>>
      BY <2>1 DEF Mount, Unload, Dispose, Disposed, backend
    <2>2. ASSUME NEW a \in Attempt,
                 \/ CancelCaller(a) \/ OwnerUnload(a) \/ OwnerUnloaded(a) \/ DisposeAgent(a)
                 \/ Materialize(a) \/ Call(a) \/ Drained(a) \/ AbandonOpen(a)
                 \/ PublicationSettled(a) \/ DriverIdle(a) \/ ScopeDisposed(a) \/ RolledBack(a)
          PROVE  UNCHANGED <<claim, registered>>
      BY <2>2 DEF CancelCaller, OwnerUnload, OwnerUnloaded, DisposeAgent, Materialize, Call, Drained,
                  backend, AbandonOpen, PublicationSettled, DriverIdle, ScopeDisposed, RolledBack, Advance
    <2>3. ASSUME NEW a \in Attempt, NEW ok \in BOOLEAN,
                 \/ ReadReturns(a, ok) \/ RepairReturns(a, ok) \/ SuffixReturns(a, ok)
                 \/ SetupReturns(a, ok) \/ AnnounceReturns(a, ok)
          PROVE  UNCHANGED <<claim, registered>>
      BY <2>3 DEF ReadReturns, RepairReturns, SuffixReturns, SetupReturns, AnnounceReturns,
                  Settle, backend
    <2>4. ASSUME NEW a \in Attempt, ClaimWrite(a)
          PROVE  claim = NoOne /\ claim' = a /\ registered' = registered
      BY <2>4 DEF ClaimWrite
    <2>5. ASSUME NEW a \in Attempt, CallReturns(a)
          PROVE  /\ claim' = a /\ registered' = registered
                 /\ claim = NoOne \/ claim = a
      <3>1. claim' = a /\ registered' = registered /\ (claim = NoOne \/ op[a] = "claimed")
        BY <2>5 DEF CallReturns
      <3> QED
        BY <1>2, <3>1 DEF IInv, HandleInv
    <2>6. ASSUME NEW a \in Attempt, NEW notFound \in BOOLEAN, CallRejects(a, notFound)
          PROVE  /\ claim' = IF claim = a THEN NoOne ELSE claim
                 /\ registered' = registered /\ registered # a
      <3>1. op[a] # "none" /\ registered' = registered
              /\ claim' = IF claim = a THEN NoOne ELSE claim
        BY <2>6 DEF CallRejects
      <3>2. handle[a] = "none"
        BY <1>2, <3>1 DEF IInv, HandleInv
      <3> QED
        BY <2>0, <3>1, <3>2
    <2>7. ASSUME NEW a \in Attempt, CloseAbandoned(a) \/ CloseRejected(a)
          PROVE  /\ claim' = IF claim = a THEN NoOne ELSE claim
                 /\ registered' = registered /\ registered # a
      <3>1. /\ registered' = registered
            /\ claim' = IF claim = a THEN NoOne ELSE claim
            /\ handle[a] = "abandoned" \/ stage[a] = "rejecting"
        BY <2>7 DEF CloseAbandoned, CloseRejected, CloseHandle
      <3> QED
        BY <1>2, <2>0, <3>1 DEF IInv, TeardownInv
    <2>8. ASSUME NEW a \in Attempt, CloseAndDetach(a)
          PROVE  /\ claim' = IF claim = a THEN NoOne ELSE claim
                 /\ registered' = IF registered = a THEN NoOne ELSE registered
      BY <2>8 DEF CloseAndDetach, CloseHandle
    <2>9. ASSUME NEW a \in Attempt, NEW ok \in BOOLEAN, NEW vetoed \in BOOLEAN,
                 StoreReturns(a, ok, vetoed)
          PROVE  /\ claim' = claim /\ claim = a
                 /\ registered' = registered \/ (registered = NoOne /\ registered' = a)
      <3>1. /\ claim' = claim /\ stage[a] = "storing"
            /\ registered' = registered \/ (registered = NoOne /\ registered' = a)
        BY <2>9 DEF StoreReturns
      <3>2. handle[a] = "open"
        BY <1>2, <3>1 DEF IInv, HandleInv, TeardownInv, Tracked
      <3> QED
        BY <1>2, <3>1, <3>2 DEF IInv, HandleInv
    <2>10. ASSUME UNCHANGED vars
           PROVE  UNCHANGED <<claim, registered>>
      BY <2>10 DEF vars, backend
    <2> QED
      BY ONLY <1>2, AttemptAssumption, <2>0, <2>1, <2>2, <2>3, <2>4, <2>5, <2>6, <2>7, <2>8,
              <2>9, <2>10, Steps
  <1>3. ASSUME IInv, [Next]_vars
        PROVE  [Ownership!Next]_<<claim, registered>>
    BY ONLY <1>2, <1>3 DEF Ownership!Next, Ownership!Acquire, Ownership!Publish, Ownership!Release
  <1> QED
    BY <1>1, <1>3, IInvAlways, PTL DEF Spec, OwnershipKept, Ownership!Spec

----------------------------------------------------------------------------
(* What a disposal and a configured attempt wait for: the other halves of   *)
(* FactoryCloses and DrainingEnds.                                          *)

\* A factory's disposal waits for attempts that nothing can hold for ever: an open that may
\* never settle has lost its race or is a create, a setup that may never settle has its signal
\* aborted, and a lifecycle is being torn down.
NoneHoldsDisposal ==
  \A f \in Factory : factory[f] = "closing" =>
    \A a \in joined[f] :
      /\ stage[a] = "opening" => RaceLost(a) \/ (Creates(a) /\ op[a] = "pending")
      /\ stage[a] = "creating" => op[a] = "pending"
      /\ stage[a] = "setup" => a \in aborted
      /\ Tracked(a) => teardown[a] # "none"

\* A configured attempt that waits for a draining identity and was not told yet that it has
\* left waits for an agent whose teardown is under way: waitForDrainingConfiguredIdentity
\* misses no disposal.
DrainingIsHeard ==
  \A a \in Attempt : stage[a] = "draining" /\ a \notin released =>
    registered # NoOne /\ teardown[registered] \notin {"none", "done"}

\* Factories are mounted in their order, and wait for their own attempts.
MountInv ==
  \A f \in Factory :
    /\ factory[f] # "absent" => \A g \in 1..(f - 1) : factory[g] \in {"closing", "closed"}
    /\ \A a \in joined[f] : FactoryOf[a] = f

\* An open that has settled lost its race, and a create never claims.
OpenInv ==
  \A a \in Attempt :
    /\ stage[a] = "opening" => op[a] # "none" \/ RaceLost(a)
    /\ op[a] = "claimed" => ~Creates(a)

\* No lifecycle of a factory that is torn down is left alone.
TornInv == \A a \in Attempt : Tracked(a) /\ TearingDown(a) => teardown[a] # "none"

\* Who an attempt waits for belongs to a factory that was torn down before its own.
DrainInv ==
  \A a \in Attempt : stage[a] = "draining" /\ a \notin released =>
    registered # NoOne /\ TearingDown(registered)

LEMMA MountStep ==
  ASSUME IInv, MountInv, [Next]_vars
  PROVE  MountInv'
  <1> USE AttemptAssumption DEF IInv, TypeOK, MountInv, Go, Fail, Advance, Settle,
        CloseHandle, own, backend, Factory
  <1>1. ASSUME NEW f \in Factory, Mount(f) PROVE MountInv'
    <2>1. joined' = joined /\ \A h \in Factory : factory'[h] = IF h = f THEN "active" ELSE factory[h]
      BY <1>1 DEF Mount
    <2>2. factory[f] = "absent" /\ \A g \in 1..(f - 1) : factory[g] \in {"closing", "closed"}
      BY <1>1 DEF Mount
    <2>3. ASSUME NEW h \in Factory, factory'[h] # "absent", NEW g \in 1..(h - 1)
          PROVE  factory'[g] \in {"closing", "closed"}
      <3>1. g \in Factory
        BY <2>3
      <3>2. factory[g] \in {"closing", "closed"}
        BY <2>1, <2>2, <2>3
      <3> QED BY <2>1, <2>2, <3>1, <3>2
    <2> QED BY <2>1, <2>3
  <1>2. ASSUME NEW f \in Factory, Unload(f) PROVE MountInv'
    <2>1. joined' = joined /\ \A h \in Factory : factory'[h] = IF h = f THEN "unloading" ELSE factory[h]
      BY <1>2 DEF Unload
    <2>2. factory[f] = "active"
      BY <1>2 DEF Unload
    <2>3. ASSUME NEW h \in Factory, factory'[h] # "absent", NEW g \in 1..(h - 1)
          PROVE  factory'[g] \in {"closing", "closed"}
      <3>1. g \in Factory /\ factory[g] \in {"closing", "closed"}
        BY <2>1, <2>2, <2>3
      <3> QED BY <2>1, <2>2, <3>1
    <2> QED BY <2>1, <2>3
  <1>3. ASSUME NEW f \in Factory, Dispose(f) PROVE MountInv'
    BY <1>3 DEF Dispose
  <1>4. ASSUME NEW f \in Factory, Disposed(f) PROVE MountInv'
    BY <1>4 DEF Disposed
  <1>5. ASSUME NEW a \in Attempt, CancelCaller(a) PROVE MountInv'
    BY <1>5 DEF CancelCaller
  <1>6. ASSUME NEW a \in Attempt, OwnerUnload(a) PROVE MountInv'
    BY <1>6 DEF OwnerUnload
  <1>60. ASSUME NEW a \in Attempt, OwnerUnloaded(a) PROVE MountInv'
    BY <1>60 DEF OwnerUnloaded
  <1>7. ASSUME NEW a \in Attempt, DisposeAgent(a) PROVE MountInv'
    BY <1>7 DEF DisposeAgent
  <1>8. ASSUME NEW a \in Attempt, Call(a) PROVE MountInv'
    BY <1>8 DEF Call
  <1>9. ASSUME NEW a \in Attempt, Drained(a) PROVE MountInv'
    BY <1>9 DEF Drained
  <1>10. ASSUME NEW a \in Attempt, AbandonOpen(a) PROVE MountInv'
    BY <1>10 DEF AbandonOpen
  <1>11. ASSUME NEW a \in Attempt, ClaimWrite(a) PROVE MountInv'
    BY <1>11 DEF ClaimWrite
  <1>12. ASSUME NEW a \in Attempt, NEW notFound \in BOOLEAN, CallRejects(a, notFound) PROVE MountInv'
    BY <1>12 DEF CallRejects
  <1>13. ASSUME NEW a \in Attempt, CallReturns(a) PROVE MountInv'
    BY <1>13 DEF CallReturns
  <1>14. ASSUME NEW a \in Attempt, CloseAbandoned(a) PROVE MountInv'
    BY <1>14 DEF CloseAbandoned
  <1>15. ASSUME NEW a \in Attempt, CloseRejected(a) PROVE MountInv'
    BY <1>15 DEF CloseRejected
  <1>16. ASSUME NEW a \in Attempt, NEW ok \in BOOLEAN, ReadReturns(a, ok) PROVE MountInv'
    BY <1>16 DEF ReadReturns
  <1>17. ASSUME NEW a \in Attempt, NEW ok \in BOOLEAN, RepairReturns(a, ok) PROVE MountInv'
    BY <1>17 DEF RepairReturns
  <1>18. ASSUME NEW a \in Attempt, NEW ok \in BOOLEAN, SuffixReturns(a, ok) PROVE MountInv'
    BY <1>18 DEF SuffixReturns
  <1>19. ASSUME NEW a \in Attempt, NEW ok \in BOOLEAN, SetupReturns(a, ok) PROVE MountInv'
    BY <1>19 DEF SetupReturns
  <1>20. ASSUME NEW a \in Attempt, NEW ok \in BOOLEAN, NEW vetoed \in BOOLEAN,
             StoreReturns(a, ok, vetoed) PROVE MountInv'
    BY <1>20 DEF StoreReturns
  <1>21. ASSUME NEW a \in Attempt, NEW ok \in BOOLEAN, AnnounceReturns(a, ok) PROVE MountInv'
    BY <1>21 DEF AnnounceReturns
  <1>22. ASSUME NEW a \in Attempt, Materialize(a) PROVE MountInv'
    BY <1>22 DEF Materialize
  <1>23. ASSUME NEW a \in Attempt, PublicationSettled(a) PROVE MountInv'
    BY <1>23 DEF PublicationSettled
  <1>24. ASSUME NEW a \in Attempt, DriverIdle(a) PROVE MountInv'
    BY <1>24 DEF DriverIdle
  <1>25. ASSUME NEW a \in Attempt, ScopeDisposed(a) PROVE MountInv'
    BY <1>25 DEF ScopeDisposed
  <1>26. ASSUME NEW a \in Attempt, CloseAndDetach(a) PROVE MountInv'
    BY <1>26 DEF CloseAndDetach
  <1>27. ASSUME NEW a \in Attempt, RolledBack(a) PROVE MountInv'
    BY <1>27 DEF RolledBack
  <1>28. CASE UNCHANGED vars
    BY <1>28 DEF vars
  <1> HIDE DEF IInv, TypeOK, MountInv, Go, Fail, Advance, Settle, CloseHandle, own, backend, Factory
  <1> QED
    BY <1>1, <1>2, <1>3, <1>4, <1>5, <1>6, <1>60, <1>7, <1>8, <1>9, <1>10, <1>11, <1>12,
       <1>13, <1>14, <1>15, <1>16, <1>17, <1>18, <1>19, <1>20, <1>21, <1>22, <1>23, <1>24,
       <1>25, <1>26, <1>27, <1>28, Steps

LEMMA OpenStep ==
  ASSUME IInv, OpenInv, [Next]_vars
  PROVE  OpenInv'
  <1> USE AttemptAssumption DEF IInv, TypeOK, HandleInv, OpenInv, Go, Fail, Advance, Settle,
        CloseHandle, own, backend,
        RaceLost, TearingDown, Creates, Abandoned
  <1>1. ASSUME NEW f \in Factory, Mount(f) PROVE OpenInv'
    BY <1>1 DEF Mount, JoinInv
  <1>2. ASSUME NEW f \in Factory, Unload(f) PROVE OpenInv'
    BY <1>2 DEF Unload
  <1>3. ASSUME NEW f \in Factory, Dispose(f) PROVE OpenInv'
    BY <1>3 DEF Dispose
  <1>4. ASSUME NEW f \in Factory, Disposed(f) PROVE OpenInv'
    BY <1>4 DEF Disposed
  <1>5. ASSUME NEW a \in Attempt, CancelCaller(a) PROVE OpenInv'
    BY <1>5 DEF CancelCaller
  <1>6. ASSUME NEW a \in Attempt, OwnerUnload(a) PROVE OpenInv'
    BY <1>6 DEF OwnerUnload
  <1>60. ASSUME NEW a \in Attempt, OwnerUnloaded(a) PROVE OpenInv'
    BY <1>60 DEF OwnerUnloaded
  <1>7. ASSUME NEW a \in Attempt, DisposeAgent(a) PROVE OpenInv'
    BY <1>7 DEF DisposeAgent
  <1>8. ASSUME NEW a \in Attempt, Call(a) PROVE OpenInv'
    BY <1>8 DEF Call
  <1>9. ASSUME NEW a \in Attempt, Drained(a) PROVE OpenInv'
    BY <1>9 DEF Drained
  <1>10. ASSUME NEW a \in Attempt, AbandonOpen(a) PROVE OpenInv'
    BY <1>10 DEF AbandonOpen
  <1>11. ASSUME NEW a \in Attempt, ClaimWrite(a) PROVE OpenInv'
    BY <1>11 DEF ClaimWrite
  <1>12. ASSUME NEW a \in Attempt, NEW notFound \in BOOLEAN, CallRejects(a, notFound) PROVE OpenInv'
    BY <1>12 DEF CallRejects
  <1>13. ASSUME NEW a \in Attempt, CallReturns(a) PROVE OpenInv'
    BY <1>13 DEF CallReturns
  <1>14. ASSUME NEW a \in Attempt, CloseAbandoned(a) PROVE OpenInv'
    BY <1>14 DEF CloseAbandoned
  <1>15. ASSUME NEW a \in Attempt, CloseRejected(a) PROVE OpenInv'
    BY <1>15 DEF CloseRejected
  <1>16. ASSUME NEW a \in Attempt, NEW ok \in BOOLEAN, ReadReturns(a, ok) PROVE OpenInv'
    BY <1>16 DEF ReadReturns
  <1>17. ASSUME NEW a \in Attempt, NEW ok \in BOOLEAN, RepairReturns(a, ok) PROVE OpenInv'
    BY <1>17 DEF RepairReturns
  <1>18. ASSUME NEW a \in Attempt, NEW ok \in BOOLEAN, SuffixReturns(a, ok) PROVE OpenInv'
    BY <1>18 DEF SuffixReturns
  <1>19. ASSUME NEW a \in Attempt, NEW ok \in BOOLEAN, SetupReturns(a, ok) PROVE OpenInv'
    BY <1>19 DEF SetupReturns
  <1>20. ASSUME NEW a \in Attempt, NEW ok \in BOOLEAN, NEW vetoed \in BOOLEAN,
             StoreReturns(a, ok, vetoed) PROVE OpenInv'
    BY <1>20 DEF StoreReturns
  <1>21. ASSUME NEW a \in Attempt, NEW ok \in BOOLEAN, AnnounceReturns(a, ok) PROVE OpenInv'
    BY <1>21 DEF AnnounceReturns
  <1>22. ASSUME NEW a \in Attempt, Materialize(a) PROVE OpenInv'
    BY <1>22 DEF Materialize
  <1>23. ASSUME NEW a \in Attempt, PublicationSettled(a) PROVE OpenInv'
    BY <1>23 DEF PublicationSettled
  <1>24. ASSUME NEW a \in Attempt, DriverIdle(a) PROVE OpenInv'
    BY <1>24 DEF DriverIdle
  <1>25. ASSUME NEW a \in Attempt, ScopeDisposed(a) PROVE OpenInv'
    BY <1>25 DEF ScopeDisposed
  <1>26. ASSUME NEW a \in Attempt, CloseAndDetach(a) PROVE OpenInv'
    BY <1>26 DEF CloseAndDetach
  <1>27. ASSUME NEW a \in Attempt, RolledBack(a) PROVE OpenInv'
    BY <1>27 DEF RolledBack
  <1>28. CASE UNCHANGED vars
    BY <1>28 DEF vars
  <1> HIDE DEF IInv, TypeOK, HandleInv, OpenInv, Go, Fail, Advance, Settle, CloseHandle, own,
        backend, RaceLost, TearingDown, Creates, Abandoned
  <1> QED
    BY <1>1, <1>2, <1>3, <1>4, <1>5, <1>6, <1>60, <1>7, <1>8, <1>9, <1>10, <1>11, <1>12,
       <1>13, <1>14, <1>15, <1>16, <1>17, <1>18, <1>19, <1>20, <1>21, <1>22, <1>23, <1>24,
       <1>25, <1>26, <1>27, <1>28, Steps

LEMMA TornStep ==
  ASSUME IInv, TornInv, [Next]_vars
  PROVE  TornInv'
  <1> USE AttemptAssumption DEF IInv, TypeOK, TornInv, Go, Fail, Advance, Settle, CloseHandle,
        own, backend,
        Tracked, TearingDown, StartTeardown, CanPrepare, Active
  <1>1. ASSUME NEW f \in Factory, Mount(f) PROVE TornInv'
    BY <1>1 DEF Mount, JoinInv
  <1>2. ASSUME NEW f \in Factory, Unload(f) PROVE TornInv'
    BY <1>2 DEF Unload
  <1>3. ASSUME NEW f \in Factory, Dispose(f) PROVE TornInv'
    BY <1>3 DEF Dispose, AtRest
  <1>4. ASSUME NEW f \in Factory, Disposed(f) PROVE TornInv'
    BY <1>4 DEF Disposed
  <1>5. ASSUME NEW a \in Attempt, CancelCaller(a) PROVE TornInv'
    BY <1>5 DEF CancelCaller
  <1>6. ASSUME NEW a \in Attempt, OwnerUnload(a) PROVE TornInv'
    BY <1>6 DEF OwnerUnload
  <1>60. ASSUME NEW a \in Attempt, OwnerUnloaded(a) PROVE TornInv'
    BY <1>60 DEF OwnerUnloaded
  <1>7. ASSUME NEW a \in Attempt, DisposeAgent(a) PROVE TornInv'
    BY <1>7 DEF DisposeAgent
  <1>8. ASSUME NEW a \in Attempt, Call(a) PROVE TornInv'
    BY <1>8 DEF Call
  <1>9. ASSUME NEW a \in Attempt, Drained(a) PROVE TornInv'
    BY <1>9 DEF Drained
  <1>10. ASSUME NEW a \in Attempt, AbandonOpen(a) PROVE TornInv'
    BY <1>10 DEF AbandonOpen
  <1>11. ASSUME NEW a \in Attempt, ClaimWrite(a) PROVE TornInv'
    BY <1>11 DEF ClaimWrite
  <1>12. ASSUME NEW a \in Attempt, NEW notFound \in BOOLEAN, CallRejects(a, notFound) PROVE TornInv'
    BY <1>12 DEF CallRejects
  <1>13. ASSUME NEW a \in Attempt, CallReturns(a) PROVE TornInv'
    BY <1>13 DEF CallReturns
  <1>14. ASSUME NEW a \in Attempt, CloseAbandoned(a) PROVE TornInv'
    BY <1>14 DEF CloseAbandoned
  <1>15. ASSUME NEW a \in Attempt, CloseRejected(a) PROVE TornInv'
    BY <1>15 DEF CloseRejected
  <1>16. ASSUME NEW a \in Attempt, NEW ok \in BOOLEAN, ReadReturns(a, ok) PROVE TornInv'
    BY <1>16 DEF ReadReturns
  <1>17. ASSUME NEW a \in Attempt, NEW ok \in BOOLEAN, RepairReturns(a, ok) PROVE TornInv'
    BY <1>17 DEF RepairReturns
  <1>18. ASSUME NEW a \in Attempt, NEW ok \in BOOLEAN, SuffixReturns(a, ok) PROVE TornInv'
    BY <1>18 DEF SuffixReturns
  <1>19. ASSUME NEW a \in Attempt, NEW ok \in BOOLEAN, SetupReturns(a, ok) PROVE TornInv'
    BY <1>19 DEF SetupReturns
  <1>20. ASSUME NEW a \in Attempt, NEW ok \in BOOLEAN, NEW vetoed \in BOOLEAN,
             StoreReturns(a, ok, vetoed) PROVE TornInv'
    BY <1>20 DEF StoreReturns
  <1>21. ASSUME NEW a \in Attempt, NEW ok \in BOOLEAN, AnnounceReturns(a, ok) PROVE TornInv'
    BY <1>21 DEF AnnounceReturns
  <1>22. ASSUME NEW a \in Attempt, Materialize(a) PROVE TornInv'
    BY <1>22 DEF Materialize
  <1>23. ASSUME NEW a \in Attempt, PublicationSettled(a) PROVE TornInv'
    BY <1>23 DEF PublicationSettled
  <1>24. ASSUME NEW a \in Attempt, DriverIdle(a) PROVE TornInv'
    BY <1>24 DEF DriverIdle
  <1>25. ASSUME NEW a \in Attempt, ScopeDisposed(a) PROVE TornInv'
    BY <1>25 DEF ScopeDisposed
  <1>26. ASSUME NEW a \in Attempt, CloseAndDetach(a) PROVE TornInv'
    BY <1>26 DEF CloseAndDetach
  <1>27. ASSUME NEW a \in Attempt, RolledBack(a) PROVE TornInv'
    BY <1>27 DEF RolledBack
  <1>28. CASE UNCHANGED vars
    BY <1>28 DEF vars
  <1> HIDE DEF IInv, TypeOK, TornInv, Go, Fail, Advance, Settle, CloseHandle, own, backend,
        Tracked, TearingDown, StartTeardown, CanPrepare, Active
  <1> QED
    BY <1>1, <1>2, <1>3, <1>4, <1>5, <1>6, <1>60, <1>7, <1>8, <1>9, <1>10, <1>11, <1>12,
       <1>13, <1>14, <1>15, <1>16, <1>17, <1>18, <1>19, <1>20, <1>21, <1>22, <1>23, <1>24,
       <1>25, <1>26, <1>27, <1>28, Steps

LEMMA DrainStep ==
  ASSUME IInv, MountInv, DrainInv, [Next]_vars
  PROVE  DrainInv'
  <1> USE AttemptAssumption DEF IInv, TypeOK, DrainInv, Go, Fail, Advance, Settle,
        CloseHandle, own, backend, TearingDown
  <1>1. ASSUME NEW f \in Factory, Mount(f) PROVE DrainInv'
    <2>1. registered' = registered /\ released' = released
      BY <1>1 DEF Mount
    <2>2. \A h \in Factory : factory'[h] = IF h = f THEN "active" ELSE factory[h]
      BY <1>1 DEF Mount
    <2>3. ASSUME NEW a \in Attempt, stage'[a] = "draining", a \notin released PROVE registered # NoOne
      BY <1>1, <2>3 DEF Mount
    <2>4. ASSUME registered # NoOne, NEW a \in Attempt, stage'[a] = "draining", a \notin released
          PROVE  factory'[FactoryOf[registered]] \in {"closing", "closed"}
      <3>1. registered \in Attempt /\ FactoryOf[registered] \in Factory /\ FactoryOf[a] \in Factory
        BY <2>4 DEF Factory
      <3>2. stage[registered] # "idle"
        BY <3>1 DEF TeardownInv
      <3>3. factory[FactoryOf[registered]] # "absent"
        BY <3>1, <3>2 DEF JoinInv
      <3>4. FactoryOf[registered] # f /\ factory[f] = "absent"
        BY <1>1, <3>3 DEF Mount
      <3>5. factory[FactoryOf[registered]] \in {"closing", "closed"}
        <4>1. CASE stage[a] = "draining"
          BY <2>4, <4>1
        <4>2. CASE stage[a] # "draining"
          <5>1. CASE FactoryOf[registered] < f
            <6>1. FactoryOf[registered] \in 1..(f - 1)
              BY <3>1, <5>1 DEF Factory
            <6> QED BY <1>1, <6>1 DEF Mount
          <5>2. CASE f < FactoryOf[registered]
            <6>1. f \in 1..(FactoryOf[registered] - 1)
              BY <3>1, <5>2 DEF Factory
            <6>2. factory[f] \in {"closing", "closed"}
              BY <3>1, <3>3, <6>1 DEF MountInv
            <6> QED BY <3>4, <6>2
          <5> QED BY <3>1, <3>4, <5>1, <5>2 DEF Factory
        <4> QED BY <4>1, <4>2
      <3> QED BY <2>2, <3>1, <3>4, <3>5
    <2> QED BY <2>1, <2>3, <2>4
  <1>2. ASSUME NEW f \in Factory, Unload(f) PROVE DrainInv'
    BY <1>2 DEF Unload
  <1>3. ASSUME NEW f \in Factory, Dispose(f) PROVE DrainInv'
    BY <1>3 DEF Dispose
  <1>4. ASSUME NEW f \in Factory, Disposed(f) PROVE DrainInv'
    BY <1>4 DEF Disposed
  <1>5. ASSUME NEW a \in Attempt, CancelCaller(a) PROVE DrainInv'
    BY <1>5 DEF CancelCaller
  <1>6. ASSUME NEW a \in Attempt, OwnerUnload(a) PROVE DrainInv'
    BY <1>6 DEF OwnerUnload
  <1>60. ASSUME NEW a \in Attempt, OwnerUnloaded(a) PROVE DrainInv'
    BY <1>60 DEF OwnerUnloaded
  <1>7. ASSUME NEW a \in Attempt, DisposeAgent(a) PROVE DrainInv'
    BY <1>7 DEF DisposeAgent
  <1>8. ASSUME NEW a \in Attempt, Call(a) PROVE DrainInv'
    BY <1>8 DEF Call
  <1>9. ASSUME NEW a \in Attempt, Drained(a) PROVE DrainInv'
    BY <1>9 DEF Drained
  <1>10. ASSUME NEW a \in Attempt, AbandonOpen(a) PROVE DrainInv'
    BY <1>10 DEF AbandonOpen
  <1>11. ASSUME NEW a \in Attempt, ClaimWrite(a) PROVE DrainInv'
    BY <1>11 DEF ClaimWrite
  <1>12. ASSUME NEW a \in Attempt, NEW notFound \in BOOLEAN, CallRejects(a, notFound) PROVE DrainInv'
    BY <1>12 DEF CallRejects
  <1>13. ASSUME NEW a \in Attempt, CallReturns(a) PROVE DrainInv'
    BY <1>13 DEF CallReturns
  <1>14. ASSUME NEW a \in Attempt, CloseAbandoned(a) PROVE DrainInv'
    BY <1>14 DEF CloseAbandoned
  <1>15. ASSUME NEW a \in Attempt, CloseRejected(a) PROVE DrainInv'
    BY <1>15 DEF CloseRejected
  <1>16. ASSUME NEW a \in Attempt, NEW ok \in BOOLEAN, ReadReturns(a, ok) PROVE DrainInv'
    BY <1>16 DEF ReadReturns
  <1>17. ASSUME NEW a \in Attempt, NEW ok \in BOOLEAN, RepairReturns(a, ok) PROVE DrainInv'
    BY <1>17 DEF RepairReturns
  <1>18. ASSUME NEW a \in Attempt, NEW ok \in BOOLEAN, SuffixReturns(a, ok) PROVE DrainInv'
    BY <1>18 DEF SuffixReturns
  <1>19. ASSUME NEW a \in Attempt, NEW ok \in BOOLEAN, SetupReturns(a, ok) PROVE DrainInv'
    BY <1>19 DEF SetupReturns
  <1>20. ASSUME NEW a \in Attempt, NEW ok \in BOOLEAN, NEW vetoed \in BOOLEAN,
             StoreReturns(a, ok, vetoed) PROVE DrainInv'
    BY <1>20 DEF StoreReturns
  <1>21. ASSUME NEW a \in Attempt, NEW ok \in BOOLEAN, AnnounceReturns(a, ok) PROVE DrainInv'
    BY <1>21 DEF AnnounceReturns
  <1>22. ASSUME NEW a \in Attempt, Materialize(a) PROVE DrainInv'
    BY <1>22 DEF Materialize
  <1>23. ASSUME NEW a \in Attempt, PublicationSettled(a) PROVE DrainInv'
    BY <1>23 DEF PublicationSettled
  <1>24. ASSUME NEW a \in Attempt, DriverIdle(a) PROVE DrainInv'
    BY <1>24 DEF DriverIdle
  <1>25. ASSUME NEW a \in Attempt, ScopeDisposed(a) PROVE DrainInv'
    BY <1>25 DEF ScopeDisposed
  <1>26. ASSUME NEW a \in Attempt, CloseAndDetach(a) PROVE DrainInv'
    BY <1>26 DEF CloseAndDetach, HeardDisposal
  <1>27. ASSUME NEW a \in Attempt, RolledBack(a) PROVE DrainInv'
    BY <1>27 DEF RolledBack
  <1>28. CASE UNCHANGED vars
    BY <1>28 DEF vars
  <1> HIDE DEF IInv, TypeOK, DrainInv, Go, Fail, Advance, Settle, CloseHandle, own, backend,
        TearingDown
  <1> QED
    BY <1>1, <1>2, <1>3, <1>4, <1>5, <1>6, <1>60, <1>7, <1>8, <1>9, <1>10, <1>11, <1>12,
       <1>13, <1>14, <1>15, <1>16, <1>17, <1>18, <1>19, <1>20, <1>21, <1>22, <1>23, <1>24,
       <1>25, <1>26, <1>27, <1>28, Steps

WaitInv == MountInv /\ OpenInv /\ TornInv /\ DrainInv

LEMMA WaitInit == Init => WaitInv
  BY DEF Init, WaitInv, MountInv, OpenInv, TornInv, DrainInv, Tracked, Creates

LEMMA WaitAlways == Spec => []WaitInv
  <1>1. IInv /\ WaitInv /\ [Next]_vars => WaitInv'
    BY MountStep, OpenStep, TornStep, DrainStep DEF WaitInv
  <1> QED BY WaitInit, IInvAlways, <1>1, PTL DEF Spec

\* For any attempts and factories, a disposal only waits for what ends.
THEOREM DisposalGoesOn == Spec => []NoneHoldsDisposal
  <1>1. IInv /\ WaitInv => NoneHoldsDisposal
    <2> SUFFICES ASSUME IInv, WaitInv, NEW f \in Factory, factory[f] = "closing", NEW a \in joined[f]
                 PROVE  /\ stage[a] = "opening" => RaceLost(a) \/ (Creates(a) /\ op[a] = "pending")
                        /\ stage[a] = "creating" => op[a] = "pending"
                        /\ stage[a] = "setup" => a \in aborted
                        /\ Tracked(a) => teardown[a] # "none"
      BY DEF NoneHoldsDisposal
    <2>1. a \in Attempt /\ FactoryOf[a] = f /\ TearingDown(a)
      BY DEF IInv, TypeOK, WaitInv, MountInv, TearingDown
    <2>2. stage[a] = "opening" => RaceLost(a) \/ (Creates(a) /\ op[a] = "pending")
      BY <2>1 DEF WaitInv, OpenInv, IInv, TypeOK, RaceLost, Creates
    <2>3. Tracked(a) => teardown[a] # "none"
      BY <2>1 DEF WaitInv, TornInv
    <2>4. (stage[a] = "creating" => op[a] = "pending") /\ (teardown[a] # "none" => a \in aborted)
      BY <2>1 DEF IInv, HandleInv, TeardownInv
    <2> QED BY <2>2, <2>3, <2>4 DEF Tracked
  <1> QED BY <1>1, WaitAlways, IInvAlways, PTL

\* For any attempts and factories, the disposal a configured attempt waits for is under way.
THEOREM DrainingGoesOn == Spec => []DrainingIsHeard
  <1>1. IInv /\ WaitInv => DrainingIsHeard
    <2> SUFFICES ASSUME IInv, WaitInv, registered \in Attempt, TearingDown(registered)
                 PROVE  teardown[registered] \notin {"none", "done"}
      BY DEF DrainingIsHeard, WaitInv, DrainInv, IInv, TypeOK
    <2>1. stage[registered] \in {"announcing", "live", "failing"} /\ teardown[registered] # "done"
      BY DEF IInv, TeardownInv
    <2> QED BY <2>1 DEF WaitInv, TornInv, Tracked
  <1> QED BY <1>1, WaitAlways, IInvAlways, PTL
=============================================================================
