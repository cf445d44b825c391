---------------------------- MODULE RunnerProofs ----------------------------
(***************************************************************************)
(* Theorems about Runner, for every set of revisions, every ancestry, with *)
(* and without rewinds and failing state writes.  Those about the host     *)
(* suppose that no stale index.lock makes a git checkout fail:             *)
(* RunnerLockedRecovery shows what happens otherwise.  SelectionHolds and  *)
(* AuthorityKept, on the selection of a target, stand without it.          *)
(***************************************************************************)
EXTENDS RunnerInvariant, TLAPS

\* A checkout never fails on a stale index.lock.
NoStaleLock == "git-lock" \notin Faults

-----------------------------------------------------------------------------
(* IInv is inductive: one step per action. *)

\* The two environment switches stay Boolean.
LEMMA BooleanStep ==
  ASSUME IInv, Next, NoStaleLock
  PROVE  (drift \in BOOLEAN /\ calm \in BOOLEAN)'
<1> USE NoneAssumption DEF
    IInv, TypeOK, records, clone, host, locals, vars,
    Goto, Exit, Leave, Abort, ClearLocals, CheckedOut, RecoveryFailed,
    PipelineFails, MaybeRev, Flags
<1>1. CASE Start
  BY <1>1 DEF Start
<1>2. CASE RefuseDirty
  BY <1>2 DEF RefuseDirty
<1>3. CASE SkipNetworkRestore
  BY <1>3 DEF SkipNetworkRestore
<1>4. CASE StartNetworkRestore
  BY <1>4 DEF StartNetworkRestore
<1>5. CASE UnknownHost
  BY <1>5 DEF UnknownHost
<1>6. CASE RefuseUnenrolled
  BY <1>6 DEF RefuseUnenrolled
<1>7. CASE NormalStartup
  BY <1>7 DEF NormalStartup
<1>8. CASE StartRecovery
  BY <1>8 DEF StartRecovery
<1>9. CASE RecordInterrupted
  BY <1>9 DEF RecordInterrupted
<1>10. CASE RenderInterrupted
  BY <1>10 DEF RenderInterrupted
<1>11. CASE CheckoutLast
  BY <1>11 DEF CheckoutLast
<1>12. CASE RecoveryUnprepared
  BY <1>12 DEF RecoveryUnprepared
<1>13. CASE ClearRecovered
  BY <1>13 DEF ClearRecovered
<1>14. CASE Fetch
  BY <1>14 DEF Fetch
<1>15. CASE FinishRecovered
  BY <1>15 DEF FinishRecovered
<1>16. CASE Detect
  BY <1>16 DEF Detect
<1>17. CASE AuditAborts
  BY <1>17 DEF AuditAborts
<1>18. CASE AuditFoundation
  BY <1>18 DEF AuditFoundation
<1>19. CASE AuditClean
  BY <1>19 DEF AuditClean
<1>20. CASE AuditDirty
  BY <1>20 DEF AuditDirty
<1>21. CASE PrepareAborts
  BY <1>21 DEF PrepareAborts
<1>22. CASE PrepareAccepted
  BY <1>22 DEF PrepareAccepted
<1>23. CASE PrepareCandidate
  BY <1>23 DEF PrepareCandidate
<1>24. CASE RefuseNonFastForward
  BY <1>24 DEF RefuseNonFastForward
<1>25. CASE RefuseNoContext
  BY <1>25 DEF RefuseNoContext
<1>26. CASE Preflight
  BY <1>26 DEF Preflight
<1>27. CASE PreflightFails
  BY <1>27 DEF PreflightFails
<1>28. CASE Mark
  BY <1>28 DEF Mark
<1>29. CASE MarkFails
  BY <1>29 DEF MarkFails
<1>30. CASE ApplyBegin
  BY <1>30 DEF ApplyBegin
<1>31. CASE ApplyEnd
  BY <1>31 DEF ApplyEnd
<1>32. CASE NetworkRestored
  BY <1>32 DEF NetworkRestored
<1>33. CASE ApplyFails
  BY <1>33 DEF ApplyFails
<1>34. CASE Commit
  BY <1>34 DEF Commit
<1>35. CASE ClearMarker
  BY <1>35 DEF ClearMarker
<1>36. CASE ClearFailed
  BY <1>36 DEF ClearFailed
<1>37. CASE CommitAborts
  BY <1>37 DEF CommitAborts
<1>38. CASE PostFull
  BY <1>38 DEF PostFull
<1>39. CASE AcceptedFailed
  BY <1>39 DEF AcceptedFailed
<1>40. CASE RejectCandidate
  BY <1>40 DEF RejectCandidate
<1>41. CASE CandidateFailed
  BY <1>41 DEF CandidateFailed
<1>42. CASE Crash
  BY <1>42 DEF Crash
<1>43. CASE OperatorRepair
  BY <1>43 DEF OperatorRepair
<1>44. CASE Enroll
  BY <1>44 DEF Enroll
<1>45. CASE Push
  BY <1>45 DEF Push
<1>46. CASE Drift
  BY <1>46 DEF Drift
<1>47. CASE Tick
  BY <1>47 DEF Tick
<1>48. CASE Calm
  BY <1>48 DEF Calm
<1> HIDE DEF
    IInv, TypeOK, records, clone, host, locals, vars,
    Goto, Exit, Leave, Abort, ClearLocals, CheckedOut, RecoveryFailed,
    PipelineFails, MaybeRev, Flags
<1>. QED
  BY <1>1, <1>2, <1>3, <1>4, <1>5, <1>6, <1>7, <1>8, <1>9, <1>10,
     <1>11, <1>12, <1>13, <1>14, <1>15, <1>16, <1>17, <1>18, <1>19, <1>20,
     <1>21, <1>22, <1>23, <1>24, <1>25, <1>26, <1>27, <1>28, <1>29, <1>30,
     <1>31, <1>32, <1>33, <1>34, <1>35, <1>36, <1>37, <1>38, <1>39, <1>40,
     <1>41, <1>42, <1>43, <1>44, <1>45, <1>46, <1>47, <1>48
  DEF Next, RunStep, Environment

\* Records, clone, host and run keep their types. Recovery dereferences the
\* marker and the accepted revision, so this needs RecoveryInv and FullInv.
LEMMA TypeStep ==
  ASSUME IInv, Next, NoStaleLock
  PROVE  RecordTypes' /\ PlaceTypes' /\ RunTypes'
<1> USE NoneAssumption, FaultsAssumption DEF
    IInv, TypeOK, RecordTypes, PlaceTypes, RunTypes, RecoveryInv, FullInv,
    Steps, Jobs, Recoveries, Outcomes,
    records, clone, host, locals, vars,
    Goto, Exit, Leave, Abort, ClearLocals, CheckedOut, RecoveryFailed,
    PipelineFails, MaybeRev, Fetched, Recovered, Suppressed, Forced, Retry,
    Mutated, Flags
<1>1. CASE Start
  BY <1>1 DEF Start
<1>2. CASE RefuseDirty
  BY <1>2 DEF RefuseDirty
<1>3. CASE SkipNetworkRestore
  BY <1>3 DEF SkipNetworkRestore
<1>4. CASE StartNetworkRestore
  BY <1>4 DEF StartNetworkRestore
<1>5. CASE UnknownHost
  BY <1>5 DEF UnknownHost
<1>6. CASE RefuseUnenrolled
  BY <1>6 DEF RefuseUnenrolled
<1>7. CASE NormalStartup
  BY <1>7 DEF NormalStartup
<1>8. CASE StartRecovery
  BY <1>8 DEF StartRecovery
<1>9. CASE RecordInterrupted
  BY <1>9 DEF RecordInterrupted
<1>10. CASE RenderInterrupted
  BY <1>10 DEF RenderInterrupted
<1>11. CASE CheckoutLast
  BY <1>11 DEF CheckoutLast
<1>12. CASE RecoveryUnprepared
  BY <1>12 DEF RecoveryUnprepared
<1>13. CASE ClearRecovered
  BY <1>13 DEF ClearRecovered
<1>14. CASE Fetch
  BY <1>14 DEF Fetch
<1>15. CASE FinishRecovered
  BY <1>15 DEF FinishRecovered
<1>16. CASE Detect
  BY <1>16 DEF Detect
<1>17. CASE AuditAborts
  BY <1>17 DEF AuditAborts
<1>18. CASE AuditFoundation
  BY <1>18 DEF AuditFoundation
<1>19. CASE AuditClean
  BY <1>19 DEF AuditClean
<1>20. CASE AuditDirty
  BY <1>20 DEF AuditDirty
<1>21. CASE PrepareAborts
  BY <1>21 DEF PrepareAborts
<1>22. CASE PrepareAccepted
  BY <1>22 DEF PrepareAccepted
<1>23. CASE PrepareCandidate
  BY <1>23 DEF PrepareCandidate
<1>24. CASE RefuseNonFastForward
  BY <1>24 DEF RefuseNonFastForward
<1>25. CASE RefuseNoContext
  BY <1>25 DEF RefuseNoContext
<1>26. CASE Preflight
  BY <1>26 DEF Preflight
<1>27. CASE PreflightFails
  <2>1. CASE job = "full"
    BY <1>27, <2>1 DEF PreflightFails
  <2>2. CASE job # "full"
    BY <1>27, <2>2 DEF PreflightFails
  <2>. QED BY <2>1, <2>2
<1>28. CASE Mark
  BY <1>28 DEF Mark
<1>29. CASE MarkFails
  BY <1>29 DEF MarkFails
<1>30. CASE ApplyBegin
  BY <1>30 DEF ApplyBegin
<1>31. CASE ApplyEnd
  BY <1>31 DEF ApplyEnd
<1>32. CASE NetworkRestored
  BY <1>32 DEF NetworkRestored
<1>33. CASE ApplyFails
  BY <1>33 DEF ApplyFails
<1>34. CASE Commit
  BY <1>34 DEF Commit
<1>35. CASE ClearMarker
  BY <1>35 DEF ClearMarker
<1>36. CASE ClearFailed
  BY <1>36 DEF ClearFailed
<1>37. CASE CommitAborts
  BY <1>37 DEF CommitAborts
<1>38. CASE PostFull
  BY <1>38 DEF PostFull, FullRecords
<1>39. CASE AcceptedFailed
  BY <1>39 DEF AcceptedFailed
<1>40. CASE RejectCandidate
  <2>1. target \in Revs /\ target # None
    BY <1>40 DEF RejectCandidate
  <2>2. CASE failed' = target /\ Goto("candidateFailed") /\ UNCHANGED <<clone, locals>>
    BY <1>40, <2>1, <2>2 DEF RejectCandidate
  <2>3. CASE failed' \in {failed, target} /\ Abort
    BY <1>40, <2>1, <2>3 DEF RejectCandidate
  <2> QED BY <1>40, <2>2, <2>3 DEF RejectCandidate
<1>41. CASE CandidateFailed
  BY <1>41 DEF CandidateFailed
<1>42. CASE Crash
  BY <1>42 DEF Crash, CheckoutSteps
<1>43. CASE OperatorRepair
  BY <1>43 DEF OperatorRepair
<1>44. CASE Enroll
  BY <1>44 DEF Enroll, NoFull
<1>45. CASE Push
  BY <1>45 DEF Push
<1>46. CASE Drift
  BY <1>46 DEF Drift
<1>47. CASE Tick
  BY <1>47 DEF Tick, FullRecords
<1>48. CASE Calm
  BY <1>48 DEF Calm
<1> HIDE DEF
    IInv, TypeOK, RecordTypes, PlaceTypes, RunTypes, RecoveryInv, FullInv,
    Steps, Jobs, Recoveries, Outcomes,
    records, clone, host, locals, vars,
    Goto, Exit, Leave, Abort, ClearLocals, CheckedOut, RecoveryFailed,
    PipelineFails, MaybeRev, Fetched, Recovered, Suppressed, Forced, Retry,
    Mutated, Flags
<1>. QED
  BY <1>1, <1>2, <1>3, <1>4, <1>5, <1>6, <1>7, <1>8, <1>9, <1>10,
     <1>11, <1>12, <1>13, <1>14, <1>15, <1>16, <1>17, <1>18, <1>19, <1>20,
     <1>21, <1>22, <1>23, <1>24, <1>25, <1>26, <1>27, <1>28, <1>29, <1>30,
     <1>31, <1>32, <1>33, <1>34, <1>35, <1>36, <1>37, <1>38, <1>39, <1>40,
     <1>41, <1>42, <1>43, <1>44, <1>45, <1>46, <1>47, <1>48
  DEF Next, RunStep, Environment

\* The relations between records, host and run are kept.
LEMMA RelationStep ==
  ASSUME IInv, Next, NoStaleLock
  PROVE  /\ worktree' # "locked"
         /\ (pc \notin {"idle", "startup"} => last # None)'
         /\ HostTracked'
         /\ (pc = "applying" => head \in holds /\ head \in netHolds)'
         /\ RecoveryInv' /\ FullInv' /\ ReportInv'
<1> USE NoneAssumption, FaultsAssumption DEF
    IInv, TypeOK, RecordTypes, PlaceTypes, RunTypes, RecoveryInv, FullInv,
    ReportInv, ReportedMeansRestored, BootNetworkAccepted, HostTracked,
    HoldsLast, CleanupOf, AlreadyRecovered, NewCommit, Recoveries,
    NoStaleLock, records, clone, host, locals, vars,
    Goto, Exit, Leave, Abort, ClearLocals, CheckedOut, RecoveryFailed,
    PipelineFails, MaybeRev,
    Fetched, Recovered, Suppressed, Forced, Retry,
    Mutated, Flags
<1>1. CASE Start
  BY <1>1 DEF Start
<1>2. CASE RefuseDirty
  BY <1>2 DEF RefuseDirty
<1>3. CASE SkipNetworkRestore
  BY <1>3 DEF SkipNetworkRestore
<1>4. CASE StartNetworkRestore
  BY <1>4 DEF StartNetworkRestore
<1>5. CASE UnknownHost
  BY <1>5 DEF UnknownHost
<1>6. CASE RefuseUnenrolled
  BY <1>6 DEF RefuseUnenrolled
<1>7. CASE NormalStartup
  BY <1>7 DEF NormalStartup
<1>8. CASE StartRecovery
  BY <1>8 DEF StartRecovery
<1>9. CASE RecordInterrupted
  BY <1>9 DEF RecordInterrupted
<1>10. CASE RenderInterrupted
  BY <1>10 DEF RenderInterrupted
<1>11. CASE CheckoutLast
  BY <1>11 DEF CheckoutLast
<1>12. CASE RecoveryUnprepared
  BY <1>12 DEF RecoveryUnprepared
<1>13. CASE ClearRecovered
  BY <1>13 DEF ClearRecovered
<1>14. CASE Fetch
  BY <1>14 DEF Fetch
<1>15. CASE FinishRecovered
  BY <1>15 DEF FinishRecovered
<1>16. CASE Detect
  BY <1>16 DEF Detect
<1>17. CASE AuditAborts
  BY <1>17 DEF AuditAborts
<1>18. CASE AuditFoundation
  BY <1>18 DEF AuditFoundation
<1>19. CASE AuditClean
  BY <1>19 DEF AuditClean
<1>20. CASE AuditDirty
  BY <1>20 DEF AuditDirty
<1>21. CASE PrepareAborts
  BY <1>21 DEF PrepareAborts
<1>22. CASE PrepareAccepted
  BY <1>22 DEF PrepareAccepted
<1>23. CASE PrepareCandidate
  BY <1>23 DEF PrepareCandidate
<1>24. CASE RefuseNonFastForward
  BY <1>24 DEF RefuseNonFastForward
<1>25. CASE RefuseNoContext
  BY <1>25 DEF RefuseNoContext
<1>26. CASE Preflight
  BY <1>26 DEF Preflight
<1>27. CASE PreflightFails
  BY <1>27 DEF PreflightFails
<1>28. CASE Mark
  BY <1>28 DEF Mark
<1>29. CASE MarkFails
  BY <1>29 DEF MarkFails
<1>30. CASE ApplyBegin
  BY <1>30 DEF ApplyBegin
<1>31. CASE ApplyEnd
  BY <1>31 DEF ApplyEnd
<1>32. CASE NetworkRestored
  BY <1>32 DEF NetworkRestored
<1>33. CASE ApplyFails
  BY <1>33 DEF ApplyFails
<1>34. CASE Commit
  BY <1>34 DEF Commit
<1>35. CASE ClearMarker
  BY <1>35 DEF ClearMarker
<1>36. CASE ClearFailed
  BY <1>36 DEF ClearFailed
<1>37. CASE CommitAborts
  BY <1>37 DEF CommitAborts
<1>38. CASE PostFull
  BY <1>38 DEF PostFull, FullRecords
<1>39. CASE AcceptedFailed
  BY <1>39 DEF AcceptedFailed
<1>40. CASE RejectCandidate
  BY <1>40 DEF RejectCandidate
<1>41. CASE CandidateFailed
  BY <1>41 DEF CandidateFailed
<1>42. CASE Crash
  BY <1>42 DEF Crash, CheckoutSteps
<1>43. CASE OperatorRepair
  BY <1>43 DEF OperatorRepair
<1>44. CASE Enroll
  BY <1>44 DEF Enroll, NoFull
<1>45. CASE Push
  BY <1>45 DEF Push
<1>46. CASE Drift
  BY <1>46 DEF Drift
<1>47. CASE Tick
  BY <1>47 DEF Tick, FullRecords
<1>48. CASE Calm
  BY <1>48 DEF Calm
<1> HIDE DEF
    IInv, TypeOK, RecordTypes, PlaceTypes, RunTypes, RecoveryInv, FullInv,
    ReportInv, ReportedMeansRestored, BootNetworkAccepted, HostTracked,
    HoldsLast, CleanupOf, AlreadyRecovered, NewCommit, Recoveries,
    NoStaleLock, records, clone, host, locals, vars,
    Goto, Exit, Leave, Abort, ClearLocals, CheckedOut, RecoveryFailed,
    PipelineFails, MaybeRev,
    Fetched, Recovered, Suppressed, Forced, Retry,
    Mutated, Flags
<1>. QED
  BY <1>1, <1>2, <1>3, <1>4, <1>5, <1>6, <1>7, <1>8, <1>9, <1>10,
     <1>11, <1>12, <1>13, <1>14, <1>15, <1>16, <1>17, <1>18, <1>19, <1>20,
     <1>21, <1>22, <1>23, <1>24, <1>25, <1>26, <1>27, <1>28, <1>29, <1>30,
     <1>31, <1>32, <1>33, <1>34, <1>35, <1>36, <1>37, <1>38, <1>39, <1>40,
     <1>41, <1>42, <1>43, <1>44, <1>45, <1>46, <1>47, <1>48
  DEF Next, RunStep, Environment

LEMMA InitInvariant == Init => IInv
<1> USE NoneAssumption, FaultsAssumption DEF Init, MaybeRev
<1>1. Init => TypeOK
  <2>1. Init => RecordTypes
    BY DEF RecordTypes, FullRecords, NoFull
  <2>2. Init => PlaceTypes
    BY DEF PlaceTypes
  <2>3. Init => RunTypes
    BY DEF RunTypes, Steps, Jobs, Recoveries, Outcomes, Flags
  <2>4. Init => drift \in BOOLEAN /\ calm \in BOOLEAN
    OBVIOUS
  <2>. QED
    BY <2>1, <2>2, <2>3, <2>4 DEF TypeOK
<1>2. Init => HostTracked /\ worktree # "locked"
  BY DEF HostTracked
<1>3. Init => RecoveryInv /\ FullInv
  BY DEF RecoveryInv, FullInv
<1>4. Init => ReportInv
  BY DEF ReportInv, ReportedMeansRestored, BootNetworkAccepted
<1>. QED
  BY <1>1, <1>2, <1>3, <1>4 DEF IInv

LEMMA StutterInvariant ==
  ASSUME IInv, UNCHANGED vars
  PROVE  IInv'
BY DEF IInv, TypeOK, RecordTypes, PlaceTypes, RunTypes, HostTracked,
       RecoveryInv, FullInv, ReportInv, ReportedMeansRestored,
       BootNetworkAccepted, HoldsLast, CleanupOf, vars, records, clone, host,
       locals

LEMMA StepInvariant ==
  ASSUME IInv, [Next]_vars, NoStaleLock
  PROVE  IInv'
<1>1. CASE Next
  <2>1. TypeOK'
    BY <1>1, BooleanStep, TypeStep DEF TypeOK
  <2>. QED
    BY <1>1, <2>1, RelationStep DEF IInv
<1>2. CASE UNCHANGED vars
  BY <1>2, StutterInvariant
<1>. QED BY <1>1, <1>2

\* The inductive invariant holds in every reachable state of a runner whose
\* checkouts do not fail.
THEOREM InvariantHolds ==
  ASSUME NoStaleLock
  PROVE  Spec => []IInv
<1>1. Init => IInv
  BY InitInvariant
<1>2. IInv /\ [Next]_vars => IInv'
  BY StepInvariant
<1>. QED BY <1>1, <1>2, PTL DEF Spec
-----------------------------------------------------------------------------
(* What the invariant gives. *)

\* Every reachable state is well typed.
THEOREM TypeCorrect ==
  ASSUME NoStaleLock
  PROVE  Spec => []TypeOK
<1>1. IInv => TypeOK
  BY DEF IInv
<1>. QED BY <1>1, InvariantHolds, PTL

\* An enrolled host holds resources of the accepted and of the marked revision
\* only, whatever was interrupted before.
THEOREM HostAlwaysTracked ==
  ASSUME NoStaleLock
  PROVE  Spec => []HostTracked
<1>1. IInv => HostTracked
  BY DEF IInv
<1>. QED BY <1>1, InvariantHolds, PTL

\* The summaries of a run tell the truth about the host: success and recovery
\* are reported only of a host that holds exactly the accepted revision.
THEOREM ReportsCorrect ==
  ASSUME NoStaleLock
  PROVE  Spec => []ReportedMeansRestored
<1>1. IInv => ReportedMeansRestored
  BY DEF IInv, ReportInv
<1>. QED BY <1>1, InvariantHolds, PTL

\* networkd boots with the accepted network files: the restoration brings them
\* back, and it is skipped only where they never left.
THEOREM BootNetworkCorrect ==
  ASSUME NoStaleLock
  PROVE  Spec => []BootNetworkAccepted
<1>1. IInv => BootNetworkAccepted
  BY DEF IInv, ReportInv
<1>. QED BY <1>1, InvariantHolds, PTL

-----------------------------------------------------------------------------
(* Which steps move the records, and what the host holds when they do. *)

\* The steps that move the marker, the accepted revision, the record of the
\* last full pass or the contents of the host; no other step does.
Movers ==
  \/ Enroll \/ Mark \/ MarkFails \/ ApplyBegin \/ ApplyEnd \/ ClearRecovered
  \/ Commit \/ ClearMarker \/ CommitAborts \/ PostFull \/ Tick

LEMMA OthersKeep ==
  ASSUME [Next]_vars, ~Movers
  PROVE  UNCHANGED <<current, last, lastFull, holds>>
<1> USE DEF records, clone, host, locals, vars
<1>1. CASE \/ Start \/ RefuseDirty \/ SkipNetworkRestore
         \/ StartNetworkRestore \/ UnknownHost \/ RefuseUnenrolled
         \/ NormalStartup \/ StartRecovery \/ RecordInterrupted
         \/ RenderInterrupted \/ CheckoutLast \/ RecoveryUnprepared
         \/ Fetch \/ FinishRecovered \/ Detect
         \/ AuditAborts \/ AuditFoundation \/ AuditClean
         \/ AuditDirty \/ PrepareAborts \/ PrepareAccepted
         \/ PrepareCandidate \/ RefuseNonFastForward \/ RefuseNoContext
         \/ Preflight \/ PreflightFails \/ NetworkRestored
         \/ ApplyFails \/ ClearFailed \/ AcceptedFailed
         \/ RejectCandidate \/ CandidateFailed \/ Crash
         \/ OperatorRepair \/ Push \/ Drift
         \/ Calm
         \/ UNCHANGED vars
  BY <1>1 DEF
     Start, RefuseDirty, SkipNetworkRestore,
     StartNetworkRestore, UnknownHost, RefuseUnenrolled,
     NormalStartup, StartRecovery, RecordInterrupted,
     RenderInterrupted, CheckoutLast, RecoveryUnprepared,
     Fetch, FinishRecovered, Detect,
     AuditAborts, AuditFoundation, AuditClean,
     AuditDirty, PrepareAborts, PrepareAccepted,
     PrepareCandidate, RefuseNonFastForward, RefuseNoContext,
     Preflight, PreflightFails, NetworkRestored,
     ApplyFails, ClearFailed, AcceptedFailed,
     RejectCandidate, CandidateFailed, Crash,
     OperatorRepair, Push, Drift,
     Calm
<1>. QED
  BY <1>1 DEF Movers, Next, RunStep, Environment

\* The marker of interrupted work is removed only from a host that holds the
\* accepted revision and nothing else.
THEOREM MarkerCleared ==
  ASSUME NoStaleLock
  PROVE  Spec => MarkerClearedWhenRestored
<1>1. ASSUME IInv, [Next]_vars, current # None, current' = None
      PROVE  holds = {last}
  <2>1. CASE Movers
    BY <1>1, <2>1, NoneAssumption
    DEF Movers, Enroll, Mark, MarkFails, ApplyBegin, ApplyEnd, ClearRecovered,
        Commit, ClearMarker, CommitAborts, PostFull, Tick, records, clone,
        host, locals, IInv, FullInv, RecoveryInv, HoldsLast
  <2>2. CASE ~Movers
    BY <1>1, <2>2, OthersKeep
  <2>. QED BY <2>1, <2>2
<1>2. IInv /\ [Next]_vars
        => [current # None /\ current' = None => holds = {last}]_vars
  BY <1>1
<1>. QED
  BY <1>2, InvariantHolds, PTL DEF Spec, MarkerClearedWhenRestored

\* The accepted revision advances only to a marked one that was applied whole.
THEOREM LastAdvances ==
  ASSUME NoStaleLock
  PROVE  Spec => LastAdvancesWhenApplied
<1>1. ASSUME IInv, [Next]_vars, last # None, last' # last
      PROVE  current = last' /\ holds = {last'}
  <2>1. CASE Movers
    BY <1>1, <2>1
    DEF Movers, Enroll, Mark, MarkFails, ApplyBegin, ApplyEnd, ClearRecovered,
        Commit, ClearMarker, CommitAborts, PostFull, Tick, records, clone,
        host, locals, IInv, FullInv
  <2>2. CASE ~Movers
    BY <1>1, <2>2, OthersKeep
  <2>. QED BY <2>1, <2>2
<1>2. IInv /\ [Next]_vars
        => [last # None /\ last' # last
              => current = last' /\ holds = {last'}]_vars
  BY <1>1
<1>. QED
  BY <1>2, InvariantHolds, PTL DEF Spec, LastAdvancesWhenApplied

\* A full pass is recorded only for the accepted revision and after the marker
\* is gone.
THEOREM FullRecordCommitted ==
  ASSUME NoStaleLock
  PROVE  Spec => FullRecordAfterCommit
<1>1. ASSUME IInv, [Next]_vars, lastFull'.age = "recent", lastFull' # lastFull
      PROVE  current = None /\ lastFull'.sha = last /\ holds = {last}
  <2>1. CASE PostFull
    BY <1>1, <2>1 DEF PostFull, IInv, FullInv, HoldsLast
  <2>2. CASE Tick
    BY <1>1, <2>2 DEF Tick, IInv, TypeOK, RecordTypes, FullRecords
  <2>3. CASE Movers /\ ~PostFull /\ ~Tick
    BY <1>1, <2>3
    DEF Movers, Enroll, Mark, MarkFails, ApplyBegin, ApplyEnd, ClearRecovered,
        Commit, ClearMarker, CommitAborts, records
  <2>4. CASE ~Movers
    BY <1>1, <2>4, OthersKeep
  <2>. QED BY <2>1, <2>2, <2>3, <2>4
<1>2. IInv /\ [Next]_vars
        => [lastFull'.age = "recent" /\ lastFull' # lastFull
              => current = None /\ lastFull'.sha = last /\ holds = {last}]_vars
  BY <1>1
<1>. QED
  BY <1>2, InvariantHolds, PTL DEF Spec, FullRecordAfterCommit

-----------------------------------------------------------------------------
(* Runner implements AcceptedHost. *)

\* Every step that touches the records or the contents of the host is a step
\* of AcceptedHost under the refinement mapping.
LEMMA StepRefines ==
  ASSUME IInv, [Next]_vars, NoStaleLock
  PROVE  [Promise!Next]_(Promise!avars)
<1> USE NoneAssumption DEF records, clone, host, locals, vars, MaybeRev
<1> USE DEF IInv, TypeOK, RecordTypes, PlaceTypes, RunTypes, RecoveryInv,
       FullInv, HostTracked, HoldsLast, CleanupOf, Recoveries, Promise!avars
<1>1. CASE Enroll
  <2>1. Promise!Enroll(head)
    BY <1>1 DEF Enroll, Promise!Enroll
  <2>2. head \in Revs
    BY <1>1 DEF Enroll
  <2>. QED BY <2>1, <2>2 DEF Promise!Next
<1>2. CASE Mark
  <2>1. Promise!Begin(target)
    BY <1>2 DEF Mark, Promise!Begin
  <2>2. target \in Revs
    BY <1>2 DEF Mark
  <2>. QED BY <2>1, <2>2 DEF Promise!Next
<1>3. CASE MarkFails
  <2>1. Promise!Begin(target) \/ UNCHANGED Promise!avars
    BY <1>3 DEF MarkFails, Promise!Begin
  <2>2. target \in Revs
    BY <1>3 DEF MarkFails
  <2>. QED BY <2>1, <2>2 DEF Promise!Next
<1>4. CASE ApplyBegin
  <2>1. Promise!Touch(head)
    BY <1>4 DEF ApplyBegin, Promise!Touch
  <2>2. head \in Revs
    BY <1>4 DEF ApplyBegin
  <2>. QED BY <2>1, <2>2 DEF Promise!Next
<1>5. CASE ApplyEnd
  <2>1. Promise!Settle(head)
    BY <1>5 DEF ApplyEnd, Promise!Settle
  <2>2. head \in Revs
    BY <1>5 DEF ApplyEnd
  <2>. QED BY <2>1, <2>2 DEF Promise!Next
<1>6. CASE Commit
  <2>1. Promise!Accept
    BY <1>6 DEF Commit, Promise!Accept
  <2>2. head \in Revs
    BY <1>6 DEF Commit
  <2>. QED BY <2>1, <2>2 DEF Promise!Next
<1>7. CASE ClearMarker
  <2>1. Promise!Finish
    BY <1>7 DEF ClearMarker, Promise!Finish
  <2>2. head \in Revs
    BY <1>7 DEF ClearMarker
  <2>. QED BY <2>1, <2>2 DEF Promise!Next
<1>8. CASE ClearRecovered
  <2>1. Promise!Finish \/ UNCHANGED Promise!avars
    BY <1>8 DEF ClearRecovered, Promise!Finish
  <2>2. head \in Revs
    BY <1>8 DEF ClearRecovered
  <2>. QED BY <2>1, <2>2 DEF Promise!Next
<1>9. CASE CommitAborts
  <2>1. Promise!Accept \/ Promise!Finish \/ UNCHANGED Promise!avars
    BY <1>9 DEF CommitAborts, Promise!Accept, Promise!Finish
  <2>2. head \in Revs
    BY <1>9 DEF CommitAborts
  <2>. QED BY <2>1, <2>2 DEF Promise!Next
<1>10. CASE PostFull \/ Tick \/ ~Movers
  BY <1>10, OthersKeep DEF PostFull, Tick
<1>. QED
  BY <1>1, <1>2, <1>3, <1>4, <1>5, <1>6, <1>7, <1>8, <1>9, <1>10 DEF Movers

\* Runner keeps the promise of AcceptedHost: it marks before it mutates, it
\* accepts what it applied, and it unmarks what it restored.
THEOREM RunnerImplementsPromise ==
  ASSUME NoStaleLock
  PROVE  Spec => ImplementsPromise
<1>1. Init => Promise!Init
  BY DEF Init, Promise!Init, MaybeRev
<1>2. IInv /\ [Next]_vars => [Promise!Next]_(Promise!avars)
  BY StepRefines
<1>. QED
  BY <1>1, <1>2, InvariantHolds, PTL DEF Spec, ImplementsPromise, Promise!Spec
-----------------------------------------------------------------------------
(* What a run may decide about revisions.  Nothing here supposes that a      *)
(* checkout works.                                                           *)

LEMMA InitSelection == Init => SelectionInv
BY NoneAssumption DEF Init, SelectionInv, Fetched, Recoveries

LEMMA StutterSelection ==
  ASSUME SelectionInv, UNCHANGED vars
  PROVE  SelectionInv'
BY DEF SelectionInv, Fetched, Retry, vars, records, clone, host, locals

\* Every step keeps what the selection of a target established: the steps that
\* end a run forget it, those of the selection make it, the others move neither
\* target nor head away from it.
LEMMA SelectionStep ==
  ASSUME SelectionInv, Next
  PROVE  SelectionInv'
<1> USE NoneAssumption DEF
    SelectionInv, Fetched, Recovered, Retry, AlreadyRecovered, NewCommit,
    Recoveries, records, clone, host, locals, vars,
    Goto, Exit, Leave, Abort, ClearLocals, RecoveryFailed, PipelineFails
\* The start of a run and the boot restoration.
<1>1. CASE Start \/ RefuseDirty \/ SkipNetworkRestore \/ StartNetworkRestore
           \/ RefuseUnenrolled \/ NormalStartup \/ StartRecovery
  BY <1>1 DEF Start, RefuseDirty, SkipNetworkRestore, StartNetworkRestore,
              RefuseUnenrolled, NormalStartup, StartRecovery
\* Recovery.
<1>2. CASE RecordInterrupted \/ RenderInterrupted \/ CheckoutLast
           \/ RecoveryUnprepared \/ ClearRecovered
  BY <1>2 DEF RecordInterrupted, RenderInterrupted, CheckoutLast,
              RecoveryUnprepared, ClearRecovered
\* The selection of a target and the audit of the accepted revision.
<1>3. CASE Fetch \/ FinishRecovered \/ Detect
  BY <1>3 DEF Fetch, FinishRecovered, Detect
<1>4. CASE UnknownHost \/ AuditAborts \/ AuditFoundation \/ AuditClean
           \/ AuditDirty
  BY <1>4 DEF UnknownHost, AuditAborts, AuditFoundation, AuditClean, AuditDirty
\* The preparation puts HEAD on the target.
<1>5. CASE PrepareAborts \/ PrepareAccepted \/ PrepareCandidate
           \/ RefuseNonFastForward \/ RefuseNoContext
  BY <1>5 DEF PrepareAborts, PrepareAccepted, PrepareCandidate,
              RefuseNonFastForward, RefuseNoContext
\* The pipeline.
<1>6. CASE Preflight \/ PreflightFails \/ Mark \/ MarkFails \/ ApplyBegin
           \/ ApplyEnd \/ NetworkRestored \/ ApplyFails
  BY <1>6 DEF Preflight, PreflightFails, Mark, MarkFails, ApplyBegin,
              ApplyEnd, NetworkRestored, ApplyFails
\* The records after it.
<1>7. CASE Commit \/ ClearMarker \/ ClearFailed \/ CommitAborts \/ PostFull
  BY <1>7 DEF Commit, ClearMarker, ClearFailed, CommitAborts, PostFull
<1>8. CASE AcceptedFailed \/ RejectCandidate \/ CandidateFailed
  BY <1>8 DEF AcceptedFailed, RejectCandidate, CandidateFailed
\* The environment.
<1>9. CASE Crash \/ OperatorRepair \/ Enroll \/ Push \/ Drift \/ Tick \/ Calm
  BY <1>9 DEF Crash, OperatorRepair, Enroll, Push, Drift, Tick, Calm
<1> HIDE DEF
    SelectionInv, Fetched, Recovered, Retry, AlreadyRecovered, NewCommit,
    Recoveries, records, clone, host, locals, vars,
    Goto, Exit, Leave, Abort, ClearLocals, RecoveryFailed, PipelineFails
<1>. QED
  BY <1>1, <1>2, <1>3, <1>4, <1>5, <1>6, <1>7, <1>8, <1>9
  DEF Next, RunStep, Environment

\* Whatever a run works on was selected for it: the accepted revision without
\* a fetch, a fetched target otherwise, a suppressed one only on a retry.
THEOREM SelectionHolds == Spec => []SelectionInv
<1>1. SelectionInv /\ [Next]_vars => SelectionInv'
  BY SelectionStep, StutterSelection
<1>. QED BY <1>1, InitSelection, PTL DEF Spec

\* A revision recorded in failed-target is not applied again unless the operator
\* retries it: classify_target suppresses it, nothing between there and the
\* apply of a full run brings it back, and where checkouts do not fail every
\* recovery and boot restoration applies the accepted revision.
THEOREM SuppressionKept ==
  ASSUME NoStaleLock
  PROVE  Spec => []SuppressedNotRetried
<1>1. IInv /\ SelectionInv => SuppressedNotRetried
  <2> SUFFICES ASSUME IInv, SelectionInv, pc = "applying", head = failed
               PROVE  head = last \/ (job = "full" /\ Retry)
    BY DEF SuppressedNotRetried
  <2>1. CASE job = "full"
    BY <2>1 DEF SelectionInv
  <2>2. CASE job # "full"
    BY <2>2 DEF IInv, RecoveryInv
  <2>. QED BY <2>1, <2>2
<1>. QED BY <1>1, InvariantHolds, SelectionHolds, PTL

\* The steps that move last-successful-commit or failed-target; no other does.
Judges ==
  \/ Enroll \/ RecordInterrupted \/ RecoveryUnprepared \/ FinishRecovered
  \/ Commit \/ ClearFailed \/ CommitAborts \/ RejectCandidate

LEMMA OthersJudgeNothing ==
  ASSUME [Next]_vars, ~Judges
  PROVE  UNCHANGED <<last, failed>>
<1> USE DEF records, clone, host, locals, vars
<1>1. CASE \/ Start \/ RefuseDirty \/ SkipNetworkRestore
           \/ StartNetworkRestore \/ UnknownHost \/ RefuseUnenrolled
           \/ NormalStartup \/ StartRecovery \/ RenderInterrupted
           \/ CheckoutLast \/ ClearRecovered
  BY <1>1 DEF Start, RefuseDirty, SkipNetworkRestore, StartNetworkRestore,
              UnknownHost, RefuseUnenrolled, NormalStartup, StartRecovery,
              RenderInterrupted, CheckoutLast, ClearRecovered
<1>2. CASE \/ Fetch \/ Detect \/ AuditAborts \/ AuditFoundation \/ AuditClean
           \/ AuditDirty \/ PrepareAborts \/ PrepareAccepted
           \/ PrepareCandidate \/ RefuseNonFastForward \/ RefuseNoContext
  BY <1>2 DEF Fetch, Detect, AuditAborts, AuditFoundation, AuditClean,
              AuditDirty, PrepareAborts, PrepareAccepted, PrepareCandidate,
              RefuseNonFastForward, RefuseNoContext
<1>3. CASE \/ Preflight \/ PreflightFails \/ Mark \/ MarkFails \/ ApplyBegin
           \/ ApplyEnd \/ NetworkRestored \/ ApplyFails \/ ClearMarker
           \/ PostFull \/ AcceptedFailed \/ CandidateFailed
  BY <1>3 DEF Preflight, PreflightFails, Mark, MarkFails, ApplyBegin,
              ApplyEnd, NetworkRestored, ApplyFails, ClearMarker, PostFull,
              AcceptedFailed, CandidateFailed
<1>4. CASE \/ Crash \/ OperatorRepair \/ Push \/ Drift \/ Tick \/ Calm
           \/ UNCHANGED vars
  BY <1>4 DEF Crash, OperatorRepair, Push, Drift, Tick, Calm
<1> HIDE DEF records, clone, host, locals, vars
<1>. QED
  BY <1>1, <1>2, <1>3, <1>4 DEF Judges, Next, RunStep, Environment

\* A run that could not reach the remote accepts nothing new and neither blames
\* nor pardons a candidate: it may only repair the accepted revision.
THEOREM AuthorityKept == Spec => OfflineKeepsAuthority
<1>1. ASSUME SelectionInv, [Next]_vars, ~Fetched, target # None
      PROVE  last' = last /\ failed' = failed
  <2>1. target = last
    BY <1>1 DEF SelectionInv
  <2>2. CASE Enroll
    BY <1>1, <2>2 DEF Enroll, SelectionInv
  <2>3. CASE RecordInterrupted \/ RecoveryUnprepared
    \* The interrupted revision is the accepted one, which is never recorded.
    BY <1>1, <2>1, <2>3, NoneAssumption
    DEF RecordInterrupted, RecoveryUnprepared, SelectionInv, records
  <2>4. CASE FinishRecovered
    BY <1>1, <2>4 DEF FinishRecovered, AlreadyRecovered
  <2>5. CASE Commit \/ ClearFailed \/ CommitAborts
    \* failed-target is cleared for a new commit only, which was fetched.
    BY <1>1, <2>1, <2>5 DEF Commit, ClearFailed, CommitAborts, SelectionInv
  <2>6. CASE RejectCandidate
    BY <2>1, <2>6 DEF RejectCandidate
  <2>7. CASE ~Judges
    BY <1>1, <2>7, OthersJudgeNothing
  <2>. QED BY <2>2, <2>3, <2>4, <2>5, <2>6, <2>7 DEF Judges
<1>2. SelectionInv /\ [Next]_vars
        => [~Fetched /\ target # None => last' = last /\ failed' = failed]_vars
  BY <1>1
<1>. QED
  BY <1>2, SelectionHolds, PTL DEF Spec, OfflineKeepsAuthority
=============================================================================
