---------------------------- MODULE ApplyProofs ----------------------------
(* Theorems about Apply, for every set of files, kinds and desired states. *)
EXTENDS ApplyInvariant, TLAPS

\* A desired state gives some of the files a content.
LEMMA DesiredTyped ==
  ASSUME TypeOK, NEW j
  PROVE  /\ Desired(j) \in Manifests
         /\ Named(Desired(j)) = DOMAIN Desired(j)
         /\ Named(Desired(j)) \subseteq Files
         /\ \A f \in Named(Desired(j)) : Desired(j)[f] \in Contents
<1>1. Desired(j) \in Manifests
  BY DEF Desired, TypeOK
<1>2. \A m \in Manifests : m # Nothing /\ DOMAIN m \subseteq Files
                             /\ \A f \in DOMAIN m : m[f] \in Contents
  BY FilesAssumption
<1> QED  BY <1>1, <1>2 DEF Named

\* What is considered for removal is a file that the desired state leaves out.
LEMMA ConsideredTyped ==
  ASSUME TypeOK, NEW j
  PROVE  /\ Considered(j) \subseteq Files
         /\ Considered(j) \intersect Named(Desired(j)) = {}
<1>1. Source(j) \in Manifests \union {Nothing}
  BY DEF Source, TypeOK
<1>2. Named(Source(j)) \subseteq Files
  BY <1>1, FilesAssumption DEF Named
<1> QED  BY <1>2 DEF Considered

LEMMA InitIInv == Init => IInv
<1> SUFFICES ASSUME Init PROVE IInv
  OBVIOUS
<1>1. live \in [Files -> Contents \union {Absent, Foreign}]
  BY FilesAssumption DEF Init
<1>2. running \in [Files -> Contents \union {Absent, Foreign}]
  BY <1>1 DEF Init
<1>3. edits \in 0..MaxEdits
  BY FilesAssumption DEF Init
<1>4. loaded \in [Files -> Contents \union {Absent, Foreign}]
  BY <1>1 DEF Init, UnitFiles
<1>5. TypeOK
  BY <1>1, <1>2, <1>3, <1>4 DEF Init, TypeOK, Families
<1> QED  BY <1>5 DEF Init, IInv, InOrder, ListIsExact, FilesAreDone

LEMMA StepTypeOK == TypeOK /\ [Next]_vars => TypeOK'
<1> SUFFICES ASSUME TypeOK, [Next]_vars PROVE TypeOK'
  OBVIOUS
<1> USE FilesAssumption DEF TypeOK, Goto, Forget, runtime, revisions, history, locals,
                            watch, Families
<1>1. CASE Begin
  <2>1. Startable \subseteq {"candidate", "recovery", "reconcile"}
    BY DEF Startable
  <2>2. \A j : Matching(j) \subseteq Files
    BY ConsideredTyped DEF Matching
  <2> QED  BY <1>1, <2>1, <2>2 DEF Begin
<1>2. CASE Preflight
  BY <1>2 DEF Preflight
<1>3. CASE Deactivate
  BY <1>3 DEF Deactivate
<1>4. CASE Recheck
  BY <1>4 DEF Recheck
<1>5. CASE Remove
  BY <1>5 DEF Remove, RemoveFiles, ToRemove, Notice
<1>6. CASE Publish \/ PublishOne
  <2>1. \A S \in SUBSET ToPublish : PublishFiles(S) =>
          live' \in [Files -> Contents \union {Absent, Foreign}]
    BY DesiredTyped DEF PublishFiles, ToPublish
  <2>2. ToPublish \subseteq Files
    BY DEF ToPublish, Files_
  <2>3. CASE Publish
    BY <2>1, <2>2, <2>3 DEF Publish, Notice
  <2>4. CASE PublishOne
    BY <2>1, <2>2, <2>4 DEF PublishOne, Notice
  <2> QED  BY <1>6, <2>3, <2>4
<1>7. CASE Settle
  BY <1>7 DEF Settle
<1>8. CASE Activate
  BY <1>8 DEF Activate
<1>9. CASE Commit
  BY <1>9, DesiredTyped DEF Commit
<1>10. CASE Clear
  BY <1>10 DEF Clear
<1>11. CASE CheckFails
  BY <1>11 DEF CheckFails
<1>12. CASE Interrupt
  <2>1. \A S \in SUBSET ToRemove : RemoveFiles(S) =>
          live' \in [Files -> Contents \union {Absent, Foreign}]
    BY DEF RemoveFiles
  <2>2. \A S \in SUBSET ToPublish : PublishFiles(S) =>
          live' \in [Files -> Contents \union {Absent, Foreign}]
    BY DesiredTyped DEF PublishFiles, ToPublish
  <2> QED  BY <1>12, <2>1, <2>2 DEF Interrupt, Notice
<1>13. CASE PowerLoss
  <2>1. \A S \in SUBSET ToRemove : RemoveFiles(S) =>
          live' \in [Files -> Contents \union {Absent, Foreign}]
    BY DEF RemoveFiles
  <2>2. \A S \in SUBSET ToPublish : PublishFiles(S) =>
          live' \in [Files -> Contents \union {Absent, Foreign}]
    BY DesiredTyped DEF PublishFiles, ToPublish
  <2>3. live' \in [Files -> Contents \union {Absent, Foreign}]
    BY <1>13, <2>1, <2>2 DEF PowerLoss
  <2> QED  BY <1>13, <2>3 DEF PowerLoss, UnitFiles
<1>14. CASE Edit
  BY <1>14 DEF Edit, Notice
<1>15. CASE Unwatch
  BY <1>15 DEF Unwatch
<1>16. CASE Reload
  BY <1>16 DEF Reload
<1>17. CASE WatcherReload
  BY <1>17 DEF WatcherReload
<1>18. CASE UNCHANGED vars
  BY <1>18 DEF vars
<1> QED
  BY <1>1, <1>2, <1>3, <1>4, <1>5, <1>6, <1>7, <1>8, <1>9, <1>10, <1>11, <1>12,
     <1>13, <1>14, <1>15, <1>16, <1>17, <1>18 DEF Next, RunStep

\* The order of the families is kept by every step.
LEMMA StepInOrder == TypeOK /\ InOrder /\ [Next]_vars => InOrder'
<1> SUFFICES ASSUME TypeOK, InOrder, [Next]_vars PROVE InOrder'
  OBVIOUS
<1> USE DEF TypeOK, InOrder, Goto, Forget, runtime, revisions, history, locals, watch
<1>0. UNCHANGED <<revisions, job>> => Runs("dns")' = Runs("dns")
  BY DEF Runs, HasDns, Named, Desired
<1>1. CASE Begin \/ Preflight
  BY <1>1 DEF Begin, Preflight
<1>2. CASE Deactivate \/ Recheck \/ Remove \/ Publish \/ PublishOne
  BY <1>0, <1>2 DEF Deactivate, Recheck, Remove, Publish, PublishOne
<1>3. CASE Settle
  BY <1>0, <1>3 DEF Settle, Runs, Families
<1>4. CASE Activate \/ Reload \/ Unwatch
  BY <1>0, <1>4 DEF Activate, Reload, Unwatch
<1>5. CASE Commit
  BY <1>5 DEF Commit
<1>6. CASE Clear \/ CheckFails \/ Interrupt \/ PowerLoss
  BY <1>6 DEF Clear, CheckFails, Interrupt, PowerLoss
<1>7. CASE Edit \/ WatcherReload \/ UNCHANGED vars
  BY <1>0, <1>7 DEF Edit, WatcherReload, vars
<1> QED  BY <1>1, <1>2, <1>3, <1>4, <1>5, <1>6, <1>7 DEF Next, RunStep

\* A run that is over has nothing to account for.
LEMMA IdleIsDone == pc' \in {"idle", "clear"} => ListIsExact' /\ FilesAreDone'
BY DEF ListIsExact, FilesAreDone

\* While the run goes on it is about the same two desired states.
LEMMA SameJob ==
  ASSUME UNCHANGED <<revisions, job>>
  PROVE  /\ Desired(job)' = Desired(job) /\ Source(job)' = Source(job)
         /\ Named(Desired(job))' = Named(Desired(job))
         /\ Considered(job)' = Considered(job)
         /\ Runs("dns")' = Runs("dns")
BY DEF revisions, Desired, Source, Considered, Named, Runs, HasDns

\* Every file that is touched belongs to one family, and each family to one step.
LEMMA FamilyOf ==
  ASSUME NEW f \in Files
  PROVE  Family(f) \in Families
BY DEF Family, Families

LEMMA StepFiles == IInv /\ TypeOK' /\ [Next]_vars => ListIsExact' /\ FilesAreDone'
<1> SUFFICES ASSUME IInv, TypeOK', [Next]_vars
             PROVE  ListIsExact' /\ FilesAreDone'
  OBVIOUS
<1> USE DEF IInv, TypeOK, InOrder, Goto, Forget, runtime, revisions, history, locals,
            watch
<1>0. /\ Considered(job) \subseteq Files
      /\ Considered(job) \intersect Named(Desired(job)) = {}
      /\ Named(Desired(job)) \subseteq Files
  BY ConsideredTyped, DesiredTyped
<1>1. CASE Begin
  <2>1. /\ Considered(job') = Matching(job') \union Missing(job')
        /\ cleanup' = Matching(job') /\ pc' = "preflight" /\ family' = "network"
        /\ UNCHANGED <<accepted, candidate, live>>
    BY <1>1 DEF Begin, Blocked, Matching, Missing
  <2>2. /\ Considered(job)' = Considered(job') /\ Source(job)' = Source(job')
    BY <2>1 DEF Considered, Named, Source, Desired
  <2>3. ListIsExact'
    BY <2>1, <2>2 DEF ListIsExact, Matching, Missing
  <2>4. Cleaned' = {} /\ Placed' = {}
    BY <2>1 DEF Cleaned, Placed, Passed
  <2> QED  BY <2>1, <2>3, <2>4 DEF FilesAreDone
<1>2. CASE Preflight
  <2>1. /\ UNCHANGED <<accepted, candidate, live, job, cleanup, edited>>
        /\ pc = "preflight" /\ pc' = "recheck" /\ family' = "network" /\ Exact
    BY <1>2 DEF Preflight
  <2>2. Cleaned' = {} /\ Placed' = {} /\ Exact'
    BY <2>1 DEF Cleaned, Placed, Passed, Exact
  <2> QED  BY <2>1, <2>2, SameJob DEF ListIsExact, FilesAreDone
<1>3. CASE Deactivate \/ Unwatch
  <2>1. /\ UNCHANGED <<accepted, candidate, live, job, cleanup, edited, family>>
        /\ pc \in {"deactivate", "unwatch"} /\ pc' = "recheck"
    BY <1>3 DEF Deactivate, Unwatch
  <2>2. Cleaned' = Cleaned /\ Placed' = Placed /\ Exact' = Exact
    BY <2>1 DEF Cleaned, Placed, Passed, Exact
  <2> QED  BY <2>1, <2>2, SameJob DEF ListIsExact, FilesAreDone
<1>4. CASE Recheck
  <2>0. Runs(family)
    BY <1>4 DEF Recheck, Runs
  <2>1. /\ UNCHANGED <<accepted, candidate, live, job, cleanup, family>>
        /\ pc = "recheck" /\ pc' = "remove" /\ Verified(family)
        /\ edited' = edited \ (cleanup \intersect Files_(family))
    BY <1>4 DEF Recheck
  <2>2. Cleaned' = Cleaned /\ Placed' = Placed /\ Exact' = Exact
        /\ family \notin Cleaned
    BY <2>1 DEF Cleaned, Placed, Passed, Exact
  <2>3. \A f \in cleanup \intersect Files_(family) : live[f] = Source(job)[f]
    BY <2>1, <2>0 DEF Verified
  <2>4. ListIsExact'
    BY <2>1, <2>2, SameJob DEF ListIsExact
  <2>5. cleanup \intersect Named(Desired(job)) = {}
    BY <1>0, <2>1 DEF ListIsExact
  <2>6. \A f \in cleanup \ edited' : Family(f) \in Cleaned => live[f] = Absent
    BY <2>1, <2>2 DEF FilesAreDone, Files_
  <2>7. \A f \in Named(Desired(job)) \ edited' :
          Family(f) \in Placed => live[f] = Desired(job)[f]
    BY <2>1, <2>5 DEF FilesAreDone
  <2>8. \A f \in (cleanup \ edited') \intersect Files_(family) :
          live[f] = Source(job)[f]
    BY <2>3
  <2>9. Files_(family)' = Files_(family)
    BY <2>1 DEF Files_
  <2> QED  BY <2>1, <2>2, <2>4, <2>6, <2>7, <2>8, <2>9, SameJob DEF FilesAreDone
<1>5. CASE Remove
  <2>1. /\ UNCHANGED <<accepted, candidate, job, cleanup, edited, family>>
        /\ pc = "remove" /\ pc' = "publish"
        /\ live' = [f \in Files |-> IF f \in ToRemove THEN Absent ELSE live[f]]
    BY <1>5 DEF Remove, RemoveFiles
  <2>2. /\ Cleaned' = Cleaned \union {family} /\ Placed' = Placed
        /\ Exact' = Exact
    BY <2>1 DEF Cleaned, Placed, Passed, Exact
  <2>3. ToRemove = cleanup \intersect Files_(family)
    BY <2>1 DEF ToRemove, ListIsExact, Exact
  <2>4. cleanup \intersect Named(Desired(job)) = {}
    BY <1>0, <2>1 DEF ListIsExact
  <2>5. ListIsExact'
    BY <1>0, <2>1, <2>2, SameJob DEF ListIsExact
  <2>6. \A f \in cleanup \ edited : Family(f) \in Cleaned' => live'[f] = Absent
    BY <2>1, <2>2, <2>3 DEF FilesAreDone, Files_
  <2>7. \A f \in Named(Desired(job)) \ edited :
          Family(f) \in Placed => live'[f] = Desired(job)[f]
    BY <1>0, <2>1, <2>3, <2>4 DEF FilesAreDone
  <2> QED  BY <2>1, <2>2, <2>5, <2>6, <2>7, SameJob DEF FilesAreDone
<1>6. CASE Publish
  <2>1. /\ UNCHANGED <<accepted, candidate, job, cleanup, edited, family>>
        /\ pc = "publish" /\ pc' = "settle"
        /\ live' = [f \in Files |-> IF f \in ToPublish THEN Desired(job)[f]
                                    ELSE live[f]]
    BY <1>6 DEF Publish, PublishFiles
  <2>2. /\ Cleaned' = Cleaned /\ Placed' = Placed \union {family}
        /\ Exact' = Exact
    BY <2>1 DEF Cleaned, Placed, Passed, Exact
  <2>3. \A f \in Considered(job) : live'[f] = live[f]
    BY <1>0, <2>1 DEF ToPublish
  <2>4. ListIsExact'
    BY <2>1, <2>2, <2>3, SameJob DEF ListIsExact
  <2>5. \A f \in cleanup \ edited : Family(f) \in Cleaned => live'[f] = Absent
    BY <2>1, <2>3 DEF FilesAreDone, ListIsExact
  <2>6. \A f \in Named(Desired(job)) \ edited :
          Family(f) \in Placed' => live'[f] = Desired(job)[f]
    BY <1>0, <2>1, <2>2 DEF FilesAreDone, ToPublish, Files_
  <2> QED  BY <2>1, <2>2, <2>4, <2>5, <2>6, SameJob DEF FilesAreDone
<1>7. CASE Settle
  <2>1. /\ UNCHANGED <<accepted, candidate, job, cleanup, edited, live>>
        /\ pc = "settle" /\ pc' \in {"deactivate", "recheck", "unwatch", "activate"}
    BY <1>7 DEF Settle
  <2>2. Cleaned' = Cleaned /\ Placed' = Placed
    BY <1>7 DEF Settle, Cleaned, Placed, Passed, Families
  <2>3. Exact' = Exact
    BY <2>1 DEF Exact
  <2> QED  BY <2>1, <2>2, <2>3, SameJob DEF ListIsExact, FilesAreDone
<1>8. CASE Activate \/ Reload
  <2>1. /\ UNCHANGED <<accepted, candidate, job, cleanup, edited, live, family>>
        /\ pc \in {"activate", "reload"} /\ pc' \in {"reload", "commit"}
    BY <1>8 DEF Activate, Reload
  <2>2. Cleaned' = Cleaned /\ Placed' = Placed /\ Exact' = Exact
    BY <2>1 DEF Cleaned, Placed, Passed, Exact
  <2> QED  BY <2>1, <2>2, SameJob DEF ListIsExact, FilesAreDone
<1>9. CASE Commit
  BY <1>9, IdleIsDone DEF Commit
<1>10. CASE Clear \/ CheckFails \/ Interrupt \/ PowerLoss
  BY <1>10, IdleIsDone DEF Clear, CheckFails, Interrupt, PowerLoss
<1>11. CASE Edit
  <2>1. PICK e \in Files : \E c \in {Absent, Foreign} :
          live' = [live EXCEPT ![e] = c] /\ edited' = edited \union {e}
    BY <1>11 DEF Edit
  <2>2. UNCHANGED <<accepted, candidate, job, cleanup, pc, family>>
    BY <1>11 DEF Edit
  <2>3. \A f \in Files \ edited' : live'[f] = live[f] /\ f \notin edited
    BY <2>1
  <2>4. Cleaned' = Cleaned /\ Placed' = Placed /\ Exact' = Exact
        /\ Files_(family)' = Files_(family)
    BY <2>2 DEF Cleaned, Placed, Passed, Exact, Files_
  <2>5. ListIsExact'
    BY <1>0, <2>2, <2>3, <2>4, SameJob DEF ListIsExact
  <2>6. FilesAreDone'
    BY <1>0, <2>2, <2>3, <2>4, SameJob DEF FilesAreDone
  <2> QED  BY <2>5, <2>6
<1>12. CASE WatcherReload \/ UNCHANGED vars
  <2>1. UNCHANGED <<accepted, candidate, job, cleanup, pc, family, live, edited>>
    BY <1>12 DEF WatcherReload, vars
  <2>2. Cleaned' = Cleaned /\ Placed' = Placed /\ Exact' = Exact
        /\ Files_(family)' = Files_(family)
    BY <2>1 DEF Cleaned, Placed, Passed, Exact, Files_
  <2> QED  BY <2>1, <2>2, SameJob DEF ListIsExact, FilesAreDone
<1>13. CASE PublishOne
  <2>1. PICK e \in ToPublish :
          live' = [f \in Files |-> IF f \in {e} THEN Desired(job)[f] ELSE live[f]]
    BY <1>13 DEF PublishOne, PublishFiles
  <2>2. /\ UNCHANGED <<accepted, candidate, job, cleanup, edited, family, pc>>
        /\ pc = "publish"
    BY <1>13 DEF PublishOne
  <2>3. Cleaned' = Cleaned /\ Placed' = Placed /\ Exact' = Exact
    BY <2>2 DEF Cleaned, Placed, Passed, Exact
  <2>4. \A f \in Considered(job) : live'[f] = live[f]
    BY <1>0, <2>1 DEF ToPublish
  <2>5. ListIsExact'
    BY <2>2, <2>3, <2>4, SameJob DEF ListIsExact
  <2>6. \A f \in cleanup \ edited : Family(f) \in Cleaned => live'[f] = Absent
    BY <2>2, <2>4 DEF FilesAreDone, ListIsExact
  <2>7. \A f \in Named(Desired(job)) \ edited :
          Family(f) \in Placed => live'[f] = Desired(job)[f]
    BY <1>0, <2>1, <2>2 DEF FilesAreDone
  <2> QED  BY <2>2, <2>3, <2>5, <2>6, <2>7, SameJob DEF FilesAreDone
<1> QED
  BY <1>1, <1>2, <1>3, <1>4, <1>5, <1>6, <1>7, <1>8, <1>9, <1>10, <1>11, <1>12, <1>13
     DEF Next, RunStep

LEMMA StepIInv == IInv /\ [Next]_vars => IInv'
BY StepTypeOK, StepInOrder, StepFiles DEF IInv

\* The inductive invariant of the apply holds, for any files and desired states.
THEOREM ApplyInvariantHolds == Spec => []IInv
<1>1. Init => IInv
  BY InitIInv
<1>2. IInv /\ [Next]_vars => IInv'
  BY StepIInv
<1> QED  BY <1>1, <1>2, PTL DEF Spec

\* What a run commits to is what is on the host, whatever was edited before it
\* and however its predecessors ended.
THEOREM CommitsAreDesired == Spec => []CommittedIsDesired
<1>1. IInv => CommittedIsDesired
  <2> SUFFICES ASSUME IInv, pc = "commit"
               PROVE  /\ \A f \in Named(Desired(job)) \ edited :
                           live[f] = Desired(job)[f]
                      /\ \A f \in Considered(job) \ edited :
                           Runs(Family(f)) => live[f] = Absent
    BY DEF CommittedIsDesired
  <2>1. Named(Desired(job)) \subseteq Files /\ Considered(job) \subseteq Files
    BY ConsideredTyped, DesiredTyped DEF IInv
  <2>2. \A f \in Files : Runs(Family(f)) => Family(f) \in Cleaned /\ Family(f) \in Placed
    BY FamilyOf DEF IInv, InOrder, Cleaned, Placed, Passed, Families
  <2>3. \A f \in Named(Desired(job)) : Runs(Family(f))
    BY DEF Runs, HasDns
  <2> QED  BY <2>1, <2>2, <2>3 DEF IInv, ListIsExact, FilesAreDone
<1>2. Spec => []IInv
  BY ApplyInvariantHolds
<1> QED  BY <1>1, <1>2, PTL

\* No run deletes what the operator has made of a file, but in the window between
\* its last look and the removal.
THEOREM RemovalsAreVerified == Spec => RemovedWasVerified
<1>1. IInv /\ [Next]_vars =>
        [\A f \in Files :
           pc = "remove" /\ live[f] # Absent /\ live'[f] = Absent /\ edits' = edits
             => f \in edited \/ live[f] = Source(job)[f]]_vars
  <2> SUFFICES ASSUME IInv, [Next]_vars, NEW f \in Files, pc = "remove",
                      live[f] # Absent, live'[f] = Absent, edits' = edits
               PROVE  f \in edited \/ live[f] = Source(job)[f]
    OBVIOUS
  <2>1. ~Edit
    BY FilesAssumption DEF Edit, IInv, TypeOK
  <2>2. ~(Begin \/ Preflight \/ Deactivate \/ Unwatch \/ Recheck \/ Publish \/ PublishOne)
    BY DEF Begin, Preflight, Deactivate, Unwatch, Recheck, Publish, PublishOne
  <2>3. ~(Settle \/ Activate \/ Reload \/ Commit \/ Clear \/ CheckFails \/ WatcherReload
          \/ UNCHANGED vars)
    BY DEF Settle, Activate, Reload, Commit, Clear, CheckFails, WatcherReload, vars
  <2>4. Remove \/ Interrupt \/ PowerLoss
    BY <2>1, <2>2, <2>3 DEF Next, RunStep
  <2>5. f \in ToRemove
    BY <2>4 DEF Remove, Interrupt, PowerLoss, RemoveFiles
  <2> QED  BY <2>5 DEF IInv, FilesAreDone, ToRemove
<1> QED  BY <1>1, ApplyInvariantHolds, PTL DEF Spec, RemovedWasVerified

\* Nothing on the host changes under a run without the durable marker.
THEOREM ChangesMarked == Spec => ChangesAreMarked
<1>1. IInv /\ [Next]_vars => [live' # live /\ edits' = edits => pending # "none"]_vars
  <2> SUFFICES ASSUME IInv, [Next]_vars, live' # live, edits' = edits
               PROVE  pending # "none"
    OBVIOUS
  <2>1. ~Edit
    BY FilesAssumption DEF Edit, IInv, TypeOK
  <2>2. ~(Begin \/ Preflight \/ Deactivate \/ Unwatch \/ Recheck \/ Settle)
    BY DEF Begin, Preflight, Deactivate, Unwatch, Recheck, Settle
  <2>3. ~(Activate \/ Reload \/ Commit \/ Clear \/ CheckFails \/ WatcherReload
          \/ UNCHANGED vars)
    BY DEF Activate, Reload, Commit, Clear, CheckFails, WatcherReload, vars
  <2>4. Remove \/ Publish \/ PublishOne \/ Interrupt \/ PowerLoss
    BY <2>1, <2>2, <2>3 DEF Next, RunStep
  <2>5. pc \in {"remove", "publish"}
    BY <2>4 DEF Remove, Publish, PublishOne, Interrupt, PowerLoss
  <2> QED  BY <2>5 DEF IInv, InOrder
<1> QED  BY <1>1, ApplyInvariantHolds, PTL DEF Spec, ChangesAreMarked

\* What a run does to the files before or in the CoreDNS family wakes the watcher
\* only if it is active, which it then is not.
LEMMA StepUnprovoked == IInv /\ Unprovoked /\ [Next]_vars => Unprovoked'
<1> SUFFICES ASSUME IInv, Unprovoked, [Next]_vars, edits' = 0 PROVE Unprovoked'
  BY DEF Unprovoked
<1> USE DEF IInv, TypeOK, InOrder, Goto, Forget, runtime, revisions, history, locals,
            watch
<1>1. edits = 0 /\ ~Edit
  BY FilesAssumption DEF Edit, Next, RunStep, Begin, Preflight, Deactivate, Unwatch,
     Recheck, Remove, Publish, PublishOne, Settle, Activate, Reload, Commit, Clear,
     CheckFails, Interrupt, PowerLoss, WatcherReload, vars
<1>2. ~woken
  BY <1>1 DEF Unprovoked
<1>3. ASSUME pc = "remove", NEW S \in SUBSET ToRemove, RemoveFiles(S), Notice
      PROVE  ~woken'
  <2>1. CASE family = "dns" /\ watcher = "active"
    <3>1. S = {}
      BY <1>1, <1>3, <2>1 DEF Unprovoked, ToRemove
    <3> QED  BY <1>2, <1>3, <3>1 DEF RemoveFiles, Notice, Zones
  <2>2. CASE family # "dns"
    <3>1. S \intersect Zones = {}
      BY <1>3, <2>2 DEF ToRemove, Files_, Zones, Family
    <3> QED  BY <1>2, <1>3, <3>1 DEF RemoveFiles, Notice, Zones
  <2>3. CASE watcher # "active"
    BY <1>2, <1>3, <2>3 DEF Notice
  <2> QED  BY <2>1, <2>2, <2>3
<1>4. ASSUME pc = "publish", NEW S \in SUBSET ToPublish, PublishFiles(S), Notice
      PROVE  ~woken'
  <2>1. CASE family = "dns" /\ watcher = "active"
    BY <1>1, <1>2, <1>4, <2>1 DEF Unprovoked, PublishFiles, Notice, Zones
  <2>2. CASE family # "dns"
    <3>1. S \intersect Zones = {}
      BY <1>4, <2>2 DEF ToPublish, Files_, Zones, Family
    <3> QED  BY <1>2, <1>4, <3>1 DEF PublishFiles, Notice, Zones
  <2>3. CASE watcher # "active"
    BY <1>2, <1>4, <2>3 DEF Notice
  <2> QED  BY <2>1, <2>2, <2>3
<1>5. CASE Begin \/ Preflight \/ Deactivate \/ Settle \/ Activate \/ Reload
  BY <1>2, <1>5 DEF Begin, Preflight, Deactivate, Settle, Activate, Reload, Unprovoked
<1>6. CASE Commit \/ Clear \/ CheckFails
  BY <1>2, <1>6 DEF Commit, Clear, CheckFails, Unprovoked
<1>7. CASE Unwatch
  <2>1. ToPublish' = ToPublish /\ Desired(job)' = Desired(job)
    BY <1>7, SameJob DEF Unwatch, ToPublish, Files_
  <2> QED  BY <1>2, <1>7, <2>1 DEF Unwatch, Unprovoked
<1>8. CASE Recheck \/ WatcherReload \/ UNCHANGED vars
  <2>1. /\ UNCHANGED <<accepted, candidate, job, live, cleanup, watcher, family>>
        /\ ~woken'
        /\ pc' \in {"recheck", "remove", "publish"} /\ family = "dns" =>
             pc \in {"recheck", "remove", "publish"}
    BY <1>2, <1>8 DEF Recheck, WatcherReload, vars
  <2>2. ToPublish' = ToPublish /\ Desired(job)' = Desired(job)
    BY <2>1, SameJob DEF ToPublish, Files_
  <2> QED  BY <1>1, <2>1, <2>2 DEF Unprovoked
<1>9. CASE Remove
  <2>1. /\ UNCHANGED <<accepted, candidate, job, cleanup, watcher, family>>
        /\ pc = "remove" /\ RemoveFiles(ToRemove) /\ Notice
    BY <1>9 DEF Remove, Notice
  <2>2. ToPublish' = ToPublish /\ Desired(job)' = Desired(job)
    BY <2>1, SameJob DEF ToPublish, Files_
  <2>3. ~woken'
    BY <1>3, <2>1
  <2>4. family = "dns" /\ watcher = "active" => live' = live
    BY <1>1, <2>1 DEF Unprovoked, RemoveFiles, ToRemove
  <2> QED  BY <1>1, <2>1, <2>2, <2>3, <2>4 DEF Unprovoked
<1>10. CASE Publish
  BY <1>4, <1>10 DEF Publish, Unprovoked
<1>11. CASE PublishOne
  <2>1. PICK f \in ToPublish : live[f] # Desired(job)[f] /\ PublishFiles({f})
    BY <1>11 DEF PublishOne
  <2>2. pc = "publish" /\ family = "dns" /\ Notice
    BY <1>11 DEF PublishOne
  <2>3. watcher # "active"
    BY <1>1, <2>1, <2>2 DEF Unprovoked
  <2>4. ~woken'
    BY <1>4, <2>1, <2>2
  <2> QED  BY <2>2, <2>3, <2>4 DEF Unprovoked, Notice
<1>12. CASE Interrupt
  <2>1. pc' = "idle" /\ Notice
    BY <1>12 DEF Interrupt
  <2>2. ~woken'
    <3>1. CASE UNCHANGED live
      BY <1>2, <2>1, <3>1 DEF Notice
    <3>2. CASE ~(UNCHANGED live)
      BY <1>3, <1>4, <1>12, <2>1, <3>2 DEF Interrupt
    <3> QED  BY <3>1, <3>2
  <2> QED  BY <2>1, <2>2 DEF Unprovoked
<1>13. CASE PowerLoss
  BY <1>13 DEF PowerLoss, Unprovoked
<1> QED
  BY <1>1, <1>5, <1>6, <1>7, <1>8, <1>9, <1>10, <1>11, <1>12, <1>13 DEF Next, RunStep

\* CoreDNS never loads part of a batch, whatever the zones are and wherever runs
\* before were cut off, as long as the operator edits nothing.
THEOREM BatchIsLoadedWhole == Spec => NoReloadAmidBatch
<1>1. Init => Unprovoked
  BY DEF Init, Unprovoked
<1>2. IInv /\ Unprovoked /\ [Next]_vars =>
        [family = "dns" /\ pc \in {"remove", "publish"} /\ pc' = pc /\ edits = 0
           => running' = running]_vars
  <2> SUFFICES ASSUME IInv, Unprovoked, [Next]_vars, family = "dns",
                      pc \in {"remove", "publish"}, pc' = pc, edits = 0
               PROVE  running' = running
    OBVIOUS
  <2>1. ~WatcherReload
    BY DEF Unprovoked, WatcherReload
  <2>2. CASE PublishOne \/ Edit \/ UNCHANGED vars
    BY <2>2 DEF PublishOne, Edit, vars, runtime
  <2>3. ~(Begin \/ Preflight \/ Deactivate \/ Unwatch \/ Recheck \/ Remove \/ Publish)
    BY DEF Begin, Preflight, Deactivate, Unwatch, Recheck, Remove, Publish, Goto
  <2>4. ~(Settle \/ Activate \/ Reload \/ Commit \/ Clear \/ CheckFails \/ Interrupt
          \/ PowerLoss)
    BY DEF Settle, Activate, Reload, Commit, Clear, CheckFails, Interrupt, PowerLoss,
           Forget, Goto
  <2> QED  BY <2>1, <2>2, <2>3, <2>4 DEF Next, RunStep
<1> QED
  BY <1>1, <1>2, StepUnprovoked, ApplyInvariantHolds, PTL DEF Spec, NoReloadAmidBatch

-----------------------------------------------------------------------------
(* The promise of AcceptedHost. *)

\* Whatever a step does to a file, it leaves it, takes it away, spoils it, or
\* publishes what is desired.
LEMMA LiveStep ==
  ASSUME TypeOK, [Next]_vars, NEW f \in Files
  PROVE  \/ live'[f] = live[f] \/ live'[f] \notin Contents
         \/ /\ pc = "publish" /\ f \in Named(Desired(job))
            /\ live'[f] = Desired(job)[f]
<1> USE FilesAssumption DEF TypeOK
<1>1. \A S \in SUBSET ToRemove : RemoveFiles(S) =>
        live'[f] = live[f] \/ live'[f] = Absent
  BY DEF RemoveFiles
<1>2. \A S \in SUBSET ToPublish : PublishFiles(S) =>
        \/ live'[f] = live[f]
        \/ f \in Named(Desired(job)) /\ live'[f] = Desired(job)[f]
  BY DEF PublishFiles, ToPublish
<1>3. CASE Begin \/ Preflight \/ Deactivate \/ Unwatch \/ Recheck \/ Settle
  BY <1>3 DEF Begin, Preflight, Deactivate, Unwatch, Recheck, Settle
<1>4. CASE Activate \/ Reload \/ Commit \/ Clear \/ CheckFails \/ WatcherReload
           \/ UNCHANGED vars
  BY <1>4 DEF Activate, Reload, Commit, Clear, CheckFails, WatcherReload, vars
<1>5. CASE Remove
  BY <1>1, <1>5 DEF Remove
<1>6. CASE Publish \/ PublishOne
  <2>1. PICK S \in SUBSET ToPublish : PublishFiles(S)
    BY <1>6 DEF Publish, PublishOne
  <2> QED  BY <1>2, <1>6, <2>1 DEF Publish, PublishOne
<1>7. CASE Interrupt
  BY <1>1, <1>2, <1>7 DEF Interrupt
<1>8. CASE PowerLoss
  BY <1>1, <1>2, <1>8 DEF PowerLoss
<1>9. CASE Edit
  BY <1>9 DEF Edit
<1> QED
  BY <1>3, <1>4, <1>5, <1>6, <1>7, <1>8, <1>9 DEF Next, RunStep

\* A run that goes on works towards the same state, and what is edited under it is
\* spoilt.
LEMMA RunGoesOn ==
  ASSUME TypeOK, [Next]_vars, pc' \notin {"idle", "clear"}, ~Begin
  PROVE  /\ pc \notin {"idle", "clear"} /\ UNCHANGED <<revisions, job>>
         /\ \A f \in edited' : f \in edited \/ live'[f] \notin Contents
<1> USE FilesAssumption DEF TypeOK, Goto, Forget, revisions, locals, history
<1>1. CASE Preflight \/ Deactivate \/ Unwatch \/ Recheck \/ Settle
  BY <1>1 DEF Preflight, Deactivate, Unwatch, Recheck, Settle
<1>2. CASE Remove \/ Publish \/ PublishOne \/ Activate \/ Reload
  BY <1>2 DEF Remove, Publish, PublishOne, Activate, Reload
<1>3. CASE Commit \/ Clear \/ CheckFails \/ Interrupt \/ PowerLoss
  BY <1>3 DEF Commit, Clear, CheckFails, Interrupt, PowerLoss
<1>4. CASE Edit \/ WatcherReload \/ UNCHANGED vars
  BY <1>4 DEF Edit, WatcherReload, vars
<1> QED  BY <1>1, <1>2, <1>3, <1>4 DEF Next, RunStep

LEMMA StepEditsAreKnown ==
  ASSUME TypeOK, EditsAreKnown, [Next]_vars
  PROVE  EditsAreKnown'
<1> SUFFICES ASSUME pc' \notin {"idle", "clear"}, NEW f \in edited',
                    live'[f] \in Contents
             PROVE  (f \in Named(Desired(job)) /\ live[f] = Desired(job)[f])'
  BY DEF EditsAreKnown
<1>1. ~Begin
  BY DEF Begin
<1>2. /\ pc \notin {"idle", "clear"} /\ f \in edited
      /\ UNCHANGED <<revisions, job>>
  BY <1>1, RunGoesOn
<1>3. Named(Desired(job))' = Named(Desired(job)) /\ Desired(job)' = Desired(job)
  BY <1>2, SameJob
<1>4. f \in Files
  BY <1>2 DEF TypeOK
<1> QED  BY <1>2, <1>3, <1>4, LiveStep DEF EditsAreKnown

LEMMA StepJobIsMarked ==
  ASSUME TypeOK, JobIsMarked, [Next]_vars
  PROVE  JobIsMarked'
<1> USE DEF TypeOK, JobIsMarked, Goto, Forget, revisions, locals, Desired
<1>1. CASE Begin
  <2>1. PICK j \in Startable : job' = j
    BY <1>1 DEF Begin
  <2>2. /\ UNCHANGED <<accepted, candidate, pending>> /\ pc' = "preflight"
    BY <1>1 DEF Begin
  <2>3. /\ j = "candidate" => pending = "none"
        /\ j = "recovery" => pending = "candidate"
        /\ j = "reconcile" => pending # "candidate" \/ accepted = candidate
        /\ j # "none"
    BY <2>1 DEF Startable
  <2> QED  BY <2>1, <2>2, <2>3
<1>2. CASE Preflight
  BY <1>2 DEF Preflight
<1>3. CASE Deactivate \/ Unwatch \/ Recheck \/ Settle
  BY <1>3 DEF Deactivate, Unwatch, Recheck, Settle
<1>4. CASE Remove \/ Publish \/ PublishOne \/ Activate \/ Reload
  BY <1>4 DEF Remove, Publish, PublishOne, Activate, Reload
<1>5. CASE Commit
  BY <1>5 DEF Commit
<1>6. CASE Clear \/ CheckFails \/ Interrupt \/ PowerLoss
  BY <1>6 DEF Clear, CheckFails, Interrupt, PowerLoss
<1>7. CASE Edit \/ WatcherReload \/ UNCHANGED vars
  BY <1>7 DEF Edit, WatcherReload, vars
<1> QED  BY <1>1, <1>2, <1>3, <1>4, <1>5, <1>6, <1>7 DEF Next, RunStep

\* Traces only vanish, unless their own revision is published.
LEMMA NoNewTraces ==
  ASSUME TypeOK, UNCHANGED revisions
  PROVE  /\ ( /\ ~Trace(candidate, accepted)
              /\ \A f \in DOMAIN candidate :
                   \/ live'[f] = live[f] \/ live'[f] \notin Contents
                   \/ f \in DOMAIN accepted /\ live'[f] = accepted[f] )
            => ~Trace(candidate, accepted)'
         /\ ( /\ ~Trace(accepted, candidate)
              /\ \A f \in DOMAIN accepted :
                   \/ live'[f] = live[f] \/ live'[f] \notin Contents
                   \/ f \in DOMAIN candidate /\ live'[f] = candidate[f] )
            => ~Trace(accepted, candidate)'
<1>1. \A m \in Manifests : \A f \in DOMAIN m : m[f] \in Contents
  BY FilesAssumption
<1> QED  BY <1>1 DEF Trace, TypeOK, revisions, HasDns, Named

\* A run that comes to its end has left nothing of the revision it replaces.
LEMMA CommitLeavesNothing ==
  ASSUME IInv, RecordInv, pc = "reload"
  PROVE  IF Desired(job) = accepted THEN ~Trace(candidate, accepted)
                                    ELSE ~Trace(accepted, candidate)
<1> USE DEF IInv, RecordInv, TypeOK
<1>1. accepted = candidate => ~Trace(accepted, candidate) /\ ~Trace(candidate, accepted)
  BY DEF Trace
<1>2. CASE job = "reconcile"
  BY <1>1, <1>2 DEF JobIsMarked, TracesAreMarked, Desired
<1>3. ASSUME NEW m \in Manifests, Source(job) = m, NEW f \in DOMAIN m,
             Kind[f] # "residue", live[f] = m[f],
             Kind[f] = "zone" => HasDns(Desired(job))
      PROVE  f \in DOMAIN Desired(job) /\ Desired(job)[f] = m[f]
  <2>1. /\ m[f] \in Contents /\ f \in Files /\ live[f] # Absent
        /\ Named(Source(job)) = DOMAIN m
    BY <1>3, FilesAssumption DEF Named
  <2>2. Named(Desired(job)) = DOMAIN Desired(job)
    BY DesiredTyped
  <2>3. f \notin edited /\ f \notin Named(Desired(job)) => f \in Considered(job) \intersect cleanup
    BY <1>3, <2>1 DEF Considered, ListIsExact
  <2>4. \A g \in Files : Runs(Family(g)) => Family(g) \in Cleaned /\ Family(g) \in Placed
    BY FamilyOf DEF InOrder, Cleaned, Placed, Passed, Families
  <2>5. CASE f \in Named(Desired(job))
    <3>1. Runs(Family(f))
      BY <2>5 DEF Runs, HasDns
    <3>2. f \notin edited => live[f] = Desired(job)[f]
      BY <2>1, <2>4, <2>5, <3>1 DEF FilesAreDone
    <3>3. f \in edited => live[f] = Desired(job)[f]
      BY <1>3, <2>1 DEF EditsAreKnown
    <3> QED  BY <1>3, <2>2, <2>5, <3>2, <3>3
  <2>6. CASE f \notin Named(Desired(job))
    <3>1. f \notin edited
      BY <1>3, <2>1, <2>6 DEF EditsAreKnown
    <3>2. f \in cleanup /\ Removable(f)
      BY <2>3, <2>6, <3>1 DEF ListIsExact, Exact
    <3>3. Runs(Family(f))
      BY <1>3, <2>1, <3>2, FilesAssumption DEF Runs, Family, Removable, Kinds
    <3>4. live[f] = Absent
      BY <2>1, <2>4, <3>1, <3>2, <3>3 DEF FilesAreDone
    <3> QED  BY <2>1, <3>4
  <2> QED  BY <2>5, <2>6
<1>4. CASE job = "candidate"
  <2>1. Source(job) = accepted /\ Desired(job) = candidate
    BY <1>4 DEF Source, Desired
  <2> QED  BY <1>1, <1>3, <2>1 DEF Trace
<1>5. CASE job = "recovery"
  <2>1. Source(job) = candidate /\ Desired(job) = accepted
    BY <1>5 DEF Source, Desired
  <2> QED  BY <1>3, <2>1 DEF Trace
<1> QED  BY <1>2, <1>4, <1>5 DEF JobIsMarked

LEMMA StepTracesAreMarked ==
  ASSUME IInv, RecordInv, [Next]_vars, JobIsMarked'
  PROVE  TracesAreMarked'
<1> USE DEF IInv, RecordInv, TypeOK, Goto, Forget, revisions, locals
<1>0. /\ DOMAIN accepted \subseteq Files /\ DOMAIN candidate \subseteq Files
      /\ Named(accepted) = DOMAIN accepted /\ Named(candidate) = DOMAIN candidate
  BY FilesAssumption DEF Named
<1>1. ASSUME UNCHANGED <<accepted, candidate, job, pc>>, pending' = pending
      PROVE  TracesAreMarked'
  <2>1. pc = "publish" /\ pending # "candidate" => Desired(job) = accepted
    BY DEF JobIsMarked, Desired
  <2>2. pending # "candidate" => ~Trace(candidate, accepted)'
    BY <1>0, <1>1, <2>1, LiveStep, NoNewTraces DEF TracesAreMarked
  <2>3. pc \in {"commit", "clear"} =>
          /\ ~Trace(candidate, accepted) => ~Trace(candidate, accepted)'
          /\ ~Trace(accepted, candidate) => ~Trace(accepted, candidate)'
    BY <1>0, <1>1, LiveStep, NoNewTraces
  <2>4. Desired(job)' = Desired(job)
    BY <1>1 DEF Desired
  <2> QED  BY <1>1, <2>2, <2>3, <2>4 DEF TracesAreMarked
<1>2. ASSUME UNCHANGED <<accepted, candidate, pending>>, pc' \notin {"commit", "clear"}
      PROVE  TracesAreMarked'
  <2>1. pc = "publish" /\ pending # "candidate" => Desired(job) = accepted
    BY DEF JobIsMarked, Desired
  <2>2. pending # "candidate" => ~Trace(candidate, accepted)'
    BY <1>0, <1>2, <2>1, LiveStep, NoNewTraces DEF TracesAreMarked
  <2> QED  BY <1>2, <2>2 DEF TracesAreMarked
<1>3. CASE Preflight
  <2>1. /\ UNCHANGED <<accepted, candidate, live>> /\ pc' = "recheck"
        /\ pending' # "candidate" => pending # "candidate"
    BY <1>3 DEF Preflight
  <2>2. Trace(candidate, accepted)' = Trace(candidate, accepted)
    BY <2>1 DEF Trace, HasDns, Named
  <2> QED  BY <2>1, <2>2 DEF TracesAreMarked
<1>4. CASE Begin \/ Deactivate \/ Unwatch \/ Recheck \/ Settle
  BY <1>2, <1>4 DEF Begin, Deactivate, Unwatch, Recheck, Settle
<1>5. CASE Remove \/ Publish \/ PublishOne \/ Activate
  BY <1>2, <1>5 DEF Remove, Publish, PublishOne, Activate
<1>6. CASE Reload
  <2>1. /\ UNCHANGED <<accepted, candidate, live, pending, job>>
        /\ pc = "reload" /\ pc' = "commit"
    BY <1>6 DEF Reload
  <2>2. /\ Trace(candidate, accepted)' = Trace(candidate, accepted)
        /\ Trace(accepted, candidate)' = Trace(accepted, candidate)
        /\ Desired(job)' = Desired(job)
    BY <2>1 DEF Trace, HasDns, Named, Desired
  <2> QED  BY <2>1, <2>2, CommitLeavesNothing DEF TracesAreMarked
<1>7. CASE Commit
  <2>1. /\ UNCHANGED <<candidate, live, pending, job>>
        /\ pc = "commit" /\ pc' = "clear" /\ accepted' = Desired(job)
    BY <1>7 DEF Commit
  <2>2. CASE Desired(job) = accepted
    <3>1. /\ Trace(candidate, accepted)' = Trace(candidate, accepted)
          /\ accepted' = accepted
      BY <2>1, <2>2 DEF Trace, HasDns, Named
    <3>2. Desired(job)' = accepted'
      BY <2>1, <2>2, <3>1 DEF Desired
    <3> QED  BY <2>1, <2>2, <3>1, <3>2 DEF TracesAreMarked
  <2>3. CASE Desired(job) # accepted
    <3>1. /\ accepted' = candidate' /\ Desired(job)' = accepted'
      BY <2>1, <2>3 DEF Desired
    <3>2. ~Trace(candidate, accepted)'
      BY <3>1 DEF Trace
    <3> QED  BY <3>1, <3>2 DEF TracesAreMarked
  <2> QED  BY <2>2, <2>3
<1>8. CASE Clear
  <2>1. /\ UNCHANGED <<accepted, candidate, live>>
        /\ pc = "clear" /\ pc' = "idle"
    BY <1>8 DEF Clear
  <2>2. Trace(candidate, accepted)' = Trace(candidate, accepted)
    BY <2>1 DEF Trace, HasDns, Named
  <2>3. Desired(job) = accepted
    BY <2>1 DEF JobIsMarked, Desired
  <2> QED  BY <2>1, <2>2, <2>3 DEF TracesAreMarked
<1>9. CASE CheckFails \/ Interrupt \/ PowerLoss
  BY <1>2, <1>9 DEF CheckFails, Interrupt, PowerLoss
<1>10. CASE Edit \/ WatcherReload \/ UNCHANGED vars
  BY <1>1, <1>10 DEF Edit, WatcherReload, vars
<1> QED
  BY <1>3, <1>4, <1>5, <1>6, <1>7, <1>8, <1>9, <1>10 DEF Next, RunStep

LEMMA InitRecordInv == Init => RecordInv
<1> SUFFICES ASSUME Init PROVE RecordInv
  OBVIOUS
<1>1. \A f \in DOMAIN candidate : candidate[f] \in Contents /\ f \in Files
  BY FilesAssumption DEF Init
<1>2. ~Trace(candidate, accepted)
  BY <1>1, FilesAssumption DEF Init, Trace
<1> QED  BY <1>2 DEF Init, RecordInv, EditsAreKnown, JobIsMarked, TracesAreMarked

\* What a run is for, what is marked and what is left on the host agree.
THEOREM RecordsAgree == Spec => []RecordInv
<1>1. Init => RecordInv
  BY InitRecordInv
<1>2. IInv /\ RecordInv /\ [Next]_vars => RecordInv'
  BY StepEditsAreKnown, StepJobIsMarked, StepTracesAreMarked DEF IInv, RecordInv
<1> QED  BY <1>1, <1>2, ApplyInvariantHolds, PTL DEF Spec

\* What the host holds: unless a candidate is marked the accepted revision alone,
\* and at the end of a run the revision it is about to accept.
LEMMA HeldIsKnown ==
  TypeOK /\ RecordInv =>
    /\ Held \subseteq {accepted, candidate} /\ Held # {}
    /\ pending # "candidate" => Held = {accepted}
    /\ pc \in {"commit", "clear"} => Held = {Desired(job)}
<1> SUFFICES ASSUME TypeOK, RecordInv
             PROVE  /\ Held \subseteq {accepted, candidate} /\ Held # {}
                    /\ pending # "candidate" => Held = {accepted}
                    /\ pc \in {"commit", "clear"} => Held = {Desired(job)}
  OBVIOUS
<1> USE DEF TypeOK, RecordInv
<1>1. Desired(job) \in {accepted, candidate}
  BY DEF Desired
<1>2. pc \in {"commit", "clear"} => Held = {Desired(job)}
  BY <1>1 DEF Held, TracesAreMarked
<1>3. pending # "candidate" /\ pc \in {"commit", "clear"} => Desired(job) = accepted
  BY DEF JobIsMarked, Desired
<1>4. pending # "candidate" => Held = {accepted}
  BY <1>2, <1>3 DEF Held, TracesAreMarked
<1>5. Held \subseteq {accepted, candidate} /\ Held # {}
  BY <1>1, <1>2 DEF Held
<1> QED  BY <1>2, <1>4, <1>5

LEMMA PromiseStep ==
  ASSUME IInv, RecordInv, TypeOK', RecordInv', [Next]_vars
  PROVE  [Promise!Next]_(Promise!avars)
<1> USE DEF IInv, TypeOK
<1>0. /\ Held \subseteq {accepted, candidate} /\ Held # {}
      /\ pending # "candidate" => Held = {accepted}
      /\ pc \in {"commit", "clear"} => Held = {Desired(job)}
  BY HeldIsKnown
<1>1. (/\ Held \subseteq {accepted, candidate} /\ Held # {}
       /\ pending # "candidate" => Held = {accepted}
       /\ pc \in {"commit", "clear"} => Held = {Desired(job)})'
  <2>1. (TypeOK /\ RecordInv =>
          /\ Held \subseteq {accepted, candidate} /\ Held # {}
          /\ pending # "candidate" => Held = {accepted}
          /\ pc \in {"commit", "clear"} => Held = {Desired(job)})'
    BY HeldIsKnown, PTL
  <2> QED  BY <2>1
<1>2. ASSUME UNCHANGED <<accepted, candidate, pending>>
      PROVE  [Promise!Next]_(Promise!avars)
  <2>1. UNCHANGED Marked
    BY <1>2 DEF Marked
  <2>2. CASE Held' = Held
    BY <1>2, <2>1, <2>2 DEF Promise!avars
  <2>3. CASE Held' # Held
    <3>1. Marked = candidate /\ Marked # Nothing /\ candidate \in Manifests
      BY <1>0, <1>1, <1>2, <2>3, FilesAssumption DEF Marked
    <3>2. CASE Held' \in {{accepted}, {candidate}}
      <4>1. PICK r \in {accepted, candidate} : Held' = {r}
        BY <3>2
      <4>2. Promise!Settle(r)
        BY <1>2, <2>1, <3>1, <4>1 DEF Promise!Settle
      <4> QED  BY <4>1, <4>2 DEF Promise!Next
    <3>3. CASE Held' = {accepted, candidate}
      <4>1. PICK r \in {accepted, candidate} : Held' = Held \union {r}
        BY <1>0, <3>3
      <4>2. Promise!Touch(r)
        BY <1>2, <2>1, <3>1, <4>1 DEF Promise!Touch
      <4> QED  BY <4>1, <4>2 DEF Promise!Next
    <3>4. Held' \in {{accepted}, {candidate}, {accepted, candidate}}
      BY <1>1, <1>2
    <3> QED  BY <3>2, <3>3, <3>4
  <2> QED  BY <2>2, <2>3
<1>3. CASE Preflight
  <2>1. CASE pending # "none"
    BY <1>2, <1>3, <2>1 DEF Preflight, revisions
  <2>2. CASE pending = "none"
    <3>1. /\ UNCHANGED <<accepted, candidate, live>> /\ pc \notin {"commit", "clear"}
          /\ pc' \notin {"commit", "clear"} /\ pending' # "none"
      BY <1>3, <2>2 DEF Preflight, revisions
    <3>2. Held' = Held
      BY <3>1 DEF Held, Trace, HasDns, Named
    <3>3. Marked' \in Manifests
      BY <3>1 DEF Marked
    <3>4. Promise!Begin(Marked')
      BY <1>0, <2>2, <3>1, <3>2 DEF Promise!Begin
    <3> QED  BY <3>3, <3>4 DEF Promise!Next
  <2> QED  BY <2>1, <2>2
<1>4. CASE Commit
  <2>1. /\ UNCHANGED <<candidate, pending, job>> /\ accepted' = Desired(job)
        /\ pc = "commit" /\ pc' = "clear"
    BY <1>4 DEF Commit, revisions, locals
  <2>2. Held = {Desired(job)} /\ Held' = {Desired(job)}
    <3>1. Desired(job)' = Desired(job)
      BY <2>1 DEF Desired
    <3> QED  BY <1>0, <1>1, <2>1, <3>1
  <2>3. CASE job = "candidate"
    <3>1. Marked = candidate /\ Marked' = candidate /\ Desired(job) = candidate
      BY <2>1, <2>3 DEF Marked, RecordInv, JobIsMarked, Desired
    <3>2. Promise!Accept
      BY <2>1, <2>2, <3>1, FilesAssumption DEF Promise!Accept
    <3> QED  BY <3>2 DEF Promise!Next
  <2>4. CASE job # "candidate"
    <3>1. accepted' = accepted
      BY <2>1, <2>4 DEF Desired
    <3> QED  BY <1>2, <2>1, <3>1
  <2> QED  BY <2>3, <2>4
<1>5. CASE Clear
  <2>1. /\ UNCHANGED <<accepted, candidate>> /\ pending' = "none"
        /\ pc = "clear"
    BY <1>5 DEF Clear, revisions
  <2>2. Desired(job) = accepted
    BY <2>1 DEF RecordInv, JobIsMarked, Desired
  <2>3. Marked # Nothing /\ Marked' = Nothing
    BY <2>1, FilesAssumption DEF InOrder, Marked
  <2>4. Held = {accepted} /\ Held' = {accepted}
    BY <1>0, <1>1, <2>1, <2>2
  <2>5. Promise!Finish
    BY <2>1, <2>3, <2>4 DEF Promise!Finish
  <2> QED  BY <2>5 DEF Promise!Next
<1>6. CASE Begin \/ Deactivate \/ Unwatch \/ Recheck \/ Remove \/ Publish
  BY <1>2, <1>6 DEF Begin, Deactivate, Unwatch, Recheck, Remove, Publish, Goto,
                    revisions
<1>7. CASE PublishOne \/ Settle \/ Activate \/ Reload \/ CheckFails
  BY <1>2, <1>7 DEF PublishOne, Settle, Activate, Reload, CheckFails, Goto, revisions
<1>8. CASE Interrupt \/ PowerLoss \/ Edit \/ WatcherReload \/ UNCHANGED vars
  BY <1>2, <1>8 DEF Interrupt, PowerLoss, Edit, WatcherReload, vars, revisions
<1> QED
  BY <1>3, <1>4, <1>5, <1>6, <1>7, <1>8 DEF Next, RunStep

\* File by file, and wherever a run is cut off, the apply keeps the promise that
\* the runner makes revision by revision: it implements AcceptedHost.
THEOREM ApplyImplementsPromise == Spec => FilesKeepPromise
<1>1. Init => Promise!Init
  <2> SUFFICES ASSUME Init PROVE Promise!Init
    OBVIOUS
  <2>1. RecordInv /\ TypeOK /\ pending = "none"
    BY InitRecordInv, InitIInv DEF IInv, Init
  <2>2. Held = {accepted} /\ Marked = Nothing
    BY <2>1, HeldIsKnown DEF Marked
  <2> QED  BY <2>1, <2>2, FilesAssumption DEF Promise!Init, TypeOK
<1>2. IInv /\ IInv' /\ RecordInv /\ RecordInv' /\ [Next]_vars
        => [Promise!Next]_(Promise!avars)
  BY PromiseStep DEF IInv
<1> QED
  BY <1>1, <1>2, ApplyInvariantHolds, RecordsAgree, PTL
     DEF Spec, FilesKeepPromise, Promise!Spec

-----------------------------------------------------------------------------
(* What a run commits to is in force: networks, units and CoreDNS.            *)

\* The unit that a file outside the network family configures.
LEMMA OwnerIsUnit ==
  ASSUME NEW f \in Files, ~OfNetwork(f)
  PROVE  /\ Owner[f] \in Files /\ IsUnit(Owner[f]) /\ Owner[Owner[f]] = Owner[f]
         /\ Family(Owner[f]) = "unit" /\ ~OfNetwork(Owner[f]) /\ Owner[f] \notin Zones
<1>1. Kind[f] \notin {"netdev", "network"}
  BY DEF OfNetwork, Family
<1>2. Owner[f] \in Files /\ Kind[Owner[f]] = "unit"
  BY <1>1, FilesAssumption
<1> QED  BY <1>2, FilesAssumption DEF IsUnit, OfNetwork, Family, Zones

LEMMA OwnerOfNetwork ==
  ASSUME NEW f \in Files, OfNetwork(f)
  PROVE  Owner[f] = f /\ ~IsUnit(f) /\ Family(f) # "dns"
BY FilesAssumption DEF OfNetwork, Family, IsUnit, Kinds

\* A file that a run puts in place is on record as changed.
LEMMA ChangesAreNoted ==
  ASSUME TypeOK, [Next]_vars, ~halted', ~PowerLoss, NEW f \in Files,
         live'[f] \in Contents, live'[f] # live[f]
  PROVE  /\ f \in changed' /\ Family(f) = family /\ family' = family
         /\ pc' \in {"publish", "settle"}
<1> USE FilesAssumption DEF TypeOK, Goto, locals, history, runtime
<1>1. ~(CheckFails \/ Interrupt)
  BY DEF CheckFails, Interrupt
<1>2. ~(Begin \/ Preflight \/ Deactivate \/ Unwatch \/ Recheck \/ Settle)
  BY DEF Begin, Preflight, Deactivate, Unwatch, Recheck, Settle
<1>3. ~(Activate \/ Reload \/ Commit \/ Clear \/ WatcherReload \/ UNCHANGED vars)
  BY DEF Activate, Reload, Commit, Clear, WatcherReload, vars
<1>4. ~(Remove \/ Edit)
  BY DEF Remove, RemoveFiles, Edit
<1>5. CASE Publish
  BY <1>5 DEF Publish, PublishFiles, ToPublish, Files_
<1>6. CASE PublishOne
  BY <1>6 DEF PublishOne, PublishFiles, ToPublish, Files_
<1> QED  BY <1>1, <1>2, <1>3, <1>4, <1>5, <1>6 DEF Next, RunStep

LEMMA InitForceInv == Init => ForceInv
<1> SUFFICES ASSUME Init PROVE ForceInv
  OBVIOUS
<1>1. accepted \in Manifests /\ Named(accepted) = DOMAIN accepted
  BY FilesAssumption DEF Init, Named
<1>2. /\ live = [f \in Files |-> IF f \in DOMAIN accepted THEN accepted[f] ELSE Absent]
      /\ running = [f \in Files |-> IF Owner[f] \in DOMAIN accepted
                                    THEN live[f] ELSE Absent]
      /\ loaded = UnitFiles(live) /\ pc = "idle"
  BY DEF Init
<1>3. \A f \in Files : live[f] \in Contents =>
        f \in DOMAIN accepted /\ live[f] = accepted[f]
  BY <1>2, FilesAssumption
<1>4. UnitsAreKnown
  BY <1>1, <1>3 DEF UnitsAreKnown
<1>5. NetworkIsRead
  BY <1>2, <1>3, OwnerOfNetwork DEF NetworkIsRead
<1>6. UnitsAreRead
  BY <1>2 DEF UnitsAreRead, UnitFiles
<1>7. UnitsAreFresh
  BY <1>2, <1>3, OwnerIsUnit DEF UnitsAreFresh, InPlace
<1>8. ActivationIsDone
  BY <1>2 DEF ActivationIsDone
<1> QED  BY <1>4, <1>5, <1>6, <1>7, <1>8 DEF ForceInv

\* No step leaves the unit file of a forgotten revision: acceptance forgets one of
\* which nothing is left.
LEMMA StepUnitsAreKnown ==
  ASSUME TypeOK, RecordInv, UnitsAreKnown, [Next]_vars
  PROVE  UnitsAreKnown'
<1> SUFFICES ASSUME NEW u \in Files, IsUnit(u), live'[u] \in Contents
             PROVE  (\/ u \in Named(accepted) /\ live[u] = accepted[u]
                     \/ u \in Named(candidate) /\ live[u] = candidate[u])'
  BY DEF UnitsAreKnown, IsUnit
<1> USE DEF TypeOK
<1>1. Desired(job) \in {accepted, candidate}
  BY DEF Desired
<1>2. CASE UNCHANGED <<accepted, candidate>>
  <2>1. Named(accepted)' = Named(accepted) /\ Named(candidate)' = Named(candidate)
    BY <1>2 DEF Named
  <2> QED  BY <1>1, <1>2, <2>1, LiveStep DEF UnitsAreKnown
<1>3. CASE Commit
  <2>1. /\ UNCHANGED <<candidate, live>> /\ accepted' = Desired(job) /\ pc = "commit"
    BY <1>3 DEF Commit
  <2>2. CASE Desired(job) = accepted
    BY <1>2, <2>1, <2>2
  <2>3. CASE Desired(job) # accepted
    <3>1. ~Trace(accepted, candidate)
      BY <2>1, <2>3 DEF RecordInv, TracesAreMarked
    <3>2. Named(accepted) = DOMAIN accepted /\ Named(candidate) = DOMAIN candidate
      BY FilesAssumption DEF Named
    <3>3. u \in Named(candidate) /\ live[u] = candidate[u]
      BY <2>1, <3>1, <3>2 DEF UnitsAreKnown, Trace, IsUnit
    <3>4. Named(candidate)' = Named(candidate)
      BY <2>1 DEF Named
    <3> QED  BY <2>1, <3>3, <3>4
  <2> QED  BY <2>2, <2>3
<1>4. CASE Begin \/ Preflight \/ Deactivate \/ Unwatch \/ Recheck \/ Settle
  BY <1>2, <1>4 DEF Begin, Preflight, Deactivate, Unwatch, Recheck, Settle, Goto,
                    revisions
<1>5. CASE Remove \/ Publish \/ PublishOne \/ Activate \/ Reload \/ Clear
  BY <1>2, <1>5 DEF Remove, Publish, PublishOne, Activate, Reload, Clear, Goto,
                    revisions
<1>6. CASE CheckFails \/ Interrupt \/ PowerLoss \/ Edit \/ WatcherReload \/ UNCHANGED vars
  BY <1>2, <1>6 DEF CheckFails, Interrupt, PowerLoss, Edit, WatcherReload, vars, revisions
<1> QED  BY <1>3, <1>4, <1>5, <1>6 DEF Next, RunStep

\* A unit that a run no longer wants is gone when it comes to activation.
LEMMA UnitsAreDesired ==
  ASSUME IInv, RecordInv, UnitsAreKnown, pc = "activate",
         NEW u \in Files, IsUnit(u), live[u] \in Contents
  PROVE  u \in Named(Desired(job))
<1> SUFFICES ASSUME u \notin Named(Desired(job)) PROVE FALSE
  OBVIOUS
<1> USE DEF IInv, TypeOK, RecordInv
<1>1. Named(accepted) = DOMAIN accepted /\ Named(candidate) = DOMAIN candidate
  BY FilesAssumption DEF Named
<1>2. u \notin Considered(job)
  <2>1. u \notin edited
    BY DEF EditsAreKnown
  <2>2. "unit" \in Cleaned /\ Family(u) = "unit"
    BY DEF IsUnit, Family, InOrder, Cleaned, Passed
  <2> QED  BY <2>1, <2>2, FilesAssumption DEF ListIsExact, FilesAreDone
<1>3. u \notin Named(Source(job))
  BY <1>2 DEF Considered, IsUnit
<1>4. CASE job \in {"candidate", "recovery"}
  BY <1>1, <1>3, <1>4 DEF Source, Desired, UnitsAreKnown
<1>5. CASE job = "reconcile"
  <2>1. u \in Named(candidate) /\ live[u] = candidate[u] /\ u \notin Named(accepted)
    BY <1>5 DEF UnitsAreKnown, Desired
  <2>2. Trace(candidate, accepted)
    BY <1>1, <2>1 DEF Trace, IsUnit
  <2> QED  BY <1>5, <2>1, <2>2 DEF JobIsMarked, TracesAreMarked
<1> QED  BY <1>4, <1>5 DEF JobIsMarked

\* A reboot starts everything from the files.
LEMMA RebootIsFresh ==
  ASSUME TypeOK, PowerLoss
  PROVE  NetworkIsRead' /\ UnitsAreRead' /\ UnitsAreFresh' /\ ActivationIsDone'
<1>1. /\ running' = [f \in Files |-> IF live'[Owner[f]] # Absent THEN live'[f] ELSE Absent]
      /\ loaded' = [f \in Files |-> IF Family(f) = "unit" THEN live'[f] ELSE Absent]
      /\ pc' = "idle"
  BY DEF PowerLoss, UnitFiles, Forget
<1>2. NetworkIsRead'
  BY <1>1, OwnerOfNetwork, FilesAssumption DEF NetworkIsRead, OfNetwork
<1>3. UnitsAreRead'
  BY <1>1 DEF UnitsAreRead
<1>4. UnitsAreFresh'
  BY <1>1, FilesAssumption DEF UnitsAreFresh, InPlace, OfNetwork
<1> QED  BY <1>1, <1>2, <1>3, <1>4 DEF ActivationIsDone

\* A step that neither stops a run nor comes from a reboot.
LEMMA RunContinues ==
  ASSUME [Next]_vars, ~halted', ~PowerLoss
  PROVE  ~halted /\ ~CheckFails /\ ~Interrupt
<1>1. ~CheckFails /\ ~Interrupt
  BY DEF CheckFails, Interrupt
<1>2. CASE Begin \/ Preflight \/ Deactivate \/ Unwatch \/ Recheck \/ Remove \/ Publish
  BY <1>1, <1>2 DEF Begin, Preflight, Deactivate, Unwatch, Recheck, Remove, Publish, history
<1>3. CASE PublishOne \/ Settle \/ Activate \/ Reload \/ Commit \/ Clear
  BY <1>1, <1>3 DEF PublishOne, Settle, Activate, Reload, Commit, Clear, history
<1>4. CASE Edit \/ WatcherReload \/ UNCHANGED vars
  BY <1>1, <1>4 DEF Edit, WatcherReload, vars, history
<1> QED  BY <1>1, <1>2, <1>3, <1>4 DEF Next, RunStep

\* Of the network files, networkd reads each change when their family is through.
LEMMA StepNetworkIsRead ==
  ASSUME IInv, RecordInv, NetworkIsRead, ActivationIsDone, [Next]_vars,
         ~halted', ~PowerLoss
  PROVE  NetworkIsRead'
<1> SUFFICES ASSUME NEW f \in Files, OfNetwork(f), live'[f] \in Contents
             PROVE  \/ running'[f] = live'[f]
                    \/ f \in changed' /\ family' = "network" /\ pc' # "clear"
  BY DEF NetworkIsRead, OfNetwork
<1> USE DEF IInv, TypeOK, Goto, locals, runtime, watch
<1>0. Owner[f] = f /\ ~IsUnit(f) /\ Family(f) = "network"
  BY OwnerOfNetwork DEF OfNetwork
<1>1. CASE live'[f] # live[f]
  <2>1. f \in changed' /\ family' = "network" /\ pc' # "clear"
    BY <1>0, <1>1, ChangesAreNoted
  <2> QED  BY <2>1
<1>2. ASSUME live'[f] = live[f]
      PROVE  \/ running'[f] = live'[f]
             \/ f \in changed' /\ family' = "network" /\ pc' # "clear"
  <2>0. running[f] = live[f] \/ (f \in changed /\ family = "network" /\ pc # "clear")
    BY <1>2 DEF NetworkIsRead
  <2>1. CASE Begin \/ Preflight \/ Recheck \/ Unwatch \/ Remove \/ Publish \/ PublishOne
    BY <1>2, <2>0, <2>1
       DEF Begin, Preflight, Recheck, Unwatch, Remove, Publish, PublishOne
  <2>2. CASE Deactivate
    <3>1. pc = "deactivate" /\ family = "unit" /\ "network" \in Cleaned
      BY <2>2 DEF Deactivate, InOrder, Cleaned, Passed
    <3>2. f \notin cleanup
      BY <1>0, <1>2, <3>1, ConsideredTyped, FilesAssumption
         DEF FilesAreDone, ListIsExact, RecordInv, EditsAreKnown
    <3> QED  BY <1>0, <1>2, <2>0, <2>2, <3>1, <3>2 DEF Deactivate
  <2>3. CASE Settle
    BY <1>2, <2>0, <2>3 DEF Settle
  <2>4. CASE Activate
    BY <1>0, <1>2, <2>0, <2>4 DEF Activate, IsUnit
  <2>5. CASE Reload \/ WatcherReload
    BY <1>0, <1>2, <2>0, <2>5 DEF Reload, WatcherReload
  <2>6. CASE Commit
    <3>1. family # "network" /\ UNCHANGED <<running, live>>
      BY <2>6 DEF Commit, ActivationIsDone
    <3> QED  BY <2>0, <3>1
  <2>7. CASE Clear
    BY <1>2, <2>0, <2>7 DEF Clear
  <2>8. CASE Edit \/ UNCHANGED vars
    BY <1>2, <2>0, <2>8 DEF Edit, vars
  <2> QED
    BY <2>1, <2>2, <2>3, <2>4, <2>5, <2>6, <2>7, <2>8, RunContinues DEF Next, RunStep
<1> QED  BY <1>1, <1>2

\* Of the unit files, so does the system manager.
LEMMA StepUnitsAreRead ==
  ASSUME IInv, UnitsAreRead, ActivationIsDone, [Next]_vars, ~halted', ~PowerLoss
  PROVE  UnitsAreRead'
<1> SUFFICES ASSUME NEW f \in Files, Family(f) = "unit", live'[f] \in Contents
             PROVE  \/ loaded'[f] = live'[f]
                    \/ f \in changed' /\ family' \in {"network", "unit"} /\ pc' # "clear"
  BY DEF UnitsAreRead
<1> USE DEF IInv, TypeOK, Goto, locals, runtime, watch
<1>1. CASE live'[f] # live[f]
  <2>1. f \in changed' /\ family' = "unit" /\ pc' # "clear"
    BY <1>1, ChangesAreNoted
  <2> QED  BY <2>1
<1>2. ASSUME live'[f] = live[f]
      PROVE  \/ loaded'[f] = live'[f]
             \/ f \in changed' /\ family' \in {"network", "unit"} /\ pc' # "clear"
  <2>0. \/ loaded[f] = live[f]
        \/ f \in changed /\ family \in {"network", "unit"} /\ pc # "clear"
    BY <1>2 DEF UnitsAreRead
  <2>1. CASE Begin \/ Preflight \/ Recheck \/ Unwatch \/ Remove \/ Publish \/ PublishOne
    BY <1>2, <2>0, <2>1
       DEF Begin, Preflight, Recheck, Unwatch, Remove, Publish, PublishOne
  <2>2. CASE Deactivate \/ Activate \/ Reload \/ WatcherReload
    BY <1>2, <2>0, <2>2 DEF Deactivate, Activate, Reload, WatcherReload
  <2>3. CASE Settle
    <3>1. CASE family = "unit"
      BY <1>2, <2>0, <2>3, <3>1 DEF Settle, Files_
    <3>2. CASE family # "unit"
      BY <1>2, <2>0, <2>3, <3>2 DEF Settle
    <3> QED  BY <3>1, <3>2
  <2>4. CASE Commit
    <3>1. family \notin {"network", "unit"} /\ UNCHANGED <<loaded, live>>
      BY <2>4 DEF Commit, ActivationIsDone
    <3> QED  BY <2>0, <3>1
  <2>5. CASE Clear
    BY <1>2, <2>0, <2>5 DEF Clear
  <2>6. CASE Edit \/ UNCHANGED vars
    BY <1>2, <2>0, <2>6 DEF Edit, vars
  <2> QED
    BY <2>1, <2>2, <2>3, <2>4, <2>5, <2>6, RunContinues DEF Next, RunStep
<1> QED  BY <1>1, <1>2

\* Activation starts a unit with what its files are, once all of them are read.
LEMMA StartsFromFiles ==
  ASSUME IInv, UnitsAreRead, Activate, NEW f \in Files, ~OfNetwork(f), InPlace(f)
  PROVE  /\ \/ running'[f] = live[f]
            \/ running'[f] = running[f] /\ running'[Owner[f]] = running[Owner[f]]
         /\ Owner[f] \in Named(Desired(job)) =>
              \/ running'[f] = live[f]
              \/ /\ running[Owner[f]] # Absent /\ running'[f] = running[f]
                 /\ \A g \in changed \ Zones : Owner[g] # Owner[f]
<1> DEFINE units == {u \in Named(Desired(job)) : Kind[u] = "unit"}
           started == {u \in units : \/ \E g \in changed \ Zones : Owner[g] = u
                                    \/ running[u] = Absent}
<1>1. running' = [g \in Files |-> IF Owner[g] \in started
                                  THEN IF Family(g) = "unit" THEN loaded[g] ELSE live[g]
                                  ELSE running[g]]
  BY DEF Activate
<1>2. family \notin {"network", "unit"}
  BY DEF Activate, IInv, InOrder
<1>3. Family(f) = "unit" => loaded[f] = live[f]
  BY <1>2 DEF UnitsAreRead, InPlace
<1>4. Owner[f] \in Files /\ IsUnit(Owner[f]) /\ Owner[Owner[f]] = Owner[f]
  BY OwnerIsUnit
<1>5. CASE Owner[f] \in started
  BY <1>1, <1>3, <1>5
<1>6. CASE Owner[f] \notin started
  <2>1. running'[f] = running[f] /\ running'[Owner[f]] = running[Owner[f]]
    BY <1>1, <1>4, <1>6
  <2>2. Owner[f] \in Named(Desired(job)) =>
          /\ running[Owner[f]] # Absent
          /\ \A g \in changed \ Zones : Owner[g] # Owner[f]
    BY <1>4, <1>6 DEF IsUnit
  <2> QED  BY <2>1, <2>2
<1> QED  BY <1>5, <1>6

LEMMA StepUnitsAreFresh ==
  ASSUME IInv, UnitsAreRead, UnitsAreFresh, ActivationIsDone, [Next]_vars,
         ~halted', ~PowerLoss
  PROVE  UnitsAreFresh'
<1> SUFFICES ASSUME NEW f \in Files, ~OfNetwork(f), InPlace(f)'
             PROVE  \/ running'[f] = live'[f] \/ running'[Owner[f]] = Absent
                    \/ {f, Owner[f]} \intersect changed' # {}
  BY DEF UnitsAreFresh, OfNetwork, RestartDue
<1> DEFINE u == Owner[f]
<1> USE DEF IInv, TypeOK, Goto, locals, runtime, watch
<1>0. /\ u \in Files /\ Owner[u] = u /\ Family(u) = "unit" /\ ~OfNetwork(u)
      /\ live'[f] \in Contents /\ live'[u] \in Contents
  BY OwnerIsUnit DEF InPlace
<1>1. CASE live'[f] # live[f] \/ live'[u] # live[u]
  <2>1. f \in changed' \/ u \in changed'
    BY <1>0, <1>1, ChangesAreNoted
  <2> QED  BY <2>1
<1>2. ASSUME live'[f] = live[f], live'[u] = live[u]
      PROVE  \/ running'[f] = live'[f] \/ running'[u] = Absent
             \/ {f, u} \intersect changed' # {}
  <2>0. /\ InPlace(f)
        /\ running[f] = live[f] \/ running[u] = Absent \/ {f, u} \intersect changed # {}
    BY <1>0, <1>2 DEF UnitsAreFresh, InPlace, RestartDue
  <2>1. CASE Begin \/ Preflight \/ Recheck \/ Unwatch \/ Remove \/ Publish \/ PublishOne
    BY <1>2, <2>0, <2>1
       DEF Begin, Preflight, Recheck, Unwatch, Remove, Publish, PublishOne
  <2>2. CASE Deactivate
    BY <1>0, <1>2, <2>0, <2>2 DEF Deactivate
  <2>3. CASE Settle
    BY <1>0, <1>2, <2>0, <2>3 DEF Settle
  <2>4. CASE Activate
    <3>1. changed' = changed /\ live' = live
      BY <2>4 DEF Activate
    <3> QED  BY <2>0, <2>4, <3>1, StartsFromFiles
  <2>5. CASE Reload \/ WatcherReload
    BY <1>0, <1>2, <2>0, <2>5 DEF Reload, WatcherReload
  <2>6. CASE Commit
    BY <1>2, <2>0, <2>6 DEF Commit
  <2>7. CASE Clear
    <3>1. pc = "clear" /\ UNCHANGED <<live, running>>
      BY <2>7 DEF Clear
    <3> QED  BY <2>0, <3>1 DEF ActivationIsDone, ReloadDue
  <2>8. CASE Edit \/ UNCHANGED vars
    BY <1>2, <2>0, <2>8 DEF Edit, vars
  <2> QED
    BY <2>1, <2>2, <2>3, <2>4, <2>5, <2>6, <2>7, <2>8, RunContinues DEF Next, RunStep
<1> QED  BY <1>1, <1>2

\* After activation nothing is put in place any more, so what was in force stays so
\* or has left its place.
LEMMA StepActivationIsDone ==
  ASSUME IInv, RecordInv, UnitsAreKnown, UnitsAreRead, UnitsAreFresh, ActivationIsDone,
         [Next]_vars, ~halted', ~PowerLoss
  PROVE  ActivationIsDone'
<1> USE DEF IInv, TypeOK, Goto, locals, runtime, watch
<1>1. CASE Activate
  <2>1. /\ UNCHANGED <<accepted, candidate, job, live, changed, family>>
        /\ pc = "activate" /\ pc' = "reload"
        /\ HasDns(Desired(job)) => watcher' = "active"
    BY <1>1 DEF Activate, revisions
  <2>2. /\ Desired(job)' = Desired(job)
        /\ Named(Desired(job))' = Named(Desired(job))
        /\ HasDns(Desired(job))' = HasDns(Desired(job))
    BY <2>1, SameJob DEF revisions, HasDns
  <2>3. ASSUME NEW f \in Files, ~OfNetwork(f), InPlace(f)
        PROVE  /\ Owner[f] \in Named(Desired(job))
               /\ running'[f] = live[f] \/ ReloadDue(f)'
    <3>1. /\ Owner[f] \in Files /\ IsUnit(Owner[f]) /\ Owner[Owner[f]] = Owner[f]
          /\ Owner[f] \notin Zones
      BY <2>3, OwnerIsUnit
    <3>2. Owner[f] \in Named(Desired(job))
      BY <2>1, <2>3, <3>1, UnitsAreDesired DEF InPlace
    <3>3. CASE running'[f] # live[f]
      <4>1. /\ running[Owner[f]] # Absent /\ running'[f] = running[f]
            /\ \A g \in changed \ Zones : Owner[g] # Owner[f]
        BY <1>1, <2>3, <3>2, <3>3, StartsFromFiles
      <4>2. f \in changed \intersect Zones
        BY <2>3, <3>1, <3>3, <4>1 DEF UnitsAreFresh, RestartDue
      <4> QED  BY <2>1, <3>2, <4>1, <4>2 DEF ReloadDue, Zones
    <3> QED  BY <3>2, <3>3
  <2>4. family \notin {"network", "unit"}
    BY <2>1 DEF InOrder
  <2> QED  BY <2>1, <2>2, <2>3, <2>4 DEF ActivationIsDone, OfNetwork, InPlace
<1>2. CASE Reload
  <2>1. /\ UNCHANGED <<accepted, candidate, job, live, changed, family, watcher>>
        /\ pc = "reload" /\ pc' = "commit"
    BY <1>2 DEF Reload, revisions
  <2>2. /\ Named(Desired(job))' = Named(Desired(job))
        /\ HasDns(Desired(job))' = HasDns(Desired(job))
    BY <2>1, SameJob DEF revisions, HasDns
  <2>3. ASSUME NEW f \in Files, ~OfNetwork(f), InPlace(f)
        PROVE  running'[f] = live[f]
    <3>1. running[f] = live[f] \/ ReloadDue(f)
      BY <2>1, <2>3 DEF ActivationIsDone
    <3>2. ReloadDue(f) => Family(f) = "dns"
      BY DEF ReloadDue, Zones, Family
    <3> QED  BY <1>2, <3>1, <3>2 DEF Reload, ReloadDue
  <2> QED  BY <2>1, <2>2, <2>3 DEF ActivationIsDone, OfNetwork, InPlace
<1>3. CASE Commit
  <2>1. /\ UNCHANGED <<candidate, job, live, changed, family, running>>
        /\ pc = "commit" /\ pc' = "clear" /\ accepted' = Desired(job)
    BY <1>3 DEF Commit
  <2>2. Named(Desired(job))' = Named(Desired(job))
    BY <2>1 DEF Desired, Named
  <2> QED  BY <2>1, <2>2 DEF ActivationIsDone, OfNetwork, InPlace, ReloadDue
<1>4. CASE Edit \/ WatcherReload \/ UNCHANGED vars
  <2>1. /\ UNCHANGED <<accepted, candidate, job, changed, family, watcher, pc>>
        /\ \A f \in Files : live'[f] \in Contents => live'[f] = live[f]
    BY <1>4, FilesAssumption DEF Edit, Notice, WatcherReload, vars, revisions
  <2>2. /\ Named(Desired(job))' = Named(Desired(job))
        /\ HasDns(Desired(job))' = HasDns(Desired(job))
    BY <2>1, SameJob DEF revisions, HasDns
  <2>3. \A f \in Files : running'[f] = running[f] \/ running'[f] = live'[f]
    BY <1>4 DEF Edit, WatcherReload, vars
  <2>4. \A f \in Files : InPlace(f)' /\ ~OfNetwork(f) =>
          InPlace(f) /\ live'[f] = live[f]
    BY <2>1, OwnerIsUnit DEF InPlace
  <2>5. \A f \in Files : ReloadDue(f)' = ReloadDue(f)
    BY <2>1 DEF ReloadDue, Zones
  <2>6. \A f \in Files : OfNetwork(f)' = OfNetwork(f)
    BY DEF OfNetwork
  <2> QED  BY <2>1, <2>2, <2>3, <2>4, <2>5, <2>6 DEF ActivationIsDone
<1>5. CASE Begin \/ Preflight \/ Deactivate \/ Unwatch \/ Recheck \/ Settle \/ Clear
  BY <1>5 DEF Begin, Preflight, Deactivate, Unwatch, Recheck, Settle, Clear, Forget,
              ActivationIsDone
<1>6. CASE Remove \/ Publish \/ PublishOne
  BY <1>6 DEF Remove, Publish, PublishOne, ActivationIsDone
<1> QED
  BY <1>1, <1>2, <1>3, <1>4, <1>5, <1>6, RunContinues DEF Next, RunStep

\* What is in place is in force, unless the change is on record or a run stopped
\* half-way since the last boot.
THEOREM FilesAreInForce == Spec => []ForceInv
<1>1. Init => ForceInv
  BY InitForceInv
<1>2. IInv /\ RecordInv /\ ForceInv /\ [Next]_vars => ForceInv'
  <2> SUFFICES ASSUME IInv, RecordInv, ForceInv, [Next]_vars, ~halted'
               PROVE  NetworkIsRead' /\ UnitsAreRead' /\ UnitsAreFresh' /\ ActivationIsDone'
    BY StepUnitsAreKnown DEF ForceInv, IInv
  <2>1. CASE PowerLoss
    BY <2>1, RebootIsFresh DEF IInv
  <2>2. CASE ~PowerLoss
    <3>1. /\ UnitsAreKnown /\ NetworkIsRead /\ UnitsAreRead /\ UnitsAreFresh
          /\ ActivationIsDone
      BY <2>2, RunContinues DEF ForceInv
    <3> QED  BY <2>2, <3>1, StepNetworkIsRead, StepUnitsAreRead, StepUnitsAreFresh,
                StepActivationIsDone
  <2> QED  BY <2>1, <2>2
<1> QED  BY <1>1, <1>2, ApplyInvariantHolds, RecordsAgree, PTL DEF Spec

\* What a run commits to is what networkd, systemd and CoreDNS have in force,
\* whatever was edited before the run and whatever a power loss cut off.
THEOREM CommitsAreInForce == Spec => []CommittedIsRunning
<1>1. IInv /\ ForceInv => CommittedIsRunning
  <2> SUFFICES ASSUME IInv, ForceInv, pc = "commit", ~halted, edited = {}
               PROVE  /\ \A f \in Named(Desired(job)) :
                           Owner[f] \in Named(Desired(job)) => running[f] = Desired(job)[f]
                      /\ HasDns(Desired(job)) => watcher = "active"
    BY DEF CommittedIsRunning
  <2>1. NetworkIsRead /\ ActivationIsDone
    BY DEF ForceInv
  <2>2. \A f \in Named(Desired(job)) :
          f \in Files /\ live[f] = Desired(job)[f] /\ live[f] \in Contents
    <3>1. \A f \in Files : Runs(Family(f)) => Family(f) \in Placed
      BY FamilyOf DEF IInv, InOrder, Placed, Passed, Families
    <3>2. \A f \in Named(Desired(job)) : Runs(Family(f))
      BY DEF Runs, HasDns
    <3> QED  BY <3>1, <3>2, DesiredTyped DEF IInv, FilesAreDone
  <2>3. ASSUME NEW f \in Named(Desired(job)), Owner[f] \in Named(Desired(job))
        PROVE  running[f] = Desired(job)[f]
    <3>1. CASE OfNetwork(f)
      BY <2>1, <2>2, <2>3, <3>1 DEF NetworkIsRead, ActivationIsDone
    <3>2. CASE ~OfNetwork(f)
      BY <2>1, <2>2, <2>3, <3>2 DEF ActivationIsDone, InPlace, ReloadDue
    <3> QED  BY <3>1, <3>2
  <2> QED  BY <2>1, <2>3 DEF ActivationIsDone
<1> QED  BY <1>1, ApplyInvariantHolds, FilesAreInForce, PTL
=============================================================================
