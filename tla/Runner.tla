------------------------------- MODULE Runner -------------------------------
(***************************************************************************)
(* The GitOps runner, scripts/abhaile-runner, with the durable records it  *)
(* keeps through src/abhaile/state/reconciliation.py.                      *)
(*                                                                         *)
(* One run is a sequence of steps under a non-blocking flock, so at most   *)
(* one run is under way and pc = "idle" is the free lock.  A step ends     *)
(* where the script makes a durable change (a record, a checkout, a host   *)
(* mutation): a power loss may fall between any two steps and during an    *)
(* Ansible apply.  Local shell variables die with the process.             *)
(*                                                                         *)
(* The host is abstracted to what recovery has to know about it:           *)
(*   holds - the revisions some of whose managed resources may be present: *)
(*           applying a revision adds it, only the cleanup of a completed  *)
(*           apply removes one;                                            *)
(*   netHolds - the same for the network files, which a boot restores;     *)
(*   drift - an out-of-band change nobody has repaired yet.                *)
(* Elapsed time since the last full pass is an age class, not a number.    *)
(***************************************************************************)
EXTENDS FiniteSets

CONSTANTS
  Revs,         \* the commits of the tracked branch
  None,         \* an absent record or an unset shell variable
  Ancestry,     \* <<a, b>>: commit a is an ancestor of commit b, or b itself
  AllowRewind,  \* may the remote branch be moved to a non-descendant?
  Faults        \* the rare faults of the environment that a model admits

ASSUME NoneAssumption == None \notin Revs
ASSUME AncestryAssumption ==
  /\ Ancestry \subseteq Revs \X Revs
  /\ \A r \in Revs : <<r, r>> \in Ancestry
ASSUME FaultsAssumption ==
  /\ Faults \subseteq {"git-lock", "state-write"}
  /\ AllowRewind \in BOOLEAN

VARIABLES
  \* Records of the runner state directory.
  current,     \* current-run: the marker of work past the mutation boundary
  last,        \* last-successful-commit
  failed,      \* failed-target
  lastFull,    \* last-full-reconciliation
  \* The clone and its remote.
  remote, branch, head, worktree,
  \* The host.
  holds, netHolds, drift,
  \* The run under way.
  pc, job, target, cleanup,
  flags,       \* the Boolean shell variables that are set
  outcome,     \* outcome= of last-run-summary, "none" while a run is under way
  \* The environment.
  calm         \* from here on nothing goes wrong any more (for liveness)

records == <<current, last, failed, lastFull>>
clone   == <<remote, branch, head, worktree>>
host    == <<holds, netHolds, drift>>
locals  == <<job, target, cleanup, flags>>
vars == <<records, clone, host, pc, locals, outcome, calm>>

\* forced and retry come from the environment; mutated is no shell variable: it
\* says that this run, or its full pipeline once begun the host.
Flags == {"fetched", "recovered", "suppressed", "forced", "retry", "mutated"}
Fetched    == "fetched" \in flags
Recovered  == "recovered" \in flags
Suppressed == "suppressed" \in flags
Forced     == "forced" \in flags
Retry      == "retry" \in flags
Mutated    == "mutated" \in flags

Recoveries == {"startup", "accepted", "candidate"}
Jobs == {"none", "full", "network"} \union Recoveries

Steps == {"idle", "startup", "record", "renderInterrupted", "checkoutLast",
          "preflight", "mark", "apply", "applying", "clear", "fetch", "detect",
          "audit", "prepare", "commit", "clearMarker", "clearFailed",
          "postFull", "pipelineFailed", "candidateFailed"}

Outcomes == {"none", "dirty-worktree", "unknown-host", "aborted",
             "enrollment-required", "recovery-blocked", "recovery-failure",
             "recovery-success", "failed-target-suppressed", "fast-clean",
             "fast-offline-clean", "degraded-enrollment-foundation",
             "degraded-repair-deferred", "last-successful-context-failure",
             "fast-forward-failure", "full-clean", "degraded-post-full",
             "post-full-failure", "failure-before-mutation",
             "failure-recovered", "network-not-required", "network-restored",
             "network-failure"}

MaybeRev == Revs \union {None}

\* The record of the last completed full pass; NoFull when there is none.
FullRecords == [sha : MaybeRev, postcheck : {"clean", "degraded"},
                age : {"recent", "aged", "expired"}]
NoFull == [sha |-> None, postcheck |-> "clean", age |-> "expired"]

RecordTypes ==
  /\ current \in MaybeRev /\ last \in MaybeRev /\ failed \in MaybeRev
  /\ lastFull \in FullRecords

PlaceTypes ==
  /\ remote \in Revs /\ branch \in Revs /\ head \in Revs
  /\ worktree \in {"clean", "dirty", "locked"}
  /\ holds \subseteq Revs /\ netHolds \subseteq Revs

RunTypes ==
  /\ pc \in Steps /\ job \in Jobs
  /\ target \in MaybeRev /\ cleanup \in MaybeRev
  /\ flags \subseteq Flags /\ outcome \in Outcomes

\* The type invariant.
TypeOK ==
  /\ RecordTypes
  /\ PlaceTypes
  /\ RunTypes
  /\ drift \in BOOLEAN /\ calm \in BOOLEAN

-----------------------------------------------------------------------------
(* Helpers. *)

\* A record is replaced or removed atomically, but the operation may fail: by
\* then it has taken effect (only the directory sync failed) or it has not.
WriteFails == "state-write" \in Faults /\ ~calm

\* Where HEAD is after a git checkout of r: a stale index.lock makes it fail.
CheckedOut(r) == IF worktree = "locked" THEN head ELSE r

ClearLocals ==
  /\ job' = "none" /\ target' = None /\ cleanup' = None
  /\ flags' = flags \intersect {"mutated"}

\* The process exits and last-run-summary carries result.
Exit(result) ==
  /\ pc' = "idle" /\ outcome' = result
  /\ ClearLocals
  /\ UNCHANGED <<remote, branch, worktree, calm>>

\* return_to_branch, then exit; a failing checkout is ignored (|| true).
Leave(result) == head' = CheckedOut(branch) /\ Exit(result)

\* errexit ends the script where it stands: no summary, no return to the branch.
Abort == UNCHANGED head /\ Exit("aborted")

Goto(step) == pc' = step /\ UNCHANGED <<outcome, calm>>

\* The full schedule of classify_full_reconciliation, on age classes.
Due(t) == Forced \/ lastFull.sha # t \/ lastFull.age = "expired"

\* degraded_repair_is_deferred: a degraded accepted revision in its first hour.
Deferred == lastFull.postcheck = "degraded" /\ lastFull.age = "recent"

\* The previous manifest was rendered: target_sha # last_sha at the selection.
NewCommit == cleanup # None

-----------------------------------------------------------------------------
(* Starting a run. *)

\* The timer starts a run, which finds the worktree clean.
Start ==
  /\ pc = "idle" /\ worktree # "dirty"
  /\ flags' \in SUBSET IF calm THEN {} ELSE {"forced", "retry"}
  /\ pc' = "startup" /\ outcome' = "none"
  /\ UNCHANGED <<records, clone, host, job, target, cleanup, calm>>

\* check_worktree_clean: a dirty worktree needs the operator.
RefuseDirty ==
  /\ pc = "idle" /\ worktree = "dirty"
  /\ Exit("dirty-worktree")
  /\ UNCHANGED <<records, head, host>>

\* validate_host exits where it stands when the revision just checked out does
\* not map this host.
UnknownHost ==
  /\ ~calm
  /\ \/ pc = "renderInterrupted" /\ head' = CheckedOut(current)
     \/ pc = "checkoutLast" /\ head' = CheckedOut(last)
     \/ pc = "fetch" /\ UNCHANGED head
     \/ pc = "audit" /\ worktree # "locked" /\ head' = target
     \/ pc = "prepare" /\ worktree # "locked" /\ target # last /\ head' = last
  /\ Exit("unknown-host")
  /\ UNCHANGED <<records, host>>

\* classify_startup without a last-successful commit.
RefuseUnenrolled ==
  /\ pc = "startup" /\ last = None
  /\ Exit(IF current = None THEN "enrollment-required" ELSE "recovery-blocked")
  /\ UNCHANGED <<records, head, host>>

NormalStartup ==
  /\ pc = "startup" /\ last # None /\ current = None
  /\ Goto("fetch")
  /\ UNCHANGED <<records, clone, host, locals>>

\* recover-last-successful or verify-committed.
StartRecovery ==
  /\ pc = "startup" /\ last # None /\ current # None
  /\ job' = "startup" /\ Goto("record")
  /\ UNCHANGED <<records, clone, host, target, cleanup, flags>>

-----------------------------------------------------------------------------
(* recover_last_successful and the network-only restoration at boot.         *)
(* The marker is always the interrupted commit here, so recovery keeps it    *)
(* through its own pipeline (recovery_marker="") and clears it at the end.   *)

\* record_failed_target of an interrupted candidate. errexit is suspended in a
\* function called as a condition, so a failed write goes unnoticed.
RecordInterrupted ==
  /\ pc = "record"
  /\ IF current = last
     THEN Goto("checkoutLast") /\ UNCHANGED failed
     ELSE /\ Goto("renderInterrupted")
          /\ failed' = current \/ (WriteFails /\ UNCHANGED failed)
  /\ UNCHANGED <<current, last, lastFull, clone, host, locals>>

\* Mutant of RenderInterrupted: recovery without the candidate's manifest.
RenderInterruptedNoCleanup ==
  /\ pc = "renderInterrupted"
  /\ head' = CheckedOut(current)
  /\ Goto("checkoutLast")
  /\ UNCHANGED <<records, remote, branch, worktree, host, locals>>

\* Render the interrupted candidate: its manifest says what it may have added.
\* The manifest is that of the revision the checkout really left in place.
RenderInterrupted ==
  /\ pc = "renderInterrupted"
  /\ head' = CheckedOut(current) /\ cleanup' = CheckedOut(current)
  /\ Goto("checkoutLast")
  /\ UNCHANGED <<records, remote, branch, worktree, host, job, target, flags>>

CheckoutLast ==
  /\ pc = "checkoutLast"
  /\ head' = CheckedOut(last)
  /\ Goto("preflight")
  /\ UNCHANGED <<records, remote, branch, worktree, host, locals>>

\* What the caller reports when recovery returns nonzero.
RecoveryFailed ==
  Leave(IF job = "network" THEN "network-failure"
        ELSE IF job = "accepted" THEN "failure-before-mutation"
        ELSE "recovery-failure")

\* A commit is missing from the clone, or the candidate does not render.
RecoveryUnprepared ==
  /\ pc \in {"record", "renderInterrupted"} /\ ~calm
  /\ failed' \in IF pc = "record" /\ current # last THEN {failed, current}
                 ELSE {failed}
  /\ RecoveryFailed
  /\ UNCHANGED <<current, last, lastFull, host>>

\* Mutant of ClearRecovered: recover_last_successful leaves the marker.
ClearRecoveredKeepsMarker ==
  /\ pc = "clear"
  /\ head' = CheckedOut(branch)
  /\ IF job = "startup"
     THEN /\ flags' = flags \union {"recovered"}
          /\ job' = "none" /\ cleanup' = None
          /\ Goto("fetch")
          /\ UNCHANGED <<target, remote, branch, worktree>>
     ELSE Exit("failure-recovered")
  /\ UNCHANGED <<records, host>>

\* clear_matching_current_run after a successful recovery, and the way back to
\* the caller. A failed removal goes unnoticed for the same reason as above.
ClearRecovered ==
  /\ pc = "clear"
  /\ current' = None \/ (WriteFails /\ UNCHANGED current)
  /\ head' = CheckedOut(branch)
  /\ IF job = "startup"
     THEN /\ flags' = flags \union {"recovered"}
          /\ job' = "none" /\ cleanup' = None
          /\ Goto("fetch")
          /\ UNCHANGED <<target, remote, branch, worktree>>
     ELSE Exit("failure-recovered")
  /\ UNCHANGED <<last, failed, lastFull, host>>

\* Mutant of SkipNetworkRestore: a marked candidate does not matter at boot.
SkipNetworkRestoreMarked ==
  /\ pc = "idle" /\ ~calm
  /\ Exit("network-not-required")
  /\ UNCHANGED <<records, head, host>>

\* abhaile-network-restore.service, before systemd-networkd at boot.
SkipNetworkRestore ==
  /\ pc = "idle" /\ ~calm
  /\ current \in {None, last}
  /\ Exit("network-not-required")
  /\ UNCHANGED <<records, head, host>>

StartNetworkRestore ==
  /\ pc = "idle" /\ ~calm /\ worktree # "dirty"
  /\ current \notin {None, last}
  /\ IF last = None
     THEN Leave("network-failure")
     ELSE /\ job' = "network" /\ pc' = "renderInterrupted" /\ outcome' = "none"
          /\ UNCHANGED <<clone, target, cleanup, flags, calm>>
  /\ UNCHANGED <<records, host>>

-----------------------------------------------------------------------------
(* Discovery: fetch, suppression of a failed target, the schedule, the audit. *)

Fetch ==
  /\ pc = "fetch"
  /\ \/ flags' = flags \union {"fetched"} /\ target' = remote
     \/ ~calm /\ target' = last /\ UNCHANGED flags
  /\ Goto("detect")
  /\ UNCHANGED <<records, clone, host, job, cleanup>>

\* Mutant of AlreadyRecovered: an offline recovery counts as the target's.
RecoveredOffline == Recovered /\ target = last

AlreadyRecovered == Fetched /\ Recovered /\ target = last

\* Startup recovery already reconciled the fetched target.
FinishRecovered ==
  /\ pc = "detect" /\ AlreadyRecovered
  /\ \/ failed' = None /\ Leave("recovery-success")
     \/ WriteFails /\ failed # None /\ failed' \in {failed, None} /\ Abort
  /\ UNCHANGED <<current, last, lastFull, host>>

\* Mutant of Detect: failed-target is not consulted.
DetectAnyTarget ==
  /\ pc = "detect" /\ ~AlreadyRecovered
  /\ Goto(IF target # last \/ Due(target) THEN "prepare" ELSE "audit")
  /\ UNCHANGED <<records, clone, host, locals>>

Detect ==
  /\ pc = "detect" /\ ~AlreadyRecovered
  /\ IF Fetched /\ ~Retry /\ failed = target
     THEN target' = last /\ flags' = flags \union {"suppressed"}
     ELSE UNCHANGED <<target, flags>>
  /\ Goto(IF target' # last \/ Due(target') THEN "prepare" ELSE "audit")
  /\ UNCHANGED <<records, clone, host, job, cleanup>>

\* The audit's git checkout runs under errexit.
AuditAborts ==
  /\ pc = "audit" /\ worktree = "locked"
  /\ Abort /\ UNCHANGED <<records, host>>

\* Foundations differ: the operator's business, never repaired here.
AuditFoundation ==
  /\ pc = "audit" /\ worktree # "locked" /\ ~calm
  /\ Leave("degraded-enrollment-foundation")
  /\ UNCHANGED <<records, host>>

\* Integrity and health pass. Integrity looks at the entries of the audited
\* manifest only, so residue of another revision does not make it fail.
AuditClean ==
  /\ pc = "audit" /\ worktree # "locked"
  /\ ~drift /\ target \in holds
  /\ Leave(IF Suppressed THEN "failed-target-suppressed"
           ELSE IF Fetched THEN "fast-clean" ELSE "fast-offline-clean")
  /\ UNCHANGED <<records, host>>

\* Integrity or health fails (or times out): repair, unless a degraded repair
\* is younger than one hour. An uncertain render is never deferred.
AuditDirty ==
  /\ pc = "audit" /\ worktree # "locked"
  /\ ~calm \/ drift \/ target \notin holds
  /\ \/ /\ Deferred
        /\ Leave(IF Suppressed THEN "failed-target-suppressed"
                 ELSE "degraded-repair-deferred")
        /\ UNCHANGED <<records, host>>
     \/ /\ Deferred => ~calm
        /\ head' = target /\ Goto("prepare")
        /\ UNCHANGED <<records, remote, branch, worktree, host, locals>>

-----------------------------------------------------------------------------
(* Full reconciliation. *)

\* Every git checkout of the preparation runs under errexit.
PrepareAborts ==
  /\ pc = "prepare" /\ worktree = "locked"
  /\ Abort /\ UNCHANGED <<records, host>>

\* The accepted revision: nothing to remove.
PrepareAccepted ==
  /\ pc = "prepare" /\ worktree # "locked" /\ target = last
  /\ head' = last
  /\ job' = "full" /\ flags' = flags \ {"mutated"} /\ Goto("preflight")
  /\ UNCHANGED <<records, remote, branch, worktree, host, target, cleanup>>

\* Mutant of PrepareCandidate: no manifest of the accepted revision.
PrepareCandidateNoCleanup ==
  /\ pc = "prepare" /\ worktree # "locked" /\ target # last
  /\ <<branch, target>> \in Ancestry
  /\ branch' = target /\ head' = target
  /\ job' = "full" /\ flags' = flags \ {"mutated"} /\ Goto("preflight")
  /\ UNCHANGED <<records, remote, worktree, host, target, cleanup>>

\* A new commit: render the accepted revision for the removals, then
\* fast-forward the branch to the target.
PrepareCandidate ==
  /\ pc = "prepare" /\ worktree # "locked" /\ target # last
  /\ <<branch, target>> \in Ancestry
  /\ cleanup' = last /\ branch' = target /\ head' = target
  /\ job' = "full" /\ flags' = flags \ {"mutated"} /\ Goto("preflight")
  /\ UNCHANGED <<records, remote, worktree, host, target>>

\* do_checkout refuses a target that is not ahead of the local branch.
RefuseNonFastForward ==
  /\ pc = "prepare" /\ worktree # "locked" /\ target # last
  /\ <<branch, target>> \notin Ancestry
  /\ head' = branch /\ Exit("fast-forward-failure")
  /\ UNCHANGED <<records, host>>

\* The accepted revision does not render.
RefuseNoContext ==
  /\ pc = "prepare" /\ worktree # "locked" /\ target # last /\ ~calm
  /\ Leave("last-successful-context-failure")
  /\ UNCHANGED <<records, host>>

-----------------------------------------------------------------------------
(* run_pipeline_for_checked_out_commit, on the revision at HEAD. *)

\* A candidate may be bad for ever; the accepted revision recovers some day.
PipelineMayFail == ~calm \/ head # last

\* The pipeline returns nonzero.
PipelineFails ==
  IF job = "full"
  THEN Goto("pipelineFailed") /\ UNCHANGED <<clone, locals>>
  ELSE RecoveryFailed

\* Mutant of Preflight: the mark_mutation argument is dropped.
PreflightUnmarked ==
  /\ pc = "preflight"
  /\ Goto("apply")
  /\ UNCHANGED <<records, clone, host, locals>>

\* Render, classify the removals, ansible --check: no effect on the host.
Preflight ==
  /\ pc = "preflight"
  /\ Goto(IF job = "full" THEN "mark" ELSE "apply")
  /\ UNCHANGED <<records, clone, host, locals>>

PreflightFails ==
  /\ pc = "preflight" /\ PipelineMayFail
  /\ PipelineFails
  /\ UNCHANGED <<records, host>>

\* mark_mutation: the durable write before the first mutation.
Mark ==
  /\ pc = "mark"
  /\ current' = target /\ Goto("apply")
  /\ UNCHANGED <<last, failed, lastFull, clone, host, locals>>

MarkFails ==
  /\ pc = "mark" /\ WriteFails
  /\ current' \in {current, target} /\ PipelineFails
  /\ UNCHANGED <<last, failed, lastFull, host>>

\* The first mutation of ansible-playbook: from here on the host may hold
\* anything of the revision at HEAD.
ApplyBegin ==
  /\ pc = "apply"
  /\ holds' = holds \union {head} /\ netHolds' = netHolds \union {head}
  /\ flags' = flags \union {"mutated"}
  /\ Goto("applying")
  /\ UNCHANGED <<records, clone, drift, job, target, cleanup>>

\* Mutant of ApplyEnd: the removals of the cleanup manifest are not applied.
ApplyEndNoRemoval ==
  /\ pc = "applying" /\ job # "network"
  /\ holds' = holds \union {head} /\ netHolds' = netHolds \union {head}
  /\ drift' = FALSE
  /\ Goto(IF job = "full" THEN "commit" ELSE "clear")
  /\ UNCHANGED <<records, clone, locals>>

\* The playbook succeeded: HEAD is in place and the cleanup entries are gone.
ApplyEnd ==
  /\ pc = "applying" /\ job # "network"
  /\ holds' = (holds \ {cleanup}) \union {head}
  /\ netHolds' = (netHolds \ {cleanup}) \union {head}
  /\ drift' = FALSE
  /\ Goto(IF job = "full" THEN "commit" ELSE "clear")
  /\ UNCHANGED <<records, clone, locals>>

\* The restore playbook succeeded: network files only, the marker stays.
NetworkRestored ==
  /\ pc = "applying" /\ job = "network"
  /\ netHolds' = (netHolds \ {cleanup}) \union {head}
  /\ Leave("network-restored")
  /\ UNCHANGED <<records, holds, drift>>

\* Mutant of ApplyFails: a failed recovery pipeline counts as a recovery.
ApplyFailsRecovered ==
  /\ pc = "applying" /\ PipelineMayFail
  /\ IF job = "full" THEN PipelineFails /\ UNCHANGED <<records, host>>
     ELSE Goto("clear") /\ UNCHANGED <<records, clone, host, locals>>

ApplyFails ==
  /\ pc = "applying" /\ PipelineMayFail
  /\ PipelineFails
  /\ UNCHANGED <<records, host>>

-----------------------------------------------------------------------------
(* commit_success: three records, each replaced atomically, in this order. *)

Commit ==
  /\ pc = "commit" /\ current = target
  /\ last' = target /\ Goto("clearMarker")
  /\ UNCHANGED <<current, failed, lastFull, clone, host, locals>>

\* Mutant of ClearMarker: commit_success forgets current-run.
ClearMarkerForgotten ==
  /\ pc = "clearMarker"
  /\ Goto(IF NewCommit /\ failed # None THEN "clearFailed" ELSE "postFull")
  /\ UNCHANGED <<records, clone, host, locals>>

ClearMarker ==
  /\ pc = "clearMarker"
  /\ current' = None
  /\ Goto(IF NewCommit /\ failed # None THEN "clearFailed" ELSE "postFull")
  /\ UNCHANGED <<last, failed, lastFull, clone, host, locals>>

ClearFailed ==
  /\ pc = "clearFailed"
  /\ failed' = None /\ Goto("postFull")
  /\ UNCHANGED <<current, last, lastFull, clone, host, locals>>

\* commit_success is called in main itself: a failed write ends the script.
CommitAborts ==
  /\ WriteFails /\ Abort
  /\ \/ /\ pc = "commit" /\ last' \in {last, target}
        /\ UNCHANGED <<current, failed>>
     \/ /\ pc = "clearMarker" /\ current' \in {current, None}
        /\ UNCHANGED <<last, failed>>
     \/ /\ pc = "clearFailed" /\ failed' \in {failed, None}
        /\ UNCHANGED <<current, last>>
  /\ UNCHANGED <<lastFull, host>>

\* record_completed_full: audit the result, record the pass, report.
PostFull ==
  /\ pc = "postFull"
  /\ \E postcheck \in {"clean", "degraded"}, foundation \in BOOLEAN,
        recorded \in BOOLEAN :
       /\ postcheck = "clean" => ~drift
       /\ calm => foundation /\ recorded /\ (postcheck = "clean" \/ drift)
       /\ ~recorded => WriteFails
       /\ LET record == [sha |-> target, postcheck |-> postcheck,
                         age |-> "recent"]
          IN  lastFull' \in IF recorded THEN {record} ELSE {record, lastFull}
       /\ Leave(IF Suppressed THEN "failed-target-suppressed"
                ELSE IF ~recorded THEN "post-full-failure"
                ELSE IF ~foundation THEN "degraded-enrollment-foundation"
                ELSE IF postcheck = "clean" THEN "full-clean"
                ELSE "degraded-post-full")
  /\ UNCHANGED <<current, last, failed, host>>

-----------------------------------------------------------------------------
(* The pipeline of a full run failed. *)

\* Of the accepted revision: recover only past the mutation boundary.
AcceptedFailed ==
  /\ pc = "pipelineFailed" /\ target = last
  /\ IF current = target
     THEN /\ job' = "accepted" /\ Goto("record")
          /\ UNCHANGED <<clone, target, cleanup, flags>>
     ELSE Leave("failure-before-mutation")
  /\ UNCHANGED <<records, host>>

\* Mutant of RejectCandidate: the failure record replaces the marker.
RejectCandidateUnmarks ==
  /\ pc = "pipelineFailed" /\ target # last
  /\ failed' = target /\ current' = None /\ Goto("candidateFailed")
  /\ UNCHANGED <<last, lastFull, clone, host, locals>>

\* Of a candidate: suppress it first.
RejectCandidate ==
  /\ pc = "pipelineFailed" /\ target # last
  /\ \/ /\ failed' = target /\ Goto("candidateFailed")
        /\ UNCHANGED <<clone, locals>>
     \/ /\ WriteFails /\ failed' \in {failed, target} /\ Abort
  /\ UNCHANGED <<current, last, lastFull, host>>

CandidateFailed ==
  /\ pc = "candidateFailed"
  /\ IF current = target
     THEN /\ job' = "candidate" /\ cleanup' = None /\ Goto("record")
          /\ UNCHANGED <<clone, target, flags>>
     ELSE Leave("failure-before-mutation")
  /\ UNCHANGED <<records, host>>

-----------------------------------------------------------------------------
(* The environment. *)

\* Power loss or a killed process: records and host stay as they are. During a
\* git checkout it may leave the worktree half written, or only its index.lock.
CheckoutSteps == {"renderInterrupted", "checkoutLast", "audit", "prepare"}

Crash ==
  /\ pc # "idle" /\ ~calm
  /\ IF pc \in CheckoutSteps
     THEN /\ head' \in {head, branch} \union ({current, last, target} \ {None})
          /\ worktree' \in {worktree, "dirty"} \union
                           (IF "git-lock" \in Faults THEN {"locked"} ELSE {})
     ELSE UNCHANGED <<head, worktree>>
  /\ pc' = "idle" /\ outcome' = "none" /\ ClearLocals
  /\ UNCHANGED <<records, remote, branch, host, calm>>

\* The operator cleans the worktree and removes a stale lock.
OperatorRepair ==
  /\ pc = "idle" /\ worktree # "clean"
  /\ worktree' = "clean"
  /\ UNCHANGED <<records, remote, branch, head, host, pc, locals,
                 outcome, calm>>

\* bootstrap.sh on a host that never had a baseline: apply HEAD, then
\* establish_last_successful.
Enroll ==
  /\ pc = "idle" /\ last = None /\ current = None /\ ~calm
  /\ last' = head /\ holds' = {head} /\ netHolds' = {head}
  /\ UNCHANGED <<current, failed, lastFull, clone, drift, pc, locals,
                 outcome, calm>>

\* The owner pushes, or moves the branch if that is admitted.
Push ==
  /\ ~calm
  /\ \E r \in Revs \ {remote} :
       /\ AllowRewind \/ <<remote, r>> \in Ancestry
       /\ remote' = r
  /\ UNCHANGED <<records, branch, head, worktree, host, pc, locals,
                 outcome, calm>>

Drift ==
  /\ ~calm /\ ~drift /\ last # None
  /\ drift' = TRUE
  /\ UNCHANGED <<records, clone, holds, netHolds, pc, locals, outcome, calm>>

\* Time passes: one hour, then the full interval, since the last full pass.
Tick ==
  /\ lastFull.age # "expired"
  /\ lastFull' = [lastFull EXCEPT !.age = IF @ = "recent" THEN "aged"
                                          ELSE "expired"]
  /\ UNCHANGED <<current, last, failed, clone, host, pc, locals,
                 outcome, calm>>

\* From here on: no crash, no fault, no push, no failure of the accepted
\* revision. The operator has left a clean worktree.
Calm ==
  /\ ~calm /\ worktree = "clean"
  /\ calm' = TRUE
  /\ UNCHANGED <<records, clone, host, pc, locals, outcome>>

-----------------------------------------------------------------------------

Init ==
  /\ last \in MaybeRev
  /\ current = None /\ failed = None /\ lastFull = NoFull
  /\ remote \in Revs /\ branch = remote /\ head = remote
  /\ last # None => last = remote
  /\ worktree = "clean"
  /\ holds = {last} \ {None} /\ netHolds = holds /\ drift = FALSE
  /\ pc = "idle" /\ job = "none" /\ target = None /\ cleanup = None
  /\ flags = {} /\ outcome = "none" /\ calm = FALSE

\* The steps of a run after its start.
RunStep ==
  \/ UnknownHost \/ RefuseUnenrolled \/ NormalStartup \/ StartRecovery
  \/ RecordInterrupted \/ RenderInterrupted \/ CheckoutLast
  \/ RecoveryUnprepared \/ ClearRecovered
  \/ Fetch \/ FinishRecovered \/ Detect
  \/ AuditAborts \/ AuditFoundation \/ AuditClean \/ AuditDirty
  \/ PrepareAborts \/ PrepareAccepted \/ PrepareCandidate
  \/ RefuseNonFastForward \/ RefuseNoContext
  \/ Preflight \/ PreflightFails \/ Mark \/ MarkFails
  \/ ApplyBegin \/ ApplyEnd \/ NetworkRestored \/ ApplyFails
  \/ Commit \/ ClearMarker \/ ClearFailed \/ CommitAborts \/ PostFull
  \/ AcceptedFailed \/ RejectCandidate \/ CandidateFailed

Environment ==
  \/ Crash \/ OperatorRepair \/ Enroll \/ Push \/ Drift \/ Tick \/ Calm

Next ==
  \/ Start \/ RefuseDirty \/ SkipNetworkRestore \/ StartNetworkRestore
  \/ RunStep
  \/ Environment

Spec == Init /\ [][Next]_vars

\* The process makes progress, the timer starts it again after each run, and
\* time passes.
FairSpec == Spec /\ WF_vars(RunStep) /\ WF_vars(Start) /\ WF_vars(Tick)
-----------------------------------------------------------------------------
(* Properties. *)

\* Whatever is on an enrolled host belongs to last-successful-commit or to the
\* marked current-run: recovery, which renders just these two, can find all of
\* it. Without a marker the host holds the accepted revision and nothing else.
HostTracked ==
  last # None => /\ holds # {} /\ holds \subseteq {last, current}
                 /\ netHolds # {} /\ netHolds \subseteq holds

\* current-run disappears only from a host that a completed apply has brought
\* to exactly last-successful-commit, be it a recovery or an acceptance.
MarkerClearedWhenRestored ==
  [][current # None /\ current' = None => holds = {last}]_vars

\* last-successful-commit advances only to a marked revision whose apply
\* completed and left nothing of its predecessor behind.
LastAdvancesWhenApplied ==
  [][last # None /\ last' # last => current = last' /\ holds = {last'}]_vars

\* A candidate recorded in failed-target is not applied again, be it by a full
\* run, a recovery or the restoration at boot, unless the operator forces a
\* retry of the full run.
SuppressedNotRetried ==
  pc = "applying" /\ head = failed => head = last \/ (job = "full" /\ Retry)

\* A run that could not fetch neither moves last-successful-commit nor records
\* or clears a failed target, whatever it repairs.
OfflineKeepsAuthority ==
  [][~Fetched /\ target # None => last' = last /\ failed' = failed]_vars

\* The full-pass record is written only for the accepted revision, after its
\* marker is gone: a crash in between costs another full pass, never a skip.
FullRecordAfterCommit ==
  [][lastFull'.age = "recent" /\ lastFull' # lastFull
       => current = None /\ lastFull'.sha = last /\ holds = {last}]_vars

\* A run that reports success or recovery leaves exactly the accepted revision
\* on the host.
ReportedMeansRestored ==
  outcome \in {"fast-clean", "fast-offline-clean", "full-clean",
               "recovery-success", "failure-recovered"} => holds = {last}

\* networkd starts at boot with the accepted network files and no others:
\* after a restoration, and when the runner decided that none was needed.
BootNetworkAccepted ==
  outcome \in {"network-restored", "network-not-required"} /\ last # None
    => netHolds = {last}

\* Once the environment is calm, an enrolled host comes to hold its accepted
\* revision undrifted and unmarked, and the remote head is accepted or rejected.
Settled ==
  /\ pc = "idle" /\ current = None /\ holds = {last} /\ ~drift
  /\ remote \in {last, failed}

Converges == calm /\ last # None ~> Settled
=============================================================================
