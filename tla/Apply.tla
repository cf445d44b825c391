------------------------------- MODULE Apply -------------------------------
(***************************************************************************)
(* One reconciliation at the level of files and units: the cleanup list of *)
(* write_ansible_vars (state/removals.py), the check-mode pass, and the    *)
(* Ansible families that recheck, remove, publish and activate.            *)
(*                                                                         *)
(* CoreDNS has a family of its own: a path unit watches its zone files and *)
(* reloads it when they change, unless the apply has stopped the watcher.  *)
(*                                                                         *)
(* Left out: directories (published, never removed), validators, modes and *)
(* owners.  Vault Agent, Quadlets and Caddy publish and remove like the    *)
(* families modelled here.                                                 *)
(***************************************************************************)
EXTENDS Naturals, FiniteSets, Functions

CONSTANTS
  Files,       \* target paths
  Kind,        \* the kind of each of them
  Owner,       \* the unit file a file configures; a network file owns itself
  Contents,    \* what a manifest may ask for
  Manifests,   \* desired states: functions from some files to their content
  Absent, Foreign, Nothing,   \* no file; content of the operator; no manifest
  Faults,      \* "failure": a task fails; "power": the host loses power
  MaxEdits     \* bound: out-of-band edits of the operator

Kinds == {"netdev", "network", "unit", "dropin", "config", "residue", "corefile", "zone"}

ASSUME FilesAssumption ==
  /\ Kind \in [Files -> Kinds] /\ Owner \in [Files -> Files]
  /\ \A f \in Files : Kind[f] \in {"netdev", "network", "unit"} => Owner[f] = f
  /\ \A f \in Files : Kind[f] \notin {"netdev", "network"}
                        => Kind[Owner[f]] = "unit"
  /\ \A m \in Manifests : DOMAIN m \subseteq Files /\ m \in [DOMAIN m -> Contents]
  /\ Absent \notin Contents /\ Foreign \notin Contents /\ Absent # Foreign
  /\ Nothing \notin Manifests
  /\ Faults \subseteq {"failure", "power"} /\ MaxEdits \in Nat

VARIABLES
  accepted,   \* the manifest of last-successful-commit
  candidate,  \* the manifest of the revision under trial
  pending,    \* whose mutation current-run marks: "none", "candidate", "accepted"
  live,       \* what is at each path
  running,    \* the content each network, unit or configuration file is in force with
  loaded,     \* unit files as the system manager last read them
  pc, job,    \* where a run stands, and what it is for
  family,     \* the Ansible family under way
  cleanup,    \* abhaile_candidate_cleanup_entries
  changed,    \* paths a task of this run reported as changed
  edited,     \* history: edited since this run last looked at them
  edits,      \* history: how many edits there were
  watcher,    \* coredns-zones.path: "active" or "stopped"
  woken,      \* the reload that the watcher has started is under way
  halted      \* history: a run stopped half-way since the last boot

runtime == <<running, loaded>>
revisions == <<accepted, candidate>>
history == <<edited, edits, halted>>
locals == <<job, family, cleanup, changed>>
watch == <<watcher, woken>>
vars == <<revisions, pending, live, runtime, pc, locals, history, watch>>

\* An entry kind belongs to one family; drop-ins, Caddy files and the Corefile
\* have no cleanup of their own.
Family(f) == CASE Kind[f] \in {"netdev", "network"} -> "network"
               [] Kind[f] \in {"unit", "dropin"} -> "unit"
               [] Kind[f] \in {"corefile", "zone"} -> "dns"
               [] OTHER -> "config"
Families == {"network", "unit", "config", "dns"}
Files_(fam) == {f \in Files : Family(f) = fam}
Removable(f) == Kind[f] \notin {"dropin", "residue", "corefile"}
Zones == {f \in Files : Kind[f] = "zone"}

Named(m) == IF m = Nothing THEN {} ELSE DOMAIN m
Desired(j) == IF j = "candidate" THEN candidate ELSE accepted

\* Mutant of Source: recovery renders no manifest of the interrupted candidate.
SourceForgotten(j) == IF j = "candidate" THEN accepted ELSE Nothing

Source(j) == CASE j = "candidate" -> accepted
               [] j = "recovery" -> candidate
               [] OTHER -> Nothing

\* classify_manifest_removals: what only the removal source names, residue aside.
Considered(j) ==
  {f \in Named(Source(j)) \ Named(Desired(j)) : Kind[f] # "residue"}
Matching(j) == {f \in Considered(j) : live[f] = Source(j)[f]}

\* Mutant of Missing: a file that is gone counts as a mismatch.
MissingBlocks(j) == {}

Missing(j) == {f \in Considered(j) : live[f] = Absent}
Blocked(j) == Considered(j) \ (Matching(j) \union Missing(j))

TypeOK ==
  /\ accepted \in Manifests /\ candidate \in Manifests
  /\ pending \in {"none", "candidate", "accepted"}
  /\ live \in [Files -> Contents \union {Absent, Foreign}]
  /\ running \in [Files -> Contents \union {Absent, Foreign}]
  /\ loaded \in [Files -> Contents \union {Absent, Foreign}]
  /\ pc \in {"idle", "preflight", "deactivate", "unwatch", "recheck", "remove",
             "publish", "settle", "activate", "reload", "commit", "clear"}
  /\ job \in {"none", "candidate", "recovery", "reconcile"}
  /\ family \in Families
  /\ cleanup \subseteq Files /\ changed \subseteq Files /\ edited \subseteq Files
  /\ edits \in 0..MaxEdits /\ halted \in BOOLEAN
  /\ watcher \in {"active", "stopped"} /\ woken \in BOOLEAN

\* What the system manager reads of the files.
UnitFiles(files) == [f \in Files |-> IF Family(f) = "unit" THEN files[f] ELSE Absent]

\* A host whose units run what its accepted manifest says.
Init ==
  /\ accepted \in Manifests /\ candidate \in Manifests
  /\ live = [f \in Files |-> IF f \in DOMAIN accepted THEN accepted[f] ELSE Absent]
  /\ running = [f \in Files |-> IF Owner[f] \in DOMAIN accepted
                                THEN live[f] ELSE Absent]
  /\ loaded = UnitFiles(live)
  /\ pending = "none" /\ pc = "idle" /\ job = "none" /\ family = "network"
  /\ cleanup = {} /\ changed = {} /\ edited = {} /\ edits = 0
  /\ halted = FALSE /\ watcher = "active" /\ woken = FALSE

-----------------------------------------------------------------------------
(* The run. *)

Goto(step) == pc' = step /\ UNCHANGED <<revisions, pending, job>>

\* The run ends; what it registered is gone.
Forget ==
  /\ pc' = "idle" /\ job' = "none" /\ family' = "network"
  /\ cleanup' = {} /\ changed' = {} /\ edited' = {}

\* What the runner may start: recovery before anything else.
Startable ==
  IF pending = "none"
  THEN {"reconcile"} \union (IF candidate # accepted THEN {"candidate"} ELSE {})
  ELSE {IF pending = "candidate" /\ candidate # accepted
        THEN "recovery" ELSE "reconcile"}

\* write_ansible_vars: any blocked path ends the run.
Begin ==
  /\ pc = "idle"
  /\ \E j \in Startable :
       /\ Blocked(j) = {}
       /\ job' = j /\ cleanup' = Matching(j)
  /\ pc' = "preflight" /\ edited' = {}
  /\ UNCHANGED <<revisions, pending, live, runtime, family, changed, edits, halted, watch>>

\* Every family runs for what is to be removed as for what is desired, but for
\* CoreDNS, which runs only where the desired state has it.
HasDns(m) == \E f \in Named(m) : Family(f) = "dns"
Runs(fam) == fam # "dns" \/ HasDns(Desired(job))

\* The assertions that hold of an identity look: a removable file is what the
\* source manifest says, and no interface definition is to change.
Verified(fam) == Runs(fam) =>
  /\ \A f \in cleanup \intersect Files_(fam) : live[f] = Source(job)[f]
  /\ fam = "network" => \A f \in Named(Desired(job)) :
       Kind[f] = "netdev" => live[f] \in {Absent, Desired(job)[f]}

\* The exactness of the family selection: every cleanup entry has a family.
Exact == \A f \in cleanup : Removable(f)

\* Mutant of Preflight: no count of the selected cleanup entries.
PreflightInexact ==
  /\ pc = "preflight"
  /\ \A fam \in Families : Verified(fam)
  /\ pending' = IF pending # "none" THEN pending
                ELSE IF job = "candidate" THEN "candidate" ELSE "accepted"
  /\ pc' = "recheck" /\ family' = "network"
  /\ UNCHANGED <<revisions, live, runtime, job, cleanup, changed, history, watch>>

\* Mutant of Preflight: the marker is left to the end of the apply.
PreflightUnmarked ==
  /\ pc = "preflight"
  /\ Exact /\ \A fam \in Families : Verified(fam)
  /\ pc' = "recheck" /\ family' = "network"
  /\ UNCHANGED <<revisions, pending, live, runtime, job, cleanup, changed, history, watch>>

\* do_ansible_check, then mark_mutation unless a marker is already there.
Preflight ==
  /\ pc = "preflight"
  /\ Exact /\ \A fam \in Families : Verified(fam)
  /\ pending' = IF pending # "none" THEN pending
                ELSE IF job = "candidate" THEN "candidate" ELSE "accepted"
  /\ pc' = "recheck" /\ family' = "network"
  /\ UNCHANGED <<revisions, live, runtime, job, cleanup, changed, history, watch>>

\* An identity is not what it was: the check pass or the apply stops there.
CheckFails ==
  /\ \/ pc = "preflight" /\ ~(Exact /\ \A fam \in Families : Verified(fam))
     \/ pc \in {"deactivate", "recheck"} /\ ~Verified(family)
  /\ Forget /\ halted' = TRUE
  /\ UNCHANGED <<revisions, pending, live, runtime, edits, watch>>

\* rootful_systemd: identity look, then the candidate-only units are stopped,
\* the watcher before CoreDNS itself.
Deactivate ==
  /\ pc = "deactivate" /\ Verified("unit")
  /\ running' = [f \in Files |-> IF Owner[f] \in cleanup THEN Absent ELSE running[f]]
  /\ watcher' = IF \E f \in Zones : Owner[f] \in cleanup THEN "stopped" ELSE watcher
  /\ Goto("recheck")
  /\ UNCHANGED <<live, loaded, family, cleanup, changed, history, woken>>

\* Mutant of Recheck: the recorded evidence is not looked at again.
RecheckTrusting ==
  /\ pc = "recheck"
  /\ edited' = edited \ (cleanup \intersect Files_(family))
  /\ Goto("remove")
  /\ UNCHANGED <<live, runtime, family, cleanup, changed, edits, halted, watch>>

\* The last look before removal.
Recheck ==
  /\ pc = "recheck" /\ Verified(family)
  /\ edited' = edited \ (cleanup \intersect Files_(family))
  /\ Goto("remove")
  /\ UNCHANGED <<live, runtime, family, cleanup, changed, edits, halted, watch>>

\* What the family under way removes and publishes.
ToRemove == {f \in cleanup \intersect Files_(family) : Removable(f)}
ToPublish == Named(Desired(job)) \intersect Files_(family)

\* Mutant of Unwatch: only a change of the Corefile stops the watcher.
UnwatchForCorefile ==
  /\ pc = "unwatch"
  /\ watcher' = IF \E f \in ToPublish : Kind[f] = "corefile" /\ live[f] # Desired(job)[f]
                THEN "stopped" ELSE watcher
  /\ Goto("recheck")
  /\ UNCHANGED <<live, runtime, family, cleanup, changed, history, woken>>

\* coredns_config: the watcher is stopped if the batch will change anything.
Unwatch ==
  /\ pc = "unwatch"
  /\ watcher' = IF \/ cleanup \intersect Files_("dns") # {}
                   \/ \E f \in ToPublish : live[f] # Desired(job)[f]
                THEN "stopped" ELSE watcher
  /\ Goto("recheck")
  /\ UNCHANGED <<live, runtime, family, cleanup, changed, history, woken>>

\* The watcher notices every change in the directory of the zones.
Notice ==
  /\ woken' = (woken \/ (watcher = "active" /\ \E f \in Zones : live'[f] # live[f]))
  /\ UNCHANGED watcher

\* A loop of a task over part or all of its entries.
RemoveFiles(S) ==
  /\ live' = [f \in Files |-> IF f \in S THEN Absent ELSE live[f]]
PublishFiles(S) ==
  /\ live' = [f \in Files |-> IF f \in S THEN Desired(job)[f] ELSE live[f]]

Remove ==
  /\ pc = "remove"
  /\ RemoveFiles(ToRemove)
  /\ changed' = changed \union {f \in ToRemove : live[f] # Absent}
  /\ Goto("publish") /\ Notice
  /\ UNCHANGED <<runtime, family, cleanup, history>>

Publish ==
  /\ pc = "publish"
  /\ PublishFiles(ToPublish)
  /\ changed' = changed \union {f \in ToPublish : live[f] # Desired(job)[f]}
  /\ Goto("settle") /\ Notice
  /\ UNCHANGED <<runtime, family, cleanup, history>>

\* The loop of the CoreDNS family is not atomic: the watcher may look in between.
PublishOne ==
  /\ pc = "publish" /\ family = "dns"
  /\ \E f \in ToPublish :
       /\ live[f] # Desired(job)[f] /\ PublishFiles({f})
       /\ changed' = changed \union {f}
  /\ Goto("publish") /\ Notice
  /\ UNCHANGED <<runtime, family, cleanup, history>>

\* What a family does at once: networkd reloads what changed, the unit family
\* reloads the system manager, a configuration only notes its restart.
Settle ==
  /\ pc = "settle"
  /\ running' = [f \in Files |-> IF family = "network" /\ f \in changed
                                 THEN live[f] ELSE running[f]]
  /\ loaded' = [f \in Files |->
                 IF /\ family = "unit" /\ Family(f) = "unit"
                    /\ changed \intersect Files_("unit") # {}
                 THEN live[f] ELSE loaded[f]]
  /\ CASE family = "network" -> family' = "unit" /\ Goto("deactivate")
       [] family = "unit" -> family' = "config" /\ Goto("recheck")
       [] family = "config" /\ Runs("dns") -> family' = "dns" /\ Goto("unwatch")
       [] OTHER -> family' = family /\ Goto("activate")
  /\ UNCHANGED <<live, cleanup, changed, history, watch>>

\* Mutant of Activate: changes of configuration do not restart their unit.
ActivateUnitsOnly ==
  /\ pc = "activate"
  /\ LET started == {u \in Named(Desired(job)) :
                       Kind[u] = "unit" /\ (u \in changed \/ running[u] = Absent)}
     IN running' = [f \in Files |->
                     IF Owner[f] \in started
                     THEN IF Family(f) = "unit" THEN loaded[f] ELSE live[f]
                     ELSE running[f]]
  /\ watcher' = IF HasDns(Desired(job)) THEN "active" ELSE watcher
  /\ Goto("reload")
  /\ UNCHANGED <<live, loaded, family, cleanup, changed, history, woken>>

\* Deferred activation: the desired units with a changed unit file or
\* configuration are restarted, and the stopped ones are started, the watcher
\* of the zones with them.
Activate ==
  /\ pc = "activate"
  /\ LET units == {u \in Named(Desired(job)) : Kind[u] = "unit"}
         started == {u \in units : \/ \E f \in changed \ Zones : Owner[f] = u
                                   \/ running[u] = Absent}
     IN running' = [f \in Files |->
                     IF Owner[f] \in started
                     THEN IF Family(f) = "unit" THEN loaded[f] ELSE live[f]
                     ELSE running[f]]
  /\ watcher' = IF HasDns(Desired(job)) THEN "active" ELSE watcher
  /\ Goto("reload")
  /\ UNCHANGED <<live, loaded, family, cleanup, changed, history, woken>>

\* Zones that changed alone are reloaded; what was changed with the Corefile or
\* the unit was loaded by the restart.
Reload ==
  /\ pc = "reload"
  /\ LET zones == {f \in changed \intersect Zones :
                     \A g \in changed \ Zones : Owner[g] # Owner[f]}
     IN running' = [f \in Files |->
                     IF Family(f) = "dns" /\ \E z \in zones : Owner[z] = Owner[f]
                     THEN live[f] ELSE running[f]]
  /\ Goto("commit")
  /\ UNCHANGED <<live, loaded, family, cleanup, changed, history, watch>>

\* Mutant of Commit: the manifest that was the removal source is accepted.
CommitSource ==
  /\ pc = "commit"
  /\ accepted' = Source(job) /\ pc' = "clear"
  /\ UNCHANGED <<candidate, pending, live, runtime, locals, history, watch>>

\* commit_success: the record of the accepted revision, then the marker.
Commit ==
  /\ pc = "commit"
  /\ accepted' = Desired(job) /\ pc' = "clear"
  /\ UNCHANGED <<candidate, pending, live, runtime, locals, history, watch>>

Clear ==
  /\ pc = "clear"
  /\ pending' = "none"
  /\ Forget
  /\ UNCHANGED <<revisions, live, runtime, edits, halted, watch>>

-----------------------------------------------------------------------------
(* Faults and the operator. *)

\* Another task fails: the play stops there, in the middle of a loop perhaps.
Interrupt ==
  /\ pc # "idle" /\ "failure" \in Faults
  /\ \/ UNCHANGED live
     \/ pc = "remove" /\ \E S \in SUBSET ToRemove : RemoveFiles(S)
     \/ pc = "publish" /\ \E S \in SUBSET ToPublish : PublishFiles(S)
  /\ Forget /\ halted' = TRUE /\ Notice
  /\ UNCHANGED <<revisions, pending, runtime, edits>>

\* A reboot starts everything from the files.
PowerLoss ==
  /\ "power" \in Faults
  /\ \/ UNCHANGED live
     \/ pc = "remove" /\ \E S \in SUBSET ToRemove : RemoveFiles(S)
     \/ pc = "publish" /\ \E S \in SUBSET ToPublish : PublishFiles(S)
  /\ running' = [f \in Files |-> IF live'[Owner[f]] # Absent THEN live'[f] ELSE Absent]
  /\ loaded' = UnitFiles(live)' /\ watcher' = "active" /\ woken' = FALSE
  /\ Forget /\ halted' = FALSE
  /\ UNCHANGED <<revisions, pending, edits>>

\* The operator deletes or changes a file at any moment.
Edit ==
  /\ edits < MaxEdits
  /\ \E f \in Files, c \in {Absent, Foreign} :
       /\ live[f] # c /\ live' = [live EXCEPT ![f] = c]
       /\ edited' = edited \union {f}
  /\ edits' = edits + 1 /\ Notice
  /\ UNCHANGED <<revisions, pending, runtime, pc, locals, halted>>

\* coredns-zones.service: reload CoreDNS if it is active.
WatcherReload ==
  /\ woken /\ woken' = FALSE
  /\ running' = [f \in Files |->
                  IF Family(f) = "dns" /\ running[Owner[f]] # Absent
                  THEN live[f] ELSE running[f]]
  /\ UNCHANGED <<revisions, pending, live, loaded, pc, locals, history, watcher>>

RunStep ==
  \/ Begin \/ Preflight \/ Deactivate \/ Unwatch \/ Recheck \/ Remove
  \/ Publish \/ Settle \/ Activate \/ Reload \/ Commit \/ Clear \/ CheckFails

Next == RunStep \/ PublishOne \/ Interrupt \/ PowerLoss \/ Edit \/ WatcherReload

Spec == Init /\ [][Next]_vars

\* The timer starts run after run, and Ansible goes from task to task.
FairSpec == Spec /\ WF_vars(RunStep)

-----------------------------------------------------------------------------
(* Properties. *)

\* A run deletes a file only if its content is what the manifest that is going
\* away put there; the operator may have changed it since the last look, which
\* is the window that removal by path leaves (rootful_systemd/tasks/main.yml:116).
RemovedWasVerified ==
  [][\A f \in Files :
       pc = "remove" /\ live[f] # Absent /\ live'[f] = Absent /\ edits' = edits
         => f \in edited \/ live[f] = Source(job)[f]]_vars

\* What a run changes on the host is covered by the marker, so that a later run
\* knows to recover (abhaile-runner:459).
ChangesAreMarked ==
  [][live' # live /\ edits' = edits => pending # "none"]_vars

\* When a run commits, every desired file is in place and no file of the other
\* manifest is left, save what the operator edited meanwhile, inert residue, and
\* the zones of a CoreDNS that is not desired any more: its family is not run for
\* them (main.yml:277), which takes an operator who deleted the Corefile.
CommittedIsDesired ==
  pc = "commit" =>
    /\ \A f \in Named(Desired(job)) \ edited : live[f] = Desired(job)[f]
    /\ \A f \in Considered(job) \ edited : Runs(Family(f)) => live[f] = Absent

\* When a run commits, networks and units are in force with what is desired,
\* whatever was edited before the run and whatever a power loss cut off; a file
\* edited during the run, and a run that stopped half-way since the last boot and
\* took its change reports with it, are excepted
\* (rootful_systemd/tasks/activate.yml:14).
CommittedIsRunning ==
  pc = "commit" /\ ~halted /\ edited = {} =>
    /\ \A f \in Named(Desired(job)) :
         Owner[f] \in Named(Desired(job)) => running[f] = Desired(job)[f]
    /\ HasDns(Desired(job)) => watcher = "active"

\* CoreDNS does not load part of a batch of zones: while one is published nothing
\* makes it load its files, as long as the operator does not touch them
\* (coredns_config/tasks/main.yml:124).
NoReloadAmidBatch ==
  [][family = "dns" /\ pc \in {"remove", "publish"} /\ pc' = pc /\ edits = 0
       => running' = running]_vars

-----------------------------------------------------------------------------
(* What the apply means to the runner, and recovery. *)

\* What is left of a manifest on the host that the other one does not ask for.
Trace(m, other) ==
  \E f \in DOMAIN m : /\ Kind[f] # "residue" /\ live[f] = m[f]
                      /\ Kind[f] = "zone" => HasDns(other)
                      /\ ~(f \in DOMAIN other /\ other[f] = m[f])

Held == (IF pc \in {"commit", "clear"} THEN {Desired(job)} ELSE {accepted})
          \union (IF Trace(accepted, candidate) THEN {accepted} ELSE {})
          \union (IF Trace(candidate, accepted) THEN {candidate} ELSE {})

\* The revision that current-run names.
Marked == CASE pending = "none" -> Nothing
            [] pending = "candidate" -> candidate
            [] OTHER -> accepted

Promise == INSTANCE AcceptedHost WITH Revs <- Manifests, None <- Nothing,
                                      contents <- Held, pending <- Marked

\* File by file, the apply keeps what the runner's records promise: nothing of a
\* revision on the host but the accepted one's and the marked one's, and
\* acceptance or the end of a recovery only when one of them is gone.
FilesKeepPromise == Promise!Spec

\* The pending recovery is one that Ansible can complete: every candidate-only
\* file is untouched or gone and of a kind with a cleanup, no interface
\* definition was changed.
Repairable ==
  /\ \A f \in DOMAIN candidate \ DOMAIN accepted :
       \/ Kind[f] = "residue"
       \/ live[f] = Absent
       \/ Removable(f) /\ live[f] = candidate[f]
  /\ \A f \in DOMAIN accepted :
       Kind[f] = "netdev" => live[f] \in {Absent, accepted[f]}

\* Once faults and edits stop, a repairable host is recovered however its last
\* apply was cut off.
Recovers ==
  (<>[][RunStep]_vars /\ <>[](pending # "none" => Repairable))
    => []<>(pending = "none")
=============================================================================
