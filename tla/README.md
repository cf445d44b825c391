# Abhaile: TLA+ models and proofs

Abhaile keeps a handful of home servers in the state a Git branch describes. On
each host a timer starts `scripts/abhaile-runner`, which renders the
configuration of a commit and applies it with Ansible. This directory models
what such a run must get right: its survival of power losses and half-failed
steps, the removal and activation of files on the host, the two audits that
decide about a repair, and the rendering of the configuration itself. TLC checks
the models on small instances; TLAPS proves every safety property that a run checks
for every instance.

Paths are relative to the repository; Python modules below `src/src/abhaile`.

## The system

| Component | State it keeps | Operations | Interacts with | Modelled in |
|---|---|---|---|---|
| Runner (`scripts/abhaile-runner`, its timer and two services) | shell variables, the checked-out commit, `last-run-summary` | start-up recovery, fetch, audit, full reconciliation, network restoration at boot | records, Git, render CLI, Ansible, audits | `Runner` |
| Durable state records (`state/reconciliation.py`) | `current-run`, `last-successful-commit`, `failed-target`, `last-full-reconciliation` | read, atomic replace, conditional clear, classify start-up and schedule | called by runner and bootstrap | `Runner`, `Schedule` |
| Removal classification (`state/removals.py`) | none (reads two manifests and the live files) | classify manifest-only files as matching, missing or blocked | feeds Ansible's cleanup | `Apply` |
| Ansible orchestration (`ansible/`) | files, units and containers of the host | select families, recheck, remove, publish, activate | fed by manifest and cleanup | `Apply` (partly) |
| Integrity audit (`integrity.py`) | none | compare manifest entries with live files, in two scopes | runner, before and after a full pass | `IntegrityAudit` |
| Health audit (`health.py`) | none | probe units, containers, images, addresses, DNS | runner and operator | `HealthAudit` |
| Render pipeline (`cli/render.py`, `renderers/`, `models/`) | output directory and manifest | validate, wipe, render, register, write the manifest | everything above consumes it | `Render`, `Users`, `Quadlets` (partly) |
| DNS (`dns/`) | none; zone serial and declared hash are configuration | derive records, render zones, validate serials | render pipeline | `Dns` |
| Composition and utilities (`utils/`) | none | expand includes, merge fields, resolve placeholders | render pipeline | `Composition`, `Dns` (partly) |
| Validation (`validation/`) | none | schema and cross-reference checks | render pipeline, CI | `Users`, `Dns`, `Render` (partly) |
| Operator CLIs (`cli/mosquitto_passwords.py`, `cli/inventory.py`) | a password file | replace it; print an inventory | operator | no |
| Bootstrap and installers (`scripts/bootstrap.sh`, `scripts/install-*`) | installed units, the first accepted revision | stages of first installation | records | `Runner` (enrollment only) |

What is hard, and what makes a component correct:

- **Runner and records.** A power loss may fall between any two durable steps, and
  during the recovery from a power loss; records are replaced one at a time; checkouts and
  writes may fail. Whatever is on the host must be named by a record, the marker
  must go only when the host is restored, a failed candidate is not applied again,
  and the host settles when faults stop.
- **Apply.** Files are classified before an apply and removed during it, while the
  operator may edit; publication and activation are far apart; CoreDNS is
  reloaded by a watcher that the apply must silence.
- **Schedule.** Boundary ages, clocks that go back, deferred repairs.
- **Audits.** They look at one thing after another while the host changes: what
  does a verdict say about the host at all?
- **Rendering.** Renderers that know nothing of one another write one tree; the
  run may be killed anywhere; members of a composition disagree; hosts render
  different revisions of the same zone.

## Modules

| Module | What it is |
|---|---|
| `Runner`, `AcceptedHost`, `RunnerInvariant`, `RunnerProofs`, `MCRunner` | the runner; the abstract promise of its records; the inductive invariant and the refinement mapping; theorems; the TLC instance |
| `Apply`, `ApplyInvariant`, `ApplyProofs`, `MCApply` | one reconciliation on the level of files and units, which implements `AcceptedHost` too; the invariants; theorems about files and records, and about what is in force; instance |
| `Schedule`, `ScheduleProofs`, `MCSchedule` | when a run traverses everything and when it only audits; theorems; instance |
| `HealthAudit`, `HealthAuditProofs`, `MCHealthAudit` | the health audit over a host that changes; theorems; instance |
| `IntegrityAudit`, `IntegrityAuditProofs`, `MCIntegrityAudit` | the integrity audit over files that are replaced meanwhile; theorems; instance |
| `Render`, `RenderProofs`, `MCRender` | a render run over one or all hosts; theorems; instance |
| `Users` | accounts of a host |
| `QuadletHosts`, `Quadlets` | the services a host may have; its containers |
| `HostServicesProofs`, `MCHostServices` | theorems about both; the two composed into one run, instance |
| `Composition`, `Dns`, `DnsProofs`, `MCDns` | include chains; zones of several hosts over edits of the operator; theorems about both; instance |

### Runner

| Variable | In the code |
|---|---|
| `current`, `last`, `failed`, `lastFull` | the four files of the state directory; `lastFull.age` is the class of the elapsed time: `recent` is under an hour, `expired` is past the full interval or in the future |
| `remote`, `branch`, `head`, `worktree` | `origin/main` on the server, the local branch, the checked-out commit, and whether the worktree is clean, half written, or has a stale `index.lock` |
| `holds`, `netHolds`, `drift` | the revisions some of whose managed resources may be on the host; the same for network files only; an out-of-band change |
| `pc` | where the script stands; `idle` is the free lock |
| `job` | which pipeline is under way: the full one, one of three recoveries, or the network restoration |
| `target`, `cleanup` | `target_sha`; the revision whose manifest is passed as the removal source |
| `flags` | `fetch_available`, `RECOVERED_LAST_SUCCESSFUL`, `suppressed`, the two force variables; and whether this run mutated the host |
| `outcome` | the outcome of `last-run-summary` |
| `calm` | no more faults (only for liveness) |

An action ends where the script makes something durable, and its guard is the
condition under which the script gets there. A run goes through `Start`, the
start-up classification, possibly a recovery (`RecordInterrupted`,
`RenderInterrupted`, `CheckoutLast`, `Preflight`, `ApplyBegin`, `ApplyEnd`,
`ClearRecovered`), `Fetch`, `Detect`, then an audit or a preparation, `Preflight`,
`Mark`, `ApplyBegin`, `ApplyEnd`, the three steps of `commit_success`, and
`PostFull`. A failing pipeline goes through `AcceptedFailed`, or through
`RejectCandidate` and `CandidateFailed`. `Crash` may cut any of this.

- *Revisions instead of files.* `holds` says which revisions may have left
  resources. Applying a commit adds it; only the cleanup of a completed apply
  removes one, and only the one whose manifest the script passed. `Apply` does
  the same file by file.
- *errexit.* `recover_last_successful` is called as a condition, so `set -e` is
  off inside it. In the model a failing write or checkout there is ignored, as in
  the code, while the same command in `main` ends the script (`Abort`).
- *Writes.* `_write_record` replaces the file and then syncs the directory. It
  may fail before the replacement or after it, and the actions allow both.

The environment: crashes, the operator's clean-up, enrollment by bootstrap, pushes
(also to a non-descendant when `AllowRewind`), drift, and time.
`Faults` names the rarer faults a run of TLC admits: `state-write` (a record
operation fails) and `git-lock` (a crash leaves `index.lock`).

`AcceptedHost` is the promise: one accepted revision, at most one pending
revision, and contents that come only from these two. Under `accepted <- last`,
`pending <- current`, `contents <- holds` every step of `Runner` is a step of it or
a stutter.

### Apply

`live` is what is at each path, `running` the content it is in force with,
`loaded` what the system manager last read. A run is one of three jobs (a
candidate with the accepted manifest as removal source, a recovery with the
candidate's, a reconciliation without one) and goes through `Begin`
(`write_ansible_vars`: any blocked path ends it), `Preflight` (check mode, then the
durable marker), and for each family `Recheck`, `Remove`, `Publish`, `Settle`: networkd,
native units (with `Deactivate` before), service configuration, CoreDNS. Then
`Activate` restarts what this run changed and starts what is stopped, `Reload`
has CoreDNS read zones that changed alone, and `Commit` and `Clear` are
`commit_success`. A failing task or a power loss stops a run anywhere, in the middle
of a loop too; a reboot starts everything from the files. `changed` is lost with the run:
history variable `halted` notes that this happened since the last boot.

CoreDNS is the family with an actor of its own: `coredns-zones.path` notices any
change below its directory (`Notice`) and some time later reloads CoreDNS
(`WatcherReload`). `Unwatch` stops it if the batch is going to change anything,
`Activate` starts it again; between them lie the tasks of three roles.
`PublishOne` lets the watcher look while only part of a batch is there.

`FilesKeepPromise` is the refinement of `AcceptedHost`, with `pending` the revision that
`current-run` names (`Marked`) and `contents` computed from the files: a revision is held as long as one of its files is there that the
other revision does not ask for.

### Schedule

The record of the last full pass, its age on a clock that the operator may set,
the configured interval (unset, malformed, below the minimum, valid), and the
decision of a run: traverse, audit, repair at once, defer. `since` is the true
time since the record was written, which the code cannot see.

### HealthAudit and IntegrityAudit

`HealthAudit` takes the list of probes that manifest, mapping and profile call for
(`Due`), runs them one after the other in the code's order of checks (`Rank`),
and lets units, containers and servers change between any two. Units are known by
name and manager, since the system manager and a user's may each have one of that name.
A service that is inactive takes a second question (is it a oneshot that
succeeded?), a comparison of serials one question per server.
`seen` is the history of the states each resource had during the audit.

`IntegrityAudit` steps through `lstat`, `open`, reads, and the second `fstat`
for each entry while other processes replace, overwrite, truncate or
`chmod` the files and system calls fail. History: `held` (entries that were in place at some
instant), `lost` (entries that were not, at some instant), `torn` (overwritten
while read).

### Render

A run empties the output of each host, writes each renderer's files and
registers them with the collector, adds parent directories, hashes, writes the manifest and
checks the serials; a kill may fall anywhere, and the next run, of another revision
or host, finds what is left. Configurations are reduced to the entries they make
each renderer write, in order; each renderer's filter passes over the entries of a
service that another renderer takes (`LeftOut`, `PassOver`). `Parents` walks from
each directory that was registered towards the root and fails where a parent was registered with other
metadata or cannot be rendered. What the validation before the first host looks at is one
boolean of the configuration (`Valid`), so nothing is claimed of it here; `Users` and `Dns` model
the part of it that concerns them. `FinishedIsDeclared` reads off the configuration what a host is to have
(`DeclaredFor`, `InForce`), without the renderers, their filters and their order, and compares it with the manifest.

### Users, Quadlets, MCHostServices

`Users` merges what the members of an include chain declare of accounts,
member by member, after the early checks; then writes the account database, the sudo
policy and the keys. `Quadlets` has the three loops of the code: services (`todo`), the
`containers` of the one that is rendered and the `volumes` of the first of these; then the
networks and the manifest. `RenderVolume` registers who mounts what (`mounted`), the volume
file, which is private or shared by name, and the directory behind a private one; `requires` is what the first registration of
each unit said. A service that the host names twice fails the second time. `MCHostServices` extends both and
runs one after the other, as the renderer does; hence the names of their own for
`QuadletsInit`, `QuadletsNext` and `QuadletsSpec`.

### Composition and Dns

`Composition` is the depth-first walk over includes: a recursive function of the
walk under way (the order so far, who is still to be visited, who is being
visited), whose one step is `Visit`. It is compared with a definition by
reachability (`WalkIsExact`). `Dns` edits records and deployments (`Rewrite`), the
serial (`Bump`) and the declared hash (`Stamp`) and renders on any host at
any time; `served` is what each host last rendered, file by file. The tree of a
host is computed as the code does: zone after zone, file after file, one write for
each service that provides the zone (`Writes`), and a later write to a file replaces
the earlier one (`Tree`). Nothing keeps the operator from listing a zone twice, with different
providers for example; here both listings then declare the same serial and hash.
Nothing is rendered unless every service that some host runs, and everything it includes, is defined
(`DefinitionsValid`); what the serials are validated against is the first matching entry that has
a template (`Templated`).

## Runs

| Run | Instance | Shows |
|---|---|---|
| `safety` (`RunnerSafety.cfg`) | 3 commits, rewinds, failing writes | `IInv`; `HostTracked`: the records account for what is on the host; `ReportedMeansRestored`; `BootNetworkAccepted`; the refinement; the marker goes only from a restored host, acceptance and full record come in order; no run, recovery or boot restoration applies a failed candidate |
| `authority` (`RunnerLocks.cfg`) | 2 commits, rewinds, both faults | a run that could not fetch changes no authority |
| `liveness` (`RunnerLiveness.cfg`) | 2 commits, no rewind, failing writes, fairness | `Converges` |
| `locked_recovery` | 2 commits, `git-lock` | violated: finding 1 |
| `apply` (`Apply.cfg`) | 8 files of 7 kinds, 3 desired states, failures, power losses, one edit | what a run commits is on the host (`CommittedIsDesired`) and in force (`CommittedIsRunning`); it deletes only what it verified; it changes nothing unmarked; CoreDNS loads no half batch; the refinement; `Recovers` |
| `schedule` (`Schedule.cfg`) | every boundary age, two commits, five settings | repairs are paced; a run that only audits stands on a recent full pass; full passes recur |
| `health` (`HealthAudit.cfg`) | one workload of each sort, two DNS servers, one change, one time-out | `ok` means seen up; only what the host declares leads to a repair; equal serials were shared |
| `integrity` (`Integrity.cfg`) | 8 manifests, files of up to 3 chunks, 2 changes, 1 failing call | clean was in place; intact is clean; two scopes cover the manifest |
| `render` (`Render.cfg`) | 13 configurations, 2 hosts, 2 runs, kills | a complete manifest is exact; every parent is managed; a host that a run is through with is as its configuration declares |
| `dns` (`Dns.cfg`) | 2 hosts, 2 edits, 2 serials | chains are exact; what is served is what was stamped; records of what is deployed; pointers mirror the forward zones |
| `dns_serial` (`DnsSerial.cfg`) | the same | violated: finding 2 |
| `host_services` (`HostServices.cfg`) | chains of two members, pairs of services | declarations all hold; identities are disjoint; what can be found early is; mounts, directories and requirements are what services declared |

**Bounds.** Three commits give an accepted one, a candidate that is marked, and a
third pushed meanwhile; the records never name more than three. Two are enough
where one candidate is compared with the accepted revision, and for liveness, where a longer
history repeats the step from one commit to the next. The desired states of
`apply` add, change and remove each kind once, and keep one file the
same; two zones make a batch that can be half there; one edit reaches every window between
two looks. Safety of every component is proved
without these bounds. `Schedule` uses small numbers that keep the minimum, the cooldown and the default
apart; ages beyond `Limit` saturate. In `health` and `integrity` one or two
changes are what it takes to fall between two looks at one thing. Two render
runs are one that is killed and one that finds the rest. Pairs of members,
services and hosts are where clashes arise.

**Deadlock** is checked for `Runner` and `Schedule`. The other
configurations switch it off because the system stops there: an audit and a
rendering end; the operator's edits of `Dns` are bounded; and an apply whose
removals are blocked waits for the operator.

**Fairness.** `Converges` supposes weak fairness of a run's steps (the process is
scheduled, its subprocesses end), of `Start` (the timer has
`OnUnitInactiveSec=5min`) and of `Tick`. It is about the future
after `Calm`: no crash, no failing write, no push, and an accepted revision
whose pipeline succeeds. A remote that was rewound is excluded: the local branch stays
ahead of it and every run ends in `fast-forward-failure` (`abhaile-runner:276`),
the documented fast-forward-only policy. `Recovers` supposes weak fairness of
`RunStep` (timer and Ansible), faults that stop, and a host that is
`Repairable`: no candidate-only file was changed by hand or is of a kind without
a cleanup. `FullsRecur` supposes `Start`, `RunStep` and `Tick`, and a clock that
in the end is left alone.

## Findings

1. `locked_recovery`. A crash during a checkout leaves `index.lock`. In the next
   recovery `git checkout` fails, and since errexit is off inside
   `recover_last_successful` (lines 508 and 515) the script goes on: it applies the
   tree that happens to be checked out as last-successful, clears the marker and
   reports success. That tree may be the candidate that was just recorded as failed, and
   it is applied unforced, as the restoration at boot may do as well: `SuppressedNotRetried` holds
   only without stale locks, which is how it is checked and proved.
2. `dns_serial`. The validation of serials compares the content with the
   declared hash and nothing else (`dns/serial_validator.py:49`), and the hash it
   prints for the operator is that of the new content with the old serial. Once
   it is declared, a changed zone passes with the serial it had; secondaries and
   caches see no change. `validation/dns.py:27` promises otherwise.

Other disagreements that reading the code brought up. The properties are stated
so that they except exactly these cases:

- A failing write of `failed-target` during recovery is ignored (`abhaile-runner:498`,
  errexit again): nothing remembers that the candidate failed
  (spec 0028:176).
- A forced retry of a failed target succeeds and the process dies between clearing
  the marker and `failed-target`: the accepted revision is then reported as a
  suppressed failure until the next push (`abhaile-runner:787`, spec 0028:174).
- The accepted revision's pipeline fails after it mutated the host, and so does the recovery: the
  summary says `failure-before-mutation` (`abhaile-runner:926`, spec 0028:211).
- A run that stops between publication and activation takes its change reports
  with it: the next one finds the files in place and restarts nothing
  (`rootful_systemd/tasks/activate.yml:14`, spec 0028:179). A reboot heals it.
- Zones that only the removal source has are left on the host when the desired state has
  no CoreDNS: the role that removes them is not run
  (`manifest_orchestration/tasks/main.yml:277`). It takes an operator who deleted the Corefile,
  since its removal is refused otherwise.
- A file that is overwritten in place while it is read may be reported
  clean (`integrity.py:282`), and a link or a device at a path is reported as
  drift (`integrity.py:232`) where spec 0029:181 asks for uncertainty. The runner
  treats both alike.
- Several entries of one zone: only the first match is validated
  (`serial_validator.py:139`).
- Pointers of `/16` and `/8` reverse zones name the octets in the order of the
  address (`dns/records.py:210`), where a reverse zone has them reversed: they are
  pointers for other addresses. `PtrsMirrorForward` is about `/24` zones.
- Two users with one home: the second one's keys silently replace the
  first one's (`renderers/users.py:338`, spec 0006:190).
- One shared volume name declared for two host paths is not noticed
  (`quadlets/volumes.py:155`), and units with one name share one manifest owner
  (`quadlets/helpers.py:64`): units of two users, or a service `db-volume` next to a
  shared volume `db`.
- `quadlets/helpers.py:229` says the opposite of line 233 about which file of an
  include wins, and lines 28-44 name pods differently from `metadata.py:130`.
- Spec 0003:112-131 describes a comparison with the zone of the Git head that the
  code does not have.

## Proofs

Almost every theorem is `Spec => []Invariant` or `Spec => [][Action]_vars` of its component (`QuadletsSpec` for `Quadlets`), for
every value of the constants under the named assumptions of the component's module;
TLC evaluates those assumptions in the runs. Each rests on an inductive invariant
which TLC checked on the instance first.

**Runner** (`RunnerProofs`), for every set of commits and ancestry relation, with and
without rewinds and failing writes: `InvariantHolds`, `TypeCorrect`,
`HostAlwaysTracked`, `ReportsCorrect`, `MarkerCleared`, `BootNetworkCorrect`, `LastAdvances`,
`FullRecordCommitted`, `SuppressionKept`, and `RunnerImplementsPromise` (`Spec => Promise!Spec`).
Assumptions: `None` is not a commit, `Faults` holds known faults
(`NoneAssumption`, `FaultsAssumption`), and for these theorems `NoStaleLock`: `"git-lock"` is not
among the faults. Without the last `MarkerClearedWhenRestored` is false: finding 1.
`HostTracked` is not inductive: to know that the cleanup of a recovery removes the
candidate one has to know that the marker survived from the interruption to
this apply, that the accepted tree is at HEAD, and that `cleanup` is the marked
revision. `RecoveryInv` says so for each step of a recovery, `FullInv` says what a
full pipeline may rely on, and the remaining conjuncts of `IInv` tie the start of a
run to both. Three lemmas with one step per action (`BooleanStep`, `TypeStep`,
`RelationStep`) show that it is kept. `SelectionHolds` and `AuthorityKept` hold with stale locks
too: which target a full pipeline works on is decided from records alone (`SelectionInv`). `SuppressionKept` takes
that for full pipelines, and `RecoveryInv` for all others: they apply the accepted revision.

**Apply** (`ApplyProofs`), for every set of files, kinds, owners, contents and desired states
under `FilesAssumption`: `ApplyInvariantHolds`, `CommitsAreDesired`,
`RemovalsAreVerified`, `ChangesMarked`, `BatchIsLoadedWhole`. The invariant adds to the types the order
of the families (`InOrder`), that the cleanup list is exactly what was there to
remove when the run began (`ListIsExact`), and that in the families which are
through the files are as the run made them (`FilesAreDone`), all up to what the operator
edited. A removal and a publication concern one family, and what is considered for
removal is disjoint from what is desired: hence no step undoes another.
`BatchIsLoadedWhole` needs one more invariant, `Unprovoked`: without edits the
watcher has been woken by nobody, and it is active during a batch only if the
batch changes nothing. `RecordInv` (`RecordsAgree`) ties
the files to the records: a run works for the marker that is set, only a marked
candidate leaves traces, and at the commit none is left of the revision that was replaced. From it
`ApplyImplementsPromise` maps every step to one of `AcceptedHost`.
Its second half is about what is in force. `ForceInv` (`FilesAreInForce`): a file in place is in force, or its
unit is stopped, or it is on the record of changes that `Activate` and `Reload` work off, and once activation is
through what is desired runs; unless a run was `halted` since the last boot. Hence
`CommitsAreInForce`.

**Schedule** (`ScheduleProofs`), for every interval under `IntervalAssumption`: `RepairsArePaced`,
`AuditsCovered`, and `AgeClassesExact`, which justifies the three age classes of
`Runner`. The invariant is that the age the code computes is the time that passed unless
the clock was set (`AgeIsElapsed`, `AuditAgeKnown`).

**Audits.** `IntegrityAuditProofs`, for every set of manifests, bound on hashing and number of
changes and faults: `CleanIsTrue`, `NoFalseDrift`, `AuditsCover`. The invariant says where the audit is and which
entries it has judged (`ProgressInv`, `CoverInv`), what the history says of the files there are now
(`HistoryInv`), and what the open descriptor and the chunks read from it say of the entry
under audit (`ReadInv`): unless the file was overwritten meanwhile they are the beginning of it, and if
it has the content of the entry then the entry was in place.
`HealthAuditProofs`, for every manifest, mapping and cluster and any number of changes: `OkIsTrue`,
`RepairsAnswerLocalFaults`, `ConsistencyIsReal`. A probe that succeeded has evidence in what was
seen during the audit (`EvidenceInv`), and one that failed has a local resource to blame
or a command that was cut off (`BlameInv`).

**Render** (`RenderProofs`), for every set of hosts and configurations: `OutputHolds`, `ManifestsAreExact`,
`ParentsAreRegistered`, `FinishedAreDeclared`. `OutputInv` says, of each stage of a run, what
of the tree is this run's: nothing of
an earlier run survives the wipe (`WipeInv`), the collector is what the entries so far called for
(`PlanInv`, `CollectorInv`) and every file of the tree is registered there or is a software
specification (`WrittenInv`). `ParentInv` says that the parents registered so far are exactly those that the
files done so far lack, with the metadata each of these files wants, whatever the order; it needs
that two walks which meet in one directory with one metadata agree on everything above
(`WalksAgree`), which rests on `HomesAssumption`: one home per account, and a rootless service user lives in
`/home/<user>`, as `renderers/users.py:247` demands and `parents.py:20` supposes.
For `FinishedAreDeclared` the collector holds, after each step, what the steps so far leave in force (`ProgressInv`),
every file of the tree is as it was registered (`ContentInv`), and a host that is finished keeps its manifest, since
hosts are distinct and each has an output of its own. The heart of it is `SystemIsDeclared`: two renderers that share one list, each
of which passes over what is the other's, together say what the list says; it needs that units lie below
`/etc/systemd/system` and not where networkd reads (`UnitDir`), as the schema demands.

**Users** (`HostServicesProofs`), for every chain that the schema admits (`ChainsAssumption`), every order of names and all
limits: `MergeHolds`, `DeclarationsHold`, `IdentitiesAreDisjoint`, `FailuresAreEarly`. The invariant says that
what is merged is what the members so far declared, in both directions (`AccountsInv`, `GroupsInv`,
`SudoersInv`): no scalar is lost because a contradiction would have failed, and none
is there that no member said. Hence the early checks, which look at members, decide
about the merged accounts. `LastIsThere` justifies the choice of the user whose keys fill a home.

**Quadlets** (`HostServicesProofs`), for every set of services under `HostsAssumption`: `MountsLead`, `PathsAreManaged`,
`UnitsAreComplete`. The mounts that the loops are through with (`Done`) are all that the invariant speaks of:
each is registered and agreed with those of its path (`MountedInv`), has its file, which leads to the
path of some mount with that name if it is shared and to its own if it is private (`VolumeInv`), and its directory
(`DirectoryInv`), which `PrivatePathsAreManaged` demands to be in the manifest. That no step undoes this rests on names: a shared volume has a name of one word and a
private one has more (`SharedIsNotPrivate`), and no volume is at the place of another kind
(`PlacesDiffer`). `KnownInv` says that a unit that is known has a file; hence one that is registered a second time has
two, is not `Alone`, and what the first registration says of it is all that can be promised of the others
(`PodInv`, `ContainerInv`).

**Composition** (`DnsProofs`), for every finite graph of includes and every list of members:
`WalksAreExact`, and from it `ChainsHold`. A recursive function of TLA+ is a `CHOOSE`, so
three things have to be shown of the walk. That there is such a function: each step goes on to walks of a
lower rank, since there are fewer services left that are not being visited, or as many of them and a shorter list
(`WalkRank`, `Recursion`). What it computes, by induction over the rank (`VisitStep`, `VisitsAreSound`): a walk
that succeeds extends the order by exactly what was reached and not in it, each after what it includes, and one that
fails has found somebody reached without a definition or on a cycle. And that this
is reachability as it is defined without a walk (`ListedReach`). The
library's induction principles take predicates as parameters, which the provers cannot instantiate; `DnsProofs`
derives what it needs from the well-foundedness of the natural numbers, with sets in place of predicates
(`SetInduction`).

**DNS** (`DnsProofs`), for any number of hosts, networks, mappings, catalogues, serials and edits:
`StampedServed`, `AnswersDeployed`, `PtrsMirror`. The assumptions are what schemas and formats guarantee: hosts are keys
of a dictionary, the labels of a zone are read off its name, an address has four octets
(`HostsAssumption`, `NetworksAssumption`, `CataloguesAssumption`, `EditsAssumption`). A render is a
function of the configuration, so the invariant is only that the configuration is one (`TypeOK`); the work is in
what the lists come to. `Flattening` says that each element of a
list that is flattened stands at one place of one of the lists it is made of; through it every position of a list of
records goes back to one entry of `network.yaml` (`RecordsFacts`, `EntriesFacts`), which makes a
bijection between the records of a kind and the entries that are due (`AnswersCount`). `TreeFacts` says which files
a host has and that each holds one of the writes to it. What was validated is a second rendering made from arguments
of its own; `StampedStep` shows that it is this content.

Only model-checked: liveness (`Converges`, `Recovers`, `FullsRecur`), which is out of
the prover's reach.

## What could follow

1. Which of two zones that share a file is served, as a function of the order of zones:
   the excepted case of `StampedIsServed`.
2. Activation of Quadlets, with images that are built before their consumers.

## Not modelled

- Networkd drop-ins and VLAN interfaces (`renderers/networkd.py`), ingress sites and
  Vault templates: formatting, and further instances of the registrations that
  `Render` and `Quadlets` model; JSON schemas and the address arithmetic of
  `network.yaml`.
- In Ansible: directories, validators, host foundations, Vault Agent, Caddy and Quadlets,
  which recheck, remove and publish as the families of `Apply` do.
- The deadline that fetch, audits and health checks share (`abhaile-runner:314`): a
  step that exceeds it fails, and failing steps are modelled.
- Targets as strings: in `Render` a target is the sequence of its names, while `collector.py:91` and
  `parents.py:12` compare strings, to which `/etc/a` and `/etc/a/` are two targets.
- Shared volume names of several words: in `Quadlets` a shared volume is named by one word, so that a shared `web-data` next to
  the private `data` of `web` cannot be said; the code fails there, by the target that both have.
- `bootstrap.sh:688` establishes the first accepted revision without the runner's
  lock; the timer is enabled only later in the same script.
- Arithmetic of dates and counters in a serial (`dns/renderer.py:323`; a counter of
  100 makes it eleven digits long); bounded reads of files that are no regular ones.
- Operator CLIs and installers: one-shot commands run by hand, with no state from
  one call to the next. Formats, logging and timestamps.
