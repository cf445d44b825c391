--------------------------- MODULE ApplyInvariant ---------------------------
(***************************************************************************)
(* Why the properties of Apply hold: the inductive invariants behind them. *)
(***************************************************************************)
EXTENDS Apply

-----------------------------------------------------------------------------
(* The files. *)

\* The families that are through, and those whose candidate-only files are gone
\* or whose desired files are in place.
Passed == CASE family = "network" -> {}
            [] family = "unit" -> {"network"}
            [] family = "config" -> {"network", "unit"}
            [] OTHER -> {"network", "unit", "config"}
Cleaned == Passed \union
  (IF pc \in {"publish", "settle", "activate", "reload", "commit"} THEN {family} ELSE {})
Placed == Passed \union
  (IF pc \in {"settle", "activate", "reload", "commit"} THEN {family} ELSE {})

\* The run goes through the families in order and marks its mutation first.
InOrder ==
  /\ pc \in {"idle", "preflight"} => family = "network"
  /\ pc = "deactivate" => family = "unit"
  /\ pc = "unwatch" => family = "dns"
  /\ pc \in {"activate", "reload", "commit"} =>
       family = "dns" \/ (family = "config" /\ ~Runs("dns"))
  /\ pc # "clear" /\ family = "dns" => Runs("dns")
  /\ pc \notin {"idle", "preflight"} => pending # "none"

\* The cleanup list is what was there to remove when the run began, and all of it
\* has a family to remove it.
ListIsExact ==
  pc \notin {"idle", "clear"} =>
    /\ cleanup \subseteq Considered(job)
    /\ pc # "preflight" => Exact
    /\ \A f \in Considered(job) \ (cleanup \union edited) : live[f] = Absent

\* Where the run has been, the files are what it made of them.
FilesAreDone ==
  pc \notin {"idle", "clear"} =>
    /\ \A f \in cleanup \ edited : Family(f) \in Cleaned => live[f] = Absent
    /\ \A f \in Named(Desired(job)) \ edited :
         Family(f) \in Placed => live[f] = Desired(job)[f]
    /\ pc = "remove" => \A f \in (cleanup \ edited) \intersect Files_(family) :
                          live[f] = Source(job)[f]

\* The inductive invariant: together they imply CommittedIsDesired, and the two
\* action properties of every step.
IInv == TypeOK /\ InOrder /\ ListIsExact /\ FilesAreDone

\* Unless the operator edits, the watcher has no reason to reload: it is active
\* during a batch only if the batch changes nothing.
Unprovoked ==
  edits = 0 =>
    /\ ~woken
    /\ family = "dns" /\ pc \in {"recheck", "remove", "publish"} /\ watcher = "active" =>
         /\ cleanup \intersect Files_("dns") = {}
         /\ \A f \in ToPublish : live[f] = Desired(job)[f]

-----------------------------------------------------------------------------
(* The records. *)

\* What an edited file may be until the run is over: what the operator made of it,
\* or what the run has published since.
EditsAreKnown ==
  pc \notin {"idle", "clear"} =>
    \A f \in edited : \/ live[f] \notin Contents
                      \/ f \in Named(Desired(job)) /\ live[f] = Desired(job)[f]

\* A run works for the marker that is set, and marks its own revision.
JobIsMarked ==
  /\ job = "none" => pc = "idle"
  /\ job = "candidate" =>
       /\ IF pc = "preflight" THEN pending = "none" ELSE pending = "candidate"
       /\ pc = "clear" => accepted = candidate
  /\ job = "recovery" => pending = "candidate"
  /\ job = "reconcile" => pending # "candidate" \/ accepted = candidate

\* Only a marked candidate leaves traces, and none of the revision that a run has
\* replaced is left when it commits.
TracesAreMarked ==
  /\ pending # "candidate" => ~Trace(candidate, accepted)
  /\ pc \in {"commit", "clear"} =>
       IF Desired(job) = accepted THEN ~Trace(candidate, accepted)
                                  ELSE ~Trace(accepted, candidate)

\* Inductive together with IInv: the files keep what the records promise.
RecordInv == EditsAreKnown /\ JobIsMarked /\ TracesAreMarked

-----------------------------------------------------------------------------
(* What is in force. *)

IsUnit(f) == Kind[f] = "unit"
OfNetwork(f) == Family(f) = "network"
InPlace(f) == live[f] \in Contents /\ live[Owner[f]] \in Contents

\* A unit file in place is one that a revision on record asks for.
UnitsAreKnown ==
  \A u \in Files : IsUnit(u) /\ live[u] \in Contents =>
    \/ u \in Named(accepted) /\ live[u] = accepted[u]
    \/ u \in Named(candidate) /\ live[u] = candidate[u]

\* A file in place is in force unless a task of this run has changed it, and
\* networkd and the system manager have read it once their family is through.
NetworkIsRead ==
  \A f \in Files : OfNetwork(f) /\ live[f] \in Contents =>
    running[f] = live[f] \/ (f \in changed /\ family = "network" /\ pc # "clear")
UnitsAreRead ==
  \A f \in Files : Family(f) = "unit" /\ live[f] \in Contents =>
    \/ loaded[f] = live[f]
    \/ f \in changed /\ family \in {"network", "unit"} /\ pc # "clear"

\* The same of what a unit runs: it has what is in place, or it is stopped, or
\* a change is on record that has Activate restart it or Reload reload it.
RestartDue(f) == {f, Owner[f]} \intersect changed # {}
ReloadDue(f) ==
  /\ pc = "reload" /\ f \in changed \intersect Zones
  /\ \A g \in changed \ Zones : Owner[g] # Owner[f]

UnitsAreFresh ==
  \A f \in Files : ~OfNetwork(f) /\ InPlace(f) =>
    \/ running[f] = live[f] \/ running[Owner[f]] = Absent
    \/ RestartDue(f)

\* Once activation is through, what is desired runs and its zones are loaded.
ActivationIsDone ==
  pc \in {"reload", "commit", "clear"} =>
    /\ \A f \in Files : ~OfNetwork(f) /\ InPlace(f) =>
         /\ Owner[f] \in Named(Desired(job))
         /\ running[f] = live[f] \/ ReloadDue(f)
    /\ family \notin {"network", "unit"}
    /\ pc # "clear" /\ HasDns(Desired(job)) => watcher = "active"

\* Inductive together with the two above; a run that stops half-way forgets what
\* it has changed, and a reboot makes good for it.
ForceInv ==
  /\ UnitsAreKnown
  /\ halted \/ (NetworkIsRead /\ UnitsAreRead /\ UnitsAreFresh /\ ActivationIsDone)
=============================================================================
