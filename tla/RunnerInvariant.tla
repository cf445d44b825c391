-------------------------- MODULE RunnerInvariant --------------------------
(***************************************************************************)
(* The inductive invariant behind the safety properties of Runner, and the *)
(* abstract specification Runner implements.  Both suppose that no stale   *)
(* index.lock makes a git checkout fail ("git-lock" \notin Faults).        *)
(***************************************************************************)
EXTENDS Runner

\* Runner implements AcceptedHost: last-successful-commit is what is accepted,
\* current-run what is pending.
Promise == INSTANCE AcceptedHost
             WITH accepted <- last, pending <- current, contents <- holds

\* The runner keeps the promise of AcceptedHost in every run, interrupted or
\* not: mutation under a marker only, acceptance of what was applied only.
ImplementsPromise == Promise!Spec

\* Nothing but the accepted revision on the host.
HoldsLast == holds = {last} /\ netHolds = {last}

\* What the cleanup of an apply of target has to cover besides target.
CleanupOf(other) == IF other = last THEN None ELSE other

\* recover_last_successful and restore_last_successful_network work for a
\* marker that is set, and apply the accepted revision with the cleanup of the
\* marked one.
RecoveryInv ==
  /\ pc \in {"record", "renderInterrupted", "checkoutLast", "clear"}
       => current # None /\ job \in Recoveries \union {"network"}
  /\ pc \in {"record", "clear"} => job # "network"
  /\ pc \in {"idle", "startup", "record", "renderInterrupted"}
       => cleanup = None
  /\ pc = "renderInterrupted" => current # last
  /\ pc = "checkoutLast" => cleanup = CleanupOf(current)
  /\ pc = "clear" => HoldsLast
  /\ pc \in {"preflight", "apply", "applying"} /\ job # "full"
       => /\ job \in Recoveries \union {"network"}
          /\ current # None /\ head = last /\ cleanup = CleanupOf(current)

\* A full pipeline starts from the accepted host, marks what it applies and
\* cleans up after the revision it replaces.
FullInv ==
  /\ pc \in {"fetch", "detect", "audit", "prepare"} => cleanup = None
  /\ pc \in {"fetch", "detect", "audit", "prepare", "mark"} => HoldsLast
  /\ pc = "preflight" /\ job = "full" => HoldsLast
  /\ pc \in {"detect", "audit", "prepare", "mark", "commit", "clearMarker",
             "clearFailed", "postFull", "pipelineFailed", "candidateFailed"}
       => target # None
  /\ pc = "audit" => target = last
  /\ pc \in {"preflight", "mark", "apply", "applying"} /\ job = "full"
       => head = target /\ target # None
          /\ cleanup = (IF target = last THEN None ELSE last)
  /\ pc = "pipelineFailed" /\ target = last => cleanup = None
  /\ pc = "mark" => job = "full"
  /\ pc \in {"apply", "applying"} /\ job = "full" => current = target
  /\ pc = "commit" => current = target /\ holds = {target} /\ netHolds = holds
  /\ pc \in {"clearMarker", "clearFailed", "postFull"}
       => target = last /\ HoldsLast
  /\ pc = "clearMarker" => current = last
  /\ pc \in {"clearFailed", "postFull"} => current = None

ReportInv ==
  /\ ReportedMeansRestored
  /\ BootNetworkAccepted
  /\ outcome # "none" => pc = "idle"

\* The inductive invariant: types, no locked worktree, the host tracked by the
\* records, and what each step of a run may rely on.
IInv ==
  /\ TypeOK
  /\ worktree # "locked"
  /\ pc \notin {"idle", "startup"} => last # None
  /\ HostTracked
  /\ pc = "applying" => head \in holds /\ head \in netHolds
  /\ RecoveryInv
  /\ FullInv
  /\ ReportInv

\* What a run may decide about revisions.  It stands on no assumption about the
\* worktree: a run that could not fetch works on the accepted revision, whatever
\* else a run removes or marks comes from a fetched target, and a suppressed
\* target does not get past the selection.
SelectionInv ==
  /\ pc \in {"idle", "startup"} => target = None
  /\ pc \in {"idle", "startup", "fetch", "detect", "audit", "prepare"}
       => cleanup = None
  /\ pc \in {"detect", "audit", "prepare"} => Fetched \/ target = last
  /\ target # None /\ ~Fetched => target = last
  /\ job = "full" /\ cleanup # None => Fetched
  /\ pc \in {"mark", "commit", "clearMarker", "clearFailed"} => job = "full"
  /\ pc = "clearFailed" => cleanup # None
  /\ pc \in {"record", "renderInterrupted", "checkoutLast", "clear"}
       => job # "full"
  /\ pc = "record" /\ target # None => current = target
  /\ pc \in {"audit", "prepare"} /\ target = failed => Retry \/ target = last
  /\ pc \in {"preflight", "mark", "apply", "applying"} /\ job = "full"
       => head = target /\ (target = failed => Retry \/ target = last)
=============================================================================
