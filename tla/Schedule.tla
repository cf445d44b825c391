------------------------------ MODULE Schedule ------------------------------
(***************************************************************************)
(* When a run must traverse everything and when it may only audit: the     *)
(* last-full-reconciliation record, its age against the configured         *)
(* interval, and the cooldown of a degraded repair                         *)
(* (state/reconciliation.py, abhaile-runner from load_full_schedule on).   *)
(*                                                                         *)
(* The clock is the host's: it may be set.  Ages above Limit and below -1  *)
(* are not told apart.                                                     *)
(***************************************************************************)
EXTENDS Integers

CONSTANTS
  Revs,          \* commits
  Configured,    \* values the interval setting may have
  Unset,         \* ... the empty one among them
  Minimum, Default, Cooldown,   \* of the interval; of a degraded repair
  Limit,         \* bound: ages saturate here
  Nothing, Malformed   \* no record; a record that cannot be read

Records == [sha : Revs, postcheck : {"clean", "degraded"}]

ASSUME IntervalAssumption ==
  /\ Minimum \in Nat /\ Default \in Nat /\ Cooldown \in Nat /\ Limit \in Nat
  /\ 0 < Cooldown /\ Cooldown <= Minimum /\ Minimum <= Default /\ Default < Limit
  /\ Nothing # Malformed /\ Unset \notin Int
  /\ {Nothing, Malformed} \intersect Records = {}

VARIABLES
  configured,  \* ABHAILE_FULL_INTERVAL_SECONDS
  record,      \* last-full-reconciliation, without its time
  age,         \* the host's clock minus the time in the record
  accepted,    \* last-successful-commit
  findings,    \* what an audit finds: drift or an actionable unit, or nothing
  pc, target,  \* where a run stands, and the commit it reconciles
  schedule,    \* what load_full_schedule returned
  since,       \* history: time since the last recorded full traversal
  clock        \* history: whether the clock was set since then

vars == <<configured, record, age, accepted, findings, pc, target, schedule,
          since, clock>>
runVars == <<pc, target, schedule>>
evidence == <<record, age, since, clock>>

Ages == -1..Limit
Schedules == [trigger : {"forced", "periodic", "audit", "render-uncertainty"},
              age : Ages, postcheck : {"none", "clean", "degraded"}]
Due(s) == s.trigger # "audit"

Valid(v) == v # Unset => v \in Minimum..Default
FullInterval(v) == IF v \in Minimum..Default THEN v ELSE Default

\* A record that may be used: it can be read and names the commit.
Usable(sha) == record \in Records /\ record.sha = sha

\* Mutant of Classify: without a record there is nothing to be late for.
ClassifyOptimistic(sha, force) ==
  IF force \/ ~Usable(sha)
  THEN [trigger |-> IF force THEN "forced" ELSE "audit", age |-> 0,
        postcheck |-> "none"]
  ELSE [trigger |-> IF age \in 0..(FullInterval(configured) - 1) THEN "audit"
                    ELSE "periodic",
        age |-> age, postcheck |-> record.postcheck]

\* Mutant of Classify: the boundary belongs to the audit.
ClassifyLate(sha, force) ==
  IF force \/ ~Usable(sha)
  THEN [trigger |-> IF force THEN "forced" ELSE "periodic", age |-> 0,
        postcheck |-> "none"]
  ELSE [trigger |-> IF age \in 0..FullInterval(configured) THEN "audit"
                    ELSE "periodic",
        age |-> age, postcheck |-> record.postcheck]

\* classify_full_reconciliation
Classify(sha, force) ==
  IF force \/ ~Usable(sha)
  THEN [trigger |-> IF force THEN "forced" ELSE "periodic", age |-> 0,
        postcheck |-> "none"]
  ELSE [trigger |-> IF age \in 0..(FullInterval(configured) - 1) THEN "audit"
                    ELSE "periodic",
        age |-> age, postcheck |-> record.postcheck]

\* should_defer_degraded_repair
Deferred(s) ==
  ~Due(s) /\ s.postcheck = "degraded" /\ s.age \in 0..(Cooldown - 1)

TypeOK ==
  /\ configured \in Configured
  /\ record \in Records \union {Nothing, Malformed} /\ age \in Ages
  /\ accepted \in Revs /\ target \in Revs /\ findings \in {"none", "some"}
  /\ pc \in {"idle", "scheduled", "full"} /\ schedule \in Schedules
  /\ since \in 0..Limit /\ clock \in {"steady", "stepped"}

Init ==
  /\ configured \in Configured
  /\ record = Nothing /\ age = 0 /\ since = 0 /\ clock = "steady"
  /\ accepted \in Revs /\ target = accepted /\ findings = "none"
  /\ pc = "idle"
  /\ schedule = [trigger |-> "periodic", age |-> 0, postcheck |-> "none"]

-----------------------------------------------------------------------------

\* A run has a commit to reconcile, the accepted one or a new one.
Start ==
  /\ pc = "idle"
  /\ \E sha \in Revs, force \in BOOLEAN :
       target' = sha /\ schedule' = Classify(sha, force)
  /\ pc' = "scheduled"
  /\ UNCHANGED <<configured, accepted, findings, evidence>>

\* A new commit or a due traversal.
TakeFull ==
  /\ pc = "scheduled" /\ (target # accepted \/ Due(schedule))
  /\ pc' = "full"
  /\ UNCHANGED <<configured, accepted, findings, target, schedule, evidence>>

Audited == pc = "scheduled" /\ target = accepted /\ ~Due(schedule)

\* Nothing is found, or enrollment foundations, which only bootstrap repairs.
AuditEnds ==
  /\ Audited
  /\ pc' = "idle"
  /\ UNCHANGED <<configured, accepted, findings, target, schedule, evidence>>

\* Drift or an actionable unit, within the cooldown of the last repair.
Defer ==
  /\ Audited /\ findings = "some" /\ Deferred(schedule)
  /\ pc' = "idle"
  /\ UNCHANGED <<configured, accepted, findings, target, schedule, evidence>>

\* Mutant of Repair: the cooldown is forgotten.
RepairAtOnce ==
  /\ Audited /\ findings = "some"
  /\ pc' = "full"
  /\ UNCHANGED <<configured, accepted, findings, target, schedule, evidence>>

Repair ==
  /\ Audited /\ findings = "some" /\ ~Deferred(schedule)
  /\ pc' = "full"
  /\ UNCHANGED <<configured, accepted, findings, target, schedule, evidence>>

\* A failing audit render goes straight to the full pipeline.
RenderUncertain ==
  /\ Audited
  /\ pc' = "full" /\ schedule' = [schedule EXCEPT !.trigger = "render-uncertainty"]
  /\ UNCHANGED <<configured, accepted, findings, target, evidence>>

\* record_last_full_reconciliation took effect.
Recorded(post) ==
  /\ record' = [sha |-> target, postcheck |-> post]
  /\ age' = 0 /\ since' = 0 /\ clock' = "steady"

\* The pipeline succeeds; its post-check finds the host clean or degraded, or is
\* itself cut off. The record may fail to be written.
Complete ==
  /\ pc = "full" /\ pc' = "idle" /\ accepted' = target
  /\ findings' \in {"none", "some"}
  /\ \/ UNCHANGED evidence
     \/ \E post \in {"clean", "degraded"} :
          (findings' = "some" => post = "degraded") /\ Recorded(post)
  /\ UNCHANGED <<configured, target, schedule>>

Fail ==
  /\ pc = "full" /\ pc' = "idle"
  /\ UNCHANGED <<configured, accepted, findings, target, schedule, evidence>>

\* Time passes at any point of a run.
Tick ==
  /\ age' = IF age < Limit THEN age + 1 ELSE age
  /\ since' = IF since < Limit THEN since + 1 ELSE since
  /\ UNCHANGED <<configured, record, accepted, findings, runVars, clock>>

\* The clock is set forward or back.
SetClock ==
  /\ age' \in Ages \ {age} /\ clock' = "stepped"
  /\ UNCHANGED <<configured, record, accepted, findings, runVars, since>>

\* The record is damaged, or given another owner or mode.
Damage ==
  /\ record' = Malformed
  /\ UNCHANGED <<configured, age, accepted, findings, runVars, since, clock>>

Drift ==
  /\ findings' = "some"
  /\ UNCHANGED <<configured, accepted, runVars, evidence>>

RunStep ==
  \/ TakeFull \/ AuditEnds \/ Defer \/ Repair \/ RenderUncertain
  \/ Complete \/ Fail

Next == Start \/ RunStep \/ Tick \/ SetClock \/ Damage \/ Drift

Spec == Init /\ [][Next]_vars

\* The timer starts runs, a run goes on, time passes.
FairSpec == Spec /\ WF_vars(Start) /\ WF_vars(RunStep) /\ WF_vars(Tick)

-----------------------------------------------------------------------------
(* Properties. *)

\* While the clock is left alone, a degraded host is not traversed for repair
\* again before the cooldown has passed since the last recorded traversal (reconciliation.py:256).
RepairsPaced ==
  [][clock = "steady" /\ Audited /\ pc' = "full" /\ schedule' = schedule
       /\ schedule.postcheck = "degraded" => since >= Cooldown]_vars

\* While the clock is left alone, a run that only audits starts less than the
\* interval in force after a recorded traversal of the accepted commit, and never
\* without such a record (reconciliation.py:194).
AuditsAreCovered ==
  [][Start /\ ~Due(schedule') =>
       /\ record \in Records /\ record.sha = target'
       /\ clock = "stepped" \/ since < FullInterval(configured)]_vars

\* Full traversals recur for ever, whatever became of the record and however
\* often the clock was set before.
FullsRecur == <>[][~SetClock]_vars => []<>(pc = "full")

\* Runner tells ages apart as recent, aged and expired.
AgeClass(a, interval) ==
  IF a \notin 0..(interval - 1) THEN "expired"
  ELSE IF a < Cooldown THEN "recent" ELSE "aged"
=============================================================================
