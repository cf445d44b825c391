--------------------------- MODULE ScheduleProofs ---------------------------
(* Theorems about Schedule, for every interval, cooldown and set of commits. *)
EXTENDS Schedule, TLAPS

\* While the clock is left alone the age of a record is the time since the
\* traversal, and the age a run has read is not more than that.
AgeIsElapsed ==
  clock = "steady" =>
    /\ record \in Records => age = since
    /\ pc = "scheduled" /\ ~Due(schedule) => schedule.age <= since

AuditAgeKnown == ~Due(schedule) => schedule.age >= 0

IInv == TypeOK /\ AgeIsElapsed /\ AuditAgeKnown

\* The interval in force is within the bounds of a valid setting.
LEMMA IntervalBounds == FullInterval(configured) \in Minimum..Default
  BY IntervalAssumption DEF FullInterval

LEMMA InitIInv == Init => IInv
<1> SUFFICES ASSUME Init PROVE IInv
  OBVIOUS
<1> USE IntervalAssumption DEF Init
<1>1. schedule \in Schedules
  BY DEF Schedules, Ages
<1>2. findings \in {"none", "some"} /\ clock \in {"steady", "stepped"}
  OBVIOUS
<1> QED  BY <1>1, <1>2 DEF IInv, TypeOK, AgeIsElapsed, AuditAgeKnown, Ages, Due

LEMMA TypedSchedule ==
  ASSUME TypeOK, NEW sha \in Revs, NEW force \in BOOLEAN
  PROVE  Classify(sha, force) \in Schedules
<1> USE IntervalAssumption, IntervalBounds
<1>1. CASE force \/ ~Usable(sha)
  BY <1>1 DEF Classify, Schedules, Ages
<1>2. CASE ~(force \/ ~Usable(sha))
  <2>1. record.postcheck \in {"clean", "degraded"}
    BY <1>2 DEF Usable, Records
  <2> QED  BY <1>2, <2>1 DEF Classify, Schedules, TypeOK
<1> QED  BY <1>1, <1>2

LEMMA StepIInv == IInv /\ [Next]_vars => IInv'
<1> SUFFICES ASSUME IInv, [Next]_vars PROVE IInv'
  OBVIOUS
<1> USE IntervalAssumption DEF IInv, TypeOK, AgeIsElapsed, AuditAgeKnown,
                                Ages, Due
<1>0. schedule.age \in Ages /\ {Nothing, Malformed} \intersect Records = {}
  BY DEF Schedules
<1>1. CASE Start
  <2> PICK sha \in Revs, force \in BOOLEAN :
        target' = sha /\ schedule' = Classify(sha, force)
    BY <1>1 DEF Start
  <2>1. schedule' \in Schedules
    BY TypedSchedule
  <2>2. ~Due(schedule') =>
          record \in Records /\ schedule'.age = age /\ age >= 0
    BY IntervalBounds DEF Classify, Usable, Due
  <2> QED  BY <1>1, <2>1, <2>2 DEF Start, evidence
<1>2. CASE TakeFull \/ AuditEnds \/ Defer \/ Repair \/ Fail
  <2>1. UNCHANGED <<schedule, findings, clock>>
    BY <1>2 DEF TakeFull, AuditEnds, Defer, Repair, Fail, evidence
  <2> QED
    BY <1>2, <2>1 DEF TakeFull, AuditEnds, Defer, Repair, Fail, evidence
<1>3. CASE RenderUncertain
  <2>1. schedule' \in Schedules
    BY <1>3 DEF RenderUncertain, Schedules
  <2> QED  BY <1>3, <2>1 DEF RenderUncertain, evidence
<1>4. CASE Complete
  BY <1>4 DEF Complete, Recorded, evidence, Records
<1>5. CASE Tick
  BY <1>0, <1>5 DEF Tick, runVars
<1>6. CASE SetClock \/ Damage \/ Drift
  BY <1>0, <1>6 DEF SetClock, Damage, Drift, runVars, evidence
<1>7. CASE UNCHANGED vars
  BY <1>7 DEF vars
<1> QED
  BY <1>1, <1>2, <1>3, <1>4, <1>5, <1>6, <1>7 DEF Next, RunStep

\* The inductive invariant holds, types included.
THEOREM InvariantHolds == Spec => []IInv
<1>1. Init => IInv
  BY InitIInv
<1>2. IInv /\ [Next]_vars => IInv'
  BY StepIInv
<1> QED  BY <1>1, <1>2, PTL DEF Spec

\* A degraded host is not traversed for repair before its cooldown is over
\* (should_defer_degraded_repair).
THEOREM RepairsArePaced == Spec => RepairsPaced
<1>1. IInv /\ [Next]_vars =>
        [clock = "steady" /\ Audited /\ pc' = "full" /\ schedule' = schedule
           /\ schedule.postcheck = "degraded" => since >= Cooldown]_vars
  <2> SUFFICES ASSUME IInv, [Next]_vars, clock = "steady", Audited, pc' = "full",
                      schedule' = schedule, schedule.postcheck = "degraded"
               PROVE  since >= Cooldown
    BY DEF vars
  <2>0. pc = "scheduled" /\ ~Due(schedule) /\ target = accepted
    BY DEF Audited
  <2>1. Repair
    <3>1. ~RenderUncertain
      BY <2>0 DEF RenderUncertain, Due, IInv, TypeOK, Schedules
    <3> QED
      BY <2>0, <3>1
         DEF Next, RunStep, Start, TakeFull, AuditEnds, Defer, Complete, Fail,
             Tick, SetClock, Damage, Drift, runVars, vars
  <2>2. schedule.age \in Ages /\ since \in Nat
    BY IntervalAssumption DEF IInv, TypeOK, Schedules
  <2>3. 0 <= schedule.age /\ schedule.age <= since
    BY <2>0 DEF IInv, AgeIsElapsed, AuditAgeKnown
  <2> QED
    BY <2>0, <2>1, <2>2, <2>3, IntervalAssumption DEF Repair, Deferred, Ages
<1> QED  BY <1>1, InvariantHolds, PTL DEF Spec, RepairsPaced

\* A run that only audits is covered by a recent recorded traversal of its
\* commit (classify_full_reconciliation).
THEOREM AuditsCovered == Spec => AuditsAreCovered
<1>1. IInv /\ [Next]_vars =>
        [Start /\ ~Due(schedule') =>
           /\ record \in Records /\ record.sha = target'
           /\ clock = "stepped" \/ since < FullInterval(configured)]_vars
  <2> SUFFICES ASSUME IInv, Start, ~Due(schedule')
               PROVE  /\ record \in Records /\ record.sha = target'
                      /\ clock = "stepped" \/ since < FullInterval(configured)
    BY DEF vars
  <2> PICK sha \in Revs, force \in BOOLEAN :
        target' = sha /\ schedule' = Classify(sha, force)
    BY DEF Start
  <2>1. /\ record \in Records /\ record.sha = sha
        /\ age \in 0..(FullInterval(configured) - 1)
    BY DEF Classify, Usable, Due
  <2> QED
    BY <2>1, IntervalBounds, IntervalAssumption
       DEF IInv, TypeOK, AgeIsElapsed
<1> QED  BY <1>1, InvariantHolds, PTL DEF Spec, AuditsAreCovered

\* What the fields of a schedule say.
LEMMA ScheduleFields ==
  ASSUME NEW a, NEW S, NEW post, NEW s,
         s = [trigger |-> IF a \in S THEN "audit" ELSE "periodic",
              age |-> a, postcheck |-> post]
  PROVE  s.age = a /\ s.postcheck = post /\ (Due(s) <=> a \notin S)
<1>1. s.trigger = IF a \in S THEN "audit" ELSE "periodic"
  OBVIOUS
<1>2. "audit" # "periodic"
  OBVIOUS
<1> QED  BY <1>1, <1>2 DEF Due

\* The three classes of ages that Runner uses decide exactly as the numbers do.
THEOREM AgeClassesExact ==
  ASSUME record \in Records, age \in Int, NEW s, s = Classify(record.sha, FALSE)
  PROVE  LET class == AgeClass(age, FullInterval(configured)) IN
         /\ Due(s) <=> class = "expired"
         /\ Deferred(s) <=> class = "recent" /\ record.postcheck = "degraded"
<1> DEFINE i == FullInterval(configured)
<1>1. i \in Minimum..Default
  BY IntervalBounds
<1>2. s = [trigger |-> IF age \in 0..(i - 1) THEN "audit" ELSE "periodic",
           age |-> age, postcheck |-> record.postcheck]
  BY DEF Classify, Usable
<1> HIDE DEF i
<1>3. /\ s.age = age /\ s.postcheck = record.postcheck
      /\ Due(s) <=> age \notin 0..(i - 1)
  <2> DEFINE S == 0..(i - 1)
             post == record.postcheck
  <2>1. s = [trigger |-> IF age \in S THEN "audit" ELSE "periodic",
             age |-> age, postcheck |-> post]
    BY <1>2
  <2> HIDE DEF S, post
  <2>2. s.age = age /\ s.postcheck = post /\ (Due(s) <=> age \notin S)
    BY <2>1, ScheduleFields
  <2> QED  BY <2>2 DEF S, post
<1>4. Due(s) <=> AgeClass(age, i) = "expired"
  BY <1>3 DEF AgeClass
<1>5. Deferred(s) <=> AgeClass(age, i) = "recent" /\ record.postcheck = "degraded"
  <2>1. CASE age \in 0..(i - 1)
    <3>1. AgeClass(age, i) = "recent" <=> age < Cooldown
      BY <2>1 DEF AgeClass
    <3>2. age \in 0..(Cooldown - 1) <=> age < Cooldown
      BY <2>1, IntervalAssumption
    <3> QED  BY <1>3, <2>1, <3>1, <3>2 DEF Deferred
  <2>2. CASE age \notin 0..(i - 1)
    BY <1>3, <2>2 DEF AgeClass, Deferred
  <2> QED  BY <2>1, <2>2
<1> QED  BY <1>4, <1>5 DEF i
=============================================================================
