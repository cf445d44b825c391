------------------------- MODULE HealthAuditProofs -------------------------
(***************************************************************************)
(* Theorems about HealthAudit, for every manifest, mapping and cluster and *)
(* for every number of changes and cut-off commands: what the verdict of   *)
(* an audit says of the host.                                              *)
(***************************************************************************)
EXTENDS HealthAudit, FiniteSetTheorems, TLAPS

Checks == Probes(profile, cluster)

\* What an audit has seen, once it has begun: the present, and only states there
\* are.
SeenInv ==
  /\ DOMAIN state = Resources /\ DOMAIN seen = Resources
  /\ \A r \in Resources : state[r] \in States(r)
  /\ profile = "none" => todo = {} /\ showing = {} /\ failed = {} /\ verdict = "none"
  /\ profile # "none" => \A r \in Resources : state[r] \in seen[r]
                                              /\ seen[r] \subseteq States(r)

\* Where the audit is.  A verdict is given at the end and from what failed.
ProgressInv ==
  /\ todo \subseteq Checks /\ failed \subseteq Checks
  /\ showing \subseteq todo
  /\ verdict \in {"none", "ok", "failed"}
  /\ verdict # "none" => todo = {}
  /\ verdict = "ok" => failed = {}
  /\ verdict = "failed" => failed # {}

\* A unit whose properties are asked for was found not active.
ShowingInv ==
  \A p \in showing : p.check = "unit-active" /\ ~(seen[R("unit", p.of)] \subseteq {"up"})

\* What was answered in a comparison was served at some instant.
AnswersInv ==
  /\ answers \in [Endpoints -> Serials \union {"down"}]
  /\ profile = "none" => answers = NoAnswers
  /\ \A n \in Endpoints : answers[n] # "down" => answers[n] \in seen[R("dns", n)]

\* What a probe that succeeded has found.
Evidence(p) ==
  /\ p.check = "address" => "up" \in seen[R("address", p.of)]
  /\ p.check = "dns-soa" => seen[R("dns", p.of)] \intersect Serials # {}
  /\ p.check = "unit-active"
       => seen[R("unit", p.of)] \intersect Good(R("unit", p.of)) # {}
  /\ p.check \in {"rootless-unit-active", "vault-agent-active"}
       => "up" \in seen[R("unit", p.of)]
  /\ p.check = "podman-image-local" => "up" \in seen[R("image", p.of)]
  /\ p.check = "secrets-ready"
       => "up" \in seen[R("sentinel", Gate)] /\ "up" \in seen[R("gate", Gate)]
  /\ p.check = "container-running" => "up" \in seen[R("container", p.of)]
  /\ p.check = "dns-soa-consistent"
       => Consistent /\ \A q \in todo : q.check # "dns-compared"

EvidenceInv ==
  profile # "none" => \A p \in Checks \ (todo \union failed) : Evidence(p)

\* What a repair may be blamed on.
Blame ==
  \/ \E r \in Resources :
       /\ ~(seen[r] \subseteq Good(r))
       /\ r.kind \notin {"stranger", "world"}
       /\ r.kind = "dns" => r.of \in Local
  \/ \E e \in Rootful : {"up", "completed"} \subseteq seen[R("unit", U(e))]

BlameInv ==
  profile = "local-actionable" /\ failed # {} => cutOff \/ Blame

\* The inductive invariant.
IInv ==
  /\ SeenInv /\ ProgressInv /\ ShowingInv /\ AnswersInv /\ EvidenceInv
  /\ BlameInv
-----------------------------------------------------------------------------
(* Lemmas about probes and resources.                                        *)

\* The states of a resource, by its kind, and which of them are good.
LEMMA KindStates ==
  ASSUME NEW o
  PROVE  /\ States(R("unit", o)) \subseteq {"up", "down", "completed"}
         /\ o[1] \notin Services => States(R("unit", o)) = {"up", "down"}
         /\ Good(R("unit", o))
              = {"up"} \union {s \in {"completed"} : o[2] = NoUser}
         /\ States(R("dns", o)) = Serials \union {"down"}
         /\ Good(R("dns", o)) = Serials
         /\ \A k \in {"image", "old-image-unit", "address", "sentinel", "gate",
                      "container"} :
              Good(R(k, o)) = {"up"}
<1>1. R("unit", o).kind = "unit" /\ R("unit", o).of = o
  BY DEF R
<1>2. R("dns", o).kind = "dns"
  BY DEF R
<1>3. ASSUME NEW k \in {"image", "old-image-unit", "address", "sentinel", "gate",
                        "container"}
      PROVE  Good(R(k, o)) = {"up"}
  <2>1. R(k, o).kind = k
    BY DEF R
  <2>. QED BY <2>1 DEF Good
<1>. QED BY <1>1, <1>2, <1>3 DEF States, Good

\* What each probe of an audit asks about.
LEMMA ProbeSubjects ==
  ASSUME NEW prof, NEW clust, NEW p \in Probes(prof, clust)
  PROVE  /\ p.check = "address" => p.of \in Addresses
         /\ p.check \in {"dns-soa", "dns-ns", "dns-public", "dns-compared"}
              => p.of \in Endpoints
         /\ p.check \in {"dns-soa", "dns-ns"} /\ prof = "local-actionable"
              => p.of \in Local
         /\ p.check = "unit-active" => \E e \in Rootful : p.of = U(e)
         /\ p.check = "rootless-unit-active"
              => \E e \in Entries \ Rootful : p.of = U(e)
         /\ p.check = "vault-agent-active" => AgentIsRootless /\ p.of = AgentUnit
         /\ p.check \in {"podman-image-local", "obsolete-image-unit"}
              => \E e \in Containers : e.image /\ p.of = U(e)
         /\ p.check = "container-running" => \E e \in Containers : p.of = U(e)
         /\ p.check \in {"dns-public", "dns-compared", "dns-soa-consistent",
                         "failed-units", "podman-unhealthy-containers"}
              => prof # "local-actionable"
         /\ p.check \in {"address", "dns-soa", "dns-ns", "dns-public",
                         "dns-compared", "dns-soa-consistent", "unit-active",
                         "rootless-unit-active", "vault-agent-active",
                         "podman-image-local", "obsolete-image-unit",
                         "secrets-ready", "failed-units", "container-running",
                         "podman-unhealthy-containers"}
<1> USE DEF P
<1>1. CASE p \in AddressProbes
  BY <1>1 DEF AddressProbes
<1>2. CASE p \in DnsProbes(prof, clust)
  BY <1>2, EntriesAssumption DEF DnsProbes, Servers
<1>3. CASE p \in SystemProbes(prof)
  BY <1>3 DEF SystemProbes
<1>4. CASE p \in VaultProbes \union SecretsProbes
  BY <1>4 DEF VaultProbes, SecretsProbes
<1>5. CASE p \in ImageProbes
  BY <1>5 DEF ImageProbes
<1>6. CASE p \in UserProbes
  BY <1>6 DEF UserProbes
<1>7. CASE p \in ContainerProbes(prof)
  BY <1>7 DEF ContainerProbes
<1>. QED BY <1>1, <1>2, <1>3, <1>4, <1>5, <1>6, <1>7 DEF Probes

\* All of it is among the resources.
LEMMA SubjectsAreResources ==
  /\ \A e \in Entries : R("unit", U(e)) \in Resources
  /\ R("unit", AgentUnit) \in Resources
  /\ \A e \in Containers : R("container", U(e)) \in Resources
  /\ \A e \in Containers : e.image => /\ R("image", U(e)) \in Resources
                                      /\ R("old-image-unit", U(e)) \in Resources
  /\ \A a \in Addresses : R("address", a) \in Resources
  /\ \A n \in Endpoints : R("dns", n) \in Resources
  /\ R("sentinel", Gate) \in Resources /\ R("gate", Gate) \in Resources
BY Zenon DEF Resources

LEMMA Ranks ==
  ASSUME NEW p
  PROVE  /\ Rank(p) \in 1..12
         /\ p.check = "dns-compared" => Rank(p) = 3
         /\ p.check = "dns-soa-consistent" => Rank(p) = 4
BY DEF Rank

\* The probe that is due is one of those left, and none of a smaller rank is left.
LEMMA DueIsFirst ==
  ASSUME NEW p \in Due
  PROVE  p \in todo /\ \A q \in todo : Rank(p) <= Rank(q)
<1>1. todo # {} /\ p = CHOOSE x \in todo : \A q \in todo : Rank(x) <= Rank(q)
  BY DEF Due
<1>2. \E x \in todo : \A q \in todo : Rank(x) <= Rank(q)
  <2> DEFINE Ranked(k) == \E q \in todo : Rank(q) = k
  <2>1. \E k \in 1..12 : Ranked(k) /\ \A j \in 1..12 : j < k => ~Ranked(j)
    <3>1. \E k \in 1..12 : Ranked(k)
      BY <1>1, Ranks
    <3> HIDE DEF Ranked
    <3>. QED BY <3>1
  <2>. QED BY <2>1, Ranks
<1>. QED BY <1>1, <1>2
-----------------------------------------------------------------------------
(* What a single answer says.                                                *)

\* What is asked about while an audit runs.
LEMMA DueFacts ==
  ASSUME IInv, NEW p \in todo
  PROVE  /\ p \in Checks /\ profile # "none" /\ verdict = "none"
         /\ \A r \in Resources : /\ state[r] \in States(r)
                                 /\ state[r] \in seen[r]
BY DEF IInv, SeenInv, ProgressInv

\* A probe that succeeds has its evidence; the comparison comes after all the
\* answers it compares.
LEMMA SuccessGivesEvidence ==
  ASSUME IInv, NEW p \in Due, Succeeds(p)
  PROVE  /\ p.check # "dns-soa-consistent" => Evidence(p)
         /\ p.check = "dns-soa-consistent"
              => Consistent /\ \A q \in todo : q.check # "dns-compared"
<1>1. p \in todo /\ \A q \in todo : Rank(p) <= Rank(q)
  BY DueIsFirst
<1>2. /\ p \in Checks
      /\ \A r \in Resources : state[r] \in States(r) /\ state[r] \in seen[r]
  BY <1>1, DueFacts
<1>3. CASE p.check = "address"
  BY <1>2, <1>3, ProbeSubjects, SubjectsAreResources
  DEF Succeeds, Evidence, Checks
<1>4. CASE p.check = "dns-soa"
  <2>1. R("dns", p.of) \in Resources
    BY <1>2, <1>4, ProbeSubjects, SubjectsAreResources DEF Checks
  <2>2. state[R("dns", p.of)] # "down"
    BY <1>4 DEF Succeeds
  <2>3. state[R("dns", p.of)] \in Serials
    BY <1>2, <2>1, <2>2, KindStates
  <2>. QED BY <1>2, <1>4, <2>1, <2>3 DEF Evidence
<1>5. CASE p.check = "unit-active"
  <2>1. R("unit", p.of) \in Resources
    BY <1>2, <1>5, ProbeSubjects, SubjectsAreResources DEF Checks, Rootful
  <2>2. state[R("unit", p.of)] = "up"
    BY <1>5 DEF Succeeds
  <2>. QED BY <1>2, <1>5, <2>1, <2>2, KindStates DEF Evidence
<1>6. CASE p.check \in {"rootless-unit-active", "vault-agent-active"}
  <2>1. R("unit", p.of) \in Resources
    BY <1>2, <1>6, ProbeSubjects, SubjectsAreResources DEF Checks
  <2>2. state[R("unit", p.of)] = "up"
    BY <1>6 DEF Succeeds
  <2>. QED BY <1>2, <1>6, <2>1, <2>2 DEF Evidence
<1>7. CASE p.check = "podman-image-local"
  <2>1. R("image", p.of) \in Resources
    BY <1>2, <1>7, ProbeSubjects, SubjectsAreResources DEF Checks
  <2>. QED BY <1>2, <1>7, <2>1 DEF Succeeds, Evidence
<1>8. CASE p.check = "secrets-ready"
  BY <1>2, <1>8, SubjectsAreResources DEF Succeeds, Evidence
<1>9. CASE p.check = "container-running"
  <2>1. R("container", p.of) \in Resources
    BY <1>2, <1>9, ProbeSubjects, SubjectsAreResources DEF Checks
  <2>. QED BY <1>2, <1>9, <2>1 DEF Succeeds, Evidence
<1>10. CASE p.check = "dns-soa-consistent"
  BY <1>1, <1>10, Ranks DEF Succeeds
<1>11. CASE p.check \in {"dns-ns", "dns-public", "dns-compared",
                         "obsolete-image-unit", "failed-units",
                         "podman-unhealthy-containers"}
  BY <1>11 DEF Evidence
<1>. QED
  BY <1>2, <1>3, <1>4, <1>5, <1>6, <1>7, <1>8, <1>9, <1>10, <1>11, ProbeSubjects
  DEF Checks

\* A resource that is declared here and was seen in a bad state is to blame.
LEMMA BadIsBlamed ==
  ASSUME NEW r \in Resources, seen[r] \ Good(r) # {},
         r.kind \notin {"stranger", "world"}, r.kind = "dns" => r.of \in Local
  PROVE  Blame
BY DEF Blame

\* A probe of the profile of the runner that fails has found one.
LEMMA FailureGivesBlame ==
  ASSUME IInv, NEW p \in todo, ~Succeeds(p), ~Waits(p),
         profile = "local-actionable"
  PROVE  Blame
<1>1. /\ p \in Checks
      /\ \A r \in Resources : state[r] \in States(r) /\ state[r] \in seen[r]
  BY DueFacts
<1>2. \A k, o : R(k, o).kind = k /\ R(k, o).of = o
  BY DEF R
<1>3. CASE p.check = "address"
  <2>1. R("address", p.of) \in Resources /\ state[R("address", p.of)] # "up"
    BY <1>1, <1>3, ProbeSubjects, SubjectsAreResources DEF Succeeds, Checks
  <2>. QED BY <1>1, <1>2, <2>1, KindStates, BadIsBlamed
<1>4. CASE p.check \in {"dns-soa", "dns-ns"}
  <2>1. R("dns", p.of) \in Resources /\ p.of \in Local
    BY <1>1, <1>4, ProbeSubjects, SubjectsAreResources DEF Checks
  <2>2. state[R("dns", p.of)] = "down"
    BY <1>4 DEF Succeeds
  <2>. QED BY <1>1, <1>2, <2>1, <2>2, KindStates, BadIsBlamed, EntriesAssumption
<1>5. CASE p.check = "unit-active"
  \* Not a service, so that its being inactive settles it.
  <2>1. R("unit", p.of) \in Resources
    BY <1>1, <1>5, ProbeSubjects, SubjectsAreResources DEF Checks, Rootful
  <2>2. state[R("unit", p.of)] # "up" /\ p.of[1] \notin Services
    BY <1>5 DEF Succeeds, Waits
  <2>3. state[R("unit", p.of)] = "down"
    BY <1>1, <2>1, <2>2, KindStates
  <2>. QED BY <1>1, <1>2, <2>1, <2>3, KindStates, BadIsBlamed
<1>6. CASE p.check \in {"rootless-unit-active", "vault-agent-active"}
  <2>1. R("unit", p.of) \in Resources /\ p.of[2] # NoUser
    BY <1>1, <1>6, ProbeSubjects, SubjectsAreResources
    DEF Checks, Rootful, U, AgentIsRootless, AgentUnit
  <2>2. state[R("unit", p.of)] # "up"
    BY <1>6 DEF Succeeds
  <2>. QED BY <1>1, <1>2, <2>1, <2>2, KindStates, BadIsBlamed
<1>7. CASE p.check = "podman-image-local"
  <2>1. R("image", p.of) \in Resources /\ state[R("image", p.of)] # "up"
    BY <1>1, <1>7, ProbeSubjects, SubjectsAreResources DEF Succeeds, Checks
  <2>. QED BY <1>1, <1>2, <2>1, KindStates, BadIsBlamed
<1>8. CASE p.check = "obsolete-image-unit"
  <2>1. /\ R("old-image-unit", p.of) \in Resources
        /\ state[R("old-image-unit", p.of)] # "up"
    BY <1>1, <1>8, ProbeSubjects, SubjectsAreResources DEF Succeeds, Checks
  <2>. QED BY <1>1, <1>2, <2>1, KindStates, BadIsBlamed
<1>9. CASE p.check = "secrets-ready"
  <2>1. \/ state[R("sentinel", Gate)] # "up"
        \/ state[R("gate", Gate)] # "up"
    BY <1>9 DEF Succeeds
  <2>. QED BY <1>1, <1>2, <2>1, KindStates, BadIsBlamed, SubjectsAreResources
<1>10. CASE p.check = "container-running"
  <2>1. R("container", p.of) \in Resources /\ state[R("container", p.of)] # "up"
    BY <1>1, <1>10, ProbeSubjects, SubjectsAreResources DEF Succeeds, Checks
  <2>. QED BY <1>1, <1>2, <2>1, KindStates, BadIsBlamed
<1>. QED
  BY <1>1, <1>3, <1>4, <1>5, <1>6, <1>7, <1>8, <1>9, <1>10, ProbeSubjects
  DEF Checks

\* The second question about an inactive unit settles it one way or the other.
LEMMA ShowSettles ==
  ASSUME IInv, NEW p \in showing
  PROVE  /\ p.check = "unit-active" /\ p \in todo
         /\ state[R("unit", p.of)] = "completed" => Evidence(p)
         /\ state[R("unit", p.of)] # "completed" => Blame
<1>1. p.check = "unit-active" /\ p \in todo /\ ~(seen[R("unit", p.of)] \subseteq {"up"})
  BY DEF IInv, ShowingInv, ProgressInv
<1>2. p \in Checks /\ profile # "none"
  BY <1>1, DueFacts
<1>3. PICK e \in Rootful : p.of = U(e)
  BY <1>1, <1>2, ProbeSubjects DEF Checks
<1>4. p.of[2] = NoUser
  BY <1>3 DEF U, Rootful
<1> DEFINE r == R("unit", p.of)
<1>5. r \in Resources /\ r.kind = "unit"
  BY <1>3, SubjectsAreResources DEF Rootful, R
<1>6. /\ Good(r) = {"up", "completed"}
      /\ state[r] \in {"up", "down", "completed"} /\ state[r] \in seen[r]
      /\ seen[r] \subseteq {"up", "down", "completed"}
  BY <1>2, <1>4, <1>5, KindStates DEF IInv, SeenInv
<1>7. state[r] = "completed" => Evidence(p)
  BY <1>1, <1>6 DEF Evidence
<1>8. ASSUME state[r] # "completed"
      PROVE  Blame
  <2>1. CASE "down" \in seen[r]
    BY <1>5, <1>6, <2>1, BadIsBlamed
  <2>2. CASE "down" \notin seen[r]
    <3>1. {"up", "completed"} \subseteq seen[r]
      BY <1>1, <1>6, <1>8, <2>2
    <3>. QED BY <1>3, <3>1 DEF Blame
  <2>. QED BY <2>1, <2>2
<1>. QED BY <1>1, <1>7, <1>8
-----------------------------------------------------------------------------
(* Every step keeps the invariant.                                           *)

LEMMA InitInvariant == Init => IInv
<1> SUFFICES ASSUME Init PROVE IInv
  OBVIOUS
<1>1. DOMAIN state = Resources /\ \A r \in Resources : state[r] \in States(r)
  BY DEF Init
<1>2. SeenInv
  BY <1>1 DEF Init, SeenInv
<1>3. ProgressInv /\ ShowingInv /\ EvidenceInv /\ BlameInv
  BY DEF Init, ProgressInv, ShowingInv, EvidenceInv, BlameInv
<1>4. AnswersInv
  BY DEF Init, AnswersInv, NoAnswers
<1>. QED BY <1>2, <1>3, <1>4 DEF IInv

\* At the start every probe is still to run.
LEMMA BeginStep ==
  ASSUME IInv, Begin
  PROVE  IInv'
<1> USE DEF Begin
<1>1. /\ profile = "none" /\ profile' # "none" /\ todo' = Checks'
      /\ failed = {} /\ showing = {} /\ verdict = "none"
      /\ UNCHANGED <<state, showing, answers, failed, verdict, cutOff>>
  BY DEF Checks, IInv, SeenInv
<1>2. SeenInv'
  <2>1. DOMAIN seen' = Resources /\ \A r \in Resources : seen'[r] = {state[r]}
    OBVIOUS
  <2>. QED BY <1>1, <2>1 DEF IInv, SeenInv
<1>3. ProgressInv' /\ ShowingInv' /\ EvidenceInv' /\ BlameInv'
  BY <1>1 DEF ProgressInv, ShowingInv, EvidenceInv, BlameInv
<1>4. AnswersInv'
  \* Nothing has been answered before.
  BY <1>1 DEF IInv, AnswersInv, NoAnswers
<1>. QED BY <1>2, <1>3, <1>4 DEF IInv

\* Whatever is seen once stays seen.
LEMMA ChangeStep ==
  ASSUME IInv, Change
  PROVE  IInv'
<1>1. PICK r \in Resources : \E s \in States(r) \ {state[r]} :
        /\ state' = [state EXCEPT ![r] = s]
        /\ seen' = [seen EXCEPT ![r] = @ \union {s}]
  BY DEF Change
<1>2. PICK s \in States(r) :
        /\ state' = [state EXCEPT ![r] = s]
        /\ seen' = [seen EXCEPT ![r] = @ \union {s}]
  BY <1>1
<1>3. UNCHANGED <<profile, cluster, todo, showing, answers, failed, verdict, cutOff>>
  BY DEF Change
<1>4. DOMAIN state' = Resources /\ DOMAIN seen' = Resources
  BY <1>2 DEF IInv, SeenInv
<1>5. \A q \in Resources : /\ seen[q] \subseteq seen'[q]
                           /\ seen'[q] \subseteq seen[q] \union {state'[q]}
                           /\ state'[q] \in States(q)
                           /\ state'[q] = state[q] \/ state'[q] \in seen'[q]
  BY <1>2 DEF IInv, SeenInv
<1>6. SeenInv'
  BY <1>3, <1>4, <1>5 DEF IInv, SeenInv
<1>7. ProgressInv' /\ UNCHANGED Checks
  BY <1>3 DEF IInv, ProgressInv, Checks
<1>8. ShowingInv'
  <2>1. ASSUME NEW p \in showing
        PROVE  R("unit", p.of) \in Resources
    BY ProbeSubjects, SubjectsAreResources
    DEF IInv, ShowingInv, ProgressInv, Checks, Rootful
  <2>. QED BY <1>3, <1>5, <2>1 DEF IInv, ShowingInv
<1>9. AnswersInv'
  BY <1>3, <1>5, SubjectsAreResources DEF IInv, AnswersInv
<1>10. EvidenceInv'
  <2> SUFFICES ASSUME profile # "none", NEW p \in Checks \ (todo \union failed)
               PROVE  Evidence(p)'
    BY <1>3, <1>7 DEF EvidenceInv
  <2>1. Evidence(p)
    BY DEF IInv, EvidenceInv
  <2>2. /\ p.check = "address" => R("address", p.of) \in Resources
        /\ p.check = "dns-soa" => R("dns", p.of) \in Resources
        /\ p.check \in {"unit-active", "rootless-unit-active", "vault-agent-active"}
             => R("unit", p.of) \in Resources
        /\ p.check = "podman-image-local" => R("image", p.of) \in Resources
        /\ p.check = "container-running" => R("container", p.of) \in Resources
        /\ R("sentinel", Gate) \in Resources /\ R("gate", Gate) \in Resources
    BY ProbeSubjects, SubjectsAreResources DEF Checks, Rootful
  <2>. QED BY <1>3, <1>5, <2>1, <2>2 DEF Evidence, Consistent
<1>11. BlameInv'
  <2>1. Blame => Blame'
    BY <1>5, SubjectsAreResources DEF Blame, Rootful
  <2>. QED BY <1>3, <2>1 DEF IInv, BlameInv
<1>. QED BY <1>6, <1>7, <1>8, <1>9, <1>10, <1>11 DEF IInv

\* What concluding a probe has to show, besides the answer itself.
LEMMA ConcludeStep ==
  ASSUME IInv, NEW p \in todo, NEW success \in BOOLEAN, Conclude(p, success),
         UNCHANGED <<state, profile, cluster, verdict, seen>>,
         showing' = {}, cutOff => cutOff', AnswersInv',
         UNCHANGED answers \/ p.check = "dns-compared",
         success => Evidence(p)',
         ~success /\ profile = "local-actionable" => cutOff' \/ Blame
  PROVE  IInv'
<1>1. /\ todo' = todo \ {p} /\ failed' \in {failed, failed \union {p}}
      /\ success => failed' = failed
      /\ ~success => failed' = failed \union {p}
  BY DEF Conclude
<1>2. p \in Checks /\ profile # "none" /\ verdict = "none" /\ UNCHANGED Checks
  BY DueFacts DEF Checks
<1>3. SeenInv' /\ ProgressInv' /\ ShowingInv'
  BY <1>1, <1>2 DEF IInv, SeenInv, ProgressInv, ShowingInv
<1>4. EvidenceInv'
  <2> SUFFICES ASSUME NEW q \in Checks, q \notin todo', q \notin failed'
               PROVE  Evidence(q)'
    BY <1>2 DEF EvidenceInv
  <2>1. CASE q = p
    BY <1>1, <2>1
  <2>2. CASE q # p
    <3>1. Evidence(q)
      BY <1>1, <1>2, <2>2 DEF IInv, EvidenceInv
    <3>2. q.check = "dns-soa-consistent" => UNCHANGED answers
      BY <3>1 DEF Evidence
    <3>. QED BY <1>1, <3>1, <3>2 DEF Evidence, Consistent
  <2>. QED BY <2>1, <2>2
<1>5. BlameInv'
  <2>1. Blame' <=> Blame
    BY DEF Blame
  <2>. QED BY <1>1, <2>1 DEF IInv, BlameInv
<1>. QED BY <1>3, <1>4, <1>5 DEF IInv

LEMMA ProbeStep ==
  ASSUME IInv, Probe
  PROVE  IInv'
<1>1. PICK p \in Due : /\ ~Waits(p) /\ p.check # "dns-compared"
                       /\ Conclude(p, Succeeds(p))
  BY DEF Probe
<1>2. showing' = {} /\ UNCHANGED <<state, profile, cluster, answers, verdict, seen,
                                   cutOff>>
  BY DEF Probe, history
<1>3. p \in todo /\ todo' \subseteq todo
  BY <1>1, DueIsFirst DEF Conclude
<1>4. AnswersInv'
  BY <1>2 DEF IInv, AnswersInv
<1>5. CASE Succeeds(p)
  <2>1. Conclude(p, TRUE)
    BY <1>1, <1>5 DEF Conclude
  <2>2. Evidence(p)'
    BY <1>2, <1>3, <1>5, SuccessGivesEvidence DEF Evidence, Consistent
  <2>. QED BY <1>2, <1>3, <1>4, <2>1, <2>2, ConcludeStep
<1>6. CASE ~Succeeds(p)
  <2>1. Conclude(p, FALSE)
    BY <1>1, <1>6 DEF Conclude
  <2>2. profile = "local-actionable" => Blame
    BY <1>1, <1>3, <1>6, FailureGivesBlame
  <2>. QED BY <1>2, <1>3, <1>4, <2>1, <2>2, ConcludeStep
<1>. QED BY <1>5, <1>6

\* What a server answers in the comparison is what it serves at that instant.
LEMMA CompareStep ==
  ASSUME IInv, Compare
  PROVE  IInv'
<1>1. PICK p \in Due : /\ p.check = "dns-compared" /\ Conclude(p, TRUE)
                       /\ answers' = [answers EXCEPT ![p.of] = state[R("dns", p.of)]]
  BY DEF Compare
<1>2. showing' = {} /\ UNCHANGED <<state, profile, cluster, verdict, seen, cutOff>>
  BY DEF Compare, history
<1>3. p \in todo
  BY <1>1, DueIsFirst
<1>4. AnswersInv'
  <2>1. p.of \in Endpoints /\ R("dns", p.of) \in Resources
    BY <1>1, <1>3, DueFacts, ProbeSubjects, SubjectsAreResources DEF Checks
  <2>2. /\ state[R("dns", p.of)] \in Serials \union {"down"}
        /\ state[R("dns", p.of)] \in seen[R("dns", p.of)]
    BY <1>3, <2>1, DueFacts, KindStates
  <2>. QED BY <1>1, <1>2, <1>3, <2>1, <2>2, DueFacts DEF IInv, AnswersInv
<1>5. Evidence(p)'
  BY <1>1 DEF Evidence
<1>. QED BY <1>1, <1>2, <1>3, <1>4, <1>5, ConcludeStep

LEMMA InactiveStep ==
  ASSUME IInv, Inactive
  PROVE  IInv'
<1>1. PICK p \in Due : Waits(p) /\ showing' = {p}
  BY DEF Inactive
<1>2. UNCHANGED <<state, profile, cluster, todo, answers, failed, verdict, seen,
                  cutOff>>
  BY DEF Inactive, history
<1>3. p \in todo /\ p.check = "unit-active" /\ state[R("unit", p.of)] # "up"
  BY <1>1, DueIsFirst DEF Waits
<1>4. R("unit", p.of) \in Resources
  BY <1>3, DueFacts, ProbeSubjects, SubjectsAreResources DEF Checks, Rootful
<1>5. state[R("unit", p.of)] \in seen[R("unit", p.of)]
  BY <1>3, <1>4, DueFacts
<1>6. ShowingInv'
  BY <1>1, <1>2, <1>3, <1>5 DEF ShowingInv
<1>7. SeenInv' /\ ProgressInv' /\ AnswersInv'
  BY <1>1, <1>2, <1>3, DueFacts
  DEF IInv, SeenInv, ProgressInv, AnswersInv, Checks
<1>8. EvidenceInv' /\ BlameInv'
  BY <1>2 DEF IInv, EvidenceInv, BlameInv, Evidence, Consistent, Blame, Checks
<1>. QED BY <1>6, <1>7, <1>8 DEF IInv

LEMMA ShowUnitStep ==
  ASSUME IInv, ShowUnit
  PROVE  IInv'
<1>1. PICK p \in showing : Conclude(p, state[R("unit", p.of)] = "completed")
  BY DEF ShowUnit
<1>2. showing' = {} /\ UNCHANGED <<state, profile, cluster, answers, verdict, seen,
                                   cutOff>>
  BY DEF ShowUnit, history
<1>3. /\ p \in todo /\ p.check = "unit-active"
      /\ state[R("unit", p.of)] = "completed" => Evidence(p)
      /\ state[R("unit", p.of)] # "completed" => Blame
  BY ShowSettles
<1>4. AnswersInv'
  BY <1>2 DEF IInv, AnswersInv
<1>5. CASE state[R("unit", p.of)] = "completed"
  <2>1. Conclude(p, TRUE)
    BY <1>1, <1>5 DEF Conclude
  <2>2. Evidence(p)'
    BY <1>2, <1>3, <1>5 DEF Evidence
  <2>. QED BY <1>2, <1>3, <1>4, <2>1, <2>2, ConcludeStep
<1>6. CASE state[R("unit", p.of)] # "completed"
  <2>1. Conclude(p, FALSE)
    BY <1>1, <1>6 DEF Conclude
  <2>. QED BY <1>2, <1>3, <1>4, <1>6, <2>1, ConcludeStep
<1>. QED BY <1>5, <1>6

\* A command that is cut off counts as failed; only in the comparison it is an
\* empty answer, which the comparison itself judges.
LEMMA TimeoutStep ==
  ASSUME IInv, Timeout
  PROVE  IInv'
<1>1. PICK p \in (IF showing = {} THEN Due ELSE showing) :
        Conclude(p, p.check = "dns-compared")
  BY DEF Timeout
<1>2. /\ showing' = {} /\ cutOff' = TRUE
      /\ UNCHANGED <<state, profile, cluster, answers, verdict, seen>>
  BY DEF Timeout
<1>3. p \in todo
  BY <1>1, DueIsFirst DEF IInv, ProgressInv
<1>4. AnswersInv'
  BY <1>2 DEF IInv, AnswersInv
<1>5. p.check = "dns-compared" => Evidence(p)'
  BY DEF Evidence
<1>6. CASE p.check = "dns-compared"
  <2>1. Conclude(p, TRUE)
    BY <1>1, <1>6 DEF Conclude
  <2>. QED BY <1>2, <1>3, <1>4, <1>5, <1>6, <2>1, ConcludeStep
<1>7. CASE p.check # "dns-compared"
  <2>1. Conclude(p, FALSE)
    BY <1>1, <1>7 DEF Conclude
  <2>. QED BY <1>2, <1>3, <1>4, <2>1, ConcludeStep
<1>. QED BY <1>6, <1>7

LEMMA FinishStep ==
  ASSUME IInv, Finish
  PROVE  IInv'
<1>1. /\ profile # "none" /\ todo = {}
      /\ verdict' = IF failed = {} THEN "ok" ELSE "failed"
      /\ UNCHANGED <<state, profile, cluster, todo, showing, answers, failed, seen,
                     cutOff>>
  BY DEF Finish, history
<1>. QED
  BY <1>1 DEF IInv, SeenInv, ProgressInv, ShowingInv, AnswersInv, EvidenceInv,
              BlameInv, Evidence, Consistent, Blame, Checks

LEMMA StepInvariant ==
  ASSUME IInv, [Next]_vars
  PROVE  IInv'
<1>1. CASE Next
  BY <1>1, BeginStep, ProbeStep, CompareStep, InactiveStep, ShowUnitStep,
     TimeoutStep, FinishStep, ChangeStep DEF Next
<1>2. CASE UNCHANGED vars
  BY <1>2 DEF vars, history, IInv, SeenInv, ProgressInv, ShowingInv, AnswersInv,
              EvidenceInv, BlameInv, Evidence, Consistent, Blame, Checks
<1>. QED BY <1>1, <1>2

\* The invariant holds whatever changes during an audit.
THEOREM InvariantHolds == Spec => []IInv
BY InitInvariant, StepInvariant, PTL DEF Spec
-----------------------------------------------------------------------------
(* What a verdict says.                                                      *)

\* An audit that ends well has run every probe, and none of them failed.
LEMMA OkMeansEvidence ==
  ASSUME IInv, verdict = "ok"
  PROVE  profile # "none" /\ \A p \in Checks : Evidence(p)
BY DEF IInv, SeenInv, ProgressInv, EvidenceInv

\* There is a probe for whatever is required, the Vault Agent included, which the
\* check of rootless units leaves out.
LEMMA RequiredAreProbed ==
  ASSUME IInv, verdict = "ok", NEW r \in Required
  PROVE  seen[r] \intersect Good(r) # {}
<1>1. \A p \in Checks : Evidence(p)
  BY OkMeansEvidence
<1>2. \A c, o : P(c, o).check = c /\ P(c, o).of = o
  BY DEF P
<1>3. ASSUME NEW e \in Entries, e.kind \in {"container", "pod"}, r = R("unit", U(e))
      PROVE  seen[r] \intersect Good(r) # {}
  <2>1. CASE e \in Rootful
    <3>1. P("unit-active", U(e)) \in Checks
      BY <1>3, <2>1 DEF Checks, Probes, SystemProbes
    <3>. QED BY <1>1, <1>2, <1>3, <3>1 DEF Evidence
  <2>2. CASE e \notin Rootful /\ e.unit # Agent
    <3>1. P("rootless-unit-active", U(e)) \in Checks
      BY <1>3, <2>2 DEF Checks, Probes, UserProbes
    <3>. QED BY <1>1, <1>2, <1>3, <3>1, KindStates DEF Evidence
  <2>3. CASE e \notin Rootful /\ e.unit = Agent
    <3>1. AgentIsRootless /\ U(e) = AgentUnit
      BY <1>3, <2>3, EntriesAssumption DEF Rootful, AgentIsRootless, AgentUnit, U
    <3>2. P("vault-agent-active", U(e)) \in Checks
      BY <3>1 DEF Checks, Probes, VaultProbes
    <3>. QED BY <1>1, <1>2, <1>3, <3>2, KindStates DEF Evidence
  <2>. QED BY <2>1, <2>2, <2>3
<1>4. ASSUME NEW e \in Rootful, e.unit \in Core, e.kind \in {"unit", "dropin"},
             r = R("unit", U(e))
      PROVE  seen[r] \intersect Good(r) # {}
  <2>1. P("unit-active", U(e)) \in Checks
    BY <1>4 DEF Checks, Probes, SystemProbes
  <2>. QED BY <1>1, <1>2, <1>4, <2>1 DEF Evidence
<1>5. ASSUME NEW e \in Containers, e.image, r = R("image", U(e))
      PROVE  seen[r] \intersect Good(r) # {}
  <2>1. P("podman-image-local", U(e)) \in Checks
    BY <1>5 DEF Checks, Probes, ImageProbes
  <2>. QED BY <1>1, <1>2, <1>5, <2>1, KindStates DEF Evidence
<1>6. ASSUME NEW a \in Addresses, r = R("address", a)
      PROVE  seen[r] \intersect Good(r) # {}
  <2>1. P("address", a) \in Checks
    BY <1>6 DEF Checks, Probes, AddressProbes
  <2>. QED BY <1>1, <1>2, <1>6, <2>1, KindStates DEF Evidence
<1>7. ASSUME NEW n \in Local, r = R("dns", n)
      PROVE  seen[r] \intersect Good(r) # {}
  <2>1. P("dns-soa", n) \in Checks
    BY <1>7, EntriesAssumption DEF Checks, Probes, DnsProbes, Servers
  <2>. QED BY <1>1, <1>2, <1>7, <2>1, KindStates DEF Evidence
<1>8. ASSUME VaultAgent.mapped, r \in {R("sentinel", Gate), R("gate", Gate)}
      PROVE  seen[r] \intersect Good(r) # {}
  <2>1. P("secrets-ready", Gate) \in Checks
    BY <1>8 DEF Checks, Probes, SecretsProbes
  <2>. QED BY <1>1, <1>2, <1>8, <2>1, KindStates DEF Evidence
<1>. QED BY <1>3, <1>4, <1>5, <1>6, <1>7, <1>8 DEF Required

\* An audit that ends well has seen up whatever it is about.
THEOREM OkIsTrue == Spec => []OkMeansSeenUp
<1>1. ASSUME IInv, verdict = "ok", profile = "local-actionable",
             NEW e \in Containers
      PROVE  "up" \in seen[R("container", U(e))]
  <2>1. P("container-running", U(e)) \in Checks
    BY <1>1 DEF Checks, Probes, ContainerProbes
  <2>. QED BY <1>1, <2>1, OkMeansEvidence DEF Evidence, P
<1>2. ASSUME IInv, verdict = "ok", profile = "local-actionable",
             NEW e \in Rootful, e.starts, e.kind \in {"unit", "dropin"}
      PROVE  seen[R("unit", U(e))] \intersect Good(R("unit", U(e))) # {}
  <2>1. P("unit-active", U(e)) \in Checks
    BY <1>2 DEF Checks, Probes, SystemProbes
  <2>. QED BY <1>2, <2>1, OkMeansEvidence DEF Evidence, P
<1>3. IInv => OkMeansSeenUp
  BY <1>1, <1>2, RequiredAreProbed DEF OkMeansSeenUp
<1>. QED BY <1>3, InvariantHolds, PTL

\* A repair is the answer to something this host declares.
THEOREM RepairsAnswerLocalFaults == Spec => []RepairsAreLocal
<1>1. ASSUME IInv, verdict = "failed", profile = "local-actionable", ~cutOff
      PROVE  \/ \E r \in Resources :
                  /\ ~(seen[r] \subseteq Good(r))
                  /\ r.kind \notin {"stranger", "world"}
                  /\ r.kind = "dns" => r.of \in Local
             \/ \E e \in Rootful : seen[R("unit", U(e))] = {"up", "completed"}
  <2>1. Blame
    BY <1>1 DEF IInv, ProgressInv, BlameInv
  <2>2. ASSUME NEW e \in Rootful, {"up", "completed"} \subseteq seen[R("unit", U(e))],
               seen[R("unit", U(e))] # {"up", "completed"}
        PROVE  \E r \in Resources : /\ ~(seen[r] \subseteq Good(r))
                                    /\ r.kind \notin {"stranger", "world"}
                                    /\ r.kind = "dns" => r.of \in Local
    <3>1. /\ R("unit", U(e)) \in Resources /\ R("unit", U(e)).kind = "unit"
          /\ seen[R("unit", U(e))] \subseteq {"up", "down", "completed"}
      BY <1>1, <2>2, KindStates, SubjectsAreResources
      DEF IInv, SeenInv, ProgressInv, R, Rootful
    <3>2. "down" \in seen[R("unit", U(e))]
      BY <2>2, <3>1
    <3>. QED BY <3>1, <3>2, KindStates
  <2>. QED BY <2>1, <2>2 DEF Blame
<1>2. IInv => RepairsAreLocal
  BY <1>1 DEF RepairsAreLocal
<1>. QED BY <1>2, InvariantHolds, PTL

\* Servers found consistent have all served one serial during the audit.
THEOREM ConsistencyIsReal == Spec => []ConsistentMeansShared
<1>1. ASSUME IInv, verdict = "ok", profile = "default", cluster, Endpoints # {}
      PROVE  \E s \in Serials : \A n \in Endpoints : s \in seen[R("dns", n)]
  <2>1. P("dns-soa-consistent", "zone") \in Checks
    BY <1>1 DEF Checks, Probes, DnsProbes
  <2>2. Consistent
    BY <1>1, <2>1, OkMeansEvidence DEF Evidence, P
  <2> DEFINE given == {answers[n] : n \in Endpoints}
  <2>3. answers \in [Endpoints -> Serials \union {"down"}]
        /\ \A n \in Endpoints : answers[n] \in seen[R("dns", n)]
    BY <1>1, <2>2 DEF IInv, AnswersInv, Consistent
  <2>4. IsFiniteSet(given)
    <3>1. answers \in Surjection(Endpoints, given)
      BY <2>3 DEF Surjection
    <3>. QED BY <3>1, FS_Surjection, EntriesAssumption
  <2>5. PICK s : given = {s}
    BY <2>2, <2>4, FS_Singleton DEF Consistent
  <2>6. \A n \in Endpoints : answers[n] = s
    BY <2>5
  <2>7. s \in Serials
    BY <1>1, <2>2, <2>3, <2>6 DEF Consistent
  <2>. QED BY <2>3, <2>6, <2>7
<1>2. IInv => ConsistentMeansShared
  BY <1>1 DEF ConsistentMeansShared
<1>. QED BY <1>2, InvariantHolds, PTL
=============================================================================
