---------------------------- MODULE HealthAudit ----------------------------
(***************************************************************************)
(* The health audit (health.py, cli/health.py): probes of a host, one      *)
(* after the other, while units, containers and DNS servers change state.  *)
(* The "local-actionable" profile decides whether the runner repairs the   *)
(* host; "default" is for the operator, with --cluster across hosts.       *)
(*                                                                         *)
(* A probe is one bounded command.  Its text and details are left out.     *)
(***************************************************************************)
EXTENDS Naturals, FiniteSets

CONSTANTS
  Entries,     \* manifest entries: kind, unit, user, image, starts
  Services,    \* names of units that end in .service
  Addresses,   \* of the host and of its service-32 services
  Endpoints,   \* CoreDNS servers of the cluster
  Local,       \* those mapped to this host
  VaultAgent,  \* whether the service vault-agent is mapped, and for which user
  Users,       \* runtime users of the mapped rootless services
  Strangers,   \* units of no manifest, with their manager ("root" or a user)
  Serials,     \* zone serials the servers may answer
  NoUser,      \* the user of what is not rootless
  MaxChanges, MaxTimeouts   \* bounds: state changes and cut-off commands

Core == {"coredns.service", "vault.service"}
Gate == "abhaile-secrets-ready.service"
Agent == "vault-agent.service"

ASSUME EntriesAssumption ==
  /\ \A e \in Entries :
       /\ e.kind \in {"container", "pod", "unit", "dropin", "other"}
       /\ {e.image, e.starts} \subseteq BOOLEAN
       /\ e.unit = Agent /\ e.user # NoUser => VaultAgent.user = e.user
  /\ VaultAgent \in [mapped : BOOLEAN, user : Users \union {NoUser}]
  /\ VaultAgent.mapped \/ VaultAgent.user = NoUser
  /\ IsFiniteSet(Endpoints) /\ Local \subseteq Endpoints
  /\ "down" \notin Serials
  /\ MaxChanges \in Nat /\ MaxTimeouts \in Nat

VARIABLES
  state,    \* of each resource a probe may look at
  profile,  \* the profile asked for, "none" between audits
  cluster,  \* --cluster
  todo,     \* probes still to run
  showing,  \* the probe of a unit found inactive, whose properties are read next
  answers,  \* SOA answers gathered for the comparison
  failed,   \* probes that failed
  verdict,  \* exit status of the last audit: "none", "ok", "failed"
  seen,     \* history: states of each resource since the audit began
  cutOff,   \* history: some command of this audit was cut off
  changes, timeouts   \* bounded counters

history == <<seen, cutOff>>
vars == <<state, profile, cluster, todo, showing, answers, failed, verdict,
          history, changes, timeouts>>

-----------------------------------------------------------------------------
(* Probes, and the resources they look at. *)

P(check, of) == [check |-> check, of |-> of]
R(kind, of) == [kind |-> kind, of |-> of]

Containers == {e \in Entries : e.kind = "container"}
Rootful == {e \in Entries : e.user = NoUser}

\* The unit of an entry and its manager: units of the system and of a user may
\* have the same name.
U(e) == <<e.unit, e.user>>

AgentUnit == <<Agent, VaultAgent.user>>
AgentIsRootless == VaultAgent.mapped /\ VaultAgent.user # NoUser

\* Declared units and containers, their images, the image units of old versions,
\* addresses, servers, the world outside, the secrets gate, and strangers.
Resources ==
  {R("unit", U(e)) : e \in Entries} \union {R("unit", AgentUnit)}
    \union {R("container", U(e)) : e \in Containers}
    \union {R("image", U(e)) : e \in {e \in Containers : e.image}}
    \union {R("old-image-unit", U(e)) : e \in {e \in Containers : e.image}}
    \union {R("address", a) : a \in Addresses}
    \union {R("dns", n) : n \in Endpoints}
    \union {R("world", "example.com."), R("sentinel", Gate), R("gate", Gate)}
    \union {R("stranger", s) : s \in Strangers}

\* "completed" is a oneshot service that ran and succeeded, which is accepted of
\* the system manager only; a serial is what a DNS server answers; an old image
\* unit is "up" when nothing is left of it.
States(r) ==
  CASE r.kind = "unit" ->
         {"up", "down"} \union {s \in {"completed"} : r.of[1] \in Services}
    [] r.kind = "container" -> {"up", "unhealthy", "down"}
    [] r.kind = "dns" -> Serials \union {"down"}
    [] r.kind = "stranger" -> {"up", "failed"}
    [] OTHER -> {"up", "down"}

Good(r) ==
  CASE r.kind = "unit" -> {"up"} \union {s \in {"completed"} : r.of[2] = NoUser}
    [] r.kind = "dns" -> Serials
    [] OTHER -> {"up"}

-----------------------------------------------------------------------------
(* The probes of an audit. *)

\* _coredns_endpoints or _mapped_coredns_endpoints
Servers(prof) == IF prof = "local-actionable" THEN Local ELSE Endpoints

\* Mutant of DnsProbes: a repair is triggered by servers of other hosts.
DnsProbesEverywhere(prof, clust) ==
  {P(c, n) : c \in {"dns-soa", "dns-ns"}, n \in Endpoints}
    \union (IF clust THEN {P("dns-compared", n) : n \in Endpoints}
                            \union {P("dns-soa-consistent", "zone")}
            ELSE {})

\* _check_coredns; the zone comparison asks every server once more.
DnsProbes(prof, clust) ==
  {P(c, n) : c \in {"dns-soa", "dns-ns"}, n \in Servers(prof)}
    \union (IF prof = "default" THEN {P("dns-public", n) : n \in Endpoints} ELSE {})
    \union (IF clust /\ prof = "default"
            THEN {P("dns-compared", n) : n \in Endpoints}
                   \union {P("dns-soa-consistent", "zone")}
            ELSE {})

\* _check_system_units
SystemProbes(prof) ==
  {P("unit-active", U(e)) : e \in
     {e \in Rootful :
        \/ e.kind \in {"container", "pod"}
        \/ /\ e.kind \in {"unit", "dropin"}
           /\ e.unit \in Core \/ (prof = "local-actionable" /\ e.starts)}}

\* _check_rootless_units leaves the Vault Agent to _check_rootless_vault_agent.
UserProbes ==
  {P("rootless-unit-active", U(e)) : e \in
     {e \in Entries \ Rootful : /\ e.kind \in {"container", "pod"}
                                /\ e.unit # Agent}}

\* Mutant of VaultProbes: left to _check_rootless_units, which skips the agent.
VaultProbesNone == {}

VaultProbes ==
  IF AgentIsRootless THEN {P("vault-agent-active", AgentUnit)} ELSE {}

\* _check_podman_images and _check_obsolete_image_units
ImageProbes ==
  {P(c, U(e)) : c \in {"podman-image-local", "obsolete-image-unit"},
                e \in {e \in Containers : e.image}}

\* _check_secrets_ready: the sentinel file and the gate, taken as one question.
SecretsProbes ==
  IF VaultAgent.mapped THEN {P("secrets-ready", Gate)} ELSE {}

\* _check_failed_units and _check_podman_health, or _check_selected_containers.
ContainerProbes(prof) ==
  IF prof = "local-actionable"
  THEN {P("container-running", U(e)) : e \in Containers}
  ELSE {P("failed-units", m) : m \in {"root"} \union Users}
         \union {P("podman-unhealthy-containers", "root")}

\* _check_required_addresses
AddressProbes == {P("address", a) : a \in Addresses}

\* run_health_audit
Probes(prof, clust) ==
  AddressProbes \union DnsProbes(prof, clust)
    \union SystemProbes(prof) \union VaultProbes \union ImageProbes
    \union UserProbes \union SecretsProbes \union ContainerProbes(prof)

\* The order of the checks.
Rank(p) ==
  CASE p.check = "address" -> 1
    [] p.check \in {"dns-public", "dns-soa", "dns-ns"} -> 2
    [] p.check = "dns-compared" -> 3
    [] p.check = "dns-soa-consistent" -> 4
    [] p.check = "unit-active" -> 5
    [] p.check = "vault-agent-active" -> 6
    [] p.check = "podman-image-local" -> 7
    [] p.check = "rootless-unit-active" -> 8
    [] p.check = "obsolete-image-unit" -> 9
    [] p.check = "failed-units" -> 10
    [] p.check = "secrets-ready" -> 11
    [] OTHER -> 12

\* The next probe, if any: within a check they follow in a fixed order.
Due == IF todo = {} THEN {}
       ELSE {CHOOSE p \in todo : \A q \in todo : Rank(p) <= Rank(q)}

-----------------------------------------------------------------------------
(* What a command answers about the host as it is now. *)

\* systemctl --failed of one manager; podman.service is ignored for users.
FailedUnits(m) ==
  {s \in Strangers : s.manager = m /\ state[R("stranger", s)] = "failed"
                     /\ ~(m # "root" /\ s.name = "podman.service")}

\* Mutant of Consistent: silent servers are left out of the comparison.
ConsistentAmongAnswers ==
  Cardinality({answers[n] : n \in Endpoints} \ {"down"}) = 1

Consistent ==
  /\ \A n \in Endpoints : answers[n] # "down"
  /\ Cardinality({answers[n] : n \in Endpoints}) = 1

Succeeds(p) ==
  CASE p.check = "address" -> state[R("address", p.of)] = "up"
    [] p.check \in {"dns-soa", "dns-ns"} -> state[R("dns", p.of)] # "down"
    [] p.check = "dns-public" ->
         state[R("dns", p.of)] # "down" /\ state[R("world", "example.com.")] = "up"
    [] p.check = "dns-soa-consistent" -> Consistent
    [] p.check \in {"unit-active", "rootless-unit-active", "vault-agent-active"} ->
         state[R("unit", p.of)] = "up"
    [] p.check = "podman-image-local" -> state[R("image", p.of)] = "up"
    [] p.check = "obsolete-image-unit" -> state[R("old-image-unit", p.of)] = "up"
    [] p.check = "failed-units" -> FailedUnits(p.of) = {}
    [] p.check = "secrets-ready" ->
         state[R("sentinel", Gate)] = "up" /\ state[R("gate", Gate)] = "up"
    [] p.check = "container-running" -> state[R("container", p.of)] = "up"
    [] OTHER -> \A e \in Containers \intersect Rootful :
                  state[R("container", U(e))] # "unhealthy"

NoAnswers == [n \in Endpoints |-> "down"]

Init ==
  /\ state \in {[r \in Resources |-> IF r = bad THEN s ELSE CHOOSE t \in Good(r) : TRUE]
                  : bad \in Resources, s \in {"down", "unhealthy", "failed", "completed"}}
  /\ \A r \in Resources : state[r] \in States(r)
  /\ profile = "none" /\ cluster = FALSE /\ todo = {} /\ showing = {}
  /\ answers = NoAnswers /\ failed = {} /\ verdict = "none"
  /\ seen = [r \in Resources |-> {}] /\ cutOff = FALSE
  /\ changes = 0 /\ timeouts = 0

-----------------------------------------------------------------------------

Begin ==
  /\ profile = "none" /\ verdict = "none"
  /\ \E prof \in {"default", "local-actionable"}, clust \in BOOLEAN :
       /\ profile' = prof /\ cluster' = clust
       /\ todo' = Probes(prof, clust)
  /\ seen' = [r \in Resources |-> {state[r]}]
  /\ UNCHANGED <<state, showing, answers, failed, verdict, cutOff, changes, timeouts>>

\* The outcome of one probe.
Conclude(p, success) ==
  /\ todo' = todo \ {p}
  /\ failed' = IF success THEN failed ELSE failed \union {p}

\* is-active of a service says no: what it is decides a second question.
Waits(p) ==
  /\ p.check = "unit-active" /\ state[R("unit", p.of)] # "up"
  /\ p.of[1] \in Services

Probe ==
  /\ showing = {}
  /\ \E p \in Due :
       /\ ~Waits(p) /\ p.check # "dns-compared"
       /\ Conclude(p, Succeeds(p))
  /\ UNCHANGED <<state, profile, cluster, showing, answers, verdict, history,
                 changes, timeouts>>

\* The comparison keeps what each server answers.
Compare ==
  /\ showing = {}
  /\ \E p \in Due :
       /\ p.check = "dns-compared"
       /\ Conclude(p, TRUE)
       /\ answers' = [answers EXCEPT ![p.of] = state[R("dns", p.of)]]
  /\ UNCHANGED <<state, profile, cluster, showing, verdict, history, changes, timeouts>>

Inactive ==
  /\ showing = {}
  /\ \E p \in Due : Waits(p) /\ showing' = {p}
  /\ UNCHANGED <<state, profile, cluster, todo, answers, failed, verdict, history,
                 changes, timeouts>>

\* Mutant of ShowUnit: whatever is not active has failed.
ShowUnitStrict ==
  /\ \E p \in showing : Conclude(p, FALSE)
  /\ showing' = {}
  /\ UNCHANGED <<state, profile, cluster, answers, verdict, history, changes, timeouts>>

\* _completed_oneshot
ShowUnit ==
  /\ \E p \in showing : Conclude(p, state[R("unit", p.of)] = "completed")
  /\ showing' = {}
  /\ UNCHANGED <<state, profile, cluster, answers, verdict, history, changes, timeouts>>

\* A command takes too long or cannot be run.
Timeout ==
  /\ timeouts < MaxTimeouts /\ timeouts' = timeouts + 1
  /\ \E p \in (IF showing = {} THEN Due ELSE showing) :
       p.check # "dns-soa-consistent" /\ Conclude(p, p.check = "dns-compared")
  /\ showing' = {} /\ cutOff' = TRUE
  /\ UNCHANGED <<state, profile, cluster, answers, verdict, seen, changes>>

Finish ==
  /\ profile # "none" /\ todo = {} /\ verdict = "none"
  /\ verdict' = IF failed = {} THEN "ok" ELSE "failed"
  /\ UNCHANGED <<state, profile, cluster, todo, showing, answers, failed, history,
                 changes, timeouts>>

\* Anything on the host or in the network changes.
Change ==
  /\ changes < MaxChanges /\ changes' = changes + 1
  /\ \E r \in Resources : \E s \in States(r) \ {state[r]} :
       /\ state' = [state EXCEPT ![r] = s]
       /\ seen' = [seen EXCEPT ![r] = @ \union {s}]
  /\ UNCHANGED <<profile, cluster, todo, showing, answers, failed, verdict, cutOff,
                 timeouts>>

Next == Begin \/ Probe \/ Compare \/ Inactive \/ ShowUnit \/ Timeout \/ Finish \/ Change

Spec == Init /\ [][Next]_vars

-----------------------------------------------------------------------------
(* Properties. *)

\* What must be up on this host for its desired state to be served.
Required ==
  {R("unit", U(e)) : e \in {e \in Entries : e.kind \in {"container", "pod"}}}
    \union {R("unit", U(e)) : e \in {e \in Rootful : /\ e.unit \in Core
                                                  /\ e.kind \in {"unit", "dropin"}}}
    \union {R("image", U(e)) : e \in {e \in Containers : e.image}}
    \union {R("address", a) : a \in Addresses}
    \union {R("dns", n) : n \in Local}
    \union {r \in {R("sentinel", Gate), R("gate", Gate)} : VaultAgent.mapped}

\* An audit that ends well has seen every required unit, image, address and local
\* server up, if not all at the same time (health.py:28); one that decides about a
\* repair also the declared containers themselves and the units that are to be
\* started (health.py:733).
OkMeansSeenUp ==
  verdict = "ok" =>
    /\ \A r \in Required : seen[r] \intersect Good(r) # {}
    /\ profile = "local-actionable" =>
         /\ \A e \in Containers : "up" \in seen[R("container", U(e))]
         /\ \A e \in {e \in Rootful : e.starts /\ e.kind \in {"unit", "dropin"}} :
              seen[R("unit", U(e))] \intersect Good(R("unit", U(e))) # {}

\* Only what this host declares makes the runner repair it: another host's DNS,
\* the world outside and units of no manifest never do (health.py:52). A oneshot
\* that starts again between the two questions about it counts as failed.
RepairsAreLocal ==
  verdict = "failed" /\ profile = "local-actionable" =>
    \/ cutOff
    \/ \E r \in Resources :
         /\ ~(seen[r] \subseteq Good(r))
         /\ r.kind \notin {"stranger", "world"}
         /\ r.kind = "dns" => r.of \in Local
    \/ \E e \in Rootful : seen[R("unit", U(e))] = {"up", "completed"}

\* No two servers answered differently, and none was silent, in a comparison that
\* succeeds: there is a serial that all of them served during the audit
\* (health.py:319).
ConsistentMeansShared ==
  verdict = "ok" /\ profile = "default" /\ cluster /\ Endpoints # {} =>
    \E s \in Serials : \A n \in Endpoints : s \in seen[R("dns", n)]
=============================================================================
