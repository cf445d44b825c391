-------------------------------- MODULE Dns --------------------------------
(***************************************************************************)
(* DNS zones from network.yaml and mapping.yaml: which records a zone has  *)
(* (dns/records.py), which services of a host serve it and in which files   *)
(* (dns/renderer.py), and the declared hash that lets a render pass         *)
(* (dns/serial_validator.py), over edits of the operator and renders on     *)
(* several hosts, each at a revision of its own.                            *)
(*                                                                          *)
(* Names and addresses are sequences of labels and octets; a placeholder is *)
(* the site whose address it stands for; the hash of a content is the       *)
(* content.  The template's layout and the ttl are left out.                *)
(***************************************************************************)
EXTENDS Integers, FiniteSets, TLC, Composition

CONSTANTS
  HostOrder,   \* the hosts, in the order of network.yaml and mapping.yaml
  Networks,    \* addresses and DNS entries: [address, entries], by site
  Mappings,    \* functions from hosts to the services they run
  Catalogues,  \* [zones, includes, files]: zones and service definitions
  Serials,     \* pairs of date and counter that the operator declares
  MaxEdits     \* bound: edits of the operator

Hosts == ToSet(HostOrder)
NoProvider == "none"

\* A list, of no matter what.
IsList(s) == s \in Seq(ToSet(s))

\* Hosts are the keys of a dictionary, and the names of services are other keys.
ASSUME HostsAssumption ==
  /\ IsList(HostOrder) /\ IsInjective(HostOrder)
  /\ Hosts \intersect Services = {}

\* An address is an IPv4 address (schemas/network.schema.json:144 and 253).
ASSUME NetworksAssumption ==
  \A n \in Networks :
    /\ Hosts \subseteq DOMAIN n.entries
    /\ \A s \in DOMAIN n.entries : IsList(n.entries[s])
    /\ \A s \in DOMAIN n.address : n.address[s] \in [1..4 -> STRING]

\* The labels of a zone are read off its name; nothing keeps an operator from listing
\* a zone twice.  Whose definition there is has a place in "includes" and in "files",
\* where <<>> stands for a field that is not set.
ASSUME CataloguesAssumption ==
  \A c \in Catalogues :
    /\ IsList(c.zones)
    /\ \A y, z \in ToSet(c.zones) : y.name = z.name => y.labels = z.labels
    /\ \A z \in ToSet(c.zones) :
         /\ z.labels \in Seq(STRING)
         /\ z.internal => z.provider \in Services \union {NoProvider}
    /\ IsFiniteSet(DOMAIN c.includes) /\ DOMAIN c.includes \subseteq Services
    /\ c.includes \in [DOMAIN c.includes -> Seq(Services)]
    /\ DOMAIN c.files = DOMAIN c.includes
    /\ \A s \in DOMAIN c.files : \/ c.files[s] = <<>>
                                 \/ IsList(c.files[s]) /\ Len(c.files[s]) = 1
                                      /\ IsList(c.files[s][1])

ASSUME EditsAssumption ==
  /\ \A m \in Mappings : m \in [Hosts -> Seq(Services)]
  /\ \A s \in Serials : s.date \in Nat \ {0} /\ s.counter \in Nat
  /\ MaxEdits \in Nat

VARIABLES
  network, mapping, catalogue,   \* the configuration as it is
  serial,   \* by name of a zone: the declared date and counter; some have none
  hash,     \* by name of a zone: serial.content_hash
  served,   \* by host: the zone files of its last accepted render
  edits     \* how many edits there were

vars == <<network, mapping, catalogue, serial, hash, served, edits>>

-----------------------------------------------------------------------------
(* Records. *)

\* What of s is in S, in its order.
Kept(s, S) ==
  FlattenSeq([i \in DOMAIN s |-> IF s[i] \in S THEN <<s[i]>> ELSE <<>>])

Zones == ToSet(catalogue.zones)
Internal(z) == z.internal
Reverses(z) == z.labels # <<>>

Mapped == FlattenSeq([i \in DOMAIN HostOrder |-> mapping[HostOrder[i]]])

\* Mutant of AllServices: a service of two hosts is listed twice.
AllServicesTwice == Mapped

\* get_all_services_in_order: each where it is met first.
AllServices ==
  FlattenSeq([i \in DOMAIN Mapped |->
                IF \E j \in 1..(i - 1) : Mapped[j] = Mapped[i] THEN <<>> ELSE <<Mapped[i]>>])

\* The hosts, then the given services as far as network.yaml has them.
Sites(services) ==
  HostOrder \o Kept(services, DOMAIN network.entries)

Entries(sites) ==
  FlattenSeq([i \in DOMAIN sites |-> network.entries[sites[i]]])

\* The address entries that ask for a pointer.
Asking(entries) == Kept(entries, {e \in ToSet(entries) : e.ptr /\ e.type = "A"})

\* Mutant of Pointers: the services that no host runs are not left out.
PointersOfAll(services) ==
  Asking(Entries(HostOrder \o SetToSeq(DOMAIN network.entries \ Hosts)))

Pointers(services) == Asking(Entries(Sites(services)))

\* _lookup_network_value finds the address of the placeholder.
Resolvable(e) == e.at \in DOMAIN network.address
Data(e) == IF e.type = "A" THEN network.address[e.at] ELSE <<e.at>>

\* _ip_belongs_to_reverse_zone: labels are octets from the last one on.
Belongs(ip, z) ==
  Len(z.labels) \in 1..3 /\ SubSeq(ip, 1, Len(z.labels)) = Reverse(z.labels)

\* _get_reverse_dns_name: the octets after those of the zone, in their order.
PointerName(ip, z) == SubSeq(ip, Len(z.labels) + 1, 4)

Record(e) == [name |-> <<e.name>>, type |-> e.type, data |-> Data(e)]
PointerTo(e, z) ==
  [name |-> PointerName(Data(e), z), type |-> "PTR", data |-> <<e.name, e.zone>>]

\* collect_zone_records.
ZoneRecords(services, z) ==
  LET entries == Entries(Sites(services))
      own == Kept(entries, {e \in ToSet(entries) : e.zone = z.name})
      pointers == Kept(Pointers(services),
                       {e \in ToSet(Pointers(services)) : Belongs(Data(e), z)})
  IN [i \in DOMAIN own |-> Record(own[i])]
       \o (IF Reverses(z) THEN [i \in DOMAIN pointers |-> PointerTo(pointers[i], z)]
           ELSE <<>>)

\* A placeholder that leads nowhere, or a reverse zone of IPv6.
Uncollectable(z) ==
  \/ \E e \in ToSet(Entries(Sites(AllServices))) :
       /\ e.type = "A" /\ ~Resolvable(e)
       /\ (e.zone = z.name \/ (e.ptr /\ Reverses(z)))
  \/ z.ip6

-----------------------------------------------------------------------------
(* Zone files. *)

\* The serial as a number: the counter is padded to two digits and may have more.
Number(s) == s.date * (IF s.counter < 100 THEN 100 ELSE 1000) + s.counter

\* render_zone_template.
Content(services, z, template) ==
  [zone |-> z.name, template |-> template, serial |-> Number(serial[z.name]),
   records |-> ZoneRecords(services, z)]

ChainOf(s) == Chain(catalogue.includes, s)

\* get_zone_files_config, of a service whose chain can be walked.
ZoneFiles(s) == Resolved(catalogue.files, ChainOf(s).order, <<>>)
Matching(z) ==
  LET files == ZoneFiles(z.provider)
  IN Kept(files, {f \in ToSet(files) : f.zone \in {"*", z.name}})

\* build_provider_mapping: the services of the host with zone files that are or
\* include the provider.
Providing(h, provider) ==
  Kept(mapping[h], {s \in DOMAIN catalogue.includes :
                      ZoneFiles(s) # <<>> /\ provider \in ToSet(ChainOf(s).order)})

\* "zone.zone" in a destination stands for the name of the zone.
Path(f, z) == IF f.perZone THEN <<f.path, z.name>> ELSE <<f.path>>

\* Mutant of Writes: records of the services of this host only.
WritesOfHost(h, z) ==
  LET files == Matching(z)
      by == Providing(h, z.provider)
  IN FlattenSeq([i \in DOMAIN files |->
       [j \in DOMAIN by |-> [at |-> [service |-> by[j], path |-> Path(files[i], z)],
                             is |-> Content(mapping[h], z, files[i].template)]]])

\* What render_dns writes for one zone, in its order.
Writes(h, z) ==
  LET files == Matching(z)
      by == Providing(h, z.provider)
  IN FlattenSeq([i \in DOMAIN files |->
       [j \in DOMAIN by |-> [at |-> [service |-> by[j], path |-> Path(files[i], z)],
                             is |-> Content(AllServices, z, files[i].template)]]])

\* Zone after zone, of the internal ones.
AllWrites(h) ==
  FlattenSeq([i \in DOMAIN catalogue.zones |->
                IF Internal(catalogue.zones[i]) THEN Writes(h, catalogue.zones[i]) ELSE <<>>])

\* render_dns: a later write to a file replaces the earlier one.
Tree(h) ==
  LET writes == AllWrites(h)
  IN [k \in {w.at : w \in ToSet(writes)} |->
        writes[Max({i \in DOMAIN writes : writes[i].at = k})].is]

\* load_and_validate, before any host is rendered: every mapped service of whichever
\* host has a definition, and so has all it includes, without a cycle.  The code walks
\* them by name; whether the walk succeeds does not hang on the order.
DefinitionsValid == ChainOfAll(catalogue.includes, AllServices).ok

\* render_dns raises: no provider, not even of an external zone; no records; a
\* provider without definition, chain or zone files; or, once a file matches, no
\* template, no serial or no service of the host that provides the zone.
Refused(h, z) ==
  \/ z.provider = NoProvider
  \/ /\ Internal(z)
     /\ \/ Uncollectable(z)
        \/ ~ChainOf(z.provider).ok
        \/ ZoneFiles(z.provider) = <<>>
        \/ /\ Matching(z) # <<>>
           /\ \/ \E f \in ToSet(Matching(z)) : f.template = ""
              \/ z.name \notin DOMAIN serial
              \/ Providing(h, z.provider) = <<>>

\* The collector refuses two files of a host with one target.
Clashes(tree) == \E k, l \in DOMAIN tree : k # l /\ k.path = l.path

\* A render of h comes to the validation of the serials.
Rendered(h) ==
  DefinitionsValid /\ (\A z \in Zones : ~Refused(h, z)) /\ ~Clashes(Tree(h))

\* validate_zone_serial: what is hashed is rendered from the first matching entry that
\* has a template.
Templated(z) == Kept(Matching(z), {f \in ToSet(Matching(z)) : f.template # ""})
Expected(z) == Content(AllServices, z, Templated(z)[1].template)
Stamped(z) == /\ z.name \in DOMAIN serial /\ z.name \in DOMAIN hash
              /\ Templated(z) # <<>> /\ hash[z.name] = Expected(z)

\* validate_dns_serials: of every internal zone, whoever serves it.
AllStamped == \A z \in Zones : Internal(z) => Stamped(z)

-----------------------------------------------------------------------------
(* The operator and the hosts. *)

Init ==
  /\ network \in Networks /\ mapping \in Mappings /\ catalogue \in Catalogues
  /\ \E s \in Serials : serial = [n \in {z.name : z \in {y \in Zones : y.serial}} |-> s]
  /\ hash = <<>>
  /\ served = [h \in Hosts |-> <<>>] /\ edits = 0

Rewrite ==
  /\ edits < MaxEdits /\ edits' = edits + 1
  /\ \/ network' \in Networks \ {network} /\ mapping' = mapping
     \/ mapping' \in Mappings \ {mapping} /\ network' = network
  /\ UNCHANGED <<catalogue, serial, hash, served>>

Bump ==
  /\ edits < MaxEdits /\ edits' = edits + 1
  /\ \E n \in DOMAIN serial, s \in Serials : serial' = [serial EXCEPT ![n] = s]
  /\ UNCHANGED <<network, mapping, catalogue, hash, served>>

\* The operator declares the hash that a render reports, of a zone it can be made of.
Reported(z) ==
  Internal(z) /\ z.name \in DOMAIN serial /\ Templated(z) # <<>>

Stamp ==
  /\ \E h \in Hosts : Rendered(h)
  /\ \E z \in Zones : Reported(z) /\ hash' = (z.name :> Expected(z)) @@ hash
  /\ UNCHANGED <<network, mapping, catalogue, serial, served, edits>>

\* A host renders the configuration as it is; its output is kept if it passes.
Render ==
  /\ \E h \in Hosts :
       IF Rendered(h) /\ AllStamped
       THEN served' = [served EXCEPT ![h] = Tree(h)]
       ELSE served' = served
  /\ UNCHANGED <<network, mapping, catalogue, serial, hash, edits>>

Next == Rewrite \/ Bump \/ Stamp \/ Render

Spec == Init /\ [][Next]_vars

-----------------------------------------------------------------------------
(* Properties. *)

\* The chains of the catalogue are walked exactly (composition.py:10).
ChainsAreExact == \A h \in Hosts : WalkIsExact(catalogue.includes, mapping[h])

\* The labels that n, the name of a zone, is made of.
LabelsOf(n) == (CHOOSE z \in Zones : z.name = n).labels
Renders(h) == served'[h] # served[h]

\* A host serves a zone with the content whose hash the configuration declares, so
\* hosts that rendered the same revision agree, whatever else each of them runs.
\* Excepted is a zone that several entries match: only the first is validated
\* (serial_validator.py:161).  And every internal zone is in each of its files at
\* each of its providers; one without the name of the zone in it may have been
\* written again for a later zone, which nothing reports (renderer.py:108).
StampedIsServed ==
  [][\A h \in Hosts : Renders(h) =>
       /\ \A k \in DOMAIN served'[h] :
            LET c == served'[h][k]
            IN (\A z \in Zones : Internal(z) /\ z.name = c.zone => Len(Matching(z)) = 1)
                 => c = hash[c.zone]
       /\ \A z \in {y \in Zones : Internal(y)} :
            \A f \in ToSet(Matching(z)), s \in ToSet(Providing(h, z.provider)) :
              LET k == [service |-> s, path |-> Path(f, z)]
              IN /\ k \in DOMAIN served'[h]
                 /\ f.perZone => served'[h][k].zone = z.name]_vars

\* The places of the entries of every host and of every service that runs
\* somewhere, each service once however many hosts run it.
Running ==
  Hosts \union ((UNION {ToSet(mapping[h]) : h \in Hosts}) \intersect DOMAIN network.entries)
Deployed == UNION {{<<s, j>> : j \in DOMAIN network.entries[s]} : s \in Running}

\* A served zone has every record exactly as often as what is deployed has an entry
\* for it: nothing is lost, doubled or of a service that nobody runs (records.py:49).
\* Pointers, made or declared, are left aside.
AnswersAreDeployed ==
  [][\A h \in Hosts : Renders(h) =>
       \A k \in DOMAIN served'[h] :
         LET c == served'[h][k]
             entry(p) == network.entries[p[1]][p[2]]
             due == {p \in Deployed : entry(p).zone = c.zone}
             answers == {r \in ToSet(c.records) \union {Record(entry(p)) : p \in due} :
                           r.type # "PTR"}
         IN \A r \in answers :
              Cardinality({i \in DOMAIN c.records : c.records[i] = r})
                = Cardinality({p \in due : Record(entry(p)) = r})]_vars

\* The reverse zone of a /24 network and the forward zones that a host serves say
\* the same: a pointer made for one of them leads to a name with that address, and
\* every address of the network that asks for a pointer has one (records.py:95).  A
\* pointer that an entry declares says what it says: it has a target, not a name.
PtrsMirrorForward ==
  [][\A h \in Hosts : Renders(h) =>
       \A k, l \in DOMAIN served'[h] :
         LET labels == LabelsOf(served'[h][k].zone)
             forward == served'[h][l]
             ptrs == {r \in ToSet(served'[h][k].records) :
                        r.type = "PTR" /\ Len(r.data) = 2}
         IN Len(labels) = 3 =>
              /\ \A r \in ptrs :
                   r.data[2] = forward.zone =>
                     [name |-> <<r.data[1]>>, type |-> "A",
                      data |-> Reverse(r.name \o labels)] \in ToSet(forward.records)
              /\ \A e \in ToSet(Entries(Sites(AllServices))) :
                   /\ e.zone = forward.zone /\ e.ptr /\ e.type = "A"
                   /\ SubSeq(Data(e), 1, 3) = Reverse(labels)
                   => \E r \in ptrs : /\ r.data = <<e.name, e.zone>>
                                      /\ Reverse(r.name \o labels) = Data(e)]_vars

\* validation/dns.py:27: "RenderError: If any zones have content changed but
\* serial not updated": a zone that is served anew under a serial that was served
\* before has not changed.
SerialNamesContent ==
  [][\A h, g \in Hosts : Renders(h) =>
       \A k \in DOMAIN served'[h], l \in DOMAIN served[g] :
         LET new == served'[h][k]
             old == served[g][l]
         IN new.zone = old.zone /\ new.template = old.template /\ new.serial = old.serial
              => new.records = old.records]_vars
=============================================================================
