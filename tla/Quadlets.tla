------------------------------ MODULE Quadlets ------------------------------
(* The containers of a host (renderers/quadlets): for every service its pod,  *)
(* the volumes and the file of each of its containers, then the networks they *)
(* use.  Contents are abstracted to what one unit needs of another.           *)
EXTENDS QuadletHosts, Integers, FiniteSets

CONSTANT Absent  \* the value of a key that is left out

VARIABLES
  services,   \* the services of this host
  todo,       \* those that are still to render
  service,    \* the one that is being rendered,
  containers, \* its containers that are not rendered yet
  volumes,    \* and the volumes of the first of these that are not
  mounted,    \* host paths in use: [user, path, file, shared]
  files,      \* the rendered tree with its registrations
  requires,   \* units known to the collector, and what each requires
  phase

loops == <<service, containers, volumes>>
quadletsVars == <<services, todo, loops, mounted, files, requires, phase>>

-----------------------------------------------------------------------------
(* Names: words that are joined by dashes. *)

\* _quadlet_unit_name
Unit(file) == IF file.suffix = "container" THEN file.words ELSE Append(file.words, file.suffix)

Prefix(s, c) == s.name \o (IF s.pod THEN <<"app", c.name>> ELSE <<>>)

VolumeFile(s, c, v) ==
  [words |-> IF v.shared THEN <<v.name>> ELSE Append(Prefix(s, c), v.name),
   suffix |-> "volume"]

PodFile(s) == [words |-> Append(s.name, "app"), suffix |-> "pod"]
ContainerFile(s, c) == [words |-> Prefix(s, c), suffix |-> "container"]
BuildFile(s, c) == [words |-> Prefix(s, c), suffix |-> "build"]
NetworkFile(vlan) == [words |-> <<vlan>>, suffix |-> "network"]

\* _quadlet_output_root; a path is where it is rendered and where it goes.
Place(base, user, file) == [base |-> base, target |-> <<user, file>>]

VolumePlace(s, c, v) ==
  Place(IF v.shared THEN <<"_shared">> ELSE s.name, s.user, VolumeFile(s, c, v))
DirectoryPlace(s, path) == [base |-> s.name, target |-> <<"host", path>>]

Volume(path) == [is |-> "volume", path |-> path]
Directory(owner) == [is |-> "directory", owner |-> owner]
Quadlet == [is |-> "quadlet"]

With(f, x, y) == [z \in DOMAIN f \union {x} |-> IF z = x THEN y ELSE f[z]]

\* register_owner, which the first registration of a unit decides.
Owned(owners, file, needs) ==
  IF Unit(file) \in DOMAIN owners THEN owners ELSE With(owners, Unit(file), needs)

-----------------------------------------------------------------------------
(* Rendering, in the order of the code. *)

\* What render_service_configs registered of the services before.
ConfigFiles(ss) ==
  LET entries == UNION {{<<DirectoryPlace(s, e.path), e.is>> : e \in s.entries} : s \in ToSet(ss)}
  IN [p \in {e[1] : e \in entries} |-> (CHOOSE e \in entries : e[1] = p)[2]]

Rendering == phase = "quadlets" /\ containers # <<>>
Fail ==
  phase' = "failed" /\ UNCHANGED <<services, todo, loops, mounted, files, requires>>

NetworkUnits(s) == IF s.vlan = Absent THEN {} ELSE {Unit(NetworkFile(s.vlan))}

FirstVolumes(cs) == IF cs = <<>> THEN <<>> ELSE Head(cs).volumes

\* A service needs a user and something to run; a pod comes before its containers.
RenderService ==
  /\ phase = "quadlets" /\ containers = <<>> /\ todo # <<>>
  /\ LET s == Head(todo)
         place == Place(s.name, s.user, PodFile(s))
     IN IF \/ s.user = Absent \/ s.containers = <<>>
           \/ s.pod /\ place \in DOMAIN files THEN Fail
        ELSE /\ IF s.pod
                  THEN /\ files' = With(files, place, Quadlet)
                       /\ requires' = Owned(requires, PodFile(s), NetworkUnits(s))
                  ELSE UNCHANGED <<files, requires>>
             /\ todo' = Tail(todo) /\ service' = s
             /\ containers' = s.containers /\ volumes' = FirstVolumes(s.containers)
             /\ UNCHANGED <<services, mounted, phase>>

\* _register_host_path_usage: a second mount of a path.
Clash(s, c, v) ==
  \E m \in mounted :
    /\ m.user = s.user /\ m.path = v.path
    /\ ~v.shared \/ ~m.shared \/ m.file # VolumeFile(s, c, v)

OwnerOf(s, v) == IF v.owner # Absent THEN v.owner ELSE s.user

\* The directory is there already and is not what the volume needs.
DirectoryClash(s, v) ==
  LET d == DirectoryPlace(s, v.path)
  IN d \in DOMAIN files /\ files[d] # Directory(OwnerOf(s, v))

\* Private volumes have a managed directory, which root must give to somebody.
DirectoryFails(s, v) == ~v.shared /\ ((s.user = "root" /\ v.owner = Absent) \/ DirectoryClash(s, v))

\* Mutant of IsThere: a file that is there need not be written.
IsThereAny(s, c, v) == VolumePlace(s, c, v) \in DOMAIN files

\* The containers of a pod take a shared volume that is there as it is.
IsThere(s, c, v) == v.shared /\ s.pod /\ VolumePlace(s, c, v) \in DOMAIN files

Usage(s, c, v) ==
  [user |-> s.user, path |-> v.path, file |-> VolumeFile(s, c, v), shared |-> v.shared]

\* Mutant of WithDirectory: the directory is made and not registered.
WithDirectoryUnlisted(s, v) == files

\* _render_named_volume_host_directory
WithDirectory(s, v) ==
  IF v.shared THEN files
  ELSE With(files, DirectoryPlace(s, v.path), Directory(OwnerOf(s, v)))

\* _render_named_volumes, of one volume.
RenderVolume ==
  /\ Rendering /\ volumes # <<>>
  /\ LET s == service  c == Head(containers)  v == Head(volumes)
         place == VolumePlace(s, c, v)
         there == IsThere(s, c, v)
     IN IF \/ Clash(s, c, v)
           \/ ~there /\ (DirectoryFails(s, v) \/ (~v.shared /\ place \in DOMAIN files))
        THEN Fail
        ELSE /\ mounted' = mounted \union {Usage(s, c, v)}
             /\ IF there THEN UNCHANGED <<files, requires>>
                ELSE /\ files' = With(WithDirectory(s, v), place, Volume(v.path))
                     /\ requires' = Owned(requires, VolumeFile(s, c, v), {})
             /\ volumes' = Tail(volumes)
             /\ UNCHANGED <<services, todo, service, containers, phase>>

\* Mutant of VolumeUnits: those whose file this container had to write.
VolumeUnitsWritten(s, c) ==
  {Unit(VolumeFile(s, c, v)) : v \in {w \in ToSet(c.volumes) : ~(w.shared /\ s.pod)}}

VolumeUnits(s, c) == {Unit(VolumeFile(s, c, v)) : v \in ToSet(c.volumes)}

Needs(s, c) ==
  VolumeUnits(s, c)
  \union (IF s.pod THEN {Unit(PodFile(s))} ELSE NetworkUnits(s))
  \union (IF "build" \in c.from THEN {Unit(BuildFile(s, c))} ELSE {})

\* The templates name the image or the build: there must be one, and not both.
OneSource(c) == Cardinality(c.from) = 1

\* The container file and the build it may need.
RenderContainer ==
  /\ Rendering /\ volumes = <<>>
  /\ LET s == service  c == Head(containers)
         builds == "build" \in c.from
         place == Place(s.name, s.user, ContainerFile(s, c))
         build == Place(s.name, s.user, BuildFile(s, c))
         owned == Owned(requires, ContainerFile(s, c), Needs(s, c))
     IN IF \/ ~OneSource(c) \/ place \in DOMAIN files
           \/ builds /\ build \in DOMAIN files THEN Fail
        ELSE /\ IF builds
                  THEN /\ files' = With(With(files, place, Quadlet), build, Quadlet)
                       /\ requires' = Owned(owned, BuildFile(s, c), {})
                  ELSE /\ files' = With(files, place, Quadlet)
                       /\ requires' = owned
             /\ containers' = Tail(containers) /\ volumes' = FirstVolumes(Tail(containers))
             /\ UNCHANGED <<services, todo, service, mounted, phase>>

UsedVlans == {s.vlan : s \in ToSet(services)} \ {Absent}

\* Once per network, after all services.
RenderNetworks ==
  /\ phase = "quadlets" /\ containers = <<>> /\ todo = <<>>
  /\ LET places == [n \in UsedVlans |-> Place(<<"podman-networks">>, "root", NetworkFile(n))]
     IN files' = [p \in DOMAIN files \union {places[n] : n \in UsedVlans} |->
                   IF p \in DOMAIN files THEN files[p] ELSE Quadlet]
  /\ requires' = [u \in DOMAIN requires \union {Unit(NetworkFile(n)) : n \in UsedVlans} |->
                   IF u \in DOMAIN requires THEN requires[u] ELSE {}]
  /\ phase' = "manifest"
  /\ UNCHANGED <<services, todo, loops, mounted>>

\* compute_hashes_and_sizes: two files for one place on the host.
TargetsMeet ==
  \E p, q \in DOMAIN files : p # q /\ p.target = q.target

Manifest ==
  /\ phase = "manifest"
  /\ phase' = IF TargetsMeet THEN "failed" ELSE "done"
  /\ UNCHANGED <<services, todo, loops, mounted, files, requires>>

QuadletsInit ==
  /\ services \in Hosts
  /\ todo = services
  /\ service = Absent /\ containers = <<>> /\ volumes = <<>>
  /\ mounted = {} /\ requires = <<>>
  /\ files = ConfigFiles(services)
  /\ phase = "quadlets"

QuadletsNext == RenderService \/ RenderVolume \/ RenderContainer \/ RenderNetworks \/ Manifest

QuadletsSpec == QuadletsInit /\ [][QuadletsNext]_quadletsVars

-----------------------------------------------------------------------------
(* Properties. *)

\* Every mount of every container of the host.
Mounts ==
  UNION {UNION {{[s |-> s, c |-> c, v |-> v] : v \in ToSet(c.volumes)}
                : c \in ToSet(s.containers)} : s \in ToSet(services)}

\* One name for two places of the host, which nothing checks: the containers of a
\* pod get the first, and a container service replaces the file for all.
Ambiguous(m) ==
  \E n \in Mounts :
    /\ m.v.shared /\ n.v.shared /\ m.s.user = n.s.user
    /\ m.v.name = n.v.name /\ m.v.path # n.v.path

\* The volume file that a container's mount names, on the host, is there and leads
\* to the path that was declared for this mount, whatever other services,
\* containers and users call their volumes (volumes.py:140).
MountsReachTheirPath ==
  phase = "done" => \A m \in Mounts :
    LET place == VolumePlace(m.s, m.c, m.v)
    IN /\ place \in DOMAIN files
       /\ Ambiguous(m) \/ files[place] = Volume(m.v.path)
       /\ \A p \in DOMAIN files : p.target = place.target => p = place

\* One user mounts a path in two places only by one volume, which both call shared.
\* For each path that is private there is a directory of the manifest, of the one
\* service it belongs to and with the owner that this service gives it, whichever
\* entries, pods and containers came before, and nothing else has its place
\* (volumes.py:21, volumes.py:213).
PrivatePathsAreManaged ==
  phase = "done" =>
    /\ \A m, n \in Mounts :
         m # n /\ m.s.user = n.s.user /\ m.v.path = n.v.path =>
           /\ m.v.shared /\ n.v.shared
           /\ VolumePlace(m.s, m.c, m.v) = VolumePlace(n.s, n.c, n.v)
    /\ \A m \in Mounts : ~m.v.shared =>
         LET home == DirectoryPlace(m.s, m.v.path)
         IN /\ home \in DOMAIN files /\ files[home] = Directory(OwnerOf(m.s, m.v))
            /\ \A p \in DOMAIN files : p.target = home.target => p = home

UnitPlaces == {p \in DOMAIN files : p.target[1] # "host"}

\* Units of one name, of two users or of two kinds, share one owner in the manifest,
\* which requires what the first of them needs.
Alone(unit) ==
  \A p, q \in UnitPlaces : Unit(p.target[2]) = unit /\ Unit(q.target[2]) = unit => p = q

\* The order in which units are applied is complete: a container requires its own
\* pod and no other, each of its volumes, the network that it or its pod is
\* attached to, and every unit that somebody requires is in the manifest, unless
\* it shares its name with another unit (helpers.py:64; the roles count on the pod).
UnitsRequireWhatTheyUse ==
  phase = "done" =>
    LET pods == {Unit(PodFile(s)) : s \in {t \in ToSet(services) : t.pod}}
    IN /\ \A u \in DOMAIN requires :
            requires[u] \subseteq {Unit(p.target[2]) : p \in UnitPlaces}
       /\ \A s \in ToSet(services) : \A c \in ToSet(s.containers) :
            LET unit == Unit(ContainerFile(s, c))
                attached == IF s.pod THEN Unit(PodFile(s)) ELSE unit
            IN /\ Alone(unit) =>
                    /\ requires[unit] \intersect pods = IF s.pod THEN {Unit(PodFile(s))} ELSE {}
                    /\ \A v \in ToSet(c.volumes) : Unit(VolumeFile(s, c, v)) \in requires[unit]
               /\ Alone(attached) => NetworkUnits(s) \subseteq requires[attached]
=============================================================================
