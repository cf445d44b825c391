------------------------------- MODULE Render -------------------------------
(***************************************************************************)
(* A render run (cli/render.py): it validates the configuration, empties   *)
(* the output of each host it renders, lets every renderer write its files *)
(* and register them with the collector, adds the parent directories of    *)
(* the files, writes the manifest and checks the DNS serials.  The run may *)
(* be killed at any step (the runner's deadline, a reboot); the next run   *)
(* finds what is left, and may render another revision or another host.    *)
(*                                                                         *)
(* A path is a sequence of names.  What a configuration holds is reduced   *)
(* to the entries it makes each renderer write.                            *)
(***************************************************************************)
EXTENDS Naturals, Sequences, SequencesExt, Functions, FiniteSets, TLC

CONSTANTS
  HostOrder,   \* the hosts of mapping.yaml, sorted
  Configs,     \* configurations (revisions) that may be rendered
  MaxRuns      \* bound: runs

Hosts == ToSet(HostOrder)

\* With --all each host has a root of its own; --host renders below --output.
Roots == Hosts \union {"output"}

VARIABLES
  config,     \* the configuration of the current run
  all,        \* --all
  status,     \* "none", "running", "ok", "failed" or "killed"
  pc,         \* phase of the current host
  hosts,      \* hosts still to render, the current one first
  disk,       \* root -> path below rendered/ -> content or "dir"
  manifest,   \* root -> what manifest.json is and lists
  plan,       \* what the renderers have still to write
  collector,  \* render path -> artifact
  orphans,    \* files whose parents have still to be registered
  wiping,     \* history: roots with a wipe that was begun and not finished
  done,       \* history: hosts the current run has finished
  runs        \* bounded counter

vars == <<config, all, status, pc, hosts, disk, manifest, plan, collector,
          orphans, wiping, done, runs>>

run == <<config, all, runs>>

Root(h) == IF all THEN h ELSE "output"
Here == Root(Head(hosts))

Absent == [state |-> "absent", entries |-> {}]
Partial == [state |-> "partial", entries |-> {}]

-----------------------------------------------------------------------------
(* Paths and trees. *)

Chain(p) == {SubSeq(p, 1, i) : i \in 1..Len(p)}
Above(p) == Chain(Front(p))

\* mkdir(parents=True, exist_ok=True)
Blocked(tree, p) == \E q \in Chain(p) : q \in DOMAIN tree /\ tree[q] # "dir"
WithDirs(tree, p) ==
  [q \in DOMAIN tree \union Chain(p) |->
    IF q \in DOMAIN tree THEN tree[q] ELSE "dir"]

WithFile(tree, p, content) ==
  [q \in DOMAIN WithDirs(tree, Front(p)) \union {p} |->
    IF q = p THEN content ELSE WithDirs(tree, Front(p))[q]]

Files(tree) == {p \in DOMAIN tree : tree[p] # "dir"}

-----------------------------------------------------------------------------
(* What a configuration makes the renderers write, in their order. *)

NetworkdDir == <<"etc", "systemd", "network">>
UnitDir == <<"etc", "systemd", "system">>

\* Metadata of a directory of root; that of a user's is named by the user.
RootOwned == "root 0755"

\* An entry that makes a file or a directory.
EntrySpec == [dest : Seq(STRING), is : STRING, hints : STRING]
ServiceEntrySpec ==
  [service : STRING, user : STRING, dest : Seq(STRING), is : STRING, hints : STRING]

ASSUME HostsAssumption ==
  HostOrder \in Seq(STRING) /\ HostOrder # <<>> /\ IsInjective(HostOrder)

ASSUME ConfigsAssumption ==
  \A c \in Configs :
    /\ c.common \in Seq(EntrySpec) /\ c.commonUnits \in Seq(EntrySpec)
    /\ \A h \in Hosts :
         /\ c.host[h] \in Seq(EntrySpec) /\ c.hostUnits[h] \in Seq(EntrySpec)
         /\ c.specs[h] \in Seq([id : STRING, is : STRING])
         /\ c.keys[h] \in Seq([user : STRING, home : Seq(STRING)])
         /\ c.services[h] \in Seq(ServiceEntrySpec)
         /\ \A i \in DOMAIN c.commonUnits : IsPrefix(UnitDir, c.commonUnits[i].dest)
         /\ \A i \in DOMAIN c.hostUnits[h] : IsPrefix(UnitDir, c.hostUnits[h][i].dest)

\* An account has one home; that of a user whose containers read files is
\* /home/<user>, where the parents of those files are looked for.
ASSUME HomesAssumption ==
  \A c \in Configs : \A h \in Hosts :
    /\ \A i, j \in DOMAIN c.keys[h] :
         c.keys[h][i].user = c.keys[h][j].user => c.keys[h][i].home = c.keys[h][j].home
    /\ \A i \in DOMAIN c.keys[h] : \A j \in DOMAIN c.services[h] :
         c.services[h][j].user = c.keys[h][i].user /\ c.keys[h][i].user # "root"
           => c.keys[h][i].home = <<"home", c.keys[h][i].user>>
    /\ \A i \in DOMAIN c.keys[h] : c.keys[h][i].user # RootOwned
    /\ \A j \in DOMAIN c.services[h] : c.services[h][j].user # RootOwned

\* A composition entry, below the tree of its host or service; user is the
\* account whose containers read it.
Entry(below, user, e) ==
  [to |-> below \o e.dest, target |-> e.dest, is |-> e.is, hints |-> e.hints,
   kind |-> "entry", user |-> user, register |-> "replace"]

Entries(below, user, es) ==
  [i \in DOMAIN es |-> Entry(below, user, es[i])]

\* Two renderers share a list: each leaves out the entries of the other.
LeftOut == [register |-> "left out"]

\* Mutant of Filtered: one renderer leaves out more than the other takes.
FilteredLoose(es, networkd) ==
  [i \in DOMAIN es |->
    IF IsStrictPrefix(IF networkd THEN NetworkdDir ELSE Front(NetworkdDir), es[i].dest)
         = networkd
    THEN Entry(<<"system">>, "root", es[i]) ELSE LeftOut]

Filtered(es, networkd) ==
  [i \in DOMAIN es |->
    IF IsStrictPrefix(NetworkdDir, es[i].dest) = networkd
    THEN Entry(<<"system">>, "root", es[i]) ELSE LeftOut]

\* render_host_config
HostConfigPlan(h, c) ==
  Filtered(c.common, FALSE) \o Filtered(c.host[h], FALSE)
    \o Entries(<<"system">>, "root", c.commonUnits \o c.hostUnits[h])

\* render_networkd_config
NetworkdPlan(h, c) ==
  Filtered(c.common, TRUE) \o Filtered(c.host[h], TRUE)

SystemPlan(h, c) == HostConfigPlan(h, c) \o NetworkdPlan(h, c)

\* render_software_artifacts: the package list, and specifications of further
\* software that no manifest lists.
SoftwarePlan(h, c) ==
  <<[to |-> <<"software", "packages.txt">>, is |-> c.packages,
     target |-> <<"etc", "abhaile", "packages.txt">>, hints |-> "root 0644",
     kind |-> "host.packages", user |-> "root", register |-> "once"]>>
  \o [i \in DOMAIN c.specs[h] |->
       [to |-> <<"software", "downloads", c.specs[h][i].id>>,
        is |-> c.specs[h][i].is, target |-> <<>>, hints |-> "none",
        kind |-> "none", user |-> "root", register |-> "never"]]

\* render_users_artifacts, of which the keys need a directory of their owner.
UsersPlan(h, c) ==
  [i \in DOMAIN c.keys[h] |->
    LET target == c.keys[h][i].home \o <<".ssh", "authorized_keys">>
    IN [to |-> <<"system">> \o target, target |-> target, is |-> "keys",
        hints |-> "own 0600", kind |-> "host.authorized_keys",
        user |-> c.keys[h][i].user, register |-> "replace"]]

\* The entries of all services, one service after the other.
ServicesPlan(h, c) ==
  [i \in DOMAIN c.services[h] |->
    LET e == c.services[h][i] IN Entry(<<"services", e.service>>, e.user, e)]

HostPlan(h, c) ==
  SystemPlan(h, c) \o SoftwarePlan(h, c) \o UsersPlan(h, c) \o ServicesPlan(h, c)

-----------------------------------------------------------------------------
(* Parent directories (register_file_parents). *)

ParentKind == "parent"

\* Roots that the distribution owns.
Stops == {<<>>} \union {<<n>> : n \in {"etc", "srv", "usr", "var", "run", "home"}}

Boundary(a) ==
  IF a.kind = "host.authorized_keys" THEN Front(Front(a.target))
  ELSE IF a.user = "root" THEN <<>> ELSE <<"home", a.user>>

\* The directory itself belongs to the owner of the file, and so does what is
\* below the owner's home; what else is above belongs to root.
ParentHints(a, p) ==
  IF \/ p # Front(a.target) /\ ~IsPrefix(Boundary(a), p)
     \/ a.user = "root" /\ a.kind # "host.authorized_keys"
  THEN RootOwned ELSE a.user

\* Directories between a file and the first one that is managed.
Unmanaged(a, managed) ==
  {p \in Above(a.target) :
    \A q \in Above(a.target) : Len(q) >= Len(p) =>
      q \notin managed \union Stops \union {Boundary(a)}}

\* The managed directory above those, if the walk comes to one.
Meets(a, managed) ==
  {p \in Above(a.target) \intersect managed :
    \A q \in Above(a.target) :
      /\ Len(q) > Len(p) => q \notin managed
      /\ Len(q) >= Len(p) => q \notin Stops \union {Boundary(a)}}

Artifacts(c) == {c[p] : p \in DOMAIN c}
Targets(c) == {a.target : a \in Artifacts(c)}

\* A managed file in the way, or a directory that two files want differently.
Conflict(a, c) ==
  \E p \in Meets(a, Targets(c)) : \E b \in Artifacts(c) :
    /\ b.target = p
    /\ b.is # "dir" \/ (b.kind = ParentKind /\ b.hints # ParentHints(a, p))

ParentArtifact(a, p) ==
  [to |-> <<"system", "parents">> \o p, target |-> p, is |-> "dir",
   hints |-> ParentHints(a, p), kind |-> ParentKind, user |-> "root",
   register |-> "once"]

-----------------------------------------------------------------------------
(* The run. *)

Init ==
  /\ config \in Configs /\ all = FALSE /\ status = "none" /\ pc = "validate"
  /\ hosts = <<>> /\ plan = <<>> /\ collector = <<>> /\ orphans = {}
  /\ disk = [r \in Roots |-> <<>>] /\ manifest = [r \in Roots |-> Absent]
  /\ wiping = {} /\ done = {} /\ runs = 0

\* main: --all, or one host.
Start ==
  /\ status # "running" /\ runs < MaxRuns /\ runs' = runs + 1
  /\ config' \in Configs /\ status' = "running" /\ pc' = "validate"
  /\ \/ all' = TRUE /\ hosts' = HostOrder
     \/ all' = FALSE /\ \E h \in Hosts : hosts' = <<h>>
  /\ plan' = <<>> /\ collector' = <<>> /\ orphans' = {} /\ done' = {}
  /\ UNCHANGED <<disk, manifest, wiping>>

At(phase) == status = "running" /\ pc = phase
Fail == status' = "failed" /\ UNCHANGED <<pc, hosts, done>>
Goto(phase) == pc' = phase /\ UNCHANGED <<status, hosts, done>>
Output == <<disk, manifest, wiping>>

\* load_and_validate.  A host without a host.yaml passes.
Valid(c) == c.valid

Validate ==
  /\ At("validate")
  /\ IF Valid(config) THEN Goto("wipe") ELSE Fail
  /\ UNCHANGED <<run, Output, plan, collector, orphans>>

Children(r) ==
  {p[1] : p \in DOMAIN disk[r]}
    \union (IF manifest[r] = Absent THEN {} ELSE {"manifest.json"})

\* Mutant of Wipe: only the trees that the renderers make anew.
WipeManifest ==
  /\ At("wipe")
  /\ manifest' = [manifest EXCEPT ![Here] = Absent] /\ Goto("load")
  /\ UNCHANGED <<run, disk, wiping, plan, collector, orphans>>

\* _prepare_output_dirs: one child after the other, in the order of the directory.
Wipe ==
  /\ At("wipe")
  /\ IF Children(Here) = {}
     THEN wiping' = wiping \ {Here} /\ Goto("load") /\ UNCHANGED <<disk, manifest>>
     ELSE \E child \in Children(Here) :
            /\ wiping' = wiping \union {Here} /\ Goto("wipe")
            /\ manifest' = IF child = "manifest.json"
                           THEN [manifest EXCEPT ![Here] = Absent] ELSE manifest
            /\ disk' = [disk EXCEPT ![Here] =
                         Restrict(@, {p \in DOMAIN @ : p[1] # child})]
  /\ UNCHANGED <<run, plan, collector, orphans>>

\* _load_host_configs and _prepare_host_artifact_dirs; a new collector.
Load ==
  /\ At("load")
  /\ IF Head(hosts) \in config.files
     THEN /\ plan' = HostPlan(Head(hosts), config) /\ collector' = <<>>
          /\ disk' = [disk EXCEPT ![Here] =
                       [p \in DOMAIN @ \union {<<"system">>, <<"software">>, <<"services">>}
                         |-> IF p \in DOMAIN @ THEN @[p] ELSE "dir"]]
          /\ Goto("write")
     ELSE Fail /\ UNCHANGED <<disk, plan, collector>>
  /\ UNCHANGED <<run, manifest, wiping, orphans>>

\* register_artifact
Refused(a) == a.register = "once" /\ a.to \in DOMAIN collector

Registered(c, a) ==
  IF a.register = "never" THEN c
  ELSE [p \in DOMAIN c \union {a.to} |-> IF p = a.to THEN a ELSE c[p]]

\* A source that is missing, a template that fails, a file where a directory must
\* be, or a directory where a file must be.
Unwritable(a, tree) ==
  \/ a.is = "broken"
  \/ a.is = "dir" /\ Blocked(tree, a.to)
  \/ a.is # "dir" /\ (Blocked(tree, Front(a.to)) \/ (a.to \in DOMAIN tree
                                                  /\ tree[a.to] = "dir"))

\* filter_config_entries_by_destination_prefix: the entry is not for this renderer.
PassOver ==
  /\ At("write") /\ plan # <<>> /\ Head(plan) = LeftOut
  /\ plan' = Tail(plan) /\ Goto("write")
  /\ UNCHANGED <<run, Output, collector, orphans>>

\* render_config_entries and the other renderers: one file or directory.  What a
\* step that fails leaves half made is left out: no manifest will list it.
Write ==
  /\ At("write") /\ plan # <<>> /\ Head(plan) # LeftOut
  /\ LET a == Head(plan)
         tree == disk[Here]
     IN IF Unwritable(a, tree) \/ Refused(a)
        THEN Fail /\ UNCHANGED <<disk, plan, collector>>
        ELSE /\ disk' = [disk EXCEPT ![Here] =
                          IF a.is = "dir" THEN WithDirs(tree, a.to)
                          ELSE WithFile(tree, a.to, a.is)]
             /\ collector' = Registered(collector, a)
             /\ plan' = Tail(plan) /\ Goto("write")
  /\ UNCHANGED <<run, manifest, wiping, orphans>>

Written ==
  /\ At("write") /\ plan = <<>>
  /\ orphans' = {a \in Artifacts(collector) : a.is # "dir"} /\ Goto("parents")
  /\ UNCHANGED <<run, Output, plan, collector>>

\* Mutant of Parents: the walk does not stop at a directory declared elsewhere.
ParentsOverride ==
  /\ At("parents")
  /\ \E a \in orphans :
       LET new == {ParentArtifact(a, p) : p \in
                     {p \in Above(a.target) \ (Stops \union {Boundary(a)}) :
                       Boundary(a) = <<>> \/ IsPrefix(Boundary(a), p)}}
       IN /\ collector' = [p \in {x \in DOMAIN collector :
                                   \A b \in new : b.target # collector[x].target}
                             \union {b.to : b \in new} |->
                            IF \E b \in new : b.to = p
                            THEN CHOOSE b \in new : b.to = p ELSE collector[p]]
          /\ disk' = [disk EXCEPT ![Here] =
                       [p \in DOMAIN @ \union UNION {Chain(b.to) : b \in new} |->
                         IF p \in DOMAIN @ THEN @[p] ELSE "dir"]]
          /\ orphans' = orphans \ {a} /\ Goto("parents")
  /\ UNCHANGED <<run, manifest, wiping, plan>>

\* register_file_parents, of one file.  The code takes them by render path; the
\* model in any order, for the outcome must not hang on names.
Parents ==
  /\ At("parents")
  /\ \E a \in orphans :
       LET new == {ParentArtifact(a, p) : p \in Unmanaged(a, Targets(collector))}
       IN IF \/ Conflict(a, collector)
             \/ \E b \in new : Blocked(disk[Here], b.to) \/ Refused(b)
          THEN Fail /\ UNCHANGED <<disk, collector, orphans>>
          ELSE /\ collector' = [p \in DOMAIN collector \union {b.to : b \in new} |->
                                 IF p \in DOMAIN collector THEN collector[p]
                                 ELSE CHOOSE b \in new : b.to = p]
               /\ disk' = [disk EXCEPT ![Here] =
                            [p \in DOMAIN @ \union UNION {Chain(b.to) : b \in new}
                              |-> IF p \in DOMAIN @ THEN @[p] ELSE "dir"]]
               /\ orphans' = orphans \ {a} /\ Goto("parents")
  /\ UNCHANGED <<run, manifest, wiping, plan>>

Adopted ==
  /\ At("parents") /\ orphans = {} /\ Goto("hash")
  /\ UNCHANGED <<run, Output, plan, collector, orphans>>

\* compute_hashes_and_sizes: two artifacts with one target.
Twice(c) ==
  \E p, q \in DOMAIN c : p # q /\ c[p].target = c[q].target

Found(tree, a) ==
  a.to \in DOMAIN tree /\ (tree[a.to] = "dir" <=> a.is = "dir")

Hash ==
  /\ At("hash")
  /\ IF Twice(collector) \/ \E a \in Artifacts(collector) : ~Found(disk[Here], a)
     THEN Fail ELSE Goto("manifest")
  /\ UNCHANGED <<run, Output, plan, collector, orphans>>

\* Mutant of Listed: the content a renderer had in mind, not the file.
ListedContent(tree, c) ==
  {[to |-> a.to, target |-> a.target, digest |-> "as registered",
    hints |-> a.hints] : a \in Artifacts(c)}

\* build_manifest: the digest is that of the file.
Listed(tree, c) ==
  {[to |-> a.to, target |-> a.target, digest |-> tree[a.to], hints |-> a.hints] :
    a \in Artifacts(c)}

\* write_manifest: open truncates, then the entries are written.
Truncate ==
  /\ At("manifest") /\ manifest[Here] = Absent
  /\ manifest' = [manifest EXCEPT ![Here] = Partial] /\ Goto("manifest")
  /\ UNCHANGED <<run, disk, wiping, plan, collector, orphans>>

Dump ==
  /\ At("manifest") /\ manifest[Here] # Absent
  /\ manifest' = [manifest EXCEPT ![Here] =
                [state |-> "complete", entries |-> Listed(disk[Here], collector)]]
  /\ Goto("serials")
  /\ UNCHANGED <<run, disk, wiping, plan, collector, orphans>>

\* validate_dns_serials, with the artifacts in place; then the next host.
Serials ==
  /\ At("serials")
  /\ IF ~config.serials THEN Fail
     ELSE /\ done' = done \union {Head(hosts)} /\ hosts' = Tail(hosts)
          /\ pc' = "wipe"
          /\ status' = IF Tail(hosts) = <<>> THEN "ok" ELSE status
  /\ UNCHANGED <<run, Output, plan, collector, orphans>>

\* The deadline, or a reboot.
Kill ==
  /\ status = "running" /\ status' = "killed"
  /\ UNCHANGED <<run, pc, hosts, Output, plan, collector, orphans, done>>

Next ==
  \/ Start \/ Validate \/ Wipe \/ Load \/ PassOver \/ Write \/ Written \/ Parents \/ Adopted
  \/ Hash \/ Truncate \/ Dump \/ Serials \/ Kill

Spec == Init /\ [][Next]_vars

-----------------------------------------------------------------------------
(* Properties. *)

Complete(r) == manifest[r].state = "complete"

Specifications(tree) ==
  {p \in Files(tree) : IsPrefix(<<"software">>, p) /\ p # <<"software", "packages.txt">>}

\* A manifest that is there in full lists every file of its tree with the digest
\* the file has, whatever was killed, failed or rendered there before; only a wipe
\* that was cut short leaves one behind (collector.py:130, render.py:274).  No two
\* entries have one place on the host: the apply would install them in turns
\* (collector.py:91).
ManifestIsExact ==
  \A r \in Roots \ wiping : Complete(r) =>
    /\ \A e, f \in manifest[r].entries : e.target = f.target => e = f
    /\ \A e \in manifest[r].entries : e.to \in DOMAIN disk[r] /\ disk[r][e.to] = e.digest
    /\ Files(disk[r]) \ Specifications(disk[r]) \subseteq {e.to : e \in manifest[r].entries}

Adopting == status = "running" /\ pc \in {"hash", "manifest", "serials"}

Declared == {a \in Artifacts(collector) : a.kind # ParentKind}

\* Once parents are registered, every file lies in a managed directory or in one the
\* host is required to have; directories declared elsewhere stand as declared; and
\* which others are added depends on the files alone, not on their order
\* (parents.py:30).
ParentsAreManaged ==
  Adopting =>
    LET files == {a \in Declared : a.is # "dir"}
        declared == {a.target : a \in Declared}
        parents == {a \in Artifacts(collector) : a.kind = ParentKind}
    IN /\ {a.target : a \in parents} = UNION {Unmanaged(a, declared) : a \in files}
       /\ {a.target : a \in parents} \intersect declared = {}
       /\ \A a \in files : Front(a.target) \in
            Stops \union {Boundary(a)} \union {b.target : b \in Artifacts(collector)}
       /\ \A a \in files : \A b \in parents :
            b.target \in Unmanaged(a, declared) => b.hints = ParentHints(a, b.target)

\* What host.yaml, common and units declare, the particular after the general
\* whichever renderer takes it, then packages, keys and the services' entries.
DeclaredFor(h, c) ==
  Entries(<<"system">>, "root", c.common \o c.host[h] \o c.commonUnits \o c.hostUnits[h])
    \o SoftwarePlan(h, c) \o UsersPlan(h, c) \o ServicesPlan(h, c)

Speaks(a) == a.register \notin {"never", "left out"}

\* The last that speaks of a place decides.
InForce(list) ==
  {list[i] : i \in {i \in DOMAIN list :
    /\ Speaks(list[i])
    /\ \A j \in DOMAIN list :
         j > i /\ Speaks(list[j]) => list[j].to # list[i].to}}

Told(h, c) ==
  {[to |-> a.to, target |-> a.target, digest |-> a.is, hints |-> a.hints] :
    a \in InForce(DeclaredFor(h, c))}

\* A host that a run is through with has a complete manifest of what this configuration
\* declares for it, the host's own before what is common: no entry fell between the
\* renderers that share a list, none is left of an earlier revision, host or layer,
\* and it stands when the run then fails or is killed at another host
\* (host.py:80, networkd.py:72, render.py:514).
FinishedIsDeclared ==
  \A h \in done :
    LET written == manifest[Root(h)]
    IN /\ written.state = "complete"
       /\ Told(h, config) \subseteq written.entries
       /\ \A e \in written.entries \ Told(h, config) :
            e.digest = "dir" /\ IsPrefix(<<"system", "parents">>, e.to)
=============================================================================
