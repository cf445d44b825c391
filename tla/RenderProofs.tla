---------------------------- MODULE RenderProofs ----------------------------
(* What a rendering promises, for every set of hosts and configurations.     *)
EXTENDS Render, WellFoundedInduction, TLAPS

-----------------------------------------------------------------------------
(* Why it holds. *)

Running == status = "running"
Now(phases) == Running /\ pc \in phases

TypeInv ==
  /\ config \in Configs /\ all \in BOOLEAN
  /\ hosts \in Seq(Hosts)
  /\ Running => hosts # <<>>
  /\ DOMAIN disk = Roots /\ DOMAIN manifest = Roots

\* The wipe leaves nothing; until the manifest is written there is none.
WipeInv ==
  /\ Now({"load"}) => DOMAIN disk[Here] = {}
  /\ Now({"load", "write", "parents", "hash"}) => manifest[Here] = Absent

Planned(h, c) ==
  ToSet(SystemPlan(h, c)) \union ToSet(SoftwarePlan(h, c))
    \union ToSet(UsersPlan(h, c)) \union ToSet(ServicesPlan(h, c))

PlanInv == Now({"write"}) => plan \in Seq(Planned(Head(hosts), config))

IsSpecification(p) == IsPrefix(<<"software">>, p) /\ p # <<"software", "packages.txt">>

IsParent(a) == a.kind = ParentKind /\ a.is = "dir"

\* The collector knows every file that was written, by the path it was written to;
\* what it holds was planned, or is a parent added later.
CollectorInv ==
  Now({"write", "parents", "hash", "manifest", "serials"}) =>
    \A p \in DOMAIN collector :
      /\ collector[p].to = p
      /\ \/ collector[p] \in Planned(Head(hosts), config) \ {LeftOut}
         \/ pc # "write" /\ IsParent(collector[p])

WrittenInv ==
  Now({"write", "parents", "hash", "manifest"}) =>
    \A p \in Files(disk[Here]) : p \in DOMAIN collector \/ IsSpecification(p)

HashedInv ==
  Now({"manifest"}) =>
    ~Twice(collector) /\ \A a \in Artifacts(collector) : Found(disk[Here], a)

OutputInv ==
  TypeInv /\ WipeInv /\ PlanInv /\ CollectorInv /\ WrittenInv /\ HashedInv
    /\ ManifestIsExact

Wanted == {a.target : a \in Declared}
Parented == {a \in Artifacts(collector) : a.kind = ParentKind}
Orphans == {a \in Declared : a.is # "dir"}

\* The parents are those that the files done so far lack among what is declared,
\* whatever the order they were done in, and as each of these files wants them.
ParentInv ==
  Now({"parents", "hash", "manifest", "serials"}) =>
    /\ orphans \subseteq Orphans
    /\ pc # "parents" => orphans = {}
    /\ {b.target : b \in Parented} = UNION {Unmanaged(a, Wanted) : a \in Orphans \ orphans}
    /\ \A a \in Orphans \ orphans : \A b \in Parented :
         b.target \in Unmanaged(a, Wanted) => b.hints = ParentHints(a, b.target)

-----------------------------------------------------------------------------
(* What is planned. *)

Words == STRING \union {"etc", "abhaile", "packages.txt", ".ssh", "authorized_keys",
                        "system", "parents", "software", "services", "downloads"}

Owned(a) == a.user # "root" \/ a.kind = "host.authorized_keys"

WellPlanned(h, c, a) ==
  /\ a.target \in Seq(Words) /\ a.to \in Seq(Words) /\ a.to # <<>>
  /\ a.kind \in {"entry", "host.packages", "host.authorized_keys", "none"}
  /\ a.register \in {"replace", "once", "never"}
  /\ a.register = "never" <=> IsSpecification(a.to)
  /\ a.kind = "host.authorized_keys" =>
       \E i \in DOMAIN c.keys[h] :
         /\ a.user = c.keys[h][i].user
         /\ a.target = c.keys[h][i].home \o <<".ssh", "authorized_keys">>
  /\ a.kind # "host.authorized_keys" /\ a.user # "root" =>
       \E j \in DOMAIN c.services[h] : a.user = c.services[h][j].user

LEMMA Elements ==
  ASSUME NEW S, NEW list \in Seq(S)
  PROVE  /\ DOMAIN list = 1..Len(list) /\ Len(list) \in Nat
         /\ \A i \in DOMAIN list : list[i] \in S
         /\ list \in Seq(ToSet(list))
         /\ \A T : S \subseteq T => list \in Seq(T)
BY DEF ToSet

LEMMA Joined ==
  ASSUME NEW S, NEW s \in Seq(S), NEW t \in Seq(S)
  PROVE  s \o t \in Seq(S)
OBVIOUS

\* Only downloads are written among the software and not registered.
LEMMA Registers ==
  ASSUME NEW n, NEW rest \in Seq(Words), n \in {"system", "services"}
  PROVE  <<n>> \o rest \in Seq(Words) /\ <<n>> \o rest # <<>>
         /\ ~IsSpecification(<<n>> \o rest)
<1>1. PICK s : s = <<n>> \o rest
  OBVIOUS
<1>2. n \in Words /\ n # "software"
  BY DEF Words
<1>3. s \in Seq(Words) /\ s # <<>> /\ s[1] = n
  BY <1>1, <1>2
<1>4. ~IsPrefix(<<"software">>, s)
  BY <1>2, <1>3 DEF IsPrefix
<1> QED BY <1>1, <1>3, <1>4 DEF IsSpecification

LEMMA EntryIsSound ==
  ASSUME NEW c \in Configs, NEW h \in Hosts, NEW below, NEW user,
         below = <<"system">> \/ \E n \in STRING : below = <<"services", n>>,
         NEW e, e.dest \in Seq(STRING),
         user # "root" => \E j \in DOMAIN c.services[h] : user = c.services[h][j].user
  PROVE  WellPlanned(h, c, Entry(below, user, e))
<1> DEFINE a == Entry(below, user, e)
<1>1. a.target = e.dest /\ a.user = user /\ a.kind = "entry" /\ a.register = "replace"
  BY DEF Entry
<1>2. a.target \in Seq(Words)
  <2> HIDE DEF a
  <2> QED BY <1>1, Elements DEF Words
<1>3. a.to \in Seq(Words) /\ a.to # <<>> /\ ~IsSpecification(a.to)
  <2>1. a.to = below \o e.dest
    BY DEF Entry
  <2>2. PICK d \in Seq(Words) : d = e.dest
    BY Elements DEF Words
  <2>3. CASE below = <<"system">>
    <3>1. a.to = <<"system">> \o d
      BY <2>1, <2>2, <2>3
    <3> HIDE DEF a
    <3> QED BY <3>1, Registers
  <2>4. CASE \E n \in STRING : below = <<"services", n>>
    <3>1. PICK n \in STRING : below = <<"services", n>>
      BY <2>4
    <3>2. <<n>> \o d \in Seq(Words)
      BY DEF Words
    <3>3. a.to = <<"services">> \o (<<n>> \o d)
      BY <2>1, <2>2, <3>1
    <3> HIDE DEF a
    <3> QED BY <3>2, <3>3, Registers
  <2> QED BY <2>3, <2>4
<1> SUFFICES WellPlanned(h, c, a)
  OBVIOUS
<1> HIDE DEF a
<1> QED BY <1>1, <1>2, <1>3 DEF WellPlanned

LEMMA IsList ==
  ASSUME NEW S, NEW n \in Nat, NEW f, DOMAIN f = 1..n, f = [i \in 1..n |-> f[i]],
         \A i \in 1..n : f[i] \in S
  PROVE  f \in Seq(S) /\ Len(f) = n
<1>1. f \in [1..n -> S]
  OBVIOUS
<1> QED BY <1>1

SystemSteps == {LeftOut} \union {Entry(<<"system">>, "root", e) : e \in EntrySpec}

LEMMA SystemLists ==
  ASSUME NEW es \in Seq(EntrySpec)
  PROVE  /\ Filtered(es, TRUE) \in Seq(SystemSteps) /\ Filtered(es, FALSE) \in Seq(SystemSteps)
         /\ Entries(<<"system">>, "root", es) \in Seq(SystemSteps)
<1>1. PICK n \in Nat : n = Len(es)
  OBVIOUS
<1>2. DOMAIN es = 1..n /\ \A i \in 1..n : es[i] \in EntrySpec
  BY <1>1
<1>3. ASSUME NEW net \in BOOLEAN PROVE Filtered(es, net) \in Seq(SystemSteps)
  <2>1. PICK f : f = Filtered(es, net)
    OBVIOUS
  <2>2. /\ DOMAIN f = 1..n /\ f = [i \in 1..n |-> f[i]]
        /\ \A i \in 1..n : f[i] = LeftOut \/ f[i] = Entry(<<"system">>, "root", es[i])
    BY <1>2, <2>1 DEF Filtered
  <2>3. \A i \in 1..n : f[i] \in SystemSteps
    BY <1>2, <2>2 DEF SystemSteps
  <2> QED BY <2>1, <2>2, <2>3, IsList
<1>4. Entries(<<"system">>, "root", es) \in Seq(SystemSteps)
  <2>1. PICK f : f = Entries(<<"system">>, "root", es)
    OBVIOUS
  <2>2. /\ DOMAIN f = 1..n /\ f = [i \in 1..n |-> f[i]]
        /\ \A i \in 1..n : f[i] = Entry(<<"system">>, "root", es[i])
    BY <1>2, <2>1 DEF Entries
  <2>3. \A i \in 1..n : f[i] \in SystemSteps
    BY <1>2, <2>2 DEF SystemSteps
  <2> QED BY <2>1, <2>2, <2>3, IsList
<1> QED BY <1>3, <1>4

LEMMA SystemIsSound ==
  ASSUME NEW c \in Configs, NEW h \in Hosts
  PROVE /\ SystemPlan(h, c) \in Seq(ToSet(SystemPlan(h, c)))
        /\ \A a \in ToSet(SystemPlan(h, c)) : a # LeftOut => WellPlanned(h, c, a)
<1> DEFINE Mine == SystemSteps
<1>1. \A a \in Mine : a # LeftOut => WellPlanned(h, c, a)
  BY EntryIsSound DEF EntrySpec, SystemSteps
<1> HIDE DEF Mine
<1>2. SystemPlan(h, c) \in Seq(Mine)
  <2> DEFINE us == c.commonUnits \o c.hostUnits[h]
  <2>1. c.common \in Seq(EntrySpec) /\ c.host[h] \in Seq(EntrySpec) /\ us \in Seq(EntrySpec)
    BY ConfigsAssumption
  <2> HIDE DEF us
  <2>2. /\ Filtered(c.common, FALSE) \in Seq(Mine) /\ Filtered(c.host[h], FALSE) \in Seq(Mine)
        /\ Filtered(c.common, TRUE) \in Seq(Mine) /\ Filtered(c.host[h], TRUE) \in Seq(Mine)
        /\ Entries(<<"system">>, "root", us) \in Seq(Mine)
    BY <2>1, SystemLists DEF Mine
  <2>3. HostConfigPlan(h, c) \in Seq(Mine) /\ NetworkdPlan(h, c) \in Seq(Mine)
    BY <2>2, Joined DEF HostConfigPlan, NetworkdPlan, us
  <2> QED BY <2>3, Joined DEF SystemPlan
<1> QED BY <1>1, <1>2 DEF ToSet

LEMMA SoftwareIsSound ==
  ASSUME NEW c \in Configs, NEW h \in Hosts
  PROVE /\ SoftwarePlan(h, c) \in Seq(ToSet(SoftwarePlan(h, c)))
        /\ \A a \in ToSet(SoftwarePlan(h, c)) : a # LeftOut => WellPlanned(h, c, a)
<1> DEFINE specs == c.specs[h]
           package == [to |-> <<"software", "packages.txt">>, is |-> c.packages,
             target |-> <<"etc", "abhaile", "packages.txt">>, hints |-> "root 0644",
             kind |-> "host.packages", user |-> "root", register |-> "once"]
           Further(n, x) ==
             [to |-> <<"software", "downloads", n>>, is |-> x, target |-> <<>>,
              hints |-> "none", kind |-> "none", user |-> "root", register |-> "never"]
           Mine == {package} \union {Further(e.id, e.is) : e \in [id : STRING, is : STRING]}
<1>1. specs \in Seq([id : STRING, is : STRING])
  BY ConfigsAssumption
<1>2. WellPlanned(h, c, package)
  <2> SUFFICES /\ package.target \in Seq(Words) /\ package.user = "root"
               /\ package.kind = "host.packages" /\ package.register = "once"
               /\ package.to \in Seq(Words) /\ package.to # <<>>
               /\ ~IsSpecification(package.to)
    BY DEF WellPlanned
  <2>1. package.to = <<"software", "packages.txt">>
    OBVIOUS
  <2>2. ~IsSpecification(<<"software", "packages.txt">>)
    BY DEF IsSpecification
  <2> QED BY <2>1, <2>2 DEF Words
<1>3. ASSUME NEW n \in STRING, NEW x PROVE WellPlanned(h, c, Further(n, x))
  <2>1. IsSpecification(<<"software", "downloads", n>>)
    BY DEF IsSpecification, IsPrefix
  <2>2. /\ Further(n, x).target = <<>> /\ Further(n, x).user = "root"
        /\ Further(n, x).kind = "none" /\ IsSpecification(Further(n, x).to)
        /\ Further(n, x).register = "never"
    BY <2>1
  <2>3. Further(n, x).to \in Seq(Words) /\ Further(n, x).to # <<>>
    BY DEF Words
  <2>4. Further(n, x).target \in Seq(Words)
    BY <2>2
  <2> HIDE DEF Further
  <2> QED BY <2>2, <2>3, <2>4 DEF WellPlanned
<1>4. [i \in DOMAIN specs |-> Further(specs[i].id, specs[i].is)] \in Seq(Mine)
  <2>1. \A i \in DOMAIN specs : Further(specs[i].id, specs[i].is) \in Mine
    BY <1>1, Elements
  <2>2. DOMAIN specs = 1..Len(specs) /\ Len(specs) \in Nat
    BY <1>1, Elements
  <2> HIDE DEF Mine, Further, specs
  <2> QED BY <2>1, <2>2
<1>5. SoftwarePlan(h, c) \in Seq(Mine)
  <2>1. SoftwarePlan(h, c)
          = <<package>> \o [i \in DOMAIN specs |-> Further(specs[i].id, specs[i].is)]
    BY DEF SoftwarePlan
  <2>2. <<package>> \in Seq(Mine)
    OBVIOUS
  <2> HIDE DEF Mine, Further, specs, package
  <2> QED BY <1>4, <2>1, <2>2, Joined
<1>6. \A a \in Mine : WellPlanned(h, c, a)
  BY <1>2, <1>3
<1> HIDE DEF Mine
<1> QED BY <1>5, <1>6 DEF ToSet

LEMMA UsersAreSound ==
  ASSUME NEW c \in Configs, NEW h \in Hosts
  PROVE /\ UsersPlan(h, c) \in Seq(ToSet(UsersPlan(h, c)))
        /\ \A a \in ToSet(UsersPlan(h, c)) : a # LeftOut => WellPlanned(h, c, a)
<1> DEFINE keys == c.keys[h]
           list == UsersPlan(h, c)
<1>1. keys \in Seq([user : STRING, home : Seq(STRING)])
  BY ConfigsAssumption
<1>2. /\ DOMAIN list = 1..Len(keys) /\ DOMAIN keys = 1..Len(keys) /\ Len(keys) \in Nat
      /\ list = [i \in DOMAIN keys |-> list[i]]
  <2>1. DOMAIN keys = 1..Len(keys) /\ Len(keys) \in Nat
    BY <1>1, Elements
  <2> QED BY <2>1 DEF UsersPlan
<1>3. ASSUME NEW i \in DOMAIN keys PROVE WellPlanned(h, c, list[i])
  <2>1. /\ list[i].target = keys[i].home \o <<".ssh", "authorized_keys">>
        /\ list[i].kind = "host.authorized_keys" /\ list[i].register = "replace"
        /\ list[i].user = keys[i].user
        /\ list[i].to = <<"system">> \o list[i].target
    BY DEF UsersPlan
  <2>2. keys[i] \in [user : STRING, home : Seq(STRING)]
    BY <1>1, Elements
  <2>3. keys[i].home \in Seq(Words)
    BY <2>2, Elements DEF Words
  <2>4. list[i].target \in Seq(Words)
    BY <2>1, <2>3 DEF Words
  <2> HIDE DEF list
  <2>5. /\ list[i].to \in Seq(Words) /\ list[i].to # <<>> /\ ~IsSpecification(list[i].to)
    BY <2>1, <2>4, Registers
  <2> QED BY <2>1, <2>4, <2>5 DEF WellPlanned
<1> HIDE DEF list
<1>4. list \in Seq(ToSet(list))
  BY <1>2 DEF ToSet
<1>5. \A a \in ToSet(list) : WellPlanned(h, c, a)
  BY <1>2, <1>3 DEF ToSet
<1> QED BY <1>4, <1>5 DEF list

LEMMA ServicesAreSound ==
  ASSUME NEW c \in Configs, NEW h \in Hosts
  PROVE /\ ServicesPlan(h, c) \in Seq(ToSet(ServicesPlan(h, c)))
        /\ \A a \in ToSet(ServicesPlan(h, c)) : a # LeftOut => WellPlanned(h, c, a)
<1> DEFINE files == c.services[h]
           list == ServicesPlan(h, c)
<1>1. files \in Seq(ServiceEntrySpec)
  BY ConfigsAssumption
<1>2. /\ DOMAIN list = 1..Len(files) /\ DOMAIN files = 1..Len(files) /\ Len(files) \in Nat
      /\ list = [i \in DOMAIN files |-> list[i]]
  BY <1>1 DEF ServicesPlan
<1>3. ASSUME NEW i \in DOMAIN files PROVE WellPlanned(h, c, list[i])
  <2>1. list[i] = Entry(<<"services", files[i].service>>, files[i].user, files[i])
    BY DEF ServicesPlan
  <2>2. files[i] \in ServiceEntrySpec
    BY <1>1, Elements
  <2>3. files[i].dest \in Seq(STRING)
    BY <2>2 DEF ServiceEntrySpec
  <2>4. \E n \in STRING : <<"services", files[i].service>> = <<"services", n>>
    BY <2>2 DEF ServiceEntrySpec
  <2> QED BY <2>1, <2>3, <2>4, EntryIsSound
<1> HIDE DEF list
<1>4. list \in Seq(ToSet(list))
  BY <1>2 DEF ToSet
<1>5. \A a \in ToSet(list) : WellPlanned(h, c, a)
  BY <1>2, <1>3 DEF ToSet
<1> QED BY <1>4, <1>5 DEF list

LEMMA PlanIsSound ==
  ASSUME NEW c \in Configs, NEW h \in Hosts
  PROVE /\ HostPlan(h, c) \in Seq(Planned(h, c))
        /\ \A a \in Planned(h, c) : a # LeftOut => WellPlanned(h, c, a)
<1>1. \A S, T : S \subseteq T => Seq(S) \subseteq Seq(T)
  OBVIOUS
<1>2. /\ SystemPlan(h, c) \in Seq(Planned(h, c)) /\ SoftwarePlan(h, c) \in Seq(Planned(h, c))
      /\ UsersPlan(h, c) \in Seq(Planned(h, c)) /\ ServicesPlan(h, c) \in Seq(Planned(h, c))
  BY <1>1, SystemIsSound, SoftwareIsSound, UsersAreSound, ServicesAreSound DEF Planned
<1> QED BY <1>2, SystemIsSound, SoftwareIsSound, UsersAreSound, ServicesAreSound
        DEF HostPlan, Planned

-----------------------------------------------------------------------------
(* The output. *)

LEMMA HereIsRoot == TypeInv /\ Running => Head(hosts) \in Hosts /\ Here \in Roots
BY DEF TypeInv, Running, Here, Root, Roots

\* A run keeps configuration and hosts until it is through with one of them.
LEMMA StaysHere ==
  ASSUME Next, ~Start, ~Serials
  PROVE  /\ Running /\ hosts' = hosts /\ all' = all /\ config' = config
         /\ Here' = Here
<1>1. Running /\ hosts' = hosts /\ all' = all /\ config' = config
  BY DEF Next, Validate, Wipe, Load, PassOver, Write, Written, Parents, Adopted, Hash,
         Truncate, Dump, Kill, At, Fail, Goto, run, Output, Running
<1> QED BY <1>1 DEF Here, Root

LEMMA HostsAreThere == HostOrder \in Seq(Hosts) /\ HostOrder # <<>>
BY HostsAssumption, Elements DEF Hosts

LEMMA TypeStep ==
  ASSUME TypeInv, [Next]_vars
  PROVE  TypeInv'
<1>1. CASE Start
  <2>1. config' \in Configs /\ all' \in BOOLEAN /\ hosts' \in Seq(Hosts) /\ hosts' # <<>>
    <3>1. CASE hosts' = HostOrder /\ all' = TRUE
      BY <1>1, <3>1, HostsAreThere DEF Start
    <3>2. CASE all' = FALSE /\ \E h \in Hosts : hosts' = <<h>>
      <4>1. PICK h \in Hosts : hosts' = <<h>>
        BY <3>2
      <4>2. <<h>> \in Seq(Hosts) /\ <<h>> # <<>>
        OBVIOUS
      <4> QED BY <1>1, <3>2, <4>1, <4>2 DEF Start
    <3>3. config' \in Configs /\ all' \in BOOLEAN
      BY <1>1 DEF Start
    <3> QED BY <1>1, <3>1, <3>2, <3>3 DEF Start
  <2>2. disk' = disk /\ manifest' = manifest
    BY <1>1 DEF Start
  <2> QED BY <2>1, <2>2 DEF TypeInv
<1>2. CASE Serials
  <2>1. /\ config' = config /\ all' = all /\ disk' = disk /\ manifest' = manifest
        /\ hosts' \in Seq(Hosts)
        /\ Running' => hosts' # <<>>
    BY <1>2 DEF Serials, TypeInv, At, Fail, run, Output, Running
  <2> QED BY <2>1 DEF TypeInv
<1>3. CASE Next /\ ~Start /\ ~Serials
  <2>1. /\ Running /\ hosts' = hosts /\ all' = all /\ config' = config
    BY <1>3, StaysHere
  <2>2. DOMAIN disk' = DOMAIN disk /\ DOMAIN manifest' = DOMAIN manifest
    BY <1>3 DEF Next, Validate, Wipe, Load, PassOver, Write, Written, Parents, Adopted,
                Hash, Truncate, Dump, Kill, Output
  <2> QED BY <2>1, <2>2 DEF TypeInv
<1>4. CASE UNCHANGED vars
  BY <1>4 DEF vars, TypeInv, Running
<1> QED BY <1>1, <1>2, <1>3, <1>4

LEMMA WipeStep ==
  ASSUME TypeInv, WipeInv, [Next]_vars
  PROVE  WipeInv'
<1>1. CASE Start \/ Serials
  BY <1>1 DEF Start, Serials, WipeInv, Now, Running, At, Fail
<1>2. CASE Next /\ ~Start /\ ~Serials
  <2>1. Running /\ Here' = Here /\ Here \in Roots
    BY <1>2, StaysHere, HereIsRoot
  <2>2. CASE Wipe
    <3>1. CASE Children(Here) = {}
      <4>1. DOMAIN disk[Here] = {} /\ manifest[Here] = Absent
        BY <3>1 DEF Children
      <4>2. disk' = disk /\ manifest' = manifest
        BY <2>2, <3>1 DEF Wipe
      <4> QED BY <2>1, <4>1, <4>2 DEF WipeInv
    <3>2. CASE Children(Here) # {}
      BY <2>2, <3>2 DEF Wipe, Goto, WipeInv, Now
    <3> QED BY <3>1, <3>2
  <2>3. CASE Load
    <3>1. manifest' = manifest /\ (Running' => pc' = "write") /\ manifest[Here] = Absent
      BY <2>3 DEF Load, Goto, Fail, WipeInv, Now, Running, At
    <3> QED BY <2>1, <3>1 DEF WipeInv, Now
  <2>4. CASE PassOver \/ Write \/ Written \/ Parents \/ Adopted
    <3>1. /\ manifest' = manifest /\ manifest[Here] = Absent
          /\ Running' => pc' \in {"write", "parents", "hash"}
      BY <2>4 DEF PassOver, Write, Written, Parents, Adopted, Goto, Fail, WipeInv, Now,
                  Running, At, Output
    <3> QED BY <2>1, <3>1 DEF WipeInv, Now
  <2>5. CASE Validate \/ Hash \/ Truncate \/ Dump \/ Kill
    <3>1. Running' => pc' \in {"wipe", "manifest", "serials"}
      BY <2>5 DEF Validate, Hash, Truncate, Dump, Kill, Goto, Fail, Running
    <3> QED BY <3>1 DEF WipeInv, Now
  <2> QED BY <1>2, <2>2, <2>3, <2>4, <2>5 DEF Next
<1>3. CASE UNCHANGED vars
  BY <1>3 DEF vars, WipeInv, Now, Running, Here, Root
<1> QED BY <1>1, <1>2, <1>3

LEMMA PlanStep ==
  ASSUME TypeInv, PlanInv, [Next]_vars
  PROVE  PlanInv'
<1>1. CASE Load
  <2>1. CASE Running'
    <3>1. /\ plan' = HostPlan(Head(hosts), config) /\ hosts' = hosts /\ config' = config
          /\ Running
      BY <1>1, <2>1 DEF Load, Fail, Goto, Running, run, At
    <3>2. config \in Configs /\ Head(hosts) \in Hosts
      BY <3>1, HereIsRoot DEF TypeInv
    <3>3. plan' \in Seq(Planned(Head(hosts), config))
      BY <3>1, <3>2, PlanIsSound
    <3>4. Planned(Head(hosts), config)' = Planned(Head(hosts), config)
      BY <3>1
    <3> QED BY <3>3, <3>4 DEF PlanInv
  <2> QED BY <2>1 DEF PlanInv, Now
<1>2. CASE PassOver \/ Write
  <2>1. CASE Running'
    <3>1. hosts' = hosts /\ config' = config /\ plan # <<>> /\ plan' = Tail(plan) /\ Now({"write"})
      BY <1>2, <2>1 DEF PassOver, Write, Fail, Goto, Running, run, At, Now
    <3>2. plan' \in Seq(Planned(Head(hosts), config))
      BY <3>1 DEF PlanInv
    <3>3. Planned(Head(hosts), config)' = Planned(Head(hosts), config)
      BY <3>1
    <3> QED BY <3>2, <3>3 DEF PlanInv
  <2> QED BY <2>1 DEF PlanInv, Now
<1>3. CASE Next /\ ~Load /\ ~PassOver /\ ~Write
  <2>1. Running' => pc' # "write"
    BY <1>3 DEF Next, Start, Validate, Wipe, Written, Parents, Adopted, Hash, Truncate, Dump,
                Serials, Kill, At, Fail, Goto, Running
  <2> QED BY <2>1 DEF PlanInv, Now
<1>4. CASE UNCHANGED vars
  <2>1. Planned(Head(hosts), config)' = Planned(Head(hosts), config)
    BY <1>4 DEF vars
  <2> QED BY <1>4, <2>1 DEF vars, PlanInv, Now, Running
<1> QED BY <1>1, <1>2, <1>3, <1>4

LEMMA CollectorStep ==
  ASSUME TypeInv, PlanInv, CollectorInv, [Next]_vars
  PROVE  CollectorInv'
<1>1. CASE Load
  BY <1>1 DEF Load, CollectorInv, Fail, Now, Running
<1>2. CASE Write /\ Running'
  <2> DEFINE a == Head(plan)
  <2>1. /\ hosts' = hosts /\ config' = config /\ pc' = "write" /\ Now({"write"})
        /\ plan # <<>> /\ a # LeftOut
        /\ collector' = Registered(collector, a)
    BY <1>2 DEF Write, Fail, Goto, Running, run, At, Now
  <2>2. a \in Planned(Head(hosts), config)
    BY <2>1 DEF PlanInv
  <2>3. Planned(Head(hosts), config)' = Planned(Head(hosts), config)
    BY <2>1
  <2>4. \A p \in DOMAIN collector :
          collector[p].to = p /\ collector[p] \in Planned(Head(hosts), config) \ {LeftOut}
    BY <2>1 DEF CollectorInv, Now
  <2> HIDE DEF a
  <2>5. \A p \in DOMAIN collector' :
          collector'[p].to = p /\ collector'[p] \in Planned(Head(hosts), config) \ {LeftOut}
    BY <2>1, <2>2, <2>4 DEF Registered
  <2> QED BY <2>3, <2>5 DEF CollectorInv
<1>3. CASE Parents /\ Running'
  <2>1. /\ hosts' = hosts /\ config' = config /\ pc' = "parents" /\ Now({"parents"})
    BY <1>3 DEF Parents, Fail, Goto, Running, run, At, Now
  <2> DEFINE Added(a) == {ParentArtifact(a, p) : p \in Unmanaged(a, Targets(collector))}
  <2>2. PICK a \in orphans :
          collector' = [p \in DOMAIN collector \union {b.to : b \in Added(a)} |->
                         IF p \in DOMAIN collector THEN collector[p]
                         ELSE CHOOSE b \in Added(a) : b.to = p]
    BY <1>3 DEF Parents, Fail, Running
  <2> DEFINE new == Added(a)
  <2>3. collector' = [p \in DOMAIN collector \union {b.to : b \in new} |->
                       IF p \in DOMAIN collector THEN collector[p]
                       ELSE CHOOSE b \in new : b.to = p]
    BY <2>2
  <2>4. \A b \in new : IsParent(b)
    BY DEF IsParent, ParentArtifact
  <2> HIDE DEF new, Added
  <2>5. \A p \in DOMAIN collector' :
          \/ p \in DOMAIN collector /\ collector'[p] = collector[p]
          \/ collector'[p].to = p /\ IsParent(collector'[p])
    BY <2>3, <2>4
  <2>6. Planned(Head(hosts), config)' = Planned(Head(hosts), config)
    BY <2>1
  <2> QED BY <2>1, <2>5, <2>6 DEF CollectorInv, Now, IsParent
<1>4. CASE Next /\ ~Load /\ ~(Write /\ Running') /\ ~(Parents /\ Running')
  <2> DEFINE Kept == {"write", "parents", "hash", "manifest", "serials"}
  <2>1. CASE Now(Kept)'
    <3>1. /\ collector' = collector /\ hosts' = hosts /\ config' = config /\ Now(Kept)
          /\ pc' = "write" => pc = "write"
      BY <1>4, <2>1 DEF Next, Start, Validate, Wipe, PassOver, Write, Written, Parents,
                  Adopted, Hash, Truncate, Dump, Serials, Kill, At, Fail, Goto, run, Running, Now
    <3>2. Planned(Head(hosts), config)' = Planned(Head(hosts), config)
      BY <3>1
    <3> QED BY <3>1, <3>2 DEF CollectorInv, Now
  <2> QED BY <2>1 DEF CollectorInv
<1>5. CASE UNCHANGED vars
  <2>1. Planned(Head(hosts), config)' = Planned(Head(hosts), config)
    BY <1>5 DEF vars
  <2> QED BY <1>5, <2>1 DEF vars, CollectorInv, Now, Running
<1>6. CASE ~Running'
  BY <1>6 DEF CollectorInv, Now
<1> QED BY <1>1, <1>2, <1>3, <1>4, <1>5, <1>6

LEMMA FilesOfWrite ==
  ASSUME NEW tree, NEW p, NEW x
  PROVE  /\ Files(WithDirs(tree, p)) \subseteq Files(tree)
         /\ Files(WithFile(tree, p, x)) \subseteq Files(tree) \union {p}
<1>1. ASSUME NEW q PROVE Files(WithDirs(tree, q)) \subseteq Files(tree)
  BY DEF Files, WithDirs
<1>2. ASSUME NEW q \in Files(WithFile(tree, p, x)), q # p
      PROVE  q \in Files(WithDirs(tree, Front(p)))
  BY <1>2 DEF Files, WithFile
<1> QED BY <1>1, <1>2

LEMMA WrittenStep ==
  ASSUME TypeInv, WipeInv, PlanInv, WrittenInv, [Next]_vars
  PROVE  WrittenInv'
<1>1. CASE Load /\ Running'
  <2>1. Here' = Here /\ Here \in Roots
    BY <1>1, StaysHere, HereIsRoot DEF Next, Load, Start, Serials, At, Running
  <2>2. DOMAIN disk[Here] = {}
    BY <1>1 DEF Load, WipeInv, Now, Running, At
  <2>3. disk'[Here] = [p \in DOMAIN disk[Here] \union {<<"system">>, <<"software">>, <<"services">>}
                        |-> IF p \in DOMAIN disk[Here] THEN disk[Here][p] ELSE "dir"]
    BY <1>1, <2>1 DEF Load, TypeInv, Fail, Running
  <2>4. Files(disk'[Here]) = {}
    BY <2>2, <2>3 DEF Files
  <2> QED BY <2>1, <2>4 DEF WrittenInv
<1>2. CASE Write /\ Running'
  <2> DEFINE a == Head(plan)
             tree == disk[Here]
  <2>1. /\ Now({"write"}) /\ plan # <<>> /\ a # LeftOut
        /\ collector' = Registered(collector, a)
        /\ disk' = [disk EXCEPT ![Here] = IF a.is = "dir" THEN WithDirs(tree, a.to)
                                          ELSE WithFile(tree, a.to, a.is)]
    BY <1>2 DEF Write, Fail, Goto, Running, run, At, Now
  <2>2. Here' = Here /\ Here \in Roots /\ config \in Configs /\ Head(hosts) \in Hosts
    BY <1>2, StaysHere, HereIsRoot DEF Next, Write, Start, Serials, At, Running, TypeInv
  <2>3. a \in Planned(Head(hosts), config)
    BY <2>1 DEF PlanInv
  <2>4. a.register = "never" => IsSpecification(a.to)
    BY <2>1, <2>2, <2>3, PlanIsSound DEF WellPlanned
  <2> HIDE DEF a
  <2>5. DOMAIN collector \subseteq DOMAIN collector' /\ (a.to \in DOMAIN collector' \/ IsSpecification(a.to))
    BY <2>1, <2>4 DEF Registered
  <2>6. Files(disk'[Here]) \subseteq Files(tree) \union {a.to}
    <3>1. disk'[Here] = IF a.is = "dir" THEN WithDirs(tree, a.to) ELSE WithFile(tree, a.to, a.is)
      BY <2>1, <2>2 DEF TypeInv
    <3> QED BY <3>1, FilesOfWrite
  <2>7. \A p \in Files(tree) : p \in DOMAIN collector \/ IsSpecification(p)
    BY <2>1 DEF WrittenInv, Now
  <2>8. \A p \in Files(disk'[Here]) : p \in DOMAIN collector' \/ IsSpecification(p)
    BY <2>5, <2>6, <2>7
  <2> QED BY <2>2, <2>8 DEF WrittenInv
<1>3. CASE Parents /\ Running'
  <2>1. Here' = Here /\ Here \in Roots /\ Now({"parents"})
    BY <1>3, StaysHere, HereIsRoot DEF Next, Parents, Start, Serials, At, Running, Now
  <2>2. \E add :
          disk' = [disk EXCEPT ![Here] = [p \in DOMAIN @ \union add |->
                                           IF p \in DOMAIN @ THEN @[p] ELSE "dir"]]
    BY <1>3 DEF Parents, Fail, Running
  <2>3. Files(disk'[Here]) \subseteq Files(disk[Here])
    BY <2>1, <2>2 DEF TypeInv, Files
  <2>4. DOMAIN collector \subseteq DOMAIN collector'
    BY <1>3 DEF Parents, Fail, Running
  <2> QED BY <2>1, <2>3, <2>4 DEF WrittenInv, Now
<1>4. CASE Next /\ ~Load /\ ~(Write /\ Running') /\ ~(Parents /\ Running')
  <2> DEFINE Kept == {"write", "parents", "hash", "manifest"}
  <2>1. CASE Now(Kept)'
    <3>1. collector' = collector /\ hosts' = hosts /\ all' = all /\ disk' = disk /\ Now(Kept)
      BY <1>4, <2>1 DEF Next, Start, Validate, Wipe, PassOver, Write, Written, Parents, Output,
                  Adopted, Hash, Truncate, Dump, Serials, Kill, At, Fail, Goto, run, Running, Now
    <3> QED BY <3>1 DEF WrittenInv, Now, Here, Root
  <2> QED BY <2>1 DEF WrittenInv
<1>5. CASE UNCHANGED vars
  BY <1>5 DEF vars, WrittenInv, Now, Running, Here, Root
<1>6. CASE ~Running'
  BY <1>6 DEF WrittenInv, Now
<1> QED BY <1>1, <1>2, <1>3, <1>4, <1>5, <1>6

LEMMA HashedStep ==
  ASSUME HashedInv, [Next]_vars
  PROVE  HashedInv'
<1>1. CASE Hash /\ Running'
  <2>1. /\ ~Twice(collector) /\ \A a \in Artifacts(collector) : Found(disk[Here], a)
        /\ collector' = collector /\ disk' = disk /\ hosts' = hosts /\ all' = all
    BY <1>1 DEF Hash, Fail, Goto, Running, run, Output
  <2> QED BY <2>1 DEF HashedInv, Here, Root, Twice, Artifacts, Found
<1>2. CASE (Next /\ ~(Hash /\ Running')) \/ UNCHANGED vars
  <2>1. CASE Now({"manifest"})'
    <3>1. /\ Now({"manifest"}) /\ collector' = collector /\ disk' = disk /\ hosts' = hosts
          /\ all' = all
      BY <1>2, <2>1 DEF Next, Start, Validate, Wipe, Load, PassOver, Write, Written, Parents,
           Adopted, Hash, Truncate, Dump, Serials, Kill, At, Fail, Goto, run, Running, Now, vars
    <3> QED BY <3>1 DEF HashedInv, Here, Root, Twice, Artifacts, Found
  <2> QED BY <2>1 DEF HashedInv
<1>3. CASE ~Running'
  BY <1>3 DEF HashedInv, Now
<1> QED BY <1>1, <1>2, <1>3

LEMMA ExactStep ==
  ASSUME TypeInv, WipeInv, CollectorInv, WrittenInv, HashedInv, ManifestIsExact, [Next]_vars
  PROVE  ManifestIsExact'
<1> USE DEF Complete
<1>1. CASE Wipe
  <2>1. Here \in Roots
    BY <1>1, HereIsRoot DEF Wipe, At, Running
  <2>2. CASE Children(Here) = {}
    <3>1. manifest[Here] = Absent
      BY <2>2 DEF Children
    <3>2. disk' = disk /\ manifest' = manifest /\ wiping' = wiping \ {Here}
      BY <1>1, <2>2 DEF Wipe
    <3>3. ~Complete(Here)
      BY <3>1 DEF Absent
    <3> QED BY <3>2, <3>3 DEF ManifestIsExact
  <2>3. CASE Children(Here) # {}
    <3>1. PICK child \in Children(Here) :
            /\ wiping' = wiping \union {Here}
            /\ manifest' = IF child = "manifest.json"
                           THEN [manifest EXCEPT ![Here] = Absent] ELSE manifest
            /\ disk' = [disk EXCEPT ![Here] =
                         Restrict(@, {p \in DOMAIN @ : p[1] # child})]
      BY <1>1, <2>3 DEF Wipe
    <3>2. \A r \in Roots \ {Here} : disk'[r] = disk[r] /\ manifest'[r] = manifest[r]
      BY <3>1 DEF TypeInv
    <3>3. Here \in wiping' /\ wiping \subseteq wiping'
      BY <3>1
    <3> QED BY <3>2, <3>3 DEF ManifestIsExact
  <2> QED BY <2>2, <2>3
<1>2. CASE Load \/ Write \/ Parents
  <2>1. Here \in Roots /\ Now({"load", "write", "parents"})
    BY <1>2, HereIsRoot DEF Load, Write, Parents, At, Running, Now
  <2>2. ~Complete(Here) /\ manifest' = manifest /\ wiping' = wiping
    BY <1>2, <2>1 DEF Load, Write, Parents, WipeInv, Now, Absent
  <2>3. \A r \in Roots \ {Here} : disk'[r] = disk[r]
    BY <1>2, <2>1 DEF Load, Write, Parents, TypeInv
  <2> QED BY <2>1, <2>2, <2>3 DEF ManifestIsExact
<1>3. CASE Truncate
  <2>1. Here \in Roots /\ disk' = disk /\ wiping' = wiping
        /\ manifest' = [manifest EXCEPT ![Here] = Partial]
    BY <1>3, HereIsRoot DEF Truncate, At, Running
  <2>2. manifest'[Here].state = "partial" /\ \A r \in Roots \ {Here} : manifest'[r] = manifest[r]
    BY <2>1 DEF TypeInv, Partial
  <2> QED BY <2>1, <2>2 DEF ManifestIsExact
<1>4. CASE Dump
  <2> DEFINE entries == Listed(disk[Here], collector)
             tree == disk[Here]
  <2>1. /\ Here \in Roots /\ disk' = disk /\ wiping' = wiping /\ Now({"manifest"})
        /\ manifest' = [manifest EXCEPT ![Here] = [state |-> "complete", entries |-> entries]]
    BY <1>4, HereIsRoot DEF Dump, At, Running, Now
  <2>2. manifest'[Here].entries = entries /\ \A r \in Roots \ {Here} : manifest'[r] = manifest[r]
    BY <2>1 DEF TypeInv
  <2>3. /\ ~Twice(collector)
        /\ \A p \in DOMAIN collector : p \in DOMAIN tree /\ collector[p].to = p
    BY <2>1 DEF HashedInv, CollectorInv, Now, Artifacts, Found
  <2>4. \A e \in entries : \E p \in DOMAIN collector :
          /\ e = [to |-> p, target |-> collector[p].target, digest |-> tree[p],
                  hints |-> collector[p].hints]
    BY <2>3 DEF Listed, Artifacts
  <2>5. \A e, f \in entries : e.target = f.target => e = f
    BY <2>3, <2>4 DEF Twice
  <2>6. \A e \in entries : e.to \in DOMAIN tree /\ tree[e.to] = e.digest
    BY <2>3, <2>4
  <2>7. DOMAIN collector \subseteq {e.to : e \in entries}
    <3> SUFFICES ASSUME NEW p \in DOMAIN collector PROVE \E e \in entries : e.to = p
      OBVIOUS
    <3> DEFINE e == [to |-> collector[p].to, target |-> collector[p].target,
                     digest |-> tree[collector[p].to], hints |-> collector[p].hints]
    <3>1. e \in entries
      BY DEF Listed, Artifacts
    <3>2. e.to = p
      BY <2>3
    <3> QED BY <3>1, <3>2
  <2>8. Files(tree) \ Specifications(tree) \subseteq DOMAIN collector
    BY <2>1 DEF WrittenInv, Now, Specifications, IsSpecification
  <2> HIDE DEF entries
  <2> QED BY <2>1, <2>2, <2>5, <2>6, <2>7, <2>8 DEF ManifestIsExact
<1>5. CASE Next /\ ~Wipe /\ ~Load /\ ~Write /\ ~Parents /\ ~Truncate /\ ~Dump
  <2>1. disk' = disk /\ manifest' = manifest /\ wiping' = wiping
    BY <1>5 DEF Next, Start, Validate, PassOver, Written, Adopted, Hash, Serials, Kill, Output
  <2> QED BY <2>1 DEF ManifestIsExact
<1>6. CASE UNCHANGED vars
  BY <1>6 DEF vars, ManifestIsExact
<1> QED BY <1>1, <1>2, <1>3, <1>4, <1>5, <1>6

LEMMA InitOutput == Init => OutputInv
<1> SUFFICES ASSUME Init PROVE OutputInv
  OBVIOUS
<1>1. TypeInv
  <2>1. /\ config \in Configs /\ all \in BOOLEAN /\ ~Running
        /\ disk = [r \in Roots |-> <<>>] /\ manifest = [r \in Roots |-> Absent]
    BY DEF Init, Running
  <2>2. hosts \in Seq(Hosts)
    BY DEF Init
  <2> QED BY <2>1, <2>2 DEF TypeInv
<1>2. ~Running
  BY DEF Init, Running
<1>3. \A r \in Roots : ~Complete(r)
  BY DEF Init, Complete, Absent
<1> QED BY <1>1, <1>2, <1>3 DEF OutputInv, WipeInv, PlanInv, CollectorInv,
        WrittenInv, HashedInv, Now, ManifestIsExact

\* The invariant of the output, which is inductive.
THEOREM OutputHolds == Spec => []OutputInv
<1>1. OutputInv /\ [Next]_vars => OutputInv'
  BY TypeStep, WipeStep, PlanStep, CollectorStep, WrittenStep, HashedStep, ExactStep
     DEF OutputInv
<1> QED BY <1>1, InitOutput, PTL DEF Spec

\* A complete manifest lists exactly the files of its tree, whatever was killed,
\* failed or rendered there before, for any hosts, configurations and number of runs.
THEOREM ManifestsAreExact == Spec => []ManifestIsExact
<1>1. OutputInv => ManifestIsExact
  BY DEF OutputInv
<1> QED BY <1>1, OutputHolds, PTL

-----------------------------------------------------------------------------
(* Paths and owners. *)

LEMMA Smallest ==
  ASSUME NEW T \in SUBSET Nat, T # {}
  PROVE  \E x \in T : \A y \in T : x <= y
<1> DEFINE R == OpToRel(<, Nat)
<1>1. IsWellFoundedOn(R, Nat)
  BY NatLessThanWellFounded
<1>2. \A x, y \in Nat : <<y, x>> \in R <=> y < x
  BY DEF OpToRel
<1> HIDE DEF R
<1>3. PICK x \in T : \A y \in T : ~ (<<y, x>> \in R)
  BY <1>1, WFMin
<1>4. \A y \in T : ~(y < x)
  BY <1>2, <1>3
<1> QED BY <1>4

\* A directory above a path is one of its beginnings.
LEMMA AboveIs ==
  ASSUME NEW t \in Seq(Words), NEW p \in Above(t)
  PROVE  /\ p \in Seq(Words) /\ Len(p) \in Nat /\ 1 <= Len(p) /\ Len(p) < Len(t)
         /\ p = SubSeq(t, 1, Len(p)) /\ p # <<>>
<1>1. Front(t) \in Seq(Words) /\ (Len(t) > 0 => Len(Front(t)) = Len(t) - 1)
  <2>1. CASE Len(t) = 0
    <3>1. SubSeq(t, 1, Len(t) - 1) = <<>>
      BY <2>1
    <3> QED BY <2>1, <3>1 DEF Front
  <2>2. CASE Len(t) > 0
    BY <2>2 DEF Front
  <2> QED BY <2>1, <2>2
<1>2. PICK i \in 1..Len(Front(t)) : p = SubSeq(Front(t), 1, i)
  BY DEF Above, Chain
<1>3. Len(t) > 0 /\ Len(p) = i /\ i < Len(t) /\ p \in Seq(Words)
  BY <1>1, <1>2 DEF Front
<1>4. p = SubSeq(t, 1, i)
  BY <1>2, <1>3 DEF Front
<1> QED BY <1>3, <1>4

LEMMA AboveHas ==
  ASSUME NEW t \in Seq(Words), NEW n \in Nat, 1 <= n, n < Len(t)
  PROVE  SubSeq(t, 1, n) \in Above(t) /\ Len(SubSeq(t, 1, n)) = n
<1>1. Front(t) \in Seq(Words) /\ Len(Front(t)) = Len(t) - 1
  BY DEF Front
<1>2. SubSeq(t, 1, n) = SubSeq(Front(t), 1, n)
  BY <1>1 DEF Front
<1>3. n \in 1..Len(Front(t))
  BY <1>1
<1> QED BY <1>2, <1>3 DEF Above, Chain

LEMMA SameDepth ==
  ASSUME NEW t \in Seq(Words), NEW p \in Above(t), NEW q \in Above(t), Len(p) = Len(q)
  PROVE  p = q
BY AboveIs

\* What two paths share includes all that is above it.
LEMMA SharedBelow ==
  ASSUME NEW t \in Seq(Words), NEW u \in Seq(Words), NEW q \in Above(t), q \in Above(u),
         NEW r \in Above(u), Len(r) <= Len(q)
  PROVE  r \in Above(t)
<1>1. /\ Len(r) \in Nat /\ 1 <= Len(r) /\ Len(r) < Len(t) /\ Len(q) \in Nat
      /\ Len(q) < Len(t) /\ Len(q) < Len(u)
      /\ r = SubSeq(u, 1, Len(r)) /\ q = SubSeq(u, 1, Len(q)) /\ q = SubSeq(t, 1, Len(q))
  BY AboveIs
<1>2. \A i \in 1..Len(q) : u[i] = t[i]
  BY <1>1
<1>3. SubSeq(u, 1, Len(r)) = SubSeq(t, 1, Len(r))
  BY <1>1, <1>2
<1> QED BY <1>1, <1>3, AboveHas

LEMMA PrefixesGrow ==
  ASSUME NEW t \in Seq(Words), NEW r \in Above(t), NEW q \in Above(t), Len(r) <= Len(q)
  PROVE  /\ IsPrefix(r, q)
         /\ \A b : Len(b) \in Nat /\ IsPrefix(b, r) => IsPrefix(b, q)
<1>1. /\ Len(r) \in Nat /\ Len(q) \in Nat /\ Len(q) < Len(t)
      /\ r = SubSeq(t, 1, Len(r)) /\ q = SubSeq(t, 1, Len(q))
      /\ r \in Seq(Words) /\ q \in Seq(Words)
  BY AboveIs
<1>2. \A n \in Nat : n <= Len(r) => SubSeq(r, 1, n) = SubSeq(q, 1, n)
  BY <1>1
<1> QED BY <1>1, <1>2 DEF IsPrefix

LEMMA Deepest ==
  ASSUME NEW t \in Seq(Words), NEW S, S \subseteq Above(t), S # {}
  PROVE  \E q \in S : \A r \in S : Len(r) <= Len(q)
<1> DEFINE T == {Len(t) - Len(q) : q \in S}
<1>1. \A q \in S : Len(q) \in Nat /\ Len(q) < Len(t)
  BY AboveIs
<1>2. T \in SUBSET Nat /\ T # {}
  BY <1>1
<1>3. PICK x \in T : \A y \in T : x <= y
  <2> HIDE DEF T
  <2> QED BY <1>2, Smallest
<1>4. PICK q \in S : x = Len(t) - Len(q)
  BY <1>3
<1>5. ASSUME NEW r \in S PROVE Len(r) <= Len(q)
  <2>1. Len(t) - Len(q) <= Len(t) - Len(r)
    BY <1>3, <1>4
  <2> QED BY <1>1, <2>1
<1> QED BY <1>5

LEMMA HomeOfKeys ==
  ASSUME NEW home \in Seq(STRING)
  PROVE  Front(Front(home \o <<".ssh", "authorized_keys">>)) = home
<1> DEFINE t == home \o <<".ssh", "authorized_keys">>
<1>1. home \in Seq(Words) /\ <<".ssh", "authorized_keys">> \in Seq(Words)
  BY Elements DEF Words
<1>2. t \in Seq(Words) /\ Len(t) = Len(home) + 2 /\ \A i \in 1..Len(home) : t[i] = home[i]
  BY <1>1
<1> HIDE DEF t
<1>3. Front(t) \in Seq(Words) /\ Len(Front(t)) = Len(home) + 1
      /\ \A i \in 1..Len(home) : Front(t)[i] = home[i]
  BY <1>1, <1>2 DEF Front
<1>4. Front(Front(t)) \in Seq(Words) /\ Len(Front(Front(t))) = Len(home)
      /\ \A i \in 1..Len(home) : Front(Front(t))[i] = home[i]
  BY <1>1, <1>3 DEF Front
<1>5. Front(Front(t)) = home
  BY <1>1, <1>4
<1> QED BY <1>5 DEF t

\* What is planned for one account is looked for below one home.
LEMMA OneHome ==
  ASSUME NEW c \in Configs, NEW h \in Hosts, NEW a, NEW b,
         WellPlanned(h, c, a), WellPlanned(h, c, b)
  PROVE  /\ Owned(a) => a.user # RootOwned
         /\ ~Owned(a) => Boundary(a) = <<>>
         /\ Owned(a) /\ Owned(b) /\ a.user = b.user => Boundary(a) = Boundary(b)
         /\ Len(Boundary(a)) \in Nat
<1> DEFINE K == "host.authorized_keys"
<1>1. ASSUME NEW x, WellPlanned(h, c, x), x.kind = K
      PROVE  \E i \in DOMAIN c.keys[h] :
               /\ x.user = c.keys[h][i].user /\ Boundary(x) = c.keys[h][i].home
               /\ c.keys[h][i].home \in Seq(STRING)
  <2>1. PICK i \in DOMAIN c.keys[h] :
               /\ x.user = c.keys[h][i].user
               /\ x.target = c.keys[h][i].home \o <<".ssh", "authorized_keys">>
    BY <1>1 DEF WellPlanned
  <2>2. c.keys[h] \in Seq([user : STRING, home : Seq(STRING)])
    BY ConfigsAssumption
  <2>3. c.keys[h][i] \in [user : STRING, home : Seq(STRING)]
    BY <2>2, Elements
  <2>4. Boundary(x) = Front(Front(x.target))
    BY <1>1 DEF Boundary
  <2> QED BY <2>1, <2>3, <2>4, HomeOfKeys
<1>2. ASSUME NEW x, WellPlanned(h, c, x), x.kind # K, Owned(x)
      PROVE  /\ x.user # "root" /\ Boundary(x) = <<"home", x.user>>
             /\ \E j \in DOMAIN c.services[h] : x.user = c.services[h][j].user
  BY <1>2 DEF WellPlanned, Owned, Boundary
<1>3. ~Owned(a) => Boundary(a) = <<>>
  BY DEF Owned, Boundary
<1>4. Owned(a) => a.user # RootOwned /\ Len(Boundary(a)) \in Nat
  <2>1. CASE a.kind = K
    BY <1>1, <2>1, HomesAssumption
  <2>2. CASE Owned(a) /\ a.kind # K
    BY <1>2, <2>2, HomesAssumption
  <2> QED BY <2>1, <2>2
<1>5. ASSUME NEW x, NEW y, WellPlanned(h, c, x), WellPlanned(h, c, y), Owned(y),
             x.user = y.user, x.kind = K
      PROVE  Boundary(x) = Boundary(y)
  <2>1. PICK i \in DOMAIN c.keys[h] : x.user = c.keys[h][i].user /\ Boundary(x) = c.keys[h][i].home
    BY <1>1, <1>5
  <2>2. CASE y.kind = K
    <3>1. PICK j \in DOMAIN c.keys[h] : y.user = c.keys[h][j].user /\ Boundary(y) = c.keys[h][j].home
      BY <1>1, <1>5, <2>2
    <3> QED BY <1>5, <2>1, <3>1, HomesAssumption
  <2>3. CASE y.kind # K
    <3>1. PICK j \in DOMAIN c.services[h] : y.user = c.services[h][j].user
      BY <1>2, <1>5, <2>3
    <3>2. y.user # "root" /\ Boundary(y) = <<"home", y.user>>
      BY <1>2, <1>5, <2>3
    <3> QED BY <1>5, <2>1, <3>1, <3>2, HomesAssumption
  <2> QED BY <2>2, <2>3
<1>6. ASSUME Owned(a), Owned(b), a.user = b.user PROVE Boundary(a) = Boundary(b)
  <2>1. CASE a.kind = K
    BY <1>5, <1>6, <2>1
  <2>2. CASE b.kind = K
    BY <1>5, <1>6, <2>2
  <2>3. CASE a.kind # K /\ b.kind # K
    BY <1>2, <1>6, <2>3
  <2> QED BY <2>1, <2>2, <2>3
<1>7. Len(<<>>) \in Nat
  OBVIOUS
<1> QED BY <1>3, <1>4, <1>6, <1>7

-----------------------------------------------------------------------------
(* Parent directories. *)

LEMMA UnmanagedIs ==
  ASSUME NEW a, a.target \in Seq(Words), NEW D, NEW p \in Unmanaged(a, D)
  PROVE  /\ p \in Above(a.target)
         /\ \A q \in Above(a.target) : Len(q) >= Len(p) =>
              q \notin D /\ q \notin Stops /\ q # Boundary(a)
         /\ p \notin D
<1>1. Len(p) \in Nat /\ p \in Above(a.target)
  BY AboveIs DEF Unmanaged
<1> QED BY <1>1 DEF Unmanaged

\* The metadata of a directory strictly above another one that a file needs.
LEMMA HintsAre ==
  ASSUME NEW a, NEW p
  PROVE  /\ IsPrefix(Boundary(a), p) /\ Owned(a) => ParentHints(a, p) = a.user
         /\ ~Owned(a) => ParentHints(a, p) = RootOwned
         /\ p # Front(a.target) /\ ~IsPrefix(Boundary(a), p) => ParentHints(a, p) = RootOwned
BY DEF ParentHints, Owned

\* Two files whose walks meet in one directory, with the same metadata, need the
\* same directories above it, with the same metadata.
LEMMA WalksAgree ==
  ASSUME NEW c \in Configs, NEW h \in Hosts, NEW a, NEW b,
         WellPlanned(h, c, a), WellPlanned(h, c, b), NEW D,
         NEW top \in Unmanaged(b, D), top \in Above(a.target),
         NEW p \in Unmanaged(a, D), Len(p) < Len(top),
         ParentHints(a, top) = ParentHints(b, top)
  PROVE  p \in Unmanaged(b, D) /\ ParentHints(a, p) = ParentHints(b, p)
<1>1. a.target \in Seq(Words) /\ b.target \in Seq(Words)
  BY DEF WellPlanned
<1>2. p \in Above(a.target) /\ top \in Above(b.target)
  BY <1>1, UnmanagedIs
<1>3. /\ Len(p) \in Nat /\ Len(top) \in Nat /\ Len(top) < Len(a.target)
      /\ Len(top) < Len(b.target) /\ p # <<>>
  BY <1>1, <1>2, AboveIs
<1>4. p \in Above(b.target)
  BY <1>1, <1>2, <1>3, SharedBelow
<1>5. /\ Owned(a) => a.user # RootOwned
      /\ Owned(b) => b.user # RootOwned
      /\ ~Owned(a) => Boundary(a) = <<>>
      /\ ~Owned(b) => Boundary(b) = <<>>
      /\ Owned(a) /\ Owned(b) /\ a.user = b.user => Boundary(a) = Boundary(b)
      /\ Len(Boundary(a)) \in Nat /\ Len(Boundary(b)) \in Nat
  BY OneHome
<1>6. ASSUME NEW r \in Above(b.target), Len(r) >= Len(p)
      PROVE  r \notin D /\ r \notin Stops /\ r # Boundary(b)
  <2>1. Len(r) \in Nat /\ r # <<>>
    BY <1>1, AboveIs
  <2>2. CASE Len(r) >= Len(top)
    BY <1>1, <2>2, UnmanagedIs
  <2>3. CASE Len(r) < Len(top)
    <3>1. r \in Above(a.target)
      BY <1>1, <1>2, <1>3, <2>1, <2>3, SharedBelow
    <3>2. r \notin D /\ r \notin Stops /\ r # Boundary(a)
      BY <1>1, <1>6, <3>1, UnmanagedIs
    <3>3. ASSUME r = Boundary(b) PROVE FALSE
      <4>1. Owned(b) /\ IsPrefix(Boundary(b), top)
        BY <1>1, <1>2, <1>3, <1>5, <2>1, <2>3, <3>3, PrefixesGrow
      <4>2. ParentHints(a, top) = b.user
        BY <4>1, HintsAre
      <4>3. Owned(a) /\ a.user = b.user
        BY <1>5, <4>1, <4>2, HintsAre DEF ParentHints, Owned
      <4> QED BY <1>5, <3>2, <3>3, <4>1, <4>3
    <3> QED BY <3>2, <3>3
  <2> QED BY <1>3, <2>1, <2>2, <2>3
<1>7. p \in Unmanaged(b, D)
  BY <1>4, <1>6 DEF Unmanaged
<1>8. p # Front(a.target) /\ p # Front(b.target)
  <2>1. ASSUME NEW t \in Seq(Words), Len(top) < Len(t) PROVE p # Front(t)
    BY <1>3, <2>1 DEF Front
  <2> QED BY <1>1, <1>3, <2>1
<1>9. ASSUME NEW x, NEW y, Owned(x), IsPrefix(Boundary(x), p), x \in {a, b}, y \in {a, b}
      PROVE  ParentHints(y, p) = x.user
  <2>1. IsPrefix(Boundary(x), top)
    BY <1>1, <1>2, <1>3, <1>4, <1>5, <1>9, PrefixesGrow
  <2>2. ParentHints(y, top) = x.user
    BY <1>9, <2>1, HintsAre
  <2>3. Owned(y) /\ y.user = x.user
    BY <1>5, <1>9, <2>2 DEF ParentHints, Owned
  <2>4. Boundary(x) = Boundary(y)
    BY <1>5, <1>9, <2>3
  <2> QED BY <1>9, <2>3, <2>4, HintsAre
<1>10. ParentHints(a, p) = ParentHints(b, p)
  <2>1. CASE Owned(a) /\ IsPrefix(Boundary(a), p)
    BY <1>9, <2>1
  <2>2. CASE Owned(b) /\ IsPrefix(Boundary(b), p)
    BY <1>9, <2>2
  <2>3. CASE ~(Owned(a) /\ IsPrefix(Boundary(a), p)) /\ ~(Owned(b) /\ IsPrefix(Boundary(b), p))
    BY <1>8, <2>3, HintsAre
  <2> QED BY <2>1, <2>2, <2>3
<1> QED BY <1>7, <1>10

LEMMA AddedArtifacts ==
  ASSUME NEW c, NEW new, \A b \in new : b.to \notin DOMAIN c,
         \A b, d \in new : b.to = d.to => b = d,
         NEW c2,
         c2 = [p \in DOMAIN c \union {b.to : b \in new} |->
                IF p \in DOMAIN c THEN c[p] ELSE CHOOSE b \in new : b.to = p]
  PROVE  Artifacts(c2) = Artifacts(c) \union new
<1>1. ASSUME NEW b \in new PROVE b.to \in DOMAIN c2 /\ c2[b.to] = b
  <2>1. (CHOOSE d \in new : d.to = b.to) = b
    OBVIOUS
  <2> QED BY <2>1
<1>2. \A p \in DOMAIN c : p \in DOMAIN c2 /\ c2[p] = c[p]
  OBVIOUS
<1>3. \A p \in DOMAIN c2 : p \in DOMAIN c \/ \E b \in new : p = b.to
  OBVIOUS
<1> QED BY <1>1, <1>2, <1>3 DEF Artifacts

LEMMA ParentsDiffer ==
  ASSUME NEW p \in Seq(Words), NEW q \in Seq(Words),
         <<"system", "parents">> \o p = <<"system", "parents">> \o q
  PROVE  p = q
<1> DEFINE s == <<"system", "parents">> \o p
           t == <<"system", "parents">> \o q
<1>1. Len(s) = 2 + Len(p) /\ Len(t) = 2 + Len(q)
  OBVIOUS
<1>2. /\ \A i \in 1..Len(p) : s[i + 2] = p[i]
      /\ \A i \in 1..Len(q) : t[i + 2] = q[i]
  OBVIOUS
<1>3. Len(p) = Len(q)
  BY <1>1
<1>4. \A i \in 1..Len(p) : p[i] = q[i]
  BY <1>2, <1>3
<1> QED BY <1>3, <1>4

\* The collector holds what was planned for this host, and parents.
LEMMA OrphansArePlanned ==
  ASSUME TypeInv, CollectorInv, Now({"parents", "hash", "manifest", "serials"})
  PROVE  /\ config \in Configs /\ Head(hosts) \in Hosts
         /\ \A a \in Declared : WellPlanned(Head(hosts), config, a)
         /\ \A b \in Parented : b.is = "dir"
<1>1. config \in Configs /\ Head(hosts) \in Hosts
  BY HereIsRoot DEF TypeInv, Now
<1>2. \A a \in Artifacts(collector) :
        \/ a \in Planned(Head(hosts), config) \ {LeftOut}
        \/ IsParent(a)
  BY DEF CollectorInv, Now, Artifacts
<1>3. \A a \in Planned(Head(hosts), config) \ {LeftOut} : WellPlanned(Head(hosts), config, a)
  BY <1>1, PlanIsSound
<1>4. \A a \in Planned(Head(hosts), config) \ {LeftOut} : a.kind # ParentKind
  BY <1>3 DEF WellPlanned, ParentKind
<1> QED BY <1>1, <1>2, <1>3, <1>4 DEF Declared, Parented, IsParent

LEMMA ParentsStep ==
  ASSUME TypeInv, CollectorInv, ParentInv, Parents, Running'
  PROVE  ParentInv'
<1>1. Now({"parents"}) /\ pc' = "parents"
  BY DEF Parents, Fail, Goto, Running, Now, At
<1> DEFINE T == Targets(collector)
           Added(a) == {ParentArtifact(a, p) : p \in Unmanaged(a, T)}
           h == Head(hosts)
<1>2. PICK a \in orphans :
        /\ ~Conflict(a, collector) /\ \A b \in Added(a) : ~Refused(b)
        /\ collector' = [p \in DOMAIN collector \union {b.to : b \in Added(a)} |->
                          IF p \in DOMAIN collector THEN collector[p]
                          ELSE CHOOSE b \in Added(a) : b.to = p]
        /\ orphans' = orphans \ {a}
  BY DEF Parents, Fail, Running
<1>3. /\ orphans \subseteq Orphans
      /\ {b.target : b \in Parented} = UNION {Unmanaged(d, Wanted) : d \in Orphans \ orphans}
      /\ \A d \in Orphans \ orphans : \A b \in Parented :
           b.target \in Unmanaged(d, Wanted) => b.hints = ParentHints(d, b.target)
  BY <1>1 DEF ParentInv, Now
<1>4. /\ config \in Configs /\ h \in Hosts
      /\ \A d \in Declared : WellPlanned(h, config, d)
      /\ \A b \in Parented : b.is = "dir"
  BY <1>1, OrphansArePlanned DEF Now
<1>5. \A d \in Orphans : WellPlanned(h, config, d) /\ d.target \in Seq(Words)
  BY <1>4 DEF Orphans, WellPlanned
<1>6. a \in Orphans /\ a.target \in Seq(Words)
  BY <1>3, <1>5
<1> DEFINE new == Added(a)
<1>7. \A b \in new : /\ b.kind = ParentKind /\ b.is = "dir" /\ b.register = "once"
                     /\ b.target \in Unmanaged(a, T) /\ b.hints = ParentHints(a, b.target)
                     /\ b.to = <<"system", "parents">> \o b.target
                     /\ b = ParentArtifact(a, b.target)
  BY DEF ParentArtifact
<1>8. ASSUME NEW p \in Unmanaged(a, T) PROVE \E b \in new : b.target = p
  <2>1. ParentArtifact(a, p) \in new /\ ParentArtifact(a, p).target = p
    BY DEF ParentArtifact
  <2> QED BY <2>1
<1>9. \A b \in new : b.to \notin DOMAIN collector
  BY <1>2, <1>7 DEF Refused
<1>10. \A b, d \in new : b.to = d.to => b = d
  <2> SUFFICES ASSUME NEW b \in new, NEW d \in new, b.to = d.to PROVE b.target = d.target
    BY <1>7
  <2>1. b.target \in Seq(Words) /\ d.target \in Seq(Words)
    BY <1>6, <1>7, UnmanagedIs, AboveIs
  <2> QED BY <1>7, <2>1, ParentsDiffer
<1> HIDE DEF new
<1>11. Artifacts(collector') = Artifacts(collector) \union new
  BY <1>2, <1>9, <1>10, AddedArtifacts DEF new
<1>12. /\ Declared' = Declared /\ Parented' = Parented \union new
       /\ Orphans' = Orphans /\ Wanted' = Wanted
  <2>1. Declared' = Declared
    BY <1>7, <1>11 DEF Declared
  <2>2. Parented' = Parented \union new
    BY <1>7, <1>11 DEF Parented
  <2> QED BY <2>1, <2>2 DEF Orphans, Wanted
<1> DEFINE P == {b.target : b \in Parented}
<1>13. T = Wanted \union P
  BY DEF Targets, Wanted, Declared, Parented
<1> HIDE DEF T
<1>14. Unmanaged(a, T) \subseteq Unmanaged(a, Wanted)
  BY <1>13 DEF Unmanaged
\* What the walk of a does not come to is there already, as a wants it.
<1>15. ASSUME NEW p \in Unmanaged(a, Wanted), p \notin Unmanaged(a, T)
       PROVE  \E d \in Orphans \ orphans :
                p \in Unmanaged(d, Wanted) /\ ParentHints(a, p) = ParentHints(d, p)
  <2> DEFINE Above_(q) == Len(q) >= Len(p)
             Met == {q \in Above(a.target) \intersect T : Above_(q)}
  <2>1. /\ p \in Above(a.target)
        /\ \A q \in Above(a.target) : Above_(q) =>
             q \notin Wanted /\ q \notin Stops /\ q # Boundary(a)
    BY <1>6, UnmanagedIs
  <2>2. Met # {}
    BY <1>15, <2>1 DEF Unmanaged
  <2>3. PICK top \in Met : \A r \in Met : Len(r) <= Len(top)
    <3>1. Met \subseteq Above(a.target)
      OBVIOUS
    <3> HIDE DEF Met
    <3> QED BY <1>6, <2>2, <3>1, Deepest
  <2>4. top \in Above(a.target) /\ top \in P /\ Len(top) >= Len(p)
    BY <1>13, <2>1
  <2>5. Len(p) \in Nat /\ Len(top) \in Nat /\ \A r \in Above(a.target) : Len(r) \in Nat
    BY <1>6, <2>1, <2>4, AboveIs
  <2>6. top \in Meets(a, T)
    <3>1. ASSUME NEW q \in Above(a.target), Len(q) > Len(top) PROVE q \notin T
      BY <2>3, <2>4, <2>5, <3>1
    <3>2. ASSUME NEW q \in Above(a.target), Len(q) >= Len(top)
          PROVE q \notin Stops \union {Boundary(a)}
      BY <2>1, <2>4, <2>5, <3>2
    <3> QED BY <2>3, <3>1, <3>2 DEF Meets
  <2>7. PICK b \in Parented : b.target = top
    BY <2>4
  <2>8. b.hints = ParentHints(a, top)
    <3>1. b \in Artifacts(collector) /\ b.kind = ParentKind
      BY DEF Parented
    <3> QED BY <1>2, <2>6, <2>7, <3>1 DEF Conflict, T
  <2>9. PICK d \in Orphans \ orphans : top \in Unmanaged(d, Wanted)
    BY <1>3, <2>4
  <2>10. ParentHints(a, top) = ParentHints(d, top)
    BY <1>3, <2>7, <2>8, <2>9
  <2>11. CASE Len(p) = Len(top)
    <3>1. p = top
      BY <1>6, <2>1, <2>4, <2>11, SameDepth
    <3> QED BY <2>9, <2>10, <3>1
  <2>12. CASE Len(p) < Len(top)
    <3>1. WellPlanned(h, config, a) /\ WellPlanned(h, config, d)
      BY <1>5, <1>6, <2>9
    <3> HIDE DEF h
    <3>2. p \in Unmanaged(d, Wanted) /\ ParentHints(a, p) = ParentHints(d, p)
      BY <1>4, <2>4, <2>9, <2>10, <2>12, <3>1, WalksAgree
    <3> QED BY <2>9, <3>2
  <2> QED BY <2>4, <2>5, <2>11, <2>12
<1>16. Orphans \ orphans' = (Orphans \ orphans) \union {a}
  BY <1>2, <1>6
<1>17. {b.target : b \in Parented \union new} = P \union Unmanaged(a, T)
  BY <1>7, <1>8
<1>18. P \union Unmanaged(a, T) = UNION {Unmanaged(d, Wanted) : d \in Orphans \ orphans'}
  <2>1. UNION {Unmanaged(d, Wanted) : d \in Orphans \ orphans'} = P \union Unmanaged(a, Wanted)
    BY <1>3, <1>16
  <2>2. Unmanaged(a, Wanted) \subseteq P \union Unmanaged(a, T)
    BY <1>3, <1>15
  <2> QED BY <1>14, <2>1, <2>2
<1>19. ASSUME NEW d \in Orphans \ orphans', NEW b \in Parented \union new,
              b.target \in Unmanaged(d, Wanted)
       PROVE  b.hints = ParentHints(d, b.target)
  <2>1. CASE b \in new
    <3>1. b.target \in Unmanaged(a, T)
      BY <1>7, <2>1
    <3>2. b.target \notin P
      BY <1>6, <1>13, <3>1, UnmanagedIs
    <3>3. d = a
      BY <1>3, <1>16, <1>19, <3>2
    <3> QED BY <1>7, <2>1, <3>3
  <2>2. CASE b \in Parented /\ d # a
    BY <1>3, <1>16, <1>19, <2>2
  <2>3. CASE b \in Parented /\ d = a
    <3>1. b.target \notin Unmanaged(a, T)
      BY <1>6, <1>13, <2>3, UnmanagedIs
    <3>2. PICK e \in Orphans \ orphans :
            b.target \in Unmanaged(e, Wanted) /\ ParentHints(a, b.target) = ParentHints(e, b.target)
      BY <1>15, <1>19, <2>3, <3>1
    <3> QED BY <1>3, <2>3, <3>2
  <2> QED BY <1>19, <2>1, <2>2, <2>3
<1>20. orphans' \subseteq Orphans
  BY <1>2, <1>3
<1> QED BY <1>1, <1>12, <1>17, <1>18, <1>19, <1>20 DEF ParentInv

LEMMA ParentInvStep ==
  ASSUME TypeInv, CollectorInv, ParentInv, [Next]_vars
  PROVE  ParentInv'
<1> DEFINE Kept == {"parents", "hash", "manifest", "serials"}
<1>1. CASE Written
  <2>1. /\ orphans' = {a \in Artifacts(collector) : a.is # "dir"} /\ collector' = collector
        /\ Now({"write"}) /\ pc' = "parents"
    BY <1>1 DEF Written, At, Goto, Now, Running
  <2>2. config \in Configs /\ Head(hosts) \in Hosts
    BY <2>1, HereIsRoot DEF TypeInv, Now
  <2>3. \A a \in Artifacts(collector) : a \in Planned(Head(hosts), config) \ {LeftOut}
    BY <2>1 DEF CollectorInv, Now, Artifacts
  <2>4. \A a \in Artifacts(collector) : a.kind # ParentKind
    BY <2>2, <2>3, PlanIsSound DEF WellPlanned, ParentKind
  <2>5. Orphans' = orphans' /\ Parented' = {}
    BY <2>1, <2>4 DEF Orphans, Parented, Declared
  <2> QED BY <2>1, <2>5 DEF ParentInv
<1>2. CASE Parents /\ Running'
  BY <1>2, ParentsStep
<1>3. CASE (Next /\ ~Written /\ ~(Parents /\ Running')) \/ UNCHANGED vars
  <2>1. CASE Now(Kept)'
    <3>1. /\ collector' = collector /\ orphans' = orphans /\ Now(Kept)
          /\ pc' # "parents" /\ pc = "parents" => orphans = {}
      BY <1>3, <2>1 DEF Next, Start, Validate, Wipe, Load, PassOver, Write, Parents, Adopted,
                  Hash, Truncate, Dump, Serials, Kill, At, Fail, Goto, Running, Now, vars
    <3> QED BY <3>1 DEF ParentInv, Now, Orphans, Parented, Declared, Wanted
  <2> QED BY <2>1 DEF ParentInv
<1>4. CASE ~Running'
  BY <1>4 DEF ParentInv, Now
<1> QED BY <1>1, <1>2, <1>3, <1>4

LEMMA ManagedLemma ==
  ASSUME TypeInv, CollectorInv, ParentInv
  PROVE  ParentsAreManaged
<1> SUFFICES ASSUME Adopting PROVE ParentsAreManaged
  BY DEF ParentsAreManaged
<1>1. Now({"parents", "hash", "manifest", "serials"}) /\ pc # "parents"
  BY DEF Adopting, Now, Running
<1>2. /\ Parented = {a \in Artifacts(collector) : a.kind = ParentKind}
      /\ Orphans = {a \in Declared : a.is # "dir"} /\ Wanted = {a.target : a \in Declared}
  BY DEF Parented, Orphans, Wanted
<1>3. /\ {b.target : b \in Parented} = UNION {Unmanaged(a, Wanted) : a \in Orphans}
      /\ \A a \in Orphans : \A b \in Parented :
           b.target \in Unmanaged(a, Wanted) => b.hints = ParentHints(a, b.target)
  BY <1>1 DEF ParentInv
<1>4. \A a \in Orphans : a.target \in Seq(Words)
  BY <1>1, OrphansArePlanned DEF Orphans, WellPlanned
<1>5. {b.target : b \in Parented} \intersect Wanted = {}
  BY <1>3, <1>4, UnmanagedIs
<1>6. ASSUME NEW a \in Orphans
      PROVE  Front(a.target) \in
               Stops \union {Boundary(a)} \union {b.target : b \in Artifacts(collector)}
  <2> DEFINE f == Front(a.target)
             t == a.target
  <2>1. t \in Seq(Words)
    BY <1>4
  <2>2. CASE Len(t) <= 1
    <3>1. SubSeq(t, 1, Len(t) - 1) = <<>>
      BY <2>1, <2>2
    <3> QED BY <3>1 DEF Front, Stops
  <2>3. CASE Len(t) > 1
    <3>1. f \in Above(t) /\ Len(f) = Len(t) - 1
      BY <2>1, <2>3, AboveHas DEF Front
    <3>2. ASSUME NEW q \in Above(t), Len(q) >= Len(f) PROVE q = f
      <4>1. Len(q) = Len(f)
        BY <2>1, <3>1, <3>2, AboveIs
      <4> QED BY <2>1, <3>1, <4>1, SameDepth
    <3>3. CASE f \notin Wanted \union Stops \union {Boundary(a)}
      <4>1. f \in Unmanaged(a, Wanted)
        BY <3>1, <3>2, <3>3 DEF Unmanaged
      <4>2. f \in {b.target : b \in Parented}
        BY <1>3, <4>1
      <4> QED BY <1>2, <4>2
    <3>4. Wanted \subseteq {b.target : b \in Artifacts(collector)}
      BY DEF Wanted, Declared
    <3> QED BY <3>3, <3>4
  <2> QED BY <2>1, <2>2, <2>3
<1> QED BY <1>2, <1>3, <1>5, <1>6 DEF ParentsAreManaged

\* Once parents are registered every file lies in a managed directory or below one
\* that is there anyway, and the directories added, with their metadata, depend on
\* the files and not on the order in which the code took them.
THEOREM ParentsAreRegistered == Spec => []ParentsAreManaged
<1>1. Init => ParentInv
  BY DEF Init, ParentInv, Now, Running
<1>2. OutputInv /\ ParentInv /\ [Next]_vars => ParentInv'
  BY ParentInvStep DEF OutputInv
<1>3. OutputInv /\ ParentInv => ParentsAreManaged
  BY ManagedLemma DEF OutputInv
<1> QED BY <1>1, <1>2, <1>3, OutputHolds, PTL DEF Spec

-----------------------------------------------------------------------------
(* What a host is told. *)

Places(list) == {list[i].to : i \in {i \in DOMAIN list : Speaks(list[i])}}

NetworkdPlaces ==
  {x \in {<<"system">> \o d : d \in Seq(STRING)} : IsStrictPrefix(NetworkdDir, Tail(x))}
OtherPlaces ==
  {x \in {<<"system">> \o d : d \in Seq(STRING)} : ~IsStrictPrefix(NetworkdDir, Tail(x))}

LEMMA JoinIs ==
  ASSUME NEW S, NEW s \in Seq(S), NEW t \in Seq(S),
         NEW m \in Nat, m = Len(s), NEW n \in Nat, n = Len(t), NEW u, u = s \o t
  PROVE  /\ u \in Seq(S) /\ DOMAIN s = 1..m /\ DOMAIN t = 1..n /\ DOMAIN u = 1..(m + n)
         /\ \A i \in 1..m : u[i] = s[i]
         /\ \A i \in 1..n : u[m + i] = t[i]
<1>1. DOMAIN s = 1..m /\ DOMAIN t = 1..n
  OBVIOUS
<1>2. u \in Seq(S) /\ Len(u) = m + n
  OBVIOUS
<1>3. \A i \in 1..m : u[i] = s[i]
  OBVIOUS
<1>4. \A i \in 1..n : u[m + i] = t[i]
  OBVIOUS
<1> QED BY <1>1, <1>2, <1>3, <1>4

\* In force of two lists, one after the other: what the second says, and what it leaves
\* of the first.
LEMMA ForceJoined ==
  ASSUME NEW S, NEW s \in Seq(S), NEW t \in Seq(S)
  PROVE  /\ InForce(s \o t) = InForce(t) \union {a \in InForce(s) : a.to \notin Places(t)}
         /\ Places(s \o t) = Places(s) \union Places(t)
<1>1. PICK u : u = s \o t
  OBVIOUS
<1>2. PICK m \in Nat : m = Len(s)
  OBVIOUS
<1>3. PICK n \in Nat : n = Len(t)
  OBVIOUS
<1>4. /\ DOMAIN s = 1..m /\ DOMAIN t = 1..n /\ DOMAIN u = 1..(m + n)
      /\ \A i \in 1..m : u[i] = s[i]
      /\ \A i \in 1..n : u[m + i] = t[i]
  BY <1>1, <1>2, <1>3, JoinIs
<1>5. ASSUME NEW i \in 1..(m + n)
      PROVE  i \in 1..m \/ \E k \in 1..n : i = m + k
  <2>1. CASE i > m
    <3>1. i - m \in 1..n /\ i = m + (i - m)
      BY <2>1
    <3> QED BY <3>1
  <2> QED BY <2>1
<1>6. Places(u) = Places(s) \union Places(t)
  <2>1. ASSUME NEW i \in DOMAIN u, Speaks(u[i]) PROVE u[i].to \in Places(s) \union Places(t)
    <3>1. CASE i \in 1..m
      BY <1>4, <2>1, <3>1 DEF Places
    <3>2. CASE \E k \in 1..n : i = m + k
      BY <1>4, <2>1, <3>2 DEF Places
    <3> QED BY <1>4, <1>5, <3>1, <3>2
  <2>2. ASSUME NEW i \in DOMAIN s, Speaks(s[i]) PROVE s[i].to \in Places(u)
    <3>1. i \in DOMAIN u /\ u[i] = s[i]
      BY <1>4
    <3> QED BY <2>2, <3>1 DEF Places
  <2>3. ASSUME NEW i \in DOMAIN t, Speaks(t[i]) PROVE t[i].to \in Places(u)
    <3>1. m + i \in DOMAIN u /\ u[m + i] = t[i]
      BY <1>4
    <3> QED BY <2>3, <3>1 DEF Places
  <2> QED BY <2>1, <2>2, <2>3 DEF Places
<1> DEFINE LastAt(list, i) ==
      /\ Speaks(list[i])
      /\ \A j \in DOMAIN list : j > i /\ Speaks(list[j]) => list[j].to # list[i].to
<1>7. ASSUME NEW i \in 1..m
      PROVE  LastAt(u, i) <=> LastAt(s, i) /\ s[i].to \notin Places(t)
  <2>1. u[i] = s[i]
    BY <1>4
  <2>2. ASSUME LastAt(u, i) PROVE LastAt(s, i) /\ s[i].to \notin Places(t)
    <3>1. ASSUME NEW j \in DOMAIN s, j > i, Speaks(s[j]) PROVE s[j].to # s[i].to
      <4>1. j \in DOMAIN u /\ u[j] = s[j]
        BY <1>4
      <4> QED BY <2>1, <2>2, <3>1, <4>1
    <3>2. ASSUME NEW j \in DOMAIN t, Speaks(t[j]) PROVE t[j].to # s[i].to
      <4>1. m + j \in DOMAIN u /\ u[m + j] = t[j] /\ m + j > i
        BY <1>4
      <4> QED BY <2>1, <2>2, <3>2, <4>1
    <3> QED BY <2>1, <2>2, <3>1, <3>2 DEF Places
  <2>3. ASSUME LastAt(s, i), s[i].to \notin Places(t) PROVE LastAt(u, i)
    <3> SUFFICES ASSUME NEW j \in DOMAIN u, j > i, Speaks(u[j]) PROVE u[j].to # u[i].to
      BY <2>1, <2>3
    <3>1. CASE j \in 1..m
      <4>1. j \in DOMAIN s /\ u[j] = s[j]
        BY <1>4, <3>1
      <4> QED BY <2>1, <2>3, <4>1
    <3>2. CASE \E k \in 1..n : j = m + k
      <4>1. PICK k \in DOMAIN t : u[j] = t[k]
        BY <1>4, <3>2
      <4>2. u[j].to \in Places(t)
        BY <4>1 DEF Places
      <4> QED BY <2>1, <2>3, <4>2
    <3> QED BY <1>4, <1>5, <3>1, <3>2
  <2> QED BY <2>2, <2>3
<1>8. ASSUME NEW i \in 1..n
      PROVE  LastAt(u, m + i) <=> LastAt(t, i)
  <2>1. u[m + i] = t[i]
    BY <1>4
  <2>2. ASSUME LastAt(u, m + i) PROVE LastAt(t, i)
    <3> SUFFICES ASSUME NEW j \in DOMAIN t, j > i, Speaks(t[j]) PROVE t[j].to # t[i].to
      BY <2>1, <2>2
    <3>1. m + j \in DOMAIN u /\ u[m + j] = t[j] /\ m + j > m + i
      BY <1>4
    <3> QED BY <2>1, <2>2, <3>1
  <2>3. ASSUME LastAt(t, i) PROVE LastAt(u, m + i)
    <3> SUFFICES ASSUME NEW j \in DOMAIN u, j > m + i, Speaks(u[j]) PROVE u[j].to # u[m + i].to
      BY <2>1, <2>3
    <3>1. PICK k \in 1..n : j = m + k
      BY <1>4, <1>5
    <3>2. k \in DOMAIN t /\ k > i /\ u[j] = t[k]
      BY <1>4, <3>1
    <3> QED BY <2>1, <2>3, <3>2
  <2> QED BY <2>2, <2>3
<1>9. \A list : InForce(list) = {list[i] : i \in {i \in DOMAIN list : LastAt(list, i)}}
  BY DEF InForce
<1> HIDE DEF LastAt
<1>10. InForce(u) = InForce(t) \union {a \in InForce(s) : a.to \notin Places(t)}
  <2>1. ASSUME NEW a \in InForce(u)
        PROVE  a \in InForce(t) \union {b \in InForce(s) : b.to \notin Places(t)}
    <3>1. PICK i \in 1..(m + n) : a = u[i] /\ LastAt(u, i)
      BY <1>4, <1>9
    <3>2. CASE i \in 1..m
      BY <1>4, <1>7, <1>9, <3>1, <3>2
    <3>3. CASE \E k \in 1..n : i = m + k
      BY <1>4, <1>8, <1>9, <3>1, <3>3
    <3> QED BY <1>5, <3>2, <3>3
  <2>2. ASSUME NEW a \in InForce(t) PROVE a \in InForce(u)
    <3>1. PICK i \in 1..n : a = t[i] /\ LastAt(t, i)
      BY <1>4, <1>9
    <3>2. m + i \in DOMAIN u /\ u[m + i] = a /\ LastAt(u, m + i)
      BY <1>4, <1>8, <3>1
    <3> QED BY <1>9, <3>2
  <2>3. ASSUME NEW a \in InForce(s), a.to \notin Places(t) PROVE a \in InForce(u)
    <3>1. PICK i \in 1..m : a = s[i] /\ LastAt(s, i)
      BY <1>4, <1>9
    <3>2. i \in DOMAIN u /\ u[i] = a /\ LastAt(u, i)
      BY <1>4, <1>7, <2>3, <3>1
    <3> QED BY <1>9, <3>2
  <2> QED BY <2>1, <2>2, <2>3
<1> QED BY <1>1, <1>6, <1>10
LEMMA ForceIsPlaced ==
  ASSUME NEW list, NEW a \in InForce(list)
  PROVE  a.to \in Places(list)
BY DEF InForce, Places

\* Two lists that say the same do so before a third.
LEMMA ForceAlike ==
  ASSUME NEW S, NEW s \in Seq(S), NEW t \in Seq(S), NEW u \in Seq(S),
         InForce(s) = InForce(t)
  PROVE  InForce(s \o u) = InForce(t \o u)
<1>1. InForce(s \o u) = InForce(u) \union {a \in InForce(s) : a.to \notin Places(u)}
  BY ForceJoined
<1>2. InForce(t \o u) = InForce(u) \union {a \in InForce(t) : a.to \notin Places(u)}
  BY ForceJoined
<1> QED BY <1>1, <1>2

LEMMA ForceGrouped ==
  ASSUME NEW S, NEW s \in Seq(S), NEW t \in Seq(S), NEW u \in Seq(S)
  PROVE  InForce((s \o t) \o u) = InForce(s \o (t \o u))
<1>1. PICK st \in Seq(S) : st = s \o t
  BY Joined
<1>2. PICK tu \in Seq(S) : tu = t \o u
  BY Joined
<1>3. InForce(st \o u) = InForce(u) \union {a \in InForce(st) : a.to \notin Places(u)}
  BY ForceJoined
<1>4. InForce(st) = InForce(t) \union {a \in InForce(s) : a.to \notin Places(t)}
  BY <1>1, ForceJoined
<1>5. InForce(s \o tu) = InForce(tu) \union {a \in InForce(s) : a.to \notin Places(tu)}
  BY ForceJoined
<1>6. /\ InForce(tu) = InForce(u) \union {a \in InForce(t) : a.to \notin Places(u)}
      /\ Places(tu) = Places(t) \union Places(u)
  BY <1>2, ForceJoined
<1>7. InForce(st \o u) = InForce(s \o tu)
  BY <1>3, <1>4, <1>5, <1>6
<1> QED BY <1>1, <1>2, <1>7

\* What one of two renderers that share a list takes is in force of that list.
LEMMA ForceOfSome ==
  ASSUME NEW P, NEW f, NEW g, DOMAIN f = DOMAIN g,
         \A i \in DOMAIN g : Speaks(g[i]),
         \A i \in DOMAIN g : g[i].to \in P => f[i] = g[i],
         \A i \in DOMAIN g : g[i].to \notin P => f[i] = LeftOut
  PROVE  /\ InForce(f) = {a \in InForce(g) : a.to \in P}
         /\ Places(f) = Places(g) \intersect P
<1>1. ~Speaks(LeftOut)
  BY DEF Speaks, LeftOut
<1>2. \A i \in DOMAIN g : Speaks(f[i]) <=> g[i].to \in P
  BY <1>1
<1>3. Places(f) = Places(g) \intersect P
  BY <1>2 DEF Places
<1>4. ASSUME NEW a \in InForce(f) PROVE a \in InForce(g) /\ a.to \in P
  <2>1. PICK i \in DOMAIN g : /\ a = f[i] /\ Speaks(f[i])
                              /\ \A j \in DOMAIN g : j > i /\ Speaks(f[j]) => f[j].to # f[i].to
    BY DEF InForce
  <2>2. g[i].to \in P /\ a = g[i]
    BY <1>2, <2>1
  <2>3. ASSUME NEW j \in DOMAIN g, j > i PROVE g[j].to # g[i].to
    BY <1>2, <2>1, <2>2, <2>3
  <2> QED BY <2>2, <2>3 DEF InForce
<1>5. ASSUME NEW a \in InForce(g), a.to \in P PROVE a \in InForce(f)
  <2>1. PICK i \in DOMAIN g : /\ a = g[i]
                              /\ \A j \in DOMAIN g : j > i /\ Speaks(g[j]) => g[j].to # g[i].to
    BY DEF InForce
  <2>2. a = f[i] /\ Speaks(f[i])
    BY <1>2, <1>5, <2>1
  <2>3. ASSUME NEW j \in DOMAIN g, j > i, Speaks(f[j]) PROVE f[j].to # f[i].to
    BY <1>2, <2>1, <2>2, <2>3
  <2> QED BY <2>2, <2>3 DEF InForce
<1> QED BY <1>3, <1>4, <1>5

LEMMA BelowSystem ==
  ASSUME NEW d \in Seq(STRING)
  PROVE  Tail(<<"system">> \o d) = d
<1>1. PICK n \in Nat : n = Len(d)
  OBVIOUS
<1>2. PICK s : s = <<"system">> \o d
  OBVIOUS
<1>3. Len(s) = n + 1 /\ \A i \in 1..n : s[i + 1] = d[i]
  BY <1>1, <1>2
<1>4. Tail(s) = [i \in 1..n |-> s[i + 1]]
  BY <1>2, <1>3
<1>5. d = [i \in 1..n |-> d[i]]
  BY <1>1
<1> QED BY <1>2, <1>3, <1>4, <1>5

\* The places of a list of entries: the renderers of host and network share them out.
LEMMA EntriesShared ==
  ASSUME NEW es \in Seq(EntrySpec)
  PROVE  LET g == Entries(<<"system">>, "root", es)
         IN /\ Places(g) \subseteq NetworkdPlaces \union OtherPlaces
            /\ InForce(Filtered(es, TRUE)) = {a \in InForce(g) : a.to \in NetworkdPlaces}
            /\ Places(Filtered(es, TRUE)) = Places(g) \intersect NetworkdPlaces
            /\ InForce(Filtered(es, FALSE)) = {a \in InForce(g) : a.to \in OtherPlaces}
            /\ Places(Filtered(es, FALSE)) = Places(g) \intersect OtherPlaces
<1>1. PICK g : g = Entries(<<"system">>, "root", es)
  OBVIOUS
<1>2. DOMAIN g = DOMAIN es /\ \A i \in DOMAIN es : g[i] = Entry(<<"system">>, "root", es[i])
  BY <1>1 DEF Entries
<1>3. ASSUME NEW i \in DOMAIN es
      PROVE  /\ Speaks(g[i]) /\ g[i].to = <<"system">> \o es[i].dest
             /\ es[i].dest \in Seq(STRING)
  <2>1. es[i] \in EntrySpec
    BY Elements
  <2>2. g[i].register = "replace" /\ g[i].to = <<"system">> \o es[i].dest
    BY <1>2 DEF Entry
  <2> QED BY <2>1, <2>2 DEF Speaks, EntrySpec
<1>4. ASSUME NEW i \in DOMAIN es
      PROVE  /\ g[i].to \in NetworkdPlaces <=> IsStrictPrefix(NetworkdDir, es[i].dest)
             /\ g[i].to \in OtherPlaces <=> ~IsStrictPrefix(NetworkdDir, es[i].dest)
  <2>1. Tail(g[i].to) = es[i].dest
    BY <1>3, BelowSystem
  <2>2. g[i].to \in {<<"system">> \o d : d \in Seq(STRING)}
    BY <1>3
  <2> QED BY <2>1, <2>2 DEF NetworkdPlaces, OtherPlaces
<1>5. Places(g) \subseteq NetworkdPlaces \union OtherPlaces
  BY <1>2, <1>4 DEF Places
<1>6. PICK f : f = Filtered(es, TRUE)
  OBVIOUS
<1>7. DOMAIN f = DOMAIN g /\ \A i \in DOMAIN g :
        /\ g[i].to \in NetworkdPlaces => f[i] = g[i]
        /\ g[i].to \notin NetworkdPlaces => f[i] = LeftOut
  BY <1>2, <1>4, <1>6 DEF Filtered, IsStrictPrefix, IsPrefix
<1>8. /\ InForce(f) = {a \in InForce(g) : a.to \in NetworkdPlaces}
      /\ Places(f) = Places(g) \intersect NetworkdPlaces
  BY <1>2, <1>3, <1>7, ForceOfSome
<1>9. PICK k : k = Filtered(es, FALSE)
  OBVIOUS
<1>10. DOMAIN k = DOMAIN g /\ \A i \in DOMAIN g :
        /\ g[i].to \in OtherPlaces => k[i] = g[i]
        /\ g[i].to \notin OtherPlaces => k[i] = LeftOut
  BY <1>2, <1>4, <1>9 DEF Filtered, IsStrictPrefix, IsPrefix
<1>11. /\ InForce(k) = {a \in InForce(g) : a.to \in OtherPlaces}
       /\ Places(k) = Places(g) \intersect OtherPlaces
  BY <1>2, <1>3, <1>10, ForceOfSome
<1> QED BY <1>1, <1>5, <1>6, <1>8, <1>9, <1>11

LEMMA EntriesJoined ==
  ASSUME NEW S, NEW s \in Seq(S), NEW t \in Seq(S), NEW below, NEW user
  PROVE  Entries(below, user, s \o t) = Entries(below, user, s) \o Entries(below, user, t)
<1>1. PICK m \in Nat : m = Len(s)
  OBVIOUS
<1>2. PICK n \in Nat : n = Len(t)
  OBVIOUS
<1>3. PICK u : u = s \o t
  OBVIOUS
<1>4. /\ DOMAIN s = 1..m /\ DOMAIN t = 1..n /\ DOMAIN u = 1..(m + n)
      /\ \A i \in 1..m : u[i] = s[i]
      /\ \A i \in 1..n : u[m + i] = t[i]
  BY <1>1, <1>2, <1>3, JoinIs
<1>5. PICK es : es = Entries(below, user, s)
  OBVIOUS
<1>6. PICK et : et = Entries(below, user, t)
  OBVIOUS
<1>7. PICK eu : eu = Entries(below, user, u)
  OBVIOUS
<1> DEFINE T == {Entry(below, user, x) : x \in S}
<1>8. /\ es = [i \in 1..m |-> Entry(below, user, s[i])]
      /\ et = [i \in 1..n |-> Entry(below, user, t[i])]
      /\ eu = [i \in 1..(m + n) |-> Entry(below, user, u[i])]
  BY <1>4, <1>5, <1>6, <1>7 DEF Entries
<1>9. es \in Seq(T) /\ et \in Seq(T) /\ Len(es) = m /\ Len(et) = n
  <2>1. DOMAIN es = 1..m /\ es = [i \in 1..m |-> es[i]] /\ \A i \in 1..m : es[i] \in T
    BY <1>4, <1>8
  <2>2. DOMAIN et = 1..n /\ et = [i \in 1..n |-> et[i]] /\ \A i \in 1..n : et[i] \in T
    BY <1>4, <1>8
  <2> HIDE DEF T
  <2>3. es \in Seq(T) /\ Len(es) = m
    BY <2>1, IsList
  <2>4. et \in Seq(T) /\ Len(et) = n
    BY <2>2, IsList
  <2> QED BY <2>3, <2>4
<1> HIDE DEF T
<1>10. PICK j : j = es \o et
  OBVIOUS
<1>11. /\ j \in Seq(T) /\ DOMAIN j = 1..(m + n)
       /\ \A i \in 1..m : j[i] = es[i]
       /\ \A i \in 1..n : j[m + i] = et[i]
  <2>1. m = Len(es) /\ n = Len(et)
    BY <1>9
  <2>2. j \in Seq(T) /\ DOMAIN j = 1..(m + n)
    <3>1. j \in Seq(T)
      BY <1>9, <1>10, Joined
    <3>2. Len(es \o et) = Len(es) + Len(et)
      BY <1>9
    <3>3. Len(j) = m + n
      BY <1>10, <2>1, <3>2
    <3>4. DOMAIN j = 1..Len(j)
      BY <3>1, Elements
    <3> QED BY <3>1, <3>3, <3>4
  <2>3. \A i \in 1..m : j[i] = es[i]
    BY <1>9, <1>10, <2>1, JoinIs
  <2>4. \A i \in 1..n : j[m + i] = et[i]
    BY <1>9, <1>10, <2>1, JoinIs
  <2> QED BY <2>2, <2>3, <2>4
<1>12. ASSUME NEW i \in 1..(m + n) PROVE j[i] = eu[i]
  <2>1. CASE i \in 1..m
    BY <1>4, <1>8, <1>11, <2>1
  <2>2. CASE i > m
    <3>1. PICK k \in 1..n : i = m + k
      <4>1. i - m \in 1..n /\ i = m + (i - m)
        BY <2>2
      <4> QED BY <4>1
    <3> QED BY <1>4, <1>8, <1>11, <3>1
  <2> QED BY <2>1, <2>2
<1>13. j = eu
  BY <1>8, <1>11, <1>12
<1> QED BY <1>3, <1>5, <1>6, <1>7, <1>10, <1>13
\* The units lie outside the network's directory.
LEMMA UnitPlaces ==
  ASSUME NEW c \in Configs, NEW h \in Hosts
  PROVE  Places(Entries(<<"system">>, "root", c.commonUnits \o c.hostUnits[h]))
           \intersect NetworkdPlaces = {}
<1>1. PICK s \in Seq(EntrySpec) : s = c.commonUnits
  BY ConfigsAssumption
<1>2. PICK t \in Seq(EntrySpec) : t = c.hostUnits[h]
  BY ConfigsAssumption
<1>3. /\ \A i \in DOMAIN s : IsPrefix(UnitDir, s[i].dest)
      /\ \A i \in DOMAIN t : IsPrefix(UnitDir, t[i].dest)
  BY <1>1, <1>2, ConfigsAssumption
<1>4. PICK es : es = s \o t
  OBVIOUS
<1>5. es \in Seq(EntrySpec) /\ \A i \in DOMAIN es : IsPrefix(UnitDir, es[i].dest)
  <2>1. PICK m \in Nat : m = Len(s)
    OBVIOUS
  <2>2. PICK n \in Nat : n = Len(t)
    OBVIOUS
  <2>3. /\ DOMAIN s = 1..m /\ DOMAIN t = 1..n /\ DOMAIN es = 1..(m + n)
        /\ \A i \in 1..m : es[i] = s[i]
        /\ \A i \in 1..n : es[m + i] = t[i]
    BY <1>4, <2>1, <2>2, JoinIs
  <2>4. ASSUME NEW i \in 1..(m + n) PROVE IsPrefix(UnitDir, es[i].dest)
    <3>1. CASE i \in 1..m
      BY <1>3, <2>3, <3>1
    <3>2. CASE i > m
      <4>1. i - m \in 1..n /\ i = m + (i - m)
        BY <3>2
      <4> QED BY <1>3, <2>3, <4>1
    <3> QED BY <3>1, <3>2
  <2> QED BY <1>4, <2>3, <2>4
<1>6. ASSUME NEW d \in Seq(STRING), IsPrefix(UnitDir, d), IsStrictPrefix(NetworkdDir, d)
      PROVE  FALSE
  <2>1. d[3] = "system"
    BY <1>6 DEF IsPrefix, UnitDir
  <2>2. d[3] = "network"
    BY <1>6 DEF IsStrictPrefix, IsPrefix, NetworkdDir
  <2> QED BY <2>1, <2>2
<1>7. ASSUME NEW i \in DOMAIN es
      PROVE  Entries(<<"system">>, "root", es)[i].to \notin NetworkdPlaces
  <2>1. es[i].dest \in Seq(STRING)
    <3>1. es[i] \in EntrySpec
      BY <1>5, Elements
    <3> QED BY <3>1 DEF EntrySpec
  <2>2. Entries(<<"system">>, "root", es)[i].to = <<"system">> \o es[i].dest
    BY DEF Entries, Entry
  <2>3. Tail(<<"system">> \o es[i].dest) = es[i].dest
    BY <2>1, BelowSystem
  <2> QED BY <1>5, <1>6, <2>1, <2>2, <2>3 DEF NetworkdPlaces
<1>8. DOMAIN Entries(<<"system">>, "root", es) = DOMAIN es
  BY DEF Entries
<1> QED BY <1>1, <1>2, <1>4, <1>7, <1>8 DEF Places

\* The two renderers of common, host and units together say what the lists say.
LEMMA SystemIsDeclared ==
  ASSUME NEW c \in Configs, NEW h \in Hosts
  PROVE  InForce(SystemPlan(h, c))
           = InForce(Entries(<<"system">>, "root",
                             c.common \o c.host[h] \o c.commonUnits \o c.hostUnits[h]))
<1> DEFINE E(es) == Entries(<<"system">>, "root", es)
           S == SystemSteps
<1>1. PICK com \in Seq(EntrySpec) : com = c.common
  BY ConfigsAssumption
<1>2. PICK hst \in Seq(EntrySpec) : hst = c.host[h]
  BY ConfigsAssumption
<1>3. PICK cu \in Seq(EntrySpec) : cu = c.commonUnits
  BY ConfigsAssumption
<1>4. PICK hu \in Seq(EntrySpec) : hu = c.hostUnits[h]
  BY ConfigsAssumption
<1>5. \A es \in Seq(EntrySpec) : Filtered(es, TRUE) \in Seq(S) /\ Filtered(es, FALSE) \in Seq(S)
  BY SystemLists
<1>6. \A es \in Seq(EntrySpec) : E(es) \in Seq(S)
  BY SystemLists
<1>7. \A s, t \in Seq(EntrySpec) : s \o t \in Seq(EntrySpec) /\ E(s \o t) = E(s) \o E(t)
  <2> SUFFICES ASSUME NEW s \in Seq(EntrySpec), NEW t \in Seq(EntrySpec)
               PROVE  s \o t \in Seq(EntrySpec) /\ E(s \o t) = E(s) \o E(t)
    OBVIOUS
  <2>1. s \o t \in Seq(EntrySpec)
    BY Joined
  <2>2. \A below, user :
          Entries(below, user, s \o t) = Entries(below, user, s) \o Entries(below, user, t)
    BY EntriesJoined
  <2>3. E(s \o t) = E(s) \o E(t)
    BY <2>2
  <2> QED BY <2>1, <2>3
<1>8. NetworkdPlaces \intersect OtherPlaces = {}
  BY DEF NetworkdPlaces, OtherPlaces
<1>9. PICK cF, cT, hF, hT :
        /\ cF = Filtered(com, FALSE) /\ cT = Filtered(com, TRUE)
        /\ hF = Filtered(hst, FALSE) /\ hT = Filtered(hst, TRUE)
  OBVIOUS
<1>10. PICK g, k, u :
        g = E(com) /\ k = E(hst) /\ u = E(cu \o hu)
  OBVIOUS
<1>11. cF \in Seq(S) /\ cT \in Seq(S) /\ hF \in Seq(S) /\ hT \in Seq(S)
  BY <1>5, <1>9
<1>12. g \in Seq(S) /\ k \in Seq(S) /\ u \in Seq(S)
  BY <1>6, <1>7, <1>10
<1>13. /\ Places(g) \subseteq NetworkdPlaces \union OtherPlaces
       /\ InForce(cT) = {a \in InForce(g) : a.to \in NetworkdPlaces}
       /\ Places(cT) = Places(g) \intersect NetworkdPlaces
       /\ InForce(cF) = {a \in InForce(g) : a.to \in OtherPlaces}
       /\ Places(cF) = Places(g) \intersect OtherPlaces
  BY <1>9, <1>10, EntriesShared
<1>14. /\ Places(k) \subseteq NetworkdPlaces \union OtherPlaces
       /\ InForce(hT) = {a \in InForce(k) : a.to \in NetworkdPlaces}
       /\ Places(hT) = Places(k) \intersect NetworkdPlaces
       /\ InForce(hF) = {a \in InForce(k) : a.to \in OtherPlaces}
       /\ Places(hF) = Places(k) \intersect OtherPlaces
  BY <1>9, <1>10, EntriesShared
<1>15. Places(u) \intersect NetworkdPlaces = {}
  BY <1>3, <1>4, <1>10, UnitPlaces
<1>16. SystemPlan(h, c) = ((cF \o hF) \o u) \o (cT \o hT)
  BY <1>1, <1>2, <1>3, <1>4, <1>9, <1>10 DEF SystemPlan, HostConfigPlan, NetworkdPlan
<1>17. E(((com \o hst) \o cu) \o hu) = ((g \o k) \o E(cu)) \o E(hu)
  <2>1. com \o hst \in Seq(EntrySpec) /\ E(com \o hst) = g \o k
    BY <1>7, <1>10
  <2>2. PICK ch \in Seq(EntrySpec) : ch = com \o hst
    BY <2>1
  <2>3. ch \o cu \in Seq(EntrySpec) /\ E(ch \o cu) = E(ch) \o E(cu)
    BY <1>7
  <2>4. PICK chu \in Seq(EntrySpec) : chu = ch \o cu
    BY <2>3
  <2>5. E(chu \o hu) = E(chu) \o E(hu)
    BY <1>7
  <2> QED BY <2>1, <2>2, <2>3, <2>4, <2>5
<1>18. u = E(cu) \o E(hu)
  BY <1>7, <1>10
<1>19. PICK ecu \in Seq(S) : ecu = E(cu)
  BY <1>6
<1>20. PICK ehu \in Seq(S) : ehu = E(hu)
  BY <1>6
<1> HIDE DEF S, E
<1>21. PICK gk \in Seq(S) : gk = g \o k
  BY <1>12, Joined
<1>22. PICK ff \in Seq(S) : ff = cF \o hF
  BY <1>11, Joined
<1>23. PICK ffu \in Seq(S) : ffu = ff \o u
  BY <1>12, Joined
<1>24. PICK tt \in Seq(S) : tt = cT \o hT
  BY <1>11, Joined
<1>25. InForce((gk \o ecu) \o ehu) = InForce(gk \o u)
  BY <1>18, <1>19, <1>20, ForceGrouped
<1>26. InForce(gk \o u) = InForce(u) \union {a \in InForce(gk) : a.to \notin Places(u)}
  BY <1>12, ForceJoined
<1>27. InForce(gk) = InForce(k) \union {a \in InForce(g) : a.to \notin Places(k)}
  BY <1>12, <1>21, ForceJoined
<1>28. InForce(ffu) = InForce(u) \union {a \in InForce(ff) : a.to \notin Places(u)}
  BY <1>12, <1>23, ForceJoined
<1>29. InForce(ff) = InForce(hF) \union {a \in InForce(cF) : a.to \notin Places(hF)}
  BY <1>11, <1>22, ForceJoined
<1>30. /\ InForce(tt) = InForce(hT) \union {a \in InForce(cT) : a.to \notin Places(hT)}
       /\ Places(tt) = Places(cT) \union Places(hT)
  BY <1>11, <1>24, ForceJoined
<1>31. InForce(ffu \o tt) = InForce(tt) \union {a \in InForce(ffu) : a.to \notin Places(tt)}
  BY ForceJoined
<1>32. /\ \A a \in InForce(g) : a.to \in Places(g)
       /\ \A a \in InForce(k) : a.to \in Places(k)
       /\ \A a \in InForce(u) : a.to \in Places(u)
  BY ForceIsPlaced
<1> DEFINE Either(a) == a \in InForce(k) \/ (a \in InForce(g) /\ a.to \notin Places(k))
<1>33. \A a : a \in InForce(gk \o u) <=>
         a \in InForce(u) \/ (a.to \notin Places(u) /\ Either(a))
  BY <1>26, <1>27
<1>34. \A a : a \in InForce(tt) <=> a.to \in NetworkdPlaces /\ Either(a)
  BY <1>13, <1>14, <1>30
<1>35. \A a : a \in InForce(ff) <=> a.to \in OtherPlaces /\ Either(a)
  BY <1>13, <1>14, <1>29
<1>36. \A x : x \in Places(tt) <=> x \in NetworkdPlaces /\ x \in Places(g) \union Places(k)
  BY <1>13, <1>14, <1>30
<1>37. \A a : Either(a) => a.to \in Places(g) \union Places(k)
  BY <1>32
<1>38. \A a : a \in InForce(ffu \o tt) <=>
         a \in InForce(u) \/ (a.to \notin Places(u) /\ Either(a))
  <2>1. \A a : Either(a) => a.to \in NetworkdPlaces \/ a.to \in OtherPlaces
    BY <1>13, <1>14, <1>37
  <2> HIDE DEF Either
  <2> QED BY <1>8, <1>15, <1>28, <1>31, <1>32, <1>34, <1>35, <1>36, <2>1
<1>39. InForce(gk \o u) = InForce(ffu \o tt)
  BY <1>33, <1>38
<1>40. InForce(SystemPlan(h, c)) = InForce(E(((com \o hst) \o cu) \o hu))
  BY <1>16, <1>17, <1>19, <1>20, <1>21, <1>22, <1>23, <1>24, <1>25, <1>39
<1> QED BY <1>1, <1>2, <1>3, <1>4, <1>40 DEF E

LEMMA PlanIsDeclared ==
  ASSUME NEW c \in Configs, NEW h \in Hosts
  PROVE  InForce(HostPlan(h, c)) = InForce(DeclaredFor(h, c))
<1> DEFINE lists == c.common \o c.host[h] \o c.commonUnits \o c.hostUnits[h]
           all_ == Entries(<<"system">>, "root", lists)
           S == Planned(h, c) \union SystemSteps
<1>1. all_ \in Seq(S)
  <2>1. lists \in Seq(EntrySpec)
    BY ConfigsAssumption
  <2> HIDE DEF lists
  <2>2. Entries(<<"system">>, "root", lists) \in Seq(SystemSteps)
    BY <2>1, SystemLists
  <2> QED BY <2>2
<1>2. \A A, B : A \subseteq B => Seq(A) \subseteq Seq(B)
  OBVIOUS
<1>3. /\ SystemPlan(h, c) \in Seq(S) /\ SoftwarePlan(h, c) \in Seq(S)
      /\ UsersPlan(h, c) \in Seq(S) /\ ServicesPlan(h, c) \in Seq(S)
  BY <1>2, SystemIsSound, SoftwareIsSound, UsersAreSound, ServicesAreSound DEF Planned
<1>4. PICK sys \in Seq(S) : sys = SystemPlan(h, c)
  BY <1>3
<1>5. PICK dec \in Seq(S) : dec = all_
  BY <1>1
<1>6. InForce(sys) = InForce(dec)
  BY <1>4, <1>5, SystemIsDeclared
<1>7. /\ HostPlan(h, c) = ((sys \o SoftwarePlan(h, c)) \o UsersPlan(h, c)) \o ServicesPlan(h, c)
      /\ DeclaredFor(h, c)
           = ((dec \o SoftwarePlan(h, c)) \o UsersPlan(h, c)) \o ServicesPlan(h, c)
  BY <1>4, <1>5 DEF HostPlan, DeclaredFor
<1> HIDE DEF S, all_, lists
<1>8. PICK soft \in Seq(S) : soft = SoftwarePlan(h, c)
  BY <1>3
<1>9. PICK users \in Seq(S) : users = UsersPlan(h, c)
  BY <1>3
<1>10. PICK serv \in Seq(S) : serv = ServicesPlan(h, c)
  BY <1>3
<1>11. PICK s1 \in Seq(S) : s1 = sys \o soft
  BY Joined
<1>12. PICK d1 \in Seq(S) : d1 = dec \o soft
  BY Joined
<1>13. InForce(s1) = InForce(d1)
  BY <1>6, <1>11, <1>12, ForceAlike
<1>14. PICK s2 \in Seq(S) : s2 = s1 \o users
  BY Joined
<1>15. PICK d2 \in Seq(S) : d2 = d1 \o users
  BY Joined
<1>16. InForce(s2) = InForce(d2)
  BY <1>13, <1>14, <1>15, ForceAlike
<1>17. InForce(s2 \o serv) = InForce(d2 \o serv)
  BY <1>16, ForceAlike
<1> QED BY <1>7, <1>8, <1>9, <1>10, <1>11, <1>12, <1>14, <1>15, <1>17
-----------------------------------------------------------------------------
(* What a finished host has. *)

\* The hosts that are done are none of those to come, and have roots of their own.
HostsInv ==
  /\ done \subseteq Hosts
  /\ Running => /\ IsInjective(hosts)
                /\ ~all => Tail(hosts) = <<>>
                /\ done # {} => all
                /\ \A h \in done : \A i \in DOMAIN hosts : hosts[i] # h

\* What the steps of a plan up to k leave in force.
InForceTo(list, k) ==
  {list[i] : i \in {i \in 1..k :
    /\ Speaks(list[i])
    /\ \A j \in 1..k : j > i /\ Speaks(list[j]) => list[j].to # list[i].to}}

Halfway(list, rest, c) ==
  \E k \in 0..Len(list) : rest = SubSeq(list, k + 1, Len(list)) /\ Artifacts(c) = InForceTo(list, k)

ProgressInv ==
  Now({"write"}) => Halfway(HostPlan(Head(hosts), config), plan, collector)

\* A registered file is what its renderer made of it.
ContentInv ==
  Now({"write", "parents", "hash", "manifest"}) =>
    \A p \in DOMAIN collector :
      /\ p \in DOMAIN disk[Here] /\ disk[Here][p] = collector[p].is
      /\ pc = "write" => ~IsSpecification(p)

CollectedInv ==
  Now({"parents", "hash", "manifest", "serials"}) =>
    /\ Declared = InForce(DeclaredFor(Head(hosts), config))
    /\ \A b \in Parented : b.is = "dir" /\ IsPrefix(<<"system", "parents">>, b.to)

Said(S) ==
  {[to |-> a.to, target |-> a.target, digest |-> a.is, hints |-> a.hints] : a \in S}

ListedInv ==
  Now({"serials"}) =>
    manifest[Here] = [state |-> "complete", entries |-> Said(Artifacts(collector))]

LEMMA HostsStep ==
  ASSUME TypeInv, HostsInv, [Next]_vars
  PROVE  HostsInv'
<1>1. CASE Start
  <2>1. IsInjective(hosts') /\ (~all' => Tail(hosts') = <<>>) /\ done' = {}
    <3>1. CASE hosts' = HostOrder /\ all' = TRUE
      BY <1>1, <3>1, HostsAssumption DEF Start
    <3>2. CASE all' = FALSE /\ \E h \in Hosts : hosts' = <<h>>
      <4>1. PICK h \in Hosts : hosts' = <<h>>
        BY <3>2
      <4>2. IsInjective(<<h>>) /\ Tail(<<h>>) = <<>>
        BY DEF IsInjective
      <4> QED BY <1>1, <4>1, <4>2 DEF Start
    <3> QED BY <1>1, <3>1, <3>2 DEF Start
  <2> QED BY <2>1 DEF HostsInv
<1>2. CASE Serials /\ Running'
  <2>1. /\ Running /\ all' = all /\ hosts \in Seq(Hosts) /\ hosts # <<>>
    BY <1>2 DEF Serials, At, run, Running, TypeInv
  <2>2. CASE done' = done /\ hosts' = hosts
    BY <2>1, <2>2 DEF HostsInv
  <2>3. CASE /\ done' = done \union {Head(hosts)} /\ hosts' = Tail(hosts)
             /\ Tail(hosts) # <<>>
    <3>1. PICK n \in Nat : n = Len(hosts)
      BY <2>1
    <3>2. PICK rest : rest = Tail(hosts)
      OBVIOUS
    <3>3. /\ DOMAIN hosts = 1..n /\ DOMAIN rest = 1..(n - 1)
          /\ \A i \in 1..(n - 1) : rest[i] = hosts[i + 1]
      BY <2>1, <3>1, <3>2
    <3>4. IsInjective(hosts) /\ all
      BY <2>1, <2>3 DEF HostsInv
    <3>5. IsInjective(rest)
      BY <3>3, <3>4 DEF IsInjective
    <3>6. Head(hosts) = hosts[1] /\ Head(hosts) \in Hosts /\ 1 \in DOMAIN hosts
      BY <2>1
    <3>7. ASSUME NEW i \in DOMAIN rest PROVE rest[i] # hosts[1]
      <4>1. i + 1 \in DOMAIN hosts /\ i + 1 # 1 /\ rest[i] = hosts[i + 1]
        BY <3>3
      <4> QED BY <3>4, <3>6, <4>1 DEF IsInjective
    <3>8. \A h \in done : \A i \in DOMAIN rest : rest[i] # h
      BY <2>1, <3>3 DEF HostsInv
    <3> QED BY <2>1, <2>3, <3>2, <3>4, <3>5, <3>6, <3>7, <3>8 DEF HostsInv
  <2> QED BY <1>2, <2>2, <2>3 DEF Serials, Fail, Running
<1>3. CASE Serials /\ ~Running'
  <2>1. done' \subseteq done \union {Head(hosts)} /\ Head(hosts) \in Hosts
    BY <1>3, HereIsRoot DEF Serials, Fail, At, Running
  <2> QED BY <1>3, <2>1 DEF HostsInv
<1>4. CASE Next /\ ~Start /\ ~Serials
  <2>1. done' = done /\ Running /\ hosts' = hosts /\ all' = all
    BY <1>4, StaysHere DEF Next, Validate, Wipe, Load, PassOver, Write, Written, Parents, Adopted,
       Hash, Truncate, Dump, Kill, Fail, Goto
  <2> QED BY <2>1 DEF HostsInv
<1>5. CASE UNCHANGED vars
  BY <1>5 DEF vars, HostsInv, Running
<1> QED BY <1>1, <1>2, <1>3, <1>4, <1>5

\* One more step of a plan.
LEMMA ForceOfOne ==
  ASSUME NEW S, NEW list \in Seq(S), NEW k \in Nat, k < Len(list)
  PROVE  InForceTo(list, k + 1) =
           IF Speaks(list[k + 1])
           THEN {a \in InForceTo(list, k) : a.to # list[k + 1].to} \union {list[k + 1]}
           ELSE InForceTo(list, k)
<1> DEFINE LastAt(i, m) == /\ Speaks(list[i])
                           /\ \A j \in 1..m : j > i /\ Speaks(list[j]) => list[j].to # list[i].to
<1>1. \A m : InForceTo(list, m) = {list[i] : i \in {i \in 1..m : LastAt(i, m)}}
  BY DEF InForceTo
<1>2. 1..(k + 1) = 1..k \union {k + 1}
  OBVIOUS
<1>3. ASSUME NEW i \in 1..k
      PROVE  LastAt(i, k + 1) <=>
               LastAt(i, k) /\ (Speaks(list[k + 1]) => list[k + 1].to # list[i].to)
  BY <1>2
<1>4. LastAt(k + 1, k + 1) <=> Speaks(list[k + 1])
  OBVIOUS
<1> HIDE DEF LastAt
<1>5. CASE Speaks(list[k + 1])
  BY <1>1, <1>2, <1>3, <1>4, <1>5
<1>6. CASE ~Speaks(list[k + 1])
  BY <1>1, <1>2, <1>3, <1>4, <1>6
<1> QED BY <1>5, <1>6

LEMMA Rest ==
  ASSUME NEW S, NEW list \in Seq(S), NEW k \in 0..Len(list),
         SubSeq(list, k + 1, Len(list)) # <<>>
  PROVE  /\ k < Len(list) /\ k + 1 \in 0..Len(list)
         /\ Head(SubSeq(list, k + 1, Len(list))) = list[k + 1]
         /\ Tail(SubSeq(list, k + 1, Len(list))) = SubSeq(list, (k + 1) + 1, Len(list))
<1>1. PICK n \in Nat : n = Len(list)
  OBVIOUS
<1>2. PICK r : r = SubSeq(list, k + 1, n)
  OBVIOUS
<1>3. k < n
  BY <1>1
<1>4. r \in Seq(S) /\ Len(r) = n - k /\ \A i \in 1..(n - k) : r[i] = list[k + i]
  BY <1>1, <1>2, <1>3
<1>5. PICK q : q = SubSeq(list, (k + 1) + 1, n)
  OBVIOUS
<1>6. q \in Seq(S) /\ Len(q) = n - (k + 1) /\ \A i \in 1..(n - (k + 1)) : q[i] = list[(k + 1) + i]
  BY <1>1, <1>3, <1>5
<1>7. Head(r) = list[k + 1]
  BY <1>3, <1>4
<1>8. Tail(r) = q
  <2>1. PICK t : t = Tail(r)
    OBVIOUS
  <2>2. t \in Seq(S) /\ Len(t) = n - (k + 1) /\ \A i \in 1..(n - (k + 1)) : t[i] = r[i + 1]
    BY <1>3, <1>4, <2>1
  <2>3. \A i \in 1..(n - (k + 1)) : t[i] = q[i]
    <3> SUFFICES ASSUME NEW i \in 1..(n - (k + 1)) PROVE t[i] = q[i]
      OBVIOUS
    <3>1. i + 1 \in 1..(n - k) /\ k + (i + 1) = (k + 1) + i
      BY <1>3
    <3> QED BY <1>4, <1>6, <2>2, <3>1
  <2>4. t = q
    BY <1>6, <2>2, <2>3
  <2> QED BY <2>1, <2>4
<1> QED BY <1>1, <1>2, <1>3, <1>5, <1>7, <1>8
LEMMA RegisteredArtifacts ==
  ASSUME NEW c, NEW a, \A p \in DOMAIN c : c[p].to = p, a.register # "left out"
  PROVE  Artifacts(Registered(c, a)) =
           IF Speaks(a) THEN {b \in Artifacts(c) : b.to # a.to} \union {a} ELSE Artifacts(c)
<1>1. CASE a.register = "never"
  BY <1>1 DEF Registered, Speaks
<1>2. CASE a.register # "never"
  <2>1. Speaks(a)
    BY <1>2 DEF Speaks
  <2>2. PICK d : d = Registered(c, a)
    OBVIOUS
  <2>3. /\ DOMAIN d = DOMAIN c \union {a.to} /\ d[a.to] = a
        /\ \A p \in DOMAIN c : p # a.to => d[p] = c[p]
    BY <1>2, <2>2 DEF Registered
  <2>4. Artifacts(d) = {b \in Artifacts(c) : b.to # a.to} \union {a}
    <3>1. ASSUME NEW p \in DOMAIN d
          PROVE  d[p] = a \/ (p \in DOMAIN c /\ d[p] = c[p] /\ c[p].to # a.to)
      BY <2>3
    <3>2. ASSUME NEW p \in DOMAIN c, c[p].to # a.to
          PROVE  p \in DOMAIN d /\ d[p] = c[p]
      BY <2>3, <3>2
    <3>3. a.to \in DOMAIN d /\ d[a.to] = a
      BY <2>3
    <3>4. ASSUME NEW b \in Artifacts(d), b # a
          PROVE  b \in Artifacts(c) /\ b.to # a.to
      <4>1. PICK p \in DOMAIN d : b = d[p]
        BY DEF Artifacts
      <4>2. p \in DOMAIN c /\ b = c[p] /\ c[p].to # a.to
        BY <3>1, <3>4, <4>1
      <4> QED BY <4>2 DEF Artifacts
    <3>5. a \in Artifacts(d)
      BY <3>3 DEF Artifacts
    <3>6. {b \in Artifacts(c) : b.to # a.to} \subseteq Artifacts(d)
      BY <3>2 DEF Artifacts
    <3> QED BY <3>4, <3>5, <3>6
  <2> QED BY <2>1, <2>2, <2>4
<1> QED BY <1>1, <1>2

LEMMA ProgressStep ==
  ASSUME TypeInv, PlanInv, CollectorInv, ProgressInv, [Next]_vars
  PROVE  ProgressInv'
<1>1. CASE Load /\ Running'
  <2>1. /\ plan' = HostPlan(Head(hosts), config) /\ collector' = <<>>
        /\ hosts' = hosts /\ config' = config /\ Running
    BY <1>1 DEF Load, Fail, Goto, Running, run, At
  <2>2. config \in Configs /\ Head(hosts) \in Hosts
    BY <2>1, HereIsRoot DEF TypeInv
  <2>3. PICK list \in Seq(Planned(Head(hosts), config)) : list = HostPlan(Head(hosts), config)
    BY <2>2, PlanIsSound
  <2>4. SubSeq(list, 0 + 1, Len(list)) = list /\ 0 \in 0..Len(list)
    OBVIOUS
  <2>5. InForceTo(list, 0) = {} /\ Artifacts(<<>>) = {}
    BY DEF InForceTo, Artifacts
  <2>6. Halfway(list, list, <<>>)
    BY <2>4, <2>5 DEF Halfway
  <2> QED BY <2>1, <2>3, <2>6 DEF ProgressInv
<1>2. CASE (PassOver \/ Write) /\ Running'
  <2>1. /\ Now({"write"}) /\ plan # <<>> /\ plan' = Tail(plan) /\ hosts' = hosts /\ config' = config
        /\ collector' = IF Head(plan) = LeftOut THEN collector ELSE Registered(collector, Head(plan))
    BY <1>2 DEF PassOver, Write, Fail, Goto, Running, run, At, Now
  <2>2. config \in Configs /\ Head(hosts) \in Hosts /\ Running
    BY <2>1, HereIsRoot DEF TypeInv, Now
  <2>3. PICK list \in Seq(Planned(Head(hosts), config)) : list = HostPlan(Head(hosts), config)
    BY <2>2, PlanIsSound
  <2>4. PICK k \in 0..Len(list) :
          plan = SubSeq(list, k + 1, Len(list)) /\ Artifacts(collector) = InForceTo(list, k)
    BY <2>1, <2>3 DEF ProgressInv, Halfway
  <2>5. /\ k < Len(list) /\ k + 1 \in 0..Len(list) /\ Head(plan) = list[k + 1]
        /\ Tail(plan) = SubSeq(list, (k + 1) + 1, Len(list))
    BY <2>1, <2>4, Rest
  <2>6. PICK a : a = list[k + 1]
    OBVIOUS
  <2>7. a \in Planned(Head(hosts), config) /\ (a # LeftOut => a.register # "left out")
    <3>1. a \in Planned(Head(hosts), config)
      BY <2>1, <2>5, <2>6 DEF PlanInv
    <3> QED BY <2>2, <3>1, PlanIsSound DEF WellPlanned
  <2>8. InForceTo(list, k + 1) =
          IF Speaks(a) THEN {b \in InForceTo(list, k) : b.to # a.to} \union {a}
          ELSE InForceTo(list, k)
    <3>1. k \in Nat /\ k < Len(list)
      BY <2>5
    <3>2. PICK S : list \in Seq(S)
      OBVIOUS
    <3> QED BY <2>6, <3>1, <3>2, ForceOfOne
  <2>9. Artifacts(collector') = InForceTo(list, k + 1)
    <3>1. CASE a = LeftOut
      <4>1. ~Speaks(a)
        BY <3>1 DEF LeftOut, Speaks
      <4>2. collector' = collector
        BY <2>1, <2>5, <2>6, <3>1
      <4>3. InForceTo(list, k + 1) = InForceTo(list, k)
        BY <2>8, <4>1
      <4> QED BY <2>4, <4>2, <4>3
    <3>2. CASE a # LeftOut
      <4>1. \A p \in DOMAIN collector : collector[p].to = p
        BY <2>1 DEF CollectorInv, Now
      <4>2. Artifacts(Registered(collector, a)) =
              IF Speaks(a) THEN {b \in Artifacts(collector) : b.to # a.to} \union {a}
              ELSE Artifacts(collector)
        BY <2>7, <3>2, <4>1, RegisteredArtifacts
      <4>3. collector' = Registered(collector, a)
        BY <2>1, <2>5, <2>6, <3>2
      <4>4. Artifacts(collector) = InForceTo(list, k)
        BY <2>4
      <4>5. CASE Speaks(a)
        <5>1. PICK I : I = InForceTo(list, k) /\ I = Artifacts(collector)
          BY <4>4
        <5>2. Artifacts(Registered(collector, a)) = {b \in I : b.to # a.to} \union {a}
          BY <4>2, <4>5, <5>1
        <5>3. InForceTo(list, k + 1) = {b \in I : b.to # a.to} \union {a}
          BY <2>8, <4>5, <5>1
        <5> QED BY <4>3, <5>2, <5>3
      <4>6. CASE ~Speaks(a)
        <5>1. Artifacts(Registered(collector, a)) = Artifacts(collector)
          BY <4>2, <4>6
        <5>2. InForceTo(list, k + 1) = InForceTo(list, k)
          BY <2>8, <4>6
        <5> QED BY <4>3, <4>4, <5>1, <5>2
      <4> QED BY <4>5, <4>6
    <3> QED BY <3>1, <3>2
  <2>10. Halfway(list, plan', collector')
    BY <2>1, <2>5, <2>9 DEF Halfway
  <2> QED BY <2>1, <2>3, <2>10 DEF ProgressInv
<1>3. CASE Next /\ ~Load /\ ~PassOver /\ ~Write
  <2>1. Running' => pc' # "write"
    BY <1>3 DEF Next, Start, Validate, Wipe, Written, Parents, Adopted, Hash, Truncate, Dump,
                Serials, Kill, At, Fail, Goto, Running
  <2> QED BY <2>1 DEF ProgressInv, Now
<1>4. CASE UNCHANGED vars
  BY <1>4 DEF vars, ProgressInv, Now, Running
<1>5. CASE ~Running'
  BY <1>5 DEF ProgressInv, Now
<1> QED BY <1>1, <1>2, <1>3, <1>4, <1>5

LEMMA InItsChain ==
  ASSUME NEW p \in Seq(Words), p # <<>>
  PROVE  p \in Chain(p)
<1>1. Len(p) \in 1..Len(p) /\ SubSeq(p, 1, Len(p)) = p
  OBVIOUS
<1> QED BY <1>1 DEF Chain

\* What is written is there, and nothing else has changed.
LEMMA WriteKeeps ==
  ASSUME NEW tree, NEW a, a.to \in Seq(Words), a.to # <<>>, ~Unwritable(a, tree),
         NEW after,
         after = IF a.is = "dir" THEN WithDirs(tree, a.to) ELSE WithFile(tree, a.to, a.is)
  PROVE  /\ a.to \in DOMAIN after /\ after[a.to] = a.is
         /\ \A p \in DOMAIN tree : p \in DOMAIN after /\ (p # a.to => after[p] = tree[p])
<1>1. a.to \in Chain(a.to)
  BY InItsChain
<1>2. CASE a.is = "dir"
  <2>1. DOMAIN after = DOMAIN tree \union Chain(a.to)
        /\ \A q \in DOMAIN after : after[q] = IF q \in DOMAIN tree THEN tree[q] ELSE "dir"
    BY <1>2 DEF WithDirs
  <2>2. a.to \in DOMAIN tree => tree[a.to] = "dir"
    BY <1>1, <1>2 DEF Unwritable, Blocked
  <2> QED BY <1>1, <1>2, <2>1, <2>2
<1>3. CASE a.is # "dir"
  <2>1. PICK dirs : dirs = WithDirs(tree, Front(a.to))
    OBVIOUS
  <2>2. \A p \in DOMAIN tree : p \in DOMAIN dirs /\ dirs[p] = tree[p]
    BY <2>1 DEF WithDirs
  <2>3. after = [q \in DOMAIN dirs \union {a.to} |-> IF q = a.to THEN a.is ELSE dirs[q]]
    BY <1>3, <2>1 DEF WithFile
  <2> QED BY <2>2, <2>3
<1> QED BY <1>2, <1>3

LEMMA ParentPlaces ==
  ASSUME TypeInv, CollectorInv, ParentInv, Now({"parents"}), NEW a \in orphans,
         NEW p \in Unmanaged(a, Targets(collector))
  PROVE  /\ ParentArtifact(a, p).to \in Seq(Words) /\ ParentArtifact(a, p).to # <<>>
         /\ ParentArtifact(a, p).to \in Chain(ParentArtifact(a, p).to)
         /\ IsPrefix(<<"system", "parents">>, ParentArtifact(a, p).to)
         /\ ParentArtifact(a, p).is = "dir" /\ ParentArtifact(a, p).kind = ParentKind
<1>1. a \in Orphans
  BY DEF ParentInv, Now
<1>2. a \in Declared
  BY <1>1 DEF Orphans
<1>3. a.target \in Seq(Words)
  BY <1>2, OrphansArePlanned DEF Now, WellPlanned
<1>4. p \in Seq(Words)
  BY <1>3, UnmanagedIs, AboveIs
<1>5. PICK s : s = <<"system", "parents">> \o p
  OBVIOUS
<1>6. ParentArtifact(a, p).to = s
  BY <1>5 DEF ParentArtifact
<1>7. /\ s = SubSeq(s, 1, Len(s)) /\ Len(s) \in Nat /\ Len(s) >= 2 /\ s # <<>>
      /\ s[1] = "system" /\ s[2] = "parents"
  BY <1>4, <1>5
<1>8. s \in Seq(Words)
  <2>1. "system" \in Words /\ "parents" \in Words
    BY DEF Words
  <2> QED BY <1>4, <1>5, <2>1
<1>9. IsPrefix(<<"system", "parents">>, s)
  <2>1. SubSeq(s, 1, 2) = <<"system", "parents">>
    <3>1. PICK q : q = SubSeq(s, 1, 2)
      OBVIOUS
    <3>2. q \in Seq(Words) /\ Len(q) = 2 /\ q[1] = s[1] /\ q[2] = s[2]
      BY <1>7, <1>8, <3>1
    <3>3. q = <<q[1], q[2]>>
      BY <3>2
    <3> QED BY <1>7, <3>1, <3>2, <3>3
  <2> QED BY <1>7, <2>1 DEF IsPrefix
<1>10. ParentArtifact(a, p).is = "dir" /\ ParentArtifact(a, p).kind = ParentKind
  BY DEF ParentArtifact
<1>11. s \in Chain(s)
  BY <1>7, <1>8, InItsChain
<1> QED BY <1>6, <1>7, <1>8, <1>9, <1>10, <1>11

LEMMA ContentStep ==
  ASSUME TypeInv, PlanInv, CollectorInv, ParentInv, ContentInv, [Next]_vars
  PROVE  ContentInv'
<1>1. CASE Load /\ Running'
  BY <1>1 DEF Load, Fail, Running, ContentInv
<1>2. CASE Write /\ Running'
  <2>1. PICK a : a = Head(plan)
    OBVIOUS
  <2>2. PICK tree : tree = disk[Here]
    OBVIOUS
  <2>3. /\ Now({"write"}) /\ plan # <<>> /\ a # LeftOut /\ pc' = "write"
        /\ collector' = Registered(collector, a) /\ ~Unwritable(a, tree)
        /\ disk' = [disk EXCEPT ![Here] = IF a.is = "dir" THEN WithDirs(tree, a.to)
                                          ELSE WithFile(tree, a.to, a.is)]
    BY <1>2, <2>1, <2>2 DEF Write, Fail, Goto, Running, run, At, Now
  <2>4. Here' = Here /\ Here \in Roots /\ config \in Configs /\ Head(hosts) \in Hosts
    BY <1>2, StaysHere, HereIsRoot DEF Next, Write, Start, Serials, At, Running, TypeInv
  <2>5. a \in Planned(Head(hosts), config)
    BY <2>1, <2>3 DEF PlanInv
  <2>6. /\ a.to \in Seq(Words) /\ a.to # <<>>
        /\ a.register = "never" <=> IsSpecification(a.to)
    BY <2>3, <2>4, <2>5, PlanIsSound DEF WellPlanned
  <2>7. PICK after : after = disk'[Here]
    OBVIOUS
  <2>8. after = IF a.is = "dir" THEN WithDirs(tree, a.to) ELSE WithFile(tree, a.to, a.is)
    BY <2>3, <2>4, <2>7 DEF TypeInv
  <2>9. /\ a.to \in DOMAIN after /\ after[a.to] = a.is
        /\ \A p \in DOMAIN tree : p \in DOMAIN after /\ (p # a.to => after[p] = tree[p])
    BY <2>3, <2>6, <2>8, WriteKeeps
  <2>10. \A p \in DOMAIN collector :
           p \in DOMAIN tree /\ tree[p] = collector[p].is /\ ~IsSpecification(p)
    BY <2>2, <2>3 DEF ContentInv, Now
  <2>11. ASSUME NEW p \in DOMAIN collector'
         PROVE  p \in DOMAIN after /\ after[p] = collector'[p].is /\ ~IsSpecification(p)
    <3>1. CASE a.register = "never"
      BY <2>3, <2>6, <2>9, <2>10, <3>1 DEF Registered
    <3>2. CASE a.register # "never" /\ p = a.to
      BY <2>3, <2>6, <2>9, <3>2 DEF Registered
    <3>3. CASE a.register # "never" /\ p # a.to
      BY <2>3, <2>9, <2>10, <3>3 DEF Registered
    <3> QED BY <3>1, <3>2, <3>3
  <2> QED BY <2>4, <2>7, <2>11 DEF ContentInv
<1>3. CASE Parents /\ Running'
  <2>1. Here' = Here /\ Here \in Roots /\ Now({"parents"}) /\ pc' = "parents"
    BY <1>3, StaysHere, HereIsRoot
       DEF Next, Parents, Start, Serials, At, Running, Now, Fail, Goto
  <2> DEFINE Added(a) == {ParentArtifact(a, p) : p \in Unmanaged(a, Targets(collector))}
  <2>2. PICK a \in orphans :
          /\ \A b \in Added(a) : ~Blocked(disk[Here], b.to)
          /\ collector' = [p \in DOMAIN collector \union {b.to : b \in Added(a)} |->
                            IF p \in DOMAIN collector THEN collector[p]
                            ELSE CHOOSE b \in Added(a) : b.to = p]
          /\ disk' = [disk EXCEPT ![Here] =
                       [p \in DOMAIN @ \union UNION {Chain(b.to) : b \in Added(a)}
                         |-> IF p \in DOMAIN @ THEN @[p] ELSE "dir"]]
    BY <1>3 DEF Parents, Fail, Running
  <2>3. \A b \in Added(a) : b.is = "dir" /\ b.to \in Chain(b.to)
    BY <2>1, ParentPlaces
  <2>4. PICK new : new = Added(a)
    OBVIOUS
  <2>5. PICK tree : tree = disk[Here]
    OBVIOUS
  <2>6. PICK after : after = disk'[Here]
    OBVIOUS
  <2>7. after = [p \in DOMAIN tree \union UNION {Chain(b.to) : b \in new}
                  |-> IF p \in DOMAIN tree THEN tree[p] ELSE "dir"]
    BY <2>1, <2>2, <2>4, <2>5, <2>6 DEF TypeInv
  <2>8. collector' = [p \in DOMAIN collector \union {b.to : b \in new} |->
                       IF p \in DOMAIN collector THEN collector[p]
                       ELSE CHOOSE b \in new : b.to = p]
    BY <2>2, <2>4
  <2>9. \A b \in new : b.is = "dir" /\ b.to \in Chain(b.to) /\ ~Blocked(tree, b.to)
    BY <2>2, <2>3, <2>4, <2>5
  <2> HIDE DEF Added
  <2>10. \A p \in DOMAIN collector : p \in DOMAIN tree /\ tree[p] = collector[p].is
    BY <2>1, <2>5 DEF ContentInv, Now
  <2>11. ASSUME NEW p \in DOMAIN collector'
         PROVE  p \in DOMAIN after /\ after[p] = collector'[p].is
    <3>1. CASE p \in DOMAIN collector
      BY <2>7, <2>8, <2>10, <3>1
    <3>2. CASE p \notin DOMAIN collector
      <4>1. PICK b \in new : b.to = p /\ collector'[p] = b
        BY <2>8, <3>2
      <4>2. p \in DOMAIN after
        BY <2>7, <2>9, <4>1
      <4>3. p \in DOMAIN tree => tree[p] = "dir"
        BY <2>9, <4>1 DEF Blocked
      <4> QED BY <2>7, <2>9, <4>1, <4>2, <4>3
    <3> QED BY <3>1, <3>2
  <2> QED BY <2>1, <2>6, <2>11 DEF ContentInv
<1>4. CASE Next /\ ~Load /\ ~(Write /\ Running') /\ ~(Parents /\ Running')
  <2> DEFINE Kept == {"write", "parents", "hash", "manifest"}
  <2>1. CASE Now(Kept)'
    <3>1. /\ collector' = collector /\ hosts' = hosts /\ all' = all /\ disk' = disk /\ Now(Kept)
          /\ pc' = "write" => pc = "write"
      BY <1>4, <2>1 DEF Next, Start, Validate, Wipe, PassOver, Write, Written, Parents, Output,
                  Adopted, Hash, Truncate, Dump, Serials, Kill, At, Fail, Goto, run, Running, Now
    <3> QED BY <3>1 DEF ContentInv, Now, Here, Root
  <2> QED BY <2>1 DEF ContentInv
<1>5. CASE UNCHANGED vars
  BY <1>5 DEF vars, ContentInv, Now, Running, Here, Root
<1>6. CASE ~Running'
  BY <1>6 DEF ContentInv, Now
<1> QED BY <1>1, <1>2, <1>3, <1>4, <1>5, <1>6
LEMMA AllSteps ==
  ASSUME NEW S, NEW list \in Seq(S), NEW k \in 0..Len(list),
         SubSeq(list, k + 1, Len(list)) = <<>>
  PROVE  InForceTo(list, k) = InForce(list)
<1>1. k = Len(list)
  <2>1. Len(SubSeq(list, k + 1, Len(list))) = Len(list) - k
    OBVIOUS
  <2> QED BY <2>1
<1>2. DOMAIN list = 1..Len(list)
  OBVIOUS
<1> QED BY <1>1, <1>2 DEF InForceTo, InForce

LEMMA CollectedStep ==
  ASSUME TypeInv, CollectorInv, ParentInv, ProgressInv, CollectedInv, [Next]_vars
  PROVE  CollectedInv'
<1> DEFINE Kept == {"parents", "hash", "manifest", "serials"}
<1>1. CASE Written
  <2>1. /\ collector' = collector /\ config' = config /\ hosts' = hosts
        /\ Now({"write"}) /\ plan = <<>>
    BY <1>1 DEF Written, At, Goto, Now, Running, run
  <2>2. config \in Configs /\ Head(hosts) \in Hosts
    BY <2>1, HereIsRoot DEF TypeInv, Now
  <2>3. \A a \in Artifacts(collector) : a \in Planned(Head(hosts), config) \ {LeftOut}
    BY <2>1 DEF CollectorInv, Now, Artifacts
  <2>4. \A a \in Artifacts(collector) : a.kind # ParentKind
    BY <2>2, <2>3, PlanIsSound DEF WellPlanned, ParentKind
  <2>5. PICK list \in Seq(Planned(Head(hosts), config)) : list = HostPlan(Head(hosts), config)
    BY <2>2, PlanIsSound
  <2>6. PICK k \in 0..Len(list) :
          plan = SubSeq(list, k + 1, Len(list)) /\ Artifacts(collector) = InForceTo(list, k)
    BY <2>1, <2>5 DEF ProgressInv, Halfway
  <2>7. Artifacts(collector) = InForce(list)
    BY <2>1, <2>6, AllSteps
  <2>8. InForce(list) = InForce(DeclaredFor(Head(hosts), config))
    BY <2>2, <2>5, PlanIsDeclared
  <2>9. Declared' = Artifacts(collector) /\ Parented' = {}
    BY <2>1, <2>4 DEF Declared, Parented
  <2> QED BY <2>1, <2>7, <2>8, <2>9 DEF CollectedInv
<1>2. CASE Parents /\ Running'
  <2>1. /\ hosts' = hosts /\ config' = config /\ Now({"parents"})
    BY <1>2 DEF Parents, Fail, Goto, Running, run, At, Now
  <2> DEFINE Added(a) == {ParentArtifact(a, p) : p \in Unmanaged(a, Targets(collector))}
  <2>2. PICK a \in orphans :
          collector' = [p \in DOMAIN collector \union {b.to : b \in Added(a)} |->
                         IF p \in DOMAIN collector THEN collector[p]
                         ELSE CHOOSE b \in Added(a) : b.to = p]
    BY <1>2 DEF Parents, Fail, Running
  <2>3. \A b \in Added(a) : /\ b.is = "dir" /\ b.kind = ParentKind
                            /\ IsPrefix(<<"system", "parents">>, b.to)
    BY <2>1, ParentPlaces
  <2>4. PICK new : new = Added(a)
    OBVIOUS
  <2>5. collector' = [p \in DOMAIN collector \union {b.to : b \in new} |->
                       IF p \in DOMAIN collector THEN collector[p]
                       ELSE CHOOSE b \in new : b.to = p]
    BY <2>2, <2>4
  <2>6. \A b \in new : /\ b.is = "dir" /\ b.kind = ParentKind
                       /\ IsPrefix(<<"system", "parents">>, b.to)
    BY <2>3, <2>4
  <2> HIDE DEF Added
  <2>7. ASSUME NEW b \in Artifacts(collector') PROVE b \in Artifacts(collector) \/ b \in new
    <3>1. PICK p \in DOMAIN collector' : b = collector'[p]
      BY DEF Artifacts
    <3>2. CASE p \in DOMAIN collector
      BY <2>5, <3>1, <3>2 DEF Artifacts
    <3>3. CASE p \notin DOMAIN collector
      BY <2>5, <3>1, <3>3
    <3> QED BY <3>2, <3>3
  <2>8. Artifacts(collector) \subseteq Artifacts(collector')
    BY <2>5 DEF Artifacts
  <2>9. Declared' = Declared
    <3>1. Declared' = {b \in Artifacts(collector') : b.kind # ParentKind}
      BY DEF Declared
    <3> QED BY <2>6, <2>7, <2>8, <3>1 DEF Declared
  <2>10. \A b \in Parented' : b \in Parented \/ b \in new
    BY <2>7 DEF Parented
  <2>11. /\ Declared = InForce(DeclaredFor(Head(hosts), config))
         /\ \A b \in Parented : b.is = "dir" /\ IsPrefix(<<"system", "parents">>, b.to)
    BY <2>1 DEF CollectedInv, Now
  <2>12. \A b \in Parented' : b.is = "dir" /\ IsPrefix(<<"system", "parents">>, b.to)
    BY <2>6, <2>10, <2>11
  <2> QED BY <2>1, <2>9, <2>11, <2>12 DEF CollectedInv
<1>3. CASE (Next /\ ~Written /\ ~(Parents /\ Running')) \/ UNCHANGED vars
  <2>1. CASE Now(Kept)'
    <3>1. /\ collector' = collector /\ hosts' = hosts /\ config' = config /\ Now(Kept)
      BY <1>3, <2>1 DEF Next, Start, Validate, Wipe, Load, PassOver, Write, Parents, Adopted,
                  Hash, Truncate, Dump, Serials, Kill, At, Fail, Goto, Running, Now, vars, run
    <3>2. Declared' = Declared /\ Parented' = Parented
      BY <3>1 DEF Declared, Parented
    <3> QED BY <3>1, <3>2 DEF CollectedInv
  <2> QED BY <2>1 DEF CollectedInv
<1>4. CASE ~Running'
  BY <1>4 DEF CollectedInv, Now
<1> QED BY <1>1, <1>2, <1>3, <1>4

LEMMA ListedStep ==
  ASSUME TypeInv, CollectorInv, ContentInv, ListedInv, [Next]_vars
  PROVE  ListedInv'
<1>1. CASE Dump
  <2>1. /\ Here \in Roots /\ Here' = Here /\ Now({"manifest"}) /\ collector' = collector
        /\ manifest' = [manifest EXCEPT ![Here] =
                         [state |-> "complete", entries |-> Listed(disk[Here], collector)]]
    BY <1>1, HereIsRoot DEF Dump, At, Running, Now, Goto, run, Here, Root
  <2>2. \A p \in DOMAIN collector : collector[p].to = p /\ disk[Here][p] = collector[p].is
    BY <2>1 DEF CollectorInv, ContentInv, Now
  <2>3. PICK tree : tree = disk[Here]
    OBVIOUS
  <2>4. \A a \in Artifacts(collector) : tree[a.to] = a.is
    BY <2>2, <2>3 DEF Artifacts
  <2>5. PICK A : A = Artifacts(collector)
    OBVIOUS
  <2>6. Listed(tree, collector) = {[to |-> a.to, target |-> a.target, digest |-> tree[a.to],
                                    hints |-> a.hints] : a \in A}
    BY <2>5 DEF Listed
  <2>7. ASSUME NEW a \in A
        PROVE  [to |-> a.to, target |-> a.target, digest |-> tree[a.to], hints |-> a.hints]
                 = [to |-> a.to, target |-> a.target, digest |-> a.is, hints |-> a.hints]
    BY <2>4, <2>5
  <2>8. Listed(tree, collector) = Said(A)
    BY <2>6, <2>7 DEF Said
  <2> QED BY <2>1, <2>3, <2>5, <2>8 DEF ListedInv, TypeInv
<1>2. CASE (Next /\ ~Dump) \/ UNCHANGED vars
  <2>1. CASE Now({"serials"})'
    <3>1. /\ collector' = collector /\ hosts' = hosts /\ all' = all /\ manifest' = manifest
          /\ Now({"serials"})
      BY <1>2, <2>1 DEF Next, Start, Validate, Wipe, Load, PassOver, Write, Written, Parents,
           Adopted, Hash, Truncate, Serials, Kill, At, Fail, Goto, Running, Now, vars, run
    <3> QED BY <3>1 DEF ListedInv, Here, Root
  <2> QED BY <2>1 DEF ListedInv
<1> QED BY <1>1, <1>2

\* What a complete manifest says of a host that is done.
Finished(h) ==
  LET written == manifest[Root(h)]
  IN /\ written.state = "complete"
     /\ Told(h, config) \subseteq written.entries
     /\ \A e \in written.entries \ Told(h, config) :
          e.digest = "dir" /\ IsPrefix(<<"system", "parents">>, e.to)

LEMMA HostFinishes ==
  ASSUME TypeInv, CollectedInv, ListedInv, Serials
  PROVE  Finished(Head(hosts))
<1>1. Now({"serials"})
  BY DEF Serials, At, Now, Running
<1>2. PICK h : h = Head(hosts)
  OBVIOUS
<1>3. Here = Root(h)
  BY <1>2 DEF Here
<1>4. /\ manifest[Root(h)].state = "complete"
      /\ manifest[Root(h)].entries = Said(Artifacts(collector))
  BY <1>1, <1>3 DEF ListedInv
<1>5. /\ Declared = InForce(DeclaredFor(h, config))
      /\ \A b \in Parented : b.is = "dir" /\ IsPrefix(<<"system", "parents">>, b.to)
  BY <1>1, <1>2 DEF CollectedInv, Now
<1>6. Told(h, config) = Said(Declared)
  BY <1>5 DEF Told, Said
<1>7. Artifacts(collector) = Declared \union Parented
  BY DEF Declared, Parented
<1>8. Said(Declared) \subseteq Said(Artifacts(collector))
  BY <1>7 DEF Said
<1>9. ASSUME NEW e \in Said(Artifacts(collector)), e \notin Said(Declared)
      PROVE  e.digest = "dir" /\ IsPrefix(<<"system", "parents">>, e.to)
  <2>1. PICK a \in Artifacts(collector) :
          e = [to |-> a.to, target |-> a.target, digest |-> a.is, hints |-> a.hints]
    BY DEF Said
  <2>2. a \in Parented
    BY <1>7, <1>9, <2>1 DEF Said
  <2>3. e.digest = a.is /\ e.to = a.to
    BY <2>1
  <2> QED BY <1>5, <2>2, <2>3
<1> QED BY <1>2, <1>4, <1>6, <1>8, <1>9 DEF Finished

LEMMA FinishedStep ==
  ASSUME TypeInv, HostsInv, CollectedInv, ListedInv, [Next]_vars,
         \A h \in done : Finished(h)
  PROVE  \A h \in done' : Finished(h)'
<1>1. CASE Start
  BY <1>1 DEF Start
<1>2. CASE Serials
  <2>1. manifest' = manifest /\ config' = config /\ all' = all
    BY <1>2 DEF Serials, run, Output
  <2>2. \A h : Finished(h)' <=> Finished(h)
    BY <2>1 DEF Finished, Root
  <2>3. done' \subseteq done \union {Head(hosts)}
    BY <1>2 DEF Serials, Fail
  <2> QED BY <1>2, <2>2, <2>3, HostFinishes
<1>3. CASE Next /\ ~Start /\ ~Serials
  <2>1. done' = done /\ Running /\ all' = all /\ config' = config /\ Here \in Roots
    BY <1>3, StaysHere, HereIsRoot DEF Next, Validate, Wipe, Load, PassOver, Write, Written,
       Parents, Adopted, Hash, Truncate, Dump, Kill, Fail, Goto
  <2>2. \A r \in Roots : r # Here => manifest'[r] = manifest[r]
    BY <1>3, <2>1 DEF Next, Validate, Wipe, Load, PassOver, Write, Written,
       Parents, Adopted, Hash, Truncate, Dump, Kill, Output, TypeInv
  <2>3. ASSUME NEW h \in done PROVE Root(h) \in Roots /\ Root(h) # Here
    <3>1. h \in Hosts /\ all /\ \A i \in DOMAIN hosts : hosts[i] # h
      BY <2>1 DEF HostsInv
    <3>2. Head(hosts) = hosts[1] /\ 1 \in DOMAIN hosts
      BY <2>1 DEF TypeInv
    <3> QED BY <3>1, <3>2 DEF Root, Roots, Here
  <2>4. ASSUME NEW h \in done PROVE Finished(h)'
    <3>1. Root(h)' = Root(h) /\ manifest'[Root(h)] = manifest[Root(h)]
      BY <2>1, <2>2, <2>3 DEF Root
    <3> QED BY <2>1, <3>1 DEF Finished
  <2> QED BY <2>1, <2>4
<1>4. CASE UNCHANGED vars
  BY <1>4 DEF vars, Finished, Root
<1> QED BY <1>1, <1>2, <1>3, <1>4

FinishInv ==
  /\ HostsInv /\ ProgressInv /\ ContentInv /\ CollectedInv /\ ListedInv
  /\ \A h \in done : Finished(h)

\* A host that a run is through with has a manifest of what its configuration declares,
\* the host's own before what is common, whichever of the renderers took it and
\* whatever then befalls the run at another host.
THEOREM FinishedAreDeclared == Spec => []FinishedIsDeclared
<1>1. Init => ParentInv /\ FinishInv
  <2>1. Init => ~Running /\ done = {}
    BY DEF Init, Running
  <2> QED BY <2>1 DEF ParentInv, FinishInv, HostsInv, ProgressInv, ContentInv, CollectedInv,
          ListedInv, Now
<1>2. OutputInv /\ ParentInv /\ [Next]_vars => ParentInv'
  BY ParentInvStep DEF OutputInv
<1>3. OutputInv /\ ParentInv /\ FinishInv /\ [Next]_vars => FinishInv'
  <2> SUFFICES ASSUME OutputInv, ParentInv, FinishInv, [Next]_vars PROVE FinishInv'
    OBVIOUS
  <2>1. TypeInv /\ PlanInv /\ CollectorInv
    BY DEF OutputInv
  <2>2. /\ HostsInv /\ ProgressInv /\ ContentInv /\ CollectedInv /\ ListedInv
        /\ \A h \in done : Finished(h)
    BY DEF FinishInv
  <2>3. HostsInv' /\ ProgressInv' /\ ContentInv' /\ CollectedInv' /\ ListedInv'
    BY <2>1, <2>2, HostsStep, ProgressStep, ContentStep, CollectedStep, ListedStep
  <2>4. \A h \in done' : Finished(h)'
    BY <2>1, <2>2, FinishedStep
  <2> QED BY <2>3, <2>4 DEF FinishInv
<1>4. FinishInv => FinishedIsDeclared
  BY DEF FinishInv, Finished, FinishedIsDeclared
<1> QED BY <1>1, <1>2, <1>3, <1>4, OutputHolds, PTL DEF Spec
=============================================================================
