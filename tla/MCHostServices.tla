--------------------------- MODULE MCHostServices ---------------------------
(* The accounts of a host and then its containers, as one run of the renderer *)
(* takes them.  Either the accounts vary and there is one small service, or   *)
(* the other way round: neither renderer reads what the other did.            *)
EXTENDS Users, Quadlets, TLC

\* Two users; the first subordinate ID is 2 and the last one 7.
TwoUsers == <<"ada", "bob">>

Ids(from, count) == [subuid |-> from, subgid |-> from, count |-> count]
RootlessAt(u, from, count) ==
  [Plain EXCEPT !.home = HomeOf(u), !.rootless = Ids(from, count)]

Sayings(u) ==
  {Plain, [Plain EXCEPT !.uid = 1], [Plain EXCEPT !.uid = 5, !.group = "staff"],
   [Plain EXCEPT !.home = <<"srv">>, !.keys = {"k1"}],
   [Plain EXCEPT !.home = <<>>, !.keys = {"k2"}],
   [Plain EXCEPT !.keys = {"k2"}, !.more = {"staff"}],
   [Plain EXCEPT !.rootless = Ids(2, 2)],
   RootlessAt(u, 2, 4), RootlessAt(u, 3, 2), RootlessAt(u, 6, 3)}

Users(ada, bob) == [u \in {"ada", "bob"} |-> IF u = "ada" THEN ada ELSE bob]

Gids(staff) == [g \in {"ada", "bob", "staff"} |-> IF g = "staff" THEN staff ELSE None]

SomeChain == <<[users |-> Users(Plain, Plain), groups |-> Gids(None),
                sudoers |-> [n \in {"ops"} |-> {"r1"}]]>>

\* The included host declares the groups; the host itself may add to them.
SomeChains ==
  {SomeChain} \union
  {<<[users |-> Users(a, b), groups |-> Gids(gid), sudoers |-> [n \in {"ops"} |-> {"r1"}]],
     [users |-> us, groups |-> gs, sudoers |-> [n \in {"ops", "own"} |-> {"r2"}]]>> :
    a \in Sayings("ada"), b \in Sayings("bob"), gid \in {None, 3},
    us \in {[u \in {"ada"} |-> x] : x \in Sayings("ada")} \union {Users(Plain, x) : x \in Sayings("bob")},
    gs \in {<<>>, [g \in {"staff"} |-> 4], [g \in {"guests"} |-> 3]}}

Private(n, p, o) == [name |-> n, path |-> p, shared |-> FALSE, owner |-> o]
Shared(n, p) == [name |-> n, path |-> p, shared |-> TRUE, owner |-> Absent]

Volumes == {Private("data", "p1", "o"), Private("data", "p2", "o"),
            Private("logs", "p1", "o"), Private("data", "p1", Absent),
            Shared("data", "p1"), Shared("data", "p2"), Shared("logs", "p1")}

Container(n, from, vs) == [name |-> n, from |-> from, volumes |-> vs]
Service(n, user, pod, vlan, entries, cs) ==
  [name |-> n, user |-> user, pod |-> pod, vlan |-> vlan, entries |-> entries,
   containers |-> cs]

Image == {"image"}

\* A container with two volumes or a pod of two containers; the name of the
\* second service may be that of a container of the first.
OneService ==
  {Service(<<"web">>, "root", FALSE, "lan", es, <<Container("-", {"build"}, <<v, w>>)>>) :
     es \in {{}, {[path |-> "p1", is |-> [is |-> "directory", owner |-> "other"]]}},
     v \in Volumes, w \in Volumes}
  \union {Service(<<"web">>, "root", TRUE, "lan", {},
            <<Container("a", Image, <<v>>), Container("b", {"build"}, <<w>>)>>) :
            v \in Volumes, w \in Volumes}

OtherService ==
  {Service(n, user, pod, Absent, {}, <<Container("c", Image, <<v>>)>>) :
     n \in {<<"web", "app", "b">>, <<"db">>}, user \in {"root", "ada"},
     pod \in BOOLEAN, v \in Volumes}

Odd == {Service(<<"x">>, Absent, FALSE, Absent, {}, <<Container("-", Image, <<>>)>>),
        Service(<<"x">>, "root", TRUE, Absent, {}, <<>>),
        Service(<<"x">>, "root", FALSE, Absent, {}, <<Container("-", {"image", "build"}, <<>>)>>)}

SomeHost == <<Service(<<"x">>, "root", FALSE, "lan", {}, <<Container("-", Image, <<>>)>>)>>

SomeHosts == {<<s, t>> : s \in OneService, t \in OtherService} \union {<<s>> : s \in Odd} \union {SomeHost}

HostInit ==
  \/ services = SomeHost /\ Init /\ QuadletsInit
  \/ declared = SomeChain /\ Init /\ QuadletsInit

\* What the renderer of the accounts raises ends the run.
HostNext ==
  \/ Next /\ UNCHANGED quadletsVars
  \/ stage = "done" /\ QuadletsNext /\ UNCHANGED vars

HostSpec == HostInit /\ [][HostNext]_<<vars, quadletsVars>>
=============================================================================
