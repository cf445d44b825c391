------------------------------ MODULE MCRender ------------------------------
(* Instance of Render: two hosts, and revisions that share, override, clash  *)
(* or break in one place each.                                               *)
EXTENDS Render

TwoHosts == <<"a", "b">>

File(dest, is) == [dest |-> dest, is |-> is, hints |-> "none"]
Dir(dest) == [dest |-> dest, is |-> "dir", hints |-> "declared"]

Each(x) == [h \in Hosts |-> x]

\* Both hosts override a common file; a rootless service on host a.
Base ==
  [valid |-> TRUE, serials |-> TRUE, files |-> Hosts, packages |-> "list",
   common |-> <<File(<<"etc", "motd">>, "common")>>,
   host |-> Each(<<File(<<"etc", "motd">>, "own")>>),
   commonUnits |-> <<>>, hostUnits |-> Each(<<>>), specs |-> Each(<<>>),
   keys |-> Each(<<>>), services |-> Each(<<>>)]

Networked ==
  [Base EXCEPT
    !.common = <<File(NetworkdDir \o <<"n">>, "common"), File(<<"etc", "systemd", "x">>, "x")>>,
    !.host = Each(<<File(NetworkdDir \o <<"n">>, "own")>>)]

\* A unit of all hosts that one of them has its own of; a file in the place of keys.
Unit == File(UnitDir \o <<"u.service">>, "common")
Layered ==
  [Base EXCEPT
    !.common = <<File(<<"root", ".ssh", "authorized_keys">>, "stale")>>, !.host = Each(<<>>),
    !.commonUnits = <<Unit>>,
    !.hostUnits = [Each(<<>>) EXCEPT !["a"] = <<[Unit EXCEPT !.is = "own"]>>],
    !.keys = Each(<<[user |-> "root", home |-> <<"root">>]>>)]

\* Files of service s, whose containers user u runs.
OfService(e) ==
  [service |-> "s", user |-> "u", dest |-> e.dest, is |-> e.is, hints |-> e.hints]

Served(files) ==
  [Base EXCEPT !.services =
    [h \in Hosts |-> IF h = "a" THEN [i \in DOMAIN files |-> OfService(files[i])] ELSE <<>>]]

Rootless ==
  [Served(<<File(<<"home", "u", "app", "etc", "f">>, "f"), File(<<"opt", "s", "f">>, "f"),
            Dir(<<"opt", "s", "data">>)>>)
    EXCEPT !.keys = Each(<<[user |-> "u", home |-> <<"home", "u">>]>>)]

\* A directory of a service's user that a file of root also needs.
Disputed ==
  [Served(<<File(<<"opt", "s", "f">>, "f")>>)
    EXCEPT !.common = <<File(<<"opt", "s", "g">>, "g")>>]

Owned ==
  [Served(<<Dir(<<"opt", "s">>), File(<<"opt", "s", "d", "f">>, "f")>>)
    EXCEPT !.specs = Each(<<[id |-> "tool", is |-> "spec"]>>)]

\* A file of host and service with one target; a file in the place of a directory.
Twins == Served(<<File(<<"etc", "motd">>, "own")>>)
Blocking ==
  [Base EXCEPT !.common = <<File(<<"etc", "d">>, "f"), File(<<"etc", "d", "f">>, "f")>>]
Occupied ==
  [Served(<<File(<<"opt", "x", "f">>, "f")>>) EXCEPT !.common = <<File(<<"opt", "x">>, "f")>>]

BrokenOnB ==
  [Base EXCEPT !.host["b"] = <<File(<<"etc", "motd">>, "broken")>>, !.packages = "more"]

SomeConfigs ==
  { Base, Networked, Layered, Rootless, Disputed, Owned, Twins, Blocking, Occupied, BrokenOnB,
    [Base EXCEPT !.valid = FALSE], [Base EXCEPT !.serials = FALSE],
    [Base EXCEPT !.files = {"a"}] }
=============================================================================
