------------------------------ MODULE MCApply ------------------------------
(* Instance of Apply: an interface definition, one unit with a configuration, a   *)
(* drop-in and a Caddy file, and a CoreDNS with two zones; desired states that    *)
(* add, change and remove each of them.                                           *)
EXTENDS Apply

CONSTANTS v1, v2

SomeFiles == {"20-vlan.netdev", "app.service", "app.conf", "app.d", "Caddyfile",
              "Corefile", "db.lan", "db.vlan"}

SomeKinds ==
  [f \in SomeFiles |-> CASE f = "20-vlan.netdev" -> "netdev"
                         [] f = "app.service" -> "unit"
                         [] f = "app.d" -> "dropin"
                         [] f = "Caddyfile" -> "residue"
                         [] f = "Corefile" -> "corefile"
                         [] f \in {"db.lan", "db.vlan"} -> "zone"
                         [] OTHER -> "config"]

SomeOwners ==
  [f \in SomeFiles |-> IF SomeKinds[f] = "netdev"
                        THEN f ELSE "app.service"]

All(v, S) == [f \in S |-> v]

\* Enough to add, change and remove each kind once.
SomeManifests ==
  { All(v1, {"app.service", "app.conf", "Corefile", "db.lan"}),
    [All(v1, {"app.service", "app.conf", "Caddyfile", "Corefile", "db.lan", "db.vlan"})
       EXCEPT !["app.conf"] = v2, !["db.lan"] = v2],
    All(v1, {"20-vlan.netdev", "app.service", "app.d"}) }
=============================================================================
