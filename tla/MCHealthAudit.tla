--------------------------- MODULE MCHealthAudit ---------------------------
(* Instance of HealthAudit: a host with one workload of each sort and a second *)
(* DNS server elsewhere.                                                       *)
EXTENDS HealthAudit

E(kind, unit, user, image, starts) ==
  [kind |-> kind, unit |-> unit, user |-> user, image |-> image, starts |-> starts]

SomeEntries ==
  { E("container", "web.service", NoUser, TRUE, FALSE),
    E("container", "vault-agent.service", "abhaile", FALSE, FALSE),
    E("pod", "web.service", "media", FALSE, FALSE),
    E("unit", "coredns.service", NoUser, FALSE, FALSE),
    E("unit", "backup.timer", NoUser, FALSE, TRUE) }

SomeServices == {e.unit : e \in SomeEntries} \ {"backup.timer"}

SomeStrangers == {[name |-> "cron.service", manager |-> "root"],
                  [name |-> "podman.service", manager |-> "abhaile"]}

MappedAgent == [mapped |-> TRUE, user |-> "abhaile"]
=============================================================================
