-------------------------- MODULE MCIntegrityAudit --------------------------
(* Instance of IntegrityAudit: the foundations, a file and a directory; and     *)
(* manifests with a duplicate, a missing foundation or an irregular one.        *)
EXTENDS IntegrityAudit

E(target, kind, data) ==
  [target |-> target, render |-> target, kind |-> kind, data |-> data,
   size |-> Len(data), directory |-> FALSE, declares |-> {}, resolvable |-> TRUE, fixed |-> TRUE]

Dir(target, declared, known) ==
  [E(target, "service.directory", <<>>) EXCEPT !.directory = TRUE,
                                               !.declares = declared,
                                               !.resolvable = known]

Sysusers == E("sysusers", "host.sysusers", <<"a">>)
Sudoers == E("sudoers", "host.sudoers", <<"a">>)
Keys == E("keys", "host.authorized_keys", <<"a">>)
Conf == E("conf", "service.config", <<"a", "b">>)
Large == E("large", "service.config", <<"a", "b", "a">>)

SomeManifests ==
  { {Sysusers, Sudoers, Conf},
    {Sysusers, Sudoers, Keys, Dir("d", {"mode", "owner"}, TRUE)},
    {Sysusers, Sudoers, Dir("d", {"mode", "owner"}, FALSE), Large},
    {Sysusers, Sudoers, Dir("d", {}, TRUE)},
    {Sysusers, Conf},
    {Sysusers, Sudoers, Conf, [Conf EXCEPT !.render = "other"]},
    {Sysusers, [Sudoers EXCEPT !.fixed = FALSE], Conf},
    Malformed }
=============================================================================
