---------------------------- MODULE QuadletHosts ----------------------------
(* What the renderer of containers may be asked to render (Quadlets).         *)
EXTENDS Sequences, SequencesExt

CONSTANT Hosts  \* the services a host may run, in the order of the mapping

\* Names are words joined by dashes; "host" stands for no user.
ASSUME HostsAssumption ==
  \A host \in Hosts :
    /\ host \in Seq(ToSet(host))
    /\ \A s \in ToSet(host) :
         /\ s.name \in Seq(ToSet(s.name)) /\ s.name # <<>>
         /\ s.user # "host" /\ s.pod \in BOOLEAN
         /\ s.containers \in Seq(ToSet(s.containers))
         /\ \A c \in ToSet(s.containers) : c.volumes \in Seq(ToSet(c.volumes))
=============================================================================
