---------------------------- MODULE Composition ----------------------------
(* How services, and hosts, include one another (utils/composition.py): the  *)
(* order of an include chain, its cycles and missing members, and what a      *)
(* field of a composition comes to when each member may override it.          *)
EXTENDS Naturals, Sequences, SequencesExt

CONSTANT Services   \* the names that definitions, mapping and zones may use

\* A walk under way: the order so far, who is still to be visited, and who is
\* being visited.  inc[m] lists what m includes; what is not in DOMAIN inc has
\* no file.
Walks(inc) ==
  [order : Seq(Services), todo : Seq(Services), stack : SUBSET DOMAIN inc]

\* What a walk comes to.
Ends == [order : Seq(Services), ok : BOOLEAN]

\* The walk past its next member, below it, and after it.
Past(walk) ==
  [order |-> walk.order, todo |-> Tail(walk.todo), stack |-> walk.stack]
Below(inc, walk) ==
  [order |-> walk.order, todo |-> inc[Head(walk.todo)],
   stack |-> walk.stack \union {Head(walk.todo)}]
After(walk, order) ==
  [order |-> Append(order, Head(walk.todo)), todo |-> Tail(walk.todo),
   stack |-> walk.stack]

\* Mutant of Visit: a member comes before what it includes.
VisitEarly(visit, inc, walk) ==
  LET m == Head(walk.todo)
      below == visit[[Below(inc, walk) EXCEPT !.order = Append(@, m)]]
  IN CASE walk.todo = <<>> -> [order |-> walk.order, ok |-> TRUE]
       [] walk.todo # <<>> /\ m \in ToSet(walk.order) -> visit[Past(walk)]
       [] walk.todo # <<>> /\ m \notin ToSet(walk.order) ->
            IF m \in walk.stack \/ m \notin DOMAIN inc
            THEN [order |-> walk.order, ok |-> FALSE]
            ELSE IF below.ok THEN visit[[Past(walk) EXCEPT !.order = below.order]] ELSE below

\* The depth-first walk: what is included comes before the member, nobody comes
\* twice, and a member that is being visited or has no file is an error.
Visit(visit, inc, walk) ==
  LET m == Head(walk.todo)
      below == visit[Below(inc, walk)]
  IN CASE walk.todo = <<>> -> [order |-> walk.order, ok |-> TRUE]
       [] walk.todo # <<>> /\ m \in ToSet(walk.order) -> visit[Past(walk)]
       [] walk.todo # <<>> /\ m \notin ToSet(walk.order) ->
            IF m \in walk.stack \/ m \notin DOMAIN inc
            THEN [order |-> walk.order, ok |-> FALSE]
            ELSE IF below.ok THEN visit[After(walk, below.order)] ELSE below

\* walk_mapping_includes: one walk over the services of a host.
ChainOfAll(inc, members) ==
  LET visit[walk \in Walks(inc)] == Visit(visit, inc, walk)
  IN visit[[order |-> <<>>, todo |-> members, stack |-> {}]]

\* walk_service_includes and walk_host_includes.
Chain(inc, member) == ChainOfAll(inc, <<member>>)

\* resolve_composition, of one field: own[m] is <<>> where m does not set it and
\* <<value>> where it does; later members of the chain override.
Resolved(own, order, default) ==
  LET setting == {i \in DOMAIN order : own[order[i]] # <<>>}
  IN IF setting = {} THEN default
     ELSE own[order[Max(setting)]][1]

-----------------------------------------------------------------------------
\* A reference for the walk: who is reached, and whether the graph allows an order.

\* The sets that have what their members include.
Closed(inc) == {T \in SUBSET Services : \A m \in T \intersect DOMAIN inc : ToSet(inc[m]) \subseteq T}

\* The least of them that has S.
Reached(inc, S) ==
  LET closed == Closed(inc)
  IN {m \in Services : \A T \in closed : S \subseteq T => m \in T}

Orderable(inc, S) ==
  LET reached == Reached(inc, S)
  IN /\ reached \subseteq DOMAIN inc
     /\ \A m \in reached : m \notin Reached(inc, ToSet(inc[m]))

\* The walk succeeds exactly on acyclic and complete chains, and then lists
\* everything reached once and every include before its includer
\* (composition.py:10).
WalkIsExact(inc, members) ==
  LET walk == ChainOfAll(inc, members)
  IN /\ walk.ok = Orderable(inc, ToSet(members))
     /\ walk.ok => /\ ToSet(walk.order) = Reached(inc, ToSet(members))
                   /\ IsInjective(walk.order)
                   /\ \A i, j \in DOMAIN walk.order :
                        walk.order[j] \in ToSet(inc[walk.order[i]]) => j < i
=============================================================================
