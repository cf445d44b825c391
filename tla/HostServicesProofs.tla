------------------------- MODULE HostServicesProofs -------------------------
(***************************************************************************)
(* Theorems about the accounts and the containers of a host.               *)
(*                                                                         *)
(* Users, for every chain of declarations and every order of names: what   *)
(* is declared is what the host gets, no identity means two things, and    *)
(* what can be found early is.  Quadlets, for every set of services: where *)
(* the mounts of the containers lead, whose the mounted paths are, and     *)
(* what the units of the manifest require.                                 *)
(***************************************************************************)
EXTENDS Users, Quadlets, WellFoundedInduction, TLAPS

-----------------------------------------------------------------------------
(* Users: why the theorems hold. *)

\* The members that are merged.
Merged == {declared[i] : i \in 1..(Len(declared) - Len(left))}

ChainInv ==
  /\ declared \in Chains
  /\ Len(left) \in Nat /\ Len(left) <= Len(declared)
  /\ left = SubSeq(declared, Len(declared) - Len(left) + 1, Len(declared))

\* What was merged says what the members said, and nothing that none of them said.
AccountsInv ==
  /\ DOMAIN merged.users = UNION {DOMAIN m.users : m \in Merged}
  /\ \A m \in Merged : \A u \in DOMAIN m.users : \A f \in Scalars :
       m.users[u][f] # None => merged.users[u][f] = m.users[u][f]
  /\ \A u \in DOMAIN merged.users : \A f \in Scalars :
       \/ merged.users[u][f] = None
       \/ \E m \in Merged : u \in DOMAIN m.users /\ merged.users[u][f] = m.users[u][f]
  /\ \A u \in DOMAIN merged.users : \A f \in Lists :
       merged.users[u][f] = UNION {Says(m, u)[f] : m \in Merged}

GroupsInv ==
  /\ DOMAIN merged.groups = UNION {DOMAIN m.groups : m \in Merged}
  /\ \A g \in DOMAIN merged.groups :
       \/ merged.groups[g] = None
       \/ \E m \in Merged : g \in DOMAIN m.groups /\ merged.groups[g] = m.groups[g]

SudoersInv ==
  UNION Range(merged.sudoers) = UNION {UNION Range(m.sudoers) : m \in Merged}

\* What the stages know: nothing is merged that did not pass the early checks, a
\* failure has its reason, and files are written of what passed the late ones.
StageInv ==
  /\ stage \in {"merge", "failed", "done"} => EarlyChecksPass
  /\ stage = "failed" => left = <<>> \/ MergeConflict(merged, Head(left))
  /\ stage = "done" =>
       left = <<>> /\ DeclaredIdsOk(merged) /\ RangesOk(merged) /\ written = FilesOf(merged)

UsersInv == ChainInv /\ AccountsInv /\ GroupsInv /\ SudoersInv /\ StageInv

-----------------------------------------------------------------------------
(* The merge. *)

LEMMA ChainIsSequence ==
  ASSUME declared \in Chains
  PROVE  declared \in Seq(Members) /\ DOMAIN declared = 1..Len(declared) /\ Len(declared) \in Nat
BY ChainsAssumption DEF Members

\* A step that merges takes the next member of the chain.
LEMMA NextMember ==
  ASSUME ChainInv, left # <<>>
  PROVE  /\ Head(left) \in Members
         /\ Len(Tail(left)) \in Nat /\ Len(Tail(left)) <= Len(declared)
         /\ Tail(left) = SubSeq(declared, Len(declared) - Len(Tail(left)) + 1, Len(declared))
         /\ {declared[i] : i \in 1..(Len(declared) - Len(Tail(left)))} = Merged \union {Head(left)}
<1> DEFINE n == Len(declared)
           k == Len(left)
<1>1. declared \in Seq(Members) /\ n \in Nat /\ DOMAIN declared = 1..n
  BY ChainIsSequence DEF ChainInv
<1>2. k \in Nat /\ k <= n /\ left = SubSeq(declared, n - k + 1, n)
  BY DEF ChainInv
<1>3. left \in Seq(Members) /\ k > 0
  <2>1. n - k + 1 \in Nat /\ \A i \in (n - k + 1)..n : declared[i] \in Members
    BY <1>1, <1>2
  <2>2. left = [i \in 1..(n - (n - k + 1) + 1) |-> declared[i + (n - k + 1) - 1]]
    BY <1>1, <1>2
  <2>3. \A i \in 1..(n - (n - k + 1) + 1) : declared[i + (n - k + 1) - 1] \in Members
    BY <1>1, <1>2
  <2>4. left \in Seq(Members)
    BY <1>1, <1>2, <2>2, <2>3
  <2> QED BY <1>2, <2>4
<1>4. Head(left) = declared[n - k + 1] /\ n - k + 1 \in 1..n
  BY <1>1, <1>2, <1>3
<1>5. Len(Tail(left)) = k - 1
  BY <1>3
<1>6. Tail(left) = SubSeq(declared, n - (k - 1) + 1, n)
  BY <1>1, <1>2, <1>3
<1>7. 1..(n - (k - 1)) = 1..(n - k) \union {n - k + 1}
  BY <1>1, <1>2, <1>3
<1>8. {declared[i] : i \in 1..(n - (k - 1))} = {declared[i] : i \in 1..(n - k)} \union {declared[n - k + 1]}
  BY <1>7
<1>9. Head(left) \in Members
  BY <1>1, <1>4
<1>10. {declared[i] : i \in 1..(n - Len(Tail(left)))} = Merged \union {Head(left)}
  BY <1>4, <1>5, <1>8 DEF Merged
<1> HIDE DEF n
<1>11. k - 1 \in Nat /\ k - 1 <= n
  BY <1>1, <1>2, <1>3
<1>12. Len(Tail(left)) \in Nat /\ Len(Tail(left)) <= n
       /\ Tail(left) = SubSeq(declared, n - Len(Tail(left)) + 1, n)
  BY <1>5, <1>6, <1>11
<1> QED BY <1>9, <1>10, <1>12 DEF n

LEMMA AllMerged == ASSUME ChainInv, left = <<>> PROVE Merged = Members
<1>1. declared \in Seq(Members) /\ DOMAIN declared = 1..Len(declared) /\ Len(declared) \in Nat
  BY ChainIsSequence DEF ChainInv
<1>2. Len(left) = 0
  OBVIOUS
<1> QED BY <1>1, <1>2 DEF Merged, Members, ToSet

LEMMA MergedAreMembers == ASSUME ChainInv PROVE Merged \subseteq Members
<1>1. declared \in Seq(Members) /\ DOMAIN declared = 1..Len(declared) /\ Len(declared) \in Nat
  BY ChainIsSequence DEF ChainInv
<1>2. Len(left) \in Nat /\ Len(left) <= Len(declared)
  BY DEF ChainInv
<1> QED BY <1>1, <1>2 DEF Merged, Members, ToSet

LEMMA MergedAccount ==
  ASSUME NEW m, NEW x, NEW u \in DOMAIN Merge(x, m).users, NEW f \in Scalars \union Lists
  PROVE  /\ DOMAIN Merge(x, m).users = DOMAIN x.users \union DOMAIN m.users
         /\ f \in Lists => Merge(x, m).users[u][f]
                             = Known(x.users, u, Plain)[f] \union Known(m.users, u, Plain)[f]
         /\ f \in Scalars => Merge(x, m).users[u][f]
                               = IF Known(m.users, u, Plain)[f] = None
                                 THEN Known(x.users, u, Plain)[f]
                                 ELSE Known(m.users, u, Plain)[f]
<1>1. f \in Scalars => f \notin Lists
  BY DEF Scalars, Lists
<1>2. /\ DOMAIN Merge(x, m).users = DOMAIN x.users \union DOMAIN m.users
      /\ Merge(x, m).users[u] = MergeUser(Known(x.users, u, Plain), Known(m.users, u, Plain))
  BY DEF Merge
<1> QED BY <1>1, <1>2 DEF MergeUser

LEMMA PlainSaysNothing ==
  (\A f \in Scalars : Plain[f] = None) /\ (\A f \in Lists : Plain[f] = {})
BY DEF Plain, Scalars, Lists

LEMMA AccountsStep ==
  ASSUME UsersInv, MergeMember, ~MergeConflict(merged, Head(left))
  PROVE  AccountsInv'
<1> DEFINE m == Head(left)
           new == merged'.users
           old == merged.users
<1>1. merged' = Merge(merged, m) /\ left' = Tail(left) /\ declared' = declared /\ left # <<>>
  BY DEF MergeMember
<1>2. Merged' = Merged \union {m}
  BY <1>1, NextMember DEF UsersInv, Merged
<1>3. \A u \in DOMAIN m.users : \A f \in Scalars : ~Differ(Known(old, u, Plain)[f], m.users[u][f])
  BY DEF MergeConflict, UserConflict
<1>4. /\ DOMAIN old = UNION {DOMAIN d.users : d \in Merged}
      /\ \A d \in Merged : \A u \in DOMAIN d.users : \A f \in Scalars :
           d.users[u][f] # None => old[u][f] = d.users[u][f]
      /\ \A u \in DOMAIN old : \A f \in Scalars :
           \/ old[u][f] = None
           \/ \E d \in Merged : u \in DOMAIN d.users /\ old[u][f] = d.users[u][f]
      /\ \A u \in DOMAIN old : \A f \in Lists :
           old[u][f] = UNION {Says(d, u)[f] : d \in Merged}
  BY DEF UsersInv, AccountsInv
<1>5. DOMAIN new = DOMAIN old \union DOMAIN m.users
  BY <1>1 DEF Merge
<1> HIDE DEF m
<1>6. ASSUME NEW u \in DOMAIN new, NEW f \in Scalars
      PROVE  new[u][f] = IF Known(m.users, u, Plain)[f] = None THEN Known(old, u, Plain)[f]
                         ELSE Known(m.users, u, Plain)[f]
  BY <1>1, MergedAccount
<1>7. ASSUME NEW u \in DOMAIN new, NEW f \in Lists
      PROVE  new[u][f] = Known(old, u, Plain)[f] \union Known(m.users, u, Plain)[f]
  BY <1>1, MergedAccount
<1> HIDE DEF new, old
<1>8. DOMAIN new = UNION {DOMAIN d.users : d \in Merged'}
  BY <1>2, <1>4, <1>5
<1>9. ASSUME NEW d \in Merged', NEW u \in DOMAIN d.users, NEW f \in Scalars,
             d.users[u][f] # None
      PROVE  new[u][f] = d.users[u][f]
  <2>1. u \in DOMAIN new
    BY <1>8
  <2>2. CASE d = m
    <3>1. Known(m.users, u, Plain) = d.users[u]
      BY <2>2 DEF Known
    <3> QED BY <1>6, <1>9, <2>1, <3>1
  <2>3. CASE d \in Merged
    <3>1. u \in DOMAIN old /\ old[u][f] = d.users[u][f] /\ Known(old, u, Plain) = old[u]
      BY <1>4, <1>9, <2>3 DEF Known
    <3>2. CASE u \notin DOMAIN m.users
      <4>1. Known(m.users, u, Plain)[f] = None
        BY <3>2, PlainSaysNothing DEF Known
      <4> QED BY <1>6, <2>1, <3>1, <4>1
    <3>3. CASE u \in DOMAIN m.users
      <4>1. Known(m.users, u, Plain) = m.users[u] /\ ~Differ(old[u][f], m.users[u][f])
        BY <1>3, <3>1, <3>3 DEF Known
      <4>2. m.users[u][f] = None \/ m.users[u][f] = old[u][f]
        BY <1>9, <3>1, <4>1 DEF Differ
      <4> QED BY <1>6, <2>1, <3>1, <4>1, <4>2
    <3> QED BY <3>2, <3>3
  <2> QED BY <1>2, <2>2, <2>3
<1>10. ASSUME NEW u \in DOMAIN new, NEW f \in Scalars, new[u][f] # None
       PROVE  \E d \in Merged' : u \in DOMAIN d.users /\ new[u][f] = d.users[u][f]
  <2>1. CASE Known(m.users, u, Plain)[f] # None
    <3>1. u \in DOMAIN m.users /\ Known(m.users, u, Plain) = m.users[u]
      BY <2>1, PlainSaysNothing DEF Known
    <3> QED BY <1>2, <1>6, <2>1, <3>1
  <2>2. CASE Known(m.users, u, Plain)[f] = None
    <3>1. new[u][f] = Known(old, u, Plain)[f]
      BY <1>6, <2>2
    <3>2. u \in DOMAIN old /\ new[u][f] = old[u][f]
      BY <1>10, <3>1, PlainSaysNothing DEF Known
    <3> QED BY <1>2, <1>4, <1>10, <3>2
  <2> QED BY <2>1, <2>2
<1>11. ASSUME NEW u \in DOMAIN new, NEW f \in Lists
       PROVE  new[u][f] = UNION {Says(d, u)[f] : d \in Merged'}
  <2>1. Known(m.users, u, Plain)[f] = Says(m, u)[f]
    BY DEF Says
  <2>2. Known(old, u, Plain)[f] = UNION {Says(d, u)[f] : d \in Merged}
    <3>1. CASE u \in DOMAIN old
      BY <1>4, <3>1 DEF Known
    <3>2. CASE u \notin DOMAIN old
      <4>1. \A d \in Merged : Says(d, u)[f] = {}
        BY <1>4, <3>2, PlainSaysNothing DEF Says, Known
      <4>2. Known(old, u, Plain)[f] = {}
        BY <3>2, PlainSaysNothing DEF Known
      <4> QED BY <4>1, <4>2
    <3> QED BY <3>1, <3>2
  <2>3. UNION {Says(d, u)[f] : d \in Merged'}
          = (UNION {Says(d, u)[f] : d \in Merged}) \union Says(m, u)[f]
    BY <1>2
  <2> QED BY <1>7, <2>1, <2>2, <2>3
<1> QED BY <1>8, <1>9, <1>10, <1>11 DEF AccountsInv, new

LEMMA GroupsStep ==
  ASSUME UsersInv, MergeMember, ~MergeConflict(merged, Head(left))
  PROVE  GroupsInv'
<1> DEFINE m == Head(left)
<1>1. merged' = Merge(merged, m) /\ left' = Tail(left) /\ declared' = declared /\ left # <<>>
  BY DEF MergeMember
<1>2. Merged' = Merged \union {m}
  BY <1>1, NextMember DEF UsersInv, Merged
<1>3. /\ DOMAIN merged.groups = UNION {DOMAIN d.groups : d \in Merged}
      /\ \A g \in DOMAIN merged.groups :
           \/ merged.groups[g] = None
           \/ \E d \in Merged : g \in DOMAIN d.groups /\ merged.groups[g] = d.groups[g]
  BY DEF UsersInv, GroupsInv
<1>4. merged'.groups = [g \in DOMAIN merged.groups \union DOMAIN m.groups |->
                         IF Known(m.groups, g, None) = None THEN Known(merged.groups, g, None)
                         ELSE m.groups[g]]
  BY <1>1 DEF Merge
<1> HIDE DEF m
<1>5. DOMAIN merged'.groups = UNION {DOMAIN d.groups : d \in Merged'}
  BY <1>2, <1>3, <1>4
<1>6. ASSUME NEW g \in DOMAIN merged'.groups, merged'.groups[g] # None
      PROVE  \E d \in Merged' : g \in DOMAIN d.groups /\ merged'.groups[g] = d.groups[g]
  <2>1. CASE Known(m.groups, g, None) # None
    <3>1. g \in DOMAIN m.groups /\ merged'.groups[g] = m.groups[g]
      BY <1>4, <2>1 DEF Known
    <3> QED BY <1>2, <3>1
  <2>2. CASE Known(m.groups, g, None) = None
    <3>1. g \in DOMAIN merged.groups /\ merged'.groups[g] = merged.groups[g]
      BY <1>4, <1>6, <2>2 DEF Known
    <3> QED BY <1>2, <1>3, <1>6, <3>1
  <2> QED BY <2>1, <2>2
<1> QED BY <1>5, <1>6 DEF GroupsInv

LEMMA SudoersStep ==
  ASSUME UsersInv, MergeMember, ~MergeConflict(merged, Head(left))
  PROVE  SudoersInv'
<1> DEFINE m == Head(left)
           new == merged'.sudoers
           old == merged.sudoers
<1>1. merged' = Merge(merged, m) /\ left' = Tail(left) /\ declared' = declared /\ left # <<>>
  BY DEF MergeMember
<1>2. Merged' = Merged \union {m}
  BY <1>1, NextMember DEF UsersInv, Merged
<1>3. UNION Range(old) = UNION {UNION Range(d.sudoers) : d \in Merged}
  BY DEF UsersInv, SudoersInv
<1>4. new = [n \in DOMAIN old \union DOMAIN m.sudoers |->
              Known(old, n, {}) \union Known(m.sudoers, n, {})]
  BY <1>1 DEF Merge
<1> HIDE DEF m, new, old
<1>5. UNION Range(new) = (UNION Range(old)) \union (UNION Range(m.sudoers))
  <2>1. ASSUME NEW n \in DOMAIN old \union DOMAIN m.sudoers
        PROVE  /\ new[n] = Known(old, n, {}) \union Known(m.sudoers, n, {})
               /\ n \in DOMAIN old => Known(old, n, {}) = old[n]
               /\ n \notin DOMAIN old => Known(old, n, {}) = {}
               /\ n \in DOMAIN m.sudoers => Known(m.sudoers, n, {}) = m.sudoers[n]
               /\ n \notin DOMAIN m.sudoers => Known(m.sudoers, n, {}) = {}
    BY <1>4 DEF Known
  <2>2. DOMAIN new = DOMAIN old \union DOMAIN m.sudoers
    BY <1>4
  <2>3. ASSUME NEW r \in UNION Range(new) PROVE r \in (UNION Range(old)) \union (UNION Range(m.sudoers))
    BY <2>1, <2>2 DEF Range
  <2>4. ASSUME NEW r \in UNION Range(old) PROVE r \in UNION Range(new)
    BY <2>1, <2>2 DEF Range
  <2>5. ASSUME NEW r \in UNION Range(m.sudoers) PROVE r \in UNION Range(new)
    BY <2>1, <2>2 DEF Range
  <2> QED BY <2>3, <2>4, <2>5
<1>6. UNION {UNION Range(d.sudoers) : d \in Merged'}
        = (UNION {UNION Range(d.sudoers) : d \in Merged}) \union (UNION Range(m.sudoers))
  BY <1>2
<1>7. UNION Range(new) = UNION {UNION Range(d.sudoers) : d \in Merged'}
  BY <1>3, <1>5, <1>6
<1> QED BY <1>7 DEF SudoersInv, new

LEMMA InitUsersInv == Init => UsersInv
<1> SUFFICES ASSUME Init PROVE UsersInv
  OBVIOUS
<1>1. ChainInv
  <2>1. declared \in Chains /\ left = declared
    BY DEF Init
  <2>2. declared \in Seq(Members) /\ Len(declared) \in Nat
    BY <2>1, ChainIsSequence
  <2> QED BY <2>1, <2>2 DEF ChainInv
<1>2. Merged = {}
  <2>1. Len(declared) \in Nat /\ left = declared
    BY <1>1 DEF Init, ChainInv
  <2> QED BY <2>1 DEF Merged
<1>3. DOMAIN merged.users = {} /\ DOMAIN merged.groups = {} /\ DOMAIN merged.sudoers = {}
  BY DEF Init, Nothing
<1>4. UNION Range(merged.sudoers) = {}
  BY <1>3 DEF Range
<1>5. StageInv
  BY DEF Init, StageInv
<1> QED BY <1>1, <1>2, <1>3, <1>4, <1>5 DEF UsersInv, AccountsInv, GroupsInv, SudoersInv

LEMMA StepUsersInv ==
  ASSUME UsersInv, [Next]_vars
  PROVE  UsersInv'
<1>1. CASE MergeMember /\ ~MergeConflict(merged, Head(left))
  <2>1. /\ merged' = Merge(merged, Head(left)) /\ left' = Tail(left) /\ declared' = declared
        /\ left # <<>> /\ stage' = "merge" /\ stage = "merge"
    BY <1>1 DEF MergeMember
  <2>2. ChainInv'
    BY <2>1, NextMember DEF UsersInv, ChainInv
  <2>3. EarlyChecksPass' = EarlyChecksPass
    BY <2>1 DEF EarlyChecksPass, Members, UserNames, GroupNames, DeclaredUids, DeclaredGids
  <2>4. StageInv'
    BY <2>1, <2>3 DEF UsersInv, StageInv
  <2> QED BY <1>1, <2>2, <2>4, AccountsStep, GroupsStep, SudoersStep DEF UsersInv
<1>2. CASE Validate \/ Write \/ (MergeMember /\ MergeConflict(merged, Head(left))) \/ UNCHANGED vars
  <2>1. declared' = declared /\ left' = left /\ merged' = merged
    BY <1>2 DEF Validate, Write, MergeMember, vars
  <2>2. Merged' = Merged
    BY <2>1 DEF Merged
  <2>3. ChainInv' /\ AccountsInv' /\ GroupsInv' /\ SudoersInv'
    BY <2>1, <2>2 DEF UsersInv, ChainInv, AccountsInv, GroupsInv, SudoersInv
  <2>4. EarlyChecksPass' = EarlyChecksPass
    BY <2>1 DEF EarlyChecksPass, Members, UserNames, GroupNames, DeclaredUids, DeclaredGids
  <2>5. StageInv'
    <3>1. CASE Validate
      BY <2>1, <2>4, <3>1 DEF Validate, UsersInv, StageInv
    <3>2. CASE Write
      BY <2>1, <2>4, <3>2 DEF Write, UsersInv, StageInv
    <3>3. CASE MergeMember /\ MergeConflict(merged, Head(left))
      BY <2>1, <2>4, <3>3 DEF MergeMember, UsersInv, StageInv
    <3>4. CASE UNCHANGED vars
      BY <2>1, <2>4, <3>4 DEF vars, UsersInv, StageInv
    <3> QED BY <1>2, <3>1, <3>2, <3>3, <3>4
  <2> QED BY <2>3, <2>5 DEF UsersInv
<1> QED BY <1>1, <1>2 DEF Next

\* The invariant of the merge, which is inductive.
THEOREM MergeHolds == Spec => []UsersInv
<1>1. UsersInv /\ [Next]_vars => UsersInv'
  BY StepUsersInv
<1> QED BY <1>1, InitUsersInv, PTL DEF Spec

-----------------------------------------------------------------------------
(* What the early checks leave for the late ones. *)

\* What a user is merged to, some member said; so with a group.
LEMMA SaidByMember ==
  ASSUME UsersInv
  PROVE  /\ \A u : \A f \in Scalars : Says(merged, u)[f] # None =>
              \E m \in Members : u \in DOMAIN m.users /\ Says(m, u)[f] = Says(merged, u)[f]
         /\ \A g : Known(merged.groups, g, None) # None =>
              \E m \in Members : g \in DOMAIN m.groups
                                 /\ Known(m.groups, g, None) = Known(merged.groups, g, None)
<1>1. Merged \subseteq Members
  BY MergedAreMembers DEF UsersInv
<1>2. ASSUME NEW u, NEW f \in Scalars, Says(merged, u)[f] # None
      PROVE  \E m \in Members : u \in DOMAIN m.users /\ Says(m, u)[f] = Says(merged, u)[f]
  <2>1. u \in DOMAIN merged.users /\ Says(merged, u) = merged.users[u]
    BY <1>2, PlainSaysNothing DEF Says, Known
  <2>2. PICK m \in Merged : u \in DOMAIN m.users /\ merged.users[u][f] = m.users[u][f]
    BY <1>2, <2>1 DEF UsersInv, AccountsInv
  <2> QED BY <1>1, <2>1, <2>2 DEF Says, Known
<1>3. ASSUME NEW g, Known(merged.groups, g, None) # None
      PROVE  \E m \in Members : g \in DOMAIN m.groups
                                /\ Known(m.groups, g, None) = Known(merged.groups, g, None)
  <2>1. g \in DOMAIN merged.groups /\ Known(merged.groups, g, None) = merged.groups[g]
    BY <1>3 DEF Known
  <2>2. PICK m \in Merged : g \in DOMAIN m.groups /\ merged.groups[g] = m.groups[g]
    BY <1>3, <2>1 DEF UsersInv, GroupsInv
  <2> QED BY <1>1, <2>1, <2>2 DEF Known
<1> QED BY <1>2, <1>3

\* After the early checks the next member contradicts nothing but the subordinate
\* ranges.
LEMMA RangesConflict ==
  ASSUME UsersInv, EarlyChecksPass, left # <<>>, MergeConflict(merged, Head(left))
  PROVE  \E u \in DOMAIN Head(left).users :
           Differ(Says(merged, u).rootless, Head(left).users[u].rootless)
<1> DEFINE m == Head(left)
<1>1. m \in Members
  BY NextMember DEF UsersInv
<1> HIDE DEF m
<1>2. ASSUME NEW g \in DOMAIN m.groups, Differ(Known(merged.groups, g, None), m.groups[g])
      PROVE  FALSE
  <2>1. Known(merged.groups, g, None) # None /\ m.groups[g] # None
        /\ Known(merged.groups, g, None) # m.groups[g]
    BY <1>2 DEF Differ
  <2>2. PICK d \in Members : Known(d.groups, g, None) = Known(merged.groups, g, None)
    BY <2>1, SaidByMember
  <2>3. Known(m.groups, g, None) = m.groups[g] /\ g \in GroupNames
    BY <1>1 DEF Known, GroupNames
  <2>4. Known(d.groups, g, None) \in DeclaredGids(g) /\ Known(m.groups, g, None) \in DeclaredGids(g)
    BY <1>1, <2>1, <2>2, <2>3 DEF DeclaredGids
  <2> QED BY <2>1, <2>2, <2>3, <2>4 DEF EarlyChecksPass
<1>3. ASSUME NEW u \in DOMAIN m.users, NEW f \in Scalars \ {"rootless"},
             Differ(Says(merged, u)[f], m.users[u][f])
      PROVE  FALSE
  <2>1. Says(merged, u)[f] # None /\ Says(m, u) = m.users[u]
    BY <1>3 DEF Differ, Says, Known
  <2>2. PICK d \in Members : Says(d, u)[f] = Says(merged, u)[f]
    BY <2>1, SaidByMember
  <2>3. u \in UserNames /\ Differ(Says(d, u)[f], Says(m, u)[f])
    BY <1>1, <1>3, <2>1, <2>2 DEF UserNames
  <2> QED BY <1>1, <2>3 DEF EarlyChecksPass
<1>4. PICK u \in DOMAIN m.users : UserConflict(Says(merged, u), m.users[u])
  BY <1>2 DEF MergeConflict, Says, m
<1>5. PICK f \in Scalars : Differ(Says(merged, u)[f], m.users[u][f])
  BY <1>4 DEF UserConflict
<1>6. f = "rootless"
  BY <1>3, <1>5
<1> QED BY <1>5, <1>6 DEF m

\* After the early checks no declared identity is used twice.
LEMMA DeclaredIdsDiffer ==
  ASSUME UsersInv, EarlyChecksPass
  PROVE  DeclaredIdsOk(merged)
<1>1. ASSUME NEW x \in DOMAIN merged.users, NEW y \in DOMAIN merged.users, x # y,
             merged.users[x].uid # None, merged.users[x].uid = merged.users[y].uid
      PROVE  FALSE
  <2>1. /\ Says(merged, x) = merged.users[x] /\ Says(merged, y) = merged.users[y]
        /\ "uid" \in Scalars
    BY DEF Says, Known, Scalars
  <2>2. PICK d \in Members : x \in DOMAIN d.users /\ Says(d, x)["uid"] = Says(merged, x)["uid"]
    BY <1>1, <2>1, SaidByMember
  <2>3. PICK e \in Members : y \in DOMAIN e.users /\ Says(e, y)["uid"] = Says(merged, y)["uid"]
    BY <1>1, <2>1, SaidByMember
  <2>4. merged.users[x].uid \in DeclaredUids(x) /\ merged.users[x].uid \in DeclaredUids(y)
    BY <1>1, <2>1, <2>2, <2>3 DEF DeclaredUids
  <2>5. x \in UserNames /\ y \in UserNames
    BY <2>2, <2>3 DEF UserNames
  <2> QED BY <1>1, <2>4, <2>5 DEF EarlyChecksPass
<1>2. ASSUME NEW x \in DOMAIN merged.groups, NEW y \in DOMAIN merged.groups, x # y,
             merged.groups[x] # None, merged.groups[x] = merged.groups[y]
      PROVE  FALSE
  <2>1. /\ Known(merged.groups, x, None) = merged.groups[x]
        /\ Known(merged.groups, y, None) = merged.groups[y]
    BY DEF Known
  <2>2. PICK d \in Members : x \in DOMAIN d.groups /\ Known(d.groups, x, None) = merged.groups[x]
    BY <1>2, <2>1, SaidByMember
  <2>3. PICK e \in Members : y \in DOMAIN e.groups /\ Known(e.groups, y, None) = merged.groups[y]
    BY <1>2, <2>1, SaidByMember
  <2>4. merged.groups[x] \in DeclaredGids(x) /\ merged.groups[x] \in DeclaredGids(y)
    BY <1>2, <2>2, <2>3 DEF DeclaredGids
  <2>5. x \in GroupNames /\ y \in GroupNames
    BY <2>2, <2>3 DEF GroupNames
  <2> QED BY <1>2, <2>4, <2>5 DEF EarlyChecksPass
<1>3. Distinct(Uids(merged), DOMAIN merged.users)
  BY <1>1 DEF Distinct, Uids
<1>4. Distinct(merged.groups, DOMAIN merged.groups)
  BY <1>2 DEF Distinct
<1> QED BY <1>3, <1>4 DEF DeclaredIdsOk

\* After the output is emptied the accounts of a host can fail about subordinate
\* ranges only, as far as the numbers and the scalars of the chain go
\* (validation/users.py:13).
THEOREM FailuresAreEarly == Spec => []EarlyChecksCatch
<1>1. ASSUME UsersInv PROVE EarlyChecksCatch
  <2>1. SUFFICES ASSUME stage = "failed"
                 PROVE  /\ left # <<>> => \E u \in DOMAIN Head(left).users :
                             Differ(Says(merged, u).rootless, Head(left).users[u].rootless)
                        /\ left = <<>> => DeclaredIdsOk(merged)
    BY DEF EarlyChecksCatch
  <2>2. EarlyChecksPass /\ (left = <<>> \/ MergeConflict(merged, Head(left)))
    BY <1>1, <2>1 DEF UsersInv, StageInv
  <2>3. CASE left # <<>>
    BY <1>1, <2>2, <2>3, RangesConflict
  <2>4. CASE left = <<>>
    BY <1>1, <2>2, <2>4, DeclaredIdsDiffer
  <2> QED BY <2>3, <2>4
<1> QED BY <1>1, MergeHolds, PTL

-----------------------------------------------------------------------------
(* Identities. *)

\* Users are declared under names of the order.
LEMMA UsersAreOrdered == ASSUME UsersInv PROVE DOMAIN merged.users \subseteq ToSet(UserOrder)
<1>1. Merged \subseteq Members /\ declared \in Chains
  BY MergedAreMembers DEF UsersInv, ChainInv
<1>2. \A m \in Members : DOMAIN m.users \subseteq ToSet(UserOrder)
  BY <1>1, ChainsAssumption DEF Members
<1> QED BY <1>1, <1>2 DEF UsersInv, AccountsInv

\* Of two names one comes before the other.
LEMMA OrderIsTotal ==
  ASSUME NEW u \in ToSet(UserOrder), NEW v \in ToSet(UserOrder), u # v
  PROVE  Before(u, v) \/ Before(v, u)
<1>1. UserOrder \in Seq(ToSet(UserOrder))
  BY ChainsAssumption
<1>2. PICK i \in DOMAIN UserOrder : UserOrder[i] = u
  BY <1>1 DEF ToSet
<1>3. PICK j \in DOMAIN UserOrder : UserOrder[j] = v
  BY <1>1 DEF ToSet
<1>4. i \in Int /\ j \in Int /\ i # j
  BY <1>1, <1>2, <1>3
<1>5. i < j \/ j < i
  BY <1>4
<1> QED BY <1>2, <1>3, <1>5 DEF Before

\* The subordinate ranges of a merged account are numbers.
LEMMA RangesAreNumbers ==
  ASSUME UsersInv, NEW u \in Rootless(merged), NEW f \in {"subuid", "subgid"}
  PROVE  First(merged, u, f) \in Int /\ Beyond(merged, u, f) \in Int
<1>1. Merged \subseteq Members /\ declared \in Chains
  BY MergedAreMembers DEF UsersInv, ChainInv
<1>2. \A m \in Members : \A x \in DOMAIN m.users :
        m.users[x].rootless = None
          \/ m.users[x].rootless \in [subuid : Int, subgid : Int, count : Int]
  BY <1>1, ChainsAssumption DEF Members
<1>3. u \in DOMAIN merged.users /\ merged.users[u]["rootless"] # None /\ "rootless" \in Scalars
  BY DEF Rootless, Scalars
<1>4. PICK m \in Merged : u \in DOMAIN m.users
                          /\ merged.users[u]["rootless"] = m.users[u]["rootless"]
  BY <1>3 DEF UsersInv, AccountsInv
<1>5. merged.users[u].rootless \in [subuid : Int, subgid : Int, count : Int]
  BY <1>1, <1>2, <1>3, <1>4
<1>6. merged.users[u].rootless[f] \in Int /\ merged.users[u].rootless.count \in Int
  BY <1>5
<1> QED BY <1>6 DEF First, Beyond

\* No numeric identity of the host means two things (users.py:240, users.py:276).
THEOREM IdentitiesAreDisjoint == Spec => []IdsAreDisjoint
<1>1. ASSUME UsersInv PROVE IdsAreDisjoint
  <2> DEFINE spans(u, f) == First(merged, u, f)..(Beyond(merged, u, f) - 1)
             taken(f) == IF f = "subuid" THEN Range(Uids(merged)) ELSE Range(merged.groups)
  <2> SUFFICES ASSUME stage = "done"
               PROVE  /\ \A u, v \in DOMAIN written.accounts :
                           u # v /\ written.accounts[u].uid # None =>
                             written.accounts[u].uid # written.accounts[v].uid
                      /\ \A f \in {"subuid", "subgid"} : \A u, v \in Rootless(merged) :
                           /\ taken(f) \intersect spans(u, f) = {}
                           /\ u # v => spans(u, f) \intersect spans(v, f) = {}
    BY DEF IdsAreDisjoint
  <2>1. DeclaredIdsOk(merged) /\ RangesOk(merged) /\ written = FilesOf(merged)
    BY <1>1 DEF UsersInv, StageInv
  <2>2. \A u, v \in DOMAIN written.accounts :
          u # v /\ written.accounts[u].uid # None =>
            written.accounts[u].uid # written.accounts[v].uid
    <3>1. DOMAIN written.accounts = DOMAIN merged.users
          /\ \A u \in DOMAIN merged.users : written.accounts[u].uid = merged.users[u].uid
      BY <2>1 DEF FilesOf
    <3>2. \A x, y \in DOMAIN merged.users :
            x # y /\ merged.users[x].uid # None => merged.users[x].uid # merged.users[y].uid
      BY <2>1 DEF DeclaredIdsOk, Distinct, Uids
    <3> QED BY <3>1, <3>2
  <2>3. ASSUME NEW f \in {"subuid", "subgid"}, NEW u \in Rootless(merged)
        PROVE  taken(f) \intersect spans(u, f) = {}
    <3> DEFINE ids == IF f = "subuid" THEN Uids(merged) ELSE merged.groups
    <3>1. \A x \in DOMAIN ids : ids[x] # None =>
            ~(First(merged, u, f) <= ids[x] /\ ids[x] < Beyond(merged, u, f))
      BY <2>1 DEF RangesOk
    <3>2. First(merged, u, f) \in Int /\ Beyond(merged, u, f) \in Int
      BY <1>1, RangesAreNumbers
    <3>3. taken(f) = {ids[x] : x \in DOMAIN ids}
      BY DEF Range
    <3> HIDE DEF ids, taken
    <3>4. \A n \in spans(u, f) : n \in Int /\ First(merged, u, f) <= n /\ n < Beyond(merged, u, f)
                                 /\ n # None
      BY <3>2, IdsAssumption
    <3> HIDE DEF spans
    <3> QED BY <3>1, <3>3, <3>4
  <2>4. ASSUME NEW f \in {"subuid", "subgid"}, NEW u \in Rootless(merged),
               NEW v \in Rootless(merged), u # v
        PROVE  spans(u, f) \intersect spans(v, f) = {}
    <3>1. u \in ToSet(UserOrder) /\ v \in ToSet(UserOrder)
      BY <1>1, UsersAreOrdered DEF Rootless
    <3>2. Before(u, v) \/ Before(v, u)
      BY <2>4, <3>1, OrderIsTotal
    <3>3. ~RangesMeet(merged, u, v, f) \/ ~RangesMeet(merged, v, u, f)
      BY <2>1, <3>2 DEF RangesOk
    <3>4. /\ First(merged, u, f) \in Int /\ Beyond(merged, u, f) \in Int
          /\ First(merged, v, f) \in Int /\ Beyond(merged, v, f) \in Int
      BY <1>1, RangesAreNumbers
    <3>5. Beyond(merged, u, f) <= First(merged, v, f) \/ Beyond(merged, v, f) <= First(merged, u, f)
      BY <3>3, <3>4 DEF RangesMeet
    <3> QED BY <3>4, <3>5
  <2> HIDE DEF spans, taken
  <2> QED BY <2>2, <2>3, <2>4
<1> QED BY <1>1, MergeHolds, PTL

-----------------------------------------------------------------------------
(* Declarations. *)

\* Any set of numbers that has one has a smallest one.
LEMMA Smallest ==
  ASSUME NEW T \in SUBSET Nat, T # {}
  PROVE  \E x \in T : \A y \in T : x <= y
<1> DEFINE R == OpToRel(<, Nat)
<1>1. IsWellFoundedOn(R, Nat)
  BY NatLessThanWellFounded
<1>2. \A x, y \in Nat : <<y, x>> \in R <=> y < x
  BY DEF OpToRel
<1> HIDE DEF R
<1>3. PICK x \in T : \A y \in T : ~ (<<y, x>> \in R)
  BY <1>1, WFMin
<1>4. \A y \in T : ~(y < x)
  BY <1>2, <1>3
<1> QED BY <1>4

\* Some of the users with a home in common is the last.
LEMMA LastIsThere ==
  ASSUME NEW users \in SUBSET ToSet(UserOrder), users # {}
  PROVE  LastOf(users) \in users
         /\ \A v \in users : v = LastOf(users) \/ Before(v, LastOf(users))
<1> DEFINE n == Len(UserOrder)
           T == {k \in 0..n : UserOrder[n - k] \in users /\ n - k \in 1..n}
<1>1. n \in Nat /\ DOMAIN UserOrder = 1..n
  BY ChainsAssumption
<1>2. \A v \in users : \E k \in T : v = UserOrder[n - k]
  <2>1. TAKE v \in users
  <2>2. PICK i \in 1..n : UserOrder[i] = v
    BY <1>1 DEF ToSet
  <2>3. n - i \in 0..n /\ n - (n - i) = i
    BY <1>1, <2>2
  <2>4. n - i \in T
    BY <2>1, <2>2, <2>3
  <2> QED BY <2>2, <2>3, <2>4
<1>3. T \in SUBSET Nat /\ T # {}
  <2>1. T \subseteq 0..n /\ 0..n \subseteq Nat
    BY <1>1
  <2>2. \E v : v \in users
    OBVIOUS
  <2> HIDE DEF T
  <2> QED BY <1>2, <2>1, <2>2
<1>4. PICK k \in T : \A j \in T : k <= j
  BY <1>3, Smallest
<1>5. ASSUME NEW v \in users PROVE v = UserOrder[n - k] \/ Before(v, UserOrder[n - k])
  <2>1. PICK j \in T : v = UserOrder[n - j]
    BY <1>2
  <2>2. k \in 0..n /\ n - k \in 1..n /\ j \in 0..n /\ n - j \in 1..n /\ (k = j \/ n - j < n - k)
    BY <1>1, <1>4
  <2>3. CASE n - j < n - k
    BY <1>1, <2>1, <2>2, <2>3 DEF Before
  <2> QED BY <2>1, <2>2, <2>3
<1>6. \E x \in users : \A v \in users : v = x \/ Before(v, x)
  BY <1>4, <1>5
<1> QED BY <1>6 DEF LastOf

\* The file of a home has the keys of the last user with that home.
LEMMA KeysOfHome ==
  ASSUME UsersInv, NEW u \in DOMAIN merged.users, merged.users[u].keys # {},
         KeysHome(merged, u) # NoHome
  PROVE  LET home == KeysHome(merged, u)
             file == KeysFiles(merged)[home]
         IN /\ home \in DOMAIN KeysFiles(merged)
            /\ \/ file = [owner |-> u, keys |-> merged.users[u].keys]
               \/ Before(u, file.owner)
<1> DEFINE home == KeysHome(merged, u)
           sharing == KeysUsers(merged, home)
<1>1. u \in ToSet(UserOrder) /\ HasKeys(merged, u)
  BY UsersAreOrdered DEF HasKeys
<1>2. home \in {KeysHome(merged, x) : x \in {v \in ToSet(UserOrder) : HasKeys(merged, v)}}
  BY <1>1
<1>3. KeysFiles(merged)[home] = [owner |-> LastOf(sharing),
                                 keys |-> merged.users[LastOf(sharing)].keys]
  BY <1>2 DEF KeysFiles
<1>4. u \in sharing /\ sharing \in SUBSET ToSet(UserOrder)
  BY <1>1 DEF KeysUsers
<1>5. u = LastOf(sharing) \/ Before(u, LastOf(sharing))
  BY <1>4, LastIsThere
<1>6. home \in DOMAIN KeysFiles(merged)
  BY <1>2 DEF KeysFiles
<1> HIDE DEF sharing, home
<1> QED BY <1>3, <1>5, <1>6 DEF home

\* And that user has no other home.
LEMMA KeysOwner ==
  ASSUME UsersInv, NEW h \in DOMAIN KeysFiles(merged)
  PROVE  h = KeysHome(merged, KeysFiles(merged)[h].owner)
<1>1. KeysFiles(merged)[h].owner = LastOf(KeysUsers(merged, h))
  BY DEF KeysFiles
<1>2. PICK x \in ToSet(UserOrder) : HasKeys(merged, x) /\ h = KeysHome(merged, x)
  BY DEF KeysFiles
<1>3. x \in KeysUsers(merged, h) /\ KeysUsers(merged, h) \in SUBSET ToSet(UserOrder)
  BY <1>2 DEF KeysUsers
<1>4. LastOf(KeysUsers(merged, h)) \in KeysUsers(merged, h)
  BY <1>3, LastIsThere
<1> QED BY <1>1, <1>4 DEF KeysUsers

\* Every member of the chain has its way with the accounts, and the keys open the
\* account of their user and no other (users.py:138, users.py:315).
THEOREM DeclarationsHold == Spec => []EveryDeclarationHolds
<1>1. ASSUME UsersInv PROVE EveryDeclarationHolds
  <2> SUFFICES ASSUME stage = "done" PROVE EveryDeclarationHolds
    BY DEF EveryDeclarationHolds
  <2>1. written = FilesOf(merged) /\ Merged = Members
    BY <1>1, AllMerged DEF UsersInv, StageInv
  <2>2. \A m \in Members : \A u \in DOMAIN m.users : \A f \in Scalars :
          m.users[u][f] # None => merged.users[u][f] = m.users[u][f]
    BY <1>1, <2>1 DEF UsersInv, AccountsInv
  <2>3. \A u \in DOMAIN merged.users : \A f \in Lists :
          merged.users[u][f] = UNION {Says(m, u)[f] : m \in Members}
    BY <1>1, <2>1 DEF UsersInv, AccountsInv
  <2>4. written.sudoers = UNION {UNION Range(m.sudoers) : m \in Members}
    <3>1. written.sudoers = UNION Range(merged.sudoers)
      BY <2>1 DEF FilesOf, Range
    <3> QED BY <1>1, <2>1, <3>1 DEF UsersInv, SudoersInv
  <2>5. /\ written.keys = KeysFiles(merged)
        /\ \A u \in DOMAIN merged.users : written.accounts[u].home = merged.users[u].home
    BY <2>1 DEF FilesOf
  <2>6. ASSUME NEW u \in DOMAIN merged.users
        PROVE  LET home == IF written.accounts[u].home = None THEN HomeOf(u)
                           ELSE written.accounts[u].home
                   keys == UNION {Says(m, u).keys : m \in Members}
               IN /\ keys # {} /\ home # NoHome =>
                       /\ home \in DOMAIN written.keys
                       /\ \/ written.keys[home] = [owner |-> u, keys |-> keys]
                          \/ Before(u, written.keys[home].owner)
                  /\ \A h \in DOMAIN written.keys : written.keys[h].owner = u => h = home
    <3> DEFINE home == IF written.accounts[u].home = None THEN HomeOf(u)
                       ELSE written.accounts[u].home
               keys == UNION {Says(m, u).keys : m \in Members}
    <3>1. home = KeysHome(merged, u)
      BY <2>5 DEF KeysHome
    <3>2. keys = merged.users[u].keys
      BY <2>3 DEF Lists
    <3> HIDE DEF home, keys
    <3>3. keys # {} /\ home # NoHome =>
            /\ home \in DOMAIN written.keys
            /\ \/ written.keys[home] = [owner |-> u, keys |-> keys]
               \/ Before(u, written.keys[home].owner)
      BY <1>1, <2>5, <3>1, <3>2, KeysOfHome
    <3>4. \A h \in DOMAIN written.keys : written.keys[h].owner = u => h = home
      BY <1>1, <2>5, <3>1, KeysOwner
    <3> QED BY <3>3, <3>4 DEF home, keys
  <2> QED BY <2>2, <2>3, <2>4, <2>6 DEF EveryDeclarationHolds
<1> QED BY <1>1, MergeHolds, PTL

-----------------------------------------------------------------------------
(* Quadlets: why the theorems hold. *)

\* The mounts that the loops have not come to yet, and those they have.
Pending ==
  {m \in Mounts :
     \/ m.s \in ToSet(todo)
     \/ /\ containers # <<>> /\ m.s = service
        /\ \/ m.c \in ToSet(Tail(containers))
           \/ m.c = Head(containers) /\ m.v \in ToSet(volumes)}

Done == Mounts \ Pending

At(m) == VolumePlace(m.s, m.c, m.v)
Home(m) == DirectoryPlace(m.s, m.v.path)

LoopInv ==
  /\ services \in Hosts /\ todo \in Seq(ToSet(services))
  /\ containers # <<>> =>
       /\ service \in ToSet(services)
       /\ containers \in Seq(ToSet(service.containers))
       /\ volumes \in Seq(ToSet(Head(containers).volumes))
  /\ phase \in {"manifest", "done"} => todo = <<>> /\ containers = <<>>

\* A file of a shared name is some mount's of that name; a private volume keeps
\* the file it was rendered with.
VolumeInv ==
  /\ \A m \in Mounts : m.v.shared /\ At(m) \in DOMAIN files =>
       \E n \in Mounts :
         /\ n.v.shared /\ n.s.user = m.s.user /\ n.v.name = m.v.name
         /\ files[At(m)] = Volume(n.v.path)
  /\ \A m \in Done : At(m) \in DOMAIN files
  /\ \A m \in Done : ~m.v.shared => files[At(m)] = Volume(m.v.path)

\* Every mount is registered, and mounts of one path have agreed about it.
MountedInv ==
  /\ \A m \in Done : Usage(m.s, m.c, m.v) \in mounted
  /\ \A m, n \in Done : m # n /\ m.s.user = n.s.user /\ m.v.path = n.v.path =>
       m.v.shared /\ n.v.shared /\ At(m) = At(n)

\* A directory keeps the owner that the first private volume gave it.
DirectoryInv ==
  \A m \in Done : ~m.v.shared =>
    Home(m) \in DOMAIN files /\ files[Home(m)] = Directory(OwnerOf(m.s, m.v))

MountsInv == VolumeInv /\ MountedInv /\ DirectoryInv

UnitsOf(places) == {Unit(p.target[2]) : p \in places}

\* The units there will be when all services are rendered.
Expected ==
  {Unit(VolumeFile(m.s, m.c, m.v)) : m \in Mounts}
    \union {Unit(PodFile(s)) : s \in {t \in ToSet(services) : t.pod}}
    \union {Unit(NetworkFile(n)) : n \in UsedVlans}

\* A unit is known when it has a file, and requires none that will not be there.
KnownInv ==
  /\ DOMAIN requires \subseteq UnitsOf(UnitPlaces)
  /\ \A u \in DOMAIN requires : requires[u] \subseteq Expected \union UnitsOf(UnitPlaces)

PodPlace(s) == Place(s.name, s.user, PodFile(s))
NetworkPlace(n) == Place(<<"podman-networks">>, "root", NetworkFile(n))

\* A pod requires its network, unless another unit of its name was first.
PodKnown(s) ==
  /\ PodPlace(s) \in DOMAIN files
  /\ Unit(PodFile(s)) \in DOMAIN requires
  /\ Alone(Unit(PodFile(s))) => requires[Unit(PodFile(s))] = NetworkUnits(s)

PodInv ==
  \A s \in ToSet(services) : s.pod /\ s \notin ToSet(todo) => PodKnown(s)

\* And a container what it uses.
ContainerKnown(s, c) ==
  /\ Unit(ContainerFile(s, c)) \in DOMAIN requires
  /\ Alone(Unit(ContainerFile(s, c))) => requires[Unit(ContainerFile(s, c))] = Needs(s, c)

ContainerInv ==
  \A s \in ToSet(services) : \A c \in ToSet(s.containers) :
    s \in ToSet(todo) \/ (s = service /\ c \in ToSet(containers)) \/ ContainerKnown(s, c)

EndInv ==
  /\ phase \in {"manifest", "done"} => \A n \in UsedVlans : NetworkPlace(n) \in DOMAIN files
  /\ phase = "done" => ~TargetsMeet

UnitsInv == KnownInv /\ PodInv /\ ContainerInv /\ EndInv

QuadletsInv == LoopInv /\ MountsInv /\ UnitsInv

-----------------------------------------------------------------------------
(* Lists, functions and names. *)

\* The elements of a list are its head and those of its tail.
LEMMA Elements ==
  ASSUME NEW S, NEW q \in Seq(S)
  PROVE  /\ ToSet(q) \subseteq S /\ q \in Seq(ToSet(q))
         /\ q = <<>> => ToSet(q) = {}
         /\ q # <<>> => /\ Tail(q) \in Seq(S) /\ Head(q) \in ToSet(q)
                        /\ ToSet(q) = {Head(q)} \union ToSet(Tail(q))
<1>1. DOMAIN q = 1..Len(q) /\ Len(q) \in Nat /\ \A i \in 1..Len(q) : q[i] \in S
  OBVIOUS
<1>2. ToSet(q) \subseteq S /\ q \in Seq(ToSet(q))
  BY <1>1 DEF ToSet
<1>3. ASSUME q # <<>>
      PROVE  /\ Tail(q) \in Seq(S) /\ Head(q) \in ToSet(q)
             /\ ToSet(q) = {Head(q)} \union ToSet(Tail(q))
  <2>1. Len(q) > 0 /\ Head(q) = q[1] /\ Tail(q) \in Seq(S) /\ Len(Tail(q)) = Len(q) - 1
        /\ \A i \in 1..(Len(q) - 1) : Tail(q)[i] = q[i + 1]
    BY <1>1, <1>3
  <2>2. \A i \in 1..Len(q) : i = 1 \/ (i - 1 \in 1..(Len(q) - 1) /\ q[i] = Tail(q)[i - 1])
    BY <1>1, <2>1
  <2>3. DOMAIN Tail(q) = 1..(Len(q) - 1)
    BY <2>1
  <2>4. \A i \in 1..(Len(q) - 1) : i + 1 \in 1..Len(q) /\ Tail(q)[i] = q[i + 1]
    BY <1>1, <2>1
  <2>5. ToSet(q) = {q[i] : i \in 1..Len(q)}
        /\ ToSet(Tail(q)) = {Tail(q)[i] : i \in 1..(Len(q) - 1)}
    BY <1>1, <2>3 DEF ToSet
  <2>6. 1 \in 1..Len(q)
    BY <1>1, <2>1
  <2>7. ASSUME NEW x \in ToSet(q) PROVE x \in {Head(q)} \union ToSet(Tail(q))
    <3>1. PICK i \in 1..Len(q) : x = q[i]
      BY <2>5
    <3> QED BY <2>1, <2>2, <2>5, <3>1
  <2>8. ASSUME NEW x \in {Head(q)} \union ToSet(Tail(q)) PROVE x \in ToSet(q)
    BY <2>1, <2>4, <2>5, <2>6
  <2> QED BY <2>1, <2>7, <2>8
<1>4. q = <<>> => ToSet(q) = {}
  BY <1>1 DEF ToSet
<1> QED BY <1>2, <1>3, <1>4

LEMMA Pairs == ASSUME NEW S, NEW a \in S, NEW b \in S PROVE <<a, b>> \in Seq(S)
OBVIOUS

LEMMA OwnedIs ==
  ASSUME NEW o, NEW file, NEW needs
  PROVE  /\ DOMAIN Owned(o, file, needs) = DOMAIN o \union {Unit(file)}
         /\ \A u \in DOMAIN o : Owned(o, file, needs)[u] = o[u]
         /\ Unit(file) \notin DOMAIN o => Owned(o, file, needs)[Unit(file)] = needs
<1>1. CASE Unit(file) \in DOMAIN o
  BY <1>1 DEF Owned
<1>2. CASE Unit(file) \notin DOMAIN o
  <2>1. Owned(o, file, needs) = With(o, Unit(file), needs)
    BY <1>2 DEF Owned
  <2>2. /\ DOMAIN With(o, Unit(file), needs) = DOMAIN o \union {Unit(file)}
        /\ With(o, Unit(file), needs)[Unit(file)] = needs
        /\ \A u \in DOMAIN o : u # Unit(file) => With(o, Unit(file), needs)[u] = o[u]
    BY DEF With
  <2> QED BY <1>2, <2>1, <2>2
<1> QED BY <1>1, <1>2

\* What services are.
LEMMA HostFacts ==
  ASSUME services \in Hosts
  PROVE  /\ services \in Seq(ToSet(services))
         /\ \A s \in ToSet(services) :
              /\ s.name \in Seq(ToSet(s.name)) /\ s.name # <<>>
              /\ s.user # "host" /\ s.pod \in BOOLEAN
              /\ s.containers \in Seq(ToSet(s.containers))
              /\ \A c \in ToSet(s.containers) : c.volumes \in Seq(ToSet(c.volumes))
BY HostsAssumption

LEMMA MountsAre ==
  /\ \A m \in Mounts : /\ m.s \in ToSet(services) /\ m.c \in ToSet(m.s.containers)
                       /\ m.v \in ToSet(m.c.volumes)
                       /\ m = [s |-> m.s, c |-> m.c, v |-> m.v]
  /\ \A s \in ToSet(services) : \A c \in ToSet(s.containers) : \A v \in ToSet(c.volumes) :
       [s |-> s, c |-> c, v |-> v] \in Mounts
BY DEF Mounts

LEMMA PrefixIs ==
  ASSUME services \in Hosts, NEW s \in ToSet(services), NEW c
  PROVE  \E S : Prefix(s, c) \in Seq(S) /\ Len(Prefix(s, c)) > 0
<1>1. s.name \in Seq(ToSet(s.name)) /\ s.name # <<>>
  BY HostFacts
<1> DEFINE S == ToSet(s.name) \union {"app", c.name}
           own == IF s.pod THEN <<"app", c.name>> ELSE <<>>
<1>2. own \in Seq(S)
  <2>1. "app" \in S /\ c.name \in S
    OBVIOUS
  <2> HIDE DEF S
  <2>2. <<"app", c.name>> \in Seq(S)
    BY <2>1, Pairs
  <2> QED BY <2>2
<1>3. s.name \in Seq(S) /\ Len(s.name) > 0
  BY <1>1
<1> HIDE DEF S, own
<1>4. s.name \o own \in Seq(S) /\ Len(s.name \o own) > 0
  BY <1>2, <1>3
<1> QED BY <1>4 DEF Prefix, own

\* Private and shared volumes have files of their own.
LEMMA SharedIsNotPrivate ==
  ASSUME services \in Hosts, NEW m \in Mounts, NEW n \in Mounts, m.v.shared, ~n.v.shared
  PROVE  At(m) # At(n)
<1>1. PICK S : Prefix(n.s, n.c) \in Seq(S) /\ Len(Prefix(n.s, n.c)) > 0
  BY MountsAre, PrefixIs
<1> DEFINE T == S \union {n.v.name}
<1>2. Prefix(n.s, n.c) \in Seq(T) /\ n.v.name \in T
  BY <1>1
<1> HIDE DEF T
<1>3. Len(Append(Prefix(n.s, n.c), n.v.name)) = Len(Prefix(n.s, n.c)) + 1
  BY <1>2
<1>4. Len(<<m.v.name>>) = 1
  OBVIOUS
<1>5. <<m.v.name>> # Append(Prefix(n.s, n.c), n.v.name)
  BY <1>1, <1>3, <1>4
<1>6. VolumeFile(m.s, m.c, m.v).words = <<m.v.name>>
      /\ VolumeFile(n.s, n.c, n.v).words = Append(Prefix(n.s, n.c), n.v.name)
  BY DEF VolumeFile
<1>7. At(m).target[2] = VolumeFile(m.s, m.c, m.v) /\ At(n).target[2] = VolumeFile(n.s, n.c, n.v)
  BY DEF At, VolumePlace, Place
<1> QED BY <1>5, <1>6, <1>7

\* Shared volumes have one file for each user and name.
LEMMA SharedPlaces ==
  ASSUME NEW m \in Mounts, NEW n \in Mounts, m.v.shared, n.v.shared
  PROVE  /\ At(m) = At(n) <=> m.s.user = n.s.user /\ m.v.name = n.v.name
         /\ VolumeFile(m.s, m.c, m.v) = VolumeFile(n.s, n.c, n.v) /\ m.s.user = n.s.user
              => At(m) = At(n)
<1>1. /\ VolumeFile(m.s, m.c, m.v) = [words |-> <<m.v.name>>, suffix |-> "volume"]
      /\ VolumeFile(n.s, n.c, n.v) = [words |-> <<n.v.name>>, suffix |-> "volume"]
  BY DEF VolumeFile
<1>2. /\ At(m) = [base |-> <<"_shared">>, target |-> <<m.s.user, VolumeFile(m.s, m.c, m.v)>>]
      /\ At(n) = [base |-> <<"_shared">>, target |-> <<n.s.user, VolumeFile(n.s, n.c, n.v)>>]
  BY DEF At, VolumePlace, Place
<1>3. At(m) = At(n) => m.s.user = n.s.user /\ VolumeFile(m.s, m.c, m.v) = VolumeFile(n.s, n.c, n.v)
  <2>1. At(m).target[1] = m.s.user /\ At(m).target[2] = VolumeFile(m.s, m.c, m.v)
        /\ At(n).target[1] = n.s.user /\ At(n).target[2] = VolumeFile(n.s, n.c, n.v)
    BY <1>2
  <2> QED BY <2>1
<1>4. VolumeFile(m.s, m.c, m.v) = VolumeFile(n.s, n.c, n.v) => m.v.name = n.v.name
  <2>1. VolumeFile(m.s, m.c, m.v).words[1] = m.v.name /\ VolumeFile(n.s, n.c, n.v).words[1] = n.v.name
    BY <1>1
  <2> QED BY <2>1
<1> QED BY <1>1, <1>2, <1>3, <1>4

\* A volume is at no place of another kind.
LEMMA PlacesDiffer ==
  ASSUME services \in Hosts, NEW m \in Mounts
  PROVE  /\ \A b, user, words, suffix :
              suffix # "volume" => At(m) # Place(b, user, [words |-> words, suffix |-> suffix])
         /\ \A n \in Mounts : At(m) # Home(n)
<1>1. At(m).target[1] = m.s.user /\ At(m).target[2].suffix = "volume"
  BY DEF At, VolumePlace, Place, VolumeFile
<1>2. m.s.user # "host"
  BY MountsAre, HostFacts
<1>3. \A n \in Mounts : Home(n).target[1] = "host"
  BY DEF Home, DirectoryPlace
<1>4. ASSUME NEW b, NEW user, NEW words, NEW suffix
      PROVE  Place(b, user, [words |-> words, suffix |-> suffix]).target[2].suffix = suffix
  BY DEF Place
<1> QED BY <1>1, <1>2, <1>3, <1>4

-----------------------------------------------------------------------------
(* The loops. *)

LEMMA SameServices ==
  ASSUME services' = services
  PROVE  Mounts' = Mounts /\ UsedVlans' = UsedVlans /\ Expected' = Expected
BY DEF Mounts, UsedVlans, Expected

\* What is rendered when a step has left it to render nothing new.
LEMMA NothingNew ==
  ASSUME services' = services, Pending \subseteq Pending'
  PROVE  Done' \subseteq Done
BY SameServices DEF Done

LEMMA ServiceLoops ==
  ASSUME LoopInv, RenderService, ~Fail
  PROVE  LoopInv' /\ services' = services /\ Done' \subseteq Done
<1>1. /\ phase = "quadlets" /\ containers = <<>> /\ todo # <<>> /\ Head(todo).containers # <<>>
      /\ todo' = Tail(todo) /\ service' = Head(todo)
      /\ containers' = Head(todo).containers
      /\ volumes' = Head(containers').volumes
      /\ services' = services /\ phase' = phase
  BY DEF RenderService, FirstVolumes
<1>2. services \in Hosts /\ todo \in Seq(ToSet(services))
  BY DEF LoopInv
<1>3. /\ Tail(todo) \in Seq(ToSet(services)) /\ Head(todo) \in ToSet(services)
      /\ ToSet(todo) = {Head(todo)} \union ToSet(Tail(todo))
  <2>1. ToSet(todo) \subseteq ToSet(services)
    BY <1>2, Elements
  <2> QED BY <1>1, <1>2, <2>1, Elements
<1>4. containers' \in Seq(ToSet(service'.containers))
  BY <1>1, <1>2, <1>3, HostFacts
<1>5. Head(containers') \in ToSet(service'.containers)
      /\ ToSet(service'.containers) = {Head(containers')} \union ToSet(Tail(containers'))
  BY <1>1, <1>4, Elements
<1>6. volumes' \in Seq(ToSet(Head(containers').volumes))
  BY <1>1, <1>2, <1>3, <1>5, HostFacts
<1>7. LoopInv'
  BY <1>1, <1>2, <1>3, <1>4, <1>6 DEF LoopInv
<1>8. Pending \subseteq Pending'
  <2>1. ASSUME NEW m \in Pending PROVE m \in Pending'
    <3>1. m \in Mounts' /\ m.s \in ToSet(todo)
      BY <1>1, SameServices DEF Pending
    <3>2. CASE m.s \in ToSet(Tail(todo))
      BY <1>1, <3>1, <3>2 DEF Pending
    <3>3. CASE m.s = Head(todo)
      <4>1. m.c \in ToSet(service'.containers) /\ m.v \in ToSet(m.c.volumes)
        BY <1>1, <3>1, <3>3, SameServices, MountsAre
      <4>2. m.s = service' /\ containers' # <<>>
        BY <1>1, <3>3
      <4>3. m.c \in ToSet(Tail(containers')) \/ (m.c = Head(containers') /\ m.v \in ToSet(volumes'))
        BY <1>1, <1>5, <4>1
      <4> QED BY <3>1, <4>2, <4>3 DEF Pending
    <3> QED BY <1>3, <3>1, <3>2, <3>3
  <2> QED BY <2>1
<1> QED BY <1>1, <1>7, <1>8, NothingNew

LEMMA ContainerLoops ==
  ASSUME LoopInv, RenderContainer, ~Fail
  PROVE  /\ LoopInv' /\ services' = services /\ Done' \subseteq Done
         /\ service \in ToSet(services) /\ Head(containers) \in ToSet(service.containers)
         /\ ToSet(containers) = {Head(containers)} \union ToSet(Tail(containers))
<1>1. /\ phase = "quadlets" /\ containers # <<>> /\ volumes = <<>>
      /\ todo' = todo /\ service' = service
      /\ containers' = Tail(containers)
      /\ containers' # <<>> => volumes' = Head(containers').volumes
      /\ services' = services /\ phase' = phase
  BY DEF RenderContainer, Rendering, FirstVolumes
<1>2. /\ services \in Hosts /\ todo \in Seq(ToSet(services))
      /\ service \in ToSet(services) /\ containers \in Seq(ToSet(service.containers))
  BY <1>1 DEF LoopInv
<1>3. /\ Tail(containers) \in Seq(ToSet(service.containers))
      /\ ToSet(containers) = {Head(containers)} \union ToSet(Tail(containers))
      /\ Head(containers) \in ToSet(service.containers)
  <2>1. ToSet(containers) \subseteq ToSet(service.containers)
    BY <1>2, Elements
  <2> QED BY <1>1, <1>2, <2>1, Elements
<1>4. ASSUME containers' # <<>>
      PROVE  /\ ToSet(containers') = {Head(containers')} \union ToSet(Tail(containers'))
             /\ volumes' \in Seq(ToSet(Head(containers').volumes))
  <2>1. /\ ToSet(containers') = {Head(containers')} \union ToSet(Tail(containers'))
        /\ Head(containers') \in ToSet(containers')
    BY <1>1, <1>3, <1>4, Elements
  <2>2. Head(containers') \in ToSet(service.containers)
    BY <1>1, <1>3, <2>1, Elements
  <2> QED BY <1>1, <1>2, <1>4, <2>1, <2>2, HostFacts
<1>5. LoopInv'
  BY <1>1, <1>2, <1>3, <1>4 DEF LoopInv
<1>6. Pending \subseteq Pending'
  <2>1. ASSUME NEW m \in Pending PROVE m \in Pending'
    <3>0. m \in Mounts'
      BY <1>1, SameServices DEF Pending
    <3>1. CASE m.s \in ToSet(todo)
      BY <1>1, <3>0, <3>1 DEF Pending
    <3>2. CASE m.s \notin ToSet(todo)
      <4>1. ToSet(volumes) = {}
        BY <1>1 DEF ToSet
      <4>2. m.s = service /\ m.c \in ToSet(Tail(containers))
        BY <3>2, <4>1 DEF Pending
      <4>3. containers' # <<>>
        BY <1>1, <4>2 DEF ToSet
      <4>4. m.v \in ToSet(m.c.volumes)
        BY <1>1, <3>0, SameServices, MountsAre
      <4>5. m.c \in ToSet(Tail(containers')) \/ (m.c = Head(containers') /\ m.v \in ToSet(volumes'))
        BY <1>1, <1>4, <4>2, <4>3, <4>4
      <4> QED BY <1>1, <3>0, <4>2, <4>3, <4>5 DEF Pending
    <3> QED BY <3>1, <3>2
  <2> QED BY <2>1
<1> QED BY <1>1, <1>2, <1>3, <1>5, <1>6, NothingNew

\* The mount that is rendered.
Current == [s |-> service, c |-> Head(containers), v |-> Head(volumes)]

LEMMA VolumeLoops ==
  ASSUME LoopInv, RenderVolume, ~Fail
  PROVE  /\ LoopInv' /\ services' = services /\ Current \in Mounts
         /\ Done' \subseteq Done \union {Current}
<1>1. /\ phase = "quadlets" /\ containers # <<>> /\ volumes # <<>>
      /\ todo' = todo /\ service' = service /\ containers' = containers
      /\ volumes' = Tail(volumes)
      /\ services' = services /\ phase' = phase
  BY DEF RenderVolume, Rendering
<1>2. /\ services \in Hosts /\ todo \in Seq(ToSet(services))
      /\ service \in ToSet(services) /\ containers \in Seq(ToSet(service.containers))
      /\ volumes \in Seq(ToSet(Head(containers).volumes))
  BY <1>1 DEF LoopInv
<1>3. /\ Tail(volumes) \in Seq(ToSet(Head(containers).volumes))
      /\ ToSet(volumes) = {Head(volumes)} \union ToSet(Tail(volumes))
      /\ Head(volumes) \in ToSet(Head(containers).volumes)
  <2>1. ToSet(volumes) \subseteq ToSet(Head(containers).volumes)
    BY <1>2, Elements
  <2> QED BY <1>1, <1>2, <2>1, Elements
<1>4. Head(containers) \in ToSet(service.containers)
  <2>1. ToSet(containers) \subseteq ToSet(service.containers) /\ Head(containers) \in ToSet(containers)
    BY <1>1, <1>2, Elements
  <2> QED BY <2>1
<1>5. Current \in Mounts
  BY <1>2, <1>3, <1>4, MountsAre DEF Current
<1>6. LoopInv'
  BY <1>1, <1>2, <1>3 DEF LoopInv
<1>7. ASSUME NEW m \in Done' PROVE m \in Done \/ m = Current
  <2>1. m \in Mounts /\ m \notin Pending'
    BY <1>1, SameServices DEF Done
  <2>2. ASSUME m \in Pending PROVE m = Current
    <3>1. m \in Mounts'
      BY <1>1, <2>1, SameServices
    <3>2. /\ m.s \notin ToSet(todo)
          /\ ~(/\ m.s = service
               /\ \/ m.c \in ToSet(Tail(containers))
                  \/ m.c = Head(containers) /\ m.v \in ToSet(Tail(volumes)))
      BY <1>1, <2>1, <3>1 DEF Pending
    <3>3. m.s = service /\ m.c = Head(containers) /\ m.v = Head(volumes)
      BY <1>3, <2>2, <3>2 DEF Pending
    <3>4. m = [s |-> m.s, c |-> m.c, v |-> m.v]
      BY <2>1, MountsAre
    <3> QED BY <3>3, <3>4 DEF Current
  <2> QED BY <2>1, <2>2 DEF Done
<1> QED BY <1>1, <1>5, <1>6, <1>7

-----------------------------------------------------------------------------
(* The mounts. *)

\* A step that renders other files and no new mount.
LEMMA Aside ==
  ASSUME MountsInv, services' = services, mounted' = mounted, Done' \subseteq Done,
         DOMAIN files \subseteq DOMAIN files',
         \A p \in DOMAIN files : files'[p] = files[p],
         \A m \in Mounts : At(m) \in DOMAIN files' => At(m) \in DOMAIN files
  PROVE  MountsInv'
<1>1. Mounts' = Mounts
  BY SameServices
<1>2. VolumeInv /\ MountedInv /\ DirectoryInv
  BY DEF MountsInv
<1>3. \A m \in Done' : m \in Done /\ m \in Mounts /\ At(m) \in DOMAIN files /\ files'[At(m)] = files[At(m)]
  BY <1>2 DEF VolumeInv, Done
<1>4. VolumeInv'
  <2>1. ASSUME NEW m \in Mounts, m.v.shared, At(m) \in DOMAIN files'
        PROVE  \E n \in Mounts : /\ n.v.shared /\ n.s.user = m.s.user /\ n.v.name = m.v.name
                                  /\ files'[At(m)] = Volume(n.v.path)
    BY <1>2, <2>1 DEF VolumeInv
  <2>2. \A m \in Done' : ~m.v.shared => files'[At(m)] = Volume(m.v.path)
    BY <1>2, <1>3 DEF VolumeInv
  <2> QED BY <1>1, <1>3, <2>1, <2>2 DEF VolumeInv
<1>5. MountedInv'
  BY <1>2, <1>3 DEF MountedInv
<1>6. DirectoryInv'
  BY <1>2, <1>3 DEF DirectoryInv
<1> QED BY <1>4, <1>5, <1>6 DEF MountsInv

\* The directory of a volume that is not shared.
LEMMA WithDirectoryIs ==
  ASSUME NEW s, NEW v
  PROVE  /\ v.shared => WithDirectory(s, v) = files
         /\ ~v.shared =>
              /\ DOMAIN WithDirectory(s, v) = DOMAIN files \union {DirectoryPlace(s, v.path)}
              /\ WithDirectory(s, v)[DirectoryPlace(s, v.path)] = Directory(OwnerOf(s, v))
         /\ \A p \in DOMAIN files : p # DirectoryPlace(s, v.path) => WithDirectory(s, v)[p] = files[p]
<1>1. CASE v.shared
  BY <1>1 DEF WithDirectory
<1>2. CASE ~v.shared
  <2>1. WithDirectory(s, v) = With(files, DirectoryPlace(s, v.path), Directory(OwnerOf(s, v)))
    BY <1>2 DEF WithDirectory
  <2>2. /\ DOMAIN With(files, DirectoryPlace(s, v.path), Directory(OwnerOf(s, v)))
             = DOMAIN files \union {DirectoryPlace(s, v.path)}
        /\ With(files, DirectoryPlace(s, v.path), Directory(OwnerOf(s, v)))[DirectoryPlace(s, v.path)]
             = Directory(OwnerOf(s, v))
        /\ \A p \in DOMAIN files : p # DirectoryPlace(s, v.path) =>
             With(files, DirectoryPlace(s, v.path), Directory(OwnerOf(s, v)))[p] = files[p]
    BY DEF With
  <2> QED BY <1>2, <2>1, <2>2
<1> QED BY <1>1, <1>2

\* What a step that renders a volume does to the files.
LEMMA VolumeStep ==
  ASSUME LoopInv, RenderVolume, ~Fail
  PROVE  LET m == Current
             there == IsThere(m.s, m.c, m.v)
         IN /\ ~Clash(m.s, m.c, m.v)
            /\ mounted' = mounted \union {Usage(m.s, m.c, m.v)}
            /\ there => files' = files /\ requires' = requires
            /\ ~there =>
                 /\ ~m.v.shared => At(m) \notin DOMAIN files /\ ~DirectoryClash(m.s, m.v)
                 /\ files' = With(WithDirectory(m.s, m.v), At(m), Volume(m.v.path))
                 /\ requires' = Owned(requires, VolumeFile(m.s, m.c, m.v), {})
<1>1. Current.s = service /\ Current.c = Head(containers) /\ Current.v = Head(volumes)
  BY DEF Current
<1> HIDE DEF Current
<1> QED BY <1>1 DEF RenderVolume, DirectoryFails, At

LEMMA VolumeFiles ==
  ASSUME LoopInv, RenderVolume, ~Fail, ~IsThere(Current.s, Current.c, Current.v)
  PROVE  /\ DOMAIN files' = DOMAIN files \union {At(Current)}
                             \union (IF Current.v.shared THEN {} ELSE {Home(Current)})
         /\ files'[At(Current)] = Volume(Current.v.path)
         /\ ~Current.v.shared =>
              /\ At(Current) \notin DOMAIN files
              /\ files'[Home(Current)] = Directory(OwnerOf(Current.s, Current.v))
              /\ Home(Current) \in DOMAIN files =>
                   files[Home(Current)] = Directory(OwnerOf(Current.s, Current.v))
         /\ \A p \in DOMAIN files : p # At(Current) => files'[p] = files[p]
<1> DEFINE m == Current
           f == WithDirectory(m.s, m.v)
<1>1. /\ files' = With(f, At(m), Volume(m.v.path))
      /\ ~m.v.shared => At(m) \notin DOMAIN files /\ ~DirectoryClash(m.s, m.v)
  BY VolumeStep
<1>2. m \in Mounts /\ services \in Hosts
  BY VolumeLoops DEF LoopInv
<1>3. At(m) # Home(m)
  BY <1>2, PlacesDiffer
<1>4. Home(m) = DirectoryPlace(m.s, m.v.path)
  BY DEF Home
<1>5. /\ m.v.shared => f = files
      /\ ~m.v.shared => /\ DOMAIN f = DOMAIN files \union {Home(m)}
                        /\ f[Home(m)] = Directory(OwnerOf(m.s, m.v))
      /\ \A p \in DOMAIN files : p # Home(m) => f[p] = files[p]
  BY <1>4, WithDirectoryIs
<1>6. Home(m) \in DOMAIN files /\ ~m.v.shared => files[Home(m)] = Directory(OwnerOf(m.s, m.v))
  BY <1>1, <1>4 DEF DirectoryClash
<1> HIDE DEF m, f
<1>7. /\ DOMAIN files' = DOMAIN f \union {At(m)} /\ files'[At(m)] = Volume(m.v.path)
      /\ \A p \in DOMAIN f : p # At(m) => files'[p] = f[p]
  BY <1>1 DEF With
<1>8. DOMAIN files' = DOMAIN files \union {At(m)} \union (IF m.v.shared THEN {} ELSE {Home(m)})
  BY <1>5, <1>7
<1>9. ~m.v.shared => files'[Home(m)] = Directory(OwnerOf(m.s, m.v))
  BY <1>3, <1>5, <1>7
<1>10. ASSUME NEW p \in DOMAIN files, p # At(m) PROVE files'[p] = files[p]
  <2>1. files'[p] = f[p]
    BY <1>5, <1>7, <1>10
  <2>2. CASE m.v.shared
    BY <1>5, <2>1, <2>2
  <2>3. CASE ~m.v.shared /\ p = Home(m)
    BY <1>6, <1>9, <2>3
  <2>4. CASE p # Home(m)
    BY <1>5, <2>1, <2>4
  <2> QED BY <2>2, <2>3, <2>4
<1> QED BY <1>1, <1>6, <1>7, <1>8, <1>9, <1>10 DEF m

\* A mount that is registered has agreed with those before it.
LEMMA MountedKept ==
  ASSUME LoopInv, MountedInv, RenderVolume, ~Fail
  PROVE  MountedInv'
<1> DEFINE cur == Current
<1>1. /\ services' = services /\ cur \in Mounts /\ \A m \in Done' : m \in Done \/ m = cur
      /\ ~Clash(cur.s, cur.c, cur.v) /\ mounted' = mounted \union {Usage(cur.s, cur.c, cur.v)}
  BY VolumeLoops, VolumeStep
<1> HIDE DEF cur
<1>2. \A m \in Done' : Usage(m.s, m.c, m.v) \in mounted'
  BY <1>1 DEF MountedInv
<1>3. ASSUME NEW n \in Done, n.s.user = cur.s.user, n.v.path = cur.v.path
      PROVE  cur.v.shared /\ n.v.shared /\ At(n) = At(cur)
  <2>1. Usage(n.s, n.c, n.v) \in mounted /\ n \in Mounts
    BY DEF MountedInv, Done
  <2>2. cur.v.shared /\ n.v.shared /\ VolumeFile(n.s, n.c, n.v) = VolumeFile(cur.s, cur.c, cur.v)
    BY <1>1, <1>3, <2>1 DEF Clash, Usage
  <2> QED BY <1>1, <1>3, <2>1, <2>2, SharedPlaces
<1>4. ASSUME NEW m \in Done', NEW n \in Done', m # n, m.s.user = n.s.user, m.v.path = n.v.path
      PROVE  m.v.shared /\ n.v.shared /\ At(m) = At(n)
  <2>1. CASE m \in Done /\ n \in Done
    BY <1>4, <2>1 DEF MountedInv
  <2>2. CASE m = cur /\ n \in Done
    BY <1>3, <1>4, <2>2
  <2>3. CASE n = cur /\ m \in Done
    BY <1>3, <1>4, <2>3
  <2> QED BY <1>1, <1>4, <2>1, <2>2, <2>3
<1> QED BY <1>2, <1>4 DEF MountedInv

LEMMA VolumeKept ==
  ASSUME LoopInv, VolumeInv, RenderVolume, ~Fail
  PROVE  VolumeInv'
<1> DEFINE cur == Current
<1>1. /\ services' = services /\ cur \in Mounts /\ \A m \in Done' : m \in Done \/ m = cur
      /\ services \in Hosts
  BY VolumeLoops DEF LoopInv
<1>2. Mounts' = Mounts
  BY <1>1, SameServices
<1>3. CASE IsThere(cur.s, cur.c, cur.v)
  <2>1. files' = files /\ cur.v.shared /\ At(cur) \in DOMAIN files
    BY <1>3, VolumeStep DEF IsThere, At
  <2> HIDE DEF cur
  <2>2. \A m \in Done' : At(m) \in DOMAIN files'
    BY <1>1, <2>1 DEF VolumeInv
  <2>3. \A m \in Done' : ~m.v.shared => files'[At(m)] = Volume(m.v.path)
    BY <1>1, <2>1 DEF VolumeInv
  <2> QED BY <1>2, <2>1, <2>2, <2>3 DEF VolumeInv
<1>4. CASE ~IsThere(cur.s, cur.c, cur.v)
  <2>1. /\ DOMAIN files' = DOMAIN files \union {At(cur)} \union (IF cur.v.shared THEN {} ELSE {Home(cur)})
        /\ files'[At(cur)] = Volume(cur.v.path)
        /\ ~cur.v.shared => At(cur) \notin DOMAIN files
        /\ \A p \in DOMAIN files : p # At(cur) => files'[p] = files[p]
    BY <1>4, VolumeFiles
  <2> HIDE DEF cur
  <2>2. ASSUME NEW m \in Mounts, m.v.shared, At(m) \in DOMAIN files'
        PROVE  \E n \in Mounts : /\ n.v.shared /\ n.s.user = m.s.user /\ n.v.name = m.v.name
                                  /\ files'[At(m)] = Volume(n.v.path)
    <3>1. CASE At(m) = At(cur)
      <4>1. cur.v.shared
        BY <1>1, <2>2, <3>1, SharedIsNotPrivate
      <4>2. m.s.user = cur.s.user /\ m.v.name = cur.v.name
        BY <1>1, <2>2, <3>1, <4>1, SharedPlaces
      <4> QED BY <1>1, <2>1, <3>1, <4>1, <4>2
    <3>2. CASE At(m) # At(cur)
      <4>1. At(m) # Home(cur)
        BY <1>1, PlacesDiffer
      <4>2. At(m) \in DOMAIN files /\ files'[At(m)] = files[At(m)]
        BY <2>1, <2>2, <3>2, <4>1
      <4> QED BY <2>2, <4>2 DEF VolumeInv
    <3> QED BY <3>1, <3>2
  <2>3. \A m \in Done' : At(m) \in DOMAIN files'
    BY <1>1, <2>1 DEF VolumeInv
  <2>4. ASSUME NEW m \in Done', ~m.v.shared PROVE files'[At(m)] = Volume(m.v.path)
    <3>1. CASE m = cur
      BY <2>1, <3>1
    <3>2. CASE m # cur
      <4>1. m \in Done /\ m \in Mounts
        BY <1>1, <3>2 DEF Done
      <4>2. At(m) \in DOMAIN files /\ files[At(m)] = Volume(m.v.path)
        BY <2>4, <4>1 DEF VolumeInv
      <4>3. At(m) # At(cur)
        BY <1>1, <2>1, <2>4, <4>1, <4>2, SharedIsNotPrivate
      <4> QED BY <2>1, <4>2, <4>3
    <3> QED BY <3>1, <3>2
  <2> QED BY <1>2, <2>2, <2>3, <2>4 DEF VolumeInv
<1> QED BY <1>3, <1>4

LEMMA DirectoryKept ==
  ASSUME LoopInv, DirectoryInv, RenderVolume, ~Fail
  PROVE  DirectoryInv'
<1> DEFINE cur == Current
<1>1. /\ cur \in Mounts /\ \A m \in Done' : m \in Done \/ m = cur
      /\ services \in Hosts
  BY VolumeLoops DEF LoopInv
<1>2. CASE IsThere(cur.s, cur.c, cur.v)
  <2>1. files' = files /\ cur.v.shared
    BY <1>2, VolumeStep DEF IsThere
  <2> HIDE DEF cur
  <2> QED BY <1>1, <2>1 DEF DirectoryInv
<1>3. CASE ~IsThere(cur.s, cur.c, cur.v)
  <2>1. /\ DOMAIN files' = DOMAIN files \union {At(cur)} \union (IF cur.v.shared THEN {} ELSE {Home(cur)})
        /\ ~cur.v.shared => files'[Home(cur)] = Directory(OwnerOf(cur.s, cur.v))
        /\ \A p \in DOMAIN files : p # At(cur) => files'[p] = files[p]
    BY <1>3, VolumeFiles
  <2> HIDE DEF cur
  <2>2. ASSUME NEW m \in Done', ~m.v.shared
        PROVE  Home(m) \in DOMAIN files' /\ files'[Home(m)] = Directory(OwnerOf(m.s, m.v))
    <3>1. CASE m = cur
      BY <2>1, <2>2, <3>1
    <3>2. CASE m # cur
      <4>1. m \in Done /\ m \in Mounts
        BY <1>1, <3>2 DEF Done
      <4>2. Home(m) \in DOMAIN files /\ files[Home(m)] = Directory(OwnerOf(m.s, m.v))
        BY <2>2, <4>1 DEF DirectoryInv
      <4>3. Home(m) # At(cur)
        BY <1>1, <4>1, PlacesDiffer
      <4> QED BY <2>1, <4>2, <4>3
    <3> QED BY <3>1, <3>2
  <2> QED BY <2>2 DEF DirectoryInv
<1> QED BY <1>2, <1>3

-----------------------------------------------------------------------------
(* The units. *)

\* Files are only added.
Grows ==
  /\ services' = services
  /\ DOMAIN files \subseteq DOMAIN files'
  /\ DOMAIN requires \subseteq DOMAIN requires'
  /\ \A u \in DOMAIN requires : requires'[u] = requires[u]

LEMMA PlacesGrow ==
  ASSUME Grows
  PROVE  UnitPlaces \subseteq UnitPlaces' /\ \A u : Alone(u)' => Alone(u)
<1>1. UnitPlaces \subseteq UnitPlaces'
  BY DEF Grows, UnitPlaces
<1>2. ASSUME NEW u, Alone(u)' PROVE Alone(u)
  BY <1>1, <1>2 DEF Alone
<1> QED BY <1>1, <1>2

\* A file of a user is the file of a unit.
LEMMA UnitPlacesAre ==
  ASSUME NEW base, NEW user, NEW file, user # "host"
  PROVE  /\ Place(base, user, file) \in DOMAIN files =>
              Place(base, user, file) \in UnitPlaces /\ Unit(file) \in UnitsOf(UnitPlaces)
         /\ Place(base, user, file) \in DOMAIN files' =>
              Place(base, user, file) \in UnitPlaces' /\ Unit(file) \in UnitsOf(UnitPlaces)'
<1>1. Place(base, user, file).target[1] = user /\ Place(base, user, file).target[2] = file
  BY DEF Place
<1> QED BY <1>1 DEF UnitPlaces, UnitsOf

\* A unit that was known has another file than the new one.
LEMMA KnownIsNotAlone ==
  ASSUME KnownInv, Grows, NEW base, NEW user, NEW file, user # "host",
         Place(base, user, file) \notin DOMAIN files,
         Place(base, user, file) \in DOMAIN files',
         Unit(file) \in DOMAIN requires
  PROVE  ~Alone(Unit(file))'
<1>1. PICK p \in UnitPlaces : Unit(p.target[2]) = Unit(file)
  BY DEF KnownInv, UnitsOf
<1>2. p \in DOMAIN files /\ p \in UnitPlaces'
  BY <1>1, PlacesGrow DEF UnitPlaces
<1>3. Place(base, user, file) \in UnitPlaces' /\ Place(base, user, file).target[2] = file
  BY UnitPlacesAre DEF Place
<1>4. p # Place(base, user, file)
  BY <1>2
<1> QED BY <1>1, <1>2, <1>3, <1>4 DEF Alone

\* A step keeps that every unit has its file, when the units it adds have theirs.
LEMMA KnownKept ==
  ASSUME KnownInv, Grows,
         \A u \in DOMAIN requires' : u \notin DOMAIN requires =>
           u \in UnitsOf(UnitPlaces)' /\ requires'[u] \subseteq Expected \union UnitsOf(UnitPlaces)'
  PROVE  KnownInv'
<1>1. UnitsOf(UnitPlaces) \subseteq UnitsOf(UnitPlaces)' /\ Expected' = Expected
  BY PlacesGrow, SameServices DEF UnitsOf, Grows
<1>2. DOMAIN requires' \subseteq UnitsOf(UnitPlaces)'
  BY <1>1 DEF KnownInv, Grows
<1>3. ASSUME NEW u \in DOMAIN requires'
      PROVE  requires'[u] \subseteq Expected \union UnitsOf(UnitPlaces)'
  <2>1. CASE u \in DOMAIN requires
    BY <1>1, <2>1 DEF KnownInv, Grows
  <2> QED BY <2>1
<1> QED BY <1>1, <1>2, <1>3 DEF KnownInv

\* What is known of a pod and of a container that was rendered stays so.
LEMMA KnownStays ==
  ASSUME Grows
  PROVE  /\ \A s : PodKnown(s) => PodKnown(s)'
         /\ \A s, c : ContainerKnown(s, c) => ContainerKnown(s, c)'
<1>1. ASSUME NEW s, PodKnown(s) PROVE PodKnown(s)'
  <2>1. Alone(Unit(PodFile(s)))' => Alone(Unit(PodFile(s)))
    BY PlacesGrow
  <2> QED BY <1>1, <2>1 DEF PodKnown, Grows
<1>2. ASSUME NEW s, NEW c, ContainerKnown(s, c) PROVE ContainerKnown(s, c)'
  <2>1. Alone(Unit(ContainerFile(s, c)))' => Alone(Unit(ContainerFile(s, c)))
    BY PlacesGrow
  <2> QED BY <1>2, <2>1 DEF ContainerKnown, Grows
<1> QED BY <1>1, <1>2

\* A new file of a unit decides what the unit requires, if no other has its name.
LEMMA PodIsKnown ==
  ASSUME KnownInv, Grows, NEW s, s.user # "host",
         PodPlace(s) \notin DOMAIN files, PodPlace(s) \in DOMAIN files',
         Unit(PodFile(s)) \in DOMAIN requires',
         Unit(PodFile(s)) \notin DOMAIN requires => requires'[Unit(PodFile(s))] = NetworkUnits(s)
  PROVE  PodKnown(s)'
<1>1. Unit(PodFile(s)) \in DOMAIN requires => ~Alone(Unit(PodFile(s)))'
  BY KnownIsNotAlone DEF PodPlace
<1> QED BY <1>1 DEF PodKnown

LEMMA ContainerIsKnown ==
  ASSUME KnownInv, Grows, NEW s, NEW c, s.user # "host",
         Place(s.name, s.user, ContainerFile(s, c)) \notin DOMAIN files,
         Place(s.name, s.user, ContainerFile(s, c)) \in DOMAIN files',
         Unit(ContainerFile(s, c)) \in DOMAIN requires',
         Unit(ContainerFile(s, c)) \notin DOMAIN requires =>
           requires'[Unit(ContainerFile(s, c))] = Needs(s, c)
  PROVE  ContainerKnown(s, c)'
<1>1. Unit(ContainerFile(s, c)) \in DOMAIN requires => ~Alone(Unit(ContainerFile(s, c)))'
  BY KnownIsNotAlone
<1> QED BY <1>1 DEF ContainerKnown

-----------------------------------------------------------------------------
(* The steps. *)

LEMMA InitQuadletsInv == QuadletsInit => QuadletsInv
<1> SUFFICES ASSUME QuadletsInit PROVE QuadletsInv
  OBVIOUS
<1>1. /\ services \in Hosts /\ todo = services /\ containers = <<>>
      /\ mounted = {} /\ requires = <<>> /\ phase = "quadlets"
      /\ files = ConfigFiles(services)
  BY DEF QuadletsInit
<1>2. LoopInv
  BY <1>1, HostFacts DEF LoopInv
<1>3. Done = {}
  <2>1. \A m \in Mounts : m.s \in ToSet(services)
    BY MountsAre
  <2> QED BY <1>1, <2>1 DEF Done, Pending
<1>4. \A m \in Mounts : At(m) \notin DOMAIN files
  <2>1. ASSUME NEW p \in DOMAIN files PROVE p.target[1] = "host"
    <3>1. PICK s, path : p = DirectoryPlace(s, path)
      BY <1>1 DEF ConfigFiles
    <3> QED BY <3>1 DEF DirectoryPlace
  <2>2. ASSUME NEW m \in Mounts PROVE At(m).target[1] # "host"
    <3>1. At(m).target[1] = m.s.user
      BY DEF At, VolumePlace, Place
    <3> QED BY <1>1, <3>1, MountsAre, HostFacts
  <2> QED BY <2>1, <2>2
<1>5. MountsInv
  BY <1>3, <1>4 DEF MountsInv, VolumeInv, MountedInv, DirectoryInv
<1>6. DOMAIN requires = {}
  BY <1>1
<1>7. UnitsInv
  BY <1>1, <1>6 DEF UnitsInv, KnownInv, PodInv, ContainerInv, EndInv
<1> QED BY <1>2, <1>5, <1>7 DEF QuadletsInv

\* Steps that render nothing.
LEMMA Unmoved ==
  ASSUME QuadletsInv, UNCHANGED <<services, todo, service, containers, volumes, mounted, files, requires>>,
         phase' \in {"manifest", "done"} => todo = <<>> /\ containers = <<>>,
         phase' \in {"manifest", "done"} => \A n \in UsedVlans : NetworkPlace(n) \in DOMAIN files,
         phase' = "done" => ~TargetsMeet
  PROVE  QuadletsInv'
<1>1. /\ services' = services /\ todo' = todo /\ service' = service /\ containers' = containers
      /\ volumes' = volumes /\ mounted' = mounted /\ files' = files /\ requires' = requires
  OBVIOUS
<1>2. LoopInv'
  BY <1>1 DEF LoopInv, QuadletsInv
<1>3. Grows
  BY <1>1 DEF Grows
<1>4. Done' \subseteq Done
  <2>1. Pending \subseteq Pending'
    BY <1>1, SameServices DEF Pending
  <2> QED BY <1>1, <2>1, NothingNew
<1>5. MountsInv'
  BY <1>1, <1>4, Aside DEF QuadletsInv
<1>6. KnownInv'
  BY <1>1, <1>3, KnownKept DEF QuadletsInv, UnitsInv
<1>7. PodInv' /\ ContainerInv'
  BY <1>1, <1>3, KnownStays DEF QuadletsInv, UnitsInv, PodInv, ContainerInv
<1>8. UsedVlans' = UsedVlans /\ (TargetsMeet' <=> TargetsMeet)
  BY <1>1, SameServices DEF TargetsMeet
<1>9. EndInv'
  BY <1>1, <1>8 DEF EndInv
<1> QED BY <1>2, <1>5, <1>6, <1>7, <1>9 DEF QuadletsInv, UnitsInv

LEMMA FailKeeps == ASSUME QuadletsInv, Fail PROVE QuadletsInv'
<1>1. phase' = "failed" /\ UNCHANGED <<services, todo, loops, mounted, files, requires>>
  BY DEF Fail
<1> QED BY <1>1, Unmoved DEF loops

LEMMA ServiceKeeps == ASSUME QuadletsInv, RenderService PROVE QuadletsInv'
<1>1. CASE Fail
  BY <1>1, FailKeeps
<1>2. CASE ~Fail
  <2>0. PICK s : s = Head(todo)
    OBVIOUS
  <2>1. /\ LoopInv' /\ services' = services /\ Done' \subseteq Done
        /\ services \in Hosts
    BY <1>2, ServiceLoops DEF QuadletsInv, LoopInv
  <2>2. /\ todo # <<>> /\ containers = <<>> /\ todo' = Tail(todo) /\ service' = s
        /\ containers' = s.containers /\ mounted' = mounted
        /\ phase = "quadlets" /\ phase' = phase
        /\ s.pod => /\ PodPlace(s) \notin DOMAIN files
                    /\ files' = With(files, PodPlace(s), Quadlet)
                    /\ requires' = Owned(requires, PodFile(s), NetworkUnits(s))
        /\ ~s.pod => files' = files /\ requires' = requires
    BY <1>2, <2>0 DEF RenderService, PodPlace
  <2>3. s \in ToSet(services) /\ ToSet(todo) = {s} \union ToSet(todo') /\ s.user # "host"
    <3>1. todo \in Seq(ToSet(services))
      BY DEF QuadletsInv, LoopInv
    <3>2. ToSet(todo) = {s} \union ToSet(todo') /\ ToSet(todo) \subseteq ToSet(services)
      BY <2>0, <2>2, <3>1, Elements
    <3> QED BY <2>1, <3>2, HostFacts
  <2>4. /\ DOMAIN files' = DOMAIN files \union (IF s.pod THEN {PodPlace(s)} ELSE {})
        /\ \A p \in DOMAIN files : files'[p] = files[p]
    BY <2>2 DEF With
  <2>5. /\ DOMAIN requires' = DOMAIN requires \union (IF s.pod THEN {Unit(PodFile(s))} ELSE {})
        /\ \A u \in DOMAIN requires : requires'[u] = requires[u]
        /\ s.pod /\ Unit(PodFile(s)) \notin DOMAIN requires => requires'[Unit(PodFile(s))] = NetworkUnits(s)
    <3>1. CASE s.pod
      <4>1. requires' = Owned(requires, PodFile(s), NetworkUnits(s))
        BY <2>2, <3>1
      <4> QED BY <3>1, <4>1, OwnedIs
    <3>2. CASE ~s.pod
      BY <2>2, <3>2
    <3> QED BY <3>1, <3>2
  <2>6. Grows
    BY <2>1, <2>4, <2>5 DEF Grows
  <2>7. MountsInv'
    <3>1. \A m \in Mounts : At(m) # PodPlace(s)
      BY <2>1, PlacesDiffer DEF PodPlace, PodFile
    <3> QED BY <2>1, <2>2, <2>4, <3>1, Aside DEF QuadletsInv
  <2>8. KnownInv'
    <3>1. s.pod => Unit(PodFile(s)) \in UnitsOf(UnitPlaces)'
      BY <2>3, <2>4, UnitPlacesAre DEF PodPlace
    <3>2. NetworkUnits(s) \subseteq Expected
      BY <2>3 DEF NetworkUnits, Expected, UsedVlans
    <3>3. KnownInv
      BY DEF QuadletsInv, UnitsInv
    <3> QED BY <2>5, <2>6, <3>1, <3>2, <3>3, KnownKept
  <2>9. s.pod => PodKnown(s)'
    BY <2>2, <2>3, <2>4, <2>5, <2>6, PodIsKnown DEF QuadletsInv, UnitsInv
  <2>10. PodInv'
    <3>1. ASSUME NEW t \in ToSet(services), t.pod, t \notin ToSet(todo') PROVE PodKnown(t)'
      <4>1. CASE t = s
        BY <2>9, <3>1, <4>1
      <4>2. CASE t # s
        <5>1. PodKnown(t)
          BY <2>3, <3>1, <4>2 DEF QuadletsInv, UnitsInv, PodInv
        <5> QED BY <2>6, <5>1, KnownStays
      <4> QED BY <4>1, <4>2
    <3> QED BY <2>1, <3>1 DEF PodInv
  <2>11. ContainerInv'
    <3>1. ASSUME NEW t \in ToSet(services), NEW c \in ToSet(t.containers)
          PROVE  t \in ToSet(todo') \/ (t = service' /\ c \in ToSet(containers')) \/ ContainerKnown(t, c)'
      <4>1. CASE t = s
        BY <2>2, <4>1
      <4>2. CASE t # s /\ t \in ToSet(todo)
        BY <2>3, <4>2
      <4>3. CASE t \notin ToSet(todo)
        <5>1. ToSet(containers) = {}
          BY <2>2 DEF ToSet
        <5>2. ContainerKnown(t, c)
          BY <4>3, <5>1 DEF QuadletsInv, UnitsInv, ContainerInv
        <5> QED BY <2>6, <5>2, KnownStays
      <4> QED BY <4>1, <4>2, <4>3
    <3> QED BY <2>1, <3>1 DEF ContainerInv
  <2>12. EndInv'
    BY <2>2 DEF EndInv
  <2> QED BY <2>1, <2>7, <2>8, <2>10, <2>11, <2>12 DEF QuadletsInv, UnitsInv
<1> QED BY <1>1, <1>2

LEMMA VolumeKeeps == ASSUME QuadletsInv, RenderVolume PROVE QuadletsInv'
<1>1. CASE Fail
  BY <1>1, FailKeeps
<1>2. CASE ~Fail
  <2>0. PICK m : m = Current
    OBVIOUS
  <2> DEFINE file == VolumeFile(m.s, m.c, m.v)
  <2>1. LoopInv /\ LoopInv' /\ services' = services /\ m \in Mounts /\ services \in Hosts
    BY <1>2, <2>0, VolumeLoops DEF QuadletsInv, LoopInv
  <2>2. MountsInv'
    BY <1>2, VolumeKept, MountedKept, DirectoryKept DEF QuadletsInv, MountsInv
  <2>3. /\ todo' = todo /\ service' = service /\ containers' = containers
        /\ phase = "quadlets" /\ phase' = phase
    BY <1>2 DEF RenderVolume, Rendering
  <2>4. \/ files' = files /\ requires' = requires
        \/ /\ DOMAIN files \subseteq DOMAIN files' /\ At(m) \in DOMAIN files'
           /\ requires' = Owned(requires, file, {})
    <3>1. CASE IsThere(m.s, m.c, m.v)
      BY <1>2, <2>0, <2>1, <3>1, VolumeStep
    <3>2. CASE ~IsThere(m.s, m.c, m.v)
      BY <1>2, <2>0, <2>1, <3>2, VolumeStep, VolumeFiles
    <3> QED BY <3>1, <3>2
  <2> HIDE DEF file
  <2>5. /\ DOMAIN requires \subseteq DOMAIN requires'
        /\ \A u \in DOMAIN requires : requires'[u] = requires[u]
        /\ \A u \in DOMAIN requires' : u \notin DOMAIN requires =>
             u = Unit(file) /\ requires'[u] = {} /\ At(m) \in DOMAIN files'
    <3>1. CASE files' = files /\ requires' = requires
      BY <3>1
    <3>2. CASE requires' = Owned(requires, file, {}) /\ At(m) \in DOMAIN files'
      <4>1. /\ DOMAIN requires' = DOMAIN requires \union {Unit(file)}
            /\ \A u \in DOMAIN requires : requires'[u] = requires[u]
            /\ Unit(file) \notin DOMAIN requires => requires'[Unit(file)] = {}
        BY <3>2, OwnedIs
      <4> QED BY <3>2, <4>1
    <3> QED BY <2>4, <3>1, <3>2
  <2>6. Grows
    BY <2>1, <2>4, <2>5 DEF Grows
  <2>7. At(m) \in DOMAIN files' => Unit(file) \in UnitsOf(UnitPlaces)'
    <3>1. m.s.user # "host"
      BY <2>1, MountsAre, HostFacts
    <3> QED BY <3>1, UnitPlacesAre DEF At, VolumePlace, file
  <2>8. KnownInv'
    BY <2>5, <2>6, <2>7, KnownKept DEF QuadletsInv, UnitsInv
  <2>9. PodInv' /\ ContainerInv'
    BY <2>1, <2>3, <2>6, KnownStays DEF QuadletsInv, UnitsInv, PodInv, ContainerInv
  <2>10. EndInv'
    BY <2>3 DEF EndInv
  <2> QED BY <2>1, <2>2, <2>8, <2>9, <2>10 DEF QuadletsInv, UnitsInv
<1> QED BY <1>1, <1>2

\* What a step that renders a container does to the files.
LEMMA ContainerStep ==
  ASSUME RenderContainer, ~Fail, NEW s, s = service, NEW c, c = Head(containers)
  PROVE  LET place == Place(s.name, s.user, ContainerFile(s, c))
             build == Place(s.name, s.user, BuildFile(s, c))
             units == {Unit(ContainerFile(s, c))}
                        \union (IF "build" \in c.from THEN {Unit(BuildFile(s, c))} ELSE {})
         IN /\ place \notin DOMAIN files /\ mounted' = mounted
            /\ DOMAIN files' = DOMAIN files \union {place}
                                \union (IF "build" \in c.from THEN {build} ELSE {})
            /\ \A p \in DOMAIN files : files'[p] = files[p]
            /\ DOMAIN requires' = DOMAIN requires \union units
            /\ \A u \in DOMAIN requires : requires'[u] = requires[u]
            /\ Unit(ContainerFile(s, c)) \notin DOMAIN requires =>
                 requires'[Unit(ContainerFile(s, c))] = Needs(s, c)
            /\ \A u \in units : u \notin DOMAIN requires => requires'[u] \subseteq Needs(s, c)
<1> DEFINE place == Place(s.name, s.user, ContainerFile(s, c))
           build == Place(s.name, s.user, BuildFile(s, c))
           owned == Owned(requires, ContainerFile(s, c), Needs(s, c))
           unit == Unit(ContainerFile(s, c))
           built == Unit(BuildFile(s, c))
<1>1. /\ place \notin DOMAIN files /\ mounted' = mounted
      /\ "build" \in c.from =>
           /\ build \notin DOMAIN files
           /\ files' = With(With(files, place, Quadlet), build, Quadlet)
           /\ requires' = Owned(owned, BuildFile(s, c), {})
      /\ "build" \notin c.from => files' = With(files, place, Quadlet) /\ requires' = owned
  BY DEF RenderContainer
<1>2. /\ DOMAIN owned = DOMAIN requires \union {unit}
      /\ \A u \in DOMAIN requires : owned[u] = requires[u]
      /\ unit \notin DOMAIN requires => owned[unit] = Needs(s, c)
  BY OwnedIs
<1>3. /\ DOMAIN With(files, place, Quadlet) = DOMAIN files \union {place}
      /\ \A p \in DOMAIN files : p # place => With(files, place, Quadlet)[p] = files[p]
  BY DEF With
<1>4. CASE "build" \in c.from
  <2>1. /\ DOMAIN Owned(owned, BuildFile(s, c), {}) = DOMAIN owned \union {built}
        /\ \A u \in DOMAIN owned : Owned(owned, BuildFile(s, c), {})[u] = owned[u]
        /\ built \notin DOMAIN owned => Owned(owned, BuildFile(s, c), {})[built] = {}
    BY OwnedIs
  <2> DEFINE f == With(files, place, Quadlet)
  <2>2. /\ DOMAIN f = DOMAIN files \union {place} /\ \A p \in DOMAIN files : p # place => f[p] = files[p]
        /\ files' = With(f, build, Quadlet)
    BY <1>1, <1>3, <1>4
  <2> HIDE DEF f, place, build, owned, unit, built
  <2>3. /\ DOMAIN files' = DOMAIN files \union {place} \union {build}
        /\ \A p \in DOMAIN files : files'[p] = files[p]
    BY <1>1, <1>4, <2>2 DEF With
  <2>4. /\ DOMAIN requires' = DOMAIN requires \union {unit} \union {built}
        /\ \A u \in DOMAIN requires : requires'[u] = requires[u]
        /\ unit \notin DOMAIN requires => requires'[unit] = Needs(s, c)
        /\ built \notin DOMAIN requires => requires'[built] \subseteq Needs(s, c)
    BY <1>1, <1>2, <1>4, <2>1
  <2> QED BY <1>1, <1>4, <2>3, <2>4 DEF place, build, unit, built
<1>5. CASE "build" \notin c.from
  BY <1>1, <1>2, <1>3, <1>5
<1> QED BY <1>4, <1>5

LEMMA NeedsExpected ==
  ASSUME services \in Hosts, NEW s \in ToSet(services), NEW c \in ToSet(s.containers)
  PROVE  Needs(s, c) \subseteq Expected \union (IF "build" \in c.from THEN {Unit(BuildFile(s, c))} ELSE {})
<1>1. VolumeUnits(s, c) \subseteq Expected
  <2>1. ASSUME NEW v \in ToSet(c.volumes) PROVE Unit(VolumeFile(s, c, v)) \in Expected
    <3>1. PICK m \in Mounts : m.s = s /\ m.c = c /\ m.v = v
      BY MountsAre
    <3> QED BY <3>1 DEF Expected
  <2> QED BY <2>1 DEF VolumeUnits
<1>2. s.pod => Unit(PodFile(s)) \in Expected
  BY DEF Expected
<1>3. NetworkUnits(s) \subseteq Expected
  BY DEF NetworkUnits, Expected, UsedVlans
<1> QED BY <1>1, <1>2, <1>3 DEF Needs

LEMMA ContainerKeeps == ASSUME QuadletsInv, RenderContainer PROVE QuadletsInv'
<1>1. CASE Fail
  BY <1>1, FailKeeps
<1>2. CASE ~Fail
  <2>0. /\ LoopInv' /\ services' = services /\ Done' \subseteq Done
        /\ service \in ToSet(services) /\ Head(containers) \in ToSet(service.containers)
        /\ ToSet(containers) = {Head(containers)} \union ToSet(Tail(containers))
        /\ services \in Hosts
    BY <1>2, ContainerLoops DEF QuadletsInv, LoopInv
  <2>1. PICK s \in ToSet(services) : s = service
    BY <2>0
  <2>2. PICK c \in ToSet(s.containers) : c = Head(containers)
    BY <2>0, <2>1
  <2>3. s.user # "host"
    BY <2>0, HostFacts
  <2>4. /\ todo' = todo /\ service' = service /\ containers' = Tail(containers)
        /\ phase = "quadlets" /\ phase' = phase /\ mounted' = mounted
    BY <1>2 DEF RenderContainer, Rendering
  <2> DEFINE place == Place(s.name, s.user, ContainerFile(s, c))
             build == Place(s.name, s.user, BuildFile(s, c))
             unit == Unit(ContainerFile(s, c))
             built == Unit(BuildFile(s, c))
  <2>5. /\ place \notin DOMAIN files
        /\ DOMAIN files' = DOMAIN files \union {place} \union (IF "build" \in c.from THEN {build} ELSE {})
        /\ \A p \in DOMAIN files : files'[p] = files[p]
        /\ DOMAIN requires' = DOMAIN requires \union {unit}
                              \union (IF "build" \in c.from THEN {built} ELSE {})
        /\ \A u \in DOMAIN requires : requires'[u] = requires[u]
        /\ unit \notin DOMAIN requires => requires'[unit] = Needs(s, c)
        /\ \A u \in DOMAIN requires' : u \notin DOMAIN requires => requires'[u] \subseteq Needs(s, c)
    BY <1>2, <2>1, <2>2, ContainerStep
  <2>6. \A m \in Mounts : At(m) # place /\ At(m) # build
    BY <2>0, PlacesDiffer DEF ContainerFile, BuildFile
  <2>7. unit \in UnitsOf(UnitPlaces)' /\ ("build" \in c.from => built \in UnitsOf(UnitPlaces)')
    BY <2>3, <2>5, UnitPlacesAre
  <2>8. Needs(s, c) \subseteq Expected \union (IF "build" \in c.from THEN {built} ELSE {})
    BY <2>0, NeedsExpected
  <2>9. Grows
    BY <2>0, <2>5 DEF Grows
  <2>10. ContainerKnown(s, c)'
    BY <2>3, <2>5, <2>9, ContainerIsKnown DEF QuadletsInv, UnitsInv
  <2> HIDE DEF place, build, unit, built
  <2>11. MountsInv'
    BY <2>0, <2>4, <2>5, <2>6, Aside DEF QuadletsInv
  <2>12. KnownInv'
    BY <2>5, <2>7, <2>8, <2>9, KnownKept DEF QuadletsInv, UnitsInv
  <2>13. PodInv'
    BY <2>0, <2>4, <2>9, KnownStays DEF QuadletsInv, UnitsInv, PodInv
  <2>14. ContainerInv'
    <3>1. ASSUME NEW t \in ToSet(services), NEW d \in ToSet(t.containers)
          PROVE  t \in ToSet(todo') \/ (t = service' /\ d \in ToSet(containers')) \/ ContainerKnown(t, d)'
      <4>1. CASE ContainerKnown(t, d)
        BY <2>9, <4>1, KnownStays
      <4>2. CASE t = s /\ d = c
        BY <2>10, <4>2
      <4>3. CASE t \in ToSet(todo) \/ (t = service /\ d \in ToSet(containers) /\ d # c)
        BY <2>0, <2>2, <2>4, <4>3
      <4> QED BY <2>1, <4>1, <4>2, <4>3 DEF QuadletsInv, UnitsInv, ContainerInv
    <3> QED BY <2>0, <3>1 DEF ContainerInv
  <2>15. EndInv'
    BY <2>4 DEF EndInv
  <2> QED BY <2>0, <2>11, <2>12, <2>13, <2>14, <2>15 DEF QuadletsInv, UnitsInv
<1> QED BY <1>1, <1>2

LEMMA NetworksKeep == ASSUME QuadletsInv, RenderNetworks PROVE QuadletsInv'
<1>1. /\ phase = "quadlets" /\ containers = <<>> /\ todo = <<>> /\ phase' = "manifest"
      /\ services' = services /\ todo' = todo /\ service' = service /\ containers' = containers
      /\ volumes' = volumes /\ mounted' = mounted
  BY DEF RenderNetworks, loops
<1>2. /\ DOMAIN files' = DOMAIN files \union {NetworkPlace(n) : n \in UsedVlans}
      /\ \A p \in DOMAIN files : files'[p] = files[p]
  BY DEF RenderNetworks, NetworkPlace
<1>3. /\ DOMAIN requires' = DOMAIN requires \union {Unit(NetworkFile(n)) : n \in UsedVlans}
      /\ \A u \in DOMAIN requires : requires'[u] = requires[u]
      /\ \A u \in DOMAIN requires' : u \notin DOMAIN requires => requires'[u] = {}
  BY DEF RenderNetworks
<1>4. LoopInv'
  BY <1>1 DEF LoopInv, QuadletsInv
<1>5. Grows
  BY <1>1, <1>2, <1>3 DEF Grows
<1>6. Done' \subseteq Done
  <2>1. Pending \subseteq Pending'
    BY <1>1, SameServices DEF Pending
  <2> QED BY <1>1, <2>1, NothingNew
<1>7. MountsInv'
  <2>1. \A m \in Mounts, n \in UsedVlans : At(m) # NetworkPlace(n)
    BY PlacesDiffer DEF NetworkPlace, NetworkFile, QuadletsInv, LoopInv
  <2> QED BY <1>1, <1>2, <1>6, <2>1, Aside DEF QuadletsInv
<1>8. KnownInv'
  <2>1. \A n \in UsedVlans : Unit(NetworkFile(n)) \in UnitsOf(UnitPlaces)'
    BY <1>2, UnitPlacesAre DEF NetworkPlace
  <2> QED BY <1>3, <1>5, <2>1, KnownKept DEF QuadletsInv, UnitsInv
<1>9. PodInv' /\ ContainerInv'
  BY <1>1, <1>5, KnownStays DEF QuadletsInv, UnitsInv, PodInv, ContainerInv
<1>10. EndInv'
  BY <1>1, <1>2, SameServices DEF EndInv
<1> QED BY <1>4, <1>7, <1>8, <1>9, <1>10 DEF QuadletsInv, UnitsInv

LEMMA ManifestKeeps == ASSUME QuadletsInv, Manifest PROVE QuadletsInv'
<1>1. /\ phase = "manifest" /\ phase' = IF TargetsMeet THEN "failed" ELSE "done"
      /\ UNCHANGED <<services, todo, service, containers, volumes, mounted, files, requires>>
  BY DEF Manifest, loops
<1> QED BY <1>1, Unmoved DEF QuadletsInv, LoopInv, UnitsInv, EndInv

\* The invariant, for every set of hosts.
THEOREM RenderingHolds == QuadletsSpec => []QuadletsInv
<1>1. QuadletsInv /\ [QuadletsNext]_quadletsVars => QuadletsInv'
  <2> SUFFICES ASSUME QuadletsInv, [QuadletsNext]_quadletsVars PROVE QuadletsInv'
    OBVIOUS
  <2>1. CASE UNCHANGED quadletsVars
    <3>1. UNCHANGED <<services, todo, service, containers, volumes, mounted, files, requires>>
          /\ phase' = phase
      BY <2>1 DEF quadletsVars, loops
    <3> QED BY <3>1, Unmoved DEF QuadletsInv, LoopInv, UnitsInv, EndInv
  <2> QED BY <2>1, ServiceKeeps, VolumeKeeps, ContainerKeeps, NetworksKeep, ManifestKeeps DEF QuadletsNext
<1> QED BY <1>1, InitQuadletsInv, PTL DEF QuadletsSpec

-----------------------------------------------------------------------------
(* What it says of the rendered host. *)

LEMMA AllDone ==
  ASSUME QuadletsInv, phase = "done"
  PROVE  Done = Mounts /\ todo = <<>> /\ ToSet(todo) = {} /\ ToSet(containers) = {} /\ services \in Hosts
<1>1. todo = <<>> /\ containers = <<>> /\ services \in Hosts
  BY DEF QuadletsInv, LoopInv
<1>2. ToSet(todo) = {} /\ ToSet(containers) = {}
  BY <1>1 DEF ToSet
<1> QED BY <1>1, <1>2 DEF Done, Pending

LEMMA OnePlace ==
  ASSUME QuadletsInv, phase = "done", NEW p \in DOMAIN files, NEW q \in DOMAIN files, p.target = q.target
  PROVE  p = q
BY DEF QuadletsInv, UnitsInv, EndInv, TargetsMeet

\* A container finds under the name of its volume the path that was declared for
\* it, however many users, services and containers use that name, but for two
\* shared volumes of one user with one name and two paths (volumes.py:140).
THEOREM MountsLead == QuadletsSpec => []MountsReachTheirPath
<1>1. QuadletsInv => MountsReachTheirPath
  <2> SUFFICES ASSUME QuadletsInv, phase = "done", NEW m \in Mounts
               PROVE  /\ At(m) \in DOMAIN files
                      /\ Ambiguous(m) \/ files[At(m)] = Volume(m.v.path)
                      /\ \A p \in DOMAIN files : p.target = At(m).target => p = At(m)
    BY DEF MountsReachTheirPath, At
  <2>1. m \in Done
    BY AllDone
  <2>2. At(m) \in DOMAIN files
    BY <2>1 DEF QuadletsInv, MountsInv, VolumeInv
  <2>3. CASE m.v.shared
    <3>1. PICK n \in Mounts : /\ n.v.shared /\ n.s.user = m.s.user /\ n.v.name = m.v.name
                              /\ files[At(m)] = Volume(n.v.path)
      BY <2>2, <2>3 DEF QuadletsInv, MountsInv, VolumeInv
    <3>2. Ambiguous(m) \/ m.v.path = n.v.path
      BY <2>3, <3>1 DEF Ambiguous
    <3> QED BY <2>2, <3>1, <3>2, OnePlace
  <2>4. CASE ~m.v.shared
    <3>1. files[At(m)] = Volume(m.v.path)
      BY <2>1, <2>4 DEF QuadletsInv, MountsInv, VolumeInv
    <3> QED BY <2>2, <3>1, OnePlace
  <2> QED BY <2>3, <2>4
<1> QED BY <1>1, RenderingHolds, PTL

\* Two mounts of one path are of one shared volume, and for a private one there is a
\* directory in the manifest, of its own service and with the owner that this service
\* gives it (volumes.py:21, volumes.py:213).
THEOREM PathsAreManaged == QuadletsSpec => []PrivatePathsAreManaged
<1>1. QuadletsInv => PrivatePathsAreManaged
  <2> SUFFICES ASSUME QuadletsInv, phase = "done" PROVE PrivatePathsAreManaged
    BY DEF PrivatePathsAreManaged
  <2>1. Done = Mounts
    BY AllDone
  <2>2. ASSUME NEW m \in Mounts, NEW n \in Mounts, m # n, m.s.user = n.s.user, m.v.path = n.v.path
        PROVE  m.v.shared /\ n.v.shared /\ VolumePlace(m.s, m.c, m.v) = VolumePlace(n.s, n.c, n.v)
    BY <2>1, <2>2 DEF QuadletsInv, MountsInv, MountedInv, At
  <2>3. ASSUME NEW m \in Mounts, ~m.v.shared
        PROVE  /\ Home(m) \in DOMAIN files /\ files[Home(m)] = Directory(OwnerOf(m.s, m.v))
               /\ \A p \in DOMAIN files : p.target = Home(m).target => p = Home(m)
    <3>1. Home(m) \in DOMAIN files /\ files[Home(m)] = Directory(OwnerOf(m.s, m.v))
      BY <2>1, <2>3 DEF QuadletsInv, MountsInv, DirectoryInv
    <3>2. \A p \in DOMAIN files : p.target = Home(m).target => p = Home(m)
      BY <2>2, <3>1, OnePlace
    <3> QED BY <3>1, <3>2
  <2> QED BY <2>2, <2>3 DEF PrivatePathsAreManaged, Home
<1> QED BY <1>1, RenderingHolds, PTL

\* The last word of a unit is the kind of its file.
LEMMA LastWordOf ==
  ASSUME NEW S, NEW words \in Seq(S), NEW suffix, suffix # "container"
  PROVE  LET unit == Unit([words |-> words, suffix |-> suffix])
         IN Len(unit) = Len(words) + 1 /\ unit[Len(unit)] = suffix
<1>1. Unit([words |-> words, suffix |-> suffix]) = Append(words, suffix)
  BY DEF Unit
<1>2. words \in Seq(S \union {suffix})
  OBVIOUS
<1>3. Len(Append(words, suffix)) = Len(words) + 1 /\ Append(words, suffix)[Len(words) + 1] = suffix
  BY <1>2
<1> QED BY <1>1, <1>3

\* Units of pods differ from those of volumes, networks and builds.
LEMMA KindsDiffer ==
  ASSUME services \in Hosts, NEW s \in ToSet(services), NEW t \in ToSet(services),
         NEW c, NEW v
  PROVE  /\ Unit(VolumeFile(s, c, v)) # Unit(PodFile(t))
         /\ Unit(BuildFile(s, c)) # Unit(PodFile(t))
         /\ Unit(PodFile(t)) \notin NetworkUnits(s)
<1>1. PICK S : Prefix(s, c) \in Seq(S) /\ Len(Prefix(s, c)) > 0
  BY PrefixIs
<1> DEFINE last(u) == u[Len(u)]
<1>2. last(Unit(PodFile(t))) = "pod"
  <2> DEFINE T == ToSet(t.name) \union {"app"}
  <2>1. t.name \in Seq(T) /\ "app" \in T
    BY HostFacts
  <2> HIDE DEF T
  <2>2. Append(t.name, "app") \in Seq(T)
    BY <2>1
  <2> QED BY <2>2, LastWordOf DEF PodFile
<1>3. last(Unit(VolumeFile(s, c, v))) = "volume"
  <2> DEFINE T == S \union {v.name}
             words == IF v.shared THEN <<v.name>> ELSE Append(Prefix(s, c), v.name)
  <2>1. Prefix(s, c) \in Seq(T) /\ v.name \in T
    BY <1>1
  <2> HIDE DEF T
  <2>2. words \in Seq(T)
    BY <2>1
  <2>3. VolumeFile(s, c, v) = [words |-> words, suffix |-> "volume"]
    BY DEF VolumeFile
  <2> HIDE DEF words
  <2> QED BY <2>2, <2>3, LastWordOf
<1>4. last(Unit(BuildFile(s, c))) = "build"
  BY <1>1, LastWordOf DEF BuildFile
<1>5. last(Unit(NetworkFile(s.vlan))) = "network"
  <2>1. <<s.vlan>> \in Seq({s.vlan})
    OBVIOUS
  <2> QED BY <2>1, LastWordOf DEF NetworkFile
<1> HIDE DEF last
<1> QED BY <1>2, <1>3, <1>4, <1>5 DEF NetworkUnits

\* Every unit that is expected has its file in the end.
LEMMA ExpectedIsThere == ASSUME QuadletsInv, phase = "done" PROVE Expected \subseteq UnitsOf(UnitPlaces)
<1>1. services \in Hosts /\ Done = Mounts /\ ToSet(todo) = {}
  BY AllDone
<1>2. ASSUME NEW m \in Mounts PROVE Unit(VolumeFile(m.s, m.c, m.v)) \in UnitsOf(UnitPlaces)
  <2>1. At(m) \in DOMAIN files
    BY <1>1 DEF QuadletsInv, MountsInv, VolumeInv
  <2>2. m.s.user # "host"
    BY <1>1, MountsAre, HostFacts
  <2> QED BY <2>1, <2>2, UnitPlacesAre DEF At, VolumePlace
<1>3. ASSUME NEW s \in ToSet(services), s.pod PROVE Unit(PodFile(s)) \in UnitsOf(UnitPlaces)
  <2>1. PodPlace(s) \in DOMAIN files
    BY <1>1, <1>3 DEF QuadletsInv, UnitsInv, PodInv, PodKnown
  <2> QED BY <1>1, <2>1, HostFacts, UnitPlacesAre DEF PodPlace
<1>4. ASSUME NEW n \in UsedVlans PROVE Unit(NetworkFile(n)) \in UnitsOf(UnitPlaces)
  <2>1. NetworkPlace(n) \in DOMAIN files
    BY DEF QuadletsInv, UnitsInv, EndInv
  <2> QED BY <2>1, UnitPlacesAre DEF NetworkPlace
<1> QED BY <1>2, <1>3, <1>4 DEF Expected

\* The manifest's order knows of everything that a container needs, and no unit
\* requires one that nothing renders (helpers.py:64).
THEOREM UnitsAreComplete == QuadletsSpec => []UnitsRequireWhatTheyUse
<1>1. QuadletsInv => UnitsRequireWhatTheyUse
  <2> SUFFICES ASSUME QuadletsInv, phase = "done" PROVE UnitsRequireWhatTheyUse
    BY DEF UnitsRequireWhatTheyUse
  <2>1. services \in Hosts /\ ToSet(todo) = {} /\ ToSet(containers) = {}
    BY AllDone
  <2> DEFINE pods == {Unit(PodFile(s)) : s \in {t \in ToSet(services) : t.pod}}
  <2>2. \A u \in DOMAIN requires : requires[u] \subseteq {Unit(p.target[2]) : p \in UnitPlaces}
    BY ExpectedIsThere DEF QuadletsInv, UnitsInv, KnownInv, UnitsOf
  <2>3. ASSUME NEW s \in ToSet(services), NEW c \in ToSet(s.containers)
        PROVE  LET unit == Unit(ContainerFile(s, c))
                   attached == IF s.pod THEN Unit(PodFile(s)) ELSE unit
               IN /\ Alone(unit) =>
                       /\ requires[unit] \intersect pods = IF s.pod THEN {Unit(PodFile(s))} ELSE {}
                       /\ \A v \in ToSet(c.volumes) : Unit(VolumeFile(s, c, v)) \in requires[unit]
                  /\ Alone(attached) => NetworkUnits(s) \subseteq requires[attached]
    <3> DEFINE unit == Unit(ContainerFile(s, c))
    <3>1. Alone(unit) => requires[unit] = Needs(s, c)
      BY <2>1 DEF QuadletsInv, UnitsInv, ContainerInv, ContainerKnown
    <3>2. s.pod => (Alone(Unit(PodFile(s))) => requires[Unit(PodFile(s))] = NetworkUnits(s))
      BY <2>1 DEF QuadletsInv, UnitsInv, PodInv, PodKnown
    <3>3. Needs(s, c) \intersect pods = IF s.pod THEN {Unit(PodFile(s))} ELSE {}
      <4>1. \A v : Unit(VolumeFile(s, c, v)) \notin pods
        BY <2>1, KindsDiffer
      <4>2. Unit(BuildFile(s, c)) \notin pods /\ NetworkUnits(s) \intersect pods = {}
        BY <2>1, KindsDiffer
      <4>3. VolumeUnits(s, c) \intersect pods = {}
        BY <4>1 DEF VolumeUnits
      <4>4. s.pod => Unit(PodFile(s)) \in pods
        OBVIOUS
      <4> HIDE DEF pods
      <4> QED BY <4>2, <4>3, <4>4 DEF Needs
    <3>4. \A v \in ToSet(c.volumes) : Unit(VolumeFile(s, c, v)) \in Needs(s, c)
      BY DEF Needs, VolumeUnits
    <3>5. ~s.pod => NetworkUnits(s) \subseteq Needs(s, c)
      BY DEF Needs
    <3> HIDE DEF pods, unit
    <3> QED BY <3>1, <3>2, <3>3, <3>4, <3>5 DEF unit
  <2> HIDE DEF pods
  <2> QED BY <2>2, <2>3 DEF UnitsRequireWhatTheyUse, pods
<1> QED BY <1>1, RenderingHolds, PTL
=============================================================================
