------------------------------- MODULE Users -------------------------------
(* The accounts of a host (renderers/users.py, validation/users.py): what the *)
(* host and the hosts it includes declare is merged into one account data-    *)
(* base, one sudo policy and one authorized_keys file per home, or the render *)
(* fails.  Words for `system`, `shell` and `gecos` are left out: they merge   *)
(* like `uid` and nothing depends on them.                                    *)
EXTENDS Integers, Sequences, SequencesExt, Functions

CONSTANTS
  UserOrder,  \* the names of users, in sort order
  Chains,     \* what the members of an include chain may declare, in order
  MinRange,   \* 65536: the first subordinate ID, and the fewest of them
  IdLimit,    \* 2^32
  None

VARIABLES
  declared,   \* the members of the chain, included hosts first
  left,       \* members that are not merged yet
  merged,     \* the accounts so far
  written,    \* the files, once they are there
  stage

vars == <<declared, left, merged, written, stage>>

Scalars == {"uid", "group", "home", "rootless"}
Lists == {"keys", "more"}

\* A user nobody said anything about.
Plain == [uid |-> None, group |-> None, home |-> None, rootless |-> None,
          keys |-> {}, more |-> {}]

ASSUME OrderAssumption ==
  \A i, j \in DOMAIN UserOrder : UserOrder[i] = UserOrder[j] => i = j

\* None is no ID.
ASSUME IdsAssumption == None \notin Int /\ MinRange \in Int /\ IdLimit \in Int

\* What the schema of user_management admits.
ASSUME ChainsAssumption ==
  /\ UserOrder \in Seq(ToSet(UserOrder))
  /\ \A chain \in Chains :
       /\ chain \in Seq(ToSet(chain))
       /\ \A m \in ToSet(chain) :
            /\ DOMAIN m.users \subseteq ToSet(UserOrder)
            /\ \A u \in DOMAIN m.users :
                 /\ m.users[u].uid \in Int \union {None}
                 /\ m.users[u].rootless = None
                      \/ m.users[u].rootless \in [subuid : Int, subgid : Int, count : Int]
            /\ \A g \in DOMAIN m.groups : m.groups[g] \in Int \union {None}

NoHome == <<>>
Nothing == [users |-> <<>>, groups |-> <<>>, sudoers |-> <<>>]
NoFiles == [accounts |-> <<>>, members |-> {}, sudoers |-> {}, keys |-> <<>>]

-----------------------------------------------------------------------------
(* Merging. *)

Known(f, x, default) == IF x \in DOMAIN f THEN f[x] ELSE default

Differ(a, b) == a # None /\ b # None /\ a # b

\* Mutant of UserConflict: the fields that the early validation looks at.
UserConflictEarly(old, new) == \E f \in Scalars \ {"rootless"} : Differ(old[f], new[f])

UserConflict(old, new) == \E f \in Scalars : Differ(old[f], new[f])

MergeUser(old, new) ==
  [f \in Scalars \union Lists |->
    IF f \in Lists THEN old[f] \union new[f]
    ELSE IF new[f] = None THEN old[f] ELSE new[f]]

MergeConflict(m, member) ==
  \/ \E u \in DOMAIN member.users : UserConflict(Known(m.users, u, Plain), member.users[u])
  \/ \E g \in DOMAIN member.groups : Differ(Known(m.groups, g, None), member.groups[g])

Merge(m, member) ==
  [users |-> [u \in DOMAIN m.users \union DOMAIN member.users |->
               MergeUser(Known(m.users, u, Plain), Known(member.users, u, Plain))],
   groups |-> [g \in DOMAIN m.groups \union DOMAIN member.groups |->
                IF Known(member.groups, g, None) = None THEN Known(m.groups, g, None)
                ELSE member.groups[g]],
   sudoers |-> [n \in DOMAIN m.sudoers \union DOMAIN member.sudoers |->
                 Known(m.sudoers, n, {}) \union Known(member.sudoers, n, {})]]

-----------------------------------------------------------------------------
(* Validation, of what is declared (early) and of what was merged (late). *)

Says(m, u) == Known(m.users, u, Plain)
Members == ToSet(declared)

DeclaredUids(u) == {Says(m, u).uid : m \in Members} \ {None}
DeclaredGids(g) == {Known(m.groups, g, None) : m \in Members} \ {None}

UserNames == UNION {DOMAIN m.users : m \in Members}
GroupNames == UNION {DOMAIN m.groups : m \in Members}

\* Mutant of EarlyChecksPass: every member is looked at on its own.
EarlyChecksPassAlone ==
  \A m \in Members :
    /\ \A u, v \in DOMAIN m.users : u # v /\ m.users[u].uid # None => m.users[u].uid # m.users[v].uid
    /\ \A g, h \in DOMAIN m.groups : g # h /\ m.groups[g] # None => m.groups[g] # m.groups[h]

\* validate_user_management_ids: all fields but the subordinate ranges.
EarlyChecksPass ==
  /\ \A u \in UserNames : \A f \in Scalars \ {"rootless"} :
       \A m, n \in Members : ~Differ(Says(m, u)[f], Says(n, u)[f])
  /\ \A g \in GroupNames : \A x, y \in DeclaredGids(g) : x = y
  /\ \A u, v \in UserNames : u # v => DeclaredUids(u) \intersect DeclaredUids(v) = {}
  /\ \A g, h \in GroupNames : g # h => DeclaredGids(g) \intersect DeclaredGids(h) = {}

GroupOf(m, u) == IF m.users[u].group = None THEN u ELSE m.users[u].group

ReferencesOk(m) ==
  \A u \in DOMAIN m.users : {GroupOf(m, u)} \union m.users[u].more \subseteq DOMAIN m.groups

Distinct(id, names) ==
  \A x, y \in names : x # y /\ id[x] # None => id[x] # id[y]

Uids(m) == [u \in DOMAIN m.users |-> m.users[u].uid]

DeclaredIdsOk(m) == Distinct(Uids(m), DOMAIN m.users) /\ Distinct(m.groups, DOMAIN m.groups)

HomeOf(u) == <<"home", u>>

Rootless(m) == {u \in DOMAIN m.users : m.users[u].rootless # None}

\* The subordinate users or groups of a rootless user.
First(m, u, field) == m.users[u].rootless[field]
Beyond(m, u, field) == First(m, u, field) + m.users[u].rootless.count

RangeOk(m, u, field) ==
  /\ First(m, u, field) >= MinRange
  /\ m.users[u].rootless.count >= MinRange
  /\ Beyond(m, u, field) <= IdLimit

\* Mutant of RangesMeet: does the later one start in the earlier one?
RangesMeetAtStart(m, u, v, field) ==
  First(m, v, field) <= First(m, u, field) /\ First(m, u, field) < Beyond(m, v, field)

RangesMeet(m, u, v, field) ==
  First(m, u, field) < Beyond(m, v, field) /\ First(m, v, field) < Beyond(m, u, field)

Before(u, v) ==
  \E i, j \in DOMAIN UserOrder : i < j /\ UserOrder[i] = u /\ UserOrder[j] = v

RangesOk(m) ==
  \A field \in {"subuid", "subgid"} : \A u \in Rootless(m) :
    LET ids == IF field = "subuid" THEN Uids(m) ELSE m.groups
    IN /\ m.users[u].home = HomeOf(u)
       /\ RangeOk(m, u, field)
       /\ \A x \in DOMAIN ids : ids[x] # None =>
            ~(First(m, u, field) <= ids[x] /\ ids[x] < Beyond(m, u, field))
       /\ \A v \in Rootless(m) : Before(v, u) => ~RangesMeet(m, u, v, field)

-----------------------------------------------------------------------------
(* Writing. *)

KeysHome(m, u) == IF m.users[u].home = None THEN HomeOf(u) ELSE m.users[u].home

HasKeys(m, u) == u \in DOMAIN m.users /\ m.users[u].keys # {} /\ KeysHome(m, u) # NoHome

KeysUsers(m, home) ==
  {u \in ToSet(UserOrder) : HasKeys(m, u) /\ KeysHome(m, u) = home}

\* The user that is last in the order has the file of a home.
LastOf(users) == CHOOSE u \in users : \A v \in users : v = u \/ Before(v, u)

KeysFiles(m) ==
  [home \in {KeysHome(m, u) : u \in {v \in ToSet(UserOrder) : HasKeys(m, v)}} |->
    LET u == LastOf(KeysUsers(m, home)) IN [owner |-> u, keys |-> m.users[u].keys]]

FilesOf(m) ==
  [accounts |-> [u \in DOMAIN m.users |->
                  [uid |-> m.users[u].uid, group |-> GroupOf(m, u),
                   home |-> m.users[u].home]],
   members |-> {p \in (DOMAIN m.users) \X (DOMAIN m.groups) : p[2] \in m.users[p[1]].more},
   sudoers |-> UNION {m.sudoers[n] : n \in DOMAIN m.sudoers},
   keys |-> KeysFiles(m)]

-----------------------------------------------------------------------------
(* The run. *)

Init ==
  /\ declared \in Chains
  /\ left = declared /\ merged = Nothing
  /\ written = NoFiles /\ stage = "validate"

\* For every host, before the output of any host is emptied.
Validate ==
  /\ stage = "validate"
  /\ stage' = IF EarlyChecksPass THEN "merge" ELSE "rejected"
  /\ UNCHANGED <<declared, left, merged, written>>

MergeMember ==
  /\ stage = "merge" /\ left # <<>>
  /\ IF MergeConflict(merged, Head(left))
       THEN stage' = "failed" /\ UNCHANGED <<left, merged>>
       ELSE /\ merged' = Merge(merged, Head(left))
            /\ left' = Tail(left)
            /\ UNCHANGED stage
  /\ UNCHANGED <<declared, written>>

\* The three checks of what was merged, then the files.
Write ==
  /\ stage = "merge" /\ left = <<>>
  /\ IF ReferencesOk(merged) /\ DeclaredIdsOk(merged) /\ RangesOk(merged)
       THEN stage' = "done" /\ written' = FilesOf(merged)
       ELSE stage' = "failed" /\ UNCHANGED written
  /\ UNCHANGED <<declared, left, merged>>

Next == Validate \/ MergeMember \/ Write

Spec == Init /\ [][Next]_vars

-----------------------------------------------------------------------------
(* Properties. *)

\* Every member of the chain has its way: what it says of an account is what the
\* host gets, its lists are part of the union, and nothing else is in it
\* (users.py:138, the merge).  The keys open the account of their user and no
\* other: they are in the file of its home, all of them, unless a user further on
\* in the order has the same home and replaces the file (users.py:315).
EveryDeclarationHolds ==
  stage = "done" =>
    /\ \A m \in Members : \A u \in DOMAIN m.users : \A f \in Scalars :
         m.users[u][f] # None => merged.users[u][f] = m.users[u][f]
    /\ \A u \in DOMAIN merged.users : \A f \in Lists :
         merged.users[u][f] = UNION {Says(m, u)[f] : m \in Members}
    /\ written.sudoers = UNION {UNION Range(m.sudoers) : m \in Members}
    /\ \A u \in DOMAIN merged.users :
         LET home == IF written.accounts[u].home = None THEN HomeOf(u)
                     ELSE written.accounts[u].home
             keys == UNION {Says(m, u).keys : m \in Members}
         IN /\ keys # {} /\ home # NoHome =>
                 /\ home \in DOMAIN written.keys
                 /\ \/ written.keys[home] = [owner |-> u, keys |-> keys]
                    \/ Before(u, written.keys[home].owner)
            /\ \A h \in DOMAIN written.keys : written.keys[h].owner = u => h = home

\* No numeric identity of the host means two things: not a user and another, not
\* a user and a process in a container, not a process in a container of one
\* user and one of another (users.py:240, users.py:276).
IdsAreDisjoint ==
  stage = "done" =>
    LET spans(u, f) == First(merged, u, f)..(Beyond(merged, u, f) - 1)
        taken(f) == IF f = "subuid" THEN Range(Uids(merged)) ELSE Range(merged.groups)
    IN /\ \A u, v \in DOMAIN written.accounts :
            u # v /\ written.accounts[u].uid # None =>
              written.accounts[u].uid # written.accounts[v].uid
       /\ \A f \in {"subuid", "subgid"} : \A u, v \in Rootless(merged) :
            /\ taken(f) \intersect spans(u, f) = {}
            /\ u # v => spans(u, f) \intersect spans(v, f) = {}

\* What can be found before the output is emptied is found then: after that the
\* merge of two members fails about subordinate ranges only, and no declared
\* identity turns out to be used twice (validation/users.py:13).
EarlyChecksCatch ==
  stage = "failed" =>
    /\ left # <<>> => \E u \in DOMAIN Head(left).users :
         Differ(Says(merged, u).rootless, Head(left).users[u].rootless)
    /\ left = <<>> => DeclaredIdsOk(merged)

=============================================================================
