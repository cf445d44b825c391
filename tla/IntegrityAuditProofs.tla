------------------------ MODULE IntegrityAuditProofs ------------------------
(***************************************************************************)
(* Theorems about IntegrityAudit, for every set of manifests, every bound  *)
(* on hashing and every number of changes and faults: what a clean entry,  *)
(* a drifted entry and two audits that return zero say of the host.        *)
(***************************************************************************)
EXTENDS IntegrityAudit, SequenceTheorems, TLAPS

Data == Seq(Chunks \union {"x"})
Inodes == Ids \union {1}
Files == {Gone} \union [type : {"regular", "dir", "symlink"}, id : Inodes,
                        data : Data, right : SUBSET {"mode", "owner"}]

Reading == pc \in {"read", "restat"}
Active == pc = "open" \/ Reading

\* Types of what the environment changes.
PlacesOK == manifest \in Manifests /\ live \in [Paths -> Files]

\* Where the audit is: entries are taken from the scope under audit only, and a
\* scope is entered with a valid manifest and before it has succeeded.
ProgressInv ==
  /\ scope \in Scopes \union {"none", "done"}
  /\ pc \in {"load", "next", "open", "read", "restat"}
  /\ scope \in Scopes => Valid(manifest)
  /\ succeeded # {} => Valid(manifest)
  /\ succeeded \subseteq Scopes
  /\ scope = "none" => pc = "load" /\ succeeded = {}
  /\ "ordinary" \in succeeded => scope = "done"
  /\ pc = "load" => scope \in {"none", "enrollment-foundations"} /\ todo = {}
  /\ scope \notin Scopes => todo = {} /\ ~Active
  /\ scope \in Scopes => todo \subseteq Selected(manifest, scope)
  /\ scope \in Scopes /\ pc # "load" => scope \notin succeeded
  /\ Active => entry \in Selected(manifest, scope) \ todo
  /\ ~Active => entry = None /\ open = None

\* Every entry of a scope is judged, waits or is being judged; what a scope
\* succeeded on stays judged clean.
CoverInv ==
  /\ \A e \in DOMAIN outcome : e \in manifest /\ scope # "none"
  /\ scope \in Scopes /\ pc # "load" =>
       \A e \in Selected(manifest, scope) :
          e \in DOMAIN outcome \union todo \/ (Active /\ e = entry)
  /\ \A s \in succeeded : Selected(manifest, s) \subseteq Judged("clean")

\* What the history says of the files there are now.
HistoryInv ==
  /\ torn \subseteq lost /\ (scope = "none" => torn = {})
  /\ scope # "none" /\ manifest # Malformed =>
       /\ InPlace(manifest, live) \subseteq held
       /\ \A e \in manifest \ lost : Is(e, live[e.target])

\* What the descriptor and the chunks read from it say of the current entry.
ReadInv ==
  /\ Active => ~entry.directory
  /\ pc = "open" /\ entry \notin lost
       => before.id = live[entry.target].id
  /\ Reading =>
       /\ open \in [id : Inodes, data : Data]
       /\ got \in Data /\ Len(got) <= entry.size
       /\ entry \notin lost => open.data = entry.data
       /\ entry \notin torn =>
            /\ Len(got) <= Len(open.data)
            /\ \A i \in 1..Len(got) : got[i] = open.data[i]
            /\ open.data = entry.data => entry \in held
  /\ pc = "restat" => Len(got) = entry.size

\* The inductive invariant.
IInv ==
  /\ PlacesOK /\ ProgressInv /\ CoverInv /\ HistoryInv /\ ReadInv
  /\ CleanWasInPlace /\ IntactIsClean
-----------------------------------------------------------------------------
(* Lemmas about manifests, files and single operators.                       *)

\* What an entry of a readable manifest is.
LEMMA EntryTypes ==
  ASSUME NEW m \in Manifests, m # Malformed, NEW e \in m
  PROVE  /\ e.directory \in BOOLEAN /\ e.size = Len(e.data)
         /\ e.data \in Data /\ e.size \in Nat /\ e.target \in Paths
         /\ e.declares \subseteq {"mode", "owner"}
<1>1. /\ e.directory \in BOOLEAN /\ e.size = Len(e.data)
      /\ e.data \in Seq(Chunks) /\ e.declares \subseteq {"mode", "owner"}
  BY ManifestsAssumption
<1>2. e.target \in Paths
  BY DEF Paths, Targets
<1>3. e.data \in Data
  BY <1>1 DEF Data
<1>. QED BY <1>1, <1>2, <1>3

\* Whatever appears at the path of an entry is a file with some inode.
LEMMA AlternativesAreFiles ==
  ASSUME NEW e, e.data \in Data, NEW file \in Alternatives(e), NEW i \in Inodes
  PROVE  /\ file \in Files
         /\ file # Gone => [file EXCEPT !.id = i] \in Files
<1>1. CASE file = Gone
  BY <1>1 DEF Files
<1>2. PICK d \in Data : file \in {Regular(1, d), Symlink(1, d)}
                          \union {Directory(1, r) : r \in SUBSET {"mode", "owner"}}
                          \union {Gone}
  <2>1. <<>> \in Data /\ Append(e.data, "x") \in Data
    BY DEF Data
  <2>2. [k \in DOMAIN e.data |-> IF k = Len(e.data) THEN "x" ELSE e.data[k]]
          \in Data
    BY DEF Data
  <2>. QED BY <2>1, <2>2 DEF Alternatives
<1>3. CASE file # Gone
  <2>1. file \in [type : {"regular", "dir", "symlink"}, id : Inodes,
                  data : Data, right : SUBSET {"mode", "owner"}]
    <3>1. 1 \in Inodes /\ <<>> \in Data
      BY DEF Inodes, Data
    <3>2. CASE file = Regular(1, d)
      BY <3>1, <3>2 DEF Regular
    <3>3. CASE file = Symlink(1, d)
      BY <3>1, <3>3 DEF Symlink
    <3>4. ASSUME NEW r \in SUBSET {"mode", "owner"}, file = Directory(1, r)
          PROVE  file.type = "dir" /\ file.id = 1 /\ file.data = <<>> /\ file.right = r
                 /\ file \in [type : {"regular", "dir", "symlink"}, id : Inodes,
                             data : Data, right : SUBSET {"mode", "owner"}]
      BY <3>1, <3>4 DEF Directory
    <3>. QED BY Zenon, <1>2, <1>3, <3>2, <3>3, <3>4
  <2>. QED BY <2>1 DEF Files
<1>. QED BY <1>1, <1>3

\* Writing into a file leaves a file.
LEMMA OverwrittenIsData ==
  ASSUME NEW d \in Data, Len(d) > 0
  PROVE  Overwritten(d) \subseteq Data
<1> DEFINE Patched ==
      {[d EXCEPT ![i] = c] : i \in DOMAIN d, c \in Chunks \union {"x"}}
<1>1. Patched \subseteq Data
  BY DEF Data
<1>2. Append(d, "x") \in Data
  BY DEF Data
<1>3. SubSeq(d, 1, Len(d) - 1) \in Data
  BY DEF Data
<1>4. Overwritten(d)
        = Patched \union {Append(d, "x")} \union {SubSeq(d, 1, Len(d) - 1)}
  BY DEF Overwritten
<1> HIDE DEF Patched
<1>. QED BY <1>1, <1>2, <1>3, <1>4

\* The two scopes split a manifest.
LEMMA ScopesSplit ==
  ASSUME NEW m
  PROVE  /\ m = Selected(m, "enrollment-foundations") \union Selected(m, "ordinary")
         /\ Selected(m, "enrollment-foundations") \intersect Selected(m, "ordinary")
              = {}
         /\ \A s : Selected(m, s) \subseteq m
BY DEF Selected

\* A verdict is added for one entry; the others keep theirs.
LEMMA ConcludeEffect ==
  ASSUME NEW e, NEW v, Conclude(e, v)
  PROVE  /\ DOMAIN outcome' = DOMAIN outcome \union {e}
         /\ outcome'[e] = v
         /\ \A x \in DOMAIN outcome \ {e} : outcome'[x] = outcome[x]
         /\ entry' = None /\ open' = None /\ pc' = "next"
BY DEF Conclude

LEMMA NoteEffect ==
  ASSUME PlacesOK, NEW t \in Paths, NEW file \in Files, Note(t, file)
  PROVE  /\ live' \in [Paths -> Files] /\ live'[t] = file
         /\ \A p \in Paths \ {t} : live'[p] = live[p]
         /\ held \subseteq held' /\ lost \subseteq lost'
         /\ \A e \in manifest : e.target = t => e \in lost'
BY DEF PlacesOK, Note
-----------------------------------------------------------------------------
(* The invariant holds at the start.                                         *)

LEMMA InitInvariant == Init => IInv
<1> SUFFICES ASSUME Init PROVE IInv
  OBVIOUS
<1>1. live \in [Paths -> Files]
  <2>1. Gone \in Files
    BY DEF Files
  <2>2. CASE manifest = Malformed
    BY <2>1, <2>2 DEF Init
  <2>3. CASE manifest # Malformed
    <3>1. manifest \in Manifests
      BY DEF Init
    <3>2. ASSUME NEW e \in manifest
          PROVE  /\ Directory(1, e.declares) \in Files
                 /\ Regular(1, e.data) \in Files
                 /\ Alternatives(e) \subseteq Files
      <4>1. e.data \in Data /\ e.declares \in SUBSET {"mode", "owner"}
        BY <2>3, <3>1, EntryTypes
      <4>2. 1 \in Inodes /\ <<>> \in Data /\ {} \in SUBSET {"mode", "owner"}
        BY DEF Inodes, Data
      <4>3. Directory(1, e.declares) \in Files
        BY <4>1, <4>2 DEF Directory, Files
      <4>4. Regular(1, e.data) \in Files
        BY <4>1, <4>2 DEF Regular, Files
      <4>5. Alternatives(e) \subseteq Files
        BY <4>1, <4>2, AlternativesAreFiles
      <4>. QED BY <4>3, <4>4, <4>5
    <3>3. PICK odd \in manifest : \E file \in Alternatives(odd) :
            live = [t \in Paths |->
                     IF t = odd.target THEN file
                     ELSE IF \E e \in manifest : e.target = t
                     THEN LET e == CHOOSE e \in manifest : e.target = t
                          IN IF e.directory THEN Directory(1, e.declares)
                             ELSE Regular(1, e.data)
                     ELSE Gone]
      BY <2>3 DEF Init
    <3>4. ASSUME NEW t \in Paths
          PROVE  live[t] \in Files
      <4>1. CASE t = odd.target
        BY <3>2, <3>3, <4>1
      <4>2. CASE t # odd.target /\ \E e \in manifest : e.target = t
        <5> DEFINE one == CHOOSE e \in manifest : e.target = t
        <5>1. one \in manifest
          BY <4>2
        <5>2. live[t] = IF one.directory THEN Directory(1, one.declares)
                        ELSE Regular(1, one.data)
          BY <3>3, <4>2
        <5> HIDE DEF one
        <5>. QED BY <3>2, <5>1, <5>2
      <4>3. CASE t # odd.target /\ ~\E e \in manifest : e.target = t
        BY <2>1, <3>3, <4>3
      <4>. QED BY <4>1, <4>2, <4>3
    <3>. QED BY <3>3, <3>4
  <2>. QED BY <2>2, <2>3
<1>2. DOMAIN outcome = {}
  BY DEF Init
<1>. QED
  BY <1>1, <1>2
  DEF Init, IInv, PlacesOK, ProgressInv, CoverInv, HistoryInv, ReadInv, Active,
      Reading, CleanWasInPlace, IntactIsClean, Judged, Scopes

-----------------------------------------------------------------------------
(* Every step of the audit keeps it.                                         *)

\* While an entry is open or waits, the manifest is valid.
LEMMA EntriesAreValid ==
  ASSUME IInv
  PROVE  /\ scope \in Scopes => manifest # Malformed /\ manifest \in Manifests
         /\ Active => /\ scope \in Scopes /\ entry \in manifest
                      /\ entry.directory \in BOOLEAN /\ entry.data \in Data
                      /\ entry.size = Len(entry.data) /\ entry.size \in Nat
                      /\ entry.target \in Paths
         /\ \A e \in todo : e \in manifest /\ scope \in Scopes
<1>1. scope \in Scopes => manifest # Malformed /\ manifest \in Manifests
  BY DEF IInv, ProgressInv, PlacesOK, Valid
<1>2. Active => scope \in Scopes /\ entry \in manifest
  BY ScopesSplit DEF IInv, ProgressInv
<1>3. \A e \in todo : e \in manifest /\ scope \in Scopes
  BY ScopesSplit DEF IInv, ProgressInv
<1>. QED BY <1>1, <1>2, <1>3, EntryTypes

LEMMA LoadStep ==
  ASSUME IInv, Load
  PROVE  IInv'
<1> USE DEF Load
<1>1. UNCHANGED <<manifest, live, entry, open, outcome, succeeded, torn,
                  faulted>>
  OBVIOUS
<1>2. ~Active /\ ~Active' /\ pc' = "next" /\ entry = None
  BY DEF Active, Reading, IInv, ProgressInv
<1>3. PlacesOK'
  BY <1>1 DEF IInv, PlacesOK
<1>4. ProgressInv'
  <2>1. CASE Valid(manifest)
    BY <1>1, <1>2, <2>1 DEF IInv, ProgressInv, NextScope, Scopes
  <2>2. CASE ~Valid(manifest)
    BY <1>1, <1>2, <2>2 DEF IInv, ProgressInv, NextScope, Scopes
  <2>. QED BY <2>1, <2>2
<1>5. CoverInv'
  BY <1>1, <1>2 DEF IInv, ProgressInv, CoverInv, Judged, NextScope, Scopes
<1>6. HistoryInv'
  <2>1. scope' # "none"
    BY DEF NextScope
  <2>2. CASE manifest = Malformed \/ scope # "none"
    BY <1>1, <2>1, <2>2 DEF IInv, HistoryInv, InPlace
  <2>3. CASE manifest # Malformed /\ scope = "none"
    <3>1. /\ held' = InPlace(manifest, live)
          /\ lost' = manifest \ InPlace(manifest, live)
          /\ torn' = {}
      BY <1>1, <2>3 DEF IInv, HistoryInv
    <3>. QED BY <1>1, <2>3, <3>1 DEF HistoryInv, InPlace
  <2>. QED BY <2>2, <2>3
<1>7. ReadInv'
  BY <1>2 DEF ReadInv, Active, Reading
<1>8. CleanWasInPlace' /\ IntactIsClean'
  <2>1. CASE scope = "none"
    \* Nothing is judged yet.
    BY <1>1, <2>1 DEF IInv, CoverInv, CleanWasInPlace, IntactIsClean, Judged
  <2>2. CASE scope # "none"
    BY <1>1, <2>2 DEF IInv, CleanWasInPlace, IntactIsClean, Judged
  <2>. QED BY <2>1, <2>2
<1>. QED BY <1>3, <1>4, <1>5, <1>6, <1>7, <1>8 DEF IInv

\* What concluding an entry of the scope under audit has to show, besides the
\* verdict itself.
LEMMA ConcludeStep ==
  ASSUME IInv, scope \in Scopes, NEW e \in Selected(manifest, scope),
         pc # "load", Active => e = entry,
         NEW v, Conclude(e, v), todo' = todo \ {e},
         UNCHANGED <<manifest, live, scope, succeeded, held, lost, torn>>,
         faulted \subseteq faulted',
         v = "clean" => e \in held \union torn,
         e \notin lost \union faulted' /\ ~e.directory /\ e.size <= MaxHash
           => v = "clean" \/ e \in torn
  PROVE  IInv'
<1>1. /\ DOMAIN outcome' = DOMAIN outcome \union {e} /\ outcome'[e] = v
      /\ \A x \in DOMAIN outcome \ {e} : outcome'[x] = outcome[x]
      /\ entry' = None /\ open' = None /\ pc' = "next" /\ ~Active'
  BY ConcludeEffect DEF Active, Reading
<1>2. PlacesOK'
  BY DEF IInv, PlacesOK
<1>3. ProgressInv'
  BY <1>1 DEF IInv, ProgressInv, Scopes
<1>4. CoverInv'
  <2>1. e \in manifest /\ scope # "none"
    BY ScopesSplit DEF Scopes
  <2>2. \A s \in succeeded : e \notin Selected(manifest, s)
    \* A scope under audit has not succeeded, and an entry is in one scope only.
    BY ScopesSplit DEF IInv, ProgressInv, Scopes
  <2>3. \A s \in succeeded : Selected(manifest, s) \subseteq Judged("clean")'
    BY <1>1, <2>2 DEF IInv, CoverInv, Judged
  <2>4. \A x \in DOMAIN outcome' : x \in manifest /\ scope # "none"
    BY <1>1, <2>1 DEF IInv, CoverInv
  <2>5. \A x \in Selected(manifest, scope) : x \in DOMAIN outcome' \union todo'
    BY <1>1 DEF IInv, CoverInv
  <2>. QED BY <1>1, <2>3, <2>4, <2>5 DEF CoverInv
<1>5. HistoryInv'
  BY DEF IInv, HistoryInv, InPlace
<1>6. ReadInv'
  BY <1>1 DEF ReadInv, Active, Reading
<1>7. CleanWasInPlace'
  BY <1>1 DEF IInv, CleanWasInPlace, Judged
<1>8. IntactIsClean'
  BY <1>1 DEF IInv, IntactIsClean, Judged
<1>. QED BY <1>2, <1>3, <1>4, <1>5, <1>6, <1>7, <1>8 DEF IInv

\* A directory is clean when its metadata are as declared; what is none of a
\* link, another type, too large or of another length is opened.
LEMMA LeafVerdict ==
  ASSUME NEW e, NEW file, e.size = Len(e.data)
  PROVE  /\ Leaf(e, file) = "clean" => Is(e, file)
         /\ Leaf(e, file) = "hash" => ~e.directory /\ file.type = "regular"
         /\ Is(e, file) /\ ~e.directory /\ e.size <= MaxHash /\ e.size \in Nat
              => Leaf(e, file) = "hash"
BY ManifestsAssumption DEF Leaf, Metadata, Is, Gone

LEMMA LstatStep ==
  ASSUME IInv, Lstat
  PROVE  IInv'
<1> DEFINE e == CHOOSE e \in todo : TRUE
           file == live[e.target]
<1>1. /\ pc = "next" /\ e \in todo /\ todo' = todo \ {e}
      /\ UNCHANGED <<manifest, live, scope, succeeded, held, lost, torn, faulted>>
      /\ IF Leaf(e, file) = "hash"
         THEN /\ entry' = e /\ pc' = "open"
              /\ before' = [id |-> file.id, size |-> Len(file.data)]
              /\ UNCHANGED <<open, got, outcome>>
         ELSE Conclude(e, Leaf(e, file))
  BY DEF Lstat, history
<1> HIDE DEF e
<1>2. /\ scope \in Scopes /\ e \in manifest /\ e \in Selected(manifest, scope)
      /\ manifest # Malformed /\ scope # "none" /\ ~Active
      /\ e.directory \in BOOLEAN /\ e.size = Len(e.data) /\ e.size \in Nat
      /\ e.target \in Paths
  BY <1>1, EntriesAreValid, EntryTypes
  DEF IInv, ProgressInv, Active, Reading, Scopes
<1>3. CASE Leaf(e, file) = "hash"
  <2>1. ~e.directory
    BY <1>2, <1>3, LeafVerdict
  <2>2. PlacesOK'
    BY <1>1 DEF IInv, PlacesOK
  <2>3. ProgressInv'
    BY <1>1, <1>2, <1>3 DEF IInv, ProgressInv, Scopes, Active, Reading
  <2>4. CoverInv'
    BY <1>1, <1>2, <1>3 DEF IInv, CoverInv, Judged, Active, Reading
  <2>5. HistoryInv'
    BY <1>1 DEF IInv, HistoryInv, InPlace
  <2>6. ReadInv'
    BY <1>1, <1>3, <2>1 DEF ReadInv, Active, Reading
  <2>7. CleanWasInPlace' /\ IntactIsClean'
    BY <1>1, <1>3 DEF IInv, CleanWasInPlace, IntactIsClean, Judged
  <2>. QED BY <2>2, <2>3, <2>4, <2>5, <2>6, <2>7 DEF IInv
<1>4. CASE Leaf(e, file) # "hash"
  <2>1. Leaf(e, file) = "clean" => e \in held
    BY <1>2, LeafVerdict DEF IInv, HistoryInv, InPlace
  <2>2. e \notin lost /\ ~e.directory => e.size > MaxHash
    BY <1>2, <1>4, LeafVerdict, ManifestsAssumption DEF IInv, HistoryInv
  <2>. QED BY <1>1, <1>2, <1>4, <2>1, <2>2, ConcludeStep, ManifestsAssumption
<1>. QED BY <1>3, <1>4
\* The descriptor of an untouched entry shows its declared content; one that was
\* replaced or has another length is never read.
LEMMA OpenStep ==
  ASSUME IInv, Open
  PROVE  IInv'
<1> DEFINE file == live[entry.target]
<1>1. /\ pc = "open" /\ Active /\ ~Reading
      /\ UNCHANGED <<manifest, live, scope, todo, before, succeeded, held, lost,
                     torn, faulted>>
      /\ IF file.type = "regular" /\ file.id = before.id
              /\ Len(file.data) = entry.size
         THEN /\ open' = [id |-> file.id, data |-> file.data]
              /\ pc' = "read" /\ got' = <<>>
              /\ UNCHANGED <<entry, outcome>>
         ELSE Conclude(entry, "uncertainty")
  BY DEF Open, history, Active, Reading
<1>2. /\ scope \in Scopes /\ entry \in manifest /\ manifest # Malformed
      /\ entry.directory \in BOOLEAN /\ entry.data \in Data /\ entry \notin todo
      /\ entry.size = Len(entry.data) /\ entry.size \in Nat
      /\ entry.target \in Paths /\ file \in Files /\ ~entry.directory
      /\ entry \in Selected(manifest, scope)
  BY <1>1, EntriesAreValid DEF IInv, PlacesOK, ReadInv, ProgressInv
<1>3. scope # "none"
  BY <1>2 DEF Scopes
<1>4. entry \notin lost => file.type = "regular" /\ file.id = before.id
                           /\ file.data = entry.data
  BY <1>1, <1>2, <1>3 DEF IInv, HistoryInv, ReadInv, Is
<1>5. CASE file.type = "regular" /\ file.id = before.id
           /\ Len(file.data) = entry.size
  <2>1. /\ open' = [id |-> file.id, data |-> file.data]
        /\ pc' = "read" /\ got' = <<>> /\ UNCHANGED <<entry, outcome>>
    BY <1>1, <1>5
  <2>2. file.id \in Inodes /\ file.data \in Data
    BY <1>2, <1>5 DEF Files, Gone
  <2>3. file.data = entry.data => entry \in held
    BY <1>2, <1>3, <1>5 DEF IInv, HistoryInv, InPlace, Is
  <2>4. PlacesOK' /\ ProgressInv' /\ CoverInv' /\ HistoryInv'
    BY <1>1, <2>1 DEF IInv, PlacesOK, ProgressInv, CoverInv, HistoryInv, InPlace,
                      Judged, Active, Reading
  <2>5. ReadInv'
    <3>1. open' \in [id : Inodes, data : Data] /\ open'.data = file.data
      BY <2>1, <2>2
    <3>2. got' \in Data /\ Len(got') = 0
      BY <2>1 DEF Data
    <3>3. file.data \in Seq(Chunks \union {"x"}) /\ Len(file.data) \in Nat
      BY <2>2 DEF Data
    <3>. QED BY <1>1, <1>2, <1>4, <2>1, <2>3, <3>1, <3>2, <3>3
             DEF ReadInv, Active, Reading
  <2>6. CleanWasInPlace' /\ IntactIsClean'
    BY <1>1, <2>1 DEF IInv, CleanWasInPlace, IntactIsClean, Judged
  <2>. QED BY <2>4, <2>5, <2>6 DEF IInv
<1>6. CASE ~(file.type = "regular" /\ file.id = before.id
             /\ Len(file.data) = entry.size)
  <2>1. Conclude(entry, "uncertainty") /\ entry \in lost
    BY <1>1, <1>2, <1>4, <1>6
  <2>2. todo' = todo \ {entry}
    BY <1>1, <1>2
  <2>. QED BY <1>1, <1>2, <2>1, <2>2, ConcludeStep
<1>. QED BY <1>5, <1>6
\* What is known of an entry while its descriptor is read.
LEMMA ReadingFacts ==
  ASSUME IInv, Reading
  PROVE  /\ Active /\ pc # "load" /\ scope \in Scopes /\ entry \in manifest
         /\ entry \in Selected(manifest, scope) /\ entry \notin todo
         /\ entry.data \in Data /\ entry.size = Len(entry.data)
         /\ entry.size \in Nat /\ ~entry.directory
         /\ open \in [id : Inodes, data : Data]
         /\ open.data \in Seq(Chunks \union {"x"}) /\ Len(open.data) \in Nat
         /\ got \in Seq(Chunks \union {"x"}) /\ Len(got) \in Nat
         /\ Len(got) <= entry.size
BY EntriesAreValid DEF IInv, ReadInv, ProgressInv, Active, Reading, Data

\* Each chunk read is the one at its place in the file, unless the file was
\* written to meanwhile.
LEMMA ReadStep ==
  ASSUME IInv, Read
  PROVE  IInv'
<1>1. /\ pc = "read" /\ Reading /\ Active
      /\ UNCHANGED <<manifest, live, scope, todo, before, succeeded, held, lost,
                     torn, faulted>>
  BY DEF Read, history, Active, Reading
<1>2. CASE Conclude(entry, "uncertainty")
  <2>1. entry \in lost
    \* Only a file that is not as long as declared ends here.
    <3>1. Len(open.data) # entry.size
      BY <1>1, <1>2, ReadingFacts DEF Read, Conclude
    <3>. QED BY <1>1, <3>1, ReadingFacts DEF IInv, ReadInv
  <2>2. todo' = todo \ {entry}
    BY <1>1, ReadingFacts
  <2>. QED BY <1>1, <1>2, <2>1, <2>2, ReadingFacts, ConcludeStep
<1>3. CASE /\ Len(got) < entry.size /\ Len(got) < Len(open.data)
           /\ got' = Append(got, open.data[Len(got) + 1])
           /\ UNCHANGED <<entry, pc, open, outcome>>
  <2>1. open.data[Len(got) + 1] \in Chunks \union {"x"}
    BY <1>1, <1>3, ReadingFacts
  <2>2. /\ got' \in Data /\ Len(got') = Len(got) + 1
        /\ \A i \in 1..Len(got) : got'[i] = got[i]
        /\ got'[Len(got) + 1] = open.data[Len(got) + 1]
    BY <1>1, <1>3, <2>1, ReadingFacts DEF Data
  <2>3. PlacesOK' /\ ProgressInv' /\ CoverInv' /\ HistoryInv'
    BY <1>1, <1>3 DEF IInv, PlacesOK, ProgressInv, CoverInv, HistoryInv, InPlace,
                      Judged, Active, Reading
  <2>4. \A i \in 1..Len(got') : i \in 1..Len(got) \/ i = Len(got) + 1
    BY <1>1, <2>2, ReadingFacts
  <2>5. ReadInv'
    BY <1>1, <1>3, <2>2, <2>4, ReadingFacts DEF IInv, ReadInv, Active, Reading
  <2>6. CleanWasInPlace' /\ IntactIsClean'
    BY <1>1, <1>3 DEF IInv, CleanWasInPlace, IntactIsClean, Judged
  <2>. QED BY <2>3, <2>5, <2>6 DEF IInv
<1>4. CASE /\ Len(got) >= entry.size /\ pc' = "restat"
           /\ UNCHANGED <<entry, open, got, outcome>>
  <2>1. Len(got) = entry.size
    BY <1>1, <1>4, ReadingFacts
  <2>2. PlacesOK' /\ ProgressInv' /\ CoverInv' /\ HistoryInv'
    BY <1>1, <1>4 DEF IInv, PlacesOK, ProgressInv, CoverInv, HistoryInv, InPlace,
                      Judged, Active, Reading
  <2>3. ReadInv'
    BY <1>1, <1>4, <2>1 DEF IInv, ReadInv, Active, Reading
  <2>4. CleanWasInPlace' /\ IntactIsClean'
    BY <1>1, <1>4 DEF IInv, CleanWasInPlace, IntactIsClean, Judged
  <2>. QED BY <2>2, <2>3, <2>4 DEF IInv
<1>. QED BY <1>1, <1>2, <1>3, <1>4, ReadingFacts DEF Read

\* The chunks read are the whole content, so a digest that matches was computed
\* from a file in place, and a file left in place matches.
LEMMA RestatStep ==
  ASSUME IInv, Restat
  PROVE  IInv'
<1> DEFINE v == IF Len(open.data) # entry.size THEN "uncertainty"
                ELSE IF got = entry.data THEN "clean" ELSE "drift"
<1>1. /\ pc = "restat" /\ Reading /\ Active /\ Conclude(entry, v)
      /\ UNCHANGED <<manifest, live, scope, todo, before, succeeded, held, lost,
                     torn, faulted>>
  BY DEF Restat, history, Active, Reading
<1>2. entry \notin torn /\ Len(open.data) = entry.size => got = open.data
  <2>1. Len(got) = entry.size
    BY <1>1 DEF IInv, ReadInv
  <2>2. entry \notin torn => \A i \in 1..Len(got) : got[i] = open.data[i]
    BY <1>1 DEF IInv, ReadInv
  <2>. QED BY <1>1, <2>1, <2>2, ReadingFacts, SeqEqual
<1>3. v = "clean" => entry \in held \union torn
  BY <1>1, <1>2 DEF IInv, ReadInv
<1>4. entry \notin lost => v = "clean"
  <2>1. entry \notin lost => open.data = entry.data /\ entry \notin torn
    BY <1>1 DEF IInv, ReadInv, HistoryInv
  <2>. QED BY <1>1, <1>2, <2>1, ReadingFacts
<1>5. todo' = todo \ {entry}
  BY <1>1, ReadingFacts
<1> HIDE DEF v
<1>. QED BY <1>1, <1>3, <1>4, <1>5, ReadingFacts, ConcludeStep

\* A scope succeeds when all its entries were judged clean: none is left out.
LEMMA FinishStep ==
  ASSUME IInv, Finish
  PROVE  IInv'
<1> DEFINE ok == \A e \in Selected(manifest, scope) \intersect DOMAIN outcome :
                   outcome[e] = "clean"
<1>1. /\ pc = "next" /\ todo = {} /\ scope \in Scopes /\ EndScope(ok)
      /\ UNCHANGED <<manifest, live, todo, entry, before, open, got, outcome,
                     held, lost, torn, faulted>>
  BY DEF Finish, history
<1>2. ok => Selected(manifest, scope) \subseteq Judged("clean")
  BY <1>1 DEF IInv, CoverInv, Judged, Active, Reading
<1> HIDE DEF ok
<1>3. ~Active /\ ~Active' /\ pc' \in {"load", "next"} /\ entry = None
      /\ scope' \in {scope, "done"} /\ scope' # "none"
  BY <1>1 DEF EndScope, Active, Reading, IInv, ProgressInv, Scopes
<1>4. ProgressInv'
  <2>1. CASE ok
    BY <1>1, <1>3, <2>1 DEF IInv, ProgressInv, EndScope, Scopes
  <2>2. CASE ~ok
    BY <1>1, <1>3, <2>2 DEF IInv, ProgressInv, EndScope, Scopes
  <2>. QED BY <2>1, <2>2
<1>5. CoverInv'
  <2>1. \A e \in DOMAIN outcome' : e \in manifest' /\ scope' # "none"
    BY <1>1, <1>3 DEF IInv, CoverInv
  <2>2. scope' \in Scopes => pc' = "load"
    BY <1>1 DEF EndScope, Scopes
  <2>3. \A s \in succeeded' : Selected(manifest, s) \subseteq Judged("clean")'
    BY <1>1, <1>2 DEF IInv, CoverInv, Judged, EndScope
  <2>. QED BY <1>1, <2>1, <2>2, <2>3 DEF CoverInv
<1>6. HistoryInv'
  BY <1>1, <1>3 DEF IInv, HistoryInv, InPlace, Scopes
<1>7. ReadInv'
  BY <1>3 DEF ReadInv, Active, Reading
<1>8. PlacesOK' /\ CleanWasInPlace' /\ IntactIsClean'
  BY <1>1 DEF IInv, PlacesOK, CleanWasInPlace, IntactIsClean, Judged
<1>. QED BY <1>4, <1>5, <1>6, <1>7, <1>8 DEF IInv

\* A failing system call never makes an entry clean.
LEMMA FaultStep ==
  ASSUME IInv, Fault
  PROVE  IInv'
<1>1. UNCHANGED <<manifest, live, scope, succeeded, held, lost, torn>>
  BY DEF Fault
<1>2. CASE /\ entry # None /\ Conclude(entry, "uncertainty")
           /\ faulted' = faulted \union {entry} /\ UNCHANGED todo
  <2>1. Active
    BY <1>2 DEF IInv, ProgressInv
  <2>2. /\ scope \in Scopes /\ entry \in Selected(manifest, scope)
        /\ todo' = todo \ {entry} /\ pc # "load"
    BY <1>2, <2>1, EntriesAreValid DEF IInv, ProgressInv, Active, Reading
  <2>. QED BY <1>1, <1>2, <2>2, ConcludeStep
<1>3. CASE /\ pc = "next" /\ todo # {}
           /\ LET e == CHOOSE e \in todo : TRUE
              IN /\ Conclude(e, "uncertainty") /\ todo' = todo \ {e}
                 /\ faulted' = faulted \union {e}
  <2>1. PICK e \in todo : /\ Conclude(e, "uncertainty") /\ todo' = todo \ {e}
                          /\ faulted' = faulted \union {e}
    BY <1>3
  <2>2. /\ scope \in Scopes /\ e \in Selected(manifest, scope) /\ ~Active
    BY <1>3, EntriesAreValid DEF IInv, ProgressInv, Active, Reading
  <2>. QED BY <1>1, <1>3, <2>1, <2>2, ConcludeStep
<1>. QED BY <1>2, <1>3 DEF Fault
-----------------------------------------------------------------------------
(* What other processes do keeps it as well.                                 *)

\* A change of the file at a path is noted in the history, and whoever has the
\* file open sees what is written into it.
LEMMA NotedStep ==
  ASSUME IInv, manifest # Malformed, scope # "none",
         NEW t \in Paths, NEW file \in Files, Note(t, file),
         UNCHANGED <<manifest, scope, todo, entry, pc, before, got, outcome,
                     succeeded, faulted>>,
         \/ UNCHANGED <<open, torn>>
         \/ /\ Active /\ entry.target = t /\ torn' = torn \union {entry}
            /\ \E d \in Data : open' = [open EXCEPT !.data = d]
  PROVE  IInv'
<1>1. /\ live' \in [Paths -> Files] /\ live'[t] = file
      /\ \A p \in Paths \ {t} : live'[p] = live[p]
      /\ held \subseteq held' /\ lost \subseteq lost'
      /\ \A e \in manifest : e.target = t => e \in lost'
  BY NoteEffect DEF IInv
<1>2. \A e \in manifest : e.target \in Paths
  BY EntryTypes DEF IInv, PlacesOK
<1>3. torn \subseteq torn' /\ torn' \subseteq lost'
  BY <1>1, EntriesAreValid DEF IInv, HistoryInv
<1>4. PlacesOK' /\ CoverInv'
  BY <1>1 DEF IInv, PlacesOK, CoverInv, Judged, Active, Reading
<1>5. ProgressInv'
  BY DEF IInv, ProgressInv, Active, Reading
<1>6. HistoryInv'
  <2>1. InPlace(manifest, live') \subseteq held'
    <3>1. held' = held \union InPlace({e \in manifest : e.target = t}, live')
      BY DEF Note
    <3>. QED BY <1>1, <1>2, <3>1 DEF IInv, HistoryInv, InPlace
  <2>2. \A e \in manifest \ lost' : Is(e, live'[e.target])
    BY <1>1, <1>2 DEF IInv, HistoryInv
  <2>. QED BY <1>3, <2>1, <2>2 DEF HistoryInv
<1>7. ReadInv'
  <2>1. Active => entry \in manifest
    BY EntriesAreValid
  <2>2. Active' <=> Active
    BY DEF Active, Reading
  <2>3. Active /\ entry \notin lost' => /\ live'[entry.target] = live[entry.target]
                                        /\ UNCHANGED <<open, torn>>
    BY <1>1, <1>2, <2>1
  <2>4. Reading => /\ open' \in [id : Inodes, data : Data]
                   /\ entry \notin torn' => open' = open
    BY DEF IInv, ReadInv
  <2>. QED BY <1>1, <1>3, <2>2, <2>3, <2>4 DEF IInv, ReadInv, Active, Reading
<1>8. CleanWasInPlace' /\ IntactIsClean'
  BY <1>1, <1>3 DEF IInv, CleanWasInPlace, IntactIsClean, Judged
<1>. QED BY <1>4, <1>5, <1>6, <1>7, <1>8 DEF IInv

LEMMA ReplaceStep ==
  ASSUME IInv, Replace
  PROVE  IInv'
<1>1. PICK e \in manifest, i \in Ids : \E file \in Alternatives(e) :
        Note(e.target, IF file = Gone THEN Gone ELSE [file EXCEPT !.id = i])
  BY DEF Replace
<1>2. PICK file \in Alternatives(e) :
        Note(e.target, IF file = Gone THEN Gone ELSE [file EXCEPT !.id = i])
  BY <1>1
<1>3. /\ manifest # Malformed /\ scope # "none"
      /\ UNCHANGED <<manifest, scope, todo, entry, pc, before, got, outcome,
                     succeeded, faulted, open, torn>>
  BY DEF Replace, audit
<1>4. e.data \in Data /\ e.target \in Paths /\ i \in Inodes
  BY <1>3, EntryTypes DEF IInv, PlacesOK, Inodes
<1>5. (IF file = Gone THEN Gone ELSE [file EXCEPT !.id = i]) \in Files
  BY <1>4, AlternativesAreFiles DEF Files
<1>. QED BY <1>2, <1>3, <1>4, <1>5, NotedStep

\* What is watched is the path of an entry.
LEMMA WatchedIsPath ==
  ASSUME IInv, manifest # Malformed, NEW t \in Watched
  PROVE  t \in Paths /\ live[t] \in Files
BY EntryTypes DEF Watched, IInv, PlacesOK

LEMMA OverwriteStep ==
  ASSUME IInv, Overwrite
  PROVE  IInv'
<1>1. PICK t \in Watched :
        /\ live[t].type = "regular" /\ Len(live[t].data) > 0
        /\ \E d \in Overwritten(live[t].data) \ {live[t].data} :
             /\ Note(t, [live[t] EXCEPT !.data = d])
             /\ IF Opened(t)
                THEN /\ open' = [open EXCEPT !.data = d]
                     /\ torn' = torn \union {entry}
                ELSE UNCHANGED <<open, torn>>
  BY DEF Overwrite
<1>2. PICK d \in Overwritten(live[t].data) :
        /\ Note(t, [live[t] EXCEPT !.data = d])
        /\ IF Opened(t)
           THEN /\ open' = [open EXCEPT !.data = d]
                /\ torn' = torn \union {entry}
           ELSE UNCHANGED <<open, torn>>
  BY <1>1
<1>3. /\ manifest # Malformed /\ scope # "none"
      /\ UNCHANGED <<manifest, scope, todo, entry, pc, before, got, outcome,
                     succeeded, faulted>>
  BY DEF Overwrite
<1>4. /\ t \in Paths
      /\ live[t] \in [type : {"regular", "dir", "symlink"}, id : Inodes,
                      data : Data, right : SUBSET {"mode", "owner"}]
  BY <1>1, <1>3, WatchedIsPath DEF Files, Gone
<1>5. d \in Data
  BY <1>1, <1>2, <1>4, OverwrittenIsData
<1>6. [live[t] EXCEPT !.data = d] \in Files
  BY <1>4, <1>5 DEF Files
<1>7. Opened(t) => Active /\ entry.target = t
  BY DEF Opened, IInv, ProgressInv
<1>. QED BY <1>2, <1>3, <1>4, <1>5, <1>6, <1>7, NotedStep

LEMMA ChmodStep ==
  ASSUME IInv, Chmod
  PROVE  IInv'
<1>1. PICK t \in Watched, r \in SUBSET {"mode", "owner"} :
        live[t].type = "dir" /\ Note(t, [live[t] EXCEPT !.right = r])
  BY DEF Chmod
<1>2. /\ manifest # Malformed /\ scope # "none"
      /\ UNCHANGED <<manifest, scope, todo, entry, pc, before, got, outcome,
                     succeeded, faulted, open, torn>>
  BY DEF Chmod, audit
<1>3. /\ t \in Paths
      /\ live[t] \in [type : {"regular", "dir", "symlink"}, id : Inodes,
                      data : Data, right : SUBSET {"mode", "owner"}]
  BY <1>1, <1>2, WatchedIsPath DEF Files, Gone
<1>4. [live[t] EXCEPT !.right = r] \in Files
  BY <1>3 DEF Files
<1>. QED BY <1>1, <1>2, <1>3, <1>4, NotedStep

LEMMA StepInvariant ==
  ASSUME IInv, [Next]_vars
  PROVE  IInv'
<1>1. CASE AuditStep
  BY <1>1, LoadStep, LstatStep, OpenStep, ReadStep, RestatStep, FinishStep,
     FaultStep DEF AuditStep
<1>2. CASE Replace \/ Overwrite \/ Chmod
  BY <1>2, ReplaceStep, OverwriteStep, ChmodStep
<1>3. CASE UNCHANGED vars
  BY <1>3 DEF vars, audit, history, IInv, PlacesOK, ProgressInv, CoverInv,
              HistoryInv, ReadInv, InPlace, CleanWasInPlace, IntactIsClean,
              Judged, Active, Reading
<1>. QED BY <1>1, <1>2, <1>3 DEF Next

\* The invariant holds however the files change under the audit.
THEOREM InvariantHolds == Spec => []IInv
BY InitInvariant, StepInvariant, PTL DEF Spec
-----------------------------------------------------------------------------
(* What the audit promises the runner.                                       *)

\* What is reported clean was in place at some instant of the audit, unless the
\* file was written to while it was read.
THEOREM CleanIsTrue == Spec => []CleanWasInPlace
<1>1. IInv => CleanWasInPlace
  BY DEF IInv
<1>. QED BY <1>1, InvariantHolds, PTL

\* A file nobody touched is not reported as drift: a host in order triggers no
\* repair.
THEOREM NoFalseDrift == Spec => []IntactIsClean
<1>1. IInv => IntactIsClean
  BY DEF IInv
<1>. QED BY <1>1, InvariantHolds, PTL

\* Two audits that return zero have judged the whole manifest clean, and it is a
\* manifest that carries the foundations.
THEOREM AuditsCover == Spec => []BothScopesCoverManifest
<1>1. IInv => BothScopesCoverManifest
  <2> SUFFICES ASSUME IInv, succeeded = Scopes
               PROVE  /\ Judged("clean") = manifest
                      /\ Required \subseteq {e.kind : e \in manifest}
    BY DEF BothScopesCoverManifest
  <2>1. manifest \subseteq Judged("clean")
    BY ScopesSplit DEF IInv, CoverInv, Scopes
  <2>2. Judged("clean") \subseteq manifest
    BY DEF IInv, CoverInv, Judged
  <2>3. Valid(manifest)
    BY DEF IInv, ProgressInv, Scopes
  <2>. QED BY <2>1, <2>2, <2>3 DEF Valid
<1>. QED BY <1>1, InvariantHolds, PTL
=============================================================================
