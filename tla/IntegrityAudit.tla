--------------------------- MODULE IntegrityAudit ---------------------------
(***************************************************************************)
(* The integrity audit (integrity.py, cli/integrity.py): every entry of a  *)
(* manifest is compared with what is at its path, while other processes    *)
(* replace, delete and overwrite files.  The runner audits the enrollment  *)
(* foundations first and the ordinary entries next.                        *)
(*                                                                         *)
(* A file is a sequence of chunks, as os.read returns them; a digest       *)
(* stands for the content.  Modes and owners are right or wrong.           *)
(***************************************************************************)
EXTENDS Naturals, Sequences, FiniteSets

CONSTANTS
  Manifests,    \* sets of entries a manifest file may hold
  Chunks,       \* what a chunk may contain
  MaxHash,      \* MAX_HASH_BYTES, in chunks
  Ids,          \* inode numbers
  Busy,         \* targets that other processes change during the audit
  Malformed,    \* a manifest that cannot be read as one
  MaxChanges, MaxFaults   \* bounds: changes of files, failing system calls

Scopes == {"enrollment-foundations", "ordinary"}
FoundationKinds == {"host.sysusers", "host.sudoers", "host.authorized_keys"}
Required == {"host.sysusers", "host.sudoers"}

ASSUME ManifestsAssumption ==
  /\ \A m \in Manifests \ {Malformed} : \A e \in m :
       /\ e.directory \in BOOLEAN /\ e.resolvable \in BOOLEAN
       /\ e.declares \subseteq {"mode", "owner"}
       /\ e.fixed \in BOOLEAN /\ e.size = Len(e.data)
       /\ e.data \in Seq(Chunks)
  /\ MaxHash \in Nat /\ MaxChanges \in Nat /\ MaxFaults \in Nat

VARIABLES
  manifest,   \* the manifest under audit
  live,       \* what is at each target path
  scope,      \* the scope being audited, "none" before, "done" after both
  todo,       \* selected entries not yet audited
  entry,      \* the entry being audited
  pc,         \* "load", "next", "open", "read", "restat"
  before,     \* inode and size that lstat saw
  open,       \* inode and content behind the descriptor
  got,        \* chunks read
  outcome,    \* of the audited entries
  succeeded,  \* scopes whose audit returned zero
  held,       \* history: entries whose identity was in place at some instant
  lost,       \* history: ... was out of place or replaced at some instant
  torn,       \* history: entries whose file was overwritten while it was open
  faulted,    \* history: entries met by a failing system call
  changes, faults  \* bounded counters

audit == <<scope, todo, entry, pc, before, open, got, outcome, succeeded>>
history == <<held, lost, torn, faulted>>
vars == <<manifest, live, audit, history, changes, faults>>

Gone == [type |-> "none"]
None == [id |-> 0]

Regular(i, d) == [type |-> "regular", id |-> i, data |-> d, right |-> {}]
Directory(i, r) == [type |-> "dir", id |-> i, data |-> <<>>, right |-> r]
Symlink(i, d) == [type |-> "symlink", id |-> i, data |-> d, right |-> {}]

\* The identity a manifest declares: type and content, or type and metadata.
Is(e, file) ==
  IF e.directory THEN file.type = "dir" /\ e.declares \subseteq file.right
  ELSE file.type = "regular" /\ file.data = e.data

-----------------------------------------------------------------------------
(* The manifest. *)

Targets(m) == {e.target : e \in m}
Paths == UNION {Targets(m) : m \in Manifests \ {Malformed}}

\* _validate_entries: identities are unique, foundations are exactly the fixed
\* ones, and none of the required ones is missing.
Valid(m) ==
  /\ m # Malformed
  /\ \A e, f \in m : e # f => e.target # f.target /\ e.render # f.render
  /\ \A e \in m : e.kind \in FoundationKinds => e.fixed
  /\ Required \subseteq {e.kind : e \in m}

\* Mutant of Selected: keys of principals belong to neither scope.
SelectedFixedOnly(m, s) ==
  IF s = "ordinary" THEN {e \in m : e.kind \notin FoundationKinds}
  ELSE {e \in m : e.kind \in Required}

\* _selected_entries
Selected(m, s) ==
  {e \in m : (s = "enrollment-foundations") <=> (e.kind \in FoundationKinds)}

Entries == UNION (Manifests \ {Malformed})

\* What may be at the path of an entry.
Alternatives(e) ==
  {Gone} \union {Directory(1, r) : r \in SUBSET {"mode", "owner"}}
    \union {Regular(1, d) : d \in {e.data, <<>>, Append(e.data, "x"),
                                   [i \in DOMAIN e.data |->
                                     IF i = Len(e.data) THEN "x" ELSE e.data[i]]}}
    \union {Symlink(1, e.data)}

InPlace(m, files) == {e \in m : Is(e, files[e.target])}

Init ==
  /\ manifest \in Manifests
  /\ IF manifest = Malformed
     THEN live = [t \in Paths |-> Gone]
     ELSE \E odd \in manifest :
            live \in {[t \in Paths |->
                        IF t = odd.target THEN file
                        ELSE IF \E e \in manifest : e.target = t
                        THEN LET e == CHOOSE e \in manifest : e.target = t
                             IN IF e.directory THEN Directory(1, e.declares)
                                ELSE Regular(1, e.data)
                        ELSE Gone] : file \in Alternatives(odd)}
  /\ scope = "none" /\ todo = {} /\ entry = None /\ pc = "load"
  /\ before = [id |-> 0, size |-> 0] /\ open = None /\ got = <<>>
  /\ outcome = <<>> /\ succeeded = {}
  /\ held = {} /\ lost = {} /\ torn = {} /\ faulted = {}
  /\ changes = 0 /\ faults = 0

-----------------------------------------------------------------------------
(* The audit. *)

NextScope == IF scope = "none" THEN "enrollment-foundations" ELSE "ordinary"

\* The runner stops at the first scope that does not return zero.
EndScope(ok) ==
  /\ succeeded' = IF ok THEN succeeded \union {scope} ELSE succeeded
  /\ scope' = IF ok /\ scope # "ordinary" THEN scope ELSE "done"
  /\ pc' = IF ok /\ scope # "ordinary" THEN "load" ELSE "next"

\* _load_manifest of the next scope; a manifest that is not valid ends it.
Load ==
  /\ pc = "load" /\ scope \in {"none", "enrollment-foundations"}
  /\ IF Valid(manifest)
     THEN /\ scope' = NextScope /\ pc' = "next"
          /\ todo' = Selected(manifest, NextScope)
     ELSE scope' = "done" /\ pc' = "next" /\ todo' = {}
  /\ IF manifest = Malformed \/ scope # "none" THEN UNCHANGED <<held, lost>>
     ELSE /\ held' = InPlace(manifest, live)
          /\ lost' = manifest \ InPlace(manifest, live)
  /\ UNCHANGED <<manifest, live, entry, before, open, got, outcome, succeeded,
                 torn, faulted, changes, faults>>

\* The verdict on the current entry; the descriptor is closed.
Conclude(e, verdict) ==
  /\ outcome' = [x \in DOMAIN outcome \union {e} |->
                  IF x = e THEN verdict ELSE outcome[x]]
  /\ entry' = None /\ pc' = "next" /\ open' = None /\ got' = <<>>

\* _audit_directory_metadata
Metadata(e, file) ==
  IF "mode" \in e.declares \ file.right THEN "drift"
  ELSE IF "owner" \in e.declares /\ ~e.resolvable THEN "uncertainty"
  ELSE IF e.declares \subseteq file.right THEN "clean" ELSE "drift"

\* What lstat alone decides.
Leaf(e, file) ==
  IF file = Gone \/ file.type = "symlink" THEN "drift"
  ELSE IF e.directory
  THEN IF file.type = "dir" THEN Metadata(e, file) ELSE "drift"
  ELSE IF file.type # "regular" THEN "drift"
  ELSE IF e.size > MaxHash THEN "uncertainty"
  ELSE IF Len(file.data) # e.size THEN "drift" ELSE "hash"

\* _audit_entry up to the file itself.
Lstat ==
  /\ pc = "next" /\ todo # {}
  /\ LET e == CHOOSE e \in todo : TRUE
         file == live[e.target]
     IN /\ todo' = todo \ {e}
        /\ IF Leaf(e, file) = "hash"
           THEN /\ entry' = e /\ pc' = "open"
                /\ before' = [id |-> file.id, size |-> Len(file.data)]
                /\ UNCHANGED <<open, got, outcome>>
           ELSE Conclude(e, Leaf(e, file)) /\ UNCHANGED before
  /\ UNCHANGED <<manifest, live, scope, succeeded, history, changes, faults>>

\* Mutant of Open: a link is followed, and the inode is not compared.
OpenFollowed ==
  /\ pc = "open"
  /\ LET file == live[entry.target]
     IN IF file # Gone /\ Len(file.data) = entry.size
        THEN /\ open' = [id |-> file.id, data |-> file.data]
             /\ pc' = "read" /\ got' = <<>>
             /\ UNCHANGED <<entry, outcome>>
        ELSE Conclude(entry, "uncertainty")
  /\ UNCHANGED <<manifest, live, scope, todo, before, succeeded, history, changes,
                 faults>>

\* O_NOFOLLOW, then fstat against what lstat saw.
Open ==
  /\ pc = "open"
  /\ LET file == live[entry.target]
     IN IF /\ file.type = "regular" /\ file.id = before.id
           /\ Len(file.data) = entry.size
        THEN /\ open' = [id |-> file.id, data |-> file.data]
             /\ pc' = "read" /\ got' = <<>>
             /\ UNCHANGED <<entry, outcome>>
        ELSE Conclude(entry, "uncertainty")
  /\ UNCHANGED <<manifest, live, scope, todo, before, succeeded, history, changes,
                 faults>>

\* Mutant of Read: the last chunk is left out.
ReadShort ==
  /\ pc = "read"
  /\ IF Len(got) + 1 < entry.size
     THEN /\ got' = Append(got, open.data[Len(got) + 1])
          /\ UNCHANGED <<entry, pc, open, outcome>>
     ELSE pc' = "restat" /\ UNCHANGED <<entry, open, got, outcome>>
  /\ UNCHANGED <<manifest, live, scope, todo, before, succeeded, history, changes,
                 faults>>

\* One read, or the read that must find the end.
Read ==
  /\ pc = "read"
  /\ IF Len(got) < entry.size
     THEN IF Len(got) < Len(open.data)
          THEN /\ got' = Append(got, open.data[Len(got) + 1])
               /\ UNCHANGED <<entry, pc, open, outcome>>
          ELSE Conclude(entry, "uncertainty")
     ELSE IF Len(open.data) > entry.size
          THEN Conclude(entry, "uncertainty")
          ELSE pc' = "restat" /\ UNCHANGED <<entry, open, got, outcome>>
  /\ UNCHANGED <<manifest, live, scope, todo, before, succeeded, history, changes,
                 faults>>

\* fstat again, then the digest.
Restat ==
  /\ pc = "restat"
  /\ Conclude(entry, IF Len(open.data) # entry.size THEN "uncertainty"
                     ELSE IF got = entry.data THEN "clean" ELSE "drift")
  /\ UNCHANGED <<manifest, live, scope, todo, before, succeeded, history, changes,
                 faults>>

Finish ==
  /\ pc = "next" /\ todo = {} /\ scope \in Scopes
  /\ EndScope(\A e \in Selected(manifest, scope) \intersect DOMAIN outcome :
                outcome[e] = "clean")
  /\ UNCHANGED <<manifest, live, todo, entry, before, open, got, outcome, history,
                 changes, faults>>

\* A system call of the current entry fails.
Fault ==
  /\ faults < MaxFaults /\ faults' = faults + 1
  /\ \/ /\ entry # None /\ Conclude(entry, "uncertainty")
        /\ faulted' = faulted \union {entry} /\ UNCHANGED todo
     \/ /\ pc = "next" /\ todo # {}
        /\ LET e == CHOOSE e \in todo : TRUE
           IN /\ Conclude(e, "uncertainty") /\ todo' = todo \ {e}
              /\ faulted' = faulted \union {e}
  /\ UNCHANGED <<manifest, live, scope, before, succeeded, held, lost, torn, changes>>

-----------------------------------------------------------------------------
(* Other processes. *)

Opened(t) == open # None /\ live[t] # Gone /\ live[t].id = open.id
               /\ entry.target = t

\* The file at a path becomes another one; inode numbers in use are not reused.
Note(t, file) ==
  /\ live' = [live EXCEPT ![t] = file]
  /\ held' = held \union InPlace({e \in manifest : e.target = t}, live')
  /\ lost' = lost \union {e \in manifest : e.target = t}
  /\ changes < MaxChanges /\ changes' = changes + 1

Watched == Busy \intersect {e.target : e \in manifest}

\* Renamed over, or deleted.
Replace ==
  /\ manifest # Malformed /\ scope # "none"
  /\ \E e \in manifest, i \in Ids : \E file \in Alternatives(e) :
       /\ e.target \in Watched
       /\ open = None \/ i # open.id
       /\ live[e.target] # Gone => i # live[e.target].id
       /\ Note(e.target, IF file = Gone THEN Gone ELSE [file EXCEPT !.id = i])
  /\ UNCHANGED <<manifest, audit, torn, faulted, faults>>

\* Content written through the path, seen by whoever has the file open.
Overwritten(d) ==
  {[d EXCEPT ![i] = c] : i \in DOMAIN d, c \in Chunks \union {"x"}}
    \union {Append(d, "x")} \union {SubSeq(d, 1, Len(d) - 1)}

Overwrite ==
  /\ manifest # Malformed /\ scope # "none"
  /\ \E t \in Watched :
       /\ live[t].type = "regular" /\ Len(live[t].data) > 0
       /\ \E d \in Overwritten(live[t].data) \ {live[t].data} :
            /\ Note(t, [live[t] EXCEPT !.data = d])
            /\ IF Opened(t)
               THEN /\ open' = [open EXCEPT !.data = d]
                    /\ torn' = torn \union {entry}
               ELSE UNCHANGED <<open, torn>>
  /\ UNCHANGED <<manifest, scope, todo, entry, pc, before, got, outcome, succeeded,
                 faulted, faults>>

\* A directory gets another mode or owner.
Chmod ==
  /\ manifest # Malformed /\ scope # "none"
  /\ \E t \in Watched :
       /\ live[t].type = "dir"
       /\ \E r \in SUBSET {"mode", "owner"} :
            Note(t, [live[t] EXCEPT !.right = r])
  /\ UNCHANGED <<manifest, audit, torn, faulted, faults>>

AuditStep == Load \/ Lstat \/ Open \/ Read \/ Restat \/ Finish \/ Fault

Next == AuditStep \/ Replace \/ Overwrite \/ Chmod

Spec == Init /\ [][Next]_vars

-----------------------------------------------------------------------------
(* Properties. *)

Judged(verdict) == {e \in DOMAIN outcome : outcome[e] = verdict}

\* What is reported clean was in place, at its own path and not behind a link, at
\* some instant of the audit, files replaced meanwhile included; only a file that
\* is overwritten while it is read escapes (integrity.py:247).
CleanWasInPlace == Judged("clean") \subseteq held \union torn

\* What was left in place all the time is reported clean, unless a system call fails:
\* a host without drift triggers no repair (integrity.py:209).
IntactIsClean ==
  \A e \in DOMAIN outcome \ (lost \union faulted) :
    ~e.directory /\ e.size <= MaxHash => e \in Judged("clean") \/ e \in torn

\* When both scopes return zero, every entry of the manifest was found clean, and
\* the required foundations are among them (integrity.py:197, abhaile-runner:823).
BothScopesCoverManifest ==
  succeeded = Scopes =>
    /\ Judged("clean") = manifest
    /\ Required \subseteq {e.kind : e \in manifest}

=============================================================================
