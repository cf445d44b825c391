---------------------------- MODULE AcceptedHost ----------------------------
(***************************************************************************)
(* What the reconciliation state promises about a host, whatever runner    *)
(* drives it (docs/adr/0013): one accepted revision, at most one pending   *)
(* revision that may have mutated the host, and contents that only ever    *)
(* come from these two.                                                    *)
(***************************************************************************)
CONSTANTS Revs, None

VARIABLES
  accepted,   \* the revision a recovery would bring back, or None
  pending,    \* the revision whose mutation was begun, or None
  contents    \* the revisions that may have left resources on the host

avars == <<accepted, pending, contents>>

Init ==
  /\ accepted \in Revs \union {None}
  /\ pending = None
  /\ contents = {accepted} \ {None}

\* The first revision of a host is accepted by an operator.
Enroll(r) ==
  /\ accepted = None /\ pending = None
  /\ accepted' = r /\ contents' = {r}
  /\ UNCHANGED pending

\* A mutation begins from a host that holds the accepted revision only.
Begin(r) ==
  /\ contents = {accepted}
  /\ pending' = r
  /\ UNCHANGED <<accepted, contents>>

\* While a mutation is pending, the host is brought towards either revision...
Touch(r) ==
  /\ pending # None /\ r \in {accepted, pending}
  /\ contents' = contents \union {r}
  /\ UNCHANGED <<accepted, pending>>

\* ... until it holds that revision and nothing else.
Settle(r) ==
  /\ pending # None /\ r \in {accepted, pending}
  /\ contents' = {r}
  /\ UNCHANGED <<accepted, pending>>

\* A pending revision that is all the host holds may be accepted.
Accept ==
  /\ pending # None /\ contents = {pending}
  /\ accepted' = pending
  /\ UNCHANGED <<pending, contents>>

\* Nothing is pending any more once the host holds the accepted revision only.
Finish ==
  /\ pending # None /\ contents = {accepted}
  /\ pending' = None
  /\ UNCHANGED <<accepted, contents>>

Next ==
  \/ \E r \in Revs : Enroll(r) \/ Begin(r) \/ Touch(r) \/ Settle(r)
  \/ Accept \/ Finish

Spec == Init /\ [][Next]_avars
=============================================================================
