-------------------------- MODULE VerifiedDelivery --------------------------
(***************************************************************************)
(* What the agency promises about the tree that a delivery leaves in the   *)
(* base checkout.  Requirements enter it one at a time and once each, as a *)
(* revision that the requirement's own verification passed; and a tree     *)
(* enters it only if exactly that tree was verified while nothing else had *)
(* been merged.  Nodes, worktrees, branches, failed merges, replanning and *)
(* crashes are absent.  docs/architecture/ENGINEERING_AGENCY_V52.md states *)
(* it at lines 92-104.                                                     *)
(***************************************************************************)
EXTENDS Naturals

CONSTANTS Reqs

VARIABLES
  base,     \* the tree: the revision of each requirement in it, 0 for none
  seen,     \* by requirement: the revisions its verification passed
  accepted  \* the trees that passed the verification of the merged tree

Init ==
  /\ base = [r \in Reqs |-> 0]
  /\ seen = [r \in Reqs |-> {}]
  /\ accepted = {base}

\* A revision of r passes its verification.
Verify(r) ==
  /\ \E v \in seen'[r] : seen' = [seen EXCEPT ![r] = @ \cup {v}]
  /\ UNCHANGED <<base, accepted>>

\* The base with one requirement more.
With(r, v) == [base EXCEPT ![r] = v]

Accept(r) ==
  /\ base[r] = 0
  /\ \E v \in seen[r] : accepted' = accepted \cup {With(r, v)}
  /\ UNCHANGED <<base, seen>>

Deliver(r) ==
  /\ base[r] = 0
  /\ \E v \in seen[r] \ {0} : With(r, v) \in accepted /\ base' = With(r, v)
  /\ UNCHANGED <<seen, accepted>>

Next == \E r \in Reqs : Verify(r) \/ Accept(r) \/ Deliver(r)

Spec == Init /\ [][Next]_<<base, seen, accepted>>
=============================================================================
