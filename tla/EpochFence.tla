----------------------------- MODULE EpochFence -----------------------------
(***************************************************************************)
(* What kernel epochs promise about leases and jobs, seen from the rows    *)
(* alone: epochs are fenced, in any number at a time and for good; an      *)
(* epoch that is fenced is in possession of nothing from then on, and      *)
(* nothing is handed to it.  Kernels, boots, transactions, statuses and    *)
(* restarts are absent.  Only with the database does the memory of what    *)
(* was fenced go, and every row with it.  In the repository this is what   *)
(* startup.py says of a boot: "Fence Stale Model Leases", "Fence Stale     *)
(* Worker Jobs" (lines 108 and 111).                                       *)
(***************************************************************************)
EXTENDS Naturals

CONSTANTS Rows

VARIABLES
  fenced,  \* the epochs that were fenced
  holder   \* by row: the epoch that holds it, Nobody when it is free

Nobody == 0

Init == fenced = {} /\ holder = [r \in Rows |-> Nobody]

\* Epochs are fenced: what they hold becomes free, and other rows may.
Fence ==
  /\ fenced \subseteq fenced' /\ fenced' \subseteq Nat \ {Nobody}
  /\ holder' \in [Rows -> Nat]
  /\ \A r \in Rows : holder'[r] \in {holder[r], Nobody} /\ holder'[r] \notin fenced'

\* An epoch that is not fenced takes a row, free or not.
Take(r) ==
  /\ holder'[r] \in Nat \ fenced
  /\ holder' = [holder EXCEPT ![r] = holder'[r]]
  /\ UNCHANGED fenced

Release(r) ==
  /\ holder' = [holder EXCEPT ![r] = Nobody]
  /\ UNCHANGED fenced

\* A database that is lost is begun again.
Lost == fenced' = {} /\ holder' = [r \in Rows |-> Nobody]

Next == Fence \/ Lost \/ \E r \in Rows : Take(r) \/ Release(r)

Spec == Init /\ [][Next]_<<fenced, holder>>
=============================================================================
