--------------------------- MODULE FencedRegistry ---------------------------
(***************************************************************************)
(* What the durable lease registry promises, seen from its file alone: for *)
(* every task one holder at most, and a fencing generation that changes    *)
(* exactly when the task is handed over, by one.  Locks, clocks, retries   *)
(* and crashes are absent: in one step any tasks may be given up, and any  *)
(* free or given-up ones handed to a worker under the next generation.     *)
(* docs/architecture/ENGINEERING_AGENCY_V52.md states it at line 61.  The  *)
(* leases of resources (autonomy/resources.py, "exclusive leases ... with  *)
(* epoch and generation fencing") promise the same of every resource.      *)
(***************************************************************************)
EXTENDS Naturals

CONSTANTS Tasks, Workers, Nobody

VARIABLES holder, epoch

Init ==
  /\ holder = [t \in Tasks |-> Nobody]
  /\ epoch = [t \in Tasks |-> 0]

Kept(t) == holder'[t] = holder[t] /\ epoch'[t] = epoch[t]

GivenUp(t) == holder'[t] = Nobody /\ epoch'[t] = epoch[t]

HandedOver(t) == holder'[t] \in Workers /\ epoch'[t] = epoch[t] + 1

Next ==
  /\ \A t \in Tasks : Kept(t) \/ GivenUp(t) \/ HandedOver(t)
  /\ holder' = [t \in Tasks |-> holder'[t]]
  /\ epoch' = [t \in Tasks |-> epoch'[t]]

Spec == Init /\ [][Next]_<<holder, epoch>>
=============================================================================
