-------------------------- MODULE ExecutiveProofs --------------------------
(***************************************************************************)
(* Proofs about Executive: its types, and an inductive invariant from      *)
(* which nodes are taken in turn and a hand-off leaves no split brain.     *)
(***************************************************************************)
EXTENDS Executive, SequenceTheorems, TLAPS

\* Who works holds a node it took and a lease that was granted.
Busy ==
  \A s \in Steps : pc[s] /= "idle" =>
    /\ node[s] \in Nodes /\ status[node[s]] = "COGNITIVE_WORK"
    /\ lease[s] \in DOMAIN leases

Alone ==
  \A s, t \in Steps : pc[s] /= "idle" /\ pc[t] /= "idle" /\ node[s] = node[t] => s = t

\* A node that left PLANNED has its dependencies behind it.
DepsBehind == \A n \in Nodes : status[n] /= "PLANNED" => DepsMet(n)

\* Revocation is what a hand-off is remembered by.
OutgoingRevoked ==
  \A x \in snapshots :
    /\ x.outgoing \in DOMAIN leases
    /\ x.incoming /= 0 => leases[x.outgoing].status = "REVOKED"

DispatchesUnrevoked ==
  \A s \in Steps : pc[s] = "dispatching" => leases[lease[s]].status /= "REVOKED"

IInv == TypeOK /\ Busy /\ Alone /\ DepsBehind /\ OutgoingRevoked /\ DispatchesUnrevoked

---------------------------------------------------------------------------
(* What the operators return. *)

\* A charged lease is a lease, and charging revokes nothing.
LEMMA ChargedType ==
  ASSUME leases \in Seq(Lease), NEW l \in DOMAIN leases
  PROVE  /\ Charged(l) \in Lease
         /\ leases[l].status /= "REVOKED" => Charged(l).status /= "REVOKED"
<1>1. leases[l] \in Lease
  OBVIOUS
<1>2. /\ leases[l].turns + 1 \in Nat /\ leases[l].late \in BOOLEAN
      /\ leases[l].status \in {"ACTIVE", "EXHAUSTED", "REVOKED"}
  BY <1>1 DEF Lease
<1> QED
  BY <1>2 DEF Charged, Lease

\* A lease put in the place of another keeps the sequence a sequence of leases.
LEMMA LeaseReplaced ==
  ASSUME NEW held \in Seq(Lease), NEW l \in DOMAIN held, NEW v \in Lease
  PROVE  /\ [held EXCEPT ![l] = v] \in Seq(Lease)
         /\ DOMAIN [held EXCEPT ![l] = v] = DOMAIN held
         /\ [held EXCEPT ![l] = v][l] = v
         /\ \A k \in DOMAIN held : k /= l => [held EXCEPT ![l] = v][k] = held[k]
  BY ExceptSeq

\* A grant leaves the leases there were as they were.
LEMMA LeaseAppended ==
  ASSUME NEW held \in Seq(Lease), NEW v \in Lease
  PROVE  /\ Append(held, v) \in Seq(Lease)
         /\ Len(held) + 1 \in DOMAIN Append(held, v)
         /\ DOMAIN held \subseteq DOMAIN Append(held, v)
         /\ \A k \in DOMAIN held : Append(held, v)[k] = held[k]
         /\ Append(held, v)[Len(held) + 1] = v
  BY AppendProperties

\* A hand-off revokes the outgoing lease and touches no other.
LEMMA HandedOverType ==
  ASSUME NEW held \in Seq(Lease), NEW l \in DOMAIN held
  PROVE  /\ HandedOver(held, l) \in Seq(Lease)
         /\ DOMAIN held \subseteq DOMAIN HandedOver(held, l)
         /\ HandedOver(held, l)[l].status = "REVOKED"
         /\ \A k \in DOMAIN held : k /= l => HandedOver(held, l)[k] = held[k]
<1> DEFINE v == [held[l] EXCEPT !.status = "REVOKED"]
<1>1. held[l] \in Lease
  OBVIOUS
<1>2. v \in Lease /\ v.status = "REVOKED"
  BY <1>1 DEF Lease
<1>3. NewLease \in Lease
  BY DEF NewLease, Lease
<1>4. HandedOver(held, l) = Append([held EXCEPT ![l] = v], NewLease)
  BY DEF HandedOver
<1> HIDE DEF v
<1>5. [held EXCEPT ![l] = v] \in Seq(Lease)
  BY <1>2, LeaseReplaced
<1> QED
  BY <1>2, <1>3, <1>4, <1>5, LeaseReplaced, LeaseAppended

\* Taking a node moves no node that succeeded and none that is not ready.
LEMMA TakenStatus ==
  ASSUME status \in [Nodes -> NodeStatus], DepsBehind, NEW n \in Nodes, First(n), status' = Taken(n)
  PROVE  /\ status' \in [Nodes -> NodeStatus]
         /\ status[n] /= "COGNITIVE_WORK"
         /\ status'[n] = "COGNITIVE_WORK"
         /\ \A m \in Nodes : status[m] \in {"COGNITIVE_WORK", "SUCCEEDED"} => status'[m] = status[m]
         /\ DepsBehind'
<1>1. n \in Ready /\ (\A m \in Ready : m \in Nodes /\ status[m] \in {"PLANNED", "READY"} /\ DepsMet(m))
  BY DEF First, Ready, DepsBehind
<1>2. \A m \in Nodes : status[m] \in {"COGNITIVE_WORK", "SUCCEEDED"} => m \notin Ready /\ m /= n
  BY <1>1
<1>3. \A m \in Nodes : status[m] \in {"COGNITIVE_WORK", "SUCCEEDED"} => status'[m] = status[m]
  BY <1>2 DEF Taken
<1>4. \A m \in Nodes : DepsMet(m) => DepsMet(m)'
  BY <1>3 DEF DepsMet
<1>5. \A m \in Nodes : status'[m] /= "PLANNED" => DepsMet(m)
  BY <1>1 DEF Taken, DepsBehind
<1>6. status' \in [Nodes -> NodeStatus]
  BY DEF Taken, NodeStatus
<1> QED
  BY <1>1, <1>3, <1>4, <1>5, <1>6 DEF Taken, DepsBehind
---------------------------------------------------------------------------
(* The steps.  Frames first: what is left to show when only the leases, or *)
(* only the place of one step, change.                                     *)

LEMMA InitInv == Init => IInv
<1> SUFFICES ASSUME Init PROVE IInv
  OBVIOUS
<1>1. TypeOK
  BY DEF Init, TypeOK, NodeStatus, Lease, Snapshot, EventKind
<1>2. DepsBehind
  BY DEF Init, DepsBehind, DepsMet
<1> QED
  BY <1>1, <1>2 DEF Init, IInv, Busy, Alone, OutgoingRevoked, DispatchesUnrevoked

\* A step that ends takes nothing from the others and leaves nothing behind.
LEMMA EndsInv ==
  ASSUME IInv, NEW s \in Steps, Ends(s), UNCHANGED <<status, leases, snapshots>>,
         ledger' \in [Nodes -> SUBSET EventKind]
  PROVE  IInv'
<1>1. TypeOK'
  BY DEF IInv, TypeOK, Ends
<1>2. \A t \in Steps : pc'[t] /= "idle" =>
        pc'[t] = pc[t] /\ node'[t] = node[t] /\ lease'[t] = lease[t]
  BY DEF IInv, TypeOK, Ends
<1>3. Busy' /\ Alone' /\ DispatchesUnrevoked'
  BY <1>2 DEF IInv, Busy, Alone, DispatchesUnrevoked
<1>4. DepsBehind' /\ OutgoingRevoked'
  BY DEF IInv, DepsBehind, DepsMet, OutgoingRevoked
<1> QED
  BY <1>1, <1>3, <1>4 DEF IInv

\* Nobody dispatches and leases only change by being revoked or running out.
LEMMA LeasesInv ==
  ASSUME IInv, UNCHANGED <<status, step, snapshots, ledger>>,
         leases' \in Seq(Lease), DOMAIN leases' = DOMAIN leases,
         \A k \in DOMAIN leases : leases[k].status = "REVOKED" => leases'[k].status = "REVOKED",
         DispatchesUnrevoked'
  PROVE  IInv'
<1>1. TypeOK'
  BY DEF IInv, TypeOK, step
<1>2. Busy' /\ Alone' /\ DepsBehind'
  BY DEF IInv, Busy, Alone, DepsBehind, DepsMet, step
<1>3. OutgoingRevoked'
  BY DEF IInv, OutgoingRevoked
<1> QED
  BY <1>1, <1>2, <1>3 DEF IInv

LEMMA BeginsInv ==
  ASSUME IInv, NEW s \in Steps, Begins(s)
  PROVE  IInv'
<1>1. CASE StepUnroutable(s)
  <2>1. PICK n \in Nodes : First(n) /\ status' = Taken(n)
    BY <1>1 DEF StepUnroutable
  <2>2. /\ status' \in [Nodes -> NodeStatus] /\ DepsBehind'
        /\ \A m \in Nodes : status[m] \in {"COGNITIVE_WORK", "SUCCEEDED"} => status'[m] = status[m]
    BY <2>1, TakenStatus DEF IInv, TypeOK
  <2>3. TypeOK'
    BY <1>1, <2>2 DEF IInv, TypeOK, StepUnroutable, step
  <2>4. Busy' /\ Alone'
    BY <1>1, <2>2 DEF IInv, Busy, Alone, StepUnroutable, step
  <2>5. OutgoingRevoked' /\ DispatchesUnrevoked'
    BY <1>1 DEF IInv, OutgoingRevoked, DispatchesUnrevoked, StepUnroutable, step
  <2> QED
    BY <2>2, <2>3, <2>4, <2>5 DEF IInv
<1>2. CASE StepBegins(s)
  <2>1. PICK n \in Nodes :
          /\ First(n) /\ status' = Taken(n)
          /\ pc' = [pc EXCEPT ![s] = "awaiting"]
          /\ node' = [node EXCEPT ![s] = n]
          /\ lease' = [lease EXCEPT ![s] = Len(leases) + 1]
          /\ leases' = Append(leases, NewLease)
    BY <1>2 DEF StepBegins
  <2>2. /\ status' \in [Nodes -> NodeStatus] /\ DepsBehind'
        /\ status[n] /= "COGNITIVE_WORK" /\ status'[n] = "COGNITIVE_WORK"
        /\ \A m \in Nodes : status[m] \in {"COGNITIVE_WORK", "SUCCEEDED"} => status'[m] = status[m]
    BY <2>1, TakenStatus DEF IInv, TypeOK
  <2>3. NewLease \in Lease /\ leases \in Seq(Lease)
    BY DEF NewLease, Lease, IInv, TypeOK
  <2>4. /\ leases' \in Seq(Lease) /\ Len(leases) + 1 \in DOMAIN leases'
        /\ DOMAIN leases \subseteq DOMAIN leases'
        /\ \A k \in DOMAIN leases : leases'[k] = leases[k]
    BY <2>1, <2>3, LeaseAppended
  <2>5. Len(leases) + 1 \in Nat
    BY <2>3
  <2>6. TypeOK'
    BY <1>2, <2>1, <2>2, <2>4, <2>5 DEF IInv, TypeOK, StepBegins
  <2>7. /\ pc[s] = "idle"
        /\ \A t \in Steps : t /= s => pc'[t] = pc[t] /\ node'[t] = node[t] /\ lease'[t] = lease[t]
        /\ pc'[s] = "awaiting" /\ node'[s] = n /\ lease'[s] = Len(leases) + 1
    BY <1>2, <2>1 DEF IInv, TypeOK, StepBegins
  <2>8. Busy'
    BY <2>2, <2>4, <2>7 DEF IInv, Busy
  <2>9. Alone'
    BY <2>2, <2>7 DEF IInv, Busy, Alone
  <2>10. OutgoingRevoked'
    BY <1>2, <2>4 DEF IInv, OutgoingRevoked, StepBegins
  <2>11. DispatchesUnrevoked'
    BY <2>4, <2>7 DEF IInv, Busy, DispatchesUnrevoked
  <2> QED
    BY <2>2, <2>6, <2>8, <2>9, <2>10, <2>11 DEF IInv
<1> QED
  BY <1>1, <1>2 DEF Begins
LEMMA AnsweredInv ==
  ASSUME IInv, NEW s \in Steps, Answered(s)
  PROVE  IInv'
<1> USE DEF IInv
<1>0. /\ pc[s] = "awaiting" /\ LoopIsFree
      /\ leases \in Seq(Lease) /\ lease[s] \in DOMAIN leases /\ node[s] \in Nodes
  BY DEF Answered, ModelRaises, AnswerRefused, AnswerHandsOff, AnswerAccepted, Answering,
         Busy, TypeOK
<1>1. Charged(lease[s]) \in Lease
  BY <1>0, ChargedType
<1>2. CASE ModelRaises(s) \/ AnswerRefused(s)
  BY <1>2, EndsInv DEF ModelRaises, AnswerRefused, TypeOK
<1>3. ASSUME NEW asked \in Answers, AnswerAccepted(s, asked) PROVE IInv'
  <2>1. leases' = [leases EXCEPT ![lease[s]] = Charged(lease[s])]
    BY <1>3 DEF AnswerAccepted
  <2>2. leases[lease[s]].status = "ACTIVE"
    BY <1>3 DEF AnswerAccepted, IsValid
  <2>3. /\ leases' \in Seq(Lease) /\ DOMAIN leases' = DOMAIN leases
        /\ leases'[lease[s]].status /= "REVOKED"
        /\ \A k \in DOMAIN leases : leases[k].status = "REVOKED" => leases'[k] = leases[k]
    BY <1>0, <1>1, <2>1, <2>2, ChargedType, LeaseReplaced
  <2>4. asked \in Seq(Tools)
    BY LimitAssumption DEF Answers
  <2>5. TypeOK'
    BY <1>3, <2>3, <2>4 DEF TypeOK, AnswerAccepted
  <2>6. /\ pc'[s] = "dispatching"
        /\ \A t \in Steps : t /= s => pc'[t] = pc[t] /\ pc[t] /= "dispatching"
    BY <1>0, <1>3 DEF TypeOK, AnswerAccepted, LoopIsFree
  <2>7. Busy' /\ Alone'
    BY <1>0, <1>3, <2>3, <2>6 DEF Busy, Alone, AnswerAccepted
  <2>8. DepsBehind'
    BY <1>3 DEF DepsBehind, DepsMet, AnswerAccepted
  <2>9. OutgoingRevoked'
    BY <1>3, <2>3 DEF OutgoingRevoked, AnswerAccepted
  <2>10. DispatchesUnrevoked'
    BY <1>3, <2>3, <2>6 DEF DispatchesUnrevoked, AnswerAccepted
  <2> QED
    BY <2>5, <2>7, <2>8, <2>9, <2>10
<1>4. CASE AnswerHandsOff(s)
  <2> DEFINE held == [leases EXCEPT ![lease[s]] = Charged(lease[s])]
             x == SnapshotOf(s)
  <2>1. /\ leases' = HandedOver(held, lease[s])
        /\ snapshots' = snapshots \cup {Executed(x)} /\ ledger' = HandoffRecorded(x)
        /\ Ends(s) /\ UNCHANGED status
        /\ leases[lease[s]].status = "ACTIVE"
    BY <1>4 DEF AnswerHandsOff, IsValid
  <2>2. /\ held \in Seq(Lease) /\ DOMAIN held = DOMAIN leases
        /\ \A k \in DOMAIN leases : k /= lease[s] => held[k] = leases[k]
    BY <1>0, <1>1, LeaseReplaced
  <2> HIDE DEF held
  <2>3. /\ leases' \in Seq(Lease) /\ DOMAIN leases \subseteq DOMAIN leases'
        /\ leases'[lease[s]].status = "REVOKED"
        /\ \A k \in DOMAIN leases : k /= lease[s] => leases'[k] = leases[k]
    BY <1>0, <2>1, <2>2, HandedOverType
  <2>4. /\ Executed(x) \in Snapshot /\ Executed(x).outgoing = lease[s]
        /\ x.active = node[s]
    BY <1>0 DEF Executed, SnapshotOf, Snapshot, TypeOK
  <2>5. ledger' \in [Nodes -> SUBSET EventKind]
    BY <1>0, <2>1, <2>4 DEF HandoffRecorded, TypeOK, EventKind
  <2>6. \A t \in Steps : pc'[t] /= "idle" =>
          /\ pc'[t] = pc[t] /\ node'[t] = node[t] /\ lease'[t] = lease[t]
          /\ pc[t] /= "dispatching"
    BY <1>0, <2>1 DEF TypeOK, Ends, LoopIsFree
  <2>7. TypeOK'
    BY <2>1, <2>3, <2>4, <2>5 DEF TypeOK, Ends
  <2>8. Busy' /\ Alone' /\ DispatchesUnrevoked'
    BY <2>1, <2>3, <2>6 DEF Busy, Alone, DispatchesUnrevoked
  <2>9. DepsBehind'
    BY <2>1 DEF DepsBehind, DepsMet
  <2>10. OutgoingRevoked'
    BY <1>0, <2>1, <2>3, <2>4 DEF OutgoingRevoked
  <2> QED
    BY <2>7, <2>8, <2>9, <2>10
<1> QED
  BY <1>2, <1>3, <1>4 DEF Answered
LEMMA DispatchesInv ==
  ASSUME IInv, NEW s \in Steps, Dispatches(s)
  PROVE  IInv'
<1> USE DEF IInv
<1>0. pc[s] = "dispatching" /\ node[s] \in Nodes /\ status[node[s]] = "COGNITIVE_WORK"
  BY DEF Dispatches, CallSkipped, CallRefused, CallRuns, CallRaises, StepSucceeds, Dispatching,
         Busy
<1>1. \A e \in EventKind :
        [ledger EXCEPT ![node[s]] = @ \cup {"TOOL_CALLED", e}] \in [Nodes -> SUBSET EventKind]
  BY <1>0 DEF TypeOK, EventKind
<1>2. ASSUME UNCHANGED <<status, pc, node, lease, leases, snapshots>>,
             Dispatching(s), calls' = [calls EXCEPT ![s] = Tail(@)],
             ledger' \in [Nodes -> SUBSET EventKind]
      PROVE  IInv'
  <2>1. Tail(calls[s]) \in Seq(Tools)
    BY <1>2 DEF TypeOK, Dispatching
  <2>2. TypeOK'
    BY <1>2, <2>1 DEF TypeOK
  <2> QED
    BY <1>2, <2>2 DEF Busy, Alone, DepsBehind, DepsMet, OutgoingRevoked, DispatchesUnrevoked
<1>3. CASE CallSkipped(s)
  BY <1>2, <1>3 DEF CallSkipped, TypeOK
<1>4. ASSUME NEW e \in {"EVIDENCE_OK", "EVIDENCE_FAILED"}, CallRuns(s, e) PROVE IInv'
  BY <1>1, <1>2, <1>4 DEF CallRuns, EventKind
<1>5. CASE CallRefused(s)
  BY <1>5, EndsInv DEF CallRefused, TypeOK
<1>6. CASE CallRaises(s)
  <2>1. ledger' \in [Nodes -> SUBSET EventKind]
    BY <1>0, <1>6 DEF CallRaises, TypeOK, EventKind
  <2> QED
    BY <1>6, <2>1, EndsInv DEF CallRaises
<1>7. CASE StepSucceeds(s)
  <2>1. /\ status' = [status EXCEPT ![node[s]] = "SUCCEEDED"]
        /\ Ends(s) /\ UNCHANGED <<leases, snapshots, ledger>>
    BY <1>7 DEF StepSucceeds
  <2>2. \A t \in Steps : pc'[t] /= "idle" =>
          /\ t /= s
          /\ pc'[t] = pc[t] /\ node'[t] = node[t] /\ lease'[t] = lease[t]
    BY <2>1 DEF TypeOK, Ends
  <2>3. TypeOK'
    <3>1. status' \in [Nodes -> NodeStatus]
      BY <2>1 DEF TypeOK, NodeStatus
    <3> QED
      BY <2>1, <3>1 DEF TypeOK, Ends
  <2>4. \A t \in Steps : pc'[t] /= "idle" => node[t] /= node[s]
    BY <1>0, <2>2 DEF Alone
  <2>5. Busy'
    BY <2>1, <2>2, <2>4 DEF Busy, TypeOK
  <2>6. Alone' /\ DispatchesUnrevoked'
    BY <2>1, <2>2 DEF Alone, DispatchesUnrevoked
  <2>7. \A n \in Nodes : DepsMet(n) => DepsMet(n)'
    BY <2>1 DEF DepsMet, TypeOK
  <2>8. DepsBehind'
    BY <1>0, <2>1, <2>7 DEF DepsBehind, TypeOK
  <2>9. OutgoingRevoked'
    BY <2>1 DEF OutgoingRevoked
  <2> QED
    BY <2>3, <2>5, <2>6, <2>8, <2>9
<1> QED
  BY <1>3, <1>4, <1>5, <1>6, <1>7 DEF Dispatches

LEMMA OutsideInv ==
  ASSUME IInv, Outside
  PROVE  IInv'
<1> USE DEF IInv
<1>1. ASSUME NEW s \in Steps, CreateSnapshot(s) PROVE IInv'
  <2>1. /\ SnapshotOf(s) \in Snapshot /\ SnapshotOf(s).outgoing \in DOMAIN leases
        /\ SnapshotOf(s).incoming = 0
    BY <1>1 DEF CreateSnapshot, Answering, SnapshotOf, Snapshot, Busy, TypeOK
  <2>2. TypeOK'
    BY <1>1, <2>1 DEF CreateSnapshot, TypeOK, step
  <2>3. OutgoingRevoked'
    BY <1>1, <2>1 DEF CreateSnapshot, OutgoingRevoked
  <2> QED
    BY <1>1, <2>2, <2>3
       DEF CreateSnapshot, Busy, Alone, DepsBehind, DepsMet, DispatchesUnrevoked, step
<1>2. ASSUME NEW x \in snapshots, ExecuteHandoff(x) PROVE IInv'
  <2>1. x \in Snapshot /\ x.outgoing \in DOMAIN leases /\ leases \in Seq(Lease)
    BY DEF OutgoingRevoked, TypeOK
  <2>2. /\ leases' \in Seq(Lease) /\ DOMAIN leases \subseteq DOMAIN leases'
        /\ leases'[x.outgoing].status = "REVOKED"
        /\ \A k \in DOMAIN leases : k /= x.outgoing => leases'[k] = leases[k]
    BY <1>2, <2>1, HandedOverType DEF ExecuteHandoff
  <2>3. Executed(x) \in Snapshot /\ Executed(x).outgoing = x.outgoing
    BY <2>1 DEF Executed, Snapshot
  <2>4. ledger' \in [Nodes -> SUBSET EventKind]
    BY <1>2, <2>1 DEF ExecuteHandoff, HandoffRecorded, TypeOK, EventKind, Snapshot
  <2>5. TypeOK'
    BY <1>2, <2>2, <2>3, <2>4 DEF ExecuteHandoff, TypeOK, step
  <2>6. OutgoingRevoked'
    BY <1>2, <2>1, <2>2, <2>3 DEF ExecuteHandoff, OutgoingRevoked
  <2> QED
    BY <1>2, <2>2, <2>5, <2>6
       DEF ExecuteHandoff, LoopIsFree, Busy, Alone, DepsBehind, DepsMet, DispatchesUnrevoked, step
<1>3. ASSUME NEW l \in DOMAIN leases, RevokeLease(l) PROVE IInv'
  <2> DEFINE v == [leases[l] EXCEPT !.status = "REVOKED"]
  <2>1. leases[l] \in Lease
    BY DEF TypeOK
  <2>2. v \in Lease /\ v.status = "REVOKED"
    BY <2>1 DEF Lease
  <2>3. leases' = [leases EXCEPT ![l] = v]
    BY <1>3 DEF RevokeLease
  <2> HIDE DEF v
  <2>4. /\ leases' \in Seq(Lease) /\ DOMAIN leases' = DOMAIN leases
        /\ \A k \in DOMAIN leases : leases[k].status = "REVOKED" => leases'[k].status = "REVOKED"
    BY <2>2, <2>3, LeaseReplaced DEF TypeOK
  <2>5. DispatchesUnrevoked'
    BY <1>3 DEF RevokeLease, LoopIsFree, DispatchesUnrevoked, step
  <2> QED
    BY <1>3, <2>4, <2>5, LeasesInv DEF RevokeLease
<1>4. ASSUME NEW l \in DOMAIN leases, LeaseExpires(l) PROVE IInv'
  <2> DEFINE v == [leases[l] EXCEPT !.late = TRUE]
  <2>1. leases[l] \in Lease
    BY DEF TypeOK
  <2>2. v \in Lease /\ v.status = leases[l].status
    BY <2>1 DEF Lease
  <2>3. leases' = [leases EXCEPT ![l] = v]
    BY <1>4 DEF LeaseExpires
  <2> HIDE DEF v
  <2>4. /\ leases' \in Seq(Lease) /\ DOMAIN leases' = DOMAIN leases
        /\ \A k \in DOMAIN leases : leases'[k].status = leases[k].status
    BY <2>2, <2>3, LeaseReplaced DEF TypeOK
  <2>5. DispatchesUnrevoked'
    BY <1>4, <2>4 DEF LeaseExpires, Busy, DispatchesUnrevoked, step
  <2> QED
    BY <1>4, <2>4, <2>5, LeasesInv DEF LeaseExpires
<1> QED
  BY <1>1, <1>2, <1>3, <1>4 DEF Outside

LEMMA StutterInv ==
  ASSUME IInv, UNCHANGED vars
  PROVE  IInv'
  BY DEF vars, IInv, TypeOK, Busy, Alone, DepsBehind, DepsMet, OutgoingRevoked,
         DispatchesUnrevoked

---------------------------------------------------------------------------
\* The invariant the others follow from (scheduler.py, leases.py, handoff.py).
THEOREM Inductive == Spec => []IInv
<1>1. IInv /\ [Next]_vars => IInv'
  BY BeginsInv, AnsweredInv, DispatchesInv, OutsideInv, StutterInv DEF Next
<1> QED
  BY <1>1, InitInv, PTL DEF Spec

\* Types are kept, whatever the plan, the tools and the number of steps.
THEOREM Typing == Spec => []TypeOK
<1>1. IInv => TypeOK
  BY DEF IInv
<1> QED
  BY <1>1, Inductive, PTL

\* One step per node, and dependencies first (get_ready_nodes, execute_step),
\* for every plan and every number of concurrent steps.
THEOREM TakenInTurn == Spec => []NodesTakenInTurn
<1>1. IInv => NodesTakenInTurn
  BY DEF IInv, Alone, DepsBehind, NodesTakenInTurn
<1> QED
  BY <1>1, Inductive, PTL

\* After a hand-off the outgoing model neither takes a turn nor calls a tool
\* (execute_handoff, record_usage), for every number of steps and snapshots.
THEOREM OneBrain == Spec => []NoSplitBrain
<1>1. IInv => NoSplitBrain
  BY DEF IInv, OutgoingRevoked, DispatchesUnrevoked, NoSplitBrain, IsValid
<1> QED
  BY <1>1, Inductive, PTL
=============================================================================
