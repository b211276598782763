---------------------------- MODULE MCEngineering ----------------------------
(* The delivery of two requirements by two parallel nodes, the services and  *)
(* the language server of the engineering agency share no state: focus picks *)
(* the one a behaviour exercises.                                            *)
EXTENDS EngineeringDelivery, Sequences

CONSTANTS r1, r2,
          Services, MaxStarts, MaxRestarts,          \* of ManagedServices
          Callers, MaxId, MaxProcesses, MaxOutput    \* of LspClient

ASSUME BoundsAssumption == {MaxStarts, MaxRestarts, MaxId, MaxProcesses, MaxOutput} \subseteq Nat

VARIABLES focus,
  records, registry, process, owned, starting, restarts,
  server, alive, output, torn, asked, next_id, lock, call, questions, answers

services == <<records, registry, process, owned, starting, restarts>>
client == <<server, alive, output, torn, asked, next_id, lock, call, questions, answers>>

S == INSTANCE ManagedServices WITH Names <- Services
L == INSTANCE LspClient WITH process <- server

MCInit == focus \in {"delivery", "services", "language server"} /\ Init /\ S!Init /\ L!Init

\* A process that crashed has one recovery node in its DAG; a second language server
\* is asked one question less.
OneRecovery == crashes' > 0 => Cardinality({n \in DOMAIN status' : n.kind = "recovery"}) <= 1
FewQuestions == Len(output') = MaxProcesses => next_id' <= MaxId

MCNext ==
  \/ focus = "delivery" /\ Next /\ OneRecovery /\ UNCHANGED <<focus, services, client>>
  \/ focus = "services" /\ S!Next /\ UNCHANGED <<focus, vars, client>>
  \/ focus = "language server" /\ L!Next /\ FewQuestions /\ UNCHANGED <<focus, vars, services>>

MCSpec == MCInit /\ [][MCNext]_<<focus, vars, services, client>>

\* The type invariants of the three components.
EngineeringTypeOK == TypeOK /\ S!TypeOK /\ L!TypeOK

\* Whatever the agency merges, replans and restarts: a delivery is one merge of each
\* requirement, of a verified revision into the tree it was verified with, and the
\* base checkout changes in no other way (merge_coordinator.py:51-134, agency.py).
Delivery == INSTANCE VerifiedDelivery
ImplementsVerifiedDelivery == Delivery!Spec

StoppedIsGone == S!StoppedIsGone
AnswersOwnQuestion == L!AnswersOwnQuestion
=============================================================================
