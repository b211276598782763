-------------------------- MODULE ContractLifecycle -------------------------
(* Alignment contracts: one is proposed and activated from an intent, every  *)
(* amendment is a new version that starts as a draft, and the constraints of *)
(* the version it amends are kept unless the operator authorized it.  What a *)
(* mission does when its contract changes is in MissionControl.              *)
EXTENDS Naturals, Sequences

CONSTANTS Ids, Statements, None, MaxContracts

VARIABLE contracts  \* every version that was made, with the one it amends

Clauses == [Ids -> Statements \cup {None}]
Nothing == [i \in Ids |-> None]

\* Whether it has an unresolved ambiguity of high impact, and whether the operator
\* authorized it.
AlignmentContract == [version : Nat, parent : Nat, status : {"draft", "active"},
                      constraints : Clauses, requirements : Clauses,
                      ambiguous : BOOLEAN, operator : BOOLEAN]

TypeOK == contracts \in Seq(AlignmentContract)

Init == contracts = <<>>

\* An intent with a high-impact ambiguity is refused. The constraints of an intent are
\* not carried over into the contract.
Propose(ambiguous, requirements) ==
  /\ contracts = <<>> /\ ~ambiguous /\ requirements # Nothing
  /\ contracts' = <<[version |-> 1, parent |-> 0, status |-> "active", constraints |-> Nothing,
                     requirements |-> requirements, ambiguous |-> FALSE, operator |-> TRUE]>>

\* Mutant: only dropped constraints are refused.
NotDropped(old, new) == \A i \in Ids : old[i] # None => new[i] # None

\* Constraints may be added; none may be dropped or reworded.
Preserves(old, new) == \A i \in Ids : old[i] # None => new[i] = old[i]

\* Any version may be amended, also one that was amended before.
Amend(c, constraints, requirements, ambiguous, authorized) ==
  /\ Len(contracts) < MaxContracts
  /\ authorized \/ Preserves(contracts[c].constraints, constraints)
  /\ contracts' = Append(contracts,
       [version |-> contracts[c].version + 1, parent |-> c, status |-> "draft",
        constraints |-> constraints, requirements |-> requirements,
        ambiguous |-> ambiguous, operator |-> authorized])

\* validate_transitions: no contract is active with an ambiguity of high impact.
MayBeActive(contract) == ~contract.ambiguous

\* The version before stays active.
Activate(c) ==
  /\ contracts[c].status = "draft" /\ MayBeActive(contracts[c])
  /\ contracts' = [contracts EXCEPT ![c].status = "active"]

Next ==
  \/ \E ambiguous \in BOOLEAN, requirements \in Clauses : Propose(ambiguous, requirements)
  \/ \E c \in 1 .. Len(contracts), constraints, requirements \in Clauses,
        ambiguous, authorized \in BOOLEAN :
       Amend(c, constraints, requirements, ambiguous, authorized)
  \/ \E c \in 1 .. Len(contracts) : Activate(c)

Spec == Init /\ [][Next]_contracts

-----------------------------------------------------------------------------
\* The versions a version descends from, without an amendment by the operator between.
Unamended(c) ==
  {a \in 1 .. Len(contracts) :
     \A s \in SUBSET (1 .. Len(contracts)) :
       c \in s /\ (\A x \in s : ~contracts[x].operator => contracts[x].parent \in s) => a \in s}

\* Along any chain of amendments, of any version, that the operator did not authorize,
\* no constraint is dropped, reworded or lost (ALN-006, engine.py).
ConstraintsKept ==
  \A c \in 1 .. Len(contracts) : \A a \in Unamended(c), i \in Ids :
    contracts[a].constraints[i] \in {None, contracts[c].constraints[i]}
=============================================================================
