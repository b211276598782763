------------------------------ MODULE Blackboard ------------------------------
(***************************************************************************)
(* Where agents coordinate: claims posted to a mission's blackboard, the   *)
(* conflicts found between them and their arbitration                      *)
(* (autonomy/blackboard.py), and the commitments agents make to produce    *)
(* evidence (autonomy/commitments.py).                                     *)
(*                                                                         *)
(* A new claim is compared with the earlier ones until one contradicts it. *)
(* Any agent may post, and verifying, rejecting and arbitrating are calls  *)
(* that look at nothing but what they are given.                           *)
(***************************************************************************)
EXTENDS Integers, Sequences, FiniteSets

CONSTANTS
  Missions,
  Claims,       \* statements
  Contradicts,  \* pairs of statements that deny each other
  Commitments,
  MaxEntries    \* bound

BlackboardAssumption ==
  /\ Contradicts \subseteq Claims \X Claims /\ MaxEntries \in Nat
  /\ \A p \in Contradicts : <<p[2], p[1]>> \in Contradicts /\ p[1] # p[2]

BlackboardStatus == {"PROPOSED", "VERIFIED", "REJECTED", "SUPERSEDED", "CONFLICTED"}

CommitmentStatus == {"OPEN", "SATISFIED", "FAILED", "SUPERSEDED", "CANCELLED"}

VARIABLES
  entries,     \* _entries, in insertion order
  conflicts,   \* _conflicts
  commitments  \* by commitment: its status, "NONE" before it is made

vars == <<entries, conflicts, commitments>>

BlackboardEntry == [mission : Missions, claim : Claims, status : BlackboardStatus]

ConflictRecord == [entries : SUBSET Nat, resolution_status : {"UNRESOLVED", "RESOLVED"}]

TypeOK ==
  /\ entries \in Seq(BlackboardEntry)
  /\ conflicts \in Seq(ConflictRecord)
  /\ \A c \in DOMAIN conflicts : conflicts[c].entries \subseteq DOMAIN entries
  /\ commitments \in [Commitments -> CommitmentStatus \cup {"NONE"}]

Init ==
  /\ entries = <<>> /\ conflicts = <<>>
  /\ commitments = [c \in Commitments |-> "NONE"]

-----------------------------------------------------------------------------
(* The blackboard *)

\* The entries a new claim of a mission is in conflict with.
Opposed(m, claim) ==
  {i \in DOMAIN entries :
     /\ entries[i].mission = m /\ entries[i].status \notin {"REJECTED", "SUPERSEDED"}
     /\ <<entries[i].claim, claim>> \in Contradicts}

Marked(es, members, s) == [i \in DOMAIN es |-> IF i \in members THEN [es[i] EXCEPT !.status = s] ELSE es[i]]

\* The first entry found is the only one the new claim is matched with.
PostEntry(m, claim) ==
  /\ Len(entries) < MaxEntries
  /\ LET new == Append(entries, [mission |-> m, claim |-> claim, status |-> "PROPOSED"])
         old == Opposed(m, claim)
         pair == {CHOOSE i \in old : \A j \in old : i <= j, Len(new)}
     IN IF old = {}
        THEN entries' = new /\ UNCHANGED conflicts
        ELSE /\ entries' = Marked(new, pair, "CONFLICTED")
             /\ conflicts' = Append(conflicts,
                  [entries |-> pair, resolution_status |-> "UNRESOLVED"])
  /\ UNCHANGED commitments

\* Refused without evidence; otherwise whatever the entry's status is.
VerifyEntry(i) ==
  /\ entries' = Marked(entries, {i}, "VERIFIED")
  /\ UNCHANGED <<conflicts, commitments>>

RejectEntry(i) ==
  /\ entries' = Marked(entries, {i}, "REJECTED")
  /\ UNCHANGED <<conflicts, commitments>>

\* Mutant: the winner is verified, the loser is left as it is.
ArbitratedWinner(es, members, winner) == Marked(es, members \cap {winner}, "VERIFIED")

\* What arbitration makes of the entries of a conflict.
Arbitrated(es, members, winner) ==
  Marked(Marked(es, members \ {winner}, "REJECTED"), members \cap {winner}, "VERIFIED")

\* The winner need not be an entry of the conflict, and the conflict may
\* have been resolved before.
ResolveConflict(c, winner) ==
  /\ entries' = Arbitrated(entries, conflicts[c].entries, winner)
  /\ conflicts' = [conflicts EXCEPT ![c].resolution_status = "RESOLVED"]
  /\ UNCHANGED commitments

-----------------------------------------------------------------------------
(* Commitments *)

CreateCommitment(c) ==
  /\ commitments[c] = "NONE"
  /\ commitments' = [commitments EXCEPT ![c] = "OPEN"]
  /\ UNCHANGED <<entries, conflicts>>

\* Refused without a digest of the evidence, whatever the status.
SatisfyCommitment(c) ==
  /\ commitments[c] # "NONE"
  /\ commitments' = [commitments EXCEPT ![c] = "SATISFIED"]
  /\ UNCHANGED <<entries, conflicts>>

FailCommitment(c) ==
  /\ commitments[c] # "NONE"
  /\ commitments' = [commitments EXCEPT ![c] = "FAILED"]
  /\ UNCHANGED <<entries, conflicts>>

Next ==
  \/ \E m \in Missions, claim \in Claims : PostEntry(m, claim)
  \/ \E i \in DOMAIN entries : VerifyEntry(i) \/ RejectEntry(i)
  \/ \E c \in DOMAIN conflicts, winner \in DOMAIN entries : ResolveConflict(c, winner)
  \/ \E c \in Commitments : CreateCommitment(c) \/ SatisfyCommitment(c) \/ FailCommitment(c)

Spec == Init /\ [][Next]_vars

-----------------------------------------------------------------------------
(* Properties *)

\* blackboard.py marks the first contradiction of a new claim only, and a
\* claim can be in several conflicts that are arbitrated one by one: a claim
\* that is held up as CONFLICTED still has a conflict that is to be
\* arbitrated, so no claim is held up for good.
ConflictedCanBeArbitrated ==
  \A i \in DOMAIN entries : entries[i].status = "CONFLICTED" =>
    \E c \in DOMAIN conflicts :
      i \in conflicts[c].entries /\ conflicts[c].resolution_status = "UNRESOLVED"

=============================================================================
