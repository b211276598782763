----------------------- MODULE WorkspaceTransactions ------------------------
(* Reversible file tools: a write, patch, replacement or deletion is staged  *)
(* with a copy of its target, applied when the target is still what was      *)
(* staged, verified, and can be rolled back with the data its caller was     *)
(* given. The gateway runs one tool at a time; editors, git and services     *)
(* change files between any two steps. Every checkpoint the tools make names *)
(* one target (workspace.py:154, 196 and 238); the loops over targets are    *)
(* one pass. Contents are modelled: directories made for a target stay.      *)
EXTENDS Naturals, Sequences, FiniteSets

CONSTANTS Targets, Contents, None, MaxCheckpoints, MaxEdits

VARIABLES
  file,       \* the content of each target, None while there is none
  saved,      \* what others last made of each target, at first or since (history)
  op,         \* the mutation or rollback in progress, or None
  made,       \* the checkpoints that were applied, in their order
  workspace,  \* the status of the workspace
  applied,    \* of each target: its checkpoints in force on what others saved (history)
  disturbed,  \* targets saved by others in the midst of a change, or rolled back
              \* out of order, and not saved since (history)
  edits

vars == <<file, saved, op, made, workspace, applied, disturbed, edits>>

Kinds == {"write", "replace", "delete"}
Content == Contents \cup {None}
WorkspaceStatus == {"ready", "staging", "preflighted", "executing", "rolled_back", "failed_safe",
                    "recovery_required"}
Checkpoint == [kind : Kinds, target : Targets, pre : Content, post : Content, backup : Content]

\* A mutation from its staging on, or the rollback of the checkpoint at an index.
Operation == [step : {"read", "check", "mutate", "verify", "restore", "restored"},
              cp : Checkpoint, index : 0 .. MaxCheckpoints]

TypeOK ==
  /\ file \in [Targets -> Content] /\ saved \in [Targets -> Content]
  /\ op \in {None} \cup Operation
  /\ made \in Seq(Checkpoint)
  /\ workspace \in WorkspaceStatus
  /\ applied \in [Targets -> Seq(1 .. MaxCheckpoints)]
  /\ disturbed \subseteq Targets /\ edits \in 0 .. MaxEdits

Init ==
  /\ file \in [Targets -> Content] /\ saved = file
  /\ op = None /\ made = <<>> /\ workspace = "ready"
  /\ applied = [f \in Targets |-> <<>>] /\ disturbed = {} /\ edits = 0

\* Between the check and the last look at the target what others save is written
\* over, and before it only when the copy and the hash are of different contents.
InMidst(f) ==
  /\ op # None /\ op.cp.target = f
  /\ \/ op.step \notin {"read", "check"}
     \/ op.step = "read" /\ op.cp.kind = "write"
     \/ op.step = "check" /\ op.cp.backup # op.cp.pre

\* Another process saves the file: no checkpoint is in force on that.
ForeignEdit(f, v) ==
  /\ edits < MaxEdits /\ edits' = edits + 1 /\ v # file[f]
  /\ file' = [file EXCEPT ![f] = v]
  /\ IF InMidst(f)
     THEN disturbed' = disturbed \cup {f} /\ UNCHANGED <<saved, applied>>
     ELSE /\ disturbed' = disturbed \ {f}
          /\ saved' = [saved EXCEPT ![f] = v] /\ applied' = [applied EXCEPT ![f] = <<>>]
  /\ UNCHANGED <<op, made, workspace>>

-----------------------------------------------------------------------------
(* Staging and applying a mutation.                                          *)

\* The target is read twice, for its hash and for its copy: a write reads the copy
\* first, the others the hash.
Stage(kind, f, v) ==
  /\ op = None /\ Len(made) < MaxCheckpoints
  /\ kind = "delete" => v = None /\ file[f] # None
  /\ kind # "delete" => v # None
  /\ op' = [step |-> IF file[f] = None THEN "check" ELSE "read", index |-> 0,
            cp |-> [kind |-> kind, target |-> f, pre |-> file[f], post |-> v, backup |-> file[f]]]
  /\ workspace' = "staging"
  /\ UNCHANGED <<file, saved, made, applied, disturbed, edits>>

ReadAgain ==
  /\ op # None /\ op.step = "read"
  /\ op' = IF op.cp.kind = "write"
           THEN [op EXCEPT !.step = "check", !.cp.pre = file[op.cp.target]]
           ELSE [op EXCEPT !.step = "check", !.cp.backup = file[op.cp.target]]
  /\ workspace' = "preflighted"
  /\ UNCHANGED <<file, saved, made, applied, disturbed, edits>>

\* Mutant: the target is not compared with what was staged.
StagedOnce(cp) == TRUE

AsStaged(cp) == file[cp.target] = cp.pre

\* A target that is no longer what was staged is left alone.
CheckTarget ==
  /\ op # None /\ op.step = "check"
  /\ IF AsStaged(op.cp)
     THEN op' = [op EXCEPT !.step = "mutate"] /\ workspace' = "executing"
     ELSE op' = None /\ workspace' = "failed_safe"
  /\ UNCHANGED <<file, saved, made, applied, disturbed, edits>>

Mutate ==
  /\ op # None /\ op.step = "mutate"
  /\ file' = [file EXCEPT ![op.cp.target] = op.cp.post]
  /\ op' = [op EXCEPT !.step = "verify"]
  /\ UNCHANGED <<saved, made, workspace, applied, disturbed, edits>>

\* A target that is not as it was to become is rolled back at once.
VerifyTarget ==
  /\ op # None /\ op.step = "verify"
  /\ IF file[op.cp.target] = op.cp.post
     THEN /\ made' = Append(made, op.cp) /\ op' = None /\ workspace' = "ready"
          /\ applied' = [applied EXCEPT ![op.cp.target] = Append(@, Len(made) + 1)]
     ELSE /\ op' = [op EXCEPT !.step = "restore"] /\ UNCHANGED <<made, workspace, applied>>
  /\ UNCHANGED <<file, saved, disturbed, edits>>

-----------------------------------------------------------------------------
(* Rolling back.                                                             *)

\* The caller has a checkpoint rolled back, any it was given, once more or out of order.
RollBack(i) ==
  /\ op = None /\ i \in 1 .. Len(made)
  /\ op' = [step |-> "restore", cp |-> made[i], index |-> i]
  /\ workspace' = "executing"
  /\ LET f == made[i].target
         newest == applied[f] # <<>> /\ applied[f][Len(applied[f])] = i
     IN IF newest
        THEN /\ applied' = [applied EXCEPT ![f] = SubSeq(@, 1, Len(@) - 1)]
             /\ UNCHANGED disturbed
        ELSE disturbed' = disturbed \cup {f} /\ UNCHANGED applied
  /\ UNCHANGED <<file, saved, made, edits>>

\* A file the checkpoint created is removed, any other is restored from its copy,
RestoredTo(cp) == IF cp.pre = None THEN None ELSE cp.backup

Restore ==
  /\ op # None /\ op.step = "restore"
  /\ file' = [file EXCEPT ![op.cp.target] = RestoredTo(op.cp)]
  /\ op' = [op EXCEPT !.step = "restored"]
  /\ UNCHANGED <<saved, made, workspace, applied, disturbed, edits>>

\* and compared with its hash, whoever wrote to it last.
VerifyRestored ==
  /\ op # None /\ op.step = "restored" /\ op' = None
  /\ workspace' = IF file[op.cp.target] = op.cp.pre THEN "rolled_back" ELSE "recovery_required"
  /\ UNCHANGED <<file, saved, made, applied, disturbed, edits>>

Next ==
  \/ \E f \in Targets, v \in Contents : ForeignEdit(f, v)
  \/ \E kind \in Kinds, f \in Targets, v \in Content : Stage(kind, f, v)
  \/ ReadAgain \/ CheckTarget \/ Mutate \/ VerifyTarget
  \/ \E i \in 1 .. Len(made) : RollBack(i)
  \/ Restore \/ VerifyRestored

Spec == Init /\ [][Next]_vars

-----------------------------------------------------------------------------
\* Through any sequence of creations, changes, deletions and rollbacks, newest first,
\* with other processes saving the targets in between: the content of a target is
\* what its last checkpoint in force made of it, or what others last saved.  A
\* mutation refused because they saved the target since it was staged leaves that
\* alone, and undone mutations bring it back (workspace.py:274-277 and 326-377).  Of
\* what others save in the midst of a change nothing is said, nor of a target rolled
\* back out of order or from before such a save, until they save it again.
UndoneContentIsBack ==
  op = None =>
    \A f \in Targets \ disturbed :
      file[f] = IF applied[f] = <<>> THEN saved[f]
                ELSE made[applied[f][Len(applied[f])]].post
=============================================================================
