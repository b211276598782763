---------------------------- MODULE MCExecutive ----------------------------
(***************************************************************************)
(* Executive for TLC: a plan of two branches that are ready at once and    *)
(* are joined by a node of class A2.                                       *)
(***************************************************************************)
EXTENDS Executive, TLC

MCNodes == {"branchA", "branchB", "bringup"}
MCDeps == "branchA" :> {} @@ "branchB" :> {} @@ "bringup" :> {"branchA", "branchB", "ghost"}
MCPlace == "branchA" :> 1 @@ "branchB" :> 2 @@ "bringup" :> 3
MCNodeClass == "branchA" :> 0 @@ "branchB" :> 1 @@ "bringup" :> 2

MCToolClass == "patch_file" :> 1 @@ "unknown" :> 0
=============================================================================
