-------------------------- MODULE EngineeringProofs --------------------------
(* Proofs about the engineering agency: the delivery of a contract           *)
(* (EngineeringDelivery), managed services (ManagedServices) and the language *)
(* server client (LspClient), each for every value of its constants, and the *)
(* properties of the module that checks the three.                           *)
(*                                                                           *)
(* Delivery rests on what planning and replanning keep of the task graph: the *)
(* nodes of a requirement form a chain, so that only one of them can run at a *)
(* time. Everything about its worktree, its branch and its merge follows from *)
(* that one node having them to itself.                                      *)
EXTENDS MCEngineering, FiniteSetTheorems, SequenceTheorems, TLAPS

-----------------------------------------------------------------------------
(* What holds of a task graph: of the one in memory, and of a checkpoint's.  *)

Reached(st, dp, n) == \A d \in dp[n] : st[d] = "SUCCEEDED"
Frontier(st, dp, n) == st[n] # "SUCCEEDED" /\ Reached(st, dp, n)

GraphTyped(st, dp) ==
  /\ IsFiniteSet(DOMAIN st) /\ DOMAIN dp = DOMAIN st
  /\ \A n \in DOMAIN st : /\ dp[n] \subseteq DOMAIN st
                          /\ n.req \in Reqs \cup {None}
                          /\ n.verify \in BOOLEAN /\ (n.verify => n.req # None)

\* A node of a requirement depends on one node, of the same requirement or of none.
OneDependency(st, dp) ==
  \A n \in DOMAIN st : n.req # None =>
    \E p \in DOMAIN st : dp[n] = {p} /\ p.req \in {n.req, None}

\* No two nodes of a requirement depend on one node, nor does the requirement's work
\* begin at two nodes.
NoBranching(st, dp) ==
  \A m, n \in DOMAIN st : \A p \in dp[m], q \in dp[n] :
    m.req # None /\ m.req = n.req /\ (p = q \/ (p.req = None /\ q.req = None)) => m = n

StartedInOrder(st, dp) == \A n \in DOMAIN st : st[n] # "PLANNED" => Reached(st, dp, n)

\* Once some node of a requirement can run, what the requirement's work waits for
\* is done.
RootDone(st, dp) ==
  \A m, n \in DOMAIN st : \A p \in dp[m] :
    m.req # None /\ m.req = n.req /\ p.req = None /\ Reached(st, dp, n) => st[p] = "SUCCEEDED"

OneFrontier(st, dp) ==
  \A m, n \in DOMAIN st :
    n.req # None /\ m.req = n.req /\ Frontier(st, dp, m) /\ Frontier(st, dp, n) => m = n

GraphOK(st, dp) ==
  /\ GraphTyped(st, dp) /\ OneDependency(st, dp) /\ NoBranching(st, dp)
  /\ StartedInOrder(st, dp) /\ RootDone(st, dp) /\ OneFrontier(st, dp)

-----------------------------------------------------------------------------
(* The nodes of the current cycle.                                           *)

Finishing == {"commit", "merge", "merged tree", "commit merge", "remove"}

PhaseMatchesStatus ==
  \A n \in DOMAIN run :
    /\ n \in DOMAIN status
    /\ run[n] = "acquire" => status[n] = "READY"
    /\ run[n] = "work" => status[n] = "COGNITIVE_WORK"
    /\ run[n] = "verify" => status[n] = "VERIFYING"
    /\ run[n] \in Finishing => n.verify /\ status[n] = "SUCCEEDED"
    /\ run[n] = "done" => status[n] \in {"SUCCEEDED", "REPLAN_REQUIRED"}
    /\ run[n] \in EngineeringNodeRun

\* One node of a requirement runs at a time, and what depends on a running node has
\* not begun.
RunsAlone ==
  /\ \A m, n \in DOMAIN run : n.req # None /\ m.req = n.req => m = n
  /\ \A n \in DOMAIN run, m \in DOMAIN status : n \in deps[m] => status[m] = "PLANNED"
  /\ \A n \in DOMAIN run, m \in DOMAIN status :
       run[n] \in Finishing /\ m.req = n.req /\ Frontier(status, deps, m) => n \in deps[m]

-----------------------------------------------------------------------------
(* Worktrees, branches and merges.                                           *)

AllMerged == \A r \in Reqs : base[r] # 0

WorktreesHaveBranches ==
  \A r \in Reqs : worktree[r] # None => branch[r] # None /\ branch[r] <= worktree[r]

\* What the bindings in memory or in a checkpoint say of a requirement.
BindingsTrue(bs) ==
  \A r \in Reqs : bs[r] # None =>
    /\ bs[r].verified # 0 => bs[r].verified \in seen[r]
    /\ bs[r].integrated => base[r] # 0

Working == EngineeringNodeRun \ {"acquire", "done"}
RunsAreBound == \A n \in DOMAIN run : run[n] \in Working /\ n.req # None => bindings[n.req] # None

Merging(n) == run[n] \in {"merged tree", "commit merge"}
MergeVerified(n) ==
  /\ run[n] = "commit" => worktree[n.req] \in seen[n.req]
  /\ run[n] = "merge" \/ Merging(n) => bindings[n.req].verified # 0
  /\ Merging(n) /\ staged # None => staged = [base EXCEPT ![n.req] = bindings[n.req].verified]
  /\ run[n] = "commit merge" /\ staged # None => staged \in accepted
  /\ run[n] = "remove" => bindings[n.req].integrated
MergesVerified == /\ \A m, n \in Integrating : m = n
                  /\ \A n \in DOMAIN run : MergeVerified(n)

\* A verified requirement is in the base checkout, or on its way there.
VerifiedAreMerged(st, ending) ==
  \A r \in Reqs : LET v == Task("verify", r) IN
    v \in DOMAIN st /\ st[v] = "SUCCEEDED" => base[r] # 0 \/ v \in ending

IntegrationWaits(st, dp) ==
  \/ AllMerged
  \/ Integration \in DOMAIN st =>
       /\ st[Integration] = "PLANNED"
       /\ dp[Integration] = {Task("verify", r) : r \in Reqs}

Ending == {n \in DOMAIN run : run[n] \in Finishing \ {"remove"}}

CheckpointOK ==
  checkpoint # None =>
    /\ GraphOK(checkpoint.status, checkpoint.deps)
    /\ BindingsTrue(checkpoint.bindings)
    /\ \A r \in Reqs : checkpoint.bindings[r] # None => checkpoint.worktrees[r] # None
    /\ VerifiedAreMerged(checkpoint.status, {})
    /\ IntegrationWaits(checkpoint.status, checkpoint.deps)

\* The cycle that is replanned has ended.
CycleEnded == agency = "replanning" => \A n \in DOMAIN run : run[n] = "done"
DownIsEmpty == agency = "down" => run = NoRun /\ made = 0
RecoveriesCounted == made <= Cardinality(Recoveries)

DeliveryInv ==
  /\ GraphOK(status, deps) /\ PhaseMatchesStatus /\ RunsAlone
  /\ WorktreesHaveBranches /\ BoundWorktreesExist /\ BindingsTrue(bindings)
  /\ RunsAreBound /\ MergesVerified /\ BaseVerified
  /\ VerifiedAreMerged(status, Ending) /\ IntegrationWaits(status, deps)
  /\ CheckpointOK /\ CycleEnded /\ DownIsEmpty /\ RecoveriesCounted

-----------------------------------------------------------------------------
(* Task graphs.                                                              *)

\* A graph is kept by what changes no dependency, completes nothing and starts only
\* nodes that are reached.
LEMMA GraphKept ==
  ASSUME NEW st, NEW dp, NEW st2, GraphOK(st, dp), DOMAIN st2 = DOMAIN st,
         \A n \in DOMAIN st : (st2[n] = "SUCCEEDED") <=> (st[n] = "SUCCEEDED"),
         \A n \in DOMAIN st : st2[n] # "PLANNED" => Reached(st, dp, n)
  PROVE  GraphOK(st2, dp)
<1>1. \A n \in DOMAIN st : Reached(st2, dp, n) <=> Reached(st, dp, n)
  BY DEF GraphOK, GraphTyped, Reached
<1>2. GraphTyped(st2, dp) /\ OneDependency(st2, dp) /\ NoBranching(st2, dp)
  BY DEF GraphOK, GraphTyped, OneDependency, NoBranching
<1>3. StartedInOrder(st2, dp)
  BY <1>1 DEF StartedInOrder
<1>4. RootDone(st2, dp)
  BY <1>1 DEF GraphOK, GraphTyped, RootDone
<1>5. OneFrontier(st2, dp)
  BY <1>1 DEF GraphOK, OneFrontier, Frontier
<1> QED
  BY <1>2, <1>3, <1>4, <1>5 DEF GraphOK

\* A reached node that completes makes at most its one successor a frontier.
LEMMA GraphAdvances ==
  ASSUME NEW st, NEW dp, GraphOK(st, dp), NEW y \in DOMAIN st,
         st[y] # "SUCCEEDED", Reached(st, dp, y)
  PROVE  /\ GraphOK([st EXCEPT ![y] = "SUCCEEDED"], dp)
         /\ \A m \in DOMAIN st : /\ Frontier([st EXCEPT ![y] = "SUCCEEDED"], dp, m)
                                 /\ m.req = y.req /\ y.req # None
                                 => y \in dp[m]
<1> DEFINE st2 == [st EXCEPT ![y] = "SUCCEEDED"]
<1>0. /\ DOMAIN st2 = DOMAIN st /\ st2[y] = "SUCCEEDED"
      /\ \A n \in DOMAIN st : n # y => st2[n] = st[n]
  OBVIOUS
<1> HIDE DEF st2
<1>1. \A n \in DOMAIN st : Reached(st, dp, n) => Reached(st2, dp, n)
  BY <1>0 DEF GraphOK, GraphTyped, Reached
<1>2. \A n \in DOMAIN st : Reached(st2, dp, n) => Reached(st, dp, n) \/ y \in dp[n]
  BY <1>0 DEF GraphOK, GraphTyped, Reached
<1>3. \A n \in DOMAIN st : n.req # None /\ Reached(st, dp, n) => y \notin dp[n]
  BY DEF Reached
<1>4. GraphTyped(st2, dp) /\ OneDependency(st2, dp) /\ NoBranching(st2, dp)
  BY <1>0 DEF GraphOK, GraphTyped, OneDependency, NoBranching
<1>5. StartedInOrder(st2, dp)
  BY <1>0, <1>1 DEF GraphOK, StartedInOrder
<1>6. \A n \in DOMAIN st : n.req # None /\ y \in dp[n] => dp[n] = {y} /\ y.req \in {n.req, None}
  BY DEF GraphOK, OneDependency
<1>7. RootDone(st2, dp)
  <2> SUFFICES ASSUME NEW m \in DOMAIN st, NEW n \in DOMAIN st, NEW p \in dp[m],
                      m.req # None, m.req = n.req, p.req = None, Reached(st2, dp, n),
                      p # y
               PROVE  st[p] = "SUCCEEDED"
    BY <1>0 DEF RootDone, GraphOK, GraphTyped
  <2>1. CASE Reached(st, dp, n)
    BY <2>1 DEF GraphOK, RootDone
  <2>2. CASE y \in dp[n]
    <3>1. CASE y.req = None
      BY <2>2, <3>1 DEF GraphOK, NoBranching, OneDependency
    <3>2. CASE y.req = n.req
      BY <2>2, <3>2 DEF GraphOK, RootDone
    <3> QED
      BY <1>6, <2>2, <3>1, <3>2
  <2> QED
    BY <1>2, <2>1, <2>2
<1>8. ASSUME NEW m \in DOMAIN st, NEW n \in DOMAIN st, n.req # None, m.req = n.req,
             Frontier(st2, dp, m), Frontier(st2, dp, n), Reached(st, dp, m), y \in dp[n]
      PROVE  FALSE
  <2>1. Frontier(st, dp, m) /\ m # y
    BY <1>0, <1>8 DEF Frontier
  <2>2. CASE y.req = None
    BY <1>8, <2>2 DEF GraphOK, RootDone
  <2>3. CASE y.req = n.req
    BY <1>8, <2>1, <2>3 DEF GraphOK, OneFrontier, Frontier
  <2> QED
    BY <1>6, <1>8, <2>2, <2>3
<1>9. OneFrontier(st2, dp)
  <2> SUFFICES ASSUME NEW m \in DOMAIN st, NEW n \in DOMAIN st, n.req # None, m.req = n.req,
                      Frontier(st2, dp, m), Frontier(st2, dp, n)
               PROVE  m = n
    BY <1>0 DEF OneFrontier
  <2>1. CASE y \in dp[m] /\ y \in dp[n]
    BY <2>1 DEF GraphOK, NoBranching
  <2>2. CASE Reached(st, dp, m) /\ Reached(st, dp, n)
    BY <1>0, <2>2 DEF GraphOK, OneFrontier, Frontier
  <2> QED
    BY <1>2, <1>8, <2>1, <2>2 DEF Frontier
<1>10. ASSUME NEW m \in DOMAIN st, Frontier(st2, dp, m), m.req = y.req, y.req # None
       PROVE  y \in dp[m]
  <2> SUFFICES ASSUME Reached(st, dp, m) PROVE FALSE
    BY <1>2, <1>10 DEF Frontier
  <2>1. Frontier(st, dp, m) /\ Frontier(st, dp, y) /\ m # y
    BY <1>0, <1>10 DEF Frontier
  <2> QED
    BY <1>10, <2>1 DEF GraphOK, OneFrontier
<1>11. GraphOK(st2, dp)
  BY <1>4, <1>5, <1>7, <1>9 DEF GraphOK
<1> QED
  BY <1>10, <1>11 DEF st2

\* A completed node that must be done again is the frontier of its requirement again,
\* when nothing after it has begun.
LEMMA GraphRetreats ==
  ASSUME NEW st, NEW dp, GraphOK(st, dp), NEW y \in DOMAIN st, y.req # None,
         st[y] = "SUCCEEDED",
         \A m \in DOMAIN st : y \in dp[m] => st[m] = "PLANNED",
         \A m \in DOMAIN st : m.req = y.req /\ Frontier(st, dp, m) => y \in dp[m]
  PROVE  /\ GraphOK([st EXCEPT ![y] = "REPLAN_REQUIRED"], dp)
         /\ \A m \in DOMAIN st : Frontier([st EXCEPT ![y] = "REPLAN_REQUIRED"], dp, m)
                                   => m = y \/ Frontier(st, dp, m)
<1> DEFINE st2 == [st EXCEPT ![y] = "REPLAN_REQUIRED"]
<1>0. /\ DOMAIN st2 = DOMAIN st /\ st2[y] = "REPLAN_REQUIRED"
      /\ \A n \in DOMAIN st : n # y => st2[n] = st[n]
  OBVIOUS
<1> HIDE DEF st2
<1>1. \A n \in DOMAIN st : Reached(st2, dp, n) <=> Reached(st, dp, n) /\ y \notin dp[n]
  BY <1>0 DEF GraphOK, GraphTyped, Reached
<1>2. GraphTyped(st2, dp) /\ OneDependency(st2, dp) /\ NoBranching(st2, dp)
  BY <1>0 DEF GraphOK, GraphTyped, OneDependency, NoBranching
<1>3. StartedInOrder(st2, dp)
  BY <1>0, <1>1 DEF GraphOK, StartedInOrder
<1>4. RootDone(st2, dp)
  <2> SUFFICES ASSUME NEW m \in DOMAIN st, NEW n \in DOMAIN st, NEW p \in dp[m],
                      m.req # None, m.req = n.req, p.req = None, Reached(st2, dp, n)
               PROVE  st2[p] = "SUCCEEDED"
    BY <1>0 DEF RootDone
  <2> QED
    BY <1>0, <1>1 DEF GraphOK, GraphTyped, RootDone
<1>5. \A m \in DOMAIN st : Frontier(st2, dp, m) => m = y \/ Frontier(st, dp, m)
  BY <1>0, <1>1 DEF Frontier
<1>6. \A m \in DOMAIN st : Frontier(st2, dp, m) /\ m.req = y.req => m = y
  BY <1>1, <1>5 DEF Frontier
<1>7. OneFrontier(st2, dp)
  BY <1>0, <1>5, <1>6 DEF GraphOK, OneFrontier
<1> QED
  BY <1>2, <1>3, <1>4, <1>5, <1>7 DEF GraphOK, st2

\* The image of a finite set under an injection is as large.
LEMMA ImageSize ==
  ASSUME NEW T, IsFiniteSet(T), NEW g, g = [n \in T |-> g[n]],
         \A m, n \in T : g[m] = g[n] => m = n
  PROVE  IsFiniteSet({g[n] : n \in T}) /\ Cardinality({g[n] : n \in T}) = Cardinality(T)
<1>1. g \in Bijection(T, {g[n] : n \in T})
  BY DEF Bijection, Injection, Surjection, IsInjective
<1>2. ExistsBijection(T, {g[n] : n \in T})
  BY <1>1 DEF ExistsBijection
<1> QED
  BY <1>2, FS_Bijection

\* What the replanner inserts: a recovery node before each failed node.
Inserted(f) == {RecoveryOf(n, f[n]) : n \in DOMAIN f}
DepsWith(dp, f) == [n \in DOMAIN dp \cup Inserted(f) |->
                      IF n \in Inserted(f) THEN dp[n.of]
                      ELSE IF n \in DOMAIN f THEN {RecoveryOf(n, f[n])} ELSE dp[n]]
StatusWith(st, f) == [n \in DOMAIN st \cup Inserted(f) |->
                        IF n \in DOMAIN f \cup Inserted(f) THEN "PLANNED" ELSE st[n]]

LEMMA GraphGrows ==
  ASSUME NEW st, NEW dp, GraphOK(st, dp), NEW f, DOMAIN f \subseteq DOMAIN st,
         \A n \in DOMAIN f : st[n] = "REPLAN_REQUIRED",
         Inserted(f) \cap DOMAIN st = {}
  PROVE  /\ GraphOK(StatusWith(st, f), DepsWith(dp, f))
         /\ IsFiniteSet(Inserted(f)) /\ Cardinality(Inserted(f)) = Cardinality(DOMAIN f)
<1> DEFINE T == DOMAIN f
           new == Inserted(f)
           dp2 == DepsWith(dp, f)
           st2 == StatusWith(st, f)
           N(n) == RecoveryOf(n, f[n])
           Old == (DOMAIN st \cup new) \ T
           o(x) == IF x \in new THEN x.of ELSE x
           g == [n \in T |-> N(n)]
<1>1. \A n : N(n).of = n /\ N(n).req = n.req
  BY DEF RecoveryOf
<1>a. \A n \in T : N(n).verify \in BOOLEAN /\ (N(n).verify => n.verify)
  <2> TAKE n \in T
  <2>1. N(n).verify = (n.verify /\ KeepsEnding(n))
    BY DEF RecoveryOf
  <2> QED
    BY <2>1
<1>2. DOMAIN st2 = DOMAIN st \cup new /\ DOMAIN dp2 = DOMAIN st \cup new /\ DOMAIN dp = DOMAIN st
  BY DEF GraphOK, GraphTyped, StatusWith, DepsWith
<1>3. IsFiniteSet(T) /\ IsFiniteSet(DOMAIN st)
  BY FS_Subset DEF GraphOK, GraphTyped
<1>4. IsFiniteSet(new) /\ Cardinality(new) = Cardinality(T)
  <2>1. new = {g[n] : n \in T} /\ g = [n \in T |-> g[n]]
    BY DEF Inserted
  <2>2. \A m, n \in T : g[m] = g[n] => m = n
    BY <1>1
  <2> HIDE DEF g, T, new
  <2> QED
    BY <1>3, <2>1, <2>2, ImageSize
<1>5. IsFiniteSet(DOMAIN st \cup new)
  BY <1>3, <1>4, FS_Union
<1>6. \A x \in new : \E n \in T : x = N(n)
  BY DEF Inserted
<1>7. \A n \in T : N(n) \in new
  BY DEF Inserted
<1>8. T \subseteq DOMAIN st /\ new \cap DOMAIN st = {}
  OBVIOUS
<1>9. \A n \in T : dp2[n] = {N(n)} /\ st2[n] = "PLANNED"
  BY <1>2, <1>8 DEF DepsWith, StatusWith
<1>10. \A x \in new : dp2[x] = dp[x.of] /\ st2[x] = "PLANNED"
  BY DEF DepsWith, StatusWith
<1>11. \A x \in DOMAIN st \ T : dp2[x] = dp[x] /\ st2[x] = st[x]
  BY <1>2, <1>8 DEF DepsWith, StatusWith
<1> HIDE DEF T, new, dp2, st2, N, g
<1>12. \A x \in Old : /\ o(x) \in DOMAIN st /\ dp2[x] = dp[o(x)]
                      /\ o(x).req = x.req
                      /\ x \in new => o(x) \in T
                      /\ x \notin new => o(x) = x /\ x \in DOMAIN st \ T
  BY <1>1, <1>6, <1>8, <1>10, <1>11
<1>b. \A x \in Old : x.verify \in BOOLEAN /\ (x.verify => o(x).verify)
  BY <1>1, <1>a, <1>6, <1>8 DEF GraphOK, GraphTyped
<1>13. \A x, y \in Old : o(x) = o(y) => x = y
  BY <1>1, <1>6, <1>8
<1>14. \A n \in T : N(n) \in Old /\ N(n).req = n.req
  BY <1>1, <1>7, <1>8
<1> HIDE DEF o, Old
<1>15. \A n \in DOMAIN st : (st2[n] = "SUCCEEDED") <=> (st[n] = "SUCCEEDED")
  BY <1>9, <1>11 DEF T
<1>16. \A x \in Old : dp[o(x)] \subseteq DOMAIN st
  BY <1>12 DEF GraphOK, GraphTyped
<1>17. \A x \in Old : Reached(st2, dp2, x) <=> Reached(st, dp, o(x))
  BY <1>12, <1>15, <1>16 DEF Reached
<1>18. \A n \in T : ~Reached(st2, dp2, n)
  BY <1>7, <1>9, <1>10 DEF Reached
<1>19. \A n \in T : Frontier(st, dp, n)
  BY <1>8 DEF GraphOK, StartedInOrder, Frontier, T
<1>20. DOMAIN st \cup new = Old \cup T
  BY <1>8 DEF Old
<1>21. GraphTyped(st2, dp2)
  <2>1. \A n \in DOMAIN st \cup new : /\ n.req \in Reqs \cup {None}
                                      /\ n.verify \in BOOLEAN /\ (n.verify => n.req # None)
    BY <1>b, <1>8, <1>12, <1>20 DEF GraphOK, GraphTyped
  <2>2. \A n \in DOMAIN st \cup new : dp2[n] \subseteq DOMAIN st \cup new
    BY <1>7, <1>9, <1>12, <1>16, <1>20
  <2> QED
    BY <1>2, <1>5, <2>1, <2>2 DEF GraphTyped
<1>22. OneDependency(st2, dp2)
  <2> SUFFICES ASSUME NEW n \in DOMAIN st \cup new, n.req # None
               PROVE  \E p \in DOMAIN st \cup new : dp2[n] = {p} /\ p.req \in {n.req, None}
    BY <1>2 DEF OneDependency
  <2>1. CASE n \in T
    BY <1>7, <1>9, <1>14, <2>1
  <2>2. CASE n \in Old
    BY <1>12, <2>2 DEF GraphOK, OneDependency
  <2> QED
    BY <1>20, <2>1, <2>2
<1>23. NoBranching(st2, dp2)
  <2> SUFFICES ASSUME NEW m \in DOMAIN st \cup new, NEW n \in DOMAIN st \cup new,
                      NEW p \in dp2[m], NEW q \in dp2[n], m.req # None, m.req = n.req,
                      p = q \/ (p.req = None /\ q.req = None)
               PROVE  m = n
    BY <1>2 DEF NoBranching
  <2>1. CASE m \in Old /\ n \in Old
    <3>1. o(m) = o(n)
      BY <1>12, <2>1 DEF GraphOK, NoBranching
    <3> QED
      BY <1>13, <2>1, <3>1
  <2>2. CASE m \in T /\ n \in T
    BY <1>1, <1>9, <1>14, <2>2
  <2>3. CASE m \in T /\ n \in Old
    BY <1>7, <1>8, <1>9, <1>12, <1>14, <1>16, <2>3
  <2>4. CASE m \in Old /\ n \in T
    BY <1>7, <1>8, <1>9, <1>12, <1>14, <1>16, <2>4
  <2> QED
    BY <1>20, <2>1, <2>2, <2>3, <2>4
<1>24. StartedInOrder(st2, dp2)
  <2> SUFFICES ASSUME NEW n \in DOMAIN st \cup new, st2[n] # "PLANNED" PROVE Reached(st2, dp2, n)
    BY <1>2 DEF StartedInOrder
  <2>1. n \in DOMAIN st \ T /\ n \in Old /\ n \notin new /\ st2[n] = st[n] /\ o(n) = n
    BY <1>8, <1>9, <1>10, <1>11, <1>12, <1>20
  <2> QED
    BY <1>17, <2>1 DEF GraphOK, StartedInOrder
<1>25. RootDone(st2, dp2)
  <2> SUFFICES ASSUME NEW m \in DOMAIN st \cup new, NEW n \in DOMAIN st \cup new, NEW p \in dp2[m],
                      m.req # None, m.req = n.req, p.req = None, Reached(st2, dp2, n)
               PROVE  st2[p] = "SUCCEEDED"
    BY <1>2 DEF RootDone
  <2>1. m \in Old /\ n \in Old
    BY <1>9, <1>14, <1>18, <1>20
  <2>2. o(m) \in DOMAIN st /\ o(n) \in DOMAIN st /\ p \in dp[o(m)] /\ p \in DOMAIN st
    BY <1>12, <1>16, <2>1
  <2>3. st[p] = "SUCCEEDED"
    BY <1>12, <1>17, <2>1, <2>2 DEF GraphOK, RootDone
  <2> QED
    BY <1>15, <2>2, <2>3
<1>26. OneFrontier(st2, dp2)
  <2>1. ASSUME NEW n \in DOMAIN st \cup new, Frontier(st2, dp2, n)
        PROVE  n \in Old /\ Frontier(st, dp, o(n))
    <3>1. n \in Old /\ Reached(st, dp, o(n))
      BY <1>17, <1>18, <1>20, <2>1 DEF Frontier
    <3>2. st[o(n)] # "SUCCEEDED"
      BY <1>12, <1>15, <1>19, <2>1, <3>1 DEF Frontier
    <3> QED
      BY <3>1, <3>2 DEF Frontier
  <2> SUFFICES ASSUME NEW m \in DOMAIN st \cup new, NEW n \in DOMAIN st \cup new,
                      n.req # None, m.req = n.req, Frontier(st2, dp2, m), Frontier(st2, dp2, n)
               PROVE  m = n
    BY <1>2 DEF OneFrontier
  <2>2. o(m) = o(n)
    BY <1>12, <2>1 DEF GraphOK, OneFrontier
  <2> QED
    BY <1>13, <2>1, <2>2
<1>27. GraphOK(st2, dp2)
  BY <1>21, <1>22, <1>23, <1>24, <1>25, <1>26 DEF GraphOK
<1> QED
  BY <1>4, <1>27 DEF T, new, st2, dp2

-----------------------------------------------------------------------------
(* Types.                                                                    *)

\* What a node of the cycle has: its requirement, if any, is bound to a worktree with
\* a branch once it works.
LEMMA RunFacts ==
  ASSUME TypeOK, DeliveryInv, NEW n \in DOMAIN run
  PROVE  /\ n \in DOMAIN status /\ n.req \in Reqs \cup {None}
         /\ n.verify => n.req \in Reqs
         /\ run[n] \in Finishing => n.verify /\ n.req \in Reqs
         /\ run[n] \in Working /\ n.req # None =>
              /\ n.req \in Reqs /\ bindings[n.req] \in RequirementWorktreeBinding
              /\ bindings[n.req] # None /\ worktree[n.req] # None
              /\ worktree[n.req] \in Revision /\ branch[n.req] \in Revision
              /\ branch[n.req] <= worktree[n.req]
<1>1. n \in DOMAIN status /\ (run[n] \in Finishing => n.verify)
  BY DEF DeliveryInv, PhaseMatchesStatus
<1>2. n.req \in Reqs \cup {None} /\ (n.verify => n.req # None)
  BY <1>1 DEF DeliveryInv, GraphOK, GraphTyped
<1>3. ASSUME run[n] \in Working, n.req # None
      PROVE  /\ n.req \in Reqs /\ bindings[n.req] \in RequirementWorktreeBinding
             /\ bindings[n.req] # None /\ worktree[n.req] # None
             /\ worktree[n.req] \in Revision /\ branch[n.req] \in Revision
             /\ branch[n.req] <= worktree[n.req]
  <2>1. n.req \in Reqs /\ bindings[n.req] # None
    BY <1>2, <1>3 DEF DeliveryInv, RunsAreBound
  <2>2. worktree[n.req] # None
    BY <2>1 DEF DeliveryInv, BoundWorktreesExist, Bound
  <2>3. branch[n.req] # None /\ branch[n.req] <= worktree[n.req]
    BY <2>1, <2>2 DEF DeliveryInv, WorktreesHaveBranches
  <2> QED
    BY <2>1, <2>2, <2>3 DEF TypeOK, Bindings
<1> QED
  BY <1>1, <1>2, <1>3

LEMMA TaskDAGUpdate ==
  ASSUME NEW st, NEW dp, TaskDAG(st, dp), NEW y, NEW s \in TaskNodeStatus
  PROVE  TaskDAG([st EXCEPT ![y] = s], dp)
BY DEF TaskDAG

LEMMA TaskDAGGrows ==
  ASSUME NEW st, NEW dp, TaskDAG(st, dp), NEW f, DOMAIN f \subseteq DOMAIN st,
         \A n \in DOMAIN f : f[n] \in 1 .. MaxRecoveries
  PROVE  TaskDAG(StatusWith(st, f), DepsWith(dp, f))
<1> DEFINE st2 == StatusWith(st, f)
           dp2 == DepsWith(dp, f)
           D == DOMAIN st \cup Inserted(f)
<1>1. DOMAIN st2 = D /\ DOMAIN dp2 = D
  BY DEF TaskDAG, StatusWith, DepsWith
<1>2. \A x \in Inserted(f) : \E n \in DOMAIN f : x = RecoveryOf(n, f[n]) /\ x.of = n /\ x.no = f[n]
  BY DEF Inserted, RecoveryOf
<1>3. \A n \in DOMAIN f : RecoveryOf(n, f[n]) \in Inserted(f)
  BY DEF Inserted
<1>4. ASSUME NEW x \in D PROVE TaskNode(x, D)
  <2>1. CASE x \in DOMAIN st
    BY <2>1 DEF TaskDAG, TaskNode
  <2>2. CASE x \in Inserted(f)
    BY <1>2, <2>2 DEF TaskNode
  <2> QED
    BY <2>1, <2>2
<1>5. ASSUME NEW x \in D PROVE st2[x] \in TaskNodeStatus
  BY DEF TaskDAG, StatusWith, TaskNodeStatus
<1>6. ASSUME NEW x \in D PROVE dp2[x] \subseteq D
  <2>1. CASE x \in Inserted(f)
    <3>1. dp2[x] = dp[x.of]
      BY <2>1 DEF DepsWith
    <3>2. x.of \in DOMAIN dp
      BY <1>2, <2>1 DEF TaskDAG
    <3> QED
      BY <3>1, <3>2 DEF TaskDAG
  <2>2. CASE x \notin Inserted(f) /\ x \in DOMAIN f
    <3>1. dp2[x] = {RecoveryOf(x, f[x])}
      BY <2>2 DEF DepsWith, TaskDAG
    <3> QED
      BY <1>3, <2>2, <3>1
  <2>3. CASE x \notin Inserted(f) /\ x \notin DOMAIN f
    <3>1. dp2[x] = dp[x] /\ x \in DOMAIN dp
      BY <2>3 DEF DepsWith, TaskDAG
    <3> QED
      BY <3>1 DEF TaskDAG
  <2> QED
    BY <2>1, <2>2, <2>3
<1> HIDE DEF st2, dp2, D
<1>7. TaskDAG(st2, dp2)
  BY <1>1, <1>4, <1>5, <1>6 DEF TaskDAG
<1> QED
  BY <1>7 DEF st2, dp2

LEMMA FiniteImage ==
  ASSUME NEW R, IsFiniteSet(R), NEW g, g = [r \in R |-> g[r]]
  PROVE  IsFiniteSet({g[r] : r \in R})
<1> DEFINE T == {g[r] : r \in R}
<1>1. g \in Surjection(R, T)
  BY DEF Surjection
<1> HIDE DEF T
<1>2. IsFiniteSet(T)
  BY <1>1, FS_Surjection
<1> QED
  BY <1>2 DEF T

LEMMA PlannedFinite == IsFiniteSet(Planned)
<1> DEFINE T(k) == {Task(k, r) : r \in Reqs}
<1>1. ASSUME NEW k PROVE IsFiniteSet(T(k))
  <2> DEFINE g == [r \in Reqs |-> Task(k, r)]
  <2>1. g = [r \in Reqs |-> g[r]] /\ T(k) = {g[r] : r \in Reqs}
    OBVIOUS
  <2> HIDE DEF g, T
  <2> QED
    BY <2>1, FiniteImage, DeliveryAssumption
<1>2. Planned = (((T("analyze") \cup T("implement")) \cup T("verify")) \cup {Architecture}) \cup {Integration}
  BY DEF Planned
<1> HIDE DEF T
<1>3. IsFiniteSet((T("analyze") \cup T("implement")) \cup T("verify"))
  BY <1>1, FS_Union
<1> QED
  BY <1>2, <1>3, FS_AddElement

\* Replanning inserts recovery nodes or leaves the graph as it is.
Inserts(f) ==
  /\ DOMAIN f \subseteq DOMAIN run /\ \A n \in DOMAIN f : status[n] = "REPLAN_REQUIRED"
  /\ Inserted(f) \cap DOMAIN status = {}
  /\ IsFiniteSet(DOMAIN f)
  /\ Cardinality(Recoveries) + Cardinality(DOMAIN f) <= MaxRecoveries
  /\ \A n \in DOMAIN f : f[n] \in made + 1 .. made + Cardinality(DOMAIN f)
  /\ made' = made + Cardinality(DOMAIN f)
  /\ deps' = DepsWith(deps, f) /\ status' = StatusWith(status, f)

LEMMA ReplanInserts ==
  ASSUME TypeOK, DeliveryInv, Replan
  PROVE  UNCHANGED <<status, deps, made>> \/ \E f : Inserts(f)
<1> SUFFICES ASSUME ~UNCHANGED <<status, deps, made>> PROVE \E f : Inserts(f)
  OBVIOUS
<1>1. PICK T \in SUBSET ToReplan :
        /\ Cardinality(Recoveries) + Cardinality(T) <= MaxRecoveries
        /\ \E f \in Numberings(T) :
             LET new == {RecoveryOf(n, f[n]) : n \in T} IN
             /\ new \cap DOMAIN status = {}
             /\ made' = made + Cardinality(T)
             /\ deps' = DepsAfter(f)
             /\ status' = [n \in DOMAIN deps' |-> IF n \in T \cup new THEN "PLANNED" ELSE status[n]]
  <2> HIDE DEF TypeOK, DeliveryInv
  <2> QED
    BY Zenon DEF Replan, Classified
<1>2. PICK f \in Numberings(T) :
        LET new == {RecoveryOf(n, f[n]) : n \in T} IN
        /\ new \cap DOMAIN status = {}
        /\ made' = made + Cardinality(T)
        /\ deps' = DepsAfter(f)
        /\ status' = [n \in DOMAIN deps' |-> IF n \in T \cup new THEN "PLANNED" ELSE status[n]]
  BY <1>1
<1>3. DOMAIN f = T /\ \A n \in T : f[n] \in made + 1 .. made + Cardinality(T)
  BY DEF Numberings
<1>4. Inserted(f) = {RecoveryOf(n, f[n]) : n \in T}
  BY <1>3 DEF Inserted
<1>5. deps' = DepsWith(deps, f)
  BY <1>2, <1>3, <1>4 DEF DepsAfter, DepsWith
<1>6. DOMAIN deps' = DOMAIN status \cup Inserted(f)
  BY <1>5 DEF DepsWith, DeliveryInv, GraphOK, GraphTyped
<1>7. status' = StatusWith(status, f)
  BY <1>2, <1>3, <1>4, <1>6 DEF StatusWith
<1>8. T \subseteq DOMAIN run /\ T \subseteq DOMAIN status /\ \A n \in T : status[n] = "REPLAN_REQUIRED"
  BY DEF ToReplan, TypeOK
<1>9. IsFiniteSet(T)
  BY <1>8, FS_Subset DEF DeliveryInv, GraphOK, GraphTyped
<1>10. Inserts(f)
  BY <1>1, <1>2, <1>3, <1>4, <1>5, <1>7, <1>8, <1>9 DEF Inserts
<1> QED
  BY <1>10

LEMMA DeliveryTypeStep == TypeOK /\ DeliveryInv /\ [Next]_vars => TypeOK'
<1> SUFFICES ASSUME TypeOK, DeliveryInv, [Next]_vars PROVE TypeOK'
  OBVIOUS
<1> USE DeliveryAssumption
<1>a. TaskDAG(status, deps) /\ DOMAIN run \subseteq DOMAIN status
  BY DEF TypeOK
<1>b. ASSUME NEW y, NEW s \in TaskNodeStatus, status' = [status EXCEPT ![y] = s], deps' = deps
      PROVE  TaskDAG(status', deps') /\ DOMAIN status' = DOMAIN status
  BY <1>a, <1>b, TaskDAGUpdate
<1>c. {"READY", "COGNITIVE_WORK", "VERIFYING", "SUCCEEDED", "REPLAN_REQUIRED"} \subseteq TaskNodeStatus
  BY DEF TaskNodeStatus
<1>d. \A n, p : p \in EngineeringNodeRun /\ n \in DOMAIN run /\ Goes(n, p)
        => DOMAIN run' = DOMAIN run /\ \A m \in DOMAIN run' : run'[m] \in EngineeringNodeRun
  BY DEF Goes, TypeOK
<1>e. EngineeringNodeRun = {"acquire", "work", "verify", "commit", "merge", "merged tree",
                            "commit merge", "remove", "done"}
  BY DEF EngineeringNodeRun
<1>f. \A n \in DOMAIN run : IntegrationFails(n) =>
        /\ DOMAIN status' = DOMAIN status /\ TaskDAG(status', deps') /\ UNCHANGED <<agency, made>>
        /\ DOMAIN run' = DOMAIN run /\ \A m \in DOMAIN run' : run'[m] \in EngineeringNodeRun
  <2> SUFFICES ASSUME NEW n \in DOMAIN run, IntegrationFails(n)
               PROVE  /\ DOMAIN status' = DOMAIN status /\ TaskDAG(status', deps')
                      /\ UNCHANGED <<agency, made>> /\ DOMAIN run' = DOMAIN run
                      /\ \A m \in DOMAIN run' : run'[m] \in EngineeringNodeRun
    OBVIOUS
  <2>1. DOMAIN run' = DOMAIN run /\ \A m \in DOMAIN run' : run'[m] \in EngineeringNodeRun
    BY <1>d, <1>e DEF IntegrationFails
  <2> QED
    BY <1>b, <1>c, <2>1 DEF IntegrationFails
<1>g. \A n \in DOMAIN run, p \in EngineeringNodeRun : Carries(n, p) =>
        /\ DOMAIN status' = DOMAIN status /\ TaskDAG(status', deps') /\ UNCHANGED <<agency, made>>
        /\ DOMAIN run' = DOMAIN run /\ \A m \in DOMAIN run' : run'[m] \in EngineeringNodeRun
  BY <1>a, <1>d DEF Carries
<1>1. CASE StartCycle
  <2>1. TaskDAG(status', deps') /\ DOMAIN status' = DOMAIN status
    BY <1>1, <1>a DEF StartCycle, TaskDAG, TaskNodeStatus
  <2>2. DOMAIN run' \subseteq DOMAIN status' /\ \A n \in DOMAIN run' : run'[n] \in EngineeringNodeRun
    <3>1. CASE run' = run
      BY <2>1, <3>1 DEF TypeOK
    <3>2. CASE \E Q \in Selections : run' = [n \in Q |-> "acquire"]
      BY <1>e, <2>1, <3>2 DEF Selections, ReadyNodes
    <3> QED
      BY <1>1, <3>1, <3>2 DEF StartCycle
  <2>3. agency' \in {"running", "stopped"}
    BY <1>1 DEF StartCycle
  <2> QED
    BY <1>1, <2>1, <2>2, <2>3 DEF StartCycle, TypeOK, disk
<1>2. CASE SaveCheckpoint
  <2>1. EngineeringMissionCheckpoint(checkpoint')
    <3>1. BaseFiles \in [tree : Tree, dirty : BOOLEAN]
      BY DEF BaseFiles, CheckedOut, TypeOK
    <3>2. WorktreeFiles(Bound) \in [Bound -> {None} \cup Revision]
      BY DEF WorktreeFiles, TypeOK, Bound
    <3>3. Bound = {r \in Reqs : bindings[r] # None}
      BY DEF Bound
    <3> QED
      BY <1>2, <1>a, <3>1, <3>2, <3>3 DEF SaveCheckpoint, EngineeringMissionCheckpoint, TypeOK
  <2> QED
    BY <1>2, <2>1 DEF SaveCheckpoint, TypeOK
<1>4. CASE Crash
  <2>1. TaskDAG(status', deps')
    BY <1>4 DEF Crash, TaskDAG
  <2> QED
    BY <1>4, <2>1 DEF Crash, TypeOK, disk, NoRun, Bindings
<1>5. CASE RecoverFromCheckpoint
  <2>1. EngineeringMissionCheckpoint(checkpoint)
    BY <1>5 DEF RecoverFromCheckpoint, TypeOK
  <2>2. TaskDAG(status', deps')
    BY <1>5, <2>1 DEF RecoverFromCheckpoint, EngineeringMissionCheckpoint, TaskDAG, TaskNodeStatus
  <2>3. DOMAIN run' = {}
    BY <1>5 DEF RecoverFromCheckpoint, DeliveryInv, DownIsEmpty, NoRun
  <2> QED
    BY <1>5, <2>1, <2>2, <2>3 DEF RecoverFromCheckpoint, EngineeringMissionCheckpoint, TypeOK, disk
<1>6. ASSUME NEW n \in DOMAIN run, Acquire(n) PROVE TypeOK'
  <2>1. TaskDAG(status', deps') /\ DOMAIN status' = DOMAIN status
    BY <1>6, <1>b, <1>c DEF Acquire
  <2>2. DOMAIN run' \subseteq DOMAIN status' /\ \A m \in DOMAIN run' : run'[m] \in EngineeringNodeRun
    BY <1>6, <1>a, <1>d, <1>e, <2>1 DEF Acquire
  <2>3. n.req \in Reqs \cup {None}
    BY RunFacts
  <2>4. /\ bindings' \in Bindings /\ worktree' \in [Reqs -> {None} \cup Revision]
        /\ branch' \in [Reqs -> {None} \cup Revision]
    <3>1. 0 \in Revision
      BY DEF Revision
    <3>2. [verified |-> 0, integrated |-> FALSE] \in RequirementWorktreeBinding
      BY <3>1 DEF RequirementWorktreeBinding
    <3> QED
      BY <1>6, <2>3, <3>1, <3>2 DEF Acquire, CreateTaskWorktree, Unbound, TypeOK, Bindings
  <2> QED
    BY <1>6, <2>1, <2>2, <2>4 DEF Acquire, TypeOK
<1>7. ASSUME NEW n \in DOMAIN run, AcquireFails(n) PROVE TypeOK'
  BY <1>7 DEF AcquireFails, Raises, TypeOK, disk
<1>8. ASSUME NEW n \in DOMAIN run, Edit(n) PROVE TypeOK'
  <2>1. worktree' \in [Reqs -> {None} \cup Revision]
    <3>1. CASE n.req # None /\ ~UNCHANGED worktree
      <4>1. n.req \in Reqs /\ worktree[n.req] \in Revision
        BY <1>8, <3>1, RunFacts DEF Edit, Working, EngineeringNodeRun
      <4>2. worktree[n.req] + 1 \in Revision
        BY <1>8, <3>1, <4>1 DEF Edit, Revision
      <4> QED
        BY <1>8, <3>1, <4>1, <4>2 DEF Edit, TypeOK
    <3>2. CASE UNCHANGED worktree
      BY <3>2 DEF TypeOK
    <3> QED
      BY <1>8, <3>1, <3>2 DEF Edit
  <2> QED
    BY <1>8, <2>1 DEF Edit, memory, TypeOK
<1>9. ASSUME NEW n \in DOMAIN run, ModelFails(n) PROVE TypeOK'
  <2>1. CASE Raises(n)
    BY <1>9, <2>1 DEF ModelFails, Raises, TypeOK, disk
  <2>2. CASE ~Raises(n)
    <3>1. TaskDAG(status', deps') /\ DOMAIN status' = DOMAIN status
      BY <1>9, <2>2, <1>b, <1>c DEF ModelFails
    <3>2. DOMAIN run' = DOMAIN run /\ \A m \in DOMAIN run' : run'[m] \in EngineeringNodeRun
      BY <1>9, <2>2, <1>d, <1>e DEF ModelFails
    <3> QED
      BY <1>9, <1>a, <2>2, <3>1, <3>2 DEF ModelFails, TypeOK, disk
  <2> QED
    BY <2>1, <2>2
<1>10. ASSUME NEW n \in DOMAIN run, BeginVerification(n) PROVE TypeOK'
  <2>1. TaskDAG(status', deps') /\ DOMAIN status' = DOMAIN status
    BY <1>10, <1>b, <1>c DEF BeginVerification
  <2>2. DOMAIN run' = DOMAIN run /\ \A m \in DOMAIN run' : run'[m] \in EngineeringNodeRun
    BY <1>10, <1>d, <1>e DEF BeginVerification
  <2> QED
    BY <1>10, <1>a, <2>1, <2>2 DEF BeginVerification, TypeOK, disk
<1>11. ASSUME NEW n \in DOMAIN run, NEW verdict \in Verdicts, Decide(n, verdict) PROVE TypeOK'
  <2>1. \E s \in TaskNodeStatus : status' = [status EXCEPT ![n] = s] /\ deps' = deps
    BY <1>11, <1>c DEF Decide
  <2>a. TaskDAG(status', deps') /\ DOMAIN status' = DOMAIN status
    BY <1>b, <2>1
  <2>2. DOMAIN run' = DOMAIN run /\ \A m \in DOMAIN run' : run'[m] \in EngineeringNodeRun
    BY <1>11, <1>d, <1>e DEF Decide
  <2>3. seen' \in [Reqs -> SUBSET Revision]
    <3>1. CASE n.verify
      <4>1. n.req \in Reqs /\ n.req # None /\ run[n] \in Working
        BY <1>11, <3>1, RunFacts DEF Decide, Working, EngineeringNodeRun
      <4>2. worktree[n.req] \in Revision
        BY <4>1, RunFacts
      <4> QED
        BY <1>11, <4>1, <4>2 DEF Decide, TypeOK
    <3>2. CASE ~n.verify
      BY <1>11, <3>2 DEF Decide, TypeOK
    <3> QED
      BY <3>1, <3>2
  <2> QED
    BY <1>11, <1>a, <2>a, <2>2, <2>3 DEF Decide, TypeOK, disk
<1> DEFINE Carried == /\ DOMAIN status' = DOMAIN status /\ TaskDAG(status', deps')
                      /\ UNCHANGED <<agency, made>> /\ DOMAIN run' = DOMAIN run
                      /\ \A m \in DOMAIN run' : run'[m] \in EngineeringNodeRun
<1>12. ASSUME NEW n \in DOMAIN run, CommitWork(n) PROVE TypeOK'
  <2>1. Carried
    BY <1>12, <1>e, <1>f, <1>g DEF CommitWork
  <2>2. /\ n.req \in Reqs /\ worktree[n.req] \in Revision
        /\ bindings[n.req] \in RequirementWorktreeBinding
    BY <1>12, RunFacts DEF CommitWork, Finishing, Working, EngineeringNodeRun, TypeOK
  <2>3. [bindings[n.req] EXCEPT !.verified = worktree[n.req]] \in RequirementWorktreeBinding
    BY <2>2 DEF RequirementWorktreeBinding
  <2>4. bindings' \in Bindings /\ branch' \in [Reqs -> {None} \cup Revision]
    BY <1>12, <2>2, <2>3 DEF CommitWork, Commit, TypeOK, Bindings
  <2> QED
    BY <1>12, <1>a, <2>1, <2>4 DEF CommitWork, TypeOK
<1>13. ASSUME NEW n \in DOMAIN run, BeginMerge(n) PROVE TypeOK'
  <2>1. Carried
    BY <1>13, <1>e, <1>f, <1>g DEF BeginMerge, AfterMerge
  <2>2. n.req \in Reqs /\ branch[n.req] \in Revision
    BY <1>13, RunFacts DEF BeginMerge, Finishing, Working, EngineeringNodeRun, TypeOK
  <2>3. staged' \in {None} \cup Tree
    BY <1>13, <2>2 DEF BeginMerge, MergeNoCommit, TypeOK, Tree
  <2> QED
    BY <1>13, <1>a, <2>1, <2>3 DEF BeginMerge, TypeOK
<1>15. ASSUME NEW n \in DOMAIN run, VerifyMergedTree(n) PROVE TypeOK'
  <2>1. Carried
    BY <1>15, <1>e, <1>f, <1>g DEF VerifyMergedTree
  <2>2. CheckedOut \in Tree
    BY DEF CheckedOut, TypeOK
  <2>3. staged' \in {None} \cup Tree /\ accepted' \subseteq Tree
    BY <1>15, <2>2 DEF VerifyMergedTree, SafeAbort, AbortMerge, TypeOK
  <2> QED
    BY <1>15, <1>a, <2>1, <2>3 DEF VerifyMergedTree, TypeOK
<1>16. ASSUME NEW n \in DOMAIN run, CommitMerge(n) PROVE TypeOK'
  <2>1. Carried
    BY <1>16, <1>e, <1>f, <1>g DEF CommitMerge
  <2>2. staged # None => staged \in Tree
    BY DEF TypeOK
  <2>3. n.req \in Reqs /\ bindings[n.req] \in RequirementWorktreeBinding
    BY <1>16, RunFacts DEF CommitMerge, Finishing, Working, EngineeringNodeRun, TypeOK
  <2>4. [bindings[n.req] EXCEPT !.integrated = TRUE] \in RequirementWorktreeBinding
    BY <2>3 DEF RequirementWorktreeBinding
  <2>5. staged' \in {None} \cup Tree /\ base' \in Tree /\ bindings' \in Bindings
    BY <1>16, <2>2, <2>3, <2>4 DEF CommitMerge, CommitStaged, SafeAbort, AbortMerge, TypeOK, Bindings
  <2> QED
    BY <1>16, <1>a, <2>1, <2>5 DEF CommitMerge, TypeOK
<1>17. ASSUME NEW n \in DOMAIN run, RemoveWorktree(n) PROVE TypeOK'
  <2>1. Carried
    BY <1>17, <1>e, <1>f, <1>g DEF RemoveWorktree
  <2>2. worktree' \in [Reqs -> {None} \cup Revision] /\ bindings' \in Bindings
    BY <1>17 DEF RemoveWorktree, RemoveTree, TypeOK, Bindings
  <2> QED
    BY <1>17, <1>a, <2>1, <2>2 DEF RemoveWorktree, TypeOK
<1>18. CASE UNCHANGED vars
  BY <1>18 DEF vars, TypeOK
<1>19. CASE Replan
  <2>1. TaskDAG(status', deps') /\ made' \in 0 .. MaxRecoveries
    <3>1. CASE UNCHANGED <<status, deps, made>>
      BY <3>1 DEF TypeOK
    <3>2. ASSUME NEW f, Inserts(f) PROVE TaskDAG(status', deps') /\ made' \in 0 .. MaxRecoveries
      <4>1. made \in Nat /\ made <= Cardinality(Recoveries) /\ Cardinality(DOMAIN f) \in Nat
        BY <3>2, FS_CardinalityType DEF Inserts, TypeOK, DeliveryInv, RecoveriesCounted
      <4>2. Cardinality(Recoveries) \in Nat
        <5>1. IsFiniteSet(Recoveries)
          BY FS_Subset DEF Recoveries, DeliveryInv, GraphOK, GraphTyped
        <5> QED
          BY <5>1, FS_CardinalityType
      <4>3. made + Cardinality(DOMAIN f) <= MaxRecoveries /\ MaxRecoveries \in Nat
        BY <3>2, <4>1, <4>2 DEF Inserts
      <4>4. \A n \in DOMAIN f : f[n] \in 1 .. MaxRecoveries
        BY <3>2, <4>1, <4>3 DEF Inserts
      <4>5. DOMAIN f \subseteq DOMAIN status
        BY <3>2, <1>a DEF Inserts
      <4> QED
        BY <1>a, <3>2, <4>1, <4>3, <4>4, <4>5, TaskDAGGrows DEF Inserts
    <3> QED
      BY <1>19, <3>1, <3>2, ReplanInserts
  <2>2. DOMAIN run' = {} /\ agency' \in {"running", "stopped", "raised"}
    BY <1>19 DEF Replan, NoRun
  <2> QED
    BY <1>19, <2>1, <2>2 DEF Replan, TypeOK, disk
<1> QED
  BY <1>1, <1>2, <1>4, <1>5, <1>6, <1>7, <1>8, <1>9, <1>10, <1>11, <1>12, <1>13, <1>15,
     <1>16, <1>17, <1>18, <1>19 DEF Next

-----------------------------------------------------------------------------
(* Initial states.                                                           *)

LEMMA DeliveryInit == Init => TypeOK /\ DeliveryInv
<1> SUFFICES ASSUME Init PROVE TypeOK /\ DeliveryInv
  OBVIOUS
<1> USE DeliveryAssumption
<1>1. DOMAIN status = Planned /\ DOMAIN deps = Planned /\ DOMAIN run = {}
  BY DEF Init, NoRun
<1>2. \A n \in Planned :
        \/ n = Architecture \/ n = Integration
        \/ \E r \in Reqs : n \in {Task("analyze", r), Task("implement", r), Task("verify", r)}
  BY DEF Planned
<1>3. /\ deps[Architecture] = {}
      /\ deps[Integration] = {Task("verify", r) : r \in Reqs}
      /\ \A r \in Reqs : /\ deps[Task("analyze", r)] = {Architecture}
                         /\ deps[Task("implement", r)] = {Task("analyze", r)}
                         /\ deps[Task("verify", r)] = {Task("implement", r)}
  <2>1. \A n \in Planned : deps[n] = PlannedDeps(n)
    BY DEF Init
  <2>2. /\ Architecture \in Planned /\ Integration \in Planned
        /\ \A k \in {"analyze", "implement", "verify"}, r \in Reqs : Task(k, r) \in Planned
    BY DEF Planned
  <2> QED
    BY <2>1, <2>2 DEF PlannedDeps, Architecture, Integration, Task
<1>4. \A n \in Planned : deps[n] \subseteq Planned
  <2>1. /\ Architecture \in Planned
        /\ \A k \in {"analyze", "implement", "verify"}, r \in Reqs : Task(k, r) \in Planned
    BY DEF Planned
  <2> QED
    BY <1>2, <1>3, <2>1
<1>5. \A n \in Planned : status[n] = IF n = Architecture THEN "READY" ELSE "PLANNED"
  BY DEF Init
<1>6. \A k, r : Task(k, r).req = r /\ Task(k, r).kind = k /\ (Task(k, r).verify <=> k = "verify")
                /\ Task(k, r).verify \in BOOLEAN
  BY DEF Task
<1>7. Architecture = Task("architecture", None) /\ Integration = Task("integration", None)
  BY DEF Architecture, Integration
<1> HIDE DEF Task, Architecture, Integration
<1>8. Architecture \in Planned /\ Integration \in Planned
  BY DEF Planned
<1>9. GraphTyped(status, deps)
  <2>1. \A n \in Planned : n.req \in Reqs \cup {None} /\ n.verify \in BOOLEAN /\ (n.verify => n.req # None)
    BY <1>2, <1>6, <1>7
  <2> QED
    BY <1>1, <1>4, <2>1, PlannedFinite DEF GraphTyped
<1>10. \A n \in Planned : n.req # None =>
         \E p \in Planned : deps[n] = {p} /\ p.req \in {n.req, None}
  <2> SUFFICES ASSUME NEW n \in Planned, n.req # None
               PROVE  \E p \in Planned : deps[n] = {p} /\ p.req \in {n.req, None}
    OBVIOUS
  <2>1. PICK r \in Reqs : n \in {Task("analyze", r), Task("implement", r), Task("verify", r)}
    BY <1>2, <1>6, <1>7
  <2> QED
    BY <1>3, <1>4, <1>6, <1>7, <2>1
<1>11. OneDependency(status, deps)
  BY <1>1, <1>10 DEF OneDependency
<1>12. NoBranching(status, deps)
  <2> SUFFICES ASSUME NEW m \in Planned, NEW n \in Planned, NEW p \in deps[m], NEW q \in deps[n],
                      m.req # None, m.req = n.req, p = q \/ (p.req = None /\ q.req = None)
               PROVE  m = n
    BY <1>1 DEF NoBranching
  <2>1. PICK r \in Reqs : m \in {Task("analyze", r), Task("implement", r), Task("verify", r)}
    BY <1>2, <1>6, <1>7
  <2>2. n \in {Task("analyze", r), Task("implement", r), Task("verify", r)}
    BY <1>2, <1>6, <1>7, <2>1
  <2> QED
    BY <1>3, <1>6, <1>7, <2>1, <2>2
<1>13. \A n \in Planned : n.req # None => ~Reached(status, deps, n)
  BY <1>4, <1>5, <1>10 DEF Reached
<1>14. GraphOK(status, deps)
  <2>1. StartedInOrder(status, deps)
    BY <1>1, <1>3, <1>5 DEF StartedInOrder, Reached
  <2>2. RootDone(status, deps)
    BY <1>1, <1>13 DEF RootDone
  <2>3. OneFrontier(status, deps)
    BY <1>1, <1>13 DEF OneFrontier, Frontier
  <2> QED
    BY <1>9, <1>11, <1>12, <2>1, <2>2, <2>3 DEF GraphOK
<1>15. TypeOK
  <2>1. TaskDAG(status, deps)
    BY <1>1, <1>4, <1>5 DEF TaskDAG, TaskNode, TaskNodeStatus
  <2>2. 0 \in Revision /\ 0 \in 0 .. MaxRecoveries /\ 0 \in 0 .. MaxCrashes
    BY DEF Revision
  <2> QED
    BY <1>1, <2>1, <2>2 DEF Init, TypeOK, Bindings, Tree
<1>16. PhaseMatchesStatus /\ RunsAlone /\ RunsAreBound
  BY <1>1 DEF PhaseMatchesStatus, RunsAlone, RunsAreBound
<1>17. MergesVerified
  BY <1>1 DEF MergesVerified, Integrating
<1>18. WorktreesHaveBranches /\ BoundWorktreesExist /\ BindingsTrue(bindings) /\ BaseVerified
  BY DEF Init, WorktreesHaveBranches, BoundWorktreesExist, Bound, BindingsTrue, BaseVerified
<1>19. VerifiedAreMerged(status, Ending)
  BY <1>1, <1>5, <1>6, <1>7 DEF VerifiedAreMerged
<1>20. IntegrationWaits(status, deps)
  BY <1>3, <1>5, <1>6, <1>7, <1>8 DEF IntegrationWaits
<1>21. RecoveriesCounted
  <2>1. made = 0
    BY DEF Init
  <2>2. IsFiniteSet(Recoveries)
    BY <1>1, PlannedFinite, FS_Subset DEF Recoveries
  <2>3. Cardinality(Recoveries) \in Nat
    BY <2>2, FS_CardinalityType
  <2> QED
    BY <2>1, <2>3 DEF RecoveriesCounted
<1>22. CheckpointOK /\ CycleEnded /\ DownIsEmpty
  BY DEF Init, CheckpointOK, CycleEnded, DownIsEmpty
<1> QED
  BY <1>14, <1>15, <1>16, <1>17, <1>18, <1>19, <1>20, <1>21, <1>22 DEF DeliveryInv

-----------------------------------------------------------------------------
(* The task graph and the cycle, step by step.                               *)

CycleOK == GraphOK(status, deps) /\ PhaseMatchesStatus /\ RunsAlone

PhaseFits(n, p, s) ==
  /\ p \in EngineeringNodeRun
  /\ p = "acquire" => s = "READY"
  /\ p = "work" => s = "COGNITIVE_WORK"
  /\ p = "verify" => s = "VERIFYING"
  /\ p \in Finishing => n.verify /\ s = "SUCCEEDED"
  /\ p = "done" => s \in {"SUCCEEDED", "REPLAN_REQUIRED"}

\* A node of the cycle goes on to another phase, and its status with it.
LEMMA PhaseKept ==
  ASSUME PhaseMatchesStatus, NEW n \in DOMAIN run, NEW p, NEW s,
         Goes(n, p), status' = [status EXCEPT ![n] = s], PhaseFits(n, p, s)
  PROVE  /\ PhaseMatchesStatus' /\ DOMAIN run' = DOMAIN run /\ DOMAIN status' = DOMAIN status
         /\ run'[n] = p /\ status'[n] = s
         /\ \A m \in DOMAIN run : m # n => run'[m] = run[m]
         /\ \A m \in DOMAIN status : m # n => status'[m] = status[m]
<1>1. n \in DOMAIN status
  BY DEF PhaseMatchesStatus
<1>2. /\ DOMAIN run' = DOMAIN run /\ DOMAIN status' = DOMAIN status
      /\ run'[n] = p /\ status'[n] = s
      /\ \A m \in DOMAIN run : m # n => run'[m] = run[m]
      /\ \A m \in DOMAIN status : m # n => status'[m] = status[m]
  BY <1>1 DEF Goes
<1>3. PhaseMatchesStatus'
  <2> SUFFICES ASSUME NEW m \in DOMAIN run
               PROVE  m \in DOMAIN status' /\ PhaseFits(m, run'[m], status'[m])
    BY <1>2 DEF PhaseMatchesStatus, PhaseFits
  <2>1. CASE m = n
    BY <1>1, <1>2, <2>1
  <2>2. CASE m # n
    BY <1>2, <2>2 DEF PhaseMatchesStatus, PhaseFits
  <2> QED
    BY <2>1, <2>2
<1> QED
  BY <1>2, <1>3

\* A node at work is accepted by nothing yet.
LEMMA WorkGoesOn ==
  ASSUME CycleOK, NEW n \in DOMAIN run, NEW p, NEW s, deps' = deps,
         Goes(n, p), status' = [status EXCEPT ![n] = s], PhaseFits(n, p, s), p \notin Finishing,
         status[n] \notin {"PLANNED", "SUCCEEDED"}, s \notin {"PLANNED", "SUCCEEDED"}
  PROVE  CycleOK'
<1>1. /\ PhaseMatchesStatus' /\ DOMAIN run' = DOMAIN run /\ DOMAIN status' = DOMAIN status
      /\ run'[n] = p /\ status'[n] = s
      /\ \A m \in DOMAIN run : m # n => run'[m] = run[m]
      /\ \A m \in DOMAIN status : m # n => status'[m] = status[m]
  BY PhaseKept DEF CycleOK
<1>2. n \in DOMAIN status
  BY DEF CycleOK, PhaseMatchesStatus
<1>3. \A m \in DOMAIN status : /\ (status'[m] = "SUCCEEDED") <=> (status[m] = "SUCCEEDED")
                               /\ (status'[m] = "PLANNED") <=> (status[m] = "PLANNED")
  BY <1>1, <1>2
<1>4. \A m \in DOMAIN status : status'[m] # "PLANNED" => Reached(status, deps, m)
  BY <1>3 DEF CycleOK, GraphOK, StartedInOrder
<1>5. GraphOK(status', deps')
  BY <1>1, <1>3, <1>4, GraphKept DEF CycleOK
<1>6. \A m \in DOMAIN status : Frontier(status', deps', m) => Frontier(status, deps, m)
  BY <1>3 DEF Frontier, Reached, CycleOK, GraphOK, GraphTyped
<1>7. RunsAlone'
  <2>1. \A a, b \in DOMAIN run' : b.req # None /\ a.req = b.req => a = b
    BY <1>1 DEF RunsAlone, CycleOK
  <2>2. \A b \in DOMAIN run', m \in DOMAIN status' : b \in deps'[m] => status'[m] = "PLANNED"
    BY <1>1, <1>3 DEF RunsAlone, CycleOK
  <2>3. \A b \in DOMAIN run', m \in DOMAIN status' :
          run'[b] \in Finishing /\ m.req = b.req /\ Frontier(status', deps', m) => b \in deps'[m]
    <3>1. \A b \in DOMAIN run' : run'[b] \in Finishing => run[b] \in Finishing
      BY <1>1
    <3> QED
      BY <1>1, <1>6, <3>1 DEF RunsAlone, CycleOK
  <2> QED
    BY <2>1, <2>2, <2>3 DEF RunsAlone
<1> QED
  BY <1>1, <1>5, <1>7 DEF CycleOK

\* A node is accepted: what waits for it and for nothing else may begin.
LEMMA WorkAccepted ==
  ASSUME CycleOK, NEW n \in DOMAIN run, NEW p, deps' = deps,
         Goes(n, p), status' = [status EXCEPT ![n] = "SUCCEEDED"],
         PhaseFits(n, p, "SUCCEEDED"), status[n] \notin {"PLANNED", "SUCCEEDED"}
  PROVE  CycleOK'
<1>1. /\ PhaseMatchesStatus' /\ DOMAIN run' = DOMAIN run /\ DOMAIN status' = DOMAIN status
      /\ run'[n] = p /\ status'[n] = "SUCCEEDED"
      /\ \A m \in DOMAIN run : m # n => run'[m] = run[m]
      /\ \A m \in DOMAIN status : m # n => status'[m] = status[m]
  BY PhaseKept DEF CycleOK
<1>2. n \in DOMAIN status /\ Reached(status, deps, n)
  BY DEF CycleOK, PhaseMatchesStatus, GraphOK, StartedInOrder
<1>3. /\ GraphOK(status', deps')
      /\ \A m \in DOMAIN status : /\ Frontier(status', deps', m)
                                  /\ m.req = n.req /\ n.req # None
                                  => n \in deps[m]
  BY <1>2, GraphAdvances DEF CycleOK
<1>4. \A a, b \in DOMAIN run' : b.req # None /\ a.req = b.req => a = b
  BY <1>1 DEF CycleOK, RunsAlone
<1>5. \A b \in DOMAIN run', m \in DOMAIN status' : b \in deps'[m] => status'[m] = "PLANNED"
  BY <1>1, <1>2 DEF CycleOK, RunsAlone
<1>6. ASSUME NEW b \in DOMAIN run', NEW m \in DOMAIN status', run'[b] \in Finishing,
             m.req = b.req, Frontier(status', deps', m)
      PROVE  b \in deps'[m]
  <2>1. b \in DOMAIN status /\ b.verify /\ b.req # None
    BY <1>1, <1>6 DEF CycleOK, PhaseMatchesStatus, GraphOK, GraphTyped
  <2>2. CASE b = n
    BY <1>1, <1>3, <1>6, <2>1, <2>2
  <2>3. CASE b # n
    <3>1. status[b] = "SUCCEEDED" /\ run[b] \in Finishing
      BY <1>1, <1>6, <2>1, <2>3 DEF PhaseMatchesStatus
    <3>2. Reached(status, deps, b)
      BY <2>1, <3>1 DEF CycleOK, GraphOK, StartedInOrder
    <3>3. n \notin deps[m]
      <4> SUFFICES ASSUME n \in deps[m] PROVE FALSE
        OBVIOUS
      <4>1. n.req = m.req \/ n.req = None
        BY <1>1, <1>6, <2>1 DEF CycleOK, GraphOK, OneDependency
      <4>2. n.req = None
        BY <1>1, <1>6, <2>1, <2>3, <4>1 DEF CycleOK, RunsAlone
      <4> QED
        BY <1>1, <1>6, <2>1, <3>2, <4>2 DEF CycleOK, GraphOK, RootDone
    <3>4. Frontier(status, deps, m)
      BY <1>1, <1>2, <1>6, <3>3 DEF Frontier, Reached, CycleOK, GraphOK, GraphTyped
    <3> QED
      BY <1>1, <1>6, <3>1, <3>4 DEF CycleOK, RunsAlone
  <2> QED
    BY <2>2, <2>3
<1>7. RunsAlone'
  BY <1>4, <1>5, <1>6 DEF RunsAlone
<1> QED
  BY <1>1, <1>3, <1>7 DEF CycleOK

\* The integration of a verified requirement fails, and it is to be verified again.
LEMMA IntegrationRetreats ==
  ASSUME CycleOK, NEW n \in DOMAIN run, run[n] \in Finishing, IntegrationFails(n)
  PROVE  CycleOK'
<1>1. /\ PhaseMatchesStatus' /\ DOMAIN run' = DOMAIN run /\ DOMAIN status' = DOMAIN status
      /\ run'[n] = "done" /\ status'[n] = "REPLAN_REQUIRED"
      /\ \A m \in DOMAIN run : m # n => run'[m] = run[m]
      /\ \A m \in DOMAIN status : m # n => status'[m] = status[m]
  <2>1. PhaseFits(n, "done", "REPLAN_REQUIRED")
    BY DEF PhaseFits, Finishing, EngineeringNodeRun
  <2> QED
    BY <2>1, PhaseKept DEF CycleOK, IntegrationFails
<1>2. n \in DOMAIN status /\ n.req # None /\ status[n] = "SUCCEEDED"
  BY DEF CycleOK, PhaseMatchesStatus, GraphOK, GraphTyped
<1>3. /\ GraphOK(status', deps')
      /\ \A m \in DOMAIN status : Frontier(status', deps', m) => m = n \/ Frontier(status, deps, m)
  <2>1. \A m \in DOMAIN status : n \in deps[m] => status[m] = "PLANNED"
    BY DEF CycleOK, RunsAlone
  <2>2. \A m \in DOMAIN status : m.req = n.req /\ Frontier(status, deps, m) => n \in deps[m]
    BY DEF CycleOK, RunsAlone
  <2>3. GraphOK(status, deps)
    BY DEF CycleOK
  <2>4. status' = [status EXCEPT ![n] = "REPLAN_REQUIRED"] /\ deps' = deps
    BY DEF IntegrationFails
  <2> QED
    BY <1>2, <2>1, <2>2, <2>3, <2>4, GraphRetreats
<1>4. deps' = deps /\ "done" \notin Finishing
  BY DEF IntegrationFails, Finishing
<1>5. \A a, b \in DOMAIN run' : b.req # None /\ a.req = b.req => a = b
  BY <1>1 DEF CycleOK, RunsAlone
<1>6. \A b \in DOMAIN run', m \in DOMAIN status' : b \in deps'[m] => status'[m] = "PLANNED"
  BY <1>1, <1>2, <1>4 DEF CycleOK, RunsAlone
<1>7. \A b \in DOMAIN run', m \in DOMAIN status' :
        run'[b] \in Finishing /\ m.req = b.req /\ Frontier(status', deps', m) => b \in deps'[m]
  <2> SUFFICES ASSUME NEW b \in DOMAIN run', NEW m \in DOMAIN status', run'[b] \in Finishing,
                      m.req = b.req, Frontier(status', deps', m)
               PROVE  b \in deps[m]
    BY <1>4
  <2>1. b # n /\ run[b] \in Finishing /\ m # n
    BY <1>1, <1>2, <1>4 DEF CycleOK, RunsAlone
  <2> QED
    BY <1>1, <1>3, <2>1 DEF CycleOK, RunsAlone
<1>8. RunsAlone'
  BY <1>5, <1>6, <1>7 DEF RunsAlone
<1> QED
  BY <1>1, <1>3, <1>8 DEF CycleOK

\* What a node under integration goes on to, and what a run that raises leaves.
LEMMA IntegrationCarries ==
  ASSUME CycleOK, NEW n \in DOMAIN run, run[n] \in Finishing, NEW p \in Finishing \cup {"done"},
         Carries(n, p)
  PROVE  CycleOK'
<1>1. /\ DOMAIN run' = DOMAIN run /\ run'[n] = p
      /\ \A m \in DOMAIN run : m # n => run'[m] = run[m]
  BY DEF Carries, Goes
<1>2. status' = status /\ deps' = deps
  BY DEF Carries
<1>3. n.verify /\ status[n] = "SUCCEEDED" /\ p \in EngineeringNodeRun
      /\ p \notin {"acquire", "work", "verify"}
  BY DEF CycleOK, PhaseMatchesStatus, Finishing, EngineeringNodeRun
<1>4. PhaseMatchesStatus'
  BY <1>1, <1>2, <1>3 DEF CycleOK, PhaseMatchesStatus
<1>5. RunsAlone'
  BY <1>1, <1>2 DEF CycleOK, RunsAlone
<1> QED
  BY <1>2, <1>4, <1>5 DEF CycleOK

LEMMA RaisesKeeps ==
  ASSUME CycleOK, NEW n \in DOMAIN run, Raises(n)
  PROVE  CycleOK'
<1>1. DOMAIN run' \subseteq DOMAIN run /\ \A m \in DOMAIN run' : run'[m] = run[m]
  BY DEF Raises
<1>2. status' = status /\ deps' = deps
  BY DEF Raises
<1>3. PhaseMatchesStatus'
  BY <1>1, <1>2 DEF CycleOK, PhaseMatchesStatus
<1>4. RunsAlone'
  BY <1>1, <1>2 DEF CycleOK, RunsAlone
<1> QED
  BY <1>2, <1>3, <1>4 DEF CycleOK

\* A cycle begins with nodes that are ready, no two of one requirement.
LEMMA CycleStarts == ASSUME CycleOK, StartCycle PROVE CycleOK'
<1>1. status' = [n \in DOMAIN status |-> IF Ready(n) THEN "READY" ELSE status[n]] /\ deps' = deps
  BY DEF StartCycle
<1>2. DOMAIN status' = DOMAIN status
  BY <1>1
<1>3. \A n \in DOMAIN status :
        /\ (status'[n] = "SUCCEEDED") <=> (status[n] = "SUCCEEDED")
        /\ status'[n] # "PLANNED" => Reached(status, deps, n)
        /\ Ready(n) => Frontier(status, deps, n) /\ status'[n] = "READY"
  BY <1>1 DEF Ready, Frontier, Reached, CycleOK, GraphOK, StartedInOrder
<1>4. GraphOK(status', deps')
  BY <1>1, <1>2, <1>3, GraphKept DEF CycleOK
<1>5. CASE run' = run
  <2>1. DOMAIN run' = {}
    BY <1>5 DEF StartCycle, NoRun
  <2> QED
    BY <1>4, <2>1 DEF CycleOK, PhaseMatchesStatus, RunsAlone
<1>6. CASE \E T \in Selections : run' = [n \in T |-> "acquire"]
  <2>1. PICK T \in Selections : run' = [n \in T |-> "acquire"]
    BY <1>6
  <2>2. T \subseteq DOMAIN status /\ \A n \in T : Ready(n)
    BY DEF Selections, ReadyNodes
  <2>3. DOMAIN run' = T /\ \A n \in T : run'[n] = "acquire"
    BY <2>1
  <2>4. PhaseMatchesStatus'
    <3>1. \A n \in DOMAIN run' : PhaseFits(n, run'[n], status'[n]) /\ n \in DOMAIN status'
      BY <1>2, <1>3, <2>2, <2>3 DEF PhaseFits, Finishing, EngineeringNodeRun
    <3> QED
      BY <3>1 DEF PhaseFits, PhaseMatchesStatus
  <2>5. \A m, n \in DOMAIN run' : n.req # None /\ m.req = n.req => m = n
    BY <1>3, <2>2, <2>3 DEF CycleOK, GraphOK, OneFrontier
  <2>6. \A n \in DOMAIN run', m \in DOMAIN status' : n \in deps'[m] => status'[m] = "PLANNED"
    BY <1>1, <1>2, <1>3, <2>2, <2>3 DEF Frontier, Reached
  <2>7. \A n \in DOMAIN run' : run'[n] \notin Finishing
    BY <2>3 DEF Finishing
  <2> QED
    BY <1>4, <2>4, <2>5, <2>6, <2>7 DEF CycleOK, RunsAlone
<1> QED
  BY <1>5, <1>6 DEF StartCycle

\* Nothing runs: what is left to keep is the graph.
LEMMA NothingRuns ==
  ASSUME GraphOK(status, deps)', run' = NoRun
  PROVE  CycleOK'
<1>1. DOMAIN run' = {}
  BY DEF NoRun
<1> QED
  BY <1>1 DEF CycleOK, PhaseMatchesStatus, RunsAlone

LEMMA CycleStep == TypeOK /\ DeliveryInv /\ [Next]_vars => CycleOK'
<1> SUFFICES ASSUME TypeOK, DeliveryInv, [Next]_vars PROVE CycleOK'
  OBVIOUS
<1>a. CycleOK
  BY DEF DeliveryInv, CycleOK
<1>b. \A n \in DOMAIN run : IntegrationFails(n) /\ run[n] \in Finishing => CycleOK'
  BY <1>a, IntegrationRetreats
<1>c. \A n \in DOMAIN run, p \in Finishing \cup {"done"} :
        Carries(n, p) /\ run[n] \in Finishing => CycleOK'
  BY <1>a, IntegrationCarries
<1>d. Finishing = {"commit", "merge", "merged tree", "commit merge", "remove"}
  BY DEF Finishing
<1>1. CASE StartCycle
  BY <1>1, <1>a, CycleStarts
<1>2. CASE SaveCheckpoint
  <2>1. UNCHANGED <<status, deps, run>>
    BY <1>2 DEF SaveCheckpoint
  <2> QED
    BY <1>a, <2>1 DEF CycleOK, PhaseMatchesStatus, RunsAlone
<1>3. CASE Replan
  <2>1. CASE UNCHANGED <<status, deps, made>>
    <3>1. GraphOK(status, deps)'
      BY <1>a, <2>1 DEF CycleOK
    <3> QED
      BY <1>3, <3>1, NothingRuns DEF Replan
  <2>2. ASSUME NEW f, Inserts(f) PROVE CycleOK'
    <3>1. GraphOK(StatusWith(status, f), DepsWith(deps, f))
      <4>1. DOMAIN f \subseteq DOMAIN status
        BY <2>2 DEF Inserts, TypeOK
      <4> QED
        BY <1>a, <2>2, <4>1, GraphGrows DEF Inserts, CycleOK
    <3>2. GraphOK(status, deps)'
      BY <2>2, <3>1 DEF Inserts
    <3> QED
      BY <1>3, <3>2, NothingRuns DEF Replan
  <2> QED
    BY <1>3, <2>1, <2>2, ReplanInserts
<1>4. CASE Crash
  <2>1. DOMAIN status' = {} /\ DOMAIN deps' = {}
    BY <1>4 DEF Crash
  <2>2. GraphOK(status, deps)'
    BY <2>1, FS_EmptySet DEF GraphOK, GraphTyped, OneDependency, NoBranching, StartedInOrder,
                             RootDone, OneFrontier
  <2> QED
    BY <1>4, <2>2, NothingRuns DEF Crash
<1>5. CASE RecoverFromCheckpoint
  <2> DEFINE st == checkpoint.status
             st2 == [n \in DOMAIN st |-> IF st[n] \in Transient THEN "REPLAN_REQUIRED" ELSE st[n]]
  <2>1. GraphOK(st, checkpoint.deps) /\ run' = NoRun
    BY <1>5 DEF RecoverFromCheckpoint, DeliveryInv, CheckpointOK, DownIsEmpty
  <2>2. DOMAIN st2 = DOMAIN st
    OBVIOUS
  <2>3. \A n \in DOMAIN st : (st2[n] = "SUCCEEDED") <=> (st[n] = "SUCCEEDED")
    BY DEF Transient
  <2>4. \A n \in DOMAIN st : st2[n] # "PLANNED" => Reached(st, checkpoint.deps, n)
    BY <2>1 DEF Transient, GraphOK, StartedInOrder
  <2>5. status' = st2 /\ deps' = checkpoint.deps
    BY <1>5 DEF RecoverFromCheckpoint
  <2> HIDE DEF st, st2
  <2>6. GraphOK(st2, checkpoint.deps)
    BY <2>1, <2>2, <2>3, <2>4, GraphKept
  <2>7. GraphOK(status, deps)'
    BY <2>5, <2>6
  <2> QED
    BY <2>1, <2>7, NothingRuns
<1>6. ASSUME NEW n \in DOMAIN run, Acquire(n) PROVE CycleOK'
  <2>1. PhaseFits(n, "work", "COGNITIVE_WORK") /\ status[n] = "READY" /\ "work" \notin Finishing
    BY <1>6, <1>a DEF PhaseFits, Finishing, EngineeringNodeRun, Acquire, CycleOK, PhaseMatchesStatus
  <2> QED
    BY <1>6, <1>a, <2>1, WorkGoesOn DEF Acquire
<1>7. ASSUME NEW n \in DOMAIN run, AcquireFails(n) PROVE CycleOK'
  BY <1>7, <1>a, RaisesKeeps DEF AcquireFails
<1>8. ASSUME NEW n \in DOMAIN run, Edit(n) PROVE CycleOK'
  <2>1. UNCHANGED <<status, deps, run>>
    BY <1>8 DEF Edit, memory
  <2> QED
    BY <1>a, <2>1 DEF CycleOK, PhaseMatchesStatus, RunsAlone
<1>9. ASSUME NEW n \in DOMAIN run, ModelFails(n) PROVE CycleOK'
  <2>1. CASE Raises(n)
    BY <2>1, <1>a, RaisesKeeps
  <2>2. CASE ~Raises(n)
    <3>1. PhaseFits(n, "done", "REPLAN_REQUIRED") /\ status[n] = "COGNITIVE_WORK"
          /\ "done" \notin Finishing
      BY <1>9, <1>a DEF PhaseFits, Finishing, EngineeringNodeRun, ModelFails, CycleOK, PhaseMatchesStatus
    <3> QED
      BY <1>9, <1>a, <2>2, <3>1, WorkGoesOn DEF ModelFails
  <2> QED
    BY <2>1, <2>2
<1>10. ASSUME NEW n \in DOMAIN run, BeginVerification(n) PROVE CycleOK'
  <2>1. PhaseFits(n, "verify", "VERIFYING") /\ status[n] = "COGNITIVE_WORK" /\ "verify" \notin Finishing
    BY <1>10, <1>a DEF PhaseFits, Finishing, EngineeringNodeRun, BeginVerification, CycleOK,
                       PhaseMatchesStatus
  <2> QED
    BY <1>10, <1>a, <2>1, WorkGoesOn DEF BeginVerification
<1>11. ASSUME NEW n \in DOMAIN run, NEW verdict \in Verdicts, Decide(n, verdict) PROVE CycleOK'
  <2>1. status[n] = "VERIFYING" /\ deps' = deps
    BY <1>11, <1>a DEF Decide, CycleOK, PhaseMatchesStatus
  <2>2. CASE verdict = "accepted"
    <3> DEFINE p == IF n.verify THEN "commit" ELSE "done"
    <3>1. PhaseFits(n, p, "SUCCEEDED")
      BY DEF PhaseFits, Finishing, EngineeringNodeRun
    <3>2. Goes(n, p) /\ status' = [status EXCEPT ![n] = "SUCCEEDED"]
      BY <1>11, <2>2 DEF Decide
    <3> HIDE DEF p
    <3> QED
      BY <1>a, <2>1, <3>1, <3>2, WorkAccepted
  <2>3. CASE verdict # "accepted"
    <3>1. PhaseFits(n, "done", "REPLAN_REQUIRED") /\ "done" \notin Finishing
      BY DEF PhaseFits, Finishing, EngineeringNodeRun
    <3>2. Goes(n, "done") /\ status' = [status EXCEPT ![n] = "REPLAN_REQUIRED"]
      BY <1>11, <2>3 DEF Decide
    <3> QED
      BY <1>a, <2>1, <3>1, <3>2, WorkGoesOn
  <2> QED
    BY <2>2, <2>3
<1>12. ASSUME NEW n \in DOMAIN run, CommitWork(n) PROVE CycleOK'
  BY <1>12, <1>b, <1>c, <1>d DEF CommitWork
<1>13. ASSUME NEW n \in DOMAIN run, BeginMerge(n) PROVE CycleOK'
  BY <1>13, <1>b, <1>c, <1>d DEF BeginMerge, AfterMerge
<1>14. ASSUME NEW n \in DOMAIN run, VerifyMergedTree(n) PROVE CycleOK'
  BY <1>14, <1>b, <1>c, <1>d DEF VerifyMergedTree
<1>15. ASSUME NEW n \in DOMAIN run, CommitMerge(n) PROVE CycleOK'
  BY <1>15, <1>b, <1>c, <1>d DEF CommitMerge
<1>16. ASSUME NEW n \in DOMAIN run, RemoveWorktree(n) PROVE CycleOK'
  BY <1>16, <1>b, <1>c, <1>d DEF RemoveWorktree
<1>17. CASE UNCHANGED vars
  <2>1. UNCHANGED <<status, deps, run>>
    BY <1>17 DEF vars
  <2> QED
    BY <1>a, <2>1 DEF CycleOK, PhaseMatchesStatus, RunsAlone
<1> QED
  BY <1>1, <1>2, <1>3, <1>4, <1>5, <1>6, <1>7, <1>8, <1>9, <1>10, <1>11, <1>12, <1>13, <1>14,
     <1>15, <1>16, <1>17 DEF Next

-----------------------------------------------------------------------------
(* The worktrees, the branches and the base checkout, step by step.          *)

WorkOK == /\ WorktreesHaveBranches /\ BoundWorktreesExist /\ BindingsTrue(bindings)
          /\ RunsAreBound /\ MergesVerified /\ BaseVerified

\* Steps that touch none of them, and begin no work and no merge.
LEMMA WorkKept ==
  ASSUME WorkOK, UNCHANGED <<bindings, worktree, branch, base, staged, seen, accepted>>,
         \A n \in DOMAIN run' :
           \/ run'[n] \in {"acquire", "done"}
           \/ /\ n \in DOMAIN run
              /\ run'[n] = run[n] \/ (run[n] \in Working /\ run'[n] \in {"work", "verify"})
  PROVE  WorkOK'
<1>1. WorktreesHaveBranches' /\ BoundWorktreesExist' /\ BindingsTrue(bindings)' /\ BaseVerified'
  BY DEF WorkOK, WorktreesHaveBranches, BoundWorktreesExist, Bound, BindingsTrue, BaseVerified
<1>2. RunsAreBound'
  BY DEF WorkOK, RunsAreBound, Working
<1>3. Integrating' \subseteq Integrating
  BY DEF Integrating
<1>4. \A n \in DOMAIN run' : run'[n] \in Finishing => n \in DOMAIN run /\ run'[n] = run[n]
  BY DEF Finishing
<1>5. MergesVerified'
  <2>1. \A m, n \in Integrating' : m = n
    BY <1>3 DEF WorkOK, MergesVerified
  <2> QED
    BY <1>4, <2>1 DEF WorkOK, MergesVerified, MergeVerified, Merging, Finishing
<1> QED
  BY <1>1, <1>2, <1>5 DEF WorkOK

\* Histories only grow, and what was merged stays.
HistoryGrows == /\ \A r \in Reqs : seen[r] \subseteq seen'[r] /\ (base[r] # 0 => base'[r] # 0)
                /\ accepted \subseteq accepted'

LEMMA HistoryStep == TypeOK /\ DeliveryInv /\ [Next]_vars => HistoryGrows
<1> SUFFICES ASSUME TypeOK, DeliveryInv, [Next]_vars PROVE HistoryGrows
  OBVIOUS
<1>a. ASSUME UNCHANGED <<base, seen, accepted>> PROVE HistoryGrows
  BY <1>a DEF HistoryGrows
<1>1. CASE StartCycle \/ SaveCheckpoint \/ Replan \/ Crash \/ RecoverFromCheckpoint
  BY <1>1, <1>a DEF StartCycle, SaveCheckpoint, Replan, Crash, RecoverFromCheckpoint, disk
<1>2. CASE \E n \in DOMAIN run : Acquire(n) \/ AcquireFails(n) \/ Edit(n) \/ ModelFails(n)
                                   \/ BeginVerification(n)
  BY <1>2, <1>a DEF Acquire, AcquireFails, Edit, ModelFails, BeginVerification, disk
<1>3. CASE \E n \in DOMAIN run : CommitWork(n) \/ BeginMerge(n) \/ RemoveWorktree(n)
  BY <1>3, <1>a DEF CommitWork, BeginMerge, RemoveWorktree
<1>4. ASSUME NEW n \in DOMAIN run, NEW verdict \in Verdicts, Decide(n, verdict) PROVE HistoryGrows
  BY <1>4 DEF Decide, disk, HistoryGrows, TypeOK
<1>5. ASSUME NEW n \in DOMAIN run, VerifyMergedTree(n) PROVE HistoryGrows
  BY <1>5 DEF VerifyMergedTree, HistoryGrows
<1>6. ASSUME NEW n \in DOMAIN run, CommitMerge(n) PROVE HistoryGrows
  <2>1. CASE CommitStaged
    <3>1. /\ staged = [base EXCEPT ![n.req] = bindings[n.req].verified]
          /\ bindings[n.req].verified # 0
      BY <1>6, <2>1 DEF CommitMerge, CommitStaged, DeliveryInv, MergesVerified, MergeVerified, Merging
    <3>2. \A r \in Reqs : base[r] # 0 => base'[r] # 0
      BY <2>1, <3>1 DEF CommitStaged, TypeOK, Tree
    <3> QED
      BY <1>6, <3>2 DEF CommitMerge, HistoryGrows
  <2>2. CASE ~CommitStaged
    BY <1>6, <2>2, <1>a DEF CommitMerge
  <2> QED
    BY <2>1, <2>2
<1>7. CASE UNCHANGED vars
  BY <1>7, <1>a DEF vars
<1> QED
  BY <1>1, <1>2, <1>3, <1>4, <1>5, <1>6, <1>7 DEF Next

\* A node has the worktree of its requirement to itself.
LEMMA ExclusiveWorktree ==
  ASSUME TypeOK, DeliveryInv, NEW n \in DOMAIN run, NEW m \in DOMAIN run, m # n
  PROVE  /\ run[m] \in Finishing => m.verify /\ m.req \in Reqs /\ m.req # None /\ m.req # n.req
         /\ n.req # None => m.req # n.req
<1>1. n.req # None => m.req # n.req
  BY DEF DeliveryInv, RunsAlone
<1>2. run[m] \in Finishing => m.verify /\ m.req \in Reqs /\ m.req # None
  BY RunFacts DEF DeliveryInv, GraphOK, GraphTyped
<1>3. m.req # None => m.req # n.req
  BY DEF DeliveryInv, RunsAlone
<1> QED
  BY <1>1, <1>2, <1>3

\* Merges go on as they were.
LEMMA MergesKept ==
  ASSUME MergesVerified, DOMAIN run' \subseteq DOMAIN run,
         UNCHANGED <<base, staged>>, accepted \subseteq accepted',
         \A m \in DOMAIN run' : run'[m] \in Finishing =>
           /\ run'[m] = run[m] /\ seen[m.req] \subseteq seen'[m.req]
           /\ bindings'[m.req] = bindings[m.req] /\ worktree'[m.req] = worktree[m.req]
  PROVE  MergesVerified'
<1>1. Integrating' \subseteq Integrating
  BY DEF Integrating, Finishing
<1>2. ASSUME NEW m \in DOMAIN run' PROVE MergeVerified(m)'
  <2>1. MergeVerified(m)
    BY DEF MergesVerified
  <2>2. CASE run'[m] \in Finishing
    BY <2>1, <2>2 DEF MergeVerified, Merging
  <2>3. CASE run'[m] \notin Finishing
    BY <2>3 DEF MergeVerified, Merging, Finishing
  <2> QED
    BY <2>2, <2>3
<1> QED
  BY <1>1, <1>2 DEF MergesVerified

LEMMA AcquireWork ==
  ASSUME TypeOK, DeliveryInv, NEW n \in DOMAIN run, Acquire(n)
  PROVE  WorkOK'
<1>a. WorkOK /\ n.req \in Reqs \cup {None}
  BY RunFacts DEF DeliveryInv, WorkOK
<1>b. /\ DOMAIN run' = DOMAIN run /\ run'[n] = "work" /\ run[n] = "acquire"
      /\ \A m \in DOMAIN run : m # n => run'[m] = run[m]
  BY DEF Acquire, Goes
<1>c. UNCHANGED <<base, staged, seen, accepted>>
  BY DEF Acquire
<1> DEFINE b0 == [verified |-> 0, integrated |-> FALSE]
<1>d. \/ ~Unbound(n) /\ UNCHANGED <<bindings, worktree, branch>>
      \/ /\ Unbound(n) /\ n.req \in Reqs
         /\ bindings' = [bindings EXCEPT ![n.req] = b0]
         /\ branch' = [branch EXCEPT ![n.req] = 0]
         /\ worktree' = [worktree EXCEPT ![n.req] = 0]
  BY <1>a DEF Acquire, CreateTaskWorktree, Unbound
<1>1. \A r \in Reqs : r # n.req =>
        bindings'[r] = bindings[r] /\ worktree'[r] = worktree[r] /\ branch'[r] = branch[r]
  BY <1>d DEF TypeOK, Bindings
<1>2. Unbound(n) => /\ bindings'[n.req] = b0 /\ branch'[n.req] = 0
                    /\ worktree'[n.req] = 0
  BY <1>d DEF TypeOK, Bindings
<1>3. ~Unbound(n) => UNCHANGED <<bindings, worktree, branch>>
  BY <1>d
<1>4. None \notin Reqs /\ b0 # None
  <2>1. 0 \in Revision
    BY DeliveryAssumption DEF Revision
  <2>2. b0 \in RequirementWorktreeBinding
    BY <2>1 DEF RequirementWorktreeBinding
  <2> QED
    BY <2>2, DeliveryAssumption, NoneAssumption
<1>5. 0 # None
  <2>1. 0 \in Revision
    BY DeliveryAssumption DEF Revision
  <2> QED
    BY <2>1, NoneAssumption
<1>e. b0.verified = 0 /\ ~b0.integrated
  OBVIOUS
<1> HIDE DEF b0
<1>6. WorktreesHaveBranches'
  BY <1>a, <1>1, <1>2, <1>3, <1>5, <1>e DEF WorkOK, WorktreesHaveBranches
<1>7. BoundWorktreesExist'
  BY <1>a, <1>1, <1>2, <1>3, <1>5, <1>e DEF WorkOK, BoundWorktreesExist, Bound
<1>8. BindingsTrue(bindings)' /\ BaseVerified'
  BY <1>a, <1>c, <1>1, <1>2, <1>3, <1>e DEF WorkOK, BindingsTrue, BaseVerified
<1>9. \A r \in Reqs : r # None /\ bindings[r] # None => bindings'[r] # None
  BY <1>1, <1>2, <1>3, <1>4, <1>d DEF Unbound
<1>10. RunsAreBound'
  <2> SUFFICES ASSUME NEW m \in DOMAIN run, run'[m] \in Working, m.req # None
               PROVE  bindings'[m.req] # None
    BY <1>b DEF RunsAreBound
  <2>1. CASE m = n
    BY <1>2, <1>3, <1>4, <2>1 DEF Unbound
  <2>2. CASE m # n
    BY <1>a, <1>b, <1>9, <2>2, RunFacts DEF WorkOK, RunsAreBound
  <2> QED
    BY <2>1, <2>2
<1>11. \A m \in DOMAIN run : run'[m] \in Finishing =>
         /\ m # n /\ run'[m] = run[m]
         /\ bindings'[m.req] = bindings[m.req] /\ worktree'[m.req] = worktree[m.req]
  BY <1>b, <1>1, ExclusiveWorktree DEF Finishing
<1>12. MergesVerified'
  BY <1>a, <1>b, <1>c, <1>11, MergesKept DEF WorkOK
<1> QED
  BY <1>6, <1>7, <1>8, <1>10, <1>12 DEF WorkOK

LEMMA EditWork ==
  ASSUME TypeOK, DeliveryInv, NEW n \in DOMAIN run, Edit(n)
  PROVE  WorkOK'
<1>a. WorkOK
  BY DEF DeliveryInv, WorkOK
<1>b. UNCHANGED <<status, deps, run, bindings, branch, base, staged, seen, accepted>> /\ run[n] = "work"
  BY DEF Edit, memory
<1>1. CASE UNCHANGED worktree
  BY <1>a, <1>b, <1>1, WorkKept
<1>2. CASE n.req # None /\ ~UNCHANGED worktree
  <2>1. n.req \in Reqs /\ worktree[n.req] \in Revision /\ worktree[n.req] # None
        /\ branch[n.req] \in Revision /\ branch[n.req] <= worktree[n.req]
    BY <1>b, <1>2, RunFacts DEF Working, EngineeringNodeRun
  <2>2. worktree[n.req] \in Nat /\ branch[n.req] \in Nat
    BY <2>1, DeliveryAssumption DEF Revision
  <2>3. worktree' = [worktree EXCEPT ![n.req] = @ + 1] /\ worktree[n.req] < MaxEdits
    BY <1>2 DEF Edit
  <2>4. \A r \in Reqs : r # n.req => worktree'[r] = worktree[r]
    BY <2>3 DEF TypeOK
  <2>5. worktree'[n.req] = worktree[n.req] + 1
    BY <2>1, <2>3 DEF TypeOK
  <2>6. worktree'[n.req] # None
    <3>1. worktree[n.req] + 1 \in Revision
      BY <2>2, <2>3, DeliveryAssumption DEF Revision
    <3>2. worktree'[n.req] \in Revision
      BY <2>1, <2>3, <3>1 DEF TypeOK
    <3> QED
      BY <3>2, NoneAssumption
  <2>7. WorktreesHaveBranches'
    BY <1>a, <1>b, <2>1, <2>2, <2>4, <2>5 DEF WorkOK, WorktreesHaveBranches
  <2>8. BoundWorktreesExist'
    BY <1>a, <1>b, <2>4, <2>6 DEF WorkOK, BoundWorktreesExist, Bound
  <2>9. BindingsTrue(bindings)' /\ RunsAreBound' /\ BaseVerified'
    BY <1>a, <1>b DEF WorkOK, BindingsTrue, RunsAreBound, BaseVerified
  <2>10. \A m \in DOMAIN run : run[m] \in Finishing => m # n /\ worktree'[m.req] = worktree[m.req]
    BY <1>b, <2>4, ExclusiveWorktree DEF Finishing
  <2>11. MergesVerified'
    BY <1>a, <1>b, <2>10, MergesKept DEF WorkOK
  <2> QED
    BY <2>7, <2>8, <2>9, <2>11 DEF WorkOK
<1> QED
  BY <1>1, <1>2 DEF Edit

LEMMA DecideWork ==
  ASSUME TypeOK, DeliveryInv, NEW n \in DOMAIN run, NEW verdict \in Verdicts, Decide(n, verdict)
  PROVE  WorkOK'
<1>a. WorkOK
  BY DEF DeliveryInv, WorkOK
<1>b. UNCHANGED <<bindings, worktree, branch, base, staged, accepted>> /\ run[n] = "verify"
  BY DEF Decide, disk
<1> DEFINE p == IF verdict = "accepted" /\ n.verify THEN "commit" ELSE "done"
<1>c. Goes(n, p)
  BY DEF Decide
<1>d. /\ DOMAIN run' = DOMAIN run /\ run'[n] = p
      /\ \A m \in DOMAIN run : m # n => run'[m] = run[m]
  BY <1>c DEF Goes
<1>1. CASE p = "done"
  <2>1. seen' = seen
    BY <1>1 DEF Decide
  <2> QED
    BY <1>a, <1>b, <1>1, <1>d, <2>1, WorkKept
<1>2. CASE p = "commit"
  <2>1. n.verify /\ seen' = [seen EXCEPT ![n.req] = @ \cup {worktree[n.req]}]
    BY <1>2 DEF Decide
  <2>2. n.req \in Reqs /\ n.req # None
    BY <2>1, RunFacts DEF DeliveryInv, GraphOK, GraphTyped
  <2>3. \A r \in Reqs : seen[r] \subseteq seen'[r]
    BY <2>1, <2>2 DEF TypeOK
  <2>4. worktree'[n.req] \in seen'[n.req]
    BY <1>b, <2>1, <2>2 DEF TypeOK
  <2>5. WorktreesHaveBranches' /\ BoundWorktreesExist' /\ BindingsTrue(bindings)' /\ BaseVerified'
    BY <1>a, <1>b, <2>3 DEF WorkOK, WorktreesHaveBranches, BoundWorktreesExist, Bound, BindingsTrue,
                            BaseVerified
  <2>6. RunsAreBound'
    BY <1>a, <1>b, <1>d DEF WorkOK, RunsAreBound, Working, EngineeringNodeRun
  <2>7. Integrating' = Integrating
    BY <1>2, <1>b, <1>d DEF Integrating
  <2>8. ASSUME NEW m \in DOMAIN run' PROVE MergeVerified(m)'
    <3>1. CASE m = n
      BY <1>2, <1>d, <2>4, <3>1 DEF MergeVerified, Merging
    <3>2. CASE m # n
      <4>1. MergeVerified(m) /\ run'[m] = run[m]
        BY <1>a, <1>d, <3>2 DEF WorkOK, MergesVerified
      <4>2. run[m] = "commit" => m.req \in Reqs
        BY <1>d, RunFacts DEF Finishing
      <4> QED
        BY <1>b, <2>3, <4>1, <4>2 DEF MergeVerified, Merging
    <3> QED
      BY <3>1, <3>2
  <2>9. MergesVerified'
    BY <1>a, <2>7, <2>8 DEF WorkOK, MergesVerified
  <2> QED
    BY <2>5, <2>6, <2>9 DEF WorkOK
<1> QED
  BY <1>1, <1>2

LEMMA CommitWorkWork ==
  ASSUME TypeOK, DeliveryInv, NEW n \in DOMAIN run, CommitWork(n)
  PROVE  WorkOK'
<1>a. WorkOK
  BY DEF DeliveryInv, WorkOK
<1>b. UNCHANGED <<worktree, base, staged, seen, accepted>> /\ run[n] = "commit" /\ Integrating = {}
  BY DEF CommitWork
<1>c. /\ n.req \in Reqs /\ n.req # None /\ bindings[n.req] \in RequirementWorktreeBinding
      /\ bindings[n.req] # None
      /\ worktree[n.req] \in Revision /\ branch[n.req] \in Revision
      /\ branch[n.req] <= worktree[n.req] /\ worktree[n.req] \in seen[n.req]
  BY <1>a, <1>b, RunFacts DEF Finishing, Working, EngineeringNodeRun, DeliveryInv, GraphOK, GraphTyped,
                              WorkOK, MergesVerified, MergeVerified
<1>d. \A p : Goes(n, p) => /\ DOMAIN run' = DOMAIN run /\ run'[n] = p
                           /\ \A m \in DOMAIN run : m # n => run'[m] = run[m]
  BY DEF Goes
<1>1. CASE IntegrationFails(n) /\ UNCHANGED <<bindings, branch>>
  <2>1. Goes(n, "done")
    BY <1>1 DEF IntegrationFails
  <2> QED
    BY <1>a, <1>b, <1>d, <1>1, <2>1, WorkKept
<1>2. CASE ~(IntegrationFails(n) /\ UNCHANGED <<bindings, branch>>)
  <2>0. Carries(n, "merge")
    BY <1>2 DEF CommitWork
  <2>1. /\ DOMAIN run' = DOMAIN run /\ run'[n] = "merge"
        /\ \A m \in DOMAIN run : m # n => run'[m] = run[m]
    BY <1>d, <2>0 DEF Carries
  <2>2. \A m, k \in Integrating' : m = k
    <3>1. Integrating' \subseteq {n}
      BY <1>b, <2>1 DEF Integrating
    <3> QED
      BY <3>1
  <2>3. \A m \in DOMAIN run : m # n =>
          /\ ~Merging(m) /\ run[m] \notin {"merge", "remove"}
          /\ run[m] = "commit" => m.req \in Reqs /\ m.req # n.req
    BY <1>b, ExclusiveWorktree DEF Integrating, Merging, Finishing
  <2>4. CASE bindings[n.req].verified # 0 /\ UNCHANGED <<bindings, branch>>
    <3>1. WorktreesHaveBranches' /\ BoundWorktreesExist' /\ BindingsTrue(bindings)' /\ BaseVerified'
      BY <1>a, <1>b, <2>4 DEF WorkOK, WorktreesHaveBranches, BoundWorktreesExist, Bound, BindingsTrue,
                              BaseVerified
    <3>2. RunsAreBound'
      BY <1>a, <1>b, <2>1, <2>4 DEF WorkOK, RunsAreBound, Working, EngineeringNodeRun
    <3>3. ASSUME NEW m \in DOMAIN run' PROVE MergeVerified(m)'
      BY <1>a, <1>b, <2>1, <2>3, <2>4 DEF WorkOK, MergesVerified, MergeVerified, Merging
    <3> QED
      BY <2>2, <3>1, <3>2, <3>3 DEF WorkOK, MergesVerified
  <2>5. CASE /\ Commit(n.req)
             /\ bindings' = [bindings EXCEPT ![n.req].verified = worktree[n.req]]
    <3>1. /\ \A r \in Reqs : r # n.req => branch'[r] = branch[r] /\ bindings'[r] = bindings[r]
          /\ branch'[n.req] = worktree[n.req]
          /\ bindings'[n.req] = [bindings[n.req] EXCEPT !.verified = worktree[n.req]]
      BY <1>c, <2>5 DEF Commit, TypeOK, Bindings
    <3>2. worktree[n.req] \in Nat /\ worktree[n.req] # 0
      BY <1>c, <2>5, DeliveryAssumption DEF Commit, Revision
    <3>3. /\ bindings'[n.req].verified = worktree[n.req]
          /\ bindings'[n.req].integrated = bindings[n.req].integrated
          /\ bindings'[n.req] \in RequirementWorktreeBinding
      BY <1>c, <3>1 DEF RequirementWorktreeBinding
    <3>4. bindings'[n.req] # None /\ branch'[n.req] # None
      BY <1>c, <3>1, <3>3, NoneAssumption
    <3>5. WorktreesHaveBranches'
      BY <1>a, <1>b, <3>1, <3>2, <3>4 DEF WorkOK, WorktreesHaveBranches
    <3>6. BoundWorktreesExist'
      BY <1>a, <1>b, <1>c, <3>1 DEF WorkOK, BoundWorktreesExist, Bound
    <3>7. BindingsTrue(bindings)'
      BY <1>a, <1>b, <1>c, <3>1, <3>3 DEF WorkOK, BindingsTrue
    <3>8. BaseVerified'
      BY <1>a, <1>b DEF WorkOK, BaseVerified
    <3>9. RunsAreBound'
      <4> SUFFICES ASSUME NEW m \in DOMAIN run, run'[m] \in Working, m.req # None
                   PROVE  bindings'[m.req] # None
        BY <2>1 DEF RunsAreBound
      <4>1. CASE m.req = n.req
        BY <3>4, <4>1
      <4>2. CASE m.req # n.req
        <5>1. run'[m] = run[m] /\ m.req \in Reqs
          BY <2>1, <4>2, RunFacts
        <5> QED
          BY <1>a, <3>1, <4>2, <5>1 DEF WorkOK, RunsAreBound
      <4> QED
        BY <4>1, <4>2
    <3>10. ASSUME NEW m \in DOMAIN run' PROVE MergeVerified(m)'
      <4>1. CASE m = n
        BY <2>1, <3>2, <3>3, <4>1 DEF MergeVerified, Merging
      <4>2. CASE m # n
        <5>1. MergeVerified(m) /\ run'[m] = run[m]
          BY <1>a, <2>1, <4>2 DEF WorkOK, MergesVerified
        <5>2. ~Merging(m) /\ run[m] \notin {"merge", "remove"}
          BY <2>1, <2>3, <4>2
        <5> QED
          BY <1>b, <5>1, <5>2 DEF MergeVerified, Merging
      <4> QED
        BY <4>1, <4>2
    <3> QED
      BY <2>2, <3>5, <3>6, <3>7, <3>8, <3>9, <3>10 DEF WorkOK, MergesVerified
  <2> QED
    BY <1>2, <2>4, <2>5 DEF CommitWork
<1> QED
  BY <1>1, <1>2

LEMMA BeginMergeWork ==
  ASSUME TypeOK, DeliveryInv, NEW n \in DOMAIN run, BeginMerge(n)
  PROVE  WorkOK'
<1>a. WorkOK
  BY DEF DeliveryInv, WorkOK
<1>b. UNCHANGED <<bindings, worktree, branch, base, seen, accepted>> /\ run[n] = "merge"
  BY DEF BeginMerge
<1>c. \A p : Goes(n, p) => /\ DOMAIN run' = DOMAIN run /\ run'[n] = p
                           /\ \A m \in DOMAIN run : m # n => run'[m] = run[m]
  BY DEF Goes
<1>d. n \in Integrating /\ \A m \in Integrating : m = n
  BY <1>a, <1>b DEF Integrating, WorkOK, MergesVerified
<1>e. WorktreesHaveBranches' /\ BoundWorktreesExist' /\ BindingsTrue(bindings)' /\ BaseVerified'
  BY <1>a, <1>b DEF WorkOK, WorktreesHaveBranches, BoundWorktreesExist, Bound, BindingsTrue, BaseVerified
<1>f. bindings[n.req].verified # 0
  BY <1>a, <1>b DEF WorkOK, MergesVerified, MergeVerified
<1>1. ASSUME NEW p \in {"merged tree", "remove", "done"}, Goes(n, p),
             p = "remove" => bindings[n.req].integrated,
             p = "merged tree" /\ staged' # None => staged' = [base EXCEPT ![n.req] = bindings[n.req].verified]
      PROVE  WorkOK'
  <2>1. /\ DOMAIN run' = DOMAIN run /\ run'[n] = p
        /\ \A m \in DOMAIN run : m # n => run'[m] = run[m]
    BY <1>c, <1>1
  <2>2. RunsAreBound'
    BY <1>a, <1>b, <2>1 DEF WorkOK, RunsAreBound, Working, EngineeringNodeRun
  <2>3. \A m, k \in Integrating' : m = k
    <3>1. Integrating' \subseteq Integrating
      BY <1>d, <2>1 DEF Integrating
    <3> QED
      BY <1>d, <3>1
  <2>4. ASSUME NEW m \in DOMAIN run' PROVE MergeVerified(m)'
    <3>1. CASE m = n
      BY <1>b, <1>f, <1>1, <2>1, <3>1 DEF MergeVerified, Merging
    <3>2. CASE m # n
      <4>1. ~Merging(m) /\ run[m] \notin {"merge", "remove"} /\ MergeVerified(m) /\ run'[m] = run[m]
        BY <1>a, <1>d, <2>1, <3>2 DEF Merging, Integrating, WorkOK, MergesVerified
      <4> QED
        BY <1>b, <4>1 DEF MergeVerified, Merging
    <3> QED
      BY <3>1, <3>2
  <2> QED
    BY <1>e, <2>2, <2>3, <2>4 DEF WorkOK, MergesVerified
<1>2. CASE \E p \in {"merged tree", "remove"} : Carries(n, p)
  <2>1. CASE Carries(n, "remove") /\ bindings[n.req].integrated
    BY <1>1, <2>1 DEF Carries
  <2>2. CASE /\ Carries(n, "merged tree") /\ MergeNoCommit(n.req)
             /\ branch[n.req] = bindings[n.req].verified
    BY <1>1, <2>2 DEF Carries, MergeNoCommit
  <2>3. ASSUME IntegrationFails(n) PROVE WorkOK'
    BY <1>1, <2>3 DEF IntegrationFails
  <2> QED
    BY <2>1, <2>2, <2>3 DEF BeginMerge, AfterMerge
<1>3. CASE IntegrationFails(n)
  BY <1>1, <1>3 DEF IntegrationFails
<1> QED
  BY <1>2, <1>3 DEF BeginMerge, AfterMerge

LEMMA VerifyMergedTreeWork ==
  ASSUME TypeOK, DeliveryInv, NEW n \in DOMAIN run, VerifyMergedTree(n)
  PROVE  WorkOK'
<1>a. WorkOK
  BY DEF DeliveryInv, WorkOK
<1>b. UNCHANGED <<bindings, worktree, branch, base, seen>> /\ run[n] = "merged tree"
  BY DEF VerifyMergedTree
<1>c. accepted \subseteq accepted'
  BY DEF VerifyMergedTree
<1>d. n \in Integrating /\ \A m \in Integrating : m = n
  BY <1>a, <1>b DEF Integrating, WorkOK, MergesVerified
<1>e. WorktreesHaveBranches' /\ BoundWorktreesExist' /\ BindingsTrue(bindings)' /\ BaseVerified'
  BY <1>a, <1>b, <1>c DEF WorkOK, WorktreesHaveBranches, BoundWorktreesExist, Bound, BindingsTrue,
                          BaseVerified
<1>f. MergeVerified(n)
  BY <1>a DEF WorkOK, MergesVerified
<1>1. ASSUME NEW p \in {"commit merge", "done"}, Goes(n, p),
             p = "commit merge" => (staged # None => staged \in accepted') /\ staged' = staged
      PROVE  WorkOK'
  <2>1. /\ DOMAIN run' = DOMAIN run /\ run'[n] = p
        /\ \A m \in DOMAIN run : m # n => run'[m] = run[m]
    BY <1>1 DEF Goes
  <2>2. RunsAreBound'
    BY <1>a, <1>b, <2>1 DEF WorkOK, RunsAreBound, Working, EngineeringNodeRun
  <2>3. \A m, k \in Integrating' : m = k
    <3>1. Integrating' \subseteq Integrating
      BY <1>d, <2>1 DEF Integrating
    <3> QED
      BY <1>d, <3>1
  <2>4. ASSUME NEW m \in DOMAIN run' PROVE MergeVerified(m)'
    <3>1. CASE m = n
      BY <1>b, <1>f, <1>1, <2>1, <3>1 DEF MergeVerified, Merging
    <3>2. CASE m # n
      <4>1. ~Merging(m) /\ run[m] \notin {"merge", "remove"} /\ MergeVerified(m) /\ run'[m] = run[m]
        BY <1>a, <1>d, <2>1, <3>2 DEF Merging, Integrating, WorkOK, MergesVerified
      <4> QED
        BY <1>b, <4>1 DEF MergeVerified, Merging
    <3> QED
      BY <3>1, <3>2
  <2> QED
    BY <1>e, <2>2, <2>3, <2>4 DEF WorkOK, MergesVerified
<1>2. CASE accepted' = accepted \cup {CheckedOut} /\ Carries(n, "commit merge") /\ UNCHANGED staged
  <2>1. (staged # None => staged \in accepted') /\ staged' = staged
    BY <1>2 DEF CheckedOut
  <2> QED
    BY <1>1, <1>2, <2>1 DEF Carries
<1>3. CASE IntegrationFails(n)
  BY <1>1, <1>3 DEF IntegrationFails
<1> QED
  BY <1>2, <1>3 DEF VerifyMergedTree

LEMMA CommitMergeWork ==
  ASSUME TypeOK, DeliveryInv, NEW n \in DOMAIN run, CommitMerge(n)
  PROVE  WorkOK'
<1>a. WorkOK
  BY DEF DeliveryInv, WorkOK
<1>b. UNCHANGED <<worktree, branch, seen, accepted>> /\ run[n] = "commit merge"
  BY DEF CommitMerge
<1>c. \A p : Goes(n, p) => /\ DOMAIN run' = DOMAIN run /\ run'[n] = p
                           /\ \A m \in DOMAIN run : m # n => run'[m] = run[m]
  BY DEF Goes
<1>d. n \in Integrating /\ \A m \in Integrating : m = n
  BY <1>a, <1>b DEF Integrating, WorkOK, MergesVerified
<1>e. /\ n.req \in Reqs /\ n.req # None /\ bindings[n.req] \in RequirementWorktreeBinding
      /\ bindings[n.req] # None
  BY <1>b, RunFacts DEF Finishing, Working, EngineeringNodeRun, DeliveryInv, GraphOK, GraphTyped
<1>f. /\ bindings[n.req].verified # 0
      /\ staged # None => /\ staged \in accepted
                          /\ staged = [base EXCEPT ![n.req] = bindings[n.req].verified]
  BY <1>a, <1>b DEF WorkOK, MergesVerified, MergeVerified, Merging
<1>1. \A m \in DOMAIN run : m # n =>
        ~Merging(m) /\ run[m] \notin {"merge", "remove"} /\ MergeVerified(m)
  BY <1>a, <1>d DEF Merging, Integrating, WorkOK, MergesVerified
<1>g. CommitStaged => /\ base' \in accepted /\ base'[n.req] = bindings[n.req].verified
                      /\ \A r \in Reqs : r # n.req => base'[r] = base[r]
  BY <1>e, <1>f DEF CommitStaged, TypeOK, Tree
<1>h. CommitStaged \/ UNCHANGED base => BaseVerified'
  BY <1>a, <1>b, <1>e, <1>f, <1>g DEF WorkOK, BaseVerified, BindingsTrue
<1>2. CASE IntegrationFails(n) /\ UNCHANGED bindings /\ (CommitStaged \/ UNCHANGED base)
  <2>1. /\ DOMAIN run' = DOMAIN run /\ run'[n] = "done"
        /\ \A m \in DOMAIN run : m # n => run'[m] = run[m]
    BY <1>c, <1>2 DEF IntegrationFails
  <2>a. \A r \in Reqs : base[r] # 0 => base'[r] # 0
    BY <1>2, <1>f, <1>g
  <2>b. BindingsTrue(bindings)'
    BY <1>a, <1>b, <1>2, <2>a DEF WorkOK, BindingsTrue
  <2>2. WorktreesHaveBranches' /\ BoundWorktreesExist' /\ BindingsTrue(bindings)' /\ BaseVerified'
    BY <1>a, <1>b, <1>h, <1>2, <2>b DEF WorkOK, WorktreesHaveBranches, BoundWorktreesExist, Bound
  <2>3. RunsAreBound'
    BY <1>a, <1>2, <2>1 DEF WorkOK, RunsAreBound, Working, EngineeringNodeRun
  <2>4. Integrating' = {}
    BY <1>d, <2>1 DEF Integrating
  <2>5. ASSUME NEW m \in DOMAIN run' PROVE MergeVerified(m)'
    <3>1. CASE m = n
      BY <2>1, <3>1 DEF MergeVerified, Merging
    <3>2. CASE m # n
      BY <1>b, <1>1, <2>1, <3>2 DEF MergeVerified, Merging
    <3> QED
      BY <3>1, <3>2
  <2> QED
    BY <2>2, <2>3, <2>4, <2>5 DEF WorkOK, MergesVerified
<1>3. CASE /\ CommitStaged /\ Carries(n, "remove")
           /\ bindings' = [bindings EXCEPT ![n.req].integrated = TRUE]
  <2>1. /\ DOMAIN run' = DOMAIN run /\ run'[n] = "remove"
        /\ \A m \in DOMAIN run : m # n => run'[m] = run[m]
    BY <1>c, <1>3 DEF Carries
  <2>2. /\ \A r \in Reqs : r # n.req => bindings'[r] = bindings[r]
        /\ bindings'[n.req] = [bindings[n.req] EXCEPT !.integrated = TRUE]
    BY <1>3, <1>e DEF TypeOK, Bindings
  <2>3. /\ bindings'[n.req].verified = bindings[n.req].verified
        /\ bindings'[n.req].integrated
        /\ bindings'[n.req] \in RequirementWorktreeBinding
    BY <1>e, <2>2 DEF RequirementWorktreeBinding
  <2>4. bindings'[n.req] # None
    BY <2>3, NoneAssumption
  <2>5. base' \in accepted /\ base'[n.req] = bindings[n.req].verified
        /\ \A r \in Reqs : r # n.req => base'[r] = base[r]
    BY <1>3, <1>g
  <2>6. BaseVerified'
    BY <1>3, <1>h
  <2>7. BindingsTrue(bindings)'
    BY <1>a, <1>b, <1>e, <1>f, <2>2, <2>3, <2>5 DEF WorkOK, BindingsTrue
  <2>8. WorktreesHaveBranches'
    BY <1>a, <1>b DEF WorkOK, WorktreesHaveBranches
  <2>9. BoundWorktreesExist'
    BY <1>a, <1>b, <1>e, <2>2 DEF WorkOK, BoundWorktreesExist, Bound
  <2>10. RunsAreBound'
    BY <1>a, <2>1, <2>2, <2>4, RunFacts DEF WorkOK, RunsAreBound, Working, EngineeringNodeRun
  <2>11. \A m, k \in Integrating' : m = k
    <3>1. Integrating' \subseteq Integrating
      BY <1>d, <2>1 DEF Integrating
    <3> QED
      BY <1>d, <3>1
  <2>12. ASSUME NEW m \in DOMAIN run' PROVE MergeVerified(m)'
    <3>1. CASE m = n
      BY <2>1, <2>3, <3>1 DEF MergeVerified, Merging
    <3>2. CASE m # n
      BY <1>b, <1>1, <2>1, <3>2 DEF MergeVerified, Merging
    <3> QED
      BY <3>1, <3>2
  <2> QED
    BY <2>6, <2>7, <2>8, <2>9, <2>10, <2>11, <2>12 DEF WorkOK, MergesVerified
<1> QED
  BY <1>2, <1>3 DEF CommitMerge

LEMMA RemoveWorktreeWork ==
  ASSUME TypeOK, DeliveryInv, NEW n \in DOMAIN run, RemoveWorktree(n)
  PROVE  WorkOK'
<1>a. WorkOK
  BY DEF DeliveryInv, WorkOK
<1>b. UNCHANGED <<branch, base, staged, seen, accepted>> /\ run[n] = "remove"
  BY DEF RemoveWorktree
<1>c. n.req \in Reqs /\ n.req # None
  BY <1>b, RunFacts DEF Finishing, Working, EngineeringNodeRun, DeliveryInv, GraphOK, GraphTyped
<1>d. /\ DOMAIN run' = DOMAIN run /\ run'[n] = "done"
      /\ \A m \in DOMAIN run : m # n => run'[m] = run[m]
  BY DEF RemoveWorktree, Carries, IntegrationFails, Goes
<1>1. CASE UNCHANGED <<worktree, bindings>>
  BY <1>a, <1>b, <1>d, <1>1, WorkKept
<1>2. CASE /\ worktree' = [worktree EXCEPT ![n.req] = None]
           /\ bindings' = [bindings EXCEPT ![n.req] = None]
  <2>1. /\ \A r \in Reqs : r # n.req => worktree'[r] = worktree[r] /\ bindings'[r] = bindings[r]
        /\ worktree'[n.req] = None /\ bindings'[n.req] = None
    BY <1>2, <1>c DEF TypeOK, Bindings
  <2>2. WorktreesHaveBranches'
    BY <1>a, <1>b, <2>1 DEF WorkOK, WorktreesHaveBranches
  <2>3. BoundWorktreesExist'
    BY <1>a, <2>1 DEF WorkOK, BoundWorktreesExist, Bound
  <2>4. BindingsTrue(bindings)' /\ BaseVerified'
    BY <1>a, <1>b, <2>1 DEF WorkOK, BindingsTrue, BaseVerified
  <2>5. RunsAreBound'
    <3> SUFFICES ASSUME NEW m \in DOMAIN run, run'[m] \in Working, m.req # None
                 PROVE  bindings'[m.req] # None
      BY <1>d DEF RunsAreBound
    <3>1. m # n /\ run'[m] = run[m]
      BY <1>d DEF Working
    <3>2. m.req # n.req /\ m.req \in Reqs
      BY <1>c, <3>1, ExclusiveWorktree, RunFacts
    <3> QED
      BY <1>a, <2>1, <3>1, <3>2 DEF WorkOK, RunsAreBound
  <2>6. \A m \in DOMAIN run' : run'[m] \in Finishing =>
          /\ run'[m] = run[m] /\ m.req \in Reqs /\ m.req # n.req
    BY <1>d, ExclusiveWorktree DEF Finishing
  <2>7. MergesVerified'
    BY <1>a, <1>b, <1>d, <2>1, <2>6, MergesKept DEF WorkOK
  <2> QED
    BY <2>2, <2>3, <2>4, <2>5, <2>7 DEF WorkOK
<1> QED
  BY <1>1, <1>2 DEF RemoveWorktree, RemoveTree

\* A restart finds the worktrees its checkpoint binds: it would not have recovered.
LEMMA RecoverWork ==
  ASSUME TypeOK, DeliveryInv, RecoverFromCheckpoint
  PROVE  WorkOK'
<1>1. UNCHANGED <<worktree, branch, base, staged, seen, accepted>> /\ DOMAIN run' = {}
  BY DEF RecoverFromCheckpoint, DeliveryInv, DownIsEmpty, NoRun, disk
<1>2. /\ bindings' = checkpoint.bindings /\ BindingsTrue(checkpoint.bindings)
      /\ \A r \in Reqs : checkpoint.bindings[r] # None => checkpoint.worktrees[r] # None
      /\ DOMAIN checkpoint.worktrees = {r \in Reqs : checkpoint.bindings[r] # None}
      /\ checkpoint.worktrees = WorktreeFiles(DOMAIN checkpoint.worktrees)
  BY DEF RecoverFromCheckpoint, DeliveryInv, CheckpointOK, TypeOK, EngineeringMissionCheckpoint, Drifted
<1>3. \A r \in DOMAIN checkpoint.worktrees :
        checkpoint.worktrees[r] = worktree[r]
  BY <1>2 DEF WorktreeFiles
<1>4. BoundWorktreesExist'
  BY <1>1, <1>2, <1>3 DEF BoundWorktreesExist, Bound
<1>5. BindingsTrue(bindings)'
  BY <1>1, <1>2 DEF BindingsTrue
<1>6. WorktreesHaveBranches' /\ BaseVerified'
  BY <1>1 DEF DeliveryInv, WorktreesHaveBranches, BaseVerified
<1>7. RunsAreBound' /\ MergesVerified'
  BY <1>1 DEF RunsAreBound, MergesVerified, Integrating
<1> QED
  BY <1>4, <1>5, <1>6, <1>7 DEF WorkOK

LEMMA CrashWork ==
  ASSUME DeliveryInv, Crash
  PROVE  WorkOK'
<1>1. UNCHANGED <<worktree, branch, base, staged, seen, accepted>> /\ DOMAIN run' = {}
  BY DEF Crash, NoRun, disk
<1>2. \A r \in Reqs : bindings'[r] = None
  BY DEF Crash
<1>3. BoundWorktreesExist' /\ BindingsTrue(bindings)'
  BY <1>2 DEF BoundWorktreesExist, Bound, BindingsTrue
<1>4. WorktreesHaveBranches' /\ BaseVerified'
  BY <1>1 DEF DeliveryInv, WorktreesHaveBranches, BaseVerified
<1>5. RunsAreBound' /\ MergesVerified'
  BY <1>1 DEF RunsAreBound, MergesVerified, Integrating
<1> QED
  BY <1>3, <1>4, <1>5 DEF WorkOK

LEMMA WorkStep == TypeOK /\ DeliveryInv /\ [Next]_vars => WorkOK'
<1> SUFFICES ASSUME TypeOK, DeliveryInv, [Next]_vars PROVE WorkOK'
  OBVIOUS
<1>a. WorkOK
  BY DEF DeliveryInv, WorkOK
<1>1. CASE StartCycle
  <2>1. UNCHANGED <<bindings, worktree, branch, base, staged, seen, accepted>>
    BY <1>1 DEF StartCycle, disk
  <2>2. \A n \in DOMAIN run' : run'[n] = "acquire"
    BY <1>1 DEF StartCycle, NoRun
  <2> QED
    BY <1>a, <2>1, <2>2, WorkKept
<1>2. CASE SaveCheckpoint
  BY <1>a, <1>2, WorkKept DEF SaveCheckpoint
<1>3. CASE Replan
  <2>1. UNCHANGED <<bindings, worktree, branch, base, staged, seen, accepted>> /\ DOMAIN run' = {}
    BY <1>3 DEF Replan, disk, NoRun
  <2> QED
    BY <1>a, <2>1, WorkKept
<1>4. CASE Crash
  BY <1>4, CrashWork
<1>5. CASE RecoverFromCheckpoint
  BY <1>5, RecoverWork
<1>6. ASSUME NEW n \in DOMAIN run, Acquire(n) PROVE WorkOK'
  BY <1>6, AcquireWork
<1>7. ASSUME NEW n \in DOMAIN run, Raises(n), UNCHANGED <<bindings, disk, seen, accepted>> PROVE WorkOK'
  <2>1. \A m \in DOMAIN run' : m \in DOMAIN run /\ run'[m] = run[m]
    BY <1>7 DEF Raises
  <2>2. UNCHANGED <<bindings, worktree, branch, base, staged, seen, accepted>>
    BY <1>7 DEF disk
  <2> QED
    BY <1>a, <2>1, <2>2, WorkKept
<1>8. ASSUME NEW n \in DOMAIN run, Edit(n) PROVE WorkOK'
  BY <1>8, EditWork
<1>9. ASSUME NEW n \in DOMAIN run, NEW p \in {"verify", "done"}, Goes(n, p), run[n] = "work",
             UNCHANGED <<bindings, disk, seen, accepted>>
      PROVE  WorkOK'
  <2>1. /\ DOMAIN run' = DOMAIN run /\ run'[n] = p
        /\ \A m \in DOMAIN run : m # n => run'[m] = run[m]
    BY <1>9 DEF Goes
  <2>2. UNCHANGED <<bindings, worktree, branch, base, staged, seen, accepted>>
    BY <1>9 DEF disk
  <2> QED
    BY <1>a, <1>9, <2>1, <2>2, WorkKept DEF Working, EngineeringNodeRun
<1>10. ASSUME NEW n \in DOMAIN run, AcquireFails(n) PROVE WorkOK'
  BY <1>7, <1>10 DEF AcquireFails
<1>11. ASSUME NEW n \in DOMAIN run, ModelFails(n) PROVE WorkOK'
  BY <1>7, <1>9, <1>11 DEF ModelFails
<1>12. ASSUME NEW n \in DOMAIN run, BeginVerification(n) PROVE WorkOK'
  BY <1>9, <1>12 DEF BeginVerification
<1>13. CASE UNCHANGED vars
  BY <1>a, <1>13, WorkKept DEF vars
<1> QED
  BY <1>1, <1>2, <1>3, <1>4, <1>5, <1>6, <1>8, <1>10, <1>11, <1>12, <1>13, DecideWork,
     CommitWorkWork, BeginMergeWork, VerifyMergedTreeWork, CommitMergeWork, RemoveWorktreeWork DEF Next

-----------------------------------------------------------------------------
(* What is merged, what a checkpoint holds, and how many recoveries there are. *)

\* A step of one node of the cycle.
NodeStep(n) ==
  \/ Acquire(n) \/ AcquireFails(n) \/ Edit(n) \/ ModelFails(n) \/ BeginVerification(n)
  \/ \E verdict \in Verdicts : Decide(n, verdict)
  \/ CommitWork(n) \/ BeginMerge(n) \/ VerifyMergedTree(n) \/ CommitMerge(n) \/ RemoveWorktree(n)

LEMMA NextCases ==
  ASSUME [Next]_vars
  PROVE  \/ StartCycle \/ SaveCheckpoint \/ Replan \/ Crash \/ RecoverFromCheckpoint
         \/ UNCHANGED vars \/ \E n \in DOMAIN run : NodeStep(n)
BY Zenon DEF Next, NodeStep

\* A node stays accepted only when its requirement is merged or on its way there.
StaysVerified(m) ==
  m.verify /\ status'[m] = "SUCCEEDED" =>
    \/ status[m] = "SUCCEEDED" /\ (m \in Ending => m \in Ending' \/ base'[m.req] # 0)
    \/ m \in Ending'

NodeShape(n) ==
  /\ DOMAIN status' = DOMAIN status /\ UNCHANGED <<deps, made, checkpoint>>
  /\ agency' \in {agency, "raised"}
  /\ \A m \in DOMAIN status : m # n => status'[m] = status[m]
  /\ \A m \in DOMAIN status : StaysVerified(m)
  /\ run[n] # "done"

LEMMA NodeKeeps ==
  ASSUME TypeOK, DeliveryInv, NEW n \in DOMAIN run, NodeStep(n)
  PROVE  NodeShape(n)
<1>a. n \in DOMAIN status /\ PhaseMatchesStatus
  BY DEF DeliveryInv, PhaseMatchesStatus
<1>b. \A m : m \in Ending <=> m \in DOMAIN run /\ run[m] \in {"commit", "merge", "merged tree", "commit merge"}
  BY DEF Ending, Finishing
<1>c. \A m : m \in Ending' <=> m \in DOMAIN run' /\ run'[m] \in {"commit", "merge", "merged tree", "commit merge"}
  BY DEF Ending, Finishing
<1>d. ASSUME NEW p, Goes(n, p)
      PROVE  /\ DOMAIN run' = DOMAIN run /\ run'[n] = p
             /\ \A m \in DOMAIN run : m # n => run'[m] = run[m]
  BY <1>d DEF Goes
<1>e. ASSUME NEW s, status' = [status EXCEPT ![n] = s]
      PROVE  /\ DOMAIN status' = DOMAIN status /\ status'[n] = s
             /\ \A m \in DOMAIN status : m # n => status'[m] = status[m]
  BY <1>a, <1>e
<1>1. ASSUME Raises(n), run[n] \in {"acquire", "work"}, checkpoint' = checkpoint PROVE NodeShape(n)
  <2>1. \A m \in DOMAIN run : m # n => m \in DOMAIN run' /\ run'[m] = run[m]
    BY <1>1 DEF Raises
  <2>2. \A m \in DOMAIN status : StaysVerified(m)
    BY <1>1, <1>b, <1>c, <2>1 DEF Raises, StaysVerified
  <2> QED
    BY <1>1, <2>2 DEF Raises, NodeShape
<1>2. ASSUME NEW p, Goes(n, p), NEW s, s # "SUCCEEDED", status' = [status EXCEPT ![n] = s],
             UNCHANGED <<deps, made, agency, checkpoint>>, run[n] # "done"
      PROVE  NodeShape(n)
  <2>1. \A m \in DOMAIN status : StaysVerified(m)
    BY <1>2, <1>b, <1>c, <1>d, <1>e DEF StaysVerified
  <2> QED
    BY <1>2, <1>e, <2>1 DEF NodeShape
<1>3. ASSUME NEW p, Carries(n, p), checkpoint' = checkpoint, run[n] # "done",
             n \in Ending /\ p \notin {"merge", "merged tree", "commit merge"} => base'[n.req] # 0
      PROVE  NodeShape(n)
  <2>1. /\ DOMAIN run' = DOMAIN run /\ run'[n] = p
        /\ \A m \in DOMAIN run : m # n => run'[m] = run[m]
    BY <1>3, <1>d DEF Carries
  <2>2. \A m \in DOMAIN status : StaysVerified(m)
    BY <1>3, <1>b, <1>c, <2>1 DEF Carries, StaysVerified
  <2> QED
    BY <1>3, <2>2 DEF Carries, NodeShape
<1>4. ASSUME IntegrationFails(n), run[n] # "done", checkpoint' = checkpoint PROVE NodeShape(n)
  BY <1>2, <1>4 DEF IntegrationFails
<1>5. CASE Acquire(n)
  BY <1>2, <1>5 DEF Acquire
<1>6. CASE AcquireFails(n)
  BY <1>1, <1>6 DEF AcquireFails, disk
<1>7. CASE Edit(n)
  BY <1>7, <1>b, <1>c DEF Edit, memory, NodeShape, StaysVerified
<1>8. CASE ModelFails(n)
  BY <1>1, <1>2, <1>8 DEF ModelFails, disk
<1>9. CASE BeginVerification(n)
  BY <1>2, <1>9 DEF BeginVerification, disk
<1>10. ASSUME NEW verdict \in Verdicts, Decide(n, verdict) PROVE NodeShape(n)
  <2>1. CASE verdict = "accepted"
    <3> DEFINE p == IF n.verify THEN "commit" ELSE "done"
    <3>1. Goes(n, p) /\ status' = [status EXCEPT ![n] = "SUCCEEDED"]
          /\ UNCHANGED <<deps, agency, made, checkpoint>> /\ run[n] = "verify"
      BY <1>10, <2>1 DEF Decide, disk
    <3>2. \A m \in DOMAIN status : StaysVerified(m)
      BY <1>b, <1>c, <1>d, <1>e, <3>1 DEF StaysVerified
    <3> QED
      BY <1>e, <3>1, <3>2 DEF NodeShape
  <2>2. CASE verdict # "accepted"
    BY <1>2, <1>10, <2>2 DEF Decide, disk
  <2> QED
    BY <2>1, <2>2
<1>11. CASE CommitWork(n)
  BY <1>3, <1>4, <1>11 DEF CommitWork
<1>12. CASE BeginMerge(n)
  <2>1. bindings[n.req].integrated => base'[n.req] # 0
    <3>1. n.req \in Reqs /\ bindings[n.req] # None /\ base' = base
      BY <1>12, RunFacts DEF BeginMerge, Finishing, Working, EngineeringNodeRun, DeliveryInv,
                             GraphOK, GraphTyped
    <3> QED
      BY <3>1 DEF DeliveryInv, BindingsTrue
  <2> QED
    BY <1>3, <1>4, <1>12, <2>1 DEF BeginMerge, AfterMerge
<1>13. CASE VerifyMergedTree(n)
  BY <1>3, <1>4, <1>13 DEF VerifyMergedTree
<1>14. CASE CommitMerge(n)
  <2>1. CommitStaged => base'[n.req] # 0
    <3>1. /\ n.req \in Reqs /\ bindings[n.req].verified # 0
          /\ staged # None => staged = [base EXCEPT ![n.req] = bindings[n.req].verified]
      BY <1>14, RunFacts DEF CommitMerge, Finishing, DeliveryInv, MergesVerified, MergeVerified, Merging
    <3> QED
      BY <3>1 DEF CommitStaged, TypeOK, Tree
  <2> QED
    BY <1>3, <1>4, <1>14, <2>1 DEF CommitMerge
<1>15. CASE RemoveWorktree(n)
  <2>1. n \notin Ending
    BY <1>15, <1>b DEF RemoveWorktree
  <2> QED
    BY <1>3, <1>4, <1>15, <2>1 DEF RemoveWorktree
<1> QED
  BY <1>5, <1>6, <1>7, <1>8, <1>9, <1>10, <1>11, <1>12, <1>13, <1>14, <1>15 DEF NodeStep

LEMMA VerifiedStep == TypeOK /\ DeliveryInv /\ [Next]_vars => VerifiedAreMerged(status, Ending)'
<1> SUFFICES ASSUME TypeOK, DeliveryInv, [Next]_vars, NEW r \in Reqs, NEW v,
                    v = Task("verify", r), v \in DOMAIN status', status'[v] = "SUCCEEDED",
                    v \notin Ending'
             PROVE  base'[r] # 0
  BY DEF VerifiedAreMerged
<1>a. base[r] # 0 => base'[r] # 0
  BY HistoryStep DEF HistoryGrows
<1>b. v \in DOMAIN status /\ status[v] = "SUCCEEDED" => base[r] # 0 \/ v \in Ending
  BY DEF DeliveryInv, VerifiedAreMerged
<1>c. v.verify /\ v.req = r /\ v.kind # "recovery"
  BY DEF Task
<1>d. (\A n \in DOMAIN run : run[n] = "done") => Ending = {}
  BY DEF Ending, Finishing
<1>1. CASE StartCycle
  <2>1. status[v] = "SUCCEEDED" /\ v \in DOMAIN status
    BY <1>1 DEF StartCycle
  <2>2. Ending = {}
    BY <1>1 DEF StartCycle, NoRun, Ending
  <2> QED
    BY <1>a, <1>b, <2>1, <2>2
<1>2. CASE SaveCheckpoint \/ UNCHANGED vars
  <2>1. UNCHANGED <<status, run>>
    BY <1>2 DEF SaveCheckpoint, vars
  <2>2. Ending' = Ending
    BY <2>1 DEF Ending
  <2> QED
    BY <1>a, <1>b, <2>1, <2>2
<1>3. CASE Replan
  <2>1. Ending = {}
    BY <1>3, <1>d DEF Replan, DeliveryInv, CycleEnded
  <2>2. CASE UNCHANGED <<status, deps, made>>
    BY <1>a, <1>b, <2>1, <2>2
  <2>3. ASSUME NEW f, Inserts(f) PROVE status[v] = "SUCCEEDED" /\ v \in DOMAIN status
    BY <2>3 DEF Inserts, StatusWith
  <2> QED
    BY <1>3, <1>a, <1>b, <2>1, <2>2, <2>3, ReplanInserts
<1>4. CASE Crash
  BY <1>4 DEF Crash
<1>5. CASE RecoverFromCheckpoint
  <2>1. checkpoint.status[v] = "SUCCEEDED" /\ v \in DOMAIN checkpoint.status /\ checkpoint # None
    BY <1>5 DEF RecoverFromCheckpoint
  <2>2. base[r] # 0
    BY <2>1 DEF DeliveryInv, CheckpointOK, VerifiedAreMerged
  <2> QED
    BY <1>a, <2>2
<1>6. ASSUME NEW n \in DOMAIN run, NodeStep(n) PROVE base'[r] # 0
  <2>1. NodeShape(n)
    BY <1>6, NodeKeeps
  <2> QED
    BY <1>a, <1>b, <1>c, <2>1 DEF NodeShape, StaysVerified
<1> QED
  BY <1>1, <1>2, <1>3, <1>4, <1>5, <1>6, NextCases

LEMMA IntegrationStep == TypeOK /\ DeliveryInv /\ [Next]_vars => IntegrationWaits(status, deps)'
<1> SUFFICES ASSUME TypeOK, DeliveryInv, [Next]_vars, ~AllMerged'
             PROVE  IntegrationWaits(status, deps)'
  BY DEF IntegrationWaits
<1> DEFINE verified == {Task("verify", r) : r \in Reqs}
<1>a. ~AllMerged
  BY HistoryStep DEF HistoryGrows, AllMerged
<1>b. Integration \in DOMAIN status => status[Integration] = "PLANNED" /\ deps[Integration] = verified
  BY <1>a DEF DeliveryInv, IntegrationWaits
<1>c. Integration.kind = "integration"
  BY DEF Integration, Task
<1>d. (Integration \in DOMAIN status' => status'[Integration] = "PLANNED" /\ deps'[Integration] = verified)
        => IntegrationWaits(status, deps)'
  BY DEF IntegrationWaits
<1>1. CASE StartCycle
  <2>1. DOMAIN status' = DOMAIN status /\ deps' = deps
    BY <1>1 DEF StartCycle
  <2>2. ASSUME Integration \in DOMAIN status PROVE ~Ready(Integration)
    <3> SUFFICES ASSUME Ready(Integration) PROVE AllMerged
      BY <1>a
    <3>1. \A r \in Reqs : Task("verify", r) \in deps[Integration]
      BY <1>b, <2>2
    <3>2. deps[Integration] \subseteq DOMAIN status
      BY <2>2 DEF DeliveryInv, GraphOK, GraphTyped
    <3>3. \A d \in deps[Integration] : status[d] = "SUCCEEDED"
      BY <1>b, <2>2 DEF Ready
    <3>4. Ending = {}
      BY <1>1 DEF StartCycle, NoRun, Ending
    <3> QED
      BY <3>1, <3>2, <3>3, <3>4 DEF DeliveryInv, VerifiedAreMerged, AllMerged
  <2>3. Integration \in DOMAIN status => status'[Integration] = "PLANNED"
    BY <1>1, <1>b, <2>2 DEF StartCycle
  <2> HIDE DEF verified
  <2> QED
    BY <1>b, <1>d, <2>1, <2>3
<1>2. CASE UNCHANGED <<status, deps>>
  BY <1>b, <1>d, <1>2
<1>3. ASSUME NEW f, Inserts(f) PROVE IntegrationWaits(status, deps)'
  <2>1. Integration \notin Inserted(f)
    BY <1>c DEF Inserted, RecoveryOf
  <2>2. Integration \in DOMAIN status => Integration \notin DOMAIN f
    BY <1>3, <1>b DEF Inserts
  <2>3. DOMAIN f \subseteq DOMAIN status /\ DOMAIN deps = DOMAIN status
    BY <1>3 DEF Inserts, TypeOK, DeliveryInv, GraphOK, GraphTyped
  <2>4. Integration \in DOMAIN status' =>
          /\ Integration \in DOMAIN status
          /\ status'[Integration] = status[Integration] /\ deps'[Integration] = deps[Integration]
    BY <1>3, <2>1, <2>2, <2>3 DEF Inserts, StatusWith, DepsWith
  <2> HIDE DEF verified
  <2> QED
    BY <1>b, <1>d, <2>4
<1>4. CASE Crash
  BY <1>4, <1>d DEF Crash
<1>5. CASE RecoverFromCheckpoint
  <2>1. checkpoint # None /\ deps' = checkpoint.deps
        /\ status' = [n \in DOMAIN checkpoint.status |->
                        IF checkpoint.status[n] \in Transient THEN "REPLAN_REQUIRED" ELSE checkpoint.status[n]]
    BY <1>5 DEF RecoverFromCheckpoint
  <2>2. Integration \in DOMAIN checkpoint.status =>
          checkpoint.status[Integration] = "PLANNED" /\ checkpoint.deps[Integration] = verified
    BY <1>a, <2>1 DEF DeliveryInv, CheckpointOK, IntegrationWaits
  <2>3. "PLANNED" \notin Transient
    BY DEF Transient
  <2> HIDE DEF verified
  <2> QED
    BY <1>d, <2>1, <2>2, <2>3
<1>6. ASSUME NEW n \in DOMAIN run, NodeStep(n) PROVE IntegrationWaits(status, deps)'
  <2>1. NodeShape(n)
    BY <1>6, NodeKeeps
  <2>2. status[n] # "PLANNED" \/ run[n] \notin EngineeringNodeRun
    BY DEF DeliveryInv, PhaseMatchesStatus, Finishing, EngineeringNodeRun
  <2>3. run[n] \in EngineeringNodeRun
    BY DEF DeliveryInv, PhaseMatchesStatus
  <2> HIDE DEF verified
  <2> QED
    BY <1>b, <1>d, <2>1, <2>2, <2>3 DEF NodeShape
<1> QED
  BY <1>1, <1>2, <1>3, <1>4, <1>5, <1>6, NextCases, ReplanInserts DEF SaveCheckpoint, vars

LEMMA CheckpointStep == TypeOK /\ DeliveryInv /\ [Next]_vars => CheckpointOK'
<1> SUFFICES ASSUME TypeOK, DeliveryInv, [Next]_vars PROVE CheckpointOK'
  OBVIOUS
<1>a. HistoryGrows
  BY HistoryStep
<1>1. CASE SaveCheckpoint
  <2>1. checkpoint' = [status |-> status, deps |-> deps, bindings |-> bindings,
                       base |-> BaseFiles, worktrees |-> WorktreeFiles(Bound)]
        /\ UNCHANGED <<base, seen>> /\ \A n \in DOMAIN run : run[n] = "done"
    BY <1>1 DEF SaveCheckpoint
  <2>2. /\ checkpoint'.status = status /\ checkpoint'.deps = deps /\ checkpoint'.bindings = bindings
        /\ checkpoint'.worktrees = WorktreeFiles(Bound)
    BY <2>1
  <2>3. GraphOK(checkpoint'.status, checkpoint'.deps)
    BY <2>2 DEF DeliveryInv
  <2>4. BindingsTrue(checkpoint.bindings)'
    BY <2>1, <2>2 DEF DeliveryInv, BindingsTrue
  <2>5. \A r \in Reqs : checkpoint'.bindings[r] # None => checkpoint'.worktrees[r] # None
    <3> SUFFICES ASSUME NEW r \in Reqs, bindings[r] # None PROVE WorktreeFiles(Bound)[r] # None
      BY <2>2
    <3>1. r \in Bound /\ worktree[r] # None
      BY DEF Bound, DeliveryInv, BoundWorktreesExist
    <3>2. worktree[r] \in Revision
      BY <3>1 DEF TypeOK
    <3> QED
      BY <3>1, <3>2, NoneAssumption DEF WorktreeFiles
  <2>6. Ending = {}
    BY <2>1 DEF Ending, Finishing
  <2>7. VerifiedAreMerged(checkpoint.status, {})'
    BY <2>1, <2>2, <2>6 DEF DeliveryInv, VerifiedAreMerged
  <2>8. IntegrationWaits(checkpoint.status, checkpoint.deps)'
    BY <2>1, <2>2 DEF DeliveryInv, IntegrationWaits, AllMerged
  <2> QED
    BY <2>3, <2>4, <2>5, <2>7, <2>8 DEF CheckpointOK
<1>2. CASE checkpoint' = checkpoint
  <2> SUFFICES ASSUME checkpoint # None PROVE CheckpointOK'
    BY <1>2 DEF CheckpointOK
  <2>1. BindingsTrue(checkpoint.bindings)'
    BY <1>2, <1>a DEF DeliveryInv, CheckpointOK, BindingsTrue, HistoryGrows
  <2>2. VerifiedAreMerged(checkpoint.status, {})'
    BY <1>2, <1>a DEF DeliveryInv, CheckpointOK, VerifiedAreMerged, HistoryGrows
  <2>3. IntegrationWaits(checkpoint.status, checkpoint.deps)'
    BY <1>2, <1>a DEF DeliveryInv, CheckpointOK, IntegrationWaits, AllMerged, HistoryGrows
  <2> QED
    BY <1>2, <2>1, <2>2, <2>3 DEF DeliveryInv, CheckpointOK
<1>3. ASSUME NEW n \in DOMAIN run, NodeStep(n) PROVE checkpoint' = checkpoint
  BY <1>3, NodeKeeps DEF NodeShape
<1> QED
  BY <1>1, <1>2, <1>3, NextCases DEF StartCycle, Replan, Crash, RecoverFromCheckpoint, vars, disk

LEMMA RestStep == TypeOK /\ DeliveryInv /\ [Next]_vars => (CycleEnded /\ DownIsEmpty /\ RecoveriesCounted)'
<1> SUFFICES ASSUME TypeOK, DeliveryInv, [Next]_vars
             PROVE  (CycleEnded /\ DownIsEmpty /\ RecoveriesCounted)'
  OBVIOUS
<1>a. CycleEnded /\ DownIsEmpty /\ RecoveriesCounted
  BY DEF DeliveryInv
<1>b. IsFiniteSet(DOMAIN status') /\ IsFiniteSet(DOMAIN status)
  BY CycleStep DEF CycleOK, DeliveryInv, GraphOK, GraphTyped
<1>c. IsFiniteSet(Recoveries') /\ IsFiniteSet(Recoveries)
  BY <1>b, FS_Subset DEF Recoveries
<1>d. Cardinality(Recoveries') \in Nat /\ Cardinality(Recoveries) \in Nat
  BY <1>c, FS_CardinalityType
<1>e. DOMAIN status' = DOMAIN status /\ made' = made => RecoveriesCounted'
  BY <1>a DEF RecoveriesCounted, Recoveries
<1>f. made' = 0 => RecoveriesCounted'
  BY <1>d DEF RecoveriesCounted
<1>1. CASE StartCycle
  BY <1>1, <1>e DEF StartCycle, CycleEnded, DownIsEmpty
<1>2. CASE SaveCheckpoint
  BY <1>2, <1>e DEF SaveCheckpoint, CycleEnded, DownIsEmpty
<1>3. CASE Replan
  <2>1. agency' \in {"running", "stopped", "raised"}
    BY <1>3 DEF Replan
  <2>2. ASSUME NEW f, Inserts(f) PROVE RecoveriesCounted'
    <3>1. DOMAIN f \subseteq DOMAIN status
      BY <2>2 DEF Inserts, TypeOK
    <3>2. IsFiniteSet(Inserted(f)) /\ Cardinality(Inserted(f)) = Cardinality(DOMAIN f)
      BY <2>2, <3>1, GraphGrows DEF Inserts, DeliveryInv
    <3>3. Recoveries' = Recoveries \cup Inserted(f)
      <4>1. DOMAIN status' = DOMAIN status \cup Inserted(f)
        BY <2>2 DEF Inserts, StatusWith
      <4>2. \A n \in Inserted(f) : n.kind = "recovery"
        BY DEF Inserted, RecoveryOf
      <4> QED
        BY <4>1, <4>2 DEF Recoveries
    <3>4. Recoveries \cap Inserted(f) = {}
      BY <2>2 DEF Inserts, Recoveries
    <3>5. Cardinality(Recoveries') = Cardinality(Recoveries) + Cardinality(DOMAIN f)
      <4>1. Cardinality(Recoveries \cup Inserted(f))
              = Cardinality(Recoveries) + Cardinality(Inserted(f)) - Cardinality(Recoveries \cap Inserted(f))
        BY <1>c, <3>2, FS_Union
      <4>2. Cardinality(Recoveries \cap Inserted(f)) = 0
        BY <3>4, FS_EmptySet
      <4>3. Cardinality(Inserted(f)) \in Nat
        BY <3>2, FS_CardinalityType
      <4> QED
        BY <1>d, <3>2, <3>3, <4>1, <4>2, <4>3
    <3>6. made' = made + Cardinality(DOMAIN f) /\ made \in Nat /\ Cardinality(DOMAIN f) \in Nat
      BY <2>2, FS_CardinalityType DEF Inserts, TypeOK
    <3> QED
      BY <1>a, <1>d, <3>5, <3>6 DEF RecoveriesCounted
  <2>3. RecoveriesCounted'
    BY <1>3, <1>e, <2>2, ReplanInserts
  <2> QED
    BY <2>1, <2>3 DEF CycleEnded, DownIsEmpty
<1>4. CASE Crash
  BY <1>4, <1>f DEF Crash, CycleEnded, DownIsEmpty
<1>5. CASE RecoverFromCheckpoint
  <2>1. made' = 0 /\ agency' = "running"
    BY <1>5, <1>a DEF RecoverFromCheckpoint, DownIsEmpty
  <2> QED
    BY <1>f, <2>1 DEF CycleEnded, DownIsEmpty
<1>6. ASSUME NEW n \in DOMAIN run, NodeStep(n)
      PROVE  (CycleEnded /\ DownIsEmpty /\ RecoveriesCounted)'
  <2>1. NodeShape(n)
    BY <1>6, NodeKeeps
  <2>2. agency \notin {"replanning", "down"}
    BY <1>a, <2>1 DEF NodeShape, CycleEnded, DownIsEmpty, NoRun
  <2> QED
    BY <1>e, <2>1, <2>2 DEF NodeShape, CycleEnded, DownIsEmpty
<1>7. CASE UNCHANGED vars
  BY <1>7, <1>a, <1>e DEF vars, CycleEnded, DownIsEmpty
<1> QED
  BY <1>1, <1>2, <1>3, <1>4, <1>5, <1>6, <1>7, NextCases

LEMMA DeliveryStep == TypeOK /\ DeliveryInv /\ [Next]_vars => TypeOK' /\ DeliveryInv'
<1> SUFFICES ASSUME TypeOK, DeliveryInv, [Next]_vars PROVE TypeOK' /\ DeliveryInv'
  OBVIOUS
<1>1. TypeOK' /\ CycleOK' /\ WorkOK'
  BY DeliveryTypeStep, CycleStep, WorkStep
<1>2. /\ VerifiedAreMerged(status, Ending)' /\ IntegrationWaits(status, deps)' /\ CheckpointOK'
      /\ (CycleEnded /\ DownIsEmpty /\ RecoveriesCounted)'
  BY VerifiedStep, IntegrationStep, CheckpointStep, RestStep
<1> QED
  BY <1>1, <1>2 DEF DeliveryInv, CycleOK, WorkOK

-----------------------------------------------------------------------------
(* What the delivery guarantees.                                             *)

\* Whatever fails or restarts, the task graph, the cycle, the worktrees and the
\* checkpoint fit together (agency.py, worktrees.py, checkpointing.py).
THEOREM DeliveryInvariant == Spec => []TypeOK /\ []DeliveryInv
<1>1. Init => TypeOK /\ DeliveryInv
  BY DeliveryInit
<1>2. TypeOK /\ DeliveryInv /\ [Next]_vars => (TypeOK /\ DeliveryInv)'
  BY DeliveryStep
<1> QED
  BY <1>1, <1>2, PTL DEF Spec

LEMMA IntegrationIsLast == DeliveryInv => IntegrationSeesAll
<1> SUFFICES ASSUME DeliveryInv, IntegrationReached PROVE AllMerged
  BY DEF IntegrationSeesAll, AllMerged
<1>1. CASE Integration \in DOMAIN run
  <2>1. Integration \in DOMAIN status /\ status[Integration] # "PLANNED"
    BY <1>1 DEF DeliveryInv, PhaseMatchesStatus, Finishing, EngineeringNodeRun
  <2> QED
    BY <2>1 DEF DeliveryInv, IntegrationWaits
<1>2. CASE Integration \in DOMAIN status /\ status[Integration] = "SUCCEEDED"
  BY <1>2 DEF DeliveryInv, IntegrationWaits
<1> QED
  BY <1>1, <1>2 DEF IntegrationReached

\* Every tree that the base checkout is committed at passed the verification of the
\* merged tree, and holds only revisions that their own verification passed
\* (merge_coordinator.py), for every set of requirements and every bound.
THEOREM MergedIsVerified == Spec => []BaseVerified
<1>1. DeliveryInv => BaseVerified
  BY DEF DeliveryInv
<1> QED
  BY <1>1, DeliveryInvariant, PTL

\* The integration node runs only after every requirement is in the base checkout
\* (planning.py, agency.py).
THEOREM IntegrationAfterAll == Spec => []IntegrationSeesAll
  BY IntegrationIsLast, DeliveryInvariant, PTL

\* A bound worktree is on disk (worktrees.py, checkpointing.py).
THEOREM WorktreesOfBindings == Spec => []BoundWorktreesExist
<1>1. DeliveryInv => BoundWorktreesExist
  BY DEF DeliveryInv
<1> QED
  BY <1>1, DeliveryInvariant, PTL

-----------------------------------------------------------------------------
(* Managed services. A record only names services that were launched, and     *)
(* what is gone stays gone: its service id is never given to another process. *)

ServicesKnown == \A rs \in {records, registry}, n \in Services :
                   rs[n] # None => rs[n].service_id \in DOMAIN process
ServicesInv == S!TypeOK /\ ServicesKnown /\ StoppedIsGone

\* What a step may write to the records: a service that was launched, and stopped only
\* when it is gone.
Recordable(rs) ==
  /\ rs \in [Services -> S!ServiceRecord \cup {None}]
  /\ \A n \in Services : rs[n] # None =>
       /\ rs[n].service_id \in DOMAIN process'
       /\ rs[n].state = "stopped" => process'[rs[n].service_id] # "alive"

LEMMA StateWritten ==
  ASSUME ServicesInv, NEW n \in Services, records[n] # None, NEW st \in S!ServiceState,
         DOMAIN process' = DOMAIN process,
         \A i \in DOMAIN process : process'[i] = "alive" => process[i] = "alive",
         st = "stopped" => process'[records[n].service_id] # "alive"
  PROVE  Recordable(S!WithState(n, st))
<1>1. records[n] \in S!ServiceRecord /\ records \in [Services -> S!ServiceRecord \cup {None}]
  BY DEF ServicesInv, S!TypeOK
<1>2. /\ S!WithState(n, st)[n] = [records[n] EXCEPT !.state = st]
      /\ \A m \in Services : m # n => S!WithState(n, st)[m] = records[m]
  BY <1>1 DEF S!WithState
<1>3. [records[n] EXCEPT !.state = st] \in S!ServiceRecord
      /\ [records[n] EXCEPT !.state = st].service_id = records[n].service_id
      /\ [records[n] EXCEPT !.state = st].state = st
  BY <1>1 DEF S!ServiceRecord
<1>4. S!WithState(n, st) \in [Services -> S!ServiceRecord \cup {None}]
  BY <1>1, <1>3 DEF S!WithState
<1>5. \A m \in Services : records[m] # None =>
        /\ records[m].service_id \in DOMAIN process
        /\ records[m].state = "stopped" => process[records[m].service_id] # "alive"
  BY DEF ServicesInv, ServicesKnown, StoppedIsGone, S!StoppedIsGone, S!Alive
<1>6. ASSUME NEW m \in Services, S!WithState(n, st)[m] # None
      PROVE  /\ S!WithState(n, st)[m].service_id \in DOMAIN process'
             /\ S!WithState(n, st)[m].state = "stopped"
                  => process'[S!WithState(n, st)[m].service_id] # "alive"
  <2>1. CASE m = n
    BY <1>2, <1>3, <1>5, <2>1
  <2>2. CASE m # n
    BY <1>2, <1>5, <1>6, <2>2
  <2> QED
    BY <2>1, <2>2
<1> QED
  BY <1>4, <1>6 DEF Recordable

\* The cardinality of the instance is the cardinality.
LEMMA SameCardinality == \A T : S!Cardinality(T) = Cardinality(T)
BY DEF S!Cardinality, Cardinality

LEMMA ServicesStep == ServicesInv /\ [S!Next]_(S!vars) => ServicesInv'
<1> SUFFICES ASSUME ServicesInv, [S!Next]_(S!vars) PROVE ServicesInv'
  OBVIOUS
<1> USE BoundsAssumption
<1>a. PICK k \in 0 .. MaxStarts : process \in [1 .. k -> {"alive", "gone"}]
  BY DEF ServicesInv, S!TypeOK
<1>b. \A n \in Services : /\ records[n] # None =>
                               /\ records[n] \in S!ServiceRecord /\ records[n].service_id \in DOMAIN process
                               /\ records[n].state = "stopped" => process[records[n].service_id] # "alive"
                          /\ registry[n] # None =>
                               /\ registry[n] \in S!ServiceRecord /\ registry[n].service_id \in DOMAIN process
                               /\ registry[n].state = "stopped" => process[registry[n].service_id] # "alive"
  BY DEF ServicesInv, S!TypeOK, ServicesKnown, StoppedIsGone, S!StoppedIsGone, S!Alive
<1> DEFINE Typed == /\ \E i \in 0 .. MaxStarts : process' \in [1 .. i -> {"alive", "gone"}]
                    /\ owned' \subseteq DOMAIN process'
                    /\ starting' \in {None} \cup [name : Services, service_id : DOMAIN process']
                    /\ restarts' \in 0 .. MaxRestarts
           Gone == /\ DOMAIN process \subseteq DOMAIN process'
                   /\ \A i \in DOMAIN process : process'[i] = "alive" => process[i] = "alive"
<1>c. ASSUME Typed, Recordable(records'), Recordable(registry') PROVE ServicesInv'
  <2>1. S!TypeOK'
    BY <1>c DEF S!TypeOK, Recordable
  <2>2. ServicesKnown' /\ StoppedIsGone'
    BY <1>c DEF Recordable, ServicesKnown, StoppedIsGone, S!StoppedIsGone, S!Alive
  <2> QED
    BY <2>1, <2>2 DEF ServicesInv
<1>d. Gone => Recordable(records) /\ Recordable(registry)
  BY <1>b DEF Recordable, ServicesInv, S!TypeOK
<1>e. UNCHANGED process => Gone
  OBVIOUS
<1>f. \A rs : S!Persist(rs) => records' = rs /\ (registry' = rs \/ registry' = registry)
  BY DEF S!Persist
<1>g. \A id \in DOMAIN process : process' = S!Killed(id) =>
        /\ process' \in [1 .. k -> {"alive", "gone"}] /\ Gone /\ DOMAIN process' = DOMAIN process
        /\ process'[id] = "gone"
  BY <1>a DEF S!Killed
<1>h. owned \subseteq DOMAIN process /\ restarts \in 0 .. MaxRestarts
      /\ starting \in {None} \cup [name : Services, service_id : DOMAIN process]
  BY DEF ServicesInv, S!TypeOK
<1>1. ASSUME NEW n \in Services, S!Start(n) PROVE ServicesInv'
  <2> DEFINE id == Cardinality(DOMAIN process) + 1
  <2>1. id = k + 1
    <3>1. Cardinality(1 .. k) = k
      BY FS_Interval
    <3> QED
      BY <1>a, <3>1
  <2>2. /\ id <= MaxStarts /\ owned' = owned \cup {id}
        /\ process' = [i \in DOMAIN process \cup {id} |-> IF i = id THEN "alive" ELSE process[i]]
        /\ starting' = [name |-> n, service_id |-> id] /\ UNCHANGED <<records, registry, restarts>>
    <3>1. /\ id <= MaxStarts /\ S!Launch(id) /\ starting' = [name |-> n, service_id |-> id]
          /\ UNCHANGED <<records, registry, restarts>>
      BY <1>1, SameCardinality DEF S!Start
    <3> HIDE DEF id
    <3> QED
      BY <3>1 DEF S!Launch
  <2> HIDE DEF id
  <2>3. process' \in [1 .. k + 1 -> {"alive", "gone"}] /\ k + 1 \in 0 .. MaxStarts /\ Gone
    BY <1>a, <2>1, <2>2
  <2>4. Typed
    BY <1>h, <1>a, <2>1, <2>2, <2>3
  <2> QED
    BY <1>c, <1>d, <2>2, <2>3, <2>4
<1>2. CASE S!RecordStart
  <2>1. /\ starting # None /\ starting \in [name : Services, service_id : DOMAIN process]
        /\ starting' = None /\ UNCHANGED <<process, owned, restarts>>
    BY <1>2, <1>h DEF S!RecordStart
  <2>2. Typed
    BY <1>a, <1>h, <2>1
  <2> DEFINE r == [service_id |-> starting.service_id, state |-> "running"]
             rs == [records EXCEPT ![starting.name] = r]
  <2>3. Recordable(rs)
    <3>1. r \in S!ServiceRecord /\ r.service_id \in DOMAIN process /\ r.state # "stopped"
      BY <1>a, <2>1 DEF S!ServiceRecord, S!ServiceState
    <3> HIDE DEF r
    <3>2. rs \in [Services -> S!ServiceRecord \cup {None}] /\ rs[starting.name] = r
          /\ \A n \in Services : n # starting.name => rs[n] = records[n]
      BY <2>1, <3>1 DEF ServicesInv, S!TypeOK
    <3> HIDE DEF rs
    <3> QED
      BY <1>b, <2>1, <3>1, <3>2 DEF Recordable
  <2>4. \/ records' = rs /\ (registry' = rs \/ registry' = registry)
        \/ UNCHANGED <<records, registry>>
    BY <1>2 DEF S!RecordStart, S!Persist
  <2> HIDE DEF rs, r
  <2> QED
    BY <1>c, <1>d, <1>e, <2>1, <2>2, <2>3, <2>4
<1>3. ASSUME NEW n \in Services, S!Stop(n) PROVE ServicesInv'
  <2>1. records[n] # None /\ records[n].service_id \in DOMAIN process /\ UNCHANGED <<owned, starting, restarts>>
    BY <1>3, <1>b DEF S!Stop
  <2>2. {"stopped", "failed"} \subseteq S!ServiceState
    BY DEF S!ServiceState
  <2>3. CASE process' = S!Killed(records[n].service_id) /\ S!Persist(S!WithState(n, "stopped"))
    <3>1. Recordable(S!WithState(n, "stopped"))
      BY <1>g, <2>1, <2>2, <2>3, StateWritten
    <3>2. Typed
      BY <1>a, <1>g, <1>h, <2>1, <2>3
    <3> QED
      BY <1>c, <1>d, <1>f, <1>g, <2>1, <2>3, <3>1, <3>2
  <2>4. CASE S!Persist(S!WithState(n, "failed")) /\ UNCHANGED process
    <3>1. Recordable(S!WithState(n, "failed"))
      BY <2>1, <2>2, <2>4, StateWritten
    <3>2. Typed
      BY <1>a, <1>h, <2>1, <2>4
    <3> QED
      BY <1>c, <1>d, <1>e, <1>f, <2>4, <3>1, <3>2
  <2> QED
    BY <1>3, <2>3, <2>4 DEF S!Stop
<1>4. ASSUME NEW n \in Services, S!Status(n) PROVE ServicesInv'
  <2>1. PICK running \in S!IsRunning(records[n].service_id) :
          S!Persist(S!WithState(n, S!Reported(records[n], running)))
    BY <1>4 DEF S!Status
  <2>2. records[n] # None /\ UNCHANGED <<process, owned, starting, restarts>>
    BY <1>4 DEF S!Status
  <2>3. /\ S!Reported(records[n], running) \in S!ServiceState
        /\ S!Reported(records[n], running) = "stopped" => records[n].state = "stopped"
    BY DEF S!Reported, S!ServiceState
  <2>4. Recordable(S!WithState(n, S!Reported(records[n], running)))
    BY <1>b, <2>2, <2>3, StateWritten
  <2>5. Typed
    BY <1>a, <1>h, <2>2
  <2> QED
    BY <1>c, <1>d, <1>e, <1>f, <2>1, <2>2, <2>4, <2>5
<1>5. ASSUME NEW id \in DOMAIN process, S!RollBackStart(id) \/ S!ServiceExits(id) PROVE ServicesInv'
  <2>1. process' = S!Killed(id) /\ UNCHANGED <<records, registry, owned, starting, restarts>>
    BY <1>5 DEF S!RollBackStart, S!ServiceExits
  <2>2. Typed
    BY <1>a, <1>g, <1>h, <2>1
  <2> QED
    BY <1>c, <1>d, <1>g, <2>1, <2>2
<1>6. CASE S!KernelRestarts
  <2>1. /\ records' = registry /\ owned' = {} /\ starting' = None /\ UNCHANGED <<registry, process>>
        /\ restarts' = restarts + 1 /\ restarts < MaxRestarts
    BY <1>6 DEF S!KernelRestarts
  <2>2. Typed
    BY <1>a, <1>h, <2>1
  <2> QED
    BY <1>c, <1>d, <1>e, <2>1, <2>2
<1>7. CASE UNCHANGED S!vars
  <2>1. UNCHANGED <<records, registry, process, owned, starting, restarts>>
    BY <1>7 DEF S!vars
  <2> QED
    BY <1>a, <1>c, <1>d, <1>e, <1>h, <2>1
<1> QED
  BY <1>1, <1>2, <1>3, <1>4, <1>5, <1>6, <1>7 DEF S!Next

LEMMA ServicesInit == S!Init => ServicesInv
<1> SUFFICES ASSUME S!Init PROVE ServicesInv
  OBVIOUS
<1> USE BoundsAssumption
<1>1. DOMAIN process = {} /\ process \in [1 .. 0 -> {"alive", "gone"}]
  BY DEF S!Init
<1>2. \A n \in Services : records[n] = None /\ registry[n] = None
  BY DEF S!Init
<1>3. ServicesKnown /\ StoppedIsGone
  BY <1>2 DEF ServicesKnown, StoppedIsGone, S!StoppedIsGone
<1>4. 0 \in 0 .. MaxStarts /\ 0 \in 0 .. MaxRestarts
  OBVIOUS
<1>5. S!TypeOK
  BY <1>1, <1>4 DEF S!Init, S!TypeOK
<1> QED
  BY <1>3, <1>5 DEF ServicesInv

-----------------------------------------------------------------------------
(* The language server client. Whatever became of a request, its id was given *)
(* to one question: in what a server was asked, in what it wrote, and in the   *)
(* call of the caller that waits.                                            *)

\* A question that is under an id: with a server, in its output, or with its caller.
AskedAs(i, q) == \E g \in DOMAIN asked : \E a \in asked[g] : a.id = i /\ a.to = q
WrittenAs(i, q) == \E g \in DOMAIN output : \E k \in 1 .. Len(output[g]) :
                     output[g][k].kind = "response" /\ output[g][k].id = i /\ output[g][k].to = q
AwaitedAs(i, q) == \E c \in Callers : call[c].phase = "read" /\ call[c].id = i /\ call[c].question = q
QuestionOf(i, q) == AskedAs(i, q) \/ WrittenAs(i, q) \/ AwaitedAs(i, q)

OneQuestionPerId ==
  /\ \A i, q, r : QuestionOf(i, q) /\ QuestionOf(i, r) => q = r
  /\ \A i, q : QuestionOf(i, q) => i \in Nat /\ i < next_id

Question == [id : 1 .. MaxId, to : 0 .. MaxId]
ClientTyped ==
  /\ asked \in Seq(SUBSET Question) /\ Len(asked) = Len(output) /\ Len(output) <= MaxProcesses
  /\ questions \in Nat /\ questions < next_id
  /\ \A c \in Callers : call[c].phase = "read" => call[c].reads \in 1 .. Len(output)

ClientInv == L!TypeOK /\ ClientTyped /\ OneQuestionPerId /\ AnswersOwnQuestion

\* A step that asks no new question.
LEMMA NothingAsked ==
  ASSUME OneQuestionPerId, next_id' = next_id,
         \A i, q : QuestionOf(i, q)' => QuestionOf(i, q)
  PROVE  OneQuestionPerId'
BY DEF OneQuestionPerId

\* What a caller that goes on waits for.
LEMMA AwaitedKept ==
  ASSUME NEW c \in Callers, NEW to, call \in [Callers -> L!Call], L!Goes(c, to),
         to.phase = "read" => /\ call[c].phase = "read" /\ to.id = call[c].id
                              /\ to.question = call[c].question
  PROVE  \A i, q : AwaitedAs(i, q)' => AwaitedAs(i, q)
<1>1. call'[c] = to /\ \A d \in Callers : d # c => call'[d] = call[d]
  BY DEF L!Goes
<1> QED
  BY <1>1 DEF AwaitedAs

\* Reading takes the first message from one output.
LEMMA OutputRead ==
  ASSUME output \in Seq(Seq(L!Message)), NEW g \in 1 .. Len(output), output[g] # <<>>,
         output' = [output EXCEPT ![g] = Tail(@)]
  PROVE  /\ output' \in Seq(Seq(L!Message)) /\ Len(output') = Len(output)
         /\ \A i, q : WrittenAs(i, q)' => WrittenAs(i, q)
         /\ Head(output[g]) \in L!Message
         /\ Head(output[g]).kind = "response" => WrittenAs(Head(output[g]).id, Head(output[g]).to)
<1> DEFINE s == output[g]
           t == Tail(s)
<1>1. s \in Seq(L!Message) /\ Len(s) \in Nat /\ Len(s) > 0
  BY EmptySeq
<1>2. t \in Seq(L!Message) /\ Len(t) = Len(s) - 1 /\ \A k \in 1 .. Len(t) : t[k] = s[k + 1]
  BY <1>1, HeadTailProperties
<1>3. /\ DOMAIN output' = DOMAIN output /\ output'[g] = t
      /\ \A h \in DOMAIN output : h # g => output'[h] = output[h]
  OBVIOUS
<1>4. Head(s) = s[1] /\ Head(s) \in L!Message
  BY <1>1, HeadTailProperties
<1> HIDE DEF s, t
<1>5. output' \in Seq(Seq(L!Message)) /\ Len(output') = Len(output)
  BY <1>2 DEF t, s
<1>6. ASSUME NEW i, NEW q, WrittenAs(i, q)' PROVE WrittenAs(i, q)
  <2>0. PICK h \in DOMAIN output' : \E k \in 1 .. Len(output'[h]) :
          output'[h][k].kind = "response" /\ output'[h][k].id = i /\ output'[h][k].to = q
    BY <1>6 DEF WrittenAs
  <2>1. PICK k \in 1 .. Len(output'[h]) :
          output'[h][k].kind = "response" /\ output'[h][k].id = i /\ output'[h][k].to = q
    BY <2>0
  <2>2. CASE h = g
    <3>1. k + 1 \in 1 .. Len(output[g]) /\ output'[h][k] = output[g][k + 1]
      BY <1>1, <1>2, <1>3, <2>2 DEF s
    <3> QED
      BY <1>3, <2>1, <2>2, <3>1 DEF WrittenAs
  <2>3. CASE h # g
    BY <1>3, <2>1, <2>3 DEF WrittenAs
  <2> QED
    BY <2>2, <2>3
<1>7. s[1].kind = "response" => WrittenAs(s[1].id, s[1].to)
  BY <1>1 DEF s, WrittenAs
<1> QED
  BY <1>4, <1>5, <1>6, <1>7 DEF s

ReadsKnown == \A c \in Callers : call[c].phase = "read" => call[c].reads \in 1 .. Len(output)

\* A caller goes on, and asks no new question.
LEMMA CallKept ==
  ASSUME ClientInv, NEW c \in Callers, NEW to \in L!Call, L!Goes(c, to),
         Len(output') \in Nat, Len(output) <= Len(output'),
         to.phase = "read" => /\ call[c].phase = "read" /\ to.id = call[c].id
                              /\ to.question = call[c].question /\ to.reads \in 1 .. Len(output')
  PROVE  /\ call' \in [Callers -> L!Call] /\ ReadsKnown'
         /\ \A i, q : AwaitedAs(i, q)' => AwaitedAs(i, q)
<1>1. call \in [Callers -> L!Call] /\ ReadsKnown /\ Len(output) \in Nat
  BY DEF ClientInv, L!TypeOK, ClientTyped, ReadsKnown
<1>2. call' \in [Callers -> L!Call]
  BY <1>1 DEF L!Goes
<1>3. call'[c] = to /\ \A d \in Callers : d # c => call'[d] = call[d]
  BY <1>1 DEF L!Goes
<1>4. ReadsKnown'
  BY <1>1, <1>3 DEF ReadsKnown
<1>5. \A i, q : AwaitedAs(i, q)' => AwaitedAs(i, q)
  BY <1>1, AwaitedKept
<1> QED
  BY <1>2, <1>4, <1>5

LEMMA IdleTyped == L!Idle \in L!Call /\ L!Idle.phase = "idle"
  BY BoundsAssumption DEF L!Idle, L!Call

LEMMA EndsTyped == \A g \in 0 .. MaxProcesses : L!Ends(g) \in L!Call /\ L!Ends(g).phase = "close"
  BY IdleTyped DEF L!Ends, L!Call

\* A request that raises leaves its caller idle, or closing the server.
LEMMA RaisesTyped ==
  ASSUME ClientInv, NEW c \in Callers, L!Raises(c), Len(output') = Len(output)
  PROVE  /\ call' \in [Callers -> L!Call] /\ ReadsKnown'
         /\ \A i, q : AwaitedAs(i, q)' => AwaitedAs(i, q)
         /\ server' \in 0 .. Len(output') /\ alive' \subseteq alive /\ lock' \in Callers \cup {None}
<1>1. lock' \in {None, lock} /\ UNCHANGED <<server, alive>>
  BY DEF L!Raises, L!Unlocked
<1>2. /\ Len(output) \in Nat /\ server \in 0 .. Len(output) /\ lock \in Callers \cup {None}
      /\ server \in 0 .. MaxProcesses /\ call[c].ends \in 0 .. MaxProcesses
  BY BoundsAssumption DEF ClientInv, L!TypeOK, ClientTyped, L!Call
<1>3. \E to \in L!Call : to.phase # "read" /\ L!Goes(c, to)
  BY <1>2, IdleTyped, EndsTyped DEF L!Raises
<1> QED
  BY <1>1, <1>2, <1>3, CallKept

\* What a step that asks no question has to keep.
Settled == /\ call' \in [Callers -> L!Call] /\ ReadsKnown'
           /\ \A i, q : AwaitedAs(i, q)' => AwaitedAs(i, q)
           /\ server' \in 0 .. Len(output') /\ alive' \cup torn' \subseteq 1 .. Len(output')
           /\ lock' \in Callers \cup {None}
           /\ output' \in Seq(Seq(L!Message)) /\ Len(output') <= MaxProcesses
           /\ \A i, q : WrittenAs(i, q)' => QuestionOf(i, q)
           /\ asked' \in Seq(SUBSET Question) /\ Len(asked') = Len(output')
           /\ \A i, q : AskedAs(i, q)' => AskedAs(i, q)
           /\ UNCHANGED <<next_id, questions>>
           /\ AnswersOwnQuestion'

LEMMA SettledKeeps == ClientInv /\ Settled => ClientInv'
<1> SUFFICES ASSUME ClientInv, Settled PROVE ClientInv'
  OBVIOUS
<1>1. L!TypeOK'
  <2>1. DOMAIN asked' = 1 .. Len(output')
    BY DEF Settled
  <2> QED
    BY <2>1 DEF Settled, ClientInv, L!TypeOK, L!Processes
<1>2. ClientTyped'
  BY DEF Settled, ClientInv, ClientTyped, ReadsKnown
<1>3. OneQuestionPerId'
  <2>1. \A i, q : QuestionOf(i, q)' => QuestionOf(i, q)
    BY DEF Settled, QuestionOf
  <2> QED
    BY <2>1, NothingAsked DEF Settled, ClientInv
<1> QED
  BY <1>1, <1>2, <1>3 DEF Settled, ClientInv

\* Where nothing changes but the call, what it settles.
LEMMA SettledFacts ==
  ASSUME ClientInv
  PROVE  /\ call \in [Callers -> L!Call] /\ ReadsKnown
         /\ server \in 0 .. Len(output) /\ alive \subseteq 1 .. Len(output) /\ torn \subseteq 1 .. Len(output)
         /\ lock \in Callers \cup {None} /\ output \in Seq(Seq(L!Message))
         /\ Len(output) \in Nat /\ Len(output) <= MaxProcesses
         /\ asked \in Seq(SUBSET Question) /\ Len(asked) = Len(output)
         /\ DOMAIN output = 1 .. Len(output) /\ DOMAIN asked = 1 .. Len(output)
         /\ next_id \in 1 .. MaxId + 1 /\ questions \in Nat /\ questions < next_id
BY DEF ClientInv, L!TypeOK, ClientTyped, ReadsKnown, L!Processes

LEMMA QueueKept ==
  ASSUME ClientInv, UNCHANGED <<output, asked>>
  PROVE  /\ output' \in Seq(Seq(L!Message)) /\ Len(output') = Len(output)
         /\ \A i, q : WrittenAs(i, q)' => QuestionOf(i, q)
         /\ asked' \in Seq(SUBSET Question) /\ Len(asked') = Len(output')
         /\ \A i, q : AskedAs(i, q)' => AskedAs(i, q)
BY SettledFacts DEF WrittenAs, AskedAs, QuestionOf

LEMMA AskedKept ==
  ASSUME ClientInv, UNCHANGED asked
  PROVE  \A i, q : AskedAs(i, q)' => AskedAs(i, q)
BY DEF AskedAs

\* The steps of a caller that does not read and asks nothing.
LEMMA BeginsStep ==
  ASSUME ClientInv, NEW c \in Callers,
         L!Request(c) \/ L!Notify(c) \/ L!Close(c) \/ L!CloseEnds(c) \/ L!LaunchFails(c)
  PROVE  ClientInv'
<1> USE BoundsAssumption
<1>1. /\ UNCHANGED <<output, torn, asked, next_id, lock, questions, answers>>
      /\ server' \in {0, server} /\ alive' \subseteq alive
  BY DEF L!Request, L!Notify, L!Close, L!CloseEnds, L!LaunchFails
<1>2. \E to \in L!Call : to.phase # "read" /\ L!Goes(c, to)
  <2>1. ASSUME NEW p \in {"launch", "lock"}, NEW j \in {"query", "notify"}
        PROVE  [L!Idle EXCEPT !.phase = p, !.job = j] \in L!Call
               /\ [L!Idle EXCEPT !.phase = p, !.job = j].phase # "read"
    BY IdleTyped DEF L!Call
  <2>2. CASE L!Request(c)
    BY <2>1, <2>2 DEF L!Request
  <2>3. CASE L!Notify(c)
    BY <2>1, <2>3 DEF L!Notify
  <2>4. CASE L!Close(c)
    <3>1. server \in 0 .. MaxProcesses
      BY SettledFacts
    <3>2. [L!Idle EXCEPT !.phase = "lock", !.job = "close", !.ends = server] \in L!Call
          /\ [L!Idle EXCEPT !.phase = "lock", !.job = "close", !.ends = server].phase # "read"
      BY <3>1, IdleTyped DEF L!Call
    <3> QED
      BY <2>4, <3>1, <3>2, EndsTyped DEF L!Close
  <2>5. CASE L!CloseEnds(c) \/ L!LaunchFails(c)
    BY <2>5, IdleTyped DEF L!CloseEnds, L!LaunchFails
  <2> QED
    BY <2>2, <2>3, <2>4, <2>5
<1>3. /\ call' \in [Callers -> L!Call] /\ ReadsKnown'
      /\ \A i, q : AwaitedAs(i, q)' => AwaitedAs(i, q)
  BY <1>1, <1>2, CallKept, SettledFacts
<1>4. AnswersOwnQuestion'
  BY <1>1 DEF ClientInv, AnswersOwnQuestion, L!AnswersOwnQuestion
<1>5. Settled
  BY <1>1, <1>3, <1>4, SettledFacts, QueueKept DEF Settled
<1> QED
  BY <1>5, SettledKeeps

LEMMA LaunchStep ==
  ASSUME ClientInv, NEW c \in Callers, L!Launch(c)
  PROVE  ClientInv'
<1> USE BoundsAssumption
<1>1. /\ Len(output) < MaxProcesses /\ server' = Len(output) + 1 /\ alive' = alive \cup {server'}
      /\ output' = Append(output, <<>>) /\ asked' = Append(asked, {})
      /\ UNCHANGED <<torn, next_id, lock, questions, answers>> /\ call[c].phase = "launch"
  BY DEF L!Launch, L!At
<1> DEFINE to == [call[c] EXCEPT !.phase = "lock", !.init = TRUE]
<1>2. to \in L!Call /\ to.phase = "lock" /\ L!Goes(c, to)
  BY SettledFacts DEF L!Launch, L!Call
<1>3. <<>> \in Seq(L!Message) /\ Len(<<>>) = 0
  BY EmptySeq
<1>4. /\ output' \in Seq(Seq(L!Message)) /\ Len(output') = Len(output) + 1
      /\ \A g \in 1 .. Len(output) : output'[g] = output[g]
      /\ output'[Len(output) + 1] = <<>>
  BY <1>1, <1>3, AppendProperties, SettledFacts
<1>5. /\ asked' \in Seq(SUBSET Question) /\ Len(asked') = Len(asked) + 1
      /\ \A g \in 1 .. Len(asked) : asked'[g] = asked[g]
      /\ asked'[Len(asked) + 1] = {}
  BY <1>1, AppendProperties, SettledFacts
<1>6. ASSUME NEW i, NEW q, WrittenAs(i, q)' PROVE WrittenAs(i, q)
  <2>1. PICK g \in DOMAIN output' : \E k \in 1 .. Len(output'[g]) :
          output'[g][k].kind = "response" /\ output'[g][k].id = i /\ output'[g][k].to = q
    BY <1>6 DEF WrittenAs
  <2>2. g \in 1 .. Len(output)
    <3>1. g \in 1 .. Len(output) \/ g = Len(output) + 1
      BY <1>4, SettledFacts
    <3>2. g # Len(output) + 1
      BY <1>3, <1>4, <2>1
    <3> QED
      BY <3>1, <3>2
  <2> QED
    <3>1. DOMAIN output = 1 .. Len(output) /\ output'[g] = output[g]
      BY <1>4, <2>2, SettledFacts
    <3> QED
      BY <2>1, <2>2, <3>1 DEF WrittenAs
<1>7. ASSUME NEW i, NEW q, AskedAs(i, q)' PROVE AskedAs(i, q)
  <2>1. PICK g \in DOMAIN asked' : \E a \in asked'[g] : a.id = i /\ a.to = q
    BY <1>7 DEF AskedAs
  <2>2. g \in 1 .. Len(asked)
    BY <1>5, <2>1, SettledFacts
  <2> QED
    <3>1. DOMAIN asked = 1 .. Len(asked) /\ asked'[g] = asked[g]
      BY <1>5, <2>2, SettledFacts
    <3> QED
      BY <2>1, <2>2, <3>1 DEF AskedAs
<1> HIDE DEF to
<1>8. /\ call' \in [Callers -> L!Call] /\ ReadsKnown'
      /\ \A i, q : AwaitedAs(i, q)' => AwaitedAs(i, q)
  <2>1. Len(output') \in Nat /\ Len(output) <= Len(output')
    BY <1>4, SettledFacts
  <2> QED
    BY <1>2, <2>1, CallKept
<1>9. AnswersOwnQuestion'
  BY <1>1 DEF ClientInv, AnswersOwnQuestion, L!AnswersOwnQuestion
<1>10. Settled
  <2>1. server' \in 0 .. Len(output') /\ alive' \cup torn' \subseteq 1 .. Len(output')
        /\ Len(output') <= MaxProcesses
    BY <1>1, <1>4, SettledFacts
  <2> QED
    BY <1>1, <1>4, <1>5, <1>6, <1>7, <1>8, <1>9, <2>1, SettledFacts DEF Settled, QuestionOf
<1> QED
  BY <1>10, SettledKeeps

\* A request is written: its id is given to its question, and to no other.
LEMMA SendStep ==
  ASSUME ClientInv, NEW c \in Callers, L!Send(c)
  PROVE  ClientInv'
<1> USE BoundsAssumption
<1>1. /\ next_id <= MaxId /\ next_id' = next_id + 1 /\ UNCHANGED <<output, torn, answers>>
      /\ next_id \in 1 .. MaxId
  BY SettledFacts DEF L!Send
<1>2. AnswersOwnQuestion'
  BY <1>1 DEF ClientInv, AnswersOwnQuestion, L!AnswersOwnQuestion
<1>3. CASE ~L!RunningNow
  <2>1. L!Raises(c) /\ UNCHANGED <<asked, questions>>
    BY <1>3 DEF L!Send
  <2>2. /\ call' \in [Callers -> L!Call] /\ ReadsKnown'
        /\ \A i, q : AwaitedAs(i, q)' => AwaitedAs(i, q)
        /\ server' \in 0 .. Len(output') /\ alive' \subseteq alive /\ lock' \in Callers \cup {None}
    BY <1>1, <2>1, RaisesTyped
  <2>3. \A i, q : QuestionOf(i, q)' => QuestionOf(i, q)
    BY <1>1, <2>1, <2>2, QueueKept DEF QuestionOf
  <2>4. OneQuestionPerId'
    BY <1>1, <2>3, SettledFacts DEF ClientInv, OneQuestionPerId
  <2>5. L!TypeOK'
    BY <1>1, <2>1, <2>2, SettledFacts DEF L!TypeOK, L!Processes
  <2>6. ClientTyped'
    BY <1>1, <2>1, <2>2, SettledFacts DEF ClientTyped, ReadsKnown
  <2> QED
    BY <1>2, <2>4, <2>5, <2>6 DEF ClientInv
<1>4. CASE L!RunningNow
  <2> DEFINE to == [call[c] EXCEPT !.phase = "read", !.id = next_id, !.question = questions', !.reads = server]
             a == [id |-> next_id, to |-> questions']
  <2>1. /\ questions' = questions + 1 /\ asked' = [asked EXCEPT ![server] = @ \cup {a}]
        /\ L!Goes(c, to) /\ lock' = c /\ UNCHANGED <<server, alive>>
    BY <1>4 DEF L!Send
  <2>2. server \in 1 .. Len(output) /\ questions' \in 1 .. MaxId /\ questions' < next_id'
    BY <1>1, <1>4, <2>1, SettledFacts DEF L!RunningNow
  <2>3. to \in L!Call
    <3>1. server \in 0 .. MaxProcesses /\ call[c] \in L!Call
      BY <2>2, SettledFacts
    <3>2. next_id \in 0 .. MaxId /\ questions' \in 0 .. MaxId
      BY <1>1, <2>2
    <3> QED
      BY <3>1, <3>2 DEF L!Call
  <2>4. /\ to.phase = "read" /\ to.id = next_id /\ to.question = questions' /\ to.reads = server
    BY SettledFacts DEF L!Call
  <2>5. a \in Question /\ a.id = next_id /\ a.to = questions'
    BY <1>1, <2>2 DEF Question
  <2> HIDE DEF to, a
  <2>6. call' \in [Callers -> L!Call] /\ call'[c] = to /\ \A d \in Callers : d # c => call'[d] = call[d]
    BY <2>1, <2>3, SettledFacts DEF L!Goes
  <2>7. /\ asked' \in Seq(SUBSET Question) /\ Len(asked') = Len(asked) /\ DOMAIN asked' = DOMAIN asked
        /\ asked'[server] = asked[server] \cup {a}
        /\ \A g \in DOMAIN asked : g # server => asked'[g] = asked[g]
    BY <2>1, <2>2, <2>5, SettledFacts
  <2>8. ASSUME NEW i, NEW q, QuestionOf(i, q)'
        PROVE  QuestionOf(i, q) \/ (i = next_id /\ q = questions')
    <3>1. CASE AskedAs(i, q)'
      BY <2>5, <2>7, <3>1 DEF AskedAs, QuestionOf
    <3>2. CASE WrittenAs(i, q)'
      BY <1>1, <3>2 DEF WrittenAs, QuestionOf
    <3>3. CASE AwaitedAs(i, q)'
      BY <2>4, <2>6, <3>3 DEF AwaitedAs, QuestionOf
    <3> QED
      BY <2>8, <3>1, <3>2, <3>3 DEF QuestionOf
  <2>9. \A i, q : QuestionOf(i, q) => i # next_id
    BY SettledFacts DEF ClientInv, OneQuestionPerId
  <2>10. OneQuestionPerId'
    <3>1. \A i, q, r : QuestionOf(i, q)' /\ QuestionOf(i, r)' => q = r
      BY <2>8, <2>9 DEF ClientInv, OneQuestionPerId
    <3>2. \A i, q : QuestionOf(i, q)' => i \in Nat /\ i < next_id'
      BY <1>1, <2>8, SettledFacts DEF ClientInv, OneQuestionPerId
    <3> QED
      BY <3>1, <3>2 DEF OneQuestionPerId
  <2>11. L!TypeOK'
    BY <1>1, <2>1, <2>6, <2>7, SettledFacts DEF L!TypeOK, L!Processes
  <2>12. ClientTyped'
    <3>1. \A d \in Callers : call'[d].phase = "read" => call'[d].reads \in 1 .. Len(output')
      BY <1>1, <2>2, <2>4, <2>6, SettledFacts DEF ReadsKnown
    <3> QED
      BY <1>1, <2>1, <2>2, <2>7, <3>1, SettledFacts DEF ClientTyped
  <2> QED
    BY <1>2, <2>10, <2>11, <2>12 DEF ClientInv
<1> QED
  BY <1>3, <1>4

\* A message is read: the answer to the caller's own question, or not an answer to it.
LEMMA ReadStep ==
  ASSUME ClientInv, NEW c \in Callers, L!Read(c)
  PROVE  ClientInv'
<1> USE BoundsAssumption
<1> DEFINE g == call[c].reads
           m == Head(output[g])
<1>1. /\ call[c].phase = "read" /\ output[g] # <<>> /\ output' = [output EXCEPT ![g] = Tail(@)]
      /\ UNCHANGED <<torn, asked, next_id, questions>>
  BY DEF L!Read, L!At
<1>2. \/ /\ L!IsAnswer(m, call[c].id) /\ (L!Answered(c) \/ L!Raises(c))
         /\ answers' = answers \cup {[asked |-> call[c].question, answered |-> m.to]}
      \/ /\ server # 0 /\ L!Goes(c, [call[c] EXCEPT !.reads = server])
         /\ UNCHANGED <<server, alive, lock, answers>>
      \/ L!Raises(c) /\ UNCHANGED answers
  BY DEF L!Read
<1>3. g \in 1 .. Len(output) /\ g \in DOMAIN output
  BY <1>1, SettledFacts DEF ReadsKnown
<1>4. /\ output' \in Seq(Seq(L!Message)) /\ Len(output') = Len(output)
      /\ \A i, q : WrittenAs(i, q)' => WrittenAs(i, q)
      /\ m.kind = "response" => WrittenAs(m.id, m.to)
  <2> HIDE DEF g
  <2> QED
    BY <1>1, <1>3, OutputRead, SettledFacts
<1>5. call[c] \in L!Call
  BY SettledFacts
<1> HIDE DEF g, m
<1>6. ASSUME call' \in [Callers -> L!Call], ReadsKnown',
             \A i, q : AwaitedAs(i, q)' => AwaitedAs(i, q),
             server' \in 0 .. Len(output'), alive' \subseteq alive, lock' \in Callers \cup {None},
             AnswersOwnQuestion'
      PROVE  ClientInv'
  <2>1. Settled
    BY <1>1, <1>4, <1>6, AskedKept, SettledFacts DEF Settled, QuestionOf
  <2> QED
    BY <2>1, SettledKeeps
<1>7. CASE /\ L!IsAnswer(m, call[c].id) /\ (L!Answered(c) \/ L!Raises(c))
           /\ answers' = answers \cup {[asked |-> call[c].question, answered |-> m.to]}
  <2>1. m.kind = "response" /\ m.id = call[c].id
    BY <1>7 DEF L!IsAnswer
  <2>2. QuestionOf(m.id, m.to) /\ QuestionOf(m.id, call[c].question)
    BY <1>1, <1>4, <2>1 DEF QuestionOf, AwaitedAs
  <2>3. m.to = call[c].question
    BY <2>2 DEF ClientInv, OneQuestionPerId
  <2>4. AnswersOwnQuestion'
    BY <1>7, <2>3 DEF ClientInv, AnswersOwnQuestion, L!AnswersOwnQuestion
  <2>5. ASSUME L!Answered(c)
        PROVE  /\ \E to \in L!Call : to.phase # "read" /\ L!Goes(c, to)
               /\ lock' = None /\ server' = server /\ alive' \subseteq alive
    <3>0. call[c].ends \in 0 .. MaxProcesses
      BY <1>5 DEF L!Call
    <3>1. /\ [call[c] EXCEPT !.phase = "launch"] \in L!Call
          /\ [call[c] EXCEPT !.phase = "launch"].phase # "read"
          /\ [call[c] EXCEPT !.phase = "lock", !.init = FALSE] \in L!Call
          /\ [call[c] EXCEPT !.phase = "lock", !.init = FALSE].phase # "read"
      BY <1>5 DEF L!Call
    <3> QED
      BY <2>5, <3>0, <3>1, IdleTyped, EndsTyped DEF L!Answered
  <2>6. ASSUME L!Answered(c)
        PROVE  /\ call' \in [Callers -> L!Call] /\ ReadsKnown'
               /\ \A i, q : AwaitedAs(i, q)' => AwaitedAs(i, q)
    BY <1>4, <2>5, <2>6, CallKept, SettledFacts
  <2>7. CASE L!Answered(c)
    BY <1>4, <1>6, <2>4, <2>5, <2>6, <2>7, SettledFacts
  <2>8. CASE L!Raises(c)
    BY <1>4, <1>6, <2>4, <2>8, RaisesTyped
  <2> QED
    BY <1>7, <2>7, <2>8
<1>8. CASE /\ server # 0 /\ L!Goes(c, [call[c] EXCEPT !.reads = server])
           /\ UNCHANGED <<server, alive, lock, answers>>
  <2> DEFINE to == [call[c] EXCEPT !.reads = server]
  <2>1. server \in 1 .. Len(output') /\ server \in 0 .. MaxProcesses
    BY <1>4, <1>8, SettledFacts
  <2>2. to \in L!Call /\ to.id = call[c].id /\ to.question = call[c].question /\ to.reads = server
    BY <1>5, <2>1 DEF L!Call
  <2> HIDE DEF to
  <2>3. /\ call' \in [Callers -> L!Call] /\ ReadsKnown'
        /\ \A i, q : AwaitedAs(i, q)' => AwaitedAs(i, q)
    <3>1. L!Goes(c, to) /\ Len(output') \in Nat /\ Len(output) <= Len(output')
      BY <1>4, <1>8, SettledFacts DEF to
    <3> QED
      BY <1>1, <2>1, <2>2, <3>1, CallKept
  <2>4. AnswersOwnQuestion'
    BY <1>8 DEF ClientInv, AnswersOwnQuestion, L!AnswersOwnQuestion
  <2> QED
    BY <1>4, <1>6, <1>8, <2>3, <2>4, SettledFacts
<1>9. CASE L!Raises(c) /\ UNCHANGED answers
  <2>1. AnswersOwnQuestion'
    BY <1>9 DEF ClientInv, AnswersOwnQuestion, L!AnswersOwnQuestion
  <2> QED
    BY <1>4, <1>6, <1>9, <2>1, RaisesTyped
<1> QED
  BY <1>2, <1>7, <1>8, <1>9

\* Reading fails, or the time is over: a late answer stays where it is, under its id.
LEMMA GivesUpStep ==
  ASSUME ClientInv, NEW c \in Callers, L!ReadFails(c) \/ L!TimesOut(c)
  PROVE  ClientInv'
<1> DEFINE g == call[c].reads
<1>1. call[c].phase = "read" /\ L!Raises(c) /\ UNCHANGED <<asked, next_id, questions, answers>>
  BY DEF L!ReadFails, L!TimesOut, L!At
<1>2. \/ UNCHANGED output
      \/ output[g] # <<>> /\ output' = [output EXCEPT ![g] = Tail(@)]
  BY DEF L!ReadFails, L!TimesOut
<1>3. g \in 1 .. Len(output)
  BY <1>1, SettledFacts DEF ReadsKnown
<1>4. torn' \subseteq torn \cup {g}
  BY DEF L!ReadFails, L!TimesOut
<1> HIDE DEF g
<1>5. /\ output' \in Seq(Seq(L!Message)) /\ Len(output') = Len(output)
      /\ \A i, q : WrittenAs(i, q)' => QuestionOf(i, q)
  <2>1. CASE UNCHANGED output
    BY <1>1, <2>1, QueueKept
  <2>2. CASE output[g] # <<>> /\ output' = [output EXCEPT ![g] = Tail(@)]
    BY <1>3, <2>2, OutputRead, SettledFacts DEF QuestionOf
  <2> QED
    BY <1>2, <2>1, <2>2
<1>6. AnswersOwnQuestion'
  BY <1>1 DEF ClientInv, AnswersOwnQuestion, L!AnswersOwnQuestion
<1>7. Settled
  <2>1. /\ call' \in [Callers -> L!Call] /\ ReadsKnown'
        /\ \A i, q : AwaitedAs(i, q)' => AwaitedAs(i, q)
        /\ server' \in 0 .. Len(output') /\ alive' \subseteq alive /\ lock' \in Callers \cup {None}
    BY <1>1, <1>5, RaisesTyped
  <2> QED
    BY <1>1, <1>3, <1>4, <1>5, <1>6, <2>1, AskedKept, SettledFacts DEF Settled
<1> QED
  BY <1>7, SettledKeeps

\* What a server writes is the answer to what it was asked, or a request of its own.
LEMMA WritesStep ==
  ASSUME ClientInv, NEW g \in 1 .. Len(output), NEW w \in L!Message, L!Writes(g, w),
         w.kind = "response" => AskedAs(w.id, w.to)
  PROVE  /\ output' \in Seq(Seq(L!Message)) /\ Len(output') = Len(output)
         /\ \A i, q : WrittenAs(i, q)' => QuestionOf(i, q)
<1>1. output' = [output EXCEPT ![g] = Append(output[g], w)] /\ output[g] \in Seq(L!Message)
  BY SettledFacts DEF L!Writes
<1>2. /\ Append(output[g], w) \in Seq(L!Message)
      /\ Len(Append(output[g], w)) = Len(output[g]) + 1 /\ Len(output[g]) \in Nat
      /\ \A k \in 1 .. Len(output[g]) : Append(output[g], w)[k] = output[g][k]
      /\ Append(output[g], w)[Len(output[g]) + 1] = w
  BY <1>1, AppendProperties, LenProperties
<1>3. /\ output' \in Seq(Seq(L!Message)) /\ Len(output') = Len(output) /\ DOMAIN output' = DOMAIN output
      /\ output'[g] = Append(output[g], w)
      /\ \A h \in DOMAIN output : h # g => output'[h] = output[h]
  BY <1>1, <1>2, SettledFacts
<1>4. ASSUME NEW i, NEW q, WrittenAs(i, q)' PROVE QuestionOf(i, q)
  <2>1. PICK h \in DOMAIN output' : \E k \in 1 .. Len(output'[h]) :
          output'[h][k].kind = "response" /\ output'[h][k].id = i /\ output'[h][k].to = q
    BY <1>4 DEF WrittenAs
  <2>2. PICK k \in 1 .. Len(output'[h]) :
          output'[h][k].kind = "response" /\ output'[h][k].id = i /\ output'[h][k].to = q
    BY <2>1
  <2>3. CASE h # g
    BY <1>3, <2>2, <2>3 DEF WrittenAs, QuestionOf
  <2>4. CASE h = g
    <3>1. k \in 1 .. Len(output[g]) \/ k = Len(output[g]) + 1
      BY <1>2, <1>3, <2>4
    <3>2. CASE k = Len(output[g]) + 1
      BY <1>2, <1>3, <2>2, <2>4, <3>2 DEF QuestionOf
    <3>3. CASE k \in 1 .. Len(output[g])
      BY <1>2, <1>3, <2>2, <2>4, <3>3 DEF WrittenAs, QuestionOf
    <3> QED
      BY <3>1, <3>2, <3>3
  <2> QED
    BY <2>3, <2>4
<1> QED
  BY <1>3, <1>4

LEMMA ServerStep ==
  ASSUME ClientInv, NEW g \in 1 .. Len(output),
         \/ \E q \in asked[g] : L!ServerAnswers(g, q)
         \/ \E id \in 1 .. MaxId : L!ServerRequests(g, id)
         \/ L!ServerExits(g)
  PROVE  ClientInv'
<1> USE BoundsAssumption
<1>1. UNCHANGED <<server, torn, next_id, lock, call, questions, answers>> /\ alive' \subseteq alive
  BY DEF L!ServerAnswers, L!ServerRequests, L!ServerExits
<1>2. AnswersOwnQuestion'
  BY <1>1 DEF ClientInv, AnswersOwnQuestion, L!AnswersOwnQuestion
<1>3. call' \in [Callers -> L!Call] /\ \A i, q : AwaitedAs(i, q)' => AwaitedAs(i, q)
  BY <1>1, SettledFacts DEF AwaitedAs
<1>4. ASSUME output' \in Seq(Seq(L!Message)), Len(output') = Len(output),
             \A i, q : WrittenAs(i, q)' => QuestionOf(i, q),
             asked' \in Seq(SUBSET Question), Len(asked') = Len(asked),
             \A i, q : AskedAs(i, q)' => AskedAs(i, q)
      PROVE  ClientInv'
  <2>1. ReadsKnown'
    BY <1>1, <1>4, SettledFacts DEF ReadsKnown
  <2>2. Settled
    BY <1>1, <1>2, <1>3, <1>4, <2>1, SettledFacts DEF Settled
  <2> QED
    BY <2>2, SettledKeeps
<1>5. ASSUME NEW q \in asked[g], L!ServerAnswers(g, q) PROVE ClientInv'
  <2> DEFINE w == [kind |-> "response", id |-> q.id, to |-> q.to]
  <2>1. L!Writes(g, w) /\ asked' = [asked EXCEPT ![g] = @ \ {q}]
    BY <1>5 DEF L!ServerAnswers
  <2>2. g \in DOMAIN asked /\ asked[g] \subseteq Question /\ q \in Question
    BY SettledFacts
  <2>3. w \in L!Message /\ w.kind = "response" /\ w.id = q.id /\ w.to = q.to
    BY <2>2 DEF Question, L!Message
  <2> HIDE DEF w
  <2>4. AskedAs(w.id, w.to)
    BY <2>2, <2>3 DEF AskedAs
  <2>5. /\ asked' \in Seq(SUBSET Question) /\ Len(asked') = Len(asked) /\ DOMAIN asked' = DOMAIN asked
        /\ \A h \in DOMAIN asked : asked'[h] \subseteq asked[h]
    BY <2>1, <2>2, SettledFacts
  <2>6. \A i, p : AskedAs(i, p)' => AskedAs(i, p)
    BY <2>5 DEF AskedAs
  <2> QED
    BY <1>4, <2>1, <2>3, <2>4, <2>5, <2>6, WritesStep
<1>6. ASSUME NEW id \in 1 .. MaxId, L!ServerRequests(g, id) PROVE ClientInv'
  <2> DEFINE w == [kind |-> "request", id |-> id, to |-> 0]
  <2>1. L!Writes(g, w) /\ asked' = asked
    BY <1>6 DEF L!ServerRequests
  <2>2. w \in L!Message /\ w.kind # "response"
    BY DEF L!Message
  <2> HIDE DEF w
  <2> QED
    BY <1>4, <2>1, <2>2, AskedKept, SettledFacts, WritesStep
<1>7. CASE L!ServerExits(g)
  <2>1. UNCHANGED <<output, asked>>
    BY <1>7 DEF L!ServerExits
  <2> QED
    BY <1>4, <2>1, QueueKept, SettledFacts
<1> QED
  BY <1>5, <1>6, <1>7

LEMMA ClientStep == ClientInv /\ [L!Next]_(L!vars) => ClientInv'
<1> SUFFICES ASSUME ClientInv, [L!Next]_(L!vars) PROVE ClientInv'
  OBVIOUS
<1>1. CASE UNCHANGED L!vars
  <2>1. UNCHANGED <<server, alive, output, torn, asked, next_id, lock, call, questions, answers>>
    BY <1>1 DEF L!vars
  <2>2. AnswersOwnQuestion' /\ ReadsKnown' /\ \A i, q : AwaitedAs(i, q)' => AwaitedAs(i, q)
    BY <2>1, SettledFacts DEF ClientInv, AnswersOwnQuestion, L!AnswersOwnQuestion, ReadsKnown, AwaitedAs
  <2>3. Settled
    BY <2>1, <2>2, QueueKept, SettledFacts DEF Settled
  <2> QED
    BY <2>3, SettledKeeps
<1> QED
  BY <1>1, BeginsStep, LaunchStep, SendStep, ReadStep, GivesUpStep, ServerStep DEF L!Next, L!Processes

LEMMA ClientInit == L!Init => ClientInv
<1> SUFFICES ASSUME L!Init PROVE ClientInv
  OBVIOUS
<1> USE BoundsAssumption
<1>1. /\ server = 0 /\ alive = {} /\ output = <<>> /\ torn = {} /\ asked = <<>> /\ next_id = 1
      /\ lock = None /\ questions = 0 /\ answers = {} /\ call = [c \in Callers |-> L!Idle]
  BY DEF L!Init
<1>2. /\ output \in Seq(Seq(L!Message)) /\ asked \in Seq(SUBSET Question)
      /\ Len(output) = 0 /\ Len(asked) = 0 /\ DOMAIN output = {} /\ DOMAIN asked = {}
  BY <1>1, EmptySeq
<1>3. \A c \in Callers : call[c] \in L!Call /\ call[c].phase # "read"
  BY <1>1, IdleTyped
<1>4. L!TypeOK
  BY <1>1, <1>2, <1>3 DEF L!TypeOK, L!Processes
<1>5. ClientTyped
  BY <1>1, <1>2, <1>3 DEF ClientTyped
<1>6. OneQuestionPerId
  BY <1>2, <1>3 DEF OneQuestionPerId, QuestionOf, AskedAs, WrittenAs, AwaitedAs
<1>7. AnswersOwnQuestion
  BY <1>1 DEF AnswersOwnQuestion, L!AnswersOwnQuestion
<1> QED
  BY <1>4, <1>5, <1>6, <1>7 DEF ClientInv

-----------------------------------------------------------------------------
(* What the services and the client guarantee, each by itself.               *)

\* A service that a record calls stopped is gone (services.py, service_tool.py).
THEOREM StoppedServicesAreGone == S!Spec => [](S!TypeOK /\ S!StoppedIsGone)
<1>1. ServicesInv => S!TypeOK /\ S!StoppedIsGone
  BY DEF ServicesInv, StoppedIsGone
<1> QED
  BY <1>1, ServicesInit, ServicesStep, PTL DEF S!Spec

\* A caller is given the answer to its own question (lsp_runtime.py, request).
THEOREM CallersGetTheirAnswers == L!Spec => [](L!TypeOK /\ L!AnswersOwnQuestion)
<1>1. ClientInv => L!TypeOK /\ L!AnswersOwnQuestion
  BY DEF ClientInv, AnswersOwnQuestion
<1> QED
  BY <1>1, ClientInit, ClientStep, PTL DEF L!Spec

-----------------------------------------------------------------------------
(* The three side by side.                                                   *)

AgencyInv == TypeOK /\ DeliveryInv /\ ServicesInv /\ ClientInv

LEMMA DeliveryStutters == (TypeOK /\ DeliveryInv) /\ UNCHANGED vars => (TypeOK /\ DeliveryInv)'
  BY DeliveryStep
LEMMA ServicesStutter == ServicesInv /\ UNCHANGED services => ServicesInv'
  BY ServicesStep DEF services, S!vars
LEMMA ClientStutters == ClientInv /\ UNCHANGED client => ClientInv'
  BY ClientStep DEF client, L!vars

LEMMA AgencyStep == AgencyInv /\ [MCNext]_<<focus, vars, services, client>> => AgencyInv'
<1> SUFFICES ASSUME AgencyInv, [MCNext]_<<focus, vars, services, client>> PROVE AgencyInv'
  OBVIOUS
<1>1. CASE Next /\ UNCHANGED <<focus, services, client>>
  BY <1>1, DeliveryStep, ServicesStutter, ClientStutters DEF AgencyInv
<1>2. CASE S!Next /\ UNCHANGED <<focus, vars, client>>
  BY <1>2, ServicesStep, DeliveryStutters, ClientStutters DEF AgencyInv
<1>3. CASE L!Next /\ UNCHANGED <<focus, vars, services>>
  BY <1>3, ClientStep, DeliveryStutters, ServicesStutter DEF AgencyInv
<1>4. CASE UNCHANGED <<focus, vars, services, client>>
  BY <1>4, DeliveryStutters, ServicesStutter, ClientStutters DEF AgencyInv
<1> QED
  BY <1>1, <1>2, <1>3, <1>4 DEF MCNext

LEMMA AgencyInit == MCInit => AgencyInv
  BY DeliveryInit, ServicesInit, ClientInit DEF MCInit, AgencyInv

\* Every variable of the agency keeps its type.
THEOREM AgencyTypes == MCSpec => []EngineeringTypeOK
<1>1. AgencyInv => EngineeringTypeOK
  BY DEF AgencyInv, ServicesInv, ClientInv, EngineeringTypeOK
<1> QED
  BY <1>1, AgencyInit, AgencyStep, PTL DEF MCSpec

\* Every tree committed in the base passed the merged-tree verification
\* (merge_coordinator.py).
THEOREM BaseIsVerified == MCSpec => []BaseVerified
<1>1. AgencyInv => BaseVerified
  BY DEF AgencyInv, DeliveryInv
<1> QED
  BY <1>1, AgencyInit, AgencyStep, PTL DEF MCSpec

\* The integration node begins when every requirement is merged (agency.py, run_dag).
THEOREM IntegrationComesLast == MCSpec => []IntegrationSeesAll
<1>1. AgencyInv => IntegrationSeesAll
  BY IntegrationIsLast DEF AgencyInv, DeliveryInv
<1> QED
  BY <1>1, AgencyInit, AgencyStep, PTL DEF MCSpec

\* After a restart a binding names a worktree that is there (agency.py, worktrees.py).
THEOREM BindingsHaveWorktrees == MCSpec => []BoundWorktreesExist
<1>1. AgencyInv => BoundWorktreesExist
  BY DEF AgencyInv, DeliveryInv
<1> QED
  BY <1>1, AgencyInit, AgencyStep, PTL DEF MCSpec

\* A service that a record calls stopped is gone (services.py, service_tool.py).
THEOREM WhatIsStoppedIsGone == MCSpec => []StoppedIsGone
<1>1. AgencyInv => StoppedIsGone
  BY DEF AgencyInv, ServicesInv
<1> QED
  BY <1>1, AgencyInit, AgencyStep, PTL DEF MCSpec

\* A caller is given the answer to its own question (lsp_runtime.py, request).
THEOREM AnswersReachTheirCallers == MCSpec => []AnswersOwnQuestion
<1>1. AgencyInv => AnswersOwnQuestion
  BY DEF AgencyInv, ClientInv
<1> QED
  BY <1>1, AgencyInit, AgencyStep, PTL DEF MCSpec
-----------------------------------------------------------------------------
(* A delivery as one merge of each requirement.                              *)

\* A binding under which its requirement is still to be merged.
Owed(bs, r) == bs[r] # None /\ ~bs[r].integrated

\* It may be merged and still be owed, when only the name of the commit was not got: it
\* is then merged as it was verified, and merging it again stages nothing.
Once(bs, r) == Owed(bs, r) => base[r] = 0 \/ base[r] = bs[r].verified

\* A merge is of a requirement that is not in the base. After a crash that rests on the
\* checkpoint: a merge that it does not know of makes it drift, unless the checkpoint
\* saw the tree as staged, and then nothing is merged any more.
OnceInv ==
  /\ \A r \in Reqs : Once(bindings, r) /\ (branch[r] = None => base[r] = 0)
  /\ \A n \in DOMAIN run : Merging(n) =>
       ~bindings[n.req].integrated /\ (staged # None => base[n.req] = 0)
  /\ staged # None => \A r \in Reqs : base[r] # 0 => staged[r] # 0
  /\ checkpoint # None => \A r \in Reqs :
       /\ Once(checkpoint.bindings, r) \/ checkpoint.base.tree[r] = 0
       /\ checkpoint.base.tree[r] # 0 /\ base[r] = 0
            => staged # None /\ \A n \in DOMAIN run : ~Merging(n)

\* Steps that merge nothing, and owe nothing that is merged.
LEMMA OnceKept ==
  ASSUME OnceInv, UNCHANGED <<base, staged, checkpoint>>,
         \A r \in Reqs : branch'[r] = None => branch[r] = None,
         \A r \in Reqs : Once(bindings', r),
         \A m \in DOMAIN run' : Merging(m)' =>
           m \in DOMAIN run /\ Merging(m) /\ bindings'[m.req] = bindings[m.req]
  PROVE  OnceInv'
<1>1. \A r \in Reqs : Once(bindings, r)' /\ (branch'[r] = None => base'[r] = 0)
  BY DEF OnceInv, Once, Owed
<1>2. \A m \in DOMAIN run' : Merging(m)' =>
        ~bindings'[m.req].integrated /\ (staged' # None => base'[m.req] = 0)
  BY DEF OnceInv
<1>3. staged' # None => \A r \in Reqs : base'[r] # 0 => staged'[r] # 0
  BY DEF OnceInv
<1>4. checkpoint' # None => \A r \in Reqs :
        /\ Once(checkpoint.bindings, r)' \/ checkpoint'.base.tree[r] = 0
        /\ checkpoint'.base.tree[r] # 0 /\ base'[r] = 0
             => staged' # None /\ \A n \in DOMAIN run' : ~Merging(n)'
  BY DEF OnceInv, Once, Owed
<1> QED
  BY <1>1, <1>2, <1>3, <1>4 DEF OnceInv

\* The node that merges, when there is something to merge: its requirement is not in
\* the base yet.
LEMMA MergingFacts ==
  ASSUME TypeOK, DeliveryInv, OnceInv, NEW n \in DOMAIN run, Merging(n)
  PROVE  /\ n.req \in Reqs /\ bindings[n.req] # None
         /\ bindings[n.req] \in RequirementWorktreeBinding
         /\ bindings[n.req].verified \in seen[n.req] \ {0}
         /\ staged # None => /\ base[n.req] = 0
                             /\ staged = [base EXCEPT ![n.req] = bindings[n.req].verified]
         /\ branch[n.req] # None
         /\ \A m \in DOMAIN run : m # n => ~Merging(m)
<1>1. run[n] \in Finishing /\ run[n] \in Working
  BY DEF Merging, Finishing, Working, EngineeringNodeRun
<1>2. n.req \in Reqs /\ bindings[n.req] # None /\ bindings[n.req] \in RequirementWorktreeBinding
  BY <1>1, RunFacts DEF DeliveryInv, GraphOK, GraphTyped
<1>3. /\ bindings[n.req].verified # 0
      /\ staged # None => staged = [base EXCEPT ![n.req] = bindings[n.req].verified]
  BY DEF DeliveryInv, MergesVerified, MergeVerified
<1>4. bindings[n.req].verified \in seen[n.req]
  BY <1>2, <1>3 DEF DeliveryInv, BindingsTrue
<1>5. staged # None => base[n.req] = 0
  BY DEF OnceInv
<1>6. branch[n.req] # None
  BY <1>2 DEF DeliveryInv, BoundWorktreesExist, Bound, WorktreesHaveBranches
<1>7. \A m \in DOMAIN run : m # n => ~Merging(m)
  BY DEF Merging, DeliveryInv, MergesVerified, Integrating
<1> QED
  BY <1>2, <1>3, <1>4, <1>5, <1>6, <1>7

\* What Goes(n, p) does to the nodes that merge.
LEMMA MergingAfter ==
  ASSUME NEW n \in DOMAIN run, NEW p, Goes(n, p)
  PROVE  /\ DOMAIN run' = DOMAIN run
         /\ Merging(n)' <=> p \in {"merged tree", "commit merge"}
         /\ \A m \in DOMAIN run : m # n => (Merging(m)' <=> Merging(m))
BY DEF Goes, Merging

LEMMA NoMergeBegins ==
  ASSUME NEW n \in DOMAIN run, NEW p, Goes(n, p), p \notin {"merged tree", "commit merge"}
  PROVE  \A m \in DOMAIN run' : Merging(m)' => m \in DOMAIN run /\ Merging(m) /\ m # n
BY MergingAfter

LEMMA MergesAlone ==
  ASSUME DeliveryInv, NEW n \in DOMAIN run, run[n] \in {"merge", "remove"}
  PROVE  \A m \in DOMAIN run : ~Merging(m)
<1>1. n \in Integrating /\ ~Merging(n)
  BY DEF Integrating, Merging
<1>2. \A m \in DOMAIN run : Merging(m) => m \in Integrating
  BY DEF Integrating, Merging
<1> QED
  BY <1>1, <1>2 DEF DeliveryInv, MergesVerified

LEMMA OnceBeginMerge ==
  ASSUME TypeOK, DeliveryInv, OnceInv, NEW n \in DOMAIN run, BeginMerge(n)
  PROVE  OnceInv'
<1>1. UNCHANGED <<bindings, branch, base, checkpoint>> /\ run[n] = "merge"
  BY DEF BeginMerge
<1>2. \A m \in DOMAIN run : ~Merging(m)
  BY <1>1, MergesAlone
<1>3. n.req \in Reqs /\ bindings[n.req] # None
  BY <1>1, RunFacts DEF Finishing, Working, EngineeringNodeRun, DeliveryInv, GraphOK, GraphTyped
<1>4. CASE staged' = staged /\ \E p \in {"remove", "done"} : Goes(n, p)
  <2>1. \A m \in DOMAIN run' : ~Merging(m)'
    BY <1>2, <1>4, MergingAfter
  <2>2. \A r \in Reqs : Once(bindings', r)
    BY <1>1 DEF OnceInv
  <2> QED
    BY <1>1, <1>4, <2>1, <2>2, OnceKept
<1>5. CASE /\ ~bindings[n.req].integrated /\ staged = None /\ MergeNoCommit(n.req)
           /\ branch[n.req] = bindings[n.req].verified
           /\ \E p \in {"merged tree", "done"} : Goes(n, p)
  <2>1. base[n.req] = 0 \/ base[n.req] = branch[n.req]
    BY <1>3, <1>5 DEF OnceInv, Once, Owed
  <2>2. branch[n.req] # 0
    BY <1>1, <1>5 DEF DeliveryInv, MergesVerified, MergeVerified
  <2>3. staged' # None => staged' = [base EXCEPT ![n.req] = branch[n.req]] /\ base[n.req] = 0
    BY <1>5, <2>1 DEF MergeNoCommit
  <2>4. staged' # None => \A r \in Reqs : base[r] # 0 => staged'[r] # 0
    BY <2>2, <2>3 DEF TypeOK, Tree
  <2>5. \A m \in DOMAIN run' : Merging(m)' => m = n
    BY <1>2, <1>5, MergingAfter
  <2>6. checkpoint # None => \A r \in Reqs : ~(checkpoint.base.tree[r] # 0 /\ base[r] = 0)
    BY <1>5 DEF OnceInv
  <2>7. \A r \in Reqs : Once(bindings, r)' /\ (branch'[r] = None => base'[r] = 0)
    BY <1>1 DEF OnceInv, Once, Owed
  <2>8. checkpoint' # None => \A r \in Reqs :
          Once(checkpoint.bindings, r)' \/ checkpoint'.base.tree[r] = 0
    BY <1>1 DEF OnceInv, Once, Owed
  <2> QED
    BY <1>1, <1>5, <2>3, <2>4, <2>5, <2>6, <2>7, <2>8 DEF OnceInv
<1> QED
  BY <1>4, <1>5 DEF BeginMerge, Carries, IntegrationFails, StatusClean, AfterMerge

\* A merge ends: the requirement is in the base as it was verified, or what was staged
\* is dropped.
LEMMA OnceEndsMerge ==
  ASSUME TypeOK, DeliveryInv, OnceInv, NEW n \in DOMAIN run, Merging(n),
         UNCHANGED <<branch, checkpoint>>, staged' = None,
         NEW p \in {"remove", "done"}, Goes(n, p),
         \/ UNCHANGED <<base, bindings>>
         \/ /\ staged # None /\ base' = staged
            /\ UNCHANGED bindings \/ bindings' = [bindings EXCEPT ![n.req].integrated = TRUE]
  PROVE  OnceInv'
<1>1. \A m \in DOMAIN run' : ~Merging(m)'
  BY MergingFacts, MergingAfter
<1>2. checkpoint # None => \A r \in Reqs : base[r] = 0 => checkpoint.base.tree[r] = 0
  BY DEF OnceInv
<1>3. /\ n.req \in Reqs /\ bindings[n.req] \in RequirementWorktreeBinding
      /\ staged # None => /\ base[n.req] = 0
                          /\ staged = [base EXCEPT ![n.req] = bindings[n.req].verified]
      /\ bindings[n.req].verified # 0 /\ branch[n.req] # None
  BY MergingFacts
<1>4. \A r \in Reqs : /\ base[r] # 0 => base'[r] = base[r]
                      /\ r # n.req => base'[r] = base[r] /\ bindings'[r] = bindings[r]
  BY <1>3 DEF TypeOK, Tree, Bindings
<1>5. Once(bindings, n.req)'
  <2>1. CASE UNCHANGED <<base, bindings>>
    BY <1>3, <2>1 DEF OnceInv, Once, Owed
  <2>2. CASE staged # None /\ base' = staged
    <3>1. base'[n.req] = bindings[n.req].verified
      BY <1>3, <2>2 DEF TypeOK, Tree
    <3>2. UNCHANGED bindings \/ bindings'[n.req].integrated
      BY <1>3, <2>2 DEF TypeOK, Bindings, RequirementWorktreeBinding
    <3> QED
      BY <3>1, <3>2 DEF Once, Owed
  <2> QED
    BY <2>1, <2>2
<1>6. \A r \in Reqs : Once(bindings, r)' /\ (branch'[r] = None => base'[r] = 0)
  BY <1>3, <1>4, <1>5 DEF OnceInv, Once, Owed
<1>7. checkpoint' # None => \A r \in Reqs :
        Once(checkpoint.bindings, r)' \/ checkpoint'.base.tree[r] = 0
  BY <1>2, <1>4 DEF OnceInv, Once, Owed
<1>8. checkpoint' # None => \A r \in Reqs : ~(checkpoint'.base.tree[r] # 0 /\ base'[r] = 0)
  BY <1>2, <1>4
<1> QED
  BY <1>1, <1>6, <1>7, <1>8 DEF OnceInv

LEMMA OnceRecover ==
  ASSUME TypeOK, DeliveryInv, OnceInv, RecoverFromCheckpoint
  PROVE  OnceInv'
<1>1. UNCHANGED <<branch, base, staged, checkpoint>> /\ DOMAIN run' = {} /\ bindings' = checkpoint.bindings
  BY DEF RecoverFromCheckpoint, DeliveryInv, DownIsEmpty, NoRun, disk
<1>2. checkpoint # None /\ checkpoint.base.tree = IF staged # None THEN staged ELSE base
  BY DEF RecoverFromCheckpoint, Drifted, BaseFiles, CheckedOut
<1>3. \A r \in Reqs : Once(checkpoint.bindings, r)
  BY <1>2 DEF OnceInv, Once
<1>4. \A r \in Reqs : Once(bindings, r)' /\ (branch'[r] = None => base'[r] = 0)
  BY <1>1, <1>3 DEF OnceInv, Once, Owed
<1>5. checkpoint' # None => \A r \in Reqs :
        /\ Once(checkpoint.bindings, r)' \/ checkpoint'.base.tree[r] = 0
        /\ checkpoint'.base.tree[r] # 0 /\ base'[r] = 0 => staged' # None
  BY <1>1 DEF OnceInv, Once, Owed
<1> QED
  BY <1>1, <1>4, <1>5 DEF OnceInv

LEMMA OnceSave ==
  ASSUME TypeOK, OnceInv, SaveCheckpoint
  PROVE  OnceInv'
<1>1. UNCHANGED <<bindings, branch, base, staged, run>> /\ \A n \in DOMAIN run : ~Merging(n)
  BY DEF SaveCheckpoint, Merging
<1>2. /\ checkpoint'.bindings = bindings
      /\ checkpoint'.base.tree = IF staged # None THEN staged ELSE base
  BY DEF SaveCheckpoint, BaseFiles, CheckedOut
<1>3. \A r \in Reqs : Once(bindings, r)' /\ (branch'[r] = None => base'[r] = 0)
  BY <1>1 DEF OnceInv, Once, Owed
<1>4. \A r \in Reqs :
        /\ Once(checkpoint.bindings, r)'
        /\ checkpoint'.base.tree[r] # 0 /\ base'[r] = 0 => staged' # None
  BY <1>1, <1>2 DEF OnceInv, Once, Owed
<1>5. \A n \in DOMAIN run' : ~Merging(n)'
  BY <1>1 DEF Merging
<1> QED
  BY <1>1, <1>3, <1>4, <1>5 DEF OnceInv

LEMMA OnceStep == TypeOK /\ DeliveryInv /\ OnceInv /\ [Next]_vars => OnceInv'
<1> SUFFICES ASSUME TypeOK, DeliveryInv, OnceInv, [Next]_vars PROVE OnceInv'
  OBVIOUS
<1>a. ASSUME UNCHANGED <<bindings, branch, base, staged, checkpoint>>,
             \A m \in DOMAIN run' : Merging(m)' => m \in DOMAIN run /\ Merging(m)
      PROVE  OnceInv'
  <2>1. \A r \in Reqs : Once(bindings', r)
    BY <1>a DEF OnceInv
  <2> QED
    BY <1>a, <2>1, OnceKept
<1>1. CASE StartCycle \/ Replan
  <2>1. UNCHANGED <<bindings, branch, base, staged, checkpoint>>
    BY <1>1 DEF StartCycle, Replan, disk
  <2>2. \A m \in DOMAIN run' : ~Merging(m)'
    BY <1>1 DEF StartCycle, Replan, NoRun, Merging
  <2> QED
    BY <1>a, <2>1, <2>2
<1>2. CASE Crash
  <2>1. UNCHANGED <<branch, base, staged, checkpoint>> /\ DOMAIN run' = {}
    BY <1>2 DEF Crash, NoRun, disk
  <2>2. \A r \in Reqs : Once(bindings', r)
    BY <1>2 DEF Crash, Once, Owed
  <2> QED
    BY <2>1, <2>2, OnceKept
<1>3. ASSUME NEW n \in DOMAIN run, Acquire(n) PROVE OnceInv'
  <2>1. UNCHANGED <<base, staged, checkpoint>> /\ Goes(n, "work") /\ run[n] = "acquire"
    BY <1>3 DEF Acquire
  <2>2. \A m \in DOMAIN run' : Merging(m)' => m \in DOMAIN run /\ Merging(m) /\ m # n
    BY <2>1, NoMergeBegins
  <2>3. CASE UNCHANGED <<bindings, branch>>
    BY <1>a, <2>1, <2>2, <2>3
  <2>4. CASE /\ Unbound(n) /\ CreateTaskWorktree(n.req)
             /\ bindings' = [bindings EXCEPT ![n.req] = [verified |-> 0, integrated |-> FALSE]]
    <3>1. n.req \in Reqs
      BY <2>4, RunFacts DEF Unbound, DeliveryInv, GraphOK, GraphTyped
    <3>2. base[n.req] = 0 /\ \A r \in Reqs : r # n.req => bindings'[r] = bindings[r]
      BY <2>4, <3>1 DEF CreateTaskWorktree, OnceInv, TypeOK, Bindings
    <3>3. \A r \in Reqs : Once(bindings', r)
      BY <3>2 DEF OnceInv, Once, Owed
    <3>4. \A r \in Reqs : branch'[r] = None => branch[r] = None
      BY <2>4 DEF CreateTaskWorktree, TypeOK
    <3>5. \A m \in DOMAIN run : Merging(m) => bindings'[m.req] = bindings[m.req]
      <4>1. \A m \in DOMAIN run : Merging(m) => m.req \in Reqs /\ bindings[m.req] # None
        BY MergingFacts, NoneAssumption
      <4> QED
        BY <2>4, <3>2, <4>1 DEF Unbound
    <3> QED
      BY <2>1, <2>2, <3>3, <3>4, <3>5, OnceKept
  <2> QED
    BY <1>3, <2>3, <2>4 DEF Acquire
<1>4. ASSUME NEW n \in DOMAIN run, Raises(n), UNCHANGED <<bindings, disk, seen, accepted>> PROVE OnceInv'
  <2>1. \A m \in DOMAIN run' : m \in DOMAIN run /\ run'[m] = run[m]
    BY <1>4 DEF Raises
  <2> QED
    BY <1>a, <1>4, <2>1 DEF disk, Merging
<1>5. ASSUME NEW n \in DOMAIN run, NEW p \in {"verify", "commit", "done"}, Goes(n, p),
             UNCHANGED <<bindings, disk>>
      PROVE  OnceInv'
  BY <1>a, <1>5, MergingAfter DEF disk
<1>6. ASSUME NEW n \in DOMAIN run, Edit(n) PROVE OnceInv'
  BY <1>a, <1>6 DEF Edit, memory, Merging
<1>7. ASSUME NEW n \in DOMAIN run, AcquireFails(n) \/ ModelFails(n) \/ BeginVerification(n) PROVE OnceInv'
  BY <1>4, <1>5, <1>7 DEF AcquireFails, ModelFails, BeginVerification
<1>8. ASSUME NEW n \in DOMAIN run, NEW verdict \in Verdicts, Decide(n, verdict) PROVE OnceInv'
  BY <1>5, <1>8 DEF Decide
<1>9. ASSUME NEW n \in DOMAIN run, CommitWork(n) PROVE OnceInv'
  <2>1. UNCHANGED <<base, staged, checkpoint>> /\ run[n] = "commit" /\ \A m \in DOMAIN run : ~Merging(m)
    BY <1>9 DEF CommitWork, Integrating, Merging
  <2>2. \A m \in DOMAIN run' : ~Merging(m)'
    <3>1. \E p \in {"merge", "done"} : Goes(n, p)
      BY <1>9 DEF CommitWork, Carries, IntegrationFails
    <3> QED
      BY <2>1, <3>1, NoMergeBegins
  <2>3. n.req \in Reqs /\ bindings[n.req] # None /\ bindings[n.req] \in RequirementWorktreeBinding
        /\ worktree[n.req] \in Revision
    BY <2>1, RunFacts DEF Finishing, Working, EngineeringNodeRun, DeliveryInv, GraphOK, GraphTyped
  <2>4. \A r \in Reqs : branch'[r] = None => branch[r] = None
    BY <1>9, <2>3, NoneAssumption DEF CommitWork, Commit, TypeOK
  <2>5. \A r \in Reqs : Once(bindings', r)
    <3>1. \A r \in Reqs : Once(bindings, r)
      BY DEF OnceInv
    <3>2. CASE UNCHANGED bindings
      BY <3>1, <3>2
    <3>3. CASE /\ bindings[n.req].verified = 0
               /\ bindings' = [bindings EXCEPT ![n.req].verified = worktree[n.req]]
      <4>1. \A r \in Reqs : r # n.req => bindings'[r] = bindings[r]
        BY <3>3 DEF TypeOK, Bindings
      <4>2. bindings'[n.req].integrated = bindings[n.req].integrated
        BY <2>3, <3>3 DEF TypeOK, Bindings, RequirementWorktreeBinding
      <4>3. Owed(bindings, n.req) => base[n.req] = 0
        BY <2>3, <3>1, <3>3 DEF Once
      <4> QED
        BY <2>3, <3>1, <4>1, <4>2, <4>3 DEF Once, Owed
    <3> QED
      BY <1>9, <3>2, <3>3 DEF CommitWork
  <2> QED
    BY <2>1, <2>2, <2>4, <2>5, OnceKept
<1>10. ASSUME NEW n \in DOMAIN run, VerifyMergedTree(n) PROVE OnceInv'
  <2>1. UNCHANGED <<bindings, branch, base, checkpoint>> /\ Merging(n)
    BY <1>10 DEF VerifyMergedTree, Merging
  <2>2. CASE staged' = None /\ Goes(n, "done")
    BY <2>1, <2>2, OnceEndsMerge
  <2>3. CASE staged' = staged /\ \E p \in {"commit merge", "done"} : Goes(n, p)
    BY <1>a, <2>1, <2>3, MergingAfter
  <2> QED
    BY <1>10, <2>2, <2>3 DEF VerifyMergedTree, Carries, IntegrationFails, SafeAbort, AbortMerge
<1>11. ASSUME NEW n \in DOMAIN run, CommitMerge(n) PROVE OnceInv'
  <2>1. UNCHANGED <<branch, checkpoint>> /\ Merging(n)
    BY <1>11 DEF CommitMerge, Merging
  <2>2. CASE /\ CommitStaged /\ \E p \in {"remove", "done"} : Goes(n, p)
             /\ UNCHANGED bindings \/ bindings' = [bindings EXCEPT ![n.req].integrated = TRUE]
    BY <2>1, <2>2, OnceEndsMerge DEF CommitStaged
  <2>3. CASE UNCHANGED <<base, bindings>> /\ staged' = None /\ Goes(n, "done")
    BY <2>1, <2>3, OnceEndsMerge
  <2>4. CASE UNCHANGED <<base, bindings, staged>> /\ Goes(n, "done")
    BY <1>a, <2>1, <2>4, MergingAfter
  <2> QED
    BY <1>11, <2>2, <2>3, <2>4 DEF CommitMerge, Carries, IntegrationFails, SafeAbort, AbortMerge
<1>12. ASSUME NEW n \in DOMAIN run, RemoveWorktree(n) PROVE OnceInv'
  <2>1. UNCHANGED <<branch, base, staged, checkpoint>> /\ run[n] = "remove" /\ Goes(n, "done")
    BY <1>12 DEF RemoveWorktree, Carries, IntegrationFails
  <2>2. \A m \in DOMAIN run : ~Merging(m)
    BY <2>1, MergesAlone
  <2>3. \A m \in DOMAIN run' : ~Merging(m)'
    BY <2>1, <2>2, NoMergeBegins
  <2>4. \A r \in Reqs : Once(bindings', r)
    BY <1>12 DEF RemoveWorktree, OnceInv, Once, Owed, TypeOK, Bindings
  <2> QED
    BY <2>1, <2>3, <2>4, OnceKept
<1>13. CASE UNCHANGED vars
  BY <1>a, <1>13 DEF vars, Merging
<1> QED
  BY <1>1, <1>2, <1>3, <1>6, <1>7, <1>8, <1>9, <1>10, <1>11, <1>12, <1>13, OnceBeginMerge,
     OnceRecover, OnceSave DEF Next

\* Each step of the delivery is one of the abstract one, or changes nothing there.
LEMMA DeliveryMaps ==
  ASSUME TypeOK, DeliveryInv, OnceInv, [Next]_vars
  PROVE  [Delivery!Next]_<<base, seen, accepted>>
<1>1. CASE StartCycle \/ SaveCheckpoint \/ Replan \/ Crash \/ RecoverFromCheckpoint
  BY <1>1 DEF StartCycle, SaveCheckpoint, Replan, Crash, RecoverFromCheckpoint, disk
<1>2. CASE \E n \in DOMAIN run : Acquire(n) \/ AcquireFails(n) \/ Edit(n) \/ ModelFails(n)
                                   \/ BeginVerification(n)
  BY <1>2 DEF Acquire, AcquireFails, Edit, ModelFails, BeginVerification, disk
<1>3. CASE \E n \in DOMAIN run : CommitWork(n) \/ BeginMerge(n) \/ RemoveWorktree(n)
  BY <1>3 DEF CommitWork, BeginMerge, RemoveWorktree
<1>4. ASSUME NEW n \in DOMAIN run, NEW verdict \in Verdicts, Decide(n, verdict)
      PROVE  [Delivery!Next]_<<base, seen, accepted>>
  <2>1. CASE seen' = seen
    BY <1>4, <2>1 DEF Decide, disk
  <2>2. CASE n.verify /\ seen' = [seen EXCEPT ![n.req] = @ \cup {worktree[n.req]}]
    <3>1. n.req \in Reqs
      BY <2>2, RunFacts DEF DeliveryInv, GraphOK, GraphTyped
    <3>2. worktree[n.req] \in seen'[n.req]
      BY <2>2, <3>1 DEF TypeOK
    <3>3. Delivery!Verify(n.req)
      BY <1>4, <2>2, <3>2 DEF Delivery!Verify, Decide, disk
    <3> QED
      BY <3>1, <3>3 DEF Delivery!Next
  <2> QED
    BY <1>4, <2>1, <2>2 DEF Decide
<1>5. ASSUME NEW n \in DOMAIN run, VerifyMergedTree(n)
      PROVE  [Delivery!Next]_<<base, seen, accepted>>
  <2>1. UNCHANGED <<base, seen>> /\ Merging(n)
    BY <1>5 DEF VerifyMergedTree, Merging
  <2>2. CASE accepted' = accepted
    BY <2>1, <2>2
  <2>3. CASE accepted' = accepted \cup {staged} /\ staged # None
    <3>1. Delivery!Accept(n.req) /\ n.req \in Reqs
      BY <2>1, <2>3, MergingFacts DEF Delivery!Accept, Delivery!With
    <3> QED
      BY <3>1 DEF Delivery!Next
  <2>4. base \in accepted
    BY DEF DeliveryInv, BaseVerified
  <2> QED
    BY <1>5, <2>2, <2>3, <2>4 DEF VerifyMergedTree, CheckedOut
<1>6. ASSUME NEW n \in DOMAIN run, CommitMerge(n)
      PROVE  [Delivery!Next]_<<base, seen, accepted>>
  <2>1. UNCHANGED <<seen, accepted>> /\ Merging(n) /\ (staged # None => staged \in accepted)
    BY <1>6 DEF CommitMerge, Merging, DeliveryInv, MergesVerified, MergeVerified
  <2>2. CASE base' = base
    BY <2>1, <2>2
  <2>3. CASE base' = staged /\ staged # None
    <3>1. Delivery!Deliver(n.req) /\ n.req \in Reqs
      BY <2>1, <2>3, MergingFacts DEF Delivery!Deliver, Delivery!With
    <3> QED
      BY <3>1 DEF Delivery!Next
  <2> QED
    BY <1>6, <2>2, <2>3 DEF CommitMerge, CommitStaged
<1>7. CASE UNCHANGED vars
  BY <1>7 DEF vars
<1> QED
  BY <1>1, <1>2, <1>3, <1>4, <1>5, <1>6, <1>7 DEF Next

LEMMA OnceInit == Init => OnceInv /\ Delivery!Init
  BY DEF Init, OnceInv, Once, Owed, NoRun, Delivery!Init

LEMMA AgencyMaps ==
  ASSUME AgencyInv, OnceInv, [MCNext]_<<focus, vars, services, client>>
  PROVE  OnceInv' /\ [Delivery!Next]_<<base, seen, accepted>>
<1>1. [Next]_vars
  BY DEF MCNext
<1> QED
  BY <1>1, OnceStep, DeliveryMaps DEF AgencyInv

\* A delivery is one merge of each requirement, of a revision its verification passed
\* into the tree that was verified with it, and the base changes in no other way
\* (merge_coordinator.py:51-134, agency.py): through failed merges, recovery nodes,
\* crashes and restarts, for every set of requirements and every bound.
THEOREM AgencyImplementsDelivery == MCSpec => ImplementsVerifiedDelivery
<1>1. MCInit => AgencyInv /\ OnceInv /\ Delivery!Init
  BY AgencyInit, OnceInit DEF MCInit
<1>2. AgencyInv /\ OnceInv /\ [MCNext]_<<focus, vars, services, client>> => AgencyInv' /\ OnceInv'
  BY AgencyStep, AgencyMaps
<1>3. AgencyInv /\ OnceInv /\ [MCNext]_<<focus, vars, services, client>>
        => [Delivery!Next]_<<base, seen, accepted>>
  BY AgencyMaps
<1> QED
  BY <1>1, <1>2, <1>3, PTL DEF MCSpec, ImplementsVerifiedDelivery, Delivery!Spec
=============================================================================
