--------------------------- MODULE CognitionProofs ---------------------------
(* Proofs about the components that MCCognition puts side by side, each for   *)
(* every value of its constants: the leases of agents (A), the blackboard (B),*)
(* resource leases (C), the intelligence fabric (F), the continuity of        *)
(* sessions (S), the cognitive mission (M) and the world model (W).           *)
EXTENDS MCCognition, FiniteSetTheorems, SequenceTheorems, TLAPS

-----------------------------------------------------------------------------
(* Numbers and sequences.                                                     *)

\* The least-number principle: what is proved by it is proved by induction.
LEMMA LeastNumber ==
  ASSUME NEW T \in SUBSET Nat, T # {}
  PROVE  \E n \in T : \A m \in T : n <= m
<1> DEFINE below == {0 .. n : n \in T}
<1>1. \A n \in Nat : IsFiniteSet(0 .. n)
  BY FS_Interval
<1>2. \A n \in T : n \in Nat /\ (0 .. n) \in SUBSET Nat
  OBVIOUS
<1>3. \A b \in below : b \in FiniteSubsetsOf(Nat)
  BY <1>1, <1>2 DEF FiniteSubsetsOf
<1>4. below \subseteq FiniteSubsetsOf(Nat) /\ below # {}
  BY <1>3
<1>5. \E x \in below : \A y \in below : ~ (<<y, x>> \in StrictSubsetOrdering(Nat))
  <2> HIDE DEF below
  <2> QED
    BY <1>4, FS_StrictSubsetOrderingWellFounded, WFMin
<1>6. PICK n \in T : \A y \in below : ~ (<<y, 0 .. n>> \in StrictSubsetOrdering(Nat))
  BY <1>5
<1>7. ASSUME NEW m \in T, m < n PROVE FALSE
  <2>1. (0 .. m) \in below /\ (0 .. m) \in SUBSET Nat /\ (0 .. n) \in SUBSET Nat
    BY <1>2
  <2>2. (0 .. m) \subseteq (0 .. n) /\ n \in 0 .. n /\ n \notin 0 .. m
    BY <1>2, <1>7
  <2>3. <<0 .. m, 0 .. n>> \in StrictSubsetOrdering(Nat)
    BY <2>1, <2>2 DEF StrictSubsetOrdering
  <2> QED
    BY <1>6, <2>1, <2>3
<1> QED
  BY <1>2, <1>6, <1>7

\* A finite set of numbers has a largest.
LEMMA LargestNumber ==
  ASSUME NEW D \in SUBSET Nat, IsFiniteSet(D), D # {}
  PROVE  \E x \in D : \A y \in D : x >= y
<1> SUFFICES ASSUME ~ \E x \in D : \A y \in D : x >= y PROVE FALSE
  OBVIOUS
<1> DEFINE bad == {U \in SUBSET D : U # {} /\ ~ \E x \in U : \A y \in U : x >= y}
<1>1. bad \subseteq FiniteSubsetsOf(D) /\ bad # {}
  BY FS_Subset DEF FiniteSubsetsOf
<1>2. \E U \in bad : \A V \in bad : ~ (<<V, U>> \in StrictSubsetOrdering(D))
  <2> HIDE DEF bad
  <2> QED
    BY <1>1, FS_StrictSubsetOrderingWellFounded, WFMin
<1>3. PICK U \in bad : \A V \in bad : ~ (<<V, U>> \in StrictSubsetOrdering(D))
  BY <1>2
<1>4. PICK x \in U : x \in Nat
  BY <1>3
<1>5. U \ {x} \in SUBSET D /\ <<U \ {x}, U>> \in StrictSubsetOrdering(D)
  BY <1>3, <1>4 DEF StrictSubsetOrdering
<1>6. U \ {x} \notin bad
  BY <1>3, <1>5
<1>7. CASE U \ {x} = {}
  BY <1>3, <1>4, <1>7
<1>8. CASE U \ {x} # {}
  <2>1. PICK z \in U \ {x} : \A y \in U \ {x} : z >= y
    BY <1>5, <1>6, <1>8
  <2>2. z \in Nat /\ U \subseteq Nat
    BY <1>3
  <2>3. CASE z >= x
    BY <1>3, <1>4, <2>1, <2>2, <2>3
  <2>4. CASE x > z
    <3>1. \A y \in U : x >= y
      BY <1>4, <2>1, <2>2, <2>4
    <3> QED
      BY <1>3, <1>4, <3>1
  <2> QED
    BY <1>4, <2>2, <2>3, <2>4
<1> QED
  BY <1>7, <1>8

\* What a function takes a finite set to is finite.
LEMMA FiniteImage ==
  ASSUME NEW D, IsFiniteSet(D), NEW f PROVE IsFiniteSet({f[x] : x \in D})
<1> DEFINE T == {f[x] : x \in D}
           g == [x \in D |-> f[x]]
<1>1. g \in Surjection(D, T)
  <2>1. g \in [D -> T]
    OBVIOUS
  <2>2. \A y \in T : \E x \in D : g[x] = y
    OBVIOUS
  <2> QED
    BY <2>1, <2>2 DEF Surjection
<1> QED
  BY <1>1, FS_Surjection

LEMMA TailOf ==
  ASSUME NEW D, NEW s \in Seq(D), s # <<>>
  PROVE  /\ Tail(s) \in Seq(D) /\ Len(Tail(s)) = Len(s) - 1 /\ Head(s) = s[1] /\ Head(s) \in D
         /\ \A i \in DOMAIN Tail(s) : Tail(s)[i] = s[i + 1]
  BY HeadTailProperties

LEMMA LastOf ==
  ASSUME NEW D, NEW s \in Seq(D), s # <<>> PROVE Len(s) \in DOMAIN s /\ s[Len(s)] \in D
  BY EmptySeq, LenProperties

-----------------------------------------------------------------------------
(* The leases of agents.  A task has no two leases of one epoch and one       *)
(* generation, and the one it was last given has the task's counter.          *)

AgentsInv ==
  /\ A!TypeOK
  /\ \A l \in DOMAIN leases : leases[l].epoch \in 1 .. epoch
  /\ \A l, m \in DOMAIN leases :
       /\ leases[l].task = leases[m].task /\ leases[l].epoch = leases[m].epoch
       /\ leases[l].generation = leases[m].generation
       => l = m
  /\ \A t \in Tasks : allowed[t] # 0 => leases[allowed[t]].task = t

LEMMA AgentFacts ==
  ASSUME AgentsInv
  PROVE  /\ Len(leases) \in Nat /\ DOMAIN leases = 1 .. Len(leases)
         /\ leases \in [1 .. Len(leases) -> A!AgentLease]
         /\ \A l \in DOMAIN leases :
              /\ leases[l] \in A!AgentLease /\ leases[l].task \in Tasks
              /\ leases[l].generation \in Nat /\ leases[l].epoch \in 1 .. MaxEpoch
         /\ epoch \in Nat /\ epoch \in 1 .. MaxEpoch /\ MaxEpoch \in Nat
<1>1. leases \in Seq(A!AgentLease) /\ epoch \in 1 .. MaxEpoch /\ MaxEpoch \in Nat
  BY AgentsAssumption DEF AgentsInv, A!TypeOK, A!AgentLeasesAssumption
<1>2. Len(leases) \in Nat /\ DOMAIN leases = 1 .. Len(leases) /\ leases \in [1 .. Len(leases) -> A!AgentLease]
  BY <1>1, LenProperties
<1>3. \A l \in DOMAIN leases : leases[l].epoch \in 1 .. MaxEpoch
  BY <1>1 DEF AgentsInv
<1> QED
  BY <1>1, <1>2, <1>3 DEF A!AgentLease

\* Steps that change no lease's task, generation, epoch or ceiling.
LEMMA LeasesKept ==
  ASSUME AgentsInv, UNCHANGED task_generations, epoch' \in 1 .. MaxEpoch, epoch <= epoch',
         leases' \in Seq(A!AgentLease), Len(leases') = Len(leases),
         \A l \in 1 .. Len(leases) :
           /\ leases'[l].task = leases[l].task /\ leases'[l].generation = leases[l].generation
           /\ leases'[l].epoch = leases[l].epoch /\ leases'[l].ceiling = leases[l].ceiling,
         mission' \in [status : A!MissionStatus, version : Nat],
         allowed' \in [Tasks -> 0 .. Len(leases)],
         \A t \in Tasks : allowed'[t] # 0 => leases[allowed'[t]].task = t
  PROVE  AgentsInv'
<1>1. DOMAIN leases' = 1 .. Len(leases) /\ DOMAIN leases = 1 .. Len(leases)
  BY AgentFacts, LenProperties
<1>2. A!TypeOK'
  BY <1>1, AgentFacts DEF AgentsInv, A!TypeOK
<1>3. \A l \in DOMAIN leases' : leases'[l].epoch \in 1 .. epoch'
  BY <1>1, AgentFacts DEF AgentsInv
<1>4. \A l, m \in DOMAIN leases' :
       /\ leases'[l].task = leases'[m].task /\ leases'[l].epoch = leases'[m].epoch
       /\ leases'[l].generation = leases'[m].generation
       => l = m
  BY <1>1 DEF AgentsInv
<1>5. \A t \in Tasks : allowed'[t] # 0 => leases'[allowed'[t]].task = t
  BY <1>1, AgentFacts
<1> QED
  BY <1>2, <1>3, <1>4, <1>5 DEF AgentsInv

\* The same when one lease is rewritten and the mission stays.
LEMMA OneLeaseKept ==
  ASSUME AgentsInv, NEW l \in DOMAIN leases, NEW u \in A!AgentLease,
         leases' = [leases EXCEPT ![l] = u],
         u.task = leases[l].task, u.generation = leases[l].generation,
         u.epoch = leases[l].epoch, u.ceiling = leases[l].ceiling,
         UNCHANGED <<task_generations, epoch, mission>>,
         allowed' = allowed \/ allowed' = [allowed EXCEPT ![leases[l].task] = l]
  PROVE  AgentsInv'
<1>1. leases' \in Seq(A!AgentLease) /\ Len(leases') = Len(leases)
  BY AgentFacts, ExceptSeq DEF AgentsInv, A!TypeOK
<1>2. \A k \in 1 .. Len(leases) :
        /\ leases'[k].task = leases[k].task /\ leases'[k].generation = leases[k].generation
        /\ leases'[k].epoch = leases[k].epoch /\ leases'[k].ceiling = leases[k].ceiling
  BY AgentFacts
<1>3. /\ allowed \in [Tasks -> 0 .. Len(leases)] /\ mission \in [status : A!MissionStatus, version : Nat]
      /\ \A t \in Tasks : allowed[t] # 0 => leases[allowed[t]].task = t
  BY DEF AgentsInv, A!TypeOK
<1>4. allowed' \in [Tasks -> 0 .. Len(leases)] /\ \A t \in Tasks : allowed'[t] # 0 => leases[allowed'[t]].task = t
  <2>1. CASE allowed' = allowed
    BY <1>3, <2>1
  <2>2. CASE allowed' = [allowed EXCEPT ![leases[l].task] = l]
    <3>1. PICK k \in Tasks : k = leases[l].task
      BY AgentFacts
    <3>2. l \in 0 .. Len(leases)
      BY AgentFacts
    <3>3. allowed' = [allowed EXCEPT ![k] = l]
      BY <2>2, <3>1
    <3> QED
      BY <1>3, <3>1, <3>2, <3>3
  <2> QED
    BY <2>1, <2>2
<1> QED
  BY <1>1, <1>2, <1>3, <1>4, AgentFacts, LeasesKept

LEMMA CeilingBelow ==
  ASSUME NEW r \in A!AgentRole
  PROVE  A!EffectiveCeiling(2, r) \in 0 .. 3 /\ A!EffectiveCeiling(2, r) <= MissionMaximum
<1> DEFINE c == A!RoleCeiling[r]
<1>1. c \in {0, 1} /\ MissionMaximum \in 0 .. 3
  BY AgentsAssumption DEF A!RoleCeiling, A!AgentLeasesAssumption
<1> HIDE DEF c
<1>2. \E x \in {2, MissionMaximum, c} : \A y \in {2, MissionMaximum, c} : x <= y
  BY <1>1
<1>3. A!Least({2, MissionMaximum, c}) \in {2, MissionMaximum, c}
      /\ \A y \in {2, MissionMaximum, c} : A!Least({2, MissionMaximum, c}) <= y
  BY <1>2 DEF A!Least
<1>4. A!EffectiveCeiling(2, r) = A!Least({2, MissionMaximum, c})
  BY DEF A!EffectiveCeiling, c
<1> QED
  BY <1>1, <1>3, <1>4

LEMMA AssignStep ==
  ASSUME AgentsInv, NEW e \in 1 .. epoch, NEW t \in Tasks, NEW r \in A!AgentRole,
         A!AssignAgentToTask(e, t, r, 2)
  PROVE  AgentsInv'
<1>1. PICK g : g = A!NextGeneration(e, t)
  OBVIOUS
<1>2. PICK u : u = A!NewLease(t, g, e, A!EffectiveCeiling(2, r))
  OBVIOUS
<1>3. /\ task_generations' = [task_generations EXCEPT ![e][t] = g]
      /\ leases' = Append(leases, u) /\ UNCHANGED <<epoch, mission, allowed>>
  BY <1>1, <1>2 DEF A!AssignAgentToTask
<1>4. /\ task_generations \in [1 .. MaxEpoch -> [Tasks -> Nat]] /\ e \in 1 .. MaxEpoch
      /\ allowed \in [Tasks -> 0 .. Len(leases)] /\ leases \in Seq(A!AgentLease)
      /\ mission \in [status : A!MissionStatus, version : Nat]
  BY AgentFacts DEF AgentsInv, A!TypeOK
<1>5. g = task_generations[e][t] + 1 /\ g \in Nat /\ task_generations[e][t] \in Nat
  BY <1>1, <1>4 DEF A!NextGeneration
<1>6. u \in A!AgentLease /\ u.task = t /\ u.generation = g /\ u.epoch = e /\ u.ceiling <= MissionMaximum
  <2>1. e \in Nat
    BY AgentFacts
  <2> QED
    BY <1>2, <1>5, <2>1, CeilingBelow DEF A!NewLease, A!AgentLease, A!AgentLeaseStatus
<1>7. PICK n : n = Len(leases)
  OBVIOUS
<1>8. /\ n \in Nat /\ leases' \in Seq(A!AgentLease) /\ Len(leases') = n + 1 /\ leases'[n + 1] = u
      /\ DOMAIN leases = 1 .. n /\ DOMAIN leases' = 1 .. n + 1
      /\ \A l \in 1 .. n : leases'[l] = leases[l]
  BY <1>3, <1>4, <1>6, <1>7, AgentFacts, AppendProperties
<1>9. /\ task_generations' \in [1 .. MaxEpoch -> [Tasks -> Nat]] /\ task_generations'[e][t] = g
      /\ \A f \in 1 .. MaxEpoch, k \in Tasks : task_generations[f][k] <= task_generations'[f][k]
  <2>1. PICK row : row = [task_generations[e] EXCEPT ![t] = g]
    OBVIOUS
  <2>2. /\ row \in [Tasks -> Nat] /\ row[t] = g
        /\ \A k \in Tasks : task_generations[e][k] <= row[k]
    BY <1>4, <1>5, <2>1
  <2>3. task_generations' = [task_generations EXCEPT ![e] = row]
    BY <1>3, <2>1
  <2>4. /\ task_generations' \in [1 .. MaxEpoch -> [Tasks -> Nat]] /\ task_generations'[e] = row
        /\ \A f \in 1 .. MaxEpoch : f # e => task_generations'[f] = task_generations[f]
    BY <1>4, <2>2, <2>3
  <2>5. ASSUME NEW f \in 1 .. MaxEpoch, NEW k \in Tasks
        PROVE  task_generations[f][k] <= task_generations'[f][k]
    <3>1. CASE f = e
      BY <2>2, <2>4, <3>1
    <3>2. CASE f # e
      <4>1. task_generations[f][k] \in Nat /\ task_generations'[f] = task_generations[f]
        BY <1>4, <2>4, <3>2
      <4>2. task_generations[f][k] = task_generations'[f][k]
        BY <4>1
      <4> QED
        BY <4>1, <4>2
    <3> QED
      BY <3>1, <3>2
  <2> QED
    BY <2>2, <2>4, <2>5
<1>10. \A l \in 1 .. n :
         /\ leases[l].generation <= task_generations[leases[l].epoch][leases[l].task]
         /\ leases[l].ceiling <= MissionMaximum
  BY <1>8 DEF AgentsInv, A!TypeOK
<1>11. \A l \in 1 .. n : ~ (leases[l].task = t /\ leases[l].epoch = e /\ leases[l].generation = g)
  BY <1>5, <1>8, <1>10, AgentFacts
<1>12. A!TypeOK'
  <2>1. \A l \in 1 .. n : leases[l].generation <= task_generations'[leases[l].epoch][leases[l].task]
    <3> TAKE l \in 1 .. n
    <3>1. PICK f \in 1 .. MaxEpoch : f = leases[l].epoch
      BY <1>8, AgentFacts
    <3>2. PICK k \in Tasks : k = leases[l].task
      BY <1>8, AgentFacts
    <3>3. leases[l].generation \in Nat /\ leases[l].generation <= task_generations[f][k]
      BY <1>8, <1>10, <3>1, <3>2, AgentFacts
    <3>4. task_generations'[f][k] \in Nat /\ task_generations[f][k] \in Nat
      BY <1>4, <1>9
    <3>5. task_generations[f][k] <= task_generations'[f][k]
      BY <1>9
    <3>6. leases[l].generation <= task_generations'[f][k]
      BY <3>3, <3>4, <3>5
    <3> QED
      BY <3>1, <3>2, <3>6
  <2>2. \A l \in DOMAIN leases' :
          /\ leases'[l].generation <= task_generations'[leases'[l].epoch][leases'[l].task]
          /\ leases'[l].ceiling <= MissionMaximum
    <3> TAKE l \in DOMAIN leases'
    <3>1. CASE l \in 1 .. n
      BY <1>8, <1>10, <2>1, <3>1
    <3>2. CASE l = n + 1
      BY <1>5, <1>6, <1>8, <1>9, <3>2
    <3> QED
      BY <1>8, <3>1, <3>2
  <2>3. allowed' \in [Tasks -> 0 .. Len(leases')]
    BY <1>3, <1>4, <1>7, <1>8
  <2> QED
    BY <1>3, <1>4, <1>8, <1>9, <2>2, <2>3, AgentFacts DEF A!TypeOK
<1>13. \A l \in DOMAIN leases' : leases'[l].epoch \in 1 .. epoch'
  BY <1>3, <1>6, <1>8 DEF AgentsInv
<1>14. \A l, m \in DOMAIN leases' :
         /\ leases'[l].task = leases'[m].task /\ leases'[l].epoch = leases'[m].epoch
         /\ leases'[l].generation = leases'[m].generation
         => l = m
  <2> TAKE l, m \in DOMAIN leases'
  <2>1. CASE l \in 1 .. n /\ m \in 1 .. n
    BY <1>8, <2>1 DEF AgentsInv
  <2>2. CASE l = n + 1 \/ m = n + 1
    BY <1>6, <1>8, <1>11, <2>2
  <2> QED
    BY <1>8, <2>1, <2>2
<1>15. \A k \in Tasks : allowed'[k] # 0 => leases'[allowed'[k]].task = k
  BY <1>3, <1>4, <1>7, <1>8 DEF AgentsInv
<1> QED
  BY <1>12, <1>13, <1>14, <1>15 DEF AgentsInv

LEMMA LeaseStep ==
  ASSUME AgentsInv, NEW l \in DOMAIN leases,
         \/ A!ValidateFails(l)
         \/ \E v \in 1 .. mission.version : A!Allow(l, v)
         \/ \E n, s \in 0 .. 1 : A!RecordUsage(l, n, s)
         \/ A!RevokeLease(l)
         \/ A!LeaseExpires(l)
  PROVE  AgentsInv'
<1>1. leases[l] \in A!AgentLease /\ leases[l].task \in Tasks
  BY AgentFacts
<1>2. ASSUME NEW x \in A!AgentLeaseStatus, leases' = [leases EXCEPT ![l].status = x],
             UNCHANGED <<task_generations, epoch, mission, allowed>>
      PROVE  AgentsInv'
  <2>1. PICK u : u = [leases[l] EXCEPT !.status = x]
    OBVIOUS
  <2>2. /\ u \in A!AgentLease /\ u.task = leases[l].task /\ u.generation = leases[l].generation
        /\ u.epoch = leases[l].epoch /\ u.ceiling = leases[l].ceiling
    BY <1>1, <2>1 DEF A!AgentLease
  <2>3. leases' = [leases EXCEPT ![l] = u]
    BY <1>2, <2>1
  <2> QED
    BY <1>2, <2>2, <2>3, OneLeaseKept
<1>3. ASSUME NEW n \in 0 .. 1, NEW s \in 0 .. 1, leases' = [leases EXCEPT ![l] = A!Used(l, n, s)],
             UNCHANGED <<task_generations, epoch, mission, allowed>>
      PROVE  AgentsInv'
  <2>1. PICK u : u = A!Used(l, n, s)
    OBVIOUS
  <2>2. PICK w : w = [leases[l] EXCEPT !.turns = @ + n, !.spend = @ + s]
    OBVIOUS
  <2>3. /\ w \in A!AgentLease /\ w.task = leases[l].task /\ w.generation = leases[l].generation
        /\ w.epoch = leases[l].epoch /\ w.ceiling = leases[l].ceiling
    <3>1. PICK a \in Nat, b \in Nat : a = leases[l].turns + n /\ b = leases[l].spend + s
      BY <1>1 DEF A!AgentLease
    <3>2. w = [leases[l] EXCEPT !.turns = a, !.spend = b]
      BY <2>2, <3>1
    <3> QED
      BY <1>1, <3>2 DEF A!AgentLease
  <2>4. \E x \in A!AgentLeaseStatus : u = [w EXCEPT !.status = x]
    <3>1. u = [w EXCEPT !.status = IF w.spend > MaxSpend THEN "FAILED"
                                   ELSE IF w.turns >= MaxTurns THEN "COMPLETED" ELSE w.status]
      BY <2>1, <2>2, <2>3 DEF A!Used, A!AgentLease
    <3> QED
      BY <2>3, <3>1 DEF A!AgentLease, A!AgentLeaseStatus
  <2>5. /\ u \in A!AgentLease /\ u.task = leases[l].task /\ u.generation = leases[l].generation
        /\ u.epoch = leases[l].epoch /\ u.ceiling = leases[l].ceiling
    BY <2>3, <2>4 DEF A!AgentLease
  <2> QED
    BY <1>3, <2>1, <2>5, OneLeaseKept
<1>4. CASE A!ValidateFails(l)
  BY <1>2, <1>4 DEF A!ValidateFails, A!Verdict, A!AgentLeaseStatus
<1>5. CASE \E v \in 1 .. mission.version : A!Allow(l, v)
  <2>1. /\ leases' = leases /\ allowed' = [allowed EXCEPT ![leases[l].task] = l]
        /\ UNCHANGED <<task_generations, epoch, mission>>
    BY <1>5 DEF A!Allow
  <2>2. leases' = [leases EXCEPT ![l] = leases[l]]
    BY <2>1, AgentFacts
  <2> QED
    BY <1>1, <2>1, <2>2, OneLeaseKept
<1>6. CASE \E n, s \in 0 .. 1 : A!RecordUsage(l, n, s)
  BY <1>3, <1>6 DEF A!RecordUsage
<1>7. CASE A!RevokeLease(l)
  BY <1>2, <1>7 DEF A!RevokeLease, A!AgentLeaseStatus
<1>8. CASE A!LeaseExpires(l)
  <2>1. PICK u : u = [leases[l] EXCEPT !.late = TRUE]
    OBVIOUS
  <2>2. /\ u \in A!AgentLease /\ u.task = leases[l].task /\ u.generation = leases[l].generation
        /\ u.epoch = leases[l].epoch /\ u.ceiling = leases[l].ceiling
    BY <1>1, <2>1 DEF A!AgentLease
  <2> QED
    BY <1>8, <2>1, <2>2, OneLeaseKept DEF A!LeaseExpires
<1> QED
  BY <1>4, <1>5, <1>6, <1>7, <1>8

LEMMA AgentsStep == AgentsInv /\ [A!Next]_(A!vars) => AgentsInv'
<1> SUFFICES ASSUME AgentsInv, [A!Next]_(A!vars) PROVE AgentsInv'
  OBVIOUS
<1>1. /\ leases \in Seq(A!AgentLease) /\ allowed \in [Tasks -> 0 .. Len(leases)]
      /\ mission \in [status : A!MissionStatus, version : Nat]
      /\ \A t \in Tasks : allowed[t] # 0 => leases[allowed[t]].task = t
  BY DEF AgentsInv, A!TypeOK
<1>2. CASE A!KernelRestarts
  BY <1>1, <1>2, AgentFacts, LeasesKept DEF A!KernelRestarts
<1>3. CASE A!FenceEpoch
  <2>1. PICK ls : ls = [l \in DOMAIN leases |->
          IF leases[l].status = "ACTIVE" /\ leases[l].epoch < epoch
          THEN [leases[l] EXCEPT !.status = "REVOKED"] ELSE leases[l]]
    OBVIOUS
  <2>2. \A l \in 1 .. Len(leases) :
          /\ ls[l] \in A!AgentLease
          /\ ls[l].task = leases[l].task /\ ls[l].generation = leases[l].generation
          /\ ls[l].epoch = leases[l].epoch /\ ls[l].ceiling = leases[l].ceiling
    BY <2>1, AgentFacts DEF A!AgentLease, A!AgentLeaseStatus
  <2>3. PICK n \in Nat : n = Len(leases) /\ DOMAIN leases = 1 .. n
    BY AgentFacts
  <2>4. ls \in Seq(A!AgentLease) /\ Len(ls) = Len(leases)
    <3>1. ls \in [1 .. n -> A!AgentLease]
      BY <2>1, <2>2, <2>3
    <3>2. ls \in Seq(A!AgentLease) /\ Len(ls) = n
      BY <3>1
    <3> QED
      BY <2>3, <3>2
  <2> QED
    BY <1>1, <1>3, <2>1, <2>2, <2>4, AgentFacts, LeasesKept DEF A!FenceEpoch
<1>4. CASE A!MissionMoves
  <2>1. mission' \in [status : A!MissionStatus, version : Nat]
    BY <1>1, <1>4 DEF A!MissionMoves, A!MissionStatus
  <2> QED
    BY <1>1, <1>4, <2>1, AgentFacts, LeasesKept DEF A!MissionMoves
<1>5. CASE UNCHANGED A!vars
  BY <1>1, <1>5, AgentFacts, LeasesKept DEF A!vars
<1> QED
  BY <1>2, <1>3, <1>4, <1>5, AssignStep, LeaseStep DEF A!Next

LEMMA AgentsInit == A!Init => AgentsInv
<1> SUFFICES ASSUME A!Init PROVE AgentsInv
  OBVIOUS
<1>1. leases = <<>> /\ Len(leases) = 0 /\ DOMAIN leases = {} /\ leases \in Seq(A!AgentLease)
  BY EmptySeq DEF A!Init
<1> QED
  BY <1>1, AgentsAssumption DEF A!Init, AgentsInv, A!TypeOK, A!AgentLeasesAssumption, A!MissionStatus

\* An agent that is allowed to act has the newest lease of its task.
LEMMA NewestStep ==
  AgentsInv /\ [A!Next]_(A!vars) =>
    \A t \in Tasks : allowed'[t] # allowed[t] => allowed[t] = 0 \/ A!Precedes(allowed[t], allowed'[t])
<1> SUFFICES ASSUME AgentsInv, [A!Next]_(A!vars), NEW t \in Tasks, allowed'[t] # allowed[t], allowed[t] # 0
             PROVE  A!Precedes(allowed[t], allowed'[t])
  OBVIOUS
<1>1. PICK l \in DOMAIN leases : \E v \in 1 .. mission.version : A!Allow(l, v)
  BY DEF A!Next, A!vars, A!AssignAgentToTask, A!ValidateFails, A!RecordUsage, A!RevokeLease,
         A!LeaseExpires, A!KernelRestarts, A!FenceEpoch, A!MissionMoves
<1>2. PICK m : m = allowed[t]
  OBVIOUS
<1>3. m \in DOMAIN leases /\ leases[m].task = t /\ allowed \in [Tasks -> 0 .. Len(leases)]
  BY <1>2, AgentFacts DEF AgentsInv, A!TypeOK
<1>4. allowed' = [allowed EXCEPT ![leases[l].task] = l] /\ ~ A!OldEpoch(l) /\ ~ A!Behind(l)
  BY <1>1 DEF A!Allow, A!Verdict
<1>5. leases[l].task = t /\ allowed'[t] = l /\ l # m
  BY <1>2, <1>3, <1>4, AgentFacts
<1>6. /\ leases[l].epoch \in 1 .. epoch /\ leases[m].epoch \in 1 .. epoch
      /\ leases[l].generation <= task_generations[leases[l].epoch][t]
      /\ leases[m].generation <= task_generations[leases[m].epoch][t]
  BY <1>3, <1>5 DEF AgentsInv, A!TypeOK
<1>7. leases[l].epoch = epoch
  BY <1>4, <1>6, AgentFacts DEF A!OldEpoch
<1>8. task_generations[epoch][t] \in Nat
  BY AgentFacts DEF AgentsInv, A!TypeOK
<1>9. leases[l].generation = task_generations[epoch][t]
  BY <1>4, <1>5, <1>6, <1>7, <1>8, AgentFacts DEF A!Behind, A!Current
<1>10. CASE leases[m].epoch = epoch
  <2>1. leases[m].generation # leases[l].generation
    BY <1>3, <1>5, <1>7, <1>10 DEF AgentsInv
  <2> QED
    BY <1>2, <1>3, <1>5, <1>6, <1>7, <1>8, <1>9, <1>10, <2>1, AgentFacts DEF A!Precedes
<1>11. CASE leases[m].epoch # epoch
  BY <1>2, <1>5, <1>6, <1>7, <1>11, AgentFacts DEF A!Precedes
<1> QED
  BY <1>10, <1>11

\* An agent that is allowed to act has the newest lease of its task, whoever was given it
\* before and whichever scheduler of an earlier epoch goes on assigning (autonomy/leases.py).
THEOREM AgentsHold == A!Spec => []A!TypeOK /\ A!NewestAgentActs
<1>1. AgentsInv => A!TypeOK
  BY DEF AgentsInv
<1>2. AgentsInv /\ [A!Next]_(A!vars) =>
        [\A t \in Tasks : allowed'[t] # allowed[t] => allowed[t] = 0 \/ A!Precedes(allowed[t], allowed'[t])]_(A!vars)
  BY NewestStep
<1> QED
  BY <1>1, <1>2, AgentsInit, AgentsStep, PTL DEF A!Spec, A!NewestAgentActs

-----------------------------------------------------------------------------
(* The blackboard.  Arbitration takes the entries of its conflict, and none   *)
(* other, out of dispute.                                                     *)

BoardInv == B!TypeOK /\ ConflictedCanBeArbitrated

LEMMA BoardFacts ==
  ASSUME BoardInv
  PROVE  /\ entries \in Seq(B!BlackboardEntry) /\ conflicts \in Seq(B!ConflictRecord)
         /\ Len(entries) \in Nat /\ DOMAIN entries = 1 .. Len(entries)
         /\ Len(conflicts) \in Nat /\ DOMAIN conflicts = 1 .. Len(conflicts)
         /\ \A i \in DOMAIN entries : entries[i] \in B!BlackboardEntry
         /\ \A c \in DOMAIN conflicts :
              conflicts[c] \in B!ConflictRecord /\ conflicts[c].entries \subseteq DOMAIN entries
<1>1. entries \in Seq(B!BlackboardEntry) /\ conflicts \in Seq(B!ConflictRecord)
  BY DEF BoardInv, B!TypeOK
<1> QED
  BY <1>1, LenProperties DEF BoardInv, B!TypeOK

\* What marking does to a list of entries.
LEMMA MarkedIs ==
  ASSUME NEW es \in Seq(B!BlackboardEntry), NEW ms, NEW s \in B!BlackboardStatus
  PROVE  /\ B!Marked(es, ms, s) \in Seq(B!BlackboardEntry) /\ Len(B!Marked(es, ms, s)) = Len(es)
         /\ DOMAIN B!Marked(es, ms, s) = DOMAIN es
         /\ \A i \in DOMAIN es :
              /\ B!Marked(es, ms, s)[i].status = IF i \in ms THEN s ELSE es[i].status
<1>1. PICK m : m = B!Marked(es, ms, s)
  OBVIOUS
<1>2. Len(es) \in Nat /\ DOMAIN es = 1 .. Len(es) /\ \A i \in DOMAIN es : es[i] \in B!BlackboardEntry
  BY LenProperties
<1>3. m = [i \in DOMAIN es |-> IF i \in ms THEN [es[i] EXCEPT !.status = s] ELSE es[i]]
  BY <1>1 DEF B!Marked
<1>4. \A i \in DOMAIN es : m[i] \in B!BlackboardEntry /\ m[i].status = IF i \in ms THEN s ELSE es[i].status
  BY <1>2, <1>3 DEF B!BlackboardEntry
<1>5. m \in [1 .. Len(es) -> B!BlackboardEntry]
  BY <1>2, <1>3, <1>4
<1>6. m \in Seq(B!BlackboardEntry) /\ Len(m) = Len(es)
  BY <1>2, <1>5
<1> QED
  BY <1>1, <1>2, <1>3, <1>4, <1>6

LEMMA PostStep ==
  ASSUME BoardInv, NEW m \in Missions, NEW claim \in Claims, B!PostEntry(m, claim)
  PROVE  BoardInv'
<1>1. PICK e : e = [mission |-> m, claim |-> claim, status |-> "PROPOSED"]
  OBVIOUS
<1>2. PICK n : n = Len(entries)
  OBVIOUS
<1>3. PICK new : new = Append(entries, e)
  OBVIOUS
<1>4. e \in B!BlackboardEntry /\ e.status = "PROPOSED"
  BY <1>1 DEF B!BlackboardEntry, B!BlackboardStatus
<1>5. /\ n \in Nat /\ new \in Seq(B!BlackboardEntry) /\ Len(new) = n + 1 /\ DOMAIN new = 1 .. n + 1
      /\ DOMAIN entries = 1 .. n /\ new[n + 1] = e /\ \A i \in 1 .. n : new[i] = entries[i]
  BY <1>2, <1>3, <1>4, BoardFacts, AppendProperties
<1>6. PICK old : old = B!Opposed(m, claim)
  OBVIOUS
<1>7. old \subseteq 1 .. n
  BY <1>5, <1>6 DEF B!Opposed
<1>8. commitments' = commitments /\ commitments \in [Commitments -> B!CommitmentStatus \cup {"NONE"}]
  BY DEF B!PostEntry, BoardInv, B!TypeOK
<1>9. CASE old = {}
  <2>1. entries' = new /\ UNCHANGED conflicts
    BY <1>1, <1>3, <1>6, <1>9 DEF B!PostEntry
  <2>2. B!TypeOK'
    BY <1>5, <1>8, <2>1, BoardFacts DEF B!TypeOK
  <2>3. ConflictedCanBeArbitrated'
    BY <1>4, <1>5, <2>1 DEF BoardInv, ConflictedCanBeArbitrated, B!ConflictedCanBeArbitrated
  <2> QED
    BY <2>2, <2>3 DEF BoardInv
<1>10. CASE old # {}
  <2>1. PICK f : f = CHOOSE i \in old : \A j \in old : i <= j
    OBVIOUS
  <2>2. f \in 1 .. n
    <3>1. \E i \in old : \A j \in old : i <= j
      BY <1>5, <1>7, <1>10, LeastNumber
    <3> QED
      BY <1>7, <2>1, <3>1
  <2>3. PICK pair : pair = {f, n + 1}
    OBVIOUS
  <2>4. PICK c : c = [entries |-> pair, resolution_status |-> "UNRESOLVED"]
    OBVIOUS
  <2>5. entries' = B!Marked(new, pair, "CONFLICTED") /\ conflicts' = Append(conflicts, c)
    BY <1>1, <1>3, <1>5, <1>6, <1>10, <2>1, <2>3, <2>4 DEF B!PostEntry
  <2>6. /\ entries' \in Seq(B!BlackboardEntry) /\ DOMAIN entries' = 1 .. n + 1
        /\ \A i \in 1 .. n + 1 : entries'[i].status = IF i \in pair THEN "CONFLICTED" ELSE new[i].status
    BY <1>5, <2>5, MarkedIs DEF B!BlackboardStatus
  <2>7. c \in B!ConflictRecord /\ c.entries = pair /\ c.resolution_status = "UNRESOLVED" /\ pair \subseteq 1 .. n + 1
    BY <1>5, <2>2, <2>3, <2>4 DEF B!ConflictRecord
  <2>8. PICK k : k = Len(conflicts)
    OBVIOUS
  <2>9. /\ k \in Nat /\ conflicts' \in Seq(B!ConflictRecord) /\ DOMAIN conflicts' = 1 .. k + 1
        /\ DOMAIN conflicts = 1 .. k /\ conflicts'[k + 1] = c
        /\ \A i \in 1 .. k : conflicts'[i] = conflicts[i]
    BY <2>5, <2>7, <2>8, BoardFacts, AppendProperties
  <2>10. \A i \in 1 .. k + 1 : conflicts'[i].entries \subseteq 1 .. n + 1
    <3> TAKE i \in 1 .. k + 1
    <3>1. CASE i \in 1 .. k
      <4>1. conflicts[i].entries \subseteq 1 .. n
        BY <1>5, <2>9, <3>1, BoardFacts
      <4> QED
        BY <1>5, <2>9, <3>1, <4>1
    <3>2. CASE i = k + 1
      BY <2>7, <2>9, <3>2
    <3> QED
      BY <2>9, <3>1, <3>2
  <2>11. B!TypeOK'
    BY <1>8, <2>6, <2>9, <2>10 DEF B!TypeOK
  <2>12. ASSUME NEW i \in 1 .. n + 1, entries'[i].status = "CONFLICTED"
         PROVE  \E d \in 1 .. k + 1 :
                  i \in conflicts'[d].entries /\ conflicts'[d].resolution_status = "UNRESOLVED"
    <3>1. CASE i \in pair
      BY <2>7, <2>9, <3>1
    <3>2. CASE i \notin pair
      <4>1. i \in 1 .. n /\ entries[i].status = "CONFLICTED"
        BY <1>5, <2>3, <2>6, <2>12, <3>2
      <4>2. PICK d \in 1 .. k : i \in conflicts[d].entries /\ conflicts[d].resolution_status = "UNRESOLVED"
        BY <1>5, <2>9, <4>1 DEF BoardInv, ConflictedCanBeArbitrated, B!ConflictedCanBeArbitrated
      <4> QED
        BY <2>9, <4>2
    <3> QED
      BY <3>1, <3>2
  <2>13. ConflictedCanBeArbitrated'
    BY <2>6, <2>9, <2>12 DEF ConflictedCanBeArbitrated, B!ConflictedCanBeArbitrated
  <2> QED
    BY <2>11, <2>13 DEF BoardInv
<1> QED
  BY <1>9, <1>10

\* Marking some entries as verified or rejected puts none in dispute.
LEMMA MarkStep ==
  ASSUME BoardInv, NEW i \in DOMAIN entries, B!VerifyEntry(i) \/ B!RejectEntry(i)
  PROVE  BoardInv'
<1>1. PICK s \in {"VERIFIED", "REJECTED"} :
        entries' = B!Marked(entries, {i}, s) /\ UNCHANGED <<conflicts, commitments>>
  BY DEF B!VerifyEntry, B!RejectEntry
<1>2. s \in B!BlackboardStatus /\ s # "CONFLICTED"
  BY DEF B!BlackboardStatus
<1>3. /\ entries' \in Seq(B!BlackboardEntry) /\ DOMAIN entries' = DOMAIN entries
      /\ \A j \in DOMAIN entries : entries'[j].status = IF j \in {i} THEN s ELSE entries[j].status
  BY <1>1, <1>2, BoardFacts, MarkedIs
<1> QED
  BY <1>1, <1>2, <1>3 DEF BoardInv, B!TypeOK, ConflictedCanBeArbitrated, B!ConflictedCanBeArbitrated

LEMMA ArbitrationStep ==
  ASSUME BoardInv, NEW c \in DOMAIN conflicts, NEW winner \in DOMAIN entries,
         B!ResolveConflict(c, winner)
  PROVE  BoardInv'
<1>1. PICK ms : ms = conflicts[c].entries
  OBVIOUS
<1>2. PICK es : es = B!Marked(entries, ms \ {winner}, "REJECTED")
  OBVIOUS
<1>3. /\ entries' = B!Marked(es, ms \cap {winner}, "VERIFIED") /\ UNCHANGED commitments
      /\ conflicts' = [conflicts EXCEPT ![c].resolution_status = "RESOLVED"]
  BY <1>1, <1>2 DEF B!ResolveConflict, B!Arbitrated
<1>4. /\ es \in Seq(B!BlackboardEntry) /\ DOMAIN es = DOMAIN entries
      /\ \A j \in DOMAIN entries :
           es[j].status = IF j \in ms \ {winner} THEN "REJECTED" ELSE entries[j].status
  BY <1>2, BoardFacts, MarkedIs DEF B!BlackboardStatus
<1>5. /\ entries' \in Seq(B!BlackboardEntry) /\ DOMAIN entries' = DOMAIN entries
      /\ \A j \in DOMAIN entries :
           entries'[j].status = IF j \in ms \cap {winner} THEN "VERIFIED" ELSE es[j].status
  BY <1>3, <1>4, MarkedIs DEF B!BlackboardStatus
<1>6. PICK r : r = [conflicts[c] EXCEPT !.resolution_status = "RESOLVED"]
  OBVIOUS
<1>7. r \in B!ConflictRecord /\ r.entries = conflicts[c].entries
  BY <1>6, BoardFacts DEF B!ConflictRecord
<1>8. conflicts' = [conflicts EXCEPT ![c] = r]
  BY <1>3, <1>6
<1>9. conflicts' \in Seq(B!ConflictRecord) /\ DOMAIN conflicts' = DOMAIN conflicts
  BY <1>7, <1>8, BoardFacts, ExceptSeq
<1>10. \A d \in DOMAIN conflicts :
         conflicts'[d].entries = conflicts[d].entries /\ (d # c => conflicts'[d] = conflicts[d])
  BY <1>7, <1>8, BoardFacts
<1>11. B!TypeOK'
  BY <1>3, <1>5, <1>9, <1>10 DEF BoardInv, B!TypeOK
<1>12. ASSUME NEW i \in DOMAIN entries, entries'[i].status = "CONFLICTED"
       PROVE  \E d \in DOMAIN conflicts :
                i \in conflicts'[d].entries /\ conflicts'[d].resolution_status = "UNRESOLVED"
  <2>1. i \notin ms /\ entries[i].status = "CONFLICTED"
    BY <1>4, <1>5, <1>12
  <2>2. PICK d \in DOMAIN conflicts :
          i \in conflicts[d].entries /\ conflicts[d].resolution_status = "UNRESOLVED"
    BY <2>1 DEF BoardInv, ConflictedCanBeArbitrated, B!ConflictedCanBeArbitrated
  <2> QED
    BY <1>1, <1>10, <2>1, <2>2
<1> QED
  BY <1>5, <1>9, <1>11, <1>12 DEF BoardInv, ConflictedCanBeArbitrated, B!ConflictedCanBeArbitrated

LEMMA BoardStep == BoardInv /\ [B!Next]_(B!vars) => BoardInv'
<1> SUFFICES ASSUME BoardInv, [B!Next]_(B!vars) PROVE BoardInv'
  OBVIOUS
<1>1. CASE \E c \in Commitments : B!CreateCommitment(c) \/ B!SatisfyCommitment(c) \/ B!FailCommitment(c)
  <2>1. UNCHANGED <<entries, conflicts>> /\ commitments' \in [Commitments -> B!CommitmentStatus \cup {"NONE"}]
    BY <1>1 DEF B!CreateCommitment, B!SatisfyCommitment, B!FailCommitment, B!CommitmentStatus,
                BoardInv, B!TypeOK
  <2> QED
    BY <2>1 DEF BoardInv, B!TypeOK, ConflictedCanBeArbitrated, B!ConflictedCanBeArbitrated
<1>2. CASE UNCHANGED B!vars
  BY <1>2 DEF B!vars, BoardInv, B!TypeOK, ConflictedCanBeArbitrated, B!ConflictedCanBeArbitrated
<1> QED
  BY <1>1, <1>2, PostStep, MarkStep, ArbitrationStep DEF B!Next

LEMMA BoardInit == B!Init => BoardInv
<1> SUFFICES ASSUME B!Init PROVE BoardInv
  OBVIOUS
<1>1. entries = <<>> /\ DOMAIN entries = {} /\ conflicts = <<>> /\ DOMAIN conflicts = {}
      /\ entries \in Seq(B!BlackboardEntry) /\ conflicts \in Seq(B!ConflictRecord)
  BY EmptySeq DEF B!Init
<1> QED
  BY <1>1 DEF B!Init, BoardInv, B!TypeOK, ConflictedCanBeArbitrated, B!ConflictedCanBeArbitrated

\* A claim that is held up has a conflict still to be arbitrated
\* (autonomy/blackboard.py).
THEOREM BoardHolds == B!Spec => [](B!TypeOK /\ B!ConflictedCanBeArbitrated)
<1>1. BoardInv => B!TypeOK /\ B!ConflictedCanBeArbitrated
  BY DEF BoardInv, ConflictedCanBeArbitrated
<1> QED
  BY <1>1, BoardInit, BoardStep, PTL DEF B!Spec

-----------------------------------------------------------------------------
(* Resource leases.  A generation is given to one holder: whoever has the     *)
(* present one holds the lease, and what the others have is older.            *)

ResourcesInv ==
  /\ C!TypeOK
  /\ \A r \in Resources, h \in Holders :
       /\ rleases[r] = None => tokens[h][r] = 0
       /\ rleases[r] # None =>
            /\ tokens[h][r] <= rleases[r].generation
            /\ tokens[h][r] = rleases[r].generation => rleases[r].holder = h

LEMMA ResourceFacts ==
  ASSUME ResourcesInv
  PROVE  /\ rleases \in [Resources -> C!ResourceLease \cup {None}] /\ repoch \in 1 .. MaxEpoch
         /\ tokens \in [Holders -> [Resources -> Nat]] /\ None \notin C!ResourceLease
         /\ \A r \in Resources : rleases[r] # None =>
              /\ rleases[r] \in C!ResourceLease /\ rleases[r].generation \in Nat
              /\ rleases[r].holder \in Holders
  BY WaitingAssumption DEF C!CoordinationAssumption, ResourcesInv, C!TypeOK, C!ResourceLease

\* A lease is marked and nothing else happens.
LEMMA ResourceMarked ==
  ASSUME ResourcesInv, NEW r \in Resources, rleases[r] # None, NEW l \in C!ResourceLease,
         rleases' = [rleases EXCEPT ![r] = l],
         l.holder = rleases[r].holder, l.generation = rleases[r].generation,
         UNCHANGED <<graph, refused, repoch, tokens>>
  PROVE  ResourcesInv'
<1>1. C!TypeOK'
  BY ResourceFacts DEF ResourcesInv, C!TypeOK
<1>2. \A q \in Resources :
        /\ rleases'[q] = None <=> rleases[q] = None
        /\ rleases[q] # None =>
             /\ rleases'[q].generation = rleases[q].generation
             /\ rleases'[q].holder = rleases[q].holder
  BY ResourceFacts
<1> QED
  BY <1>1, <1>2 DEF ResourcesInv

LEMMA AcquireStep ==
  ASSUME ResourcesInv, NEW h \in Holders, NEW r \in Resources, NEW e \in 1 .. repoch,
         C!AcquireResource(h, r, e)
  PROVE  ResourcesInv'
<1>1. PICK g : g = C!NextGeneration(r)
  OBVIOUS
<1>2. PICK l : l = [holder |-> h, generation |-> g, epoch |-> e, late |-> FALSE, status |-> "ACTIVE"]
  OBVIOUS
<1>3. /\ rleases' = [rleases EXCEPT ![r] = l] /\ tokens' = [tokens EXCEPT ![h][r] = g]
      /\ UNCHANGED <<graph, refused, repoch>>
  BY <1>1, <1>2 DEF C!AcquireResource, C!graphs
<1>4. /\ g \in Nat /\ e \in Nat /\ g # 0
      /\ rleases[r] # None => g = rleases[r].generation + 1
  BY <1>1, ResourceFacts DEF C!NextGeneration
<1>5. l \in C!ResourceLease /\ l.holder = h /\ l.generation = g
  BY <1>2, <1>4 DEF C!ResourceLease
<1>6. /\ rleases' \in [Resources -> C!ResourceLease \cup {None}] /\ rleases'[r] = l
      /\ \A q \in Resources : q # r => rleases'[q] = rleases[q]
  BY <1>3, <1>5, ResourceFacts
<1>7. PICK row : row = [tokens[h] EXCEPT ![r] = g]
  OBVIOUS
<1>8. row \in [Resources -> Nat] /\ row[r] = g /\ \A q \in Resources : q # r => row[q] = tokens[h][q]
  BY <1>4, <1>7, ResourceFacts
<1>9. tokens' = [tokens EXCEPT ![h] = row]
  BY <1>3, <1>7
<1>10. /\ tokens' \in [Holders -> [Resources -> Nat]] /\ tokens'[h] = row
       /\ \A i \in Holders : i # h => tokens'[i] = tokens[i]
  BY <1>8, <1>9, ResourceFacts
<1>11. C!TypeOK'
  BY <1>3, <1>6, <1>10 DEF ResourcesInv, C!TypeOK
<1>12. ASSUME NEW q \in Resources, NEW i \in Holders
       PROVE  /\ rleases'[q] = None => tokens'[i][q] = 0
              /\ rleases'[q] # None =>
                   /\ tokens'[i][q] <= rleases'[q].generation
                   /\ tokens'[i][q] = rleases'[q].generation => rleases'[q].holder = i
  <2>1. CASE q # r
    <3>1. rleases'[q] = rleases[q] /\ tokens'[i][q] = tokens[i][q]
      BY <1>6, <1>8, <1>10, <2>1
    <3> QED
      BY <3>1 DEF ResourcesInv
  <2>2. CASE q = r /\ i = h
    BY <1>4, <1>5, <1>6, <1>8, <1>10, <2>2, ResourceFacts
  <2>3. CASE q = r /\ i # h
    <3>1. tokens'[i][r] = tokens[i][r] /\ tokens[i][r] \in Nat /\ rleases'[r].generation = g
      BY <1>5, <1>6, <1>10, <2>3, ResourceFacts
    <3>2. tokens[i][r] < g
      <4>1. CASE rleases[r] = None
        BY <1>4, <4>1 DEF ResourcesInv
      <4>2. CASE rleases[r] # None
        <5>1. tokens[i][r] <= rleases[r].generation /\ rleases[r].generation \in Nat
          BY <4>2, ResourceFacts DEF ResourcesInv
        <5> QED
          BY <1>4, <3>1, <4>2, <5>1
      <4> QED
        BY <4>1, <4>2
    <3>3. rleases'[r] # None
      BY <1>5, <1>6, ResourceFacts
    <3> QED
      BY <1>4, <2>3, <3>1, <3>2, <3>3
  <2> QED
    BY <2>1, <2>2, <2>3
<1> QED
  BY <1>11, <1>12 DEF ResourcesInv

LEMMA RenewStep ==
  ASSUME ResourcesInv, NEW h \in Holders, NEW r \in Resources, C!RenewResource(h, r)
  PROVE  ResourcesInv'
<1>1. rleases[r] # None /\ rleases[r].holder = h
  BY DEF C!RenewResource, C!Live
<1>2. PICK g \in Nat : g = rleases[r].generation
  BY <1>1, ResourceFacts
<1>3. tokens' = [tokens EXCEPT ![h][r] = g] /\ UNCHANGED <<graph, refused, rleases, repoch>>
  BY <1>2 DEF C!RenewResource, C!graphs
<1>4. PICK row : row = [tokens[h] EXCEPT ![r] = g]
  OBVIOUS
<1>5. row \in [Resources -> Nat] /\ row[r] = g /\ \A q \in Resources : q # r => row[q] = tokens[h][q]
  BY <1>4, ResourceFacts
<1>6. tokens' = [tokens EXCEPT ![h] = row]
  BY <1>3, <1>4
<1>7. /\ tokens' \in [Holders -> [Resources -> Nat]] /\ tokens'[h] = row
      /\ \A i \in Holders : i # h => tokens'[i] = tokens[i]
  BY <1>5, <1>6, ResourceFacts
<1>8. C!TypeOK'
  BY <1>3, <1>7 DEF ResourcesInv, C!TypeOK
<1>9. ASSUME NEW q \in Resources, NEW i \in Holders
      PROVE  /\ rleases[q] = None => tokens'[i][q] = 0
             /\ rleases[q] # None =>
                  /\ tokens'[i][q] <= rleases[q].generation
                  /\ tokens'[i][q] = rleases[q].generation => rleases[q].holder = i
  <2>1. CASE q = r /\ i = h
    BY <1>1, <1>2, <1>5, <1>7, <2>1
  <2>2. CASE ~ (q = r /\ i = h)
    <3>1. tokens'[i][q] = tokens[i][q]
      BY <1>5, <1>7, <2>2
    <3> QED
      BY <3>1 DEF ResourcesInv
  <2> QED
    BY <2>1, <2>2
<1> QED
  BY <1>3, <1>8, <1>9 DEF ResourcesInv

LEMMA ResourcesStep ==
  ResourcesInv /\ (C!ResourceNext \/ C!GraphNext \/ UNCHANGED C!vars) => ResourcesInv'
<1> SUFFICES ASSUME ResourcesInv, C!ResourceNext \/ C!GraphNext \/ UNCHANGED C!vars PROVE ResourcesInv'
  OBVIOUS
<1>1. ASSUME NEW r \in Resources, rleases[r] # None, NEW x \in {"RELEASED", "EXPIRED", "REVOKED"},
             rleases' = [rleases EXCEPT ![r].status = x], UNCHANGED <<graph, refused, repoch, tokens>>
      PROVE  ResourcesInv'
  <2>1. PICK l : l = [rleases[r] EXCEPT !.status = x]
    OBVIOUS
  <2>2. l \in C!ResourceLease /\ l.holder = rleases[r].holder /\ l.generation = rleases[r].generation
    BY <1>1, <2>1, ResourceFacts DEF C!ResourceLease
  <2> QED
    BY <1>1, <2>1, <2>2, ResourceMarked
<1>2. ASSUME NEW h \in Holders, NEW r \in Resources, C!ReleaseResource(h, r) PROVE ResourcesInv'
  BY <1>1, <1>2 DEF C!ReleaseResource, C!graphs
<1>3. ASSUME NEW r \in Resources, C!ValidateFails(r) PROVE ResourcesInv'
  BY <1>1, <1>3 DEF C!ValidateFails, C!graphs
<1>4. ASSUME NEW r \in Resources, C!LeaseExpires(r) PROVE ResourcesInv'
  <2>1. rleases[r] # None
    BY <1>4 DEF C!LeaseExpires, C!Live
  <2>2. PICK l : l = [rleases[r] EXCEPT !.late = TRUE]
    OBVIOUS
  <2>3. l \in C!ResourceLease /\ l.holder = rleases[r].holder /\ l.generation = rleases[r].generation
    BY <2>1, <2>2, ResourceFacts DEF C!ResourceLease
  <2> QED
    BY <1>4, <2>1, <2>2, <2>3, ResourceMarked DEF C!LeaseExpires, C!graphs
<1>5. CASE C!KernelRestarts
  BY <1>5, WaitingAssumption DEF C!KernelRestarts, C!graphs, C!CoordinationAssumption, ResourcesInv, C!TypeOK
<1>6. CASE C!GraphNext
  <2>1. UNCHANGED <<rleases, repoch, tokens>>
    BY <1>6 DEF C!GraphNext, C!AddDependency, C!RemoveDependency, C!resources
  <2>2. graph \in [Nodes -> SUBSET Nodes] /\ refused \in BOOLEAN
    BY DEF ResourcesInv, C!TypeOK
  <2>3. graph' \in [Nodes -> SUBSET Nodes] /\ refused' \in BOOLEAN
    <3>1. ASSUME NEW b \in Nodes, NEW q \in Nodes, C!AddDependency(b, q)
          PROVE  graph' \in [Nodes -> SUBSET Nodes] /\ refused' \in BOOLEAN
      BY <2>2, <3>1 DEF C!AddDependency, C!CycleFound
    <3>2. ASSUME NEW b \in Nodes, NEW q \in Nodes, C!RemoveDependency(b, q)
          PROVE  graph' \in [Nodes -> SUBSET Nodes] /\ refused' \in BOOLEAN
      BY <2>2, <3>2 DEF C!RemoveDependency
    <3> QED
      BY <1>6, <3>1, <3>2 DEF C!GraphNext
  <2> QED
    BY <2>1, <2>3 DEF ResourcesInv, C!TypeOK
<1>7. CASE UNCHANGED C!vars
  BY <1>7 DEF C!vars, C!graphs, C!resources, ResourcesInv, C!TypeOK
<1> QED
  BY <1>2, <1>3, <1>4, <1>5, <1>6, <1>7, AcquireStep, RenewStep DEF C!ResourceNext

LEMMA ResourcesInit == C!Init => ResourcesInv
<1> SUFFICES ASSUME C!Init PROVE ResourcesInv
  OBVIOUS
<1>1. /\ rleases = [r \in Resources |-> None] /\ repoch = 1 /\ 1 \in 1 .. MaxEpoch
      /\ tokens = [h \in Holders |-> [r \in Resources |-> 0]]
      /\ graph = [n \in Nodes |-> {}] /\ refused = FALSE
  BY WaitingAssumption DEF C!Init, C!CoordinationAssumption
<1>2. C!TypeOK
  BY <1>1 DEF C!TypeOK
<1> QED
  BY <1>1, <1>2 DEF ResourcesInv

LEMMA HolderIsOne == ResourcesInv => C!OneHolderAtATime
  BY DEF ResourcesInv, C!OneHolderAtATime, C!ValidateResourceAuthority, C!Live

\* The generation of one holder passes the check of a resource, whatever expired, was
\* given back or was taken over, and whatever edges are recorded meanwhile
\* (autonomy/resources.py).
THEOREM HoldersHold ==
  C!Init /\ [][C!ResourceNext \/ C!GraphNext]_(C!vars) => [](C!TypeOK /\ C!OneHolderAtATime)
<1>1. ResourcesInv => C!TypeOK
  BY DEF ResourcesInv
<1>2. ResourcesInv /\ [C!ResourceNext \/ C!GraphNext]_(C!vars) => ResourcesInv'
  BY ResourcesStep
<1> QED
  BY <1>1, <1>2, HolderIsOne, ResourcesInit, PTL

-----------------------------------------------------------------------------
(* The continuity of sessions.  A binding keeps its role and route for ever,   *)
(* and one is made only for a role and route that have none, active or not.   *)

SessionsInv == S!TypeOK /\ OneLogicalBinding

LEMMA SessionFacts ==
  ASSUME SessionsInv
  PROVE  /\ bindings \in Seq(S!ConversationBinding) /\ Len(bindings) \in Nat
         /\ DOMAIN bindings = 1 .. Len(bindings) /\ S!Ids = 1 .. Len(bindings)
         /\ \A b \in S!Ids :
              /\ bindings[b] \in S!ConversationBinding
              /\ bindings[b].role \in Positions /\ bindings[b].route \in Conversations
              /\ bindings[b].ref \in 1 .. MaxRefs /\ bindings[b].active \in BOOLEAN
         /\ request \in [Requests -> S!ModelRequest \cup {None}]
         /\ reopening \in [Recoveries -> S!SessionRecovery \cup {None}]
         /\ None \notin S!ModelRequest \cup S!SessionRecovery
         /\ routeHealth \in [Conversations -> S!RouteHealth] /\ loggedIn \subseteq Conversations
         /\ refs \in 0 .. MaxRefs /\ restarts \in 0 .. MaxRestarts
         /\ MaxRefs \in Nat /\ MaxRestarts \in Nat
<1>1. bindings \in Seq(S!ConversationBinding)
  BY DEF SessionsInv, S!TypeOK
<1>2. Len(bindings) \in Nat /\ DOMAIN bindings = 1 .. Len(bindings)
      /\ \A b \in 1 .. Len(bindings) : bindings[b] \in S!ConversationBinding
  BY <1>1, LenProperties
<1>3. \A b \in 1 .. Len(bindings) :
        /\ bindings[b].role \in Positions /\ bindings[b].route \in Conversations
        /\ bindings[b].ref \in 1 .. MaxRefs /\ bindings[b].active \in BOOLEAN
  BY <1>2 DEF S!ConversationBinding
<1>4. None \notin S!ModelRequest
  BY ModelsAssumption DEF S!ContinuityAssumption, S!ModelRequest
<1>5. None \notin S!SessionRecovery
  <2>1. S!SessionRecovery \subseteq
          [route : Conversations, asked : Nat, ref : Nat, left : SUBSET Nat, recovered : BOOLEAN]
    <3>1. S!Ids \subseteq Nat /\ 1 .. MaxRefs \subseteq Nat
      BY <1>2 DEF S!Ids
    <3>2. SUBSET S!Ids \subseteq SUBSET Nat
      BY <3>1
    <3> QED
      BY <3>1, <3>2 DEF S!SessionRecovery
  <2> QED
    BY <2>1, ModelsAssumption DEF S!ContinuityAssumption
<1>6. MaxRefs \in Nat /\ MaxRestarts \in Nat
  BY ModelsAssumption DEF S!ContinuityAssumption
<1> QED
  BY <1>1, <1>2, <1>3, <1>4, <1>5, <1>6 DEF SessionsInv, S!TypeOK, S!Ids

\* Bindings that keep their roles and routes, and as many of them.
LEMMA BindingsKept ==
  ASSUME SessionsInv,
         bindings' \in Seq(S!ConversationBinding), Len(bindings') = Len(bindings),
         \A b \in S!Ids :
           bindings'[b].role = bindings[b].role /\ bindings'[b].route = bindings[b].route,
         loggedIn' \subseteq Conversations, routeHealth' \in [Conversations -> S!RouteHealth],
         request' \in [Requests -> S!ModelRequest \cup {None}],
         reopening' \in [Recoveries -> S!SessionRecovery \cup {None}],
         refs' \in 0 .. MaxRefs, restarts' \in 0 .. MaxRestarts
  PROVE  SessionsInv'
<1>1. S!Ids' = S!Ids
  BY DEF S!Ids
<1>2. S!SessionRecovery' = S!SessionRecovery
  BY <1>1 DEF S!SessionRecovery
<1> QED
  BY <1>1, <1>2 DEF SessionsInv, S!TypeOK, OneLogicalBinding, S!OneLogicalBinding

\* A slot is bound again.
LEMMA BoundAgain ==
  ASSUME SessionsInv, NEW b \in S!Ids, NEW ref \in 1 .. MaxRefs
  PROVE  /\ S!Bound(b, ref) \in Seq(S!ConversationBinding) /\ Len(S!Bound(b, ref)) = Len(bindings)
         /\ \A d \in S!Ids : S!Bound(b, ref)[d].role = bindings[d].role
                             /\ S!Bound(b, ref)[d].route = bindings[d].route
<1>1. PICK u : u = [bindings[b] EXCEPT !.ref = ref, !.active = TRUE]
  OBVIOUS
<1>2. u \in S!ConversationBinding /\ u.role = bindings[b].role /\ u.route = bindings[b].route
  BY <1>1, SessionFacts DEF S!ConversationBinding
<1>3. S!Bound(b, ref) = [bindings EXCEPT ![b] = u]
  BY <1>1, SessionFacts DEF S!Bound
<1> QED
  BY <1>2, <1>3, SessionFacts, ExceptSeq

LEMMA OpenedTyped ==
  ASSUME SessionsInv, NEW ref \in 1 .. MaxRefs, S!Opened(ref) PROVE refs' \in 0 .. MaxRefs
  BY SessionFacts DEF S!Opened

LEMMA AnsweredStep ==
  ASSUME SessionsInv, NEW q \in Requests, S!RequestAnswered(q) PROVE SessionsInv'
<1>1. request[q] \in S!ModelRequest
      /\ request[q].role \in Positions /\ request[q].route \in Conversations
  BY SessionFacts DEF S!RequestAnswered, S!ModelRequest
<1>2. PICK l \in Positions, r \in Conversations : l = request[q].role /\ r = request[q].route
  BY <1>1
<1>3. PICK ref \in 1 .. MaxRefs : bindings' = S!Upsert(l, r, ref) /\ S!Opened(ref)
  BY <1>2 DEF S!RequestAnswered, S!Record, S!Returned
<1>4. /\ routeHealth' \in [Conversations -> S!RouteHealth]
      /\ request' \in [Requests -> S!ModelRequest \cup {None}]
      /\ UNCHANGED <<loggedIn, reopening, restarts>>
  BY <1>1, SessionFacts DEF S!RequestAnswered, S!RouteHealth
<1>5. refs' \in 0 .. MaxRefs
  BY <1>3, OpenedTyped
<1>6. ASSUME NEW b \in S!Ids, bindings' = S!Bound(b, ref) PROVE SessionsInv'
  BY <1>4, <1>5, <1>6, BoundAgain, BindingsKept, SessionFacts
<1>7. CASE S!ActiveOn(l, r) # {}
  <2>1. (CHOOSE b \in S!ActiveOn(l, r) : TRUE) \in S!Ids
    BY <1>7 DEF S!ActiveOn, S!Of
  <2> QED
    BY <1>3, <1>6, <1>7, <2>1 DEF S!Upsert
<1>8. CASE S!ActiveOn(l, r) = {} /\ S!Reusable(l, r) # {}
  <2>1. (CHOOSE b \in S!Reusable(l, r) : TRUE) \in S!Ids
    BY <1>8 DEF S!Reusable, S!InactiveOn
  <2> QED
    BY <1>3, <1>6, <1>8, <2>1 DEF S!Upsert
<1>9. CASE S!ActiveOn(l, r) = {} /\ S!Reusable(l, r) = {}
  <2>1. PICK n : n = Len(bindings)
    OBVIOUS
  <2>2. PICK u : u = [role |-> l, route |-> r, ref |-> ref, active |-> TRUE]
    OBVIOUS
  <2>3. u \in S!ConversationBinding /\ u.role = l /\ u.route = r
    BY <2>2 DEF S!ConversationBinding
  <2>4. bindings' = Append(bindings, u)
    BY <1>3, <1>9, <2>2 DEF S!Upsert
  <2>5. /\ n \in Nat /\ bindings' \in Seq(S!ConversationBinding) /\ Len(bindings') = n + 1
        /\ bindings'[n + 1] = u /\ \A b \in 1 .. n : bindings'[b] = bindings[b]
    BY <2>1, <2>3, <2>4, SessionFacts, AppendProperties
  <2>6. S!Ids = 1 .. n /\ S!Ids' = 1 .. n + 1
    BY <2>1, <2>5 DEF S!Ids
  <2>7. \A b \in 1 .. n : bindings[b].role # l \/ bindings[b].route # r
    BY <1>9, <2>6, SessionFacts DEF S!ActiveOn, S!Of, S!Reusable, S!InactiveOn
  <2>8. OneLogicalBinding'
    <3> SUFFICES ASSUME NEW a \in 1 .. n + 1, NEW b \in 1 .. n + 1,
                        bindings'[a].role = bindings'[b].role, bindings'[a].route = bindings'[b].route
                 PROVE  a = b
      BY <2>6 DEF OneLogicalBinding, S!OneLogicalBinding
    <3>1. CASE a \in 1 .. n /\ b \in 1 .. n
      BY <2>5, <2>6, <3>1 DEF SessionsInv, OneLogicalBinding, S!OneLogicalBinding
    <3>2. CASE a = n + 1 \/ b = n + 1
      BY <2>3, <2>5, <2>7, <3>2
    <3> QED
      BY <2>5, <3>1, <3>2
  <2>9. S!SessionRecovery \subseteq S!SessionRecovery'
    BY <2>5, <2>6 DEF S!SessionRecovery
  <2>10. S!TypeOK'
    BY <1>4, <1>5, <2>5, <2>9, SessionFacts DEF S!TypeOK
  <2> QED
    BY <2>8, <2>10 DEF SessionsInv
<1> QED
  BY <1>7, <1>8, <1>9

\* A driver is asked for one of some bindings.
LEMMA AskedTyped ==
  ASSUME SessionsInv, NEW s \in Recoveries, NEW r \in Conversations, NEW ids \in SUBSET S!Ids,
         NEW recovered \in BOOLEAN, S!Asks(s, r, ids, recovered)
  PROVE  reopening' \in [Recoveries -> S!SessionRecovery \cup {None}]
<1>1. PICK b \in ids : reopening' = [reopening EXCEPT ![s] =
        [route |-> r, asked |-> b, ref |-> bindings[b].ref, left |-> ids \ {b}, recovered |-> recovered]]
  BY DEF S!Asks
<1>2. PICK ref \in 1 .. MaxRefs : ref = bindings[b].ref
  BY SessionFacts
<1>3. PICK left \in SUBSET S!Ids : left = ids \ {b}
  OBVIOUS
<1>4. PICK u : u = [route |-> r, asked |-> b, ref |-> ref, left |-> left, recovered |-> recovered]
  OBVIOUS
<1>5. u \in S!SessionRecovery
  BY <1>4 DEF S!SessionRecovery
<1>6. reopening' = [reopening EXCEPT ![s] = u]
  BY <1>1, <1>2, <1>3, <1>4
<1> QED
  BY <1>5, <1>6, SessionFacts

LEMMA ReopenStep ==
  ASSUME SessionsInv, NEW s \in Recoveries, S!RecoverBinding(s) PROVE SessionsInv'
<1>1. /\ reopening[s].route \in Conversations /\ reopening[s].asked \in S!Ids
      /\ reopening[s].ref \in 1 .. MaxRefs /\ reopening[s].left \in SUBSET S!Ids
      /\ reopening[s].recovered \in BOOLEAN
  <2>1. reopening[s] \in S!SessionRecovery
    BY SessionFacts DEF S!RecoverBinding
  <2> QED
    BY <2>1 DEF S!SessionRecovery
<1>2. PICK r \in Conversations : r = reopening[s].route
  BY <1>1
<1>3. ASSUME NEW ok \in BOOLEAN, S!MovesOn(s, ok)
      PROVE  /\ reopening' \in [Recoveries -> S!SessionRecovery \cup {None}]
             /\ routeHealth' \in [Conversations -> S!RouteHealth]
  <2>1. CASE reopening[s].left = {}
    BY <1>2, <1>3, <2>1, SessionFacts DEF S!MovesOn, S!RouteHealth
  <2>2. CASE reopening[s].left # {}
    <3>1. PICK left \in SUBSET S!Ids : left = reopening[s].left
      BY <1>1
    <3>2. S!Asks(s, r, left, ok) /\ UNCHANGED routeHealth
      BY <1>2, <1>3, <2>2, <3>1 DEF S!MovesOn
    <3>3. reopening' \in [Recoveries -> S!SessionRecovery \cup {None}]
      BY <3>2, AskedTyped
    <3> QED
      BY <3>2, <3>3, SessionFacts
  <2> QED
    BY <2>1, <2>2
<1>4. UNCHANGED <<loggedIn, request, restarts>>
  BY DEF S!RecoverBinding
<1>5. CASE (\E ref \in S!Returned(reopening[s].ref) :
              bindings' = S!Bound(reopening[s].asked, ref) /\ S!Opened(ref)) /\ S!MovesOn(s, TRUE)
  <2>1. PICK ref \in 1 .. MaxRefs : bindings' = S!Bound(reopening[s].asked, ref) /\ S!Opened(ref)
    BY <1>5 DEF S!Returned
  <2> QED
    BY <1>1, <1>3, <1>4, <1>5, <2>1, BoundAgain, OpenedTyped, BindingsKept, SessionFacts
<1>6. CASE S!MovesOn(s, reopening[s].recovered) /\ UNCHANGED <<bindings, refs>>
  BY <1>1, <1>3, <1>4, <1>6, BindingsKept, SessionFacts
<1> QED
  BY <1>5, <1>6 DEF S!RecoverBinding

LEMMA SessionsStep == SessionsInv /\ [S!Next]_(S!vars) => SessionsInv'
<1> SUFFICES ASSUME SessionsInv, [S!Next]_(S!vars) PROVE SessionsInv'
  OBVIOUS
<1>1. ASSUME NEW r \in Conversations, S!SessionChanges(r) PROVE SessionsInv'
  <2>1. loggedIn' \subseteq Conversations
    BY <1>1, SessionFacts DEF S!SessionChanges
  <2> QED
    BY <1>1, <2>1, BindingsKept, SessionFacts DEF S!SessionChanges
<1>2. ASSUME NEW q \in Requests, NEW l \in Positions, NEW r \in Conversations, S!SendRequest(q, l, r)
      PROVE  SessionsInv'
  <2>1. S!Continued(l, r) \in 0 .. MaxRefs
    <3>1. CASE S!ActiveOn(l, r) = {}
      BY <3>1, SessionFacts DEF S!Continued
    <3>2. CASE S!ActiveOn(l, r) # {}
      <4>1. PICK b \in S!Ids : b = CHOOSE d \in S!ActiveOn(l, r) : TRUE
        BY <3>2 DEF S!ActiveOn, S!Of
      <4> QED
        BY <3>2, <4>1, SessionFacts DEF S!Continued
    <3> QED
      BY <3>1, <3>2
  <2>2. PICK m \in S!ModelRequest : m = [role |-> l, route |-> r, ref |-> S!Continued(l, r)]
    BY <2>1 DEF S!ModelRequest
  <2>3. request' = [request EXCEPT ![q] = m]
    BY <1>2, <2>2 DEF S!SendRequest
  <2> QED
    BY <1>2, <2>3, BindingsKept, SessionFacts DEF S!SendRequest
<1>3. ASSUME NEW q \in Requests, S!RequestFails(q) PROVE SessionsInv'
  <2>1. PICK m \in S!ModelRequest : m = request[q]
    BY <1>3, SessionFacts DEF S!RequestFails
  <2>2. request[q].route \in Conversations
    BY <2>1 DEF S!ModelRequest
  <2>3. /\ request' \in [Requests -> S!ModelRequest \cup {None}]
        /\ routeHealth' \in [Conversations -> S!RouteHealth]
    BY <1>3, <2>2, SessionFacts DEF S!RequestFails, S!RouteHealth
  <2> QED
    BY <1>3, <2>3, BindingsKept, SessionFacts DEF S!RequestFails
<1>4. ASSUME NEW r \in Conversations, S!ProbeFindsSession(r) \/ S!ProbeFails(r) PROVE SessionsInv'
  <2>1. /\ routeHealth' \in [Conversations -> S!RouteHealth]
        /\ UNCHANGED <<loggedIn, bindings, request, reopening, refs, restarts>>
    BY <1>4, SessionFacts DEF S!ProbeFindsSession, S!ProbeFails, S!RouteHealth
  <2> QED
    BY <2>1, BindingsKept, SessionFacts
<1>5. ASSUME NEW r \in Conversations, S!ProbeFindsNoSession(r) PROVE SessionsInv'
  <2>1. /\ routeHealth' \in [Conversations -> S!RouteHealth] /\ bindings' = S!Invalidated(r)
        /\ UNCHANGED <<loggedIn, request, reopening, refs, restarts>>
    BY <1>5, SessionFacts DEF S!ProbeFindsNoSession, S!RouteHealth
  <2>2. \A b \in S!Ids :
          /\ bindings'[b] \in S!ConversationBinding
          /\ bindings'[b].role = bindings[b].role /\ bindings'[b].route = bindings[b].route
    BY <2>1, SessionFacts DEF S!Invalidated, S!ConversationBinding
  <2>3. bindings' \in [1 .. Len(bindings) -> S!ConversationBinding]
    BY <2>1, <2>2, SessionFacts DEF S!Invalidated
  <2>4. bindings' \in Seq(S!ConversationBinding) /\ Len(bindings') = Len(bindings)
    BY <2>3, SessionFacts
  <2> QED
    BY <2>1, <2>2, <2>4, BindingsKept, SessionFacts
<1>6. ASSUME NEW s \in Recoveries, NEW r \in Conversations, S!BeginRecovery(s, r) PROVE SessionsInv'
  <2>1. routeHealth' \in [Conversations -> S!RouteHealth]
    BY <1>6, SessionFacts DEF S!BeginRecovery, S!RouteHealth
  <2>2. reopening' \in [Recoveries -> S!SessionRecovery \cup {None}]
    <3>1. S!InactiveOn(r) \in SUBSET S!Ids
      BY DEF S!InactiveOn
    <3>2. UNCHANGED reopening \/ S!Asks(s, r, S!InactiveOn(r), FALSE)
      BY <1>6 DEF S!BeginRecovery
    <3> QED
      BY <3>1, <3>2, AskedTyped, SessionFacts
  <2>3. UNCHANGED <<loggedIn, bindings, request, refs, restarts>>
    BY <1>6 DEF S!BeginRecovery
  <2> QED
    BY <2>1, <2>2, <2>3, BindingsKept, SessionFacts
<1>7. CASE S!ControlPlaneRestarts
  <2>1. /\ routeHealth' \in [Conversations -> S!RouteHealth]
        /\ request' \in [Requests -> S!ModelRequest \cup {None}]
        /\ reopening' \in [Recoveries -> S!SessionRecovery \cup {None}]
        /\ restarts' \in 0 .. MaxRestarts /\ UNCHANGED <<loggedIn, bindings, refs>>
    BY <1>7, SessionFacts DEF S!ControlPlaneRestarts, S!RouteHealth
  <2> QED
    BY <2>1, BindingsKept, SessionFacts
<1>8. CASE UNCHANGED S!vars
  BY <1>8, BindingsKept, SessionFacts DEF S!vars
<1> QED
  BY <1>1, <1>2, <1>3, <1>4, <1>5, <1>6, <1>7, <1>8, AnsweredStep, ReopenStep DEF S!Next

LEMMA SessionsInit == S!Init => SessionsInv
<1> SUFFICES ASSUME S!Init PROVE SessionsInv
  OBVIOUS
<1>1. bindings = <<>> /\ Len(bindings) = 0 /\ bindings \in Seq(S!ConversationBinding) /\ S!Ids = {}
  BY EmptySeq DEF S!Init, S!Ids
<1>2. MaxRefs \in Nat /\ MaxRestarts \in Nat
  BY ModelsAssumption DEF S!ContinuityAssumption
<1> QED
  BY <1>1, <1>2 DEF S!Init, SessionsInv, S!TypeOK, S!RouteHealth, OneLogicalBinding, S!OneLogicalBinding

\* A role's work on a route stays one logical binding, however requests, probes,
\* recoveries and restarts interleave (intelligence/sessions.py).
THEOREM SessionsHold == S!Spec => [](S!TypeOK /\ S!OneLogicalBinding)
<1>1. SessionsInv => S!TypeOK /\ S!OneLogicalBinding
  BY DEF SessionsInv, OneLogicalBinding
<1> QED
  BY <1>1, SessionsInit, SessionsStep, PTL DEF S!Spec

-----------------------------------------------------------------------------
(* The cognitive cycle.  A node is worked on exactly while a stage is waited   *)
(* for; at each stage those are seated whom the next is compared with, and     *)
(* nobody who is compared with those that are seated next; no consequential    *)
(* node is at the direct stage, and one that is verified has its result.       *)

\* The roles that have a seat at each stage of a council.
Seated(at) ==
  CASE at = "first" -> {}
    [] at = "architect" -> {"first"}
    [] at = "critic" -> {"first", "architect"}
    [] at = "members" -> {"first", "architect", "critic"}
    [] at = "resolution" -> {"first", "architect", "critic", "resolver"}

Council == {"first", "architect", "critic", "members", "resolution"}

CycleInv ==
  /\ M!TypeOK /\ CouncilOfIndependents
  /\ stage = None <=> node = None
  /\ stage = "direct" => node \notin A2
  /\ stage \in Council => \A role \in M!Roles : seat[role] # None <=> role \in Seated(stage)
  /\ stage = "verification" => status[node] = "verifying"

LEMMA CycleFacts ==
  ASSUME CycleInv
  PROVE  /\ verifier \in BOOLEAN /\ status \in [Work -> M!TaskNodeStatus]
         /\ ready \subseteq Work /\ node \in Work \cup {None} /\ stage \in M!Stage \cup {None}
         /\ seat \in [M!Roles -> Seats \cup {None}] /\ waiting \subseteq M!Roles
         /\ claims \in [M!Members -> SUBSET M!ClaimStance]
         /\ mode \in [Work -> M!CognitiveExecutionMode \cup {None}] /\ eligible \subseteq Seats
         /\ A2 \subseteq Work /\ None \notin Work /\ None \notin Seats /\ None \notin M!Stage
  BY ModelsAssumption DEF CycleInv, M!TypeOK, M!CouncilAssignment, M!MissionAssumption

LEMMA DiffersIs ==
  /\ DOMAIN M!Differs = {"critic", "resolver", "synthesizer"}
  /\ M!Differs["critic"] = {"first"} /\ M!Differs["resolver"] = M!Members
  /\ M!Differs["synthesizer"] = M!Members
  BY DEF M!Differs

\* A council that gives up leaves no seat behind, and its node goes on alone only when it
\* is not a consequential one.
LEMMA GivesUpStep ==
  ASSUME CycleInv, stage \in M!Stage, M!GivesUpOnCouncil PROVE CycleInv'
<1>1. node \in Work
  BY CycleFacts DEF CycleInv
<1>2. /\ seat' = M!NoCouncil /\ waiting' = {} /\ claims' = M!NoClaims
      /\ UNCHANGED <<verifier, mode, eligible>>
  BY DEF M!GivesUpOnCouncil
<1>3. /\ seat' \in M!CouncilAssignment /\ claims' \in [M!Members -> SUBSET M!ClaimStance]
      /\ \A role \in M!Roles : seat'[role] = None
  BY <1>2 DEF M!NoCouncil, M!CouncilAssignment, M!NoClaims
<1>4. /\ status' \in [Work -> M!TaskNodeStatus] /\ ready' \subseteq Work
      /\ node' \in Work \cup {None} /\ stage' \in {"direct", None}
      /\ stage' = None <=> node' = None
      /\ stage' = "direct" => node' \notin A2
      /\ \A n \in Work : status'[n] \in M!HasResult => status[n] \in M!HasResult
  <2>1. CASE M!FallsBack(node)
    BY <1>1, <2>1, CycleFacts DEF M!GivesUpOnCouncil, M!FallsBack, M!Stage
  <2>2. CASE ~M!FallsBack(node)
    BY <1>1, <2>2, CycleFacts DEF M!GivesUpOnCouncil, M!TaskNodeStatus, M!Stage, M!HasResult
  <2> QED
    BY <2>1, <2>2
<1>5. CouncilOfIndependents'
  <2>1. ASSUME NEW a \in DOMAIN M!Differs, NEW b \in M!Differs[a], seat'[a] # None
       PROVE  seat'[b] # None /\ seat'[a] # seat'[b] /\ ModelOf[seat'[a]] # ModelOf[seat'[b]]
    BY <1>3, <2>1, DiffersIs DEF M!Roles, M!Members
  <2>2. \A n \in A2 : status'[n] \in M!HasResult => mode'[n] = "council"
    BY <1>2, <1>4, CycleFacts DEF CycleInv, CouncilOfIndependents, M!CouncilOfIndependents
  <2> QED
    BY <2>1, <2>2 DEF CouncilOfIndependents, M!CouncilOfIndependents, M!Differs, M!HasResult
<1>6. M!TypeOK'
  BY <1>2, <1>3, <1>4, CycleFacts DEF M!TypeOK, M!Stage
<1>7. stage' \notin Council /\ stage' # "verification"
  BY <1>4, CycleFacts DEF Council, M!Stage
<1> QED
  BY <1>4, <1>5, <1>6, <1>7 DEF CycleInv

\* A role without a seat is given a route that is independent of those it is compared
\* with, all of whom have one.
LEMMA SeatStep ==
  ASSUME CycleInv, stage \in Council, NEW role \in M!Roles, role \notin Seated(stage),
         NEW taken, NEW later \in Council \cup {"synthesis"}, NEW asked \in SUBSET M!Roles,
         M!Seat(role, taken, later, asked),
         role \in DOMAIN M!Differs =>
           \A b \in M!Differs[role] : b \in Seated(stage) /\ seat[b] \in taken,
         later \in Council => Seated(later) = Seated(stage) \cup {role}
  PROVE  CycleInv'
<1>1. CASE M!GivesUpOnCouncil
  BY <1>1, GivesUpStep DEF Council, M!Stage
<1>2. ASSUME NEW r \in M!Independent(taken), seat' = [seat EXCEPT ![role] = r],
             stage' = later, waiting' = asked, claims' = M!NoClaims,
             UNCHANGED <<verifier, status, ready, node, mode, eligible>>
      PROVE  CycleInv'
  <2>1. /\ r \in Seats /\ r # None /\ r \notin taken
        /\ \A t \in taken : ModelOf[r] # ModelOf[t]
    BY <1>2, CycleFacts DEF M!Independent
  <2>2. /\ seat' \in M!CouncilAssignment /\ claims' \in [M!Members -> SUBSET M!ClaimStance]
        /\ later \in M!Stage /\ later # None /\ later # "direct" /\ later # "verification"
    BY <1>2, <2>1, CycleFacts DEF M!CouncilAssignment, M!NoClaims, M!Stage, Council
  <2>3. M!TypeOK'
    BY <1>2, <2>2, CycleFacts DEF M!TypeOK
  <2>4. \A a \in M!Roles : seat'[a] = IF a = role THEN r ELSE seat[a]
    BY <1>2, CycleFacts
  <2>5. \A a \in M!Roles : seat[a] # None <=> a \in Seated(stage)
    BY DEF CycleInv
  <2>6. ASSUME NEW a \in DOMAIN M!Differs, NEW b \in M!Differs[a], seat'[a] # None
        PROVE  seat'[b] # None /\ seat'[a] # seat'[b] /\ ModelOf[seat'[a]] # ModelOf[seat'[b]]
    <3>1. a \in M!Roles /\ b \in M!Roles
      BY DiffersIs DEF M!Roles, M!Members
    <3>2. CASE a = role
      <4>1. b \in Seated(stage) /\ seat[b] \in taken /\ b # role
        BY <3>2
      <4> QED
        BY <2>1, <2>4, <2>5, <3>1, <3>2, <4>1
    <3>3. CASE a # role
      <4>1. seat[b] # None /\ seat[a] # seat[b] /\ ModelOf[seat[a]] # ModelOf[seat[b]]
        BY <2>4, <2>6, <3>1, <3>3 DEF CycleInv, CouncilOfIndependents, M!CouncilOfIndependents
      <4>2. b # role
        BY <2>5, <3>1, <4>1
      <4> QED
        BY <2>4, <3>1, <3>3, <4>1, <4>2
    <3> QED
      BY <3>2, <3>3
  <2>7. CouncilOfIndependents'
    <3>1. \A n \in A2 : status'[n] \in M!HasResult => mode'[n] = "council"
      BY <1>2 DEF CycleInv, CouncilOfIndependents, M!CouncilOfIndependents
    <3> QED
      BY <2>6, <3>1 DEF CouncilOfIndependents, M!CouncilOfIndependents, M!Differs, M!HasResult
  <2>8. stage' # None /\ node' # None
    BY <1>2, <2>2, CycleFacts DEF CycleInv, Council, M!Stage
  <2>9. stage' \in Council => \A a \in M!Roles : seat'[a] # None <=> a \in Seated(stage')
    BY <1>2, <2>1, <2>4, <2>5
  <2>10. stage' # "direct" /\ stage' # "verification"
    BY <1>2, <2>2
  <2> QED
    BY <2>3, <2>7, <2>8, <2>9, <2>10 DEF CycleInv, Seated, Council
<1> QED
  BY <1>1, <1>2 DEF M!Seat

LEMMA MembersSeated == ASSUME CycleInv, M!SeatMembers PROVE CycleInv'
<1>1. CASE stage = "first" /\ M!Seat("first", {}, "architect", {})
  <2>1. /\ "first" \in M!Roles /\ "first" \notin Seated(stage) /\ "first" \notin DOMAIN M!Differs
        /\ stage \in Council /\ "architect" \in Council
        /\ Seated("architect") = Seated(stage) \cup {"first"}
    BY <1>1, DiffersIs DEF M!Roles, Seated, Council
  <2> QED
    BY <1>1, <2>1, SeatStep
<1>2. CASE stage = "architect" /\ M!Seat("architect", {}, "critic", {})
  <2>1. /\ "architect" \in M!Roles /\ "architect" \notin Seated(stage)
        /\ "architect" \notin DOMAIN M!Differs
        /\ stage \in Council /\ "critic" \in Council
        /\ Seated("critic") = Seated(stage) \cup {"architect"}
    BY <1>2, DiffersIs DEF M!Roles, M!Members, Seated, Council
  <2> QED
    BY <1>2, <2>1, SeatStep
<1>3. CASE stage = "critic" /\ M!Seat("critic", {seat["first"]}, "members", M!Members)
  <2>1. /\ "critic" \in M!Roles /\ "critic" \notin Seated(stage) /\ "first" \in Seated(stage)
        /\ stage \in Council /\ "members" \in Council /\ M!Members \subseteq M!Roles
        /\ Seated("members") = Seated(stage) \cup {"critic"}
    BY <1>3 DEF M!Roles, M!Members, Seated, Council
  <2>2. \A b \in M!Differs["critic"] : b \in Seated(stage) /\ seat[b] \in {seat["first"]}
    BY <2>1, DiffersIs
  <2> QED
    BY <1>3, <2>1, <2>2, SeatStep
<1> QED
  BY <1>1, <1>2, <1>3 DEF M!SeatMembers

\* The resolver and the synthesizer are compared with the members, who are seated.
LEMMA MembersTaken ==
  ASSUME stage \in {"members", "resolution"}
  PROVE  \A b \in M!Members : b \in Seated(stage) /\ seat[b] \in M!MembersOnSeats
  BY DEF Seated, M!Members, M!MembersOnSeats

LEMMA SynthesizeStep ==
  ASSUME CycleInv, stage \in {"members", "resolution"}, M!Synthesize PROVE CycleInv'
<1>1. /\ "synthesizer" \in M!Roles /\ "synthesizer" \notin Seated(stage) /\ stage \in Council
      /\ "synthesis" \notin Council
  BY DEF M!Roles, Seated, Council
<1>2. \A b \in M!Differs["synthesizer"] : b \in Seated(stage) /\ seat[b] \in M!MembersOnSeats
  BY DiffersIs, MembersTaken
<1> QED
  BY <1>1, <1>2, SeatStep DEF M!Synthesize

LEMMA AnswerStep ==
  ASSUME CycleInv, NEW role \in M!Members, NEW stances \in SUBSET M!ClaimStance,
         M!MemberAnswers(role, stances)
  PROVE  CycleInv'
<1>1. PICK made : made = [claims EXCEPT ![role] = stances]
  OBVIOUS
<1>2. stage = "members" /\ role \in waiting
  BY DEF M!MemberAnswers
<1>3. CASE M!Synthesize
  BY <1>2, <1>3, SynthesizeStep
<1>4. CASE M!Seat("resolver", M!MembersOnSeats, "resolution", {"resolver"})
  <2>1. /\ "resolver" \in M!Roles /\ "resolver" \notin Seated(stage) /\ stage \in Council
        /\ "resolution" \in Council /\ Seated("resolution") = Seated(stage) \cup {"resolver"}
    BY <1>2 DEF M!Roles, Seated, Council
  <2>2. \A b \in M!Differs["resolver"] : b \in Seated(stage) /\ seat[b] \in M!MembersOnSeats
    BY <1>2, DiffersIs, MembersTaken
  <2> QED
    BY <1>4, <2>1, <2>2, SeatStep
<1>5. CASE waiting # {role}
  <2>1. /\ waiting' = waiting \ {role} /\ claims' = made
        /\ UNCHANGED <<verifier, status, ready, node, stage, seat, mode, eligible>>
    BY <1>1, <1>5 DEF M!MemberAnswers
  <2>2. claims' \in [M!Members -> SUBSET M!ClaimStance]
    BY <1>1, <2>1, CycleFacts
  <2>3. M!TypeOK'
    BY <2>1, <2>2, CycleFacts DEF M!TypeOK, CycleInv
  <2> QED
    BY <2>1, <2>3 DEF CycleInv, CouncilOfIndependents, M!CouncilOfIndependents
<1> QED
  BY <1>3, <1>4, <1>5 DEF M!MemberAnswers

LEMMA CycleStep == CycleInv /\ [M!Next]_(M!vars) => CycleInv'
<1> SUFFICES ASSUME CycleInv, [M!Next]_(M!vars) PROVE CycleInv'
  OBVIOUS
<1>1. ASSUME NEW r \in Seats, M!RouteChanges(r) PROVE CycleInv'
  <2>1. eligible' \subseteq Seats
    BY <1>1, CycleFacts DEF M!RouteChanges
  <2> QED
    BY <1>1, <2>1 DEF M!RouteChanges, CycleInv, M!TypeOK, CouncilOfIndependents,
                      M!CouncilOfIndependents
<1>2. CASE M!StartCycle
  <2>1. /\ M!Refreshed \in [Work -> M!TaskNodeStatus]
        /\ \A n \in Work : M!Refreshed[n] \in M!HasResult => status[n] \in M!HasResult
    BY CycleFacts DEF M!Refreshed, M!TaskNodeStatus, M!HasResult
  <2>2. /\ status' = M!Refreshed /\ ready' \subseteq Work /\ node = None
        /\ UNCHANGED <<verifier, node, stage, seat, waiting, claims, mode, eligible>>
    BY <1>2 DEF M!StartCycle
  <2>3. CouncilOfIndependents'
    BY <2>1, <2>2, CycleFacts DEF CycleInv, CouncilOfIndependents, M!CouncilOfIndependents
  <2>4. M!TypeOK'
    BY <2>1, <2>2, CycleFacts DEF M!TypeOK, M!CouncilAssignment
  <2>5. stage' = None
    BY <2>2 DEF CycleInv
  <2> QED
    BY <2>2, <2>3, <2>4, <2>5, CycleFacts DEF CycleInv, M!Stage, Council
<1>3. ASSUME NEW n \in Work, M!BeginNode(n) PROVE CycleInv'
  <2>1. /\ node' = n /\ ready' = ready \ {n} /\ waiting' = {} /\ seat' = M!NoCouncil
        /\ status' = [status EXCEPT ![n] = "cognitive_work"]
        /\ stage' = (IF M!UsesCouncil(n) THEN "first" ELSE "direct")
        /\ UNCHANGED <<verifier, claims, mode, eligible>>
    BY <1>3 DEF M!BeginNode
  <2>2. /\ status' \in [Work -> M!TaskNodeStatus] /\ stage' \in {"first", "direct"}
        /\ stage' = "direct" => n \notin A2
        /\ \A k \in Work : status'[k] \in M!HasResult => status[k] \in M!HasResult
    BY <2>1, CycleFacts DEF M!TaskNodeStatus, M!UsesCouncil, M!HasResult
  <2>3. seat' \in M!CouncilAssignment /\ \A role \in M!Roles : seat'[role] = None
    BY <2>1 DEF M!NoCouncil, M!CouncilAssignment
  <2>4. M!TypeOK'
    BY <2>1, <2>2, <2>3, CycleFacts DEF M!TypeOK, M!Stage
  <2>5. CouncilOfIndependents'
    <3>1. ASSUME NEW a \in DOMAIN M!Differs, NEW b \in M!Differs[a], seat'[a] # None
         PROVE  seat'[b] # None /\ seat'[a] # seat'[b] /\ ModelOf[seat'[a]] # ModelOf[seat'[b]]
      BY <2>3, <3>1, DiffersIs DEF M!Roles, M!Members
    <3>2. \A k \in A2 : status'[k] \in M!HasResult => mode'[k] = "council"
      BY <2>1, <2>2, CycleFacts DEF CycleInv, CouncilOfIndependents, M!CouncilOfIndependents
    <3> QED
      BY <3>1, <3>2 DEF CouncilOfIndependents, M!CouncilOfIndependents, M!Differs, M!HasResult
  <2>6. stage' # None /\ node' # None
    BY <2>1, <2>2, CycleFacts DEF M!Stage
  <2>7. stage' \in Council => \A role \in M!Roles : seat'[role] # None <=> role \in Seated(stage')
    BY <2>2, <2>3 DEF Council, Seated
  <2> QED
    BY <2>1, <2>2, <2>4, <2>5, <2>6, <2>7 DEF CycleInv, Seated, Council
<1>4. CASE M!SeatMembers
  BY <1>4, MembersSeated
<1>5. ASSUME NEW role \in M!Members, NEW stances \in SUBSET M!ClaimStance,
             M!MemberAnswers(role, stances)
      PROVE  CycleInv'
  BY <1>5, AnswerStep
<1>6. CASE M!ResolverAnswers
  BY <1>6, SynthesizeStep DEF M!ResolverAnswers
<1>7. ASSUME NEW role \in M!Roles, M!CouncilCallFails(role) PROVE CycleInv'
  BY <1>7, GivesUpStep DEF M!CouncilCallFails, M!Stage
<1>8. ASSUME NEW proposesTools \in BOOLEAN, M!ResultArrives(proposesTools) PROVE CycleInv'
  <2>1. stage \in {"synthesis", "direct"} /\ node \in Work
    BY <1>8, CycleFacts DEF M!ResultArrives, CycleInv, M!Stage
  <2>2. PICK how : how = IF stage = "direct" THEN "direct" ELSE "council"
    OBVIOUS
  <2>3. PICK what : what = IF proposesTools THEN "tool_proposed" ELSE "verifying"
    OBVIOUS
  <2>4. /\ mode' = [mode EXCEPT ![node] = how] /\ status' = [status EXCEPT ![node] = what]
        /\ waiting' = {} /\ UNCHANGED <<verifier, ready, seat, claims, eligible>>
        /\ \/ stage' = "verification" /\ node' = node /\ what = "verifying"
           \/ stage' = None /\ node' = None
    BY <1>8, <2>2, <2>3 DEF M!ResultArrives
  <2>5. mode' \in [Work -> M!CognitiveExecutionMode \cup {None}]
        /\ status' \in [Work -> M!TaskNodeStatus]
    BY <2>1, <2>2, <2>3, <2>4, CycleFacts DEF M!CognitiveExecutionMode, M!TaskNodeStatus
  <2>6. M!TypeOK'
    BY <2>1, <2>4, <2>5, CycleFacts DEF M!TypeOK, M!Stage, M!CouncilAssignment
  <2>7. node \in A2 => how = "council"
    BY <2>2 DEF CycleInv
  <2>8. \A n \in A2 : status'[n] \in M!HasResult => mode'[n] = "council"
    BY <2>1, <2>4, <2>7, CycleFacts DEF CycleInv, CouncilOfIndependents, M!CouncilOfIndependents
  <2>9. CouncilOfIndependents'
    BY <2>4, <2>8 DEF CycleInv, CouncilOfIndependents, M!CouncilOfIndependents
  <2>10. stage' = "verification" => status'[node'] = "verifying"
    BY <2>1, <2>4, CycleFacts DEF M!Stage
  <2>11. stage' \notin Council /\ stage' # "direct" /\ (stage' = None <=> node' = None)
    BY <2>1, <2>4, CycleFacts DEF M!Stage, Council
  <2> QED
    BY <2>6, <2>9, <2>10, <2>11 DEF CycleInv
<1>9. CASE M!DirectFails \/ M!VerifierFails
  <2>1. /\ stage' = None /\ node' = None /\ ready' = {}
        /\ UNCHANGED <<verifier, status, seat, waiting, claims, mode, eligible>>
    BY <1>9 DEF M!DirectFails, M!VerifierFails
  <2>2. M!TypeOK' /\ CouncilOfIndependents'
    BY <2>1, CycleFacts DEF CycleInv, M!TypeOK, M!CouncilAssignment, CouncilOfIndependents,
                            M!CouncilOfIndependents
  <2> QED
    BY <2>1, <2>2, CycleFacts DEF CycleInv, M!Stage, Council
<1>10. ASSUME NEW accepted \in BOOLEAN, M!VerifierDecides(accepted) PROVE CycleInv'
  <2>1. node \in Work /\ status[node] \in M!HasResult
    BY <1>10, CycleFacts DEF M!VerifierDecides, CycleInv, M!Stage, M!HasResult
  <2>2. PICK x \in M!TaskNodeStatus : status' = [status EXCEPT ![node] = x]
    BY <1>10 DEF M!VerifierDecides, M!TaskNodeStatus
  <2>3. /\ stage' = None /\ node' = None
        /\ UNCHANGED <<verifier, ready, seat, waiting, claims, mode, eligible>>
    BY <1>10 DEF M!VerifierDecides
  <2>4. \A n \in A2 : status'[n] \in M!HasResult => mode'[n] = "council"
    BY <2>1, <2>2, <2>3, CycleFacts DEF CycleInv, CouncilOfIndependents, M!CouncilOfIndependents
  <2>5. CouncilOfIndependents'
    BY <2>3, <2>4 DEF CycleInv, CouncilOfIndependents, M!CouncilOfIndependents
  <2>6. M!TypeOK'
    BY <2>1, <2>2, <2>3, CycleFacts DEF M!TypeOK, M!CouncilAssignment
  <2> QED
    BY <2>3, <2>5, <2>6, CycleFacts DEF CycleInv, M!Stage, Council
<1>11. CASE UNCHANGED M!vars
  BY <1>11 DEF M!vars, CycleInv, M!TypeOK, CouncilOfIndependents, M!CouncilOfIndependents
<1> QED
  BY <1>1, <1>2, <1>3, <1>4, <1>5, <1>6, <1>7, <1>8, <1>9, <1>10, <1>11 DEF M!Next

LEMMA CycleInit == M!Init => CycleInv
<1> SUFFICES ASSUME M!Init PROVE CycleInv
  OBVIOUS
<1>1. M!TypeOK
  BY ModelsAssumption DEF M!Init, M!TypeOK, M!TaskNodeStatus, M!NoCouncil, M!CouncilAssignment,
                          M!NoClaims, M!Stage, M!CognitiveExecutionMode
<1>2. CouncilOfIndependents
  <2>1. ASSUME NEW a \in DOMAIN M!Differs, NEW b \in M!Differs[a], seat[a] # None
       PROVE  seat[b] # None /\ seat[a] # seat[b] /\ ModelOf[seat[a]] # ModelOf[seat[b]]
    BY <2>1, DiffersIs DEF M!Init, M!NoCouncil, M!Roles, M!Members
  <2>2. \A n \in A2 : status[n] \notin M!HasResult
    BY ModelsAssumption DEF M!Init, M!MissionAssumption, M!HasResult
  <2> QED
    BY <2>1, <2>2 DEF CouncilOfIndependents, M!CouncilOfIndependents
<1> QED
  BY <1>1, <1>2, ModelsAssumption DEF CycleInv, M!Init, M!MissionAssumption, M!Stage, Council

\* At every moment the resolver and the synthesizer of a council are neither of its
\* members, and no consequential node has a result but a council's.
THEOREM CyclesHold == M!Spec => [](M!TypeOK /\ M!CouncilOfIndependents)
<1>1. CycleInv => M!TypeOK /\ M!CouncilOfIndependents
  BY DEF CycleInv, CouncilOfIndependents
<1> QED
  BY <1>1, CycleInit, CycleStep, PTL DEF M!Spec

-----------------------------------------------------------------------------
(* The intelligence fabric.  The routes of a plan are distinct and none of them *)
(* was asked before; output escapes only from the route a stream awaits, and    *)
(* ends the failover.  A route's attempts in a window are of different calls.   *)

FabricCall ==
  [kind : F!Kinds \cup {None}, phase : {"idle", "select", "try", "await", "answered", "failed"},
   stage : F!EscalationStage \cup {None}, plan : Seq(Models), on : Models \cup {None},
   asked : Seq(Models), attempts : Nat, escaped : SUBSET Models]

Distinct(s) == \A i, j \in 1 .. Len(s) : s[i] = s[j] => i = j
Apart(s, t) == \A i \in 1 .. Len(s), j \in 1 .. Len(t) : s[i] # t[j]

SoundCall(u) ==
  /\ Distinct(u.asked) /\ Distinct(u.plan) /\ Apart(u.plan, u.asked)
  /\ u.phase = "idle" => u.asked = <<>>
  /\ u.phase = "await" => u.on \in Models /\ u.escaped \subseteq {u.on}
  /\ u.phase \in {"idle", "select", "try"} => u.escaped = {}
  /\ u.escaped # {} => u.kind = "stream"
  /\ \A x, y \in u.escaped : x = y

AskedBy(r) == {c \in Calls : r \in F!Seen(c)}

FabricInv ==
  /\ F!TypeOK
  /\ call \in [Calls -> FabricCall] /\ \A c \in Calls : SoundCall(call[c])
  /\ \A r \in Models : used[r] <= Cardinality(AskedBy(r))

LEMMA FabricCardinality == \A T : F!Cardinality(T) = Cardinality(T)
  BY DEF F!Cardinality, Cardinality

LEMMA FiniteModels ==
  /\ IsFiniteSet(Calls) /\ IsFiniteSet(Models) /\ Local \subseteq Models
  /\ MaxRequests \in Nat /\ FailureThreshold \in Nat \ {0} /\ MaxConcurrency \in Nat
  /\ MaxAttempts \in Nat /\ MaxCandidates \in Nat /\ Cardinality(Calls) \in Nat
<1>1. F!IsFiniteSet(Calls) = IsFiniteSet(Calls) /\ F!IsFiniteSet(Models) = IsFiniteSet(Models)
  BY DEF F!IsFiniteSet, IsFiniteSet
<1> QED
  BY <1>1, ModelsAssumption, FS_CardinalityType DEF F!FabricAssumption

LEMMA FabricFacts ==
  ASSUME FabricInv
  PROVE  /\ call \in [Calls -> FabricCall] /\ used \in [Models -> Nat]
         /\ health \in [Models -> F!RouteHealthRecord] /\ cooldown \subseteq Models
         /\ reserved \subseteq Calls /\ Cardinality(reserved) <= MaxConcurrency
         /\ IsFiniteSet(reserved) /\ Cardinality(reserved) \in Nat
         /\ running \in Calls \cup {None}
<1>1. reserved \subseteq Calls /\ IsFiniteSet(reserved) /\ Cardinality(reserved) \in Nat
  BY FiniteModels, FS_Subset, FS_CardinalityType DEF FabricInv, F!TypeOK
<1>2. used \in [Models -> Nat]
  BY FiniteModels, FabricCardinality DEF FabricInv, F!TypeOK, F!QuotaState
<1> QED
  BY <1>1, <1>2, FabricCardinality DEF FabricInv, F!TypeOK

LEMMA FabricKept ==
  ASSUME call' \in [Calls -> FabricCall], \A c \in Calls : SoundCall(call'[c]),
         health' \in [Models -> F!RouteHealthRecord], cooldown' \subseteq Models,
         reserved' \subseteq Calls, Cardinality(reserved') <= MaxConcurrency,
         running' \in Calls \cup {None}, used' \in [Models -> Nat],
         \A r \in Models : used'[r] <= Cardinality(AskedBy(r)')
  PROVE  FabricInv'
<1>1. ASSUME NEW r \in Models PROVE used'[r] \in F!QuotaState
  <2>1. PICK D : D = AskedBy(r)'
    OBVIOUS
  <2>2. D \subseteq Calls /\ used'[r] <= Cardinality(D) /\ used'[r] \in Nat
    BY <2>1 DEF AskedBy
  <2>3. Cardinality(D) <= Cardinality(Calls) /\ Cardinality(D) \in Nat
    BY <2>2, FiniteModels, FS_Subset, FS_CardinalityType
  <2> QED
    BY <2>2, <2>3, FiniteModels, FabricCardinality DEF F!QuotaState
<1>2. used' \in [Models -> F!QuotaState]
  BY <1>1
<1>3. ASSUME NEW c \in Calls
      PROVE  /\ call'[c].kind \in F!Kinds \cup {None} /\ call'[c].on \in Models \cup {None}
             /\ call'[c].phase \in {"idle", "select", "try", "await", "answered", "failed"}
             /\ call'[c].stage \in F!EscalationStage \cup {None}
             /\ call'[c].plan \in F!FabricRoutingDecision /\ call'[c].asked \in Seq(Models)
             /\ call'[c].attempts \in Nat
             /\ call'[c].escaped \subseteq Models
  BY <1>3 DEF FabricCall, F!FabricRoutingDecision
<1>4. F!TypeOK'
  BY <1>2, <1>3, FabricCardinality DEF F!TypeOK, F!QuotaState, F!FabricRoutingDecision
<1> QED
  BY <1>4 DEF FabricInv

\* One call moves on and forgets no route it has asked.
LEMMA CallKept ==
  ASSUME FabricInv, NEW c \in Calls, NEW u \in FabricCall, SoundCall(u),
         call' = [call EXCEPT ![c] = u], Len(u.asked) >= Len(call[c].asked),
         \A i \in 1 .. Len(call[c].asked) : u.asked[i] = call[c].asked[i]
  PROVE  /\ call' \in [Calls -> FabricCall] /\ \A d \in Calls : SoundCall(call'[d])
         /\ \A r \in Models : /\ AskedBy(r) \subseteq AskedBy(r)' /\ IsFiniteSet(AskedBy(r)')
                              /\ Cardinality(AskedBy(r)) <= Cardinality(AskedBy(r)')
                              /\ Cardinality(AskedBy(r)) \in Nat /\ Cardinality(AskedBy(r)') \in Nat
<1>1. call' \in [Calls -> FabricCall] /\ \A d \in Calls : SoundCall(call'[d])
  BY FabricFacts DEF FabricInv
<1>2. ASSUME NEW d \in Calls PROVE F!Seen(d) \subseteq F!Seen(d)'
  <2>1. CASE d # c
    BY <2>1, FabricFacts DEF F!Seen
  <2>2. CASE d = c
    <3>1. call'[c] = u /\ Len(u.asked) \in Nat /\ Len(call[c].asked) \in Nat
      BY FabricFacts, LenProperties DEF FabricCall
    <3> QED
      BY <2>2, <3>1 DEF F!Seen
  <2> QED
    BY <2>1, <2>2
<1>3. ASSUME NEW r \in Models
      PROVE  /\ AskedBy(r) \subseteq AskedBy(r)' /\ IsFiniteSet(AskedBy(r)')
             /\ Cardinality(AskedBy(r)) <= Cardinality(AskedBy(r)')
             /\ Cardinality(AskedBy(r)) \in Nat /\ Cardinality(AskedBy(r)') \in Nat
  <2>1. PICK D : D = AskedBy(r)
    OBVIOUS
  <2>2. PICK E : E = AskedBy(r)'
    OBVIOUS
  <2>3. D \subseteq E /\ E \subseteq Calls
    BY <1>2, <2>1, <2>2 DEF AskedBy
  <2>4. IsFiniteSet(E)
    BY <2>3, FiniteModels, FS_Subset
  <2>5. Cardinality(D) <= Cardinality(E) /\ Cardinality(D) \in Nat /\ Cardinality(E) \in Nat
    BY <2>3, <2>4, FS_Subset, FS_CardinalityType
  <2> QED
    BY <2>1, <2>2, <2>3, <2>4, <2>5
<1> QED
  BY <1>1, <1>3

\* ... and so the rest is kept when no attempt is counted.
LEMMA CallMoves ==
  ASSUME FabricInv, NEW c \in Calls, NEW u \in FabricCall, SoundCall(u),
         call' = [call EXCEPT ![c] = u], Len(u.asked) >= Len(call[c].asked),
         \A i \in 1 .. Len(call[c].asked) : u.asked[i] = call[c].asked[i],
         health' \in [Models -> F!RouteHealthRecord], cooldown' \subseteq Models,
         reserved' \subseteq reserved, running' \in Calls \cup {None}, UNCHANGED used
  PROVE  FabricInv'
<1>1. reserved' \subseteq Calls /\ Cardinality(reserved') <= MaxConcurrency
  <2>1. Cardinality(reserved') <= Cardinality(reserved) /\ Cardinality(reserved') \in Nat
    BY FabricFacts, FS_Subset, FS_CardinalityType
  <2> QED
    BY <2>1, FabricFacts, FiniteModels
<1>2. ASSUME NEW r \in Models PROVE used'[r] <= Cardinality(AskedBy(r)')
  <2>1. /\ Cardinality(AskedBy(r)) <= Cardinality(AskedBy(r)')
        /\ Cardinality(AskedBy(r)) \in Nat /\ Cardinality(AskedBy(r)') \in Nat
    BY CallKept
  <2>2. used'[r] \in Nat /\ used'[r] <= Cardinality(AskedBy(r))
    BY FabricFacts DEF FabricInv
  <2> QED
    BY <2>1, <2>2
<1>3. call' \in [Calls -> FabricCall] /\ \A d \in Calls : SoundCall(call'[d])
  BY CallKept
<1> QED
  BY <1>1, <1>2, <1>3, FabricFacts, FabricKept

LEMMA CallMovesOn ==
  ASSUME FabricInv, NEW c \in Calls, NEW u \in FabricCall, SoundCall(u),
         call' = [call EXCEPT ![c] = u], u.asked = call[c].asked,
         health' \in [Models -> F!RouteHealthRecord], cooldown' \subseteq Models,
         reserved' \subseteq reserved, running' \in Calls \cup {None}, UNCHANGED used
  PROVE  FabricInv'
<1>1. Len(u.asked) \in Nat
  BY LenProperties DEF FabricCall
<1>2. Len(u.asked) >= Len(call[c].asked) /\ \A i \in 1 .. Len(call[c].asked) : u.asked[i] = call[c].asked[i]
  BY <1>1
<1> QED
  BY <1>2, CallMoves

\* What Set and StageOver do to the request of a call.
LEMMA SetIs ==
  ASSUME FabricInv, NEW c \in Calls, NEW next \in {"try", "answered", "failed"},
         next = "try" => call[c].escaped = {}
  PROVE  \E u \in FabricCall :
           /\ F!Set(c, next) = [call EXCEPT ![c] = u] /\ SoundCall(u) /\ u.asked = call[c].asked
<1>1. PICK k \in FabricCall : k = call[c] /\ SoundCall(k)
  BY FabricFacts DEF FabricInv
<1>2. PICK rest : rest = IF next = "try" THEN k.plan ELSE <<>>
  OBVIOUS
<1>3. rest \in Seq(Models) /\ Distinct(rest) /\ Apart(rest, k.asked)
  BY <1>1, <1>2 DEF FabricCall, SoundCall, Distinct, Apart
<1>4. PICK u : u = [k EXCEPT !.phase = next, !.on = None, !.plan = rest]
  OBVIOUS
<1>5. /\ u \in FabricCall /\ u.phase = next /\ u.plan = rest /\ u.asked = k.asked
      /\ u.escaped = k.escaped /\ u.kind = k.kind
  BY <1>1, <1>3, <1>4 DEF FabricCall
<1>6. SoundCall(u)
  BY <1>1, <1>3, <1>5 DEF SoundCall
<1>7. F!Set(c, next) = [call EXCEPT ![c] = u]
  BY <1>1, <1>2, <1>4, FabricFacts DEF F!Set
<1> QED
  BY <1>1, <1>5, <1>6, <1>7

LEMMA StageOverIs ==
  ASSUME FabricInv, NEW c \in Calls, NEW n \in {0, 1}, call[c].phase \in {"select", "try"}
  PROVE  \E u \in FabricCall :
           /\ F!StageOver(c, n) = [call EXCEPT ![c] = u] /\ SoundCall(u) /\ u.asked = call[c].asked
<1>1. CASE call[c].stage = "economy" /\ call[c].attempts + n < MaxAttempts
  <2>1. PICK k \in FabricCall : k = call[c] /\ SoundCall(k)
    BY FabricFacts DEF FabricInv
  <2>2. PICK m : m = k.attempts + n
    OBVIOUS
  <2>3. m \in Nat
    BY <2>1, <2>2 DEF FabricCall
  <2>4. PICK u : u = [k EXCEPT !.stage = "all", !.phase = "select", !.attempts = m]
    OBVIOUS
  <2>5. /\ u \in FabricCall /\ u.phase = "select" /\ u.plan = k.plan /\ u.asked = k.asked
        /\ u.escaped = k.escaped /\ u.kind = k.kind
    BY <2>1, <2>3, <2>4 DEF FabricCall, F!EscalationStage
  <2>6. SoundCall(u)
    BY <2>1, <2>5 DEF SoundCall
  <2>7. F!StageOver(c, n) = [call EXCEPT ![c] = u]
    BY <1>1, <2>1, <2>2, <2>4, FabricFacts DEF F!StageOver
  <2> QED
    BY <2>1, <2>5, <2>6, <2>7
<1>2. CASE ~ (call[c].stage = "economy" /\ call[c].attempts + n < MaxAttempts)
  BY <1>2, SetIs DEF F!StageOver
<1> QED
  BY <1>1, <1>2

LEMMA StartStep ==
  ASSUME FabricInv, NEW c \in Calls, NEW kind \in F!Kinds, F!StartCall(c, kind) PROVE FabricInv'
<1>1. call[c].asked = <<>>
  BY DEF F!StartCall, FabricInv, SoundCall
<1>2. PICK u : u = [F!NewCall EXCEPT !.kind = kind, !.phase = "select",
                                     !.stage = IF kind = "escalate" THEN "economy" ELSE "all"]
  OBVIOUS
<1>3. /\ u.kind = kind /\ u.phase = "select" /\ u.plan = <<>> /\ u.asked = <<>>
      /\ u.escaped = {} /\ u \in FabricCall
  <2>1. PICK st \in F!EscalationStage : st = IF kind = "escalate" THEN "economy" ELSE "all"
    BY DEF F!EscalationStage
  <2>2. PICK none \in Seq(Models) : none = <<>>
    BY EmptySeq
  <2>3. u = [kind |-> kind, phase |-> "select", stage |-> st, plan |-> none,
             on |-> None, asked |-> none, attempts |-> 0, escaped |-> {}]
    BY <1>2, <2>1, <2>2 DEF F!NewCall
  <2> QED
    BY <2>1, <2>2, <2>3 DEF FabricCall
<1>4. SoundCall(u)
  BY <1>3 DEF SoundCall, Distinct, Apart
<1>5. call' = [call EXCEPT ![c] = u] /\ running' = c /\ UNCHANGED <<health, cooldown, used, reserved>>
  BY <1>2 DEF F!StartCall
<1> QED
  BY <1>1, <1>3, <1>4, <1>5, CallMovesOn, FabricFacts

\* The first routes of a plan that lists distinct ones.
LEMMA PrefixDistinct ==
  ASSUME NEW D, NEW s \in Seq(D), Distinct(s), NEW n \in 0 .. Len(s)
  PROVE  /\ SubSeq(s, 1, n) \in Seq(D) /\ Distinct(SubSeq(s, 1, n))
         /\ \A i \in 1 .. Len(SubSeq(s, 1, n)) : SubSeq(s, 1, n)[i] \in {s[j] : j \in 1 .. Len(s)}
<1>1. Len(s) \in Nat /\ \A i \in 1 .. Len(s) : s[i] \in D
  BY LenProperties
<1>2. PICK t : t = SubSeq(s, 1, n)
  OBVIOUS
<1>3. t \in Seq(D) /\ Len(t) = n /\ \A i \in 1 .. n : t[i] = s[i]
  <2>1. CASE n = 0
    BY <1>1, <1>2, <2>1, SubSeqProperties
  <2>2. CASE n # 0
    BY <1>1, <1>2, <2>2, SubSeqProperties
  <2> QED
    BY <2>1, <2>2
<1>4. Distinct(t)
  BY <1>1, <1>3 DEF Distinct
<1> QED
  BY <1>1, <1>2, <1>3, <1>4

LEMMA SelectStep == ASSUME FabricInv, NEW c \in Calls, F!SelectRoutes(c) PROVE FabricInv'
<1>1. PICK k \in FabricCall : k = call[c] /\ SoundCall(k) /\ k.phase = "select"
  BY FabricFacts DEF FabricInv, F!SelectRoutes
<1>2. running' \in Calls \cup {None} /\ UNCHANGED <<health, cooldown, used, reserved>>
  BY DEF F!SelectRoutes
<1>3. CASE call' = F!StageOver(c, 1)
  <2>1. PICK u \in FabricCall : /\ call' = [call EXCEPT ![c] = u] /\ SoundCall(u)
                                /\ u.asked = call[c].asked
    BY <1>1, <1>3, StageOverIs
  <2> QED
    BY <1>2, <2>1, CallMovesOn, FabricFacts
<1>4. ASSUME NEW plan \in F!SetToSeqs(F!Candidates(c)),
             call' = [call EXCEPT ![c].phase = "try", ![c].plan = SubSeq(plan, 1, F!Taken(c))]
      PROVE  FabricInv'
  <2>1. PICK D : D = F!Candidates(c)
    OBVIOUS
  <2>2. D \subseteq Models /\ D \cap F!Seen(c) = {}
    BY <2>1 DEF F!Candidates
  <2>3. PICK size : size = Cardinality(D)
    OBVIOUS
  <2>4. size \in Nat
    BY <2>2, <2>3, FiniteModels, FS_Subset, FS_CardinalityType
  <2>5. plan \in [1 .. size -> D] /\ \A i, j \in 1 .. size : i # j => plan[i] # plan[j]
    BY <1>4, <2>1, <2>3, FabricCardinality DEF F!SetToSeqs
  <2>6. plan \in Seq(D) /\ Len(plan) = size
    BY <2>4, <2>5
  <2>7. plan \in Seq(Models) /\ Distinct(plan)
    BY <2>2, <2>5, <2>6 DEF Distinct
  <2>8. F!Taken(c) \in 0 .. Len(plan)
    BY <2>1, <2>3, <2>4, <2>6, FiniteModels, FabricCardinality DEF F!Taken, F!MinOf
  <2>9. PICK some : some = SubSeq(plan, 1, F!Taken(c))
    OBVIOUS
  <2>10. /\ some \in Seq(Models) /\ Distinct(some)
         /\ \A i \in 1 .. Len(some) : some[i] \in {plan[j] : j \in 1 .. Len(plan)}
    BY <2>7, <2>8, <2>9, PrefixDistinct
  <2>11. Apart(some, k.asked)
    <3>1. \A i \in 1 .. Len(some) : some[i] \in D
      BY <2>5, <2>6, <2>10
    <3>2. \A j \in 1 .. Len(k.asked) : k.asked[j] \in F!Seen(c)
      BY <1>1 DEF F!Seen
    <3> QED
      BY <2>2, <3>1, <3>2 DEF Apart
  <2>12. PICK u : u = [k EXCEPT !.phase = "try", !.plan = some]
    OBVIOUS
  <2>13. /\ u \in FabricCall /\ u.phase = "try" /\ u.plan = some /\ u.asked = k.asked
         /\ u.escaped = k.escaped /\ u.kind = k.kind
    BY <1>1, <2>10, <2>12 DEF FabricCall
  <2>14. SoundCall(u)
    BY <1>1, <2>10, <2>11, <2>13 DEF SoundCall
  <2>15. call' = [call EXCEPT ![c] = u]
    BY <1>1, <1>4, <2>9, <2>12, FabricFacts
  <2> QED
    BY <1>1, <1>2, <2>13, <2>14, <2>15, CallMovesOn, FabricFacts
<1> QED
  BY <1>3, <1>4 DEF F!SelectRoutes

\* A call asks the next route of its plan: it has not asked it before.
Asking(c, phase, on) ==
  [call[c] EXCEPT !.plan = Tail(call[c].plan),
                  !.asked = Append(call[c].asked, Head(call[c].plan)),
                  !.attempts = call[c].attempts + 1, !.phase = phase, !.on = on]

LEMMA AskedNext ==
  ASSUME FabricInv, NEW c \in Calls, call[c].phase = "try", call[c].plan # <<>>,
         NEW phase \in {"try", "await"}, NEW on \in Models \cup {None},
         phase = "await" => on = Head(call[c].plan),
         NEW u, u = Asking(c, phase, on)
  PROVE  /\ u \in FabricCall /\ SoundCall(u) /\ Head(call[c].plan) \in Models
         /\ Len(u.asked) >= Len(call[c].asked)
         /\ \A i \in 1 .. Len(call[c].asked) : u.asked[i] = call[c].asked[i]
         /\ Head(call[c].plan) \notin F!Seen(c)
         /\ Head(call[c].plan) \in {u.asked[i] : i \in 1 .. Len(u.asked)}
<1>1. PICK k \in FabricCall : k = call[c] /\ SoundCall(k) /\ k.phase = "try" /\ k.plan # <<>>
  BY FabricFacts DEF FabricInv
<1>2. PICK left : left = Tail(k.plan)
  OBVIOUS
<1>3. PICK r : r = Head(k.plan)
  OBVIOUS
<1>4. PICK sofar : sofar = Append(k.asked, r)
  OBVIOUS
<1>5. PICK m : m = k.attempts + 1
  OBVIOUS
<1>6. k.plan \in Seq(Models) /\ k.asked \in Seq(Models) /\ m \in Nat /\ k.escaped = {}
  BY <1>1, <1>5 DEF FabricCall, SoundCall
<1>7. PICK n \in Nat : n = Len(k.asked)
  BY <1>6, LenProperties
<1>8. PICK size \in Nat : size = Len(k.plan)
  BY <1>6, LenProperties
<1>9. /\ left \in Seq(Models) /\ Len(left) = size - 1 /\ r = k.plan[1] /\ r \in Models
      /\ \A i \in 1 .. Len(left) : left[i] = k.plan[i + 1]
  BY <1>1, <1>2, <1>3, <1>6, <1>8, TailOf, LenProperties
<1>10. size >= 1
  BY <1>1, <1>6, <1>8, EmptySeq
<1>11. /\ sofar \in Seq(Models) /\ Len(sofar) = n + 1 /\ sofar[n + 1] = r
       /\ \A i \in 1 .. n : sofar[i] = k.asked[i]
  BY <1>4, <1>6, <1>7, <1>9, AppendProperties
<1>12. \A i \in 1 .. n : k.asked[i] # r
  BY <1>1, <1>7, <1>8, <1>9, <1>10 DEF SoundCall, Apart
<1>13. Distinct(sofar)
  <2>1. \A i, j \in 1 .. n : sofar[i] = sofar[j] => i = j
    BY <1>1, <1>7, <1>11 DEF SoundCall, Distinct
  <2>2. \A i \in 1 .. n + 1 : i \in 1 .. n \/ i = n + 1
    OBVIOUS
  <2> QED
    BY <1>11, <1>12, <2>1, <2>2 DEF Distinct
<1>14. \A i \in 1 .. size - 1 : i + 1 \in 1 .. size /\ left[i] = k.plan[i + 1]
  BY <1>9
<1>15. Distinct(left)
  BY <1>1, <1>8, <1>9, <1>14 DEF SoundCall, Distinct
<1>16. Apart(left, sofar)
  <2> SUFFICES ASSUME NEW i \in 1 .. size - 1, NEW j \in 1 .. n + 1 PROVE left[i] # sofar[j]
    BY <1>9, <1>11 DEF Apart
  <2>1. CASE j \in 1 .. n
    <3>1. i + 1 \in 1 .. Len(k.plan) /\ j \in 1 .. Len(k.asked) /\ left[i] = k.plan[i + 1]
      BY <1>7, <1>8, <1>14, <2>1
    <3>2. k.plan[i + 1] # k.asked[j]
      BY <1>1, <3>1 DEF SoundCall, Apart
    <3> QED
      BY <1>11, <2>1, <3>1, <3>2
  <2>2. CASE j = n + 1
    <3>1. /\ i + 1 \in 1 .. Len(k.plan) /\ 1 \in 1 .. Len(k.plan) /\ i + 1 # 1
          /\ left[i] = k.plan[i + 1]
      BY <1>8, <1>10, <1>14
    <3>2. k.plan[i + 1] # k.plan[1]
      BY <1>1, <3>1 DEF SoundCall, Distinct
    <3> QED
      BY <1>9, <1>11, <2>2, <3>1, <3>2
  <2> QED
    BY <2>1, <2>2
<1>17. u = [k EXCEPT !.plan = left, !.asked = sofar, !.attempts = m, !.phase = phase, !.on = on]
  BY <1>1, <1>2, <1>3, <1>4, <1>5 DEF Asking
<1>18. /\ u.plan = left /\ u.asked = sofar /\ u.phase = phase /\ u.on = on
       /\ u.escaped = {} /\ u.kind = k.kind /\ u \in FabricCall
  <2>1. u = [kind |-> k.kind, phase |-> phase, stage |-> k.stage, plan |-> left, on |-> on,
             asked |-> sofar, attempts |-> m, escaped |-> k.escaped]
    BY <1>1, <1>17 DEF FabricCall
  <2>2. k.kind \in F!Kinds \cup {None} /\ k.stage \in F!EscalationStage \cup {None}
    BY <1>1 DEF FabricCall
  <2>3. left \in Seq(Models) /\ sofar \in Seq(Models) /\ k.escaped \in SUBSET Models
    BY <1>6, <1>9, <1>11
  <2>4. u \in FabricCall
    BY <1>6, <2>1, <2>2, <2>3 DEF FabricCall
  <2> QED
    BY <1>6, <2>1, <2>4
<1>19. phase = "await" => on \in Models
  BY <1>1, <1>3, <1>9
<1>20. SoundCall(u)
  BY <1>13, <1>15, <1>16, <1>18, <1>19 DEF SoundCall
<1>21. Head(call[c].plan) \notin F!Seen(c)
  BY <1>1, <1>3, <1>7, <1>12 DEF F!Seen
<1>22. r \in {u.asked[i] : i \in 1 .. Len(u.asked)}
  BY <1>11, <1>18
<1> QED
  BY <1>1, <1>3, <1>7, <1>9, <1>11, <1>18, <1>20, <1>21, <1>22

LEMMA AttemptStep == ASSUME FabricInv, NEW c \in Calls, F!Attempt(c) PROVE FabricInv'
<1>1. PICK r : r = Head(call[c].plan)
  OBVIOUS
<1>2. /\ call[c].phase = "try" /\ call[c].plan # <<>> /\ UNCHANGED <<health, cooldown>>
      /\ call[c] \in FabricCall
  BY FabricFacts DEF F!Attempt
<1>3. CASE /\ r \in Local => F!Admits
           /\ F!Reserve(c, r) /\ F!RecordAttempt(r) /\ running' = None
           /\ call' = [[call EXCEPT ![c].plan = Tail(@), ![c].asked = Append(@, r),
                                    ![c].attempts = @ + 1] EXCEPT ![c].phase = "await", ![c].on = r]
  <2>1. r \in Models
    BY <1>1, <1>2, TailOf DEF FabricCall
  <2>2. PICK u : u = Asking(c, "await", r)
    OBVIOUS
  <2>3. /\ u \in FabricCall /\ SoundCall(u)
        /\ Len(u.asked) >= Len(call[c].asked)
        /\ \A i \in 1 .. Len(call[c].asked) : u.asked[i] = call[c].asked[i]
        /\ r \notin F!Seen(c)
        /\ r \in {u.asked[i] : i \in 1 .. Len(u.asked)}
    BY <1>1, <1>2, <2>1, <2>2, AskedNext
  <2>4. call' = [call EXCEPT ![c] = u]
    BY <1>1, <1>3, <2>2, FabricFacts DEF Asking
  <2>5. /\ call' \in [Calls -> FabricCall] /\ \A d \in Calls : SoundCall(call'[d])
        /\ \A x \in Models : /\ AskedBy(x) \subseteq AskedBy(x)' /\ IsFiniteSet(AskedBy(x)')
                             /\ Cardinality(AskedBy(x)) <= Cardinality(AskedBy(x)')
                             /\ Cardinality(AskedBy(x)) \in Nat /\ Cardinality(AskedBy(x)') \in Nat
    BY <2>3, <2>4, CallKept
  <2>6. c \in AskedBy(r)' /\ c \notin AskedBy(r)
    BY <2>3, <2>4, FabricFacts DEF AskedBy, F!Seen
  <2>7. Cardinality(AskedBy(r)) + 1 <= Cardinality(AskedBy(r)')
    <3>1. PICK D : D = AskedBy(r)
      OBVIOUS
    <3>2. PICK E : E = AskedBy(r)'
      OBVIOUS
    <3>3. IsFiniteSet(D) /\ D \cup {c} \subseteq E /\ IsFiniteSet(E) /\ c \notin D
      BY <2>1, <2>5, <2>6, <3>1, <3>2, FS_Subset
    <3>4. Cardinality(D \cup {c}) = Cardinality(D) + 1
      BY <3>3, FS_AddElement
    <3>5. Cardinality(D \cup {c}) <= Cardinality(E)
      BY <3>3, FS_Subset
    <3> QED
      BY <3>1, <3>2, <3>4, <3>5
  <2>8. /\ used' \in [Models -> Nat]
        /\ \A x \in Models : used'[x] = IF x = r THEN used[x] + 1 ELSE used[x]
    BY <1>3, <2>1, FabricFacts DEF F!RecordAttempt
  <2>9. ASSUME NEW x \in Models PROVE used'[x] <= Cardinality(AskedBy(x)')
    <3>1. /\ used[x] <= Cardinality(AskedBy(x)) /\ used[x] \in Nat
          /\ Cardinality(AskedBy(x)) \in Nat /\ Cardinality(AskedBy(x)') \in Nat
          /\ Cardinality(AskedBy(x)) <= Cardinality(AskedBy(x)')
      BY <2>5, FabricFacts DEF FabricInv
    <3>2. CASE x = r
      BY <2>7, <2>8, <3>1, <3>2
    <3>3. CASE x # r
      BY <2>8, <3>1, <3>3
    <3> QED
      BY <3>2, <3>3
  <2>10. reserved' \subseteq Calls /\ Cardinality(reserved') <= MaxConcurrency
    <3>1. CASE r \in Local
      <4>1. Cardinality(reserved) < MaxConcurrency /\ reserved' = reserved \cup {c}
        BY <1>3, <3>1, FabricCardinality DEF F!Admits, F!Reserve
      <4>2. Cardinality(reserved \cup {c}) <= Cardinality(reserved) + 1
            /\ Cardinality(reserved \cup {c}) \in Nat
        <5>1. PICK D : D = reserved
          OBVIOUS
        <5>2. IsFiniteSet(D) /\ Cardinality(D) \in Nat
          BY <5>1, FabricFacts
        <5>3. Cardinality(D \cup {c}) = (IF c \in D THEN Cardinality(D) ELSE Cardinality(D) + 1)
          BY <5>2, FS_AddElement
        <5> QED
          BY <5>1, <5>2, <5>3
      <4> QED
        BY <4>1, <4>2, FabricFacts, FiniteModels
    <3>2. CASE r \notin Local
      BY <1>3, <3>2, FabricFacts DEF F!Reserve
    <3> QED
      BY <3>1, <3>2
  <2> QED
    BY <1>2, <1>3, <2>5, <2>8, <2>9, <2>10, FabricFacts, FabricKept
<1>4. CASE /\ running' = c /\ UNCHANGED <<reserved, used>>
           /\ call' = [call EXCEPT ![c].plan = Tail(@), ![c].asked = Append(@, r),
                                   ![c].attempts = @ + 1]
  <2>1. PICK u : u = Asking(c, "try", call[c].on)
    OBVIOUS
  <2>2. call[c].on \in Models \cup {None}
    BY <1>2 DEF FabricCall
  <2>3. /\ u \in FabricCall /\ SoundCall(u)
        /\ Len(u.asked) >= Len(call[c].asked)
        /\ \A i \in 1 .. Len(call[c].asked) : u.asked[i] = call[c].asked[i]
    BY <1>2, <2>1, <2>2, AskedNext
  <2>4. u = [call[c] EXCEPT !.plan = Tail(call[c].plan), !.asked = Append(call[c].asked, r),
                            !.attempts = call[c].attempts + 1]
    BY <1>1, <1>2, <2>1 DEF FabricCall, Asking
  <2>5. call' = [call EXCEPT ![c] = u]
    BY <1>4, <2>4, FabricFacts
  <2> QED
    BY <1>2, <1>4, <2>3, <2>5, CallMoves, FabricFacts
<1> QED
  BY <1>1, <1>3, <1>4 DEF F!Attempt

LEMMA AnsweredAs ==
  ASSUME FabricInv, NEW c \in Calls, NEW accepted \in BOOLEAN, F!Answer(c, accepted)
  PROVE  FabricInv'
<1>1. PICK next \in {"try", "answered", "failed"} : next = IF accepted THEN "answered" ELSE "try"
  OBVIOUS
<1>2. next = "try" => call[c].escaped = {}
  BY <1>1 DEF F!Answer, FabricInv, SoundCall
<1>3. PICK u \in FabricCall : /\ F!Set(c, next) = [call EXCEPT ![c] = u] /\ SoundCall(u)
                              /\ u.asked = call[c].asked
  BY <1>2, SetIs
<1>4. call' = [call EXCEPT ![c] = u] /\ UNCHANGED <<cooldown, used>>
      /\ running' \in Calls \cup {None} /\ reserved' \subseteq reserved
  BY <1>1, <1>3 DEF F!Answer, F!Release
<1>5. health' \in [Models -> F!RouteHealthRecord]
  <2>1. F!Healthy \in F!RouteHealthRecord
    BY FiniteModels DEF F!Healthy, F!RouteHealthRecord, F!RouteHealth
  <2>2. health' = [health EXCEPT ![call[c].on] = F!Healthy]
    BY DEF F!Answer, F!RecordSuccess
  <2> QED
    BY <2>1, <2>2, FabricFacts
<1> QED
  BY <1>3, <1>4, <1>5, CallMovesOn, FabricFacts

LEMMA FailedTyped ==
  ASSUME NEW h \in F!RouteHealthRecord PROVE F!Failed(h) \in F!RouteHealthRecord
<1>1. h.failures \in 0 .. FailureThreshold
  BY DEF F!RouteHealthRecord
<1>2. CASE h.failures + 1 >= FailureThreshold
  BY <1>1, <1>2, FiniteModels DEF F!Failed, F!RouteHealthRecord, F!RouteHealth
<1>3. CASE ~ (h.failures + 1 >= FailureThreshold)
  <2>1. h.failures + 1 \in 0 .. FailureThreshold
    BY <1>1, <1>3, FiniteModels
  <2> QED
    BY <1>3, <2>1 DEF F!Failed, F!RouteHealthRecord, F!RouteHealth
<1> QED
  BY <1>2, <1>3

LEMMA FailsStep ==
  ASSUME FabricInv, NEW c \in Calls, NEW error \in {"auth", "rate", "outage"},
         F!TransportFails(c, error)
  PROVE  FabricInv'
<1>1. PICK next \in {"try", "answered", "failed"} : next = IF F!FailsOver(c) THEN "try" ELSE "failed"
  OBVIOUS
<1>2. next = "try" => call[c].escaped = {}
  BY <1>1 DEF F!FailsOver
<1>3. PICK u \in FabricCall : /\ F!Set(c, next) = [call EXCEPT ![c] = u] /\ SoundCall(u)
                              /\ u.asked = call[c].asked
  BY <1>2, SetIs
<1>4. call' = [call EXCEPT ![c] = u] /\ UNCHANGED used
      /\ running' \in Calls \cup {None} /\ reserved' \subseteq reserved
  BY <1>1, <1>3 DEF F!TransportFails, F!Release
<1>5. call[c].on \in Models
  BY DEF F!TransportFails, FabricInv, SoundCall
<1>6. PICK r \in Models : r = call[c].on
  BY <1>5
<1>7. cooldown' \subseteq Models
  BY <1>6, FabricFacts DEF F!TransportFails, F!MarkRateLimited
<1>8. health' \in [Models -> F!RouteHealthRecord]
  <2>1. PICK h \in F!RouteHealthRecord : h = health[r]
    BY FabricFacts
  <2>2. PICK g : g = CASE error = "auth" -> [h EXCEPT !.state = "auth_required"]
                       [] error = "rate" -> h
                       [] OTHER -> F!Failed(h)
    OBVIOUS
  <2>3. health' = [health EXCEPT ![r] = g]
    BY <1>6, <2>1, <2>2, FabricFacts DEF F!TransportFails
  <2>4. [h EXCEPT !.state = "auth_required"] \in F!RouteHealthRecord
    BY <2>1 DEF F!RouteHealthRecord, F!RouteHealth
  <2>5. F!Failed(h) \in F!RouteHealthRecord
    BY <2>1, FailedTyped
  <2>6. g \in F!RouteHealthRecord
    <3>1. CASE error = "auth"
      BY <2>2, <2>4, <3>1
    <3>2. CASE error = "rate"
      BY <2>1, <2>2, <3>2
    <3>3. CASE error = "outage"
      BY <2>2, <2>5, <3>3
    <3> QED
      BY <3>1, <3>2, <3>3
  <2> QED
    BY <2>3, <2>6, FabricFacts
<1> QED
  BY <1>3, <1>4, <1>7, <1>8, CallMovesOn, FabricFacts

LEMMA AbortStep == ASSUME FabricInv, NEW c \in Calls, F!CallAborts(c) PROVE FabricInv'
<1>1. PICK u \in FabricCall : /\ F!Set(c, "failed") = [call EXCEPT ![c] = u] /\ SoundCall(u)
                              /\ u.asked = call[c].asked
  BY SetIs
<1>2. call' = [call EXCEPT ![c] = u] /\ reserved' \subseteq reserved
      /\ UNCHANGED <<health, cooldown, used, running>>
  BY <1>1 DEF F!CallAborts, F!Release
<1> QED
  BY <1>1, <1>2, CallMovesOn, FabricFacts

LEMMA EmitStep == ASSUME FabricInv, NEW c \in Calls, F!EmitOutput(c) PROVE FabricInv'
<1>1. PICK k \in FabricCall : k = call[c] /\ SoundCall(k) /\ k.phase = "await" /\ k.kind = "stream"
  BY FabricFacts DEF FabricInv, F!EmitOutput
<1>2. PICK out : out = k.escaped \cup {k.on}
  OBVIOUS
<1>3. out \subseteq {k.on} /\ k.on \in Models
  BY <1>1, <1>2 DEF SoundCall
<1>4. PICK u : u = [k EXCEPT !.escaped = out]
  OBVIOUS
<1>5. /\ u \in FabricCall /\ u.phase = "await" /\ u.plan = k.plan /\ u.asked = k.asked
      /\ u.escaped = out /\ u.kind = "stream" /\ u.on = k.on
  BY <1>1, <1>3, <1>4 DEF FabricCall
<1>6. SoundCall(u)
  <2>1. \A x, y \in out : x = y
    BY <1>3
  <2> QED
    BY <1>1, <1>3, <1>5, <2>1 DEF SoundCall
<1>7. call' = [call EXCEPT ![c] = u] /\ UNCHANGED <<health, cooldown, used, reserved, running>>
  BY <1>1, <1>2, <1>4, FabricFacts DEF F!EmitOutput
<1> QED
  BY <1>1, <1>5, <1>6, <1>7, CallMovesOn, FabricFacts

LEMMA FabricStep == FabricInv /\ [F!Next]_(F!vars) => FabricInv'
<1> SUFFICES ASSUME FabricInv, [F!Next]_(F!vars) PROVE FabricInv'
  OBVIOUS
<1>1. ASSUME NEW c \in Calls, F!Exhausted(c) PROVE FabricInv'
  <2>1. PICK u \in FabricCall : /\ call' = [call EXCEPT ![c] = u] /\ SoundCall(u)
                                /\ u.asked = call[c].asked
    BY <1>1, StageOverIs DEF F!Exhausted
  <2>2. running' \in Calls \cup {None} /\ UNCHANGED <<health, cooldown, used, reserved>>
    BY <1>1 DEF F!Exhausted
  <2> QED
    BY <2>1, <2>2, CallMovesOn, FabricFacts
<1>2. ASSUME UNCHANGED <<call, reserved, running>>, cooldown' \subseteq Models,
             health' \in [Models -> F!RouteHealthRecord], used' \in [Models -> Nat],
             \A r \in Models : used'[r] <= used[r]
      PROVE  FabricInv'
  <2>1. \A c \in Calls : F!Seen(c)' = F!Seen(c)
    BY <1>2 DEF F!Seen
  <2>2. ASSUME NEW r \in Models PROVE used'[r] <= Cardinality(AskedBy(r)')
    <3>1. AskedBy(r)' = AskedBy(r)
      BY <2>1 DEF AskedBy
    <3>2. Cardinality(AskedBy(r)) \in Nat
      BY FiniteModels, FS_Subset, FS_CardinalityType DEF AskedBy
    <3>3. used'[r] \in Nat /\ used[r] \in Nat /\ used'[r] <= used[r]
          /\ used[r] <= Cardinality(AskedBy(r))
      BY <1>2, FabricFacts DEF FabricInv
    <3>4. used'[r] <= Cardinality(AskedBy(r))
      BY <3>2, <3>3
    <3> QED
      BY <3>1, <3>4
  <2>3. call' \in [Calls -> FabricCall] /\ \A c \in Calls : SoundCall(call'[c])
    BY <1>2 DEF FabricInv
  <2> QED
    BY <1>2, <2>2, <2>3, FabricFacts, FabricKept
<1>3. \A r \in Models : used[r] \in Nat /\ used[r] <= used[r]
  BY FabricFacts
<1>4. ASSUME NEW r \in Models, F!WindowPasses(r) PROVE FabricInv'
  <2>1. used' = [used EXCEPT ![r] = 0] /\ cooldown' \subseteq Models
        /\ UNCHANGED <<health, reserved, call, running>>
    BY <1>4, FabricFacts DEF F!WindowPasses
  <2>2. used' \in [Models -> Nat] /\ \A x \in Models : used'[x] <= used[x]
    BY <2>1, FabricFacts
  <2> QED
    BY <1>2, <2>1, <2>2, FabricFacts
<1>5. ASSUME NEW r \in Models, F!CircuitResets(r) PROVE FabricInv'
  <2>1. PICK h \in F!RouteHealthRecord : h = health[r]
    BY FabricFacts
  <2>2. [h EXCEPT !.state = "degraded"] \in F!RouteHealthRecord
    BY DEF F!RouteHealthRecord, F!RouteHealth
  <2>3. health' = [health EXCEPT ![r] = [h EXCEPT !.state = "degraded"]]
        /\ UNCHANGED <<cooldown, used, reserved, call, running>>
    BY <1>5, <2>1, FabricFacts DEF F!CircuitResets
  <2> QED
    BY <1>2, <1>3, <2>2, <2>3, FabricFacts
<1>6. ASSUME NEW r \in Models, F!OperatorLogsIn(r) PROVE FabricInv'
  <2>1. F!Healthy \in F!RouteHealthRecord
    BY FiniteModels DEF F!Healthy, F!RouteHealthRecord, F!RouteHealth
  <2> QED
    BY <1>2, <1>3, <1>6, <2>1, FabricFacts DEF F!OperatorLogsIn
<1>7. CASE UNCHANGED F!vars
  BY <1>2, <1>3, <1>7, FabricFacts DEF F!vars
<1> QED
  BY <1>1, <1>4, <1>5, <1>6, <1>7, StartStep, SelectStep, AttemptStep, EmitStep, AnsweredAs,
     FailsStep, AbortStep DEF F!Next

LEMMA FabricInit == F!Init => FabricInv
<1> SUFFICES ASSUME F!Init PROVE FabricInv
  OBVIOUS
<1>1. F!NewCall \in FabricCall /\ SoundCall(F!NewCall)
  <2>1. PICK none \in Seq(Models) : none = <<>> /\ Len(none) = 0
    BY EmptySeq
  <2>2. F!NewCall = [kind |-> None, phase |-> "idle", stage |-> None, plan |-> none,
                     on |-> None, asked |-> none, attempts |-> 0, escaped |-> {}]
    BY <2>1 DEF F!NewCall
  <2>3. F!NewCall \in FabricCall
    BY <2>1, <2>2 DEF FabricCall
  <2>4. SoundCall(F!NewCall)
    BY <2>1, <2>2 DEF SoundCall, Distinct, Apart
  <2> QED
    BY <2>3, <2>4
<1>2. call \in [Calls -> FabricCall] /\ \A c \in Calls : SoundCall(call[c])
  BY <1>1 DEF F!Init
<1>3. /\ health \in [Models -> F!RouteHealthRecord] /\ used \in [Models -> F!QuotaState]
      /\ F!Cardinality(reserved) <= MaxConcurrency
  <2>1. F!Healthy \in F!RouteHealthRecord
    BY FiniteModels DEF F!Healthy, F!RouteHealthRecord, F!RouteHealth
  <2>2. 0 \in F!QuotaState
    BY FiniteModels, FabricCardinality DEF F!QuotaState
  <2>3. F!Cardinality(reserved) <= MaxConcurrency
    BY FiniteModels, FabricCardinality, FS_EmptySet DEF F!Init
  <2> QED
    BY <2>1, <2>2, <2>3 DEF F!Init
<1>4. F!TypeOK
  BY <1>2, <1>3 DEF F!Init, F!TypeOK, FabricCall, F!FabricRoutingDecision
<1>5. ASSUME NEW r \in Models PROVE used[r] <= Cardinality(AskedBy(r))
  <2>1. Cardinality(AskedBy(r)) \in Nat
    BY FiniteModels, FS_Subset, FS_CardinalityType DEF AskedBy
  <2> QED
    BY <2>1 DEF F!Init
<1> QED
  BY <1>2, <1>4, <1>5 DEF FabricInv

LEMMA OnceEach == FabricInv => EachRouteOnce
<1> SUFFICES ASSUME FabricInv, NEW c \in Calls
             PROVE  F!IsInjective(call[c].asked) /\ F!Cardinality(call[c].escaped) <= 1
  BY DEF EachRouteOnce, F!EachRouteOnce
<1>1. SoundCall(call[c]) /\ call[c].asked \in Seq(Models) /\ call[c].escaped \subseteq Models
  BY FabricFacts DEF FabricInv, FabricCall
<1>2. DOMAIN call[c].asked = 1 .. Len(call[c].asked)
  BY <1>1, LenProperties
<1>3. F!IsInjective(call[c].asked)
  BY <1>1, <1>2 DEF F!IsInjective, SoundCall, Distinct
<1>4. PICK E : E = call[c].escaped
  OBVIOUS
<1>5. E = {} \/ \E x : E = {x}
  BY <1>1, <1>4 DEF SoundCall
<1>6. Cardinality(E) <= 1
  <2>1. CASE E = {}
    BY <2>1, FS_EmptySet
  <2>2. ASSUME NEW x, E = {x} PROVE Cardinality(E) <= 1
    <3>1. Cardinality({x}) = 1
      BY FS_Singleton
    <3> QED
      BY <2>2, <3>1
  <2> QED
    BY <1>5, <2>1, <2>2
<1> QED
  BY <1>3, <1>4, <1>6, FabricCardinality

\* No route is asked twice for one request, whatever fails and however often the request
\* moves on, and what a caller is given of a stream is from one route.
THEOREM FabricHolds == F!Spec => [](F!TypeOK /\ F!EachRouteOnce)
<1>1. FabricInv => F!TypeOK /\ F!EachRouteOnce
  BY OnceEach DEF FabricInv, EachRouteOnce
<1> QED
  BY <1>1, FabricInit, FabricStep, PTL DEF F!Spec

-----------------------------------------------------------------------------
(* The world model.  A row changes only with its version, so a row whose       *)
(* version is the one that a transaction read is in force if it was then; and *)
(* of the assertions of a lineage that never won, only the newest is in force, *)
(* the one which the transaction that adds to the lineage takes out of force.  *)

Row == W!WorldPropertyAssertionORM

OlderRow(x, y) == x.version <= y.version /\ (x.version = y.version => x = y)

Later(s, t) == Len(s) <= Len(t) /\ \A i \in 1 .. Len(s) : OlderRow(s[i], t[i])

\* Assertion i was in force when its version was read.
ReadInForce(i, version) ==
  /\ i \in W!Ids /\ version \in Nat /\ version <= assertions[i].version
  /\ version = assertions[i].version => assertions[i].status = "ACTIVE"

\* The transactions that are open.
Transaction(t) ==
  /\ t \in [observation : W!ObservationORM, entity : Entities, prev : Nat, checked : BOOLEAN,
            marked : Nat, existing : Nat, version : Nat]
  /\ {t.prev, t.marked, t.existing} \subseteq W!Ids \cup {0}
  /\ t.existing # 0 => ReadInForce(t.existing, t.version)

CellInv ==
  /\ cell = [c \in Cells |-> cell[c]]
  /\ \A c \in Cells : cell[c] = None \/ Transaction(cell[c])

RecoveryInv == recovery = None \/ \A i \in DOMAIN recovery : ReadInForce(i, recovery[i])

WorldInv ==
  /\ W!TypeOK /\ NewestInForce /\ CellInv /\ RecoveryInv /\ Len(lineage) = Len(assertions)
  /\ \A c \in 1 .. Len(contradictions) : contradictions[c].prev \in W!Ids

LEMMA RowFields ==
  ASSUME NEW x \in Row
  PROVE  /\ x.entity \in Entities /\ x.value \in Values /\ x.at \in Nat
         /\ x.status \in W!AssertionStatus /\ x.fresh \in BOOLEAN /\ x.version \in Nat
  BY DEF Row, W!WorldPropertyAssertionORM

LEMMA RowsOf ==
  ASSUME NEW s \in Seq(Row)
  PROVE  /\ Len(s) \in Nat /\ DOMAIN s = 1 .. Len(s)
         /\ \A i \in 1 .. Len(s) : s[i] \in Row /\ s[i].version \in Nat /\ s[i].at \in Nat
<1>1. Len(s) \in Nat /\ DOMAIN s = 1 .. Len(s) /\ \A i \in 1 .. Len(s) : s[i] \in Row
  BY LenProperties
<1> QED
  BY <1>1, RowFields

LEMMA SameRows == ASSUME NEW s \in Seq(Row) PROVE Later(s, s)
  BY RowsOf DEF Later, OlderRow

LEMMA LaterYet ==
  ASSUME NEW s \in Seq(Row), NEW t \in Seq(Row), NEW u \in Seq(Row), Later(s, t), Later(t, u)
  PROVE  Later(s, u)
<1>1. Len(s) \in Nat /\ Len(t) \in Nat /\ Len(u) \in Nat /\ Len(s) <= Len(t) /\ Len(t) <= Len(u)
  BY RowsOf DEF Later
<1>2. ASSUME NEW i \in 1 .. Len(s) PROVE OlderRow(s[i], u[i])
  <2>1. i \in 1 .. Len(t) /\ i \in 1 .. Len(u)
    BY <1>1
  <2>2. s[i].version \in Nat /\ t[i].version \in Nat /\ u[i].version \in Nat
    BY <2>1, RowsOf
  <2>3. OlderRow(s[i], t[i]) /\ OlderRow(t[i], u[i])
    BY <2>1 DEF Later
  <2> QED
    BY <2>2, <2>3 DEF OlderRow
<1> QED
  BY <1>1, <1>2 DEF Later

\* A status is written with a new version.
LEMMA RowMarked ==
  ASSUME NEW s \in Seq(Row), NEW i \in 1 .. Len(s) \cup {0}, NEW mark \in W!AssertionStatus,
         NEW t, t = W!Marked(s, i, mark)
  PROVE  /\ t \in Seq(Row) /\ Len(t) = Len(s) /\ Later(s, t) /\ (i # 0 => t[i].status = mark)
         /\ \A j \in 1 .. Len(s) : j # i => t[j] = s[j]
<1>1. CASE i = 0
  BY <1>1, SameRows DEF W!Marked
<1>2. CASE i # 0
  <2>1. i \in 1 .. Len(s)
    BY <1>2
  <2>2. PICK x \in Row : x = s[i]
    BY <2>1, RowsOf
  <2>3. PICK n \in Nat : n = x.version
    BY RowFields
  <2>4. PICK y : y = [x EXCEPT !.status = mark, !.version = n + 1]
    OBVIOUS
  <2>5. y \in Row /\ y.status = mark /\ y.version = n + 1
    <3>1. PICK m \in Nat : m = n + 1
      OBVIOUS
    <3>2. y = [x EXCEPT !.status = mark, !.version = m]
      BY <2>4, <3>1
    <3> QED
      BY <3>1, <3>2 DEF Row, W!WorldPropertyAssertionORM
  <2>6. t = [s EXCEPT ![i] = y]
    BY <1>2, <2>1, <2>2, <2>3, <2>4, RowsOf DEF W!Marked
  <2>7. /\ t \in Seq(Row) /\ Len(t) = Len(s) /\ t[i] = y
        /\ \A j \in 1 .. Len(s) : j # i => t[j] = s[j]
    BY <2>1, <2>5, <2>6, RowsOf, ExceptSeq
  <2>8. OlderRow(x, y)
    BY <2>3, <2>5 DEF OlderRow
  <2>9. Later(s, t)
    <3>1. \A j \in 1 .. Len(s) : OlderRow(s[j], t[j])
      BY <2>2, <2>7, <2>8, SameRows DEF Later
    <3> QED
      BY <2>7, <3>1, RowsOf DEF Later
  <2> QED
    BY <2>5, <2>7, <2>9
<1> QED
  BY <1>1, <1>2

\* There is a latest of some assertions.
LEMMA LatestOf ==
  ASSUME NEW s \in Seq(Row), NEW D \in SUBSET (1 .. Len(s))
  PROVE  W!Latest(s, D) = 0 \/ W!Latest(s, D) \in D
<1>1. CASE D = {}
  BY <1>1 DEF W!Latest
<1>2. CASE D # {}
  <2>1. Len(s) \in Nat
    BY RowsOf
  <2>2. IsFiniteSet(D)
    <3>1. IsFiniteSet(1 .. Len(s))
      BY <2>1, FS_Interval
    <3> QED
      BY <3>1, FS_Subset
  <2>3. PICK f : f = [i \in 1 .. Len(s) |-> s[i].at]
    OBVIOUS
  <2>4. PICK T : T = {f[i] : i \in D}
    OBVIOUS
  <2>5. IsFiniteSet(T)
    BY <2>2, <2>4, FiniteImage
  <2>6. T \subseteq Nat /\ T # {}
    BY <1>2, <2>3, <2>4, RowsOf
  <2>7. \E x \in T : \A y \in T : x >= y
    BY <2>5, <2>6, LargestNumber
  <2>8. PICK i \in D : \A j \in D : f[i] >= f[j]
    BY <2>4, <2>7
  <2>9. \A j \in D : s[j].at <= s[i].at
    BY <2>3, <2>8, RowsOf
  <2> QED
    BY <1>2, <2>8, <2>9 DEF W!Latest
<1> QED
  BY <1>1, <1>2

LEMMA WorldFacts ==
  ASSUME WorldInv
  PROVE  /\ kernelEpoch \in 1 .. MaxEpoch /\ now \in 0 .. MaxTime /\ session \in [Sources -> 0 .. kernelEpoch]
         /\ ledger \in Seq(W!ObservationORM) /\ Len(ledger) \in Nat
         /\ DOMAIN entities \subseteq Entities /\ \A e \in DOMAIN entities : entities[e] \in W!WorldEntityORM
         /\ assertions \in Seq(Row) /\ Len(assertions) \in Nat /\ W!Ids = 1 .. Len(assertions)
         /\ contradictions \in Seq(W!WorldContradictionORM) /\ Len(contradictions) \in Nat
         /\ watches \in Seq(W!WorldWatchORM) /\ Len(watches) \in Nat
         /\ lineage \in Seq(W!Ids) /\ Len(lineage) = Len(assertions)
         /\ won \subseteq W!Ids /\ lost \subseteq W!Ids
         /\ MaxTime \in Nat /\ MaxEpoch \in Nat
         /\ CellInv /\ RecoveryInv
         /\ \A c \in 1 .. Len(contradictions) : contradictions[c].prev \in W!Ids
<1>1. /\ ledger \in Seq(W!ObservationORM) /\ assertions \in Seq(Row)
      /\ contradictions \in Seq(W!WorldContradictionORM) /\ watches \in Seq(W!WorldWatchORM)
  BY DEF WorldInv, W!TypeOK, Row
<1>2. Len(ledger) \in Nat /\ Len(assertions) \in Nat /\ Len(contradictions) \in Nat /\ Len(watches) \in Nat
  BY <1>1, LenProperties
<1>3. MaxTime \in Nat /\ MaxEpoch \in Nat
  BY WorldAssumption DEF W!WorldAssumption
<1> QED
  BY <1>1, <1>2, <1>3 DEF WorldInv, W!TypeOK, W!Ids

\* What was read in force stays so while the rows only move forward.
LEMMA ReadYet ==
  ASSUME WorldInv, assertions' \in Seq(Row), Later(assertions, assertions'), NEW i, NEW v,
         ReadInForce(i, v)
  PROVE  ReadInForce(i, v)'
<1>1. i \in 1 .. Len(assertions) /\ Len(assertions) <= Len(assertions')
      /\ Len(assertions) \in Nat /\ Len(assertions') \in Nat
  BY WorldFacts, RowsOf DEF ReadInForce, Later
<1>2. i \in 1 .. Len(assertions') /\ i \in W!Ids'
  BY <1>1 DEF W!Ids
<1>3. assertions[i].version \in Nat /\ assertions'[i].version \in Nat
  BY <1>1, <1>2, WorldFacts, RowsOf
<1>4. OlderRow(assertions[i], assertions'[i])
  BY <1>1 DEF Later
<1> QED
  BY <1>2, <1>3, <1>4 DEF ReadInForce, OlderRow

LEMMA TransactionYet ==
  ASSUME WorldInv, assertions' \in Seq(Row), Later(assertions, assertions'), NEW t, Transaction(t)
  PROVE  Transaction(t)'
<1>1. W!Ids \subseteq W!Ids'
  BY WorldFacts, RowsOf DEF Later, W!Ids
<1>2. t.existing # 0 => ReadInForce(t.existing, t.version)'
  BY ReadYet DEF Transaction
<1>3. {t.prev, t.marked, t.existing} \subseteq W!Ids \cup {0}
  BY DEF Transaction
<1>4. ({t.prev, t.marked, t.existing} \subseteq W!Ids \cup {0})'
  BY <1>1, <1>3
<1> QED
  BY <1>2, <1>4 DEF Transaction

\* Cells that begin nothing.
LEMMA CellKept ==
  ASSUME WorldInv, assertions' \in Seq(Row), Later(assertions, assertions'),
         cell' = [c \in Cells |-> cell'[c]], \A c \in Cells : cell'[c] \in {None, cell[c]}
  PROVE  CellInv'
<1> SUFFICES ASSUME NEW c \in Cells, cell'[c] # None PROVE Transaction(cell[c])'
  BY DEF CellInv
<1>1. cell'[c] = cell[c] /\ cell[c] # None
  OBVIOUS
<1>2. PICK t : t = cell[c]
  OBVIOUS
<1>3. Transaction(t)
  BY <1>1, <1>2, WorldFacts DEF CellInv
<1>4. Transaction(t)'
  BY <1>3, TransactionYet
<1> QED
  BY <1>1, <1>2, <1>4 DEF Transaction

LEMMA CellUnchanged ==
  ASSUME WorldInv, assertions' \in Seq(Row), Later(assertions, assertions'), UNCHANGED cell
  PROVE  CellInv'
  BY CellKept, WorldFacts DEF CellInv

LEMMA RecoveryKept ==
  ASSUME WorldInv, assertions' \in Seq(Row), Later(assertions, assertions'), UNCHANGED recovery
  PROVE  RecoveryInv'
<1>1. CASE recovery = None
  BY <1>1 DEF RecoveryInv
<1>2. CASE \A i \in DOMAIN recovery : ReadInForce(i, recovery[i])
  <2>1. ASSUME NEW i \in DOMAIN recovery' PROVE ReadInForce(i, recovery[i])'
    <3>1. PICK v : v = recovery[i]
      OBVIOUS
    <3>2. ReadInForce(i, v)
      BY <1>2, <3>1
    <3>3. ReadInForce(i, v)'
      BY <3>2, ReadYet
    <3> QED
      BY <3>1, <3>3 DEF ReadInForce
  <2> QED
    BY <2>1 DEF RecoveryInv
<1> QED
  BY <1>1, <1>2, WorldFacts DEF RecoveryInv

\* What a step that writes no assertion has to keep.
LEMMA WorldElsewhere ==
  ASSUME WorldInv, UNCHANGED <<assertions, contradictions, lineage, won, lost>>, CellInv', RecoveryInv',
         kernelEpoch' \in 1 .. MaxEpoch, now' \in 0 .. MaxTime, session' \in [Sources -> 0 .. kernelEpoch'],
         ledger' \in Seq(W!ObservationORM),
         DOMAIN entities' \subseteq Entities, \A e \in DOMAIN entities' : entities'[e] \in W!WorldEntityORM,
         watches' \in Seq(W!WorldWatchORM)
  PROVE  WorldInv'
<1>1. W!TypeOK'
  BY WorldFacts DEF W!TypeOK, Row, W!Ids
<1>2. NewestInForce'
  BY DEF WorldInv, NewestInForce, W!NewestInForce, W!Ids
<1> QED
  BY <1>1, <1>2, WorldFacts DEF WorldInv, W!Ids

LEMMA WorldStill ==
  ASSUME WorldInv, UNCHANGED assertions
  PROVE  assertions' \in Seq(Row) /\ Later(assertions, assertions')
  BY SameRows, WorldFacts

LEMMA ObservedStep ==
  ASSUME WorldInv, NEW s \in Sources, NEW k \in 1 .. MaxObservations, NEW e \in Entities,
         NEW v \in Values, NEW t \in 0 .. now, W!IngestObservation(s, k, e, v, t)
  PROVE  WorldInv'
<1>1. PICK o : o = [source |-> s, key |-> k, subject |-> e, value |-> v, at |-> t]
  OBVIOUS
<1>2. k \in Nat /\ t \in Nat
  BY WorldFacts
<1>3. o \in W!ObservationORM
  BY <1>1, <1>2 DEF W!ObservationORM
<1>4. ledger' = Append(ledger, o)
      /\ UNCHANGED <<kernelEpoch, now, session, entities, assertions, contradictions,
                     watches, cell, recovery, lineage, won, lost>>
  BY <1>1 DEF W!IngestObservation, W!SaveObservation, W!history
<1>5. ledger' \in Seq(W!ObservationORM)
  BY <1>3, <1>4, WorldFacts, AppendProperties
<1>6. CellInv' /\ RecoveryInv'
  BY <1>4, CellUnchanged, RecoveryKept, WorldStill
<1> QED
  BY <1>4, <1>5, <1>6, WorldFacts, WorldElsewhere

LEMMA EntityStep ==
  ASSUME WorldInv, NEW e \in DOMAIN entities, NEW merged \in Entities \cup {None},
         W!UpdateEntity(e, merged),
         UNCHANGED <<kernelEpoch, now, session, ledger, assertions, contradictions,
                     watches, cell, recovery, lineage, won, lost>>
  PROVE  WorldInv'
<1>1. PICK x \in W!WorldEntityORM : x = entities[e]
  BY WorldFacts
<1>2. PICK n \in Nat : n = x.version + 1
  BY DEF W!WorldEntityORM
<1>3. PICK y \in W!WorldEntityORM : y = [merged |-> merged, version |-> n]
  BY DEF W!WorldEntityORM
<1>4. entities' = [entities EXCEPT ![e] = y]
  BY <1>1, <1>2, <1>3 DEF W!UpdateEntity
<1>5. DOMAIN entities' \subseteq Entities /\ \A d \in DOMAIN entities' : entities'[d] \in W!WorldEntityORM
  BY <1>4, WorldFacts
<1>6. CellInv' /\ RecoveryInv'
  BY CellUnchanged, RecoveryKept, WorldStill
<1> QED
  BY <1>5, <1>6, WorldFacts, WorldElsewhere

\* A cell that takes a step of a transaction which writes nothing yet.
LEMMA TransactionStep ==
  ASSUME WorldInv, NEW c \in Cells, NEW t, Transaction(t), cell' = [cell EXCEPT ![c] = t],
         UNCHANGED <<kernelEpoch, now, session, ledger, entities, assertions, contradictions,
                     watches, recovery, lineage, won, lost>>
  PROVE  WorldInv'
<1>1. cell = [d \in Cells |-> cell[d]] /\ \A d \in Cells : cell[d] = None \/ Transaction(cell[d])
  BY WorldFacts DEF CellInv
<1>2. cell' = [d \in Cells |-> cell'[d]] /\ \A d \in Cells : cell'[d] = IF d = c THEN t ELSE cell[d]
  BY <1>1
<1>3. assertions' = assertions /\ W!Ids' = W!Ids
  BY DEF W!Ids
<1>4. \A u : Transaction(u) => Transaction(u)'
  BY TransactionYet, WorldStill
<1>5. ASSUME NEW d \in Cells, cell'[d] # None PROVE Transaction(cell[d])'
  <2>1. PICK u : u = cell'[d]
    OBVIOUS
  <2>2. Transaction(u)
    BY <1>1, <1>2, <1>5, <2>1
  <2>3. Transaction(u)'
    BY <1>4, <2>2
  <2> QED
    BY <2>1, <2>3 DEF Transaction
<1>6. CellInv'
  BY <1>2, <1>5 DEF CellInv
<1>7. RecoveryInv'
  BY RecoveryKept, WorldStill
<1> QED
  BY <1>6, <1>7, WorldFacts, WorldElsewhere

LEMMA ReadStep ==
  ASSUME WorldInv, NEW c \in Cells, NEW i \in 1 .. Len(ledger), W!BeginProjection(c, ledger[i])
  PROVE  WorldInv'
<1>1. PICK o \in W!ObservationORM : o = ledger[i]
  BY WorldFacts, LenProperties
<1>2. PICK e : e = W!Resolve(o.subject)
  OBVIOUS
<1>3. e \in Entities
  BY <1>1, <1>2, WorldFacts DEF W!Resolve, W!ObservationORM, W!WorldEntityORM
<1>4. PICK prev : prev = W!Latest(assertions, W!Active(assertions, e))
  OBVIOUS
<1>5. prev \in W!Ids \cup {0}
  <2>1. W!Active(assertions, e) \subseteq 1 .. Len(assertions)
    BY DEF W!Active
  <2>2. prev = 0 \/ prev \in W!Active(assertions, e)
    BY <1>4, <2>1, LatestOf, WorldFacts
  <2> QED
    BY <2>1, <2>2, WorldFacts
<1>6. PICK t : t = [observation |-> o, entity |-> e, prev |-> prev, checked |-> FALSE,
                    marked |-> 0, existing |-> 0, version |-> 0]
  OBVIOUS
<1>7. Transaction(t)
  <2>1. prev \in Nat
    BY <1>5, WorldFacts
  <2>2. t \in [observation : W!ObservationORM, entity : Entities, prev : Nat, checked : BOOLEAN,
              marked : Nat, existing : Nat, version : Nat]
    BY <1>3, <1>6, <2>1
  <2>3. t.prev = prev /\ t.marked = 0 /\ t.existing = 0
    BY <1>6
  <2> QED
    BY <1>5, <2>2, <2>3 DEF Transaction
<1>8. /\ cell' = [cell EXCEPT ![c] = t]
      /\ UNCHANGED <<kernelEpoch, now, session, ledger, entities, assertions, contradictions,
                     watches, recovery, lineage, won, lost>>
  BY <1>1, <1>2, <1>4, <1>6 DEF W!BeginProjection, W!history
<1> QED
  BY <1>7, <1>8, TransactionStep

LEMMA CheckStep ==
  ASSUME WorldInv, NEW c \in Cells, W!CheckContradiction(c) PROVE WorldInv'
<1>1. PICK t : t = cell[c]
  OBVIOUS
<1>2. Transaction(t)
  BY <1>1, WorldFacts DEF CellInv, W!CheckContradiction
<1>3. PICK marked : marked = W!Conflicting(t)
  OBVIOUS
<1>4. marked \in W!Ids \cup {0}
  BY <1>2, <1>3 DEF W!Conflicting, Transaction
<1>5. PICK D : D = W!Active(assertions, t.entity) \ {marked}
  OBVIOUS
<1>6. PICK existing : existing = W!Latest(assertions, D)
  OBVIOUS
<1>7. D \subseteq 1 .. Len(assertions) /\ \A i \in D : assertions[i].status = "ACTIVE"
  BY <1>5 DEF W!Active
<1>8. existing = 0 \/ existing \in D
  BY <1>6, <1>7, LatestOf, WorldFacts
<1>9. PICK version : version = IF existing = 0 THEN 0 ELSE assertions[existing].version
  OBVIOUS
<1>10. version \in Nat /\ (existing # 0 => ReadInForce(existing, version))
  <2>1. CASE existing = 0
    BY <1>9, <2>1
  <2>2. CASE existing # 0
    <3>1. existing \in 1 .. Len(assertions) /\ assertions[existing].status = "ACTIVE"
      BY <1>7, <1>8, <2>2
    <3>2. version = assertions[existing].version /\ version \in Nat
      BY <1>9, <2>2, <3>1, RowsOf, WorldFacts
    <3> QED
      BY <3>1, <3>2, WorldFacts DEF ReadInForce
  <2> QED
    BY <2>1, <2>2
<1>11. PICK u : u = [t EXCEPT !.checked = TRUE, !.prev = 0, !.marked = marked, !.existing = existing,
                              !.version = version]
  OBVIOUS
<1>12. /\ cell' = [cell EXCEPT ![c] = u]
       /\ UNCHANGED <<kernelEpoch, now, session, ledger, entities, assertions, contradictions,
                      watches, recovery, lineage, won, lost>>
  BY <1>1, <1>3, <1>5, <1>6, <1>9, <1>11 DEF W!CheckContradiction, W!history
<1>13. Transaction(u)
  <2>1. marked \in Nat /\ existing \in Nat /\ existing \in W!Ids \cup {0}
    <3>1. W!Ids = 1 .. Len(assertions) /\ Len(assertions) \in Nat
      BY WorldFacts
    <3>2. existing \in W!Ids \cup {0}
      BY <1>7, <1>8, <3>1
    <3> QED
      BY <1>4, <3>1, <3>2
  <2>2. t \in [observation : W!ObservationORM, entity : Entities, prev : Nat, checked : BOOLEAN,
              marked : Nat, existing : Nat, version : Nat]
    BY <1>2 DEF Transaction
  <2>3. PICK v \in Nat : v = version
    BY <1>10
  <2>4. u = [t EXCEPT !.checked = TRUE, !.prev = 0, !.marked = marked, !.existing = existing, !.version = v]
    BY <1>11, <2>3
  <2>5. u \in [observation : W!ObservationORM, entity : Entities, prev : Nat, checked : BOOLEAN,
              marked : Nat, existing : Nat, version : Nat]
    BY <2>1, <2>2, <2>4
  <2>6. u.prev = 0 /\ u.marked = marked /\ u.existing = existing /\ u.version = version
    BY <2>2, <2>3, <2>4
  <2> QED
    BY <1>4, <1>10, <2>1, <2>5, <2>6 DEF Transaction
<1> QED
  BY <1>12, <1>13, TransactionStep

\* The transaction takes out of force whatever assertion its own follows.
LEMMA FollowedRows ==
  ASSUME WorldInv, NEW t, Transaction(t), t.existing # 0 => W!VersionIs(t.existing, t.version),
         NEW s, s = W!Superseded(t)
  PROVE  /\ s \in Seq(Row) /\ Len(s) = Len(assertions) /\ Later(assertions, s)
         /\ \A i \in W!Ids : s[i].status = "ACTIVE" =>
              /\ assertions[i].status = "ACTIVE"
              /\ lineage[i] = W!Follows(t) => \E w \in won : lineage[w] = lineage[i]
         /\ W!Follows(t) \in 1 .. Len(assertions) + 1
<1>1. PICK n \in Nat : n = Len(assertions)
  BY WorldFacts
<1>2. PICK a, b : a = t.marked /\ b = t.existing
  OBVIOUS
<1>3. a \in W!Ids \cup {0} /\ b \in W!Ids \cup {0} /\ W!Ids = 1 .. n
  BY <1>1, <1>2, WorldFacts DEF Transaction
<1>4. {"CONTRADICTED", "SUPERSEDED"} \subseteq W!AssertionStatus
  BY DEF W!AssertionStatus
<1>5. PICK r : r = W!Marked(assertions, a, "CONTRADICTED")
  OBVIOUS
<1>6. /\ r \in Seq(Row) /\ Len(r) = n /\ Later(assertions, r) /\ (a # 0 => r[a].status = "CONTRADICTED")
      /\ \A j \in 1 .. n : j # a => r[j] = assertions[j]
  <2>1. assertions \in Seq(Row) /\ a \in 1 .. Len(assertions) \cup {0} /\ "CONTRADICTED" \in W!AssertionStatus
    BY <1>1, <1>3, <1>4, WorldFacts
  <2> QED
    BY <1>1, <1>5, <2>1, RowMarked
<1>7. /\ s \in Seq(Row) /\ Len(s) = n /\ Later(r, s) /\ (b # 0 => s[b].status = "SUPERSEDED")
      /\ \A j \in 1 .. n : j # b => s[j] = r[j]
  <2>1. b \in 1 .. Len(r) \cup {0} /\ "SUPERSEDED" \in W!AssertionStatus
    BY <1>3, <1>4, <1>6
  <2>2. s = W!Marked(r, b, "SUPERSEDED")
    BY <1>2, <1>5 DEF W!Superseded
  <2>3. r \in Seq(Row)
    BY <1>6
  <2>4. /\ s \in Seq(Row) /\ Len(s) = Len(r) /\ Later(r, s) /\ (b # 0 => s[b].status = "SUPERSEDED")
        /\ \A j \in 1 .. Len(r) : j # b => s[j] = r[j]
    BY <2>1, <2>2, <2>3, RowMarked
  <2> QED
    BY <1>6, <2>4
<1>8. Later(assertions, s)
  BY <1>6, <1>7, LaterYet, WorldFacts
<1>9. ASSUME NEW i \in W!Ids, s[i].status = "ACTIVE"
      PROVE  assertions[i].status = "ACTIVE" /\ i # a /\ i # b
  <2>1. i # 0 /\ i \in 1 .. n
    BY <1>3
  <2>2. i # b
    BY <1>7, <1>9, <2>1
  <2>3. i # a
    BY <1>6, <1>7, <1>9, <2>1, <2>2
  <2> QED
    BY <1>6, <1>7, <1>9, <2>1, <2>2, <2>3
<1>10. b # 0 => assertions[b].status = "ACTIVE"
  BY <1>2 DEF Transaction, ReadInForce, W!VersionIs
<1>11. PICK x : x = W!Follows(t)
  OBVIOUS
<1>12. \/ x = n + 1
       \/ \E k \in W!Ids : k \in {a, b} /\ assertions[k].status = "ACTIVE" /\ x = lineage[k]
  BY <1>1, <1>2, <1>3, <1>10, <1>11 DEF W!Follows
<1>13. \A k \in W!Ids : lineage[k] \in W!Ids
  BY WorldFacts, LenProperties
<1>14. x \in 1 .. n + 1
  BY <1>3, <1>12, <1>13
<1>15. ASSUME NEW i \in W!Ids, s[i].status = "ACTIVE", lineage[i] = x,
              ~ \E w \in won : lineage[w] = lineage[i]
       PROVE  FALSE
  <2>1. x # n + 1
    BY <1>3, <1>13, <1>15
  <2>2. PICK k \in W!Ids : k \in {a, b} /\ assertions[k].status = "ACTIVE" /\ x = lineage[k]
    BY <1>12, <2>1
  <2>3. k # i /\ assertions[i].status = "ACTIVE"
    BY <1>9, <1>15, <2>2
  <2>4. k <= i /\ i <= k
    BY <1>15, <2>2, <2>3 DEF WorldInv, NewestInForce, W!NewestInForce
  <2> QED
    BY <1>3, <2>3, <2>4
<1> QED
  BY <1>1, <1>7, <1>8, <1>9, <1>11, <1>14, <1>15

\* A projection adds an assertion to the lineage of the one it takes out of force.
LEMMA ProjectStep == ASSUME WorldInv, NEW c \in Cells, W!CommitProjection(c) PROVE WorldInv'
<1>1. PICK t : t = cell[c]
  OBVIOUS
<1>2. Transaction(t) /\ (t.existing # 0 => W!VersionIs(t.existing, t.version))
  BY <1>1, WorldFacts DEF CellInv, W!CommitProjection
<1>3. PICK n \in Nat : n = Len(assertions)
  BY WorldFacts
<1>4. W!Ids = 1 .. n /\ Len(lineage) = n /\ lineage \in Seq(W!Ids)
  BY <1>3, WorldFacts
<1>5. PICK e \in Entities, o \in W!ObservationORM : e = t.entity /\ o = t.observation
  BY <1>2 DEF Transaction
<1>6. PICK s : s = W!Superseded(t)
  OBVIOUS
<1>7. PICK x : x = W!Follows(t)
  OBVIOUS
<1>8. /\ s \in Seq(Row) /\ Len(s) = n /\ Later(assertions, s) /\ x \in 1 .. n + 1
      /\ \A i \in 1 .. n : s[i].status = "ACTIVE" =>
           /\ assertions[i].status = "ACTIVE"
           /\ lineage[i] = x => \E w \in won : lineage[w] = lineage[i]
  BY <1>2, <1>3, <1>4, <1>6, <1>7, FollowedRows
<1>9. PICK row : row = [entity |-> e, value |-> o.value, at |-> o.at, status |-> "ACTIVE",
                        fresh |-> TRUE, version |-> 1]
  OBVIOUS
<1>10. row \in Row
  BY <1>9 DEF Row, W!WorldPropertyAssertionORM, W!ObservationORM, W!AssertionStatus
<1>11. /\ assertions' = Append(s, row) /\ lineage' = Append(lineage, x)
       /\ watches' = W!Evaluated(e, o.value) /\ cell' = [cell EXCEPT ![c] = None]
       /\ entities' = IF e \in DOMAIN entities THEN entities ELSE W!CreateEntity(e)
       /\ UNCHANGED <<kernelEpoch, now, session, ledger, recovery, won, lost>>
  BY <1>1, <1>5, <1>6, <1>7, <1>9 DEF W!CommitProjection, W!CreateAssertion
<1>12. /\ assertions' \in Seq(Row) /\ Len(assertions') = n + 1 /\ assertions'[n + 1] = row
       /\ \A i \in 1 .. n : assertions'[i] = s[i]
  BY <1>8, <1>10, <1>11, AppendProperties
<1>13. W!Ids' = 1 .. n + 1
  BY <1>12 DEF W!Ids
<1>14. Later(assertions, assertions')
  BY <1>3, <1>8, <1>12 DEF Later
<1>15. /\ lineage' \in Seq(1 .. n + 1) /\ Len(lineage') = n + 1 /\ lineage'[n + 1] = x
       /\ \A i \in 1 .. n : lineage'[i] = lineage[i]
  <2>1. lineage \in Seq(1 .. n + 1)
    <3>1. lineage \in [1 .. n -> 1 .. n] /\ 1 .. n \subseteq 1 .. n + 1
      BY <1>4, LenProperties
    <3> QED
      BY <3>1
  <2> QED
    BY <1>4, <1>8, <1>11, <2>1, AppendProperties
<1>16. NewestInForce'
  <2>1. ASSUME NEW i \in 1 .. n + 1, assertions'[i].status = "ACTIVE",
               ~ \E w \in won : lineage'[w] = lineage'[i],
               NEW j \in 1 .. n + 1, lineage'[j] = lineage'[i]
        PROVE  j <= i
    <3>1. CASE i = n + 1
      BY <3>1
    <3>2. CASE i \in 1 .. n
      <4>1. assertions[i].status = "ACTIVE" /\ s[i].status = "ACTIVE" /\ lineage'[i] = lineage[i]
        BY <1>8, <1>12, <1>15, <2>1, <3>2
      <4>2. won \subseteq 1 .. n
        BY <1>4, WorldFacts
      <4>3. ~ \E w \in won : lineage[w] = lineage[i]
        BY <1>15, <2>1, <4>1, <4>2
      <4>4. lineage[i] # x
        BY <1>8, <3>2, <4>1, <4>3
      <4>5. j \in 1 .. n /\ lineage[j] = lineage[i]
        BY <1>15, <2>1, <4>1, <4>4
      <4> QED
        BY <1>4, <3>2, <4>1, <4>3, <4>5 DEF WorldInv, NewestInForce, W!NewestInForce
    <3> QED
      BY <3>1, <3>2
  <2>2. ASSUME NEW i \in lost PROVE assertions'[i].status # "ACTIVE"
    <3>1. i \in 1 .. n /\ assertions[i].status # "ACTIVE"
      BY <1>4, WorldFacts DEF WorldInv, NewestInForce, W!NewestInForce
    <3> QED
      BY <1>8, <1>12, <3>1
  <2>3. won' = won /\ lost' = lost
    BY <1>11
  <2> QED
    BY <1>13, <2>1, <2>2, <2>3 DEF NewestInForce, W!NewestInForce
<1>17. PICK m : m = t.marked
  OBVIOUS
<1>18. m \in W!Ids \cup {0}
  BY <1>2, <1>17 DEF Transaction
<1>19. PICK conflict : conflict = [prev |-> m, draft |-> 0, status |-> "OPEN"]
  OBVIOUS
<1>20. conflict \in W!WorldContradictionORM /\ conflict.prev = m
  BY <1>4, <1>18, <1>19 DEF W!WorldContradictionORM
<1>21. \/ contradictions' = contradictions
       \/ contradictions' = Append(contradictions, conflict) /\ m # 0
  BY <1>1, <1>17, <1>19 DEF W!CommitProjection, W!CreateContradiction
<1>22. /\ contradictions' \in Seq(W!WorldContradictionORM)
       /\ \A d \in 1 .. Len(contradictions') : contradictions'[d].prev \in 1 .. n + 1
  <2>1. CASE contradictions' = contradictions
    BY <1>4, <2>1, WorldFacts
  <2>2. CASE contradictions' = Append(contradictions, conflict) /\ m # 0
    <3>1. PICK k \in Nat : k = Len(contradictions)
      BY WorldFacts
    <3>2. /\ contradictions' \in Seq(W!WorldContradictionORM) /\ Len(contradictions') = k + 1
          /\ contradictions'[k + 1] = conflict
          /\ \A d \in 1 .. k : contradictions'[d] = contradictions[d]
      BY <1>20, <2>2, <3>1, WorldFacts, AppendProperties
    <3>3. \A d \in 1 .. k + 1 : d \in 1 .. k \/ d = k + 1
      OBVIOUS
    <3> QED
      BY <1>4, <1>18, <1>20, <2>2, <3>1, <3>2, <3>3, WorldFacts
  <2> QED
    BY <1>21, <2>1, <2>2
<1>23. watches' \in Seq(W!WorldWatchORM)
  <2>1. ASSUME NEW i \in 1 .. Len(watches)
        PROVE  /\ watches[i] \in W!WorldWatchORM
               /\ [watches[i] EXCEPT !.status = "TRIGGERED"] \in W!WorldWatchORM
    <3>1. PICK y : y = watches[i]
      OBVIOUS
    <3>2. y \in W!WorldWatchORM
      BY <3>1, WorldFacts, LenProperties
    <3>3. [y EXCEPT !.status = "TRIGGERED"] \in W!WorldWatchORM
      BY <3>2 DEF W!WorldWatchORM
    <3> QED
      BY <3>1, <3>2, <3>3
  <2>2. PICK k \in Nat : k = Len(watches)
    BY WorldFacts
  <2>3. W!Evaluated(e, o.value) \in [1 .. k -> W!WorldWatchORM]
    BY <2>1, <2>2 DEF W!Evaluated
  <2> QED
    BY <1>11, <2>2, <2>3
<1>24. DOMAIN entities' \subseteq Entities /\ \A d \in DOMAIN entities' : entities'[d] \in W!WorldEntityORM
  <2>1. W!NewEntity \in W!WorldEntityORM
    BY DEF W!NewEntity, W!WorldEntityORM
  <2> QED
    BY <1>11, <2>1, WorldFacts DEF W!CreateEntity
<1>25. CellInv' /\ RecoveryInv'
  <2>1. cell = [d \in Cells |-> cell[d]]
    BY WorldFacts DEF CellInv
  <2>2. cell' = [d \in Cells |-> cell'[d]] /\ \A d \in Cells : cell'[d] \in {None, cell[d]}
    BY <1>11, <2>1
  <2> QED
    BY <1>11, <1>12, <1>14, <2>2, CellKept, RecoveryKept
<1>26. W!TypeOK'
  <2>1. /\ kernelEpoch' \in 1 .. MaxEpoch /\ now' \in 0 .. MaxTime
        /\ session' \in [Sources -> 0 .. kernelEpoch'] /\ ledger' \in Seq(W!ObservationORM)
    BY <1>11, WorldFacts
  <2>2. won' \subseteq W!Ids' /\ lost' \subseteq W!Ids'
    BY <1>4, <1>11, <1>13, WorldFacts
  <2> QED
    BY <1>12, <1>13, <1>15, <1>22, <1>23, <1>24, <2>1, <2>2 DEF W!TypeOK, Row
<1> QED
  BY <1>12, <1>13, <1>15, <1>16, <1>22, <1>25, <1>26 DEF WorldInv

\* The winner's lineage has won, and the loser is rejected.
LEMMA ResolutionStep ==
  ASSUME WorldInv, NEW c \in 1 .. Len(contradictions), NEW w \in W!Ids \cup {0},
         W!ResolveContradiction(c, w)
  PROVE  WorldInv'
<1>1. PICK n \in Nat : n = Len(assertions)
  BY WorldFacts
<1>2. PICK prev : prev = contradictions[c].prev
  OBVIOUS
<1>3. PICK loser : loser = IF prev = w THEN 0 ELSE prev
  OBVIOUS
<1>4. /\ w \in 1 .. n \cup {0} /\ prev \in 1 .. n /\ loser \in 1 .. n \cup {0} /\ W!Ids = 1 .. n
      /\ loser # 0 => loser # w
  BY <1>1, <1>2, <1>3, WorldFacts
<1>5. {"ACTIVE", "REJECTED"} \subseteq W!AssertionStatus
  BY DEF W!AssertionStatus
<1>6. PICK s : s = W!Marked(assertions, w, "ACTIVE")
  OBVIOUS
<1>7. /\ s \in Seq(Row) /\ Len(s) = n /\ Later(assertions, s)
      /\ \A j \in 1 .. n : j # w => s[j] = assertions[j]
  <2>1. assertions \in Seq(Row) /\ w \in 1 .. Len(assertions) \cup {0} /\ "ACTIVE" \in W!AssertionStatus
    BY <1>1, <1>4, <1>5, WorldFacts
  <2>2. /\ s \in Seq(Row) /\ Len(s) = Len(assertions) /\ Later(assertions, s)
        /\ \A j \in 1 .. Len(assertions) : j # w => s[j] = assertions[j]
    BY <1>6, <2>1, RowMarked
  <2> QED
    BY <1>1, <2>2
<1>8. PICK t : t = W!Marked(s, loser, "REJECTED")
  OBVIOUS
<1>9. /\ t \in Seq(Row) /\ Len(t) = n /\ Later(s, t) /\ (loser # 0 => t[loser].status = "REJECTED")
      /\ \A j \in 1 .. n : j # loser => t[j] = s[j]
  <2>1. loser \in 1 .. Len(s) \cup {0} /\ "REJECTED" \in W!AssertionStatus
    BY <1>4, <1>5, <1>7
  <2>2. s \in Seq(Row)
    BY <1>7
  <2>3. /\ t \in Seq(Row) /\ Len(t) = Len(s) /\ Later(s, t) /\ (loser # 0 => t[loser].status = "REJECTED")
        /\ \A j \in 1 .. Len(s) : j # loser => t[j] = s[j]
    BY <1>8, <2>1, <2>2, RowMarked
  <2> QED
    BY <1>7, <2>3
<1>10. /\ assertions' = t /\ contradictions' = W!ResolvedRow(c)
       /\ won' = won \cup ({w} \ {0}) /\ lost' = (lost \ {w}) \cup ({loser} \ {0})
       /\ UNCHANGED <<kernelEpoch, now, session, ledger, entities, watches, cell, recovery, lineage>>
  BY <1>2, <1>3, <1>6, <1>8 DEF W!ResolveContradiction
<1>11. Later(assertions, assertions') /\ assertions' \in Seq(Row) /\ W!Ids' = 1 .. n
  BY <1>7, <1>9, <1>10, LaterYet, WorldFacts DEF W!Ids
<1>12. won' \subseteq 1 .. n /\ lost' \subseteq 1 .. n
  BY <1>4, <1>10, WorldFacts
<1>13. NewestInForce'
  <2>1. ASSUME NEW i \in 1 .. n, t[i].status = "ACTIVE", ~ \E v \in won' : lineage[v] = lineage[i],
               NEW j \in 1 .. n, lineage[j] = lineage[i]
        PROVE  j <= i
    <3>1. i # w
      BY <1>10, <2>1
    <3>2. i # loser
      BY <1>9, <2>1
    <3>3. assertions[i].status = "ACTIVE" /\ ~ \E v \in won : lineage[v] = lineage[i]
      BY <1>7, <1>9, <1>10, <2>1, <3>1, <3>2
    <3> QED
      BY <1>4, <2>1, <3>3 DEF WorldInv, NewestInForce, W!NewestInForce
  <2>2. ASSUME NEW i \in lost' PROVE t[i].status # "ACTIVE"
    <3>1. CASE i = loser
      BY <1>4, <1>9, <1>12, <2>2, <3>1
    <3>2. CASE i # loser
      <4>1. i \in lost /\ i # w /\ i \in 1 .. n
        BY <1>10, <1>12, <2>2, <3>2
      <4>2. t[i] = assertions[i]
        BY <1>7, <1>9, <3>2, <4>1
      <4> QED
        BY <4>1, <4>2 DEF WorldInv, NewestInForce, W!NewestInForce
    <3> QED
      BY <3>1, <3>2
  <2> QED
    BY <1>10, <1>11, <2>1, <2>2 DEF NewestInForce, W!NewestInForce
<1>14. CellInv' /\ RecoveryInv'
  BY <1>10, <1>11, CellUnchanged, RecoveryKept
<1>15. /\ contradictions' \in Seq(W!WorldContradictionORM)
       /\ \A k \in 1 .. Len(contradictions') : contradictions'[k].prev \in 1 .. n
  <2>1. PICK x \in W!WorldContradictionORM : x = contradictions[c]
    BY WorldFacts, LenProperties
  <2>2. PICK y : y = [x EXCEPT !.status = "RESOLVED"]
    OBVIOUS
  <2>3. y \in W!WorldContradictionORM /\ y.prev = x.prev
    BY <2>2 DEF W!WorldContradictionORM
  <2>4. contradictions' = [contradictions EXCEPT ![c] = y]
    BY <1>10, <2>1, <2>2 DEF W!ResolvedRow
  <2>5. /\ contradictions' \in Seq(W!WorldContradictionORM) /\ Len(contradictions') = Len(contradictions)
        /\ contradictions'[c] = y
        /\ \A k \in 1 .. Len(contradictions) : k # c => contradictions'[k] = contradictions[k]
    BY <2>3, <2>4, WorldFacts, ExceptSeq
  <2> QED
    BY <1>4, <2>1, <2>3, <2>5, WorldFacts
<1>16. W!TypeOK'
  BY <1>4, <1>10, <1>11, <1>12, <1>15, WorldFacts DEF W!TypeOK, Row
<1>17. Len(lineage') = Len(assertions')
  BY <1>1, <1>9, <1>10, WorldFacts
<1> QED
  BY <1>11, <1>13, <1>14, <1>15, <1>16, <1>17 DEF WorldInv

\* A recovery that still holds what it read changes the freshness of rows and nothing else.
LEMMA RecoveredStep == ASSUME WorldInv, W!CommitRecovery PROVE WorldInv'
<1>1. UNCHANGED <<kernelEpoch, now, session, ledger, entities, contradictions, watches, cell,
                  lineage, won, lost>>
      /\ recovery' = None
  BY DEF W!CommitRecovery, W!history
<1>2. RecoveryInv'
  BY <1>1 DEF RecoveryInv
<1>3. CASE assertions' = assertions
  <2>1. CellInv'
    BY <1>1, <1>3, CellUnchanged, WorldStill
  <2> QED
    BY <1>1, <1>2, <1>3, <2>1, WorldElsewhere, WorldFacts
<1>4. CASE W!ReadIsCurrent /\ assertions' = W!Recovered
  <2>1. PICK n \in Nat : n = Len(assertions)
    BY WorldFacts
  <2>2. W!Ids = 1 .. n
    BY <2>1, WorldFacts
  <2>3. \A i \in DOMAIN recovery : ReadInForce(i, recovery[i])
    BY WorldFacts DEF W!CommitRecovery, RecoveryInv
  <2>4. ASSUME NEW i \in 1 .. n
        PROVE  /\ assertions'[i] \in Row /\ assertions'[i].status = assertions[i].status
               /\ OlderRow(assertions[i], assertions'[i])
    <3>1. PICK x \in Row : x = assertions[i]
      BY <2>1, WorldFacts, RowsOf
    <3>2. CASE i \in DOMAIN recovery
      <4>1. x.status = "ACTIVE" /\ recovery[i] = x.version
        BY <1>4, <2>3, <3>1, <3>2 DEF W!ReadIsCurrent, W!VersionIs, ReadInForce
      <4>2. PICK v \in Nat : v = x.version
        BY RowFields
      <4>3. PICK m \in Nat : m = v + 1
        OBVIOUS
      <4>4. PICK g \in BOOLEAN : g = ~ x.fresh
        OBVIOUS
      <4>5. PICK y : y = [x EXCEPT !.status = "ACTIVE", !.fresh = g, !.version = m]
        OBVIOUS
      <4>6. assertions'[i] = y
        BY <1>4, <2>2, <3>1, <3>2, <4>1, <4>2, <4>3, <4>4, <4>5 DEF W!Recovered
      <4>7. y \in Row /\ y.status = "ACTIVE" /\ y.version = m
        BY <4>5 DEF Row, W!WorldPropertyAssertionORM, W!AssertionStatus
      <4> QED
        BY <3>1, <4>1, <4>2, <4>3, <4>6, <4>7 DEF OlderRow
    <3>3. CASE i \notin DOMAIN recovery
      <4>1. assertions'[i] = x
        BY <1>4, <2>2, <3>1, <3>3 DEF W!Recovered
      <4> QED
        BY <3>1, <4>1, RowFields DEF OlderRow
    <3> QED
      BY <3>2, <3>3
  <2>5. assertions' \in Seq(Row) /\ Len(assertions') = n
    <3>1. W!Recovered = [i \in 1 .. n |-> W!Recovered[i]]
      BY <2>2 DEF W!Recovered
    <3>2. \A i \in 1 .. n : W!Recovered[i] \in Row
      BY <1>4, <2>4
    <3>3. W!Recovered \in [1 .. n -> Row]
      BY <3>1, <3>2
    <3> QED
      BY <1>4, <3>3
  <2>6. W!Ids' = 1 .. n
    BY <2>5 DEF W!Ids
  <2>7. Later(assertions, assertions')
    BY <2>1, <2>4, <2>5 DEF Later
  <2>8. NewestInForce'
    <3>1. won' = won /\ lost' = lost /\ lineage' = lineage /\ lost \subseteq 1 .. n
      BY <1>1, <2>2, WorldFacts
    <3>2. \A i \in 1 .. n : assertions'[i].status = assertions[i].status
      BY <2>4
    <3> QED
      BY <2>2, <2>6, <3>1, <3>2 DEF WorldInv, NewestInForce, W!NewestInForce
  <2>9. CellInv'
    BY <1>1, <2>5, <2>7, CellUnchanged
  <2>10. W!TypeOK'
    BY <1>1, <2>2, <2>5, <2>6, WorldFacts DEF W!TypeOK, Row
  <2> QED
    BY <1>1, <1>2, <2>1, <2>2, <2>5, <2>6, <2>8, <2>9, <2>10, WorldFacts DEF WorldInv
<1> QED
  BY <1>3, <1>4 DEF W!CommitRecovery

LEMMA WorldStep == WorldInv /\ [W!Next]_(W!vars) => WorldInv'
<1> SUFFICES ASSUME WorldInv, [W!Next]_(W!vars) PROVE WorldInv'
  OBVIOUS
<1>1. ASSUME NEW s \in Sources, W!OpenSession(s) PROVE WorldInv'
  <2>1. session' \in [Sources -> 0 .. kernelEpoch']
        /\ UNCHANGED <<kernelEpoch, now, ledger, entities, assertions, contradictions,
                       watches, cell, recovery, lineage, won, lost>>
    BY <1>1, WorldFacts DEF W!OpenSession, W!history
  <2>2. CellInv' /\ RecoveryInv'
    BY <2>1, CellUnchanged, RecoveryKept, WorldStill
  <2> QED
    BY <2>1, <2>2, WorldElsewhere, WorldFacts
<1>2. ASSUME NEW e \in Entities, NEW f \in Entities, W!MergeEntities(e, f) PROVE WorldInv'
  BY <1>2, EntityStep DEF W!MergeEntities, W!history
<1>3. ASSUME NEW e \in Entities, W!SplitEntity(e) PROVE WorldInv'
  BY <1>3, EntityStep DEF W!SplitEntity, W!history
<1>4. ASSUME NEW e \in Entities, NEW v \in Values, W!CreateWatch(e, v) PROVE WorldInv'
  <2>1. PICK x : x = [entity |-> e, value |-> v, status |-> "ACTIVE"]
    OBVIOUS
  <2>2. x \in W!WorldWatchORM
    BY <2>1 DEF W!WorldWatchORM
  <2>3. watches' = Append(watches, x)
        /\ UNCHANGED <<kernelEpoch, now, session, ledger, entities, assertions,
                       contradictions, cell, recovery, lineage, won, lost>>
    BY <1>4, <2>1 DEF W!CreateWatch, W!history
  <2>4. watches' \in Seq(W!WorldWatchORM)
    BY <2>2, <2>3, WorldFacts, AppendProperties
  <2>5. CellInv' /\ RecoveryInv'
    BY <2>3, CellUnchanged, RecoveryKept, WorldStill
  <2> QED
    BY <2>3, <2>4, <2>5, WorldElsewhere, WorldFacts
<1>5. CASE W!Tick
  <2>1. now' \in 0 .. MaxTime
        /\ UNCHANGED <<kernelEpoch, session, ledger, entities, assertions, contradictions,
                       watches, cell, recovery, lineage, won, lost>>
    BY <1>5, WorldFacts DEF W!Tick, W!history
  <2>2. CellInv' /\ RecoveryInv'
    BY <2>1, CellUnchanged, RecoveryKept, WorldStill
  <2> QED
    BY <2>1, <2>2, WorldElsewhere, WorldFacts
<1>6. CASE W!KernelRestarts
  <2>1. kernelEpoch' \in 1 .. MaxEpoch /\ session' \in [Sources -> 0 .. kernelEpoch']
        /\ UNCHANGED <<now, ledger, entities, assertions, contradictions, watches, lineage, won, lost>>
        /\ recovery' = None
    BY <1>6, WorldFacts DEF W!KernelRestarts, W!history
  <2>2. cell' = [d \in Cells |-> cell'[d]] /\ \A d \in Cells : cell'[d] \in {None, cell[d]}
    BY <1>6 DEF W!KernelRestarts
  <2>3. CellInv' /\ RecoveryInv'
    BY <2>1, <2>2, CellKept, WorldStill DEF RecoveryInv
  <2> QED
    BY <2>1, <2>3, WorldElsewhere, WorldFacts
<1>7. CASE W!BeginRecovery
  <2>1. recovery' = [i \in W!Outdated |-> assertions[i].version]
        /\ UNCHANGED <<kernelEpoch, now, session, ledger, entities, assertions,
                       contradictions, watches, cell, lineage, won, lost>>
    BY <1>7 DEF W!BeginRecovery, W!history
  <2>2. CellInv'
    BY <2>1, CellUnchanged, WorldStill
  <2>3. \A i \in W!Outdated : i \in 1 .. Len(assertions) /\ assertions[i].status = "ACTIVE"
    BY WorldFacts DEF W!Outdated
  <2>4. ASSUME NEW i \in DOMAIN recovery' PROVE ReadInForce(i, recovery[i])'
    <3>1. i \in W!Outdated /\ recovery'[i] = assertions[i].version
      BY <2>1
    <3>2. recovery'[i] \in Nat
      BY <2>3, <3>1, WorldFacts, RowsOf
    <3> QED
      BY <2>1, <2>3, <3>1, <3>2 DEF ReadInForce, W!Ids
  <2>5. RecoveryInv'
    BY <2>4 DEF RecoveryInv
  <2> QED
    BY <2>1, <2>2, <2>5, WorldElsewhere, WorldFacts
<1>8. CASE UNCHANGED W!vars
  <2>1. UNCHANGED <<kernelEpoch, now, session, ledger, entities, assertions, contradictions,
                    watches, cell, recovery, lineage, won, lost>>
    BY <1>8 DEF W!vars, W!history
  <2>2. CellInv' /\ RecoveryInv'
    BY <2>1, CellUnchanged, RecoveryKept, WorldStill
  <2> QED
    BY <2>1, <2>2, WorldElsewhere, WorldFacts
<1>9. ASSUME NEW c \in Cells, W!AbandonProjection(c) PROVE WorldInv'
  <2>1. cell' = [cell EXCEPT ![c] = None]
        /\ UNCHANGED <<kernelEpoch, now, session, ledger, entities, assertions, contradictions,
                       watches, recovery, lineage, won, lost>>
    BY <1>9 DEF W!AbandonProjection, W!history
  <2>2. cell' = [d \in Cells |-> cell'[d]] /\ \A d \in Cells : cell'[d] \in {None, cell[d]}
    BY <2>1, WorldFacts DEF CellInv
  <2>3. CellInv' /\ RecoveryInv'
    BY <2>1, <2>2, CellKept, RecoveryKept, WorldStill
  <2> QED
    BY <2>1, <2>3, WorldElsewhere, WorldFacts
<1> QED
  BY <1>1, <1>2, <1>3, <1>4, <1>5, <1>6, <1>7, <1>8, <1>9, ObservedStep, ReadStep, CheckStep,
     ProjectStep, ResolutionStep, RecoveredStep DEF W!Next

LEMMA WorldInit == W!Init => WorldInv
<1> SUFFICES ASSUME W!Init PROVE WorldInv
  OBVIOUS
<1>1. /\ ledger = <<>> /\ assertions = <<>> /\ contradictions = <<>> /\ watches = <<>>
      /\ now = 0 /\ kernelEpoch = 1 /\ cell = [c \in Cells |-> None] /\ recovery = None
      /\ session = [s \in Sources |-> 0] /\ lineage = <<>> /\ won = {} /\ lost = {}
  BY DEF W!Init
<1>2. /\ ledger \in Seq(W!ObservationORM) /\ assertions \in Seq(Row)
      /\ contradictions \in Seq(W!WorldContradictionORM) /\ watches \in Seq(W!WorldWatchORM)
      /\ Len(ledger) = 0 /\ Len(assertions) = 0 /\ Len(contradictions) = 0
      /\ lineage \in Seq(W!Ids) /\ Len(lineage) = 0
  BY <1>1, EmptySeq
<1>3. DOMAIN entities \subseteq Entities /\ \A e \in DOMAIN entities : entities[e] \in W!WorldEntityORM
  <2>1. PICK known \in SUBSET Entities : entities = [e \in known |-> W!NewEntity]
    BY DEF W!Init
  <2>2. W!NewEntity \in W!WorldEntityORM
    BY DEF W!NewEntity, W!WorldEntityORM
  <2> QED
    BY <2>1, <2>2
<1>4. W!TypeOK
  BY <1>1, <1>2, <1>3, WorldAssumption DEF W!TypeOK, W!WorldAssumption, Row
<1>5. NewestInForce
  BY <1>1, <1>2 DEF NewestInForce, W!NewestInForce, W!Ids
<1> QED
  BY <1>1, <1>2, <1>4, <1>5 DEF WorldInv, CellInv, RecoveryInv

\* Of the assertions that replaced one another only the last is in force, and none that a
\* resolution rejected, whatever projections, merges, recoveries and restarts come between,
\* until a resolution says otherwise.
THEOREM WorldHolds == W!Spec => [](W!TypeOK /\ W!NewestInForce)
<1>1. WorldInv => W!TypeOK /\ W!NewestInForce
  BY DEF WorldInv, NewestInForce
<1> QED
  BY <1>1, WorldInit, WorldStep, PTL DEF W!Spec

-----------------------------------------------------------------------------
(* The seven side by side, the specification that the model checker runs.     *)

SideBySideInv ==
  /\ AgentsInv /\ BoardInv /\ ResourcesInv /\ FabricInv /\ SessionsInv /\ CycleInv /\ WorldInv

\* Whatever the focus, one component takes a step and the others do not move.
LEMMA OneMoves ==
  ASSUME [Next]_vars
  PROVE  /\ [A!Next]_(A!vars) /\ [B!Next]_(B!vars)
         /\ C!ResourceNext \/ C!GraphNext \/ UNCHANGED C!vars
         /\ [F!Next]_(F!vars) /\ [S!Next]_(S!vars) /\ [M!Next]_(M!vars) /\ [W!Next]_(W!vars)
<1>1. /\ UNCHANGED agents => UNCHANGED A!vars
      /\ UNCHANGED board => UNCHANGED B!vars
      /\ UNCHANGED <<graphs, resources>> => UNCHANGED C!vars
      /\ UNCHANGED fabric => UNCHANGED F!vars
      /\ UNCHANGED sessions => UNCHANGED S!vars
      /\ UNCHANGED cycle => UNCHANGED M!vars
      /\ UNCHANGED world => UNCHANGED W!vars
  BY DEF agents, board, graphs, resources, fabric, sessions, cycle, world, A!vars, B!vars, C!vars,
         C!graphs, C!resources, F!vars, S!vars, M!vars, W!vars, W!history
<1>2. \/ A!Next /\ UNCHANGED <<focus, board, graphs, resources, fabric, sessions, cycle, world>>
      \/ B!Next /\ UNCHANGED <<focus, agents, graphs, resources, fabric, sessions, cycle, world>>
      \/ C!GraphNext /\ UNCHANGED <<focus, agents, board, fabric, sessions, cycle, world>>
      \/ C!ResourceNext /\ UNCHANGED <<focus, agents, board, fabric, sessions, cycle, world>>
      \/ F!Next /\ UNCHANGED <<focus, agents, board, graphs, resources, sessions, cycle, world>>
      \/ S!Next /\ UNCHANGED <<focus, agents, board, graphs, resources, fabric, cycle, world>>
      \/ M!Next /\ UNCHANGED <<focus, agents, board, graphs, resources, fabric, sessions, world>>
      \/ W!Next /\ UNCHANGED <<focus, agents, board, graphs, resources, fabric, sessions, cycle>>
      \/ UNCHANGED vars
  BY DEF Next
<1> QED
  BY <1>1, <1>2 DEF vars

LEMMA SideBySideStep == SideBySideInv /\ [Next]_vars => SideBySideInv'
<1> SUFFICES ASSUME SideBySideInv, [Next]_vars PROVE SideBySideInv'
  OBVIOUS
<1>1. AgentsInv'
  BY OneMoves, AgentsStep DEF SideBySideInv
<1>2. BoardInv'
  BY OneMoves, BoardStep DEF SideBySideInv
<1>3. ResourcesInv'
  BY OneMoves, ResourcesStep DEF SideBySideInv
<1>4. FabricInv'
  BY OneMoves, FabricStep DEF SideBySideInv
<1>5. SessionsInv'
  BY OneMoves, SessionsStep DEF SideBySideInv
<1>6. CycleInv'
  BY OneMoves, CycleStep DEF SideBySideInv
<1>7. WorldInv'
  BY OneMoves, WorldStep DEF SideBySideInv
<1> QED
  BY <1>1, <1>2, <1>3, <1>4, <1>5, <1>6, <1>7 DEF SideBySideInv

LEMMA SideBySideInit == Init => SideBySideInv
  BY AgentsInit, BoardInit, ResourcesInit, FabricInit, SessionsInit, CycleInit, WorldInit
  DEF Init, SideBySideInv

\* Every variable of the seven keeps its type.
THEOREM CognitionTypes == Spec => []TypeOK
<1>1. SideBySideInv => TypeOK
  BY DEF SideBySideInv, AgentsInv, BoardInv, ResourcesInv, FabricInv, SessionsInv, CycleInv, WorldInv,
         TypeOK
<1> QED
  BY <1>1, SideBySideInit, SideBySideStep, PTL DEF Spec

\* An agent that is allowed to act has the newest lease of its task, whoever was given the
\* task before and whichever scheduler of an earlier epoch goes on assigning it (autonomy/leases.py).
THEOREM OnlyTheNewestAgentActs == Spec => NewestAgentActs
<1>1. SideBySideInv /\ [Next]_vars =>
        [\A t \in Tasks : allowed'[t] # allowed[t] =>
           allowed[t] = 0 \/ A!Precedes(allowed[t], allowed'[t])]_(A!vars)
  BY OneMoves, NewestStep DEF SideBySideInv
<1> QED
  BY <1>1, SideBySideInit, SideBySideStep, PTL DEF Spec, NewestAgentActs, A!NewestAgentActs

\* Every entry that is marked as conflicted has an open conflict under which it can be
\* arbitrated (autonomy/blackboard.py).
THEOREM ConflictsCanBeArbitrated == Spec => []ConflictedCanBeArbitrated
<1>1. SideBySideInv => ConflictedCanBeArbitrated
  BY DEF SideBySideInv, BoardInv
<1> QED
  BY <1>1, SideBySideInit, SideBySideStep, PTL DEF Spec

\* A resource has one holder whose generation passes the check at a time, though no
\* holder is told that its lease has gone (autonomy/resources.py).
THEOREM HoldersAreAlone == Spec => []OneHolderAtATime
<1>1. SideBySideInv => OneHolderAtATime
  BY HolderIsOne DEF SideBySideInv, OneHolderAtATime
<1> QED
  BY <1>1, SideBySideInit, SideBySideStep, PTL DEF Spec

\* No route is asked twice for one request, and the text, tool calls and usage of a
\* stream come from one route (intelligence/fabric.py, escalation.py).
THEOREM RoutesAreAskedOnce == Spec => []EachRouteOnce
<1>1. SideBySideInv => EachRouteOnce
  BY OnceEach DEF SideBySideInv
<1> QED
  BY <1>1, SideBySideInit, SideBySideStep, PTL DEF Spec

\* The work of a role on a route stays one logical binding (intelligence/sessions.py).
THEOREM BindingsNeverFork == Spec => []OneLogicalBinding
<1>1. SideBySideInv => OneLogicalBinding
  BY DEF SideBySideInv, SessionsInv
<1> QED
  BY <1>1, SideBySideInit, SideBySideStep, PTL DEF Spec

\* The members of a council are independent of each other and of whoever concludes it, and
\* no consequential node has the result of one model (mission_runtime.py, council.py).
THEOREM CouncilsAreIndependent == Spec => []CouncilOfIndependents
<1>1. SideBySideInv => CouncilOfIndependents
  BY DEF SideBySideInv, CycleInv
<1> QED
  BY <1>1, SideBySideInit, SideBySideStep, PTL DEF Spec

\* Of the assertions that replaced one another only the last is in force, and none that a
\* resolution rejected, until a resolution says otherwise, though projections, resolutions
\* and recoveries run side by side (world/processor.py, assertions.py, contradictions.py,
\* freshness.py).
THEOREM TheNewestIsInForce == Spec => []NewestInForce
<1>1. SideBySideInv => NewestInForce
  BY DEF SideBySideInv, WorldInv
<1> QED
  BY <1>1, SideBySideInit, SideBySideStep, PTL DEF Spec

-----------------------------------------------------------------------------
(* The resources as a fenced registry.                                        *)

\* A lease that is put in the place of another, which it outlives in nothing.
LEMMA LeaseLost ==
  ASSUME ResourcesInv, NEW r \in Resources, rleases[r] # None, NEW l,
         l # None, l.generation = rleases[r].generation, ~ (l.status = "ACTIVE" /\ ~l.late),
         rleases' = [rleases EXCEPT ![r] = l]
  PROVE  \A q \in Resources : Registry!Kept(q) \/ Registry!GivenUp(q)
<1>1. rleases'[r] = l /\ \A q \in Resources : q # r => rleases'[q] = rleases[q]
  BY ResourceFacts
<1>2. HolderOf'[r] = None /\ GenerationOf'[r] = GenerationOf[r]
  BY <1>1 DEF HolderOf, GenerationOf, C!Live
<1>3. \A q \in Resources : q # r => HolderOf'[q] = HolderOf[q] /\ GenerationOf'[q] = GenerationOf[q]
  BY <1>1 DEF HolderOf, GenerationOf, C!Live
<1> QED
  BY <1>2, <1>3 DEF Registry!Kept, Registry!GivenUp

LEMMA LeaseHandedOver ==
  ASSUME ResourcesInv, NEW h \in Holders, NEW r \in Resources, NEW e \in 1 .. repoch,
         C!AcquireResource(h, r, e)
  PROVE  \A q \in Resources : Registry!Kept(q) \/ Registry!HandedOver(q)
<1> DEFINE l == [holder |-> h, generation |-> C!NextGeneration(r), epoch |-> e, late |-> FALSE,
                 status |-> "ACTIVE"]
<1>1. C!NextGeneration(r) = GenerationOf[r] + 1 /\ C!NextGeneration(r) \in Nat
  BY ResourceFacts DEF C!NextGeneration, GenerationOf
<1>2. l \in C!ResourceLease
  BY <1>1, ResourceFacts DEF C!ResourceLease
<1>3. rleases' = [rleases EXCEPT ![r] = l]
  BY DEF C!AcquireResource
<1>4. rleases'[r] = l /\ \A q \in Resources : q # r => rleases'[q] = rleases[q]
  BY <1>3, ResourceFacts
<1>5. HolderOf'[r] = h /\ GenerationOf'[r] = GenerationOf[r] + 1
  BY <1>1, <1>2, <1>4, ResourceFacts DEF HolderOf, GenerationOf, C!Live
<1>6. \A q \in Resources : q # r => HolderOf'[q] = HolderOf[q] /\ GenerationOf'[q] = GenerationOf[q]
  BY <1>4 DEF HolderOf, GenerationOf, C!Live
<1> QED
  BY <1>5, <1>6 DEF Registry!Kept, Registry!HandedOver

LEMMA RegistryStep ==
  ASSUME ResourcesInv, C!ResourceNext \/ C!GraphNext \/ UNCHANGED C!vars
  PROVE  [Registry!Next]_<<HolderOf, GenerationOf>>
<1>1. ASSUME UNCHANGED rleases PROVE UNCHANGED <<HolderOf, GenerationOf>>
  BY <1>1 DEF HolderOf, GenerationOf, C!Live
<1>2. ASSUME \A q \in Resources : Registry!Kept(q) \/ Registry!GivenUp(q) \/ Registry!HandedOver(q)
      PROVE  Registry!Next
  BY <1>2 DEF Registry!Next, HolderOf, GenerationOf
<1>3. ASSUME NEW h \in Holders, NEW r \in Resources, C!ReleaseResource(h, r) PROVE Registry!Next
  <2>1. PICK l : l = [rleases[r] EXCEPT !.status = "RELEASED"]
    OBVIOUS
  <2>2. rleases[r] # None /\ rleases' = [rleases EXCEPT ![r] = l]
    BY <1>3, <2>1 DEF C!ReleaseResource
  <2>3. l # None /\ l.generation = rleases[r].generation /\ l.status = "RELEASED"
    BY <2>1, <2>2, ResourceFacts DEF C!ResourceLease
  <2> QED
    BY <1>2, <2>2, <2>3, LeaseLost
<1>4. ASSUME NEW r \in Resources, C!ValidateFails(r) PROVE Registry!Next
  <2>1. PICK x \in {"EXPIRED", "REVOKED"} : x = IF rleases[r].late THEN "EXPIRED" ELSE "REVOKED"
    OBVIOUS
  <2>2. PICK l : l = [rleases[r] EXCEPT !.status = x]
    OBVIOUS
  <2>3. rleases[r] # None /\ rleases' = [rleases EXCEPT ![r] = l]
    BY <1>4, <2>1, <2>2 DEF C!ValidateFails
  <2>4. l # None /\ l.generation = rleases[r].generation /\ l.status = x
    BY <2>2, <2>3, ResourceFacts DEF C!ResourceLease
  <2> QED
    BY <1>2, <2>3, <2>4, LeaseLost
<1>5. ASSUME NEW r \in Resources, C!LeaseExpires(r) PROVE Registry!Next
  <2>1. PICK l : l = [rleases[r] EXCEPT !.late = TRUE]
    OBVIOUS
  <2>2. rleases[r] # None /\ rleases' = [rleases EXCEPT ![r] = l]
    BY <1>5, <2>1 DEF C!LeaseExpires, C!Live
  <2>3. l # None /\ l.generation = rleases[r].generation /\ l.late
    BY <2>1, <2>2, ResourceFacts DEF C!ResourceLease
  <2> QED
    BY <1>2, <2>2, <2>3, LeaseLost
<1>6. ASSUME NEW h \in Holders, NEW r \in Resources, NEW e \in 1 .. repoch, C!AcquireResource(h, r, e)
      PROVE  Registry!Next
  BY <1>2, <1>6, LeaseHandedOver
<1>7. ASSUME NEW h \in Holders, NEW r \in Resources, C!RenewResource(h, r)
      PROVE  UNCHANGED <<HolderOf, GenerationOf>>
  BY <1>1, <1>7 DEF C!RenewResource
<1>8. ASSUME C!KernelRestarts \/ C!GraphNext \/ UNCHANGED C!vars PROVE UNCHANGED <<HolderOf, GenerationOf>>
  BY <1>1, <1>8 DEF C!KernelRestarts, C!GraphNext, C!AddDependency, C!RemoveDependency, C!vars, C!resources
<1> QED
  BY <1>3, <1>4, <1>5, <1>6, <1>7, <1>8 DEF C!ResourceNext

LEMMA RegistryInit == C!Init => Registry!Init
  BY DEF C!Init, Registry!Init, HolderOf, GenerationOf, C!Live

\* Resources change hands as a fenced registry promises: a live lease has one holder, and
\* the generation goes up by one whenever, and only when, the resource is handed over
\* (autonomy/resources.py:26-93).
THEOREM ResourcesImplementRegistry == Spec => ImplementsFencedRegistry
<1>1. Init => Registry!Init
  BY RegistryInit DEF Init
<1>2. SideBySideInv /\ [Next]_vars => [Registry!Next]_<<HolderOf, GenerationOf>>
  BY OneMoves, RegistryStep DEF SideBySideInv
<1> QED
  BY <1>1, <1>2, SideBySideInit, SideBySideStep, PTL DEF Spec, ImplementsFencedRegistry, Registry!Spec
=============================================================================
