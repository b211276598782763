------------------------ MODULE LeaseRegistryProofs ------------------------
(***************************************************************************)
(* Theorems about LeaseRegistry, for any number of processes and tasks, as *)
(* long as no lock file ever reaches the age at which it is broken.        *)
(* Processes may die anywhere.  The assumption is needed: with lock files  *)
(* that grow stale TLC finds two workers with one generation.              *)
(*                                                                         *)
(* The argument: the lock file names the one process inside (LockOwned);   *)
(* so the file is still what that process loaded when it replaces it, and  *)
(* the replacement is a legal step from it (DraftLegal); so the file only  *)
(* hands a task over under a new generation, after the old lease ran out   *)
(* or was given up, which is what workers believe too (Beliefs).           *)
(***************************************************************************)
EXTENDS LeaseRegistry, TLAPS

NoStaleLocks == StaleLocks = "never"

LockOwned ==
  /\ ~lock.stale
  /\ \A p \in Procs : pc[p] # "breaking"
  /\ \A p \in Procs : Inside(p) => lock.owner = p

\* A lease in the file carries the generation counted beside it.
Consistent(s) ==
  \A t \in Tasks :
    ~Free(s.leases[t]) => /\ s.leases[t].gen = s.generations[t]
                          /\ s.leases[t].expires <= now + TTL

\* What writing s over the file does to task t, when process p is inside.
KeptBy(s, t) ==
  /\ s.leases[t] = file.leases[t]
  /\ s.generations[t] = file.generations[t]

RenewedBy(p, s, t) ==
  /\ file.leases[t].worker = p /\ s.leases[t].worker = p
  /\ s.generations[t] = file.generations[t]
  /\ file.leases[t].expires <= s.leases[t].expires

Available(t) == Free(file.leases[t]) \/ Expired(file.leases[t])

GivenUpBy(p, s, t) ==
  /\ Free(s.leases[t])
  /\ s.generations[t] = file.generations[t]
  /\ Available(t) \/ (file.leases[t].worker = p /\ Free(held[p][t]))

TakenBy(p, s, t) ==
  /\ Available(t)
  /\ s.leases[t].worker = p
  /\ s.generations[t] = file.generations[t] + 1

Legal(p, s, t) ==
  KeptBy(s, t) \/ RenewedBy(p, s, t) \/ GivenUpBy(p, s, t) \/ TakenBy(p, s, t)

DraftLegal ==
  \A p \in Procs : pc[p] = "persist" =>
    /\ Consistent(draft[p])
    /\ \A t \in Tasks : Legal(p, draft[p], t)

CallsKnown ==
  \A p \in Procs :
    /\ pc[p] \notin {"idle", "dead"} => call[p] \in Call
    /\ call[p] \in Call /\ call[p].op = "release" => Free(held[p][call[p].task])

RepliesTrue ==
  \A p \in Procs :
    ~Free(reply[p]) =>
      /\ reply[p].worker = p
      /\ pc[p] = "persist" => draft[p].leases[call[p].task] = reply[p]
      /\ pc[p] = "unlock" => file.leases[call[p].task] = reply[p]

GrantsTrue ==
  \A g \in granted :
    /\ g.gen <= file.generations[g.task]
    /\ ~Free(file.leases[g.task]) /\ g.gen = file.generations[g.task]
         => g.worker = file.leases[g.task].worker

Beliefs ==
  \A p \in Procs, t \in Tasks :
    Believes(p, t) => /\ file.leases[t].worker = p
                      /\ held[p][t].expires <= file.leases[t].expires

FenceWithin == \A t \in Tasks : fence[t] <= file.generations[t]

Safe ==
  /\ TypeOK
  /\ LockOwned
  /\ Consistent(file)
  /\ DraftLegal
  /\ CallsKnown
  /\ RepliesTrue
  /\ GrantsTrue
  /\ OneHolderPerGeneration
  /\ Beliefs
  /\ FenceWithin

-----------------------------------------------------------------------------
(* The operators on the state of the registry.                             *)

LEMMA StateOperators ==
  ASSUME NEW s \in State, NEW t \in Tasks, NEW l \in Lease
  PROVE  /\ EmptyState \in State /\ NoLease \in Lease /\ Free(NoLease)
         /\ Pruned(s) \in State
         /\ Without(s, t) \in State
         /\ WithLease(s, t, l) \in State
         /\ [s EXCEPT !.leases[t] = l] \in State
<1>1. NoLease \in Lease /\ Free(NoLease)
  BY DEF NoLease, Lease, Free
<1>2. l.gen \in Nat
  BY DEF Lease
<1>3. /\ s.leases \in [Tasks -> Lease] /\ s.generations \in [Tasks -> Nat]
      /\ s = [leases |-> s.leases, generations |-> s.generations]
  BY DEF State
<1>4. [u \in Tasks |-> IF Expired(s.leases[u]) THEN NoLease ELSE s.leases[u]] \in [Tasks -> Lease]
  BY <1>1, <1>3
<1>5. Pruned(s) \in State
  BY <1>3, <1>4 DEF Pruned, State
<1>6. Without(s, t) \in State
  BY <1>1, <1>3 DEF Without, State
<1>7. WithLease(s, t, l) \in State
  BY <1>2, <1>3 DEF WithLease, State
<1>8. [s EXCEPT !.leases[t] = l] \in State
  BY <1>3 DEF State
<1>9. EmptyState \in State
  BY <1>1 DEF EmptyState, State
<1> QED
  BY <1>1, <1>5, <1>6, <1>7, <1>8, <1>9

\* What each leaves in every task u.
LEMMA StateContents ==
  ASSUME NEW s \in State, NEW t \in Tasks, NEW l \in Lease, NEW u \in Tasks
  PROVE  /\ Pruned(s).leases[u] = IF Expired(s.leases[u]) THEN NoLease ELSE s.leases[u]
         /\ Pruned(s).generations[u] = s.generations[u]
         /\ Without(s, t).leases[u] = IF u = t THEN NoLease ELSE s.leases[u]
         /\ Without(s, t).generations[u] = s.generations[u]
         /\ WithLease(s, t, l).leases[u] = IF u = t THEN l ELSE s.leases[u]
         /\ WithLease(s, t, l).generations[u] = IF u = t THEN l.gen ELSE s.generations[u]
         /\ [s EXCEPT !.leases[t] = l].leases[u] = IF u = t THEN l ELSE s.leases[u]
         /\ [s EXCEPT !.leases[t] = l].generations[u] = s.generations[u]
<1>1. /\ s.leases \in [Tasks -> Lease] /\ s.generations \in [Tasks -> Nat]
      /\ s = [leases |-> s.leases, generations |-> s.generations]
  BY DEF State
<1> QED
  BY <1>1 DEF Pruned, Without, WithLease

LEMMA FileTypes ==
  ASSUME NEW s \in State, NEW t \in Tasks
  PROVE  /\ s.leases[t] \in Lease
         /\ s.leases[t].worker \in Procs \cup {Nobody}
         /\ s.leases[t].gen \in Nat
         /\ s.leases[t].expires \in Nat
         /\ s.generations[t] \in Nat
<1>1. s.leases \in [Tasks -> Lease] /\ s.generations \in [Tasks -> Nat]
  BY DEF State
<1> QED
  BY <1>1 DEF Lease

LEMMA ConstantTypes == TTL \in Nat \ {0} /\ MaxGen \in Nat
  BY BoundsAssumption

LEMMA NobodyIsNoProcess == Nobody \notin Procs
  BY BoundsAssumption

LEMMA LockTypes ==
  /\ NoLock \in LockFile
  /\ \A p \in Procs : [owner |-> p, stale |-> FALSE] \in LockFile
  /\ \A f \in LockFile : [f EXCEPT !.stale = TRUE] \in LockFile
  BY DEF NoLock, LockFile

LEMMA InitSafe == Init => Safe
<1> SUFFICES ASSUME Init PROVE Safe
  OBVIOUS
<1>0. EmptyState \in State /\ NoLease \in Lease /\ Free(NoLease)
  BY DEF EmptyState, State, NoLease, Lease, Free
<1>1. TypeOK
  BY <1>0, LockTypes DEF Init, TypeOK, Steps
<1>2. LockOwned /\ DraftLegal /\ GrantsTrue /\ OneHolderPerGeneration
  BY DEF Init, LockOwned, Inside, NoLock, DraftLegal, GrantsTrue, OneHolderPerGeneration
<1>3. Consistent(file) /\ FenceWithin
  BY DEF Init, EmptyState, NoLease, Free, Consistent, FenceWithin
<1>4. CallsKnown /\ RepliesTrue
  BY <1>0 DEF Init, NoCall, Call, CallsKnown, RepliesTrue
<1>5. Beliefs
  BY <1>0 DEF Init, Beliefs, Believes
<1> QED
  BY <1>1, <1>2, <1>3, <1>4, <1>5 DEF Safe

-----------------------------------------------------------------------------
(* Types.                                                                  *)

LEMMA WriteTypes ==
  ASSUME TypeOK, NEW p \in Procs, NEW s \in State, NEW l \in Lease, Write(p, s, l)
  PROVE  TypeOK'
  BY DEF TypeOK, Write, Steps

LEMMA AnswerTypes ==
  ASSUME TypeOK, NEW p \in Procs, NEW l \in Lease, Answer(p, l), fence' \in [Tasks -> Nat]
  PROVE  TypeOK'
  BY DEF TypeOK, Answer, Steps

LEMMA TypeStep ==
  ASSUME TypeOK, CallsKnown, [Next]_vars
  PROVE  TypeOK'
<1>0. EmptyState \in State /\ NoLease \in Lease
  BY DEF EmptyState, State, NoLease, Lease
<1>1. ASSUME NEW p \in Procs, NEW c \in [op : Ops, task : Tasks, gen : 0 .. MaxGen], Begin(p, c)
      PROVE  TypeOK'
  <2>1. c \in Call /\ c.task \in Tasks
    BY ConstantTypes DEF Call
  <2>2. held' \in [Procs -> [Tasks -> Lease]]
    BY <1>0, <1>1, <2>1 DEF TypeOK, Begin
  <2> QED
    BY <1>1, <2>1, <2>2 DEF TypeOK, Begin, Steps
<1>2. ASSUME NEW p \in Procs, Decide(p) PROVE TypeOK'
  <2> DEFINE t == call[p].task
  <2>1. pc[p] = "decide"
    BY <1>2 DEF Decide, Acquire, Heartbeat, Release, ValidateFence, Get, ListActive, Is
  <2>2. t \in Tasks /\ call[p].gen \in Nat /\ file \in State
    BY <2>1 DEF CallsKnown, Call, TypeOK
  <2>3. Current(p) \in Lease /\ Pruned(file) \in State /\ Without(file, t) \in State
    BY <2>2, <1>0, FileTypes, StateOperators DEF Current
  <2>4. ASSUME NEW l \in Lease
        PROVE  [l EXCEPT !.expires = now + TTL] \in Lease
    <3>1. now + TTL \in Nat
      BY ConstantTypes DEF TypeOK
    <3> QED
      BY <3>1 DEF Lease
  <2>5. fence \in [Tasks -> Nat]
    BY DEF TypeOK
  <2>6. CASE Acquire(p)
    <3> DEFINE new == [worker |-> p, gen |-> NextGeneration(Pruned(file), t), expires |-> now + TTL]
    <3>1. new \in Lease
      <4>1. NextGeneration(Pruned(file), t) \in Nat
        BY <2>2, <2>3, FileTypes DEF NextGeneration
      <4> QED
        BY <4>1, ConstantTypes DEF Lease, TypeOK
    <3>2. Pruned(file).leases[t] \in Lease
      BY <2>2, <2>3, FileTypes
    <3>3. WithLease(Pruned(file), t, new) \in State
      BY <2>2, <2>3, <3>1, StateOperators
    <3> QED
      BY <1>0, <2>5, <2>6, <3>1, <3>2, <3>3, WriteTypes, AnswerTypes DEF Acquire
  <2>7. CASE Heartbeat(p)
    <3>1. [file EXCEPT !.leases[t] = [Current(p) EXCEPT !.expires = now + TTL]] \in State
      BY <2>2, <2>3, <2>4, StateOperators
    <3> QED
      BY <1>0, <2>3, <2>4, <2>5, <2>7, <3>1, WriteTypes, AnswerTypes DEF Heartbeat
  <2>8. CASE Release(p)
    BY <1>0, <2>3, <2>5, <2>8, WriteTypes, AnswerTypes DEF Release
  <2>9. CASE ValidateFence(p)
    <3>1. fence' \in [Tasks -> Nat]
      BY <2>2, <2>5, <2>9 DEF ValidateFence
    <3> QED
      BY <1>0, <2>9, <3>1, AnswerTypes DEF ValidateFence
  <2>10. CASE Get(p)
    BY <1>0, <2>3, <2>5, <2>10, WriteTypes, AnswerTypes DEF Get
  <2>11. CASE ListActive(p)
    BY <1>0, <2>3, <2>5, <2>11, WriteTypes, AnswerTypes DEF ListActive
  <2> QED
    BY <1>2, <2>6, <2>7, <2>8, <2>9, <2>10, <2>11 DEF Decide
<1>3. ASSUME NEW p \in Procs, TakeLock(p) \/ FindStaleLock(p) \/ BreakLock(p) PROVE TypeOK'
  <2>1. lock' \in LockFile
    BY <1>3, LockTypes DEF TypeOK, TakeLock, FindStaleLock, BreakLock
  <2>2. pc' \in [Procs -> Steps]
    BY <1>3 DEF TypeOK, TakeLock, FindStaleLock, BreakLock, Steps
  <2> QED
    BY <1>3, <2>1, <2>2 DEF TypeOK, TakeLock, FindStaleLock, BreakLock
<1>4. ASSUME NEW p \in Procs, TimeOut(p) PROVE TypeOK'
  BY <1>0, <1>4 DEF TypeOK, TimeOut, Return, Steps
<1>5. ASSUME NEW p \in Procs, Persist(p) \/ PersistFails(p) PROVE TypeOK'
  <2>1. file' \in State /\ reply' \in [Procs -> Lease]
    BY <1>0, <1>5 DEF TypeOK, Persist, PersistFails
  <2>2. pc' \in [Procs -> Steps]
    BY <1>5 DEF TypeOK, Persist, PersistFails, Steps
  <2> QED
    BY <1>5, <2>1, <2>2 DEF TypeOK, Persist, PersistFails
<1>6. ASSUME NEW p \in Procs, Unlock(p) PROVE TypeOK'
  <2> DEFINE t == call[p].task
  <2>1. t \in Tasks
    BY <1>6 DEF CallsKnown, Call, Unlock
  <2>2. reply[p] \in Lease /\ reply[p].gen \in Nat
    BY DEF TypeOK, Lease
  <2>3. held' \in [Procs -> [Tasks -> Lease]]
    BY <1>6, <2>1, <2>2 DEF TypeOK, Unlock
  <2>4. [task |-> t, worker |-> p, gen |-> reply[p].gen] \in Granted
    BY <2>1, <2>2 DEF Granted
  <2> QED
    BY <1>0, <1>6, <2>3, <2>4, LockTypes DEF TypeOK, Unlock, Return, Steps
<1>7. ASSUME NEW p \in Procs, Crash(p) PROVE TypeOK'
  BY <1>0, <1>7 DEF TypeOK, Crash, Steps
<1>8. CASE Tick
  BY <1>8 DEF TypeOK, Tick
<1>9. CASE LockGrowsStale
  <2>1. lock' \in LockFile
    BY <1>9, LockTypes DEF TypeOK, LockGrowsStale
  <2> QED
    BY <1>9, <2>1 DEF TypeOK, LockGrowsStale
<1>10. CASE UNCHANGED vars
  BY <1>10 DEF TypeOK, vars
<1> QED
  BY <1>1, <1>2, <1>3, <1>4, <1>5, <1>6, <1>7, <1>8, <1>9, <1>10 DEF Next, Step

-----------------------------------------------------------------------------
(* What a decision does: it prepares a legal file and the lease in it, or  *)
(* answers from the file as it stands.                                     *)

Backed(p, s, l) == Free(l) \/ (l.worker = p /\ s.leases[call[p].task] = l)

Prepares(p) ==
  \E s \in State, l \in Lease :
    /\ Write(p, s, l)
    /\ Consistent(s)
    /\ \A t \in Tasks : Legal(p, s, t)
    /\ Backed(p, s, l)

Answers(p) ==
  \E l \in Lease :
    /\ Answer(p, l)
    /\ Backed(p, file, l)
    /\ \/ fence' = fence
       \/ fence' = [fence EXCEPT ![call[p].task] = file.generations[call[p].task]]

LEMMA PrunedIsLegal ==
  ASSUME Safe, NEW p \in Procs
  PROVE  Consistent(Pruned(file)) /\ \A u \in Tasks : Legal(p, Pruned(file), u)
<1>0. file \in State /\ NoLease \in Lease /\ Free(NoLease)
  BY DEF Safe, TypeOK, NoLease, Lease, Free
<1>1. ASSUME NEW u \in Tasks
      PROVE  /\ Pruned(file).leases[u] = IF Expired(file.leases[u]) THEN NoLease ELSE file.leases[u]
             /\ Pruned(file).generations[u] = file.generations[u]
  BY <1>0, StateContents
<1>2. Consistent(Pruned(file))
  BY <1>0, <1>1 DEF Safe, Consistent
<1>3. ASSUME NEW u \in Tasks PROVE Legal(p, Pruned(file), u)
  BY <1>0, <1>1 DEF Legal, KeptBy, GivenUpBy, Available
<1> QED
  BY <1>2, <1>3

LEMMA WithoutIsLegal ==
  ASSUME Safe, NEW p \in Procs, NEW t \in Tasks,
         Available(t) \/ (file.leases[t].worker = p /\ Free(held[p][t]))
  PROVE  Consistent(Without(file, t)) /\ \A u \in Tasks : Legal(p, Without(file, t), u)
<1>0. file \in State /\ NoLease \in Lease /\ Free(NoLease)
  BY DEF Safe, TypeOK, NoLease, Lease, Free
<1>1. ASSUME NEW u \in Tasks
      PROVE  /\ Without(file, t).leases[u] = IF u = t THEN NoLease ELSE file.leases[u]
             /\ Without(file, t).generations[u] = file.generations[u]
  BY <1>0, StateContents
<1>2. Consistent(Without(file, t))
  BY <1>0, <1>1 DEF Safe, Consistent
<1>3. ASSUME NEW u \in Tasks PROVE Legal(p, Without(file, t), u)
  BY <1>0, <1>1 DEF Legal, KeptBy, GivenUpBy
<1> QED
  BY <1>2, <1>3

LEMMA DecisionEffect ==
  ASSUME Safe, NEW p \in Procs, Decide(p)
  PROVE  Prepares(p) \/ Answers(p)
<1> DEFINE t == call[p].task
<1>0. EmptyState \in State /\ NoLease \in Lease /\ Free(NoLease)
  BY DEF EmptyState, State, NoLease, Lease, Free
<1>1. pc[p] = "decide"
  BY DEF Decide, Acquire, Heartbeat, Release, ValidateFence, Get, ListActive, Is
<1>2. t \in Tasks /\ file \in State /\ TypeOK /\ Consistent(file)
  BY <1>1 DEF Safe, CallsKnown, Call, TypeOK
<1>3. Current(p) = file.leases[t] /\ Current(p) \in Lease
  BY <1>2, FileTypes DEF Current
<1>4. Pruned(file) \in State /\ Without(file, t) \in State
  BY <1>2, <1>0, StateOperators
<1>5. Backed(p, file, NoLease) /\ \A s \in State : Backed(p, s, NoLease)
  BY <1>0 DEF Backed
<1>6. now \in Nat /\ TTL \in Nat /\ now + TTL \in Nat
  BY <1>2, ConstantTypes DEF TypeOK
<1>7. CASE Acquire(p)
  <2> DEFINE s == Pruned(file)
             new == [worker |-> p, gen |-> NextGeneration(s, t), expires |-> now + TTL]
             w == WithLease(s, t, new)
  <2>0. ASSUME NEW u \in Tasks
        PROVE  /\ s.leases[u] = IF Expired(file.leases[u]) THEN NoLease ELSE file.leases[u]
               /\ s.generations[u] = file.generations[u]
               /\ file.generations[u] \in Nat
    BY <1>2, <1>0, StateContents, FileTypes
  <2>1. CASE Free(s.leases[t])
    <3>1. NextGeneration(s, t) = file.generations[t] + 1 /\ NextGeneration(s, t) \in Nat
      BY <1>2, <2>0 DEF NextGeneration
    <3>2. /\ new \in Lease /\ new.worker = p /\ new.gen = file.generations[t] + 1
          /\ new.expires = now + TTL
      BY <1>6, <3>1 DEF Lease
    <3>3. ASSUME NEW u \in Tasks
          PROVE  /\ w.leases[u] = IF u = t THEN new ELSE s.leases[u]
                 /\ w.generations[u] = IF u = t THEN new.gen ELSE s.generations[u]
      <4> HIDE DEF s, new
      <4> QED
        BY <1>2, <1>4, <3>2, StateContents DEF s
    <3>4. w \in State
      <4> HIDE DEF s, new
      <4> QED
        BY <1>2, <1>4, <3>2, StateOperators DEF s
    <3> HIDE DEF new, w
    <3>5. Consistent(w)
      <4>1. Consistent(s)
        BY PrunedIsLegal
      <4> HIDE DEF s
      <4> QED
        BY <1>6, <3>2, <3>3, <4>1 DEF Consistent
    <3>6. ASSUME NEW u \in Tasks PROVE Legal(p, w, u)
      <4>1. CASE u = t
        <5>1. Available(t)
          BY <1>2, <2>0, <2>1 DEF Available
        <5> QED
          BY <3>2, <3>3, <4>1, <5>1 DEF Legal, TakenBy
      <4>2. CASE u # t
        <5>1. Legal(p, s, u)
          BY PrunedIsLegal
        <5>2. w.leases[u] = s.leases[u] /\ w.generations[u] = s.generations[u]
          BY <3>3, <4>2
        <5> HIDE DEF s
        <5> QED
          BY <5>1, <5>2 DEF Legal, KeptBy, RenewedBy, GivenUpBy, TakenBy
      <4> QED
        BY <4>1, <4>2
    <3>7. Backed(p, w, new)
      BY <1>2, <3>2, <3>3 DEF Backed
    <3>8. Write(p, w, new)
      BY <1>7, <2>1 DEF Acquire, w, new
    <3> QED
      BY <3>2, <3>4, <3>5, <3>6, <3>7, <3>8 DEF Prepares
  <2>2. CASE ~Free(s.leases[t])
    <3>1. s.leases[t] = file.leases[t]
      BY <1>0, <1>2, <2>0, <2>2
    <3>2. Answer(p, IF s.leases[t].worker = p THEN s.leases[t] ELSE NoLease) /\ fence' = fence
      BY <1>7, <2>2 DEF Acquire
    <3> HIDE DEF s
    <3>3. CASE s.leases[t].worker = p
      BY <1>3, <3>1, <3>2, <3>3 DEF Answers, Backed
    <3>4. CASE s.leases[t].worker # p
      BY <1>0, <1>5, <3>2, <3>4 DEF Answers
    <3> QED
      BY <3>3, <3>4
  <2> QED
    BY <2>1, <2>2
<1>8. CASE Heartbeat(p)
  <2> DEFINE renewed == [Current(p) EXCEPT !.expires = now + TTL]
             w == [file EXCEPT !.leases[t] = renewed]
  <2>1. CASE ~Holds(p)
    BY <1>0, <1>5, <1>8, <2>1 DEF Heartbeat, Answers
  <2>2. CASE Holds(p) /\ Expired(Current(p))
    <3>1. Write(p, Without(file, t), NoLease)
      BY <1>8, <2>2 DEF Heartbeat
    <3>2. Available(t)
      BY <1>3, <2>2 DEF Available
    <3> QED
      BY <1>0, <1>2, <1>4, <1>5, <3>1, <3>2, WithoutIsLegal DEF Prepares
  <2>3. CASE Holds(p) /\ ~Expired(Current(p))
    <3>1. Write(p, w, renewed)
      BY <1>8, <2>3 DEF Heartbeat
    <3>2. /\ renewed \in Lease /\ renewed.worker = p /\ renewed.gen = file.leases[t].gen
          /\ renewed.expires = now + TTL
      BY <1>3, <1>6, <2>3 DEF Lease, Holds
    <3> HIDE DEF renewed
    <3>3. w \in State
      BY <1>2, <3>2, StateOperators
    <3>4. ASSUME NEW u \in Tasks
          PROVE  /\ w.leases[u] = IF u = t THEN renewed ELSE file.leases[u]
                 /\ w.generations[u] = file.generations[u]
      BY <1>2, <3>2, StateContents
    <3> HIDE DEF w
    <3>5. /\ file.leases[t].worker = p /\ file.leases[t].expires <= now + TTL
          /\ file.leases[t].gen = file.generations[t]
      BY <1>2, <1>3, <2>3, NobodyIsNoProcess DEF Holds, Consistent, Free
    <3>6. Consistent(w)
      BY <1>2, <1>6, <3>2, <3>4, <3>5 DEF Consistent
    <3>7. ASSUME NEW u \in Tasks PROVE Legal(p, w, u)
      BY <3>2, <3>4, <3>5 DEF Legal, KeptBy, RenewedBy
    <3>8. Backed(p, w, renewed)
      BY <1>2, <3>2, <3>4 DEF Backed
    <3> QED
      BY <3>1, <3>2, <3>3, <3>6, <3>7, <3>8 DEF Prepares
  <2> QED
    BY <2>1, <2>2, <2>3
<1>9. CASE Release(p)
  <2>1. CASE Holds(p)
    <3>1. Write(p, Without(file, t), NoLease)
      BY <1>9, <2>1 DEF Release
    <3>2. file.leases[t].worker = p /\ Free(held[p][t])
      BY <1>1, <1>3, <1>9, <2>1 DEF Safe, CallsKnown, Release, Is, Holds
    <3> QED
      BY <1>0, <1>2, <1>4, <1>5, <3>1, <3>2, WithoutIsLegal DEF Prepares
  <2>2. CASE ~Holds(p)
    BY <1>0, <1>5, <1>9, <2>2 DEF Release, Answers
  <2> QED
    BY <2>1, <2>2
<1>10. CASE ValidateFence(p)
  <2>1. Answer(p, NoLease)
    BY <1>10 DEF ValidateFence
  <2>2. \/ fence' = fence
        \/ fence' = [fence EXCEPT ![t] = file.generations[t]]
    BY <1>10 DEF ValidateFence, FencePasses
  <2> QED
    BY <1>0, <1>5, <2>1, <2>2 DEF Answers
<1>11. CASE Get(p)
  <2>1. CASE Expired(Current(p))
    <3>1. Write(p, Without(file, t), NoLease)
      BY <1>11, <2>1 DEF Get
    <3>2. Available(t)
      BY <1>3, <2>1 DEF Available
    <3> QED
      BY <1>0, <1>2, <1>4, <1>5, <3>1, <3>2, WithoutIsLegal DEF Prepares
  <2>2. CASE ~Expired(Current(p))
    BY <1>0, <1>5, <1>11, <2>2 DEF Get, Answers
  <2> QED
    BY <2>1, <2>2
<1>12. CASE ListActive(p)
  <2>1. CASE Pruned(file) # file
    <3>1. Write(p, Pruned(file), NoLease)
      BY <1>12, <2>1 DEF ListActive
    <3> QED
      BY <1>0, <1>4, <1>5, <3>1, PrunedIsLegal DEF Prepares
  <2>2. CASE Pruned(file) = file
    BY <1>0, <1>5, <1>12, <2>2 DEF ListActive, Answers
  <2> QED
    BY <2>1, <2>2
<1> QED
  BY <1>7, <1>8, <1>9, <1>10, <1>11, <1>12 DEF Decide

-----------------------------------------------------------------------------
(* How a step looks from outside: as one of these, for some process.       *)

\* Process p alone moves, and the file stays.
Moves(p) ==
  /\ \A q \in Procs \ {p} :
       /\ pc'[q] = pc[q] /\ call'[q] = call[q] /\ draft'[q] = draft[q]
       /\ reply'[q] = reply[q] /\ held'[q] = held[q]
  /\ now' = now

\* p gives up its call, or its life.
Leaves(p) ==
  /\ Moves(p) /\ file' = file /\ granted' = granted /\ fence' = fence
  /\ pc'[p] \in {"idle", "dead"} /\ call'[p] = NoCall /\ Free(reply'[p])
  /\ \A t \in Tasks : held'[p][t] = held[p][t] \/ Free(held'[p][t])

LEMMA LockStep ==
  ASSUME NoStaleLocks, TypeOK, LockOwned, [Next]_vars
  PROVE  LockOwned'
<1>1. ASSUME NEW p \in Procs, NEW c \in [op : Ops, task : Tasks, gen : 0 .. MaxGen], Begin(p, c)
      PROVE  LockOwned'
  BY <1>1 DEF TypeOK, LockOwned, Inside, Begin
<1>2. ASSUME NEW p \in Procs, Decide(p) PROVE LockOwned'
  <2>1. pc[p] = "decide" /\ lock' = lock
    BY <1>2 DEF Decide, Acquire, Heartbeat, Release, ValidateFence, Get, ListActive, Is, Write, Answer
  <2>2. pc' = [pc EXCEPT ![p] = "persist"] \/ pc' = [pc EXCEPT ![p] = "unlock"]
    BY <1>2 DEF Decide, Acquire, Heartbeat, Release, ValidateFence, Get, ListActive, Write, Answer
  <2> QED
    BY <2>1, <2>2 DEF TypeOK, LockOwned, Inside
<1>3. ASSUME NEW p \in Procs, TakeLock(p) PROVE LockOwned'
  <2>1. \A q \in Procs : ~Inside(q)
    BY <1>3, NobodyIsNoProcess DEF LockOwned, TakeLock, LockIsFree, NoLock
  <2>2. lock'.owner = p /\ ~lock'.stale
    BY <1>3 DEF TakeLock
  <2> QED
    BY <1>3, <2>1, <2>2 DEF TypeOK, LockOwned, Inside, TakeLock
<1>4. ASSUME NEW p \in Procs, FindStaleLock(p) \/ BreakLock(p) PROVE FALSE
  BY <1>4 DEF LockOwned, FindStaleLock, BreakLock
<1>5. ASSUME NEW p \in Procs, TimeOut(p) PROVE LockOwned'
  BY <1>5 DEF TypeOK, LockOwned, Inside, TimeOut, Return
<1>6. ASSUME NEW p \in Procs, Persist(p) \/ PersistFails(p) PROVE LockOwned'
  BY <1>6 DEF TypeOK, LockOwned, Inside, Persist, PersistFails
<1>7. ASSUME NEW p \in Procs, Unlock(p) PROVE LockOwned'
  <2>1. \A q \in Procs : q # p => ~Inside(q)
    BY <1>7 DEF LockOwned, Inside, Unlock
  <2>2. ~lock'.stale
    BY <1>7 DEF Unlock, NoLock
  <2> QED
    BY <1>7, <2>1, <2>2 DEF TypeOK, LockOwned, Inside, Unlock, Return
<1>8. ASSUME NEW p \in Procs, Crash(p) PROVE LockOwned'
  BY <1>8 DEF TypeOK, LockOwned, Inside, Crash
<1>9. CASE Tick
  BY <1>9 DEF LockOwned, Inside, Tick
<1>10. CASE LockGrowsStale
  BY <1>10 DEF NoStaleLocks, LockGrowsStale
<1>11. CASE UNCHANGED vars
  BY <1>11 DEF LockOwned, Inside, vars
<1> QED
  BY <1>1, <1>2, <1>3, <1>4, <1>5, <1>6, <1>7, <1>8, <1>9, <1>10, <1>11 DEF Next, Step

\* Whoever is inside is alone there.
LEMMA Alone ==
  ASSUME LockOwned
  PROVE  MutualExclusion
  BY DEF LockOwned, MutualExclusion

-----------------------------------------------------------------------------
(* The rest of Safe, kind of step by kind of step.                         *)

Rest ==
  /\ Consistent(file)
  /\ DraftLegal
  /\ CallsKnown
  /\ RepliesTrue
  /\ GrantsTrue
  /\ OneHolderPerGeneration
  /\ Beliefs
  /\ FenceWithin

\* With the file, the leases in hand and the clock as they were, and another
\* process's draft as it was, its draft is as legal as it was.
LEMMA LegalStays ==
  ASSUME NEW q \in Procs, NEW t \in Tasks, file' = file, now' = now, held'[q] = held[q],
         draft'[q] = draft[q], Legal(q, draft[q], t)
  PROVE  Legal(q, draft[q], t)'
  BY DEF Legal, KeptBy, RenewedBy, GivenUpBy, TakenBy, Available, Free, Expired

LEMMA ConsistentStays ==
  ASSUME NEW q \in Procs, now' = now, draft'[q] = draft[q], Consistent(draft[q])
  PROVE  Consistent(draft[q])'
  BY DEF Consistent, Free

\* Grants, beliefs and the fence, as long as the file stays and no worker is
\* granted anything.
LEMMA RecordsStay ==
  ASSUME Safe, file' = file, granted' = granted, fence' = fence, now' = now,
         \A q \in Procs, t \in Tasks : held'[q][t] = held[q][t] \/ Free(held'[q][t])
  PROVE  /\ Consistent(file)' /\ GrantsTrue' /\ OneHolderPerGeneration'
         /\ Beliefs' /\ FenceWithin'
<1>1. Consistent(file)' /\ GrantsTrue' /\ OneHolderPerGeneration' /\ FenceWithin'
  BY DEF Safe, Consistent, Free, GrantsTrue, OneHolderPerGeneration, FenceWithin
<1>2. Beliefs'
  BY DEF Safe, Beliefs, Believes, Free
<1> QED
  BY <1>1, <1>2

LEMMA LeavingStep ==
  ASSUME Safe, NEW p \in Procs, Leaves(p)
  PROVE  Rest'
<1>1. \A q \in Procs, t \in Tasks : held'[q][t] = held[q][t] \/ Free(held'[q][t])
  BY DEF Leaves, Moves
<1>2. DraftLegal'
  <2>1. ASSUME NEW q \in Procs, pc'[q] = "persist"
        PROVE  Consistent(draft[q])' /\ \A t \in Tasks : Legal(q, draft[q], t)'
    <3>1. q # p /\ pc[q] = "persist" /\ draft'[q] = draft[q] /\ held'[q] = held[q]
      BY <2>1 DEF Leaves, Moves
    <3> QED
      BY <3>1, LegalStays, ConsistentStays DEF Leaves, Moves, Safe, DraftLegal
  <2> QED
    BY <2>1 DEF DraftLegal
<1>3. CallsKnown'
  <2>1. NoCall.op # "release"
    BY DEF NoCall
  <2> QED
    BY <2>1 DEF Leaves, Moves, Safe, CallsKnown, Free
<1>4. RepliesTrue'
  BY DEF Leaves, Moves, Safe, RepliesTrue, Free
<1> QED
  BY <1>1, <1>2, <1>3, <1>4, RecordsStay DEF Leaves, Moves, Rest

LEMMA BeginStep ==
  ASSUME Safe, NEW p \in Procs, NEW c \in [op : Ops, task : Tasks, gen : 0 .. MaxGen], Begin(p, c)
  PROVE  Rest'
<1>0. Free(NoLease) /\ TypeOK /\ c \in Call
  BY ConstantTypes DEF Safe, NoLease, Free, Call
<1>1. pc[p] = "idle" /\ pc'[p] = "locking" /\ call'[p] = c
  BY <1>0 DEF Begin, TypeOK
<1>2. /\ file' = file /\ granted' = granted /\ fence' = fence /\ now' = now
      /\ draft' = draft /\ reply' = reply
  BY DEF Begin
<1>3. /\ \A q \in Procs \ {p} : /\ pc'[q] = pc[q] /\ call'[q] = call[q]
                                /\ held'[q] = held[q]
      /\ \A t \in Tasks : held'[p][t] = held[p][t] \/ Free(held'[p][t])
      /\ c.op = "release" => Free(held'[p][c.task])
  BY <1>0 DEF Begin, TypeOK, Call
<1>4. DraftLegal'
  <2>1. ASSUME NEW q \in Procs, pc'[q] = "persist"
        PROVE  Consistent(draft[q])' /\ \A t \in Tasks : Legal(q, draft[q], t)'
    <3>1. q # p /\ pc[q] = "persist" /\ draft'[q] = draft[q] /\ held'[q] = held[q]
      BY <1>1, <1>2, <1>3, <2>1
    <3> QED
      BY <1>2, <3>1, LegalStays, ConsistentStays DEF Safe, DraftLegal
  <2> QED
    BY <2>1 DEF DraftLegal
<1>5. CallsKnown'
  BY <1>0, <1>1, <1>3 DEF Safe, CallsKnown, Free
<1>6. RepliesTrue'
  BY <1>1, <1>2, <1>3 DEF Safe, RepliesTrue, Free
<1>7. \A q \in Procs, t \in Tasks : held'[q][t] = held[q][t] \/ Free(held'[q][t])
  BY <1>3
<1> QED
  BY <1>2, <1>4, <1>5, <1>6, <1>7, RecordsStay DEF Rest

LEMMA PreparingStep ==
  ASSUME Safe, NEW p \in Procs, pc[p] = "decide", Prepares(p)
  PROVE  Rest'
<1>1. PICK s \in State, l \in Lease :
        /\ Write(p, s, l)
        /\ Consistent(s)
        /\ \A t \in Tasks : Legal(p, s, t)
        /\ Backed(p, s, l)
  BY DEF Prepares
<1>2. /\ file' = file /\ granted' = granted /\ fence' = fence /\ now' = now
      /\ held' = held /\ call' = call
      /\ pc'[p] = "persist" /\ draft'[p] = s /\ reply'[p] = l
      /\ \A q \in Procs \ {p} : pc'[q] = pc[q] /\ draft'[q] = draft[q] /\ reply'[q] = reply[q]
  BY <1>1 DEF Write, Safe, TypeOK
<1>3. DraftLegal'
  <2>1. ASSUME NEW q \in Procs, pc'[q] = "persist", q # p
        PROVE  Consistent(draft[q])' /\ \A t \in Tasks : Legal(q, draft[q], t)'
    <3>1. pc[q] = "persist" /\ draft'[q] = draft[q] /\ held'[q] = held[q]
      BY <1>2, <2>1
    <3> QED
      BY <1>2, <3>1, LegalStays, ConsistentStays DEF Safe, DraftLegal
  <2>2. Consistent(draft[p])'
    BY <1>1, <1>2 DEF Consistent, Free
  <2>3. ASSUME NEW t \in Tasks PROVE Legal(p, draft[p], t)'
    <3>1. Legal(p, s, t)
      BY <1>1
    <3> QED
      BY <1>2, <3>1 DEF Legal, KeptBy, RenewedBy, GivenUpBy, TakenBy, Available, Free, Expired
  <2> QED
    BY <2>1, <2>2, <2>3 DEF DraftLegal
<1>4. CallsKnown'
  BY <1>2 DEF Safe, CallsKnown, Free
<1>5. RepliesTrue'
  BY <1>1, <1>2 DEF Safe, RepliesTrue, Free, Backed
<1> QED
  BY <1>2, <1>3, <1>4, <1>5, RecordsStay DEF Rest

LEMMA AnsweringStep ==
  ASSUME Safe, NEW p \in Procs, pc[p] = "decide", Answers(p)
  PROVE  Rest'
<1> DEFINE t0 == call[p].task
<1>1. PICK l \in Lease :
        /\ Answer(p, l)
        /\ Backed(p, file, l)
        /\ \/ fence' = fence
           \/ fence' = [fence EXCEPT ![t0] = file.generations[t0]]
  BY DEF Answers
<1>2. /\ file' = file /\ granted' = granted /\ now' = now
      /\ held' = held /\ call' = call /\ draft' = draft
      /\ pc'[p] = "unlock" /\ reply'[p] = l
      /\ \A q \in Procs \ {p} : pc'[q] = pc[q] /\ reply'[q] = reply[q]
  BY <1>1 DEF Answer, Safe, TypeOK
<1>3. DraftLegal'
  <2>1. ASSUME NEW q \in Procs, pc'[q] = "persist"
        PROVE  Consistent(draft[q])' /\ \A t \in Tasks : Legal(q, draft[q], t)'
    <3>1. q # p /\ pc[q] = "persist" /\ draft'[q] = draft[q] /\ held'[q] = held[q]
      BY <1>2, <2>1
    <3> QED
      BY <1>2, <3>1, LegalStays, ConsistentStays DEF Safe, DraftLegal
  <2> QED
    BY <2>1 DEF DraftLegal
<1>4. CallsKnown'
  BY <1>2 DEF Safe, CallsKnown, Free
<1>5. RepliesTrue'
  BY <1>1, <1>2 DEF Safe, RepliesTrue, Free, Backed
<1>6. Consistent(file)' /\ GrantsTrue' /\ OneHolderPerGeneration' /\ Beliefs'
  BY <1>2 DEF Safe, Consistent, Free, GrantsTrue, OneHolderPerGeneration, Beliefs, Believes
<1>7. FenceWithin'
  <2>1. \A t \in Tasks : file.generations[t] \in Nat /\ fence[t] \in Nat
    BY FileTypes DEF Safe, TypeOK
  <2>2. fence \in [Tasks -> Nat]
    BY DEF Safe, TypeOK
  <2> QED
    BY <1>1, <1>2, <2>1, <2>2 DEF Safe, FenceWithin
<1> QED
  BY <1>3, <1>4, <1>5, <1>6, <1>7 DEF Rest

\* The file is replaced by a draft that is legal for it; whatever was granted
\* or believed of the old file is still true of the new one.
LEMMA PersistStep ==
  ASSUME Safe, NEW p \in Procs, Persist(p)
  PROVE  Rest'
<1>1. /\ file' = draft[p] /\ granted' = granted /\ fence' = fence /\ now' = now
      /\ held' = held /\ call' = call /\ draft' = draft /\ reply' = reply
      /\ pc[p] = "persist" /\ pc'[p] = "unlock"
      /\ \A q \in Procs \ {p} : pc'[q] = pc[q]
  BY DEF Persist, Safe, TypeOK
<1>2. \A q \in Procs \ {p} : pc'[q] \notin {"decide", "persist", "unlock"}
  BY <1>1 DEF Safe, LockOwned, Inside
<1>3. \A t \in Tasks : Legal(p, draft[p], t)
  BY <1>1 DEF Safe, DraftLegal
<1>4. ASSUME NEW t \in Tasks
      PROVE  /\ file.generations[t] \in Nat /\ draft[p].generations[t] \in Nat
             /\ file.leases[t].expires \in Nat /\ draft[p].leases[t].expires \in Nat
  BY FileTypes DEF Safe, TypeOK
<1>5. \A t \in Tasks : file.generations[t] <= draft[p].generations[t]
  BY <1>3, <1>4 DEF Legal, KeptBy, RenewedBy, GivenUpBy, TakenBy
<1>6. Consistent(file)'
  BY <1>1 DEF Safe, DraftLegal, Consistent, Free
<1>7. DraftLegal'
  BY <1>1, <1>2 DEF DraftLegal
<1>8. CallsKnown'
  BY <1>1 DEF Safe, CallsKnown, Free
<1>9. RepliesTrue'
  BY <1>1, <1>2 DEF Safe, RepliesTrue, Free
<1>10. GrantsTrue'
  <2>1. ASSUME NEW g \in granted'
        PROVE  /\ g.gen <= draft[p].generations[g.task]
               /\ ~Free(draft[p].leases[g.task]) /\ g.gen = draft[p].generations[g.task]
                    => g.worker = draft[p].leases[g.task].worker
    <3>1. g \in granted /\ g.task \in Tasks /\ g.gen \in Nat
      BY <1>1, <2>1 DEF Safe, TypeOK, Granted
    <3>2. /\ g.gen <= file.generations[g.task]
          /\ ~Free(file.leases[g.task]) /\ g.gen = file.generations[g.task]
               => g.worker = file.leases[g.task].worker
      BY <3>1 DEF Safe, GrantsTrue
    <3>3. g.gen <= draft[p].generations[g.task]
      BY <1>4, <1>5, <3>1, <3>2
    <3>4. Legal(p, draft[p], g.task)
      BY <1>3, <3>1
    <3>5. CASE TakenBy(p, draft[p], g.task)
      <4>1. g.gen < draft[p].generations[g.task]
        BY <1>4, <3>1, <3>2, <3>5 DEF TakenBy
      <4> QED
        BY <1>4, <3>1, <3>3, <4>1
    <3>6. CASE KeptBy(draft[p], g.task)
      BY <3>2, <3>3, <3>6 DEF KeptBy
    <3>7. CASE RenewedBy(p, draft[p], g.task)
      BY <3>2, <3>3, <3>7, NobodyIsNoProcess DEF RenewedBy, Free
    <3>8. CASE GivenUpBy(p, draft[p], g.task)
      BY <3>3, <3>8 DEF GivenUpBy
    <3> QED
      BY <3>4, <3>5, <3>6, <3>7, <3>8 DEF Legal
  <2> QED
    BY <1>1, <2>1 DEF GrantsTrue, Free
<1>11. OneHolderPerGeneration'
  BY <1>1 DEF Safe, OneHolderPerGeneration
<1>12. Beliefs'
  <2>1. ASSUME NEW q \in Procs, NEW t \in Tasks, Believes(q, t)'
        PROVE  /\ draft[p].leases[t].worker = q
               /\ held[q][t].expires <= draft[p].leases[t].expires
    <3>1. Believes(q, t) /\ ~Free(held[q][t]) /\ now < held[q][t].expires
      BY <1>1, <2>1 DEF Believes, Free
    <3>2. file.leases[t].worker = q /\ held[q][t].expires <= file.leases[t].expires
      BY <3>1 DEF Safe, Beliefs
    <3>3. now \in Nat /\ held[q][t].expires \in Nat
      BY DEF Safe, TypeOK, Lease
    <3>4. ~Available(t)
      BY <1>4, <3>1, <3>2, <3>3, NobodyIsNoProcess DEF Available, Free, Expired
    <3>5. KeptBy(draft[p], t) \/ RenewedBy(p, draft[p], t)
      BY <1>3, <3>1, <3>2, <3>4 DEF Legal, GivenUpBy, TakenBy
    <3>6. CASE KeptBy(draft[p], t)
      BY <3>2, <3>6 DEF KeptBy
    <3>7. CASE RenewedBy(p, draft[p], t)
      BY <1>4, <3>2, <3>3, <3>7 DEF RenewedBy
    <3> QED
      BY <3>5, <3>6, <3>7
  <2> QED
    BY <1>1, <2>1 DEF Beliefs
<1>13. FenceWithin'
  <2>1. \A t \in Tasks : fence[t] \in Nat /\ fence[t] <= file.generations[t]
    BY DEF Safe, FenceWithin, TypeOK
  <2> QED
    BY <1>1, <1>4, <1>5, <2>1 DEF FenceWithin
<1> QED
  BY <1>6, <1>7, <1>8, <1>9, <1>10, <1>11, <1>12, <1>13 DEF Rest

LEMMA PersistFailsStep ==
  ASSUME Safe, NEW p \in Procs, PersistFails(p)
  PROVE  Rest'
<1>1. /\ file' = file /\ granted' = granted /\ fence' = fence /\ now' = now
      /\ held' = held /\ call' = call /\ draft' = draft
      /\ pc[p] = "persist" /\ pc'[p] = "unlock" /\ Free(reply'[p])
      /\ \A q \in Procs \ {p} : pc'[q] = pc[q] /\ reply'[q] = reply[q]
  BY DEF PersistFails, Safe, TypeOK, NoLease, Free
<1>2. DraftLegal'
  <2>1. ASSUME NEW q \in Procs, pc'[q] = "persist"
        PROVE  Consistent(draft[q])' /\ \A t \in Tasks : Legal(q, draft[q], t)'
    <3>1. pc[q] = "persist" /\ draft'[q] = draft[q] /\ held'[q] = held[q]
      BY <1>1, <2>1
    <3> QED
      BY <1>1, <3>1, LegalStays, ConsistentStays DEF Safe, DraftLegal
  <2> QED
    BY <2>1 DEF DraftLegal
<1>3. CallsKnown' /\ RepliesTrue'
  BY <1>1 DEF Safe, CallsKnown, RepliesTrue, Free
<1> QED
  BY <1>1, <1>2, <1>3, RecordsStay DEF Rest

\* The lease the call returns is in the file, under the file's generation.
LEMMA UnlockStep ==
  ASSUME Safe, NEW p \in Procs, Unlock(p)
  PROVE  Rest'
<1> DEFINE t0 == call[p].task
           l == reply[p]
<1>0. /\ Free(NoLease) /\ t0 \in Tasks /\ TypeOK /\ l \in Lease
  BY DEF Safe, NoLease, Free, Unlock, CallsKnown, Call, TypeOK
<1>1. /\ file' = file /\ fence' = fence /\ now' = now
      /\ pc[p] = "unlock" /\ pc'[p] = "idle" /\ call'[p] = NoCall /\ Free(reply'[p])
      /\ \A q \in Procs \ {p} : /\ pc'[q] = pc[q] /\ call'[q] = call[q] /\ draft'[q] = draft[q]
                                /\ reply'[q] = reply[q] /\ held'[q] = held[q]
  BY <1>0 DEF Unlock, Return, TypeOK
<1>2. DraftLegal'
  <2>1. ASSUME NEW q \in Procs, pc'[q] = "persist"
        PROVE  Consistent(draft[q])' /\ \A t \in Tasks : Legal(q, draft[q], t)'
    <3>1. q # p /\ pc[q] = "persist" /\ draft'[q] = draft[q] /\ held'[q] = held[q]
      BY <1>1, <2>1
    <3> QED
      BY <1>1, <3>1, LegalStays, ConsistentStays DEF Safe, DraftLegal
  <2> QED
    BY <2>1 DEF DraftLegal
<1>3. CallsKnown'
  <2>1. NoCall.op # "release"
    BY DEF NoCall
  <2> QED
    BY <1>1, <2>1 DEF Safe, CallsKnown, Free
<1>4. RepliesTrue'
  BY <1>1 DEF Safe, RepliesTrue, Free
<1>5. Consistent(file)' /\ FenceWithin'
  BY <1>1 DEF Safe, Consistent, Free, FenceWithin
<1>6. GrantsTrue' /\ OneHolderPerGeneration' /\ Beliefs'
  <2>1. CASE Free(l)
    <3>1. held' = held /\ granted' = granted
      BY <2>1 DEF Unlock
    <3> QED
      BY <1>1, <3>1, RecordsStay
  <2>2. CASE ~Free(l)
    <3> DEFINE new == [task |-> t0, worker |-> p, gen |-> l.gen]
    <3>1. /\ held' = [held EXCEPT ![p][t0] = l]
          /\ granted' = granted \cup {new}
      BY <2>2 DEF Unlock
    <3>2. /\ l.worker = p /\ file.leases[t0] = l /\ l.gen = file.generations[t0]
          /\ ~Free(file.leases[t0])
      BY <1>0, <1>1, <2>2 DEF Safe, RepliesTrue, Consistent
    <3>3. new.task = t0 /\ new.worker = p /\ new.gen = file.generations[t0]
      BY <3>2
    <3>4. file.generations[t0] \in Nat
      BY <1>0, FileTypes DEF TypeOK
    <3> HIDE DEF new
    <3>5. GrantsTrue'
      BY <1>1, <3>1, <3>2, <3>3, <3>4 DEF Safe, GrantsTrue, Free
    <3>6. OneHolderPerGeneration'
      <4>1. \A g \in granted : g.task = t0 /\ g.gen = new.gen => g.worker = p
        BY <3>2, <3>3 DEF Safe, GrantsTrue
      <4> QED
        BY <3>1, <3>3, <4>1 DEF Safe, OneHolderPerGeneration
    <3>7. Beliefs'
      <4>1. \A q \in Procs, t \in Tasks :
              held'[q][t] = IF q = p /\ t = t0 THEN l ELSE held[q][t]
        BY <1>0, <3>1 DEF TypeOK
      <4>2. l.expires <= l.expires
        BY <1>0 DEF Lease
      <4> QED
        BY <1>1, <3>2, <4>1, <4>2 DEF Safe, Beliefs, Believes, Free
    <3> QED
      BY <3>5, <3>6, <3>7
  <2> QED
    BY <2>1, <2>2
<1> QED
  BY <1>2, <1>3, <1>4, <1>5, <1>6 DEF Rest

\* As time passes leases run out, and none comes back.
LEMMA TickStep ==
  ASSUME Safe, Tick
  PROVE  Rest'
<1>1. /\ now \in Nat /\ now' = now + 1
      /\ file' = file /\ granted' = granted /\ fence' = fence /\ held' = held
      /\ pc' = pc /\ call' = call /\ draft' = draft /\ reply' = reply
  BY DEF Tick, Safe, TypeOK
<1>2. ASSUME NEW s \in State, Consistent(s)
      PROVE  \A t \in Tasks :
               ~Free(s.leases[t]) => /\ s.leases[t].gen = s.generations[t]
                                     /\ s.leases[t].expires <= now' + TTL
  <2>1. ASSUME NEW t \in Tasks, ~Free(s.leases[t])
        PROVE  s.leases[t].gen = s.generations[t] /\ s.leases[t].expires <= now' + TTL
    <3>1. s.leases[t].expires \in Nat /\ TTL \in Nat
      BY FileTypes, ConstantTypes
    <3> QED
      BY <1>1, <1>2, <2>1, <3>1 DEF Consistent
  <2> QED
    BY <2>1
<1>3. Consistent(file)'
  BY <1>1, <1>2 DEF Safe, TypeOK, Consistent, Free
<1>4. DraftLegal'
  <2>1. ASSUME NEW q \in Procs, pc[q] = "persist"
        PROVE  Consistent(draft[q])' /\ \A t \in Tasks : Legal(q, draft[q], t)'
    <3>1. draft[q] \in State /\ Consistent(draft[q]) /\ \A t \in Tasks : Legal(q, draft[q], t)
      BY <2>1 DEF Safe, TypeOK, DraftLegal
    <3>2. Consistent(draft[q])'
      BY <1>1, <1>2, <3>1 DEF Consistent, Free
    <3>3. \A t \in Tasks : Available(t) => Available(t)'
      <4>1. \A t \in Tasks : file.leases[t].expires \in Nat
        BY FileTypes DEF Safe, TypeOK
      <4> QED
        BY <1>1, <4>1 DEF Available, Free, Expired
    <3>4. ASSUME NEW t \in Tasks PROVE Legal(q, draft[q], t)'
      <4>1. CASE KeptBy(draft[q], t)
        BY <1>1, <4>1 DEF Legal, KeptBy
      <4>2. CASE RenewedBy(q, draft[q], t)
        BY <1>1, <4>2 DEF Legal, RenewedBy
      <4>3. CASE GivenUpBy(q, draft[q], t)
        BY <1>1, <3>3, <4>3 DEF Legal, GivenUpBy, Free
      <4>4. CASE TakenBy(q, draft[q], t)
        BY <1>1, <3>3, <4>4 DEF Legal, TakenBy
      <4> QED
        BY <3>1, <4>1, <4>2, <4>3, <4>4 DEF Legal
    <3> QED
      BY <3>2, <3>4
  <2> QED
    BY <1>1, <2>1 DEF DraftLegal
<1>5. CallsKnown' /\ RepliesTrue' /\ GrantsTrue' /\ OneHolderPerGeneration' /\ FenceWithin'
  BY <1>1 DEF Safe, CallsKnown, RepliesTrue, GrantsTrue, OneHolderPerGeneration, FenceWithin, Free
<1>6. Beliefs'
  <2>1. ASSUME NEW q \in Procs, NEW t \in Tasks, Believes(q, t)' PROVE Believes(q, t)
    <3>1. held[q][t].expires \in Nat
      BY DEF Safe, TypeOK, Lease
    <3> QED
      BY <1>1, <2>1, <3>1 DEF Believes, Free
  <2> QED
    BY <1>1, <2>1 DEF Safe, Beliefs
<1> QED
  BY <1>3, <1>4, <1>5, <1>6 DEF Rest

\* Steps that touch neither a call that is under way nor what it works on.
LEMMA WaitingStep ==
  ASSUME Safe, now' = now, file' = file, call' = call, draft' = draft, reply' = reply,
         held' = held, granted' = granted, fence' = fence,
         \A q \in Procs : /\ pc'[q] \in {"persist", "unlock"} => pc'[q] = pc[q]
                          /\ pc'[q] \notin {"idle", "dead"} => pc[q] \notin {"idle", "dead"}
  PROVE  Rest'
<1>1. DraftLegal'
  BY LegalStays, ConsistentStays DEF Safe, DraftLegal
<1>2. CallsKnown' /\ RepliesTrue'
  BY DEF Safe, CallsKnown, RepliesTrue, Free
<1> QED
  BY <1>1, <1>2, RecordsStay DEF Rest

LEMMA SafeStep ==
  ASSUME NoStaleLocks, Safe, [Next]_vars
  PROVE  Safe'
<1>1. TypeOK' /\ LockOwned'
  BY TypeStep, LockStep DEF Safe
<1>2. ASSUME NEW p \in Procs, NEW c \in [op : Ops, task : Tasks, gen : 0 .. MaxGen], Begin(p, c)
      PROVE  Rest'
  BY <1>2, BeginStep
<1>3. ASSUME NEW p \in Procs, Decide(p) PROVE Rest'
  <2>1. pc[p] = "decide"
    BY <1>3 DEF Decide, Acquire, Heartbeat, Release, ValidateFence, Get, ListActive, Is
  <2> QED
    BY <1>3, <2>1, DecisionEffect, PreparingStep, AnsweringStep
<1>4. ASSUME NEW p \in Procs, TakeLock(p) \/ FindStaleLock(p) \/ BreakLock(p) PROVE Rest'
  BY <1>4, WaitingStep DEF Safe, TypeOK, TakeLock, FindStaleLock, BreakLock
<1>5. ASSUME NEW p \in Procs, TimeOut(p) \/ Crash(p) PROVE Rest'
  <2>1. Free(NoLease)
    BY DEF NoLease, Free
  <2>2. Leaves(p)
    BY <1>5, <2>1 DEF Safe, TypeOK, TimeOut, Return, Crash, Leaves, Moves
  <2> QED
    BY <2>2, LeavingStep
<1>6. ASSUME NEW p \in Procs, Persist(p) \/ PersistFails(p) \/ Unlock(p) PROVE Rest'
  BY <1>6, PersistStep, PersistFailsStep, UnlockStep
<1>7. ASSUME Tick PROVE Rest'
  BY <1>7, TickStep
<1>8. ASSUME LockGrowsStale PROVE Rest'
  BY <1>8 DEF NoStaleLocks, LockGrowsStale
<1>9. ASSUME UNCHANGED vars PROVE Rest'
  BY <1>9, WaitingStep DEF vars
<1>10. Rest'
  BY <1>2, <1>3, <1>4, <1>5, <1>6, <1>7, <1>8, <1>9 DEF Next, Step
<1> QED
  BY <1>1, <1>10 DEF Safe, Rest

LEMMA AlwaysSafe == NoStaleLocks /\ Spec => []Safe
<1>1. Init => Safe
  BY InitSafe
<1>2. NoStaleLocks /\ Safe /\ [Next]_vars => Safe'
  BY SafeStep
<1>3. NoStaleLocks => []NoStaleLocks
  <2>1. NoStaleLocks => NoStaleLocks'
    BY DEF NoStaleLocks
  <2> QED
    BY <2>1, PTL DEF NoStaleLocks
<1> QED
  BY <1>1, <1>2, <1>3, PTL DEF Spec

-----------------------------------------------------------------------------
(* The theorems.                                                           *)

LEMMA CallsStep ==
  ASSUME TypeOK, CallsKnown, [Next]_vars
  PROVE  CallsKnown'
<1>0. Free(NoLease) /\ NoCall.op # "release"
  BY DEF NoLease, Free, NoCall
<1>1. ASSUME NEW p \in Procs, NEW c \in [op : Ops, task : Tasks, gen : 0 .. MaxGen], Begin(p, c)
      PROVE  CallsKnown'
  <2>1. c \in Call
    BY ConstantTypes DEF Call
  <2>2. pc[p] = "idle" /\ call'[p] = c /\ (c.op = "release" => Free(held'[p][c.task]))
    BY <1>0, <1>1, <2>1 DEF Begin, TypeOK, Call
  <2>3. \A q \in Procs \ {p} : pc'[q] = pc[q] /\ call'[q] = call[q] /\ held'[q] = held[q]
    BY <1>1 DEF Begin, TypeOK
  <2> QED
    BY <2>1, <2>2, <2>3 DEF CallsKnown, Free
<1>2. ASSUME NEW p \in Procs,
             Decide(p) \/ Persist(p) \/ PersistFails(p)
               \/ TakeLock(p) \/ FindStaleLock(p) \/ BreakLock(p)
      PROVE  CallsKnown'
  <2>1. call' = call /\ held' = held /\ pc[p] \notin {"idle", "dead"}
    BY <1>2 DEF Decide, Acquire, Heartbeat, Release, ValidateFence, Get, ListActive, Is, Write,
      Answer, Persist, PersistFails, TakeLock, FindStaleLock, BreakLock
  <2>2. \A q \in Procs \ {p} : pc'[q] = pc[q]
    BY <1>2 DEF Decide, Acquire, Heartbeat, Release, ValidateFence, Get, ListActive, Write,
      Answer, Persist, PersistFails, TakeLock, FindStaleLock, BreakLock, TypeOK
  <2> QED
    BY <2>1, <2>2 DEF CallsKnown, Free
<1>3. ASSUME NEW p \in Procs, TimeOut(p) \/ Unlock(p) \/ Crash(p) PROVE CallsKnown'
  <2>1. pc'[p] \in {"idle", "dead"} /\ call'[p] = NoCall
    BY <1>3 DEF TimeOut, Unlock, Crash, Return, TypeOK
  <2>2. \A q \in Procs \ {p} : pc'[q] = pc[q] /\ call'[q] = call[q] /\ held'[q] = held[q]
    BY <1>3 DEF TimeOut, Unlock, Crash, Return, TypeOK
  <2> QED
    BY <1>0, <2>1, <2>2 DEF CallsKnown, Free
<1>4. CASE Tick \/ LockGrowsStale \/ UNCHANGED vars
  BY <1>4 DEF CallsKnown, Free, Tick, LockGrowsStale, vars
<1> QED
  BY <1>1, <1>2, <1>3, <1>4 DEF Next, Step

\* The registry, its lock and what the processes know stay well-formed: the
\* bookkeeping of distributed_leases.py never leaves its types, and this much
\* holds with lock files that are broken as well.
THEOREM TypeCorrect == Spec => []TypeOK
<1>1. Init => TypeOK /\ CallsKnown
  BY InitSafe DEF Safe
<1>2. TypeOK /\ CallsKnown /\ [Next]_vars => (TypeOK /\ CallsKnown)'
  BY TypeStep, CallsStep
<1> QED
  BY <1>1, <1>2, PTL DEF Spec

\* One process at a time is inside the registry, whatever dies and when: what
\* _locked promises when no lock file is ever broken.
THEOREM LockExcludes == NoStaleLocks /\ Spec => []MutualExclusion
<1>1. Safe => MutualExclusion
  BY Alone DEF Safe
<1> QED
  BY <1>1, AlwaysSafe, PTL

\* acquire never grants a generation of a task to two workers (REQ-ENG-029).
THEOREM GenerationsAreFencingTokens == NoStaleLocks /\ Spec => []OneHolderPerGeneration
<1>1. Safe => OneHolderPerGeneration
  BY DEF Safe
<1> QED
  BY <1>1, AlwaysSafe, PTL

\* No two workers hold unexpired leases of one task at a time, by what acquire
\* and heartbeat told them.
THEOREM LeasesDoNotOverlap == NoStaleLocks /\ Spec => []OneLiveHolder
<1>1. Safe => OneLiveHolder
  BY DEF Safe, Beliefs, OneLiveHolder
<1> QED
  BY <1>1, AlwaysSafe, PTL

\* validate_fence never accepts a generation after it has accepted a later one.
THEOREM StaleWorkersStayFenced == NoStaleLocks /\ Spec => FenceNeverRegresses
<1>1. ASSUME Safe, [Next]_vars
      PROVE  [\A t \in Tasks : fence[t] <= fence'[t]]_vars
  <2>1. fence \in [Tasks -> Nat] /\ \A t \in Tasks : file.generations[t] \in Nat
    BY <1>1, FileTypes DEF Safe, TypeOK
  <2>2. CASE fence' = fence
    BY <2>1, <2>2
  <2>3. ASSUME NEW p \in Procs, ValidateFence(p)
        PROVE  \A t \in Tasks : fence[t] <= fence'[t]
    <3>1. call[p].task \in Tasks
      BY <1>1, <2>3 DEF Safe, CallsKnown, Call, ValidateFence, Is
    <3>2. \/ fence' = fence
          \/ fence' = [fence EXCEPT ![call[p].task] = file.generations[call[p].task]]
      BY <2>3 DEF ValidateFence, FencePasses
    <3> QED
      BY <1>1, <2>1, <3>1, <3>2 DEF Safe, FenceWithin
  <2>4. CASE \A p \in Procs : ~ValidateFence(p)
    <3>1. fence' = fence
      BY <1>1, <2>4 DEF Next, Step, vars, Begin, TakeLock, FindStaleLock, BreakLock, TimeOut,
        Decide, Acquire, Heartbeat, Release, Get, ListActive, Write, Answer, Persist,
        PersistFails, Unlock, Tick, LockGrowsStale, Crash
    <3> QED
      BY <2>2, <3>1
  <2> QED
    BY <2>3, <2>4
<1> QED
  BY <1>1, AlwaysSafe, PTL DEF Spec, FenceNeverRegresses

\* The file is only ever replaced as FencedRegistry allows: every task is kept,
\* given up, or handed over under the next generation.
THEOREM FileImplementsRegistry == NoStaleLocks /\ Spec => ImplementsRegistry
<1>1. Init => Registry!Init
  BY DEF Init, EmptyState, NoLease, Registry!Init
<1>2. ASSUME Safe, [Next]_vars
      PROVE  [Registry!Next]_<<[t \in Tasks |-> file.leases[t].worker], file.generations>>
  <2>1. CASE file' = file
    BY <2>1
  <2>2. ASSUME NEW p \in Procs, Persist(p) PROVE Registry!Next
    <3>1. file' = draft[p] /\ draft[p] \in State /\ file \in State
      BY <1>2, <2>2 DEF Persist, Safe, TypeOK
    <3>2. \A t \in Tasks : Legal(p, draft[p], t)
      BY <1>2, <2>2 DEF Persist, Safe, DraftLegal
    <3>3. \A t \in Tasks : Registry!Kept(t) \/ Registry!GivenUp(t) \/ Registry!HandedOver(t)
      BY <3>1, <3>2 DEF Legal, KeptBy, RenewedBy, GivenUpBy, TakenBy, Free,
        Registry!Kept, Registry!GivenUp, Registry!HandedOver
    <3>4. file'.generations = [t \in Tasks |-> file'.generations[t]]
      BY <3>1 DEF State
    <3> QED
      BY <3>3, <3>4 DEF Registry!Next
  <2>3. CASE \A p \in Procs : ~Persist(p)
    <3>1. file' = file
      BY <1>2, <2>3 DEF Next, Step, vars, Begin, TakeLock, FindStaleLock, BreakLock, TimeOut,
        Decide, Acquire, Heartbeat, Release, ValidateFence, Get, ListActive, Write, Answer,
        PersistFails, Unlock, Tick, LockGrowsStale, Crash
    <3> QED
      BY <2>1, <3>1
  <2> QED
    BY <2>2, <2>3
<1> QED
  BY <1>1, <1>2, AlwaysSafe, PTL DEF Spec, ImplementsRegistry, Registry!Spec
=============================================================================
