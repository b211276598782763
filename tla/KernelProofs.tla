---------------------------- MODULE KernelProofs ----------------------------
(* Proofs about the components that MCKernel puts side by side, each for      *)
(* every value of its constants: the authority of actions (A), workspace      *)
(* transactions (W), alignment contracts (L), the start of kernels (K), the   *)
(* durable rows of a mission (D) and the stream to the consoles (G).          *)
EXTENDS MCKernel, FiniteSetTheorems, SequenceTheorems, TLAPS

-----------------------------------------------------------------------------
(* The authority of actions.  The ledger only grows; what the replicator has  *)
(* taken out of the outbox is older than what is in it.                       *)

Increasing(s) == \A i, j \in DOMAIN s : i < j => s[i] < s[j]

OutboxInOrder ==
  /\ Increasing(outbox)
  /\ \A i \in DOMAIN journal, j \in DOMAIN outbox : journal[i] < outbox[j]

\* A token issued on an approval carries the scope that the digest was computed from.
TokensReviewed ==
  \A t \in tokens : t.by # Brain =>
    /\ t.reviewed \in A!Bound /\ t.tool = t.reviewed.tool
    /\ t.target = t.reviewed.target /\ t.contract = t.reviewed.contract

AuthorityInv ==
  /\ A!TypeOK /\ TokensReviewed /\ RunsAsReviewed /\ EffectsAudited
  /\ OutboxInOrder /\ JournalInOrder

\* The events that account for what calls and rollbacks changed (EffectsAudited counts
\* them).
IsCall(tool, e) ==
  /\ e.type = "TOOL_CALLED" /\ e.tool = tool
  /\ A!ClassOrder[ToolClass[tool]] <= A!ClassOrder[Ceilings[e.contract]]

IsUndoing(tool, e) == e.type \in {"ROLLBACK_EXECUTED", "SYSTEM_FAILURE"} /\ e.tool = tool

CallsOf(tool, log) == {i \in DOMAIN log : IsCall(tool, log[i])}

UndoingsOf(tool, log) == {i \in DOMAIN log : IsUndoing(tool, log[i])}

LEMMA AuthorityCardinality == \A T : A!Cardinality(T) = Cardinality(T)
  BY DEF A!Cardinality, Cardinality

LEMMA AuditedIs ==
  EffectsAudited <=>
    \A tool \in Tools :
      /\ effects[tool] <= Cardinality(CallsOf(tool, ledger))
      /\ tool \notin raised => undone[tool] <= Cardinality(UndoingsOf(tool, ledger))
<1>1. \A tool : A!CallEvents(tool) = CallsOf(tool, ledger)
  BY DEF A!CallEvents, CallsOf, IsCall
<1>2. \A tool : A!RollbackEvents(tool) = UndoingsOf(tool, ledger)
  BY DEF A!RollbackEvents, UndoingsOf, IsUndoing
<1> QED
  BY <1>1, <1>2, AuthorityCardinality DEF EffectsAudited, A!EffectsAudited

\* More events account for more.
LEMMA EventsGrow ==
  ASSUME NEW log \in Seq(A!EventEnvelope), NEW more \in Seq(A!EventEnvelope),
         NEW old \in SUBSET DOMAIN log, NEW new \in SUBSET DOMAIN (log \o more), old \subseteq new
  PROVE  /\ Cardinality(old) \in Nat /\ Cardinality(new) \in Nat
         /\ Cardinality(old) <= Cardinality(new)
         /\ Len(log) + 1 \in new => Cardinality(old) + 1 <= Cardinality(new)
<1>1. /\ DOMAIN log = 1 .. Len(log) /\ Len(log) \in Nat
      /\ Len(log \o more) \in Nat /\ DOMAIN (log \o more) = 1 .. Len(log \o more)
  BY ConcatProperties, LenProperties
<1>2. IsFiniteSet(new)
  <2>1. IsFiniteSet(1 .. Len(log \o more))
    BY <1>1, FS_Interval
  <2> QED
    BY <1>1, <2>1, FS_Subset
<1>3. /\ IsFiniteSet(old) /\ Cardinality(old) <= Cardinality(new)
      /\ Cardinality(old) = Cardinality(new) => old = new
  BY <1>2, FS_Subset
<1>4. Cardinality(old) \in Nat /\ Cardinality(new) \in Nat
  BY <1>2, <1>3, FS_CardinalityType
<1>5. Len(log) + 1 \in new => new # old
  BY <1>1
<1> QED
  BY <1>3, <1>4, <1>5

LEMMA AuditsGrow ==
  ASSUME NEW tool, NEW log \in Seq(A!EventEnvelope), NEW more \in Seq(A!EventEnvelope)
  PROVE  LET all == log \o more IN
         /\ Cardinality(CallsOf(tool, log)) \in Nat /\ Cardinality(CallsOf(tool, all)) \in Nat
         /\ Cardinality(CallsOf(tool, log)) <= Cardinality(CallsOf(tool, all))
         /\ more # <<>> /\ IsCall(tool, more[1]) =>
              Cardinality(CallsOf(tool, log)) + 1 <= Cardinality(CallsOf(tool, all))
         /\ Cardinality(UndoingsOf(tool, log)) \in Nat /\ Cardinality(UndoingsOf(tool, all)) \in Nat
         /\ Cardinality(UndoingsOf(tool, log)) <= Cardinality(UndoingsOf(tool, all))
         /\ more # <<>> /\ IsUndoing(tool, more[1]) =>
              Cardinality(UndoingsOf(tool, log)) + 1 <= Cardinality(UndoingsOf(tool, all))
<1> DEFINE all == log \o more
<1>1. /\ all \in Seq(A!EventEnvelope) /\ Len(all) = Len(log) + Len(more)
      /\ DOMAIN log = 1 .. Len(log) /\ DOMAIN all = 1 .. Len(all)
      /\ Len(log) \in Nat /\ Len(more) \in Nat
      /\ \A i \in DOMAIN log : all[i] = log[i]
      /\ more # <<>> => Len(more) > 0 /\ all[Len(log) + 1] = more[1]
  BY ConcatProperties, LenProperties, EmptySeq
<1>2. CallsOf(tool, log) \in SUBSET DOMAIN log /\ CallsOf(tool, all) \in SUBSET DOMAIN (log \o more)
  BY DEF CallsOf
<1>3. UndoingsOf(tool, log) \in SUBSET DOMAIN log /\ UndoingsOf(tool, all) \in SUBSET DOMAIN (log \o more)
  BY DEF UndoingsOf
<1> HIDE DEF all
<1>4. /\ CallsOf(tool, log) \subseteq CallsOf(tool, all)
      /\ more # <<>> /\ IsCall(tool, more[1]) => Len(log) + 1 \in CallsOf(tool, all)
  BY <1>1 DEF CallsOf
<1>5. /\ UndoingsOf(tool, log) \subseteq UndoingsOf(tool, all)
      /\ more # <<>> /\ IsUndoing(tool, more[1]) => Len(log) + 1 \in UndoingsOf(tool, all)
  BY <1>1 DEF UndoingsOf
<1>6. /\ Cardinality(CallsOf(tool, log)) \in Nat /\ Cardinality(CallsOf(tool, all)) \in Nat
      /\ Cardinality(CallsOf(tool, log)) <= Cardinality(CallsOf(tool, all))
      /\ Len(log) + 1 \in CallsOf(tool, all) =>
           Cardinality(CallsOf(tool, log)) + 1 <= Cardinality(CallsOf(tool, all))
  BY <1>2, <1>4, EventsGrow
<1>7. /\ Cardinality(UndoingsOf(tool, log)) \in Nat /\ Cardinality(UndoingsOf(tool, all)) \in Nat
      /\ Cardinality(UndoingsOf(tool, log)) <= Cardinality(UndoingsOf(tool, all))
      /\ Len(log) + 1 \in UndoingsOf(tool, all) =>
           Cardinality(UndoingsOf(tool, log)) + 1 <= Cardinality(UndoingsOf(tool, all))
  BY <1>3, <1>5, EventsGrow
<1> QED
  BY <1>4, <1>5, <1>6, <1>7 DEF all

\* One increasing sequence after another whose elements are all greater.
LEMMA IncreasingConcat ==
  ASSUME NEW S \in SUBSET Nat, NEW s \in Seq(S), NEW t \in Seq(S), Increasing(s), Increasing(t),
         \A i \in DOMAIN s, j \in DOMAIN t : s[i] < t[j]
  PROVE  /\ s \o t \in Seq(S) /\ Increasing(s \o t)
         /\ \A k \in DOMAIN (s \o t) : \/ \E i \in DOMAIN s : (s \o t)[k] = s[i]
                                      \/ \E j \in DOMAIN t : (s \o t)[k] = t[j]
<1> DEFINE st == s \o t
<1>1. /\ st \in Seq(S) /\ Len(st) = Len(s) + Len(t)
      /\ \A k \in 1 .. Len(s) + Len(t) : st[k] = IF k <= Len(s) THEN s[k] ELSE t[k - Len(s)]
  BY ConcatProperties
<1> HIDE DEF st
<1>2. /\ Len(s) \in Nat /\ Len(t) \in Nat /\ DOMAIN st = 1 .. Len(s) + Len(t)
      /\ DOMAIN s = 1 .. Len(s) /\ DOMAIN t = 1 .. Len(t)
  BY <1>1, LenProperties
<1>3. ASSUME NEW k \in DOMAIN st, k <= Len(s) PROVE k \in DOMAIN s /\ st[k] = s[k]
  BY <1>1, <1>2, <1>3
<1>4. ASSUME NEW k \in DOMAIN st, ~(k <= Len(s))
      PROVE  k - Len(s) \in DOMAIN t /\ st[k] = t[k - Len(s)]
  BY <1>1, <1>2, <1>4
<1>5. ASSUME NEW j \in DOMAIN st, NEW k \in DOMAIN st, j < k PROVE st[j] < st[k]
  <2>1. CASE k <= Len(s)
    <3>1. j <= Len(s)
      BY <1>2, <1>5, <2>1
    <3> QED
      BY <1>3, <1>5, <2>1, <3>1 DEF Increasing
  <2>2. CASE j <= Len(s) /\ ~(k <= Len(s))
    BY <1>3, <1>4, <2>2
  <2>3. CASE ~(j <= Len(s))
    <3>1. ~(k <= Len(s)) /\ j - Len(s) < k - Len(s)
      BY <1>2, <1>5, <2>3
    <3> QED
      BY <1>4, <2>3, <3>1 DEF Increasing
  <2> QED
    BY <2>1, <2>2, <2>3
<1>6. Increasing(st)
  BY <1>5 DEF Increasing
<1>7. ASSUME NEW k \in DOMAIN st
      PROVE  (\E i \in DOMAIN s : st[k] = s[i]) \/ (\E j \in DOMAIN t : st[k] = t[j])
  BY <1>3, <1>4
<1> QED
  BY <1>1, <1>6, <1>7 DEF st

\* Positions that follow those of an increasing sequence can be appended to it.
LEMMA PositionsFollow ==
  ASSUME NEW m \in Nat, NEW n \in Nat, NEW s \in Seq(1 .. m), Increasing(s)
  PROVE  LET t == s \o [i \in 1 .. n |-> m + i] IN
         /\ t \in Seq(1 .. m + n) /\ Increasing(t)
         /\ \A k \in DOMAIN t : (\E i \in DOMAIN s : t[k] = s[i]) \/ t[k] > m
<1> DEFINE more == [i \in 1 .. n |-> m + i]
<1>1. s \in Seq(1 .. m + n) /\ more \in Seq(1 .. m + n)
  BY SeqMonotonic, 1 .. m \subseteq 1 .. m + n
<1>2. DOMAIN more = 1 .. n /\ \A i \in DOMAIN more : more[i] = m + i /\ more[i] > m
  OBVIOUS
<1>3. \A i \in DOMAIN s : s[i] \in 1 .. m
  BY LenProperties, ElementOfSeq
<1> HIDE DEF more
<1>4. Increasing(more) /\ \A i \in DOMAIN s, j \in DOMAIN more : s[i] < more[j]
  BY <1>2, <1>3 DEF Increasing
<1>5. 1 .. m + n \in SUBSET Nat
  OBVIOUS
<1>6. /\ s \o more \in Seq(1 .. m + n) /\ Increasing(s \o more)
      /\ \A k \in DOMAIN (s \o more) : \/ \E i \in DOMAIN s : (s \o more)[k] = s[i]
                                      \/ \E j \in DOMAIN more : (s \o more)[k] = more[j]
  BY <1>1, <1>4, <1>5, IncreasingConcat
<1> QED
  BY <1>2, <1>6 DEF more

\* The outbox and the journal: appending positions of the ledger, and taking a batch.
LEMMA OrderKept ==
  ASSUME AuthorityInv, NEW appended \in Seq(A!EventEnvelope), A!AppendEvents(appended), journal' = journal
  PROVE  /\ ledger' \in Seq(A!EventEnvelope) /\ ledger' = ledger \o appended
         /\ Len(ledger') = Len(ledger) + Len(appended)
         /\ outbox' \in Seq(DOMAIN ledger') /\ journal' \in Seq(DOMAIN ledger')
         /\ OutboxInOrder' /\ JournalInOrder'
<1>1. /\ ledger \in Seq(A!EventEnvelope) /\ outbox \in Seq(DOMAIN ledger)
      /\ journal \in Seq(DOMAIN ledger) /\ OutboxInOrder /\ JournalInOrder
      /\ ledger' = ledger \o appended
      /\ outbox' = outbox \o [i \in 1 .. Len(appended) |-> Len(ledger) + i]
  BY DEF AuthorityInv, A!TypeOK, A!AppendEvents
<1>2. /\ ledger' \in Seq(A!EventEnvelope) /\ Len(ledger') = Len(ledger) + Len(appended)
      /\ Len(appended) \in Nat /\ Len(ledger) \in Nat
      /\ DOMAIN ledger = 1 .. Len(ledger) /\ DOMAIN ledger' = 1 .. Len(ledger')
  BY <1>1, ConcatProperties, LenProperties
<1>3. journal \in Seq(DOMAIN ledger') /\ \A i \in DOMAIN journal : journal[i] \in 1 .. Len(ledger)
  <2>1. DOMAIN ledger \subseteq DOMAIN ledger'
    BY <1>2
  <2> QED
    BY <1>1, <1>2, <2>1, SeqMonotonic, LenProperties, ElementOfSeq
<1>4. /\ outbox' \in Seq(DOMAIN ledger') /\ Increasing(outbox')
      /\ \A j \in DOMAIN outbox' :
            (\E i \in DOMAIN outbox : outbox'[j] = outbox[i]) \/ outbox'[j] > Len(ledger)
  <2>1. Increasing(outbox)
    BY <1>1 DEF OutboxInOrder
  <2> QED
    BY <1>1, <1>2, <2>1, PositionsFollow
<1>5. ASSUME NEW i \in DOMAIN journal, NEW j \in DOMAIN outbox' PROVE journal[i] < outbox'[j]
  <2>1. CASE \E k \in DOMAIN outbox : outbox'[j] = outbox[k]
    BY <1>1, <2>1 DEF OutboxInOrder
  <2>2. CASE outbox'[j] > Len(ledger)
    <3>1. outbox'[j] \in DOMAIN ledger'
      BY <1>4, LenProperties, ElementOfSeq
    <3> QED
      BY <1>2, <1>3, <2>2, <3>1
  <2> QED
    BY <1>4, <2>1, <2>2
<1>6. JournalInOrder'
  BY <1>1 DEF JournalInOrder, A!JournalInOrder
<1> QED
  BY <1>1, <1>2, <1>3, <1>4, <1>5, <1>6 DEF OutboxInOrder

\* Positions i + 1, i + 2, ... of an increasing sequence increase.
LEMMA PartIncreasing ==
  ASSUME NEW S \in SUBSET Nat, NEW s \in Seq(S), Increasing(s),
         NEW m \in Nat, NEW n \in Nat, n <= Len(s)
  PROVE  LET t == SubSeq(s, m + 1, n) IN
         /\ t \in Seq(S) /\ Increasing(t)
         /\ \A i \in DOMAIN t : i + m \in m + 1 .. n /\ i + m \in DOMAIN s /\ t[i] = s[i + m]
<1> DEFINE t == SubSeq(s, m + 1, n)
<1>1. Len(s) \in Nat /\ DOMAIN s = 1 .. Len(s) /\ \A i \in 1 .. Len(s) : s[i] \in S
  BY LenProperties, ElementOfSeq
<1>2. /\ t \in Seq(S) /\ Len(t) = IF m + 1 <= n THEN n - (m + 1) + 1 ELSE 0
      /\ \A i \in 1 .. n - (m + 1) + 1 : t[i] = s[(m + 1) + i - 1]
  <2>1. \A i \in m + 1 .. n : s[i] \in S
    BY <1>1
  <2>2. m + 1 \in Int /\ n \in Int
    OBVIOUS
  <2> QED
    BY <2>1, <2>2, SubSeqProperties
<1> HIDE DEF t
<1>3. ASSUME NEW i \in DOMAIN t PROVE i + m \in m + 1 .. n /\ i + m \in DOMAIN s /\ t[i] = s[i + m]
  <2>1. i \in 1 .. Len(t) /\ i \in 1 .. n - (m + 1) + 1
    BY <1>2, LenProperties
  <2>2. (m + 1) + i - 1 = i + m
    BY <2>1
  <2> QED
    BY <1>1, <1>2, <2>1, <2>2
<1>4. DOMAIN t \subseteq Nat
  BY <1>2, LenProperties
<1>5. Increasing(t)
  BY <1>3, <1>4 DEF Increasing
<1> QED
  BY <1>2, <1>3, <1>5 DEF t

\* A batch that is written in part: what is written comes after the journal and
\* before what is left, and the rest of the batch is lost.
LEMMA BatchTaken ==
  ASSUME AuthorityInv, NEW written \in 0 .. Len(outbox), A!SyncOutboxBatch(written)
  PROVE  /\ outbox' \in Seq(DOMAIN ledger) /\ journal' \in Seq(DOMAIN ledger)
         /\ OutboxInOrder' /\ JournalInOrder'
<1> DEFINE batch == SubSeq(outbox, 0 + 1, written)
           b == A!BatchSize
<1>1. /\ outbox \in Seq(DOMAIN ledger) /\ journal \in Seq(DOMAIN ledger)
      /\ ledger \in Seq(A!EventEnvelope) /\ OutboxInOrder /\ JournalInOrder
      /\ outbox' = SubSeq(outbox, b + 1, Len(outbox))
      /\ journal' = journal \o batch /\ written <= b
  BY DEF AuthorityInv, A!TypeOK, A!SyncOutboxBatch, A!Drained
<1>2. /\ Len(outbox) \in Nat /\ DOMAIN ledger \in SUBSET Nat /\ b \in Nat /\ b <= Len(outbox)
      /\ written \in Nat /\ written <= Len(outbox)
  BY <1>1, LenProperties, AuthorityAssumption DEF A!BatchSize, A!ConstantsAssumption
<1> HIDE DEF b
<1>3. Increasing(outbox) /\ \A i \in DOMAIN journal, j \in DOMAIN outbox : journal[i] < outbox[j]
  BY <1>1 DEF OutboxInOrder
<1>31. ASSUME NEW m \in Nat, NEW n \in Nat, n <= Len(outbox), NEW t, t = SubSeq(outbox, m + 1, n)
       PROVE  /\ t \in Seq(DOMAIN ledger) /\ Increasing(t)
              /\ \A i \in DOMAIN t :
                    i + m \in m + 1 .. n /\ i + m \in DOMAIN outbox /\ t[i] = outbox[i + m]
  <2>1. PICK S \in SUBSET Nat : S = DOMAIN ledger
    BY <1>2
  <2>2. PICK s \in Seq(S) : s = outbox
    BY <1>1, <2>1
  <2>3. Increasing(s) /\ n <= Len(s)
    BY <1>3, <1>31, <2>2
  <2>4. t = SubSeq(s, m + 1, n)
    BY <1>31, <2>2
  <2> QED
    BY <2>1, <2>2, <2>3, <2>4, PartIncreasing
<1>4. /\ outbox' \in Seq(DOMAIN ledger) /\ Increasing(outbox')
      /\ \A i \in DOMAIN outbox' :
            i + b \in b + 1 .. Len(outbox) /\ i + b \in DOMAIN outbox /\ outbox'[i] = outbox[i + b]
  <2>1. PICK m \in Nat : m = b
    BY <1>2
  <2>2. PICK n \in Nat : n = Len(outbox)
    BY <1>2
  <2>3. n <= Len(outbox)
    BY <2>2
  <2>31. PICK left : left = SubSeq(outbox, m + 1, n)
    OBVIOUS
  <2>4. /\ left \in Seq(DOMAIN ledger) /\ Increasing(left)
        /\ \A i \in DOMAIN left : i + m \in m + 1 .. n /\ i + m \in DOMAIN outbox /\ left[i] = outbox[i + m]
    BY <1>31, <2>3, <2>31
  <2>5. outbox' = left
    BY <1>1, <2>1, <2>2, <2>31
  <2> QED
    BY <2>1, <2>2, <2>4, <2>5
<1>5. /\ batch \in Seq(DOMAIN ledger) /\ Increasing(batch)
      /\ \A i \in DOMAIN batch :
            i + 0 \in 0 + 1 .. written /\ i + 0 \in DOMAIN outbox /\ batch[i] = outbox[i + 0]
  BY <1>2, <1>31 DEF batch
<1> HIDE DEF batch
<1>6. /\ DOMAIN journal \subseteq Nat /\ DOMAIN batch \subseteq Nat /\ DOMAIN outbox' \subseteq Nat
      /\ \A i \in DOMAIN outbox : outbox[i] \in Nat
  BY <1>1, <1>2, <1>4, <1>5, LenProperties, ElementOfSeq
<1>7. \A i \in DOMAIN batch : i \in 1 .. written /\ i \in DOMAIN outbox /\ batch[i] = outbox[i]
  <2>1. \A i \in Nat : i + 0 = i
    OBVIOUS
  <2> QED
    BY <1>5, <1>6, <2>1
<1>8. Increasing(journal) /\ \A i \in DOMAIN journal, j \in DOMAIN batch : journal[i] < batch[j]
  BY <1>1, <1>3, <1>7 DEF Increasing, JournalInOrder, A!JournalInOrder
<1>9. /\ journal' \in Seq(DOMAIN ledger) /\ Increasing(journal')
      /\ \A k \in DOMAIN journal' : \/ \E i \in DOMAIN journal : journal'[k] = journal[i]
                                    \/ \E j \in DOMAIN batch : journal'[k] = batch[j]
  <2>1. PICK S \in SUBSET Nat : S = DOMAIN ledger
    BY <1>2
  <2>2. PICK s \in Seq(S) : s = journal
    BY <1>1, <2>1
  <2>3. PICK u \in Seq(S) : u = batch
    BY <1>5, <2>1
  <2>4. Increasing(s) /\ Increasing(u) /\ \A i \in DOMAIN s, j \in DOMAIN u : s[i] < u[j]
    BY <1>5, <1>8, <2>2, <2>3
  <2>5. /\ s \o u \in Seq(S) /\ Increasing(s \o u)
        /\ \A k \in DOMAIN (s \o u) : \/ \E i \in DOMAIN s : (s \o u)[k] = s[i]
                                     \/ \E j \in DOMAIN u : (s \o u)[k] = u[j]
    BY <2>4, IncreasingConcat
  <2>6. journal' = s \o u
    BY <1>1, <2>2, <2>3
  <2> QED
    BY <2>1, <2>2, <2>3, <2>5, <2>6
<1>10. ASSUME NEW k \in DOMAIN journal', NEW j \in DOMAIN outbox' PROVE journal'[k] < outbox'[j]
  <2>1. j + b \in DOMAIN outbox /\ outbox'[j] = outbox[j + b] /\ j + b > b
    BY <1>2, <1>4, <1>6
  <2>2. CASE \E i \in DOMAIN journal : journal'[k] = journal[i]
    BY <1>3, <2>1, <2>2
  <2>3. ASSUME NEW i \in DOMAIN batch, journal'[k] = batch[i] PROVE journal'[k] < outbox'[j]
    <3>1. i < j + b
      BY <1>1, <1>2, <1>6, <1>7, <2>1
    <3> QED
      BY <1>3, <1>7, <2>1, <2>3, <3>1 DEF Increasing
  <2> QED
    BY <1>9, <2>2, <2>3
<1>11. OutboxInOrder' /\ JournalInOrder'
  BY <1>4, <1>9, <1>10 DEF OutboxInOrder, Increasing, JournalInOrder, A!JournalInOrder
<1> QED
  BY <1>4, <1>9, <1>11

-----------------------------------------------------------------------------

\* What neither the ledger, nor the replicator, nor a tool's effect changes.
AuthorityKept == UNCHANGED <<ledger, outbox, journal, A!history>>

LEMMA KeptIsKept ==
  ASSUME AuthorityInv, AuthorityKept
  PROVE  /\ EffectsAudited' /\ OutboxInOrder' /\ JournalInOrder'
         /\ ledger' \in Seq(A!EventEnvelope)
         /\ outbox' \in Seq(DOMAIN ledger') /\ journal' \in Seq(DOMAIN ledger')
         /\ RunsAsReviewed' /\ calls' \subseteq A!Call /\ raised' \subseteq Tools
         /\ effects' \in [Tools -> Nat] /\ undone' \in [Tools -> Nat]
  BY DEF AuthorityInv, AuthorityKept, A!history, A!TypeOK, EffectsAudited, A!EffectsAudited,
         A!CallEvents, A!RollbackEvents, RunsAsReviewed, A!RunsAsReviewed,
         OutboxInOrder, JournalInOrder, A!JournalInOrder

\* Commands on proposals.
LEMMA CommandStep ==
  ASSUME AuthorityInv, NEW a \in Actions,
         A!CreateProposal(a) \/ A!OperatorCommand(a) \/ A!ProposalRevised(a) \/ A!ActionReported(a)
  PROVE  AuthorityInv'
<1> USE AuthorityAssumption DEF A!ConstantsAssumption, A!ToolClassAssumption
<1>1. A!TypeOK /\ TokensReviewed /\ clock \in Nat /\ contract \in DOMAIN Ceilings /\ cached \subseteq Keys
  BY DEF AuthorityInv, A!TypeOK
<1>2. ASSUME UNCHANGED <<grants, contract, spend, clock, A!store, journal, A!history>>,
             proposals' \in [Actions -> A!Proposal \cup {None}],
             cached' \subseteq Keys, tokens' \subseteq A!CapabilityToken, TokensReviewed'
      PROVE  AuthorityInv'
  <2>1. AuthorityKept
    BY <1>2 DEF AuthorityKept, A!store
  <2> QED
    BY <1>1, <1>2, <2>1, KeptIsKept DEF AuthorityInv, A!TypeOK, A!store
<1>3. ASSUME tokens' = tokens PROVE TokensReviewed' /\ tokens' \subseteq A!CapabilityToken
  BY <1>1, <1>3 DEF TokensReviewed, A!TypeOK
<1>4. ASSUME NEW s \in A!ActionStatus, proposals[a] # None
      PROVE  [proposals EXCEPT ![a].status = s] \in [Actions -> A!Proposal \cup {None}]
  <2>1. proposals[a] \in A!Proposal
    BY <1>1, <1>4 DEF A!TypeOK
  <2> QED
    BY <1>1, <2>1 DEF A!TypeOK, A!Proposal
<1>5. CASE A!CreateProposal(a)
  <2>1. PICK passed \in BOOLEAN, c \in 1 .. contract, payload \in Payloads :
          proposals' = [proposals EXCEPT ![a] =
            [status |-> IF passed THEN "AWAITING_APPROVAL" ELSE "PREFLIGHTING",
             version |-> 1, deadline |-> clock,
             bound |-> [tool |-> ActionTool[a], target |-> ActionTarget[a], contract |-> c,
                        payload |-> payload]]]
    BY <1>5 DEF A!CreateProposal
  <2>2. c \in DOMAIN Ceilings
    BY <1>1, LenProperties
  <2>3. [tool |-> ActionTool[a], target |-> ActionTarget[a], contract |-> c, payload |-> payload]
          \in A!Bound
    BY <2>2 DEF A!Bound
  <2>4. proposals' \in [Actions -> A!Proposal \cup {None}]
    BY <1>1, <2>1, <2>3 DEF A!TypeOK, A!Proposal, A!ActionStatus
  <2> QED
    BY <1>1, <1>2, <1>3, <1>5, <2>4 DEF A!CreateProposal
<1>6. CASE A!ProposalRevised(a)
  <2>1. PICK bound \in A!Bound, bump \in {0, 1} :
          proposals' = [proposals EXCEPT ![a].bound = bound, ![a].version = @ + bump]
    BY <1>6 DEF A!ProposalRevised
  <2>2. proposals[a] \in A!Proposal
    BY <1>1, <1>6 DEF A!TypeOK, A!ProposalRevised
  <2>3. proposals[a].version + bump \in Nat
    BY <2>2 DEF A!Proposal
  <2>4. ASSUME NEW n \in Nat
        PROVE  [proposals EXCEPT ![a].bound = bound, ![a].version = n]
                 \in [Actions -> A!Proposal \cup {None}]
    BY <1>1, <2>2 DEF A!TypeOK, A!Proposal
  <2>5. proposals' \in [Actions -> A!Proposal \cup {None}]
    BY <2>1, <2>3, <2>4
  <2> QED
    BY <1>1, <1>2, <1>3, <1>6, <2>5 DEF A!ProposalRevised
<1>7. CASE A!ActionReported(a)
  <2>1. PICK s \in {"SUCCEEDED", "FAILED", "PARTIAL"} :
          proposals' = [proposals EXCEPT ![a].status = s] /\ proposals[a] # None
    BY <1>7 DEF A!ActionReported
  <2>2. s \in A!ActionStatus
    BY DEF A!ActionStatus
  <2> QED
    BY <1>1, <1>2, <1>3, <1>4, <1>7, <2>1, <2>2 DEF A!ActionReported
<1>8. CASE A!OperatorCommand(a)
  <2>1. PICK k \in Keys \cup {None} :
          \/ \E version \in 1 .. MaxRevisions + 1, reviewed \in A!Bound :
               A!ApproveAction(a, version, reviewed, k)
          \/ A!ApprovalTooLate(a, k)
          \/ \E version \in 1 .. MaxRevisions + 1 : A!RejectAction(a, version, k)
          \/ A!RollbackAction(a, k)
    BY <1>8 DEF A!OperatorCommand
  <2>2. A!Remember(k) => cached' \subseteq Keys
    BY <1>1 DEF A!Remember
  <2>3. ASSUME NEW version \in 1 .. MaxRevisions + 1, NEW reviewed \in A!Bound,
               A!ApproveAction(a, version, reviewed, k)
        PROVE  AuthorityInv'
    <3> DEFINE p == proposals[a].bound
               t == [by |-> a, tool |-> p.tool, target |-> p.target,
                     contract |-> p.contract, expires |-> clock, reviewed |-> reviewed]
    <3>1. /\ p = reviewed /\ proposals[a] # None
          /\ proposals' = [proposals EXCEPT ![a].status = "AUTHORIZED"]
          /\ UNCHANGED <<grants, contract, spend, clock, A!store, journal, A!history>>
          /\ \/ UNCHANGED <<tokens, cached>>
             \/ tokens' = tokens \cup {t} /\ A!Remember(k)
      BY <2>3 DEF A!ApproveAction, A!Issue, A!DigestMatches
    <3>2. /\ t \in A!CapabilityToken /\ t.reviewed \in A!Bound
          /\ t.tool = t.reviewed.tool /\ t.target = t.reviewed.target
          /\ t.contract = t.reviewed.contract
      <4>1. p.tool \in Tools /\ p.target \in Patterns /\ p.contract \in DOMAIN Ceilings
        BY <3>1 DEF A!Bound
      <4> HIDE DEF p
      <4> QED
        BY <1>1, <3>1, <4>1 DEF A!CapabilityToken
    <3> HIDE DEF t
    <3>3. TokensReviewed' /\ tokens' \subseteq A!CapabilityToken
      BY <1>1, <3>1, <3>2 DEF TokensReviewed, A!TypeOK
    <3>4. "AUTHORIZED" \in A!ActionStatus
      BY DEF A!ActionStatus
    <3> QED
      BY <1>1, <1>2, <1>4, <2>2, <3>1, <3>3, <3>4
  <2>4. CASE A!ApprovalTooLate(a, k)
    BY <1>1, <1>2, <1>3, <1>4, <2>4 DEF A!ApprovalTooLate, A!ActionStatus
  <2>5. CASE \E version \in 1 .. MaxRevisions + 1 : A!RejectAction(a, version, k)
    BY <1>2, <1>3, <1>4, <2>2, <2>5 DEF A!RejectAction, A!ActionStatus
  <2>6. CASE A!RollbackAction(a, k)
    BY <1>2, <1>3, <1>4, <2>2, <2>6 DEF A!RollbackAction, A!ActionStatus
  <2> QED
    BY <2>1, <2>3, <2>4, <2>5, <2>6
<1> QED
  BY <1>5, <1>6, <1>7, <1>8

\* Tokens and grants.
LEMMA IssueStep ==
  ASSUME AuthorityInv, NEW tool \in Tools, NEW target \in Patterns,
         A!IssueToken(tool, target) \/ A!IssueRollbackGrant(tool, target)
  PROVE  AuthorityInv'
<1>1. A!TypeOK /\ TokensReviewed /\ clock \in Nat /\ contract \in DOMAIN Ceilings
  BY AuthorityAssumption DEF AuthorityInv, A!TypeOK, A!ConstantsAssumption
<1>2. AuthorityKept /\ UNCHANGED <<proposals, cached, contract, spend, clock, edges>>
  BY DEF AuthorityKept, A!IssueToken, A!IssueRollbackGrant, A!store
<1>3. ASSUME tokens' \subseteq A!CapabilityToken, TokensReviewed', grants' \subseteq A!RollbackGrant
      PROVE  AuthorityInv'
  BY <1>1, <1>2, <1>3, KeptIsKept DEF AuthorityInv, A!TypeOK
<1>4. CASE A!IssueToken(tool, target)
  <2> DEFINE t == [by |-> Brain, tool |-> tool, target |-> target, contract |-> contract,
                   expires |-> clock, reviewed |-> None]
  <2>1. tokens' = tokens \cup {t} /\ grants' = grants
    BY <1>4 DEF A!IssueToken, A!Issue
  <2>2. t \in A!CapabilityToken /\ t.by = Brain
    BY <1>1 DEF A!CapabilityToken
  <2> HIDE DEF t
  <2> QED
    BY <1>1, <1>3, <2>1, <2>2 DEF TokensReviewed, A!TypeOK
<1>5. CASE A!IssueRollbackGrant(tool, target)
  <2>1. [tool |-> tool, target |-> target, expires |-> clock] \in A!RollbackGrant
    BY <1>1 DEF A!RollbackGrant
  <2> QED
    BY <1>1, <1>3, <1>5, <2>1 DEF A!IssueRollbackGrant, TokensReviewed, A!TypeOK
<1> QED
  BY <1>4, <1>5

\* A counter of one tool is incremented, or not.
Counted(count, next, t, some) == next = [count EXCEPT ![t] = @ + some]

\* Effects are audited as long as what accounts for them is appended with them.
LEMMA AuditKept ==
  ASSUME AuthorityInv, NEW appended \in Seq(A!EventEnvelope), ledger' = ledger \o appended,
         raised \subseteq raised',
         \/ effects' = effects
         \/ \E t \in Tools, some \in {0, 1} :
              /\ Counted(effects, effects', t, some)
              /\ some = 1 => appended # <<>> /\ IsCall(t, appended[1]),
         \/ undone' = undone
         \/ \E t \in Tools, some \in {0, 1} :
              /\ Counted(undone, undone', t, some)
              /\ some = 1 => t \in raised' \/ (appended # <<>> /\ IsUndoing(t, appended[1]))
  PROVE  EffectsAudited' /\ effects' \in [Tools -> Nat] /\ undone' \in [Tools -> Nat]
<1>1. /\ effects \in [Tools -> Nat] /\ undone \in [Tools -> Nat] /\ ledger \in Seq(A!EventEnvelope)
      /\ \A tool \in Tools :
           /\ effects[tool] <= Cardinality(CallsOf(tool, ledger))
           /\ tool \notin raised => undone[tool] <= Cardinality(UndoingsOf(tool, ledger))
  BY AuditedIs DEF AuthorityInv, A!TypeOK
<1>11. PICK e \in [Tools -> Nat], u \in [Tools -> Nat] : e = effects /\ u = undone
  BY <1>1
<1>12. PICK eNext, uNext : eNext = effects' /\ uNext = undone'
  OBVIOUS
<1>13. /\ eNext \in [Tools -> Nat]
       /\ \A tool \in Tools :
            \/ eNext[tool] = e[tool]
            \/ eNext[tool] = e[tool] + 1 /\ appended # <<>> /\ IsCall(tool, appended[1])
  <2>1. \/ eNext = e
        \/ \E t \in Tools, some \in {0, 1} :
             /\ Counted(e, eNext, t, some)
             /\ some = 1 => appended # <<>> /\ IsCall(t, appended[1])
    BY <1>11, <1>12
  <2>2. ASSUME NEW t \in Tools, NEW some \in {0, 1}, Counted(e, eNext, t, some)
        PROVE  /\ eNext \in [Tools -> Nat]
               /\ \A tool \in Tools : eNext[tool] = e[tool]
                    \/ (eNext[tool] = e[tool] + 1 /\ tool = t /\ some = 1)
    BY <2>2 DEF Counted
  <2> QED
    BY <2>1, <2>2
<1>14. /\ uNext \in [Tools -> Nat]
       /\ \A tool \in Tools :
            \/ uNext[tool] = u[tool]
            \/ /\ uNext[tool] = u[tool] + 1
               /\ tool \in raised' \/ (appended # <<>> /\ IsUndoing(tool, appended[1]))
  <2>1. \/ uNext = u
        \/ \E t \in Tools, some \in {0, 1} :
             /\ Counted(u, uNext, t, some)
             /\ some = 1 => t \in raised' \/ (appended # <<>> /\ IsUndoing(t, appended[1]))
    BY <1>11, <1>12
  <2>2. ASSUME NEW t \in Tools, NEW some \in {0, 1}, Counted(u, uNext, t, some)
        PROVE  /\ uNext \in [Tools -> Nat]
               /\ \A tool \in Tools : uNext[tool] = u[tool]
                    \/ (uNext[tool] = u[tool] + 1 /\ tool = t /\ some = 1)
    BY <2>2 DEF Counted
  <2>3. CASE uNext = u
    BY <2>3
  <2>4. ASSUME NEW t \in Tools, NEW some \in {0, 1}, Counted(u, uNext, t, some),
               some = 1 => t \in raised' \/ (appended # <<>> /\ IsUndoing(t, appended[1])),
               NEW tool \in Tools, uNext[tool] # u[tool]
        PROVE  /\ uNext[tool] = u[tool] + 1
               /\ tool \in raised' \/ (appended # <<>> /\ IsUndoing(tool, appended[1]))
    <3>1. uNext[tool] = u[tool] + 1 /\ tool = t /\ some = 1
      BY <2>2, <2>4
    <3> QED
      BY <2>4, <3>1, Zenon
  <2> QED
    BY <2>1, <2>2, <2>3, <2>4
<1>2. effects' \in [Tools -> Nat] /\ undone' \in [Tools -> Nat]
  BY <1>12, <1>13, <1>14
<1>3. ASSUME NEW tool \in Tools
      PROVE  /\ effects'[tool] <= Cardinality(CallsOf(tool, ledger'))
             /\ tool \notin raised' => undone'[tool] <= Cardinality(UndoingsOf(tool, ledger'))
  <2> DEFINE oldCalls == Cardinality(CallsOf(tool, ledger))
             newCalls == Cardinality(CallsOf(tool, ledger'))
             oldUndoings == Cardinality(UndoingsOf(tool, ledger))
             newUndoings == Cardinality(UndoingsOf(tool, ledger'))
  <2>1. /\ oldCalls \in Nat /\ newCalls \in Nat /\ oldCalls <= newCalls
        /\ appended # <<>> /\ IsCall(tool, appended[1]) => oldCalls + 1 <= newCalls
        /\ oldUndoings \in Nat /\ newUndoings \in Nat /\ oldUndoings <= newUndoings
        /\ appended # <<>> /\ IsUndoing(tool, appended[1]) => oldUndoings + 1 <= newUndoings
    BY <1>1, AuditsGrow
  <2>2. /\ effects[tool] \in Nat /\ effects[tool] <= oldCalls
        /\ undone[tool] \in Nat
        /\ tool \notin raised => undone[tool] <= oldUndoings
    BY <1>1
  <2> HIDE DEF oldCalls, newCalls, oldUndoings, newUndoings
  <2>3. \/ effects'[tool] = effects[tool]
        \/ effects'[tool] = effects[tool] + 1 /\ appended # <<>> /\ IsCall(tool, appended[1])
    BY <1>11, <1>12, <1>13
  <2>4. \/ undone'[tool] = undone[tool]
        \/ /\ undone'[tool] = undone[tool] + 1
           /\ tool \in raised' \/ (appended # <<>> /\ IsUndoing(tool, appended[1]))
    BY <1>11, <1>12, <1>14
  <2>5. effects'[tool] <= newCalls
    BY <2>1, <2>2, <2>3
  <2>6. tool \notin raised' => undone'[tool] <= newUndoings
    BY <2>1, <2>2, <2>4
  <2> QED
    BY <2>5, <2>6 DEF newCalls, newUndoings
<1>4. EffectsAudited' <=>
        \A tool \in Tools :
          /\ effects'[tool] <= Cardinality(CallsOf(tool, ledger'))
          /\ tool \notin raised' => undone'[tool] <= Cardinality(UndoingsOf(tool, ledger'))
  <2>1. \A tool : A!CallEvents(tool)' = CallsOf(tool, ledger')
    BY DEF A!CallEvents, CallsOf, IsCall
  <2>2. \A tool : A!RollbackEvents(tool)' = UndoingsOf(tool, ledger')
    BY DEF A!RollbackEvents, UndoingsOf, IsUndoing
  <2> QED
    BY <2>1, <2>2, AuthorityCardinality DEF EffectsAudited, A!EffectsAudited
<1> QED
  BY <1>2, <1>3, <1>4

\* What is appended to the ledger leaves decisions alone.
LEMMA AppendStep ==
  ASSUME AuthorityInv, NEW appended \in Seq(A!EventEnvelope), A!AppendEvents(appended),
         UNCHANGED <<A!authority, spend, clock, journal>>, edges' \subseteq A!EventEdge,
         raised \subseteq raised', raised' \subseteq Tools,
         calls' \subseteq A!Call, RunsAsReviewed',
         \/ effects' = effects
         \/ \E t \in Tools, some \in {0, 1} :
              /\ Counted(effects, effects', t, some)
              /\ some = 1 => appended # <<>> /\ IsCall(t, appended[1]),
         \/ undone' = undone
         \/ \E t \in Tools, some \in {0, 1} :
              /\ Counted(undone, undone', t, some)
              /\ some = 1 => t \in raised' \/ (appended # <<>> /\ IsUndoing(t, appended[1]))
  PROVE  AuthorityInv'
<1>1. EffectsAudited' /\ effects' \in [Tools -> Nat] /\ undone' \in [Tools -> Nat]
  BY OrderKept, AuditKept
<1>2. A!TypeOK /\ TokensReviewed /\ UNCHANGED <<proposals, cached, tokens, grants, contract>>
  BY DEF AuthorityInv, A!authority
<1>3. TokensReviewed'
  BY <1>2 DEF TokensReviewed
<1>4. A!TypeOK'
  BY <1>1, <1>2, OrderKept DEF A!TypeOK
<1> QED
  BY <1>1, <1>3, <1>4, OrderKept DEF AuthorityInv

LEMMA LedgerTyped ==
  ASSUME AuthorityInv
  PROVE  /\ Len(ledger) \in Nat /\ edges \subseteq A!EventEdge
         /\ \A type \in A!EventType, tool \in Tools \cup {None} : A!Event(type, tool) \in A!EventEnvelope
         /\ \A source, target \in Nat, type \in A!RelationType :
              A!Edge(source, target, type) \in A!EventEdge
<1>1. ledger \in Seq(A!EventEnvelope) /\ edges \subseteq A!EventEdge /\ contract \in Nat
  BY AuthorityAssumption DEF AuthorityInv, A!TypeOK, A!ConstantsAssumption
<1> QED
  BY <1>1, LenProperties DEF A!Event, A!EventEnvelope, A!Edge, A!EventEdge

LEMMA ExecuteStep ==
  ASSUME AuthorityInv, NEW t \in tokens, NEW target \in Targets, NEW returns \in BOOLEAN,
         A!ExecuteTool(t, target, returns)
  PROVE  AuthorityInv'
<1> DEFINE appended == A!CallRecord(t.tool, returns)
<1>1. t \in A!CapabilityToken /\ t.tool \in Tools
  BY DEF AuthorityInv, A!TypeOK, A!CapabilityToken
<1>2. /\ A!Event("TOOL_CALLED", t.tool) \in A!EventEnvelope
      /\ A!Event("EVIDENCE_PRODUCED", t.tool) \in A!EventEnvelope
  BY <1>1, LedgerTyped DEF A!EventType
<1>3. appended \in Seq(A!EventEnvelope) /\ appended # <<>> /\ appended[1] = A!Event("TOOL_CALLED", t.tool)
  BY <1>2 DEF A!CallRecord
<1>4. /\ A!ClassOrder[ToolClass[t.tool]] <= A!ClassOrder[Ceilings[contract]]
      /\ t.contract = contract /\ A!Covers(t.target, target)
  BY DEF A!ExecuteTool, A!GatesOpen, A!VerifyToken
<1>5. IsCall(t.tool, appended[1])
  BY <1>3, <1>4 DEF IsCall, A!Event
<1>6. edges' \subseteq A!EventEdge
  <2>1. Len(ledger) + 1 \in Nat /\ Len(ledger) + 2 \in Nat
    BY LedgerTyped
  <2>2. /\ A!Edge(Len(ledger) + 1, Len(ledger) + 2, "CAUSED_BY") \in A!EventEdge
        /\ A!Edge(Len(ledger) + 2, Len(ledger) + 1, "PROVES") \in A!EventEdge
    BY <2>1, LedgerTyped DEF A!RelationType
  <2> QED
    BY <2>2, LedgerTyped DEF A!ExecuteTool
<1>7. PICK some \in {0, 1} : Counted(effects, effects', t.tool, some)
  BY <1>1 DEF A!ExecuteTool, A!Mutates, Counted
<1>8. /\ A!AppendEvents(appended) /\ UNCHANGED <<A!authority, spend, clock, journal, undone, raised>>
      /\ calls' = IF t.by = Brain THEN calls
                  ELSE calls \cup {[token |-> t, target |-> target, contract |-> contract]}
  BY DEF A!ExecuteTool
<1>9. calls \subseteq A!Call /\ RunsAsReviewed /\ raised \subseteq Tools /\ contract \in DOMAIN Ceilings
  BY DEF AuthorityInv, A!TypeOK
<1>10. calls' \subseteq A!Call /\ RunsAsReviewed'
  <2>1. CASE t.by = Brain
    BY <1>8, <1>9, <2>1 DEF RunsAsReviewed, A!RunsAsReviewed
  <2>2. CASE t.by # Brain
    <3> DEFINE c == [token |-> t, target |-> target, contract |-> contract]
    <3>1. /\ t.tool = t.reviewed.tool /\ t.target = t.reviewed.target
          /\ t.contract = t.reviewed.contract
      BY <2>2 DEF AuthorityInv, TokensReviewed
    <3>2. c \in A!Call /\ c.token = t /\ c.target = target /\ c.contract = contract
      BY <1>1, <1>9 DEF A!Call
    <3> HIDE DEF c
    <3>3. calls' = calls \cup {c}
      BY <1>8, <2>2 DEF c
    <3> QED
      BY <1>4, <1>9, <3>1, <3>2, <3>3 DEF RunsAsReviewed, A!RunsAsReviewed
  <2> QED
    BY <2>1, <2>2
<1> HIDE DEF appended
<1> QED
  BY <1>1, <1>3, <1>5, <1>6, <1>7, <1>8, <1>9, <1>10, AppendStep

LEMMA RollbackStep ==
  ASSUME AuthorityInv, NEW tool \in Tools, NEW target \in Targets,
         NEW original \in 0 .. Len(ledger), NEW outcome \in A!Outcome,
         A!RollbackTool(tool, target, original, outcome)
  PROVE  AuthorityInv'
<1> DEFINE appended == A!RollbackRecord(tool, outcome)
<1>1. /\ A!Event("ROLLBACK_EXECUTED", tool) \in A!EventEnvelope
      /\ A!Event("SYSTEM_FAILURE", tool) \in A!EventEnvelope
  BY LedgerTyped DEF A!EventType
<1>2. edges' \subseteq A!EventEdge
  <2>1. original \in Nat /\ Len(ledger) + 1 \in Nat
    BY LedgerTyped
  <2>2. /\ A!Edge(original, Len(ledger) + 1, "CAUSED_BY") \in A!EventEdge
        /\ A!Edge(Len(ledger) + 1, original, "INVALIDATES") \in A!EventEdge
    BY <2>1, LedgerTyped DEF A!RelationType
  <2> QED
    BY <2>2, LedgerTyped DEF A!RollbackTool
<1>3. A!AppendEvents(appended) /\ UNCHANGED <<A!authority, spend, clock, journal, calls, effects>>
  BY DEF A!RollbackTool
<1>4. /\ appended \in Seq(A!EventEnvelope)
      /\ outcome # "raises" => appended # <<>> /\ IsUndoing(tool, appended[1])
  BY <1>1 DEF A!Outcome, A!RollbackRecord, IsUndoing, A!Event
<1>5. PICK some \in {0, 1} :
        /\ Counted(undone, undone', tool, some)
        /\ raised' = IF outcome = "raises" /\ some = 1 THEN raised \cup {tool} ELSE raised
  BY DEF A!RollbackTool, A!Mutates, Counted
<1> HIDE DEF appended
<1>6. raised \subseteq raised' /\ raised' \subseteq Tools /\ (some = 1 /\ outcome = "raises" => tool \in raised')
  BY <1>5 DEF AuthorityInv, A!TypeOK
<1>7. calls' \subseteq A!Call /\ RunsAsReviewed'
  BY <1>3 DEF AuthorityInv, A!TypeOK, RunsAsReviewed, A!RunsAsReviewed
<1> QED
  BY <1>2, <1>3, <1>4, <1>5, <1>6, <1>7, AppendStep

LEMMA AuthorityStep == AuthorityInv /\ [A!Next]_(A!vars) => AuthorityInv'
<1> SUFFICES ASSUME AuthorityInv, [A!Next]_(A!vars) PROVE AuthorityInv'
  OBVIOUS
<1>1. A!TypeOK /\ TokensReviewed
  BY DEF AuthorityInv
\* Steps that leave the ledger and every decision alone.
<1>2. ASSUME AuthorityKept, UNCHANGED <<proposals, cached, tokens, grants, edges>>,
             contract' \in DOMAIN Ceilings, spend' \in Nat, clock' \in 0 .. MaxClock
      PROVE  AuthorityInv'
  BY <1>1, <1>2, KeptIsKept DEF AuthorityInv, A!TypeOK, TokensReviewed
<1>3. contract \in DOMAIN Ceilings /\ spend \in Nat /\ clock \in 0 .. MaxClock
  BY <1>1 DEF A!TypeOK
<1>4. CASE A!RecordUsage
  <2>1. PICK c \in Costs : spend' = spend + c
    BY <1>4 DEF A!RecordUsage
  <2>2. spend' \in Nat
    BY <1>3, <2>1, AuthorityAssumption DEF A!ConstantsAssumption
  <2> QED
    BY <1>2, <1>3, <1>4, <2>2 DEF A!RecordUsage, AuthorityKept, A!authority, A!store
<1>5. CASE A!AmendContract
  <2>1. contract' \in DOMAIN Ceilings
    BY <1>3, <1>5, AuthorityAssumption, LenProperties DEF A!AmendContract, A!ConstantsAssumption
  <2> QED
    BY <1>2, <1>3, <1>5, <2>1 DEF A!AmendContract, AuthorityKept, A!store
<1>6. CASE A!Tick
  <2>1. clock' \in 0 .. MaxClock
    BY <1>3, <1>6, AuthorityAssumption DEF A!Tick, A!ConstantsAssumption
  <2> QED
    BY <1>2, <1>3, <1>6, <2>1 DEF A!Tick, AuthorityKept, A!authority, A!store
<1>7. CASE UNCHANGED A!vars
  BY <1>2, <1>3, <1>7 DEF A!vars, A!authority, A!store, A!history, AuthorityKept
<1>8. CASE A!SubmitCommand
  <2>1. A!Event("USER_INPUT", None) \in A!EventEnvelope /\ edges \subseteq A!EventEdge
    BY LedgerTyped DEF A!EventType
  <2>2. <<A!Event("USER_INPUT", None)>> \in Seq(A!EventEnvelope)
    BY <2>1
  <2> QED
    <3>1. /\ A!AppendEvents(<<A!Event("USER_INPUT", None)>>)
          /\ UNCHANGED <<A!authority, spend, clock, edges, journal, A!history>>
      BY <1>8 DEF A!SubmitCommand
    <3>2. UNCHANGED <<calls, effects, undone, raised>>
      BY <3>1 DEF A!history
    <3>3. calls' \subseteq A!Call /\ RunsAsReviewed' /\ raised' \subseteq Tools
      BY <3>2 DEF AuthorityInv, A!TypeOK, RunsAsReviewed, A!RunsAsReviewed
    <3> QED
      BY <2>1, <2>2, <3>1, <3>2, <3>3, AppendStep
<1>9. ASSUME NEW written \in 0 .. Len(outbox), A!SyncOutboxBatch(written) PROVE AuthorityInv'
  <2>1. UNCHANGED <<A!authority, spend, clock, ledger, edges, calls, effects, undone, raised>>
    BY <1>9 DEF A!SyncOutboxBatch, A!history
  <2>2. EffectsAudited' /\ TokensReviewed' /\ RunsAsReviewed'
    BY <1>1, <2>1 DEF AuthorityInv, EffectsAudited, A!EffectsAudited, A!CallEvents, A!RollbackEvents,
                      TokensReviewed, RunsAsReviewed, A!RunsAsReviewed, A!authority
  <2>3. A!TypeOK'
    BY <1>1, <1>9, <2>1, BatchTaken DEF A!TypeOK, A!authority
  <2> QED
    BY <1>9, <2>2, <2>3, BatchTaken DEF AuthorityInv
<1> QED
  BY <1>4, <1>5, <1>6, <1>7, <1>8, <1>9, CommandStep, IssueStep, ExecuteStep, RollbackStep DEF A!Next

LEMMA AuthorityInit == A!Init => AuthorityInv
<1> SUFFICES ASSUME A!Init PROVE AuthorityInv
  OBVIOUS
<1> USE AuthorityAssumption DEF A!ConstantsAssumption
<1>1. /\ ledger = <<>> /\ outbox = <<>> /\ journal = <<>> /\ tokens = {}
      /\ effects = [t \in Tools |-> 0] /\ undone = [t \in Tools |-> 0] /\ calls = {} /\ raised = {}
  BY DEF A!Init
<1>2. DOMAIN ledger = {} /\ DOMAIN outbox = {} /\ DOMAIN journal = {}
  BY <1>1
<1>3. contract \in DOMAIN Ceilings
  BY LenProperties, EmptySeq DEF A!Init
<1>4. /\ <<>> \in Seq(A!EventEnvelope) /\ <<>> \in Seq(DOMAIN ledger)
  BY EmptySeq
<1>5. A!TypeOK
  BY <1>1, <1>3, <1>4 DEF A!TypeOK, A!Init
<1>6. EffectsAudited
  <2>1. ASSUME NEW tool \in Tools
        PROVE  /\ effects[tool] <= Cardinality(CallsOf(tool, ledger))
               /\ undone[tool] <= Cardinality(UndoingsOf(tool, ledger))
    <3>1. CallsOf(tool, ledger) = {} /\ UndoingsOf(tool, ledger) = {}
      BY <1>2 DEF CallsOf, UndoingsOf
    <3>2. Cardinality(CallsOf(tool, ledger)) = 0 /\ Cardinality(UndoingsOf(tool, ledger)) = 0
      BY <3>1, FS_EmptySet
    <3>3. effects[tool] = 0 /\ undone[tool] = 0
      BY <1>1
    <3> QED
      BY <3>2, <3>3
  <2> QED
    BY <2>1, AuditedIs
<1>7. TokensReviewed /\ RunsAsReviewed /\ OutboxInOrder /\ JournalInOrder
  BY <1>1, <1>2 DEF TokensReviewed, RunsAsReviewed, A!RunsAsReviewed, OutboxInOrder, Increasing,
                    JournalInOrder, A!JournalInOrder
<1> QED
  BY <1>5, <1>6, <1>7 DEF AuthorityInv

\* What runs on an approval is what was reviewed, what tools and rollbacks changed is
\* audited, and the journal keeps the order of the ledger (actions.py, gateway.py,
\* event_store.py, replicator.py).
THEOREM AuthorityHolds ==
  A!Spec => [](A!TypeOK /\ A!RunsAsReviewed /\ A!EffectsAudited /\ A!JournalInOrder)
<1>1. AuthorityInv => A!TypeOK /\ A!RunsAsReviewed /\ A!EffectsAudited /\ A!JournalInOrder
  BY DEF AuthorityInv, RunsAsReviewed, EffectsAudited, JournalInOrder
<1> QED
  BY <1>1, AuthorityInit, AuthorityStep, PTL DEF A!Spec

-----------------------------------------------------------------------------
(* Workspace transactions.  An undisturbed target goes through the states its *)
(* checkpoints in force say: each was made from what the one before it had    *)
(* left, the first from what others saved, and its copy is that.              *)

\* What a target is when nothing is in progress on it.
Settled(f) == IF applied[f] = <<>> THEN saved[f] ELSE checkpoints[applied[f][Len(applied[f])]].post

\* What the n-th checkpoint in force of a target was made from.
Before(f, n) == IF n = 1 THEN saved[f] ELSE checkpoints[applied[f][n - 1]].post

InForce ==
  /\ Len(checkpoints) <= MaxCheckpoints
  /\ \A f \in Files : \A n \in DOMAIN applied[f] : applied[f][n] \in DOMAIN checkpoints

Chained(f) ==
  \A n \in DOMAIN applied[f] :
    LET cp == checkpoints[applied[f][n]] IN cp.pre = Before(f, n) /\ cp.backup = cp.pre

\* A target with an operation in progress, by the step of the operation.  Until it is
\* found to be as staged, hash and copy may be of what others have saved over.
UnderWay(f) ==
  /\ op.step \in {"mutate", "verify"} => op.cp.pre = Settled(f) /\ op.cp.backup = Settled(f)
  /\ op.step = "read" /\ op.cp.kind = "write" => op.cp.backup = Settled(f)
  /\ op.step = "check" /\ op.cp.pre = Settled(f) => op.cp.backup = Settled(f)
  /\ op.step \in {"read", "check", "mutate", "restored"} => file[f] = Settled(f)
  /\ op.step = "verify" => file[f] = op.cp.post
  /\ op.step = "restore" => W!RestoredTo(op.cp) = Settled(f)

Mutating == op # None /\ op.step \in {"read", "check", "mutate", "verify"}

WorkspaceInv ==
  /\ W!TypeOK /\ InForce
  /\ Mutating => Len(checkpoints) < MaxCheckpoints
  /\ \A f \in Files \ disturbed :
       /\ Chained(f)
       /\ IF op # None /\ op.cp.target = f THEN UnderWay(f) ELSE file[f] = Settled(f)

\* What the steps of a workspace keep of a target that they do not work on.
LEMMA OthersKept ==
  ASSUME WorkspaceInv, InForce', NEW f \in Files, f \notin disturbed',
         f \notin disturbed, saved'[f] = saved[f], applied'[f] = applied[f],
         \A i \in DOMAIN checkpoints : checkpoints'[i] = checkpoints[i]
  PROVE  Chained(f)' /\ Settled(f)' = Settled(f)
<1>1. /\ applied \in [Files -> Seq(1 .. MaxCheckpoints)]
      /\ \A n \in DOMAIN applied[f] : applied[f][n] \in DOMAIN checkpoints
      /\ Chained(f)
  BY DEF WorkspaceInv, W!TypeOK, InForce
<1>2. /\ DOMAIN applied[f] = 1 .. Len(applied[f]) /\ Len(applied[f]) \in Nat
      /\ applied[f] # <<>> => Len(applied[f]) \in DOMAIN applied[f]
  BY <1>1, LenProperties, EmptySeq
<1>3. \A n \in DOMAIN applied[f] : checkpoints'[applied[f][n]] = checkpoints[applied[f][n]]
  BY <1>1
<1>4. \A n \in DOMAIN applied[f] : n # 1 => n - 1 \in DOMAIN applied[f]
  BY <1>2
<1>5. Settled(f)' = Settled(f)
  BY <1>2, <1>3 DEF Settled
<1>6. ASSUME NEW n \in DOMAIN applied[f] PROVE Before(f, n)' = Before(f, n)
  BY <1>3, <1>4 DEF Before
<1>7. Chained(f)'
  BY <1>1, <1>3, <1>6 DEF Chained
<1> QED
  BY <1>5, <1>7

LEMMA OpTyped ==
  ASSUME WorkspaceInv, op # None
  PROVE  /\ op \in W!Operation /\ op.cp \in W!Checkpoint /\ op.cp.target \in Files
         /\ op.cp.pre \in W!Content /\ op.cp.post \in W!Content /\ op.cp.backup \in W!Content
  BY DEF WorkspaceInv, W!TypeOK, W!Operation, W!Checkpoint

LEMMA ProgressKept ==
  ASSUME WorkspaceInv, UNCHANGED <<saved, checkpoints, applied, disturbed>>
  PROVE  /\ InForce' /\ Len(checkpoints') <= MaxCheckpoints
         /\ \A f \in Files \ disturbed : Chained(f)' /\ Settled(f)' = Settled(f)
<1>1. InForce'
  BY DEF WorkspaceInv, InForce
<1>2. ASSUME NEW f \in Files \ disturbed PROVE Chained(f)' /\ Settled(f)' = Settled(f)
  BY <1>1, OthersKept
<1> QED
  BY <1>1, <1>2 DEF InForce

LEMMA AtWork ==
  ASSUME WorkspaceInv, op # None, NEW t \in Files \ disturbed, t = op.cp.target,
         UNCHANGED <<saved, checkpoints, applied, disturbed>>
  PROVE  UnderWay(t) /\ Settled(t)' = Settled(t)
  BY ProgressKept DEF WorkspaceInv

\* A step of the operation in progress, which stays on its target.
LEMMA OperationStep ==
  ASSUME WorkspaceInv, UNCHANGED <<saved, checkpoints, applied, disturbed, edits>>,
         op # None, NEW t \in Files, t = op.cp.target,
         op' # None, op' \in W!Operation, op'.cp.target = t,
         Mutating' => Mutating,
         file' \in [Files -> W!Content], workspace' \in W!WorkspaceStatus,
         \A f \in Files : f # t => file'[f] = file[f],
         t \notin disturbed => UnderWay(t)'
  PROVE  WorkspaceInv'
<1>1. W!TypeOK'
  BY DEF WorkspaceInv, W!TypeOK
<1>2. ASSUME NEW f \in Files \ disturbed
      PROVE  Chained(f)' /\ IF op' # None /\ op'.cp.target = f THEN UnderWay(f)' ELSE file'[f] = Settled(f)'
  BY ProgressKept DEF WorkspaceInv
<1> QED
  BY <1>1, <1>2, ProgressKept DEF WorkspaceInv, Mutating

\* An operation that ends and leaves its target as it is.
LEMMA OperationEnds ==
  ASSUME WorkspaceInv, UNCHANGED <<file, saved, checkpoints, applied, disturbed, edits>>,
         op # None, op' = None, workspace' \in W!WorkspaceStatus,
         op.cp.target \notin disturbed => file[op.cp.target] = Settled(op.cp.target)
  PROVE  WorkspaceInv'
<1>1. W!TypeOK'
  BY DEF WorkspaceInv, W!TypeOK
<1>2. ASSUME NEW f \in Files \ disturbed PROVE Chained(f)' /\ file'[f] = Settled(f)'
  BY ProgressKept DEF WorkspaceInv
<1> QED
  BY <1>1, <1>2, ProgressKept DEF WorkspaceInv, Mutating

LEMMA StageStep ==
  ASSUME WorkspaceInv, NEW kind \in W!Kinds, NEW f \in Files, NEW v \in W!Content, W!Stage(kind, f, v)
  PROVE  WorkspaceInv'
<1> DEFINE cp == [kind |-> kind, target |-> f, pre |-> file[f], post |-> v, backup |-> file[f]]
           o == [step |-> IF file[f] = None THEN "check" ELSE "read", index |-> 0, cp |-> cp]
<1>1. /\ op = None /\ op' = o /\ Len(checkpoints) < MaxCheckpoints /\ workspace' = "staging"
      /\ UNCHANGED <<file, saved, checkpoints, applied, disturbed, edits>>
  BY DEF W!Stage
<1>2. cp \in W!Checkpoint /\ file[f] \in W!Content
  BY DEF WorkspaceInv, W!TypeOK, W!Checkpoint
<1>3. o \in W!Operation /\ o.step \in {"read", "check"} /\ o.cp = cp
  BY <1>2, BoundsAssumption DEF W!Operation
<1>4. cp.target = f /\ cp.pre = file[f] /\ cp.backup = file[f]
  OBVIOUS
<1> HIDE DEF cp, o
<1>5. W!TypeOK'
  BY <1>1, <1>3 DEF WorkspaceInv, W!TypeOK, W!WorkspaceStatus
<1>6. ASSUME NEW g \in Files \ disturbed
      PROVE  Chained(g)' /\ IF op' # None /\ op'.cp.target = g THEN UnderWay(g)' ELSE file'[g] = Settled(g)'
  <2>1. file[g] = Settled(g) /\ Settled(g)' = Settled(g) /\ Chained(g)'
    BY <1>1, ProgressKept DEF WorkspaceInv
  <2>2. CASE g = f
    BY <1>1, <1>3, <1>4, <2>1, <2>2 DEF UnderWay
  <2> QED
    BY <1>1, <1>3, <1>4, <2>1, <2>2
<1> QED
  BY <1>1, <1>5, <1>6, ProgressKept DEF WorkspaceInv

LEMMA ReadAgainStep == ASSUME WorkspaceInv, W!ReadAgain PROVE WorkspaceInv'
<1>0. PICK t \in Files : t = op.cp.target
  BY OpTyped DEF W!ReadAgain
<1> USE <1>0
<1>1. /\ op # None /\ op.step = "read" /\ t \in Files /\ op \in W!Operation /\ file[t] \in W!Content
      /\ UNCHANGED <<file, saved, checkpoints, applied, disturbed, edits>>
      /\ workspace' \in W!WorkspaceStatus /\ file' \in [Files -> W!Content]
  BY OpTyped DEF W!ReadAgain, WorkspaceInv, W!TypeOK, W!WorkspaceStatus
<1>2. /\ op' \in W!Operation /\ op'.step = "check"
      /\ IF op.cp.kind = "write" THEN op'.cp = [op.cp EXCEPT !.pre = file[t]]
                                ELSE op'.cp = [op.cp EXCEPT !.backup = file[t]]
  <2>1. ASSUME NEW x \in W!Content
        PROVE  /\ [op EXCEPT !.step = "check", !.cp.pre = x] \in W!Operation
               /\ [op EXCEPT !.step = "check", !.cp.pre = x].step = "check"
               /\ [op EXCEPT !.step = "check", !.cp.pre = x].cp = [op.cp EXCEPT !.pre = x]
               /\ [op EXCEPT !.step = "check", !.cp.backup = x] \in W!Operation
               /\ [op EXCEPT !.step = "check", !.cp.backup = x].step = "check"
               /\ [op EXCEPT !.step = "check", !.cp.backup = x].cp = [op.cp EXCEPT !.backup = x]
    BY <1>1 DEF W!Operation, W!Checkpoint
  <2> QED
    BY <1>1, <2>1 DEF W!ReadAgain
<1>3. /\ op'.cp.target = t
      /\ op.cp.kind = "write" => op'.cp.backup = op.cp.backup
      /\ op.cp.kind # "write" => op'.cp.backup = file[t]
  BY <1>1, <1>2, OpTyped DEF W!Checkpoint
<1>4. op' # None
  BY <1>2, NoneAssumption
<1>5. Mutating
  BY <1>1 DEF Mutating
<1>6. t \notin disturbed => UnderWay(t)'
  <2> SUFFICES ASSUME t \notin disturbed PROVE UnderWay(t)'
    OBVIOUS
  <2>1. /\ op.cp.kind = "write" => op.cp.backup = Settled(t)
        /\ file[t] = Settled(t) /\ Settled(t)' = Settled(t)
    BY <1>1, AtWork DEF UnderWay
  <2> QED
    BY <1>1, <1>2, <1>3, <2>1 DEF UnderWay
<1> QED
  BY <1>1, <1>2, <1>3, <1>4, <1>5, <1>6, OperationStep

LEMMA CheckStep == ASSUME WorkspaceInv, W!CheckTarget PROVE WorkspaceInv'
<1>0. PICK t \in Files : t = op.cp.target
  BY OpTyped DEF W!CheckTarget
<1> USE <1>0
<1>1. /\ op # None /\ op.step = "check" /\ t \in Files /\ op \in W!Operation
      /\ UNCHANGED <<file, saved, checkpoints, applied, disturbed, edits>>
      /\ workspace' \in W!WorkspaceStatus /\ file' \in [Files -> W!Content]
  BY OpTyped DEF W!CheckTarget, WorkspaceInv, W!TypeOK, W!WorkspaceStatus
<1>2. t \notin disturbed =>
        /\ op.cp.pre = Settled(t) => op.cp.backup = Settled(t)
        /\ file[t] = Settled(t) /\ Settled(t)' = Settled(t)
  BY <1>1, AtWork DEF UnderWay
<1>3. CASE W!AsStaged(op.cp)
  <2>0. file[t] = op.cp.pre
    BY <1>3 DEF W!AsStaged
  <2>1. /\ op' \in W!Operation /\ op'.step = "mutate" /\ op'.cp = op.cp
    BY <1>1, <1>3 DEF W!Operation, W!CheckTarget
  <2>2. Mutating /\ op' # None
    BY <1>1, <2>1, NoneAssumption DEF Mutating
  <2>3. t \notin disturbed => UnderWay(t)'
    BY <1>1, <1>2, <2>0, <2>1 DEF UnderWay
  <2> QED
    BY <1>1, <2>1, <2>2, <2>3, OperationStep
<1>4. CASE ~W!AsStaged(op.cp)
  <2>1. op' = None
    BY <1>4 DEF W!CheckTarget
  <2> QED
    BY <1>1, <1>2, <2>1, OperationEnds
<1> QED
  BY <1>3, <1>4

LEMMA MutateStep == ASSUME WorkspaceInv, W!Mutate PROVE WorkspaceInv'
<1>0. PICK t \in Files : t = op.cp.target
  BY OpTyped DEF W!Mutate
<1> USE <1>0
<1>1. /\ op # None /\ op.step = "mutate" /\ t \in Files /\ op \in W!Operation
      /\ UNCHANGED <<saved, checkpoints, applied, disturbed, edits>>
      /\ workspace' \in W!WorkspaceStatus /\ file' = [file EXCEPT ![t] = op.cp.post]
      /\ file \in [Files -> W!Content] /\ op.cp.post \in W!Content
  BY OpTyped DEF W!Mutate, WorkspaceInv, W!TypeOK, W!WorkspaceStatus
<1>2. /\ file' \in [Files -> W!Content] /\ file'[t] = op.cp.post
      /\ \A f \in Files : f # t => file'[f] = file[f]
  BY <1>1
<1>3. t \notin disturbed =>
        op.cp.pre = Settled(t) /\ op.cp.backup = Settled(t) /\ Settled(t)' = Settled(t)
  BY <1>1, AtWork DEF UnderWay
<1>4. op' \in W!Operation /\ op'.step = "verify" /\ op'.cp = op.cp
  BY <1>1 DEF W!Operation, W!Mutate
<1>5. Mutating /\ op' # None
  BY <1>1, <1>4, NoneAssumption DEF Mutating
<1>6. t \notin disturbed => UnderWay(t)'
  BY <1>2, <1>3, <1>4 DEF UnderWay
<1> QED
  BY <1>1, <1>2, <1>4, <1>5, <1>6, OperationStep

\* The checkpoint of a mutation that is as it was to be joins those in force.
LEMMA VerifyStep == ASSUME WorkspaceInv, W!VerifyTarget PROVE WorkspaceInv'
<1>0. PICK t \in Files : t = op.cp.target
  BY OpTyped DEF W!VerifyTarget
<1> USE <1>0
<1>00. PICK n \in Nat : n = Len(checkpoints) + 1
  BY LenProperties DEF WorkspaceInv, W!TypeOK
<1> USE <1>00
<1>1. /\ op # None /\ op.step = "verify" /\ t \in Files /\ op \in W!Operation
      /\ UNCHANGED <<file, saved, disturbed, edits>> /\ op.cp \in W!Checkpoint
      /\ workspace' \in W!WorkspaceStatus /\ file' \in [Files -> W!Content]
      /\ checkpoints \in Seq(W!Checkpoint) /\ applied \in [Files -> Seq(1 .. MaxCheckpoints)]
      /\ Len(checkpoints) < MaxCheckpoints /\ InForce
  BY OpTyped DEF W!VerifyTarget, WorkspaceInv, W!TypeOK, W!WorkspaceStatus, Mutating
<1>2. t \notin disturbed =>
        op.cp.pre = Settled(t) /\ op.cp.backup = Settled(t) /\ file[t] = op.cp.post
  BY <1>1 DEF WorkspaceInv, UnderWay
<1>3. CASE file[t] # op.cp.post
  <2>1. /\ op' \in W!Operation /\ op'.step = "restore" /\ op'.cp = op.cp
        /\ UNCHANGED <<checkpoints, applied>>
    BY <1>1, <1>3 DEF W!Operation, W!VerifyTarget
  <2>2. t \in disturbed /\ op' # None /\ ~Mutating'
    BY <1>2, <1>3, <2>1, NoneAssumption DEF Mutating
  <2> QED
    BY <1>1, <2>1, <2>2, OperationStep
<1>4. CASE file[t] = op.cp.post
  <2>1. /\ checkpoints' = Append(checkpoints, op.cp) /\ op' = None
        /\ applied' = [applied EXCEPT ![t] = Append(@, n)]
    BY <1>1, <1>4 DEF W!VerifyTarget
  <2>2. Len(checkpoints) \in Nat /\ n \in 1 .. MaxCheckpoints /\ applied[t] \in Seq(1 .. MaxCheckpoints)
        /\ DOMAIN checkpoints = 1 .. Len(checkpoints)
    BY <1>1, BoundsAssumption, LenProperties
  <2>3. /\ checkpoints' \in Seq(W!Checkpoint) /\ Len(checkpoints') = n
        /\ DOMAIN checkpoints' = 1 .. n
        /\ \A i \in DOMAIN checkpoints : checkpoints'[i] = checkpoints[i]
        /\ checkpoints'[n] = op.cp
    BY <1>1, <2>1, <2>2, AppendProperties, LenProperties
  <2>21. PICK before \in Seq(1 .. MaxCheckpoints) : before = applied[t]
    BY <2>2
  <2>22. PICK k \in Nat : k = Len(before) + 1
    BY LenProperties
  <2>23. PICK after \in Seq(1 .. MaxCheckpoints) : after = Append(before, n)
    BY <2>2, AppendProperties
  <2> USE <2>21, <2>22
  <2>4. /\ Len(before) \in Nat /\ DOMAIN before = 1 .. Len(before)
        /\ after \in Seq(1 .. MaxCheckpoints) /\ after # <<>> /\ Len(after) = k
        /\ DOMAIN after = 1 .. k /\ after[k] = n
        /\ \A i \in DOMAIN before : after[i] = before[i]
    BY <1>00, <2>2, <2>21, <2>22, <2>23, AppendProperties, LenProperties
  <2>5. applied'[t] = after /\ \A f \in Files : f # t => applied'[f] = applied[f]
    BY <1>1, <2>1, <2>21, <2>23
  <2>6. applied' \in [Files -> Seq(1 .. MaxCheckpoints)]
    BY <1>1, <2>1, <2>21, <2>23
  <2>7. DOMAIN checkpoints \subseteq DOMAIN checkpoints' /\ n \in DOMAIN checkpoints'
    BY <2>2, <2>3
  <2>8. InForce'
    <3>1. ASSUME NEW f \in Files, NEW i \in DOMAIN applied'[f]
          PROVE  applied'[f][i] \in DOMAIN checkpoints'
      <4>1. CASE f = t
        <5>1. i \in 1 .. k /\ applied'[f][i] = after[i]
          BY <2>4, <2>5, <3>1, <4>1
        <5>2. CASE i = k
          BY <2>4, <2>7, <5>1, <5>2
        <5>3. CASE i # k
          <6>1. i \in DOMAIN before /\ after[i] = before[i]
            BY <2>4, <5>1, <5>3
          <6>2. before[i] \in DOMAIN checkpoints
            BY <1>1, <6>1 DEF InForce
          <6> QED
            BY <2>7, <5>1, <6>1, <6>2
        <5> QED
          BY <5>2, <5>3
      <4>2. CASE f # t
        BY <1>1, <2>5, <2>7, <3>1, <4>2 DEF InForce
      <4> QED
        BY <4>1, <4>2
    <3> QED
      BY <2>2, <2>3, <3>1 DEF InForce
  <2>9. ASSUME t \notin disturbed PROVE Chained(t)' /\ file'[t] = Settled(t)'
    <3>1. Settled(t)' = op.cp.post
      BY <2>3, <2>4, <2>5 DEF Settled
    <3>2. Chained(t) /\ \A i \in DOMAIN before : before[i] \in DOMAIN checkpoints
      BY <1>1, <2>9 DEF WorkspaceInv, InForce
    <3>3. ASSUME NEW i \in 1 .. k
          PROVE  LET cp == checkpoints'[after[i]] IN cp.pre = Before(t, i)' /\ cp.backup = cp.pre
      <4>1. CASE i = k
        <5>1. Before(t, k)' = Settled(t)
          <6>1. CASE k = 1
            <7>1. before = <<>>
              BY <2>2, <2>4, <6>1, EmptySeq
            <7> QED
              BY <1>1, <6>1, <7>1 DEF Before, Settled
          <6>2. CASE k # 1
            <7>1. before # <<>> /\ k - 1 \in DOMAIN before /\ k - 1 = Len(before)
              BY <2>4, <6>2
            <7>2. Before(t, k)' = checkpoints'[before[k - 1]].post
              BY <2>4, <2>5, <6>2, <7>1 DEF Before
            <7>3. checkpoints'[before[k - 1]] = checkpoints[before[k - 1]]
              BY <2>3, <3>2, <7>1
            <7>4. Settled(t) = checkpoints[before[k - 1]].post
              BY <7>1 DEF Settled
            <7> QED
              BY <7>2, <7>3, <7>4
          <6> QED
            BY <6>1, <6>2
        <5> QED
          BY <1>2, <2>3, <2>4, <2>9, <4>1, <5>1
      <4>2. CASE i # k
        <5>1. i \in DOMAIN before /\ (i # 1 => i - 1 \in DOMAIN before)
          BY <2>4, <4>2
        <5>2. Before(t, i)' = Before(t, i)
          <6>1. CASE i = 1
            BY <1>1, <6>1 DEF Before
          <6>2. CASE i # 1
            <7>1. Before(t, i)' = checkpoints'[before[i - 1]].post
              BY <2>4, <2>5, <5>1, <6>2 DEF Before
            <7>2. checkpoints'[before[i - 1]] = checkpoints[before[i - 1]]
              BY <2>3, <3>2, <5>1, <6>2
            <7> QED
              BY <6>2, <7>1, <7>2 DEF Before
          <6> QED
            BY <6>1, <6>2
        <5>3. after[i] = before[i] /\ checkpoints'[before[i]] = checkpoints[before[i]]
          BY <2>3, <2>4, <3>2, <5>1
        <5>4. LET cp == checkpoints[before[i]] IN cp.pre = Before(t, i) /\ cp.backup = cp.pre
          BY <3>2, <5>1 DEF Chained
        <5> QED
          BY <5>2, <5>3, <5>4
      <4> QED
        BY <4>1, <4>2
    <3>4. Chained(t)'
      BY <2>4, <2>5, <3>3 DEF Chained
    <3> QED
      BY <1>1, <1>4, <3>1, <3>4
  <2>10. ASSUME NEW f \in Files \ disturbed PROVE Chained(f)' /\ file'[f] = Settled(f)'
    <3>1. CASE f = t
      BY <2>9, <3>1
    <3>2. CASE f # t
      <4>1. Chained(f)' /\ Settled(f)' = Settled(f)
        BY <1>1, <2>3, <2>5, <2>8, <3>2, OthersKept
      <4> QED
        BY <1>1, <3>2, <4>1 DEF WorkspaceInv
    <3> QED
      BY <3>1, <3>2
  <2>11. W!TypeOK'
    BY <1>1, <2>1, <2>3, <2>6 DEF WorkspaceInv, W!TypeOK
  <2> QED
    BY <1>1, <2>1, <2>8, <2>10, <2>11 DEF WorkspaceInv, Mutating
<1> QED
  BY <1>3, <1>4

\* A rollback takes the newest checkpoint in force out of force, or disturbs its target.
LEMMA RollBackStep ==
  ASSUME WorkspaceInv, NEW i \in 1 .. Len(checkpoints), W!RollBack(i)
  PROVE  WorkspaceInv'
<1> DEFINE newest(f) == applied[f] # <<>> /\ applied[f][Len(applied[f])] = i
<1>1. /\ op = None /\ UNCHANGED <<file, saved, checkpoints, edits>>
      /\ op' = [step |-> "restore", cp |-> checkpoints[i], index |-> i]
      /\ checkpoints \in Seq(W!Checkpoint) /\ applied \in [Files -> Seq(1 .. MaxCheckpoints)]
      /\ InForce /\ workspace' \in W!WorkspaceStatus /\ disturbed \subseteq Files
  BY DEF W!RollBack, WorkspaceInv, W!TypeOK, W!WorkspaceStatus
<1>2. /\ Len(checkpoints) \in Nat /\ DOMAIN checkpoints = 1 .. Len(checkpoints)
      /\ Len(checkpoints) <= MaxCheckpoints /\ checkpoints[i] \in W!Checkpoint
  BY <1>1, LenProperties, ElementOfSeq DEF InForce
<1>3. PICK t \in Files : t = checkpoints[i].target
  BY <1>2 DEF W!Checkpoint
<1> USE <1>3
<1>4. /\ op' \in W!Operation /\ op' # None /\ op'.cp = checkpoints[i] /\ op'.step = "restore"
      /\ ~Mutating'
  <2>1. i \in 0 .. MaxCheckpoints
    BY <1>2, BoundsAssumption
  <2>2. op' \in W!Operation
    BY <1>1, <1>2, <2>1 DEF W!Operation
  <2> QED
    BY <1>1, <2>2, NoneAssumption DEF Mutating
<1>5. /\ newest(t) => /\ applied' = [applied EXCEPT ![t] = SubSeq(@, 1, Len(@) - 1)]
                      /\ disturbed' = disturbed
      /\ ~newest(t) => applied' = applied /\ disturbed' = disturbed \cup {t}
  BY DEF W!RollBack
<1>6. PICK before \in Seq(1 .. MaxCheckpoints), k \in Nat : before = applied[t] /\ k = Len(before)
  BY <1>1, LenProperties
<1> USE <1>6
<1>7. PICK after \in Seq(1 .. MaxCheckpoints) :
        /\ applied'[t] = after /\ applied' \in [Files -> Seq(1 .. MaxCheckpoints)]
        /\ \A f \in Files : f # t => applied'[f] = applied[f]
        /\ DOMAIN before = 1 .. k
        /\ newest(t) => /\ k \in DOMAIN before /\ before[k] = i /\ Len(after) = k - 1
                        /\ DOMAIN after = 1 .. k - 1
                        /\ \A n \in 1 .. k - 1 : after[n] = before[n]
        /\ ~newest(t) => after = before
  <2>1. DOMAIN before = 1 .. k /\ \A n \in 1 .. k : before[n] \in 1 .. MaxCheckpoints
    BY LenProperties, ElementOfSeq
  <2>2. CASE newest(t)
    <3>1. k \in DOMAIN before /\ before[k] = i
      BY <2>1, <2>2, EmptySeq
    <3> DEFINE front == SubSeq(before, 1, k - 1)
    <3>2. /\ front \in Seq(1 .. MaxCheckpoints) /\ Len(front) = k - 1
          /\ \A n \in 1 .. k - 1 : front[n] = before[n]
      <4>1. k - 1 \in Nat /\ \A n \in 1 .. k - 1 : before[n] \in 1 .. MaxCheckpoints
        BY <2>1, <3>1
      <4>2. \A m \in Nat : (\A n \in 1 .. m : before[n] \in 1 .. MaxCheckpoints) =>
              /\ SubSeq(before, 1, m) \in Seq(1 .. MaxCheckpoints) /\ Len(SubSeq(before, 1, m)) = m
              /\ \A n \in 1 .. m : SubSeq(before, 1, m)[n] = before[n]
        BY SubSeqProperties
      <4> QED
        BY <4>1, <4>2
    <3>21. PICK after \in Seq(1 .. MaxCheckpoints) : after = front
      BY <3>2
    <3>3. /\ Len(after) = k - 1 /\ \A n \in 1 .. k - 1 : after[n] = before[n]
      BY <3>2, <3>21
    <3>4. DOMAIN after = 1 .. k - 1
      BY <3>3, LenProperties
    <3>5. /\ applied'[t] = after /\ applied' \in [Files -> Seq(1 .. MaxCheckpoints)]
          /\ \A f \in Files : f # t => applied'[f] = applied[f]
      BY <1>1, <1>5, <2>2, <3>21
    <3> QED
      BY <2>1, <2>2, <3>1, <3>3, <3>4, <3>5
  <2>3. CASE ~newest(t)
    BY <1>1, <1>5, <2>1, <2>3
  <2> QED
    BY <2>2, <2>3
<1> HIDE DEF newest
<1>8. InForce'
  <2>1. ASSUME NEW f \in Files, NEW n \in DOMAIN applied'[f]
        PROVE  n \in DOMAIN applied[f] /\ applied'[f][n] = applied[f][n]
    <3>1. CASE f = t /\ newest(t)
      <4>1. n \in 1 .. k - 1
        BY <1>7, <2>1, <3>1
      <4> QED
        BY <1>7, <3>1, <4>1
    <3> QED
      BY <1>7, <2>1, <3>1
  <2> QED
    BY <1>1, <2>1 DEF InForce
<1>9. ASSUME NEW f \in Files \ disturbed', f # t
      PROVE  Chained(f)' /\ file'[f] = Settled(f)'
  <2>1. f \notin disturbed
    BY <1>5
  <2>2. Chained(f)' /\ Settled(f)' = Settled(f)
    BY <1>1, <1>7, <1>8, <1>9, <2>1, OthersKept
  <2> QED
    BY <1>1, <1>9, <2>1, <2>2 DEF WorkspaceInv
<1>10. ASSUME t \notin disturbed' PROVE Chained(t)' /\ UnderWay(t)'
  <2>1. newest(t) /\ t \notin disturbed
    BY <1>5, <1>10
  <2>2. Chained(t) /\ \A n \in 1 .. k : before[n] \in DOMAIN checkpoints
    BY <1>1, <1>7, <2>1 DEF WorkspaceInv, InForce
  <2>3. ASSUME NEW n \in 1 .. k PROVE Before(t, n)' = Before(t, n)
    <3>1. CASE n = 1
      BY <1>1, <3>1 DEF Before
    <3>2. CASE n # 1
      <4>1. n - 1 \in 1 .. k - 1
        BY <3>2
      <4> QED
        BY <1>1, <1>7, <2>1, <3>2, <4>1 DEF Before
    <3> QED
      BY <3>1, <3>2
  <2>4. ASSUME NEW n \in 1 .. k
        PROVE  checkpoints[before[n]].pre = Before(t, n) /\ checkpoints[before[n]].backup = Before(t, n)
    BY <1>7, <2>2 DEF Chained
  <2>5. Chained(t)'
    <3>1. ASSUME NEW n \in 1 .. k - 1
          PROVE  LET cp == checkpoints'[after[n]] IN cp.pre = Before(t, n)' /\ cp.backup = cp.pre
      <4>1. n \in 1 .. k /\ after[n] = before[n]
        BY <1>7, <2>1
      <4>2. /\ checkpoints[before[n]].pre = Before(t, n)' /\ checkpoints[before[n]].backup = Before(t, n)'
        BY <2>3, <2>4, <4>1
      <4> QED
        BY <1>1, <4>1, <4>2
    <3> QED
      BY <1>7, <2>1, <3>1 DEF Chained
  <2>6. Settled(t)' = Before(t, k)
    <3>1. CASE k = 1
      <4>1. after = <<>>
        BY <1>7, <2>1, <3>1, EmptySeq
      <4> QED
        BY <1>1, <1>7, <3>1, <4>1 DEF Settled, Before
    <3>2. CASE k # 1
      <4>1. after # <<>> /\ Len(after) = k - 1 /\ after[k - 1] = before[k - 1] /\ k - 1 \in 1 .. k
        <5>1. k - 1 \in Nat \ {0}
          BY <1>7, <2>1, <3>2
        <5> HIDE <1>6
        <5>2. k - 1 \in 1 .. k - 1 /\ k - 1 \in 1 .. k
          BY <5>1
        <5>3. Len(after) = k - 1 /\ after[k - 1] = before[k - 1]
          BY <1>7, <2>1, <5>2
        <5> QED
          BY <5>1, <5>2, <5>3, EmptySeq
      <4> QED
        BY <1>1, <1>7, <3>2, <4>1 DEF Settled, Before
    <3> QED
      BY <3>1, <3>2
  <2>7. W!RestoredTo(checkpoints[i]) = Before(t, k)
    BY <1>7, <2>1, <2>4 DEF W!RestoredTo
  <2> QED
    BY <1>4, <2>5, <2>6, <2>7 DEF UnderWay, W!RestoredTo
<1>11. W!TypeOK'
  BY <1>1, <1>4, <1>5, <1>7 DEF WorkspaceInv, W!TypeOK
<1>12. ASSUME NEW f \in Files \ disturbed'
       PROVE  Chained(f)' /\ IF op' # None /\ op'.cp.target = f THEN UnderWay(f)' ELSE file'[f] = Settled(f)'
  BY <1>4, <1>9, <1>10
<1> QED
  BY <1>4, <1>8, <1>11, <1>12 DEF WorkspaceInv

LEMMA RestoreStep == ASSUME WorkspaceInv, W!Restore PROVE WorkspaceInv'
<1>0. PICK t \in Files : t = op.cp.target
  BY OpTyped DEF W!Restore
<1> USE <1>0
<1>1. /\ op # None /\ op.step = "restore" /\ op \in W!Operation
      /\ UNCHANGED <<saved, checkpoints, applied, disturbed, edits>>
      /\ workspace' \in W!WorkspaceStatus /\ file' = [file EXCEPT ![t] = W!RestoredTo(op.cp)]
      /\ file \in [Files -> W!Content] /\ W!RestoredTo(op.cp) \in W!Content
  BY OpTyped DEF W!Restore, WorkspaceInv, W!TypeOK, W!WorkspaceStatus, W!RestoredTo, W!Content
<1>2. /\ file' \in [Files -> W!Content] /\ file'[t] = W!RestoredTo(op.cp)
      /\ \A f \in Files : f # t => file'[f] = file[f]
  BY <1>1
<1>3. op' \in W!Operation /\ op'.step = "restored" /\ op'.cp = op.cp
  BY <1>1 DEF W!Restore, W!Operation
<1>4. op' # None /\ ~Mutating'
  BY <1>3, NoneAssumption DEF Mutating
<1>5. t \notin disturbed => UnderWay(t)'
  <2> SUFFICES ASSUME t \notin disturbed PROVE UnderWay(t)'
    OBVIOUS
  <2>1. W!RestoredTo(op.cp) = Settled(t) /\ Settled(t)' = Settled(t)
    BY <1>1, AtWork DEF UnderWay
  <2> QED
    BY <1>2, <1>3, <2>1 DEF UnderWay
<1> QED
  BY <1>1, <1>2, <1>3, <1>4, <1>5, OperationStep

\* What others save in the midst of a change disturbs its target; what they save
\* before it is found to be as staged, or while nothing is in progress on it, is what
\* the checkpoints to come are made from.
LEMMA ForeignStep ==
  ASSUME WorkspaceInv, NEW f \in Files, NEW v \in Contents, W!ForeignEdit(f, v)
  PROVE  WorkspaceInv'
<1>1. /\ edits < MaxEdits /\ edits' = edits + 1
      /\ file' = [file EXCEPT ![f] = v] /\ UNCHANGED <<op, checkpoints, workspace>>
      /\ W!InMidst(f) => disturbed' = disturbed \cup {f} /\ UNCHANGED <<saved, applied>>
      /\ ~W!InMidst(f) => /\ disturbed' = disturbed \ {f} /\ saved' = [saved EXCEPT ![f] = v]
                         /\ applied' = [applied EXCEPT ![f] = <<>>]
  BY DEF W!ForeignEdit
<1>2. W!TypeOK /\ InForce /\ v \in W!Content
  BY DEF WorkspaceInv, W!Content
<1>3. <<>> \in Seq(1 .. MaxCheckpoints) /\ DOMAIN <<>> = {}
  BY EmptySeq
<1>4. /\ \A g \in Files : g # f => applied'[g] = applied[g] /\ saved'[g] = saved[g]
      /\ ~W!InMidst(f) => applied'[f] = <<>> /\ saved'[f] = v
      /\ file'[f] = v /\ \A g \in Files : g # f => file'[g] = file[g]
  BY <1>1, <1>2 DEF W!TypeOK
<1>5. W!TypeOK'
  <2>1. file' \in [Files -> W!Content] /\ edits' \in 0 .. MaxEdits
    BY <1>1, <1>2, BoundsAssumption DEF W!TypeOK
  <2>2. /\ saved' \in [Files -> W!Content] /\ disturbed' \subseteq Files
        /\ applied' \in [Files -> Seq(1 .. MaxCheckpoints)]
    BY <1>1, <1>2, <1>3 DEF W!TypeOK
  <2> QED
    BY <1>1, <1>2, <2>1, <2>2 DEF W!TypeOK
<1>6. InForce' /\ (Mutating' => Len(checkpoints') < MaxCheckpoints)
  <2>1. \A g \in Files : applied'[g] = applied[g] \/ applied'[g] = <<>>
    BY <1>1, <1>4
  <2> QED
    BY <1>1, <1>2, <1>3, <2>1 DEF InForce, Mutating, WorkspaceInv
<1>7. ASSUME NEW g \in Files \ disturbed'
      PROVE  Chained(g)' /\ IF op' # None /\ op'.cp.target = g THEN UnderWay(g)' ELSE file'[g] = Settled(g)'
  <2>1. CASE g # f
    <3>1. g \notin disturbed
      BY <1>1, <2>1
    <3>2. Chained(g)' /\ Settled(g)' = Settled(g)
      BY <1>1, <1>4, <1>6, <2>1, <3>1, OthersKept
    <3> QED
      BY <1>1, <1>4, <2>1, <3>1, <3>2 DEF WorkspaceInv, UnderWay
  <2>2. CASE g = f
    <3>1. ~W!InMidst(f) /\ applied'[f] = <<>> /\ saved'[f] = v /\ file'[f] = v
      BY <1>1, <1>4, <2>2
    <3>2. Chained(f)' /\ Settled(f)' = v
      BY <1>3, <3>1 DEF Chained, Settled
    <3>3. op # None /\ op.cp.target = f => UnderWay(f)'
      BY <1>1, <3>1, <3>2 DEF W!InMidst, UnderWay
    <3> QED
      BY <1>1, <2>2, <3>1, <3>2, <3>3
  <2> QED
    BY <2>1, <2>2
<1> QED
  BY <1>5, <1>6, <1>7 DEF WorkspaceInv

LEMMA WorkspaceStep == WorkspaceInv /\ [W!Next]_(W!vars) => WorkspaceInv'
<1> SUFFICES ASSUME WorkspaceInv, [W!Next]_(W!vars) PROVE WorkspaceInv'
  OBVIOUS
<1>1. CASE W!VerifyRestored
  <2>1. PICK t \in Files : t = op.cp.target
    BY <1>1, OpTyped DEF W!VerifyRestored
  <2>2. /\ op # None /\ op' = None /\ op.step = "restored" /\ workspace' \in W!WorkspaceStatus
        /\ UNCHANGED <<file, saved, checkpoints, applied, disturbed, edits>>
    BY <1>1 DEF W!VerifyRestored, W!WorkspaceStatus
  <2>3. t \notin disturbed => file[t] = Settled(t)
    BY <2>1, <2>2, AtWork DEF UnderWay
  <2> QED
    BY <2>1, <2>2, <2>3, OperationEnds
<1>2. CASE UNCHANGED W!vars
  <2>1. UNCHANGED <<file, saved, op, checkpoints, workspace, applied, disturbed, edits>>
    BY <1>2 DEF W!vars
  <2>2. W!TypeOK' /\ (Mutating' => Len(checkpoints') < MaxCheckpoints)
    BY <2>1 DEF WorkspaceInv, W!TypeOK, Mutating
  <2>3. ASSUME NEW f \in Files \ disturbed
        PROVE  Chained(f)' /\ IF op' # None /\ op'.cp.target = f THEN UnderWay(f)' ELSE file'[f] = Settled(f)'
    BY <2>1, ProgressKept DEF WorkspaceInv, UnderWay
  <2> QED
    BY <2>1, <2>2, <2>3, ProgressKept DEF WorkspaceInv
<1> QED
  BY <1>1, <1>2, ForeignStep, StageStep, ReadAgainStep, CheckStep, MutateStep, VerifyStep, RollBackStep,
     RestoreStep DEF W!Next

LEMMA WorkspaceInit == W!Init => WorkspaceInv
<1> SUFFICES ASSUME W!Init PROVE WorkspaceInv
  OBVIOUS
<1>1. /\ file \in [Files -> W!Content] /\ saved = file /\ op = None /\ checkpoints = <<>>
      /\ workspace = "ready" /\ applied = [f \in Files |-> <<>>] /\ disturbed = {} /\ edits = 0
  BY DEF W!Init
<1>2. Len(checkpoints) = 0 /\ checkpoints \in Seq(W!Checkpoint)
  BY <1>1, EmptySeq
<1>3. ASSUME NEW f \in Files
      PROVE  applied[f] = <<>> /\ DOMAIN applied[f] = {} /\ applied[f] \in Seq(1 .. MaxCheckpoints)
  BY <1>1, EmptySeq
<1>4. W!TypeOK
  BY <1>1, <1>2, <1>3, BoundsAssumption DEF W!TypeOK, W!WorkspaceStatus
<1>5. InForce
  BY <1>2, <1>3, BoundsAssumption DEF InForce
<1> QED
  BY <1>1, <1>3, <1>4, <1>5 DEF WorkspaceInv, Chained, Settled, Mutating

\* A target is what its last checkpoint in force made of it, and what others last saved
\* when there is none: a refused mutation and an undone one leave that
\* (workspace.py:274-277 and 326-377, ADR-0008).
THEOREM WorkspaceHolds == W!Spec => [](W!TypeOK /\ W!UndoneContentIsBack)
<1>1. WorkspaceInv => W!TypeOK /\ W!UndoneContentIsBack
  BY DEF WorkspaceInv, W!UndoneContentIsBack, Settled
<1> QED
  BY <1>1, WorkspaceInit, WorkspaceStep, PTL DEF W!Spec

-----------------------------------------------------------------------------
(* The durable rows of a mission.  A row is never deleted and every update    *)
(* gives it a version it never had, so a row a recovery knows is the row that *)
(* is there, or an older one.                                                 *)

\* What the open transaction of a scheduler read of its lease, and a recovery of the missions.
LeaseReads == [mission : Missions, row : D!MissionSchedulerLeaseORM \cup {None}]
RowsOf(ms) == [ms -> D!MissionORM]
RecoveryReads == [fenced : SUBSET Agents, seen : UNION {RowsOf(ms) : ms \in SUBSET Missions}]

SessionsTyped ==
  /\ leaseRead \in [Schedulers -> LeaseReads \cup {None}]
  /\ recovery \in [Schedulers -> RecoveryReads \cup {None}]

Older(old, new) ==
  /\ old.mission_version <= new.mission_version
  /\ old.mission_version = new.mission_version => old = new

SeenIsOlder ==
  \A s \in Schedulers : recovery[s] # None =>
    \A m \in DOMAIN recovery[s].seen : mission[m] # None /\ Older(recovery[s].seen[m], mission[m])

MissionsInv == D!TypeOK /\ SessionsTyped /\ SeenIsOlder

LEMMA SeenTyped ==
  ASSUME MissionsInv, NEW s \in Schedulers, recovery[s] # None
  PROVE  /\ recovery[s] \in RecoveryReads /\ recovery[s].fenced \subseteq Agents
         /\ DOMAIN recovery[s].seen \subseteq Missions
         /\ \A m \in DOMAIN recovery[s].seen : recovery[s].seen[m] \in D!MissionORM
<1>1. recovery[s] \in RecoveryReads
  BY DEF MissionsInv, SessionsTyped
<1>2. recovery[s].fenced \subseteq Agents /\ recovery[s].seen \in UNION {RowsOf(ms) : ms \in SUBSET Missions}
  BY <1>1 DEF RecoveryReads
<1>3. PICK ms \in SUBSET Missions : recovery[s].seen \in RowsOf(ms)
  BY <1>2
<1> QED
  BY <1>1, <1>2, <1>3 DEF RowsOf

LEMMA SessionsAreTyped == ASSUME MissionsInv PROVE D!TypeOK /\ SessionsTyped /\ SeenIsOlder
  BY DEF MissionsInv

\* D!TypeOK says of the sessions what SessionsTyped says and less.
LEMMA MissionsTyped ==
  ASSUME SessionsTyped
  PROVE  \A s \in Schedulers :
           /\ leaseRead[s] # None => leaseRead[s].row \in D!MissionSchedulerLeaseORM \cup {None}
           /\ recovery[s] # None => recovery[s].fenced \subseteq Agents
  BY DEF SessionsTyped, LeaseReads, RecoveryReads

\* An update by version, of one row, seen by nobody before.
LEMMA UpdateStep ==
  ASSUME MissionsInv, NEW m \in Missions, NEW x \in D!MissionORM,
         mission' = [mission EXCEPT ![m] = x],
         mission[m] # None => x.mission_version > mission[m].mission_version,
         wakeup' \in [Wakeups -> D!WakeupStatus],
         read' \in [Clients -> [Missions -> D!MissionORM \cup {None}]], x # None,
         UNCHANGED <<contracted, overdue, agentLease, lease, leaseRead, recovery>>
  PROVE  MissionsInv'
<1>1. D!TypeOK' /\ SessionsTyped'
  BY DEF MissionsInv, D!TypeOK, SessionsTyped
<1>2. ASSUME NEW s \in Schedulers, recovery[s] # None, NEW n \in DOMAIN recovery[s].seen
      PROVE  mission'[n] # None /\ Older(recovery[s].seen[n], mission'[n])
  <2>1. /\ n \in Missions /\ recovery[s].seen[n] \in D!MissionORM
        /\ mission[n] # None /\ Older(recovery[s].seen[n], mission[n])
        /\ mission[n] \in D!MissionORM
    BY <1>2, SeenTyped DEF MissionsInv, SeenIsOlder, D!TypeOK
  <2>2. CASE n = m
    BY <2>1, <2>2 DEF MissionsInv, D!TypeOK, Older, D!MissionORM
  <2>3. CASE n # m
    BY <2>1, <2>3 DEF MissionsInv, D!TypeOK
  <2> QED
    BY <2>2, <2>3
<1> QED
  BY <1>1, <1>2 DEF MissionsInv, SeenIsOlder

LEMMA ReadTyped ==
  ASSUME MissionsInv, NEW c \in Clients, NEW m \in Missions, NEW x \in D!MissionORM \cup {None}
  PROVE  [read EXCEPT ![c][m] = x] \in [Clients -> [Missions -> D!MissionORM \cup {None}]]
  BY DEF MissionsInv, D!TypeOK

LEMMA ClientUpdates ==
  ASSUME MissionsInv, NEW c \in Clients, NEW m \in Missions, NEW status \in D!MissionStatus,
         D!UpdateMissionStatusWithVersion(c, m, status),
         wakeup' \in [Wakeups -> D!WakeupStatus],
         UNCHANGED <<contracted, overdue, agentLease, lease, leaseRead, recovery>>
  PROVE  MissionsInv'
<1>1. /\ read[c][m] \in D!MissionORM /\ read[c][m].mission_version \in Nat
      /\ mission[m] # None /\ mission[m].mission_version = read[c][m].mission_version
  BY DEF MissionsInv, D!TypeOK, D!UpdateMissionStatusWithVersion, D!AtVersion, D!MissionORM
<1>2. PICK n \in Nat : n = read[c][m].mission_version
  BY <1>1
<1>3. PICK x : x = [status |-> status, mission_version |-> n + 1]
  OBVIOUS
<1>4. x \in D!MissionORM /\ x # None /\ x.mission_version > mission[m].mission_version
  BY <1>1, <1>2, <1>3, NoneAssumption DEF D!MissionORM
<1>5. mission' = [mission EXCEPT ![m] = x] /\ read' = [read EXCEPT ![c][m] = x]
  BY <1>2, <1>3 DEF D!UpdateMissionStatusWithVersion, D!Updated
<1> QED
  BY <1>4, <1>5, ReadTyped, UpdateStep

LEMMA PostStep == ASSUME MissionsInv, NEW m \in Missions, D!PostMission(m) PROVE MissionsInv'
<1>1. PICK x : x = [status |-> "READY", mission_version |-> 1]
  OBVIOUS
<1>2. x \in D!MissionORM /\ x # None
  BY <1>1, NoneAssumption DEF D!MissionORM, D!MissionStatus
<1>3. /\ mission[m] = None /\ mission' = [mission EXCEPT ![m] = x]
      /\ UNCHANGED <<contracted, wakeup, overdue, agentLease, lease, read, leaseRead, recovery>>
  BY <1>1 DEF D!PostMission, D!CreateMission, D!sessions
<1>4. wakeup \in [Wakeups -> D!WakeupStatus] /\ read \in [Clients -> [Missions -> D!MissionORM \cup {None}]]
  BY DEF MissionsInv, D!TypeOK
<1> QED
  BY <1>2, <1>3, <1>4, UpdateStep

\* A step that leaves the missions and the recoveries as they are.
LEMMA MissionsKept ==
  ASSUME MissionsInv, UNCHANGED <<mission, contracted, recovery>>,
         overdue' \subseteq Wakeups, wakeup' \in [Wakeups -> D!WakeupStatus],
         agentLease' \in [Agents -> D!AgentLeaseORM],
         lease' \in [Missions -> D!MissionSchedulerLeaseORM \cup {None}],
         read' \in [Clients -> [Missions -> D!MissionORM \cup {None}]],
         leaseRead' \in [Schedulers -> LeaseReads \cup {None}]
  PROVE  MissionsInv'
<1>1. SessionsTyped' /\ D!TypeOK'
  BY MissionsTyped DEF MissionsInv, D!TypeOK, SessionsTyped, LeaseReads
<1>2. SeenIsOlder'
  BY DEF MissionsInv, SeenIsOlder
<1> QED
  BY <1>1, <1>2 DEF MissionsInv

\* The types that a step of this kind leaves alone.
LEMMA RowsTyped ==
  ASSUME MissionsInv
  PROVE  /\ overdue \subseteq Wakeups /\ wakeup \in [Wakeups -> D!WakeupStatus]
         /\ agentLease \in [Agents -> D!AgentLeaseORM]
         /\ lease \in [Missions -> D!MissionSchedulerLeaseORM \cup {None}]
         /\ read \in [Clients -> [Missions -> D!MissionORM \cup {None}]]
         /\ mission \in [Missions -> D!MissionORM \cup {None}]
         /\ leaseRead \in [Schedulers -> LeaseReads \cup {None}]
  BY DEF MissionsInv, D!TypeOK, SessionsTyped

LEMMA GetStep ==
  ASSUME MissionsInv, NEW c \in Clients, NEW m \in Missions, D!GetMission(c, m) PROVE MissionsInv'
<1>1. mission[m] \in D!MissionORM \cup {None}
  BY RowsTyped
<1>2. read' \in [Clients -> [Missions -> D!MissionORM \cup {None}]]
  BY <1>1, ReadTyped DEF D!GetMission
<1> QED
  BY <1>2, RowsTyped, MissionsKept DEF D!GetMission, D!rows

LEMMA DueStep == ASSUME MissionsInv, NEW w \in Wakeups, D!WakeupDue(w) PROVE MissionsInv'
  BY RowsTyped, MissionsKept DEF D!WakeupDue, D!sessions

LEMMA AgentLeaseStep ==
  ASSUME MissionsInv, NEW s \in Schedulers, NEW a \in Agents, D!SaveAgentLease(s, a) PROVE MissionsInv'
<1>1. PICK x : x = [status |-> "ACTIVE", kernel_epoch |-> EpochOf[s]]
  OBVIOUS
<1>2. x \in D!AgentLeaseORM
  BY <1>1, MissionsAssumption DEF D!ConstantsAssumption, D!AgentLeaseORM
<1>3. agentLease' \in [Agents -> D!AgentLeaseORM]
  BY <1>1, <1>2, RowsTyped DEF D!SaveAgentLease
<1> QED
  BY <1>3, RowsTyped, MissionsKept DEF D!SaveAgentLease, D!sessions

LEMMA LeaseReadStep ==
  ASSUME MissionsInv, NEW s \in Schedulers, NEW m \in Missions, D!LeaseRead(s, m) PROVE MissionsInv'
<1>1. PICK x : x = [mission |-> m, row |-> lease[m]]
  OBVIOUS
<1>2. x \in LeaseReads
  BY <1>1, RowsTyped DEF LeaseReads
<1>3. leaseRead' \in [Schedulers -> LeaseReads \cup {None}]
  BY <1>1, <1>2, RowsTyped DEF D!LeaseRead
<1> QED
  BY <1>3, RowsTyped, MissionsKept DEF D!LeaseRead, D!rows

LEMMA FlushedTyped ==
  ASSUME NEW s \in Schedulers, NEW x \in D!MissionSchedulerLeaseORM, NEW y \in D!MissionSchedulerLeaseORM
  PROVE  D!Flushed(s, x, y) \in D!MissionSchedulerLeaseORM
  BY MissionsAssumption DEF D!ConstantsAssumption, D!Flushed, D!MissionSchedulerLeaseORM

LEMMA LeaseWriteStep == ASSUME MissionsInv, NEW s \in Schedulers, D!LeaseWrite(s) PROVE MissionsInv'
<1>1. leaseRead[s] \in LeaseReads
  BY RowsTyped DEF D!LeaseWrite
<1>2. PICK m \in Missions, old \in D!MissionSchedulerLeaseORM \cup {None} :
        m = leaseRead[s].mission /\ old = leaseRead[s].row
  BY <1>1 DEF LeaseReads
<1>3. PICK x : /\ x = IF (old = None) # (lease[m] = None) THEN lease[m]
                      ELSE IF old = None
                      THEN [scheduler_instance_id |-> s, kernel_epoch |-> EpochOf[s], lease_generation |-> 1]
                      ELSE D!Flushed(s, old, lease[m])
  OBVIOUS
<1>4. lease' = [lease EXCEPT ![m] = x]
  BY <1>2, <1>3, RowsTyped DEF D!LeaseWrite
<1>5. [scheduler_instance_id |-> s, kernel_epoch |-> EpochOf[s], lease_generation |-> 1]
        \in D!MissionSchedulerLeaseORM
  BY MissionsAssumption DEF D!ConstantsAssumption, D!MissionSchedulerLeaseORM
<1>6. x \in D!MissionSchedulerLeaseORM \cup {None}
  BY <1>3, <1>5, RowsTyped, FlushedTyped
<1>7. lease' \in [Missions -> D!MissionSchedulerLeaseORM \cup {None}]
  BY <1>4, <1>6, RowsTyped
<1>8. leaseRead' = [leaseRead EXCEPT ![s] = None]
  BY DEF D!LeaseWrite
<1>9. leaseRead' \in [Schedulers -> LeaseReads \cup {None}]
  BY <1>8, RowsTyped
<1> QED
  BY <1>7, <1>9, RowsTyped, MissionsKept DEF D!LeaseWrite

LEMMA ReleaseStep == ASSUME MissionsInv, NEW m \in Missions, D!ReleaseLease(m) PROVE MissionsInv'
<1>1. lease' \in [Missions -> D!MissionSchedulerLeaseORM \cup {None}]
  BY RowsTyped DEF D!ReleaseLease
<1> QED
  BY <1>1, RowsTyped, MissionsKept DEF D!ReleaseLease, D!sessions

\* What a recovery reads when it begins is what is there.
LEMMA RecoverBeginStep == ASSUME MissionsInv, NEW s \in Schedulers, D!RecoverBegin(s) PROVE MissionsInv'
<1>1. PICK known, gone : known = D!ActiveMissions /\ gone = D!StaleAgents(s)
  OBVIOUS
<1>2. known \subseteq Missions /\ gone \subseteq Agents /\ \A m \in known : mission[m] \in D!MissionORM
  BY <1>1, RowsTyped DEF D!ActiveMissions, D!StaleAgents
<1>3. PICK seen : seen = [m \in known |-> mission[m]]
  OBVIOUS
<1>4. seen \in RowsOf(known)
  BY <1>2, <1>3 DEF RowsOf
<1>5. [fenced |-> gone, seen |-> seen] \in RecoveryReads
  BY <1>2, <1>4 DEF RecoveryReads
<1>6. PICK x \in RecoveryReads : x = [fenced |-> gone, seen |-> seen]
  BY <1>5
<1>7. recovery' = [recovery EXCEPT ![s] = x] /\ UNCHANGED <<mission, contracted, wakeup, overdue, agentLease, lease, read, leaseRead>>
  BY <1>1, <1>3, <1>6 DEF D!RecoverBegin, D!rows
<1>8. SessionsTyped'
  BY <1>7 DEF MissionsInv, SessionsTyped
<1>9. D!TypeOK'
  BY <1>7, <1>8, MissionsTyped, RowsTyped DEF MissionsInv, D!TypeOK, SessionsTyped, LeaseReads, RecoveryReads
<1>10. ASSUME NEW z \in Schedulers, recovery'[z] # None, NEW m \in DOMAIN recovery'[z].seen
       PROVE  mission'[m] # None /\ Older(recovery'[z].seen[m], mission'[m])
  <2>1. CASE z = s
    <3>1. recovery'[z].seen = seen
      BY <1>6, <1>7, <2>1 DEF MissionsInv, SessionsTyped
    <3>2. m \in known /\ seen[m] = mission[m]
      BY <1>3, <1>10, <3>1
    <3>3. mission[m] # None /\ mission[m].mission_version \in Nat
      BY <1>1, <1>2, <3>2 DEF D!ActiveMissions, D!MissionORM
    <3> QED
      BY <1>7, <3>1, <3>2, <3>3 DEF Older
  <2>2. CASE z # s
    BY <1>7, <1>10, <2>2 DEF MissionsInv, SessionsTyped, SeenIsOlder
  <2> QED
    BY <2>1, <2>2
<1> QED
  BY <1>8, <1>9, <1>10 DEF MissionsInv, SeenIsOlder

LEMMA DieStep == ASSUME MissionsInv, NEW s \in Schedulers, D!SchedulerDies(s) PROVE MissionsInv'
<1>1. /\ leaseRead' = [leaseRead EXCEPT ![s] = None] /\ recovery' = [recovery EXCEPT ![s] = None]
      /\ UNCHANGED <<mission, contracted, wakeup, overdue, agentLease, lease, read>>
  BY DEF D!SchedulerDies, D!rows
<1>2. SessionsTyped'
  BY <1>1 DEF MissionsInv, SessionsTyped
<1>3. D!TypeOK'
  BY <1>1, <1>2 DEF MissionsInv, D!TypeOK, SessionsTyped, LeaseReads, RecoveryReads
<1>4. ASSUME NEW z \in Schedulers, recovery'[z] # None, NEW m \in DOMAIN recovery'[z].seen
      PROVE  mission'[m] # None /\ Older(recovery'[z].seen[m], mission'[m])
  <2>1. recovery[z] # None /\ recovery'[z] = recovery[z]
    BY <1>1, <1>4 DEF MissionsInv, SessionsTyped
  <2> QED
    BY <1>1, <1>4, <2>1 DEF MissionsInv, SeenIsOlder
<1> QED
  BY <1>2, <1>3, <1>4 DEF MissionsInv, SeenIsOlder

\* What a recovery leaves of the rows it knows: all as it was, or those that were not
\* written meanwhile moved to versions they never had.  It makes a mission ACTIVE only
\* when it sleeps, its contract is there or it appeared meanwhile, and its wakeup fires.
Resumes(s, m) ==
  mission[m].status = "WAITING_EXTERNAL" /\ D!MayResume(s, m) /\ D!FiredBy(m) # {}

LEMMA RecoveredRow ==
  ASSUME NEW m \in Missions, NEW x \in D!MissionORM, NEW fired
  PROVE  LET y == D!Recovered(m, x, fired) IN
         /\ y \in D!MissionORM
         /\ y # x => /\ y.mission_version > x.mission_version
                     /\ y.status = "ACTIVE" => /\ x.status = "WAITING_EXTERNAL" /\ m \in contracted
                                               /\ \E w \in fired : WakeupOf[w] = m
<1>1. PICK n \in Nat, status \in D!MissionStatus : n = x.mission_version /\ status = x.status
  BY DEF D!MissionORM
<1>2. ASSUME NEW k \in Nat, NEW t \in D!MissionStatus
      PROVE  /\ D!Updated(k, t) \in D!MissionORM /\ D!Updated(k, t).mission_version = k + 1
             /\ D!Updated(k, t).status = t
  BY DEF D!Updated, D!MissionORM
<1>3. {"BLOCKED", "ACTIVE", "WAITING_EXTERNAL"} \subseteq D!MissionStatus
  BY DEF D!MissionStatus
<1>4. PICK blocked : blocked = IF m \in contracted \/ x.status \notin D!ActiveStatuses THEN x
                               ELSE D!Updated(n, "BLOCKED")
  OBVIOUS
<1>5. /\ blocked \in D!MissionORM /\ blocked.mission_version \in Nat /\ blocked.mission_version >= n
      /\ blocked # x => blocked.status = "BLOCKED" /\ blocked.mission_version > n
      /\ x.status = "WAITING_EXTERNAL" /\ blocked = x => m \in contracted
  BY <1>1, <1>2, <1>3, <1>4 DEF D!ActiveStatuses, D!MissionORM
<1>6. D!Recovered(m, x, fired) =
        IF (\E w \in fired : WakeupOf[w] = m) /\ blocked.status = "WAITING_EXTERNAL"
        THEN D!Updated(blocked.mission_version, "ACTIVE") ELSE blocked
  BY <1>1, <1>4 DEF D!Recovered, D!Sleeps
<1>7. CASE (\E w \in fired : WakeupOf[w] = m) /\ blocked.status = "WAITING_EXTERNAL"
  <2>1. blocked = x
    BY <1>5, <1>7
  <2> QED
    BY <1>1, <1>2, <1>3, <1>5, <1>6, <1>7, <2>1
<1>8. CASE ~ ((\E w \in fired : WakeupOf[w] = m) /\ blocked.status = "WAITING_EXTERNAL")
  BY <1>1, <1>5, <1>6, <1>8
<1> QED
  BY <1>7, <1>8

LEMMA RecoveryWrites ==
  ASSUME MissionsInv, NEW s \in Schedulers, D!RecoverEnd(s), NEW m \in Missions, mission'[m] # mission[m]
  PROVE  /\ mission[m] # None /\ mission'[m] \in D!MissionORM
         /\ mission'[m].mission_version > mission[m].mission_version
         /\ mission'[m].status = "ACTIVE" => Resumes(s, m)
<1>1. PICK seen, fired : seen = recovery[s].seen /\ fired = D!OverdueWakeups
  OBVIOUS
<1>2. PICK known : known = {n \in Missions : mission[n] # None}
  OBVIOUS
<1>3. PICK old : old = [n \in known |-> IF n \in DOMAIN seen THEN seen[n] ELSE mission[n]]
  OBVIOUS
<1>4. PICK after : after = [n \in known |->
        IF n \in DOMAIN seen THEN D!Recovered(n, old[n], fired)
        ELSE IF D!Sleeps(old[n]) /\ \E w \in fired : WakeupOf[w] = n
        THEN D!Updated(old[n].mission_version, "ACTIVE") ELSE old[n]]
  OBVIOUS
<1>5. PICK written : written = {n \in known : after[n] # old[n]}
  OBVIOUS
<1>6. IF \A n \in written : D!AtVersion(mission[n], old[n].mission_version)
      THEN /\ mission' = [n \in Missions |-> IF n \in written THEN after[n] ELSE mission[n]]
           /\ D!FireWakeups(fired)
      ELSE mission' = mission
  BY <1>1, <1>2, <1>3, <1>4, <1>5 DEF D!RecoverEnd
<1>7. /\ m \in known /\ after[m] # old[m] /\ mission'[m] = after[m]
      /\ mission[m].mission_version = old[m].mission_version /\ D!FireWakeups(fired)
  BY <1>5, <1>6 DEF D!AtVersion
<1>8. /\ mission[m] # None /\ mission[m] \in D!MissionORM /\ recovery[s] # None
  BY <1>2, <1>7, RowsTyped DEF D!RecoverEnd
<1>9. old[m] = mission[m]
  <2>1. CASE m \in DOMAIN seen
    BY <1>1, <1>3, <1>7, <1>8, <2>1 DEF MissionsInv, SeenIsOlder, Older
  <2>2. CASE m \notin DOMAIN seen
    BY <1>3, <1>7, <2>2
  <2> QED
    BY <2>1, <2>2
<1>10. \A w \in fired : w \in Wakeups /\ wakeup[w] = "PENDING" /\ wakeup'[w] = "FIRED"
  BY <1>1, <1>7, RowsTyped DEF D!OverdueWakeups, D!FireWakeups
<1>11. CASE m \in DOMAIN seen
  <2>1. mission'[m] = D!Recovered(m, mission[m], fired)
    BY <1>4, <1>7, <1>9, <1>11
  <2>2. mission'[m] # mission[m]
    OBVIOUS
  <2> QED
    BY <1>8, <1>10, <2>1, <2>2, RecoveredRow DEF Resumes, D!MayResume, D!FiredBy
<1>12. CASE m \notin DOMAIN seen
  <2>1. /\ mission[m].status = "WAITING_EXTERNAL" /\ \E w \in fired : WakeupOf[w] = m
        /\ mission'[m] = D!Updated(mission[m].mission_version, "ACTIVE")
    BY <1>4, <1>7, <1>9, <1>12 DEF D!Sleeps
  <2>2. PICK n \in Nat : n = mission[m].mission_version
    BY <1>8 DEF D!MissionORM
  <2>3. mission'[m] = [status |-> "ACTIVE", mission_version |-> n + 1]
    BY <2>1, <2>2 DEF D!Updated
  <2>4. mission'[m] \in D!MissionORM
    BY <2>3 DEF D!MissionORM, D!MissionStatus
  <2> QED
    BY <1>1, <1>8, <1>10, <1>12, <2>1, <2>2, <2>3, <2>4 DEF Resumes, D!MayResume, D!FiredBy
<1> QED
  BY <1>11, <1>12

\* A wakeup fired for a mission that sleeps, for all the recovery knows, resumes it.
LEMMA FiredResumes ==
  ASSUME MissionsInv, NEW s \in Schedulers, D!RecoverEnd(s), NEW m \in Missions, mission[m] # None,
         D!FiredBy(m) # {}, D!Known(s, m).status = "WAITING_EXTERNAL", D!MayResume(s, m)
  PROVE  mission'[m].status = "ACTIVE"
<1>1. PICK seen, fired : seen = recovery[s].seen /\ fired = D!OverdueWakeups
  OBVIOUS
<1>2. PICK known : known = {n \in Missions : mission[n] # None}
  OBVIOUS
<1>3. PICK old : old = [n \in known |-> IF n \in DOMAIN seen THEN seen[n] ELSE mission[n]]
  OBVIOUS
<1>4. PICK after : after = [n \in known |->
        IF n \in DOMAIN seen THEN D!Recovered(n, old[n], fired)
        ELSE IF D!Sleeps(old[n]) /\ \E w \in fired : WakeupOf[w] = n
        THEN D!Updated(old[n].mission_version, "ACTIVE") ELSE old[n]]
  OBVIOUS
<1>5. PICK written : written = {n \in known : after[n] # old[n]}
  OBVIOUS
<1>6. IF \A n \in written : D!AtVersion(mission[n], old[n].mission_version)
      THEN /\ mission' = [n \in Missions |-> IF n \in written THEN after[n] ELSE mission[n]]
           /\ D!FireWakeups(fired)
      ELSE mission' = mission /\ wakeup' = wakeup
  BY <1>1, <1>2, <1>3, <1>4, <1>5 DEF D!RecoverEnd
<1>7. PICK w \in Wakeups : WakeupOf[w] = m /\ wakeup[w] = "PENDING" /\ wakeup'[w] = "FIRED"
  BY DEF D!FiredBy
<1>8. /\ mission' = [n \in Missions |-> IF n \in written THEN after[n] ELSE mission[n]]
      /\ w \in fired
  BY <1>6, <1>7 DEF D!FireWakeups
<1>9. m \in known /\ old[m] = D!Known(s, m) /\ D!Sleeps(old[m])
  BY <1>1, <1>2, <1>3 DEF D!Known, D!Sleeps
<1>10. after[m] = D!Updated(old[m].mission_version, "ACTIVE")
  <2>1. CASE m \in DOMAIN seen
    <3>1. m \in contracted
      BY <1>1, <2>1 DEF D!MayResume
    <3> QED
      BY <1>4, <1>7, <1>8, <1>9, <2>1, <3>1 DEF D!Recovered
  <2>2. CASE m \notin DOMAIN seen
    BY <1>4, <1>7, <1>8, <1>9, <2>2
  <2> QED
    BY <2>1, <2>2
<1>11. after[m].status = "ACTIVE"
  BY <1>10 DEF D!Updated
<1>12. m \in written
  BY <1>5, <1>9, <1>11 DEF D!Sleeps
<1> QED
  BY <1>8, <1>11, <1>12

LEMMA RecoverEndStep == ASSUME MissionsInv, NEW s \in Schedulers, D!RecoverEnd(s) PROVE MissionsInv'
<1>1. /\ recovery' = [recovery EXCEPT ![s] = None]
      /\ UNCHANGED <<contracted, overdue, lease, read, leaseRead>>
  BY DEF D!RecoverEnd
<1>2. PICK seen, fired : seen = recovery[s].seen /\ fired = D!OverdueWakeups
  OBVIOUS
<1>3. PICK known : known = {n \in Missions : mission[n] # None}
  OBVIOUS
<1>4. PICK old : old = [n \in known |-> IF n \in DOMAIN seen THEN seen[n] ELSE mission[n]]
  OBVIOUS
<1>5. PICK after : after = [n \in known |->
        IF n \in DOMAIN seen THEN D!Recovered(n, old[n], fired)
        ELSE IF D!Sleeps(old[n]) /\ \E w \in fired : WakeupOf[w] = n
        THEN D!Updated(old[n].mission_version, "ACTIVE") ELSE old[n]]
  OBVIOUS
<1>6. PICK written : written = {n \in known : after[n] # old[n]}
  OBVIOUS
<1>7. IF \A n \in written : D!AtVersion(mission[n], old[n].mission_version)
      THEN /\ mission' = [n \in Missions |-> IF n \in written THEN after[n] ELSE mission[n]]
           /\ D!FireWakeups(fired) /\ D!FenceStaleLeases(recovery[s].fenced)
      ELSE UNCHANGED <<mission, wakeup, agentLease>>
  BY <1>2, <1>3, <1>4, <1>5, <1>6 DEF D!RecoverEnd
<1>8. mission' \in [Missions -> D!MissionORM \cup {None}]
  <2>1. \A m \in Missions : mission'[m] \in D!MissionORM \cup {None}
    BY RecoveryWrites, RowsTyped
  <2> QED
    BY <1>7, <2>1, RowsTyped
<1>9. wakeup' \in [Wakeups -> D!WakeupStatus]
  BY <1>7, RowsTyped DEF D!FireWakeups, D!WakeupStatus
<1>10. agentLease' \in [Agents -> D!AgentLeaseORM]
  <2>1. \A a \in Agents : [agentLease[a] EXCEPT !.status = "REVOKED"] \in D!AgentLeaseORM
    BY RowsTyped DEF D!AgentLeaseORM
  <2> QED
    BY <1>7, <2>1, RowsTyped DEF D!FenceStaleLeases
<1>11. SessionsTyped'
  BY <1>1 DEF MissionsInv, SessionsTyped
<1>12. D!TypeOK'
  BY <1>1, <1>8, <1>9, <1>10, <1>11 DEF MissionsInv, D!TypeOK, SessionsTyped, LeaseReads, RecoveryReads
<1>13. ASSUME NEW z \in Schedulers, recovery'[z] # None, NEW m \in DOMAIN recovery'[z].seen
      PROVE  mission'[m] # None /\ Older(recovery'[z].seen[m], mission'[m])
  <2>1. recovery[z] # None /\ recovery'[z] = recovery[z]
    BY <1>1, <1>13 DEF MissionsInv, SessionsTyped
  <2>2. /\ m \in Missions /\ recovery[z].seen[m] \in D!MissionORM
        /\ mission[m] # None /\ Older(recovery[z].seen[m], mission[m]) /\ mission[m] \in D!MissionORM
    BY <1>13, <2>1, SeenTyped, RowsTyped DEF MissionsInv, SeenIsOlder
  <2>3. mission'[m] = mission[m] \/ /\ mission'[m] \in D!MissionORM
                                    /\ mission'[m].mission_version > mission[m].mission_version
    BY <2>2, RecoveryWrites
  <2> QED
    BY <2>1, <2>2, <2>3, NoneAssumption DEF Older, D!MissionORM
<1> QED
  BY <1>11, <1>12, <1>13 DEF MissionsInv, SeenIsOlder

LEMMA MissionsStep == MissionsInv /\ [D!Next]_(D!vars) => MissionsInv'
<1> SUFFICES ASSUME MissionsInv, [D!Next]_(D!vars) PROVE MissionsInv'
  OBVIOUS
<1>1. /\ "PAUSED" \in D!MissionStatus /\ "ACTIVE" \in D!MissionStatus /\ "COMPLETED" \in D!MissionStatus
      /\ "WAITING_EXTERNAL" \in D!MissionStatus
  BY DEF D!MissionStatus
<1>2. ASSUME NEW c \in Clients, NEW m \in Missions, D!PauseMission(c, m) PROVE MissionsInv'
  BY <1>1, <1>2, RowsTyped, ClientUpdates DEF D!PauseMission
<1>3. ASSUME NEW c \in Clients, NEW m \in Missions, D!ResumeMission(c, m) PROVE MissionsInv'
  BY <1>1, <1>3, RowsTyped, ClientUpdates DEF D!ResumeMission
<1>4. ASSUME NEW c \in Clients, NEW m \in Missions, D!CompleteMission(c, m) PROVE MissionsInv'
  <2>1. wakeup' \in [Wakeups -> D!WakeupStatus]
    BY <1>4, RowsTyped DEF D!CompleteMission, D!CancelMissionWakeups, D!WakeupStatus
  <2> QED
    BY <1>1, <1>4, <2>1, ClientUpdates DEF D!CompleteMission
<1>5. ASSUME NEW c \in Clients, NEW w \in Wakeups, D!WaitExternal(c, w) PROVE MissionsInv'
  <2>1. wakeup' \in [Wakeups -> D!WakeupStatus]
    BY <1>5, RowsTyped DEF D!WaitExternal, D!ScheduleWakeup, D!WakeupStatus
  <2>2. WakeupOf[w] \in Missions
    BY MissionsAssumption DEF D!ConstantsAssumption
  <2>3. PICK m \in Missions : m = WakeupOf[w]
    BY <2>2
  <2>4. D!UpdateMissionStatusWithVersion(c, m, "WAITING_EXTERNAL")
    BY <1>5, <2>3 DEF D!WaitExternal
  <2>5. UNCHANGED <<contracted, overdue, agentLease, lease, leaseRead, recovery>>
    BY <1>5 DEF D!WaitExternal
  <2> QED
    BY <1>1, <2>1, <2>4, <2>5, ClientUpdates
<1>6. CASE UNCHANGED D!vars
  BY <1>6, RowsTyped, MissionsKept DEF D!vars, D!rows, D!sessions
<1> QED
  BY <1>2, <1>3, <1>4, <1>5, <1>6, GetStep, DueStep, PostStep, ReleaseStep, AgentLeaseStep, LeaseReadStep,
     LeaseWriteStep, RecoverBeginStep, RecoverEndStep, DieStep DEF D!Next

LEMMA MissionsInit == D!Init => MissionsInv
<1> SUFFICES ASSUME D!Init PROVE MissionsInv
  OBVIOUS
<1>1. SessionsTyped /\ SeenIsOlder
  BY DEF D!Init, SessionsTyped, SeenIsOlder
<1>2. D!TypeOK
  BY DEF D!Init, D!TypeOK, D!WakeupStatus, D!AgentLeaseORM
<1> QED
  BY <1>1, <1>2 DEF MissionsInv

\* What RecoveryResumesSleepers says of a step.
SleepersResumed ==
  \A s \in Schedulers, m \in Missions :
    recovery[s] # None /\ recovery'[s] = None /\ mission[m] # None =>
      /\ mission'[m] # mission[m] /\ mission'[m].status = "ACTIVE" => Resumes(s, m)
      /\ D!FiredBy(m) # {} /\ D!Known(s, m).status = "WAITING_EXTERNAL" /\ D!MayResume(s, m) =>
           mission'[m].status = "ACTIVE"

LEMMA SleepersStep == MissionsInv /\ [D!Next]_(D!vars) => SleepersResumed
<1> SUFFICES ASSUME MissionsInv, [D!Next]_(D!vars), NEW s \in Schedulers, NEW m \in Missions,
                    recovery[s] # None, recovery'[s] = None, mission[m] # None
             PROVE  /\ mission'[m] # mission[m] /\ mission'[m].status = "ACTIVE" => Resumes(s, m)
                    /\ D!FiredBy(m) # {} /\ D!Known(s, m).status = "WAITING_EXTERNAL" /\ D!MayResume(s, m) =>
                         mission'[m].status = "ACTIVE"
  BY DEF SleepersResumed
<1>1. ASSUME NEW z \in Schedulers, D!RecoverEnd(z) PROVE z = s
  BY <1>1 DEF MissionsInv, SessionsTyped, D!RecoverEnd
<1>2. ASSUME NEW z \in Schedulers, D!RecoverBegin(z) PROVE FALSE
  BY <1>2, NoneAssumption DEF D!RecoverBegin, D!rows, MissionsInv, SessionsTyped
<1>3. \/ UNCHANGED <<mission, wakeup>> \/ UNCHANGED recovery \/ \E z \in Schedulers : D!RecoverEnd(z)
  <2>1. CASE \E c \in Clients, n \in Missions :
               D!GetMission(c, n) \/ D!PauseMission(c, n) \/ D!ResumeMission(c, n) \/ D!CompleteMission(c, n)
    BY <2>1 DEF D!GetMission, D!PauseMission, D!ResumeMission, D!CompleteMission, D!rows
  <2>2. CASE \E c \in Clients, w \in Wakeups : D!WaitExternal(c, w)
    BY <2>2 DEF D!WaitExternal
  <2>3. CASE \E w \in Wakeups : D!WakeupDue(w)
    BY <2>3 DEF D!WakeupDue
  <2>4. CASE \E n \in Missions : D!PostMission(n) \/ D!ReleaseLease(n)
    BY <2>4 DEF D!PostMission, D!ReleaseLease, D!sessions
  <2>5. CASE \E z \in Schedulers :
               \/ \E a \in Agents : D!SaveAgentLease(z, a)
               \/ \E n \in Missions : D!LeaseRead(z, n)
               \/ D!LeaseWrite(z) \/ D!RecoverBegin(z) \/ D!RecoverEnd(z) \/ D!SchedulerDies(z)
    BY <1>2, <2>5 DEF D!SaveAgentLease, D!LeaseRead, D!LeaseWrite, D!SchedulerDies, D!rows, D!sessions
  <2>6. CASE UNCHANGED D!vars
    BY <2>6 DEF D!vars, D!rows
  <2> QED
    BY <2>1, <2>2, <2>3, <2>4, <2>5, <2>6 DEF D!Next
<1>4. CASE D!RecoverEnd(s)
  <2>1. mission'[m] # mission[m] /\ mission'[m].status = "ACTIVE" => Resumes(s, m)
    BY <1>4, RecoveryWrites
  <2>2. D!FiredBy(m) # {} /\ D!Known(s, m).status = "WAITING_EXTERNAL" /\ D!MayResume(s, m) =>
          mission'[m].status = "ACTIVE"
    BY <1>4, FiredResumes
  <2> QED
    BY <2>1, <2>2
<1>5. CASE UNCHANGED <<mission, wakeup>>
  <2>1. D!FiredBy(m) = {}
    BY <1>5 DEF D!FiredBy
  <2> QED
    BY <1>5, <2>1
<1> QED
  BY <1>1, <1>3, <1>4, <1>5

\* A recovery makes a mission ACTIVE only out of its sleep, whatever was committed
\* since the recovery read it, and fires no wakeup for nothing
\* (autonomy/recovery.py:53-88).
THEOREM RecoveryHolds == D!Spec => []D!TypeOK /\ D!RecoveryResumesSleepers
<1>1. MissionsInv => D!TypeOK
  BY DEF MissionsInv
<1>2. MissionsInv /\ [D!Next]_(D!vars) => [\A s \in Schedulers, m \in Missions :
       recovery[s] # None /\ recovery'[s] = None /\ mission[m] # None =>
         /\ mission'[m] # mission[m] /\ mission'[m].status = "ACTIVE" =>
              mission[m].status = "WAITING_EXTERNAL" /\ D!MayResume(s, m) /\ D!FiredBy(m) # {}
         /\ D!FiredBy(m) # {} /\ D!Known(s, m).status = "WAITING_EXTERNAL" /\ D!MayResume(s, m) =>
              mission'[m].status = "ACTIVE"]_(D!vars)
  BY SleepersStep DEF SleepersResumed, Resumes
<1> QED
  BY <1>1, <1>2, MissionsInit, MissionsStep, PTL DEF D!Spec, D!RecoveryResumesSleepers

-----------------------------------------------------------------------------
(* Alignment contracts.  A version that the operator did not authorize keeps  *)
(* what the version it amends says, so every set of versions that agree with  *)
(* a version, as far as they say anything, is closed under what it descends   *)
(* from.                                                                      *)

FollowsParent(c) ==
  ~contracts[c].operator =>
    /\ contracts[c].parent \in 1 .. Len(contracts)
    /\ L!Preserves(contracts[contracts[c].parent].constraints, contracts[c].constraints)

ContractsInv == L!TypeOK /\ \A c \in 1 .. Len(contracts) : FollowsParent(c)

LEMMA ProposeStep ==
  ASSUME ContractsInv, NEW ambiguous \in BOOLEAN, NEW requirements \in L!Clauses,
         L!Propose(ambiguous, requirements)
  PROVE  ContractsInv'
<1>1. PICK x : x = [version |-> 1, parent |-> 0, status |-> "active", constraints |-> L!Nothing,
                    requirements |-> requirements, ambiguous |-> FALSE, operator |-> TRUE]
  OBVIOUS
<1>2. x \in L!AlignmentContract /\ x.operator
  BY <1>1 DEF L!AlignmentContract, L!Clauses, L!Nothing
<1>3. contracts' = <<x>>
  BY <1>1 DEF L!Propose
<1>4. contracts' \in Seq(L!AlignmentContract) /\ Len(contracts') = 1 /\ contracts'[1] = x
  BY <1>2, <1>3
<1> QED
  BY <1>2, <1>4 DEF ContractsInv, L!TypeOK, FollowsParent

LEMMA AmendStep ==
  ASSUME ContractsInv, NEW c \in 1 .. Len(contracts), NEW constraints \in L!Clauses,
         NEW requirements \in L!Clauses, NEW ambiguous \in BOOLEAN, NEW authorized \in BOOLEAN,
         L!Amend(c, constraints, requirements, ambiguous, authorized)
  PROVE  ContractsInv'
<1>1. PICK x : x = [version |-> contracts[c].version + 1, parent |-> c, status |-> "draft",
                    constraints |-> constraints, requirements |-> requirements,
                    ambiguous |-> ambiguous, operator |-> authorized]
  OBVIOUS
<1>2. contracts \in Seq(L!AlignmentContract) /\ Len(contracts) \in Nat /\ contracts[c] \in L!AlignmentContract
  BY DEF ContractsInv, L!TypeOK
<1>3. contracts[c].version \in Nat
  BY <1>2 DEF L!AlignmentContract
<1>4. PICK n \in Nat : n = contracts[c].version + 1
  BY <1>3
<1>5. x \in L!AlignmentContract
  <2>1. x = [version |-> n, parent |-> c, status |-> "draft", constraints |-> constraints,
             requirements |-> requirements, ambiguous |-> ambiguous, operator |-> authorized]
    BY <1>1, <1>4
  <2> QED
    BY <1>2, <2>1 DEF L!AlignmentContract
<1>6. contracts' = Append(contracts, x)
  BY <1>1 DEF L!Amend
<1>7. /\ contracts' \in Seq(L!AlignmentContract) /\ Len(contracts') = Len(contracts) + 1
      /\ contracts'[Len(contracts) + 1] = x
      /\ \A i \in 1 .. Len(contracts) : contracts'[i] = contracts[i]
  BY <1>2, <1>5, <1>6
<1>8. ASSUME NEW i \in 1 .. Len(contracts') PROVE FollowsParent(i)'
  <2>1. CASE i \in 1 .. Len(contracts)
    BY <1>2, <1>7, <2>1 DEF ContractsInv, FollowsParent
  <2>2. CASE i = Len(contracts) + 1
    <3>1. contracts'[i] = x /\ x.parent = c /\ x.constraints = constraints /\ x.operator = authorized
      BY <1>1, <1>7, <2>2
    <3>2. authorized \/ L!Preserves(contracts[c].constraints, constraints)
      BY DEF L!Amend
    <3> QED
      BY <1>2, <1>7, <3>1, <3>2 DEF FollowsParent
  <2> QED
    BY <1>2, <1>7, <2>1, <2>2
<1> QED
  BY <1>7, <1>8 DEF ContractsInv, L!TypeOK

LEMMA ActivateStep ==
  ASSUME ContractsInv, NEW c \in 1 .. Len(contracts), L!Activate(c) PROVE ContractsInv'
<1>1. contracts \in Seq(L!AlignmentContract) /\ Len(contracts) \in Nat /\ contracts[c] \in L!AlignmentContract
  BY DEF ContractsInv, L!TypeOK
<1>2. PICK x : x = [contracts[c] EXCEPT !.status = "active"]
  OBVIOUS
<1>3. /\ x \in L!AlignmentContract /\ x.operator = contracts[c].operator
      /\ x.parent = contracts[c].parent /\ x.constraints = contracts[c].constraints
  BY <1>1, <1>2 DEF L!AlignmentContract
<1>4. contracts' = [contracts EXCEPT ![c] = x]
  BY <1>2 DEF L!Activate
<1>5. contracts' \in Seq(L!AlignmentContract) /\ Len(contracts') = Len(contracts)
  BY <1>1, <1>3, <1>4
<1>6. \A i \in 1 .. Len(contracts) :
        /\ contracts'[i].operator = contracts[i].operator /\ contracts'[i].parent = contracts[i].parent
        /\ contracts'[i].constraints = contracts[i].constraints
  BY <1>1, <1>3, <1>4
<1> QED
  BY <1>5, <1>6 DEF ContractsInv, L!TypeOK, FollowsParent

LEMMA ContractsStep == ContractsInv /\ [L!Next]_contracts => ContractsInv'
<1>1. ContractsInv /\ UNCHANGED contracts => ContractsInv'
  BY DEF ContractsInv, L!TypeOK, FollowsParent
<1> QED
  BY <1>1, ProposeStep, AmendStep, ActivateStep DEF L!Next

LEMMA ContractsInit == L!Init => ContractsInv
  BY DEF L!Init, ContractsInv, L!TypeOK

LEMMA DescentAgrees == ContractsInv => L!ConstraintsKept
<1> SUFFICES ASSUME ContractsInv, NEW c \in 1 .. Len(contracts), NEW a \in L!Unamended(c), NEW i \in Ids
             PROVE  contracts[a].constraints[i] \in {None, contracts[c].constraints[i]}
  BY DEF L!ConstraintsKept
<1> DEFINE agree == {x \in 1 .. Len(contracts) :
              \A j \in Ids : contracts[x].constraints[j] \in {None, contracts[c].constraints[j]}}
<1>1. c \in agree /\ agree \in SUBSET (1 .. Len(contracts))
  OBVIOUS
<1>2. ASSUME NEW x \in agree, ~contracts[x].operator PROVE contracts[x].parent \in agree
  BY <1>2 DEF ContractsInv, FollowsParent, L!Preserves
<1>3. a \in agree
  BY <1>1, <1>2 DEF L!Unamended
<1> QED
  BY <1>3

\* Along any chain of amendments that the operator did not authorize no constraint is
\* dropped, reworded or lost (alignment/engine.py).
THEOREM ContractsHold == L!Spec => [](L!TypeOK /\ L!ConstraintsKept)
<1>1. ContractsInv => L!TypeOK
  BY DEF ContractsInv
<1> QED
  BY <1>1, DescentAgrees, ContractsInit, ContractsStep, PTL DEF L!Spec

-----------------------------------------------------------------------------
(* Numbers, sets and sequences.                                               *)

\* The least-number principle: what is proved by it is proved by induction.
LEMMA LeastNumber ==
  ASSUME NEW T \in SUBSET Nat, T # {}
  PROVE  \E n \in T : \A m \in T : n <= m
<1> DEFINE below == {0 .. n : n \in T}
<1>1. \A n \in Nat : IsFiniteSet(0 .. n)
  BY FS_Interval
<1>2. \A n \in T : n \in Nat /\ (0 .. n) \in SUBSET Nat
  OBVIOUS
<1>3. \A b \in below : b \in FiniteSubsetsOf(Nat)
  BY <1>1, <1>2 DEF FiniteSubsetsOf
<1>4. below \subseteq FiniteSubsetsOf(Nat) /\ below # {}
  BY <1>3
<1>5. \E x \in below : \A y \in below : ~ (<<y, x>> \in StrictSubsetOrdering(Nat))
  <2> HIDE DEF below
  <2> QED
    BY <1>4, FS_StrictSubsetOrderingWellFounded, WFMin
<1>6. PICK n \in T : \A y \in below : ~ (<<y, 0 .. n>> \in StrictSubsetOrdering(Nat))
  BY <1>5
<1>7. ASSUME NEW m \in T, m < n PROVE FALSE
  <2>1. (0 .. m) \in below /\ (0 .. m) \in SUBSET Nat /\ (0 .. n) \in SUBSET Nat
    BY <1>2
  <2>2. (0 .. m) \subseteq (0 .. n) /\ n \in 0 .. n /\ n \notin 0 .. m
    BY <1>2, <1>7
  <2>3. <<0 .. m, 0 .. n>> \in StrictSubsetOrdering(Nat)
    BY <2>1, <2>2 DEF StrictSubsetOrdering
  <2> QED
    BY <1>6, <2>1, <2>3
<1> QED
  BY <1>2, <1>6, <1>7

\* A finite set of numbers has a largest.
LEMMA LargestNumber ==
  ASSUME NEW S \in SUBSET Nat, IsFiniteSet(S), S # {}
  PROVE  \E x \in S : \A y \in S : x >= y
<1> SUFFICES ASSUME ~ \E x \in S : \A y \in S : x >= y PROVE FALSE
  OBVIOUS
<1> DEFINE bad == {U \in SUBSET S : U # {} /\ ~ \E x \in U : \A y \in U : x >= y}
<1>1. bad \subseteq FiniteSubsetsOf(S) /\ bad # {}
  BY FS_Subset DEF FiniteSubsetsOf
<1>2. \E U \in bad : \A V \in bad : ~ (<<V, U>> \in StrictSubsetOrdering(S))
  <2> HIDE DEF bad
  <2> QED
    BY <1>1, FS_StrictSubsetOrderingWellFounded, WFMin
<1>3. PICK U \in bad : \A V \in bad : ~ (<<V, U>> \in StrictSubsetOrdering(S))
  BY <1>2
<1>4. PICK x \in U : x \in Nat
  BY <1>3
<1>5. U \ {x} \in SUBSET S /\ <<U \ {x}, U>> \in StrictSubsetOrdering(S)
  BY <1>3, <1>4 DEF StrictSubsetOrdering
<1>6. U \ {x} \notin bad
  BY <1>3, <1>5
<1>7. CASE U \ {x} = {}
  BY <1>3, <1>4, <1>7
<1>8. CASE U \ {x} # {}
  <2>1. PICK z \in U \ {x} : \A y \in U \ {x} : z >= y
    BY <1>5, <1>6, <1>8
  <2>2. z \in Nat /\ U \subseteq Nat
    BY <1>3
  <2>3. CASE z >= x
    BY <1>3, <1>4, <2>1, <2>2, <2>3
  <2>4. CASE x > z
    <3>1. \A y \in U : x >= y
      BY <1>4, <2>1, <2>2, <2>4
    <3> QED
      BY <1>3, <1>4, <3>1
  <2> QED
    BY <1>4, <2>2, <2>3, <2>4
<1> QED
  BY <1>7, <1>8

\* What a function takes a finite set to is finite.
LEMMA FiniteImage ==
  ASSUME NEW S, IsFiniteSet(S), NEW f PROVE IsFiniteSet({f[x] : x \in S})
<1> DEFINE T == {f[x] : x \in S}
           g == [x \in S |-> f[x]]
<1>1. g \in Surjection(S, T)
  BY DEF Surjection
<1> QED
  BY <1>1, FS_Surjection

\* What rises at each step rises.
LEMMA RisingSteps ==
  ASSUME NEW f, NEW n \in Nat, \A i \in 1 .. n : f[i] \in Nat,
         \A i \in 1 .. n : i # 1 => f[i - 1] < f[i]
  PROVE  \A i, j \in 1 .. n : i < j => f[i] < f[j]
<1> SUFFICES ASSUME NEW i \in 1 .. n, NEW k \in 1 .. n, i < k, ~ (f[i] < f[k]) PROVE FALSE
  OBVIOUS
<1> DEFINE T == {j \in 1 .. n : i < j /\ ~ (f[i] < f[j])}
<1>1. T \in SUBSET Nat /\ T # {}
  OBVIOUS
<1>2. PICK j \in T : \A m \in T : j <= m
  <2> HIDE DEF T
  <2> QED
    BY <1>1, LeastNumber
<1>3. j \in 2 .. n /\ j - 1 \in 1 .. n /\ f[j - 1] < f[j]
  OBVIOUS
<1>4. CASE j - 1 = i
  BY <1>3, <1>4
<1>5. CASE j - 1 # i
  <2>1. i < j - 1 /\ j - 1 \notin T
    BY <1>2, <1>3, <1>5
  <2>2. f[i] < f[j - 1]
    BY <1>3, <2>1
  <2> QED
    BY <1>3, <2>2
<1> QED
  BY <1>4, <1>5

LEMMA TailOf ==
  ASSUME NEW S, NEW s \in Seq(S), s # <<>>
  PROVE  /\ Tail(s) \in Seq(S) /\ Len(Tail(s)) = Len(s) - 1 /\ Head(s) = s[1] /\ Head(s) \in S
         /\ \A i \in DOMAIN Tail(s) : Tail(s)[i] = s[i + 1]
  BY HeadTailProperties

LEMMA LastOf ==
  ASSUME NEW S, NEW s \in Seq(S), s # <<>> PROVE Len(s) \in DOMAIN s /\ s[Len(s)] \in S
  BY EmptySeq, LenProperties

-----------------------------------------------------------------------------
(* The stream to the consoles.  The events kept for replay are the latest     *)
(* ones, without a gap, so what a handler replays joins what was broadcast    *)
(* since.                                                                     *)

LatestAreKept ==
  /\ Len(buffer) <= sequence /\ (sequence # 0 => buffer # <<>>)
  /\ \A n \in DOMAIN buffer : buffer[n] = sequence - Len(buffer) + n

StreamInv == G!TypeOK /\ LatestAreKept /\ NothingMissed

LEMMA AppendSet ==
  ASSUME NEW S, NEW s \in Seq(S), NEW x \in S PROVE G!ToSet(Append(s, x)) = G!ToSet(s) \cup {x}
<1>1. /\ DOMAIN s = 1 .. Len(s) /\ Len(s) \in Nat /\ DOMAIN Append(s, x) = 1 .. Len(s) + 1
      /\ \A i \in 1 .. Len(s) : Append(s, x)[i] = s[i]
      /\ Append(s, x)[Len(s) + 1] = x
  BY AppendProperties
<1> QED
  BY <1>1 DEF G!ToSet

LEMMA TailSet ==
  ASSUME NEW S, NEW s \in Seq(S), s # <<>> PROVE G!ToSet(s) = {Head(s)} \cup G!ToSet(Tail(s))
<1>1. /\ DOMAIN s = 1 .. Len(s) /\ Len(s) \in Nat \ {0} /\ DOMAIN Tail(s) = 1 .. Len(s) - 1
      /\ \A i \in DOMAIN Tail(s) : Tail(s)[i] = s[i + 1]
      /\ Head(s) = s[1]
  BY TailOf, EmptySeq
<1>2. \A i \in 1 .. Len(s) : i = 1 \/ (i - 1 \in DOMAIN Tail(s) /\ s[i] = Tail(s)[i - 1])
  BY <1>1
<1>3. ASSUME NEW i \in DOMAIN s PROVE s[i] \in {Head(s)} \cup G!ToSet(Tail(s))
  <2>1. CASE i = 1
    BY <1>1, <2>1
  <2>2. CASE i # 1
    <3>1. PICK j \in DOMAIN Tail(s) : s[i] = Tail(s)[j]
      BY <1>1, <1>2, <2>2
    <3> QED
      BY <3>1 DEF G!ToSet
  <2> QED
    BY <2>1, <2>2
<1>4. {Head(s)} \cup G!ToSet(Tail(s)) \subseteq G!ToSet(s)
  BY <1>1 DEF G!ToSet
<1> QED
  BY <1>3, <1>4 DEF G!ToSet

LEMMA StreamTyped ==
  ASSUME StreamInv
  PROVE  /\ MaxSequence \in Nat /\ sequence \in 0 .. MaxSequence /\ buffer \in Seq(G!Numbers)
         /\ Len(buffer) <= MaxReplayBuffer /\ active \subseteq Consoles
         /\ replay \in [Consoles -> Seq(G!Numbers)] /\ wire \in [Consoles -> Seq(G!Numbers)]
         /\ client \in [Consoles -> G!Client]
         /\ \A c \in Consoles : /\ client[c] \in G!Client /\ client[c].got \subseteq G!Numbers
                                /\ client[c].old \in 0 .. MaxSequence /\ client[c].from \in 0 .. MaxSequence
  BY BoundsAssumption DEF StreamInv, G!TypeOK, G!Client

\* What a client has confirmed is well defined.
LEMMA ConfirmedTyped ==
  ASSUME StreamInv, NEW c \in Consoles PROVE G!Confirmed(c) \in 0 .. MaxSequence
<1> DEFINE T == {n \in Nat : n + 1 \notin client[c].got}
<1>1. MaxSequence \in Nat /\ client[c].got \subseteq 1 .. MaxSequence
  BY StreamTyped DEF G!Numbers
<1>2. T \in SUBSET Nat /\ MaxSequence \in T
  BY <1>1
<1>3. PICK n \in T : \A m \in T : n <= m
  <2> HIDE DEF T
  <2> QED
    BY <1>2, LeastNumber
<1>4. n \in 0 .. MaxSequence /\ n + 1 \notin client[c].got
  BY <1>1, <1>2, <1>3
<1>5. ASSUME NEW x \in 1 .. n PROVE x \in client[c].got
  <2>1. x - 1 \in Nat /\ x - 1 < n /\ (x - 1) + 1 = x
    BY <1>4
  <2>2. x - 1 \notin T
    BY <1>3, <1>4, <2>1
  <2> QED
    BY <2>1, <2>2
<1>6. \E s \in 0 .. MaxSequence : 1 .. s \subseteq client[c].got /\ s + 1 \notin client[c].got
  BY <1>4, <1>5
<1> QED
  BY <1>6 DEF G!Confirmed

\* A handler replays every event after the one confirmed, or a snapshot is required.
LEMMA AfterIsRest ==
  ASSUME StreamInv, NEW last \in 0 .. MaxSequence, ~ G!SnapshotRequired(last)
  PROVE  G!After(last) \in Seq(G!Numbers) /\ (last + 1) .. sequence \subseteq G!ToSet(G!After(last))
<1>1. CASE last = sequence
  BY <1>1, StreamTyped DEF G!After
<1>2. CASE last # sequence
  <2> DEFINE n == Len(buffer)
  <2>1. /\ n \in Nat /\ DOMAIN buffer = 1 .. n /\ n <= sequence /\ sequence \in Nat /\ last \in Nat
        /\ \A i \in 1 .. n : buffer[i] = sequence - n + i
    BY StreamTyped DEF StreamInv, LatestAreKept
  <2>2. n # 0 /\ last + 1 >= buffer[1]
    BY <1>2, <2>1, StreamTyped, EmptySeq DEF G!SnapshotRequired, G!Missing
  <2>3. last >= sequence - n
    BY <2>1, <2>2
  <2>4. \E k \in 1 .. n + 1 : \A i \in DOMAIN buffer : i >= k <=> buffer[i] > last
    <3>1. CASE last > sequence
      <4>1. \A i \in 1 .. n : ~ (buffer[i] > last) /\ ~ (i >= n + 1)
        BY <2>1, <3>1
      <4> QED
        BY <2>1, <4>1
    <3>2. CASE last < sequence
      <4>1. PICK k \in Int : k = last - (sequence - n) + 1
        BY <2>1
      <4>2. k \in 1 .. n + 1
        BY <2>1, <2>3, <3>2, <4>1
      <4>3. \A i \in 1 .. n : i >= k <=> buffer[i] > last
        BY <2>1, <4>1
      <4> QED
        BY <2>1, <4>2, <4>3
    <3> QED
      BY <1>2, <2>1, <3>1, <3>2
  <2>5. PICK k \in 1 .. n + 1 : k = G!FirstAfter(last) /\ \A i \in 1 .. n : i >= k <=> buffer[i] > last
    BY <2>1, <2>4 DEF G!FirstAfter
  <2>6. PICK r : r = SubSeq(buffer, k, n)
    OBVIOUS
  <2>7. G!After(last) = r
    BY <1>2, <2>5, <2>6 DEF G!After
  <2>8. /\ r \in Seq(G!Numbers) /\ Len(r) = IF k <= n THEN n - k + 1 ELSE 0
        /\ \A i \in 1 .. n - k + 1 : r[i] = buffer[k + i - 1]
    BY <2>1, <2>5, <2>6, StreamTyped, SubSeqProperties
  <2>9. ASSUME NEW x \in (last + 1) .. sequence PROVE x \in G!ToSet(r)
    <3> HIDE DEF n
    <3>1. x \in Int /\ x > last /\ x <= sequence
      BY <2>1, <2>9
    <3>2. PICK i \in Int : i = x - (sequence - n)
      BY <2>1, <3>1
    <3>3. i \in 1 .. n /\ buffer[i] = x
      BY <2>1, <2>3, <3>1, <3>2
    <3>4. i >= k /\ k \in Nat /\ k >= 1 /\ k <= n
      BY <2>1, <2>5, <3>1, <3>3
    <3>5. PICK j \in Int : j = i - k + 1
      BY <3>3, <3>4
    <3>6. j \in 1 .. n - k + 1 /\ k + j - 1 = i
      BY <2>1, <3>3, <3>4, <3>5
    <3>7. r[j] = x /\ Len(r) = n - k + 1 /\ DOMAIN r = 1 .. Len(r)
      BY <2>8, <3>3, <3>4, <3>6
    <3> QED
      BY <3>6, <3>7 DEF G!ToSet
  <2> QED
    BY <2>7, <2>8, <2>9
<1> QED
  BY <1>1, <1>2

\* What c has not missed, when what is on its way is this.
Covered(c) == (client[c].from + 1) .. sequence \subseteq client[c].got \cup G!OnTheWay(c)

\* A step that leaves the events and the numbers alone.
LEMMA ClientsStep ==
  ASSUME StreamInv, UNCHANGED <<sequence, buffer, restarts>>,
         active' \subseteq Consoles, sending' \in {None} \cup G!Broadcast,
         replay' \in [Consoles -> Seq(G!Numbers)], wire' \in [Consoles -> Seq(G!Numbers)],
         client' \in [Consoles -> G!Client],
         \A c \in active' : client'[c].phase = "subscribed" => Covered(c)'
  PROVE  StreamInv'
<1>1. G!TypeOK'
  BY DEF StreamInv, G!TypeOK
<1>2. LatestAreKept'
  BY DEF StreamInv, LatestAreKept
<1> QED
  BY <1>1, <1>2 DEF StreamInv, NothingMissed, G!NothingMissed, Covered

LEMMA CoveredNow ==
  ASSUME StreamInv, NEW c \in active, client[c].phase = "subscribed" PROVE Covered(c)
  BY DEF StreamInv, NothingMissed, G!NothingMissed, Covered

LEMMA SendingTyped ==
  ASSUME StreamInv
  PROVE  /\ sending \in {None} \cup G!Broadcast
         /\ sending # None => sending \in G!Broadcast /\ sending.event \in G!Numbers
                              /\ sending.to \subseteq Consoles /\ sending.failed \subseteq Consoles
  BY DEF StreamInv, G!TypeOK, G!Broadcast

LEMMA OnTheWayIs ==
  \A c : G!OnTheWay(c) = G!ToSet(wire[c]) \cup G!ToSet(replay[c])
                           \cup (IF sending # None /\ c \in sending.to THEN {sending.event} ELSE {})
  BY DEF G!OnTheWay

LEMMA ConnectStep == ASSUME StreamInv, NEW c \in Consoles, G!Connect(c) PROVE StreamInv'
<1>1. PICK x : x = [client[c] EXCEPT !.phase = "open"]
  OBVIOUS
<1>2. x \in G!Client /\ x.phase = "open"
  BY <1>1, StreamTyped DEF G!Client
<1>3. client' = [client EXCEPT ![c] = x] /\ active' = active \cup {c}
  BY <1>1 DEF G!Connect
<1>4. UNCHANGED <<sequence, buffer, sending, replay, wire, restarts>>
  BY DEF G!Connect
<1>5. ASSUME NEW d \in active', client'[d].phase = "subscribed" PROVE Covered(d)'
  <2>1. d # c /\ d \in active /\ client'[d] = client[d]
    BY <1>2, <1>3, <1>5, StreamTyped
  <2> QED
    BY <1>4, <1>5, <2>1, CoveredNow DEF Covered, G!OnTheWay
<1>6. client' \in [Consoles -> G!Client] /\ active' \subseteq Consoles
  BY <1>2, <1>3, StreamTyped
<1> QED
  BY <1>4, <1>5, <1>6, StreamTyped, SendingTyped, ClientsStep

LEMMA DisconnectStep == ASSUME StreamInv, NEW c \in Consoles, G!Disconnect(c) PROVE StreamInv'
<1>1. active' = active \ {c} /\ UNCHANGED <<sequence, buffer, sending, replay, wire, client, restarts>>
  BY DEF G!Disconnect
<1>2. ASSUME NEW d \in active', client'[d].phase = "subscribed" PROVE Covered(d)'
  BY <1>1, <1>2, CoveredNow DEF Covered, G!OnTheWay
<1> QED
  BY <1>1, <1>2, StreamTyped, SendingTyped, ClientsStep

LEMMA EndBroadcastStep == ASSUME StreamInv, G!EndBroadcast PROVE StreamInv'
<1>1. /\ sending # None /\ sending.to = {} /\ active' \subseteq active /\ sending' = None
      /\ UNCHANGED <<sequence, buffer, replay, wire, client, restarts>>
  BY DEF G!EndBroadcast
<1>2. ASSUME NEW d \in active', client'[d].phase = "subscribed" PROVE Covered(d)'
  <2>1. Covered(d)
    BY <1>1, <1>2, CoveredNow
  <2>2. G!OnTheWay(d)' = G!OnTheWay(d)
    BY <1>1 DEF G!OnTheWay
  <2> QED
    BY <1>1, <2>1, <2>2 DEF Covered
<1> QED
  BY <1>1, <1>2, StreamTyped, ClientsStep

LEMMA SendStep == ASSUME StreamInv, NEW c \in Consoles, G!SendTo(c) PROVE StreamInv'
<1>1. /\ sending # None /\ c \in sending.to /\ sending \in G!Broadcast
      /\ sending.event \in G!Numbers /\ sending.to \subseteq Consoles /\ sending.failed \subseteq Consoles
      /\ UNCHANGED <<sequence, buffer, active, replay, client, restarts>>
  BY SendingTyped DEF G!SendTo
<1>2. PICK e \in G!Numbers, to \in SUBSET Consoles : e = sending.event /\ to = sending.to
  BY <1>1
<1>3. CASE client[c].phase # "closed"
  <2>1. wire' = [wire EXCEPT ![c] = Append(wire[c], e)] /\ sending' = [sending EXCEPT !.to = to \ {c}]
    BY <1>2, <1>3 DEF G!SendTo, G!Open
  <2>2. wire' \in [Consoles -> Seq(G!Numbers)] /\ sending' \in G!Broadcast
    <3>1. Append(wire[c], e) \in Seq(G!Numbers)
      BY <1>1, <1>2, StreamTyped, AppendProperties
    <3>2. wire' \in [Consoles -> Seq(G!Numbers)]
      BY <2>1, <3>1, StreamTyped
    <3>3. sending' \in G!Broadcast
      BY <1>1, <1>2, <2>1 DEF G!Broadcast
    <3> QED
      BY <3>2, <3>3
  <2>3. sending' # None /\ sending'.to = to \ {c} /\ sending'.event = e
    BY <1>1, <1>2, <2>1, <2>2, NoneAssumption DEF G!Broadcast
  <2>4. ASSUME NEW d \in Consoles PROVE G!OnTheWay(d) \subseteq G!OnTheWay(d)'
    <3>1. G!ToSet(wire'[d]) = G!ToSet(wire[d]) \cup (IF d = c THEN {e} ELSE {})
      BY <2>1, StreamTyped, AppendSet
    <3> QED
      BY <1>1, <1>2, <2>3, <3>1 DEF G!OnTheWay
  <2>5. ASSUME NEW d \in active', client'[d].phase = "subscribed" PROVE Covered(d)'
    <3>1. Covered(d) /\ d \in Consoles
      BY <1>1, <2>5, CoveredNow, StreamTyped
    <3> QED
      BY <1>1, <2>4, <3>1 DEF Covered
  <2> QED
    BY <1>1, <2>2, <2>5, StreamTyped, ClientsStep
<1>4. CASE client[c].phase = "closed"
  <2>1. /\ UNCHANGED wire
        /\ sending' = [sending EXCEPT !.to = to \ {c}, !.failed = sending.failed \cup {c}]
    BY <1>2, <1>4 DEF G!SendTo, G!Open
  <2>2. sending' \in G!Broadcast
    BY <1>1, <1>2, <2>1 DEF G!Broadcast
  <2>3. sending' # None /\ sending'.to = to \ {c} /\ sending'.event = e
    BY <1>1, <1>2, <2>1, <2>2, NoneAssumption DEF G!Broadcast
  <2>4. ASSUME NEW d \in active', client'[d].phase = "subscribed" PROVE Covered(d)'
    <3>1. Covered(d) /\ d # c
      BY <1>1, <1>4, <2>4, CoveredNow
    <3>2. G!OnTheWay(d)' = G!OnTheWay(d)
      BY <1>1, <1>2, <2>1, <2>3, <3>1 DEF G!OnTheWay
    <3> QED
      BY <1>1, <3>1, <3>2 DEF Covered
  <2> QED
    BY <1>1, <2>1, <2>2, <2>4, StreamTyped, ClientsStep
<1> QED
  BY <1>3, <1>4

LEMMA CloseStep == ASSUME StreamInv, NEW c \in Consoles, G!ClientCloses(c) PROVE StreamInv'
<1>1. PICK x : x = [client[c] EXCEPT !.phase = "closed", !.from = 0]
  OBVIOUS
<1>2. x \in G!Client /\ x.phase = "closed"
  <2>1. client[c] \in G!Client /\ 0 \in 0 .. MaxSequence
    BY StreamTyped
  <2> QED
    BY <1>1, <2>1 DEF G!Client
<1>3. /\ client' = [client EXCEPT ![c] = x]
      /\ wire' = [wire EXCEPT ![c] = <<>>] /\ replay' = [replay EXCEPT ![c] = <<>>]
      /\ UNCHANGED <<sequence, buffer, active, sending, restarts>>
  BY <1>1 DEF G!ClientCloses
<1>4. ASSUME NEW d \in active', client'[d].phase = "subscribed" PROVE Covered(d)'
  <2>1. d # c /\ d \in active /\ d \in Consoles /\ client'[d] = client[d] /\ wire'[d] = wire[d] /\ replay'[d] = replay[d]
    BY <1>2, <1>3, <1>4, StreamTyped
  <2> QED
    BY <1>3, <1>4, <2>1, CoveredNow DEF Covered, G!OnTheWay
<1>5. /\ client' \in [Consoles -> G!Client]
      /\ wire' \in [Consoles -> Seq(G!Numbers)] /\ replay' \in [Consoles -> Seq(G!Numbers)]
  BY <1>2, <1>3, StreamTyped
<1> QED
  BY <1>3, <1>4, <1>5, StreamTyped, SendingTyped, ClientsStep

LEMMA SubscribeStep ==
  ASSUME StreamInv, NEW c \in Consoles, NEW last \in 0 .. MaxSequence, G!Subscribe(c, last)
  PROVE  StreamInv'
<1>1. UNCHANGED <<sequence, buffer, active, sending, wire, restarts>>
  BY DEF G!Subscribe
<1>2. CASE G!SnapshotRequired(last)
  <2>1. PICK x : x = [phase |-> "subscribed", from |-> sequence, got |-> 1 .. sequence, old |-> 0]
    OBVIOUS
  <2>2. x \in G!Client
    <3>1. 1 .. sequence \in SUBSET (1 .. MaxSequence) /\ 0 \in 0 .. MaxSequence /\ sequence \in 0 .. MaxSequence
      BY StreamTyped
    <3> QED
      BY <2>1, <3>1 DEF G!Client, G!Numbers
  <2>3. client' = [client EXCEPT ![c] = x] /\ UNCHANGED replay
    BY <1>2, <2>1 DEF G!Subscribe
  <2>4. client' \in [Consoles -> G!Client]
    BY <2>2, <2>3, StreamTyped
  <2>5. ASSUME NEW d \in active', client'[d].phase = "subscribed" PROVE Covered(d)'
    <3>1. CASE d = c
      <4>1. client'[d].from = sequence /\ sequence' = sequence /\ sequence \in Nat
        BY <1>1, <2>1, <2>3, <3>1, StreamTyped
      <4> QED
        BY <4>1 DEF Covered
    <3>2. CASE d # c
      <4>1. client'[d] = client[d] /\ d \in active
        BY <1>1, <2>3, <2>5, <3>2, StreamTyped
      <4> QED
        BY <1>1, <2>3, <2>5, <4>1, CoveredNow DEF Covered, G!OnTheWay
    <3> QED
      BY <3>1, <3>2
  <2> QED
    BY <1>1, <2>3, <2>4, <2>5, StreamTyped, SendingTyped, ClientsStep
<1>3. CASE ~ G!SnapshotRequired(last)
  <2>1. PICK phase \in {"stale", "subscribed"}, rest \in Seq(G!Numbers) :
          /\ phase = IF last # 0 /\ last = client[c].old THEN "stale" ELSE "subscribed"
          /\ rest = G!After(last) /\ (last + 1) .. sequence \subseteq G!ToSet(rest)
    BY <1>3, AfterIsRest
  <2>2. PICK x : x = [client[c] EXCEPT !.from = last, !.phase = phase]
    OBVIOUS
  <2>3. x \in G!Client /\ x.from = last
    <3>1. client[c] \in G!Client
      BY StreamTyped
    <3> QED
      BY <2>1, <2>2, <3>1 DEF G!Client
  <2>4. client' = [client EXCEPT ![c] = x] /\ replay' = [replay EXCEPT ![c] = rest]
    BY <1>3, <2>1, <2>2 DEF G!Subscribe
  <2>5. client' \in [Consoles -> G!Client] /\ replay' \in [Consoles -> Seq(G!Numbers)]
    BY <2>1, <2>3, <2>4, StreamTyped
  <2>6. ASSUME NEW d \in active', client'[d].phase = "subscribed" PROVE Covered(d)'
    <3>1. CASE d = c
      <4>1. client'[d].from = last /\ replay'[d] = rest
        BY <2>3, <2>4, <3>1, StreamTyped
      <4> QED
        BY <1>1, <2>1, <4>1 DEF Covered, G!OnTheWay
    <3>2. CASE d # c
      <4>1. client'[d] = client[d] /\ d \in active /\ d \in Consoles /\ replay'[d] = replay[d]
        BY <1>1, <2>4, <2>6, <3>2, StreamTyped
      <4> QED
        BY <1>1, <2>6, <4>1, CoveredNow DEF Covered, G!OnTheWay
    <3> QED
      BY <3>1, <3>2
  <2> QED
    BY <1>1, <2>5, <2>6, StreamTyped, SendingTyped, ClientsStep
<1> QED
  BY <1>2, <1>3

LEMMA ReplayStep == ASSUME StreamInv, NEW c \in Consoles, G!ReplayNext(c) PROVE StreamInv'
<1>1. UNCHANGED <<sequence, buffer, active, sending, client, restarts>> /\ replay[c] # <<>>
  BY DEF G!ReplayNext
<1>2. replay[c] \in Seq(G!Numbers) /\ wire[c] \in Seq(G!Numbers)
  BY StreamTyped
<1>3. PICK e \in G!Numbers, rest \in Seq(G!Numbers) :
        e = Head(replay[c]) /\ rest = Tail(replay[c]) /\ G!ToSet(replay[c]) = {e} \cup G!ToSet(rest)
  <2>1. Head(replay[c]) \in G!Numbers /\ Tail(replay[c]) \in Seq(G!Numbers)
    BY <1>1, <1>2, TailOf
  <2>2. G!ToSet(replay[c]) = {Head(replay[c])} \cup G!ToSet(Tail(replay[c]))
    BY <1>1, <1>2, TailSet
  <2> QED
    BY <2>1, <2>2
<1>4. PICK sent \in Seq(G!Numbers) : sent = IF client[c].phase # "closed" THEN Append(wire[c], e) ELSE wire[c]
  BY <1>2, AppendProperties
<1>5. replay' = [replay EXCEPT ![c] = rest] /\ wire' = [wire EXCEPT ![c] = sent]
  BY <1>3, <1>4 DEF G!ReplayNext, G!Open
<1>6. replay' \in [Consoles -> Seq(G!Numbers)] /\ wire' \in [Consoles -> Seq(G!Numbers)]
  BY <1>5, StreamTyped
<1>7. ASSUME NEW d \in active', client'[d].phase = "subscribed" PROVE Covered(d)'
  <2>1. Covered(d) /\ d \in Consoles
    BY <1>1, <1>7, CoveredNow, StreamTyped
  <2>2. CASE d = c
    <3>1. sent = Append(wire[d], e)
      BY <1>1, <1>4, <1>7, <2>2
    <3>2. G!ToSet(wire'[d]) = G!ToSet(wire[d]) \cup {e} /\ replay'[d] = rest
      BY <1>2, <1>3, <1>5, <2>2, <3>1, StreamTyped, AppendSet
    <3>3. G!OnTheWay(d)' = G!OnTheWay(d)
      BY <1>1, <1>3, <2>2, <3>2 DEF G!OnTheWay
    <3> QED
      BY <1>1, <2>1, <3>3 DEF Covered
  <2>3. CASE d # c
    <3>1. replay'[d] = replay[d] /\ wire'[d] = wire[d]
      BY <1>5, <2>1, <2>3, StreamTyped
    <3> QED
      BY <1>1, <2>1, <3>1 DEF Covered, G!OnTheWay
  <2> QED
    BY <2>2, <2>3
<1> QED
  BY <1>1, <1>6, <1>7, StreamTyped, SendingTyped, ClientsStep

LEMMA ArrivesStep == ASSUME StreamInv, NEW c \in Consoles, G!Arrives(c) PROVE StreamInv'
<1>1. UNCHANGED <<sequence, buffer, active, sending, replay, restarts>> /\ wire[c] # <<>>
  BY DEF G!Arrives
<1>2. wire[c] \in Seq(G!Numbers) /\ client[c] \in G!Client /\ client[c].got \subseteq G!Numbers
  BY StreamTyped
<1>3. PICK e \in G!Numbers, rest \in Seq(G!Numbers) :
        e = Head(wire[c]) /\ rest = Tail(wire[c]) /\ G!ToSet(wire[c]) = {e} \cup G!ToSet(rest)
  <2>1. Head(wire[c]) \in G!Numbers /\ Tail(wire[c]) \in Seq(G!Numbers)
    BY <1>1, <1>2, TailOf
  <2>2. G!ToSet(wire[c]) = {Head(wire[c])} \cup G!ToSet(Tail(wire[c]))
    BY <1>1, <1>2, TailSet
  <2> QED
    BY <2>1, <2>2
<1>4. PICK got \in SUBSET G!Numbers : got = client[c].got \cup {e}
  BY <1>2
<1>5. PICK x : x = [client[c] EXCEPT !.got = got]
  OBVIOUS
<1>6. /\ x \in G!Client /\ x.got = client[c].got \cup {e}
      /\ x.phase = client[c].phase /\ x.from = client[c].from
  BY <1>2, <1>4, <1>5 DEF G!Client
<1>7. client' = [client EXCEPT ![c] = x] /\ wire' = [wire EXCEPT ![c] = rest]
  BY <1>3, <1>4, <1>5 DEF G!Arrives
<1>8. client' \in [Consoles -> G!Client] /\ wire' \in [Consoles -> Seq(G!Numbers)]
  BY <1>6, <1>7, StreamTyped
<1>9. ASSUME NEW d \in active', client'[d].phase = "subscribed" PROVE Covered(d)'
  <2>1. d \in Consoles /\ d \in active
    BY <1>1, <1>9, StreamTyped
  <2>2. CASE d = c
    <3>1. client'[d] = x /\ wire'[d] = rest
      BY <1>7, <2>1, <2>2, StreamTyped
    <3>2. Covered(d)
      BY <1>6, <1>9, <2>1, <2>2, <3>1, CoveredNow
    <3>3. client[d].got \cup G!OnTheWay(d) = client'[d].got \cup G!OnTheWay(d)'
      BY <1>1, <1>3, <1>6, <2>2, <3>1 DEF G!OnTheWay
    <3> QED
      BY <1>1, <1>6, <2>2, <3>1, <3>2, <3>3 DEF Covered
  <2>3. CASE d # c
    <3>1. client'[d] = client[d] /\ wire'[d] = wire[d]
      BY <1>7, <2>1, <2>3, StreamTyped
    <3> QED
      BY <1>1, <1>9, <2>1, <3>1, CoveredNow DEF Covered, G!OnTheWay
  <2> QED
    BY <2>2, <2>3
<1> QED
  BY <1>1, <1>8, <1>9, StreamTyped, SendingTyped, ClientsStep

LEMMA BeginBroadcastStep == ASSUME StreamInv, G!BeginBroadcast PROVE StreamInv'
<1>1. /\ sending = None /\ sequence < MaxSequence
      /\ UNCHANGED <<active, replay, wire, client, restarts>>
  BY DEF G!BeginBroadcast
<1>2. PICK m \in Nat, n \in Nat : m = Len(buffer) /\ n = sequence + 1
  BY StreamTyped
<1>3. /\ n \in G!Numbers /\ n \in 1 .. MaxSequence /\ m < n /\ buffer \in Seq(G!Numbers)
      /\ sequence \in Nat /\ MaxReplayBuffer \in Nat \ {0} /\ m <= MaxReplayBuffer
      /\ DOMAIN buffer = 1 .. m /\ \A i \in 1 .. m : buffer[i] = sequence - m + i
  <2>1. n \in 1 .. MaxSequence /\ buffer \in Seq(G!Numbers) /\ sequence \in Nat /\ m <= MaxReplayBuffer
    BY <1>1, <1>2, StreamTyped
  <2>2. MaxReplayBuffer \in Nat \ {0}
    BY StreamAssumption DEF G!StreamAssumption
  <2>3. m <= sequence /\ DOMAIN buffer = 1 .. m /\ \A i \in 1 .. m : buffer[i] = sequence - m + i
    BY <1>2, <2>1 DEF StreamInv, LatestAreKept
  <2> QED
    BY <1>2, <2>1, <2>2, <2>3 DEF G!Numbers
<1>4. sequence' = n /\ sending' = [event |-> n, to |-> active, failed |-> {}] /\ buffer' = G!Kept(Append(buffer, n))
  BY <1>2 DEF G!BeginBroadcast
<1>5. PICK b : b = Append(buffer, n)
  OBVIOUS
<1>6. /\ b \in Seq(G!Numbers) /\ Len(b) = m + 1 /\ DOMAIN b = 1 .. m + 1 /\ b # <<>>
      /\ \A i \in 1 .. m + 1 : b[i] = n - (m + 1) + i
  <2>1. /\ b \in Seq(G!Numbers) /\ Len(b) = m + 1 /\ b[m + 1] = n /\ \A i \in 1 .. m : b[i] = buffer[i]
    BY <1>2, <1>3, <1>5, AppendProperties
  <2> QED
    BY <1>2, <1>3, <2>1, EmptySeq
<1>7. /\ buffer' \in Seq(G!Numbers) /\ Len(buffer') <= MaxReplayBuffer /\ LatestAreKept'
  <2>1. CASE m + 1 > MaxReplayBuffer
    <3>1. buffer' = Tail(b)
      BY <1>4, <1>5, <1>6, <2>1 DEF G!Kept
    <3>2. /\ Tail(b) \in Seq(G!Numbers) /\ Len(Tail(b)) = m /\ \A i \in DOMAIN Tail(b) : Tail(b)[i] = b[i + 1]
      BY <1>2, <1>6, TailOf
    <3>3. DOMAIN Tail(b) = 1 .. m /\ \A i \in 1 .. m : Tail(b)[i] = n - m + i
      BY <1>2, <1>6, <3>2
    <3>4. m # 0 /\ Tail(b) # <<>>
      BY <1>2, <1>3, <2>1, <3>2, EmptySeq
    <3>5. buffer' \in Seq(G!Numbers) /\ Len(buffer') = m /\ DOMAIN buffer' = 1 .. m /\ buffer' # <<>>
      BY <3>1, <3>2, <3>3, <3>4
    <3>6. m <= n /\ m <= MaxReplayBuffer /\ \A i \in 1 .. m : buffer'[i] = n - m + i
      BY <1>2, <1>3, <3>1, <3>3
    <3> QED
      BY <1>4, <3>5, <3>6 DEF LatestAreKept
  <2>2. CASE ~ (m + 1 > MaxReplayBuffer)
    <3>1. buffer' = b
      BY <1>4, <1>5, <1>6, <2>2 DEF G!Kept
    <3>2. /\ buffer' \in Seq(G!Numbers) /\ Len(buffer') = m + 1 /\ DOMAIN buffer' = 1 .. m + 1
          /\ buffer' # <<>> /\ \A i \in 1 .. m + 1 : buffer'[i] = n - (m + 1) + i
      BY <1>6, <3>1
    <3>3. m + 1 <= n /\ m + 1 <= MaxReplayBuffer
      BY <1>2, <1>3, <2>2
    <3> QED
      BY <1>4, <3>2, <3>3 DEF LatestAreKept
  <2> QED
    BY <2>1, <2>2
<1>8. sending' \in G!Broadcast /\ sending' # None /\ sending'.to = active /\ sending'.event = n
  <2>1. active \in SUBSET Consoles
    BY StreamTyped
  <2>2. sending' \in G!Broadcast
    BY <1>3, <1>4, <2>1 DEF G!Broadcast
  <2> QED
    BY <1>4, <2>2, NoneAssumption
<1>9. G!TypeOK'
  BY <1>1, <1>3, <1>4, <1>7, <1>8 DEF StreamInv, G!TypeOK
<1>10. ASSUME NEW d \in active', client'[d].phase = "subscribed" PROVE Covered(d)'
  <2>1. Covered(d) /\ d \in active /\ client[d].from \in Nat
    BY <1>1, <1>10, CoveredNow, StreamTyped
  <2>2. G!OnTheWay(d)' = G!OnTheWay(d) \cup {n}
    BY <1>1, <1>8, <2>1 DEF G!OnTheWay
  <2>3. (client[d].from + 1) .. n \subseteq ((client[d].from + 1) .. sequence) \cup {n}
    BY <1>2, <1>3, <2>1
  <2> QED
    BY <1>1, <1>4, <2>1, <2>2, <2>3 DEF Covered
<1> QED
  BY <1>7, <1>9, <1>10 DEF StreamInv, NothingMissed, G!NothingMissed, Covered

LEMMA ServerRestartStep == ASSUME StreamInv, G!ServerRestarts PROVE StreamInv'
<1>1. /\ restarts' = restarts + 1 /\ restarts < MaxRestarts
      /\ sequence' = 0 /\ buffer' = <<>> /\ active' = {} /\ sending' = None
      /\ replay' = [c \in Consoles |-> <<>>] /\ wire' = [c \in Consoles |-> <<>>]
      /\ client' = [c \in Consoles |-> [G!New EXCEPT !.old = G!Confirmed(c)]]
  BY DEF G!ServerRestarts
<1>2. ASSUME NEW c \in Consoles PROVE [G!New EXCEPT !.old = G!Confirmed(c)] \in G!Client
  <2>1. PICK n \in 0 .. MaxSequence : n = G!Confirmed(c)
    BY ConfirmedTyped
  <2>2. 0 \in 0 .. MaxSequence
    BY StreamTyped
  <2>3. [G!New EXCEPT !.old = n] \in G!Client
    BY <2>2 DEF G!New, G!Client
  <2> QED
    BY <2>1, <2>3
<1>3. client' \in [Consoles -> G!Client]
  BY <1>1, <1>2
<1>4. restarts' \in 0 .. MaxRestarts /\ 0 \in 0 .. MaxSequence /\ MaxReplayBuffer \in Nat
  BY <1>1, BoundsAssumption, StreamAssumption DEF StreamInv, G!TypeOK, G!StreamAssumption
<1>5. buffer' \in Seq(G!Numbers) /\ Len(buffer') = 0 /\ DOMAIN buffer' = {}
  BY <1>1
<1>6. G!TypeOK'
  <2>1. <<>> \in Seq(G!Numbers) /\ active' \subseteq Consoles
    BY <1>1
  <2>2. replay' \in [Consoles -> Seq(G!Numbers)] /\ wire' \in [Consoles -> Seq(G!Numbers)]
    BY <1>1, <2>1
  <2>3. sequence' \in 0 .. MaxSequence /\ Len(buffer') <= MaxReplayBuffer /\ sending' \in {None} \cup G!Broadcast
    BY <1>1, <1>4, <1>5
  <2> QED
    BY <1>3, <1>4, <1>5, <2>1, <2>2, <2>3 DEF G!TypeOK
<1> QED
  BY <1>1, <1>5, <1>6 DEF StreamInv, LatestAreKept, NothingMissed, G!NothingMissed

LEMMA StreamStep == StreamInv /\ [G!Next]_(G!vars) => StreamInv'
<1> SUFFICES ASSUME StreamInv, [G!Next]_(G!vars) PROVE StreamInv'
  OBVIOUS
<1>1. ASSUME NEW c \in Consoles, NEW last \in {0, client[c].old, G!Confirmed(c)}, G!Subscribe(c, last)
      PROVE  StreamInv'
  <2>1. last \in 0 .. MaxSequence
    BY StreamTyped, ConfirmedTyped
  <2> QED
    BY <1>1, <2>1, SubscribeStep
<1>2. CASE UNCHANGED G!vars
  <2>1. UNCHANGED <<sequence, buffer, active, sending, replay, wire, client, restarts>>
    BY <1>2 DEF G!vars
  <2>2. ASSUME NEW d \in active', client'[d].phase = "subscribed" PROVE Covered(d)'
    BY <2>1, <2>2, CoveredNow DEF Covered, G!OnTheWay
  <2> QED
    BY <2>1, <2>2, StreamTyped, SendingTyped, ClientsStep
<1> QED
  BY <1>1, <1>2, ConnectStep, DisconnectStep, SendStep, BeginBroadcastStep, EndBroadcastStep, ReplayStep,
     ArrivesStep, CloseStep, ServerRestartStep DEF G!Next

LEMMA StreamInit == G!Init => StreamInv
<1> SUFFICES ASSUME G!Init PROVE StreamInv
  OBVIOUS
<1>1. /\ sequence = 0 /\ buffer = <<>> /\ active = {} /\ sending = None /\ restarts = 0
      /\ replay = [c \in Consoles |-> <<>>] /\ wire = [c \in Consoles |-> <<>>]
      /\ client = [c \in Consoles |-> G!New]
  BY DEF G!Init
<1>2. G!New \in G!Client /\ 0 \in 0 .. MaxSequence /\ 0 \in 0 .. MaxRestarts
  <2>1. 0 \in 0 .. MaxSequence /\ 0 \in 0 .. MaxRestarts
    BY BoundsAssumption
  <2> QED
    BY <2>1 DEF G!New, G!Client
<1>3. buffer \in Seq(G!Numbers) /\ Len(buffer) = 0 /\ DOMAIN buffer = {} /\ MaxReplayBuffer \in Nat
  BY <1>1, StreamAssumption DEF G!StreamAssumption
<1>4. G!TypeOK
  BY <1>1, <1>2, <1>3 DEF G!TypeOK
<1> QED
  BY <1>1, <1>3, <1>4 DEF StreamInv, LatestAreKept, NothingMissed, G!NothingMissed

\* A connected client that subscribed has every event after the one it subscribed
\* from, or the event is on its way to it (api/websocket.py, api/app.py).
THEOREM StreamHolds == G!Spec => [](G!TypeOK /\ G!NothingMissed)
<1>1. StreamInv => G!TypeOK /\ G!NothingMissed
  BY DEF StreamInv, NothingMissed
<1> QED
  BY <1>1, StreamInit, StreamStep, PTL DEF G!Spec

-----------------------------------------------------------------------------
(* The start of kernels, first what they share: markers and rows.  An epoch   *)
(* that is taken is never greater than the next one, and a kernel that is up  *)
(* has an epoch that no boot, of a kernel up or dead, counts among the dead.  *)

Up(k) == pc[k] \notin {"OFF", "DEAD"}

Statuses == {"OFF", "RECOVERING", "READY", "INTEGRITY_FAILURE", "DEAD"}

MarkersTyped ==
  /\ lifecycle \in [Kernels -> K!KernelLifecycleORM]
  /\ table \in [Rows -> K!Table]
  /\ row \in [Rows -> K!ModelLeaseORM \cup K!WorkerJobORM \cup K!TaskORM]
  /\ \A r \in Rows : row[r] \in K!RowType(table[r])
  /\ pc \in [Kernels -> Statuses] /\ epoch \in [Kernels -> Nat \ {0}]
  /\ diedBefore \in [Kernels -> SUBSET Nat] /\ defaulted \subseteq Rows

MarkersInOrder ==
  /\ \A k \in Kernels : epoch[k] <= K!NextEpoch
  /\ \A k \in Kernels : lifecycle[k].status = "ABSENT" => lifecycle[k].kernel_epoch = 0
  /\ \A k \in Kernels : pc[k] = "RECOVERING" => lifecycle[k].status = "ABSENT"
  /\ \A k \in Kernels : pc[k] = "READY" => lifecycle[k].status # "ABSENT"
  /\ \A k \in Kernels : pc[k] = "OFF" => diedBefore[k] = {}

DeadAreOlder ==
  \A k \in Kernels : \A e \in diedBefore[k] :
    e # 0 /\ e < epoch[k] /\ \A j \in Kernels : Up(j) => epoch[j] # e

\* Once the marker of a boot is committed, no row that names an epoch is held under one
\* that the boot fenced.
FencedHoldNothing ==
  \A k \in Kernels, r \in Rows \ defaulted :
    lifecycle[k].status # "ABSENT" /\ K!Held(r) => row[r].kernel_epoch \notin diedBefore[k]

RegistryInv == MarkersTyped /\ MarkersInOrder /\ DeadAreOlder /\ FencedHoldNothing

\* The next epoch is above every committed one, and just above one of them or the first.
EpochAfter(markers) == 1 + K!Max({markers[k].kernel_epoch : k \in Kernels} \cup {0})

LEMMA EpochAfterIs ==
  ASSUME NEW markers \in [Kernels -> K!KernelLifecycleORM]
  PROVE  /\ EpochAfter(markers) \in Nat \ {0}
         /\ \A k \in Kernels : markers[k].kernel_epoch \in Nat /\ markers[k].kernel_epoch < EpochAfter(markers)
         /\ EpochAfter(markers) = 1 \/ \E k \in Kernels : EpochAfter(markers) = markers[k].kernel_epoch + 1
<1> DEFINE taken == {markers[k].kernel_epoch : k \in Kernels}
           f == [k \in Kernels |-> markers[k].kernel_epoch]
<1>1. \A k \in Kernels : markers[k].kernel_epoch \in Nat
  BY DEF K!KernelLifecycleORM
<1>2. IsFiniteSet(taken)
  <2>1. taken = {f[k] : k \in Kernels}
    OBVIOUS
  <2>2. IsFiniteSet({f[k] : k \in Kernels})
    <3>1. K!IsFiniteSet(Kernels)
      BY StartupAssumption DEF K!ConstantsAssumption
    <3>2. IsFiniteSet(Kernels)
      BY <3>1 DEF K!IsFiniteSet, IsFiniteSet
    <3> HIDE DEF f
    <3> QED
      BY <3>2, FiniteImage
  <2> QED
    BY <2>1, <2>2
<1>3. IsFiniteSet(taken \cup {0}) /\ taken \cup {0} \in SUBSET Nat
  BY <1>1, <1>2, FS_AddElement
<1>4. PICK top \in taken \cup {0} : \A y \in taken \cup {0} : top >= y
  <2> HIDE DEF taken
  <2> QED
    BY <1>3, LargestNumber
<1>5. K!Max(taken \cup {0}) \in taken \cup {0} /\ \A y \in taken \cup {0} : K!Max(taken \cup {0}) >= y
  BY <1>4 DEF K!Max
<1>6. PICK m \in taken \cup {0} : m = K!Max(taken \cup {0}) /\ \A y \in taken \cup {0} : m >= y
  BY <1>5
<1>7. EpochAfter(markers) = 1 + m /\ m \in Nat
  BY <1>3, <1>6 DEF EpochAfter
<1>8. ASSUME NEW k \in Kernels PROVE markers[k].kernel_epoch \in Nat /\ markers[k].kernel_epoch < EpochAfter(markers)
  <2>1. markers[k].kernel_epoch \in taken
    OBVIOUS
  <2>2. m >= markers[k].kernel_epoch
    <3> HIDE DEF taken
    <3> QED
      BY <1>6, <2>1
  <2> QED
    BY <1>1, <1>7, <2>2
<1>9. CASE m = 0
  BY <1>7, <1>8, <1>9
<1>10. CASE m \in taken
  <2>1. PICK k \in Kernels : m = markers[k].kernel_epoch
    BY <1>10
  <2> QED
    BY <1>7, <1>8, <2>1
<1> QED
  BY <1>6, <1>9, <1>10

LEMMA NextEpochIs ==
  ASSUME lifecycle \in [Kernels -> K!KernelLifecycleORM]
  PROVE  /\ K!NextEpoch \in Nat \ {0}
         /\ \A k \in Kernels : lifecycle[k].kernel_epoch \in Nat /\ lifecycle[k].kernel_epoch < K!NextEpoch
<1>1. K!NextEpoch = EpochAfter(lifecycle)
  BY DEF K!NextEpoch, EpochAfter
<1> QED
  BY <1>1, EpochAfterIs

\* Markers that do not shrink leave every epoch below the next one.
LEMMA EpochsRise ==
  ASSUME lifecycle \in [Kernels -> K!KernelLifecycleORM], lifecycle' \in [Kernels -> K!KernelLifecycleORM],
         \A k \in Kernels : lifecycle'[k].kernel_epoch >= lifecycle[k].kernel_epoch
  PROVE  K!NextEpoch' >= K!NextEpoch /\ K!NextEpoch \in Nat /\ K!NextEpoch' \in Nat
<1>0. K!NextEpoch = EpochAfter(lifecycle) /\ K!NextEpoch' = EpochAfter(lifecycle')
  BY DEF K!NextEpoch, EpochAfter
<1>1. /\ K!NextEpoch \in Nat \ {0}
      /\ K!NextEpoch = 1 \/ \E k \in Kernels : K!NextEpoch = lifecycle[k].kernel_epoch + 1
      /\ \A k \in Kernels : lifecycle[k].kernel_epoch \in Nat
  BY <1>0, EpochAfterIs
<1>2. /\ K!NextEpoch' \in Nat \ {0}
      /\ \A k \in Kernels : lifecycle'[k].kernel_epoch \in Nat /\ lifecycle'[k].kernel_epoch < K!NextEpoch'
  BY <1>0, EpochAfterIs
<1>3. CASE K!NextEpoch = 1
  BY <1>1, <1>2, <1>3
<1>4. CASE \E k \in Kernels : K!NextEpoch = lifecycle[k].kernel_epoch + 1
  <2>1. PICK k \in Kernels : K!NextEpoch = lifecycle[k].kernel_epoch + 1
    BY <1>4
  <2> QED
    BY <1>1, <1>2, <2>1
<1> QED
  BY <1>1, <1>2, <1>3, <1>4

LEMMA RegistryTyped ==
  ASSUME RegistryInv
  PROVE  /\ lifecycle \in [Kernels -> K!KernelLifecycleORM]
         /\ \A k \in Kernels : /\ pc[k] \in Statuses /\ epoch[k] \in Nat \ {0} /\ diedBefore[k] \subseteq Nat
                               /\ lifecycle[k].kernel_epoch \in Nat /\ epoch[k] <= K!NextEpoch
         /\ K!NextEpoch \in Nat \ {0} /\ row \in [Rows -> K!ModelLeaseORM \cup K!WorkerJobORM \cup K!TaskORM]
         /\ \A r \in Rows : row[r] \in K!RowType(table[r])
  BY NextEpochIs DEF RegistryInv, MarkersTyped, MarkersInOrder

\* No boot is completed but one that fenced nothing, and what was fenced stays so.
LEMMA HeldKept ==
  ASSUME RegistryInv,
         \A k \in Kernels : lifecycle'[k].status # "ABSENT" =>
           diedBefore'[k] = {} \/ (lifecycle[k].status # "ABSENT" /\ diedBefore'[k] = diedBefore[k]),
         \A r \in Rows \ defaulted' :
           K!Held(r)' => r \notin defaulted /\ K!Held(r) /\ row'[r].kernel_epoch = row[r].kernel_epoch
  PROVE  FencedHoldNothing'
  BY DEF RegistryInv, FencedHoldNothing

LEMMA ReadyHoldsNothingDead == RegistryInv => K!DeadEpochsHoldNothing
  BY DEF RegistryInv, MarkersInOrder, FencedHoldNothing, K!DeadEpochsHoldNothing

LEMMA BootBeginStep == ASSUME RegistryInv, NEW k \in Kernels, K!BootBegin(k) PROVE RegistryInv'
<1>1. /\ ~ Up(k) /\ lifecycle[k].status = "ABSENT"
      /\ UNCHANGED <<lifecycle, row, table, defaulted>>
  BY DEF K!BootBegin, K!db, Up
<1>2. PICK n \in Nat \ {0} : n = K!NextEpoch
  BY RegistryTyped
<1>3. PICK dead \in SUBSET Nat : /\ dead = K!DeadEpochs \ {n}
        /\ \A e \in dead : e # 0 /\ e < n /\ \A j \in Kernels : Up(j) => epoch[j] # e
  <2>1. PICK dead : dead = K!DeadEpochs \ {n}
    OBVIOUS
  <2>2. ASSUME NEW e \in dead PROVE e \in Nat /\ e # 0 /\ e < n /\ \A j \in Kernels : Up(j) => epoch[j] # e
    <3>1. (\E x \in Kernels : e = epoch[x]) /\ e # n /\ \A j \in Kernels : Up(j) => epoch[j] # e
      BY <2>1 DEF K!DeadEpochs, Up
    <3> QED
      BY <1>2, <3>1, RegistryTyped
  <2> QED
    BY <2>1, <2>2
<1>4. /\ epoch' = [epoch EXCEPT ![k] = n] /\ pc' = [pc EXCEPT ![k] = "RECOVERING"]
      /\ diedBefore' = [diedBefore EXCEPT ![k] = dead] /\ K!NextEpoch' = n
  BY <1>1, <1>2, <1>3 DEF K!BootBegin, K!NextEpoch
<1>5. MarkersTyped'
  BY <1>1, <1>4 DEF RegistryInv, MarkersTyped, Statuses
<1>6. \A j \in Kernels : /\ epoch'[j] = (IF j = k THEN n ELSE epoch[j])
                         /\ pc'[j] = (IF j = k THEN "RECOVERING" ELSE pc[j])
                         /\ diedBefore'[j] = (IF j = k THEN dead ELSE diedBefore[j])
  BY <1>4 DEF RegistryInv, MarkersTyped
<1>7. MarkersInOrder'
  BY <1>1, <1>2, <1>4, <1>6, RegistryTyped DEF RegistryInv, MarkersInOrder
<1>8. DeadAreOlder'
  <2>1. ASSUME NEW i \in Kernels, NEW e \in diedBefore'[i]
        PROVE  e # 0 /\ e < epoch'[i] /\ \A j \in Kernels : Up(j)' => epoch'[j] # e
    <3>1. CASE i = k
      <4>1. e \in dead /\ e \in Nat /\ epoch'[i] = n
        BY <1>6, <2>1, <3>1
      <4>2. e # 0 /\ e < n /\ \A j \in Kernels : Up(j) => epoch[j] # e
        BY <1>3, <4>1
      <4>3. ASSUME NEW j \in Kernels, Up(j)' PROVE epoch'[j] # e
        BY <1>6, <4>1, <4>2, <4>3 DEF Up
      <4> QED
        BY <4>1, <4>2, <4>3
    <3>2. CASE i # k
      <4>1. e \in diedBefore[i] /\ e \in Nat /\ epoch[i] \in Nat /\ epoch[i] <= n
        BY <1>2, <1>6, <2>1, <3>2, RegistryTyped
      <4>2. e # 0 /\ e < epoch[i] /\ \A j \in Kernels : Up(j) => epoch[j] # e
        BY <4>1 DEF RegistryInv, DeadAreOlder
      <4> QED
        BY <1>2, <1>6, <3>2, <4>1, <4>2 DEF Up
    <3> QED
      BY <3>1, <3>2
  <2> QED
    BY <2>1 DEF DeadAreOlder
<1>9. FencedHoldNothing'
  BY <1>1, <1>6, HeldKept DEF K!Held
<1> QED
  BY <1>5, <1>7, <1>8, <1>9 DEF RegistryInv

\* What recovery leaves of a row is a row of its table, and what it leaves held is of
\* no older epoch.
LEMMA FencedRow ==
  ASSUME NEW t \in K!Table, NEW x \in K!RowType(t), NEW e \in Nat
  PROVE  LET y == K!Fenced(t, x, e) IN
         /\ y \in K!RowType(t)
         /\ y.status \in {"ACTIVE", "LEASED"} => y = x /\ x.kernel_epoch >= e
<1>1. CASE t = "model_leases"
  <2>1. K!RowType(t) = K!ModelLeaseORM
    BY <1>1 DEF K!RowType
  <2>2. K!Fenced(t, x, e) = IF x.status = "ACTIVE" /\ x.kernel_epoch < e THEN [x EXCEPT !.status = "REVOKED"] ELSE x
    BY <1>1 DEF K!Fenced, K!Stale
  <2>3. x \in K!ModelLeaseORM /\ x.kernel_epoch \in Nat
    BY <2>1 DEF K!ModelLeaseORM
  <2>4. [x EXCEPT !.status = "REVOKED"] \in K!ModelLeaseORM /\ [x EXCEPT !.status = "REVOKED"].status = "REVOKED"
    BY <2>3 DEF K!ModelLeaseORM
  <2> QED
    BY <2>1, <2>2, <2>3, <2>4 DEF K!ModelLeaseORM
<1>2. CASE t = "worker_jobs"
  <2>1. K!RowType(t) = K!WorkerJobORM
    BY <1>2 DEF K!RowType
  <2>2. K!Fenced(t, x, e) = IF x.status = "LEASED" /\ x.kernel_epoch < e THEN [x EXCEPT !.status = "QUEUED"] ELSE x
    BY <1>2 DEF K!Fenced, K!Stale
  <2>3. x \in K!WorkerJobORM /\ x.kernel_epoch \in Nat
    BY <2>1 DEF K!WorkerJobORM
  <2>4. [x EXCEPT !.status = "QUEUED"] \in K!WorkerJobORM /\ [x EXCEPT !.status = "QUEUED"].status = "QUEUED"
    BY <2>3 DEF K!WorkerJobORM
  <2> QED
    BY <2>1, <2>2, <2>3, <2>4 DEF K!WorkerJobORM
<1>3. CASE t = "tasks"
  <2>1. K!RowType(t) = K!TaskORM
    BY <1>3 DEF K!RowType
  <2>2. K!Fenced(t, x, e) = IF x.status = "RUNNING" THEN [x EXCEPT !.status = "RECOVERY_REQUIRED"] ELSE x
    BY <1>3 DEF K!Fenced, K!Stale
  <2>3. x \in K!TaskORM /\ x.kernel_epoch \in Nat
    BY <2>1 DEF K!TaskORM
  <2>4. [x EXCEPT !.status = "RECOVERY_REQUIRED"] \in K!TaskORM /\ [x EXCEPT !.status = "RECOVERY_REQUIRED"].status = "RECOVERY_REQUIRED"
    BY <2>3 DEF K!TaskORM
  <2> QED
    BY <2>1, <2>2, <2>3, <2>4 DEF K!TaskORM
<1> QED
  BY <1>1, <1>2, <1>3 DEF K!Table

LEMMA RowTypes ==
  ASSUME NEW t \in K!Table
  PROVE  K!RowType(t) \subseteq K!ModelLeaseORM \cup K!WorkerJobORM \cup K!TaskORM
  BY DEF K!RowType, K!Table

LEMMA BootEndRegistry == ASSUME RegistryInv, NEW k \in Kernels, K!BootEnd(k) PROVE RegistryInv'
<1>1. pc[k] = "RECOVERING" /\ lifecycle[k].status = "ABSENT" /\ lifecycle[k].kernel_epoch = 0
  BY DEF K!BootEnd, RegistryInv, MarkersInOrder
<1>2. PICK n \in Nat \ {0} : n = epoch[k]
  BY RegistryTyped
<1>3. PICK x \in K!KernelLifecycleORM : x = [status |-> "RUNNING", kernel_epoch |-> n]
  BY DEF K!KernelLifecycleORM
<1>4. lifecycle' = [lifecycle EXCEPT ![k] = x] /\ UNCHANGED <<table, epoch, defaulted>>
  BY <1>2, <1>3 DEF K!BootEnd
<1>5. \/ /\ pc' = [pc EXCEPT ![k] = "READY"] /\ UNCHANGED diedBefore
         /\ row' = [r \in Rows |-> K!Fenced(table[r], row[r], n)]
      \/ /\ pc' = [pc EXCEPT ![k] = "INTEGRITY_FAILURE"] /\ UNCHANGED row
         /\ diedBefore' = [diedBefore EXCEPT ![k] = {}]
  BY <1>2 DEF K!BootEnd
<1>5a. /\ diedBefore' \in [Kernels -> SUBSET Nat]
       /\ \A j \in Kernels : /\ diedBefore'[j] \subseteq diedBefore[j]
                             /\ diedBefore'[j] = diedBefore[j] \/ diedBefore'[j] = {}
                             /\ j # k => diedBefore'[j] = diedBefore[j]
       /\ pc'[k] # "READY" => diedBefore'[k] = {}
  BY <1>1, <1>5 DEF RegistryInv, MarkersTyped, Statuses
<1>6. \A r \in Rows : /\ table[r] \in K!Table /\ row[r] \in K!RowType(table[r])
                      /\ row'[r] \in K!RowType(table[r]) /\ (K!Held(r)' => row'[r] = row[r])
                      /\ K!Held(r)' /\ pc'[k] = "READY" => row[r].kernel_epoch >= n
  <2>1. \A r \in Rows : table[r] \in K!Table /\ row[r] \in K!RowType(table[r])
    BY DEF RegistryInv, MarkersTyped
  <2>2. CASE pc' = [pc EXCEPT ![k] = "INTEGRITY_FAILURE"] /\ UNCHANGED row
    BY <2>1, <2>2 DEF RegistryInv, MarkersTyped
  <2>3. CASE row' = [r \in Rows |-> K!Fenced(table[r], row[r], n)]
    BY <2>1, <2>3, FencedRow DEF K!Held
  <2> QED
    BY <1>5, <2>2, <2>3
<1>7. \A j \in Kernels : /\ lifecycle'[j] = (IF j = k THEN x ELSE lifecycle[j])
                         /\ j # k => pc'[j] = pc[j]
  BY <1>4, <1>5 DEF RegistryInv, MarkersTyped
<1>8. pc' \in [Kernels -> Statuses] /\ pc'[k] \in {"READY", "INTEGRITY_FAILURE"}
  BY <1>5 DEF RegistryInv, MarkersTyped, Statuses
<1>9. MarkersTyped'
  <2>1. row' \in [Rows -> K!ModelLeaseORM \cup K!WorkerJobORM \cup K!TaskORM]
    BY <1>5, <1>6, RowTypes, RegistryTyped
  <2>2. lifecycle' \in [Kernels -> K!KernelLifecycleORM]
    BY <1>4, RegistryTyped
  <2> QED
    BY <1>4, <1>5a, <1>6, <1>8, <2>1, <2>2 DEF RegistryInv, MarkersTyped
<1>10. MarkersInOrder'
  <2>1. K!NextEpoch' >= K!NextEpoch /\ K!NextEpoch \in Nat /\ K!NextEpoch' \in Nat
    <3>1. \A j \in Kernels : lifecycle'[j].kernel_epoch >= lifecycle[j].kernel_epoch
      BY <1>1, <1>3, <1>7, RegistryTyped
    <3> QED
      BY <1>9, <3>1, RegistryTyped, EpochsRise DEF MarkersTyped
  <2>2. \A j \in Kernels : epoch'[j] <= K!NextEpoch'
    BY <1>4, <2>1, RegistryTyped
  <2> QED
    BY <1>3, <1>5a, <1>7, <1>8, <2>2 DEF RegistryInv, MarkersInOrder
<1>11. DeadAreOlder'
  <2>1. \A j \in Kernels : Up(j)' <=> Up(j)
    BY <1>1, <1>7, <1>8 DEF Up
  <2> QED
    BY <1>4, <1>5a, <2>1 DEF RegistryInv, DeadAreOlder
<1>12. FencedHoldNothing'
  <2>1. ASSUME NEW j \in Kernels, NEW r \in Rows \ defaulted', lifecycle'[j].status # "ABSENT", K!Held(r)'
        PROVE  row'[r].kernel_epoch \notin diedBefore'[j]
    <3>1. row'[r] = row[r] /\ K!Held(r)
      BY <1>6, <2>1 DEF K!Held
    <3>2. CASE j = k /\ pc'[k] = "READY"
      <4>1. \A e \in diedBefore[k] : e < n /\ e \in Nat
        BY <1>2, RegistryTyped DEF RegistryInv, DeadAreOlder
      <4>2. row[r].kernel_epoch >= n
        BY <1>6, <2>1, <3>2
      <4> QED
        BY <1>5a, <3>1, <3>2, <4>1, <4>2
    <3>3. CASE j # k
      BY <1>4, <1>5a, <1>7, <2>1, <3>1, <3>3 DEF RegistryInv, FencedHoldNothing
    <3> QED
      BY <1>5a, <3>2, <3>3
  <2> QED
    BY <2>1 DEF FencedHoldNothing
<1> QED
  BY <1>9, <1>10, <1>11, <1>12 DEF RegistryInv

\* A step that moves no epoch, shrinks no marker and puts no kernel up.
LEMMA KernelsStay ==
  ASSUME RegistryInv, UNCHANGED <<table, row, epoch, diedBefore, defaulted>>,
         pc' \in [Kernels -> Statuses], \A k \in Kernels : pc'[k] = pc[k] \/ pc'[k] = "DEAD",
         lifecycle' \in [Kernels -> K!KernelLifecycleORM],
         \A k \in Kernels : lifecycle'[k].kernel_epoch >= lifecycle[k].kernel_epoch,
         \A k \in Kernels : lifecycle'[k].status = "ABSENT" => lifecycle'[k] = lifecycle[k],
         \A k \in Kernels : pc'[k] = "RECOVERING" => lifecycle'[k] = lifecycle[k],
         \A k \in Kernels : lifecycle[k].status = "ABSENT" /\ lifecycle'[k].status # "ABSENT" => pc[k] = "OFF"
  PROVE  RegistryInv'
<1>1. MarkersTyped'
  BY DEF RegistryInv, MarkersTyped
<1>2. K!NextEpoch' >= K!NextEpoch /\ K!NextEpoch \in Nat /\ K!NextEpoch' \in Nat
  BY RegistryTyped, EpochsRise
<1>3. \A k \in Kernels : epoch'[k] <= K!NextEpoch'
  BY <1>2, RegistryTyped
<1>4. MarkersInOrder'
  BY <1>3 DEF RegistryInv, MarkersInOrder
<1>5. DeadAreOlder'
  BY DEF RegistryInv, DeadAreOlder, Up
<1>6. FencedHoldNothing'
  BY HeldKept DEF K!Held, RegistryInv, MarkersInOrder
<1> QED
  BY <1>1, <1>4, <1>5, <1>6 DEF RegistryInv

LEMMA RegistryStutters ==
  ASSUME RegistryInv, UNCHANGED <<lifecycle, table, row, pc, epoch, diedBefore, defaulted>> PROVE RegistryInv'
<1>1. pc' \in [Kernels -> Statuses]
  BY DEF RegistryInv, MarkersTyped
<1>2. \A k \in Kernels : lifecycle'[k].kernel_epoch >= lifecycle[k].kernel_epoch
  BY RegistryTyped
<1> QED
  BY <1>1, <1>2, RegistryTyped, KernelsStay

LEMMA DieRegistry == ASSUME RegistryInv, NEW k \in Kernels, K!Die(k) PROVE RegistryInv'
<1>1. pc' = [pc EXCEPT ![k] = "DEAD"] /\ UNCHANGED <<lifecycle, table, row, epoch, diedBefore, defaulted>>
  BY DEF K!Die, K!db
<1>2. pc' \in [Kernels -> Statuses] /\ \A j \in Kernels : pc'[j] = pc[j] \/ pc'[j] = "DEAD"
  BY <1>1 DEF RegistryInv, MarkersTyped, Statuses
<1>3. \A j \in Kernels : lifecycle'[j].kernel_epoch >= lifecycle[j].kernel_epoch
  BY <1>1, RegistryTyped
<1> QED
  BY <1>1, <1>2, <1>3, RegistryTyped, KernelsStay

LEMMA ShutdownRegistry == ASSUME RegistryInv, NEW k \in Kernels, K!RecordCleanShutdown(k) PROVE RegistryInv'
<1>1. PICK status : status = IF lifecycle[k].status = "RUNNING" THEN "CLEAN_SHUTDOWN" ELSE lifecycle[k].status
  OBVIOUS
<1>2. PICK x : x = [lifecycle[k] EXCEPT !.status = status]
  OBVIOUS
<1>3. lifecycle[k] \in K!KernelLifecycleORM
  BY RegistryTyped
<1>4. /\ x \in K!KernelLifecycleORM /\ x.kernel_epoch = lifecycle[k].kernel_epoch
      /\ x.status = "ABSENT" => x = lifecycle[k]
      /\ lifecycle[k].status = "ABSENT" => x.status = "ABSENT"
  BY <1>1, <1>2, <1>3 DEF K!KernelLifecycleORM
<1>5. lifecycle' = [lifecycle EXCEPT ![k] = x]
  BY <1>1, <1>2 DEF K!RecordCleanShutdown
<1>6. pc[k] = "READY" /\ pc' = [pc EXCEPT ![k] = "DEAD"] /\ UNCHANGED <<table, row, epoch, diedBefore, defaulted>>
  BY DEF K!RecordCleanShutdown
<1>7. \A j \in Kernels : /\ lifecycle'[j] = (IF j = k THEN x ELSE lifecycle[j])
                         /\ pc'[j] = (IF j = k THEN "DEAD" ELSE pc[j])
  BY <1>5, <1>6, RegistryTyped DEF RegistryInv, MarkersTyped
<1>8. pc' \in [Kernels -> Statuses] /\ lifecycle' \in [Kernels -> K!KernelLifecycleORM]
  BY <1>4, <1>5, <1>6 DEF RegistryInv, MarkersTyped, Statuses
<1>9. \A j \in Kernels : lifecycle'[j].kernel_epoch >= lifecycle[j].kernel_epoch
  BY <1>4, <1>7, RegistryTyped
<1> QED
  BY <1>4, <1>6, <1>7, <1>8, <1>9, KernelsStay

LEMMA RestoreRegistry == ASSUME RegistryInv, NEW k \in Kernels, K!Restore(k) PROVE RegistryInv'
<1>1. /\ pc[k] = "OFF" /\ lifecycle[k].status = "ABSENT" /\ lifecycle[k].kernel_epoch = 0
      /\ UNCHANGED <<row, table, pc, epoch, diedBefore, defaulted>>
  BY DEF K!Restore, K!process, RegistryInv, MarkersInOrder
<1>2. PICK n \in Nat \ {0} : n = K!NextEpoch
  BY RegistryTyped
<1>3. PICK x \in K!KernelLifecycleORM : x = [status |-> "RUNNING", kernel_epoch |-> n]
  BY DEF K!KernelLifecycleORM
<1>4. lifecycle' = [lifecycle EXCEPT ![k] = x]
  BY <1>2, <1>3 DEF K!Restore
<1>5. \A j \in Kernels : lifecycle'[j] = (IF j = k THEN x ELSE lifecycle[j])
  BY <1>4, RegistryTyped
<1>6. lifecycle' \in [Kernels -> K!KernelLifecycleORM]
  BY <1>4, RegistryTyped
<1>7. \A j \in Kernels : lifecycle'[j].kernel_epoch >= lifecycle[j].kernel_epoch
  BY <1>1, <1>3, <1>5, RegistryTyped
<1>8. pc' \in [Kernels -> Statuses]
  BY <1>1 DEF RegistryInv, MarkersTyped
<1> QED
  BY <1>1, <1>3, <1>5, <1>6, <1>7, <1>8, KernelsStay

LEMMA LostRegistry == ASSUME RegistryInv, K!DatabaseLost PROVE RegistryInv'
<1>1. /\ lifecycle' = [k \in Kernels |-> [status |-> "ABSENT", kernel_epoch |-> 0]]
      /\ row' = [r \in Rows |-> K!Absent] /\ pc' = [k \in Kernels |-> "OFF"]
      /\ epoch' = [k \in Kernels |-> 1] /\ diedBefore' = [k \in Kernels |-> {}]
      /\ defaulted' = {} /\ UNCHANGED table
  BY DEF K!DatabaseLost
<1>2. lifecycle' \in [Kernels -> K!KernelLifecycleORM]
  BY <1>1 DEF K!KernelLifecycleORM
<1>3. \A t \in K!Table : K!Absent \in K!RowType(t)
  <2>1. 0 \in 0 .. MaxWrites
    BY StartupAssumption DEF K!ConstantsAssumption
  <2>2. K!Absent \in K!ModelLeaseORM /\ K!Absent \in K!WorkerJobORM /\ K!Absent \in K!TaskORM
    BY <2>1 DEF K!Absent, K!ModelLeaseORM, K!WorkerJobORM, K!TaskORM
  <2> QED
    BY <2>2 DEF K!RowType, K!Table
<1>4. \A r \in Rows : table[r] \in K!Table /\ row'[r] \in K!RowType(table[r])
  BY <1>1, <1>3 DEF RegistryInv, MarkersTyped
<1>5. MarkersTyped'
  <2>1. row' \in [Rows -> K!ModelLeaseORM \cup K!WorkerJobORM \cup K!TaskORM]
    BY <1>1, <1>4, RowTypes
  <2> QED
    BY <1>1, <1>2, <1>4, <2>1 DEF RegistryInv, MarkersTyped, Statuses
<1>6. K!NextEpoch' = EpochAfter(lifecycle') /\ K!NextEpoch' \in Nat \ {0}
  BY <1>2, EpochAfterIs DEF K!NextEpoch, EpochAfter
<1>7. \A k \in Kernels : /\ epoch'[k] = 1 /\ pc'[k] = "OFF" /\ diedBefore'[k] = {}
                         /\ lifecycle'[k].kernel_epoch = 0 /\ lifecycle'[k].status = "ABSENT"
  BY <1>1
<1> QED
  BY <1>5, <1>6, <1>7 DEF RegistryInv, MarkersInOrder, DeadAreOlder, Up, FencedHoldNothing

\* A row that a kernel which is up writes is held, if it is, under that kernel's epoch
\* or under the default one.
Writes(k, r, x) ==
  /\ K!Write(k, r, x)
  /\ \/ defaulted' = defaulted \cup {r}
     \/ defaulted' = defaulted \ {r} /\ x.kernel_epoch = epoch[k]
     \/ defaulted' = defaulted /\ x.status \notin {"ACTIVE", "LEASED"}
RowWritten(k, r) == \E x \in K!RowType(table[r]) : Writes(k, r, x)

LEMMA WriteRegistry ==
  ASSUME RegistryInv, NEW k \in Kernels, NEW r \in Rows, RowWritten(k, r)
  PROVE  RegistryInv'
<1>0. PICK x \in K!RowType(table[r]) :
        /\ K!Write(k, r, x) /\ defaulted' \subseteq defaulted \cup {r}
        /\ \A z \in Rows : z # r => (z \in defaulted' <=> z \in defaulted)
        /\ r \notin defaulted' /\ x.status \in {"ACTIVE", "LEASED"} => x.kernel_epoch = epoch[k]
  BY DEF RowWritten, Writes
<1>1. /\ pc[k] = "READY" /\ row' = [row EXCEPT ![r] = x]
      /\ UNCHANGED <<lifecycle, table, pc, epoch, diedBefore>>
  BY <1>0 DEF K!Write, K!process
<1>2. \A z \in Rows : table[z] \in K!Table /\ row'[z] = (IF z = r THEN x ELSE row[z])
  BY <1>1 DEF RegistryInv, MarkersTyped
<1>3. \A z \in Rows : row'[z] \in K!RowType(table[z])
  BY <1>0, <1>2, RegistryTyped
<1>4. MarkersTyped'
  <2>1. row' \in [Rows -> K!ModelLeaseORM \cup K!WorkerJobORM \cup K!TaskORM]
    BY <1>1, <1>2, <1>3, RowTypes, RegistryTyped
  <2> QED
    BY <1>0, <1>1, <1>3, <2>1 DEF RegistryInv, MarkersTyped
<1>5. MarkersInOrder'
  BY <1>1 DEF RegistryInv, MarkersInOrder, K!NextEpoch
<1>6. DeadAreOlder'
  BY <1>1 DEF RegistryInv, DeadAreOlder, Up
<1>7. ASSUME NEW j \in Kernels, NEW z \in Rows \ defaulted', lifecycle'[j].status # "ABSENT", K!Held(z)'
      PROVE  row'[z].kernel_epoch \notin diedBefore'[j]
  <2>1. CASE z = r
    BY <1>0, <1>1, <1>2, <1>7, <2>1 DEF K!Held, RegistryInv, DeadAreOlder, Up
  <2>2. CASE z # r
    BY <1>0, <1>1, <1>2, <1>7, <2>2 DEF K!Held, RegistryInv, FencedHoldNothing
  <2> QED
    BY <2>1, <2>2
<1> QED
  BY <1>4, <1>5, <1>6, <1>7 DEF RegistryInv, FencedHoldNothing

LEMMA RowOf ==
  ASSUME RegistryInv, NEW r \in Rows
  PROVE  /\ row[r] \in K!RowType(table[r])
         /\ table[r] = "model_leases" => K!RowType(table[r]) = K!ModelLeaseORM
         /\ table[r] = "worker_jobs" => K!RowType(table[r]) = K!WorkerJobORM
         /\ table[r] = "tasks" => K!RowType(table[r]) = K!TaskORM
  BY RegistryTyped DEF K!RowType

\* What the writers of a kernel_epoch write.
LEMMA HeldWritten ==
  ASSUME RegistryInv, NEW k \in Kernels, NEW r \in Rows, NEW x, K!WriteHeld(k, r, x),
         \A e \in Nat : [x EXCEPT !.kernel_epoch = e] \in K!RowType(table[r]),
         \A e \in Nat : [x EXCEPT !.kernel_epoch = e].kernel_epoch = e
  PROVE  RowWritten(k, r)
<1>1. PICK named \in BOOLEAN :
        /\ K!Write(k, r, [x EXCEPT !.kernel_epoch = IF named THEN epoch[k] ELSE 1])
        /\ defaulted' = IF named THEN defaulted \ {r} ELSE defaulted \cup {r}
  BY DEF K!WriteHeld
<1>2. PICK e \in Nat : e = (IF named THEN epoch[k] ELSE 1)
  BY RegistryTyped
<1>3. PICK y : y = [x EXCEPT !.kernel_epoch = e]
  OBVIOUS
<1>4. y \in K!RowType(table[r]) /\ y.kernel_epoch = e
  BY <1>3
<1>5. K!Write(k, r, y)
  BY <1>1, <1>2, <1>3
<1>6. defaulted' = defaulted \cup {r} \/ (defaulted' = defaulted \ {r} /\ y.kernel_epoch = epoch[k])
  BY <1>1, <1>2, <1>4
<1> QED
  BY <1>4, <1>5, <1>6 DEF RowWritten, Writes

LEMMA LeaseWritten ==
  ASSUME RegistryInv, NEW k \in Kernels, NEW r \in Rows, K!SaveLease(k, r) \/ K!RevokeLease(k, r)
  PROVE  RowWritten(k, r)
<1>1. table[r] = "model_leases" /\ row[r] \in K!ModelLeaseORM /\ K!RowType(table[r]) = K!ModelLeaseORM
  BY RowOf DEF K!SaveLease, K!RevokeLease
<1>3. CASE K!SaveLease(k, r)
  <2>1. PICK x : x = [row[r] EXCEPT !.status = "ACTIVE"]
    OBVIOUS
  <2>2. x \in K!ModelLeaseORM
    BY <1>1, <2>1 DEF K!ModelLeaseORM
  <2>3. \A e \in Nat : [x EXCEPT !.kernel_epoch = e] \in K!ModelLeaseORM /\ [x EXCEPT !.kernel_epoch = e].kernel_epoch = e
    BY <2>2 DEF K!ModelLeaseORM
  <2>4. K!WriteHeld(k, r, x)
    BY <1>3, <2>1 DEF K!SaveLease
  <2> QED
    BY <1>1, <2>3, <2>4, HeldWritten
<1>4. CASE K!RevokeLease(k, r)
  <2>1. PICK x : x = [row[r] EXCEPT !.status = "REVOKED"]
    OBVIOUS
  <2>2. x \in K!ModelLeaseORM /\ x.status = "REVOKED"
    BY <1>1, <2>1 DEF K!ModelLeaseORM
  <2>3. K!Write(k, r, x) /\ defaulted' = defaulted
    BY <1>4, <2>1 DEF K!RevokeLease, K!WriteOther
  <2> QED
    BY <1>1, <2>2, <2>3 DEF RowWritten, Writes
<1> QED
  BY <1>3, <1>4

LEMMA JobWritten ==
  ASSUME RegistryInv, NEW k \in Kernels, NEW r \in Rows,
         K!SaveJob(k, r) \/ K!UpdateJobLease(k, r) \/ K!CompleteJob(k, r)
  PROVE  RowWritten(k, r)
<1>1. table[r] = "worker_jobs" /\ row[r] \in K!WorkerJobORM /\ K!RowType(table[r]) = K!WorkerJobORM
  BY RowOf DEF K!SaveJob, K!UpdateJobLease, K!CompleteJob
<1>3. CASE K!SaveJob(k, r)
  <2>1. PICK x : x = [row[r] EXCEPT !.status = "QUEUED"]
    OBVIOUS
  <2>2. x \in K!WorkerJobORM
    BY <1>1, <2>1 DEF K!WorkerJobORM
  <2>3. \A e \in Nat : [x EXCEPT !.kernel_epoch = e] \in K!WorkerJobORM /\ [x EXCEPT !.kernel_epoch = e].kernel_epoch = e
    BY <2>2 DEF K!WorkerJobORM
  <2>4. K!WriteHeld(k, r, x)
    BY <1>3, <2>1 DEF K!SaveJob
  <2> QED
    BY <1>1, <2>3, <2>4, HeldWritten
<1>4. CASE K!UpdateJobLease(k, r)
  <2>1. PICK g \in 1 .. MaxWrites : K!WriteHeld(k, r, [row[r] EXCEPT !.status = "LEASED", !.version = g])
    BY <1>4 DEF K!UpdateJobLease
  <2>2. PICK x : x = [row[r] EXCEPT !.status = "LEASED", !.version = g]
    OBVIOUS
  <2>3. x \in K!WorkerJobORM
    <3>1. g \in 0 .. MaxWrites
      BY StartupAssumption DEF K!ConstantsAssumption
    <3> QED
      BY <1>1, <2>2, <3>1 DEF K!WorkerJobORM
  <2>4. \A e \in Nat : [x EXCEPT !.kernel_epoch = e] \in K!WorkerJobORM /\ [x EXCEPT !.kernel_epoch = e].kernel_epoch = e
    BY <2>3 DEF K!WorkerJobORM
  <2>5. K!WriteHeld(k, r, x)
    BY <2>1, <2>2
  <2> QED
    BY <1>1, <2>4, <2>5, HeldWritten
<1>5. CASE K!CompleteJob(k, r)
  <2>1. PICK x : x = [row[r] EXCEPT !.status = "COMPLETED"]
    OBVIOUS
  <2>2. x \in K!WorkerJobORM /\ x.status = "COMPLETED"
    BY <1>1, <2>1 DEF K!WorkerJobORM
  <2>3. K!Write(k, r, x) /\ defaulted' = defaulted
    BY <1>5, <2>1 DEF K!CompleteJob, K!WriteOther
  <2> QED
    BY <1>1, <2>2, <2>3 DEF RowWritten, Writes
<1> QED
  BY <1>3, <1>4, <1>5

LEMMA TaskWritten ==
  ASSUME RegistryInv, NEW k \in Kernels, NEW r \in Rows,
         K!SaveTask(k, r) \/ \E v \in 1 .. MaxWrites : K!UpdateTaskStatusWithVersion(k, r, v)
  PROVE  RowWritten(k, r)
<1>1. table[r] = "tasks" /\ row[r] \in K!TaskORM /\ K!RowType(table[r]) = K!TaskORM
  BY RowOf DEF K!SaveTask, K!UpdateTaskStatusWithVersion
<1>2. MaxWrites \in Nat \ {0}
  BY StartupAssumption DEF K!ConstantsAssumption
<1>3. PICK s \in {"PLANNED", "RUNNING", "COMPLETED"}, v \in 0 .. MaxWrites :
        K!WriteOther(k, r, [row[r] EXCEPT !.status = s, !.version = v])
  <2>1. CASE K!SaveTask(k, r)
    <3>1. PICK s \in {"PLANNED", "RUNNING"} : K!WriteOther(k, r, [row[r] EXCEPT !.status = s, !.version = 1])
      BY <2>1 DEF K!SaveTask
    <3>2. 1 \in 0 .. MaxWrites
      BY <1>2
    <3> QED
      BY <3>1, <3>2
  <2>2. ASSUME NEW n \in 1 .. MaxWrites, K!UpdateTaskStatusWithVersion(k, r, n)
        PROVE  \E s \in {"PLANNED", "RUNNING", "COMPLETED"}, v \in 0 .. MaxWrites :
                 K!WriteOther(k, r, [row[r] EXCEPT !.status = s, !.version = v])
    <3>1. n < MaxWrites
      BY <2>2 DEF K!UpdateTaskStatusWithVersion
    <3>2. n + 1 \in 0 .. MaxWrites
      BY <1>2, <3>1
    <3>3. PICK s \in {"RUNNING", "COMPLETED"} : K!WriteOther(k, r, [row[r] EXCEPT !.status = s, !.version = n + 1])
      BY <2>2 DEF K!UpdateTaskStatusWithVersion
    <3> QED
      BY <3>2, <3>3
  <2> QED
    BY <2>1, <2>2
<1>4. PICK x : x = [row[r] EXCEPT !.status = s, !.version = v]
  OBVIOUS
<1>5. x \in K!TaskORM /\ x.status = s
  BY <1>1, <1>4 DEF K!TaskORM
<1> QED
  BY <1>1, <1>3, <1>4, <1>5 DEF RowWritten, Writes, K!WriteOther

LEMMA RegistryStep == RegistryInv /\ [K!Next]_(K!vars) => RegistryInv'
<1> SUFFICES ASSUME RegistryInv, [K!Next]_(K!vars) PROVE RegistryInv'
  OBVIOUS
<1>1. ASSUME NEW k \in Kernels, K!RecordEvent(k) \/ K!PackageEvents(k) PROVE RegistryInv'
  BY <1>1, RegistryStutters DEF K!RecordEvent, K!PackageEvents, K!db, K!process
<1>2. CASE K!RowDamaged \/ UNCHANGED K!vars
  BY <1>2, RegistryStutters DEF K!RowDamaged, K!vars, K!db, K!process
<1> QED
  BY <1>1, <1>2, BootBeginStep, BootEndRegistry, DieRegistry, ShutdownRegistry, RestoreRegistry,
     LostRegistry, LeaseWritten, JobWritten, TaskWritten, WriteRegistry DEF K!Next

LEMMA RegistryInit == K!Init => RegistryInv
<1> SUFFICES ASSUME K!Init PROVE RegistryInv
  OBVIOUS
<1>1. /\ lifecycle = [k \in Kernels |-> [status |-> "ABSENT", kernel_epoch |-> 0]]
      /\ table \in [Rows -> K!Table] /\ row = [r \in Rows |-> K!Absent]
      /\ pc = [k \in Kernels |-> "OFF"] /\ epoch = [k \in Kernels |-> 1]
      /\ diedBefore = [k \in Kernels |-> {}] /\ defaulted = {}
  BY DEF K!Init
<1>2. 0 \in 0 .. MaxWrites
  BY StartupAssumption DEF K!ConstantsAssumption
<1>3. K!Absent \in K!ModelLeaseORM /\ K!Absent \in K!WorkerJobORM /\ K!Absent \in K!TaskORM
  BY <1>2 DEF K!Absent, K!ModelLeaseORM, K!WorkerJobORM, K!TaskORM
<1>4. lifecycle \in [Kernels -> K!KernelLifecycleORM]
  BY <1>1 DEF K!KernelLifecycleORM
<1>5. MarkersTyped
  BY <1>1, <1>3, <1>4 DEF MarkersTyped, K!RowType, K!Table, Statuses
<1>6. K!NextEpoch \in Nat \ {0}
  BY <1>4, NextEpochIs
<1> QED
  BY <1>1, <1>5, <1>6 DEF RegistryInv, MarkersInOrder, DeadAreOlder, Up, FencedHoldNothing

-----------------------------------------------------------------------------
(* The start of kernels, then the events.  An event follows an older one, so  *)
(* along a chain the events get younger and none is there twice.              *)

GoodEvents == {e \in K!EventORM : e.prev < e.id /\ e.id <= made}

GoodPackages == [start : Nat, event : GoodEvents, previous : Nat]

LogsInv ==
  /\ made \in 0 .. MaxEvents
  /\ events \in Seq(GoodEvents) /\ inMemory \in [Kernels -> Seq(GoodEvents)]
  /\ packages \in Seq(GoodPackages)
  /\ pc \in [Kernels -> Statuses]
  /\ \A k \in Kernels : pc[k] = "READY" => K!ChainIntact(inMemory[k])

LEMMA SeqGrows ==
  ASSUME NEW S, NEW T, S \subseteq T, NEW s \in Seq(S) PROVE s \in Seq(T)
<1>1. /\ Len(s) \in Nat /\ s \in [1 .. Len(s) -> S]
  BY LenProperties, ElementOfSeq
<1>2. s \in [1 .. Len(s) -> T]
  BY <1>1
<1> QED
  BY <1>1, <1>2, SeqDef

LEMMA EventsStayGood ==
  ASSUME made \in Nat, made' \in Nat, made <= made'
  PROVE  GoodEvents \subseteq GoodEvents' /\ GoodPackages \subseteq GoodPackages'
<1>1. GoodEvents \subseteq GoodEvents'
  BY DEF GoodEvents, K!EventORM
<1> QED
  BY <1>1 DEF GoodPackages

LEMMA GoodIsEvent == GoodEvents \subseteq K!EventORM
  BY DEF GoodEvents

\* Along an unbroken chain no event is there twice.
LEMMA ChainWithoutRepetition ==
  ASSUME LogsInv, NEW s \in Seq(GoodEvents), K!ChainIntact(s)
  PROVE  \A i, j \in DOMAIN s : s[i].id = s[j].id => i = j
<1> DEFINE n == Len(s)
           f == [i \in 1 .. n |-> s[i].id]
<1>1. n \in Nat /\ DOMAIN s = 1 .. n /\ \A i \in 1 .. n : s[i] \in GoodEvents
  BY LenProperties, ElementOfSeq
<1>2. \A i \in 1 .. n : f[i] \in Nat /\ s[i].prev < s[i].id /\ f[i] = s[i].id
  BY <1>1 DEF GoodEvents, K!EventORM
<1>3. ASSUME NEW i \in 1 .. n, i # 1 PROVE f[i - 1] < f[i]
  <2>1. i - 1 \in 1 .. n
    BY <1>1, <1>3
  <2>2. s[i].prev = s[i - 1].id
    BY <1>1, <1>3 DEF K!ChainIntact
  <2> QED
    BY <1>2, <2>1, <2>2
<1>4. \A i, j \in 1 .. n : i < j => f[i] < f[j]
  <2> HIDE DEF f, n
  <2> QED
    BY <1>1, <1>2, <1>3, RisingSteps
<1>5. ASSUME NEW i \in 1 .. n, NEW j \in 1 .. n, s[i].id = s[j].id PROVE i = j
  BY <1>1, <1>2, <1>4, <1>5
<1> QED
  BY <1>1, <1>5

LEMMA LastHashOf ==
  ASSUME LogsInv, NEW s \in Seq(GoodEvents)
  PROVE  /\ K!LastHash(s) \in 0 .. made
         /\ s = <<>> => K!LastHash(s) = 0
         /\ s # <<>> => Len(s) \in DOMAIN s /\ K!LastHash(s) = s[Len(s)].id
<1>1. CASE s = <<>>
  BY <1>1 DEF LogsInv, K!LastHash
<1>2. CASE s # <<>>
  <2>1. Len(s) \in DOMAIN s /\ s[Len(s)] \in GoodEvents
    BY <1>2, LastOf
  <2>2. K!LastHash(s) = s[Len(s)].id
    BY <1>2 DEF K!LastHash, K!Last
  <2> QED
    BY <1>2, <2>1, <2>2 DEF LogsInv, GoodEvents, K!EventORM
<1> QED
  BY <1>1, <1>2

LEMMA LogsKept ==
  ASSUME LogsInv, UNCHANGED <<events, made, packages>>, inMemory' = inMemory,
         pc' \in [Kernels -> Statuses], \A k \in Kernels : pc'[k] = "READY" => pc[k] = "READY"
  PROVE  LogsInv'
<1>1. GoodEvents' = GoodEvents /\ GoodPackages' = GoodPackages
  BY DEF GoodEvents, GoodPackages
<1> QED
  BY <1>1 DEF LogsInv

LEMMA LogsTyped ==
  ASSUME LogsInv
  PROVE  /\ MaxEvents \in Nat /\ made \in Nat /\ made <= MaxEvents
         /\ \A k \in Kernels : inMemory[k] \in Seq(GoodEvents)
         /\ \A i \in DOMAIN events : events[i] \in GoodEvents
         /\ \A i \in DOMAIN packages : packages[i] \in GoodPackages /\ packages[i].event \in GoodEvents
<1>1. MaxEvents \in Nat /\ made \in Nat /\ made <= MaxEvents
  BY StartupAssumption DEF LogsInv, K!ConstantsAssumption
<1>2. \A i \in DOMAIN events : events[i] \in GoodEvents
  BY ElementOfSeq DEF LogsInv
<1>3. \A i \in DOMAIN packages : packages[i] \in GoodPackages
  BY ElementOfSeq DEF LogsInv
<1> QED
  BY <1>1, <1>2, <1>3 DEF LogsInv, GoodPackages

LEMMA BootEndLogs == ASSUME LogsInv, NEW k \in Kernels, K!BootEnd(k) PROVE LogsInv'
<1>1. /\ inMemory' = [inMemory EXCEPT ![k] = events] /\ UNCHANGED <<events, made, packages>>
      /\ \/ K!ChainIntact(events) /\ pc' = [pc EXCEPT ![k] = "READY"]
         \/ pc' = [pc EXCEPT ![k] = "INTEGRITY_FAILURE"]
  BY DEF K!BootEnd, K!Verified
<1>2. GoodEvents' = GoodEvents /\ GoodPackages' = GoodPackages
  BY <1>1 DEF GoodEvents, GoodPackages
<1>3. inMemory' \in [Kernels -> Seq(GoodEvents)] /\ pc' \in [Kernels -> Statuses]
  BY <1>1 DEF LogsInv, Statuses
<1>4. ASSUME NEW j \in Kernels, pc'[j] = "READY" PROVE K!ChainIntact(inMemory[j])'
  <2>1. CASE j = k
    <3>1. inMemory'[j] = events /\ K!ChainIntact(events)
      BY <1>1, <1>4, <2>1 DEF LogsInv
    <3> QED
      BY <3>1 DEF K!ChainIntact
  <2>2. CASE j # k
    <3>1. inMemory'[j] = inMemory[j] /\ pc[j] = "READY"
      BY <1>1, <1>4, <2>2 DEF LogsInv
    <3> QED
      BY <3>1 DEF LogsInv, K!ChainIntact
  <2> QED
    BY <2>1, <2>2
<1> QED
  BY <1>1, <1>2, <1>3, <1>4 DEF LogsInv

\* The memory of a kernel is gone.
LEMMA DieLogs ==
  ASSUME LogsInv, NEW k \in Kernels, UNCHANGED <<events, made, packages>>,
         inMemory' = [inMemory EXCEPT ![k] = <<>>], pc' = [pc EXCEPT ![k] = "DEAD"]
  PROVE  LogsInv'
<1>1. GoodEvents' = GoodEvents /\ GoodPackages' = GoodPackages
  BY DEF GoodEvents, GoodPackages
<1>2. <<>> \in Seq(GoodEvents)
  OBVIOUS
<1>3. inMemory' \in [Kernels -> Seq(GoodEvents)] /\ pc' \in [Kernels -> Statuses]
  BY <1>2 DEF LogsInv, Statuses
<1>4. ASSUME NEW j \in Kernels, pc'[j] = "READY" PROVE K!ChainIntact(inMemory[j])'
  <2>1. inMemory'[j] = inMemory[j] /\ pc[j] = "READY"
    BY <1>4 DEF LogsInv
  <2> QED
    BY <2>1 DEF LogsInv, K!ChainIntact
<1> QED
  BY <1>1, <1>3, <1>4 DEF LogsInv

\* What is replayed is made of what was there and what is missing.
LEMMA ReplayedTyped ==
  ASSUME NEW E, NEW log \in Seq(E), NEW tail, NEW n \in Nat, n = Len(tail), \A i \in 1 .. n : tail[i].event \in E
  PROVE  K!Replayed(log, tail) \in Seq(E)
<1> DEFINE Body(f, i) == IF i = 0 THEN log
                         ELSE IF K!Present(tail[i].event, f[i - 1]) THEN f[i - 1]
                         ELSE Append(f[i - 1], tail[i].event)
           P(m) == \E f \in [0 .. m -> Seq(E)] : \A i \in 0 .. m : f[i] = Body(f, i)
<1>1. P(0)
  <2> DEFINE f == [i \in 0 .. 0 |-> log]
  <2>1. f \in [0 .. 0 -> Seq(E)] /\ \A i \in 0 .. 0 : f[i] = Body(f, i)
    OBVIOUS
  <2> QED
    BY <2>1
<1>2. ASSUME NEW m \in Nat, m < n, P(m) PROVE P(m + 1)
  <2>1. PICK f \in [0 .. m -> Seq(E)] : \A i \in 0 .. m : f[i] = Body(f, i)
    BY <1>2
  <2>2. m + 1 \in 1 .. n /\ (m + 1) - 1 = m /\ m \in 0 .. m
    BY <1>2
  <2>3. PICK last \in Seq(E) : last = Body(f, m + 1)
    <3>1. f[m] \in Seq(E) /\ tail[m + 1].event \in E
      BY <2>1, <2>2
    <3>2. Append(f[m], tail[m + 1].event) \in Seq(E)
      BY <3>1, AppendProperties
    <3> QED
      BY <2>2, <3>1, <3>2
  <2> DEFINE g == [i \in 0 .. m + 1 |-> IF i = m + 1 THEN last ELSE f[i]]
  <2>4. g \in [0 .. m + 1 -> Seq(E)]
    BY <2>1, <2>3
  <2>5. \A i \in 0 .. m : g[i] = f[i]
    BY <2>2
  <2>6. ASSUME NEW i \in 0 .. m + 1 PROVE g[i] = Body(g, i)
    <3>1. CASE i = m + 1
      BY <2>2, <2>3, <2>5, <3>1
    <3>2. CASE i = 0
      BY <2>1, <2>5, <3>2
    <3>3. CASE i \in 1 .. m
      <4>1. i - 1 \in 0 .. m /\ i \in 0 .. m
        BY <3>3
      <4>2. g[i] = f[i] /\ g[i - 1] = f[i - 1]
        BY <2>5, <4>1
      <4>3. f[i] = Body(f, i)
        BY <2>1, <4>1
      <4> HIDE DEF g
      <4> QED
        BY <4>2, <4>3
    <3> QED
      BY <3>1, <3>2, <3>3
  <2> QED
    BY <2>4, <2>6
<1>3. P(n)
  <2> SUFFICES ASSUME ~ P(n) PROVE FALSE
    OBVIOUS
  <2> DEFINE T == {m \in Nat : m <= n /\ ~ P(m)}
  <2> HIDE DEF P
  <2>1. T \in SUBSET Nat /\ T # {}
    OBVIOUS
  <2>2. PICK m \in T : \A k \in T : m <= k
    <3> HIDE DEF T
    <3> QED
      BY <2>1, LeastNumber
  <2>3. m # 0 /\ m - 1 \in Nat /\ m - 1 < n /\ (m - 1) + 1 = m
    BY <1>1, <2>2
  <2>4. P(m - 1)
    BY <2>2, <2>3
  <2> QED
    BY <1>2, <2>2, <2>3, <2>4
<1>4. PICK f \in [0 .. n -> Seq(E)] : \A i \in 0 .. n : f[i] = Body(f, i)
  BY <1>3
<1>5. f = [i \in 0 .. n |-> Body(f, i)]
  <2> HIDE DEF Body
  <2> QED
    BY <1>4
<1>6. PICK g : g = [i \in 0 .. n |-> Body(g, i)] /\ K!Replayed(log, tail) = g[n]
  BY <1>5 DEF K!Replayed
<1>7. ASSUME NEW i \in 0 .. n PROVE g[i] \in Seq(E)
  <2> SUFFICES ASSUME g[i] \notin Seq(E) PROVE FALSE
    OBVIOUS
  <2> DEFINE T == {m \in 0 .. n : g[m] \notin Seq(E)}
  <2>1. T \in SUBSET Nat /\ T # {}
    OBVIOUS
  <2>2. PICK m \in T : \A k \in T : m <= k
    <3> HIDE DEF T
    <3> QED
      BY <2>1, LeastNumber
  <2>3. g[m] = Body(g, m) /\ m \in 0 .. n
    BY <1>6, <2>2
  <2>4. CASE m = 0
    BY <2>2, <2>3, <2>4
  <2>5. CASE m # 0
    <3>1. m - 1 \in 0 .. n /\ m - 1 < m /\ m \in 1 .. n
      BY <2>3, <2>5
    <3>2. g[m - 1] \in Seq(E) /\ tail[m].event \in E
      BY <2>2, <3>1
    <3>3. Append(g[m - 1], tail[m].event) \in Seq(E)
      BY <3>2, AppendProperties
    <3> QED
      BY <2>2, <2>3, <2>5, <3>2, <3>3
  <2> QED
    BY <2>4, <2>5
<1> QED
  BY <1>6, <1>7

LEMMA RestoreLogs == ASSUME LogsInv, NEW k \in Kernels, K!Restore(k) PROVE LogsInv'
<1>1. UNCHANGED <<inMemory, pc, made, packages>>
  BY DEF K!Restore, K!process
<1>2. PICK i \in DOMAIN packages, j \in DOMAIN packages :
        i <= j /\ events' = K!Replayed(events, SubSeq(packages, i, j))
  BY DEF K!Restore
<1>3. PICK tail \in Seq(GoodPackages), n \in Nat : tail = SubSeq(packages, i, j) /\ n = Len(tail)
  <2>1. /\ packages \in Seq(GoodPackages) /\ i \in 1 .. Len(packages) + 1
        /\ j \in i - 1 .. Len(packages)
    <3>1. packages \in Seq(GoodPackages) /\ Len(packages) \in Nat
      BY LenProperties DEF LogsInv
    <3>2. i \in 1 .. Len(packages) /\ j \in 1 .. Len(packages) /\ i <= j
      BY <1>2, <3>1, LenProperties
    <3> QED
      BY <3>1, <3>2
  <2>2. SubSeq(packages, i, j) \in Seq(GoodPackages)
    BY <2>1, SubSeqProperties
  <2> QED
    BY <2>2, LenProperties
<1>4. \A m \in 1 .. n : tail[m].event \in GoodEvents
  BY <1>3, ElementOfSeq DEF GoodPackages
<1>5. events \in Seq(GoodEvents)
  BY DEF LogsInv
<1>6. events' \in Seq(GoodEvents)
  BY <1>2, <1>3, <1>4, <1>5, ReplayedTyped
<1>7. GoodEvents' = GoodEvents /\ GoodPackages' = GoodPackages
  BY <1>1 DEF GoodEvents, GoodPackages
<1> QED
  BY <1>1, <1>6, <1>7 DEF LogsInv, K!ChainIntact

LEMMA DamageLogs == ASSUME LogsInv, K!RowDamaged PROVE LogsInv'
<1>1. UNCHANGED <<inMemory, pc, made, packages>>
  BY DEF K!RowDamaged, K!process
<1>2. PICK i \in DOMAIN events : events' = [events EXCEPT ![i].intact = FALSE]
  BY DEF K!RowDamaged
<1>3. PICK x : x = [events[i] EXCEPT !.intact = FALSE]
  OBVIOUS
<1>4. x \in GoodEvents
  <2>1. events[i] \in K!EventORM /\ events[i].prev < events[i].id /\ events[i].id <= made
    BY LogsTyped DEF GoodEvents
  <2> QED
    BY <1>3, <2>1 DEF GoodEvents, K!EventORM
<1>5. events' = [events EXCEPT ![i] = x] /\ events \in Seq(GoodEvents)
  BY <1>2, <1>3 DEF LogsInv
<1>6. events' \in Seq(GoodEvents)
  BY <1>4, <1>5, ExceptSeq
<1>7. GoodEvents' = GoodEvents /\ GoodPackages' = GoodPackages
  BY <1>1 DEF GoodEvents, GoodPackages
<1> QED
  BY <1>1, <1>6, <1>7 DEF LogsInv, K!ChainIntact

LEMMA LostLogs == ASSUME LogsInv, K!DatabaseLost PROVE LogsInv'
<1>1. events' = <<>> /\ pc' = [k \in Kernels |-> "OFF"] /\ UNCHANGED <<inMemory, made, packages>>
  BY DEF K!DatabaseLost
<1>2. GoodEvents' = GoodEvents /\ GoodPackages' = GoodPackages
  BY <1>1 DEF GoodEvents, GoodPackages
<1>3. <<>> \in Seq(GoodEvents)
  OBVIOUS
<1> QED
  BY <1>1, <1>2, <1>3 DEF LogsInv, Statuses

LEMMA PackageLogs == ASSUME LogsInv, NEW k \in Kernels, K!PackageEvents(k) PROVE LogsInv'
<1>1. UNCHANGED <<events, inMemory, pc, made>>
  BY DEF K!PackageEvents, K!db, K!process
<1>2. PICK shipped : shipped = [i \in DOMAIN packages |-> packages[i].event]
  OBVIOUS
<1>3. PICK n \in Nat : n = Len(packages) /\ packages \in [1 .. n -> GoodPackages]
  BY LenProperties, ElementOfSeq DEF LogsInv
<1>4. shipped \in Seq(GoodEvents) /\ Len(shipped) = n
  <2>1. shipped \in [1 .. n -> GoodEvents]
    BY <1>2, <1>3 DEF GoodPackages
  <2> QED
    BY <1>3, <2>1, SeqDef, LenProperties
<1>5. PICK e \in GoodEvents : e = inMemory[k][n + 1]
  <2>1. inMemory[k] \in Seq(GoodEvents) /\ n < Len(inMemory[k])
    BY <1>2, <1>4, LogsTyped DEF K!PackageEvents
  <2>2. n + 1 \in 1 .. Len(inMemory[k])
    BY <1>3, <2>1, LenProperties
  <2> QED
    BY <2>1, <2>2, ElementOfSeq
<1>6. PICK h \in Nat : h = K!LastHash(shipped)
  BY <1>4, LastHashOf, LogsTyped
<1>7. packages' = Append(packages, [start |-> n + 1, event |-> e, previous |-> h])
  BY <1>2, <1>4, <1>5, <1>6 DEF K!PackageEvents
<1>8. [start |-> n + 1, event |-> e, previous |-> h] \in GoodPackages
  BY <1>3, <1>5, <1>6 DEF GoodPackages
<1>9. packages' \in Seq(GoodPackages)
  BY <1>7, <1>8, AppendProperties DEF LogsInv
<1>10. GoodEvents' = GoodEvents /\ GoodPackages' = GoodPackages
  BY <1>1 DEF GoodEvents, GoodPackages
<1> QED
  BY <1>1, <1>9, <1>10 DEF LogsInv, K!ChainIntact

\* An event that follows the last one of a chain prolongs it.
LEMMA ChainProlonged ==
  ASSUME LogsInv, NEW s \in Seq(GoodEvents), K!ChainIntact(s), NEW e, e.intact = TRUE, e.prev = K!LastHash(s)
  PROVE  K!ChainIntact(Append(s, e))
<1> DEFINE n == Len(s)
           t == Append(s, e)
<1>1. /\ n \in Nat /\ DOMAIN s = 1 .. n /\ DOMAIN t = 1 .. n + 1 /\ t[n + 1] = e
      /\ \A i \in 1 .. n : t[i] = s[i]
  BY AppendProperties, LenProperties
<1>2. ASSUME NEW i \in 1 .. n + 1 PROVE t[i].intact /\ t[i].prev = IF i = 1 THEN 0 ELSE t[i - 1].id
  <2>1. CASE i \in 1 .. n
    <3>1. i = 1 \/ i - 1 \in 1 .. n
      BY <1>1, <2>1
    <3>2. s[i].intact /\ s[i].prev = IF i = 1 THEN 0 ELSE s[i - 1].id
      BY <1>1, <2>1 DEF K!ChainIntact
    <3> HIDE DEF t
    <3> QED
      BY <1>1, <2>1, <3>1, <3>2
  <2>2. CASE i = n + 1 /\ n = 0
    <3>1. s = <<>> /\ K!LastHash(s) = 0
      BY <2>2, EmptySeq, LastHashOf
    <3> QED
      BY <1>1, <2>2, <3>1
  <2>3. CASE i = n + 1 /\ n # 0
    <3>1. s # <<>> /\ K!LastHash(s) = s[n].id
      BY <2>3, EmptySeq, LastHashOf
    <3>2. i - 1 = n /\ n \in 1 .. n /\ i # 1
      BY <1>1, <2>3
    <3> HIDE DEF t
    <3> QED
      BY <1>1, <2>3, <3>1, <3>2
  <2> QED
    BY <1>1, <2>1, <2>2, <2>3
<1> QED
  BY <1>1, <1>2 DEF K!ChainIntact

LEMMA RecordLogs == ASSUME LogsInv, NEW k \in Kernels, K!RecordEvent(k) PROVE LogsInv'
<1>1. /\ pc[k] = "READY" /\ made < MaxEvents /\ made' = made + 1 /\ UNCHANGED <<pc, packages>>
  BY DEF K!RecordEvent
<1>2. PICK m \in Nat, h \in Nat : m = made /\ h = K!LastHash(inMemory[k]) /\ h <= m
  BY LogsTyped, LastHashOf
<1>3. PICK e : e = [id |-> m + 1, prev |-> h, intact |-> TRUE]
  OBVIOUS
<1>4. /\ inMemory' = [inMemory EXCEPT ![k] = Append(inMemory[k], e)]
      /\ events' = Append(events, e) \/ events' = events
  BY <1>2, <1>3 DEF K!RecordEvent, K!Record, K!NewEvent
<1>5. /\ GoodEvents \subseteq GoodEvents' /\ GoodPackages \subseteq GoodPackages' /\ made' \in 0 .. MaxEvents
  BY <1>1, LogsTyped, EventsStayGood
<1>6. e \in GoodEvents'
  <2>1. m + 1 \in 1 .. MaxEvents /\ h \in 0 .. MaxEvents /\ h < m + 1 /\ made' = m + 1
    BY <1>1, <1>2, LogsTyped
  <2>2. e \in K!EventORM /\ e.prev < e.id /\ e.id <= made'
    BY <1>3, <2>1 DEF K!EventORM
  <2> QED
    BY <2>2 DEF GoodEvents
<1>7. events \in Seq(GoodEvents') /\ packages \in Seq(GoodPackages')
  BY <1>5, SeqGrows DEF LogsInv
<1>8. \A j \in Kernels : inMemory[j] \in Seq(GoodEvents')
  BY <1>5, SeqGrows, LogsTyped
<1>9. events' \in Seq(GoodEvents')
  BY <1>4, <1>6, <1>7, AppendProperties
<1>10. inMemory' \in [Kernels -> Seq(GoodEvents')]
  <2>1. Append(inMemory[k], e) \in Seq(GoodEvents')
    BY <1>6, <1>8, AppendProperties
  <2> QED
    BY <1>4, <1>8, <2>1 DEF LogsInv
<1>11. ASSUME NEW j \in Kernels, pc'[j] = "READY" PROVE K!ChainIntact(inMemory[j])'
  <2>1. CASE j = k
    <3>1. K!ChainIntact(Append(inMemory[k], e))
      <4>1. inMemory[k] \in Seq(GoodEvents) /\ K!ChainIntact(inMemory[k])
        BY <1>1, LogsTyped DEF LogsInv
      <4> QED
        BY <1>2, <1>3, <4>1, ChainProlonged
    <3>2. inMemory'[j] = Append(inMemory[k], e)
      BY <1>4, <2>1 DEF LogsInv
    <3> QED
      BY <3>1, <3>2 DEF K!ChainIntact
  <2>2. CASE j # k
    <3>1. inMemory'[j] = inMemory[j] /\ pc[j] = "READY"
      BY <1>1, <1>4, <1>11, <2>2 DEF LogsInv
    <3> QED
      BY <3>1 DEF LogsInv, K!ChainIntact
  <2> QED
    BY <2>1, <2>2
<1>12. packages' \in Seq(GoodPackages') /\ pc' \in [Kernels -> Statuses]
  BY <1>1, <1>7 DEF LogsInv
<1> QED
  BY <1>5, <1>9, <1>10, <1>11, <1>12 DEF LogsInv

LEMMA LogsStep == LogsInv /\ [K!Next]_(K!vars) => LogsInv'
<1> SUFFICES ASSUME LogsInv, [K!Next]_(K!vars) PROVE LogsInv'
  OBVIOUS
<1>1. ASSUME NEW k \in Kernels, K!BootBegin(k) PROVE LogsInv'
  <2>1. UNCHANGED <<events, inMemory, made, packages>> /\ pc' = [pc EXCEPT ![k] = "RECOVERING"]
    BY <1>1 DEF K!BootBegin, K!db
  <2>2. pc' \in [Kernels -> Statuses] /\ \A j \in Kernels : pc'[j] = "READY" => pc[j] = "READY"
    BY <2>1 DEF LogsInv, Statuses
  <2> QED
    BY <2>1, <2>2, LogsKept
<1>2. ASSUME NEW k \in Kernels, K!Die(k) \/ K!RecordCleanShutdown(k) PROVE LogsInv'
  BY <1>2, DieLogs DEF K!Die, K!RecordCleanShutdown, K!db
<1>3. CASE UNCHANGED <<events, inMemory, made, packages, pc>>
  <2>1. pc' \in [Kernels -> Statuses]
    BY <1>3 DEF LogsInv
  <2> QED
    BY <1>3, <2>1, LogsKept
<1>4. ASSUME NEW k \in Kernels, NEW r \in Rows, NEW x, K!Write(k, r, x) PROVE LogsInv'
  BY <1>3, <1>4 DEF K!Write, K!process
<1>5. ASSUME NEW k \in Kernels, NEW r \in Rows,
             \/ K!SaveLease(k, r) \/ K!RevokeLease(k, r) \/ K!SaveJob(k, r)
             \/ K!UpdateJobLease(k, r) \/ K!CompleteJob(k, r) \/ K!SaveTask(k, r)
             \/ \E v \in 1 .. MaxWrites : K!UpdateTaskStatusWithVersion(k, r, v)
      PROVE  \E x : K!Write(k, r, x)
  <2>1. CASE \E x : K!WriteHeld(k, r, x) \/ K!WriteOther(k, r, x)
    BY <2>1 DEF K!WriteHeld, K!WriteOther
  <2> QED
    BY <1>5, <2>1 DEF K!SaveLease, K!RevokeLease, K!SaveJob, K!UpdateJobLease, K!CompleteJob, K!SaveTask,
       K!UpdateTaskStatusWithVersion
<1>6. CASE UNCHANGED K!vars
  BY <1>3, <1>6 DEF K!vars, K!db, K!process
<1> QED
  BY <1>1, <1>2, <1>4, <1>5, <1>6, BootEndLogs, RecordLogs, DamageLogs, LostLogs, PackageLogs, RestoreLogs DEF K!Next

LEMMA LogsInit == K!Init => LogsInv
<1> SUFFICES ASSUME K!Init PROVE LogsInv
  OBVIOUS
<1>1. /\ events = <<>> /\ inMemory = [k \in Kernels |-> <<>>] /\ made = 0 /\ packages = <<>>
      /\ pc = [k \in Kernels |-> "OFF"]
  BY DEF K!Init
<1>2. <<>> \in Seq(GoodEvents) /\ <<>> \in Seq(GoodPackages) /\ 0 \in 0 .. MaxEvents
  BY StartupAssumption DEF K!ConstantsAssumption
<1> QED
  BY <1>1, <1>2 DEF LogsInv, Statuses

KernelsInv == RegistryInv /\ LogsInv

LEMMA KernelsHold == KernelsInv => K!TypeOK /\ K!DeadEpochsHoldNothing /\ K!ReadyLedgerIsChained
<1> SUFFICES ASSUME KernelsInv PROVE K!TypeOK /\ K!DeadEpochsHoldNothing /\ K!ReadyLedgerIsChained
  OBVIOUS
<1>1. events \in Seq(K!EventORM) /\ \A k \in Kernels : inMemory[k] \in Seq(K!EventORM)
  BY GoodIsEvent, SeqGrows, LogsTyped DEF KernelsInv, LogsInv
<1>2. packages \in Seq([start : Nat, event : K!EventORM, previous : Nat])
  <2>1. GoodPackages \subseteq [start : Nat, event : K!EventORM, previous : Nat]
    BY GoodIsEvent DEF GoodPackages
  <2> QED
    BY <2>1, SeqGrows DEF KernelsInv, LogsInv
<1>3. K!TypeOK
  BY <1>1, <1>2 DEF K!TypeOK, KernelsInv, LogsInv, RegistryInv, MarkersTyped, Statuses
<1>4. K!ReadyLedgerIsChained
  BY ChainWithoutRepetition, LogsTyped DEF KernelsInv, LogsInv, K!ReadyLedgerIsChained
<1> QED
  BY <1>3, <1>4, ReadyHoldsNothingDead DEF KernelsInv

LEMMA KernelsInit == K!Init => KernelsInv
  BY RegistryInit, LogsInit DEF KernelsInv

LEMMA KernelsStep == KernelsInv /\ [K!Next]_(K!vars) => KernelsInv'
  BY RegistryStep, LogsStep DEF KernelsInv

\* While a kernel is READY nothing is held under an epoch that was dead when it began
\* to boot, and its ledger is an unbroken chain without repetitions
\* (persistence/recovery/startup.py).
THEOREM StartupHolds ==
  K!Spec => [](K!TypeOK /\ K!DeadEpochsHoldNothing /\ K!ReadyLedgerIsChained)
  BY KernelsHold, KernelsInit, KernelsStep, PTL DEF K!Spec

-----------------------------------------------------------------------------
(* The six side by side, the specification that the model checker runs.       *)

SideBySideInv ==
  AuthorityInv /\ WorkspaceInv /\ ContractsInv /\ KernelsInv /\ MissionsInv /\ StreamInv

LEMMA AuthorityStutters == AuthorityInv /\ UNCHANGED authority => AuthorityInv'
  BY AuthorityStep DEF authority, A!vars, A!authority, A!store, A!history
LEMMA WorkspaceStutters == WorkspaceInv /\ UNCHANGED staged => WorkspaceInv'
  BY WorkspaceStep DEF staged, W!vars
LEMMA KernelsStutter == KernelsInv /\ UNCHANGED kernels => KernelsInv'
  <1>1. UNCHANGED kernels => UNCHANGED K!vars
    BY DEF kernels, K!vars, K!db, K!process
  <1> QED
    BY <1>1, KernelsStep
LEMMA MissionsStutter == MissionsInv /\ UNCHANGED rows => MissionsInv'
  BY MissionsStep DEF rows, D!vars, D!rows, D!sessions
LEMMA StreamStutters == StreamInv /\ UNCHANGED stream => StreamInv'
  BY StreamStep DEF stream, G!vars

\* Whatever the focus, one component takes a step and the others do not move.
LEMMA OneMoves ==
  ASSUME [Next]_vars
  PROVE  /\ [A!Next]_authority /\ [W!Next]_staged /\ [L!Next]_contracts
         /\ [K!Next]_kernels /\ [D!Next]_rows /\ [G!Next]_stream
  BY DEF Next, vars

LEMMA SideBySideStep == SideBySideInv /\ [Next]_vars => SideBySideInv'
<1> SUFFICES ASSUME SideBySideInv, [Next]_vars PROVE SideBySideInv'
  OBVIOUS
<1>1. AuthorityInv'
  BY OneMoves, AuthorityStep, AuthorityStutters DEF SideBySideInv
<1>2. WorkspaceInv'
  BY OneMoves, WorkspaceStep, WorkspaceStutters DEF SideBySideInv
<1>3. ContractsInv'
  BY OneMoves, ContractsStep DEF SideBySideInv
<1>4. KernelsInv'
  BY OneMoves, KernelsStep, KernelsStutter DEF SideBySideInv
<1>5. MissionsInv'
  BY OneMoves, MissionsStep, MissionsStutter DEF SideBySideInv
<1>6. StreamInv'
  BY OneMoves, StreamStep, StreamStutters DEF SideBySideInv
<1> QED
  BY <1>1, <1>2, <1>3, <1>4, <1>5, <1>6 DEF SideBySideInv

LEMMA SideBySideInit == Init => SideBySideInv
  BY AuthorityInit, WorkspaceInit, ContractsInit, KernelsInit, MissionsInit, StreamInit
  DEF Init, SideBySideInv

\* Every variable of the six keeps its type.
THEOREM KernelTypes == Spec => []TypeOK
<1>1. SideBySideInv => TypeOK
  BY KernelsHold DEF SideBySideInv, AuthorityInv, WorkspaceInv, ContractsInv, MissionsInv, StreamInv, TypeOK
<1> QED
  BY <1>1, SideBySideInit, SideBySideStep, PTL DEF Spec

\* Whatever runs on an operator's approval is of the tool, the target and the contract
\* version that the digest of the approval was computed from (api/actions.py).
THEOREM ApprovalsCoverWhatWasRead == Spec => []RunsAsReviewed
<1>1. SideBySideInv => RunsAsReviewed
  BY DEF SideBySideInv, AuthorityInv
<1> QED
  BY <1>1, SideBySideInit, SideBySideStep, PTL DEF Spec

\* Whatever calls of a tool changed has its event, of a contract that allowed it, and
\* whatever rollbacks changed has theirs while none has raised (tools/gateway.py).
THEOREM ChangesAreAudited == Spec => []EffectsAudited
<1>1. SideBySideInv => EffectsAudited
  BY DEF SideBySideInv, AuthorityInv
<1> QED
  BY <1>1, SideBySideInit, SideBySideStep, PTL DEF Spec

\* The journal has the events in the order of the ledger and none of them twice
\* (kernel/event_store.py, memory/replicator.py).
THEOREM JournalKeepsTheOrder == Spec => []JournalInOrder
<1>1. SideBySideInv => JournalInOrder
  BY DEF SideBySideInv, AuthorityInv
<1> QED
  BY <1>1, SideBySideInit, SideBySideStep, PTL DEF Spec

\* A file nobody else touched holds what the changes still in force made of it
\* (tools/sandbox/workspace.py).
THEOREM UndoingIsComplete == Spec => []UndoneContentIsBack
<1>1. SideBySideInv => UndoneContentIsBack
  BY DEF SideBySideInv, WorkspaceInv, UndoneContentIsBack, W!UndoneContentIsBack, Settled
<1> QED
  BY <1>1, SideBySideInit, SideBySideStep, PTL DEF Spec

\* No chain of unauthorised amendments loses a constraint (alignment/engine.py).
THEOREM AmendmentsKeepConstraints == Spec => []ConstraintsKept
<1>1. SideBySideInv => ConstraintsKept
  BY DescentAgrees DEF SideBySideInv, ConstraintsKept
<1> QED
  BY <1>1, SideBySideInit, SideBySideStep, PTL DEF Spec

\* While a kernel is READY nothing is held under an epoch that was dead when it began
\* to boot (persistence/recovery/startup.py).
THEOREM DeadEpochsLoseEverything == Spec => []DeadEpochsHoldNothing
<1>1. SideBySideInv => DeadEpochsHoldNothing
  BY KernelsHold DEF SideBySideInv, DeadEpochsHoldNothing
<1> QED
  BY <1>1, SideBySideInit, SideBySideStep, PTL DEF Spec

\* The ledger of a READY kernel is an unbroken chain without repetitions
\* (persistence/recovery/startup.py, recovery/restore.py).
THEOREM ReadyLedgersAreChains == Spec => []ReadyLedgerIsChained
<1>1. SideBySideInv => ReadyLedgerIsChained
  BY KernelsHold DEF SideBySideInv, ReadyLedgerIsChained
<1> QED
  BY <1>1, SideBySideInit, SideBySideStep, PTL DEF Spec

\* A connected client that subscribed has every event after the one it subscribed
\* from, or the event is on its way to it (api/websocket.py, api/app.py).
THEOREM NoEventIsMissed == Spec => []NothingMissed
<1>1. SideBySideInv => NothingMissed
  BY DEF SideBySideInv, StreamInv
<1> QED
  BY <1>1, SideBySideInit, SideBySideStep, PTL DEF Spec

\* A recovery makes a mission ACTIVE only out of its sleep, whatever was committed
\* since the recovery read it, and never one it listed whose contract is not stored;
\* and it fires no wakeup for nothing (autonomy/recovery.py:53-88).
THEOREM OnlySleepersAreResumed == Spec => RecoveryResumesSleepers
<1>1. SideBySideInv /\ [Next]_vars => [\A s \in Schedulers, m \in Missions :
       recovery[s] # None /\ recovery'[s] = None /\ mission[m] # None =>
         /\ mission'[m] # mission[m] /\ mission'[m].status = "ACTIVE" =>
              mission[m].status = "WAITING_EXTERNAL" /\ D!MayResume(s, m) /\ D!FiredBy(m) # {}
         /\ D!FiredBy(m) # {} /\ D!Known(s, m).status = "WAITING_EXTERNAL" /\ D!MayResume(s, m) =>
              mission'[m].status = "ACTIVE"]_(D!vars)
  <2>1. UNCHANGED rows => UNCHANGED D!vars
    BY DEF rows, D!vars, D!rows, D!sessions
  <2> QED
    BY <2>1, OneMoves, SleepersStep DEF SideBySideInv, SleepersResumed, Resumes
<1> QED
  BY <1>1, SideBySideInit, SideBySideStep, PTL DEF Spec, RecoveryResumesSleepers, D!RecoveryResumesSleepers

-----------------------------------------------------------------------------
(* The epochs as a fence.                                                     *)

LEMMA FencedIs ==
  \A e : e \in FencedEpochs <=> \E k \in Kernels : lifecycle[k].status # "ABSENT" /\ e \in diedBefore[k]
  BY DEF FencedEpochs

\* Fenced epochs are epochs, and none of them holds a row.
FenceHolds ==
  /\ FencedEpochs \subseteq Nat \ {0} /\ HolderOf \in [Rows -> Nat]
  /\ \A r \in Rows : HolderOf[r] \notin FencedEpochs

LEMMA RegistryFences == RegistryInv => FenceHolds
<1> SUFFICES ASSUME RegistryInv PROVE FenceHolds
  OBVIOUS
<1>1. FencedEpochs \subseteq Nat \ {0}
  BY FencedIs, RegistryTyped DEF RegistryInv, DeadAreOlder
<1>2. \A r \in Rows : row[r].kernel_epoch \in Nat
  BY RegistryTyped DEF K!ModelLeaseORM, K!WorkerJobORM, K!TaskORM
<1>3. HolderOf \in [Rows -> Nat]
  BY <1>2 DEF HolderOf
<1>4. ASSUME NEW r \in Rows PROVE HolderOf[r] \notin FencedEpochs
  <2>1. CASE r \notin defaulted /\ K!Held(r)
    BY <2>1, FencedIs DEF HolderOf, RegistryInv, FencedHoldNothing
  <2>2. CASE ~ (r \notin defaulted /\ K!Held(r))
    BY <1>1, <2>2 DEF HolderOf
  <2> QED
    BY <2>1, <2>2
<1> QED
  BY <1>1, <1>3, <1>4 DEF FenceHolds

\* Boots that do not end, deaths and restores leave the fence and the rows as they are.
LEMMA FenceStands ==
  ASSUME UNCHANGED <<row, defaulted>>,
         \A k \in Kernels : \/ diedBefore'[k] = diedBefore[k] /\ lifecycle'[k].status = lifecycle[k].status
                            \/ lifecycle'[k].status = "ABSENT" /\ lifecycle[k].status = "ABSENT"
                            \/ diedBefore'[k] = {} /\ diedBefore[k] = {}
                            \/ /\ diedBefore'[k] = diedBefore[k]
                               /\ lifecycle'[k].status # "ABSENT" /\ lifecycle[k].status # "ABSENT"
  PROVE  UNCHANGED <<FencedEpochs, HolderOf>>
<1>1. HolderOf' = HolderOf
  BY DEF HolderOf, K!Held
<1>2. \A e : e \in FencedEpochs' <=> \E k \in Kernels : lifecycle'[k].status # "ABSENT" /\ e \in diedBefore'[k]
  BY DEF FencedEpochs
<1>3. \A e : e \in FencedEpochs' <=> e \in FencedEpochs
  BY <1>2, FencedIs
<1> QED
  BY <1>1, <1>3

LEMMA BootFences ==
  ASSUME RegistryInv, FenceHolds', NEW k \in Kernels, K!BootEnd(k) PROVE Fence!Fence
<1>1. lifecycle[k].status = "ABSENT" /\ \A j \in Kernels : j # k => lifecycle'[j] = lifecycle[j] /\ diedBefore'[j] = diedBefore[j]
  BY RegistryTyped DEF K!BootEnd, RegistryInv, MarkersInOrder, MarkersTyped
<1>2. \A e : e \in FencedEpochs' <=> \E j \in Kernels : lifecycle'[j].status # "ABSENT" /\ e \in diedBefore'[j]
  BY DEF FencedEpochs
<1>3. FencedEpochs \subseteq FencedEpochs'
  BY <1>1, <1>2, FencedIs
<1>4. ASSUME NEW r \in Rows PROVE HolderOf'[r] \in {HolderOf[r], 0}
  <2>1. K!Held(r)' => row'[r] = row[r]
    <3>1. table[r] \in K!Table /\ row[r] \in K!RowType(table[r]) /\ epoch[k] \in Nat
      BY RegistryTyped DEF RegistryInv, MarkersTyped
    <3>2. row'[r] = K!Fenced(table[r], row[r], epoch[k]) \/ UNCHANGED row
      BY DEF K!BootEnd
    <3> QED
      BY <3>1, <3>2, FencedRow DEF K!Held
  <2>2. UNCHANGED defaulted
    BY DEF K!BootEnd
  <2> QED
    BY <2>1, <2>2 DEF HolderOf, K!Held
<1> QED
  BY <1>3, <1>4 DEF Fence!Fence, Fence!Nobody, FenceHolds

LEMMA WriteTakes ==
  ASSUME RegistryInv, FenceHolds, NEW k \in Kernels, NEW r \in Rows, RowWritten(k, r)
  PROVE  Fence!Take(r) \/ Fence!Release(r)
<1>1. PICK x \in K!RowType(table[r]) :
        /\ K!Write(k, r, x) /\ \A z \in Rows : z # r => (z \in defaulted' <=> z \in defaulted)
        /\ r \notin defaulted' /\ x.status \in {"ACTIVE", "LEASED"} => x.kernel_epoch = epoch[k]
  BY DEF RowWritten, Writes
<1>2. pc[k] = "READY" /\ row' = [row EXCEPT ![r] = x] /\ UNCHANGED <<lifecycle, diedBefore>>
  BY <1>1 DEF K!Write, K!process
<1>3. FencedEpochs' = FencedEpochs
  BY <1>2 DEF FencedEpochs
<1>4. /\ row'[r] = x /\ \A z \in Rows : z # r => row'[z] = row[z]
  BY <1>2, RegistryTyped
<1>5. \A z \in Rows : z # r => HolderOf'[z] = HolderOf[z]
  BY <1>1, <1>4 DEF HolderOf, K!Held
<1>6. HolderOf' = [HolderOf EXCEPT ![r] = HolderOf'[r]]
  BY <1>5 DEF HolderOf
<1>7. CASE r \notin defaulted' /\ x.status \in {"ACTIVE", "LEASED"}
  <2>1. HolderOf'[r] = epoch[k] /\ epoch[k] \in Nat
    BY <1>1, <1>4, <1>7, RegistryTyped DEF HolderOf, K!Held
  <2>2. epoch[k] \notin FencedEpochs
    BY <1>2, FencedIs DEF RegistryInv, DeadAreOlder, Up
  <2> QED
    BY <1>3, <1>6, <2>1, <2>2 DEF Fence!Take
<1>8. CASE r \in defaulted' \/ x.status \notin {"ACTIVE", "LEASED"}
  <2>1. HolderOf'[r] = 0
    BY <1>4, <1>8 DEF HolderOf, K!Held
  <2> QED
    BY <1>3, <1>6, <2>1 DEF Fence!Release, Fence!Nobody
<1> QED
  BY <1>7, <1>8

LEMMA FenceStep ==
  ASSUME RegistryInv, FenceHolds, FenceHolds', [K!Next]_kernels
  PROVE  [Fence!Next]_<<FencedEpochs, HolderOf>>
<1>1. ASSUME NEW k \in Kernels, K!BootBegin(k) PROVE UNCHANGED <<FencedEpochs, HolderOf>>
  BY <1>1, FenceStands, RegistryTyped DEF K!BootBegin, K!db, RegistryInv, MarkersTyped
<1>2. ASSUME NEW k \in Kernels, K!Die(k) \/ K!RecordEvent(k) \/ K!PackageEvents(k)
      PROVE  UNCHANGED <<FencedEpochs, HolderOf>>
  BY <1>2, FenceStands DEF K!Die, K!RecordEvent, K!PackageEvents, K!db, K!process
<1>3. ASSUME NEW k \in Kernels, K!RecordCleanShutdown(k) PROVE UNCHANGED <<FencedEpochs, HolderOf>>
  <2>1. pc[k] = "READY" /\ UNCHANGED <<row, defaulted, diedBefore>>
    BY <1>3 DEF K!RecordCleanShutdown
  <2>2. PICK x : lifecycle' = [lifecycle EXCEPT ![k] = x] /\ (lifecycle[k].status # "ABSENT" => x.status # "ABSENT")
    <3>1. PICK status : status = IF lifecycle[k].status = "RUNNING" THEN "CLEAN_SHUTDOWN" ELSE lifecycle[k].status
      OBVIOUS
    <3>2. PICK x : x = [lifecycle[k] EXCEPT !.status = status]
      OBVIOUS
    <3>3. lifecycle' = [lifecycle EXCEPT ![k] = x]
      BY <1>3, <3>1, <3>2 DEF K!RecordCleanShutdown
    <3>4. lifecycle[k] \in K!KernelLifecycleORM
      BY RegistryTyped
    <3>5. lifecycle[k].status # "ABSENT" => x.status # "ABSENT"
      BY <3>1, <3>2, <3>4 DEF K!KernelLifecycleORM
    <3> QED
      BY <3>3, <3>5
  <2>3. lifecycle[k].status # "ABSENT"
    BY <2>1 DEF RegistryInv, MarkersInOrder
  <2> QED
    BY <2>1, <2>2, <2>3, FenceStands, RegistryTyped
<1>4. ASSUME NEW k \in Kernels, K!Restore(k) PROVE UNCHANGED <<FencedEpochs, HolderOf>>
  <2>1. pc[k] = "OFF" /\ UNCHANGED <<row, defaulted, diedBefore>>
    BY <1>4 DEF K!Restore, K!process
  <2>2. \A j \in Kernels : j # k => lifecycle'[j] = lifecycle[j]
    BY <1>4, RegistryTyped DEF K!Restore
  <2>3. diedBefore[k] = {}
    BY <2>1 DEF RegistryInv, MarkersInOrder
  <2> QED
    BY <2>1, <2>2, <2>3, FenceStands
<1>5. ASSUME K!RowDamaged PROVE UNCHANGED <<FencedEpochs, HolderOf>>
  BY <1>5, FenceStands DEF K!RowDamaged, K!process
<1>6. ASSUME K!DatabaseLost PROVE Fence!Lost
  <2>1. FencedEpochs' = {}
    BY <1>6 DEF K!DatabaseLost, FencedEpochs
  <2>2. HolderOf' = [r \in Rows |-> 0]
    BY <1>6 DEF K!DatabaseLost, HolderOf, K!Held, K!Absent
  <2> QED
    BY <2>1, <2>2 DEF Fence!Lost, Fence!Nobody
<1>7. ASSUME UNCHANGED kernels PROVE UNCHANGED <<FencedEpochs, HolderOf>>
  BY <1>7, FenceStands DEF kernels
<1>8. ASSUME NEW k \in Kernels, NEW r \in Rows, RowWritten(k, r) PROVE Fence!Next
  BY <1>8, WriteTakes DEF Fence!Next
<1>9. ASSUME NEW k \in Kernels, K!BootEnd(k) PROVE Fence!Next
  BY <1>9, BootFences DEF Fence!Next
<1> QED
  BY <1>1, <1>2, <1>3, <1>4, <1>5, <1>6, <1>7, <1>8, <1>9, LeaseWritten, JobWritten, TaskWritten
  DEF K!Next, Fence!Next

LEMMA FenceInit == K!Init => Fence!Init
  BY DEF K!Init, Fence!Init, Fence!Nobody, FencedEpochs, HolderOf, K!Held, K!Absent

\* The start of kernels, and all they write, implement the fence: what a completed boot
\* fenced holds nothing from then on, whichever kernels boot, write, die or are restored
\* (persistence/recovery/startup.py:108-112).
THEOREM StartupImplementsEpochFence == Spec => ImplementsEpochFence
<1>1. Init => Fence!Init
  BY FenceInit DEF Init
<1>2. SideBySideInv => RegistryInv /\ FenceHolds
  BY RegistryFences DEF SideBySideInv, KernelsInv
<1>3. RegistryInv /\ FenceHolds /\ FenceHolds' /\ [Next]_vars => [Fence!Next]_<<FencedEpochs, HolderOf>>
  BY OneMoves, FenceStep
<1> QED
  BY <1>1, <1>2, <1>3, SideBySideInit, SideBySideStep, PTL DEF Spec, ImplementsEpochFence, Fence!Spec
=============================================================================
