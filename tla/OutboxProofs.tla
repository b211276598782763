---------------------------- MODULE OutboxProofs ----------------------------
(***************************************************************************)
(* Theorems about Outbox for any number of dispatchers, handlers, rows,    *)
(* retries and rollbacks.                                                  *)
(*                                                                         *)
(* The argument: what handlers have seen only grows, so a dispatcher that  *)
(* holds an "ok" mark is right whenever it commits (MarksTrue); and the    *)
(* attempts a dispatcher counts from, however old, were all real failures  *)
(* (AttemptsReal), of which a row that may still be retried has fewer than *)
(* MaxRetries (Retryable).                                                 *)
(***************************************************************************)
EXTENDS Outbox, TLAPS

MarksTrue ==
  \A d \in Dispatchers, r \in RowIds :
    /\ marks[d][r] = "ok" => seen[r] = Handlers
    /\ marks[d][r] = "failed" => r \in batch[d]
    /\ r \in todo[d] => r \in batch[d]
    /\ pc[d] \in {"idle", "claiming"} => marks[d][r] = "none"

AttemptsReal ==
  \A r \in RowIds :
    /\ rows[r].attempts <= failures[r]
    /\ \A d \in Dispatchers : attempts[d][r] <= failures[r]

Retryable ==
  \A r \in RowIds :
    /\ rows[r].status = "PENDING" => rows[r].attempts < MaxRetries
    /\ rows[r].status = "ABSENT" => rows[r].attempts = 0
    /\ rows[r].status = "DEAD_LETTER" => rows[r].attempts >= MaxRetries
    /\ \A d \in Dispatchers : r \in batch[d] => attempts[d][r] < MaxRetries

Safe ==
  /\ TypeOK
  /\ DeliveredWereSeen
  /\ MarksTrue
  /\ AttemptsReal
  /\ Retryable

LEMMA ConstantTypes == MaxRetries \in Nat \ {0} /\ MaxFailures \in Nat /\ MaxRetries <= MaxFailures
  BY BoundsAssumption

LEMMA InitSafe == Init => Safe
<1> SUFFICES ASSUME Init PROVE Safe
  OBVIOUS
<1>1. [status |-> "ABSENT", attempts |-> 0, available |-> TRUE] \in Row
  BY DEF Row, RowStatus
<1>2. TypeOK
  BY <1>1 DEF Init, TypeOK
<1>3. DeliveredWereSeen /\ MarksTrue /\ AttemptsReal /\ Retryable
  BY ConstantTypes DEF Init, DeliveredWereSeen, MarksTrue, AttemptsReal, Retryable
<1> QED
  BY <1>2, <1>3 DEF Safe

-----------------------------------------------------------------------------
(* Rows.                                                                   *)

LEMMA RowTypes ==
  ASSUME NEW row \in Row, NEW n \in Nat
  PROVE  /\ row.status \in RowStatus /\ row.attempts \in Nat
         /\ [row EXCEPT !.status = "PENDING"] \in Row
         /\ [row EXCEPT !.available = TRUE] \in Row
         /\ Delivered(row) \in Row
         /\ Failed(row, n) \in Row
<1>1. n + 1 \in Nat
  OBVIOUS
<1>2. [row EXCEPT !.status = "DEAD_LETTER", !.attempts = n + 1] \in Row
  BY <1>1 DEF Row, RowStatus
<1>3. [status |-> "PENDING", attempts |-> n + 1, available |-> FALSE] \in Row
  BY <1>1 DEF Row, RowStatus
<1>4. Failed(row, n) \in Row
  BY <1>2, <1>3 DEF Failed
<1>5. /\ [row EXCEPT !.status = "PENDING"] \in Row
      /\ [row EXCEPT !.available = TRUE] \in Row
      /\ Delivered(row) \in Row
  BY DEF Row, RowStatus, Delivered
<1> QED
  BY <1>4, <1>5 DEF Row

\* What a row holds after a commit.
LEMMA MarkedRows ==
  ASSUME TypeOK, NEW d \in Dispatchers, NEW r \in RowIds
  PROVE  /\ Marked(d, r) \in Row
         /\ marks[d][r] = "none" => Marked(d, r) = rows[r]
         /\ marks[d][r] = "ok" => /\ Marked(d, r).status = "DELIVERED"
                                  /\ Marked(d, r).attempts = rows[r].attempts
         /\ marks[d][r] = "failed" =>
              /\ Marked(d, r).attempts = attempts[d][r] + 1
              /\ Marked(d, r).status = IF attempts[d][r] + 1 >= MaxRetries
                                       THEN "DEAD_LETTER" ELSE "PENDING"
<1>1. rows[r] \in Row /\ attempts[d][r] \in Nat /\ marks[d][r] \in {"none", "ok", "failed"}
  BY DEF TypeOK
<1>2. Delivered(rows[r]) \in Row /\ Failed(rows[r], attempts[d][r]) \in Row
  BY <1>1, RowTypes
<1>3. CASE marks[d][r] = "none"
  BY <1>1, <1>3 DEF Marked
<1>4. CASE marks[d][r] = "ok"
  BY <1>1, <1>2, <1>4 DEF Marked, Delivered, Row
<1>5. CASE marks[d][r] = "failed"
  <2>1. Marked(d, r) = Failed(rows[r], attempts[d][r])
    BY <1>5 DEF Marked
  <2> QED
    BY <1>1, <1>2, <1>5, <2>1 DEF Failed, Row
<1> QED
  BY <1>1, <1>3, <1>4, <1>5

-----------------------------------------------------------------------------
(* Steps.                                                                  *)

LEMMA StageSafe == ASSUME Safe, NEW r \in RowIds, Stage(r) PROVE Safe'
<1> USE DEF Safe
<1>1. rows[r] \in Row /\ rows[r].status = "ABSENT" /\ [rows[r] EXCEPT !.status = "PENDING"] \in Row
  BY RowTypes, ConstantTypes DEF TypeOK, Stage
<1>2. /\ rows' = [rows EXCEPT ![r] = [rows[r] EXCEPT !.status = "PENDING"]]
      /\ UNCHANGED <<pc, batch, todo, attempts, marks, seen, failures, aborts>>
  BY <1>1 DEF Stage, TypeOK
<1>3. /\ rows'[r].status = "PENDING" /\ rows'[r].attempts = rows[r].attempts
      /\ \A s \in RowIds \ {r} : rows'[s] = rows[s]
  BY <1>1, <1>2 DEF TypeOK, Row
<1>4. TypeOK'
  BY <1>1, <1>2 DEF TypeOK
<1>5. DeliveredWereSeen' /\ MarksTrue' /\ AttemptsReal'
  BY <1>2, <1>3 DEF DeliveredWereSeen, MarksTrue, AttemptsReal
<1>6. Retryable'
  BY <1>1, <1>2, <1>3, ConstantTypes DEF Retryable
<1> QED
  BY <1>4, <1>5, <1>6

LEMMA BackoffElapsesSafe == ASSUME Safe, NEW r \in RowIds, BackoffElapses(r) PROVE Safe'
<1> USE DEF Safe
<1>1. rows[r] \in Row /\ [rows[r] EXCEPT !.available = TRUE] \in Row
  BY RowTypes, ConstantTypes DEF TypeOK
<1>2. /\ rows' = [rows EXCEPT ![r] = [rows[r] EXCEPT !.available = TRUE]]
      /\ UNCHANGED <<pc, batch, todo, attempts, marks, seen, failures, aborts>>
  BY <1>1 DEF BackoffElapses, TypeOK
<1>3. \A s \in RowIds : rows'[s].status = rows[s].status /\ rows'[s].attempts = rows[s].attempts
  BY <1>1, <1>2 DEF TypeOK, Row
<1>4. TypeOK'
  BY <1>1, <1>2 DEF TypeOK
<1>5. DeliveredWereSeen' /\ MarksTrue' /\ AttemptsReal' /\ Retryable'
  BY <1>2, <1>3 DEF DeliveredWereSeen, MarksTrue, AttemptsReal, Retryable
<1> QED
  BY <1>4, <1>5

LEMMA SelectSafe == ASSUME Safe, NEW d \in Dispatchers, Select(d) PROVE Safe'
<1> USE DEF Safe
<1>1. /\ pc[d] = "idle"
      /\ pc' = [pc EXCEPT ![d] = "claiming"]
      /\ batch' = [batch EXCEPT ![d] = Oldest]
      /\ todo' = [todo EXCEPT ![d] = Oldest]
      /\ attempts' = [attempts EXCEPT ![d] = [r \in RowIds |-> rows[r].attempts]]
      /\ UNCHANGED <<rows, marks, seen, failures, aborts>>
  BY DEF Select
<1>2. Oldest \subseteq RowIds /\ \A r \in Oldest : rows[r].status = "PENDING"
  BY DEF Oldest, Pending
<1>3. \A r \in RowIds : rows[r].attempts \in Nat
  BY RowTypes, ConstantTypes DEF TypeOK
<1>4. TypeOK'
  BY <1>1, <1>2, <1>3 DEF TypeOK
<1>5. DeliveredWereSeen' /\ MarksTrue'
  BY <1>1 DEF TypeOK, DeliveredWereSeen, MarksTrue
<1>6. AttemptsReal'
  BY <1>1 DEF TypeOK, AttemptsReal
<1>7. Retryable'
  BY <1>1, <1>2 DEF TypeOK, Retryable
<1> QED
  BY <1>4, <1>5, <1>6, <1>7

LEMMA ClaimSafe == ASSUME Safe, NEW d \in Dispatchers, Claim(d) PROVE Safe'
<1> USE DEF Safe
<1>1. /\ pc[d] = "claiming"
      /\ pc' = [pc EXCEPT ![d] = "delivering"]
      /\ UNCHANGED <<rows, batch, todo, attempts, marks, seen, failures, aborts>>
  BY DEF Claim, Claimed
<1>2. TypeOK'
  BY <1>1 DEF TypeOK
<1>3. DeliveredWereSeen' /\ MarksTrue' /\ AttemptsReal' /\ Retryable'
  BY <1>1 DEF TypeOK, DeliveredWereSeen, MarksTrue, AttemptsReal, Retryable
<1> QED
  BY <1>2, <1>3

LEMMA DeliverSafe ==
  ASSUME Safe, NEW d \in Dispatchers, NEW r \in RowIds, NEW ok \in SUBSET Handlers,
         Deliver(d, r, ok)
  PROVE  Safe'
<1> USE DEF Safe
<1> DEFINE mark == IF AllOk(ok) THEN "ok" ELSE "failed"
<1>1. /\ pc[d] = "delivering" /\ r \in todo[d]
      /\ seen' = [seen EXCEPT ![r] = @ \cup ok]
      /\ marks' = [marks EXCEPT ![d][r] = mark]
      /\ todo' = [todo EXCEPT ![d] = @ \ {r}]
      /\ pc' = IF todo[d] = {r} THEN [pc EXCEPT ![d] = "committing"] ELSE pc
      /\ UNCHANGED <<rows, batch, attempts, failures, aborts>>
  BY DEF Deliver, Current
<1>2. mark \in {"ok", "failed"} /\ (mark = "ok" => ok = Handlers)
  BY DEF AllOk
<1> HIDE DEF mark
<1>3. /\ pc'[d] \in {"delivering", "committing"}
      /\ \A e \in Dispatchers \ {d} : pc'[e] = pc[e]
  BY <1>1 DEF TypeOK
<1>4. \A s \in RowIds : seen[s] \subseteq seen'[s] /\ seen'[s] \subseteq Handlers
  BY <1>1 DEF TypeOK
<1>5. ok \subseteq seen'[r]
  BY <1>1 DEF TypeOK
<1>6. TypeOK'
  <2>1. marks' \in [Dispatchers -> [RowIds -> {"none", "ok", "failed"}]]
    BY <1>1, <1>2 DEF TypeOK
  <2>2. seen' \in [RowIds -> SUBSET Handlers]
    BY <1>1 DEF TypeOK
  <2>3. pc' \in [Dispatchers -> {"idle", "claiming", "delivering", "committing"}]
    BY <1>1 DEF TypeOK
  <2>4. todo' \in [Dispatchers -> SUBSET RowIds]
    BY <1>1 DEF TypeOK
  <2> QED
    BY <1>1, <2>1, <2>2, <2>3, <2>4 DEF TypeOK
<1>7. DeliveredWereSeen'
  BY <1>1, <1>4 DEF TypeOK, DeliveredWereSeen
<1>8. MarksTrue'
  <2> SUFFICES ASSUME NEW e \in Dispatchers, NEW s \in RowIds
               PROVE  /\ marks'[e][s] = "ok" => seen'[s] = Handlers
                      /\ marks'[e][s] = "failed" => s \in batch[e]
                      /\ s \in todo'[e] => s \in batch[e]
                      /\ pc'[e] \in {"idle", "claiming"} => marks'[e][s] = "none"
    BY <1>1 DEF MarksTrue
  <2>1. todo'[e] \subseteq todo[e]
    BY <1>1 DEF TypeOK
  <2>2. CASE e = d /\ s = r
    <3>1. marks'[e][s] = mark
      BY <1>1, <2>2 DEF TypeOK
    <3>2. s \in batch[e]
      BY <1>1, <2>2 DEF MarksTrue
    <3>3. marks'[e][s] = "ok" => seen'[s] = Handlers
      BY <1>2, <1>4, <1>5, <2>2, <3>1
    <3>4. pc'[e] \notin {"idle", "claiming"}
      BY <1>3, <2>2
    <3>5. marks'[e][s] = "failed" => s \in batch[e]
      BY <3>2
    <3>6. s \in todo'[e] => s \in batch[e]
      BY <3>2
    <3> QED
      BY <3>3, <3>4, <3>5, <3>6
  <2>3. CASE ~(e = d /\ s = r)
    <3>1. marks'[e][s] = marks[e][s]
      BY <1>1, <2>3 DEF TypeOK
    <3>2. marks[e][s] = "ok" => seen'[s] = Handlers
      <4>1. marks[e][s] = "ok" => seen[s] = Handlers
        BY DEF MarksTrue
      <4>2. seen[s] = Handlers => seen'[s] = Handlers
        <5> SUFFICES ASSUME seen[s] = Handlers PROVE seen'[s] = Handlers
          OBVIOUS
        <5>1. Handlers \subseteq seen'[s] /\ seen'[s] \subseteq Handlers
          BY <1>4
        <5> QED
          BY <5>1
      <4> QED
        BY <4>1, <4>2
    <3>3. pc'[e] \in {"idle", "claiming"} => pc'[e] = pc[e]
      BY <1>3
    <3>4. pc'[e] \in {"idle", "claiming"} => marks'[e][s] = "none"
      BY <3>1, <3>3 DEF MarksTrue
    <3>5. /\ marks'[e][s] = "failed" => s \in batch[e]
          /\ s \in todo'[e] => s \in batch[e]
      BY <2>1, <3>1 DEF MarksTrue
    <3> QED
      BY <3>1, <3>2, <3>4, <3>5
  <2> QED
    BY <2>2, <2>3
<1>9. AttemptsReal' /\ Retryable'
  BY <1>1 DEF AttemptsReal, Retryable
<1> QED
  BY <1>6, <1>7, <1>8, <1>9

\* Ending a transaction forgets what it held.
LEMMA CloseSafe ==
  ASSUME TypeOK, MarksTrue, NEW d \in Dispatchers, Close(d)
  PROVE  /\ pc' \in [Dispatchers -> {"idle", "claiming", "delivering", "committing"}]
         /\ batch' \in [Dispatchers -> SUBSET RowIds]
         /\ todo' \in [Dispatchers -> SUBSET RowIds]
         /\ attempts' \in [Dispatchers -> [RowIds -> Nat]]
         /\ marks' \in [Dispatchers -> [RowIds -> {"none", "ok", "failed"}]]
         /\ \A e \in Dispatchers, r \in RowIds :
              /\ marks'[e][r] = "ok" => seen[r] = Handlers
              /\ marks'[e][r] = "failed" => r \in batch'[e]
              /\ r \in todo'[e] => r \in batch'[e]
              /\ pc'[e] \in {"idle", "claiming"} => marks'[e][r] = "none"
              /\ attempts'[e][r] \in {0, attempts[e][r]}
              /\ r \in batch'[e] => r \in batch[e] /\ attempts'[e][r] = attempts[e][r]
<1>1. /\ batch' = [batch EXCEPT ![d] = {}]
      /\ todo' = [todo EXCEPT ![d] = {}]
      /\ pc' = [pc EXCEPT ![d] = "idle"]
  BY DEF Close
<1>2. /\ attempts' = [attempts EXCEPT ![d] = [r \in RowIds |-> 0]]
      /\ marks' = [marks EXCEPT ![d] = [r \in RowIds |-> "none"]]
  BY DEF Close
<1>3. SUFFICES ASSUME NEW e \in Dispatchers, NEW r \in RowIds
               PROVE  /\ marks'[e][r] = "ok" => seen[r] = Handlers
                      /\ marks'[e][r] = "failed" => r \in batch'[e]
                      /\ r \in todo'[e] => r \in batch'[e]
                      /\ pc'[e] \in {"idle", "claiming"} => marks'[e][r] = "none"
                      /\ attempts'[e][r] \in {0, attempts[e][r]}
                      /\ r \in batch'[e] => r \in batch[e] /\ attempts'[e][r] = attempts[e][r]
  BY <1>1, <1>2 DEF TypeOK
<1>4. CASE e = d
  BY <1>1, <1>2, <1>4 DEF TypeOK
<1>5. CASE e # d
  BY <1>1, <1>2, <1>5 DEF TypeOK, MarksTrue
<1> QED
  BY <1>4, <1>5

LEMMA CommitSafe == ASSUME Safe, NEW d \in Dispatchers, Commit(d) PROVE Safe'
<1> USE DEF Safe
<1> DEFINE count(r) == IF marks[d][r] = "failed" /\ failures[r] < MaxFailures
                         THEN failures[r] + 1 ELSE failures[r]
<1>1. /\ rows' = [r \in RowIds |-> Marked(d, r)]
      /\ failures' = [r \in RowIds |-> count(r)]
      /\ Close(d)
      /\ UNCHANGED <<seen, aborts>>
  BY DEF Commit
<1>2. \A r \in RowIds : rows'[r] = Marked(d, r) /\ Marked(d, r) \in Row
  BY <1>1, MarkedRows
<1>3. \A r \in RowIds : /\ failures'[r] \in Nat /\ failures'[r] >= failures[r]
                        /\ marks[d][r] = "failed" => attempts[d][r] + 1 <= failures'[r]
  <2> TAKE r \in RowIds
  <2>1. failures'[r] = count(r) /\ failures[r] \in Nat /\ attempts[d][r] \in Nat
    BY <1>1 DEF TypeOK
  <2>2. attempts[d][r] <= failures[r]
    BY DEF AttemptsReal
  <2>3. marks[d][r] = "failed" => attempts[d][r] < MaxRetries
    BY DEF MarksTrue, Retryable
  <2> QED
    BY <2>1, <2>2, <2>3, ConstantTypes
<1> HIDE DEF count
<1>4. TypeOK'
  <2>1. rows' \in [RowIds -> Row]
    BY <1>1, <1>2
  <2>2. failures' \in [RowIds -> Nat]
    BY <1>1, <1>3
  <2> QED
    BY <1>1, <2>1, <2>2, CloseSafe DEF TypeOK
<1>5. MarksTrue'
  BY <1>1, CloseSafe DEF MarksTrue
<1>6. DeliveredWereSeen' /\ AttemptsReal' /\ Retryable'
  <2> SUFFICES ASSUME NEW r \in RowIds
               PROVE  /\ rows'[r].status = "DELIVERED" => seen'[r] = Handlers
                      /\ rows'[r].attempts <= failures'[r]
                      /\ \A e \in Dispatchers : attempts'[e][r] <= failures'[r]
                      /\ rows'[r].status = "PENDING" => rows'[r].attempts < MaxRetries
                      /\ rows'[r].status = "ABSENT" => rows'[r].attempts = 0
                      /\ rows'[r].status = "DEAD_LETTER" => rows'[r].attempts >= MaxRetries
                      /\ \A e \in Dispatchers : r \in batch'[e] => attempts'[e][r] < MaxRetries
    BY DEF DeliveredWereSeen, AttemptsReal, Retryable
  <2>1. /\ failures[r] \in Nat /\ failures'[r] \in Nat /\ failures'[r] >= failures[r]
        /\ rows[r].attempts \in Nat /\ rows[r].attempts <= failures[r]
    BY <1>3, RowTypes, ConstantTypes DEF TypeOK, AttemptsReal
  <2>2. \A e \in Dispatchers : attempts'[e][r] <= failures'[r]
    <3> TAKE e \in Dispatchers
    <3>1. attempts'[e][r] \in {0, attempts[e][r]} /\ attempts[e][r] \in Nat
      BY <1>1, CloseSafe DEF TypeOK
    <3>2. attempts[e][r] <= failures[r]
      BY DEF AttemptsReal
    <3> QED
      BY <2>1, <3>1, <3>2
  <2>3. \A e \in Dispatchers : r \in batch'[e] => attempts'[e][r] < MaxRetries
    BY <1>1, CloseSafe DEF Retryable
  <2>4. CASE marks[d][r] = "none"
    <3>1. rows'[r] = rows[r] /\ seen' = seen
      BY <1>1, <1>2, <2>4, MarkedRows
    <3> QED
      BY <2>1, <2>2, <2>3, <3>1 DEF DeliveredWereSeen, Retryable
  <2>5. CASE marks[d][r] = "ok"
    <3>1. /\ rows'[r].status = "DELIVERED" /\ rows'[r].attempts = rows[r].attempts
          /\ seen'[r] = Handlers
      BY <1>1, <1>2, <2>5, MarkedRows DEF MarksTrue
    <3> QED
      BY <2>1, <2>2, <2>3, <3>1
  <2>6. CASE marks[d][r] = "failed"
    <3>1. /\ rows'[r].attempts = attempts[d][r] + 1
          /\ rows'[r].status = IF attempts[d][r] + 1 >= MaxRetries THEN "DEAD_LETTER" ELSE "PENDING"
      BY <1>2, <2>6, MarkedRows
    <3>2. attempts[d][r] \in Nat /\ attempts[d][r] + 1 <= failures'[r]
      BY <1>3, <2>6 DEF TypeOK
    <3> QED
      BY <2>1, <2>2, <2>3, <3>1, <3>2, ConstantTypes
  <2>7. marks[d][r] \in {"none", "ok", "failed"}
    BY DEF TypeOK
  <2> QED
    BY <2>4, <2>5, <2>6, <2>7
<1> QED
  BY <1>4, <1>5, <1>6

LEMMA AbortSafe == ASSUME Safe, NEW d \in Dispatchers, Abort(d) PROVE Safe'
<1> USE DEF Safe
<1>1. Close(d) /\ UNCHANGED <<rows, failures>> /\ aborts' = aborts + 1
  BY DEF Abort
<1>2. seen' \in [RowIds -> SUBSET Handlers] /\ \A r \in RowIds : seen[r] \subseteq seen'[r]
  BY DEF Abort, TypeOK
<1>3. TypeOK'
  BY <1>1, <1>2, CloseSafe DEF TypeOK
<1> DEFINE full(r) == seen[r] = Handlers
<1>4a. \A r \in RowIds : full(r) => seen'[r] = Handlers
  <2> SUFFICES ASSUME NEW r \in RowIds, full(r) PROVE seen'[r] = Handlers
    OBVIOUS
  <2>1. seen'[r] \in SUBSET Handlers /\ seen[r] \subseteq seen'[r]
    BY <1>2
  <2> QED
    BY <2>1
<1>4. DeliveredWereSeen'
  BY <1>1, <1>4a DEF DeliveredWereSeen
<1>5. \A e \in Dispatchers, r \in RowIds : marks'[e][r] = "ok" => seen'[r] = Handlers
  <2>1. \A e \in Dispatchers, r \in RowIds : marks'[e][r] = "ok" => full(r)
    BY <1>1, CloseSafe
  <2> QED
    BY <1>4a, <2>1
<1>6. MarksTrue'
  BY <1>1, <1>5, CloseSafe DEF MarksTrue
<1>7. \A e \in Dispatchers, r \in RowIds :
        /\ attempts'[e][r] <= failures[r]
        /\ r \in batch'[e] => attempts'[e][r] < MaxRetries
  <2> TAKE e \in Dispatchers, r \in RowIds
  <2>1. /\ attempts'[e][r] \in {0, attempts[e][r]}
        /\ r \in batch'[e] => r \in batch[e] /\ attempts'[e][r] = attempts[e][r]
    BY <1>1, CloseSafe
  <2>2. failures[r] \in Nat /\ attempts[e][r] <= failures[r]
    BY DEF TypeOK, AttemptsReal
  <2> QED
    BY <2>1, <2>2 DEF Retryable
<1>8. AttemptsReal' /\ Retryable'
  BY <1>1, <1>7 DEF AttemptsReal, Retryable
<1> QED
  BY <1>3, <1>4, <1>6, <1>8

LEMMA StutterSafe == ASSUME Safe, UNCHANGED vars PROVE Safe'
  BY DEF Safe, vars, TypeOK, DeliveredWereSeen, MarksTrue, AttemptsReal, Retryable

LEMMA StepSafe == Safe /\ [Next]_vars => Safe'
<1> SUFFICES ASSUME Safe, [Next]_vars PROVE Safe'
  OBVIOUS
<1>1. CASE \E r \in RowIds : Stage(r) \/ BackoffElapses(r)
  BY <1>1, StageSafe, BackoffElapsesSafe
<1>2. CASE \E d \in Dispatchers : Dispatch(d)
  BY <1>2, SelectSafe, ClaimSafe, DeliverSafe, CommitSafe DEF Dispatch
<1>3. CASE \E d \in Dispatchers : Abort(d)
  BY <1>3, AbortSafe
<1>4. CASE UNCHANGED vars
  BY <1>4, StutterSafe
<1> QED
  BY <1>1, <1>2, <1>3, <1>4 DEF Next

LEMMA AlwaysSafe == Spec => []Safe
<1>1. Init => Safe
  BY InitSafe
<1>2. Safe /\ [Next]_vars => Safe'
  BY StepSafe
<1> QED
  BY <1>1, <1>2, PTL DEF Spec

-----------------------------------------------------------------------------
\* Every variable of Outbox stays within its type.
THEOREM TypeCorrect == Spec => []TypeOK
<1>1. Safe => TypeOK
  BY DEF Safe
<1> QED
  BY <1>1, AlwaysSafe, PTL

\* A row marked delivered has reached every handler of its topic, whichever of
\* the dispatchers that held it wrote last (UniversalOutboxDispatcher, M6-INV-07).
THEOREM DeliveryIsAtLeastOnce == Spec => []DeliveredWereSeen
<1>1. Safe => DeliveredWereSeen
  BY DEF Safe
<1> QED
  BY <1>1, AlwaysSafe, PTL

\* A dead-lettered row failed in at least MaxRetries committed passes, although
\* mark_failed counts from an attempts column that may be out of date.
THEOREM RetriesAreUsedUp == Spec => []NotGivenUpEarly
<1>1. Safe => NotGivenUpEarly
  <2> SUFFICES ASSUME Safe, NEW r \in RowIds, rows[r].status = "DEAD_LETTER"
               PROVE  failures[r] >= MaxRetries
    BY DEF NotGivenUpEarly
  <2>1. rows[r].attempts >= MaxRetries /\ rows[r].attempts <= failures[r]
    BY DEF Safe, Retryable, AttemptsReal
  <2>2. rows[r].attempts \in Nat /\ failures[r] \in Nat
    BY RowTypes, ConstantTypes DEF Safe, TypeOK
  <2> QED
    BY <2>1, <2>2, ConstantTypes
<1> QED
  BY <1>1, AlwaysSafe, PTL
=============================================================================
