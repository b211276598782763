------------------------------- MODULE Outbox -------------------------------
(***************************************************************************)
(* The transactional outbox: rows staged with a domain change              *)
(* (persistence/repositories/outbox.py) and the dispatchers that deliver   *)
(* them to the registered handlers (persistence/outbox/dispatcher.py),     *)
(* each batch in one UnitOfWork (persistence/unit_of_work.py).             *)
(*                                                                         *)
(* A batch is one transaction on PostgreSQL at READ COMMITTED, the         *)
(* project's default database.  Rows are selected without a lock and       *)
(* locked when the claim is flushed, by primary key and whatever their     *)
(* status is by then; nobody sees a claim or a mark before the commit.     *)
(* Handlers run inside the transaction, and what they did stays done when  *)
(* it is rolled back.                                                      *)
(***************************************************************************)
EXTENDS Naturals, FiniteSets

CONSTANTS
  Dispatchers,  \* dispatch_pending_batch loops
  Handlers,     \* the handlers of the rows' topic
  MaxRows,      \* bound: rows ever staged
  BatchSize,
  MaxRetries,
  MaxAborts,    \* bound: transactions rolled back
  MaxFailures   \* bound: failed passes over one row that are counted

ASSUME BoundsAssumption ==
  /\ MaxRows \in Nat /\ MaxAborts \in Nat
  /\ BatchSize \in Nat \ {0} /\ MaxRetries \in Nat \ {0}
  /\ MaxFailures \in Nat /\ MaxRetries <= MaxFailures

VARIABLES
  rows,      \* the committed outbox_records, oldest first
  pc,        \* where each dispatcher is in its batch
  batch,     \* the rows it selected
  todo,      \* those of them it has not handled yet
  attempts,  \* the attempts column as it read it (the session's identity map)
  marks,     \* what it has marked in its transaction
  seen,      \* by row: the handlers that returned normally for it
  failures,  \* by row: committed passes in which a handler failed
  aborts     \* transactions rolled back

vars == <<rows, pc, batch, todo, attempts, marks, seen, failures, aborts>>

RowIds == 1 .. MaxRows

RowStatus == {"ABSENT", "PENDING", "PROCESSING", "DELIVERED", "DEAD_LETTER"}

\* available: available_at has passed.
Row == [status : RowStatus, attempts : Nat, available : BOOLEAN]

Settled(r) == rows[r].status \in {"DELIVERED", "DEAD_LETTER"}

Init ==
  /\ rows = [r \in RowIds |-> [status |-> "ABSENT", attempts |-> 0, available |-> TRUE]]
  /\ pc = [d \in Dispatchers |-> "idle"]
  /\ batch = [d \in Dispatchers |-> {}]
  /\ todo = [d \in Dispatchers |-> {}]
  /\ attempts = [d \in Dispatchers |-> [r \in RowIds |-> 0]]
  /\ marks = [d \in Dispatchers |-> [r \in RowIds |-> "none"]]
  /\ seen = [r \in RowIds |-> {}]
  /\ failures = [r \in RowIds |-> 0]
  /\ aborts = 0

-----------------------------------------------------------------------------
\* stage_event, committed with the domain change that raised the event.
Stage(r) ==
  /\ rows[r].status = "ABSENT"
  /\ \A s \in 1 .. r - 1 : rows[s].status # "ABSENT"
  /\ rows' = [rows EXCEPT ![r].status = "PENDING"]
  /\ UNCHANGED <<pc, batch, todo, attempts, marks, seen, failures, aborts>>

Pending == {r \in RowIds : rows[r].status = "PENDING" /\ rows[r].available}

\* ORDER BY created_at LIMIT batch_size
Oldest == {r \in Pending : Cardinality({s \in Pending : s < r}) < BatchSize}

\* claim_pending: the SELECT.
Select(d) ==
  /\ pc[d] = "idle"
  /\ Pending # {}
  /\ pc' = [pc EXCEPT ![d] = "claiming"]
  /\ batch' = [batch EXCEPT ![d] = Oldest]
  /\ todo' = [todo EXCEPT ![d] = Oldest]
  /\ attempts' = [attempts EXCEPT ![d] = [r \in RowIds |-> rows[r].attempts]]
  /\ UNCHANGED <<rows, marks, seen, failures, aborts>>

Locked(d, r) == pc[d] \in {"delivering", "committing"} /\ r \in batch[d]

\* claim_pending: the flush.  It waits for the rows' locks, then claims them.
\* Mutant: the claim is committed before anything is delivered.
ClaimShown(d) == [r \in RowIds |-> IF r \in batch[d] THEN [rows[r] EXCEPT !.status = "PROCESSING"]
                                   ELSE rows[r]]
Claimed(d) == rows

Claim(d) ==
  /\ pc[d] = "claiming"
  /\ \A e \in Dispatchers \ {d}, r \in batch[d] : ~Locked(e, r)
  /\ pc' = [pc EXCEPT ![d] = "delivering"]
  /\ rows' = Claimed(d)
  /\ UNCHANGED <<batch, todo, attempts, marks, seen, failures, aborts>>

\* The row the dispatcher is at.
Current(d, r) == pc[d] = "delivering" /\ r \in todo[d] /\ \A s \in todo[d] : r <= s

\* Every handler is called, those that succeeded on an earlier pass too; one
\* that raises does not stop the next.
\* Mutant: the last handler to answer decides.
AnyOk(ok) == ok # {}
AllOk(ok) == ok = Handlers

Deliver(d, r, ok) ==
  /\ Current(d, r)
  /\ seen' = [seen EXCEPT ![r] = @ \cup ok]
  /\ marks' = [marks EXCEPT ![d][r] = IF AllOk(ok) THEN "ok" ELSE "failed"]
  /\ todo' = [todo EXCEPT ![d] = @ \ {r}]
  /\ pc' = IF todo[d] = {r} THEN [pc EXCEPT ![d] = "committing"] ELSE pc
  /\ UNCHANGED <<rows, batch, attempts, failures, aborts>>

\* mark_delivered writes the status only.
Delivered(row) == [row EXCEPT !.status = "DELIVERED"]

\* mark_failed counts from the attempts it read.  2^attempts seconds of
\* backoff: the row is not available for a while.
Failed(row, n) ==
  IF n + 1 >= MaxRetries
    THEN [row EXCEPT !.status = "DEAD_LETTER", !.attempts = n + 1]
    ELSE [status |-> "PENDING", attempts |-> n + 1, available |-> FALSE]

Marked(d, r) ==
  CASE marks[d][r] = "ok" -> Delivered(rows[r])
    [] marks[d][r] = "failed" -> Failed(rows[r], attempts[d][r])
    [] OTHER -> rows[r]

\* The dispatcher's transaction is over, and its session is closed.
Close(d) ==
  /\ pc' = [pc EXCEPT ![d] = "idle"]
  /\ batch' = [batch EXCEPT ![d] = {}]
  /\ todo' = [todo EXCEPT ![d] = {}]
  /\ attempts' = [attempts EXCEPT ![d] = [r \in RowIds |-> 0]]
  /\ marks' = [marks EXCEPT ![d] = [r \in RowIds |-> "none"]]

Commit(d) ==
  /\ pc[d] = "committing"
  /\ rows' = [r \in RowIds |-> Marked(d, r)]
  /\ failures' = [r \in RowIds |->
                    IF marks[d][r] = "failed" /\ failures[r] < MaxFailures
                      THEN failures[r] + 1 ELSE failures[r]]
  /\ Close(d)
  /\ UNCHANGED <<seen, aborts>>

\* The process dies, the task is cancelled, or the database refuses: the
\* transaction is rolled back.  Some handlers of the current row may have run.
Abort(d) ==
  /\ pc[d] # "idle"
  /\ aborts < MaxAborts
  /\ aborts' = aborts + 1
  /\ \/ UNCHANGED seen
     \/ \E r \in RowIds, ok \in SUBSET Handlers :
          Current(d, r) /\ seen' = [seen EXCEPT ![r] = @ \cup ok]
  /\ Close(d)
  /\ UNCHANGED <<rows, failures>>

BackoffElapses(r) ==
  /\ rows[r].status = "PENDING" /\ ~rows[r].available
  /\ rows' = [rows EXCEPT ![r].available = TRUE]
  /\ UNCHANGED <<pc, batch, todo, attempts, marks, seen, failures, aborts>>

Dispatch(d) ==
  \/ Select(d)
  \/ Claim(d)
  \/ \E r \in RowIds, ok \in SUBSET Handlers : Deliver(d, r, ok)
  \/ Commit(d)

Next ==
  \/ \E r \in RowIds : Stage(r) \/ BackoffElapses(r)
  \/ \E d \in Dispatchers :
       Dispatch(d) \/ Abort(d)

Spec == Init /\ [][Next]_vars

\* Dispatchers keep polling, and backoffs end.  Handlers may fail for ever.
FairSpec ==
  /\ Spec
  /\ \A d \in Dispatchers : WF_vars(Dispatch(d))
  /\ \A r \in RowIds : WF_vars(BackoffElapses(r))

-----------------------------------------------------------------------------
TypeOK ==
  /\ rows \in [RowIds -> Row]
  /\ pc \in [Dispatchers -> {"idle", "claiming", "delivering", "committing"}]
  /\ batch \in [Dispatchers -> SUBSET RowIds]
  /\ todo \in [Dispatchers -> SUBSET RowIds]
  /\ attempts \in [Dispatchers -> [RowIds -> Nat]]
  /\ marks \in [Dispatchers -> [RowIds -> {"none", "ok", "failed"}]]
  /\ seen \in [RowIds -> SUBSET Handlers]
  /\ failures \in [RowIds -> Nat]
  /\ aborts \in Nat

\* At-least-once delivery: a row that counts as delivered reached every handler
\* (M6-INV-07, persistence/outbox/dispatcher.py:4).
DeliveredWereSeen ==
  \A r \in RowIds : rows[r].status = "DELIVERED" => seen[r] = Handlers

\* No row is given up before its retries are used, though two dispatchers may
\* count from the same old number of attempts.
NotGivenUpEarly ==
  \A r \in RowIds : rows[r].status = "DEAD_LETTER" => failures[r] >= MaxRetries

\* Every staged row ends delivered or dead-lettered, for good, through
\* rollbacks at any point and dispatchers that overwrite each other's marks.
Settles ==
  \A r \in RowIds : (rows[r].status # "ABSENT") ~> [](Settled(r))
=============================================================================
