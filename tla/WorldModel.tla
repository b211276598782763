----------------------------- MODULE WorldModel -----------------------------
(* The world model: observations pass the ingest gate into a ledger,       *)
(* processing cells project them into assertions about entities and detect   *)
(* contradictions with strong earlier assertions; contradictions are         *)
(* resolved, entities merged and split, and a restarted kernel reconciles    *)
(* the freshness of what is in force. Missions watch for values. One         *)
(* property key is modelled; all observations are strong (confidence of at   *)
(* least 0.8) and open-ended, as the adapters make them.                     *)
(*                                                                           *)
(* Nothing serialises the projections: the fence (processor.py:64-78) only   *)
(* stops a cell of an earlier epoch or generation from beginning, and nobody *)
(* keeps what was projected. So any cell may project any stored observation  *)
(* at any time, and again. A transaction takes several steps, between which  *)
(* others commit; what it wrote is seen when it commits, and until then who  *)
(* would write the same row waits.                                           *)
EXTENDS Naturals, Sequences, FiniteSets

CONSTANTS Entities, Values, Sources, Cells, None,
          MaxObservations, MaxAssertions, MaxEpoch, MaxTime, MaxResolutions, MaxVersion, MaxWatches

WorldAssumption ==
  /\ {MaxObservations, MaxAssertions, MaxTime, MaxResolutions, MaxVersion, MaxWatches} \subseteq Nat
  /\ MaxEpoch \in Nat \ {0}
  /\ None \notin Entities \cup Nat

VARIABLES
  epoch,          \* the kernel's epoch
  now,            \* the clock, in multiples of the expected frequency
  session,        \* the epoch of the session each source has open, 0 for none
  ledger,         \* the observations, in the order they were saved
  entities,       \* stored entities: whom each is merged into, and its version
  assertions,     \* stored assertions, in the order they were created
  contradictions, \* stored contradictions
  watches,        \* stored watches
  cell,           \* the transaction of each processing cell
  recovery,       \* the transaction of the recovery
  lineage,        \* of each assertion, the first of those replaced one after the other
                  \* up to it (history)
  won, lost       \* assertions that ever won a resolution; that lost their last (history)

history == <<lineage, won, lost>>
vars == <<epoch, now, session, ledger, entities, assertions, contradictions, watches, cell,
          recovery, history>>

Ids == 1 .. Len(assertions)

\* The rows of the tables.
ObservationORM == [source : Sources, key : Nat, subject : Entities, value : Values, at : Nat]
WorldEntityORM == [merged : Entities \cup {None}, version : Nat]
AssertionStatus == {"ACTIVE", "SUPERSEDED", "CONTRADICTED", "REJECTED"}
WorldPropertyAssertionORM ==
  [entity : Entities, value : Values, at : Nat, status : AssertionStatus, fresh : BOOLEAN, version : Nat]
WorldContradictionORM == [prev : Nat, draft : {0}, status : {"OPEN", "RESOLVED"}]
WorldWatchORM == [entity : Entities, value : Values, status : {"ACTIVE", "TRIGGERED"}]

TypeOK ==
  /\ epoch \in 1 .. MaxEpoch /\ now \in 0 .. MaxTime /\ session \in [Sources -> 0 .. epoch]
  /\ ledger \in Seq(ObservationORM)
  /\ DOMAIN entities \subseteq Entities /\ \A e \in DOMAIN entities : entities[e] \in WorldEntityORM
  /\ assertions \in Seq(WorldPropertyAssertionORM)
  /\ contradictions \in Seq(WorldContradictionORM) /\ watches \in Seq(WorldWatchORM)
  /\ lineage \in Seq(Ids) /\ won \subseteq Ids /\ lost \subseteq Ids

NewEntity == [merged |-> None, version |-> 1]

Init ==
  /\ epoch = 1 /\ now = 0
  /\ session = [s \in Sources |-> 0]
  /\ ledger = <<>>
  \* Some were stored with another property key.
  /\ \E known \in SUBSET Entities : entities = [e \in known |-> NewEntity]
  /\ assertions = <<>> /\ contradictions = <<>> /\ watches = <<>>
  /\ cell = [c \in Cells |-> None] /\ recovery = None
  /\ lineage = <<>> /\ won = {} /\ lost = {}

-----------------------------------------------------------------------------
(* Sources and the ingest gate.                                              *)

OpenSession(s) ==
  /\ session' = [session EXCEPT ![s] = epoch]
  /\ UNCHANGED <<epoch, now, ledger, entities, assertions, contradictions, watches, cell, recovery, history>>

\* A source sends an observation, possibly again: one that is stored is returned
\* as it is; the same id with another payload is refused, and so is a session of
\* an earlier epoch. What it observed, it may have observed long ago.
Stored(s, k) == \E i \in 1 .. Len(ledger) : ledger[i].source = s /\ ledger[i].key = k

SaveObservation(o) == ledger' = Append(ledger, o)

IngestObservation(s, k, e, v, t) ==
  /\ session[s] = epoch /\ ~Stored(s, k) /\ Len(ledger) < MaxObservations
  /\ SaveObservation([source |-> s, key |-> k, subject |-> e, value |-> v, at |-> t])
  /\ UNCHANGED <<epoch, now, session, entities, assertions, contradictions, watches, cell, recovery, history>>

-----------------------------------------------------------------------------
(* Entities.                                                                 *)

\* resolve_entity follows one merge.
Resolve(e) == IF e \in DOMAIN entities /\ entities[e].merged # None THEN entities[e].merged ELSE e

UpdateEntity(e, merged) ==
  /\ entities[e].version < MaxVersion
  /\ entities' = [entities EXCEPT ![e] = [merged |-> merged, version |-> @.version + 1]]

MergeEntities(e, f) ==
  /\ {e, f} \subseteq DOMAIN entities /\ e # f /\ UpdateEntity(e, f)
  /\ UNCHANGED <<epoch, now, session, ledger, assertions, contradictions, watches, cell, recovery, history>>

SplitEntity(e) ==
  /\ e \in DOMAIN entities /\ UpdateEntity(e, None)
  /\ UNCHANGED <<epoch, now, session, ledger, assertions, contradictions, watches, cell, recovery, history>>

-----------------------------------------------------------------------------
(* Projection of an observation.                                             *)

Active(as, e) == {i \in 1 .. Len(as) : as[i].entity = e /\ as[i].status = "ACTIVE"}

\* get_active_assertion: of those in force, the one valid from the latest time; 0 for none.
Latest(as, ids) ==
  IF ids = {} THEN 0 ELSE CHOOSE i \in ids : \A j \in ids : as[j].at <= as[i].at

Marked(as, i, status) ==
  IF i = 0 THEN as ELSE [as EXCEPT ![i].status = status, ![i].version = @ + 1]

\* The cell resolves the entity, inserts it when it is not stored (another cell that
\* inserts it is waited for), and reads the assertion in force.
BeginProjection(c, o) ==
  /\ cell[c] = None
  /\ Len(assertions) + Cardinality({d \in Cells : cell[d] # None}) < MaxAssertions
  /\ LET e == Resolve(o.subject) IN
     /\ e \in DOMAIN entities \/ \A d \in Cells : cell[d] # None => cell[d].entity # e
     /\ cell' = [cell EXCEPT ![c] =
          [observation |-> o, entity |-> e, prev |-> Latest(assertions, Active(assertions, e)),
           checked |-> FALSE, marked |-> 0, existing |-> 0, version |-> 0]]
  /\ UNCHANGED <<epoch, now, session, ledger, entities, assertions, contradictions, watches, recovery, history>>

\* Rows that a transaction wrote and did not commit.
Locked(i) == \E c \in Cells : cell[c] # None /\ cell[c].marked = i

\* check_contradiction marks the assertion that was in force when the cell began,
\* whatever became of it since;
Conflicting(t) == IF t.prev # 0 /\ assertions[t.prev].value # t.observation.value THEN t.prev ELSE 0

\* and assert_property reads what is in force now, to supersede it.
CheckContradiction(c) ==
  /\ cell[c] # None /\ ~cell[c].checked
  /\ LET t == cell[c]
         marked == Conflicting(t)
         existing == Latest(assertions, Active(assertions, t.entity) \ {marked})
     IN /\ marked = 0 \/ ~Locked(marked)
        /\ cell' = [cell EXCEPT ![c] =
             [t EXCEPT !.checked = TRUE, !.prev = 0, !.marked = marked, !.existing = existing,
                       !.version = IF existing = 0 THEN 0 ELSE assertions[existing].version]]
  /\ UNCHANGED <<epoch, now, session, ledger, entities, assertions, contradictions, watches, recovery, history>>

\* Mutant: the version is not compared.
AnyVersion(i, version) == TRUE

\* An update names the version it read, and raises when it is not the row's.
VersionIs(i, version) == assertions[i].version = version

\* create_assertion, create_contradiction and create_entity insert a row. The other id
\* a contradiction records is that of a draft which is never stored (0).
CreateAssertion(as, e, o) ==
  Append(as, [entity |-> e, value |-> o.value, at |-> o.at, status |-> "ACTIVE", fresh |-> TRUE, version |-> 1])
CreateContradiction(i) == Append(contradictions, [prev |-> i, draft |-> 0, status |-> "OPEN"])
CreateEntity(f) ==
  [e \in DOMAIN entities \cup {f} |-> IF e \in DOMAIN entities THEN entities[e] ELSE NewEntity]

\* evaluate_watches_for_assertion, on an assertion just made (it is fresh and observed):
\* the active watches of the entity for this value trigger, and are not active again.
Evaluated(e, v) ==
  [i \in 1 .. Len(watches) |->
     IF watches[i] = [entity |-> e, value |-> v, status |-> "ACTIVE"]
     THEN [watches[i] EXCEPT !.status = "TRIGGERED"] ELSE watches[i]]

\* The assertion that the transaction takes out of force is followed by the new one.
Follows(t) ==
  IF t.existing # 0 THEN lineage[t.existing]
  ELSE IF t.marked # 0 /\ assertions[t.marked].status = "ACTIVE" THEN lineage[t.marked]
  ELSE Len(assertions) + 1

Superseded(t) == Marked(Marked(assertions, t.marked, "CONTRADICTED"), t.existing, "SUPERSEDED")

CommitProjection(c) ==
  /\ cell[c] # None /\ cell[c].checked
  /\ LET t == cell[c] IN
     /\ t.existing # 0 => ~Locked(t.existing) /\ VersionIs(t.existing, t.version)
     /\ assertions' = CreateAssertion(Superseded(t), t.entity, t.observation)
     /\ watches' = Evaluated(t.entity, t.observation.value)
     /\ contradictions' = IF t.marked # 0 THEN CreateContradiction(t.marked) ELSE contradictions
     /\ entities' = IF t.entity \in DOMAIN entities THEN entities ELSE CreateEntity(t.entity)
     /\ lineage' = Append(lineage, Follows(t))
  /\ cell' = [cell EXCEPT ![c] = None]
  /\ UNCHANGED <<epoch, now, session, ledger, recovery, won, lost>>

\* An update or an insertion raises, or the process ends: all is rolled back.
AbandonProjection(c) ==
  /\ cell[c] # None /\ cell' = [cell EXCEPT ![c] = None]
  /\ UNCHANGED <<epoch, now, session, ledger, entities, assertions, contradictions, watches, recovery, history>>

ResolvedRow(c) == [contradictions EXCEPT ![c].status = "RESOLVED"]

\* resolve_contradiction: whoever is said to win becomes active, be it another entity's;
\* it may be the draft, which is not stored (0). The recorded assertion that did not win
\* is rejected, whatever its status. Resolving again is not refused.
ResolveContradiction(c, w) ==
  LET prev == contradictions[c].prev
      loser == IF prev = w THEN 0 ELSE prev
  IN
  /\ Cardinality({d \in 1 .. Len(contradictions) : contradictions[d].status = "RESOLVED"} \cup {c}) <= MaxResolutions
  /\ \A i \in {w, prev} \ {0} : ~Locked(i) /\ assertions[i].version < MaxVersion
  /\ contradictions' = ResolvedRow(c)
  /\ assertions' = Marked(Marked(assertions, w, "ACTIVE"), loser, "REJECTED")
  /\ won' = won \cup ({w} \ {0})
  /\ lost' = (lost \ {w}) \cup ({loser} \ {0})
  /\ UNCHANGED <<epoch, now, session, ledger, entities, watches, cell, recovery, lineage>>

\* A mission waits for a value of an entity, whether or not the value is there already.
CreateWatch(e, v) ==
  /\ Len(watches) < MaxWatches
  /\ watches' = Append(watches, [entity |-> e, value |-> v, status |-> "ACTIVE"])
  /\ UNCHANGED <<epoch, now, session, ledger, entities, assertions, contradictions, cell, recovery, history>>

-----------------------------------------------------------------------------
(* Restart and recovery.                                                     *)

Tick ==
  /\ now < MaxTime /\ now' = now + 1
  /\ UNCHANGED <<epoch, session, ledger, entities, assertions, contradictions, watches, cell, recovery, history>>

\* The sessions are lost, and the transactions of the processes that are gone; the epoch
\* advances.
KernelRestarts ==
  /\ epoch < MaxEpoch /\ epoch' = epoch + 1
  /\ session' = [s \in Sources |-> 0]
  /\ \E gone \in SUBSET Cells : cell' = [c \in Cells |-> IF c \in gone THEN None ELSE cell[c]]
  /\ recovery' = None
  /\ UNCHANGED <<now, ledger, entities, assertions, contradictions, watches, history>>

\* reconcile_freshness_after_restart reads the assertions in force,
IsFresh(at, t) == t <= at

Outdated == {i \in Ids : assertions[i].status = "ACTIVE" /\ assertions[i].fresh # IsFresh(assertions[i].at, now)}

BeginRecovery ==
  /\ recovery = None
  /\ recovery' = [i \in Outdated |-> assertions[i].version]
  /\ UNCHANGED <<epoch, now, session, ledger, entities, assertions, contradictions, watches, cell, history>>

\* and updates those whose freshness has changed, writing the status it read; one
\* update of a row whose version has changed raises, and nothing is written.
ReadIsCurrent == \A i \in DOMAIN recovery : VersionIs(i, recovery[i])

Recovered ==
  [i \in Ids |->
     IF i \in DOMAIN recovery
     THEN [assertions[i] EXCEPT !.status = "ACTIVE", !.fresh = ~@, !.version = recovery[i] + 1]
     ELSE assertions[i]]

CommitRecovery ==
  /\ recovery # None /\ \A i \in DOMAIN recovery : ~Locked(i)
  /\ assertions' = IF ReadIsCurrent THEN Recovered ELSE assertions
  /\ recovery' = None
  /\ UNCHANGED <<epoch, now, session, ledger, entities, contradictions, watches, cell, history>>

Next ==
  \/ \E s \in Sources : OpenSession(s)
  \/ \E s \in Sources, k \in 1 .. MaxObservations, e \in Entities, v \in Values, t \in 0 .. now :
       IngestObservation(s, k, e, v, t)
  \/ \E e, f \in Entities : MergeEntities(e, f)
  \/ \E e \in Entities : SplitEntity(e)
  \/ \E c \in Cells :
       \/ \E i \in 1 .. Len(ledger) : BeginProjection(c, ledger[i])
       \/ CheckContradiction(c) \/ CommitProjection(c) \/ AbandonProjection(c)
  \/ \E c \in 1 .. Len(contradictions), w \in Ids \cup {0} : ResolveContradiction(c, w)
  \/ \E e \in Entities, v \in Values : CreateWatch(e, v)
  \/ Tick \/ KernelRestarts
  \/ BeginRecovery \/ CommitRecovery

Spec == Init /\ [][Next]_vars

-----------------------------------------------------------------------------
\* Whatever projections, resolutions, merges and recoveries read before others committed:
\* of the assertions that replaced one another only the last is in force, and what a
\* resolution rejected is not, unless a resolution brings one back (assertions.py:54-60,
\* contradictions.py:107-150, freshness.py:61-87).  Where none was in force, two cells
\* may each store one, and both are: these are two lineages.
NewestInForce ==
  /\ \A i \in Ids : assertions[i].status = "ACTIVE" =>
       \/ \E w \in won : lineage[w] = lineage[i]
       \/ \A j \in Ids : lineage[j] = lineage[i] => j <= i
  /\ \A i \in lost : assertions[i].status # "ACTIVE"

=============================================================================
