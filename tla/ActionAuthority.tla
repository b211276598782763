--------------------------- MODULE ActionAuthority ---------------------------
(***************************************************************************)
(* From an operator's decision to an audited effect: proposals and the     *)
(* commands on them (api/actions.py), capability tokens and rollback       *)
(* grants (kernel/capability.py), the gateway every tool runs through      *)
(* (tools/gateway.py) with its budget and disk gates, the event ledger it  *)
(* writes (kernel/event_store.py) and the replicator that copies the       *)
(* ledger's outbox to journal files (memory/replicator.py).                *)
(*                                                                         *)
(* Each call runs to its end without an await.  What can intervene is      *)
(* between calls: time, an amended contract, a proposal revised after the  *)
(* operator read it, a tool that raises half-way, a disk that fails while  *)
(* a batch is being written.  A refused call changes nothing unless an     *)
(* action below says what it leaves behind.                                *)
(***************************************************************************)
EXTENDS Integers, Sequences, FiniteSets

CONSTANTS
  Actions,         \* action_ids
  ActionTool,      \* the tool each proposal is created for
  Keys,            \* Idempotency-Key header values
  Tools,
  ToolClass,       \* the action_class of each tool
  ActionTarget,    \* the target_resource it is created with
  Payloads,        \* whatever else the digest binds: payload, plan, preflight
  Targets,
  AnyTarget,       \* the pattern "*"
  Patterns,        \* the patterns tokens and grants are issued for
  Brain, None,
  Ceilings,        \* permissions.action_ceiling of each contract version
  Budget,          \* monthly_budget_usd
  Costs,           \* what one model turn may cost
  DiskLevels,      \* disk utilisation, in percent
  BatchLimit,      \* events the replicator takes at once
  MaxClock, MaxRevisions, MaxTokens, MaxEvents  \* bounds

ConstantsAssumption ==
  /\ ActionTool \in [Actions -> Tools] /\ ActionTarget \in [Actions -> Patterns]
  /\ Patterns \subseteq Targets \cup {AnyTarget}
  /\ Ceilings \in Seq({"A0", "A1", "A2"}) /\ Ceilings # <<>>
  /\ BatchLimit \in Nat \ {0}
  /\ Costs \subseteq Nat \ {0} /\ DiskLevels \subseteq 0 .. 100 /\ Budget \in Nat
  /\ AnyTarget \notin Targets /\ Brain \notin Actions /\ None \notin Keys
  /\ MaxClock \in Nat /\ MaxRevisions \in Nat /\ MaxTokens \in Nat /\ MaxEvents \in Nat

ActionClass == {"A0", "A1", "A2", "A3"}

ToolClassAssumption == ToolClass \in [Tools -> ActionClass]

ActionStatus ==
  {"DRAFT", "PROPOSED", "PREFLIGHTING", "AWAITING_APPROVAL", "REJECTED", "CANCELLED",
   "EXPIRED", "APPROVED", "AUTHORIZED", "EXECUTING", "SUCCEEDED", "FAILED", "PARTIAL",
   "ROLLBACK_PENDING", "ROLLED_BACK", "ROLLBACK_FAILED"}

EventType ==
  {"USER_INPUT", "TOOL_CALLED", "EVIDENCE_PRODUCED", "ROLLBACK_EXECUTED", "SYSTEM_FAILURE"}

RelationType == {"CAUSED_BY", "PROVES", "INVALIDATES"}

VARIABLES
  proposals,  \* by action: the proposal, None before create_proposal
  cached,     \* keys of the idempotency cache
  tokens,     \* capability tokens issued
  grants,     \* rollback grants issued
  contract,   \* the version of the active contract
  spend,      \* cumulative_spend_usd
  clock,
  ledger,     \* _events
  edges,      \* _edges, over positions of the ledger
  outbox,     \* _outbox, as positions of the ledger
  journal,    \* what the replicator has written, as positions
  calls,      \* what has run on an operator's approval (history)
  effects,    \* by tool: how often a call of it has changed something (history)
  undone,     \* by tool: how often a rollback has (history)
  raised      \* tools whose rollback has raised after changing something (history)

authority == <<proposals, cached, tokens, grants, contract>>
store == <<ledger, edges, outbox>>
history == <<calls, effects, undone, raised>>
vars == <<authority, spend, clock, store, journal, history>>

\* What the digest binds.  It leaves out requested_effect, diff_preview, action_type,
\* project_id and task_id, which no check reads.
Bound == [tool : Tools, target : Patterns, contract : DOMAIN Ceilings, payload : Payloads]

\* version is proposal_version, which the digest binds as well.
Proposal ==
  [status : ActionStatus, version : Nat, bound : Bound, deadline : Nat]

\* reviewed (history): what the digest of the approval was computed from.
\* A token bound to one request (request_digest) is one for that target alone.
CapabilityToken ==
  [by : Actions \cup {Brain}, tool : Tools, target : Patterns, contract : DOMAIN Ceilings,
   expires : Nat, reviewed : Bound \cup {None}]

\* A tool call that passed the gates with a token issued on an approval.
Call == [token : CapabilityToken, target : Targets, contract : DOMAIN Ceilings]

RollbackGrant == [tool : Tools, target : Patterns, expires : Nat]

EventEnvelope == [type : EventType, tool : Tools \cup {None}, contract : Nat]

EventEdge == [source : Nat, target : Nat, type : RelationType]

Init ==
  /\ proposals = [a \in Actions |-> None]
  /\ cached = {} /\ tokens = {} /\ grants = {}
  /\ contract = 1 /\ spend = 0 /\ clock = 0
  /\ ledger = <<>> /\ edges = {} /\ outbox = <<>> /\ journal = <<>>
  /\ calls = {} /\ raised = {}
  /\ effects = [t \in Tools |-> 0] /\ undone = [t \in Tools |-> 0]

-----------------------------------------------------------------------------
(* Proposals *)

\* The proposal names a contract version, which need not be the active one.
CreateProposal(a) ==
  /\ proposals[a] = None
  /\ \E preflight_passed \in BOOLEAN, c \in 1 .. contract, payload \in Payloads :
       proposals' = [proposals EXCEPT ![a] =
         [status |-> IF preflight_passed THEN "AWAITING_APPROVAL" ELSE "PREFLIGHTING",
          version |-> 1, deadline |-> clock,
          bound |-> [tool |-> ActionTool[a], target |-> ActionTarget[a], contract |-> c,
                     payload |-> payload]]]
  /\ UNCHANGED <<cached, tokens, grants, contract, spend, clock, store, journal, history>>

\* Outside actions.py a proposal object may be edited, in what the digest binds or
\* not, with or without a new proposal_version, and marked as executed once it is
\* authorised.
ProposalRevised(a) ==
  /\ proposals[a] # None
  /\ \E bound \in Bound, bump \in {0, 1} :
       /\ proposals[a].version + bump <= MaxRevisions + 1
       /\ proposals' = [proposals EXCEPT ![a].bound = bound, ![a].version = @ + bump]
  /\ UNCHANGED <<cached, tokens, grants, contract, spend, clock, store, journal, history>>

ActionReported(a) ==
  /\ proposals[a] # None /\ proposals[a].status = "AUTHORIZED"
  /\ \E s \in {"SUCCEEDED", "FAILED", "PARTIAL"} :
       proposals' = [proposals EXCEPT ![a].status = s]
  /\ UNCHANGED <<cached, tokens, grants, contract, spend, clock, store, journal, history>>

\* A command with a key that is already in the cache is answered from it.
Fresh(k) == k \notin cached

Remember(k) == cached' = cached \cup ({k} \ {None})

\* A token is issued for A2 only to an operator, and for A3 never.
CanIssue(class, byOperator) == class # "A3" /\ (class = "A2" => byOperator)

Issue(t) ==
  /\ CanIssue(ToolClass[t.tool], t.by # Brain)
  /\ Cardinality(tokens) < MaxTokens
  /\ tokens' = tokens \cup {t}

\* Mutant: the authorization digest is not recomputed.
DigestUnchecked(a, reviewed) == TRUE

DigestMatches(a, reviewed) == proposals[a].bound = reviewed

\* The operator sends the version and the digest of what it reviewed.  The token is
\* for the contract version the proposal names; for A3 none is issued, and the
\* proposal stays authorised without one.
ApproveAction(a, version, reviewed, k) ==
  LET p == proposals[a] IN
  /\ Fresh(k)
  /\ p # None /\ p.status = "AWAITING_APPROVAL"
  /\ clock <= p.deadline
  /\ p.version = version
  /\ DigestMatches(a, reviewed)
  /\ ToolClass[p.bound.tool] # "A2"
  /\ proposals' = [proposals EXCEPT ![a].status = "AUTHORIZED"]
  /\ IF ToolClass[p.bound.tool] = "A3" THEN UNCHANGED <<tokens, cached>>
     ELSE /\ Issue([by |-> a, tool |-> p.bound.tool, target |-> p.bound.target,
                    contract |-> p.bound.contract, expires |-> clock, reviewed |-> reviewed])
          /\ Remember(k)
  /\ UNCHANGED <<grants, contract, spend, clock, store, journal, history>>

\* The approval is refused, and the proposal has expired for good.
ApprovalTooLate(a, k) ==
  /\ Fresh(k)
  /\ proposals[a] # None /\ proposals[a].status = "AWAITING_APPROVAL"
  /\ clock > proposals[a].deadline
  /\ proposals' = [proposals EXCEPT ![a].status = "EXPIRED"]
  /\ UNCHANGED <<cached, tokens, grants, contract, spend, clock, store, journal, history>>

RejectAction(a, version, k) ==
  /\ Fresh(k)
  /\ proposals[a] # None
  /\ proposals[a].status \in {"AWAITING_APPROVAL", "PREFLIGHTING", "PROPOSED"}
  /\ proposals[a].version = version
  /\ proposals' = [proposals EXCEPT ![a].status = "REJECTED"]
  /\ Remember(k)
  /\ UNCHANGED <<tokens, grants, contract, spend, clock, store, journal, history>>

RollbackAction(a, k) ==
  /\ Fresh(k)
  /\ proposals[a] # None /\ proposals[a].status \in {"FAILED", "PARTIAL", "SUCCEEDED"}
  /\ ToolClass[proposals[a].bound.tool] # "A2"
  /\ proposals' = [proposals EXCEPT ![a].status = "ROLLED_BACK"]
  /\ Remember(k)
  /\ UNCHANGED <<tokens, grants, contract, spend, clock, store, journal, history>>

\* The command endpoints: version and digest are those of what the operator last
\* saw, the key is a header it may leave out.
OperatorCommand(a) ==
  \E k \in Keys \cup {None} :
    \/ \E version \in 1 .. MaxRevisions + 1, reviewed \in Bound :
          ApproveAction(a, version, reviewed, k)
    \/ ApprovalTooLate(a, k)
    \/ \E version \in 1 .. MaxRevisions + 1 : RejectAction(a, version, k)
    \/ RollbackAction(a, k)

-----------------------------------------------------------------------------
(* Tokens and grants *)

IssueToken(tool, target) ==
  /\ Issue([by |-> Brain, tool |-> tool, target |-> target, contract |-> contract,
            expires |-> clock, reviewed |-> None])
  /\ UNCHANGED <<proposals, cached, grants, contract, spend, clock, store, journal, history>>

IssueRollbackGrant(tool, target) ==
  /\ grants = {}
  /\ grants' = {[tool |-> tool, target |-> target, expires |-> clock]}
  /\ UNCHANGED <<proposals, cached, tokens, contract, spend, clock, store, journal, history>>

Covers(pattern, target) == pattern \in {AnyTarget, target}

VerifyToken(t, target) ==
  /\ clock <= t.expires
  /\ t.contract = contract
  /\ Covers(t.target, target)

VerifyRollbackGrant(g, target) == clock <= g.expires /\ Covers(g.target, target)

-----------------------------------------------------------------------------
(* The gateway's gates *)

ClassOrder == [A0 |-> 0, A1 |-> 1, A2 |-> 2, A3 |-> 3]

Tier ==
  CASE spend >= Budget -> "TIER_3"
    [] spend < Budget /\ spend * 100 >= Budget * 85 -> "TIER_2"
    [] spend * 100 < Budget * 85 /\ spend * 100 >= Budget * 70 -> "TIER_1"
    [] OTHER -> "NORMAL"

BudgetAllows(class) == Tier = "TIER_3" => class = "A0"

DiskAllows(used, class) == used >= 90 => class = "A0"

GatesOpen(t, target, used) ==
  LET class == ToolClass[t.tool] IN
  /\ class # "A3"
  /\ VerifyToken(t, target)
  /\ ClassOrder[class] <= ClassOrder[Ceilings[contract]]
  /\ BudgetAllows(class)
  /\ DiskAllows(used, class)

-----------------------------------------------------------------------------
(* The ledger *)

Event(type, tool) == [type |-> type, tool |-> tool, contract |-> contract]

\* The chain hash of an event is the hash of all before it: its position.
AppendEvents(events) ==
  /\ Len(ledger) + Len(events) <= MaxEvents
  /\ ledger' = ledger \o events
  /\ outbox' = outbox \o [i \in 1 .. Len(events) |-> Len(ledger) + i]

Edge(source, target, type) == [source |-> source, target |-> target, type |-> type]

RecordUsage ==
  /\ spend < Budget
  /\ \E c \in Costs : spend' = spend + c
  /\ UNCHANGED <<authority, clock, store, journal, history>>

\* The INTENT_PARSED event that should follow is refused (append_event has no
\* parameter cause_event_ids), after USER_INPUT was appended.
SubmitCommand ==
  /\ AppendEvents(<<Event("USER_INPUT", None)>>)
  /\ UNCHANGED <<authority, spend, clock, edges, journal, history>>

\* What a tool, run or rolled back, may do to the world: A0 tools observe.
Mutates(tool) == IF ToolClass[tool] = "A0" THEN {0} ELSE {0, 1}

\* Mutant: TOOL_CALLED is recorded when the tool has returned.
CalledOnlyIfReturned(tool, returns) ==
  IF returns THEN <<Event("TOOL_CALLED", tool), Event("EVIDENCE_PRODUCED", tool)>> ELSE <<>>

CallRecord(tool, returns) ==
  IF returns THEN <<Event("TOOL_CALLED", tool), Event("EVIDENCE_PRODUCED", tool)>>
             ELSE <<Event("TOOL_CALLED", tool)>>

\* A tool may fail after changing something, and may raise instead of returning.
ExecuteTool(t, target, returns) ==
  /\ \E used \in DiskLevels : GatesOpen(t, target, used)
  /\ AppendEvents(CallRecord(t.tool, returns))
  /\ edges' = IF returns
                THEN edges \cup {Edge(Len(ledger) + 1, Len(ledger) + 2, "CAUSED_BY"),
                                 Edge(Len(ledger) + 2, Len(ledger) + 1, "PROVES")}
                ELSE edges
  /\ \E some \in Mutates(t.tool) : effects' = [effects EXCEPT ![t.tool] = @ + some]
  /\ calls' = IF t.by = Brain THEN calls
              ELSE calls \cup {[token |-> t, target |-> target, contract |-> contract]}
  /\ UNCHANGED <<authority, spend, clock, journal, undone, raised>>

Outcome == {"undone", "refused", "raises"}

\* A rollback that raises, perhaps after changing some files, leaves no event.
RollbackRecord(tool, outcome) ==
  CASE outcome = "undone" -> <<Event("ROLLBACK_EXECUTED", tool)>>
    [] outcome = "refused" -> <<Event("SYSTEM_FAILURE", tool)>>
    [] outcome = "raises" -> <<>>

\* original is the call event named by the caller; one the store does not know
\* makes append_event raise after the event was appended.
RollbackTool(tool, target, original, outcome) ==
  /\ \/ \E t \in tokens : t.tool = tool /\ VerifyToken(t, target)
     \/ \E g \in grants : g.tool = tool /\ VerifyRollbackGrant(g, target)
  /\ AppendEvents(RollbackRecord(tool, outcome))
  /\ edges' = edges \cup
       IF outcome = "raises" \/ original \notin DOMAIN ledger THEN {}
       ELSE {Edge(original, Len(ledger) + 1, "CAUSED_BY")} \cup
            IF outcome = "undone" THEN {Edge(Len(ledger) + 1, original, "INVALIDATES")} ELSE {}
  /\ \E some \in Mutates(tool) :
       /\ undone[tool] + some <= MaxEvents
       /\ undone' = [undone EXCEPT ![tool] = @ + some]
       /\ raised' = IF outcome = "raises" /\ some = 1 THEN raised \cup {tool} ELSE raised
  /\ UNCHANGED <<authority, spend, clock, journal, calls, effects>>

-----------------------------------------------------------------------------
(* Replication *)

\* The batch: the oldest events, at most BatchLimit of them.
BatchSize == IF Len(outbox) < BatchLimit THEN Len(outbox) ELSE BatchLimit

\* Mutant: the batch stays in the outbox while it is written.
Undrained(n) == outbox

Drained(n) == SubSeq(outbox, n + 1, Len(outbox))

\* The batch leaves the outbox first; a write that fails keeps a prefix of it.
SyncOutboxBatch(written) ==
  /\ outbox # <<>>
  /\ written <= BatchSize
  /\ outbox' = Drained(BatchSize)
  /\ journal' = journal \o SubSeq(outbox, 1, written)
  /\ UNCHANGED <<authority, spend, clock, ledger, edges, history>>

-----------------------------------------------------------------------------

AmendContract ==
  /\ contract < Len(Ceilings)
  /\ contract' = contract + 1
  /\ UNCHANGED <<proposals, cached, tokens, grants, spend, clock, store, journal, history>>

Tick ==
  /\ clock < MaxClock
  /\ clock' = clock + 1
  /\ UNCHANGED <<authority, spend, store, journal, history>>

Next ==
  \/ \E a \in Actions :
       CreateProposal(a) \/ OperatorCommand(a) \/ ProposalRevised(a) \/ ActionReported(a)
  \/ \E tool \in Tools, target \in Patterns :
       \/ IssueToken(tool, target) \/ IssueRollbackGrant(tool, target)
  \/ \E t \in tokens, target \in Targets, returns \in BOOLEAN : ExecuteTool(t, target, returns)
  \/ \E tool \in Tools, target \in Targets, original \in 0 .. Len(ledger), outcome \in Outcome :
       RollbackTool(tool, target, original, outcome)
  \/ \E written \in 0 .. Len(outbox) : SyncOutboxBatch(written)
  \/ RecordUsage \/ SubmitCommand \/ AmendContract \/ Tick

Spec == Init /\ [][Next]_vars

-----------------------------------------------------------------------------

TypeOK ==
  /\ proposals \in [Actions -> Proposal \cup {None}]
  /\ cached \subseteq Keys
  /\ tokens \subseteq CapabilityToken
  /\ grants \subseteq RollbackGrant
  /\ contract \in DOMAIN Ceilings /\ spend \in Nat /\ clock \in 0 .. MaxClock
  /\ ledger \in Seq(EventEnvelope)
  /\ edges \subseteq EventEdge
  /\ outbox \in Seq(DOMAIN ledger) /\ journal \in Seq(DOMAIN ledger)
  /\ calls \subseteq Call /\ raised \subseteq Tools
  /\ effects \in [Tools -> Nat] /\ undone \in [Tools -> Nat]

\* Whatever runs on an operator's approval is the tool, on the target and under the
\* contract version, of what the digest of that approval was computed from: an edit
\* before the approval or after it, or a contract amended between the proposal and
\* the call, leads to a refusal and never to a call of another scope
\* (actions.py:239-270, gateway.py:111-117).  Of the payload, which the digest binds
\* and the token does not carry, nothing is said.
RunsAsReviewed ==
  \A c \in calls :
    /\ c.token.tool = c.token.reviewed.tool
    /\ Covers(c.token.reviewed.target, c.target)
    /\ c.contract = c.token.reviewed.contract

CallEvents(tool) ==
  {i \in DOMAIN ledger :
     /\ ledger[i].type = "TOOL_CALLED" /\ ledger[i].tool = tool
     /\ ClassOrder[ToolClass[tool]] <= ClassOrder[Ceilings[ledger[i].contract]]}

RollbackEvents(tool) ==
  {i \in DOMAIN ledger :
     ledger[i].type \in {"ROLLBACK_EXECUTED", "SYSTEM_FAILURE"} /\ ledger[i].tool = tool}

\* Whatever calls of a tool changed, in full, in part or before they raised, the
\* ledger has a TOOL_CALLED event for each, of a contract that allowed it.  Whatever
\* its rollbacks changed, they left an event for each, as long as none of them has
\* raised after a change: the gateway records a rollback when it returns
\* (gateway.py:139-154 and 250-287).
EffectsAudited ==
  \A tool \in Tools :
    /\ effects[tool] <= Cardinality(CallEvents(tool))
    /\ tool \notin raised => undone[tool] <= Cardinality(RollbackEvents(tool))

\* An event reaches the journal at most once and after the events before it, also
\* when a write fails half-way and later batches follow.
JournalInOrder == \A i, j \in DOMAIN journal : i < j => journal[i] < journal[j]

=============================================================================
