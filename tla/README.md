# A TLA+ verification project for Universal Brain

Universal Brain "separates reasoning from authority": models may propose, and a
deterministic control plane decides.  This directory models that control plane
in TLA+, checks the models with TLC on small instances, and proves the main
safety properties for every instance with TLAPS.

Python paths below are relative to `src/universal_brain/`.

## 1. Inventory

| Component | State it keeps | Operations | Hard behaviour | What makes it correct |
|---|---|---|---|---|
| Worker queue: `tools/workers/{queue,schemas,auth,tool}.py`, `engineering/worker_verification.py` | jobs with status, generation, lease, checkpoints, evidence; completed keys | register, enqueue, poll, progress, complete, reap, rollback, verified completion | late and repeated requests of workers that lost their lease; expiry; a verifier awaited between reading and writing | generations are fencing tokens; one checkpoint history; older work is not accepted after newer; abandoned jobs return |
| Durable lease registry: `engineering/distributed_leases.py` | a JSON file, a lock file | acquire, heartbeat, release, validate_fence, get, list_active | several processes, crashes while locked, stale lock files, failed writes | the lock excludes; a generation is granted once; one live holder; calls return |
| Mission control: `autonomy/{mission,wakeups,revalidation,schemas}.py`, `autonomy/scheduler.py` (waits) | mission status and version, processed keys, wakeups, the contract version a mission is bound to | transition, schedule, cancel and fire wakeups, external wait, contract check and upgrade | retried commands, versions read earlier, wakeups that come late, four writers of one status | a command applies once; one winner per version; wakeups settle once and late ones are harmless; sleepers wake |
| Transactional outbox: `persistence/repositories/outbox.py`, `persistence/outbox/dispatcher.py`, `persistence/unit_of_work.py` | outbox rows | stage, claim, deliver, mark, commit, roll back | two dispatchers, stale counters, a batch rolled back after its handlers ran, a handler of several failing | at-least-once delivery, no row given up early, every row settles |
| Operator actions: `api/actions.py` | proposals, an idempotency cache | propose, approve, reject, roll back | retries of one key across commands, deadlines, contract changes between approval and use | what runs on an approval is of the scope that was read |
| Capability kernel and tool gateway: `kernel/capability.py`, `tools/{base,gateway}.py` | signed tokens and grants; the registered tools | issue, verify, execute, roll back | tokens that outlive a contract; a tool that raises between two audit events | every effect of a call is allowed by its contract and audited |
| Event store: `kernel/{event_store,events}.py`, `memory/replicator.py` | the hash chain, causal edges, an outbox buffer | append, link, trace, drain | a failed append that has already appended; drained events whose chunk is not written; restart | one chain; the journal keeps its order and repeats nothing |
| Durable missions and startup: `autonomy/recovery.py`, `persistence/recovery/startup.py`, `persistence/repositories/{missions,lifecycle}.py` | rows of missions, wakeups, leases, epochs | guarded updates, epoch advance, recovery | recovery that races with API writes; two kernels starting; a crash in between | dead epochs hold nothing; a ready ledger is a chain; a recovery resumes only sleepers |
| Agent cells: `autonomy/{leases,roles,resources,blackboard,commitments,dependencies}.py` | agent leases with budgets, entries, commitments, edges | grant, use, revoke, expire; publish; promise | usage recorded after revocation; two leases of one task; cycles | an agent that was replaced is not allowed to work; disputes can be settled; deadlocks are found; one holder per resource |
| Mission supervision: `autonomy/{anti_loop,progress,watchdog,escalation,checkpoints}.py` | fingerprints, stall counters, escalations, checkpoints | observe, assess, escalate, checkpoint | long sequences of legal calls | loops are found; checkpoints verify |
| Executive: `executive/` | task graph, handoffs, model leases, budget | schedule, hand off, charge | two steps interleaving at the await, a lease revoked meanwhile, a provider or a tool failing mid-node | one step per node, dependencies first, no split brain after a hand-off, every ready node is taken |
| Engineering delivery: `engineering/{agency,merge_coordinator,checkpointing,worktrees,verification,evidence,completion,remediation,replanning,planning,multirepo}.py` | git branches, checkpoints, evidence | plan, isolate, integrate, verify, complete | a branch that moves between check and merge; commands that run in the base checkout; an abort that fails; a crash between checkpoints | the base holds verified trees only; integration sees every requirement |
| Engineering services and language server: `engineering/{services,lsp_runtime}.py`, `tools/runner/service_tool.py` | service records and a registry file; child processes; an output stream | start, stop, query, recover; request, notify, close | processes that outlive the kernel, refused queries, answers that come after their caller gave up | what is reported stopped is gone; an answer belongs to its question |
| Engineering analysis and isolation: `engineering/{code_graph,semantic,validation,isolation,...}.py` | indexes | parse, score, build command lines | none of protocol | data algorithms |
| Intelligence fabric: `intelligence/`, `engineering/local_resources.py` | quotas, health, reservations, conversation bindings, nodes of a mission | route, call, stream, escalate, recover a session, deliberate | failover while others change health and quota, streams that break, sessions reopened while requests go on, members of a council failing | no route is asked twice for one request; a binding is not forked; a council is of independents |
| World model: `world/`, `persistence/repositories/world.py` | observations, entities, assertions, contradictions, watches | ingest, project, contradict, resolve, merge, recover | an assertion read before others commit, late observations, a restart between ledger and projection | of assertions that replaced one another the last is in force |
| Sandbox and runner: `tools/sandbox/`, `tools/runner/` | files, checkpoints | stage, apply, verify, roll back | other writers between check and replacement, rollbacks that meet later work | a mutation that is undone brings the content back |
| Alignment: `alignment/`, `executive/intent.py` | versions of the contract | create, amend | amendments of a version that is not the latest | amendments keep constraints |
| Console: `api/websocket.py`, `console/src/context/ConsoleContext.tsx` | a numbered buffer of events, connections | broadcast, subscribe, replay | replay beside broadcasts, events that left the buffer, numbers that begin again | a client misses nothing without being told |
| Memory retention, notifications: `memory/retention.py`, `notifications/` | | | | |

How they interact: the API (`api/router.py`) calls the action manager, the
worker queue and the missions; the gateway verifies capability tokens, asks the
budget and retention gates, runs a tool and appends to the event store; the
mission scheduler grants agent leases and appends events; the repositories write
rows in one unit of work, with outbox rows in the same transaction; dispatchers
deliver those; startup recovery reads everything back under a new epoch.

## 2. Modules

Each header names the files it translates, and `PROJECT.json` ("map") the lines
behind every definition.

The queue, the leases, missions, outbox and executive, each with proofs:

- `WorkerQueue` - the queue, one action per method; worker requests are built
  from any lease ever granted, so they may be late or repeated.  A claim on the
  completion gate is a message in flight (`claims`) until the verifier answers.
- `FencedLog` - what the queue promises: per item an epoch that advances and a
  log extended only with larger sequences in the present epoch.
- `LeaseRegistry` - the lock-file protocol; a call is the steps *create the lock
  file - load and decide - persist - unlink*, and processes interleave between
  them, crash, fail to write, time out, and break stale lock files in two steps.
- `FencedRegistry` - what the registry promises: an atomic map from task to
  holder, each hand-over under the next generation.  The resource leases of
  `Coordination` promise the same of resources.
- `MissionControl` - missions, commands, wakeups and the contract guard.
- `Outbox` - rows, dispatchers and transactions at READ COMMITTED.
- `Executive` - `execute_step` coroutines on one task graph, split at the await
  of the model, with model leases, hand-offs and the gateway's gates.

The kernel and the stores under it, composed by `MCKernel`:

- `ActionAuthority` - from a proposal through approval, token and gateway to a
  recorded effect and the journal.  No call of it awaits anything, so a call is a
  step; what comes between calls is time, an amended contract, a revised
  proposal.  A tool that raises half-way and a disk that fails while a batch is
  written are outcomes of a step.
- `WorkspaceTransactions` - staging, applying, verifying and rolling back a file
  change while others edit the file between any two of these.
- `ContractLifecycle` - versions of a contract and what amendments keep.
- `KernelStartup` - kernels that boot, persist events, write rows and die on one
  database, and its restoration from the journal.  A boot is two steps: it reads
  the largest epoch, and later commits.
- `EpochFence` - what epochs promise about leases and jobs: epochs are fenced for
  good, and a fenced epoch holds and is given nothing from then on.
- `DurableMissions` - mission, wakeup and lease rows under clients, schedulers
  and a recovery.  A transaction is one step unless its session goes on using
  rows it read earlier; then others commit in between.
- `ConsoleStream` - the gateway's numbers and replay buffer, and clients.

Agents, models and what they know, composed by `MCCognition`:

- `AgentLeases` - assignment of agents by schedulers of successive epochs; work is
  allowed by a lease, done outside the model, and its usage recorded afterwards.
- `Blackboard` - claims, conflicts, arbitration and commitments.
- `Coordination` - the dependency graph with its search, and resource leases.
- `IntelligenceFabric` - calls, streams and escalations over routes that share
  health, quota and local memory.
- `SessionContinuity` - the bindings of each role's work on routes that lose and
  regain their sessions, with concurrent requests and recoveries.
- `CognitiveMission` - nodes of a mission and the councils that work on them, each
  role routed when its stage begins.
- `WorldModel` - observations, projections that several cells make unserialised,
  contradictions, merges and recovery.

The engineering agency, composed by `MCEngineering`:

- `EngineeringDelivery` - `run_dag` with concurrent nodes, worktrees, merges,
  recovery nodes, checkpoints and a crash.
- `VerifiedDelivery` - what a delivery promises: requirements enter the base one at
  a time and once each, as a verified revision, in a tree that was verified whole.
- `ManagedServices` - the supervisor, the tool that owns the processes, and
  kernels that die between the launch of a service and its record.
- `LspClient` - callers that share a language server and its output.

`MCx` modules extend or instantiate models for TLC, `xProofs` modules hold
theorems.  Components that share no state are checked in one run: the variable
`focus` is chosen initially and says which of them moves, so the states add up
instead of multiplying, and each is checked as if it were alone.  Two focuses may
share a component and narrow it differently (`TargetsEdited` and `NothingProposed`,
`OnlyPair` and `OneOfEach`, `NothingLeased` and `MovedOnce` of `MCKernel`), so that
one instance meets several bounds, and a focus may bound what its own component
combines (`FewMoves`, `Promises` and `WorldMoves` of `MCCognition`, `OneRecovery` and
`FewQuestions` of `MCEngineering`).  The composing modules take every value and bound as a CONSTANT with a
named assumption, and the .cfg supplies them: theorems about their `Spec` are
about every instance.

Three devices recur.  On an event loop, a coroutine moves alone from one await
to the next: `running` (or `LoopIsFree`) names the one that moves.  Rows read in
one statement and written in a later one are two steps.  Variables marked
*history* in a header (`applied`, `seen`, `accepted`, `allowed`, `effects`,
`lineage`, `defaulted`, `questions`) record what happened for a property to speak of, and no guard reads
them.

| Code | TLA+ |
|---|---|
| `WorkerJob` fields | `status`, `key`, `generation`, `lease`, `checkpoints`, `lastSeq`, `evidence`, functions of the job's number |
| lease and token expiry | `lease[j].left`, ticks until `now > expires_at`; token and lease expire together |
| the gate's `await verifier.verify` | the time between `ClaimCompletion` and `ClaimVerified` / `ClaimRejected` |
| `.lock` file and its mtime | `lock`: owner and `stale` |
| the state a process has loaded and changed | `draft[p]` |
| `MissionController._processed_commands` | `processed`; `applied` records what was carried out (history) |
| `OutboxRecordORM` | `rows`; `attempts[d]` is the identity map's old copy of the column |
| `UnitOfWork` | `Select` .. `Commit`, or `Abort` |
| `await provider.generate_response` | the time between `StepBegins` and `ModelRaises` / `Answer...` |
| the event loop between two awaits | `LoopIsFree`: while a step dispatches, no other coroutine moves |
| `HandoffSnapshot.incoming_lease_id` | `incoming` of a snapshot, 0 until it is executed |
| event store, as the executive fills it | `ledger[n]`, the kinds of event recorded for a node |
| `CapabilityToken`, `RollbackGrant` | `tokens`, `grants` of `ActionAuthority`: who may do what to which target, under which contract, until when |
| `EventStore` chain, edges and outbox | `ledger`, `edges`, `outbox`; `journal` is what the replicator wrote |
| `LifecycleEpochORM`, leases, jobs, tasks | `lifecycle`, `table` and `row` of `KernelStartup`; `ledger` is each kernel's own chain |
| git: worktree, branch, base checkout, MERGE_HEAD | `worktree`, `branch`, `base`, `staged`, `dirty` of `EngineeringDelivery`, as revisions of each requirement |
| `RouteHealth`, quota windows | `health`, `cooldown`, `used`; `call` is where each request is and the routes it has asked |
| the language server's pipe | `output`, and `torn` once half of a message was read |

Abstractions worth knowing.  Worker sessions are left out, because a generation
determines its session.  Tokens are the facts their verification checks.  A
lease of the registry has one workspace per worker.  The last two guards of
`validate_transition` judge arguments of the call and are left to the caller.
`fire_wakeup`'s version check compares a version with itself in the only call,
so EXPIRED is not reachable.  In `Executive` the router either finds a model or
raises and a health gate is open or shut, whatever the budget and the disk are;
a token is checked against the contract it was issued under in the same call,
so only the class of the node decides whether there is one; a lease's spending
ceiling (5 USD at 0.005 a turn) lies far beyond its ten turns.

In `EngineeringDelivery` file contents are revisions and a verification is its
verdict, left open; a command without a working directory may edit the base.  The
id of a recovery node is cut at 120 characters, so one that recovers another of a
long id loses the ending the agency acts on: `Long` names the requirements it
happens to.  The contract has several requirements: with a single one, the
architecture and integration nodes would be nodes of that requirement, with its
worktree.  In `LspClient` closing awaits, launches fail and servers answer with
errors; a start that fails within another start closes once.

In `ActionAuthority` an edit of a proposal changes its tool, target, contract or
payload, which the digest binds; the fields shown to the operator besides
(`requested_effect`, `diff_preview`, `action_type`, ids) are not bound by it
(`api/actions.py:104-121`), so nothing is claimed of them, and the token carries no
payload.  In `IntelligenceFabric` a score is any order of the eligible
routes.  The members of a council make claims on one topic.  In
`SessionContinuity` an open circuit counts as degraded, as the code treats both
alike there.  `WorldModel` has one property key, strong observations and
open-ended intervals, as the adapters make them.  `ManagedServices` takes a call
through the gateway as one step, because the gateway-backed backend does not
suspend; another backend could.  In `WorkspaceTransactions` a
checkpoint has one target, as each of the three places that make one gives it
(`tools/sandbox/workspace.py:154`, 196, 238); contents are modelled, so directories
made for a target and left behind are not; the process does not die in the middle of
an operation, and others save files but do not delete them.

## 3. Runs

| Run | Instance | What it shows |
|---|---|---|
| `queue` | 2 workers, 1 key, sequences 1..2; 1 job with 2 grants, leases of 2 ticks and 1 claim on the gate; 1 job with 3 grants, leases of 1 tick; 2 jobs with 2 grants, leases of 1 tick | checkpoint history, older work not accepted after newer, refinement of `FencedLog`, abandoned jobs return |
| `queue_rerun` | 1 job, 2 grants | a documented claim fails: a completed job is executed again |
| `queue_stale` | 1 job, 2 grants | a documented claim fails: a stale verdict overwrites a job |
| `leases` | 2 processes, 1 task, 3 ticks, 2 generations, 1 crash | one live holder, refinement of `FencedRegistry`, calls return |
| `leases_stale` | 3 processes, 1 crash | a documented claim fails: two processes break one stale lock |
| `missions` | 1 mission, 1 key, 2 wakeups, 5 versions, 1 amendment | commands apply once, one per version, sleepers wake |
| `outbox` | 2 dispatchers, 2 handlers, 2 rows, 2 attempts, 1 rollback | delivery and settlement |
| `executive` | 2 steps, 2 branches and a join of class A2, 1 call per answer, 1 turn per lease | nodes taken in turn, no split brain, no ready node starves |
| `kernel` | 1 reversible action under 2 contracts with a revision of its target or contract and a key, or calls and rollbacks with 2 events in batches of 1; 1 file with 2 foreign edits and 2 checkpoints; 3 contract versions; 2 kernels writing twice, or 3 once; 1 mission of 3 versions without schedulers, or of 2 with 2 schedulers of 2 epochs; 2 consoles, buffer of 1, 1 restart | approvals, audit, journal, undoing, constraints, epochs, refinement of `EpochFence`, the chain, recovery, the stream |
| `delivery` | 2 requirements, 2 parallel nodes, 2 recovery nodes (1 once the process crashed), 2 edits each, 1 crash, long ids for one requirement; 2 services, 3 starts, 2 restarts; 2 callers, 3 questions, 2 server processes | only verified trees in the base, refinement of `VerifiedDelivery`, integration sees all, bindings, services, answers |
| `delivery_stale` | 2 requirements, 1 recovery | a documented claim fails: what is merged is not what was verified last |
| `cognition` | 1 task, 2 epochs, 3 leases of 1 turn; 4 entries; 4 graph nodes; 3 holders of 2 missions; 2 calls on 2 routes with a quota of 1; 2 requests by 2 roles and 2 recoveries on 1 conversation; 2 mission nodes, 4 seats of 3 models; 2 cells, 2 entities, 2 observations, 3 assertions | fencing of agents, arbitration, deadlocks, holders, refinement of `FencedRegistry`, failover, bindings, councils, the world in force |

Type invariants are not checked by the runs: that of every module is a theorem
(section 4).

Bounds.  Every hazard listed in `PROJECT.json` needs at most two actors of a
kind and one actor that was overtaken: two leases of a job (three for "the old
holder of the holder before"), one survivor and one dead process, two
dispatchers with the same batch, two wakeups of a mission.  Each bound appears
in a guard and is named in the module's CONSTANTS; what is cut off by one is
only more of the same steps.  Deadlock checking is off where the bounds stop
the system (all versions, grants or ticks used).

Fairness.  `queue` assumes that time passes and that somebody keeps
calling `reap_stale_leases`; `missions` that somebody keeps calling
`process_due_wakeups`.  Neither has a caller inside the repository: they are
the obligations of the embedding process, stated as such.  `leases` assumes
that a process which is not dead takes its next step (the retry loop of
`_locked` sleeps and retries, and its timeout is a step).  `outbox` assumes
that each dispatcher goes on and that a backoff ends; handlers may fail for
ever, and rollbacks are bounded by `MaxAborts`.  `executive` assumes that
somebody keeps calling `execute_step` (only tests do in the repository: another
obligation of the embedding process), that a provider answers or its client
raises, and that the coroutine that holds the event loop goes on.  `kernel`,
`delivery` and `cognition` check safety only and assume none.

What the properties of the newer runs rule out, in a sentence each:

- `AcceptancesMoveForward`: once the queue has taken work of a generation it accepts
  no completion of an older one, even after a refused claim of an older one has
  overwritten the evidence, which the code permits (`queue_stale`).
- `RunsAsReviewed`: what runs on an approval is of the tool, on the target and under
  the contract version that the approval's digest was computed from; of the payload
  nothing is said.  `EffectsAudited`: whatever a call changed, in part or before it
  raised, has a recorded call under a contract that allowed it; whatever rollbacks
  changed has a recorded rollback, but for a tool whose rollback has raised after a
  change.  `JournalInOrder`: events reach the journal in order and at most once.
- `UndoneContentIsBack`: a file is what its last change in force made of it, or what
  others last saved: a refused change leaves that alone, an undone one brings it
  back.  Files saved in the midst of a change, or rolled back out of order, are
  excepted until they are saved again.  `ConstraintsKept`: no chain of unauthorised
  amendments loses a constraint.
- `DeadEpochsHoldNothing`: while a kernel is ready, nothing is held in the name
  of an epoch whose kernels were dead when it began to boot.  `ImplementsEpochFence`
  says it of every later step too: the epochs that completed boots found dead are
  fenced for good, a row is held by its `kernel_epoch`, and no step hands a row to a
  fenced epoch or leaves one with it.  Rows whose writer left `kernel_epoch` at its
  default of 1 are excepted.  `ReadyLedgerIsChained`: a
  ready kernel's ledger is an unbroken chain.  `RecoveryResumesSleepers`: a
  recovery makes a mission ACTIVE only out of its sleep, firing its wakeup, and one
  that it listed only with its contract stored.
- `NothingMissed`: a client that was not told to fetch a snapshot has every event
  after the one it confirmed, or on its way.
- `NewestAgentActs`: once an agent was allowed to work on a task, none that was given
  it earlier is.  `ConflictedCanBeArbitrated`: a disputed claim always has a
  conflict that is still to be arbitrated.  `DeadlocksAreFound`: the search finds a
  cycle exactly when there is one.  `OneHolderAtATime`: one holder passes the check of
  a resource.  `ImplementsFencedRegistry`: a resource's generation changes exactly when
  it is handed over, by one; renewals, lapses and releases leave it.
- `EachRouteOnce`: no route is asked twice for a request, and what is given of a
  stream comes from one.  `OneLogicalBinding`: a role's work on a route stays one
  binding.  `CouncilOfIndependents`: resolver and synthesizer are different models on
  different routes from the members, the critic from the first route, and a
  consequential node has no result of one model alone.  `NewestInForce`: of the
  assertions that replaced one another only the last is in force, and none that a
  resolution rejected, until a resolution brings one back.
- `BaseVerified`: every tree committed in the base passed the merged-tree
  verification.  `ImplementsVerifiedDelivery`: besides, the base changes by one
  requirement at a time, and never by one that is in it, so a merge whose binding
  was lost in a crash is not made again.  `IntegrationSeesAll`: the integration node starts only when each
  requirement is merged.  `BoundWorktreesExist`: after a restart a binding names a
  worktree that is there.  `StoppedIsGone`, `AnswersOwnQuestion`: as named.

Disagreements found between code and documents are listed under `findings`,
each with the run that exhibits it.  Others met while modelling have no run of
their own; the models contain the behaviour:

- `autonomy/revalidation.py:7` "Blocks consequential execution until revalidation
  succeeds", but BLOCKED -> ACTIVE is an ordinary transition that asks nothing
  about the contract's version (`mission.py:48`).
- `executive/scheduler.py:88` "Verify evidence & advance state", but a node
  succeeds whatever its tools returned (192).
- `executive/handoff.py:5` "NO LOSS OF CANONICAL TASK STATE", but after a
  recommended hand-off (`scheduler.py:156`) the node stays in COGNITIVE_WORK,
  where no step looks for work.
- `INTELLIGENCE_FABRIC_SPEC.md:105` "Escalation never bypasses provider quotas",
  but the candidates of a stage are chosen once (`escalation.py:233`) and asked
  later without another look at their quota (265).
- `ENGINEERING_AGENCY_V51.md:96` "can reconcile persisted service records after
  restart", but a restarted tool owns no process, so a service that runs is
  reported FAILED and a start launches a second one (`services.py:82`).
- REQ-ENG-017 keeps one branch until the requirement's verification, but a
  recovery node inherits the ending of the failed node's id and integrates
  (`replanning.py:88`, `agency.py:260`).
- `tools/gateway.py:250` records a rollback when it returns: one that changes files
  and then raises (`tools/sandbox/workspace.py:374`) leaves no event.
- `executive.py:26` and `workers.py:64` of `persistence/repositories` default
  `kernel_epoch` to 1: a row so written is fenced, or not, as epoch 1 is.
- `autonomy/recovery.py`: a mission that was ACTIVE when it was listed and sleeps at the
  commit has its wakeup fired and is not resumed; one that was PAUSED when listed and
  sleeps at the commit is resumed without a look at its contract (79-85).
- A persisted event whose transaction was rolled back leaves the ledger ahead of the
  table; a kernel that persists the next one makes the next boot refuse the chain.
- World model: two projections that find nothing in force each store an ACTIVE row
  (`world/processor.py:86-118`); a row read earlier is marked CONTRADICTED whatever
  its status has become; the winner of a resolution may be of another entity
  (`world/contradictions.py:132-138`).
- Sessions: a recovery writes back the reference it computed from one read before its
  await, which may be older than the binding's (`intelligence/supervisor.py:256`).
- Councils: the critic differs from the first route, and the architect may have fallen
  back to another, so the two may share a model.
- A verifier that raises leaves its node in VERIFYING and ends `run_dag`
  (`mission_runtime.py:269`).
- Nothing in the repository calls `validate_lease_authority` (`autonomy/leases.py`): that
  agents ask before they work is an obligation of whoever runs them.
- Blackboard: a claim is put in conflict with the first entry it denies; a second
  identical entry stays unmatched, and both it and the claim may become VERIFIED.
- Engineering: when `rev_parse` fails after a commit (`git_engine.py:172`) the
  requirement can no longer be delivered; when the conflicts of a merge cannot be
  listed (`merge_coordinator.py:84`), or an abort fails, the merge stays staged; a
  command without a working directory edits the base checkout (`worktrees.py:194-202`),
  and what it writes while a merge is verified is verified with it but not committed.
- `api/router.py:445` passes `cause_event_ids`, which `append_event` does not
  take: the input is recorded and the call then raises.

## 4. Proofs

All theorems hold for every value of the constants that meets the module's
assumptions: a bound is a natural number, a function has the domain it is used
on, the sets of kernels, of calls to models and of routes are finite, a claim that
contradicts another is contradicted by it, and `None` is not itself one of the values it
stands in for the absence of.  Nothing is assumed of numbers of
workers, actions, missions, clients, requirements or consoles, nor of the lengths of
their histories.

- `WorkerQueueProofs`: types; status matches lease; generations are fencing
  tokens; checkpoints form one history; no completion of an older
  generation is accepted after work of a newer one was taken; the queue implements
  `FencedLog`.  The inductive invariant adds to these that a
  lease's worker and the job's generation occur in a grant, that claims carry
  grants, that jobs not yet enqueued are untouched, and that no checkpoint or
  evidence is of a generation newer than the counter.
- `LeaseRegistryProofs`: types, unconditionally; the rest while no lock file
  grows stale (`NoStaleLocks`), crashes included.  That assumption is needed:
  the run `leases_stale` is a counterexample without it.  The inductive
  invariant says that whoever is inside owns the lock file, that a draft is
  the file with this process's change, and that leases, grants, held leases and
  fence marks are ordered by the generations in the file.
- `MissionControlProofs`: types; commands are idempotent; versions serialise
  commands; wakeups settle once; late wakeups do nothing; ended missions are
  not activated.  The invariant: a recorded command is older than its mission's
  present version, and its key is among the processed ones.
- `OutboxProofs`: types; delivery is at least once; retries are used up before
  a row is dead-lettered.  The invariant relates marks to what handlers
  returned, and attempts, wherever they were read, to committed failures.

- `ExecutiveProofs`: types; nodes are taken in turn; no split brain, for every
  plan, tool set and number of steps.  The invariant adds that who works holds a
  granted lease and a node in COGNITIVE_WORK, that a node which left PLANNED has
  its dependencies behind it, that an executed snapshot's outgoing lease is
  REVOKED, and that nobody dispatches under a REVOKED lease.  The last is why
  the check in `record_usage` has to come after the await and before the tools.

- `EngineeringProofs`: of the delivery, the services and the language client, each
  by itself and side by side as the run `delivery` has them: types,
  `BaseVerified`, `IntegrationSeesAll`, `BoundWorktreesExist`, `StoppedIsGone`,
  `AnswersOwnQuestion`.  The nodes that work for a requirement form a chain in
  which a node is begun only when the one it recovers has failed, so one worktree
  and one branch belong to whoever is working; a merge holds the base from its
  check to its commit, so what was verified is what is committed; and a
  checkpoint says the same of the requirements it holds as the run it was taken
  of, which is what a restart needs.  That the agency implements `VerifiedDelivery`
  rests on one more invariant (`OnceInv`): no requirement is owed that is merged.
  After a crash the checkpoint decides that, which may be older than a merge: then
  its tree is not the one on disk and it is refused as drifted, unless it was taken
  while the tree was staged, and with a stale merge left there nothing is merged any
  more.  Ids of services are not used twice, and a
  record follows its process.  Of the client: whatever is asked, written, half
  read or awaited under an id is for the one caller that drew the id.
- `KernelProofs`: the six components of the run `kernel`, each by itself
  (`AuthorityHolds`, `WorkspaceHolds`, `ContractsHold`, `RecoveryHolds`,
  `StreamHolds`, `StartupHolds`) and side by side, one theorem for each property
  of the run.  The inductive invariants:
  - authority: an approval's token names the tool, target and contract that were
    reviewed; the outbox is increasing and above all the journal has; a tool's calls have
    no more effects than the ledger has calls of it under a contract that allowed them,
    and its rollbacks no more than it has rollbacks of it, unless one has raised;
  - workspace: each checkpoint was taken of what the one before it in force had
    left, or of what others last saved, and its copy is that; between check and replacement the operation says
    which of the two the file is;
  - contracts: a version the operator did not authorize keeps its parent's
    constraints; the versions that agree with one are closed under descent, and
    `Unamended` is the least such set;
  - durable missions: a row never has a version twice and versions grow, so the
    guarded update of a recovery that read the row earlier succeeds only if the row
    is what was read;
  - stream: the buffer is the latest numbers without a gap, so what a handler
    replays joins what was broadcast since;
  - startup: an epoch that is taken is never above the next one, a kernel that is up has an
    epoch which no other one counts among the dead, and what was fenced stays so, whoever
    boots, writes or dies later; with it every step is one of `EpochFence`
    (`StartupImplementsEpochFence`); an event
    is younger than the one it follows, so a chain has no repetition, and
    `Replayed` (a recursive function over the events of the journal's tail) keeps
    the type of the log, shown by the least number for which it would not.
- `CognitionProofs`: the seven components of the run `cognition`, each by itself
  (`AgentsHold`, `BoardHolds`, `HoldersHold`, `FabricHolds`, `SessionsHold`,
  `CyclesHold`, `WorldHolds`) and side by side, one theorem for each property of the
  run but `DeadlocksAreFound`.  The inductive invariants, which TLC checked first:
  - agents: two leases of one task given in one epoch differ in their generation, and
    no lease is of an epoch that is still to come; so only one lease of a task passes
    the check, and it comes after each that passed it earlier;
  - blackboard: what an open conflict is about are entries of the board, and the
    property itself;
  - resources: nobody's generation is above the one the lease has, and whoever has that
    one is its holder; a resource nobody ever leased has no generations out; each step
    is one of `FencedRegistry` (`ResourcesImplementRegistry`);
  - fabric: the routes a call still plans to ask are distinct and none of them was asked;
    output escapes only from the route that is awaited; a route is charged no more
    attempts in a window than calls have asked it, which bounds its quota;
  - sessions: a binding keeps its role and route, and one is made only where there is none, in
    the same step that looked;
  - mission: a node is executed exactly while there is a stage; a role is seated after
    those it is to differ from; a consequential node never awaits one model alone;
  - world: a row changes only together with its version, so a row that a projection or a
    recovery read in force and finds at that version is in force; an assertion is added
    to a lineage only by the transaction that takes its newest out of force.

Theorems whose property no run checks (types, `StatusMatchesLease`,
`MutualExclusion`, `FenceNeverRegresses`, `WakeupsSettleOnce` and the like) hold
for every instance, small ones included; the runs are spent on the rest.

Only model-checked: the liveness properties (`AbandonedJobsReturn`,
`CallsReturn`, `SleepersAreWoken`, `Settles`, `ReadyNodesAreTaken`), which TLAPS
cannot prove; everything about the registry with stale lock files; and
`DeadlocksAreFound`, which speaks of what a recursive search finds, to be proved only
by an induction over graphs.  The search is written with recursive functions, so that
the theorems about its module's other properties can stand beside it.

## 5. Plan

Done: the queue, leases, missions, outbox and executive; the kernel, durable rows,
startup, workspace, contracts and console; the engineering agency; agents,
blackboard, fabric, sessions, councils and world model: all of them with their proofs.
Next:

1. Liveness of the delivery (a requirement is merged or reported failed) under
   fairness of `run_dag`.
2. The acquisition of the world processor's lease; remediation rounds; open
   documents of the language server.

## 6. Not modelled

- Pure computation on text and pixels: code analysis, prompts, scoring of models,
  intent parsing, ambiguity classes, redaction.
- The operating system and its tools: container command lines, process limits,
  path confinement, git's own failures beyond success or refusal.
- Cryptography: a signature is valid when it was issued, a digest is what it
  digests.
- `autonomy/{anti_loop,progress,watchdog,escalation,checkpoints}.py`: counters and
  digests over one mission; the scheduler is given them and calls none.
- Artifact stores: one digest decides everything; their garbage collection may
  delete an orphan that was stored again and referenced after the audit
  (`persistence/artifacts/reconcile.py`).
- World model: aliases and relations, the processor's lease and the window after
  its check, snapshots, numeric fusion.
- Engineering: remediation rounds, the completion audit, several repositories,
  the versions of documents opened in the language server, tasks that
  `asyncio.gather` leaves running after one of them raised.
- Workspace: death in the middle of an operation, files deleted by others, the
  archive of pruned checkpoints.  Backups: the copying of files and checksums.
- Wording and logging; reads and authentication of the
  HTTP API; what the console shows.

`PROJECT.json` lists each component with the reason.
