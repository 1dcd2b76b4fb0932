# A verification of AIZO in TLA+

AIZO is a control plane in six layers: adapters to devices (layer 1), a catalog
of entities (2), telemetry (3), desired and actual state (4), containers (5) and
rules that propose actions and learn from their outcomes (6), with storage,
policies, security and tenants beside them. This directory models the parts of
it whose correctness depends on the order in which things happen, checks the
models with TLC on small instances and proves the most important results for
every instance with TLAPS.

Files:

| file | what it is |
| --- | --- |
| `ProposalLifecycle.tla` | what layer 6 promises about the status of a proposal |
| `Proposals.tla` | the proposal pipeline of layer 6 |
| `ProposalsProofs.tla` | theorems about `Proposals` |
| `EventLog.tla` | the append-only event log |
| `StateStore.tla` | entity states, drift detection, reconciliation, snapshots (layer 4) |
| `StateStoreProofs.tla` | theorems about `StateStore` |
| `Catalog.tla` | the entity catalog and the callers that share its objects (layer 2) |
| `CatalogProofs.tla` | theorems about `Catalog` |
| `RealContainer.tla` | container processes and their monitors (layer 5) |
| `RealContainerProofs.tla` | theorems about `RealContainer` |
| `Mesh.tla` | connections of the mesh adapter, the wire protocol, the node that answers (layer 1) |
| `MeshProofs.tla` | theorems about `Mesh` |
| `Coordinators.tla` | discovery of mesh nodes and the choice of a coordinator (layer 1) |
| `Adapters.tla` | the adapters, their registry and the bridge (layer 1, integration) |
| `AdaptersProofs.tla` | theorems about `Adapters` |
| `Telemetry.tla` | collectors, storages, subscribers, queries, timelines (layer 3) |
| `Wsl2.tla` | WSL2 containers under the command line and the terminal interface (layer 5) |
| `Workloads.tla` | the simulated runtime, networks, prune (layer 5) |
| `Images.tla` | images of the container runtime (layer 5) |
| `Breaker.tla`, `Idempotency.tla` | circuit breaker and idempotency store (layer 1) |
| `Policies.tla` | policy engine and rate limiter |
| `Relations.tla` | relationships between entities, searches along them, deregistration (layer 2) |
| `Rules.tla` | matching, counting and tuning of rules (layer 6) |
| `Services.tla` | eight smaller components side by side: `Wsl2`, `Workloads`, `Images`, `Breaker`, `Idempotency`, `Policies`, `Relations`, `Rules` |
| `Observers.tla` | `Telemetry` and `Coordinators` side by side |
| `ServicesProofs.tla` | theorems about the components of `Services` |
| `ObserversProofs.tla` | theorems about `EventLog` and the components of `Observers` |
| `MC*.tla`, `*.cfg` | the instances TLC checks |
| `PROJECT.json` | components, runs, mutants, the map from definitions to source lines, findings, hazards, theorems |

## Inventory

What the system consists of, the state each part keeps, what can happen to it,
and what makes it correct. Parts marked * are modelled, at least in part.

**Layer 6, proposals*** (`layer6/manager.go`, `rule_engine.go`, `learning.go`,
`sqlite_store.go`). State: the proposals in memory, the rules with their counts,
the tables `proposals`, `incidents`, `learning_data`. Events and summaries are
evaluated against the rules and yield proposals; a proposal that needs no
approval is executed by a goroutine at once, the others wait for
`ApproveProposal` or `RejectProposal`. Outcomes update counts and tables; an
hourly job promotes rules to auto-approval. Hard: the status of a proposal is
written by several goroutines with and without the lock; a table row is written
from a status read earlier; statements fail silently; a crash forgets the
proposals but not their rows. Correct if: nothing gated runs without approval or
twice; what is approved runs; rows do not mislead; every outcome counts once.

**Event log*** (`storage/eventlog.go`). State: the table and, in each process,
the checksum of the last row. Hard: `Append` has no lock; inserts fail; a
process dies between the insert and the assignment. Correct if: each row
continues the row before it, and `VerifyIntegrity` accepts what was written
properly.

**Layer 4, entity state*** (`layer4/state_store.go`, `manager.go`,
`reconciliation_engine.go`, `state_history.go`, `change_detector.go`). State: a
map of pointers to states, its copy in a table, snapshots that hold the same
pointers. Set, two updates, delete, two loops that detect drift, one that
reconciles, snapshots, loading at start. Hard: the loops use objects they listed
earlier; drift is written without the lock. Correct if: the table mirrors the
map; versions identify contents; a snapshot does not change.

**Layer 5, container processes*** (`layer5/real_container_runtime.go`). State:
container records, OS processes, a monitor goroutine for each process. Hard: two
goroutines wait for one process; the monitor reports by container ID and late;
stopping holds the lock through a timeout. Correct if: a live process belongs to
a container shown running, a running container is watched, a stop stops.
Images are in one map under two keys each.

**Layer 5, simulated runtime, networks***, volumes, images
(`container_runtime.go`, `network_manager.go`, `volume_manager.go`,
`image_manager.go`, `manager.go`). Maps under one lock each. Hard: addresses are
computed from the number of endpoints; two managers refer to each other's IDs
without a common lock. Correct if: addresses on a network are distinct, a listed
status says what runs, and a prune spares what runs.

**Layer 5, WSL2 runtime*** (`layer5/wsl2_runtime.go`, used by
`cmd/aizo/cmd/container.go` and `tui/views.go`). State: a `state.json` for each
container, the processes, and in every user of the runtime a listing of copies.
Hard: there is no lock, and whole records are written back from copies. Correct
if: what runs is on its record, so that somebody can find and stop it.

**Layer 2, catalog*** (`layer2/catalog.go`, `registration.go`,
`relationship_mapper.go`, `discovery.go`, `manager.go`). State: entities, three
indexes, a relationship graph computed on demand. Hard: callers change a
registered entity before they register it again, so its old index entries can no
longer be found; deregistration tests and removes in two steps; concurrent
discovery. Correct if: every entity is found by its keys and only by them; cycles
and impacts are found; nobody is left depending on what was removed.

**Integration bridge*** (`integration/bridge.go`). Creates adapters for entities
and copies health from layer 1 to layer 2, with no common lock.

**Layer 1, registry and adapters*** (`layer1/registry.go`, `manager.go`,
`factory.go`, `adapter.go`). State: adapters and metadata. Hard: an adapter
is registered before it is connected, and taken back by its ID when that fails;
removal, health checks and Shutdown come in between. Correct if: what is open
can be closed by somebody; what is registered is open or in hand.

**Layer 1, mesh*** (`layer1/mesh_*.go`). State: connections to peers, the last
state heard of each, an elected coordinator. Hard: requests of several goroutines
share one connection without correlation; reconnections multiply the maintenance
goroutines; an election from local knowledge. Correct if: an answer is used for
the request it answers; nodes that know the same peers elect the same coordinator.

**Layer 1, circuit breaker and idempotency*** (`circuit_breaker.go`,
`idempotency.go`) and **policy*** (`policy/engine.go`, `rate_limiter.go`). Small
state under a lock, with time. Correct if: an open circuit rejects until its
timeout; a request ID is executed once within its time to live; no more than the
limit passes in a window.

**Layer 3, telemetry*** (`event_stream.go`, `metrics_collector.go`,
`log_aggregator.go`, `trace_collector.go`). A bounded buffer, a goroutine that
stores and notifies, subscribers with bounded channels. Correct if: what was
accepted is stored once and in order; a subscriber sees a subsequence and holds
nobody up; a timeline misses nothing and is sorted.

**Storage, security, tenants, command line, terminal interface**. Statements,
pure checks and presentation.

How they interact: the command line makes the managers over one database;
layer 6 calls an executor that may call any layer; the bridge joins layers 1 and
2; the loops of layers 3, 4 and 6 are goroutines of their managers. The parts
share the database (serialised by `storage.DB`) and pointers to each other's
objects, and no transaction spans two statements.

## What the modules say

**Proposals.** A thread is `<<kind, proposal>>` (`propose`, `approve`, `reject`,
`auto`, `run`), and `pc` says where it is. The steps are cut at `m.mu`, at each
statement and at the unlocked writes of `Status`: `Evaluate`/`EvaluateSummary`
build proposals from the rules' counts as they are then; `Queue` or
`LockBatch`/`QueueFromBatch` put them in memory; `ReadRow` and `WriteRow` are
the two halves of `StoreProposal` (the arguments are read before the statement
runs); `Approve`, `Reject`, `Begin`, `Finish`, `Record`, `Learn` follow
`ApproveProposal`, `RejectProposal`, `executeProposal` and `RecordOutcome`;
`TuneThresholds` promotes; `Restart` is a crash at any moment followed by
`NewManager`. With `StoreFails` every statement may fail, as its callers ignore
the error. `Record` joins three steps nobody can observe apart; the comment
there says why. Any rule may match any event. The strings that a rule's
reasoning can be are the constants `Text` and `Reasoning`, and `RulePrefixed` is
what `LIKE 'rule:%'` accepts. A manager with a database is assumed. A read of
`Status` while another goroutine writes it is taken to return one of the values
written (a string header could also be torn; nothing depends on its text).

**EventLog.** `Begin`, `ReadArgs`, `Insert`/`InsertFails`, `Assign` are the steps
of `Append`; `Reopen` is the death of a process and `NewEventLog`, which may fail
to read the table and not notice. Checksums are the sequences hashed into them:
SHA-256 is taken to be injective. `serial` says that the callers never overlap.

**StateStore.** The heap holds the `EntityState` objects, because what matters is
who still points to which. Operations of the store are atomic (they run under its
lock) and may lose their statement when `flaky`. A goroutine of the detector or
of the reconciler lists objects (`StartLoop`), reads the next one without the
lock (`ReadDesired`), and works on it (`NoteDrift`, `StoreDrift`, `Reconcile`)
whatever the store holds by then. `Json` is what a value reads back as from the
table: a number comes back as a float, which the detector tells from an integer.
`Restart` loads the table into new objects.

**RealContainer.** `Start` makes a process and its monitor; `Exit` is the
operating system; `MonitorWaits` and `WaiterWaits` race for the exit status;
`MonitorRecords` is the monitor once it has `r.mu`. `mu` names the container
being stopped while `StopContainer` holds the lock, and is `"stuck"` for ever
after a `CreateContainer` with an image, which locks itself out.

**Catalog.** A heap of `Entity` objects again, the map, and `index`, which stands
for the three indexes: how often an ID is listed under a type, a state or an
adapter (the order in a slice matters to nobody). `Register`, `Unregister` and
`CleanupStale` are atomic, as they run under the lock; `Unlisted` removes by what
the registered object says *now*, as `removeFromIndexes` does. `RegisterNew`
and `Discover` register new objects; `Get` hands out the registered one, `Change`
(by `UpdateState`, `UpdateAdapters`, `AttachAdapter`) writes to it without the
lock, `RegisterAgain` registers it; `ForceDeregister` registers the objects it
listed and then removes its target. `SyncAdapterHealth` is `UpdateState` for
entity after entity. Which entities depend on which is left open, so
`Deregister` may refuse or not. A write to an object *during* its own `Register`
is a data race without a defined outcome (the slices of two keys can come to
share memory); the model leaves those behaviours out, so what it shows holds as
long as no such race happens.

**Mesh.** A connection is a member of `Conn`, with what is under way in each
direction (`out`, `back`), the goroutine that was started with it
(`maintainer[c]`) and whether the other end is gone. `Connect` dials the
configured peers; `LoadPeer`, `PingHeader`, `PingPayload`, `PingFails`, `Redial`
are the loop of `maintainPeer`. A call (`ReadState`, `SendCommand`,
`HealthCheck`, `SendFile`) writes a header and a payload, reads a header and a
body, and matches them by the message type alone. `Handle` is the node, which
answers in order and to torn messages not at all. `shared` collects the
connections that a ping, a second call or a call given up has touched: there
`Paired` promises nothing, and the code keeps nothing. A call that waits for an
answer is given up by the deadline of its context, at any time.

**Coordinators.** Beacons are UDP, so one may arrive anywhere, at any time, any
number of times, or never; `Receive` notes a node, `AddPeer` is its report to the
coordinator (the repository wires `OnDiscover` nowhere; that it calls `AddPeer` is
an assumption, as is that `RemovePeer` and `UpdatePeers` are called by hand).

**Adapters.** `Create` registers, `ConnectHTTP` ... `ConnectMesh` connect by kind
with the retries of `RetryWithBackoff`, `ConnectTimesOut` and `UnregisterFailed`
are the failure path of `CreateAndConnect`; `Remove`, `Clear`, `Shutdown` with its
two steps, the health monitor and the bridge's `SyncAdapterHealth` meet them in
any order. An adapter's state is whether its connection is open, its health and
whether a mesh node was stopped; what it exchanges is left out. A `Shutdown` that
stops a mesh node twice panics, and the model stops there (`crashed`). `stray` is a
connection that the code dials and nobody holds: that of an MQTT attempt that ran
out of time (`ConnectTimesOut`), or of a mesh adapter whose `maintainPeer` takes what
`Disconnect` closed for lost and dials again; `ConnectsLate` is the moment it opens.
Nobody in the repository connects an adapter a second time, so neither `Adapters`
nor `Mesh` does.

**Telemetry.** An item of one of the four streams is stamped, sent, taken, stored
and, if an event, offered, in separate steps; a span is stamped when it starts.
With `db` the storages are SQLite's, whose statements may fail unnoticed. The
queries (`Query`, `Timeline`, `Aggregate`) are operators over what is stored, and
properties quantify over their arguments. `Latest` is `ORDER BY timestamp DESC` with
its `LIMIT` (the constant `Limit`, 1000 in the code). `Seconds` is
`strftime('%s', ...)` of a time as the driver stores it, the text of
`time.Time.String()`, which SQLite cannot read: NULL, so that the statement of
`Aggregate` yields no row that can be scanned. A trace without an end time is
skipped in the same way. An interval below a second, which the code takes for a
minute, is not asked for; the monotonic part and the zone of that text are left out
of the comparisons.

**Wsl2.** `disk` holds the records, `copy[u]` what user `u` read of them; a
command lists, does one thing and ends, the terminal interface lists again after
each thing it did. `StartUnread` is a strategy of `StartContainer` whose pid cannot
be read. `odd` marks containers used by two at once, started twice or started so:
there a record can miss a process, in the model as in the code.

**Workloads, Images, Breaker, Idempotency, Policies, Relations, Rules.** One
action per operation, each of which has a lock; `Run`, `Restart`, `Prune`,
`Deregister`, `Execute` of the breaker and `IsSeen`/`MarkSeen` are several steps.
Time is a counter, or an age that stops at the timeout.

In `Workloads` an endpoint has an address that a caller gave (`ConnectAt`, with an
address of `Given`) or the one the network computes (`Connect`, `NextAddress`);
`given` remembers the first, `freed` the networks that lost an endpoint. In `Images`
`standing` is what was made under a name since one of that name was last removed:
`RemoveImage` deletes `name:tag` whichever image that leads to.

In `Rules` a rule has any list of conditions, each with a type of event, a word and a
metric with one of the six operators, or without any of them; an event or a summary
has some metrics and not others. Thresholds and values are steps on one scale, as
only their order matters, and thresholds are not negative (the code would move those
the other way); the ends of the scale stand for what is beyond. `TuneThresholds`
holds no lock, so it is the steps of a call (`ReadTotal`, `ReadRate`,
`TuneCondition`, `ReadStreak`, `Promote`), between which outcomes are counted and
rules added and removed; the counts that it compares with 5, 10, 20 and 10 are
constants. Reading and writing one threshold is one step: two calls that move one
condition at the same moment would lose one of the moves.

`Relations` has the relationships that a search follows; `HierarchyDetector` adds
`part_of`, which none does, and is left out.

## Runs

| run | what it asks | instance |
| --- | --- | --- |
| `proposals_safe` | gate, executions, bookkeeping, refinement of `ProposalLifecycle` | two rules, two proposals, no crash |
| `proposals_live` | approved actions are carried out, executions end, rows of gated proposals are truthful | two rules, one proposal, two crashes, failing statements, fair goroutines |
| `eventlog_chain` | the chain holds for one writer at a time; rows are rooted for any number | two goroutines, two logs, up to four rows, two reopenings |
| `eventlog_fork` (violated) | rows are chained whoever appends | two goroutines, one `EventLog` |
| `state_store` | table mirrors map, versions identify contents | one entity, two objects, a detector, a reconciler, a snapshot, one restart, versions up to 3 |
| `catalog` | found by every key, types exact | one ID, three objects, two types, two states, one adapter, two goroutines, at most two listings under a key |
| `container_track` | watched, tracked, stopped, noticed | two containers, two processes |
| `container_one` (violated) | one live process per container | one container, three processes |
| `mesh` | maintained, paired, lost only by reconnection | one peer, two connections, two requests of four kinds, one retry, two chunks of a file |
| `adapters` | what is open without an owner came about in one of three ways, nothing registered and forgotten, creations take back their own | five kinds, two IDs, two adapter objects, two goroutines, two attempts |
| `observers` | telemetry loses nothing and holds nobody up, queries are complete; one coordinator | two items on four streams, buffers of one, statements cut at one row, a subscriber, two times; three nodes, one change of a list |
| `services` | long sequences of calls on eight smaller components | two boxes and processes, two users; two containers, a user network beside bridge, one address to give; three images, two names; two callers of the breaker; two requests; three policies, two priorities; three entities; two rule IDs, conditions with `>`, `<=` and `!=`, one call of `TuneThresholds` at a time, three outcomes |

Why the bounds are enough to be interesting: two proposals let every pair of
threads of one proposal and of two proposals of one rule meet; the thresholds 5
and 10 of the code are scaled to 0 and 1 so that two outcomes demote and promote;
one crash meets every intermediate state and a second one meets a restarted
process. Two rows beyond the first show a fork and its continuation. One entity
with two objects is enough for an object that the store has replaced; a version
of 3 leaves room for a replacement on both sides of a goroutine's turn. One ID is enough for the catalog, whose listings of
two IDs never meet, and two goroutines with three objects let an object be
registered over a newer one. Two
processes let a container be started again under its first monitor. The mesh has two connections because a
reconnection is what multiplies its goroutines; its requests are symmetric, and so
are connections. `observers` and `services` put components that do not call one
another into one run: a behaviour is one of one component, chosen at the start.
Containers and boxes of `services` are symmetric.
The modules `Observers` and `Services` hold those components as instances, with
variables and constants of their own, name what each promises and state what each
assumes of its constants; the MC modules add the choice, and `ServicesProofs` and
`ObserversProofs` prove theorems about each component's own `Spec`.
The thresholds, timeouts and limits of the code (100 events, 10 and 20 outcomes, 5
failures, a minute) are scaled to 1, 2 or 3, so that they are reached, passed and
reached again. Deadlock is
not checked where callers may simply stop or a bound stops them.

Each property of a passing run has a mutant, a plausible slip in the code, that
breaks it (`PROJECT.json`); the mutants stand beside what they mutate in the
modules.

### Fairness

`Proposals!FairSpec`: goroutines that were started are scheduled, statements and
the executor return (an executor that never returned would keep the proposal
executing, as in the code). Nobody has to propose, decide or crash.
`RealContainer!FairSpec`: the timer of a stop fires, a killed process ends,
goroutines that wait are scheduled. A monitor needs the lock again and again
free: strong fairness, which `sync.Mutex` gives, as it hands itself over after a
waiter has starved for a millisecond.

`Telemetry!Fairness`: the goroutine of each collector is scheduled, and its
`select` is not for ever biased; nobody has to collect, subscribe or read.
`Coordinators!Fairness`: a beacon that is sent over and over gets through at last
and its report ends; any finite number may be lost.

### Findings

1. *Concurrent appends break the chain* (`eventlog_fork`): of two goroutines that use
   one `EventLog`, the second can read `lastChecksum` after the first has inserted its
   row and before it has assigned, and `VerifyIntegrity` then reports tampering. Two
   processes on one database do the same to each other, each with its own
   `lastChecksum`; a lock in `Append` would prevent only the first.
2. *Two processes in one container* (`container_one`): a late monitor marks the
   new run exited; so does a removal whose directory could not be deleted.
   In the same file `CreateContainer` with an image never returns.

### Other divergences met while modelling

These follow from the code as modelled, or were read beside it; no run shows them.

- An auto-approved proposal is pending until its goroutine starts, so it can be
  rejected and then executes all the same (`layer6/manager.go:282`;
  ARCHITECTURE.md:160 has no such transition). Gated proposals are not affected:
  that is `GatedLifecycle`, checked and proved.
- `LoadRuleStats` looks for descriptions that `RecordOutcome` never writes: counts
  are zero after a restart (`layer6/sqlite_store.go:226`).
- `TuneThresholds` says "over last 10 fires" (`layer6/learning.go:67`) and goes by
  all-time counts, and each hourly run moves a threshold again on the same evidence.
- Snapshots hold the store's own objects and change with it
  (`layer4/state_store.go:200`; layer4/README.md:85 says "point-in-time").
- `ListByState` goes by a listing that `UpdateState` leaves stale
  (`layer2/catalog.go:41`); the index by adapter has the same fault. The index by
  type is exact (`TypesExact`, proved).
- `detectCycle` reports a cycle where only a target is missing
  (`layer2/relationship_mapper.go:352`), and the depth-limited graph search can miss
  nodes within its depth, as it marks a node visited at the greater depth.
- `maintainPeer` starts another goroutine at each reconnection
  (`layer1/mesh_adapter.go:131`), answers to its pings are never read, and a
  reconnection after `Disconnect` opens what nobody closes.
- A peer that `RemovePeer` dropped is never reported again; before the first
  election nobody coordinates, so a lone node never does. `executeCommand` of the
  mesh node computes a timeout and never uses it.
- Two `Shutdown`s of a mesh adapter panic (`layer1/manager.go:148`);
  `SyncAdapterHealth` returns before it updates the entity when the check fails
  (`integration/bridge.go:68`), so a dead adapter leaves its entity healthy; an
  MQTT `Connect` that times out leaves its client connecting.
- The circuit breaker has no half-open state in effect. `MaxPerHour` of a rate
  limit is never used, and `Evaluate` of the policy engine goes by the first match
  in order of priority where its comment says any denial counts.
- SQLite's `GetTrace` scans into a map and always fails; an aggregation in memory
  with no end time is empty; the row of a trace starts with its first stored span,
  and one without an end is skipped. The queries of `Correlate` are cut at 1000 rows
  each, so the oldest may be missing from a timeline.
- SQLite's `Aggregate` returns no points: the database is opened without
  `_time_format` (`storage/db.go:39`), so timestamps are stored as `time.Time.String()`
  has them, `strftime` of that is NULL, and every row fails to scan
  (`layer3/sqlite_metrics_store.go:135`).
- The bridge network's pool is 172.17 and its addresses are 172.18.0.x; an address
  that a caller gives is compared with no other (`layer5/network_manager.go:198`), and
  after a disconnection a computed one may be in use. Pause, stop, unpause leaves a
  container "running" that does not run.
- A rule that asks for nothing but a word is called by every summary, as
  `matchesSummary` does not look at `Contains` (`layer6/rule_engine.go:228`). An outcome
  counts for whatever rule has the ID by then (`layer6/rule_engine.go:132`), and
  `TuneThresholds`, without a lock, may promote a rule whose failure was counted since
  it read the streak.
- `StopContainer` of WSL2 waits for output that `kill -0` never has, so it always
  takes the whole timeout; `StartContainer` never looks at `Running`.
- `StartContainer` of WSL2 takes the last line of what the shell and the command
  print for the pid: where the command printed it, a process runs on no record.
- `RemoveImage` by name deletes the directory and leaves the ID; by the ID of an older
  image it takes the name from the newer one
  (`layer5/real_container_runtime.go:665`), which then only its ID leads to.

## Proofs

TLAPS checks, for every value of the constants:

- `ProposalsProofs`: `TypeCorrect`; `ApprovalGateHolds`, `RunsBoundedHolds`,
  `GatedRowTruthHolds`; `LifecycleHolds`, that `Proposals` implements
  `ProposalLifecycle` under the mapping that shows gated proposals only. They
  follow from one inductive invariant, `GateInv`: types, and for each proposal the
  phase its threads are in. It is needed because the gate alone is not inductive:
  one has to know that an `auto` thread of a gated proposal never starts, that at
  most one of `approve` and `reject` was ever at work, that `run` starts only from
  `approve`, and which status a pending `StoreProposal` still carries.

  `RowSettlesHolds`, `LearningBehindHolds` and `OutcomesCountedHolds` go further,
  by a ledger. `LedgerInv` adds that nobody works on a proposal that is not queued,
  that the row holds the status whenever neither `propose` nor `auto` is about to
  write it, and that a thread leaves its one incident just as it comes to `learn`.
  `LearnInv` then keeps the learning table, and whatever a thread has read of it,
  behind the number of incidents of the rule. For the counts each step is shown to
  add to a rule's counts what it adds to the set of outcomes recorded since the
  last restart, a cardinality. After a restart that holds only if `LoadRuleStats`
  restores nothing, so `OutcomesCountedHolds` assumes that there is no restart or
  `Unrestored`: no rule's reasoning passes for the description `LoadRuleStats` looks
  for. That is so of the default rules, whose reasonings are sentences; of a rule
  file that gave a rule the reasoning `rule:x` and another the ID `rule:x` it would
  not be, and the second would start with the outcomes of the first.
- `ObserversProofs`, of the event log: `TypeCorrect`; `ChainIntactHolds` from `ChainInv`, which says
  what the one active writer's locals must be at each step, relative to the last
  row; `RowsRootedHolds` from `RootInv`, which says that every checksum anyone
  remembers is in the table.
- `StateStoreProofs`: `TypeCorrect` and `DbMirrorsHolds`, by adding that the object
  the store holds for an entity is an object of that entity (`Home`).
  `VersionsTellHolds` is an action property: every step either leaves an entity's
  content alone or gives it a greater version (`Grows`, one lemma for each
  operation and for the loops, which write drift and nothing else to objects the
  store may have replaced). A restart does neither; there `DbMirrors` says that what
  is read back is what was written.
- `CatalogProofs`: `TypeCorrect`, `ListedHolds`, `TypesExactHolds`, by adding that
  the object registered for an ID has that ID, and that a caller that changed an
  object holds only that one. The first is what keeps a `Register` of one ID from
  touching the listing of another; the second keeps the exemption in `Listed`
  from covering more than the change in progress.
- `RealContainerProofs`: `TypeCorrect`, `RunningWatchedHolds`, `OnlyRunTrackedHolds`,
  `StopKillsHolds`. The invariant adds that a container's process was started for
  it, that whoever waited was told of a real end (`Waited`), that the container
  being stopped has a process (nobody takes the lock in between), and that starts
  are counted: with one start there is one process, and no other monitor can mark
  the container exited.
- `MeshProofs`: `TypeCorrect`, `MaintainedHolds`, `LostHolds`. `Maintained` is not
  inductive: one needs that the goroutine started with a connection belongs to the
  connection's peer (`Tied`), that the map holds connections of the right peer
  (`InMap`), and what a goroutine that pings or dials holds (`Loaded`). A goroutine
  then ends only when the map has nothing for its peer. `PairedHolds` needs what is
  under way on a connection that is not shared: one call uses it, and its message is
  in one of the places of `Turn`, from the header alone to the body half read, or
  gone with the connection; an unused connection is empty.
- `AdaptersProofs`: `TypeCorrect`, `OrphansHolds`, `RegisteredOpenHolds`,
  `TakesBackHolds`, by adding that an adapter is registered under its own ID, that
  one goroutine connects it (`OneEach`), that while it does the adapter is registered
  or was removed early (`StillThere`), and what may be dialled still (`Strays`):
  `OrphansExplained` names the three ways in which a connection comes to be open that
  nobody can close, and `OrphansHolds` shows that there is no fourth.
- `ServicesProofs`, about each component's own `Spec`, whatever the others do:
  - `BreakerFailsFast`: the count of failures is never behind the streak.
  - `IdempotencyOncePerTTL`: an ID that was marked within the TTL is in the store;
    a cleanup removes only what is older.
  - `ImagesNamesLead`: `NamesLead` is inductive once images are drawn in order. It
    says exactly when a name leads nowhere: when nothing was made under it since one
    of that name was last removed, be it an older one.
  - `WorkloadsStatusAgrees` and `WorkloadsPruneSpares` from `BoxesInv` (a container
    paused, and never stopped while paused, runs); containers stopped while they were
    paused are outside `WorkloadsStatusAgrees`. `WorkloadsAddressesDiffer` from
    `NetsInv` (every computed address of a network that was never left is below the
    next one, `Own`); given addresses, and networks that were left, are outside it.
  - `Wsl2RunningRecorded`: on a box used with care one user is at work, whoever is
    about to kill has the record as it is, and a live process is on the record or
    about to be (`Cared`).
  - `DecisionsHold`: lists of policies and of rules have each ID once, and policies
    fall in priority (`PolicyList`), so the first match is a best one, whatever order
    `sort.Slice` gives equals. The limiter's window is described by `Windows`: of what
    passed before the bucket, everything but the last limit's worth is more than a
    minute older than the bucket, hence no twice the limit within a minute
    (`Spread`). `Evaluate` of the rules is a recursive function over the list;
    `EvaluateBest` shows by a minimal counterexample that it leads to the first of
    the best matches. `RulesInv` ties a rule's counts to the history of its ID, and
    `CallsRight` what a call of `TuneThresholds` has read to those counts as they
    have become since: failures do not go away, so what called for a tightening still
    does. `OperatorMoves` is how each operator takes a threshold that moved.
  - `DependenciesHold`: the searches along relationships find what they should,
    whatever was added and removed. `collectImpactedEntities`, `detectCycle` and
    `buildGraph` are recursive functions of what they have still to look at. `Recursion`
    is the one lemma on recursion: a function that calls itself only on less, by a
    measure of pairs in lexicographic order, satisfies its own equation. The measures
    are what has not been visited and, of the entity at hand, what has not been
    followed. What a search returns is then shown by taking a call of least measure
    that would return something else. A search keeps a set of what it has met such
    that everything one step from it was met or is still to come, which at the end is
    closed, and `Reaches` is membership in every closed set. `detectCycle` reports
    only what is on its way (`recStack`), all of which leads to where it is; that an
    entity that is depended on without being there stays in `recStack` is why the
    second half of the claim has its exception. For `stranded`, the invariant
    adds that between the two steps of `Deregister` nobody depends on the entity
    unless that was added since (`RelInv`).
  - `ServicesTyped`: the types of all eight, among them that no two networks have one
    name.
- `ObserversProofs`, of the components of `Observers`:
  - `CoordinatorsTyped` and `CoordinatorsAgree`, by adding that every node goes by the
    peers it has now (`Elected`).
  - `TelemetryNothingLost`: what was accepted is cut in two (`Pipe`), the buffer
    being its end, and of the rest each item is either stored, in order, or refused.
    `TelemetrySubscribersServed` adds where the goroutine stands in that order
    (`Held`), and that an open channel has one key and a closed one none (`Hub`).
  - `TelemetryQueriesRight`: what the filter keeps of a storage pairs off with the
    places there that are asked for (`FoundPairs`) and a list of bounded times can be
    sorted (`Sorting`), both by a least counterexample in the length of the list; so
    what `Timeline` and `LatestFirst` choose is there, and neither sorting nor merging
    changes how often something is on a list (`RearrangedSame`, `OccursJoined`). Two
    times have one interval or their intervals do not meet, by arithmetic of division
    (`Intervals`). Where a statement returned as many rows as it may, what is missing
    from a timeline is older than all of them. Of the state it needs that every item that was
    stamped has a time on the clock, and that in memory the trace is that of the spans
    there are (`QueryInv`).

Assumptions: those stated with the constants (`ASSUME` in the modules, which TLC
evaluates on its instances), the one hypothesis of `OutcomesCountedHolds`, and
nothing about TLC's bounds, which the models carry as constants. The assumptions say
what the constants stand for: IDs are not the words or the nil beside them, node IDs
are positive numbers that stand for the order of the strings, image IDs are numbered
as they are drawn, priorities are integers, there are finitely many entities and IDs
of policies and of rules (nothing else needs a finite set to be proved), limits and
thresholds are natural numbers, positive where the code says so, and so is the
interval of an aggregation.

What stays with TLC, and why:

- Liveness under fairness (`ApprovedRuns`, `ExecutionEnds`, `DeathNoticed`,
  `Recorded`, and `OneCoordinator`, whose safety half is `CoordinatorsAgree`): TLAPS
  proves neither it nor `ENABLED`.

## Plan

1. (done) the modules above, with proofs.
2. (done) `VersionsTell`, `Paired`, the ledger of `Proposals`, the safety of
   `Observers` and `Services`.
3. (done) the searches of `Relations` as recursive functions, with proofs.
4. (done) what the queries of `Telemetry` return, with the selection as a function.
5. The mesh's file transfer against an abstract file, and the node's store of states.

## Not modelled

- Security (tokens, roles, certificates) and tenants: pure checks and single
  statements.
- The simulated volume and image managers: tables under one lock, of which no
  operation depends on another.
- The action executor: its outcome is a free choice in `Proposals`.
- Pattern mining, the default rules and the loaders of rule and policy files: they
  produce rules and policies, of which any may be given.
- Anomaly detection and `GetTrace` (telemetry), `RecommendTopology`,
  `DiscoverAndRegister`, capability detection: they compute from what they are given.
- `HealthCheckAll`'s unlocked map (`layer1/registry.go:169`) and the write to an
  entity during its own `Register`: data races without a defined outcome.
- `CreateAdapter` without a connection: only the command line calls it, connects by
  itself and ends. Capabilities and searches of the catalog, listings, statistics.
- What the protocol adapters exchange with devices, MQTT's last states, WSL2's
  network and volume managers (nothing uses them), the rest of the command line, the
  terminal interface and the examples: input, output and presentation.
