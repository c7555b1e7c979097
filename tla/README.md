# Verification of DuSheng-Panel

TLA+ models of DuSheng-Panel, a control panel (Go API, PostgreSQL or SQLite) and
its node agents, which forward TCP and UDP traffic for users. The models are
written from the Go code under `src/apps`; paths below are relative to it.
TLC checks them on small instances; TLAPS proves, for every instance, every safety
property the runs check, of all eight components, and that the configuration protocol
implements an abstract specification. Liveness is left to TLC.

## 1. Inventory

| Part | State it keeps | Operations | Talks to |
|---|---|---|---|
| Configuration distribution, `api/internal/app/server.go`, `user_grants.go`, `tenants.go` | rows of tunnels, rules, grants, policies, limits, probes; `nodes.desired_revision`, `applied_revision`, `config_ack_*`, `last_good_revision` | every write handler (revision, transaction, bump), `updateNode`, `agentConfig`, `agentConfigAck`, `agentHeartbeat` | the agent over HTTP, the other handlers through the database |
| Syncer, `agent/internal/configsync` | applied revision and configuration, lease end, fail-closed flag, status and pending ack; `rendered-gost.json` | `SyncOnce` every 30 s, acks | config and ack endpoints; `Runtime.Apply` |
| Runtime, `agent/internal/runtime` | listeners, draining listeners, generations, connections, UDP sessions, trackers, token buckets | `Apply`, `Stop`, accept and read loops, drain timers | Syncer, upstreams, traffic buffer, DPI |
| Traffic buffer, `runtime.go:1662-1819` | samples, pending bytes, retry batches, failure and drop counters | `add`, `flush` (ticker, 100 rules, `Stop`) | traffic endpoint |
| Traffic endpoint, `server.go:3432`, `traffic_accounting.go` | report markers, traffic rows, user, tenant and hourly counters | `agentTraffic` | quota |
| Rules and port leases, `server.go:2293-2680`, `port_leases.go`, `forward_batch.go` | rules, leases per entry group, bind IP, transport and port | create, update, delete, batch, preview | configuration distribution |
| Users, tenants, grants, quota, `tenants.go`, `user_grants.go` | used bytes, limits, periods, status, quota source of a rule | exhaust, reconcile, reset, monthly roll, profile saves | traffic endpoint, rules |
| Node lifecycle, `server.go:860-1100, 2860-2993, 3635-3700`, `cmd/agent/main.go` | install tokens, node status, uninstall command | register, heartbeat, uninstall request, command and its acks | agent |
| Line assets and probes, `line_assets.go`, `agent/internal/probe` | circuits, endpoints, probes with a revision, samples; one worker per probe | CRUD, `Manager.Apply`, worker loop, `agentProbeResult` | configuration distribution |
| Protocol detection and policy, `agent/internal/protocol` | none | `Detect`, evaluation of a policy | runtime |
| DPI client and sidecar, `agent/internal/dpi`, `apps/dpi` | flow table with TTL and capacity | classify, close flow, expire | runtime |
| Login, tokens, limiter, `auth`, `server.go:243-376` | failed attempts per key | login, refresh | - |
| Store, metrics, supervisor, web panel, deployment | schema; counters; a process handle nobody starts; a view | - | - |

What makes the system hard:

* **The configuration is numbered by wall-clock time.** The number of a write is
  taken before its transaction, raised over other numbers by `CASE`, mixed with
  row stamps by the config endpoint, which reads a dozen tables without a
  transaction, and compared by the agent to decide that nothing has changed.
* **Every call can fail on either side.** Requests have a 15 s timeout; an ack or
  a report may be served after its sender has given up on it and retried.
* **A lease, not the API, stops an unreachable node**, on the agent's own clock.
* **Whole-row saves** (`updateNode`, `updateUser`, `agentCommandAck`) overwrite
  columns that other handlers update one by one.
* **The traffic buffer is flushed by several goroutines at once**, and a failed
  flush puts its batch back in one of three ways.
* **Late answers and results arrive for something that has changed since**: a receipt for a
  node that is gone, a measurement of an old target, a packet of a closed flow.
* **Listeners are replaced while they carry traffic**: sessions are created with
  the lock released, generations close on timers, trackers are shared.

What each part owes:

| Part | Correct when |
|---|---|
| Configuration | listeners run exactly what the agent records; a failed replacement keeps the previous version; nothing outlives its lease; every update is announced and, once writes stop, applied; the panel shows only what the agent applied |
| Traffic | no byte vanishes or is metered twice inside the agent; each report is accounted at most once; buffers stay within their caps and never fill for good |
| Runtime | no connection or session survives its listener; each slot acquired is released once |
| Rules and leases | a port belongs to at most one rule; a failed batch leaves nothing |
| Quota | a rule runs only while both quotas allow; usage never goes back except by a reset |
| Node lifecycle | a token registers one node; an uninstalled node stays gone; an uninstallation taken back in time does not happen; one that is done left nothing running; none is under way for ever |
| Probes | a result measured for an old target never replaces the new one's; the agent comes to measure what the row says; events tell the status |
| Inspection | a verdict rests on the packets of its own connection, is stable, and is lenient in doubt; the sidecar's table stays bounded and forgets |

## 2. Plan

1. `ConfigSync`, the protocol everything else relies on, with its abstract specification
   `LeasedCopy` - *written, checked, proved, refinement proved*.
2. `TrafficReport`: metering, flushes, retries, merges, accounting - *written, checked,
   safety proved*.
3. `Listeners`: generations, drain and stop of TCP and UDP listeners, sessions, rule
   and tenant trackers, shutdown - *written, checked, safety proved*.
4. `PortLeases`: rules, leases, grants - *written, checked, safety proved*.
5. `Quota`: usage, exhaustion and restoration, resets, periods, profile saves -
   *written, checked, safety proved*.
6. `NodeLifecycle`: tokens, registration, heartbeats, the uninstall command - *written,
   checked, safety proved*.
7. `LineProbe`: writes, workers, results - *written, checked, safety proved*.
8. `DpiFlow`: inspection of connections, the sidecar's table - *written, checked, safety
   proved*.

Modules meet at rows they share: accounting (`TrafficReport`) is what `Quota` counts,
a rule `Quota` stops or `PortLeases` writes is a write of `ConfigSync`, the
configuration `ConfigSync` applies is what `Listeners` and the workers of `LineProbe` are
given, and a flow of `Listeners` is a connection of `DpiFlow`. `LeasedCopy` is the interface
at the widest of these seams: what runs on a node is one whole copy under a lease, or nothing.

## 3. Modules

| Module | Contents |
|---|---|
| `ConfigSync.tla` | distribution of one node's configuration, API and agent |
| `LeasedCopy.tla` | what the distribution promises: one whole copy, held under a lease |
| `ConfigSync_proofs.tla` | theorems about `ConfigSync`, and that it implements `LeasedCopy` |
| `MCConfigSync.tla` | clock offsets used by the runs |
| `TrafficReport.tla` | metering, reporting and accounting |
| `TrafficReport_proofs.tla` | theorems about `TrafficReport` |
| `MCTrafficReport.tla` | rule sets used by the runs |
| `Listeners.tla` | one rule's TCP and UDP listener in the agent: replacement, drain, stop, flows, trackers |
| `Listeners_proofs.tla` | theorems about `Listeners` |
| `MCListeners.tla` | listeners, clients and configurations used by the runs |
| `PortLeases.tla` | rules, port leases, grants, tunnels' entry groups |
| `PortLeases_proofs.tla` | theorems about `PortLeases` |
| `MCPortLeases.tla` | two tunnels with an entry group each, and their symmetry |
| `Quota.tla` | user and tenant quotas and the status they give to rules |
| `Quota_proofs.tla` | theorems about `Quota` |
| `MCQuota.tla` | two users of a tenant with a rule each, and their symmetry |
| `NodeLifecycle.tla` | a node from its install token to its removal, machine and row |
| `NodeLifecycle_proofs.tla` | theorems about `NodeLifecycle` |
| `MCNodeLifecycle.tla` | the instance with one machine and one token |
| `LineProbe.tla` | a probe: row, worker, results on their way |
| `LineProbe_proofs.tla` | theorems about `LineProbe` |
| `MCLineProbe.tla` | two nodes, one of them with its agent at work |
| `DpiFlow.tla` | inspected connections of a rule, the policy, the sidecar's table |
| `DpiFlow_proofs.tla` | theorems about `DpiFlow` |
| `MCDpiFlow.tla` | the policies and table sizes of the run |

Definitions preceded by a comment that begins with "Mutant" are variants of the
definition that follows them, written the way a slip in the code would be; each
breaks the property it was written for. No specification uses them.

### ConfigSync

A configuration is a function from *items* (the tables in the order
`agentConfig` reads them) to the number of the write that made the item what it
is. Numbers are the `UnixNano` values the handlers take, so a write, its revision
and its content are one number, and the nonce (a hash of the node's token and the
revision) is the revision. `stamped` says which rows carry their number (rules,
probes, and tables with `updated_at`): those raise the revision of an answer. A
deletion, a grant or an account has no row that does.

| Code | Model |
|---|---|
| `revision := time.Now().UnixNano()` and then `Transaction` | `BeginWrite`, `CommitWrite`, `AbortWrite`; any number in flight up to `Concurrency` |
| `desiredRevisionExpr` | `Bump` |
| `updateNode`, `requestNodeUninstall`: read row, stamp, `Save` | `BeginNodeSave`, `StampNodeSave`, `CommitNodeSave` |
| `agentAuth`, `agentConfig`, `maxRevisionTime` | `SyncStart`, one `ReadItem` per item, `ServedRevision` |
| `SyncOnce` and the early returns | `GetFails`, `RejectExpired`, `RefreshLease`, `RenderFails`, `ApplyFails`, `ApplyConfig` |
| `rejectConfig`, `ackAppliedIfPending`, `failClosedIfLeaseExpired` | `Reject` with `AckRejected`, `AckApplied`, `EnforceLease` with `AckLease` |
| `AckConfig` and its request | `SendAck`: delivered, answer lost, request lost, served late (`RecordLateAck`) |
| `agentHeartbeat` | `Heartbeat` |
| `main`, process start | `Restart` |
| wall clock | `Tick`, one period of the 30 s ticker; `skew` is the agent's offset |

`Runtime.Apply` is one step: it prepares all listeners before it switches
(`runtime.go:178-308`) and returns an error without having changed the running set.
Applying the empty configuration of a fail-closed stop starts no listener and
cannot fail. `lag` counts ticks since the last lease decision; `MaxLag` bounds how
long a process can be suspended or a request may hang. In `ConfigLease` and `ConfigConverges`
it is at least the lease, so that an answer may expire on the way (`RejectExpired`).

`raced`, `published` and `everApplied` are history variables, read by properties
only (and assigned beside the steps they watch).

### LeasedCopy

What a user of the node may rely on, without revisions, acks, files or failures: a holder
takes an offer whole (`Take`), renews its lease (`Renew`), refuses it, gives the copy up at the
end of the lease (`Expire`) or in a restart. No other step takes a copy away or changes
a part of it, and none is held for longer than `Grace` after its lease. `ConfigSync` instantiates
it as `Copy`: the copy held is `runtime` (what listens), the lease is
`syncer.leaseValidUntil`, and the offer is the answer `SyncOnce` has received and not
yet acted upon. A failed replacement (`ApplyFails`, `RenderFails`) maps to `Refuse`: the previous
copy stays. Grants to the holder are steps of `agentConfig` that complete an answer.

### TrafficReport

A *chunk* is a number of bytes metered for one rule, numbered so that it can be
followed from connection to account. `samples` and a batch are sets of chunks;
the code's map of sums is the sum over the set. All chunks have one size, so a
merge keeps as many rules of the batch as fit, in any order of the map. `BeginFlush` is
`flush` up to its request, `FlushSucceeds` and `FlushFails` what it does with the
answer; the request is served by `Serve`, or by `ServeLate` after the agent gave up
on it. `Account` is the transaction of marker and additions; a refused report has
no step at the API, its sender sees a failure. `LoseRule` is a rule deleted or
moved to another entry group, after which every report naming it is refused.

### Listeners

A *flow* is a TCP connection or a UDP session. A listener is `active`, `draining` or
`stopped`, the states of `managedListener`; its goroutines are steps of the flows and
of the variables `drainer` and `stopper`. A change that a running listener
can take over starts a new generation, and a timer per listener (`timers`)
closes the flows of older ones.

| Code (`agent/internal/runtime/runtime.go`) | Model |
|---|---|
| `Runtime.Apply`, `startListener`, `TrackerFor` reuse | `Apply` with `Stage`, `TrackerFor`, `OldGeneration`; `AbortApply` when a listener cannot start |
| `acceptLoop`, `handleDatagram` up to its unlock | `Begin` |
| `acquireConfig`, `limitTracker.acquire` and `release` | `AcquireRule`, `AcquireTenant`, `Admitted`, `Release` |
| tracking a connection; the second half of `handleDatagram` | `Track`, `Insert`; `DialFails` |
| `handle`, idle cleanup, the session's read loop | `EndConnection`, `EndSession`, `Gone` |
| `closeGenerationAfter` and its cancellation | `CloseGeneration`, `CancelTimer` |
| `drain` and `stop` of either listener | `DrainDeadline`, `DrainDone`, `DrainUdp`, `StopSignals`, `StopCloses`, `StopDone` |
| `Runtime.Stop` | `Shutdown`, `StopNext`, `FinalFlush` |

`handleDatagram` releases the lock while it inspects and dials (up to 10 s), and a
TCP connection is counted before it is tracked. A flow in that window (`starting`) when its
listener closes all of its flows is opened afterwards, and nobody closes it:
`missed` names the listeners this happened to, and the properties except them.
A tracker belongs to a limit: when the limit changes, or the rule was without a listener, `TrackerFor`
is a fresh one, which counts none of the flows admitted before. Handing it over begins a
generation (`Fresh`), so those flows drain. A drain timeout (30 s) is taken to be longer than setting up a flow.

### PortLeases

A request is a `job`: its rows and leases become visible when it commits, and it
holds row locks (entry groups, grants) until then. Between two steps others see what is
committed.

| Code (`api/internal/app`) | Model |
|---|---|
| `createForwardRule`, `applyForwardRuleBatch` and its preview | `BeginCreate`, one `Prepare` per row, `Commit`; a preview and a failed row are `Rollback` |
| `updateForwardRule`: read outside, check and `Save` inside | `BeginUpdate`, `Prepare`, `Commit` |
| `prepareForwardRuleTx` | `Prepare`: grant, its limit, port, the user's limit; `entryPortInUseTx` is `PortInUse` |
| `replaceRulePortLeasesTx`, unique index of `port_leases` | `NeededLeases`, `CanInsert` |
| `deleteForwardRule` | `DeleteLeases`, `DeleteRule` |
| `updateTunnel` | `MoveTunnel` |
| `agentViolation` | `ReportViolation` |
| `updateUserTunnelGrant`, `createUserTunnelGrant`, `deleteUserTunnelGrant` | `SetGrant`, `DeleteGrant` |

A deletion holds the lease rows it has removed, so an update that would replace them waits
(`HeldByDeletion`), and it waits for an update that has replaced them (`waits`). Locks
taken by two batches in opposite order deadlock; the database ends one of them, which is
`Rollback`. The history variables `strayed` and `overlapped` hold the two known
exceptions: rules whose tunnel moved or that a violation enabled without leases,
and rules deleted while an update of them was under way (GORM's `Save` of a row that is
gone inserts it again).

### Quota

| Code (`api/internal/app`) | Model |
|---|---|
| `updateUser`: read, then `Save` of every column under the tenant's and the user's lock | `ReadUser`, `SaveUser`, `CommitUser` |
| `resetUserTraffic` | `ResetUser`, `CommitUser` |
| `reconcileUserQuotaTx`, `exhaustUserQuota` | `UserPlan` (what it reads), `UserRules` with `Restore` or `Stop` |
| `updateTenant` | `ReadTenant`, `SaveTenant`, `CommitTenant` |
| `resetTenantTraffic`, `loadTenantForRead` | `ResetTenant`, `CommitTenant` |
| `rollTenantPeriodTx` inside accounting and inside a rule's write | the parameter `due` of `Report` and `SaveRule` |
| `reconcileTenantQuotaTx`, `restoreTenantQuotaRulesTx`, `exhaustTenantQuotaTx` | `TenantPlan`, `TenantRules` |
| `accountAgentTrafficTx` | `Report`, `ReportedRules`, `CommitReport` |
| `updateForwardRule` with the checks of `prepareForwardRuleTx` | `BeginRule`, `SaveRule`, `SavedRules`, `CommitRule` |
| the rules a transaction lists, writes and commits | `Listing`, `WriteRules`, `Committed`; `RulesFree` are their row locks |
| `agentViolation` | `Violation` |

A request that changes a quota has three stages: it locks its accounts and lists the rules to
restore, with the other quota; it writes rules; it commits. A rule it has written is locked
until then, and others see what is committed: PostgreSQL's READ COMMITTED, the weaker isolation of
the two databases.

*Stops.* `exhaustUserQuota` and `exhaustTenantQuotaTx` are one `UPDATE` of the rules that have a
status to stop when it is made. It locks the rules it finds and no others, so one that a request
in flight resumes is not among them; if that request commits first the rule stays active, beside
a used-up quota. `Missed` are these rules. A stop without anything to restore is planned, and its
rules written, in the step that takes the locks: between the two nothing is read, and what others do
in between they may do before it.

*Restorations.* The rules are listed, and written by their number later. What others commit in between
(a reset of a user does not lock the tenant, a restoration of the tenant's rules does not lock the users,
neither locks the rules it lists) is overwritten; `Crossing` are these rules. `WriteRules` waits until nobody
else holds one of them. A statement that waits for a row looks at that row again when it gets it, but not at
those it has passed by: a rule that is resumed while it waits is, in the model, one that is resumed right after it.

`crossed` collects both kinds when they are committed, and rules resumed by a request that had read a quota which
has run out since. A profile save of a user or tenant puts back the usage it had read (`overwritten`). Both are
exceptions the properties name. The tenant's rules are those of its members; a period that has ended is a
nondeterministic choice. Deadlocks between row locks end in `Abort`.

### NodeLifecycle

A handler of the API is a *job*: it reads the node's row first and writes later. A machine
waits for the answer of one job; when it gives up (15 s) the job goes on, and so
do jobs of an agent that has been restarted.

| Code | Model |
|---|---|
| `createInstallToken`, `deleteInstallToken`, expiry | `CreateInstallToken`, `DropInstallToken` |
| `install-agent.sh` | `Install` |
| `main` until it has credentials; `agentRegister` | `Register`; `TakesToken`, `CommitRegister` |
| `sendHeartbeat`; `agentHeartbeat`, its two updates and its answer | `Heartbeat`; `Touch`, `Refresh`, `Answer` |
| `uninstallCommand` | `UninstallCommand` |
| `handleCommand`: marker file, ack | `Answer` (marker), `SendReceipt` |
| `agentCommandAck`: "accepted" and "failed"; "done" | `SaveReceipt`; `DeleteDone` |
| the unit's `ExecStopPost` and the uninstall helper | `Stop`, `SendDone`, `Wipe` |
| `updateNode`, `requestNodeUninstall` with `force` | `BeginUpdate`, `SaveUpdate`; `BeginUninstall`, `SaveUninstall`; `ForceDelete` |
| `markStaleNodesOffline` in `listNodes` | `MarkOffline`, `FindOverdue`, `MarkOverdue` |
| five minutes | `BecomesOverdue` |

An uninstallation that was taken back before any heartbeat was answered with it must not
reach the machine (`calledOff`). Once the marker file is written nothing removes it: the machine
is cleaned whenever its service next stops, whatever the panel shows by then. `overtaken`
names nodes deleted while a handler held their row to save it.

### LineProbe

One probe. `row` is its row, `writes` are updates and deletions that have read it,
`worker` and `check` belong to the probe manager of each agent, `reports` are results on
their way through `agentProbeResult`. The number of a write is the revision of the probe and
stands for its target.

| Code | Model |
|---|---|
| `createLineProbe`, `updateLineProbe`, `deleteLineProbe` | `CreateLineProbe`; `BeginUpdate`, `BeginDelete`, `CommitWrite` |
| `bumpNodeRevisionWithDB` | `Bump` for the nodes `Concerned` |
| `agentAuth` and the probes in `agentConfig` | `BeginFetch`; `ProbeOf`, `ServedRevision` |
| `SyncOnce`, `combinedRuntime.Apply`, `Manager.Apply` | `Fetch`, `Work` |
| `Manager.run` | `BeginCheck`, `Current`, `EndCheck` |
| a restart, a lease that ends | `Interrupt` |
| `agentProbeResult`: read, conditional update, event | `ReadProbe`, `StoreResult`, `WriteEvent` |
| a request lost, an error or the end of the API at any stage of it | `Lose` |

What a check found is chosen when the API reads the result, where it matters first. An agent makes one
check at a time: where the code lets a replaced worker's check run on beside the new one's, the model has
the new one wait for it; a dead check changes nothing when it ends. A lost
configuration request is one that is not made; everything else `SyncOnce` may do is in `ConfigSync`.

### DpiFlow

| Code | Model |
|---|---|
| `newDPIFlow`, `dpiFlow.inspect`, `dpiFlow.close` | `Open`; `Inspect`, `Concluded`; `Close` |
| `detectProtocolFlow` with an answer, without one | `Classify` with `Answer`, `Timeout` with `Unanswered` |
| `Detect` and `ApplyPolicy`, `ApplyDPI` | `Builtins`, `Decide` |
| `closeDPIFlow` in `flushLoop` | `CloseFlow` |
| `ndpiEngine.Classify` | `Lookup`, `Process`, `GivesUp` |
| `expireLocked`, `ensureCapacityLocked`, `removeFlowLocked` | `Expire`, `EnsureCapacity`, `RemoveFlow` |
| `cleanupLoop` | `Tick`, `Cleanup` |
| a request the agent no longer waits for | `Late` |
| either process starts again | `AgentRestart`, `SidecarRestart` |

`setup` is what a rule's policy and the options of the sidecar decide: whether the sidecar is asked
(`shouldUseDPI`, and that there is one), what is done with the unknown and with little confidence, how many
flows the sidecar remembers and after how many packets it makes up its mind. The latter
(`-max-packets`, `apps/dpi/cmd/dpi/main.go:56`) may exceed what the agent inspects, which is a constant.

A connection is inspected packet by packet, one at a time under its lock; empty packets are not counted and left
out. What the sidecar finds in a packet is a nondeterministic choice of four findings (one of which, a
medium risk or any objection of a policy that only observes, raises an alert and lets pass) and of its being
stable and confident. Only blocking has a consequence for the connection, so allow, observe, alert and limit
are one action. `leftover` names the flow IDs the sidecar knew when the agent restarted: the agent counts its
flows from one again, and the sidecar cannot tell the two connections apart. `disturbed` says of a
connection that the packets both sides count are not the same: a request of it failed, or
the sidecar no longer had, or had anew, the flow with its earlier packets.

## 4. Runs

All runs pass.

| Run | States | Question |
|---|---|---|
| `ConfigRaces` | 4.2 M | writes, commits, node saves, reads and acks interleaved: is every update announced, is every report real? |
| `ConfigLease` | 909 k | suspended agent, clock ahead by a lease, late acks, restart: does the lease bound hold, is what listens what the agent records, and is it a leased copy? |
| `ConfigConverges` | 235 k | under fairness, does the node end up with the last writes, and does the panel know? |
| `TrafficReport` | 174 k | is each chunk in exactly one place, and does the buffer empty when metering pauses, whatever the API does? |
| `TrafficMerge` | 868 k | do caps, counters and at-most-once accounting survive concurrent flushes and merges? |
| `ListenerDrain` | 1.4 M | through replacements, drains and a shutdown: is every slot given back once, do limits hold over both networks and through a change of the limit, is every live session reachable, is every old flow on notice? |
| `ListenerEnds` | 152 k | under fairness, does a drain end and a shutdown reach the last flush although no peer hangs up? |
| `RulePorts` | 1.1 M | can two requests at once give a port twice, lose one, exceed a grant, bring back a rule? |
| `QuotaLayers` | 1.7 M | can one quota's reset bypass the other, leave a rule stopped, lose usage, resume a paused rule? |
| `NodeLives` | 251 k | does a token register one node, does an uninstallation taken back stay off, is a removed node gone for good, does every uninstallation end? |
| `LineProbes` | 431 k | does a late result ever count for a new target, do events tell the status, does the agent come to measure what the row says? |
| `DpiFlows` | 309 k | is a verdict the connection's own, stable, and lenient in doubt; is the sidecar's table sound, and does it forget? |

### Bounds

* Items: two are the fewest for a torn read (one read before, one after a write);
  revisions: the first configuration and two writes, enough for an inversion; one
  node save, enough to put one row back.
* Clock: three ticks with a lease of one or two, so a lease ends, an answer can
  expire and another be received. `MaxLag` 2 exceeds the lease of `ConfigLease`.
  `ConfigRaces` stops the clock: no property of that run speaks of time.
* One late ack in `ConfigRaces` and `ConfigLease`, one restart in `ConfigLease`; a second of
  either repeats the first, since a restart forgets everything and a late ack is filtered by
  revision alone.
* `ConfigConverges`: one item and two writes at once, so that they may commit in the inverse order;
  a lease of one tick and a lag of one, so that an answer expires before the agent looks at it, also
  one with the running revision. It has no late acks: a late ack for the running revision
  (`config_ack_revision <= ?`, `server.go:3415`) can put `rolled_back` on record after
  `applied`, and the agent does not ack again. Nor has it a restart: the agent then starts
  as it does at first.
* Traffic: `MaxChunks` is a bound on what is metered; that metering pauses is a premise of
  `BufferEmpties`, which makes no use of the bound. `TrafficReport` has two rules with room for one, so a sample is
  refused at the cap, and two flights, so flushes overlap. `TrafficMerge` has one rule and
  as many flights as chunks: merging back needs a full retry queue (two), one
  failure fewer than the limit and another batch under way.
* Listeners: one rule, its TCP and UDP listener, two flows, two calls of `Apply`, two clients with
  addresses of their own (one for liveness), room for one session. Two flows are enough to
  exceed a limit of one and to share a session's key; two calls start the rule and
  replace, move or remove it.
* `RulePorts`: two of everything, one port, `tcp` and `tcp_udp`. Two rules race for a
  port on one group or for the last place of a grant (`GrantLimits` 1); two
  requests are an update and a deletion of one rule. One tunnel is away from its first group at
  a time (`MaxMoved`), which is enough for a move to collide and to be undone.
* `QuotaLayers`: two users of one tenant with a rule each, two requests at once,
  limits of one byte (the tenant's may be lifted), one byte counted at a time
  (`MaxBytes`), one rule in violation at a time. Every order in which the two quotas run out and
  come back is reached with one byte. A constraint ends a behaviour when both rules are in
  `crossed`, where `QuotasAgree` says nothing of them; without it the run has 2.6 M states and passes too.
* `NodeLives`: one machine and one token with two handlers at once, so that a registration
  is repeated while the first is served and a save meets a removal; two requests of the administrator
  (an uninstallation and its cancellation, or two saves). Two rows are enough for
  a second node of the token to show. The only status the administrator gives is `online`: the
  others differ in `Auth` alone.
* `LineProbes`: a create and one further write (`MaxRevision` 2) by one handler, so that writes never cross, on two nodes
  of which one has its agent at work; the other stands for the place the probe comes from or goes to.
  Two results on their way are the fewest for a reordering; one fault is one result or event
  lost or one restart.
* `DpiFlows`: two connections, two packets inspected by the agent, a sidecar that makes up its mind after one,
  two or three, or none that is asked, a table of two flows or one,
  one remembered closing, one fault. Two connections suffice for a flow ID to be known from
  another connection and for one to push the other out of the table.
* Deadlock is not checked where the system may stop: when the bounded number of chunks
  is settled and every rule is lost (traffic), after the last `Apply` or the shutdown
  (listeners), and when the bounded requests, faults and connections are used up (`NodeLives`,
  `LineProbes`, `DpiFlows`). The other runs check it.

### Fairness

`ConfigSync`: the ticker calls `SyncOnce` again and again (weak fairness of
`SyncStart`, and of the steps the agent takes alone); transactions end. Reading the
tables, applying, a delivered ack of an application and a delivered heartbeat are strongly fair: the
network and the listeners may fail any number of times but not always, and an answer may expire on the way any
number of times but not always, which is what convergence must assume. Clock, administrators, restarts and late acks have none.
`TrafficReport`: weak fairness of starting a flush (15 s ticker) and of ending one (the
client's 15 s timeout). The API has none.
`Listeners`: goroutines run, timers fire, a drain's deadline comes. No flow ends unless its
listener closes it: a peer owes nothing. A closed flow's handler ends; the code closes the client's side
only, so this assumes that the upstream reads, writes or hangs up. `Apply` and the signal have none.

`NodeLifecycle`: five minutes pass, and somebody looks at the list of nodes, which is what
carries out the timeouts (`markStaleNodesOffline` is called by `listNodes`). The agent owes nothing.
`LineProbe`: handlers end; agents at work fetch their configuration and go on checking (tickers).
Results, restarts and leases may fail within the bound.
`DpiFlow`: time passes and `cleanupLoop` runs.

### Exceptions

Some behaviours of the code fall short of what one would like to state. Each passing
property excepts exactly the cases named here, through a history variable or a premise, and nothing else.

| Exception | Behaviour of the code |
|---|---|
| `raced` (`AnnouncedUpdate`, `Converges`) | Revisions are taken before the transaction (`user_grants.go:67`, `server.go:2326, 2391`): a write with the lower number may commit last, and is not announced. The config handler reads its tables without a transaction (`server.go:3136-3276`): it may miss a write and take the number of a later one. A node save puts back an older desired revision. `docs/operations.md:44` promises that the next round applies a change. |
| `RejectedWhileRunning` (`Converges`) | An answer that expired before the agent looked at it is rejected even when it is the running revision (`configsync.go:80`). The panel shows `rolled_back` for it and no later ack corrects that: the revision is neither applied nor acknowledged again. The node runs it all the same. |
| `MeteringPauses` (`BufferEmpties`) | Any batch that gets through resets the failures counted (`runtime.go:1796`), also while a refused one is under way, which then goes back to the head of the queue. As long as metering and overlapping flushes go on, a report that is refused for ever need not be dropped. |
| `merged` (`AccountedOnce`) | A failed batch that is merged into the samples because the retry queue is full gets a new report ID (`runtime.go:1770-1792`); if the API had accounted it, its bytes are billed again. `README.md:110` says that the report ID makes retries idempotent. |
| `missed` (`Listeners`) | A flow still being set up when its listener closes all flows is opened afterwards and stays (`runtime.go:812-817, 1328`). |
| a tracker's own limit (`LimitsHold`) | Limits are those of a tracker. A changed limit, or a rule removed and added again, makes a fresh one (`runtime.go:203-215, 276`), and the flows of the old one drain for up to 30 s: together they may exceed either limit. The property requires the limit in force of the flows nothing is about to close. A tenant's tracker is replaced in the same way; in the model its limit is constant. |
| `strayed` (`PortsExclusive`, `LeasesFitRules`) | `updateTunnel` changes the entry group of the rules behind it without leases (`server.go:1304-1326`); a violation reported for a disabled rule enables it without leases (`server.go:3626-3631`). `README.md:110` says that ports are occupied atomically by leases. |
| `overlapped` (`LeasesFitRules`, `DeletedStaysDeleted`) | An update under way brings back a deleted rule, or leaves leases without one: GORM's `Save` inserts a row that is gone. |
| `crossed`, `overwritten` (`Quota`) | A profile save puts back the usage it had read (`server.go:807`, `tenants.go:92`); a user's reset that meets the exhaustion or reset of the tenant leaves a rule active or stopped that should not be (`server.go:3541`); a rule resumed by a request that commits after the `UPDATE` of a stop and before its commit, or after both, stays active (`server.go:3511`, `tenants.go:586`; the request has asked for quota left before). The filter of `activeAgentRules` (`server.go:3283`) still withholds the rules of an exhausted quota from the nodes. |
| `overtaken` (`RemovedStaysRemoved`) | `agentCommandAck`, `updateNode` and `requestNodeUninstall` save the whole row they read; a node deleted meanwhile is inserted again (`server.go:3669, 1039, 1080`). |
| `crossed` (`ProbeSettles`) | Two updates of a probe that read the same row may commit in the inverse order of their numbers: the probe's revision goes down, the node's does not, and the agent keeps the other target; a deletion tells the node its row named when it was read. |
| `blurred` (`EventsTellStatus`) | The event compares with a status read before the conditional update (`line_assets.go:749, 780`): two results at once may write an event too many or none; a write of the probe puts back the status it had read (`line_assets.go:593`). |
| `unwritten` (`EventsTellStatus`) | The event is not part of the transaction of the status (`line_assets.go:772, 785`), and `agentEvent` ignores its error (`server.go:3779-3790`): the event may be lost, and the last one then tells the status before. |
| a sidecar's limit above the agent's, or none asked (`VerdictsAreDue`) | With `-max-packets` above 12 the agent keeps what it has at its twelfth packet (`runtime.go:640`), which is not stable yet; without the sidecar it keeps what is done with the unknown. `DoubtPasses` holds in either case. |
| `leftover`, `disturbed` (`OwnVerdict`, `VerdictsAreDue`) | Flow IDs start again with the agent (`runtime.go:616`), and the sidecar may still know them from another connection; a request that failed, or a flow the sidecar forgot half-way (and may have begun again for a late request), leaves the agent counting packets the sidecar did not see. |

Behaviour no property speaks of, met while modelling:

* a late ack for the running revision (`config_ack_revision <= ?`, `server.go:3415`) puts an older
  status on record for good, since the agent does not ack again, and so does a node save with the
  row it had read (this is why `ConfigConverges` has no late acks and no node saves);
* once the marker file is written, taking the uninstallation back does not stop it: the next
  stop of the service cleans the machine (`main.go:198`, `install-agent.sh:357`); the command
  ID stays in the row, so that a later request gives the old command again;
* an agent that loses the answer to its registration has spent the token: the node's row
  stays, nobody has its credentials, and the machine needs a new token.

## 5. Proofs

Every invariant and action property of every run is stated by a theorem: the run shows it on
one instance, the theorem for every value of the constants that the named assumptions
admit. The assumptions give the constants their kinds (a limit is a number, `None` is no value of
the model) and name the sets that must be finite because something is counted in them.

Where a property is not inductive, the module defines what it needs, as named parts whose
conjunction, `IInv`, is; `Inductive` is the theorem about it, with one lemma per action or
group of actions. The parts were invariants of a TLC run on the instance of the component's run
before they were proved. The theorems are conditional on nothing but the assumptions: the
exceptions of the properties are those of section 4.

`ConfigSync_proofs` proves, for any number of items, any lease, lag, skews and bounds,
from the assumptions named in `ConfigSync` (there is at least one item; the lease is a
positive number; `NoConfig` is not a configuration):

| Theorem | States | Strengthening |
|---|---|---|
| `TypeCorrect` | `TypeOK`, which all others rest on | none |
| `LeaseBounded` | `LeaseBound` | `LeaseInv`: `RuntimeIsApplied`; the lease in an answer and the agent's own reach at most `LeaseTicks` ahead, running or not; a synced runtime that has not failed closed satisfies the bound |
| `RuntimeCorrect` | `RuntimeIsApplied` | inductive with `TypeOK` |
| `PreviousIsKept` | `PreviousKept` | from `RuntimeIsApplied` and one fact per action |
| `ReportsAreReal` | `ReportedIsReal` | `ReportInv`: what may yet be reported as applied was applied - by a late ack, by one about to be sent, by the row a node save holds, by the agent's own fields |
| `UpdatesAreAnnounced` | `AnnouncedUpdate` | `AnnounceInv` |
| `CopyHeld` | `HoldsLeasedCopy`, that `ConfigSync` implements `LeasedCopy` | `LeaseInv` |

`AnnounceInv` is the interesting one. It says that (`Bounded`) no item, desired,
answered or applied revision exceeds `published`, the highest number committed;
(`Desired`) an item not raced is at most the desired revision; (`ReadOrAbove`) while
an answer is assembled, an item not raced that has been read is in it as it is now, or
numbered above the answer; and (`AppliedOrAbove`) the same for the applied
configuration and revision. `AppliedOrAbove` with `Desired` gives the theorem. It is
inductive because a write that is not raced commits above everything
published, hence above every answer, and because a read that raises the answer's
revision over a write it missed marks that item raced. `LeaseInv`, `ReportInv` and
`AnnounceInv` were invariants of TLC runs on the instances of `ConfigRaces` and `ConfigLease`
before they were proved.

`CopyHeld` takes the steps of the agent one by one (`CopyStep`): an answer completed is a
`Grant`, `ApplyConfig` a `Take`, `RefreshLease` a `Renew`, every rejection a `Refuse`, a
fail-closed stop an `Expire`; all else leaves what `LeasedCopy` sees alone. `LeaseInv` is needed
in three places: an answer's lease must be within reach of the API's clock (`Grant`), only a
running configuration is renewed (`Renew`), and the clock may pass only while the grace lasts
(`Pass`).

`LineProbe_proofs` proves, for any nodes, agents at work, writes, results under way and
faults, from the assumptions named in `LineProbe` (agents at work are nodes; `None` is neither
a node, a number nor a record of the model):

| Theorem | States | Strengthening |
|---|---|---|
| `TypeCorrect` | `TypeOK` | `Numbers`: a number is used after it was taken, a write brings its own into the row, and that of a write to come is neither in the row nor another write's |
| `ResultsOfWorkers` | `ResultsAreCurrent` | `Measured`: a live check measures what the worker measures |
| `LateResultsAreDropped` | `LateResultsDropped` | `Numbers`: a write gives the row a number it did not have, so a row that keeps its revision was touched by a result at most |
| `EventsTell` | `EventsTellStatus` | `EventInv` |

`EventInv` says what holds while an event is on its way: (`Told`) unless the probe is blurred,
the only event to be written has the status of the row, and when there is none the last one
has, or it is `unwritten`; (`KeptStatus`) a write saves the status it has read; (`Untouched`) before the first
number there is nothing to report. `TypeOK` needs `Numbers` because a desired revision is bounded by
the numbers taken so far, and a commit brings a number taken long before.

`NodeLifecycle_proofs` proves, for any machines, tokens, handlers, nodes and requests of the
administrator, from the assumptions named in `NodeLifecycle` (`NodeConstants`: the bounds are
numbers, the administrator sets no status of an uninstallation, `None` is no value of another
constant; `NoneIsNoRecord`: nor a row or a job):

| Theorem | States | Strengthening |
|---|---|---|
| `TypeCorrect` | `TypeOK` | `Typed`: a registration has a token, any other job a node, an update a status or none; an installed machine has its install token |
| `OneNodeEach` | `OneNodePerToken` | `TokenInv`: the token a node was registered with is used, and no two nodes have one |
| `RemovedForGood` | `RemovedStaysRemoved` | `RemovalInv` |
| `DoneIsClean` | `DoneMeansClean` | `RemovalInv`, `MachineInv`, `LeavingIsLate` |
| `TakenBackHolds` | `CancelHolds` | `RemovalInv`, `MachineInv`, `CancelInv` |

`RemovalInv` says that nodes are registered in their order, so that a registration takes a number
no row, job or machine has (`InOrder`, `KnownNodes`), and that no job will save the row of a
removed node unless it was overtaken (`StaysAway`). `MachineInv` ties a machine to the handlers:
the job a machine waits for is its own alone and fits its stage (`Waiting`), a machine without
credentials has no marker and one that acknowledges has one (`Stages`), and nobody shares
credentials (`Owners`); without `Waiting` an answer could give two machines one node.
`LeavingIsLate` makes `DoneMeansClean` inductive: already while the final receipt is on its way the
machine only finishes its cleanup. `CancelInv` does it for `CancelHolds`: as long as a receipt of a
machine is being saved the machine has the marker (`Known`), so that one without it is safe from
the receipts of the node, and no update that is about to be saved restores the uninstallation
(`TakenBack`).

`TrafficReport_proofs` proves, for any rules, caps, flushes at once, restarts and number of
chunks, from `LimitsAssumption` (the caps are numbers, the queue has a place):

| Theorem | States | Strengthening |
|---|---|---|
| `NothingVanishes` | `Conserved` | `OnePlace`, `Apart`, `Complete` |
| `BufferIsBounded` | `BufferBounded`, type correctness included | `Bounded` |
| `CountedOnce` | `AccountedOnce` | `OneReport`, `OnRecord` |

`OnePlace` says that a batch waits or is under way, once, under an ID of its own; `Apart` and
`Complete` that the chunks metered are those of the samples, the batches and what is settled, without
overlap; `Bounded` that `pendingBytes`, the batches' sums and `droppedBytes` are the
sizes of what they count. Accounting also concerns the requests the agent has given up on
(`Reports`). `OneReport`: one ID is one batch, however often it is sent. `OnRecord`: a chunk that was
never merged back is in one report at most and uncounted while in the samples; it is counted once its
report is on record, and not before. That is why a retry is harmless and a merge is not: a merge
puts a chunk whose report may be on record back among the samples.

`Listeners_proofs` proves, for any listeners, clients, limits and configurations and any
finite number of flows alive at once, from `ClientsAssumption`, `LimitsAssumption`, `FlowsAssumption`:

| Theorem | States | Strengthening |
|---|---|---|
| `TypeCorrect` | `TypeOK` | the rest of `IInv`: a counter is a number because a slot given back was held |
| `SlotsAreBalanced` | `SlotsBalanced` | `Numbered` |
| `LimitsAreHeld` | `LimitsHold` | `Within`, `SlotsBalanced`, `Generations` |
| `SessionsAreReachable` | `SessionsReachable` | `Mapped` |
| `OldFlowsEnd` | `OldFlowsOnNotice` | `Signalling`, `Sweeping` |

`Numbered`: a flow is counted by the tenant's tracker and by the one its rule had when it began, and a
tracker still to be made counts nobody. `Within` bounds the counter rather than the flows, and
`SlotsBalanced` joins the two. `Generations`: a flow that nothing is about to close began with the tracker the rule has now, because
every change of the tracker begins a generation; so those flows are among the holders of that tracker, whose limit
is the one in force. `Mapped`: the map of a UDP listener has its open sessions, each
under its own client; it survives the unlocked dial because `Insert` looks again. `Sweeping` is what an
old flow's end rests on: a listener that was signalled has closed all of its flows
or is about to, but for those it `missed`.

`PortLeases_proofs` proves, for any tunnels, groups, ports, transports, limits and requests and any
finite set of rules, from `RuleConstants` and `NoneIsNoValue`:

| Theorem | States | Strengthening |
|---|---|---|
| `PortsAreExclusive` | `PortsExclusive` | `Shaped`, `Leased`, `Separate` |
| `LeasesFit` | `LeasesFitRules`, type correctness included | `Shaped`, `Leased`, `Fitting` |
| `GrantsAreRespected` | `GrantsRespected` | `Shaped`, `Granted` |
| `DeletedForGood` | `DeletedStaysDeleted` | `Shaped` |

`Shaped`: a job writes the rows of its kind; the rule an update saves is there, or was deleted
meanwhile. `Leased`: a job's leases are those of its rows, for an entry group it has locked. `Granted`: no two
jobs have one grant locked, and what a job sees, its own rows included, is within the
grants it holds. `Separate`: two rows, committed or about to be, ask for one port only if
they strayed or if one of them was prepared for an entry group its tunnel has left, which its commit notices. The
unique index on leases is in the model but not in this argument: the locks of the
entry groups and the check of ports in use suffice for `PortsExclusive`.

`Quota_proofs` proves, for any users, rules, limits and usage and any number of requests in
progress, from `QuotaConstants` and `NoneIsNoRecord`:

| Theorem | States | Strengthening |
|---|---|---|
| `TypeCorrect` | `TypeOK` | the rest of `IInv`: what a request brings into a row is what it planned |
| `QuotasAgreeAlways` | `QuotasAgree` | `Consistent`, `Alone`, `RowsAlone`, `Planned`, `RulesFollow`, `UsageKept` |
| `PauseIsHeld` | `PauseHolds` | `Planned` |

`Alone`, `RowsAlone` and `Planned` carry the argument: two requests hold different accounts and have written
different rules, and what a request will make of an account (a row with a byte more, a reset usage) was
read under its locks (`Locked`), so that it still is what the row says when it commits. `Wrote` says the same
of the rules: what a request has written is what it would write now (`After`), because nobody else can have
written those rules since; so a commit is compared with the rules as they are at the commit, and what
became of them between the writing and the commit can only be among those not written, which are `Missed` or were not
listed. Only a profile save plans without the lock, and its commits are what `overwritten` and `crossed` name.
`Consistent` (the tenant is blocked just when its quota is used up) is needed because a
tenant is exhausted by its flag or by its usage, and only the flag says that rules were stopped.

`DpiFlow_proofs` proves, for any policies, table sizes, numbers of packets and connections, faults
and late requests, from `DpiConstants` (kinds only: neither side's limit of packets is related to the other's) and
`NoneIsNoRecord`:

| Theorem | States | Strengthening |
|---|---|---|
| `TypeCorrect` | `TypeOK` | `Counted` |
| `VerdictsAreOwn` | `OwnVerdict` | `Owned` |
| `VerdictsFollowPolicy` | `VerdictsAreDue` | `InStep`, `Counted` |
| `TableStaysSound` | `TableSound` | `Listed` |

`Counted`: a connection that may be inspected has a packet left, and so has a flow that is not final.
`Owned`: a flow ID not left over belongs to one connection, which the agent's record, the sidecar's flow and
the requests still under way agree on, and one not given yet is unknown everywhere. `InStep`: a flow with
packets of a connection has as many as the agent had answers for, unless the connection has its
verdict or is `disturbed`; with `Counted` it gives that the agent's last packet is not before the
sidecar's, where the sidecar's limit is at most the agent's. `Listed`: the sidecar's list is the list of its flows, each once, by age; this is proved of
`Expire`, `EnsureCapacity` and `RemoveFlow` one by one, over any list.

The proof of `InStep` failed first, and for a reason: a late request of an earlier agent process can make
the sidecar begin again, under the same ID, a flow that expired half-way. The instance of
`DpiFlows` is too small for it, one with three packets has the counterexample; the history
`disturbed` now covers it.

What the prover does not reach, and only TLC checks, is liveness under fairness:
`Converges`, `BufferEmpties`, `DrainEnds`, `ShutdownEnds`, `UninstallEnds`, `ProbeSettles`,
`FlowsForgotten`. That the bounds of section 4 are enough matters for these alone.

## 6. Not modelled, and why

* Roles and sessions of administrators. In `ConfigSync` a write is any allowed write; grants,
  ports and quotas decide in `PortLeases` and `Quota`.
* In `PortLeases`: port ranges of grants and groups, bind addresses (the in-use check ignores
  them, which only refuses more), tenant grants, administrators without grants, deletion of tunnels
  and groups (their counts are taken without a lock), the choice of a free port.
* In `Quota`: creation and deletion of users and tenants, their status and expiry, rules' own byte
  counters (an update of the rule saves the ones it had read), sums over several rules of a
  report, hourly buckets.
* In `Listeners`: rules that exchange ports, the status report, token buckets, first-packet
  inspection, the copying of bytes.
* In `NodeLifecycle`: an agent upgraded in place (its version decides whether it sends a final
  receipt), device groups, what a heartbeat reports besides.
* In `LineProbe`: circuits, endpoints and bindings (tables with reference checks and no
  other state), the measurement, samples and their pruning.
* In `DpiFlow`: the recognition of protocols from bytes, matching of names and groups, how often a
  violation is reported, the heuristic engine (it keeps nothing), the health probe.
* The login limiter (`server.go:243-376`): one map under one mutex, whose only interleaving is the
  order of attempts.
* Expiry of accounts inside `activeAgentRules`, which changes an answer without a write.
* The order of `updated_at` and the bump in handlers that take them one after
  the other in one transaction: one number stands for both. The bump is the later
  of the two, so a node is told at least as often as in the model.
* More than one node: nodes share the tables but have a row each; nothing in the
  protocol relates two nodes.
* Byte formats, JSON, YAML rendering, logs, metrics, the web panel, deployment
  scripts, cryptography, the nDPI library.
* The gost supervisor: its `Apply` has no caller.
