# TLA+ models of the Maistra listwatch adapter and of IOR route sync

This directory holds TLA+ models of parts of this repository and the TLC runs
that check them. `PROJECT.json` lists the components, the runs, the map from
each definition to the source lines it models, the findings and the hazards.
Run a check with `tlc -workers 2 -config <cfg> MC_ListerInformer` (or
`MC_IorRoute` for the `Ior*.cfg` files).

## 1. Inventory

### Components

| component | source | state | operations |
|---|---|---|---|
| **listerInformer**, the partition adapter (the core) | `src/pkg/listwatch/listinformer.go` | `draining` (under `lock`); the channels `stoppedInformer` and `listerHasStopped`; `stopInformerOnce`, `stopListerOnce`; the wrapped informer and lllw | `newListerInformer`, `hasSynced`, `isDraining`, `isStopped`, `drain` plus its goroutine, `stop`, `stopInformer`, `stopListerInformer`, `newWatchEvent`, `sendEvent`, `OnAdd`, `OnUpdate`, `OnDelete` |
| **listLenListerWatcher**, the counting source | not in this snapshot (spec 4.1) | `listCount`, `addCount` | `List` (records the count), `incAddCount`, `hasReachedListCount` |
| **client-go shared informer** | vendored, not under `src/` | reflector (list/watch), DeltaFIFO (queue, items, initial population), indexer, processor listener buffer | ListAndWatch, watch events, re-List on expiry, `Replace` with tombstones, `processLoop`/`HandleDeltas`, listener delivery, shutdown |
| **aggregator and higher-level cache** | not in `src/` (out of scope, spec 1) | the set of adapters; the merged cache | calls `drain`/`stop`; receives events through the `events` sink |
| **IOR route manager** | `src/pilot/pkg/config/kube/ior/route.go` | `gatewaysMap` (gateway to its routes), `namespaces`, `namespaceLock`; routes held by the route API | `newRoute`/`initGateways`, `syncNamespaces`, `SetNamespaces`, `syncGatewaysAndRoutes2` (add/update/delete), `syncGatewaysAndRoutes` (full resync), `createRoute`, `deleteRoute`, `findService`, `findConfig`, `getHost`, `hostHash` |
| **IOR fake route client** | `src/pilot/pkg/config/kube/ior/fake.go` | routes per namespace, the global `generatedHostNumber` | `Create` (assigns a generated host to an empty one), `Delete` (fails on a missing route), `List` |
| generated informers, listers, clientsets; test fixtures | `src/vendor/...`, `src/pkg/servicemesh/client/...`, `src/pilot/pkg/networking/core/v1alpha3/fake.go`, `src/mec/pkg/server/worker_test.go` | none of their own | accessors and constructors. `v1alpha3/fake.go` is commented out. The mec `Worker` that the test drives is not in this snapshot. |

### How they interact

`newListerInformer` builds a shared informer over a `listLenListerWatcher` and
registers itself as the informer's event handler. It then starts
`informer.Run(stoppedInformer)` on its own goroutine. From then on, four kinds
of goroutine share state:

- the **reflector** Lists the namespace, `Replace`s the DeltaFIFO and then
  watches it. An expired watch makes it List again. That re-List produces
  `DeletedFinalStateUnknown` tombstones for objects whose delete was missed.
- the **controller's processLoop** pops one key at a time. It applies the
  key's deltas to the indexer, the store that `drain` snapshots, and queues
  notifications on the listener's buffer.
- the **processor listener** calls `OnAdd`/`OnUpdate`/`OnDelete`. These
  translate each notification into a `watch.Event` and pass it to the
  `events` sink, the higher-level cache. `OnAdd` also counts the ADDED
  event in lllw.
- the **callers** (the aggregator) call `drain()` or `stop()`. A `drain`
  that sets the flag starts the **drain goroutine**. It snapshots the store,
  sends a DELETED event for each object through the same `OnDelete`, closes
  `listerHasStopped` and calls `drained(namespace)`.

`hasSynced()` is the informer's `HasSynced` (the FIFO's initial population
has been popped) *and* `addCount >= listCount`.

### What is hard

- `drain` closes `stoppedInformer` and returns. It does not wait. The
  informer shuts down in stages. The reflector may still take watch events,
  because its `select` races `stopCh`. `processLoop` keeps popping until
  the FIFO is empty. Only then does the processor stop, dropping whatever
  the listener still buffers. All of this runs concurrently with the drain
  goroutine.
- The listener runs behind the indexer: the store can hold objects whose
  ADDED event has not yet been passed on, and can lack objects whose DELETED
  event has not been.
- Sync is derived from two counters kept by different goroutines, across
  watch expiries and re-Lists.
- `stoppedInformer` is closed by two paths (`drain`, `stop`), and only one of
  them goes through a `sync.Once`.
- In IOR: partial failure while creating one route per host, error
  accumulation, nil dereference on an unknown gateway, loop-variable
  aliasing. Several callbacks (gateway events, member-roll namespace
  changes) serialise on `namespaceLock`.

### What makes each component correct

- listerInformer:
  - the events rebuild the server's state;
  - a known object never gets a second ADDED;
  - hasSynced means the initial List has been passed on, and never regresses;
  - drain runs once, completes, delivers nothing after the stop signal, and
    leaves the higher-level cache empty for the namespace;
  - drain and stop are idempotent and never panic.
- IOR: every host of every known gateway eventually has exactly one route,
  and no generated route outlives its gateway. Errors are reported, not lost.
  A delete of an unknown gateway is an error, not a crash.

## 2. Modules

| module | models | state (VARIABLES) | actions |
|---|---|---|---|
| `Informer` | the client-go informer, as far as listerInformer depends on it (spec_modelled) | `server`, `changes`, `refl`, `watchQ`, `relists`, `fqueue`, `fitems`, `populated`, `initPop`, `indexer`, `proc`, `pending`, `stopCh` (= `stoppedInformer`) | `ServerWrite` (environment), `ReflectorList`, `ReflectorWatchEvent`, `WatchExpire`, `ReflectorExit`, `ProcessPop` (`Pop` + `HandleDeltas`), `ControllerExit`, `ProcessorStop` |
| `ListerInformer` | `listinformer.go`, with lllw and the sink; EXTENDS `Informer` | `draining`, `listerStopped`, `stopOnce`, `drainer` (drain goroutine pc), `toDrain`, `drainedCalls`, `called`, `panicked`, `listed`/`listCount`/`addCount` (lllw), `consumer`/`sent`/`addedEver` (sink), `initialList` (history) | `ListAndRecord` (List through lllw), `ListenerDeliver` (`OnAdd`/`OnUpdate`/`OnDelete` with `newWatchEvent`, `sendEvent`), `Drain(c)`, `Stop(c)`, `DrainSnapshot`, `DrainDelete`, `DrainClose`, `DrainNotify` |
| `AdapterLifecycle` | what spec 4.3 promises of an adapter's lifecycle (abstract; models the spec, not code) | `phase` (Running, Draining, Stopped), `via` (how Stopped was reached), `drained` (callback count) | `BeginDrain`, `HardStop`, `FinishDrain`, `NotifyDrained`; weak fairness on the last two |
| `MC_ListerInformer` | model values for TLC | | |
| `IorRoute` | `route.go` with the `FakeRouter` of `fake.go` as route API | `store` and `events` (config store and its handler queue, environment), `routes` (the route API), `gwMap` (`gatewaysMap`), `namespaces`, `calls`, `restarts`, `result` (did a step of the last call fail; did it return an error) | `GatewayWrite` (environment), `HandleEvent` (`syncGatewaysAndRoutes2`: `HandleAdd`, the Update TODO, Delete, the nil-entry panic), `SetNamespaces`, `FullSync` (`syncGatewaysAndRoutes`), `Restart` (`newRoute`/`initGateways`) |
| `MC_IorRoute` | model values for TLC | | |

Correspondence and abstractions:

- Objects are keys (model values). Their contents, names and namespaces are
  not modelled, since no property depends on them. A delta or notification
  carries `[o, tomb]`, where `tomb` marks a `DeletedFinalStateUnknown`.
- `newWatchEvent` unwraps the tombstone. The `runtime.Object` check that
  follows always succeeds for what the informer delivers. The model keeps
  the check (`NoEvent`), so a mutant that skips the unwrap shows what it
  would drop.
- Closing a closed channel is a Go panic. The model sets `panicked`, and no
  step follows it.
- The sink is the higher-level cache: `consumer` adds ADDED/MODIFIED keys
  and removes DELETED ones. `sent` flips on every event passed to the sink;
  only whether a step sends something matters.
- The DeltaFIFO follows `Replace` of the client-go this tree was built
  against (before v0.27): a tombstone only for keys of the indexer that are
  missing from the new List. A key that is only queued gets none. It also follows
  `dedupDeltas`, the skip of a `Delete` for an unknown key,
  `initialPopulationCount`, and a `Pop` that keeps popping a closed but
  non-empty queue.
- Resync is left out: `resyncPeriod` is 0 in every caller and test.
- The `listLenListerWatcher` source is not in this snapshot. Following spec
  section 3, the model fixes `listCount` at the first List.

Refinement. `ListerInformer` defines
`Lifecycle == INSTANCE AdapterLifecycle WITH ...`. The mapping is:

- `phase` is `"Stopped"` once `listerHasStopped` is closed. Otherwise it is
  `"Draining"` once the drain flag is set, and `"Running"` before that.
- `via` is `"drain"` if the drain flag is set, `"stop"` if only
  `stopInformerOnce` has fired, and `"none"` otherwise.
- `drained` is the number of `drained` calls.

`LifecycleRefined == Lifecycle!LSpec` is checked as a PROPERTY in `li_live`.
It covers both safety and liveness:

- no skipped state, except the direct Running to Stopped of `stop()`;
- the callback comes only after `listerHasStopped` closes, which holds
  because the deferred calls run LIFO;
- exactly one callback, and only for a drain;
- the drain eventually completes, under the drain goroutine's fairness.

Construction (Created to Running) is `Init`: `newListerInformer` starts
the informer before it returns. Spec 4.3 also says that "no transition
skips a state", yet it describes `stop()` as closing both channels at once.
The abstract spec follows the description of `stop()`. A drain after a stop
is outside `li_live`, which has one caller. It panics in the code
(`li_stop_drain`).

IOR correspondence and abstractions:

- Each route.go handler holds `namespaceLock` for its whole body, so it is one
  action.
- `createRoute`, `deleteRoute`, `findService`, `findConfig`, `getHost`,
  `hostHash` and the route name are operators. The route name keeps the
  `Sprintf("%s-%s-%s")` concatenation. The "*" and "*.d" host rewrites are
  kept, and `hostHash` is an injective encoding that sends "" to "star".
- `findService` is reduced to one fact: is the namespace of the service
  that selects the gateway's pods in `r.namespaces`?
- A route holds its namespace, its name, its gateway labels, its
  resourceVersion label and its original-host annotation. Spec.Host, TLS
  and the port are left out: no branch reads them back.
- `syncNamespaces` takes `&route` of its range variable. The constant
  `LoopVarPerIteration` chooses the toolchain's semantics:
  - Go 1.22 and later gives each iteration its own variable.
  - Before 1.22, every appended pointer ends at the last listed route,
    in the fake's map order.
  This tree's toolchain is before 1.22, so the passing run `ior_full` uses
  the shared variable (`LoopVarPerIteration = FALSE`).
- The caller of the handlers (ior.go) is not in this snapshot. The model
  assumes the config store emits one event per write, in order. After a
  restart, the queued events are gone, and the new informer delivers an Add
  for every gateway it holds.

## 3. Runs

All runs use `MC_ListerInformer`: two objects `o1, o2` and up to two
callers. `MaxRelists` is 1, except in `li_live`, where it is 2. The initial server holds any subset of the objects.

| run (cfg) | expect | properties | what it shows |
|---|---|---|---|
| `li_drain` (`ListerInformerDrain.cfg`; 2 callers, 2 writes) | pass | `TypeOK`, `ConsumerMirrorsIndexer`, `DrainIdempotent`, `AddedOnlyForNew` | Whenever the informer is watching and quiescent, the higher-level cache holds exactly the informer's store, across a watch expiry and re-List with its tombstones. A known object is never ADDED twice. Concurrent drains run the drain sequence once. |
| `li_live` (`ListerInformerLive.cfg`; 1 caller who may `stop`, 1 write, 2 re-Lists) | pass | `SyncedImpliesInitialDelivered`, `EventuallySynced`, `LifecycleRefined` | With one server write, `hasSynced()` implies every listed object was passed on as ADDED. The race of `li_early_sync` needs a delete and a re-add. The informer's `HasSynced` alone does not imply this, and that is the mutant. Under fair scheduling the adapter syncs unless it is stopped first. `drain()`/`stop()` implement `AdapterLifecycle`: a drain, even one racing live deliveries, reaches Stopped and then calls `drained` exactly once. |
| `li_early_sync` | violation | `SyncedImpliesInitialDelivered` | A delete and re-add of a listed object, merged into its FIFO entry before the pop, gives two ADDED events for one key. `hasSynced()` then turns true while another listed object is still in the listener's buffer. |
| `li_leak` | violation | `NoEventAfterStopped` | After `drain` closes `stoppedInformer`, `processLoop` pops the rest of the FIFO and the listener delivers it. Events reach the sink after the drain goroutine has closed `listerHasStopped`. |
| `li_stale_view` | violation | `DrainedViewEmpty` | An object indexed after the drain's store snapshot is ADDED to the higher-level cache and never deleted. |
| `li_stop_drain` (`CallStop = TRUE`, 2 callers) | violation | `NoPanic` | `stop()` then `drain()` (or the reverse) closes `stoppedInformer` twice: a panic. Spec 7 says this is a no-op. |
| `li_relist_gap` (`ListerInformerRelistGap.cfg`; 1 caller, 2 writes) | violation | `ConsumerMirrorsServer` | o2 is listed, its Sync still queued; the server deletes it and the watch expires before the DELETED is read. The re-List neither lists nor tombstones o2, so it is popped, ADDED and kept by the higher-level cache for good. |
| `ior_full` (`IorFull.cfg`; 6 calls, adds full resyncs and one restart) | pass | `TypeOK`, `FullSyncReconciles` | With every handler and a restart, and the shared range variable of this tree's Go, a full resync none of whose route calls fails leaves every host of every gateway with a route at the gateway's current resourceVersion, and no stale route in the member namespaces. This is the only repair path for failed creates and for the EventUpdate TODO. |
| `ior_alias` (`IorAlias.cfg`; shared range variable) | violation | `NoForeignDelete` | With a shared range variable, `SetNamespaces` points gw1's entry at gw2's route, and gw1's delete removes it. |
| `ior_lost_error` (full resync) | violation | `ErrorsReported` | gw2's `createRoute` fails and gw1's succeeds after it, and `syncGatewaysAndRoutes` returns nil. |
| `ior_untracked` (full resync, one restart) | violation | `RoutesTracked` | A restart while gw1's delete is queued leaves gw1's route behind, in no entry. No later event removes it; only a full resync deletes it as stale. |
| `ior_name_collision` (`IorNameCollision.cfg`; gateways `team-a/web` and `team/a-web`, host "*", 3 calls) | violation | `NoForeignDelete` | Both gateways get the route name `team-a-web-<hash>`. The second Create replaces the first gateway's route, and the delete of either gateway removes the route that the other still serves. |

**Bounds.** Two objects are enough for every race found, and two writes are
enough for a delete and re-add of a listed key. One watch expiry produces
tombstones and the re-List MODIFIED events. Two callers make the drain race.
Each violation appears within at most 11 steps. The passing `li_drain` run
explores about 1.5M states in under a minute. The liveness run uses one write
and one caller to stay within the time limit. It allows two watch expiries,
so that the drain and sync races can meet a second re-List and its
tombstones. That run takes about 270k states and two minutes.

For IOR, two gateways are used:
- gw1 sits in the control-plane namespace, with a plain host and a wildcard
  host.
- gw2 sits in a member namespace, with the "*" host. Its `createRoute`
  fails until the member roll adds that namespace.

`ior_full` allows six calls, enough for:
- an add, an update and a delete;
- a member-roll change;
- two resyncs;
- one restart.

The violation runs keep five calls. That is already enough for their
traces. `ior_name_collision` needs only three: two adds and a delete. The IOR model is a
safety model only: its handlers are driven by the environment, and it
assumes no fairness.

**Fairness.** Weak fairness on each goroutine's step: the reflector (List,
watch event, exit), `processLoop`, the processor's shutdown, the listener's
delivery and the drain goroutine. Go's scheduler runs every runnable
goroutine. The API server, watch expiry and the callers are the environment,
so they get no fairness. The sink is assumed to accept every event
eventually: `sendEvent` blocks on it (hazard at `listinformer.go:159`).

**Deadlock** is not checked (`CHECK_DEADLOCK FALSE`). After a drain or stop,
every goroutine of the adapter exits and the system really stops. Progress
is stated by the liveness properties instead.

Every property of a passing run has a mutant in `PROJECT.json`: a plausible
bug in the mapped code that TLC finds violating it. Examples are a
`newWatchEvent` that does not unwrap tombstones, a `drain` without the
`draining` early return, and a
`HandleDeltas` that re-adds known objects.

## 4. Findings

See `PROJECT.json` "findings". In short:

- `hasSynced` counts ADDED events rather than listed objects (`li_early_sync`).
- `drain` does not wait for the informer to stop, so events leak after the
  stop signal (`li_leak`) and the higher-level cache may keep an object of a
  drained namespace (`li_stale_view`).
- `stop` and `drain` together panic (`li_stop_drain`).
- The informer of this era's client-go never tombstones an object that is
  only queued when it is deleted across a watch gap, so the adapter passes
  it on as ADDED and never as DELETED (`li_relist_gap`).

- `syncNamespaces` appends `&route`. With pre-1.22 Go, a gateway delete can
  remove another gateway's route (`ior_alias`).
- Route names join namespace, gateway name and host hash with "-", which
  names may contain. Two gateways can share a route, and the delete of one
  removes the other's (`ior_name_collision`).
- `syncGatewaysAndRoutes` loses errors to `result = multierror.Append(err)`
  (`ior_lost_error`).
- After a restart, orphaned routes are logged as removed but kept
  (`ior_untracked`).

## 5. Not modelled

- **The aggregator and the higher-level cache** are not in `src/`; spec 1
  puts them out of scope. They appear only as the callers of
  `drain`/`stop` and as the sink (`consumer`). A composition of two
  adapters feeding one cache would give each adapter its own informer,
  reflector, FIFO and listener. That roughly squares a state space which
  already reaches 1.5 million states for one adapter with two writes. The
  per-namespace properties already fail for one adapter (`li_leak`,
  `li_stale_view`), so two adapters would add no new question.
- **listLenListerWatcher and client-go** are not in this snapshot. They are
  modelled from spec 4.1 and from the library's contract, and only as far
  as `listerInformer` depends on them.
- **The IOR caller (ior.go)** is not in this snapshot. That covers the
  informer registration, the resync schedule and the member-roll
  controller. Without it, the model cannot say:
  - whether a failed `createRoute` is ever retried;
  - whether a delete can arrive for a gateway the map does not know (the
    nil dereference at `route.go:223`).

  `FullSyncReconciles` states what a resync repairs.
- **Omitted from route.go and fake.go:**
  - `NewRouterClient` builds a client from kubeconfig, which is pure I/O.
  - `gatewaysLock` is declared but never taken.
  - The fake's `Update`, `UpdateStatus`, `DeleteCollection`, `Get`,
    `Watch` and `Patch` panic "not implemented", and route.go never calls
    them.
  - The generated-host counter only fills `Spec.Host`, which IOR never
    reads back.
- **Generated informers, clientsets and test fixtures** have no state
  machine of their own. `v1alpha3/fake.go` is wholly commented out.

## 6. Plan

Done:

1. `Informer` and `ListerInformer`: the adapter's whole state machine,
   with the informer behaviour it depends on.
2. `IorRoute`, with the fake route API, including the route-name collision
   (`ior_name_collision`) and the full-resync reconciliation property.
3. `AdapterLifecycle`, with `ListerInformer` shown to implement it (see
   "Refinement" in section 2).

Open:

4. Two gateways with distinct names and one host, for the host-keyed
   `routesMap` of the full resync (`route.go:271`). `FullSyncReconciles`
   would state it, once a run instantiates such gateways.
5. If ior.go becomes available: the caller's resync schedule, which would
   justify fairness for a liveness property about failed creates.
