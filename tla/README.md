# TurboHaul manager: TLA+ models, model checking and proofs

TurboHaul accepts OpenAI- and Ollama-shaped chat requests over HTTP, queues them,
and serves them on `llama-server` child processes ("sidecars") that share one GPU.
This directory models the part of the program where its difficulty lies, the
asyncio manager: the request queue, the single-sidecar worker, the multi-sidecar
dispatcher with its drivers, and their shutdown; and the three stores around it whose
writers race: the table of slots, the manifests and blobs on disk, and the buffers of
the live view. Source references are relative to
`src/turbohaul/` (`manager.py`, `queue.py`, ...).

## 1. Inventory

| Component | State it keeps | Operations | Talks to |
|---|---|---|---|
| Request queue (`queue.py`) | staging deque, acceptance buffer, run length of the last model, closed flag; per slot: state, eviction flag | `enqueue`, `enqueue_head`, `pop_next`, `pop_matched_thread`, `remove`, `close` | routes enqueue through `submit`; worker or dispatcher pops; fan-out and requeue tasks push back |
| Single-sidecar worker (`worker_loop`, `_process_slot`, fan-out; `max_parallel_sidecars` = 1) | active slot and handle, idle holder with its expiry, rider list | pop, warm inherit, model swap, gates, spawn, health, serve, fan out, drain, grace match, hold warm, tear down, `_force_cold` | queue, sidecar processes, streaming routes (two events per slot), detached idle teardown |
| Dispatcher and drivers (`_dispatch_loop`, `_drive_resident`; two sidecars or more) | registry of residents, each with state, inbox, active slot, riders, process reference; detached tasks | route, reserve, evict, defer, requeue, spawn, serve, fan out, idle, reap | queue, sidecar processes, detached tasks, shutdown |
| Shutdown (`shutdown`) | stop flag, phases | stop, cancel worker or drivers, drain tasks, close queue, tear down the holder | all of the above |
| Grace and idle timers (`queue.py`) | deadline, extension count | `start`, `matches`, `restart_for_followup` | `submit`, `_process_slot` |
| Slot state machine (`fsm.py`, `slot.py`) | the table of legal transitions | `transition` | queue, worker, drivers |
| State database, audit, sweeper, boot reconciliation (`state.py`, `manager.py`) | one row per slot, audit events | insert, upsert (in a thread), mark ended, sweep, reconcile | every handler; exit and restart |
| Process control (`subprocess_mgr.py`) and orphan scans (`singleton.py`) | processes, ports, pid file | spawn, health probe, SIGTERM/SIGKILL, scan | worker, drivers, boot |
| Manifest store (`manifest.py`, `api/manifests.py`) | one revisioned YAML file per model | read, write with If-Match, delete | routes, worker |
| Blob store, pull, import (`blob_store.py`, `api/pull.py`, `api/import_.py`) | content-addressed files, files under `incoming/` | stream, sync, rename, seal, delete | routes |
| Routes (`api/`) | per request: disconnect event, ready and done events | submit, stream, disconnect watch | manager |
| Safety gates, GPU back ends | none | pure estimates and probes | worker, dispatcher |
| Live monitor and live stream (`live_monitor.py`, `api/live_stream.py`) | published generation blocks, one text buffer per generation, a bounded queue per browser | poll `/slots`, tee, publish, follow, evict | manager (read only), streaming routes, browsers |
| State websocket, telemetry, dashboard | snapshots | observe | manager (read only) |

What is hard here, and what makes each part correct:

* **Interleaving at awaits.** One event loop runs every task, so code between two
  awaits that suspend is atomic and everything else is not. Drivers, detached
  teardowns, requeue tasks and shutdown meet between two lines of the same
  function. Correct means: a request whose caller waits belongs to exactly one
  owner, a process belongs to someone who will stop it.
* **Partial failure.** Gates refuse, spawns raise, sidecars never get healthy or die
  in service, clients leave. Each must end in an answered caller, a slot in a
  terminal state and no process left.
* **Ordering.** Two tiers, head inserts, push-backs, grace matches and model
  affinity all reorder requests. Correct means: bounded overtaking, no starvation.
* **Cancellation and shutdown** at any await.
* **Liveness.** Drains, admission polls and idle windows wait for one another.
* **Crash and restart.** A row is written by handlers, by threads that outlive a
  cancelled await, by the sweeper and by the next boot. Correct means: ended only when
  the request is over, and never open for ever. A file is replaced in several system
  calls. Correct means: no acknowledged write lost, nothing torn.
* **Stale state.** ETags, debounced anchors and captured residents are used after an
  await. Correct means: what they refer to is still what the reader saw, or newer.

`PROJECT.json` lists the hazards with their lines and the properties that watch them.

## 2. Modules

| Module | Role |
|---|---|
| `SlotPool` | abstract specification: what the queue promises its callers |
| `TurbohaulQueue` | the two-tier queue, one action per method, and its properties |
| `QueueFairness` | the queue with a history variable counting overtakings |
| `SequenceLemmas` | lemmas about `SequencesExt` operators used by the proofs |
| `TurbohaulQueue_proofs` | theorems about `TurbohaulQueue` and `QueueFairness` |
| `Dispatcher` | the path for two sidecars or more |
| `Dispatcher_proofs`, `DispatcherOwner_proofs` | its capacity; who owns a request or a process |
| `WorkerLoop`, `WorkerLoop_proofs` | the path for one sidecar; theorems |
| `RowLife` | abstract specification: what the table of slots promises its readers |
| `SlotRecords`, `SlotRecords_proofs` | the table of slots beside the life of each request; theorems |
| `ModelStore`, `ModelStore_proofs` | manifests and blobs on disk, system call by system call; theorems |
| `LiveMonitor`, `LiveMonitor_proofs` | generations, their published anchors and text buffers, and the browsers following them; theorems |
| `MC...` | the instances for TLC |

**TurbohaulQueue.** `staging`, `acceptBuf`, `consecutive`, `lastPopped`, `closed` are
the fields of the class; `state`, `evicted` the slot's. Every method runs under
`self._lock` and awaits nothing inside, so a method is one action. A slot is the
number of its arrival, because `submit` creates and enqueues it in one step; `aged`
says up to which slot `max_other_model_wait_s` has passed, which is how the model
speaks of time. `held` holds the slots a caller has popped and answers for.
Arguments range over all they can be: any warm hint, any thread.

**SlotPool** has only `waiting`, `held`, `gone` and `open`. `TurbohaulQueue`
instantiates it (`RefinesPool`) with both tiers mapped to `waiting`.

**Dispatcher.** A resident is named by the slot it was reserved for. `res[r]` is the
`Resident` together with its driver task, whose await is `pc`; `bg` is the set of
detached coroutines; `shutdown`, `awaited`, `draining` the phases of `shutdown()`.
The critical sections of `_registry_lock` do not suspend and are part of the step
that reaches them. Which queued slot is popped, which evictable resident is least
recent and whether VRAM suffices are choices. `InlineWaitFor` says whether
`asyncio.wait_for` awaits in the caller's task (Python 3.12) or in an inner task
(3.11, which the project also supports).

**WorkerLoop.** `pc` is the await at which the worker is suspended, `slot` the anchor
in `_process_slot`, `other` the matched follow-up or the rider being admitted,
`active`, `idle`, `inflight` the manager's fields; `proc` is the set of
`llama-server` processes, each named by the slot it was spawned for. `svc[s]` is
the exchange of slot s with its sidecar, run by `_complete_fn` or, once
`stream_ready_event` is set (`ready`), by the route. Consecutive awaits between
which no other task can see a difference are one. The detached teardown of an
expired holder takes its first step (holder cleared, SIGTERM sent) before the
worker looks at the holder, so that step belongs to the tick that schedules it. Branches for drift of a slot's state are
unreachable with one mutating task and are left out, as are failures of sqlite.
`MCWorkerLoop` gives the slots their model, thread and stream flag.

The queue is not composed with the worker or the dispatcher: both see it as a set or
sequence from which any slot may be popped, which allows everything the queue does.

**SlotRecords.** `mem[s].at` is the await at which the handler of slot s is suspended,
`mem[s].state` and `mem[s].pid` the slot's fields; `row[s]` is its row, of which only
the columns somebody reads are kept (state, pid as "is it NULL", `ended_at` as a
boolean). An await of an audit is a place of its own because the upsert runs in a
thread: between the call and its return other handlers, the sweeper or an exit may
come, and a thread survives the cancellation of its await (`Exit` lets any audit
under way be written or not). `multi` says which of the two serving paths this start
of the manager runs: they write different rows, see below. `PatientSweep` says whether
`background_sweep_min_age_s` outlasts every request, as its default of a day does.
`RowLife` has only a stage per row and the set of requests still to be worked on;
`SlotRecords` instantiates it (`RefinesRowLife`).

**ModelStore.** Beside the content of each path (`file`, `blob[h]`) stands what a power
failure may leave of it (`fileLoss`, `blobLoss[h]`): a rename or unlink adds to that
set, fsync of the directory and the kernel's writeback make it a singleton, and a file
renamed before its data was synced may come back torn. `put` is the
`write_manifest_atomic` under way and `pull[p]` a pull or import: their commits do not
await, so no other request runs between their system calls (`LoopFree`), but a kill or
power failure may. `ver` numbers the versions ever written; the program has only the
revision, which starts again when a tag is deleted.

**LiveMonitor.** A generation is a number given in order of service. The metrics plane
publishes the anchor (`primary` at one sidecar, `gens[t]` per resident), the text plane
keeps `bufs` in LRU order, and a `reader` follows the anchor. `poll[t]` is what a poll
captured before its await; `handles` lets a dead resident's answer arrive late.

## 3. Runs

TLC explores every interleaving within the bounds. `CHECK_DEADLOCK FALSE` is used
everywhere because the number of requests is finite and the system comes to rest.

| Run | Instance | Question | States |
|---|---|---|---|
| `queue_safety` | 4 slots, 2 models, caps 2+2, one head insert, one disconnect, symmetric models and threads | is every slot in one place and in the state of its tier; are tiers bounded; does an aged head go next; does a popped slot carry its eviction flag; is `SlotPool` implemented | 727 k |
| `queue_fairness` | 4 slots, caps 2+1, run cap 1 and 2 | how often is the head overtaken; is every queued slot served | 153 k |
| `dispatcher` | 4 requests, 3 models, 2 sidecars, one fallible slot | is a waiting request owned exactly once; is capacity kept; is only an idle resident evicted | 1.4 M |
| `dispatcher_shutdown` | 3 requests, 2 sidecars, shutdown at any step | is everyone answered; is any process left | 476 k |
| `dispatcher_lost_slot` | as `dispatcher`, Python 3.11 `wait_for` | is a waiting request still owned (violated) | small |
| `worker_serial` | 3 requests, 2 models, 2 turns of one thread, late stream events, shutdown at any step | is a process ever lost or a second one spawned beside it; does shutdown stop all | 311 k |
| `worker_fanout` | 4 requests, width 2, streaming or not, shutdown at any step | are riders parked, owned, answered and spared; does the warm holder get released | 335 k |
| `worker_overlap` | 2 requests, no failures | is there ever a second process (violated) | small |
| `worker_stream_error` | 2 streams, one may fail | does a stream's caller hear of its failure (violated) | small |
| `slot_records` | 3 requests, one or more sidecars, one exit, a patient sweeper | is a row ended only when its request is over, and then for good; does it end at all; what does a boot leave open | 251 k |
| `model_store` | 2 editors, 3 versions, 2 pulls of one content, one kill or power failure | is an update or an acknowledged write ever lost, a file torn, a partial download left | 2.1 M |
| `live_monitor` | one model loaded twice, 2 generations, 2 browsers, one buffer | is a watched buffer ever evicted; does a pane go back to, or stay with, an ended generation | 199 k |

**Bounds.** Two models and two sidecars are enough for a conflict, a third model for an
eviction; three requests of one model fill a sidecar of width two and leave one
waiting; four slots fill both tiers of the queue and overflow them. `Fallible` names
the slots that may fail or leave: one such slot (two in `worker_serial`) meets every
failure path, since each path involves one failing slot and innocent bystanders.
`MaxHeadInserts`, `MaxDisconnects`, `MaxDefers` and `NumSlots` cap counters.
`dispatcher_shutdown` takes `MaxDefers` 0; with 1 it has more than twice the states
and the same answer. In `slot_records` three requests give an anchor, a rider or match
beside it, and a queued bystander; `MaxExits` 1 gives two starts of the manager, and
the proofs cover any number. In `model_store` three versions are a create, an update
and one more by the other editor, also across a delete; two pulls of one hash meet in
one path. In `live_monitor` one buffer (`MaxKeys`) makes the second generation evict the
first and queues of one item (`QueueMax`) drop the second; `HoldTicks` is the code's 3.
With two models safety was checked once (2.1 M states); liveness there is too slow to
keep.

**Fairness.** In the queue: a worker that pops when something is queued, and finishes
what it popped. In the dispatcher: the event loop does not idle while a task can run;
no per-task fairness is needed. In `WorkerLoop`: the same for the worker, and each
exchange ends, a signalled process exits (`drained_sigterm` kills it after its
window), events are created, the holder's clock runs out. Nothing requires a client
to come or to leave, a process to fail, or shutdown to be called. In `SlotRecords`:
handlers go on, time passes, the sweeper runs, a supervisor restarts the manager. In
`LiveMonitor`: the tick of the poller goes on (a poll of `/slots` has a timeout) and a
connection looks at its anchor at least once a second (its queue read has a timeout);
no stream needs to end. With finitely many
requests any pop order is starvation free; the queue's own order is
`queue_fairness`'s subject.

## 4. What the violated properties show

* `dispatcher_lost_slot`: on Python 3.11 the slot that `wait_for` has fetched from the
  inbox belongs to nobody while the dispatcher evicts the resident; the driver then
  drops it (manager.py:1783). With 3.12 semantics the property holds.
* `worker_overlap`: an expired holder is torn down by a task nobody awaits
  (manager.py:1022); the next slot sees no holder and spawns on the same port while
  the old process lives. `OneUnsignalled`, which holds, is the weaker promise: never
  two that nobody has signalled.
* `worker_stream_error`: a streaming route waits for `stream_ready_event` only
  (chat_completion.py:734); a slot that fails before ACTIVE fails its future, which
  no route awaits, and the client gets keep-alives for up to two hours.

Seen while modelling, and not a run of their own:

* `pop_matched_thread` (queue.py:291) does not refill staging, although queue.py:31 says
  "buffer feeds staging tail when staging has room": a buffered request is overtaken by
  a later arrival. `queue_fairness` shows it is still served.
* `_requeue_slots_or_fail` (manager.py:1275) inserts a batch at the head one by one, so it
  comes back reversed, where manager.py:1266-1267 says "IN ORDER".
* At one sidecar, shutdown cancels the worker without failing the future of the slot
  in service (only matched slots and non-streaming batches are failed), so the
  answered-caller properties of `WorkerLoop` end at a shutdown.
* `submit_for_streaming` creates the two events after `submit` returned. A serial slot
  popped before that is served as if it did not stream; in a fan-out the assertion at
  manager.py:2175 then reaps the sidecar under the other riders, without clearing
  `_inflight`. `worker_fanout` therefore assumes events in time (`LateArm`).
* A warm holder is inherited without a look at its process (manager.py:2484): if it
  died in the window, the inheriting request fails.
* A grace match does not look at the eviction flag (manager.py:2769), and a cancelled
  match's transition ACTIVE to POPPED is illegal and silently skipped
  (manager.py:2864), so only the database row is parked.

About the rows (`SlotRecords`):

* The sweeper's floor may be set as low as 60 s (config.py:125). Below the longest wait in
  the queue it ends rows of requests that are still queued, against its own docstring
  (manager.py:3473-3479); with `PatientSweep` FALSE TLC finds it at once.
* With residents the rows of riders are never written after the insert: they stay STAGED
  and the sweeper ends them as never served; the rows of anchors stay in GRACE with their
  pid until the next boot.
* A row of a matched request whose process exits between the audit of POPPED
  (manager.py:2916) and the mark is selected by neither pass of
  `reconcile_orphaned_slots`, nor by the sweeper; `BootSettles` says so. Rows evicted
  from the acceptance buffer stay ACCEPT_BUFFER until the next boot.
* An error of sqlite in a mark is not caught by `worker_loop` and would end it; the
  exceptions of boot reconciliation are swallowed by the lifespan.

About the stores (`ModelStore`):

* A PUT with If-Match on a tag that was deleted creates it again with the body's revision,
  where the docstring promises a conflict (manifest.py:682-683), and an ETag from before
  the delete may match the new manifest. `NoLostUpdate` excepts such clients (`stale`).
* A delete is not synced, and neither is the entry of a new shard directory, so a power
  failure may bring back a deleted manifest or take away the first blob of a shard.
* Nothing calls `gc_stale_incoming`, so the file of a killed download stays under
  `incoming/`; nothing calls `verify_blob_on_stage` either. A blob may be deleted while a
  manifest names it or a sidecar has it mapped.
* `_process_slot` builds its arguments from one read of the manifest (manager.py:2413) and
  estimates VRAM from another (2523), after an await; an edit in between mixes two
  versions.

About the live view (`LiveMonitor`):

* A poll re-validates handle, pid and spawn number after its await, but not the slot
  (live_monitor.py:417-465), so the progress of the next request on the same sidecar can
  be published once under the id of the one before, against live_monitor.py:56-57.
* When all older buffers are watched, `_get` evicts the buffer it has just made and then
  raises KeyError (live_monitor.py:135-153): the tee swallows it and the request has no
  live text; an SSE connection ends and reconnects.
* A full subscriber queue drops the done sentinel as well; only the change of the anchor
  frees that browser. Streaming riders have buffers that no anchor ever names.

## 5. What is proved

`TurbohaulQueue_proofs`, for every number of slots, all models and threads, every
capacity and run cap, under the named assumptions of `TurbohaulQueue` (bounds are
naturals, caps positive, `NoModel` is no model):

| Theorem | Statement |
|---|---|
| `TypeCorrect` | `Spec => []TypeOK` |
| `NothingLost` | `Spec => []EachSlotOnce`: an arrived slot is in exactly one of staging, buffer, held, gone, and once |
| `StatesAgree` | `Spec => []TierMatchesState`, so the queue never attempts an illegal transition |
| `BoundsKept` | `Spec => []TiersBounded` |
| `ImplementsPool` | `Spec => RefinesPool`: the queue implements `SlotPool` |
| `AgedHeadFirst` | `Spec => AgedHeadGoesNext`: no warm model overtakes a head that waited too long |
| `DisconnectsFlagged` | `Spec => DisconnectedIsFlagged`: every pop path flags a slot whose client left |
| `BypassesBounded` | `NoHeadInsert /\ TwoModels => (BypassSpec => []BypassBounded)`: the head of staging is overtaken at most `max_consecutive_same_model` times |

The two hypotheses of `BypassesBounded` are needed: with a third model two others may
alternate past the head, and every push-back of a fan-out (manager.py:2106) or follow-up
starts a new head. They are a deployment of two models in which nobody is put in front.

`Dispatcher_proofs`, for every number of requests, all mixes of models and widths, every
cap from 2 on, with both behaviours of `wait_for`, with or without shutdown:

| Theorem | Statement |
|---|---|
| `CapacityHeld` | `Spec => []CapacityKept`: the cap on residents, one per model, `--parallel` on each |

`DispatcherOwner_proofs`, for as many requests, mixes and caps and every stage of shutdown:

| Theorem | Statement |
|---|---|
| `NeverTwoOwners` | a request whose caller waits is never in the hands of two queues, tasks or residents at once |
| `NoOrphan` | `Spec => []NoOrphanProcess` |
| `ShutdownStops` | `Spec => []ShutdownStopsSidecars` |
| `DispatcherTyped` | `Spec => []TypeOK` |
| `OneOwnerHeld` | `InlineWaitFor => (Spec => []OneOwner)`: it is in the hands of exactly one |
| `EvictionSparesTheBusy` | `InlineWaitFor => (Spec => EvictionSparesBusy)` |

The first four hold with either `wait_for`. The last two speak of Python 3.12 and later
(`InlineWaitFor`). The project allows 3.11 and its Dockerfile runs it; there `wait_for`
awaits in an inner task, `OneOwner` is false (`dispatcher_lost_slot`) and so is
`EvictionSparesBusy`, in both cases because a slot already fetched is not seen by the
dispatcher. So on 3.11 a request may be lost, but none is served twice, no sidecar is
orphaned and shutdown still stops them all.

`WorkerLoop_proofs`, for every number of requests, all mixes of models, threads and modes,
and every width:

| Theorem | Statement |
|---|---|
| `WorkerTyped` | `Spec => []TypeOK` |
| `NoSidecarLost` | `Spec => []HandleTracked`: a process nobody has signalled is named by the worker or its holder |
| `OneRuns` | `Spec => []OneUnsignalled` |
| `WorkerShutdownStops` | `Spec => []ShutdownStopsSidecars` |
| `ServedByOwn` | `EventsInTime => (Spec => []ServedByOwnModel)` |
| `NoZombies` | `EventsInTime => (Spec => []NoZombieSlot)` |
| `OwnedPending` | `EventsInTime => (Spec => []OwnedWhilePending)` |
| `SignalSpares` | `EventsInTime => (Spec => SignalSparesService)` |

`EventsInTime` says that no model fans out, or that the two events of a stream exist as soon
as its slot is queued. Without it a fan-out that misses the events raises and leaves its
riders behind (section 4), so the four properties fail; both worker runs satisfy it, the
one serially with late events, the other with fan-outs.

`SlotRecords_proofs`, for any number of requests and exits, and for both values of `multi`
at every start:

| Theorem | Statement |
|---|---|
| `RecordsTyped` | `Spec => []TypeOK` |
| `DoneIsRecorded` | `Spec => []DoneRowEnded` |
| `BootsSettle` | `Spec => []BootSettles` |
| `EndedOnlyWhenOver` | `PatientSweep => (Spec => []EndedMeansOver)`: no row of a request under way is ended |
| `ImplementsRowLife` | `PatientSweep => (Spec => RefinesRowLife)` |

`ModelStore_proofs`, for any number of editors, contents, pulls, versions and crashes:

| Theorem | Statement |
|---|---|
| `StoreTyped` | `Spec => []TypeOK` |
| `WritesSurvive` | `Spec => []PutSurvives` |
| `BlobsSurvive` | `Spec => []BlobSurvives` |
| `PullsCleanUp` | `Spec => []NoStrayFile` |
| `UpdatesNotLost` | `Spec => NoLostUpdate` |

`LiveMonitor_proofs`, for any number of models, generations, spawns and readers, in both
modes:

| Theorem | Statement |
|---|---|
| `MonitorTyped` | `Spec => []TypeOK` |
| `AnchorsAdvance` | `Spec => []AnchorNeverReturns` |
| `BuffersStay` | `Spec => []BuffersKept` |

**Queue.** The inductive invariant is `Inv == TypeOK /\ EachSlotOnce`. `EachSlotOnce` alone is not
inductive: removing position i of a sequence leaves every other slot in place only if
the sequence is well typed and without duplicates across tiers. The argument has two
layers. For each operation a lemma says what it does to the two tiers as sets and
sequences (`EnqueueTiers`, `DrainTiers`, `PopStagedTiers`, ...), from the sequence
lemmas on `Append`, `RemoveAt`, slices and concatenation; then one step lemma per
operation (`EnqueueStep`, `PopStep`, ...) concludes that the slot moved is in its new
place only, and that the step is a step or a stutter of `SlotPool`. `QueueStep`
combines them. `BoundsKept` needs the order of the buffer as well, since the refill
of staging takes its head. `AgedHeadFirst` rests on the case the age check leaves out: an
aged head of the warm model is itself the first match. `DisconnectsFlagged` needs that a
closed queue stays empty, which follows from the steps of `SlotPool`; otherwise a second
close could hand out unflagged slots. For `BypassesBounded` the invariant `Counted` says
that only the present head was ever passed by, by the model popped last, and no more often
than the run is long that the queue counts itself: with two models every pop that leaves
the head waiting continues that run, and the run is cut at its cap. It needs that nothing
but the pop of the head changes the head (`AheadStays`) and that no slot comes back from
its caller (`NoneReturns`).

**Dispatcher.** Only `Reserve` adds to the registry, after it found no resident of the
model and room or a victim; the rest of `CapInv` is about what a sidecar has in flight.
Riders come from the inbox, so the width is kept only if the inbox holds slots, through
hits, drains, requeues and push-backs (`FieldsTyped`), if a driver at work has a slot in
hand (`Working`) and if one that has still to start finds its slot in the inbox, which an
eviction must not have drained (`Sound`). `UpdateKeeps`, `LeaveKeeps` and
`ServeNextKeeps` carry one replaced resident, an exit and the top of the serve loop;
every action of the driver goes through them.

`OwnInv` adds two halves. One is about shapes: what the fields of a resident are at each
await of its driver (`Shaped`, `Settled`), how that agrees with the registry and the tasks
detached for it (`Linked`), and what each stage of shutdown has seen to (`Ends`); it alone
says that a process that is up has a driver not yet past its reap. The other is about
places (`NoneTwice`, `Placed`, `Fresh`): a slot that waits, in the queue, a requeue task, an
inbox or a drained inbox, is pending and nowhere else; a pending slot in a driver's hand is
in no other's; and with an inline `wait_for` every pending slot is somewhere. That
last part is the only one that needs the newer `wait_for` (with the older, the slot in the
inner task's hand goes with a driver that is evicted), and the only one the four theorems
without the hypothesis do without. `OneOwner` follows but is not inductive:
it does not say that answered slots never wait, nor that a slot for which a resident was
reserved never has a second one, without which its process would be forgotten. Nearly
every step moves slots between the queue, one task and one resident. `Transfer` states once
what such a step must guarantee (nothing dropped, nothing doubled, what stops being in hand
is answered) and each action is a case of it.

**Worker.** `Tracked` needs no assumption: it says at which awaits the worker names a
handle, that the holder is empty but between slots, and that after the reap and at the end
nothing unsignalled is named. Every step that lets go of a handle has signalled it or put
it where the next await looks. `Hands` says what is in hand: which of the worker's places
are filled at which await (`Filled`), that the sidecar, the anchor, the riders and the
follow-up have one model and whose exchange is open (`OneModel`), and whose caller waits and
who is at an end of the state machine (`InHand`). The conjuncts need each other: that an
exchange at the drain belongs to the batch is what makes the signal after it harmless, and
that the batch is empty outside a fan-out is what makes the anchor the only one waiting.

**Live monitor.** `AnchorInv` puts four numbers in order: what an anchor has shown, what a
poll under way has captured, what is in service, what was given out. A poll may answer
after its slot, its resident and even its model's turn are over, so "captured is not older
than shown" has to survive the start of new slots and the debounce (`StoreShows`), and
with one sidecar it needs that at most one resident lives and one poll is under way.
`TextInv` says that every watched generation has a buffer and that there are at most
`MaxKeys` buffers or at most as many as readers. It rests on what an eviction does
(`EvictedKeeps`): it takes as many of the oldest unwatched buffers as there are too many,
or all of them. `Only`, what is left of a sequence, is defined by its result, since
nothing can be proved here about `SelectSeq`; that such a sequence exists (`OnlyKeeps`)
follows from a least-number argument over sets of positions (`NatLeast`, `Listable`).
`WorldInv` adds that the debounce gives a hold up before its patience ends.

**Slot records.** About thirty actions are one step of one handler. `SerialStep`,
`ResidentStep` and `SharedStep` prove of each of them the few facts collected in
`Handled(s)`: only slot s and its row change, s was under way, and its row ends only if
s is done. Arrival, sweep, exit and boot have a lemma each, and everything else follows
from these. `RecordsInv` strengthens the checked invariants by `Linked` (a slot has a row
exactly when it has arrived, neither is COLD before its end) and by "nothing is in
service while the manager is down"; without the first a boot could meet an open row in
COLD, which neither pass ends. `PatientInv` adds "an old row is the row of a finished
request". Then every step but an arrival is a `Settle` of `RowLife` (`SettleLemma`).

**Model store.** Manifest and blobs share no variable and get an invariant each.
`ManifestInv` needs that revisions grow with versions along a chain of updates, so that
an ETag which still matches was read from the very version it matches, or from before a
delete or rollback (`ReadsOrdered`), and that the version being written is newer than
everything a power failure may leave (`WriteOrdered`). `BlobInv` needs how far along its
commit the file of each pull is (`CommitOrdered`); the delicate case is a delete, which
cannot fall between the rename and the answer because those steps do not await.

Only model-checked: all liveness, since fairness and ENABLED are out of reach of the
prover. Every invariant and action property of a passing run is proved, except where the
table above names a hypothesis on a constant (`InlineWaitFor`, `PatientSweep`, a fan-out
that finds the events of its streams). The proved modules contain no recursive operator.

## 6. Not modelled

The append-only audit tables; timers as counters (windows may end at any time instead);
keep-alive arithmetic; port allocation beyond "one base port", so that the health probe
answered by an old process (subprocess_mgr.py:186) is not distinguished from one answered
by the new; the flock and pid file of the singleton; the 10 s limit of `_drain_bg_tasks`;
token rates, the VRAM refresh and the limit of subscribers in the live monitor; failures
of sqlite; payload translation, tool-call recovery, the arithmetic of the VRAM estimate,
telemetry and the dashboard, which compute on data or only observe. Symlink, redirect and
address checks of paths and URLs appear as one choice to fail. `PROJECT.json` gives the
reason for each component.

## 7. Plan

Done, in this order: the queue with its abstract pool and proofs; the dispatcher; the
worker; the table of slots with `RowLife` and proofs; the stores with proofs; the live
monitor. What is left:

1. `GraceTimer`: the extension cap against the driver's own deadline.
2. Affinity under fan-out: `QueueFairness` composed with push-backs, to see whether
   `max_consecutive_same_model` still bounds overtaking.
3. `ProcessControl`: port reuse, health probe answering from an old process, signal
   windows.

