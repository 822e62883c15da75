----------------------------- MODULE Dispatcher -----------------------------
(***************************************************************************)
(* The multi-sidecar path of the manager (max_parallel_sidecars >= 2): the *)
(* dispatcher pops slots and routes each to the resident of its model, one *)
(* driver task per resident serves them on its sidecar, detached tasks     *)
(* requeue slots and tear sidecars down, and shutdown ends all of it.      *)
(*                                                                         *)
(* The event loop interleaves tasks only at an await that suspends. No     *)
(* critical section of _registry_lock and no method of the queue suspends, *)
(* so each is part of the atomic step that reaches it.                     *)
(*                                                                         *)
(* A resident is named by the slot it was reserved for: that slot is its   *)
(* driver's first, and the driver always settles it.                       *)
(***************************************************************************)
EXTENDS SequencesExt

CONSTANTS
    NumSlots,      \* requests that ever arrive (bound)
    Mixes,         \* the model tags the slots may have, slot by slot (bound)
    Parallel,      \* --parallel of each model's manifest
    Cap,           \* max_parallel_sidecars
    MaxDefers,     \* _MAX_DISPATCH_DEFERS
    Fallible,      \* slots whose client may leave, whose resident may be
                   \* refused or fail to load or to serve (bound)
    ShutsDown,     \* whether shutdown() may be called (bound)
    InlineWaitFor, \* asyncio.wait_for awaits in the caller's task (Python 3.12)
    NoSlot         \* None

Slots == 1 .. NumSlots

ASSUME NumSlotsAssumption == NumSlots \in Nat /\ NoSlot \notin Slots
\* worker_loop takes the dispatcher path from two sidecars on; _read_model_-
\* footprint clamps parallel to at least one.
ASSUME CapAssumption == Cap \in Nat /\ Cap >= 2
ASSUME ParallelAssumption ==
    \A mix \in Mixes : \A s \in Slots : Parallel[mix[s]] \in Nat \ {0}
ASSUME FallibleAssumption == Fallible \subseteq Slots
ASSUME DefersAssumption == MaxDefers \in Nat
ASSUME FlagsAssumption == InlineWaitFor \in BOOLEAN /\ ShutsDown \in BOOLEAN

VARIABLES
    tag,        \* model tag of each slot
    arrived,    \* slots 1 .. arrived were submitted
    fut,        \* completion_future of each slot
    queue,      \* the request queue, head first
    defers,     \* slot._dispatch_defer_count
    registry,   \* _residents: the residents that take slots
    res,        \* the Resident objects and their driver tasks
    bg,         \* _bg_tasks: detached coroutines that have not ended
    shutdown,   \* how far shutdown() got
    awaited,    \* the drivers shutdown cancelled and waits for
    draining    \* the detached tasks it waits for

ending == <<shutdown, awaited, draining>>
vars == <<tag, arrived, fut, queue, defers, registry, res, bg, ending>>

(***************************************************************************)
(* Where a driver task is suspended ("pc"):                                *)
(*   start      created, has not run          unhealthy  reaps a bad spawn *)
(*   gate       in the host safety gates      audit      slot made ACTIVE  *)
(*   health     waits for /health             serve      slots in flight   *)
(*   match      serves a matched follow-up    grace      warm window       *)
(*   fetched    wait_for's inner task has     idle       waits for a slot  *)
(*              taken a slot from the inbox   finally    reaps the sidecar *)
(***************************************************************************)
Pcs == {"none", "start", "gate", "health", "unhealthy", "audit", "serve",
        "grace", "match", "idle", "fetched", "finally", "done"}

(***************************************************************************)
(* state, inbox, active (active_slot) and inflight are the Resident's; ref *)
(* is what names the process (booting_pid or handle), proc the process     *)
(* itself, claim who set torn_down, local the driver's variable slot, next *)
(* the slot in wait_for's inner task, drained the finally's pending_slots, *)
(* cancel that shutdown's cancellation is still to be delivered.           *)
(***************************************************************************)
NoResident ==
    [pc |-> "none", state |-> "DEAD", inbox |-> <<>>, active |-> NoSlot,
     inflight |-> {}, local |-> NoSlot, next |-> NoSlot, drained |-> <<>>,
     ref |-> "none", proc |-> "none", claim |-> "none", cancel |-> FALSE]

Init ==
    /\ tag \in Mixes /\ arrived = 0 /\ queue = <<>> /\ registry = {} /\ bg = {}
    /\ fut = [s \in Slots |-> "none"] /\ defers = [s \in Slots |-> 0]
    /\ res = [r \in Slots |-> NoResident]
    /\ shutdown = "no" /\ awaited = {} /\ draining = {}

Stopped == shutdown # "no"   \* _stop_event is set
Closed == shutdown = "closed"

\* _fail_completion_future and set_result leave a settled future alone. Result
\* or exception: either way the caller is answered.
Settle(S) ==
    [s \in Slots |-> IF s \in S /\ fut[s] = "pending" THEN "answered" ELSE fut[s]]

DeferTask(s) == [do |-> "defer", slots |-> <<s>>]
RequeueTask(q) == [do |-> "requeue", slots |-> q]
ResidentTask(what, r) == [do |-> what, of |-> r]

\* submit, once the stop check passed; self.grace never runs at cap >= 2, so
\* the slot joins the tail.
Submit ==
    /\ arrived < NumSlots /\ ~Stopped
    /\ arrived' = arrived + 1
    /\ fut' = [fut EXCEPT ![arrived + 1] = "pending"]
    /\ queue' = Append(queue, arrived + 1)
    /\ UNCHANGED <<defers, registry, res, bg, ending>>

-----------------------------------------------------------------------------
(* The dispatcher: pop and route in one step. Which slot affinity prefers  *)
(* is the queue's business (TurbohaulQueue); here any may be popped.       *)

PopAt(i) == /\ ~Stopped /\ i \in DOMAIN queue
            /\ queue' = RemoveAt(queue, i)
            /\ UNCHANGED <<arrived, ending>>

ResidentsOf(s) == {r \in registry : tag[r] = tag[s]}

\* _handle_evicted_slot: the client left before the pop.
DispatchEvicted(i) ==
    /\ PopAt(i) /\ queue[i] \in Fallible
    /\ fut' = Settle({queue[i]})
    /\ UNCHANGED <<defers, registry, res, bg>>

\* HIT: reclaim the resident from idle and hand the slot to its driver.
RouteHit(i) ==
    /\ PopAt(i)
    /\ \E r \in ResidentsOf(queue[i]) :
          res' = [res EXCEPT
                    ![r].inbox = Append(@, queue[i]),
                    ![r].state = IF @ = "IDLE_EVICTABLE" THEN "ACTIVE" ELSE @]
    /\ UNCHANGED <<fut, defers, registry, bg>>

EvictableBusy ==   \* mutant: the state alone decides
    {r \in registry : res[r].state \in {"IDLE_EVICTABLE", "ACTIVE"}}
\* _lru_idle_evictable; which of them is least recent is abstracted.
Evictable ==
    {r \in registry : /\ res[r].state = "IDLE_EVICTABLE"
                      /\ res[r].active = NoSlot /\ res[r].inflight = {}}

DefersUnbounded(s) == FALSE   \* mutant: the counter is never compared
DefersExhausted(s) == defers[s] + 1 > MaxDefers
\* _defer_unroutable: MISS, full, and nothing to evict.
Defer(i) ==
    LET s == queue[i] IN
    /\ PopAt(i) /\ ResidentsOf(s) = {}
    /\ Cardinality(registry) >= Cap /\ Evictable = {}
    /\ defers' = [defers EXCEPT ![s] = @ + 1]
    /\ IF DefersExhausted(s)
       THEN fut' = Settle({s}) /\ UNCHANGED bg
       ELSE bg' = bg \cup {DeferTask(s)} /\ UNCHANGED fut
    /\ UNCHANGED <<registry, res>>

\* _begin_evict_locked: the tasks it spawns and what becomes of the resident.
\* The inbox goes back to the queue even when the resident is DEAD already.
DropInbox(r) ==   \* mutant: the drained slots are forgotten
    IF res[r].state = "DEAD" THEN {} ELSE {ResidentTask("evict", r)}
EvictTasks(r) ==
    (IF res[r].inbox = <<>> THEN {} ELSE {RequeueTask(res[r].inbox)})
    \cup (IF res[r].state = "DEAD" THEN {} ELSE {ResidentTask("evict", r)})
Evicted(resident) == [resident EXCEPT !.inbox = <<>>, !.state = "DEAD"]

\* MISS: evict a victim when full, then reserve. The cross-resident VRAM gate
\* reads the GPU, so it may refuse; the victim is gone all the same.
NeverFull == TRUE   \* mutant: the capacity test is lost
HasRoom == Cardinality(registry) < Cap
Reserve(i) ==
    LET s == queue[i] IN
    /\ PopAt(i) /\ ResidentsOf(s) = {}
    /\ \E victims \in IF HasRoom THEN {{}} ELSE {{v} : v \in Evictable} :
          LET left == [r \in Slots |->
                         IF r \in victims THEN Evicted(res[r]) ELSE res[r]]
          IN
          /\ bg' = bg \cup UNION {EvictTasks(v) : v \in victims}
          /\ \/ /\ s \in Fallible
                /\ registry' = registry \ victims
                /\ res' = left
                /\ fut' = Settle({s})
             \/ /\ registry' = (registry \ victims) \cup {s}
                /\ res' = [left EXCEPT ![s] =
                             [NoResident EXCEPT !.pc = "start", !.inbox = <<s>>,
                                                !.state = "RESERVED_LOADING"]]
                /\ UNCHANGED fut
    /\ UNCHANGED defers

Dispatch(s) == \E i \in DOMAIN queue :
    /\ queue[i] = s
    /\ \/ DispatchEvicted(i) \/ RouteHit(i) \/ Defer(i) \/ Reserve(i)

-----------------------------------------------------------------------------
(* A driver task (_drive_resident). A cancelled task takes no step of its  *)
(* own any more: the cancellation is delivered first.                      *)

At(r, pc) == res[r].pc = pc /\ ~res[r].cancel
Update(r, resident) == res' = [res EXCEPT ![r] = resident]
NoRegistryChange == UNCHANGED <<registry, bg>>
Quiet == UNCHANGED <<arrived, queue, defers, ending>>

LeaveForgetsBooting(r, x, tasks) ==   \* mutant: only a published handle is reaped
    /\ Update(r, [x EXCEPT !.pc = "finally", !.claim = "driver",
                   !.drained = x.inbox, !.inbox = <<>>, !.ref = "none",
                   !.proc = IF x.ref = "handle" THEN "dying" ELSE @])
    /\ registry' = registry \ {r}
    /\ bg' = bg \cup tasks
\* The finally's locked section: whoever claims torn_down first drains the
\* inbox, deregisters and reaps. An exit after another's claim ends the task.
Leave(r, x, tasks) ==
    IF x.claim # "none"
    THEN /\ Update(r, [x EXCEPT !.pc = "done"])
         /\ bg' = bg \cup tasks \cup {ResidentTask("reap", r)}
         /\ UNCHANGED registry
    ELSE /\ Update(r, [x EXCEPT !.pc = "finally", !.claim = "driver",
                   !.drained = x.inbox, !.inbox = <<>>,
                   !.state = IF r \in registry THEN "DEAD" ELSE @,
                   !.ref = "none",
                   !.proc = IF x.ref = "none" THEN @ ELSE "dying"])
         /\ registry' = registry \ {r}
         /\ bg' = bg \cup tasks

\* Top of the serve loop with slot s in hand and q left in the inbox.
ServeNext(r, x, s, q) ==
    LET y == [x EXCEPT !.local = s, !.next = NoSlot, !.inbox = q] IN
    IF Stopped \/ x.state = "DEAD"
    THEN Leave(r, y, {})
    ELSE /\ Update(r, [y EXCEPT !.pc = "audit", !.state = "ACTIVE", !.active = s])
         /\ NoRegistryChange

DriverStart(r) ==
    /\ At(r, "start")
    /\ Update(r, [res[r] EXCEPT !.pc = "gate", !.local = Head(res[r].inbox),
                             !.inbox = Tail(@)])
    /\ NoRegistryChange /\ Quiet /\ UNCHANGED fut

\* The safety gates refuse.
SpawnRefused(r) ==
    /\ At(r, "gate") /\ r \in Fallible
    /\ fut' = Settle({res[r].local})
    /\ Leave(r, res[r], {}) /\ Quiet

Spawn(r) ==
    /\ At(r, "gate")
    /\ Update(r, [res[r] EXCEPT !.pc = "health", !.proc = "up", !.ref = "booting"])
    /\ NoRegistryChange /\ Quiet /\ UNCHANGED fut

HealthOk(r) ==
    /\ At(r, "health")
    /\ ServeNext(r, [res[r] EXCEPT !.ref = "handle", !.state = "ACTIVE"],
                 res[r].local, res[r].inbox)
    /\ Quiet /\ UNCHANGED fut

\* Timeout or child exit: booting_pid is cleared, then the sidecar reaped.
HealthFails(r) ==
    /\ At(r, "health") /\ r \in Fallible
    /\ fut' = Settle({res[r].local})
    /\ Update(r, [res[r] EXCEPT !.pc = "unhealthy", !.ref = "none",
                             !.proc = "dying"])
    /\ NoRegistryChange /\ Quiet

UnhealthyReaped(r) ==
    /\ At(r, "unhealthy")
    /\ Leave(r, [res[r] EXCEPT !.proc = "dead"], {})
    /\ Quiet /\ UNCHANGED fut

\* The spawn itself or a schema mismatch of /health raises through the driver.
LoadRaises(r) ==
    /\ At(r, "gate") \/ At(r, "health")
    /\ r \in Fallible
    /\ Leave(r, res[r], {}) /\ Quiet /\ UNCHANGED fut

\* busy slots are in flight; riders from the inbox fill the sidecar's --parallel
\* slots. With one slot the resident serves its anchor alone.
Width(r) == Parallel[tag[r]]
Launch(r, busy) ==
    LET riders == IF Width(r) = 1 THEN 0
                  ELSE Min({Width(r) - Cardinality(busy), Len(res[r].inbox)})
        flying == busy \cup ToSet(SubSeq(res[r].inbox, 1, riders))
    IN [res[r] EXCEPT !.inflight = flying,
                      !.pc = IF flying = {} THEN "grace" ELSE "serve",
                      !.inbox = SubSeq(@, riders + 1, Len(@))]

StartServing(r) ==
    /\ At(r, "audit")
    /\ Update(r, Launch(r, {res[r].local}))
    /\ NoRegistryChange /\ Quiet /\ UNCHANGED fut

\* One slot in flight ends. A rider's error is its own; an error of the lone
\* anchor of a one-slot sidecar ends the driver, as does one of the audit.
ServeEnds(r, s) ==
    /\ At(r, "serve") /\ s \in res[r].inflight
    /\ fut' = Settle({s})
    /\ Update(r, Launch(r, res[r].inflight \ {s}))
    /\ NoRegistryChange /\ Quiet

ServeRaises(r) ==
    /\ At(r, "audit") \/ (At(r, "serve") /\ Width(r) = 1)
    /\ r \in Fallible
    /\ Leave(r, [res[r] EXCEPT !.inflight = {}], {})
    /\ Quiet /\ UNCHANGED fut

\* Grace window: a staged follow-up of the same thread runs on the warm sidecar,
\* whether its client is still there or not. Any slot of the model may be one.
GraceMatch(r) ==
    /\ At(r, "grace") /\ ~Stopped
    /\ \E i \in DOMAIN queue :
          /\ tag[queue[i]] = tag[r]
          /\ queue' = RemoveAt(queue, i)
          /\ Update(r, [res[r] EXCEPT !.pc = "match", !.active = queue[i]])
    /\ NoRegistryChange /\ UNCHANGED <<arrived, fut, defers, ending>>

MatchEnds(r) ==
    /\ At(r, "match")
    /\ fut' = Settle({res[r].active})
    /\ Update(r, [res[r] EXCEPT !.pc = "grace", !.active = res[r].local])
    /\ NoRegistryChange /\ Quiet

\* The grace window closes: with a zero idle window the driver evicts its own
\* resident, otherwise it offers it to the dispatcher and waits for a slot.
\* Only an inline wait_for takes a slot that is already there at once.
GraceEnds(r) ==
    LET x == [res[r] EXCEPT !.active = NoSlot] IN
    /\ At(r, "grace")
    /\ \/ /\ res[r].state = "DEAD"
          /\ Leave(r, res[r], {})
       \/ /\ res[r].state # "DEAD"
          /\ Leave(r, Evicted(x), EvictTasks(r))
       \/ /\ res[r].state # "DEAD"
          /\ LET y == [x EXCEPT !.state = "IDLE_EVICTABLE", !.pc = "idle"] IN
             IF InlineWaitFor /\ x.inbox # <<>>
             THEN ServeNext(r, y, Head(x.inbox), Tail(x.inbox))
             ELSE Update(r, y) /\ NoRegistryChange
    /\ Quiet /\ UNCHANGED fut

\* inbox.get() inside wait_for returns a slot: to the driver itself, or to the
\* inner task that wait_for wrapped it in.
IdleTakes(r) ==
    LET x == res[r] IN
    /\ At(r, "idle") /\ x.inbox # <<>>
    /\ IF InlineWaitFor
       THEN ServeNext(r, x, Head(x.inbox), Tail(x.inbox))
       ELSE /\ Update(r, [x EXCEPT !.pc = "fetched", !.next = Head(x.inbox),
                                !.inbox = Tail(@)])
            /\ NoRegistryChange
    /\ Quiet /\ UNCHANGED fut

\* The inner task's slot reaches the driver, also when it was cancelled
\* meanwhile: wait_for then returns the result and the cancellation is lost.
Resume(r) ==
    /\ res[r].pc = "fetched"
    /\ ServeNext(r, [res[r] EXCEPT !.cancel = FALSE], res[r].next, res[r].inbox)
    /\ Quiet /\ UNCHANGED fut

\* The idle window ends: the driver evicts its resident, unless a slot is
\* there or the resident is dead already.
IdleExpires(r) ==
    LET x == res[r] IN
    /\ At(r, "idle")
    /\ \/ /\ x.state = "IDLE_EVICTABLE" /\ x.inbox = <<>>
          /\ Leave(r, Evicted(x), EvictTasks(r))
       \/ /\ x.inbox # <<>>
          /\ ServeNext(r, x, Head(x.inbox), Tail(x.inbox))
       \/ /\ x.state # "IDLE_EVICTABLE" /\ x.inbox = <<>>
          /\ ServeNext(r, x, x.local, x.inbox)
    /\ Quiet /\ UNCHANGED fut

\* The cancellation of shutdown reaches the driver. A driver that never ran
\* has no finally; a fan-out fails its riders on the way out; the reap of an
\* unhealthy sidecar ends after its SIGTERM.
CancelDelivered(r) ==
    LET x == [res[r] EXCEPT !.cancel = FALSE] IN
    /\ res[r].cancel /\ res[r].pc # "fetched"
    /\ IF x.pc = "start"
       THEN /\ Update(r, [x EXCEPT !.pc = "done"])
            /\ bg' = bg \cup {ResidentTask("reap", r)}
            /\ UNCHANGED <<fut, registry>>
       ELSE /\ fut' = IF Width(r) > 1 THEN Settle(x.inflight) ELSE fut
            /\ Leave(r, [x EXCEPT !.inflight = {},
                           !.proc = IF x.pc = "unhealthy" THEN "termed" ELSE @],
                     {})
    /\ Quiet

\* enqueue_head for each slot of q in turn, or their failure when closed.
GiveBack(q) ==
    IF Closed
    THEN fut' = Settle(ToSet(q)) /\ UNCHANGED queue
    ELSE queue' = Reverse(q) \o queue /\ UNCHANGED fut

\* The slot in hand when the serve loop never owned it.
Unserved(x) == {x.local} \ ({x.active, NoSlot} \cup x.inflight)
\* End of the finally: the sidecar is reaped, the drained slots go back, and an
\* unserved one is failed.
FinallyEnds(r) ==
    LET x == res[r]
        failed == Unserved(x) \cup (IF Closed THEN ToSet(x.drained) ELSE {})
    IN
    /\ x.pc = "finally"
    /\ queue' = IF Closed THEN queue ELSE Reverse(x.drained) \o queue
    /\ fut' = Settle(failed)
    /\ Update(r, [x EXCEPT !.pc = "done", !.drained = <<>>, !.local = NoSlot,
                        !.proc = IF @ = "dying" THEN "dead" ELSE @])
    /\ bg' = bg \cup {ResidentTask("reap", r)}
    /\ UNCHANGED <<arrived, defers, registry, ending>>

DriverStep(r) ==
    \/ DriverStart(r) \/ SpawnRefused(r) \/ Spawn(r)
    \/ HealthOk(r) \/ HealthFails(r) \/ LoadRaises(r) \/ UnhealthyReaped(r)
    \/ StartServing(r) \/ (\E s \in Slots : ServeEnds(r, s)) \/ ServeRaises(r)
    \/ GraceMatch(r) \/ MatchEnds(r) \/ GraceEnds(r)
    \/ IdleTakes(r) \/ Resume(r) \/ IdleExpires(r)
    \/ CancelDelivered(r) \/ FinallyEnds(r)

-----------------------------------------------------------------------------
(* Detached tasks.                                                         *)

\* _requeue_after_backoff, _requeue_slots_or_fail
Requeue(t) ==
    /\ t.do \in {"defer", "requeue"}
    /\ GiveBack(t.slots)
    /\ bg' = bg \ {t}
    /\ UNCHANGED <<arrived, defers, registry, res, ending>>

\* _evict_teardown: claim torn_down and start to reap, or find it claimed.
TeardownClaims(t) ==
    LET r == t.of IN
    /\ t.do = "evict" /\ res[r].claim # "task"
    /\ IF res[r].claim = "none"
       THEN /\ Update(r, [res[r] EXCEPT !.claim = "task", !.ref = "none",
                         !.proc = IF res[r].ref = "none" THEN @ ELSE "dying"])
            /\ UNCHANGED bg
       ELSE bg' = bg \ {t} /\ UNCHANGED res
    /\ UNCHANGED <<arrived, fut, queue, defers, registry, ending>>

TeardownEnds(t) ==
    LET r == t.of IN
    /\ t.do = "evict" /\ res[r].claim = "task"
    /\ Update(r, [res[r] EXCEPT !.proc = IF @ = "dying" THEN "dead" ELSE @])
    /\ bg' = bg \ {t}
    /\ UNCHANGED <<arrived, fut, queue, defers, registry, ending>>

ReapedRiders(r) == res[r].inflight   \* mutant: the anchor is left waiting
\* The slots a dead driver leaves behind.
Abandoned(r) == {res[r].active} \cup res[r].inflight
\* _reap_dead_resident, scheduled when a driver ended: fail what it still
\* served, then evict what is left. The teardown task it may leave behind needs
\* the process and the claim only.
ReapDead(t) ==
    LET r == t.of IN
    /\ t.do = "reap"
    /\ fut' = Settle(Abandoned(r))
    /\ bg' = (bg \ {t}) \cup EvictTasks(r)
    /\ Update(r, [NoResident EXCEPT !.pc = "done", !.ref = res[r].ref,
                        !.proc = res[r].proc, !.claim = res[r].claim])
    /\ registry' = registry \ {r}
    /\ UNCHANGED <<arrived, queue, defers, ending>>

BgStep == \E t \in bg : \/ Requeue(t) \/ ReapDead(t)
                        \/ TeardownClaims(t) \/ TeardownEnds(t)

-----------------------------------------------------------------------------
(* shutdown(): the dispatcher stops, then drivers, detached tasks, queue.  *)

BeginShutdown ==
    /\ ShutsDown /\ shutdown = "no" /\ shutdown' = "stopping"
    /\ UNCHANGED <<arrived, fut, queue, defers, registry, res, bg, awaited,
                   draining>>

NoDrivers == {}   \* mutant: drivers are left to notice the stop event
LiveDrivers == {r \in registry : res[r].pc # "done"}
CancelDrivers ==
    /\ shutdown = "stopping" /\ shutdown' = "drivers"
    /\ awaited' = LiveDrivers
    /\ res' = [r \in Slots |-> IF r \in awaited'
                               THEN [res[r] EXCEPT !.cancel = TRUE] ELSE res[r]]
    /\ UNCHANGED <<arrived, fut, queue, defers, registry, bg, draining>>

DrainTasks ==
    /\ shutdown = "drivers" /\ \A r \in awaited : res[r].pc = "done"
    /\ shutdown' = "tasks" /\ draining' = bg
    /\ UNCHANGED <<arrived, fut, queue, defers, registry, res, bg, awaited>>

\* queue.close, then every cleared slot's future is failed.
CloseQueue ==
    /\ shutdown = "tasks" /\ draining \cap bg = {}
    /\ shutdown' = "closed"
    /\ fut' = Settle(ToSet(queue)) /\ queue' = <<>>
    /\ UNCHANGED <<arrived, defers, registry, res, bg, awaited, draining>>

ShutdownStep == CancelDrivers \/ DrainTasks \/ CloseQueue

-----------------------------------------------------------------------------
LoopStep == \/ ShutdownStep \/ BgStep
            \/ \E s \in Slots : Dispatch(s) \/ DriverStep(s)
Next == (Submit \/ BeginShutdown \/ LoopStep) /\ UNCHANGED tag

\* The event loop does not idle while some task can run, and what a task waits
\* for (a sidecar, a client's stream, a timer) ends. Per-task fairness is not
\* needed: with finitely many requests no task can run for ever.
Fairness == WF_vars(LoopStep /\ UNCHANGED tag)

Spec == Init /\ [][Next]_vars /\ Fairness

-----------------------------------------------------------------------------
(* Properties.                                                             *)

\* Type correctness of the manager's fields.
TypeOK ==
    /\ tag \in Mixes /\ arrived \in 0 .. NumSlots
    /\ fut \in [Slots -> {"none", "pending", "answered"}]
    /\ queue \in Seq(Slots)
    /\ defers \in [Slots -> 0 .. MaxDefers + 1]
    /\ registry \subseteq Slots
    /\ res \in [Slots ->
         [pc : Pcs, inbox : Seq(Slots), drained : Seq(Slots),
          state : {"RESERVED_LOADING", "ACTIVE", "IDLE_EVICTABLE", "DEAD"},
          active : Slots \cup {NoSlot}, local : Slots \cup {NoSlot},
          next : Slots \cup {NoSlot}, inflight : SUBSET Slots,
          ref : {"none", "booting", "handle"},
          proc : {"none", "up", "dying", "termed", "dead"},
          claim : {"none", "driver", "task"}, cancel : BOOLEAN]]
    /\ \A t \in bg : \/ t.do \in {"defer", "requeue"} /\ t.slots \in Seq(Slots)
                     \/ t.do \in {"evict", "reap"} /\ t.of \in Slots
    /\ shutdown \in {"no", "stopping", "drivers", "tasks", "closed"}

\* What the driver of r answers for, and after its end the reaper.
Answers(r) ==
    LET x == res[r] IN
    IF x.pc \notin {"none", "done"}
    THEN {x.active, x.local, x.next} \cup x.inflight
         \cup ToSet(x.inbox) \cup ToSet(x.drained)
    ELSE IF ResidentTask("reap", r) \in bg
    THEN {x.active} \cup x.inflight \cup ToSet(x.inbox)
    ELSE {}

Owners(s) ==
    {<<"queue", i>> : i \in {i \in DOMAIN queue : queue[i] = s}}
    \cup {<<"task", t>> : t \in {t \in bg : /\ t.do \in {"defer", "requeue"}
                                            /\ s \in ToSet(t.slots)}}
    \cup {<<"resident", r>> : r \in {r \in Slots : s \in Answers(r)}}

\* Whatever drivers die, residents are evicted, slots deferred or requeued and
\* however far shutdown got: a request whose caller still waits is in the hands
\* of exactly one task or queue ("not lost", "never dropped", manager.py:1468,
\* 1270), so it is neither forgotten nor served twice.
OneOwner == \A s \in Slots : fut[s] = "pending" => Cardinality(Owners(s)) = 1

\* At most Cap residents are registered, at most one per model, and a sidecar
\* serves no more slots at once than its --parallel.
CapacityKept ==
    /\ Cardinality(registry) <= Cap
    /\ \A r, q \in registry : tag[r] = tag[q] => r = q
    /\ \A r \in Slots : Cardinality(res[r].inflight) <= Width(r)

\* A live sidecar process is always reachable by someone who will reap it: its
\* pid or handle is held and the driver, a teardown or a reaper is still to run
\* (manager.py:1488-1505, 1795-1830).
NoOrphanProcess ==
    \A r \in Slots : res[r].proc = "up" =>
        /\ res[r].ref # "none"
        /\ \/ res[r].pc # "done"
           \/ ResidentTask("evict", r) \in bg \/ ResidentTask("reap", r) \in bg

\* "Busy residents are NEVER evictable" (manager.py:1204): the dispatcher takes
\* away only a resident whose driver waits for work and has none.
EvictionSparesBusy ==
    [][\A r \in registry \ registry' :
          res'[r].pc = res[r].pc /\ res[r].pc # "done"
              => res[r].pc = "idle" /\ res[r].inbox = <<>>]_vars

\* Every accepted request is answered, in service and through shutdown.
EveryRequestAnswered ==
    \A s \in Slots : fut[s] = "pending" ~> fut[s] = "answered"

\* When shutdown returns, every sidecar that was ever spawned has been signalled.
ShutdownStopsSidecars == Closed => \A r \in Slots : res[r].proc # "up"
=============================================================================
