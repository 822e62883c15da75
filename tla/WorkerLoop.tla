----------------------------- MODULE WorkerLoop -----------------------------
(***************************************************************************)
(* The single-sidecar path of the manager (max_parallel_sidecars <= 1):    *)
(* worker_loop drives one slot at a time through its life on one sidecar,  *)
(* serves matched follow-ups and fan-out riders on it, keeps it warm in    *)
(* the idle holder or tears it down, and recovers when a step raises.      *)
(*                                                                         *)
(* One action per stretch of code between two awaits that suspend; awaits  *)
(* between which nothing another task can see happens are one. Which slot  *)
(* the queue prefers is its own business (TurbohaulQueue): any may be      *)
(* popped. Writing the state database and the audit log never fails here.  *)
(* A sidecar is named by the slot it was spawned for.                      *)
(***************************************************************************)
EXTENDS Naturals, FiniteSets

CONSTANTS
    NumSlots,   \* requests that ever arrive (bound)
    Mixes,      \* what the requests may ask for, slot by slot (bound)
    Parallel,   \* --parallel of each model's manifest
    Fallible,   \* slots that may be refused, whose sidecar may fail, whose
                \* client may leave or stream for more than an hour (bound)
    LateArm,    \* a stream's events may be created after its slot is popped
    ShutsDown,  \* whether shutdown() may be called (bound)
    NoSlot      \* None

Slots == 1 .. NumSlots

ASSUME NumSlotsAssumption == NumSlots \in Nat /\ NoSlot \notin Slots
ASSUME MixesAssumption ==
    \A mix \in Mixes, s \in Slots :
        mix[s].stream \in BOOLEAN /\ Parallel[mix[s].tag] \in Nat \ {0}
ASSUME FallibleAssumption == Fallible \subseteq Slots
ASSUME FlagsAssumption == LateArm \in BOOLEAN /\ ShutsDown \in BOOLEAN

VARIABLES
    req,       \* model tag, thread and stream flag of each slot
    arrived,   \* slots 1 .. arrived were submitted
    armed,     \* streaming slots whose two events exist
    left,      \* slots whose disconnect_event is set while they are queued
    queue,     \* the slots in the queue
    fut,       \* completion_future of each slot
    state,     \* slot.state
    ready,     \* slots whose stream_ready_event is set
    svc,       \* what became of each slot's exchange with the sidecar
    pc,        \* where the worker is suspended
    slot,      \* the slot in _process_slot (the anchor)
    other,     \* the matched follow-up, or the rider being admitted
    inflight,  \* _inflight
    active,    \* _active_handle
    idle,      \* _idle_handle
    due,       \* the idle holder's expiry has passed
    leaving,   \* the former holder a model swap or shutdown waits for
    detached,  \* the former holders fire-and-forget tasks wait for
    proc,      \* the llama-server processes
    shutdown   \* how far shutdown() got

client == <<req, arrived, armed, left>>
request == <<fut, state, ready, svc>>
worker == <<pc, slot, other, inflight>>
handle == <<active, idle, due, leaving, detached, proc>>
vars == <<client, queue, request, worker, handle, shutdown>>

Pcs == {"top", "loading", "refused", "swap", "gates", "health", "unhealthy",
        "active", "serve", "admit", "refill", "drain", "grace", "promote",
        "match", "held", "coldstop", "reap", "done"}
States == {"RECEIVED", "STAGED", "LOADING", "LOADING_FAIL", "ACTIVE_MATCH",
           "ACTIVE", "GRACE", "POPPED", "COLD"}

Init ==
    /\ req \in Mixes /\ arrived = 0 /\ armed = {} /\ left = {} /\ queue = {}
    /\ fut = [s \in Slots |-> "none"] /\ state = [s \in Slots |-> "RECEIVED"]
    /\ ready = {} /\ svc = [s \in Slots |-> "none"]
    /\ pc = "top" /\ slot = NoSlot /\ other = NoSlot /\ inflight = {}
    /\ active = NoSlot /\ idle = NoSlot /\ due = FALSE /\ leaving = NoSlot
    /\ detached = {} /\ proc = [s \in Slots |-> "none"]
    /\ shutdown = "no"

Stopped == shutdown # "no"   \* _stop_event is set
\* The worker resumes at p; a cancellation to be delivered comes first.
At(p) == pc = p /\ shutdown # "cancelling"

SameModel(s, t) == req[s].tag = req[t].tag
Width == Parallel[req[slot].tag]   \* handle.parallel

\* _fail_completion_future and set_result leave a settled future alone.
Settle(S, how) ==
    [s \in Slots |-> IF s \in S /\ fut[s] = "pending" THEN how ELSE fut[s]]
Fail(S) == Settle(S, "failed")
Walk(S, to) == [s \in Slots |-> IF s \in S THEN to ELSE state[s]]

Served(s) == svc[s] \in {"ok", "failed", "capped"}
\* What the worker makes of a finished exchange: only _complete_fn raises, a
\* route reports the end of its stream and nothing else.
Raised(s) == svc[s] = "failed" /\ s \notin ready
Outcome(s) == IF Raised(s) THEN "failed" ELSE "ok"

\* drained_sigterm's first step. A process that is gone needs no signal.
Signalled(p, h) == IF h # NoSlot /\ p[h] = "up" THEN [p EXCEPT ![h] = "termed"]
                   ELSE p
Gone(h) == proc[h] = "dead"
ActiveUp == IF active = NoSlot THEN FALSE ELSE proc[active] = "up"
ScannedButIdle ==   \* mutant: the sidecar in use is not among the known ones
    [h \in Slots |-> IF proc[h] = "up" /\ h # idle THEN "termed" ELSE proc[h]]
\* intra_lifetime_orphan_scan: signal what _live_handle_pids does not know.
Scanned == [h \in Slots |-> IF proc[h] = "up" /\ h \notin {active, idle}
                            THEN "termed" ELSE proc[h]]

-----------------------------------------------------------------------------
(* The world outside the worker: clients, routes, sidecars and the clock.  *)

\* submit: refused once the stop flag is set; the future is there before the
\* slot is queued. submit_for_streaming creates the events after submit returns.
Submit ==
    LET s == arrived + 1 IN
    /\ arrived < NumSlots /\ ~Stopped
    /\ arrived' = s
    /\ armed' = IF req[s].stream /\ ~LateArm THEN armed \cup {s} ELSE armed
    /\ queue' = queue \cup {s}
    /\ fut' = [fut EXCEPT ![s] = "pending"]
    /\ state' = [state EXCEPT ![s] = "STAGED"]
    /\ UNCHANGED <<req, left, ready, svc, worker, handle, shutdown>>

Arm(s) ==
    /\ LateArm /\ s <= arrived /\ req[s].stream /\ s \notin armed
    /\ armed' = armed \cup {s}
    /\ UNCHANGED <<req, arrived, left, queue, request, worker, handle, shutdown>>

Leave(s) ==
    /\ s \in (queue \cap Fallible) \ left
    /\ left' = left \cup {s}
    /\ UNCHANGED <<req, arrived, armed, queue, request, worker, handle, shutdown>>

\* _complete_fn returns or raises, or the route sets stream_done_event.
Finish(s) ==
    /\ svc[s] = "open"
    /\ \E how \in {IF ActiveUp THEN "ok" ELSE "failed"}
                 \cup (IF s \in Fallible THEN {"failed"} ELSE {}) :
          svc' = [svc EXCEPT ![s] = how]
    /\ UNCHANGED <<client, queue, fut, state, ready, worker, handle, shutdown>>

\* The worker stops waiting for a stream after an hour, the stream goes on.
CapStream(s) ==
    /\ svc[s] = "open" /\ s \in ready \cap Fallible
    /\ pc \in {"serve", "match", "drain"}
    /\ svc' = [svc EXCEPT ![s] = "capped"]
    /\ UNCHANGED <<client, queue, fut, state, ready, worker, handle, shutdown>>

\* A signalled process exits (drained_sigterm kills it after its window), a
\* fallible one may die on its own.
Exit(h) ==
    /\ proc[h] = "termed" \/ (proc[h] = "up" /\ h \in Fallible)
    /\ proc' = [proc EXCEPT ![h] = "dead"]
    /\ UNCHANGED <<client, queue, request, worker, active, idle, due, leaving,
                   detached, shutdown>>

ExpireIdle ==
    /\ idle # NoSlot /\ ~due /\ due' = TRUE
    /\ UNCHANGED <<client, queue, request, worker, active, idle, leaving,
                   detached, proc, shutdown>>

-----------------------------------------------------------------------------
(* Between two slots. The detached teardown of an expired holder takes its *)
(* first step, holder cleared and SIGTERM sent, before the worker looks at *)
(* the holder again, so it is part of the step that schedules it.          *)

ExpiredHolderKept == UNCHANGED handle   \* mutant: the expiry does nothing
DropExpiredHolder ==
    IF idle # NoSlot /\ due
    THEN /\ detached' = detached \cup {idle} /\ idle' = NoSlot /\ due' = FALSE
         /\ proc' = Signalled(proc, idle) /\ UNCHANGED <<active, leaving>>
    ELSE UNCHANGED handle

IdleTick ==
    /\ At("top") /\ ~Stopped /\ queue = {} /\ idle # NoSlot /\ due
    /\ DropExpiredHolder
    /\ UNCHANGED <<client, queue, request, worker, shutdown>>

PopEvicted(s) ==
    /\ At("top") /\ ~Stopped /\ s \in queue \cap left
    /\ queue' = queue \ {s} /\ fut' = Fail({s})
    /\ DropExpiredHolder
    /\ UNCHANGED <<client, state, ready, svc, worker, shutdown>>

\* The detached task ends: the holder is gone, orphans are scanned for.
DetachedEnd(h) ==
    /\ h \in detached /\ Gone(h)
    /\ detached' = detached \ {h} /\ proc' = Scanned
    /\ UNCHANGED <<client, queue, request, worker, active, idle, due, leaving,
                   shutdown>>

\* The loop's condition, once the stop flag is set.
Stop == /\ At("top") /\ Stopped /\ pc' = "done"
        /\ UNCHANGED <<client, queue, request, slot, other, inflight, handle,
                       shutdown>>

-----------------------------------------------------------------------------
(* One slot's life: STAGED to LOADING, a sidecar, ACTIVE.                  *)

\* Pop a slot and start it. A model without a manifest is refused at once if a
\* warm holder of another model is at risk, else it fails to load later.
Begin(s) ==
    /\ At("top") /\ ~Stopped /\ s \in queue \ left
    /\ queue' = queue \ {s} /\ slot' = s /\ state' = Walk({s}, "LOADING")
    /\ \/ pc' = "loading"
       \/ /\ s \in Fallible /\ idle # NoSlot /\ ~SameModel(idle, s)
          /\ pc' = "refused"
    /\ UNCHANGED <<client, fut, ready, svc, other, inflight, handle, shutdown>>

\* No sidecar was touched: the slot ends, the caller is told.
Refused ==
    /\ At("refused")
    /\ pc' = "top" /\ slot' = NoSlot
    /\ fut' = Fail({slot}) /\ state' = Walk({slot}, "POPPED")
    /\ UNCHANGED <<client, queue, ready, svc, other, inflight, handle, shutdown>>

Inheritable == idle # NoSlot /\ SameModel(idle, slot) /\ ~due

WarmInherit ==
    /\ At("loading") /\ Inheritable
    /\ active' = idle /\ idle' = NoSlot
    /\ pc' = "active" /\ state' = Walk({slot}, "ACTIVE")
    /\ UNCHANGED <<client, queue, fut, ready, svc, slot, other, inflight, due,
                   leaving, detached, proc, shutdown>>

\* Any other holder is torn down first.
ModelSwapSkipped ==   \* mutant: the spawn does not wait for the holder
    /\ At("loading") /\ ~Inheritable /\ pc' = "gates"
    /\ UNCHANGED <<client, queue, request, slot, other, inflight, handle,
                   shutdown>>
ModelSwap ==
    /\ At("loading") /\ ~Inheritable
    /\ leaving' = idle /\ idle' = NoSlot /\ due' = FALSE
    /\ proc' = Signalled(proc, idle)
    /\ pc' = IF idle = NoSlot THEN "gates" ELSE "swap"
    /\ UNCHANGED <<client, queue, request, slot, other, inflight, active,
                   detached, shutdown>>

Swapped ==
    /\ At("swap") /\ Gone(leaving)
    /\ pc' = "gates" /\ leaving' = NoSlot /\ proc' = Scanned
    /\ UNCHANGED <<client, queue, request, slot, other, inflight, active, idle,
                   due, detached, shutdown>>

GatesRefuse ==
    /\ At("gates") /\ slot \in Fallible
    /\ pc' = "refused" /\ state' = Walk({slot}, "LOADING_FAIL")
    /\ UNCHANGED <<client, queue, fut, ready, svc, slot, other, inflight, handle,
                   shutdown>>

Spawn ==
    /\ At("gates")
    /\ proc' = [proc EXCEPT ![slot] = "up"] /\ active' = slot
    /\ pc' = "health"
    /\ UNCHANGED <<client, queue, request, slot, other, inflight, idle, due,
                   leaving, detached, shutdown>>

\* _spawn raises: no handle to reap, the slot is parked COLD.
SpawnRaises ==
    /\ At("gates") /\ slot \in Fallible
    /\ pc' = "top" /\ slot' = NoSlot
    /\ fut' = Fail({slot}) /\ state' = Walk({slot}, "COLD")
    /\ UNCHANGED <<client, queue, ready, svc, other, inflight, handle, shutdown>>

Healthy ==
    /\ At("health") /\ proc[active] = "up"
    /\ pc' = "active" /\ state' = Walk({slot}, "ACTIVE")
    /\ UNCHANGED <<client, queue, fut, ready, svc, slot, other, inflight, handle,
                   shutdown>>

UnhealthyKept ==   \* mutant: the sidecar that never got healthy is not stopped
    /\ At("health") /\ (slot \in Fallible \/ proc[active] # "up")
    /\ pc' = "top" /\ slot' = NoSlot /\ active' = NoSlot
    /\ fut' = Fail({slot}) /\ state' = Walk({slot}, "POPPED")
    /\ UNCHANGED <<client, queue, ready, svc, other, inflight, idle, due, leaving,
                   detached, proc, shutdown>>
Unhealthy ==
    /\ At("health") /\ (slot \in Fallible \/ proc[active] # "up")
    /\ pc' = "unhealthy" /\ state' = Walk({slot}, "POPPED")
    /\ proc' = Signalled(proc, active)
    /\ UNCHANGED <<client, queue, fut, ready, svc, slot, other, inflight, active,
                   idle, due, leaving, detached, shutdown>>

\* _teardown ends: the handle is given up only now.
LoadingFailed ==
    /\ At("unhealthy") /\ Gone(active)
    /\ pc' = "top" /\ slot' = NoSlot /\ active' = NoSlot /\ proc' = Scanned
    /\ fut' = Fail({slot})
    /\ UNCHANGED <<client, queue, state, ready, svc, other, inflight, idle, due,
                   leaving, detached, shutdown>>

-----------------------------------------------------------------------------
(* ACTIVE. A serial slot whose events are not there yet is served as if it *)
(* did not stream.                                                         *)

SignalUnchecked(S) == ready' = ready \cup S   \* mutant: no None check
\* The event is set if it exists; the route opens its stream on that.
Signal(S) == ready' = ready \cup (S \cap armed)
Opened(S) == [s \in Slots |-> IF s \in S /\ svc[s] = "none" THEN "open"
                              ELSE svc[s]]

\* The exception leaves _process_slot through its finally, which reaps.
Raise == pc' = "reap" /\ proc' = Signalled(proc, active)

ServeSerial ==
    /\ At("active") /\ Width = 1
    /\ pc' = "serve" /\ Signal({slot}) /\ svc' = Opened({slot})
    /\ UNCHANGED <<client, queue, fut, state, slot, other, inflight, handle,
                   shutdown>>

Grace == /\ pc' = "grace" /\ state' = Walk({slot}, "GRACE")
         /\ UNCHANGED proc

\* The drain-before-swap assertion fails if a fan-out left riders behind.
ServedSerial ==
    /\ At("serve") /\ Served(slot)
    /\ fut' = IF Raised(slot) THEN fut ELSE Settle({slot}, "ok")
    /\ IF Raised(slot) \/ inflight # {} THEN Raise /\ UNCHANGED state ELSE Grace
    /\ UNCHANGED <<client, queue, ready, svc, slot, other, inflight, active, idle,
                   due, leaving, detached, shutdown>>

FanOut ==
    /\ At("active") /\ Width > 1
    /\ pc' = "admit" /\ inflight' = {slot}
    /\ Signal({slot}) /\ svc' = Opened({slot} \cap armed)
    /\ UNCHANGED <<client, queue, fut, state, slot, other, handle, shutdown>>

SameMode(s) == req[s].stream = req[slot].stream
RiderAnyModel(s) == SameMode(s)   \* mutant: a rider of another model
Rider(s) == SameModel(s, slot) /\ SameMode(s)

\* The rider admitted last has its audit behind it: tell its route.
TellRider == Signal({other}) /\ svc' = Opened({other} \cap armed)

AdmitEvictedUntold(s) ==   \* mutant: the client that left is not answered
    /\ At("admit") \/ At("refill")
    /\ Cardinality(inflight) < Width
    /\ s \in queue \cap left /\ Rider(s)
    /\ queue' = queue \ {s} /\ other' = NoSlot /\ TellRider
    /\ UNCHANGED <<client, fut, state, pc, slot, inflight, handle, shutdown>>
AdmitEvicted(s) ==
    /\ At("admit") \/ At("refill")
    /\ Cardinality(inflight) < Width
    /\ s \in queue \cap left /\ Rider(s)
    /\ queue' = queue \ {s} /\ fut' = Fail({s}) /\ other' = NoSlot /\ TellRider
    /\ UNCHANGED <<client, state, pc, slot, inflight, handle, shutdown>>

Admit(s) ==
    /\ At("admit") \/ At("refill")
    /\ Cardinality(inflight) < Width
    /\ s \in queue \ left /\ Rider(s)
    /\ queue' = queue \ {s} /\ inflight' = inflight \cup {s}
    /\ other' = s /\ TellRider
    /\ state' = Walk({s}, "ACTIVE")
    /\ UNCHANGED <<client, fut, pc, slot, handle, shutdown>>

AwaitsRiders ==   \* mutant: an empty queue does not end the admission
    Cardinality(inflight) >= Width \/ \E s \in queue : ~Rider(s)
\* The batch is full, or the queue empty, or the popped slot is no rider and
\* goes back to the head.
NoMoreRiders == \/ Cardinality(inflight) >= Width
                \/ queue = {}
                \/ \E s \in queue : ~Rider(s)

\* The one-shot admission is over. Streaming: wait for every route, whose
\* events are assumed to exist. Else start the exchanges and look once more.
Dispatch ==
    /\ At("admit") /\ NoMoreRiders
    /\ other' = NoSlot /\ Signal({other})
    /\ IF ~req[slot].stream
       THEN pc' = "refill" /\ svc' = Opened(inflight) /\ UNCHANGED proc
       ELSE /\ svc' = Opened({other} \cap armed)
            /\ IF inflight \subseteq armed THEN pc' = "drain" /\ UNCHANGED proc
               ELSE Raise
    /\ UNCHANGED <<client, queue, fut, state, slot, inflight, active, idle, due,
                   leaving, detached, shutdown>>

\* The refill is over: the exchanges of the new riders start; no rider left
\* means that the anchor moves on.
Refilled ==
    /\ At("refill") /\ NoMoreRiders
    /\ other' = NoSlot /\ svc' = Opened(inflight)
    /\ IF inflight = {} THEN Grace ELSE pc' = "drain" /\ UNCHANGED <<state, proc>>
    /\ UNCHANGED <<client, queue, fut, ready, slot, inflight, active, idle, due,
                   leaving, detached, shutdown>>

NotParked(s) == state   \* mutant: the rider's slot stays ACTIVE
\* A rider is parked COLD, the anchor goes on to GRACE with its batch.
Parked(s) == Walk({s} \ {slot}, "COLD")

\* One finished member of the batch: only its own caller sees its failure.
Drain(s) ==
    /\ At("drain") /\ s \in inflight /\ Served(s)
    /\ fut' = Settle({s}, Outcome(s)) /\ inflight' = inflight \ {s}
    /\ IF inflight' = {} /\ req[slot].stream
       THEN pc' = "grace" /\ state' = [Parked(s) EXCEPT ![slot] = "GRACE"]
       ELSE state' = Parked(s) /\ UNCHANGED pc
    /\ UNCHANGED <<client, queue, ready, svc, slot, other, handle, shutdown>>

\* A non-streaming batch polls the queue while it drains, and once more when the
\* last exchange has ended.
Refill ==
    /\ At("drain") /\ ~req[slot].stream
    /\ \A s \in inflight : ~Served(s)
    /\ inflight = {} \/ (queue # {} /\ Cardinality(inflight) < Width)
    /\ pc' = "refill"
    /\ UNCHANGED <<client, queue, request, slot, other, inflight, handle, shutdown>>

-----------------------------------------------------------------------------
(* GRACE: follow-ups of the same conversation, then the sidecar is held    *)
(* warm (idle_seconds > 0) or torn down.                                   *)

\* pop_matched_thread: the client of a matched slot may have left.
Match(s) ==
    /\ At("grace") /\ ~Stopped
    /\ s \in queue /\ SameModel(s, slot) /\ req[s].thread = req[slot].thread
    /\ queue' = queue \ {s} /\ other' = s
    /\ pc' = "promote" /\ state' = Walk({s}, "ACTIVE_MATCH")
    /\ UNCHANGED <<client, fut, ready, svc, slot, inflight, handle, shutdown>>

\* The promotion's audit is over. A stream without events fails on its own.
Promoted ==
    /\ At("promote")
    /\ IF req[other].stream /\ other \notin armed
       THEN /\ pc' = "grace" /\ other' = NoSlot
            /\ fut' = Fail({other}) /\ state' = Walk({other}, "POPPED")
            /\ UNCHANGED <<ready, svc>>
       ELSE /\ pc' = "match" /\ state' = Walk({other}, "ACTIVE")
            /\ Signal({other}) /\ svc' = Opened({other})
            /\ UNCHANGED <<other, fut>>
    /\ UNCHANGED <<client, queue, slot, inflight, handle, shutdown>>

MatchServed ==
    /\ At("match") /\ Served(other)
    /\ pc' = "grace" /\ other' = NoSlot
    /\ fut' = Settle({other}, Outcome(other)) /\ state' = Walk({other}, "POPPED")
    /\ UNCHANGED <<client, queue, ready, svc, slot, inflight, handle, shutdown>>

HoldIdle ==
    /\ At("grace")
    /\ idle' = active /\ due' = FALSE
    /\ pc' = "held" /\ state' = Walk({slot}, "POPPED")
    /\ UNCHANGED <<client, queue, fut, ready, svc, slot, other, inflight, active,
                   leaving, detached, proc, shutdown>>

\* The finally finds the handle in the idle holder and lets go of it.
Held ==
    /\ At("held")
    /\ pc' = "top" /\ slot' = NoSlot /\ active' = NoSlot
    /\ UNCHANGED <<client, queue, request, other, inflight, idle, due, leaving,
                   detached, proc, shutdown>>

TearDown ==
    /\ At("grace")
    /\ pc' = "coldstop" /\ state' = Walk({slot}, "POPPED")
    /\ proc' = Signalled(proc, active)
    /\ UNCHANGED <<client, queue, fut, ready, svc, slot, other, inflight, active,
                   idle, due, leaving, detached, shutdown>>

TornDown ==
    /\ At("coldstop") /\ Gone(active)
    /\ pc' = "top" /\ slot' = NoSlot /\ active' = NoSlot /\ proc' = Scanned
    /\ UNCHANGED <<client, queue, request, other, inflight, idle, due, leaving,
                   detached, shutdown>>

\* The finally has reaped the sidecar. After an exception worker_loop fails the
\* caller, parks the slot COLD and goes on; a cancellation ends it.
Reaped ==
    /\ At("reap") /\ Gone(active)
    /\ active' = NoSlot /\ slot' = NoSlot /\ other' = NoSlot
    /\ IF shutdown = "unwinding"
       THEN pc' = "done" /\ UNCHANGED <<fut, state>>
       ELSE pc' = "top" /\ fut' = Fail({slot}) /\ state' = Walk({slot}, "COLD")
    /\ UNCHANGED <<client, queue, ready, svc, inflight, idle, due, leaving,
                   detached, proc, shutdown>>

-----------------------------------------------------------------------------
(* shutdown(): the flag, the cancellation of the worker, the queue, the    *)
(* idle holder.                                                            *)

ShutdownBegins ==
    /\ ShutsDown /\ shutdown = "no" /\ shutdown' = "stopping"
    /\ UNCHANGED <<client, queue, request, worker, handle>>

CancelWorker ==
    /\ shutdown = "stopping"
    /\ shutdown' = IF pc = "done" THEN "unwinding" ELSE "cancelling"
    /\ UNCHANGED <<client, queue, request, worker, handle>>

\* CancelledError at the worker's await. Where _process_slot has the handle its
\* finally reaps it; a second cancellation of that reaping ends the worker.
Cancelled ==
    /\ shutdown = "cancelling" /\ shutdown' = "unwinding"
    /\ IF pc \in {"top", "loading", "refused", "swap", "gates", "held", "reap"}
       THEN /\ pc' = "done"
            /\ active' = IF pc = "held" THEN NoSlot ELSE active
            /\ UNCHANGED proc
       ELSE Raise /\ UNCHANGED active
    \* The drain of a non-streaming batch, and a matched follow-up, answer
    \* their callers; a streaming batch and the match release the routes.
    /\ fut' = CASE pc = "match" -> Fail({other})
                 [] pc \in {"drain", "refill"} /\ ~req[slot].stream -> Fail(inflight)
                 [] OTHER -> fut
    /\ svc' = CASE pc = "match" -> [svc EXCEPT ![other] = "failed"]
                 [] pc \in {"drain", "refill"} ->
                      [s \in Slots |-> IF s \in inflight THEN "failed" ELSE svc[s]]
                 [] OTHER -> svc
    /\ inflight' = IF pc \in {"drain", "refill"} THEN {} ELSE inflight
    /\ UNCHANGED <<client, queue, state, ready, slot, other, idle, due, leaving,
                   detached>>

CloseQueueKeepsHolder ==   \* mutant: shutdown forgets the warm sidecar
    /\ shutdown = "unwinding" /\ pc = "done"
    /\ fut' = Fail(queue) /\ queue' = {}
    /\ shutdown' = "closed"
    /\ UNCHANGED <<client, state, ready, svc, worker, handle>>
CloseQueue ==
    /\ shutdown = "unwinding" /\ pc = "done"
    /\ fut' = Fail(queue) /\ queue' = {}
    /\ leaving' = idle /\ idle' = NoSlot /\ due' = FALSE
    /\ proc' = Signalled(proc, idle)
    /\ shutdown' = IF idle = NoSlot THEN "closed" ELSE "closing"
    /\ UNCHANGED <<client, state, ready, svc, worker, active, detached>>

ShutdownEnds ==
    /\ shutdown = "closing" /\ Gone(leaving)
    /\ shutdown' = "closed" /\ leaving' = NoSlot /\ proc' = Scanned
    /\ UNCHANGED <<client, queue, request, worker, active, idle, due, detached>>

-----------------------------------------------------------------------------
WorkerStep ==
    \/ IdleTick \/ Stop \/ Refused \/ WarmInherit \/ ModelSwap \/ Swapped
    \/ GatesRefuse \/ Spawn \/ SpawnRaises \/ Healthy \/ Unhealthy \/ LoadingFailed
    \/ ServeSerial \/ ServedSerial \/ FanOut \/ Dispatch \/ Refill \/ Refilled
    \/ Promoted \/ MatchServed \/ HoldIdle \/ Held \/ TearDown \/ TornDown \/ Reaped
    \/ \E s \in Slots : \/ PopEvicted(s) \/ Begin(s) \/ Admit(s) \/ AdmitEvicted(s)
                        \/ Drain(s) \/ Match(s)

World == \/ Submit \/ ExpireIdle
         \/ \E s \in Slots : \/ Arm(s) \/ Leave(s) \/ Finish(s) \/ CapStream(s)
                             \/ Exit(s) \/ DetachedEnd(s)

Shutdown == ShutdownBegins \/ CancelWorker \/ Cancelled \/ CloseQueue \/ ShutdownEnds

Next == WorkerStep \/ World \/ Shutdown

\* The event loop runs a task that can run; an exchange ends, a signalled
\* process exits, events are created, the holder's clock runs out.
Fairness == /\ WF_vars(WorkerStep)
            /\ WF_vars(ExpireIdle)
            /\ \A s \in Slots : /\ WF_vars(Finish(s)) /\ WF_vars(Arm(s))
                               /\ WF_vars(proc[s] = "termed" /\ Exit(s))
                               /\ WF_vars(DetachedEnd(s))

Spec == Init /\ [][Next]_vars
FairSpec == Spec /\ Fairness

-----------------------------------------------------------------------------
TypeOK ==
    /\ req \in Mixes /\ arrived \in 0 .. NumSlots
    /\ armed \subseteq 1 .. arrived /\ left \subseteq 1 .. arrived
    /\ queue \subseteq 1 .. arrived /\ ready \subseteq armed
    /\ fut \in [Slots -> {"none", "pending", "ok", "failed"}]
    /\ state \in [Slots -> States]
    /\ svc \in [Slots -> {"none", "open", "ok", "failed", "capped"}]
    /\ pc \in Pcs /\ slot \in Slots \cup {NoSlot} /\ other \in Slots \cup {NoSlot}
    /\ inflight \subseteq Slots
    /\ active \in Slots \cup {NoSlot} /\ idle \in Slots \cup {NoSlot}
    /\ leaving \in Slots \cup {NoSlot} /\ detached \subseteq Slots
    /\ due \in BOOLEAN
    /\ proc \in [Slots -> {"none", "up", "termed", "dead"}]
    /\ shutdown \in {"no", "stopping", "cancelling", "unwinding", "closing",
                      "closed"}

\* No sidecar is lost (manager.py:3344-3384): a process nobody has signalled is
\* the active handle or the idle holder, so some later step stops it, and the
\* orphan scans of the teardowns never find a managed sidecar.
HandleTracked == \A h \in Slots : proc[h] = "up" => h \in {active, idle}

\* The single-sidecar path never lets a second model into VRAM while the first
\* one still runs unsignalled (manager.py:2504-2508, 2632-2641).
OneUnsignalled ==
    \A g, h \in Slots : proc[g] = "up" /\ proc[h] = "up" => g = h

\* The warm holder, a fan-out and a match all lend a sidecar to a slot it was
\* not spawned for (2096-2127, 2484-2496, 2772-2774): the model is the slot's own.
ServedByOwnModel ==
    \A s \in Slots : svc[s] = "open" /\ active # NoSlot => SameModel(s, active)

\* When the worker is ready for its next slot, every earlier one is at the end
\* of the state machine: no rider, matched follow-up or failed slot is left
\* ACTIVE or LOADING (1090-1106, 2207-2216, 2897-2927).
NoZombieSlot ==
    pc = "top" /\ ~Stopped =>
        \A s \in 1 .. arrived : s \in queue \cup left \/ state[s] \in {"POPPED", "COLD"}

\* Until the worker is cancelled a caller that waits is waited for: its slot is
\* queued or in the worker's hands (1090-1106, 2108-2115, 2272-2280, 2382-2396).
OwnedWhilePending ==
    shutdown \in {"no", "stopping", "cancelling"} =>
        \A s \in Slots : fut[s] = "pending" =>
            s \in queue \cup inflight \cup {slot, other}

\* shutdown() leaves no sidecar that was not signalled, wherever the worker was
\* when it was cancelled (3003-3068, 3641-3649).
ShutdownStopsSidecars ==
    shutdown = "closed" => \A h \in Slots : proc[h] # "up"

\* Nobody stops the sidecar a request is being served on (2742-2748: riders
\* drain before the anchor moves on), short of a shutdown.
SignalSparesService ==
    [][\A h \in Slots :
          proc[h] = "up" /\ proc'[h] = "termed" /\ h = active /\ ~Stopped =>
              \A s \in Slots : svc[s] # "open"]_vars

\* Whatever fails on the way, the worker comes round to every request: its
\* future is settled, short of a shutdown (1090-1106, 490-494).
EveryRequestSettled ==
    \A s \in Slots : fut[s] = "pending" ~> fut[s] # "pending" \/ Stopped

\* A warm holder does not keep its VRAM for good: it is inherited, swapped out
\* or torn down, by shutdown at the latest (1002-1031, 2484-2508).
IdleHolderReleased == idle # NoSlot ~> idle = NoSlot \/ Stopped

\* README.md:12, "Single-slot serial sidecar (one llama-server child holds the
\* model)": not while the detached teardown of an expired holder still waits
\* for its process (1022) and the next slot spawns on the same port.
OneSidecar ==
    \A g, h \in Slots :
        proc[g] \in {"up", "termed"} /\ proc[h] \in {"up", "termed"} => g = h

\* manager.py:477, "still attach future so error paths surface": the route of a
\* stream awaits stream_ready_event and never the future, so a slot that fails
\* before it is served leaves its client on keep-alives.
StreamCallerTold ==
    \A s \in Slots : s \in queue /\ req[s].stream ~> s \in ready \cup left
=============================================================================
