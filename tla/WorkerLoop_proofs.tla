------------------------- MODULE WorkerLoop_proofs -------------------------
(***************************************************************************)
(* The single-sidecar worker: proofs, for every number of requests, all    *)
(* mixes of models, threads and modes, and every width, that no sidecar is *)
(* lost and two never run unsignalled, that shutdown stops what runs, that *)
(* a request is served by its own model and that the worker forgets none.  *)
(*                                                                         *)
(* Tracked says which handles are held at each place of the worker: a step *)
(* that lets go of one has signalled it, or put it where the next looks.   *)
(* It needs no assumption. Hands says what the worker has in hand: the     *)
(* anchor, the rider or follow-up, the batch, whose exchange is open and   *)
(* whose caller waits. It holds where a fan-out finds the events of its    *)
(* streams (EventsInTime): no model fans out, or the events are there as   *)
(* soon as a slot is queued. A fan-out that misses them raises and leaves  *)
(* its riders behind.                                                      *)
(***************************************************************************)
EXTENDS WorkerLoop, TLAPS

\* Where the worker holds a sidecar for the slot in hand.
Manned == {"health", "unhealthy", "active", "serve", "admit", "refill", "drain",
           "grace", "promote", "match", "held", "coldstop", "reap"}
\* Where that sidecar serves or may serve.
Serving == {"active", "serve", "admit", "refill", "drain", "grace", "promote", "match"}
FansOut == {"admit", "refill", "drain"}

Tracked ==
    /\ HandleTracked
    /\ pc \in Pcs \ (Manned \cup {"done"}) => active = NoSlot
    /\ pc \in Manned => active \in Slots
    /\ pc \notin {"top", "loading", "refused", "held", "done"} => idle = NoSlot
    /\ pc = "held" => idle = active
    /\ pc \in {"reap", "done"} /\ active # NoSlot => proc[active] # "up"
    /\ shutdown \in {"closing", "closed"} => pc = "done" /\ idle = NoSlot

\* The cancellation has not reached the worker.
Early == shutdown \in {"no", "stopping", "cancelling"}
Over(s) == state[s] \in {"POPPED", "COLD"}

\* Every model serves one request at a time: no batch is ever formed.
NoFanOut == \A mix \in Mixes, s \in Slots : Parallel[mix[s].tag] = 1
\* A fan-out finds the events of every stream of its batch.
EventsInTime == ~LateArm \/ NoFanOut

\* Which of the worker's places are filled.
Filled ==
    /\ ~LateArm => \A s \in 1 .. arrived : req[s].stream => s \in armed
    /\ NoFanOut => pc \notin FansOut
    /\ slot \in (1 .. arrived) \cup {NoSlot} /\ inflight \subseteq 1 .. arrived
    /\ pc \notin {"top", "done"} => slot # NoSlot
    /\ pc = "top" => slot = NoSlot
    /\ pc \in {"promote", "match"} => other # NoSlot
    /\ ~Early => pc \in {"reap", "done"}
    /\ Early /\ pc \notin FansOut => inflight = {}
    /\ Early /\ pc \notin {"admit", "refill", "promote", "match"} => other = NoSlot
    /\ pc \in {"admit", "refill"} => other \in inflight \cup {NoSlot}

\* Whose model the sidecar has, and whose exchange with it is open.
OneModel ==
    /\ ServedByOwnModel
    /\ pc \in Serving \cup {"health"} => SameModel(slot, active)
    /\ pc \in FansOut => \A s \in inflight : SameModel(s, slot) /\ SameMode(s)
    /\ pc \in {"promote", "match"} => SameModel(other, slot)
    /\ Early => \A s \in Slots : svc[s] = "open" =>
                    \/ pc = "serve" /\ s = slot
                    \/ pc = "match" /\ s = other
                    \/ pc \in FansOut /\ s \in inflight

\* Whose caller waits, and who is at the end of the state machine.
InHand ==
    /\ OwnedWhilePending
    /\ pc \in {"grace", "promote", "match", "held", "coldstop"} => fut[slot] # "pending"
    /\ pc \in {"drain", "refill"} /\ slot \notin inflight => fut[slot] # "pending"
    /\ pc = "admit" => slot \in inflight
    /\ Early => \A s \in 1 .. arrived :
                    s \in queue \cup left \cup inflight \cup {slot, other} \/ Over(s)
    /\ pc \in {"unhealthy", "held", "coldstop"} => state[slot] = "POPPED"

NoneOpen == \A s \in Slots : svc[s] # "open"

Hands == Filled /\ OneModel /\ InHand

-----------------------------------------------------------------------------
(* Types.                                                                   *)

Futures == {"none", "pending", "ok", "failed"}
Exchanges == {"none", "open", "ok", "failed", "capped"}
Processes == {"none", "up", "termed", "dead"}

\* What the helpers return is of the field's type.
LEMMA HelpersTyped ==
    ASSUME TypeOK
    PROVE  /\ \A S : /\ Fail(S) \in [Slots -> Futures] /\ Opened(S) \in [Slots -> Exchanges]
                     /\ Settle(S, "ok") \in [Slots -> Futures]
           /\ \A S : \A to \in States : Walk(S, to) \in [Slots -> States]
           /\ \A h : Signalled(proc, h) \in [Slots -> Processes]
           /\ Scanned \in [Slots -> Processes]
           /\ \A s : Outcome(s) \in {"ok", "failed"}
           /\ \A s : Settle({s}, Outcome(s)) \in [Slots -> Futures]
           /\ \A S : ready \cup (S \cap armed) \subseteq armed
<1>1. /\ fut \in [Slots -> Futures] /\ svc \in [Slots -> Exchanges]
      /\ state \in [Slots -> States] /\ proc \in [Slots -> Processes] /\ ready \subseteq armed
  BY DEF TypeOK, Futures, Exchanges, Processes
<1>2. /\ \A S : Fail(S) \in [Slots -> Futures]
      /\ \A S : Settle(S, "ok") \in [Slots -> Futures]
  BY <1>1 DEF Fail, Settle, Futures
<1>3. \A S : Opened(S) \in [Slots -> Exchanges]
  BY <1>1 DEF Opened, Exchanges
<1>4. \A S : \A to \in States : Walk(S, to) \in [Slots -> States]
  BY <1>1 DEF Walk
<1>5. \A h : Signalled(proc, h) \in [Slots -> Processes]
  BY <1>1 DEF Signalled, Processes
<1>6. Scanned \in [Slots -> Processes]
  BY <1>1 DEF Scanned, Processes
<1>7. /\ \A s : Outcome(s) \in {"ok", "failed"}
      /\ \A s : Settle({s}, Outcome(s)) \in [Slots -> Futures]
  BY <1>1 DEF Outcome, Settle, Futures
<1> QED BY <1>1, <1>2, <1>3, <1>4, <1>5, <1>6, <1>7

\* The words the steps write.
LEMMA Names ==
    /\ "LOADING" \in States /\ "POPPED" \in States /\ "LOADING_FAIL" \in States
    /\ "COLD" \in States /\ "ACTIVE" \in States /\ "GRACE" \in States
    /\ "ACTIVE_MATCH" \in States /\ "STAGED" \in States
    /\ "done" \in Pcs /\ Manned \subseteq Pcs
    /\ "top" \in Pcs /\ "loading" \in Pcs /\ "refused" \in Pcs /\ "swap" \in Pcs
    /\ "gates" \in Pcs
BY DEF States, Pcs, Manned

\* TypeOK, with names for the types; between two slots alone there
\* is no anchor, and only a worker that has not ended is cancelled.
Typed ==
    /\ req \in Mixes /\ arrived \in 0 .. NumSlots
    /\ armed \subseteq 1 .. arrived /\ left \subseteq 1 .. arrived
    /\ queue \subseteq 1 .. arrived /\ ready \subseteq armed
    /\ fut \in [Slots -> Futures] /\ state \in [Slots -> States]
    /\ svc \in [Slots -> Exchanges]
    /\ pc \in Pcs /\ slot \in Slots \cup {NoSlot} /\ other \in Slots \cup {NoSlot}
    /\ inflight \subseteq Slots
    /\ active \in Slots \cup {NoSlot} /\ idle \in Slots \cup {NoSlot}
    /\ leaving \in Slots \cup {NoSlot} /\ detached \subseteq Slots
    /\ pc \notin {"top", "done"} => slot # NoSlot
    /\ shutdown = "cancelling" => pc # "done"
    /\ due \in BOOLEAN /\ proc \in [Slots -> Processes]
    /\ shutdown \in {"no", "stopping", "cancelling", "unwinding", "closing", "closed"}

LEMMA TypedIsTypeOK == Typed => TypeOK
BY DEF TypeOK, Typed, Futures, Exchanges, Processes

\* Steps of the clients, the routes, the processes and the clock.
LEMMA WorldTyped == ASSUME Typed, World PROVE Typed'
<1>1. /\ TypeOK /\ Scanned \in [Slots -> Processes]
      /\ \A h : Signalled(proc, h) \in [Slots -> Processes]
  BY TypedIsTypeOK, HelpersTyped
<1>2. CASE Submit
  <2>1. /\ arrived + 1 \in Slots /\ arrived + 1 \in 0 .. NumSlots
        /\ 1 .. arrived \subseteq 1 .. arrived + 1 /\ arrived + 1 \in 1 .. arrived + 1
    BY <1>2, NumSlotsAssumption DEF Submit, Slots, Typed
  <2>2. /\ arrived' = arrived + 1 /\ armed' \subseteq armed \cup {arrived + 1}
        /\ armed \subseteq armed' /\ queue' = queue \cup {arrived + 1}
        /\ fut' = [fut EXCEPT ![arrived + 1] = "pending"]
        /\ state' = [state EXCEPT ![arrived + 1] = "STAGED"]
        /\ UNCHANGED <<req, left, ready, svc, worker, handle, shutdown>>
    BY <1>2 DEF Submit
  <2>3. fut' \in [Slots -> Futures] /\ state' \in [Slots -> States]
    BY <2>2, Names DEF Typed, Futures
  <2> QED BY <2>1, <2>2, <2>3 DEF Typed, worker, handle
<1>3. ASSUME NEW s \in Slots, Arm(s) \/ Leave(s) \/ Finish(s) \/ CapStream(s)
      PROVE  Typed'
  <2>1. CASE Arm(s)
    <3>1. s \in 1 .. arrived
      BY <2>1 DEF Arm, Slots, Typed
    <3> QED BY <2>1, <3>1 DEF Arm, Typed, request, worker, handle
  <2>2. CASE Leave(s)
    BY <2>2 DEF Leave, Typed, request, worker, handle
  <2>3. CASE Finish(s) \/ CapStream(s)
    <3>1. svc' \in [Slots -> Exchanges]
      BY <2>3 DEF Finish, CapStream, Typed, Exchanges
    <3>2. UNCHANGED <<client, queue, fut, state, ready, worker, handle, shutdown>>
      BY <2>3 DEF Finish, CapStream
    <3> QED BY <3>1, <3>2 DEF Typed, client, worker, handle
  <2> QED BY <1>3, <2>1, <2>2, <2>3
<1>4. ASSUME NEW h \in Slots, Exit(h) \/ DetachedEnd(h)
      PROVE  Typed'
  <2>1. proc' \in [Slots -> Processes]
    BY <1>1, <1>4 DEF Exit, DetachedEnd, Typed, Processes
  <2>2. /\ UNCHANGED <<client, queue, request, worker, active, idle, due, leaving, shutdown>>
        /\ detached' \subseteq detached
    BY <1>4 DEF Exit, DetachedEnd
  <2> QED BY <2>1, <2>2 DEF Typed, client, request, worker
<1>5. CASE ExpireIdle
  BY <1>5 DEF ExpireIdle, Typed, client, request, worker
<1> QED BY <1>2, <1>3, <1>4, <1>5 DEF World

\* Between two slots, and while a slot gets its sidecar.
LEMMA StartTyped ==
    ASSUME Typed,
           \/ IdleTick \/ Stop \/ Refused \/ WarmInherit \/ ModelSwap \/ Swapped \/ GatesRefuse
           \/ Spawn \/ SpawnRaises \/ Healthy \/ Unhealthy \/ LoadingFailed
           \/ \E s \in Slots : PopEvicted(s) \/ Begin(s)
    PROVE  Typed'
<1>1. /\ \A S : Fail(S) \in [Slots -> Futures]
      /\ \A S : \A to \in States : Walk(S, to) \in [Slots -> States]
      /\ \A h : Signalled(proc, h) \in [Slots -> Processes]
      /\ Scanned \in [Slots -> Processes]
  BY TypedIsTypeOK, HelpersTyped
<1>2. 1 .. arrived \subseteq Slots
  BY NumSlotsAssumption DEF Typed, Slots
<1>3. CASE IdleTick \/ \E s \in Slots : PopEvicted(s)
  <2>1. UNCHANGED handle \/ /\ detached' \subseteq detached \cup {idle} /\ idle # NoSlot
                            /\ idle' = NoSlot /\ due' = FALSE
                            /\ proc' = Signalled(proc, idle) /\ UNCHANGED <<active, leaving>>
    BY <1>3 DEF IdleTick, PopEvicted, DropExpiredHolder
  <2>2. /\ proc' \in [Slots -> Processes] /\ detached' \subseteq Slots
        /\ due' \in BOOLEAN /\ active' \in Slots \cup {NoSlot}
        /\ idle' \in Slots \cup {NoSlot} /\ leaving' \in Slots \cup {NoSlot}
    BY <1>1, <2>1 DEF Typed, handle
  <2>3. /\ UNCHANGED <<client, state, ready, svc, worker, shutdown>>
        /\ queue' \subseteq queue /\ (fut' = fut \/ \E S : fut' = Fail(S))
        /\ shutdown # "cancelling"
    BY <1>3 DEF IdleTick, PopEvicted, request, At
  <2> QED BY <1>1, <2>2, <2>3 DEF Typed, client, worker
<1>4. CASE Stop \/ Refused \/ WarmInherit \/ GatesRefuse \/ SpawnRaises \/ Healthy
           \/ \E s \in Slots : Begin(s)
  <2>1. /\ UNCHANGED <<client, ready, svc, other, inflight, due, leaving, detached, proc, shutdown>>
        /\ queue' \subseteq queue /\ (fut' = fut \/ \E S : fut' = Fail(S))
        /\ (state' = state \/ \E S : \E to \in States : state' = Walk(S, to))
        /\ active' \in {active, idle} /\ idle' \in {idle, NoSlot}
        /\ slot' \in Slots \cup {NoSlot} /\ pc' \in Pcs
        /\ pc' \notin {"top", "done"} => slot' # NoSlot
        /\ shutdown # "cancelling"
    BY <1>4, NumSlotsAssumption, Names DEF Stop, Refused, WarmInherit, GatesRefuse, SpawnRaises, Healthy,
                       Begin, At, handle, worker, request, Typed, Manned
  <2> QED BY <1>1, <2>1 DEF Typed, client
<1>5. CASE ModelSwap \/ Swapped \/ Spawn \/ Unhealthy \/ LoadingFailed
  <2>1. /\ UNCHANGED <<client, queue, ready, svc, other, inflight, detached, shutdown>>
        /\ (fut' = fut \/ \E S : fut' = Fail(S))
        /\ (state' = state \/ \E S : \E to \in States : state' = Walk(S, to))
        /\ active' \in {active, slot, NoSlot} /\ idle' \in {idle, NoSlot}
        /\ leaving' \in {leaving, idle, NoSlot} /\ due' \in {due, FALSE}
        /\ slot' \in {slot, NoSlot} /\ pc' \in Pcs
        /\ pc' \notin {"top", "done"} => slot' # NoSlot
        /\ shutdown # "cancelling"
    BY <1>5, Names DEF ModelSwap, Swapped, Spawn, Unhealthy, LoadingFailed,
                       worker, request, Manned, At, Typed
  <2>2. proc' \in [Slots -> Processes]
    BY <1>1, <1>5 DEF ModelSwap, Swapped, Spawn, Unhealthy, LoadingFailed, Typed, Processes
  <2>3. /\ fut' \in [Slots -> Futures] /\ state' \in [Slots -> States]
    BY <1>1, <2>1 DEF Typed
  <2>4. /\ active' \in Slots \cup {NoSlot} /\ idle' \in Slots \cup {NoSlot}
        /\ leaving' \in Slots \cup {NoSlot} /\ slot' \in Slots \cup {NoSlot}
    BY <2>1 DEF Typed
  <2>5. due' \in BOOLEAN
    BY <2>1 DEF Typed
  <2> QED BY <2>1, <2>2, <2>3, <2>4, <2>5 DEF Typed, client
<1> QED BY <1>3, <1>4, <1>5

\* A slot is served, alone or in a batch.
LEMMA ServeTyped ==
    ASSUME Typed,
           \/ ServeSerial \/ ServedSerial \/ FanOut \/ Dispatch \/ Refill \/ Refilled
           \/ \E s \in Slots : Admit(s) \/ AdmitEvicted(s) \/ Drain(s)
    PROVE  Typed'
<1>1. /\ \A S : Fail(S) \in [Slots -> Futures] /\ Opened(S) \in [Slots -> Exchanges]
      /\ \A S : Settle(S, "ok") \in [Slots -> Futures]
      /\ \A s : Settle({s}, Outcome(s)) \in [Slots -> Futures]
      /\ \A S : \A to \in States : Walk(S, to) \in [Slots -> States]
      /\ Signalled(proc, active) \in [Slots -> Processes]
      /\ \A S : ready \cup (S \cap armed) \subseteq armed
  BY TypedIsTypeOK, HelpersTyped
<1>2. 1 .. arrived \subseteq Slots
  BY NumSlotsAssumption DEF Typed, Slots
<1>3. CASE ServeSerial \/ FanOut \/ Dispatch \/ Refill \/ Refilled \/ ServedSerial
  <2>1. /\ UNCHANGED <<client, queue, slot, active, idle, due, leaving, detached, shutdown>>
        /\ \/ fut' = fut \/ fut' = Settle({slot}, "ok")
        /\ \/ ready' = ready \/ \E S : ready' = ready \cup (S \cap armed)
    BY <1>3 DEF ServeSerial, FanOut, Dispatch, Refill, Refilled, ServedSerial, Signal,
                request, handle
  <2>2. /\ \/ state' = state \/ \E S : \E to \in States : state' = Walk(S, to)
        /\ \/ svc' = svc \/ \E S : svc' = Opened(S)
        /\ \/ proc' = proc \/ proc' = Signalled(proc, active)
    BY <1>3, Names DEF ServeSerial, FanOut, Dispatch, Refill, Refilled, ServedSerial,
                       Raise, Grace, request, handle
  <2>3. /\ pc' \in Pcs /\ other' \in {other, NoSlot} /\ inflight' \in {inflight, {slot}}
        /\ pc \notin {"top", "done"} /\ shutdown # "cancelling"
    BY <1>3, Names DEF At, ServeSerial, FanOut, Dispatch, Refill, Refilled, ServedSerial,
                       Raise, Grace, Manned
  <2> QED BY <1>1, <2>1, <2>2, <2>3 DEF Typed, client
<1>4. ASSUME NEW s \in Slots, Admit(s) \/ AdmitEvicted(s) \/ Drain(s)
      PROVE  Typed'
  <2>1. /\ UNCHANGED <<client, slot, handle, shutdown>> /\ pc' \in {pc, "grace"}
        /\ pc \notin {"top", "done"} /\ shutdown # "cancelling"
        /\ queue' \subseteq queue /\ other' \in {s, other, NoSlot}
        /\ inflight' \subseteq inflight \cup {s}
        /\ \/ ready' = ready \/ \E S : ready' = ready \cup (S \cap armed)
        /\ \/ svc' = svc \/ \E S : svc' = Opened(S)
    BY <1>4 DEF Admit, AdmitEvicted, Drain, TellRider, Signal, At
  <2>2. /\ \/ fut' = fut \/ fut' = Fail({s}) \/ fut' = Settle({s}, Outcome(s))
        /\ state' \in [Slots -> States]
    <3>1. /\ Parked(s) \in [Slots -> States]
          /\ [Parked(s) EXCEPT ![slot] = "GRACE"] \in [Slots -> States]
      BY <1>1, Names DEF Parked
    <3> QED BY <1>1, <1>4, <3>1, Names DEF Admit, AdmitEvicted, Drain, Typed
  <2> QED BY <1>1, <2>1, <2>2, Names DEF Typed, client, handle, Manned
<1> QED BY <1>3, <1>4

\* GRACE and what follows it, and the finally.
LEMMA GraceTyped ==
    ASSUME Typed,
           \/ Promoted \/ MatchServed \/ HoldIdle \/ Held \/ TearDown \/ TornDown \/ Reaped
           \/ \E s \in Slots : Match(s)
    PROVE  Typed'
<1>1. /\ \A S : Fail(S) \in [Slots -> Futures] /\ Opened(S) \in [Slots -> Exchanges]
      /\ \A s : Settle({s}, Outcome(s)) \in [Slots -> Futures]
      /\ \A S : \A to \in States : Walk(S, to) \in [Slots -> States]
      /\ \A h : Signalled(proc, h) \in [Slots -> Processes]
      /\ Scanned \in [Slots -> Processes]
      /\ \A S : ready \cup (S \cap armed) \subseteq armed
  BY TypedIsTypeOK, HelpersTyped
<1>2. CASE Promoted \/ MatchServed \/ \E s \in Slots : Match(s)
  <2>1. /\ UNCHANGED <<client, slot, inflight, handle, shutdown>> /\ queue' \subseteq queue
        /\ pc' \in Pcs /\ other' \in Slots \cup {NoSlot}
        /\ pc \notin {"top", "done"} /\ shutdown # "cancelling"
        /\ \/ fut' = fut \/ \E s : fut' = Fail({s}) \/ fut' = Settle({s}, Outcome(s))
        /\ \/ ready' = ready \/ \E S : ready' = ready \cup (S \cap armed)
    BY <1>2, Names DEF Promoted, MatchServed, Match, Signal, Manned, Typed, At
  <2>2. /\ \/ svc' = svc \/ \E S : svc' = Opened(S)
        /\ \E S : \E to \in States : state' = Walk(S, to)
    BY <1>2, Names DEF Promoted, MatchServed, Match
  <2>3. fut' \in [Slots -> Futures]
    BY <1>1, <2>1 DEF Typed
  <2>4. svc' \in [Slots -> Exchanges] /\ state' \in [Slots -> States]
    BY <1>1, <2>2 DEF Typed
  <2> QED BY <1>1, <2>1, <2>3, <2>4 DEF Typed, client, handle
<1>3. CASE HoldIdle \/ Held \/ TearDown \/ TornDown \/ Reaped
  <2>1. /\ UNCHANGED <<client, queue, ready, svc, inflight, leaving, detached, shutdown>>
        /\ slot' \in {slot, NoSlot} /\ other' \in {other, NoSlot}
        /\ active' \in {active, NoSlot} /\ idle' \in {idle, active} /\ pc' \in Pcs
        /\ \/ due' = due \/ due' = FALSE
        /\ pc' \notin {"top", "done"} => slot' # NoSlot
        /\ shutdown # "cancelling"
    BY <1>3, Names DEF HoldIdle, Held, TearDown, TornDown, Reaped, request, Manned, At, Typed
  <2>2. /\ \/ fut' = fut \/ \E s : fut' = Fail({s})
        /\ \/ state' = state \/ \E S : \E to \in States : state' = Walk(S, to)
        /\ \/ proc' = proc \/ proc' = Signalled(proc, active) \/ proc' = Scanned
    BY <1>3, Names DEF HoldIdle, Held, TearDown, TornDown, Reaped, request
  <2>3. due' \in BOOLEAN
    BY <2>1 DEF Typed
  <2>4. /\ fut' \in [Slots -> Futures] /\ state' \in [Slots -> States]
        /\ proc' \in [Slots -> Processes]
    <3>1. fut' \in [Slots -> Futures]
      BY <1>1, <2>2 DEF Typed
    <3>2. state' \in [Slots -> States]
      BY <1>1, <2>2 DEF Typed
    <3>3. proc' \in [Slots -> Processes]
      BY <1>1, <2>2 DEF Typed
    <3> QED BY <3>1, <3>2, <3>3
  <2> QED BY <2>1, <2>3, <2>4 DEF Typed, client
<1> QED BY <1>2, <1>3

\* shutdown().
LEMMA ShutdownTyped == ASSUME Typed, Shutdown PROVE Typed'
<1>1. /\ \A S : Fail(S) \in [Slots -> Futures]
      /\ \A h : Signalled(proc, h) \in [Slots -> Processes]
      /\ Scanned \in [Slots -> Processes]
  BY TypedIsTypeOK, HelpersTyped
<1>2. CASE ShutdownBegins \/ CancelWorker
  BY <1>2 DEF ShutdownBegins, CancelWorker, Typed, client, request, worker, handle
<1>3. CASE Cancelled
  <2>1. /\ UNCHANGED <<client, queue, state, ready, slot, other, idle, due, leaving, detached>>
        /\ shutdown' = "unwinding" /\ pc' \in Pcs /\ active' \in {active, NoSlot}
        /\ inflight' \subseteq inflight /\ (pc' # "done" => pc # "top")
        /\ pc # "done"
        /\ \/ proc' = proc \/ proc' = Signalled(proc, active)
    BY <1>3, Names DEF Cancelled, Raise, Manned, Typed
  <2>2. fut' \in [Slots -> Futures]
    BY <1>1, <1>3 DEF Cancelled, Typed
  <2>3. svc' \in [Slots -> Exchanges]
    BY <1>3 DEF Cancelled, Typed, Exchanges
  <2> QED BY <1>1, <2>1, <2>2, <2>3 DEF Typed, client
<1>4. CASE CloseQueue \/ ShutdownEnds
  <2>1. /\ UNCHANGED <<client, state, ready, svc, worker, active, detached>>
        /\ queue' \subseteq queue /\ idle' \in {idle, NoSlot}
        /\ leaving' \in {idle, NoSlot} /\ (due' = due \/ due' = FALSE)
        /\ \/ fut' = fut \/ \E S : fut' = Fail(S)
        /\ \/ proc' = Scanned \/ proc' = Signalled(proc, idle)
        /\ shutdown' \in {"closing", "closed"}
    BY <1>4 DEF CloseQueue, ShutdownEnds, request
  <2>2. due' \in BOOLEAN
    BY <2>1 DEF Typed
  <2> QED BY <1>1, <2>1, <2>2 DEF Typed, client, worker
<1> QED BY <1>2, <1>3, <1>4 DEF Shutdown

\* Every step keeps the types.
LEMMA TypedStep == Typed /\ [Next]_vars => Typed'
<1> SUFFICES ASSUME Typed, [Next]_vars PROVE Typed'
  OBVIOUS
<1>1. CASE UNCHANGED vars
  BY <1>1 DEF vars, client, request, worker, handle, Typed
<1>2. CASE WorkerStep
  BY <1>2, StartTyped, ServeTyped, GraceTyped DEF WorkerStep
<1> QED BY <1>1, <1>2, WorldTyped, ShutdownTyped DEF Next

\* Initially nothing has arrived.
LEMMA TypedInit == Init => Typed
<1> SUFFICES ASSUME Init PROVE Typed
  OBVIOUS
<1>1. /\ fut \in [Slots -> Futures] /\ state \in [Slots -> States]
      /\ svc \in [Slots -> Exchanges] /\ proc \in [Slots -> Processes]
  BY DEF Init, Futures, Exchanges, Processes, States
<1>2. due \in BOOLEAN
  BY DEF Init
<1>3. 0 \in 0 .. NumSlots
  BY NumSlotsAssumption
<1> QED BY <1>1, <1>2, <1>3, Names DEF Init, Typed

\* The worker's fields, the futures, states and exchanges keep their types for any
\* number of requests, every mix and width.
THEOREM WorkerTyped == Spec => []TypeOK
BY TypedInit, TypedStep, TypedIsTypeOK, PTL DEF Spec

-----------------------------------------------------------------------------
(* The sidecars.                                                            *)

\* Whom a SIGTERM and an orphan scan leave up.
LEMMA SignalFacts ==
    ASSUME Typed
    PROVE  /\ \A h \in Slots \cup {NoSlot} : \A g \in Slots :
                 Signalled(proc, h)[g] = "up" <=> proc[g] = "up" /\ g # h
           /\ \A g \in Slots : Scanned[g] = "up" <=> proc[g] = "up" /\ g \in {active, idle}
BY NumSlotsAssumption DEF Typed, Signalled, Scanned

\* A step that leaves worker, handles and processes alone.
Unled == UNCHANGED <<pc, active, idle, proc>>
LEMMA UnledTracked ==
    ASSUME Tracked, Unled, shutdown' = shutdown
    PROVE  Tracked'
BY DEF Tracked, HandleTracked, Unled

\* Steps of the clients, the routes, the processes and the clock.
LEMMA WorldTracked == ASSUME Typed, Tracked, World PROVE Tracked'
<1>1. CASE \/ Submit \/ ExpireIdle
           \/ \E s \in Slots : Arm(s) \/ Leave(s) \/ Finish(s) \/ CapStream(s)
  <2>1. Unled /\ shutdown' = shutdown
    BY <1>1 DEF Submit, ExpireIdle, Arm, Leave, Finish, CapStream, Unled, worker, handle
  <2> QED BY <2>1, UnledTracked
<1>2. ASSUME NEW h \in Slots, Exit(h) \/ DetachedEnd(h)
      PROVE  Tracked'
  <2>1. /\ \A g \in Slots : proc'[g] = "up" => proc[g] = "up"
        /\ UNCHANGED <<pc, active, idle, shutdown>>
    BY <1>2, SignalFacts DEF Exit, DetachedEnd, Typed, worker
  <2>2. HandleTracked'
    BY <2>1 DEF Tracked, HandleTracked
  <2>3. pc' \in {"reap", "done"} /\ active' # NoSlot => proc'[active'] # "up"
    BY <2>1 DEF Tracked, Typed
  <2> QED BY <2>1, <2>2, <2>3 DEF Tracked
<1> QED BY <1>1, <1>2 DEF World

\* Between two slots, and while a slot gets its sidecar.
LEMMA StartTracked ==
    ASSUME Typed, Tracked,
           \/ IdleTick \/ Stop \/ Refused \/ WarmInherit \/ ModelSwap \/ Swapped \/ GatesRefuse
           \/ Spawn \/ SpawnRaises \/ Healthy \/ Unhealthy \/ LoadingFailed
           \/ \E s \in Slots : PopEvicted(s) \/ Begin(s)
    PROVE  Tracked'
<1>0. /\ proc \in [Slots -> Processes] /\ active \in Slots \cup {NoSlot}
      /\ idle \in Slots \cup {NoSlot} /\ NoSlot \notin Slots
      /\ slot \in Slots \cup {NoSlot} /\ (pc \notin {"top", "done"} => slot \in Slots)
      /\ \A g \in Slots : proc[g] = "up" => g \in {active, idle}
  BY NumSlotsAssumption DEF Typed, Tracked, HandleTracked
<1>1. CASE IdleTick \/ \E s \in Slots : PopEvicted(s)
  <2>1. UNCHANGED handle \/ /\ idle' = NoSlot /\ proc' = Signalled(proc, idle)
                            /\ UNCHANGED active
    BY <1>1 DEF IdleTick, PopEvicted, DropExpiredHolder
  <2>2. pc = "top" /\ UNCHANGED <<pc, shutdown>>
    BY <1>1 DEF IdleTick, PopEvicted, At, worker
  <2>3. CASE UNCHANGED handle
    BY <2>2, <2>3, UnledTracked DEF Unled, handle
  <2>4. CASE idle' = NoSlot /\ proc' = Signalled(proc, idle) /\ UNCHANGED active
    <3>1. \A g \in Slots : proc'[g] = "up" => proc[g] = "up" /\ g # idle
      BY <2>4, <1>0, SignalFacts
    <3> QED BY <1>0, <2>2, <2>4, <3>1 DEF Tracked, HandleTracked, Manned
  <2> QED BY <2>1, <2>3, <2>4
<1>2. CASE Stop \/ Refused \/ GatesRefuse \/ SpawnRaises \/ Healthy \/ WarmInherit
           \/ \E s \in Slots : Begin(s)
  <2>1. /\ UNCHANGED <<proc, shutdown>> /\ pc \in Pcs
        /\ shutdown # "cancelling"
        /\ \/ /\ UNCHANGED <<active, idle>> /\ pc \in {"top", "refused", "gates"}
              /\ pc' \in {"top", "loading", "refused", "done"}
           \/ UNCHANGED <<active, idle>> /\ pc = "health" /\ pc' = "active"
           \/ /\ pc = "loading" /\ idle \in Slots /\ active' = idle /\ idle' = NoSlot
              /\ pc' = "active"
    BY <1>0, <1>2 DEF Stop, Refused, GatesRefuse, SpawnRaises, Healthy, WarmInherit,
                Begin, Inheritable, At, worker, handle, Typed
  <2> QED BY <1>0, <2>1 DEF Tracked, HandleTracked, Manned, Pcs
<1>3. CASE ModelSwap \/ Swapped
  <2>1. /\ pc \in {"loading", "swap"} /\ pc' \in {"gates", "swap"} /\ idle' = NoSlot
        /\ active' = active /\ active = NoSlot /\ shutdown' = shutdown
        /\ pc = "swap" => idle = NoSlot
        /\ pc' = "gates" \/ pc = "loading"
        /\ shutdown # "cancelling"
    BY <1>3 DEF ModelSwap, Swapped, At, Tracked, Manned, Pcs
  <2>2. \A g \in Slots : proc'[g] = "up" => proc[g] = "up" /\ g # idle
    BY <1>0, <1>3, <2>1, SignalFacts DEF ModelSwap, Swapped
  <2> QED BY <1>0, <2>1, <2>2 DEF Tracked, HandleTracked, Manned
<1>4. CASE Spawn
  <2>1. /\ pc = "gates" /\ pc' = "health" /\ active' = slot /\ slot \in Slots
        /\ UNCHANGED <<idle, shutdown>> /\ proc' = [proc EXCEPT ![slot] = "up"]
        /\ active = NoSlot /\ idle = NoSlot
    BY <1>0, <1>4 DEF Spawn, At, Tracked, Manned, Pcs
  <2>2. \A g \in Slots : proc'[g] = "up" => g = slot
    BY <1>0, <2>1
  <2> QED BY <1>0, <2>1, <2>2 DEF Tracked, HandleTracked, Manned
<1>5. CASE Unhealthy
  <2>1. /\ pc = "health" /\ pc' = "unhealthy" /\ UNCHANGED <<active, idle, shutdown>>
        /\ proc' = Signalled(proc, active)
    BY <1>5 DEF Unhealthy, At
  <2>2. \A g \in Slots : proc'[g] = "up" => proc[g] = "up"
    BY <1>0, <2>1, SignalFacts
  <2> QED BY <1>0, <2>1, <2>2 DEF Tracked, HandleTracked, Manned
<1>6. CASE LoadingFailed
  <2>1. /\ pc = "unhealthy" /\ pc' = "top" /\ active' = NoSlot /\ UNCHANGED <<idle, shutdown>>
        /\ proc' = Scanned /\ proc[active] = "dead"
    BY <1>6 DEF LoadingFailed, At, Gone
  <2>2. \A g \in Slots : proc'[g] = "up" => proc[g] = "up" /\ g # active
    BY <1>0, <2>1, SignalFacts
  <2> QED BY <1>0, <2>1, <2>2 DEF Tracked, HandleTracked, Manned
<1> QED BY <1>1, <1>2, <1>3, <1>4, <1>5, <1>6

\* A slot is served, alone or in a batch: the sidecar stays, or the worker raises
\* and has signalled it.
LEMMA ServeTracked ==
    ASSUME Typed, Tracked,
           \/ ServeSerial \/ ServedSerial \/ FanOut \/ Dispatch \/ Refill \/ Refilled
           \/ Promoted \/ MatchServed
           \/ \E s \in Slots : Admit(s) \/ AdmitEvicted(s) \/ Drain(s) \/ Match(s)
    PROVE  Tracked'
<1>0. /\ proc \in [Slots -> Processes] /\ active \in Slots \cup {NoSlot}
      /\ NoSlot \notin Slots
      /\ \A g \in Slots : proc[g] = "up" => g \in {active, idle}
  BY NumSlotsAssumption DEF Typed, Tracked, HandleTracked
<1>1. /\ pc \in Serving /\ UNCHANGED <<active, idle, shutdown>>
      /\ \/ proc' = proc /\ pc' \in Serving
         \/ proc' = Signalled(proc, active) /\ pc' = "reap"
  <2>1. CASE ServeSerial \/ ServedSerial \/ FanOut \/ Dispatch \/ Refill \/ Refilled
    BY <2>1 DEF ServeSerial, ServedSerial, FanOut, Dispatch, Refill, Refilled, Raise,
                Grace, At, Serving, handle
  <2>2. CASE Promoted \/ MatchServed \/ \E s \in Slots : Match(s)
    BY <2>2 DEF Promoted, MatchServed, Match, At, Serving, handle
  <2>3. CASE \E s \in Slots : Admit(s) \/ AdmitEvicted(s) \/ Drain(s)
    BY <2>3 DEF Admit, AdmitEvicted, Drain, At, Serving, handle
  <2> QED BY <2>1, <2>2, <2>3
<1>2. \A g \in Slots : proc'[g] = "up" => proc[g] = "up" /\ (pc' = "reap" => g # active)
  BY <1>0, <1>1, SignalFacts DEF Serving
<1>3. pc' \in Manned /\ pc' # "held" /\ active \in Slots /\ idle = NoSlot
      /\ shutdown \notin {"closing", "closed"} /\ pc' \notin {"top", "loading", "refused", "done"}
  BY <1>1 DEF Tracked, Serving, Manned
<1> QED BY <1>0, <1>1, <1>2, <1>3 DEF Tracked, HandleTracked

\* The sidecar is held warm, torn down or reaped.
LEMMA EndTracked ==
    ASSUME Typed, Tracked, HoldIdle \/ Held \/ TearDown \/ TornDown \/ Reaped
    PROVE  Tracked'
<1>0. /\ proc \in [Slots -> Processes] /\ active \in Slots \cup {NoSlot}
      /\ idle \in Slots \cup {NoSlot} /\ NoSlot \notin Slots
      /\ \A g \in Slots : proc[g] = "up" => g \in {active, idle}
  BY NumSlotsAssumption DEF Typed, Tracked, HandleTracked
<1>1. CASE HoldIdle
  <2>1. /\ pc = "grace" /\ pc' = "held" /\ idle' = active
        /\ UNCHANGED <<active, proc, shutdown>>
    BY <1>1 DEF HoldIdle, At
  <2> QED BY <1>0, <2>1 DEF Tracked, HandleTracked, Manned
<1>2. CASE Held
  <2>1. /\ pc = "held" /\ pc' = "top" /\ active' = NoSlot /\ idle = active
        /\ UNCHANGED <<idle, proc, shutdown>>
    BY <1>2 DEF Held, At, Tracked
  <2> QED BY <1>0, <2>1 DEF Tracked, HandleTracked, Manned
<1>3. CASE TearDown
  <2>1. /\ pc = "grace" /\ pc' = "coldstop" /\ proc' = Signalled(proc, active)
        /\ UNCHANGED <<active, idle, shutdown>>
    BY <1>3 DEF TearDown, At
  <2>2. \A g \in Slots : proc'[g] = "up" => proc[g] = "up"
    BY <1>0, <2>1, SignalFacts
  <2> QED BY <1>0, <2>1, <2>2 DEF Tracked, HandleTracked, Manned
<1>4. CASE TornDown \/ Reaped
  <2>1. /\ pc \in {"coldstop", "reap"} /\ pc' \in {"top", "done"} /\ active' = NoSlot
        /\ UNCHANGED <<idle, shutdown>> /\ (proc' = proc \/ proc' = Scanned)
        /\ proc[active] = "dead" /\ shutdown # "cancelling"
    BY <1>4 DEF TornDown, Reaped, At, Gone
  <2>2. \A g \in Slots : proc'[g] = "up" => proc[g] = "up" /\ g # active
    BY <1>0, <2>1, SignalFacts
  <2> QED BY <1>0, <2>1, <2>2 DEF Tracked, HandleTracked, Manned
<1> QED BY <1>1, <1>2, <1>3, <1>4

\* shutdown(): a cancelled worker has signalled the sidecar it gives up, and the warm
\* holder is signalled once it has ended.
LEMMA ShutdownTracked == ASSUME Typed, Tracked, Shutdown PROVE Tracked'
<1>0. /\ proc \in [Slots -> Processes] /\ active \in Slots \cup {NoSlot}
      /\ idle \in Slots \cup {NoSlot} /\ NoSlot \notin Slots /\ pc \in Pcs
      /\ (shutdown = "cancelling" => pc # "done")
      /\ \A g \in Slots : proc[g] = "up" => g \in {active, idle}
  BY NumSlotsAssumption DEF Typed, Tracked, HandleTracked
<1>1. CASE ShutdownBegins \/ CancelWorker
  <2>1. Unled /\ shutdown' \in {"stopping", "cancelling", "unwinding"}
    BY <1>1 DEF ShutdownBegins, CancelWorker, Unled, worker, handle
  <2> QED BY <2>1 DEF Tracked, HandleTracked, Unled
<1>2. CASE Cancelled
  <2>1. /\ UNCHANGED idle /\ shutdown' = "unwinding"
        /\ \/ /\ pc \in {"top", "loading", "refused", "swap", "gates", "reap"}
              /\ pc' = "done" /\ UNCHANGED <<active, proc>>
           \/ /\ pc = "held" /\ pc' = "done" /\ active' = NoSlot /\ UNCHANGED proc
           \/ /\ pc \in Manned \ {"held", "reap"} /\ pc' = "reap" /\ active' = active
              /\ proc' = Signalled(proc, active)
    BY <1>0, <1>2 DEF Cancelled, Raise, Pcs, Manned
  <2>2. CASE UNCHANGED proc /\ pc' = "done"
    BY <1>0, <2>1, <2>2 DEF Tracked, HandleTracked, Manned, Pcs
  <2>3. CASE pc \in Manned \ {"held", "reap"} /\ pc' = "reap" /\ active' = active
             /\ proc' = Signalled(proc, active)
    <3>1. \A g \in Slots : proc'[g] = "up" => proc[g] = "up" /\ g # active
      BY <1>0, <2>3, SignalFacts
    <3> QED BY <1>0, <2>1, <2>3, <3>1 DEF Tracked, HandleTracked, Manned, Pcs
  <2> QED BY <2>1, <2>2, <2>3
<1>3. CASE CloseQueue \/ ShutdownEnds
  <2>1. /\ pc = "done" /\ UNCHANGED <<pc, active>> /\ idle' = NoSlot
        /\ shutdown' \in {"closing", "closed"}
    BY <1>3 DEF CloseQueue, ShutdownEnds, worker, Tracked
  <2>2. \A g \in Slots : proc'[g] = "up" => proc[g] = "up" /\ g # idle
    BY <1>0, <1>3, SignalFacts DEF CloseQueue, ShutdownEnds, Tracked
  <2> QED BY <1>0, <2>1, <2>2 DEF Tracked, HandleTracked, Manned
<1> QED BY <1>1, <1>2, <1>3 DEF Shutdown

\* Initially there is no process; every step keeps Tracked.
LEMMA TrackedInit == Init => Tracked
BY DEF Init, Tracked, HandleTracked, Manned

LEMMA TrackedStep == Typed /\ Tracked /\ [Next]_vars => Tracked'
<1> SUFFICES ASSUME Typed, Tracked, [Next]_vars PROVE Tracked'
  OBVIOUS
<1>1. CASE UNCHANGED vars
  BY <1>1, UnledTracked DEF vars, worker, handle, Unled
<1>2. CASE WorkerStep
  BY <1>2, StartTracked, ServeTracked, EndTracked DEF WorkerStep
<1> QED BY <1>1, <1>2, WorldTracked, ShutdownTracked DEF Next

\* No sidecar is lost: a process nobody has signalled is the active handle or the
\* idle holder.
THEOREM NoSidecarLost == Spec => []HandleTracked
<1>1. Tracked => HandleTracked
  BY DEF Tracked
<1> QED BY <1>1, TypedInit, TrackedInit, TypedStep, TrackedStep, PTL DEF Spec

\* Two sidecars never run unsignalled: while the worker is at work the idle holder is
\* empty or the active handle, and between two slots there is no active handle.
THEOREM OneRuns == Spec => []OneUnsignalled
<1>1. ASSUME Typed, Tracked PROVE OneUnsignalled
  <2>1. SUFFICES ASSUME NEW g \in Slots, NEW h \in Slots,
                        proc[g] = "up", proc[h] = "up"
                 PROVE  g = h
    BY DEF OneUnsignalled
  <2>2. g \in {active, idle} /\ h \in {active, idle} /\ NoSlot \notin Slots
    BY <1>1, <2>1, NumSlotsAssumption DEF Tracked, HandleTracked
  <2>3. active = NoSlot \/ idle = NoSlot \/ idle = active \/ proc[active] # "up"
    BY <1>1 DEF Tracked, Typed, Manned
  <2> QED BY <2>1, <2>2, <2>3
<1> QED BY <1>1, TypedInit, TrackedInit, TypedStep, TrackedStep, PTL DEF Spec

\* When shutdown returns no sidecar is left that was not signalled, wherever the
\* worker was when it was cancelled.
THEOREM WorkerShutdownStops == Spec => []ShutdownStopsSidecars
<1>1. Tracked => ShutdownStopsSidecars
  <2> SUFFICES ASSUME Tracked, shutdown = "closed", NEW h \in Slots PROVE proc[h] # "up"
    BY DEF ShutdownStopsSidecars
  <2> QED BY NumSlotsAssumption DEF Tracked, HandleTracked
<1> QED BY <1>1, TypedInit, TrackedInit, TypedStep, TrackedStep, PTL DEF Spec

-----------------------------------------------------------------------------
(* What the worker has in hand.                                             *)

\* What the helpers do to one slot.
LEMMA HelperFacts ==
    ASSUME Typed, NEW s \in Slots
    PROVE  /\ \A S : Fail(S)[s] = "pending" <=> fut[s] = "pending" /\ s \notin S
           /\ \A S : Settle(S, "ok")[s] = "pending" <=> fut[s] = "pending" /\ s \notin S
           /\ \A t : Settle({t}, Outcome(t))[s] = "pending" <=> fut[s] = "pending" /\ s # t
           /\ \A S, to : Walk(S, to)[s] = IF s \in S THEN to ELSE state[s]
           /\ \A S : Opened(S)[s] = "open" => svc[s] = "open" \/ s \in S
BY DEF Typed, Fail, Settle, Outcome, Walk, Opened

\* The places of the worker where no exchange is open, and what it has in hand there.
LEMMA LoneFacts ==
    ASSUME Typed, Hands, pc \notin {"serve", "match"} \cup FansOut, Early
    PROVE  /\ NoneOpen /\ inflight = {} /\ NoSlot \notin Slots /\ 1 .. arrived \subseteq Slots
           /\ pc # "promote" => other = NoSlot
           /\ \A s \in Slots : fut[s] = "pending" => s \in queue \cup {slot, other}
           /\ \A s \in 1 .. arrived : s \in queue \cup left \cup {slot, other} \/ Over(s)
<1>1. inflight = {} /\ (pc # "promote" => other = NoSlot) /\ NoneOpen
  BY DEF Hands, Filled, OneModel, NoneOpen, FansOut
<1>2. NoSlot \notin Slots /\ 1 .. arrived \subseteq Slots
  BY NumSlotsAssumption DEF Typed, Slots
<1> QED BY <1>1, <1>2 DEF Hands, InHand, OwnedWhilePending, Early

\* A step that opens no exchange and has at most the anchor in hand.
Lone ==
    /\ inflight = {} /\ other = NoSlot /\ NoneOpen /\ Early /\ pc \in Pcs
    /\ UNCHANGED <<client, queue, svc, inflight, other, shutdown>>
    /\ pc' \in Pcs \ (FansOut \cup {"serve", "match", "promote"})
    /\ \A s \in Slots : /\ fut'[s] = "pending" => fut[s] = "pending"
                        /\ s # slot /\ Over(s) => Over(s)'
    /\ \/ slot' = slot /\ pc' # "top" /\ slot # NoSlot
       \/ /\ slot' = NoSlot /\ pc' = "top" /\ slot # NoSlot
          /\ fut'[slot] # "pending" /\ state'[slot] \in {"POPPED", "COLD"}
    /\ pc' \in {"health", "active", "grace"} => SameModel(slot, active')
    /\ pc' \in {"grace", "held", "coldstop"} => fut'[slot] # "pending"
    /\ pc' \in {"unhealthy", "held", "coldstop"} => state'[slot] = "POPPED"

LEMMA LoneHands == ASSUME Typed, Typed', Hands, Lone PROVE Hands'
<1>1. /\ UNCHANGED <<req, arrived, armed, left, queue, svc, inflight, other, shutdown>>
      /\ \A s, t : SameModel(s, t)' <=> (req[s].tag = req[t].tag)'
      /\ NoSlot \notin Slots /\ 1 .. arrived \subseteq Slots
  BY NumSlotsAssumption DEF Lone, client, SameModel, Typed, Slots
<1>2. Filled'
  BY <1>1 DEF Lone, Hands, Filled, FansOut, Early, Typed
<1>3. OneModel'
  <2>1. \A s \in Slots : svc'[s] # "open"
    BY <1>1 DEF Lone, NoneOpen
  <2>2. pc' \in Serving \cup {"health"} => SameModel(slot, active)'
    BY <1>1 DEF Lone, Serving, FansOut, SameModel
  <2> QED BY <1>1, <2>1, <2>2 DEF Lone, OneModel, ServedByOwnModel, FansOut
<1>4. InHand'
  <2>1. Early' /\ OwnedWhilePending'
    BY <1>1 DEF Lone, Hands, InHand, OwnedWhilePending, Early
  <2>2. \A s \in 1 .. arrived' : \/ s \in queue' \cup left' \cup inflight' \cup {slot', other'}
                                 \/ Over(s)'
    BY <1>1 DEF Lone, Hands, InHand, Over
  <2> QED BY <1>1, <2>1, <2>2 DEF Lone, InHand, FansOut
<1> QED BY <1>2, <1>3, <1>4 DEF Hands

\* A slot gets its sidecar, or is refused.
LEMMA StartHands ==
    ASSUME Typed, Typed', Tracked, Hands,
           \/ Refused \/ WarmInherit \/ ModelSwap \/ Swapped \/ GatesRefuse \/ Spawn
           \/ SpawnRaises \/ Healthy \/ Unhealthy \/ LoadingFailed
    PROVE  Hands'
<1>1. /\ pc \in {"loading", "refused", "swap", "gates", "health", "unhealthy"} /\ Early
  <2>1. pc \in {"loading", "refused", "swap", "gates", "health", "unhealthy"}
    BY DEF Refused, WarmInherit, ModelSwap, Swapped, GatesRefuse, Spawn, SpawnRaises,
           Healthy, Unhealthy, LoadingFailed, At
  <2> QED BY <2>1 DEF Hands, Filled
<1>2. /\ NoneOpen /\ inflight = {} /\ other = NoSlot /\ slot \in Slots
      /\ NoSlot \notin Slots /\ pc \in Pcs
  BY <1>1, LoneFacts DEF FansOut, Typed
<1>3. UNCHANGED <<client, queue, svc, inflight, other, shutdown>>
  BY DEF Refused, WarmInherit, ModelSwap, Swapped, GatesRefuse, Spawn, SpawnRaises,
         Healthy, Unhealthy, LoadingFailed, worker, request
<1>4. CASE WarmInherit \/ ModelSwap \/ Swapped \/ Spawn \/ Healthy
  <2>1. /\ UNCHANGED <<fut, slot>>
        /\ \/ state' = state \/ state' = Walk({slot}, "ACTIVE")
        /\ pc' \in {"active", "gates", "swap", "health"}
        /\ pc' \in {"active", "health"} => SameModel(slot, active')
    BY <1>4 DEF WarmInherit, ModelSwap, Swapped, Spawn, Healthy, At, Inheritable,
                request, handle, SameModel, Hands, OneModel
  <2>2. \A s \in Slots : s # slot => state'[s] = state[s]
    BY <2>1, HelperFacts
  <2>3. Lone
    BY <1>1, <1>2, <1>3, <2>1, <2>2, Names DEF Lone, Over, FansOut, Manned, Pcs
  <2> QED BY <2>3, LoneHands
<1>5. CASE Refused \/ GatesRefuse \/ SpawnRaises \/ Unhealthy \/ LoadingFailed
  <2>1. /\ fut' = fut \/ fut' = Fail({slot})
        /\ \/ state' = state /\ pc = "unhealthy"
           \/ \E to \in {"POPPED", "COLD"} : state' = Walk({slot}, to)
           \/ pc' = "refused" /\ state' = Walk({slot}, "LOADING_FAIL")
        /\ \/ pc' \in {"refused", "unhealthy"} /\ slot' = slot
           \/ pc' = "top" /\ slot' = NoSlot /\ fut' = Fail({slot})
        /\ pc' = "unhealthy" => state' = Walk({slot}, "POPPED")
    BY <1>5 DEF Refused, GatesRefuse, SpawnRaises, Unhealthy, LoadingFailed, At
  <2>2. /\ \A s \in Slots : fut'[s] = "pending" => fut[s] = "pending"
        /\ \A s \in Slots : s # slot => state'[s] = state[s]
        /\ pc' = "top" => fut'[slot] # "pending"
        /\ pc' = "unhealthy" => state'[slot] = "POPPED"
    BY <1>2, <2>1, HelperFacts
  <2>3. pc' = "top" => state'[slot] \in {"POPPED", "COLD"}
    BY <1>2, <2>1, HelperFacts DEF Hands, InHand
  <2>4. Lone
    BY <1>1, <1>2, <1>3, <2>1, <2>2, <2>3, Names DEF Lone, Over, FansOut, Manned, Pcs
  <2> QED BY <2>4, LoneHands
<1> QED BY <1>4, <1>5

\* The serial slot is served; the sidecar is held warm, torn down or reaped.
LEMMA EndHands ==
    ASSUME Typed, Typed', Tracked, Hands, Early,
           ServedSerial \/ HoldIdle \/ Held \/ TearDown \/ TornDown \/ Reaped
    PROVE  Hands'
<1>1. pc \in {"serve", "grace", "held", "coldstop", "reap"}
  BY DEF ServedSerial, HoldIdle, Held, TearDown, TornDown, Reaped, At
<1>2. /\ NoneOpen /\ inflight = {} /\ other = NoSlot /\ slot \in Slots
      /\ NoSlot \notin Slots /\ pc \in Pcs
  <2>1. CASE pc = "serve"
    <3>1. Served(slot)
      BY <2>1 DEF ServedSerial, HoldIdle, Held, TearDown, TornDown, Reaped, At
    <3>2. NoneOpen
      BY <2>1, <3>1 DEF Hands, OneModel, NoneOpen, Served, FansOut
    <3> QED BY <2>1, <3>2, NumSlotsAssumption DEF Hands, Filled, FansOut, Typed
  <2>2. CASE pc # "serve"
    BY <1>1, <2>2, LoneFacts DEF FansOut, Typed
  <2> QED BY <2>1, <2>2
<1>3. UNCHANGED <<client, queue, svc, inflight, other, shutdown>>
  BY <1>2 DEF ServedSerial, HoldIdle, Held, TearDown, TornDown, Reaped, request
<1>4. CASE ServedSerial
  <2>1. /\ pc = "serve" /\ slot' = slot /\ active' = active
        /\ \/ pc' = "reap" /\ UNCHANGED <<state, fut>>
           \/ /\ pc' = "grace" /\ state' = Walk({slot}, "GRACE")
              /\ fut' = Settle({slot}, "ok")
    BY <1>2, <1>4 DEF ServedSerial, Raise, Grace, At
  <2>2. /\ \A s \in Slots : fut'[s] = "pending" => fut[s] = "pending"
        /\ \A s \in Slots : s # slot => state'[s] = state[s]
        /\ pc' = "grace" => fut'[slot] # "pending"
    BY <1>2, <2>1, HelperFacts
  <2>3. SameModel(slot, active')
    BY <2>1 DEF Hands, OneModel, Serving
  <2>4. Lone
    BY <1>2, <1>3, <2>1, <2>2, <2>3, Names DEF Lone, Over, FansOut, Manned, Pcs
  <2> QED BY <2>4, LoneHands
<1>5. CASE HoldIdle \/ Held \/ TearDown \/ TornDown
  <2>1. /\ pc \in {"grace", "held", "coldstop"} /\ fut' = fut
        /\ \/ /\ pc' \in {"held", "coldstop"} /\ slot' = slot
              /\ state' = Walk({slot}, "POPPED")
           \/ /\ pc' = "top" /\ slot' = NoSlot /\ state' = state
              /\ pc \in {"held", "coldstop"}
    BY <1>5 DEF HoldIdle, Held, TearDown, TornDown, At, request
  <2>2. fut[slot] # "pending" /\ (pc \in {"held", "coldstop"} => state[slot] = "POPPED")
    BY <2>1 DEF Hands, InHand
  <2>3. /\ \A s \in Slots : s # slot => state'[s] = state[s]
        /\ state'[slot] = "POPPED"
    BY <1>2, <2>1, <2>2, HelperFacts
  <2>4. Lone
    BY <1>2, <1>3, <2>1, <2>2, <2>3, Names DEF Lone, Over, FansOut, Manned, Pcs
  <2> QED BY <2>4, LoneHands
<1>6. CASE Reaped
  <2>1. /\ pc' = "top" /\ slot' = NoSlot /\ fut' = Fail({slot})
        /\ state' = Walk({slot}, "COLD")
    BY <1>6 DEF Reaped, Early
  <2>2. /\ \A s \in Slots : fut'[s] = "pending" => fut[s] = "pending"
        /\ \A s \in Slots : s # slot => state'[s] = state[s]
        /\ fut'[slot] # "pending" /\ state'[slot] = "COLD"
    BY <1>2, <2>1, HelperFacts
  <2>3. Lone
    BY <1>2, <1>3, <2>1, <2>2, Names DEF Lone, Over, FansOut, Manned, Pcs
  <2> QED BY <2>3, LoneHands
<1> QED BY <1>4, <1>5, <1>6

\* Between two slots: the next one is taken in hand, or its client has left.
LEMMA TopHands ==
    ASSUME Typed, Typed', Tracked, Hands,
           IdleTick \/ Stop \/ \E s \in Slots : PopEvicted(s) \/ Begin(s)
    PROVE  Hands'
<1>1. pc = "top" /\ Early /\ slot = NoSlot
  <2>1. pc = "top"
    BY DEF IdleTick, Stop, PopEvicted, Begin, At
  <2> QED BY <2>1 DEF Hands, Filled
<1>2. /\ NoneOpen /\ inflight = {} /\ other = NoSlot
      /\ NoSlot \notin Slots /\ 1 .. arrived \subseteq Slots
      /\ \A s \in Slots : fut[s] = "pending" => s \in queue
      /\ \A s \in 1 .. arrived : s \in queue \cup left \/ Over(s)
  BY <1>1, LoneFacts DEF FansOut
<1>3. /\ UNCHANGED <<req, arrived, armed, left, svc, inflight, other, shutdown>>
      /\ ~LateArm => \A s \in 1 .. arrived : req[s].stream => s \in armed
  BY DEF IdleTick, Stop, PopEvicted, Begin, client, request, worker, Hands, Filled
<1>4. \E s \in queue \cup {NoSlot} :
        /\ slot' = s /\ queue \ {s} \subseteq queue' \cup left /\ queue' \subseteq queue
        /\ \/ s = NoSlot /\ pc' \in {"top", "done"} /\ state' = state
           \/ s # NoSlot /\ pc' \in {"loading", "refused"} /\ state' = Walk({s}, "LOADING")
        /\ \A u \in Slots : fut'[u] = "pending" => fut[u] = "pending" /\ u \in queue' \cup {s}
  <2>1. CASE IdleTick \/ Stop
    BY <1>1, <1>2, <2>1 DEF IdleTick, Stop, At, worker, request
  <2>2. CASE \E s \in Slots : PopEvicted(s)
    <3>1. PICK s \in Slots : PopEvicted(s)
      BY <2>2
    <3>2. \A u \in Slots : fut'[u] = "pending" => fut[u] = "pending" /\ u # s
      BY <3>1, HelperFacts DEF PopEvicted
    <3> QED BY <1>1, <1>2, <3>1, <3>2 DEF PopEvicted, At, worker
  <2>3. CASE \E s \in Slots : Begin(s)
    BY <1>2, <2>3 DEF Begin
  <2> QED BY <2>1, <2>2, <2>3
<1>5. PICK s \in queue \cup {NoSlot} :
        /\ slot' = s /\ queue \ {s} \subseteq queue' \cup left /\ queue' \subseteq queue
        /\ \/ s = NoSlot /\ pc' \in {"top", "done"} /\ state' = state
           \/ s # NoSlot /\ pc' \in {"loading", "refused"} /\ state' = Walk({s}, "LOADING")
        /\ \A u \in Slots : fut'[u] = "pending" => fut[u] = "pending" /\ u \in queue' \cup {s}
  BY <1>4
<1>6. Filled'
  BY <1>1, <1>2, <1>3, <1>5 DEF Filled, FansOut, Early, Typed
<1>7. OneModel'
  <2>1. \A u \in Slots : svc'[u] # "open"
    BY <1>2, <1>3 DEF NoneOpen
  <2> QED BY <1>5, <2>1 DEF OneModel, ServedByOwnModel, Serving, FansOut
<1>8. InHand'
  <2>1. \A u \in 1 .. arrived : u # s /\ Over(u) => Over(u)'
    BY <1>2, <1>5, HelperFacts DEF Over
  <2> QED BY <1>1, <1>2, <1>3, <1>5, <2>1 DEF InHand, OwnedWhilePending, Early, FansOut
<1> QED BY <1>6, <1>7, <1>8 DEF Hands

\* A step that changes nothing the worker has in hand; an exchange may end, events
\* may appear, a client may leave.
Quiet ==
    /\ UNCHANGED <<req, arrived, queue, slot, inflight, other, pc, active, fut, state>>
    /\ (Early' <=> Early)
    /\ armed \subseteq armed' /\ left \subseteq left'
    /\ \A s \in Slots : svc'[s] = "open" => svc[s] = "open"

LEMMA QuietHands == ASSUME Hands, Quiet PROVE Hands'
<1>1. Filled'
  BY DEF Hands, Quiet, Filled
<1>2. OneModel'
  <2>1. ServedByOwnModel'
    BY DEF Hands, Quiet, OneModel, ServedByOwnModel, SameModel
  <2> QED BY <2>1 DEF Hands, Quiet, OneModel, SameModel, SameMode
<1>3. InHand'
  <2>1. OwnedWhilePending'
    BY DEF Hands, Quiet, InHand, OwnedWhilePending, Early
  <2> QED BY <2>1 DEF Hands, Quiet, InHand, Over
<1> QED BY <1>1, <1>2, <1>3 DEF Hands

\* Steps of the clients, the routes, the processes and the clock: a request that
\* arrives is in the queue, its events are there.
LEMMA WorldHands ==
    ASSUME Typed, Typed', Hands, World
    PROVE  Hands'
<1>1. CASE \/ ExpireIdle
           \/ \E s \in Slots : \/ Arm(s) \/ Leave(s) \/ Finish(s) \/ CapStream(s)
                               \/ Exit(s) \/ DetachedEnd(s)
  <2>1. Quiet
    <3>1. CASE \E s \in Slots : Finish(s) \/ CapStream(s)
      <4>1. PICK s \in Slots : Finish(s) \/ CapStream(s)
        BY <3>1
      <4>2. \E how \in {"ok", "failed", "capped"} : svc' = [svc EXCEPT ![s] = how]
        BY <4>1 DEF Finish, CapStream
      <4>3. \A u \in Slots : svc'[u] = "open" => svc[u] = "open"
        BY <4>2 DEF Typed
      <4> QED BY <4>1, <4>3 DEF Finish, CapStream, Quiet, client, worker, handle, Early
    <3>2. CASE ExpireIdle \/ \E s \in Slots : Arm(s) \/ Leave(s) \/ Exit(s) \/ DetachedEnd(s)
      BY <3>2 DEF ExpireIdle, Arm, Leave, Exit, DetachedEnd, Quiet, client, request,
                  worker, handle, Early
    <3> QED BY <1>1, <3>1, <3>2
  <2> QED BY <2>1, QuietHands
<1>2. CASE Submit
  <2>1. PICK t : t = arrived + 1
    OBVIOUS
  <2>2. /\ arrived' = t /\ 1 .. arrived' = (1 .. arrived) \cup {t} /\ t \in Slots
        /\ t \notin 1 .. arrived /\ NoSlot \notin Slots /\ 1 .. arrived \subseteq Slots
    BY <1>2, <2>1, NumSlotsAssumption DEF Submit, Typed, Slots
  <2>3. /\ armed \subseteq armed' /\ (~LateArm /\ req[t].stream => t \in armed')
        /\ queue' = queue \cup {t} /\ shutdown = "no"
        /\ UNCHANGED <<req, left, svc, pc, slot, other, inflight, active, shutdown>>
    BY <1>2, <2>1 DEF Submit, Stopped, worker, handle
  <2>4. \A s \in Slots : s # t => fut'[s] = fut[s] /\ state'[s] = state[s]
    BY <1>2, <2>1 DEF Submit, Typed
  <2>5. Early /\ (slot # NoSlot => slot \in 1 .. arrived)
    BY <2>3 DEF Early, Hands, Filled
  <2>6. Filled'
    BY <2>2, <2>3 DEF Hands, Filled, Early
  <2>7. OneModel'
    <3>1. ServedByOwnModel'
      BY <2>3 DEF Hands, OneModel, ServedByOwnModel, SameModel
    <3> QED BY <2>3, <3>1 DEF Hands, OneModel, SameModel, SameMode, Early
  <2>8. InHand'
    <3>1. OwnedWhilePending'
      BY <2>2, <2>3, <2>4 DEF Hands, InHand, OwnedWhilePending
    <3>2. slot # NoSlot => fut'[slot] = fut[slot] /\ state'[slot] = state[slot]
      BY <2>2, <2>4, <2>5
    <3>3. pc \notin {"top", "done"} => slot # NoSlot
      BY DEF Hands, Filled
    <3>4. \A s \in 1 .. arrived' :
             s \in queue' \cup left' \cup inflight' \cup {slot', other'} \/ Over(s)'
      BY <2>2, <2>3, <2>4, <2>5 DEF Hands, InHand, Over
    <3> QED BY <2>3, <3>1, <3>2, <3>3, <3>4 DEF Hands, InHand
  <2> QED BY <2>6, <2>7, <2>8 DEF Hands
<1> QED BY <1>1, <1>2 DEF World

\* The anchor is served, alone or as the first of a batch: its exchange is the only one.
LEMMA AnchorHands ==
    ASSUME Typed, Typed', Hands, ServeSerial \/ FanOut
    PROVE  Hands'
<1>1. pc = "active" /\ Early
  <2>1. pc = "active"
    BY DEF ServeSerial, FanOut, At
  <2> QED BY <2>1 DEF Hands, Filled
<1>2. /\ NoneOpen /\ inflight = {} /\ other = NoSlot /\ slot \in Slots
      /\ NoSlot \notin Slots /\ slot \in 1 .. arrived
      /\ \A s \in Slots : fut[s] = "pending" => s \in queue \cup {slot}
      /\ \A s \in 1 .. arrived : s \in queue \cup left \cup {slot} \/ Over(s)
  <2>1. slot \in Slots /\ slot \in 1 .. arrived
    BY <1>1 DEF Typed, Hands, Filled
  <2> QED BY <1>1, <2>1, LoneFacts DEF FansOut
<1>3. /\ UNCHANGED <<req, arrived, armed, left, queue, fut, state, slot, other, active,
                     shutdown>>
      /\ \/ pc' = "serve" /\ inflight' = {}
         \/ pc' = "admit" /\ inflight' = {slot}
  BY <1>2 DEF ServeSerial, FanOut, client, handle
<1>4. \A s \in Slots : svc'[s] = "open" => s = slot
  BY <1>2, HelperFacts DEF ServeSerial, FanOut, NoneOpen
<1>5. Filled'
  <2>1. NoFanOut => pc' = "serve"
    <3>1. NoFanOut => Width = 1
      BY <1>2 DEF NoFanOut, Width, Typed
    <3> QED BY <3>1 DEF ServeSerial, FanOut
  <2> QED BY <1>1, <1>2, <1>3, <2>1 DEF Hands, Filled, Early, FansOut
<1>6. OneModel'
  <2>1. SameModel(slot, active)
    BY <1>1 DEF Hands, OneModel, Serving
  <2>2. ServedByOwnModel'
    BY <1>3, <1>4, <2>1 DEF ServedByOwnModel, SameModel
  <2> QED BY <1>3, <1>4, <2>1, <2>2 DEF OneModel, SameModel, SameMode, FansOut
<1>7. InHand'
  BY <1>2, <1>3 DEF Hands, InHand, OwnedWhilePending, Over
<1> QED BY <1>5, <1>6, <1>7 DEF Hands

\* A follow-up of the same conversation and model is matched, promoted and served.
LEMMA MatchHands ==
    ASSUME Typed, Typed', Hands,
           Promoted \/ MatchServed \/ \E s \in Slots : Match(s)
    PROVE  Hands'
<1>1. pc \in {"grace", "promote", "match"} /\ Early
  <2>1. pc \in {"grace", "promote", "match"}
    BY DEF Promoted, MatchServed, Match, At
  <2> QED BY <2>1 DEF Hands, Filled
<1>2. /\ inflight = {} /\ slot \in Slots /\ slot \in 1 .. arrived /\ NoSlot \notin Slots
      /\ fut[slot] # "pending" /\ SameModel(slot, active) /\ 1 .. arrived \subseteq Slots
  BY <1>1, NumSlotsAssumption
     DEF Hands, Filled, FansOut, InHand, OneModel, Serving, Typed, Slots
<1>3. /\ UNCHANGED <<req, arrived, armed, left, slot, inflight, active, shutdown>>
  BY DEF Promoted, MatchServed, Match, client, handle
<1>4. CASE \E s \in Slots : Match(s)
  <2>1. PICK s \in Slots : Match(s)
    BY <1>4
  <2>2. /\ pc = "grace" /\ pc' = "promote" /\ other' = s /\ s \in queue /\ queue' = queue \ {s}
        /\ SameModel(s, slot) /\ UNCHANGED <<fut, svc>>
        /\ state' = Walk({s}, "ACTIVE_MATCH") /\ s \in 1 .. arrived
    BY <2>1 DEF Match, At, Typed
  <2>3. /\ NoneOpen /\ other = NoSlot
        /\ \A u \in Slots : fut[u] = "pending" => u \in queue \cup {slot}
        /\ \A u \in 1 .. arrived : u \in queue \cup left \cup {slot} \/ Over(u)
    BY <1>1, <2>2, LoneFacts DEF FansOut
  <2>4. \A u \in Slots : u # s => state'[u] = state[u]
    BY <2>2, HelperFacts
  <2>5. Filled'
    BY <1>1, <1>2, <1>3, <2>2 DEF Hands, Filled, Early, FansOut
  <2>6. OneModel'
    <3>1. \A u \in Slots : svc'[u] # "open"
      BY <2>2, <2>3 DEF NoneOpen
    <3> QED BY <1>2, <1>3, <2>2, <3>1 DEF OneModel, ServedByOwnModel, SameModel, FansOut
  <2>7. InHand'
    BY <1>2, <1>3, <2>2, <2>3, <2>4 DEF Hands, InHand, OwnedWhilePending, Over
  <2> QED BY <2>5, <2>6, <2>7 DEF Hands
<1>5. CASE Promoted \/ MatchServed
  <2>1. PICK o : o = other
    OBVIOUS
  <2>2. /\ pc \in {"promote", "match"} /\ queue' = queue /\ o \in Slots
        /\ \/ pc' = "match" /\ other' = o /\ fut' = fut /\ pc = "promote"
           \/ pc' = "grace" /\ other' = NoSlot
    BY <1>2, <1>5, <2>1 DEF Promoted, MatchServed, At, Hands, Filled, Typed
  <2>3. \A u \in Slots : /\ fut'[u] = "pending" => fut[u] = "pending"
                         /\ pc' = "grace" => fut'[o] # "pending"
                         /\ u # o => state'[u] = state[u]
                         /\ pc' = "grace" => state'[o] = "POPPED"
    BY <1>5, <2>1, <2>2, HelperFacts DEF Promoted, MatchServed, At
  <2>4. \A u \in Slots : svc'[u] = "open" => u = o /\ pc' = "match"
    <3>1. CASE Promoted
      <4>1. NoneOpen /\ pc = "promote"
        BY <1>1, <3>1, LoneFacts DEF FansOut, Promoted, At
      <4> QED BY <2>1, <2>2, <3>1, <4>1, HelperFacts DEF Promoted, NoneOpen
    <3>2. CASE MatchServed
      BY <1>1, <2>1, <3>2 DEF MatchServed, At, Served, Hands, OneModel, FansOut
    <3> QED BY <1>5, <3>1, <3>2
  <2>5. SameModel(o, slot)
    BY <2>1, <2>2 DEF Hands, OneModel
  <2>6. Filled'
    BY <1>1, <1>2, <1>3, <2>2 DEF Hands, Filled, Early, FansOut
  <2>7. OneModel'
    <3>1. ServedByOwnModel'
      BY <1>2, <1>3, <2>4, <2>5 DEF ServedByOwnModel, SameModel
    <3> QED BY <1>2, <1>3, <2>2, <2>4, <2>5, <3>1 DEF OneModel, SameModel, FansOut
  <2>8. InHand'
    <3>1. OwnedWhilePending'
      BY <1>3, <2>1, <2>2, <2>3 DEF Hands, InHand, OwnedWhilePending
    <3>2. \A u \in 1 .. arrived' :
             u \in queue' \cup left' \cup inflight' \cup {slot', other'} \/ Over(u)'
      BY <1>1, <1>2, <1>3, <2>1, <2>2, <2>3 DEF Hands, InHand, Over
    <3> QED BY <1>2, <1>3, <2>2, <2>3, <3>1, <3>2 DEF InHand
  <2> QED BY <2>6, <2>7, <2>8 DEF Hands
<1> QED BY <1>4, <1>5

\* What holds of a batch in any of its phases.
LEMMA BatchFacts ==
    ASSUME Typed, Hands, pc \in FansOut
    PROVE  /\ Early /\ slot \in 1 .. arrived /\ NoSlot \notin Slots
           /\ 1 .. arrived \subseteq Slots /\ inflight \subseteq 1 .. arrived
           /\ SameModel(slot, active) /\ other \in inflight \cup {NoSlot}
           /\ (pc = "drain" => other = NoSlot)
           /\ \A s \in inflight : SameModel(s, slot) /\ SameMode(s)
           /\ \A s \in Slots : svc[s] = "open" => s \in inflight
           /\ \A s \in Slots : fut[s] = "pending" => s \in queue \cup inflight \cup {slot}
           /\ \A s \in 1 .. arrived : s \in queue \cup left \cup inflight \cup {slot} \/ Over(s)
           /\ (slot \notin inflight => fut[slot] # "pending")
<1>1. /\ Early /\ slot \in 1 .. arrived /\ other \in inflight \cup {NoSlot}
      /\ (pc = "drain" => other = NoSlot) /\ inflight \subseteq 1 .. arrived
  BY DEF Hands, Filled, FansOut
<1>2. NoSlot \notin Slots /\ 1 .. arrived \subseteq Slots
  BY NumSlotsAssumption DEF Typed, Slots
<1>3. /\ SameModel(slot, active)
      /\ \A s \in inflight : SameModel(s, slot) /\ SameMode(s)
      /\ \A s \in Slots : svc[s] = "open" => s \in inflight
  BY <1>1 DEF Hands, OneModel, FansOut, Serving
<1>4. /\ \A s \in Slots : fut[s] = "pending" => s \in queue \cup inflight \cup {slot}
      /\ \A s \in 1 .. arrived : s \in queue \cup left \cup inflight \cup {slot} \/ Over(s)
      /\ (slot \notin inflight => fut[slot] # "pending")
  BY <1>1, <1>2 DEF Hands, InHand, OwnedWhilePending, Early, FansOut
<1> QED BY <1>1, <1>2, <1>3, <1>4

\* A step that keeps the sidecar in the batch's hands.
InBatch ==
    /\ UNCHANGED <<req, arrived, armed, left, slot, active, shutdown>>
    /\ pc \in FansOut
    /\ \/ pc' \in FansOut
       \/ pc' = "grace" /\ inflight' = {} /\ other' = NoSlot
    /\ inflight' \subseteq 1 .. arrived
    /\ other' \in inflight' \cup {NoSlot} /\ (pc' = "drain" => other' = NoSlot)
    /\ \A s \in inflight' : SameModel(s, slot) /\ SameMode(s)
    /\ \A s \in Slots : svc'[s] = "open" => s \in inflight'
    /\ \A s \in Slots : fut'[s] = "pending" => s \in queue' \cup inflight' \cup {slot}
    /\ \A s \in 1 .. arrived :
          s \in queue' \cup left \cup inflight' \cup {slot} \/ state'[s] \in {"POPPED", "COLD"}
    /\ (slot \notin inflight' => fut'[slot] # "pending" /\ pc' # "admit")

LEMMA InBatchHands == ASSUME Typed, Hands, InBatch PROVE Hands'
<1>1. Early /\ slot \in 1 .. arrived /\ SameModel(slot, active) /\ NoSlot \notin Slots
      /\ 1 .. arrived \subseteq Slots
  BY BatchFacts DEF InBatch
<1>2. Filled'
  BY <1>1 DEF InBatch, Hands, Filled, Early, FansOut
<1>3. OneModel'
  <2>1. ServedByOwnModel'
    BY <1>1 DEF InBatch, ServedByOwnModel, SameModel
  <2>2. pc' \in FansOut => \A s \in inflight' : SameModel(s, slot)' /\ SameMode(s)'
    BY DEF InBatch, SameModel, SameMode
  <2> QED BY <1>1, <2>1, <2>2 DEF InBatch, OneModel, SameModel, FansOut
<1>4. InHand'
  <2>1. OwnedWhilePending'
    BY DEF InBatch, OwnedWhilePending
  <2>2. \A s \in 1 .. arrived' :
           s \in queue' \cup left' \cup inflight' \cup {slot', other'} \/ Over(s)'
    BY DEF InBatch, Over
  <2> QED BY <1>1, <2>1, <2>2 DEF InBatch, InHand, FansOut
<1> QED BY <1>2, <1>3, <1>4 DEF Hands

\* Riders are admitted, dispatched, refilled and drained. Where every queued stream has
\* its events no dispatch raises, so that no rider is left behind.
LEMMA BatchHands ==
    ASSUME EventsInTime, Typed, Hands,
           \/ Dispatch \/ Refill \/ Refilled
           \/ \E s \in Slots : Admit(s) \/ AdmitEvicted(s) \/ Drain(s)
    PROVE  Hands'
<1>1. pc \in FansOut
  BY DEF Dispatch, Refill, Refilled, Admit, AdmitEvicted, Drain, At, FansOut
<1>2. /\ Early /\ slot \in 1 .. arrived /\ NoSlot \notin Slots
      /\ 1 .. arrived \subseteq Slots /\ inflight \subseteq 1 .. arrived
      /\ SameModel(slot, active) /\ other \in inflight \cup {NoSlot}
      /\ (pc = "drain" => other = NoSlot)
      /\ \A s \in inflight : SameModel(s, slot) /\ SameMode(s)
      /\ \A s \in Slots : svc[s] = "open" => s \in inflight
      /\ \A s \in Slots : fut[s] = "pending" => s \in queue \cup inflight \cup {slot}
      /\ \A s \in 1 .. arrived : s \in queue \cup left \cup inflight \cup {slot} \/ Over(s)
      /\ (slot \notin inflight => fut[slot] # "pending")
  BY <1>1, BatchFacts
<1>3. UNCHANGED <<req, arrived, armed, left, slot, active, shutdown>>
  BY DEF Dispatch, Refill, Refilled, Admit, AdmitEvicted, Drain, client, handle
<1>4. CASE \E s \in Slots : Admit(s) \/ AdmitEvicted(s)
  <2>1. PICK s \in Slots : Admit(s) \/ AdmitEvicted(s)
    BY <1>4
  <2>2. /\ pc \in {"admit", "refill"} /\ pc' = pc /\ s \in queue /\ queue' = queue \ {s}
        /\ Rider(s) /\ svc' = Opened({other} \cap armed) /\ s \in 1 .. arrived
        /\ \/ /\ inflight' = inflight \cup {s} /\ other' = s /\ fut' = fut
              /\ state' = Walk({s}, "ACTIVE")
           \/ /\ inflight' = inflight /\ other' = NoSlot /\ s \in left
              /\ fut' = Fail({s}) /\ state' = state
    BY <2>1 DEF Admit, AdmitEvicted, At, TellRider, Typed
  <2>3. \A u \in Slots : /\ fut'[u] = "pending" => fut[u] = "pending"
                         /\ s \in inflight' \/ fut'[s] # "pending"
                         /\ u # s => state'[u] = state[u]
                         /\ svc'[u] = "open" => svc[u] = "open" \/ u = other
    <3>1. \A u \in Slots : svc'[u] = "open" => svc[u] = "open" \/ u \in {other} \cap armed
      BY <2>2, HelperFacts
    <3>2. \A u \in Slots : /\ fut'[u] = "pending" => fut[u] = "pending"
                           /\ u # s => state'[u] = state[u]
      BY <2>2, HelperFacts
    <3>3. s \in inflight' \/ fut'[s] # "pending"
      BY <2>2, HelperFacts
    <3> QED BY <3>1, <3>2, <3>3
  <2>4. pc = "admit" => slot \in inflight
    BY DEF Hands, InHand
  <2>5. \A u \in Slots : fut'[u] = "pending" => u \in queue' \cup inflight' \cup {slot}
    BY <1>2, <2>2, <2>3
  <2>6. \A u \in 1 .. arrived :
           u \in queue' \cup left \cup inflight' \cup {slot} \/ state'[u] \in {"POPPED", "COLD"}
    BY <1>2, <2>2, <2>3 DEF Over
  <2>7. /\ \A u \in Slots : svc'[u] = "open" => u \in inflight'
        /\ \A u \in inflight' : SameModel(u, slot) /\ SameMode(u)
        /\ (slot \notin inflight' => fut'[slot] # "pending" /\ pc' # "admit")
    BY <1>2, <2>2, <2>3, <2>4 DEF Rider
  <2>8. InBatch
    BY <1>1, <1>2, <1>3, <2>2, <2>5, <2>6, <2>7 DEF InBatch
  <2> QED BY <2>8, InBatchHands
<1>5. CASE Dispatch
  <2>1. req[slot].stream => inflight \subseteq armed
    BY <1>1, <1>2 DEF SameMode, Hands, Filled, EventsInTime
  <2>2. /\ pc' \in {"refill", "drain"} /\ other' = NoSlot
        /\ UNCHANGED <<queue, fut, state, inflight>>
        /\ svc' = Opened(inflight) \/ svc' = Opened({other} \cap armed)
    BY <1>5, <2>1 DEF Dispatch, client
  <2>3. \A u \in Slots : svc'[u] = "open" => u \in inflight
    <3>1. \A u \in Slots : svc'[u] = "open" => svc[u] = "open" \/ u \in inflight \/ u = other
      BY <2>2, HelperFacts
    <3> QED BY <1>2, <3>1
  <2>4. InBatch
    BY <1>1, <1>2, <1>3, <2>2, <2>3 DEF InBatch, FansOut, Over
  <2> QED BY <2>4, InBatchHands
<1>6. CASE Refill
  <2>1. pc = "drain" /\ pc' = "refill" /\ UNCHANGED <<queue, fut, state, svc, inflight, other>>
    BY <1>6 DEF Refill, At, request
  <2> QED BY <1>1, <1>2, <1>3, <2>1, InBatchHands DEF InBatch, FansOut, Over
<1>7. CASE Refilled
  <2>1. /\ pc = "refill" /\ other' = NoSlot /\ UNCHANGED <<queue, fut, inflight>>
        /\ svc' = Opened(inflight)
        /\ \/ pc' = "grace" /\ inflight = {} /\ state' = Walk({slot}, "GRACE")
           \/ pc' = "drain" /\ state' = state
    BY <1>7 DEF Refilled, Grace, At
  <2>2. \A u \in Slots : /\ svc'[u] = "open" => u \in inflight
                         /\ u # slot => state'[u] = state[u]
    BY <1>2, <2>1, HelperFacts
  <2>3. \A u \in 1 .. arrived :
           u \in queue \cup left \cup inflight \cup {slot} \/ state'[u] \in {"POPPED", "COLD"}
    BY <1>2, <2>2 DEF Over
  <2>4. InBatch
    BY <1>1, <1>2, <1>3, <2>1, <2>2, <2>3 DEF InBatch, FansOut
  <2> QED BY <2>4, InBatchHands
<1>8. CASE \E s \in Slots : Drain(s)
  <2>1. PICK s \in Slots : Drain(s)
    BY <1>8
  <2>2. /\ pc = "drain" /\ UNCHANGED <<queue, svc, other>> /\ s \in inflight
        /\ inflight' = inflight \ {s} /\ svc[s] # "open"
        /\ fut' = Settle({s}, Outcome(s))
        /\ pc' = "drain" \/ (pc' = "grace" /\ inflight' = {})
        /\ state' = Parked(s) \/ state' = [Parked(s) EXCEPT ![slot] = "GRACE"]
    BY <2>1 DEF Drain, At, Served
  <2>3. Parked(s) \in [Slots -> States]
    BY TypedIsTypeOK, HelpersTyped, Names DEF Parked
  <2>4. \A u \in Slots : /\ fut'[u] = "pending" => fut[u] = "pending" /\ u # s
                         /\ u \notin {s, slot} => state'[u] = state[u]
                         /\ s # slot => state'[s] = "COLD"
    <3>1. \A u \in Slots : /\ u \notin {s, slot} => Parked(s)[u] = state[u]
                           /\ s # slot => Parked(s)[s] = "COLD"
      BY HelperFacts DEF Parked
    <3>2. \A u \in Slots : u # slot => state'[u] = Parked(s)[u]
      BY <2>2, <2>3
    <3>3. \A u \in Slots : fut'[u] = "pending" => fut[u] = "pending" /\ u # s
      BY <2>2, HelperFacts
    <3> QED BY <3>1, <3>2, <3>3
  <2>5. \A u \in 1 .. arrived :
           u \in queue \cup left \cup inflight' \cup {slot} \/ state'[u] \in {"POPPED", "COLD"}
    BY <1>2, <2>2, <2>4 DEF Over
  <2>6. /\ \A u \in Slots : svc'[u] = "open" => u \in inflight'
        /\ \A u \in Slots : fut'[u] = "pending" => u \in queue \cup inflight' \cup {slot}
        /\ (slot \notin inflight' => fut'[slot] # "pending")
    BY <1>2, <2>2, <2>4
  <2>7. InBatch
    BY <1>1, <1>2, <1>3, <2>2, <2>5, <2>6 DEF InBatch, FansOut
  <2> QED BY <2>7, InBatchHands
<1> QED BY <1>4, <1>5, <1>6, <1>7, <1>8

\* A step of a worker that is cancelled or has ended: it takes nothing in hand any more.
Winding ==
    /\ UNCHANGED <<req, arrived, armed, left>>
    /\ ~Early' /\ pc' \in {"reap", "done"}
    /\ slot' \in {slot, NoSlot} /\ (pc' = "reap" => slot' # NoSlot)
    /\ inflight' \subseteq inflight /\ active' \in {active, NoSlot}
    /\ \A s \in Slots : svc'[s] = "open" => svc[s] = "open"

LEMMA WindingHands == ASSUME Typed, Hands, Winding PROVE Hands'
<1>1. Filled'
  BY DEF Winding, Hands, Filled, FansOut
<1>2. OneModel'
  <2>1. ServedByOwnModel'
    BY DEF Winding, Hands, OneModel, ServedByOwnModel, SameModel
  <2> QED BY <2>1 DEF Winding, OneModel, Serving, FansOut
<1>3. InHand'
  BY DEF Winding, InHand, OwnedWhilePending, Early
<1> QED BY <1>1, <1>2, <1>3 DEF Hands

\* shutdown(): the worker is cancelled wherever it is, then the queue is closed.
LEMMA ShutdownHands == ASSUME Typed, Typed', Tracked, Hands, Shutdown PROVE Hands'
<1>1. CASE ShutdownBegins \/ CancelWorker
  <2>1. UNCHANGED <<client, queue, request, worker, handle>> /\ Early
    BY <1>1 DEF ShutdownBegins, CancelWorker, Early
  <2>2. CASE Early'
    BY <2>1, <2>2, QuietHands DEF Quiet, client, request, worker, handle
  <2>3. CASE ~Early'
    <3>1. pc = "done"
      BY <1>1, <2>3 DEF ShutdownBegins, CancelWorker, Early
    <3> QED BY <2>1, <2>3, <3>1, WindingHands DEF Winding, client, request, worker, handle
  <2> QED BY <2>2, <2>3
<1>2. CASE Cancelled
  <2>1. /\ UNCHANGED <<req, arrived, armed, left, slot>> /\ ~Early'
        /\ pc' \in {"reap", "done"} /\ active' \in {active, NoSlot}
        /\ inflight' \subseteq inflight
        /\ pc' = "reap" => pc \notin {"top", "done"}
    BY <1>2 DEF Cancelled, Raise, client, Early, Typed
  <2>2. slot' \in {slot, NoSlot} /\ (pc' = "reap" => slot' # NoSlot)
    BY <2>1 DEF Typed
  <2>3. \A s \in Slots : svc'[s] = "open" => svc[s] = "open"
    <3>1. CASE svc' = svc
      BY <3>1
    <3>2. CASE svc' = [svc EXCEPT ![other] = "failed"]
      BY <3>2 DEF Typed
    <3>3. CASE svc' = [s \in Slots |-> IF s \in inflight THEN "failed" ELSE svc[s]]
      BY <3>3
    <3> QED BY <1>2, <3>1, <3>2, <3>3 DEF Cancelled
  <2> QED BY <2>1, <2>2, <2>3, WindingHands DEF Winding
<1>3. CASE CloseQueue \/ ShutdownEnds
  <2>1. /\ pc = "done" /\ ~Early'
        /\ UNCHANGED <<req, arrived, armed, left, svc, pc, slot, inflight, active>>
    BY <1>3 DEF CloseQueue, ShutdownEnds, client, request, worker, Early, Tracked
  <2> QED BY <2>1, WindingHands DEF Winding
<1> QED BY <1>1, <1>2, <1>3 DEF Shutdown

\* Initially nothing is in hand; every step keeps Hands where events are in time.
LEMMA HandsInit == Init => Hands
<1> SUFFICES ASSUME Init PROVE Hands
  OBVIOUS
<1>1. Filled
  BY DEF Init, Filled, Early, FansOut
<1>2. OneModel
  BY DEF Init, OneModel, ServedByOwnModel, Serving, FansOut
<1>3. InHand
  BY DEF Init, InHand, OwnedWhilePending, Early
<1> QED BY <1>1, <1>2, <1>3 DEF Hands

LEMMA HandsStep ==
    ASSUME EventsInTime
    PROVE  Typed /\ Tracked /\ Hands /\ [Next]_vars => Hands'
<1> SUFFICES ASSUME Typed, Tracked, Hands, [Next]_vars PROVE Hands'
  OBVIOUS
<1>0. Typed'
  BY TypedStep
<1>1. CASE UNCHANGED vars
  BY <1>1, QuietHands DEF vars, client, request, worker, handle, Quiet, Early
<1>2. CASE WorkerStep
  <2>1. CASE \/ Refused \/ WarmInherit \/ ModelSwap \/ Swapped \/ GatesRefuse \/ Spawn
             \/ SpawnRaises \/ Healthy \/ Unhealthy \/ LoadingFailed
    BY <1>0, <2>1, StartHands
  <2>2. CASE ServedSerial \/ HoldIdle \/ Held \/ TearDown \/ TornDown \/ Reaped
    <3>1. CASE Early
      BY <1>0, <2>2, <3>1, EndHands
    <3>2. CASE ~Early
      <4>1. Reaped /\ shutdown = "unwinding"
        BY <2>2, <3>2 DEF ServedSerial, HoldIdle, Held, TearDown, TornDown, Reaped, At, Hands,
                          Filled, Tracked, Early, Typed
      <4>2. Winding
        BY <3>2, <4>1 DEF Reaped, Winding, client, Early
      <4> QED BY <4>2, WindingHands
    <3> QED BY <3>1, <3>2
  <2>3. CASE IdleTick \/ Stop \/ \E s \in Slots : PopEvicted(s) \/ Begin(s)
    BY <1>0, <2>3, TopHands
  <2>4. CASE \/ Dispatch \/ Refill \/ Refilled
             \/ \E s \in Slots : Admit(s) \/ AdmitEvicted(s) \/ Drain(s)
    BY <2>4, BatchHands
  <2>5. CASE Promoted \/ MatchServed \/ \E s \in Slots : Match(s)
    BY <1>0, <2>5, MatchHands
  <2>6. CASE ServeSerial \/ FanOut
    BY <1>0, <2>6, AnchorHands
  <2> QED BY <1>2, <2>1, <2>2, <2>3, <2>4, <2>5, <2>6 DEF WorkerStep
<1> QED BY <1>0, <1>1, <1>2, WorldHands, ShutdownHands DEF Next

\* Where events are in time Hands holds of every state.
LEMMA HandsHeld == ASSUME EventsInTime PROVE Spec => [](Typed /\ Tracked /\ Hands)
<1>1. Typed /\ Tracked /\ Hands /\ [Next]_vars => (Typed /\ Tracked /\ Hands)'
  BY TypedStep, TrackedStep, HandsStep
<1>2. Init => Typed /\ Tracked /\ Hands
  BY TypedInit, TrackedInit, HandsInit
<1> QED BY <1>1, <1>2, PTL DEF Spec

\* A request is served by the model it asked for: the warm holder, a fan-out and a match
\* lend their sidecar to slots of its own model only.
THEOREM ServedByOwn == EventsInTime => (Spec => []ServedByOwnModel)
<1> SUFFICES ASSUME EventsInTime PROVE Spec => []ServedByOwnModel
  OBVIOUS
<1>1. Hands => ServedByOwnModel
  BY DEF Hands, OneModel
<1> QED BY <1>1, HandsHeld, PTL

\* Until the worker is cancelled a caller that waits is waited for: its slot is queued, in
\* the batch, the anchor or the follow-up.
THEOREM OwnedPending == EventsInTime => (Spec => []OwnedWhilePending)
<1> SUFFICES ASSUME EventsInTime PROVE Spec => []OwnedWhilePending
  OBVIOUS
<1>1. Hands => OwnedWhilePending
  BY DEF Hands, InHand
<1> QED BY <1>1, HandsHeld, PTL

\* When the worker is ready for its next slot, every earlier one is parked or popped: no
\* rider, follow-up or failed slot is left in the middle of the state machine.
THEOREM NoZombies == EventsInTime => (Spec => []NoZombieSlot)
<1> SUFFICES ASSUME EventsInTime PROVE Spec => []NoZombieSlot
  OBVIOUS
<1>1. ASSUME Typed, Hands PROVE NoZombieSlot
  <2>1. SUFFICES ASSUME pc = "top", ~Stopped, NEW s \in 1 .. arrived
                 PROVE  s \in queue \cup left \/ Over(s)
    BY DEF NoZombieSlot, Over
  <2>2. Early
    BY <2>1 DEF Stopped, Early
  <2>3. inflight = {} /\ slot = NoSlot /\ other = NoSlot
    BY <1>1, <2>1, <2>2, LoneFacts DEF FansOut, Hands, Filled
  <2>4. s # NoSlot
    BY <1>1, LoneFacts, <2>1, <2>2 DEF FansOut
  <2> QED BY <1>1, <2>1, <2>2, <2>3, <2>4 DEF Hands, InHand
<1> QED BY <1>1, HandsHeld, PTL

\* Nobody stops the sidecar a request is being served on, short of a shutdown: the
\* worker signals it where every exchange of the batch has ended.
THEOREM SignalSpares == EventsInTime => (Spec => SignalSparesService)
<1> SUFFICES ASSUME EventsInTime PROVE Spec => SignalSparesService
  OBVIOUS
<1> DEFINE Spared == \A h \in Slots :
                        proc[h] = "up" /\ proc'[h] = "termed" /\ h = active /\ ~Stopped =>
                            \A s \in Slots : svc[s] # "open"
<1>1. ASSUME Typed, Tracked, Hands, [Next]_vars PROVE Spared
  <2>1. SUFFICES ASSUME NEW h \in Slots, proc[h] = "up", proc'[h] = "termed",
                        h = active, ~Stopped
                 PROVE  NoneOpen
    BY DEF NoneOpen
  <2>2. proc' # proc /\ Early /\ active # NoSlot /\ Scanned[h] = "up"
    BY <1>1, <2>1, NumSlotsAssumption DEF Stopped, Early, Typed, Scanned
  <2>3. \A g \in Slots \cup {NoSlot} : g # h => Signalled(proc, g)[h] = "up"
    BY <1>1, <2>1 DEF Signalled, Typed
  <2>4. pc \notin {"top", "loading", "refused", "swap", "gates"}
    BY <1>1, <2>2 DEF Tracked, Pcs, Manned
  <2>5. WorkerStep \/ World
    BY <1>1, <2>1, <2>2 DEF Next, vars, handle, Shutdown, ShutdownBegins, CancelWorker, Cancelled,
                CloseQueue, ShutdownEnds, Stopped
  <2>6. ~World
    <3>1. \A s \in Slots : Exit(s) => proc'[h] \in {"up", "dead"}
      BY <1>1, <2>1 DEF Exit, Typed
    <3>2. \A s \in Slots : ~DetachedEnd(s)
      BY <2>1, <2>2 DEF DetachedEnd
    <3>3. ~(Submit \/ ExpireIdle \/ \E s \in Slots : Arm(s) \/ Leave(s) \/ Finish(s) \/ CapStream(s))
      BY <2>2 DEF Submit, ExpireIdle, Arm, Leave, Finish, CapStream, handle
    <3> QED BY <2>1, <3>1, <3>2, <3>3 DEF World
  <2>7. Unhealthy \/ ServedSerial \/ TearDown
    <3>1. ~(IdleTick \/ Stop \/ Refused \/ WarmInherit \/ ModelSwap \/ Swapped \/ GatesRefuse
            \/ Spawn \/ SpawnRaises \/ \E s \in Slots : PopEvicted(s) \/ Begin(s))
      BY <2>4 DEF IdleTick, Stop, Refused, WarmInherit, ModelSwap, Swapped, GatesRefuse,
                  Spawn, SpawnRaises, PopEvicted, Begin, At
    <3>2. ~(LoadingFailed \/ TornDown)
      BY <2>1, <2>2 DEF LoadingFailed, TornDown
    <3>3. ~(Healthy \/ ServeSerial \/ FanOut \/ Refill \/ Refilled \/ Promoted \/ MatchServed
            \/ HoldIdle \/ Held \/ Reaped)
      BY <2>2 DEF Healthy, ServeSerial, FanOut, Refill, Refilled, Grace, Promoted, MatchServed,
                  HoldIdle, Held, Reaped, handle
    <3>4. ~\E s \in Slots : Admit(s) \/ AdmitEvicted(s) \/ Drain(s) \/ Match(s)
      BY <2>2 DEF Admit, AdmitEvicted, Drain, Match, handle
    <3>5. ~Dispatch
      <4> SUFFICES ASSUME Dispatch PROVE FALSE
        OBVIOUS
      <4>1. pc = "admit" /\ req[slot].stream /\ ~(inflight \subseteq armed)
        BY <2>2 DEF Dispatch, At
      <4> QED BY <1>1, <4>1, BatchFacts DEF FansOut, SameMode, Hands, Filled, EventsInTime
    <3> QED BY <2>5, <2>6, <3>1, <3>2, <3>3, <3>4, <3>5 DEF WorkerStep
  <2>8. CASE ServedSerial
    BY <1>1, <2>2, <2>8 DEF ServedSerial, At, Hands, OneModel, NoneOpen, Served, FansOut
  <2>9. CASE Unhealthy \/ TearDown
    BY <1>1, <2>2, <2>9, LoneFacts DEF Unhealthy, TearDown, At, FansOut
  <2> QED BY <2>7, <2>8, <2>9
<1>2. Typed /\ Tracked /\ Hands /\ [Next]_vars => [Spared]_vars
  BY <1>1
<1> QED BY <1>2, HandsHeld, PTL DEF Spec, SignalSparesService
=============================================================================
