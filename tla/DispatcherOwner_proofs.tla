----------------------- MODULE DispatcherOwner_proofs -----------------------
(***************************************************************************)
(* Who answers for a request: a proof, for every number of requests, all    *)
(* mixes of models and widths, every cap and with or without shutdown, that *)
(* no request whose caller waits is ever in the hands of two tasks, that no *)
(* sidecar process is orphaned, that none outlives shutdown and that the    *)
(* manager's fields keep their types.  Where asyncio.wait_for awaits in the *)
(* caller's task (Python 3.12) no such request is lost either, and an       *)
(* eviction spares the busy; in the inner task of an older wait_for a slot  *)
(* is lost (MCDispatcherLostSlot).                                          *)
(*                                                                          *)
(* The inductive invariant has two halves.  One says in what shape a        *)
(* resident is at each place of its driver and how that agrees with the     *)
(* registry, the detached tasks and the stage of shutdown.  The other says  *)
(* where slots are: a slot that waits (in the queue, a requeue task, an     *)
(* inbox or a drained inbox) is pending and nowhere else, a pending slot in *)
(* a driver's hand is in no other's, and with an inline wait_for every       *)
(* pending slot is somewhere.                                               *)
(* Most steps move slots between the queue, one task and one resident; what *)
(* such a step must guarantee is the lemma Transfer.                        *)
(***************************************************************************)
EXTENDS Dispatcher_proofs

\* Tasks that will give slots back, and the slots of some of them.
Gives == {t \in bg : t.do \in {"defer", "requeue"}}
TaskSlots(T) == UNION {ToSet(t.slots) : t \in T}

\* What waits at a resident, and what its driver has in hand.
WaitOf(x) == ToSet(x.inbox) \cup ToSet(x.drained)
HandOf(x) == ({x.active, x.local, x.next} \cup x.inflight) \ {NoSlot}
Wait(r) == WaitOf(res[r])
Hand(r) == HandOf(res[r])

Pending(s) == fut[s] = "pending"
Waiting(s) == \/ s \in ToSet(queue) \/ s \in TaskSlots(Gives)
              \/ \E r \in Slots : s \in Wait(r)

\* Nothing waits twice in one sequence.
NoneTwice ==
    /\ NoRepeat(queue) /\ \A t \in Gives : NoRepeat(t.slots)
    /\ \A r \in Slots : /\ NoRepeat(res[r].inbox) /\ NoRepeat(res[r].drained)
                        /\ ToSet(res[r].inbox) \cap ToSet(res[r].drained) = {}

\* A waiting slot is pending and in one place; a pending slot in hand is in one.
Placed(s) ==
    /\ s \in ToSet(queue) =>
          /\ Pending(s) /\ \A t \in Gives : s \notin ToSet(t.slots)
          /\ \A r \in Slots : s \notin Wait(r) \cup Hand(r)
    /\ \A t \in Gives : s \in ToSet(t.slots) =>
          /\ Pending(s) /\ \A u \in Gives : s \in ToSet(u.slots) => u = t
          /\ \A r \in Slots : s \notin Wait(r) \cup Hand(r)
    /\ \A r \in Slots : s \in Wait(r) =>
          /\ Pending(s) /\ s \notin Hand(r)
          /\ \A q \in Slots \ {r} : s \notin Wait(q) \cup Hand(q)
    /\ \A r \in Slots : s \in Hand(r) =>
          /\ fut[s] # "none"
          /\ Pending(s) => \A q \in Slots \ {r} : s \notin Hand(q)
    /\ InlineWaitFor /\ Pending(s) => Waiting(s) \/ \E r \in Slots : s \in Hand(r)

EvictTask(r) == ResidentTask("evict", r)
ReapTask(r) == ResidentTask("reap", r)

\* The driver of r runs and has not begun to leave.
Live(r) == res[r].pc \notin {"none", "finally", "done"}
Blank(r) == res[r].inbox = <<>> /\ res[r].drained = <<>> /\ Hand(r) = {}

\* What the fields of a resident are at each place of its driver.
Shaped(r) ==
    LET x == res[r] IN
    /\ x.pc = "fetched" => ~InlineWaitFor /\ x.next # NoSlot
    /\ x.pc # "fetched" => x.next = NoSlot
    /\ x.drained # <<>> => x.pc = "finally"
    /\ x.pc = "finally" => x.inbox = <<>>
    /\ x.pc # "serve" => x.inflight = {}
    /\ x.pc = "none" => Blank(r)
    /\ x.pc = "start" => Hand(r) = {} /\ Head(x.inbox) = r
    /\ x.pc \in {"gate", "health", "unhealthy", "idle", "fetched"} => x.active = NoSlot
    /\ x.pc \in {"audit", "serve", "grace"} => x.active = x.local
    /\ x.pc = "serve" /\ Width(r) = 1 => x.inflight \subseteq {x.local}
    /\ x.pc \in {"idle", "fetched"} /\ x.inbox # <<>> => x.state # "DEAD"
    /\ x.pc = "idle" /\ x.inbox = <<>> => x.state \in {"DEAD", "IDLE_EVICTABLE"}
    /\ x.state = "IDLE_EVICTABLE" => /\ x.pc \in {"idle", "fetched"}
                                     /\ InlineWaitFor => x.inbox = <<>>
    /\ x.proc = "up" => /\ x.ref # "none" /\ x.claim = "none"
                        /\ Live(r) /\ x.pc # "start"
    /\ x.claim # "none" /\ Live(r) => x.pc \in {"idle", "fetched"} /\ x.state = "DEAD"
    /\ x.cancel => Live(r)

\* The slot a driver has served is answered once it no longer serves it.
Settled(r) ==
    LET x == res[r] IN
    /\ x.pc \in {"grace", "match", "idle", "fetched", "unhealthy"} /\ x.local # NoSlot
          => ~Pending(x.local)
    /\ InlineWaitFor /\ x.pc = "done" /\ x.local # NoSlot => ~Pending(x.local)
    /\ x.pc = "serve" /\ Pending(x.local) => x.local \in x.inflight

\* How a resident agrees with the registry and the tasks about it.
Linked(r) ==
    LET x == res[r] IN
    /\ r \in registry => /\ x.pc \notin {"none", "finally"} /\ x.state # "DEAD"
                         /\ x.claim = "none" /\ EvictTask(r) \notin bg
                         /\ x.pc = "done" => Stopped
    /\ Live(r) /\ r \notin registry => /\ x.pc \in {"idle", "fetched"} /\ x.state = "DEAD"
                                       /\ x.proc = "up" => EvictTask(r) \in bg
    /\ x.cancel => r \in registry /\ r \in awaited
    /\ EvictTask(r) \in bg => x.pc # "none"
    /\ ReapTask(r) \in bg => x.pc = "done"
    /\ x.pc = "done" => ReapTask(r) \in bg \/ Blank(r)

\* What each stage of shutdown has seen to.
Ends(r) ==
    LET x == res[r] IN
    /\ shutdown = "drivers" /\ r \in registry /\ x.pc # "done" => r \in awaited
    /\ shutdown \in {"tasks", "closed"} /\ r \in registry \cup awaited => x.pc = "done"
    /\ shutdown = "tasks" /\ EvictTask(r) \in bg /\ x.proc = "up" => EvictTask(r) \in draining
    /\ Closed => x.proc # "up"

\* A slot has a resident of its own only once it was popped for it, for good.
Fresh(s) ==
    /\ fut[s] = "none" <=> s > arrived
    /\ res[s].pc # "none" => fut[s] # "none"
    /\ ~Stopped /\ Waiting(s) /\ res[s].pc # "none" => res[s].pc = "start"

ScalarsTyped ==
    /\ fut \in [Slots -> {"none", "pending", "answered"}]
    /\ shutdown \in {"no", "stopping", "drivers", "tasks", "closed"}
    /\ awaited \subseteq Slots
    /\ shutdown \in {"no", "stopping"} => awaited = {}

\* A slot that waits, or has yet to arrive, was deferred at most MaxDefers times.
DefersCounted ==
    /\ defers \in [Slots -> 0 .. MaxDefers + 1]
    /\ \A s \in Slots : Waiting(s) \/ fut[s] = "none" => defers[s] <= MaxDefers

OwnInv ==
    /\ CapInv /\ ScalarsTyped /\ DefersCounted /\ NoneTwice
    /\ \A s \in Slots : /\ Shaped(s) /\ Settled(s) /\ Linked(s) /\ Ends(s)
                        /\ Fresh(s) /\ Placed(s)

-----------------------------------------------------------------------------
(* Steps that move slots between the queue, tasks and one resident.         *)

\* Tasks and residents the step does not touch keep what they have; it removes
\* the tasks R, adds at most one (N), settles the slots in S, and passes on what
\* the queue, R, the resident r and the inbox of a victim v had: nothing pending is
\* dropped or doubled. A step without a victim has v = r.
Moves(r, v, R, N, old, new, S) ==
    /\ \A q \in Slots \ {r, v} : /\ res'[q].inbox = res[q].inbox
                                 /\ res'[q].drained = res[q].drained
                                 /\ Hand(q)' = Hand(q)
    /\ v # r => /\ res'[v].inbox = <<>> /\ res'[v].drained = <<>>
                /\ Hand(v)' = Hand(v)
    /\ R \subseteq Gives /\ Gives' = (Gives \ R) \cup N
    /\ \A t \in N : NoRepeat(t.slots) /\ \A u \in N : t = u
    /\ NoRepeat(queue') /\ NoRepeat(res'[r].inbox) /\ NoRepeat(res'[r].drained)
    /\ ToSet(res'[r].inbox) \cap ToSet(res'[r].drained) = {}
    /\ old = ToSet(queue) \cup TaskSlots(R) \cup Wait(r) \cup Wait(v)
    /\ new = ToSet(queue') \cup TaskSlots(N) \cup Wait(r)'
    /\ ToSet(queue') \cap (TaskSlots(N) \cup Wait(r)') = {}
    /\ TaskSlots(N) \cap Wait(r)' = {} /\ new \cap Hand(r)' = {}
    /\ new \subseteq old /\ Hand(r)' \subseteq old \cup Hand(r)
    /\ fut' = Settle(S) /\ S \subseteq old \cup Hand(r) /\ new \cap S = {}
    /\ InlineWaitFor => \A s \in old \cup Hand(r) :
                            Pending(s) => s \in S \cup new \cup Hand(r)'

\* Such a step keeps every slot in its one place.
LEMMA Transfer ==
    ASSUME OwnInv, CapInv', UNCHANGED tag, NEW r \in Slots, NEW v \in Slots,
           NEW R, NEW N, NEW old, NEW new, NEW S, Moves(r, v, R, N, old, new, S)
    PROVE  /\ NoneTwice' /\ \A s \in Slots : Placed(s)'
           /\ \A s \in Slots : Waiting(s)' => Waiting(s)
<1> USE DEF Moves
<1>a. /\ FieldsTyped /\ FieldsTyped' /\ ScalarsTyped /\ NoneTwice
      /\ \A s \in Slots : Placed(s)
  BY DEF OwnInv, CapInv
<1> DEFINE Other == Gives \ R
<1>00. NoRepeat(<<>>) /\ ToSet(<<>>) = {}
  BY ToSetEmpty DEF NoRepeat
<1>01. \A q \in Slots \ {r} : Wait(q)' = IF q = v THEN {} ELSE Wait(q)
  BY <1>00 DEF Wait, WaitOf
<1>0. /\ \A q \in Slots \ {r} : /\ Hand(q)' = Hand(q)
                                 /\ \A u \in Wait(q)' : u \in Wait(q)
                                 /\ \A d \in Wait(q) : q # v => d \in Wait(q)'
  <2>1. \A q \in Slots \ {r} : Hand(q)' = Hand(q)
    OBVIOUS
  <2> QED BY <1>01, <2>1
<1>1. NoneTwice'
  <2>1. \A t \in Gives' : NoRepeat(t.slots)
    BY <1>a DEF NoneTwice
  <2>2. \A q \in Slots : /\ NoRepeat(res[q].inbox)' /\ NoRepeat(res[q].drained)'
                         /\ (ToSet(res[q].inbox) \cap ToSet(res[q].drained) = {})'
    BY <1>a, <1>00 DEF NoneTwice
  <2> QED BY <2>1, <2>2 DEF NoneTwice
<1>2. ASSUME NEW s \in Slots
      PROVE  /\ s \in ToSet(queue') => s \in new
             /\ \A t \in N : s \in ToSet(t.slots) => s \in TaskSlots(N) /\ s \in new
             /\ s \in Wait(r)' => s \in new
             /\ s \in new => \/ s \in ToSet(queue') \/ s \in Wait(r)'
                             \/ s \in TaskSlots(N)
             /\ s \in TaskSlots(N) => \E t \in N : s \in ToSet(t.slots)
  BY DEF TaskSlots
<1>3. ASSUME NEW s \in Slots, s \in old
      PROVE  /\ Pending(s) /\ s \notin Hand(r)
             /\ \A t \in Other : s \notin ToSet(t.slots)
             /\ \A q \in Slots \ {r} : s \notin Wait(q)' \cup Hand(q)'
  <2>1. Placed(s)
    BY <1>a
  <2>2. CASE s \in ToSet(queue)
    BY <1>0, <2>1, <2>2 DEF Placed
  <2>3. CASE s \in TaskSlots(R)
    <3>1. PICK t \in R : s \in ToSet(t.slots)
      BY <2>3 DEF TaskSlots
    <3> QED BY <1>0, <2>1, <3>1 DEF Placed
  <2>4. CASE s \in Wait(r)
    BY <1>0, <2>1, <2>4 DEF Placed
  <2>5. CASE s \in Wait(v)
    <3>1. CASE v = r
      BY <2>4, <2>5, <3>1
    <3>2. CASE v # r
      <4>1. \A q \in Slots \ {v} : s \notin Wait(q) \cup Hand(q)
        BY <2>1, <2>5 DEF Placed
      <4>2. s \notin Wait(v)' \cup Hand(v)'
        BY <1>0, <1>01, <2>1, <2>5, <3>2 DEF Placed
      <4> QED BY <1>0, <2>1, <2>5, <3>2, <4>1, <4>2 DEF Placed
    <3> QED BY <3>1, <3>2
  <2> QED BY <1>3, <2>2, <2>3, <2>4, <2>5
<1>4. ASSUME NEW s \in Slots
      PROVE  Pending(s)' <=> Pending(s) /\ s \notin S
  BY <1>a DEF Settle, Pending
<1>5. ASSUME NEW s \in Slots, s \in new
      PROVE  Pending(s)' /\ s \in old
  BY <1>3, <1>4, <1>5
<1>6. ASSUME NEW s \in Slots
      PROVE  Waiting(s)' => Waiting(s)
  <2>1. CASE s \in new
    <3>1. s \in old
      BY <2>1
    <3> QED BY <3>1 DEF Waiting, TaskSlots
  <2>2. CASE s \notin new /\ Waiting(s)'
    <3>1. s \notin ToSet(queue') /\ s \notin Wait(r)' /\ \A t \in N : s \notin ToSet(t.slots)
      BY <1>2, <2>2
    <3>2. \/ \E t \in Gives' : s \in ToSet(t.slots)
          \/ \E q \in Slots : s \in Wait(q)'
      BY <2>2, <3>1 DEF Waiting, TaskSlots
    <3>3. CASE \E t \in Gives' : s \in ToSet(t.slots)
      BY <3>1, <3>3 DEF Waiting, TaskSlots
    <3>4. CASE \E q \in Slots : s \in Wait(q)'
      BY <3>1, <3>4, <1>0 DEF Waiting
    <3> QED BY <3>2, <3>3, <3>4
  <2> QED BY <2>1, <2>2
<1>7. ASSUME NEW s \in Slots PROVE Placed(s)'
  <2>0. Placed(s)
    BY <1>a
  <2>1. s \in ToSet(queue') =>
          /\ Pending(s)' /\ \A t \in Gives' : s \notin ToSet(t.slots)
          /\ \A q \in Slots : s \notin Wait(q)' \cup Hand(q)'
    <3> SUFFICES ASSUME s \in ToSet(queue')
                 PROVE  /\ Pending(s)' /\ \A t \in Gives' : s \notin ToSet(t.slots)
                        /\ \A q \in Slots : s \notin Wait(q)' \cup Hand(q)'
      OBVIOUS
    <3>1. s \in new /\ s \in old /\ Pending(s)'
      BY <1>2, <1>5
    <3>2. \A t \in N : s \notin ToSet(t.slots)
      BY <1>2
    <3>3. s \notin Wait(r)' \cup Hand(r)'
      BY <3>1
    <3> QED BY <3>1, <3>2, <3>3, <1>0, <1>3
  <2>2. \A t \in Gives' : s \in ToSet(t.slots) =>
          /\ Pending(s)' /\ \A u \in Gives' : s \in ToSet(u.slots) => u = t
          /\ \A q \in Slots : s \notin Wait(q)' \cup Hand(q)'
    <3> SUFFICES ASSUME NEW t \in Gives', s \in ToSet(t.slots)
                 PROVE  /\ Pending(s)' /\ \A u \in Gives' : s \in ToSet(u.slots) => u = t
                        /\ \A q \in Slots : s \notin Wait(q)' \cup Hand(q)'
      OBVIOUS
    <3>1. CASE t \in N
      <4>1. s \in new /\ s \in old /\ Pending(s)' /\ s \in TaskSlots(N)
        BY <3>1, <1>2, <1>5
      <4>2. s \notin Wait(r)' \cup Hand(r)'
        BY <4>1
      <4> QED BY <3>1, <4>1, <4>2, <1>0, <1>3
    <3>2. CASE t \in Other
      <4>1. /\ Pending(s) /\ \A u \in Gives : s \in ToSet(u.slots) => u = t
            /\ \A q \in Slots : s \notin Wait(q) \cup Hand(q)
        BY <2>0, <3>2 DEF Placed
      <4>2. s \notin old
        BY <3>2, <1>3
      <4>3. s \notin new /\ s \notin Hand(r)' /\ s \notin S
        BY <4>1, <4>2
      <4>4. s \notin Wait(r)' /\ \A u \in N : s \notin ToSet(u.slots)
        BY <4>3, <1>2
      <4> QED BY <4>1, <4>3, <4>4, <1>0, <1>4
    <3> QED BY <3>1, <3>2
  <2>3. \A p \in Slots : s \in Wait(p)' =>
          /\ Pending(s)' /\ s \notin Hand(p)'
          /\ \A q \in Slots \ {p} : s \notin Wait(q)' \cup Hand(q)'
    <3> SUFFICES ASSUME NEW p \in Slots, s \in Wait(p)'
                 PROVE  /\ Pending(s)' /\ s \notin Hand(p)'
                        /\ \A q \in Slots \ {p} : s \notin Wait(q)' \cup Hand(q)'
      OBVIOUS
    <3>1. CASE p = r
      BY <3>1, <1>0, <1>2, <1>3, <1>5
    <3>2. CASE p # r
      <4>1. s \in Wait(p)
        BY <3>2, <1>0
      <4>2. /\ Pending(s) /\ s \notin Hand(p)
            /\ \A q \in Slots \ {p} : s \notin Wait(q) \cup Hand(q)
        BY <2>0, <4>1 DEF Placed
      <4>3. s \notin old
        BY <3>2, <4>1, <1>3
      <4>4. s \notin Hand(r)
        BY <3>2, <4>2
      <4>5. s \notin new /\ s \notin Hand(r)' /\ s \notin S
        BY <4>3, <4>4
      <4>6. s \notin Wait(r)'
        BY <4>5, <1>2
      <4> QED BY <3>2, <4>2, <4>5, <4>6, <1>0, <1>4
    <3> QED BY <3>1, <3>2
  <2>4. \A p \in Slots : s \in Hand(p)' =>
          /\ fut'[s] # "none"
          /\ Pending(s)' => \A q \in Slots \ {p} : s \notin Hand(q)'
    <3> SUFFICES ASSUME NEW p \in Slots, s \in Hand(p)'
                 PROVE  /\ fut'[s] # "none"
                        /\ Pending(s)' => \A q \in Slots \ {p} : s \notin Hand(q)'
      OBVIOUS
    <3>1. fut[s] # "none" => fut'[s] # "none"
      BY <1>a DEF Settle
    <3>2. CASE p = r
      <4>1. s \in old \/ s \in Hand(r)
        BY <3>2
      <4>2. CASE s \in old
        BY <3>1, <3>2, <4>2, <1>3 DEF Pending
      <4>3. CASE s \in Hand(r)
        <5>1. fut[s] # "none" /\ (Pending(s) => \A q \in Slots \ {r} : s \notin Hand(q))
          BY <2>0, <4>3 DEF Placed
        <5> QED BY <3>1, <3>2, <5>1, <1>4
      <4> QED BY <4>1, <4>2, <4>3
    <3>3. CASE p # r
      <4>1. /\ s \in Hand(p) /\ fut[s] # "none"
            /\ Pending(s) => \A q \in Slots \ {p} : s \notin Hand(q)
        BY <2>0, <3>3 DEF Placed
      <4>2. s \notin old
        BY <3>3, <4>1, <1>3
      <4>3. Pending(s) => s \notin Hand(r)'
        BY <3>3, <4>1, <4>2
      <4> QED BY <3>1, <3>3, <4>1, <4>3, <1>4
    <3> QED BY <3>2, <3>3
  <2>5. InlineWaitFor /\ Pending(s)' => Waiting(s)' \/ \E p \in Slots : s \in Hand(p)'
    <3> SUFFICES ASSUME InlineWaitFor, Pending(s)'
                 PROVE  Waiting(s)' \/ \E p \in Slots : s \in Hand(p)'
      OBVIOUS
    <3>1. Pending(s) /\ s \notin S
      BY <1>4
    <3>2. CASE s \in old \cup Hand(r)
      <4>1. s \in new \/ s \in Hand(r)'
        BY <3>1, <3>2
      <4> QED BY <4>1, <1>2 DEF Waiting, TaskSlots
    <3>3. CASE s \notin old \cup Hand(r)
      <4>1. \/ \E t \in Other : s \in ToSet(t.slots)
            \/ \E q \in Slots \ {r} : s \in Wait(q) \/ s \in Hand(q)
        BY <2>0, <3>1, <3>3 DEF Placed, Waiting, TaskSlots
      <4>2. CASE \E t \in Other : s \in ToSet(t.slots)
        BY <4>2 DEF Waiting, TaskSlots
      <4>3. CASE \E q \in Slots \ {r} : s \in Wait(q) \/ s \in Hand(q)
        <5>1. PICK q \in Slots \ {r} : s \in Wait(q) \/ s \in Hand(q)
          BY <4>3
        <5>2. s \in Wait(q) => s \in Wait(q)'
          <6>1. s \in Wait(q) => q # v
            BY <3>3
          <6>2. q # v => Wait(q)' = Wait(q)
            BY <1>01, <5>1
          <6> QED BY <6>1, <6>2
        <5>3. s \in Hand(q) => s \in Hand(q)'
          BY <1>0
        <5> QED BY <5>1, <5>2, <5>3 DEF Waiting
      <4> QED BY <4>1, <4>2, <4>3
    <3> QED BY <3>2, <3>3
  <2> QED BY <2>1, <2>2, <2>3, <2>4, <2>5 DEF Placed
<1> QED BY <1>1, <1>6, <1>7

\* A resident that keeps its record, its place in the registry and its tasks.
LEMMA Unmoved ==
    ASSUME OwnInv, NEW q \in Slots, res'[q] = res[q], q \in registry' <=> q \in registry,
           EvictTask(q) \in bg' <=> EvictTask(q) \in bg,
           ReapTask(q) \in bg' <=> ReapTask(q) \in bg,
           UNCHANGED <<tag, ending>>, \A s \in Slots : Pending(s)' => Pending(s)
    PROVE  Shaped(q)' /\ Settled(q)' /\ Linked(q)' /\ Ends(q)'
<1>1. /\ Shaped(q) /\ Settled(q) /\ Linked(q) /\ Ends(q) /\ res[q] \in Resident
      /\ res[q].pc \in Working => res[q].local \in Slots
      /\ UNCHANGED <<shutdown, awaited, draining>>
  BY DEF OwnInv, CapInv, Sound, ending
<1>2. Live(q)' = Live(q) /\ Blank(q)' = Blank(q) /\ Hand(q)' = Hand(q) /\ Width(q)' = Width(q)
  BY DEF Live, Blank, Hand, Width
<1>3. Shaped(q)'
  BY <1>1, <1>2 DEF Shaped
<1>4. Settled(q)'
  <2>1. res[q].pc = "serve" => res[q].local \in Slots
    BY <1>1 DEF Working, Pcs
  <2>2. res[q].local # NoSlot => res[q].local \in Slots
    BY <1>1 DEF Resident
  <2> QED BY <1>1, <2>1, <2>2 DEF Settled
<1>5. Linked(q)' /\ Ends(q)'
  BY <1>1, <1>2 DEF Linked, Ends, Stopped, Closed
<1> QED BY <1>3, <1>4, <1>5

\* Steps of one resident, where the step is good for that one.
LEMMA ResidentStep ==
    ASSUME OwnInv, CapInv', NEW r \in Slots,
           UNCHANGED <<tag, arrived, defers, ending>>,
           \A q \in Slots \ {r} : res'[q] = res[q],
           registry' \subseteq registry, registry \ {r} \subseteq registry',
           \A q \in Slots \ {r} : /\ EvictTask(q) \in bg' <=> EvictTask(q) \in bg
                                  /\ ReapTask(q) \in bg' <=> ReapTask(q) \in bg,
           NEW S, fut' = Settle(S),
           NoneTwice', \A s \in Slots : Placed(s)',
           \A s \in Slots : Waiting(s)' => Waiting(s),
           res'[r].pc # "none" => res[r].pc # "none",
           res[r].pc = "start" /\ res'[r].pc # "start" => Stopped \/ ~Waiting(r)',
           Shaped(r)', Settled(r)', Linked(r)', Ends(r)'
    PROVE  OwnInv'
<1>1. /\ ScalarsTyped /\ DefersCounted /\ UNCHANGED <<shutdown, awaited, draining>>
      /\ \A s \in Slots : Fresh(s)
  BY DEF OwnInv, ending
<1>2. /\ fut' \in [Slots -> {"none", "pending", "answered"}]
      /\ \A s \in Slots : /\ Pending(s)' => Pending(s)
                          /\ fut'[s] = "none" <=> fut[s] = "none"
  BY <1>1 DEF Settle, ScalarsTyped, Pending
<1>3. ScalarsTyped'
  BY <1>1, <1>2 DEF ScalarsTyped
<1>4. DefersCounted'
  BY <1>1, <1>2 DEF DefersCounted
<1>5. ASSUME NEW q \in Slots
      PROVE  Shaped(q)' /\ Settled(q)' /\ Linked(q)' /\ Ends(q)'
  <2>1. CASE q = r
    BY <2>1
  <2>2. CASE q # r
    BY <2>2, <1>2, Unmoved
  <2> QED BY <2>1, <2>2
<1>6. ASSUME NEW q \in Slots PROVE Fresh(q)'
  <2>0. Stopped' = Stopped /\ Fresh(q)
    BY <1>1 DEF Stopped
  <2>1. CASE q = r
    BY <2>0, <2>1, <1>1, <1>2 DEF Fresh
  <2>2. CASE q # r
    BY <2>0, <2>2, <1>1, <1>2 DEF Fresh
  <2> QED BY <2>1, <2>2
<1> QED BY <1>3, <1>4, <1>5, <1>6 DEF OwnInv

\* The queue stays as it is; what waited at r still waits there or in a new task,
\* or r has it in hand; only slots it had in hand are settled.
Within(r, N, S) ==
    /\ UNCHANGED queue /\ \A q \in Slots \ {r} : res'[q] = res[q]
    /\ Gives' = Gives \cup N
    /\ \A t \in N : NoRepeat(t.slots) /\ \A u \in N : t = u
    /\ NoRepeat(res'[r].inbox) /\ NoRepeat(res'[r].drained)
    /\ ToSet(res'[r].inbox) \cap ToSet(res'[r].drained) = {}
    /\ Wait(r)' \cup TaskSlots(N) \subseteq Wait(r) /\ TaskSlots(N) \cap Wait(r)' = {}
    /\ (Wait(r)' \cup TaskSlots(N)) \cap Hand(r)' = {}
    /\ Hand(r)' \subseteq Wait(r) \cup Hand(r)
    /\ fut' = Settle(S) /\ S \subseteq Hand(r)
    /\ InlineWaitFor => \A s \in Wait(r) \cup Hand(r) :
          Pending(s) => s \in S \cup Wait(r)' \cup TaskSlots(N) \cup Hand(r)'

\* Such a step too keeps every slot in its one place.
LEMMA InnerMove ==
    ASSUME OwnInv, CapInv', UNCHANGED tag, NEW r \in Slots, NEW N, NEW S, Within(r, N, S)
    PROVE  /\ NoneTwice' /\ \A s \in Slots : Placed(s)'
           /\ \A s \in Slots : Waiting(s)' => Waiting(s)
<1> USE DEF Within
<1>1. /\ FieldsTyped /\ FieldsTyped' /\ ScalarsTyped /\ NoneTwice
      /\ \A s \in Slots : Placed(s)
  BY DEF OwnInv, CapInv
<1>2. \A q \in Slots \ {r} : /\ res'[q].inbox = res[q].inbox
                             /\ res'[q].drained = res[q].drained /\ Hand(q)' = Hand(q)
  BY DEF Hand
<1>3. TaskSlots({}) = {} /\ Gives' = (Gives \ {}) \cup N /\ {} \in SUBSET Gives
  BY DEF TaskSlots
<1>4. /\ ToSet(queue) \subseteq Slots /\ Wait(r) \subseteq Slots
      /\ NoRepeat(queue)
  <2>1. queue \in Seq(Slots) /\ res[r].inbox \in Seq(Slots) /\ res[r].drained \in Seq(Slots)
    BY <1>1 DEF FieldsTyped, Resident
  <2> QED BY <1>1, <2>1, ToSetSubset DEF Wait, WaitOf, NoneTwice
<1>5. /\ \A s \in ToSet(queue) : s \notin Wait(r) \cup Hand(r)
      /\ \A s \in Wait(r) : s \notin Hand(r)
      /\ \A s \in ToSet(queue) : Pending(s)
  BY <1>1, <1>4 DEF Placed
<1> DEFINE none == {}
           old == ToSet(queue) \cup TaskSlots(none) \cup Wait(r)
           new == ToSet(queue') \cup TaskSlots(N) \cup Wait(r)'
<1>6. /\ ToSet(queue') = ToSet(queue) /\ NoRepeat(queue') /\ TaskSlots(none) = {}
      /\ none \subseteq Gives /\ Gives' = (Gives \ none) \cup N
  BY <1>3, <1>4
<1>7. /\ ToSet(queue') \cap (TaskSlots(N) \cup Wait(r)') = {}
      /\ new \cap Hand(r)' = {} /\ new \subseteq old /\ Hand(r)' \subseteq old \cup Hand(r)
      /\ S \subseteq old \cup Hand(r) /\ new \cap S = {}
  BY <1>5, <1>6
<1>8. InlineWaitFor =>
         \A s \in old \cup Hand(r) : Pending(s) => s \in S \cup new \cup Hand(r)'
  BY <1>6
<1>9. Moves(r, r, none, N, old, new, S)
  <2>1. TaskSlots(N) \cap Wait(r)' = {}
    OBVIOUS
  <2> HIDE DEF none
  <2> QED BY <1>2, <1>6, <1>7, <1>8, <2>1 DEF Moves
<1> HIDE DEF none, old, new
<1> QED BY <1>9, Transfer

\* A driver that was at work and still is; the registry and the tasks stay.
LEMMA StayOwned ==
    ASSUME OwnInv, CapInv', NEW r \in registry, Live(r), Live(r)',
           UNCHANGED <<tag, arrived, defers, ending, registry, bg>>,
           \A q \in Slots \ {r} : res'[q] = res[q],
           res'[r].claim = "none", res'[r].state # "DEAD", ~res'[r].cancel,
           NEW S, fut' = Settle(S),
           NoneTwice', \A s \in Slots : Placed(s)',
           \A s \in Slots : Waiting(s)' => Waiting(s),
           res[r].pc = "start" /\ res'[r].pc # "start" => ~Waiting(r)',
           Shaped(r)', Settled(r)'
    PROVE  OwnInv'
<1>1. /\ r \in Slots /\ Linked(r) /\ Ends(r) /\ UNCHANGED <<shutdown, awaited, draining>>
      /\ ScalarsTyped
  BY DEF OwnInv, CapInv, FieldsTyped, ending
<1>2. Linked(r)'
  BY <1>1 DEF Linked, Live
<1>3. Ends(r)'
  BY <1>1 DEF Ends, Live, Linked, Closed
<1>4. res[r].pc # "none"
  BY DEF Live
<1> QED BY <1>1, <1>2, <1>3, <1>4, ResidentStep

-----------------------------------------------------------------------------
(* A driver leaves, or goes on with a slot.                                 *)

\* The record x of r is one to leave with: the tasks take what waited or x still
\* has it, and slots in hand are settled (S) or still in hand.
MayLeave(r, x, tasks, N, S) ==
    /\ x \in Resident /\ Live(r) /\ res[r].pc # "start"
    /\ x.claim = res[r].claim /\ ~x.cancel /\ x.next = NoSlot
    /\ x.inflight = {} /\ x.drained = <<>>
    /\ x.proc = "up" => x.ref # "none"
    /\ x.claim # "none" => /\ x.proc # "up"
                           /\ InlineWaitFor /\ x.local # NoSlot => ~Pending(x.local)
    /\ r \notin registry => x.state = "DEAD"
    /\ N \subseteq tasks /\ \A t \in tasks \ N : t = EvictTask(r)
    /\ \A t \in N : /\ t.do \in {"defer", "requeue"} /\ NoRepeat(t.slots)
                    /\ \A u \in N : t = u
    /\ NoRepeat(x.inbox) /\ TaskSlots(N) \cap ToSet(x.inbox) = {}
    /\ ToSet(x.inbox) \cup TaskSlots(N) \subseteq Wait(r)
    /\ (ToSet(x.inbox) \cup TaskSlots(N)) \cap HandOf(x) = {}
    /\ HandOf(x) \subseteq Wait(r) \cup Hand(r)
    /\ fut' = Settle(S) /\ S \subseteq Hand(r)
    /\ InlineWaitFor => \A s \in Wait(r) \cup Hand(r) :
          Pending(s) => s \in S \cup ToSet(x.inbox) \cup TaskSlots(N) \cup HandOf(x)

\* The finally's locked section keeps the invariant.
LEMMA LeaveOwned ==
    ASSUME OwnInv, CapInv', UNCHANGED tag, Quiet, NEW r \in Slots, NEW x, NEW tasks,
           NEW N, NEW S, MayLeave(r, x, tasks, N, S), Leave(r, x, tasks)
    PROVE  OwnInv'
<1>1. /\ x \in Resident /\ Live(r) /\ res \in [Slots -> Resident]
      /\ Linked(r) /\ Ends(r) /\ Shaped(r) /\ ScalarsTyped
      /\ UNCHANGED <<shutdown, awaited, draining, queue>>
      /\ UNCHANGED <<tag, arrived, defers, ending>>
  BY DEF OwnInv, CapInv, FieldsTyped, MayLeave, Quiet, ending
<1>2. /\ Gives \cup N = {t \in bg \cup tasks : t.do \in {"defer", "requeue"}}
      /\ ReapTask(r).do = "reap" /\ EvictTask(r).do = "evict"
      /\ \A t \in N : t.do \notin {"reap", "evict"}
  BY DEF Gives, MayLeave, ReapTask, EvictTask, ResidentTask
<1>3. \A q \in Slots :
         /\ ReapTask(q).do = "reap" /\ EvictTask(q).do = "evict"
         /\ ReapTask(q) # EvictTask(r) /\ ReapTask(r) # EvictTask(q)
         /\ q # r => EvictTask(q) # EvictTask(r) /\ ReapTask(q) # ReapTask(r)
  BY DEF ReapTask, EvictTask, ResidentTask
<1>4. ASSUME NEW y \in Resident, res' = [res EXCEPT ![r] = y],
             WaitOf(y) = ToSet(x.inbox), HandOf(y) = HandOf(x),
             \/ y.inbox = x.inbox /\ y.drained = <<>>
             \/ y.inbox = <<>> /\ y.drained = x.inbox,
             Gives' = Gives \cup N
      PROVE  /\ NoneTwice' /\ \A s \in Slots : Placed(s)'
             /\ \A s \in Slots : Waiting(s)' => Waiting(s)
             /\ res'[r] = y /\ \A q \in Slots \ {r} : res'[q] = res[q]
  <2>1. res'[r] = y /\ \A q \in Slots \ {r} : res'[q] = res[q]
    BY <1>1, <1>4
  <2>2. Wait(r)' = ToSet(x.inbox) /\ Hand(r)' = HandOf(x)
    BY <1>4, <2>1 DEF Wait, Hand
  <2>3. /\ NoRepeat(y.inbox) /\ NoRepeat(y.drained)
        /\ ToSet(y.inbox) \cap ToSet(y.drained) = {}
    <3>1. NoRepeat(<<>>) /\ ToSet(<<>>) = {} /\ NoRepeat(x.inbox)
      BY ToSetEmpty DEF NoRepeat, MayLeave
    <3> QED BY <1>4, <3>1
  <2>4. Within(r, N, S)
    BY <1>1, <1>4, <2>1, <2>2, <2>3 DEF Within, MayLeave
  <2> QED BY <2>1, <2>4, InnerMove
<1>5. CASE x.claim # "none"
  <2> DEFINE y == [x EXCEPT !.pc = "done"]
  <2>1. /\ res' = [res EXCEPT ![r] = y] /\ UNCHANGED registry
        /\ bg' = bg \cup tasks \cup {ReapTask(r)}
    BY <1>5 DEF Leave, Update, ReapTask
  <2>2. y \in Resident
    BY <1>1, PcNames DEF Resident
  <2>3. /\ y.pc = "done" /\ y.inbox = x.inbox /\ y.drained = x.drained
        /\ y.active = x.active /\ y.local = x.local /\ y.next = x.next
        /\ y.inflight = x.inflight
    BY <1>1 DEF Resident
  <2>4. /\ y.state = x.state /\ y.ref = x.ref /\ y.proc = x.proc /\ y.claim = x.claim
        /\ y.cancel = x.cancel
    BY <1>1 DEF Resident
  <2> HIDE DEF y
  <2>5. WaitOf(y) = ToSet(x.inbox) /\ HandOf(y) = HandOf(x) /\ y.drained = <<>>
    BY <2>3, ToSetEmpty DEF WaitOf, HandOf, MayLeave
  <2>6. Gives' = Gives \cup N
    BY <1>2, <2>1 DEF Gives
  <2>7. /\ NoneTwice' /\ \A s \in Slots : Placed(s)'
        /\ \A s \in Slots : Waiting(s)' => Waiting(s)
        /\ res'[r] = y /\ \A q \in Slots \ {r} : res'[q] = res[q]
    BY <1>4, <2>1, <2>2, <2>3, <2>5, <2>6
  <2>8. r \notin registry /\ x.state = "DEAD" /\ x.proc # "up"
    BY <1>1, <1>5 DEF Linked, MayLeave
  <2>9. \A s \in Slots : Pending(s)' => Pending(s)
    BY <1>1 DEF MayLeave, Settle, ScalarsTyped, Pending
  <2>10. Shaped(r)' /\ Settled(r)'
    <3>1. x.local # NoSlot => x.local \in Slots /\ (InlineWaitFor => ~Pending(x.local))
      BY <1>1, <1>5 DEF MayLeave, Resident
    <3>2. InlineWaitFor /\ y.local # NoSlot => ~Pending(y.local)'
      BY <2>3, <2>9, <3>1
    <3> QED BY <2>3, <2>4, <2>5, <2>7, <2>8, <3>2 DEF Shaped, Settled, Live, MayLeave
  <2>11. Linked(r)' /\ Ends(r)'
    BY <1>1, <2>1, <2>3, <2>4, <2>7, <2>8 DEF Linked, Ends, Live, MayLeave
  <2>12. \A q \in Slots \ {r} : /\ EvictTask(q) \in bg' <=> EvictTask(q) \in bg
                                /\ ReapTask(q) \in bg' <=> ReapTask(q) \in bg
    BY <1>2, <1>3, <2>1 DEF MayLeave
  <2> QED BY <1>1, <2>1, <2>7, <2>10, <2>11, <2>12, ResidentStep DEF MayLeave, Live
<1>6. CASE x.claim = "none"
  <2> DEFINE st == IF r \in registry THEN "DEAD" ELSE x.state
             pr == IF x.ref = "none" THEN x.proc ELSE "dying"
             z == [x EXCEPT !.pc = "finally", !.claim = "driver",
                     !.drained = x.inbox, !.inbox = <<>>]
             y == [z EXCEPT !.state = st, !.ref = "none", !.proc = pr]
  <2>1. /\ res' = [res EXCEPT ![r] = y] /\ registry' = registry \ {r}
        /\ bg' = bg \cup tasks
    BY <1>6 DEF Leave, Update
  <2>2. st = "DEAD" /\ pr # "up" /\ pr \in {"none", "up", "dying", "termed", "dead"}
    BY <1>1 DEF MayLeave, Resident
  <2> HIDE DEF st, pr
  <2>3. z \in Resident
    BY <1>1, PcNames, EmptySeq DEF Resident
  <2>4. /\ z.pc = "finally" /\ z.inbox = <<>> /\ z.drained = x.inbox
        /\ z.active = x.active /\ z.local = x.local /\ z.next = x.next
        /\ z.inflight = x.inflight /\ z.cancel = x.cancel
    BY <1>1 DEF Resident
  <2> HIDE DEF z
  <2>5. y \in Resident
    BY <2>2, <2>3 DEF Resident
  <2>6. /\ y.pc = "finally" /\ y.inbox = <<>> /\ y.drained = x.inbox
        /\ y.active = x.active /\ y.local = x.local /\ y.next = x.next
        /\ y.inflight = x.inflight /\ y.cancel = x.cancel
    BY <2>3, <2>4 DEF Resident
  <2>7. y.state = "DEAD" /\ y.proc # "up"
    BY <2>2, <2>3 DEF Resident
  <2> HIDE DEF y
  <2>8. WaitOf(y) = ToSet(x.inbox) /\ HandOf(y) = HandOf(x)
    BY <2>6, ToSetEmpty DEF WaitOf, HandOf
  <2>9. Gives' = Gives \cup N
    BY <1>2, <2>1 DEF Gives
  <2>10. /\ NoneTwice' /\ \A s \in Slots : Placed(s)'
         /\ \A s \in Slots : Waiting(s)' => Waiting(s)
         /\ res'[r] = y /\ \A q \in Slots \ {r} : res'[q] = res[q]
    BY <1>4, <2>1, <2>5, <2>6, <2>8, <2>9
  <2>11. Shaped(r)' /\ Settled(r)'
    BY <2>6, <2>7, <2>10 DEF Shaped, Settled, Live, MayLeave
  <2>12. \A q \in Slots \ {r} : /\ EvictTask(q) \in bg' <=> EvictTask(q) \in bg
                                /\ ReapTask(q) \in bg' <=> ReapTask(q) \in bg
    BY <1>2, <1>3, <2>1 DEF MayLeave
  <2>13. ReapTask(r) \notin bg'
    <3>1. ReapTask(r) \notin bg
      BY <1>1 DEF Linked, Live
    <3> QED BY <1>2, <1>3, <2>1, <3>1 DEF MayLeave
  <2>14. Linked(r)' /\ Ends(r)'
    BY <1>1, <2>1, <2>6, <2>7, <2>10, <2>13 DEF Linked, Ends, Live, MayLeave
  <2> QED BY <1>1, <2>1, <2>10, <2>11, <2>12, <2>14, ResidentStep DEF MayLeave, Live
<1> QED BY <1>5, <1>6

\* The record x of r may go on with slot s, q being what then waits.
MayServe(r, x, s, q) ==
    /\ x \in Resident /\ Live(r) /\ res[r].pc # "start"
    /\ x.claim = res[r].claim /\ ~x.cancel /\ x.active = NoSlot
    /\ x.inflight = {} /\ x.drained = <<>>
    /\ x.proc = "up" => x.ref # "none"
    /\ x.claim # "none" => x.proc # "up" /\ (InlineWaitFor => ~Pending(s))
    /\ r \notin registry => x.state = "DEAD"
    /\ s \in Slots /\ s \in Wait(r) \cup Hand(r)
    /\ q \in Seq(Slots) /\ NoRepeat(q) /\ ToSet(q) \subseteq Wait(r) \ {s}
    /\ UNCHANGED fut
    /\ InlineWaitFor => \A u \in Wait(r) \cup Hand(r) : Pending(u) => u \in {s} \cup ToSet(q)

\* Nothing is settled.
LEMMA SettleNone == ScalarsTyped => fut = Settle({})
BY DEF ScalarsTyped, Settle

\* The top of the serve loop keeps the invariant.
LEMMA ServeNextOwned ==
    ASSUME OwnInv, CapInv', UNCHANGED tag, Quiet, NEW r \in Slots, NEW x, NEW s, NEW q,
           MayServe(r, x, s, q), ServeNext(r, x, s, q)
    PROVE  OwnInv'
<1> DEFINE y == [x EXCEPT !.local = s, !.next = NoSlot, !.inbox = q]
<1>1. /\ x \in Resident /\ Live(r) /\ res \in [Slots -> Resident]
      /\ Linked(r) /\ Ends(r) /\ Shaped(r) /\ ScalarsTyped
      /\ UNCHANGED <<queue>> /\ UNCHANGED <<tag, arrived, defers, ending>>
      /\ s \in Slots /\ q \in Seq(Slots) /\ s # NoSlot
  BY NumSlotsAssumption DEF OwnInv, CapInv, FieldsTyped, MayServe, Quiet
<1>2. y \in Resident
  BY <1>1 DEF Resident
<1>3. /\ y.local = s /\ y.next = NoSlot /\ y.inbox = q /\ y.active = x.active
      /\ y.inflight = x.inflight /\ y.drained = x.drained
  BY <1>1 DEF Resident
<1>4. /\ y.state = x.state /\ y.ref = x.ref /\ y.proc = x.proc /\ y.claim = x.claim
      /\ y.cancel = x.cancel
  BY <1>1 DEF Resident
<1>5. CASE Leave(r, y, {})
  <2> HIDE DEF y
  <2>1. HandOf(y) = {s} /\ TaskSlots({}) = {}
    BY <1>1, <1>3 DEF HandOf, TaskSlots, MayServe
  <2>2. fut' = Settle({})
    BY <1>1, SettleNone DEF MayServe
  <2>3. MayLeave(r, y, {}, {}, {})
    BY <1>2, <1>3, <1>4, <2>1, <2>2 DEF MayLeave, MayServe
  <2> QED BY <1>5, <2>3, LeaveOwned
<1>6. CASE /\ x.state # "DEAD" /\ Update(r, [y EXCEPT !.pc = "audit", !.state = "ACTIVE", !.active = s])
           /\ NoRegistryChange
  <2> DEFINE z == [y EXCEPT !.pc = "audit", !.state = "ACTIVE", !.active = s]
  <2> HIDE DEF y
  <2>1. z \in Resident
    BY <1>1, <1>2, PcNames DEF Resident
  <2>2. /\ z.pc = "audit" /\ z.state = "ACTIVE" /\ z.active = s /\ z.local = s
        /\ z.next = NoSlot /\ z.inbox = q /\ z.inflight = {} /\ z.drained = <<>>
    BY <1>2, <1>3 DEF Resident, MayServe
  <2>3. /\ z.ref = x.ref /\ z.proc = x.proc /\ z.claim = x.claim /\ z.cancel = x.cancel
    BY <1>2, <1>4 DEF Resident
  <2>4. res' = [res EXCEPT ![r] = z] /\ UNCHANGED <<registry, bg>>
    BY <1>6 DEF Update, NoRegistryChange
  <2> HIDE DEF z
  <2>5. res'[r] = z /\ \A p \in Slots \ {r} : res'[p] = res[p]
    BY <1>1, <2>4
  <2>6. Wait(r)' = ToSet(q) /\ Hand(r)' = {s} /\ TaskSlots({}) = {}
    BY <1>1, <2>2, <2>5, ToSetEmpty DEF Wait, WaitOf, Hand, HandOf, TaskSlots
  <2>7. Within(r, {}, {})
    <3>1. NoRepeat(<<>>) /\ ToSet(<<>>) = {}
      BY ToSetEmpty DEF NoRepeat
    <3>2. fut' = Settle({}) /\ Gives' = Gives \cup {}
      BY <1>1, <2>4, SettleNone DEF MayServe, Gives
    <3> QED BY <1>1, <2>2, <2>5, <2>6, <3>1, <3>2 DEF Within, MayServe
  <2>8. /\ NoneTwice' /\ \A u \in Slots : Placed(u)'
        /\ \A u \in Slots : Waiting(u)' => Waiting(u)
    BY <2>7, InnerMove
  <2>9. r \in registry /\ x.claim = "none"
    BY <1>1, <1>6 DEF MayServe, Linked
  <2>10. Shaped(r)' /\ Settled(r)'
    BY <1>1, <2>2, <2>3, <2>5, <2>9 DEF Shaped, Settled, Live, MayServe
  <2>11. Live(r)' /\ res[r].pc # "start" /\ ~z.cancel /\ fut' = Settle({})
    BY <1>1, <2>2, <2>3, <2>5, SettleNone DEF Live, MayServe
  <2> QED BY <1>1, <2>2, <2>3, <2>4, <2>5, <2>8, <2>9, <2>10, <2>11, StayOwned
<1> QED BY <1>5, <1>6 DEF ServeNext

\* The record y of r is one to go on with, the slots in S being settled.
Stays(r, y, S) ==
    /\ y \in Resident /\ Live(r) /\ y.pc \notin {"none", "finally", "done"}
    /\ y.claim = "none" /\ y.state # "DEAD" /\ ~y.cancel
    /\ NoRepeat(y.inbox) /\ y.drained = <<>>
    /\ ToSet(y.inbox) \subseteq Wait(r) /\ ToSet(y.inbox) \cap HandOf(y) = {}
    /\ HandOf(y) \subseteq Wait(r) \cup Hand(r)
    /\ fut' = Settle(S) /\ S \subseteq Hand(r)
    /\ InlineWaitFor => \A s \in Wait(r) \cup Hand(r) :
                            Pending(s) => s \in S \cup ToSet(y.inbox) \cup HandOf(y)
    /\ res[r].pc = "start" => r \in HandOf(y)

\* Going on keeps the invariant, where the record is in shape.
LEMMA StayMove ==
    ASSUME OwnInv, CapInv', UNCHANGED tag, Quiet, NEW r \in registry, NEW y, NEW S,
           Update(r, y), NoRegistryChange, Stays(r, y, S), Shaped(r)', Settled(r)'
    PROVE  OwnInv'
<1>1. /\ r \in Slots /\ res \in [Slots -> Resident]
      /\ UNCHANGED <<tag, arrived, defers, ending, registry, bg>> /\ UNCHANGED queue
  BY DEF OwnInv, CapInv, FieldsTyped, Quiet, NoRegistryChange
<1>2. res'[r] = y /\ \A q \in Slots \ {r} : res'[q] = res[q]
  BY <1>1 DEF Update
<1>3. Wait(r)' = ToSet(y.inbox) /\ Hand(r)' = HandOf(y) /\ TaskSlots({}) = {}
  BY <1>2, ToSetEmpty DEF Wait, WaitOf, Hand, TaskSlots, Stays
<1>4. Within(r, {}, S)
  <2>1. NoRepeat(<<>>) /\ ToSet(<<>>) = {} /\ Gives' = Gives \cup {}
    BY <1>1, ToSetEmpty DEF NoRepeat, Gives
  <2> QED BY <1>1, <1>2, <1>3, <2>1 DEF Within, Stays
<1>5. /\ NoneTwice' /\ \A u \in Slots : Placed(u)'
      /\ \A u \in Slots : Waiting(u)' => Waiting(u)
  BY <1>1, <1>4, InnerMove
<1>6. res[r].pc = "start" => ~Waiting(r)'
  <2> SUFFICES ASSUME r \in Hand(r)' PROVE ~Waiting(r)'
    BY <1>3 DEF Stays
  <2> QED BY <1>1, <1>5 DEF Placed, Waiting, TaskSlots
<1> QED BY <1>1, <1>2, <1>5, <1>6, StayOwned DEF Stays, Live

\* What is known of a resident before its driver moves, and what its place says.
LEMMA DriverFacts ==
    ASSUME OwnInv, NEW r \in Slots
    PROVE  /\ res \in [Slots -> Resident] /\ res[r] \in Resident /\ ScalarsTyped
           /\ Shaped(r) /\ Settled(r) /\ Linked(r) /\ Ends(r) /\ CapInv
           /\ res[r].pc \in Working => res[r].local \in Slots
           /\ NoRepeat(res[r].inbox) /\ NoRepeat(res[r].drained)
           /\ Wait(r) \subseteq Slots /\ Hand(r) \subseteq Slots
           /\ Wait(r) \cap Hand(r) = {} /\ NoSlot \notin Slots
<1>1. /\ res \in [Slots -> Resident] /\ res[r] \in Resident
      /\ res[r].inbox \in Seq(Slots) /\ res[r].drained \in Seq(Slots)
      /\ res[r].pc \in Working => res[r].local \in Slots
  BY DEF OwnInv, CapInv, FieldsTyped, Resident, Sound
<1>2. Wait(r) \subseteq Slots /\ Hand(r) \subseteq Slots
  BY <1>1, ToSetSubset DEF Wait, WaitOf, Hand, HandOf, Resident
<1>3. Wait(r) \cap Hand(r) = {}
  BY <1>2 DEF OwnInv, Placed
<1> QED BY <1>1, <1>2, <1>3, NumSlotsAssumption DEF OwnInv, NoneTwice

\* Where a driver is at work, its resident is registered and nobody else has it.
LEMMA AtWork ==
    ASSUME OwnInv, NEW r \in Slots, Live(r), res[r].pc \notin {"idle", "fetched"}
    PROVE  /\ r \in registry /\ res[r].claim = "none" /\ res[r].state # "DEAD"
           /\ res[r].drained = <<>> /\ Wait(r) = ToSet(res[r].inbox) /\ res[r].next = NoSlot
           /\ res[r].pc # "start" => res[r].local \in Slots
           /\ res[r].pc # "serve" => res[r].inflight = {}
<1>1. r \in registry /\ res[r].claim = "none" /\ res[r].state # "DEAD"
  BY DriverFacts DEF Linked, Live
<1>2. res[r].drained = <<>> /\ res[r].next = NoSlot
      /\ (res[r].pc # "serve" => res[r].inflight = {})
  BY DriverFacts DEF Shaped, Live
<1>3. Wait(r) = ToSet(res[r].inbox)
  BY <1>2, ToSetEmpty DEF Wait, WaitOf
<1>4. res[r].pc # "start" => res[r].local \in Slots
  BY DriverFacts DEF Live, Working, Resident
<1> QED BY <1>1, <1>2, <1>3, <1>4

-----------------------------------------------------------------------------
(* The driver's steps, one after the other.                                 *)

\* The driver takes its first slot from the inbox in hand.
LEMMA DriverStartOwned ==
    ASSUME OwnInv, CapInv', UNCHANGED tag, NEW r \in Slots, DriverStart(r)
    PROVE  OwnInv'
<1> DEFINE x == res[r]
           y == [x EXCEPT !.pc = "gate", !.local = Head(x.inbox), !.inbox = Tail(@)]
<1>1. x.pc = "start" /\ ~x.cancel /\ Live(r) /\ x \in Resident
  BY DriverFacts DEF DriverStart, At, Live
<1>2. /\ r \in registry /\ x.claim = "none" /\ x.state # "DEAD" /\ x.drained = <<>>
      /\ Wait(r) = ToSet(x.inbox) /\ x.next = NoSlot /\ x.inflight = {}
      /\ x.inbox \in Seq(Slots) /\ x.inbox # <<>> /\ NoRepeat(x.inbox)
  BY <1>1, AtWork, DriverFacts DEF CapInv, Sound, Resident
<1>3. Hand(r) = {} /\ Head(x.inbox) = r /\ x.active = NoSlot
  <2>1. Shaped(r)
    BY DriverFacts
  <2>2. Hand(r) = {} /\ Head(x.inbox) = r
    BY <1>1, <2>1 DEF Shaped
  <2> QED BY <2>2 DEF Hand, HandOf
<1>4. /\ Tail(x.inbox) \in Seq(Slots) /\ NoRepeat(Tail(x.inbox))
      /\ ToSet(Tail(x.inbox)) = ToSet(x.inbox) \ {r} /\ r \in ToSet(x.inbox)
  BY <1>2, <1>3, HeadTailLemma
<1>5. y \in Resident
  BY <1>1, <1>3, <1>4, PcNames DEF Resident
<1>6. /\ y.pc = "gate" /\ y.local = r /\ y.inbox = Tail(x.inbox)
      /\ y.active = x.active /\ y.next = x.next /\ y.inflight = x.inflight
      /\ y.drained = x.drained
  BY <1>1, <1>3 DEF Resident
<1>7. /\ y.state = x.state /\ y.ref = x.ref /\ y.proc = x.proc
      /\ y.claim = x.claim /\ y.cancel = x.cancel
  BY <1>1 DEF Resident
<1>8. Update(r, y) /\ NoRegistryChange /\ Quiet /\ UNCHANGED fut
  BY DEF DriverStart
<1> HIDE DEF y
<1>9. HandOf(y) = {r}
  BY <1>2, <1>3, <1>6, DriverFacts DEF HandOf
<1>10. Stays(r, y, {})
  <2>1. fut' = Settle({})
    BY <1>8, SettleNone, DriverFacts
  <2> QED BY <1>1, <1>2, <1>3, <1>4, <1>5, <1>6, <1>7, <1>9, <2>1 DEF Stays
<1>11. res'[r] = y
  BY <1>8, DriverFacts DEF Update
<1>12. Shaped(r)' /\ Settled(r)'
  BY <1>1, <1>2, <1>3, <1>6, <1>7, <1>11, DriverFacts DEF Shaped, Settled, Live
<1> QED BY <1>2, <1>8, <1>10, <1>12, StayMove

\* The sidecar is started, and its pid known.
LEMMA SpawnOwned ==
    ASSUME OwnInv, CapInv', UNCHANGED tag, NEW r \in Slots, Spawn(r)
    PROVE  OwnInv'
<1> DEFINE x == res[r]
           y == [x EXCEPT !.pc = "health", !.proc = "up", !.ref = "booting"]
<1>1. x.pc = "gate" /\ ~x.cancel /\ Live(r) /\ x \in Resident
  BY DriverFacts DEF Spawn, At, Live
<1>2. /\ r \in registry /\ x.claim = "none" /\ x.state # "DEAD" /\ x.drained = <<>>
      /\ Wait(r) = ToSet(x.inbox) /\ x.next = NoSlot /\ x.inflight = {}
      /\ NoRepeat(x.inbox)
  BY <1>1, AtWork, DriverFacts
<1>3. y \in Resident
  BY <1>1, PcNames DEF Resident
<1>4. /\ y.pc = "health" /\ y.local = x.local /\ y.inbox = x.inbox
      /\ y.active = x.active /\ y.next = x.next /\ y.inflight = x.inflight
      /\ y.drained = x.drained
  BY <1>1 DEF Resident
<1>5. /\ y.state = x.state /\ y.ref = "booting" /\ y.proc = "up"
      /\ y.claim = x.claim /\ y.cancel = x.cancel
  BY <1>1 DEF Resident
<1>6. Update(r, y) /\ NoRegistryChange /\ Quiet /\ UNCHANGED fut
  BY DEF Spawn
<1> HIDE DEF y
<1>7. HandOf(y) = Hand(r)
  BY <1>4 DEF Hand, HandOf
<1>8. Stays(r, y, {})
  <2>1. fut' = Settle({})
    BY <1>6, SettleNone, DriverFacts
  <2> QED BY <1>1, <1>2, <1>3, <1>4, <1>5, <1>7, <2>1, DriverFacts DEF Stays
<1>9. res'[r] = y
  BY <1>6, DriverFacts DEF Update
<1>10. Shaped(r)' /\ Settled(r)'
  BY <1>1, <1>2, <1>4, <1>5, <1>9, DriverFacts DEF Shaped, Settled, Live
<1> QED BY <1>2, <1>6, <1>8, <1>10, StayMove

\* An unhealthy sidecar: its slot is answered before it is reaped.
LEMMA HealthFailsOwned ==
    ASSUME OwnInv, CapInv', UNCHANGED tag, NEW r \in Slots, HealthFails(r)
    PROVE  OwnInv'
<1> DEFINE x == res[r]
           y == [x EXCEPT !.pc = "unhealthy", !.ref = "none", !.proc = "dying"]
<1>1. x.pc = "health" /\ ~x.cancel /\ Live(r) /\ x \in Resident
  BY DriverFacts DEF HealthFails, At, Live
<1>2. /\ r \in registry /\ x.claim = "none" /\ x.state # "DEAD" /\ x.drained = <<>>
      /\ Wait(r) = ToSet(x.inbox) /\ x.next = NoSlot /\ x.inflight = {}
      /\ NoRepeat(x.inbox) /\ x.local \in Slots
  BY <1>1, AtWork, DriverFacts
<1>3. y \in Resident
  BY <1>1, PcNames DEF Resident
<1>4. /\ y.pc = "unhealthy" /\ y.local = x.local /\ y.inbox = x.inbox
      /\ y.active = x.active /\ y.next = x.next /\ y.inflight = x.inflight
      /\ y.drained = x.drained
  BY <1>1 DEF Resident
<1>5. /\ y.state = x.state /\ y.ref = "none" /\ y.proc = "dying"
      /\ y.claim = x.claim /\ y.cancel = x.cancel
  BY <1>1 DEF Resident
<1>6. /\ Update(r, y) /\ NoRegistryChange /\ Quiet
      /\ fut' = Settle({x.local})
  BY DEF HealthFails
<1> HIDE DEF y
<1>7. HandOf(y) = Hand(r)
  BY <1>4 DEF Hand, HandOf
<1>8. x.local \in Hand(r)
  BY <1>2, DriverFacts DEF Hand, HandOf
<1>9. Stays(r, y, {x.local})
  BY <1>1, <1>2, <1>3, <1>4, <1>5, <1>6, <1>7, <1>8, DriverFacts DEF Stays
<1>10. res'[r] = y
  BY <1>6, DriverFacts DEF Update
<1>11. fut'[x.local] # "pending"
  BY <1>2, <1>6, DriverFacts DEF Settle
<1>12. Shaped(r)' /\ Settled(r)'
  BY <1>1, <1>2, <1>4, <1>5, <1>10, <1>11, DriverFacts
     DEF Shaped, Settled, Live, Pending
<1> QED BY <1>2, <1>6, <1>9, <1>12, StayMove

\* The record y of r once it fills up, with busy still in flight.
Filled(r, busy, y) ==
    /\ y \in Resident /\ NoRepeat(y.inbox)
    /\ busy \subseteq y.inflight /\ ToSet(y.inbox) \subseteq ToSet(res[r].inbox)
    /\ y.inflight \cup ToSet(y.inbox) = busy \cup ToSet(res[r].inbox)
    /\ (y.inflight \ busy) \cap ToSet(y.inbox) = {}
    /\ Width(r) = 1 => y.inflight = busy
    /\ y.pc = IF y.inflight = {} THEN "grace" ELSE "serve"
    /\ y.active = res[r].active /\ y.local = res[r].local /\ y.next = res[r].next
    /\ y.drained = res[r].drained /\ y.state = res[r].state /\ y.ref = res[r].ref
    /\ y.proc = res[r].proc /\ y.claim = res[r].claim /\ y.cancel = res[r].cancel

\* Filling up takes the riders from the front of the inbox.
LEMMA LaunchFacts ==
    ASSUME OwnInv, NEW r \in Slots, NEW busy \in SUBSET Slots,
           Cardinality(busy) <= Width(r), res[r].local \in Slots
    PROVE  Filled(r, busy, Launch(r, busy))
<1> DEFINE y == Launch(r, busy)
<1> DEFINE q == res[r].inbox
           k == Riders(r, busy)
           front == SubSeq(q, 1, k)
           back == SubSeq(q, k + 1, Len(q))
           flying == busy \cup ToSet(front)
<1>1. y \in Resident
  BY LaunchSound DEF OwnInv, Sound
<1>2. k \in 0 .. Len(q) /\ (Width(r) = 1 => k = 0)
  BY RidersFit DEF OwnInv, Riders
<1>3. /\ res[r] \in Resident /\ q \in Seq(Slots) /\ NoRepeat(q) /\ Len(q) \in Nat
  BY DriverFacts, LenProperties DEF Resident
<1>4. y = [res[r] EXCEPT !.inflight = flying,
                         !.pc = IF flying = {} THEN "grace" ELSE "serve",
                         !.inbox = back]
  BY DEF Launch, Riders
<1> HIDE DEF q, k, y
<1>5. /\ NoRepeat(back) /\ ToSet(front) = {q[j] : j \in 1 .. k}
      /\ ToSet(back) = {q[j] : j \in k + 1 .. Len(q)}
  <2>1. /\ 1 \in 1 .. Len(q) + 1 /\ k \in 0 .. Len(q)
        /\ k + 1 \in 1 .. Len(q) + 1 /\ Len(q) \in 0 .. Len(q)
    BY <1>2, <1>3
  <2>2. ToSet(front) = {q[j] : j \in 1 .. k}
    BY <1>3, <2>1, SliceLemma
  <2>3. ToSet(back) = {q[j] : j \in k + 1 .. Len(q)} /\ NoRepeat(back)
    BY <1>3, <2>1, SliceLemma
  <2> QED BY <2>2, <2>3
<1>6. ToSet(q) = {q[j] : j \in 1 .. Len(q)} /\ DOMAIN q = 1 .. Len(q)
  BY <1>3, LenProperties DEF ToSet
<1>7. ToSet(front) \cup ToSet(back) = ToSet(q) /\ ToSet(front) \cap ToSet(back) = {}
  <2>1. \A j \in 1 .. Len(q) : j \in 1 .. k \/ j \in k + 1 .. Len(q)
    BY <1>2, <1>3
  <2>2. /\ 1 .. k \subseteq 1 .. Len(q) /\ k + 1 .. Len(q) \subseteq 1 .. Len(q)
        /\ \A i \in 1 .. k, j \in k + 1 .. Len(q) : i # j
    BY <1>2, <1>3
  <2>3. \A i, j \in 1 .. Len(q) : q[i] = q[j] => i = j
    BY <1>3, <1>6 DEF NoRepeat
  <2> QED BY <1>5, <1>6, <2>1, <2>2, <2>3
<1>8. Width(r) = 1 => ToSet(front) = {}
  BY <1>2, <1>5
<1> HIDE DEF flying, front, back
<1>9. /\ y.inflight = flying /\ y.inbox = back
      /\ y.pc = IF flying = {} THEN "grace" ELSE "serve"
  BY <1>3, <1>4 DEF Resident
<1>10. /\ y.active = res[r].active /\ y.local = res[r].local /\ y.next = res[r].next
       /\ y.drained = res[r].drained /\ y.state = res[r].state /\ y.ref = res[r].ref
       /\ y.proc = res[r].proc /\ y.claim = res[r].claim /\ y.cancel = res[r].cancel
  BY <1>3, <1>4 DEF Resident
<1> QED BY <1>1, <1>5, <1>7, <1>8, <1>9, <1>10 DEF flying, q, y, Filled

\* The audited slot is served, with riders from the inbox.
LEMMA StartServingOwned ==
    ASSUME OwnInv, CapInv', UNCHANGED tag, NEW r \in Slots, StartServing(r)
    PROVE  OwnInv'
<1> DEFINE x == res[r]
           y == Launch(r, {x.local})
<1>1. x.pc = "audit" /\ ~x.cancel /\ Live(r) /\ x \in Resident
  BY DriverFacts DEF StartServing, At, Live
<1>2. /\ r \in registry /\ x.claim = "none" /\ x.state # "DEAD" /\ x.drained = <<>>
      /\ Wait(r) = ToSet(x.inbox) /\ x.next = NoSlot /\ x.inflight = {}
      /\ NoRepeat(x.inbox) /\ x.local \in Slots
  BY <1>1, AtWork, DriverFacts
<1>3. x.active = x.local /\ Hand(r) = {x.local}
  BY <1>1, <1>2, DriverFacts DEF Shaped, Hand, HandOf
<1>4. {x.local} \in SUBSET Slots /\ Cardinality({x.local}) <= Width(r)
  <2>1. Cardinality({x.local}) = 1 /\ Width(r) \in Nat \ {0}
    BY Widths, FS_Singleton DEF OwnInv, CapInv, FieldsTyped
  <2> QED BY <1>2, <2>1
<1>5. Update(r, y) /\ NoRegistryChange /\ Quiet /\ UNCHANGED fut
  BY DEF StartServing
<1> HIDE DEF y
<1>6. /\ y \in Resident /\ NoRepeat(y.inbox) /\ x.local \in y.inflight
      /\ ToSet(y.inbox) \subseteq ToSet(x.inbox)
      /\ y.inflight \cup ToSet(y.inbox) = {x.local} \cup ToSet(x.inbox)
      /\ (y.inflight \ {x.local}) \cap ToSet(y.inbox) = {}
      /\ Width(r) = 1 => y.inflight = {x.local}
      /\ y.pc = "serve"
      /\ y.active = x.local /\ y.local = x.local /\ y.next = NoSlot
      /\ y.drained = <<>> /\ y.state = x.state /\ y.ref = x.ref
      /\ y.proc = x.proc /\ y.claim = "none" /\ y.cancel = x.cancel
  <2>1. Filled(r, {x.local}, y)
    BY <1>2, <1>4, LaunchFacts DEF y
  <2> QED BY <1>2, <1>3, <2>1 DEF Filled
<1>7. HandOf(y) = y.inflight
  BY <1>2, <1>6, DriverFacts DEF HandOf, Resident
<1>8. Stays(r, y, {})
  <2>1. fut' = Settle({})
    BY <1>5, SettleNone, DriverFacts
  <2>2. x.local \notin ToSet(x.inbox)
    BY <1>2, <1>3, DriverFacts
  <2> QED BY <1>1, <1>2, <1>3, <1>6, <1>7, <2>1, <2>2 DEF Stays
<1>9. res'[r] = y /\ Width(r)' = Width(r)
  BY <1>5, DriverFacts DEF Update, Width
<1>10. Shaped(r)' /\ Settled(r)'
  BY <1>1, <1>2, <1>6, <1>9, DriverFacts DEF Shaped, Settled, Live
<1> QED BY <1>2, <1>5, <1>8, <1>10, StayMove

\* A slot in flight is answered and riders take its place.
LEMMA ServeEndsOwned ==
    ASSUME OwnInv, CapInv', UNCHANGED tag, NEW r \in Slots, NEW s \in Slots, ServeEnds(r, s)
    PROVE  OwnInv'
<1> DEFINE x == res[r]
           busy == x.inflight \ {s}
           y == Launch(r, busy)
<1>1. x.pc = "serve" /\ ~x.cancel /\ Live(r) /\ x \in Resident /\ s \in x.inflight
  BY DriverFacts DEF ServeEnds, At, Live
<1>2. /\ r \in registry /\ x.claim = "none" /\ x.state # "DEAD" /\ x.drained = <<>>
      /\ Wait(r) = ToSet(x.inbox) /\ x.next = NoSlot
      /\ NoRepeat(x.inbox) /\ x.local \in Slots
  BY <1>1, AtWork, DriverFacts
<1>3. x.active = x.local /\ Hand(r) = {x.local} \cup x.inflight
      /\ (Width(r) = 1 => x.inflight \subseteq {x.local})
  BY <1>1, <1>2, DriverFacts DEF Shaped, Hand, HandOf, Resident
<1>4. busy \in SUBSET Slots /\ Cardinality(busy) <= Width(r)
  <2>1. x.inflight \in SUBSET Slots /\ Cardinality(x.inflight) <= Width(r)
    BY ResidentFacts DEF OwnInv
  <2>2. /\ IsFiniteSet(x.inflight) /\ Cardinality(x.inflight) \in Nat /\ Width(r) \in Nat
        /\ Cardinality(busy) \in Nat
    BY <2>1, SlotSets, Widths DEF OwnInv, CapInv, FieldsTyped
  <2>3. Cardinality(busy) <= Cardinality(x.inflight)
    BY <2>2, FS_Subset
  <2> QED BY <2>1, <2>2, <2>3
<1>5. Update(r, y) /\ NoRegistryChange /\ Quiet /\ fut' = Settle({s})
  BY DEF ServeEnds
<1>6. Filled(r, busy, y)
  BY <1>2, <1>4, LaunchFacts
<1> HIDE DEF y
<1>7. /\ y \in Resident /\ NoRepeat(y.inbox) /\ busy \subseteq y.inflight
      /\ ToSet(y.inbox) \subseteq ToSet(x.inbox)
      /\ y.inflight \cup ToSet(y.inbox) = busy \cup ToSet(x.inbox)
      /\ (y.inflight \ busy) \cap ToSet(y.inbox) = {}
      /\ Width(r) = 1 => y.inflight = busy
      /\ y.pc = IF y.inflight = {} THEN "grace" ELSE "serve"
      /\ y.active = x.local /\ y.local = x.local /\ y.next = NoSlot
      /\ y.drained = <<>> /\ y.state = x.state /\ y.ref = x.ref
      /\ y.proc = x.proc /\ y.claim = "none" /\ y.cancel = x.cancel
  BY <1>2, <1>3, <1>6 DEF Filled
<1>8. HandOf(y) = {x.local} \cup y.inflight
  BY <1>2, <1>7, DriverFacts DEF HandOf, Resident
<1>9. x.local \notin ToSet(x.inbox) /\ x.inflight \cap ToSet(x.inbox) = {}
  BY <1>2, <1>3, DriverFacts
<1>10. Stays(r, y, {s})
  BY <1>1, <1>2, <1>3, <1>5, <1>7, <1>8, <1>9 DEF Stays
<1>11. res'[r] = y /\ Width(r)' = Width(r)
  BY <1>5, DriverFacts DEF Update, Width
<1>12. fut'[x.local] = "pending" => x.local \in busy
  BY <1>1, <1>2, <1>5, DriverFacts DEF Settle, Settled, Pending
<1>13. Shaped(r)'
  BY <1>1, <1>2, <1>3, <1>7, <1>11, DriverFacts DEF Shaped, Live
<1>14. Settled(r)'
  BY <1>7, <1>11, <1>12 DEF Settled, Pending
<1> QED BY <1>2, <1>5, <1>10, <1>13, <1>14, StayMove


\* A driver at work that leaves as it is, but for what was in flight.
OnWayOut(r, x, S) ==
    /\ Live(r) /\ res[r].pc \notin {"start", "idle", "fetched"}
    /\ x \in Resident /\ x.inbox = res[r].inbox /\ x.drained = <<>>
    /\ x.next = NoSlot /\ x.inflight = {} /\ ~x.cancel /\ x.claim = res[r].claim
    /\ x.proc = "up" => x.ref # "none"
    /\ HandOf(x) \subseteq Hand(r) /\ fut' = Settle(S) /\ S \subseteq Hand(r)
    /\ \A s \in Hand(r) : Pending(s) => s \in S \cup HandOf(x)

\* A driver that leaves from where it was at work keeps the invariant.
LEMMA OutOwned ==
    ASSUME OwnInv, CapInv', UNCHANGED tag, Quiet, NEW r \in Slots, NEW x, NEW S,
           OnWayOut(r, x, S), Leave(r, x, {})
    PROVE  OwnInv'
<1>1. /\ Live(r) /\ res[r].pc \notin {"start", "idle", "fetched"}
  BY DEF OnWayOut
<1>2. /\ r \in registry /\ res[r].claim = "none"
      /\ Wait(r) = ToSet(res[r].inbox) /\ NoRepeat(res[r].inbox)
      /\ Wait(r) \cap Hand(r) = {} /\ TaskSlots({}) = {}
  BY <1>1, AtWork, DriverFacts DEF TaskSlots
<1>3. MayLeave(r, x, {}, {}, S)
  BY <1>1, <1>2 DEF OnWayOut, MayLeave
<1> QED BY <1>3, LeaveOwned

\* The gates refuse, the load raises, or an unhealthy sidecar is reaped.
LEMMA LoadOutOwned ==
    ASSUME OwnInv, CapInv', UNCHANGED tag, NEW r \in Slots,
           SpawnRefused(r) \/ LoadRaises(r) \/ UnhealthyReaped(r)
    PROVE  OwnInv'
<1> DEFINE x == res[r]
<1>1. /\ x.pc \in {"gate", "health", "unhealthy"} /\ ~x.cancel /\ Live(r)
      /\ x \in Resident /\ ScalarsTyped
  BY DriverFacts DEF SpawnRefused, LoadRaises, UnhealthyReaped, At, Live
<1>2. /\ x.drained = <<>> /\ x.next = NoSlot /\ x.inflight = {} /\ x.local \in Slots
      /\ x.local \in Hand(r)
  BY <1>1, AtWork, DriverFacts DEF Hand, HandOf
<1>3. x.proc = "up" => x.ref # "none"
  BY DriverFacts DEF Shaped
<1>4. CASE SpawnRefused(r)
  <2>1. fut' = Settle({x.local}) /\ Leave(r, x, {}) /\ Quiet
    BY <1>4 DEF SpawnRefused
  <2>2. OnWayOut(r, x, {x.local})
    BY <1>1, <1>2, <1>3, <2>1 DEF OnWayOut, Hand
  <2> QED BY <2>1, <2>2, OutOwned
<1>5. CASE LoadRaises(r)
  <2>1. fut' = Settle({}) /\ Leave(r, x, {}) /\ Quiet
    BY <1>1, <1>5, SettleNone DEF LoadRaises
  <2>2. OnWayOut(r, x, {})
    BY <1>1, <1>2, <1>3, <2>1 DEF OnWayOut, Hand
  <2> QED BY <2>1, <2>2, OutOwned
<1>6. CASE UnhealthyReaped(r)
  <2> DEFINE y == [x EXCEPT !.proc = "dead"]
  <2>1. fut' = Settle({}) /\ Leave(r, y, {}) /\ Quiet
    BY <1>1, <1>6, SettleNone DEF UnhealthyReaped
  <2>2. /\ y \in Resident /\ y.inbox = x.inbox /\ y.drained = x.drained
        /\ y.next = x.next /\ y.inflight = x.inflight /\ y.cancel = x.cancel
        /\ y.claim = x.claim /\ y.proc = "dead" /\ y.active = x.active
        /\ y.local = x.local
    BY <1>1 DEF Resident
  <2> HIDE DEF y
  <2>3. HandOf(y) = Hand(r)
    BY <2>2 DEF Hand, HandOf
  <2>4. OnWayOut(r, y, {})
    BY <1>1, <1>2, <2>1, <2>2, <2>3 DEF OnWayOut
  <2> QED BY <2>1, <2>4, OutOwned
<1> QED BY <1>4, <1>5, <1>6

\* An error of the audit, or of the lone anchor of a one-slot sidecar.
LEMMA ServeRaisesOwned ==
    ASSUME OwnInv, CapInv', UNCHANGED tag, NEW r \in Slots, ServeRaises(r)
    PROVE  OwnInv'
<1> DEFINE x == res[r]
           y == [x EXCEPT !.inflight = {}]
<1>1. /\ x.pc \in {"audit", "serve"} /\ ~x.cancel /\ Live(r)
      /\ x \in Resident /\ ScalarsTyped /\ (x.pc = "serve" => Width(r) = 1)
  BY DriverFacts DEF ServeRaises, At, Live
<1>2. /\ x.drained = <<>> /\ x.next = NoSlot /\ x.local \in Slots
      /\ x.inflight \subseteq {x.local} /\ x.active = x.local
  BY <1>1, AtWork, DriverFacts DEF Shaped
<1>3. x.proc = "up" => x.ref # "none"
  BY DriverFacts DEF Shaped
<1>4. fut' = Settle({}) /\ Leave(r, y, {}) /\ Quiet
  BY <1>1, SettleNone DEF ServeRaises
<1>5. /\ y \in Resident /\ y.inbox = x.inbox /\ y.drained = x.drained
      /\ y.next = x.next /\ y.inflight = {} /\ y.cancel = x.cancel
      /\ y.claim = x.claim /\ y.proc = x.proc /\ y.active = x.active
      /\ y.local = x.local /\ y.ref = x.ref
  BY <1>1 DEF Resident
<1> HIDE DEF y
<1>6. HandOf(y) = {x.local} /\ Hand(r) = {x.local}
  BY <1>2, <1>5, DriverFacts DEF Hand, HandOf
<1>7. OnWayOut(r, y, {})
  BY <1>1, <1>2, <1>3, <1>4, <1>5, <1>6 DEF OnWayOut
<1> QED BY <1>4, <1>7, OutOwned

\* The sidecar is healthy: its handle is published and the first slot served.
LEMMA HealthOkOwned ==
    ASSUME OwnInv, CapInv', UNCHANGED tag, NEW r \in Slots, HealthOk(r)
    PROVE  OwnInv'
<1> DEFINE x == res[r]
           y == [x EXCEPT !.ref = "handle", !.state = "ACTIVE"]
<1>1. /\ x.pc = "health" /\ ~x.cancel /\ Live(r)
      /\ x \in Resident /\ ScalarsTyped /\ x.inbox \in Seq(Slots)
  BY DriverFacts DEF HealthOk, At, Live, Resident
<1>2. /\ r \in registry /\ x.drained = <<>> /\ x.next = NoSlot /\ x.local \in Slots
      /\ x.inflight = {} /\ x.active = NoSlot /\ x.claim = "none"
      /\ Wait(r) = ToSet(x.inbox) /\ NoRepeat(x.inbox)
  BY <1>1, AtWork, DriverFacts DEF Shaped
<1>3. UNCHANGED fut /\ ServeNext(r, y, x.local, x.inbox) /\ Quiet
  BY DEF HealthOk
<1>4. /\ y \in Resident /\ y.drained = x.drained /\ y.inflight = x.inflight
      /\ y.cancel = x.cancel /\ y.claim = x.claim /\ y.active = x.active
      /\ y.ref = "handle"
  BY <1>1 DEF Resident
<1> HIDE DEF y
<1>5. Hand(r) = {x.local} /\ x.local \notin ToSet(x.inbox)
  BY <1>2, DriverFacts DEF Hand, HandOf
<1>6. MayServe(r, y, x.local, x.inbox)
  BY <1>1, <1>2, <1>3, <1>4, <1>5 DEF MayServe
<1> QED BY <1>3, <1>6, ServeNextOwned

\* What an eviction hands back to the queue.
Returned(r) == IF res[r].inbox = <<>> THEN {} ELSE {RequeueTask(res[r].inbox)}

\* An eviction hands back the inbox, whole, and leaves a teardown task.
LEMMA EvictionFacts ==
    ASSUME OwnInv, NEW r \in Slots
    PROVE  /\ EvictTasks(r) =
                Returned(r) \cup (IF res[r].state = "DEAD" THEN {} ELSE {EvictTask(r)})
           /\ TaskSlots(Returned(r)) = ToSet(res[r].inbox)
           /\ \A t \in Returned(r) : /\ t.do = "requeue" /\ NoRepeat(t.slots)
                                     /\ t = RequeueTask(res[r].inbox)
           /\ EvictTask(r).do = "evict"
<1>1. NoRepeat(res[r].inbox)
  BY DriverFacts
<1>2. RequeueTask(res[r].inbox).do = "requeue" /\ RequeueTask(res[r].inbox).slots = res[r].inbox
  BY DEF RequeueTask
<1>3. TaskSlots(Returned(r)) = ToSet(res[r].inbox)
  BY <1>2, ToSetEmpty DEF TaskSlots, Returned
<1> QED BY <1>1, <1>2, <1>3 DEF EvictTasks, Returned, EvictTask, ResidentTask

\* A driver that evicts its own resident keeps the invariant.
LEMMA SelfEvictOwned ==
    ASSUME OwnInv, CapInv', UNCHANGED tag, Quiet, UNCHANGED fut, NEW r \in registry,
           res[r].pc \in {"grace", "idle"}, ~res[r].cancel, NEW x \in Resident,
           x.local = res[r].local, x.next = res[r].next, x.inflight = res[r].inflight,
           x.drained = res[r].drained, x.cancel = res[r].cancel, x.claim = res[r].claim,
           x.proc = res[r].proc, x.ref = res[r].ref, x.active = NoSlot,
           Leave(r, Evicted(x), EvictTasks(r))
    PROVE  OwnInv'
<1> DEFINE o == res[r]
           y == Evicted(x)
<1>1. /\ r \in Slots /\ o \in Resident /\ ScalarsTyped /\ Live(r) /\ o.claim = "none"
      /\ o.next = NoSlot /\ o.inflight = {} /\ o.drained = <<>> /\ o.local \in Slots
      /\ Wait(r) = ToSet(o.inbox)
  <2>1. r \in Slots
    BY DEF OwnInv, CapInv, FieldsTyped
  <2>2. o.drained = <<>> /\ o.local \in Slots
    BY <2>1, DriverFacts DEF Shaped, Working, Resident
  <2> QED BY <2>1, <2>2, DriverFacts, ToSetEmpty DEF Live, Linked, Shaped, Wait, WaitOf
<1>4. y \in Resident /\ y.inbox = <<>> /\ y.state = "DEAD"
  BY EmptySeq DEF Evicted, Resident
<1>5. /\ y.next = o.next /\ y.inflight = o.inflight /\ y.local = o.local /\ y.active = NoSlot
      /\ y.drained = o.drained /\ y.cancel = o.cancel
      /\ y.claim = o.claim /\ y.proc = o.proc /\ y.ref = o.ref
  BY DEF Evicted, Resident
<1> HIDE DEF y
<1>6. HandOf(y) = {o.local} /\ {o.local} = Hand(r)
  BY <1>1, <1>5, DriverFacts DEF HandOf, Hand, Shaped
<1>7. NoRepeat(<<>>) /\ ToSet(<<>>) = {}
  BY ToSetEmpty DEF NoRepeat
<1>8. fut' = Settle({})
  BY <1>1, SettleNone
<1>9. /\ Returned(r) \subseteq EvictTasks(r)
      /\ \A t \in EvictTasks(r) \ Returned(r) : t = EvictTask(r)
      /\ TaskSlots(Returned(r)) = ToSet(o.inbox)
      /\ \A t \in Returned(r) : /\ t.do \in {"defer", "requeue"} /\ NoRepeat(t.slots)
                                /\ \A u \in Returned(r) : t = u
  BY <1>1, EvictionFacts
<1>10. (o.proc = "up" => o.ref # "none") /\ ToSet(o.inbox) \cap Hand(r) = {}
  BY <1>1, DriverFacts DEF Shaped
<1>11. MayLeave(r, y, EvictTasks(r), Returned(r), {})
  BY <1>1, <1>4, <1>5, <1>6, <1>7, <1>8, <1>9, <1>10 DEF MayLeave
<1> QED BY <1>1, <1>11, LeaveOwned DEF y

\* A follow-up leaves the queue for the driver that serves it in its grace window.
LEMMA GraceMatchOwned ==
    ASSUME OwnInv, CapInv', UNCHANGED tag, NEW r \in Slots, GraceMatch(r)
    PROVE  OwnInv'
<1> DEFINE x == res[r]
<1>1. PICK i \in DOMAIN queue :
        /\ queue' = RemoveAt(queue, i)
        /\ Update(r, [x EXCEPT !.pc = "match", !.active = queue[i]])
  BY DEF GraceMatch
<1> DEFINE u == queue[i]
           y == [x EXCEPT !.pc = "match", !.active = u]
<1>2. /\ x.pc = "grace" /\ ~x.cancel /\ Live(r) /\ x \in Resident /\ ScalarsTyped
  BY DriverFacts DEF GraceMatch, At, Live
<1>3. /\ r \in registry /\ x.claim = "none" /\ x.state # "DEAD" /\ x.drained = <<>>
      /\ Wait(r) = ToSet(x.inbox) /\ x.next = NoSlot /\ x.inflight = {}
      /\ NoRepeat(x.inbox) /\ x.local \in Slots /\ x.active = x.local
      /\ ~Pending(x.local)
  BY <1>2, AtWork, DriverFacts DEF Shaped, Settled
<1>4. /\ u \in Slots /\ u \in ToSet(queue) /\ NoRepeat(queue)
      /\ NoRepeat(queue') /\ ToSet(queue') = ToSet(queue) \ {u}
      /\ ToSet(queue) \subseteq Slots
  <2>1. queue \in Seq(Slots) /\ i \in 1 .. Len(queue) /\ NoRepeat(queue)
    BY LenProperties DEF OwnInv, CapInv, FieldsTyped, NoneTwice
  <2> QED BY <1>1, <2>1, ElementOfSeq, RemoveAtLemma, InToSet, ToSetSubset
<1>5. y \in Resident
  BY <1>2, <1>4, PcNames DEF Resident
<1>6. /\ y.pc = "match" /\ y.local = x.local /\ y.inbox = x.inbox
      /\ y.active = u /\ y.next = x.next /\ y.inflight = x.inflight
      /\ y.drained = x.drained
  BY <1>2 DEF Resident
<1>7. /\ y.state = x.state /\ y.ref = x.ref /\ y.proc = x.proc
      /\ y.claim = x.claim /\ y.cancel = x.cancel
  BY <1>2 DEF Resident
<1>8. /\ Update(r, y) /\ UNCHANGED <<registry, bg, arrived, fut, defers, ending>>
  BY <1>1 DEF GraceMatch, NoRegistryChange
<1> HIDE DEF y, u
<1>9. res'[r] = y /\ \A q \in Slots \ {r} : res'[q] = res[q]
  BY <1>8, DriverFacts DEF Update
<1>10. /\ Hand(r) = {x.local} /\ Hand(r)' = {u, x.local}
       /\ Wait(r)' = Wait(r) /\ TaskSlots({}) = {}
       /\ \A q \in Slots \ {r} : Hand(q)' = Hand(q)
  <2>1. Hand(r) = {x.local} /\ Hand(r)' = {u, x.local}
    BY <1>3, <1>4, <1>6, <1>9, DriverFacts DEF Hand, HandOf
  <2> QED BY <1>6, <1>9, <2>1 DEF Wait, WaitOf, Hand, TaskSlots
<1> DEFINE old == ToSet(queue) \cup TaskSlots({}) \cup Wait(r)
           new == ToSet(queue') \cup TaskSlots({}) \cup Wait(r)'
<1>11. /\ ToSet(queue) \cap (Wait(r) \cup Hand(r)) = {}
       /\ Wait(r) \cap Hand(r) = {}
  BY <1>4, DriverFacts DEF OwnInv, Placed
<1>12. Moves(r, r, {}, {}, old, new, {})
  <2>1. NoRepeat(<<>>) /\ ToSet(<<>>) = {} /\ Gives' = (Gives \ {}) \cup {}
    BY <1>8, ToSetEmpty DEF NoRepeat, Gives
  <2>2. fut' = Settle({})
    BY <1>2, <1>8, SettleNone
  <2>3. \A q \in Slots \ {r} : res'[q].inbox = res[q].inbox /\ res'[q].drained = res[q].drained
    BY <1>9
  <2>4. /\ NoRepeat(res'[r].inbox) /\ NoRepeat(res'[r].drained)
        /\ ToSet(res'[r].inbox) \cap ToSet(res'[r].drained) = {}
    BY <1>3, <1>6, <1>9, <2>1
  <2>5. /\ ToSet(queue') \cap (TaskSlots({}) \cup Wait(r)') = {}
        /\ new \cap Hand(r)' = {} /\ new \subseteq old /\ Hand(r)' \subseteq old \cup Hand(r)
        /\ \A s \in old \cup Hand(r) : Pending(s) => s \in new \cup Hand(r)'
    BY <1>4, <1>10, <1>11
  <2> QED BY <1>4, <1>10, <2>1, <2>2, <2>3, <2>4, <2>5 DEF Moves
<1> HIDE DEF old, new
<1>13. /\ NoneTwice' /\ \A s \in Slots : Placed(s)'
       /\ \A s \in Slots : Waiting(s)' => Waiting(s)
  BY <1>12, Transfer
<1>14. Shaped(r)' /\ Settled(r)'
  BY <1>2, <1>3, <1>6, <1>7, <1>8, <1>9, DriverFacts
     DEF Shaped, Settled, Live, Pending
<1>15. fut' = Settle({}) /\ Live(r)'
  BY <1>2, <1>6, <1>8, <1>9, SettleNone DEF Live
<1> QED BY <1>2, <1>3, <1>6, <1>7, <1>8, <1>9, <1>13, <1>14, <1>15, StayOwned

\* The follow-up is answered.
LEMMA MatchEndsOwned ==
    ASSUME OwnInv, CapInv', UNCHANGED tag, NEW r \in Slots, MatchEnds(r)
    PROVE  OwnInv'
<1> DEFINE x == res[r]
           y == [x EXCEPT !.pc = "grace", !.active = x.local]
           S == {x.active} \ {NoSlot}
<1>1. x.pc = "match" /\ ~x.cancel /\ Live(r) /\ x \in Resident /\ ScalarsTyped
  BY DriverFacts DEF MatchEnds, At, Live
<1>2. /\ r \in registry /\ x.claim = "none" /\ x.state # "DEAD" /\ x.drained = <<>>
      /\ Wait(r) = ToSet(x.inbox) /\ x.next = NoSlot /\ x.inflight = {}
      /\ NoRepeat(x.inbox) /\ x.local \in Slots /\ ~Pending(x.local)
  BY <1>1, AtWork, DriverFacts DEF Settled
<1>3. y \in Resident
  BY <1>1, PcNames DEF Resident
<1>4. /\ y.pc = "grace" /\ y.local = x.local /\ y.inbox = x.inbox
      /\ y.active = x.local /\ y.next = x.next /\ y.inflight = x.inflight
      /\ y.drained = x.drained
  BY <1>1 DEF Resident
<1>5. /\ y.state = x.state /\ y.ref = x.ref /\ y.proc = x.proc
      /\ y.claim = x.claim /\ y.cancel = x.cancel
  BY <1>1 DEF Resident
<1>6. /\ Update(r, y) /\ NoRegistryChange /\ Quiet /\ fut' = Settle({x.active})
  BY DEF MatchEnds
<1> HIDE DEF y
<1>7. fut' = Settle(S)
  BY <1>6, DriverFacts DEF Settle
<1>8. HandOf(y) = {x.local} /\ Hand(r) = S \cup {x.local}
  BY <1>2, <1>4, DriverFacts DEF HandOf, Hand
<1>9. Stays(r, y, S)
  BY <1>1, <1>2, <1>3, <1>4, <1>5, <1>7, <1>8, DriverFacts DEF Stays
<1>10. res'[r] = y /\ fut'[x.local] # "pending"
  BY <1>2, <1>6, DriverFacts DEF Update, Settle, Pending
<1>11. Shaped(r)' /\ Settled(r)'
  BY <1>1, <1>2, <1>4, <1>5, <1>10, DriverFacts DEF Shaped, Settled, Live, Pending
<1> HIDE DEF S
<1> QED BY <1>2, <1>6, <1>9, <1>11, StayMove

\* A slot that waits at an idle resident, or at one whose window closes, is taken.
LEMMA WarmOwned ==
    ASSUME OwnInv, CapInv', UNCHANGED tag, Quiet, UNCHANGED fut, NEW r \in registry,
           res[r].pc \in {"grace", "idle"}, NEW x \in Resident, res[r].inbox # <<>>,
           x.active = NoSlot, x.inflight = {}, x.drained = <<>>, ~x.cancel,
           x.claim = res[r].claim, x.proc = res[r].proc, x.ref = res[r].ref,
           ServeNext(r, x, Head(res[r].inbox), Tail(res[r].inbox))
    PROVE  OwnInv'
<1> DEFINE o == res[r]
           s == Head(o.inbox)
           q == Tail(o.inbox)
<1>1. /\ r \in Slots /\ o \in Resident /\ ScalarsTyped /\ Live(r) /\ o.claim = "none"
      /\ o.next = NoSlot /\ o.inflight = {} /\ o.drained = <<>> /\ o.local \in Slots
      /\ o.inbox \in Seq(Slots) /\ NoRepeat(o.inbox) /\ ~Pending(o.local)
      /\ o.active \in {o.local, NoSlot} /\ (o.proc = "up" => o.ref # "none")
  <2>1. r \in Slots
    BY DEF OwnInv, CapInv, FieldsTyped
  <2>2. o.drained = <<>> /\ o.local \in Slots
    BY <2>1, DriverFacts DEF Shaped, Working, Resident
  <2>3. ~Pending(o.local)
    BY <2>1, <2>2, DriverFacts DEF Settled
  <2> QED BY <2>1, <2>2, <2>3, DriverFacts DEF Live, Linked, Shaped, Resident
<1>2. Wait(r) = ToSet(o.inbox) /\ Hand(r) = {o.local} \cup ({o.active} \ {NoSlot})
  BY <1>1, ToSetEmpty, DriverFacts DEF Wait, WaitOf, Hand, HandOf
<1>3. /\ s \in Slots /\ s \in ToSet(o.inbox) /\ q \in Seq(Slots) /\ NoRepeat(q)
      /\ ToSet(q) = ToSet(o.inbox) \ {s}
  BY <1>1, HeadTailLemma
<1>4. ServeNext(r, x, s, q)
  OBVIOUS
<1> HIDE DEF s, q
<1>5. MayServe(r, x, s, q)
  BY <1>1, <1>2, <1>3 DEF MayServe
<1> QED BY <1>1, <1>4, <1>5, ServeNextOwned

\* The grace window closes: the resident is evicted or offered.
LEMMA GraceEndsOwned ==
    ASSUME OwnInv, CapInv', UNCHANGED tag, NEW r \in Slots, GraceEnds(r)
    PROVE  OwnInv'
<1> DEFINE o == res[r]
           x == [o EXCEPT !.active = NoSlot]
           y == [x EXCEPT !.state = "IDLE_EVICTABLE", !.pc = "idle"]
<1>1. o.pc = "grace" /\ ~o.cancel /\ Live(r) /\ o \in Resident /\ ScalarsTyped
  BY DriverFacts DEF GraceEnds, At, Live
<1>2. /\ r \in registry /\ o.claim = "none" /\ o.state # "DEAD" /\ o.drained = <<>>
      /\ Wait(r) = ToSet(o.inbox) /\ o.next = NoSlot /\ o.inflight = {}
      /\ NoRepeat(o.inbox) /\ o.local \in Slots /\ o.active = o.local
      /\ ~Pending(o.local)
  BY <1>1, AtWork, DriverFacts DEF Shaped, Settled
<1>3. x \in Resident /\ x.inbox = o.inbox
  BY <1>1 DEF Resident
<1>4. Quiet /\ UNCHANGED fut
  BY DEF GraceEnds
<1>5. \/ Leave(r, Evicted(x), EvictTasks(r))
      \/ x.inbox # <<>> /\ ServeNext(r, y, Head(x.inbox), Tail(x.inbox))
      \/ /\ InlineWaitFor => x.inbox = <<>>
         /\ Update(r, y) /\ NoRegistryChange
  BY <1>2 DEF GraceEnds
<1>7. /\ x.local = o.local /\ x.active = NoSlot /\ x.next = o.next
      /\ x.inflight = o.inflight /\ x.drained = o.drained
  BY <1>1 DEF Resident
<1>8. x.ref = o.ref /\ x.proc = o.proc /\ x.claim = o.claim /\ x.cancel = o.cancel
  BY <1>1 DEF Resident
<1> HIDE DEF x
<1>6. CASE Leave(r, Evicted(x), EvictTasks(r))
  BY <1>1, <1>2, <1>3, <1>4, <1>6, <1>7, <1>8, SelfEvictOwned
<1>9. y \in Resident
  BY <1>3, PcNames DEF Resident
<1>10. /\ y.pc = "idle" /\ y.local = o.local /\ y.inbox = o.inbox
       /\ y.active = NoSlot /\ y.next = o.next /\ y.inflight = {} /\ y.drained = <<>>
  BY <1>2, <1>3, <1>7 DEF Resident
<1>11. /\ y.state = "IDLE_EVICTABLE" /\ y.ref = o.ref /\ y.proc = o.proc
       /\ y.claim = o.claim /\ y.cancel = o.cancel
  BY <1>3, <1>8 DEF Resident
<1> HIDE DEF y
<1>12. CASE x.inbox # <<>> /\ ServeNext(r, y, Head(x.inbox), Tail(x.inbox))
  BY <1>1, <1>2, <1>3, <1>4, <1>9, <1>10, <1>11, <1>12, WarmOwned
<1>13. CASE (InlineWaitFor => x.inbox = <<>>) /\ Update(r, y) /\ NoRegistryChange
  <2>1. /\ HandOf(y) = {o.local} /\ Hand(r) = {o.local} /\ y.inbox = o.inbox
        /\ Wait(r) \cap Hand(r) = {}
    BY <1>2, <1>3, <1>10, DriverFacts DEF HandOf, Hand
  <2>2. fut' = Settle({})
    BY <1>1, <1>4, SettleNone
  <2>3. Stays(r, y, {})
    BY <1>1, <1>2, <1>9, <1>10, <1>11, <2>1, <2>2 DEF Stays
  <2>4. res'[r] = y /\ (InlineWaitFor => y.inbox = <<>>)
    BY <1>3, <1>13, <2>1, DriverFacts DEF Update
  <2>5. Shaped(r)' /\ Settled(r)'
    BY <1>1, <1>2, <1>4, <1>10, <1>11, <2>1, <2>4, DriverFacts
       DEF Shaped, Settled, Live, Pending
  <2> QED BY <1>2, <1>4, <1>13, <2>3, <2>5, StayMove
<1> QED BY <1>5, <1>6, <1>12, <1>13

\* What is known where the driver waits for work.
LEMMA IdleFacts ==
    ASSUME OwnInv, NEW r \in Slots, res[r].pc = "idle"
    PROVE  /\ Live(r) /\ res[r].next = NoSlot /\ res[r].inflight = {}
           /\ res[r].drained = <<>> /\ res[r].active = NoSlot /\ res[r].local \in Slots
           /\ ~Pending(res[r].local) /\ Hand(r) = {res[r].local}
           /\ Wait(r) = ToSet(res[r].inbox)
           /\ res[r].inbox # <<>> \/ res[r].state = "IDLE_EVICTABLE" => r \in registry
           /\ res[r].inbox = <<>> => res[r].state \in {"DEAD", "IDLE_EVICTABLE"}
<1>1. /\ Live(r) /\ res[r].next = NoSlot /\ res[r].inflight = {}
      /\ res[r].drained = <<>> /\ res[r].active = NoSlot /\ res[r].local \in Slots
  BY DriverFacts DEF Shaped, Live, Working, Resident
<1>2. /\ ~Pending(res[r].local) /\ Hand(r) = {res[r].local}
      /\ Wait(r) = ToSet(res[r].inbox)
  BY <1>1, DriverFacts, ToSetEmpty DEF Settled, Hand, HandOf, Wait, WaitOf
<1>3. /\ res[r].inbox # <<>> \/ res[r].state = "IDLE_EVICTABLE" => r \in registry
      /\ res[r].inbox = <<>> => res[r].state \in {"DEAD", "IDLE_EVICTABLE"}
  BY <1>1, DriverFacts DEF Shaped, Linked
<1> QED BY <1>1, <1>2, <1>3

\* wait_for's inner task takes a slot that waits at an idle resident.
LEMMA FetchOwned ==
    ASSUME OwnInv, CapInv', ~InlineWaitFor, UNCHANGED tag, NEW r \in Slots, IdleTakes(r)
    PROVE  OwnInv'
<1> DEFINE x == res[r]
           s == Head(x.inbox)
           y == [x EXCEPT !.pc = "fetched", !.next = s, !.inbox = Tail(@)]
<1>1. /\ x.pc = "idle" /\ ~x.cancel /\ x \in Resident /\ ScalarsTyped /\ x.inbox # <<>>
      /\ x.inbox \in Seq(Slots) /\ NoRepeat(x.inbox) /\ Wait(r) \cap Hand(r) = {}
  BY DriverFacts DEF IdleTakes, At, Resident
<1>2. /\ Live(r) /\ x.inflight = {} /\ x.drained = <<>> /\ x.active = NoSlot
      /\ x.local \in Slots /\ ~Pending(x.local) /\ Hand(r) = {x.local}
      /\ Wait(r) = ToSet(x.inbox) /\ r \in registry
  BY <1>1, IdleFacts
<1>3. Quiet /\ UNCHANGED fut /\ Update(r, y) /\ NoRegistryChange
  BY DEF IdleTakes
<1>4. /\ s \in Slots /\ s \in ToSet(x.inbox) /\ Tail(x.inbox) \in Seq(Slots)
      /\ NoRepeat(Tail(x.inbox)) /\ ToSet(Tail(x.inbox)) = ToSet(x.inbox) \ {s} /\ s # NoSlot
  BY <1>1, HeadTailLemma, DriverFacts
<1> HIDE DEF s
<1>5. y \in Resident
  BY <1>1, <1>4, PcNames DEF Resident
<1>6. /\ y.pc = "fetched" /\ y.next = s /\ y.inbox = Tail(x.inbox) /\ y.local = x.local
      /\ y.active = x.active /\ y.inflight = x.inflight /\ y.drained = x.drained
  BY <1>1 DEF Resident
<1>7. /\ y.state = x.state /\ y.ref = x.ref /\ y.proc = x.proc
      /\ y.claim = x.claim /\ y.cancel = x.cancel
  BY <1>1 DEF Resident
<1> HIDE DEF y
<1>8. x.claim = "none" /\ x.state # "DEAD"
  BY <1>1, <1>2, DriverFacts DEF Linked
<1>9. HandOf(y) = {x.local, s}
  BY <1>2, <1>4, <1>6, DriverFacts DEF HandOf
<1>10. fut' = Settle({})
  BY <1>1, <1>3, SettleNone
<1>11. Stays(r, y, {})
  BY <1>1, <1>2, <1>4, <1>5, <1>6, <1>7, <1>8, <1>9, <1>10 DEF Stays
<1>12. res'[r] = y
  BY <1>3, DriverFacts DEF Update
<1>13. Shaped(r)' /\ Settled(r)'
  BY <1>1, <1>2, <1>3, <1>4, <1>6, <1>7, <1>8, <1>12, DriverFacts
     DEF Shaped, Settled, Live, Pending
<1> QED BY <1>2, <1>3, <1>11, <1>13, StayMove

\* The driver gets the slot its inner task has taken; a cancellation is lost.
LEMMA ResumeOwned ==
    ASSUME OwnInv, CapInv', UNCHANGED tag, NEW r \in Slots, Resume(r)
    PROVE  OwnInv'
<1> DEFINE o == res[r]
           x == [o EXCEPT !.cancel = FALSE]
<1>1. /\ o.pc = "fetched" /\ o \in Resident /\ o.next \in Slots /\ o.next # NoSlot
      /\ o.inbox \in Seq(Slots) /\ NoRepeat(o.inbox) /\ Wait(r) \cap Hand(r) = {}
  BY DriverFacts DEF Resume, CapInv, Sound, Resident
<1>2. /\ Live(r) /\ ~InlineWaitFor /\ o.inflight = {} /\ o.drained = <<>>
      /\ o.active = NoSlot /\ (o.proc = "up" => o.ref # "none")
      /\ (o.claim # "none" => o.proc # "up")
  BY <1>1, DriverFacts DEF Shaped, Live
<1>3. r \notin registry => o.state = "DEAD"
  BY <1>2, DriverFacts DEF Linked
<1>4. /\ x \in Resident /\ x.inflight = o.inflight /\ x.drained = o.drained
      /\ x.active = o.active /\ x.state = o.state /\ x.ref = o.ref /\ x.proc = o.proc
      /\ x.claim = o.claim /\ ~x.cancel
  BY <1>1 DEF Resident
<1>5. Quiet /\ UNCHANGED fut /\ ServeNext(r, x, o.next, o.inbox)
  BY DEF Resume
<1> HIDE DEF x
<1>6. Wait(r) = ToSet(o.inbox) /\ o.next \in Hand(r)
  BY <1>1, <1>2, ToSetEmpty DEF Wait, WaitOf, Hand, HandOf
<1>7. MayServe(r, x, o.next, o.inbox)
  BY <1>1, <1>2, <1>3, <1>4, <1>5, <1>6 DEF MayServe
<1> QED BY <1>5, <1>7, ServeNextOwned

\* A slot reaches the idle driver, or the idle window ends.
LEMMA IdleOwned ==
    ASSUME OwnInv, CapInv', UNCHANGED tag, NEW r \in Slots,
           (InlineWaitFor /\ IdleTakes(r)) \/ IdleExpires(r)
    PROVE  OwnInv'
<1> DEFINE x == res[r]
<1>1. x.pc = "idle" /\ ~x.cancel /\ x \in Resident /\ ScalarsTyped
  BY DriverFacts DEF IdleTakes, IdleExpires, At
<1>2. /\ Live(r) /\ x.next = NoSlot /\ x.inflight = {}
      /\ x.drained = <<>> /\ x.active = NoSlot /\ x.local \in Slots
      /\ ~Pending(x.local) /\ Hand(r) = {x.local} /\ Wait(r) = ToSet(x.inbox)
      /\ x.inbox # <<>> \/ x.state = "IDLE_EVICTABLE" => r \in registry
      /\ x.inbox = <<>> => x.state \in {"DEAD", "IDLE_EVICTABLE"}
  BY <1>1, IdleFacts
<1>3. Quiet /\ UNCHANGED fut
  BY DEF IdleTakes, IdleExpires
<1>4. \/ x.inbox # <<>> /\ ServeNext(r, x, Head(x.inbox), Tail(x.inbox))
      \/ x.state = "IDLE_EVICTABLE" /\ Leave(r, Evicted(x), EvictTasks(r))
      \/ x.state = "DEAD" /\ x.inbox = <<>> /\ ServeNext(r, x, x.local, x.inbox)
  BY <1>1, <1>2 DEF IdleTakes, IdleExpires
<1>5. CASE x.inbox # <<>> /\ ServeNext(r, x, Head(x.inbox), Tail(x.inbox))
  BY <1>1, <1>2, <1>3, <1>5, WarmOwned
<1>6. CASE x.state = "IDLE_EVICTABLE" /\ Leave(r, Evicted(x), EvictTasks(r))
  BY <1>1, <1>2, <1>3, <1>6, SelfEvictOwned
<1>7. CASE x.state = "DEAD" /\ x.inbox = <<>> /\ ServeNext(r, x, x.local, x.inbox)
  <2>1. (x.proc = "up" => x.ref # "none") /\ (x.claim # "none" => x.proc # "up")
    BY DriverFacts DEF Shaped
  <2>2. x.inbox \in Seq(Slots) /\ NoRepeat(x.inbox) /\ ToSet(x.inbox) = {}
    BY <1>1, <1>7, ToSetEmpty, DriverFacts DEF Resident
  <2>3. MayServe(r, x, x.local, x.inbox)
    BY <1>1, <1>2, <1>3, <1>7, <2>1, <2>2 DEF MayServe
  <2> QED BY <1>3, <1>7, <2>3, ServeNextOwned
<1> QED BY <1>4, <1>5, <1>6, <1>7

-----------------------------------------------------------------------------
(* The way out, and the tasks that see to it.                               *)

\* Shutdown's cancellation reaches a driver.
LEMMA CancelOwned ==
    ASSUME OwnInv, CapInv', UNCHANGED tag, NEW r \in Slots, CancelDelivered(r)
    PROVE  OwnInv'
<1> DEFINE o == res[r]
           x == [o EXCEPT !.cancel = FALSE]
<1>1. /\ o.cancel /\ o.pc # "fetched" /\ Live(r) /\ o \in Resident /\ ScalarsTyped
      /\ r \in registry /\ r \in awaited /\ Stopped /\ shutdown # "stopping"
      /\ o.claim = "none" /\ EvictTask(r) \notin bg /\ ReapTask(r) \notin bg
  BY DriverFacts DEF CancelDelivered, Shaped, Linked, Live, ScalarsTyped, Stopped
<1>2. /\ o.drained = <<>> /\ o.next = NoSlot /\ Wait(r) = ToSet(o.inbox)
      /\ NoRepeat(o.inbox) /\ (o.proc = "up" => o.ref # "none")
      /\ Wait(r) \cap Hand(r) = {} /\ TaskSlots({}) = {}
  BY <1>1, DriverFacts, ToSetEmpty DEF Shaped, Live, Wait, WaitOf, TaskSlots
<1>3. x \in Resident /\ x.cancel = FALSE
  BY <1>1 DEF Resident
<1>4. /\ x.pc = o.pc /\ x.local = o.local /\ x.inbox = o.inbox
      /\ x.active = o.active /\ x.next = o.next /\ x.inflight = o.inflight
      /\ x.drained = o.drained
  BY <1>1 DEF Resident
<1>5. x.state = o.state /\ x.ref = o.ref /\ x.proc = o.proc /\ x.claim = o.claim
  BY <1>1 DEF Resident
<1> DEFINE y == [x EXCEPT !.pc = "done"]
           pr == IF x.pc = "unhealthy" THEN "termed" ELSE x.proc
           w == [x EXCEPT !.inflight = {}, !.proc = pr]
<1>6. /\ Quiet
      /\ IF x.pc = "start"
         THEN /\ Update(r, y) /\ bg' = bg \cup {ReapTask(r)} /\ UNCHANGED <<fut, registry>>
         ELSE /\ fut' = IF Width(r) > 1 THEN Settle(x.inflight) ELSE fut
              /\ Leave(r, w, {})
  BY DEF CancelDelivered, ReapTask
<1> HIDE DEF x
<1>7. CASE o.pc = "start"
  <2>1. y \in Resident
    BY <1>3, PcNames DEF Resident
  <2>2. /\ y.pc = "done" /\ y.local = o.local /\ y.inbox = o.inbox
        /\ y.active = o.active /\ y.next = NoSlot /\ y.inflight = o.inflight
        /\ y.drained = <<>>
    BY <1>2, <1>3, <1>4 DEF Resident
  <2>3. /\ y.state = o.state /\ y.ref = o.ref /\ y.proc = o.proc /\ y.claim = o.claim
        /\ ~y.cancel
    BY <1>3, <1>5 DEF Resident
  <2>4. /\ Update(r, y) /\ bg' = bg \cup {ReapTask(r)} /\ UNCHANGED <<fut, registry>>
    BY <1>4, <1>6, <1>7
  <2> HIDE DEF y
  <2>5. /\ o.inflight = {} /\ Hand(r) = {} /\ o.local = NoSlot /\ o.proc # "up"
        /\ o.state = "RESERVED_LOADING"
    <3>1. o.inflight = {} /\ Hand(r) = {} /\ o.proc # "up" /\ o.state = "RESERVED_LOADING"
      BY <1>7, DriverFacts DEF Shaped, CapInv, Sound
    <3> QED BY <3>1 DEF Hand, HandOf
  <2>6. res'[r] = y /\ \A q \in Slots \ {r} : res'[q] = res[q]
    BY <2>4, DriverFacts DEF Update
  <2>7. Wait(r)' = Wait(r) /\ Hand(r)' = {}
    BY <1>2, <2>2, <2>5, <2>6, ToSetEmpty DEF Wait, WaitOf, Hand, HandOf
  <2>8. /\ \A q \in Slots : ReapTask(r) # EvictTask(q) /\ (q # r => ReapTask(q) # ReapTask(r))
        /\ ReapTask(r).do = "reap"
    BY DEF ReapTask, EvictTask, ResidentTask
  <2>9. fut' = Settle({}) /\ Gives' = Gives \cup {}
    BY <1>1, <2>4, <2>8, SettleNone DEF Gives
  <2>10. Within(r, {}, {})
    <3>1. NoRepeat(<<>>) /\ ToSet(<<>>) = {}
      BY ToSetEmpty DEF NoRepeat
    <3> QED BY <1>2, <1>6, <2>2, <2>5, <2>6, <2>7, <2>9, <3>1 DEF Within, Quiet
  <2>11. /\ NoneTwice' /\ \A u \in Slots : Placed(u)'
         /\ \A u \in Slots : Waiting(u)' => Waiting(u)
    BY <2>10, InnerMove
  <2>12. Shaped(r)' /\ Settled(r)'
    BY <1>1, <2>2, <2>3, <2>5, <2>6, DriverFacts DEF Shaped, Settled, Live
  <2>13. Linked(r)' /\ Ends(r)'
    <3>1. UNCHANGED <<shutdown, awaited, draining>> /\ Stopped'
      BY <1>1, <1>6 DEF Quiet, ending, Stopped
    <3> QED BY <1>1, <2>2, <2>3, <2>4, <2>5, <2>6, <2>8, <3>1, DriverFacts
            DEF Linked, Ends, Live
  <2> QED BY <1>1, <1>6, <1>7, <2>2, <2>4, <2>6, <2>8, <2>9, <2>11, <2>12, <2>13, ResidentStep
          DEF Quiet
<1>8. CASE o.pc # "start"
  <2> DEFINE S == IF Width(r) > 1 THEN o.inflight ELSE {}
  <2>1. fut' = Settle(S) /\ Leave(r, w, {}) /\ Quiet
    BY <1>1, <1>4, <1>6, <1>8, SettleNone
  <2>2. pr \in {"none", "up", "dying", "termed", "dead"} /\ (pr = "up" => o.proc = "up")
    BY <1>3, <1>5 DEF Resident
  <2> HIDE DEF pr
  <2>3. /\ w \in Resident /\ w.local = o.local /\ w.inbox = o.inbox
        /\ w.active = o.active /\ w.next = NoSlot /\ w.inflight = {}
        /\ w.drained = <<>>
    BY <1>2, <1>3, <1>4, <2>2 DEF Resident
  <2>4. /\ w.ref = o.ref /\ w.proc = pr /\ w.claim = o.claim /\ ~w.cancel
    BY <1>3, <1>5 DEF Resident
  <2> HIDE DEF w
  <2>5. HandOf(w) \subseteq Hand(r) /\ S \subseteq Hand(r) /\ Hand(r) \subseteq S \cup HandOf(w)
    <3>1. Width(r) \in Nat \ {0}
      BY Widths DEF OwnInv, CapInv, FieldsTyped
    <3>2. NoSlot \notin o.inflight
      BY <1>1, DriverFacts DEF Resident
    <3>3. Width(r) = 1 => o.inflight \subseteq {o.local}
      BY DriverFacts DEF Shaped
    <3> QED BY <1>2, <2>3, <3>1, <3>2, <3>3 DEF Hand, HandOf
  <2> HIDE DEF S
  <2>6. MayLeave(r, w, {}, {}, S)
    BY <1>1, <1>2, <1>8, <2>1, <2>2, <2>3, <2>4, <2>5 DEF MayLeave
  <2> QED BY <2>1, <2>6, LeaveOwned
<1> QED BY <1>7, <1>8

\* The end of the finally: what waited goes back to the queue, or is failed.
LEMMA FinallyOwned ==
    ASSUME OwnInv, CapInv', UNCHANGED tag, NEW r \in Slots, FinallyEnds(r)
    PROVE  OwnInv'
<1> DEFINE x == res[r]
           pr == IF x.proc = "dying" THEN "dead" ELSE x.proc
           y == [x EXCEPT !.pc = "done", !.drained = <<>>, !.local = NoSlot, !.proc = pr]
           S == Unserved(x) \cup (IF Closed THEN ToSet(x.drained) ELSE {})
<1>1. /\ x.pc = "finally" /\ x \in Resident /\ ScalarsTyped /\ ~Live(r)
      /\ x.inbox = <<>> /\ x.inflight = {} /\ x.next = NoSlot /\ ~x.cancel
      /\ x.proc # "up" /\ x.state # "IDLE_EVICTABLE" /\ r \notin registry
      /\ x.drained \in Seq(Slots) /\ NoRepeat(x.drained)
  BY DriverFacts DEF FinallyEnds, Shaped, Linked, Live, Resident
<1>2. /\ queue' = IF Closed THEN queue ELSE Reverse(x.drained) \o queue
      /\ fut' = Settle(S) /\ Update(r, y) /\ bg' = bg \cup {ReapTask(r)}
      /\ UNCHANGED <<arrived, defers, registry, ending>>
  BY DEF FinallyEnds, ReapTask
<1>3. pr \in {"none", "up", "dying", "termed", "dead"} /\ pr # "up" /\ <<>> \in Seq(Slots)
  BY <1>1, EmptySeq DEF Resident
<1> HIDE DEF pr
<1>4. y \in Resident
  <2> DEFINE z == [x EXCEPT !.pc = "done", !.drained = <<>>]
  <2>1. z \in Resident
    BY <1>1, <1>3, PcNames DEF Resident
  <2>2. y = [z EXCEPT !.local = NoSlot, !.proc = pr]
    BY <1>1 DEF Resident
  <2> HIDE DEF y, z
  <2> QED BY <1>3, <2>1, <2>2 DEF Resident
<1>5. /\ y.pc = "done" /\ y.local = NoSlot /\ y.inbox = <<>> /\ y.drained = <<>>
      /\ y.active = x.active /\ y.next = NoSlot /\ y.inflight = {}
  BY <1>1 DEF Resident
<1>6. y.state = x.state /\ y.proc # "up" /\ ~y.cancel /\ y.claim = x.claim
  BY <1>1, <1>3 DEF Resident
<1> HIDE DEF y
<1>7. res'[r] = y /\ \A q \in Slots \ {r} : res'[q] = res[q]
  BY <1>2, DriverFacts DEF Update
<1>8. /\ Wait(r) = ToSet(x.drained) /\ Wait(r)' = {}
      /\ Hand(r) = {x.active, x.local} \ {NoSlot} /\ Hand(r)' = {x.active} \ {NoSlot}
      /\ TaskSlots({}) = {} /\ Unserved(x) = {x.local} \ {x.active, NoSlot}
      /\ \A q \in Slots \ {r} : Hand(q)' = Hand(q)
  <2>1. Wait(r) = ToSet(x.drained) /\ Wait(r)' = {} /\ TaskSlots({}) = {}
    BY <1>1, <1>5, <1>7, ToSetEmpty DEF Wait, WaitOf, TaskSlots
  <2>2. Hand(r) = {x.active, x.local} \ {NoSlot} /\ Hand(r)' = {x.active} \ {NoSlot}
    BY <1>1, <1>5, <1>7 DEF Hand, HandOf
  <2> QED BY <1>1, <1>7, <2>1, <2>2 DEF Unserved, Hand
<1>9. /\ ToSet(queue) \cap (Wait(r) \cup Hand(r)) = {} /\ Wait(r) \cap Hand(r) = {}
      /\ queue \in Seq(Slots) /\ NoRepeat(queue)
  <2>1. queue \in Seq(Slots) /\ ToSet(queue) \subseteq Slots
    BY ToSetSubset DEF OwnInv, CapInv, FieldsTyped
  <2> QED BY <2>1, DriverFacts DEF OwnInv, Placed, NoneTwice
<1>10. /\ NoRepeat(queue')
       /\ ToSet(queue') = ToSet(queue) \cup (IF Closed THEN {} ELSE ToSet(x.drained))
  <2>1. CASE Closed
    BY <1>2, <1>9, <2>1
  <2>2. CASE ~Closed
    <3> DEFINE b == Reverse(x.drained)
    <3>1. b \in Seq(Slots) /\ NoRepeat(b) /\ ToSet(b) = ToSet(x.drained)
      BY <1>1, ReverseLemma
    <3>2. queue' = b \o queue
      BY <1>2, <2>2
    <3> HIDE DEF b
    <3> QED BY <1>8, <1>9, <2>2, <3>1, <3>2, ConcatLemma
  <2> QED BY <2>1, <2>2
<1> DEFINE old == ToSet(queue) \cup TaskSlots({}) \cup Wait(r)
           new == ToSet(queue') \cup TaskSlots({}) \cup Wait(r)'
<1>11. /\ \A q \in Slots : ReapTask(r) # EvictTask(q) /\ (q # r => ReapTask(q) # ReapTask(r))
       /\ ReapTask(r).do = "reap"
  BY DEF ReapTask, EvictTask, ResidentTask
<1>12. Moves(r, r, {}, {}, old, new, S)
  <2>1. NoRepeat(<<>>) /\ ToSet(<<>>) = {} /\ Gives' = (Gives \ {}) \cup {}
    BY <1>2, <1>11, ToSetEmpty DEF NoRepeat, Gives
  <2>2. \A q \in Slots \ {r} : res'[q].inbox = res[q].inbox /\ res'[q].drained = res[q].drained
    BY <1>7
  <2>3. /\ NoRepeat(res'[r].inbox) /\ NoRepeat(res'[r].drained)
        /\ ToSet(res'[r].inbox) \cap ToSet(res'[r].drained) = {}
    BY <1>5, <1>7, <2>1
  <2>4. /\ new \cap Hand(r)' = {} /\ new \subseteq old /\ Hand(r)' \subseteq old \cup Hand(r)
        /\ S \subseteq old \cup Hand(r) /\ new \cap S = {}
        /\ \A s \in old \cup Hand(r) : Pending(s) => s \in S \cup new \cup Hand(r)'
    BY <1>8, <1>9, <1>10
  <2> QED BY <1>2, <1>8, <1>10, <2>1, <2>2, <2>3, <2>4 DEF Moves
<1> HIDE DEF old, new, S
<1>13. /\ NoneTwice' /\ \A s \in Slots : Placed(s)'
       /\ \A s \in Slots : Waiting(s)' => Waiting(s)
  BY <1>12, Transfer
<1>14. Shaped(r)' /\ Settled(r)'
  BY <1>1, <1>5, <1>6, <1>7 DEF Shaped, Settled, Live
<1>15. Linked(r)' /\ Ends(r)'
  BY <1>1, <1>2, <1>5, <1>6, <1>7, DriverFacts DEF Linked, Ends, Live
<1> QED BY <1>1, <1>2, <1>5, <1>7, <1>11, <1>13, <1>14, <1>15, ResidentStep

\* Where nothing that waits or is in hand moves, every slot stays in its place.
LEMMA SamePlaces ==
    ASSUME OwnInv, UNCHANGED <<queue, fut>>, Gives' = Gives,
           \A q \in Slots : /\ res'[q].inbox = res[q].inbox
                            /\ res'[q].drained = res[q].drained /\ Hand(q)' = Hand(q)
    PROVE  /\ NoneTwice' /\ \A s \in Slots : Placed(s)'
           /\ \A s \in Slots : Waiting(s)' <=> Waiting(s)
<1>1. \A q \in Slots : Wait(q)' = Wait(q)
  BY DEF Wait, WaitOf
<1>2. NoneTwice'
  BY DEF OwnInv, NoneTwice
<1>3. \A s \in Slots : (Waiting(s)' <=> Waiting(s)) /\ (Pending(s)' <=> Pending(s))
  BY <1>1 DEF Waiting, Pending, TaskSlots
<1>4. ASSUME NEW s \in Slots PROVE Placed(s)'
  <2>1. Placed(s)
    BY DEF OwnInv
  <2> QED BY <1>1, <1>3, <2>1 DEF Placed
<1> QED BY <1>2, <1>3, <1>4

\* A teardown task claims the resident and reaps, or finds that claimed or done.
LEMMA TeardownOwned ==
    ASSUME OwnInv, CapInv', UNCHANGED tag, NEW t \in bg,
           TeardownClaims(t) \/ TeardownEnds(t)
    PROVE  OwnInv'
<1> DEFINE r == t.of
           x == res[r]
<1>1. /\ r \in Slots /\ t = EvictTask(r) /\ x \in Resident /\ t.do = "evict"
      /\ res \in [Slots -> Resident] /\ ScalarsTyped
  <2>1. TaskTyped(t) /\ t.do = "evict"
    BY DEF OwnInv, CapInv, FieldsTyped, TeardownClaims, TeardownEnds
  <2>2. r \in Slots /\ t = EvictTask(r)
    BY <2>1 DEF TaskTyped, EvictTask
  <2> QED BY <2>1, <2>2, DriverFacts
<1>2. /\ r \notin registry /\ ~x.cancel /\ x.pc # "none"
      /\ (Live(r) => x.pc \in {"idle", "fetched"} /\ x.state = "DEAD")
      /\ (x.claim # "none" => x.proc # "up") /\ (x.proc = "up" => x.ref # "none")
  BY <1>1, DriverFacts DEF Linked, Shaped
<1>3. UNCHANGED <<arrived, fut, queue, defers, registry, ending>>
  BY DEF TeardownClaims, TeardownEnds
<1>4. \E y \in Resident :
        /\ res' = [res EXCEPT ![r] = y] /\ bg' \in {bg, bg \ {t}}
        /\ y.pc = x.pc /\ y.local = x.local /\ y.inbox = x.inbox
        /\ y.active = x.active /\ y.next = x.next /\ y.inflight = x.inflight
        /\ y.drained = x.drained /\ y.state = x.state
        /\ y.claim # "none" /\ y.proc # "up" /\ ~y.cancel
  <2>1. CASE TeardownClaims(t) /\ x.claim = "none"
    <3> DEFINE pr == IF x.ref = "none" THEN x.proc ELSE "dying"
               y == [x EXCEPT !.claim = "task", !.ref = "none", !.proc = pr]
    <3>1. res' = [res EXCEPT ![r] = y] /\ UNCHANGED bg
      BY <2>1 DEF TeardownClaims, Update
    <3>2. pr \in {"none", "up", "dying", "termed", "dead"} /\ pr # "up"
      BY <1>1, <1>2 DEF Resident
    <3>6. x \in Resident
      BY <1>1
    <3> HIDE DEF pr
    <3>3. y \in Resident
      <4> HIDE DEF x, r
      <4> QED BY <3>2, <3>6 DEF Resident
    <3>4. /\ y.pc = x.pc /\ y.local = x.local /\ y.inbox = x.inbox
          /\ y.active = x.active /\ y.next = x.next /\ y.inflight = x.inflight
          /\ y.drained = x.drained
      BY <3>6 DEF Resident
    <3>5. y.state = x.state /\ y.claim = "task" /\ y.proc = pr /\ ~y.cancel
      BY <1>2, <3>6 DEF Resident
    <3> HIDE DEF y
    <3> QED BY <3>1, <3>2, <3>3, <3>4, <3>5
  <2>2. CASE TeardownClaims(t) /\ x.claim # "none"
    <3>1. UNCHANGED res /\ bg' = bg \ {t}
      BY <2>2 DEF TeardownClaims
    <3>2. res' = [res EXCEPT ![r] = x]
      BY <1>1, <3>1
    <3> QED BY <1>1, <1>2, <2>2, <3>1, <3>2
  <2>3. CASE TeardownEnds(t)
    <3> DEFINE pr == IF x.proc = "dying" THEN "dead" ELSE x.proc
               y == [x EXCEPT !.proc = pr]
    <3>1. res' = [res EXCEPT ![r] = y] /\ bg' = bg \ {t} /\ x.claim = "task"
      BY <2>3 DEF TeardownEnds, Update
    <3>2. pr \in {"none", "up", "dying", "termed", "dead"} /\ pr # "up"
      BY <1>1, <1>2, <3>1 DEF Resident
    <3> HIDE DEF pr
    <3>3. y \in Resident
      BY <1>1, <3>2 DEF Resident
    <3>4. /\ y.pc = x.pc /\ y.local = x.local /\ y.inbox = x.inbox
          /\ y.active = x.active /\ y.next = x.next /\ y.inflight = x.inflight
          /\ y.drained = x.drained
      BY <1>1 DEF Resident
    <3>5. y.state = x.state /\ y.claim = "task" /\ y.proc = pr /\ ~y.cancel
      BY <1>1, <1>2, <3>1 DEF Resident
    <3> HIDE DEF y
    <3> QED BY <3>1, <3>2, <3>3, <3>4, <3>5
  <2> QED BY <2>1, <2>2, <2>3
<1>5. PICK y \in Resident :
        /\ res' = [res EXCEPT ![r] = y] /\ bg' \in {bg, bg \ {t}}
        /\ y.pc = x.pc /\ y.local = x.local /\ y.inbox = x.inbox
        /\ y.active = x.active /\ y.next = x.next /\ y.inflight = x.inflight
        /\ y.drained = x.drained /\ y.state = x.state
        /\ y.claim # "none" /\ y.proc # "up" /\ ~y.cancel
  BY <1>4
<1> HIDE DEF r
<1>6. res'[r] = y /\ \A q \in Slots \ {r} : res'[q] = res[q]
  BY <1>1, <1>5
<1>7. /\ \A q \in Slots : ReapTask(q) # t /\ (q # r => EvictTask(q) # t)
  BY <1>1 DEF ReapTask, EvictTask, ResidentTask
<1>8. /\ \A q \in Slots : /\ ReapTask(q) \in bg' <=> ReapTask(q) \in bg
                          /\ q # r => (EvictTask(q) \in bg' <=> EvictTask(q) \in bg)
      /\ EvictTask(r) \in bg' => EvictTask(r) \in bg
  BY <1>5, <1>7
<1>9. Gives' = Gives
  BY <1>1, <1>5 DEF Gives
<1>10. /\ NoneTwice' /\ \A s \in Slots : Placed(s)'
       /\ \A s \in Slots : Waiting(s)' => Waiting(s)
  <2>1. \A q \in Slots : /\ res'[q].inbox = res[q].inbox
                         /\ res'[q].drained = res[q].drained /\ Hand(q)' = Hand(q)
    BY <1>5, <1>6 DEF Hand, HandOf
  <2> QED BY <1>3, <1>9, <2>1, SamePlaces
<1>11. Shaped(r)' /\ Settled(r)'
  <2>1. Width(r)' = Width(r) /\ Hand(r)' = Hand(r)
    BY <1>5, <1>6 DEF Width, Hand, HandOf
  <2>2. x.local # NoSlot => x.local \in Slots
    BY <1>1 DEF Resident
  <2>3. Shaped(r) /\ Settled(r)
    BY <1>1, DriverFacts
  <2>4. Shaped(r)'
    BY <1>2, <1>5, <1>6, <2>1, <2>3 DEF Shaped, Live, Blank
  <2>5. Settled(r)'
    BY <1>3, <1>5, <1>6, <2>2, <2>3 DEF Settled, Pending
  <2> QED BY <2>4, <2>5
<1>12. Linked(r)' /\ Ends(r)'
  <2>1. Hand(r)' = Hand(r) /\ Linked(r) /\ Ends(r)
    BY <1>1, <1>5, <1>6, DriverFacts DEF Hand, HandOf
  <2> QED BY <1>1, <1>2, <1>3, <1>5, <1>6, <1>8, <2>1 DEF Linked, Ends, Live, Blank, ending
<1>13. fut' = Settle({})
  BY <1>1, <1>3, SettleNone
<1> QED BY <1>1, <1>2, <1>3, <1>5, <1>6, <1>8, <1>10, <1>11, <1>12, <1>13, ResidentStep

\* The reaper of a driver that ended answers what it served, hands its inbox back
\* and evicts the rest.
LEMMA ReapOwned ==
    ASSUME OwnInv, CapInv', UNCHANGED tag, NEW t \in bg, ReapDead(t)
    PROVE  OwnInv'
<1> DEFINE r == t.of
           x == res[r]
           y == [NoResident EXCEPT !.pc = "done", !.ref = x.ref, !.proc = x.proc,
                                   !.claim = x.claim]
           S == {x.active} \ {NoSlot}
<1>1. /\ r \in Slots /\ t = ReapTask(r) /\ x \in Resident /\ t.do = "reap"
      /\ res \in [Slots -> Resident] /\ ScalarsTyped
  <2>1. TaskTyped(t) /\ t.do = "reap"
    BY DEF OwnInv, CapInv, FieldsTyped, ReapDead
  <2>2. r \in Slots /\ t = ReapTask(r)
    BY <2>1 DEF TaskTyped, ReapTask
  <2> QED BY <2>1, <2>2, DriverFacts
<1>2. /\ x.pc = "done" /\ ~Live(r) /\ x.inflight = {} /\ x.next = NoSlot /\ x.proc # "up"
      /\ x.drained = <<>> /\ Wait(r) = ToSet(x.inbox)
      /\ (InlineWaitFor /\ x.local # NoSlot => ~Pending(x.local))
      /\ Hand(r) = {x.active, x.local} \ {NoSlot}
  <2>1. /\ x.pc = "done" /\ ~Live(r) /\ x.inflight = {} /\ x.next = NoSlot /\ x.proc # "up"
        /\ x.drained = <<>> /\ (InlineWaitFor /\ x.local # NoSlot => ~Pending(x.local))
    BY <1>1, DriverFacts DEF Linked, Shaped, Settled, Live
  <2> QED BY <2>1, ToSetEmpty DEF Wait, WaitOf, Hand, HandOf
<1>3. /\ fut' = Settle({x.active} \cup x.inflight) /\ bg' = (bg \ {t}) \cup EvictTasks(r)
      /\ Update(r, y) /\ registry' = registry \ {r}
      /\ UNCHANGED <<arrived, queue, defers, ending>>
  BY DEF ReapDead, Abandoned
<1>4. fut' = Settle(S)
  BY <1>1, <1>2, <1>3, DriverFacts DEF Settle
<1>5. /\ y.pc = "done" /\ y.local = NoSlot /\ y.inbox = <<>> /\ y.active = NoSlot
      /\ y.next = NoSlot /\ y.inflight = {} /\ y.drained = <<>>
  BY DEF NoResident
<1>6. y.state = "DEAD" /\ y.proc = x.proc /\ y.claim = x.claim /\ ~y.cancel
  BY DEF NoResident
<1> HIDE DEF y, r
<1>7. res'[r] = y /\ \A q \in Slots \ {r} : res'[q] = res[q]
  BY <1>1, <1>3 DEF Update
<1>8. Wait(r)' = {} /\ Hand(r)' = {}
  BY <1>5, <1>7, ToSetEmpty DEF Wait, WaitOf, Hand, HandOf
<1>9. /\ TaskSlots(Returned(r)) = ToSet(x.inbox) /\ EvictTask(r).do = "evict"
      /\ \A u \in Returned(r) : /\ u.do = "requeue" /\ NoRepeat(u.slots)
                                /\ \A v \in Returned(r) : u = v
      /\ Returned(r) \subseteq EvictTasks(r)
      /\ EvictTasks(r) \subseteq Returned(r) \cup {EvictTask(r)}
  BY <1>1, EvictionFacts
<1>10. Gives' = Gives \cup Returned(r)
  <2>1. \A u \in EvictTasks(r) : u.do \in {"defer", "requeue"} <=> u \in Returned(r)
    BY <1>9
  <2> QED BY <1>1, <1>3, <1>9, <2>1 DEF Gives
<1>11. Within(r, Returned(r), S)
  <2>1. NoRepeat(<<>>) /\ ToSet(<<>>) = {} /\ ToSet(x.inbox) \cap Hand(r) = {}
    BY <1>1, <1>2, ToSetEmpty, DriverFacts DEF NoRepeat
  <2> QED BY <1>2, <1>3, <1>4, <1>5, <1>7, <1>8, <1>9, <1>10, <2>1 DEF Within
<1> HIDE DEF S
<1>12. /\ NoneTwice' /\ \A s \in Slots : Placed(s)'
       /\ \A s \in Slots : Waiting(s)' => Waiting(s)
  BY <1>1, <1>11, InnerMove
<1>13. /\ \A q \in Slots \ {r} : /\ EvictTask(q) \in bg' <=> EvictTask(q) \in bg
                                 /\ ReapTask(q) \in bg' <=> ReapTask(q) \in bg
  <2>1. \A q \in Slots : /\ EvictTask(q) # t /\ EvictTask(q).do = "evict"
                         /\ ReapTask(q).do = "reap" /\ ReapTask(q) # EvictTask(r)
                         /\ q # r => ReapTask(q) # t /\ EvictTask(q) # EvictTask(r)
    BY <1>1 DEF ReapTask, EvictTask, ResidentTask
  <2> QED BY <1>3, <1>9, <2>1
<1>14. Shaped(r)' /\ Settled(r)'
  BY <1>2, <1>5, <1>6, <1>7, <1>8 DEF Shaped, Settled, Live
<1>15. Linked(r)' /\ Ends(r)'
  BY <1>2, <1>3, <1>5, <1>6, <1>7, <1>8 DEF Linked, Ends, Live, Blank, ending
<1> QED BY <1>1, <1>2, <1>3, <1>4, <1>5, <1>7, <1>12, <1>13, <1>14, <1>15, ResidentStep

-----------------------------------------------------------------------------
(* The queue and the tasks that give slots back to it.                      *)

\* The queue and the tasks R hand over to the queue and the tasks N, or settle S.
Regroups(R, N, S) ==
    /\ R \subseteq Gives /\ Gives' = (Gives \ R) \cup N
    /\ \A t \in N : NoRepeat(t.slots) /\ \A u \in N : t = u
    /\ NoRepeat(queue') /\ ToSet(queue') \cap TaskSlots(N) = {}
    /\ ToSet(queue') \cup TaskSlots(N) \subseteq ToSet(queue) \cup TaskSlots(R)
    /\ S \subseteq ToSet(queue) \cup TaskSlots(R)
    /\ S \cap (ToSet(queue') \cup TaskSlots(N)) = {}
    /\ ToSet(queue) \cup TaskSlots(R) \subseteq S \cup ToSet(queue') \cup TaskSlots(N)
    /\ fut' = Settle(S)

\* Slots in the queue or in a task wait nowhere else.
LEMMA WaitsOnce ==
    ASSUME OwnInv, NEW R \in SUBSET Gives, NEW s \in Slots,
           s \in ToSet(queue) \cup TaskSlots(R)
    PROVE  Pending(s) /\ \A r \in Slots : s \notin Wait(r) \cup Hand(r)
<1>1. Placed(s)
  BY DEF OwnInv
<1>2. s \in ToSet(queue) \/ \E t \in Gives : s \in ToSet(t.slots)
  BY DEF TaskSlots
<1> QED BY <1>1, <1>2 DEF Placed

\* Sequences of tasks hold slots.
LEMMA TaskSlotsTyped == ASSUME CapInv, NEW R \in SUBSET Gives PROVE TaskSlots(R) \subseteq Slots
<1>1. \A t \in Gives : t.slots \in Seq(Slots)
  BY DEF Gives, CapInv, FieldsTyped, TaskTyped
<1>2. \A t \in Gives : ToSet(t.slots) \subseteq Slots
  BY <1>1, ToSetSubset
<1> QED BY <1>2 DEF TaskSlots

\* Such a step keeps every slot in its one place.
LEMMA QueueMove ==
    ASSUME OwnInv, CapInv', UNCHANGED tag, NEW R, NEW N, NEW S, Regroups(R, N, S),
           \A q \in Slots : /\ res'[q].inbox = res[q].inbox
                            /\ res'[q].drained = res[q].drained /\ Hand(q)' = Hand(q)
    PROVE  /\ NoneTwice' /\ \A s \in Slots : Placed(s)'
           /\ \A s \in Slots : Waiting(s)' => Waiting(s)
<1>1. CASE Slots = {}
  <2>1. \A t \in Gives' : NoRepeat(t.slots)
    BY DEF OwnInv, NoneTwice, Regroups
  <2> QED BY <1>1, <2>1 DEF NoneTwice, Regroups
<1>2. ASSUME NEW r \in Slots
      PROVE  /\ NoneTwice' /\ \A s \in Slots : Placed(s)'
             /\ \A s \in Slots : Waiting(s)' => Waiting(s)
  <2> DEFINE old == ToSet(queue) \cup TaskSlots(R) \cup Wait(r)
             new == ToSet(queue') \cup TaskSlots(N) \cup Wait(r)'
  <2>1. /\ Wait(r)' = Wait(r) /\ Hand(r)' = Hand(r) /\ R \in SUBSET Gives
        /\ NoRepeat(res[r].inbox) /\ NoRepeat(res[r].drained)
        /\ ToSet(res[r].inbox) \cap ToSet(res[r].drained) = {}
        /\ Wait(r) \cap Hand(r) = {}
    BY DriverFacts DEF Wait, WaitOf, OwnInv, NoneTwice, Regroups
  <2>2. (ToSet(queue) \cup TaskSlots(R)) \cap (Wait(r) \cup Hand(r)) = {}
    <3>1. ToSet(queue) \subseteq Slots /\ TaskSlots(R) \subseteq Slots
      BY <2>1, ToSetSubset, TaskSlotsTyped DEF OwnInv, CapInv, FieldsTyped
    <3> QED BY <2>1, <3>1, WaitsOnce
  <2>3. Moves(r, r, R, N, old, new, S)
    BY <2>1, <2>2 DEF Moves, Regroups
  <2> HIDE DEF old, new
  <2> QED BY <2>3, Transfer
<1> QED BY <1>1, <1>2

\* Steps of the queue and its tasks keep the invariant, where nothing that waits
\* has been deferred too often.
LEMMA QueueStep ==
    ASSUME OwnInv, CapInv', UNCHANGED <<tag, arrived, registry, res, ending>>,
           NEW R, NEW N, NEW S, Regroups(R, N, S),
           \A q \in Slots : /\ EvictTask(q) \in bg' <=> EvictTask(q) \in bg
                            /\ ReapTask(q) \in bg' <=> ReapTask(q) \in bg,
           defers' \in [Slots -> 0 .. MaxDefers + 1],
           \A s \in Slots : Waiting(s)' \/ fut[s] = "none" => defers'[s] <= MaxDefers
    PROVE  OwnInv'
<1>1. /\ ScalarsTyped /\ UNCHANGED <<shutdown, awaited, draining>>
      /\ fut' = Settle(S) /\ \A s \in Slots : Fresh(s)
  BY DEF OwnInv, ending, Regroups
<1>2. /\ NoneTwice' /\ \A s \in Slots : Placed(s)'
      /\ \A s \in Slots : Waiting(s)' => Waiting(s)
  <2>1. \A q \in Slots : /\ res'[q].inbox = res[q].inbox
                         /\ res'[q].drained = res[q].drained /\ Hand(q)' = Hand(q)
    BY DEF Hand
  <2> QED BY <2>1, QueueMove
<1>3. /\ fut' \in [Slots -> {"none", "pending", "answered"}]
      /\ \A s \in Slots : /\ Pending(s)' => Pending(s)
                          /\ fut'[s] = "none" <=> fut[s] = "none"
  BY <1>1 DEF Settle, ScalarsTyped, Pending
<1>4. ScalarsTyped' /\ DefersCounted'
  BY <1>1, <1>3 DEF ScalarsTyped, DefersCounted
<1>5. \A q \in Slots : Shaped(q)' /\ Settled(q)' /\ Linked(q)' /\ Ends(q)'
  BY <1>3, Unmoved
<1>6. \A s \in Slots : Fresh(s)'
  BY <1>1, <1>2, <1>3 DEF Fresh, Stopped
<1> QED BY <1>2, <1>4, <1>5, <1>6 DEF OwnInv

\* A task gives its slots back to the head of the queue, or fails them.
LEMMA RequeueOwned ==
    ASSUME OwnInv, CapInv', UNCHANGED tag, NEW t \in bg, Requeue(t)
    PROVE  OwnInv'
<1> DEFINE back == ToSet(t.slots)
           S == IF Closed THEN back ELSE {}
<1>1. /\ t \in Gives /\ t.slots \in Seq(Slots) /\ NoRepeat(t.slots)
      /\ queue \in Seq(Slots) /\ NoRepeat(queue) /\ ScalarsTyped /\ TaskSlots({t}) = back
      /\ {t} \in SUBSET Gives /\ TaskSlots({}) = {}
  <2>1. t \in Gives /\ t.slots \in Seq(Slots)
    BY DEF Requeue, Gives, OwnInv, CapInv, FieldsTyped, TaskTyped
  <2> QED BY <2>1 DEF OwnInv, CapInv, FieldsTyped, NoneTwice, TaskSlots
<1>2. /\ GiveBack(t.slots) /\ bg' = bg \ {t}
      /\ UNCHANGED <<arrived, defers, registry, res, ending>>
  BY DEF Requeue
<1>3. ToSet(queue) \cap back = {}
  <2>1. ToSet(queue) \subseteq Slots
    BY <1>1, ToSetSubset
  <2>2. \A s \in ToSet(queue) : \A u \in Gives : s \notin ToSet(u.slots)
    BY <2>1 DEF OwnInv, Placed
  <2> QED BY <1>1, <2>2
<1>4. fut' = Settle(S)
  BY <1>1, <1>2, SettleNone DEF GiveBack
<1>5. NoRepeat(queue') /\ ToSet(queue') = ToSet(queue) \cup (IF Closed THEN {} ELSE back)
  <2>1. CASE Closed
    BY <1>1, <1>2, <2>1 DEF GiveBack
  <2>2. CASE ~Closed
    <3> DEFINE b == Reverse(t.slots)
    <3>1. b \in Seq(Slots) /\ NoRepeat(b) /\ ToSet(b) = back
      BY <1>1, ReverseLemma
    <3>2. queue' = b \o queue
      BY <1>2, <2>2 DEF GiveBack
    <3> HIDE DEF b, back
    <3> QED BY <1>1, <1>3, <2>2, <3>1, <3>2, ConcatLemma
  <2> QED BY <2>1, <2>2
<1>6. Gives' = (Gives \ {t}) \cup {}
  BY <1>2 DEF Gives
<1>7. Regroups({t}, {}, S)
  <2> HIDE DEF back
  <2> QED BY <1>1, <1>3, <1>4, <1>5, <1>6 DEF Regroups
<1>8. \A q \in Slots : /\ EvictTask(q) \in bg' <=> EvictTask(q) \in bg
                       /\ ReapTask(q) \in bg' <=> ReapTask(q) \in bg
  <2>1. \A q \in Slots : EvictTask(q) # t /\ ReapTask(q) # t
    BY <1>1 DEF Gives, EvictTask, ReapTask, ResidentTask
  <2> QED BY <1>2, <2>1
<1> HIDE DEF S, back
<1>9. \A s \in Slots : Waiting(s)' => Waiting(s)
  <2>1. \A q \in Slots : /\ res'[q].inbox = res[q].inbox
                         /\ res'[q].drained = res[q].drained /\ Hand(q)' = Hand(q)
    BY <1>2 DEF Hand
  <2> QED BY <1>7, <2>1, QueueMove
<1>10. /\ defers' \in [Slots -> 0 .. MaxDefers + 1]
       /\ \A s \in Slots : Waiting(s)' \/ fut[s] = "none" => defers'[s] <= MaxDefers
  BY <1>2, <1>9 DEF OwnInv, DefersCounted
<1> QED BY <1>2, <1>7, <1>8, <1>10, QueueStep

\* What a pop takes and leaves.
LEMMA PopFacts ==
    ASSUME OwnInv, NEW i \in DOMAIN queue, PopAt(i)
    PROVE  /\ queue[i] \in Slots /\ queue[i] \in ToSet(queue) /\ Pending(queue[i])
           /\ NoRepeat(queue') /\ ToSet(queue') = ToSet(queue) \ {queue[i]}
           /\ ToSet(queue) \subseteq Slots /\ Waiting(queue[i]) /\ ScalarsTyped
           /\ \A r \in Slots : queue[i] \notin Wait(r) \cup Hand(r)
           /\ ~Stopped /\ shutdown = "no" /\ UNCHANGED <<arrived, ending>>
           /\ TaskSlots({}) = {}
<1>1. /\ queue \in Seq(Slots) /\ NoRepeat(queue) /\ i \in 1 .. Len(queue)
      /\ queue' = RemoveAt(queue, i) /\ ~Stopped /\ UNCHANGED <<arrived, ending>>
      /\ ScalarsTyped
  BY LenProperties DEF OwnInv, CapInv, FieldsTyped, NoneTwice, PopAt
<1>2. /\ queue[i] \in Slots /\ queue[i] \in ToSet(queue) /\ ToSet(queue) \subseteq Slots
      /\ NoRepeat(queue') /\ ToSet(queue') = ToSet(queue) \ {queue[i]}
  BY <1>1, ElementOfSeq, InToSet, ToSetSubset, RemoveAtLemma
<1>3. Pending(queue[i]) /\ \A r \in Slots : queue[i] \notin Wait(r) \cup Hand(r)
  BY <1>2 DEF OwnInv, Placed
<1> QED BY <1>1, <1>2, <1>3 DEF Waiting, Stopped, TaskSlots

\* A popped slot whose client left, or that no resident can be had for, is answered
\* or waits in a task of its own; what waits has been deferred MaxDefers times at most.
LEMMA PutOffOwned ==
    ASSUME OwnInv, CapInv', UNCHANGED tag, NEW i \in DOMAIN queue,
           DispatchEvicted(i) \/ Defer(i)
    PROVE  OwnInv'
<1>0. PICK u : u = queue[i]
  OBVIOUS
<1>1. /\ u \in Slots /\ u \in ToSet(queue) /\ Pending(u)
      /\ NoRepeat(queue') /\ ToSet(queue') = ToSet(queue) \ {u}
      /\ ToSet(queue) \subseteq Slots /\ Waiting(u) /\ ScalarsTyped
      /\ UNCHANGED <<arrived, ending>> /\ TaskSlots({}) = {}
  BY <1>0, PopFacts DEF DispatchEvicted, Defer
<1>2. /\ DeferTask(u).do = "defer" /\ DeferTask(u).slots = <<u>> /\ ToSet(<<u>>) = {u}
      /\ NoRepeat(<<u>>) /\ TaskSlots({DeferTask(u)}) = {u}
  <2>1. ToSet(<<u>>) = {u} /\ NoRepeat(<<u>>)
    BY DEF ToSet, NoRepeat
  <2>2. DeferTask(u).do = "defer" /\ DeferTask(u).slots = <<u>>
    BY DEF DeferTask
  <2> QED BY <2>1, <2>2 DEF TaskSlots
<1>3. UNCHANGED <<registry, res>>
  BY DEF DispatchEvicted, Defer
<1>4. /\ defers' \in [Slots -> 0 .. MaxDefers + 1]
      /\ \A s \in Slots \ {u} : defers'[s] = defers[s]
      /\ ~DefersExhausted(u) => defers'[u] <= MaxDefers
      /\ DispatchEvicted(i) => UNCHANGED defers
  <2>1. /\ defers \in [Slots -> 0 .. MaxDefers + 1] /\ defers[u] <= MaxDefers
        /\ MaxDefers \in Nat /\ defers[u] \in 0 .. MaxDefers + 1
    BY <1>1, DefersAssumption DEF OwnInv, DefersCounted
  <2>2. CASE UNCHANGED defers
    BY <2>1, <2>2
  <2>3. CASE defers' = [defers EXCEPT ![u] = @ + 1]
    BY <1>1, <2>1, <2>3 DEF DefersExhausted, DispatchEvicted
  <2>4. DispatchEvicted(i) => UNCHANGED defers
    BY DEF DispatchEvicted
  <2> QED BY <1>0, <2>2, <2>3, <2>4 DEF Defer
<1>5. ASSUME fut' = Settle({u}), UNCHANGED bg
      PROVE  OwnInv'
  <2>1. Gives' = (Gives \ {}) \cup {}
    BY <1>5 DEF Gives
  <2>2. Regroups({}, {}, {u})
    BY <1>1, <1>5, <2>1 DEF Regroups
  <2>3. \A s \in Slots : Waiting(s)' => Waiting(s) /\ s # u
    <3>1. \A q \in Slots : /\ res'[q].inbox = res[q].inbox
                           /\ res'[q].drained = res[q].drained /\ Hand(q)' = Hand(q)
      BY <1>3 DEF Hand
    <3>2. /\ \A s \in Slots : Placed(s)'
          /\ \A s \in Slots : Waiting(s)' => Waiting(s)
      BY <2>2, <3>1, QueueMove
    <3>3. ~Pending(u)'
      BY <1>1, <1>5 DEF Settle, Pending
    <3>4. Waiting(u)' => Pending(u)'
      BY <1>1, <3>2 DEF Placed, Waiting, TaskSlots
    <3> QED BY <3>2, <3>3, <3>4
  <2>4. \A s \in Slots : Waiting(s)' \/ fut[s] = "none" => defers'[s] <= MaxDefers
    BY <1>1, <1>4, <2>3 DEF OwnInv, DefersCounted, Pending
  <2> QED BY <1>1, <1>3, <1>4, <1>5, <2>2, <2>4, QueueStep
<1>6. CASE bg' = bg \cup {DeferTask(u)} /\ UNCHANGED fut /\ ~DefersExhausted(u)
  <2>1. Gives' = (Gives \ {}) \cup {DeferTask(u)}
    BY <1>2, <1>6 DEF Gives
  <2>2. fut' = Settle({})
    BY <1>1, <1>6, SettleNone
  <2>3. Regroups({}, {DeferTask(u)}, {})
    BY <1>1, <1>2, <2>1, <2>2 DEF Regroups
  <2>4. \A q \in Slots : /\ EvictTask(q) \in bg' <=> EvictTask(q) \in bg
                         /\ ReapTask(q) \in bg' <=> ReapTask(q) \in bg
    <3>1. \A q \in Slots : EvictTask(q) # DeferTask(u) /\ ReapTask(q) # DeferTask(u)
      BY <1>2 DEF EvictTask, ReapTask, ResidentTask
    <3> QED BY <1>6, <3>1
  <2>5. \A s \in Slots : Waiting(s)' => Waiting(s)
    <3>1. \A q \in Slots : /\ res'[q].inbox = res[q].inbox
                           /\ res'[q].drained = res[q].drained /\ Hand(q)' = Hand(q)
      BY <1>3 DEF Hand
    <3> QED BY <2>3, <3>1, QueueMove
  <2>6. \A s \in Slots : Waiting(s)' \/ fut[s] = "none" => defers'[s] <= MaxDefers
    BY <1>4, <1>6, <2>5 DEF OwnInv, DefersCounted
  <2> QED BY <1>1, <1>3, <1>4, <2>3, <2>4, <2>6, QueueStep
<1>7. \/ fut' = Settle({u}) /\ UNCHANGED bg
      \/ bg' = bg \cup {DeferTask(u)} /\ UNCHANGED fut /\ ~DefersExhausted(u)
  BY <1>0 DEF DispatchEvicted, Defer
<1> QED BY <1>5, <1>6, <1>7

\* A slot goes to the resident of its model.
LEMMA RouteHitOwned ==
    ASSUME OwnInv, CapInv', UNCHANGED tag, NEW i \in DOMAIN queue, RouteHit(i)
    PROVE  OwnInv'
<1>0. PICK u : u = queue[i]
  OBVIOUS
<1>1. /\ u \in Slots /\ u \in ToSet(queue) /\ Pending(u)
      /\ NoRepeat(queue') /\ ToSet(queue') = ToSet(queue) \ {u}
      /\ ToSet(queue) \subseteq Slots /\ Waiting(u) /\ ScalarsTyped
      /\ \A r \in Slots : u \notin Wait(r) \cup Hand(r)
      /\ UNCHANGED <<arrived, ending>> /\ TaskSlots({}) = {} /\ ~Stopped
  BY <1>0, PopFacts DEF RouteHit
<1>2. PICK r \in ResidentsOf(u) :
        res' = [res EXCEPT
                  ![r].inbox = Append(@, u),
                  ![r].state = IF @ = "IDLE_EVICTABLE" THEN "ACTIVE" ELSE @]
  BY <1>0 DEF RouteHit
<1> DEFINE x == res[r]
           st == IF x.state = "IDLE_EVICTABLE" THEN "ACTIVE" ELSE x.state
           q == Append(x.inbox, u)
           y == [x EXCEPT !.inbox = q, !.state = st]
<1>3. UNCHANGED <<fut, defers, registry, bg>>
  BY DEF RouteHit
<1>4. /\ r \in registry /\ r \in Slots /\ x \in Resident /\ x.inbox \in Seq(Slots)
      /\ NoRepeat(x.inbox) /\ x.state # "DEAD" /\ x.claim = "none" /\ Live(r)
      /\ x.drained = <<>> /\ ~x.cancel /\ Wait(r) = ToSet(x.inbox)
  <2>1. r \in registry /\ r \in Slots
    BY DEF ResidentsOf, OwnInv, CapInv, FieldsTyped
  <2>2. /\ x \in Resident /\ x.inbox \in Seq(Slots)
        /\ NoRepeat(x.inbox) /\ x.state # "DEAD" /\ x.claim = "none" /\ Live(r)
    BY <1>1, <2>1, DriverFacts DEF Resident, Linked, Live
  <2>3. x.drained = <<>> /\ ~x.cancel
    BY <1>1, <2>1, <2>2, DriverFacts DEF Shaped, Live, Linked, ScalarsTyped, Stopped
  <2> QED BY <2>1, <2>2, <2>3, ToSetEmpty DEF Wait, WaitOf
<1>5. st \in {"RESERVED_LOADING", "ACTIVE"}
  BY <1>4 DEF Resident
<1>6. /\ q \in Seq(Slots) /\ NoRepeat(q) /\ ToSet(q) = ToSet(x.inbox) \cup {u} /\ q # <<>>
      /\ x.inbox # <<>> => Head(q) = Head(x.inbox)
  <2>1. /\ q \in Seq(Slots) /\ Len(q) = Len(x.inbox) + 1 /\ Len(x.inbox) \in Nat
        /\ ToSet(q) = ToSet(x.inbox) \cup {u} /\ NoRepeat(q)
    BY <1>1, <1>4, AppendLemma, LenProperties
  <2>2. q # <<>>
    <3>1. Len(q) # 0 /\ Len(<<>>) = 0
      BY <2>1, EmptySeq
    <3> QED BY <3>1
  <2>3. x.inbox # <<>> => q[1] = x.inbox[1]
    BY <1>1, <1>4, <2>1, AppendProperties, EmptySeq
  <2>4. x.inbox # <<>> => Head(q) = Head(x.inbox)
    BY <1>4, <2>1, <2>2, <2>3, HeadTailLemma
  <2> QED BY <2>1, <2>2, <2>4
<1>7. Update(r, y)
  BY <1>2, <1>4, DriverFacts DEF Update
<1> HIDE DEF q, st
<1>8. y \in Resident
  BY <1>4, <1>5, <1>6 DEF Resident
<1>9. /\ y.pc = x.pc /\ y.local = x.local /\ y.inbox = q
      /\ y.active = x.active /\ y.next = x.next /\ y.inflight = x.inflight
      /\ y.drained = x.drained
  BY <1>4 DEF Resident
<1>10. y.state = st /\ y.ref = x.ref /\ y.proc = x.proc /\ y.claim = x.claim /\ y.cancel = x.cancel
  BY <1>4 DEF Resident
<1> HIDE DEF y
<1>11. res'[r] = y /\ \A p \in Slots \ {r} : res'[p] = res[p]
  BY <1>4, <1>7, DriverFacts DEF Update
<1>12. /\ Wait(r)' = Wait(r) \cup {u} /\ Hand(r)' = Hand(r)
       /\ \A p \in Slots \ {r} : Hand(p)' = Hand(p)
  BY <1>4, <1>6, <1>9, <1>11, ToSetEmpty DEF Wait, WaitOf, Hand, HandOf
<1> DEFINE old == ToSet(queue) \cup TaskSlots({}) \cup Wait(r)
           new == ToSet(queue') \cup TaskSlots({}) \cup Wait(r)'
<1>13. ToSet(queue) \cap (Wait(r) \cup Hand(r)) = {} /\ Wait(r) \cap Hand(r) = {}
  BY <1>1, <1>4, DriverFacts DEF OwnInv, Placed
<1>14. Moves(r, r, {}, {}, old, new, {})
  <2>1. NoRepeat(<<>>) /\ ToSet(<<>>) = {} /\ Gives' = (Gives \ {}) \cup {}
    BY <1>3, ToSetEmpty DEF NoRepeat, Gives
  <2>2. fut' = Settle({})
    BY <1>1, <1>3, SettleNone
  <2>3. \A p \in Slots \ {r} : res'[p].inbox = res[p].inbox /\ res'[p].drained = res[p].drained
    BY <1>11
  <2>4. /\ NoRepeat(res'[r].inbox) /\ NoRepeat(res'[r].drained)
        /\ ToSet(res'[r].inbox) \cap ToSet(res'[r].drained) = {}
    BY <1>4, <1>6, <1>9, <1>11, <2>1
  <2>5. /\ ToSet(queue') \cap (TaskSlots({}) \cup Wait(r)') = {}
        /\ new \cap Hand(r)' = {} /\ new \subseteq old /\ Hand(r)' \subseteq old \cup Hand(r)
        /\ \A s \in old \cup Hand(r) : Pending(s) => s \in new \cup Hand(r)'
    BY <1>1, <1>4, <1>12, <1>13
  <2> QED BY <1>1, <1>12, <2>1, <2>2, <2>3, <2>4, <2>5 DEF Moves
<1> HIDE DEF old, new
<1>15. /\ NoneTwice' /\ \A s \in Slots : Placed(s)'
       /\ \A s \in Slots : Waiting(s)' => Waiting(s)
  BY <1>4, <1>14, Transfer
<1>16. Shaped(r)'
  <2>1. Shaped(r) /\ (x.pc = "start" => x.inbox # <<>>)
    BY <1>4, DriverFacts DEF CapInv, Sound
  <2>2. Width(r)' = Width(r)
    BY DEF Width
  <2>3. /\ y.pc = "fetched" => ~InlineWaitFor /\ y.next # NoSlot
        /\ y.pc # "fetched" => y.next = NoSlot
        /\ y.drained = <<>>
        /\ y.pc \notin {"none", "finally", "done"} /\ ~y.cancel /\ y.claim = "none"
        /\ y.pc # "serve" => y.inflight = {}
        /\ y.pc = "start" => Hand(r)' = {} /\ Head(y.inbox) = r
        /\ y.pc \in {"gate", "health", "unhealthy", "idle", "fetched"} => y.active = NoSlot
        /\ y.pc \in {"audit", "serve", "grace"} => y.active = y.local
        /\ y.pc = "serve" /\ Width(r)' = 1 => y.inflight \subseteq {y.local}
        /\ y.proc = "up" => y.ref # "none" /\ y.pc # "start"
    <3>1. /\ x.pc = "fetched" => ~InlineWaitFor /\ x.next # NoSlot
          /\ x.pc # "fetched" => x.next = NoSlot
          /\ x.pc \notin {"none", "finally", "done"}
          /\ x.pc # "serve" => x.inflight = {}
          /\ x.pc = "start" => Hand(r) = {} /\ Head(x.inbox) = r /\ x.inbox # <<>>
          /\ x.pc \in {"gate", "health", "unhealthy", "idle", "fetched"} => x.active = NoSlot
      BY <1>4, <2>1 DEF Shaped, Live
    <3>2. /\ x.pc \in {"audit", "serve", "grace"} => x.active = x.local
          /\ x.pc = "serve" /\ Width(r) = 1 => x.inflight \subseteq {x.local}
          /\ x.proc = "up" => x.ref # "none" /\ x.pc # "start"
      BY <1>4, <2>1 DEF Shaped
    <3>3. y.pc = "start" => Hand(r)' = {} /\ Head(y.inbox) = r
      BY <1>6, <1>9, <1>12, <3>1
    <3> QED BY <1>4, <1>9, <1>10, <2>2, <3>1, <3>2, <3>3
  <2>4. y.state \notin {"IDLE_EVICTABLE", "DEAD"} /\ y.inbox # <<>>
    BY <1>5, <1>6, <1>9, <1>10
  <2> QED BY <1>11, <2>3, <2>4 DEF Shaped, Live
<1>17. Settled(r)'
  <2>1. x.local # NoSlot => x.local \in Slots
    BY <1>4 DEF Resident
  <2> QED BY <1>3, <1>4, <1>9, <1>11, <2>1, DriverFacts DEF Settled, Pending
<1>18. fut' = Settle({}) /\ Live(r)'
  BY <1>1, <1>3, <1>4, <1>9, <1>11, SettleNone DEF Live
<1> QED BY <1>1, <1>3, <1>4, <1>5, <1>9, <1>10, <1>11, <1>15, <1>16, <1>17, <1>18, StayOwned

\* A slot that is still to be routed has no resident of its own.
LEMMA NoResidentYet ==
    ASSUME OwnInv, NEW s \in Slots, s \in ToSet(queue), ~Stopped
    PROVE  /\ res[s].pc = "none" /\ s \notin registry /\ Blank(s)
           /\ EvictTask(s) \notin bg /\ ReapTask(s) \notin bg
<1>1. Pending(s) /\ Waiting(s) /\ s \notin Wait(s)
  BY DEF OwnInv, Placed, Waiting
<1>2. res[s].pc \in {"none", "start"}
  BY <1>1 DEF OwnInv, Fresh
<1>3. res[s].pc # "start"
  <2>1. res[s].pc = "start" => res[s].inbox # <<>> /\ Head(res[s].inbox) = s
    BY DriverFacts DEF Shaped, CapInv, Sound
  <2>2. res[s].inbox \in Seq(Slots)
    BY DriverFacts DEF Resident
  <2>3. res[s].pc = "start" => s \in ToSet(res[s].inbox)
    BY <2>1, <2>2, HeadTailLemma
  <2> QED BY <1>1, <2>3 DEF Wait, WaitOf
<1> QED BY <1>2, <1>3, DriverFacts DEF Shaped, Linked

\* What the dispatcher may evict waits for work; an inline wait_for has left none.
LEMMA EvictableFacts ==
    ASSUME OwnInv, NEW v \in Evictable
    PROVE  /\ v \in Slots /\ v \in registry /\ res[v].pc \in {"idle", "fetched"}
           /\ InlineWaitFor => res[v].pc = "idle" /\ res[v].inbox = <<>>
           /\ res[v].state = "IDLE_EVICTABLE"
           /\ EvictTasks(v) = Returned(v) \cup {EvictTask(v)}
<1>1. v \in registry /\ v \in Slots /\ res[v].state = "IDLE_EVICTABLE"
  BY DEF Evictable, OwnInv, CapInv, FieldsTyped
<1>2. /\ res[v].pc \in {"idle", "fetched"}
      /\ InlineWaitFor => res[v].pc = "idle" /\ res[v].inbox = <<>>
  BY <1>1, DriverFacts DEF Shaped
<1> QED BY <1>1, <1>2, EvictionFacts

\* The record of an evicted resident.
LEMMA EvictedRecord ==
    ASSUME NEW x \in Resident
    PROVE  /\ Evicted(x).pc = x.pc /\ Evicted(x).local = x.local
           /\ Evicted(x).inbox = <<>> /\ Evicted(x).active = x.active
           /\ Evicted(x).next = x.next /\ Evicted(x).inflight = x.inflight
           /\ Evicted(x).drained = x.drained /\ Evicted(x).state = "DEAD"
           /\ Evicted(x).ref = x.ref /\ Evicted(x).proc = x.proc
           /\ Evicted(x).claim = x.claim /\ Evicted(x).cancel = x.cancel
<1>1. /\ Evicted(x).pc = x.pc /\ Evicted(x).local = x.local
      /\ Evicted(x).inbox = <<>> /\ Evicted(x).active = x.active
      /\ Evicted(x).next = x.next /\ Evicted(x).inflight = x.inflight
  BY DEF Evicted, Resident
<1>2. /\ Evicted(x).drained = x.drained /\ Evicted(x).state = "DEAD"
      /\ Evicted(x).ref = x.ref /\ Evicted(x).proc = x.proc
      /\ Evicted(x).claim = x.claim /\ Evicted(x).cancel = x.cancel
  BY DEF Evicted, Resident
<1> QED BY <1>1, <1>2

\* A victim that waits for work is evicted; its teardown is a task of its own.
LEMMA VictimOwned ==
    ASSUME OwnInv, ~Stopped, NEW v \in Evictable, res'[v] = Evicted(res[v]),
           v \notin registry', EvictTask(v) \in bg', ReapTask(v) \in bg' => ReapTask(v) \in bg,
           UNCHANGED <<tag, ending>>, \A s \in Slots : Pending(s)' => Pending(s)
    PROVE  /\ Shaped(v)' /\ Settled(v)' /\ Linked(v)' /\ Ends(v)' /\ Hand(v)' = Hand(v)
           /\ Wait(v) = ToSet(res[v].inbox) /\ res'[v].pc = res[v].pc
           /\ res'[v].inbox = <<>> /\ res'[v].drained = <<>>
<1> DEFINE x == res[v]
           y == Evicted(x)
<1>1. /\ v \in Slots /\ v \in registry /\ x.pc \in {"idle", "fetched"}
      /\ x.state = "IDLE_EVICTABLE" /\ x \in Resident
  BY EvictableFacts, DriverFacts
<1>2. /\ x.pc = "fetched" <=> x.next # NoSlot
      /\ x.pc = "fetched" => ~InlineWaitFor
      /\ x.inflight = {} /\ x.drained = <<>> /\ x.active = NoSlot
      /\ (x.proc = "up" => x.ref # "none")
  BY <1>1, DriverFacts DEF Shaped
<1>3. /\ x.local \in Slots /\ ~Pending(x.local) /\ x.claim = "none" /\ ReapTask(v) \notin bg
  BY <1>1, DriverFacts DEF Settled, Linked, Working, Resident
<1>4. ~x.cancel /\ shutdown = "no"
  BY <1>1, DriverFacts DEF Linked, ScalarsTyped, Stopped
<1>5. /\ y.pc = x.pc /\ y.local = x.local /\ y.inbox = <<>> /\ y.active = x.active
      /\ y.next = x.next /\ y.inflight = x.inflight /\ y.drained = x.drained
      /\ y.state = "DEAD" /\ y.ref = x.ref /\ y.proc = x.proc
      /\ y.claim = x.claim /\ y.cancel = x.cancel
  BY <1>1, EvictedRecord
<1> HIDE DEF y
<1>6. res'[v] = y
  BY DEF y
<1>7. Hand(v)' = Hand(v) /\ Wait(v) = ToSet(x.inbox)
  BY <1>2, <1>5, <1>6, ToSetEmpty DEF Hand, HandOf, Wait, WaitOf
<1>8. Shaped(v)'
  BY <1>1, <1>2, <1>3, <1>4, <1>5, <1>6 DEF Shaped, Live
<1>9. Settled(v)'
  BY <1>1, <1>3, <1>5, <1>6 DEF Settled, Pending
<1>10. Linked(v)' /\ Ends(v)'
  BY <1>1, <1>2, <1>3, <1>4, <1>5, <1>6 DEF Linked, Ends, Live, ending, Closed
<1> QED BY <1>2, <1>5, <1>6, <1>7, <1>8, <1>9, <1>10

\* A slot of a model without a resident takes a free place or a victim's, or is
\* refused once the victim is gone.
LEMMA ReserveOwned ==
    ASSUME OwnInv, CapInv', UNCHANGED tag, NEW i \in DOMAIN queue, Reserve(i)
    PROVE  OwnInv'
<1>0. PICK s : s = queue[i]
  OBVIOUS
<1>1. /\ s \in Slots /\ s \in ToSet(queue) /\ Pending(s)
      /\ NoRepeat(queue') /\ ToSet(queue') = ToSet(queue) \ {s}
      /\ ToSet(queue) \subseteq Slots /\ Waiting(s) /\ ScalarsTyped
      /\ UNCHANGED <<arrived, ending>> /\ TaskSlots({}) = {} /\ ~Stopped
  BY <1>0, PopFacts DEF Reserve
<1>2. /\ res[s].pc = "none" /\ s \notin registry /\ Blank(s)
      /\ EvictTask(s) \notin bg /\ ReapTask(s) \notin bg
  BY <1>1, NoResidentYet
<1> DEFINE new == [NoResident EXCEPT !.pc = "start", !.inbox = <<s>>,
                                     !.state = "RESERVED_LOADING"]
<1>3. PICK victims \in IF HasRoom THEN {{}} ELSE {{v} : v \in Evictable} :
        LET left == [r \in Slots |-> IF r \in victims THEN Evicted(res[r]) ELSE res[r]]
        IN  /\ bg' = bg \cup UNION {EvictTasks(v) : v \in victims}
            /\ \/ /\ registry' = registry \ victims
                  /\ res' = left /\ fut' = Settle({s})
               \/ /\ registry' = (registry \ victims) \cup {s}
                  /\ res' = [left EXCEPT ![s] = new] /\ UNCHANGED fut
  BY <1>0 DEF Reserve
<1>4. /\ victims \subseteq Evictable /\ s \notin victims
      /\ UNCHANGED <<defers>>
  <2>1. victims \subseteq Evictable
    BY <1>3
  <2> QED BY <1>2, <2>1, EvictableFacts DEF Reserve
<1>5. PICK v, N : /\ v \in Slots
                  /\ bg' = bg \cup N \cup {EvictTask(u) : u \in victims}
                  /\ \/ victims = {v} /\ v \in Evictable /\ N = Returned(v)
                     \/ victims = {} /\ v = s /\ N = {}
  <2>1. CASE victims = {}
    BY <1>1, <1>3, <2>1
  <2>2. CASE victims # {}
    <3>1. PICK v \in Evictable : victims = {v}
      BY <1>3, <2>2
    <3>2. bg' = bg \cup EvictTasks(v)
      BY <1>3, <3>1
    <3> QED BY <3>1, <3>2, EvictableFacts
  <2> QED BY <2>1, <2>2
<1>6. /\ new.pc = "start" /\ new.inbox = <<s>> /\ new.state = "RESERVED_LOADING"
      /\ new.active = NoSlot /\ new.local = NoSlot /\ new.next = NoSlot
      /\ new.inflight = {} /\ new.drained = <<>> /\ new.ref = "none" /\ new.proc = "none"
      /\ new.claim = "none" /\ ~new.cancel
  BY DEF NoResident
<1> HIDE DEF new
<1>7. /\ \A q \in Slots \ (victims \cup {s}) : res'[q] = res[q]
      /\ \A q \in victims : res'[q] = Evicted(res[q])
      /\ registry \ (victims \cup {s}) = registry' \ (victims \cup {s})
      /\ victims \subseteq Slots /\ victims \cap registry' = {}
      /\ \/ res'[s] = res[s] /\ s \notin registry' /\ fut' = Settle({s})
         \/ res'[s] = new /\ s \in registry' /\ UNCHANGED fut
  BY <1>1, <1>2, <1>3, <1>4, EvictableFacts
<1>8. /\ \A q \in Slots : /\ EvictTask(q) \in bg' <=> EvictTask(q) \in bg \/ q \in victims
                          /\ ReapTask(q) \in bg' <=> ReapTask(q) \in bg
      /\ Gives' = (Gives \ {}) \cup N
  <2>1. \A p, q \in Slots : /\ EvictTask(p) # ReapTask(q) /\ EvictTask(q).do = "evict"
                            /\ EvictTask(p) = EvictTask(q) => p = q
                            /\ ReapTask(q).do = "reap"
    BY DEF EvictTask, ReapTask, ResidentTask
  <2>2. \A t \in N : t.do = "requeue"
    BY <1>5, EvictionFacts
  <2>3. Gives' = (Gives \ {}) \cup N
    BY <1>5, <1>7, <2>1, <2>2 DEF Gives
  <2> QED BY <1>5, <1>7, <2>1, <2>2, <2>3
<1>9. \A q \in Slots : /\ Pending(q)' => Pending(q)
                       /\ fut'[q] = "none" <=> fut[q] = "none"
  BY <1>1, <1>7 DEF Settle, Pending, ScalarsTyped
<1>10. \A u \in victims : /\ Shaped(u)' /\ Settled(u)' /\ Linked(u)' /\ Ends(u)'
                          /\ Hand(u)' = Hand(u) /\ res'[u].pc = res[u].pc
                          /\ Wait(u) = ToSet(res[u].inbox)
                          /\ res'[u].inbox = <<>> /\ res'[u].drained = <<>>
  BY <1>1, <1>4, <1>7, <1>8, <1>9, VictimOwned
<1>11. /\ \A q \in Slots \ {s} : res'[q].pc = res[q].pc
       /\ \A q \in Slots \ {s, v} : /\ res'[q].inbox = res[q].inbox
                                    /\ res'[q].drained = res[q].drained
                                    /\ Hand(q)' = Hand(q)
       /\ v # s => /\ res'[v].inbox = <<>> /\ res'[v].drained = <<>> /\ Hand(v)' = Hand(v)
  <2>1. \A q \in Slots \ (victims \cup {s}) : Hand(q)' = Hand(q)
    BY <1>7 DEF Hand
  <2> QED BY <1>5, <1>7, <1>10, <2>1
<1>12. ToSet(<<s>>) = {s} /\ NoRepeat(<<s>>) /\ NoRepeat(<<>>) /\ ToSet(<<>>) = {}
       /\ Head(<<s>>) = s
  BY ToSetEmpty DEF ToSet, NoRepeat
<1>13. /\ res[s].inbox = <<>> /\ res[s].drained = <<>> /\ Hand(s) = {} /\ Wait(s) = {}
       /\ Hand(s)' = {}
       /\ \/ /\ res'[s] = res[s] /\ Wait(s)' = {} /\ fut' = Settle({s})
          \/ /\ res'[s] = new /\ Wait(s)' = {s} /\ fut' = Settle({})
  <2>1. res[s].inbox = <<>> /\ res[s].drained = <<>> /\ Hand(s) = {} /\ Wait(s) = {}
    BY <1>2, <1>12 DEF Blank, Wait, WaitOf
  <2>2. CASE res'[s] = res[s] /\ fut' = Settle({s})
    BY <2>1, <2>2 DEF Hand, Wait
  <2>3. CASE res'[s] = new /\ UNCHANGED fut
    BY <1>1, <1>6, <1>12, <2>1, <2>3, SettleNone DEF Hand, HandOf, Wait, WaitOf
  <2> QED BY <1>7, <2>2, <2>3
<1>20. /\ TaskSlots(N) = Wait(v) /\ ToSet(queue) \cap Wait(v) = {}
       /\ \A t \in N : NoRepeat(t.slots) /\ \A u \in N : t = u
  <2>1. CASE v = s
    BY <1>1, <1>4, <1>5, <1>13, <2>1
  <2>2. CASE v # s
    <3>1. victims = {v} /\ N = Returned(v)
      BY <1>5, <2>2
    <3>2. Wait(v) = ToSet(res[v].inbox)
      BY <1>10, <3>1
    <3>3. ToSet(queue) \cap Wait(v) = {}
      BY <1>1, <1>5 DEF OwnInv, Placed
    <3> QED BY <1>5, <3>1, <3>2, <3>3, EvictionFacts
  <2> QED BY <2>1, <2>2
<1> DEFINE old == ToSet(queue) \cup TaskSlots({}) \cup Wait(s) \cup Wait(v)
           now == ToSet(queue') \cup TaskSlots(N) \cup Wait(s)'
           S == IF res'[s] = res[s] THEN {s} ELSE {}
<1>14. Moves(s, v, {}, N, old, now, S)
  <2>1. new # res[s]
    BY <1>2, <1>6
  <2>2. fut' = Settle(S) /\ Wait(s)' = {s} \ S /\ S \subseteq {s}
    BY <1>13, <2>1
  <2>3. Gives' = (Gives \ {}) \cup N
    BY <1>8
  <2>4. /\ NoRepeat(res'[s].inbox) /\ NoRepeat(res'[s].drained)
        /\ ToSet(res'[s].inbox) \cap ToSet(res'[s].drained) = {}
    BY <1>6, <1>12, <1>13
  <2> HIDE DEF S
  <2>5. /\ ToSet(queue') \cap (TaskSlots(N) \cup Wait(s)') = {}
        /\ TaskSlots(N) \cap Wait(s)' = {}
        /\ now \subseteq old /\ S \subseteq old /\ now \cap S = {}
        /\ \A u \in old \cup Hand(s) : Pending(u) => u \in S \cup now \cup Hand(s)'
    BY <1>1, <1>13, <1>20, <2>2
  <2> QED BY <1>1, <1>11, <1>13, <1>20, <2>2, <2>3, <2>4, <2>5 DEF Moves
<1> HIDE DEF old, now, S
<1>15. /\ NoneTwice' /\ \A u \in Slots : Placed(u)'
       /\ \A u \in Slots : Waiting(u)' => Waiting(u)
  BY <1>1, <1>5, <1>14, Transfer
<1>16. ScalarsTyped' /\ DefersCounted'
  <2>1. fut' \in [Slots -> {"none", "pending", "answered"}]
    BY <1>1, <1>7 DEF Settle, ScalarsTyped
  <2> QED BY <1>1, <1>4, <1>9, <1>15, <2>1 DEF ScalarsTyped, DefersCounted, OwnInv, ending
<1>17. Shaped(s)' /\ Settled(s)' /\ Linked(s)' /\ Ends(s)'
  <2>1. CASE res'[s] = res[s] /\ s \notin registry'
    BY <1>1, <1>2, <1>4, <1>8, <1>9, <2>1, Unmoved
  <2>2. CASE res'[s] = new /\ s \in registry'
    <3>1. Shaped(s)' /\ Settled(s)'
      BY <1>6, <1>12, <1>13, <2>2 DEF Shaped, Settled, Live
    <3>2. UNCHANGED <<shutdown, awaited, draining>> /\ shutdown = "no"
      BY <1>1 DEF ending, Stopped
    <3>3. EvictTask(s) \notin bg' /\ ReapTask(s) \notin bg'
      BY <1>1, <1>2, <1>4, <1>8
    <3>4. Linked(s)'
      BY <1>1, <1>6, <2>2, <3>3 DEF Linked, Live, EvictTask, ReapTask, ResidentTask
    <3>5. Ends(s)'
      BY <3>2 DEF Ends, Closed
    <3> QED BY <3>1, <3>4, <3>5
  <2> QED BY <1>7, <2>1, <2>2
<1>18. ASSUME NEW q \in Slots
       PROVE  Shaped(q)' /\ Settled(q)' /\ Linked(q)' /\ Ends(q)'
  <2>1. CASE q \in Slots \ (victims \cup {s})
    <3>1. res'[q] = res[q] /\ (q \in registry' <=> q \in registry)
      BY <1>7, <2>1
    <3> QED BY <1>1, <1>8, <1>9, <2>1, <3>1, Unmoved
  <2> QED BY <1>10, <1>17, <2>1
<1>19. ASSUME NEW q \in Slots PROVE Fresh(q)'
  <2>1. Fresh(q) /\ Stopped' = Stopped
    BY <1>1 DEF OwnInv, ending, Stopped
  <2>2. CASE q = s
    BY <1>1, <1>2, <1>6, <1>7, <1>9, <2>1, <2>2 DEF Fresh, Pending
  <2>3. CASE q # s
    BY <1>1, <1>9, <1>11, <1>15, <2>1, <2>3 DEF Fresh
  <2> QED BY <2>2, <2>3
<1> QED BY <1>15, <1>16, <1>18, <1>19 DEF OwnInv

-----------------------------------------------------------------------------
(* Arrival and shutdown.                                                    *)

\* A request that arrives was nowhere before and waits in the queue after.
LEMMA SubmitOwned ==
    ASSUME OwnInv, CapInv', UNCHANGED tag, Submit
    PROVE  OwnInv'
<1>0. PICK u : u = arrived + 1
  OBVIOUS
<1>1. /\ u \in Slots /\ fut[u] = "none" /\ res[u].pc = "none" /\ defers[u] <= MaxDefers
      /\ ScalarsTyped /\ queue \in Seq(Slots) /\ NoRepeat(queue) /\ arrived \in Nat
  <2>1. arrived \in Nat /\ u \in Slots /\ ScalarsTyped /\ queue \in Seq(Slots)
    BY <1>0, NumSlotsAssumption DEF Submit, Slots, OwnInv, CapInv, FieldsTyped
  <2>2. Fresh(u) /\ u > arrived
    BY <1>0, <2>1 DEF OwnInv
  <2> QED BY <2>1, <2>2 DEF Fresh, OwnInv, DefersCounted, NoneTwice
<1>2. /\ fut' = [fut EXCEPT ![u] = "pending"] /\ arrived' = arrived + 1
      /\ queue' = Append(queue, u) /\ ~Stopped
      /\ UNCHANGED <<defers, registry, res, bg, ending>>
  BY <1>0 DEF Submit
<1>3. /\ u \notin ToSet(queue) /\ \A t \in Gives : u \notin ToSet(t.slots)
      /\ \A r \in Slots : u \notin Wait(r) \cup Hand(r)
  <2>1. Placed(u) /\ ~Pending(u)
    BY <1>1 DEF OwnInv, Pending
  <2> QED BY <1>1, <2>1 DEF Placed
<1>4. /\ NoRepeat(queue') /\ ToSet(queue') = ToSet(queue) \cup {u}
  BY <1>1, <1>2, <1>3, AppendLemma
<1>5. /\ fut' \in [Slots -> {"none", "pending", "answered"}]
      /\ fut'[u] = "pending" /\ \A s \in Slots \ {u} : fut'[s] = fut[s]
  BY <1>1, <1>2 DEF ScalarsTyped
<1>6. /\ \A q \in Slots : /\ Wait(q)' = Wait(q) /\ Hand(q)' = Hand(q) /\ Live(q)' = Live(q)
                          /\ Blank(q)' = Blank(q) /\ Width(q)' = Width(q)
      /\ Gives' = Gives /\ UNCHANGED <<shutdown, awaited, draining>>
  BY <1>2 DEF Wait, Hand, Live, Blank, Width, Gives, ending
<1>7. \A s \in Slots : Waiting(s)' <=> Waiting(s) \/ s = u
  BY <1>4, <1>6 DEF Waiting, TaskSlots
<1>8. NoneTwice'
  BY <1>2, <1>4, <1>6 DEF OwnInv, NoneTwice
<1>9. ScalarsTyped' /\ DefersCounted'
  BY <1>1, <1>2, <1>5, <1>6, <1>7 DEF ScalarsTyped, DefersCounted, OwnInv
<1>10. ASSUME NEW s \in Slots PROVE Placed(s)'
  <2>1. Placed(s)
    BY DEF OwnInv
  <2>2. CASE s = u
    BY <1>3, <1>4, <1>5, <1>6, <1>7, <2>2 DEF Placed, Pending
  <2>3. CASE s # u
    <3>1. /\ s \in ToSet(queue') <=> s \in ToSet(queue)
          /\ Pending(s)' <=> Pending(s)
      BY <1>4, <1>5, <2>3 DEF Pending
    <3> QED BY <1>5, <1>6, <1>7, <2>1, <2>3, <3>1 DEF Placed
  <2> QED BY <2>2, <2>3
<1>11. ASSUME NEW q \in Slots
       PROVE  Shaped(q)' /\ Settled(q)' /\ Linked(q)' /\ Ends(q)' /\ Fresh(q)'
  <2>1. /\ Shaped(q) /\ Settled(q) /\ Linked(q) /\ Ends(q) /\ Fresh(q)
        /\ res[q] \in Resident /\ (res[q].pc \in Working => res[q].local \in Slots)
        /\ Hand(q) \subseteq Slots
    BY DriverFacts DEF OwnInv
  <2>2. res[q].local # NoSlot => res[q].local # u
    BY <1>3, <2>1 DEF Hand, HandOf
  <2>3. Shaped(q)' /\ Linked(q)' /\ Ends(q)'
    BY <1>2, <1>6, <2>1 DEF Shaped, Linked, Ends, Stopped, Closed
  <2>4. Settled(q)'
    <3>1. res[q].local \in Slots \cup {NoSlot} /\ NoSlot # u
      BY <1>1, <2>1, NumSlotsAssumption DEF Resident
    <3>2. res[q].pc = "serve" => res[q].local \in Slots
      BY <2>1 DEF Working, Pcs
    <3> QED BY <1>2, <1>5, <2>1, <2>2, <3>1, <3>2, NumSlotsAssumption DEF Settled, Pending
  <2>5. Fresh(q)'
    <3>1. q > u <=> q > arrived /\ q # u
      BY <1>0, <1>1 DEF Slots
    <3>2. CASE q = u
      BY <1>0, <1>1, <1>2, <1>5, <3>2 DEF Fresh, Slots
    <3>3. CASE q # u
      BY <1>0, <1>2, <1>5, <1>6, <1>7, <2>1, <3>1, <3>3 DEF Fresh, Stopped
    <3> QED BY <3>2, <3>3
  <2> QED BY <2>3, <2>4, <2>5
<1> QED BY <1>8, <1>9, <1>10, <1>11 DEF OwnInv

\* A stage of shutdown that answers nobody leaves every slot in its place.
LEMMA StageOwned ==
    ASSUME OwnInv, CapInv', UNCHANGED <<tag, arrived, fut, queue, defers, bg>>,
           shutdown' \in {"stopping", "drivers", "tasks", "closed"}, awaited' \subseteq Slots,
           shutdown' = "stopping" => awaited' = {},
           \A q \in Slots : /\ Hand(q)' = Hand(q) /\ res'[q].pc = res[q].pc
                            /\ res'[q].inbox = res[q].inbox
                            /\ res'[q].drained = res[q].drained
                            /\ Shaped(q)' /\ Settled(q)' /\ Linked(q)' /\ Ends(q)'
    PROVE  OwnInv'
<1>1. Gives' = Gives
  BY DEF Gives
<1>2. /\ NoneTwice' /\ \A s \in Slots : Placed(s)'
      /\ \A s \in Slots : Waiting(s)' <=> Waiting(s)
  BY <1>1, SamePlaces
<1>3. ScalarsTyped' /\ DefersCounted'
  BY <1>2 DEF OwnInv, ScalarsTyped, DefersCounted
<1>4. \A s \in Slots : Fresh(s)'
  BY <1>2 DEF OwnInv, Fresh, Stopped
<1> QED BY <1>2, <1>3, <1>4 DEF OwnInv

\* The stop event is set: drivers may end from here on.
LEMMA BeginShutdownOwned ==
    ASSUME OwnInv, CapInv', UNCHANGED tag, BeginShutdown
    PROVE  OwnInv'
<1>1. /\ shutdown = "no" /\ shutdown' = "stopping" /\ awaited' = {}
      /\ UNCHANGED <<arrived, fut, queue, defers, registry, res, bg, awaited, draining>>
  BY DEF BeginShutdown, OwnInv, ScalarsTyped
<1>2. ASSUME NEW q \in Slots
      PROVE  Hand(q)' = Hand(q) /\ Shaped(q)' /\ Settled(q)' /\ Linked(q)' /\ Ends(q)'
  <2>1. Shaped(q) /\ Settled(q) /\ Linked(q) /\ Ends(q)
    BY DriverFacts
  <2>2. /\ Hand(q)' = Hand(q) /\ Live(q)' = Live(q) /\ Blank(q)' = Blank(q)
        /\ Width(q)' = Width(q)
    BY <1>1 DEF Hand, Live, Blank, Width
  <2> QED BY <1>1, <2>1, <2>2 DEF Shaped, Settled, Linked, Ends, Pending, Stopped, Closed
<1> QED BY <1>1, <1>2, StageOwned

\* Every registered driver that still runs is cancelled.
LEMMA CancelDriversOwned ==
    ASSUME OwnInv, CapInv', UNCHANGED tag, CancelDrivers
    PROVE  OwnInv'
<1>1. /\ shutdown = "stopping" /\ shutdown' = "drivers" /\ awaited = {}
      /\ awaited' = {r \in registry : res[r].pc # "done"} /\ awaited' \subseteq Slots
      /\ res' = [r \in Slots |-> IF r \in awaited' THEN [res[r] EXCEPT !.cancel = TRUE]
                                 ELSE res[r]]
      /\ UNCHANGED <<arrived, fut, queue, defers, registry, bg, draining>>
  BY DEF CancelDrivers, LiveDrivers, OwnInv, ScalarsTyped, CapInv, FieldsTyped
<1>2. ASSUME NEW q \in Slots
      PROVE  /\ Hand(q)' = Hand(q) /\ res'[q].pc = res[q].pc
             /\ res'[q].inbox = res[q].inbox /\ res'[q].drained = res[q].drained
             /\ Shaped(q)' /\ Settled(q)' /\ Linked(q)' /\ Ends(q)'
  <2>1. /\ Shaped(q) /\ Settled(q) /\ Linked(q) /\ Ends(q) /\ ~res[q].cancel
        /\ res[q] \in Resident
    BY <1>1, DriverFacts DEF Linked
  <2>2. /\ res'[q].pc = res[q].pc /\ res'[q].local = res[q].local
        /\ res'[q].inbox = res[q].inbox /\ res'[q].active = res[q].active
        /\ res'[q].next = res[q].next /\ res'[q].inflight = res[q].inflight
        /\ res'[q].drained = res[q].drained
    BY <1>1, <2>1 DEF Resident
  <2>3. /\ res'[q].state = res[q].state /\ res'[q].ref = res[q].ref
        /\ res'[q].proc = res[q].proc /\ res'[q].claim = res[q].claim
        /\ res'[q].cancel => q \in awaited'
    BY <1>1, <2>1 DEF Resident
  <2>4. /\ Hand(q)' = Hand(q) /\ Live(q)' = Live(q) /\ Blank(q)' = Blank(q)
        /\ Width(q)' = Width(q)
    BY <2>2 DEF Hand, HandOf, Live, Blank, Width
  <2>5. q \in awaited' => q \in registry /\ Live(q)
    BY <1>1, <2>1 DEF Linked, Live
  <2>6. Shaped(q)' /\ Settled(q)'
    BY <1>1, <2>1, <2>2, <2>3, <2>4, <2>5 DEF Shaped, Settled, Pending
  <2>7. Linked(q)' /\ Ends(q)'
    BY <1>1, <2>1, <2>2, <2>3, <2>4, <2>5 DEF Linked, Ends, Stopped, Closed
  <2> QED BY <2>2, <2>4, <2>6, <2>7
<1> QED BY <1>1, <1>2, StageOwned

\* The awaited drivers ended; the detached tasks of this moment are waited for.
LEMMA DrainTasksOwned ==
    ASSUME OwnInv, CapInv', UNCHANGED tag, DrainTasks
    PROVE  OwnInv'
<1>1. /\ shutdown = "drivers" /\ shutdown' = "tasks" /\ draining' = bg
      /\ \A r \in awaited : res[r].pc = "done"
      /\ UNCHANGED <<arrived, fut, queue, defers, registry, res, bg, awaited>>
      /\ awaited \subseteq Slots
  BY DEF DrainTasks, OwnInv, ScalarsTyped
<1>2. ASSUME NEW q \in Slots
      PROVE  Hand(q)' = Hand(q) /\ Shaped(q)' /\ Settled(q)' /\ Linked(q)' /\ Ends(q)'
  <2>1. Shaped(q) /\ Settled(q) /\ Linked(q) /\ Ends(q)
    BY DriverFacts
  <2>2. /\ Hand(q)' = Hand(q) /\ Live(q)' = Live(q) /\ Blank(q)' = Blank(q)
        /\ Width(q)' = Width(q)
    BY <1>1 DEF Hand, Live, Blank, Width
  <2> QED BY <1>1, <2>1, <2>2 DEF Shaped, Settled, Linked, Ends, Pending, Stopped, Closed
<1> QED BY <1>1, <1>2, StageOwned

\* The queue is closed and what it still held is answered. No sidecar is up: one
\* that was had a registered driver, which was awaited, or a teardown, which was too.
LEMMA CloseQueueOwned ==
    ASSUME OwnInv, CapInv', UNCHANGED tag, CloseQueue
    PROVE  OwnInv'
<1>1. /\ shutdown = "tasks" /\ shutdown' = "closed" /\ draining \cap bg = {}
      /\ fut' = Settle(ToSet(queue)) /\ queue' = <<>>
      /\ UNCHANGED <<arrived, defers, registry, res, bg, awaited, draining>>
      /\ ScalarsTyped /\ awaited' \subseteq Slots
  BY DEF CloseQueue, OwnInv, ScalarsTyped
<1>2. Regroups({}, {}, ToSet(queue))
  <2>1. Gives' = (Gives \ {}) \cup {} /\ TaskSlots({}) = {} /\ NoRepeat(<<>>)
    BY <1>1 DEF Gives, TaskSlots, NoRepeat
  <2> QED BY <1>1, <2>1, ToSetEmpty DEF Regroups
<1>3. /\ NoneTwice' /\ \A s \in Slots : Placed(s)'
      /\ \A s \in Slots : Waiting(s)' => Waiting(s)
  <2>1. \A q \in Slots : /\ res'[q].inbox = res[q].inbox
                         /\ res'[q].drained = res[q].drained /\ Hand(q)' = Hand(q)
    BY <1>1 DEF Hand
  <2> QED BY <1>2, <2>1, QueueMove
<1>4. /\ fut' \in [Slots -> {"none", "pending", "answered"}]
      /\ \A s \in Slots : /\ Pending(s)' => Pending(s)
                          /\ fut'[s] = "none" <=> fut[s] = "none"
  BY <1>1 DEF Settle, ScalarsTyped, Pending
<1>5. ScalarsTyped' /\ DefersCounted' /\ \A s \in Slots : Fresh(s)'
  BY <1>1, <1>3, <1>4 DEF OwnInv, ScalarsTyped, DefersCounted, Fresh, Stopped
<1>6. ASSUME NEW q \in Slots
      PROVE  Shaped(q)' /\ Settled(q)' /\ Linked(q)' /\ Ends(q)'
  <2>1. /\ Shaped(q) /\ Settled(q) /\ Linked(q) /\ Ends(q) /\ res[q] \in Resident
        /\ (res[q].pc \in Working => res[q].local \in Slots)
    BY DriverFacts
  <2>2. /\ Live(q)' = Live(q) /\ Blank(q)' = Blank(q) /\ Hand(q)' = Hand(q)
        /\ Width(q)' = Width(q)
    BY <1>1 DEF Live, Blank, Hand, Width
  <2>3. Shaped(q)' /\ Linked(q)'
    BY <1>1, <2>1, <2>2 DEF Shaped, Linked, Stopped
  <2>4. Settled(q)'
    <3>1. /\ res[q].pc = "serve" => res[q].local \in Slots
          /\ res[q].local # NoSlot => res[q].local \in Slots
      BY <2>1 DEF Working, Pcs, Resident
    <3> QED BY <1>1, <1>4, <2>1, <3>1 DEF Settled
  <2>5. res[q].proc # "up"
    <3>1. SUFFICES ASSUME res[q].proc = "up" PROVE FALSE
      OBVIOUS
    <3>2. Live(q) /\ q \notin registry
      BY <1>1, <2>1, <3>1 DEF Shaped, Ends, Live
    <3>3. EvictTask(q) \in bg /\ EvictTask(q) \in draining
      BY <1>1, <2>1, <3>1, <3>2 DEF Linked, Ends
    <3> QED BY <1>1, <3>3
  <2>6. Ends(q)'
    BY <1>1, <2>1, <2>5 DEF Ends, Closed
  <2> QED BY <2>3, <2>4, <2>6
<1> QED BY <1>3, <1>5, <1>6 DEF OwnInv

-----------------------------------------------------------------------------
(* The invariant holds initially and every step keeps it.                   *)

\* Initially every slot is yet to arrive.
LEMMA OwnInit == Init => OwnInv
<1> SUFFICES ASSUME Init PROVE OwnInv
  OBVIOUS
<1>1. /\ CapInv /\ arrived = 0 /\ queue = <<>> /\ registry = {} /\ bg = {}
      /\ fut = [s \in Slots |-> "none"] /\ defers = [s \in Slots |-> 0]
      /\ \A r \in Slots : res[r] = NoResident
      /\ shutdown = "no" /\ awaited = {} /\ draining = {}
  BY CapInit DEF Init
<1>2. NoRepeat(<<>>) /\ ToSet(<<>>) = {}
  BY ToSetEmpty DEF NoRepeat
<1>3. \A r \in Slots : /\ res[r].pc = "none" /\ res[r].inbox = <<>> /\ res[r].drained = <<>>
                       /\ res[r].next = NoSlot /\ res[r].local = NoSlot
                       /\ res[r].active = NoSlot /\ res[r].inflight = {}
  BY <1>1 DEF NoResident
<1>4. \A r \in Slots : /\ res[r].proc = "none" /\ res[r].claim = "none"
                       /\ ~res[r].cancel /\ res[r].state = "DEAD"
  BY <1>1 DEF NoResident
<1>5. \A r \in Slots : Wait(r) = {} /\ Hand(r) = {}
  BY <1>2, <1>3 DEF Wait, WaitOf, Hand, HandOf
<1>6. Gives = {} /\ \A s \in Slots : ~Waiting(s) /\ ~Pending(s)
  BY <1>1, <1>2, <1>5 DEF Gives, Waiting, TaskSlots, Pending
<1>7. ScalarsTyped /\ DefersCounted /\ NoneTwice
  BY <1>1, <1>2, <1>3, <1>6, DefersAssumption DEF ScalarsTyped, DefersCounted, NoneTwice
<1>8. ASSUME NEW s \in Slots
      PROVE  /\ Shaped(s) /\ Settled(s) /\ Linked(s) /\ Ends(s)
             /\ Fresh(s) /\ Placed(s)
  <2>1. Shaped(s) /\ Settled(s)
    BY <1>3, <1>4, <1>5 DEF Shaped, Settled, Blank, Live
  <2>2. Linked(s) /\ Ends(s)
    BY <1>1, <1>3, <1>4 DEF Linked, Ends, Live, Closed
  <2>3. Fresh(s)
    BY <1>1, <1>3, <1>6, NumSlotsAssumption DEF Fresh, Slots
  <2>4. Placed(s)
    BY <1>1, <1>2, <1>5, <1>6 DEF Placed
  <2> QED BY <2>1, <2>2, <2>3, <2>4
<1> QED BY <1>1, <1>7, <1>8 DEF OwnInv

\* A step of a driver.
LEMMA DriverStepOwned ==
    ASSUME OwnInv, CapInv', UNCHANGED tag, NEW r \in Slots, DriverStep(r)
    PROVE  OwnInv'
BY DriverStartOwned, LoadOutOwned, SpawnOwned, HealthOkOwned, HealthFailsOwned,
   StartServingOwned, ServeEndsOwned, ServeRaisesOwned, GraceMatchOwned, MatchEndsOwned,
   GraceEndsOwned, FetchOwned, ResumeOwned, IdleOwned, CancelOwned, FinallyOwned DEF DriverStep

\* The inductive step: one lemma per action.
LEMMA OwnStep == OwnInv /\ [Next]_vars => OwnInv'
<1> SUFFICES ASSUME OwnInv, [Next]_vars PROVE OwnInv'
  OBVIOUS
<1>1. CapInv'
  BY CapStep DEF OwnInv
<1>2. CASE UNCHANGED vars
  <2>1. UNCHANGED <<tag, arrived, fut, queue, defers, registry, res, bg, ending>>
    BY <1>2 DEF vars
  <2>2. UNCHANGED <<shutdown, awaited, draining>>
    BY <2>1 DEF ending
  <2>3. Gives' = Gives /\ \A q \in Slots : Hand(q)' = Hand(q)
    BY <2>1 DEF Gives, Hand
  <2>4. /\ NoneTwice' /\ \A s \in Slots : Placed(s)'
        /\ \A s \in Slots : Waiting(s)' <=> Waiting(s)
    BY <2>1, <2>3, SamePlaces
  <2>5. ScalarsTyped' /\ DefersCounted' /\ \A s \in Slots : Fresh(s)'
    BY <2>1, <2>2, <2>4 DEF OwnInv, ScalarsTyped, DefersCounted, Fresh, Stopped
  <2>6. \A q \in Slots : Shaped(q)' /\ Settled(q)' /\ Linked(q)' /\ Ends(q)'
    BY <2>1, Unmoved DEF Pending
  <2> QED BY <1>1, <2>4, <2>5, <2>6 DEF OwnInv
<1>3. CASE Next
  <2>1. UNCHANGED tag /\ (Submit \/ BeginShutdown \/ LoopStep)
    BY <1>3 DEF Next
  <2>2. CASE Submit \/ BeginShutdown \/ ShutdownStep
    BY <1>1, <2>1, <2>2, SubmitOwned, BeginShutdownOwned, CancelDriversOwned,
       DrainTasksOwned, CloseQueueOwned DEF ShutdownStep
  <2>3. CASE BgStep
    BY <1>1, <2>1, <2>3, RequeueOwned, ReapOwned, TeardownOwned DEF BgStep
  <2>4. ASSUME NEW s \in Slots, Dispatch(s) PROVE OwnInv'
    BY <1>1, <2>1, <2>4, PutOffOwned, RouteHitOwned, ReserveOwned DEF Dispatch
  <2>5. ASSUME NEW r \in Slots, DriverStep(r) PROVE OwnInv'
    BY <1>1, <2>1, <2>5, DriverStepOwned
  <2> QED BY <2>1, <2>2, <2>3, <2>4, <2>5 DEF LoopStep
<1> QED BY <1>2, <1>3

\* What the theorems below rest on.
LEMMA OwnHeld == Spec => []OwnInv
<1>1. OwnInv /\ [Next]_vars => OwnInv'
  BY OwnStep
<1> QED BY <1>1, OwnInit, PTL DEF Spec

-----------------------------------------------------------------------------
(* What follows.                                                            *)

\* Whoever answers for a waiting slot has it waiting or in hand; with an inline
\* wait_for whoever has it answers for it.
LEMMA AnswersFacts ==
    ASSUME OwnInv, NEW s \in Slots, Pending(s), NEW r \in Slots
    PROVE  /\ s \in Answers(r) => s \in Wait(r) \cup Hand(r)
           /\ InlineWaitFor /\ s \in Wait(r) \cup Hand(r) => s \in Answers(r)
<1> DEFINE x == res[r]
<1>1. Shaped(r) /\ Settled(r) /\ Linked(r) /\ s # NoSlot
  BY DriverFacts
<1>2. CASE x.pc \notin {"none", "done"}
  BY <1>1, <1>2 DEF Answers, Wait, WaitOf, Hand, HandOf
<1>3. CASE x.pc \in {"none", "done"} /\ Blank(r)
  <2>1. s \notin Wait(r) \cup Hand(r)
    BY <1>3, ToSetEmpty DEF Blank, Wait, WaitOf
  <2>2. s \notin Answers(r)
    BY <1>1, <1>3, ToSetEmpty DEF Answers, Blank, Hand, HandOf
  <2> QED BY <2>1, <2>2
<1>4. CASE x.pc = "done" /\ ReapTask(r) \in bg
  <2>1. x.drained = <<>> /\ x.next = NoSlot /\ (InlineWaitFor => s # x.local)
    BY <1>1, <1>4 DEF Shaped, Settled
  <2> QED BY <1>1, <1>4, <2>1, ToSetEmpty
          DEF Answers, Wait, WaitOf, Hand, HandOf, ReapTask
<1> QED BY <1>1, <1>2, <1>3, <1>4 DEF Shaped, Linked

\* A pending slot has at most one owner: no second place of any kind has it. With an
\* inline wait_for it has one.
LEMMA OwnedOnce ==
    ASSUME OwnInv, NEW s \in Slots, Pending(s)
    PROVE  /\ Owners(s) = {} \/ \E o : Owners(s) = {o}
           /\ InlineWaitFor => Owners(s) # {}
<1> DEFINE Positions == {i \in DOMAIN queue : queue[i] = s}
           Tasks == {t \in bg : t.do \in {"defer", "requeue"} /\ s \in ToSet(t.slots)}
           Holders == {r \in Slots : s \in Answers(r)}
<1>2. Owners(s) = {<<"queue", i>> : i \in Positions}
                  \cup {<<"task", t>> : t \in Tasks} \cup {<<"resident", r>> : r \in Holders}
  BY DEF Owners
<1>3. Tasks = {t \in Gives : s \in ToSet(t.slots)}
  BY DEF Gives
<1>4. /\ \A r \in Holders : r \in Slots /\ s \in Wait(r) \cup Hand(r)
      /\ InlineWaitFor => Holders = {r \in Slots : s \in Wait(r) \cup Hand(r)}
  BY AnswersFacts
<1>5. /\ Positions # {} <=> s \in ToSet(queue)
      /\ \A i, j \in Positions : i = j
  BY DEF ToSet, NoRepeat, OwnInv, NoneTwice
<1>6. Placed(s) /\ (InlineWaitFor => Waiting(s) \/ \E r \in Slots : s \in Hand(r))
  BY DEF OwnInv, Placed
<1> HIDE DEF Positions, Tasks, Holders
<1>7. CASE Positions # {}
  <2>1. Tasks = {} /\ Holders = {}
    BY <1>3, <1>4, <1>5, <1>6, <1>7 DEF Placed
  <2>2. PICK i \in Positions : Positions = {i}
    BY <1>5, <1>7
  <2>3. Owners(s) = {<<"queue", i>>}
    BY <1>2, <2>1, <2>2
  <2> QED BY <2>3
<1>8. CASE Tasks # {}
  <2>1. Positions = {} /\ Holders = {}
    BY <1>3, <1>4, <1>5, <1>6, <1>8 DEF Placed
  <2>2. PICK t \in Tasks : Tasks = {t}
    BY <1>3, <1>6, <1>8 DEF Placed
  <2>3. Owners(s) = {<<"task", t>>}
    BY <1>2, <2>1, <2>2
  <2> QED BY <2>3
<1>9. CASE Holders # {}
  <2>1. Positions = {} /\ Tasks = {}
    BY <1>3, <1>4, <1>5, <1>6, <1>9 DEF Placed
  <2>2. \A r, q \in Holders : r = q
    BY <1>4, <1>6 DEF Placed
  <2>3. PICK r \in Holders : Holders = {r}
    BY <1>9, <2>2
  <2>4. Owners(s) = {<<"resident", r>>}
    BY <1>2, <2>1, <2>3
  <2> QED BY <2>4
<1>10. InlineWaitFor => Positions # {} \/ Tasks # {} \/ Holders # {}
  BY <1>3, <1>4, <1>5, <1>6 DEF Waiting, TaskSlots
<1>11. CASE Positions = {} /\ Tasks = {} /\ Holders = {}
  BY <1>2, <1>10, <1>11
<1> QED BY <1>7, <1>8, <1>9, <1>11

\* Whatever drivers die, residents are evicted, slots deferred or requeued and
\* however far shutdown got, a request whose caller still waits is in the hands of
\* exactly one queue, task or resident, if wait_for awaits inline.
THEOREM OneOwnerHeld == InlineWaitFor => (Spec => []OneOwner)
<1> SUFFICES ASSUME InlineWaitFor PROVE Spec => []OneOwner
  OBVIOUS
<1>1. OwnInv => OneOwner
  <2> SUFFICES ASSUME OwnInv, NEW s \in Slots, Pending(s) PROVE Cardinality(Owners(s)) = 1
    BY DEF OneOwner, Pending
  <2>1. PICK o : Owners(s) = {o}
    BY OwnedOnce
  <2> QED BY <2>1, FS_Singleton
<1> QED BY <1>1, OwnHeld, PTL

\* Under either wait_for no two of them ever have the same waiting request: it may be
\* lost in wait_for's inner task, but it is never served twice.
THEOREM NeverTwoOwners ==
    Spec => [](\A s \in Slots : fut[s] = "pending" => Cardinality(Owners(s)) <= 1)
<1>1. OwnInv => \A s \in Slots : fut[s] = "pending" => Cardinality(Owners(s)) <= 1
  <2> SUFFICES ASSUME OwnInv, NEW s \in Slots, Pending(s) PROVE Cardinality(Owners(s)) <= 1
    BY DEF Pending
  <2>1. CASE Owners(s) = {}
    BY <2>1, FS_EmptySet
  <2>2. CASE \E o : Owners(s) = {o}
    <3>1. PICK o : Owners(s) = {o}
      BY <2>2
    <3>2. Cardinality({o}) = 1
      BY FS_Singleton
    <3> QED BY <3>1, <3>2
  <2> QED BY <2>1, <2>2, OwnedOnce
<1> QED BY <1>1, OwnHeld, PTL

\* A sidecar process that is up is named by its resident, and a driver that has not
\* ended is there to reap it.
THEOREM NoOrphan == Spec => []NoOrphanProcess
<1>1. OwnInv => NoOrphanProcess
  BY DEF OwnInv, NoOrphanProcess, Shaped, Live
<1> QED BY <1>1, OwnHeld, PTL

\* When shutdown returns no sidecar that was ever spawned is left running.
THEOREM ShutdownStops == Spec => []ShutdownStopsSidecars
<1>1. OwnInv => ShutdownStopsSidecars
  BY DEF OwnInv, ShutdownStopsSidecars, Ends
<1> QED BY <1>1, OwnHeld, PTL

\* The manager's fields keep their types; no slot is deferred more than MaxDefers + 1
\* times, since the dispatcher answers one that exhausted its deferrals.
THEOREM DispatcherTyped == Spec => []TypeOK
<1>1. OwnInv => TypeOK
  BY DEF OwnInv, CapInv, FieldsTyped, TaskTyped, Resident, ScalarsTyped, DefersCounted, TypeOK
<1> QED BY <1>1, OwnHeld, PTL

\* A driver deregisters its resident only on its way into the finally.
LEMMA LeaveRegistry ==
    ASSUME OwnInv, NEW r \in Slots, NEW x, "pc" \in DOMAIN x, NEW tasks, Leave(r, x, tasks)
    PROVE  registry' = registry \/ (registry' = registry \ {r} /\ res'[r].pc = "finally")
<1>1. CASE x.claim # "none"
  BY <1>1 DEF Leave
<1>2. CASE x.claim = "none"
  <2> DEFINE y == [x EXCEPT !.pc = "finally", !.claim = "driver",
                            !.drained = x.inbox, !.inbox = <<>>,
                            !.state = IF r \in registry THEN "DEAD" ELSE @, !.ref = "none",
                            !.proc = IF x.ref = "none" THEN @ ELSE "dying"]
  <2>1. y.pc = "finally"
    OBVIOUS
  <2>2. res' = [res EXCEPT ![r] = y] /\ registry' = registry \ {r}
    BY <1>2 DEF Leave, Update
  <2> HIDE DEF y
  <2> QED BY <2>1, <2>2, DriverFacts
<1> QED BY <1>1, <1>2

\* So it does from the top of the serve loop.
LEMMA ServeNextRegistry ==
    ASSUME OwnInv, NEW r \in Slots, NEW x, "pc" \in DOMAIN x, NEW s, NEW q,
           ServeNext(r, x, s, q)
    PROVE  registry' = registry \/ (registry' = registry \ {r} /\ res'[r].pc = "finally")
<1> DEFINE y == [x EXCEPT !.local = s, !.next = NoSlot, !.inbox = q]
<1>1. "pc" \in DOMAIN y
  OBVIOUS
<1>2. Leave(r, y, {}) \/ UNCHANGED registry
  BY DEF ServeNext, NoRegistryChange
<1> HIDE DEF y
<1> QED BY <1>1, <1>2, LeaveRegistry

\* And from wherever it is.
LEMMA DriverRegistry ==
    ASSUME OwnInv, NEW r \in Slots, DriverStep(r)
    PROVE  registry' = registry \/ (registry' = registry \ {r} /\ res'[r].pc = "finally")
<1> DEFINE x == res[r]
           Goal == registry' = registry \/ (registry' = registry \ {r} /\ res'[r].pc = "finally")
<1>0. x \in Resident /\ "pc" \in DOMAIN x
  BY DriverFacts DEF Resident
<1>1. CASE \/ DriverStart(r) \/ Spawn(r) \/ HealthFails(r) \/ StartServing(r)
           \/ (\E s \in Slots : ServeEnds(r, s)) \/ GraceMatch(r) \/ MatchEnds(r)
           \/ FinallyEnds(r)
  BY <1>1 DEF DriverStart, Spawn, HealthFails, StartServing, ServeEnds, GraceMatch,
              MatchEnds, FinallyEnds, NoRegistryChange
<1>2. CASE \/ SpawnRefused(r) \/ LoadRaises(r) \/ UnhealthyReaped(r) \/ ServeRaises(r)
           \/ CancelDelivered(r)
  <2>1. ASSUME NEW y, "pc" \in DOMAIN y, NEW tasks, Leave(r, y, tasks) PROVE Goal
    BY <2>1, LeaveRegistry
  <2> HIDE DEF Goal
  <2>2. CASE SpawnRefused(r) \/ LoadRaises(r)
    BY <1>0, <2>1, <2>2 DEF SpawnRefused, LoadRaises, Goal
  <2>3. CASE UnhealthyReaped(r)
    <3>1. "pc" \in DOMAIN [x EXCEPT !.proc = "dead"]
      BY <1>0
    <3> QED BY <2>1, <2>3, <3>1 DEF UnhealthyReaped, Goal
  <2>4. CASE ServeRaises(r)
    <3>1. "pc" \in DOMAIN [x EXCEPT !.inflight = {}]
      BY <1>0
    <3> QED BY <2>1, <2>4, <3>1 DEF ServeRaises, Goal
  <2>5. CASE CancelDelivered(r)
    <3> DEFINE z == [x EXCEPT !.cancel = FALSE]
               y == [z EXCEPT !.inflight = {},
                              !.proc = IF z.pc = "unhealthy" THEN "termed" ELSE @]
    <3>1. "pc" \in DOMAIN y
      BY <1>0
    <3>2. UNCHANGED registry \/ Leave(r, y, {})
      BY <2>5 DEF CancelDelivered
    <3> HIDE DEF y
    <3> QED BY <2>1, <3>1, <3>2 DEF Goal
  <2> QED BY <1>2, <2>2, <2>3, <2>4, <2>5
<1>3. CASE HealthOk(r)
  <2>1. "pc" \in DOMAIN [x EXCEPT !.ref = "handle", !.state = "ACTIVE"]
    BY <1>0
  <2> QED BY <1>3, <2>1, ServeNextRegistry DEF HealthOk
<1>4. CASE GraceEnds(r)
  <2> DEFINE w == [x EXCEPT !.active = NoSlot]
             e == Evicted(w)
             y == [w EXCEPT !.state = "IDLE_EVICTABLE", !.pc = "idle"]
  <2>1. "pc" \in DOMAIN e /\ "pc" \in DOMAIN y
    BY <1>0 DEF Evicted
  <2>2. \/ Leave(r, x, {}) \/ Leave(r, e, EvictTasks(r))
        \/ ServeNext(r, y, Head(w.inbox), Tail(w.inbox)) \/ UNCHANGED registry
    BY <1>4 DEF GraceEnds, NoRegistryChange
  <2> HIDE DEF e, y
  <2> QED BY <1>0, <2>1, <2>2, LeaveRegistry, ServeNextRegistry
<1>5. CASE IdleTakes(r) \/ Resume(r) \/ IdleExpires(r)
  <2> DEFINE e == Evicted(x)
             y == [x EXCEPT !.cancel = FALSE]
  <2>1. "pc" \in DOMAIN e /\ "pc" \in DOMAIN y
    BY <1>0 DEF Evicted
  <2>2. \/ Leave(r, e, EvictTasks(r)) \/ UNCHANGED registry
        \/ \E s, q : ServeNext(r, x, s, q) \/ ServeNext(r, y, s, q)
    BY <1>5 DEF IdleTakes, Resume, IdleExpires, NoRegistryChange
  <2> HIDE DEF e, y
  <2> QED BY <1>0, <2>1, <2>2, LeaveRegistry, ServeNextRegistry
<1> QED BY <1>1, <1>2, <1>3, <1>4, <1>5 DEF DriverStep

\* The dispatcher takes away only a resident whose driver waits for work and, with an
\* inline wait_for, has none; every other resident leaves the registry by its own driver's end.
LEMMA EvictionStep ==
    ASSUME OwnInv, [Next]_vars, NEW r \in registry \ registry',
           res'[r].pc = res[r].pc, res[r].pc # "done"
    PROVE  /\ res[r].pc \in {"idle", "fetched"}
           /\ InlineWaitFor => res[r].pc = "idle" /\ res[r].inbox = <<>>
<1>1. r \in Slots /\ r \in registry /\ r \notin registry' /\ res[r].pc # "finally"
  <2>1. r \in Slots
    BY DEF OwnInv, CapInv, FieldsTyped
  <2> QED BY <2>1, DriverFacts DEF Linked
<1>2. \/ \E s \in Slots : Dispatch(s) \/ DriverStep(s)
      \/ \E t \in bg : ReapDead(t)
  BY <1>1 DEF Next, vars, Submit, BeginShutdown, LoopStep, ShutdownStep, CancelDrivers,
              DrainTasks, CloseQueue, BgStep, Requeue, TeardownClaims, TeardownEnds
<1>3. ASSUME NEW i \in DOMAIN queue, Reserve(i)
      PROVE  r \in Evictable
  <2>1. PICK victims \in IF HasRoom THEN {{}} ELSE {{v} : v \in Evictable} :
          registry \ victims \subseteq registry'
    BY <1>3 DEF Reserve
  <2> QED BY <1>1, <2>1
<1>4. CASE \E s \in Slots : Dispatch(s)
  <2>1. \E i \in DOMAIN queue : Reserve(i)
    BY <1>1, <1>4 DEF Dispatch, DispatchEvicted, RouteHit, Defer
  <2> QED BY <1>3, <2>1, EvictableFacts
<1>5. CASE \E s \in Slots : DriverStep(s)
  <2>1. PICK s \in Slots : DriverStep(s)
    BY <1>5
  <2> QED BY <1>1, <2>1, DriverRegistry
<1>6. CASE \E t \in bg : ReapDead(t)
  <2>1. PICK t \in bg : ReapDead(t)
    BY <1>6
  <2>2. /\ t.of \in Slots /\ registry' = registry \ {t.of}
        /\ res' = [res EXCEPT ![t.of] =
                     [NoResident EXCEPT !.pc = "done", !.ref = res[t.of].ref,
                        !.proc = res[t.of].proc, !.claim = res[t.of].claim]]
    BY <2>1 DEF ReapDead, Update, OwnInv, CapInv, FieldsTyped, TaskTyped
  <2>3. r = t.of
    BY <1>1, <2>2
  <2> QED BY <1>1, <2>2, <2>3, DriverFacts DEF NoResident
<1> QED BY <1>2, <1>4, <1>5, <1>6

\* An eviction spares the busy, if wait_for awaits inline: otherwise the inner task may
\* have taken a slot that the dispatcher does not see.
THEOREM EvictionSparesTheBusy == InlineWaitFor => (Spec => EvictionSparesBusy)
<1> SUFFICES ASSUME InlineWaitFor PROVE Spec => EvictionSparesBusy
  OBVIOUS
<1>1. OwnInv /\ [Next]_vars =>
        [\A r \in registry \ registry' :
            res'[r].pc = res[r].pc /\ res[r].pc # "done"
                => res[r].pc = "idle" /\ res[r].inbox = <<>>]_vars
  BY EvictionStep
<1> QED BY <1>1, OwnHeld, PTL DEF Spec, EvictionSparesBusy
=============================================================================
