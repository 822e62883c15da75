-------------------------- MODULE Dispatcher_proofs --------------------------
(***************************************************************************)
(* Proof about the dispatcher, for every number of requests, all mixes of   *)
(* models and widths, every cap and with or without shutdown: there are     *)
(* never more residents than max_parallel_sidecars, never two of one model, *)
(* and no sidecar is given more slots at once than its --parallel.          *)
(*                                                                          *)
(* The count of the registry is easy: only Reserve adds to it.  What a      *)
(* sidecar has in flight is the anchor and riders taken from the front of   *)
(* the inbox, so the invariant must say that every inbox holds slots, also  *)
(* after what was drained went back to the queue through detached tasks,    *)
(* and that a driver that has not run yet still finds its first slot there. *)
(***************************************************************************)
EXTENDS Dispatcher, SequenceLemmas, FiniteSetTheorems

\* The record of a resident, as in TypeOK.
Resident ==
    [pc : Pcs, inbox : Seq(Slots), drained : Seq(Slots),
     state : {"RESERVED_LOADING", "ACTIVE", "IDLE_EVICTABLE", "DEAD"},
     active : Slots \cup {NoSlot}, local : Slots \cup {NoSlot},
     next : Slots \cup {NoSlot}, inflight : SUBSET Slots,
     ref : {"none", "booting", "handle"},
     proc : {"none", "up", "dying", "termed", "dead"},
     claim : {"none", "driver", "task"}, cancel : BOOLEAN]

\* Where a driver has a slot in hand.
Working == Pcs \ {"none", "start", "finally", "done"}

TaskTyped(t) == \/ t.do \in {"defer", "requeue"} /\ t.slots \in Seq(Slots)
                \/ /\ t.do \in {"evict", "reap"} /\ t.of \in Slots
                   /\ t = ResidentTask(t.do, t.of)

FieldsTyped ==
    /\ tag \in Mixes /\ arrived \in 0 .. NumSlots
    /\ queue \in Seq(Slots) /\ registry \subseteq Slots
    /\ res \in [Slots -> Resident]
    /\ \A t \in bg : TaskTyped(t)

\* A resident x of r is within its width, and has its first slot if it starts.
\* A slot that wait_for's inner task has taken is there as long as it waits.
Sound(r, x) ==
    /\ x \in Resident
    /\ Cardinality(x.inflight) <= Width(r)
    /\ x.pc \in Working => x.local \in Slots
    /\ x.pc = "fetched" => x.next \in Slots
    /\ x.pc = "start" => x.inbox # <<>> /\ x.state = "RESERVED_LOADING"

\* The first two conjuncts of CapacityKept.
RegistryBounded ==
    /\ Cardinality(registry) <= Cap
    /\ \A r, q \in registry : tag[r] = tag[q] => r = q

CapInv == /\ FieldsTyped /\ RegistryBounded
          /\ \A r \in Slots : Sound(r, res[r])

-----------------------------------------------------------------------------

\* Sets of slots are finite, and --parallel is positive.
LEMMA SlotSets == \A S \in SUBSET Slots : IsFiniteSet(S) /\ Cardinality(S) \in Nat
<1> SUFFICES ASSUME NEW S \in SUBSET Slots PROVE IsFiniteSet(S) /\ Cardinality(S) \in Nat
  OBVIOUS
<1>1. IsFiniteSet(Slots)
  BY NumSlotsAssumption, FS_Interval DEF Slots
<1> QED BY <1>1, FS_Subset, FS_CardinalityType

\* The width a resident may fill is that of its slot's model.
LEMMA Widths == tag \in Mixes => \A r \in Slots : Width(r) \in Nat \ {0}
BY ParallelAssumption DEF Width

\* The places a driver goes to; the updates below need no more of Pcs.
LEMMA PcNames ==
    /\ "none" \in Pcs /\ "start" \in Pcs /\ "gate" \in Pcs /\ "health" \in Pcs
    /\ "unhealthy" \in Pcs /\ "audit" \in Pcs /\ "serve" \in Pcs /\ "grace" \in Pcs
    /\ "match" \in Pcs /\ "idle" \in Pcs /\ "fetched" \in Pcs /\ "finally" \in Pcs
    /\ "done" \in Pcs
BY DEF Pcs

\* A prefix of k slots has at most k members.
LEMMA PrefixSize ==
    ASSUME NEW q \in Seq(Slots), NEW k \in 0 .. Len(q)
    PROVE  /\ ToSet(SubSeq(q, 1, k)) \in SUBSET Slots
           /\ Cardinality(ToSet(SubSeq(q, 1, k))) <= k
<1>1. Len(q) \in Nat
  BY LenProperties
<1>2. /\ SubSeq(q, 1, k) \in Seq(Slots)
      /\ ToSet(SubSeq(q, 1, k)) = {q[j] : j \in 1 .. k}
  BY <1>1, SliceLemma
<1>3. ToSet(SubSeq(q, 1, k)) \in SUBSET Slots
  BY <1>2, ToSetSubset
<1>4. IsFiniteSet(1 .. k) /\ Cardinality(1 .. k) = k
  BY <1>1, FS_Interval
<1> DEFINE T == {q[j] : j \in 1 .. k}
           f == [j \in 1 .. k |-> q[j]]
<1>5. f \in Surjection(1 .. k, T)
  BY DEF Surjection
<1>6. Cardinality(T) <= k
  BY <1>4, <1>5, FS_Surjection
<1> QED BY <1>2, <1>3, <1>6

\* How many slots of the inbox fill a sidecar up, and that they fit.
Riders(r, busy) == IF Width(r) = 1 THEN 0
                   ELSE Min({Width(r) - Cardinality(busy), Len(res[r].inbox)})

LEMMA RidersFit ==
    ASSUME CapInv, NEW r \in Slots, NEW busy \in SUBSET Slots,
           Cardinality(busy) <= Width(r)
    PROVE  /\ Riders(r, busy) \in 0 .. Len(res[r].inbox)
           /\ Cardinality(busy) + Riders(r, busy) <= Width(r)
<1> DEFINE q == res[r].inbox
           m == Width(r) - Cardinality(busy)
<1>1. /\ res[r] \in Resident /\ q \in Seq(Slots) /\ Len(q) \in Nat
      /\ Width(r) \in Nat \ {0} /\ Cardinality(busy) \in Nat
  BY Widths, SlotSets, LenProperties DEF CapInv, FieldsTyped, Resident
<1>2. m \in Nat
  BY <1>1
<1>3. Min({m, Len(q)}) = IF m <= Len(q) THEN m ELSE Len(q)
  <2> HIDE DEF m, q
  <2> DEFINE k == IF m <= Len(q) THEN m ELSE Len(q)
  <2>1. k \in {m, Len(q)} /\ \A y \in {m, Len(q)} : k <= y
    BY <1>1, <1>2
  <2>2. \A z \in {m, Len(q)} : (\A y \in {m, Len(q)} : z <= y) => z = k
    BY <1>1, <1>2
  <2> QED BY <2>1, <2>2 DEF Min
<1> QED BY <1>1, <1>2, <1>3 DEF Riders

\* Filling up keeps a sidecar within its width, whatever the inbox holds.
LEMMA LaunchSound ==
    ASSUME CapInv, NEW r \in Slots, NEW busy \in SUBSET Slots,
           Cardinality(busy) <= Width(r), res[r].local \in Slots
    PROVE  Sound(r, Launch(r, busy))
<1> DEFINE q == res[r].inbox
           riders == Riders(r, busy)
           flying == busy \cup ToSet(SubSeq(q, 1, riders))
           x == Launch(r, busy)
<1>1. /\ res[r] \in Resident /\ q \in Seq(Slots) /\ Len(q) \in Nat
      /\ Width(r) \in Nat \ {0} /\ Cardinality(busy) \in Nat
  BY Widths, SlotSets, LenProperties DEF CapInv, FieldsTyped, Resident
<1>2. riders \in 0 .. Len(q) /\ Cardinality(busy) + riders <= Width(r)
  BY RidersFit
<1>6. x = [res[r] EXCEPT !.inflight = flying,
                         !.pc = IF flying = {} THEN "grace" ELSE "serve",
                         !.inbox = SubSeq(q, riders + 1, Len(q))]
  BY DEF Launch, Riders
<1> HIDE DEF riders
<1>3. /\ ToSet(SubSeq(q, 1, riders)) \in SUBSET Slots
      /\ Cardinality(ToSet(SubSeq(q, 1, riders))) <= riders
  BY <1>1, <1>2, PrefixSize
<1>4. flying \in SUBSET Slots /\ Cardinality(flying) <= Width(r)
  <2> DEFINE T == ToSet(SubSeq(q, 1, riders))
  <2> HIDE DEF T
  <2>1. /\ IsFiniteSet(busy) /\ IsFiniteSet(T) /\ T \in SUBSET Slots
        /\ Cardinality(T) \in Nat /\ Cardinality(T) <= riders
        /\ Cardinality(busy \cap T) \in Nat
    BY <1>3, SlotSets DEF T
  <2>2. Cardinality(busy \cup T) = Cardinality(busy) + Cardinality(T) - Cardinality(busy \cap T)
    BY <2>1, FS_Union
  <2> QED BY <1>1, <1>2, <2>1, <2>2 DEF T
<1>5. SubSeq(q, riders + 1, Len(q)) \in Seq(Slots)
  BY <1>1, <1>2, SliceLemma
<1> HIDE DEF flying, q, x
<1>7. /\ x \in Resident /\ x.inflight = flying /\ x.pc \notin {"start", "fetched"}
      /\ x.local = res[r].local
  BY <1>1, <1>4, <1>5, <1>6, PcNames DEF Resident
<1> QED BY <1>4, <1>7 DEF Sound, x

-----------------------------------------------------------------------------
(* Steps on one resident.                                                   *)

\* Nothing else in CapInv can be disturbed by a step that replaces one resident
\* by a sound one, registers none and lets slots go between queue and tasks.
LEMMA UpdateKeeps ==
    ASSUME CapInv, NEW r \in Slots, NEW x, Sound(r, x), Update(r, x),
           registry' \subseteq registry, queue' \in Seq(Slots),
           \A t \in bg' : t \in bg \/ TaskTyped(t), UNCHANGED <<tag, arrived>>
    PROVE  CapInv'
<1>1. /\ FieldsTyped /\ RegistryBounded /\ x \in Resident
      /\ res' = [res EXCEPT ![r] = x]
  BY DEF CapInv, Update, Sound
<1>2. FieldsTyped'
  BY <1>1 DEF FieldsTyped, TaskTyped
<1>3. RegistryBounded'
  <2>1. /\ IsFiniteSet(registry) /\ Cardinality(registry) \in Nat
        /\ Cardinality(registry') \in Nat /\ Cardinality(registry) <= Cap /\ Cap \in Nat
    BY <1>1, SlotSets, CapAssumption DEF FieldsTyped, RegistryBounded
  <2>2. Cardinality(registry') <= Cardinality(registry)
    BY <2>1, FS_Subset
  <2> QED BY <1>1, <2>1, <2>2 DEF RegistryBounded
<1>4. \A q \in Slots : Sound(q, res[q])'
  <2> SUFFICES ASSUME NEW q \in Slots PROVE Sound(q, res[q])'
    OBVIOUS
  <2>1. res'[q] = IF q = r THEN x ELSE res[q]
    BY <1>1 DEF FieldsTyped
  <2>2. Sound(q, res'[q])
    BY <2>1 DEF CapInv
  <2>3. Width(q)' = Width(q)
    BY DEF Width
  <2> QED BY <2>2, <2>3 DEF Sound
<1> QED BY <1>2, <1>3, <1>4 DEF CapInv

\* A driver on its way out.
LEMMA LeaveKeeps ==
    ASSUME CapInv, NEW r \in Slots, NEW x \in Resident,
           Cardinality(x.inflight) <= Width(r), NEW tasks,
           \A t \in tasks : TaskTyped(t), Leave(r, x, tasks),
           queue' \in Seq(Slots), UNCHANGED <<tag, arrived>>
    PROVE  CapInv'
<1>1. TaskTyped(ResidentTask("reap", r))
  BY DEF TaskTyped, ResidentTask
<1>2. CASE x.claim # "none"
  <2> DEFINE y == [x EXCEPT !.pc = "done"]
  <2>1. y \in Resident /\ y.inflight = x.inflight /\ y.pc = "done"
    BY PcNames DEF Resident
  <2>2. /\ Update(r, y) /\ UNCHANGED registry
        /\ bg' = bg \cup tasks \cup {ResidentTask("reap", r)}
    BY <1>2 DEF Leave
  <2> HIDE DEF y
  <2>3. Sound(r, y)
    BY <2>1 DEF Sound, Working
  <2> QED BY <1>1, <2>2, <2>3, UpdateKeeps
<1>3. CASE x.claim = "none"
  <2> DEFINE st == IF r \in registry THEN "DEAD" ELSE x.state
             pr == IF x.ref = "none" THEN x.proc ELSE "dying"
             y == [x EXCEPT !.pc = "finally", !.claim = "driver",
                     !.drained = x.inbox, !.inbox = <<>>, !.state = st,
                     !.ref = "none", !.proc = pr]
  <2>0. /\ st \in {"RESERVED_LOADING", "ACTIVE", "IDLE_EVICTABLE", "DEAD"}
        /\ pr \in {"none", "up", "dying", "termed", "dead"}
        /\ <<>> \in Seq(Slots)
    BY EmptySeq DEF Resident
  <2> HIDE DEF st, pr
  <2>1. y \in Resident
    <3> DEFINE z == [x EXCEPT !.pc = "finally", !.claim = "driver",
                       !.drained = x.inbox, !.inbox = <<>>]
    <3>1. z \in Resident
      BY <2>0, PcNames DEF Resident
    <3>2. y = [z EXCEPT !.state = st, !.ref = "none", !.proc = pr]
      BY DEF Resident
    <3> HIDE DEF y, z
    <3> QED BY <2>0, <3>1, <3>2 DEF Resident
  <2>2. y.inflight = x.inflight /\ y.pc = "finally"
    BY DEF Resident
  <2> HIDE DEF y
  <2>3. Sound(r, y)
    BY <2>1, <2>2 DEF Sound, Working
  <2>4. /\ Update(r, y) /\ registry' = registry \ {r} /\ bg' = bg \cup tasks
    BY <1>3 DEF Leave, y, st, pr
  <2> QED BY <2>3, <2>4, UpdateKeeps
<1> QED BY <1>2, <1>3

\* The top of the serve loop.
LEMMA ServeNextKeeps ==
    ASSUME CapInv, NEW r \in Slots, NEW x \in Resident,
           Cardinality(x.inflight) <= Width(r), NEW s \in Slots,
           NEW q \in Seq(Slots), ServeNext(r, x, s, q),
           queue' \in Seq(Slots), UNCHANGED <<tag, arrived>>
    PROVE  CapInv'
<1> DEFINE y == [x EXCEPT !.local = s, !.next = NoSlot, !.inbox = q]
<1>1. y \in Resident /\ y.inflight = x.inflight
  BY DEF Resident
<1>2. CASE Leave(r, y, {})
  <2> HIDE DEF y
  <2> QED BY <1>1, <1>2, LeaveKeeps
<1>3. CASE /\ Update(r, [y EXCEPT !.pc = "audit", !.state = "ACTIVE", !.active = s])
           /\ NoRegistryChange
  <2> DEFINE z == [y EXCEPT !.pc = "audit", !.state = "ACTIVE", !.active = s]
  <2>1. y.local = s
    BY DEF Resident
  <2> HIDE DEF y
  <2>2. z \in Resident
    BY <1>1, PcNames DEF Resident
  <2>3. z.inflight = x.inflight /\ z.pc = "audit" /\ z.local = s
    BY <1>1, <2>1 DEF Resident
  <2> HIDE DEF z
  <2>4. Sound(r, z)
    BY <2>2, <2>3 DEF Sound
  <2>5. Update(r, z) /\ NoRegistryChange
    BY <1>3 DEF y, z
  <2> QED BY <2>4, <2>5, UpdateKeeps DEF NoRegistryChange
<1> QED BY <1>2, <1>3 DEF ServeNext

\* What an eviction leaves behind.
LEMMA EvictTasksTyped ==
    ASSUME NEW r \in Slots, res[r] \in Resident
    PROVE  \A t \in EvictTasks(r) : TaskTyped(t)
BY DEF EvictTasks, TaskTyped, RequeueTask, ResidentTask, Resident

\* What is known of a resident before its driver moves.
LEMMA ResidentFacts ==
    ASSUME CapInv, NEW r \in Slots
    PROVE  /\ res[r] \in Resident /\ Cardinality(res[r].inflight) <= Width(r)
           /\ res[r].pc = "start" => res[r].inbox # <<>>
           /\ res[r].pc \in Working => res[r].local \in Slots
           /\ res[r].pc = "fetched" => res[r].next \in Slots
           /\ res[r].inbox \in Seq(Slots) /\ res[r].inflight \in SUBSET Slots
           /\ queue \in Seq(Slots) /\ Width(r) \in Nat \ {0}
           /\ res[r].inbox # <<>> => /\ Head(res[r].inbox) \in Slots
                                     /\ Tail(res[r].inbox) \in Seq(Slots)
BY Widths, HeadTailLemma DEF CapInv, FieldsTyped, Sound, Resident

-----------------------------------------------------------------------------
(* The driver's steps.                                                      *)

\* Steps that load the sidecar or give up on it.
LEMMA LoadStepKeeps ==
    ASSUME CapInv, NEW r \in Slots, UNCHANGED tag,
           \/ DriverStart(r) \/ SpawnRefused(r) \/ Spawn(r) \/ HealthOk(r)
           \/ HealthFails(r) \/ LoadRaises(r) \/ UnhealthyReaped(r)
    PROVE  CapInv'
<1> DEFINE x == res[r]
<1>1. /\ x \in Resident /\ Cardinality(x.inflight) <= Width(r)
      /\ x.pc = "start" => x.inbox # <<>>
      /\ x.pc \in Working => x.local \in Slots
      /\ x.inbox \in Seq(Slots)
      /\ x.inbox # <<>> => Head(x.inbox) \in Slots /\ Tail(x.inbox) \in Seq(Slots)
  BY ResidentFacts
<1>2. UNCHANGED arrived /\ queue' \in Seq(Slots)
  BY ResidentFacts
     DEF Quiet, DriverStart, SpawnRefused, Spawn, HealthOk, HealthFails, LoadRaises,
         UnhealthyReaped
<1>3. CASE DriverStart(r)
  <2> DEFINE y == [x EXCEPT !.pc = "gate", !.local = Head(x.inbox), !.inbox = Tail(@)]
  <2>1. Head(x.inbox) \in Slots /\ Tail(x.inbox) \in Seq(Slots)
    BY <1>1, <1>3 DEF DriverStart, At
  <2>2. y \in Resident
    BY <1>1, <2>1, PcNames DEF Resident
  <2>3. y.inflight = x.inflight /\ y.pc = "gate" /\ y.local = Head(x.inbox)
    BY <1>1 DEF Resident
  <2>4. Update(r, y) /\ NoRegistryChange
    BY <1>3 DEF DriverStart
  <2> HIDE DEF y
  <2>5. Sound(r, y)
    BY <1>1, <2>1, <2>2, <2>3 DEF Sound
  <2> QED BY <1>2, <2>4, <2>5, UpdateKeeps DEF NoRegistryChange
<1>4. CASE SpawnRefused(r) \/ LoadRaises(r)
  BY <1>1, <1>2, <1>4, LeaveKeeps DEF SpawnRefused, LoadRaises
<1>5. CASE Spawn(r)
  <2> DEFINE y == [x EXCEPT !.pc = "health", !.proc = "up", !.ref = "booting"]
  <2>1. x.local \in Slots
    BY <1>1, <1>5 DEF Spawn, At, Working, Pcs
  <2>2. y \in Resident
    BY <1>1, PcNames DEF Resident
  <2>3. y.inflight = x.inflight /\ y.pc = "health" /\ y.local = x.local
    BY <1>1 DEF Resident
  <2>4. Update(r, y) /\ NoRegistryChange
    BY <1>5 DEF Spawn
  <2> HIDE DEF y
  <2>5. Sound(r, y)
    BY <1>1, <2>1, <2>2, <2>3 DEF Sound
  <2> QED BY <1>2, <2>4, <2>5, UpdateKeeps DEF NoRegistryChange
<1>6. CASE HealthOk(r)
  <2> DEFINE y == [x EXCEPT !.ref = "handle", !.state = "ACTIVE"]
  <2>1. y \in Resident /\ y.inflight = x.inflight
    BY <1>1 DEF Resident
  <2>2. x.local \in Slots
    BY <1>1, <1>6 DEF HealthOk, At, Working, Pcs
  <2>3. ServeNext(r, y, x.local, x.inbox)
    BY <1>6 DEF HealthOk
  <2> HIDE DEF y
  <2> QED BY <1>1, <1>2, <2>1, <2>2, <2>3, ServeNextKeeps
<1>7. CASE HealthFails(r)
  <2> DEFINE y == [x EXCEPT !.pc = "unhealthy", !.ref = "none", !.proc = "dying"]
  <2>1. x.local \in Slots
    BY <1>1, <1>7 DEF HealthFails, At, Working, Pcs
  <2>2. y \in Resident
    BY <1>1, PcNames DEF Resident
  <2>3. y.inflight = x.inflight /\ y.pc = "unhealthy" /\ y.local = x.local
    BY <1>1 DEF Resident
  <2>4. Update(r, y) /\ NoRegistryChange
    BY <1>7 DEF HealthFails
  <2> HIDE DEF y
  <2>5. Sound(r, y)
    BY <1>1, <2>1, <2>2, <2>3 DEF Sound
  <2> QED BY <1>2, <2>4, <2>5, UpdateKeeps DEF NoRegistryChange
<1>8. CASE UnhealthyReaped(r)
  <2> DEFINE y == [x EXCEPT !.proc = "dead"]
  <2>1. y \in Resident /\ y.inflight = x.inflight
    BY <1>1 DEF Resident
  <2>2. Leave(r, y, {})
    BY <1>8 DEF UnhealthyReaped
  <2> HIDE DEF y
  <2> QED BY <1>1, <1>2, <2>1, <2>2, LeaveKeeps
<1> QED BY <1>3, <1>4, <1>5, <1>6, <1>7, <1>8

\* Serving: the anchor alone, then as many riders as there is room for.
LEMMA ServeStepKeeps ==
    ASSUME CapInv, NEW r \in Slots, UNCHANGED tag,
           StartServing(r) \/ (\E s \in Slots : ServeEnds(r, s)) \/ ServeRaises(r)
    PROVE  CapInv'
<1>1. /\ res[r] \in Resident /\ Cardinality(res[r].inflight) <= Width(r)
      /\ res[r].inflight \in SUBSET Slots /\ Width(r) \in Nat \ {0}
      /\ res[r].pc \in Working => res[r].local \in Slots
  BY ResidentFacts
<1>2. UNCHANGED arrived /\ queue' \in Seq(Slots)
  BY ResidentFacts DEF Quiet, StartServing, ServeEnds, ServeRaises
<1>3. CASE StartServing(r)
  <2>1. res[r].local \in Slots
    BY <1>1, <1>3 DEF StartServing, At, Working, Pcs
  <2>2. {res[r].local} \in SUBSET Slots /\ Cardinality({res[r].local}) <= Width(r)
    <3>1. Cardinality({res[r].local}) = 1
      BY FS_Singleton
    <3> QED BY <1>1, <2>1, <3>1
  <2>3. Sound(r, Launch(r, {res[r].local}))
    BY <2>1, <2>2, LaunchSound
  <2> QED BY <1>2, <1>3, <2>3, UpdateKeeps DEF StartServing, NoRegistryChange
<1>4. CASE \E s \in Slots : ServeEnds(r, s)
  <2>1. PICK s \in Slots : ServeEnds(r, s)
    BY <1>4
  <2> DEFINE busy == res[r].inflight \ {s}
  <2>2. busy \in SUBSET Slots /\ Cardinality(busy) <= Width(r)
    <3>1. /\ IsFiniteSet(res[r].inflight) /\ Cardinality(res[r].inflight) \in Nat
          /\ Cardinality(busy) \in Nat
      BY <1>1, SlotSets
    <3>2. Cardinality(busy) <= Cardinality(res[r].inflight)
      BY <3>1, FS_RemoveElement
    <3> QED BY <1>1, <3>1, <3>2
  <2> HIDE DEF busy
  <2>3. res[r].local \in Slots
    BY <1>1, <2>1 DEF ServeEnds, At, Working, Pcs
  <2>4. Sound(r, Launch(r, busy))
    BY <2>2, <2>3, LaunchSound
  <2> QED BY <1>2, <2>1, <2>4, UpdateKeeps DEF ServeEnds, NoRegistryChange, busy
<1>5. CASE ServeRaises(r)
  <2> DEFINE y == [res[r] EXCEPT !.inflight = {}]
  <2>1. y \in Resident /\ y.inflight = {}
    BY <1>1 DEF Resident
  <2>2. Leave(r, y, {})
    BY <1>5 DEF ServeRaises
  <2> HIDE DEF y
  <2>3. Cardinality(y.inflight) <= Width(r)
    BY <1>1, <2>1, FS_EmptySet
  <2> QED BY <1>2, <2>1, <2>2, <2>3, LeaveKeeps
<1> QED BY <1>3, <1>4, <1>5

\* Grace: a follow-up is taken from the queue and served, the window closes.
LEMMA GraceStepKeeps ==
    ASSUME CapInv, NEW r \in Slots, UNCHANGED tag,
           GraceMatch(r) \/ MatchEnds(r) \/ GraceEnds(r)
    PROVE  CapInv'
<1> DEFINE x == res[r]
<1>1. /\ x \in Resident /\ Cardinality(x.inflight) <= Width(r)
      /\ x.inbox \in Seq(Slots) /\ queue \in Seq(Slots)
      /\ x.inbox # <<>> => Head(x.inbox) \in Slots /\ Tail(x.inbox) \in Seq(Slots)
  BY ResidentFacts
<1>2. x.local \in Slots
  BY ResidentFacts DEF GraceMatch, MatchEnds, GraceEnds, At, Working, Pcs
<1>3. CASE GraceMatch(r)
  <2>1. PICK i \in DOMAIN queue :
          /\ queue' = RemoveAt(queue, i)
          /\ Update(r, [x EXCEPT !.pc = "match", !.active = queue[i]])
    BY <1>3 DEF GraceMatch
  <2> DEFINE y == [x EXCEPT !.pc = "match", !.active = queue[i]]
  <2>2. i \in 1 .. Len(queue)
    BY <1>1, LenProperties
  <2>3. queue[i] \in Slots /\ queue' \in Seq(Slots)
    BY <1>1, <2>1, <2>2, ElementOfSeq, RemoveAtLemma
  <2>4. y \in Resident /\ y.inflight = x.inflight /\ y.pc = "match" /\ y.local = x.local
    BY <1>1, <2>3, PcNames DEF Resident
  <2>5. Update(r, y) /\ NoRegistryChange /\ UNCHANGED arrived
    BY <1>3, <2>1 DEF GraceMatch
  <2> HIDE DEF y
  <2>6. Sound(r, y)
    BY <1>1, <1>2, <2>4 DEF Sound
  <2> QED BY <2>3, <2>5, <2>6, UpdateKeeps DEF NoRegistryChange
<1>4. CASE MatchEnds(r)
  <2> DEFINE y == [x EXCEPT !.pc = "grace", !.active = x.local]
  <2>1. y \in Resident /\ y.inflight = x.inflight /\ y.pc = "grace" /\ y.local = x.local
    BY <1>1, PcNames DEF Resident
  <2>2. Update(r, y) /\ NoRegistryChange /\ Quiet
    BY <1>4 DEF MatchEnds
  <2> HIDE DEF y
  <2>3. Sound(r, y)
    BY <1>1, <1>2, <2>1 DEF Sound
  <2> QED BY <1>1, <2>2, <2>3, UpdateKeeps DEF NoRegistryChange, Quiet
<1>5. CASE GraceEnds(r)
  <2> DEFINE z == [x EXCEPT !.active = NoSlot]
             y == [z EXCEPT !.state = "IDLE_EVICTABLE", !.pc = "idle"]
  <2>1. z \in Resident /\ z.inflight = x.inflight /\ z.local = x.local
    BY <1>1 DEF Resident
  <2>2. y \in Resident /\ y.inflight = x.inflight /\ y.pc = "idle" /\ y.local = x.local
    BY <1>1, PcNames DEF Resident
  <2>3. Evicted(z) \in Resident /\ Evicted(z).inflight = x.inflight
    BY <1>1, EmptySeq DEF Evicted, Resident
  <2>4. UNCHANGED arrived /\ queue' \in Seq(Slots) /\ z.inbox = x.inbox
    BY <1>1, <1>5 DEF GraceEnds, Quiet, Resident
  <2>5. \/ Leave(r, x, {})
        \/ Leave(r, Evicted(z), EvictTasks(r))
        \/ z.inbox # <<>> /\ ServeNext(r, y, Head(z.inbox), Tail(z.inbox))
        \/ Update(r, y) /\ NoRegistryChange
    BY <1>5 DEF GraceEnds
  <2> HIDE DEF y, z
  <2>6. CASE Leave(r, x, {})
    BY <1>1, <2>4, <2>6, LeaveKeeps
  <2>7. CASE Leave(r, Evicted(z), EvictTasks(r))
    BY <1>1, <2>3, <2>4, <2>7, EvictTasksTyped, LeaveKeeps
  <2>8. CASE z.inbox # <<>> /\ ServeNext(r, y, Head(z.inbox), Tail(z.inbox))
    BY <1>1, <2>2, <2>4, <2>8, ServeNextKeeps
  <2>9. CASE Update(r, y) /\ NoRegistryChange
    <3>1. Sound(r, y)
      BY <1>1, <1>2, <2>2 DEF Sound
    <3> QED BY <2>4, <2>9, <3>1, UpdateKeeps DEF NoRegistryChange
  <2> QED BY <2>5, <2>6, <2>7, <2>8, <2>9
<1> QED BY <1>3, <1>4, <1>5

\* The idle window.
LEMMA IdleStepKeeps ==
    ASSUME CapInv, NEW r \in Slots, UNCHANGED tag,
           IdleTakes(r) \/ Resume(r) \/ IdleExpires(r)
    PROVE  CapInv'
<1> DEFINE x == res[r]
<1>1. /\ x \in Resident /\ Cardinality(x.inflight) <= Width(r)
      /\ x.inbox \in Seq(Slots) /\ queue \in Seq(Slots)
      /\ x.inbox # <<>> => Head(x.inbox) \in Slots /\ Tail(x.inbox) \in Seq(Slots)
      /\ x.pc = "fetched" => x.next \in Slots
  BY ResidentFacts
<1>2. x.local \in Slots
  BY ResidentFacts DEF IdleTakes, Resume, IdleExpires, At, Working, Pcs
<1>3. UNCHANGED arrived /\ queue' \in Seq(Slots)
  BY <1>1 DEF IdleTakes, Resume, IdleExpires, Quiet
<1>4. ASSUME x.inbox # <<>>, ServeNext(r, x, Head(x.inbox), Tail(x.inbox)) PROVE CapInv'
  BY <1>1, <1>3, <1>4, ServeNextKeeps
<1>5. CASE IdleTakes(r)
  <2> DEFINE y == [x EXCEPT !.pc = "fetched", !.next = Head(x.inbox), !.inbox = Tail(@)]
  <2>1. CASE Update(r, y) /\ NoRegistryChange
    <3>1. x.inbox # <<>>
      BY <1>5 DEF IdleTakes
    <3>2. y \in Resident
      BY <1>1, <3>1, PcNames DEF Resident
    <3>3. /\ y.inflight = x.inflight /\ y.pc = "fetched" /\ y.local = x.local
          /\ y.next = Head(x.inbox)
      BY <1>1 DEF Resident
    <3> HIDE DEF y
    <3>4. Sound(r, y)
      BY <1>1, <1>2, <3>1, <3>2, <3>3 DEF Sound
    <3> QED BY <1>3, <2>1, <3>4, UpdateKeeps DEF NoRegistryChange
  <2> QED BY <1>4, <1>5, <2>1 DEF IdleTakes
<1>6. CASE Resume(r)
  <2> DEFINE y == [x EXCEPT !.cancel = FALSE]
  <2>1. y \in Resident /\ y.inflight = x.inflight /\ x.next \in Slots
    BY <1>1, <1>6 DEF Resume, Resident
  <2>2. ServeNext(r, y, x.next, x.inbox)
    BY <1>6 DEF Resume
  <2> HIDE DEF y
  <2> QED BY <1>1, <1>3, <2>1, <2>2, ServeNextKeeps
<1>7. CASE IdleExpires(r)
  <2>1. CASE Leave(r, Evicted(x), EvictTasks(r))
    <3>1. Evicted(x) \in Resident /\ Evicted(x).inflight = x.inflight
      BY <1>1, EmptySeq DEF Evicted, Resident
    <3> QED BY <1>1, <1>3, <2>1, <3>1, EvictTasksTyped, LeaveKeeps
  <2>2. CASE ServeNext(r, x, x.local, x.inbox)
    BY <1>1, <1>2, <1>3, <2>2, ServeNextKeeps
  <2> QED BY <1>4, <1>7, <2>1, <2>2 DEF IdleExpires
<1> QED BY <1>5, <1>6, <1>7

\* reversed(slots), pushed one by one, are slots.
LEMMA GivenBackTyped ==
    ASSUME NEW p \in Seq(Slots), NEW q \in Seq(Slots)
    PROVE  Reverse(p) \o q \in Seq(Slots)
<1>1. Len(p) \in Nat /\ DOMAIN p = 1 .. Len(p) /\ \A i \in 1 .. Len(p) : p[i] \in Slots
  BY LenProperties, ElementOfSeq
<1>2. Reverse(p) \in Seq(Slots)
  BY <1>1, IsASeq DEF Reverse
<1> QED BY <1>2, ConcatLemma

\* The way out: a cancellation, and the end of the finally.
LEMMA ExitStepKeeps ==
    ASSUME CapInv, NEW r \in Slots, UNCHANGED tag,
           CancelDelivered(r) \/ FinallyEnds(r)
    PROVE  CapInv'
<1> DEFINE x == res[r]
<1>1. /\ x \in Resident /\ Cardinality(x.inflight) <= Width(r) /\ Width(r) \in Nat \ {0}
      /\ x.inbox \in Seq(Slots) /\ queue \in Seq(Slots) /\ x.drained \in Seq(Slots)
  BY ResidentFacts DEF Resident
<1>2. TaskTyped(ResidentTask("reap", r))
  BY DEF TaskTyped, ResidentTask
<1>3. CASE CancelDelivered(r)
  <2> DEFINE z == [x EXCEPT !.cancel = FALSE]
             y == [z EXCEPT !.pc = "done"]
             w == [z EXCEPT !.inflight = {},
                            !.proc = IF z.pc = "unhealthy" THEN "termed" ELSE @]
  <2>1. UNCHANGED arrived /\ queue' \in Seq(Slots)
    BY <1>1, <1>3 DEF CancelDelivered, Quiet
  <2>2. z \in Resident /\ z.inflight = x.inflight
    BY <1>1 DEF Resident
  <2>3. \/ Update(r, y) /\ bg' = bg \cup {ResidentTask("reap", r)} /\ UNCHANGED registry
        \/ Leave(r, w, {})
    BY <1>3 DEF CancelDelivered
  <2> HIDE DEF z
  <2>4. y \in Resident /\ y.inflight = x.inflight /\ y.pc = "done"
    BY <2>2, PcNames DEF Resident
  <2>5. w \in Resident /\ w.inflight = {}
    BY <2>2 DEF Resident
  <2> HIDE DEF y, w
  <2>6. Sound(r, y)
    BY <1>1, <2>4 DEF Sound, Working
  <2>7. Cardinality(w.inflight) <= Width(r)
    BY <1>1, <2>5, FS_EmptySet
  <2>8. CASE Leave(r, w, {})
    BY <2>1, <2>5, <2>7, <2>8, LeaveKeeps
  <2>9. CASE Update(r, y) /\ bg' = bg \cup {ResidentTask("reap", r)} /\ UNCHANGED registry
    BY <1>2, <2>1, <2>6, <2>9, UpdateKeeps
  <2> QED BY <2>3, <2>8, <2>9
<1>4. CASE FinallyEnds(r)
  <2> DEFINE pr == IF x.proc = "dying" THEN "dead" ELSE x.proc
             y == [x EXCEPT !.pc = "done", !.drained = <<>>, !.local = NoSlot, !.proc = pr]
  <2>1. pr \in {"none", "up", "dying", "termed", "dead"} /\ <<>> \in Seq(Slots)
    BY <1>1, EmptySeq DEF Resident
  <2>2. /\ Update(r, y) /\ bg' = bg \cup {ResidentTask("reap", r)}
        /\ UNCHANGED <<registry, arrived>>
        /\ queue' = IF Closed THEN queue ELSE Reverse(x.drained) \o queue
    BY <1>4 DEF FinallyEnds
  <2> HIDE DEF pr
  <2>3. y \in Resident
    <3> DEFINE z == [x EXCEPT !.pc = "done", !.drained = <<>>]
    <3>1. z \in Resident
      BY <1>1, <2>1, PcNames DEF Resident
    <3>2. y = [z EXCEPT !.local = NoSlot, !.proc = pr]
      BY <1>1 DEF Resident
    <3> HIDE DEF y, z
    <3> QED BY <2>1, <3>1, <3>2 DEF Resident
  <2>4. y.inflight = x.inflight /\ y.pc = "done"
    BY <1>1 DEF Resident
  <2> HIDE DEF y
  <2>5. Sound(r, y)
    BY <1>1, <2>3, <2>4 DEF Sound, Working
  <2>6. queue' \in Seq(Slots)
    BY <1>1, <2>2, GivenBackTyped
  <2> QED BY <1>2, <2>2, <2>5, <2>6, UpdateKeeps
<1> QED BY <1>3, <1>4

-----------------------------------------------------------------------------
(* The dispatcher.                                                          *)

\* What a pop leaves, and what it takes.
LEMMA Popped ==
    ASSUME CapInv, NEW i \in DOMAIN queue, PopAt(i)
    PROVE  queue[i] \in Slots /\ queue' \in Seq(Slots) /\ UNCHANGED arrived
<1>1. queue \in Seq(Slots) /\ i \in 1 .. Len(queue)
  BY LenProperties DEF CapInv, FieldsTyped
<1> QED BY <1>1, ElementOfSeq, RemoveAtLemma DEF PopAt

\* A step that leaves the residents alone.
LEMMA QueueKeeps ==
    ASSUME CapInv, UNCHANGED <<tag, registry, res>>, arrived' \in 0 .. NumSlots,
           queue' \in Seq(Slots), \A t \in bg' : t \in bg \/ TaskTyped(t)
    PROVE  CapInv'
<1>1. FieldsTyped' /\ RegistryBounded'
  BY DEF CapInv, FieldsTyped, RegistryBounded, TaskTyped
<1>2. \A r \in Slots : Sound(r, res[r])'
  BY DEF CapInv, Sound, Width
<1> QED BY <1>1, <1>2 DEF CapInv

\* A resident that is reused gets one slot more in its inbox.
LEMMA RouteHitKeeps ==
    ASSUME CapInv, UNCHANGED tag, NEW i \in DOMAIN queue, RouteHit(i)
    PROVE  CapInv'
<1>1. PICK r \in ResidentsOf(queue[i]) :
        res' = [res EXCEPT
                  ![r].inbox = Append(@, queue[i]),
                  ![r].state = IF @ = "IDLE_EVICTABLE" THEN "ACTIVE" ELSE @]
  BY DEF RouteHit
<1>2. queue[i] \in Slots /\ queue' \in Seq(Slots) /\ UNCHANGED arrived
  BY Popped DEF RouteHit
<1>3. r \in Slots
  BY DEF ResidentsOf, CapInv, FieldsTyped
<1> DEFINE x == res[r]
           st == IF x.state = "IDLE_EVICTABLE" THEN "ACTIVE" ELSE x.state
           q == Append(x.inbox, queue[i])
           y == [x EXCEPT !.inbox = q, !.state = st]
<1>4. /\ Sound(r, x) /\ x \in Resident /\ res \in [Slots -> Resident]
  BY <1>3 DEF CapInv, FieldsTyped
<1>5. /\ st \in {"RESERVED_LOADING", "ACTIVE", "IDLE_EVICTABLE", "DEAD"}
      /\ x.state = "RESERVED_LOADING" => st = "RESERVED_LOADING"
  BY <1>4 DEF Resident
<1>6. q \in Seq(Slots) /\ q # <<>>
  <2>1. x.inbox \in Seq(Slots)
    BY <1>4 DEF Resident
  <2>2. q \in Seq(Slots) /\ Len(q) = Len(x.inbox) + 1 /\ Len(x.inbox) \in Nat
    BY <1>2, <2>1, AppendLemma, LenProperties
  <2> QED BY <2>2, EmptySeq
<1>7. Update(r, y)
  BY <1>1, <1>3, <1>4 DEF Update
<1> HIDE DEF q, st
<1>8. /\ y \in Resident /\ y.inflight = x.inflight /\ y.pc = x.pc /\ y.local = x.local
      /\ y.next = x.next /\ y.inbox = q /\ y.state = st
  BY <1>4, <1>5, <1>6 DEF Resident
<1> HIDE DEF y
<1>9. Sound(r, y)
  BY <1>4, <1>5, <1>6, <1>8 DEF Sound
<1> QED BY <1>2, <1>3, <1>7, <1>9, UpdateKeeps DEF RouteHit

\* A new resident takes free room or the victim's place, and only of a model that
\* has none.
LEMMA ReserveKeeps ==
    ASSUME CapInv, UNCHANGED tag, NEW i \in DOMAIN queue, Reserve(i)
    PROVE  CapInv'
<1> DEFINE s == queue[i]
<1>1. s \in Slots /\ queue' \in Seq(Slots) /\ UNCHANGED arrived
  BY Popped DEF Reserve
<1>2. PICK victims \in IF HasRoom THEN {{}} ELSE {{v} : v \in Evictable} :
        LET left == [r \in Slots |-> IF r \in victims THEN Evicted(res[r]) ELSE res[r]]
        IN  /\ bg' = bg \cup UNION {EvictTasks(v) : v \in victims}
            /\ \/ /\ registry' = registry \ victims
                  /\ res' = left
               \/ /\ registry' = (registry \ victims) \cup {s}
                  /\ res' = [left EXCEPT ![s] =
                               [NoResident EXCEPT !.pc = "start", !.inbox = <<s>>,
                                                  !.state = "RESERVED_LOADING"]]
  BY DEF Reserve
<1> DEFINE new == [NoResident EXCEPT !.pc = "start", !.inbox = <<s>>,
                                     !.state = "RESERVED_LOADING"]
           left == [r \in Slots |-> IF r \in victims THEN Evicted(res[r]) ELSE res[r]]
<1>3. /\ FieldsTyped /\ RegistryBounded /\ res \in [Slots -> Resident]
      /\ registry \in SUBSET Slots /\ ResidentsOf(s) = {}
  BY DEF CapInv, FieldsTyped, Reserve
<1>4. /\ victims \subseteq registry
      /\ \A v \in victims : res[v].state = "IDLE_EVICTABLE"
  BY <1>2 DEF Evictable
<1>5. /\ new \in Resident /\ new.inflight = {} /\ new.pc = "start"
      /\ new.inbox = <<s>> /\ new.inbox # <<>> /\ new.state = "RESERVED_LOADING"
  <2>1. <<s>> \in Seq(Slots) /\ <<>> \in Seq(Slots) /\ <<s>> # <<>>
    BY <1>1
  <2>2. NoResident \in Resident
    BY <2>1, PcNames DEF NoResident, Resident
  <2>3. NoResident.inflight = {}
    BY DEF NoResident
  <2> QED BY <2>1, <2>2, <2>3, PcNames DEF Resident
<1> HIDE DEF new
<1>6. Sound(s, new)
  <2>1. Width(s) \in Nat \ {0}
    BY <1>1, <1>3, Widths DEF FieldsTyped
  <2> QED BY <1>5, <2>1, FS_EmptySet DEF Sound, Working
<1>7. \A r \in Slots : Sound(r, left[r])
  <2> SUFFICES ASSUME NEW r \in Slots PROVE Sound(r, left[r])
    OBVIOUS
  <2>1. Sound(r, res[r]) /\ res[r] \in Resident
    BY DEF CapInv, Sound
  <2>2. CASE r \in victims
    <3> DEFINE x == res[r]
               y == Evicted(x)
    <3>1. x.state = "IDLE_EVICTABLE" /\ left[r] = y
      BY <1>4, <2>2
    <3>2. y \in Resident
      BY <2>1, EmptySeq DEF Evicted, Resident
    <3>3. y.inflight = x.inflight /\ y.pc = x.pc /\ y.local = x.local /\ y.next = x.next
      BY <2>1 DEF Evicted, Resident
    <3> HIDE DEF y
    <3> QED BY <2>1, <3>1, <3>2, <3>3 DEF Sound
  <2> QED BY <2>1, <2>2
<1>8. left \in [Slots -> Resident]
  BY <1>7 DEF Sound
<1>9. res' = left \/ res' = [left EXCEPT ![s] = new]
  BY <1>2 DEF new
<1> HIDE DEF left
<1>10. /\ res' \in [Slots -> Resident]
       /\ \A r \in Slots : res'[r] \in {left[r], new} /\ (r # s => res'[r] = left[r])
  BY <1>1, <1>5, <1>8, <1>9
<1>11. \A r \in Slots : Sound(r, res[r])'
  <2> SUFFICES ASSUME NEW r \in Slots PROVE Sound(r, res[r])'
    OBVIOUS
  <2>1. Sound(r, res'[r])
    BY <1>6, <1>7, <1>10
  <2>2. Width(r)' = Width(r)
    BY DEF Width
  <2> QED BY <2>1, <2>2 DEF Sound
<1>12. registry' \in SUBSET Slots /\ registry' \subseteq (registry \ victims) \cup {s}
  BY <1>1, <1>2, <1>3
<1>13. \A t \in bg' : t \in bg \/ TaskTyped(t)
  BY <1>2, <1>3, <1>4, EvictTasksTyped
<1>14. FieldsTyped'
  BY <1>1, <1>3, <1>10, <1>12, <1>13 DEF FieldsTyped, TaskTyped
<1>15. Cardinality(registry') <= Cap
  <2> DEFINE rest == registry \ victims
  <2>1. /\ IsFiniteSet(registry) /\ Cardinality(registry) \in Nat
        /\ IsFiniteSet(rest) /\ Cardinality(rest) \in Nat
        /\ IsFiniteSet(rest \cup {s}) /\ Cardinality(rest \cup {s}) \in Nat
        /\ Cardinality(registry') \in Nat
        /\ Cap \in Nat /\ Cardinality(registry) <= Cap
    BY <1>1, <1>3, <1>12, SlotSets, CapAssumption DEF RegistryBounded
  <2>2. Cardinality(rest) + 1 <= Cap
    <3>1. CASE HasRoom
      <4>1. victims = {}
        BY <1>2, <3>1
      <4>2. rest = registry /\ Cardinality(registry) < Cap
        BY <3>1, <4>1 DEF HasRoom
      <4> HIDE DEF rest
      <4> QED BY <2>1, <4>2
    <3>2. CASE ~HasRoom
      <4>1. PICK v \in Evictable : victims = {v}
        BY <1>2, <3>2
      <4>2. Cardinality(rest) = Cardinality(registry) - 1
        BY <2>1, <4>1, FS_RemoveElement DEF Evictable
      <4> QED BY <2>1, <4>2
    <3> QED BY <3>1, <3>2
  <2>3. Cardinality(rest \cup {s}) <= Cardinality(rest) + 1
    BY <2>1, FS_AddElement
  <2>4. Cardinality(registry') <= Cardinality(rest \cup {s})
    BY <1>12, <2>1, FS_Subset
  <2> QED BY <2>1, <2>2, <2>3, <2>4
<1>16. \A r, q \in registry' : tag'[r] = tag'[q] => r = q
  BY <1>3, <1>12 DEF RegistryBounded, ResidentsOf
<1> QED BY <1>11, <1>14, <1>15, <1>16 DEF CapInv, RegistryBounded

\* Every way a popped slot can go.
LEMMA DispatchKeeps ==
    ASSUME CapInv, UNCHANGED tag, NEW s \in Slots, Dispatch(s)
    PROVE  CapInv'
<1>1. PICK i \in DOMAIN queue :
        DispatchEvicted(i) \/ RouteHit(i) \/ Defer(i) \/ Reserve(i)
  BY DEF Dispatch
<1>2. CASE DispatchEvicted(i) \/ Defer(i)
  <2>1. /\ queue[i] \in Slots /\ queue' \in Seq(Slots) /\ UNCHANGED <<arrived, registry, res>>
    BY <1>2, Popped DEF DispatchEvicted, Defer
  <2>2. TaskTyped(DeferTask(queue[i]))
    BY <2>1 DEF TaskTyped, DeferTask
  <2>3. bg' \subseteq bg \cup {DeferTask(queue[i])}
    BY <1>2 DEF DispatchEvicted, Defer
  <2> QED BY <2>1, <2>2, <2>3, QueueKeeps DEF CapInv, FieldsTyped
<1> QED BY <1>1, <1>2, RouteHitKeeps, ReserveKeeps

-----------------------------------------------------------------------------
(* Detached tasks and shutdown.                                             *)

\* Requeues give slots back, teardowns and reapers only take from a resident.
LEMMA BgStepKeeps == ASSUME CapInv, UNCHANGED tag, BgStep PROVE CapInv'
<1>1. PICK t \in bg : Requeue(t) \/ ReapDead(t) \/ TeardownClaims(t) \/ TeardownEnds(t)
  BY DEF BgStep
<1>2. queue \in Seq(Slots) /\ TaskTyped(t) /\ arrived \in 0 .. NumSlots
  BY DEF CapInv, FieldsTyped
<1>3. CASE Requeue(t)
  <2>1. t.slots \in Seq(Slots)
    BY <1>2, <1>3 DEF TaskTyped, Requeue
  <2>2. queue' \in {queue, Reverse(t.slots) \o queue}
    BY <1>3 DEF Requeue, GiveBack
  <2> QED BY <1>2, <1>3, <2>1, <2>2, GivenBackTyped, QueueKeeps DEF Requeue
<1> DEFINE r == t.of
           x == res[r]
<1>4. ASSUME t.do \in {"evict", "reap"}
      PROVE  /\ r \in Slots /\ Sound(r, x) /\ x \in Resident /\ Width(r) \in Nat \ {0}
  <2>1. r \in Slots
    BY <1>2, <1>4 DEF TaskTyped
  <2> QED BY <2>1, ResidentFacts DEF CapInv
<1>5. ASSUME NEW y \in Resident, y.pc = x.pc, y.inflight = x.inflight, y.local = x.local,
             y.next = x.next, y.inbox = x.inbox, y.state = x.state, Update(r, y),
             r \in Slots, Sound(r, x), bg' \subseteq bg,
             UNCHANGED <<arrived, queue, registry>>
      PROVE  CapInv'
  <2>1. Sound(r, y)
    BY <1>5 DEF Sound
  <2> QED BY <1>2, <1>5, <2>1, UpdateKeeps
<1>6. CASE TeardownClaims(t)
  <2>1. r \in Slots /\ Sound(r, x) /\ x \in Resident
    BY <1>4, <1>6 DEF TeardownClaims
  <2>2. CASE UNCHANGED res
    BY <1>2, <1>6, <2>2, QueueKeeps DEF TeardownClaims
  <2> DEFINE pr == IF x.ref = "none" THEN x.proc ELSE "dying"
             y == [x EXCEPT !.claim = "task", !.ref = "none", !.proc = pr]
  <2>3. CASE Update(r, y)
    <3>0. pr \in {"none", "up", "dying", "termed", "dead"}
      BY <2>1 DEF Resident
    <3> HIDE DEF pr
    <3>1. y \in Resident
      BY <2>1, <3>0 DEF Resident
    <3>3. /\ y.pc = x.pc /\ y.inflight = x.inflight /\ y.local = x.local
          /\ y.next = x.next /\ y.inbox = x.inbox /\ y.state = x.state
      BY <2>1 DEF Resident
    <3>2. bg' \subseteq bg /\ UNCHANGED <<arrived, queue, registry>>
      BY <1>6 DEF TeardownClaims
    <3> HIDE DEF y
    <3> QED BY <1>5, <2>1, <2>3, <3>1, <3>2, <3>3
  <2> QED BY <1>6, <2>2, <2>3 DEF TeardownClaims
<1>7. CASE TeardownEnds(t)
  <2> DEFINE y == [x EXCEPT !.proc = IF @ = "dying" THEN "dead" ELSE @]
  <2>1. r \in Slots /\ Sound(r, x) /\ x \in Resident
    BY <1>4, <1>7 DEF TeardownEnds
  <2>2. /\ y \in Resident /\ y.pc = x.pc /\ y.inflight = x.inflight /\ y.local = x.local
        /\ y.next = x.next /\ y.inbox = x.inbox /\ y.state = x.state
    BY <2>1 DEF Resident
  <2>3. Update(r, y) /\ bg' \subseteq bg /\ UNCHANGED <<arrived, queue, registry>>
    BY <1>7 DEF TeardownEnds
  <2> HIDE DEF y
  <2> QED BY <1>5, <2>1, <2>2, <2>3
<1>8. CASE ReapDead(t)
  <2> DEFINE y == [NoResident EXCEPT !.pc = "done", !.ref = x.ref, !.proc = x.proc,
                                     !.claim = x.claim]
  <2>1. r \in Slots /\ Sound(r, x) /\ x \in Resident /\ Width(r) \in Nat \ {0}
    BY <1>4, <1>8 DEF ReapDead
  <2>2. y \in Resident /\ y.inflight = {} /\ y.pc = "done"
    <3>1. NoResident \in Resident
      BY EmptySeq, PcNames DEF NoResident, Resident
    <3>2. NoResident.inflight = {}
      BY DEF NoResident
    <3>3. /\ x.ref \in {"none", "booting", "handle"}
          /\ x.proc \in {"none", "up", "dying", "termed", "dead"}
          /\ x.claim \in {"none", "driver", "task"}
      BY <2>1 DEF Resident
    <3> DEFINE z == [NoResident EXCEPT !.pc = "done", !.ref = x.ref]
    <3>4. z \in Resident /\ z.inflight = {} /\ z.pc = "done"
      <4> HIDE DEF x, r
      <4> QED BY <3>1, <3>2, <3>3, PcNames DEF Resident
    <3>5. y = [z EXCEPT !.proc = x.proc, !.claim = x.claim]
      BY <3>1 DEF Resident
    <3> HIDE DEF x, r, y, z
    <3> QED BY <3>3, <3>4, <3>5 DEF Resident
  <2>3. /\ Update(r, y) /\ registry' = registry \ {r} /\ UNCHANGED <<arrived, queue>>
        /\ bg' = (bg \ {t}) \cup EvictTasks(r)
    BY <1>8 DEF ReapDead
  <2> HIDE DEF y
  <2>4. Sound(r, y)
    BY <2>1, <2>2, FS_EmptySet DEF Sound, Working
  <2>5. \A u \in bg' : u \in bg \/ TaskTyped(u)
    BY <2>1, <2>3, EvictTasksTyped
  <2> QED BY <1>2, <2>1, <2>3, <2>4, <2>5, UpdateKeeps
<1> QED BY <1>1, <1>3, <1>6, <1>7, <1>8

\* Shutdown marks drivers for cancellation and empties the queue.
LEMMA ShutdownStepKeeps == ASSUME CapInv, UNCHANGED tag, ShutdownStep PROVE CapInv'
<1>1. UNCHANGED <<arrived, registry, bg>> /\ queue' \in {queue, <<>>}
  BY DEF ShutdownStep, CancelDrivers, DrainTasks, CloseQueue
<1>2. queue' \in Seq(Slots) /\ arrived \in 0 .. NumSlots
  BY <1>1, EmptySeq DEF CapInv, FieldsTyped
<1>3. CASE UNCHANGED res
  BY <1>1, <1>2, <1>3, QueueKeeps
<1>4. CASE CancelDrivers
  <2>1. \A r \in Slots : res[r] \in Resident /\ Sound(r, res[r])
    BY DEF CapInv, Sound
  <2>2. res' = [r \in Slots |-> IF r \in awaited'
                                THEN [res[r] EXCEPT !.cancel = TRUE] ELSE res[r]]
    BY <1>4 DEF CancelDrivers
  <2>3. ASSUME NEW r \in Slots
        PROVE  res'[r] \in Resident /\ Sound(r, res[r])'
    <3> DEFINE x == res[r]
               y == [x EXCEPT !.cancel = TRUE]
    <3>1. /\ y \in Resident /\ y.pc = x.pc /\ y.inflight = x.inflight /\ y.local = x.local
          /\ y.next = x.next /\ y.inbox = x.inbox /\ y.state = x.state
      BY <2>1 DEF Resident
    <3>2. res'[r] \in {x, y}
      BY <2>2
    <3> HIDE DEF y
    <3>3. Sound(r, res'[r]) /\ res'[r] \in Resident
      BY <2>1, <3>1, <3>2 DEF Sound
    <3>4. Width(r)' = Width(r)
      BY DEF Width
    <3> QED BY <3>3, <3>4 DEF Sound
  <2>4. res' \in [Slots -> Resident]
    BY <2>2, <2>3
  <2>5. FieldsTyped' /\ RegistryBounded'
    BY <1>1, <1>2, <2>4 DEF CapInv, FieldsTyped, RegistryBounded, TaskTyped
  <2> QED BY <2>3, <2>5 DEF CapInv
<1> QED BY <1>3, <1>4 DEF ShutdownStep, DrainTasks, CloseQueue

-----------------------------------------------------------------------------

\* The invariant holds at the start and is kept by every step.
LEMMA CapInit == Init => CapInv
<1> SUFFICES ASSUME Init PROVE CapInv
  OBVIOUS
<1>1. NoResident \in Resident /\ NoResident.inflight = {} /\ NoResident.pc = "none"
  BY EmptySeq, PcNames DEF NoResident, Resident
<1>2. FieldsTyped
  BY <1>1, EmptySeq, NumSlotsAssumption DEF Init, FieldsTyped
<1>3. RegistryBounded
  BY FS_EmptySet, CapAssumption DEF Init, RegistryBounded
<1>4. \A r \in Slots : Sound(r, res[r])
  <2> SUFFICES ASSUME NEW r \in Slots PROVE Sound(r, res[r])
    OBVIOUS
  <2>1. Width(r) \in Nat \ {0} /\ res[r] = NoResident
    BY <1>2, Widths DEF Init, FieldsTyped
  <2>2. Cardinality(NoResident.inflight) = 0
    BY <1>1, FS_EmptySet
  <2>3. Cardinality(NoResident.inflight) <= Width(r)
    BY <2>1, <2>2
  <2> QED BY <1>1, <2>1, <2>3 DEF Sound, Working
<1> QED BY <1>2, <1>3, <1>4 DEF CapInv

LEMMA CapStep == CapInv /\ [Next]_vars => CapInv'
<1> SUFFICES ASSUME CapInv, [Next]_vars PROVE CapInv'
  OBVIOUS
<1>1. CASE Submit /\ UNCHANGED tag
  <2>1. /\ arrived \in 0 .. NumSlots /\ arrived < NumSlots /\ NumSlots \in Nat
        /\ queue \in Seq(Slots)
    BY <1>1, NumSlotsAssumption DEF CapInv, FieldsTyped, Submit
  <2>2. arrived + 1 \in Slots /\ arrived + 1 \in 0 .. NumSlots
    BY <2>1 DEF Slots
  <2>3. queue' \in Seq(Slots)
    BY <1>1, <2>1, <2>2, AppendLemma DEF Submit
  <2> QED BY <1>1, <2>2, <2>3, QueueKeeps DEF Submit
<1>2. CASE BeginShutdown /\ UNCHANGED tag
  BY <1>2, QueueKeeps DEF BeginShutdown, CapInv, FieldsTyped
<1>3. CASE LoopStep /\ UNCHANGED tag
  <2>1. CASE \E r \in Slots : DriverStep(r)
    BY <1>3, <2>1, LoadStepKeeps, ServeStepKeeps, GraceStepKeeps, IdleStepKeeps, ExitStepKeeps
       DEF DriverStep
  <2> QED BY <1>3, <2>1, ShutdownStepKeeps, BgStepKeeps, DispatchKeeps DEF LoopStep
<1>4. CASE UNCHANGED vars
  BY <1>4, QueueKeeps DEF vars, CapInv, FieldsTyped
<1> QED BY <1>1, <1>2, <1>3, <1>4 DEF Next

\* Whatever is routed, reserved, evicted, handed over from idle or torn down: at
\* most max_parallel_sidecars residents, one per model, and no sidecar is given
\* more slots at once than its --parallel.
THEOREM CapacityHeld == Spec => []CapacityKept
<1>1. CapInv => CapacityKept
  BY DEF CapInv, RegistryBounded, Sound, CapacityKept
<1> QED BY <1>1, CapInit, CapStep, PTL DEF Spec
=============================================================================
