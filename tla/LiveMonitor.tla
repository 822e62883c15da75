---------------------------- MODULE LiveMonitor ----------------------------
(***************************************************************************)
(* The live view of what the sidecars decode: live_monitor.py, the tee of    *)
(* the streaming route and the SSE endpoint of live_stream.py.               *)
(*                                                                          *)
(* Two planes meet in the generation id.  The metrics plane asks each        *)
(* sidecar for GET /slots about once a second and publishes a block whose id *)
(* is the anchor: LiveSlotsPoller into `primary` with one sidecar,           *)
(* LiveResidentsSupervisor into gens[t] for each resident with more.  The    *)
(* text plane keeps a buffer per generation, fed by the tee; a reader        *)
(* follows the anchor and subscribes to the buffer it names.                 *)
(*                                                                          *)
(* All of it runs in one event loop without locks.  A generation id, a hash  *)
(* of pid, spawn_seq and slot, is a number here, given in order of service;  *)
(* of a block only the id and whether its state counts as active are kept.   *)
(* Text is abstracted to pieces; rates and their EWMA are left out.          *)
(***************************************************************************)
EXTENDS Integers, Sequences, FiniteSets, SequencesExt

CONSTANTS Tags,       \* models
          Readers,    \* SSE connections
          Wants,      \* Wants[r]: what r asks for: a model, or "primary"
          MaxKeys,    \* MAX_LIVE_KEYS
          QueueMax,   \* maxsize of a subscriber's queue
          HoldTicks,  \* TRANSIENT_HOLD_TICKS
          MaxGens,    \* bound on generations
          MaxSpawns   \* bound on residents ever made for one model

ASSUME LimitsAssumption ==
  /\ MaxKeys \in Nat \ {0} /\ QueueMax \in Nat \ {0} /\ HoldTicks \in Nat \ {0}
  /\ MaxGens \in Nat /\ MaxSpawns \in Nat /\ IsFiniteSet(Readers)
  /\ Wants \in [Readers -> Tags \cup {"primary"}]

VARIABLES
  multi,      \* max_parallel_sidecars >= 2: the supervisor runs, not the poller
  res,        \* res[t]: the resident of t, its spawn number and whether it lives
  handles,    \* <<t, spawn>> whose handle a poll can still find
  serve,      \* serve[t]: the generation of the slot that decodes on t, or 0
  used,       \* generations so far
  tees,       \* generations whose streaming route is open
  poll,       \* poll[t]: the poll of t in this tick, and what it captured
  sup,        \* "sleep" or "tick"
  gens,       \* live_generations
  primary,    \* live_generation
  hold, ticks,  \* _held_active_gen, _transient_ticks
  bufs, done, \* LiveOutputBuffer: ids in LRU order, and those marked done
  reader,     \* reader[r]: the connection r
  newest      \* ghost: the newest generation an anchor of a poller ever named

world   == <<multi, res, handles, serve, used>>
metrics == <<poll, sup, gens, primary, hold, ticks, newest>>
text    == <<bufs, done, reader>>
vars    == <<world, tees, metrics, text>>

Gens    == 1 .. MaxGens
Missing == [id |-> 0, is |-> "missing"]
Quiet   == [id |-> 0, is |-> "quiet"]       \* idle or transitioning
Loading == [id |-> 0, is |-> "active"]
Blocks  == [id : 0 .. MaxGens, is : {"missing", "quiet", "active"}]
NoPoll  == [at |-> "none", id |-> 0, spawn |-> 0]
Fresh   == [cur |-> 0, open |-> FALSE, queue |-> <<>>]   \* a new connection
Anchors == Tags \cup {"primary"}

Init ==
  /\ multi \in BOOLEAN
  /\ res = [t \in Tags |-> [spawn |-> 0, up |-> FALSE]] /\ handles = {}
  /\ serve = [t \in Tags |-> 0] /\ used = 0
  /\ tees = {}
  /\ poll = [t \in Tags |-> NoPoll] /\ sup = "sleep"
  /\ gens = [t \in Tags |-> Missing] /\ primary = Missing
  /\ hold = Missing /\ ticks = 0
  /\ bufs = <<>> /\ done = {}
  /\ reader = [r \in Readers |-> Fresh]
  /\ newest = [a \in Anchors |-> 0]

-----------------------------------------------------------------------------
(* What the monitor observes: sidecars come and go, slots are served. *)

Live == {t \in Tags : res[t].up}

Spawn(t) ==
  /\ ~res[t].up /\ res[t].spawn < MaxSpawns
  /\ multi \/ Live = {}
  /\ res' = [res EXCEPT ![t] = [spawn |-> @.spawn + 1, up |-> TRUE]]
  /\ handles' = {<<t, res[t].spawn + 1>>} \cup (IF multi THEN handles ELSE {})
  /\ serve' = [serve EXCEPT ![t] = 0]
  /\ UNCHANGED <<multi, used, tees, metrics, text>>

\* A slot, or in its grace a matched one, becomes active; a streaming route opens
\* its tee.
BeginSlot(t) ==
  /\ res[t].up /\ serve[t] = 0 /\ used < MaxGens
  /\ used' = used + 1
  /\ serve' = [serve EXCEPT ![t] = used + 1]
  /\ tees' = tees \cup {used + 1} \/ UNCHANGED tees
  /\ UNCHANGED <<multi, res, handles, metrics, text>>

\* A streaming rider of a fan-out feeds a buffer of its own, which no anchor names.
BeginRide(t) ==
  /\ serve[t] # 0 /\ used < MaxGens
  /\ used' = used + 1 /\ tees' = tees \cup {used + 1}
  /\ UNCHANGED <<multi, res, handles, serve, metrics, text>>

\* It goes on to grace, in its own time or cut short with the tee still open.
EndSlot(t) ==
  /\ serve[t] # 0
  /\ serve' = [serve EXCEPT ![t] = 0]
  /\ UNCHANGED <<multi, res, handles, used, tees, metrics, text>>

\* The resident is deregistered at once; its handle is claimed by a task.
Die(t) ==
  /\ res[t].up
  /\ res' = [res EXCEPT ![t].up = FALSE]
  /\ serve' = [serve EXCEPT ![t] = 0]
  /\ UNCHANGED <<multi, handles, used, tees, metrics, text>>

Claim(h) ==
  /\ h \in handles /\ h \notin {<<t, res[t].spawn>> : t \in Live}
  /\ handles' = handles \ {h}
  /\ UNCHANGED <<multi, res, serve, used, tees, metrics, text>>

\* The generation is no longer in service.
Past(g) == g <= used /\ \A t \in Tags : serve[t] # g

-----------------------------------------------------------------------------
(* Metrics plane. *)

Publish(a, b) ==
  newest' = [newest EXCEPT ![a] = IF b.id > @ THEN b.id ELSE @]

\* LiveSlotsPoller._store.  An active block is shown at once; after it, quiet
\* ones of the same or no generation are held back until HoldTicks in a row.
Other(b)   == hold # Missing /\ b.id \notin {0, hold.id}
Patient(b) == b.is = "quiet" /\ hold # Missing /\ ~Other(b) /\ ticks + 1 < HoldTicks

HeldOn(b) ==  \* mutant: the hold outlives the block of another generation
  IF b.is = "active" THEN b ELSE IF Patient(b) \/ Other(b) THEN hold ELSE Missing

Held(b) == IF b.is = "active" THEN b ELSE IF Patient(b) THEN hold ELSE Missing

Store(b) ==
  LET out == IF Patient(b) THEN hold ELSE b IN
  /\ primary' = out /\ Publish("primary", out)
  /\ hold' = Held(b)
  /\ ticks' = IF b.is = "active" \/ Other(b) THEN 0
              ELSE IF hold # Missing THEN ticks + 1 ELSE ticks

\* LiveResidentsSupervisor._poll_one: nothing is published for a model that has
\* no live resident by now.
Result(t, b) ==
  LET out == IF res[t].up THEN b ELSE Missing IN
  /\ poll' = [poll EXCEPT ![t].at = "over", ![t].id = 0]
  /\ IF multi THEN /\ gens' = [gens EXCEPT ![t] = out] /\ Publish(t, out)
                   /\ UNCHANGED <<primary, hold, ticks>>
     ELSE Store(b) /\ UNCHANGED gens

\* The tick up to the awaits: the supervisor captures every live resident, the
\* single poller the one in service.  Without a slot that decodes, the block is
\* quiet, or says that it loads, at once; otherwise /slots is asked.  (A resident that dies before its
\* poll begins is not asked, or is and the answer is refused: both end alike.)
BeginTick ==
  LET asked == {t \in Live : serve[t] # 0} IN
  /\ sup = "sleep" /\ sup' = "tick"
  /\ poll' = [t \in Tags |->
                CASE t \in asked -> [at |-> "asked", id |-> serve[t], spawn |-> res[t].spawn]
                  [] t \in Live \ asked -> [NoPoll EXCEPT !.at = "over"]
                  [] OTHER -> NoPoll]
  /\ gens' = IF multi THEN [t \in Tags |-> IF t \in Live \ asked THEN Quiet ELSE gens[t]] ELSE gens
  /\ IF multi \/ asked # {} THEN UNCHANGED <<primary, hold, ticks, newest>>
     ELSE Store(Quiet) \/ (Live # {} /\ Store(Loading))
  /\ UNCHANGED <<world, tees, text>>

\* A failure, a timeout, or an answer, taken only if the captured resident still
\* has its handle.  The slot is not checked again: the sidecar may be at work for
\* the next one by now.
EndPoll(t) ==
  /\ poll[t].at = "asked"
  /\ \/ Result(t, Quiet)
     \/ /\ <<t, poll[t].spawn>> \in handles
        /\ \E is \in {"quiet", "active"} : Result(t, [id |-> poll[t].id, is |-> is])
  /\ UNCHANGED <<world, tees, sup, text>>

NoneCollected == gens   \* mutant: a vanished model keeps its block

\* _gc_vanished: models that were not polled in this tick.
Collected == [t \in Tags |-> IF poll[t].at = "none" THEN Missing ELSE gens[t]]

\* When every poll of the tick is over.  The block of the most recently active
\* resident, any of them here, is mirrored.
EndTick ==
  /\ sup = "tick" /\ sup' = "sleep"
  /\ \A t \in Tags : poll[t].at # "asked"
  /\ poll' = [t \in Tags |-> NoPoll]
  /\ IF multi
       THEN LET blocks == {Collected[t] : t \in Tags} \ {Missing} IN
            /\ gens' = Collected
            /\ primary' \in IF blocks = {} THEN {Missing} ELSE blocks
       ELSE UNCHANGED <<gens, primary>>
  /\ UNCHANGED <<world, tees, hold, ticks, newest, text>>

Monitor == BeginTick \/ EndTick \/ \E t \in Tags : EndPoll(t)

-----------------------------------------------------------------------------
(* Text plane. *)

Subscribers(g) == {r \in Readers : reader[r].open /\ reader[r].cur = g}
WatchedBy(R)   == {reader[r].cur : r \in {x \in R : reader[x].open}}

\* What is left of seq, which repeats nothing, of the elements of K, in its order.
Only(seq, K) ==
  LET left == ToSet(seq) \cap K IN
  CHOOSE q \in [1 .. Cardinality(left) -> left] :
    \A i, j \in DOMAIN q : i < j =>
      \E k, l \in DOMAIN seq : k < l /\ seq[k] = q[i] /\ seq[l] = q[j]

Without(seq, g) == RemoveFirst(seq, g)

EvictedBlindly(seq, watched) ==  \* mutant: the oldest goes, watched or not
  IF Len(seq) > MaxKeys THEN Tail(seq) ELSE seq

\* _evict: the oldest buffers without a subscriber, while there are too many.
Evicted(seq, watched) ==
  LET free == Only(seq, Gens \ watched)
      many == IF Len(free) < Len(seq) - MaxKeys THEN Len(free) ELSE Len(seq) - MaxKeys IN
  IF Len(seq) <= MaxKeys THEN seq
  ELSE Only(seq, Gens \ ToSet(SubSeq(free, 1, many)))

\* _get with create.  If every older buffer is watched the new one itself is
\* evicted, and touching it raises KeyError.
Got(seq, g, watched) ==
  IF g \in ToSet(seq) THEN Append(Without(seq, g), g) ELSE Evicted(Append(seq, g), watched)

OfferedUnbounded(g, item) ==  \* mutant
  [r \in Readers |-> IF r \in Subscribers(g) THEN [reader[r] EXCEPT !.queue = Append(@, item)]
                     ELSE reader[r]]

\* put_nowait for every subscriber; a full queue drops the item.
Offered(g, item) ==
  [r \in Readers |-> IF r \in Subscribers(g) /\ Len(reader[r].queue) < QueueMax
                     THEN [reader[r] EXCEPT !.queue = Append(@, item)] ELSE reader[r]]

\* A piece of text through the tees, which swallows the KeyError.
Feed(g) ==
  /\ g \in tees
  /\ bufs' = Got(bufs, g, WatchedBy(Readers))
  /\ done' = done \cap ToSet(bufs')
  /\ reader' = IF g \in ToSet(bufs') THEN Offered(g, "piece") ELSE reader
  /\ UNCHANGED <<world, tees, metrics>>

\* The streaming route ends: mark_done, whose sentinel a full queue drops too.
CloseTee(g) ==
  /\ g \in tees
  /\ tees' = tees \ {g}
  /\ done' = done \cup ({g} \cap ToSet(bufs))
  /\ reader' = Offered(g, "end")
  /\ UNCHANGED <<world, metrics, bufs>>

\* unsubscribe: a finished buffer goes with its last reader.
LeftBy(r) ==
  LET g == reader[r].cur IN
  IF Subscribers(g) = {r} /\ g \in done THEN Without(bufs, g) ELSE bufs

Anchor(r) == IF Wants[r] = "primary" THEN primary.id ELSE gens[Wants[r]].id

\* The anchor changed: unsubscribe, and subscribe to what it names, if anything.
\* A finished generation is replayed and left, as if its end were in the queue.
\* The KeyError ends the connection; the browser opens another.
Follow(r) ==
  LET a == Anchor(r) IN
  /\ a # reader[r].cur
  /\ bufs' = IF a = 0 THEN LeftBy(r) ELSE Got(LeftBy(r), a, WatchedBy(Readers \ {r}))
  /\ done' = done \cap ToSet(bufs')
  /\ reader' = [reader EXCEPT ![r] =
       IF a # 0 /\ a \notin ToSet(bufs') THEN Fresh
       ELSE [@ EXCEPT !.cur = a, !.open = (a # 0),
                      !.queue = IF a \in done' THEN <<"end">> ELSE <<>>]]
  /\ UNCHANGED <<world, tees, metrics>>

Take(r) ==
  /\ reader[r].queue # <<>>
  /\ IF Head(reader[r].queue) = "end"
       THEN /\ bufs' = LeftBy(r)
            /\ reader' = [reader EXCEPT ![r].open = FALSE, ![r].queue = <<>>]
       ELSE /\ reader' = [reader EXCEPT ![r].queue = Tail(@)]
            /\ UNCHANGED bufs
  /\ done' = done \cap ToSet(bufs')
  /\ UNCHANGED <<world, tees, metrics>>

Disconnect(r) ==
  /\ reader[r].cur # 0
  /\ bufs' = LeftBy(r)
  /\ done' = done \cap ToSet(bufs')
  /\ reader' = [reader EXCEPT ![r] = Fresh]
  /\ UNCHANGED <<world, tees, metrics>>

-----------------------------------------------------------------------------
Next ==
  \/ \E t \in Tags : Spawn(t) \/ BeginSlot(t) \/ BeginRide(t) \/ EndSlot(t) \/ Die(t)
  \/ \E h \in handles : Claim(h)
  \/ Monitor
  \/ \E g \in Gens : Feed(g) \/ CloseTee(g)
  \/ \E r \in Readers : Follow(r) \/ Take(r) \/ Disconnect(r)

\* The ticks go on, a GET /slots is answered or times out, and a connection looks
\* at its anchor at least once a second.  No stream needs to end.
Fairness == WF_vars(Monitor) /\ \A r \in Readers : WF_vars(Follow(r))

Spec == Init /\ [][Next]_vars /\ Fairness

-----------------------------------------------------------------------------
(* Properties. *)

\* Every variable has its type; no subscriber's queue outgrows its bound.
TypeOK ==
  /\ multi \in BOOLEAN
  /\ res \in [Tags -> [spawn : 0 .. MaxSpawns, up : BOOLEAN]]
  /\ handles \in SUBSET (Tags \X (1 .. MaxSpawns))
  /\ serve \in [Tags -> 0 .. MaxGens] /\ used \in 0 .. MaxGens /\ tees \in SUBSET Gens
  /\ poll \in [Tags -> [at : {"none", "asked", "over"}, id : 0 .. MaxGens,
                        spawn : 0 .. MaxSpawns]]
  /\ sup \in {"sleep", "tick"} /\ gens \in [Tags -> Blocks] /\ primary \in Blocks
  /\ hold \in Blocks /\ ticks \in 0 .. HoldTicks
  /\ newest \in [Anchors -> 0 .. MaxGens]
  /\ bufs \in Seq(Gens) /\ IsInjective(bufs) /\ done \in SUBSET Gens
  /\ \A r \in Readers :
       /\ reader[r].cur \in 0 .. MaxGens /\ reader[r].open \in BOOLEAN
       /\ Len(reader[r].queue) <= QueueMax

\* A subscriber's buffer is never evicted under it, and what is kept beyond
\* MAX_LIVE_KEYS is kept for subscribers, in whatever order generations are fed,
\* finished, followed and left.
BuffersKept ==
  /\ WatchedBy(Readers) \subseteq ToSet(bufs)
  /\ Len(bufs) <= MaxKeys \/ Len(bufs) <= Cardinality(Readers)

\* An anchor never goes back to a generation older than one it has named: neither
\* the hold of the debounce nor a late answer brings a finished one back to the
\* pane.  (With residents the primary anchor moves between models.)
AnchorNeverReturns ==
  /\ \A t \in Tags : gens[t].id \in {0, newest[t]}
  /\ ~multi => primary.id \in {0, newest["primary"]}

Behind(r) == reader[r].cur # 0 /\ Past(reader[r].cur)

\* A reader does not stay with a generation that is over, even if the end of its
\* text was dropped, its resident died in the middle of a poll, or the model was
\* loaded again.
PaneMovesOn ==
  \A r \in Readers : Behind(r) ~> ~Behind(r)
=============================================================================
