--------------------------- MODULE TurbohaulQueue ---------------------------
(***************************************************************************)
(* The two-tier request queue (queue.py, class TurbohaulQueue): a staging  *)
(* tier from which the worker pops, and an acceptance buffer behind it.    *)
(* Every method holds self._lock for its whole body and awaits nothing     *)
(* inside, so a method is one atomic step of the event loop.               *)
(*                                                                         *)
(* A slot is the number of its arrival: slots are created and enqueued in  *)
(* one step (manager.submit), so slot numbers are ordered as created_at.   *)
(***************************************************************************)
EXTENDS SequencesExt

CONSTANTS
    NumSlots,        \* requests that ever arrive (bound)
    Models,          \* model tags
    Threads,         \* thread ids
    NoModel,         \* no warm hint / nothing popped yet (None)
    StagingMax,      \* staging_max
    AcceptanceMax,   \* acceptance_max
    RunCaps,         \* values of max_consecutive_same_model
    MaxHeadInserts,  \* calls of enqueue_head (bound)
    MaxDisconnects   \* clients that leave (bound)

ASSUME NumSlotsAssumption == NumSlots \in Nat
ASSUME NoModelAssumption == NoModel \notin Models
\* QueueConfig: Field(ge=1) on all three.
ASSUME CapsAssumption == /\ StagingMax \in Nat \ {0}
                         /\ AcceptanceMax \in Nat \ {0}
                         /\ RunCaps \subseteq Nat \ {0}
ASSUME BoundsAssumption == MaxHeadInserts \in Nat /\ MaxDisconnects \in Nat

Slots == 1 .. NumSlots

VARIABLES
    tag,           \* [Slots -> Models]: slot.model_tag
    thread,        \* [Slots -> Threads]: slot.thread_id
    state,         \* slot.state as far as the queue writes it
    staging,       \* self._staging
    acceptBuf,     \* self._accept_buf
    closed,        \* self._closed
    runCap,        \* self.max_consecutive_same_model
    consecutive,   \* self._consecutive_same_model
    lastPopped,    \* self._last_popped_model_tag
    arrived,       \* slots 1 .. arrived were submitted
    aged,          \* slots 1 .. aged waited longer than max_other_model_wait_s
    disconnected,  \* slots whose disconnect_event is set
    evicted,       \* slots with is_evicted = True
    held,          \* popped slots their caller still answers for
    gone,          \* slots that are served, failed or were refused
    headInserts    \* number of enqueue_head calls so far

given   == <<tag, thread, runCap>>
tiers   == <<state, staging, acceptBuf>>
runLen  == <<consecutive, lastPopped>>
clients == <<arrived, aged, disconnected>>
vars == <<given, tiers, runLen, clients, closed, evicted, held, gone,
          headInserts>>

Queued == ToSet(staging) \cup ToSet(acceptBuf)

Init ==
    /\ tag \in [Slots -> Models] /\ thread \in [Slots -> Threads]
    /\ runCap \in RunCaps
    /\ state = [s \in Slots |-> "RECEIVED"]
    /\ staging = <<>> /\ acceptBuf = <<>> /\ closed = FALSE
    /\ consecutive = 0 /\ lastPopped = NoModel
    /\ arrived = 0 /\ aged = 0 /\ disconnected = {}
    /\ evicted = {} /\ held = {} /\ gone = {} /\ headInserts = 0

-----------------------------------------------------------------------------
(* Submission: the next slot arrives and is enqueued in the same step.     *)

Arrive(s) == s = arrived + 1 /\ s \in Slots /\ arrived' = s

RoomOffByOne == Len(staging) <= StagingMax  \* mutant: one slot too many
StagingHasRoom == Len(staging) < StagingMax

\* enqueue: staging if there is room, else the buffer, else QueueFull; a
\* closed queue raises QueueClosed. A refused slot never gets a taker.
Enqueue(s) ==
    /\ Arrive(s)
    /\ \/ /\ ~closed /\ StagingHasRoom
          /\ staging' = Append(staging, s)
          /\ state' = [state EXCEPT ![s] = "STAGED"]
          /\ UNCHANGED <<acceptBuf, gone>>
       \/ /\ ~closed /\ ~StagingHasRoom /\ Len(acceptBuf) < AcceptanceMax
          /\ acceptBuf' = Append(acceptBuf, s)
          /\ state' = [state EXCEPT ![s] = "ACCEPT_BUFFER"]
          /\ UNCHANGED <<staging, gone>>
       \/ /\ \/ closed
             \/ ~StagingHasRoom /\ Len(acceptBuf) >= AcceptanceMax
          /\ gone' = gone \cup {s}
          /\ UNCHANGED tiers
    /\ UNCHANGED <<given, runLen, aged, disconnected, closed, evicted, held,
                   headInserts>>

\* enqueue_head, whatever the depth of staging; the caller counts.
InsertHead(s) ==
    /\ ~closed /\ headInserts < MaxHeadInserts
    /\ headInserts' = headInserts + 1
    /\ staging' = <<s>> \o staging
    /\ state' = [state EXCEPT ![s] = "STAGED"]
    /\ UNCHANGED acceptBuf

\* submit inside an open grace window of the same thread and model.
EnqueueFollowUp(s) ==
    /\ Arrive(s) /\ InsertHead(s)
    /\ UNCHANGED <<given, runLen, aged, disconnected, closed, evicted, held,
                   gone>>

\* A fan-out push-back or a requeue of a slot that was popped before; the
\* fan-out pushes back before it looks at is_evicted.
PushBack(s) ==
    /\ s \in held
    /\ InsertHead(s)
    /\ held' = held \ {s}
    /\ UNCHANGED <<given, runLen, clients, closed, evicted, gone>>

-----------------------------------------------------------------------------
(* Pops.                                                                   *)

\* Mutant: the pop does not look at disconnect_event.
HandOutUnflagged(s) ==
    /\ held' = held \cup {s}
    /\ UNCHANGED <<given, clients, closed, evicted, gone, headInserts>>

\* The popped slot s leaves with its eviction flag.
HandOut(s) ==
    /\ held' = held \cup {s}
    /\ evicted' = IF s \in disconnected THEN evicted \cup {s} ELSE evicted
    /\ UNCHANGED <<given, clients, closed, gone, headInserts>>

\* Mutant: a model change restarts the run at zero.
RunLengthFromZero(s) ==
    /\ lastPopped' = tag[s]
    /\ consecutive' = IF tag[s] = lastPopped THEN consecutive + 1 ELSE 0

\* _update_run_length_locked
UpdateRunLength(s) ==
    /\ lastPopped' = tag[s]
    /\ consecutive' = IF tag[s] = lastPopped THEN consecutive + 1 ELSE 1

\* Mutant: the slot moves up without its fsm_transition.
ReplenishUntransitioned(rest) ==
    \/ /\ acceptBuf # <<>> /\ Len(rest) < StagingMax
       /\ staging' = Append(rest, Head(acceptBuf))
       /\ acceptBuf' = Tail(acceptBuf)
       /\ UNCHANGED state
    \/ /\ acceptBuf = <<>> \/ Len(rest) >= StagingMax
       /\ staging' = rest
       /\ UNCHANGED <<acceptBuf, state>>

\* The staging tier is now rest: one buffered slot moves up if there is room.
Replenish(rest) ==
    \/ /\ acceptBuf # <<>> /\ Len(rest) < StagingMax
       /\ staging' = Append(rest, Head(acceptBuf))
       /\ acceptBuf' = Tail(acceptBuf)
       /\ state' = [state EXCEPT ![Head(acceptBuf)] = "STAGED"]
    \/ /\ acceptBuf = <<>> \/ Len(rest) >= StagingMax
       /\ staging' = rest
       /\ UNCHANGED <<acceptBuf, state>>

NeverStarved(warm) == FALSE  \* mutant: the age limit is ignored
HeadStarved(warm) == tag[Head(staging)] # warm /\ Head(staging) <= aged
BatchCapLate == consecutive > runCap  \* mutant: off by one
BatchCapHit == consecutive >= runCap

\* Positions _pop_first_matching_non_evicted_from may return: it scans at
\* most staging_max entries, also when head inserts made staging longer.
Matching(warm) ==
    {i \in DOMAIN staging : i <= StagingMax /\ tag[staging[i]] = warm}

\* pop_next takes position i of a non-empty staging tier.
PopIndex(warm, i) ==
    \/ /\ i = 1
       /\ \/ warm = NoModel
          \/ HeadStarved(warm)
          \/ BatchCapHit
          \/ Matching(warm) = {}
    \/ /\ warm # NoModel /\ ~HeadStarved(warm) /\ ~BatchCapHit
       /\ i \in Matching(warm)
       /\ \A j \in Matching(warm) : i <= j

\* Mutant: the match is handed out, the head is deleted.
PopStagedDeletesHead(warm) ==
    /\ staging # <<>>
    /\ \E i \in DOMAIN staging :
          /\ PopIndex(warm, i)
          /\ Replenish(RemoveAt(staging, 1))
          /\ UpdateRunLength(staging[i])
          /\ HandOut(staging[i])

PopStaged(warm) ==
    /\ staging # <<>>
    /\ \E i \in DOMAIN staging :
          /\ PopIndex(warm, i)
          /\ Replenish(RemoveAt(staging, i))
          /\ UpdateRunLength(staging[i])
          /\ HandOut(staging[i])

NoDrain == FALSE  \* mutant: an empty staging tier ends the pop

\* Staging is empty: the buffer drains into it up to staging_max, and the
\* head leaves. The hint is not consulted.
DrainAndPop ==
    /\ staging = <<>> /\ acceptBuf # <<>>
    /\ \E k \in 1 .. Len(acceptBuf) :
          /\ k <= StagingMax /\ (k = StagingMax \/ k = Len(acceptBuf))
          /\ staging' = SubSeq(acceptBuf, 2, k)
          /\ acceptBuf' = SubSeq(acceptBuf, k + 1, Len(acceptBuf))
          /\ state' = [s \in Slots |->
                         IF \E i \in 1 .. k : acceptBuf[i] = s
                         THEN "STAGED" ELSE state[s]]
    /\ UpdateRunLength(Head(acceptBuf))
    /\ HandOut(Head(acceptBuf))

\* The callers' hint is None until a model was loaded, that is until a slot
\* was popped; afterwards the warm model may be any.
Hints == IF lastPopped = NoModel THEN {NoModel} ELSE Models \cup {NoModel}

PopNext(warm) == warm \in Hints /\ (PopStaged(warm) \/ DrainAndPop)

\* pop_matched_thread: the first staged slot of the thread and the model. It
\* neither replenishes staging nor counts for the run length.
PopMatchedThread(th, m) ==
    \E i \in DOMAIN staging :
       /\ thread[staging[i]] = th /\ tag[staging[i]] = m
       /\ \A j \in 1 .. i - 1 :
             ~(thread[staging[j]] = th /\ tag[staging[j]] = m)
       /\ staging' = RemoveAt(staging, i)
       /\ HandOut(staging[i])
       /\ UNCHANGED <<state, acceptBuf, runLen>>

-----------------------------------------------------------------------------
(* Other operations, the caller and the clients.                           *)

\* remove: by id, from either tier (no caller in the source).
RemoveById(s) ==
    /\ \/ \E i \in DOMAIN staging :
             /\ staging[i] = s
             /\ staging' = RemoveAt(staging, i) /\ UNCHANGED acceptBuf
       \/ \E i \in DOMAIN acceptBuf :
             /\ acceptBuf[i] = s
             /\ acceptBuf' = RemoveAt(acceptBuf, i) /\ UNCHANGED staging
    /\ gone' = gone \cup {s}
    /\ UNCHANGED <<given, state, runLen, clients, closed, evicted, held,
                   headInserts>>

\* Mutant: the cleared slots are not returned (the bug its docstring recalls).
CloseClobbers ==
    /\ closed' = TRUE
    /\ staging' = <<>> /\ acceptBuf' = <<>>
    /\ UNCHANGED <<given, state, runLen, clients, evicted, held, gone,
                   headInserts>>

\* close: the cleared slots go to shutdown, which fails their futures.
Close ==
    /\ closed' = TRUE
    /\ held' = held \cup Queued
    /\ staging' = <<>> /\ acceptBuf' = <<>>
    /\ UNCHANGED <<given, state, runLen, clients, evicted, gone, headInserts>>

\* The caller served or failed the slot.
Finish(s) ==
    /\ s \in held
    /\ held' = held \ {s} /\ gone' = gone \cup {s}
    /\ UNCHANGED <<given, tiers, runLen, clients, closed, evicted,
                   headInserts>>

\* watch_disconnect sets the slot's event; after the answer nobody looks.
Disconnect(s) ==
    /\ s \in Queued \cup held /\ s \notin disconnected
    /\ Cardinality(disconnected) < MaxDisconnects
    /\ disconnected' = disconnected \cup {s}
    /\ UNCHANGED <<given, tiers, runLen, arrived, aged, closed, evicted,
                   held, gone, headInserts>>

\* Time passes: the oldest slot not yet past max_other_model_wait_s is now.
Age ==
    /\ aged < arrived /\ aged' = aged + 1
    /\ UNCHANGED <<given, tiers, runLen, arrived, disconnected, closed,
                   evicted, held, gone, headInserts>>

Pop == \E warm \in Models \cup {NoModel} : PopNext(warm)
Match == \E th \in Threads, m \in Models : PopMatchedThread(th, m)

Next ==
    \/ \E s \in Slots : \/ Enqueue(s) \/ EnqueueFollowUp(s) \/ PushBack(s)
                        \/ RemoveById(s) \/ Finish(s) \/ Disconnect(s)
    \/ Pop \/ Match \/ Close \/ Age

\* worker_loop pops forever; whoever popped a slot ends up resolving it.
Fairness == /\ WF_vars(Pop)
            /\ \A s \in Slots : WF_vars(Finish(s))

Spec == Init /\ [][Next]_vars
FairSpec == Spec /\ Fairness

-----------------------------------------------------------------------------
(* Properties.                                                             *)

\* Type correctness of the queue's fields and of the slots' queue states.
TypeOK ==
    /\ tag \in [Slots -> Models] /\ thread \in [Slots -> Threads]
    /\ runCap \in RunCaps
    /\ state \in [Slots -> {"RECEIVED", "ACCEPT_BUFFER", "STAGED"}]
    /\ staging \in Seq(Slots) /\ acceptBuf \in Seq(Slots)
    /\ closed \in BOOLEAN
    /\ consecutive \in Nat /\ lastPopped \in Models \cup {NoModel}
    /\ consecutive = 0 <=> lastPopped = NoModel
    /\ arrived \in 0 .. NumSlots /\ aged \in 0 .. arrived
    /\ disconnected \subseteq Slots /\ evicted \subseteq Slots
    /\ held \subseteq Slots /\ gone \subseteq Slots
    /\ headInserts \in 0 .. MaxHeadInserts

\* No slot is ever lost or duplicated: across push-backs, mid-queue removals,
\* drains and close, each slot that arrived is exactly once in staging, in the
\* buffer, in a caller's hands, or gone (deque surgery in queue.py:98-228).
EachSlotOnce ==
    /\ \A i, j \in DOMAIN staging : staging[i] = staging[j] => i = j
    /\ \A i, j \in DOMAIN acceptBuf : acceptBuf[i] = acceptBuf[j] => i = j
    /\ ToSet(staging) \cap ToSet(acceptBuf) = {}
    /\ Queued \cap held = {} /\ Queued \cap gone = {} /\ held \cap gone = {}
    /\ Queued \cup held \cup gone = 1 .. arrived

\* The tier a slot is in agrees with slot.state, so no fsm_transition of the
\* queue raises InvalidTransition half way through a pop (a slot popped off
\* the buffer would be lost).
TierMatchesState ==
    /\ \A s \in ToSet(staging) : state[s] = "STAGED"
    /\ \A s \in ToSet(acceptBuf) : state[s] = "ACCEPT_BUFFER"
    /\ \A s \in Slots : s > arrived => state[s] = "RECEIVED"

\* Requests wait in the buffer in arrival order, and only head inserts take
\* staging beyond its cap.
TiersBounded ==
    /\ \A i, j \in DOMAIN acceptBuf : i < j => acceptBuf[i] < acceptBuf[j]
    /\ Len(acceptBuf) <= AcceptanceMax
    /\ Len(staging) <= StagingMax + headInserts

\* Only pop_next changes the run length, and it always does.
PopNextStep == runLen' # runLen

\* Once the staging head waited longer than max_other_model_wait_s no warm
\* model is served before it, whatever the run length says (queue.py:197-208).
AgedHeadGoesNext ==
    [][PopNextStep /\ staging # <<>> /\ Head(staging) <= aged
          => Head(staging) \in held']_vars

\* A slot whose client left is handed out with its eviction flag, on every pop
\* path, also when it was pushed back before (queue.py:103, 147, 296).
DisconnectedIsFlagged ==
    [][\A s \in held' \ held : s \in disconnected /\ closed' = closed
                                => s \in evicted']_vars

\* Every queued request is eventually served, failed or refused, in particular
\* one left in the buffer when grace matches emptied staging.
QueuedIsServed == \A s \in Slots : s \in Queued ~> s \in gone

\* The queue implements the abstract pool.
Pool == INSTANCE SlotPool WITH waiting <- Queued, open <- ~closed
RefinesPool == Pool!PoolSpec
=============================================================================
