------------------------ MODULE TurbohaulQueue_proofs ------------------------
(***************************************************************************)
(* Proofs about the queue for every number of slots, models, threads and   *)
(* every capacity: its types, that no slot is lost or duplicated, that the *)
(* tiers agree with the slots' states, and that it implements SlotPool.    *)
(*                                                                         *)
(* TypeOK /\ EachSlotOnce is inductive. Each operation first gets a lemma  *)
(* on what it does to the two tiers; the step lemmas then only do sets.    *)
(***************************************************************************)
EXTENDS QueueFairness, SequenceLemmas

States == {"RECEIVED", "ACCEPT_BUFFER", "STAGED"}

\* The tiers by themselves: typed, without repetition, disjoint.
TiersOK ==
    /\ staging \in Seq(Slots) /\ acceptBuf \in Seq(Slots)
    /\ state \in [Slots -> States]
    /\ NoRepeat(staging) /\ NoRepeat(acceptBuf)
    /\ ToSet(staging) \cap ToSet(acceptBuf) = {}

\* The other half of EachSlotOnce: where the slots are.
Placed ==
    /\ Queued \cap held = {} /\ Queued \cap gone = {} /\ held \cap gone = {}
    /\ Queued \cup held \cup gone = 1 .. arrived

\* The slots' states agree with the tiers.
StatesMatch ==
    /\ \A s \in ToSet(staging) : state[s] = "STAGED"
    /\ \A s \in ToSet(acceptBuf) : state[s] = "ACCEPT_BUFFER"

Inv == TypeOK /\ EachSlotOnce

\* The invariant in the terms of the lemmas below.
LEMMA InvParts == EachSlotOnce /\ TypeOK => TiersOK /\ Placed
BY DEF EachSlotOnce, TypeOK, TiersOK, Placed, NoRepeat, States

\* And back.
LEMMA InvFromParts == TypeOK /\ TiersOK /\ Placed => Inv
BY DEF Inv, EachSlotOnce, TypeOK, TiersOK, Placed, NoRepeat

\* Slots are numbers, and those that arrived are among them.
LEMMA QueuedSlots == TiersOK => Queued \subseteq Slots
BY ToSetSubset DEF TiersOK, Queued

-----------------------------------------------------------------------------
(* What each operation does to the tiers.                                  *)

\* A slot that is in neither tier joins one of them, or is refused.
LEMMA EnqueueTiers ==
    ASSUME NEW s \in Slots, TiersOK, s \notin Queued, Enqueue(s)
    PROVE  /\ TiersOK'
           /\ \/ Queued' = Queued \cup {s} /\ gone' = gone /\ ~closed
              \/ Queued' = Queued /\ gone' = gone \cup {s}
           /\ StatesMatch => StatesMatch'
           /\ \A t \in Slots \ {s} : state'[t] = state[t]
<1>1. /\ staging \in Seq(Slots) /\ acceptBuf \in Seq(Slots)
      /\ state \in [Slots -> States]
      /\ NoRepeat(staging) /\ NoRepeat(acceptBuf)
      /\ ToSet(staging) \cap ToSet(acceptBuf) = {}
      /\ s \notin ToSet(staging) /\ s \notin ToSet(acceptBuf)
  BY DEF TiersOK, Queued
<1>2. CASE /\ ~closed /\ staging' = Append(staging, s)
           /\ state' = [state EXCEPT ![s] = "STAGED"]
           /\ UNCHANGED <<acceptBuf, gone>>
  <2>1. /\ staging' \in Seq(Slots) /\ NoRepeat(staging')
        /\ ToSet(staging') = ToSet(staging) \cup {s}
    BY <1>1, <1>2, AppendLemma
  <2>2. state' \in [Slots -> States]
    BY <1>1, <1>2 DEF States
  <2>3. \A t \in Slots : state'[t] = IF t = s THEN "STAGED" ELSE state[t]
    BY <1>1, <1>2
  <2>4. ToSet(staging) \subseteq Slots /\ ToSet(acceptBuf) \subseteq Slots
    BY <1>1, ToSetSubset
  <2> QED BY <1>1, <1>2, <2>1, <2>2, <2>3, <2>4 DEF TiersOK, Queued, StatesMatch
<1>3. CASE /\ ~closed /\ acceptBuf' = Append(acceptBuf, s)
           /\ state' = [state EXCEPT ![s] = "ACCEPT_BUFFER"]
           /\ UNCHANGED <<staging, gone>>
  <2>1. /\ acceptBuf' \in Seq(Slots) /\ NoRepeat(acceptBuf')
        /\ ToSet(acceptBuf') = ToSet(acceptBuf) \cup {s}
    BY <1>1, <1>3, AppendLemma
  <2>2. state' \in [Slots -> States]
    BY <1>1, <1>3 DEF States
  <2>3. \A t \in Slots : state'[t] = IF t = s THEN "ACCEPT_BUFFER" ELSE state[t]
    BY <1>1, <1>3
  <2>4. ToSet(staging) \subseteq Slots /\ ToSet(acceptBuf) \subseteq Slots
    BY <1>1, ToSetSubset
  <2> QED BY <1>1, <1>3, <2>1, <2>2, <2>3, <2>4 DEF TiersOK, Queued, StatesMatch
<1>4. CASE gone' = gone \cup {s} /\ UNCHANGED tiers
  BY <1>1, <1>4 DEF TiersOK, Queued, StatesMatch, tiers
<1> QED BY <1>2, <1>3, <1>4 DEF Enqueue

\* A slot that is in neither tier goes to the head of staging.
LEMMA InsertHeadTiers ==
    ASSUME NEW s \in Slots, TiersOK, s \notin Queued, InsertHead(s)
    PROVE  /\ TiersOK' /\ Queued' = Queued \cup {s} /\ ~closed
           /\ StatesMatch => StatesMatch'
           /\ \A t \in Slots \ {s} : state'[t] = state[t]
<1>1. /\ staging \in Seq(Slots) /\ acceptBuf \in Seq(Slots)
      /\ state \in [Slots -> States]
      /\ NoRepeat(staging) /\ NoRepeat(acceptBuf)
      /\ ToSet(staging) \cap ToSet(acceptBuf) = {}
      /\ s \notin ToSet(staging) /\ s \notin ToSet(acceptBuf)
  BY DEF TiersOK, Queued
<1>2. /\ ~closed /\ staging' = <<s>> \o staging /\ acceptBuf' = acceptBuf
      /\ state' = [state EXCEPT ![s] = "STAGED"]
  BY DEF InsertHead
<1>3. /\ staging' \in Seq(Slots) /\ NoRepeat(staging')
      /\ ToSet(staging') = ToSet(staging) \cup {s}
  BY <1>1, <1>2, PushLemma
<1>4. state' \in [Slots -> States]
  BY <1>1, <1>2 DEF States
<1>5. \A t \in Slots : state'[t] = IF t = s THEN "STAGED" ELSE state[t]
  BY <1>1, <1>2
<1>6. ToSet(staging) \subseteq Slots /\ ToSet(acceptBuf) \subseteq Slots
  BY <1>1, ToSetSubset
<1> QED BY <1>1, <1>2, <1>3, <1>4, <1>5, <1>6 DEF TiersOK, Queued, StatesMatch

\* staging becomes rest, and one slot of the buffer may move up behind it.
LEMMA ReplenishTiers ==
    ASSUME TiersOK, NEW rest, rest \in Seq(Slots), NoRepeat(rest),
           ToSet(rest) \subseteq ToSet(staging), Replenish(rest)
    PROVE  /\ TiersOK' /\ Queued' = ToSet(rest) \cup ToSet(acceptBuf)
           /\ StatesMatch => StatesMatch'
           /\ \A t \in Slots \ ToSet(acceptBuf) : state'[t] = state[t]
<1>1. /\ staging \in Seq(Slots) /\ acceptBuf \in Seq(Slots)
      /\ state \in [Slots -> States]
      /\ NoRepeat(staging) /\ NoRepeat(acceptBuf)
      /\ ToSet(staging) \cap ToSet(acceptBuf) = {}
  BY DEF TiersOK
<1>2. CASE /\ acceptBuf # <<>>
           /\ staging' = Append(rest, Head(acceptBuf))
           /\ acceptBuf' = Tail(acceptBuf)
           /\ state' = [state EXCEPT ![Head(acceptBuf)] = "STAGED"]
  <2> DEFINE h == Head(acceptBuf)
  <2>1. /\ h \in Slots /\ h \in ToSet(acceptBuf)
        /\ acceptBuf' \in Seq(Slots) /\ NoRepeat(acceptBuf')
        /\ ToSet(acceptBuf') = ToSet(acceptBuf) \ {h}
    BY <1>1, <1>2, HeadTailLemma
  <2>2. h \notin ToSet(rest)
    BY <1>1, <2>1
  <2> HIDE DEF h
  <2>3. /\ staging' \in Seq(Slots) /\ NoRepeat(staging')
        /\ ToSet(staging') = ToSet(rest) \cup {h}
    BY <1>2, <2>1, <2>2, AppendLemma DEF h
  <2>4. state' \in [Slots -> States]
    BY <1>1, <1>2 DEF States
  <2>5. \A t \in Slots : state'[t] = IF t = h THEN "STAGED" ELSE state[t]
    BY <1>1, <1>2 DEF h
  <2>6. ToSet(staging) \subseteq Slots /\ ToSet(acceptBuf) \subseteq Slots
    BY <1>1, ToSetSubset
  <2>7. StatesMatch => StatesMatch'
    BY <1>1, <2>1, <2>3, <2>5, <2>6 DEF StatesMatch
  <2>8. TiersOK' /\ Queued' = ToSet(rest) \cup ToSet(acceptBuf)
    BY <1>1, <2>1, <2>2, <2>3, <2>4 DEF TiersOK, Queued
  <2> QED BY <2>1, <2>5, <2>7, <2>8
<1>3. CASE staging' = rest /\ UNCHANGED <<acceptBuf, state>>
  BY <1>1, <1>3 DEF TiersOK, Queued, StatesMatch
<1> QED BY <1>2, <1>3 DEF Replenish

\* Deleting one position of a tier.
LEMMA RemoveStaged ==
    ASSUME TiersOK, NEW i \in DOMAIN staging
    PROVE  /\ staging[i] \in Slots /\ staging[i] \in ToSet(staging)
           /\ staging[i] \notin ToSet(acceptBuf)
           /\ RemoveAt(staging, i) \in Seq(Slots)
           /\ NoRepeat(RemoveAt(staging, i))
           /\ ToSet(RemoveAt(staging, i)) = ToSet(staging) \ {staging[i]}
<1>1. staging \in Seq(Slots) /\ NoRepeat(staging) /\ i \in 1 .. Len(staging)
  BY LenProperties DEF TiersOK
<1>2. staging[i] \in Slots /\ staging[i] \in ToSet(staging)
  BY <1>1, ElementOfSeq, InToSet
<1>3. staging[i] \notin ToSet(acceptBuf)
  BY <1>2 DEF TiersOK
<1> QED BY <1>1, <1>2, <1>3, RemoveAtLemma

\* The same for the buffer.
LEMMA RemoveBuffered ==
    ASSUME TiersOK, NEW i \in DOMAIN acceptBuf
    PROVE  /\ acceptBuf[i] \in Slots /\ acceptBuf[i] \in ToSet(acceptBuf)
           /\ acceptBuf[i] \notin ToSet(staging)
           /\ RemoveAt(acceptBuf, i) \in Seq(Slots)
           /\ NoRepeat(RemoveAt(acceptBuf, i))
           /\ ToSet(RemoveAt(acceptBuf, i)) = ToSet(acceptBuf) \ {acceptBuf[i]}
<1>1. /\ acceptBuf \in Seq(Slots) /\ NoRepeat(acceptBuf)
      /\ i \in 1 .. Len(acceptBuf)
  BY LenProperties DEF TiersOK
<1>2. acceptBuf[i] \in Slots /\ acceptBuf[i] \in ToSet(acceptBuf)
  BY <1>1, ElementOfSeq, InToSet
<1>3. acceptBuf[i] \notin ToSet(staging)
  BY <1>2 DEF TiersOK
<1> QED BY <1>1, <1>2, <1>3, RemoveAtLemma

\* A pop from a non-empty staging tier takes one queued slot.
LEMMA PopStagedTiers ==
    ASSUME TiersOK, NEW warm, PopStaged(warm)
    PROVE  \E s \in Queued :
              /\ HandOut(s) /\ UpdateRunLength(s)
              /\ TiersOK' /\ Queued' = Queued \ {s}
              /\ StatesMatch => StatesMatch'
              /\ \A t \in Slots \ Queued : state'[t] = state[t]
<1>1. PICK i \in DOMAIN staging : /\ Replenish(RemoveAt(staging, i))
                                 /\ UpdateRunLength(staging[i])
                                 /\ HandOut(staging[i])
  BY DEF PopStaged
<1> DEFINE s == staging[i]
           rest == RemoveAt(staging, i)
<1>2. /\ s \in ToSet(staging) /\ s \notin ToSet(acceptBuf)
      /\ rest \in Seq(Slots) /\ NoRepeat(rest)
      /\ ToSet(rest) = ToSet(staging) \ {s}
  BY RemoveStaged
<1> HIDE DEF s, rest
<1>3. /\ TiersOK' /\ Queued' = ToSet(rest) \cup ToSet(acceptBuf)
      /\ StatesMatch => StatesMatch'
      /\ \A t \in Slots \ ToSet(acceptBuf) : state'[t] = state[t]
  <2>1. ToSet(rest) \subseteq ToSet(staging) /\ Replenish(rest)
    BY <1>1, <1>2 DEF rest
  <2> QED BY <2>1, <1>2, ReplenishTiers
<1>4. s \in Queued /\ Queued' = Queued \ {s}
  BY <1>2, <1>3 DEF Queued
<1>5. \A t \in Slots \ Queued : state'[t] = state[t]
  BY <1>3 DEF Queued
<1>6. HandOut(s) /\ UpdateRunLength(s)
  BY <1>1 DEF s
<1> QED BY <1>3, <1>4, <1>5, <1>6

\* So does a pop that first drains the buffer into the empty staging tier.
LEMMA DrainTiers ==
    ASSUME TiersOK, DrainAndPop
    PROVE  \E s \in Queued :
              /\ HandOut(s) /\ UpdateRunLength(s)
              /\ TiersOK' /\ Queued' = Queued \ {s}
              /\ StatesMatch => StatesMatch'
              /\ \A t \in Slots \ Queued : state'[t] = state[t]
<1> DEFINE buf == acceptBuf
           n == Len(acceptBuf)
           s == Head(acceptBuf)
<1>1. PICK k \in 1 .. n :
         /\ staging' = SubSeq(buf, 2, k)
         /\ acceptBuf' = SubSeq(buf, k + 1, n)
         /\ state' = [u \in Slots |->
                        IF \E i \in 1 .. k : buf[i] = u THEN "STAGED" ELSE state[u]]
  BY DEF DrainAndPop
<1>2. /\ buf \in Seq(Slots) /\ NoRepeat(buf) /\ buf # <<>>
      /\ staging = <<>> /\ state \in [Slots -> States]
      /\ HandOut(s) /\ UpdateRunLength(s)
  BY DEF TiersOK, DrainAndPop
<1>3. /\ n \in Nat /\ DOMAIN buf = 1 .. n /\ s = buf[1] /\ k \in 1 .. n
      /\ 2 \in 1 .. n + 1 /\ k \in 0 .. n /\ k + 1 \in 1 .. n + 1 /\ n \in 0 .. n
  <2>1. n \in Nat /\ DOMAIN buf = 1 .. n
    BY <1>2, LenProperties
  <2>2. s = buf[1]
    BY <1>2, HeadTailLemma
  <2> QED BY <2>1, <2>2
<1>4. ToSet(buf) = {buf[j] : j \in 1 .. n} /\ Queued = ToSet(buf)
  BY <1>2, <1>3, ToSetEmpty DEF ToSet, Queued
<1> HIDE DEF buf, n, s
<1>5. /\ staging' \in Seq(Slots) /\ NoRepeat(staging')
      /\ ToSet(staging') = {buf[j] : j \in 2 .. k}
  BY <1>1, <1>2, <1>3, SliceLemma DEF n, buf
<1>6. /\ acceptBuf' \in Seq(Slots) /\ NoRepeat(acceptBuf')
      /\ ToSet(acceptBuf') = {buf[j] : j \in k + 1 .. n}
  <2>1. n = Len(buf)
    BY DEF n, buf
  <2>2. /\ SubSeq(buf, k + 1, n) \in Seq(Slots) /\ NoRepeat(SubSeq(buf, k + 1, n))
        /\ ToSet(SubSeq(buf, k + 1, n)) = {buf[j] : j \in k + 1 .. n}
    BY <2>1, <1>2, <1>3, SliceLemma
  <2> QED BY <2>2, <1>1
<1>7. \A i, j \in 1 .. n : buf[i] = buf[j] => i = j
  BY <1>2, <1>3 DEF NoRepeat
<1>8. /\ 2 .. k \subseteq 1 .. n /\ k + 1 .. n \subseteq 1 .. n
      /\ 1 .. n = {1} \cup (2 .. k) \cup (k + 1 .. n) /\ 1 \in 1 .. k
      /\ 1 \notin 2 .. k /\ 1 \notin k + 1 .. n /\ 2 .. k \subseteq 1 .. k
      /\ 1 .. k \cap k + 1 .. n = {} /\ 1 .. k \subseteq 1 .. n
  BY <1>3
<1>9. /\ s \in Queued /\ Queued' = Queued \ {s}
      /\ ToSet(staging') \cap ToSet(acceptBuf') = {}
  <2>1. Queued' = {buf[j] : j \in 2 .. k} \cup {buf[j] : j \in k + 1 .. n}
    BY <1>5, <1>6 DEF Queued
  <2> QED BY <2>1, <1>3, <1>4, <1>5, <1>6, <1>7, <1>8
<1>10. state' \in [Slots -> States]
  BY <1>1, <1>2 DEF States
<1>11. TiersOK'
  BY <1>5, <1>6, <1>9, <1>10 DEF TiersOK
<1>12. ToSet(staging') \subseteq Slots /\ ToSet(acceptBuf') \subseteq Slots
  BY <1>5, <1>6, ToSetSubset
<1>13. ASSUME StatesMatch PROVE StatesMatch'
  <2>1. ASSUME NEW u \in ToSet(staging') PROVE state'[u] = "STAGED"
    BY <2>1, <1>1, <1>5, <1>8, <1>12
  <2>2. ASSUME NEW u \in ToSet(acceptBuf') PROVE state'[u] = "ACCEPT_BUFFER"
    <3>1. PICK j \in k + 1 .. n : buf[j] = u
      BY <2>2, <1>6
    <3>2. ~ \E i \in 1 .. k : buf[i] = u
      BY <3>1, <1>7, <1>8
    <3>3. u \in ToSet(buf) /\ state[u] = "ACCEPT_BUFFER"
      BY <3>1, <1>4, <1>8, <1>13 DEF StatesMatch, buf
    <3> QED BY <3>2, <3>3, <1>1, <1>12
  <2> QED BY <2>1, <2>2 DEF StatesMatch
<1>14. \A t \in Slots \ Queued : state'[t] = state[t]
  BY <1>1, <1>4, <1>8
<1> QED BY <1>2, <1>9, <1>11, <1>13, <1>14

\* A grace match takes one staged slot.
LEMMA MatchTiers ==
    ASSUME TiersOK, NEW th, NEW m, PopMatchedThread(th, m)
    PROVE  \E s \in Queued :
              /\ HandOut(s) /\ UNCHANGED <<runLen, state>>
              /\ TiersOK' /\ Queued' = Queued \ {s}
              /\ StatesMatch => StatesMatch'
<1>1. PICK i \in DOMAIN staging : /\ staging' = RemoveAt(staging, i)
                                 /\ HandOut(staging[i])
                                 /\ UNCHANGED <<state, acceptBuf, runLen>>
  BY DEF PopMatchedThread
<1>2. /\ staging[i] \in ToSet(staging) /\ staging[i] \notin ToSet(acceptBuf)
      /\ staging' \in Seq(Slots) /\ NoRepeat(staging')
      /\ ToSet(staging') = ToSet(staging) \ {staging[i]}
  BY <1>1, RemoveStaged
<1>3. TiersOK' /\ (StatesMatch => StatesMatch')
  BY <1>1, <1>2 DEF TiersOK, StatesMatch
<1>4. staging[i] \in Queued /\ Queued' = Queued \ {staging[i]}
  BY <1>1, <1>2 DEF Queued
<1> QED BY <1>1, <1>3, <1>4

\* A removal by id takes that slot.
LEMMA RemoveTiers ==
    ASSUME TiersOK, NEW s \in Slots, RemoveById(s)
    PROVE  /\ s \in Queued /\ Queued' = Queued \ {s}
           /\ TiersOK' /\ (StatesMatch => StatesMatch')
<1>1. CASE \E i \in DOMAIN staging :
              /\ staging[i] = s
              /\ staging' = RemoveAt(staging, i) /\ UNCHANGED acceptBuf
  <2>1. /\ s \in ToSet(staging) /\ s \notin ToSet(acceptBuf)
        /\ staging' \in Seq(Slots) /\ NoRepeat(staging')
        /\ ToSet(staging') = ToSet(staging) \ {s}
    BY <1>1, RemoveStaged
  <2> QED BY <1>1, <2>1 DEF TiersOK, StatesMatch, Queued, RemoveById
<1>2. CASE \E i \in DOMAIN acceptBuf :
              /\ acceptBuf[i] = s
              /\ acceptBuf' = RemoveAt(acceptBuf, i) /\ UNCHANGED staging
  <2>1. /\ s \in ToSet(acceptBuf) /\ s \notin ToSet(staging)
        /\ acceptBuf' \in Seq(Slots) /\ NoRepeat(acceptBuf')
        /\ ToSet(acceptBuf') = ToSet(acceptBuf) \ {s}
    BY <1>2, RemoveBuffered
  <2> QED BY <1>2, <2>1 DEF TiersOK, StatesMatch, Queued, RemoveById
<1> QED BY <1>1, <1>2 DEF RemoveById

\* close empties both tiers.
LEMMA CloseTiers ==
    ASSUME TiersOK, Close
    PROVE  TiersOK' /\ Queued' = {} /\ StatesMatch'
<1>1. staging' = <<>> /\ acceptBuf' = <<>> /\ state' = state
  BY DEF Close
<1>2. <<>> \in Seq(Slots) /\ NoRepeat(<<>>) /\ ToSet(<<>>) = {}
  BY EmptySeq, ToSetEmpty DEF NoRepeat
<1> QED BY <1>1, <1>2 DEF TiersOK, Queued, StatesMatch

-----------------------------------------------------------------------------
(* The inductive invariant.                                                *)

\* The initial state satisfies the invariant.
LEMMA InitInv == Init => Inv /\ TierMatchesState
<1> SUFFICES ASSUME Init PROVE Inv /\ TierMatchesState
  OBVIOUS
<1>1. <<>> \in Seq(Slots) /\ NoRepeat(<<>>) /\ ToSet(<<>>) = {}
  BY EmptySeq, ToSetEmpty DEF NoRepeat
<1>2. TypeOK
  <2>1. /\ state \in [Slots -> {"RECEIVED", "ACCEPT_BUFFER", "STAGED"}]
        /\ staging \in Seq(Slots) /\ acceptBuf \in Seq(Slots)
    BY <1>1 DEF Init
  <2>2. /\ arrived \in 0 .. NumSlots /\ aged \in 0 .. arrived
        /\ headInserts \in 0 .. MaxHeadInserts
    BY NumSlotsAssumption, BoundsAssumption DEF Init
  <2>3. /\ consecutive \in Nat /\ lastPopped \in Models \cup {NoModel}
        /\ consecutive = 0 <=> lastPopped = NoModel
    BY DEF Init
  <2> QED BY <2>1, <2>2, <2>3 DEF Init, TypeOK
<1>3. TiersOK /\ Queued = {}
  BY <1>1 DEF Init, TiersOK, Queued, States
<1>4. Placed
  BY <1>3, NumSlotsAssumption DEF Init, Placed
<1>5. TierMatchesState
  BY <1>1 DEF Init, TierMatchesState
<1> QED BY <1>2, <1>3, <1>4, <1>5, InvFromParts

\* The fields an operation writes outside the tiers keep their types.
LEMMA TypeStep ==
    ASSUME TypeOK, TiersOK', [Next]_vars
    PROVE  TypeOK'
<1> USE NumSlotsAssumption DEF Slots
<1>1. /\ staging' \in Seq(Slots) /\ acceptBuf' \in Seq(Slots)
      /\ state' \in [Slots -> States]
  BY DEF TiersOK
<1>2. CASE \E s \in Slots : Enqueue(s)
  <2>1. PICK s \in Slots : Enqueue(s)
    BY <1>2
  <2>2. arrived' \in 0 .. NumSlots /\ aged' \in 0 .. arrived'
    BY <2>1 DEF TypeOK, Enqueue, Arrive
  <2>3. gone' \subseteq Slots
    BY <2>1 DEF TypeOK, Enqueue
  <2>4. UNCHANGED <<given, runLen, disconnected, closed, evicted, held,
                    headInserts>>
    BY <2>1 DEF Enqueue
  <2> QED BY <1>1, <2>2, <2>3, <2>4 DEF TypeOK, given, runLen, States
<1>3. CASE \E s \in Slots : EnqueueFollowUp(s)
  BY <1>1, <1>3, BoundsAssumption
     DEF TypeOK, EnqueueFollowUp, InsertHead, Arrive, given, runLen, States
<1>4. CASE \E s \in Slots : PushBack(s)
  BY <1>1, <1>4, BoundsAssumption
     DEF TypeOK, PushBack, InsertHead, given, runLen, clients, States
<1>5. ASSUME NEW s \in Slots, HandOut(s), \/ UpdateRunLength(s)
                                        \/ UNCHANGED runLen
      PROVE  TypeOK'
  <2>1. /\ consecutive' \in Nat /\ lastPopped' \in Models \cup {NoModel}
        /\ consecutive' = 0 <=> lastPopped' = NoModel
    <3>1. CASE UpdateRunLength(s)
      <4>1. tag[s] \in Models /\ tag[s] # NoModel
        BY NoModelAssumption DEF TypeOK
      <4> QED BY <3>1, <4>1 DEF TypeOK, UpdateRunLength
    <3>2. CASE UNCHANGED runLen
      BY <3>2 DEF TypeOK, runLen
    <3> QED BY <1>5, <3>1, <3>2
  <2> QED BY <2>1, <1>1, <1>5 DEF TypeOK, HandOut, given, clients, States
<1>6. CASE Pop
  <2>1. PICK warm \in Models \cup {NoModel} : PopStaged(warm) \/ DrainAndPop
    BY <1>6 DEF Pop, PopNext
  <2>2. \E s \in Slots : HandOut(s) /\ UpdateRunLength(s)
    <3>1. CASE PopStaged(warm)
      <4>1. PICK i \in DOMAIN staging : UpdateRunLength(staging[i]) /\ HandOut(staging[i])
        BY <3>1 DEF PopStaged
      <4>2. staging[i] \in Slots
        BY <4>1, LenProperties, ElementOfSeq DEF TypeOK
      <4> QED BY <4>1, <4>2
    <3>2. CASE DrainAndPop
      <4>1. Head(acceptBuf) \in Slots
        BY <3>2, HeadTailLemma DEF DrainAndPop, TypeOK
      <4> QED BY <3>2, <4>1 DEF DrainAndPop
    <3> QED BY <2>1, <3>1, <3>2
  <2> QED BY <2>2, <1>5
<1>7. CASE Match
  <2>1. PICK i \in DOMAIN staging : HandOut(staging[i]) /\ UNCHANGED runLen
    BY <1>7 DEF Match, PopMatchedThread
  <2>2. staging[i] \in Slots
    BY <2>1, LenProperties, ElementOfSeq DEF TypeOK
  <2> QED BY <2>1, <2>2, <1>5
<1>8. CASE \E s \in Slots : RemoveById(s)
  BY <1>1, <1>8 DEF TypeOK, RemoveById, given, runLen, clients, States
<1>9. CASE \E s \in Slots : Finish(s)
  BY <1>1, <1>9 DEF TypeOK, Finish, given, runLen, clients, States, tiers
<1>10. CASE \E s \in Slots : Disconnect(s)
  BY <1>1, <1>10 DEF TypeOK, Disconnect, given, runLen, States, tiers
<1>11. CASE Close
  <2>1. Queued \subseteq Slots
    BY ToSetSubset DEF TypeOK, Queued
  <2> QED BY <1>1, <1>11, <2>1 DEF TypeOK, Close, given, runLen, clients, States
<1>12. CASE Age
  BY <1>1, <1>12 DEF TypeOK, Age, given, runLen, States, tiers
<1>13. CASE UNCHANGED vars
  BY <1>13 DEF TypeOK, vars, given, tiers, runLen, clients
<1> QED BY <1>2, <1>3, <1>4, <1>6, <1>7, <1>8, <1>9, <1>10, <1>11, <1>12, <1>13
        DEF Next

\* The third part of TierMatchesState: slots still to come are untouched.
Untouched == \A s \in Slots : s > arrived => state[s] = "RECEIVED"

\* TierMatchesState in the terms of the lemmas above.
LEMMA MatchParts == TierMatchesState <=> StatesMatch /\ Untouched
BY DEF TierMatchesState, StatesMatch, Untouched

\* What the invariant and the refinement need of a step, once the tiers' part
\* is known.
Good == /\ TiersOK' /\ Placed'
        /\ TierMatchesState => TierMatchesState'
        /\ [Pool!PoolNext]_Pool!poolVars

\* Where slots are, by number.
LEMMA PlacedFacts ==
    ASSUME Placed, TypeOK
    PROVE  /\ \A s \in Queued \cup held \cup gone : s \in 1 .. arrived
           /\ \A s \in Slots : s > arrived => s \notin Queued \cup held \cup gone
           /\ arrived \in Nat
BY NumSlotsAssumption DEF Placed, TypeOK, Slots

\* The next slot joins a tier (Accept) or is refused (Refuse).
LEMMA EnqueueStep ==
    ASSUME Inv, TiersOK, Placed, NEW s \in Slots, Enqueue(s)
    PROVE  Good
<1>1. /\ s = arrived + 1 /\ arrived' = s /\ arrived \in Nat
      /\ s \notin Queued /\ s \notin held /\ s \notin gone
  <2>1. s = arrived + 1 /\ arrived' = s
    BY DEF Enqueue, Arrive
  <2> QED BY <2>1, PlacedFacts DEF Inv
<1>2. /\ TiersOK' /\ held' = held /\ closed' = closed
      /\ \/ Queued' = Queued \cup {s} /\ gone' = gone /\ ~closed
         \/ Queued' = Queued /\ gone' = gone \cup {s}
      /\ StatesMatch => StatesMatch'
      /\ \A t \in Slots \ {s} : state'[t] = state[t]
  BY <1>1, EnqueueTiers DEF Enqueue
<1>3. Placed'
  <2>1. 1 .. arrived' = 1 .. arrived \cup {s}
    BY <1>1
  <2> QED BY <1>1, <1>2, <2>1 DEF Placed
<1>4. TierMatchesState => TierMatchesState'
  <2>1. Untouched => Untouched'
    BY <1>1, <1>2, NumSlotsAssumption DEF Untouched, Slots
  <2> QED BY <2>1, <1>2, MatchParts DEF TierMatchesState, StatesMatch, Untouched
<1>5. Pool!Accept(s) \/ Pool!Refuse(s)
  BY <1>1, <1>2 DEF Pool!Accept, Pool!Refuse, Pool!Unseen
<1> QED BY <1>2, <1>3, <1>4, <1>5 DEF Good, Pool!PoolNext

\* A follow-up joins the head of staging (Accept).
LEMMA FollowUpStep ==
    ASSUME Inv, TiersOK, Placed, NEW s \in Slots, EnqueueFollowUp(s)
    PROVE  Good
<1>1. /\ s = arrived + 1 /\ arrived' = s /\ arrived \in Nat
      /\ s \notin Queued /\ s \notin held /\ s \notin gone
  <2>1. s = arrived + 1 /\ arrived' = s
    BY DEF EnqueueFollowUp, Arrive
  <2> QED BY <2>1, PlacedFacts DEF Inv
<1>2. /\ TiersOK' /\ Queued' = Queued \cup {s} /\ ~closed
      /\ StatesMatch => StatesMatch'
      /\ \A t \in Slots \ {s} : state'[t] = state[t]
      /\ UNCHANGED <<held, gone, closed>>
  BY <1>1, InsertHeadTiers DEF EnqueueFollowUp
<1>3. Placed'
  <2>1. 1 .. arrived' = 1 .. arrived \cup {s}
    BY <1>1
  <2> QED BY <1>1, <1>2, <2>1 DEF Placed
<1>4. TierMatchesState => TierMatchesState'
  <2>1. Untouched => Untouched'
    BY <1>1, <1>2, NumSlotsAssumption DEF Untouched, Slots
  <2> QED BY <2>1, <1>2, MatchParts DEF TierMatchesState, StatesMatch, Untouched
<1>5. Pool!Accept(s)
  BY <1>1, <1>2 DEF Pool!Accept, Pool!Unseen
<1> QED BY <1>2, <1>3, <1>4, <1>5 DEF Good, Pool!PoolNext

\* A held slot goes back to the head of staging (HandBack).
LEMMA PushBackStep ==
    ASSUME Inv, TiersOK, Placed, NEW s \in Slots, PushBack(s)
    PROVE  Good
<1>1. s \in held /\ s \notin Queued /\ s \notin gone /\ s \in 1 .. arrived
  BY PlacedFacts DEF PushBack, Placed, Inv
<1>2. /\ TiersOK' /\ Queued' = Queued \cup {s} /\ ~closed
      /\ StatesMatch => StatesMatch'
      /\ \A t \in Slots \ {s} : state'[t] = state[t]
      /\ held' = held \ {s} /\ UNCHANGED <<gone, closed, arrived>>
  BY <1>1, InsertHeadTiers DEF PushBack, clients
<1>3. Placed'
  BY <1>1, <1>2 DEF Placed
<1>4. TierMatchesState => TierMatchesState'
  <2>1. Untouched => Untouched'
    BY <1>1, <1>2, PlacedFacts DEF Untouched, Slots, Inv
  <2> QED BY <2>1, <1>2, MatchParts DEF TierMatchesState, StatesMatch, Untouched
<1>5. Pool!HandBack(s)
  BY <1>1, <1>2 DEF Pool!HandBack
<1> QED BY <1>2, <1>3, <1>4, <1>5 DEF Good, Pool!PoolNext

\* Every pop path: one queued slot is handed out.
LEMMA TakeStep ==
    ASSUME Inv, TiersOK, Placed,
           \E s \in Queued :
              /\ HandOut(s) /\ TiersOK' /\ Queued' = Queued \ {s}
              /\ StatesMatch => StatesMatch'
              /\ \A t \in Slots \ Queued : state'[t] = state[t]
    PROVE  Good
<1>1. PICK s \in Queued :
              /\ HandOut(s) /\ TiersOK' /\ Queued' = Queued \ {s}
              /\ StatesMatch => StatesMatch'
              /\ \A t \in Slots \ Queued : state'[t] = state[t]
  OBVIOUS
<1>2. /\ held' = held \cup {s} /\ UNCHANGED <<gone, closed, arrived>>
      /\ s \in Slots
  BY <1>1, QueuedSlots DEF HandOut, clients
<1>3. Placed'
  BY <1>1, <1>2 DEF Placed
<1>4. TierMatchesState => TierMatchesState'
  <2>1. Untouched => Untouched'
    BY <1>1, <1>2, PlacedFacts DEF Untouched, Inv
  <2> QED BY <2>1, <1>1, MatchParts DEF TierMatchesState, StatesMatch, Untouched
<1>5. Pool!Take(s)
  BY <1>1, <1>2 DEF Pool!Take
<1> QED BY <1>1, <1>2, <1>3, <1>4, <1>5 DEF Good, Pool!PoolNext

\* pop_next, from staging or after a drain.
LEMMA PopStep ==
    ASSUME Inv, TiersOK, Placed, Pop
    PROVE  Good
<1>1. PICK warm \in Models \cup {NoModel} : PopStaged(warm) \/ DrainAndPop
  BY DEF Pop, PopNext
<1>2. CASE PopStaged(warm)
  BY <1>2, PopStagedTiers, TakeStep
<1>3. CASE DrainAndPop
  BY <1>3, DrainTiers, TakeStep
<1> QED BY <1>1, <1>2, <1>3

\* pop_matched_thread.
LEMMA MatchStep ==
    ASSUME Inv, TiersOK, Placed, Match
    PROVE  Good
<1>1. PICK th \in Threads, m \in Models : PopMatchedThread(th, m)
  BY DEF Match
<1>2. PICK s \in Queued :
              /\ HandOut(s) /\ UNCHANGED <<runLen, state>>
              /\ TiersOK' /\ Queued' = Queued \ {s}
              /\ StatesMatch => StatesMatch'
  BY <1>1, MatchTiers
<1> QED BY <1>2, TakeStep

\* A removal by id (Discard).
LEMMA RemoveStep ==
    ASSUME Inv, TiersOK, Placed, NEW s \in Slots, RemoveById(s)
    PROVE  Good
<1>1. /\ s \in Queued /\ Queued' = Queued \ {s}
      /\ TiersOK' /\ (StatesMatch => StatesMatch')
      /\ gone' = gone \cup {s}
      /\ UNCHANGED <<held, closed, arrived, state>>
  BY RemoveTiers DEF RemoveById, clients
<1>2. Placed'
  BY <1>1 DEF Placed
<1>3. TierMatchesState => TierMatchesState'
  BY <1>1, MatchParts DEF TierMatchesState, StatesMatch, Untouched
<1>4. Pool!Discard(s)
  BY <1>1 DEF Pool!Discard
<1> QED BY <1>1, <1>2, <1>3, <1>4 DEF Good, Pool!PoolNext

\* A held slot is settled (Settle).
LEMMA FinishStep ==
    ASSUME Inv, TiersOK, Placed, NEW s \in Slots, Finish(s)
    PROVE  Good
<1>1. /\ s \in held /\ held' = held \ {s} /\ gone' = gone \cup {s}
      /\ UNCHANGED <<tiers, closed, arrived>>
  BY DEF Finish, clients
<1>2. TiersOK' /\ Queued' = Queued /\ (TierMatchesState => TierMatchesState')
  BY <1>1 DEF TiersOK, Queued, TierMatchesState, tiers
<1>3. Placed'
  BY <1>1, <1>2 DEF Placed
<1>4. Pool!Settle(s)
  BY <1>1, <1>2 DEF Pool!Settle
<1> QED BY <1>2, <1>3, <1>4 DEF Good, Pool!PoolNext

\* close hands the queued slots out (Shut).
LEMMA CloseStep ==
    ASSUME Inv, TiersOK, Placed, Close
    PROVE  Good
<1>1. /\ closed' = TRUE /\ held' = held \cup Queued
      /\ UNCHANGED <<gone, arrived, state>>
  BY DEF Close, clients
<1>2. TiersOK' /\ Queued' = {} /\ StatesMatch'
  BY CloseTiers
<1>3. Placed'
  BY <1>1, <1>2 DEF Placed
<1>4. TierMatchesState => TierMatchesState'
  BY <1>1, <1>2 DEF TierMatchesState, StatesMatch
<1>5. Pool!Shut
  BY <1>1, <1>2 DEF Pool!Shut
<1> QED BY <1>2, <1>3, <1>4, <1>5 DEF Good, Pool!PoolNext

\* Time, clients and stuttering leave the slots where they are.
LEMMA QuietStep ==
    ASSUME Inv, TiersOK, Placed,
           UNCHANGED <<tiers, held, gone, closed, arrived>>
    PROVE  Good
BY DEF Good, TiersOK, Placed, Queued, TierMatchesState, tiers, Pool!poolVars

-----------------------------------------------------------------------------

\* One step of the queue: the invariant is kept, the tiers go on matching the
\* states, and the pool makes a step or none.
THEOREM QueueStep ==
    ASSUME Inv, [Next]_vars
    PROVE  /\ Inv'
           /\ TierMatchesState => TierMatchesState'
           /\ [Pool!PoolNext]_Pool!poolVars
<1>1. TiersOK /\ Placed
  BY InvParts DEF Inv
<1>2. Good
  <2>1. CASE \E s \in Slots : Enqueue(s)
    BY <1>1, <2>1, EnqueueStep
  <2>2. CASE \E s \in Slots : EnqueueFollowUp(s)
    BY <1>1, <2>2, FollowUpStep
  <2>3. CASE \E s \in Slots : PushBack(s)
    BY <1>1, <2>3, PushBackStep
  <2>4. CASE \E s \in Slots : RemoveById(s)
    BY <1>1, <2>4, RemoveStep
  <2>5. CASE \E s \in Slots : Finish(s)
    BY <1>1, <2>5, FinishStep
  <2>6. CASE \E s \in Slots : Disconnect(s)
    BY <1>1, <2>6, QuietStep DEF Disconnect
  <2>7. CASE Pop
    BY <1>1, <2>7, PopStep
  <2>8. CASE Match
    BY <1>1, <2>8, MatchStep
  <2>9. CASE Close
    BY <1>1, <2>9, CloseStep
  <2>10. CASE Age
    BY <1>1, <2>10, QuietStep DEF Age
  <2>11. CASE UNCHANGED vars
    BY <1>1, <2>11, QuietStep DEF vars, clients
  <2> QED BY <2>1, <2>2, <2>3, <2>4, <2>5, <2>6, <2>7, <2>8, <2>9, <2>10, <2>11
          DEF Next
<1>3. TypeOK'
  BY <1>2, TypeStep DEF Good, Inv
<1>4. Inv'
  BY <1>2, <1>3 DEF Good, Inv, EachSlotOnce, TypeOK, TiersOK, Placed, NoRepeat
<1> QED BY <1>2, <1>4 DEF Good

\* The invariant holds in every behaviour.
THEOREM Invariance == Spec => []Inv
<1>1. Init => Inv
  BY InitInv
<1>2. Inv /\ [Next]_vars => Inv'
  BY QueueStep
<1> QED BY <1>1, <1>2, PTL DEF Spec

\* Type correctness, for every number of slots, models, threads and capacity.
THEOREM TypeCorrect == Spec => []TypeOK
<1>1. Inv => TypeOK
  BY DEF Inv
<1> QED BY <1>1, Invariance, PTL

\* No slot is lost or duplicated, whatever is popped, matched, drained, pushed
\* back, removed or cleared by close.
THEOREM NothingLost == Spec => []EachSlotOnce
<1>1. Inv => EachSlotOnce
  BY DEF Inv
<1> QED BY <1>1, Invariance, PTL

\* A slot's state always names the tier it is in, so the transitions that the
\* queue makes while it moves a slot are legal ones.
THEOREM StatesAgree == Spec => []TierMatchesState
<1>1. Init => Inv /\ TierMatchesState
  BY InitInv
<1>2. Inv /\ TierMatchesState /\ [Next]_vars => Inv' /\ TierMatchesState'
  BY QueueStep
<1> QED BY <1>1, <1>2, PTL DEF Spec

\* The two-tier queue implements the abstract pool.
THEOREM ImplementsPool == Spec => RefinesPool
<1>1. Init => Pool!PoolInit
  BY ToSetEmpty DEF Init, Pool!PoolInit, Queued
<1>2. Inv /\ [Next]_vars => [Pool!PoolNext]_Pool!poolVars
  BY QueueStep
<1> QED BY <1>1, <1>2, Invariance, PTL DEF Spec, RefinesPool, Pool!PoolSpec

-----------------------------------------------------------------------------
(* The order and the sizes of the tiers.                                   *)

BufferInOrder == Ascending(acceptBuf) /\ Len(acceptBuf) <= AcceptanceMax
StagingBounded == Len(staging) <= StagingMax + headInserts

\* TiersBounded in two parts.
LEMMA BoundParts == TypeOK => (TiersBounded <=> BufferInOrder /\ StagingBounded)
BY DEF TiersBounded, BufferInOrder, StagingBounded, Ascending

\* What is known of the tiers' elements and lengths.
LEMMA TierFacts ==
    ASSUME Inv
    PROVE  /\ staging \in Seq(Slots) /\ acceptBuf \in Seq(Slots)
           /\ acceptBuf \in Seq(Int) /\ \A x \in ToSet(acceptBuf) : x < arrived + 1
           /\ Len(staging) \in Nat /\ Len(acceptBuf) \in Nat
           /\ StagingMax \in Nat \ {0} /\ AcceptanceMax \in Nat \ {0}
           /\ headInserts \in Nat /\ arrived \in Nat
<1>1. staging \in Seq(Slots) /\ acceptBuf \in Seq(Slots)
  BY DEF Inv, TypeOK
<1>2. acceptBuf \in Seq(Int)
  BY <1>1, SeqMonotonic, NumSlotsAssumption DEF Slots
<1>3. headInserts \in Nat /\ arrived \in Nat
  BY NumSlotsAssumption, BoundsAssumption DEF Inv, TypeOK
<1>4. \A x \in ToSet(acceptBuf) : x < arrived + 1
  BY <1>3, InvParts DEF Inv, Placed, Queued
<1> QED BY <1>1, <1>2, <1>3, <1>4, LenProperties, CapsAssumption

\* The buffer loses its head, staging may gain it, and neither cap is passed.
LEMMA ReplenishBounds ==
    ASSUME Inv, BufferInOrder, StagingBounded, NEW rest, rest \in Seq(Slots),
           Len(rest) = Len(staging) - 1, Replenish(rest)
    PROVE  BufferInOrder' /\ Len(staging') <= StagingMax + headInserts
<1>1. CASE /\ acceptBuf # <<>> /\ Len(rest) < StagingMax
           /\ staging' = Append(rest, Head(acceptBuf))
           /\ acceptBuf' = Tail(acceptBuf)
  <2>1. Len(staging') = Len(rest) + 1
    BY <1>1, TierFacts, HeadTailLemma, AppendLemma
  <2>2. Len(acceptBuf') = Len(acceptBuf) - 1 /\ 1 \in 1 .. Len(acceptBuf)
    BY <1>1, TierFacts, HeadTailLemma, EmptySeq
  <2>3. Ascending(acceptBuf')
    <3>1. acceptBuf' = SubSeq(acceptBuf, 2, Len(acceptBuf))
      BY <1>1, TierFacts, TailIsSubSeq
    <3>2. 2 \in 1 .. Len(acceptBuf) + 1 /\ Len(acceptBuf) \in 0 .. Len(acceptBuf)
      BY <2>2, TierFacts
    <3> QED BY <3>1, <3>2, TierFacts, AscendingSlice DEF BufferInOrder
  <2> QED BY <1>1, <2>1, <2>2, <2>3, TierFacts DEF BufferInOrder
<1>2. CASE staging' = rest /\ UNCHANGED <<acceptBuf, state>>
  BY <1>2, TierFacts DEF BufferInOrder, StagingBounded
<1> QED BY <1>1, <1>2 DEF Replenish

\* Each operation keeps the order of the buffer and the bounds of both tiers.
LEMMA BoundsStep ==
    ASSUME Inv, BufferInOrder, StagingBounded, [Next]_vars
    PROVE  BufferInOrder' /\ StagingBounded'
<1>1. CASE \E s \in Slots : Enqueue(s)
  <2>1. PICK s \in Slots : Enqueue(s)
    BY <1>1
  <2>2. s = arrived + 1 /\ s \in Int /\ headInserts' = headInserts
    BY <2>1, TierFacts DEF Enqueue, Arrive
  <2>3. CASE StagingHasRoom /\ staging' = Append(staging, s) /\ acceptBuf' = acceptBuf
    <3>1. Len(staging') = Len(staging) + 1
      BY <2>3, TierFacts, AppendLemma
    <3> QED BY <2>2, <2>3, <3>1, TierFacts
            DEF StagingHasRoom, BufferInOrder, StagingBounded
  <2>4. CASE /\ Len(acceptBuf) < AcceptanceMax
             /\ acceptBuf' = Append(acceptBuf, s) /\ staging' = staging
    <3>1. Len(acceptBuf') = Len(acceptBuf) + 1
      BY <2>4, TierFacts, AppendLemma
    <3>2. Ascending(acceptBuf')
      BY <2>2, <2>4, TierFacts, AscendingAppend DEF BufferInOrder
    <3> QED BY <2>2, <2>4, <3>1, <3>2, TierFacts DEF BufferInOrder, StagingBounded
  <2>5. CASE UNCHANGED tiers
    BY <2>2, <2>5 DEF tiers, BufferInOrder, StagingBounded
  <2> QED BY <2>1, <2>3, <2>4, <2>5 DEF Enqueue
<1>2. ASSUME NEW s \in Slots, InsertHead(s) PROVE BufferInOrder' /\ StagingBounded'
  <2>1. /\ staging' = <<s>> \o staging /\ acceptBuf' = acceptBuf
        /\ headInserts' = headInserts + 1
    BY <1>2 DEF InsertHead
  <2>2. Len(staging') = Len(staging) + 1
    BY <2>1, TierFacts, PushLemma
  <2> QED BY <2>1, <2>2, TierFacts DEF BufferInOrder, StagingBounded
<1>3. CASE \E warm \in Models \cup {NoModel} : PopStaged(warm)
  <2>1. PICK i \in DOMAIN staging : /\ Replenish(RemoveAt(staging, i))
                                   /\ HandOut(staging[i])
    BY <1>3 DEF PopStaged
  <2>2. /\ RemoveAt(staging, i) \in Seq(Slots)
        /\ Len(RemoveAt(staging, i)) = Len(staging) - 1
    BY LenProperties, TierFacts, RemoveAtLemma
  <2>3. headInserts' = headInserts
    BY <2>1 DEF HandOut
  <2> QED BY <2>1, <2>2, <2>3, ReplenishBounds DEF StagingBounded
<1>4. CASE DrainAndPop
  <2>1. PICK k \in 1 .. Len(acceptBuf) :
           /\ k <= StagingMax
           /\ staging' = SubSeq(acceptBuf, 2, k)
           /\ acceptBuf' = SubSeq(acceptBuf, k + 1, Len(acceptBuf))
    BY <1>4 DEF DrainAndPop
  <2>2. headInserts' = headInserts
    BY <1>4 DEF DrainAndPop, HandOut
  <2>3. /\ 2 \in 1 .. Len(acceptBuf) + 1 /\ k \in 0 .. Len(acceptBuf)
        /\ k + 1 \in 1 .. Len(acceptBuf) + 1
        /\ Len(acceptBuf) \in 0 .. Len(acceptBuf)
    BY TierFacts
  <2>4. Len(staging') = IF 2 <= k THEN k - 2 + 1 ELSE 0
    BY <2>1, <2>3, TierFacts, SliceLemma
  <2>5. Len(acceptBuf') = IF k + 1 <= Len(acceptBuf)
                          THEN Len(acceptBuf) - (k + 1) + 1 ELSE 0
    BY <2>1, <2>3, TierFacts, SliceLemma
  <2>6. Ascending(acceptBuf')
    BY <2>1, <2>3, TierFacts, AscendingSlice DEF BufferInOrder
  <2>7. StagingBounded'
    BY <2>1, <2>2, <2>4, TierFacts DEF StagingBounded
  <2> QED BY <2>5, <2>6, <2>7, TierFacts DEF BufferInOrder
<1>5. CASE Match
  <2>1. PICK i \in DOMAIN staging : /\ staging' = RemoveAt(staging, i)
                                   /\ HandOut(staging[i]) /\ acceptBuf' = acceptBuf
    BY <1>5 DEF Match, PopMatchedThread
  <2>2. Len(staging') = Len(staging) - 1
    BY <2>1, LenProperties, TierFacts, RemoveAtLemma
  <2> QED BY <2>1, <2>2, TierFacts DEF HandOut, BufferInOrder, StagingBounded
<1>6. CASE \E s \in Slots : RemoveById(s)
  <2>1. headInserts' = headInserts
    BY <1>6 DEF RemoveById
  <2>2. CASE \E i \in DOMAIN staging :
                staging' = RemoveAt(staging, i) /\ UNCHANGED acceptBuf
    <3>1. Len(staging') = Len(staging) - 1
      BY <2>2, LenProperties, TierFacts, RemoveAtLemma
    <3> QED BY <2>1, <2>2, <3>1, TierFacts DEF BufferInOrder, StagingBounded
  <2>3. CASE \E i \in DOMAIN acceptBuf :
                acceptBuf' = RemoveAt(acceptBuf, i) /\ UNCHANGED staging
    <3>1. PICK i \in 1 .. Len(acceptBuf) :
             acceptBuf' = RemoveAt(acceptBuf, i) /\ UNCHANGED staging
      BY <2>3, LenProperties, TierFacts
    <3>2. Len(acceptBuf') = Len(acceptBuf) - 1
      BY <3>1, TierFacts, RemoveAtLemma
    <3>3. Ascending(acceptBuf')
      BY <3>1, TierFacts, AscendingRemoveAt DEF BufferInOrder
    <3> QED BY <2>1, <3>1, <3>2, <3>3, TierFacts DEF BufferInOrder, StagingBounded
  <2> QED BY <1>6, <2>2, <2>3 DEF RemoveById
<1>7. CASE Close
  <2>1. /\ staging' = <<>> /\ acceptBuf' = <<>> /\ headInserts' = headInserts
    BY <1>7 DEF Close
  <2>2. Len(<<>>) = 0 /\ Ascending(<<>>)
    BY EmptySeq DEF Ascending
  <2> QED BY <2>1, <2>2, TierFacts DEF BufferInOrder, StagingBounded
<1>8. CASE UNCHANGED <<tiers, headInserts>>
  BY <1>8 DEF tiers, BufferInOrder, StagingBounded
<1> QED BY <1>1, <1>2, <1>3, <1>4, <1>5, <1>6, <1>7, <1>8
        DEF Next, EnqueueFollowUp, PushBack, Pop, PopNext, Finish, Disconnect,
            Age, vars

\* Requests wait in the buffer in the order they came, and no tier outgrows its
\* cap except staging by head inserts.
THEOREM BoundsKept == Spec => []TiersBounded
<1>1. Init => Inv /\ BufferInOrder /\ StagingBounded
  <2> SUFFICES ASSUME Init PROVE BufferInOrder /\ StagingBounded
    BY InitInv
  <2>1. Len(<<>>) = 0 /\ Ascending(<<>>)
    BY EmptySeq DEF Ascending
  <2> QED BY <2>1, CapsAssumption DEF Init, BufferInOrder, StagingBounded
<1>2. Inv /\ BufferInOrder /\ StagingBounded /\ [Next]_vars
         => Inv' /\ BufferInOrder' /\ StagingBounded'
  BY QueueStep, BoundsStep
<1>3. Inv /\ BufferInOrder /\ StagingBounded => TiersBounded
  BY BoundParts DEF Inv
<1> QED BY <1>1, <1>2, <1>3, PTL DEF Spec

-----------------------------------------------------------------------------
(* The two promises of a pop.                                              *)

\* The pop that finds an aged head hands that head out: of another model it is
\* starved, and of the warm model it is the first match.
LEMMA AgedHeadStep ==
    ASSUME Inv, [Next]_vars, PopNextStep, staging # <<>>, Head(staging) <= aged
    PROVE  Head(staging) \in held'
<1>1. PICK warm \in Models \cup {NoModel} : PopStaged(warm)
  BY DEF Next, vars, PopNextStep, Enqueue, EnqueueFollowUp, PushBack, RemoveById,
         Finish, Disconnect, Match, PopMatchedThread, Close, Age, Pop, PopNext,
         DrainAndPop
<1>2. /\ staging \in Seq(Slots) /\ Len(staging) \in Nat /\ StagingMax \in Nat \ {0}
      /\ DOMAIN staging = 1 .. Len(staging)
  BY TierFacts, LenProperties
<1>3. Head(staging) = staging[1] /\ 1 \in DOMAIN staging
  BY <1>2, HeadTailLemma, EmptySeq
<1>4. PICK i \in DOMAIN staging : PopIndex(warm, i) /\ HandOut(staging[i])
  BY <1>1 DEF PopStaged
<1>5. i = 1
  <2>1. CASE i \in Matching(warm) /\ ~HeadStarved(warm)
            /\ \A j \in Matching(warm) : i <= j
    <3>1. tag[staging[1]] = warm
      BY <2>1, <1>3 DEF HeadStarved
    <3>2. 1 \in Matching(warm)
      BY <3>1, <1>2, <1>3 DEF Matching
    <3> QED BY <2>1, <3>2, <1>2
  <2> QED BY <2>1, <1>4 DEF PopIndex
<1> QED BY <1>3, <1>4, <1>5 DEF HandOut

\* No warm model overtakes a head that waited too long, for every size of the
\* tiers, every run length and every hint.
THEOREM AgedHeadFirst == Spec => AgedHeadGoesNext
<1> DEFINE Fair == PopNextStep /\ staging # <<>> /\ Head(staging) <= aged
                      => Head(staging) \in held'
<1>1. Inv /\ [Next]_vars => [Fair]_vars
  BY AgedHeadStep
<1> QED BY <1>1, Invariance, PTL DEF Spec, AgedHeadGoesNext

\* A closed queue stays empty: no enqueue, head insert or replenish gets in.
ClosedEmpty == closed => Queued = {}

\* The pool's steps keep a closed queue empty.
LEMMA ClosedStep ==
    ASSUME ClosedEmpty, [Pool!PoolNext]_Pool!poolVars
    PROVE  ClosedEmpty'
<1>1. CASE closed'
  BY <1>1 DEF ClosedEmpty, Pool!PoolNext, Pool!poolVars, Pool!Accept, Pool!Refuse,
      Pool!Take, Pool!HandBack, Pool!Settle, Pool!Discard, Pool!Shut
<1>2. CASE ~closed'
  BY <1>2 DEF ClosedEmpty
<1> QED BY <1>1, <1>2

\* Every path that adds to the held slots flags those whose client left, but
\* for close, which finds nothing to hand out in a queue closed before.
LEMMA FlagStep ==
    ASSUME Inv, ClosedEmpty, [Next]_vars, closed' = closed,
           NEW s \in held' \ held, s \in disconnected
    PROVE  s \in evicted'
<1>1. CASE \E t \in Slots \cup Queued : HandOut(t)
  BY <1>1 DEF HandOut
<1>2. CASE Pop
  <2>1. TiersOK
    BY InvParts DEF Inv
  <2> QED BY <1>1, <1>2, <2>1, PopStagedTiers, DrainTiers DEF Pop, PopNext
<1>3. CASE Match
  <2>1. TiersOK
    BY InvParts DEF Inv
  <2> QED BY <1>1, <1>3, <2>1, MatchTiers DEF Match
<1>4. CASE Close
  BY <1>4 DEF Close, ClosedEmpty
<1>5. CASE held' \subseteq held
  BY <1>5
<1> QED BY <1>2, <1>3, <1>4, <1>5
        DEF Next, vars, Enqueue, EnqueueFollowUp, PushBack, RemoveById, Finish,
            Disconnect, Age

\* A client that left is never handed out as if it were there.
THEOREM DisconnectsFlagged == Spec => DisconnectedIsFlagged
<1> DEFINE Flagged == \A s \in held' \ held : s \in disconnected /\ closed' = closed
                                                => s \in evicted'
<1>1. Init => ClosedEmpty
  BY DEF Init, ClosedEmpty
<1>2. Inv /\ ClosedEmpty /\ [Next]_vars => ClosedEmpty'
  BY QueueStep, ClosedStep
<1>3. Inv /\ ClosedEmpty /\ [Next]_vars => [Flagged]_vars
  BY FlagStep
<1> QED BY <1>1, <1>2, <1>3, Invariance, PTL DEF Spec, DisconnectedIsFlagged

-----------------------------------------------------------------------------
(* How often the warm model overtakes the head.                             *)

\* Nothing is put in front of the head, and there are two models at most: a third
\* one would restart the run length on which the bound rests.
NoHeadInsert == MaxHeadInserts = 0
TwoModels == \A l, m, n \in Models : l = m \/ m = n \/ l = n

Ahead(s) == staging # <<>> /\ s = Head(staging)

\* Only the head was ever passed by; if it was, by the model popped last, in the
\* run that is counted.
Counted ==
    /\ bypassed \in [Slots -> Nat]
    /\ \A s \in Slots : s > arrived \/ (s \in Queued /\ ~Ahead(s)) => bypassed[s] = 0
    /\ \A s \in Slots : Ahead(s) /\ bypassed[s] # 0 =>
          /\ lastPopped \in Models /\ lastPopped # tag[s]
          /\ bypassed[s] <= consecutive
    /\ BypassBounded

\* Deleting a position behind the head leaves the head.
LEMMA HeadStays ==
    ASSUME TiersOK, NEW i \in DOMAIN staging, i # 1
    PROVE  RemoveAt(staging, i) # <<>> /\ Head(RemoveAt(staging, i)) = Head(staging)
<1> DEFINE r == RemoveAt(staging, i)
<1>1. staging \in Seq(Slots) /\ i \in 1 .. Len(staging) /\ Len(staging) \in Nat
  BY LenProperties DEF TiersOK
<1>2. r \in Seq(Slots) /\ Len(r) = Len(staging) - 1
  BY <1>1, RemoveAtLemma
<1>3. Len(r) >= 1 /\ 1 \in 1 .. Len(staging) - 1 /\ 1 < i
  BY <1>1, <1>2
<1>4. r[1] = staging[1]
  BY <1>1, <1>3, RemoveAtPositions
<1> HIDE DEF r
<1>5. r # <<>> /\ staging # <<>>
  BY <1>1, <1>2, <1>3, EmptySeq
<1>6. Head(r) = r[1] /\ Head(staging) = staging[1]
  BY <1>1, <1>2, <1>5, HeadTailLemma
<1> QED BY <1>4, <1>5, <1>6 DEF r

\* Appending to a tier that is not empty leaves its head.
LEMMA AppendBehind ==
    ASSUME NEW r \in Seq(Slots), r # <<>>, NEW e \in Slots
    PROVE  Append(r, e) # <<>> /\ Head(Append(r, e)) = Head(r)
<1> DEFINE a == Append(r, e)
<1>1. a \in Seq(Slots) /\ Len(a) = Len(r) + 1 /\ Len(r) \in Nat /\ Len(r) # 0
  BY AppendProperties, EmptySeq, LenProperties
<1>2. a[1] = r[1]
  BY <1>1, AppendProperties
<1> HIDE DEF a
<1>3. a # <<>>
  BY <1>1, EmptySeq
<1>4. Head(a) = a[1] /\ Head(r) = r[1]
  BY <1>1, <1>3, HeadTailLemma
<1> QED BY <1>2, <1>3, <1>4 DEF a

\* The head stays the head for as long as it is queued.
LEMMA AheadStays ==
    ASSUME NoHeadInsert, Inv, [Next]_vars, NEW s \in Slots, Ahead(s), s \in Queued'
    PROVE  Ahead(s)'
<1>1. /\ TiersOK /\ headInserts = 0 /\ staging \in Seq(Slots) /\ staging # <<>>
      /\ Head(staging) = staging[1] /\ s = staging[1]
  <2>1. TiersOK /\ headInserts = 0
    BY InvParts DEF Inv, TypeOK, NoHeadInsert
  <2>2. staging \in Seq(Slots) /\ staging # <<>> /\ s = Head(staging)
    BY <2>1 DEF TiersOK, Ahead
  <2> QED BY <2>1, <2>2, HeadTailLemma
<1>2. CASE UNCHANGED staging
  BY <1>2 DEF Ahead
<1>3. CASE \E t \in Slots : Enqueue(t)
  <2>1. UNCHANGED staging \/ \E t \in Slots : staging' = Append(staging, t)
    BY <1>3 DEF Enqueue, tiers
  <2> QED BY <1>1, <1>2, <2>1, AppendBehind DEF Ahead
<1>4. ~\E t \in Slots : EnqueueFollowUp(t) \/ PushBack(t)
  BY <1>1 DEF EnqueueFollowUp, PushBack, InsertHead, NoHeadInsert
<1>5. CASE \E t \in Slots : RemoveById(t)
  <2>1. PICK t \in Slots : RemoveById(t)
    BY <1>5
  <2>2. t # s
    BY <1>1, <2>1, RemoveTiers
  <2>3. \/ UNCHANGED staging
        \/ \E i \in DOMAIN staging : i # 1 /\ staging' = RemoveAt(staging, i)
    BY <1>1, <2>1, <2>2 DEF RemoveById
  <2> QED BY <1>1, <1>2, <2>3, HeadStays DEF Ahead
<1>6. CASE Match
  <2>1. PICK th \in Threads, m \in Models : PopMatchedThread(th, m)
    BY <1>6 DEF Match
  <2>2. PICK i \in DOMAIN staging : staging' = RemoveAt(staging, i) /\ UNCHANGED acceptBuf
    BY <2>1 DEF PopMatchedThread
  <2>3. staging[i] \notin Queued'
    BY <1>1, <2>2, RemoveStaged DEF Queued
  <2> QED BY <1>1, <2>2, <2>3, HeadStays DEF Ahead
<1>7. CASE Pop
  <2>1. PICK warm \in Models \cup {NoModel} : PopStaged(warm)
    BY <1>1, <1>7 DEF Pop, PopNext, DrainAndPop
  <2>2. PICK i \in DOMAIN staging : Replenish(RemoveAt(staging, i))
    BY <2>1 DEF PopStaged
  <2> DEFINE rest == RemoveAt(staging, i)
  <2>3. /\ rest \in Seq(Slots) /\ NoRepeat(rest)
        /\ ToSet(rest) = ToSet(staging) \ {staging[i]}
        /\ staging[i] \notin ToSet(acceptBuf)
    BY <1>1, RemoveStaged
  <2>4. i # 1 => rest # <<>> /\ Head(rest) = Head(staging)
    BY <1>1, HeadStays
  <2>5. Replenish(rest)
    BY <2>2
  <2> HIDE DEF rest
  <2>6. Queued' = ToSet(rest) \cup ToSet(acceptBuf)
    BY <1>1, <2>3, <2>5, ReplenishTiers
  <2>7. i # 1
    BY <1>1, <2>3, <2>6
  <2>8. \/ staging' = rest
        \/ acceptBuf # <<>> /\ staging' = Append(rest, Head(acceptBuf))
    BY <2>5 DEF Replenish
  <2>9. acceptBuf # <<>> => Head(acceptBuf) \in Slots
    BY <1>1, HeadTailLemma DEF TiersOK
  <2> QED BY <1>1, <2>3, <2>4, <2>7, <2>8, <2>9, AppendBehind DEF Ahead
<1>8. ~Close
  BY <1>1, CloseTiers
<1>9. CASE \/ \E t \in Slots : Finish(t) \/ Disconnect(t)
           \/ Age \/ UNCHANGED vars
  BY <1>2, <1>9 DEF Finish, Disconnect, Age, vars, tiers
<1> QED BY <1>3, <1>4, <1>5, <1>6, <1>7, <1>8, <1>9 DEF Next

\* A queued slot was queued or is new: none comes back from its caller.
LEMMA NoneReturns ==
    ASSUME NoHeadInsert, Inv, [Next]_vars, NEW s \in Queued'
    PROVE  s \in Queued \/ s > arrived
<1>1. headInserts = 0 /\ Placed /\ arrived \in Nat
  BY InvParts, NumSlotsAssumption DEF Inv, TypeOK, NoHeadInsert
<1>2. Placed' /\ arrived' \in Nat
  <2>1. Inv'
    BY QueueStep
  <2>2. EachSlotOnce' /\ TypeOK'
    BY <2>1 DEF Inv
  <2> QED BY <2>2, NumSlotsAssumption DEF EachSlotOnce, Placed, TypeOK
<1>3. held \cup gone \subseteq held' \cup gone'
  BY <1>1 DEF Next, vars, Enqueue, EnqueueFollowUp, PushBack, InsertHead, RemoveById,
         Finish, Disconnect, Match, PopMatchedThread, Close, Age, Pop, PopNext,
         PopStaged, DrainAndPop, HandOut, NoHeadInsert
<1>4. s \in 1 .. arrived' /\ s \notin held' \cup gone'
  BY <1>2 DEF Placed
<1>5. s \in 1 .. arrived \/ s > arrived
  BY <1>1, <1>2, <1>4
<1> QED BY <1>1, <1>3, <1>4, <1>5 DEF Placed

\* The pop that leaves the head waiting takes a slot of the warm model, which is not
\* the head's, inside the batch cap; it continues the run or starts one.
LEMMA OvertakeStep ==
    ASSUME TwoModels, Inv, [Next]_vars, PopNextStep, NEW s \in Slots, Ahead(s), s \notin held'
    PROVE  /\ tag' = tag /\ lastPopped' \in Models /\ lastPopped' # tag[s]
           /\ lastPopped \in Models /\ consecutive \in Nat /\ consecutive > 0
           /\ consecutive < runCap /\ runCap \in Nat /\ runCap' = runCap
           /\ consecutive' \in Nat /\ consecutive' >= 1
           /\ (lastPopped # tag[s] => consecutive' = consecutive + 1)
<1>1. PICK warm \in Models \cup {NoModel} : PopStaged(warm) /\ warm \in Hints
  BY DEF Next, vars, PopNextStep, Enqueue, EnqueueFollowUp, PushBack, RemoveById,
         Finish, Disconnect, Match, PopMatchedThread, Close, Age, Pop, PopNext,
         DrainAndPop, Ahead
<1>2. /\ staging \in Seq(Slots) /\ Len(staging) \in Nat /\ StagingMax \in Nat \ {0}
      /\ DOMAIN staging = 1 .. Len(staging)
  BY TierFacts, LenProperties
<1>3. s = staging[1] /\ 1 \in DOMAIN staging
  BY <1>2, HeadTailLemma, EmptySeq DEF Ahead
<1>4. PICK i \in DOMAIN staging : /\ PopIndex(warm, i) /\ HandOut(staging[i])
                                 /\ UpdateRunLength(staging[i])
  BY <1>1 DEF PopStaged
<1>5. i # 1 /\ UNCHANGED <<tag, runCap>>
  BY <1>3, <1>4 DEF HandOut, given
<1>6. /\ warm # NoModel /\ ~BatchCapHit /\ i \in Matching(warm)
      /\ \A j \in Matching(warm) : i <= j
  BY <1>4, <1>5 DEF PopIndex
<1>7. tag[staging[i]] = warm /\ tag[s] # warm
  BY <1>2, <1>3, <1>5, <1>6 DEF Matching
<1>8. /\ lastPopped \in Models \cup {NoModel} /\ consecutive \in Nat
      /\ (consecutive = 0 <=> lastPopped = NoModel) /\ runCap \in Nat \ {0}
      /\ tag[s] \in Models /\ tag[staging[i]] \in Models
  <2>1. staging[i] \in Slots
    BY <1>2, ElementOfSeq
  <2> QED BY <2>1, CapsAssumption DEF Inv, TypeOK
<1>9. lastPopped # NoModel
  BY <1>1, <1>6 DEF Hints
<1>10. consecutive > 0 /\ consecutive < runCap
  BY <1>6, <1>8, <1>9 DEF BatchCapHit
<1>11. /\ lastPopped' = warm
       /\ consecutive' = IF warm = lastPopped THEN consecutive + 1 ELSE 1
  BY <1>4, <1>7 DEF UpdateRunLength
<1>12. lastPopped # tag[s] => warm = lastPopped
  BY <1>7, <1>8, <1>9 DEF TwoModels
<1> QED BY <1>5, <1>7, <1>8, <1>9, <1>10, <1>11, <1>12

\* A new head was never passed by, the head is passed by once more by each run.
LEMMA CountedStep ==
    ASSUME NoHeadInsert, TwoModels, Inv, Counted, [BypassNext]_fairnessVars
    PROVE  Counted'
<1>1. [Next]_vars /\ Inv'
  <2>1. [Next]_vars
    BY DEF BypassNext, fairnessVars
  <2> QED BY <2>1, QueueStep
<1>2. /\ bypassed \in [Slots -> Nat] /\ runCap \in Nat \ {0} /\ arrived \in Nat
      /\ arrived' \in Nat /\ arrived <= arrived' /\ runCap' = runCap /\ tag' = tag
  <2>1. UNCHANGED <<runCap, tag>> /\ (arrived' = arrived \/ arrived' = arrived + 1)
    BY <1>1 DEF Next, vars, Enqueue, EnqueueFollowUp, PushBack, InsertHead, RemoveById,
         Finish, Disconnect, Match, PopMatchedThread, Close, Age, Pop, PopNext,
         PopStaged, DrainAndPop, HandOut, given, clients, Arrive
  <2>2. runCap \in Nat \ {0} /\ arrived \in Nat
    BY CapsAssumption, NumSlotsAssumption DEF Inv, TypeOK
  <2> QED BY <2>1, <2>2 DEF Counted
<1> DEFINE Passed(s) == PopNextStep /\ staging # <<>> /\ s = Head(staging) /\ s \notin held'
<1>3. \A s \in Slots : /\ Passed(s) => bypassed'[s] = bypassed[s] + 1
                       /\ ~Passed(s) => bypassed'[s] = bypassed[s]
  <2>1. CASE BypassNext
    BY <2>1 DEF BypassNext
  <2>2. CASE UNCHANGED fairnessVars
    BY <2>2 DEF fairnessVars, vars, runLen, PopNextStep
  <2> QED BY <2>1, <2>2
<1>4. bypassed' \in [Slots -> Nat]
  <2>1. CASE BypassNext
    BY <1>2, <2>1 DEF BypassNext
  <2>2. CASE UNCHANGED fairnessVars
    BY <1>2, <2>2 DEF fairnessVars
  <2> QED BY <2>1, <2>2
<1>5. \A s \in Slots : Ahead(s) => s \in Queued /\ s \in 1 .. arrived
  <2>1. TiersOK /\ Placed
    BY InvParts DEF Inv
  <2> QED BY <2>1, HeadTailLemma DEF TiersOK, Ahead, Queued, Placed
<1>6. \A s \in Slots : ~Ahead(s) => ~Passed(s)
  BY DEF Ahead
<1>7. \A s \in Slots : s > arrived => ~Ahead(s)
  BY <1>2, <1>5
<1>8. \A s \in Slots : Passed(s) =>
        /\ lastPopped' \in Models /\ lastPopped' # tag[s]
        /\ lastPopped \in Models /\ consecutive \in Nat /\ consecutive > 0
        /\ consecutive < runCap /\ consecutive' \in Nat /\ consecutive' >= 1
        /\ (lastPopped # tag[s] => consecutive' = consecutive + 1)
  BY <1>1, OvertakeStep DEF Ahead
<1>9. \A s \in Slots : Ahead(s) /\ Ahead(s)' /\ ~Passed(s) => UNCHANGED runLen
  <2> SUFFICES ASSUME NEW s \in Slots, Ahead(s), Ahead(s)', ~Passed(s), PopNextStep
               PROVE  FALSE
    BY DEF PopNextStep
  <2>1. s \in held'
    BY DEF Ahead
  <2>2. TiersOK' /\ Placed'
    BY <1>1, InvParts DEF Inv, TiersOK, Placed, EachSlotOnce, TypeOK, NoRepeat, States
  <2>3. s \in Queued'
    <3>1. staging' \in Seq(Slots) /\ staging' # <<>> /\ s = Head(staging')
      BY <2>2 DEF TiersOK, Ahead
    <3>2. s \in ToSet(staging')
      BY <3>1, HeadTailLemma
    <3> QED BY <3>2 DEF Queued
  <2> QED BY <2>1, <2>2, <2>3 DEF Placed
<1> HIDE DEF Passed
<1>10. ASSUME NEW s \in Slots, s > arrived' \/ (s \in Queued' /\ ~Ahead(s)')
       PROVE  bypassed'[s] = 0
  <2>1. s > arrived \/ (s \in Queued /\ ~Ahead(s))
    <3>1. CASE s > arrived'
      BY <1>2, <3>1 DEF Slots
    <3>2. CASE s \in Queued' /\ ~Ahead(s)'
      BY <1>1, <3>2, AheadStays, NoneReturns
    <3> QED BY <1>10, <3>1, <3>2
  <2> QED BY <1>3, <1>6, <1>7, <2>1 DEF Counted
<1>11. ASSUME NEW s \in Slots, Ahead(s)', bypassed'[s] # 0
       PROVE  lastPopped' \in Models /\ lastPopped' # tag'[s] /\ bypassed'[s] <= consecutive'
  <2>1. Ahead(s)
    <3> SUFFICES ASSUME ~Ahead(s) PROVE bypassed[s] = 0
      BY <1>3, <1>6, <1>11
    <3>1. s \in Queued'
      <4>1. staging' \in Seq(Slots) /\ staging' # <<>> /\ s = Head(staging')
        BY <1>1, <1>11 DEF Inv, TypeOK, Ahead
      <4>2. s \in ToSet(staging')
        BY <4>1, HeadTailLemma
      <4> QED BY <4>2 DEF Queued
    <3>2. s \in Queued \/ s > arrived
      BY <1>1, <3>1, NoneReturns
    <3> QED BY <3>2 DEF Counted
  <2>2. CASE ~Passed(s)
    BY <1>2, <1>3, <1>9, <1>11, <2>1, <2>2 DEF Counted, runLen
  <2>3. CASE Passed(s)
    <3>1. bypassed[s] \in Nat /\ bypassed'[s] = bypassed[s] + 1
      BY <1>2, <1>3, <2>3
    <3>2. bypassed[s] # 0 => lastPopped # tag[s] /\ bypassed[s] <= consecutive
      BY <2>1 DEF Counted
    <3> QED BY <1>2, <1>8, <2>3, <3>1, <3>2
  <2> QED BY <2>2, <2>3
<1>12. BypassBounded'
  <2> SUFFICES ASSUME NEW s \in Slots
               PROVE  bypassed'[s] <= IF runCap = 1 THEN 0 ELSE runCap
    BY <1>2 DEF BypassBounded
  <2>1. bypassed[s] \in Nat /\ bypassed[s] <= IF runCap = 1 THEN 0 ELSE runCap
    BY <1>2 DEF Counted, BypassBounded
  <2>2. CASE ~Passed(s)
    BY <1>3, <2>1, <2>2
  <2>3. CASE Passed(s)
    <3>1. bypassed'[s] = bypassed[s] + 1 /\ Ahead(s)
      BY <1>3, <1>6, <2>3
    <3>2. bypassed[s] # 0 => bypassed[s] <= consecutive
      BY <3>1 DEF Counted
    <3>3. consecutive \in Nat /\ consecutive > 0 /\ consecutive < runCap
      BY <1>8, <2>3
    <3> QED BY <1>2, <2>1, <3>1, <3>2, <3>3
  <2> QED BY <2>2, <2>3
<1> QED BY <1>4, <1>10, <1>11, <1>12 DEF Counted

\* With two models, and nothing put in front of it, the head of staging is passed by at
\* most max_consecutive_same_model times, whatever warm hints the callers give, and
\* never if batching is off: for every number of requests and every size of the tiers.
THEOREM BypassesBounded == NoHeadInsert /\ TwoModels => (BypassSpec => []BypassBounded)
<1> SUFFICES ASSUME NoHeadInsert, TwoModels PROVE BypassSpec => []BypassBounded
  OBVIOUS
<1>1. BypassInit => Inv /\ Counted
  <2> SUFFICES ASSUME BypassInit PROVE Inv /\ Counted
    OBVIOUS
  <2>1. Inv /\ runCap \in Nat \ {0}
    BY InitInv, CapsAssumption DEF BypassInit, Init
  <2> QED BY <2>1 DEF BypassInit, Counted, BypassBounded, Ahead, Init
<1>2. Inv /\ Counted /\ [BypassNext]_fairnessVars => Inv' /\ Counted'
  <2>1. [BypassNext]_fairnessVars => [Next]_vars
    BY DEF BypassNext, fairnessVars
  <2> QED BY <2>1, QueueStep, CountedStep
<1>3. Counted => BypassBounded
  BY DEF Counted
<1> QED BY <1>1, <1>2, <1>3, PTL DEF BypassSpec
=============================================================================
