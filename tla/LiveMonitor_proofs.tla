------------------------- MODULE LiveMonitor_proofs -------------------------
(***************************************************************************)
(* Proofs about the live monitor, for any number of models, generations,    *)
(* spawns and readers and for both modes.                                   *)
(*                                                                          *)
(* The pane is never taken back to a generation older than one it has shown *)
(* (AnchorInv).  Only the order of the generation numbers matters.  A poll  *)
(* captures the number in service when its tick begins and may answer when  *)
(* that slot is over, its resident dead and the next slot in service; the   *)
(* invariant says that what an anchor has named, what a poll has captured   *)
(* and what is in service are, in this order, never decreasing.             *)
(*                                                                          *)
(* No buffer is evicted under a reader (TextInv).  What matters is that an  *)
(* eviction, which takes the oldest unwatched buffers, takes enough of them *)
(* or leaves watched ones only, and that a reader which moves on is counted *)
(* out before the buffer it goes to may evict another.                      *)
(***************************************************************************)
EXTENDS LiveMonitor, SequenceLemmas, FiniteSetTheorems, WellFoundedInduction,
        NaturalsInduction

\* The anchor to which the polls of t publish, and the models that share it.
AnchorOf(t) == IF multi THEN t ELSE "primary"
Share(t, u) == multi => t = u
Asked(t)    == poll[t].at = "asked"

MonitorTypes ==
  /\ multi \in BOOLEAN
  /\ res \in [Tags -> [spawn : 0 .. MaxSpawns, up : BOOLEAN]]
  /\ serve \in [Tags -> 0 .. MaxGens] /\ used \in 0 .. MaxGens
  /\ poll \in [Tags -> [at : {"none", "asked", "over"}, id : 0 .. MaxGens,
                        spawn : 0 .. MaxSpawns]]
  /\ gens \in [Tags -> Blocks] /\ primary \in Blocks /\ hold \in Blocks
  /\ newest \in [Anchors -> 0 .. MaxGens]

\* With one sidecar a single resident lives and a single poll is under way.
OneOfAll ==
  /\ \A t \in Tags : serve[t] # 0 => res[t].up
  /\ \A t, u \in Tags : Share(t, u) /\ res[t].up /\ res[u].up => t = u
  /\ \A t, u \in Tags : Share(t, u) /\ Asked(t) /\ Asked(u) => t = u

\* Shown, captured, in service, given out: in this order.
InOrder ==
  /\ \A a \in Anchors : newest[a] <= used
  /\ \A t \in Tags : serve[t] <= used /\ (Asked(t) => poll[t].id <= used)
  /\ \A t \in Tags : serve[t] # 0 => newest[AnchorOf(t)] <= serve[t]
  /\ \A t \in Tags : Asked(t) => newest[AnchorOf(t)] <= poll[t].id
  /\ \A t, u \in Tags :
       Share(t, u) /\ Asked(t) /\ serve[u] # 0 => poll[t].id <= serve[u]

\* What is shown, or held back to be shown, is the newest or nothing.
ShowsNewest ==
  /\ \A t \in Tags : gens[t].id \in (IF multi THEN {0, newest[t]} ELSE {0})
  /\ ~multi => /\ primary.id \in {0, newest["primary"]}
               /\ hold.id \in {0, newest["primary"]}

AnchorInv == MonitorTypes /\ OneOfAll /\ InOrder /\ ShowsNewest

-----------------------------------------------------------------------------
\* The bounds are naturals.
LEMMA Constants == MaxGens \in Nat /\ MaxSpawns \in Nat
BY LimitsAssumption

\* Blocks without a generation.
LEMMA BlocksTyped ==
  /\ Missing \in Blocks /\ Quiet \in Blocks /\ Loading \in Blocks
  /\ Missing.id = 0 /\ Quiet.id = 0 /\ Loading.id = 0
BY Constants DEF Missing, Quiet, Loading, Blocks

\* Numbers that the arithmetic below compares.
LEMMA Numbers ==
  ASSUME MonitorTypes
  PROVE  /\ used \in Int /\ MaxGens \in Int
         /\ \A t \in Tags : serve[t] \in Int /\ poll[t].id \in Int
         /\ \A a \in Anchors : newest[a] \in Int /\ newest[a] >= 0
         /\ \A t \in Tags : AnchorOf(t) \in Anchors
BY Constants DEF MonitorTypes, Anchors, AnchorOf

\* Nothing is shown, captured or in service at the start.
LEMMA AnchorInit == Init => AnchorInv
<1> SUFFICES ASSUME Init PROVE AnchorInv
  OBVIOUS
<1>1. MonitorTypes
  BY Constants, BlocksTyped DEF Init, MonitorTypes, NoPoll
<1>2. OneOfAll /\ InOrder
  BY <1>1 DEF Init, OneOfAll, InOrder, Asked, AnchorOf, NoPoll, Anchors
<1>3. ShowsNewest
  BY <1>1, BlocksTyped DEF Init, ShowsNewest, Anchors
<1> QED BY <1>1, <1>2, <1>3 DEF AnchorInv

-----------------------------------------------------------------------------
(* Sidecars come and go, slots are served: the monitor's own state stands.   *)

\* A model is loaded; nothing decodes on it yet.
LEMMA SpawnKeeps == ASSUME AnchorInv, NEW t \in Tags, Spawn(t) PROVE AnchorInv'
<1>1. /\ UNCHANGED <<multi, used, metrics>>
      /\ ~res[t].up /\ res[t].spawn < MaxSpawns /\ (multi \/ Live = {})
      /\ res' = [res EXCEPT ![t] = [spawn |-> @.spawn + 1, up |-> TRUE]]
      /\ serve' = [serve EXCEPT ![t] = 0]
  BY DEF Spawn
<1>2. MonitorTypes'
  BY <1>1, Constants DEF AnchorInv, MonitorTypes, metrics
<1>3. OneOfAll'
  BY <1>1 DEF AnchorInv, MonitorTypes, OneOfAll, Live, metrics, Asked, Share
<1>4. InOrder'
  BY <1>1, Numbers DEF AnchorInv, MonitorTypes, InOrder, metrics, Asked, Share, AnchorOf
<1>5. ShowsNewest'
  BY <1>1 DEF AnchorInv, ShowsNewest, metrics
<1> QED BY <1>2, <1>3, <1>4, <1>5 DEF AnchorInv

\* The number of a new slot is beyond all that were captured or shown.
LEMMA BeginSlotKeeps == ASSUME AnchorInv, NEW t \in Tags, BeginSlot(t) PROVE AnchorInv'
<1>1. /\ UNCHANGED <<multi, res, metrics>> /\ res[t].up /\ used < MaxGens
      /\ used' = used + 1 /\ serve' = [serve EXCEPT ![t] = used + 1]
  BY DEF BeginSlot
<1>2. MonitorTypes'
  BY <1>1, Constants DEF AnchorInv, MonitorTypes, metrics
<1>3. OneOfAll'
  BY <1>1 DEF AnchorInv, MonitorTypes, OneOfAll, metrics, Asked, Share
<1>4. InOrder'
  <2> USE <1>1, Numbers DEF AnchorInv, MonitorTypes, metrics, AnchorOf, Asked, Share
  <2>1. /\ \A a \in Anchors : newest'[a] <= used'
        /\ \A u \in Tags : /\ serve'[u] <= used'
                           /\ Asked(u)' => poll'[u].id <= used'
    BY DEF InOrder
  <2>2. \A u \in Tags : serve'[u] # 0 => newest'[AnchorOf(u)'] <= serve'[u]
    BY DEF InOrder
  <2>3. \A u \in Tags : Asked(u)' => newest'[AnchorOf(u)'] <= poll'[u].id
    BY DEF InOrder
  <2>4. \A u, v \in Tags :
          Share(u, v)' /\ Asked(u)' /\ serve'[v] # 0 => poll'[u].id <= serve'[v]
    BY DEF InOrder
  <2> QED BY <2>1, <2>2, <2>3, <2>4 DEF InOrder
<1>5. ShowsNewest'
  BY <1>1 DEF AnchorInv, ShowsNewest, metrics
<1> QED BY <1>2, <1>3, <1>4, <1>5 DEF AnchorInv

\* A rider takes a number that no anchor will name.
LEMMA BeginRideKeeps == ASSUME AnchorInv, NEW t \in Tags, BeginRide(t) PROVE AnchorInv'
<1>1. UNCHANGED <<multi, res, serve, metrics>> /\ used < MaxGens /\ used' = used + 1
  BY DEF BeginRide
<1>2. MonitorTypes'
  BY <1>1, Constants DEF AnchorInv, MonitorTypes, metrics
<1>3. OneOfAll' /\ ShowsNewest'
  BY <1>1 DEF AnchorInv, OneOfAll, ShowsNewest, metrics, Asked, Share
<1>4. InOrder'
  BY <1>1, Numbers DEF AnchorInv, MonitorTypes, InOrder, metrics, Asked, Share, AnchorOf
<1> QED BY <1>2, <1>3, <1>4 DEF AnchorInv

\* A slot or its resident is over; what a poll has captured of it stays.
LEMMA StopKeeps ==
  ASSUME AnchorInv, NEW t \in Tags, UNCHANGED <<multi, used, metrics>>,
         serve' = [serve EXCEPT ![t] = 0],
         res' = res \/ res' = [res EXCEPT ![t].up = FALSE]
  PROVE  AnchorInv'
<1>1. /\ res' \in [Tags -> [spawn : 0 .. MaxSpawns, up : BOOLEAN]]
      /\ \A u \in Tags : (res'[u].up => res[u].up) /\ (u # t => res'[u] = res[u])
  <2>1. res \in [Tags -> [spawn : 0 .. MaxSpawns, up : BOOLEAN]]
    BY DEF AnchorInv, MonitorTypes
  <2>2. CASE res' = [res EXCEPT ![t].up = FALSE]
    BY <2>1, <2>2
  <2>3. CASE res' = res
    BY <2>1, <2>3
  <2> QED BY <2>2, <2>3
<1>2. MonitorTypes'
  <2>1. serve' \in [Tags -> 0 .. MaxGens] /\ MonitorTypes
    BY Constants DEF AnchorInv, MonitorTypes
  <2>2. UNCHANGED <<multi, used, poll, gens, primary, hold, newest>>
    BY DEF metrics
  <2> QED BY <1>1, <2>1, <2>2 DEF MonitorTypes
<1>3. OneOfAll' /\ ShowsNewest'
  BY <1>1 DEF AnchorInv, MonitorTypes, OneOfAll, ShowsNewest, metrics, Asked, Share
<1>4. InOrder'
  <2>1. \A u \in Tags : serve'[u] \in {0, serve[u]} /\ 0 <= used /\ used' = used
    BY Constants DEF AnchorInv, MonitorTypes
  <2>2. UNCHANGED <<multi, poll, newest>>
    BY DEF metrics
  <2> QED BY <2>1, <2>2 DEF AnchorInv, InOrder, Asked, Share, AnchorOf
<1> QED BY <1>2, <1>3, <1>4 DEF AnchorInv

\* The text plane reads the anchors and writes none.
LEMMA TextKeeps ==
  ASSUME AnchorInv, UNCHANGED <<multi, res, serve, used, metrics>>
  PROVE  AnchorInv'
BY DEF AnchorInv, MonitorTypes, OneOfAll, InOrder, ShowsNewest, metrics, Asked, Share,
       AnchorOf

-----------------------------------------------------------------------------
(* The polls.                                                               *)

\* One block for the primary anchor: the debounce shows it or what it holds, and
\* goes on to hold one of the two or nothing.
LEMMA StoreShows ==
  ASSUME NEW b \in Blocks, hold \in Blocks, newest \in [Anchors -> 0 .. MaxGens],
         hold.id \in {0, newest["primary"]},
         b.id = 0 \/ newest["primary"] <= b.id, Store(b)
  PROVE  /\ primary' \in Blocks /\ hold' \in Blocks
         /\ newest' \in [Anchors -> 0 .. MaxGens]
         /\ primary'.id \in {0, newest'["primary"]} /\ hold'.id \in {0, newest'["primary"]}
         /\ newest'["primary"] \in {newest["primary"], b.id}
         /\ newest["primary"] <= newest'["primary"]
         /\ \A a \in Anchors \ {"primary"} : newest'[a] = newest[a]
<1> DEFINE out == IF Patient(b) THEN hold ELSE b
<1>1. /\ primary' = out /\ hold' = Held(b)
      /\ newest' = [newest EXCEPT !["primary"] = IF out.id > @ THEN out.id ELSE @]
  BY DEF Store, Publish
<1>2. /\ "primary" \in Anchors /\ newest["primary"] \in 0 .. MaxGens
      /\ b.id \in 0 .. MaxGens /\ hold.id \in 0 .. MaxGens
  BY DEF Anchors, Blocks
<1>3. out \in Blocks /\ out \in {hold, b}
  OBVIOUS
<1>4. Held(b) \in Blocks /\ Held(b) \in {out, Missing}
  BY BlocksTyped DEF Held, Patient
<1>5. newest'["primary"] = IF out.id > newest["primary"] THEN out.id ELSE newest["primary"]
  BY <1>1, <1>2
<1>6. out.id \in {0, newest'["primary"]}
  BY <1>2, <1>3, <1>5, Constants
<1> HIDE DEF out
<1>7. newest' \in [Anchors -> 0 .. MaxGens]
  BY <1>1, <1>2, <1>3 DEF Blocks
<1>8. /\ newest'["primary"] \in {newest["primary"], b.id}
      /\ newest["primary"] <= newest'["primary"]
  BY <1>2, <1>3, <1>5, Constants
<1>9. \A a \in Anchors \ {"primary"} : newest'[a] = newest[a]
  BY <1>1
<1> QED BY <1>1, <1>3, <1>4, <1>6, <1>7, <1>8, <1>9, BlocksTyped

\* The answer of a poll that is still under way: quiet, or the captured number.
LEMMA ResultKeeps ==
  ASSUME AnchorInv, NEW t \in Tags, Asked(t), NEW b \in Blocks,
         b.id \in {0, poll[t].id}, Result(t, b),
         UNCHANGED <<multi, res, serve, used>>
  PROVE  AnchorInv'
<1> DEFINE out == IF res[t].up THEN b ELSE Missing
<1>1. /\ out \in Blocks /\ out.id \in {0, poll[t].id}
      /\ poll' = [poll EXCEPT ![t].at = "over", ![t].id = 0]
  BY BlocksTyped DEF Result
<1>2. /\ MonitorTypes /\ OneOfAll /\ InOrder /\ ShowsNewest
      /\ t \in Anchors /\ "primary" \in Anchors
  BY DEF AnchorInv, Anchors
<1>3. poll' \in [Tags -> [at : {"none", "asked", "over"}, id : 0 .. MaxGens,
                          spawn : 0 .. MaxSpawns]]
  <2> DEFINE P == [at : {"none", "asked", "over"}, id : 0 .. MaxGens,
                   spawn : 0 .. MaxSpawns]
  <2>1. poll \in [Tags -> P] /\ poll[t] \in P /\ 0 \in 0 .. MaxGens
    BY <1>2, Constants DEF MonitorTypes
  <2>2. poll' = [poll EXCEPT ![t] = [poll[t] EXCEPT !.at = "over", !.id = 0]]
    BY <1>1, <2>1
  <2>3. [poll[t] EXCEPT !.at = "over", !.id = 0] \in P
    BY <2>1
  <2> HIDE DEF P
  <2>4. poll' \in [Tags -> P]
    BY <2>1, <2>2, <2>3
  <2> QED BY <2>4 DEF P
<1>4. \A u \in Tags : Asked(u)' <=> Asked(u) /\ u # t
  BY <1>1, <1>2 DEF Asked, MonitorTypes
<1>5. \A u \in Tags \ {t} : poll'[u] = poll[u]
  BY <1>1, <1>2 DEF MonitorTypes
<1>6. OneOfAll'
  BY <1>2, <1>4 DEF OneOfAll, Share
<1>7. newest[AnchorOf(t)] <= poll[t].id
  BY <1>2 DEF InOrder
<1>8. CASE multi
  <2>1. /\ UNCHANGED <<primary, hold>> /\ gens' = [gens EXCEPT ![t] = out]
        /\ newest' = [newest EXCEPT ![t] = IF out.id > @ THEN out.id ELSE @]
    BY <1>8 DEF Result, Publish
  <2> HIDE DEF out
  <2>2. /\ newest'[t] \in {newest[t], poll[t].id} /\ newest[t] <= newest'[t]
        /\ out.id \in {0, newest'[t]} /\ newest' \in [Anchors -> 0 .. MaxGens]
        /\ \A a \in Anchors \ {t} : newest'[a] = newest[a]
    BY <2>1, <1>1, <1>2, <1>7, <1>8, Numbers, Constants DEF MonitorTypes, AnchorOf, Blocks
  <2>3. MonitorTypes'
    BY <2>1, <2>2, <1>1, <1>2, <1>3 DEF MonitorTypes
  <2>4. ShowsNewest'
    BY <2>1, <2>2, <1>2, <1>8 DEF ShowsNewest, MonitorTypes, Anchors
  <2>5. InOrder'
    <3>1. \A a \in Anchors : newest'[a] <= used'
      BY <2>2, <1>2 DEF InOrder
    <3>2. \A u \in Tags : /\ serve'[u] <= used'
                          /\ Asked(u)' => poll'[u].id <= used'
      BY <1>2, <1>4, <1>5 DEF InOrder
    <3>3. \A u \in Tags : serve'[u] # 0 => newest'[AnchorOf(u)'] <= serve'[u]
      BY <2>2, <1>2, <1>8 DEF InOrder, AnchorOf, Share, Anchors
    <3>4. \A u \in Tags : Asked(u)' => newest'[AnchorOf(u)'] <= poll'[u].id
      BY <2>2, <1>2, <1>4, <1>5, <1>8 DEF InOrder, AnchorOf, Anchors
    <3>5. \A u, v \in Tags :
            Share(u, v)' /\ Asked(u)' /\ serve'[v] # 0 => poll'[u].id <= serve'[v]
      BY <1>2, <1>4, <1>5 DEF InOrder, Share
    <3> QED BY <3>1, <3>2, <3>3, <3>4, <3>5 DEF InOrder
  <2> QED BY <2>3, <2>4, <2>5, <1>6 DEF AnchorInv
<1>9. CASE ~multi
  <2> HIDE DEF out
  <2>1. Store(b) /\ UNCHANGED gens
    BY <1>9 DEF Result
  <2>2. /\ hold \in Blocks /\ newest \in [Anchors -> 0 .. MaxGens]
        /\ hold.id \in {0, newest["primary"]}
        /\ b.id = 0 \/ newest["primary"] <= b.id
    BY <1>2, <1>7, <1>9 DEF MonitorTypes, ShowsNewest, AnchorOf
  <2>3. /\ primary' \in Blocks /\ hold' \in Blocks
        /\ newest' \in [Anchors -> 0 .. MaxGens]
        /\ primary'.id \in {0, newest'["primary"]} /\ hold'.id \in {0, newest'["primary"]}
        /\ newest'["primary"] \in {newest["primary"], b.id}
        /\ newest["primary"] <= newest'["primary"]
        /\ \A a \in Anchors \ {"primary"} : newest'[a] = newest[a]
    BY <2>1, <2>2, StoreShows
  <2>4. newest'["primary"] \in {newest["primary"], poll[t].id}
    BY <2>3, <2>2, <1>2, <1>7, <1>9, Numbers DEF AnchorOf
  <2>5. MonitorTypes'
    BY <2>1, <2>3, <1>2, <1>3 DEF MonitorTypes
  <2>6. ShowsNewest'
    BY <2>1, <2>3, <1>2, <1>9 DEF ShowsNewest
  <2>7. \A u \in Tags : ~Asked(u)'
    BY <1>2, <1>4, <1>9 DEF OneOfAll, Share
  <2>8. InOrder'
    <3>1. \A a \in Anchors : newest'[a] <= used'
      BY <2>3, <2>4, <1>2 DEF InOrder
    <3>2. \A u \in Tags : serve'[u] # 0 => newest'["primary"] <= serve'[u]
      BY <2>4, <1>2, <1>9 DEF InOrder, AnchorOf, Share
    <3> QED BY <3>1, <3>2, <2>7, <1>2, <1>9 DEF InOrder, AnchorOf
  <2> QED BY <2>5, <2>6, <2>8, <1>6 DEF AnchorInv
<1> QED BY <1>8, <1>9

\* However a poll ends.
LEMMA EndPollKeeps == ASSUME AnchorInv, NEW t \in Tags, EndPoll(t) PROVE AnchorInv'
<1>1. Asked(t) /\ UNCHANGED <<multi, res, serve, used>>
  BY DEF EndPoll, Asked, world
<1>2. PICK b \in {Quiet} \cup {[id |-> poll[t].id, is |-> x] : x \in {"quiet", "active"}} :
        Result(t, b)
  BY DEF EndPoll
<1>3. b \in Blocks /\ b.id \in {0, poll[t].id}
  <2>1. poll[t].id \in 0 .. MaxGens
    BY DEF AnchorInv, MonitorTypes
  <2> QED BY <2>1, <1>2, BlocksTyped DEF Blocks
<1> QED BY <1>1, <1>2, <1>3, ResultKeeps

\* A tick captures the numbers in service; quiet and loading blocks have none.
LEMMA BeginTickKeeps == ASSUME AnchorInv, BeginTick PROVE AnchorInv'
<1> DEFINE asked == {t \in Tags : res[t].up /\ serve[t] # 0}
<1>1. /\ MonitorTypes /\ OneOfAll /\ InOrder /\ ShowsNewest
      /\ "primary" \in Anchors /\ UNCHANGED <<multi, res, serve, used>>
  BY DEF AnchorInv, Anchors, BeginTick, world
<1>2. asked = {t \in Live : serve[t] # 0} /\ Live \subseteq Tags
  BY DEF Live
<1> HIDE DEF asked
<1>3. /\ poll' = [t \in Tags |->
                CASE t \in asked -> [at |-> "asked", id |-> serve[t], spawn |-> res[t].spawn]
                  [] t \in Live \ asked -> [NoPoll EXCEPT !.at = "over"]
                  [] OTHER -> NoPoll]
      /\ gens' = IF multi THEN [t \in Tags |-> IF t \in Live \ asked THEN Quiet ELSE gens[t]]
                 ELSE gens
      /\ \/ UNCHANGED <<primary, hold, newest>>
         \/ ~multi /\ asked = {} /\ (Store(Quiet) \/ Store(Loading))
  BY <1>2 DEF BeginTick
<1>4. \A t \in Tags : /\ Asked(t)' <=> t \in asked
                      /\ t \in asked => poll'[t].id = serve[t]
  BY <1>2, <1>3 DEF Asked, NoPoll
<1>5. poll' \in [Tags -> [at : {"none", "asked", "over"}, id : 0 .. MaxGens,
                          spawn : 0 .. MaxSpawns]]
  <2> SUFFICES ASSUME NEW t \in Tags
               PROVE  poll'[t] \in [at : {"none", "asked", "over"}, id : 0 .. MaxGens,
                                    spawn : 0 .. MaxSpawns]
    BY <1>3
  <2>1. /\ serve[t] \in 0 .. MaxGens /\ res[t].spawn \in 0 .. MaxSpawns
        /\ 0 \in 0 .. MaxGens /\ 0 \in 0 .. MaxSpawns
    BY <1>1, Constants DEF MonitorTypes
  <2>2. CASE t \in asked
    BY <2>1, <2>2, <1>3
  <2>3. CASE t \in Live \ asked
    BY <2>1, <2>3, <1>3 DEF NoPoll
  <2>4. CASE t \notin asked /\ t \notin Live
    BY <2>1, <2>4, <1>3 DEF NoPoll
  <2> QED BY <2>2, <2>3, <2>4
<1>6. gens' \in [Tags -> Blocks]
  BY <1>1, <1>3, BlocksTyped DEF MonitorTypes
<1>7. OneOfAll'
  BY <1>1, <1>4 DEF OneOfAll, Share, asked
<1>8. CASE UNCHANGED <<primary, hold, newest>>
  <2>1. MonitorTypes'
    BY <1>1, <1>5, <1>6, <1>8 DEF MonitorTypes
  <2>2. ShowsNewest'
    BY <1>1, <1>3, <1>8, BlocksTyped DEF ShowsNewest
  <2>3. InOrder'
    <3>1. \A t \in Tags : Asked(t)' => newest'[AnchorOf(t)'] <= poll'[t].id
      BY <1>1, <1>4, <1>8 DEF InOrder, AnchorOf, asked
    <3>2. \A t, u \in Tags : Share(t, u)' /\ Asked(t)' /\ serve'[u] # 0
                               => poll'[t].id <= serve'[u]
      <4> SUFFICES ASSUME NEW t \in Tags, NEW u \in Tags, Share(t, u), t \in asked,
                          serve[u] # 0
                   PROVE  serve[t] <= serve[u]
        BY <1>1, <1>4 DEF Share
      <4>1. t = u
        BY <1>1 DEF OneOfAll, asked
      <4> QED BY <4>1, <1>1, Numbers
    <3> QED BY <3>1, <3>2, <1>1, <1>4, <1>8 DEF InOrder, AnchorOf
  <2> QED BY <2>1, <2>2, <2>3, <1>7 DEF AnchorInv
<1>9. CASE ~multi /\ asked = {} /\ (Store(Quiet) \/ Store(Loading))
  <2>1. /\ hold \in Blocks /\ newest \in [Anchors -> 0 .. MaxGens]
        /\ hold.id \in {0, newest["primary"]}
    BY <1>1, <1>9 DEF MonitorTypes, ShowsNewest
  <2>2. /\ primary' \in Blocks /\ hold' \in Blocks
        /\ newest' \in [Anchors -> 0 .. MaxGens]
        /\ primary'.id \in {0, newest'["primary"]} /\ hold'.id \in {0, newest'["primary"]}
        /\ newest'["primary"] \in {newest["primary"], 0}
        /\ newest["primary"] <= newest'["primary"]
        /\ \A a \in Anchors \ {"primary"} : newest'[a] = newest[a]
    <3>1. CASE Store(Quiet)
      BY <3>1, <2>1, BlocksTyped, StoreShows
    <3>2. CASE Store(Loading)
      BY <3>2, <2>1, BlocksTyped, StoreShows
    <3> QED BY <3>1, <3>2, <1>9
  <2>3. newest'["primary"] = newest["primary"]
    BY <2>2, <1>1, Numbers
  <2>4. newest' = newest
    BY <2>1, <2>2, <2>3
  <2>5. MonitorTypes'
    BY <1>1, <1>5, <1>6, <2>2 DEF MonitorTypes
  <2>6. ShowsNewest'
    BY <1>1, <1>3, <1>9, <2>2 DEF ShowsNewest
  <2>7. InOrder'
    BY <1>1, <1>4, <1>9, <2>4 DEF InOrder, AnchorOf
  <2> QED BY <2>5, <2>6, <2>7, <1>7 DEF AnchorInv
<1> QED BY <1>3, <1>8, <1>9

\* The end of a tick drops blocks and mirrors one.
LEMMA EndTickKeeps == ASSUME AnchorInv, EndTick PROVE AnchorInv'
<1>1. /\ MonitorTypes /\ OneOfAll /\ InOrder /\ ShowsNewest
      /\ UNCHANGED <<multi, res, serve, used, hold, newest>>
      /\ poll' = [t \in Tags |-> NoPoll]
  BY DEF AnchorInv, EndTick, world
<1>2. /\ Collected \in [Tags -> Blocks]
      /\ \A t \in Tags : Collected[t] \in {gens[t], Missing}
  BY <1>1, BlocksTyped DEF Collected, MonitorTypes
<1>3. CASE multi /\ gens' = Collected
           /\ primary' \in {Missing} \cup {Collected[t] : t \in Tags}
  <2>1. MonitorTypes'
    BY <1>1, <1>2, <1>3, BlocksTyped, Constants DEF MonitorTypes, NoPoll
  <2>2. ShowsNewest'
    BY <1>1, <1>2, <1>3, BlocksTyped DEF ShowsNewest
  <2>3. OneOfAll' /\ InOrder'
    BY <1>1 DEF OneOfAll, InOrder, Asked, Share, AnchorOf, NoPoll
  <2> QED BY <2>1, <2>2, <2>3 DEF AnchorInv
<1>4. CASE ~multi /\ UNCHANGED <<gens, primary>>
  <2>1. MonitorTypes'
    BY <1>1, <1>4, Constants DEF MonitorTypes, NoPoll
  <2>2. OneOfAll' /\ InOrder' /\ ShowsNewest'
    BY <1>1, <1>4 DEF OneOfAll, InOrder, ShowsNewest, Asked, Share, AnchorOf, NoPoll
  <2> QED BY <2>1, <2>2 DEF AnchorInv
<1> QED
  <2>1. multi => /\ gens' = Collected
                 /\ primary' \in {Missing} \cup {Collected[t] : t \in Tags}
    BY DEF EndTick
  <2>2. ~multi => UNCHANGED <<gens, primary>>
    BY DEF EndTick
  <2> QED BY <2>1, <2>2, <1>3, <1>4

-----------------------------------------------------------------------------

\* The invariant is kept by every step.
LEMMA AnchorStep == AnchorInv /\ [Next]_vars => AnchorInv'
<1> SUFFICES ASSUME AnchorInv, [Next]_vars PROVE AnchorInv'
  OBVIOUS
<1>1. CASE \E t \in Tags : Spawn(t) \/ BeginSlot(t) \/ BeginRide(t)
  BY <1>1, SpawnKeeps, BeginSlotKeeps, BeginRideKeeps
<1>2. CASE \E t \in Tags : EndSlot(t) \/ Die(t)
  BY <1>2, StopKeeps DEF EndSlot, Die
<1>3. CASE Monitor
  BY <1>3, BeginTickKeeps, EndTickKeeps, EndPollKeeps DEF Monitor
<1>4. CASE \/ \E h \in handles : Claim(h)
           \/ \E g \in Gens : Feed(g) \/ CloseTee(g)
           \/ \E r \in Readers : Follow(r) \/ Take(r) \/ Disconnect(r)
           \/ UNCHANGED vars
  <2>1. UNCHANGED <<multi, res, serve, used, metrics>>
    <3>1. CASE \E h \in handles : Claim(h)
      BY <3>1 DEF Claim
    <3>2. CASE \E g \in Gens : Feed(g) \/ CloseTee(g)
      BY <3>2 DEF Feed, CloseTee, world
    <3>3. CASE \E r \in Readers : Follow(r) \/ Take(r) \/ Disconnect(r)
      BY <3>3 DEF Follow, Take, Disconnect, world
    <3>4. CASE UNCHANGED vars
      BY <3>4 DEF vars, world
    <3> QED BY <1>4, <3>1, <3>2, <3>3, <3>4
  <2> QED BY <2>1, TextKeeps
<1> QED BY <1>1, <1>2, <1>3, <1>4 DEF Next

\* Neither the debounce, nor a late answer of /slots, nor the death or reload of
\* a model takes an anchor back to a generation older than one it has named.
THEOREM AnchorsAdvance == Spec => []AnchorNeverReturns
<1>1. AnchorInv => AnchorNeverReturns
  BY DEF AnchorInv, ShowsNewest, AnchorNeverReturns
<1> QED BY <1>1, AnchorInit, AnchorStep, PTL DEF Spec

-----------------------------------------------------------------------------
(* The buffers.  Induction over data, one set at a time: where a set of      *)
(* naturals is not empty it has a least element.                             *)

\* The least of a set of naturals.
LEMMA NatLeast ==
  ASSUME NEW T \in SUBSET Nat, T # {}
  PROVE  \E n \in T : \A m \in T : n <= m
<1> DEFINE R == {ss \in Nat \X Nat : ss[1] < ss[2]}
<1>1. IsWellFoundedOn(R, Nat)
  BY NatLessThanWellFounded DEF OpToRel
<1> HIDE DEF R
<1>2. PICK n \in T : \A m \in T : ~ (<<m, n>> \in R)
  BY <1>1, WFMin
<1>3. \A m \in T : ~ (m < n)
  BY <1>2 DEF R
<1> QED BY <1>3

Ascends(f) == \A i, j \in DOMAIN f : i < j => f[i] < f[j]

\* A set of positions can be listed in ascending order.
LEMMA Listable ==
  ASSUME NEW n \in Nat, NEW I \in SUBSET (1 .. n)
  PROVE  IsFiniteSet(I) /\ \E f \in [1 .. Cardinality(I) -> I] : Ascends(f)
<1> DEFINE Listed(J) == \E f \in [1 .. Cardinality(J) -> J] : Ascends(f)
           Bad == {m \in Nat : \E J \in SUBSET (1 .. m) : ~Listed(J)}
<1>1. ASSUME NEW m \in Nat, NEW J \in SUBSET (1 .. m)
      PROVE  IsFiniteSet(J) /\ Cardinality(J) \in Nat
  <2>1. IsFiniteSet(1 .. m)
    BY FS_Interval
  <2> QED BY <2>1, FS_Subset, FS_CardinalityType
<1>2. Bad = {}
  <2>1. SUFFICES ASSUME Bad # {} PROVE FALSE
    OBVIOUS
  <2>2. PICK m \in Bad : \A k \in Bad : m <= k
    <3>1. Bad \in SUBSET Nat
      OBVIOUS
    <3> HIDE DEF Bad
    <3> QED BY <2>1, <3>1, NatLeast
  <2>3. PICK J \in SUBSET (1 .. m) : ~Listed(J)
    OBVIOUS
  <2>4. m \in Nat /\ m # 0
    <3>1. SUFFICES ASSUME m = 0 PROVE FALSE
      OBVIOUS
    <3>2. J = {} /\ Cardinality(J) = 0
      <4>1. J = {}
        BY <3>1
      <4> QED BY <4>1, FS_EmptySet
    <3> DEFINE g == [i \in 1 .. 0 |-> i]
    <3>3. g \in [1 .. Cardinality(J) -> J] /\ Ascends(g)
      BY <3>2 DEF Ascends
    <3> QED BY <2>3, <3>3
  <2>5. m - 1 \in Nat /\ m - 1 \notin Bad
    <3>1. m - 1 \in Nat /\ ~(m <= m - 1)
      BY <2>4
    <3> HIDE DEF Bad
    <3> QED BY <2>2, <3>1
  <2>6. \A K \in SUBSET (1 .. m - 1) : Listed(K)
    BY <2>5
  <2> HIDE DEF Bad
  <2>7. m \in J
    <3>1. m \notin J => J \in SUBSET (1 .. m - 1)
      BY <2>4
    <3> HIDE DEF Listed
    <3> QED BY <2>3, <2>6, <3>1
  <2>8. PICK K : K = J \ {m}
    OBVIOUS
  <2>9. PICK c : c = Cardinality(K)
    OBVIOUS
  <2>10. K \in SUBSET (1 .. m - 1)
    BY <2>4, <2>8
  <2>11. c \in Nat /\ Cardinality(J) = c + 1
    <3>1. IsFiniteSet(J) /\ Cardinality(J) \in Nat
      BY <1>1, <2>4
    <3>2. IsFiniteSet(K) /\ c = Cardinality(J) - 1
      BY <2>7, <2>8, <2>9, <3>1, FS_RemoveElement
    <3>3. c \in Nat
      BY <2>9, <3>2, FS_CardinalityType
    <3> QED BY <3>1, <3>2, <3>3
  <2>12. PICK f \in [1 .. c -> K] : Ascends(f)
    BY <2>6, <2>9, <2>10
  <2>13. PICK g : g = [i \in 1 .. c + 1 |-> IF i = c + 1 THEN m ELSE f[i]]
    OBVIOUS
  <2>14. \A i \in 1 .. c : i \in 1 .. c + 1 /\ i # c + 1 /\ g[i] = f[i] /\ f[i] \in K
    BY <2>11, <2>12, <2>13
  <2>15. c + 1 \in 1 .. c + 1 /\ g[c + 1] = m /\ DOMAIN g = 1 .. c + 1
         /\ \A i \in 1 .. c + 1 : i = c + 1 \/ i \in 1 .. c
    BY <2>11, <2>13
  <2>16. g \in [1 .. c + 1 -> J]
    BY <2>7, <2>8, <2>13, <2>14, <2>15
  <2>17. Ascends(g)
    <3> SUFFICES ASSUME NEW i \in 1 .. c + 1, NEW j \in 1 .. c + 1, i < j
                 PROVE  g[i] < g[j]
      BY <2>15 DEF Ascends
    <3>1. i \in 1 .. c
      BY <2>11
    <3>2. CASE j = c + 1
      <4>1. f[i] \in 1 .. m - 1
        BY <2>10, <2>14, <3>1
      <4> QED BY <2>4, <2>14, <2>15, <3>1, <3>2, <4>1
    <3>3. CASE j \in 1 .. c
      BY <2>12, <2>14, <3>1, <3>3 DEF Ascends
    <3> QED BY <2>15, <3>2, <3>3
  <2> QED BY <2>3, <2>11, <2>16, <2>17
<1>3. n \notin Bad
  BY <1>2
<1> QED BY <1>1, <1>3

\* Keeping some elements keeps just these.
LEMMA OnlyKeeps ==
  ASSUME NEW S, NEW seq \in Seq(S), NoRepeat(seq), NEW K
  PROVE  /\ Only(seq, K) \in Seq(S) /\ NoRepeat(Only(seq, K))
         /\ ToSet(Only(seq, K)) = ToSet(seq) \cap K
<1> DEFINE at   == {i \in 1 .. Len(seq) : seq[i] \in K}
           left == ToSet(seq) \cap K
           n    == Cardinality(left)
           InOrderOf(q) == \A i, j \in DOMAIN q : i < j =>
                \E k, l \in DOMAIN seq : k < l /\ seq[k] = q[i] /\ seq[l] = q[j]
<1>1. Len(seq) \in Nat /\ DOMAIN seq = 1 .. Len(seq) /\ ToSet(seq) \subseteq S
  BY LenProperties, ToSetSubset
<1>2. /\ IsFiniteSet(at) /\ \E f \in [1 .. Cardinality(at) -> at] : Ascends(f)
  BY <1>1, Listable
<1>3. IsFiniteSet(left) /\ n = Cardinality(at)
  <2> DEFINE b == [i \in at |-> seq[i]]
  <2>1. \A e \in left : \E i \in at : seq[i] = e
    BY InToSet
  <2>2. \A i \in at : seq[i] \in left
    BY InToSet
  <2>3. b \in Bijection(at, left)
    BY <1>1, <2>1, <2>2 DEF Bijection, Injection, Surjection, IsInjective, NoRepeat
  <2> QED BY <1>2, <2>3, FS_Bijection DEF ExistsBijection
<1>4. n \in Nat
  BY <1>3, FS_CardinalityType
<1> HIDE DEF n, left
<1>5. \E q \in [1 .. n -> left] : InOrderOf(q)
  <2>1. PICK f \in [1 .. n -> at] : Ascends(f)
    BY <1>2, <1>3
  <2> DEFINE q == [i \in 1 .. n |-> seq[f[i]]]
  <2>2. \A i \in 1 .. n : f[i] \in 1 .. Len(seq) /\ seq[f[i]] \in left
    BY <2>1, InToSet DEF left
  <2>3. q \in [1 .. n -> left]
    BY <2>2
  <2>4. InOrderOf(q)
    BY <1>1, <2>1, <2>2 DEF Ascends
  <2> QED BY <2>3, <2>4
<1>6. PICK q : q = Only(seq, K)
  OBVIOUS
<1>7. q \in [1 .. n -> left] /\ InOrderOf(q)
  <2>1. q = CHOOSE r \in [1 .. n -> left] : InOrderOf(r)
    BY <1>6 DEF Only, n, left
  <2> HIDE DEF InOrderOf
  <2> QED BY <1>5, <2>1
<1>8. q \in Seq(left) /\ q \in Seq(S) /\ Len(q) = n /\ DOMAIN q = 1 .. n
  BY <1>1, <1>4, <1>7, SeqDef, LenProperties DEF left
<1>9. NoRepeat(q)
  <2> SUFFICES ASSUME NEW i \in 1 .. n, NEW j \in 1 .. n, i < j
               PROVE  q[i] # q[j]
    BY <1>4, <1>8 DEF NoRepeat
  <2>1. PICK k, l \in DOMAIN seq : k < l /\ seq[k] = q[i] /\ seq[l] = q[j]
    BY <1>7, <1>8
  <2> QED BY <1>1, <2>1 DEF NoRepeat
<1>10. ToSet(q) = left
  <2>1. IsFiniteSet(1 .. n) /\ Cardinality(1 .. n) = n
    BY <1>4, FS_Interval
  <2>2. q \in Injection(1 .. n, left)
    BY <1>7, <1>8, <1>9 DEF Injection, IsInjective, NoRepeat
  <2>3. q \in Surjection(1 .. n, left)
    BY <1>3, <2>1, <2>2, FS_Injection DEF n
  <2>4. \A e \in left : \E i \in 1 .. n : q[i] = e
    BY <2>3 DEF Surjection
  <2>5. \A i \in 1 .. n : q[i] \in left
    BY <1>7
  <2>6. \A e : e \in ToSet(q) <=> \E i \in 1 .. n : q[i] = e
    BY <1>8, InToSet
  <2> QED BY <2>4, <2>5, <2>6
<1> QED BY <1>6, <1>8, <1>9, <1>10 DEF left

\* A sequence that repeats nothing has as many elements as positions.
LEMMA Distinct ==
  ASSUME NEW S, NEW q \in Seq(S), NoRepeat(q)
  PROVE  IsFiniteSet(ToSet(q)) /\ Cardinality(ToSet(q)) = Len(q)
<1>1. Len(q) \in Nat /\ DOMAIN q = 1 .. Len(q)
  BY LenProperties
<1>2. IsFiniteSet(1 .. Len(q)) /\ Cardinality(1 .. Len(q)) = Len(q)
  BY <1>1, FS_Interval
<1>3. q \in [1 .. Len(q) -> ToSet(q)]
  BY <1>1, LenProperties, InToSet
<1>4. q \in Bijection(1 .. Len(q), ToSet(q))
  BY <1>1, <1>3, InToSet DEF Bijection, Injection, Surjection, IsInjective, NoRepeat
<1> QED BY <1>2, <1>4, FS_Bijection DEF ExistsBijection

\* Dropping one buffer drops no other.
LEMMA WithoutKeeps ==
  ASSUME NEW S, NEW seq \in Seq(S), NoRepeat(seq), NEW g
  PROVE  /\ Without(seq, g) \in Seq(S) /\ NoRepeat(Without(seq, g))
         /\ ToSet(Without(seq, g)) = ToSet(seq) \ {g}
         /\ Len(Without(seq, g)) = IF g \in ToSet(seq) THEN Len(seq) - 1 ELSE Len(seq)
<1>1. CASE g \in ToSet(seq)
  <2>1. PICK i \in 1 .. Len(seq) : seq[i] = g
    BY <1>1, InToSet
  <2>2. {j \in 1 .. Len(seq) : seq[j] = g} = {i}
    BY <2>1, LenProperties DEF NoRepeat
  <2>3. Min({i}) = i
    BY <2>1, LenProperties DEF Min
  <2>4. Without(seq, g) = RemoveAt(seq, i)
    <3>1. Without(seq, g) = RemoveAt(seq, SelectInSeq(seq, LAMBDA e : e = g))
      BY <2>1 DEF Without, RemoveFirst
    <3>2. SelectInSeq(seq, LAMBDA e : e = g) = Min({i})
      BY <2>2 DEF SelectInSeq
    <3> QED BY <2>3, <3>1, <3>2
  <2>5. PICK q : q = Without(seq, g)
    OBVIOUS
  <2>6. /\ q \in Seq(S) /\ Len(q) = Len(seq) - 1
        /\ NoRepeat(q) /\ ToSet(q) = ToSet(seq) \ {seq[i]}
    <3>1. q = RemoveAt(seq, i)
      BY <2>4, <2>5
    <3>2. q \in Seq(S) /\ Len(q) = Len(seq) - 1
      BY <2>1, <3>1, RemoveAtLemma
    <3>3. NoRepeat(q) /\ ToSet(q) = ToSet(seq) \ {seq[i]}
      BY <2>1, <3>1, RemoveAtLemma
    <3> QED BY <3>2, <3>3
  <2> QED BY <1>1, <2>1, <2>5, <2>6
<1>2. CASE g \notin ToSet(seq)
  BY <1>2, InToSet DEF Without, RemoveFirst
<1> QED BY <1>1, <1>2

\* An eviction spares the watched; if too many are left, all of these are watched.
LEMMA EvictedKeeps ==
  ASSUME NEW seq \in Seq(Gens), NoRepeat(seq), NEW W
  PROVE  LET q == Evicted(seq, W) IN
         /\ q \in Seq(Gens) /\ NoRepeat(q)
         /\ ToSet(q) \subseteq ToSet(seq) /\ ToSet(seq) \cap W \subseteq ToSet(q)
         /\ Len(q) <= MaxKeys \/ ToSet(q) \subseteq W
<1>1. MaxKeys \in Nat /\ Len(seq) \in Nat /\ ToSet(seq) \subseteq Gens
  BY LimitsAssumption, LenProperties, ToSetSubset
<1>2. CASE Len(seq) <= MaxKeys
  BY <1>2 DEF Evicted
<1>3. CASE ~(Len(seq) <= MaxKeys)
  <2> DEFINE free == Only(seq, Gens \ W)
             many == IF Len(free) < Len(seq) - MaxKeys THEN Len(free) ELSE Len(seq) - MaxKeys
             part == SubSeq(free, 1, many)
  <2>1. free \in Seq(Gens) /\ NoRepeat(free) /\ ToSet(free) = ToSet(seq) \ W
    BY <1>1, OnlyKeeps
  <2>2. Len(free) \in Nat
    BY <2>1, LenProperties
  <2>3. many \in 0 .. Len(free) /\ (many = Len(free) \/ many = Len(seq) - MaxKeys)
    BY <1>1, <1>3, <2>2
  <2>4. Evicted(seq, W) = Only(seq, Gens \ ToSet(part))
    BY <1>3 DEF Evicted
  <2> HIDE DEF free, many
  <2>5. 1 \in 1 .. Len(free) + 1
    BY <2>2
  <2>6. /\ part \in Seq(Gens) /\ NoRepeat(part)
        /\ Len(part) = IF 1 <= many THEN many - 1 + 1 ELSE 0
        /\ ToSet(part) = {free[j] : j \in 1 .. many}
    BY <2>1, <2>3, <2>5, SliceLemma
  <2> HIDE DEF part
  <2>7. ToSet(part) \subseteq ToSet(free) /\ Len(part) = many
    BY <2>1, <2>2, <2>3, <2>6, InToSet
  <2>8. many = Len(free) => ToSet(part) = ToSet(free)
    BY <2>1, <2>6, InToSet
  <2>9. PICK q : q = Evicted(seq, W)
    OBVIOUS
  <2>10. q \in Seq(Gens) /\ NoRepeat(q) /\ ToSet(q) = ToSet(seq) \ ToSet(part)
    <3>1. ToSet(seq) \cap (Gens \ ToSet(part)) = ToSet(seq) \ ToSet(part)
      BY <1>1
    <3> QED BY <2>4, <2>9, <3>1, OnlyKeeps
  <2>11. CASE many = Len(free)
    BY <2>1, <2>8, <2>9, <2>10, <2>11
  <2>12. CASE many = Len(seq) - MaxKeys
    <3>1. ToSet(seq) \cap ToSet(part) = ToSet(part)
      BY <2>1, <2>7
    <3>2. /\ IsFiniteSet(ToSet(seq)) /\ Cardinality(ToSet(seq)) = Len(seq)
          /\ Cardinality(ToSet(part)) = many /\ Cardinality(ToSet(q)) = Len(q)
      BY <2>6, <2>7, <2>10, Distinct
    <3>3. Cardinality(ToSet(q)) = Cardinality(ToSet(seq)) - Cardinality(ToSet(part))
      <4>1. PICK A : A = ToSet(seq)
        OBVIOUS
      <4>2. PICK B : B = ToSet(part)
        OBVIOUS
      <4>3. Cardinality(A \ B) = Cardinality(A) - Cardinality(A \cap B)
        BY <3>2, <4>1, FS_Difference
      <4>4. A \cap B = B /\ ToSet(q) = A \ B
        BY <2>10, <3>1, <4>1, <4>2
      <4> QED BY <4>1, <4>2, <4>3, <4>4
    <3>4. Len(q) = MaxKeys
      BY <1>1, <2>12, <3>2, <3>3
    <3> QED BY <1>1, <2>1, <2>7, <2>9, <2>10, <3>4
  <2> QED BY <2>3, <2>11, <2>12
<1> QED BY <1>2, <1>3

\* Buffers in order, those of W among them, and too many only for readers.
Buffered(q, W) ==
  /\ q \in Seq(Gens) /\ NoRepeat(q) /\ W \subseteq ToSet(q)
  /\ Len(q) <= MaxKeys \/ Len(q) <= Cardinality(Readers)

\* Getting a buffer keeps the watched ones.
LEMMA GotKeeps ==
  ASSUME NEW R \in SUBSET Readers, NEW q, Buffered(q, WatchedBy(R)), NEW g \in Gens
  PROVE  Buffered(Got(q, g, WatchedBy(R)), WatchedBy(R))
<1> DEFINE W == WatchedBy(R)
<1>1. q \in Seq(Gens) /\ NoRepeat(q) /\ W \subseteq ToSet(q) /\ Len(q) \in Nat
  BY LenProperties DEF Buffered
<1>2. IsFiniteSet(W) /\ Cardinality(W) \in Nat /\ Cardinality(W) <= Cardinality(Readers)
      /\ Cardinality(Readers) \in Nat
  <2> DEFINE open == {x \in R : reader[x].open}
             at   == [x \in open |-> reader[x].cur]
  <2>1. IsFiniteSet(Readers) /\ Cardinality(Readers) \in Nat
    BY LimitsAssumption, FS_CardinalityType
  <2>2. IsFiniteSet(open) /\ Cardinality(open) <= Cardinality(Readers)
    BY <2>1, FS_Subset
  <2>3. Cardinality(open) \in Nat
    BY <2>2, FS_CardinalityType
  <2>4. at \in Surjection(open, W)
    BY DEF Surjection, WatchedBy
  <2> HIDE DEF open, at
  <2>5. IsFiniteSet(W) /\ Cardinality(W) <= Cardinality(open)
    BY <2>2, <2>4, FS_Surjection
  <2>6. Cardinality(W) \in Nat
    BY <2>5, FS_CardinalityType
  <2> QED BY <2>1, <2>2, <2>3, <2>5, <2>6
<1> HIDE DEF W
<1>3. CASE g \in ToSet(q)
  <2>1. PICK o : o = Without(q, g)
    OBVIOUS
  <2>2. o \in Seq(Gens) /\ NoRepeat(o) /\ ToSet(o) = ToSet(q) \ {g} /\ Len(o) = Len(q) - 1
    BY <1>1, <1>3, <2>1, WithoutKeeps
  <2>3. /\ Append(o, g) \in Seq(Gens) /\ Len(Append(o, g)) = Len(o) + 1
        /\ ToSet(Append(o, g)) = ToSet(o) \cup {g} /\ NoRepeat(Append(o, g))
    BY <2>2, AppendLemma
  <2>4. Got(q, g, W) = Append(o, g)
    BY <1>3, <2>1 DEF Got
  <2>5. W \subseteq ToSet(Append(o, g)) /\ Len(Append(o, g)) = Len(q)
    BY <1>1, <1>3, <2>2, <2>3
  <2> QED BY <2>3, <2>4, <2>5 DEF Buffered, W
<1>4. CASE g \notin ToSet(q)
  <2>1. PICK a : a = Append(q, g)
    OBVIOUS
  <2>2. a \in Seq(Gens) /\ ToSet(a) = ToSet(q) \cup {g} /\ NoRepeat(a)
    BY <1>1, <1>4, <2>1, AppendLemma
  <2>3. PICK e : e = Evicted(a, W)
    OBVIOUS
  <2>4. /\ e \in Seq(Gens) /\ NoRepeat(e) /\ ToSet(a) \cap W \subseteq ToSet(e)
        /\ Len(e) <= MaxKeys \/ ToSet(e) \subseteq W
    BY <2>2, <2>3, EvictedKeeps
  <2>5. Got(q, g, W) = e
    BY <1>4, <2>1, <2>3 DEF Got
  <2>6. ToSet(e) \subseteq W => Len(e) <= Cardinality(W)
    BY <1>2, <2>4, Distinct, FS_Subset
  <2>7. Len(e) \in Nat
    BY <2>4, LenProperties
  <2> QED BY <1>1, <1>2, <2>2, <2>4, <2>5, <2>6, <2>7 DEF Buffered, W
<1> QED BY <1>3, <1>4

-----------------------------------------------------------------------------
(* Readers and their buffers.                                               *)

ReaderStates ==
  {c \in [cur : 0 .. MaxGens, open : BOOLEAN, queue : Seq({"piece", "end"})] :
     Len(c.queue) <= QueueMax}

TextInv ==
  /\ tees \in SUBSET Gens /\ done \in SUBSET Gens
  /\ reader \in [Readers -> ReaderStates]
  /\ Buffered(bufs, WatchedBy(Readers))

\* A reader that leaves takes its finished buffer with it, and nobody else's.
LEMMA LeftKeeps ==
  ASSUME TextInv, NEW r \in Readers
  PROVE  Buffered(LeftBy(r), WatchedBy(Readers \ {r}))
<1>1. PICK g : g = reader[r].cur
  OBVIOUS
<1>2. PICK W : W = WatchedBy(Readers \ {r})
  OBVIOUS
<1>3. PICK n : n = Cardinality(Readers)
  OBVIOUS
<1>4. /\ bufs \in Seq(Gens) /\ NoRepeat(bufs) /\ WatchedBy(Readers) \subseteq ToSet(bufs)
      /\ Len(bufs) <= MaxKeys \/ Len(bufs) <= n
      /\ Len(bufs) \in Nat /\ MaxKeys \in Nat /\ n \in Nat
  BY <1>3, LenProperties, LimitsAssumption, FS_CardinalityType DEF TextInv, Buffered
<1>5. W \subseteq ToSet(bufs)
  BY <1>2, <1>4 DEF WatchedBy
<1>6. CASE Subscribers(g) = {r} /\ g \in done
  <2>1. g \notin W
    BY <1>2, <1>6 DEF Subscribers, WatchedBy
  <2>2. PICK q : q = Without(bufs, g)
    OBVIOUS
  <2>3. LeftBy(r) = q
    BY <1>1, <1>6, <2>2 DEF LeftBy
  <2>4. /\ q \in Seq(Gens) /\ NoRepeat(q) /\ ToSet(q) = ToSet(bufs) \ {g}
        /\ Len(q) \in {Len(bufs) - 1, Len(bufs)}
    BY <1>4, <2>2, WithoutKeeps
  <2>5. Len(q) <= MaxKeys \/ Len(q) <= n
    BY <1>4, <2>4
  <2>6. W \subseteq ToSet(q)
    BY <1>5, <2>1, <2>4
  <2> QED BY <1>2, <1>3, <2>3, <2>4, <2>5, <2>6 DEF Buffered
<1>7. CASE ~(Subscribers(g) = {r} /\ g \in done)
  <2>1. LeftBy(r) = bufs
    BY <1>1, <1>7 DEF LeftBy
  <2> QED BY <1>2, <1>3, <1>4, <1>5, <2>1 DEF Buffered
<1> QED BY <1>6, <1>7

\* An offer lets a reader's queue grow up to its bound and changes nothing else.
LEMMA OfferedKeeps ==
  ASSUME TextInv, NEW g, NEW item \in {"piece", "end"}
  PROVE  /\ Offered(g, item) \in [Readers -> ReaderStates]
         /\ \A r \in Readers : /\ Offered(g, item)[r].cur = reader[r].cur
                               /\ Offered(g, item)[r].open = reader[r].open
<1>1. /\ \A r \in Readers : reader[r] \in ReaderStates
      /\ QueueMax \in Nat
  BY LimitsAssumption DEF TextInv
<1>2. ASSUME NEW r \in Readers, Len(reader[r].queue) < QueueMax
      PROVE  /\ [reader[r] EXCEPT !.queue = Append(@, item)] \in ReaderStates
             /\ [reader[r] EXCEPT !.queue = Append(@, item)].cur = reader[r].cur
             /\ [reader[r] EXCEPT !.queue = Append(@, item)].open = reader[r].open
  <2>1. PICK c : c = reader[r]
    OBVIOUS
  <2>2. PICK q : q = Append(c.queue, item)
    OBVIOUS
  <2>3. /\ c \in [cur : 0 .. MaxGens, open : BOOLEAN, queue : Seq({"piece", "end"})]
        /\ Len(c.queue) \in Nat /\ Len(c.queue) < QueueMax
    BY <1>1, <1>2, <2>1, LenProperties DEF ReaderStates
  <2>4. q \in Seq({"piece", "end"}) /\ Len(q) = Len(c.queue) + 1
    BY <2>2, <2>3, AppendProperties
  <2>5. Len(q) <= QueueMax
    BY <1>1, <2>3, <2>4
  <2>6. PICK d : d = [c EXCEPT !.queue = q]
    OBVIOUS
  <2>7. /\ d \in [cur : 0 .. MaxGens, open : BOOLEAN, queue : Seq({"piece", "end"})]
        /\ d.queue = q /\ d.cur = c.cur /\ d.open = c.open
    BY <2>3, <2>4, <2>6
  <2>8. [reader[r] EXCEPT !.queue = Append(@, item)] = d
    BY <2>1, <2>2, <2>3, <2>6
  <2> QED BY <2>1, <2>5, <2>7, <2>8 DEF ReaderStates
<1>3. \A r \in Readers : Offered(g, item)[r] =
        IF r \in Subscribers(g) /\ Len(reader[r].queue) < QueueMax
        THEN [reader[r] EXCEPT !.queue = Append(@, item)] ELSE reader[r]
  BY DEF Offered
<1>4. \A r \in Readers : /\ Offered(g, item)[r] \in ReaderStates
                         /\ Offered(g, item)[r].cur = reader[r].cur
                         /\ Offered(g, item)[r].open = reader[r].open
  BY <1>1, <1>2, <1>3
<1>5. Offered(g, item) = [r \in Readers |-> Offered(g, item)[r]]
  BY DEF Offered
<1> QED BY <1>4, <1>5

\* Who watches what is in cur and open alone.
LEMMA WatchedSame ==
  ASSUME NEW R, \A r \in R : reader'[r].cur = reader[r].cur /\ reader'[r].open = reader[r].open
  PROVE  WatchedBy(R)' = WatchedBy(R)
BY DEF WatchedBy

\* One reader goes over to a state c; the buffers are those for the others, and
\* the one that c watches is among them.
LEMMA ReaderMoves ==
  ASSUME TextInv, NEW r \in Readers, NEW c \in ReaderStates,
         reader' = [reader EXCEPT ![r] = c], UNCHANGED tees,
         done' = done \cap ToSet(bufs'), Buffered(bufs', WatchedBy(Readers \ {r})),
         c.open => c.cur \in ToSet(bufs')
  PROVE  TextInv'
<1>1. /\ reader' \in [Readers -> ReaderStates] /\ reader'[r] = c
      /\ \A x \in Readers \ {r} : reader'[x] = reader[x]
      /\ tees' \in SUBSET Gens /\ done' \in SUBSET Gens
  BY DEF TextInv
<1>2. ASSUME NEW e \in WatchedBy(Readers)'
      PROVE  e \in ToSet(bufs')
  <2>1. PICK x \in Readers : reader'[x].open /\ e = reader'[x].cur
    BY <1>2 DEF WatchedBy
  <2>2. CASE x = r
    BY <1>1, <2>1, <2>2
  <2>3. CASE x # r
    BY <1>1, <2>1, <2>3 DEF Buffered, WatchedBy
  <2> QED BY <2>2, <2>3
<1>3. Buffered(bufs', WatchedBy(Readers)')
  BY <1>2 DEF Buffered
<1> QED BY <1>1, <1>3 DEF TextInv, Buffered

\* What an anchor names is a generation or nothing.
LEMMA AnchorTyped == ASSUME AnchorInv, NEW r \in Readers PROVE Anchor(r) \in 0 .. MaxGens
<1>1. /\ primary \in Blocks /\ gens \in [Tags -> Blocks]
      /\ Wants[r] \in Tags \cup {"primary"}
  BY LimitsAssumption DEF AnchorInv, MonitorTypes
<1>2. primary.id \in 0 .. MaxGens /\ \A t \in Tags : gens[t].id \in 0 .. MaxGens
  BY <1>1 DEF Blocks
<1> QED BY <1>1, <1>2 DEF Anchor

\* The connections of a reader that has not subscribed or has left, and of one that
\* has just subscribed.
LEMMA Unsubscribed ==
  /\ Fresh \in ReaderStates /\ ~Fresh.open
  /\ \A c \in ReaderStates : [c EXCEPT !.open = FALSE, !.queue = <<>>] \in ReaderStates
<1>1. QueueMax \in Nat /\ 0 \in 0 .. MaxGens
  BY LimitsAssumption
<1>2. PICK q : q = <<>>
  OBVIOUS
<1>3. q \in Seq({"piece", "end"}) /\ Len(q) = 0
  BY <1>2
<1>4. Len(q) <= QueueMax
  BY <1>1, <1>3
<1>5. Fresh \in ReaderStates /\ ~Fresh.open
  BY <1>1, <1>2, <1>3, <1>4 DEF Fresh, ReaderStates
<1>6. ASSUME NEW c \in ReaderStates
      PROVE  [c EXCEPT !.open = FALSE, !.queue = <<>>] \in ReaderStates
  BY <1>2, <1>3, <1>4 DEF ReaderStates
<1> QED BY <1>5, <1>6

LEMMA Subscribed ==
  ASSUME NEW q \in {<<>>, <<"end">>}
  PROVE  q \in Seq({"piece", "end"}) /\ Len(q) <= QueueMax
<1>1. QueueMax \in Nat \ {0}
  BY LimitsAssumption
<1>2. /\ <<>> \in Seq({"piece", "end"}) /\ Len(<<>>) = 0
      /\ <<"end">> \in Seq({"piece", "end"}) /\ Len(<<"end">>) = 1
  OBVIOUS
<1>3. CASE q = <<>>
  BY <1>1, <1>2, <1>3
<1>4. CASE q = <<"end">>
  BY <1>1, <1>2, <1>4
<1> QED BY <1>3, <1>4

\* A reader follows its anchor.
LEMMA FollowKeeps ==
  ASSUME AnchorInv, TextInv, NEW r \in Readers, Follow(r)
  PROVE  TextInv'
<1>1. PICK a : a = Anchor(r)
  OBVIOUS
<1>2. PICK W : W = WatchedBy(Readers \ {r})
  OBVIOUS
<1>3. /\ bufs' = IF a = 0 THEN LeftBy(r) ELSE Got(LeftBy(r), a, W)
      /\ done' = done \cap ToSet(bufs') /\ UNCHANGED tees
  BY <1>1, <1>2 DEF Follow
<1>4. PICK q : q = IF a \in done' THEN <<"end">> ELSE <<>>
  OBVIOUS
<1>5. reader' = [reader EXCEPT ![r] =
         IF a # 0 /\ a \notin ToSet(bufs') THEN Fresh
         ELSE [@ EXCEPT !.cur = a, !.open = (a # 0), !.queue = q]]
  BY <1>1, <1>4 DEF Follow
<1>6. a \in 0 .. MaxGens /\ (a # 0 => a \in Gens)
  BY <1>1, AnchorTyped, Constants DEF Gens
<1>7. Buffered(LeftBy(r), W)
  BY <1>2, LeftKeeps
<1>8. Buffered(bufs', W)
  <2>1. CASE a = 0
    BY <1>3, <1>7, <2>1
  <2>2. CASE a # 0
    BY <1>2, <1>3, <1>6, <1>7, <2>2, GotKeeps
  <2> QED BY <2>1, <2>2
<1>9. reader[r] \in ReaderStates /\ DOMAIN reader = Readers
  BY DEF TextInv
<1>10. CASE a # 0 /\ a \notin ToSet(bufs')
  <2>1. reader' = [reader EXCEPT ![r] = Fresh]
    BY <1>5, <1>10
  <2> QED BY <1>2, <1>3, <1>8, <2>1, Unsubscribed, ReaderMoves
<1>11. CASE ~(a # 0 /\ a \notin ToSet(bufs'))
  <2>1. PICK o \in BOOLEAN : o = (a # 0)
    OBVIOUS
  <2>2. PICK x : x = reader[r]
    OBVIOUS
  <2>3. PICK c : c = [x EXCEPT !.cur = a, !.open = o, !.queue = q]
    OBVIOUS
  <2>4. c \in ReaderStates /\ c.cur = a /\ c.open = o
    <3>1. /\ q \in Seq({"piece", "end"}) /\ Len(q) <= QueueMax
          /\ x \in [cur : 0 .. MaxGens, open : BOOLEAN, queue : Seq({"piece", "end"})]
      BY <1>4, <1>9, <2>2, Subscribed DEF ReaderStates
    <3> QED BY <1>6, <2>3, <3>1 DEF ReaderStates
  <2>5. reader' = [reader EXCEPT ![r] = c]
    BY <1>5, <1>9, <1>11, <2>1, <2>2, <2>3
  <2>6. c.open => c.cur \in ToSet(bufs')
    BY <1>11, <2>1, <2>4
  <2> QED BY <1>2, <1>3, <1>8, <2>4, <2>5, <2>6, ReaderMoves
<1> QED BY <1>10, <1>11

\* A connection ends.
LEMMA DisconnectKeeps ==
  ASSUME TextInv, NEW r \in Readers, Disconnect(r)
  PROVE  TextInv'
BY LeftKeeps, Unsubscribed, ReaderMoves DEF Disconnect

\* A reader takes the next item; after the end it leaves.
LEMMA TakeKeeps ==
  ASSUME TextInv, NEW r \in Readers, Take(r)
  PROVE  TextInv'
<1>1. PICK c : c = reader[r]
  OBVIOUS
<1>2. /\ c \in ReaderStates /\ DOMAIN reader = Readers
      /\ c.queue # <<>> /\ c.queue \in Seq({"piece", "end"}) /\ Len(c.queue) <= QueueMax
      /\ QueueMax \in Nat /\ UNCHANGED tees /\ done' = done \cap ToSet(bufs')
  BY <1>1, LimitsAssumption DEF TextInv, ReaderStates, Take
<1>3. CASE Head(c.queue) = "end"
  <2>1. PICK d : d = [c EXCEPT !.open = FALSE, !.queue = <<>>]
    OBVIOUS
  <2>2. d \in ReaderStates /\ ~d.open
    BY <1>2, <2>1, Unsubscribed DEF ReaderStates
  <2>3. bufs' = LeftBy(r) /\ reader' = [reader EXCEPT ![r].open = FALSE, ![r].queue = <<>>]
    BY <1>1, <1>3 DEF Take
  <2>4. reader' = [reader EXCEPT ![r] = d]
    BY <1>1, <1>2, <2>1, <2>3
  <2>5. Buffered(bufs', WatchedBy(Readers \ {r}))
    BY <2>3, LeftKeeps
  <2> QED BY <1>2, <2>2, <2>4, <2>5, ReaderMoves
<1>4. CASE Head(c.queue) # "end"
  <2>1. PICK q : q = Tail(c.queue)
    OBVIOUS
  <2>2. q \in Seq({"piece", "end"}) /\ Len(q) <= QueueMax
    <3>1. Len(c.queue) \in Nat /\ Len(q) = Len(c.queue) - 1 /\ q \in Seq({"piece", "end"})
      BY <1>2, <2>1, LenProperties, HeadTailProperties
    <3> QED BY <1>2, <3>1
  <2>3. PICK d : d = [c EXCEPT !.queue = q]
    OBVIOUS
  <2>4. d \in ReaderStates /\ d.cur = c.cur /\ d.open = c.open
    BY <1>2, <2>2, <2>3 DEF ReaderStates
  <2>5. UNCHANGED bufs /\ reader' = [reader EXCEPT ![r].queue = Tail(@)]
    BY <1>1, <1>4 DEF Take
  <2>6. reader' = [reader EXCEPT ![r] = d]
    BY <1>1, <1>2, <2>1, <2>3, <2>5
  <2>7. c.open => c.cur \in ToSet(bufs')
    BY <1>1, <2>5 DEF TextInv, Buffered, WatchedBy
  <2>8. Buffered(bufs', WatchedBy(Readers \ {r}))
    BY <2>5 DEF TextInv, Buffered, WatchedBy
  <2> QED BY <1>2, <2>4, <2>6, <2>7, <2>8, ReaderMoves
<1> QED BY <1>3, <1>4

\* The tees feed a buffer and end; no reader changes what it watches.
LEMMA TeeKeeps ==
  ASSUME TextInv, NEW g \in Gens, Feed(g) \/ CloseTee(g)
  PROVE  TextInv'
<1>1. /\ tees' \in SUBSET Gens /\ done' \in SUBSET Gens
  BY DEF TextInv, Feed, CloseTee
<1>2. /\ reader' \in [Readers -> ReaderStates]
      /\ \A r \in Readers : reader'[r].cur = reader[r].cur /\ reader'[r].open = reader[r].open
  <2>1. reader' \in {reader, Offered(g, "piece"), Offered(g, "end")}
    BY DEF Feed, CloseTee
  <2>2. CASE reader' = reader
    BY <2>2 DEF TextInv
  <2>3. CASE reader' = Offered(g, "piece")
    BY <2>3, OfferedKeeps
  <2>4. CASE reader' = Offered(g, "end")
    BY <2>4, OfferedKeeps
  <2> QED BY <2>1, <2>2, <2>3, <2>4
<1>3. WatchedBy(Readers)' = WatchedBy(Readers)
  BY <1>2, WatchedSame
<1>4. Buffered(bufs', WatchedBy(Readers))
  <2>1. CASE Feed(g)
    BY <2>1, GotKeeps DEF Feed, TextInv
  <2>2. CASE CloseTee(g)
    BY <2>2 DEF CloseTee, TextInv
  <2> QED BY <2>1, <2>2
<1> QED BY <1>1, <1>2, <1>3, <1>4 DEF TextInv, Buffered

\* The other plane leaves the text alone.
LEMMA TextStands ==
  ASSUME TextInv, UNCHANGED text, tees' \in SUBSET Gens
  PROVE  TextInv'
BY DEF TextInv, text, Buffered, WatchedBy

-----------------------------------------------------------------------------
(* The whole monitor.                                                       *)

\* The handles, the clock of the ticks and the debounce: a hold is given up
\* before its patience runs out.
WorldInv ==
  /\ handles \in SUBSET (Tags \X (1 .. MaxSpawns)) /\ sup \in {"sleep", "tick"}
  /\ ticks \in 0 .. HoldTicks /\ (hold # Missing => ticks < HoldTicks)

MonitorInv == AnchorInv /\ TextInv /\ WorldInv

\* The debounce counts no further than its patience.
LEMMA StoreCounts ==
  ASSUME ticks \in 0 .. HoldTicks, hold # Missing => ticks < HoldTicks, NEW b, Store(b)
  PROVE  ticks' \in 0 .. HoldTicks /\ (hold' # Missing => ticks' < HoldTicks)
<1>1. HoldTicks \in Nat \ {0}
  BY LimitsAssumption
<1>2. /\ hold' = IF b.is = "active" THEN b ELSE IF Patient(b) THEN hold ELSE Missing
      /\ ticks' = IF b.is = "active" \/ Other(b) THEN 0
                  ELSE IF hold # Missing THEN ticks + 1 ELSE ticks
  BY DEF Store, Held
<1>3. CASE b.is = "active" \/ Other(b)
  BY <1>1, <1>2, <1>3
<1>4. CASE ~(b.is = "active" \/ Other(b))
  <2>1. Patient(b) => hold # Missing /\ ticks + 1 < HoldTicks
    BY DEF Patient
  <2> QED BY <1>1, <1>2, <1>4, <2>1
<1> QED BY <1>3, <1>4

\* Every step keeps it.
LEMMA WorldStep == ASSUME AnchorInv, WorldInv, [Next]_vars PROVE WorldInv'
<1>1. handles' \in SUBSET (Tags \X (1 .. MaxSpawns))
  <2>1. ASSUME NEW t \in Tags, Spawn(t)
        PROVE  handles' \in SUBSET (Tags \X (1 .. MaxSpawns))
    <3>1. res[t].spawn \in 0 .. MaxSpawns /\ res[t].spawn < MaxSpawns
      BY <2>1 DEF Spawn, AnchorInv, MonitorTypes
    <3>2. res[t].spawn + 1 \in 1 .. MaxSpawns
      BY <3>1, Constants
    <3>3. handles' = {<<t, res[t].spawn + 1>>} \cup (IF multi THEN handles ELSE {})
      BY <2>1 DEF Spawn
    <3> QED BY <3>2, <3>3 DEF WorldInv
  <2>2. CASE \E h \in handles : Claim(h)
    BY <2>2 DEF Claim, WorldInv
  <2>3. CASE UNCHANGED handles
    BY <2>3 DEF WorldInv
  <2>4. (\E t \in Tags : Spawn(t)) \/ (\E h \in handles : Claim(h)) \/ UNCHANGED handles
    BY DEF Next, BeginSlot, BeginRide, EndSlot, Die, Monitor, BeginTick, EndTick, EndPoll,
           Feed, CloseTee, Follow, Take, Disconnect, vars, world
  <2> QED BY <2>1, <2>2, <2>3, <2>4
<1>2. sup' \in {"sleep", "tick"}
  BY DEF WorldInv, Next, Spawn, BeginSlot, BeginRide, EndSlot, Die, Claim, Monitor, BeginTick,
         EndTick, EndPoll, Feed, CloseTee, Follow, Take, Disconnect, vars, metrics
<1>3. ticks' \in 0 .. HoldTicks /\ (hold' # Missing => ticks' < HoldTicks)
  <2>1. UNCHANGED <<hold, ticks>> \/ \E b \in Blocks \cup {Quiet, Loading, Missing} : Store(b)
    <3>1. CASE BeginTick
      BY <3>1 DEF BeginTick
    <3>2. CASE \E t \in Tags : EndPoll(t)
      <4>1. PICK t \in Tags : EndPoll(t)
        BY <3>2
      <4>2. PICK b \in {Quiet} \cup {[id |-> poll[t].id, is |-> x] : x \in {"quiet", "active"}} :
              Result(t, b)
        BY <4>1 DEF EndPoll
      <4>3. b \in Blocks
        <5>1. poll[t].id \in 0 .. MaxGens
          BY DEF AnchorInv, MonitorTypes
        <5> QED BY <5>1, <4>2, BlocksTyped DEF Blocks
      <4> QED BY <4>2, <4>3 DEF Result
    <3>3. CASE EndTick
      BY <3>3 DEF EndTick
    <3>4. Monitor \/ UNCHANGED metrics
      BY DEF Next, Spawn, BeginSlot, BeginRide, EndSlot, Die, Claim, Feed, CloseTee, Follow,
             Take, Disconnect, vars
    <3> QED BY <3>1, <3>2, <3>3, <3>4 DEF Monitor, metrics
  <2> QED BY <2>1, StoreCounts DEF WorldInv
<1> QED BY <1>1, <1>2, <1>3 DEF WorldInv

\* The text plane's state, whatever step is taken.
LEMMA TextStep == ASSUME AnchorInv, TextInv, [Next]_vars PROVE TextInv'
<1>1. CASE \E g \in Gens : Feed(g) \/ CloseTee(g)
  BY <1>1, TeeKeeps
<1>2. CASE \E r \in Readers : Follow(r) \/ Take(r) \/ Disconnect(r)
  BY <1>2, FollowKeeps, TakeKeeps, DisconnectKeeps
<1>3. CASE \E t \in Tags : BeginSlot(t) \/ BeginRide(t)
  <2>1. UNCHANGED text /\ used < MaxGens /\ tees' \subseteq tees \cup {used + 1}
    BY <1>3 DEF BeginSlot, BeginRide
  <2>2. used + 1 \in Gens
    BY <2>1, Constants DEF AnchorInv, MonitorTypes, Gens
  <2>3. tees' \in SUBSET Gens
    BY <2>1, <2>2 DEF TextInv
  <2> QED BY <2>1, <2>3, TextStands
<1>4. CASE UNCHANGED <<tees, text>>
  BY <1>4, TextStands DEF TextInv
<1>5. \/ \E g \in Gens : Feed(g) \/ CloseTee(g)
      \/ \E r \in Readers : Follow(r) \/ Take(r) \/ Disconnect(r)
      \/ \E t \in Tags : BeginSlot(t) \/ BeginRide(t)
      \/ UNCHANGED <<tees, text>>
  BY DEF Next, Spawn, EndSlot, Die, Claim, Monitor, BeginTick, EndTick, EndPoll, vars
<1> QED BY <1>1, <1>2, <1>3, <1>4, <1>5

\* The monitor starts with nothing.
LEMMA MonitorInit == Init => MonitorInv
<1> SUFFICES ASSUME Init PROVE MonitorInv
  OBVIOUS
<1>1. WorldInv
  BY LimitsAssumption DEF Init, WorldInv
<1>2. TextInv
  <2>1. reader \in [Readers -> ReaderStates]
    BY Unsubscribed DEF Init
  <2>2. WatchedBy(Readers) = {}
    BY Unsubscribed DEF Init, WatchedBy
  <2>3. bufs \in Seq(Gens) /\ NoRepeat(bufs) /\ Len(bufs) = 0
    BY DEF Init, NoRepeat
  <2> QED BY <2>1, <2>2, <2>3, LimitsAssumption DEF Init, TextInv, Buffered
<1> QED BY <1>1, <1>2, AnchorInit DEF MonitorInv

\* The invariant holds in every state.
LEMMA MonitorHeld == Spec => []MonitorInv
<1>1. MonitorInv /\ [Next]_vars => MonitorInv'
  BY AnchorStep, TextStep, WorldStep DEF MonitorInv
<1> QED BY <1>1, MonitorInit, PTL DEF Spec

\* Every variable of the monitor keeps its type and no subscriber's queue outgrows
\* its bound.
THEOREM MonitorTyped == Spec => []TypeOK
<1>1. MonitorInv => TypeOK
  <2> SUFFICES ASSUME MonitorInv PROVE TypeOK
    OBVIOUS
  <2>1. IsInjective(bufs) /\ bufs \in Seq(Gens)
    BY LenProperties DEF MonitorInv, TextInv, Buffered, NoRepeat, IsInjective
  <2>2. \A r \in Readers :
          /\ reader[r].cur \in 0 .. MaxGens /\ reader[r].open \in BOOLEAN
          /\ Len(reader[r].queue) <= QueueMax
    BY DEF MonitorInv, TextInv, ReaderStates
  <2>3. tees \in SUBSET Gens /\ done \in SUBSET Gens /\ MonitorTypes /\ WorldInv
    BY DEF MonitorInv, TextInv, AnchorInv
  <2> QED BY <2>1, <2>2, <2>3 DEF TypeOK, MonitorTypes, WorldInv
<1> QED BY <1>1, MonitorHeld, PTL

\* A subscriber's buffer is never evicted under it, and no more than MAX_LIVE_KEYS
\* are kept unless subscribers need them.
THEOREM BuffersStay == Spec => []BuffersKept
<1>1. MonitorInv => BuffersKept
  BY DEF MonitorInv, TextInv, Buffered, BuffersKept
<1> QED BY <1>1, MonitorHeld, PTL
=============================================================================
