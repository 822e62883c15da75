-------------------------- MODULE SlotRecords_proofs --------------------------
(***************************************************************************)
(* Proofs about the table of slots, for any number of requests and exits:   *)
(* its types, that a handler which returned has ended its row, what a boot  *)
(* leaves open, and, if the sweeper is patient, that no row is ended early  *)
(* and that the table implements RowLife.                                   *)
(*                                                                         *)
(* About thirty actions are steps of a handler of one slot.  HandlerStep    *)
(* proves of each of them the few facts collected in Handled; the rest of   *)
(* the proofs only uses those.                                              *)
(***************************************************************************)
EXTENDS SlotRecords, TLAPS

Mem == [at : Places, state : States, pid : BOOLEAN]
Row == [state : States, pid : BOOLEAN, ended : BOOLEAN, made : BOOLEAN]

\* A slot and its row: the row is made when the slot arrives, and neither is
\* COLD before its end.
Linked(s) ==
  /\ mem[s].at = "none" <=> ~row[s].made
  /\ row[s].ended => row[s].made
  /\ mem[s].state = "COLD" => mem[s].at = "lost"
  /\ Open(s) => row[s].state # "COLD"
  /\ mem[s].at = "spawning" => multi

\* Nothing is in service while the manager is down.
DownMeansLost == ~up => \A s \in Slots : mem[s].at \in {"none", "lost"}

RecordsInv ==
  TypeOK /\ (\A s \in Slots : Linked(s)) /\ DownMeansLost /\ DoneRowEnded /\ BootSettles

\* What patience adds: an old row is the row of a finished request.
AgedMeansOver == \A s \in aged : Over(s)

PatientInv == EndedMeansOver /\ AgedMeansOver

\* What a step of the handler of s does to the slots and the rows.
Handled(s) ==
  /\ mem' \in [Slots -> Mem] /\ row' \in [Slots -> Row]
  /\ \A x \in Slots \ {s} : mem'[x] = mem[x] /\ row'[x] = row[x]
  /\ mem[s].at \notin Finished \cup {"none"}
  /\ mem'[s].at \notin {"none", "lost"} /\ mem'[s].state # "COLD"
  /\ row'[s].made
  /\ row'[s].ended => row[s].ended \/ mem'[s].at \in Finished
  /\ ~row'[s].ended => row'[s].state # "COLD"
  /\ mem'[s].at = "spawning" => multi
  /\ mem'[s].at = "done" /\ ~multi => row'[s].ended

LEMMA RecordsInit == Init => RecordsInv /\ PatientInv
BY MaxExitsAssumption
   DEF Init, RecordsInv, PatientInv, TypeOK, Linked, Open, DownMeansLost, DoneRowEnded,
       BootSettles, EndedMeansOver, AgedMeansOver, At, Over, NoRow, States, Places, Finished

-----------------------------------------------------------------------------
(* One step of one handler. *)

LEMMA SlotFacts ==
    ASSUME RecordsInv, NEW s \in Slots
    PROVE  /\ mem \in [Slots -> Mem] /\ row \in [Slots -> Row]
           /\ mem[s] \in Mem /\ row[s] \in Row /\ Linked(s)
BY DEF RecordsInv, TypeOK, Mem, Row

\* The slot moves to another await, with or without another state.
LEMMA GoFacts ==
    ASSUME RecordsInv, NEW s \in Slots, NEW at \in Places, NEW state \in States,
           Go(s, at, state) \/ GoWithPid(s, at, state)
    PROVE  /\ mem' \in [Slots -> Mem] /\ \A x \in Slots \ {s} : mem'[x] = mem[x]
           /\ mem'[s].at = at /\ mem'[s].state = state
<1>1. CASE Go(s, at, state)
  <2>1. mem' = [mem EXCEPT ![s] = [mem[s] EXCEPT !.at = at, !.state = state]]
    BY <1>1, SlotFacts DEF Go, Mem
  <2> QED BY <2>1, SlotFacts DEF Mem
<1>2. CASE GoWithPid(s, at, state)
  BY <1>2, SlotFacts DEF GoWithPid, Mem
<1> QED BY <1>1, <1>2

LEMMA MoveFacts ==
    ASSUME RecordsInv, NEW s \in Slots, NEW at \in Places, Move(s, at)
    PROVE  /\ mem' \in [Slots -> Mem] /\ \A x \in Slots \ {s} : mem'[x] = mem[x]
           /\ mem'[s].at = at /\ mem'[s].state = mem[s].state
BY SlotFacts DEF Move, Mem

\* An audit, and a mark.
LEMMA UpsertFacts ==
    ASSUME RecordsInv, NEW s \in Slots, Upsert(s)
    PROVE  /\ row' \in [Slots -> Row] /\ \A x \in Slots \ {s} : row'[x] = row[x]
           /\ row'[s].made /\ ~row'[s].ended /\ row'[s].state = mem[s].state
BY SlotFacts DEF Upsert, Image, Mem, Row

LEMMA MarkFacts ==
    ASSUME RecordsInv, NEW s \in Slots, MarkEnded(s)
    PROVE  /\ row' \in [Slots -> Row] /\ \A x \in Slots \ {s} : row'[x] = row[x]
           /\ row'[s].made = row[s].made /\ row'[s].ended
BY SlotFacts DEF MarkEnded, Ended, Row, States

LEMMA Names ==
    /\ Places = {"none", "queued", "done", "evicted", "lost", "match", "m_serve", "m_grace",
                 "m_pop", "m_end", "r_audit", "r_serve"} \cup Anchored
    /\ Anchored = {"to_load", "inherit", "gates", "refused", "refused_end", "boot", "sick",
                   "reaping", "spawning", "to_active", "serve", "to_grace", "window", "parking"}
    /\ Finished = {"done", "evicted", "lost"}
    /\ States = {"ACCEPT_BUFFER", "STAGED", "LOADING", "LOADING_FAIL", "ACTIVE", "ACTIVE_MATCH",
                 "GRACE", "POPPED", "COLD"}
BY DEF Places, Anchored, Matching, Riding, Finished, States

LEMMA SerialStep ==
    ASSUME RecordsInv, NEW s \in Slots, Serial(s)
    PROVE  Handled(s)
<1>1. CASE BeginSerial(s)
  BY <1>1, SlotFacts, GoFacts, Names
     DEF BeginSerial, Handled, Linked, Open
<1>2. CASE LoadingWritten(s)
  BY <1>2, SlotFacts, GoFacts, UpsertFacts, Names
     DEF LoadingWritten, Handled, Linked, Open
<1>3. CASE InheritWritten(s)
  BY <1>3, SlotFacts, GoFacts, UpsertFacts, Names
     DEF InheritWritten, Handled, Linked, Open
<1>4. CASE PassGates(s)
  BY <1>4, SlotFacts, GoFacts, Names
     DEF PassGates, Handled, Linked, Open
<1>5. CASE RefusalWritten(s)
  BY <1>5, SlotFacts, GoFacts, UpsertFacts, Names
     DEF RefusalWritten, Handled, Linked, Open
<1>6. CASE WaitHealthy(s)
  BY <1>6, SlotFacts, GoFacts, Names
     DEF WaitHealthy, Handled, Linked, Open
<1>7. CASE SicknessWritten(s)
  BY <1>7, SlotFacts, GoFacts, UpsertFacts, Names
     DEF SicknessWritten, Handled, Linked, Open
<1>8. CASE Raise(s)
  BY <1>8, SlotFacts, MoveFacts, Names
     DEF Raise, Handled, Linked, Open
<1>9. CASE MarkDone(s)
  BY <1>9, SlotFacts, MoveFacts, MarkFacts, Names
     DEF MarkDone, Handled, Linked, Open
<1> QED BY <1>1, <1>2, <1>3, <1>4, <1>5, <1>6, <1>7, <1>8, <1>9 DEF Serial

LEMMA ResidentStep ==
    ASSUME RecordsInv, NEW s \in Slots, Resident(s)
    PROVE  Handled(s)
<1>1. CASE Reserve(s)
  BY <1>1, SlotFacts, MoveFacts, Names
     DEF Reserve, Handled, Linked, Open
<1>2. CASE SpawnResident(s)
  BY <1>2, SlotFacts, GoFacts, MoveFacts, Names
     DEF SpawnResident, Handled, Linked, Open
<1>3. CASE ReuseResident(s)
  BY <1>3, SlotFacts, GoFacts, Names
     DEF ReuseResident, Handled, Linked, Open
<1>4. CASE DriverRaises(s)
  BY <1>4, SlotFacts, MoveFacts, Names
     DEF DriverRaises, Handled, Linked, Open
<1> QED BY <1>1, <1>2, <1>3, <1>4 DEF Resident

LEMMA SharedStep ==
    ASSUME RecordsInv, NEW s \in Slots, Shared(s)
    PROVE  Handled(s)
<1>1. CASE PopEvicted(s)
  BY <1>1, SlotFacts, GoFacts, Names
     DEF PopEvicted, Handled, Linked, Open
<1>2. CASE ActiveWritten(s)
  BY <1>2, SlotFacts, MoveFacts, UpsertFacts, Names
     DEF ActiveWritten, Handled, Linked, Open
<1>3. CASE Serve(s)
  BY <1>3, SlotFacts, GoFacts, Names
     DEF Serve, Handled, Linked, Open
<1>4. CASE GraceWritten(s)
  BY <1>4, SlotFacts, MoveFacts, UpsertFacts, Names
     DEF GraceWritten, Handled, Linked, Open
<1>5. CASE CloseWindow(s)
  BY <1>5, SlotFacts, GoFacts, Names
     DEF CloseWindow, Handled, Linked, Open
<1>6. CASE Match(s)
  BY <1>6, SlotFacts, GoFacts, Names
     DEF Match, Handled, Linked, Open
<1>7. CASE MatchWritten(s)
  BY <1>7, SlotFacts, GoFacts, UpsertFacts, Names
     DEF MatchWritten, Handled, Linked, Open
<1>8. CASE ServeMatch(s)
  BY <1>8, SlotFacts, GoFacts, MarkFacts, Names
     DEF ServeMatch, Handled, Linked, Open
<1>9. CASE MatchGraceWritten(s)
  BY <1>9, SlotFacts, GoFacts, UpsertFacts, Names
     DEF MatchGraceWritten, Handled, Linked, Open
<1>10. CASE MatchPopWritten(s)
  BY <1>10, SlotFacts, MoveFacts, UpsertFacts, Names
     DEF MatchPopWritten, Handled, Linked, Open
<1>11. CASE MarkMatched(s)
  BY <1>11, SlotFacts, MoveFacts, MarkFacts, Names
     DEF MarkMatched, Handled, Linked, Open
<1>12. CASE Admit(s)
  BY <1>12, SlotFacts, GoFacts, MoveFacts, Names
     DEF Admit, Handled, Linked, Open
<1>13. CASE AdmitEvicted(s)
  <2>1. /\ mem[s].at = "queued" /\ Go(s, "evicted", "STAGED")
        /\ row' = [row EXCEPT ![s] = [state |-> "STAGED", pid |-> mem[s].pid,
                                     ended |-> FALSE, made |-> TRUE]]
    BY <1>13, SlotFacts DEF AdmitEvicted, Image, Mem
  <2>2. /\ row' \in [Slots -> Row] /\ \A x \in Slots \ {s} : row'[x] = row[x]
        /\ row'[s].made /\ ~row'[s].ended /\ row'[s].state = "STAGED"
    BY <2>1, SlotFacts, Names DEF Mem, Row
  <2>3. /\ mem' \in [Slots -> Mem] /\ \A x \in Slots \ {s} : mem'[x] = mem[x]
        /\ mem'[s].at = "evicted" /\ mem'[s].state = "STAGED"
    <3>1. "evicted" \in Places /\ "STAGED" \in States
      BY Names
    <3> QED BY <2>1, <3>1, GoFacts
  <2>4. "queued" \notin Finished
    BY Names
  <2> QED BY <2>1, <2>2, <2>3, <2>4 DEF Handled
<1>14. CASE RiderWritten(s)
  BY <1>14, SlotFacts, MoveFacts, UpsertFacts, Names
     DEF RiderWritten, Handled, Linked, Open
<1>15. CASE EndRide(s)
  BY <1>15, SlotFacts, MoveFacts, MarkFacts, Names
     DEF EndRide, Handled, Linked, Open
<1> QED BY <1>1, <1>2, <1>3, <1>4, <1>5, <1>6, <1>7, <1>8, <1>9, <1>10, <1>11, <1>12, <1>13, <1>14, <1>15 DEF Shared

-----------------------------------------------------------------------------
(* Every step keeps the invariant. *)

LEMMA HandledKeeps ==
    ASSUME RecordsInv, NEW s \in Slots, Handled(s), up, UNCHANGED <<up, multi, aged, live, exits>>
    PROVE  RecordsInv'
<1>1. /\ mem' \in [Slots -> Mem] /\ row' \in [Slots -> Row]
      /\ \A x \in Slots \ {s} : mem'[x] = mem[x] /\ row'[x] = row[x]
  BY DEF Handled
<1>2. TypeOK'
  BY <1>1 DEF RecordsInv, TypeOK, Mem, Row
<1>3. \A x \in Slots : Linked(x)'
  <2>1. ASSUME NEW x \in Slots \ {s} PROVE Linked(x)'
    BY <1>1 DEF RecordsInv, Linked, Open
  <2>2. Linked(s)'
    BY DEF Handled, Linked, Open
  <2> QED BY <2>1, <2>2
<1>4. DownMeansLost'
  BY DEF DownMeansLost
<1>5. DoneRowEnded'
  <2>1. \A x \in Slots \ {s} : ~multi /\ mem'[x].at = "done" => row'[x].ended
    BY <1>1 DEF RecordsInv, DoneRowEnded, At
  <2>2. ~multi /\ mem'[s].at = "done" => row'[s].ended
    BY DEF Handled
  <2> QED BY <2>1, <2>2 DEF DoneRowEnded, At
<1>6. BootSettles'
  <2>1. mem'[s].at # "lost"
    BY DEF Handled
  <2> QED BY <1>1, <2>1 DEF RecordsInv, BootSettles, At
<1> QED BY <1>2, <1>3, <1>4, <1>5, <1>6 DEF RecordsInv

\* An arrival opens the row of a slot that had none.
LEMMA ArriveStep ==
    ASSUME RecordsInv, NEW s \in Slots, Arrive(s)
    PROVE  /\ mem' \in [Slots -> Mem] /\ row' \in [Slots -> Row]
           /\ \A x \in Slots \ {s} : mem'[x] = mem[x] /\ row'[x] = row[x]
           /\ mem[s].at = "none" /\ ~row[s].made
           /\ mem'[s].at = "queued" /\ mem'[s].state # "COLD"
           /\ row'[s].made /\ ~row'[s].ended /\ row'[s].state # "COLD"
<1>1. PICK tier \in {"STAGED", "ACCEPT_BUFFER"} : Submit(s, tier)
  BY DEF Arrive
<1>2. /\ mem[s].at = "none" /\ Go(s, "queued", tier)
      /\ row' = [row EXCEPT ![s] = [state |-> tier, pid |-> mem[s].pid,
                                   ended |-> FALSE, made |-> TRUE]]
  BY <1>1, SlotFacts DEF Submit, Image, Mem
<1>3. "queued" \in Places /\ tier \in States /\ tier # "COLD"
  BY Names
<1>4. /\ row' \in [Slots -> Row] /\ \A x \in Slots \ {s} : row'[x] = row[x]
      /\ row'[s].made /\ ~row'[s].ended /\ row'[s].state = tier
  BY <1>2, <1>3, SlotFacts DEF Mem, Row
<1> QED BY <1>2, <1>3, <1>4, SlotFacts, GoFacts DEF Linked

LEMMA ArriveKeeps ==
    ASSUME RecordsInv, NEW s \in Slots, Arrive(s)
    PROVE  RecordsInv'
<1>1. up /\ UNCHANGED <<up, multi, aged, live, exits>>
  BY DEF Arrive
<1>2. TypeOK'
  BY <1>1, ArriveStep DEF RecordsInv, TypeOK, Mem, Row
<1>3. \A x \in Slots : Linked(x)'
  <2>1. ASSUME NEW x \in Slots \ {s} PROVE Linked(x)'
    BY <1>1, ArriveStep DEF RecordsInv, Linked, Open
  <2>2. Linked(s)'
    BY ArriveStep DEF Linked, Open
  <2> QED BY <2>1, <2>2
<1>4. DownMeansLost' /\ DoneRowEnded' /\ BootSettles'
  BY <1>1, ArriveStep DEF RecordsInv, DownMeansLost, DoneRowEnded, BootSettles, At
<1> QED BY <1>2, <1>3, <1>4 DEF RecordsInv

LEMMA SweepStep ==
    ASSUME RecordsInv, Sweep
    PROVE  /\ row' \in [Slots -> Row]
           /\ \A x \in Slots : \/ row'[x] = row[x]
                              \/ /\ Sweepable(x) /\ row'[x].made /\ row'[x].ended
<1>1. row' = [x \in Slots |-> IF Sweepable(x) THEN Ended(row[x]) ELSE row[x]]
  BY DEF Sweep
<1>2. "COLD" \in States
  BY DEF States
<1>3. ASSUME NEW x \in Slots
      PROVE  /\ row[x] \in Row /\ Ended(row[x]) \in Row
             /\ Ended(row[x]).made = row[x].made /\ Ended(row[x]).ended
  BY <1>2, SlotFacts DEF Ended, Row
<1>4. \A x \in Slots : Sweepable(x) => row[x].made
  BY DEF Sweepable, Open
<1> QED BY ONLY <1>1, <1>3, <1>4

LEMMA SweepKeeps ==
    ASSUME RecordsInv, Sweep
    PROVE  RecordsInv'
<1>1. up /\ UNCHANGED <<up, multi, mem, aged, live, exits>>
  BY DEF Sweep
<1>2. TypeOK'
  BY <1>1, SweepStep DEF RecordsInv, TypeOK, Row
<1>3. \A x \in Slots : Linked(x)'
  BY <1>1, SweepStep DEF RecordsInv, Linked, Open, Sweepable
<1>4. DownMeansLost' /\ DoneRowEnded' /\ BootSettles'
  BY <1>1, SweepStep DEF RecordsInv, DownMeansLost, DoneRowEnded, BootSettles, At
<1> QED BY <1>2, <1>3, <1>4 DEF RecordsInv

\* An exit loses what the manager had in hand; late threads may write.
LEMMA ExitStep ==
    ASSUME RecordsInv, Exit
    PROVE  /\ up /\ ~up' /\ exits' \in 0 .. MaxExits
           /\ UNCHANGED <<multi, aged, live>>
           /\ mem' \in [Slots -> Mem] /\ row' \in [Slots -> Row]
           /\ \A x \in Slots :
                /\ mem[x].at = "none" => mem'[x] = mem[x]
                /\ mem[x].at # "none" => mem'[x].at = "lost"
                /\ row'[x].made = row[x].made
                /\ mem[x].at = "none" => row'[x] = row[x]
                /\ \/ row'[x] = row[x]
                   \/ ~Over(x) /\ ~row'[x].ended /\ row'[x].state # "COLD"
                   \/ ~Over(x) /\ row'[x].ended
<1>1. PICK late \in SUBSET At(Auditing), parked \in SUBSET At({"m_serve"}) :
         row' = [s \in Slots |-> IF s \in late THEN Image(mem[s])
                              ELSE IF s \in parked THEN Ended(Image(mem[s])) ELSE row[s]]
  BY DEF Exit
<1>2. ASSUME NEW s \in late \cup parked
      PROVE  /\ s \in Slots /\ ~Over(s) /\ row[s].made /\ mem[s].at # "none" /\ mem[s].state # "COLD"
  BY SlotFacts DEF At, Auditing, Over, Finished, Linked, Mem
<1>3. "lost" \in Places /\ "COLD" \in States
  BY Names
<1>4. \A s \in Slots : mem[s] \in Mem /\ row[s] \in Row
  BY SlotFacts
<1>5. ASSUME NEW x \in Slots, x \notin late \cup parked PROVE row'[x] = row[x]
  BY <1>1, <1>5
<1>6. ASSUME NEW x \in Slots
      PROVE  /\ row'[x] \in Row /\ row'[x].made = row[x].made
             /\ mem[x].at = "none" => row'[x] = row[x]
             /\ \/ row'[x] = row[x]
                \/ ~Over(x) /\ ~row'[x].ended /\ row'[x].state # "COLD"
                \/ ~Over(x) /\ row'[x].ended
  <2>1. CASE x \in late
    <3>1. row'[x] = Image(mem[x])
      BY <1>1, <2>1
    <3>2. Image(mem[x]) \in Row
      BY <1>4 DEF Image, Row, Mem
    <3>3. Image(mem[x]).made /\ ~Image(mem[x]).ended /\ Image(mem[x]).state = mem[x].state
      BY DEF Image
    <3> QED BY <1>2, <1>4, <2>1, <3>1, <3>2, <3>3 DEF Row
  <2>2. CASE x \in parked /\ x \notin late
    <3>1. row'[x] = Ended(Image(mem[x]))
      BY <1>1, <2>2
    <3>2. Ended(Image(mem[x])) \in Row
      BY <1>3, <1>4 DEF Image, Ended, Row, Mem
    <3>3. Ended(Image(mem[x])).made /\ Ended(Image(mem[x])).ended
      BY DEF Image, Ended
    <3> QED BY <1>2, <1>4, <2>2, <3>1, <3>2, <3>3 DEF Row
  <2>3. CASE x \notin late \cup parked
    BY <1>4, <1>5, <2>3
  <2> QED BY <2>1, <2>2, <2>3
<1>7. row' \in [Slots -> Row]
  BY <1>1, <1>6
<1>8. /\ mem' \in [Slots -> Mem]
      /\ \A x \in Slots : /\ mem[x].at = "none" => mem'[x] = mem[x]
                          /\ mem[x].at # "none" => mem'[x].at = "lost"
  BY <1>3, <1>4 DEF Exit, Mem
<1>9. up /\ ~up' /\ exits' \in 0 .. MaxExits /\ UNCHANGED <<multi, aged, live>>
  BY MaxExitsAssumption DEF Exit, RecordsInv, TypeOK
<1> QED BY <1>6, <1>7, <1>8, <1>9

LEMMA ExitKeeps ==
    ASSUME RecordsInv, Exit
    PROVE  RecordsInv'
<1>1. TypeOK'
  <2>1. up' \in BOOLEAN
    BY ExitStep DEF Exit
  <2> QED BY <2>1, ExitStep DEF RecordsInv, TypeOK, Mem, Row
<1>2. ASSUME NEW x \in Slots PROVE Linked(x)'
  <2>1. Linked(x)
    BY SlotFacts
  <2>2. CASE mem[x].at = "none"
    BY <2>1, <2>2, ExitStep DEF Linked, Open, Over, Finished
  <2>3. CASE mem[x].at # "none"
    BY <2>1, <2>3, ExitStep DEF Linked, Open
  <2> QED BY <2>2, <2>3
<1>3. DownMeansLost' /\ DoneRowEnded' /\ BootSettles'
  BY ExitStep DEF RecordsInv, DownMeansLost, DoneRowEnded, BootSettles, At
<1> QED BY <1>1, <1>2, <1>3 DEF RecordsInv

\* A boot ends the open rows of both passes; no other open row but one in
\* POPPED or with a pid that answers is left.
LEMMA BootStep ==
    ASSUME RecordsInv, Boot
    PROVE  /\ ~up /\ up' /\ multi' \in BOOLEAN /\ UNCHANGED <<mem, aged, exits>>
           /\ row' \in [Slots -> Row] /\ live' \in SUBSET Slots
           /\ \A x \in Slots :
                /\ row'[x] = row[x] \/ (Open(x) /\ row'[x].made /\ row'[x].ended)
                /\ ~row'[x].made \/ row'[x].ended \/ row'[x].state = "POPPED" \/ x \in live'
<1>1. PICK alive \in SUBSET {s \in Slots : Open(s) /\ row[s].pid} :
         /\ row' = [s \in Slots |-> IF Open(s) /\ (DeadPid(s, alive) \/ NeverSpawned(s))
                                    THEN Ended(row[s]) ELSE row[s]]
         /\ live' = alive
  BY DEF Boot
<1>2. "COLD" \in States
  BY Names
<1>3. ASSUME NEW x \in Slots
      PROVE  /\ row'[x] \in Row
             /\ row'[x] = row[x] \/ (Open(x) /\ row'[x].made /\ row'[x].ended)
             /\ ~row'[x].made \/ row'[x].ended \/ row'[x].state = "POPPED" \/ x \in live'
  <2>1. row[x] \in Row /\ Linked(x)
    BY SlotFacts
  <2>2. CASE Open(x) /\ (DeadPid(x, alive) \/ NeverSpawned(x))
    BY <1>1, <1>2, <2>1, <2>2 DEF Ended, Open, Row
  <2>3. CASE ~(Open(x) /\ (DeadPid(x, alive) \/ NeverSpawned(x)))
    <3>1. row'[x] = row[x]
      BY <1>1, <2>3
    <3>2. row[x].state # "IDLE_HOT"
      BY <2>1, Names DEF Row
    <3> QED BY <1>1, <2>1, <2>3, <3>1, <3>2 DEF Open, Linked, DeadPid, NeverSpawned, Row
  <2> QED BY <2>2, <2>3
<1>4. row' \in [Slots -> Row]
  BY <1>1, <1>3
<1> QED BY <1>1, <1>3, <1>4 DEF Boot

LEMMA BootKeeps ==
    ASSUME RecordsInv, Boot
    PROVE  RecordsInv'
<1>1. \A s \in Slots : mem[s].at \in {"none", "lost"}
  BY BootStep DEF RecordsInv, DownMeansLost
<1>2. TypeOK'
  BY BootStep DEF RecordsInv, TypeOK, Row
<1>3. \A x \in Slots : Linked(x)'
  BY <1>1, BootStep DEF RecordsInv, Linked, Open
<1>4. DownMeansLost' /\ DoneRowEnded'
  BY <1>1, BootStep DEF DownMeansLost, DoneRowEnded, At
<1>5. BootSettles'
  <2>1. \A x \in Slots : Linked(x)
    BY DEF RecordsInv
  <2> QED BY <2>1, <1>3, BootStep DEF BootSettles, At, Linked
<1> QED BY <1>2, <1>3, <1>4, <1>5 DEF RecordsInv

\* The steps, sorted by what they do.
LEMMA StepKinds ==
    ASSUME RecordsInv, [Next]_vars
    PROVE  \/ \E s \in Slots : Handled(s) /\ up /\ UNCHANGED <<up, multi, aged, live, exits>>
           \/ \E s \in Slots : Arrive(s) \/ Age(s)
           \/ Sweep \/ Exit \/ Boot \/ UNCHANGED vars
BY SerialStep, ResidentStep, SharedStep DEF Next, Handle

LEMMA RecordsStep == RecordsInv /\ [Next]_vars => RecordsInv'
<1> SUFFICES ASSUME RecordsInv, [Next]_vars PROVE RecordsInv'
  OBVIOUS
<1>1. ASSUME NEW s \in Slots, Age(s) PROVE RecordsInv'
  BY <1>1 DEF Age, RecordsInv, TypeOK, Linked, Open, DownMeansLost, DoneRowEnded, BootSettles, At
<1>2. CASE UNCHANGED vars
  BY <1>2
     DEF vars, RecordsInv, TypeOK, Linked, Open, DownMeansLost, DoneRowEnded, BootSettles, At
<1> QED BY <1>1, <1>2, StepKinds, HandledKeeps, ArriveKeeps, SweepKeeps, ExitKeeps, BootKeeps

\* With a patient sweeper the rows of requests under way stay open.
LEMMA PatientStep ==
    PatientSweep /\ RecordsInv /\ PatientInv /\ [Next]_vars => PatientInv'
<1> SUFFICES ASSUME PatientSweep, RecordsInv, PatientInv, [Next]_vars PROVE PatientInv'
  OBVIOUS
<1>0. aged \subseteq Slots
  BY DEF RecordsInv, TypeOK
<1>1. ASSUME NEW s \in Slots, Handled(s), UNCHANGED aged PROVE PatientInv'
  <2>1. ~Over(s) /\ \A x \in Slots \ {s} : mem'[x] = mem[x] /\ row'[x] = row[x]
    BY <1>1 DEF Handled, Over
  <2>2. row'[s].ended => mem'[s].at \in Finished
    BY <1>1, <2>1 DEF Handled, PatientInv, EndedMeansOver
  <2> QED BY <1>0, <1>1, <2>1, <2>2 DEF PatientInv, EndedMeansOver, AgedMeansOver, Over
<1>2. ASSUME NEW s \in Slots, Arrive(s) PROVE PatientInv'
  <2>1. ~Over(s) /\ UNCHANGED aged
    BY <1>2, ArriveStep DEF Over, Finished, Arrive
  <2> QED BY <1>0, <1>2, <2>1, ArriveStep DEF PatientInv, EndedMeansOver, AgedMeansOver, Over
<1>3. ASSUME NEW s \in Slots, Age(s) PROVE PatientInv'
  BY <1>3 DEF Age, PatientInv, EndedMeansOver, AgedMeansOver, Over
<1>4. CASE Sweep
  BY <1>4, SweepStep
     DEF Sweep, Sweepable, PatientInv, EndedMeansOver, AgedMeansOver, Over
<1>5. CASE Exit
  <2>1. ASSUME NEW x \in Slots, row'[x].ended PROVE mem'[x].at # "none"
    <3>1. Linked(x) /\ row'[x].made = row[x].made
      BY <1>5, ExitStep, SlotFacts
    <3>2. mem[x].at # "none"
      BY <1>5, <2>1, <3>1, ExitStep, SlotFacts
         DEF PatientInv, EndedMeansOver, Over, Finished, Linked
    <3> QED BY <1>5, <3>2, ExitStep
  <2>2. \A x \in Slots : Over(x) => mem'[x].at # "none"
    BY <1>5, ExitStep DEF Over, Finished
  <2> QED BY <1>0, <1>5, <2>1, <2>2, ExitStep
          DEF PatientInv, EndedMeansOver, AgedMeansOver, Over, Finished
<1>6. CASE Boot
  <2>1. \A s \in Slots : Open(s) => Over(s)
    BY <1>6, BootStep, SlotFacts DEF RecordsInv, DownMeansLost, Open, Over, Finished, Linked
  <2> QED BY <1>0, <1>6, <2>1, BootStep DEF PatientInv, EndedMeansOver, AgedMeansOver, Over
<1>7. CASE UNCHANGED vars
  BY <1>7 DEF vars, PatientInv, EndedMeansOver, AgedMeansOver, Over
<1> QED BY <1>1, <1>2, <1>3, <1>4, <1>5, <1>6, <1>7, StepKinds

LEMMA RecordsInvariant == Spec => []RecordsInv
BY RecordsInit, RecordsStep, PTL DEF Spec

LEMMA PatientInvariant == PatientSweep => (Spec => [](RecordsInv /\ PatientInv))
<1> SUFFICES ASSUME PatientSweep PROVE Spec => [](RecordsInv /\ PatientInv)
  OBVIOUS
<1>1. RecordsInv /\ PatientInv /\ [Next]_vars => PatientInv'
  BY PatientStep
<1> QED BY <1>1, RecordsInit, RecordsStep, PTL DEF Spec

-----------------------------------------------------------------------------
(* Theorems. *)

\* Every variable keeps its type: no handler puts its slot into IDLE_HOT.
THEOREM RecordsTyped == Spec => []TypeOK
<1>1. RecordsInv => TypeOK
  BY DEF RecordsInv
<1> QED BY <1>1, RecordsInvariant, PTL

\* With one sidecar, whatever audits, sweeps, exits and boots come between, the
\* row of a request whose handler returned has ended.
THEOREM DoneIsRecorded == Spec => []DoneRowEnded
<1>1. RecordsInv => DoneRowEnded
  BY DEF RecordsInv
<1> QED BY <1>1, RecordsInvariant, PTL

\* Whenever the manager serves, the rows of earlier processes are settled, but
\* for those in POPPED and those whose pid answered.
THEOREM BootsSettle == Spec => []BootSettles
<1>1. RecordsInv => BootSettles
  BY DEF RecordsInv
<1> QED BY <1>1, RecordsInvariant, PTL

\* If the sweeper's floor outlasts every request, no row of a request under way
\* is ended, by anyone.
THEOREM EndedOnlyWhenOver == PatientSweep => (Spec => []EndedMeansOver)
<1> SUFFICES ASSUME PatientSweep PROVE Spec => []EndedMeansOver
  OBVIOUS
<1>1. PatientInv => EndedMeansOver
  BY DEF PatientInv
<1>2. Spec => [](RecordsInv /\ PatientInv)
  BY PatientInvariant
<1> QED BY <1>1, <1>2, PTL

-----------------------------------------------------------------------------
(* The table implements RowLife. *)

\* A step that ends some rows, none of a request still under way, and finishes
\* some requests is a Settle.
LEMMA SettleLemma ==
    ASSUME \A x \in Slots : \/ Stage(x)' = Stage(x)
                            \/ Stage(x) = "open" /\ Stage(x)' = "ended" /\ x \notin Busy',
           Busy' \subseteq Busy
    PROVE  Rows!Settle
<1> DEFINE over == Busy \ Busy'
           closed == {x \in Slots : Stage(x) = "open" /\ Stage(x)' = "ended" /\ x \notin Busy'}
<1>1. over \in SUBSET Busy /\ Busy \ over = Busy'
  OBVIOUS
<1>2. closed \in SUBSET {x \in Slots : RowStage[x] = "open" /\ x \notin Busy \ over}
  BY <1>1 DEF RowStage
<1>3. RowStage' = [x \in Slots |-> IF x \in closed THEN "ended" ELSE RowStage[x]]
  BY DEF RowStage
<1> HIDE DEF over, closed
<1> QED BY <1>1, <1>2, <1>3 DEF Rows!Settle

\* A slot and a row that do not change.
LEMMA Unmoved ==
    ASSUME NEW x \in Slots, mem'[x] = mem[x], row'[x] = row[x]
    PROVE  Stage(x)' = Stage(x) /\ (x \in Busy' <=> x \in Busy)
BY DEF Stage, Busy, Over

LEMMA HandledSettles ==
    ASSUME RecordsInv, PatientInv, NEW s \in Slots, Handled(s)
    PROVE  Rows!Settle
<1>1. \A x \in Slots \ {s} : Stage(x)' = Stage(x) /\ (x \in Busy' <=> x \in Busy)
  BY Unmoved DEF Handled
<1>2. s \in Busy /\ Stage(s) = "open"
  BY SlotFacts DEF Handled, Busy, Over, Stage, Linked, PatientInv, EndedMeansOver
<1>3. Stage(s)' = "open" \/ (Stage(s)' = "ended" /\ s \notin Busy')
  BY <1>2 DEF Handled, Busy, Over, Stage, PatientInv, EndedMeansOver
<1>4. Busy \subseteq Slots /\ Busy' \subseteq Slots
  BY DEF Busy
<1> QED BY <1>1, <1>2, <1>3, <1>4, SettleLemma

LEMMA ArriveRecords ==
    ASSUME RecordsInv, NEW s \in Slots, Arrive(s)
    PROVE  Rows!Record(s)
<1>1. \A x \in Slots \ {s} : Stage(x)' = Stage(x) /\ (x \in Busy' <=> x \in Busy)
  BY ArriveStep, Unmoved
<1>2. Stage(s) = "absent" /\ Stage(s)' = "open" /\ s \in Busy'
  BY ArriveStep DEF Stage, Busy, Over, Finished
<1>3. RowStage' = [RowStage EXCEPT ![s] = "open"]
  BY <1>1, <1>2 DEF RowStage
<1>4. Busy' = Busy \cup {s}
  BY <1>1, <1>2 DEF Busy
<1> QED BY <1>2, <1>3, <1>4 DEF Rows!Record, RowStage

\* Requests outside the manager's care after the step had none before it, or are
\* lost by the exit.
LEMMA OthersSettle ==
    ASSUME PatientSweep, RecordsInv, PatientInv, Sweep \/ Exit \/ Boot
    PROVE  Rows!Settle
<1>1. CASE Sweep
  <2>1. ASSUME NEW x \in Slots
        PROVE  \/ Stage(x)' = Stage(x)
               \/ Stage(x) = "open" /\ Stage(x)' = "ended" /\ x \notin Busy'
    <3>1. CASE row'[x] = row[x]
      BY <3>1 DEF Stage
    <3>2. CASE Sweepable(x) /\ row'[x].made /\ row'[x].ended
      <4>1. Over(x)'
        BY <1>1, <3>2 DEF Sweep, Sweepable, PatientInv, AgedMeansOver, Over
      <4> QED BY <3>2, <4>1 DEF Stage, Busy, Sweepable, Open
    <3> QED BY <1>1, <3>1, <3>2, SweepStep
  <2>2. Busy' = Busy
    BY <1>1 DEF Sweep, Busy, Over
  <2> QED BY <2>1, <2>2, SettleLemma
<1>2. CASE Exit
  <2>1. \A x \in Slots : x \notin Busy'
    BY <1>2, ExitStep DEF Busy, Over, Finished
  <2>2. ASSUME NEW x \in Slots
        PROVE  Stage(x)' = Stage(x) \/ (Stage(x) = "open" /\ Stage(x)' = "ended")
    <3>1. row'[x].made = row[x].made /\ (row[x].ended => Over(x))
      BY <1>2, ExitStep DEF PatientInv, EndedMeansOver
    <3> QED BY <1>2, <3>1, ExitStep DEF Stage
  <2>3. Busy' \subseteq Busy
    BY <2>1 DEF Busy
  <2> QED BY <2>1, <2>2, <2>3, SettleLemma
<1>3. CASE Boot
  <2>1. \A x \in Slots : x \notin Busy /\ x \notin Busy'
    BY <1>3, BootStep DEF RecordsInv, DownMeansLost, Busy, Over, Finished
  <2>2. ASSUME NEW x \in Slots
        PROVE  Stage(x)' = Stage(x) \/ (Stage(x) = "open" /\ Stage(x)' = "ended")
    BY <1>3, BootStep DEF Stage, Open
  <2>3. Busy' \subseteq Busy
    BY <2>1 DEF Busy
  <2> QED BY <2>1, <2>2, <2>3, SettleLemma
<1> QED BY <1>1, <1>2, <1>3

\* If the sweeper is patient the table of slots, with all its writers, implements
\* the row that is opened once, ended once, and only when its request is over.
THEOREM ImplementsRowLife == PatientSweep => (Spec => RefinesRowLife)
<1> SUFFICES ASSUME PatientSweep PROVE Spec => RefinesRowLife
  OBVIOUS
<1>1. Init => Rows!Init
  BY DEF Init, Rows!Init, RowStage, Stage, Busy, NoRow
<1>2. RecordsInv /\ PatientInv /\ [Next]_vars => [Rows!Next]_(Rows!vars)
  <2> SUFFICES ASSUME RecordsInv, PatientInv, [Next]_vars PROVE [Rows!Next]_(Rows!vars)
    OBVIOUS
  <2>1. CASE Rows!Settle
    BY <2>1 DEF Rows!Next
  <2>2. ASSUME NEW s \in Slots, Arrive(s) PROVE Rows!Next
    BY <2>2, ArriveRecords DEF Rows!Next
  <2>3. CASE UNCHANGED <<mem, row>>
    BY <2>3 DEF Rows!vars, RowStage, Stage, Busy, Over
  <2>4. ASSUME NEW s \in Slots, Age(s) PROVE UNCHANGED <<mem, row>>
    BY <2>4 DEF Age
  <2> QED BY <2>1, <2>2, <2>3, <2>4, StepKinds, HandledSettles, OthersSettle DEF vars
<1>3. Spec => [](RecordsInv /\ PatientInv)
  BY PatientInvariant
<1> QED BY <1>1, <1>2, <1>3, PTL DEF Spec, RefinesRowLife, Rows!Spec
=============================================================================
