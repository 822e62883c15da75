---------------------------- MODULE SlotRecords ----------------------------
(***************************************************************************)
(* The table `slots` of state.sqlite, one row per request, beside the life  *)
(* of the request in the running manager.                                   *)
(*                                                                          *)
(* A row has many writers: submit inserts it; every audit of a handler      *)
(* upserts it from a worker thread, which always clears ended_at, while the *)
(* handler awaits; mark_slot_ended ends it from the event loop; the sweeper *)
(* ends rows that look abandoned; boot_reconcile ends those a crash or a    *)
(* shutdown left open.  mem[s].at names the await at which the handler of   *)
(* slot s is suspended, mem[s].state and mem[s].pid are the slot's fields,  *)
(* which the audit copies.  The two ways to serve, with one sidecar         *)
(* (_process_slot) and with residents (_serve_on_resident), write           *)
(* differently; `multi` says which one this start of the manager runs.      *)
(*                                                                          *)
(* A process id is only a boolean here: what matters is whether the column  *)
(* is NULL, and at boot whether some process answers to it.  Failures of    *)
(* sqlite itself are not modelled.                                          *)
(***************************************************************************)
EXTENDS Integers, FiniteSets

CONSTANTS Slots,
          MaxExits,       \* bound on shutdowns and crashes
          PatientSweep    \* background_sweep_min_age_s outlasts every request

ASSUME MaxExitsAssumption == MaxExits \in Nat
ASSUME PatientSweepAssumption == PatientSweep \in BOOLEAN

VARIABLES up,       \* the manager process serves
          multi,    \* max_parallel_sidecars >= 2
          mem,      \* mem[s]: slot s in the manager
          row,      \* row[s]: its row
          aged,     \* slots whose created_at is older than the sweeper's floor
          live,     \* slots whose pid answered at the last boot
          exits     \* shutdowns and crashes so far

vars == <<up, multi, mem, row, aged, live, exits>>

States == {"ACCEPT_BUFFER", "STAGED", "LOADING", "LOADING_FAIL", "ACTIVE",
           "ACTIVE_MATCH", "GRACE", "POPPED", "COLD"}

\* Awaits of an audit: a thread is about to write the row.
Auditing == {"to_load", "inherit", "refused", "sick", "to_active", "to_grace",
             "match", "m_grace", "m_pop", "r_audit"}
Matching == {"match", "m_serve", "m_grace", "m_pop", "m_end"}
Riding   == {"r_audit", "r_serve"}
Anchored == {"to_load", "inherit", "gates", "refused", "refused_end", "boot", "sick",
             "reaping", "spawning", "to_active", "serve", "to_grace", "window", "parking"}
Finished == {"done", "evicted", "lost"}
Places   == {"none", "queued"} \cup Anchored \cup Matching \cup Riding \cup Finished

NoRow == [state |-> "COLD", pid |-> FALSE, ended |-> FALSE, made |-> FALSE]

At(place) == {s \in Slots : mem[s].at \in place}
Over(s)   == mem[s].at \in Finished
Open(s)   == row[s].made /\ ~row[s].ended

Init ==
  /\ up = TRUE
  /\ multi \in BOOLEAN
  /\ mem = [s \in Slots |-> [at |-> "none", state |-> "STAGED", pid |-> FALSE]]
  /\ row = [s \in Slots |-> NoRow]
  /\ aged = {} /\ live = {} /\ exits = 0

-----------------------------------------------------------------------------
(* Writers of a row. *)

Image(m) == [state |-> m.state, pid |-> m.pid, ended |-> FALSE, made |-> TRUE]

\* INSERT ... ON CONFLICT DO UPDATE: every column is overwritten, ended_at too.
Upsert(s) == row' = [row EXCEPT ![s] = Image(mem[s])]

Ended(r) == [r EXCEPT !.state = "COLD", !.ended = TRUE]

\* UPDATE ... WHERE slot_id = ?, whatever the row says.
MarkEnded(s) == row' = [row EXCEPT ![s] = Ended(row[s])]

\* The handler goes on to its next await, the slot in this state, or only on.
Go(s, at, state) == mem' = [mem EXCEPT ![s].at = at, ![s].state = state]
GoWithPid(s, at, state) ==
  mem' = [mem EXCEPT ![s] = [at |-> at, state |-> state, pid |-> TRUE]]
Move(s, at) == mem' = [mem EXCEPT ![s].at = at]

-----------------------------------------------------------------------------
(* Arrival.  The insert of the row is synchronous with the enqueue. *)

Submit(s, tier) ==
  /\ mem[s].at = "none"
  /\ Go(s, "queued", tier)
  /\ row' = [row EXCEPT ![s] = Image([mem[s] EXCEPT !.state = tier])]

\* A popped slot whose client is gone: an audit event, and no row is touched.
PopEvicted(s) ==
  /\ mem[s].at = "queued"
  /\ multi \/ At(Anchored) = {}
  /\ Go(s, "evicted", "STAGED")
  /\ UNCHANGED row

-----------------------------------------------------------------------------
(* One sidecar: _process_slot, one anchor at a time. *)

BeginSerial(s) ==
  /\ ~multi /\ At(Anchored) = {}
  /\ mem[s].at = "queued"
  /\ Go(s, "to_load", "LOADING")
  /\ UNCHANGED row

\* No manifest beside another model's warm holder; a warm inherit; or the gates.
LoadingWritten(s) ==
  /\ mem[s].at = "to_load"
  /\ Upsert(s)
  /\ \/ Go(s, "refused", "LOADING_FAIL")
     \/ GoWithPid(s, "inherit", "LOADING")
     \/ Go(s, "gates", "LOADING")

InheritWritten(s) ==
  /\ mem[s].at = "inherit"
  /\ Upsert(s)
  /\ Go(s, "to_active", "ACTIVE")

PassGates(s) ==
  /\ mem[s].at = "gates"
  /\ \/ Go(s, "refused", "LOADING_FAIL")
     \/ GoWithPid(s, "boot", "LOADING")
  /\ UNCHANGED row

RefusalWritten(s) ==
  /\ mem[s].at = "refused"
  /\ Upsert(s)
  /\ Go(s, "refused_end", "POPPED")

WaitHealthy(s) ==
  /\ mem[s].at = "boot"
  /\ Go(s, "to_active", "ACTIVE") \/ Go(s, "sick", "LOADING_FAIL")
  /\ UNCHANGED row

SicknessWritten(s) ==
  /\ mem[s].at = "sick"
  /\ Upsert(s)
  /\ Go(s, "reaping", "POPPED")

\* An exception out of the spawn or the service: _teardown, then _force_cold.
Raise(s) ==
  /\ ~multi /\ mem[s].at \in {"gates", "boot", "serve"} /\ At(Riding) = {}
  /\ Move(s, "reaping")
  /\ UNCHANGED row

\* The mark that ends a refused load, a teardown or a hand-over to the holder.
MarkDone(s) ==
  /\ mem[s].at \in {"refused_end", "reaping", "parking"}
  /\ MarkEnded(s)
  /\ Move(s, "done")

-----------------------------------------------------------------------------
(* Service, of an anchor of either path. *)

ActiveWritten(s) ==
  /\ mem[s].at = "to_active"
  /\ Upsert(s)
  /\ Move(s, "serve")

\* Riders drain before their anchor goes on.
Serve(s) ==
  /\ mem[s].at = "serve"
  /\ At(Riding) = {} \/ At({"serve"}) # {s}
  /\ Go(s, "to_grace", "GRACE")
  /\ UNCHANGED row

GraceWritten(s) ==
  /\ mem[s].at = "to_grace"
  /\ Upsert(s)
  /\ Move(s, "window")

SlotGoesIdle(s) ==  \* mutant: the transition fsm.py allows to the slot itself
  /\ mem[s].at = "window"
  /\ Cardinality(At(Matching)) < Cardinality(At({"window"}))
  /\ \/ ~multi /\ (Go(s, "parking", "IDLE_HOT") \/ Go(s, "reaping", "POPPED"))
     \/ multi /\ Go(s, "done", "POPPED")
  /\ UNCHANGED row

\* One sidecar: hold it warm or tear it down, then mark.  A resident's driver
\* only pops the slot in memory.
CloseWindow(s) ==
  /\ mem[s].at = "window"
  /\ Cardinality(At(Matching)) < Cardinality(At({"window"}))
  /\ \/ ~multi /\ (Go(s, "parking", "POPPED") \/ Go(s, "reaping", "POPPED"))
     \/ multi /\ Go(s, "done", "POPPED")
  /\ UNCHANGED row

-----------------------------------------------------------------------------
(* Grace matches. *)

\* One sidecar audits every hop; a resident's driver makes both at once.
Match(s) ==
  /\ mem[s].at = "queued"
  /\ Cardinality(At(Matching)) < Cardinality(At({"window"}))
  /\ \/ ~multi /\ GoWithPid(s, "match", "ACTIVE_MATCH")
     \/ multi /\ GoWithPid(s, "m_serve", "ACTIVE")
  /\ UNCHANGED row

MatchWritten(s) ==
  /\ mem[s].at = "match"
  /\ Upsert(s)
  /\ Go(s, "m_serve", "ACTIVE")

MarkBeforeAudits(s) ==  \* mutant
  /\ mem[s].at = "m_serve"
  /\ MarkEnded(s)
  /\ \/ ~multi /\ Go(s, "m_grace", "GRACE")
     \/ multi /\ Go(s, "done", "POPPED")

ServeMatch(s) ==
  /\ mem[s].at = "m_serve"
  /\ \/ ~multi /\ Go(s, "m_grace", "GRACE") /\ UNCHANGED row
     \/ multi /\ Go(s, "done", "POPPED") /\ MarkEnded(s)

MatchGraceWritten(s) ==
  /\ mem[s].at = "m_grace"
  /\ Upsert(s)
  /\ Go(s, "m_pop", "POPPED")

MatchPopWritten(s) ==
  /\ mem[s].at = "m_pop"
  /\ Upsert(s)
  /\ Move(s, "m_end")

MarkMatched(s) ==
  /\ mem[s].at = "m_end"
  /\ MarkEnded(s)
  /\ Move(s, "done")

-----------------------------------------------------------------------------
(* Riders of a fan-out.  With residents their rows are never touched. *)

Admit(s) ==
  /\ mem[s].at = "queued" /\ At({"serve"}) # {} /\ At({"r_audit"}) = {}
  /\ \/ ~multi /\ GoWithPid(s, "r_audit", "ACTIVE")
     \/ multi /\ Move(s, "r_serve")
  /\ UNCHANGED row

\* The one-sidecar path audits a rider it drops, and so writes STAGED.
AdmitEvicted(s) ==
  /\ ~multi /\ mem[s].at = "queued" /\ At({"serve"}) # {} /\ At({"r_audit"}) = {}
  /\ Go(s, "evicted", "STAGED")
  /\ row' = [row EXCEPT ![s] = Image([mem[s] EXCEPT !.state = "STAGED"])]

RiderWritten(s) ==
  /\ mem[s].at = "r_audit"
  /\ Upsert(s)
  /\ Move(s, "r_serve")

EndRideUnmarked(s) ==  \* mutant
  /\ mem[s].at = "r_serve" /\ At({"r_audit"}) = {}
  /\ Move(s, "done")
  /\ UNCHANGED row

EndRide(s) ==
  /\ mem[s].at = "r_serve" /\ At({"r_audit"}) = {}
  /\ Move(s, "done")
  /\ IF multi THEN UNCHANGED row ELSE MarkEnded(s)

-----------------------------------------------------------------------------
(* Residents: an anchor loads its sidecar in memory only, or finds it warm. *)

Reserve(s) ==
  /\ multi /\ mem[s].at = "queued"
  /\ Move(s, "spawning")
  /\ UNCHANGED row

SpawnResident(s) ==
  /\ mem[s].at = "spawning"
  /\ GoWithPid(s, "to_active", "ACTIVE") \/ Move(s, "done")
  /\ UNCHANGED row

ReuseResident(s) ==
  /\ multi /\ mem[s].at = "queued"
  /\ Go(s, "to_active", "ACTIVE")
  /\ UNCHANGED row

\* The driver ends with its service, and nothing is written.
DriverRaises(s) ==
  /\ multi /\ mem[s].at = "serve"
  /\ Move(s, "done")
  /\ UNCHANGED row

-----------------------------------------------------------------------------
(* Sweeper, exit and boot. *)

Age(s) ==
  /\ row[s].made /\ s \notin aged
  /\ PatientSweep => Over(s)
  /\ aged' = aged \cup {s}
  /\ UNCHANGED <<up, multi, mem, row, live, exits>>

SweepableSpawned(s) ==  \* mutant
  Open(s) /\ row[s].state = "STAGED" /\ row[s].pid /\ s \in aged

Sweepable(s) == Open(s) /\ row[s].state = "STAGED" /\ ~row[s].pid /\ s \in aged

Sweep ==
  /\ up /\ \E s \in Slots : Sweepable(s)
  /\ row' = [s \in Slots |-> IF Sweepable(s) THEN Ended(row[s]) ELSE row[s]]
  /\ UNCHANGED <<up, multi, mem, aged, live, exits>>

\* A shutdown or a crash.  Cancelling an await does not stop its thread, so an
\* audit under way is written or not; a shutdown parks a match in service.
Exit ==
  /\ up /\ exits < MaxExits
  /\ \E late \in SUBSET At(Auditing), parked \in SUBSET At({"m_serve"}) :
       /\ multi => parked = {}
       /\ row' = [s \in Slots |-> IF s \in late THEN Image(mem[s])
                               ELSE IF s \in parked THEN Ended(Image(mem[s])) ELSE row[s]]
  /\ mem' = [s \in Slots |-> IF mem[s].at = "none" THEN mem[s]
                             ELSE [at |-> "lost", state |-> "COLD", pid |-> FALSE]]
  /\ up' = FALSE /\ exits' = exits + 1
  /\ UNCHANGED <<multi, aged, live>>

\* The two passes of reconcile_orphaned_slots.
DeadPid(s, alive) == row[s].pid /\ row[s].state \notin {"POPPED", "COLD"} /\ s \notin alive
NoneNeverSpawned(s) == FALSE  \* mutant: the first pass alone
NeverSpawned(s)   == ~row[s].pid /\ row[s].state \notin {"POPPED", "COLD", "IDLE_HOT"}

\* A pid may answer although the reaper ran: it could not kill the process, or
\* the number is another process's by now.
Boot ==
  /\ ~up
  /\ \E alive \in SUBSET {s \in Slots : Open(s) /\ row[s].pid} :
       /\ row' = [s \in Slots |->
                    IF Open(s) /\ (DeadPid(s, alive) \/ NeverSpawned(s))
                      THEN Ended(row[s]) ELSE row[s]]
       /\ live' = alive
  /\ up' = TRUE /\ multi' \in BOOLEAN
  /\ UNCHANGED <<mem, aged, exits>>

-----------------------------------------------------------------------------
Serial(s) ==
  \/ BeginSerial(s) \/ LoadingWritten(s) \/ InheritWritten(s) \/ PassGates(s)
  \/ RefusalWritten(s) \/ WaitHealthy(s) \/ SicknessWritten(s) \/ Raise(s) \/ MarkDone(s)

Resident(s) ==
  Reserve(s) \/ SpawnResident(s) \/ ReuseResident(s) \/ DriverRaises(s)

Shared(s) ==
  \/ PopEvicted(s) \/ ActiveWritten(s) \/ Serve(s) \/ GraceWritten(s) \/ CloseWindow(s)
  \/ Match(s) \/ MatchWritten(s) \/ ServeMatch(s) \/ MatchGraceWritten(s)
  \/ MatchPopWritten(s) \/ MarkMatched(s)
  \/ Admit(s) \/ AdmitEvicted(s) \/ RiderWritten(s) \/ EndRide(s)

Handle(s) ==
  /\ up
  /\ Serial(s) \/ Resident(s) \/ Shared(s)
  /\ UNCHANGED <<up, multi, aged, live, exits>>

Arrive(s) ==
  /\ up
  /\ \E tier \in {"STAGED", "ACCEPT_BUFFER"} : Submit(s, tier)
  /\ UNCHANGED <<up, multi, aged, live, exits>>

Next ==
  \/ \E s \in Slots : Arrive(s) \/ Handle(s) \/ Age(s)
  \/ Sweep \/ Exit \/ Boot

Spec == Init /\ [][Next]_vars

\* Handlers end, time passes, the sweeper runs every minute, a supervisor
\* restarts the manager.  Nothing makes a request arrive or the manager exit.
Fairness ==
  /\ WF_vars(\E s \in Slots : Handle(s))
  /\ WF_vars(\E s \in Slots : Age(s))
  /\ WF_vars(Sweep) /\ WF_vars(Boot)

FairSpec == Spec /\ Fairness

-----------------------------------------------------------------------------
(* Properties. *)

\* Every variable has its type.  No slot is ever put into IDLE_HOT or
\* GRACE_BUSY, although fsm.py has both: the model is held warm, not the slot.
TypeOK ==
  /\ up \in BOOLEAN /\ multi \in BOOLEAN
  /\ mem \in [Slots -> [at : Places, state : States, pid : BOOLEAN]]
  /\ row \in [Slots -> [state : States, pid : BOOLEAN, ended : BOOLEAN, made : BOOLEAN]]
  /\ aged \in SUBSET Slots /\ live \in SUBSET Slots
  /\ exits \in 0 .. MaxExits

\* A row is ended only when its slot is neither queued nor in service: what
\* manager.py:3473 says of the sweeper, and the reader of every other mark
\* assumes.  It holds only if the sweeper's age floor outlasts every request.
EndedMeansOver == \A s \in Slots : row[s].ended => Over(s)

\* With one sidecar the last write of every handler is the mark: a slot whose
\* handler returned, well or not, has an ended row, which no late audit reopens.
DoneRowEnded == ~multi => \A s \in At({"done"}) : row[s].ended

\* After boot_reconcile a row of an earlier process is open only if its pid
\* answers, or if the exit came between the audit of POPPED and the mark:
\* neither pass selects such a row.
BootSettles ==
  up => \A s \in At({"lost"}) : row[s].ended \/ row[s].state = "POPPED" \/ s \in live

\* A row never stays STAGED: it is taken up, or the sweeper or a boot ends it.
StagedRowsEnd ==
  \A s \in Slots : (Open(s) /\ row[s].state = "STAGED") ~> ~(Open(s) /\ row[s].state = "STAGED")

\* The abstract row: opened once, ended when the manager is through with the
\* request, never reopened.
Stage(s) == IF ~row[s].made THEN "absent" ELSE IF row[s].ended THEN "ended" ELSE "open"

RowStage == [s \in Slots |-> Stage(s)]
Busy     == {s \in Slots : mem[s].at # "none" /\ ~Over(s)}

Rows == INSTANCE RowLife WITH stage <- RowStage, busy <- Busy

\* The table implements RowLife whatever the order of audits, marks, sweeps,
\* exits and boots, if the sweeper is patient.
RefinesRowLife == Rows!Spec
=============================================================================
