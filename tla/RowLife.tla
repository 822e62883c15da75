------------------------------ MODULE RowLife ------------------------------
(***************************************************************************)
(* What the table `slots` promises its readers, the dashboard and the boot  *)
(* reconciliation: the row of a request is opened once, is ended only when  *)
(* the manager has nothing left to do for the request, and stays ended.     *)
(***************************************************************************)
CONSTANT Slots

VARIABLES stage,    \* stage[s]: is there a row of s, and is it still open
          busy      \* the requests the manager still has to do something for

vars == <<stage, busy>>

Init == stage = [s \in Slots |-> "absent"] /\ busy = {}

Record(s) ==
  /\ stage[s] = "absent"
  /\ stage' = [stage EXCEPT ![s] = "open"]
  /\ busy' = busy \cup {s}

\* The requests of `over` are finished with, and open rows of requests that
\* are not (or no longer) busy are ended.
Settle ==
  \E over \in SUBSET busy :
    \E closed \in SUBSET {s \in Slots : stage[s] = "open" /\ s \notin busy \ over} :
      /\ busy' = busy \ over
      /\ stage' = [s \in Slots |-> IF s \in closed THEN "ended" ELSE stage[s]]

Next == Settle \/ \E s \in Slots : Record(s)

Spec == Init /\ [][Next]_vars
=============================================================================
