--------------------------- MODULE QueueFairness ---------------------------
(***************************************************************************)
(* How often model affinity overtakes the request at the staging head: the *)
(* queue with a history variable.                                          *)
(***************************************************************************)
EXTENDS TurbohaulQueue

VARIABLE bypassed  \* bypassed[s]: pops that left the staging head s waiting

fairnessVars == <<vars, bypassed>>

BypassInit == Init /\ bypassed = [s \in Slots |-> 0]

\* A pop_next that takes another slot than the staging head passes it by.
BypassNext ==
    /\ Next
    /\ bypassed' = [s \in Slots |->
           IF PopNextStep /\ staging # <<>> /\ s = Head(staging) /\ s \notin held'
           THEN bypassed[s] + 1 ELSE bypassed[s]]

BypassSpec == BypassInit /\ [][BypassNext]_fairnessVars /\ Fairness

\* max_consecutive_same_model "bounds the run-length of one model the affinity
\* path will cluster before forcing the FIFO head (fairness). A value of 1
\* disables batching entirely" (config.py:91-93): with two models, however the
\* warm hint changes, the staging head is passed by at most that often, and
\* never with a value of 1.
BypassBounded ==
    \A s \in Slots : bypassed[s] <= IF runCap = 1 THEN 0 ELSE runCap
=============================================================================
