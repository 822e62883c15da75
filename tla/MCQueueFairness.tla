-------------------------- MODULE MCQueueFairness --------------------------
(***************************************************************************)
(* Model-checking instances of the queue with its bypass history.          *)
(***************************************************************************)
EXTENDS QueueFairness

CONSTANTS m1, m2, t1

TwoModels == {m1, m2}
OneThread == {t1}
=============================================================================
