-------------------------- MODULE MCTurbohaulQueue --------------------------
(***************************************************************************)
(* Model-checking instances of the queue.                                  *)
(***************************************************************************)
EXTENDS TurbohaulQueue

CONSTANTS m1, m2, t1, t2

TwoModels == {m1, m2}
TwoThreads == {t1, t2}
OneThread == {t1}

\* The models are interchangeable where no liveness is checked.
Symmetry == Permutations(TwoModels)
=============================================================================
