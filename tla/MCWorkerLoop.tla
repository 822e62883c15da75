---------------------------- MODULE MCWorkerLoop ----------------------------
(***************************************************************************)
(* Model-checking instances of the single-sidecar worker.                  *)
(***************************************************************************)
EXTENDS WorkerLoop

CONSTANTS a, b

R(m, t, f) == [tag |-> m, thread |-> t, stream |-> f]

\* Two turns of one conversation and a slot of another model, streaming or not:
\* match, warm inherit and model swap.
Conversation == {<<R(a, 1, f), R(a, 1, TRUE), R(b, 2, FALSE)>> : f \in BOOLEAN}
\* Three requests of one model and mode, a fourth that is no rider: one of the
\* other mode, one of another model.
Batch == {<<R(a, 1, FALSE), R(a, 2, FALSE), R(a, 2, FALSE), R(a, 1, TRUE)>>,
          <<R(a, 1, TRUE), R(a, 2, TRUE), R(a, 2, TRUE), R(b, 2, TRUE)>>}
Pair == {<<R(a, 1, TRUE), R(b, 2, TRUE)>>}

Serial == [m \in {a, b} |-> 1]
Wide == [m \in {a, b} |-> IF m = a THEN 2 ELSE 1]
=============================================================================
