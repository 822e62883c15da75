---------------------------- MODULE MCDispatcher ----------------------------
(***************************************************************************)
(* Model-checking instances of the dispatcher, two sidecars each.          *)
(***************************************************************************)
EXTENDS Dispatcher

CONSTANTS a, b, c

\* Two requests of one model, then two other models: the last needs an eviction
\* or waits, and the second may race with it for the first one's sidecar.
Contended == {<<a, a, b, c>>}
\* Three models on two sidecars, or two requests that share one.
Small == {<<a, b, c>>, <<a, a, b>>}

WideA == [m \in {a, b, c} |-> IF m = a THEN 2 ELSE 1]
AllSerial == [m \in {a, b, c} |-> 1]
=============================================================================
