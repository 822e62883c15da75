------------------------------ MODULE SlotPool ------------------------------
(***************************************************************************)
(* What the request queue promises its callers, without its tiers, caps or *)
(* order: a request that was accepted is in exactly one place, it is       *)
(* handed to one taker at a time, it may be handed back, and closing the   *)
(* queue hands everything that still waits to the closer.                  *)
(***************************************************************************)
CONSTANT Slots

VARIABLES
    waiting,  \* accepted and in the queue
    held,     \* handed out: the taker answers for the caller's future
    gone,     \* finished, failed or refused
    open      \* the queue accepts requests

poolVars == <<waiting, held, gone, open>>

PoolInit == waiting = {} /\ held = {} /\ gone = {} /\ open = TRUE

Unseen(s) == s \notin waiting \cup held \cup gone

Accept(s) == /\ open /\ Unseen(s)
             /\ waiting' = waiting \cup {s}
             /\ UNCHANGED <<held, gone, open>>

Refuse(s) == /\ Unseen(s)
             /\ gone' = gone \cup {s}
             /\ UNCHANGED <<waiting, held, open>>

Take(s) == /\ s \in waiting
           /\ waiting' = waiting \ {s}
           /\ held' = held \cup {s}
           /\ UNCHANGED <<gone, open>>

HandBack(s) == /\ open /\ s \in held
               /\ held' = held \ {s}
               /\ waiting' = waiting \cup {s}
               /\ UNCHANGED <<gone, open>>

Settle(s) == /\ s \in held
             /\ held' = held \ {s}
             /\ gone' = gone \cup {s}
             /\ UNCHANGED <<waiting, open>>

Discard(s) == /\ s \in waiting
              /\ waiting' = waiting \ {s}
              /\ gone' = gone \cup {s}
              /\ UNCHANGED <<held, open>>

Shut == /\ open' = FALSE
        /\ held' = held \cup waiting
        /\ waiting' = {}
        /\ UNCHANGED gone

PoolNext == \/ \E s \in Slots : \/ Accept(s) \/ Refuse(s) \/ Take(s)
                                \/ HandBack(s) \/ Settle(s) \/ Discard(s)
            \/ Shut

PoolSpec == PoolInit /\ [][PoolNext]_poolVars

\* No request is in two places: a request that waits has no taker, and a
\* finished one neither waits nor is held.
OnePlace == /\ waiting \cap held = {}
            /\ waiting \cap gone = {}
            /\ held \cap gone = {}
=============================================================================
