--------------------------- MODULE MCLiveMonitor ---------------------------
(* Instance of LiveMonitor for TLC: one reader follows the model, the other    *)
(* whatever is most recently active.                                          *)
EXTENDS LiveMonitor
CONSTANTS t1, r1, r2
MCWants == (r1 :> t1) @@ (r2 :> "primary")
=============================================================================
