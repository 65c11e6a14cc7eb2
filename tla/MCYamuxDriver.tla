----------------------------- MODULE MCYamuxDriver -----------------------------
(* Instances of YamuxDriver for TLC.  A tick is 5 s: a heartbeat every 15 s, *)
(* each given 10 s.                                                         *)
EXTENDS YamuxDriver

(* Once the loop has ended and every caller is served, nothing is left.     *)
Over ==
    /\ mode = "ended"
    /\ client = "frozen"
    /\ conn = "down"
    /\ \A r \in Callers : caller[r] \in {"done", "error", "gone"}
    /\ UNCHANGED vars

MCNext == Next \/ Over

MCSpec == Init /\ [][MCNext]_vars /\ Fairness
=============================================================================
