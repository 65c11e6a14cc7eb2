--------------------------- MODULE MCClientSession ---------------------------
(* Instance of ClientSession for TLC.                                       *)
EXTENDS ClientSession, TLC

(* Every tunnel was stopped, and no more restarts are within the bound.     *)
AllOver ==
    /\ \A t \in Tunnels : at[t] = "over"
    /\ UNCHANGED vars

MCNext == Next \/ AllOver

MCSpec == Init /\ [][MCNext]_vars /\ SessionFairness
=============================================================================
