--------------------------- MODULE MCClientProcess ---------------------------
(* Instances of ClientProcess for TLC.                                      *)
EXTENDS ClientProcess, TLC

(* Every PID was used, and nobody runs a command any more.                  *)
NobodyLeft ==
    /\ \A d \in Clients : ~ Running(d)
    /\ UNCHANGED vars

MCNext == Next \/ NobodyLeft

MCSpec == Init /\ [][MCNext]_vars /\ ProcessFairness
=============================================================================
