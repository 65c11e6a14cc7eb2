--------------------------- MODULE MCTunnelManager ---------------------------
(* Instances of TunnelManager for TLC.  Nothing depends on which call, id   *)
(* or name is which, and only safety is checked: they are symmetric.        *)
EXTENDS TunnelManager, TLC

ManagerOver ==
    /\ ~ connected
    /\ stopping = {}
    /\ \A c \in Calls : ~ Active(c)
    /\ UNCHANGED vars

MCNext == Next \/ ManagerOver

MCSpec == Init /\ [][MCNext]_vars

Symmetry ==
    Permutations(Calls) \cup Permutations(Ids) \cup Permutations(Names)
=============================================================================
