------------------------------- MODULE MCProxy -------------------------------
(* Instances of Proxy for TLC.                                              *)
EXTENDS Proxy

CONSTANTS app, blog, good

MCClientIds == {app, blog}
MCReserved  == {}
MCTokens    == {good}

ProxyDone ==
    /\ \A c \in Conns : SessionOver(c)
    /\ \A r \in Requests :
          \/ rpc[r] \in {"answered", "dropped"}
          \/ rpc[r] \in InFlight /\ driver[entry[r]] = "stalled"
    /\ UNCHANGED vars

MCNext == ProxyNext \/ ProxyDone

MCSpec == ProxyInit /\ [][MCNext]_vars /\ ProxyFairness
=============================================================================
