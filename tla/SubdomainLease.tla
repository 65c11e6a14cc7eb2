---------------------------- MODULE SubdomainLease ----------------------------
(***************************************************************************)
(* What the control plane promises about subdomains: a subdomain is leased  *)
(* to at most one client connection at a time, a connection holds at most   *)
(* one lease in its life, reserved subdomains are never leased, and only    *)
(* the holder's own end returns the lease.  Nothing here mentions handlers, *)
(* drivers or the registry map; ControlPlane implements it.                 *)
(***************************************************************************)
CONSTANTS Conns,      \* client connections
          ClientIds,  \* subdomain names a client may ask for
          Reserved,   \* names that belong to the server itself
          NoId        \* "no subdomain"

VARIABLES lease,      \* lease[c]: the subdomain c holds, or NoId
          over        \* connections that will never hold a lease again

leaseVars == <<lease, over>>

Init ==
    /\ lease = [c \in Conns |-> NoId]
    /\ over = {}

Grant(c, i) ==
    /\ lease[c] = NoId
    /\ c \notin over
    /\ i \notin Reserved
    /\ \A d \in Conns : lease[d] # i
    /\ lease' = [lease EXCEPT ![c] = i]
    /\ UNCHANGED over

(* The end of a connection, whether or not it ever held a subdomain.        *)
End(c) ==
    /\ c \notin over
    /\ lease' = [lease EXCEPT ![c] = NoId]
    /\ over' = over \cup {c}

Next == \E c \in Conns : End(c) \/ \E i \in ClientIds : Grant(c, i)

Spec == Init /\ [][Next]_leaseVars
=============================================================================
