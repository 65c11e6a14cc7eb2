------------------------------- MODULE MCCaddy -------------------------------
(* Instance of Caddy for TLC, with one server.  Liveness is checked, so     *)
(* nothing is symmetric.                                                    *)
EXTENDS Caddy
=============================================================================
