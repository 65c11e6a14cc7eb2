----------------------------- MODULE MCClientApp -----------------------------
(* Instance of ClientApp for TLC.                                           *)
EXTENDS ClientApp, TLC

(* Calls and names are interchangeable, and no property is temporal.        *)
Symmetry == Permutations(Calls) \cup Permutations(Names)
=============================================================================
