---------------------------- MODULE MCControlPlane ----------------------------
(* Instances of ControlPlane for TLC.                                       *)
EXTENDS ControlPlane

CONSTANTS app, admin, good, bad

MCClientIds == {app, admin}
MCReserved  == {admin}
MCPresented == {good, bad}
MCTokens    == {good}

MCNext == ControlNext \/ ControlDone

MCSpec == ControlInit /\ [][MCNext]_controlVars /\ ControlFairness
=============================================================================
