------------------------------ MODULE MCEnergy ------------------------------
(***************************************************************************)
(* Small instances of Energy for TLC.                                      *)
(***************************************************************************)
EXTENDS Energy
=============================================================================
