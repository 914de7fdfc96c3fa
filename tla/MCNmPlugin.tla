------------------------------ MODULE MCNmPlugin ------------------------------
(* Instances of NmPlugin for TLC.                                           *)
EXTENDS NmPlugin
=============================================================================
