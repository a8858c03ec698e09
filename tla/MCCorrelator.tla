---------------------------- MODULE MCCorrelator ----------------------------
(* Instances of Correlator for TLC. *)
EXTENDS Correlator
=============================================================================
