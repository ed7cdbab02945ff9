---------------------------- MODULE MCSnmpClient ----------------------------
(***************************************************************************)
(* SnmpClient for TLC.  The blocks and objects of one kind are             *)
(* interchangeable.                                                        *)
(***************************************************************************)
EXTENDS SnmpClient

Symmetry ==
  Permutations(Pdus) \cup Permutations(Lists) \cup Permutations(PduVars) \cup Permutations(VarlistVars)
=============================================================================
