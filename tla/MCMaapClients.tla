---------------------------- MODULE MCMaapClients ----------------------------
(* Small instances of MaapClients for TLC.                                 *)
EXTENDS MaapClients, TLC

MC_Symmetry == Permutations(Client)
=============================================================================
