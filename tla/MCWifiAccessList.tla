-------------------------- MODULE MCWifiAccessList --------------------------
(***************************************************************************)
(* Instances of WifiAccessList for TLC.                                    *)
(***************************************************************************)
EXTENDS WifiAccessList, TLC

Symmetry == Permutations(Macs)
=============================================================================
