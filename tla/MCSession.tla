----------------------------- MODULE MCSession -----------------------------
(***************************************************************************)
(* Instances of Session for TLC, and the mistakes its properties exclude.  *)
(***************************************************************************)
EXTENDS Session, TLC

OpSymmetry == Permutations(Ops)
=============================================================================
