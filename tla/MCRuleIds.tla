----------------------------- MODULE MCRuleIds -----------------------------
(***************************************************************************)
(* Instances of RuleIds for TLC.                                           *)
(***************************************************************************)
EXTENDS RuleIds, TLC

Symmetry == Permutations(Resources) \union Permutations(Rests) \union Permutations(Keys)

(***************************************************************************)
(* Of the kinds other than reservations only the case that is hard to tell *)
(* apart is explored: every rule says the same.                            *)
(***************************************************************************)
Asked == {conf[r] : r \in Resources} \union {want[r] : r \in Resources}
Said == Asked \union {rules[i].what : i \in InUse}
AllTheSame == kind = "reserved" \/ Cardinality(Said) = 1

(***************************************************************************)
(* The resources reserve one address, each for its client, while somebody  *)
(* else may reserve another for the same clients.  A request is late only  *)
(* as long as nobody else has written, and all reservations say one        *)
(* address; once it has arrived, anything may follow.                      *)
(***************************************************************************)
OneAddress == kind = "reserved" => Cardinality({c.rest : c \in Asked}) = 1
DisturbedInTurn ==
  kind = "reserved" =>
    late = {} \/ (strayed = {} /\ Cardinality({c.rest : c \in Said}) = 1)
=============================================================================
