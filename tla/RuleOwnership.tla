---------------------------- MODULE RuleOwnership ----------------------------
(***************************************************************************)
(* What the provider promises about the rules of the device, however they  *)
(* are created, found and numbered: a resource "must not be able to delete *)
(* a rule it does not own" (resource_packet_filtering.go:240-241).  Every  *)
(* slot of the device holds the rule of one owner, and a resource claims a *)
(* slot by having it in its state.  A resource fills, changes and clears   *)
(* slots that are free or its own, and claims what it owns; an import      *)
(* hands it a rule that no resource claims.  Nothing is promised of the    *)
(* slots that are spoilt: others have written there behind the provider's  *)
(* back.                                                                   *)
(***************************************************************************)
CONSTANTS
  Slots,                    \* where rules may be
  Resources,                \* the resources
  Other,                    \* whoever else owns rules
  Nobody                    \* the owner of a free slot, or no claim

VARIABLES
  owner,                    \* whose rule is in each slot
  claim,                    \* the slot each resource has in its state
  spoilt                    \* the slots nothing is promised of

ownershipVars == <<owner, claim, spoilt>>

Rightful(r, s) == s = Nobody \/ s \in spoilt \/ (s \in Slots /\ owner[s] = r)

\* What a resource has in its state is its own.
ClaimsRightful == \A r \in Resources : Rightful(r, claim[r])

Init ==
  /\ owner \in [Slots -> {Nobody, Other}]
  /\ claim = [r \in Resources |-> Nobody]
  /\ spoilt \in {{}, Slots}

\* Owner o fills, changes or clears slots, in time or late; only its claim changes.
Act(o) ==
  /\ spoilt \subseteq spoilt'
  /\ \A s \in Slots \ spoilt' :
       owner'[s] = owner[s] \/ {owner[s], owner'[s]} \subseteq {Nobody, o}
  /\ \A r \in Resources : IF r = o THEN Rightful(r, claim[r])' ELSE claim'[r] = claim[r]

\* An import, of a rule that no resource claims.
Adopt(r, s) ==
  /\ \A q \in Resources : claim[q] # s
  /\ \A t \in Slots : owner'[t] = IF t = s THEN r ELSE owner[t]
  /\ \A q \in Resources : claim'[q] = IF q = r THEN s ELSE claim[q]
  /\ UNCHANGED spoilt

\* Somebody writes behind the provider's back.
Disturb ==
  /\ spoilt \subseteq spoilt'
  /\ \A s \in Slots \ spoilt' : owner'[s] = owner[s]
  /\ \A r \in Resources : claim'[r] \in {claim[r], Nobody}

Next ==
  \/ \E o \in Resources \union {Other} : Act(o)
  \/ \E r \in Resources, s \in Slots : Adopt(r, s)
  \/ Disturb

Spec == Init /\ [][Next]_ownershipVars
=============================================================================
