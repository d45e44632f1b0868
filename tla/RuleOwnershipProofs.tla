------------------------- MODULE RuleOwnershipProofs -------------------------
(***************************************************************************)
(* What the contract is good for: those who keep to it never share a rule, *)
(* and none loses its rule to another.                                     *)
(***************************************************************************)
EXTENDS RuleOwnership, TLAPS

\* What PacketFilter and RuleIds assume of their constants.
Distinct == Resources \intersect {Other, Nobody} = {} /\ Nobody \notin Slots

\* Where something is promised, no two resources claim one slot.
ClaimsNotShared ==
  \A r, s \in Resources :
    claim[r] = claim[s] /\ claim[r] # Nobody /\ claim[r] \notin spoilt => r = s

\* A slot that one resource claims never comes to hold the rule of another owner.
ClaimsNotLost ==
  \A r \in Resources :
    claim[r] \in Slots \ spoilt' => owner'[claim[r]] \in {r, Nobody}

-----------------------------------------------------------------------------
\* A step of anybody leaves the claims of everybody rightful.
LEMMA NextRightful ==
  ASSUME Distinct, ClaimsRightful, [Next]_ownershipVars
  PROVE  ClaimsRightful'
<1> USE DEF Distinct, ClaimsRightful, Rightful
<1>1. ASSUME NEW o \in Resources \union {Other}, Act(o) PROVE ClaimsRightful'
  <2> SUFFICES ASSUME NEW r \in Resources PROVE Rightful(r, claim[r])'
    OBVIOUS
  <2>1. CASE r = o
    BY <1>1, <2>1 DEF Act
  <2>2. CASE r # o
    <3>1. claim'[r] = claim[r] /\ spoilt \subseteq spoilt'
      BY <1>1, <2>2 DEF Act
    <3>2. CASE claim[r] = Nobody \/ claim[r] \in spoilt
      BY <3>1, <3>2
    <3>3. CASE claim[r] \in Slots \ spoilt' /\ owner[claim[r]] = r
      <4>1. r # Nobody /\ r \notin {Nobody, o}
        BY <2>2
      <4>2. owner'[claim[r]] = r
        BY <1>1, <3>3, <4>1 DEF Act
      <4> QED
        BY <3>1, <3>3, <4>2
    <3> QED
      BY <3>1, <3>2, <3>3
  <2> QED
    BY <2>1, <2>2
<1>2. ASSUME NEW r \in Resources, NEW s \in Slots, Adopt(r, s) PROVE ClaimsRightful'
  BY <1>2 DEF Adopt
<1>3. CASE Disturb
  BY <1>3 DEF Disturb
<1>4. CASE UNCHANGED ownershipVars
  BY <1>4 DEF ownershipVars
<1> QED
  BY <1>1, <1>2, <1>3, <1>4 DEF Next

\* Owned claims stay owned: what ClaimIsOwned and IdIsOwn say of the modules
\* that keep to the contract follows from the contract alone.
THEOREM ClaimsStayRightful == ASSUME Distinct PROVE Spec => []ClaimsRightful
<1>1. Init => ClaimsRightful
  BY DEF Init, ClaimsRightful, Rightful
<1>2. ClaimsRightful /\ [Next]_ownershipVars => ClaimsRightful'
  BY NextRightful
<1> QED
  BY <1>1, <1>2, PTL DEF Spec

\* A slot has one owner, so two resources never have one rule in their states.
THEOREM NeverShared == ASSUME Distinct PROVE Spec => []ClaimsNotShared
<1>1. ClaimsRightful => ClaimsNotShared
  BY DEF ClaimsRightful, Rightful, ClaimsNotShared
<1> QED
  BY <1>1, ClaimsStayRightful, PTL

\* Whoever acts, the rule of a resource is not replaced by that of another.
THEOREM NeverLost == ASSUME Distinct PROVE Spec => [][ClaimsNotLost]_ownershipVars
<1>1. ASSUME ClaimsRightful, [Next]_ownershipVars PROVE [ClaimsNotLost]_ownershipVars
  <2> SUFFICES ASSUME Next, NEW r \in Resources, claim[r] \in Slots \ spoilt'
               PROVE  owner'[claim[r]] \in {r, Nobody}
    BY <1>1 DEF ClaimsNotLost
  <2>1. claim[r] \notin spoilt => owner[claim[r]] = r
    BY <1>1 DEF ClaimsRightful, Rightful, Distinct
  <2>2. ASSUME NEW o \in Resources \union {Other}, Act(o)
        PROVE  owner'[claim[r]] \in {r, Nobody}
    BY <2>1, <2>2 DEF Act, Distinct
  <2>3. ASSUME NEW q \in Resources, NEW s \in Slots, Adopt(q, s)
        PROVE  owner'[claim[r]] \in {r, Nobody}
    BY <2>1, <2>3 DEF Adopt
  <2>4. CASE Disturb
    BY <2>1, <2>4 DEF Disturb
  <2> QED
    BY <2>2, <2>3, <2>4 DEF Next
<1> QED
  BY <1>1, ClaimsStayRightful, PTL DEF Spec
=============================================================================
