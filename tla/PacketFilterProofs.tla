------------------------- MODULE PacketFilterProofs -------------------------
(***************************************************************************)
(* Why the packet filter rules of a configuration are safe from each       *)
(* other, for any number of resources and priorities.  Two creates cannot  *)
(* be between check and write together (LockHeldByCreate); a create        *)
(* records the priority it asked for (SlotRecorded); and whoever else may  *)
(* write at a priority owns the rule that is there (Owned), so never finds *)
(* it free.                                                                *)
(***************************************************************************)
EXTENDS PacketFilter, TLAPS

SlotRecorded ==
  \A r \in Resources :
    /\ pc[r] \in Creating => id[r] = slot[r]
    /\ pc[r] # "idle" => id[r] # None

\* ClaimIsOwned, and already when the POST of a create has reached the device.
Owned ==
  \A r \in Resources :
    /\ id[r] # None
    /\ id[r] \notin strayed
    /\ pc[r] \in {"idle", "posted", "read", "put", "delete"}
    => rule[id[r]] = r

PacketFilterInv ==
  TypeOK /\ LockHeldByCreate /\ SlotRecorded /\ Owned /\ CheckedSlotStaysFree

-----------------------------------------------------------------------------
LEMMA AbandonType ==
  ASSUME TypeOK, NEW o \in Resources \union {None}, NEW p \in Priorities, Abandon(o, p)
  PROVE  late' \subseteq [owner : Resources \union {None}, at : Priorities]
BY DEF TypeOK, Abandon

LEMMA InitInv == Init => PacketFilterInv
BY OwnersAssumption, PrioritiesAssumption
DEF Init, PacketFilterInv, TypeOK, LockHeldByCreate, SlotRecorded, Owned,
    CheckedSlotStaysFree, Owners, Steps, Creating, UnderLock

LEMMA NextType == PacketFilterInv /\ [Next]_vars => TypeOK'
<1> SUFFICES ASSUME PacketFilterInv, [Next]_vars PROVE TypeOK'
  OBVIOUS
<1> USE DEF PacketFilterInv, TypeOK, SlotRecorded, Taken, Goto, SetId, Steps, Owners, Free
<1>1. ASSUME NEW r \in Resources, Create(r) \/ LockAccessControl(r) PROVE TypeOK'
  BY <1>1 DEF Create, LockAccessControl
<1>2. ASSUME NEW r \in Resources, Proceed(r) PROVE TypeOK'
  <2>1. CASE CheckUnderLock(r) BY <2>1 DEF CheckUnderLock
  <2>2. CASE PostRule(r) BY <2>2 DEF PostRule
  <2>3. CASE PostAnswered(r) BY <2>3 DEF PostAnswered
  <2>4. CASE FailCreate(r)
    <3>1. late' \subseteq [owner : Resources \union {None}, at : Priorities]
      BY <2>4, AbandonType DEF FailCreate
    <3> QED BY <2>4, <3>1 DEF FailCreate
  <2>5. CASE ReadRule(r) \/ ReadFails(r) BY <2>5 DEF ReadRule, ReadFails
  <2>6. CASE PutRule(r) BY <2>6 DEF PutRule
  <2>7. CASE PutFails(r)
    <3>1. id[r] \in Priorities
      BY <2>7 DEF PutFails
    <3>2. late' \subseteq [owner : Resources \union {None}, at : Priorities]
      BY <2>7, <3>1, AbandonType DEF PutFails
    <3> QED BY <2>7, <3>2 DEF PutFails
  <2>8. CASE DeleteRule(r) \/ DeleteAnswered(r) BY <2>8 DEF DeleteRule, DeleteAnswered
  <2>9. CASE DeleteFails(r)
    <3>1. id[r] \in Priorities
      BY <2>9 DEF DeleteFails
    <3>2. late' \subseteq [owner : Resources \union {None}, at : Priorities]
      BY <2>9, <3>1, AbandonType DEF DeleteFails
    <3> QED BY <2>9, <3>2 DEF DeleteFails
  <2>10. CASE DeleteAnswerLost(r) BY <2>10 DEF DeleteAnswerLost
  <2> QED BY <1>2, <2>1, <2>2, <2>3, <2>4, <2>5, <2>6, <2>7, <2>8, <2>9, <2>10 DEF Proceed
<1>3. ASSUME NEW r \in Resources, \E s \in {"read", "put", "delete"} : Begin(r, s)
      PROVE  TypeOK'
  BY <1>3 DEF Begin
<1>4. ASSUME NEW r \in Resources, Import(r) \/ Configure(r) PROVE TypeOK'
  BY <1>4 DEF Import, Configure
<1>5. ASSUME NEW p \in Priorities, External(p) PROVE TypeOK'
  BY <1>5 DEF External
<1>6. ASSUME NEW w \in late, LateWrite(w) PROVE TypeOK'
  BY <1>6 DEF LateWrite
<1>7. CASE UNCHANGED vars
  BY <1>7 DEF vars
<1> QED BY <1>1, <1>2, <1>3, <1>4, <1>5, <1>6, <1>7 DEF Next

-----------------------------------------------------------------------------
\* Only the holder of accessControlMu is between check and write.
LEMMA NextLock == PacketFilterInv /\ [Next]_vars => LockHeldByCreate'
<1> SUFFICES ASSUME PacketFilterInv, [Next]_vars PROVE LockHeldByCreate'
  OBVIOUS
<1> USE OwnersAssumption
    DEF PacketFilterInv, TypeOK, LockHeldByCreate, UnderLock, Taken, Goto
<1>1. ASSUME NEW r \in Resources, Create(r) \/ LockAccessControl(r)
      PROVE  LockHeldByCreate'
  BY <1>1 DEF Create, LockAccessControl
<1>2. ASSUME NEW r \in Resources, Proceed(r) PROVE LockHeldByCreate'
  <2>1. CASE CheckUnderLock(r) \/ PostRule(r) \/ PostAnswered(r) \/ FailCreate(r)
    BY <2>1 DEF CheckUnderLock, PostRule, PostAnswered, FailCreate
  <2>2. CASE ReadRule(r) \/ ReadFails(r) BY <2>2 DEF ReadRule, ReadFails
  <2>3. CASE PutRule(r) \/ PutFails(r) BY <2>3 DEF PutRule, PutFails
  <2>4. CASE DeleteRule(r) \/ DeleteAnswered(r) \/ DeleteFails(r) \/ DeleteAnswerLost(r)
    BY <2>4 DEF DeleteRule, DeleteAnswered, DeleteFails, DeleteAnswerLost
  <2> QED BY <1>2, <2>1, <2>2, <2>3, <2>4 DEF Proceed
<1>3. ASSUME NEW r \in Resources, \E s \in {"read", "put", "delete"} : Begin(r, s)
      PROVE  LockHeldByCreate'
  BY <1>3 DEF Begin
<1>4. ASSUME NEW r \in Resources, Import(r) \/ Configure(r) PROVE LockHeldByCreate'
  BY <1>4 DEF Import, Configure
<1>5. ASSUME NEW p \in Priorities, External(p) PROVE LockHeldByCreate'
  BY <1>5 DEF External
<1>6. ASSUME NEW w \in late, LateWrite(w) PROVE LockHeldByCreate'
  BY <1>6 DEF LateWrite
<1>7. CASE UNCHANGED vars
  BY <1>7 DEF vars
<1> QED BY <1>1, <1>2, <1>3, <1>4, <1>5, <1>6, <1>7 DEF Next

\* What an operation that is under way knows about its own id.
LEMMA NextSlot == PacketFilterInv /\ [Next]_vars => SlotRecorded'
<1> SUFFICES ASSUME PacketFilterInv, [Next]_vars PROVE SlotRecorded'
  OBVIOUS
<1> USE PrioritiesAssumption
    DEF PacketFilterInv, TypeOK, SlotRecorded, Creating, UnderLock, Taken, Goto, SetId
<1>1. ASSUME NEW r \in Resources, Create(r) \/ LockAccessControl(r)
      PROVE  SlotRecorded'
  BY <1>1 DEF Create, LockAccessControl
<1>2. ASSUME NEW r \in Resources, Proceed(r) PROVE SlotRecorded'
  <2>1. CASE CheckUnderLock(r) \/ PostRule(r) \/ PostAnswered(r) \/ FailCreate(r)
    BY <2>1 DEF CheckUnderLock, PostRule, PostAnswered, FailCreate
  <2>2. CASE ReadRule(r) \/ ReadFails(r) BY <2>2 DEF ReadRule, ReadFails
  <2>3. CASE PutRule(r) \/ PutFails(r) BY <2>3 DEF PutRule, PutFails
  <2>4. CASE DeleteRule(r) \/ DeleteAnswered(r) \/ DeleteFails(r) \/ DeleteAnswerLost(r)
    BY <2>4 DEF DeleteRule, DeleteAnswered, DeleteFails, DeleteAnswerLost
  <2> QED BY <1>2, <2>1, <2>2, <2>3, <2>4 DEF Proceed
<1>3. ASSUME NEW r \in Resources, \E s \in {"read", "put", "delete"} : Begin(r, s)
      PROVE  SlotRecorded'
  BY <1>3 DEF Begin
<1>4. ASSUME NEW r \in Resources, Import(r) \/ Configure(r) PROVE SlotRecorded'
  BY <1>4 DEF Import, Configure
<1>5. ASSUME NEW p \in Priorities, External(p) PROVE SlotRecorded'
  BY <1>5 DEF External
<1>6. ASSUME NEW w \in late, LateWrite(w) PROVE SlotRecorded'
  BY <1>6 DEF LateWrite
<1>7. CASE UNCHANGED vars
  BY <1>7 DEF vars
<1> QED BY <1>1, <1>2, <1>3, <1>4, <1>5, <1>6, <1>7 DEF Next

\* A write finds the priority free, or finds the writer's own rule.
LEMMA NextOwned == PacketFilterInv /\ [Next]_vars => Owned'
<1> SUFFICES ASSUME PacketFilterInv, [Next]_vars PROVE Owned'
  OBVIOUS
<1> USE OwnersAssumption, PrioritiesAssumption
    DEF PacketFilterInv, TypeOK, SlotRecorded, Owned, CheckedSlotStaysFree,
        Creating, UnderLock, Taken, Goto, SetId
<1>1. ASSUME NEW r \in Resources, Create(r) \/ LockAccessControl(r) PROVE Owned'
  BY <1>1 DEF Create, LockAccessControl
<1>2. ASSUME NEW r \in Resources, Proceed(r) PROVE Owned'
  <2>1. CASE CheckUnderLock(r) \/ PostAnswered(r) \/ FailCreate(r)
    BY <2>1 DEF CheckUnderLock, PostAnswered, FailCreate
  <2>2. CASE PostRule(r)
    BY <2>2 DEF PostRule
  <2>3. CASE ReadRule(r) \/ ReadFails(r) BY <2>3 DEF ReadRule, ReadFails
  <2>4. CASE PutRule(r) BY <2>4 DEF PutRule
  <2>5. CASE DeleteRule(r) BY <2>5 DEF DeleteRule
  <2>6. CASE PutFails(r) \/ DeleteAnswered(r) \/ DeleteFails(r) \/ DeleteAnswerLost(r)
    BY <2>6 DEF PutFails, DeleteAnswered, DeleteFails, DeleteAnswerLost
  <2> QED BY <1>2, <2>1, <2>2, <2>3, <2>4, <2>5, <2>6 DEF Proceed
<1>3. ASSUME NEW r \in Resources, \E s \in {"read", "put", "delete"} : Begin(r, s)
      PROVE  Owned'
  BY <1>3 DEF Begin
<1>4. ASSUME NEW r \in Resources, Import(r) \/ Configure(r) PROVE Owned'
  BY <1>4 DEF Import, Configure
<1>5. ASSUME NEW p \in Priorities, External(p) PROVE Owned'
  BY <1>5 DEF External
<1>6. ASSUME NEW w \in late, LateWrite(w) PROVE Owned'
  BY <1>6 DEF LateWrite
<1>7. CASE UNCHANGED vars
  BY <1>7 DEF vars
<1> QED BY <1>1, <1>2, <1>3, <1>4, <1>5, <1>6, <1>7 DEF Next

LEMMA NextChecked == PacketFilterInv /\ [Next]_vars => CheckedSlotStaysFree'
<1> SUFFICES ASSUME PacketFilterInv, [Next]_vars PROVE CheckedSlotStaysFree'
  OBVIOUS
<1> USE OwnersAssumption, PrioritiesAssumption
    DEF PacketFilterInv, TypeOK, LockHeldByCreate, SlotRecorded, Owned,
        CheckedSlotStaysFree, Creating, UnderLock, Taken, Goto, SetId
<1>1. ASSUME NEW r \in Resources, Create(r) \/ LockAccessControl(r)
      PROVE  CheckedSlotStaysFree'
  BY <1>1 DEF Create, LockAccessControl
<1>2. ASSUME NEW r \in Resources, Proceed(r) PROVE CheckedSlotStaysFree'
  <2>1. CASE CheckUnderLock(r) \/ PostRule(r) \/ PostAnswered(r) \/ FailCreate(r)
    BY <2>1 DEF CheckUnderLock, PostRule, PostAnswered, FailCreate
  <2>2. CASE ReadRule(r) \/ ReadFails(r) BY <2>2 DEF ReadRule, ReadFails
  <2>3. CASE PutRule(r) BY <2>3 DEF PutRule
  <2>4. CASE DeleteRule(r) BY <2>4 DEF DeleteRule
  <2>5. CASE PutFails(r) \/ DeleteAnswered(r) \/ DeleteFails(r) \/ DeleteAnswerLost(r)
    BY <2>5 DEF PutFails, DeleteAnswered, DeleteFails, DeleteAnswerLost
  <2> QED BY <1>2, <2>1, <2>2, <2>3, <2>4, <2>5 DEF Proceed
<1>3. ASSUME NEW r \in Resources, \E s \in {"read", "put", "delete"} : Begin(r, s)
      PROVE  CheckedSlotStaysFree'
  BY <1>3 DEF Begin
<1>4. ASSUME NEW r \in Resources, Import(r) \/ Configure(r) PROVE CheckedSlotStaysFree'
  BY <1>4 DEF Import, Configure
<1>5. ASSUME NEW p \in Priorities, External(p) PROVE CheckedSlotStaysFree'
  BY <1>5 DEF External
<1>6. ASSUME NEW w \in late, LateWrite(w) PROVE CheckedSlotStaysFree'
  BY <1>6 DEF LateWrite
<1>7. CASE UNCHANGED vars
  BY <1>7 DEF vars
<1> QED BY <1>1, <1>2, <1>3, <1>4, <1>5, <1>6, <1>7 DEF Next

LEMMA Invariance == Spec => []PacketFilterInv
<1>1. PacketFilterInv /\ [Next]_vars => PacketFilterInv'
  BY NextType, NextLock, NextSlot, NextOwned, NextChecked DEF PacketFilterInv
<1> QED BY <1>1, InitInv, PTL DEF Spec

-----------------------------------------------------------------------------
\* Every variable keeps its type.
THEOREM TypeCorrect == Spec => []TypeOK
BY Invariance, PTL DEF PacketFilterInv

\* accessControlMu is held exactly between the check and the answer of a
\* create, on every path of CreateAccessControlRule.
THEOREM LockDiscipline == Spec => []LockHeldByCreate
BY Invariance, PTL DEF PacketFilterInv

\* A priority that was checked under the lock is free until it is taken,
\* whatever the other resources do meanwhile.
THEOREM CheckHoldsUntilWrite == Spec => []CheckedSlotStaysFree
BY Invariance, PTL DEF PacketFilterInv

\* Whoever holds an id owns the rule there, so a destroy removes its own rule.
THEOREM ClaimsAreOwned == Spec => []ClaimIsOwned
<1>1. PacketFilterInv => ClaimIsOwned
  BY DEF PacketFilterInv, Owned, ClaimIsOwned
<1> QED BY <1>1, Invariance, PTL

\* The rule of a resource goes only by that resource's destroy.
THEOREM ClaimedRulesAreSafe == Spec => ClaimedRuleSafe
<1> DEFINE Safe == \A p \in Priorities \ strayed', r \in Resources :
                     rule[p] = r /\ id[r] = p /\ rule'[p] # r => pc[r] = "delete"
<1>1. PacketFilterInv /\ [Next]_vars => [Safe]_vars
  <2> SUFFICES ASSUME PacketFilterInv, Next,
                      NEW p \in Priorities \ strayed', NEW r \in Resources,
                      rule[p] = r, id[r] = p, rule'[p] # r
               PROVE  pc[r] = "delete"
    BY DEF vars
  <2> USE OwnersAssumption, PrioritiesAssumption
      DEF PacketFilterInv, TypeOK, SlotRecorded, Owned, CheckedSlotStaysFree,
          Creating, UnderLock, Taken
  <2>1. ASSUME NEW s \in Resources, Create(s) \/ LockAccessControl(s)
        PROVE  FALSE
    BY <2>1 DEF Create, LockAccessControl
  <2>2. ASSUME NEW s \in Resources, Proceed(s) PROVE pc[r] = "delete"
    <3>1. CASE CheckUnderLock(s) \/ PostAnswered(s) \/ FailCreate(s)
      BY <3>1 DEF CheckUnderLock, PostAnswered, FailCreate
    <3>2. CASE PostRule(s)
      BY <3>2 DEF PostRule
    <3>3. CASE ReadRule(s) \/ ReadFails(s) BY <3>3 DEF ReadRule, ReadFails
    <3>4. CASE PutRule(s) BY <3>4 DEF PutRule
    <3>5. CASE DeleteRule(s) BY <3>5 DEF DeleteRule
    <3>6. CASE PutFails(s) \/ DeleteAnswered(s) \/ DeleteFails(s) \/ DeleteAnswerLost(s)
      BY <3>6 DEF PutFails, DeleteAnswered, DeleteFails, DeleteAnswerLost
    <3> QED BY <2>2, <3>1, <3>2, <3>3, <3>4, <3>5, <3>6 DEF Proceed
  <2>3. ASSUME NEW s \in Resources, \E t \in {"read", "put", "delete"} : Begin(s, t)
        PROVE  FALSE
    BY <2>3 DEF Begin
  <2>4. ASSUME NEW s \in Resources, Import(s) \/ Configure(s) PROVE FALSE
    BY <2>4 DEF Import, Configure
  <2>5. ASSUME NEW q \in Priorities, External(q) PROVE FALSE
    BY <2>5 DEF External
  <2>6. ASSUME NEW w \in late, LateWrite(w) PROVE FALSE
    BY <2>6 DEF LateWrite
  <2> QED BY <2>1, <2>2, <2>3, <2>4, <2>5, <2>6 DEF Next
<1> QED BY <1>1, Invariance, PTL DEF Spec, ClaimedRuleSafe

-----------------------------------------------------------------------------
(***************************************************************************)
(* A step of one resource that changes at most rules that are free or its  *)
(* own is what the contract allows it: Owned says that its claim is right. *)
(***************************************************************************)
LEMMA ResourceActs ==
  ASSUME PacketFilterInv, PacketFilterInv', NEW r \in Resources,
         strayed \subseteq strayed',
         \A p \in Priorities \ strayed' :
           rule'[p] = rule[p] \/ {rule[p], rule'[p]} \subseteq {None, r},
         \A q \in Resources \ {r} : pc'[q] = pc[q] /\ id'[q] = id[q]
  PROVE  Ownership!Next
<1>1. ASSUME NEW q \in Resources \ {r} PROVE Claim(q)' = Claim(q)
  BY <1>1 DEF Claim
<1>2. \/ Claim(r)' = None \/ Claim(r)' \in strayed'
      \/ Claim(r)' \in Priorities /\ rule'[Claim(r)'] = r
  <2>1. Claim(r)' = None \/ (Claim(r)' = id'[r] /\ pc'[r] \in {"idle", "read", "put", "delete"})
    BY DEF Claim, PacketFilterInv, TypeOK, Steps, Creating
  <2> QED
    BY <2>1 DEF PacketFilterInv, TypeOK, Owned
<1>3. Ownership!Act(r)
  BY <1>1, <1>2 DEF Ownership!Act, Ownership!Rightful
<1> QED
  BY <1>3 DEF Ownership!Next

\* Every step is one the contract allows.
LEMMA NextOwnership ==
  PacketFilterInv /\ PacketFilterInv' /\ [Next]_vars
    => [Ownership!Next]_Ownership!ownershipVars
<1> SUFFICES ASSUME PacketFilterInv, PacketFilterInv', Next \/ UNCHANGED vars
             PROVE  Ownership!Next \/ UNCHANGED Ownership!ownershipVars
  BY Zenon
<1> USE OwnersAssumption, PrioritiesAssumption
<1>1. CASE UNCHANGED vars
  BY <1>1 DEF vars, Ownership!ownershipVars, Claim
<1>2. ASSUME NEW r \in Resources, UNCHANGED <<rule, strayed>>,
             \A q \in Resources \ {r} : pc'[q] = pc[q] /\ id'[q] = id[q]
      PROVE  Ownership!Next
  BY <1>2, ResourceActs
<1>3. ASSUME NEW r \in Resources,
             Create(r) \/ LockAccessControl(r) \/ Configure(r)
               \/ (\E s \in {"read", "put", "delete"} : Begin(r, s))
      PROVE  Ownership!Next
  BY <1>2, <1>3
     DEF Create, LockAccessControl, Configure, Begin, Goto, SetId, PacketFilterInv, TypeOK
<1>4. ASSUME NEW r \in Resources, Proceed(r) PROVE Ownership!Next
  <2> USE DEF Goto, SetId, PacketFilterInv, TypeOK
  <2>1. CASE CheckUnderLock(r) \/ PostAnswered(r) \/ FailCreate(r)
    BY <1>2, <2>1 DEF CheckUnderLock, PostAnswered, FailCreate
  <2>2. CASE ReadRule(r) \/ ReadFails(r)
    BY <1>2, <2>2 DEF ReadRule, ReadFails
  <2>3. CASE PutFails(r) \/ DeleteAnswered(r) \/ DeleteFails(r)
    BY <1>2, <2>3 DEF PutFails, DeleteAnswered, DeleteFails
  <2>4. CASE PostRule(r)
    <3>1. slot[r] \notin strayed => rule[slot[r]] = None
      BY <2>4 DEF PostRule, CheckedSlotStaysFree
    <3> QED
      BY <2>4, <3>1, ResourceActs DEF PostRule
  <2>5. CASE PutRule(r) \/ DeleteRule(r)
    <3>1. id[r] \notin strayed => rule[id[r]] = r
      BY <2>5 DEF PutRule, DeleteRule, Owned, SlotRecorded
    <3> QED
      BY <2>5, <3>1, ResourceActs DEF PutRule, DeleteRule
  <2>6. CASE DeleteAnswerLost(r)
    BY <2>6, ResourceActs DEF DeleteAnswerLost
  <2> QED
    BY <1>4, <2>1, <2>2, <2>3, <2>4, <2>5, <2>6 DEF Proceed
<1>5. ASSUME NEW r \in Resources, Import(r) PROVE Ownership!Next
  <2>1. \A q \in Resources : Claim(q) # slot[r]
    BY <1>5 DEF Import, Claim, PacketFilterInv, TypeOK
  <2>2. \A q \in Resources : Claim(q)' = IF q = r THEN slot[r] ELSE Claim(q)
    BY <1>5 DEF Import, Claim, Creating, Goto, SetId, PacketFilterInv, TypeOK
  <2>3. Ownership!Adopt(r, slot[r])
    BY <1>5, <2>1, <2>2 DEF Ownership!Adopt, Import, PacketFilterInv, TypeOK
  <2> QED
    BY <2>3 DEF Ownership!Next, PacketFilterInv, TypeOK
<1>6. ASSUME UNCHANGED <<id, pc>>, strayed \subseteq strayed',
             \A p \in Priorities \ strayed' : rule'[p] = rule[p]
      PROVE  Ownership!Next
  BY <1>6 DEF Ownership!Next, Ownership!Disturb, Claim
<1>7. ASSUME NEW p \in Priorities, External(p) PROVE Ownership!Next
  BY <1>6, <1>7 DEF External, PacketFilterInv, TypeOK
<1>8. ASSUME NEW w \in late, LateWrite(w) PROVE Ownership!Next
  BY <1>6, <1>8 DEF LateWrite, PacketFilterInv, TypeOK
<1> QED
  BY <1>1, <1>3, <1>4, <1>5, <1>7, <1>8 DEF Next

(***************************************************************************)
(* However creates, updates, destroys and imports of any number of         *)
(* resources interleave, none writes where the rule of another is, and     *)
(* none has a rule in its state that is not its own.                       *)
(***************************************************************************)
THEOREM ImplementsOwnership == Spec => RulesKeepOwners
<1>1. Init => Ownership!Init
  BY DEF Init, Ownership!Init, Claim
<1> QED
  BY <1>1, InitInv, NextType, NextLock, NextSlot, NextOwned, NextChecked, NextOwnership, PTL
     DEF Spec, PacketFilterInv, RulesKeepOwners, Ownership!Spec
=============================================================================
