--------------------------- MODULE RuleIdsProofs ---------------------------
(***************************************************************************)
(* Why a resource ends with the number of its own rule, for any number of  *)
(* resources, rules and requests under way.  A number is fresh when it is  *)
(* given out (Fresh), so no request sent before concerns the rule written  *)
(* last; that rule is therefore still among the candidates when the        *)
(* resource looks (Looking), and if there is only one, it is this.         *)
(***************************************************************************)
EXTENDS RuleIds, TLAPS

\* Nothing refers to a number that was not given out yet.
Fresh ==
  /\ \A i \in Ids : i >= nextId => rules[i] = None
  /\ \A r \in Resources : id[r] # None => id[r] < nextId
  /\ \A r \in Resources : \A i \in before[r] : i < nextId
  /\ \A w \in late : w.at # None => w.at < nextId

\* Only a create of a port triggering rule takes the lock.
Locking == \A r \in Resources : pc[r] \in {"lock", "before"} => kind = "triggering"

TypeInv == TypeOK /\ Fresh /\ Locking /\ LockHeldByCreate

-----------------------------------------------------------------------------
LEMMA RequestType ==
  ASSUME TypeOK, NEW r \in Resources, NEW o \in {"post", "put", "delete"},
         NEW n \in Ids \union {None}
  PROVE  Request(r, o, n) \in Requests
BY DEF TypeOK, Request, Written, Requests, Rules

LEMMA ExternalType ==
  ASSUME NEW c \in Contents
  PROVE  [op |-> "post", at |-> None, rule |-> [what |-> c, owner |-> Other]] \in Requests
BY DEF Requests, Rules

\* What carrying out a request does to the rules.
LEMMA CarryOutEffect ==
  ASSUME TypeOK, Fresh, NEW w \in Requests, CarryOut(w)
  PROVE  /\ rules' \in [Ids -> Rules \union {None}]
         /\ nextId' \in 1 .. MaxIds + 1 /\ nextId <= nextId'
         /\ \A i \in Ids : i >= nextId' => rules'[i] = None
         /\ \A i \in Ids :
              \/ rules'[i] = rules[i]
              \/ Adds(w) /\ i = nextId /\ rules[i] = None /\ rules'[i] = w.rule
              \/ i = w.at /\ rules[i] # None /\ rules'[i] \in {None, w.rule}
         /\ Adds(w) => nextId \in Ids /\ rules'[nextId] = w.rule /\ nextId' = nextId + 1
<1>1. nextId \in Nat /\ w.rule \in Rules /\ MaxIds \in Nat
  BY BoundsAssumption DEF TypeOK, Requests
<1>2. rules' \in [Ids -> Rules \union {None}]
  BY <1>1 DEF CarryOut, TypeOK
<1>3. nextId' \in 1 .. MaxIds + 1 /\ nextId <= nextId'
  BY <1>1 DEF CarryOut, Ids, TypeOK
<1>4. ASSUME NEW i \in Ids, i >= nextId' PROVE rules'[i] = None
  BY <1>1, <1>4 DEF CarryOut, Fresh, Ids
<1>5. ASSUME NEW i \in Ids
      PROVE  \/ rules'[i] = rules[i]
             \/ Adds(w) /\ i = nextId /\ rules[i] = None /\ rules'[i] = w.rule
             \/ i = w.at /\ rules[i] # None /\ rules'[i] \in {None, w.rule}
  BY <1>1, <1>5 DEF CarryOut, Fresh, Ids
<1>6. Adds(w) => nextId \in Ids /\ rules'[nextId] = w.rule /\ nextId' = nextId + 1
  BY DEF CarryOut
<1> QED BY <1>2, <1>3, <1>4, <1>5, <1>6

\* A request given up is added to those under way, or not.
LEMMA AbandonEffect ==
  ASSUME NEW w, Abandon(w)
  PROVE  late' = late \/ late' = late \union {w}
BY DEF Abandon

LEMMA InitType == Init => TypeInv
<1> SUFFICES ASSUME Init PROVE TypeInv
  OBVIOUS
<1>1. rules \in [Ids -> Rules \union {None}] /\ \A i \in Ids : i >= nextId => rules[i] = None
  BY DEF Init, Rules, Ids
<1> QED BY <1>1, OwnersAssumption, BoundsAssumption
        DEF Init, TypeInv, TypeOK, Fresh, Locking, LockHeldByCreate, Ids, Attempts, Free

-----------------------------------------------------------------------------
\* The requests of a resource: carried out or given up.
LEMMA CarriedType ==
  ASSUME TypeInv, kind' = kind, conf' = conf, NEW w \in Requests, CarryOut(w),
         UNCHANGED <<want, late, strayed>>,
         NEW r \in Resources,
         \/ GiveUp(r)
         \/ /\ pc' = [pc EXCEPT ![r] = "find"] /\ UNCHANGED <<mu, id, lookup>>
            /\ pc[r] = "post" \/ kind # "triggering"
         \/ /\ \E s \in {"idle", "read"} : pc' = [pc EXCEPT ![r] = s]
            /\ \E n \in {id[r], None} \union (IF Adds(w) THEN {nextId} ELSE {}) :
                 id' = [id EXCEPT ![r] = n]
            /\ pc[r] # "post" \/ kind # "triggering"
            /\ pc[r] \notin {"before", "find"}
            /\ UNCHANGED <<mu, lookup>>
  PROVE  TypeInv'
<1>1. /\ rules' \in [Ids -> Rules \union {None}]
      /\ nextId' \in 1 .. MaxIds + 1 /\ nextId <= nextId'
      /\ \A i \in Ids : i >= nextId' => rules'[i] = None
      /\ Adds(w) => nextId \in Ids /\ nextId' = nextId + 1
  BY CarryOutEffect DEF TypeInv
<1> USE DEF TypeInv, TypeOK, lookup
<1>2. TypeOK'
  BY <1>1, OwnersAssumption DEF GiveUp, Goto, Unlock, Forget, Attempts
<1>3. Fresh'
  <2>1. \A q \in Resources : id'[q] # None => id'[q] < nextId'
    BY <1>1 DEF Fresh, GiveUp, Ids
  <2>2. ASSUME NEW q \in Resources, NEW i \in before'[q] PROVE i < nextId'
    <3>1. before' = before \/ before' = [before EXCEPT ![r] = {}]
      BY DEF GiveUp, Forget
    <3>2. i \in before[q] BY <2>2, <3>1
    <3>3. i < nextId /\ i \in Ids BY <3>2 DEF Fresh
    <3> QED BY <1>1, <3>3 DEF Ids
  <2>3. \A x \in late' : x.at # None => x.at < nextId'
    <3>1. \A x \in late : x.at \in Ids \union {None}
      BY DEF Requests
    <3> QED BY <1>1, <3>1 DEF Fresh, Ids
  <2> QED BY <1>1, <2>1, <2>2, <2>3 DEF Fresh
<1>4. Locking' /\ LockHeldByCreate'
  BY OwnersAssumption DEF Locking, LockHeldByCreate, GiveUp, Goto, Unlock, Forget, Free
<1> QED BY <1>2, <1>3, <1>4

LEMMA GivenUpType ==
  ASSUME TypeInv, kind' = kind, conf' = conf, NEW r \in Resources, GiveUp(r),
         UNCHANGED <<rules, nextId, want, strayed>>,
         \/ UNCHANGED late
         \/ \E w \in Requests : late' = late \union {w} /\ w.at \in {None, id[r]}
  PROVE  TypeInv'
<1> USE DEF TypeInv, TypeOK
<1>1. TypeOK'
  BY OwnersAssumption DEF GiveUp, Goto, Unlock, Forget, Attempts
<1>2. Fresh'
  BY DEF Fresh, GiveUp, Goto, Unlock, Forget, Ids
<1>3. Locking' /\ LockHeldByCreate'
  BY OwnersAssumption DEF Locking, LockHeldByCreate, GiveUp, Goto, Unlock, Forget, Free
<1> QED BY <1>1, <1>2, <1>3

LEMMA NextType == TypeInv /\ [Next]_vars => TypeInv'
<1>1. CASE Configure /\ kind' = kind
  BY <1>1 DEF Configure, TypeInv, TypeOK, Fresh, Locking, LockHeldByCreate, lookup
<1>2. CASE UNCHANGED vars
  BY <1>2 DEF vars, TypeInv, TypeOK, Fresh, Locking, LockHeldByCreate, lookup
<1> SUFFICES ASSUME TypeInv, Step, conf' = conf, kind' = kind PROVE TypeInv'
  BY <1>1, <1>2 DEF Next
<1>3. ASSUME NEW r \in Resources, LockTriggering(r) \/ ListBefore(r) PROVE TypeInv'
  <2> USE OwnersAssumption DEF TypeInv, TypeOK, Locking, LockHeldByCreate, Goto, lookup, Free
  <2>1. CASE LockTriggering(r) BY <2>1 DEF LockTriggering, Fresh
  <2>2. CASE ListBefore(r)
    <3>1. \A i \in InUse : i \in Ids /\ i < nextId
      BY DEF InUse, Fresh, Ids
    <3>2. TypeOK' BY <2>2, <3>1 DEF ListBefore
    <3>3. Fresh' BY <2>2, <3>1 DEF ListBefore, Fresh
    <3>4. Locking' /\ LockHeldByCreate' BY <2>2 DEF ListBefore
    <3> QED BY <3>2, <3>3, <3>4
  <2> QED BY <1>3, <2>1, <2>2
<1>4. ASSUME NEW r \in Resources, ListBeforeFails(r) \/ ReadFails(r) PROVE TypeInv'
  BY <1>4, GivenUpType DEF ListBeforeFails, ReadFails
<1>5. ASSUME NEW r \in Resources, PostFails(r) \/ PutFails(r) \/ DeleteFails(r)
      PROVE  TypeInv'
  <2>1. PICK o \in {"post", "put", "delete"}, n \in {None, id[r]} :
          Abandon(Request(r, o, n)) /\ GiveUp(r) /\ UNCHANGED <<rules, nextId, want, strayed>>
    BY <1>5 DEF PostFails, PutFails, DeleteFails
  <2>2. Request(r, o, n) \in Requests /\ Request(r, o, n).at = n
    BY RequestType DEF TypeInv, TypeOK, Request
  <2>3. late' = late \/ late' = late \union {Request(r, o, n)}
    BY <2>1, AbandonEffect
  <2> QED BY <2>1, <2>2, <2>3, GivenUpType
<1>6. ASSUME NEW r \in Resources, PostRule(r) PROVE TypeInv'
  <2>1. Request(r, "post", None) \in Requests /\ Adds(Request(r, "post", None))
    BY RequestType DEF TypeInv, Adds, Request
  <2> QED BY <1>6, <2>1, CarriedType DEF PostRule, Goto, SetId
<1>7. ASSUME NEW r \in Resources, PutRule(r) \/ PutRoute(r) PROVE TypeInv'
  <2>1. Request(r, "put", id[r]) \in Requests
    BY RequestType DEF TypeInv, TypeOK
  <2>2. id' = id => id' = [id EXCEPT ![r] = id[r]]
    BY DEF TypeInv, TypeOK
  <2> QED BY <1>7, <2>1, <2>2, CarriedType DEF PutRule, PutRoute, Goto
<1>8. ASSUME NEW r \in Resources, DeleteRule(r) PROVE TypeInv'
  <2>1. Request(r, "delete", id[r]) \in Requests
    BY RequestType DEF TypeInv, TypeOK
  <2> QED BY <1>8, <2>1, CarriedType DEF DeleteRule, Goto, SetId
<1>9. ASSUME NEW r \in Resources, Find(r) \/ FindFails(r) \/ ReadRule(r) PROVE TypeInv'
  <2> USE OwnersAssumption DEF TypeInv, TypeOK, Fresh, Locking, LockHeldByCreate, Goto, SetId,
          Unlock, Forget, Free, lookup
  <2>1. CASE Find(r)
    <3>1. PICK i \in InUse : SetId(r, i)
      BY <2>1 DEF Find, IsFound, Candidates, Equal, Alike, New
    <3> QED BY <2>1, <3>1 DEF Find, InUse, Attempts, Ids
  <2>2. CASE FindFails(r)
    <3>1. CASE GiveUp(r) BY <2>2, <3>1, GivenUpType DEF FindFails
    <3>2. CASE ~GiveUp(r) BY <2>2, <3>2 DEF FindFails, Attempts
    <3> QED BY <3>1, <3>2
  <2>3. CASE ReadRule(r) BY <2>3 DEF ReadRule
  <2> QED BY <1>9, <2>1, <2>2, <2>3
<1>10. CASE ExternalAdd
  <2>1. PICK c \in Contents :
          CarryOut([op |-> "post", at |-> None, rule |-> [what |-> c, owner |-> Other]])
    BY <1>10 DEF ExternalAdd
  <2>2. \A x \in late : x.at \in Ids \union {None}
    BY DEF TypeInv, TypeOK, Requests
  <2>3. TypeOK /\ Fresh
    BY DEF TypeInv
  <2> QED BY <1>10, <2>1, <2>2, <2>3, ExternalType, CarryOutEffect
          DEF ExternalAdd, TypeInv, TypeOK, Fresh, Locking, LockHeldByCreate, lookup, Ids
<1>11. ASSUME NEW i \in Ids, ExternalRemove(i) PROVE TypeInv'
  BY <1>11 DEF ExternalRemove, InUse, TypeInv, TypeOK, Fresh, Locking, LockHeldByCreate, lookup,
               Rules
<1>12. ASSUME NEW w \in late, CarryOutLate(w) PROVE TypeInv'
  <2>1. w \in Requests /\ CarryOut(w) /\ TypeOK /\ Fresh
    BY <1>12 DEF CarryOutLate, TypeInv, TypeOK
  <2>2. \A x \in late : x.at \in Ids \union {None}
    BY DEF TypeInv, TypeOK, Requests
  <2> QED BY <1>12, <2>1, <2>2, CarryOutEffect
          DEF CarryOutLate, TypeInv, TypeOK, Fresh, Locking, LockHeldByCreate, lookup, Ids
<1>13. ASSUME NEW r \in Resources,
              Create(r) \/ Update(r) \/ (\E s \in {"read", "delete"} : Begin(r, s))
       PROVE  TypeInv'
  <2> USE OwnersAssumption DEF TypeInv, TypeOK, Fresh, Locking, LockHeldByCreate, Goto, lookup, Free
  <2>1. CASE Create(r) BY <2>1 DEF Create
  <2>2. CASE Update(r) BY <2>2 DEF Update
  <2>3. CASE \E s \in {"read", "delete"} : Begin(r, s) BY <2>3 DEF Begin
  <2> QED BY <1>13, <2>1, <2>2, <2>3
<1>14. ASSUME NEW r \in Resources, NEW i \in Ids, Import(r, i) PROVE TypeInv'
  <2>1. rules[i] \in Rules /\ i < nextId
    BY <1>14 DEF Import, InUse, TypeInv, TypeOK, Fresh, Ids
  <2>2. /\ rules' \in [Ids -> Rules \union {None}]
        /\ \A j \in Ids : rules[j] = None => rules'[j] = None
    <3>1. [rules[i] EXCEPT !.owner = r] \in Rules
      BY <2>1 DEF Rules
    <3>2. rules' = [rules EXCEPT ![i] = [rules[i] EXCEPT !.owner = r]]
      BY <1>14 DEF Import
    <3> QED BY <2>1, <3>1, <3>2, NoneAssumption DEF TypeInv, TypeOK
  <2>3. TypeOK'
    BY <1>14, <2>1, <2>2 DEF Import, SetId, Goto, lookup, Rules, TypeInv, TypeOK
  <2>4. Fresh'
    BY <1>14, <2>1, <2>2 DEF Import, SetId, lookup, TypeInv, TypeOK, Fresh
  <2>5. Locking' /\ LockHeldByCreate'
    BY <1>14, OwnersAssumption
       DEF Import, Idle, Goto, lookup, Free, TypeInv, TypeOK, Locking, LockHeldByCreate
  <2> QED BY <2>3, <2>4, <2>5 DEF TypeInv
<1> QED BY <1>3, <1>4, <1>5, <1>6, <1>7, <1>8, <1>9, <1>10, <1>11, <1>12, <1>13,
           <1>14 DEF Step, Proceed

\* Type correctness: no read beyond the third, no number that was not given out.
THEOREM TypeCorrect == Spec => []TypeOK
<1>1. Spec => []TypeInv
  BY InitType, NextType, PTL DEF Spec
<1>2. TypeInv => TypeOK BY DEF TypeInv
<1> QED BY <1>1, <1>2, PTL

(***************************************************************************)
(* portTriggeringMu is held exactly while a create is between its first    *)
(* list and its last, however it ends.                                     *)
(***************************************************************************)
THEOREM LockDiscipline == Spec => []LockHeldByCreate
<1>1. Spec => []TypeInv
  BY InitType, NextType, PTL DEF Spec
<1>2. TypeInv => LockHeldByCreate BY DEF TypeInv
<1> QED BY <1>1, <1>2, PTL

-----------------------------------------------------------------------------
\* Nobody else has removed a rule of a resource, and rules are not adopted.
Quiet == kind # "reserved" /\ strayed \subseteq {Other}

\* Rule i is one that r wrote and may find, and no request under way concerns it.
Mine(r, i) ==
  i \in Candidates(r) /\ rules[i] = Written(r) /\ \A w \in late : w.at # i

\* A request changes or removes at most a rule of its sender.
OwnTarget(w) ==
  w.at # None /\ rules[w.at] # None => rules[w.at].owner = w.rule.owner

Owned ==
  /\ \A r \in Resources : id[r] # None /\ rules[id[r]] # None => rules[id[r]].owner = r
  /\ \A w \in late : OwnTarget(w)

Looking == \A r \in Resources : pc[r] = "find" => \E i \in Ids : Mine(r, i)

OwnInv == TypeInv /\ (Quiet => Owned /\ Looking)

\* The only candidate is the one the resource wrote.
LEMMA FoundIsMine ==
  ASSUME Quiet, NEW r \in Resources, NEW i \in Ids, NEW j \in Ids,
         Mine(r, j), IsFound(r, i)
  PROVE  i = j
BY DEF Quiet, Mine, IsFound

LEMMA MineStays ==
  ASSUME NEW r \in Resources, NEW i \in Ids, Quiet, Mine(r, i), kind' = kind,
         rules'[i] = rules[i], want'[r] = want[r], before'[r] = before[r],
         \A w \in late' : w \in late \/ w.at # i
  PROVE  Mine(r, i)'
BY DEF Quiet, Mine, Candidates, Equal, Alike, New, InUse, Written

\* A rule just written under a fresh number is one its writer will find.
LEMMA MineIsNew ==
  ASSUME TypeInv, kind # "reserved", NEW r \in Resources, kind' = kind,
         want' = want, before' = before, late' = late,
         NEW i \in Ids, i = nextId, rules'[i] = Written(r)
  PROVE  Mine(r, i)'
<1>1. Written(r) # None /\ Written(r) = Written(r)' /\ Written(r).what = want[r]
  BY NoneAssumption DEF TypeInv, TypeOK, Written, Rules
<1>2. i \notin before[r] /\ \A w \in late : w.at # i
  BY NoneAssumption DEF TypeInv, Fresh, Ids
<1>3. (i \in Equal(r) /\ i \in Alike(r) /\ i \in New(r))'
  BY <1>1, <1>2 DEF Equal, Alike, New, InUse
<1>4. (i \in Candidates(r))'
  BY <1>3 DEF Candidates
<1> QED BY <1>1, <1>2, <1>4 DEF Mine

\* Whoever owned a rule that is still there owns it, and so it stays with requests.
LEMMA OwnersStay ==
  ASSUME TypeInv, Owned, NEW w \in Requests, CarryOut(w), OwnTarget(w)
  PROVE  /\ \A i \in Ids : i < nextId /\ rules'[i] # None
                          => rules[i] # None /\ rules'[i].owner = rules[i].owner
         /\ \A r \in Resources :
              id[r] # None /\ rules'[id[r]] # None => rules'[id[r]].owner = r
         /\ \A x \in late : x.at # None /\ rules'[x.at] # None
                          => rules'[x.at].owner = x.rule.owner
<1>1. ASSUME NEW i \in Ids, i < nextId, rules'[i] # None
      PROVE  rules[i] # None /\ rules'[i].owner = rules[i].owner
  <2>1. \/ rules'[i] = rules[i]
        \/ i = w.at /\ rules[i] # None /\ rules'[i] \in {None, w.rule}
    BY <1>1, CarryOutEffect DEF TypeInv, TypeOK
  <2> QED BY <1>1, <2>1, NoneAssumption DEF OwnTarget
<1>2. ASSUME NEW r \in Resources, id[r] # None, rules'[id[r]] # None
      PROVE  rules'[id[r]].owner = r
  <2>1. id[r] \in Ids /\ id[r] < nextId
    BY <1>2 DEF TypeInv, TypeOK, Fresh
  <2> QED BY <1>1, <1>2, <2>1 DEF Owned
<1>3. ASSUME NEW x \in late, x.at # None, rules'[x.at] # None
      PROVE  rules'[x.at].owner = x.rule.owner
  <2>1. x.at \in Ids /\ x.at < nextId
    BY <1>3 DEF TypeInv, TypeOK, Fresh, Requests
  <2> QED BY <1>1, <1>3, <2>1 DEF Owned, OwnTarget
<1> QED BY <1>1, <1>2, <1>3

\* A rule that a resource is looking for survives the requests of others.
LEMMA OthersLeaveMine ==
  ASSUME TypeInv, Quiet, NEW w \in Requests, CarryOut(w), OwnTarget(w),
         NEW r \in Resources, NEW i \in Ids, Mine(r, i),
         w.rule.owner # r \/ w \in late
  PROVE  rules'[i] = rules[i]
<1>1. rules[i] # None /\ rules[i].owner = r /\ i # None
  BY NoneAssumption DEF Mine, Candidates, Equal, Alike, InUse, Written, Quiet, TypeInv, TypeOK,
                        Rules
<1>2. i # w.at
  BY <1>1 DEF OwnTarget, Mine
<1> QED BY <1>1, <1>2, CarryOutEffect DEF TypeInv, TypeOK

\* What holds after a request was carried out, whoever sent it, in time or late.
LEMMA CarriedOwn ==
  ASSUME TypeInv, Owned, Looking, Quiet, kind' = kind, want' = want, late' \subseteq late,
         NEW w \in Requests, CarryOut(w), OwnTarget(w),
         \A q \in Resources :
           pc'[q] = "find" =>
             \/ /\ pc[q] = "find" /\ before'[q] = before[q]
                /\ w.rule.owner # q \/ w \in late
             \/ Adds(w) /\ w.rule = Written(q) /\ before' = before /\ late' = late,
         \A q \in Resources :
           \/ id'[q] = id[q] \/ id'[q] = None
           \/ Adds(w) /\ id'[q] = nextId /\ w.rule.owner = q
  PROVE  Owned' /\ Looking'
<1>1. ASSUME NEW q \in Resources, id'[q] # None, rules'[id'[q]] # None
      PROVE  rules'[id'[q]].owner = q
  <2>1. CASE id'[q] = id[q] BY <1>1, <2>1, OwnersStay
  <2>2. CASE Adds(w) /\ id'[q] = nextId /\ w.rule.owner = q
    BY <2>2, CarryOutEffect DEF TypeInv
  <2> QED BY <1>1, <2>1, <2>2
<1>2. \A x \in late' : OwnTarget(x)'
  BY OwnersStay DEF OwnTarget
<1>3. ASSUME NEW q \in Resources, pc'[q] = "find" PROVE \E i \in Ids : Mine(q, i)'
  <2>1. CASE /\ pc[q] = "find" /\ before'[q] = before[q]
             /\ w.rule.owner # q \/ w \in late
    <3>1. PICK i \in Ids : Mine(q, i)
      BY <2>1 DEF Looking
    <3>2. rules'[i] = rules[i]
      BY <2>1, <3>1, OthersLeaveMine
    <3> QED BY <2>1, <3>1, <3>2, MineStays
  <2>2. CASE Adds(w) /\ w.rule = Written(q) /\ before' = before /\ late' = late
    <3>1. nextId \in Ids /\ rules'[nextId] = Written(q)
      BY <2>2, CarryOutEffect DEF TypeInv
    <3> QED BY <2>2, <3>1, MineIsNew DEF Quiet
  <2> QED BY <1>3, <2>1, <2>2
<1> QED BY <1>1, <1>2, <1>3 DEF Owned, Looking

\* What holds after a step that leaves the rules alone, but may give up a request.
LEMMA UncarriedOwn ==
  ASSUME TypeInv, Owned, Looking, Quiet, kind' = kind, rules' = rules,
         \A x \in late' : x \in late \/ (OwnTarget(x) /\ pc'[x.rule.owner] # "find"),
         \A q \in Resources :
           pc'[q] = "find" => pc[q] = "find" /\ want'[q] = want[q] /\ before'[q] = before[q],
         \A q \in Resources :
           \/ id'[q] = id[q] \/ id'[q] = None
           \/ pc[q] = "find" /\ id'[q] \in Ids /\ IsFound(q, id'[q])
  PROVE  Owned' /\ Looking'
<1>1. ASSUME NEW q \in Resources, id'[q] # None, rules[id'[q]] # None
      PROVE  rules[id'[q]].owner = q
  <2>1. CASE id'[q] = id[q] BY <1>1, <2>1 DEF Owned
  <2>2. CASE pc[q] = "find" /\ id'[q] \in Ids /\ IsFound(q, id'[q])
    <3>1. PICK j \in Ids : Mine(q, j)
      BY <2>2 DEF Looking
    <3>2. id'[q] = j
      BY <2>2, <3>1, FoundIsMine
    <3> QED BY <3>1, <3>2 DEF Mine, Written
  <2> QED BY <1>1, <2>1, <2>2
<1>2. ASSUME NEW x \in late' PROVE OwnTarget(x)'
  BY <1>2 DEF Owned, OwnTarget
<1>3. ASSUME NEW q \in Resources, pc'[q] = "find" PROVE \E i \in Ids : Mine(q, i)'
  <2>1. PICK i \in Ids : Mine(q, i)
    BY <1>3 DEF Looking
  <2>2. rules[i] # None /\ rules[i].owner = q /\ i # None
    BY <2>1, NoneAssumption DEF Mine, Candidates, Equal, Alike, InUse, Written, Quiet
  <2>3. \A x \in late' : x \in late \/ x.at # i
    BY <1>3, <2>2 DEF OwnTarget
  <2> QED BY <1>3, <2>1, <2>3, MineStays
<1> QED BY <1>1, <1>2, <1>3 DEF Owned, Looking

LEMMA InitOwn == Init => OwnInv
BY InitType DEF Init, OwnInv, Owned, Looking

LEMMA NextOwn == OwnInv /\ [Next]_vars => OwnInv'
<1> SUFFICES ASSUME OwnInv, Step \/ Configure \/ UNCHANGED vars, kind' = kind, Quiet'
             PROVE  Owned' /\ Looking'
  BY NextType DEF OwnInv, Next, vars
<1>1. strayed \subseteq strayed'
  BY DEF Step, Proceed, Create, LockTriggering, ListBefore, ListBeforeFails, PostRule, PostFails,
         Find, FindFails, Begin, Update, ReadRule, ReadFails, PutRule, PutRoute, PutFails,
         DeleteRule, DeleteFails, Configure, Import, ExternalAdd, ExternalRemove, CarryOutLate, vars
<1>2. TypeInv /\ Owned /\ Looking /\ Quiet
  BY <1>1 DEF OwnInv, Quiet
<1>3. \A r \in Resources : \A o \in {"post", "put", "delete"}, n \in {None, id[r]} :
        /\ Request(r, o, n) \in Requests /\ OwnTarget(Request(r, o, n))
        /\ Request(r, o, n).at = n /\ Request(r, o, n).rule = Written(r) /\ Written(r).owner = r
  BY <1>2, RequestType DEF Request, Written, OwnTarget, Owned, TypeInv, TypeOK
<1> USE DEF Goto, SetId, lookup
<1>4. ASSUME NEW r \in Resources,
             \/ Create(r) \/ Update(r) \/ (\E s \in {"read", "delete"} : Begin(r, s))
             \/ LockTriggering(r) \/ ListBefore(r) \/ ListBeforeFails(r)
             \/ Find(r) \/ FindFails(r) \/ ReadRule(r) \/ ReadFails(r)
      PROVE  Owned' /\ Looking'
  <2>1. rules' = rules /\ late' = late
    BY <1>4 DEF Create, Begin, Update, LockTriggering, ListBefore, ListBeforeFails, Find,
                FindFails, ReadRule, ReadFails
  <2>2. ASSUME NEW q \in Resources, pc'[q] = "find"
        PROVE  pc[q] = "find" /\ want'[q] = want[q] /\ before'[q] = before[q]
    BY <1>2, <1>4, <2>2
       DEF Create, Begin, Update, LockTriggering, ListBefore, ListBeforeFails, Find, FindFails,
           ReadRule, ReadFails, GiveUp, Forget, TypeInv, TypeOK
  <2>3. ASSUME NEW q \in Resources
        PROVE  \/ id'[q] = id[q] \/ id'[q] = None
               \/ pc[q] = "find" /\ id'[q] \in Ids /\ IsFound(q, id'[q])
    BY <1>2, <1>4, <2>3
       DEF Create, Begin, Update, LockTriggering, ListBefore, ListBeforeFails, Find, FindFails,
           ReadRule, ReadFails, GiveUp, Forget, TypeInv, TypeOK
  <2>4. \A x \in late' : x \in late
    BY <2>1
  <2> HIDE DEF Goto, SetId, lookup
  <2> QED BY <1>2, <2>1, <2>2, <2>3, <2>4, UncarriedOwn
<1>5. ASSUME NEW r \in Resources, PostFails(r) \/ PutFails(r) \/ DeleteFails(r)
      PROVE  Owned' /\ Looking'
  <2>1. PICK o \in {"post", "put", "delete"}, n \in {None, id[r]} :
          Abandon(Request(r, o, n)) /\ GiveUp(r) /\ UNCHANGED <<rules, nextId, want, strayed>>
    BY <1>5 DEF PostFails, PutFails, DeleteFails
  <2>2. pc'[r] # "find" /\ id' = id /\ rules' = rules
    BY <1>2, <2>1 DEF GiveUp, TypeInv, TypeOK
  <2>3. \A x \in late' : x \in late \/ (OwnTarget(x) /\ pc'[x.rule.owner] # "find")
    <3> DEFINE w == Request(r, o, n)
    <3>1. OwnTarget(w) /\ w.rule.owner = r
      BY <1>3
    <3> HIDE DEF w
    <3>2. late' = late \/ late' = late \union {w}
      BY <2>1, AbandonEffect DEF w
    <3> QED BY <2>2, <3>1, <3>2
  <2>4. ASSUME NEW q \in Resources, pc'[q] = "find"
        PROVE  pc[q] = "find" /\ want'[q] = want[q] /\ before'[q] = before[q]
    BY <1>2, <2>1, <2>4 DEF GiveUp, Forget, TypeInv, TypeOK
  <2> QED BY <1>2, <2>2, <2>3, <2>4, UncarriedOwn
<1>6. ASSUME NEW r \in Resources, PostRule(r) \/ PutRule(r) \/ PutRoute(r) \/ DeleteRule(r)
      PROVE  Owned' /\ Looking'
  <2>1. PICK o \in {"post", "put", "delete"}, n \in {None, id[r]} :
          /\ CarryOut(Request(r, o, n)) /\ UNCHANGED <<want, late, strayed>>
          /\ \/ GiveUp(r)
             \/ /\ pc' = [pc EXCEPT ![r] = "find"] /\ UNCHANGED <<id, before>>
                /\ Adds(Request(r, o, n))
             \/ /\ pc' = [pc EXCEPT ![r] = "read"] /\ UNCHANGED before
                /\ \/ UNCHANGED id
                   \/ id' = [id EXCEPT ![r] = nextId] /\ Adds(Request(r, o, n))
             \/ /\ pc' = [pc EXCEPT ![r] = "idle"] /\ UNCHANGED before
                /\ id' = [id EXCEPT ![r] = None]
          /\ pc[r] # "find"
    BY <1>6 DEF PostRule, PutRule, PutRoute, DeleteRule, Adds, Request
  <2> DEFINE w == Request(r, o, n)
  <2>2. w \in Requests /\ OwnTarget(w) /\ w.rule = Written(r) /\ w.rule.owner = r
    BY <1>3
  <2>3. ASSUME NEW q \in Resources, pc'[q] = "find"
        PROVE  \/ /\ pc[q] = "find" /\ before'[q] = before[q] /\ w.rule.owner # q
               \/ Adds(w) /\ w.rule = Written(q) /\ before' = before
    <3> HIDE DEF w
    <3>1. CASE q = r
      BY <1>2, <2>1, <2>2, <2>3, <3>1 DEF GiveUp, TypeInv, TypeOK, w
    <3>2. CASE q # r
      BY <1>2, <2>1, <2>2, <2>3, <3>2 DEF GiveUp, Forget, TypeInv, TypeOK
    <3> QED BY <3>1, <3>2
  <2>4. ASSUME NEW q \in Resources
        PROVE  \/ id'[q] = id[q] \/ id'[q] = None
               \/ Adds(w) /\ id'[q] = nextId /\ w.rule.owner = q
    BY <1>2, <2>1, <2>2 DEF GiveUp, TypeInv, TypeOK
  <2> HIDE DEF w
  <2>5. CarryOut(w) /\ want' = want /\ late' = late
    BY <2>1 DEF w
  <2> QED BY <1>2, <2>2, <2>3, <2>4, <2>5, CarriedOwn
<1>7. CASE ExternalAdd
  <2>1. PICK c \in Contents :
          CarryOut([op |-> "post", at |-> None, rule |-> [what |-> c, owner |-> Other]])
    BY <1>7 DEF ExternalAdd
  <2> DEFINE w == [op |-> "post", at |-> None, rule |-> [what |-> c, owner |-> Other]]
  <2>2. w \in Requests /\ OwnTarget(w) /\ w.rule.owner \notin Resources
    BY ExternalType, OwnersAssumption DEF OwnTarget
  <2> HIDE DEF w
  <2>3. CarryOut(w) BY <2>1 DEF w
  <2> QED BY <1>2, <1>7, <2>2, <2>3, CarriedOwn DEF ExternalAdd
<1>8. ASSUME NEW i \in Ids, ExternalRemove(i) PROVE Owned' /\ Looking'
  <2>1. rules[i].owner \notin Resources
    BY <1>8, OwnersAssumption DEF ExternalRemove, Quiet
  <2>2. rules' = [rules EXCEPT ![i] = None] /\ UNCHANGED <<id, want, pc, before, late>>
    BY <1>8 DEF ExternalRemove
  <2>3. Owned'
    BY <1>2, <2>2 DEF Owned, OwnTarget, TypeInv, TypeOK, Requests
  <2>4. ASSUME NEW q \in Resources, pc[q] = "find" PROVE \E j \in Ids : Mine(q, j)'
    <3>1. PICK j \in Ids : Mine(q, j)
      BY <1>2, <2>4 DEF Looking
    <3>2. rules'[j] = rules[j]
      BY <1>2, <2>1, <2>2, <3>1 DEF Mine, Written, TypeInv, TypeOK
    <3> QED BY <1>2, <2>2, <3>1, <3>2, MineStays
  <2> QED BY <2>2, <2>3, <2>4 DEF Looking
<1>9. ASSUME NEW w \in late, CarryOutLate(w) PROVE Owned' /\ Looking'
  <2>1. w \in Requests /\ OwnTarget(w)
    BY <1>2 DEF TypeInv, TypeOK, Owned
  <2> QED BY <1>2, <1>9, <2>1, CarriedOwn DEF CarryOutLate
<1>10. CASE Configure \/ UNCHANGED vars
  <2>1. UNCHANGED <<rules, id, want, pc, before, late>>
    BY <1>10 DEF Configure, vars
  <2> QED BY <1>2, <2>1
          DEF Owned, Looking, OwnTarget, Mine, Candidates, Equal, Alike, New, InUse, Written
<1>11. ASSUME NEW r \in Resources, NEW i \in Ids, Import(r, i) PROVE Owned' /\ Looking'
  <2>1. /\ rules' = [rules EXCEPT ![i].owner = r] /\ id' = [id EXCEPT ![r] = i] /\ late' = late
        /\ \A q \in Resources : id[q] # i
        /\ \A w \in late : w.at # i
    BY <1>11 DEF Import
  <2>2. rules[i] \in Rules
    BY <1>2, <1>11 DEF Import, InUse, TypeInv, TypeOK
  <2>3. rules'[i].owner = r /\ \A j \in Ids \ {i} : rules'[j] = rules[j]
    BY <1>2, <2>1, <2>2 DEF Rules, TypeInv, TypeOK
  <2>4. Owned'
    <3>1. ASSUME NEW q \in Resources, id'[q] # None, rules'[id'[q]] # None
          PROVE  rules'[id'[q]].owner = q
      BY <1>2, <2>1, <2>3, <3>1 DEF Owned, TypeInv, TypeOK
    <3>2. ASSUME NEW w \in late' PROVE OwnTarget(w)'
      BY <1>2, <2>1, <2>3, <3>2 DEF Owned, OwnTarget, TypeInv, TypeOK, Requests
    <3> QED BY <3>1, <3>2 DEF Owned
  <2>5. \A q \in Resources : pc'[q] # "find"
    BY <1>2, <1>11 DEF Import, Idle, TypeInv, TypeOK
  <2> QED BY <2>4, <2>5 DEF Looking
<1> QED BY <1>4, <1>5, <1>6, <1>7, <1>8, <1>9, <1>10, <1>11 DEF Step, Proceed

(***************************************************************************)
(* A resource holds the number of a rule it wrote, or of none: however the *)
(* creates and updates of equal rules interleave, whatever arrives late or *)
(* not at all, and whoever else adds rules.                                *)
(***************************************************************************)
THEOREM IdsAreOwn == Spec => []IdIsOwn
<1>1. Spec => []OwnInv
  BY InitOwn, NextOwn, PTL DEF Spec
<1>2. OwnInv => IdIsOwn
  BY DEF OwnInv, Owned, Quiet, IdIsOwn
<1> QED BY <1>1, <1>2, PTL

-----------------------------------------------------------------------------
\* Under the lock and undisturbed, nothing is new but the rule of the create.
Alone ==
  kind = "triggering" /\ strayed = {} =>
    \A r \in Resources :
      /\ pc[r] = "post" => New(r) = {}
      /\ pc[r] = "find" => \A i, j \in New(r) : i = j

LEMMA InUseEffect ==
  ASSUME TypeInv, NEW w \in Requests, CarryOut(w)
  PROVE  InUse' \subseteq InUse \union (IF Adds(w) THEN {nextId} ELSE {})
BY CarryOutEffect DEF TypeInv, InUse

LEMMA NextAlone == TypeInv /\ Alone /\ [Next]_vars => Alone'
<1> SUFFICES ASSUME TypeInv, Alone, Step \/ Configure \/ UNCHANGED vars, kind' = kind,
                    kind = "triggering", strayed' = {}, NEW q \in Resources
             PROVE  /\ pc'[q] = "post" => New(q)' = {}
                    /\ pc'[q] = "find" => \A i, j \in New(q)' : i = j
  BY DEF Next, vars, Alone
<1>1. /\ strayed = {}
      /\ ~ExternalAdd /\ (\A i \in Ids : ~ExternalRemove(i)) /\ \A w \in late : ~CarryOutLate(w)
  BY DEF Step, Proceed, Create, LockTriggering, ListBefore, ListBeforeFails, PostRule, PostFails,
         Find, FindFails, Begin, Update, ReadRule, ReadFails, PutRule, PutRoute, PutFails,
         DeleteRule, DeleteFails, Configure, Import, ExternalAdd, ExternalRemove, CarryOutLate, vars
<1>2. /\ pc[q] = "post" => New(q) = {}
      /\ pc[q] = "find" => \A i, j \in New(q) : i = j
  BY <1>1 DEF Alone
<1> USE DEF TypeInv, TypeOK, Goto, GiveUp, Forget, lookup
<1>3. ASSUME NEW r \in Resources, PostRule(r)
      PROVE  /\ pc'[q] = "post" => New(q)' = {}
             /\ pc'[q] = "find" => \A i, j \in New(q)' : i = j
  <2>1. CASE q = r
    <3>1. pc'[q] # "post" /\ (pc'[q] = "find" => before' = before)
      BY <1>3, <2>1 DEF PostRule
    <3>2. CASE pc'[q] = "find"
      <4>1. InUse' \subseteq InUse \union {nextId}
        BY <1>3, RequestType, InUseEffect DEF PostRule, Adds, Request
      <4> QED BY <1>2, <1>3, <2>1, <3>1, <3>2, <4>1 DEF PostRule, New
    <3> QED BY <3>1, <3>2
  <2>2. CASE q # r
    BY <1>3, <2>2 DEF PostRule, LockHeldByCreate
  <2> QED BY <2>1, <2>2
<1>4. ASSUME NEW r \in Resources, PutRule(r) \/ DeleteRule(r)
      PROVE  /\ pc'[q] = "post" => New(q)' = {}
             /\ pc'[q] = "find" => \A i, j \in New(q)' : i = j
  <2>1. PICK o \in {"put", "delete"} : CarryOut(Request(r, o, id[r]))
    BY <1>4 DEF PutRule, DeleteRule
  <2>2. InUse' \subseteq InUse
    BY <2>1, RequestType, InUseEffect DEF Adds, Request
  <2>3. pc'[q] \in {"post", "find"} => pc'[q] = pc[q] /\ before'[q] = before[q]
    BY <1>4 DEF PutRule, DeleteRule
  <2> QED BY <1>2, <2>2, <2>3 DEF New
<1>5. ASSUME rules' = rules,
             /\ pc'[q] = "post" =>
                  (pc[q] = "post" /\ before'[q] = before[q]) \/ before'[q] = InUse
             /\ pc'[q] = "find" => pc[q] = "find" /\ before'[q] = before[q]
      PROVE  /\ pc'[q] = "post" => New(q)' = {}
             /\ pc'[q] = "find" => \A i, j \in New(q)' : i = j
  BY <1>2, <1>5 DEF New, InUse
<1>6. ASSUME NEW r \in Resources,
             \/ Create(r) \/ Update(r) \/ (\E s \in {"read", "delete"} : Begin(r, s))
             \/ LockTriggering(r) \/ ListBefore(r) \/ ListBeforeFails(r) \/ PostFails(r)
             \/ Find(r) \/ FindFails(r) \/ ReadRule(r) \/ ReadFails(r) \/ PutFails(r)
             \/ DeleteFails(r)
      PROVE  /\ pc'[q] = "post" => New(q)' = {}
             /\ pc'[q] = "find" => \A i, j \in New(q)' : i = j
  BY <1>5, <1>6
     DEF Create, Begin, Update, LockTriggering, ListBefore, ListBeforeFails, PostFails, Find,
         FindFails, ReadRule, ReadFails, PutFails, DeleteFails
<1>7. CASE Configure \/ UNCHANGED vars BY <1>5, <1>7 DEF Configure, vars
<1>8. \A r \in Resources : ~PutRoute(r) BY DEF PutRoute
<1>9. ASSUME NEW r \in Resources, NEW i \in Ids, Import(r, i) PROVE pc'[q] \notin {"post", "find"}
  BY <1>9 DEF Import, Idle
<1> QED BY <1>1, <1>3, <1>4, <1>6, <1>7, <1>8, <1>9 DEF Step, Proceed

(***************************************************************************)
(* Creates of equal port triggering rules, however many and whatever was   *)
(* left behind by those before, each find exactly one new rule: what the   *)
(* mutex is for.                                                           *)
(***************************************************************************)
THEOREM MutexMakesUnique == Spec => []FoundAtOnce
<1>1. Init => Alone
  BY DEF Init, Alone
<1>2. Spec => [](OwnInv /\ Alone)
  <2>1. OwnInv => TypeInv BY DEF OwnInv
  <2> QED BY <1>1, <2>1, InitOwn, NextOwn, NextAlone, PTL DEF Spec
<1>3. OwnInv /\ Alone => FoundAtOnce
  <2> SUFFICES ASSUME OwnInv, Alone, NEW r \in Resources, kind = "triggering", pc[r] = "find",
                      strayed = {}
               PROVE  \E i \in Ids : Candidates(r) = {i}
    BY DEF FoundAtOnce
  <2>1. PICK i \in Ids : i \in Candidates(r)
    BY DEF OwnInv, Quiet, Looking, Mine
  <2>2. Candidates(r) \subseteq New(r)
    BY DEF Candidates
  <2> QED BY <2>1, <2>2 DEF Alone
<1> QED BY <1>2, <1>3, PTL

-----------------------------------------------------------------------------
\* A request about a reservation keeps the client of the one it replaces.
SameClient(w) ==
  w.at # None /\ rules[w.at] # None => w.rule.what.key = rules[w.at].what.key

(***************************************************************************)
(* A reservation says the client of each resource that holds its number,   *)
(* and resources that hold one number, even that of a reservation which is *)
(* gone, have asked for the same client.                                   *)
(***************************************************************************)
Keyed ==
  kind = "reserved" =>
    /\ \A r \in Resources : id[r] # None /\ rules[id[r]] # None
                             => rules[id[r]].what.key = want[r].key
    /\ \A w \in late : SameClient(w)
    /\ \A r, s \in Resources : id[r] = id[s] /\ id[r] # None => want[r].key = want[s].key

NotShared == \A r, s \in Resources : id[r] = id[s] /\ id[r] # None => r = s

SharedInv == OwnInv /\ ClientsDiffer(conf) /\ Keyed /\ (Quiet => NotShared)

\* What holds after a request about a reservation has been carried out.
LEMMA CarriedKeyed ==
  ASSUME TypeInv, Keyed, kind = "reserved", kind' = kind,
         NEW w \in Requests, CarryOut(w), SameClient(w),
         want' = want, \A x \in late' : x \in late,
         \A q \in Resources : id'[q] \in {id[q], None}
  PROVE  Keyed'
<1>1. ASSUME NEW i \in Ids, i < nextId, rules'[i] # None
      PROVE  rules[i] # None /\ rules'[i].what.key = rules[i].what.key
  <2>1. \/ rules'[i] = rules[i]
        \/ i = w.at /\ rules[i] # None /\ rules'[i] \in {None, w.rule}
    BY <1>1, CarryOutEffect DEF TypeInv, TypeOK
  <2> QED BY <1>1, <2>1, NoneAssumption DEF SameClient
<1>2. ASSUME NEW q \in Resources, id'[q] # None, rules'[id'[q]] # None
      PROVE  rules'[id'[q]].what.key = want'[q].key
  <2>1. id'[q] = id[q] /\ id[q] \in Ids /\ id[q] < nextId
    BY <1>2 DEF TypeInv, TypeOK, Fresh
  <2> QED BY <1>1, <1>2, <2>1 DEF Keyed
<1>3. ASSUME NEW x \in late', x.at # None, rules'[x.at] # None
      PROVE  x.rule.what.key = rules'[x.at].what.key
  <2>1. x \in late /\ x.at \in Ids /\ x.at < nextId
    BY <1>3 DEF TypeInv, TypeOK, Fresh, Requests
  <2> QED BY <1>1, <1>3, <2>1 DEF Keyed, SameClient
<1>4. ASSUME NEW q \in Resources, NEW s \in Resources, id'[q] = id'[s], id'[q] # None
      PROVE  want'[q].key = want'[s].key
  BY <1>4 DEF Keyed
<1> QED BY <1>2, <1>3, <1>4 DEF Keyed, SameClient

\* What holds after a step that writes no reservation.
LEMMA UncarriedKeyed ==
  ASSUME TypeInv, Keyed, kind = "reserved", kind' = kind,
         \A i \in Ids : rules'[i] # None
                        => rules[i] # None /\ rules'[i].what.key = rules[i].what.key,
         \A q \in Resources :
           \/ id'[q] = None
           \/ id'[q] = id[q] /\ want'[q].key = want[q].key
           \/ /\ id'[q] \in Ids /\ rules[id'[q]] # None
              /\ rules[id'[q]].what.key = want'[q].key,
         \A x \in late' : x \in late \/ (SameClient(x) /\ x.at \in Ids \union {None})
  PROVE  Keyed'
<1>1. ASSUME NEW q \in Resources, id'[q] # None, rules'[id'[q]] # None
      PROVE  rules'[id'[q]].what.key = want'[q].key
  <2>1. id'[q] \in Ids BY <1>1 DEF TypeInv, TypeOK
  <2>2. rules[id'[q]] # None /\ rules'[id'[q]].what.key = rules[id'[q]].what.key BY <1>1, <2>1
  <2> QED BY <1>1, <2>1, <2>2 DEF Keyed
<1>2. ASSUME NEW x \in late', x.at # None, rules'[x.at] # None
      PROVE  x.rule.what.key = rules'[x.at].what.key
  <2>1. x.at \in Ids BY <1>2 DEF TypeInv, TypeOK, Requests
  <2>2. rules[x.at] # None /\ rules'[x.at].what.key = rules[x.at].what.key BY <1>2, <2>1
  <2> QED BY <1>2, <2>1, <2>2 DEF Keyed, SameClient
<1>3. ASSUME NEW q \in Resources, NEW s \in Resources, id'[q] = id'[s], id'[q] # None
      PROVE  want'[q].key = want'[s].key
  BY <1>3 DEF Keyed
<1> QED BY <1>1, <1>2, <1>3 DEF Keyed, SameClient

\* A number is learnt only if no other resource holds it.
LEMMA LearntNotShared ==
  ASSUME NotShared, NEW r \in Resources,
         \A q \in Resources : q # r => id'[q] = id[q],
         \/ id'[r] \in {id[r], None}
         \/ \A q \in Resources : id[q] = id'[r] => q = r
  PROVE  NotShared'
BY DEF NotShared

\* The rule that a resource takes for its own is no other resource's.
LEMMA FoundNotShared ==
  ASSUME OwnInv, Quiet, NEW r \in Resources, pc[r] = "find",
         NEW i \in Ids, IsFound(r, i), NEW q \in Resources, id[q] = i
  PROVE  q = r
<1>1. Owned /\ Looking BY DEF OwnInv
<1>2. PICK j \in Ids : Mine(r, j) BY <1>1 DEF Looking
<1>3. i = j BY <1>2, FoundIsMine
<1>4. rules[i] # None /\ rules[i].owner = r
  BY <1>2, <1>3 DEF Mine, Candidates, Equal, Alike, InUse, Written, Quiet
<1> QED BY <1>1, <1>4, NoneAssumption DEF Owned

LEMMA NextKeyed == TypeInv /\ Keyed /\ [Next]_vars => Keyed'
<1> SUFFICES ASSUME TypeInv, Keyed, Step \/ Configure \/ UNCHANGED vars, kind' = kind,
                    kind = "reserved"
             PROVE  Keyed'
  BY DEF Next, vars, Keyed
<1>0. \A i \in Ids : rules[i] # None => rules[i] # None /\ rules[i].what.key = rules[i].what.key
  OBVIOUS
<1>1. \A r \in Resources : \A o \in {"post", "put", "delete"}, n \in {None, id[r]} :
        /\ Request(r, o, n) \in Requests /\ SameClient(Request(r, o, n))
        /\ n \in Ids \union {None} /\ Request(r, o, n).at = n
  BY RequestType DEF Request, Written, SameClient, Keyed, TypeInv, TypeOK
<1>2. ASSUME NEW r \in Resources,
             \/ (\E s \in {"read", "delete"} : Begin(r, s))
             \/ LockTriggering(r) \/ ListBefore(r) \/ ListBeforeFails(r)
             \/ FindFails(r) \/ ReadRule(r) \/ ReadFails(r)
      PROVE  Keyed'
  <2>1. /\ rules' = rules /\ late' = late /\ want' = want
        /\ \A q \in Resources : id'[q] \in {id[q], None}
    BY <1>2 DEF Begin, LockTriggering, ListBefore, ListBeforeFails, FindFails, ReadRule,
                ReadFails, GiveUp, SetId, TypeInv, TypeOK
  <2> QED BY <1>0, <2>1, UncarriedKeyed
<1>3. ASSUME NEW r \in Resources, Create(r) \/ Update(r) PROVE Keyed'
  <2>1. /\ rules' = rules /\ late' = late /\ id' = id
        /\ want' = [want EXCEPT ![r] = conf[r]]
        /\ id[r] # None => conf[r].key = want[r].key
    BY <1>3 DEF Create, Update
  <2>2. ASSUME NEW q \in Resources, id[q] # None PROVE want'[q].key = want[q].key
    BY <2>1, <2>2 DEF TypeInv, TypeOK
  <2> QED BY <1>0, <2>1, <2>2, UncarriedKeyed
<1>4. ASSUME NEW r \in Resources, Find(r) PROVE Keyed'
  <2>1. PICK i \in Ids : IsFound(r, i) /\ SetId(r, i)
    BY <1>4 DEF Find
  <2>2. rules[i] # None /\ rules[i].what.key = want[r].key
    BY <2>1 DEF IsFound, Candidates, Equal, Alike, InUse
  <2>3. UNCHANGED <<rules, want, late>> BY <1>4 DEF Find
  <2>4. id' = [id EXCEPT ![r] = i] BY <2>1 DEF SetId
  <2>5. \A q \in Resources : \/ id'[q] = id[q]
                             \/ /\ id'[q] \in Ids /\ rules[id'[q]] # None
                                /\ rules[id'[q]].what.key = want[q].key
    BY <2>2, <2>4 DEF TypeInv, TypeOK
  <2> QED BY <1>0, <2>3, <2>5, UncarriedKeyed
<1>5. ASSUME NEW r \in Resources, PostFails(r) \/ PutFails(r) \/ DeleteFails(r)
      PROVE  Keyed'
  <2>1. PICK o \in {"post", "put", "delete"}, n \in {None, id[r]} :
          Abandon(Request(r, o, n)) /\ GiveUp(r) /\ UNCHANGED <<rules, nextId, want, strayed>>
    BY <1>5 DEF PostFails, PutFails, DeleteFails
  <2> DEFINE w == Request(r, o, n)
  <2>2. SameClient(w) /\ w.at \in Ids \union {None} BY <1>1
  <2> HIDE DEF w
  <2>3. late' = late \/ late' = late \union {w}
    BY <2>1, AbandonEffect DEF w
  <2>4. id' = id BY <2>1 DEF GiveUp
  <2> QED BY <1>0, <2>1, <2>2, <2>3, <2>4, UncarriedKeyed
<1>6. ASSUME NEW r \in Resources, PostRule(r) \/ PutRule(r) \/ PutRoute(r) \/ DeleteRule(r)
      PROVE  Keyed'
  <2>1. PICK o \in {"post", "put", "delete"}, n \in {None, id[r]} :
          CarryOut(Request(r, o, n)) /\ UNCHANGED <<want, late, strayed>>
    BY <1>6 DEF PostRule, PutRule, PutRoute, DeleteRule
  <2>2. \A q \in Resources : id'[q] \in {id[q], None}
    BY <1>6 DEF PostRule, PutRule, PutRoute, DeleteRule, GiveUp, SetId, TypeInv, TypeOK
  <2> DEFINE w == Request(r, o, n)
  <2>3. w \in Requests /\ SameClient(w) BY <1>1
  <2>4. CarryOut(w) BY <2>1
  <2> HIDE DEF w
  <2> QED BY <2>1, <2>2, <2>3, <2>4, CarriedKeyed
<1>7. CASE ExternalAdd
  <2>1. PICK c \in Contents :
          CarryOut([op |-> "post", at |-> None, rule |-> [what |-> c, owner |-> Other]])
    BY <1>7 DEF ExternalAdd
  <2> DEFINE w == [op |-> "post", at |-> None, rule |-> [what |-> c, owner |-> Other]]
  <2>2. w \in Requests /\ SameClient(w) BY ExternalType DEF SameClient
  <2>3. CarryOut(w) BY <2>1
  <2> HIDE DEF w
  <2> QED BY <1>7, <2>2, <2>3, CarriedKeyed DEF ExternalAdd
<1>8. ASSUME NEW i \in Ids, ExternalRemove(i) PROVE Keyed'
  BY <1>8, UncarriedKeyed DEF ExternalRemove, TypeInv, TypeOK
<1>9. ASSUME NEW w \in late, CarryOutLate(w) PROVE Keyed'
  <2>1. w \in Requests /\ SameClient(w) BY DEF TypeInv, TypeOK, Keyed
  <2> QED BY <1>9, <2>1, CarriedKeyed DEF CarryOutLate
<1>10. CASE Configure \/ UNCHANGED vars
  BY <1>0, <1>10, UncarriedKeyed DEF Configure, vars
<1>11. ASSUME NEW r \in Resources, NEW i \in Ids, Import(r, i) PROVE Keyed'
  <2>1. /\ rules[i] # None /\ rules' = [rules EXCEPT ![i].owner = r] /\ late' = late
        /\ id' = [id EXCEPT ![r] = i] /\ want' = [want EXCEPT ![r] = rules[i].what]
    BY <1>11 DEF Import, InUse, SetId
  <2>2. rules[i] \in Rules
    BY <2>1 DEF TypeInv, TypeOK
  <2>3. \A j \in Ids : rules'[j] # None
                        => rules[j] # None /\ rules'[j].what.key = rules[j].what.key
    BY <2>1, <2>2 DEF TypeInv, TypeOK, Rules
  <2>4. \A q \in Resources : \/ id'[q] = id[q] /\ want'[q].key = want[q].key
                             \/ /\ id'[q] \in Ids /\ rules[id'[q]] # None
                                /\ rules[id'[q]].what.key = want'[q].key
    BY <2>1 DEF TypeInv, TypeOK
  <2> QED BY <2>1, <2>3, <2>4, UncarriedKeyed
<1> QED BY <1>2, <1>3, <1>4, <1>5, <1>6, <1>7, <1>8, <1>9, <1>10, <1>11 DEF Step, Proceed

LEMMA NextNotShared ==
  ASSUME SharedInv, [Next]_vars, Quiet'
  PROVE  NotShared'
<1>1. Step \/ Configure \/ UNCHANGED vars
  BY DEF Next
<1>2. strayed \subseteq strayed' /\ kind' = kind
  BY <1>1
     DEF Next, Step, Proceed, Create, LockTriggering, ListBefore, ListBeforeFails, PostRule,
         PostFails, Find, FindFails, Begin, Update, ReadRule, ReadFails, PutRule, PutRoute,
         PutFails, DeleteRule, DeleteFails, Configure, Import, ExternalAdd, ExternalRemove,
         CarryOutLate, vars
<1>3. TypeInv /\ OwnInv /\ Quiet /\ NotShared
  BY <1>2 DEF SharedInv, OwnInv, Quiet
<1>4. ASSUME NEW r \in Resources, Find(r) PROVE NotShared'
  <2>1. PICK i \in Ids : IsFound(r, i) /\ SetId(r, i)
    BY <1>4 DEF Find
  <2>2. pc[r] = "find" BY <1>4 DEF Find
  <2>3. \A q \in Resources : id[q] = i => q = r
    BY <1>3, <2>1, <2>2, FoundNotShared
  <2> QED BY <1>3, <2>1, <2>3, LearntNotShared DEF SetId, TypeInv, TypeOK
<1>5. ASSUME NEW r \in Resources, PostRule(r) PROVE NotShared'
  <2>1. id' = id \/ id' = [id EXCEPT ![r] = nextId]
    BY <1>5 DEF PostRule, GiveUp, SetId
  <2>2. nextId \in Ids
    BY <1>5 DEF PostRule, CarryOut, Adds, Request
  <2>3. ASSUME NEW q \in Resources, id[q] = nextId PROVE FALSE
    <3>1. TypeOK /\ Fresh BY <1>3 DEF TypeInv
    <3>2. nextId \in Nat /\ nextId # None
      BY <2>2, BoundsAssumption, NoneAssumption DEF Ids
    <3>3. id[q] < nextId BY <2>3, <3>1, <3>2 DEF Fresh
    <3> QED BY <2>3, <3>2, <3>3
  <2> QED BY <1>3, <2>1, <2>3, LearntNotShared DEF TypeInv, TypeOK
<1>6. ASSUME NEW r \in Resources, ReadRule(r) \/ DeleteRule(r) PROVE NotShared'
  <2>1. id' = id \/ id' = [id EXCEPT ![r] = None]
    BY <1>6 DEF ReadRule, DeleteRule, GiveUp, SetId
  <2> QED BY <1>3, <2>1, LearntNotShared DEF TypeInv, TypeOK
<1>7. ASSUME id' = id PROVE NotShared'
  BY <1>3, <1>7 DEF NotShared
<1>8. ASSUME NEW r \in Resources, NEW i \in Ids, Import(r, i) PROVE NotShared'
  <2>1. id' = [id EXCEPT ![r] = i] /\ \A q \in Resources : id[q] # i
    BY <1>8 DEF Import, SetId
  <2> QED BY <1>3, <2>1, LearntNotShared DEF TypeInv, TypeOK
<1> QED BY <1>1, <1>4, <1>5, <1>6, <1>7, <1>8
     DEF Step, Proceed, Create, LockTriggering, ListBefore, ListBeforeFails, PostFails,
         FindFails, Begin, Update, ReadFails, PutRule, PutRoute, PutFails, GiveUp,
         DeleteFails, Configure, ExternalAdd, ExternalRemove, CarryOutLate, vars

(***************************************************************************)
(* Two resources manage one rule only if somebody else has removed one of  *)
(* theirs or, of reservations and whatever anybody removes, if the         *)
(* configuration moves the client away from one of them: the number that a *)
(* create takes tells whose it is, by the client or because its writer     *)
(* alone can find it.                                                      *)
(***************************************************************************)
THEOREM NumbersNotShared == Spec => []IdsNotShared
<1>1. Init => SharedInv
  BY InitOwn DEF Init, SharedInv, Keyed, NotShared, SameClient
<1>2. SharedInv /\ [Next]_vars => SharedInv'
  <2>1. SharedInv => TypeInv BY DEF SharedInv, OwnInv
  <2>2. SharedInv /\ [Next]_vars => ClientsDiffer(conf)'
    BY DEF SharedInv, Next, vars, Configure, ClientsDiffer
  <2> QED BY <2>1, <2>2, NextOwn, NextKeyed, NextNotShared DEF SharedInv
<1>3. SharedInv => IdsNotShared
  BY DEF SharedInv, Quiet, Keyed, NotShared, IdsNotShared, Moved, ClientsDiffer
<1> QED BY <1>1, <1>2, <1>3, PTL DEF Spec

-----------------------------------------------------------------------------
\* The three ways a step can change the rules and the numbers in the state.
LEMMA StepShape ==
  ASSUME TypeInv, Step, kind' = kind
  PROVE  /\ strayed \subseteq strayed'
         /\ \/ \E r \in Resources : rules' = rules /\ \A q \in Resources \ {r} : id'[q] = id[q]
            \/ \E w \in Requests :
                 /\ CarryOut(w)
                 /\ \/ w \in late \/ w.at = None
                    \/ w.rule.owner \in Resources /\ w.at = id[w.rule.owner]
                 /\ \A q \in Resources \ {w.rule.owner} : id'[q] = id[q]
                 /\ w.at = None \/ \A q \in Resources : id'[q] \in {id[q], None}
            \/ \E i \in Ids : ExternalRemove(i)
            \/ \E r \in Resources, i \in Ids : Import(r, i)
<1> DEFINE Kept(r) == rules' = rules /\ \A q \in Resources \ {r} : id'[q] = id[q]
           Carried(w) == /\ CarryOut(w)
                         /\ \/ w \in late \/ w.at = None
                            \/ w.rule.owner \in Resources /\ w.at = id[w.rule.owner]
                         /\ \A q \in Resources \ {w.rule.owner} : id'[q] = id[q]
                         /\ w.at = None \/ \A q \in Resources : id'[q] \in {id[q], None}
<1> USE DEF TypeInv, TypeOK, SetId
<1>1. ASSUME NEW r \in Resources,
             \/ Create(r) \/ Update(r) \/ (\E s \in {"read", "delete"} : Begin(r, s))
             \/ LockTriggering(r) \/ ListBefore(r) \/ ListBeforeFails(r)
             \/ Find(r) \/ FindFails(r) \/ ReadRule(r) \/ ReadFails(r)
             \/ PostFails(r) \/ PutFails(r) \/ DeleteFails(r)
      PROVE  strayed' = strayed /\ Kept(r)
  BY <1>1
     DEF Create, Begin, Update, LockTriggering, ListBefore, ListBeforeFails, Find, FindFails,
         ReadRule, ReadFails, PostFails, PutFails, DeleteFails, GiveUp
<1>2. ASSUME NEW r \in Resources, PostRule(r) \/ PutRule(r) \/ PutRoute(r) \/ DeleteRule(r)
      PROVE  strayed' = strayed /\ \E w \in Requests : Carried(w)
  <2>1. PICK o \in {"post", "put", "delete"}, n \in {None, id[r]} :
          /\ CarryOut(Request(r, o, n)) /\ strayed' = strayed
          /\ UNCHANGED id \/ \E m \in Ids \union {None, nextId} :
                               id' = [id EXCEPT ![r] = m] /\ (m = None \/ n = None)
    BY <1>2 DEF PostRule, PutRule, PutRoute, DeleteRule, GiveUp
  <2> DEFINE w == Request(r, o, n)
  <2>2. w \in Requests /\ w.rule.owner = r /\ w.at = n
    BY RequestType DEF Request, Written
  <2> HIDE DEF w
  <2>3. CarryOut(w)
    BY <2>1 DEF w
  <2>4. Carried(w)
    BY <2>1, <2>2, <2>3
  <2> QED
    BY <2>1, <2>2, <2>4
<1>3. CASE ExternalAdd
  <2>1. PICK c \in Contents :
          CarryOut([op |-> "post", at |-> None, rule |-> [what |-> c, owner |-> Other]])
    BY <1>3 DEF ExternalAdd
  <2> DEFINE w == [op |-> "post", at |-> None, rule |-> [what |-> c, owner |-> Other]]
  <2>2. w \in Requests /\ w.at = None
    BY ExternalType
  <2> HIDE DEF w
  <2>3. CarryOut(w) /\ id' = id /\ strayed \subseteq strayed'
    BY <1>3, <2>1 DEF ExternalAdd, w
  <2>4. Carried(w)
    BY <2>2, <2>3
  <2> QED
    BY <2>2, <2>3, <2>4
<1>4. ASSUME NEW w \in late, CarryOutLate(w)
      PROVE  strayed \subseteq strayed' /\ w \in Requests /\ Carried(w)
  BY <1>4 DEF CarryOutLate
<1>5. ASSUME NEW i \in Ids, ExternalRemove(i) PROVE strayed \subseteq strayed'
  BY <1>5 DEF ExternalRemove
<1>6. ASSUME NEW r \in Resources, NEW i \in Ids, Import(r, i) PROVE strayed' = strayed
  BY <1>6 DEF Import
<1> QED
  BY <1>1, <1>2, <1>3, <1>4, <1>5, <1>6 DEF Step, Proceed

\* A request never puts a rule under a number that was given out before.
LEMMA NoRevival ==
  ASSUME TypeInv, NEW w \in Requests, CarryOut(w), NEW i \in Ids, i < nextId, rules[i] = None
  PROVE  rules'[i] = None
<1>1. nextId \in Nat /\ i \in Nat
  BY DEF TypeInv, TypeOK, Ids
<1> QED
  BY <1>1, CarryOutEffect DEF TypeInv

\* The contract's action of one owner, said with the variables of this module.
LEMMA OwnerActs ==
  ASSUME OwnInv', NEW o \in Resources \union {Other},
         Spoilt \subseteq Spoilt',
         Spoilt' # Ids => \A i \in Ids : \/ Owner(i)' = Owner(i)
                                         \/ {Owner(i), Owner(i)'} \subseteq {None, o},
         \A q \in Resources \ {o} : Claim(q)' = Claim(q)
  PROVE  Ownership!Next
<1>1. \A i \in Ids \ Spoilt' :
        \/ Owner(i)' = Owner(i)
        \/ {Owner(i), Owner(i)'} \subseteq {None, o}
  OBVIOUS
<1>2. \A r \in Resources : \/ Claim(r)' \in {None} \union Spoilt'
                           \/ Claim(r)' \in Ids /\ [i \in Ids |-> Owner(i)'][Claim(r)'] = r
  <2> SUFFICES ASSUME NEW r \in Resources
               PROVE  \/ Claim(r)' \in {None} \union Spoilt'
                      \/ Claim(r)' \in Ids /\ [i \in Ids |-> Owner(i)'][Claim(r)'] = r
    OBVIOUS
  <2>1. \/ Claim(r)' \in {None} \union Spoilt'
        \/ Claim(r)' \in Ids /\ rules'[Claim(r)'] # None /\ rules'[Claim(r)'].owner = r
    BY DEF OwnInv, Quiet, Owned, Claim, Spoilt, InUse
  <2> QED
    BY <2>1 DEF Owner
<1>3. Ownership!Act(o)
  BY <1>1, <1>2 DEF Ownership!Act, Ownership!Rightful
<1> QED
  BY <1>3 DEF Ownership!Next

\* The contract's disturbance, said likewise.
LEMMA Disturbed ==
  ASSUME Spoilt' = Ids, \A q \in Resources : Claim(q)' \in {Claim(q), None}
  PROVE  Ownership!Next
<1>1. Spoilt \subseteq Spoilt'
  BY DEF Spoilt
<1>2. Ownership!Disturb
  BY <1>1 DEF Ownership!Disturb
<1> QED
  BY <1>2 DEF Ownership!Next

\* A request that was carried out, in time or late, is an act of its sender.
LEMMA CarriedActs ==
  ASSUME OwnInv, OwnInv', kind' = kind, strayed \subseteq strayed',
         NEW w \in Requests, CarryOut(w),
         \/ w \in late \/ w.at = None
         \/ w.rule.owner \in Resources /\ w.at = id[w.rule.owner],
         \A q \in Resources \ {w.rule.owner} : id'[q] = id[q],
         w.at = None \/ \A q \in Resources : id'[q] \in {id[q], None}
  PROVE  Ownership!Next
<1> DEFINE o == w.rule.owner
<1>1. o \in Resources \union {Other} /\ w.rule \in Rules /\ w.rule # None
  BY NoneAssumption DEF Requests, Rules
<1>2. Spoilt \subseteq Spoilt'
  BY DEF Spoilt
<1>3. ASSUME NEW q \in Resources, id[q] # None
      PROVE  id[q] \in Ids /\ id[q] < nextId
  BY <1>3 DEF OwnInv, TypeInv, TypeOK, Fresh
<1>4. ASSUME NEW q \in Resources, id'[q] = id[q] PROVE Claim(q)' \in {Claim(q), None}
  <2>1. id[q] \in InUse' => id[q] \in InUse
    BY <1>3, NoRevival, NoneAssumption DEF OwnInv, InUse
  <2> QED
    BY <1>4, <2>1 DEF Claim
<1>5. ASSUME NEW q \in Resources, id'[q] = id[q],
             id[q] \in InUse => rules'[id[q]] # None
      PROVE  Claim(q)' = Claim(q)
  <2>1. id[q] \in InUse' <=> id[q] \in InUse
    BY <1>3, <1>5, NoRevival, NoneAssumption DEF OwnInv, InUse
  <2> QED
    BY <1>5, <2>1 DEF Claim
<1>6. CASE Spoilt' = Ids /\ w.at # None
  <2>1. ASSUME NEW q \in Resources PROVE Claim(q)' \in {Claim(q), None}
    <3>1. id'[q] = None => Claim(q)' = None
      BY DEF Claim
    <3> QED
      BY <1>4, <1>6, <3>1
  <2> QED
    BY <1>6, <2>1, Disturbed
<1>7. CASE Spoilt' = Ids /\ w.at = None
  <2>1. ASSUME NEW q \in Resources \ {o} PROVE Claim(q)' = Claim(q)
    <3>1. id[q] \in InUse => rules'[id[q]] # None
      BY <1>1, <1>7, CarryOutEffect, NoneAssumption DEF InUse, OwnInv, TypeInv
    <3> QED
      BY <1>5, <3>1
  <2> QED
    BY <1>1, <1>2, <1>7, <2>1, OwnerActs
<1>8. CASE Spoilt' # Ids
  <2>1. Quiet /\ Owned
    BY <1>8 DEF Spoilt, Quiet, OwnInv
  <2>2. OwnTarget(w)
    BY <2>1 DEF Owned, OwnTarget
  <2>3. ASSUME NEW i \in Ids
        PROVE  Owner(i)' = Owner(i) \/ {Owner(i), Owner(i)'} \subseteq {None, o}
    <3>1. \/ rules'[i] = rules[i]
          \/ rules[i] = None /\ rules'[i] = w.rule
          \/ i = w.at /\ rules[i] # None /\ rules'[i] \in {None, w.rule}
      BY CarryOutEffect DEF OwnInv, TypeInv
    <3>2. i = w.at /\ rules[i] # None => rules[i].owner = o
      BY <2>2, NoneAssumption DEF OwnTarget
    <3> QED
      BY <1>1, <3>1, <3>2 DEF Owner
  <2>4. ASSUME NEW q \in Resources \ {o} PROVE Claim(q)' = Claim(q)
    <3>1. ASSUME id[q] \in InUse PROVE rules'[id[q]] # None
      <4>1. id[q] # None /\ Owner(id[q]) = q
        BY <2>1, <3>1, NoneAssumption DEF Owned, InUse, Owner
      <4>2. Owner(id[q])' = q
        BY <2>3, <3>1, <4>1, NoneAssumption DEF InUse
      <4> QED
        BY <4>2, NoneAssumption DEF Owner
    <3> QED
      BY <1>5, <3>1
  <2> HIDE DEF o
  <2> QED
    BY <1>1, <1>2, <2>3, <2>4, OwnerActs
<1> QED
  BY <1>6, <1>7, <1>8

\* Every step is one the contract allows.
LEMMA NextOwnership ==
  OwnInv /\ OwnInv' /\ [Next]_vars => [Ownership!Next]_Ownership!ownershipVars
<1> SUFFICES ASSUME OwnInv, OwnInv', ((Step \/ Configure) /\ kind' = kind) \/ UNCHANGED vars
             PROVE  Ownership!Next \/ UNCHANGED Ownership!ownershipVars
  BY DEF Next
<1>1. CASE (Configure /\ kind' = kind) \/ UNCHANGED vars
  BY <1>1 DEF vars, Configure, Ownership!ownershipVars, Owner, Claim, InUse, Spoilt
<1> SUFFICES ASSUME Step, kind' = kind PROVE Ownership!Next
  BY <1>1
<1>2. strayed \subseteq strayed' /\ Spoilt \subseteq Spoilt'
  BY StepShape DEF OwnInv, Spoilt
<1>3. ASSUME NEW r \in Resources, rules' = rules, \A q \in Resources \ {r} : id'[q] = id[q]
      PROVE  Ownership!Next
  <2>1. \A i \in Ids : Owner(i)' = Owner(i)
    BY <1>3 DEF Owner
  <2>2. \A q \in Resources \ {r} : Claim(q)' = Claim(q)
    BY <1>3 DEF Claim, InUse
  <2> QED
    BY <1>2, <2>1, <2>2, OwnerActs
<1>4. ASSUME NEW i \in Ids, ExternalRemove(i) PROVE Ownership!Next
  <2>1. /\ rules[i] # None /\ rules' = [rules EXCEPT ![i] = None] /\ id' = id
        /\ strayed' = strayed \union {rules[i].owner}
    BY <1>4 DEF ExternalRemove, InUse
  <2>2. rules \in [Ids -> Rules \union {None}]
    BY DEF OwnInv, TypeInv, TypeOK
  <2>3. CASE Spoilt' = Ids
    <3>1. InUse' \subseteq InUse
      BY <2>1, <2>2 DEF InUse
    <3>2. \A q \in Resources : Claim(q)' \in {Claim(q), None}
      BY <2>1, <3>1 DEF Claim
    <3> QED
      BY <2>3, <3>2, Disturbed
  <2>4. CASE Spoilt' # Ids
    <3>1. Quiet /\ Owned /\ rules[i].owner = Other
      BY <1>2, <2>1, <2>4 DEF Spoilt, Quiet, OwnInv
    <3>2. \A j \in Ids : Owner(j)' = Owner(j) \/ {Owner(j), Owner(j)'} \subseteq {None, Other}
      BY <2>1, <2>2, <3>1 DEF Owner
    <3>3. ASSUME NEW q \in Resources PROVE Claim(q)' = Claim(q)
      <4>1. id[q] # i
        BY <2>1, <3>1, OwnersAssumption, NoneAssumption DEF Owned
      <4>2. id[q] \in InUse' <=> id[q] \in InUse
        BY <2>1, <2>2, <4>1 DEF InUse
      <4> QED
        BY <2>1, <4>2 DEF Claim
    <3> QED
      BY <1>2, <3>2, <3>3, OwnerActs
  <2> QED
    BY <2>3, <2>4
<1>5. ASSUME NEW r \in Resources, NEW i \in Ids, Import(r, i) PROVE Ownership!Next
  <2>1. /\ rules[i] # None /\ rules' = [rules EXCEPT ![i].owner = r]
        /\ id' = [id EXCEPT ![r] = i] /\ strayed' = strayed
        /\ \A q \in Resources : id[q] # i
    BY <1>5 DEF Import, InUse, SetId
  <2>2. rules[i] \in Rules
    BY <2>1 DEF OwnInv, TypeInv, TypeOK
  <2>3. rules'[i] \in Rules /\ rules'[i].owner = r /\ \A j \in Ids \ {i} : rules'[j] = rules[j]
    BY <2>1, <2>2 DEF OwnInv, TypeInv, TypeOK, Rules
  <2>4. InUse' = InUse /\ i \in InUse
    BY <2>1, <2>3, NoneAssumption DEF InUse
  <2>5. \A j \in Ids : Owner(j)' = IF j = i THEN r ELSE Owner(j)
    BY <2>3, NoneAssumption DEF Owner
  <2>6. \A q \in Resources : Claim(q)' = IF q = r THEN i ELSE Claim(q)
    BY <2>1, <2>4 DEF Claim, OwnInv, TypeInv, TypeOK
  <2>7. \A q \in Resources : Claim(q) # i
    BY <2>1, NoneAssumption DEF Claim
  <2>8. Spoilt' = Spoilt
    BY <2>1 DEF Spoilt
  <2>9. Ownership!Adopt(r, i)
    BY <2>5, <2>6, <2>7, <2>8 DEF Ownership!Adopt
  <2> QED
    BY <2>9 DEF Ownership!Next
<1> QED
  BY <1>3, <1>4, <1>5, StepShape, CarriedActs DEF OwnInv

(***************************************************************************)
(* Whatever the creates, updates and destroys of any number of resources   *)
(* do, with equal rules, lost answers and late requests, none changes the  *)
(* rule of another, and none has the number of another's in its state.     *)
(***************************************************************************)
THEOREM ImplementsOwnership == Spec => NumbersKeepOwners
<1>1. Init => Ownership!Init
  BY InitType DEF Init, Ownership!Init, Owner, Claim, Spoilt, InUse, TypeInv, TypeOK
<1> QED
  BY <1>1, InitOwn, NextOwn, NextOwnership, PTL DEF Spec, NumbersKeepOwners, Ownership!Spec
=============================================================================
