------------------------ MODULE WifiAccessListProofs ------------------------
(***************************************************************************)
(* Proofs about WifiAccessList, for any addresses and any size of list.    *)
(***************************************************************************)
EXTENDS WifiAccessList, FiniteSetTheorems, TLAPS

(***************************************************************************)
(* Where the SSID stands.  It is written at most twice, with what is       *)
(* wanted each time, and filtering that is turned off is written first.    *)
(***************************************************************************)
OffFirst == DisablesFirst(conf, before.accessControl)
SsidAsBefore == device.active = before.active /\ device.accessControl = before.accessControl
SsidAsWanted == device.active = Wanted.active /\ device.accessControl = Wanted.accessControl

SsidRight ==
  /\ pc # "idle" =>
       /\ outcome = "under way"
       /\ current = [active |-> Wanted.active, accessControl |-> Wanted.accessControl]
  /\ pc = "idle" => ~disableFirst /\ outcome # "under way"
  /\ pc = "disable" => OffFirst /\ ~disableFirst
  /\ pc \in {"getList", "reconcile", "getListAgain", "putList"} =>
       IF disableFirst THEN SsidAsWanted /\ OffFirst ELSE SsidAsBefore /\ ~OffFirst
  /\ pc = "putSsid" => SsidAsBefore /\ ~OffFirst
  /\ pc = "refresh" => SsidAsWanted

(***************************************************************************)
(* Where the list stands outside reconcileACRules.                         *)
(***************************************************************************)
RulesAsWanted ==
  /\ Registered(device.rules) = Wanted.macs
  /\ conf.access_control_rules # Unset => HeldOnce(device.rules)

ListRight ==
  /\ pc \in {"disable", "destroy"} => device = before
  /\ pc = "destroy" => conf.access_control_allow = Unset /\ conf.access_control_rules = Unset
  /\ pc = "getList" => device.rules = before.rules /\ ListManaged(conf)
  /\ pc \in {"getList", "reconcile", "getListAgain", "putList"} => device.allow = before.allow
  /\ pc \in {"getListAgain", "putList"} => conf.access_control_allow # Unset
  /\ pc = "reconcile" => ac.active = device.accessControl /\ conf.access_control_rules # Unset
  /\ pc = "putList" => ac = GetList
  /\ pc \in {"putSsid", "refresh"} => device.allow = Wanted.allow
  /\ pc \in {"getListAgain", "putList", "putSsid", "refresh"} => RulesAsWanted

(***************************************************************************)
(* Inside it: the rules that are not extra hold each address that is       *)
(* wanted and not missing, once, and each kept address under an old id.    *)
(***************************************************************************)
Partial(rules, e, m) ==
  /\ e \subseteq Used(rules)
  /\ \A i \in e : rules[i] = before.rules[i]
  /\ m \subseteq conf.access_control_rules
  /\ {rules[i] : i \in Used(rules) \ e} = conf.access_control_rules \ m
  /\ \A i, j \in Used(rules) \ e : rules[i] = rules[j] => i = j
  /\ \A mac \in Registered(before.rules) \intersect conf.access_control_rules :
       \E i \in Used(rules) \ e : before.rules[i] = mac /\ rules[i] = mac

ReconcileRight == pc = "reconcile" => Partial(device.rules, extra, missing)

(***************************************************************************)
(* What holds at any moment, also after the apply has stopped half-way.    *)
(***************************************************************************)
Within ==
  /\ device.allow \in {before.allow, Wanted.allow}
  /\ Registered(before.rules) \intersect Wanted.macs \subseteq Registered(device.rules)
  /\ Registered(device.rules) \subseteq Registered(before.rules) \union Wanted.macs

Filters ==
  device.accessControl =>
    \/ before.accessControl /\ Wanted.accessControl
    \/ /\ Wanted.accessControl
       /\ device.allow = Wanted.allow /\ Registered(device.rules) = Wanted.macs
    \/ /\ before.accessControl
       /\ device.allow = before.allow /\ Registered(device.rules) = Registered(before.rules)

Settled == Holds(before) => device = before /\ pc # "reconcile"

UnderWay == SsidRight /\ ListRight /\ ReconcileRight
Always == Within /\ Filters /\ KeptRulesSurvive /\ Settled /\ SuccessMeansConfigured

Inv == TypeOK /\ UnderWay /\ Always

-----------------------------------------------------------------------------
\* Both attributes and lists are written whole, so a step keeps their types.
Wants ==
  /\ Wanted.active \in BOOLEAN /\ Wanted.accessControl \in BOOLEAN /\ Wanted.allow \in BOOLEAN
  /\ Wanted.macs \subseteq Macs

LEMMA RegisteredType ==
  ASSUME NEW rules \in Lists
  PROVE  Registered(rules) \subseteq Macs /\ Used(rules) \subseteq Ids
BY DEF Registered, Used, Lists

LEMMA WantedType == TypeOK => Wants
<1> SUFFICES ASSUME TypeOK PROVE Wants
  OBVIOUS
<1>1. Registered(before.rules) \subseteq Macs
  BY RegisteredType DEF TypeOK, Devices
<1> QED
  BY <1>1 DEF Wants, Wanted, Value, TypeOK, Configurations, Devices

LEMMA FileType ==
  /\ NoSsid \in Ssids
  /\ NoList \in AccessControls
  /\ NoChange \in Configurations
  /\ [NoChange EXCEPT !.active = FALSE] \in Configurations
<1>1. NoSsid \in Ssids
  BY DEF NoSsid, Ssids
<1>2. [i \in Ids |-> None] \in Lists
  BY DEF Lists
<1>3. NoList \in AccessControls
  BY <1>2 DEF NoList, AccessControls
<1>4. NoChange \in Configurations /\ [NoChange EXCEPT !.active = FALSE] \in Configurations
  BY DEF NoChange, Configurations
<1> QED
  BY <1>1, <1>3, <1>4

\* What the device becomes.
LEMMA DeviceType ==
  ASSUME Inv, [Next]_vars
  PROVE  device' \in Devices
<1> USE DEF Inv, TypeOK, Devices
<1>1. ASSUME NEW c \in Configurations, Apply(c) PROVE device' = device
  BY <1>1 DEF Apply, Begin
<1>2. CASE Destroy \/ ReadList \/ ListFull \/ ReadListAgain \/ Refresh \/ RequestFails \/ UNCHANGED vars
  BY <1>2 DEF Destroy, Begin, ReadList, ListFull, ReadListAgain, Refresh, RequestFails, vars
<1>3. CASE DisableFirst \/ WriteSsid \/ DisableSsid
  BY <1>3 DEF DisableFirst, WriteSsid, DisableSsid, PutSsid, Ssids
<1>4. ASSUME NEW mac \in Macs, AddRule(mac) PROVE device' \in Devices
  <2>1. PICK i \in Ids \ Used(device.rules) : device' = [device EXCEPT !.rules[i] = mac]
    BY <1>4 DEF AddRule, PostRule
  <2>2. [device.rules EXCEPT ![i] = mac] \in Lists
    BY DEF Lists
  <2> QED
    BY <2>1, <2>2
<1>5. ASSUME NEW i \in Ids, RemoveRule(i) PROVE device' \in Devices
  <2>1. device' = [device EXCEPT !.rules[i] = None]
    BY <1>5 DEF RemoveRule, RemoveRuleAt
  <2>2. [device.rules EXCEPT ![i] = None] \in Lists
    BY DEF Lists
  <2> QED
    BY <2>1, <2>2
<1>6. CASE WriteList
  <2>1. conf.access_control_allow \in BOOLEAN
    BY <1>6 DEF WriteList, UnderWay, ListRight, Configurations
  <2>2. device' = [device EXCEPT !.accessControl = ac.active,
                                 !.allow = conf.access_control_allow, !.rules = ac.rules]
    BY <1>6 DEF WriteList, PutList, AccessControls
  <2> QED
    BY <2>1, <2>2 DEF AccessControls
<1> QED
  BY <1>1, <1>2, <1>3, <1>4, <1>5, <1>6 DEF Next

LEMMA LocalType ==
  ASSUME Inv, Next
  PROVE  /\ before' \in Devices /\ conf' \in Configurations
         /\ current' \in Ssids /\ ac' \in AccessControls
         /\ extra' \subseteq Ids /\ missing' \subseteq Macs
<1>1. GetList \in AccessControls
  BY DEF GetList, AccessControls, Inv, TypeOK, Devices
<1>2. Used(device.rules) \subseteq Ids
  BY DEF Used
<1> USE <1>1, <1>2, FileType DEF Inv, TypeOK, GiveUp, Stop, Forget, Answered, Reconciled
<1>3. ASSUME NEW c \in Configurations, Apply(c)
      PROVE  /\ current' \in Ssids
             /\ before' = device /\ conf' = c /\ UNCHANGED <<ac, extra, missing>>
  <2>1. /\ Value(c.active, device.active) \in BOOLEAN
        /\ Value(c.access_control, device.accessControl) \in BOOLEAN
    BY DEF Value, Configurations, Devices
  <2> QED
    BY <1>3, <2>1 DEF Apply, Begin, Ssids
<1>4. CASE Destroy
  BY <1>4 DEF Destroy, Begin, Ssids, Devices
<1>5. CASE DisableFirst \/ ListFull \/ WriteList \/ WriteSsid \/ DisableSsid \/ Refresh \/ RequestFails
  BY <1>5 DEF DisableFirst, ListFull, WriteList, WriteSsid, DisableSsid, Refresh, RequestFails
<1>6. CASE ReadList
  <2>1. conf.access_control_rules = Unset \/ conf.access_control_rules \subseteq Macs
    BY DEF Configurations
  <2> QED
    BY <1>6, <2>1 DEF ReadList
<1>7. CASE ReadListAgain
  BY <1>7 DEF ReadListAgain
<1>8. ASSUME NEW mac \in Macs, AddRule(mac)
      PROVE  /\ UNCHANGED <<before, conf>>
             /\ current' \in Ssids /\ ac' \in AccessControls
             /\ extra' \subseteq Ids /\ missing' \subseteq Macs
  BY <1>8 DEF AddRule
<1>9. ASSUME NEW i \in Ids, RemoveRule(i)
      PROVE  /\ UNCHANGED <<before, conf>>
             /\ current' \in Ssids /\ ac' \in AccessControls
             /\ extra' \subseteq Ids /\ missing' \subseteq Macs
  BY <1>9 DEF RemoveRule
<1> QED
  BY <1>3, <1>4, <1>5, <1>6, <1>7, <1>8, <1>9 DEF Next

LEMMA ControlType ==
  ASSUME Inv, Next
  PROVE  /\ pc' \in {"idle", "disable", "getList", "reconcile", "getListAgain", "putList",
                     "putSsid", "refresh", "destroy"}
         /\ disableFirst' \in BOOLEAN
         /\ outcome' \in {"none", "under way", "applied", "failed", "full"}
<1> USE DEF Inv, TypeOK, GiveUp, Stop, Forget, Answered, Reconciled, AfterRules, AfterList
<1>1. ASSUME NEW c \in Configurations, Apply(c)
      PROVE  /\ pc' \in {"disable", "getList", "putSsid"} /\ outcome' = "under way"
             /\ disableFirst' = disableFirst
  BY <1>1 DEF Apply, Begin
<1>2. CASE Destroy
  BY <1>2 DEF Destroy, Begin
<1>3. CASE DisableFirst \/ ListFull \/ WriteList \/ WriteSsid \/ DisableSsid \/ Refresh \/ RequestFails
  BY <1>3 DEF DisableFirst, ListFull, WriteList, WriteSsid, DisableSsid, Refresh, RequestFails
<1>4. CASE ReadList \/ ReadListAgain
  BY <1>4 DEF ReadList, ReadListAgain
<1>5. ASSUME NEW mac \in Macs, AddRule(mac)
      PROVE  /\ pc' \in {"idle", "reconcile", "getListAgain", "putSsid", "refresh"}
             /\ disableFirst' \in {disableFirst, FALSE} /\ outcome' \in {outcome, "failed"}
  BY <1>5 DEF AddRule
<1>6. ASSUME NEW i \in Ids, RemoveRule(i)
      PROVE  /\ pc' \in {"idle", "reconcile", "getListAgain", "putSsid", "refresh"}
             /\ disableFirst' \in {disableFirst, FALSE} /\ outcome' \in {outcome, "failed"}
  BY <1>6 DEF RemoveRule
<1> QED
  BY <1>1, <1>2, <1>3, <1>4, <1>5, <1>6 DEF Next

LEMMA NextType == Inv /\ [Next]_vars => TypeOK'
<1> SUFFICES ASSUME Inv, [Next]_vars PROVE TypeOK'
  OBVIOUS
<1>1. CASE Next
  BY <1>1, DeviceType, LocalType, ControlType DEF TypeOK
<1>2. CASE UNCHANGED vars
  BY <1>2 DEF vars, Inv, TypeOK
<1> QED
  BY <1>1, <1>2

-----------------------------------------------------------------------------
\* What an operation begins with, and what stays until it ends.
LEMMA Beginning ==
  ASSUME Inv, (\E c \in Configurations : Apply(c)) \/ Destroy
  PROVE  /\ UNCHANGED <<device, disableFirst, ac, extra, missing>> /\ ~disableFirst'
         /\ before' = device /\ pc = "idle" /\ outcome' = "under way"
         /\ current' = [active |-> Wanted.active, accessControl |-> Wanted.accessControl]'
         /\ pc' \in {"disable", "getList", "putSsid", "destroy"}
         /\ pc' = "disable" <=> OffFirst' /\ pc' # "destroy"
         /\ pc' = "getList" => ListManaged(conf')
         /\ pc' = "putSsid" => ~ListManaged(conf')
         /\ pc' = "destroy" => ~ListManaged(conf')
<1>1. ~disableFirst
  BY DEF Inv, UnderWay, SsidRight, Apply, Destroy, Begin
<1>2. ASSUME NEW c \in Configurations, Apply(c)
      PROVE  /\ UNCHANGED <<device, disableFirst, ac, extra, missing>>
             /\ before' = device /\ pc = "idle" /\ outcome' = "under way" /\ conf' = c
             /\ current' = [active |-> Value(c.active, device.active),
                            accessControl |-> Value(c.access_control, device.accessControl)]
             /\ pc' = IF DisablesFirst(c, device.accessControl) THEN "disable"
                      ELSE IF ListManaged(c) THEN "getList" ELSE "putSsid"
  BY <1>2 DEF Apply, Begin
<1>3. ASSUME Destroy
      PROVE  /\ UNCHANGED <<device, disableFirst, ac, extra, missing>>
             /\ before' = device /\ pc = "idle" /\ outcome' = "under way"
             /\ conf' = [NoChange EXCEPT !.active = FALSE] /\ pc' = "destroy"
             /\ current' = [active |-> FALSE, accessControl |-> device.accessControl]
  BY <1>3 DEF Destroy, Begin
<1>4. CASE Destroy
  <2>1. /\ conf'.active = FALSE /\ conf'.access_control = Unset
        /\ conf'.access_control_allow = Unset /\ conf'.access_control_rules = Unset
    BY <1>3, <1>4 DEF NoChange
  <2>2. FALSE # Unset
    BY UnsetAssumption
  <2>3. Wanted'.active = FALSE /\ Wanted'.accessControl = device.accessControl
    BY <1>3, <1>4, <2>1, <2>2 DEF Wanted, Value
  <2>4. ~ListManaged(conf')
    BY <2>1 DEF ListManaged
  <2>5. current' = [active |-> Wanted.active, accessControl |-> Wanted.accessControl]'
    BY <1>3, <1>4, <2>3
  <2>6. ~disableFirst'
    BY <1>1, <1>3, <1>4, Zenon
  <2>7. UNCHANGED <<device, disableFirst, ac, extra, missing>> /\ before' = device /\ pc = "idle" /\ outcome' = "under way"
    BY <1>3, <1>4, Zenon
  <2>8. pc' = "destroy"
    BY <1>3, <1>4
  <2> QED
    BY <2>4, <2>5, <2>6, <2>7, <2>8
<1>5. CASE \E c \in Configurations : Apply(c)
  <2>1. PICK c \in Configurations : Apply(c)
    BY <1>5
  <2> QED
    BY <1>1, <1>2, <2>1 DEF Wanted, OffFirst
<1> QED
  BY <1>4, <1>5

LEMMA GoingOn ==
  ASSUME Next, ~(\E c \in Configurations : Apply(c)), ~Destroy
  PROVE  /\ UNCHANGED <<before, conf>> /\ Wanted' = Wanted /\ OffFirst' = OffFirst
         /\ (ListManaged(conf))' = ListManaged(conf)
<1>1. UNCHANGED <<before, conf>>
  BY DEF Next, DisableFirst, ReadList, AddRule, RemoveRule, ListFull, ReadListAgain, WriteList,
         WriteSsid, DisableSsid, Refresh, RequestFails, GiveUp, Stop, Answered, Reconciled
<1> QED
  BY <1>1 DEF Wanted, OffFirst, ListManaged

\* What a write leaves of the SSID and of the list.
LEMMA SsidWritten ==
  ASSUME Inv, pc \in {"disable", "putSsid", "destroy"}, PutSsid(current)
  PROVE  /\ device'.active = Wanted.active /\ device'.accessControl = Wanted.accessControl
         /\ device'.allow = device.allow /\ device'.rules = device.rules
<1>1. /\ device'.active = current.active /\ device'.accessControl = current.accessControl
      /\ device'.allow = device.allow /\ device'.rules = device.rules
  BY DEF PutSsid, Inv, TypeOK, Devices
<1>2. current = [active |-> Wanted.active, accessControl |-> Wanted.accessControl]
  BY DEF Inv, UnderWay, SsidRight
<1> QED
  BY <1>1, <1>2

LEMMA ListWritten ==
  ASSUME Inv, WriteList
  PROVE  /\ device'.active = device.active /\ device'.accessControl = device.accessControl
         /\ device'.allow = Wanted.allow /\ device'.rules = device.rules
<1>1. /\ device'.active = device.active /\ device'.accessControl = ac.active
      /\ device'.allow = conf.access_control_allow /\ device'.rules = ac.rules
  BY DEF WriteList, PutList, AccessControls, Inv, TypeOK, Devices
<1>2. ac = GetList /\ conf.access_control_allow # Unset
  BY DEF WriteList, Inv, UnderWay, ListRight
<1>3. Wanted.allow = conf.access_control_allow
  BY <1>2 DEF Wanted, Value
<1> QED
  BY <1>1, <1>2, <1>3 DEF GetList

LEMMA RuleWritten ==
  ASSUME Inv, NEW i \in Ids, NEW mac, device' = [device EXCEPT !.rules[i] = mac]
  PROVE  /\ device'.active = device.active /\ device'.accessControl = device.accessControl
         /\ device'.allow = device.allow /\ device'.rules = [device.rules EXCEPT ![i] = mac]
BY DEF Inv, TypeOK, Devices

LEMMA NextSsid == Inv /\ Next => SsidRight'
<1> SUFFICES ASSUME Inv, Next PROVE SsidRight'
  OBVIOUS
<1>1. CASE (\E c \in Configurations : Apply(c)) \/ Destroy
  BY <1>1, Beginning DEF SsidRight, SsidAsBefore, SsidAsWanted
<1>2. ASSUME ~(\E c \in Configurations : Apply(c)), ~Destroy PROVE SsidRight'
  <2>1. /\ UNCHANGED <<before, conf>> /\ Wanted' = Wanted /\ OffFirst' = OffFirst
        /\ SsidRight /\ ListRight
    BY <1>2, GoingOn DEF Inv, UnderWay
  <2>2. ASSUME GiveUp("failed") \/ GiveUp("full") \/ GiveUp("applied") PROVE SsidRight'
    BY <2>2 DEF GiveUp, Stop, Forget, SsidRight
  <2> USE <2>1, <2>2 DEF SsidRight, SsidAsBefore, SsidAsWanted
  <2>3. CASE DisableFirst
    <3>1. /\ device'.active = Wanted.active /\ device'.accessControl = Wanted.accessControl
          /\ OffFirst
      BY <2>3, SsidWritten DEF DisableFirst
    <3>2. CASE GiveUp("failed")
      BY <3>2
    <3>3. CASE ~GiveUp("failed")
      <4>1. disableFirst' = TRUE /\ pc' \in {"getList", "refresh"} /\ UNCHANGED <<outcome, current>>
        BY <2>3, <3>3 DEF DisableFirst
      <4> QED
        BY <2>3, <3>1, <4>1 DEF DisableFirst
    <3> QED
      BY <3>2, <3>3
  <2>4. CASE ReadList
    BY <2>4 DEF ReadList, AfterRules, AfterList
  <2>5. ASSUME NEW e, NEW m, Reconciled(e, m), pc = "reconcile",
               device'.active = device.active, device'.accessControl = device.accessControl
        PROVE  SsidRight'
    BY <2>5 DEF Reconciled, AfterRules, AfterList
  <2>6. ASSUME NEW mac \in Macs, AddRule(mac) PROVE SsidRight'
    BY <2>5, <2>6, RuleWritten DEF AddRule, MayAdd, PostRule
  <2>7. ASSUME NEW i \in Ids, RemoveRule(i) PROVE SsidRight'
    BY <2>5, <2>7, RuleWritten DEF RemoveRule, RemoveRuleAt
  <2>8. CASE ReadListAgain
    BY <2>8 DEF ReadListAgain
  <2>9. CASE WriteList
    <3>1. /\ device'.active = device.active /\ device'.accessControl = device.accessControl
          /\ pc = "putList"
      BY <2>9, ListWritten DEF WriteList
    <3>2. CASE ~GiveUp("failed")
      <4>1. UNCHANGED <<disableFirst, outcome, current>> /\ pc' = AfterList
        BY <2>9, <3>2 DEF WriteList, Answered
      <4> QED
        BY <3>1, <4>1 DEF AfterList
    <3> QED
      BY <3>2
  <2>10. CASE WriteSsid
    <3>1. device'.active = Wanted.active /\ device'.accessControl = Wanted.accessControl
      BY <2>10, SsidWritten DEF WriteSsid
    <3>2. CASE ~GiveUp("failed")
      BY <2>10, <3>1, <3>2 DEF WriteSsid, Answered
    <3> QED
      BY <3>2
  <2>11. CASE ListFull \/ DisableSsid \/ Refresh \/ RequestFails
    BY <2>11 DEF ListFull, DisableSsid, Refresh, RequestFails
  <2> QED
    BY <1>2, <2>3, <2>4, <2>6, <2>7, <2>8, <2>9, <2>10, <2>11 DEF Next
<1> QED
  BY <1>1, <1>2

-----------------------------------------------------------------------------
\* Reconciling begins with the rules as they are,
LEMMA PartialFirst ==
  ASSUME NEW keep, Keeps(keep, before.rules, conf.access_control_rules)
  PROVE  Partial(before.rules, Used(before.rules) \ keep,
                 conf.access_control_rules \ Registered(before.rules))
<1> DEFINE r == before.rules
           M == conf.access_control_rules
           e == Used(r) \ keep
<1>1. Used(r) \ e = keep
  BY DEF Keeps
<1>2. {r[i] : i \in keep} = M \intersect Registered(r)
  BY DEF Keeps
<1>3. {r[i] : i \in Used(r) \ e} = M \ (M \ Registered(r))
  BY <1>1, <1>2
<1>4. \A mac \in Registered(r) \intersect M : \E i \in keep : r[i] = mac
  BY <1>2
<1>5. \A i, j \in keep : r[i] = r[j] => i = j
  BY DEF Keeps
<1> QED
  BY <1>1, <1>3, <1>4, <1>5 DEF Partial

\* goes on with an address under a free id,
LEMMA PartialAdd ==
  ASSUME TypeOK, NEW r \in Lists, NEW e, NEW m, Partial(r, e, m),
         NEW mac \in m, mac \in Macs, NEW i \in Ids, i \notin Used(r)
  PROVE  Partial([r EXCEPT ![i] = mac], e, m \ {mac})
<1> DEFINE q == [r EXCEPT ![i] = mac]
           M == conf.access_control_rules
<1>1. mac # None /\ mac \in M
  BY NoneAssumption DEF Partial
<1>2. q[i] = mac /\ (\A j \in Ids \ {i} : q[j] = r[j])
  BY DEF Lists
<1>3. Used(q) = Used(r) \union {i} /\ i \notin e /\ Used(r) \subseteq Ids
  BY <1>1, <1>2 DEF Used, Partial
<1>4. \A j \in Used(r) : q[j] = r[j]
  BY <1>2, <1>3
<1> HIDE DEF q
<1>5. Used(q) \ e = (Used(r) \ e) \union {i}
  BY <1>3
<1>6. {q[j] : j \in Used(q) \ e} = {r[j] : j \in Used(r) \ e} \union {mac}
  BY <1>2, <1>4, <1>5
<1>7. mac \notin {r[j] : j \in Used(r) \ e}
  BY DEF Partial
<1>8. \A j, k \in Used(q) \ e : q[j] = q[k] => j = k
  BY <1>2, <1>4, <1>5, <1>7 DEF Partial
<1>9. {q[j] : j \in Used(q) \ e} = M \ (m \ {mac})
  BY <1>1, <1>6 DEF Partial
<1>10. e \subseteq Used(q) /\ (\A j \in e : q[j] = before.rules[j])
  BY <1>3, <1>4 DEF Partial
<1>11. \A x \in Registered(before.rules) \intersect M :
         \E j \in Used(q) \ e : before.rules[j] = x /\ q[j] = x
  BY <1>4, <1>5 DEF Partial
<1> QED
  BY <1>8, <1>9, <1>10, <1>11 DEF Partial, q

\* or without one of the extra rules,
LEMMA PartialRemove ==
  ASSUME NEW r \in Lists, NEW e, NEW m, Partial(r, e, m), NEW i \in e
  PROVE  Partial([r EXCEPT ![i] = None], e \ {i}, m)
<1> DEFINE q == [r EXCEPT ![i] = None]
           M == conf.access_control_rules
<1>1. i \in Ids /\ i \in Used(r)
  BY DEF Partial, Used
<1>2. q[i] = None /\ (\A j \in Ids \ {i} : q[j] = r[j])
  BY <1>1 DEF Lists
<1>3. Used(q) = Used(r) \ {i}
  BY <1>1, <1>2 DEF Used
<1>4. \A j \in Used(q) : q[j] = r[j]
  BY <1>2, <1>3 DEF Used
<1> HIDE DEF q
<1>5. Used(q) \ (e \ {i}) = Used(r) \ e
  BY <1>3
<1>6. \A j \in Used(r) \ e : q[j] = r[j]
  BY <1>4, <1>5
<1>7. {q[j] : j \in Used(q) \ (e \ {i})} = {r[j] : j \in Used(r) \ e}
  BY <1>5, <1>6
<1>8. e \ {i} \subseteq Used(q) /\ (\A j \in e \ {i} : q[j] = before.rules[j])
  BY <1>3, <1>4 DEF Partial
<1>9. \A j, k \in Used(q) \ (e \ {i}) : q[j] = q[k] => j = k
  BY <1>5, <1>6 DEF Partial
<1>10. \A x \in Registered(before.rules) \intersect M :
         \E j \in Used(q) \ (e \ {i}) : before.rules[j] = x /\ q[j] = x
  BY <1>5, <1>6 DEF Partial
<1> QED
  BY <1>7, <1>8, <1>9, <1>10 DEF Partial, q

\* and ends with the addresses that are wanted, each once.
LEMMA PartialDone ==
  ASSUME NEW r, Partial(r, {}, {})
  PROVE  Registered(r) = conf.access_control_rules /\ HeldOnce(r)
BY DEF Partial, Registered, HeldOnce

\* All the time it keeps what is wanted already, and adds nothing else.
LEMMA PartialWithin ==
  ASSUME NEW r, NEW e, NEW m, Partial(r, e, m)
  PROVE  /\ Registered(before.rules) \intersect conf.access_control_rules \subseteq Registered(r)
         /\ Registered(r) \subseteq Registered(before.rules) \union conf.access_control_rules
         /\ \A mac \in Registered(before.rules) \intersect conf.access_control_rules :
              \E i \in Ids : before.rules[i] = mac /\ r[i] = mac
<1>1. Used(r) \subseteq Ids /\ e \subseteq Used(r)
  BY DEF Used, Partial
<1>2. ASSUME NEW mac \in Registered(before.rules) \intersect conf.access_control_rules
      PROVE  \E i \in Used(r) : before.rules[i] = mac /\ r[i] = mac
  BY DEF Partial
<1>3. ASSUME NEW i \in Used(r)
      PROVE  r[i] \in Registered(before.rules) \union conf.access_control_rules
  <2>1. CASE i \in e
    <3>1. r[i] = before.rules[i] /\ r[i] # None /\ i \in Ids
      BY <2>1 DEF Partial, Used
    <3> QED
      BY <3>1 DEF Registered, Used
  <2>2. CASE i \notin e
    BY <2>2 DEF Partial
  <2> QED
    BY <2>1, <2>2
<1>4. Registered(r) \subseteq Registered(before.rules) \union conf.access_control_rules
  BY <1>3 DEF Registered
<1>5. Registered(before.rules) \intersect conf.access_control_rules \subseteq Registered(r)
  BY <1>2 DEF Registered
<1> QED
  BY <1>1, <1>2, <1>4, <1>5

\* What the steps of reconcileACRules make of the rules.
LEMMA RuleAdded ==
  ASSUME Inv, NEW mac \in Macs, AddRule(mac)
  PROVE  /\ Partial(device'.rules, extra, missing \ {mac}) /\ pc = "reconcile"
         /\ device'.active = device.active /\ device'.accessControl = device.accessControl
         /\ device'.allow = device.allow
<1>1. PICK i \in Ids \ Used(device.rules) : device' = [device EXCEPT !.rules[i] = mac]
  BY DEF AddRule, PostRule
<1>2. /\ device'.active = device.active /\ device'.accessControl = device.accessControl
      /\ device'.allow = device.allow /\ device'.rules = [device.rules EXCEPT ![i] = mac]
  BY <1>1, RuleWritten
<1>3. Partial(device.rules, extra, missing) /\ pc = "reconcile" /\ mac \in missing
  BY DEF AddRule, MayAdd, Inv, UnderWay, ReconcileRight
<1>4. device.rules \in Lists /\ TypeOK
  BY DEF Inv, TypeOK, Devices
<1> QED
  BY <1>1, <1>2, <1>3, <1>4, PartialAdd

LEMMA RuleRemoved ==
  ASSUME Inv, NEW i \in Ids, RemoveRule(i)
  PROVE  /\ Partial(device'.rules, extra \ {i}, missing) /\ pc = "reconcile"
         /\ device'.active = device.active /\ device'.accessControl = device.accessControl
         /\ device'.allow = device.allow
<1>1. device' = [device EXCEPT !.rules[i] = None]
  BY DEF RemoveRule, RemoveRuleAt
<1>2. /\ device'.active = device.active /\ device'.accessControl = device.accessControl
      /\ device'.allow = device.allow /\ device'.rules = [device.rules EXCEPT ![i] = None]
  BY <1>1, RuleWritten
<1>3. Partial(device.rules, extra, missing) /\ pc = "reconcile" /\ i \in extra
  BY DEF RemoveRule, Inv, UnderWay, ReconcileRight
<1>4. device.rules \in Lists
  BY DEF Inv, TypeOK, Devices
<1> QED
  BY <1>2, <1>3, <1>4, PartialRemove

\* What reading the list leads to, if the addresses are configured.
LEMMA ListRead ==
  ASSUME Inv, ReadList, conf.access_control_rules # Unset
  PROVE  /\ Partial(device.rules, extra', missing')
         /\ pc' = IF extra' = {} /\ missing' = {} THEN AfterRules ELSE "reconcile"
<1>1. device.rules = before.rules
  BY DEF ReadList, Inv, UnderWay, ListRight
<1>2. PICK keep \in SUBSET Ids :
        /\ Keeps(keep, device.rules, conf.access_control_rules)
        /\ extra' = Used(device.rules) \ keep
        /\ missing' = conf.access_control_rules \ Registered(device.rules)
        /\ pc' = IF extra' = {} /\ missing' = {} THEN AfterRules ELSE "reconcile"
  BY DEF ReadList
<1> QED
  BY <1>1, <1>2, PartialFirst

LEMMA NextReconcile == Inv /\ Next => ReconcileRight'
<1> SUFFICES ASSUME Inv, Next, pc' = "reconcile" PROVE Partial(device.rules, extra, missing)'
  BY DEF ReconcileRight
<1>1. ~(\E c \in Configurations : Apply(c)) /\ ~Destroy
  BY Beginning
<1>2. UNCHANGED <<before, conf>>
  BY <1>1, GoingOn
<1>3. ASSUME Partial(device'.rules, extra', missing') PROVE Partial(device.rules, extra, missing)'
  BY <1>2, <1>3 DEF Partial
<1>4. ~(GiveUp("failed") \/ GiveUp("full") \/ GiveUp("applied"))
  BY DEF GiveUp, Stop
<1>5. CASE ReadList
  <2>1. device' = device /\ conf.access_control_rules # Unset
    BY <1>5 DEF ReadList
  <2> QED
    BY <1>3, <1>5, <2>1, ListRead
<1>6. ASSUME NEW mac \in Macs, AddRule(mac) PROVE Partial(device.rules, extra, missing)'
  <2>1. extra' = extra /\ missing' = missing \ {mac}
    BY <1>4, <1>6 DEF AddRule, Reconciled
  <2> QED
    BY <1>3, <1>6, <2>1, RuleAdded
<1>7. ASSUME NEW i \in Ids, RemoveRule(i) PROVE Partial(device.rules, extra, missing)'
  <2>1. extra' = extra \ {i} /\ missing' = missing
    BY <1>4, <1>7 DEF RemoveRule, Reconciled
  <2> QED
    BY <1>3, <1>7, <2>1, RuleRemoved
<1>8. ~(ListFull \/ DisableSsid \/ Refresh \/ RequestFails \/ ReadListAgain \/ DisableFirst \/ WriteList \/ WriteSsid)
  BY <1>4 DEF ListFull, DisableSsid, Refresh, RequestFails, ReadListAgain, DisableFirst,
              WriteList, WriteSsid, Answered, AfterList
<1> QED
  BY <1>1, <1>5, <1>6, <1>7, <1>8 DEF Next

LEMMA NextList == Inv /\ Next => ListRight'
<1> SUFFICES ASSUME Inv, Next PROVE ListRight'
  OBVIOUS
<1>1. CASE (\E c \in Configurations : Apply(c)) \/ Destroy
  <2>1. /\ device' = device /\ before' = device /\ pc' \in {"disable", "getList", "putSsid", "destroy"}
        /\ pc' = "getList" => ListManaged(conf')
        /\ pc' \in {"putSsid", "destroy"} => ~ListManaged(conf')
    BY <1>1, Beginning
  <2>2. ASSUME ~ListManaged(conf')
        PROVE  /\ conf'.access_control_allow = Unset /\ conf'.access_control_rules = Unset
               /\ (device.allow = Wanted.allow /\ RulesAsWanted)'
    BY <2>1, <2>2 DEF ListManaged, Wanted, Value, RulesAsWanted
  <2>3. (ListManaged(conf))' = ListManaged(conf')
    BY DEF ListManaged
  <2> QED
    BY <2>1, <2>2, <2>3 DEF ListRight
<1>2. ASSUME ~(\E c \in Configurations : Apply(c)), ~Destroy PROVE ListRight'
  <2>1. /\ UNCHANGED <<before, conf>> /\ Wanted' = Wanted
        /\ (ListManaged(conf))' = ListManaged(conf)
        /\ SsidRight /\ ListRight
    BY <1>2, GoingOn DEF Inv, UnderWay
  <2>2. ASSUME GiveUp("failed") \/ GiveUp("full") \/ GiveUp("applied") PROVE ListRight'
    BY <2>2 DEF GiveUp, Stop, ListRight
  <2>3. conf.access_control_allow = Unset => Wanted.allow = before.allow
    BY DEF Wanted, Value
  <2>4. conf.access_control_rules = Unset => Wanted.macs = Registered(before.rules)
    BY DEF Wanted, Value
  <2>5. conf.access_control_rules # Unset => Wanted.macs = conf.access_control_rules
    BY DEF Wanted, Value
  \* From the last of the rules on.
  <2>6. ASSUME Partial(device'.rules, {}, {}), conf.access_control_rules # Unset,
               pc' = AfterRules, device'.allow = before.allow
        PROVE  ListRight'
    <3>1. Registered(device'.rules) = Wanted.macs /\ HeldOnce(device'.rules)
      BY <2>5, <2>6, PartialDone
    <3>2. RulesAsWanted'
      BY <2>1, <3>1 DEF RulesAsWanted, HeldOnce
    <3>3. \/ pc' = "getListAgain" /\ conf.access_control_allow # Unset
          \/ pc' \in {"putSsid", "refresh"} /\ conf.access_control_allow = Unset
      BY <2>6 DEF AfterRules, AfterList
    <3> QED
      BY <2>1, <2>3, <2>6, <3>2, <3>3 DEF ListRight
  <2>7. CASE DisableFirst
    <3>1. device'.allow = before.allow /\ device'.rules = before.rules
      BY <2>1, <2>7, SsidWritten DEF DisableFirst, ListRight
    <3>2. CASE GiveUp("failed")
      BY <2>2, <3>2
    <3>3. CASE ~GiveUp("failed")
      <4>1. pc' = IF ListManaged(conf) THEN "getList" ELSE "refresh"
        BY <2>7, <3>3 DEF DisableFirst
      <4>2. ~ListManaged(conf) =>
              conf.access_control_allow = Unset /\ conf.access_control_rules = Unset
        BY DEF ListManaged
      <4>3. pc' = "refresh" => RulesAsWanted' /\ device'.allow = Wanted.allow
        BY <2>1, <2>3, <2>4, <3>1, <4>1, <4>2 DEF RulesAsWanted
      <4> QED
        BY <2>1, <3>1, <4>1, <4>3 DEF ListRight
    <3> QED
      BY <3>2, <3>3
  <2>8. CASE ReadList
    <3>1. /\ device' = device /\ ac' = GetList /\ pc = "getList"
          /\ device.allow = before.allow /\ device.rules = before.rules /\ ListManaged(conf)
      BY <2>1, <2>8 DEF ReadList, ListRight
    <3>2. CASE conf.access_control_rules = Unset
      <4>1. pc' = "putList" /\ conf.access_control_allow # Unset
        BY <2>8, <3>1, <3>2 DEF ReadList, ListManaged
      <4>2. RulesAsWanted'
        BY <2>1, <2>4, <3>1, <3>2 DEF RulesAsWanted
      <4>3. GetList' = GetList
        BY <3>1 DEF GetList
      <4> QED
        BY <2>1, <3>1, <4>1, <4>2, <4>3 DEF ListRight
    <3>3. CASE conf.access_control_rules # Unset
      <4>1. /\ Partial(device.rules, extra', missing')
            /\ pc' = IF extra' = {} /\ missing' = {} THEN AfterRules ELSE "reconcile"
        BY <2>8, <3>3, ListRead
      <4>2. CASE extra' = {} /\ missing' = {}
        BY <2>6, <3>1, <3>3, <4>1, <4>2
      <4>3. CASE ~(extra' = {} /\ missing' = {})
        <5>1. pc' = "reconcile" /\ ac'.active = device.accessControl
          BY <3>1, <4>1, <4>3 DEF GetList
        <5> QED
          BY <2>1, <3>1, <3>3, <5>1 DEF ListRight
      <4> QED
        BY <4>2, <4>3
    <3> QED
      BY <3>2, <3>3
  <2>9. ASSUME NEW e, NEW m, Reconciled(e, m), Partial(device'.rules, e, m), pc = "reconcile",
               device'.allow = device.allow, device'.accessControl = device.accessControl
        PROVE  ListRight'
    <3>1. /\ conf.access_control_rules # Unset /\ device'.allow = before.allow
          /\ ac.active = device.accessControl /\ ac' = ac
          /\ pc' = IF e = {} /\ m = {} THEN AfterRules ELSE "reconcile"
      BY <2>1, <2>9 DEF ListRight, Reconciled
    <3>2. CASE e = {} /\ m = {}
      BY <2>6, <2>9, <3>1, <3>2
    <3>3. CASE ~(e = {} /\ m = {})
      BY <2>1, <2>9, <3>1, <3>3 DEF ListRight
    <3> QED
      BY <3>2, <3>3
  <2>10. ASSUME NEW mac \in Macs, AddRule(mac) PROVE ListRight'
    <3>1. Reconciled(extra, missing \ {mac}) \/ GiveUp("failed")
      BY <2>10 DEF AddRule
    <3> QED
      BY <2>2, <2>9, <2>10, <3>1, RuleAdded
  <2>11. ASSUME NEW i \in Ids, RemoveRule(i) PROVE ListRight'
    <3>1. Reconciled(extra \ {i}, missing) \/ GiveUp("failed")
      BY <2>11 DEF RemoveRule
    <3> QED
      BY <2>2, <2>9, <2>11, <3>1, RuleRemoved
  <2>12. CASE ReadListAgain
    <3>1. /\ device' = device /\ ac' = GetList /\ pc = "getListAgain" /\ pc' = "putList"
          /\ device.allow = before.allow /\ conf.access_control_allow # Unset /\ RulesAsWanted
      BY <2>1, <2>12 DEF ReadListAgain, ListRight
    <3>2. RulesAsWanted' /\ GetList' = GetList
      BY <2>1, <3>1 DEF RulesAsWanted, GetList
    <3> QED
      BY <2>1, <3>1, <3>2 DEF ListRight
  <2>13. CASE WriteList
    <3>1. device'.allow = Wanted.allow /\ device'.rules = device.rules /\ RulesAsWanted
      BY <2>1, <2>13, ListWritten DEF WriteList, ListRight
    <3>2. RulesAsWanted'
      BY <2>1, <3>1 DEF RulesAsWanted
    <3>3. GiveUp("failed") \/ pc' \in {"putSsid", "refresh"}
      BY <2>13 DEF WriteList, Answered, AfterList
    <3> QED
      BY <2>1, <2>2, <3>1, <3>2, <3>3 DEF ListRight
  <2>14. CASE WriteSsid
    <3>1. device'.allow = Wanted.allow /\ device'.rules = device.rules /\ RulesAsWanted
      BY <2>1, <2>14, SsidWritten DEF WriteSsid, ListRight
    <3>2. RulesAsWanted'
      BY <2>1, <3>1 DEF RulesAsWanted
    <3>3. GiveUp("failed") \/ pc' = "refresh"
      BY <2>14 DEF WriteSsid, Answered
    <3> QED
      BY <2>1, <2>2, <3>1, <3>2, <3>3 DEF ListRight
  <2>15. CASE ListFull \/ DisableSsid \/ Refresh \/ RequestFails
    BY <2>2, <2>15 DEF ListFull, DisableSsid, Refresh, RequestFails
  <2> QED
    BY <1>2, <2>7, <2>8, <2>10, <2>11, <2>12, <2>13, <2>14, <2>15 DEF Next
<1> QED
  BY <1>1, <1>2

-----------------------------------------------------------------------------
\* Filtering that is on while the list is written stays on all along.
LEMMA OnAllAlong ==
  ASSUME TypeOK, SsidRight, pc \in {"getList", "reconcile", "getListAgain", "putList"},
         device.accessControl
  PROVE  before.accessControl /\ Wanted.accessControl
<1>1. /\ before.accessControl \in BOOLEAN /\ device.accessControl \in BOOLEAN
      /\ conf.access_control \in BOOLEAN \union {Unset}
  BY DEF TypeOK, Devices, Configurations
<1>2. OffFirst => Wanted.accessControl = FALSE
  BY UnsetAssumption DEF OffFirst, DisablesFirst, Wanted, Value
<1>3. ~disableFirst /\ SsidAsBefore /\ ~OffFirst
  BY <1>2 DEF SsidRight, SsidAsWanted
<1>4. before.accessControl = TRUE
  BY <1>1, <1>3 DEF SsidAsBefore
<1>5. conf.access_control # FALSE
  BY <1>3, <1>4 DEF OffFirst, DisablesFirst
<1>6. Wanted.accessControl = TRUE
  BY <1>1, <1>4, <1>5 DEF Wanted, Value
<1> QED
  BY <1>4, <1>6

\* A list that holds just what is configured has nothing extra or missing.
LEMMA NothingToReconcile ==
  ASSUME NEW keep, NEW rules, NEW wanted, Keeps(keep, rules, wanted),
         Registered(rules) = wanted, HeldOnce(rules)
  PROVE  Used(rules) \ keep = {} /\ wanted \ Registered(rules) = {}
<1>1. {rules[i] : i \in keep} = wanted /\ keep \subseteq Used(rules)
  BY DEF Keeps
<1>2. ASSUME NEW i \in Used(rules) PROVE i \in keep
  <2>1. rules[i] \in wanted
    BY DEF Registered
  <2>2. PICK j \in keep : rules[j] = rules[i]
    BY <1>1, <2>1
  <2> QED
    BY <1>1, <2>2 DEF HeldOnce
<1> QED
  BY <1>2

LEMMA NextAlways == Inv /\ Next => Always'
<1> SUFFICES ASSUME Inv, Next PROVE Always'
  OBVIOUS
<1>1. CASE (\E c \in Configurations : Apply(c)) \/ Destroy
  <2>1. /\ device' = device /\ before' = device /\ pc' # "reconcile" /\ outcome' = "under way"
    BY <1>1, Beginning
  <2>2. Within' /\ Filters'
    BY <2>1 DEF Within, Filters
  <2>3. \A mac \in Registered(device.rules) : \E i \in Ids : device.rules[i] = mac
    BY DEF Registered, Used
  <2>4. KeptRulesSurvive'
    BY <2>1, <2>3 DEF KeptRulesSurvive
  <2>5. Settled' /\ SuccessMeansConfigured'
    BY <2>1 DEF Settled, SuccessMeansConfigured
  <2> QED
    BY <2>2, <2>4, <2>5 DEF Always
<1>2. ASSUME ~(\E c \in Configurations : Apply(c)), ~Destroy PROVE Always'
  <2>1. /\ UNCHANGED <<before, conf>> /\ Wanted' = Wanted
        /\ TypeOK /\ SsidRight /\ ListRight /\ ReconcileRight
        /\ Within /\ Filters /\ KeptRulesSurvive /\ Settled /\ SuccessMeansConfigured
    BY <1>2, GoingOn DEF Inv, UnderWay, Always
  <2>2. device \in Devices /\ device' \in Devices /\ before \in Devices
    BY DeviceType DEF Inv, TypeOK
  <2>3. Holds(before)' = Holds(before)
    BY <2>1 DEF Holds
  <2>4. /\ conf.access_control_allow = Unset => Wanted.allow = before.allow
        /\ conf.access_control_rules = Unset => Wanted.macs = Registered(before.rules)
        /\ conf.access_control_rules # Unset => Wanted.macs = conf.access_control_rules
    BY DEF Wanted, Value
  <2>5. Holds(before) =>
          /\ before.active = Wanted.active /\ before.accessControl = Wanted.accessControl
          /\ before.allow = Wanted.allow
    BY DEF Holds
  \* Success is reported by the last read, and by the only write of a destroy.
  <2>6. outcome' = "applied" => Refresh \/ DisableSsid
    <3>1. SUFFICES ASSUME ~Refresh, ~DisableSsid PROVE outcome' # "applied"
      OBVIOUS
    <3>2. pc # "idle" => outcome = "under way"
      BY <2>1 DEF SsidRight
    <3> QED
      BY <1>2, <3>1, <3>2 DEF Next, DisableFirst, ReadList, AddRule, MayAdd, RemoveRule, ListFull,
         ReadListAgain, WriteList, WriteSsid, RequestFails, GiveUp, Stop, Answered, Reconciled
  \* Nothing is reconciled if all is as configured already.
  <2>7. Holds(before) => pc' # "reconcile"
    <3>1. SUFFICES ASSUME Holds(before), pc' = "reconcile" PROVE FALSE
      OBVIOUS
    <3>2. pc # "reconcile"
      BY <2>1, <3>1 DEF Settled
    <3>3. ReadList
      BY <1>2, <3>1, <3>2 DEF Next, DisableFirst, AddRule, MayAdd, RemoveRule, ListFull,
         ReadListAgain, WriteList, WriteSsid, DisableSsid, Refresh, RequestFails,
         GiveUp, Stop, Answered, AfterList
    <3>4. conf.access_control_rules # Unset /\ device = before
      BY <2>1, <3>1, <3>3 DEF ReadList, Settled
    <3>5. PICK keep \in SUBSET Ids :
            /\ Keeps(keep, before.rules, conf.access_control_rules)
            /\ extra' = Used(before.rules) \ keep
            /\ missing' = conf.access_control_rules \ Registered(before.rules)
            /\ pc' = IF extra' = {} /\ missing' = {} THEN AfterRules ELSE "reconcile"
      BY <3>3, <3>4 DEF ReadList
    <3>6. Registered(before.rules) = conf.access_control_rules /\ HeldOnce(before.rules)
      BY <2>4, <3>1, <3>4 DEF Holds
    <3>7. extra' = {} /\ missing' = {}
      BY <3>5, <3>6, NothingToReconcile
    <3> QED
      BY <3>1, <3>5, <3>7 DEF AfterRules, AfterList
  <2>8. ASSUME device' = device, ~DisableSsid PROVE Always'
    <3>1. Within' /\ Filters' /\ KeptRulesSurvive'
      BY <2>1, <2>8 DEF Within, Filters, KeptRulesSurvive
    <3>2. Settled'
      BY <2>1, <2>3, <2>7, <2>8 DEF Settled
    <3>3. Refresh => Holds(device)
      BY <2>1, <2>4 DEF Refresh, Holds, SsidRight, SsidAsWanted, ListRight, RulesAsWanted
    <3>4. SuccessMeansConfigured'
      BY <2>1, <2>6, <2>8, <3>3 DEF SuccessMeansConfigured, Holds
    <3> QED
      BY <3>1, <3>2, <3>4 DEF Always
  <2>9. ASSUME device'.active = Wanted.active, device'.accessControl = Wanted.accessControl,
               device'.allow = device.allow, device'.rules = device.rules,
               DisableFirst \/ WriteSsid \/ DisableSsid,
               Wanted.accessControl =>
                 device.allow = Wanted.allow /\ Registered(device.rules) = Wanted.macs,
               DisableSsid => device.allow = Wanted.allow /\ RulesAsWanted
        PROVE  Always'
    <3>1. Within' /\ KeptRulesSurvive'
      BY <2>1, <2>9 DEF Within, KeptRulesSurvive
    <3>2. Filters'
      BY <2>1, <2>9 DEF Filters
    <3>3. Holds(before) => device' = before
      <4>1. SUFFICES ASSUME Holds(before) PROVE device' = before
        OBVIOUS
      <4>2. device'.active = before.active /\ device'.accessControl = before.accessControl
        BY <2>5, <2>9, <4>1
      <4>3. device'.allow = before.allow /\ device'.rules = before.rules
        BY <2>1, <2>9, <4>1 DEF Settled
      <4> QED
        BY <2>2, <4>2, <4>3 DEF Devices
    <3>4. Settled'
      BY <2>1, <2>3, <2>7, <3>3 DEF Settled
    <3>5. DisableSsid => Holds(device)'
      <4>1. SUFFICES ASSUME DisableSsid PROVE Holds(device)'
        OBVIOUS
      <4>2. device.allow = Wanted.allow /\ RulesAsWanted
        BY <2>9, <4>1
      <4> QED
        BY <2>1, <2>9, <4>2 DEF Holds, RulesAsWanted, HeldOnce
    <3>6. outcome' = "applied" => DisableSsid
      BY <2>6, <2>9 DEF Refresh, DisableFirst, WriteSsid
    <3>7. SuccessMeansConfigured'
      BY <3>5, <3>6 DEF SuccessMeansConfigured
    <3> QED
      BY <3>1, <3>2, <3>4, <3>7 DEF Always
  <2>10. CASE DisableFirst
    <3>1. OffFirst /\ ~DisableSsid
      BY <2>1, <2>10 DEF DisableFirst, DisableSsid, SsidRight
    <3>2. Wanted.accessControl = FALSE
      BY <3>1, UnsetAssumption DEF OffFirst, DisablesFirst, Wanted, Value
    <3> QED
      BY <2>9, <2>10, <3>1, <3>2, SsidWritten DEF DisableFirst
  <2>11. CASE WriteSsid
    <3>1. device.allow = Wanted.allow /\ RulesAsWanted /\ ~DisableSsid
      BY <2>1, <2>11 DEF WriteSsid, DisableSsid, ListRight
    <3> QED
      BY <2>9, <2>11, <3>1, SsidWritten DEF WriteSsid, RulesAsWanted
  <2>12. CASE DisableSsid
    <3>1. device = before /\ conf.access_control_allow = Unset /\ conf.access_control_rules = Unset
      BY <2>1, <2>12 DEF DisableSsid, ListRight
    <3>2. device.allow = Wanted.allow /\ RulesAsWanted
      BY <2>4, <3>1 DEF RulesAsWanted
    <3> QED
      BY <2>9, <2>12, <3>2, SsidWritten DEF DisableSsid, RulesAsWanted
  <2>13. ASSUME device'.accessControl = device.accessControl, device'.allow = device.allow,
                NEW e, NEW m, Partial(device'.rules, e, m), pc = "reconcile",
                ~Refresh, ~DisableSsid
         PROVE  Always'
    <3>1. conf.access_control_rules # Unset /\ Wanted.macs = conf.access_control_rules
      BY <2>1, <2>4, <2>13 DEF ListRight
    <3>2. /\ Registered(before.rules) \intersect Wanted.macs \subseteq Registered(device'.rules)
          /\ Registered(device'.rules) \subseteq Registered(before.rules) \union Wanted.macs
          /\ \A mac \in Registered(before.rules) \intersect conf.access_control_rules :
               \E i \in Ids : before.rules[i] = mac /\ device'.rules[i] = mac
      BY <2>13, <3>1, PartialWithin
    <3>3. Within'
      BY <2>1, <2>13, <3>2 DEF Within
    <3>4. KeptRulesSurvive'
      BY <2>1, <3>1, <3>2 DEF KeptRulesSurvive
    <3>5. Filters'
      BY <2>1, <2>13, OnAllAlong DEF Filters
    <3>6. ~Holds(before)
      BY <2>1, <2>13 DEF Settled
    <3>7. Settled'
      BY <2>3, <3>6 DEF Settled
    <3>8. SuccessMeansConfigured'
      BY <2>6, <2>13 DEF SuccessMeansConfigured
    <3> QED
      BY <3>3, <3>4, <3>5, <3>7, <3>8 DEF Always
  <2>14. ASSUME NEW mac \in Macs, AddRule(mac) PROVE Always'
    <3>1. ~Refresh /\ ~DisableSsid
      BY <2>14 DEF AddRule, MayAdd, Refresh, DisableSsid
    <3> QED
      BY <2>13, <2>14, <3>1, RuleAdded
  <2>15. ASSUME NEW i \in Ids, RemoveRule(i) PROVE Always'
    <3>1. ~Refresh /\ ~DisableSsid
      BY <2>15 DEF RemoveRule, Refresh, DisableSsid
    <3> QED
      BY <2>13, <2>15, <3>1, RuleRemoved
  <2>16. CASE WriteList
    <3>1. /\ device'.active = device.active /\ device'.accessControl = device.accessControl
          /\ device'.allow = Wanted.allow /\ device'.rules = device.rules /\ pc = "putList"
      BY <2>16, ListWritten DEF WriteList
    <3>2. Within' /\ KeptRulesSurvive'
      BY <2>1, <3>1 DEF Within, KeptRulesSurvive
    <3>3. Filters'
      BY <2>1, <3>1, OnAllAlong DEF Filters
    <3>4. Holds(before) => device' = before
      <4>1. SUFFICES ASSUME Holds(before) PROVE device' = before
        OBVIOUS
      <4>2. device = before /\ device'.allow = before.allow
        BY <2>1, <2>5, <3>1, <4>1 DEF Settled
      <4> QED
        BY <2>2, <3>1, <4>2 DEF Devices
    <3>5. Settled'
      BY <2>1, <2>3, <2>7, <3>4 DEF Settled
    <3>6. SuccessMeansConfigured'
      BY <2>6, <3>1 DEF SuccessMeansConfigured, Refresh, DisableSsid
    <3> QED
      BY <3>2, <3>3, <3>5, <3>6 DEF Always
  <2>17. CASE ReadList \/ ReadListAgain \/ ListFull \/ Refresh \/ RequestFails
    <3>1. device' = device
      BY <2>17 DEF ReadList, ReadListAgain, ListFull, Refresh, RequestFails
    <3>2. CASE DisableSsid
      BY <2>12, <3>2
    <3> QED
      BY <2>8, <3>1, <3>2
  <2> QED
    BY <1>2, <2>10, <2>11, <2>12, <2>14, <2>15, <2>16, <2>17 DEF Next
<1> QED
  BY <1>1, <1>2

LEMMA InitInv == Init => Inv
<1> SUFFICES ASSUME Init PROVE Inv
  OBVIOUS
<1>1. TypeOK
  BY FileType DEF Init, TypeOK
<1>2. /\ Wanted.active = device.active /\ Wanted.accessControl = device.accessControl
      /\ Wanted.allow = device.allow /\ Wanted.macs = Registered(device.rules)
  BY DEF Init, NoChange, Wanted, Value
<1>3. UnderWay
  BY DEF Init, UnderWay, SsidRight, ListRight, ReconcileRight
<1>4. Within /\ Filters /\ Settled /\ SuccessMeansConfigured
  BY <1>2 DEF Init, Within, Filters, Settled, SuccessMeansConfigured
<1>5. KeptRulesSurvive
  BY DEF Init, NoChange, KeptRulesSurvive
<1> QED
  BY <1>1, <1>3, <1>4, <1>5 DEF Inv, Always

LEMMA Stutter == Inv /\ UNCHANGED vars => Inv'
<1> SUFFICES ASSUME Inv, UNCHANGED vars PROVE Inv'
  OBVIOUS
<1> USE DEF vars, Inv, UnderWay, Always
<1>1. TypeOK'
  BY NextType
<1>2. Wanted' = Wanted /\ OffFirst' = OffFirst /\ GetList' = GetList
  BY DEF Wanted, OffFirst, GetList
<1>3. RulesAsWanted' = RulesAsWanted
  BY <1>2 DEF RulesAsWanted
<1>4. (ListManaged(conf))' = ListManaged(conf)
  BY DEF ListManaged
<1>5. SsidRight'
  BY <1>2 DEF SsidRight, SsidAsBefore, SsidAsWanted
<1>6. ListRight'
  BY <1>2, <1>3, <1>4 DEF ListRight
<1>7. ReconcileRight'
  BY DEF ReconcileRight, Partial
<1>8. Within' /\ Filters' /\ KeptRulesSurvive'
  BY <1>2 DEF Within, Filters, KeptRulesSurvive
<1>9. Settled' /\ SuccessMeansConfigured'
  BY <1>2 DEF Settled, SuccessMeansConfigured, Holds
<1> QED
  BY <1>1, <1>5, <1>6, <1>7, <1>8, <1>9

LEMMA Invariant == Spec => []Inv
<1>1. Inv /\ [Next]_vars => Inv'
  BY NextType, NextSsid, NextList, NextReconcile, NextAlways, Stutter DEF Inv, UnderWay
<1> QED
  BY <1>1, InitInv, PTL DEF Spec

(***************************************************************************)
(* Type correctness: the list never holds more rules than it can.          *)
(***************************************************************************)
THEOREM TypeCorrect == Spec => []TypeOK
<1>1. Inv => TypeOK
  BY DEF Inv
<1> QED
  BY <1>1, Invariant, PTL

(***************************************************************************)
(* A client admitted before and after an apply is admitted all along: what *)
(* filters is the old list, the new one, or, if filtering stays on, one    *)
(* between the two of the same kind.                                       *)
(***************************************************************************)
THEOREM Admitted == Spec => []NobodyLockedOut
<1>1. ASSUME Inv, NEW mac \in Macs, AdmittedBy(before, mac), AdmittedAsWanted(mac),
             before.accessControl /\ Wanted.accessControl => before.allow = Wanted.allow
      PROVE  AdmittedBy(device, mac)
  <2>1. SUFFICES ASSUME device.accessControl PROVE device.allow <=> mac \in Registered(device.rules)
    BY DEF AdmittedBy, Admits
  <2>2. Within /\ Filters
    BY <1>1 DEF Inv, Always
  <2>3. CASE before.accessControl /\ Wanted.accessControl
    <3>1. /\ before.allow <=> mac \in Registered(before.rules)
          /\ Wanted.allow <=> mac \in Wanted.macs
      BY <1>1, <2>3 DEF AdmittedBy, AdmittedAsWanted, Admits
    <3>2. device.allow = before.allow /\ before.allow = Wanted.allow
      BY <1>1, <2>2, <2>3 DEF Within
    <3>3. before.allow \in BOOLEAN
      BY <1>1 DEF Inv, TypeOK, Devices
    <3>4. CASE before.allow = TRUE
      <4>1. mac \in Registered(device.rules)
        BY <2>2, <3>1, <3>2, <3>4 DEF Within
      <4> QED
        BY <3>2, <3>4, <4>1
    <3>5. CASE before.allow = FALSE
      <4>1. mac \notin Registered(device.rules)
        BY <2>2, <3>1, <3>2, <3>5 DEF Within
      <4> QED
        BY <3>2, <3>5, <4>1
    <3> QED
      BY <3>3, <3>4, <3>5
  <2>4. CASE /\ Wanted.accessControl
             /\ device.allow = Wanted.allow /\ Registered(device.rules) = Wanted.macs
    BY <1>1, <2>4 DEF AdmittedAsWanted, Admits
  <2>5. CASE /\ before.accessControl
             /\ device.allow = before.allow /\ Registered(device.rules) = Registered(before.rules)
    BY <1>1, <2>5 DEF AdmittedBy, Admits
  <2> QED
    BY <2>1, <2>2, <2>3, <2>4, <2>5 DEF Filters
<1>2. Inv => NobodyLockedOut
  BY <1>1 DEF NobodyLockedOut, Undisturbed
<1> QED
  BY <1>2, Invariant, PTL

(***************************************************************************)
(* Kept addresses keep a rule and its id, through every kind of write.     *)
(***************************************************************************)
THEOREM RulesKept == Spec => []KeptRulesSurvive
<1>1. Inv => KeptRulesSurvive
  BY DEF Inv, Always
<1> QED
  BY <1>1, Invariant, PTL

(***************************************************************************)
(* An apply that reports success has left everything as configured.        *)
(***************************************************************************)
THEOREM Configured == Spec => []SuccessMeansConfigured
<1>1. Inv => SuccessMeansConfigured
  BY DEF Inv, Always
<1> QED
  BY <1>1, Invariant, PTL

(***************************************************************************)
(* Applying what the device already holds changes nothing at any moment.   *)
(***************************************************************************)
THEOREM Untouched == Spec => []SettledIsUntouched
<1>1. Inv => SettledIsUntouched
  BY DEF Inv, Always, Settled, SettledIsUntouched
<1> QED
  BY <1>1, Invariant, PTL

-----------------------------------------------------------------------------
\* A full list of wanted addresses, each once, that lacks one of them.
LEMMA TooMany ==
  ASSUME NEW M, M \subseteq Macs, NEW m, m \subseteq M, m # {}, NEW r \in [Ids -> M \ m],
         \A i, j \in Ids : r[i] = r[j] => i = j
  PROVE  Cardinality(M) > MaxRules
<1>1. IsFiniteSet(M) /\ IsFiniteSet(M \ m)
  BY MacsAssumption, FS_Subset
<1>2. Cardinality(Ids) = MaxRules /\ IsFiniteSet(Ids)
  <2>1. 0 \in Int /\ MaxRules - 1 \in Int /\ (0 > MaxRules - 1 <=> FALSE)
    BY MaxRulesAssumption
  <2>2. Cardinality(0 .. MaxRules - 1) = (MaxRules - 1) - 0 + 1 /\ IsFiniteSet(0 .. MaxRules - 1)
    BY <2>1, FS_Interval
  <2> QED
    BY <2>2, MaxRulesAssumption DEF Ids
<1>3. r \in Injection(Ids, M \ m)
  BY DEF Injection, IsInjective
<1>4. MaxRules <= Cardinality(M \ m)
  BY <1>1, <1>2, <1>3, FS_Injection
<1>5. PICK x \in m : TRUE
  OBVIOUS
<1>6. IsFiniteSet(M \ {x}) /\ Cardinality(M \ {x}) = Cardinality(M) - 1
  BY <1>1, <1>5, FS_RemoveElement
<1>7. Cardinality(M \ m) <= Cardinality(M \ {x})
  BY <1>6, FS_Subset
<1>8. Cardinality(M) \in Nat /\ Cardinality(M \ m) \in Nat
  BY <1>1, FS_CardinalityType
<1> QED
  BY <1>4, <1>6, <1>7, <1>8, MaxRulesAssumption

LEMMA NextFull == Inv /\ FullOnlyWhileFiltering /\ [Next]_vars => FullOnlyWhileFiltering'
<1> SUFFICES ASSUME Inv, FullOnlyWhileFiltering, [Next]_vars, outcome' = "full"
             PROVE  \/ Cardinality(conf.access_control_rules)' > MaxRules
                    \/ (before.accessControl /\ conf.access_control # FALSE)'
  BY DEF FullOnlyWhileFiltering
<1>1. CASE UNCHANGED vars
  BY <1>1 DEF vars, FullOnlyWhileFiltering
<1>2. CASE Next
  <2>1. ~(\E c \in Configurations : Apply(c)) /\ ~Destroy
    BY Beginning
  <2>2. UNCHANGED <<before, conf>>
    BY <1>2, <2>1, GoingOn
  <2>3. pc # "idle" => outcome = "under way"
    BY DEF Inv, UnderWay, SsidRight
  <2>4. ListFull
    BY <1>2, <2>1, <2>3 DEF Next, DisableFirst, ReadList, AddRule, MayAdd, RemoveRule, ReadListAgain,
       WriteList, WriteSsid, DisableSsid, Refresh, RequestFails, GiveUp, Stop, Answered, Reconciled
  <2>5. /\ Partial(device.rules, extra, missing) /\ missing # {} /\ Used(device.rules) = Ids
        /\ ac.active \/ extra = {}
    BY <2>4 DEF ListFull, MayAdd, AddsFirst, Inv, UnderWay, ReconcileRight
  <2>6. /\ conf.access_control_rules # Unset /\ ac.active = device.accessControl
        /\ pc = "reconcile" /\ SsidRight /\ TypeOK
    BY <2>4 DEF ListFull, MayAdd, Inv, UnderWay, ListRight
  <2>7. CASE ac.active
    <3>1. before.accessControl /\ Wanted.accessControl
      BY <2>6, <2>7, OnAllAlong
    <3>2. conf.access_control # FALSE
      BY <3>1, UnsetAssumption DEF Wanted, Value
    <3> QED
      BY <2>2, <3>1, <3>2
  <2>8. CASE extra = {}
    <3> DEFINE M == conf.access_control_rules
               r == device.rules
    <3>1. M \subseteq Macs
      BY <2>6 DEF TypeOK, Configurations
    <3>2. {r[i] : i \in Ids} = M \ missing /\ missing \subseteq M
      BY <2>5, <2>8 DEF Partial
    <3>3. \A i, j \in Ids : r[i] = r[j] => i = j
      BY <2>5, <2>8 DEF Partial
    <3>4. r \in [Ids -> M \ missing]
      BY <2>6, <3>2 DEF TypeOK, Devices, Lists
    <3>5. Cardinality(M) > MaxRules
      BY <2>5, <3>1, <3>2, <3>3, <3>4, TooMany
    <3> QED
      BY <2>2, <3>5
  <2> QED
    BY <2>5, <2>7, <2>8
<1> QED
  BY <1>1, <1>2

(***************************************************************************)
(* The list is found full only if it cannot hold what is wanted, or        *)
(* filtering stays on and nobody may be locked out meanwhile.              *)
(***************************************************************************)
THEOREM FullForAReason == Spec => []FullOnlyWhileFiltering
<1>1. Init => FullOnlyWhileFiltering
  BY DEF Init, FullOnlyWhileFiltering
<1> QED
  BY <1>1, Invariant, NextFull, PTL DEF Spec

-----------------------------------------------------------------------------
(***************************************************************************)
(* The list implements ApplyContract in whom it admits.  While rules are   *)
(* added and removed, either nothing filters, or the old and the wanted    *)
(* list filter in the same sense; then a rule added is wanted, and an      *)
(* address whose last rule goes is not.  Any other write puts in force     *)
(* what is wanted of every client at once, or changes nothing for them.    *)
(***************************************************************************)
LEMMA OneRule ==
  ASSUME NEW rules \in Lists, NEW i \in Ids, NEW mac, NEW new, new = [rules EXCEPT ![i] = mac]
  PROVE  /\ mac \in Macs /\ i \notin Used(rules) =>
              Registered(new) = Registered(rules) \union {mac}
         /\ mac = None =>
              /\ Registered(new) \subseteq Registered(rules)
              /\ Registered(rules) \subseteq Registered(new) \union {rules[i]}
<1>1. new[i] = mac /\ \A j \in Ids \ {i} : new[j] = rules[j]
  BY DEF Lists
<1>2. CASE mac \in Macs /\ i \notin Used(rules)
  <2>1. Used(new) = Used(rules) \union {i} /\ mac # None
    BY <1>1, <1>2, NoneAssumption DEF Used
  <2> QED
    BY <1>1, <1>2, <2>1 DEF Registered, Used
<1>3. CASE mac = None
  <2>1. Used(new) = Used(rules) \ {i} /\ mac \notin Macs
    BY <1>1, <1>3, NoneAssumption DEF Used
  <2> QED
    BY <1>1, <1>3, <2>1 DEF Registered, Used
<1> QED
  BY <1>2, <1>3

\* What a rule added or removed does to the registered addresses.
LEMMA OneAddress ==
  ASSUME Inv, (\E mac \in Macs : AddRule(mac)) \/ (\E i \in Ids : RemoveRule(i)),
         NEW mac \in Macs,
         ~(mac \in Registered(device'.rules) <=> mac \in Registered(device.rules))
  PROVE  mac \in Registered(device'.rules) <=> mac \in Wanted.macs
<1>1. device.rules \in Lists /\ TypeOK
  BY DEF Inv, TypeOK, Devices
<1>2. ASSUME NEW m \in Macs, AddRule(m)
      PROVE  mac \in Registered(device'.rules) /\ mac \in Wanted.macs
  <2>1. PICK i \in Ids \ Used(device.rules) : device' = [device EXCEPT !.rules[i] = m]
    BY <1>2 DEF AddRule, PostRule
  <2>2. device'.rules = [device.rules EXCEPT ![i] = m]
    BY <2>1, RuleWritten
  <2>3. Registered(device'.rules) = Registered(device.rules) \union {m}
    BY <1>1, <2>2, OneRule
  <2>4. m \in conf.access_control_rules /\ conf.access_control_rules # Unset
    BY <1>2 DEF AddRule, MayAdd, Inv, UnderWay, ListRight, ReconcileRight, Partial
  <2> QED
    BY <2>3, <2>4 DEF Wanted, Value
<1>3. ASSUME NEW i \in Ids, RemoveRule(i)
      PROVE  mac \notin Registered(device'.rules) /\ mac \notin Wanted.macs
  <2>1. device' = [device EXCEPT !.rules[i] = None]
    BY <1>3 DEF RemoveRule, RemoveRuleAt
  <2>2. device'.rules = [device.rules EXCEPT ![i] = None]
    BY <2>1, RuleWritten
  <2>3. mac \notin Registered(device'.rules) /\ mac = device.rules[i]
    BY <1>1, <2>2, OneRule
  <2>4. /\ i \in Used(device.rules) /\ device.rules[i] = before.rules[i]
        /\ conf.access_control_rules # Unset
    BY <1>3 DEF RemoveRule, Inv, UnderWay, ListRight, ReconcileRight, Partial
  <2>5. mac \in Registered(before.rules)
    BY <2>3, <2>4 DEF Registered, Used
  <2>6. Partial(device'.rules, extra \ {i}, missing)
    BY <1>3, RuleRemoved
  <2>7. mac \notin conf.access_control_rules
    BY <2>3, <2>5, <2>6, PartialWithin
  <2> QED
    BY <2>3, <2>4, <2>7 DEF Wanted, Value
<1> QED
  BY <1>2, <1>3

\* What a step of an apply under way makes of one client.
LEMMA ClientMoves ==
  ASSUME Inv, Next, ~(\E c \in Configurations : Apply(c)), ~Destroy, ~Flips, NEW mac \in Macs
  PROVE  \/ AdmittedBy(device', mac) <=> AdmittedBy(device, mac)
         \/ AdmittedBy(device', mac) <=> AdmittedAsWanted(mac)
<1> USE DEF AdmittedBy, AdmittedAsWanted, Admits
<1>1. TypeOK /\ SsidRight /\ ListRight /\ Wants
  BY WantedType DEF Inv, UnderWay
<1>2. CASE DisableFirst \/ WriteSsid \/ DisableSsid
  <2>1. /\ device'.accessControl = Wanted.accessControl
        /\ device'.allow = device.allow /\ device'.rules = device.rules
    BY <1>2, SsidWritten DEF DisableFirst, WriteSsid, DisableSsid
  <2>2. CASE DisableFirst
    <3>1. Wanted.accessControl = FALSE
      BY <1>1, <2>2, UnsetAssumption DEF DisableFirst, SsidRight, OffFirst, DisablesFirst, Wanted, Value
    <3> QED
      BY <2>1, <3>1
  <2>3. CASE WriteSsid
    <3>1. device.allow = Wanted.allow /\ Registered(device.rules) = Wanted.macs
      BY <1>1, <2>3 DEF WriteSsid, ListRight, RulesAsWanted
    <3> QED
      BY <2>1, <3>1
  <2>4. CASE DisableSsid
    <3>1. device.allow = Wanted.allow /\ Registered(device.rules) = Wanted.macs
      BY <1>1, <2>4 DEF DisableSsid, ListRight, Wanted, Value
    <3> QED
      BY <2>1, <3>1
  <2> QED
    BY <1>2, <2>2, <2>3, <2>4
<1>3. CASE WriteList
  <2>1. /\ device'.accessControl = device.accessControl /\ device'.allow = Wanted.allow
        /\ device'.rules = device.rules /\ pc = "putList"
    BY <1>3, ListWritten DEF WriteList
  <2>2. Registered(device.rules) = Wanted.macs
    BY <1>1, <2>1 DEF ListRight, RulesAsWanted
  <2>3. device.accessControl => Wanted.accessControl
    BY <1>1, <2>1, OnAllAlong
  <2> QED
    BY <2>1, <2>2, <2>3
<1>4. CASE (\E m \in Macs : AddRule(m)) \/ (\E i \in Ids : RemoveRule(i))
  <2>1. /\ pc = "reconcile" /\ device'.accessControl = device.accessControl
        /\ device'.allow = device.allow
    BY <1>4, RuleAdded, RuleRemoved
  <2>2. CASE ~device.accessControl
    BY <2>1, <2>2
  <2>3. CASE device.accessControl
    <3>1. before.accessControl /\ Wanted.accessControl
      BY <1>1, <2>1, <2>3, OnAllAlong
    <3>2. device.allow = Wanted.allow
      BY <1>1, <2>1, <3>1 DEF ListRight, Flips
    <3>3. CASE mac \in Registered(device'.rules) <=> mac \in Registered(device.rules)
      BY <2>1, <3>3
    <3>4. CASE ~(mac \in Registered(device'.rules) <=> mac \in Registered(device.rules))
      <4>1. mac \in Registered(device'.rules) <=> mac \in Wanted.macs
        BY <1>4, <3>4, OneAddress
      <4> QED
        BY <2>1, <3>1, <3>2, <4>1
    <3> QED
      BY <3>3, <3>4
  <2> QED
    BY <2>2, <2>3
<1>5. CASE ReadList \/ ReadListAgain \/ ListFull \/ Refresh \/ RequestFails
  <2>1. device' = device
    BY <1>5 DEF ReadList, ReadListAgain, ListFull, Refresh, RequestFails
  <2> QED
    BY <2>1
<1> QED
  BY <1>2, <1>3, <1>4, <1>5 DEF Next

LEMMA NextContract == Inv /\ [Next]_vars => [Contract!Next]_Contract!contractVars
<1> SUFFICES ASSUME Inv, [Next]_vars
             PROVE  [Contract!Next]_Contract!contractVars
  OBVIOUS
<1>1. CASE UNCHANGED vars
  BY <1>1 DEF vars, Contract!contractVars, AdmittedBy, AdmittedAsWanted, Admits, Wanted, Flips
<1> SUFFICES ASSUME Next PROVE Contract!Next
  BY <1>1
<1>2. CASE (\E c \in Configurations : Apply(c)) \/ Destroy
  <2>1. device' = device /\ pc = "idle" /\ outcome' = "under way"
    BY <1>2, Beginning
  <2>2. outcome # "under way" /\ outcome \in {"none", "under way", "applied", "failed", "full"}
    BY <2>1 DEF Inv, TypeOK, UnderWay, SsidRight
  <2>3. Contract!Begin
    BY <2>1, <2>2 DEF Contract!Begin, Contract!Items
  <2> QED
    BY <2>3 DEF Contract!Next
<1>3. CASE ~(\E c \in Configurations : Apply(c)) /\ ~Destroy
  <2>1. UNCHANGED <<before, conf>> /\ Wanted' = Wanted
    BY <1>3, GoingOn
  <2>2. Flips' = Flips /\ UNCHANGED [mac \in Macs |-> AdmittedAsWanted(mac)]
    BY <2>1 DEF Flips, AdmittedAsWanted
  <2>3. pc # "idle"
    BY <1>3 DEF Next, DisableFirst, ReadList, AddRule, MayAdd, RemoveRule, ListFull, ReadListAgain,
                WriteList, WriteSsid, DisableSsid, Refresh, RequestFails
  <2>4. outcome = "under way"
    BY <2>3 DEF Inv, UnderWay, SsidRight
  <2>5. ASSUME NEW mac \in Macs
        PROVE  \/ AdmittedBy(device', mac) = AdmittedBy(device, mac)
               \/ AdmittedBy(device', mac) = AdmittedAsWanted(mac)
               \/ Flips
    <3>1. /\ AdmittedBy(device', mac) \in BOOLEAN /\ AdmittedBy(device, mac) \in BOOLEAN
          /\ AdmittedAsWanted(mac) \in BOOLEAN
      BY Zenon DEF AdmittedBy, AdmittedAsWanted, Admits
    <3> QED
      BY <1>3, <3>1, ClientMoves
  <2>6. \A mac \in Macs : AdmittedAsWanted(mac) # Unset
    <3>1. \A mac \in Macs : AdmittedAsWanted(mac) \in BOOLEAN
      BY Zenon DEF AdmittedAsWanted, Admits
    <3> QED
      BY <3>1, UnsetAssumption
  <2>7. Contract!ItemsMove
    BY <2>4, <2>5, <2>6 DEF Contract!ItemsMove, Contract!Items
  <2>8. Contract!Keep
    BY <2>2, <2>4, <2>7 DEF Contract!Keep
  <2>9. CASE outcome' = "applied"
    <3>1. Holds(device)' /\ Wanted' = Wanted
      BY <2>1, <2>9, NextAlways DEF Always, SuccessMeansConfigured
    <3>2. \A mac \in Macs : AdmittedBy(device', mac) = AdmittedAsWanted(mac)'
      BY <3>1 DEF Holds, AdmittedBy, AdmittedAsWanted
    <3>3. Contract!Reached'
      BY <3>2 DEF Contract!Reached, Contract!Items
    <3> QED
      BY <2>4, <2>8, <2>9, <3>3 DEF Contract!Succeed, Contract!Next
  <2>10. CASE outcome' \in {"failed", "full"}
    BY <2>4, <2>8, <2>10 DEF Contract!Fail, Contract!Next
  <2>11. CASE outcome' = "under way"
    BY <2>4, <2>8, <2>11 DEF Contract!Move, Contract!Next
  <2>12. outcome' \in {"under way", "applied", "failed", "full"}
    BY <1>3, <2>4 DEF Next, DisableFirst, ReadList, AddRule, RemoveRule, ListFull, ReadListAgain,
                WriteList, WriteSsid, DisableSsid, Refresh, RequestFails,
                GiveUp, Stop, Answered, Reconciled
  <2> QED
    BY <2>9, <2>10, <2>11, <2>12
<1> QED
  BY <1>2, <1>3

(***************************************************************************)
(* During an apply, and after it has failed anywhere, whether a client is  *)
(* admitted changes at most once and only to what is wanted, unless a list *)
(* enforced all along is turned from white to black or back.               *)
(***************************************************************************)
THEOREM ImplementsContract == Spec => AdmitsByContract
<1>1. Init => Contract!Init
  BY DEF Init, Contract!Init, Flips, Wanted, NoChange, Value
<1> QED
  BY <1>1, Invariant, NextContract, PTL DEF Spec, AdmitsByContract, Contract!Spec

=============================================================================
