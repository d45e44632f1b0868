--------------------------- MODULE WifiAccessList ---------------------------
(***************************************************************************)
(* One SSID and its MAC access control list, as the resource wifi_ssid     *)
(* writes them.  One apply makes up to four kinds of write, to two         *)
(* endpoints: the SSID (whose accessControl is the active of the list),    *)
(* each address added or removed, the whole list.  Any of them may fail,   *)
(* before or after the device carried it out, and then the apply stops     *)
(* where it is; the next one starts from whatever the device holds.        *)
(*                                                                         *)
(* Every address is in its upper-case form.  Of the attributes of an SSID  *)
(* only active and access_control are kept; the key is in Credential.      *)
(* Nobody but the resource writes the list.                                *)
(***************************************************************************)
EXTENDS Naturals, FiniteSets

CONSTANTS
  Macs,                     \* the addresses of the clients
  MaxRules,                 \* rules the list can hold
  None,                     \* no rule under an id
  Unset                     \* an attribute that is not configured

ASSUME MacsAssumption == IsFiniteSet(Macs)
ASSUME MaxRulesAssumption == MaxRules \in Nat \ {0}
ASSUME NoneAssumption == None \notin Macs
ASSUME UnsetAssumption == Unset \notin BOOLEAN /\ \A macs \in SUBSET Macs : macs # Unset

Ids == 0 .. MaxRules - 1    \* id 0 is a valid id
Lists == [Ids -> Macs \union {None}]
Ssids == [active : BOOLEAN, accessControl : BOOLEAN]
AccessControls == [active : BOOLEAN, allow : BOOLEAN, rules : Lists]
Devices == [active : BOOLEAN, accessControl : BOOLEAN, allow : BOOLEAN, rules : Lists]
Configurations ==
  [active : BOOLEAN \union {Unset},
   access_control : BOOLEAN \union {Unset},
   access_control_allow : BOOLEAN \union {Unset},
   access_control_rules : {Unset} \union SUBSET Macs]

VARIABLES
  device,                   \* what the device holds and enforces
  conf,                     \* the configuration being applied
  pc,                       \* the next request of the apply, or of the destroy
  current,                  \* the SSID read, with the configured values
  disableFirst,             \* the SSID was already written
  ac,                       \* the list as read last
  extra,                    \* ids of the rules still to be removed
  missing,                  \* addresses still to be registered
  before,                   \* history: the device when the apply began
  outcome                   \* history: how it went

vars == <<device, conf, pc, current, disableFirst, ac, extra, missing, before, outcome>>

\* Mutant of Value: an attribute that is not configured is written too.
ValueUnchecked(attribute, old) == attribute

Value(attribute, old) == IF attribute = Unset THEN old ELSE attribute
Used(rules) == {i \in Ids : rules[i] # None}
Registered(rules) == {rules[i] : i \in Used(rules)}

\* Before there is anything to remember between two requests.
NoSsid == [active |-> FALSE, accessControl |-> FALSE]
NoList == [active |-> FALSE, allow |-> FALSE, rules |-> [i \in Ids |-> None]]
Forget ==
  /\ current' = NoSsid /\ ac' = NoList
  /\ disableFirst' = FALSE /\ extra' = {} /\ missing' = {}

-----------------------------------------------------------------------------
(***************************************************************************)
(* What the device does.  The active of the list is the accessControl of   *)
(* its SSID.                                                               *)
(***************************************************************************)
PutSsid(ssid) ==
  device' = [device EXCEPT !.active = ssid.active, !.accessControl = ssid.accessControl]

\* Mutant of PutList: the rules are sent without ids and renumbered.
PutListRenumbered(list) ==
  device' = [device EXCEPT !.accessControl = list.active, !.allow = list.allow,
               !.rules = [i \in Ids |-> list.rules[(i + 1) % MaxRules]]]

\* The list is replaced whole, faithfully because every rule keeps its id.
PutList(list) ==
  device' = [device EXCEPT !.accessControl = list.active,
                           !.allow = list.allow, !.rules = list.rules]

\* The device chooses the id; it takes no rule when the list is full.
PostRule(mac) ==
  \E i \in Ids \ Used(device.rules) : device' = [device EXCEPT !.rules[i] = mac]

RemoveRuleAt(i) == device' = [device EXCEPT !.rules[i] = None]

GetList ==
  [active |-> device.accessControl, allow |-> device.allow, rules |-> device.rules]

-----------------------------------------------------------------------------
(***************************************************************************)
(* What the resource decides.                                              *)
(***************************************************************************)
ListManaged(c) == c.access_control_allow # Unset \/ c.access_control_rules # Unset

\* Mutant of DisablesFirst: the SSID is always written last.
NeverDisablesFirst(c, filteringWasOn) == FALSE

DisablesFirst(c, filteringWasOn) == c.access_control = FALSE /\ filteringWasOn

\* Mutant of AddsFirst: addresses are always registered before others go.
AlwaysAddsFirst(active) == TRUE

AddsFirst(active) == active

\* Mutant of Keeps: every rule of an address held twice is an extra.
KeepsNoDuplicate(keep, rules, wanted) ==
  keep = {i \in Used(rules) :
            rules[i] \in wanted /\ \A j \in Used(rules) : rules[j] = rules[i] => j = i}

\* One rule stays for each wanted address: the last in the answer, whose
\* order the device does not keep.
Keeps(keep, rules, wanted) ==
  /\ keep \subseteq Used(rules)
  /\ {rules[i] : i \in keep} = wanted \intersect Registered(rules)
  /\ \A i, j \in keep : rules[i] = rules[j] => i = j

AfterList == IF disableFirst THEN "refresh" ELSE "putSsid"

\* Mutant of AfterRules: the list is written back as it was read at first.
AfterRulesStale == IF conf.access_control_allow # Unset THEN "putList" ELSE AfterList

AfterRules == IF conf.access_control_allow # Unset THEN "getListAgain" ELSE AfterList

-----------------------------------------------------------------------------
(***************************************************************************)
(* One apply, or one destroy.                                              *)
(***************************************************************************)
NoChange == [active |-> Unset, access_control |-> Unset,
             access_control_allow |-> Unset, access_control_rules |-> Unset]

Init ==
  /\ device \in Devices /\ before = device
  /\ conf = NoChange
  /\ pc = "idle" /\ outcome = "none"
  /\ current = NoSsid /\ ac = NoList
  /\ disableFirst = FALSE /\ extra = {} /\ missing = {}

Begin(c, ssid, next) ==
  /\ pc = "idle"
  /\ conf' = c /\ before' = device
  /\ current' = ssid
  /\ pc' = next /\ outcome' = "under way"
  /\ UNCHANGED <<device, disableFirst, ac, extra, missing>>

\* GET of the SSID.
Apply(c) ==
  Begin(c,
        [active |-> Value(c.active, device.active),
         accessControl |-> Value(c.access_control, device.accessControl)],
        IF DisablesFirst(c, device.accessControl) THEN "disable"
        ELSE IF ListManaged(c) THEN "getList" ELSE "putSsid")

\* Destroying disables the SSID and writes the rest back as it was read.
Destroy ==
  /\ device.active
  /\ Begin([NoChange EXCEPT !.active = FALSE],
           [active |-> FALSE, accessControl |-> device.accessControl], "destroy")

Stop(how) == pc' = "idle" /\ outcome' = how /\ Forget

\* A request fails, and with it the apply: there is no undoing.
GiveUp(how) == Stop(how) /\ UNCHANGED <<conf, before>>

\* A write the device carried out: its answer arrives, or is lost.
Answered(next) ==
  \/ pc' = next /\ UNCHANGED <<conf, current, disableFirst, ac, extra, missing, before, outcome>>
  \/ GiveUp("failed")

DisableFirst ==
  /\ pc = "disable"
  /\ PutSsid(current)
  /\ \/ /\ disableFirst' = TRUE
        /\ pc' = IF ListManaged(conf) THEN "getList" ELSE "refresh"
        /\ UNCHANGED <<conf, current, ac, extra, missing, before, outcome>>
     \/ GiveUp("failed")

ReadList ==
  /\ pc = "getList"
  /\ ac' = GetList
  /\ IF conf.access_control_rules = Unset
     THEN pc' = "putList" /\ UNCHANGED <<extra, missing>>
     ELSE \E keep \in SUBSET Ids :
            /\ Keeps(keep, device.rules, conf.access_control_rules)
            /\ extra' = Used(device.rules) \ keep
            /\ missing' = conf.access_control_rules \ Registered(device.rules)
            /\ pc' = IF extra' = {} /\ missing' = {} THEN AfterRules ELSE "reconcile"
  /\ UNCHANGED <<device, conf, current, disableFirst, before, outcome>>

Reconciled(e, m) ==
  /\ extra' = e /\ missing' = m
  /\ pc' = IF e = {} /\ m = {} THEN AfterRules ELSE "reconcile"
  /\ UNCHANGED <<conf, current, disableFirst, ac, before, outcome>>

MayAdd == pc = "reconcile" /\ (AddsFirst(ac.active) \/ extra = {})

AddRule(mac) ==
  /\ MayAdd /\ mac \in missing
  /\ PostRule(mac)
  /\ Reconciled(extra, missing \ {mac}) \/ GiveUp("failed")

ListFull ==
  /\ MayAdd /\ missing # {}
  /\ Used(device.rules) = Ids
  /\ GiveUp("full")
  /\ UNCHANGED device

RemoveRule(i) ==
  /\ pc = "reconcile" /\ i \in extra
  /\ ~AddsFirst(ac.active) \/ missing = {}
  /\ RemoveRuleAt(i)
  /\ Reconciled(extra \ {i}, missing) \/ GiveUp("failed")

ReadListAgain ==
  /\ pc = "getListAgain"
  /\ ac' = GetList /\ pc' = "putList"
  /\ UNCHANGED <<device, conf, current, disableFirst, extra, missing, before, outcome>>

WriteList ==
  /\ pc = "putList"
  /\ PutList([ac EXCEPT !.allow = conf.access_control_allow])
  /\ Answered(AfterList)

WriteSsid ==
  /\ pc = "putSsid"
  /\ PutSsid(current)
  /\ Answered("refresh")

DisableSsid ==
  /\ pc = "destroy"
  /\ PutSsid(current)
  /\ GiveUp("applied") \/ GiveUp("failed")

\* resourceWifiSSIDRead, which ends every apply that succeeds.
Refresh ==
  /\ pc = "refresh"
  /\ GiveUp("applied")
  /\ UNCHANGED device

\* A request the device did not carry out, or the provider is killed.
RequestFails ==
  /\ pc # "idle"
  /\ GiveUp("failed")
  /\ UNCHANGED device

Next ==
  \/ \E c \in Configurations : Apply(c)
  \/ Destroy \/ DisableFirst \/ ReadList
  \/ \E mac \in Macs : AddRule(mac)
  \/ \E i \in Ids : RemoveRule(i)
  \/ ListFull \/ ReadListAgain \/ WriteList \/ WriteSsid \/ DisableSsid
  \/ Refresh \/ RequestFails

Spec == Init /\ [][Next]_vars

-----------------------------------------------------------------------------
TypeOK ==
  /\ device \in Devices /\ before \in Devices
  /\ conf \in Configurations
  /\ pc \in {"idle", "disable", "getList", "reconcile", "getListAgain", "putList",
             "putSsid", "refresh", "destroy"}
  /\ current \in Ssids /\ ac \in AccessControls
  /\ disableFirst \in BOOLEAN
  /\ extra \subseteq Ids /\ missing \subseteq Macs
  /\ outcome \in {"none", "under way", "applied", "failed", "full"}

-----------------------------------------------------------------------------
\* What the configuration makes of the device it was applied to.
Wanted ==
  [active |-> Value(conf.active, before.active),
   accessControl |-> Value(conf.access_control, before.accessControl),
   allow |-> Value(conf.access_control_allow, before.allow),
   macs |-> Value(conf.access_control_rules, Registered(before.rules))]

HeldOnce(rules) == \A i, j \in Used(rules) : rules[i] = rules[j] => i = j

\* A device holds just what is wanted; a list not configured may repeat itself.
Holds(d) ==
  /\ d.active = Wanted.active /\ d.accessControl = Wanted.accessControl
  /\ d.allow = Wanted.allow /\ Registered(d.rules) = Wanted.macs
  /\ conf.access_control_rules # Unset => HeldOnce(d.rules)

Admits(filtering, allow, macs, mac) == filtering => (allow <=> mac \in macs)
AdmittedBy(d, mac) == Admits(d.accessControl, d.allow, Registered(d.rules), mac)
AdmittedAsWanted(mac) == Admits(Wanted.accessControl, Wanted.allow, Wanted.macs, mac)

Undisturbed(mac) == AdmittedBy(before, mac) /\ AdmittedAsWanted(mac) => AdmittedBy(device, mac)

(***************************************************************************)
(* "Register the new addresses first, so a client whose address is being   *)
(* replaced keeps its access until the replacement is in place"            *)
(* (resource_wifi_ssid.go:428-430), filtering on is written last and off   *)
(* is written first (:325-329).  A client admitted by what the device held *)
(* and by what is configured is admitted all the time in between, and when *)
(* the apply stops half-way, as long as a list enforced all along is not   *)
(* turned from a white list into a black one or back.                      *)
(***************************************************************************)
NobodyLockedOut ==
  (before.accessControl /\ Wanted.accessControl => before.allow = Wanted.allow)
    => \A mac \in Macs : Undisturbed(mac)

(***************************************************************************)
(* The same without the exception: "or the operator is locked out          *)
(* mid-apply" (wifi_acceptance_test.go:677-678).                           *)
(***************************************************************************)
NobodyEverLockedOut == \A mac \in Macs : Undisturbed(mac)

(***************************************************************************)
(* An address that was registered and still is to be keeps one of its      *)
(* rules, under its id (and so its name), whatever is added, removed,      *)
(* written back whole or failing; a list not configured keeps them all.    *)
(***************************************************************************)
KeptRulesSurvive ==
  IF conf.access_control_rules = Unset THEN device.rules = before.rules
  ELSE \A mac \in Registered(before.rules) \intersect conf.access_control_rules :
         \E i \in Ids : before.rules[i] = mac /\ device.rules[i] = mac

(***************************************************************************)
(* An apply that reports success has left the device as configured, each   *)
(* address once, and what is not configured as it was: "only the           *)
(* attributes you set are written; everything else keeps its current       *)
(* value" (docs/resources/sxep200w_wifi_ssid.md:74-75).  Several writes    *)
(* replace values read at different moments, so each could undo another.   *)
(***************************************************************************)
SuccessMeansConfigured == outcome = "applied" => Holds(device)

(***************************************************************************)
(* Applying what the device already holds changes nothing on it at any     *)
(* moment, not even the id of a rule or for the time of the apply.         *)
(***************************************************************************)
SettledIsUntouched == Holds(before) => device = before

(***************************************************************************)
(* "With filtering off there is nothing to lose by removing first, which   *)
(* also keeps a run at the device's rule cap from failing on the temporary *)
(* overlap" (resource_wifi_ssid.go:430-432): the list is found full only   *)
(* if it cannot hold the addresses, or filtering was and stays on.         *)
(***************************************************************************)
FullOnlyWhileFiltering ==
  outcome = "full" =>
    \/ Cardinality(conf.access_control_rules) > MaxRules
    \/ before.accessControl /\ conf.access_control # FALSE

(***************************************************************************)
(* Whom the SSID admits follows the contract of an apply: every client is  *)
(* admitted or not as before until, in one step, it is as configured.  So  *)
(* not only is nobody locked out who is to stay in (NobodyLockedOut): also *)
(* nobody is let in who is to stay out, and nobody goes back and forth.    *)
(* No order of the writes can promise that while a list enforced all along *)
(* is turned from a white list into a black one or back.                   *)
(***************************************************************************)
Flips == before.accessControl /\ Wanted.accessControl /\ before.allow # Wanted.allow

Contract == INSTANCE ApplyContract WITH
  Open   <- Unset,
  value  <- [mac \in Macs |-> AdmittedBy(device, mac)],
  goal   <- [mac \in Macs |-> AdmittedAsWanted(mac)],
  loose  <- IF Flips /\ outcome # "applied" THEN Macs ELSE {},
  result <- CASE outcome = "under way" -> "running"
              [] outcome = "applied"   -> "done"
              [] outcome \in {"failed", "full"} -> "failed"
              [] OTHER -> "none"

AdmitsByContract == Contract!Spec

=============================================================================
