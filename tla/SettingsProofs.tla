--------------------------- MODULE SettingsProofs ---------------------------
(***************************************************************************)
(* Proofs about Settings, for every value of the constants.                *)
(***************************************************************************)
EXTENDS Settings, Integers, TLAPS

Polled == Is(1, "polled")

(***************************************************************************)
(* What the resources have in common, as far as the proofs need it.        *)
(***************************************************************************)
Shape ==
  /\ Stages \in {{1}, {1, 2}}
  /\ Polled => Stages = {1}
  /\ resource.destroyed \in [Stages -> Partials]
  /\ resource.records \in {"first", "read", "written"}
  /\ \A s \in Stages :
       /\ \A f \in Fields : resource.destroyed[s][f] \in {Unset, FALSE}
       /\ Is(s, "polled") => ~Is(s, "confirms") /\ ~Is(s, "zeroes") /\ ~Is(s, "blind") /\ s = 1
       /\ Is(s, "confirms") => ~Is(s, "zeroes") /\ ~Is(s, "blind") /\ resource.records = "first"
       /\ Is(s, "blind") => ~Is(s, "zeroes") /\ resource.records # "read"
       /\ Is(s, "zeroes") =>
            Is(s, "turnedOff") /\ Is(s, "defaulted") /\ resource.destroyed[s]["active"] # Unset

\* A resource of one setting, and one of two.
LEMMA OneSetting ==
  ASSUME NEW t, NEW d, NEW r, resource = [traits |-> <<t>>, destroyed |-> <<d>>, records |-> r]
  PROVE  /\ Stages = {1}
         /\ resource.traits[1] = t
         /\ resource.destroyed[1] = d
         /\ DOMAIN resource.destroyed = {1}
         /\ resource.destroyed = [s \in {1} |-> resource.destroyed[s]]
         /\ resource.records = r
<1>1. DOMAIN <<t>> = {1} /\ DOMAIN <<d>> = {1}
  OBVIOUS
<1>2. <<t>>[1] = t /\ <<d>>[1] = d
  OBVIOUS
<1>3. <<d>> = [s \in {1} |-> <<d>>[s]]
  BY <1>1
<1> QED
  BY <1>1, <1>2, <1>3 DEF Stages

LEMMA TwoSettings ==
  ASSUME NEW t, NEW u, NEW d, NEW e, NEW r,
         resource = [traits |-> <<t, u>>, destroyed |-> <<d, e>>, records |-> r]
  PROVE  /\ Stages = {1, 2}
         /\ resource.traits[1] = t /\ resource.traits[2] = u
         /\ resource.destroyed[1] = d /\ resource.destroyed[2] = e
         /\ DOMAIN resource.destroyed = {1, 2}
         /\ resource.destroyed = [s \in {1, 2} |-> resource.destroyed[s]]
         /\ resource.records = r
<1>1. DOMAIN <<t, u>> = {1, 2} /\ DOMAIN <<d, e>> = {1, 2}
  OBVIOUS
<1>2. <<t, u>>[1] = t /\ <<t, u>>[2] = u /\ <<d, e>>[1] = d /\ <<d, e>>[2] = e
  OBVIOUS
<1>3. <<d, e>> = [s \in {1, 2} |-> <<d, e>>[s]]
  BY <1>1
<1> QED
  BY <1>1, <1>2, <1>3 DEF Stages

LEMMA PartsOff ==
  /\ Kept \in Partials /\ Off \in Partials /\ AllOff \in Partials
  /\ \A f \in Fields :
       Kept[f] \in {Unset, FALSE} /\ Off[f] \in {Unset, FALSE} /\ AllOff[f] \in {Unset, FALSE}
  /\ Off["active"] = FALSE
BY DEF Kept, Off, AllOff, Partials, Fields

\* What Shape says of one setting.
Fits(t, d, r) ==
  /\ d \in Partials
  /\ \A f \in Fields : d[f] \in {Unset, FALSE}
  /\ "confirms" \in t => "zeroes" \notin t /\ "blind" \notin t /\ r = "first"
  /\ "blind" \in t => "zeroes" \notin t /\ r # "read"
  /\ "zeroes" \in t => "turnedOff" \in t /\ "defaulted" \in t /\ d["active"] # Unset

LEMMA OneSettingShape ==
  ASSUME NEW t, NEW d, NEW r,
         resource = [traits |-> <<t>>, destroyed |-> <<d>>, records |-> r],
         Fits(t, d, r), r \in {"first", "read", "written"},
         "polled" \in t => "confirms" \notin t /\ "zeroes" \notin t /\ "blind" \notin t
  PROVE  Shape
<1>1. /\ Stages = {1} /\ resource.traits[1] = t /\ resource.destroyed[1] = d
      /\ resource.destroyed = [s \in {1} |-> resource.destroyed[s]] /\ resource.records = r
  BY OneSetting
<1>2. resource.destroyed \in [Stages -> Partials]
  BY <1>1 DEF Fits
<1>3. \A s \in Stages :
       /\ \A f \in Fields : resource.destroyed[s][f] \in {Unset, FALSE}
       /\ Is(s, "polled") => ~Is(s, "confirms") /\ ~Is(s, "zeroes") /\ ~Is(s, "blind") /\ s = 1
       /\ Is(s, "confirms") => ~Is(s, "zeroes") /\ ~Is(s, "blind") /\ resource.records = "first"
       /\ Is(s, "blind") => ~Is(s, "zeroes") /\ resource.records # "read"
       /\ Is(s, "zeroes") =>
            Is(s, "turnedOff") /\ Is(s, "defaulted") /\ resource.destroyed[s]["active"] # Unset
  BY <1>1 DEF Fits, Is
<1> QED
  BY <1>1, <1>2, <1>3 DEF Shape

LEMMA TwoSettingsShape ==
  ASSUME NEW t, NEW u, NEW d, NEW e, NEW r,
         resource = [traits |-> <<t, u>>, destroyed |-> <<d, e>>, records |-> r],
         Fits(t, d, r), Fits(u, e, r), r \in {"first", "read", "written"},
         "polled" \notin t \union u
  PROVE  Shape
<1>1. /\ Stages = {1, 2} /\ resource.traits[1] = t /\ resource.traits[2] = u
      /\ resource.destroyed[1] = d /\ resource.destroyed[2] = e
      /\ resource.destroyed = [s \in {1, 2} |-> resource.destroyed[s]] /\ resource.records = r
  BY TwoSettings
<1>2. resource.destroyed \in [Stages -> Partials]
  BY <1>1 DEF Fits
<1>3. \A s \in Stages :
       /\ \A f \in Fields : resource.destroyed[s][f] \in {Unset, FALSE}
       /\ ~Is(s, "polled")
       /\ Is(s, "confirms") => ~Is(s, "zeroes") /\ ~Is(s, "blind") /\ resource.records = "first"
       /\ Is(s, "blind") => ~Is(s, "zeroes") /\ resource.records # "read"
       /\ Is(s, "zeroes") =>
            Is(s, "turnedOff") /\ Is(s, "defaulted") /\ resource.destroyed[s]["active"] # Unset
  BY <1>1 DEF Fits, Is
<1> QED
  BY <1>1, <1>2, <1>3 DEF Shape, Polled

\* Every resource of the catalogue has this shape.
LEMMA ResourceShape == ASSUME resource \in Resources PROVE Shape
<1>1. CASE resource \in {Firewall, LAN, DateTime}
  <2>1. \A r : Fits({"always"}, Kept, r)
    BY PartsOff DEF Fits
  <2> QED BY <1>1, <2>1, OneSettingShape DEF Firewall, LAN, DateTime
<1>2. CASE resource \in {UPnP, WifiRadio, WifiSSID}
  <2>1. \A r : Fits({"always"}, Off, r)
    BY PartsOff DEF Fits
  <2> QED BY <1>2, <2>1, OneSettingShape DEF UPnP, WifiRadio, WifiSSID
<1>3. CASE resource = DMZ
  <2>1. Fits({"always", "defaulted", "zeroes", "turnedOff"}, Off, "written")
    BY PartsOff, UnsetAssumption DEF Fits
  <2> QED BY <1>3, <2>1, OneSettingShape DEF DMZ
<1>4. CASE resource = DDNS
  <2>1. Fits({"always", "complete", "refuses", "turnedOff"}, Off, "written")
    BY PartsOff DEF Fits
  <2> QED BY <1>4, <2>1, OneSettingShape DEF DDNS
<1>5. CASE resource = EcoMode
  <2>1. Fits({"always", "polled"}, AllOff, "read")
    BY PartsOff DEF Fits
  <2> QED BY <1>5, <2>1, OneSettingShape DEF EcoMode
<1>6. CASE resource = NetworkOptions
  <2>1. Fits({"always", "confirms"}, Kept, "first") /\ Fits({"complete", "refuses"}, Kept, "first")
    BY PartsOff DEF Fits
  <2> QED BY <1>6, <2>1, TwoSettingsShape DEF NetworkOptions
<1>7. CASE resource = WifiGlobal
  <2>1. Fits({"blind"}, Off, "first") /\ Fits({}, Off, "first")
    BY PartsOff DEF Fits
  <2> QED BY <1>7, <2>1, TwoSettingsShape DEF WifiGlobal
<1> QED
  BY <1>1, <1>2, <1>3, <1>4, <1>5, <1>6, <1>7 DEF Resources

-----------------------------------------------------------------------------
(***************************************************************************)
(* An operation writes each setting once, so what begins below the bound   *)
(* on pending writes stays within it.                                      *)
(***************************************************************************)
Room ==
  Polled /\ (pc \in {"read", "write"} \/ (pc = "next" /\ stage = 0)) => Len(pending) < MaxPending

TypeInv == TypeOK /\ Room

\* What an operation computes is a document, and so is what the device stores.
LEMMA DocumentType ==
  /\ \A c \in Partials, d \in Documents : Changed(c, d) \in Documents
  /\ \A s \in Stages, d \in Documents : Stored(s, d) \in Documents
  /\ AllOff \in Documents
<1>1. \A c \in Partials, d \in Documents : Changed(c, d) \in Documents
  BY DEF Changed, Partials, Documents
<1>2. AllOff \in Documents
  BY DEF AllOff, Documents
<1> QED
  BY <1>1, <1>2 DEF Stored

\* What somebody else changes is a field of a setting there is.
LEMMA NextRaced ==
  ASSUME TypeOK, Next
  PROVE  raced' \subseteq Stages \X Fields
<1>1. CASE Apply \/ Destroy
  BY <1>1 DEF Apply, Destroy, Begin
<1>2. CASE NextSetting \/ WriteFails \/ Refresh \/ ReadFails
  BY <1>2 DEF TypeOK, NextSetting, WriteFails, Refresh, ReadFails
<1>3. CASE Read \/ Write \/ Confirm \/ Poll
  <2>1. raced' \subseteq raced
    BY <1>3 DEF Read, Write, Confirm, Poll, Noticed
  <2> QED
    BY <2>1 DEF TypeOK
<1>4. CASE \E s \in Stages, f \in Fields : External(s, f)
  BY <1>4 DEF TypeOK, External
<1>5. CASE ApplyPending
  BY <1>5 DEF TypeOK, ApplyPending
<1> QED
  BY <1>1, <1>2, <1>3, <1>4, <1>5 DEF Next, Proceed

Flags ==
  /\ doing \in {"apply", "destroy"}
  /\ unknown \in BOOLEAN
  /\ overtaken \in BOOLEAN /\ recorded \in BOOLEAN /\ touched \in BOOLEAN
  /\ outcome \in {"none", "done", "failed", "refused"}

LEMMA NextFlags ==
  ASSUME Flags, Next
  PROVE  Flags'
<1> USE DEF Flags, operation, record, Goto, Finish, Settled, Record, Doubt, Answered
<1>1. CASE Apply \/ Destroy
  BY <1>1, Zenon DEF Apply, Destroy, Begin
<1>2. CASE NextSetting
  BY <1>2, Zenon DEF NextSetting
<1>3. CASE Read
  BY <1>3, Zenon DEF Read
<1>4. CASE Write
  BY <1>4, Zenon DEF Write
<1>5. CASE WriteFails \/ Confirm \/ Poll \/ Refresh \/ ReadFails
  BY <1>5, Zenon DEF WriteFails, Confirm, Poll, Refresh, ReadFails
<1>6. CASE (\E s \in Stages, f \in Fields : External(s, f)) \/ ApplyPending
  BY <1>6, Zenon DEF External, ApplyPending
<1> QED
  BY <1>1, <1>2, <1>3, <1>4, <1>5, <1>6 DEF Next, Proceed

\* The rest of TypeOK: where the operation is, and what it works on.
Data ==
  /\ device \in [Stages -> Documents]
  /\ pending \in Seq(Documents) /\ Len(pending) <= MaxPending
  /\ conf \in [Stages -> Partials]
  /\ pc \in {"idle", "next", "read", "write", "confirm", "poll", "refresh"}
  /\ stage \in {0} \union Stages
  /\ pc \in {"read", "write", "confirm", "poll"} => stage \in Stages
  /\ current \in Documents
  /\ attempt \in 0 .. Attempts - 1
  /\ Room

LEMMA InitType == Init => TypeInv
<1> SUFFICES ASSUME Init PROVE TypeInv
  OBVIOUS
<1>1. Shape
  BY ResourceShape DEF Init
<1>2. Flags
  BY Zenon DEF Flags, Init
<1>3. device \in [Stages -> Documents] /\ resource \in Resources /\ raced = {}
  BY DEF Init
<1>4. conf \in [Stages -> Partials] /\ current \in Documents
  BY PartsOff DEF Init, AllOff, Documents
<1>5. stage = 0 /\ attempt = 0 /\ pending = <<>> /\ pc = "idle"
  BY DEF Init
<1>6. Data
  BY <1>3, <1>4, <1>5, BoundsAssumption DEF Data, Room, Attempts
<1>7. raced \subseteq Stages \X Fields
  BY <1>3
<1>8. TypeOK
  BY <1>2, <1>3, <1>6, <1>7, Zenon DEF Flags, Data, TypeOK
<1> QED
  BY <1>6, <1>8 DEF TypeInv, Data

LEMMA NextData ==
  ASSUME TypeInv, Next
  PROVE  Data'
<1>1. Shape
  BY ResourceShape DEF TypeInv, TypeOK
<1>2. resource' = resource /\ Stages' = Stages /\ Polled' = Polled
  BY DEF Next, Stages, Polled, Is
<1>3. Data
  BY DEF TypeInv, TypeOK, Data
<1>4. 1 \in Stages /\ (\A s \in Stages : s \in {1, 2}) /\ (Polled => Stages = {1})
  BY <1>1 DEF Shape
<1> USE <1>2, <1>3, <1>4, DocumentType, BoundsAssumption
    DEF Data, Room, operation, record, local, Goto, Finish, Settled, Forget, Attempts
<1>5. CASE Apply
  <2>1. conf' \in [Stages -> Partials]
    BY <1>5 DEF Apply, Configurations, Stages, TypeInv, TypeOK
  <2> QED
    BY <1>5, <2>1 DEF Apply, Begin
<1>6. CASE Destroy
  BY <1>1, <1>6 DEF Destroy, Begin, Shape
<1>7. CASE NextSetting
  BY <1>7 DEF NextSetting, Remaining
<1>8. CASE Read
  BY <1>8 DEF Read
<1>9. CASE Write
  <2>1. Content \in Documents /\ stage \in Stages
    BY <1>9 DEF Write, Content
  <2>2. CASE Is(stage, "polled")
    <3>1. Polled /\ Len(pending) < MaxPending
      BY <1>1, <1>9, <2>1, <2>2 DEF Shape, Write, Polled
    <3>2. pending' = Append(pending, Content) /\ device' = device
      BY <1>9, <2>2 DEF Write
    <3>3. pending' \in Seq(Documents) /\ Len(pending') <= MaxPending
      BY <2>1, <3>1, <3>2
    <3>4. pc' \in {"poll", "confirm", "idle"} /\ stage' = stage /\ conf' = conf
      BY <1>9, <2>2 DEF Write, Answered, Doubt
    <3>5. current' \in Documents /\ attempt' \in 0 .. Attempts - 1
      BY <1>9, <2>2 DEF Write, Answered, Doubt
    <3> QED
      BY <2>1, <3>2, <3>3, <3>4, <3>5
  <2>3. CASE ~Is(stage, "polled")
    <3>1. device' \in [Stages -> Documents] /\ pending' = pending
      BY <1>9, <2>1, <2>3 DEF Write, Store
    <3>2. pc' \in {"next", "confirm", "idle"} /\ stage' = stage /\ conf' = conf
      BY <1>9, <2>3 DEF Write, Answered, Doubt
    <3>3. current' \in Documents /\ attempt' \in 0 .. Attempts - 1
      BY <1>9, <2>3 DEF Write, Answered, Doubt
    <3> QED
      BY <2>1, <3>1, <3>2, <3>3
  <2> QED
    BY <2>2, <2>3
<1>10. CASE WriteFails \/ Confirm \/ Refresh \/ ReadFails
  BY <1>10 DEF WriteFails, Doubt, Confirm, Refresh, ReadFails
<1>11. CASE Poll
  BY <1>11 DEF Poll
<1>12. CASE \E s \in Stages, f \in Fields : External(s, f)
  <2>1. PICK s \in Stages, f \in Fields : External(s, f)
    BY <1>12
  <2>2. [device[s] EXCEPT ![f] = ~@] \in Documents
    BY DEF Documents
  <2> QED
    BY <2>1, <2>2 DEF External, Store
<1>13. CASE ApplyPending
  BY <1>13 DEF ApplyPending, Store
<1> QED
  BY <1>5, <1>6, <1>7, <1>8, <1>9, <1>10, <1>11, <1>12, <1>13 DEF Next, Proceed

LEMMA NextType == TypeInv /\ [Next]_vars => TypeInv'
<1> SUFFICES ASSUME TypeInv, [Next]_vars PROVE TypeInv'
  OBVIOUS
<1>1. CASE UNCHANGED vars
  BY <1>1 DEF TypeInv, TypeOK, Room, Polled, Is, Stages, vars
<1>2. CASE Next
  <2>1. resource' = resource /\ Stages' = Stages
    BY <1>2 DEF Next, Stages
  <2>2. Flags'
    BY <1>2, NextFlags DEF Flags, TypeInv, TypeOK
  <2>3. Data'
    BY <1>2, NextData
  <2>4. raced' \subseteq Stages \X Fields
    BY <1>2, NextRaced DEF TypeInv
  <2>5. TypeOK'
    BY <2>1, <2>2, <2>3, <2>4, Zenon DEF Flags, Data, TypeOK, TypeInv
  <2> QED
    BY <2>3, <2>5 DEF TypeInv, Data
<1> QED
  BY <1>1, <1>2

(***************************************************************************)
(* Type correctness; in particular a write of eco mode is always awaited   *)
(* with at most five reads, and stages are settings the resource has.      *)
(***************************************************************************)
THEOREM TypeCorrect == Spec => []TypeOK
<1>1. TypeInv => TypeOK
  BY DEF TypeInv
<1> QED
  BY <1>1, InitType, NextType, PTL DEF Spec

-----------------------------------------------------------------------------
(***************************************************************************)
(* When an apply records the resource, in each of the three ways there are *)
(* to do so: before it reads, when it reads, or after it has written.      *)
(***************************************************************************)
InTime ==
  doing = "apply" =>
    /\ resource.records = "first" /\ (pc # "idle" \/ touched) => recorded
    /\ resource.records = "read" /\ (pc = "write" \/ touched) => recorded
    /\ resource.records = "written" /\ touched /\ ~recorded => outcome = "failed" /\ pc = "idle"

LEMMA NextInTime ==
  ASSUME TypeInv, InTime, [Next]_vars
  PROVE  InTime'
<1>1. Shape
  BY ResourceShape DEF TypeInv, TypeOK
<1>2. CASE UNCHANGED vars
  BY <1>2 DEF InTime, vars
<1>3. ASSUME Next PROVE resource' = resource
  BY <1>3 DEF Next
<1> USE DEF InTime, operation, record, Goto, Finish, Settled, Record
<1>4. ASSUME Next, Apply \/ Destroy PROVE InTime'
  BY <1>3, <1>4, Zenon DEF Apply, Destroy, Begin
<1>5. ASSUME Next, NextSetting PROVE InTime'
  <2>1. ASSUME pc' = "write", doing = "apply" PROVE resource.records # "read"
    BY <1>1, <1>5, <2>1 DEF NextSetting, Remaining, Shape
  <2> QED
    BY <1>3, <1>5, <2>1 DEF NextSetting
<1>6. ASSUME Next, Read PROVE InTime'
  BY <1>3, <1>6 DEF Read
<1>7. ASSUME Next, Write PROVE InTime'
  <2>1. stage \in Stages
    BY <1>7 DEF Write, TypeInv, TypeOK
  <2>2. CASE Answered
    BY <1>3, <1>7, <2>2 DEF Write, Answered
  <2>3. CASE Doubt /\ UNCHANGED recorded
    BY <1>1, <1>3, <1>7, <2>1, <2>3 DEF Write, Doubt, Shape
  <2> QED
    BY <1>7, <2>2, <2>3 DEF Write
<1>8. ASSUME Next, WriteFails PROVE InTime'
  BY <1>3, <1>8 DEF WriteFails, Doubt
<1>9. ASSUME Next, Confirm \/ Poll \/ Refresh \/ ReadFails PROVE InTime'
  BY <1>3, <1>9 DEF Confirm, Poll, Refresh, ReadFails
<1>10. ASSUME Next, (\E s \in Stages, f \in Fields : External(s, f)) \/ ApplyPending PROVE InTime'
  <2>1. UNCHANGED <<doing, recorded, touched, pc, outcome>>
    BY <1>10, Zenon DEF External, ApplyPending
  <2> QED
    BY <1>3, <1>10, <2>1, Zenon
<1> QED
  BY <1>2, <1>4, <1>5, <1>6, <1>7, <1>8, <1>9, <1>10 DEF Next, Proceed

(***************************************************************************)
(* What an apply may have written is recorded in the Terraform state: the  *)
(* id is set before the first write, or else the apply has failed at its   *)
(* only one.                                                               *)
(***************************************************************************)
THEOREM Tracked == Spec => []WritesAreRecorded
<1>1. Init => InTime
  BY DEF Init, InTime
<1>2. TypeInv /\ InTime => WritesAreRecorded
  <2> SUFFICES ASSUME TypeInv, InTime, touched, ~recorded, doing = "apply"
               PROVE  resource.records = "written" /\ outcome = "failed"
    BY DEF WritesAreRecorded
  <2>1. resource.records \in {"first", "read", "written"}
    BY ResourceShape DEF TypeInv, TypeOK, Shape
  <2> QED
    BY <2>1 DEF InTime
<1> QED
  BY <1>1, <1>2, InitType, NextType, NextInTime, PTL DEF Spec

-----------------------------------------------------------------------------
(***************************************************************************)
(* What is configured, and what the operation is about.                    *)
(***************************************************************************)
Planned ==
  /\ pc # "idle" => outcome = "none"
  /\ doing = "destroy" => conf = resource.destroyed
  /\ pc = "confirm" => Is(stage, "confirms")
  /\ pc = "poll" => Is(stage, "polled")
  /\ \A s \in Stages :
       Is(s, "zeroes") =>
         \/ conf[s]["active"] # Unset
         \/ pc = "idle" /\ (\A f \in Fields : conf[s][f] = Unset)

\* What is to be written agrees with the configuration, where it says anything.
Agrees(doc, s) == \A f \in Fields : conf[s][f] # Unset => doc[f] = conf[s][f]

\* It has, in what the configuration leaves alone, what the device has.
LeavesAlone(doc, s) ==
  \A f \in Fields : conf[s][f] = Unset /\ <<s, f>> \notin raced => doc[f] = device[s][f]

CurrentRight ==
  /\ pc = "write" /\ ~Is(stage, "blind") => Agrees(current, stage)
  /\ pc = "write" /\ ~Is(stage, "blind") /\ ~overtaken => LeavesAlone(current, stage)
  /\ pc \in {"confirm", "poll"} => Agrees(current, stage)

PendingRight ==
  /\ pending # <<>> \/ overtaken => Polled
  /\ ~overtaken =>
       /\ pc \in {"read", "write"} \/ stage = 0 => pending = <<>>
       /\ \A i \in 1 .. Len(pending) :
            /\ Agrees(pending[i], 1) /\ LeavesAlone(pending[i], 1)
            /\ pc = "poll" => pending[i] = current

\* The operation has dealt with the setting, or found nothing to do.
Dealt(s) ==
  s < stage \/ (pc = "next" /\ s = stage) \/ pc = "refresh" \/ outcome = "done"

DealtRight ==
  ~overtaken =>
    \A s \in Stages, f \in Fields :
      Dealt(s) /\ Wanted(s, f) # Unset /\ <<s, f>> \notin raced => device[s][f] = Wanted(s, f)

Sound == Planned /\ CurrentRight /\ PendingRight /\ DealtRight

\* What is wanted is what is configured, and what the device makes of that.
LEMMA WhatIsWanted ==
  ASSUME NEW s, NEW f \in Fields
  PROVE  /\ conf[s][f] # Unset => Wanted(s, f) # Unset
         /\ (\A g \in Fields : conf[s][g] = Unset) => Wanted(s, f) = Unset
         /\ ~Is(s, "zeroes") => Wanted(s, f) = conf[s][f]
BY UnsetAssumption DEF Wanted, Fields

LEMMA InitSound == Init => Sound
<1> SUFFICES ASSUME Init PROVE Sound
  OBVIOUS
<1>1. \A s \in Stages, f \in Fields : conf[s][f] = Unset
  BY DEF Init, Kept
<1>2. pc = "idle" /\ outcome = "none" /\ doing = "apply" /\ pending = <<>> /\ overtaken = FALSE
  BY DEF Init
<1> QED
  BY <1>1, <1>2, WhatIsWanted DEF Sound, Planned, CurrentRight, PendingRight, DealtRight

LEMMA NextPlanned ==
  ASSUME TypeInv, Sound, Next
  PROVE  Planned'
<1>1. Shape
  BY ResourceShape DEF TypeInv, TypeOK
<1>2. resource' = resource /\ Stages' = Stages /\ Polled' = Polled
  BY DEF Next, Stages, Polled, Is
<1>3. /\ resource \in Resources
      /\ pc \in {"read", "write", "confirm", "poll"} => stage \in Stages
  BY DEF TypeInv, TypeOK
<1>4. Planned
  BY DEF Sound
<1> USE <1>2, <1>3, <1>4 DEF Planned, operation, Is, Goto, Finish, Settled
<1>5. CASE Apply
  <2>1. \A s \in Stages : Configurable(resource.traits[s], conf'[s])
    BY <1>5 DEF Apply, Configurations, Stages
  <2>2. \A s \in Stages : Is(s, "zeroes") => conf'[s]["active"] # Unset
    BY <1>1, <2>1 DEF Configurable, Shape
  <2> QED
    BY <1>5, <2>2 DEF Apply, Begin
<1>6. CASE Destroy
  <2>1. \A s \in Stages : Is(s, "zeroes") => resource.destroyed[s]["active"] # Unset
    BY <1>1 DEF Shape
  <2> QED
    BY <1>6, <2>1 DEF Destroy, Begin
<1>7. CASE NextSetting
  BY <1>7 DEF NextSetting
<1>8. CASE Read
  BY <1>8 DEF Read
<1>9. CASE Write
  BY <1>9 DEF Write, Answered, Doubt
<1>10. CASE WriteFails
  BY <1>10 DEF WriteFails, Doubt
<1>11. CASE Confirm \/ Poll \/ Refresh \/ ReadFails
  BY <1>11 DEF Confirm, Poll, Refresh, ReadFails
<1>12. CASE (\E s \in Stages, f \in Fields : External(s, f)) \/ ApplyPending
  <2>1. UNCHANGED <<doing, conf, pc, stage, outcome>>
    BY <1>12, Zenon DEF External, ApplyPending
  <2> QED
    BY <2>1
<1> QED
  BY <1>5, <1>6, <1>7, <1>8, <1>9, <1>10, <1>11, <1>12 DEF Next, Proceed

\* Whatever others change, a field or its zeroed companion, counts as raced.
LEMMA ExternalRaces ==
  ASSUME TypeOK, \E s \in Stages, f \in Fields : External(s, f),
         NEW t \in Stages, NEW g \in Fields, <<t, g>> \notin raced'
  PROVE  <<t, g>> \notin raced /\ device'[t][g] = device[t][g]
<1>1. PICK s \in Stages, f \in Fields : External(s, f)
  OBVIOUS
<1>2. raced' = raced \union {<<s, h>> : h \in {k \in Fields : device'[s][k] # device[s][k]}}
  BY <1>1 DEF External
<1>3. CASE t = s
  BY <1>2, <1>3
<1>4. CASE t # s
  <2>1. device'[t] = device[t]
    BY <1>1, <1>4 DEF External, Store, TypeOK
  <2> QED
    BY <1>2, <2>1
<1> QED
  BY <1>3, <1>4

\* What a read leads to, and what a write puts in.
LEMMA ContentRight ==
  ASSUME TypeInv, Sound
  PROVE  /\ \A s \in Stages :
              /\ Agrees(Changed(conf[s], device[s]), s)
              /\ \A f \in Fields :
                   conf[s][f] = Unset => Changed(conf[s], device[s])[f] = device[s][f]
         /\ pc = "write" => Agrees(Content, stage)
         /\ pc = "write" /\ ~overtaken => LeavesAlone(Content, stage)
<1>1. \A s \in Stages :
        /\ Agrees(Changed(conf[s], device[s]), s)
        /\ \A f \in Fields : conf[s][f] = Unset => Changed(conf[s], device[s])[f] = device[s][f]
  BY DEF Agrees, Changed
<1>2. pc = "write" => stage \in Stages
  BY DEF TypeInv, TypeOK
<1> QED
  BY <1>1, <1>2 DEF Content, Sound, CurrentRight, LeavesAlone

LEMMA NextCurrent ==
  ASSUME TypeInv, Sound, Next
  PROVE  CurrentRight'
<1>1. Shape
  BY ResourceShape DEF TypeInv, TypeOK
<1>2. resource' = resource /\ Stages' = Stages /\ (pc \in {"read", "write", "confirm", "poll"} => stage \in Stages)
  BY DEF Next, Stages, TypeInv, TypeOK
<1>3. CurrentRight
  BY DEF Sound
<1> USE <1>2, <1>3 DEF operation, local, Is, Goto, Finish, Settled
<1>5. CASE Apply \/ Destroy
  BY <1>5 DEF Apply, Destroy, Begin, CurrentRight
<1>7. CASE NextSetting
  <2>1. pc' = "write" => Is(stage', "blind")
    BY <1>7 DEF NextSetting
  <2>2. pc' \notin {"confirm", "poll"}
    BY <1>7 DEF NextSetting
  <2> QED
    BY <2>1, <2>2 DEF CurrentRight
<1>8. CASE Read
  <2>1. CASE pc' = "write"
    <3>1. /\ current' = Changed(conf[stage], device[stage])
          /\ stage' = stage /\ conf' = conf /\ device' = device /\ stage \in Stages
      BY <1>8, <2>1 DEF Read
    <3>2. Agrees(current, stage)'
      BY <3>1, ContentRight DEF Agrees
    <3>3. LeavesAlone(current, stage)'
      BY <3>1, ContentRight DEF LeavesAlone
    <3> QED
      BY <2>1, <3>2, <3>3 DEF CurrentRight
  <2>2. CASE pc' # "write"
    BY <1>8, <2>2 DEF Read, CurrentRight
  <2> QED
    BY <2>1, <2>2
<1>9. CASE Write
  <2>1. CASE pc' \in {"confirm", "poll"}
    <3>1. (Is(stage, "confirms") \/ Is(stage, "polled")) /\ UNCHANGED <<current, stage, conf>>
      BY <1>9, <2>1 DEF Write, Answered, Doubt
    <3>2. ~Is(stage, "blind")
      BY <1>1, <1>9, <3>1 DEF Write, Shape
    <3>3. Agrees(current, stage)
      BY <1>9, <3>2 DEF Write, CurrentRight
    <3>4. Agrees(current, stage)'
      BY <3>1, <3>3 DEF Agrees
    <3> QED
      BY <2>1, <3>4 DEF CurrentRight
  <2>2. pc' # "write"
    BY <1>9 DEF Write, Answered, Doubt
  <2> QED
    BY <2>1, <2>2 DEF CurrentRight
<1>10. CASE WriteFails
  <2>1. CASE pc' = "confirm"
    <3>1. Is(stage, "confirms") /\ UNCHANGED <<current, stage, conf>>
      BY <1>10, <2>1 DEF WriteFails, Doubt
    <3>2. ~Is(stage, "blind")
      BY <1>1, <1>10, <3>1 DEF WriteFails, Shape
    <3>3. Agrees(current, stage)
      BY <1>10, <3>2 DEF WriteFails, CurrentRight
    <3>4. Agrees(current, stage)'
      BY <3>1, <3>3 DEF Agrees
    <3> QED
      BY <2>1, <3>4 DEF CurrentRight
  <2>2. pc' \notin {"write", "poll"}
    BY <1>10 DEF WriteFails, Doubt
  <2> QED
    BY <2>1, <2>2 DEF CurrentRight
<1>11. CASE Confirm \/ Poll \/ Refresh \/ ReadFails
  <2>1. pc' \notin {"write", "confirm"}
    BY <1>11 DEF Confirm, Poll, Refresh, ReadFails
  <2>2. pc' = "poll" => pc = "poll" /\ UNCHANGED <<current, stage, conf>>
    BY <1>11 DEF Confirm, Poll, Refresh, ReadFails
  <2> QED
    BY <2>1, <2>2 DEF CurrentRight, Agrees
<1>12. CASE \E s \in Stages, f \in Fields : External(s, f)
  <2>1. UNCHANGED <<conf, overtaken, pc, stage, current>>
    BY <1>12, Zenon DEF External
  <2>2. \A t \in Stages, g \in Fields :
          <<t, g>> \notin raced' => <<t, g>> \notin raced /\ device'[t][g] = device[t][g]
    BY <1>12, ExternalRaces, Zenon DEF TypeInv
  <2>3. Agrees(current, stage) => Agrees(current, stage)'
    BY <2>1 DEF Agrees
  <2>4. stage \in Stages /\ LeavesAlone(current, stage) => LeavesAlone(current, stage)'
    BY <2>1, <2>2 DEF LeavesAlone
  <2> QED
    BY <2>1, <2>3, <2>4 DEF CurrentRight
<1>13. CASE ApplyPending
  <2>1. UNCHANGED <<conf, overtaken, pc, stage, current, raced>> /\ pending # <<>>
    BY <1>13 DEF ApplyPending
  <2>2. ~(pc = "write" /\ ~overtaken)
    BY <2>1 DEF Sound, PendingRight
  <2> QED
    BY <2>1, <2>2 DEF CurrentRight, Agrees
<1> QED
  BY <1>5, <1>7, <1>8, <1>9, <1>10, <1>11, <1>12, <1>13 DEF Next, Proceed

LEMMA NextPending ==
  ASSUME TypeInv, Sound, Next
  PROVE  PendingRight'
<1>1. Shape
  BY ResourceShape DEF TypeInv, TypeOK
<1>2. /\ resource' = resource /\ Stages' = Stages /\ Polled' = Polled
      /\ (pc \in {"read", "write", "confirm", "poll"} => stage \in Stages)
      /\ stage \in {0} \union Stages /\ pending \in Seq(Documents)
  BY DEF Next, Stages, Polled, Is, TypeInv, TypeOK
<1>3. PendingRight
  BY DEF Sound
<1>4. /\ Stages \in {{1}, {1, 2}} /\ (Polled => Stages = {1})
      /\ Polled => ~Is(1, "confirms") /\ ~Is(1, "zeroes") /\ ~Is(1, "blind")
  BY <1>1 DEF Shape, Polled
<1> USE <1>2, <1>3 DEF operation, local, Goto, Finish, Settled
<1>5. CASE Apply \/ Destroy
  <2>1. /\ pending' = pending /\ stage' = 0 /\ pc' = "next" /\ overtaken' = (pending # <<>>)
    BY <1>5 DEF Apply, Destroy, Begin
  <2>2. ~overtaken' => pending' = <<>>
    BY <2>1
  <2>3. pending' # <<>> \/ overtaken' => Polled
    BY <2>1 DEF PendingRight
  <2>4. pending' = <<>> => 1 .. Len(pending') = {}
    OBVIOUS
  <2> QED
    BY <2>2, <2>3, <2>4 DEF PendingRight
<1>6. ASSUME UNCHANGED <<device, pending, conf, overtaken>>, raced' = raced,
             stage' = 0 => stage = 0, pc' # "poll",
             ~overtaken /\ pc' \in {"read", "write"} => pending = <<>>
      PROVE  PendingRight'
  BY <1>6 DEF PendingRight, Agrees, LeavesAlone
<1>7. CASE NextSetting
  <2>1. stage' = 0 => stage = 0
    BY <1>4, <1>7 DEF NextSetting, Remaining
  <2>2. ~overtaken /\ pc' \in {"read", "write"} => pending = <<>>
    <3>1. pc' \in {"read", "write"} => stage' \in Stages /\ stage < stage'
      BY <1>4, <1>7 DEF NextSetting, Remaining
    <3>2. Polled /\ pc' \in {"read", "write"} => stage = 0
      BY <1>4, <3>1
    <3> QED
      BY <3>2 DEF PendingRight
  <2> QED
    BY <1>6, <1>7, <2>1, <2>2 DEF NextSetting
<1>8. CASE Read
  <2>1. UNCHANGED <<device, pending, conf, overtaken, stage>> /\ pc' # "poll" /\ stage # 0
    BY <1>4, <1>8 DEF Read
  <2>2. ~overtaken => pending = <<>>
    BY <1>8 DEF Read, PendingRight
  <2>3. pending = <<>> => 1 .. Len(pending) = {}
    OBVIOUS
  <2> QED
    BY <2>1, <2>2, <2>3 DEF PendingRight
<1>9. CASE Write
  <2>1. ~overtaken => pending = <<>>
    BY <1>9 DEF Write, PendingRight
  <2>2. UNCHANGED <<conf, overtaken, stage>> /\ stage # 0 /\ stage \in Stages /\ pc = "write"
    BY <1>4, <1>9 DEF Write
  <2>3. CASE Is(stage, "polled")
    <3>1. Polled /\ stage = 1 /\ ~Is(stage, "blind")
      BY <1>1, <2>2, <2>3 DEF Shape, Polled
    <3>2. pending' = Append(pending, Content) /\ UNCHANGED <<device, raced>> /\ Content = current
      BY <1>9, <2>3, <3>1 DEF Write, Content
    <3>3. pc' \notin {"read", "write"} /\ (pc' = "poll" => current' = current)
      BY <1>9 DEF Write, Answered, Doubt
    <3>4. Agrees(current, 1) /\ (~overtaken => LeavesAlone(current, 1))
      BY <3>1, <3>2, <2>2, ContentRight
    <3>5. ~overtaken => pending' = <<current>>
      BY <2>1, <3>2
    <3>6. ~overtaken => (\A i \in 1 .. Len(pending') : i = 1 /\ pending'[i] = current)
      <4>1. Len(<<current>>) = 1 /\ <<current>>[1] = current /\ 1 .. 1 = {1}
        OBVIOUS
      <4> QED
        BY <3>5, <4>1
    <3>7. ~overtaken' =>
            \A i \in 1 .. Len(pending') :
              Agrees(pending[i], 1)' /\ LeavesAlone(pending[i], 1)'
      BY <2>2, <3>2, <3>4, <3>6 DEF Agrees, LeavesAlone
    <3> QED
      BY <2>2, <3>1, <3>3, <3>6, <3>7 DEF PendingRight
  <2>4. CASE ~Is(stage, "polled")
    <3>1. pending' = pending /\ pc' # "poll"
      BY <1>9, <2>4 DEF Write, Answered, Doubt
    <3>2. pending = <<>> => 1 .. Len(pending) = {}
      OBVIOUS
    <3> QED
      BY <2>1, <2>2, <3>1, <3>2 DEF PendingRight
  <2> QED
    BY <2>3, <2>4
<1>10. CASE WriteFails
  BY <1>6, <1>10 DEF WriteFails, Doubt
<1>11. CASE Refresh \/ ReadFails
  BY <1>6, <1>11 DEF Refresh, ReadFails
<1>12. CASE Confirm
  <2>1. Is(stage, "confirms") /\ stage \in Stages
    BY <1>12 DEF Confirm, Sound, Planned
  <2>2. ~Polled
    BY <1>4, <2>1
  <2>3. pending' = <<>> /\ overtaken' = overtaken /\ ~overtaken
    BY <1>12, <2>2 DEF Confirm, PendingRight
  <2>4. pending' = <<>> => 1 .. Len(pending') = {}
    OBVIOUS
  <2> QED
    BY <2>2, <2>3, <2>4 DEF PendingRight
<1>13. CASE Poll
  <2>1. Polled /\ stage = 1
    BY <1>1, <1>13 DEF Poll, Sound, Planned, Shape, Polled
  <2>2. /\ UNCHANGED <<device, pending, conf, overtaken, stage>>
        /\ pc' \notin {"read", "write"} /\ (pc' = "poll" => current' = current)
    BY <1>13 DEF Poll
  <2>3. ~overtaken => \A i \in 1 .. Len(pending) : pending[i] = current /\ Agrees(pending[i], 1)
    BY <1>13 DEF Poll, PendingRight
  <2>4. CASE device[stage] = current
    BY <2>1, <2>2, <2>3, <2>4 DEF PendingRight, Agrees, LeavesAlone
  <2>5. CASE device[stage] # current
    <3>1. raced' = raced
      BY <1>13, <2>5 DEF Poll
    <3> QED
      BY <2>1, <2>2, <2>3, <3>1 DEF PendingRight, Agrees, LeavesAlone
  <2> QED
    BY <2>4, <2>5
<1>14. CASE \E s \in Stages, f \in Fields : External(s, f)
  <2>1. UNCHANGED <<conf, overtaken, pc, stage, current, pending>>
    BY <1>14, Zenon DEF External
  <2>2. \A g \in Fields :
          <<1, g>> \notin raced' => <<1, g>> \notin raced /\ device'[1][g] = device[1][g]
    <3>1. 1 \in Stages
      BY <1>4
    <3> QED
      BY <1>14, <3>1, ExternalRaces, Zenon DEF TypeInv
  <2>3. \A i \in 1 .. Len(pending) :
          Agrees(pending[i], 1) /\ LeavesAlone(pending[i], 1) =>
            Agrees(pending[i], 1)' /\ LeavesAlone(pending[i], 1)'
    BY <2>1, <2>2 DEF Agrees, LeavesAlone
  <2> QED
    BY <2>1, <2>3 DEF PendingRight
<1>15. CASE ApplyPending
  <2>1. /\ UNCHANGED <<conf, overtaken, pc, stage, current, raced>>
        /\ pending # <<>> /\ pending' = Tail(pending)
    BY <1>15 DEF ApplyPending
  <2>2. Polled /\ ~Is(1, "zeroes")
    BY <1>4, <2>1 DEF PendingRight
  <2>3. device'[1] \in {Head(pending), device[1]}
    BY <1>4, <1>15, <2>2 DEF ApplyPending, Store, Stored, TypeInv, TypeOK
  <2>4. \A i \in 1 .. Len(pending') : i + 1 \in 1 .. Len(pending) /\ pending'[i] = pending[i + 1]
    BY <2>1
  <2>5. Head(pending) = pending[1] /\ 1 \in 1 .. Len(pending)
    BY <2>1
  <2>6. ~overtaken' => \A i \in 1 .. Len(pending') : Agrees(pending[i], 1)'
    BY <2>1, <2>4 DEF PendingRight, Agrees
  <2>7. ~overtaken' => \A i \in 1 .. Len(pending') : LeavesAlone(pending[i], 1)'
    BY <2>1, <2>3, <2>4, <2>5 DEF PendingRight, LeavesAlone
  <2> QED
    BY <2>1, <2>2, <2>4, <2>6, <2>7 DEF PendingRight
<1> QED
  BY <1>5, <1>7, <1>8, <1>9, <1>10, <1>11, <1>12, <1>13, <1>14, <1>15 DEF Next, Proceed

\* A document that agrees with the configuration puts in force what it says.
LEMMA StoredRight ==
  ASSUME TypeInv, Sound, NEW s \in Stages, NEW doc \in Documents, Agrees(doc, s),
         NEW f \in Fields, Wanted(s, f) # Unset
  PROVE  /\ Stored(s, doc)[f] = Wanted(s, f)
         /\ ~Is(s, "zeroes") => doc[f] = Wanted(s, f)
<1>1. conf[s][f] # Unset => doc[f] = conf[s][f]
  BY DEF Agrees
<1>2. CASE ~Is(s, "zeroes")
  BY <1>1, <1>2 DEF Stored, Wanted
<1>3. CASE Is(s, "zeroes")
  <2>1. conf[s]["active"] # Unset /\ "active" \in Fields
    BY <1>3, WhatIsWanted DEF Sound, Planned, Fields
  <2>2. doc["active"] = conf[s]["active"] /\ doc["active"] \in BOOLEAN
    BY <2>1 DEF Agrees, Documents
  <2>3. CASE doc["active"] = FALSE
    <3>1. Stored(s, doc) = AllOff
      BY <1>3, <2>3 DEF Stored
    <3>2. Wanted(s, f) = FALSE
      BY <1>3, <2>2, <2>3 DEF Wanted
    <3> QED
      BY <1>3, <3>1, <3>2 DEF AllOff
  <2>4. CASE doc["active"] = TRUE
    <3>1. Stored(s, doc) = doc
      BY <2>4 DEF Stored
    <3>2. Wanted(s, f) = conf[s][f]
      BY <2>2, <2>4 DEF Wanted
    <3> QED
      BY <1>1, <1>3, <3>1, <3>2
  <2> QED
    BY <2>2, <2>3, <2>4
<1> QED
  BY <1>2, <1>3

LEMMA NextDealt ==
  ASSUME TypeInv, Sound, Next
  PROVE  DealtRight'
<1>1. Shape
  BY ResourceShape DEF TypeInv, TypeOK
<1>2. /\ resource' = resource /\ Stages' = Stages /\ Polled' = Polled
      /\ (pc \in {"read", "write", "confirm", "poll"} => stage \in Stages)
      /\ stage \in {0} \union Stages
      /\ \A s \in Stages : s \in {1, 2}
      /\ device \in [Stages -> Documents]
  BY <1>1 DEF Next, Stages, Polled, Is, TypeInv, TypeOK, Shape
<1>3. DealtRight /\ (pc # "idle" => outcome = "none") /\ Planned
  BY DEF Sound, Planned
<1> USE <1>2, <1>3 DEF operation, local, Goto, Finish, Settled
\* It is enough that what was dealt with stays, and what is new is right.
<1>4. ASSUME UNCHANGED <<conf, overtaken>>,
             ~overtaken =>
               \A s \in Stages, f \in Fields :
                 Dealt(s)' /\ Wanted(s, f) # Unset /\ <<s, f>> \notin raced' =>
                   \/ Dealt(s) /\ <<s, f>> \notin raced /\ device'[s][f] = device[s][f]
                   \/ device'[s][f] = Wanted(s, f)
      PROVE  DealtRight'
  <2>1. \A s \in Stages, f \in Fields : Wanted(s, f)' = Wanted(s, f)
    BY <1>4 DEF Wanted, Is
  <2>2. ASSUME NEW s \in Stages, NEW f \in Fields, ~overtaken,
               Dealt(s)', Wanted(s, f) # Unset, <<s, f>> \notin raced'
        PROVE  device'[s][f] = Wanted(s, f)
    BY <1>4, <2>2 DEF DealtRight
  <2> QED
    BY <1>4, <2>1, <2>2 DEF DealtRight
<1>5. CASE Apply \/ Destroy
  <2>1. stage' = 0 /\ pc' = "next" /\ outcome' = "none"
    BY <1>5 DEF Apply, Destroy, Begin
  <2> QED
    BY <2>1 DEF DealtRight, Dealt
<1>6. CASE NextSetting
  <2>1. \A s \in Stages, f \in Fields :
          s > stage /\ s \notin Remaining => Wanted(s, f) = Unset
    BY WhatIsWanted DEF Remaining, Needed, Says
  <2>2. UNCHANGED <<conf, overtaken, device, raced>> /\ pc = "next"
    BY <1>6 DEF NextSetting
  <2>3. ASSUME NEW t \in Stages, NEW f \in Fields, Dealt(t)', Wanted(t, f) # Unset
        PROVE  Dealt(t)
    <3>1. CASE Remaining = {}
      BY <2>1, <2>2, <2>3, <3>1 DEF Dealt
    <3>2. CASE Remaining # {}
      <4>1. PICK s \in Remaining :
              ComesFirst(s) /\ stage' = s /\ pc' \in {"read", "write"} /\ outcome' = outcome
        BY <1>6, <3>2 DEF NextSetting
      <4>2. t < s
        BY <2>2, <2>3, <4>1 DEF Dealt
      <4>3. t \notin Remaining
        BY <4>1, <4>2 DEF ComesFirst, Remaining
      <4> QED
        BY <2>1, <2>2, <2>3, <4>3 DEF Dealt
    <3> QED
      BY <3>1, <3>2
  <2> QED
    BY <1>4, <2>2, <2>3
<1>7. CASE Read
  <2>1. /\ UNCHANGED <<conf, overtaken, device, stage>> /\ pc = "read" /\ stage \in Stages
        /\ \A p : p \in raced => p \in raced' \/ p[1] = stage
        /\ outcome' # "done" /\ pc' \in {"idle", "next", "write"}
        /\ pc' = "next" => OffAlready
    BY <1>7 DEF Read, Noticed
  <2>2. ASSUME NEW s \in Stages, NEW f \in Fields,
               Dealt(s)', Wanted(s, f) # Unset, <<s, f>> \notin raced'
        PROVE  \/ Dealt(s) /\ <<s, f>> \notin raced
               \/ device[s][f] = Wanted(s, f)
    <3>1. CASE s < stage
      BY <2>1, <2>2, <3>1 DEF Dealt
    <3>2. CASE ~(s < stage)
      <4>1. pc' = "next" /\ s = stage
        BY <2>1, <2>2, <3>2 DEF Dealt
      <4>2. ~Is(s, "zeroes") /\ ~device[s][f] /\ device[s][f] \in BOOLEAN /\ doing = "destroy"
        <5>1. OffAlready
          BY <2>1, <4>1
        <5>2. ~Is(stage, "turnedOff") /\ doing = "destroy"
          BY <5>1 DEF OffAlready
        <5>3. ~Is(s, "zeroes") /\ conf[s][f] # Unset
          BY <1>1, <2>2, <4>1, <5>2, WhatIsWanted DEF Shape
        <5>4. device[s][f] \in BOOLEAN
          BY DEF Documents
        <5>5. ~device[stage][f]
          BY <4>1, <5>1, <5>3, Zenon DEF OffAlready
        <5> QED
          BY <4>1, <5>2, <5>3, <5>4, <5>5
      <4>3. conf[s][f] = FALSE
        <5>1. conf[s][f] # Unset /\ conf = resource.destroyed
          BY <2>2, <4>2, WhatIsWanted DEF Planned
        <5> QED
          BY <1>1, <5>1 DEF Shape
      <4> QED
        BY <4>2, <4>3 DEF Wanted
    <3> QED
      BY <3>1, <3>2
  <2> QED
    BY <1>4, <2>1, <2>2
<1>8. CASE Write
  <2>1. /\ UNCHANGED <<conf, overtaken, stage>> /\ pc = "write" /\ stage \in Stages
        /\ outcome' # "done" /\ pc' \in {"idle", "next", "confirm", "poll"}
        /\ pc' = "next" => ~Is(stage, "polled")
    BY <1>8 DEF Write, Answered, Doubt
  <2>2. CASE Is(stage, "polled")
    <3>1. UNCHANGED <<device, raced>>
      BY <1>8, <2>2 DEF Write
    <3> QED
      BY <1>4, <2>1, <2>2, <3>1 DEF Dealt
  <2>3. CASE ~Is(stage, "polled")
    <3>1. /\ device' = [device EXCEPT ![stage] = Stored(stage, Content)]
          /\ \A p : p \in raced => p \in raced' \/ p[1] = stage
      BY <1>8, <2>3 DEF Write, Store, Noticed
    <3>2. Content \in Documents /\ Agrees(Content, stage)
      BY <2>1, ContentRight, DocumentType DEF Content, TypeInv, TypeOK
    <3>3. ASSUME NEW s \in Stages, NEW f \in Fields,
                 Dealt(s)', Wanted(s, f) # Unset, <<s, f>> \notin raced'
          PROVE  \/ Dealt(s) /\ <<s, f>> \notin raced /\ device'[s][f] = device[s][f]
                 \/ device'[s][f] = Wanted(s, f)
      <4>1. CASE s = stage
        <5>1. device'[s] = Stored(s, Content)
          BY <3>1, <4>1
        <5>2. Agrees(Content, s)
          BY <3>2, <4>1
        <5> QED
          BY <3>2, <3>3, <5>1, <5>2, StoredRight
      <4>2. CASE s # stage
        BY <2>1, <3>1, <3>3, <4>2 DEF Dealt
      <4> QED
        BY <4>1, <4>2
    <3> QED
      BY <1>4, <2>1, <3>3
  <2> QED
    BY <2>2, <2>3
<1>9. CASE WriteFails
  <2>1. UNCHANGED <<conf, overtaken, device, raced, stage>> /\ pc' \in {"confirm", "idle"} /\ outcome' # "done"
    BY <1>9 DEF WriteFails, Doubt
  <2> QED
    BY <1>4, <2>1 DEF Dealt
<1>10. CASE Confirm \/ Poll
  <2>1. /\ UNCHANGED <<conf, overtaken, device, stage>> /\ pc \in {"confirm", "poll"} /\ stage \in Stages
        /\ \A p : p \in raced => p \in raced' \/ p[1] = stage
        /\ outcome' # "done" /\ pc' \in {"idle", "next", "poll"}
        /\ pc' = "next" => device[stage] = current
    BY <1>10 DEF Confirm, Poll, Noticed
  <2>2. ~Is(stage, "zeroes") /\ Agrees(current, stage) /\ current \in Documents
    BY <1>1, <2>1 DEF Shape, Planned, Sound, CurrentRight, TypeInv, TypeOK
  <2>3. ASSUME NEW s \in Stages, NEW f \in Fields,
               Dealt(s)', Wanted(s, f) # Unset, <<s, f>> \notin raced'
        PROVE  \/ Dealt(s) /\ <<s, f>> \notin raced
               \/ device[s][f] = Wanted(s, f)
    <3>1. CASE s < stage
      BY <2>1, <2>3, <3>1 DEF Dealt
    <3>2. CASE ~(s < stage)
      <4>1. s = stage /\ device[stage] = current
        BY <2>1, <2>3, <3>2 DEF Dealt
      <4> QED
        BY <2>2, <2>3, <4>1, StoredRight
    <3> QED
      BY <3>1, <3>2
  <2> QED
    BY <1>4, <2>1, <2>3
<1>11. CASE Refresh
  BY <1>4, <1>11 DEF Refresh, Dealt
<1>12. CASE ReadFails
  <2>1. UNCHANGED <<conf, overtaken, device, raced, stage>> /\ pc' = "idle" /\ outcome' # "done"
    BY <1>12 DEF ReadFails
  <2> QED
    BY <1>4, <2>1 DEF Dealt
<1>13. CASE \E s \in Stages, f \in Fields : External(s, f)
  <2>1. UNCHANGED <<conf, overtaken, pc, stage, outcome>>
    BY <1>13, Zenon DEF External
  <2>2. \A t \in Stages, g \in Fields :
          <<t, g>> \notin raced' => <<t, g>> \notin raced /\ device'[t][g] = device[t][g]
    BY <1>13, ExternalRaces, Zenon DEF TypeInv
  <2> QED
    BY <1>4, <2>1, <2>2 DEF Dealt
<1>14. CASE ApplyPending
  <2>1. UNCHANGED <<conf, overtaken, pc, stage, outcome, raced>> /\ pending # <<>>
    BY <1>14 DEF ApplyPending
  <2>2. Polled /\ ~Is(1, "zeroes") /\ Stages = {1}
    BY <1>1, <2>1 DEF Sound, PendingRight, Shape, Polled
  <2>3. device'[1] \in {Head(pending), device[1]}
    BY <1>14, <2>2 DEF ApplyPending, Store, Stored
  <2>4. Head(pending) = pending[1] /\ 1 \in 1 .. Len(pending)
    BY <2>1 DEF TypeInv, TypeOK
  <2>5. ~overtaken => Agrees(Head(pending), 1)
    BY <2>4 DEF Sound, PendingRight
  <2>6. \A f \in Fields : ~overtaken /\ Wanted(1, f) # Unset =>
          Head(pending)[f] = Wanted(1, f)
    BY <2>2, <2>5 DEF Agrees, Wanted
  <2> QED
    BY <1>4, <2>1, <2>2, <2>3, <2>6 DEF Dealt
<1> QED
  BY <1>5, <1>6, <1>7, <1>8, <1>9, <1>10, <1>11, <1>12, <1>13, <1>14 DEF Next, Proceed

LEMMA NextSound == TypeInv /\ Sound /\ [Next]_vars => Sound'
<1> SUFFICES ASSUME TypeInv, Sound, [Next]_vars PROVE Sound'
  OBVIOUS
<1>1. CASE Next
  BY <1>1, NextPlanned, NextCurrent, NextPending, NextDealt DEF Sound
<1>2. CASE UNCHANGED vars
  <2>1. Planned'
    BY <1>2 DEF Sound, Planned, Stages, Is, vars
  <2>2. CurrentRight'
    BY <1>2 DEF Sound, CurrentRight, Agrees, LeavesAlone, Is, vars
  <2>3. PendingRight'
    BY <1>2 DEF Sound, PendingRight, Agrees, LeavesAlone, Polled, Is, vars
  <2>4. DealtRight'
    BY <1>2 DEF Sound, DealtRight, Dealt, Wanted, Stages, Is, vars
  <2> QED
    BY <2>1, <2>2, <2>3, <2>4 DEF Sound
<1> QED
  BY <1>1, <1>2

LEMMA Invariant == Spec => [](TypeInv /\ Sound)
BY InitType, NextType, InitSound, NextSound, PTL DEF Spec

\* A field the device reports as wanted is in force.
LEMMA WantedInForce ==
  ASSUME TypeInv, Sound, NEW s \in Stages, NEW f \in Fields,
         conf[s][f] # Unset, device[s][f] = Wanted(s, f)
  PROVE  InForce(s, f)
<1>1. Agrees(Changed(conf[s], device[s]), s)
  BY ContentRight
<1>2. Changed(conf[s], device[s]) \in Documents
  BY DocumentType DEF TypeInv, TypeOK
<1>3. Stored(s, Changed(conf[s], device[s]))[f] = Wanted(s, f)
  BY <1>1, <1>2, StoredRight, WhatIsWanted
<1> QED
  BY <1>3 DEF InForce

(***************************************************************************)
(* An operation that reports success has put in force all it was asked to, *)
(* whatever failed on the way, whatever answers were lost, and however     *)
(* late eco mode was applied.                                              *)
(***************************************************************************)
THEOREM Achieved == Spec => []SuccessMeansInForce
<1>1. TypeInv /\ Sound => SuccessMeansInForce
  BY WantedInForce, WhatIsWanted DEF SuccessMeansInForce, Sound, DealtRight, Dealt
<1> QED
  BY <1>1, Invariant, PTL

(***************************************************************************)
(* The second setting of a resource is not reached before the first is in  *)
(* force; only resources of one setting are polled, so no exception for    *)
(* writes that are still pending is needed.                                *)
(***************************************************************************)
THEOREM InTurn == Spec => []InForceUpToFailure
<1>1. ASSUME TypeInv, Sound, NEW s \in Stages, NEW f \in Fields,
             s < stage, conf[s][f] # Unset, <<s, f>> \notin raced
      PROVE  InForce(s, f)
  <2>1. Shape /\ stage \in {0} \union Stages
    BY <1>1, ResourceShape DEF TypeInv, TypeOK
  <2>2. ~Polled
    BY <1>1, <2>1 DEF Shape
  <2>3. ~overtaken
    BY <1>1, <2>2 DEF Sound, PendingRight
  <2>4. device[s][f] = Wanted(s, f)
    BY <1>1, <2>3, WhatIsWanted DEF Sound, DealtRight, Dealt
  <2> QED
    BY <1>1, <2>4, WantedInForce
<1>2. TypeInv /\ Sound => InForceUpToFailure
  BY <1>1 DEF InForceUpToFailure
<1> QED
  BY <1>2, Invariant, PTL

\* What a step may change on the device.
LEMMA StepKeeps ==
  ASSUME TypeInv, Sound, Next, NEW s \in Stages, NEW f \in Fields,
         device'[s][f] # device[s][f]
  PROVE  \/ conf[s][f] # Unset
         \/ <<s, f>> \in raced \union raced'
         \/ overtaken
         \/ Is(s, "zeroes") /\ ~device'[s]["active"]
<1> SUFFICES ASSUME conf[s][f] = Unset, <<s, f>> \notin raced, <<s, f>> \notin raced', ~overtaken
             PROVE  Is(s, "zeroes") /\ ~device'[s]["active"]
  OBVIOUS
<1>1. device \in [Stages -> Documents]
  BY DEF TypeInv, TypeOK
<1>2. CASE Write
  <2>1. ~Is(stage, "polled") /\ Store(stage, Content) /\ stage \in Stages /\ pc = "write"
    BY <1>2 DEF Write, TypeInv, TypeOK
  <2>2. s = stage /\ device'[s] = Stored(s, Content)
    BY <1>1, <2>1 DEF Store
  <2>3. Content[f] = device[s][f]
    BY <2>1, <2>2, ContentRight DEF LeavesAlone
  <2>4. Is(s, "zeroes") /\ ~Content["active"]
    BY <2>2, <2>3 DEF Stored
  <2>5. device'[s] = AllOff
    BY <2>2, <2>4 DEF Stored
  <2> QED
    BY <2>4, <2>5 DEF AllOff, Fields
<1>3. CASE \E t \in Stages, g \in Fields : External(t, g)
  BY <1>3, ExternalRaces, Zenon DEF TypeInv
<1>4. CASE ApplyPending
  <2>1. pending # <<>> /\ Head(pending) = pending[1] /\ 1 \in 1 .. Len(pending)
    BY <1>4 DEF ApplyPending, TypeInv, TypeOK
  <2>2. Polled /\ LeavesAlone(pending[1], 1)
    BY <2>1 DEF Sound, PendingRight
  <2>3. Stages = {1} /\ ~Is(1, "zeroes")
    BY <2>2, ResourceShape DEF Shape, Polled, TypeInv, TypeOK
  <2>4. device'[1] \in {Head(pending), device[1]}
    BY <1>1, <1>4, <2>3 DEF ApplyPending, Store, Stored
  <2>5. s = 1
    BY <2>3
  <2> QED
    BY <2>1, <2>2, <2>4, <2>5 DEF LeavesAlone
<1>5. CASE Apply \/ Destroy \/ NextSetting \/ Read \/ WriteFails \/ Confirm \/ Poll \/ Refresh \/ ReadFails
  <2>1. device' = device
    BY <1>5 DEF Apply, Destroy, Begin, NextSetting, Read, WriteFails, Confirm, Poll, Refresh, ReadFails
  <2> QED
    BY <2>1
<1> QED
  BY <1>2, <1>3, <1>4, <1>5 DEF Next, Proceed

(***************************************************************************)
(* What is not configured stays as it is, but for the exceptions named by  *)
(* UnconfiguredKept: others' changes, a write of eco mode that was still   *)
(* pending, and what DMZ forgets when it is off.                           *)
(***************************************************************************)
THEOREM LeftAlone == Spec => UnconfiguredKept
<1>1. TypeInv /\ Sound /\ [Next]_vars =>
        [\A s \in Stages, f \in Fields :
           device'[s][f] # device[s][f] =>
             \/ conf[s][f] # Unset
             \/ <<s, f>> \in raced \union raced'
             \/ overtaken
             \/ Is(s, "zeroes") /\ ~device'[s]["active"]]_vars
  BY StepKeeps
<1> QED
  BY <1>1, Invariant, PTL DEF Spec, UnconfiguredKept

-----------------------------------------------------------------------------
(***************************************************************************)
(* The settings implement ApplyContract.  Others apart, a field that is    *)
(* not raced is left as it is or becomes what is wanted: a write contains  *)
(* what is configured and, for the rest, what was read; switching off what *)
(* the device then forgets the rest of makes FALSE of the rest, which is   *)
(* what is wanted of it.                                                   *)
(***************************************************************************)
LEMMA FieldMoves ==
  ASSUME TypeInv, Sound, Proceed \/ ApplyPending, NEW s \in Stages, NEW f \in Fields,
         ~overtaken, <<s, f>> \notin raced
  PROVE  \/ device'[s][f] = device[s][f]
         \/ Wanted(s, f) # Unset /\ device'[s][f] = Wanted(s, f)
<1>1. device \in [Stages -> Documents] /\ Shape
  BY ResourceShape DEF TypeInv, TypeOK
<1>2. CASE Write
  <2>1. pc = "write" /\ stage \in Stages
    BY <1>2 DEF Write, TypeInv, TypeOK
  <2>2. CASE Is(stage, "polled") \/ s # stage
    BY <1>1, <1>2, <2>1, <2>2 DEF Write, Store
  <2>3. CASE ~Is(stage, "polled") /\ s = stage
    <3>1. device'[s] = Stored(s, Content)
      BY <1>1, <1>2, <2>1, <2>3 DEF Write, Store
    <3>2. Content \in Documents
      BY <2>1, DocumentType DEF Content, TypeInv, TypeOK
    <3>3. Agrees(Content, s) /\ LeavesAlone(Content, s)
      BY <2>1, <2>3, ContentRight
    <3>4. CASE Wanted(s, f) # Unset
      BY <3>1, <3>2, <3>3, <3>4, StoredRight
    <3>5. CASE Wanted(s, f) = Unset
      <4>1. Content[f] = device[s][f]
        BY <3>3, <3>5, WhatIsWanted DEF LeavesAlone
      <4>2. CASE ~Is(s, "zeroes")
        BY <3>1, <4>1, <4>2 DEF Stored
      <4>3. CASE Is(s, "zeroes")
        <5>1. conf[s]["active"] # Unset /\ "active" \in Fields
          BY <2>1, <4>3 DEF Sound, Planned, Fields
        <5>2. conf[s]["active"] # FALSE
          BY <3>5, <4>3, UnsetAssumption DEF Wanted
        <5>3. Content["active"] = TRUE
          BY <3>2, <3>3, <5>1, <5>2 DEF Agrees, Documents
        <5> QED
          BY <3>1, <4>1, <5>3 DEF Stored
      <4> QED
        BY <4>2, <4>3
    <3> QED
      BY <3>4, <3>5
  <2> QED
    BY <2>2, <2>3
<1>3. CASE ApplyPending
  <2>1. pending # <<>> /\ Head(pending) = pending[1] /\ 1 \in 1 .. Len(pending)
    BY <1>3 DEF ApplyPending, TypeInv, TypeOK
  <2>2. Polled /\ LeavesAlone(pending[1], 1) /\ Agrees(pending[1], 1)
    BY <2>1 DEF Sound, PendingRight
  <2>3. Stages = {1} /\ ~Is(1, "zeroes")
    BY <1>1, <2>2 DEF Shape, Polled
  <2>4. device'[1] \in {pending[1], device[1]}
    BY <1>1, <1>3, <2>1, <2>3 DEF ApplyPending, Store, Stored
  <2>5. s = 1 /\ Wanted(s, f) = conf[s][f]
    BY <2>3, WhatIsWanted
  <2> QED
    BY <2>2, <2>4, <2>5 DEF LeavesAlone, Agrees
<1>4. CASE NextSetting \/ Read \/ WriteFails \/ Confirm \/ Poll \/ Refresh \/ ReadFails
  BY <1>4 DEF NextSetting, Read, WriteFails, Confirm, Poll, Refresh, ReadFails
<1> QED
  BY <1>2, <1>3, <1>4 DEF Proceed

LEMMA NextKeep ==
  ASSUME TypeInv, Sound, Proceed \/ ApplyPending, UNCHANGED resource
  PROVE  Contract!Keep
<1>1. UNCHANGED <<conf, overtaken>> /\ raced' \subseteq raced /\ Stages' = Stages
  <2>1. UNCHANGED <<conf, overtaken>>
    BY Zenon DEF Proceed, NextSetting, Read, Write, WriteFails, Confirm, Poll, Refresh,
                 ReadFails, ApplyPending, operation
  <2>2. raced' \subseteq raced
    BY DEF Proceed, NextSetting, Read, Write, WriteFails, Confirm, Poll, Refresh,
           ReadFails, ApplyPending, Noticed
  <2> QED
    BY <2>1, <2>2 DEF Stages
<1>2. UNCHANGED [i \in Stages \X Fields |-> Wanted(i[1], i[2])]
  BY <1>1 DEF Wanted, Is
<1>3. \A i \in Stages \X Fields :
        \/ device'[i[1]][i[2]] = device[i[1]][i[2]]
        \/ Wanted(i[1], i[2]) # Unset /\ device'[i[1]][i[2]] = Wanted(i[1], i[2])
        \/ i \in (IF overtaken THEN Stages \X Fields ELSE raced)
  <2>1. ASSUME NEW s \in Stages, NEW f \in Fields
        PROVE  \/ device'[s][f] = device[s][f]
               \/ Wanted(s, f) # Unset /\ device'[s][f] = Wanted(s, f)
               \/ <<s, f>> \in (IF overtaken THEN Stages \X Fields ELSE raced)
    BY FieldMoves
  <2> QED
    BY <2>1
<1>4. Contract!ItemsMove
  BY <1>1, <1>3 DEF Contract!ItemsMove, Contract!Items
<1> QED
  BY <1>1, <1>2, <1>4 DEF Contract!Keep

LEMMA NextContract == TypeInv /\ Sound /\ [Next]_vars => [Contract!Next]_Contract!contractVars
<1> SUFFICES ASSUME TypeInv, Sound, [Next]_vars
             PROVE  [Contract!Next]_Contract!contractVars
  OBVIOUS
<1>1. CASE UNCHANGED vars
  BY <1>1 DEF vars, Contract!contractVars, Stages, Wanted, Is
<1> SUFFICES ASSUME Next PROVE Contract!Next
  BY <1>1
<1>2. UNCHANGED resource /\ Stages' = Stages
  BY DEF Next, Stages
<1>3. CASE Apply \/ Destroy
  <2>1. /\ pc = "idle" /\ pc' = "next" /\ device' = device /\ raced' = {}
        /\ outcome \in {"none", "done", "failed", "refused"}
    BY <1>3 DEF Apply, Destroy, Begin, TypeInv, TypeOK
  <2>2. Contract!Begin
    BY <1>2, <2>1 DEF Contract!Begin, Contract!Items
  <2> QED
    BY <2>2 DEF Contract!Next
<1>4. CASE \E s \in Stages, f \in Fields : External(s, f)
  <2>1. UNCHANGED <<conf, overtaken, pc, outcome>>
    BY <1>4, Zenon DEF External, operation
  <2>2. PICK s \in Stages, f \in Fields : External(s, f)
    BY <1>4
  <2>3. /\ raced' = raced \union {<<s, h>> : h \in {k \in Fields : device'[s][k] # device[s][k]}}
        /\ \A t \in Stages : t # s => device'[t] = device[t]
    BY <2>2 DEF External, Store, TypeInv, TypeOK
  <2>4. raced' = raced \union {i \in Stages \X Fields : device'[i[1]][i[2]] # device[i[1]][i[2]]}
    BY <2>3
  <2>5. Contract!Disturb
    BY <1>2, <2>1, <2>4 DEF Contract!Disturb, Contract!Items, Wanted, Is
  <2> QED
    BY <2>5 DEF Contract!Next
<1>5. CASE ApplyPending
  <2>1. UNCHANGED <<pc, outcome>>
    BY <1>5 DEF ApplyPending
  <2>2. Contract!Move
    BY <1>2, <1>5, <2>1, NextKeep DEF Contract!Move
  <2> QED
    BY <2>2 DEF Contract!Next
<1>6. CASE Proceed
  <2>1. Contract!Keep
    BY <1>2, <1>6, NextKeep
  <2>2. /\ pc # "idle"
        /\ pc' = "idle" => outcome' \in {"done", "failed", "refused"}
    BY <1>6 DEF Proceed, NextSetting, Read, Write, WriteFails, Confirm, Poll, Refresh, ReadFails,
                Goto, Finish, Settled, Answered, Doubt
  <2>3. CASE pc' # "idle"
    BY <2>1, <2>2, <2>3 DEF Contract!Move, Contract!Next
  <2>4. CASE pc' = "idle" /\ outcome' # "done"
    BY <2>1, <2>2, <2>4 DEF Contract!Fail, Contract!Next
  <2>5. CASE pc' = "idle" /\ outcome' = "done"
    <3>1. Sound'
      BY NextSound
    <3>2. \A s \in Stages, f \in Fields :
            ~overtaken' /\ (Wanted(s, f) # Unset)' /\ <<s, f>> \notin raced' =>
              device'[s][f] = Wanted(s, f)'
      BY <1>2, <2>5, <3>1 DEF Sound, DealtRight, Dealt
    <3>3. Contract!Reached'
      BY <1>2, <3>2 DEF Contract!Reached, Contract!Items
    <3> QED
      BY <2>1, <2>2, <2>5, <3>3 DEF Contract!Succeed, Contract!Next
  <2> QED
    BY <2>3, <2>4, <2>5
<1> QED
  BY <1>3, <1>4, <1>5, <1>6 DEF Next

(***************************************************************************)
(* Every field of every setting has, at any moment, the value it had or    *)
(* the one that is wanted, and the latter once success is reported, for    *)
(* every resource, every configuration and every failure.                  *)
(***************************************************************************)
THEOREM ImplementsContract == Spec => AppliesConfiguration
<1>1. Init => Contract!Init
  BY DEF Init, Contract!Init
<1> QED
  BY <1>1, Invariant, NextContract, PTL DEF Spec, AppliesConfiguration, Contract!Spec

-----------------------------------------------------------------------------
\* Every resource has as many settings as its list of traits is long.
LEMMA SettingsNumbered == ASSUME resource \in Resources PROVE Len(resource.traits) \in Nat
<1>1. \A t : Len(<<t>>) = 1
  OBVIOUS
<1>2. \A t, u : Len(<<t, u>>) = 2
  OBVIOUS
<1>3. CASE resource \in {NetworkOptions, WifiGlobal}
  BY <1>2, <1>3 DEF NetworkOptions, WifiGlobal
<1>4. CASE resource \notin {NetworkOptions, WifiGlobal}
  BY <1>1, <1>4 DEF Resources, Firewall, LAN, DateTime, UPnP, WifiRadio, WifiSSID, DMZ, DDNS,
                    EcoMode
<1> QED
  BY <1>3, <1>4

\* Passing on to a later setting takes away more than dealing with it adds.
LEMMA LaterStage ==
  ASSUME NEW n \in Nat, NEW s \in Nat, NEW t \in Nat, s < t
  PROVE  StepsOfSetting * (n - t) + StepsOfSetting <= StepsOfSetting * (n - s)
BY DEF StepsOfSetting, Attempts

LEMMA ProceedAdvances ==
  ASSUME TypeInv, Next, Proceed
  PROVE  StepsLeft' < StepsLeft
<1> DEFINE n == Len(resource.traits)
           Behind == StepsOfSetting * (n - stage)
<1>1. /\ n \in Nat /\ n' = n
      /\ \A s \in Stages : s \in Nat /\ s > 0
  BY SettingsNumbered, ResourceShape DEF TypeInv, TypeOK, Next, Shape
<1>2. /\ stage \in Nat /\ attempt \in 0 .. 4 /\ Behind \in Int
      /\ StepsLeft = StepsAhead + Behind /\ StepsLeft' = StepsAhead' + Behind'
  BY <1>1 DEF TypeInv, TypeOK, StepsLeft, StepsOfSetting, Attempts
<1>3. StepsOfSetting = 10 /\ Attempts = 5
  BY DEF StepsOfSetting, Attempts
<1> HIDE DEF n
<1>4. CASE NextSetting
  <2>1. StepsAhead = 2
    BY <1>4 DEF NextSetting, StepsAhead
  <2>2. CASE Remaining = {}
    <3>1. stage' = stage /\ pc' \in {"refresh", "idle"}
      BY <1>4, <2>2 DEF NextSetting, Goto, Finish
    <3>2. StepsAhead' \in {0, 1}
      BY <3>1 DEF StepsAhead
    <3> QED
      BY <1>1, <1>2, <2>1, <3>1, <3>2
  <2>3. CASE Remaining # {}
    <3>1. stage' \in Stages /\ stage < stage' /\ pc' \in {"write", "read"}
      BY <1>4, <2>3 DEF NextSetting, Remaining, Goto
    <3>2. Behind' + 10 <= Behind /\ Behind' \in Int
      BY <1>1, <1>2, <1>3, <3>1, LaterStage
    <3>3. StepsAhead' \in {9, 10}
      BY <1>3, <3>1 DEF StepsAhead
    <3> QED
      BY <1>2, <2>1, <3>2, <3>3
  <2> QED
    BY <2>2, <2>3
<1>5. CASE ~NextSetting
  <2>1. stage' = stage /\ Behind' = Behind
    BY <1>1, <1>5 DEF Proceed, Read, Write, WriteFails, Confirm, Poll, Refresh, ReadFails
  <2>2. SUFFICES StepsAhead \in Nat /\ StepsAhead' \in Nat /\ StepsAhead' < StepsAhead
    BY <1>2, <2>1
  <2>3. CASE Read
    BY <1>3, <2>3 DEF Read, Goto, Finish, Settled, StepsAhead
  <2>4. CASE Write \/ WriteFails
    <3>1. pc = "write" /\ pc' \in {"poll", "confirm", "next", "idle"}
      BY <2>4 DEF Write, WriteFails, Answered, Doubt, Goto, Finish, Settled
    <3>2. pc' = "poll" => attempt' = attempt
      BY <2>4 DEF Write, WriteFails, Answered, Doubt, Goto, Finish, Settled, local
    <3> QED
      BY <1>2, <1>3, <3>1, <3>2 DEF StepsAhead
  <2>5. CASE Confirm
    BY <2>5 DEF Confirm, Goto, Finish, Settled, StepsAhead
  <2>6. CASE Poll
    <3>1. pc = "poll" /\ pc' \in {"poll", "next", "idle"}
      BY <2>6 DEF Poll, Goto, Finish, Settled
    <3>2. pc' = "poll" => attempt' = attempt + 1 /\ attempt + 1 < 5
      BY <1>3, <2>6 DEF Poll, Goto, Finish, Settled
    <3> QED
      BY <1>2, <1>3, <3>1, <3>2 DEF StepsAhead
  <2>7. CASE Refresh
    BY <2>7 DEF Refresh, Finish, StepsAhead
  <2>8. CASE ReadFails
    BY <1>2, <1>3, <2>8 DEF ReadFails, Finish, StepsAhead
  <2> QED
    BY <1>5, <2>3, <2>4, <2>5, <2>6, <2>7, <2>8 DEF Proceed
<1> QED
  BY <1>4, <1>5

(***************************************************************************)
(* Every step of an operation brings it nearer to its end, for every       *)
(* resource and whatever fails, and nothing else moves it.                 *)
(***************************************************************************)
THEOREM OperationsRunOut == Spec => OperationsAdvance
<1> DEFINE Advances == IF Proceed THEN StepsLeft' < StepsLeft
                       ELSE pc # "idle" => UNCHANGED <<pc, stage, attempt>>
<1>1. TypeInv /\ [Next]_vars => [Advances]_vars
  <2> SUFFICES ASSUME TypeInv, Next PROVE Advances
    OBVIOUS
  <2>1. CASE Proceed
    BY <2>1, ProceedAdvances
  <2>2. CASE ~Proceed
    BY <2>2 DEF Next, Apply, Destroy, Begin, External, ApplyPending, local
  <2> QED
    BY <2>1, <2>2
<1> QED
  BY <1>1, InitType, NextType, PTL DEF Spec, OperationsAdvance

=============================================================================
