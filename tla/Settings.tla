------------------------------ MODULE Settings ------------------------------
(***************************************************************************)
(* Settings the device always has, which a resource changes but never      *)
(* creates: firewall, LAN, date and time, UPnP, WiFi radio, WiFi SSID,     *)
(* DMZ, DDNS, eco mode, network options and the global WiFi settings.      *)
(*                                                                         *)
(* The device replaces a setting as a whole.  An operation therefore reads *)
(* it, changes what is configured, and writes everything back; some        *)
(* resources do so for two settings in turn.  Meanwhile others (the web    *)
(* UI, a request carried out after it was given up) may write it too, any  *)
(* request may fail before or after the device has carried it out, and eco *)
(* mode is applied some time after the write was accepted.                 *)
(*                                                                         *)
(* A setting is a switch and the rest of it.  What distinguishes the       *)
(* resources is a record for each: the traits of the settings it writes,   *)
(* in the order it writes them, what destroying it switches off, and when  *)
(* an apply records the resource in the Terraform state.                   *)
(***************************************************************************)
EXTENDS Naturals, Sequences, FiniteSets

CONSTANTS
  Unset,                    \* the value of what a configuration leaves alone
  MaxPending,               \* bound: accepted writes the device has not applied
  MaxRaced                  \* bound: others change another field only below it

ASSUME UnsetAssumption == Unset \notin BOOLEAN
ASSUME BoundsAssumption == MaxPending \in Nat \ {0} /\ MaxRaced \in Nat

Attempts == 5               \* reads waitForEcoMode makes at most
Fields == {"active", "rest"}
Documents == [Fields -> BOOLEAN]
Partials == [Fields -> {Unset} \union BOOLEAN]

(***************************************************************************)
(* Traits of a setting, as far as they differ:                             *)
(*   always     it is written even if nothing in it is configured          *)
(*   complete   a configuration says everything, or else nothing           *)
(*   defaulted  the switch has a default, so it is always configured       *)
(*   blind      only the switch is written, so an apply does not read      *)
(*   refuses    a name the device does not know ends the operation         *)
(*   confirms   after a write has failed, a read decides whether it did    *)
(*   polled     it is accepted first and applied later                     *)
(*   zeroes     the device forgets the rest when the setting is off        *)
(*   turnedOff  destroying writes it even if it is off already             *)
(***************************************************************************)
Kept == [f \in Fields |-> Unset]
Off == [f \in Fields |-> IF f = "active" THEN FALSE ELSE Unset]
AllOff == [f \in Fields |-> FALSE]

Firewall == [traits |-> <<{"always"}>>, destroyed |-> <<Kept>>, records |-> "first"]
LAN == [traits |-> <<{"always"}>>, destroyed |-> <<Kept>>, records |-> "first"]
DateTime == [traits |-> <<{"always"}>>, destroyed |-> <<Kept>>, records |-> "read"]
UPnP == [traits |-> <<{"always"}>>, destroyed |-> <<Off>>, records |-> "first"]
WifiRadio == [traits |-> <<{"always"}>>, destroyed |-> <<Off>>, records |-> "written"]
\* An SSID whose access control list is not configured.
WifiSSID == [traits |-> <<{"always"}>>, destroyed |-> <<Off>>, records |-> "read"]
DMZ ==
  [traits |-> <<{"always", "defaulted", "zeroes", "turnedOff"}>>,
   destroyed |-> <<Off>>, records |-> "written"]
DDNS ==
  [traits |-> <<{"always", "complete", "refuses", "turnedOff"}>>,
   destroyed |-> <<Off>>, records |-> "written"]
\* The rest of eco mode is its schedule, which destroying it disables too.
EcoMode ==
  [traits |-> <<{"always", "polled"}>>, destroyed |-> <<AllOff>>, records |-> "read"]
\* The options, and then the complete set of application layer gateways.
NetworkOptions ==
  [traits |-> <<{"always", "confirms"}, {"complete", "refuses"}>>,
   destroyed |-> <<Kept, Kept>>, records |-> "first"]
\* WPS, and then the mesh mode.
WifiGlobal ==
  [traits |-> <<{"blind"}, {}>>, destroyed |-> <<Off, Off>>, records |-> "first"]

Resources ==
  {Firewall, LAN, DateTime, UPnP, WifiRadio, WifiSSID, DMZ, DDNS, EcoMode, NetworkOptions,
   WifiGlobal}

Says(c) == \E f \in Fields : c[f] # Unset
SaysAll(c) == \A f \in Fields : c[f] # Unset

\* What a setting with these traits may be configured to.
Configurable(traits, c) ==
  /\ "complete" \in traits => SaysAll(c) \/ ("always" \notin traits /\ ~Says(c))
  /\ "defaulted" \in traits => c["active"] # Unset
  /\ "blind" \in traits => c["rest"] = Unset

Configurations == [r \in Resources |->
  {c \in [DOMAIN r.traits -> Partials] :
     \A s \in DOMAIN r.traits : Configurable(r.traits[s], c[s])}]

VARIABLES
  resource,                 \* the resource, which never changes
  device,                   \* its settings on the device
  pending,                  \* writes accepted and not applied yet
  doing,                    \* "apply" or "destroy"
  conf,                     \* what the operation is to put in force
  unknown,                  \* whether it names something the device does not know
  pc,                       \* where the operation is
  stage,                    \* the setting it is about
  current,                  \* the setting as it is to be written
  attempt,                  \* reads made so far by waitForEcoMode
  raced,                    \* what others changed since it was read
  overtaken,                \* whether it began with a write pending
  recorded,                 \* whether the resource is in the Terraform state
  touched,                  \* whether the operation has written anything
  outcome                   \* how the last operation ended

vars == <<resource, device, pending, doing, conf, unknown, pc, stage, current, attempt,
          raced, overtaken, recorded, touched, outcome>>
operation == <<doing, conf, unknown, overtaken>>
record == <<recorded, touched>>
local == <<current, attempt>>

Stages == DOMAIN resource.traits
Is(s, trait) == trait \in resource.traits[s]
Applying(trait) == doing = "apply" /\ Is(stage, trait)

-----------------------------------------------------------------------------
\* Mutant of Changed: what is not configured is written as its zero value.
ChangedToZero(c, doc) == [f \in Fields |-> IF c[f] = Unset THEN FALSE ELSE c[f]]

\* Only what is configured is changed.
Changed(c, doc) == [f \in Fields |-> IF c[f] = Unset THEN doc[f] ELSE c[f]]

\* What the device makes of a setting it is given.
Stored(s, doc) == IF Is(s, "zeroes") /\ ~doc["active"] THEN AllOff ELSE doc

\* The setting is as configured: writing it again would change nothing.
InForce(s, f) == device[s][f] = Stored(s, Changed(conf[s], device[s]))[f]

Store(s, doc) == device' = [device EXCEPT ![s] = Stored(s, doc)]
Noticed(s) == raced' = {p \in raced : p[1] # s}

\* The settings the operation has still to go through.
Needed(s) == Says(conf[s]) \/ (doing = "apply" /\ Is(s, "always"))

\* Mutant of Remaining: the setting just dealt with is among them.
RemainingAgain == {s \in Stages : s >= stage /\ Needed(s)}

Remaining == {s \in Stages : s > stage /\ Needed(s)}

\* Mutant of ComesFirst: they are gone through backwards.
ComesLast(s) == \A t \in Remaining : s >= t

ComesFirst(s) == \A t \in Remaining : s <= t

\* Mutant of Record: the resource is recorded when the last write is done.
RecordAtEnd(step) == recorded' = (recorded \/ (step = "written" /\ Remaining = {}))

\* The id of the resource is set, if this is where it is.
Record(step) == recorded' = (recorded \/ resource.records = step)

-----------------------------------------------------------------------------
Init ==
  /\ resource \in Resources
  /\ device \in [Stages -> Documents]
  /\ \A s \in Stages : device[s] = Stored(s, device[s])
  /\ pending = <<>>
  /\ doing = "apply"
  /\ conf = [s \in Stages |-> Kept]
  /\ unknown = FALSE /\ overtaken = FALSE
  /\ pc = "idle" /\ stage = 0
  /\ current = AllOff
  /\ attempt = 0
  /\ raced = {}
  /\ recorded \in BOOLEAN /\ touched = FALSE
  /\ outcome = "none"

(***************************************************************************)
(* Terraform starts an operation.  MaxPending bounds the writes of earlier *)
(* operations the device may still have to apply.                          *)
(***************************************************************************)
Begin ==
  /\ pc = "idle"
  /\ Len(pending) < MaxPending
  /\ pc' = "next" /\ stage' = 0
  /\ raced' = {}
  /\ overtaken' = (pending # <<>>)
  /\ touched' = FALSE
  /\ outcome' = "none"
  /\ UNCHANGED <<device, pending, local>>

Apply ==
  /\ Begin
  /\ doing' = "apply"
  /\ Record("first")
  /\ conf' \in Configurations[resource]
  /\ unknown' \in BOOLEAN
  /\ unknown' => \E s \in Stages : Is(s, "refuses") /\ Says(conf'[s])

Destroy ==
  /\ Begin
  /\ recorded
  /\ doing' = "destroy"
  /\ conf' = resource.destroyed
  /\ unknown' = FALSE
  /\ UNCHANGED recorded

\* The local variables of the setting that was dealt with.
Forget == current' = AllOff /\ attempt' = 0

Goto(step) == pc' = step /\ UNCHANGED outcome
Settled == Goto("next") /\ Forget
Finish(how) == pc' = "idle" /\ outcome' = how /\ Forget

\* The next setting that has to be written, or the end.
NextSetting ==
  /\ pc = "next"
  /\ \/ \E s \in Remaining :
          /\ ComesFirst(s)
          /\ stage' = s
          /\ Goto(IF doing = "apply" /\ Is(s, "blind") THEN "write" ELSE "read")
          /\ UNCHANGED <<local, recorded>>
     \/ /\ Remaining = {}
        /\ \/ doing = "apply" /\ Goto("refresh") /\ UNCHANGED <<local, recorded>>
           \/ doing = "destroy" /\ Finish("done") /\ recorded' = FALSE
        /\ UNCHANGED stage
  /\ UNCHANGED <<device, pending, operation, raced, touched>>

\* Destroying something that is off already writes nothing.
OffAlready ==
  /\ doing = "destroy" /\ ~Is(stage, "turnedOff")
  /\ \A f \in Fields : conf[stage][f] # Unset => ~device[stage][f]

Refused == Applying("refuses") /\ unknown

Read ==
  /\ pc = "read"
  /\ Noticed(stage)
  /\ Record("read")
  /\ \/ Refused /\ Finish("refused")
     \/ ~Refused /\ OffAlready /\ Settled
     \/ /\ ~Refused /\ ~OffAlready
        /\ Goto("write")
        /\ current' = Changed(conf[stage], device[stage])
        /\ UNCHANGED attempt
  /\ UNCHANGED <<device, pending, operation, stage, touched>>

\* A blind write changes the switch in whatever the device has by then.
Content == IF Is(stage, "blind") THEN Changed(conf[stage], device[stage]) ELSE current

\* A write seems to have failed.
Doubt ==
  \/ Is(stage, "confirms") /\ Goto("confirm") /\ UNCHANGED local
  \/ ~Is(stage, "confirms") /\ Finish("failed")

\* Mutant of Answered: what the device has accepted counts as applied.
AnsweredAtOnce == Settled /\ Record("written")

\* The device has answered a write.
Answered ==
  /\ IF Is(stage, "polled") THEN Goto("poll") /\ UNCHANGED local ELSE Settled
  /\ Record("written")

\* The device carries the write out, or accepts it, and the answer may be lost.
Write ==
  /\ pc = "write"
  /\ IF Is(stage, "polled")
       THEN pending' = Append(pending, Content) /\ UNCHANGED <<device, raced>>
       ELSE Store(stage, Content) /\ Noticed(stage) /\ UNCHANGED pending
  /\ touched' = TRUE
  /\ Answered \/ (Doubt /\ UNCHANGED recorded)
  /\ UNCHANGED <<operation, stage>>

WriteFails ==
  /\ pc = "write"
  /\ Doubt
  /\ UNCHANGED <<device, pending, operation, record, stage, raced>>

\* Mutant of Confirm: it is enough that the device answers again.
ConfirmAnything ==
  /\ pc = "confirm"
  /\ Settled /\ Noticed(stage)
  /\ UNCHANGED <<device, pending, operation, record, stage>>

\* A fresh read decides whether the failed write was carried out.
Confirm ==
  /\ pc = "confirm"
  /\ \/ device[stage] = current /\ Settled /\ Noticed(stage)
     \/ device[stage] # current /\ Finish("failed") /\ UNCHANGED raced
  /\ UNCHANGED <<device, pending, operation, record, stage>>

\* Mutant of Poll: one read too many.
PollTooOften ==
  /\ pc = "poll"
  /\ \/ device[stage] = current /\ Settled /\ Noticed(stage)
     \/ /\ device[stage] # current
        /\ IF attempt < Attempts
             THEN Goto("poll") /\ attempt' = attempt + 1 /\ UNCHANGED current
             ELSE Finish("failed")
        /\ UNCHANGED raced
  /\ UNCHANGED <<device, pending, operation, record, stage>>

\* The device is asked until it reports what was written.
Poll ==
  /\ pc = "poll"
  /\ \/ device[stage] = current /\ Settled /\ Noticed(stage)
     \/ /\ device[stage] # current
        /\ IF attempt + 1 < Attempts
             THEN Goto("poll") /\ attempt' = attempt + 1 /\ UNCHANGED current
             ELSE Finish("failed")
        /\ UNCHANGED raced
  /\ UNCHANGED <<device, pending, operation, record, stage>>

\* An apply ends by reading everything into the state.
Refresh ==
  /\ pc = "refresh"
  /\ Finish("done")
  /\ UNCHANGED <<device, pending, operation, record, stage, raced>>

ReadFails ==
  /\ pc \in {"read", "confirm", "poll", "refresh"}
  /\ Finish("failed")
  /\ UNCHANGED <<device, pending, operation, record, stage, raced>>

-----------------------------------------------------------------------------
\* Somebody else writes a setting; one field at a time makes any change.
External(s, f) ==
  /\ Cardinality(raced) < MaxRaced \/ <<s, f>> \in raced
  /\ Store(s, [device[s] EXCEPT ![f] = ~@])
  /\ raced' = raced \union {<<s, g>> : g \in {h \in Fields : device'[s][h] # device[s][h]}}
  /\ UNCHANGED <<pending, operation, record, pc, stage, local, outcome>>

\* The device applies what it has accepted, or never does ("ecoNeverApplies").
ApplyPending ==
  /\ pending # <<>>
  /\ Store(1, Head(pending)) \/ UNCHANGED device
  /\ pending' = Tail(pending)
  /\ UNCHANGED <<operation, record, pc, stage, local, raced, outcome>>

-----------------------------------------------------------------------------
\* The steps of an operation that has begun.
Proceed ==
  \/ NextSetting \/ Read \/ Write \/ WriteFails \/ Confirm \/ Poll \/ Refresh \/ ReadFails

Next ==
  /\ \/ Apply \/ Destroy \/ Proceed
     \/ \E s \in Stages, f \in Fields : External(s, f)
     \/ ApplyPending
  /\ UNCHANGED resource

Spec == Init /\ [][Next]_vars

(***************************************************************************)
(* Every request is answered or times out (client.go:74-77), so an operation  *)
(* that has begun goes on.  Nothing is assumed of the device or of others. *)
(***************************************************************************)
FairSpec == Spec /\ WF_vars(Proceed /\ UNCHANGED resource)

-----------------------------------------------------------------------------
TypeOK ==
  /\ resource \in Resources
  /\ device \in [Stages -> Documents]
  /\ pending \in Seq(Documents) /\ Len(pending) <= MaxPending
  /\ doing \in {"apply", "destroy"}
  /\ conf \in [Stages -> Partials]
  /\ unknown \in BOOLEAN
  /\ pc \in {"idle", "next", "read", "write", "confirm", "poll", "refresh"}
  /\ stage \in {0} \union Stages
  /\ pc \in {"read", "write", "confirm", "poll"} => stage \in Stages
  /\ current \in Documents
  /\ attempt \in 0 .. Attempts - 1
  /\ raced \subseteq Stages \X Fields
  /\ overtaken \in BOOLEAN /\ recorded \in BOOLEAN /\ touched \in BOOLEAN
  /\ outcome \in {"none", "done", "failed", "refused"}

(***************************************************************************)
(* An operation that reports success has put in force all that is          *)
(* configured, and a destroy has left off what it promises to, unless      *)
(* others have changed it since it was last read or written.  That covers  *)
(* a write whose answer was lost (network options), one that is only       *)
(* accepted (eco mode) and a destroy that found nothing to do.  The one    *)
(* exception is eco mode with a write of an earlier operation still        *)
(* pending: what is read, and waited for, may then be about to change.     *)
(***************************************************************************)
SuccessMeansInForce ==
  outcome = "done" /\ ~overtaken =>
    \A s \in Stages, f \in Fields :
      conf[s][f] # Unset /\ <<s, f>> \notin raced => InForce(s, f)

(***************************************************************************)
(* When an operation on two settings fails at the second, or the second is *)
(* refused, the first is nevertheless in force: never is the second one    *)
(* reached, let alone written, while the first is in doubt.                *)
(***************************************************************************)
InForceUpToFailure ==
  \A s \in Stages, f \in Fields :
    s < stage /\ conf[s][f] # Unset /\ <<s, f>> \notin raced => InForce(s, f)

(***************************************************************************)
(* "Fields that are not set are left at their current device value": an    *)
(* operation changes nothing that is not configured, except that it puts   *)
(* back what others changed after it had read the setting, that eco mode   *)
(* may apply an older write, and that DMZ forgets its rest when it is off. *)
(***************************************************************************)
UnconfiguredKept ==
  [][\A s \in Stages, f \in Fields :
       device'[s][f] # device[s][f] =>
         \/ conf[s][f] # Unset
         \/ <<s, f>> \in raced \union raced'
         \/ overtaken
         \/ Is(s, "zeroes") /\ ~device'[s]["active"]]_vars

(***************************************************************************)
(* "Record the resource before the first write: ... a failure in the       *)
(* second would otherwise leave the first applied but untracked"           *)
(* (resource_network_options.go:145-148).  A resource that is not in the   *)
(* state has not written anything, except where the id is set after the    *)
(* only write, and then only if that write seemed to fail.                 *)
(***************************************************************************)
WritesAreRecorded ==
  touched /\ ~recorded /\ doing = "apply" =>
    resource.records = "written" /\ outcome = "failed"

(***************************************************************************)
(* What is configured, as the device reports it when it is in force.       *)
(***************************************************************************)
Wanted(s, f) == IF Is(s, "zeroes") /\ conf[s]["active"] = FALSE THEN FALSE ELSE conf[s][f]

(***************************************************************************)
(* The settings implement the contract of an apply: at any moment, also    *)
(* half-way, after a failure or when eco mode applies a write late, each   *)
(* field is as it was or as configured, and success means that all are;    *)
(* except for what others change, and for eco mode while a write of an     *)
(* earlier operation is pending.                                           *)
(***************************************************************************)
Contract == INSTANCE ApplyContract WITH
  Open   <- Unset,
  value  <- [i \in Stages \X Fields |-> device[i[1]][i[2]]],
  goal   <- [i \in Stages \X Fields |-> Wanted(i[1], i[2])],
  loose  <- IF overtaken THEN Stages \X Fields ELSE raced,
  result <- IF pc # "idle" THEN "running"
            ELSE IF outcome = "refused" THEN "failed" ELSE outcome

AppliesConfiguration == Contract!Spec

(***************************************************************************)
(* Every operation ends, whatever fails, and even if the device never      *)
(* applies what it accepted or others keep changing it meanwhile.          *)
(***************************************************************************)
OperationsEnd == (pc # "idle") ~> (pc = "idle")

(***************************************************************************)
(* Why: each step of an operation brings it nearer to its end, past a      *)
(* setting or to the next of the reads of waitForEcoMode, and others never *)
(* take it back.  So no operation takes more than 22 steps.                *)
(***************************************************************************)
StepsOfSetting == Attempts + 5
StepsAhead ==
  CASE pc = "read"    -> Attempts + 5
    [] pc = "write"   -> Attempts + 4
    [] pc = "poll"    -> Attempts + 3 - attempt
    [] pc = "confirm" -> 3
    [] pc = "next"    -> 2
    [] pc = "refresh" -> 1
    [] OTHER          -> 0
StepsLeft == StepsAhead + StepsOfSetting * (Len(resource.traits) - stage)

OperationsAdvance ==
  [][IF Proceed THEN StepsLeft' < StepsLeft
     ELSE pc # "idle" => UNCHANGED <<pc, stage, attempt>>]_vars

=============================================================================
