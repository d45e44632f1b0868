---------------------------- MODULE ApplyContract ----------------------------
(***************************************************************************)
(* What the provider promises of an operation that configures items of the *)
(* device (the fields of its settings, whom an SSID admits, a password),   *)
(* with no mention of reads, writes, their order, or what they contain.    *)
(*                                                                         *)
(* "only the attributes you set are written; everything else keeps its     *)
(* current value" (docs/resources/sxep200w_wifi_ssid.md:74-75).  While an  *)
(* operation runs, after it has failed half-way, and even when a write it  *)
(* gave up on takes effect late, an item has the value it had or the one   *)
(* it is to have, never a third one; an operation that reports success has *)
(* given every item its value.  This is promised of all items but those    *)
(* that are loose: others have changed them meanwhile, or no order of the  *)
(* writes could have spared them.                                          *)
(***************************************************************************)
CONSTANT Open               \* the goal of an item that is not configured

VARIABLES
  value,                    \* the value of each item on the device
  goal,                     \* the value it is to have, or Open
  loose,                    \* the items nothing is promised of
  result                    \* what the operation has reported

contractVars == <<value, goal, loose, result>>

Items == DOMAIN value

\* Each item keeps its value or gets the one it is to have.
ItemsMove ==
  /\ DOMAIN value' = Items
  /\ \A i \in Items :
       \/ value'[i] = value[i]
       \/ goal[i] # Open /\ value'[i] = goal[i]
       \/ i \in loose

Reached == \A i \in Items \ loose : goal[i] # Open => value[i] = goal[i]

Init == result = "none" /\ loose = {}

\* The goal becomes whatever is configured.  It may be known from the
\* beginning that nothing can be promised.
Begin ==
  /\ result # "running" /\ result' = "running"
  /\ UNCHANGED value
  /\ loose' \in {{}, Items}

Keep == ItemsMove /\ loose' \subseteq loose /\ UNCHANGED goal

\* A write, of the operation or of an earlier one; reading an item anew may
\* make up for what others did.
Move == Keep /\ UNCHANGED result

\* Whatever it has done so far stays.
Fail == result = "running" /\ result' = "failed" /\ Keep

Succeed == result = "running" /\ result' = "done" /\ Keep /\ Reached'

\* Others change items, which are loose from then on.
Disturb ==
  /\ DOMAIN value' = Items
  /\ loose' = loose \union {i \in Items : value'[i] # value[i]}
  /\ UNCHANGED <<goal, result>>

Next == Begin \/ Move \/ Fail \/ Succeed \/ Disturb

Spec == Init /\ [][Next]_contractVars
=============================================================================
