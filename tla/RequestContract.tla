-------------------------- MODULE RequestContract --------------------------
(***************************************************************************)
(* What Client.request, requestWithToken and requestWithBody promise to    *)
(* the code that calls them, with no mention of tokens, logins or retries. *)
(* One call is in flight per operation.  The device carries a call out at  *)
(* most once; a call reported done was carried out, one reported           *)
(* unauthorized was not, and one that failed may have been either: the     *)
(* answer may have been lost after the device acted on the request.        *)
(***************************************************************************)
EXTENDS Naturals

CONSTANT Ops                \* the Terraform operations in flight

VARIABLES
  status,                   \* whether the call of an operation is running
  applied,                  \* how often the device carried the call out
  verdict                   \* what the last call of the operation reported

contractVars == <<status, applied, verdict>>

Verdicts == {"none", "ok", "failed", "unauthorized"}

Init ==
  /\ status = [o \in Ops |-> "idle"]
  /\ applied = [o \in Ops |-> 0]
  /\ verdict = [o \in Ops |-> "none"]

Call(o) ==
  /\ status[o] = "idle"
  /\ status' = [status EXCEPT ![o] = "running"]
  /\ applied' = [applied EXCEPT ![o] = 0]
  /\ verdict' = [verdict EXCEPT ![o] = "none"]

CarryOut(o) ==
  /\ status[o] = "running"
  /\ applied[o] = 0
  /\ applied' = [applied EXCEPT ![o] = 1]
  /\ UNCHANGED <<status, verdict>>

Report(o) ==
  /\ status[o] = "running"
  /\ \E v \in Verdicts \ {"none"} :
       /\ v = "ok" => applied[o] = 1
       /\ v = "unauthorized" => applied[o] = 0
       /\ verdict' = [verdict EXCEPT ![o] = v]
  /\ status' = [status EXCEPT ![o] = "idle"]
  /\ UNCHANGED applied

Next == \E o \in Ops : Call(o) \/ CarryOut(o) \/ Report(o)

Fairness == \A o \in Ops : WF_contractVars(Report(o))

SafeSpec == Init /\ [][Next]_contractVars
Spec == SafeSpec /\ Fairness
=============================================================================
