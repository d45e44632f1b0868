---------------------------- MODULE PacketFilter ----------------------------
(***************************************************************************)
(* Packet filter rules: synclayer_sxep200w_packet_filtering resources that *)
(* Terraform creates, refreshes, updates, imports and destroys             *)
(* concurrently, over one address family of the device.                    *)
(*                                                                         *)
(* The device knows a rule by its priority alone and replaces whatever is  *)
(* there, so a resource must never hold the id of a rule that is not its   *)
(* own: a destroy would remove somebody else's.  What protects the rules   *)
(* is a check before the id is recorded, a second check together with the  *)
(* write under Client.accessControlMu, and giving the id up when a create  *)
(* fails.                                                                  *)
(*                                                                         *)
(* rule[p] says whose rule is at priority p; what it filters is left out.  *)
(* Every request may fail before it reaches the device, or after (the      *)
(* answer is lost), or reach the device after the client has given up on   *)
(* it.  Somebody else may write rules at any time.                         *)
(***************************************************************************)
EXTENDS Naturals

CONSTANTS
  Resources,                \* the packet filter resources of the configuration
  Priorities,               \* the indexes of the family's list
  Other,                    \* whoever else writes rules: the firmware, the web UI
  None,                     \* no rule, or no id
  Disturbances              \* the disturbances considered, of those below

Free == "free"              \* the holder of a mutex nobody holds

ASSUME OwnersAssumption == {Other, None, Free} \intersect Resources = {} /\ Other # None
ASSUME PrioritiesAssumption == None \notin Priorities
ASSUME DisturbancesAssumption == Disturbances \subseteq {"external", "late", "lostDelete"}

VARIABLES
  rule,                     \* the owner of the rule at each priority
  mu,                       \* holder of Client.accessControlMu
  id,                       \* the priority in the id of each resource
  slot,                     \* the priority its configuration asks for
  pc,                       \* where the operation on each resource is
  late,                     \* writes the client gave up on, still on their way
  strayed                   \* priorities written behind the back of this provider

vars == <<rule, mu, id, slot, pc, late, strayed>>

Owners == Resources \union {Other}
Steps == {"idle", "lock", "check", "post", "posted", "read", "put", "delete", "deleted"}
Creating == {"lock", "check", "post", "posted"}
UnderLock == {"check", "post", "posted"}

\* GetAccessControlRule finds a rule.
Taken(p) == rule[p] # None

Goto(r, step) == pc' = [pc EXCEPT ![r] = step]
SetId(r, p) == id' = [id EXCEPT ![r] = p]

\* The write of a request that fails may be lost or arrive later.
Abandon(owner, p) ==
  late' \in {late} \union
            (IF "late" \in Disturbances THEN {late \union {[owner |-> owner, at |-> p]}} ELSE {})

-----------------------------------------------------------------------------
\* The device starts out with rules of its own.
Init ==
  /\ rule \in [Priorities -> {None, Other}]
  /\ mu = Free
  /\ id = [r \in Resources |-> None]
  /\ slot \in [Resources -> Priorities]
  /\ pc = [r \in Resources |-> "idle"]
  /\ late = {}
  /\ strayed = {}

(***************************************************************************)
(* resourcePacketFilteringCreate.  Its own check comes before the id is    *)
(* recorded; a priority that is taken, or a failing read, ends it there.   *)
(***************************************************************************)
Create(r) ==
  /\ pc[r] = "idle" /\ id[r] = None
  /\ ~Taken(slot[r])
  /\ SetId(r, slot[r])
  /\ Goto(r, "lock")
  /\ UNCHANGED <<rule, mu, slot, late, strayed>>

LockAccessControl(r) ==
  /\ pc[r] = "lock"
  /\ mu = Free
  /\ mu' = r
  /\ Goto(r, "check")
  /\ UNCHANGED <<rule, id, slot, late, strayed>>

\* Mutants of CheckUnderLock: the check under the lock is left out, or made
\* after the lock has been released again.
NoCheckUnderLock(r) ==
  /\ pc[r] = "check"
  /\ Goto(r, "post")
  /\ UNCHANGED <<rule, mu, id, slot, late, strayed>>
CheckWithoutLock(r) ==
  /\ pc[r] = "check"
  /\ ~Taken(slot[r])
  /\ mu' = Free
  /\ Goto(r, "post")
  /\ UNCHANGED <<rule, id, slot, late, strayed>>

\* CreateAccessControlRule looks again; FailCreate is the other outcome.
CheckUnderLock(r) ==
  /\ pc[r] = "check"
  /\ ~Taken(slot[r])
  /\ Goto(r, "post")
  /\ UNCHANGED <<rule, mu, id, slot, late, strayed>>

PostRule(r) ==
  /\ pc[r] = "post"
  /\ rule' = [rule EXCEPT ![slot[r]] = r]
  /\ Goto(r, "posted")
  /\ UNCHANGED <<mu, id, slot, late, strayed>>

PostAnswered(r) ==
  /\ pc[r] = "posted"
  /\ mu' = Free
  /\ Goto(r, "read")
  /\ UNCHANGED <<rule, id, slot, late, strayed>>

\* Mutants of FailCreate: the id is kept although the create failed; the error
\* path leaves the mutex locked.
FailCreateKeepingId(r) ==
  /\ pc[r] \in UnderLock
  /\ mu' = Free
  /\ Goto(r, "idle")
  /\ UNCHANGED <<rule, id, slot, late, strayed>>
FailCreateLocked(r) ==
  /\ pc[r] \in UnderLock
  /\ SetId(r, None)
  /\ Goto(r, "idle")
  /\ UNCHANGED <<rule, mu, slot, late, strayed>>

\* The priority was taken, the check failed, or the write did or seemed to.
FailCreate(r) ==
  /\ pc[r] \in UnderLock
  /\ mu' = Free
  /\ SetId(r, None)
  /\ IF pc[r] = "post" THEN Abandon(r, slot[r]) ELSE UNCHANGED late
  /\ Goto(r, "idle")
  /\ UNCHANGED <<rule, slot, strayed>>

-----------------------------------------------------------------------------
Begin(r, step) ==
  /\ pc[r] = "idle" /\ id[r] # None
  /\ Goto(r, step)
  /\ UNCHANGED <<rule, mu, id, slot, late, strayed>>

\* Mutant of ReadRule: the id is taken from the rule instead of its priority.
ReadRuleMisfiled(r) ==
  /\ pc[r] = "read"
  /\ SetId(r, rule[id[r]])
  /\ Goto(r, "idle")
  /\ UNCHANGED <<rule, mu, slot, late, strayed>>

\* resourcePacketFilteringRead, on its own or at the end of a create or update.
ReadRule(r) ==
  /\ pc[r] = "read"
  /\ IF Taken(id[r]) THEN UNCHANGED id ELSE SetId(r, None)
  /\ Goto(r, "idle")
  /\ UNCHANGED <<rule, mu, slot, late, strayed>>

ReadFails(r) ==
  /\ pc[r] = "read"
  /\ Goto(r, "idle")
  /\ UNCHANGED <<rule, mu, id, slot, late, strayed>>

\* UpdateAccessControlRule: a PUT replaces or creates.  The answer may be lost.
PutRule(r) ==
  /\ pc[r] = "put"
  /\ rule' = [rule EXCEPT ![id[r]] = r]
  /\ Goto(r, "read") \/ Goto(r, "idle")
  /\ UNCHANGED <<mu, id, slot, late, strayed>>

PutFails(r) ==
  /\ pc[r] = "put"
  /\ Abandon(r, id[r])
  /\ Goto(r, "idle")
  /\ UNCHANGED <<rule, mu, id, slot, strayed>>

\* DeleteAccessControlRule, then the id is given up.
DeleteRule(r) ==
  /\ pc[r] = "delete"
  /\ rule' = [rule EXCEPT ![id[r]] = None]
  /\ Goto(r, "deleted")
  /\ UNCHANGED <<mu, id, slot, late, strayed>>

DeleteAnswered(r) ==
  /\ pc[r] = "deleted"
  /\ SetId(r, None)
  /\ Goto(r, "idle")
  /\ UNCHANGED <<rule, mu, slot, late, strayed>>

DeleteFails(r) ==
  /\ pc[r] = "delete"
  /\ Abandon(None, id[r])
  /\ Goto(r, "idle")
  /\ UNCHANGED <<rule, mu, id, slot, strayed>>

\* The rule is gone and the resource does not know: it keeps the id.
DeleteAnswerLost(r) ==
  /\ "lostDelete" \in Disturbances
  /\ pc[r] = "deleted"
  /\ strayed' = strayed \union {id[r]}
  /\ Goto(r, "idle")
  /\ UNCHANGED <<rule, mu, id, slot, late>>

\* terraform import, a command of its own: a rule no resource claims is adopted.
Import(r) ==
  /\ \A s \in Resources : pc[s] = "idle" /\ id[s] # slot[r]
  /\ id[r] = None
  /\ Taken(slot[r])
  /\ SetId(r, slot[r])
  /\ rule' = [rule EXCEPT ![slot[r]] = r]
  /\ Goto(r, "read")
  /\ UNCHANGED <<mu, slot, late, strayed>>

\* The configuration is edited: priority forces a new resource.
Configure(r) ==
  /\ pc[r] = "idle" /\ id[r] = None
  /\ slot' \in {[slot EXCEPT ![r] = p] : p \in Priorities}
  /\ UNCHANGED <<rule, mu, id, pc, late, strayed>>

-----------------------------------------------------------------------------
External(p) ==
  /\ "external" \in Disturbances
  /\ rule' \in {[rule EXCEPT ![p] = o] : o \in {None, Other}}
  /\ strayed' = strayed \union {p}
  /\ UNCHANGED <<mu, id, slot, pc, late>>

LateWrite(w) ==
  /\ w \in late
  /\ rule' = [rule EXCEPT ![w.at] = w.owner]
  /\ late' = late \ {w}
  /\ strayed' = strayed \union {w.at}
  /\ UNCHANGED <<mu, id, slot, pc>>

-----------------------------------------------------------------------------
\* The steps an operation takes once it has begun.
Proceed(r) ==
  \/ CheckUnderLock(r) \/ PostRule(r) \/ PostAnswered(r) \/ FailCreate(r)
  \/ ReadRule(r) \/ ReadFails(r) \/ PutRule(r) \/ PutFails(r)
  \/ DeleteRule(r) \/ DeleteAnswered(r) \/ DeleteFails(r) \/ DeleteAnswerLost(r)

Next ==
  \/ \E r \in Resources :
       \/ Create(r) \/ LockAccessControl(r) \/ Proceed(r)
       \/ Begin(r, "read") \/ Begin(r, "put") \/ Begin(r, "delete")
       \/ Import(r) \/ Configure(r)
  \/ \E p \in Priorities : External(p)
  \/ \E w \in late : LateWrite(w)

(***************************************************************************)
(* Operations go on, and sync.Mutex hands the lock to a goroutine that has *)
(* waited too long (its starvation mode), so waiting for it is strongly    *)
(* fair.                                                                   *)
(***************************************************************************)
Fairness ==
  \A r \in Resources : WF_vars(Proceed(r)) /\ SF_vars(LockAccessControl(r))

Spec == Init /\ [][Next]_vars
FairSpec == Spec /\ Fairness

-----------------------------------------------------------------------------
TypeOK ==
  /\ rule \in [Priorities -> Owners \union {None}]
  /\ mu \in Resources \union {Free}
  /\ id \in [Resources -> Priorities \union {None}]
  /\ slot \in [Resources -> Priorities]
  /\ pc \in [Resources -> Steps]
  /\ late \subseteq [owner : Resources \union {None}, at : Priorities]
  /\ strayed \subseteq Priorities

(***************************************************************************)
(* accessControlMu is held exactly while a create checks and writes, so at *)
(* most one does, and no path leaves it locked.                            *)
(***************************************************************************)
LockHeldByCreate ==
  \A r \in Resources : mu = r <=> pc[r] \in UnderLock

(***************************************************************************)
(* A resource that holds an id and is not just creating or destroying its  *)
(* rule owns the rule at that priority; so two resources never hold the    *)
(* same one.  Only a write behind the provider's back, a request that      *)
(* arrives late or a destroy whose answer was lost can make it otherwise.  *)
(* RulesKeepOwners below says so too, and how it comes about.              *)
(***************************************************************************)
ClaimIsOwned ==
  \A r \in Resources :
    id[r] # None /\ id[r] \notin strayed /\ pc[r] \in {"idle", "read", "put", "delete"}
      => rule[id[r]] = r

(***************************************************************************)
(* Between the check and the write of a create the priority stays free, as *)
(* the comment above CreateAccessControlRule says: two creates of this     *)
(* provider cannot both see it free.                                       *)
(***************************************************************************)
CheckedSlotStaysFree ==
  \A r \in Resources :
    pc[r] = "post" /\ slot[r] \notin strayed => rule[slot[r]] = None

(***************************************************************************)
(* A rule some resource has in its state disappears or changes hands only  *)
(* by the destroy of that resource.                                        *)
(***************************************************************************)
ClaimedRuleSafe ==
  [][\A p \in Priorities \ strayed', r \in Resources :
       rule[p] = r /\ id[r] = p /\ rule'[p] # r => pc[r] = "delete"]_vars

(***************************************************************************)
(* The rule a resource has in its state is not replaced by the create of   *)
(* another: the slot is checked and taken under a lock, "so two creates in *)
(* the same provider cannot both see it free and have the second overwrite *)
(* the first" (service_rules.go:110-111).  No exception for a create that  *)
(* was given up, although its POST may still be on its way.                *)
(***************************************************************************)
NoCreateOverwritesAnother ==
  [][\A p \in Priorities, r \in Resources :
       rule[p] = r /\ id[r] = p => rule'[p] \notin Resources \ {r}]_vars

(***************************************************************************)
(* Resources keep to their own rules: whatever an operation does, it fills *)
(* priorities that are free and changes or clears those where the rule of  *)
(* its own resource is, and what a resource has in its state when it is    *)
(* not just creating or destroying is its own.                             *)
(***************************************************************************)
Claim(r) == IF pc[r] \in Creating \union {"deleted"} THEN None ELSE id[r]

Ownership == INSTANCE RuleOwnership WITH
  Slots  <- Priorities,
  Nobody <- None,
  owner  <- rule,
  claim  <- [r \in Resources |-> Claim(r)],
  spoilt <- strayed

RulesKeepOwners == Ownership!Spec

=============================================================================
