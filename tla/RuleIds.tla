------------------------------ MODULE RuleIds ------------------------------
(***************************************************************************)
(* Rules the device numbers by itself: port triggering, port forwarding,   *)
(* static routes (IPv4 and IPv6) and reserved IP addresses.  Terraform     *)
(* creates, refreshes, updates and destroys them concurrently.             *)
(*                                                                         *)
(* The state of a resource holds the number of its rule, so everything     *)
(* depends on learning it: from the answer to the POST where there is one, *)
(* else by looking for the rule that was written.  The kinds differ in how *)
(* they look, and an update of a static route gives it a new number, so    *)
(* that it is looked for again.  The configuration may change between two  *)
(* runs of Terraform, for all resources at once: what one resource said    *)
(* may then be what another says, while each still has its old rule.       *)
(*                                                                         *)
(* A rule is a key (what the lookup of a kind compares) and a rest (for    *)
(* instance whether it is active; for a reservation, its address), and     *)
(* who wrote it, which nobody can see.  The device never uses a number     *)
(* twice.  Any request may fail before or after the device carried it out, *)
(* or be carried out after the client has given it up.                     *)
(***************************************************************************)
EXTENDS Naturals, FiniteSets

CONSTANTS
  Kinds,                    \* the kinds considered
  Resources,                \* the resources, all of one kind
  Keys, Rests,              \* what rules may say
  Other,                    \* whoever else writes rules
  None,                     \* no rule, or no number
  MaxIds,                   \* bound: numbers the device gives out
  MaxLate,                  \* bound: requests under way after they were given up
  Disturbances              \* what others do: some of "add" and "remove"

Free == "free"              \* the holder of a mutex nobody holds
Attempts == 3               \* reads CreatePortTriggeringRule makes at most

ASSUME KindsAssumption ==
  Kinds \subseteq {"triggering", "forwarding", "route", "reserved"}
ASSUME OwnersAssumption == {Other, Free} \intersect Resources = {}
ASSUME BoundsAssumption == MaxIds \in Nat \ {0} /\ MaxLate \in Nat
Ids == 1 .. MaxIds
Contents == [key : Keys, rest : Rests]
Rules == [what : Contents, owner : Resources \union {Other}]
ASSUME NoneAssumption == None \notin Ids \union Rules \union Resources \union {Other}

VARIABLES
  kind,                     \* the kind of all rules here, which never changes
  rules,                    \* the rule under each number
  nextId,                   \* the number the device gives out next
  mu,                       \* holder of Client.portTriggeringMu
  id,                       \* the number in the id of each resource
  conf,                     \* what the configuration says of each resource
  want,                     \* what its state says: what it last asked for
  pc,                       \* where the operation on each resource is
  before,                   \* the numbers in use before the POST
  attempt,                  \* reads made so far to find the rule
  late,                     \* requests given up, still on their way
  strayed                   \* whose rules somebody else has added or removed

vars == <<kind, rules, nextId, mu, id, conf, want, pc, before, attempt, late, strayed>>
lookup == <<before, attempt>>

Goto(r, step) == pc' = [pc EXCEPT ![r] = step]
SetId(r, i) == id' = [id EXCEPT ![r] = i]
InUse == {i \in Ids : rules[i] # None}
Unlock(r) == mu' = IF mu = r THEN Free ELSE mu

-----------------------------------------------------------------------------
(***************************************************************************)
(* What a request does when the device carries it out.  The firmware       *)
(* updates a route by deleting it and creating another.                    *)
(***************************************************************************)
Written(r) == [what |-> want[r], owner |-> r]
Request(r, op, at) == [op |-> op, at |-> at, rule |-> Written(r)]

Adds(w) == w.op = "post" \/ (w.op = "put" /\ kind = "route")

CarryOut(w) ==
  /\ Adds(w) => nextId \in Ids
  /\ rules' = [i \in Ids |->
       IF Adds(w) /\ i = nextId THEN w.rule
       ELSE IF i # w.at \/ rules[i] = None THEN rules[i]
       ELSE IF w.op = "put" /\ kind # "route" THEN w.rule
       ELSE None]
  /\ nextId' = IF Adds(w) THEN nextId + 1 ELSE nextId

Abandon(w) ==
  \/ Cardinality(late) < MaxLate /\ late' = late \union {w}
  \/ UNCHANGED late

-----------------------------------------------------------------------------
\* One configuration does not reserve two addresses for one client.
ClientsDiffer(c) ==
  kind = "reserved" => \A r, s \in Resources : c[r].key = c[s].key => r = s

Init ==
  /\ kind \in Kinds
  /\ conf \in [Resources -> Contents]
  /\ ClientsDiffer(conf)
  /\ want = conf
  /\ nextId \in {1, 2}
  /\ \E c \in Contents :
       rules = [i \in Ids |-> IF i < nextId THEN [what |-> c, owner |-> Other] ELSE None]
  /\ mu = Free
  /\ id = [r \in Resources |-> None]
  /\ pc = [r \in Resources |-> "idle"]
  /\ before = [r \in Resources |-> {}]
  /\ attempt = [r \in Resources |-> 0]
  /\ late = {} /\ strayed = {}

\* Only port triggering serialises its creates.
Create(r) ==
  /\ pc[r] = "idle" /\ id[r] = None
  /\ want' = [want EXCEPT ![r] = conf[r]]
  /\ Goto(r, IF kind = "triggering" THEN "lock" ELSE "post")
  /\ UNCHANGED <<rules, nextId, mu, id, lookup, late, strayed>>

\* Mutant of LockTriggering: the mutex is not taken.
LockNothing(r) ==
  /\ pc[r] = "lock"
  /\ Goto(r, "before")
  /\ UNCHANGED <<rules, nextId, mu, id, want, lookup, late, strayed>>

LockTriggering(r) ==
  /\ pc[r] = "lock"
  /\ mu = Free
  /\ mu' = r
  /\ Goto(r, "before")
  /\ UNCHANGED <<rules, nextId, id, want, lookup, late, strayed>>

ListBefore(r) ==
  /\ pc[r] = "before"
  /\ before' = [before EXCEPT ![r] = InUse]
  /\ Goto(r, "post")
  /\ UNCHANGED <<rules, nextId, mu, id, want, attempt, late, strayed>>

\* The local variables of a create that has ended, either way.
Forget(r) ==
  /\ before' = [before EXCEPT ![r] = {}]
  /\ attempt' = [attempt EXCEPT ![r] = 0]

\* Mutant of GiveUp: an operation that fails keeps the mutex.
GiveUpLocked(r) ==
  /\ Goto(r, "idle")
  /\ Forget(r)
  /\ UNCHANGED <<mu, id>>

\* An operation ends with an error; a create then records no number.
GiveUp(r) ==
  /\ Goto(r, "idle")
  /\ Unlock(r)
  /\ Forget(r)
  /\ UNCHANGED id

ListBeforeFails(r) ==
  /\ pc[r] = "before"
  /\ GiveUp(r)
  /\ UNCHANGED <<rules, nextId, want, late, strayed>>

(***************************************************************************)
(* The answer about a forwarding or a route tells the number with some     *)
(* firmware and not with other; or the answer is lost.                     *)
(***************************************************************************)
PostRule(r) ==
  /\ pc[r] = "post"
  /\ CarryOut(Request(r, "post", None))
  /\ \/ /\ kind \in {"forwarding", "route"}
        /\ SetId(r, nextId) /\ Goto(r, "read")
        /\ UNCHANGED <<mu, lookup>>
     \/ Goto(r, "find") /\ UNCHANGED <<mu, id, lookup>>
     \/ GiveUp(r)
  /\ UNCHANGED <<want, late, strayed>>

PostFails(r) ==
  /\ pc[r] = "post"
  /\ Abandon(Request(r, "post", None))
  /\ GiveUp(r)
  /\ UNCHANGED <<rules, nextId, want, strayed>>

-----------------------------------------------------------------------------
\* What CreatePortTriggeringRule did not see before its POST.
New(r) == InUse \ before[r]

\* Mutant of Candidates: the newest rule is taken to be the one written.
Newest(r) == {i \in InUse : i + 1 = nextId}

\* Rules that say the same, and rules that agree in what identifies them.
Equal(r) == {i \in InUse : rules[i].what = want[r]}
Alike(r) == {i \in InUse : rules[i].what.key = want[r].key}

\* The rules that may be the one written.
Candidates(r) ==
  CASE kind = "triggering" -> Equal(r) \intersect New(r)
    [] kind = "reserved" -> IF Equal(r) # {} THEN Equal(r) ELSE Alike(r)
    [] OTHER -> Alike(r)

\* Mutant of IsFound: the first candidate is taken, however many there are.
IsFirst(r, i) == i \in Candidates(r)

\* A reservation is the first candidate, everything else must be the only one.
IsFound(r, i) ==
  IF kind = "reserved" THEN i \in Candidates(r) ELSE Candidates(r) = {i}

Find(r) ==
  /\ pc[r] = "find"
  /\ \E i \in Ids : IsFound(r, i) /\ SetId(r, i)
  /\ Goto(r, "read")
  /\ Unlock(r)
  /\ Forget(r)
  /\ UNCHANGED <<rules, nextId, want, late, strayed>>

\* Mutant of FindFails: the attempts are not counted.
FindFailsAgain(r) ==
  /\ pc[r] = "find"
  /\ attempt' = [attempt EXCEPT ![r] = @ + 1]
  /\ UNCHANGED <<rules, nextId, want, late, strayed, pc, mu, id, before>>

\* The list cannot be read, or does not tell which rule it is.
FindFails(r) ==
  /\ pc[r] = "find"
  /\ \/ /\ kind = "triggering" /\ attempt[r] + 1 < Attempts
        /\ attempt' = [attempt EXCEPT ![r] = @ + 1]
        /\ UNCHANGED <<pc, mu, id, before>>
     \/ GiveUp(r)
  /\ UNCHANGED <<rules, nextId, want, late, strayed>>

-----------------------------------------------------------------------------
\* Terraform reads or destroys a resource it has in its state.
Begin(r, step) ==
  /\ pc[r] = "idle" /\ id[r] # None
  /\ Goto(r, step)
  /\ UNCHANGED <<rules, nextId, mu, id, want, lookup, late, strayed>>

\* Mutant of Update: another MAC address does not force a new reservation.
UpdateAnything(r) ==
  /\ pc[r] = "idle" /\ id[r] # None
  /\ want' = [want EXCEPT ![r] = conf[r]]
  /\ Goto(r, "put")
  /\ UNCHANGED <<rules, nextId, mu, id, lookup, late, strayed>>

(***************************************************************************)
(* Terraform updates a resource.  A reservation whose MAC address changes  *)
(* is destroyed and created instead, at any time before or after what      *)
(* happens to other resources.                                             *)
(***************************************************************************)
Update(r) ==
  /\ pc[r] = "idle" /\ id[r] # None
  /\ kind = "reserved" => conf[r].key = want[r].key
  /\ want' = [want EXCEPT ![r] = conf[r]]
  /\ Goto(r, "put")
  /\ UNCHANGED <<rules, nextId, mu, id, lookup, late, strayed>>

\* A read that finds nothing drops the resource from the state.
ReadRule(r) ==
  /\ pc[r] = "read"
  /\ IF rules[id[r]] = None THEN SetId(r, None) ELSE UNCHANGED id
  /\ Goto(r, "idle")
  /\ UNCHANGED <<rules, nextId, mu, want, lookup, late, strayed>>

ReadFails(r) ==
  /\ pc[r] = "read"
  /\ GiveUp(r)
  /\ UNCHANGED <<rules, nextId, want, late, strayed>>

PutRule(r) ==
  /\ pc[r] = "put" /\ kind # "route"
  /\ CarryOut(Request(r, "put", id[r]))
  /\ \/ Goto(r, "read") /\ UNCHANGED <<mu, id, lookup>>
     \/ GiveUp(r)
  /\ UNCHANGED <<want, late, strayed>>

\* The route has a new number now, which the answer does not tell.
PutRoute(r) ==
  /\ pc[r] = "put" /\ kind = "route"
  /\ CarryOut(Request(r, "put", id[r]))
  /\ \/ Goto(r, "find") /\ UNCHANGED <<mu, id, lookup>>
     \/ GiveUp(r)
  /\ UNCHANGED <<want, late, strayed>>

PutFails(r) ==
  /\ pc[r] = "put"
  /\ Abandon(Request(r, "put", id[r]))
  /\ GiveUp(r)
  /\ UNCHANGED <<rules, nextId, want, strayed>>

\* The answer may be lost: the resource then keeps a number without a rule.
DeleteRule(r) ==
  /\ pc[r] = "delete"
  /\ CarryOut(Request(r, "delete", id[r]))
  /\ \/ SetId(r, None) /\ Goto(r, "idle") /\ UNCHANGED <<mu, lookup>>
     \/ GiveUp(r)
  /\ UNCHANGED <<want, late, strayed>>

DeleteFails(r) ==
  /\ pc[r] = "delete"
  /\ Abandon(Request(r, "delete", id[r]))
  /\ GiveUp(r)
  /\ UNCHANGED <<rules, nextId, want, strayed>>

(***************************************************************************)
(* The configuration is edited while Terraform is not running.  Clients    *)
(* differ in the new one as in the old, but they may have changed places.  *)
(***************************************************************************)
Idle == \A r \in Resources : pc[r] = "idle"

Configure ==
  /\ Idle
  /\ conf' \in [Resources -> Contents]
  /\ ClientsDiffer(conf')
  /\ UNCHANGED <<rules, nextId, mu, id, want, pc, lookup, late, strayed>>

(***************************************************************************)
(* "terraform import" gives a resource the number of a rule that no        *)
(* resource has and no request under way is about, and reads it.           *)
(***************************************************************************)
Import(r, i) ==
  /\ Idle
  /\ id[r] = None /\ \A q \in Resources : id[q] # i
  /\ i \in InUse /\ \A w \in late : w.at # i
  /\ SetId(r, i)
  /\ want' = [want EXCEPT ![r] = rules[i].what]
  /\ rules' = [rules EXCEPT ![i].owner = r]
  /\ Goto(r, "read")
  /\ UNCHANGED <<nextId, mu, lookup, late, strayed>>

-----------------------------------------------------------------------------
\* Somebody else adds a rule, or removes one of those there are.
ExternalAdd ==
  /\ "add" \in Disturbances
  /\ \E c \in Contents :
       CarryOut([op |-> "post", at |-> None, rule |-> [what |-> c, owner |-> Other]])
  /\ strayed' = strayed \union {Other}
  /\ UNCHANGED <<mu, id, want, pc, lookup, late>>

ExternalRemove(i) ==
  /\ "remove" \in Disturbances
  /\ i \in InUse
  /\ rules' = [rules EXCEPT ![i] = None]
  /\ strayed' = strayed \union {rules[i].owner}
  /\ UNCHANGED <<nextId, mu, id, want, pc, lookup, late>>

CarryOutLate(w) ==
  /\ w \in late
  /\ CarryOut(w)
  /\ late' = late \ {w}
  /\ strayed' = strayed \union {Other}
  /\ UNCHANGED <<mu, id, want, pc, lookup>>

-----------------------------------------------------------------------------
\* The steps an operation takes once it has begun.
Proceed(r) ==
  \/ LockTriggering(r) \/ ListBefore(r) \/ ListBeforeFails(r) \/ PostRule(r) \/ PostFails(r)
  \/ Find(r) \/ FindFails(r) \/ ReadRule(r) \/ ReadFails(r)
  \/ PutRule(r) \/ PutRoute(r) \/ PutFails(r) \/ DeleteRule(r) \/ DeleteFails(r)

Step ==
  \/ \E r \in Resources :
       \/ Create(r) \/ Proceed(r) \/ Update(r) \/ Begin(r, "read") \/ Begin(r, "delete")
       \/ \E i \in Ids : Import(r, i)
  \/ ExternalAdd
  \/ \E i \in Ids : ExternalRemove(i)
  \/ \E w \in late : CarryOutLate(w)

Next ==
  /\ \/ Step /\ UNCHANGED conf
     \/ Configure
  /\ UNCHANGED kind

Spec == Init /\ [][Next]_vars

-----------------------------------------------------------------------------
Requests == [op : {"post", "put", "delete"}, at : Ids \union {None}, rule : Rules]

TypeOK ==
  /\ kind \in Kinds
  /\ rules \in [Ids -> Rules \union {None}]
  /\ nextId \in 1 .. MaxIds + 1
  /\ mu \in Resources \union {Free}
  /\ id \in [Resources -> Ids \union {None}]
  /\ conf \in [Resources -> Contents] /\ want \in [Resources -> Contents]
  /\ pc \in [Resources -> {"idle", "lock", "before", "post", "find", "read", "put", "delete"}]
  /\ before \in [Resources -> SUBSET Ids]
  /\ attempt \in [Resources -> 0 .. Attempts - 1]
  /\ late \subseteq Requests
  /\ strayed \subseteq Resources \union {Other}

(***************************************************************************)
(* portTriggeringMu is held exactly from the first list of a create to the *)
(* last, and released on every way out: a lost answer, a list that cannot  *)
(* be read, a rule that cannot be told apart.  If one kept it, every later *)
(* create would wait for ever.                                             *)
(***************************************************************************)
LockHeldByCreate ==
  \A r \in Resources :
    mu = r <=> kind = "triggering" /\ pc[r] \in {"before", "post", "find"}

(***************************************************************************)
(* The number a resource holds is that of a rule it wrote itself, or of no *)
(* rule, as long as nobody else removes the rules of resources: equal rules, *)
(* of another resource or of somebody else, added at any moment, are never *)
(* mistaken for it, and no update or destroy touches them.                 *)
(***************************************************************************)
IdIsOwn ==
  kind # "reserved" /\ strayed \subseteq {Other} =>
    \A r \in Resources : id[r] # None /\ rules[id[r]] # None => rules[id[r]].owner = r

(***************************************************************************)
(* Two resources never manage one rule, the later destroy of one deleting  *)
(* it under the other, unless somebody else has removed one of theirs.     *)
(* With reservations even that does not lead to it, though a create takes  *)
(* the first one found for its client: only a configuration that moves a   *)
(* client does, from a resource that still has its reservation.            *)
(***************************************************************************)
Moved(r) == conf[r].key # want[r].key

IdsNotShared ==
  \A r, s \in Resources :
    r # s /\ id[r] = id[s] /\ id[r] # None =>
      IF kind = "reserved" THEN Moved(r) \/ Moved(s) ELSE ~(strayed \subseteq {Other})

(***************************************************************************)
(* "The whole discovery is serialised: two creates running at the same     *)
(* time would otherwise see each other's rules and fail to tell which id   *)
(* is theirs" (service_rules.go:203-205).  Undisturbed, there is exactly   *)
(* one rule to choose from, even if all resources say the same.            *)
(***************************************************************************)
FoundAtOnce ==
  \A r \in Resources :
    kind = "triggering" /\ pc[r] = "find" /\ strayed = {} => \E i \in Ids : Candidates(r) = {i}

(***************************************************************************)
(* "The firmware implements an update as a delete followed by a create, so *)
(* the device id changes on every update; the resource follows the new id" *)
(* (docs/resources/sxep200w_static_route_ipv6.md:47-48).  Between          *)
(* operations a resource whose route exists knows a number of its own.     *)
(***************************************************************************)
FollowsNewId ==
  \A r \in Resources :
    pc[r] = "idle" /\ id[r] # None /\ (\E i \in InUse : rules[i].owner = r)
      => rules[id[r]] # None

(***************************************************************************)
(* Resources keep to their own rules: whatever a request does, in time or  *)
(* late, it adds a rule under a new number or changes or removes one of    *)
(* its sender, and a number in the state is that of a rule of one's own,   *)
(* or of none.  Nothing is promised once somebody else has removed the     *)
(* rule of a resource, and of reservations, which may be adopted.          *)
(***************************************************************************)
Owner(i) == IF rules[i] = None THEN None ELSE rules[i].owner
Claim(r) == IF id[r] \in InUse THEN id[r] ELSE None
Spoilt == IF kind = "reserved" \/ ~(strayed \subseteq {Other}) THEN Ids ELSE {}

Ownership == INSTANCE RuleOwnership WITH
  Slots  <- Ids,
  Nobody <- None,
  owner  <- [i \in Ids |-> Owner(i)],
  claim  <- [r \in Resources |-> Claim(r)],
  spoilt <- Spoilt

NumbersKeepOwners == Ownership!Spec

=============================================================================
