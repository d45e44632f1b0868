# Verification of terraform-provider-synclayer

TLA+ models of the Terraform provider for the SyncLayer SXEP200W router, checked
with TLC and, where it says so, proved with TLAPS. Paths are relative to the
repository; `client.go`, `wifi.go`, `crypto.go` and `service_rules.go` are in
`src/internal/synclayer/`, `resource_*.go` and `provider.go` in
`src/internal/provider/`.

## The system

Terraform runs the operations of independent resources concurrently, each in a
goroutine of its own, all through one `synclayer.Client`. The device is a small
HTTP server with one session: every login ends the session before it. It has no
transactions, no conditional writes, and in places no stable ids.

| Component | State | Operations | What is hard | What makes it correct |
|---|---|---|---|---|
| Session layer (`client.go:35-309`, `provider.go:91-118`) | `token`, `expiry` under `mu`; the device's session | `Login`, `Logout`, `request*` (token, send, one retry after a 401) | concurrent operations share a token; a late 401; a login whose answer is lost; errors under the mutex | no operation ends the session of another; one login per lost session; nothing is applied twice; every call ends |
| Stored passwords (`client.go:586-667`, `wifi.go:110-199`, `crypto.go:53-139`) | the password on the device, enciphered for each session | `UpdateDDNS`, `DisableDDNS`, `GetWifiSSID`, `UpdateWifiSSID` | the session is renewed between the read and the write | a password nobody configures is kept; a configured one is stored |
| Packet filter (`service_rules.go:30-147`, `resource_packet_filtering.go`) | the rules by priority; the id in each resource's state; `accessControlMu` | create, read, update, delete, import | the device overwrites; a failed create may have landed | a resource only touches its own rule |
| Port triggering (`service_rules.go:149-285`) | rules with ids the device never reports; `portTriggeringMu` | create (list, post, list again up to three times), read, update, delete, switch | other writers between the lists; retries of the read | the id recorded is the id of the rule created |
| Port forwarding, static routes v4 and v6, reserved IPs (`client.go:374-584`, `service_settings.go:180-263`) | rules with ids | create and find by contents, update (which renumbers a route), delete, import | equal rules; failures between write and lookup; no mutex; a MAC address that passes to another resource | ids in the state are of the resource's own rule, or at least not another resource's |
| WiFi SSID and access list (`resource_wifi_ssid.go`, `wifi.go`) | the SSID document, the list, its mode | upsert in an order that depends on the direction of the change, reconcile, read, disable | partial failures; the list seen by clients in between; duplicates | the client that runs the provider is not locked out; the list ends as configured |
| Network options (`resource_network_options.go`), WiFi global (`resource_wifi_global.go`) | two documents each | read, change and write one after the other; a read after a write that failed | failure between the two; an unknown name found at the second | the second is not touched before the first is in force; nothing written goes unrecorded |
| Eco mode (`resource_eco_mode.go`) | a setting applied some time after it was accepted | write, then poll up to five times | reading the old value; a write given up and applied later | success means the setting is in force; the polling ends |
| Firewall, LAN, UPnP, DMZ, DDNS, date and time, WiFi radio (`resource_*.go`, `raw_config.go`) | one document each | read, change what is configured, write the whole back | others changing the document in between | what is not configured is left alone |
| Login hash, transport, schemas, data source | none | pure | | |

Interaction: every resource calls `clientFromMeta` and then methods of the
client; every method of the client ends in `request`, `requestWithToken` or
`requestWithBody`. So the session layer is below everything, and what the other
models take from it is its contract, `RequestContract`: a call is carried out at
most once, a call that reports success was carried out, and a call that fails
may have been either.

`PROJECT.json` lists the hazards of each part with the lines where they bite and
the properties that cover them.

## The modules

| Module | What it is |
|---|---|
| `RequestContract` | what a call of the client promises, without tokens, logins or retries |
| `ApplyContract` | what an operation that configures items of the device promises, without reads, writes or their order; implemented by `Settings`, `WifiAccessList` and `Credential` |
| `RuleOwnership` | what resources promise each other about the rules of the device, however these are created, found and numbered; implemented by `PacketFilter` and `RuleIds` |
| `RuleOwnershipProofs` | what follows from that promise alone |
| `Session` | the session layer and the device's single session; implements `RequestContract` |
| `SessionProofs` | its theorems |
| `Credential` | the two passwords read and written back in envelopes that depend on the session |
| `CredentialProofs` | its theorems |
| `PacketFilter` | packet filter rules, the resources that own them, and the other writers |
| `PacketFilterProofs` | its theorems |
| `RuleIds` | port triggering, port forwarding, static routes and reservations: rules the device numbers, and the resources that have to learn the number |
| `RuleIdsProofs` | its theorems |
| `WifiAccessList` | one SSID and its MAC access control list: the writes of an apply, in their order, and what clients are admitted in between |
| `WifiAccessListProofs` | its theorems |
| `Settings` | the eleven resources for settings the device always has: one or two documents read, changed and written back whole |
| `SettingsProofs` | its theorems |
| `MC*` and `.cfg` | the instances TLC checks |

### The contracts

Three abstract specifications say what the components are for; each component has a
property that is the contract under a refinement mapping, checked by a run and proved.

* `RequestContract`: *a call is carried out at most once, and its verdict tells the truth.*
  `Session` implements it (`MeetsContract`); the other models take requests to behave so.
* `ApplyContract`: *an item of the device has at any moment the value it had or the one it is
  to have, also half-way, after a failure and when a write takes effect late; success means
  that all items have theirs.* Items of which nothing is promised are
  `loose`. The items are, in
  `Settings` (`AppliesConfiguration`), the fields of the documents, loose when others changed
  them since they were read, or when an earlier eco mode write is pending; in
  `WifiAccessList` (`AdmitsByContract`), for each address whether the SSID admits that
  client, loose when an enforced list changes its mode (finding 5); in `Credential`
  (`StoresByContract`), the stored password, loose for a DDNS password that is not
  configured (finding 2).
* `RuleOwnership`: *a resource fills, changes and clears slots that are free or its own, and
  has in its state only what it owns; an import takes what no resource has.* Slots of which
  nothing is promised are `spoilt`. The slots are, in `PacketFilter` (`RulesKeepOwners`), the priorities,
  spoilt when written behind the provider's back; in `RuleIds` (`NumbersKeepOwners`), the
  numbers of the device, of which nothing is promised once somebody else has removed the rule
  of a resource, nor for reservations, which a resource may adopt. (`IdsNotShared` says what
  reservations do have.)

### Session

A goroutine of `Ops` is one resource operation at a time; `Configure` is the one
of `configureProvider`. `pc` says where a goroutine is between two points at
which others can act: taking `mu`, each half of each round trip. Local variables
of `requestWithBodyToken` are `held` (`token`) and `rejected` (the token of the
first attempt, whose being set is what makes an attempt the second). A round
trip is `DeviceAnswers` and `AnswerArrives`, so that a session may be renewed
while a 401 is under way; `RoundTripFails` is the failure of either half, before
or after the device acted. `loginLocked` is `LockForLogin`, `FetchChallenge`,
`Authenticate`, `StoreToken`, with `LoginFails` from each of them: `mu` is held
throughout. `fresh` is `time.Now().Before(expiry)`; time itself is left out, so
`TokenLapses` may happen whenever a token is cached. `SessionRevoked` is the
device dropping the session: its own expiry, a reboot, a login through the web
UI, and also a login request of this client that arrives after the client gave
up on it, which ends the session the same way.

`ended` and `wasted` are history: the tokens that were lost for a reason other
than a login of this provider, and those whose login answer never arrived. They
let the properties say *why* a login or an error was justified:

* `NoOperationEvictsAnother`, `EveryLoginNeeded`: no login ends a session that
  was still good. This is what comparing the token in `invalidateToken` is for
  (client.go:234-237); the mutant that discards any token violates both.
* `UnauthorizedOnlyAfterSecondLoss`: a 401 reaches the resource only if the token
  of the second attempt was lost too.
* `RetryUsesAnotherToken`, `MutexMatchesHolder`, `CallsFinish`.
* `CallsAdvance`: why calls finish. `StepsLeft` counts the steps a call can still make; every
  step of the call lowers it, and no step of another goroutine changes it. It holds because
  an attempt that finds `rejected` set is the last; the mutant that never sets it makes a
  call that can be refused for ever.
* `MeetsContract`: `Session` implements `RequestContract` under the mapping
  *running = not idle*, with `applied` and `verdict` as they are.

`Logout` is in the model although only tests call it; nothing hinges on it.

### Credential

A password on the device is a value; on the wire it is a pair of the token it was
enciphered with and the text, which is what AES-CBC without authentication comes
to: with another token one gets another text (`Garbled`) and no error. `Malformed`
is an answer that is not an envelope, `ShortTokens` are tokens AES has no key for.
`kind`, chosen at the start, is `UpdateDDNS` or `UpdateWifiSSID`; they share the retry and differ
in where the stored password is deciphered: in `GetWifiSSID`, with the token of
the GET, or in the body of the PUT, with the token of the PUT. The session ends
and is renewed at any moment. `Read` is the GET with the token it succeeded
with; its own retry is `Session`'s. What the device does is taken from the
comments at client.go:601-604 and wifi.go:149-160 and from
`client_test.go:458-497` and `656-743`: it enciphers what it stores with the
token of the session it answers in, and deciphers what it is sent likewise.
`DisableDDNS` is an update that does not configure the password.

* `PasswordKept` holds for the WiFi key (`WifiKeyKept`) and is proved. It does not
  hold for DDNS: see the findings. What DDNS does give is `KeptWithinSession`.
* `NeverWiped`: whatever fails, a stored password is not erased.
* `StoresByContract`: the stored password is the old one or the configured one, and after a
  success the latter (`SuccessMeansStored`, which is proved on its own): the payload is
  enciphered anew for the second attempt.

### PacketFilter

`rule[p]` is the owner of the rule at priority `p` of one address family,
`Other` for those of the firmware, the web UI or an older configuration. `id` is
the id in Terraform's state, `slot` the priority configured, which forces a new
resource when it changes. A create is `Create` (its own check and the id
recorded), `LockAccessControl`, `CheckUnderLock`, `PostRule`, `PostAnswered` and
then the read; `FailCreate` is every way it ends otherwise, and gives the id up.
`late` holds the writes the client timed out on, which `LateWrite` lets arrive
at any time. `Import` is a command of its own, which Terraform does not run
beside an apply and not for an object that another resource has.

`strayed` is history: priorities written behind the provider's back, by somebody
else, by a late request, or by a destroy whose answer was lost. The properties
except these and nothing else:

* `CheckedSlotStaysFree`: nobody writes between the check and the POST.
* `ClaimedRuleSafe`: the rule of a resource goes only by its own destroy.
* `LockHeldByCreate`: no way out of a create keeps the mutex.
* `RulesKeepOwners`: `PacketFilter` implements `RuleOwnership`. What a create or a destroy that
  is not over has in its state does not count as claimed: the one is recorded before the write
  (resource_packet_filtering.go:253), the other is not yet forgotten. `ClaimIsOwned`, which is
  proved, is what it says of a state: a resource that holds an id owns the rule there.

### RuleIds

The resources of one table, of the kind chosen at the start. A rule is what
identifies it for the lookups (`key`), the `rest`, and who wrote it, which only
the properties see. `id` is the number in Terraform's state. The kinds share the
life of a resource (create, read, update, destroy, each ending in the read) and
differ in how a number is learned:

| Kind | Learned from | `Candidates` | taken if |
|---|---|---|---|
| port triggering | list, POST, list again, up to three times, under `portTriggeringMu` | equal in everything and not in the first list | the only one |
| port forwarding | the answer, else the list | equal in service, address, protocol and ports | the only one |
| static routes | likewise; and the list again after every update | equal in destination, prefix, gateway and interface | the only one |
| reservation | the list | the same client and address, else the same client | the first |

The two families of routes run the same code and are one kind here. That the
firmware replaces an updated route by a new one is what client.go:483-485 and
service_settings.go:216-219 report, and that a number is not used twice is how the
tests' devices behave. Both are assumptions about the device; so is that it accepts a second
reservation for a client (if it refuses, the create fails). A request fails
before or after it was carried out; one that timed out stays in `late` and may
arrive at any time. Somebody else may add a rule equal to one being created,
or remove one.

`conf` is what the configuration says of each resource; `want` is what its last operation
asked for, which is what its state says and, of a reservation, the client it still holds one
for. `Create` and `Update` take `want` from `conf`. `Configure` replaces the whole
configuration while Terraform does not run. All that is required of it is that each
configuration by itself names a client once (`ClientsDiffer`): from one to the next, clients
may be swapped, shifted or dropped. `mac_address` forces a new resource
(resource_reserved_ip.go:31-34), so `Update` is only possible while the client stays, and a
resource whose client changes is destroyed (`Begin`, `DeleteRule`) and created again, at any
time before or after the operations on other resources, since Terraform knows of no
dependency between them. That a refresh puts what the rule says into the state is left out of
`ReadRule`: the client there is that of `want` anyway (`Keyed`, which is proved), and everything
else is taken from `conf` before it is sent. `Import` gives a resource the number of a rule that no resource
has, and reads it; like `Configure` it is a command of its own, and it is assumed that the
user does not import a rule which an earlier request, given up, is still about.

`strayed` is history again: whose rules somebody else, or a late request, has added or
removed.

* `IdIsOwn`: the number a resource holds is that of a rule it wrote itself. The
  lookups of forwardings and routes run without a lock, and two equal ones at once
  both fail; what they do not do is settle for the other's. The exception is a
  rule removed by somebody else between the write and the lookup, while an equal
  one is there.
* `FoundAtOnce`: under `portTriggeringMu` and undisturbed, the comparison always
  leaves exactly one rule, even when all resources ask for the same and earlier
  creates left rules nobody holds.
* `IdsNotShared`: when two resources can come to hold the number of one rule, so that the
  destroy of one takes the rule from the other. For the other kinds: only after somebody else
  has removed a rule of a resource. For reservations the lookup takes the first match, by the
  client alone if no address matches (client.go:561-570), and that may be somebody else's,
  which the resource then adopts. Another resource's it is only while the configuration takes
  the client away from one of the two (`Moved`), whatever else is added, removed or late: a
  reservation keeps its client as long as it has its number, and a resource keeps its client
  as long as it has a reservation. The mutant lets an update change the client. The
  exception is real: when a MAC address passes from one resource to another, and the create
  comes first, it may record the id of the reservation that is about to be destroyed, although
  the description of `mac_address` says "Changing this forces a new reservation"
  (resource_reserved_ip.go:42). The new resource then has the id of a reservation that is
  gone, its next refresh drops it, and the reservation it did create is left to nobody.
  Without the exception TLC finds this in the instance of `rule_ids`.
* `NumbersKeepOwners`: `RuleIds` implements `RuleOwnership`, for the kinds other than reservations.
* `LockHeldByCreate`: no error path keeps the mutex.

### WifiAccessList

One SSID, its list, and the resource that writes both. `device` is what the device holds
and enforces: whether the SSID is active, whether it filters (`accessControl`, which is
also the `active` of the list), whether the list admits or rejects, and the rules, an
address under each id. An action is one request and its answer: `Apply` is the GET of the
SSID and every decision up to the first write; then, depending on the configuration,
`DisableFirst`, `ReadList`, `AddRule` and `RemoveRule` in the order `AddsFirst` allows,
`ReadListAgain`, `WriteList`, `WriteSsid`, and the final `Refresh`. `Destroy` and
`DisableSsid` are the destroy. A write takes effect and is answered, takes effect and its
answer is lost, or fails (`RequestFails`); in the last two cases the apply ends there, the
device stays as it is, and any configuration may be applied next. So every partial
failure is the start of another apply.

An attribute that is not configured is `Unset`. Which of several rules of one address stays is a
choice of the model, because the device does not keep the order of the list; so are the id of
a new rule and the order of additions among themselves (the code sorts them).
That a full list refuses a rule is the device's `maxRules`. Other writers of the list are left
out: the documentation asks for one resource per list, and the code cannot notice others.

`before` is history: the device when the apply began, so `before` and `conf` say what is wanted.

* `NobodyLockedOut`: a client admitted before and admitted by the configuration is admitted in
  between, also when the apply stops half-way. It is what the position of the SSID write and
  the order of additions and removals are for. The exception, a list that changes its mode
  while it is enforced, is finding 5.
* `KeptRulesSurvive`: an address that stays keeps one of its rules, under its id.
* `SuccessMeansConfigured`: several writes carry values read at different moments; after all of
  them nothing is undone. The mutant writes the list back as it was first read.
* `SettledIsUntouched`: applying what is there already changes nothing at any moment.
* `FullOnlyWhileFiltering`: with filtering off, removing first makes room.

### Settings

The resources of this kind run the same steps and differ in details, so there is one model
and a record for each of them, `Firewall` to `WifiGlobal`. A record has the traits of each
document the resource writes, in the order of the code; what a destroy changes; and when an
apply sets the id. A document is a switch, `active`, and the `rest`, which stands for every
other field; an attribute that is not configured is `Unset`. `WifiSSID` is an SSID whose
access control list is not configured; with the list it is `WifiAccessList`.

`Apply` and `Destroy` are Terraform starting an operation. `NextSetting` goes to the next
document that has to be written; then come `Read` (the GET and what is decided on it: refuse
an unknown name, return because it is off already, or merge), `Write` or `WriteFails`,
`Confirm` (network options reads again after a write that seemed to fail,
resource_network_options.go:193-201), `Poll` (`waitForEcoMode`), and `Refresh`, the read at
the end. `ReadFails` is every error of a GET. The traits:

| Trait | Whose | Meaning |
|---|---|---|
| `always` | all but the second documents and WPS | written by every apply, configured or not |
| `complete` | DDNS, the gateways of network options | a configuration gives everything or nothing |
| `defaulted` | DMZ | the switch is always configured |
| `blind` | WPS | the PUT holds the switch alone, no GET before it |
| `refuses` | DDNS, gateways | a name the device does not know ends the operation |
| `confirms` | network options | a GET decides about a write that failed |
| `polled` | eco mode | the answer comes before the effect |
| `zeroes` | DMZ | switched off, the device forgets the address |
| `turnedOff` | DMZ, DDNS | a destroy writes also what is off already |

Others (`External`) write any document at any moment, one field at a time; a request that
was given up and arrives late is one of them. `ApplyPending` is the device applying what it
has accepted, or dropping it, which the device of the acceptance tests can be told to do
(`ecoNeverApplies`). That a PUT replaces the document, that DMZ zeroes the address, and that
eco mode answers first is what comments and test devices say of the device. `conf` is what
the merge reads, not what the user wrote: for DMZ, where the code takes the planned value
(`d.Get`) of an attribute that keeps its last value, the state's value counts as configured.

History: `raced` is what others changed in a document since it was read or written; `touched`,
whether the operation has written; `overtaken`, whether it began with a write of an
earlier operation still pending. The properties except these and nothing else:

* `SuccessMeansInForce`: a success, of an apply or a destroy, after whatever was lost or
  late. The exception `overtaken` is real: a destroy of eco mode reads it, finds it off and
  returns (resource_eco_mode.go:190), and then the write that an earlier apply had stopped
  waiting for switches it on.
* `InForceUpToFailure`: with two documents, the second is not reached while the first is in doubt.
* `UnconfiguredKept`: a step of an operation changes nothing that is not configured, except
  putting back what others changed between its read and its write. The mutant writes zero values.
* `WritesAreRecorded`: what an apply has written is in the state, so that the next apply or
  destroy deals with it. The exception is the three resources that set the id after their
  only write, when that write seems to fail; their documents exist anyway, and the next
  apply writes them again.
* `OperationsEnd`: also if the device never applies eco mode.
* `OperationsAdvance`: why. `StepsLeft` falls with every step of `Proceed`, past a document or to
  the next of the five reads, and nothing else moves the operation: at most 22 steps.

## The runs

| Run | Instance | Shows |
|---|---|---|
| `session` | 3 operations, 4 calls, lifetimes 0, 61 and 1200 s | the safety properties of `Session`, and the variant behind its liveness |
| `session_live` | 2 operations, 3 calls | every call ends; the refinement of `RequestContract`, with fairness |
| `session_short` | lifetime 60 s | finding 1 |
| `passwords` | both kinds, 2 passwords, 4 sessions, a short token | the properties of `Credential`: what each of the two passwords is promised; the refinement of `ApplyContract` |
| `ddns_password_kept` | DDNS, 3 sessions | finding 2 |
| `packet_filter` | 2 resources, 2 priorities, every disturbance | the safety properties of `PacketFilter`; the refinement of `RuleOwnership` |
| `packet_filter_late` | 2 resources, 1 priority, late requests | finding 3 |
| `rule_ids` | all four kinds; 2 resources, 3 numbers, 1 late request, another writer; rules that all say the same, or reservations for 2 clients that may change places; imports | the safety properties of `RuleIds`; the refinement of `RuleOwnership` |
| `route_follow` | routes, nobody else writing | finding 4 |
| `wifi_list` | every list of 3 rules over 2 addresses, every configuration, any number of applies | the properties of `WifiAccessList`; the refinement of `ApplyContract` |
| `wifi_list_flip` | 2 rules, 2 addresses | finding 5 |
| `settings` | all eleven resources and every configuration of each, others changing a field, one earlier write pending; with fairness | the properties of `Settings`, liveness and its variant among them; the refinement of `ApplyContract` |

**Bounds.** `MaxCalls` bounds the calls begun. The worst known interleaving needs the login
of the configuration and three calls: two that are refused with one token, and a third that
comes in between; three operations is one more than the two that interfere. `MaxTokens`
bounds the sessions: one for the read, one for each attempt of the write. Two resources and
two priorities are every relation two creates can have, and leave a priority to move to. In
`RuleIds` the hard case is rules that all say the same, since then every rule is a candidate
for every lookup, and the constraint `AllTheSame` leaves the others out. Reservations are for
two clients, which the resources may exchange; the resources ask for one address at a time
(`OneAddress`) while somebody else may reserve the other for the same client, so that lookups
end both in a match of client and address and in a match of the client alone. A request
for a reservation is under way late only while nobody else has written and every reservation
says one address (`DisturbedInTurn`); once it has arrived anything may follow. The proofs know
none of these constraints. Three numbers let one resource
create and update while another creates, and `MaxLate` of one lets any single request overtake what follows it. In
`WifiAccessList` nothing is counted: the state only depends on the device, the configuration
and the apply under way. Two addresses are one that stays and one that comes or goes, three
rules leave room for a duplicate beside both, and a list of two different addresses with a
duplicate is full. In `Settings` the state only depends on the documents and the operation
under way, so operations are not counted. `MaxPending` of two is one write left over and one
of the operation itself; `MaxRaced` of one lets others change one field, and what the device
zeroes with it, between a read and the next, any number of times. The properties speak of
one field at a time. The theorems hold for every value of these bounds.

**Deadlock.** It is checked in every run. `RunOver` and `OutOfTokens` stutter
where a bound is what stops the model.

**Fairness.** A goroutine keeps running (`WF` of its steps), and every round trip ends
because `http.Client.Timeout` is never zero (client.go:74-77, 91-92). Waiting for
`accessControlMu` is strongly fair: `sync.Mutex` hands the lock directly to a goroutine that
has waited for more than a millisecond. Nothing is assumed of the device, the other writers,
or Terraform's starting of operations. In `Session` the bound on calls makes weak fairness
enough. In `Settings` only `Proceed`, the steps of the operation, is fair: others may go on
changing the documents, and the device may keep what it accepted for ever.

## Findings

1. *A lifetime no longer than the refresh margin* (client.go:168-173). README.md:124
   says that the provider re-authenticates transparently when the token expires.
   If the device advertises at most 60 seconds, every token is expired as it is
   stored, every operation logs in, and each login ends the session of the others;
   an operation overtaken twice reports a 401. The theorems about `Session` name
   the assumption they need, `LifetimesExceedMargin` (the device is known to
   advertise 1200).
2. *A DDNS password can be garbled by a renewed session* (client.go:627). The
   stored password arrives enciphered with the token of the GET and is deciphered
   with the token of the PUT. If another operation logs in between the two, or the
   PUT itself is refused and retried, what comes out is not an error but garbage,
   which is then stored, and the update reports success. `UpdateWifiSSID` avoids
   this by deciphering in the read.
3. *A create that timed out may still overwrite the next one* (service_rules.go:131).
   The lock is released when the client gives up, not when the request can no
   longer arrive, so the comment at service_rules.go:109-111 promises more than the
   lock gives.
4. *An update of a static route can lose the route* (client.go:488, 491;
   service_settings.go:222, 225). If the answer to the PUT is lost, or the list after it
   cannot be read, the update returns before the new id is recorded, although
   docs/resources/sxep200w_static_route_ipv6.md:47-48 says that the resource follows the
   new id. The id in the state is then of a route the device has deleted: the next refresh
   drops the resource, and the next apply adds the route a second time.
5. *Swapping black list and white list while filtering is on locks clients out*
   (resource_wifi_ssid.go:352, 368, 433-445). The addresses are reconciled under the old mode
   and the mode is written afterwards. From a black list to a white list, the addresses to
   be admitted are first added to the black list; the other way round, addresses no longer
   listed are first removed from the white list. A client admitted before and after is
   rejected in between. If it is the one that runs the provider, the write that would turn
   the list never arrives. The comment at resource_wifi_ssid.go:428-432 orders the additions
   for the white list only, and wifi_acceptance_test.go:676-678 is about filtering being
   switched on or off.

## What is proved

With TLAPS, for every value of the constants:

* `SessionProofs`: `TypeCorrect`; `MutexHolder` (and `OneLoginAtATime`); and, under
  `LifetimesExceedMargin`, `SessionsAreNotStolen`, `OneRetryIsEnough`,
  `NoLoginStorm`, `RetryIsNew`; and `MeetsRequestContract`, the safety part of the
  refinement. The invariant `SessionInv` says what each step of a call knows of its
  token: the cached token is the latest the client obtained; a usable cached token
  is the session unless the session was lost; the token being stored under `mu` is
  newer than any other; a rejected token is over. `NoOperationEvictsAnother` alone is not
  inductive: it needs to know that a cleared cache or a rejected token implies a
  session already lost, which in turn needs the comparison in `invalidateToken`.
* `CredentialProofs`: `TypeCorrect`, `WifiPasswordKept`, `Stored`, `NotWiped`,
  `KeptInSession`. The invariant for the WiFi key says that what was recovered is the stored
  password or was read from it while nothing else could change it, and that a body about to
  be sent is enciphered with the token sent beside it. For both kinds `UpdateInv`
  (`ReadRight`, `BodyRight`, `OutcomeRight`) says what the read, the body and the outcome of
  an update know of the password before it: a body holds what is configured, or an envelope
  that was read, but never nothing where there was something.
* `PacketFilterProofs`: `TypeCorrect`, `LockDiscipline`, `CheckHoldsUntilWrite`,
  `ClaimsAreOwned`, `ClaimedRulesAreSafe`. The properties support each other: the
  priority checked stays free because whoever could write there either holds the
  lock or owns a rule that is there (`Owned`), and a rule stays its owner's because
  a create only writes where it is free. `SlotRecorded` ties the id recorded
  before the write to the priority written.
* `RuleIdsProofs`: `TypeCorrect`, `LockDiscipline`, `IdsAreOwn`, `MutexMakesUnique`,
  `NumbersNotShared`. That the number found is one's own needs to know that one's own is
  still to be found (`Looking`, `Mine`): it is in use, says what was asked for, was not
  there before the POST, and no request under way concerns it. The last holds because
  numbers are fresh when they are given out (`Fresh`) and because every request, delayed or
  not, aims at a rule of its sender (`Owned`). `MutexMakesUnique` adds that under the lock
  nothing else is new (`Alone`); that there is something is `Looking` again.
  `NumbersNotShared` needs a second argument for reservations, whose rules may be adopted:
  the rule under a number that a resource holds says the client of that resource, also after
  an update that arrives late or an import, and so do two resources that hold one number,
  also after the rule is gone (`Keyed`). Since no configuration names a client twice, it
  has then moved the client of one of them.
* `WifiAccessListProofs`: `TypeCorrect`, `Admitted`, `RulesKept`, `Configured`, `Untouched`,
  `FullForAReason`. The invariant says, for each step of an apply, what the apply knows of
  the device: which of its two writes the SSID has seen (`SsidRight`), that `ac` is the list
  on the device between the read and the write of it (`ListRight`), and that while the list
  is reconciled `missing` and `extra` are what the two lists differ in, with never the last
  rule of an address that stays in `extra` (`ReconcileRight`). Then the list in force is at
  each moment the old one, the new one, or of the same mode and between them (`Within`),
  which is `Admitted`. `FullForAReason` counts: only there does the size of the list matter,
  and it assumes that there are finitely many addresses (`MacsAssumption`).
* `SettingsProofs`: `TypeCorrect`, `Achieved`, `InTurn`, `LeftAlone`, `Tracked`; and
  `OperationsRunOut`, from types alone. The
  invariant `Sound` says that what an operation is to do is what its resource allows
  (`Planned`); that what is about to be written agrees with the configuration and, but for
  `raced`, with the device (`CurrentRight`); that what is pending is that, unless the
  operation was overtaken (`PendingRight`); and that the documents dealt with are in force
  (`DealtRight`). `Shape` is all that the proofs know of the eleven records, so another
  resource of the same shape needs no new proof.
* `CallsRunOut` in `SessionProofs`, for every number of operations and sessions and without
  `LifetimesExceedMargin`: also if every token has lapsed on arrival, a call makes two
  attempts at most. Its invariant, `RetryCounted`, says that
  a token is only discarded in a first attempt.
* `ImplementsContract` in `SettingsProofs`, `WifiAccessListProofs` and `CredentialProofs`: the
  refinements of `ApplyContract`. Each step maps to a move, a failure, a success, a
  disturbance or nothing. The safety invariants say what is true at the end; a refinement also
  says that no step goes anywhere else on the way, so the invariants had to say more of what
  is about to be written: that it is the configured value or the one on the device, also
  when it is written by an earlier operation (`PendingRight`), by the whole list
  (`ListRight`) or by the SSID (`SsidRight`), and that success is reported only when
  every document has been dealt with (`DealtRight`).
* `ImplementsOwnership` in `PacketFilterProofs` and `RuleIdsProofs`: the refinements of
  `RuleOwnership`. In the first a POST is an act of its owner because
  `CheckedSlotStaysFree`, and a PUT or DELETE because of `Owned`; in the second what a
  request does, in time or late, is an act of its sender because it aims at a fresh number or
  at a rule of the sender, and the number a lookup settles for is rightful by `IdIsOwn`'s
  invariant.
* `RuleOwnershipProofs`: from the contract alone, claims stay rightful
  (`ClaimsStayRightful`), no two resources claim one slot (`NeverShared`), and a slot that is
  claimed never comes to hold the rule of another (`NeverLost`). Its hypothesis, `Distinct`, is
  what `PacketFilter` and `RuleIds` assume of their constants.

The assumptions are the named `ASSUME`s of the modules, which say that the constants are
of their kinds and that the marker values differ from the rest.

**Only model-checked**: liveness (`CallsFinish`, the liveness part of `MeetsContract`, and
`OperationsEnd`), which the prover does not support. What is proved of it is the variant
(`CallsAdvance`, `OperationsAdvance`): there is no infinite sequence of steps of one call or
operation. That a call which is not over always has a step it may take, and that fairness
makes it take it, is what TLC adds. Every safety property of every passing run is proved,
and so is every refinement, but for the fairness in `RequestContract`.

## Not modelled

* `EncodeLoginPassword`, `NewClient`'s parsing of the host and its redirect policy,
  marshalling, the schemas, `flatten` and `expand`, the system data source, `main`:
  no state, or no control to speak of.
* The contents of rules and settings, where a module is about who owns them or which field
  is configured; the helpers that pick a field of a document are then `Changed`.
* Two resources for one document, or for the access list that both bands share: the
  documentation asks for one, and the code cannot notice another. In `Settings` it would be one of
  the others that write; others that write the access list are left out.
* `create_before_destroy`, with which a resource has two objects for a while.
* In `WifiAccessList`, a write of the SSID or of its list that timed out and arrives after the
  apply has ended: a write is carried out before that, or never.
* In `Settings`, `zeroes` treats the DMZ's destination and subnet as one field, the `rest`: that
  the device forgets it when it is switched off is reported of the destination only
  (resource_dmz.go:115-116).
* Cancellation by Terraform is a request that fails; a crash of the plugin is not
  modelled: Terraform then keeps the state from before.

## Plan

In this order, each with its abstract promise, its runs and its proofs:

1. `Session`, `Credential`, `PacketFilter`: modelled, checked, proved.
2. `RuleIds`: modelled, checked, proved.
3. `WifiAccessList`: modelled, checked, proved.
4. `Settings`: modelled, checked, proved.
5. `ApplyContract` and `RuleOwnership`, and their five refinements: checked, proved.

What could be added: a larger instance of `session_live`; a second SSID on the shared list,
if the code comes to lock it; the composition of `PacketFilter` with `Session` instead of
with its contract.
