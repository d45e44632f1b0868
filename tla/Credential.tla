----------------------------- MODULE Credential -----------------------------
(***************************************************************************)
(* The two passwords the device stores and hands back encrypted with the   *)
(* access token of the session: the DDNS account's (UpdateDDNS) and the    *)
(* WiFi key of an SSID (GetWifiSSID, UpdateWifiSSID).  A resource that     *)
(* does not configure the password must leave the stored one as it is,     *)
(* although the document it writes back contains it.                       *)
(*                                                                         *)
(* One update is a GET and a PUT.  The body of the PUT is built anew for   *)
(* each of its two attempts, from the token of the attempt; the session    *)
(* may be renewed at any moment by a concurrent operation, or be revoked.  *)
(* The two kinds differ in when the stored password is deciphered: the     *)
(* WiFi key as it is read, the DDNS password as it is written.             *)
(***************************************************************************)
EXTENDS Naturals

CONSTANTS
  Kinds,                    \* those considered, of "wifi" and "ddns"
  Passwords,                \* passwords somebody may choose
  Empty, Garbled, Failed,   \* "", deciphered with a wrong key, and an error
  ShortTokens,              \* tokens too short to derive an AES key from
  MaxTokens                 \* bound: sessions in a behaviour

ASSUME KindsAssumption == Kinds \subseteq {"wifi", "ddns"}
ASSUME PasswordsAssumption ==
  /\ Empty \notin Passwords /\ Garbled \notin Passwords /\ Failed \notin Passwords
  /\ Empty # Garbled /\ Empty # Failed /\ Garbled # Failed
ASSUME EnvelopesAssumption ==
  \A v \in {Empty, Failed} :
    v \notin [key : Nat, text : Passwords \union {Empty, Garbled, Failed}]
ASSUME TokensAssumption == MaxTokens \in Nat \ {0} /\ ShortTokens \subseteq Nat

VARIABLES
  kind,                     \* which password this is, which never changes
  stored,                   \* the password on the device, in clear
  session,                  \* the token the device honours, 0 for none
  cached,                   \* Client.token
  issued,                   \* tokens issued so far, for MaxTokens
  pc,                       \* where the update is
  wanted,                   \* the configured password, Empty to keep the stored one
  envelope,                 \* the password field of the document read
  recovered,                \* PlainPassword, Failed unless PasswordRecovered
  readWith,                 \* the token the document was read with
  body,                     \* the password field about to be written
  sentWith,                 \* the token of the current attempt of the PUT
  retried,                  \* whether that is the second attempt
  outcome                   \* what the last update reported

sessionVars == <<session, cached, issued>>
readVars == <<wanted, envelope, recovered, readWith>>
writeVars == <<body, sentWith, retried>>
vars == <<kind, stored, sessionVars, pc, readVars, writeVars, outcome>>

Plains == Passwords \union {Empty, Garbled}
Malformed == [key |-> 0, text |-> Failed]

-----------------------------------------------------------------------------
\* EncodeDDNSPassword: zero padding and AES-CBC under the token, in an envelope.
EncodeDDNSPassword(t, p) ==
  IF p = Empty THEN Empty
  ELSE IF t \in ShortTokens THEN Failed
  ELSE [key |-> t, text |-> p]

\* DecodeDDNSPassword.  Nothing authenticates the text: another key gives
\* another text, not an error.
DecodeDDNSPassword(t, e) ==
  IF e = Malformed \/ t \in ShortTokens THEN Failed
  ELSE IF e.key = t THEN e.text
  ELSE Garbled

\* recoverWifiPassword: a failure is recorded, not reported.
recoverWifiPassword(t, e) ==
  IF e = Empty THEN Failed ELSE DecodeDDNSPassword(t, e)

\* Mutants of BuildWifi: a password that is not configured is left out, or sent
\* in the envelope it was read in.
BuildWifiOmitting(t) == EncodeDDNSPassword(t, wanted)
BuildWifiReplaying(t) ==
  IF wanted # Empty THEN EncodeDDNSPassword(t, wanted) ELSE envelope

\* The password UpdateWifiSSID puts into the body of an attempt.
BuildWifi(t) ==
  CASE wanted # Empty -> EncodeDDNSPassword(t, wanted)
    [] wanted = Empty /\ envelope # Empty /\ recovered # Failed ->
         EncodeDDNSPassword(t, recovered)
    [] wanted = Empty /\ envelope # Empty /\ recovered = Failed -> Failed
    [] OTHER -> envelope

\* Mutants of BuildDdns: likewise.
BuildDdnsOmitting(t) == EncodeDDNSPassword(t, wanted)
BuildDdnsReplaying(t) ==
  IF wanted # Empty THEN EncodeDDNSPassword(t, wanted) ELSE envelope

\* The password UpdateDDNS puts into the body of an attempt.
BuildDdns(t) ==
  LET plain == DecodeDDNSPassword(t, envelope) IN
  CASE wanted # Empty -> EncodeDDNSPassword(t, wanted)
    [] wanted = Empty /\ envelope # Empty ->
         IF plain = Failed THEN Failed ELSE EncodeDDNSPassword(t, plain)
    [] OTHER -> Empty

\* Mutant of Build: the second attempt sends the body of the first.
BuildOnce(t) ==
  IF retried THEN body ELSE IF kind = "wifi" THEN BuildWifi(t) ELSE BuildDdns(t)

Build(t) == IF kind = "wifi" THEN BuildWifi(t) ELSE BuildDdns(t)

-----------------------------------------------------------------------------
Init ==
  /\ kind \in Kinds
  /\ stored \in Passwords \union {Empty}
  /\ session = 1 /\ cached = 1 /\ issued = 1
  /\ pc = "idle"
  /\ wanted = Empty /\ envelope = Empty /\ recovered = Failed /\ readWith = 0
  /\ body = Empty /\ sentWith = 0 /\ retried = FALSE
  /\ outcome = "none"

Finish(result) == pc' = "idle" /\ outcome' = result

Begin ==
  /\ pc = "idle"
  /\ pc' = "read"
  /\ wanted' \in Passwords \union {Empty}
  /\ outcome' = "none"
  /\ UNCHANGED <<stored, sessionVars, envelope, recovered, readWith, writeVars>>

(***************************************************************************)
(* The GET, with whichever token it was answered for.  The device          *)
(* enciphers what it stores with the token of the session; what it answers *)
(* may also not be an envelope the client knows.                           *)
(***************************************************************************)
Read ==
  /\ pc = "read"
  /\ session # 0 /\ cached = session
  /\ readWith' = session
  /\ envelope' \in
       IF stored = Empty THEN {Empty}
       ELSE {[key |-> session, text |-> stored], Malformed}
  /\ recovered' = recoverWifiPassword(session, envelope')
  /\ pc' = "build"
  /\ retried' = FALSE
  /\ UNCHANGED <<stored, sessionVars, wanted, body, sentWith, outcome>>

CallFails ==
  /\ pc \in {"read", "write"}
  /\ Finish("failed")
  /\ UNCHANGED <<stored, sessionVars, readVars, writeVars>>

BuildBody ==
  /\ pc = "build"
  /\ cached # 0
  /\ sentWith' = cached
  /\ body' = Build(cached)
  /\ IF body' = Failed THEN Finish("failed")
                       ELSE pc' = "write" /\ UNCHANGED outcome
  /\ UNCHANGED <<stored, sessionVars, readVars, retried>>

\* The device deciphers the password with the token the request carries.  The
\* answer may be lost: the update then fails although it took effect.
Write ==
  /\ pc = "write"
  /\ sentWith = session
  /\ stored' = IF body = Empty THEN Empty ELSE DecodeDDNSPassword(session, body)
  /\ Finish("ok") \/ Finish("failed")
  /\ UNCHANGED <<sessionVars, readVars, writeVars>>

WriteRejected ==
  /\ pc = "write"
  /\ sentWith # session
  /\ IF retried
       THEN Finish("unauthorized") /\ UNCHANGED <<cached, retried>>
       ELSE /\ pc' = "build"
            /\ retried' = TRUE
            /\ cached' = IF cached = sentWith THEN 0 ELSE cached
            /\ UNCHANGED outcome
  /\ UNCHANGED <<stored, session, issued, readVars, body, sentWith>>

\* A login by this update or by any other operation of the provider.
Login ==
  /\ issued < MaxTokens
  /\ cached # session \/ cached = 0
  /\ issued' = issued + 1
  /\ session' = issued + 1
  /\ cached' = issued + 1
  /\ UNCHANGED <<stored, pc, readVars, writeVars, outcome>>

\* The session lapses or is revoked: the device forgets it.  Another operation
\* may find out first and drop the token from the cache.
SessionEnds ==
  /\ session # 0
  /\ session' = 0
  /\ cached' \in {cached, 0}
  /\ UNCHANGED <<stored, issued, pc, readVars, writeVars, outcome>>

\* Logins are bounded by MaxTokens: without a session nothing can happen then.
OutOfTokens ==
  /\ issued = MaxTokens /\ session = 0
  /\ UNCHANGED <<stored, sessionVars, pc, readVars, writeVars, outcome>>

Step ==
  \/ Begin \/ Read \/ CallFails \/ BuildBody \/ Write \/ WriteRejected
  \/ Login \/ SessionEnds \/ OutOfTokens

Next == Step /\ UNCHANGED kind

Spec == Init /\ [][Next]_vars

\* The update goes on: every round trip ends, as in Session.
Fairness == WF_vars(Read \/ CallFails \/ BuildBody \/ Write \/ WriteRejected \/ Login)
FairSpec == Spec /\ Fairness

-----------------------------------------------------------------------------
Envelopes == [key : Nat, text : Plains \union {Failed}]

TypeOK ==
  /\ kind \in Kinds
  /\ stored \in Plains
  /\ session \in Nat /\ cached \in Nat /\ issued \in Nat
  /\ pc \in {"idle", "read", "build", "write"}
  /\ wanted \in Passwords \union {Empty}
  /\ envelope \in Envelopes \union {Empty}
  /\ recovered \in Plains \union {Failed}
  /\ readWith \in Nat
  /\ body \in Envelopes \union {Empty, Failed}
  /\ sentWith \in Nat
  /\ retried \in BOOLEAN
  /\ outcome \in {"none", "ok", "failed", "unauthorized"}

(***************************************************************************)
(* The password on the device changes only to the one configured.  An      *)
(* update that does not configure it keeps it, across any renewal of the   *)
(* session between the read and the write (client.go:601-605 for DDNS,     *)
(* wifi.go:149-156 for WiFi).                                              *)
(***************************************************************************)
PasswordKept == [][stored' # stored => wanted # Empty /\ stored' = wanted]_vars

\* The WiFi key is kept in that sense, always.
WifiKeyKept ==
  [][kind = "wifi" /\ stored' # stored => wanted # Empty /\ stored' = wanted]_vars

(***************************************************************************)
(* A stored password is never wiped, whatever fails on the way: what the   *)
(* refusal to write an envelope that could not be read is for.             *)
(***************************************************************************)
NeverWiped == [][stored # Empty => stored' # Empty]_vars

(***************************************************************************)
(* What UpdateDDNS does guarantee: a password that is not configured is    *)
(* kept provided the write is made in the session the document was read    *)
(* in.                                                                     *)
(***************************************************************************)
KeptWithinSession ==
  [][stored' # stored => \/ wanted # Empty /\ stored' = wanted
                         \/ sentWith # readWith]_vars

(***************************************************************************)
(* An update that reports success left on the device the password it was   *)
(* given, even if a first attempt enciphered it for another session; this  *)
(* is the end of what StoresByContract says below.                         *)
(***************************************************************************)
SuccessMeansStored == outcome = "ok" /\ wanted # Empty => stored = wanted

(***************************************************************************)
(* An update implements the contract of an apply, its item the password:   *)
(* whatever becomes of the session, of the first attempt or of an answer,  *)
(* the device has the old password or the configured one.  Only the DDNS   *)
(* password that is to be kept is not covered.                             *)
(***************************************************************************)
Contract == INSTANCE ApplyContract WITH
  Open   <- Empty,
  value  <- [item \in {"password"} |-> stored],
  goal   <- [item \in {"password"} |-> wanted],
  loose  <- IF kind = "ddns" /\ wanted = Empty /\ (pc # "idle" \/ outcome # "none")
            THEN {"password"} ELSE {},
  result <- CASE pc # "idle" -> "running"
              [] outcome = "ok" -> "done"
              [] outcome \in {"failed", "unauthorized"} -> "failed"
              [] OTHER -> "none"

StoresByContract == Contract!Spec
=============================================================================
