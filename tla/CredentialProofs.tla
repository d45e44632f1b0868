-------------------------- MODULE CredentialProofs --------------------------
(***************************************************************************)
(* Why the WiFi key survives any number of sessions: it is deciphered with *)
(* the token it was read with, so what the update carries from the read to *)
(* the write is the password itself (Carried), and each attempt enciphers  *)
(* it for its own token (Sealed, SealedWifi).                              *)
(***************************************************************************)
EXTENDS Credential, TLAPS

\* What a body holds that can be sent with token t.
SealedFor(b, t) ==
  /\ t \notin ShortTokens
  /\ \E p \in Plains \ {Empty} : b = [key |-> t, text |-> p]

\* A body on its way to the device is deciphered by the token beside it.
Sealed == pc = "write" => sentWith # 0 /\ (body = Empty \/ SealedFor(body, sentWith))

TypeInv == TypeOK /\ Sealed

\* Enciphering and deciphering with one and the same usable token.
LEMMA DecodeEncode ==
  ASSUME NEW t \in Nat, NEW p \in Plains \ {Empty}, t \notin ShortTokens
  PROVE  DecodeDDNSPassword(t, EncodeDDNSPassword(t, p)) = p
BY PasswordsAssumption DEF EncodeDDNSPassword, DecodeDDNSPassword, Malformed, Plains

LEMMA EncodeShape ==
  ASSUME NEW t \in Nat, NEW p \in Plains
  PROVE  \/ EncodeDDNSPassword(t, p) \in {Empty, Failed}
         \/ SealedFor(EncodeDDNSPassword(t, p), t)
BY DEF EncodeDDNSPassword, SealedFor

LEMMA DecodeType ==
  ASSUME NEW t \in Nat, NEW e \in Envelopes
  PROVE  DecodeDDNSPassword(t, e) \in Plains \union {Failed}
BY DEF DecodeDDNSPassword, Envelopes, Plains

LEMMA BuildShape ==
  ASSUME TypeOK, NEW t \in Nat
  PROVE  Build(t) \in {Empty, Failed} \/ SealedFor(Build(t), t)
<1>1. wanted \in Plains
  BY DEF TypeOK, Plains
<1>2. BuildWifi(t) \in {Empty, Failed} \/ SealedFor(BuildWifi(t), t)
  BY <1>1, EncodeShape DEF BuildWifi, TypeOK
<1>3. CASE wanted # Empty
  BY <1>1, <1>2, <1>3, EncodeShape DEF Build, BuildDdns
<1>4. CASE wanted = Empty /\ envelope # Empty
  <2>1. DecodeDDNSPassword(t, envelope) \in Plains \union {Failed}
    BY <1>4, DecodeType DEF TypeOK
  <2> QED BY <1>2, <1>4, <2>1, EncodeShape DEF Build, BuildDdns
<1>5. CASE wanted = Empty /\ envelope = Empty
  BY <1>2, <1>5 DEF Build, BuildDdns
<1> QED BY <1>3, <1>4, <1>5

LEMMA SealedType ==
  ASSUME NEW b, NEW t \in Nat, SealedFor(b, t)
  PROVE  b \in Envelopes /\ DecodeDDNSPassword(t, b) \in Plains \ {Empty}
BY PasswordsAssumption DEF SealedFor, Envelopes, DecodeDDNSPassword, Malformed, Plains

LEMMA InitType == Init => TypeInv
<1> SUFFICES ASSUME Init PROVE TypeInv
  OBVIOUS
<1>1. retried \in BOOLEAN
  BY Zenon DEF Init
<1> QED BY <1>1, TokensAssumption DEF Init, TypeInv, TypeOK, Sealed, Plains

LEMMA NextType == TypeInv /\ [Next]_vars => TypeInv'
<1> SUFFICES ASSUME TypeInv, Step \/ UNCHANGED vars, kind' = kind PROVE TypeInv'
  BY DEF Next, vars
<1> USE DEF TypeInv, TypeOK, Sealed, SealedFor, Finish, sessionVars, readVars, writeVars
<1>1. CASE Begin BY <1>1 DEF Begin
<1>2. CASE Read
  <2>1. retried' \in BOOLEAN
    BY <1>2, Zenon DEF Read
  <2>2. [key |-> session, text |-> stored] \in Envelopes /\ Malformed \in Envelopes
    BY DEF Envelopes, Malformed, Plains
  <2>3. envelope' \in Envelopes \union {Empty}
    BY <1>2, <2>2 DEF Read
  <2>4. recovered' \in Plains \union {Failed}
    BY <1>2, <2>3, DecodeType DEF Read, recoverWifiPassword
  <2> QED BY <1>2, <2>1, <2>3, <2>4 DEF Read
<1>3. CASE CallFails BY <1>3 DEF CallFails
<1>4. CASE BuildBody
  <2>1. body' \in {Empty, Failed} \/ SealedFor(body', sentWith')
    BY <1>4, BuildShape DEF BuildBody
  <2>2. body' \in Envelopes \union {Empty, Failed}
    BY <1>4, <2>1, SealedType DEF BuildBody
  <2> QED BY <1>4, <2>1, <2>2 DEF BuildBody
<1>5. CASE Write
  <2>1. stored' \in Plains
    BY <1>5, SealedType DEF Write, Plains
  <2> QED BY <1>5, <2>1 DEF Write
<1>6. CASE WriteRejected
  <2>1. retried' \in BOOLEAN
    BY <1>6, Zenon DEF WriteRejected
  <2> QED BY <1>6, <2>1 DEF WriteRejected
<1>7. CASE Login BY <1>7 DEF Login
<1>8. CASE SessionEnds BY <1>8 DEF SessionEnds
<1>9. CASE UNCHANGED vars BY <1>9 DEF vars
<1> QED BY <1>1, <1>2, <1>3, <1>4, <1>5, <1>6, <1>7, <1>8, <1>9 DEF Step, OutOfTokens

(***************************************************************************)
(* Type correctness; in particular an error of the cipher never ends up as *)
(* the password of the device, for either kind.                            *)
(***************************************************************************)
THEOREM TypeCorrect == Spec => []TypeOK
<1>1. Spec => []TypeInv
  BY InitType, NextType, PTL DEF Spec
<1>2. TypeInv => TypeOK BY DEF TypeInv
<1> QED BY <1>1, <1>2, PTL

-----------------------------------------------------------------------------
\* From the read to the write the update carries the stored password itself.
Carried ==
  /\ stored \in Passwords \union {Empty}
  /\ pc \in {"build", "write"} => /\ envelope = Empty <=> stored = Empty
                                  /\ recovered \in {Failed, stored}

\* The password a body delivers is the one configured, or the one stored.
SealedWifi ==
  pc = "write" =>
    body = LET p == IF wanted # Empty THEN wanted ELSE stored
           IN  IF p = Empty THEN Empty ELSE [key |-> sentWith, text |-> p]

WifiInv == TypeInv /\ (kind = "wifi" => Carried /\ SealedWifi)

LEMMA InitWifi == Init => WifiInv
BY InitType DEF Init, WifiInv, Carried, SealedWifi

LEMMA WriteKeeps ==
  ASSUME WifiInv, kind = "wifi", Write
  PROVE  stored' = IF wanted # Empty THEN wanted ELSE stored
<1> DEFINE p == IF wanted # Empty THEN wanted ELSE stored
<1>1. p \in Passwords \union {Empty} /\ sentWith \in Nat /\ pc = "write"
  BY DEF WifiInv, TypeInv, TypeOK, Carried, Write
<1>2. CASE p = Empty
  <2>1. body = Empty
    BY <1>1, <1>2 DEF WifiInv, SealedWifi
  <2> QED BY <1>2, <2>1 DEF Write
<1>3. CASE p # Empty
  <2>1. body = [key |-> sentWith, text |-> p] /\ sentWith \notin ShortTokens /\ body # Empty
    BY <1>1, <1>3, EnvelopesAssumption
       DEF WifiInv, TypeInv, Sealed, SealedFor, SealedWifi
  <2>2. DecodeDDNSPassword(sentWith, body) = p
    BY <1>1, <1>3, <2>1, PasswordsAssumption DEF DecodeDDNSPassword, Malformed
  <2> QED BY <2>1, <2>2 DEF Write
<1> QED BY <1>2, <1>3

LEMMA NextWifi == WifiInv /\ [Next]_vars => WifiInv'
<1> SUFFICES ASSUME WifiInv, Step \/ UNCHANGED vars, kind = "wifi", kind' = kind
             PROVE  Carried' /\ SealedWifi'
  BY NextType DEF WifiInv, Next, vars
<1> USE DEF WifiInv, TypeInv, TypeOK, Carried, SealedWifi, Finish, sessionVars, readVars,
            writeVars
<1>1. CASE Begin BY <1>1 DEF Begin
<1>2. CASE Read
  <2>1. [key |-> session, text |-> stored] \in Envelopes /\ Malformed \in Envelopes
    BY DEF Envelopes, Malformed, Plains
  <2>2. envelope' = Empty <=> stored = Empty
    BY <1>2, <2>1, EnvelopesAssumption DEF Read, Envelopes, Plains
  <2>3. recovered' \in {Failed, stored}
    BY <1>2 DEF Read, recoverWifiPassword, DecodeDDNSPassword
  <2> QED BY <1>2, <2>2, <2>3 DEF Read
<1>3. CASE CallFails BY <1>3 DEF CallFails
<1>4. CASE BuildBody
  <2>1. CASE body' = Failed BY <1>4, <2>1 DEF BuildBody
  <2>2. CASE body' # Failed /\ pc' = "write"
    <3>1. body' = BuildWifi(cached) /\ sentWith' = cached /\ pc = "build"
      BY <1>4 DEF BuildBody, Build
    <3>2. SealedWifi'
      BY <1>4, <2>2, <3>1 DEF BuildBody, BuildWifi, EncodeDDNSPassword
    <3> QED BY <1>4, <3>2 DEF BuildBody
  <2> QED BY <1>4, <2>1, <2>2 DEF BuildBody
<1>5. CASE Write BY <1>5, WriteKeeps DEF Write
<1>6. CASE WriteRejected BY <1>6 DEF WriteRejected
<1>7. CASE Login BY <1>7 DEF Login
<1>8. CASE SessionEnds BY <1>8 DEF SessionEnds
<1>9. CASE UNCHANGED vars BY <1>9 DEF vars
<1> QED BY <1>1, <1>2, <1>3, <1>4, <1>5, <1>6, <1>7, <1>8, <1>9 DEF Step, OutOfTokens

LEMMA StepKeeps ==
  ASSUME WifiInv, kind = "wifi", [Next]_vars
  PROVE  stored' # stored => wanted # Empty /\ stored' = wanted
<1>1. CASE Write BY <1>1, WriteKeeps
<1>2. CASE ~Write
  BY <1>2 DEF Next, Step, Begin, Read, CallFails, BuildBody, WriteRejected, Login, SessionEnds,
              OutOfTokens, vars
<1> QED BY <1>1, <1>2

(***************************************************************************)
(* A WiFi key that is not configured is kept, and one that is configured   *)
(* is the one that arrives, across any number of sessions.                 *)
(***************************************************************************)
THEOREM WifiPasswordKept == Spec => WifiKeyKept
<1>1. WifiInv /\ [Next]_vars =>
        [kind = "wifi" /\ stored' # stored => wanted # Empty /\ stored' = wanted]_vars
  BY StepKeeps
<1> QED BY InitWifi, NextWifi, <1>1, PTL DEF Spec, WifiKeyKept

-----------------------------------------------------------------------------
(***************************************************************************)
(* What holds for either kind.  The document read is that of readWith, and *)
(* what is built from it is never empty unless nothing is stored.          *)
(***************************************************************************)
ReadRight ==
  pc \in {"build", "write"} =>
    /\ envelope = Empty <=> stored = Empty
    /\ recovered \in {Failed, stored}
    /\ envelope \in {Empty, Malformed, [key |-> readWith, text |-> stored]}

BodyRight ==
  pc = "write" =>
    /\ wanted # Empty => body = [key |-> sentWith, text |-> wanted]
    /\ stored # Empty => body # Empty
    /\ wanted = Empty /\ sentWith = readWith =>
         body = IF stored = Empty THEN Empty ELSE [key |-> sentWith, text |-> stored]

OutcomeRight == (pc # "idle" => outcome = "none") /\ SuccessMeansStored

UpdateInv == TypeInv /\ ReadRight /\ BodyRight /\ OutcomeRight

LEMMA InitUpdate == Init => UpdateInv
BY InitType DEF Init, UpdateInv, ReadRight, BodyRight, OutcomeRight, SuccessMeansStored

\* An envelope is none of the markers.
LEMMA NoMarker ==
  ASSUME NEW t \in Nat, NEW p \in Plains
  PROVE  [key |-> t, text |-> p] # Empty /\ [key |-> t, text |-> p] # Failed
BY EnvelopesAssumption DEF Plains

LEMMA DecodeOwn ==
  ASSUME NEW t \in Nat, t \notin ShortTokens, NEW p \in Plains
  PROVE  DecodeDDNSPassword(t, [key |-> t, text |-> p]) = p
BY PasswordsAssumption DEF DecodeDDNSPassword, Malformed, Plains

\* What is built from the document read.
LEMMA BuildRight ==
  ASSUME TypeOK, ReadRight, pc = "build", NEW t \in Nat, Build(t) # Failed
  PROVE  /\ wanted # Empty => Build(t) = [key |-> t, text |-> wanted]
         /\ stored # Empty => Build(t) # Empty
         /\ wanted = Empty /\ t = readWith =>
              Build(t) = IF stored = Empty THEN Empty ELSE [key |-> t, text |-> stored]
<1> USE DEF TypeOK
<1>1. wanted \in Plains /\ stored \in Plains /\ kind \in {"wifi", "ddns"} /\ Failed # Empty
  BY KindsAssumption, PasswordsAssumption DEF Plains
<1>2. CASE wanted # Empty
  <2>1. Build(t) = EncodeDDNSPassword(t, wanted)
    BY <1>1, <1>2 DEF Build, BuildWifi, BuildDdns
  <2>2. Build(t) = [key |-> t, text |-> wanted]
    BY <1>2, <2>1 DEF EncodeDDNSPassword
  <2> QED
    BY <1>1, <1>2, <2>2, NoMarker
<1>3. CASE wanted = Empty /\ stored = Empty
  <2>1. envelope = Empty
    BY <1>3 DEF ReadRight
  <2> QED
    BY <1>3, <2>1 DEF Build, BuildWifi, BuildDdns
<1>4. CASE wanted = Empty /\ stored # Empty /\ kind = "wifi"
  <2>1. envelope # Empty /\ recovered \in {Failed, stored}
    BY <1>4 DEF ReadRight
  <2>2. recovered = stored /\ Build(t) = EncodeDDNSPassword(t, stored)
    BY <1>4, <2>1 DEF Build, BuildWifi
  <2>3. Build(t) = [key |-> t, text |-> stored]
    BY <1>4, <2>2 DEF EncodeDDNSPassword
  <2> QED
    BY <1>1, <1>4, <2>3, NoMarker
<1>5. CASE wanted = Empty /\ stored # Empty /\ kind = "ddns"
  <2> DEFINE plain == DecodeDDNSPassword(t, envelope)
  <2>1. envelope # Empty /\ envelope \in {Malformed, [key |-> readWith, text |-> stored]}
    BY <1>5 DEF ReadRight
  <2>2. plain # Failed /\ Build(t) = EncodeDDNSPassword(t, plain)
    BY <1>5, <2>1 DEF Build, BuildDdns
  <2>3. envelope = [key |-> readWith, text |-> stored] /\ t \notin ShortTokens
    BY <2>1, <2>2 DEF DecodeDDNSPassword
  <2>4. plain \in {stored, Garbled} /\ (t = readWith => plain = stored)
    BY <1>1, <2>2, <2>3 DEF DecodeDDNSPassword
  <2>5. plain \in Plains \ {Empty}
    BY <1>5, <2>4, PasswordsAssumption DEF Plains
  <2>6. Build(t) = [key |-> t, text |-> plain]
    BY <2>2, <2>3, <2>5 DEF EncodeDDNSPassword
  <2> HIDE DEF plain
  <2> QED
    BY <1>5, <2>4, <2>5, <2>6, NoMarker
<1> QED
  BY <1>1, <1>2, <1>3, <1>4, <1>5

\* What the device makes of the body it is sent.
LEMMA WriteRight ==
  ASSUME UpdateInv, Write
  PROVE  /\ wanted # Empty => stored' = wanted
         /\ stored # Empty => stored' # Empty
         /\ wanted = Empty /\ sentWith = readWith => stored' = stored
<1>1. /\ pc = "write" /\ sentWith = session /\ sentWith \in Nat
      /\ wanted \in Plains /\ stored \in Plains
      /\ body = Empty \/ SealedFor(body, sentWith)
      /\ stored' = IF body = Empty THEN Empty ELSE DecodeDDNSPassword(sentWith, body)
  BY DEF UpdateInv, TypeInv, TypeOK, Sealed, Write, Plains
<1>2. stored # Empty => stored' # Empty
  BY <1>1, SealedType DEF UpdateInv, BodyRight
<1>3. ASSUME NEW p \in Plains, body = [key |-> sentWith, text |-> p] PROVE stored' = p
  <2>1. body # Empty /\ sentWith \notin ShortTokens
    BY <1>1, <1>3, NoMarker DEF SealedFor
  <2> QED
    BY <1>1, <1>3, <2>1, DecodeOwn
<1>4. wanted # Empty => stored' = wanted
  BY <1>1, <1>3 DEF UpdateInv, BodyRight
<1>5. wanted = Empty /\ sentWith = readWith => stored' = stored
  BY <1>1, <1>3 DEF UpdateInv, BodyRight
<1> QED
  BY <1>2, <1>4, <1>5

LEMMA NextUpdate == UpdateInv /\ [Next]_vars => UpdateInv'
<1> SUFFICES ASSUME UpdateInv, Step \/ UNCHANGED vars, kind' = kind
             PROVE  ReadRight' /\ BodyRight' /\ OutcomeRight'
  BY NextType DEF UpdateInv, Next, vars
<1> USE DEF UpdateInv, ReadRight, BodyRight, OutcomeRight, SuccessMeansStored, Finish,
            sessionVars, readVars, writeVars
<1>1. CASE Begin BY <1>1 DEF Begin
<1>2. CASE Read
  <2>1. [key |-> session, text |-> stored] \in Envelopes /\ Malformed \in Envelopes
    BY DEF Envelopes, Malformed, Plains, TypeInv, TypeOK
  <2>2. envelope' = Empty <=> stored = Empty
    BY <1>2, <2>1, EnvelopesAssumption DEF Read, Malformed, Plains, TypeInv, TypeOK
  <2>3. recovered' \in {Failed, stored}
    BY <1>2 DEF Read, recoverWifiPassword, DecodeDDNSPassword
  <2>4. envelope' \in {Empty, Malformed, [key |-> readWith', text |-> stored]}
    BY <1>2 DEF Read
  <2>5. pc' = "build" /\ outcome' = "none" /\ stored' = stored
    BY <1>2 DEF Read
  <2> QED BY <2>2, <2>3, <2>4, <2>5
<1>3. CASE CallFails BY <1>3 DEF CallFails
<1>4. CASE BuildBody
  <2>1. body' = Build(cached) /\ sentWith' = cached /\ pc = "build" /\ cached \in Nat
    BY <1>4 DEF BuildBody, TypeInv, TypeOK
  <2>2. UNCHANGED <<stored, wanted, envelope, recovered, readWith>>
    BY <1>4 DEF BuildBody
  <2>3. CASE body' = Failed BY <1>4, <2>2, <2>3 DEF BuildBody
  <2>4. CASE body' # Failed
    <3>1. BodyRight'
      BY <2>1, <2>2, <2>4, BuildRight DEF TypeInv
    <3> QED BY <1>4, <2>2, <2>4, <3>1 DEF BuildBody
  <2> QED BY <2>3, <2>4
<1>5. CASE Write BY <1>5, WriteRight DEF Write
<1>6. CASE WriteRejected BY <1>6 DEF WriteRejected
<1>7. CASE Login BY <1>7 DEF Login
<1>8. CASE SessionEnds BY <1>8 DEF SessionEnds
<1>9. CASE UNCHANGED vars BY <1>9 DEF vars
<1> QED BY <1>1, <1>2, <1>3, <1>4, <1>5, <1>6, <1>7, <1>8, <1>9 DEF Step, OutOfTokens

LEMMA OnlyWriteStores ==
  ASSUME UpdateInv, [Next]_vars, ~Write
  PROVE  stored' = stored
BY DEF Next, Step, Begin, Read, CallFails, BuildBody, WriteRejected, Login, SessionEnds,
       OutOfTokens, vars

(***************************************************************************)
(* A password that is configured is stored when an update reports success. *)
(***************************************************************************)
THEOREM Stored == Spec => []SuccessMeansStored
<1>1. UpdateInv => SuccessMeansStored BY DEF UpdateInv, OutcomeRight
<1> QED BY InitUpdate, NextUpdate, <1>1, PTL DEF Spec

(***************************************************************************)
(* No update of either kind ever wipes a password.                         *)
(***************************************************************************)
THEOREM NotWiped == Spec => NeverWiped
<1>1. UpdateInv /\ [Next]_vars => [stored # Empty => stored' # Empty]_vars
  BY WriteRight, OnlyWriteStores
<1> QED BY InitUpdate, NextUpdate, <1>1, PTL DEF Spec, NeverWiped

(***************************************************************************)
(* A DDNS password that is not configured is kept by a write made in the   *)
(* session the document was read in.                                       *)
(***************************************************************************)
THEOREM KeptInSession == Spec => KeptWithinSession
<1>1. UpdateInv /\ [Next]_vars =>
        [stored' # stored => \/ wanted # Empty /\ stored' = wanted
                             \/ sentWith # readWith]_vars
  BY WriteRight, OnlyWriteStores
<1> QED BY InitUpdate, NextUpdate, <1>1, PTL DEF Spec, KeptWithinSession

-----------------------------------------------------------------------------
(***************************************************************************)
(* An update implements ApplyContract: only a write that the device        *)
(* accepts stores anything, and then what is configured or, for WiFi, what *)
(* it had.                                                                 *)
(***************************************************************************)
LEMMA StoredMoves ==
  ASSUME WifiInv, UpdateInv, [Next]_vars
  PROVE  \/ stored' = stored
         \/ wanted # Empty /\ stored' = wanted
         \/ kind = "ddns" /\ wanted = Empty /\ pc # "idle"
<1>1. CASE Write
  <2>1. CASE wanted # Empty
    BY <1>1, <2>1, WriteRight
  <2>2. CASE kind = "wifi" /\ wanted = Empty
    BY <1>1, <2>2, WriteKeeps
  <2>3. kind \in {"wifi", "ddns"} /\ pc = "write"
    BY <1>1, KindsAssumption DEF Write, UpdateInv, TypeInv, TypeOK
  <2> QED
    BY <2>1, <2>2, <2>3
<1>2. CASE ~Write
  BY <1>2, OnlyWriteStores
<1> QED
  BY <1>1, <1>2

LEMMA NextContract ==
  WifiInv /\ UpdateInv /\ [Next]_vars => [Contract!Next]_Contract!contractVars
<1> SUFFICES ASSUME WifiInv, UpdateInv, [Next]_vars
             PROVE  [Contract!Next]_Contract!contractVars
  OBVIOUS
<1>1. CASE UNCHANGED vars
  BY <1>1 DEF vars, readVars, Contract!contractVars
<1> SUFFICES ASSUME Next PROVE Contract!Next
  BY <1>1
<1>2. kind' = kind /\ outcome \in {"none", "ok", "failed", "unauthorized"}
  BY DEF Next, UpdateInv, TypeInv, TypeOK
<1>3. CASE Begin
  <2>1. Contract!Begin
    BY <1>2, <1>3 DEF Begin, Contract!Begin, Contract!Items
  <2> QED
    BY <2>1 DEF Contract!Next
<1>4. ASSUME UNCHANGED <<wanted, pc, outcome>> PROVE Contract!Next
  <2>1. Contract!Move
    BY <1>2, <1>4, StoredMoves
       DEF Contract!Move, Contract!Keep, Contract!ItemsMove, Contract!Items
  <2> QED
    BY <2>1 DEF Contract!Next
<1>5. CASE Login \/ SessionEnds \/ OutOfTokens
  BY <1>4, <1>5 DEF Login, SessionEnds, OutOfTokens, readVars
<1>6. CASE Read \/ CallFails \/ BuildBody \/ Write \/ WriteRejected
  <2>1. /\ UNCHANGED wanted /\ pc # "idle"
        /\ pc' = "idle" => outcome' \in {"ok", "failed", "unauthorized"}
        /\ pc' # "idle" => outcome' = outcome
        /\ outcome = "none"
    BY <1>6 DEF Read, CallFails, BuildBody, Write, WriteRejected, Finish, readVars,
                UpdateInv, OutcomeRight
  <2>2. Contract!Keep
    BY <1>2, <2>1, StoredMoves DEF Contract!Keep, Contract!ItemsMove, Contract!Items,
       UpdateInv, OutcomeRight
  <2>3. CASE pc' # "idle"
    BY <2>1, <2>2, <2>3 DEF Contract!Move, Contract!Next
  <2>4. CASE pc' = "idle" /\ outcome' # "ok"
    BY <2>1, <2>2, <2>4 DEF Contract!Fail, Contract!Next
  <2>5. CASE pc' = "idle" /\ outcome' = "ok"
    <3>1. wanted # Empty => stored' = wanted
      BY <2>1, <2>5, NextUpdate DEF UpdateInv, OutcomeRight, SuccessMeansStored
    <3>2. Contract!Reached'
      BY <2>1, <3>1 DEF Contract!Reached, Contract!Items
    <3> QED
      BY <2>1, <2>2, <2>5, <3>2 DEF Contract!Succeed, Contract!Next
  <2> QED
    BY <2>3, <2>4, <2>5
<1> QED
  BY <1>3, <1>5, <1>6 DEF Next, Step

(***************************************************************************)
(* At any moment, in whatever session and after any failure, the device    *)
(* has the old password or the one configured, for any passwords and any   *)
(* number of sessions.                                                     *)
(***************************************************************************)
THEOREM ImplementsContract == Spec => StoresByContract
<1>1. Init => Contract!Init
  BY DEF Init, Contract!Init
<1> QED
  BY <1>1, InitWifi, NextWifi, InitUpdate, NextUpdate, NextContract, PTL
     DEF Spec, StoresByContract, Contract!Spec
=============================================================================
