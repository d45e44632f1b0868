------------------------------ MODULE Session ------------------------------
(***************************************************************************)
(* The session layer of synclayer.Client: one access token, shared by all  *)
(* the resource operations Terraform runs concurrently, and the device,    *)
(* which honours the token of the latest login only.                       *)
(*                                                                         *)
(* An operation is one call of Client.request (or requestWithToken,        *)
(* requestWithBody): obtain a token, logging in under Client.mu when none  *)
(* is cached or the cached one has lapsed; send; and, if the token was     *)
(* rejected, discard it, obtain another and send once more.  Configure is  *)
(* the goroutine of configureProvider, which logs in before any resource   *)
(* operation exists.  An operation may also be a Client.Logout.            *)
(*                                                                         *)
(* A round trip is two steps, the device acting and the answer arriving,   *)
(* either of which may fail; everything else may happen in between.        *)
(* Tokens are numbered in the order the device issues them.                *)
(***************************************************************************)
EXTENDS Integers

CONSTANTS
  Ops,                      \* the goroutines of resource operations
  Configure,                \* the goroutine of configureProvider
  Lifetimes,                \* values of expiresIn the device may advertise
  MaxCalls                  \* bound: calls begun in a behaviour

Free == "free"              \* the holder of a mutex nobody holds

ASSUME CallersAssumption == Configure \notin Ops /\ Free \notin Ops \union {Configure}
ASSUME LifetimesAssumption == Lifetimes \subseteq Int
ASSUME MaxCallsAssumption == MaxCalls \in Nat

VARIABLES
  mu,                       \* holder of Client.mu
  token,                    \* Client.token
  fresh,                    \* time.Now().Before(Client.expiry)
  session,                  \* the token the device honours
  issued,                   \* number of tokens the device has issued
  pc,                       \* where each goroutine is
  held,                     \* the local variable token of each call
  rejected,                 \* the token the first attempt was refused with
  answer,                   \* the device's answer on its way to the call
  verdict,                  \* what the last call reported
  applied,                  \* times the device carried out the current call
  ended,                    \* tokens that lapsed, were revoked or logged out
  wasted,                   \* tokens whose login answer never arrived
  configured,               \* whether configureProvider has succeeded
  calls                     \* calls begun so far, for MaxCalls

clientVars == <<mu, token, fresh>>
deviceVars == <<session, issued>>
callVars   == <<held, rejected, answer, verdict, applied>>
ghostVars  == <<ended, wasted>>
vars == <<clientVars, deviceVars, pc, callVars, ghostVars, configured, calls>>

Callers == Ops \union {Configure}
NoToken == 0

(***************************************************************************)
(* tokenRefreshMargin, in seconds, and the lifetime used when the device   *)
(* advertises none.                                                        *)
(***************************************************************************)
TokenRefreshMargin == 60
DefaultLifetime == 20 * 60

\* Whether a token advertised with lifetime l is usable the moment it is stored.
UsableOnArrival(l) ==
  (IF l <= 0 THEN DefaultLifetime ELSE l) - TokenRefreshMargin > 0

\* What the session layer takes for granted of the device (it advertises 1200).
LifetimesExceedMargin == \A l \in Lifetimes : UsableOnArrival(l)

LoginSteps  == {"challenge", "authenticate", "granted"}
LogoutSteps == {"sendLogout", "awaitLogout"}
LockedSteps == LoginSteps \union LogoutSteps
UsingToken  == {"send", "await", "invalidate"}
CallSteps   == {"acquire"} \union LoginSteps \union UsingToken
Steps == {"idle", "login", "logout"} \union CallSteps \union LogoutSteps

Goto(c, step) == pc' = [pc EXCEPT ![c] = step]

\* Mutant of CachedTokenUsable: every call logs in anew.
NeverReuseToken == FALSE

CachedTokenUsable == token # NoToken /\ fresh

\* Mutant of Retrying: every attempt is taken for the first.
NeverRetrying(o) == FALSE

Retrying(o) == rejected[o] # NoToken

Finish(o, v) ==
  /\ Goto(o, "idle")
  /\ verdict' = [verdict EXCEPT ![o] = v]

-----------------------------------------------------------------------------
Init ==
  /\ mu = Free /\ token = NoToken /\ fresh = FALSE
  /\ session = NoToken /\ issued = 0
  /\ pc = [c \in Callers |-> "idle"]
  /\ held = [c \in Callers |-> NoToken]
  /\ rejected = [c \in Callers |-> NoToken]
  /\ answer = [c \in Callers |-> "none"]
  /\ verdict = [c \in Callers |-> "none"]
  /\ applied = [c \in Callers |-> 0]
  /\ ended = {} /\ wasted = {}
  /\ configured = FALSE
  /\ calls = 0

(***************************************************************************)
(* Terraform starts an operation once the provider is configured, and      *)
(* configures it again after a configuration that failed.                  *)
(***************************************************************************)
Begin(c, step) ==
  /\ pc[c] = "idle"
  /\ calls < MaxCalls
  /\ calls' = calls + 1
  /\ Goto(c, step)
  /\ UNCHANGED <<clientVars, deviceVars, ghostVars, configured>>

BeginConfigure ==
  /\ ~configured
  /\ Begin(Configure, "login")
  /\ UNCHANGED callVars

BeginRequest(o) ==
  /\ configured
  /\ Begin(o, "acquire")
  /\ rejected' = [rejected EXCEPT ![o] = NoToken]
  /\ verdict' = [verdict EXCEPT ![o] = "none"]
  /\ applied' = [applied EXCEPT ![o] = 0]
  /\ UNCHANGED <<held, answer>>

BeginLogout(o) ==
  /\ configured
  /\ Begin(o, "logout")
  /\ UNCHANGED callVars

-----------------------------------------------------------------------------
\* tokenForRequest when the cached token has not lapsed.
TakeCachedToken(o) ==
  /\ pc[o] = "acquire"
  /\ mu = Free
  /\ CachedTokenUsable
  /\ held' = [held EXCEPT ![o] = token]
  /\ Goto(o, "send")
  /\ UNCHANGED <<clientVars, deviceVars, rejected, answer, verdict, applied,
                 ghostVars, configured, calls>>

\* tokenForRequest otherwise, and Login always: mu is held to the end of it.
LockForLogin(c) ==
  /\ \/ pc[c] = "login"
     \/ pc[c] = "acquire" /\ ~CachedTokenUsable
  /\ mu = Free
  /\ mu' = c
  /\ Goto(c, "challenge")
  /\ UNCHANGED <<token, fresh, deviceVars, callVars, ghostVars, configured, calls>>

FetchChallenge(c) ==
  /\ pc[c] = "challenge"
  /\ Goto(c, "authenticate")
  /\ UNCHANGED <<clientVars, deviceVars, callVars, ghostVars, configured, calls>>

\* The device accepts the credentials: a new session, and the old one is gone.
Authenticate(c) ==
  /\ pc[c] = "authenticate"
  /\ issued' = issued + 1
  /\ session' = issued + 1
  /\ held' = [held EXCEPT ![c] = issued + 1]
  /\ Goto(c, "granted")
  /\ UNCHANGED <<clientVars, rejected, answer, verdict, applied, ghostVars,
                 configured, calls>>

StoreToken(c) ==
  /\ pc[c] = "granted"
  /\ token' = held[c]
  /\ \E l \in Lifetimes : fresh' = UsableOnArrival(l)
  /\ mu' = Free
  /\ IF c = Configure
       THEN Finish(c, "ok") /\ configured' = TRUE
       ELSE Goto(c, "send") /\ UNCHANGED <<verdict, configured>>
  /\ UNCHANGED <<deviceVars, held, rejected, answer, applied, ghostVars, calls>>

\* Mutant of LoginFails: the error path forgets to unlock.
LoginFailsKeepingMutex(c) ==
  /\ pc[c] \in LoginSteps
  /\ Finish(c, "failed")
  /\ wasted' = IF pc[c] = "granted" THEN wasted \union {held[c]} ELSE wasted
  /\ UNCHANGED <<clientVars, deviceVars, held, rejected, answer, applied,
                 ended, configured, calls>>

\* Any error of either round trip: the token of before stays cached.
LoginFails(c) ==
  /\ pc[c] \in LoginSteps
  /\ mu' = Free
  /\ Finish(c, "failed")
  /\ wasted' = IF pc[c] = "granted" THEN wasted \union {held[c]} ELSE wasted
  /\ UNCHANGED <<token, fresh, deviceVars, held, rejected, answer, applied,
                 ended, configured, calls>>

-----------------------------------------------------------------------------
\* The device compares Access-Token with its session; other errors are its own.
DeviceAnswers(o) ==
  /\ pc[o] = "send"
  /\ Goto(o, "await")
  /\ \/ /\ held[o] = session
        /\ answer' = [answer EXCEPT ![o] = "ok"]
        /\ applied' = [applied EXCEPT ![o] = @ + 1]
     \/ /\ held[o] = session
        /\ answer' = [answer EXCEPT ![o] = "error"]
        /\ UNCHANGED applied
     \/ /\ held[o] # session
        /\ answer' = [answer EXCEPT ![o] = "unauthorized"]
        /\ UNCHANGED applied
  /\ UNCHANGED <<clientVars, deviceVars, held, rejected, verdict, ghostVars,
                 configured, calls>>

\* Mutant of RoundTripFails: a request without an answer is sent again as well.
RoundTripRetried(o) ==
  /\ pc[o] \in {"send", "await"}
  /\ IF Retrying(o) THEN Finish(o, "failed")
                    ELSE Goto(o, "invalidate") /\ UNCHANGED verdict
  /\ answer' = [answer EXCEPT ![o] = "none"]
  /\ UNCHANGED <<clientVars, deviceVars, held, rejected, applied, ghostVars,
                 configured, calls>>

\* build or the transport failed, on the way out or on the way back.
RoundTripFails(o) ==
  /\ pc[o] \in {"send", "await"}
  /\ Finish(o, "failed")
  /\ answer' = [answer EXCEPT ![o] = "none"]
  /\ UNCHANGED <<clientVars, deviceVars, held, rejected, applied, ghostVars,
                 configured, calls>>

\* Whether requestWithBodyToken goes round again after this answer.
WorthRetrying(o) == answer[o] = "unauthorized" /\ ~Retrying(o)

AnswerArrives(o) ==
  /\ pc[o] = "await"
  /\ IF WorthRetrying(o)
       THEN Goto(o, "invalidate") /\ UNCHANGED verdict
       ELSE Finish(o, IF answer[o] = "error" THEN "failed" ELSE answer[o])
  /\ answer' = [answer EXCEPT ![o] = "none"]
  /\ UNCHANGED <<clientVars, deviceVars, held, rejected, applied, ghostVars,
                 configured, calls>>

\* Mutants of Discards: the cached token is cleared whatever it is, or never.
DiscardsAnyToken(o) == TRUE
DiscardsNothing(o) == FALSE

\* The comparison in invalidateToken.
Discards(o) == token = held[o]

\* invalidateToken, and the second attempt begins.
InvalidateToken(o) ==
  /\ pc[o] = "invalidate"
  /\ mu = Free
  /\ rejected' = [rejected EXCEPT ![o] = held[o]]
  /\ IF Discards(o)
       THEN token' = NoToken /\ fresh' = FALSE
       ELSE UNCHANGED <<token, fresh>>
  /\ Goto(o, "acquire")
  /\ UNCHANGED <<mu, deviceVars, held, answer, verdict, applied, ghostVars,
                 configured, calls>>

-----------------------------------------------------------------------------
LogoutWithoutToken(o) ==
  /\ pc[o] = "logout"
  /\ mu = Free
  /\ token = NoToken
  /\ Goto(o, "idle")
  /\ UNCHANGED <<clientVars, deviceVars, callVars, ghostVars, configured, calls>>

LockForLogout(o) ==
  /\ pc[o] = "logout"
  /\ mu = Free
  /\ token # NoToken
  /\ mu' = o
  /\ Goto(o, "sendLogout")
  /\ UNCHANGED <<token, fresh, deviceVars, callVars, ghostVars, configured, calls>>

\* The device ends the session, unless the request is lost or not authorized.
SendLogout(o) ==
  /\ pc[o] = "sendLogout"
  /\ Goto(o, "awaitLogout")
  /\ \/ session = token /\ session' = NoToken
     \/ UNCHANGED session
  /\ ended' = ended \union {token}
  /\ UNCHANGED <<clientVars, issued, callVars, wasted, configured, calls>>

\* Whatever the outcome, the client forgets the token.
FinishLogout(o) ==
  /\ pc[o] = "awaitLogout"
  /\ token' = NoToken
  /\ fresh' = FALSE
  /\ mu' = Free
  /\ Goto(o, "idle")
  /\ UNCHANGED <<deviceVars, callVars, ghostVars, configured, calls>>

-----------------------------------------------------------------------------
\* expiry passes: the cached token lapses for the client.
TokenLapses ==
  /\ CachedTokenUsable
  /\ fresh' = FALSE
  /\ ended' = ended \union {token}
  /\ UNCHANGED <<mu, token, deviceVars, pc, callVars, wasted, configured, calls>>

\* The device drops the session by itself: a reboot, its own expiry, or
\* somebody else logging in.
SessionRevoked ==
  /\ session # NoToken
  /\ session' = NoToken
  /\ ended' = ended \union {session}
  /\ UNCHANGED <<clientVars, issued, pc, callVars, wasted, configured, calls>>

-----------------------------------------------------------------------------
LoginStep(c) ==
  LockForLogin(c) \/ FetchChallenge(c) \/ Authenticate(c) \/ StoreToken(c)
    \/ LoginFails(c)

RequestStep(o) ==
  TakeCachedToken(o) \/ DeviceAnswers(o) \/ RoundTripFails(o)
    \/ AnswerArrives(o) \/ InvalidateToken(o)

LogoutStep(o) ==
  LogoutWithoutToken(o) \/ LockForLogout(o) \/ SendLogout(o) \/ FinishLogout(o)

OpStep(o) == LoginStep(o) \/ RequestStep(o) \/ LogoutStep(o)

\* Terraform has nothing left to do.
RunOver ==
  /\ calls = MaxCalls
  /\ \A c \in Callers : pc[c] = "idle"
  /\ UNCHANGED vars

Next ==
  \/ BeginConfigure
  \/ LoginStep(Configure)
  \/ \E o \in Ops : BeginRequest(o) \/ BeginLogout(o) \/ OpStep(o)
  \/ TokenLapses
  \/ SessionRevoked
  \/ RunOver

(***************************************************************************)
(* A goroutine keeps running, and a round trip ends: http.Client.Timeout   *)
(* is never zero (NewClient).  The environment is not obliged to anything. *)
(***************************************************************************)
Fairness ==
  /\ WF_vars(LoginStep(Configure))
  /\ \A o \in Ops : WF_vars(OpStep(o))

Spec == Init /\ [][Next]_vars
FairSpec == Spec /\ Fairness

-----------------------------------------------------------------------------
Tokens == 0 .. issued

TypeOK ==
  /\ mu \in Callers \union {Free}
  /\ issued \in Nat
  /\ token \in Tokens
  /\ session \in Tokens
  /\ fresh \in BOOLEAN
  /\ pc \in [Callers -> Steps]
  /\ held \in [Callers -> Tokens]
  /\ rejected \in [Callers -> Tokens]
  /\ answer \in [Callers -> {"none", "ok", "error", "unauthorized"}]
  /\ verdict \in [Callers -> {"none", "ok", "failed", "unauthorized"}]
  /\ applied \in [Callers -> 0 .. 1]
  /\ ended \subseteq Tokens
  /\ wasted \subseteq Tokens
  /\ configured \in BOOLEAN
  /\ calls \in 0 .. MaxCalls

(***************************************************************************)
(* Client.mu is never left held by a goroutine that has moved on, on any   *)
(* path out of loginLocked or Logout, and no two goroutines authenticate   *)
(* at the same time.                                                       *)
(***************************************************************************)
MutexMatchesHolder ==
  \A c \in Callers : pc[c] \in LockedSteps <=> mu = c

(***************************************************************************)
(* Operations of the provider never take the session from one another: a   *)
(* token some operation works with is honoured by the device unless it     *)
(* lapsed, was revoked or was logged out.  This is what the comparison in  *)
(* invalidateToken and the comment above its call are for.                 *)
(***************************************************************************)
NoOperationEvictsAnother ==
  \A o \in Ops :
    pc[o] \in UsingToken /\ held[o] # session => held[o] \in ended

(***************************************************************************)
(* An operation reports unauthorized only when the token of its second     *)
(* attempt, not merely that of the first, was ended from outside.          *)
(***************************************************************************)
UnauthorizedOnlyAfterSecondLoss ==
  \A o \in Ops : verdict[o] = "unauthorized" => held[o] \in ended

(***************************************************************************)
(* No login storm: a login replaces a session only when that session was   *)
(* already over or its token never reached the client.  Any number of      *)
(* operations refused with one token share one login.                      *)
(***************************************************************************)
EveryLoginNeeded ==
  \A t \in 1 .. issued : t = session \/ t \in ended \union wasted

(***************************************************************************)
(* The second attempt is made with another token than the one refused.     *)
(***************************************************************************)
RetryUsesAnotherToken ==
  \A o \in Ops : Retrying(o) /\ pc[o] \in {"send", "await"} => held[o] # rejected[o]

(***************************************************************************)
(* README: "The provider re-authenticates transparently when the token     *)
(* expires."  While no token was revoked, logged out or outlived, no       *)
(* operation is told it is unauthorized.                                   *)
(***************************************************************************)
TransparentReauthentication ==
  \A o \in Ops : verdict[o] = "unauthorized" => ended # {}

(***************************************************************************)
(* Every call of an operation comes to an end, so that no lock is held for *)
(* ever and Terraform's apply terminates.                                  *)
(***************************************************************************)
CallsFinish == \A c \in Callers : pc[c] # "idle" ~> pc[c] = "idle"

(***************************************************************************)
(* Why: every step of a call brings it nearer to its end, and no step of   *)
(* another takes it back, so a call makes at most two attempts, each with  *)
(* at most one login, however often its tokens are lost, and also if every *)
(* token has lapsed on arrival.                                            *)
(***************************************************************************)
StepsOfAttempt == 7
StepsAhead(step) ==
  CASE step \in {"acquire", "login"} -> StepsOfAttempt
    [] step = "challenge"            -> 6
    [] step = "authenticate"         -> 5
    [] step = "granted"              -> 4
    [] step \in {"send", "logout"}   -> 3
    [] step \in {"await", "sendLogout"} -> 2
    [] step \in {"invalidate", "awaitLogout"} -> 1
    [] OTHER                         -> 0
StepsLeft(c) == StepsAhead(pc[c]) + IF Retrying(c) THEN 0 ELSE StepsOfAttempt

CallsAdvance ==
  [][\A c \in Callers :
       pc[c] # "idle" => IF pc'[c] = pc[c] THEN StepsLeft(c)' = StepsLeft(c)
                                           ELSE StepsLeft(c)' < StepsLeft(c)]_vars

(***************************************************************************)
(* The session layer implements the contract the resources rely on: a call *)
(* takes effect at most once, whatever is retried, and its verdict says    *)
(* truthfully whether it did.                                              *)
(***************************************************************************)
Contract == INSTANCE RequestContract WITH
  status  <- [o \in Ops |-> IF pc[o] \in CallSteps THEN "running" ELSE "idle"],
  applied <- [o \in Ops |-> applied[o]],
  verdict <- [o \in Ops |-> verdict[o]]

MeetsContract == Contract!Spec
MeetsContractSafely == Contract!SafeSpec
=============================================================================
