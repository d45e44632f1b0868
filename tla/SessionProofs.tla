--------------------------- MODULE SessionProofs ---------------------------
(***************************************************************************)
(* What Session guarantees for any number of operations and calls, and any *)
(* lifetimes the device may advertise.                                     *)
(*                                                                         *)
(* The mutex argument needs no more than the types.  The token arguments   *)
(* rest on SessionInv: the cached token is good or known to be over        *)
(* (CachedTokenAccounted), whoever logs in does so over a token that is    *)
(* not usable (LoginOnlyWithoutToken), and a token in use is the cached    *)
(* one or over (UsedTokenAccounted).                                       *)
(***************************************************************************)
EXTENDS Session, TLAPS

OpActions(o) ==
  \/ BeginRequest(o) \/ BeginLogout(o)
  \/ TakeCachedToken(o) \/ DeviceAnswers(o) \/ RoundTripFails(o)
  \/ AnswerArrives(o) \/ InvalidateToken(o)
  \/ LogoutWithoutToken(o) \/ LockForLogout(o) \/ SendLogout(o) \/ FinishLogout(o)

\* Next with the actions every caller shares pulled out.
LEMMA NextCases ==
  Next => \/ BeginConfigure
          \/ \E c \in Callers : LoginStep(c)
          \/ \E o \in Ops : OpActions(o)
          \/ TokenLapses \/ SessionRevoked \/ UNCHANGED vars
BY DEF Next, OpStep, RequestStep, LogoutStep, OpActions, RunOver, Callers

-----------------------------------------------------------------------------
\* Every variable keeps its type; a token variable never names a token the
\* device has not issued, and no call is carried out twice.
CallCounted ==
  \A o \in Ops :
    /\ pc[o] \in {"acquire", "send", "invalidate"} \union LoginSteps => applied[o] = 0
    /\ pc[o] = "await" => /\ answer[o] # "none"
                          /\ applied[o] = 1 <=> answer[o] = "ok"
    /\ pc[o] \in CallSteps => verdict[o] = "none"
    /\ pc[o] # "login"

TypeInv == TypeOK /\ CallCounted

LEMMA InitTypeInv == Init => TypeInv
<1> SUFFICES ASSUME Init PROVE TypeInv
  OBVIOUS
<1>1. fresh \in BOOLEAN /\ configured \in BOOLEAN
  BY Zenon DEF Init
<1>2. TypeOK
  BY <1>1, MaxCallsAssumption DEF Init, TypeOK, Tokens, NoToken, Steps
<1>3. CallCounted
  BY DEF Init, CallCounted, CallSteps, UsingToken, LoginSteps, Callers
<1> QED BY <1>2, <1>3 DEF TypeInv

LEMMA LoginStepTypeOK ==
  ASSUME TypeOK, NEW c \in Callers, LoginStep(c) PROVE TypeOK'
<1> USE CallersAssumption DEF TypeOK, Tokens, Steps, CallSteps, LoginSteps, Goto, Callers,
        clientVars, deviceVars, callVars, ghostVars
<1>1. CASE LockForLogin(c) BY <1>1 DEF LockForLogin
<1>2. CASE FetchChallenge(c) BY <1>2 DEF FetchChallenge
<1>3. CASE Authenticate(c) BY <1>3 DEF Authenticate
<1>4. CASE StoreToken(c)
  <2>1. \A l \in Lifetimes : UsableOnArrival(l) \in BOOLEAN
    BY DEF UsableOnArrival
  <2>2. fresh' \in BOOLEAN /\ configured' \in BOOLEAN
    BY <1>4, <2>1, Zenon DEF StoreToken
  <2> QED BY <1>4, <2>2 DEF StoreToken, Finish, UsingToken
<1>5. CASE LoginFails(c) BY <1>5 DEF LoginFails, Finish
<1> QED BY <1>1, <1>2, <1>3, <1>4, <1>5 DEF LoginStep

LEMMA LoginStepCallCounted ==
  ASSUME TypeInv, NEW c \in Callers, LoginStep(c) PROVE CallCounted'
<1> USE CallersAssumption DEF TypeInv, TypeOK, CallCounted, CallSteps, LoginSteps,
        Goto, Callers, clientVars, deviceVars, callVars, ghostVars
<1>1. CASE LockForLogin(c) BY <1>1 DEF LockForLogin
<1>2. CASE FetchChallenge(c) BY <1>2 DEF FetchChallenge
<1>3. CASE Authenticate(c) BY <1>3 DEF Authenticate
<1>4. CASE StoreToken(c) BY <1>4 DEF StoreToken, Finish
<1>5. CASE LoginFails(c) BY <1>5 DEF LoginFails, Finish, UsingToken
<1> QED BY <1>1, <1>2, <1>3, <1>4, <1>5 DEF LoginStep

LEMMA OpActionsTypeOK ==
  ASSUME TypeInv, NEW o \in Ops, OpActions(o) PROVE TypeOK'
<1> USE CallersAssumption DEF TypeInv, TypeOK, Tokens, Steps, CallSteps, UsingToken,
        LogoutSteps, Goto, Callers, NoToken, clientVars, deviceVars, callVars, ghostVars
<1>1. CASE BeginRequest(o) BY <1>1, MaxCallsAssumption DEF BeginRequest, Begin
<1>2. CASE BeginLogout(o) BY <1>2, MaxCallsAssumption DEF BeginLogout, Begin
<1>3. CASE TakeCachedToken(o) BY <1>3 DEF TakeCachedToken
<1>4. CASE DeviceAnswers(o) BY <1>4 DEF DeviceAnswers, CallCounted
<1>5. CASE RoundTripFails(o) BY <1>5 DEF RoundTripFails, Finish
<1>6. CASE AnswerArrives(o) BY <1>6 DEF AnswerArrives, Finish, WorthRetrying
<1>7. CASE InvalidateToken(o)
  <2>1. fresh' \in BOOLEAN
    BY <1>7, Zenon DEF InvalidateToken
  <2> QED BY <1>7, <2>1 DEF InvalidateToken
<1>8. CASE LogoutWithoutToken(o) BY <1>8 DEF LogoutWithoutToken
<1>9. CASE LockForLogout(o) BY <1>9 DEF LockForLogout
<1>10. CASE SendLogout(o) BY <1>10 DEF SendLogout
<1>11. CASE FinishLogout(o)
  <2>1. fresh' \in BOOLEAN
    BY <1>11, Zenon DEF FinishLogout
  <2> QED BY <1>11, <2>1 DEF FinishLogout
<1> QED BY <1>1, <1>2, <1>3, <1>4, <1>5, <1>6, <1>7, <1>8, <1>9, <1>10, <1>11
        DEF OpActions

LEMMA OpActionsCallCounted ==
  ASSUME TypeInv, NEW o \in Ops, OpActions(o) PROVE CallCounted'
<1> USE CallersAssumption DEF TypeInv, TypeOK, CallCounted, CallSteps, UsingToken,
        LogoutSteps, LoginSteps, Goto, Callers, clientVars, deviceVars, callVars,
        ghostVars
<1>1. CASE BeginRequest(o) BY <1>1 DEF BeginRequest, Begin
<1>2. CASE BeginLogout(o) BY <1>2 DEF BeginLogout, Begin
<1>3. CASE TakeCachedToken(o) BY <1>3 DEF TakeCachedToken
<1>4. CASE DeviceAnswers(o) BY <1>4 DEF DeviceAnswers
<1>5. CASE RoundTripFails(o) BY <1>5 DEF RoundTripFails, Finish
<1>6. CASE AnswerArrives(o) BY <1>6 DEF AnswerArrives, Finish, WorthRetrying
<1>7. CASE InvalidateToken(o) BY <1>7 DEF InvalidateToken
<1>8. CASE LogoutWithoutToken(o) BY <1>8 DEF LogoutWithoutToken
<1>9. CASE LockForLogout(o) BY <1>9 DEF LockForLogout
<1>10. CASE SendLogout(o) BY <1>10 DEF SendLogout
<1>11. CASE FinishLogout(o) BY <1>11 DEF FinishLogout
<1> QED BY <1>1, <1>2, <1>3, <1>4, <1>5, <1>6, <1>7, <1>8, <1>9, <1>10, <1>11
        DEF OpActions

LEMMA NextTypeInv == TypeInv /\ [Next]_vars => TypeInv'
<1> SUFFICES ASSUME TypeInv, [Next]_vars PROVE TypeInv'
  OBVIOUS
<1> USE CallersAssumption DEF TypeInv, TypeOK, CallCounted, Tokens, Steps, CallSteps,
        LoginSteps, UsingToken, LogoutSteps, Goto, Callers,
        clientVars, deviceVars, callVars, ghostVars
<1>1. CASE BeginConfigure BY <1>1, MaxCallsAssumption DEF BeginConfigure, Begin
<1>2. CASE \E c \in Callers : LoginStep(c) 
  BY <1>2, LoginStepTypeOK, LoginStepCallCounted DEF TypeInv
<1>3. CASE \E o \in Ops : OpActions(o) 
  BY <1>3, OpActionsTypeOK, OpActionsCallCounted DEF TypeInv
<1>4. CASE TokenLapses BY <1>4 DEF TokenLapses
<1>5. CASE SessionRevoked BY <1>5 DEF SessionRevoked, NoToken
<1>6. CASE UNCHANGED vars BY <1>6 DEF vars
<1> QED BY <1>1, <1>2, <1>3, <1>4, <1>5, <1>6, NextCases

(***************************************************************************)
(* Type correctness of the session layer.                                  *)
(***************************************************************************)
THEOREM TypeCorrect == Spec => []TypeOK
<1>1. Spec => []TypeInv
  BY InitTypeInv, NextTypeInv, PTL DEF Spec
<1>2. TypeInv => TypeOK BY DEF TypeInv
<1> QED BY <1>1, <1>2, PTL

-----------------------------------------------------------------------------
LEMMA InitMutex == Init => MutexMatchesHolder
BY CallersAssumption DEF Init, MutexMatchesHolder, LockedSteps, LoginSteps, LogoutSteps,
                         Callers

LEMMA NextMutex == TypeInv /\ MutexMatchesHolder /\ [Next]_vars => MutexMatchesHolder'
<1> SUFFICES ASSUME TypeInv, MutexMatchesHolder, [Next]_vars
             PROVE  MutexMatchesHolder'
  OBVIOUS
<1> USE CallersAssumption DEF TypeInv, TypeOK, MutexMatchesHolder, LockedSteps, LoginSteps,
        LogoutSteps, Goto, Callers, clientVars, deviceVars, callVars, ghostVars
<1>1. CASE BeginConfigure BY <1>1 DEF BeginConfigure, Begin
<1>2. ASSUME NEW c \in Callers, LoginStep(c) PROVE MutexMatchesHolder'
  <2>1. CASE LockForLogin(c) BY <2>1 DEF LockForLogin
  <2>2. CASE FetchChallenge(c) BY <2>2 DEF FetchChallenge
  <2>3. CASE Authenticate(c) BY <2>3 DEF Authenticate
  <2>4. CASE StoreToken(c) BY <2>4 DEF StoreToken, Finish
  <2>5. CASE LoginFails(c) BY <2>5 DEF LoginFails, Finish
  <2> QED BY <1>2, <2>1, <2>2, <2>3, <2>4, <2>5 DEF LoginStep
<1>3. ASSUME NEW o \in Ops, OpActions(o) PROVE MutexMatchesHolder'
  <2>1. CASE BeginRequest(o) BY <2>1 DEF BeginRequest, Begin
  <2>2. CASE BeginLogout(o) BY <2>2 DEF BeginLogout, Begin
  <2>3. CASE TakeCachedToken(o) BY <2>3 DEF TakeCachedToken
  <2>4. CASE DeviceAnswers(o) BY <2>4 DEF DeviceAnswers
  <2>5. CASE RoundTripFails(o) BY <2>5 DEF RoundTripFails, Finish
  <2>6. CASE AnswerArrives(o) BY <2>6 DEF AnswerArrives, Finish
  <2>7. CASE InvalidateToken(o) BY <2>7 DEF InvalidateToken
  <2>8. CASE LogoutWithoutToken(o) BY <2>8 DEF LogoutWithoutToken
  <2>9. CASE LockForLogout(o) BY <2>9 DEF LockForLogout
  <2>10. CASE SendLogout(o) BY <2>10 DEF SendLogout
  <2>11. CASE FinishLogout(o) BY <2>11 DEF FinishLogout
  <2> QED BY <1>3, <2>1, <2>2, <2>3, <2>4, <2>5, <2>6, <2>7, <2>8, <2>9, <2>10, <2>11
          DEF OpActions
<1>4. CASE TokenLapses BY <1>4 DEF TokenLapses
<1>5. CASE SessionRevoked BY <1>5 DEF SessionRevoked
<1>6. CASE UNCHANGED vars BY <1>6 DEF vars
<1> QED BY <1>1, <1>2, <1>3, <1>4, <1>5, <1>6, NextCases

(***************************************************************************)
(* Client.mu is held exactly by the goroutine that is logging in or out,   *)
(* on every path, errors included.                                         *)
(***************************************************************************)
THEOREM MutexHolder == Spec => []MutexMatchesHolder
<1>1. Spec => [](TypeInv /\ MutexMatchesHolder)
  BY InitTypeInv, NextTypeInv, InitMutex, NextMutex, PTL DEF Spec
<1> QED BY <1>1, PTL

(***************************************************************************)
(* Hence two goroutines are never in the middle of a login together.       *)
(***************************************************************************)
THEOREM OneLoginAtATime ==
  Spec => [](\A c, d \in Callers :
               pc[c] \in LoginSteps /\ pc[d] \in LoginSteps => c = d)
<1>1. MutexMatchesHolder =>
        \A c, d \in Callers : pc[c] \in LoginSteps /\ pc[d] \in LoginSteps => c = d
  BY DEF MutexMatchesHolder, LockedSteps
<1> QED BY <1>1, MutexHolder, PTL

-----------------------------------------------------------------------------
\* Nothing happens before the provider is configured, and it logs in but once.
ConfigureFirst ==
  /\ ~configured => token = NoToken /\ \A o \in Ops : pc[o] = "idle"
  /\ pc[Configure] \in {"idle", "login"} \union LoginSteps
  /\ pc[Configure] # "idle" => ~configured

\* The cached token is the device's or known to be over; lapsed, it is over.
CachedTokenAccounted ==
  token # NoToken => /\ token = session \/ token \in ended
                     /\ ~fresh => token \in ended

\* Whoever is logging in does so over a token that is no use.
LoginOnlyWithoutToken ==
  \A c \in Callers : pc[c] \in LoginSteps /\ token # NoToken => token \in ended

\* A token on its way from the device is new to every operation.
GrantedTokenAccounted ==
  \A c \in Callers : pc[c] = "granted" =>
    /\ held[c] # NoToken
    /\ held[c] = session \/ held[c] \in ended
    /\ \A o \in Ops : rejected[o] # held[c]

\* A token in use is the cached one or over, and over once it was refused.
UsedTokenAccounted ==
  \A o \in Ops :
    /\ pc[o] \in UsingToken => /\ held[o] # NoToken
                               /\ held[o] = token \/ held[o] \in ended
    /\ pc[o] = "await" /\ answer[o] = "unauthorized" => held[o] \in ended
    /\ pc[o] = "invalidate" => held[o] \in ended
    /\ pc[o] = "awaitLogout" => token \in ended

\* The refused token is not the cached one when the second attempt looks.
RejectedTokenAccounted ==
  \A o \in Ops :
    Retrying(o) /\ pc[o] \in {"acquire"} \union LoginSteps => token # rejected[o]

\* The session is the cached token's, or over, or its token was never stored.
SessionAccounted ==
  session # NoToken =>
    \/ session = token
    \/ session \in ended \union wasted
    \/ \E c \in Callers : pc[c] = "granted" /\ held[c] = session

SessionInv ==
  /\ TypeInv
  /\ MutexMatchesHolder
  /\ ConfigureFirst
  /\ CachedTokenAccounted
  /\ LoginOnlyWithoutToken
  /\ GrantedTokenAccounted
  /\ UsedTokenAccounted
  /\ RejectedTokenAccounted
  /\ SessionAccounted
  /\ UnauthorizedOnlyAfterSecondLoss
  /\ EveryLoginNeeded
  /\ RetryUsesAnotherToken

LEMMA InitSessionInv == Init => SessionInv
BY InitTypeInv, InitMutex
   DEF Init, SessionInv, ConfigureFirst, CachedTokenAccounted, LoginOnlyWithoutToken,
       GrantedTokenAccounted, UsedTokenAccounted, RejectedTokenAccounted, SessionAccounted,
       UnauthorizedOnlyAfterSecondLoss, EveryLoginNeeded, RetryUsesAnotherToken, Retrying,
       LoginSteps, UsingToken, Callers, NoToken

\* What has to be shown of a step, the types and the mutex being settled.
TokensAccounted ==
  /\ ConfigureFirst
  /\ CachedTokenAccounted
  /\ LoginOnlyWithoutToken
  /\ GrantedTokenAccounted
  /\ UsedTokenAccounted
  /\ RejectedTokenAccounted
  /\ SessionAccounted
  /\ UnauthorizedOnlyAfterSecondLoss
  /\ EveryLoginNeeded
  /\ RetryUsesAnotherToken

LEMMA LoginStepTokens ==
  ASSUME SessionInv, LifetimesExceedMargin, NEW c \in Callers, LoginStep(c)
  PROVE  TokensAccounted'
<1> USE DEF TokensAccounted
<1> USE CallersAssumption DEF SessionInv, TypeInv, TypeOK, CallCounted, MutexMatchesHolder,
        ConfigureFirst, CachedTokenAccounted, LoginOnlyWithoutToken, GrantedTokenAccounted,
        UsedTokenAccounted, RejectedTokenAccounted, SessionAccounted,
        UnauthorizedOnlyAfterSecondLoss, EveryLoginNeeded, RetryUsesAnotherToken,
        LockedSteps, LoginSteps, LogoutSteps, CallSteps, UsingToken, Retrying, Tokens,
        NoToken, Goto, Callers, clientVars, deviceVars, callVars, ghostVars
<1>1. CASE LockForLogin(c) BY <1>1 DEF LockForLogin, CachedTokenUsable
<1>2. CASE FetchChallenge(c) BY <1>2 DEF FetchChallenge
<1>3. CASE Authenticate(c) BY <1>3 DEF Authenticate
<1>4. CASE StoreToken(c) BY <1>4 DEF StoreToken, Finish, LifetimesExceedMargin
<1>5. CASE LoginFails(c) BY <1>5 DEF LoginFails, Finish
<1> QED BY <1>1, <1>2, <1>3, <1>4, <1>5 DEF LoginStep

LEMMA OpActionsTokens ==
  ASSUME SessionInv, NEW o \in Ops, OpActions(o) PROVE TokensAccounted'
<1> USE DEF TokensAccounted
<1> USE CallersAssumption DEF SessionInv, TypeInv, TypeOK, CallCounted, MutexMatchesHolder,
        ConfigureFirst, CachedTokenAccounted, LoginOnlyWithoutToken, GrantedTokenAccounted,
        UsedTokenAccounted, RejectedTokenAccounted, SessionAccounted,
        UnauthorizedOnlyAfterSecondLoss, EveryLoginNeeded, RetryUsesAnotherToken,
        LockedSteps, LoginSteps, LogoutSteps, CallSteps, UsingToken, Retrying, Tokens,
        NoToken, Goto, Callers, clientVars, deviceVars, callVars, ghostVars
<1>1. CASE BeginRequest(o) BY <1>1 DEF BeginRequest, Begin
<1>2. CASE BeginLogout(o) BY <1>2 DEF BeginLogout, Begin
<1>3. CASE TakeCachedToken(o) BY <1>3 DEF TakeCachedToken, CachedTokenUsable
<1>4. CASE DeviceAnswers(o) BY <1>4 DEF DeviceAnswers
<1>5. CASE RoundTripFails(o) BY <1>5 DEF RoundTripFails, Finish
<1>6. CASE AnswerArrives(o) BY <1>6 DEF AnswerArrives, Finish, WorthRetrying
<1>7. CASE InvalidateToken(o) BY <1>7 DEF InvalidateToken, Discards
<1>8. CASE LogoutWithoutToken(o) BY <1>8 DEF LogoutWithoutToken
<1>9. CASE LockForLogout(o) BY <1>9 DEF LockForLogout
<1>10. CASE SendLogout(o) BY <1>10 DEF SendLogout
<1>11. CASE FinishLogout(o) BY <1>11 DEF FinishLogout
<1> QED BY <1>1, <1>2, <1>3, <1>4, <1>5, <1>6, <1>7, <1>8, <1>9, <1>10, <1>11
        DEF OpActions

LEMMA NextSessionInv ==
  ASSUME LifetimesExceedMargin PROVE SessionInv /\ [Next]_vars => SessionInv'
<1> SUFFICES ASSUME SessionInv, [Next]_vars PROVE TokensAccounted'
  BY NextTypeInv, NextMutex DEF SessionInv, TokensAccounted
<1>1. CASE \E c \in Callers : LoginStep(c) BY <1>1, LoginStepTokens
<1>2. CASE \E o \in Ops : OpActions(o) BY <1>2, OpActionsTokens
<1> USE DEF TokensAccounted
<1> USE CallersAssumption DEF SessionInv, TypeInv, TypeOK, CallCounted, MutexMatchesHolder,
        ConfigureFirst, CachedTokenAccounted, LoginOnlyWithoutToken, GrantedTokenAccounted,
        UsedTokenAccounted, RejectedTokenAccounted, SessionAccounted,
        UnauthorizedOnlyAfterSecondLoss, EveryLoginNeeded, RetryUsesAnotherToken,
        LockedSteps, LoginSteps, LogoutSteps, CallSteps, UsingToken, Retrying, Tokens,
        NoToken, Goto, Callers, clientVars, deviceVars, callVars, ghostVars
<1>3. CASE BeginConfigure BY <1>3 DEF BeginConfigure, Begin
<1>4. CASE TokenLapses BY <1>4 DEF TokenLapses, CachedTokenUsable
<1>5. CASE SessionRevoked BY <1>5 DEF SessionRevoked
<1>6. CASE UNCHANGED vars BY <1>6 DEF vars
<1> QED BY <1>1, <1>2, <1>3, <1>4, <1>5, <1>6, NextCases

LEMMA SessionInvariant == ASSUME LifetimesExceedMargin PROVE Spec => []SessionInv
<1>1. SessionInv /\ [Next]_vars => SessionInv'
  BY NextSessionInv
<1> QED BY InitSessionInv, <1>1, PTL DEF Spec

(***************************************************************************)
(* However many operations run, none takes the session from another: the   *)
(* token an operation works with is honoured unless it was ended from      *)
(* outside.                                                                *)
(***************************************************************************)
THEOREM SessionsAreNotStolen ==
  ASSUME LifetimesExceedMargin PROVE Spec => []NoOperationEvictsAnother
<1>1. SessionInv => NoOperationEvictsAnother
  BY DEF SessionInv, UsedTokenAccounted, CachedTokenAccounted, NoOperationEvictsAnother
<1> QED BY <1>1, SessionInvariant, PTL

(***************************************************************************)
(* One retry is enough: a call is told it is unauthorized only after the   *)
(* environment ended the token of its second attempt too.                  *)
(***************************************************************************)
THEOREM OneRetryIsEnough ==
  ASSUME LifetimesExceedMargin PROVE Spec => []UnauthorizedOnlyAfterSecondLoss
<1>1. SessionInv => UnauthorizedOnlyAfterSecondLoss
  BY DEF SessionInv
<1> QED BY <1>1, SessionInvariant, PTL

(***************************************************************************)
(* No login storm, however many calls are refused with the same token.     *)
(***************************************************************************)
THEOREM NoLoginStorm ==
  ASSUME LifetimesExceedMargin PROVE Spec => []EveryLoginNeeded
<1>1. SessionInv => EveryLoginNeeded
  BY DEF SessionInv
<1> QED BY <1>1, SessionInvariant, PTL

(***************************************************************************)
(* The second attempt never repeats the refused token.                     *)
(***************************************************************************)
THEOREM RetryIsNew ==
  ASSUME LifetimesExceedMargin PROVE Spec => []RetryUsesAnotherToken
<1>1. SessionInv => RetryUsesAnotherToken
  BY DEF SessionInv
<1> QED BY <1>1, SessionInvariant, PTL

-----------------------------------------------------------------------------
\* A step of Session is a step of the contract, or changes nothing it speaks of.
LEMMA InitContract == Init => Contract!Init
BY DEF Init, Contract!Init, CallSteps, LoginSteps, UsingToken, Callers

LEMMA NextContract == TypeInv /\ [Next]_vars => [Contract!Next]_Contract!contractVars
<1> SUFFICES ASSUME TypeInv, [Next]_vars PROVE [Contract!Next]_Contract!contractVars
  OBVIOUS
<1> USE CallersAssumption
    DEF TypeInv, TypeOK, CallCounted, Contract!contractVars, CallSteps, LoginSteps,
        UsingToken, LogoutSteps, Goto, Callers, clientVars, deviceVars, callVars, ghostVars
<1>1. CASE BeginConfigure BY <1>1 DEF BeginConfigure, Begin
<1>2. ASSUME NEW c \in Callers, LoginStep(c)
      PROVE  [Contract!Next]_Contract!contractVars
  <2>1. CASE LockForLogin(c) BY <2>1 DEF LockForLogin
  <2>2. CASE FetchChallenge(c) BY <2>2 DEF FetchChallenge
  <2>3. CASE Authenticate(c) BY <2>3 DEF Authenticate
  <2>4. CASE StoreToken(c) BY <2>4 DEF StoreToken, Finish
  <2>5. CASE LoginFails(c) /\ c = Configure BY <2>5 DEF LoginFails, Finish
  <2>6. CASE LoginFails(c) /\ c \in Ops
    <3>1. Contract!Report(c)
      BY <2>6 DEF LoginFails, Finish, Contract!Report, Contract!Verdicts
    <3> QED BY <2>6, <3>1 DEF Contract!Next
  <2> QED BY <1>2, <2>1, <2>2, <2>3, <2>4, <2>5, <2>6 DEF LoginStep
<1>3. ASSUME NEW o \in Ops, OpActions(o)
      PROVE  [Contract!Next]_Contract!contractVars
  <2>1. CASE BeginRequest(o)
    <3>1. Contract!Call(o)
      BY <2>1 DEF BeginRequest, Begin, Contract!Call
    <3> QED BY <3>1 DEF Contract!Next
  <2>2. CASE BeginLogout(o) BY <2>2 DEF BeginLogout, Begin
  <2>3. CASE TakeCachedToken(o) BY <2>3 DEF TakeCachedToken
  <2>4. CASE DeviceAnswers(o) /\ UNCHANGED applied BY <2>4 DEF DeviceAnswers
  <2>5. CASE DeviceAnswers(o) /\ applied' = [applied EXCEPT ![o] = @ + 1]
    <3>1. pc[o] = "send" /\ applied[o] = 0 /\ pc' = [pc EXCEPT ![o] = "await"]
      BY <2>5 DEF DeviceAnswers
    <3>2. applied' = [applied EXCEPT ![o] = 1] /\ UNCHANGED verdict
      BY <2>5, <3>1 DEF DeviceAnswers
    <3>3. Contract!CarryOut(o)
      BY <3>1, <3>2 DEF Contract!CarryOut
    <3> QED BY <3>3 DEF Contract!Next
  <2>6. CASE RoundTripFails(o)
    <3>1. Contract!Report(o)
      BY <2>6 DEF RoundTripFails, Finish, Contract!Report, Contract!Verdicts
    <3> QED BY <3>1 DEF Contract!Next
  <2>7. CASE AnswerArrives(o) /\ WorthRetrying(o) BY <2>7 DEF AnswerArrives
  <2>8. CASE AnswerArrives(o) /\ ~WorthRetrying(o)
    <3> DEFINE v == IF answer[o] = "error" THEN "failed" ELSE answer[o]
    <3>1. /\ pc[o] = "await" /\ pc' = [pc EXCEPT ![o] = "idle"]
          /\ verdict' = [verdict EXCEPT ![o] = v] /\ UNCHANGED applied
      BY <2>8 DEF AnswerArrives, Finish
    <3>2. /\ v \in Contract!Verdicts \ {"none"}
          /\ v = "ok" => applied[o] = 1
          /\ v = "unauthorized" => applied[o] = 0
      BY <3>1 DEF Contract!Verdicts
    <3> HIDE DEF v
    <3>3. Contract!Report(o)
      BY <3>1, <3>2 DEF Contract!Report
    <3> QED BY <3>3 DEF Contract!Next
  <2>9. CASE InvalidateToken(o) BY <2>9 DEF InvalidateToken
  <2>10. CASE LogoutWithoutToken(o) BY <2>10 DEF LogoutWithoutToken
  <2>11. CASE LockForLogout(o) BY <2>11 DEF LockForLogout
  <2>12. CASE SendLogout(o) BY <2>12 DEF SendLogout
  <2>13. CASE FinishLogout(o) BY <2>13 DEF FinishLogout
  <2> QED BY <1>3, <2>1, <2>2, <2>3, <2>4, <2>5, <2>6, <2>7, <2>8, <2>9, <2>10, <2>11,
             <2>12, <2>13 DEF OpActions, DeviceAnswers
<1>4. CASE TokenLapses BY <1>4 DEF TokenLapses
<1>5. CASE SessionRevoked BY <1>5 DEF SessionRevoked
<1>6. CASE UNCHANGED vars BY <1>6 DEF vars
<1> QED BY <1>1, <1>2, <1>3, <1>4, <1>5, <1>6, NextCases

(***************************************************************************)
(* The session layer implements the safety part of RequestContract: no     *)
(* call is carried out twice, and the verdict tells the truth.             *)
(***************************************************************************)
THEOREM MeetsRequestContract == Spec => MeetsContractSafely
<1>1. Spec => []TypeInv
  BY InitTypeInv, NextTypeInv, PTL DEF Spec
<1> QED
  BY <1>1, InitContract, NextContract, PTL
     DEF Spec, MeetsContractSafely, Contract!SafeSpec

-----------------------------------------------------------------------------
\* A call that uses a token has one, and retries once.
RetryCounted ==
  /\ \A c \in Callers : pc[c] \in {"granted"} \union UsingToken => held[c] # NoToken
  /\ \A c \in Callers : pc[c] = "invalidate" => ~Retrying(c)

LEMMA InitRetry == Init => RetryCounted
BY DEF Init, RetryCounted, UsingToken

LEMMA NextRetry == TypeInv /\ RetryCounted /\ [Next]_vars => RetryCounted'
<1> SUFFICES ASSUME TypeInv, RetryCounted, [Next]_vars PROVE RetryCounted'
  OBVIOUS
<1> USE CallersAssumption
    DEF TypeInv, TypeOK, RetryCounted, Tokens, LoginSteps, UsingToken, Callers, Goto,
        Retrying, NoToken, clientVars, deviceVars, callVars, ghostVars
<1>1. CASE BeginConfigure
  BY <1>1 DEF BeginConfigure, Begin
<1>2. ASSUME NEW c \in Callers, LoginStep(c) PROVE RetryCounted'
  <2>1. CASE LockForLogin(c) \/ FetchChallenge(c) BY <2>1 DEF LockForLogin, FetchChallenge
  <2>2. CASE Authenticate(c) BY <2>2 DEF Authenticate
  <2>3. CASE StoreToken(c) BY <2>3 DEF StoreToken, Finish
  <2>4. CASE LoginFails(c) BY <2>4 DEF LoginFails, Finish
  <2> QED BY <1>2, <2>1, <2>2, <2>3, <2>4 DEF LoginStep
<1>3. ASSUME NEW o \in Ops, OpActions(o) PROVE RetryCounted'
  <2>1. CASE BeginRequest(o) \/ BeginLogout(o) BY <2>1 DEF BeginRequest, BeginLogout, Begin
  <2>2. CASE TakeCachedToken(o) BY <2>2 DEF TakeCachedToken, CachedTokenUsable
  <2>3. CASE DeviceAnswers(o) BY <2>3 DEF DeviceAnswers
  <2>4. CASE RoundTripFails(o) BY <2>4 DEF RoundTripFails, Finish
  <2>5. CASE AnswerArrives(o) BY <2>5 DEF AnswerArrives, Finish, WorthRetrying
  <2>6. CASE InvalidateToken(o) BY <2>6 DEF InvalidateToken
  <2>7. CASE LogoutWithoutToken(o) \/ LockForLogout(o) \/ SendLogout(o) \/ FinishLogout(o)
    BY <2>7 DEF LogoutWithoutToken, LockForLogout, SendLogout, FinishLogout
  <2> QED BY <1>3, <2>1, <2>2, <2>3, <2>4, <2>5, <2>6, <2>7 DEF OpActions
<1>4. CASE TokenLapses \/ SessionRevoked \/ UNCHANGED vars
  BY <1>4 DEF TokenLapses, SessionRevoked, vars
<1> QED BY <1>1, <1>2, <1>3, <1>4, NextCases

(***************************************************************************)
(* A call takes at most fourteen steps, two attempts with a login each,    *)
(* whatever the others do to its token, for any lifetimes.  That it takes  *)
(* them is its fairness.                                                   *)
(***************************************************************************)
THEOREM CallsRunOut == Spec => CallsAdvance
<1> DEFINE Advances(c) == pc[c] # "idle" => IF pc'[c] = pc[c] THEN StepsLeft(c)' = StepsLeft(c)
                                            ELSE StepsLeft(c)' < StepsLeft(c)
<1>1. TypeInv /\ RetryCounted /\ [Next]_vars => [\A c \in Callers : Advances(c)]_vars
  <2> SUFFICES ASSUME TypeInv, RetryCounted, Next, NEW c \in Callers, pc[c] # "idle"
               PROVE  IF pc'[c] = pc[c] THEN StepsLeft(c)' = StepsLeft(c)
                      ELSE StepsLeft(c)' < StepsLeft(c)
    OBVIOUS
  <2>1. ASSUME UNCHANGED <<pc, rejected>> PROVE Advances(c)
    BY <2>1 DEF StepsLeft, Retrying
  <2>2. ASSUME NEW a \in Callers, pc' = [pc EXCEPT ![a] = "idle"], UNCHANGED rejected,
               pc[a] # "idle"
        PROVE  Advances(c)
    BY <2>2 DEF StepsLeft, StepsAhead, Retrying, TypeInv, TypeOK, Steps, CallSteps, LoginSteps,
                UsingToken, LogoutSteps, StepsOfAttempt
  <2> USE DEF TypeInv, TypeOK, Callers, Goto, StepsLeft, StepsAhead, StepsOfAttempt, Retrying,
          callVars
  <2>3. CASE BeginConfigure
    BY <2>3 DEF BeginConfigure, Begin
  <2>4. ASSUME NEW a \in Callers, LoginStep(a) PROVE Advances(c)
    <3>1. CASE LockForLogin(a) \/ FetchChallenge(a) BY <3>1 DEF LockForLogin, FetchChallenge
    <3>2. CASE Authenticate(a) BY <3>2 DEF Authenticate
    <3>3. CASE StoreToken(a) BY <3>3 DEF StoreToken, Finish
    <3>4. CASE LoginFails(a) BY <2>2, <3>4 DEF LoginFails, Finish, LoginSteps
    <3> QED BY <2>4, <3>1, <3>2, <3>3, <3>4 DEF LoginStep
  <2>5. ASSUME NEW o \in Ops, OpActions(o) PROVE Advances(c)
    <3>1. CASE BeginRequest(o) \/ BeginLogout(o)
      BY <3>1 DEF BeginRequest, BeginLogout, Begin
    <3>2. CASE TakeCachedToken(o) \/ DeviceAnswers(o)
      BY <3>2 DEF TakeCachedToken, DeviceAnswers
    <3>3. CASE RoundTripFails(o) BY <2>2, <3>3 DEF RoundTripFails, Finish
    <3>4. CASE AnswerArrives(o)
      BY <2>2, <3>4 DEF AnswerArrives, Finish
    <3>5. CASE InvalidateToken(o)
      BY <3>5 DEF InvalidateToken, RetryCounted, UsingToken
    <3>6. CASE LogoutWithoutToken(o) \/ FinishLogout(o)
      BY <2>2, <3>6 DEF LogoutWithoutToken, FinishLogout
    <3>7. CASE LockForLogout(o) \/ SendLogout(o)
      BY <3>7 DEF LockForLogout, SendLogout
    <3> QED BY <2>5, <3>1, <3>2, <3>3, <3>4, <3>5, <3>6, <3>7 DEF OpActions
  <2>6. CASE TokenLapses \/ SessionRevoked \/ UNCHANGED vars
    BY <2>1, <2>6 DEF TokenLapses, SessionRevoked, vars
  <2> QED BY <2>3, <2>4, <2>5, <2>6, NextCases
<1>2. Spec => [](TypeInv /\ RetryCounted)
  BY InitTypeInv, NextTypeInv, InitRetry, NextRetry, PTL DEF Spec
<1> QED BY <1>1, <1>2, PTL DEF Spec, CallsAdvance
=============================================================================
