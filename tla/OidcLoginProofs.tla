--------------------------- MODULE OidcLoginProofs ---------------------------
(***************************************************************************)
(* The properties of OidcLogin for any number of browsers, goroutines,     *)
(* states and sessions, by the inductive invariant LoginInv.               *)
(***************************************************************************)
EXTENDS OidcLogin, TLAPS

-----------------------------------------------------------------------------
(* The steps.                                                               *)

\* A handler that returns leaves an idle goroutine.
LEMMA FinishTyped ==
  ASSUME ThreadTypeOK, OidcData, NEW t \in Threads, Finish(t)
  PROVE  ThreadTypeOK'
BY DEF ThreadTypeOK, Finish, Clock

\* Time passes.
LEMMA TickKeeps ==
  ASSUME LoginInv, Tick
  PROVE  LoginInv'
<1> USE OidcData DEF LoginInv, Tick, mapVars, browserVars, threadVars, historyVars
<1>1. TypeOK'
  BY DEF TypeOK, ThreadTypeOK, Cookies, Clock
<1>2. StateInv'
  BY DEF TypeOK, ThreadTypeOK, StateInv, Cookies, Clock
<1>3. SessionInv'
  BY DEF TypeOK, ThreadTypeOK, SessionInv, Cookies, Clock
<1> QED BY <1>1, <1>2, <1>3

\* A login starts.
LEMMA LoginKeeps ==
  ASSUME LoginInv, NEW t \in Threads, NEW b \in Browsers, Login(t, b)
  PROVE  LoginInv'
<1> USE OidcData DEF LoginInv, Login, Arrive, mapVars, browserVars, threadVars, historyVars
<1>1. TypeOK'
  BY DEF TypeOK, ThreadTypeOK, Cookies, Clock
<1>2. StateInv'
  BY DEF TypeOK, ThreadTypeOK, StateInv, Cookies, Clock
<1>3. SessionInv'
  BY DEF TypeOK, ThreadTypeOK, SessionInv, Cookies, Clock
<1> QED BY <1>1, <1>2, <1>3

\* A browser comes back.
LEMMA CallbackKeeps ==
  ASSUME LoginInv, NEW t \in Threads, NEW b \in Browsers, Callback(t, b)
  PROVE  LoginInv'
<1> USE OidcData DEF LoginInv, Callback, Arrive, Sent, mapVars, browserVars, threadVars, historyVars
<1>1. TypeOK'
  BY DEF TypeOK, ThreadTypeOK, Cookies, Clock
<1>2. StateInv'
  BY DEF TypeOK, ThreadTypeOK, StateInv, Cookies, Clock
<1>3. SessionInv'
  BY DEF TypeOK, ThreadTypeOK, SessionInv, Cookies, Clock
<1> QED BY <1>1, <1>2, <1>3

\* A logout comes in.
LEMMA LogoutKeeps ==
  ASSUME LoginInv, NEW t \in Threads, NEW b \in Browsers, Logout(t, b)
  PROVE  LoginInv'
<1> USE OidcData DEF LoginInv, Logout, Arrive, Sent, mapVars, browserVars, threadVars, historyVars
<1>1. TypeOK'
  BY DEF TypeOK, ThreadTypeOK, Cookies, Clock
<1>2. StateInv'
  BY DEF TypeOK, ThreadTypeOK, StateInv, Cookies, Clock
<1>3. SessionInv'
  BY DEF TypeOK, ThreadTypeOK, SessionInv, Cookies, Clock
<1> QED BY <1>1, <1>2, <1>3

\* The profile page is asked for.
LEMMA MeKeeps ==
  ASSUME LoginInv, NEW t \in Threads, NEW b \in Browsers, Me(t, b)
  PROVE  LoginInv'
<1> USE OidcData DEF LoginInv, Me, Arrive, Sent, mapVars, browserVars, threadVars, historyVars
<1>1. TypeOK'
  BY DEF TypeOK, ThreadTypeOK, Cookies, Clock
<1>2. StateInv'
  BY DEF TypeOK, ThreadTypeOK, StateInv, Cookies, Clock
<1>3. SessionInv'
  BY DEF TypeOK, ThreadTypeOK, SessionInv, Cookies, Clock
<1> QED BY <1>1, <1>2, <1>3

\* The browser gets its state.
LEMMA RedirectKeeps ==
  ASSUME LoginInv, NEW t \in Threads, Redirect(t)
  PROVE  LoginInv'
<1> USE OidcData DEF LoginInv, Redirect, StateCookie, Finish, mapVars, browserVars, threadVars, historyVars
<1>1. TypeOK'
  <2>1. browser[t] \in Browsers /\ state[t] \in States /\ clock + StateLife \in Int
    BY DEF TypeOK, ThreadTypeOK, Clock
  <2>2. StateCookie(state[t]) \in Cookies(States)
    BY <2>1 DEF Cookies
  <2>3. jar' \in [Browsers -> [state : Cookies(States) \cup {None}, session : Cookies(Sids) \cup {None}]]
    <3> HIDE DEF StateCookie
    <3> QED BY <2>1, <2>2 DEF TypeOK, ThreadTypeOK
  <2>4. logins' \in [Browsers -> SUBSET States] /\ offered' \in [States -> Clock \cup {None}]
    BY <2>1 DEF TypeOK, ThreadTypeOK
  <2> QED BY <2>3, <2>4 DEF TypeOK, ThreadTypeOK, Clock
<1>2. StateInv'
  BY DEF TypeOK, ThreadTypeOK, StateInv, Cookies, Clock
<1>3. SessionInv'
  BY DEF TypeOK, ThreadTypeOK, SessionInv, Cookies, Clock
<1> QED BY <1>1, <1>2, <1>3

\* The state is looked up and removed.
LEMMA ClaimKeeps ==
  ASSUME LoginInv, NEW t \in Threads, Claim(t)
  PROVE  LoginInv'
<1> USE OidcData DEF LoginInv, Claim, Finish, Step, mapVars, browserVars, threadVars, historyVars
<1>1. TypeOK'
  <2>1. ThreadTypeOK'
    <3>1. CASE state[t] \in states
      BY <3>1 DEF TypeOK, ThreadTypeOK
    <3>2. CASE state[t] \notin states
      <4> HIDE DEF Finish
      <4> QED BY <3>2, FinishTyped DEF TypeOK
    <3> QED BY <3>1, <3>2
  <2> QED BY <2>1 DEF TypeOK
<1>2. StateInv'
  BY DEF TypeOK, ThreadTypeOK, StateInv, Cookies, Clock
<1>3. SessionInv'
  BY DEF TypeOK, ThreadTypeOK, SessionInv, Cookies, Clock
<1> QED BY <1>1, <1>2, <1>3

\* The code is exchanged, or not.
LEMMA ExchangeKeeps ==
  ASSUME LoginInv, NEW t \in Threads, Exchange(t)
  PROVE  LoginInv'
<1> USE OidcData DEF LoginInv, Exchange, Finish, mapVars, browserVars, threadVars, historyVars
<1>1. TypeOK'
  <2>1. ThreadTypeOK'
    <3>1. CASE Finish(t)
      <4> HIDE DEF Finish, Exchange
      <4> QED BY <3>1, FinishTyped DEF TypeOK
    <3>2. CASE ~Finish(t)
      <4>1. PICK e \in {clock + n : n \in Lives} \cup {Forever} :
              /\ pc' = [pc EXCEPT ![t] = "store"]
              /\ expiry' = [expiry EXCEPT ![t] = e]
              /\ UNCHANGED <<browser, state, sid, arrived, left>>
        <5> HIDE DEF Finish
        <5> QED BY <3>2
      <4>2. e \in Int \cup {Forever}
        BY <4>1 DEF TypeOK, Clock
      <4>3. pc[t] = "exchange"
        OBVIOUS
      <4> HIDE DEF Finish, Exchange
      <4> QED BY <4>1, <4>2, <4>3 DEF TypeOK, ThreadTypeOK
    <3> QED BY <3>1, <3>2
  <2>2. exchanged' \in [States -> Nat]
    BY DEF TypeOK, ThreadTypeOK
  <2> QED BY <2>1, <2>2 DEF TypeOK
<1>2. StateInv'
  <2>1. pc'[t] \in {"idle", "store"} /\ \A u \in Threads \ {t} :
           pc'[u] = pc[u] /\ state'[u] = state[u] /\ arrived'[u] = arrived[u]
    BY DEF TypeOK, ThreadTypeOK
  <2>2. state[t] \in States /\ exchanged' = [exchanged EXCEPT ![state[t]] = @ + 1]
    BY DEF TypeOK, ThreadTypeOK
  <2>3. UNCHANGED <<states, used, offered, jar, logins>>
    OBVIOUS
  <2>4. pc[t] = "exchange"
    OBVIOUS
  <2> HIDE DEF Exchange, Finish
  <2> QED BY <2>1, <2>2, <2>3, <2>4 DEF TypeOK, ThreadTypeOK, StateInv
<1>3. SessionInv'
  BY DEF TypeOK, ThreadTypeOK, SessionInv, Cookies, Clock
<1> QED BY <1>1, <1>2, <1>3

\* The session is stored.
LEMMA StoreSessionKeeps ==
  ASSUME LoginInv, NEW t \in Threads, StoreSession(t)
  PROVE  LoginInv'
<1> USE OidcData DEF LoginInv, StoreSession, Step, mapVars, browserVars, threadVars, historyVars
<1>1. TypeOK'
  BY DEF TypeOK, ThreadTypeOK, Cookies, Clock
<1>2. StateInv'
  BY DEF TypeOK, ThreadTypeOK, StateInv, Cookies, Clock
<1>3. SessionInv'
  BY DEF TypeOK, ThreadTypeOK, SessionInv, Cookies, Clock
<1> QED BY <1>1, <1>2, <1>3

\* The browser gets its session.
LEMMA WelcomeKeeps ==
  ASSUME LoginInv, NEW t \in Threads, Welcome(t)
  PROVE  LoginInv'
<1> USE OidcData DEF LoginInv, Welcome, Finish, mapVars, browserVars, threadVars, historyVars
<1>1. TypeOK'
  BY DEF TypeOK, ThreadTypeOK, Cookies, Clock
<1>2. StateInv'
  BY DEF TypeOK, ThreadTypeOK, StateInv, Cookies, Clock
<1>3. SessionInv'
  BY DEF TypeOK, ThreadTypeOK, SessionInv, Cookies, Clock
<1> QED BY <1>1, <1>2, <1>3

\* The session is removed.
LEMMA ForgetKeeps ==
  ASSUME LoginInv, NEW t \in Threads, Forget(t)
  PROVE  LoginInv'
<1> USE OidcData DEF LoginInv, Forget, Step, mapVars, browserVars, threadVars, historyVars
<1>1. TypeOK'
  BY DEF TypeOK, ThreadTypeOK, Cookies, Clock
<1>2. StateInv'
  BY DEF TypeOK, ThreadTypeOK, StateInv, Cookies, Clock
<1>3. SessionInv'
  BY DEF TypeOK, ThreadTypeOK, SessionInv, Cookies, Clock
<1> QED BY <1>1, <1>2, <1>3

\* The logout is answered.
LEMMA ByeKeeps ==
  ASSUME LoginInv, NEW t \in Threads, Bye(t)
  PROVE  LoginInv'
<1> USE OidcData DEF LoginInv, Bye, Finish, mapVars, browserVars, threadVars, historyVars
<1>1. TypeOK'
  <2>1. jar' \in [Browsers -> [state : Cookies(States) \cup {None}, session : Cookies(Sids) \cup {None}]]
    BY DEF TypeOK, ThreadTypeOK
  <2> QED BY <2>1 DEF TypeOK, ThreadTypeOK, Clock
<1>2. StateInv'
  <2>1. \A b \in Browsers : jar'[b].state = jar[b].state
    BY DEF TypeOK, ThreadTypeOK
  <2> QED BY <2>1 DEF TypeOK, ThreadTypeOK, StateInv
<1>3. SessionInv'
  BY DEF TypeOK, ThreadTypeOK, SessionInv, Cookies, Clock
<1> QED BY <1>1, <1>2, <1>3

\* The session is read.
LEMMA ReadSessionKeeps ==
  ASSUME LoginInv, NEW t \in Threads, ReadSession(t)
  PROVE  LoginInv'
<1> USE OidcData DEF LoginInv, ReadSession, Finish, mapVars, browserVars, threadVars, historyVars
<1>1. TypeOK'
  <2>1. ThreadTypeOK'
    <3>1. CASE sessions[sid[t]] = None
      <4> HIDE DEF Finish
      <4> QED BY <3>1, FinishTyped DEF TypeOK
    <3>2. CASE sessions[sid[t]] # None
      BY <3>2 DEF TypeOK, ThreadTypeOK
    <3> QED BY <3>1, <3>2
  <2> QED BY <2>1 DEF TypeOK
<1>2. StateInv'
  <2>1. pc'[t] \in {"idle", "check"} /\ \A u \in Threads \ {t} :
           pc'[u] = pc[u] /\ state'[u] = state[u] /\ arrived'[u] = arrived[u]
    BY DEF TypeOK, ThreadTypeOK
  <2> HIDE DEF Finish
  <2> QED BY <2>1 DEF StateInv
<1>3. SessionInv'
  BY DEF TypeOK, ThreadTypeOK, SessionInv, Cookies, Clock
<1> QED BY <1>1, <1>2, <1>3

\* Its expiry is compared with the clock.
LEMMA CheckExpiryKeeps ==
  ASSUME LoginInv, NEW t \in Threads, CheckExpiry(t)
  PROVE  LoginInv'
<1> USE OidcData DEF LoginInv, CheckExpiry, Step, Expired, mapVars, browserVars, threadVars, historyVars
<1>1. TypeOK'
  BY DEF TypeOK, ThreadTypeOK, Cookies, Clock
<1>2. StateInv'
  BY DEF TypeOK, ThreadTypeOK, StateInv, Cookies, Clock
<1>3. SessionInv'
  BY DEF TypeOK, ThreadTypeOK, SessionInv, Cookies, Clock
<1> QED BY <1>1, <1>2, <1>3

\* An expired session is removed.
LEMMA RemoveKeeps ==
  ASSUME LoginInv, NEW t \in Threads, Remove(t)
  PROVE  LoginInv'
<1> USE OidcData DEF LoginInv, Remove, Finish, mapVars, browserVars, threadVars, historyVars
<1>1. TypeOK'
  BY DEF TypeOK, ThreadTypeOK, Cookies, Clock
<1>2. StateInv'
  BY DEF TypeOK, ThreadTypeOK, StateInv, Cookies, Clock
<1>3. SessionInv'
  BY DEF TypeOK, ThreadTypeOK, SessionInv, Cookies, Clock
<1> QED BY <1>1, <1>2, <1>3

\* The page is shown.
LEMMA ShowKeeps ==
  ASSUME LoginInv, NEW t \in Threads, Show(t)
  PROVE  LoginInv'
<1> USE OidcData DEF LoginInv, Show, Finish, mapVars, browserVars, threadVars, historyVars
<1>1. TypeOK'
  BY DEF TypeOK, ThreadTypeOK, Cookies, Clock
<1>2. StateInv'
  BY DEF TypeOK, ThreadTypeOK, StateInv, Cookies, Clock
<1>3. SessionInv'
  BY DEF TypeOK, ThreadTypeOK, SessionInv, Cookies, Clock
<1> QED BY <1>1, <1>2, <1>3

-----------------------------------------------------------------------------
(* The invariant and what follows from it.                                  *)

\* At the start there is no login and no session.
LEMMA InitEstablishes == ASSUME OidcData, Init PROVE LoginInv
BY DEF OidcData, Init, LoginInv, TypeOK, ThreadTypeOK, StateInv, SessionInv, Clock

\* Every step keeps the invariant.
LEMMA NextKeeps == LoginInv /\ [Next]_vars => LoginInv'
<1> SUFFICES ASSUME LoginInv, [Next]_vars PROVE LoginInv'
  OBVIOUS
<1>1. CASE UNCHANGED vars
  BY <1>1 DEF vars, mapVars, browserVars, threadVars, historyVars, LoginInv, TypeOK,
              ThreadTypeOK, StateInv, SessionInv
<1>2. CASE Tick
  BY <1>2, TickKeeps
<1>3. ASSUME NEW t \in Threads, NEW b \in Browsers,
             Login(t, b) \/ Callback(t, b) \/ Logout(t, b) \/ Me(t, b)
      PROVE  LoginInv'
  BY <1>3, LoginKeeps, CallbackKeeps, LogoutKeeps, MeKeeps
<1>4. ASSUME NEW t \in Threads,
             \/ Redirect(t) \/ Claim(t) \/ Exchange(t) \/ StoreSession(t) \/ Welcome(t)
             \/ Forget(t) \/ Bye(t) \/ ReadSession(t) \/ CheckExpiry(t) \/ Remove(t) \/ Show(t)
      PROVE  LoginInv'
  BY <1>4, RedirectKeeps, ClaimKeeps, ExchangeKeeps, StoreSessionKeeps, WelcomeKeeps, ForgetKeeps,
     ByeKeeps, ReadSessionKeeps, CheckExpiryKeeps, RemoveKeeps, ShowKeeps
<1> QED BY <1>1, <1>2, <1>3, <1>4 DEF Next

\* The invariant holds throughout.
THEOREM LoginInvariant == Spec => []LoginInv
<1>1. Init => LoginInv
  BY InitEstablishes, OidcData
<1> QED BY <1>1, NextKeeps, PTL DEF Spec

\* Every variable of OIDCService and of its handlers keeps its type.
THEOREM TypeCorrect == Spec => []TypeOK
<1>1. LoginInv => TypeOK
  BY DEF LoginInv
<1> QED BY <1>1, LoginInvariant, PTL

\* CallbackHandler removes a state under the lock before it exchanges the
\* code: no state leads to two exchanges, however many callbacks carry it.
THEOREM ExchangesOnce == Spec => []OneExchangePerState
<1>1. LoginInv => OneExchangePerState
  BY DEF LoginInv, StateInv, OneExchangePerState
<1> QED BY <1>1, LoginInvariant, PTL

\* The Max-Age of oidc_state bounds the time between the login and the
\* callback, although the server never reads the expiry it stores.
THEOREM LoginsEndInTime == Spec => []LoginsAreInTime
<1>1. LoginInv => LoginsAreInTime
  BY DEF LoginInv, StateInv, LoginsAreInTime
<1> QED BY <1>1, LoginInvariant, PTL

\* MeHandler shows no session that was logged out or expired before the
\* request came.
THEOREM ShowsLiveSessions == Spec => []ShownIsLive
<1>1. LoginInv => ShownIsLive
  BY DEF LoginInv, SessionInv, ShownIsLive
<1> QED BY <1>1, LoginInvariant, PTL

\* A session leaves the map by its own logout or after its expiry, also when
\* the handler that removes it had read it long before.
THEOREM SessionsEndWithCause == Spec => SessionsEndForCause
<1>1. ASSUME LoginInv, [Next]_vars, NEW i \in Sids, sessions[i] # None, sessions'[i] = None
      PROVE  \/ \E t \in Threads : pc[t] = "logout" /\ sid[t] = i
             \/ sessions[i] # Forever /\ clock > sessions[i]
  <2> USE <1>1, OidcData DEF mapVars
  <2>1. sessions' # sessions
    OBVIOUS
  <2>2. ~Tick /\ ~UNCHANGED vars
    BY <2>1 DEF Tick, vars
  <2>3. \A t \in Threads, b \in Browsers : ~Login(t, b) /\ ~Callback(t, b) /\ ~Logout(t, b) /\ ~Me(t, b)
    BY <2>1 DEF Login, Callback, Logout, Me
  <2>4. \A t \in Threads : ~Redirect(t) /\ ~Claim(t) /\ ~Exchange(t) /\ ~Welcome(t) /\ ~Bye(t)
    BY <2>1 DEF Redirect, Claim, Exchange, Welcome, Bye
  <2>5. \A t \in Threads : ~ReadSession(t) /\ ~CheckExpiry(t) /\ ~Show(t)
    BY <2>1 DEF ReadSession, CheckExpiry, Show
  <2>6. \A t \in Threads : ~StoreSession(t)
    BY DEF LoginInv, TypeOK, SessionInv, StoreSession
  <2>7. PICK t \in Threads : Forget(t) \/ Remove(t)
    BY <2>2, <2>3, <2>4, <2>5, <2>6 DEF Next
  <2>8. sid[t] = i
    BY <2>7 DEF Forget, Remove, LoginInv, TypeOK, ThreadTypeOK
  <2>9. CASE Forget(t)
    BY <2>8, <2>9 DEF Forget, Step
  <2>10. CASE Remove(t)
    BY <2>8, <2>10 DEF Remove, LoginInv, SessionInv
  <2> QED BY <2>7, <2>9, <2>10
<1>2. LoginInv /\ [Next]_vars =>
        [\A i \in Sids : sessions[i] # None /\ sessions'[i] = None =>
            \/ \E t \in Threads : pc[t] = "logout" /\ sid[t] = i
            \/ sessions[i] # Forever /\ clock > sessions[i]]_vars
  BY <1>1
<1> QED BY <1>2, LoginInvariant, PTL DEF Spec, SessionsEndForCause
=============================================================================
