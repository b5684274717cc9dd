------------------------------ MODULE OidcLogin ------------------------------
(***************************************************************************)
(* OIDCService (oidc.go): login, callback, logout and the profile page, by *)
(* goroutines that each take the lock for one access of a map at a time,   *)
(* and the browsers that hold the two cookies.  A browser may have several *)
(* logins under way, repeat a callback, and lose an answer.                *)
(*                                                                         *)
(* The provider is outside the program: an exchange fails, or it gives an  *)
(* ID token that is refused, or one that is good, with or without an       *)
(* expiry.                                                                 *)
(***************************************************************************)
EXTENDS Integers, FiniteSets

CONSTANTS Browsers,
          Threads,     \* the goroutines that serve requests
          States,      \* the random states of logins
          Sids,        \* the random session ids
          None,        \* no state, no session id, no session, no time
          Forever,     \* the zero expiry
          StateLife,   \* Max-Age of the cookie oidc_state, in ticks
          SessionLife, \* Max-Age of the cookie oidc_session, in ticks
          Lives,       \* how long the tokens of the provider live, in ticks
          MaxClock     \* bound: the last reading of the clock

ASSUME OidcData == /\ None \notin States \cup Sids \cup Int \cup {Forever}
                   /\ Forever \notin Int
                   /\ StateLife \in Nat \ {0} /\ SessionLife \in Nat \ {0}
                   /\ Lives \subseteq Int /\ MaxClock \in Nat

VARIABLES clock,
          states,     \* the states map: its keys; their expiry is never read
          sessions,   \* the sessions map: the expiry of each session
          jar,        \* the cookies of each browser
          logins,     \* the logins that each browser can come back from
          pc, browser, state, sid, expiry,   \* the request of each goroutine
          arrived,    \* history: when the request came
          left,       \* history: the sessions that had been logged out by then
          offered,    \* history: when the browser got each state
          exchanged,  \* history: how often each state led to an exchange
          loggedOut,  \* history: the sessions whose logout has been answered
          used        \* history: the states and session ids drawn so far

mapVars == <<states, sessions>>
browserVars == <<jar, logins>>
threadVars == <<pc, browser, state, sid, expiry, arrived, left>>
historyVars == <<offered, exchanged, loggedOut, used>>
vars == <<clock, mapVars, browserVars, threadVars, historyVars>>

Clock == 0..MaxClock
Cookies(S) == [value : S, until : Int]

ThreadTypeOK ==
    /\ pc \in [Threads -> {"idle", "redirect", "claim", "exchange", "store", "welcome",
                           "logout", "bye", "read", "check", "remove", "show"}]
    /\ browser \in [Threads -> Browsers \cup {None}]
    /\ state \in [Threads -> States \cup {None}]
    /\ sid \in [Threads -> Sids \cup {None}]
    /\ expiry \in [Threads -> Int \cup {Forever, None}]
    /\ arrived \in [Threads -> Clock]
    /\ left \in [Threads -> SUBSET Sids]
    /\ \A t \in Threads :
          /\ pc[t] # "idle" => browser[t] \in Browsers
          /\ pc[t] \in {"redirect", "claim", "exchange"} => state[t] \in States
          /\ pc[t] \in {"welcome", "logout", "bye", "read", "check", "remove", "show"} => sid[t] \in Sids

TypeOK ==
    /\ clock \in Clock
    /\ states \subseteq States
    /\ sessions \in [Sids -> Int \cup {Forever, None}]
    /\ jar \in [Browsers -> [state : Cookies(States) \cup {None},
                             session : Cookies(Sids) \cup {None}]]
    /\ logins \in [Browsers -> SUBSET States]
    /\ offered \in [States -> Clock \cup {None}] /\ exchanged \in [States -> Nat]
    /\ loggedOut \subseteq Sids /\ used \subseteq States \cup Sids
    /\ ThreadTypeOK

Init == /\ clock = 0
        /\ states = {} /\ sessions = [i \in Sids |-> None]
        /\ jar = [b \in Browsers |-> [state |-> None, session |-> None]]
        /\ logins = [b \in Browsers |-> {}]
        /\ pc = [t \in Threads |-> "idle"]
        /\ browser = [t \in Threads |-> None] /\ state = [t \in Threads |-> None]
        /\ sid = [t \in Threads |-> None] /\ expiry = [t \in Threads |-> None]
        /\ arrived = [t \in Threads |-> 0] /\ left = [t \in Threads |-> {}]
        /\ offered = [s \in States |-> None] /\ exchanged = [s \in States |-> 0]
        /\ loggedOut = {} /\ used = {}

Tick == /\ clock < MaxClock
        /\ clock' = clock + 1
        /\ UNCHANGED <<mapVars, browserVars, threadVars, historyVars>>

\* A browser sends a cookie until its Max-Age is over.
Sent(cookie) == IF cookie = None THEN None
                ELSE IF clock < cookie.until THEN cookie.value ELSE None

Arrive(t, b, at, s, i) == /\ pc[t] = "idle"
                          /\ pc' = [pc EXCEPT ![t] = at]
                          /\ browser' = [browser EXCEPT ![t] = b]
                          /\ state' = [state EXCEPT ![t] = s]
                          /\ sid' = [sid EXCEPT ![t] = i]
                          /\ arrived' = [arrived EXCEPT ![t] = clock]
                          /\ left' = [left EXCEPT ![t] = loggedOut]
                          /\ UNCHANGED expiry

Step(t, from, to) == /\ pc[t] = from
                     /\ pc' = [pc EXCEPT ![t] = to]
                     /\ UNCHANGED <<browser, state, expiry, arrived, left>>

\* The handler returns.
Finish(t) == /\ pc' = [pc EXCEPT ![t] = "idle"]
             /\ browser' = [browser EXCEPT ![t] = None]
             /\ state' = [state EXCEPT ![t] = None]
             /\ sid' = [sid EXCEPT ![t] = None]
             /\ expiry' = [expiry EXCEPT ![t] = None]
             /\ arrived' = [arrived EXCEPT ![t] = 0]
             /\ left' = [left EXCEPT ![t] = {}]

(***************************************************************************)
(* GET /oidc/login                                                         *)
(***************************************************************************)
\* Bound: there is a state left.
Login(t, b) == \E s \in States :
    /\ s \notin used
    /\ Arrive(t, b, "redirect", s, None)
    /\ states' = states \cup {s}
    /\ used' = used \cup {s}
    /\ UNCHANGED <<clock, sessions, browserVars, offered, exchanged, loggedOut>>

\* Mutant: both cookies get the longer life.
StateCookie_Long(s) == [value |-> s, until |-> clock + SessionLife]

StateCookie(s) == [value |-> s, until |-> clock + StateLife]

Redirect(t) == /\ pc[t] = "redirect"
               /\ LET b == browser[t]
                      s == state[t]
                  IN  /\ jar' = [jar EXCEPT ![b].state = StateCookie(s)]
                      /\ logins' = [logins EXCEPT ![b] = @ \cup {s}]
                      /\ offered' = [offered EXCEPT ![s] = clock]
               /\ Finish(t)
               /\ UNCHANGED <<clock, mapVars, exchanged, loggedOut, used>>

(***************************************************************************)
(* GET /oidc/callback                                                      *)
(***************************************************************************)
\* Any other cookie, or none, is answered with 400.
Callback(t, b) == \E s \in logins[b] :
    /\ Sent(jar[b].state) = s
    /\ Arrive(t, b, "claim", s, None)
    /\ UNCHANGED <<clock, mapVars, browserVars, historyVars>>

\* Mutant: the state is looked up and stays in the map.
Claim_Kept(t) ==
    /\ pc[t] = "claim"
    /\ IF state[t] \in states THEN Step(t, "claim", "exchange") /\ UNCHANGED sid ELSE Finish(t)
    /\ UNCHANGED <<clock, mapVars, browserVars, historyVars>>

\* The state is looked up and removed under the lock, before the exchange.
Claim(t) ==
    /\ pc[t] = "claim"
    /\ IF state[t] \in states THEN Step(t, "claim", "exchange") /\ UNCHANGED sid ELSE Finish(t)
    /\ states' = states \ {state[t]}
    /\ UNCHANGED <<clock, sessions, browserVars, historyVars>>

\* The code is exchanged and the ID token verified; any error ends the login.
Exchange(t) ==
    /\ pc[t] = "exchange"
    /\ exchanged' = [exchanged EXCEPT ![state[t]] = @ + 1]
    /\ \/ Finish(t)
       \/ \E e \in {clock + n : n \in Lives} \cup {Forever} :
             /\ pc' = [pc EXCEPT ![t] = "store"]
             /\ expiry' = [expiry EXCEPT ![t] = e]
             /\ UNCHANGED <<browser, state, sid, arrived, left>>
    /\ UNCHANGED <<clock, mapVars, browserVars, offered, loggedOut, used>>

\* Bound: there is a session id left.
StoreSession(t) == \E i \in Sids :
    /\ i \notin used
    /\ Step(t, "store", "welcome")
    /\ sid' = [sid EXCEPT ![t] = i]
    /\ sessions' = [sessions EXCEPT ![i] = expiry[t]]
    /\ used' = used \cup {i}
    /\ UNCHANGED <<clock, states, browserVars, offered, exchanged, loggedOut>>

Welcome(t) == /\ pc[t] = "welcome"
              /\ jar' = [jar EXCEPT ![browser[t]].session =
                            [value |-> sid[t], until |-> clock + SessionLife]]
              /\ Finish(t)
              /\ UNCHANGED <<clock, mapVars, logins, historyVars>>

(***************************************************************************)
(* GET /oidc/logout                                                        *)
(***************************************************************************)
Logout(t, b) == /\ Sent(jar[b].session) # None
                /\ Arrive(t, b, "logout", None, Sent(jar[b].session))
                /\ UNCHANGED <<clock, mapVars, browserVars, historyVars>>

\* Mutant: a logout only clears the cookie.
Forget_CookieOnly(t) == /\ Step(t, "logout", "bye")
                        /\ UNCHANGED <<sid, clock, mapVars, browserVars, historyVars>>

Forget(t) == /\ Step(t, "logout", "bye")
             /\ sessions' = [sessions EXCEPT ![sid[t]] = None]
             /\ UNCHANGED <<sid, clock, states, browserVars, historyVars>>

\* The answer clears the cookie, unless it is lost.
Bye(t) == /\ pc[t] = "bye"
          /\ \/ jar' = [jar EXCEPT ![browser[t]].session = None]
             \/ UNCHANGED jar
          /\ loggedOut' = loggedOut \cup {sid[t]}
          /\ Finish(t)
          /\ UNCHANGED <<clock, mapVars, logins, offered, exchanged, used>>

(***************************************************************************)
(* GET /oidc/me                                                            *)
(***************************************************************************)
\* Mutant: an empty cookie is looked up as well.
Me_AnyCookie(t, b) == /\ Arrive(t, b, "read", None, Sent(jar[b].session))
                      /\ UNCHANGED <<clock, mapVars, browserVars, historyVars>>

\* Without a cookie the browser is sent to the login.
Me(t, b) == /\ Sent(jar[b].session) # None
            /\ Arrive(t, b, "read", None, Sent(jar[b].session))
            /\ UNCHANGED <<clock, mapVars, browserVars, historyVars>>

\* The session is read under the read lock ...
ReadSession(t) == /\ pc[t] = "read"
                  /\ IF sessions[sid[t]] = None
                     THEN Finish(t)
                     ELSE /\ pc' = [pc EXCEPT ![t] = "check"]
                          /\ expiry' = [expiry EXCEPT ![t] = sessions[sid[t]]]
                          /\ UNCHANGED <<browser, state, sid, arrived, left>>
                  /\ UNCHANGED <<clock, mapVars, browserVars, historyVars>>

\* Mutant: the zero expiry is a time like any other, long past.
Expired_ZeroToo(e) == e = Forever \/ clock > e

Expired(e) == e # Forever /\ clock > e

\* ... its expiry is compared with the clock when the lock is free ...
CheckExpiry(t) == /\ Step(t, "check", IF Expired(expiry[t]) THEN "remove" ELSE "show")
                  /\ UNCHANGED <<sid, clock, mapVars, browserVars, historyVars>>

\* ... and the lock is taken again to remove it.
Remove(t) == /\ pc[t] = "remove"
             /\ sessions' = [sessions EXCEPT ![sid[t]] = None]
             /\ Finish(t)
             /\ UNCHANGED <<clock, states, browserVars, historyVars>>

Show(t) == /\ pc[t] = "show"
           /\ Finish(t)
           /\ UNCHANGED <<clock, mapVars, browserVars, historyVars>>

Next == \/ Tick
        \/ \E t \in Threads, b \in Browsers :
              Login(t, b) \/ Callback(t, b) \/ Logout(t, b) \/ Me(t, b)
        \/ \E t \in Threads :
              \/ Redirect(t)
              \/ Claim(t) \/ Exchange(t) \/ StoreSession(t) \/ Welcome(t)
              \/ Forget(t) \/ Bye(t)
              \/ ReadSession(t) \/ CheckExpiry(t) \/ Remove(t) \/ Show(t)

Spec == Init /\ [][Next]_vars

-----------------------------------------------------------------------------
(***************************************************************************)
(* Properties.                                                             *)
(***************************************************************************)

\* A state is good for one exchange with the provider, also when the browser
\* repeats the callback and both requests are under way at once.
OneExchangePerState == \A s \in States : exchanged[s] <= 1

\* A login is finished only by a callback sent within the life of its state.
\* The server itself never looks at the expiry that it stores: the cookie
\* ends in time.
LoginsAreInTime == \A t \in Threads :
    pc[t] = "exchange" => arrived[t] < offered[state[t]] + StateLife

\* The profile page never shows a session whose logout had been answered, or
\* whose token had expired, before the request came, whatever of other
\* requests happens between its two looks at the map.
ShownIsLive == \A t \in Threads : pc[t] = "show" =>
    /\ sid[t] \notin left[t]
    /\ expiry[t] # Forever => arrived[t] <= expiry[t]

\* A session goes only by its own logout, or when its token has expired; and
\* one without an expiry only by its logout.
SessionsEndForCause ==
    [][\A i \in Sids : sessions[i] # None /\ sessions'[i] = None =>
          \/ \E t \in Threads : pc[t] = "logout" /\ sid[t] = i
          \/ sessions[i] # Forever /\ clock > sessions[i]]_vars

(***************************************************************************)
(* The inductive invariant that OidcLoginProofs proves.                    *)
(***************************************************************************)
\* A state leaves the map before its one exchange, and the cookie that has it
\* ends StateLife after it was offered.
StateInv ==
    /\ states \subseteq used
    /\ \A s \in States :
          /\ exchanged[s] \in {0, 1}
          /\ exchanged[s] = 1 => s \in used \ states
          /\ offered[s] # None => s \in used
    /\ \A b \in Browsers : jar[b].state # None =>
          /\ offered[jar[b].state.value] \in Int
          /\ jar[b].state.until = offered[jar[b].state.value] + StateLife
    /\ \A b \in Browsers : \A s \in logins[b] : offered[s] \in Int
    /\ \A t \in Threads :
          /\ pc[t] = "redirect" => state[t] \in used /\ offered[state[t]] = None
          /\ pc[t] \in {"claim", "exchange"} => /\ offered[state[t]] \in Int
                                               /\ arrived[t] < offered[state[t]] + StateLife
          /\ pc[t] = "exchange" => state[t] \notin states /\ exchanged[state[t]] = 0
    /\ \A t, u \in Threads : pc[t] = pc[u] /\ pc[t] \in {"redirect", "exchange"} /\ state[t] = state[u]
                               => t = u

\* A session that is gone stays gone, and what a request read of one is what
\* the map still holds, unless it is gone.
SessionInv ==
    /\ loggedOut \subseteq used
    /\ \A i \in Sids : sessions[i] # None => i \in used \ loggedOut
    /\ \A b \in Browsers : jar[b].session # None => jar[b].session.value \in used
    /\ \A t \in Threads :
          /\ arrived[t] <= clock
          /\ left[t] \subseteq loggedOut
          /\ pc[t] \in {"welcome", "logout", "bye", "read", "check", "remove", "show"}
                => sid[t] \in used
          /\ pc[t] \in {"store", "check", "remove", "show"} => expiry[t] \in Int \cup {Forever}
          /\ pc[t] = "bye" => sessions[sid[t]] = None
          /\ pc[t] \in {"check", "remove"} => sessions[sid[t]] \in {None, expiry[t]}
          /\ pc[t] = "remove" => expiry[t] # Forever /\ clock > expiry[t]
          /\ pc[t] \in {"check", "show"} => sid[t] \notin left[t]
          /\ pc[t] = "show" /\ expiry[t] # Forever => arrived[t] <= expiry[t]

LoginInv == TypeOK /\ StateInv /\ SessionInv
=============================================================================
