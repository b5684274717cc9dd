------------------------------- MODULE Gateway -------------------------------
(***************************************************************************)
(* What a request passes before its handler: authentication (auth.go) and  *)
(* the limiter of its group (middleware.go), in the order in which main.go *)
(* and RegisterProfileRoutes chain them; and how tokens are issued.        *)
(*                                                                         *)
(* Time is a clock of ticks, and a bucket counts in parts of a token, of   *)
(* which there are Period, so that a refill is a whole number.             *)
(***************************************************************************)
EXTENDS Config, FiniteSets

CONSTANTS Clients,     \* the goroutines that serve requests
          Tokens,      \* the random tokens
          NoToken,     \* no bearer token
          Life,        \* token_expiry_s, in ticks
          Period,      \* how many ticks ten seconds have
          MaxClock,    \* bound: the last reading of the clock
          RateFiles,   \* the rate_limit section of a configuration file
          ServedRoutes \* the routes that the server has

Groups == {"users", "persons"}
Routes == {"api users", "api persons", "soap", "profile users", "profile persons"}
Never == MaxClock + Life + 1   \* later than every expiry

ASSUME GatewayData ==
    /\ NoToken \notin Tokens
    /\ Life \in Nat /\ MaxClock \in Nat /\ Period \in Nat \ {0}
    /\ ServedRoutes \subseteq Routes
    /\ RateFiles \subseteq [Groups -> [rate : Keys, burst : Keys]]

VARIABLES clock,
          limits,     \* the rate and the burst of each group
          bucket,     \* what is left in the bucket of each limiter
          expiry,     \* the tokens map: when each token expires
          pc, req,    \* where each goroutine is, and the request it serves
          read,       \* the expiry that it has read or computed
          began,      \* history: when its request with a token arrived
          asked, handed,   \* history: when a token was asked for and answered
          total,      \* history: how many requests each limiter has admitted
          before      \* history: how many of them before each tick

threadVars == <<pc, req, read, began>>
tokenVars == <<expiry, asked, handed>>
limitVars == <<bucket, total, before>>
vars == <<clock, limits, threadVars, tokenVars, limitVars>>

\* The group whose rate a route counts against.
Group(route) == CASE route \in {"api users", "profile users"} -> {"users"}
                  [] route \in {"api persons", "profile persons"} -> {"persons"}
                  [] OTHER -> {}

\* Mutant: the routes of the profile are registered without a limiter.
Limiter_NotForProfiles(route) == CASE route = "api users" -> {"users"}
                                   [] route = "api persons" -> {"persons"}
                                   [] OTHER -> {}

\* The limiter that a request passes, if any.  /soap has none, whichever
\* handler serves the operation.
Limiter(route) == Group(route)

\* Basic credentials that are right, or that are wrong or missing; or a token.
Calls == [route : ServedRoutes, basic : {"good", "bad"}, token : {NoToken}]
             \cup [route : ServedRoutes, basic : {"none"}, token : Tokens]
Issues == [route : {"issue"}, basic : {"none"}, token : Tokens]

NoCall == [route |-> "none", basic |-> "none", token |-> NoToken]

Times == 0..MaxClock
Expiries == 0..Never

Full(g) == limits[g].burst * Period
Limited(g) == limits[g].rate > 0

TypeOK == /\ clock \in Times
          /\ limits \in [Groups -> [rate : Int, burst : Int]]
          /\ \A g \in Groups : Limited(g) => limits[g].burst >= 1 /\ bucket[g] \in 0..Full(g)
          /\ expiry \in [Tokens -> Expiries]
          /\ pc \in [Clients -> {"idle", "auth", "compare", "limit", "served", "401", "429",
                                 "stamp", "store", "issued"}]
          /\ req \in [Clients -> Calls \cup Issues \cup {NoCall}]
          /\ read \in [Clients -> Expiries]
          /\ began \in [Clients -> Times]
          /\ asked \in [Tokens -> Expiries] /\ handed \in [Tokens -> Expiries]
          /\ total \in [Groups -> Nat] /\ before \in [Groups -> [Times -> Nat]]

\* Issued tokens and admissions start with the process: a restart is a new Init.
Init == /\ clock = 0
        /\ \E f \in RateFiles : limits = [g \in Groups |-> RateLimit(f[g])]
        /\ bucket = [g \in Groups |-> Full(g)]
        /\ expiry = [k \in Tokens |-> Never]
        /\ pc = [c \in Clients |-> "idle"]
        /\ req = [c \in Clients |-> NoCall]
        /\ read = [c \in Clients |-> Never]
        /\ began = [c \in Clients |-> 0]
        /\ asked = [k \in Tokens |-> Never] /\ handed = [k \in Tokens |-> Never]
        /\ total = [g \in Groups |-> 0]
        /\ before = [g \in Groups |-> [s \in Times |-> 0]]

Step(c, from, to) == pc[c] = from /\ pc' = [pc EXCEPT ![c] = to]

\* The rate is a number per ten seconds.  (The bucket is x/time/rate.)
Refill(g) == IF bucket[g] + limits[g].rate > Full(g) THEN Full(g) ELSE bucket[g] + limits[g].rate

Tick == /\ clock < MaxClock
        /\ clock' = clock + 1
        /\ bucket' = [g \in Groups |-> IF Limited(g) THEN Refill(g) ELSE bucket[g]]
        /\ before' = [g \in Groups |-> [before[g] EXCEPT ![clock + 1] = total[g]]]
        /\ UNCHANGED <<limits, threadVars, tokenVars, total>>

(***************************************************************************)
(* Issuing a token: TokenHandler, and the issue_token action of a profile, *)
(* which ask for no authentication and pass no limiter.                    *)
(***************************************************************************)
AskToken(c, r) == /\ asked[r.token] = Never
                  /\ Step(c, "idle", "stamp")
                  /\ req' = [req EXCEPT ![c] = r]
                  /\ asked' = [asked EXCEPT ![r.token] = clock]
                  /\ UNCHANGED <<clock, limits, read, began, expiry, handed, limitVars>>

Stamp(c) == /\ Step(c, "stamp", "store")
            /\ read' = [read EXCEPT ![c] = clock + Life]
            /\ UNCHANGED <<clock, limits, req, began, tokenVars, limitVars>>

StoreToken(c) == /\ Step(c, "store", "issued")
                 /\ expiry' = [expiry EXCEPT ![req[c].token] = read[c]]
                 /\ UNCHANGED <<clock, limits, req, read, began, asked, handed, limitVars>>

Idle(c, from) == /\ Step(c, from, "idle")
                 /\ req' = [req EXCEPT ![c] = NoCall]
                 /\ read' = [read EXCEPT ![c] = Never]
                 /\ began' = [began EXCEPT ![c] = 0]

HandToken(c) == /\ Idle(c, "issued")
                /\ handed' = [handed EXCEPT ![req[c].token] = clock]
                /\ UNCHANGED <<clock, limits, expiry, asked, limitVars>>

(***************************************************************************)
(* A request for one of the routes.                                        *)
(***************************************************************************)
Arrive(c, r) == /\ Step(c, "idle", "auth")
                /\ req' = [req EXCEPT ![c] = r]
                /\ began' = [began EXCEPT ![c] = IF r.token = NoToken THEN 0 ELSE clock]
                /\ UNCHANGED <<clock, limits, read, tokenVars, limitVars>>

\* Mutant: the limiter stands before the authentication.
Refused_LimiterFirst(c) == /\ Step(c, "auth", "401")
                           /\ bucket' = [g \in Groups |-> IF g \in Limiter(req[c].route) /\ bucket[g] >= Period
                                                           THEN bucket[g] - Period ELSE bucket[g]]
                           /\ UNCHANGED <<clock, limits, req, read, began, tokenVars, total, before>>

Refused(c) == /\ Step(c, "auth", "401")
              /\ UNCHANGED <<clock, limits, req, read, began, tokenVars, limitVars>>

\* Basic credentials are decided at once.
CheckBasic(c) == \/ /\ req[c].basic = "good"
                    /\ Step(c, "auth", "limit")
                    /\ UNCHANGED <<clock, limits, req, read, began, tokenVars, limitVars>>
                 \/ req[c].basic = "bad" /\ Refused(c)

\* The token is looked up under the read lock ...
LookUp(c) == /\ req[c].token # NoToken
             /\ IF expiry[req[c].token] = Never
                THEN Refused(c)
                ELSE /\ Step(c, "auth", "compare")
                     /\ read' = [read EXCEPT ![c] = expiry[req[c].token]]
                     /\ UNCHANGED <<clock, limits, req, began, tokenVars, limitVars>>

\* Mutant: a token in the map is good.
Valid_Known(c) == TRUE

Valid(c) == clock < read[c]

\* ... and compared with the clock when the lock is free again.
Compare(c) == /\ Step(c, "compare", IF Valid(c) THEN "limit" ELSE "401")
              /\ UNCHANGED <<clock, limits, req, read, began, tokenVars, limitVars>>

Limit(c) ==
    LET passing == {g \in Limiter(req[c].route) : Limited(g)}
        counting == {g \in Group(req[c].route) : Limited(g)}
        refused == \E g \in passing : bucket[g] < Period
    IN  /\ IF refused
           THEN /\ Step(c, "limit", "429")
                /\ UNCHANGED <<bucket, total>>
           ELSE /\ Step(c, "limit", "served")
                /\ bucket' = [g \in Groups |-> IF g \in passing THEN bucket[g] - Period ELSE bucket[g]]
                /\ total' = [g \in Groups |-> IF g \in counting THEN total[g] + 1 ELSE total[g]]
        /\ UNCHANGED <<clock, limits, req, read, began, tokenVars, before>>

Answer(c) == /\ \E from \in {"served", "401", "429"} : Idle(c, from)
             /\ UNCHANGED <<clock, limits, tokenVars, limitVars>>

Next == \/ Tick
        \/ \E c \in Clients :
              \/ \E r \in Issues : AskToken(c, r)
              \/ Stamp(c) \/ StoreToken(c) \/ HandToken(c)
              \/ \E r \in Calls : Arrive(c, r)
              \/ CheckBasic(c) \/ LookUp(c) \/ Compare(c) \/ Limit(c) \/ Answer(c)

Spec == Init /\ [][Next]_vars

-----------------------------------------------------------------------------
(***************************************************************************)
(* Properties.                                                             *)
(***************************************************************************)

\* A token is good for as long as its client was told.  A client that has
\* its token when it sends a request is refused only when the life of the
\* token, counted from when it was asked for, is over; and no request gets
\* through that came when that life, counted from the answer, was over.
TokensLiveTheirLife == \A c \in Clients :
    LET k == req[c].token
    IN  k # NoToken =>
          /\ pc[c] = "401" /\ handed[k] < began[c] => clock >= asked[k] + Life
          /\ pc[c] \in {"limit", "served", "429"} /\ handed[k] # Never => began[c] < handed[k] + Life

\* The requests that a group admits over any time, by its own routes and by
\* those of the profile together, are at most the burst and the rate for
\* that time.
AdmitsWithinRate == \A g \in Groups : Limited(g) =>
    \A s \in 0..clock :
        Period * (total[g] - before[g][s]) <= Full(g) + limits[g].rate * (clock - s)

\* And a request is refused only when the group has used that up: requests
\* without authentication and requests of the other group cost it nothing.
RefusesOnlySpent ==
    [][\A c \in Clients : pc[c] = "limit" /\ pc'[c] = "429" =>
          \E g \in Limiter(req[c].route), s \in 0..clock :
              Period * (total[g] - before[g][s] + 1) > Full(g) + limits[g].rate * (clock - s)]_vars

(***************************************************************************)
(* The inductive invariant that GatewayProofs proves.                      *)
(***************************************************************************)
Issuing == {"stamp", "store", "issued"}
Passed == {"limit", "served", "429"}

\* The expiry of a token is its life after a time between question and answer.
LifeInv == \A k \in Tokens :
    /\ expiry[k] # Never => /\ asked[k] <= clock /\ asked[k] + Life <= expiry[k]
                            /\ expiry[k] <= clock + Life
    /\ handed[k] # Never => /\ expiry[k] # Never
                            /\ handed[k] <= clock /\ expiry[k] <= handed[k] + Life

\* A token is issued by one goroutine, which nobody else can have it from yet.
IssueInv ==
    /\ \A c \in Clients : pc[c] \in Issuing =>
          LET k == req[c].token
          IN  /\ req[c] \in Issues
              /\ asked[k] <= clock /\ handed[k] = Never
              /\ pc[c] # "issued" => expiry[k] = Never
              /\ pc[c] # "stamp" => asked[k] + Life <= read[c] /\ read[c] <= clock + Life
              /\ pc[c] = "issued" => expiry[k] = read[c]
    /\ \A c, d \in Clients :
          pc[c] \in Issuing /\ pc[d] \in Issuing /\ req[c].token = req[d].token => c = d

\* What a request has read of its token is still so when it is compared.
CallInv == \A c \in Clients :
    LET k == req[c].token
    IN  /\ began[c] <= clock
        /\ pc[c] \notin Issuing \cup {"idle"} => req[c] \in Calls
        /\ pc[c] = "compare" => k \in Tokens /\ expiry[k] # Never /\ read[c] = expiry[k]
        /\ k \in Tokens /\ pc[c] \in Passed => expiry[k] # Never /\ began[c] < expiry[k]
        /\ k \in Tokens /\ pc[c] = "401" /\ handed[k] < began[c] => clock >= asked[k] + Life

\* What is left in a bucket and what it has paid for is at most what a span of
\* time brings, and all of that for the span since it was full.
Spent(g, s) == Period * (total[g] - before[g][s]) + bucket[g]
Brought(g, s) == Full(g) + limits[g].rate * (clock - s)

BucketInv == \A g \in Groups : Limited(g) =>
    /\ \A s \in 0..clock : Spent(g, s) <= Brought(g, s)
    /\ \E s \in 0..clock : Spent(g, s) = Brought(g, s)

GatewayInv == TypeOK /\ LifeInv /\ IssueInv /\ CallInv /\ BucketInv
=============================================================================
