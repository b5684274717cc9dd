--------------------------- MODULE GatewayProofs ----------------------------
(***************************************************************************)
(* Proofs about authentication and the limiters, for any number of clients *)
(* and tokens, any life of a token and any configured rates and bursts.    *)
(***************************************************************************)
EXTENDS Gateway, TLAPS

\* The invariant without the part about buckets.
TokenInv == TypeOK /\ LifeInv /\ IssueInv /\ CallInv

-----------------------------------------------------------------------------
(* Numbers. *)

\* What LoadConfig leaves of a section: a limited group has a burst.
LEMMA RateLimitType ==
  ASSUME NEW file \in [rate : Keys, burst : Keys]
  PROVE  /\ RateLimit(file) \in [rate : Int, burst : Int]
         /\ RateLimit(file).rate > 0 => RateLimit(file).burst >= 1
<1>1. \A key \in Keys, std \in Int : Decoded(key, std) \in Int
  BY DEF Decoded, Keys
<1>2. \A n \in Int : Repaired(n, 1) \in Int /\ Repaired(n, 1) >= 1
  BY DEF Repaired
<1>3. Decoded(file.rate, 0) \in Int /\ Decoded(file.burst, StdBurst) \in Int
  BY <1>1, ConfigData
<1> QED BY <1>2, <1>3 DEF RateLimit

\* The times and the life of a token are numbers, and Never is later.
LEMMA Times0 ==
  ASSUME TypeOK
  PROVE  /\ clock \in Int /\ 0 <= clock /\ clock <= MaxClock
         /\ Life \in Int /\ 0 <= Life
         /\ MaxClock \in Int /\ Never \in Int /\ Never > MaxClock + Life
         /\ \A t \in Times : t \in Int /\ 0 <= t /\ t <= MaxClock
         /\ \A t \in Expiries : t \in Int /\ 0 <= t
         /\ \A t \in Int : 0 <= t /\ t <= MaxClock + Life => t \in Expiries
         /\ Never \in Expiries
BY GatewayData DEF TypeOK, Times, Expiries, Never

\* A request for a route has a token only without basic credentials.
LEMMA CallTypes ==
  /\ NoCall.token = NoToken /\ NoToken \notin Tokens
  /\ \A r \in Issues : r.token \in Tokens
  /\ \A r \in Calls : /\ r.token \in Tokens \cup {NoToken}
                      /\ r.token # NoToken => r.basic = "none"
                      /\ Limiter(r.route) \subseteq Groups
BY GatewayData DEF NoCall, Issues, Calls, Limiter, Group, Groups

-----------------------------------------------------------------------------
(* Tokens. *)

\* A tick moves nothing but the clock.
LEMMA TickToken == ASSUME TokenInv, Tick PROVE LifeInv' /\ IssueInv' /\ CallInv'
<1> USE DEF TokenInv, Tick, threadVars, tokenVars
<1>1. clock' = clock + 1 /\ clock \in Int /\ Life \in Int
  BY Times0
<1>2. LifeInv'
  BY <1>1, Times0 DEF LifeInv, TypeOK
<1>3. IssueInv'
  BY <1>1, Times0, CallTypes DEF IssueInv, TypeOK
<1>4. ASSUME NEW c \in Clients
      PROVE  /\ began[c] \in Int
             /\ \A k \in Tokens : asked[k] \in Int
  BY Times0 DEF TypeOK
<1>5. CallInv'
  BY <1>1, <1>4 DEF CallInv
<1> QED BY <1>2, <1>3, <1>5

LEMMA AskTokenKeeps ==
  ASSUME TokenInv, NEW c \in Clients, NEW r \in Issues, AskToken(c, r)
  PROVE  TokenInv'
<1> USE DEF TokenInv, AskToken, Step, limitVars
<1>1. r.token \in Tokens /\ asked[r.token] = Never
  BY CallTypes
<1>2. expiry[r.token] = Never /\ handed[r.token] = Never
  BY <1>1, Times0 DEF LifeInv, TypeOK
<1>3. \A d \in Clients : pc[d] \in Issuing => req[d].token # r.token
  BY <1>1, Times0 DEF IssueInv, TypeOK
<1>4. TypeOK'
  <2>1. clock \in Expiries
    BY Times0
  <2> QED BY <1>1, <2>1 DEF TypeOK, Limited, Full
<1>5. LifeInv'
  BY <1>1, <1>2, Times0 DEF LifeInv, TypeOK
<1>6. IssueInv'
  BY <1>1, <1>2, <1>3, Times0, CallTypes DEF IssueInv, TypeOK, Issuing
<1>7. CallInv'
  BY <1>1, <1>2, Times0, CallTypes DEF CallInv, TypeOK, Issuing, Passed
<1> QED BY <1>4, <1>5, <1>6, <1>7

LEMMA StampKeeps ==
  ASSUME TokenInv, NEW c \in Clients, Stamp(c)
  PROVE  TokenInv'
<1> USE DEF TokenInv, Stamp, Step, limitVars, tokenVars
<1>1. clock + Life \in Expiries /\ clock + Life \in Int
  BY Times0
<1>4. TypeOK'
  BY <1>1 DEF TypeOK, Limited, Full
<1>5. LifeInv'
  BY DEF LifeInv
<1>6. IssueInv'
  BY <1>1, Times0, CallTypes DEF IssueInv, TypeOK, Issuing
<1>7. CallInv'
  BY Times0, CallTypes DEF CallInv, TypeOK, Issuing, Passed
<1> QED BY <1>4, <1>5, <1>6, <1>7

LEMMA StoreTokenKeeps ==
  ASSUME TokenInv, NEW c \in Clients, StoreToken(c)
  PROVE  TokenInv'
<1> USE DEF TokenInv, StoreToken, Step, limitVars
<1> DEFINE k == req[c].token
<1>1. /\ k \in Tokens /\ expiry[k] = Never /\ handed[k] = Never /\ asked[k] <= clock
      /\ asked[k] + Life <= read[c] /\ read[c] <= clock + Life /\ read[c] \in Expiries
      /\ \A d \in Clients : pc[d] \in Issuing /\ req[d].token = k => d = c
  BY CallTypes DEF IssueInv, TypeOK, Issuing
<1>2. expiry' = [expiry EXCEPT ![k] = read[c]] /\ UNCHANGED <<req, read, began, asked, handed, clock, limits>>
  BY DEF k
<1>4. TypeOK'
  BY <1>1, <1>2 DEF TypeOK, Limited, Full
<1>5. LifeInv'
  BY <1>1, <1>2, Times0 DEF LifeInv, TypeOK
<1>6. IssueInv'
  BY <1>1, <1>2, Times0, CallTypes DEF IssueInv, TypeOK, Issuing
<1>7. CallInv'
  BY <1>1, <1>2, Times0, CallTypes DEF CallInv, TypeOK, Issuing, Passed
<1> QED BY <1>4, <1>5, <1>6, <1>7

LEMMA HandTokenKeeps ==
  ASSUME TokenInv, NEW c \in Clients, HandToken(c)
  PROVE  TokenInv'
<1> USE DEF TokenInv, HandToken, Idle, Step, limitVars
<1> DEFINE k == req[c].token
<1>1. /\ k \in Tokens /\ expiry[k] = read[c] /\ asked[k] <= clock
      /\ read[c] <= clock + Life /\ read[c] \in Int
      /\ \A d \in Clients : pc[d] \in Issuing /\ req[d].token = k => d = c
  BY CallTypes, Times0 DEF IssueInv, TypeOK, Issuing
<1>2. /\ handed' = [handed EXCEPT ![k] = clock]
      /\ UNCHANGED <<expiry, asked, clock, limits, bucket, total, before>>
  BY DEF k
<1>3. clock \in Expiries /\ 0 \in Times
  BY Times0 DEF Times, TypeOK, Expiries
<1>4. TypeOK'
  BY <1>1, <1>2, <1>3, Times0 DEF TypeOK, Limited, Full
<1>5. LifeInv'
  BY <1>1, <1>2, Times0 DEF LifeInv, TypeOK
<1>6. IssueInv'
  BY <1>1, <1>2, Times0, CallTypes DEF IssueInv, TypeOK, Issuing
<1>7. CallInv'
  BY <1>1, <1>2, Times0, CallTypes DEF CallInv, TypeOK, Issuing, Passed
<1> QED BY <1>4, <1>5, <1>6, <1>7

LEMMA ArriveKeeps ==
  ASSUME TokenInv, NEW c \in Clients, NEW r \in Calls, Arrive(c, r)
  PROVE  TokenInv'
<1> USE DEF TokenInv, Arrive, Step, limitVars, tokenVars
<1>1. clock \in Times /\ 0 \in Times
  BY Times0 DEF TypeOK, Times
<1>4. TypeOK'
  BY <1>1 DEF TypeOK, Limited, Full
<1>5. LifeInv'
  BY DEF LifeInv
<1>6. IssueInv'
  BY CallTypes DEF IssueInv, TypeOK, Issuing
<1>7. CallInv'
  BY Times0, CallTypes DEF CallInv, TypeOK, Issuing, Passed
<1> QED BY <1>4, <1>5, <1>6, <1>7

\* A step of a request that reads and writes nothing but its own state, and
\* has no token or passes none on.
LEMMA MoveKeeps ==
  ASSUME TokenInv, NEW c \in Clients, NEW from, NEW to, Step(c, from, to),
         from \in {"auth", "compare", "limit"}, to \in {"limit", "served", "401", "429"},
         UNCHANGED <<clock, limits, req, read, began, tokenVars>>,
         (req[c].token \in Tokens /\ to \in Passed)
            => expiry[req[c].token] # Never /\ began[c] < expiry[req[c].token],
         (req[c].token \in Tokens /\ to = "401" /\ handed[req[c].token] < began[c])
            => clock >= asked[req[c].token] + Life
  PROVE  LifeInv' /\ IssueInv' /\ CallInv'
<1> USE DEF TokenInv, Step, tokenVars
<1>1. LifeInv'
  BY DEF LifeInv
<1>2. IssueInv'
  BY DEF IssueInv, TypeOK, Issuing
<1>3. CallInv'
  BY DEF CallInv, TypeOK, Issuing, Passed
<1> QED BY <1>1, <1>2, <1>3

LEMMA CheckBasicKeeps ==
  ASSUME TokenInv, NEW c \in Clients, CheckBasic(c)
  PROVE  TokenInv'
<1> USE DEF TokenInv, CheckBasic, Refused, Step, limitVars
<1>1. req[c].token = NoToken
  BY CallTypes DEF CallInv, Issuing
<1>2. TypeOK'
  BY DEF TypeOK, Limited, Full, tokenVars
<1>3. LifeInv' /\ IssueInv' /\ CallInv'
  BY <1>1, MoveKeeps, CallTypes
<1> QED BY <1>2, <1>3

LEMMA LookUpKeeps ==
  ASSUME TokenInv, NEW c \in Clients, LookUp(c)
  PROVE  TokenInv'
<1> DEFINE k == req[c].token
<1>1. pc[c] = "auth" /\ k \in Tokens
  BY CallTypes DEF LookUp, Refused, Step, TokenInv, CallInv, Issuing
<1>2. CASE expiry[k] = Never
  <2>1. Refused(c)
    BY <1>2 DEF LookUp
  <2>2. TypeOK'
    BY <2>1 DEF TokenInv, TypeOK, Refused, Step, Limited, Full, tokenVars, limitVars
  <2>3. ~(handed[k] < began[c])
    BY <1>1, <1>2, Times0 DEF TokenInv, LifeInv, TypeOK
  <2> QED BY <2>1, <2>2, <2>3, MoveKeeps DEF TokenInv, Refused, Passed
<1>3. CASE expiry[k] # Never
  <2> USE DEF TokenInv, Step, limitVars, tokenVars
  <2>1. /\ pc' = [pc EXCEPT ![c] = "compare"] /\ read' = [read EXCEPT ![c] = expiry[k]]
        /\ UNCHANGED <<clock, limits, req, began, expiry, asked, handed, bucket, total, before>>
    BY <1>3 DEF LookUp
  <2>2. expiry[k] \in Expiries
    BY <1>1 DEF TypeOK
  <2>3. TypeOK'
    BY <2>1, <2>2 DEF TypeOK, Limited, Full
  <2>4. LifeInv'
    BY <2>1 DEF LifeInv
  <2>5. IssueInv'
    BY <1>1, <2>1 DEF IssueInv, TypeOK, Issuing
  <2>6. CallInv'
    BY <1>1, <1>3, <2>1 DEF CallInv, TypeOK, Issuing, Passed
  <2> QED BY <2>3, <2>4, <2>5, <2>6
<1> QED BY <1>2, <1>3

LEMMA CompareKeeps ==
  ASSUME TokenInv, NEW c \in Clients, Compare(c)
  PROVE  TokenInv'
<1> DEFINE k == req[c].token
<1> USE DEF TokenInv, limitVars
<1>1. /\ k \in Tokens /\ expiry[k] # Never /\ read[c] = expiry[k]
      /\ began[c] <= clock /\ asked[k] + Life <= expiry[k]
      /\ handed[k] \in Int /\ began[c] \in Int /\ expiry[k] \in Int /\ clock \in Int /\ asked[k] + Life \in Int
  BY Times0 DEF Compare, Step, CallInv, LifeInv, TypeOK
<1>2. TypeOK'
  BY DEF TypeOK, Compare, Step, Limited, Full, tokenVars
<1>3. CASE Valid(c)
  <2>1. began[c] < expiry[k]
    BY <1>1, <1>3 DEF Valid
  <2> QED BY <1>1, <1>2, <1>3, <2>1, MoveKeeps DEF Compare
<1>4. CASE ~Valid(c)
  <2>1. clock >= asked[k] + Life
    BY <1>1, <1>4 DEF Valid
  <2> QED BY <1>2, <1>4, <2>1, MoveKeeps DEF Compare, Passed
<1> QED BY <1>3, <1>4

\* An answer forgets the request.
LEMMA AnswerKeeps ==
  ASSUME TokenInv, NEW c \in Clients, Answer(c)
  PROVE  TokenInv'
<1> USE DEF TokenInv, Answer, Idle, Step, limitVars, tokenVars
<1>1. 0 \in Times /\ Never \in Expiries
  BY Times0 DEF TypeOK, Times
<1>4. TypeOK'
  BY <1>1 DEF TypeOK, Limited, Full
<1>5. LifeInv'
  BY DEF LifeInv
<1>6. IssueInv'
  BY CallTypes DEF IssueInv, TypeOK, Issuing
<1>7. CallInv'
  BY Times0, CallTypes DEF CallInv, TypeOK, Issuing, Passed
<1> QED BY <1>4, <1>5, <1>6, <1>7

-----------------------------------------------------------------------------
(* Buckets. *)

\* The group of a limiter is limited to a whole number of ticks' worth.
LEMMA BucketTypes ==
  ASSUME TypeOK, NEW g \in Groups, Limited(g)
  PROVE  /\ Period \in Int /\ Period > 0
         /\ limits[g].rate \in Int /\ limits[g].rate > 0
         /\ Full(g) \in Int /\ bucket[g] \in Int /\ 0 <= bucket[g] /\ bucket[g] <= Full(g)
         /\ total[g] \in Int
         /\ \A s \in 0..clock : before[g][s] \in Int
<1>1. limits[g] \in [rate : Int, burst : Int] /\ Period \in Nat \ {0}
  BY GatewayData DEF TypeOK
<1>2. Full(g) \in Int
  BY <1>1 DEF Full
<1>3. \A s \in 0..clock : s \in Times
  BY Times0 DEF Times, TypeOK
<1> QED BY <1>1, <1>2, <1>3 DEF TypeOK, Limited

\* One request more is one Period more, one tick more is one rate more.
LEMMA Distribute == \A x, y, z \in Int : x * (y + 1 - z) = x * (y - z) + x
OBVIOUS

\* No time brings nothing.
LEMMA TimesZero == \A x, y \in Int : x * (y - y) = 0
OBVIOUS

LEMMA TickType == ASSUME TypeOK, Tick PROVE TypeOK'
<1> USE DEF Tick, threadVars, tokenVars
<1>1. clock' \in Times /\ clock + 1 \in Times
  BY Times0 DEF TypeOK, Times
<1>2. ASSUME NEW g \in Groups, Limited(g)'
      PROVE  limits'[g].burst >= 1 /\ bucket'[g] \in 0..Full(g)'
  <2>1. Limited(g) /\ Full(g)' = Full(g)
    BY <1>2 DEF Limited, Full
  <2>2. bucket'[g] = Refill(g)
    BY <2>1
  <2>3. Refill(g) \in 0..Full(g)
    BY <2>1, BucketTypes DEF Refill
  <2> QED BY <2>1, <2>2, <2>3 DEF TypeOK
<1>3. before' \in [Groups -> [Times -> Nat]]
  BY <1>1 DEF TypeOK
<1> QED BY <1>1, <1>2, <1>3 DEF TypeOK

LEMMA TickBucket == ASSUME TypeOK, BucketInv, Tick PROVE BucketInv'
<1> SUFFICES ASSUME NEW g \in Groups, Limited(g)'
             PROVE  /\ \A s \in 0..clock' : Spent(g, s)' <= Brought(g, s)'
                    /\ \E s \in 0..clock' : Spent(g, s)' = Brought(g, s)'
  BY DEF BucketInv
<1>1. /\ Limited(g) /\ Full(g)' = Full(g) /\ limits' = limits /\ total' = total
      /\ clock' = clock + 1 /\ bucket'[g] = Refill(g) /\ clock + 1 \in Times
      /\ clock \in Int /\ 0 <= clock
  BY Times0 DEF Tick, Limited, Full, TypeOK, Times
<1>2. ASSUME NEW s \in 0..clock
      PROVE  /\ Brought(g, s)' = Brought(g, s) + limits[g].rate
             /\ Spent(g, s)' = Spent(g, s) + bucket'[g] - bucket[g]
             /\ Spent(g, s) \in Int /\ Brought(g, s) \in Int
  <2>1. before'[g][s] = before[g][s]
    BY <1>1 DEF Tick, TypeOK, Times
  <2>2. limits[g].rate * (clock + 1 - s) = limits[g].rate * (clock - s) + limits[g].rate
    BY <1>1, BucketTypes, Distribute
  <2>3. /\ limits[g].rate * (clock - s) \in Int
        /\ Period * (total[g] - before[g][s]) \in Int
    BY <1>1, BucketTypes
  <2>4. bucket'[g] \in Int
    BY <1>1, BucketTypes DEF Refill
  <2> QED BY <1>1, <2>1, <2>2, <2>3, <2>4, BucketTypes DEF Spent, Brought
<1> PICK now \in Times : now = clock + 1
  BY <1>1
<1>3. Spent(g, now)' = bucket'[g] /\ Brought(g, now)' = Full(g)
  <2>1. before'[g][now] = total[g]
    BY <1>1 DEF Tick, TypeOK
  <2>2. Period * (total[g] - total[g]) = 0 /\ limits[g].rate * (now - now) = 0
    BY <1>1, BucketTypes, TimesZero
  <2>3. bucket'[g] \in Int
    BY <1>1, BucketTypes DEF Refill
  <2>4. Spent(g, now)' = Period * (total[g] - total[g]) + bucket'[g]
    BY <1>1, <2>1 DEF Spent
  <2>5. Brought(g, now)' = Full(g) + limits[g].rate * (now - now)
    BY <1>1 DEF Brought
  <2> QED BY <1>1, <2>2, <2>3, <2>4, <2>5, BucketTypes
<1>4. bucket'[g] <= bucket[g] + limits[g].rate /\ bucket'[g] <= Full(g)
  BY <1>1, BucketTypes DEF Refill
<1>5. \A s \in 0..clock' : s \in 0..clock \/ s = now
  BY <1>1
<1>6. \A s \in 0..clock : Spent(g, s) <= Brought(g, s)
  BY <1>1 DEF BucketInv
<1>7. ASSUME NEW s \in 0..clock
      PROVE  Spent(g, s)' <= Brought(g, s)'
  <2>1. bucket'[g] \in Int /\ bucket[g] \in Int /\ limits[g].rate \in Int
    BY <1>1, BucketTypes DEF Refill
  <2> QED BY <1>2, <1>4, <1>6, <2>1
<1>8. \A s \in 0..clock' : Spent(g, s)' <= Brought(g, s)'
  BY <1>3, <1>4, <1>5, <1>7
<1>9. \E s \in 0..clock' : Spent(g, s)' = Brought(g, s)'
  <2>1. CASE bucket'[g] = Full(g)
    <3>1. now \in 0..clock'
      BY <1>1
    <3> QED BY <1>3, <2>1, <3>1
  <2>2. CASE bucket'[g] = bucket[g] + limits[g].rate
    <3>1. PICK s \in 0..clock : Spent(g, s) = Brought(g, s)
      BY <1>1 DEF BucketInv
    <3>2. Spent(g, s)' = Brought(g, s)'
      BY <1>2, <2>2, <3>1, <1>1, BucketTypes
    <3>3. s \in 0..clock'
      BY <1>1
    <3> QED BY <3>2, <3>3
  <2> QED BY <1>1, <2>1, <2>2 DEF Refill
<1> QED BY <1>8, <1>9

\* The steps that pass no limiter.
LEMMA StillBucket ==
  ASSUME BucketInv, UNCHANGED <<clock, limits, limitVars>>
  PROVE  BucketInv'
BY DEF BucketInv, Spent, Brought, Limited, Full, limitVars

LEMMA LimitKeeps ==
  ASSUME GatewayInv, NEW c \in Clients, Limit(c)
  PROVE  GatewayInv'
<1> USE DEF GatewayInv
<1> DEFINE passing == {g \in Limiter(req[c].route) : Limited(g)}
           refused == \E g \in passing : bucket[g] < Period
<1>1. /\ UNCHANGED <<clock, limits, req, read, began, tokenVars, before>>
      /\ Step(c, "limit", IF refused THEN "429" ELSE "served")
      /\ refused => UNCHANGED <<bucket, total>>
      /\ ~refused => /\ bucket' = [g \in Groups |-> IF g \in passing THEN bucket[g] - Period ELSE bucket[g]]
                     /\ total' = [g \in Groups |-> IF g \in passing THEN total[g] + 1 ELSE total[g]]
  BY DEF Limit, Limiter
<1>2. LifeInv' /\ IssueInv' /\ CallInv'
  <2>1. (req[c].token \in Tokens)
            => expiry[req[c].token] # Never /\ began[c] < expiry[req[c].token]
    BY <1>1 DEF CallInv, Passed, Step
  <2> QED BY <1>1, <2>1, MoveKeeps DEF TokenInv
<1>3. ASSUME NEW g \in Groups, Limited(g), ~refused
      PROVE  \/ g \in passing /\ bucket[g] >= Period /\ bucket'[g] = bucket[g] - Period
                /\ total'[g] = total[g] + 1
             \/ bucket'[g] = bucket[g] /\ total'[g] = total[g]
  <2>1. g \in passing => bucket[g] >= Period
    BY <1>3, BucketTypes
  <2> QED BY <1>1, <1>3, <2>1
<1>4. TypeOK'
  <2>1. ASSUME NEW g \in Groups, Limited(g)'
        PROVE  limits'[g].burst >= 1 /\ bucket'[g] \in 0..Full(g)'
    <3>1. Limited(g) /\ Full(g)' = Full(g) /\ limits' = limits
      BY <1>1, <2>1 DEF Limited, Full
    <3>2. bucket'[g] \in 0..Full(g)
      BY <1>1, <1>3, <3>1, BucketTypes
    <3> QED BY <3>1, <3>2 DEF TypeOK
  <2>2. total' \in [Groups -> Nat]
    BY <1>1 DEF TypeOK
  <2>3. pc' \in [Clients -> {"idle", "auth", "compare", "limit", "served", "401", "429",
                             "stamp", "store", "issued"}]
    BY <1>1 DEF TypeOK, Step
  <2> QED BY <1>1, <2>1, <2>2, <2>3 DEF TypeOK, tokenVars
<1>5. BucketInv'
  <2>1. ASSUME NEW g \in Groups, Limited(g)
        PROVE  /\ \A s \in 0..clock : Spent(g, s)' = Spent(g, s)
               /\ \A s \in 0..clock : Brought(g, s)' = Brought(g, s)
    <3>1. ASSUME NEW s \in 0..clock
          PROVE  Spent(g, s)' = Spent(g, s)
      <4>1. Period * (total[g] + 1 - before[g][s]) = Period * (total[g] - before[g][s]) + Period
        BY <2>1, BucketTypes, Distribute
      <4>2. Period * (total[g] - before[g][s]) \in Int
        BY <2>1, BucketTypes
      <4> QED BY <1>1, <1>3, <2>1, <4>1, <4>2, BucketTypes DEF Spent
    <3> QED BY <1>1, <3>1 DEF Brought, Full
  <2> QED BY <1>1, <2>1 DEF BucketInv, Limited
<1> QED BY <1>2, <1>4, <1>5

-----------------------------------------------------------------------------
(* The invariant and what follows from it. *)

LEMMA InitKeeps == Init => GatewayInv
<1> SUFFICES ASSUME Init PROVE GatewayInv
  OBVIOUS
<1> USE DEF Init
<1>1. PICK f \in RateFiles : limits = [g \in Groups |-> RateLimit(f[g])]
  OBVIOUS
<1>2. \A g \in Groups : limits[g] \in [rate : Int, burst : Int] /\ (Limited(g) => limits[g].burst >= 1)
  BY <1>1, GatewayData, RateLimitType DEF Limited
<1>3. /\ 0 \in Times /\ Never \in Expiries /\ Period \in Nat \ {0} /\ Never \in Int
      /\ Life \in Int /\ Never > 0
  BY GatewayData DEF Times, Expiries, Never
<1>4. \A g \in Groups : Limited(g) => Full(g) \in Int /\ Full(g) >= 0
  BY <1>2, <1>3 DEF Full
<1>5. TypeOK
  <2>1. limits \in [Groups -> [rate : Int, burst : Int]]
    BY <1>1, <1>2
  <2> QED BY <1>2, <1>3, <1>4, <2>1 DEF TypeOK
<1>6. LifeInv /\ IssueInv
  BY DEF LifeInv, IssueInv, Issuing
<1>7. CallInv
  BY CallTypes DEF CallInv, Issuing, Passed
<1>8. BucketInv
  <2>1. ASSUME NEW g \in Groups, Limited(g)
        PROVE  Spent(g, 0) = Full(g) /\ Brought(g, 0) = Full(g) /\ Full(g) \in Int
    <3>1. Period * (0 - 0) = 0 /\ limits[g].rate * (0 - 0) = 0
      BY <1>2, <1>3, TimesZero
    <3> QED BY <1>3, <1>4, <2>1, <3>1 DEF Spent, Brought
  <2>2. 0..clock = {0}
    OBVIOUS
  <2> QED BY <2>1, <2>2 DEF BucketInv
<1> QED BY <1>5, <1>6, <1>7, <1>8 DEF GatewayInv

LEMMA NextKeeps == GatewayInv /\ [Next]_vars => GatewayInv'
<1> SUFFICES ASSUME GatewayInv, [Next]_vars PROVE GatewayInv'
  OBVIOUS
<1> USE DEF GatewayInv
<1>1. TokenInv
  BY DEF TokenInv
<1>2. CASE Tick
  BY <1>1, <1>2, TickToken, TickType, TickBucket
<1>3. ASSUME NEW c \in Clients, NEW r \in Issues, AskToken(c, r) PROVE GatewayInv'
  BY <1>1, <1>3, AskTokenKeeps, StillBucket DEF AskToken, TokenInv
<1>4. CASE \E c \in Clients : Stamp(c)
  BY <1>1, <1>4, StampKeeps, StillBucket DEF Stamp, TokenInv
<1>5. CASE \E c \in Clients : StoreToken(c)
  BY <1>1, <1>5, StoreTokenKeeps, StillBucket DEF StoreToken, TokenInv
<1>6. CASE \E c \in Clients : HandToken(c)
  BY <1>1, <1>6, HandTokenKeeps, StillBucket DEF HandToken, TokenInv
<1>7. ASSUME NEW c \in Clients, NEW r \in Calls, Arrive(c, r) PROVE GatewayInv'
  BY <1>1, <1>7, ArriveKeeps, StillBucket DEF Arrive, TokenInv
<1>8. CASE \E c \in Clients : CheckBasic(c)
  BY <1>1, <1>8, CheckBasicKeeps, StillBucket DEF CheckBasic, Refused, TokenInv
<1>9. CASE \E c \in Clients : LookUp(c)
  BY <1>1, <1>9, LookUpKeeps, StillBucket DEF LookUp, Refused, TokenInv
<1>10. CASE \E c \in Clients : Compare(c)
  BY <1>1, <1>10, CompareKeeps, StillBucket DEF Compare, TokenInv
<1>11. CASE \E c \in Clients : Limit(c)
  BY <1>11, LimitKeeps
<1>12. CASE \E c \in Clients : Answer(c)
  BY <1>1, <1>12, AnswerKeeps, StillBucket DEF Answer, TokenInv
<1>13. CASE UNCHANGED vars
  BY <1>13 DEF vars, threadVars, tokenVars, limitVars, TypeOK, LifeInv, IssueInv, CallInv, BucketInv,
               Spent, Brought, Limited, Full
<1> QED BY <1>2, <1>3, <1>4, <1>5, <1>6, <1>7, <1>8, <1>9, <1>10, <1>11, <1>12, <1>13 DEF Next

\* In every reachable state the tokens that are out, what each request knows of
\* its own and what the buckets have paid for agree.
THEOREM GatewayInvariant == Spec => []GatewayInv
<1> QED BY InitKeeps, NextKeeps, PTL DEF Spec

\* The state of the gateway has its type: a bucket is between empty and full.
THEOREM TypeCorrect == Spec => []TypeOK
<1>1. GatewayInv => TypeOK
  BY DEF GatewayInv
<1> QED BY <1>1, GatewayInvariant, PTL

\* A token lives for the time that its client was told, whatever the order in
\* which requests, answers and the clock move.
THEOREM TokensLive == Spec => []TokensLiveTheirLife
<1>1. GatewayInv => TokensLiveTheirLife
  <2> SUFFICES ASSUME GatewayInv, NEW c \in Clients, req[c].token # NoToken
               PROVE  LET k == req[c].token
                      IN  /\ pc[c] = "401" /\ handed[k] < began[c] => clock >= asked[k] + Life
                          /\ pc[c] \in Passed /\ handed[k] # Never => began[c] < handed[k] + Life
    BY DEF TokensLiveTheirLife, Passed
  <2> DEFINE k == req[c].token
  <2>1. k \in Tokens
    BY CallTypes DEF GatewayInv, TypeOK
  <2>2. pc[c] = "401" /\ handed[k] < began[c] => clock >= asked[k] + Life
    BY <2>1 DEF GatewayInv, CallInv
  <2>3. ASSUME pc[c] \in Passed, handed[k] # Never PROVE began[c] < handed[k] + Life
    <3>1. began[c] < expiry[k] /\ expiry[k] <= handed[k] + Life
      BY <2>1, <2>3 DEF GatewayInv, CallInv, LifeInv
    <3>2. began[c] \in Int /\ expiry[k] \in Int /\ handed[k] + Life \in Int
      BY <2>1, Times0 DEF GatewayInv, TypeOK
    <3> QED BY <3>1, <3>2
  <2> QED BY <2>2, <2>3
<1> QED BY <1>1, GatewayInvariant, PTL

\* No span of time admits more of a group than the burst and the rate allow.
THEOREM AdmitsInRate == Spec => []AdmitsWithinRate
<1>1. GatewayInv => AdmitsWithinRate
  <2> SUFFICES ASSUME GatewayInv, NEW g \in Groups, Limited(g), NEW s \in 0..clock
               PROVE  Period * (total[g] - before[g][s]) <= Full(g) + limits[g].rate * (clock - s)
    BY DEF AdmitsWithinRate
  <2>1. Spent(g, s) <= Brought(g, s)
    BY DEF GatewayInv, BucketInv
  <2>2. /\ Period * (total[g] - before[g][s]) \in Int /\ bucket[g] \in Int /\ bucket[g] >= 0
        /\ Full(g) + limits[g].rate * (clock - s) \in Int
    BY BucketTypes, Times0 DEF GatewayInv
  <2> QED BY <2>1, <2>2 DEF Spent, Brought
<1> QED BY <1>1, GatewayInvariant, PTL

\* A request is refused by a limiter only when its group has used up what some
\* span of time until now allows.
THEOREM RefusesSpent == Spec => RefusesOnlySpent
<1> DEFINE Over(g, s) == Period * (total[g] - before[g][s] + 1) > Full(g) + limits[g].rate * (clock - s)
           Refusal == \A c \in Clients : pc[c] = "limit" /\ pc'[c] = "429" =>
                          \E g \in Limiter(req[c].route), s \in 0..clock : Over(g, s)
<1>1. GatewayInv /\ [Next]_vars => [Refusal]_vars
  <2> SUFFICES ASSUME GatewayInv, Next, NEW c \in Clients, pc[c] = "limit", pc'[c] = "429"
               PROVE  \E g \in Limiter(req[c].route), s \in 0..clock : Over(g, s)
    OBVIOUS
  <2>1. Limit(c)
    <3> USE DEF GatewayInv, TypeOK
    <3>1. ~Tick
      BY DEF Tick, threadVars
    <3>2. \A d \in Clients, r \in Issues : ~AskToken(d, r)
      BY DEF AskToken, Step
    <3>3. \A d \in Clients : ~Stamp(d) /\ ~StoreToken(d)
      BY DEF Stamp, StoreToken, Step
    <3>4. \A d \in Clients : ~HandToken(d) /\ ~Answer(d)
      BY DEF HandToken, Answer, Idle, Step
    <3>5. \A d \in Clients, r \in Calls : ~Arrive(d, r)
      BY DEF Arrive, Step
    <3>6. \A d \in Clients : ~CheckBasic(d) /\ ~LookUp(d) /\ ~Compare(d)
      BY DEF CheckBasic, LookUp, Compare, Refused, Step
    <3>7. \A d \in Clients : Limit(d) => d = c
      BY DEF Limit, Step
    <3> QED BY <3>1, <3>2, <3>3, <3>4, <3>5, <3>6, <3>7 DEF Next
  <2>2. PICK g \in Limiter(req[c].route) : Limited(g) /\ bucket[g] < Period
    BY <2>1 DEF Limit, Step, GatewayInv, TypeOK
  <2>3. g \in Groups
    BY DEF Limiter, Group, Groups
  <2>4. PICK s \in 0..clock : Spent(g, s) = Brought(g, s)
    BY <2>2, <2>3 DEF GatewayInv, BucketInv
  <2>5. /\ total[g] \in Int /\ before[g][s] \in Int /\ Period \in Int /\ bucket[g] \in Int
        /\ Period * (total[g] - before[g][s]) \in Int
        /\ Full(g) + limits[g].rate * (clock - s) \in Int
    BY <2>2, <2>3, BucketTypes, Times0 DEF GatewayInv
  <2>6. Period * (total[g] - before[g][s] + 1) = Period * (total[g] - before[g][s]) + Period
    BY <2>5
  <2>7. Over(g, s)
    BY <2>2, <2>4, <2>5, <2>6 DEF Spent, Brought
  <2> QED BY <2>7
<1> QED BY <1>1, GatewayInvariant, PTL DEF Spec, RefusesOnlySpent
=============================================================================
