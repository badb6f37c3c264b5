------------------------- MODULE RateLimiter_proofs -------------------------
(***************************************************************************)
(* The bound of the token bucket and the honesty of Retry-After, for any   *)
(* rate, burst, clients and moments of their requests.                     *)
(***************************************************************************)
EXTENDS RateLimiter, TLAPS

\* The smaller of two numbers.
LEMMA MinOfTwo ==
    ASSUME NEW a \in Int, NEW b \in Int
    PROVE  Min({a, b}) = IF a <= b THEN a ELSE b
<1> DEFINE m == IF a <= b THEN a ELSE b
<1>1. m \in {a, b} /\ \A y \in {a, b} : m <= y
  OBVIOUS
<1>2. \A x \in {a, b} : (\A y \in {a, b} : x <= y) => x = m
  OBVIOUS
<1> QED BY <1>1, <1>2 DEF Min

\* Whole numbers times whole numbers, for the leaves that multiply.
LEMMA Products ==
    ASSUME NEW a \in Int, NEW b \in Int, NEW c \in Int
    PROVE  /\ a * c \in Int /\ b * c \in Int
           /\ (a + b) * c = a * c + b * c
           /\ (a - b) * c = a * c - b * c
           /\ a <= b /\ c >= 0 => a * c <= b * c
OBVIOUS

\* Waiting as long as Retry-After says brings what a token lacks, and not to
\* be told to come before now.
LEMMA RetryIsEnough ==
    ASSUME NEW units \in Int, units < Cost
    PROVE  /\ RetryAfter(units) \in Nat
           /\ units + RetryAfter(units) * Rate >= Cost
<1> DEFINE d == Cost - units
<1>1. d \in Nat /\ Rate \in Nat \ {0} /\ Cost \in Nat
  BY LimiterAssumption
<1>2. d \div Rate \in Nat /\ (d \div Rate + 1) * Rate >= d
  BY <1>1
<1> QED BY <1>1, <1>2 DEF RetryAfter

-----------------------------------------------------------------------------
\* A grant at moment g, with n grants since and itself included, when the
\* bucket holds units and was last refilled at moment l.
Accounted(n, units, l, g) == n * Cost + units <= Full + (l - g) * Rate

\* What the bucket owes: since each grant, the tokens taken and those left are
\* no more than the burst and what was added.
BucketInv ==
    \A k \in Keys :
        /\ last[k] <= now
        /\ k \notin used => granted[k] = <<>> /\ told[k] = {}
        /\ \A i \in DOMAIN granted[k] :
             /\ granted[k][i] <= last[k]
             /\ Accounted(Len(granted[k]) - i + 1, tokens[k], last[k], granted[k][i])

\* At each moment a client was told of, its bucket will hold a token.
ToldInv ==
    \A k \in Keys : \A due \in told[k] : tokens[k] + (due - last[k]) * Rate >= Cost

Inv == TypeOK /\ BucketInv /\ WindowBound /\ ToldInv

\* A full bucket holds a token at least.
LEMMA FullType == Full \in Int /\ Cost <= Full /\ Cost \in Nat \ {0} /\ Rate \in Nat \ {0}
<1>1. Burst \in Nat \ {0} /\ Cost \in Nat \ {0} /\ Rate \in Nat \ {0}
  BY LimiterAssumption
<1>2. 1 * Cost <= Burst * Cost
  BY <1>1, Products
<1> QED BY <1>1, <1>2 DEF Full

\* What a request finds in the bucket: at most Full, and no more than the
\* clock has added since the last refill.
LEMMA RefilledBound ==
    ASSUME Inv, NEW k \in Keys, NEW lag \in 0..MaxLag
    PROVE  /\ Refilled(k, lag) \in Int /\ Refilled(k, lag) <= Full
           /\ (now - last[k]) * Rate \in Nat
           /\ k \in used => Refilled(k, lag) <= tokens[k] + (now - last[k]) * Rate
           /\ k \in used /\ Refilled(k, lag) < Full =>
                Refilled(k, lag) = tokens[k] + (now - last[k]) * Rate
<1> DEFINE added == (now - last[k]) * Rate
<1>1. now \in Nat /\ last[k] \in Nat /\ last[k] <= now /\ tokens[k] \in Int
  BY DEF Inv, TypeOK, BucketInv
<1>2. Full \in Int /\ Rate \in Nat /\ lag \in Nat
  BY FullType, LimiterAssumption
<1>3. added \in Nat /\ lag * Rate \in Nat
  <2>1. 0 * Rate <= (now - last[k]) * Rate
    BY <1>1, <1>2, Products
  <2>2. 0 * Rate <= lag * Rate
    BY <1>2, Products
  <2> QED BY <1>1, <1>2, <2>1, <2>2, Products
<1> HIDE DEF added
<1>4. CASE k \in used
  <2> DEFINE sum == tokens[k] + added
  <2>1. Refilled(k, lag) = Min({Full, sum})
    BY <1>4 DEF Refilled, added
  <2>2. sum \in Int
    BY <1>1, <1>3
  <2> HIDE DEF sum
  <2>3. Refilled(k, lag) = IF Full <= sum THEN Full ELSE sum
    BY <1>2, <2>1, <2>2, MinOfTwo
  <2> QED BY <1>2, <1>3, <1>4, <2>2, <2>3 DEF sum, added
<1>5. CASE k \notin used
  <2>1. Refilled(k, lag) = Full - lag * Rate
    BY <1>5 DEF Refilled
  <2> DEFINE taken == lag * Rate
  <2>2. taken \in Nat /\ Refilled(k, lag) = Full - taken
    BY <1>3, <2>1
  <2> HIDE DEF taken
  <2>3. Refilled(k, lag) \in Int /\ Refilled(k, lag) <= Full
    BY <1>2, <2>2
  <2> QED BY <1>3, <1>5, <2>3 DEF added
<1> QED BY <1>4, <1>5

\* An empty middleware: every bucket is full and nobody was let through.
LEMMA InitInv == Init => Inv
BY FullType, LimiterAssumption
   DEF Init, Inv, TypeOK, BucketInv, WindowBound, ToldInv

\* Time passes: nothing of the bucket changes.
LEMMA TickInv == ASSUME Inv, Tick PROVE Inv'
<1>1. now \in Nat /\ now' = now + 1 /\ UNCHANGED <<tokens, last, used, granted, told>>
  BY DEF Inv, TypeOK, Tick
<1>2. TypeOK'
  BY <1>1 DEF Inv, TypeOK
<1>3. BucketInv'
  BY <1>1 DEF Inv, TypeOK, BucketInv, Accounted
<1>4. WindowBound' /\ ToldInv'
  BY <1>1 DEF Inv, WindowBound, ToldInv
<1> QED BY <1>2, <1>3, <1>4 DEF Inv

\* After a request of k the earlier grants of k are accounted for with what the
\* request found and the present moment.
LEMMA StillAccounted ==
    ASSUME Inv, NEW k \in Keys, NEW lag \in 0..MaxLag, NEW i \in DOMAIN granted[k]
    PROVE  /\ granted[k][i] \in Nat /\ granted[k][i] <= now
           /\ Accounted(Len(granted[k]) - i + 1, Refilled(k, lag), now, granted[k][i])
<1> DEFINE g == granted[k][i]
           n == Len(granted[k]) - i + 1
<1>1. granted[k] \in Seq(Nat) /\ now \in Nat /\ last[k] \in Nat /\ tokens[k] \in Int
  BY DEF Inv, TypeOK
<1>2. i \in Nat /\ g \in Nat /\ n \in Nat
  BY <1>1
<1>3. k \in used
  BY DEF Inv, BucketInv
<1>4. g <= last[k] /\ last[k] <= now /\ Accounted(n, tokens[k], last[k], g)
  BY DEF Inv, BucketInv
<1>5. Refilled(k, lag) \in Int /\ Refilled(k, lag) <= tokens[k] + (now - last[k]) * Rate
  BY <1>3, RefilledBound
<1>6. (now - g) * Rate = (now - last[k]) * Rate + (last[k] - g) * Rate
  <2>1. now - g = (now - last[k]) + (last[k] - g)
    BY <1>1, <1>2
  <2>2. now - last[k] \in Int /\ last[k] - g \in Int /\ Rate \in Int
    BY <1>1, <1>2, FullType
  <2> QED BY <2>1, <2>2, Products
<1>7. /\ n * Cost \in Int /\ Full \in Int
      /\ (now - last[k]) * Rate \in Int /\ (last[k] - g) * Rate \in Int
  BY SMTT(30), <1>1, <1>2, FullType, Products
<1> HIDE DEF g, n
<1>8. Accounted(n, Refilled(k, lag), now, g)
  <2> DEFINE taken == n * Cost
             since == (last[k] - g) * Rate
             added == (now - last[k]) * Rate
             total == (now - g) * Rate
  <2>1. taken + tokens[k] <= Full + since
    BY <1>4 DEF Accounted
  <2>2. Refilled(k, lag) <= tokens[k] + added /\ Refilled(k, lag) \in Int /\ total = added + since
    BY <1>5, <1>6
  <2>3. taken \in Int /\ since \in Int /\ added \in Int
    BY <1>7
  <2> HIDE DEF taken, since, added, total
  <2>4. taken + Refilled(k, lag) <= Full + total
    BY <1>1, <1>7, <2>1, <2>2, <2>3
  <2> QED BY <2>4 DEF Accounted, taken, total
<1> QED BY <1>1, <1>2, <1>4, <1>8 DEF g, n

\* A request that finds a token.
LEMMA AllowInv == ASSUME Inv, NEW k \in Keys, Allow(k) PROVE Inv'
<1>1. PICK lag \in 0..MaxLag : /\ Enough(Refilled(k, lag))
                               /\ tokens' = [tokens EXCEPT ![k] = Refilled(k, lag) - Cost]
  BY DEF Allow
<1> DEFINE found == Refilled(k, lag)
           log   == granted[k]
<1>2. /\ granted' = [granted EXCEPT ![k] = Append(@, now)]
      /\ told' = [told EXCEPT ![k] = {}]
      /\ last' = [last EXCEPT ![k] = now]
      /\ used' = used \cup {k} /\ now' = now
  BY DEF Allow, Touch
<1>3. found \in Int /\ found <= Full /\ Cost <= found
  BY <1>1, RefilledBound, FullType DEF Enough
<1>4. /\ now \in Nat /\ log \in Seq(Nat)
      /\ Full \in Int /\ Cost \in Nat /\ Rate \in Nat
  BY FullType DEF Inv, TypeOK
<1>5. /\ granted'[k] = Append(log, now) /\ tokens'[k] = found - Cost
      /\ told'[k] = {} /\ last'[k] = now
      /\ \A h \in Keys \ {k} : /\ granted'[h] = granted[h] /\ tokens'[h] = tokens[h]
                               /\ told'[h] = told[h] /\ last'[h] = last[h]
  BY <1>1, <1>2 DEF Inv, TypeOK
<1>6. /\ Len(granted'[k]) = Len(log) + 1
      /\ DOMAIN granted'[k] = DOMAIN log \cup {Len(log) + 1}
      /\ granted'[k][Len(log) + 1] = now
      /\ \A i \in DOMAIN log : granted'[k][i] = log[i]
  BY <1>4, <1>5
<1> HIDE DEF found
<1>7. \A i \in DOMAIN granted'[k] :
         /\ granted'[k][i] <= now
         /\ Accounted(Len(log) + 1 - i + 1, found - Cost, now, granted'[k][i])
  <2> TAKE i \in DOMAIN granted'[k]
  <2>1. CASE i = Len(log) + 1
    <3>1. Len(log) + 1 - i + 1 = 1 /\ granted'[k][i] = now /\ now - now = 0
      BY <1>4, <1>6, <2>1
    <3>2. 1 * Cost = Cost /\ 0 * Rate = 0
      BY <1>4
    <3> QED BY <1>3, <1>4, <3>1, <3>2 DEF Accounted
  <2>2. CASE i \in DOMAIN log
    <3> DEFINE n == Len(log) - i + 1
    <3>1. log[i] <= now /\ Accounted(n, found, now, log[i])
      BY <2>2, StillAccounted DEF found
    <3>2. n \in Int /\ Len(log) + 1 - i + 1 = n + 1 /\ log[i] \in Nat
      BY <1>4, <2>2
    <3> HIDE DEF n
    <3>3. (n + 1) * Cost = n * Cost + Cost /\ n * Cost \in Int /\ (now - log[i]) * Rate \in Int
      <4>1. (n + 1) * Cost = n * Cost + 1 * Cost /\ n * Cost \in Int
        BY <1>4, <3>2, Products
      <4>2. now - log[i] \in Int
        BY <1>4, <3>2
      <4> QED BY <1>4, <4>1, <4>2, Products
    <3>4. Accounted(n + 1, found - Cost, now, log[i])
      <4> DEFINE taken == n * Cost
                 total == (now - log[i]) * Rate
      <4>1. taken + found <= Full + total /\ (n + 1) * Cost = taken + Cost
        BY <3>1, <3>3 DEF Accounted
      <4>2. taken \in Int /\ total \in Int
        BY <3>3
      <4> HIDE DEF taken, total
      <4>3. (taken + Cost) + (found - Cost) <= Full + total
        BY <1>3, <1>4, <4>1, <4>2
      <4> QED BY <4>1, <4>3 DEF Accounted, total
    <3> QED BY <1>6, <2>2, <3>1, <3>2, <3>4
  <2> QED BY <1>6, <2>1, <2>2
<1>8. TypeOK'
  <2>1. found - Cost \in Int /\ found - Cost <= Full
    BY <1>3, <1>4
  <2>2. /\ tokens' \in [Keys -> {units \in Int : units <= Full}]
        /\ now' \in Nat /\ last' \in [Keys -> Nat] /\ used' \subseteq Keys
        /\ told' \in [Keys -> SUBSET Nat]
    BY <1>1, <1>2, <2>1 DEF found, Inv, TypeOK
  <2>3. granted' \in [Keys -> Seq(Nat)]
    <3>1. Append(log, now) \in Seq(Nat)
      BY <1>4
    <3> QED BY <1>2, <3>1 DEF Inv, TypeOK
  <2> QED BY <2>2, <2>3 DEF TypeOK
<1>9. BucketInv'
  <2> SUFFICES ASSUME NEW h \in Keys
               PROVE  (/\ last[h] <= now
                       /\ h \notin used => granted[h] = <<>> /\ told[h] = {}
                       /\ \A i \in DOMAIN granted[h] :
                            /\ granted[h][i] <= last[h]
                            /\ Accounted(Len(granted[h]) - i + 1, tokens[h], last[h],
                                         granted[h][i]))'
    BY DEF BucketInv
  <2>1. CASE h = k
    <3>1. Len(granted'[k]) = Len(log) + 1 /\ last'[k] = now' /\ k \in used'
      BY <1>2, <1>5, <1>6
    <3>2. now' <= now'
      BY <1>2, <1>4
    <3>3. \A i \in DOMAIN granted'[k] :
             Accounted(Len(granted'[k]) - i + 1, found - Cost, now, granted'[k][i])
      BY <1>7, <3>1
    <3> QED BY <1>2, <1>5, <1>7, <2>1, <3>1, <3>2, <3>3 DEF Accounted, Full
  <2>2. CASE h # k
    BY <1>2, <1>5, <2>2 DEF Inv, BucketInv, Accounted
  <2> QED BY <2>1, <2>2
<1>10. WindowBound'
  <2> SUFFICES ASSUME NEW h \in Keys, NEW i \in DOMAIN granted'[h], NEW j \in DOMAIN granted'[h],
                      i <= j
               PROVE  (j - i + 1) * Cost <= Full + (granted'[h][j] - granted'[h][i]) * Rate
    BY DEF WindowBound
  <2>1. CASE h # k
    BY <1>5, <2>1 DEF Inv, WindowBound
  <2>2. CASE h = k /\ j \in DOMAIN log
    <3>1. i \in DOMAIN log
      BY <1>4, <1>6, <2>2
    <3>2. (j - i + 1) * Cost <= Full + (log[j] - log[i]) * Rate
      BY <2>2, <3>1 DEF Inv, WindowBound
    <3>3. granted'[h][i] = log[i] /\ granted'[h][j] = log[j]
      BY <1>6, <2>2, <3>1
    <3> QED BY <3>2, <3>3
  <2>3. CASE h = k /\ j = Len(log) + 1
    <3> DEFINE n == Len(log) + 1 - i + 1
    <3>1. Accounted(n, found - Cost, now, granted'[k][i])
      BY <1>7, <2>3
    <3>2. found - Cost >= 0 /\ found - Cost \in Int
      BY <1>3, <1>4
    <3>3. granted'[k][i] \in Nat /\ i \in Int /\ j \in Int
      BY <1>4, <1>6, <2>3
    <3>4. j - i + 1 = n /\ n \in Int
      BY <2>3, <3>3
    <3> HIDE DEF n
    <3>5. n * Cost \in Int /\ (now - granted'[k][i]) * Rate \in Int
      <4>1. now - granted'[k][i] \in Int
        BY <1>4, <3>3
      <4> QED BY <1>4, <3>4, <4>1, Products
    <3>6. n * Cost <= Full + (now - granted'[k][i]) * Rate
      <4> DEFINE taken == n * Cost
                 total == (now - granted'[k][i]) * Rate
      <4>1. taken + (found - Cost) <= Full + total
        BY <3>1 DEF Accounted
      <4>2. taken \in Int /\ total \in Int
        BY <3>5
      <4> HIDE DEF taken, total
      <4>3. taken <= Full + total
        BY <1>4, <3>2, <4>1, <4>2
      <4> QED BY <4>3 DEF taken, total
    <3>7. granted'[h][j] = now /\ granted'[h][i] = granted'[k][i]
      BY <1>6, <2>3
    <3> QED BY <3>6, <3>4, <3>7
  <2> QED BY <1>6, <2>1, <2>2, <2>3
<1>11. ToldInv'
  BY <1>5 DEF Inv, ToldInv
<1> QED BY <1>8, <1>9, <1>10, <1>11 DEF Inv

\* A request that finds none.
LEMMA RefuseInv == ASSUME Inv, NEW k \in Keys, Refuse(k) PROVE Inv'
<1>1. PICK lag \in 0..MaxLag :
         /\ ~Enough(Refilled(k, lag))
         /\ tokens' = [tokens EXCEPT ![k] = Refilled(k, lag)]
         /\ told' = [told EXCEPT ![k] = @ \cup {now + RetryAfter(Refilled(k, lag))}]
  BY DEF Refuse
<1> DEFINE found == Refilled(k, lag)
           wait  == RetryAfter(found)
<1>2. last' = [last EXCEPT ![k] = now] /\ used' = used \cup {k}
      /\ now' = now /\ granted' = granted
  BY DEF Refuse, Touch
<1>3. found \in Int /\ found <= Full /\ found < Cost
  BY <1>1, RefilledBound, FullType DEF Enough
<1>4. now \in Nat /\ Full \in Int /\ Cost \in Nat /\ Rate \in Nat /\ Cost <= Full
  BY FullType DEF Inv, TypeOK
<1>5. wait \in Nat /\ found + wait * Rate >= Cost
  BY <1>3, RetryIsEnough
<1>6. /\ tokens'[k] = found /\ last'[k] = now /\ told'[k] = told[k] \cup {now + wait}
      /\ \A h \in Keys \ {k} : tokens'[h] = tokens[h] /\ told'[h] = told[h] /\ last'[h] = last[h]
  BY <1>1, <1>2 DEF Inv, TypeOK
<1>7. \A i \in DOMAIN granted[k] :
         /\ granted[k][i] <= now
         /\ Accounted(Len(granted[k]) - i + 1, found, now, granted[k][i])
  BY StillAccounted
<1> HIDE DEF found, wait
<1>8. TypeOK'
  <2>1. now + wait \in Nat
    BY <1>4, <1>5
  <2>2. tokens' \in [Keys -> {units \in Int : units <= Full}]
    BY <1>1, <1>3 DEF found, Inv, TypeOK
  <2>3. told' \in [Keys -> SUBSET Nat]
    BY <1>1, <2>1 DEF found, wait, Inv, TypeOK
  <2> QED BY <1>2, <2>2, <2>3 DEF Inv, TypeOK
<1>9. BucketInv'
  <2> SUFFICES ASSUME NEW h \in Keys
               PROVE  (/\ last[h] <= now
                       /\ h \notin used => granted[h] = <<>> /\ told[h] = {}
                       /\ \A i \in DOMAIN granted[h] :
                            /\ granted[h][i] <= last[h]
                            /\ Accounted(Len(granted[h]) - i + 1, tokens[h], last[h],
                                         granted[h][i]))'
    BY DEF BucketInv
  <2>1. CASE h = k
    BY <1>2, <1>4, <1>6, <1>7, <2>1 DEF Accounted
  <2>2. CASE h # k
    BY <1>2, <1>6, <2>2 DEF Inv, BucketInv, Accounted
  <2> QED BY <2>1, <2>2
<1>10. WindowBound'
  BY <1>2 DEF Inv, WindowBound
<1>11. ToldInv'
  <2> SUFFICES ASSUME NEW h \in Keys, NEW due \in told'[h]
               PROVE  tokens'[h] + (due - last'[h]) * Rate >= Cost
    BY DEF ToldInv
  <2>1. CASE h # k
    BY <1>6, <2>1 DEF Inv, ToldInv
  <2>2. CASE h = k /\ due = now + wait
    <3>1. due - last'[h] = wait
      BY <1>4, <1>5, <1>6, <2>2
    <3> QED BY <1>5, <1>6, <2>2, <3>1
  <2>3. CASE h = k /\ due \in told[k]
    <3>1. k \in used /\ due \in Nat /\ last[k] \in Nat /\ tokens[k] \in Int
      BY <2>3 DEF Inv, TypeOK, BucketInv
    <3>2. found = tokens[k] + (now - last[k]) * Rate
      <4>1. found < Full
        BY <1>3, <1>4
      <4> QED BY <3>1, <4>1, RefilledBound DEF found
    <3>3. tokens[k] + (due - last[k]) * Rate >= Cost
      BY <2>3 DEF Inv, ToldInv
    <3>4. (due - last[k]) * Rate = (due - now) * Rate + (now - last[k]) * Rate
      <4>1. due - last[k] = (due - now) + (now - last[k])
        BY <1>4, <3>1
      <4>2. due - now \in Int /\ now - last[k] \in Int /\ Rate \in Int
        BY <1>4, <3>1
      <4> QED BY <4>1, <4>2, Products
    <3>5. (due - now) * Rate \in Int /\ (now - last[k]) * Rate \in Int
      <4>1. due - now \in Int /\ now - last[k] \in Int /\ Rate \in Int
        BY <1>4, <3>1
      <4> QED BY <4>1, Products
    <3>6. found + (due - now) * Rate >= Cost
      <4> DEFINE ahead == (due - now) * Rate
                 added == (now - last[k]) * Rate
                 total == (due - last[k]) * Rate
      <4>1. /\ found = tokens[k] + added /\ tokens[k] + total >= Cost /\ total = ahead + added
            /\ ahead \in Int /\ added \in Int
        BY <3>2, <3>3, <3>4, <3>5
      <4> HIDE DEF ahead, added, total
      <4>2. found + ahead >= Cost
        BY <1>3, <1>4, <3>1, <4>1
      <4> QED BY <4>2 DEF ahead
    <3> QED BY <1>6, <2>3, <3>6
  <2> QED BY <1>6, <2>1, <2>2, <2>3
<1> QED BY <1>8, <1>9, <1>10, <1>11 DEF Inv

\* Every step of the clock and of a request keeps the invariant.
LEMMA StepInv == Inv /\ [Next]_vars => Inv'
<1> SUFFICES ASSUME Inv, [Next]_vars PROVE Inv'
  OBVIOUS
<1>1. CASE Tick
  BY <1>1, TickInv
<1>2. CASE \E k \in Keys : Allow(k) \/ Refuse(k)
  BY <1>2, AllowInv, RefuseInv
<1>3. CASE UNCHANGED vars
  BY <1>3 DEF vars, Inv, TypeOK, BucketInv, WindowBound, ToldInv, Accounted
<1> QED BY <1>1, <1>2, <1>3 DEF Next

\* The inductive invariant holds of every behaviour of the limiter.
THEOREM InvCorrect == Spec => []Inv
BY InitInv, StepInv, PTL DEF Spec

-----------------------------------------------------------------------------
\* The dicts of _TokenBucket keep their types and no bucket overflows.
THEOREM TypeOKCorrect == Spec => []TypeOK
<1>1. Inv => TypeOK
  BY DEF Inv
<1> QED BY <1>1, InvCorrect, PTL

\* However a client spreads its requests, no window of time lets through more
\* of them than the burst and what the rate adds in it (_TokenBucket.take).
THEOREM WindowBoundCorrect == Spec => []WindowBound
<1>1. Inv => WindowBound
  BY DEF Inv
<1> QED BY <1>1, InvCorrect, PTL

\* Whoever comes again when Retry-After said finds a token
\* (RateLimitMiddleware.dispatch).
THEOREM RetryIsHonestCorrect == Spec => []RetryIsHonest
<1>1. Inv => RetryIsHonest
  <2> SUFFICES ASSUME Inv, NEW k \in Keys, NEW due \in told[k], now >= due
               PROVE  Refilled(k, 0) >= Cost
    BY DEF RetryIsHonest, Enough
  <2>1. /\ k \in used /\ due \in Nat /\ now \in Nat /\ last[k] \in Nat
        /\ tokens[k] \in Int /\ 0 \in 0..MaxLag
    BY LimiterAssumption DEF Inv, TypeOK, BucketInv
  <2>2. tokens[k] + (due - last[k]) * Rate >= Cost
    BY DEF Inv, ToldInv
  <2>3. /\ (due - last[k]) * Rate <= (now - last[k]) * Rate
        /\ (due - last[k]) * Rate \in Int /\ (now - last[k]) * Rate \in Int
    <3>1. /\ due - last[k] \in Int /\ now - last[k] \in Int /\ Rate \in Nat
          /\ due - last[k] <= now - last[k]
      BY <2>1, FullType
    <3> QED BY <3>1, Products
  <2>4. tokens[k] + (now - last[k]) * Rate >= Cost
    <3> DEFINE early == (due - last[k]) * Rate
               added == (now - last[k]) * Rate
    <3>1. tokens[k] + early >= Cost /\ early <= added /\ early \in Int /\ added \in Int
      BY <2>2, <2>3
    <3> HIDE DEF early, added
    <3>2. tokens[k] + added >= Cost
      BY <2>1, <3>1, FullType
    <3> QED BY <3>2 DEF added
  <2>5. /\ Refilled(k, 0) \in Int /\ Refilled(k, 0) <= Full
        /\ Refilled(k, 0) < Full => Refilled(k, 0) = tokens[k] + (now - last[k]) * Rate
    BY <2>1, RefilledBound
  <2> QED BY <2>4, <2>5, FullType
<1> QED BY <1>1, InvCorrect, PTL
=============================================================================
