---------------------------- MODULE RateLimiter -----------------------------
(***************************************************************************)
(* RateLimitMiddleware and its _TokenBucket (hardening.py).  A token is    *)
(* Cost units, so that what a tick adds, Rate, is a whole number of units; *)
(* take runs under the bucket's lock and is one step.  A clock that two    *)
(* readings apart differ by less than a tick, and floating point rounding, *)
(* are left out.                                                           *)
(***************************************************************************)
EXTENDS Integers, Sequences, FiniteSetsExt

CONSTANTS Clients,      \* client addresses
          Prefixes,     \* route prefixes that are not exempt
          Cost,         \* units of a token
          Rate,         \* units added in a tick
          Burst,        \* tokens a bucket holds
          MaxLag,       \* ticks that may pass within a first use
          MaxTime,      \* bound: time passed
          MaxTakes      \* bound: requests of a client to a prefix

ASSUME LimiterAssumption ==
    /\ Cost \in Nat \ {0} /\ Rate \in Nat \ {0}
    /\ Burst \in Nat \ {0}
    /\ MaxLag \in Nat /\ MaxTime \in Nat /\ MaxTakes \in Nat

Keys == Clients \X Prefixes
Full == Burst * Cost

VARIABLES now,
          tokens, last,   \* what each bucket holds, and when it was refilled
          used,           \* the keys the two dicts have
          granted,        \* when each key was let through
          told            \* when each key was told to come again, since then

vars == <<now, tokens, last, used, granted, told>>

Init == /\ now = 0
        /\ tokens  = [k \in Keys |-> Full]
        /\ last    = [k \in Keys |-> 0]
        /\ used    = {}
        /\ granted = [k \in Keys |-> <<>>]
        /\ told    = [k \in Keys |-> {}]

\* What the bucket holds when a request comes.  At the first one last_refill
\* takes its default from the clock after now was read, so that a little, lag,
\* is taken off the full bucket.
Refilled(k, lag) ==
    IF k \in used THEN Min({Full, tokens[k] + (now - last[k]) * Rate})
                  ELSE Full - lag * Rate

\* Mistake: the wait is rounded down.
RetryRounded(units) == (Cost - units) \div Rate

\* int(retry_after) + 1, with retry_after the time until there is a token.
RetryAfter(units) == (Cost - units) \div Rate + 1

\* Mistake: a token is spent though only part of it is there.
EnoughForPart(units) == units > 0

Enough(units) == units >= Cost

Touch(k) == /\ last' = [last EXCEPT ![k] = now]
            /\ used' = used \cup {k}
            /\ UNCHANGED now

\* A token is there: the request goes on to its route.
Allow(k) ==
    /\ \E lag \in 0..MaxLag :
         /\ Enough(Refilled(k, lag))
         /\ tokens' = [tokens EXCEPT ![k] = Refilled(k, lag) - Cost]
    /\ granted' = [granted EXCEPT ![k] = Append(@, now)]
    /\ told' = [told EXCEPT ![k] = {}]
    /\ Touch(k)

\* There is none: 429, with Retry-After.
Refuse(k) ==
    /\ \E lag \in 0..MaxLag :
         /\ ~Enough(Refilled(k, lag))
         /\ tokens' = [tokens EXCEPT ![k] = Refilled(k, lag)]
         /\ told' = [told EXCEPT ![k] = @ \cup {now + RetryAfter(Refilled(k, lag))}]
    /\ UNCHANGED granted
    /\ Touch(k)

Tick == /\ now < MaxTime
        /\ now' = now + 1
        /\ UNCHANGED <<tokens, last, used, granted, told>>

Next == \/ Tick
        \/ \E k \in Keys : Len(granted[k]) < MaxTakes /\ (Allow(k) \/ Refuse(k))

Spec == Init /\ [][Next]_vars

-----------------------------------------------------------------------------
TypeOK == /\ now \in Nat
          /\ tokens \in [Keys -> {units \in Int : units <= Full}]
          /\ last \in [Keys -> Nat]
          /\ used \subseteq Keys
          /\ granted \in [Keys -> Seq(Nat)]
          /\ told \in [Keys -> SUBSET Nat]

\* Whatever the moments a client chooses, between any two of its requests that
\* were let through no more were than the burst and what the rate adds in that
\* time (_TokenBucket.take).
WindowBound ==
    \A k \in Keys : \A i, j \in DOMAIN granted[k] :
        i <= j => (j - i + 1) * Cost <= Full + (granted[k][j] - granted[k][i]) * Rate

\* A client that was refused and comes again when Retry-After said, or later,
\* is let through: the attempts it, or another one with its address and route,
\* made in between and lost do not put that moment off
\* (RateLimitMiddleware.dispatch).
RetryIsHonest ==
    \A k \in Keys : \A due \in told[k] : now >= due => Enough(Refilled(k, 0))
=============================================================================
