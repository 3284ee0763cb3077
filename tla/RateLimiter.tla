----------------------------- MODULE RateLimiter -----------------------------
(***************************************************************************)
(* The token buckets of src/src/middleware/rate_limiter.rs: the in-memory  *)
(* one (LocalTokenBucket) and the one in Redis (RedisTokenBucket, a Lua    *)
(* script).  Both run the same algorithm, each atomically; they differ in  *)
(* the clock.  LocalTokenBucket reads the clock twice under its mutex, for *)
(* `now` and in `elapsed()`: what passes in between (the lag) refills the  *)
(* bucket and is counted again next time, as last_refill is the earlier    *)
(* reading.  The script is given the caller's wall clock: gateways whose   *)
(* clocks differ, and calls that were under way for different times, put   *)
(* and take time that never passed.                                        *)
(*                                                                         *)
(* Tokens are counted in units of 1/One token and time in ticks of         *)
(* 1/TicksPerSecond second, so that refills are whole numbers.             *)
(***************************************************************************)
EXTENDS Integers, FiniteSetsExt

CONSTANTS Clients,         \* client ids
          LimitsOf,          \* the configurations a client's keys carry
          One,             \* units in a token
          TicksPerSecond,
          MaxLag,          \* ticks between the two readings of the local clock
          Offsets,         \* what callers' clocks are ahead, in ticks, in Redis
          Expiry,          \* the age at which Redis forgets a key
          Never,           \* what a wait without end saturates to, in seconds
          Horizon          \* bound on ages

VARIABLES backend,         \* which implementation the gateway was built with
          known,           \* the clients that have a bucket
          tokens,          \* units left in each bucket at its last_refill
          age              \* ticks since last_refill

VARIABLES allowance,       \* history: what each client may still spend
          promise          \* history: when a refused client was told to return

bucketVars == <<known, tokens, age>>
limiterVars == <<backend, known, tokens, age, allowance, promise>>

Limits == UNION {LimitsOf[c] : c \in Clients}

\* A client has a key.  What its limits are nobody checks but for the default's
\* (config.rs): a key may not refill, or drain.  Horizon bounds the model, not the
\* configuration: ages are told apart until a bucket that refills is full.
ASSUME LimiterAssumption ==
  /\ LimitsOf \in [Clients -> SUBSET [capacity : Nat, rate : Int]]
  /\ \A c \in Clients : LimitsOf[c] # {} /\ IsFiniteSet(LimitsOf[c])
  /\ One \in Nat \ {0} /\ TicksPerSecond \in Nat \ {0} /\ MaxLag \in Nat
  /\ Offsets \subseteq Int /\ Offsets # {} /\ IsFiniteSet(Offsets)
  /\ Expiry \in Nat /\ Never \in Nat \ {0} /\ Horizon \in Nat
  /\ \A offset \in Offsets \cup {0} :
       /\ Horizon + offset \in Nat
       /\ \A limit \in Limits :
            limit.rate > 0 => (Horizon + offset) * limit.rate >= limit.capacity * One

Least(a, b) == IF a < b THEN a ELSE b

\* `refilled`: what the bucket holds for a caller that sees `elapsed` ticks.
\* A client's first call finds a full bucket.
Level(c, limit, elapsed) ==
  IF c \in known THEN Least(limit.capacity * One, tokens[c] + elapsed * limit.rate)
                 ELSE limit.capacity * One

\* A wait for a bucket that does not refill: the division gives infinity, or is
\* negative, which the in-memory bucket's cast makes 0.  The script rounds up: what
\* is more than a second below zero comes back as a huge unsigned number.
EndlessWait(level, limit) ==
  IF /\ limit.rate < 0
     /\ backend = "local" \/ One - level < -limit.rate * TicksPerSecond
  THEN 0 ELSE Never

\* Fault: the wait is rounded down.
WaitRoundedDown(level, limit) ==
  IF limit.rate > 0 THEN (One - level) \div (limit.rate * TicksPerSecond)
                    ELSE EndlessWait(level, limit)

\* retry_after_secs: whole seconds until there is a token, rounded up.
Wait(level, limit) ==
  LET perSecond == limit.rate * TicksPerSecond
  IN IF limit.rate > 0 THEN (One - level + perSecond - 1) \div perSecond
                       ELSE EndlessWait(level, limit)

WaitFor(c, limit, elapsed) == Wait(Level(c, limit, elapsed), limit)
-----------------------------------------------------------------------------
(* History.  allowance is a bucket that is never short-changed: it has the *)
(* largest capacity and rate of the client's keys, and what the clocks can *)
(* add.                                                                    *)

Largest(c) == Max({limit.capacity : limit \in LimitsOf[c]})
Fastest(c) == Max({0} \cup {limit.rate : limit \in LimitsOf[c]})

Ahead == IF backend = "local" THEN MaxLag ELSE Max(Offsets) - Min(Offsets)
Speed == IF backend = "local" /\ MaxLag > 0 THEN 2 ELSE 1

MostAllowed(c) == Largest(c) * One + Ahead * Fastest(c)

Refreshed(c, ticks) ==
  Least(MostAllowed(c), allowance[c] + ticks * Speed * Fastest(c))

\* Bound: by how much a client exceeds its allowance is not told apart.
Spent(allowed) == IF allowed < One THEN -1 ELSE allowed - One

NoPromise == [pending |-> FALSE, left |-> 0, limit |-> [capacity |-> 0, rate |-> 1]]

CountDown(p, ticks) == [p EXCEPT !.left = IF @ > ticks THEN @ - ticks ELSE 0]

\* A call of client c ended `ticks` after the last event: with a token, or told to
\* wait, which a key that does not refill does in vain.
Account(c, admitted, wait, limit, ticks) ==
  /\ allowance' = [x \in Clients |-> IF x = c /\ admitted THEN Spent(Refreshed(x, ticks))
                                                          ELSE Refreshed(x, ticks)]
  /\ promise' = [x \in Clients |->
       IF x # c THEN CountDown(promise[x], ticks)
       ELSE IF admitted \/ limit.rate <= 0 THEN NoPromise
       ELSE [pending |-> TRUE, left |-> wait * TicksPerSecond, limit |-> limit]]
-----------------------------------------------------------------------------
LimiterInit ==
  /\ backend \in {"local", "redis"}
  /\ known = {}
  /\ tokens = [c \in Clients |-> 0]
  /\ age = [c \in Clients |-> 0]
  /\ allowance = [c \in Clients |-> MostAllowed(c)]
  /\ promise = [c \in Clients |-> NoPromise]

Older(c, ticks) == IF c \in known THEN Least(Horizon, age[c] + ticks) ELSE 0

\* Fault: last_refill is not moved.
StoreStale(c, level, stamp, ticks) ==
  /\ known' = known \cup {c}
  /\ tokens' = [tokens EXCEPT ![c] = level - One]
  /\ age' = [x \in Clients |-> Older(x, ticks)]

\* A token is taken; last_refill is the clock reading `stamp` ticks ago.
Store(c, level, stamp, ticks) ==
  /\ known' = known \cup {c}
  /\ tokens' = [tokens EXCEPT ![c] = level - One]
  /\ age' = [x \in Clients |-> IF x = c THEN stamp ELSE Older(x, ticks)]

\* LocalTokenBucket::try_acquire finds a token; it holds the mutex for `lag` ticks.
LocalAdmits(c, limit, lag) ==
  LET level == Level(c, limit, age[c] + lag)
  IN /\ backend = "local" /\ level >= One
     /\ Store(c, level, lag, lag)
     /\ Account(c, TRUE, 0, limit, lag)
     /\ UNCHANGED backend

\* Fault: last_refill is moved although no token was stored.
LocalRefusesAndRestarts(c, limit, lag) ==
  LET level == Level(c, limit, age[c] + lag)
  IN /\ backend = "local" /\ level < One
     /\ known' = known \cup {c}
     /\ tokens' = tokens
     /\ age' = [x \in Clients |-> IF x = c THEN lag ELSE Older(x, lag)]
     /\ Account(c, FALSE, Wait(level, limit), limit, lag)
     /\ UNCHANGED backend

\* ... or finds none, which changes nothing (but inserts a missing entry).
LocalRefuses(c, limit, lag) ==
  LET level == Level(c, limit, age[c] + lag)
  IN /\ backend = "local" /\ level < One
     /\ known' = known \cup {c}
     /\ tokens' = [tokens EXCEPT ![c] = IF c \in known THEN @ ELSE limit.capacity * One]
     /\ age' = [x \in Clients |-> IF x = c /\ x \notin known THEN lag ELSE Older(x, lag)]
     /\ Account(c, FALSE, Wait(level, limit), limit, lag)
     /\ UNCHANGED backend

\* The script, called by a gateway whose clock is `offset` ticks ahead of the
\* time at which it runs.
RedisAdmits(c, limit, offset) ==
  LET level == Level(c, limit, age[c] + offset)
  IN /\ backend = "redis" /\ level >= One
     /\ Store(c, level, -offset, 0)
     /\ Account(c, TRUE, 0, limit, 0)
     /\ UNCHANGED backend

RedisRefuses(c, limit, offset) ==
  LET level == Level(c, limit, age[c] + offset)
  IN /\ backend = "redis" /\ level < One
     /\ Account(c, FALSE, Wait(level, limit), limit, 0)
     /\ UNCHANGED <<backend, bucketVars>>

\* Every key fills the bucket before Redis forgets it, whichever clock it is read by.
FillsInTime(c) ==
  \A limit \in LimitsOf[c] :
    (Expiry + Min(Offsets) - Max(Offsets)) * limit.rate >= limit.capacity * One

\* EXPIRE: a key that was not written for an hour, by the clock of Redis.  The
\* bucket will be found full: for keys that are slower, that is a gift.
Expire(c) ==
  /\ backend = "redis" /\ c \in known
  /\ \E offset \in Offsets : age[c] + offset = Expiry
  /\ known' = known \ {c}
  /\ tokens' = [tokens EXCEPT ![c] = 0]
  /\ age' = [age EXCEPT ![c] = 0]
  /\ allowance' = [allowance EXCEPT ![c] = IF FillsInTime(c) THEN @ ELSE MostAllowed(c)]
  /\ UNCHANGED <<backend, promise>>

\* Time passes outside of any call.
Elapse ==
  /\ age' = [c \in Clients |-> Older(c, 1)]
  /\ allowance' = [c \in Clients |-> Refreshed(c, 1)]
  /\ promise' = [c \in Clients |-> CountDown(promise[c], 1)]
  /\ UNCHANGED <<backend, known, tokens>>
-----------------------------------------------------------------------------
(* Properties.                                                             *)

LimiterTypeOK ==
  /\ backend \in {"local", "redis"}
  /\ known \subseteq Clients
  /\ tokens \in [Clients -> Nat]
  /\ age \in [Clients -> Int]
  /\ allowance \in [Clients -> Int]

\* The client's keys refill at one rate, and none drains.
Steady(c) ==
  /\ Cardinality({limit.rate : limit \in LimitsOf[c]}) = 1
  /\ \A limit \in LimitsOf[c] : limit.rate >= 0

\* Nobody gets more than the burst and the refill of the time that passed, in
\* any stretch of time: not by switching between keys of one client, not from
\* the double reading of the local clock (at most twice the rate, if calls follow
\* one another without a pause), nor from callers' clocks that disagree: what one
\* call takes from the future, the next one gives back, so they add their
\* difference once, whatever the number of calls.  EXPIRE gives nothing to a
\* client whose keys fill the bucket in that time, and a full bucket to one whose
\* keys are slower or never refill, once in an idle hour.  In Redis only of
\* clients whose keys refill at one rate: a fast key takes more than a slow one
\* returns.
AllowanceKept ==
  \A c \in Clients : backend = "local" \/ Steady(c) => allowance[c] >= 0

\* retry_after_secs is enough: a client that was refused and comes back after
\* the seconds it was told is admitted, unless another request of the same
\* client was in between (in-memory bucket; a key with a positive capacity that
\* refills).
WaitIsEnough ==
  \A c \in Clients :
    LET p == promise[c]
    IN backend = "local" /\ p.pending /\ p.left = 0 /\ p.limit.capacity > 0
         => Level(c, p.limit, age[c]) >= One
=============================================================================
