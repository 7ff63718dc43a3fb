---------------------------- MODULE TokenBucket ----------------------------
(***************************************************************************)
(* The token bucket that backend/repository/rate_limit_repository.go runs  *)
(* inside Redis as one Lua script.  Times are whole Unix seconds, as the   *)
(* callers pass them; tokens are counted in a unit in which the three      *)
(* parameters are whole numbers.                                           *)
(***************************************************************************)
EXTENDS Integers

CONSTANTS
    Capacity,    \* RATE_LIMIT_CAPACITY: tokens of a full bucket
    RefillRate,  \* RATE_LIMIT_REFILL_RATE: tokens per second
    TokenCost,   \* RATE_LIMIT_TOKEN_COST: tokens for one request
    TTL,         \* RATE_LIMIT_TTL_SEC: life of an unused key
    NoBucket     \* the key is not in Redis

ASSUME BucketAssumption ==
    /\ Capacity \in Nat \ {0}
    /\ RefillRate \in Nat \ {0}
    /\ TokenCost \in Nat \ {0}
    /\ TTL \in Nat \ {0}
    /\ NoBucket \notin [tokens : 0 .. Capacity, last : Nat, expires : Nat]

\* The hash under a key, with the second in which Redis will drop it.
Bucket == [tokens : 0 .. Capacity, last : Nat, expires : Nat]

\* The parameters of main.go satisfy it; the environment can break it.
TTLCoversRefill == TTL * RefillRate >= Capacity

\* Faulty variant: the bucket overflows.
RefilledUncapped(b, now) ==
    IF b = NoBucket THEN Capacity
    ELSE IF now > b.last THEN b.tokens + (now - b.last) * RefillRate
    ELSE b.tokens

\* The tokens in b for a caller whose clock shows now; a caller behind the last
\* one gets no refill.
Refilled(b, now) ==
    IF b = NoBucket THEN Capacity
    ELSE IF now > b.last
         THEN LET sum == b.tokens + (now - b.last) * RefillRate
              IN  IF sum < Capacity THEN sum ELSE Capacity
    ELSE b.tokens

Allows(b, now, cost) == Refilled(b, now) >= cost

\* Faulty variant: the time of the refill is stored only with a new bucket.
ChargedKeepsLast(b, now, cost, clock) ==
    [tokens |-> Refilled(b, now) - cost,
     last |-> IF b = NoBucket THEN now ELSE b.last, expires |-> clock + TTL]

\* Faulty variant: EXPIRE only when the key is created.
ChargedKeepsExpiry(b, now, cost, clock) ==
    [tokens |-> Refilled(b, now) - cost, last |-> now,
     expires |-> IF b = NoBucket THEN clock + TTL ELSE b.expires]

\* Faulty variant: the time of the refill is rounded up to the next second.
ChargedAhead(b, now, cost, clock) ==
    [tokens |-> Refilled(b, now) - cost, last |-> now + 1, expires |-> clock + TTL]

\* The bucket saved for an admitted caller: last_refill is the caller's time even
\* when that is earlier than the one stored; EXPIRE counts from Redis's own clock.
Charged(b, now, cost, clock) ==
    [tokens |-> Refilled(b, now) - cost, last |-> now, expires |-> clock + TTL]

\* Faulty variant: the wait is rounded down.
RetryAfterFloor(b, now, cost) ==
    LET wait == (cost - Refilled(b, now)) \div RefillRate
    IN  IF wait < 1 THEN 1 ELSE wait

\* The whole seconds a refused caller is told to wait.
RetryAfter(b, now, cost) ==
    LET wait == (cost - Refilled(b, now) + RefillRate - 1) \div RefillRate
    IN  IF wait < 1 THEN 1 ELSE wait

=============================================================================
