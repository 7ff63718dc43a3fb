-------------------------- MODULE RateLimitProofs --------------------------
(***************************************************************************)
(* What the rate limiter admits, for every number of requests, keys and    *)
(* seconds, and every capacity, rate and life of a key.                    *)
(***************************************************************************)
EXTENDS RateLimit, SequenceTheorems, TLAPS

\* A refusal can be waited out only if a full bucket pays for a request.
CostWithinCapacity == TokenCost <= Capacity

\* The refill of one second pays for a request.
CostWithinSecond == TokenCost <= RefillRate

-----------------------------------------------------------------------------
(* The bucket. *)

\* A bucket as the script leaves it at clock: refilled at no later time, and
\* kept for at least the life of a key after that time.
Kept(b, t) ==
    b = NoBucket \/ /\ b \in Bucket
                    /\ b.last <= t
                    /\ b.last + TTL <= b.expires

LEMMA NoBucketIsNone == NoBucket \notin Bucket
BY BucketAssumption DEF Bucket

\* A bucket never holds more than its capacity.
LEMMA RefilledType ==
    ASSUME NEW b \in Bucket \cup {NoBucket}, NEW t \in Nat
    PROVE  Refilled(b, t) \in 0 .. Capacity
<1>1. CASE b = NoBucket
  BY <1>1, BucketAssumption DEF Refilled
<1>2. CASE b \in Bucket
  <2>1. b # NoBucket /\ b.tokens \in 0 .. Capacity /\ b.last \in Nat
    BY <1>2, NoBucketIsNone DEF Bucket
  <2>2. t > b.last => (t - b.last) * RefillRate \in Nat
    BY <2>1, BucketAssumption
  <2> QED
    BY <2>1, <2>2, BucketAssumption DEF Refilled
<1> QED
  BY <1>1, <1>2

\* In n seconds a bucket gains n seconds' refill at most, and loses nothing.
LEMMA RefilledGrows ==
    ASSUME NEW b \in Bucket \cup {NoBucket}, NEW t \in Nat, NEW n \in Nat
    PROVE  /\ Refilled(b, t) <= Refilled(b, t + n)
           /\ Refilled(b, t + n) <= Refilled(b, t) + RefillRate * n
<1>0. RefillRate * n \in Nat /\ Capacity \in Nat
  BY BucketAssumption
<1>1. CASE b = NoBucket
  BY <1>0, <1>1 DEF Refilled
<1>2. CASE b \in Bucket
  <2>1. b # NoBucket /\ b.tokens \in 0 .. Capacity /\ b.last \in Nat
    BY <1>2, NoBucketIsNone DEF Bucket
  <2>2. CASE t > b.last
    <3> DEFINE x == (t - b.last) * RefillRate
               y == (t + n - b.last) * RefillRate
    <3>1. x \in Nat /\ y = x + RefillRate * n
      BY <2>1, <2>2, BucketAssumption
    <3>2. t + n > b.last
      BY <2>1, <2>2
    <3>3. /\ Refilled(b, t) = IF b.tokens + x < Capacity THEN b.tokens + x ELSE Capacity
          /\ Refilled(b, t + n) = IF b.tokens + y < Capacity THEN b.tokens + y ELSE Capacity
      BY <2>1, <2>2, <3>2 DEF Refilled
    <3> HIDE DEF x, y
    <3> QED
      BY <1>0, <2>1, <3>1, <3>3
  <2>3. CASE ~(t > b.last)
    <3>1. Refilled(b, t) = b.tokens
      BY <2>1, <2>3 DEF Refilled
    <3>2. CASE t + n > b.last
      <4> DEFINE y == (t + n - b.last) * RefillRate
      <4>1. y \in Nat /\ y <= RefillRate * n
        <5>1. t + n - b.last \in 0 .. n
          BY <2>1, <2>3, <3>2
        <5>2. \A i \in 0 .. n : i * RefillRate \in Nat /\ i * RefillRate <= RefillRate * n
          BY BucketAssumption
        <5> QED
          BY <5>1, <5>2
      <4>2. Refilled(b, t + n) = IF b.tokens + y < Capacity THEN b.tokens + y ELSE Capacity
        BY <2>1, <3>2 DEF Refilled
      <4> HIDE DEF y
      <4> QED
        BY <1>0, <2>1, <3>1, <4>1, <4>2
    <3>3. CASE ~(t + n > b.last)
      <4>1. Refilled(b, t + n) = b.tokens
        BY <2>1, <3>3 DEF Refilled
      <4> QED
        BY <1>0, <2>1, <3>1, <4>1
    <3> QED
      BY <3>2, <3>3
  <2> QED
    BY <2>2, <2>3
<1> QED
  BY <1>1, <1>2

\* Refilled is monotone in time.
LEMMA RefilledMonotone ==
    ASSUME NEW b \in Bucket \cup {NoBucket}, NEW t \in Nat, NEW u \in Nat, t <= u
    PROVE  /\ Refilled(b, t) <= Refilled(b, u)
           /\ Refilled(b, u) <= Refilled(b, t) + RefillRate * (u - t)
<1>1. u - t \in Nat /\ t + (u - t) = u
  OBVIOUS
<1> QED
  BY <1>1, RefilledGrows

\* A bucket whose key may be dropped is full, if keys live long enough.
LEMMA ExpiredIsFull ==
    ASSUME TTLCoversRefill, NEW t \in Nat, NEW b \in Bucket, Kept(b, t), t >= b.expires
    PROVE  Refilled(b, t) = Capacity
<1>1. b # NoBucket /\ b.tokens \in 0 .. Capacity /\ b.last \in Nat /\ b.expires \in Nat
  BY NoBucketIsNone DEF Bucket
<1>2. t - b.last >= TTL /\ t > b.last
  BY <1>1, BucketAssumption DEF Kept
<1>3. (t - b.last) * RefillRate >= TTL * RefillRate
  BY <1>1, <1>2, BucketAssumption
<1>4. (t - b.last) * RefillRate \in Nat /\ TTL * RefillRate \in Nat
  BY <1>1, <1>2, BucketAssumption
<1> QED
  BY <1>1, <1>2, <1>3, <1>4, BucketAssumption DEF Refilled, TTLCoversRefill

\* The script charges an admitted caller, whose time is now, when Redis's clock
\* shows t: the bucket it leaves holds at t no more than what was there for the
\* caller, less the cost, and the refill of the seconds the caller is behind.
LEMMA ChargedSound ==
    ASSUME NEW b \in Bucket \cup {NoBucket}, NEW t \in Nat, NEW now \in 0 .. t,
           NEW cost \in {0, TokenCost}, Allows(b, now, cost)
    PROVE  /\ Charged(b, now, cost, t) \in Bucket
           /\ Kept(Charged(b, now, cost, t), t)
           /\ Refilled(Charged(b, now, cost, t), t)
                 <= Refilled(b, t) - cost + RefillRate * (t - now)
<1> DEFINE c == Charged(b, now, cost, t)
           left == Refilled(b, now) - cost
<1>1. now \in Nat /\ now <= t /\ cost \in Nat
  BY BucketAssumption
<1>2. Refilled(b, now) \in 0 .. Capacity /\ Refilled(b, t) \in 0 .. Capacity
  BY <1>1, RefilledType
<1>3. left \in 0 .. Capacity /\ left <= Refilled(b, t) - cost
  BY <1>1, <1>2, RefilledMonotone, BucketAssumption DEF Allows
<1> HIDE DEF left
<1>4. c = [tokens |-> left, last |-> now, expires |-> t + TTL]
  BY DEF Charged, left
<1>5. c \in Bucket /\ Kept(c, t)
  BY <1>1, <1>3, <1>4, BucketAssumption DEF Bucket, Kept
<1>6. Refilled(c, now) = left
  BY <1>1, <1>4, <1>5, NoBucketIsNone DEF Refilled
<1> HIDE DEF c
<1>7. Refilled(c, t) <= left + RefillRate * (t - now)
  BY <1>1, <1>5, <1>6, RefilledMonotone
<1>8. RefillRate * (t - now) \in Nat /\ Refilled(c, t) \in Nat
  BY <1>1, <1>5, RefilledType, BucketAssumption
<1> QED
  BY <1>1, <1>2, <1>3, <1>5, <1>7, <1>8 DEF c

\* Retry-After is a number of seconds in which the missing tokens come in.
LEMMA RetryAfterCovers ==
    ASSUME NEW b \in Bucket \cup {NoBucket}, NEW now \in Nat, NEW cost \in Nat,
           ~Allows(b, now, cost)
    PROVE  LET w == RetryAfter(b, now, cost)
           IN  /\ w \in Nat \ {0}
               /\ RefillRate * w >= cost - Refilled(b, now)
<1> DEFINE d == cost - Refilled(b, now)
           wait == (d + RefillRate - 1) \div RefillRate
<1>1. Refilled(b, now) \in Nat /\ d \in Nat \ {0}
  BY RefilledType DEF Allows
<1> HIDE DEF d
<1>2. wait \in Int /\ RefillRate * wait >= d /\ wait >= 1
  BY <1>1, BucketAssumption
<1>3. RetryAfter(b, now, cost) = IF wait < 1 THEN 1 ELSE wait
  BY DEF RetryAfter, d
<1> HIDE DEF wait
<1> QED
  BY <1>1, <1>2, <1>3 DEF d

\* Whoever is refused at now and comes back Retry-After seconds after the
\* refusal, at clock t, finds the tokens there.
LEMMA WaitingPays ==
    ASSUME CostWithinCapacity, NEW t \in Nat, NEW b, Kept(b, t), NEW now \in 0 .. t,
           NEW cost \in {0, TokenCost}, ~Allows(b, now, cost)
    PROVE  Allows(b, t + RetryAfter(b, now, cost), cost)
<1> DEFINE w == RetryAfter(b, now, cost)
<1>0. b \in Bucket \cup {NoBucket} /\ now \in Nat /\ cost \in Nat /\ cost <= Capacity
  BY BucketAssumption DEF Kept, CostWithinCapacity
<1>1. w \in Nat /\ w >= 1 /\ RefillRate * w >= cost - Refilled(b, now)
  BY <1>0, RetryAfterCovers
<1>2. b # NoBucket
  <2> SUFFICES ASSUME b = NoBucket PROVE FALSE
    OBVIOUS
  <2> QED
    BY <1>0, BucketAssumption DEF Allows, Refilled
<1>3. b.tokens \in 0 .. Capacity /\ b.last \in Nat /\ b.last <= t
  BY <1>0, <1>2 DEF Kept, Bucket
<1> HIDE DEF w
<1> DEFINE gained == (t + w - b.last) * RefillRate
<1>4. gained \in Nat /\ b.tokens + gained >= cost
  <2>0. RefillRate * w \in Nat /\ Capacity \in Nat
    BY <1>1, BucketAssumption
  <2>1. CASE now > b.last
    <3> DEFINE x == (now - b.last) * RefillRate
    <3>1. x \in Nat
      BY <1>0, <1>3, <2>1, BucketAssumption
    <3>2. gained = x + (t - now) * RefillRate + RefillRate * w
      BY <1>0, <1>1, <1>3, BucketAssumption
    <3>3. (t - now) * RefillRate \in Nat
      BY <1>0, BucketAssumption
    <3>4. Refilled(b, now) = IF b.tokens + x < Capacity THEN b.tokens + x ELSE Capacity
      BY <1>2, <2>1 DEF Refilled
    <3>5. Refilled(b, now) < cost
      BY <1>0, RefilledType DEF Allows
    <3> HIDE DEF x, gained
    <3> QED
      BY <1>0, <1>1, <1>3, <2>0, <3>1, <3>2, <3>3, <3>4, <3>5
  <2>2. CASE ~(now > b.last)
    <3>1. gained = (t - b.last) * RefillRate + RefillRate * w
      BY <1>1, <1>3, BucketAssumption
    <3>2. (t - b.last) * RefillRate \in Nat
      BY <1>3, BucketAssumption
    <3>3. Refilled(b, now) = b.tokens
      BY <1>2, <2>2 DEF Refilled
    <3> HIDE DEF gained
    <3> QED
      BY <1>0, <1>1, <1>3, <2>0, <3>1, <3>2, <3>3
  <2> QED
    BY <2>1, <2>2
<1>5. t + w > b.last
  BY <1>1, <1>3
<1>6. Refilled(b, t + w) = IF b.tokens + gained < Capacity THEN b.tokens + gained ELSE Capacity
  BY <1>1, <1>2, <1>3, <1>5, BucketAssumption DEF Refilled
<1> HIDE DEF gained
<1> QED
  BY <1>0, <1>3, <1>4, <1>6, BucketAssumption DEF Allows, w

\* If a second's refill pays for a request, waiting pays in every bucket, whoever
\* was charged to it before.
LEMMA AnyWaitPays ==
    ASSUME CostWithinCapacity, CostWithinSecond, NEW t \in Nat, NEW b, Kept(b, t),
           NEW cost \in {0, TokenCost}, NEW w \in Nat \ {0}
    PROVE  Allows(b, t + w, cost)
<1>0. cost \in Nat /\ cost <= Capacity /\ cost <= RefillRate
  BY BucketAssumption DEF CostWithinCapacity, CostWithinSecond
<1>1. CASE b = NoBucket
  BY <1>0, <1>1 DEF Allows, Refilled
<1>2. CASE b # NoBucket
  <2>1. b.tokens \in 0 .. Capacity /\ b.last \in Nat /\ b.last <= t
    BY <1>2 DEF Kept, Bucket
  <2> DEFINE n == t + w - b.last
             gained == n * RefillRate
  <2>2. n \in Nat \ {0} /\ t + w > b.last
    BY <2>1
  <2>3. gained \in Nat /\ gained >= RefillRate
    <3> HIDE DEF n
    <3> QED
      BY <2>2, BucketAssumption
  <2>4. Refilled(b, t + w)
          = IF b.tokens + gained < Capacity THEN b.tokens + gained ELSE Capacity
    BY <1>2, <2>1, <2>2, BucketAssumption DEF Refilled
  <2> HIDE DEF gained, n
  <2>5. /\ b.tokens \in Nat /\ gained \in Nat /\ Capacity \in Nat /\ RefillRate \in Nat
        /\ cost <= b.tokens + gained /\ b.tokens + gained \in Nat
    BY <1>0, <2>1, <2>3, BucketAssumption
  <2>6. Refilled(b, t + w) >= cost
    BY <1>0, <2>4, <2>5
  <2> QED
    BY <2>6 DEF Allows
<1> QED
  BY <1>1, <1>2

-----------------------------------------------------------------------------
(* The inductive invariant. *)

\* A request that still has charges to make has not been answered, and no
\* request works with a time that is still to come.
Sound(q) ==
    /\ q \in Request
    /\ q.now <= clock
    /\ q.due # << >> => q.code = "none"

RequestsOK ==
    /\ req \in [Reqs -> Request]
    /\ \A r \in Reqs : Sound(req[r])

\* Type correctness of the rest, with what it takes to speak of expiry.
BucketsOK ==
    /\ clock \in 0 .. MaxTime
    /\ bucket \in [Keys -> Bucket \cup {NoBucket}]
    /\ \A k \in Keys : Kept(bucket[k], clock)
    /\ start \in 0 .. clock
    /\ spent \in [Keys -> Nat]
    /\ late \in [Keys -> Nat]

Inv == BucketsOK /\ RequestsOK

\* What was taken in the window and what is there now came from the full bucket
\* of its beginning and from the refill since.
Budget(k) ==
    spent[k] + Refilled(bucket[k], clock)
        <= Capacity + RefillRate * ((clock - start) + late[k])

BudgetKept == \A k \in Keys : Budget(k)

LEMMA InvType == Inv => TypeOK
<1>1. NoBucket \notin Bucket
  BY NoBucketIsNone
<1> QED
  BY <1>1 DEF Inv, BucketsOK, RequestsOK, Sound, Kept, TypeOK

LEMMA InvTimes ==
    ASSUME Inv
    PROVE  /\ clock \in Nat /\ start \in Nat /\ start <= clock
           /\ \A k \in Keys : /\ bucket[k] \in Bucket \cup {NoBucket}
                              /\ spent[k] \in Nat
                              /\ late[k] \in Nat
BY RateLimitAssumption DEF Inv, BucketsOK

\* The data of the request in slot r.
LEMMA InvRequest ==
    ASSUME Inv, NEW r \in Reqs
    PROVE  /\ req[r] \in Request /\ req[r].due \in Seq(Charge)
           /\ req[r].now \in 0 .. clock
           /\ ~Idle(r) => /\ req[r].code = "none"
                          /\ Head(req[r].due) \in Charge
                          /\ Head(req[r].due).key \in Keys
                          /\ Head(req[r].due).cost \in {0, TokenCost}
                          /\ Tail(req[r].due) \in Seq(Charge)
<1>1. req[r] \in Request /\ Sound(req[r])
  BY DEF Inv, RequestsOK
<1>2. req[r].due \in Seq(Charge) /\ req[r].now \in 0 .. clock
  BY <1>1, InvTimes DEF Request, Sound
<1>3. ASSUME ~Idle(r)
      PROVE  /\ req[r].code = "none"
             /\ Head(req[r].due) \in Charge
             /\ Tail(req[r].due) \in Seq(Charge)
  BY <1>1, <1>2, <1>3, HeadTailProperties DEF Idle, Sound
<1> QED
  BY <1>1, <1>2, <1>3 DEF Charge

LEMMA AnswerSound ==
    ASSUME NEW code \in Codes, NEW retry \in Nat, clock \in Nat
    PROVE  Sound(Answer(code, retry))
<1>1. << >> \in Seq(Charge)
  BY EmptySeq
<1> QED
  BY <1>1 DEF Answer, Sound, Request

\* One slot changes, and time does not.
LEMMA RequestStep ==
    ASSUME Inv, NEW r \in Reqs, NEW q, Sound(q), clock' = clock,
           req' = [req EXCEPT ![r] = q]
    PROVE  RequestsOK'
<1>1. q \in Request /\ req' \in [Reqs -> Request]
  BY DEF Inv, RequestsOK, Sound
<1>2. \A s \in Reqs : Sound(req'[s])
  BY DEF Inv, RequestsOK
<1>3. \A s \in Reqs : Sound(req[s])'
  BY <1>2 DEF Sound
<1> QED
  BY <1>1, <1>3 DEF RequestsOK

LEMMA BucketsUnchanged ==
    ASSUME BucketsOK, UNCHANGED <<clock, bucket, window>>
    PROVE  BucketsOK' /\ (BudgetKept => BudgetKept')
BY DEF BucketsOK, BudgetKept, Budget, Kept, window

\* A request begins or is answered at once, and no bucket changes.
LEMMA SlotStep ==
    ASSUME Inv, NEW r \in Reqs, NEW q, Sound(q), req' = [req EXCEPT ![r] = q],
           UNCHANGED <<clock, bucket, window>>
    PROVE  Inv' /\ (BudgetKept => BudgetKept')
BY RequestStep, BucketsUnchanged DEF Inv

-----------------------------------------------------------------------------
(* The actions. *)

LEMMA ReplyStep ==
    ASSUME Inv, NEW r \in Reqs, NEW code \in Codes, Reply(r, code)
    PROVE  Inv' /\ (BudgetKept => BudgetKept')
BY InvTimes, AnswerSound, SlotStep DEF Reply

LEMMA BeginStep ==
    ASSUME Inv, NEW r \in Reqs, NEW due \in Seq(Charge), Begin(r, due)
    PROVE  Inv' /\ (BudgetKept => BudgetKept')
<1> DEFINE q == [asked |-> due, due |-> due, now |-> clock, code |-> "none", retry |-> 0]
<1>1. Sound(q)
  BY InvTimes DEF Sound, Request, Codes
<1>2. req' = [req EXCEPT ![r] = q] /\ UNCHANGED <<clock, bucket, window>>
  BY DEF Begin
<1> HIDE DEF q
<1> QED
  BY <1>1, <1>2, SlotStep

LEMMA GameRequestStep ==
    ASSUME Inv, NEW r \in Reqs, NEW u \in Users \cup {NoUser}, GameRequest(r, u)
    PROVE  Inv' /\ (BudgetKept => BudgetKept')
<1> DEFINE c == [key |-> <<"user", u>>, cost |-> TokenCost]
<1>1. c \in Charge
  BY DEF Charge, Keys
<1>2. << c >> \in Seq(Charge)
  BY <1>1
<1> QED
  BY <1>2, BeginStep DEF GameRequest

LEMMA AuthRequestStep ==
    ASSUME Inv, NEW r \in Reqs, NEW form \in Forms,
           NEW address \in Addresses \cup {UnknownAddress},
           NEW email \in Emails \cup {BadEmail}, AuthRequest(r, form, address, email)
    PROVE  Inv' /\ (BudgetKept => BudgetKept')
<1>1. CASE email = BadEmail
  BY <1>1, ReplyStep DEF AuthRequest, Codes
<1>2. CASE email # BadEmail
  <2> DEFINE c == [key  |-> <<IPPrefix(form), address>>,
                   cost |-> IF address = UnknownAddress THEN 0 ELSE TokenCost]
             d == [key  |-> <<EmailPrefix(form), email>>, cost |-> TokenCost]
  <2>1. <<IPPrefix(form), address>> \in Keys /\ <<EmailPrefix(form), email>> \in Keys
    BY <1>2 DEF Keys
  <2>2. c \in Charge /\ d \in Charge
    BY <2>1 DEF Charge
  <2>3. Begin(r, << c, d >>)
    BY <1>2 DEF AuthRequest
  <2> HIDE DEF c, d
  <2>4. << c, d >> \in Seq(Charge)
    BY <2>2
  <2> QED
    BY <2>3, <2>4, BeginStep
<1> QED
  BY <1>1, <1>2

\* A script that admits takes from one bucket what the budget allows.
LEMMA TakeStep ==
    ASSUME Inv, NEW c \in Charge, NEW now \in 0 .. clock, Take(c, now)
    PROVE  BucketsOK' /\ clock' = clock /\ (BudgetKept => BudgetKept')
<1> DEFINE k == c.key
           b == Charged(bucket[k], now, c.cost, clock)
<1>1. /\ k \in Keys /\ c.cost \in {0, TokenCost} /\ c.cost \in Nat
      /\ clock \in Nat /\ now \in Nat /\ clock - now \in Nat
      /\ bucket[k] \in Bucket \cup {NoBucket}
  BY InvTimes, BucketAssumption DEF Charge
<1>2. /\ Allows(bucket[k], now, c.cost)
      /\ bucket' = [bucket EXCEPT ![k] = b]
      /\ spent' = [spent EXCEPT ![k] = @ + c.cost]
      /\ late' = [late EXCEPT ![k] = @ + (clock - now)]
      /\ clock' = clock /\ start' = start
  BY DEF Take
<1>3. /\ b \in Bucket
      /\ Kept(b, clock)
      /\ Refilled(b, clock) <= Refilled(bucket[k], clock) - c.cost + RefillRate * (clock - now)
  BY <1>1, <1>2, ChargedSound
<1> HIDE DEF b
<1>4. BucketsOK'
  BY <1>1, <1>2, <1>3 DEF Inv, BucketsOK
<1>5. ASSUME BudgetKept, NEW j \in Keys PROVE Budget(j)'
  <2>1. Budget(j)
    BY <1>5 DEF BudgetKept
  <2>2. CASE j # k
    <3>1. bucket'[j] = bucket[j] /\ spent'[j] = spent[j] /\ late'[j] = late[j]
      BY <1>2, <2>2 DEF Inv, BucketsOK
    <3> QED
      BY <1>2, <2>1, <3>1 DEF Budget
  <2>3. CASE j = k
    <3>1. /\ bucket'[k] = b
          /\ spent'[k] = spent[k] + c.cost
          /\ late'[k] = late[k] + (clock - now)
      BY <1>1, <1>2 DEF Inv, BucketsOK
    <3> DEFINE w == (clock - start) + late[k]
               n == clock - now
    <3>2. w \in Nat /\ n \in Nat /\ spent[k] \in Nat
      BY <1>1, InvTimes
    <3>3. (clock - start) + (late[k] + (clock - now)) = w + n
      BY <1>1, InvTimes
    <3>4. /\ Refilled(bucket[k], clock) \in Nat
          /\ Refilled(b, clock) \in Nat
      BY <1>1, <1>3, RefilledType, BucketAssumption
    <3>5. /\ spent[k] + Refilled(bucket[k], clock) <= Capacity + RefillRate * w
          /\ Refilled(b, clock) <= Refilled(bucket[k], clock) - c.cost + RefillRate * n
      BY <1>3, <2>1, <2>3 DEF Budget
    <3> HIDE DEF w, n
    <3>6. RefillRate * (w + n) = RefillRate * w + RefillRate * n
      BY <3>2, BucketAssumption
    <3>7. RefillRate * w \in Nat /\ RefillRate * n \in Nat
      BY <3>2, BucketAssumption
    <3>8. spent[k] + c.cost + Refilled(b, clock) <= Capacity + RefillRate * (w + n)
      BY <1>1, <3>2, <3>4, <3>5, <3>6, <3>7, BucketAssumption
    <3> QED
      BY <1>2, <2>3, <3>1, <3>3, <3>8 DEF Budget
  <2> QED
    BY <2>2, <2>3
<1> QED
  BY <1>2, <1>4, <1>5 DEF BudgetKept

LEMMA AdmitStep ==
    ASSUME Inv, NEW r \in Reqs, Admit(r)
    PROVE  Inv' /\ (BudgetKept => BudgetKept')
<1> DEFINE q == IF Tail(req[r].due) = << >> THEN Answer("passed", 0)
                ELSE [req[r] EXCEPT !.due = Tail(req[r].due)]
<1>1. ~Idle(r) /\ Take(Head(req[r].due), req[r].now)
  BY DEF Admit
<1>2. req' = [req EXCEPT ![r] = q]
  BY DEF Admit
<1>3. BucketsOK' /\ clock' = clock /\ (BudgetKept => BudgetKept')
  BY <1>1, InvRequest, TakeStep
<1>4. Sound(q)
  <2>1. Sound(Answer("passed", 0))
    BY InvTimes, AnswerSound DEF Codes
  <2>2. Sound([req[r] EXCEPT !.due = Tail(req[r].due)])
    BY <1>1, InvRequest DEF Sound, Request, Inv, RequestsOK
  <2> QED
    BY <2>1, <2>2
<1> HIDE DEF q
<1> QED
  BY <1>2, <1>3, <1>4, RequestStep DEF Inv

LEMMA RefuseStep ==
    ASSUME Inv, NEW r \in Reqs, Refuse(r)
    PROVE  Inv' /\ (BudgetKept => BudgetKept')
<1> DEFINE c == Head(req[r].due)
           w == RetryAfter(bucket[c.key], req[r].now, c.cost)
<1>1. ~Idle(r) /\ ~Allows(bucket[c.key], req[r].now, c.cost)
  BY DEF Refuse
<1>2. /\ req' = [req EXCEPT ![r] = Answer("too_many_requests", w)]
      /\ UNCHANGED <<clock, bucket, window>>
  BY DEF Refuse
<1>3. c.key \in Keys /\ c.cost \in Nat /\ req[r].now \in Nat
  BY <1>1, InvRequest, InvTimes, BucketAssumption
<1>4. bucket[c.key] \in Bucket \cup {NoBucket}
  BY <1>3, InvTimes
<1> HIDE DEF c
<1>5. w \in Nat
  BY <1>1, <1>3, <1>4, RetryAfterCovers
<1> HIDE DEF w
<1>6. Sound(Answer("too_many_requests", w))
  BY <1>5, InvTimes, AnswerSound DEF Codes
<1> QED
  BY <1>2, <1>6, SlotStep

LEMMA LimiterErrorStep ==
    ASSUME Inv, NEW r \in Reqs, LimiterError(r)
    PROVE  Inv' /\ (BudgetKept => BudgetKept')
<1>1. ~Idle(r) /\ req' = [req EXCEPT ![r] = Answer("internal_error", 0)]
  BY DEF LimiterError
<1>2. Sound(Answer("internal_error", 0))
  BY InvTimes, AnswerSound DEF Codes
<1>3. CASE Take(Head(req[r].due), req[r].now)
  <2>1. Head(req[r].due) \in Charge /\ req[r].now \in 0 .. clock
    BY <1>1, InvRequest
  <2>2. BucketsOK' /\ clock' = clock /\ (BudgetKept => BudgetKept')
    BY <1>3, <2>1, TakeStep
  <2> QED
    BY <1>1, <1>2, <2>2, RequestStep DEF Inv
<1>4. CASE UNCHANGED <<clock, bucket, window>>
  BY <1>1, <1>2, <1>4, SlotStep
<1> QED
  BY <1>3, <1>4 DEF LimiterError

LEMMA RequestsUnchanged ==
    ASSUME Inv, UNCHANGED req, clock' \in Nat, clock <= clock'
    PROVE  RequestsOK'
<1>1. \A r \in Reqs : req[r].now \in Nat /\ Sound(req[r])
  BY InvRequest, InvTimes DEF Inv, RequestsOK
<1>2. \A r \in Reqs : Sound(req[r])'
  BY <1>1, InvTimes DEF Sound
<1> QED
  BY <1>2 DEF Inv, RequestsOK

LEMMA RunAgainStep ==
    ASSUME Inv, NEW r \in Reqs, RunAgain(r)
    PROVE  Inv' /\ (BudgetKept => BudgetKept')
<1>1. ~Idle(r) /\ Take(Head(req[r].due), req[r].now) /\ UNCHANGED req
  BY DEF RunAgain
<1>2. BucketsOK' /\ clock' = clock /\ (BudgetKept => BudgetKept')
  BY <1>1, InvRequest, TakeStep
<1>3. RequestsOK'
  BY <1>1, <1>2, InvTimes, RequestsUnchanged
<1> QED
  BY <1>2, <1>3 DEF Inv

LEMMA ExpireStep ==
    ASSUME Inv, NEW k \in Keys, Expire(k)
    PROVE  Inv' /\ (TTLCoversRefill /\ BudgetKept => BudgetKept')
<1>1. /\ bucket[k] # NoBucket /\ clock >= bucket[k].expires
      /\ bucket' = [bucket EXCEPT ![k] = NoBucket]
      /\ UNCHANGED <<clock, req, start, spent, late>>
  BY DEF Expire, window
<1>2. BucketsOK'
  BY <1>1 DEF Inv, BucketsOK, Kept
<1>3. RequestsOK'
  BY <1>1, InvTimes, RequestsUnchanged
<1>4. ASSUME TTLCoversRefill, BudgetKept, NEW j \in Keys PROVE Budget(j)'
  <2>1. Budget(j)
    BY <1>4 DEF BudgetKept
  <2>2. CASE j # k
    <3>1. bucket'[j] = bucket[j]
      BY <1>1, <2>2 DEF Inv, BucketsOK
    <3> QED
      BY <1>1, <2>1, <3>1 DEF Budget
  <2>3. CASE j = k
    <3>1. bucket[k] \in Bucket /\ Kept(bucket[k], clock)
      BY <1>1, InvTimes DEF Inv, BucketsOK
    <3>2. Refilled(bucket[k], clock) = Capacity
      BY <1>1, <1>4, <3>1, InvTimes, ExpiredIsFull
    <3>3. bucket'[k] = NoBucket /\ Refilled(NoBucket, clock) = Capacity
      BY <1>1 DEF Inv, BucketsOK, Refilled
    <3> QED
      BY <1>1, <2>1, <2>3, <3>2, <3>3 DEF Budget
  <2> QED
    BY <2>2, <2>3
<1> QED
  BY <1>2, <1>3, <1>4 DEF Inv, BudgetKept

LEMMA TickStep ==
    ASSUME Inv, Tick
    PROVE  Inv' /\ (BudgetKept => BudgetKept')
<1>1. clock < MaxTime /\ clock' = clock + 1 /\ UNCHANGED <<bucket, req, start, spent, late>>
  BY DEF Tick, window
<1>2. clock' \in 0 .. MaxTime /\ clock \in Nat /\ clock + 1 \in Nat
  BY <1>1, InvTimes, RateLimitAssumption
<1>3. \A k \in Keys : Kept(bucket[k], clock + 1)
  BY <1>2 DEF Inv, BucketsOK, Kept, Bucket
<1>4. BucketsOK'
  BY <1>1, <1>2, <1>3 DEF Inv, BucketsOK
<1>5. RequestsOK'
  BY <1>1, <1>2, RequestsUnchanged
<1>6. ASSUME BudgetKept, NEW k \in Keys PROVE Budget(k)'
  <2> DEFINE w == (clock - start) + late[k]
             m == Refilled(bucket[k], clock)
  <2>1. PICK u \in Nat : u = clock + 1
    BY <1>2
  <2>2. w \in Nat /\ (u - start) + late[k] = w + 1
    BY <2>1, InvTimes
  <2>3. Refilled(bucket[k], u) <= m + RefillRate * (u - clock)
    BY <1>2, <2>1, InvTimes, RefilledMonotone
  <2>4. m \in 0 .. Capacity /\ Refilled(bucket[k], u) \in 0 .. Capacity
    BY <1>2, InvTimes, RefilledType
  <2>5. spent[k] + m <= Capacity + RefillRate * w /\ spent[k] \in Nat
    BY <1>6, InvTimes DEF BudgetKept, Budget
  <2>6. /\ RefillRate * (w + 1) = RefillRate * w + RefillRate /\ RefillRate * w \in Nat
        /\ RefillRate * (u - clock) = RefillRate
    BY <1>2, <2>1, <2>2, BucketAssumption
  <2> HIDE DEF w, m
  <2>7. spent[k] + Refilled(bucket[k], u) <= Capacity + RefillRate * (w + 1)
    BY <2>3, <2>4, <2>5, <2>6, BucketAssumption
  <2>8. spent[k] + Refilled(bucket[k], u) <= Capacity + RefillRate * ((u - start) + late[k])
    BY <2>2, <2>7
  <2>9. clock' = u
    BY <1>1, <2>1
  <2> QED
    BY <1>1, <2>8, <2>9 DEF Budget
<1> QED
  BY <1>4, <1>5, <1>6 DEF Inv, BudgetKept

LEMMA OpenWindowStep ==
    ASSUME Inv, OpenWindow
    PROVE  Inv' /\ BudgetKept'
<1>1. /\ start' = clock
      /\ spent' = [k \in Keys |-> 0] /\ late' = [k \in Keys |-> 0]
      /\ UNCHANGED <<clock, bucket, req>>
  BY DEF OpenWindow
<1>2. BucketsOK'
  BY <1>1, InvTimes DEF Inv, BucketsOK
<1>3. RequestsOK'
  BY <1>1, InvTimes, RequestsUnchanged
<1>4. ASSUME NEW k \in Keys PROVE Budget(k)'
  <2>1. Refilled(bucket[k], clock) \in 0 .. Capacity
    BY InvTimes, RefilledType
  <2>2. (clock - clock) + 0 = 0 /\ RefillRate * 0 = 0
    BY InvTimes, BucketAssumption
  <2>3. 0 + Refilled(bucket[k], clock) <= Capacity + RefillRate * ((clock - clock) + 0)
    BY <2>1, <2>2, BucketAssumption
  <2> QED
    BY <1>1, <2>3 DEF Budget
<1> QED
  BY <1>2, <1>3, <1>4 DEF Inv, BudgetKept

LEMMA StutterStep ==
    ASSUME Inv, UNCHANGED vars
    PROVE  Inv' /\ (BudgetKept => BudgetKept')
<1>1. BucketsOK' /\ (BudgetKept => BudgetKept')
  BY BucketsUnchanged DEF Inv, vars, window
<1>2. RequestsOK'
  BY InvTimes, RequestsUnchanged DEF vars
<1> QED
  BY <1>1, <1>2 DEF Inv

\* Every step keeps the invariant; the budget too, if keys live long enough.
LEMMA NextStep ==
    ASSUME Inv, [Next]_vars
    PROVE  Inv' /\ (TTLCoversRefill /\ BudgetKept => BudgetKept')
<1>1. ASSUME NEW r \in Reqs, NEW u \in Users \cup {NoUser}, GameRequest(r, u)
      PROVE  Inv' /\ (BudgetKept => BudgetKept')
  BY <1>1, GameRequestStep
<1>2. ASSUME NEW r \in Reqs, StatusRequest(r)
      PROVE  Inv' /\ (BudgetKept => BudgetKept')
  BY <1>2, ReplyStep DEF StatusRequest, Codes
<1>3. ASSUME NEW r \in Reqs, NEW form \in Forms,
             NEW address \in Addresses \cup {UnknownAddress},
             NEW email \in Emails \cup {BadEmail}, AuthRequest(r, form, address, email)
      PROVE  Inv' /\ (BudgetKept => BudgetKept')
  BY <1>3, AuthRequestStep
<1>4. ASSUME NEW r \in Reqs, Admit(r)
      PROVE  Inv' /\ (BudgetKept => BudgetKept')
  BY <1>4, AdmitStep
<1>5. ASSUME NEW r \in Reqs, Refuse(r)
      PROVE  Inv' /\ (BudgetKept => BudgetKept')
  BY <1>5, RefuseStep
<1>6. ASSUME NEW r \in Reqs, LimiterError(r)
      PROVE  Inv' /\ (BudgetKept => BudgetKept')
  BY <1>6, LimiterErrorStep
<1>7. ASSUME NEW r \in Reqs, RunAgain(r)
      PROVE  Inv' /\ (BudgetKept => BudgetKept')
  BY <1>7, RunAgainStep
<1>8. ASSUME NEW k \in Keys, Expire(k)
      PROVE  Inv' /\ (TTLCoversRefill /\ BudgetKept => BudgetKept')
  BY <1>8, ExpireStep
<1>9. CASE Tick
  BY <1>9, TickStep
<1>10. CASE OpenWindow
  BY <1>10, OpenWindowStep
<1>11. CASE UNCHANGED vars
  BY <1>11, StutterStep
<1> QED
  BY <1>1, <1>2, <1>3, <1>4, <1>5, <1>6, <1>7, <1>8, <1>9, <1>10, <1>11 DEF Next

LEMMA InitSound == Init => Inv /\ BudgetKept
<1> SUFFICES ASSUME Init PROVE Inv /\ BudgetKept
  OBVIOUS
<1>1. /\ clock = 0 /\ start = 0
      /\ bucket = [k \in Keys |-> NoBucket]
      /\ req = [r \in Reqs |-> Answer("none", 0)]
      /\ spent = [k \in Keys |-> 0] /\ late = [k \in Keys |-> 0]
  BY DEF Init
<1>2. BucketsOK
  BY <1>1, RateLimitAssumption DEF BucketsOK, Kept
<1>3. Sound(Answer("none", 0))
  BY <1>1, AnswerSound DEF Codes
<1>4. RequestsOK
  BY <1>1, <1>3 DEF RequestsOK, Sound
<1>5. ASSUME NEW k \in Keys PROVE Budget(k)
  <2>1. /\ Refilled(bucket[k], clock) = Capacity
        /\ spent[k] = 0 /\ (clock - start) + late[k] = 0
    BY <1>1 DEF Refilled
  <2>2. RefillRate * 0 = 0 /\ Capacity \in Nat
    BY BucketAssumption
  <2> QED
    BY <2>1, <2>2 DEF Budget
<1> QED
  BY <1>2, <1>4, <1>5 DEF Inv, BudgetKept

LEMMA InvAlways == Spec => []Inv
<1>1. Inv /\ [Next]_vars => Inv'
  BY NextStep
<1> QED
  BY <1>1, InitSound, PTL DEF Spec

-----------------------------------------------------------------------------
(* The properties. *)

\* RateLimit's type invariant: no bucket ever holds fewer than no tokens or more
\* than its capacity, and none was refilled, by whichever request's time, in
\* the future (RateLimitRepository.ConsumeToken).
THEOREM TypeCorrect == Spec => []TypeOK
BY InvAlways, InvType, PTL

\* Redis drops a bucket only when it would be full again, if the life of a key
\* is at least the time of a full refill (buildRateLimitRepository: 60 seconds
\* against 20 tokens at 5 a second), so an expired key costs nothing.
THEOREM ExpiryIsHarmless ==
    ASSUME TTLCoversRefill
    PROVE  Spec => []ExpiryForgetsOnlyFullBuckets
<1>1. Inv => ExpiryForgetsOnlyFullBuckets
  <2> SUFFICES ASSUME Inv, NEW k \in Keys,
                      bucket[k] # NoBucket, clock >= bucket[k].expires
               PROVE  Refilled(bucket[k], clock) = Capacity
    BY DEF ExpiryForgetsOnlyFullBuckets
  <2>1. bucket[k] \in Bucket /\ Kept(bucket[k], clock) /\ clock \in Nat
    BY InvTimes DEF Inv, BucketsOK
  <2> QED
    BY <2>1, ExpiredIsFull
<1> QED
  BY <1>1, InvAlways, PTL

\* Under the same condition a bucket lets through, in any window of time, no
\* more than a full bucket, the refill of the window, and the refill of the
\* seconds by which admitted requests were late, however requests that read the
\* clock early overtake each other on the way to the script.
THEOREM AdmissionsAreBounded ==
    ASSUME TTLCoversRefill
    PROVE  Spec => []AdmissionBound
<1>1. Init => Inv /\ BudgetKept
  BY InitSound
<1>2. Inv /\ BudgetKept /\ [Next]_vars => Inv' /\ BudgetKept'
  BY NextStep
<1>3. Inv /\ BudgetKept => AdmissionBound
  <2> SUFFICES ASSUME Inv, BudgetKept, NEW k \in Keys
               PROVE  spent[k] <= Capacity + RefillRate * ((clock - start) + late[k])
    BY DEF AdmissionBound
  <2> DEFINE bound == Capacity + RefillRate * ((clock - start) + late[k])
  <2>1. spent[k] + Refilled(bucket[k], clock) <= bound
    BY DEF BudgetKept, Budget
  <2>2. Refilled(bucket[k], clock) \in Nat /\ spent[k] \in Nat
    BY InvTimes, RefilledType, BucketAssumption
  <2>3. bound \in Nat
    BY InvTimes, BucketAssumption
  <2> HIDE DEF bound
  <2>4. spent[k] <= bound
    BY <2>1, <2>2, <2>3
  <2> QED
    BY <2>4 DEF bound
<1> QED
  BY <1>1, <1>2, <1>3, PTL DEF Spec

\* No other step than the refusal of the request in slot r gives it that answer.
LEMMA OnlyRefuseRefuses ==
    ASSUME Inv, [Next]_vars, NEW r \in Reqs, ~Idle(r),
           req'[r].code = "too_many_requests"
    PROVE  Refuse(r)
<1>0. req \in [Reqs -> Request] /\ req[r].code = "none"
  BY InvRequest DEF Inv, RequestsOK
<1>1. req'[r] # req[r]
  BY <1>0
<1>2. UNCHANGED req => FALSE
  BY <1>1
<1>3. ASSUME NEW s \in Reqs, Idle(s), NEW q, req' = [req EXCEPT ![s] = q] PROVE FALSE
  <2>1. s # r
    BY <1>3
  <2> QED
    BY <1>0, <1>1, <1>3, <2>1
<1>4. ASSUME NEW s \in Reqs, NEW u \in Users \cup {NoUser}, GameRequest(s, u) PROVE FALSE
  BY <1>3, <1>4 DEF GameRequest, Begin
<1>5. ASSUME NEW s \in Reqs, StatusRequest(s) PROVE FALSE
  BY <1>3, <1>5 DEF StatusRequest, Reply
<1>6. ASSUME NEW s \in Reqs, NEW form \in Forms,
             NEW address \in Addresses \cup {UnknownAddress},
             NEW email \in Emails \cup {BadEmail}, AuthRequest(s, form, address, email)
      PROVE  FALSE
  BY <1>3, <1>6 DEF AuthRequest, Begin, Reply
<1>7. ASSUME NEW s \in Reqs, Admit(s) PROVE FALSE
  <2>1. CASE s # r
    BY <1>0, <1>1, <1>7, <2>1 DEF Admit
  <2>2. CASE s = r
    <3> DEFINE q == [req[r] EXCEPT !.due = Tail(req[r].due)]
    <3>1. req'[r] = Answer("passed", 0) \/ req'[r] = q
      BY <1>0, <1>7, <2>2 DEF Admit
    <3>2. q.code = req[r].code
      BY <1>0 DEF Request
    <3>3. Answer("passed", 0).code = "passed"
      BY DEF Answer
    <3> HIDE DEF q
    <3> QED
      BY <1>0, <3>1, <3>2, <3>3
  <2> QED
    BY <2>1, <2>2
<1>8. ASSUME NEW s \in Reqs, Refuse(s) PROVE s = r
  BY <1>0, <1>1, <1>8 DEF Refuse
<1>9. ASSUME NEW s \in Reqs, LimiterError(s) PROVE FALSE
  <2>1. req' = [req EXCEPT ![s] = Answer("internal_error", 0)]
    BY <1>9 DEF LimiterError
  <2> QED
    BY <1>0, <1>1, <2>1 DEF Answer
<1>10. /\ (\E k \in Keys : Expire(k)) \/ Tick \/ OpenWindow \/ UNCHANGED vars => UNCHANGED req
       /\ (\E s \in Reqs : RunAgain(s)) => UNCHANGED req
  BY DEF Expire, Tick, OpenWindow, RunAgain, vars
<1> QED
  BY <1>2, <1>4, <1>5, <1>6, <1>7, <1>8, <1>9, <1>10 DEF Next

\* If a request costs no more than a full bucket holds, a client that waits for
\* the seconds of Retry-After finds its tokens, although the seconds are counted
\* from the refusal and worked out from the older time of the request
\* (waitMillis of the script, math.Ceil in ConsumeToken).
THEOREM RetryAfterIsHonest ==
    ASSUME CostWithinCapacity
    PROVE  Spec => RetryAfterHonest
<1> DEFINE c(r) == Head(req[r].due)
           Honest(r) == Allows(bucket'[c(r).key], clock + req'[r].retry, c(r).cost)
<1>1. ASSUME Inv, [Next]_vars, NEW r \in Reqs, ~Idle(r),
             req'[r].code = "too_many_requests"
      PROVE  Honest(r)
  <2> DEFINE b == bucket[c(r).key]
             w == RetryAfter(b, req[r].now, c(r).cost)
  <2>1. Refuse(r)
    BY <1>1, OnlyRefuseRefuses
  <2>2. /\ ~Allows(b, req[r].now, c(r).cost)
        /\ req' = [req EXCEPT ![r] = Answer("too_many_requests", w)]
        /\ bucket' = bucket
    BY <2>1 DEF Refuse
  <2>3. /\ c(r).key \in Keys /\ c(r).cost \in {0, TokenCost}
        /\ req[r].now \in 0 .. clock /\ clock \in Nat
    BY <1>1, InvRequest, InvTimes
  <2>4. Kept(b, clock)
    BY <1>1, <2>3 DEF Inv, BucketsOK
  <2>5. req'[r].retry = w
    BY <1>1, <2>2 DEF Inv, RequestsOK, Answer
  <2> HIDE DEF b
  <2>6. Allows(b, clock + w, c(r).cost)
    BY <2>2, <2>3, <2>4, WaitingPays
  <2> HIDE DEF w
  <2> QED
    BY <2>2, <2>5, <2>6 DEF b
<1>2. Inv /\ [Next]_vars =>
        [\A r \in Reqs :
            ~Idle(r) /\ req'[r].code = "too_many_requests" =>
              LET d == Head(req[r].due)
              IN  Allows(bucket'[d.key], clock + req'[r].retry, d.cost)]_vars
  BY <1>1
<1> QED
  BY <1>2, InvAlways, PTL DEF Spec, RetryAfterHonest

\* If moreover the refill of one second pays for a request, the waiting client
\* finds the tokens for all its charges (EnforceAuthRateLimit: those of the address,
\* spent before the e-mail was refused, and those of the e-mail).
THEOREM RefusedRequestsGetThrough ==
    ASSUME CostWithinCapacity, CostWithinSecond
    PROVE  Spec => RetryAdmitsRequest
<1>1. ASSUME Inv, [Next]_vars, NEW r \in Reqs, ~Idle(r),
             req'[r].code = "too_many_requests", NEW i \in DOMAIN req[r].asked
      PROVE  Allows(bucket'[req[r].asked[i].key], clock + req'[r].retry,
                    req[r].asked[i].cost)
  <2> DEFINE d == Head(req[r].due)
             c == req[r].asked[i]
             w == RetryAfter(bucket[d.key], req[r].now, d.cost)
  <2>1. Refuse(r)
    BY <1>1, OnlyRefuseRefuses
  <2>2. /\ ~Allows(bucket[d.key], req[r].now, d.cost)
        /\ req' = [req EXCEPT ![r] = Answer("too_many_requests", w)]
        /\ bucket' = bucket
    BY <2>1 DEF Refuse
  <2>3. w \in Nat \ {0}
    <3>1. /\ d.key \in Keys /\ d.cost \in Nat /\ req[r].now \in Nat
          /\ bucket[d.key] \in Bucket \cup {NoBucket}
      BY <1>1, InvRequest, InvTimes, BucketAssumption
    <3> HIDE DEF d
    <3> QED
      BY <2>2, <3>1, RetryAfterCovers
  <2>4. req'[r].retry = w
    BY <1>1, <2>2 DEF Inv, RequestsOK, Answer
  <2> HIDE DEF w, d
  <2>5. c \in Charge
    <3>1. req[r].asked \in Seq(Charge)
      BY <1>1, InvRequest DEF Request
    <3> QED
      BY <1>1, <3>1
  <2>6. c.key \in Keys /\ c.cost \in {0, TokenCost} /\ Kept(bucket[c.key], clock)
    BY <1>1, <2>5 DEF Charge, Inv, BucketsOK
  <2> HIDE DEF c
  <2>7. Allows(bucket[c.key], clock + w, c.cost)
    BY <1>1, <2>3, <2>6, InvTimes, AnyWaitPays
  <2>8. Allows(bucket'[c.key], clock + req'[r].retry, c.cost)
    BY <2>2, <2>4, <2>7
  <2> QED
    BY <2>8 DEF c
<1>2. Inv /\ [Next]_vars =>
        [\A r \in Reqs :
            ~Idle(r) /\ req'[r].code = "too_many_requests" =>
              \A i \in DOMAIN req[r].asked :
                 LET c == req[r].asked[i]
                 IN  Allows(bucket'[c.key], clock + req'[r].retry, c.cost)]_vars
  BY <1>1
<1> QED
  BY <1>2, InvAlways, PTL DEF Spec, RetryAdmitsRequest

=============================================================================
