----------------------------- MODULE RateLimit -----------------------------
(***************************************************************************)
(* Rate limiting of the API: NewRateLimitMiddleware in front of the game   *)
(* endpoints (one bucket for each user), and EnforceAuthRateLimit in front *)
(* of sign-up and login (a bucket for the address, then one for the        *)
(* e-mail), over ConsumeToken.                                             *)
(*                                                                         *)
(* A request reads the clock once and then charges one or two buckets.     *)
(* Each charge is an atomic script in Redis, but between the reading of    *)
(* the clock and a script, and between two scripts, time passes and other  *)
(* requests charge the same buckets: the time that a script receives may   *)
(* lie behind the one stored in the bucket.                                *)
(*                                                                         *)
(* spent, late and start are history variables: they measure, over a       *)
(* window of time opened at any moment, what the buckets let through, and  *)
(* no action depends on them.                                              *)
(***************************************************************************)
EXTENDS TokenBucket, Sequences

CONSTANTS
    Forms,      \* which of "signup" and "login" are used
    Users,      \* user ids found through a session
    Addresses,  \* client addresses that parse
    Emails,     \* normalized e-mail addresses
    Reqs,       \* request slots: how many requests can be in flight
    MaxTime     \* bound on the clock

ASSUME RateLimitAssumption ==
    /\ Forms \subseteq {"signup", "login"}
    /\ MaxTime \in Nat

VARIABLES
    clock,   \* seconds; the API server and Redis run at the same rate
    bucket,  \* bucket[k]: what Redis holds under k, or NoBucket
    req,     \* req[r]: the charges request r has still to make (due) of all it
             \* asked for, or its answer
    start,   \* when the window was opened
    spent,   \* spent[k]: tokens taken from k since then
    late     \* late[k]: seconds by which the admitted callers' times were behind

vars == <<clock, bucket, req, start, spent, late>>
window == <<start, spent, late>>

\* The user of requests without a valid session, and the key part of an address
\* that does not parse.
NoUser == "0"
UnknownAddress == "unknown"
BadEmail == "bad"

IPPrefix(form) == IF form = "signup" THEN "signup:ip" ELSE "login:ip"
EmailPrefix(form) == IF form = "signup" THEN "signup:email" ELSE "login:email"

Keys ==
    ({"user"} \X (Users \cup {NoUser}))
      \cup ({IPPrefix(f) : f \in Forms} \X (Addresses \cup {UnknownAddress}))
      \cup ({EmailPrefix(f) : f \in Forms} \X Emails)

Charge == [key : Keys, cost : {0, TokenCost}]

Codes == {"none", "passed", "too_many_requests", "internal_error", "invalid_input"}

Request ==
    [asked : Seq(Charge), due : Seq(Charge), now : Nat, code : Codes, retry : Nat]

Answer(code, retry) ==
    [asked |-> << >>, due |-> << >>, now |-> 0, code |-> code, retry |-> retry]

Idle(r) == req[r].due = << >>

Init ==
    /\ clock = 0
    /\ bucket = [k \in Keys |-> NoBucket]
    /\ req = [r \in Reqs |-> Answer("none", 0)]
    /\ start = 0
    /\ spent = [k \in Keys |-> 0]
    /\ late = [k \in Keys |-> 0]

-----------------------------------------------------------------------------

\* Request r has read the clock and is about to make the charges due.
Begin(r, due) ==
    /\ Idle(r)
    /\ req' = [req EXCEPT ![r] = [asked |-> due, due |-> due, now |-> clock,
                                   code |-> "none", retry |-> 0]]
    /\ UNCHANGED <<clock, bucket, window>>

Reply(r, code) ==
    /\ Idle(r)
    /\ req' = [req EXCEPT ![r] = Answer(code, 0)]
    /\ UNCHANGED <<clock, bucket, window>>

\* POST under /api/game.  The lookup of the session may find any user or none.
GameRequest(r, u) ==
    Begin(r, << [key |-> <<"user", u>>, cost |-> TokenCost] >>)

\* GET /api/game/status is not limited.
StatusRequest(r) == Reply(r, "passed")

\* POST /signup and POST /login.  An address that does not parse costs nothing.
AuthRequest(r, form, address, email) ==
    IF email = BadEmail THEN Reply(r, "invalid_input")
    ELSE Begin(r, << [key  |-> <<IPPrefix(form), address>>,
                      cost |-> IF address = UnknownAddress THEN 0 ELSE TokenCost],
                     [key  |-> <<EmailPrefix(form), email>>,
                      cost |-> TokenCost] >>)

\* The script admits the caller of charge c, whose time is now.
Take(c, now) ==
    /\ Allows(bucket[c.key], now, c.cost)
    /\ bucket' = [bucket EXCEPT ![c.key] = Charged(@, now, c.cost, clock)]
    /\ spent' = [spent EXCEPT ![c.key] = @ + c.cost]
    /\ late' = [late EXCEPT ![c.key] = @ + (clock - now)]
    /\ UNCHANGED <<clock, start>>

\* The next charge is admitted; after the last one the request goes on to its handler.
Admit(r) ==
    LET rest == Tail(req[r].due)
    IN  /\ ~Idle(r)
        /\ Take(Head(req[r].due), req[r].now)
        /\ req' = [req EXCEPT ![r] = IF rest = << >> THEN Answer("passed", 0)
                                     ELSE [@ EXCEPT !.due = rest]]

\* The next charge is refused; what was charged before stays spent.
Refuse(r) ==
    LET c == Head(req[r].due)
        b == bucket[c.key]
    IN  /\ ~Idle(r)
        /\ ~Allows(b, req[r].now, c.cost)
        /\ req' = [req EXCEPT ![r] = Answer("too_many_requests",
                                            RetryAfter(b, req[r].now, c.cost))]
        /\ UNCHANGED <<clock, bucket, window>>

\* Redis does not answer, whether or not it has run the script.
LimiterError(r) ==
    /\ ~Idle(r)
    /\ req' = [req EXCEPT ![r] = Answer("internal_error", 0)]
    /\ \/ Take(Head(req[r].due), req[r].now)
       \/ UNCHANGED <<clock, bucket, window>>

\* The script has run and its reply is lost: go-redis sends it once more, and the
\* request knows nothing of it.  (A script that refuses changes nothing.)
RunAgain(r) ==
    /\ ~Idle(r)
    /\ Take(Head(req[r].due), req[r].now)
    /\ UNCHANGED req

\* Redis drops a key TTL seconds after its last EXPIRE, some time within the
\* second that the clocks show then.
Expire(k) ==
    /\ bucket[k] # NoBucket
    /\ clock >= bucket[k].expires
    /\ bucket' = [bucket EXCEPT ![k] = NoBucket]
    /\ UNCHANGED <<clock, req, window>>

Tick ==
    /\ clock < MaxTime
    /\ \A k \in Keys : bucket[k] # NoBucket => clock < bucket[k].expires
    /\ clock' = clock + 1
    /\ UNCHANGED <<bucket, req, window>>

\* History only: from now on the window begins here.
OpenWindow ==
    /\ start' = clock
    /\ spent' = [k \in Keys |-> 0]
    /\ late' = [k \in Keys |-> 0]
    /\ UNCHANGED <<clock, bucket, req>>

Next ==
    \/ \E r \in Reqs :
          \/ \E u \in Users \cup {NoUser} : GameRequest(r, u)
          \/ StatusRequest(r)
          \/ \E form \in Forms, address \in Addresses \cup {UnknownAddress},
                email \in Emails \cup {BadEmail} : AuthRequest(r, form, address, email)
          \/ Admit(r)
          \/ Refuse(r)
          \/ LimiterError(r)
          \/ RunAgain(r)
    \/ \E k \in Keys : Expire(k)
    \/ Tick
    \/ OpenWindow

Spec == Init /\ [][Next]_vars

-----------------------------------------------------------------------------

\* Type correctness; in particular a bucket holds between none and Capacity
\* tokens and was never refilled in the future.
TypeOK ==
    /\ clock \in 0 .. MaxTime
    /\ bucket \in [Keys -> Bucket \cup {NoBucket}]
    /\ \A k \in Keys : bucket[k] # NoBucket => bucket[k].last <= clock
    /\ req \in [Reqs -> Request]
    /\ \A r \in Reqs : req[r].now <= clock
    /\ start \in 0 .. clock
    /\ spent \in [Keys -> Nat]
    /\ late \in [Keys -> Nat]

\* Over any window of time a bucket lets through no more than a full bucket and
\* the refill of the elapsed seconds, plus the refill of the seconds by which
\* the times of the admitted requests were behind when their scripts ran.
AdmissionBound ==
    \A k \in Keys :
        spent[k] <= Capacity + RefillRate * ((clock - start) + late[k])

\* After the seconds of Retry-After, counted from the refusal, the bucket that
\* refused has the tokens that it missed, if nobody was charged to it meanwhile,
\* whichever request's time it was last refilled at.  For a request with one
\* charge this is all it needs; RetryAdmitsRequest is about two.
RetryAfterHonest ==
    [][\A r \in Reqs :
          ~Idle(r) /\ req'[r].code = "too_many_requests" =>
            LET c == Head(req[r].due)
            IN  Allows(bucket'[c.key], clock + req'[r].retry, c.cost)]_vars

\* After the seconds of Retry-After every charge of a refused request finds its
\* tokens, if nobody else was charged meanwhile: also in the bucket of the address,
\* which the request has drained before the bucket of the e-mail refused it, and
\* in the bucket of the e-mail, which a refused address never came to ask.
RetryAdmitsRequest ==
    [][\A r \in Reqs :
          ~Idle(r) /\ req'[r].code = "too_many_requests" =>
            \A i \in DOMAIN req[r].asked :
               LET c == req[r].asked[i]
               IN  Allows(bucket'[c.key], clock + req'[r].retry, c.cost)]_vars

\* Redis may drop only buckets that would be full again: forgetting a bucket
\* gives nobody tokens that waiting would not have given.
ExpiryForgetsOnlyFullBuckets ==
    \A k \in Keys :
        bucket[k] # NoBucket /\ clock >= bucket[k].expires =>
          Refilled(bucket[k], clock) = Capacity

=============================================================================
