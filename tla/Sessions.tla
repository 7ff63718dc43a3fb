------------------------------ MODULE Sessions ------------------------------
(***************************************************************************)
(* Accounts, login sessions and the way of a request to its handler:       *)
(* backend/router, the middlewares, backend/usecase/user_usecase.go and    *)
(* backend/controller/user_controller.go over the statements of            *)
(* user_repository.go and user_session_repository.go.                      *)
(*                                                                         *)
(* Every request is served by a goroutine of its own.  What it does to the *)
(* two tables is a sequence of single statements between which time passes *)
(* and other requests run; `at' names the statement to come.  A request    *)
(* carries the cookies that its browser held when it was sent.  The two    *)
(* cookies, session_id and csrf_token, are always set and cleared          *)
(* together and are one entry of the browser here.                         *)
(*                                                                         *)
(* A user is known by the e-mail of the account.  The game behind the API  *)
(* is the subject of GameService: here its handler answers well or with an *)
(* error.                                                                  *)
(***************************************************************************)
EXTENDS Naturals, FiniteSets

CONSTANTS
    Emails,     \* normalized e-mail addresses
    Ids,        \* session ids that uuid.NewString may still return
    Browsers,   \* browsers, each with one pair of cookies
    Reqs,       \* request slots: how many requests can be in flight
    TTL,        \* life of a session: 24 hours, for login and refresh alike
    NoId,       \* no session id
    Unused,     \* the id has not been given to a session yet
    Deleted,    \* the row of the session was deleted; tells apart no more than
                \* Unused to any statement, since an id is never given twice
    MaxTime,    \* bound on the clock
    MaxFaults   \* bound on failed statements, lost answers and server stops

ASSUME SessionsAssumption ==
    /\ NoId \notin Ids
    /\ Emails # {} /\ Browsers # {}
    /\ TTL \in Nat \ {0}
    /\ MaxTime \in Nat
    /\ MaxFaults \in Nat

Row == [user : Emails, expires : Nat]

ASSUME MarksAreNoRows == Unused # Deleted /\ Unused \notin Row /\ Deleted \notin Row

VARIABLES
    clock,     \* the time, the same for server and browsers
    account,   \* the e-mails in the table users
    session,   \* session[s]: the row of s in user_sessions, or a mark
    cookie,    \* cookie[b]: the cookies of browser b
    req,       \* req[r]: what the goroutine in slot r has in hand
    faults     \* failures so far

vars == <<clock, account, session, cookie, req, faults>>

\* POST /signup, POST /login, POST /logout, any POST under /api/game, and GET
\* /api/game/status.
Ops == {"signup", "login", "logout", "play", "status"}

Stages == {"idle", "auth", "purge", "game", "refresh", "createAccount",
           "findUser", "createSession", "deleteSession", "answer"}

Cookie == [id : Ids \cup {NoId}, until : Nat]

NoCookie == [id |-> NoId, until |-> 0]

\* op, browser, email : what is asked, from where, and the e-mail entered
\* sid                : the session_id cookie, where the route looks at it
\* seen               : the expiry that RequireAuth read
\* due                : the expiry to be written
\* set                : the cookies that the response sets or clears
Request ==
    [at      : Stages,
     op      : Ops,
     browser : Browsers,
     email   : Emails,
     sid     : Ids \cup {NoId},
     seen    : Nat,
     due     : Nat,
     set     : Cookie]

Idle ==
    [at |-> "idle", op |-> "status", browser |-> CHOOSE b \in Browsers : TRUE,
     email |-> CHOOSE e \in Emails : TRUE, sid |-> NoId, seen |-> 0, due |-> 0,
     set |-> NoCookie]

Init ==
    /\ clock = 0
    /\ account = {}
    /\ session = [s \in Ids |-> Unused]
    /\ cookie = [b \in Browsers |-> NoCookie]
    /\ req = [r \in Reqs |-> Idle]
    /\ faults = 0

-----------------------------------------------------------------------------
(* The tables. *)

Stored(s) == s \in Ids /\ session[s] \in Row

\* Faulty variant: a session in its last unit of time is taken for expired.
ExpiredEarly(s) == session[s].expires <= clock + 1

\* !ExpiresAt.After(now)
Expired(s) == session[s].expires <= clock

\* DELETE ... WHERE id = ?
Without(s) ==
    IF Stored(s) THEN [session EXCEPT ![s] = Deleted] ELSE session

\* Faulty variant: the statement inserts the row if there is none.
SavedTTL(s, expires) ==
    [session EXCEPT ![s] = [user |-> CHOOSE e \in Emails : TRUE, expires |-> expires]]

\* Faulty variant: the whole row is written, with what the middleware knows of it.
SavedBlank(s, expires) ==
    IF Stored(s) THEN [session EXCEPT ![s] = [user |-> "", expires |-> expires]]
    ELSE session

\* UPDATE ... SET expires_at = ? WHERE id = ?
RefreshTTL(s, expires) ==
    IF Stored(s) THEN [session EXCEPT ![s].expires = expires] ELSE session

-----------------------------------------------------------------------------
(* Routes. *)

\* The statement each route begins with, once the rate limiter (see RateLimit),
\* which changes nothing here, has let the request pass ...
Route == [signup |-> "createAccount", login |-> "findUser",
          logout |-> "auth", play |-> "auth", status |-> "auth"]

\* ... and the handler behind RequireAuth and CSRFMiddleware.
Handler == [play |-> "game", status |-> "game", logout |-> "deleteSession"]

\* GET, HEAD and OPTIONS need no CSRF token and refresh no session.
SafeMethod(op) == op = "status"

\* Bound: an id is left for every login in flight that has not stored its own.
IdsLeft ==
    Cardinality({s \in Ids : session[s] = Unused}) >
        Cardinality({r \in Reqs : req[r].op = "login"})

Send(r, b, op, email) ==
    /\ req[r].at = "idle"
    /\ op = "login" => IdsLeft
    /\ req' = [req EXCEPT ![r] =
                 [Idle EXCEPT !.at = Route[op], !.op = op, !.browser = b, !.email = email,
                              !.sid = IF op \in DOMAIN Handler THEN cookie[b].id ELSE NoId]]
    /\ UNCHANGED <<clock, account, session, cookie, faults>>

-----------------------------------------------------------------------------
(* Steps of a goroutine. *)

Becomes(r, q) ==
    /\ req' = [req EXCEPT ![r] = q]
    /\ UNCHANGED <<clock, cookie, faults>>

Goto(r, stage) == [req[r] EXCEPT !.at = stage]

\* The request is answered without a word about cookies, with an error or not.
End(r) == Becomes(r, Idle)

\* The response sets or clears the cookies of the browser once it arrives.
SetCookies(r, c) == [Idle EXCEPT !.at = "answer", !.browser = req[r].browser, !.set = c]

\* The expiry of a session, and of its cookies, that is stored by Login.
LoginExpiry == clock + TTL

\* Faulty variant: the router configures a shorter life than Login has.
RefreshExpiryShort == clock + TTL - 1

\* The expiry of a session that is refreshed.
RefreshExpiry == clock + TTL

\* The request, now q, goes on to its handler, or is answered with 403 because
\* the X-CSRF-Token header does not repeat the csrf_token cookie.
CSRFMiddleware(r, q) ==
    \/ Becomes(r, [q EXCEPT !.at = Handler[q.op]])
    \/ ~SafeMethod(q.op) /\ End(r)

\* RequireAuth reads the session and the clock and answers 401, or deletes the
\* expired session first, or lets the request go on.
RequireAuth(r) ==
    LET s == req[r].sid
        q == [req[r] EXCEPT !.seen = session[s].expires]
    IN  /\ req[r].at = "auth"
        /\ \/ /\ ~Stored(s)
              /\ End(r)
           \/ /\ Stored(s) /\ Expired(s)
              /\ Becomes(r, [q EXCEPT !.at = "purge"])
           \/ /\ Stored(s) /\ ~Expired(s)
              /\ CSRFMiddleware(r, q)
        /\ UNCHANGED <<account, session>>

\* Faulty variant: the expired session is refused and left in the table.
PurgeSkipped(r) ==
    /\ req[r].at = "purge"
    /\ End(r)
    /\ UNCHANGED <<account, session>>

\* The session was expired when it was read, and is deleted now.
Purge(r) ==
    /\ req[r].at = "purge"
    /\ session' = Without(req[r].sid)
    /\ End(r)
    /\ UNCHANGED account

\* A game handler answers.  After a POST that went well the refresh middleware
\* goes on; it has computed the new expiry.
Game(r) ==
    /\ req[r].at = "game"
    /\ \/ End(r)
       \/ /\ ~SafeMethod(req[r].op)
          /\ Becomes(r, [Goto(r, "refresh") EXCEPT !.due = RefreshExpiry])
    /\ UNCHANGED <<account, session>>

\* INSERT INTO users; the unique index on the e-mail refuses a second account.
CreateAccount(r) ==
    /\ req[r].at = "createAccount"
    /\ account' = account \cup {req[r].email}
    /\ End(r)
    /\ UNCHANGED session

GetUserByEmail(r) ==
    /\ req[r].at = "findUser"
    /\ \/ /\ req[r].email \in account
          /\ Becomes(r, [Goto(r, "createSession") EXCEPT !.due = LoginExpiry])
       \/ /\ req[r].email \notin account
          /\ End(r)
    /\ UNCHANGED <<account, session>>

\* INSERT INTO user_sessions under a fresh id.
Inserted(r, s) ==
    /\ session[s] = Unused
    /\ session' = [session EXCEPT ![s] = [user |-> req[r].email, expires |-> req[r].due]]

CreateSession(r) ==
    /\ req[r].at = "createSession"
    /\ \E s \in Ids :
          /\ Inserted(r, s)
          /\ Becomes(r, SetCookies(r, [id |-> s, until |-> LoginExpiry]))
    /\ UNCHANGED account

\* Logout; its route goes through the refresh middleware as well.
DeleteSession(r) ==
    /\ req[r].at = "deleteSession"
    /\ session' = Without(req[r].sid)
    /\ Becomes(r, [Goto(r, "refresh") EXCEPT !.due = RefreshExpiry])
    /\ UNCHANGED account

\* The handler has committed the response, so that the cookies which the
\* middleware sets after this statement are not part of it; those that Logout
\* clears are.
Refresh(r) ==
    /\ req[r].at = "refresh"
    /\ session' = RefreshTTL(req[r].sid, req[r].due)
    /\ IF req[r].op = "logout" THEN Becomes(r, SetCookies(r, NoCookie)) ELSE End(r)
    /\ UNCHANGED account

\* The response to a login or a logout arrives.
Answer(r) ==
    /\ req[r].at = "answer"
    /\ cookie' = [cookie EXCEPT ![req[r].browser] = req[r].set]
    /\ req' = [req EXCEPT ![r] = Idle]
    /\ UNCHANGED <<clock, account, session, faults>>

-----------------------------------------------------------------------------
(* Failures and time. *)

\* The handler gives up; only the refresh middleware ignores the error.
AfterError(r) ==
    IF req[r].at = "refresh" /\ req[r].op = "logout"
    THEN SetCookies(r, NoCookie) ELSE Idle

\* The statement to come fails, or the answer is lost.
Fail(r) ==
    /\ req[r].at # "idle"
    /\ faults < MaxFaults
    /\ faults' = faults + 1
    /\ req' = [req EXCEPT ![r] = AfterError(r)]
    /\ UNCHANGED <<clock, account, session, cookie>>

\* The statement to come is executed, but the server is told that it failed.
FailLate(r) ==
    /\ faults < MaxFaults
    /\ faults' = faults + 1
    /\ \/ /\ req[r].at = "createSession"
          /\ \E s \in Ids : Inserted(r, s)
       \/ /\ req[r].at = "deleteSession"
          /\ session' = Without(req[r].sid)
    /\ req' = [req EXCEPT ![r] = AfterError(r)]
    /\ UNCHANGED <<clock, account, cookie>>

\* The server stops and starts again; the tables and the cookies remain.
Restart ==
    /\ faults < MaxFaults
    /\ \E r \in Reqs : req[r].at # "idle"
    /\ faults' = faults + 1
    /\ req' = [r \in Reqs |-> Idle]
    /\ UNCHANGED <<clock, account, session, cookie>>

\* Time passes; browsers drop the cookies that have run out.
Tick ==
    /\ clock < MaxTime
    /\ clock' = clock + 1
    /\ cookie' = [b \in Browsers |->
                    IF cookie[b].until <= clock' THEN NoCookie ELSE cookie[b]]
    /\ UNCHANGED <<account, session, req, faults>>

\* What a goroutine does next.
Serve(r) ==
    \/ RequireAuth(r)
    \/ Purge(r)
    \/ Game(r)
    \/ CreateAccount(r)
    \/ GetUserByEmail(r)
    \/ CreateSession(r)
    \/ DeleteSession(r)
    \/ Refresh(r)
    \/ Answer(r)

Next ==
    \/ \E r \in Reqs :
          \/ \E b \in Browsers, op \in Ops, e \in Emails : Send(r, b, op, e)
          \/ Serve(r)
          \/ Fail(r)
          \/ FailLate(r)
    \/ Restart
    \/ Tick

Spec == Init /\ [][Next]_vars

\* A goroutine is not left waiting for ever by the scheduler or the database.
Fairness == \A r \in Reqs : WF_vars(Serve(r))

FairSpec == Spec /\ Fairness

-----------------------------------------------------------------------------

\* Type correctness; in particular every session belongs to an account.
TypeOK ==
    /\ clock \in 0 .. MaxTime
    /\ account \subseteq Emails
    /\ session \in [Ids -> Row \cup {Unused, Deleted}]
    /\ \A s \in Ids : Stored(s) => session[s].user \in account
    /\ cookie \in [Browsers -> Cookie]
    /\ req \in [Reqs -> Request]
    /\ faults \in 0 .. MaxFaults

Lived(s) ==
    IF session[s] = Unused THEN "unused"
    ELSE IF session[s] = Deleted THEN "closed"
    ELSE IF Expired(s) THEN "lapsed"
    ELSE "open"

\* Slot r is served under its session, from RequireAuth to its end.
Served(r) == req[r].at \in {"game", "deleteSession", "refresh"}

Life == INSTANCE SessionLife
          WITH life <- [s \in Ids |-> Lived(s)],
               admitted <- [r \in Reqs |-> IF Served(r) THEN req[r].sid ELSE NoId]

\* Whatever the interleaving of requests, statements, failures and restarts, a
\* session is opened by one login, a request is served under it only if it was
\* open when RequireAuth read it, only such a request brings it back once it
\* has lapsed, and once logged out or purged it never returns.
ImplementsSessionLife == Life!Spec

\* Request r is at this stage now and past it after the step.
Passes(r, stage) == req[r].at = stage /\ req'[r].at # stage

\* RequireAuth deletes a session that is still good only if the session was
\* refreshed after RequireAuth had found it expired.
PurgesOnlyExpired ==
    [][\A r \in Reqs :
          LET s == req[r].sid
              StillGood == Stored(s) /\ session[s].expires > clock
          IN  Passes(r, "purge") /\ StillGood /\ session'[s] = Deleted
                => session[s].expires > req[r].seen]_vars

\* A refresh takes time from a session only if another request has refreshed
\* the session since RequireAuth read it for this one: of two refreshes that
\* overlap, the earlier time may be written last.
ShortenedOnlyIfOvertaken ==
    [][\A r \in Reqs :
          LET s == req[r].sid
              Shortened == Stored(s) /\ session'[s].expires < session[s].expires
          IN  Passes(r, "refresh") /\ Shortened
                => session[s].expires > req[r].seen]_vars

\* A request presents session s, which has run out.
PresentedExpired(s) ==
    /\ Stored(s)
    /\ Expired(s)
    /\ \E r \in Reqs : req[r].at = "auth" /\ req[r].sid = s

\* A request that presents an expired session clears it away: the row is
\* deleted or given time again, unless a statement fails or the server stops.
UseSweeps ==
    \A s \in Ids, n \in 0 .. MaxFaults :
        (faults = n /\ PresentedExpired(s))
            ~> (~Stored(s) \/ ~Expired(s) \/ faults > n)

-----------------------------------------------------------------------------
(* What the documents say and the code does not do. *)

\* docs/specifications.md 8.2: a successful call renews the 24 hours of the
\* session.  Sessions are kept in cookies (8.1), so that a browser which has
\* just been answered holds its cookie for as long as the server its row.
CookieKeepsUp ==
    [][\A r \in Reqs :
          LET s == req[r].sid
              b == req[r].browser
          IN  Passes(r, "refresh") /\ Stored(s) /\ cookie[b].id = s
                => cookie'[b].until >= session'[s].expires]_vars

=============================================================================
