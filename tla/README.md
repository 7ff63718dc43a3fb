# High-Low: a TLA+ model of the game server

The repository is a card game: a Go API server (`src/backend`) over PostgreSQL
and Redis, with a React client (`src/frontend/01`). A user plays *sets* against
the dealer. In each round both sides turn up one of their 13 cards at random;
the higher card wins, two wins end the set, five draws in a row give all cards
back. In dealer mode the user may once per set reserve the dealer's best card
for the next round (the *cheat*). Requests are optimistic: every row carries a
version `ver`, and an update names the version it is meant for.

This directory holds the specifications of that server, the TLC instances that
check them and proofs for TLAPS.

## Inventory of the system

| Component | State | Operations | Interacts with | Hard behaviour | Correct when |
|---|---|---|---|---|---|
| Game rules (`domain/game_domain.go`, the computations of `usecase/game_usecase.go`) | the row of `game_sessions` | play a round, reserve the cheat, fresh set, set mode | called by the game service | long sequences: draw resets, the cheat across a reset, running out of cards | wins decide the status; a reservation is playable and the best card; cards are never shown twice; versions advance by one |
| Game service (`usecase/game_usecase.go`, `controller/game_controller.go`, `repository/game_*`) | rows of `game_sessions` and `game_round_logs`, the locals of each request | start, select, cheat, reset, mode, status | PostgreSQL, one statement at a time, no transactions | overlapping requests, stale rows, failures and stops between statements | the rows change as if requests were indivisible; the history tells the set |
| Rate limiter (`repository/rate_limit_repository.go`, `usecase/rate_limit_usecase.go`, `middleware/rate_limit_middleware.go`) | a token bucket for each user, address and e-mail in Redis, with an expiry | charge one bucket (game) or two (sign-up, login) | Redis; in front of the handlers | time read before the script runs, key expiry, lost replies, repeated calls | admissions within any window are bounded; Retry-After is enough; expiry gives nothing away |
| Sessions (`middleware/auth_middleware.go`, `middleware/session_ttl_refresh.go`, `repository/user_session_repository.go`) | rows of `user_sessions`, cookies in the browser | create, find, refresh, delete | read twice on the way to a game handler | refresh against expiry and logout, lost answers | requests are served under open sessions only; a deleted session stays deleted; an expired one that is used is cleared away |
| Sign-up, login, logout (`usecase/user_usecase.go`, `controller/user_controller.go`, `repository/user_repository.go`) | rows of `users` | create, find | rate limiter, sessions | stops and failures between the statement and the cookies | a session belongs to an account and is opened by one login |
| CSRF check and routing (`middleware/csrf_middleware.go`, `router/`) | none | | the order rate limit, auth, CSRF, refresh, handler | | a refused request changes no session |
| Browser client (`frontend/01/src/App.tsx`, `api/`) | the status shown, the pending cheat | start, select (with cheat), reset, mode, each retried on `version_conflict` | the API | two tabs of a user; retrying on a row that has changed; lost replies | a click acts once, on what its tab displays, and ends |
| Startup (`main.go`, `db/`, `redis/`) | configuration | | | | not modelled, except for the limiter's parameters |

`PROJECT.json` lists the hazards of each component at their source lines, with
the properties that would catch them.

## Modules

| Module | Models |
|---|---|
| `GameRules` | the rules as operators on one row: `PlayRound`, `FreshSet`, `ReserveCheat`, `SetMode`, `RemainingCards`, `JudgeRound`, ... |
| `AtomicGame` | the promise: each accepted request is one step on the row of its user |
| `Refusals` | what each handler of the game checks, in the order of the code, and the error it answers |
| `GameService` | the code: requests as sequences of SQL statements, concurrent, failing, interrupted |
| `TokenBucket` | the Lua script as operators on one bucket |
| `RateLimit` | requests that read the clock and then charge one or two buckets |
| `SessionLife` | the promise: what may become of a session, and under which sessions requests are served |
| `Sessions` | the code: sign-up, login, logout, and the middlewares in front of the game handlers, as SQL statements of concurrent requests, and the cookies of browsers |
| `Client` | the tabs of one user: clicks as chains of API calls with retries |
| `MCAtomicGame`, `MCGameService`, `MCRateLimit`, `MCSessions`, `MCClient` | symmetry, views and constraints for TLC |
| `GameRulesProofs` | lemmas about the rules: the rows they return are well formed and legal |
| `AtomicGameProofs`, `GameServiceProofs`, `HistoryProofs` | theorems about the game: the atomic one, the service as its implementation, the history |
| `RateLimitProofs`, `SessionsProofs`, `ClientProofs` | theorems about the limiter, the sessions with their refinement of `SessionLife`, and the client |

Operators named as faulty variants (`UpdateAnyVersion`, `DealerAlwaysDraws`,
...) stand next to the definition they distort. Nothing uses them; each is a
bug that the properties are known to detect when it takes that definition's place.

### GameRules and AtomicGame

A row is a record with the columns of `model.Game` that the rules read. Used
cards are sets: the code appends to a slice, but only ever asks what is left of
the deck. A nil `CheatCard` is `NoCard`. The deck is `1 .. NumCards` and the
number of draws in a row that gives the cards back is `DrawLimit`; the code has
13 and 5. The two wins that end a set are fixed.

`AtomicGame` has the variable `game` and the actions `Start`, `Select`,
`Cheat`, `ResetSet` and `ChangeMode`, each guarded as its use case is. Refused
requests change nothing and are stuttering steps.

### GameService

`game` and `logs` are the tables; a user has at most one row (unique index), so
the user stands for the game's id. `req[r]` is the goroutine that serves slot
`r`. Its first step reads the row, makes the checks *in the order of the code*
and either answers or computes the row to write; the later steps are SQL
statements, named after the repository's functions:

| Operation | Statements |
|---|---|
| start, no row | read; `CreateGame` |
| start, finished set | read; `DeleteByGameID`; `UpdateWithVersion` |
| select | read; `GetRoundLogCountByGameID`; `UpdateWithVersion`; `CreateLog` |
| cheat, mode | read; `UpdateWithVersion` |
| reset | read; `DeleteByGameID`; `UpdateWithVersion` |
| status | read; `GetRoundLogsByGameID` |

Everything a handler computes between two statements depends on its own locals
only, so it is folded into the statement before it. `Fail` is a statement that
returns an error: the handler answers `internal_error` and leaves what it has
done. An update that takes effect and whose answer is lost is covered too: the
row afterwards is that of `UpdateWithVersion` followed by `Fail` or `Restart`.
`Restart` is a stop of the server, which drops all requests in flight. Both are
counted against `MaxFaults`.

Of two first starts that both find no row the second one's INSERT is refused by the
unique index on the user, and it answers `internal_error`, the general answer
(`docs/specifications.md` 7.1) to an unforeseen error, although the game is begun.

Clients may send any version. `SentVersions` reduces them to none, the current
one and an outdated one, because the handlers only compare versions for
equality; the session id of a select may be absent, the user's own or another.

### TokenBucket and RateLimit

A bucket is the Redis hash and the second of its expiry. `clock` counts whole
seconds, as `time.Now().Unix()` does. A request samples it once (`Begin`) and
each of its scripts runs later (`Admit`, `Refuse`), when other requests may have
charged the bucket with later times: the script then stores an *earlier*
`last_refill`. A key disappears in the second of its expiry, before or after the
scripts of that second. `LimiterError` is a call that fails, with or without the
script having run; `RunAgain` is a script that has run and whose reply is lost, so
that go-redis sends it again (three times at most by its default; the model
leaves the number open). Tokens are whole numbers of a common unit, which is exact for
the default parameters (20, 5 per second, cost 1, 60 seconds).

`start`, `spent` and `late` are history variables for `AdmissionBound`:
`OpenWindow` may begin a new window at any moment. The field `asked` of a
request keeps all its charges, for `RetryAdmitsRequest`.

### SessionLife and Sessions

`Sessions` has the tables `users` (`account`) and `user_sessions` (`session`),
one pair of cookies for each browser (`cookie`), a clock, and in `req[r]` the
goroutine that serves slot `r`. `at` names the statement it will execute next:

| Route | Stages |
|---|---|
| `POST /signup` | `createAccount` |
| `POST /login` | `findUser`, `createSession`, `answer` |
| `POST /logout` | `auth` (`purge` if expired), `deleteSession`, `refresh`, `answer` |
| `POST /api/game/...` | `auth` (`purge` if expired), `game`, `refresh` |
| `GET /api/game/status` | `auth` (`purge` if expired), `game` |

`RequireAuth` is the action for `FindByID`, the comparison with the clock and
`CSRFMiddleware`, which follows without another statement. The clock is read
right after the row, so both are one step. The time that `Login` and the refresh
middleware store is read one step before it is stored (`due`). A request takes
the cookies that its browser holds when it is sent, and a login or logout
changes them only when its response arrives (`Answer`). The refresh middleware
also calls `SetCookie`, but after the handler has sent the response, so that in
`Refresh` no cookie changes.

`Fail` is a statement that fails or a response that is lost, `FailLate` a
statement that is executed although an error is reported, `Restart` a stop of
the server. The game behind the API is `GameService`; here it answers well or
not. The rate limiter is left out: it changes nothing here.

`SessionLife` knows neither clock nor rows: a session is `unused`, `open`,
`lapsed` or `closed`. The refinement maps a row to `open` or `lapsed` by its
expiry, a deleted row to `closed` (the model marks it `Deleted`; the statements
do not tell it from an id that was never used), and a slot to the session under
which it is served between `RequireAuth` and its end.

What the model shows of the code besides the properties: a `GET` refreshes
nothing; a request under a session that lapses while it is served brings it back;
`RequireAuth` may delete a session that another request has just refreshed,
because it read the row before (`PurgesOnlyExpired` says that this is the only
way); two refreshes that overlap may store the earlier time last
(`ShortenedOnlyIfOvertaken` says the same for time taken from a session); the
rows of users who never come back stay in the table.

### Client

`tab[t]` is the component `App` in one tab: the status it displays (`shown`),
`cheatPending`, and the click it is working off. A click is a chain of calls:

| Button | Calls |
|---|---|
| start, mode | the operation; the status |
| select | if a cheat is pending and due: cheat; select; the status |
| reset | reset; the status |
| show status, and when the page is opened | the status |

On `version_conflict` the status is fetched (`latest`), displayed, and the
operation is tried again on it: once by `runWithVersionRetry`, up to three times
in all by `onResetSet`. Any other error ends the click. `s` is the status that
the current attempt works on, `armed` the `cheatPending` that the closure of the
click sees, and `done` a history variable.

The server is the composition of `GameRules` and `Refusals`: a call is served in
one step, which `ServiceImplementsAtomicGame` justifies, or is refused by a check.
Since a handler may have read the row before another one changed it, a call with
an outdated version may also be refused by its UPDATE (`Overtaken`). Between
`Click`, `Serve` and `Receive` the other tabs run. `Fail` is a call whose reply is
lost or an error, whether or not it took effect.

## Properties and runs

| Run | Instance | What it shows |
|---|---|---|
| `atomic` | 5 cards, limit 2, 1 user, `MaxVer` 11; 19 209 states | `WinsDecideStatus`, `CheatReservationSound`, `CardsAccounted`, `OutOfCardsOnlyAtOneAll`, `CheatSpentOnce`, `VersionsAdvance` |
| `out_of_cards` | 13 cards, limit 5 | **violated** `NeverOutOfCards`, after 13 rounds |
| `draw_reset` | as `atomic` | **violated** `DrawResetKeepsReservation`, in the second draw of a set whose cheat is reserved after the first |
| `service` | 3 cards, limit 2, 1 user, 2 requests, `MaxVer` 7, 1 fault; 650 068 states | `PendingRowsSound`; `ImplementsAtomicGame`: the service refines `AtomicGame` |
| `serial` | 3 cards, limit 2, 1 request, `MaxVer` 10, 1 fault; 77 973 states | `HistoryMatches`, `HistoryNeverAhead` |
| `conflict_trace` | 3 cards, limit 1, 2 requests | **violated** `ConflictLeavesNoTrace` |
| `round_numbers` | 2 cards, limit 1, 2 requests | **violated** `RoundNumbersUnique` |
| `rate_limit` | capacity 4, rate 2, cost 3, TTL 2, 2 requests, clock 0 to 6; 328 189 states | `AdmissionBound`, `RetryAfterHonest`, `ExpiryForgetsOnlyFullBuckets` |
| `auth_limit` | the same with cost 2, login over an address and an e-mail, clock 0 to 2; 662 566 states | for requests with two charges `ExpiryForgetsOnlyFullBuckets`, and `RetryAdmitsRequest`: Retry-After is enough for both buckets |
| `sessions` | 1 e-mail, 1 browser, 2 ids, 2 requests, TTL 2, 3 units of time, 1 fault; 462 357 states | `ImplementsSessionLife`: the code refines `SessionLife`; `PurgesOnlyExpired`, `ShortenedOnlyIfOvertaken`; liveness: `UseSweeps` |
| `cookie` | the same with 4 units of time, no fault | **violated** `CookieKeepsUp` |
| `client` | 2 tabs, 3 cards, limit 1, 3 clicks, 1 fault; 634 294 states | `ClickEffect`, `ActsOnShownRow`, `ModeClickSwitches`, `ArmedSelectCheats`, `RetryIsNewer`; liveness: `ClickEnds` |

### The runs that end in a violation

* `out_of_cards`. `docs/specifications.md` 11.1 expects the draw reset to come
  before the cards run out. With 13 cards and a limit of 5 it need not: four
  draws, a win, four draws, a win of the other side and three draws show 13
  cards at a score of 1-1. The set is then in progress with nothing to play;
  only a reset helps. A score of 1-1 is also the only one at which it can happen
  (`OutOfCardsOnlyAtOneAll`).
* `draw_reset`. `docs/specifications.md` 4.4 (lines 135-147; also 107, 216, 588, and
  test 7 at line 997) has a reservation survive the draw reset, for the next
  select to use. But a reserved card is always played in the next round, and
  Select clears it there, whether or not that round gives the cards back: if
  the player matches the reserved card and completes the run of draws, the cheat
  is gone and the next select draws at random. `CheatSpentOnce` states what the
  code does keep: a reservation is played or goes with its set. The existing test
  of the draw reset has no reservation.
* `conflict_trace`. `docs/specifications.md` 5.3 says that a conflict changes
  no state. `Start` and `ResetSet` delete the history before the update that
  detects the conflict. The trace: a finished set; a start has deleted the
  history; a mode change moves the row on; the start answers 409, and the set
  is finished without a history.
* `round_numbers`. `docs/specifications.md` 11.3 has rounds numbered by a counter
  within the set. Two overlapping selects count before either has logged.
* `cookie`. `docs/specifications.md` 8.2 renews the 24 hours of a session with
  each successful call. The row is renewed; the cookie is not, because the
  middleware sets it when the response has been sent. Login at 0, a game
  request at 1: the row lives until 3 and the cookie until 2, where the browser
  drops it and the user is logged out.

A limit of Retry-After that no document speaks about: a request that is refused
by the bucket of its e-mail is told when *that* bucket can pay, and has already
spent tokens of its address. If a request costs more than the refill of a second,
the client that obeys may be refused again, by the address. With the default cost of 1
and 5 tokens a second every bucket can pay after the second that Retry-After
is at least, so `auth_limit` takes a cost within that refill (2 and 2); with the
bucket of `rate_limit` (3 and 2) its property would not hold.

### Bounds, and why they are enough

* **Cards.** What the rules tell apart is whether a card is higher, equal or
  lower, and whether it is used. 5 cards with limit 2 are to each other as the
  13 and 5 of the code: at least two cards for every draw of the limit, fewer
  than three, so that a set runs out of cards, but only at one win each. Hands
  are given back between wins. The service runs need fewer cards, since they
  are about the statements; running out is one of the refusals they reach.
* **Versions.** `MaxVer` bounds how often a row is written. 11 in `atomic` covers
  a full set of 5 rounds with a draw reset, a cheat, a mode change, a new set
  and more; 7 in `service` lets one request sleep while the other finishes a set
  and begins the next. The bound only keeps requests from *beginning* on a row
  that has reached it.
* **Requests.** Two requests in flight are what every race above needs; the
  argument that more change nothing is the proof, which is for any number.
* **Users.** Users share nothing, every statement is keyed by the user; the proofs
  are for any number of them.
* **Rate limit.** Capacity 4, rate 2 and cost 3 make the rounding of Retry-After
  matter; in `auth_limit` cost 2 equals the refill of a second, so that a drained
  bucket can just pay again. TTL 2 is the smallest that satisfies `TTLCoversRefill`
  (`TTL * RefillRate >= Capacity`: 300 >= 20 by default). If the environment
  sets a TTL that breaks it, `ExpiryForgetsOnlyFullBuckets` and `AdmissionBound`
  fail. Buckets share nothing, so `rate_limit` has a single one. `auth_limit` has
  four (of users without a session, of the address, of addresses that do not
  parse, of the e-mail); its clock ends in the second in which the first key expires,
  and `rate_limit` goes on for four more.
* **Sessions.** Two ids are two logins, so that a session can be closed and
  another opened. With a TTL of 2 and 3 units of time a session is refreshed at
  1, or lapses at 2 under a request that is served. Two requests suffice for a
  statement of one between any two of the other. One e-mail is enough as
  accounts share nothing; one browser, as a session is only known to the browser
  of its login, except after a lost answer, when it is known to none.
* **Client.** Two tabs, since a third adds no kind of change to the row between
  two calls. Three clicks let the row change twice between a status and its use,
  so that a retry is refused as well; `Init` starts at several moments of the
  game, as the clicks would not lead from one to the other. In a set with 3 cards
  and a limit of 1 each card that matters (higher, equal, lower) can be turned up.
  Loading the status in a tab that already displays one counts as a click.

`MCGameService` declares the slots symmetric, and the run `service` looks at
states through `RowsView`, which leaves out the history: no handler reads it
before it writes, and neither property of that run mentions it. `MCRateLimit`
leaves out history variables and answers in the same way.

`CHECK_DEADLOCK FALSE` is set for `AtomicGame`, whose instance stops at
`MaxVer`, and for `Client`, whose users may stop clicking. `GameService` can always refuse or answer, and time windows can always
be opened, so the other runs check for deadlock.

### Fairness

`Sessions` assumes `WF_vars(Serve(r))` for each request: the scheduler runs
every goroutine, and the database answers a statement or reports an error. No
fairness is assumed of users, of time or of failures, and `UseSweeps` allows for
a statement that fails. Weak fairness is enough, because `Serve(r)` stays enabled
until the request is finished: no other request can block it.

`Client` assumes `WF_vars(Serve(t))` and `WF_vars(Receive(t))` for each tab: a call
is answered, and the event loop of the browser continues the code that awaits
it. Nothing forces a user to click or a call to fail. `ClickEnds` is then the
claim that the retries come to an end. The instance bounds the clicks and with
them how often other tabs move the row, so it is `RetryIsNewer` that shows that
no attempt is wasted, and the code's own bound on attempts (`Attempts`) that
would end a click under more interference.

The other specifications state no fairness and claim no liveness: in the game and
the limiter nothing runs on its own.

## Proofs

`tlapm` checks every proof to the last leaf, about 4 700 obligations. TLC has
checked each inductive invariant on the instance of a run first.

* `GameRulesProofs`: the operators return well-formed rows; `MaxIntIsBest` (the
  card a cheat reserves is in the hand and above all others, from the existence
  of a least element of the negated cards, since `MaxInt` is a `CHOOSE`);
  cardinalities of hands; every operation writes the next version. A row is
  *legal* if it is decided by wins, has a sound reservation, and hands in step and
  bounded by wins and draws; every operation leads from legal rows to legal
  rows (`FreshSetLegal`, `PlayRoundLegal`, ...). The parts need each other: a
  reservation stays playable only because it is cleared by the round that plays
  it and by the fresh set, and hands stay bounded only because the draw count
  restarts exactly when a win is counted or the hands are emptied.
* `AtomicGameProofs`: the inductive invariant is that every row is typed and legal.
  From it: `TypeCorrect`, `WinsDecide`, `ReservationsAreSound`,
  `CardsAreAccounted`, `VersionsAlwaysAdvance`, `CheatAlwaysSpentOnce`; and
  `CardsRunOutAtOneAll` under `NumCards >= 2 * DrawLimit`: with fewer than two wins
  the hands, bounded by wins and draws, hold fewer than twice the limit.
* `GameServiceProofs`: the invariant is `TypeOK`, `PendingRowsSound` and
  `Prepared` (what a handler in flight holds: a row to write, and a version
  below the bound). The idea
  is that versions only grow, so a handler that read an old row can only hold an
  old version; if its version is still current, the row is the one it read, and
  what it holds is an outcome of its operation on that row. With it each
  successful `UpdateWithVersion` or `CreateGame` is a step of `AtomicGame` and
  every other step leaves `game` alone: `ServiceImplementsAtomicGame`. What the
  rules promise then carries over step by step: `ServiceKeepsTheRules` (the
  invariants of `AtomicGame` hold of the rows of the concurrent service) and
  `ServiceVersionsAdvance`.
* `HistoryProofs`: `HistoryTellsTheSet` and `HistoryIsNeverAhead`, under `OneSlot`,
  for with two slots they are false (`round_numbers`, `conflict_trace`). The
  invariant `HistoryInv` says that the history tells the row (exactly while
  nothing has failed, no more than it otherwise), except at two places where it
  is *apart*: once it is deleted for a set that is not written yet, and while
  the round of the row just written waits to be logged. At these places it says
  what makes it whole again: the history is empty, or short of the one round in
  hand (`TellsBut`). That a round which plays the reserved card is the one that
  is logged as cheated needs the reservation to be sound, so this proof
  rests on `RowsLegal`.
* `RateLimitProofs`: the invariant is that no stored or sampled time lies in the
  future and that a key outlives the time of its refill by `TTL`. From it
  `ExpiryIsHarmless` (a key whose life is over was idle long enough to be full
  again) and `RetryAfterIsHonest` (if nobody else is charged meanwhile, the
  refill of the wait brings what was missing: it is rounded up, and the wait
  begins no earlier than the times it was worked out from).
  `RefusedRequestsGetThrough` has the same of all buckets of a request. For
  `AdmissionsAreBounded` the bound itself is not inductive; what is (`BudgetKept`)
  adds the tokens still in the bucket: spent plus present never exceeds a full
  bucket plus the refill of the window and of the seconds given twice. A request that
  is late moves `last_refill` back and can be credited at most that delay.
* `SessionsProofs`: the invariant bounds every time in hand by the clock: what is
  stored or about to be stored lies at most `TTL` ahead, what `RequireAuth` read
  is no later than what the refresh will write, and a slot past `RequireAuth`
  holds an id of the table. `SessionsImplementSessionLife` maps each statement to a
  step of `SessionLife` or a stutter, the tick of the clock to the lapse of all
  sessions that expire in it. `PurgeOnlyOvertaken` and
  `ShortenedOnlyOvertaken` follow from the bounds on times.
* `ClientProofs`: the central notion is `Known(w, g)`: a status `w` in the hands
  of a tab is older than the row `g`, or it is the row. Every status that was
  ever received stays known, because the row moves only with its version. A tab
  is then in one of three stages: trying an operation on a known status that
  differs from the displayed one by its own cheat at most, fetching
  the latest status after a refusal of an older one, or refreshing. From it
  `ClicksTakeEffectOnce`, `ClicksActOnShownRow`, `ModeClicksSwitch`,
  `ArmedSelectsCheat` and `RetriesAreNewer`.

Assumptions on constants: `RulesAssumption` and `NoGameAssumption` (`GameRules`),
`MaxVerAssumption`, `ServiceAssumption`, `BucketAssumption`, `RateLimitAssumption`,
`SessionsAssumption`, `MarksAreNoRows`, `ClientAssumption`: bounds are natural numbers, null values are not values, and
there is a user, an e-mail and a browser (a free slot names one of each). The
proofs hold for any number of users, slots, cards, buckets, tabs and failures.

Seven theorems have a hypothesis. `TTLCoversRefill` (`ExpiryIsHarmless`,
`AdmissionsAreBounded`), `CostWithinCapacity` (`RetryAfterIsHonest`,
`RefusedRequestsGetThrough`) and `CostWithinSecond` (`RefusedRequestsGetThrough`)
hold of the defaults in `main.go`: capacity 20, 5 tokens a second, cost 1, 60
seconds. The environment can break them, and nothing in the code checks them.
`NumCards >= 2 * DrawLimit` (`CardsRunOutAtOneAll`) holds of the 13 and 5 of the
code. `OneSlot` (`HistoryTellsTheSet`,
`HistoryIsNeverAhead`) says that requests come one at a time. Since no statement
touches the rows of two users, what matters is that each user waits for the
answer before the next request, as a single tab of `App.tsx` does; that
reduction is an argument, not a theorem.

Model-checked only: the liveness properties `UseSweeps` and `ClickEnds`, as
`tlapm` proves no liveness under fairness. Every safety property of a passing
run is stated by a theorem.

## Plan

1. *(done)* `GameRules`, `AtomicGame`, `GameService`, `TokenBucket`, `RateLimit`.
2. *(done)* `SessionLife`, `Sessions`: rows of `user_sessions`, expiry, deletion by
   the auth middleware, refresh, logout, accounts, routing and the cookies that
   the browser really receives.
3. *(done)* `Refusals`, `Client`: two tabs of one user, what a click may do, and
   that it ends.
4. *(done)* Proofs about the game, its service and its history.
5. *(done)* Proofs about the rate limiter, the sessions and the client.
6. What the wins and rounds of one `Status` answer have to do with each other
   while a select is in flight; what overlapping requests can leave in the history
   at most.
7. The calls of `Client` as requests of `GameService`, so that the step from the
   service to the server of the client is a theorem too.

## Not modelled

Wording and layout of responses, JSON, the CSRF token's randomness, the
probability of a draw (cards are chosen nondeterministically), running without
Redis (the limiter is then off), connection setup, migrations, and what the
client only displays. Passwords: `model.User` keeps the field out of JSON
(`json:"-"`) and the controllers bind to it, so that every comparison has the same
outcome. The login form of the client, and with it a tab whose user logs out or
in while another tab is open. A clock that jumps backwards, and a browser whose
clock differs from the server's.
