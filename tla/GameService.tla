---------------------------- MODULE GameService ----------------------------
(***************************************************************************)
(* The game API as it runs: backend/controller/game_controller.go calling  *)
(* backend/usecase/game_usecase.go over the SQL statements of              *)
(* backend/repository/game_repository.go and game_round_log_repository.go. *)
(*                                                                         *)
(* Every HTTP request is served by a goroutine of its own and no statement *)
(* shares a transaction with another, so a request is a sequence of atomic *)
(* statements between which other requests run.  A handler begins by       *)
(* reading the row of its user, checks it, computes the new row locally,   *)
(* and then executes the statements listed in Stages.  A statement may     *)
(* fail, and the server may stop between any two statements.               *)
(*                                                                         *)
(* A user has at most one row (unique index on user_id), so the user       *)
(* stands for the id of the row as well.                                   *)
(***************************************************************************)
EXTENDS Refusals, Sequences

CONSTANTS
    Users,      \* user identifiers, set by the auth middleware
    Reqs,       \* request slots: how many requests can be in flight
    MaxVer,     \* bound: no request is begun on a row of this version
    MaxFaults   \* bound on failed statements and server stops

ASSUME ServiceAssumption ==
    /\ Users # {}
    /\ MaxVer \in Nat \ {0}
    /\ MaxFaults \in Nat

VARIABLES
    game,    \* game[u]: the row of u in game_sessions, or NoGame
    logs,    \* logs[u]: the rows of game_round_logs for that game, oldest first
    req,     \* req[r]: what the handler in slot r has in hand, or its last answer
    faults   \* failures so far

vars == <<game, logs, req, faults>>

Ops == {"start", "select", "cheat", "reset", "mode", "status"}

\* The statement a handler executes next.
Stages == {"idle", "createGame", "deleteLogs", "countLogs", "update",
           "createLog", "readLogs"}

Codes == {"none", "ok", "internal_error", "invalid_input", "session_not_found",
          "forbidden", "game_not_started", "game_already_started",
          "game_not_finished", "invalid_game_state", "invalid_mode",
          "cheat_not_allowed", "cheat_already_used", "cheat_not_available",
          "version_conflict"}

\* What the model keeps of a row of game_round_logs.
LogRow == [number : Nat, result : Results, cheatUsed : BOOLEAN]

NoRound == [number |-> 0, result |-> "DRAW", cheatUsed |-> FALSE]

\* at, op, user, ver : the statement to come, the operation, who asks, and the
\*                     version the client sent (0: none)
\* new, round        : the row the handler will write (Status: has read), and
\*                     the round Select will log
\* lost              : this request has deleted history rows
\* code              : the answer, once the slot is idle again
Request ==
    [at    : Stages,
     op    : Ops,
     user  : Users,
     ver   : 0 .. MaxVer,
     new   : GameRecord \cup {NoGame},
     round : LogRow,
     lost  : BOOLEAN,
     code  : Codes]

Answer(code) ==
    [at |-> "idle", op |-> "status", user |-> CHOOSE u \in Users : TRUE,
     ver |-> 0, new |-> NoGame, round |-> NoRound, lost |-> FALSE, code |-> code]

Init ==
    /\ game = [u \in Users |-> NoGame]
    /\ logs = [u \in Users |-> << >>]
    /\ req = [r \in Reqs |-> Answer("none")]
    /\ faults = 0

-----------------------------------------------------------------------------
(* Steps of a handler. *)

Reply(r, code) ==
    /\ req' = [req EXCEPT ![r] = Answer(code)]
    /\ UNCHANGED <<game, logs, faults>>

\* Slot r takes up a request of u and has the row g ready to write.
Proceed(r, stage, op, u, v, g, round) ==
    /\ req' = [req EXCEPT ![r] =
                 [at |-> stage, op |-> op, user |-> u, ver |-> v, new |-> g,
                  round |-> round, lost |-> FALSE, code |-> "none"]]
    /\ UNCHANGED <<game, logs, faults>>

\* The slot is free and the row of u has not reached the bound.
CanBegin(r, u) ==
    /\ req[r].at = "idle"
    /\ game[u] # NoGame => game[u].ver < MaxVer

Start(r, u, v) ==
    /\ CanBegin(r, u)
    /\ \/ /\ game[u] = NoGame
          /\ Proceed(r, "createGame", "start", u, 0, NewGame, NoRound)
       \/ /\ game[u] # NoGame
          /\ StartRefusal(game[u], v) = "ok"
          /\ Proceed(r, "deleteLogs", "start", u, v, FreshSet(game[u]), NoRound)
       \/ /\ game[u] # NoGame
          /\ StartRefusal(game[u], v) # "ok"
          /\ Reply(r, StartRefusal(game[u], v))

\* Both cards are drawn from the row just read; the number of the round waits
\* for the count.
Select(r, u, sid, v) ==
    /\ CanBegin(r, u)
    /\ \/ /\ SelectRefusal(game[u], u, sid, v) = "ok"
          /\ \E p \in RemainingCards(game[u].playerUsedCards),
                d \in DealerChoices(game[u]) :
               Proceed(r, "countLogs", "select", u, v, PlayRound(game[u], p, d),
                       [number |-> 0, result |-> JudgeRound(p, d),
                        cheatUsed |-> CheatPending(game[u])])
       \/ /\ SelectRefusal(game[u], u, sid, v) # "ok"
          /\ Reply(r, SelectRefusal(game[u], u, sid, v))

Cheat(r, u, v) ==
    /\ CanBegin(r, u)
    /\ \/ /\ CheatRefusal(game[u], v) = "ok"
          /\ Proceed(r, "update", "cheat", u, v, ReserveCheat(game[u]), NoRound)
       \/ /\ CheatRefusal(game[u], v) # "ok"
          /\ Reply(r, CheatRefusal(game[u], v))

ResetSet(r, u, v) ==
    /\ CanBegin(r, u)
    /\ \/ /\ ResetRefusal(game[u], v) = "ok"
          /\ Proceed(r, "deleteLogs", "reset", u, v, FreshSet(game[u]), NoRound)
       \/ /\ ResetRefusal(game[u], v) # "ok"
          /\ Reply(r, ResetRefusal(game[u], v))

ChangeMode(r, u, m, v) ==
    /\ CanBegin(r, u)
    /\ \/ /\ ModeRefusal(game[u], m, v) = "ok"
          /\ Proceed(r, "update", "mode", u, v, SetMode(game[u], m), NoRound)
       \/ /\ ModeRefusal(game[u], m, v) # "ok"
          /\ Reply(r, ModeRefusal(game[u], m, v))

Status(r, u) ==
    /\ req[r].at = "idle"
    /\ \/ game[u] = NoGame /\ Reply(r, "ok")
       \/ game[u] # NoGame /\ Proceed(r, "readLogs", "status", u, 0, game[u], NoRound)

-----------------------------------------------------------------------------
(* The statements after the read. *)

\* INSERT INTO game_sessions; the unique index on user_id refuses a second row.
CreateGame(r) ==
    LET u == req[r].user
    IN  /\ req[r].at = "createGame"
        /\ \/ /\ game[u] = NoGame
              /\ game' = [game EXCEPT ![u] = req[r].new]
              /\ req' = [req EXCEPT ![r] = Answer("ok")]
           \/ /\ game[u] # NoGame
              /\ req' = [req EXCEPT ![r] = Answer("internal_error")]
              /\ UNCHANGED game
        /\ UNCHANGED <<logs, faults>>

\* Faulty variant: the history of the old set is left in place.
KeepLogs(r) ==
    /\ req[r].at = "deleteLogs"
    /\ req' = [req EXCEPT ![r].at = "update"]
    /\ UNCHANGED <<game, logs, faults>>

DeleteByGameID(r) ==
    LET u == req[r].user
    IN  /\ req[r].at = "deleteLogs"
        /\ logs' = [logs EXCEPT ![u] = << >>]
        /\ req' = [req EXCEPT ![r].at = "update", ![r].lost = logs[u] # << >>]
        /\ UNCHANGED <<game, faults>>

GetRoundLogCountByGameID(r) ==
    /\ req[r].at = "countLogs"
    /\ req' = [req EXCEPT ![r].at = "update",
                          ![r].round.number = Len(logs[req[r].user]) + 1]
    /\ UNCHANGED <<game, logs, faults>>

\* Faulty variant: the round that ends the set is not logged.
AfterUpdateLastUnlogged(r) ==
    IF req[r].op = "select" /\ req[r].new.status = "IN_PROGRESS"
    THEN [req[r] EXCEPT !.at = "createLog"] ELSE Answer("ok")

\* What follows a successful update: only Select has a row to log.
AfterUpdate(r) ==
    IF req[r].op = "select" THEN [req[r] EXCEPT !.at = "createLog"] ELSE Answer("ok")

\* Faulty variant: the row is written whatever its version.
UpdateAnyVersion(r) ==
    LET u == req[r].user
    IN  /\ req[r].at = "update"
        /\ game' = [game EXCEPT ![u] = req[r].new]
        /\ req' = [req EXCEPT ![r] = AfterUpdate(r)]
        /\ UNCHANGED <<logs, faults>>

\* UPDATE ... WHERE id = ? AND ver = ?
UpdateWithVersion(r) ==
    LET u == req[r].user
    IN  /\ req[r].at = "update"
        /\ \/ /\ game[u].ver = req[r].ver
              /\ game' = [game EXCEPT ![u] = req[r].new]
              /\ req' = [req EXCEPT ![r] = AfterUpdate(r)]
           \/ /\ game[u].ver # req[r].ver
              /\ req' = [req EXCEPT ![r] = Answer("version_conflict")]
              /\ UNCHANGED game
        /\ UNCHANGED <<logs, faults>>

CreateLog(r) ==
    LET u == req[r].user
    IN  /\ req[r].at = "createLog"
        /\ logs' = [logs EXCEPT ![u] = Append(@, req[r].round)]
        /\ req' = [req EXCEPT ![r] = Answer("ok")]
        /\ UNCHANGED <<game, faults>>

\* Status answers with the row it read before and the history it reads now.
GetRoundLogsByGameID(r) ==
    /\ req[r].at = "readLogs"
    /\ Reply(r, "ok")

\* The statement to come fails: every handler gives up with what it has done.
Fail(r) ==
    /\ req[r].at # "idle"
    /\ faults < MaxFaults
    /\ faults' = faults + 1
    /\ req' = [req EXCEPT ![r] = Answer("internal_error")]
    /\ UNCHANGED <<game, logs>>

\* The server stops and starts again: no request in flight is ever answered.
Restart ==
    /\ faults < MaxFaults
    /\ \E r \in Reqs : req[r].at # "idle"
    /\ faults' = faults + 1
    /\ req' = [r \in Reqs |-> Answer("none")]
    /\ UNCHANGED <<game, logs>>

\* The versions clients send: none, that of the row, or an outdated one.  The
\* handlers only compare for equality, so every other version fares like the
\* outdated one.
SentVersions(u) ==
    IF game[u] = NoGame THEN {0, 1} ELSE {0, game[u].ver - 1, game[u].ver}

\* What clients may ask: any session id (NoGame: none), either mode and a word that is none.
Begin(r) ==
    \E u \in Users : \E v \in SentVersions(u) :
        \/ Start(r, u, v)
        \/ \E sid \in Users \cup {NoGame, "OTHER"} : Select(r, u, sid, v)
        \/ Cheat(r, u, v)
        \/ ResetSet(r, u, v)
        \/ \E m \in Modes \cup {"OTHER"} : ChangeMode(r, u, m, v)
        \/ Status(r, u)

Statement(r) ==
    \/ CreateGame(r)
    \/ DeleteByGameID(r)
    \/ GetRoundLogCountByGameID(r)
    \/ UpdateWithVersion(r)
    \/ CreateLog(r)
    \/ GetRoundLogsByGameID(r)

Next ==
    \/ \E r \in Reqs : Begin(r) \/ Statement(r) \/ Fail(r)
    \/ Restart

Spec == Init /\ [][Next]_vars

-----------------------------------------------------------------------------

\* Type correctness.
TypeOK ==
    /\ game \in [Users -> GameRecord \cup {NoGame}]
    /\ logs \in [Users -> Seq(LogRow)]
    /\ req \in [Reqs -> Request]
    /\ faults \in 0 .. MaxFaults

\* The rows a request may rightly write over the row g.
Outcomes(op, g) ==
    CASE op = "start"  -> IF g.status = "FINISHED" THEN {FreshSet(g)} ELSE {}
      [] op = "select" ->
           IF g.status = "IN_PROGRESS" /\ Selectable(g)
           THEN {PlayRound(g, p, d) : p \in RemainingCards(g.playerUsedCards),
                                      d \in DealerChoices(g)}
           ELSE {}
      [] op = "cheat"  ->
           IF /\ g.status = "IN_PROGRESS" /\ g.mode = "DEALER" /\ ~g.cheated
              /\ RemainingCards(g.dealerUsedCards) # {}
           THEN {ReserveCheat(g)} ELSE {}
      [] op = "reset"  -> {FreshSet(g)}
      [] op = "mode"   ->
           IF g.status = "FINISHED" THEN {SetMode(g, m) : m \in Modes} ELSE {}
      [] OTHER         -> {}

\* A handler is about to change a row that existed when it was read.
Writing == {"deleteLogs", "countLogs", "update"}

PendingSound(q, g) ==
    /\ q.at = "createGame" => q.new = NewGame
    /\ q.at \in Writing =>
         /\ g # NoGame
         /\ q.ver <= g.ver
         /\ q.ver = g.ver => q.new \in Outcomes(q.op, g)
    /\ q.at = "createLog" =>
         /\ g # NoGame
         /\ q.new.ver <= g.ver
         /\ q.new.ver = g.ver => q.new = g

\* A handler about to write holds an older version or a row that is right for
\* the current one, so that the version alone tells UPDATE whether to write; a
\* handler about to log a round logs one that the row has been through.
PendingRowsSound == \A r \in Reqs : PendingSound(req[r], game[req[r].user])

Atomic == INSTANCE AtomicGame

\* Whatever the interleaving of requests, failures and restarts, the rows of
\* game_sessions change as if each accepted request were one indivisible step
\* of the game.
ImplementsAtomicGame == Atomic!Spec

Logged(u, result) ==
    Cardinality({i \in DOMAIN logs[u] : logs[u][i].result = result})

Quiet(u) == \A r \in Reqs : req[r].at = "idle" \/ req[r].user # u

\* When requests come one at a time and nothing fails, the history shown by
\* Status tells the set that the row is in: every win of either side is there,
\* once, and at most one round used the cheat.
HistoryMatches ==
    \A u \in Users :
        faults = 0 /\ Quiet(u) /\ game[u] # NoGame =>
          /\ Logged(u, "PLAYER_WIN") = game[u].playerWins
          /\ Logged(u, "DEALER_WIN") = game[u].dealerWins
          /\ Cardinality({i \in DOMAIN logs[u] : logs[u][i].cheatUsed}) =
                IF game[u].cheated /\ ~game[u].cheatReserved THEN 1 ELSE 0

\* When requests come one at a time, failures and restarts can lose rounds from
\* the history but never leave one of another set in it, and the rounds that are
\* there are numbered from 1 without a gap.
HistoryNeverAhead ==
    \A u \in Users :
        /\ Logged(u, "PLAYER_WIN") <= IF game[u] = NoGame THEN 0 ELSE game[u].playerWins
        /\ Logged(u, "DEALER_WIN") <= IF game[u] = NoGame THEN 0 ELSE game[u].dealerWins
        /\ \A i \in DOMAIN logs[u] : logs[u][i].number = i

-----------------------------------------------------------------------------
(* What the documents say and the code does not do. *)

\* docs/specifications.md 5.3: a start that is answered with version_conflict
\* changes no state, and the history is part of the state listed there.
ConflictLeavesNoTrace ==
    [][\A r \in Reqs :
          req[r].op = "start" /\ req'[r].at = "idle" /\ req'[r].code = "version_conflict"
            => ~req[r].lost]_vars

\* docs/specifications.md 11.3: the round numbers of a history count the rounds
\* of the set from 1, so no two rounds share one.
RoundNumbersUnique ==
    \A u \in Users : \A i, j \in DOMAIN logs[u] :
        logs[u][i].number = logs[u][j].number => i = j

=============================================================================
