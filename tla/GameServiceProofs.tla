------------------------- MODULE GameServiceProofs -------------------------
(***************************************************************************)
(* The service implements the atomic game and with it keeps the rules: for *)
(* every number of users, concurrent requests, cards and failures.         *)
(***************************************************************************)
EXTENDS GameService, GameRulesProofs

\* A row a request may write is well formed and one version further.
LEMMA OutcomeType ==
    ASSUME NEW g \in GameRecord, NEW op \in Ops, NEW h \in Outcomes(op, g)
    PROVE  h \in GameRecord /\ h.ver = g.ver + 1
<1>1. CASE op = "start"
  BY <1>1, FreshSetType, VersionWritten DEF Outcomes
<1>2. CASE op = "select"
  BY <1>2, PlayRoundType, VersionWritten DEF Outcomes
<1>3. CASE op = "cheat"
  BY <1>3, ReserveCheatType, VersionWritten DEF Outcomes
<1>4. CASE op = "reset"
  BY <1>4, FreshSetType, VersionWritten DEF Outcomes
<1>5. CASE op = "mode"
  BY <1>5, SetModeType, VersionWritten DEF Outcomes
<1>6. CASE op = "status"
  BY <1>6 DEF Outcomes
<1> QED
  BY <1>1, <1>2, <1>3, <1>4, <1>5, <1>6 DEF Ops

LEMMA AnswerType ==
    ASSUME NEW code \in Codes
    PROVE  /\ Answer(code) \in Request
           /\ Answer(code).at = "idle"
<1>1. (CHOOSE u \in Users : TRUE) \in Users
  BY ServiceAssumption
<1>2. NoRound \in LogRow
  BY DEF NoRound, LogRow, Results
<1> QED
  BY <1>1, <1>2, ServiceAssumption DEF Answer, Request, Stages, Ops

\* A handler in flight holds a row, and was begun on one below the bound.
Prepared(q) ==
    /\ q.at # "idle" => q.new # NoGame
    /\ q.at \in Writing => q.ver < MaxVer

SoundRequest(q) ==
    /\ q \in Request
    /\ Prepared(q)
    /\ PendingSound(q, game[q.user])

LEMMA AnswerSound ==
    ASSUME NEW code \in Codes
    PROVE  SoundRequest(Answer(code))
BY AnswerType DEF SoundRequest, Prepared, PendingSound, Writing

\* Beginning a request changes nothing but the slot, which is left idle again
\* or with a row that is right to write.
LEMMA BeginSound ==
    ASSUME TypeOK, NEW r \in Reqs, Begin(r)
    PROVE  /\ UNCHANGED <<game, logs, faults>>
           /\ \E q : SoundRequest(q) /\ req' = [req EXCEPT ![r] = q]
<1>0. PICK u \in Users : \E v \in SentVersions(u) :
         \/ Start(r, u, v)
         \/ \E sid \in Users \cup {NoGame, "OTHER"} : Select(r, u, sid, v)
         \/ Cheat(r, u, v)
         \/ ResetSet(r, u, v)
         \/ \E m \in Modes \cup {"OTHER"} : ChangeMode(r, u, m, v)
         \/ Status(r, u)
  BY DEF Begin
<1>1. PICK v \in SentVersions(u) :
         \/ Start(r, u, v)
         \/ \E sid \in Users \cup {NoGame, "OTHER"} : Select(r, u, sid, v)
         \/ Cheat(r, u, v)
         \/ ResetSet(r, u, v)
         \/ \E m \in Modes \cup {"OTHER"} : ChangeMode(r, u, m, v)
         \/ Status(r, u)
  BY <1>0
<1> DEFINE g == game[u]
<1>2. g = NoGame \/ g \in GameRecord
  BY DEF TypeOK
<1>3. ASSUME NEW code \in Codes, Reply(r, code)
      PROVE  /\ UNCHANGED <<game, logs, faults>>
             /\ \E q : SoundRequest(q) /\ req' = [req EXCEPT ![r] = q]
  BY <1>3, AnswerSound DEF Reply
\* A handler that goes on writes a rightful outcome of the row it has read.
<1>4. ASSUME NEW stage \in Writing, NEW op \in Ops, NEW h, NEW round \in LogRow,
             g \in GameRecord, v = g.ver, g.ver < MaxVer, h \in Outcomes(op, g),
             Proceed(r, stage, op, u, v, h, round)
      PROVE  /\ UNCHANGED <<game, logs, faults>>
             /\ \E q : SoundRequest(q) /\ req' = [req EXCEPT ![r] = q]
  <2> DEFINE q == [at |-> stage, op |-> op, user |-> u, ver |-> v, new |-> h,
                   round |-> round, lost |-> FALSE, code |-> "none"]
  <2>1. v \in 0 .. MaxVer /\ h \in GameRecord
    BY <1>4, OutcomeType, ServiceAssumption DEF GameRecord
  <2>2. q \in Request
    BY <1>4, <2>1 DEF Request, Stages, Writing, Codes
  <2>3. PendingSound(q, g)
    BY <1>4, NoGameAssumption DEF PendingSound, Writing, GameRecord
  <2>4. SoundRequest(q)
    BY <1>4, <2>1, <2>2, <2>3, NoGameAssumption DEF SoundRequest, Prepared
  <2> QED
    BY <1>4, <2>4 DEF Proceed
<1>5. NoRound \in LogRow
  BY DEF NoRound, LogRow, Results
<1>6. CanBegin(r, u) => g = NoGame \/ g.ver < MaxVer
  BY DEF CanBegin
<1>7. CASE Start(r, u, v)
  <2>1. CASE /\ g = NoGame
             /\ Proceed(r, "createGame", "start", u, 0, NewGame, NoRound)
    <3> DEFINE q == [at |-> "createGame", op |-> "start", user |-> u, ver |-> 0,
                     new |-> NewGame, round |-> NoRound, lost |-> FALSE,
                     code |-> "none"]
    <3>1. q \in Request
      BY <1>5, NewGameType, ServiceAssumption DEF Request, Stages, Ops, Codes
    <3>2. SoundRequest(q)
      BY <2>1, <3>1, NewGameType, NoGameAssumption
         DEF SoundRequest, Prepared, PendingSound, Writing
    <3> QED
      BY <2>1, <3>2 DEF Proceed
  <2>2. CASE /\ g # NoGame
             /\ StartRefusal(g, v) = "ok"
             /\ Proceed(r, "deleteLogs", "start", u, v, FreshSet(g), NoRound)
    <3>1. v = g.ver /\ FreshSet(g) \in Outcomes("start", g)
      BY <2>2 DEF StartRefusal, Outcomes
    <3> QED
      BY <1>2, <1>4, <1>5, <1>6, <1>7, <2>2, <3>1 DEF Start, Writing, Ops
  <2>3. CASE /\ g # NoGame
             /\ StartRefusal(g, v) # "ok"
             /\ Reply(r, StartRefusal(g, v))
    <3>1. StartRefusal(g, v) \in Codes
      BY DEF StartRefusal, Codes
    <3> QED
      BY <1>3, <2>3, <3>1
  <2> QED
    BY <1>7, <2>1, <2>2, <2>3 DEF Start
<1>8. CASE \E sid \in Users \cup {NoGame, "OTHER"} : Select(r, u, sid, v)
  <2>1. PICK sid \in Users \cup {NoGame, "OTHER"} : Select(r, u, sid, v)
    BY <1>8
  <2>2. SelectRefusal(g, u, sid, v) \in Codes
    BY DEF SelectRefusal, Codes
  <2>3. CASE SelectRefusal(g, u, sid, v) = "ok"
    <3>1. /\ g # NoGame /\ v = g.ver
          /\ g.status = "IN_PROGRESS" /\ Selectable(g)
      BY <2>3 DEF SelectRefusal
    <3>2. PICK p \in RemainingCards(g.playerUsedCards), d \in DealerChoices(g) :
             Proceed(r, "countLogs", "select", u, v, PlayRound(g, p, d),
                     [number |-> 0, result |-> JudgeRound(p, d),
                      cheatUsed |-> CheatPending(g)])
      BY <2>1, <2>3 DEF Select
    <3>3. PlayRound(g, p, d) \in Outcomes("select", g)
      BY <3>1 DEF Outcomes
    <3>4. CheatPending(g) \in BOOLEAN
      BY <1>2, <3>1 DEF CheatPending, GameRecord
    <3>5. [number |-> 0, result |-> JudgeRound(p, d), cheatUsed |-> CheatPending(g)] \in LogRow
      BY <3>4 DEF LogRow, JudgeRound, Results
    <3> QED
      BY <1>2, <1>4, <1>6, <2>1, <3>1, <3>2, <3>3, <3>5 DEF Select, Writing, Ops
  <2>4. CASE SelectRefusal(g, u, sid, v) # "ok"
    BY <1>3, <2>1, <2>2, <2>4 DEF Select
  <2> QED
    BY <2>3, <2>4
<1>9. CASE Cheat(r, u, v)
  <2>1. CheatRefusal(g, v) \in Codes
    BY DEF CheatRefusal, Codes
  <2>2. CASE CheatRefusal(g, v) = "ok"
    <3>1. g # NoGame /\ v = g.ver /\ ReserveCheat(g) \in Outcomes("cheat", g)
      BY <2>2 DEF CheatRefusal, Outcomes
    <3> QED
      BY <1>2, <1>4, <1>5, <1>6, <1>9, <2>2, <3>1 DEF Cheat, Writing, Ops
  <2>3. CASE CheatRefusal(g, v) # "ok"
    BY <1>3, <1>9, <2>1, <2>3 DEF Cheat
  <2> QED
    BY <2>2, <2>3
<1>10. CASE ResetSet(r, u, v)
  <2>1. ResetRefusal(g, v) \in Codes
    BY DEF ResetRefusal, Codes
  <2>2. CASE ResetRefusal(g, v) = "ok"
    <3>1. g # NoGame /\ v = g.ver /\ FreshSet(g) \in Outcomes("reset", g)
      BY <2>2 DEF ResetRefusal, Outcomes
    <3> QED
      BY <1>2, <1>4, <1>5, <1>6, <1>10, <2>2, <3>1 DEF ResetSet, Writing, Ops
  <2>3. CASE ResetRefusal(g, v) # "ok"
    BY <1>3, <1>10, <2>1, <2>3 DEF ResetSet
  <2> QED
    BY <2>2, <2>3
<1>11. CASE \E m \in Modes \cup {"OTHER"} : ChangeMode(r, u, m, v)
  <2>1. PICK m \in Modes \cup {"OTHER"} : ChangeMode(r, u, m, v)
    BY <1>11
  <2>2. ModeRefusal(g, m, v) \in Codes
    BY DEF ModeRefusal, Codes
  <2>3. CASE ModeRefusal(g, m, v) = "ok"
    <3>1. g # NoGame /\ v = g.ver /\ SetMode(g, m) \in Outcomes("mode", g)
      BY <2>3 DEF ModeRefusal, Outcomes
    <3> QED
      BY <1>2, <1>4, <1>5, <1>6, <2>1, <2>3, <3>1 DEF ChangeMode, Writing, Ops
  <2>4. CASE ModeRefusal(g, m, v) # "ok"
    BY <1>3, <2>1, <2>2, <2>4 DEF ChangeMode
  <2> QED
    BY <2>3, <2>4
<1>12. CASE Status(r, u)
  <2>1. CASE g = NoGame /\ Reply(r, "ok")
    BY <1>3, <2>1 DEF Codes
  <2>2. CASE g # NoGame /\ Proceed(r, "readLogs", "status", u, 0, g, NoRound)
    <3> DEFINE q == [at |-> "readLogs", op |-> "status", user |-> u, ver |-> 0,
                     new |-> g, round |-> NoRound, lost |-> FALSE, code |-> "none"]
    <3>1. q \in Request
      BY <1>2, <1>5, ServiceAssumption DEF Request, Stages, Ops, Codes
    <3>2. SoundRequest(q)
      BY <2>2, <3>1 DEF SoundRequest, Prepared, PendingSound, Writing
    <3> QED
      BY <2>2, <3>2 DEF Proceed
  <2> QED
    BY <1>12, <2>1, <2>2 DEF Status
<1> QED
  BY <1>1, <1>7, <1>8, <1>9, <1>10, <1>11, <1>12

-----------------------------------------------------------------------------

\* The inductive invariant: what the runs check, and the bound on what a handler
\* in flight holds.
Inv ==
    /\ TypeOK
    /\ PendingRowsSound
    /\ \A r \in Reqs : Prepared(req[r])

LEMMA InvRequests ==
    ASSUME Inv, NEW r \in Reqs
    PROVE  SoundRequest(req[r]) /\ req[r].user \in Users
BY DEF Inv, TypeOK, PendingRowsSound, SoundRequest, Request

\* A step that leaves the rows alone and one slot with a sound request.
LEMMA SlotStep ==
    ASSUME Inv, NEW r \in Reqs, NEW q, SoundRequest(q),
           game' = game, req' = [req EXCEPT ![r] = q],
           logs' \in [Users -> Seq(LogRow)], faults' \in 0 .. MaxFaults
    PROVE  Inv'
<1>1. \A s \in Reqs : SoundRequest(req'[s])
  BY InvRequests DEF Inv, TypeOK
<1>2. TypeOK'
  BY <1>1 DEF Inv, TypeOK, SoundRequest
<1>3. PendingRowsSound' /\ (\A s \in Reqs : Prepared(req[s]))'
  BY <1>1 DEF PendingRowsSound, SoundRequest
<1> QED
  BY <1>2, <1>3 DEF Inv

\* A step that moves the row of u on, which makes every other request in flight
\* on that row outdated.
LEMMA RowStep ==
    ASSUME Inv, NEW r \in Reqs, NEW q, NEW u \in Users, NEW h \in GameRecord,
           game[u] # NoGame => h.ver = game[u].ver + 1,
           game' = [game EXCEPT ![u] = h], req' = [req EXCEPT ![r] = q],
           q \in Request, Prepared(q), PendingSound(q, game'[q.user]),
           UNCHANGED <<logs, faults>>
    PROVE  Inv'
<1>1. TypeOK'
  BY DEF Inv, TypeOK
<1>2. ASSUME NEW s \in Reqs
      PROVE  PendingSound(req'[s], game'[req'[s].user]) /\ Prepared(req'[s])
  <2>1. CASE s = r
    BY <2>1 DEF Inv, TypeOK
  <2>2. CASE s # r
    <3> DEFINE p == req[s]
    <3>1. req'[s] = p
      BY <2>2 DEF Inv, TypeOK
    <3>2. p \in Request /\ p.user \in Users /\ Prepared(p) /\ PendingSound(p, game[p.user])
      BY InvRequests DEF SoundRequest
    <3>3. CASE p.user # u
      <4>1. game'[p.user] = game[p.user]
        BY <3>2, <3>3 DEF Inv, TypeOK
      <4> QED
        BY <3>1, <3>2, <4>1
    <3>4. CASE p.user = u
      <4>1. game'[p.user] = h /\ h # NoGame /\ h.ver \in Nat
        BY <3>4, NoGameAssumption DEF Inv, TypeOK, GameRecord
      <4>2. game[u] # NoGame => game[u] \in GameRecord /\ game[u].ver \in Nat
        BY DEF Inv, TypeOK, GameRecord
      <4>3. p.at = "createGame" => p.new = NewGame
        BY <3>2 DEF PendingSound
      <4>4. p.at \in Writing => p.ver < h.ver
        <5> SUFFICES ASSUME p.at \in Writing PROVE p.ver < h.ver
          OBVIOUS
        <5>1. game[u] # NoGame /\ p.ver <= game[u].ver
          BY <3>2, <3>4 DEF PendingSound
        <5>2. p.ver \in Nat
          BY <3>2, ServiceAssumption DEF Request
        <5> HIDE DEF p
        <5> QED
          BY <4>1, <4>2, <5>1, <5>2
      <4>5. p.at = "createLog" => p.new.ver < h.ver
        <5> SUFFICES ASSUME p.at = "createLog" PROVE p.new.ver < h.ver
          OBVIOUS
        <5>1. game[u] # NoGame /\ p.new.ver <= game[u].ver
          BY <3>2, <3>4 DEF PendingSound
        <5>2. p.new \in GameRecord
          BY <3>2 DEF Prepared, Request
        <5>3. p.new.ver \in Nat
          BY <5>2 DEF GameRecord
        <5> HIDE DEF p
        <5> QED
          BY <4>1, <4>2, <5>1, <5>3
      <4>6. PendingSound(p, h)
        <5>1. p.ver \in Nat
          BY <3>2, ServiceAssumption DEF Request
        <5>2. p.at = "createLog" => p.new.ver \in Nat
          BY <3>2 DEF Prepared, Request, GameRecord
        <5> HIDE DEF p
        <5> QED
          BY <4>1, <4>3, <4>4, <4>5, <5>1, <5>2 DEF PendingSound
      <4> QED
        BY <3>1, <3>2, <4>1, <4>6
    <3> QED
      BY <3>3, <3>4
  <2> QED
    BY <2>1, <2>2
<1>3. PendingRowsSound' /\ (\A s \in Reqs : Prepared(req[s]))'
  BY <1>2 DEF PendingRowsSound
<1> QED
  BY <1>1, <1>3 DEF Inv

-----------------------------------------------------------------------------
(* The statements.  Each keeps Inv and is a step of the atomic game or leaves *)
(* the rows alone.                                                            *)

Refines == [Atomic!Next]_game

\* Both levels follow the same rules: INSTANCE renames the operators only.
LEMMA SameRules ==
    /\ Atomic!NewGame = NewGame
    /\ Atomic!Modes = Modes
    /\ \A used : Atomic!RemainingCards(used) = RemainingCards(used)
    /\ \A g : /\ Atomic!FreshSet(g) = FreshSet(g)
              /\ Atomic!DealerChoices(g) = DealerChoices(g)
              /\ Atomic!Selectable(g) = Selectable(g)
              /\ Atomic!ReserveCheat(g) = ReserveCheat(g)
              /\ \A m : Atomic!SetMode(g, m) = SetMode(g, m)
              /\ \A p, d : Atomic!PlayRound(g, p, d) = PlayRound(g, p, d)
<1>1. /\ Atomic!NewGame = NewGame
      /\ Atomic!Modes = Modes
  BY DEF Atomic!NewGame, NewGame, Atomic!Modes, Modes, Atomic!NoCard, NoCard
<1>2. \A used : Atomic!RemainingCards(used) = RemainingCards(used)
  BY DEF Atomic!RemainingCards, RemainingCards, Atomic!Cards, Cards
<1>3. \A g : Atomic!FreshSet(g) = FreshSet(g)
  BY <1>1 DEF Atomic!FreshSet, FreshSet
<1>4. \A g : Atomic!CheatPending(g) = CheatPending(g)
  BY DEF Atomic!CheatPending, CheatPending, Atomic!NoCard, NoCard
<1>5. \A g : /\ Atomic!DealerChoices(g) = DealerChoices(g)
             /\ Atomic!Selectable(g) = Selectable(g)
  BY <1>2, <1>4 DEF Atomic!DealerChoices, DealerChoices, Atomic!Selectable, Selectable
<1>6. \A S : Atomic!MaxInt(S) = MaxInt(S)
  BY DEF Atomic!MaxInt, MaxInt, Atomic!Max, Max
<1>7. \A g : /\ Atomic!ReserveCheat(g) = ReserveCheat(g)
             /\ \A m : Atomic!SetMode(g, m) = SetMode(g, m)
  BY <1>2, <1>6 DEF Atomic!ReserveCheat, ReserveCheat, Atomic!SetMode, SetMode
<1>8. \A p, d : Atomic!JudgeRound(p, d) = JudgeRound(p, d)
  BY DEF Atomic!JudgeRound, JudgeRound
<1>9. \A g, p, d : /\ Atomic!PlayerWinsAfter(g, p, d) = PlayerWinsAfter(g, p, d)
                   /\ Atomic!DealerWinsAfter(g, p, d) = DealerWinsAfter(g, p, d)
                   /\ Atomic!DrawsAfter(g, p, d) = DrawsAfter(g, p, d)
  BY <1>8 DEF Atomic!PlayerWinsAfter, PlayerWinsAfter, Atomic!DealerWinsAfter,
              DealerWinsAfter, Atomic!DrawsAfter, DrawsAfter
<1>10. \A g, p, d : /\ Atomic!DrawLimitHit(g, p, d) = DrawLimitHit(g, p, d)
                    /\ Atomic!SetDecided(g, p, d) = SetDecided(g, p, d)
  BY <1>9 DEF Atomic!DrawLimitHit, DrawLimitHit, Atomic!SetDecided, SetDecided,
              Atomic!WinsToFinish, WinsToFinish
<1>11. \A g, p, d : Atomic!PlayRound(g, p, d) = PlayRound(g, p, d)
  <2> SUFFICES ASSUME NEW g, NEW p, NEW d
               PROVE  Atomic!PlayRound(g, p, d) = PlayRound(g, p, d)
    OBVIOUS
  <2>1. /\ Atomic!CheatPending(g) = CheatPending(g)
        /\ Atomic!DrawLimitHit(g, p, d) = DrawLimitHit(g, p, d)
        /\ Atomic!SetDecided(g, p, d) = SetDecided(g, p, d)
    BY <1>4, <1>10
  <2>2. /\ Atomic!PlayerWinsAfter(g, p, d) = PlayerWinsAfter(g, p, d)
        /\ Atomic!DealerWinsAfter(g, p, d) = DealerWinsAfter(g, p, d)
        /\ Atomic!DrawsAfter(g, p, d) = DrawsAfter(g, p, d)
        /\ Atomic!NoCard = NoCard
    BY <1>9 DEF Atomic!NoCard, NoCard
  <2> QED
    BY <2>1, <2>2 DEF Atomic!PlayRound, PlayRound
<1> QED
  BY <1>1, <1>2, <1>3, <1>5, <1>7, <1>11

\* A request sound for a row that no longer changes stays sound at another stage.
LEMMA NextStage ==
    ASSUME NEW q, SoundRequest(q), NEW p \in Request,
           p.user = q.user, p.op = q.op, p.ver = q.ver, p.new = q.new,
           p.at = "update", q.at \in Writing
    PROVE  SoundRequest(p)
BY DEF SoundRequest, Prepared, PendingSound, Writing

LEMMA CreateGameStep ==
    ASSUME Inv, NEW r \in Reqs, CreateGame(r)
    PROVE  Inv' /\ Refines
<1> DEFINE u == req[r].user
<1>1. u \in Users
  BY InvRequests
<1>2. CASE /\ game[u] = NoGame
           /\ game' = [game EXCEPT ![u] = req[r].new]
           /\ req' = [req EXCEPT ![r] = Answer("ok")]
  <2>1. game' = [game EXCEPT ![u] = NewGame]
    BY <1>2, InvRequests DEF CreateGame, SoundRequest, PendingSound
  <2>2. "ok" \in Codes
    BY DEF Codes
  <2>3. Answer("ok") \in Request /\ Answer("ok").at = "idle"
    BY <2>2, AnswerType
  <2>4. /\ Prepared(Answer("ok"))
        /\ PendingSound(Answer("ok"), game'[Answer("ok").user])
    BY <2>3 DEF Prepared, PendingSound, Writing
  <2>5. Inv'
    BY <1>1, <1>2, <2>1, <2>3, <2>4, NewGameType, RowStep DEF CreateGame
  <2>6. Atomic!Start(u)
    BY <1>2, <2>1, SameRules DEF Atomic!Start
  <2> QED
    BY <1>1, <2>5, <2>6 DEF Refines, Atomic!Next
<1>3. CASE game[u] # NoGame /\ req' = [req EXCEPT ![r] = Answer("internal_error")] /\ UNCHANGED game
  <2>1. "internal_error" \in Codes
    BY DEF Codes
  <2>2. Inv'
    BY <1>3, <2>1, AnswerSound, SlotStep DEF CreateGame, Inv, TypeOK
  <2> QED
    BY <1>3, <2>2 DEF Refines
<1> QED
  BY <1>2, <1>3 DEF CreateGame

LEMMA DeleteLogsStep ==
    ASSUME Inv, NEW r \in Reqs, DeleteByGameID(r)
    PROVE  Inv' /\ Refines
<1> DEFINE p == [req[r] EXCEPT !.at = "update", !.lost = logs[req[r].user] # << >>]
<1>1. req' = [req EXCEPT ![r] = p]
  BY DEF DeleteByGameID, Inv, TypeOK
<1>2. SoundRequest(req[r]) /\ req[r] \in Request
  BY InvRequests DEF SoundRequest
<1>3. /\ p \in Request /\ p.user = req[r].user /\ p.op = req[r].op
      /\ p.ver = req[r].ver /\ p.new = req[r].new /\ p.at = "update"
  BY <1>2 DEF Request, Stages
<1>4. req[r].at \in Writing
  BY DEF DeleteByGameID, Writing
<1> HIDE DEF p
<1>5. SoundRequest(p)
  BY <1>2, <1>3, <1>4, NextStage
<1>6. logs' \in [Users -> Seq(LogRow)]
  BY InvRequests DEF DeleteByGameID, Inv, TypeOK
<1>7. UNCHANGED <<game, faults>>
  BY DEF DeleteByGameID
<1>8. Inv'
  BY <1>1, <1>5, <1>6, <1>7, SlotStep DEF Inv, TypeOK
<1> QED
  BY <1>7, <1>8 DEF Refines

LEMMA CountLogsStep ==
    ASSUME Inv, NEW r \in Reqs, GetRoundLogCountByGameID(r)
    PROVE  Inv' /\ Refines
<1> DEFINE n == Len(logs[req[r].user]) + 1
           p == [req[r] EXCEPT !.at = "update", !.round.number = n]
<1>1. req' = [req EXCEPT ![r] = p]
  BY DEF GetRoundLogCountByGameID, Inv, TypeOK
<1>2. SoundRequest(req[r]) /\ req[r] \in Request
  BY InvRequests DEF SoundRequest
<1>3. n \in Nat
  BY InvRequests DEF Inv, TypeOK
<1>4. [req[r].round EXCEPT !.number = n] \in LogRow
  BY <1>2, <1>3 DEF Request, LogRow
<1>5. /\ p \in Request /\ p.user = req[r].user /\ p.op = req[r].op
      /\ p.ver = req[r].ver /\ p.new = req[r].new /\ p.at = "update"
  <2> HIDE DEF n
  <2> QED BY <1>2, <1>4 DEF Request, Stages
<1>6. req[r].at \in Writing
  BY DEF GetRoundLogCountByGameID, Writing
<1> HIDE DEF p
<1>7. SoundRequest(p)
  BY <1>2, <1>5, <1>6, NextStage
<1>8. UNCHANGED <<game, logs, faults>>
  BY DEF GetRoundLogCountByGameID
<1>9. Inv'
  BY <1>1, <1>7, <1>8, SlotStep DEF Inv, TypeOK
<1> QED
  BY <1>8, <1>9 DEF Refines

\* A rightful outcome of the current row is a step of the atomic game.
LEMMA OutcomeIsStep ==
    ASSUME NEW u \in Users, game[u] \in GameRecord, game[u].ver < MaxVer,
           NEW op \in Ops, NEW h \in Outcomes(op, game[u]),
           game' = [game EXCEPT ![u] = h]
    PROVE  Atomic!Next
<1>1. game[u] # NoGame
  BY NoGameAssumption
<1>2. CASE op = "start"
  <2>1. game[u].status = "FINISHED" /\ h = FreshSet(game[u])
    BY <1>2 DEF Outcomes
  <2>2. Atomic!Start(u)
    BY <1>1, <2>1, SameRules DEF Atomic!Start, Atomic!Finished, Atomic!HasGame
  <2> QED BY <2>2 DEF Atomic!Next
<1>3. CASE op = "select"
  <2>1. /\ game[u].status = "IN_PROGRESS" /\ Selectable(game[u])
        /\ \E p \in RemainingCards(game[u].playerUsedCards),
              d \in DealerChoices(game[u]) : h = PlayRound(game[u], p, d)
    BY <1>3 DEF Outcomes
  <2>2. Atomic!Select(u)
    BY <1>1, <2>1, SameRules DEF Atomic!Select, Atomic!InProgress, Atomic!HasGame
  <2> QED BY <2>2 DEF Atomic!Next
<1>4. CASE op = "cheat"
  <2>1. /\ game[u].status = "IN_PROGRESS" /\ game[u].mode = "DEALER"
        /\ ~game[u].cheated /\ RemainingCards(game[u].dealerUsedCards) # {}
        /\ h = ReserveCheat(game[u])
    BY <1>4 DEF Outcomes
  <2>2. Atomic!Cheat(u)
    BY <1>1, <2>1, SameRules DEF Atomic!Cheat, Atomic!InProgress, Atomic!HasGame
  <2> QED BY <2>2 DEF Atomic!Next
<1>5. CASE op = "reset"
  <2>1. h = FreshSet(game[u])
    BY <1>5 DEF Outcomes
  <2>2. Atomic!ResetSet(u)
    BY <1>1, <2>1, SameRules DEF Atomic!ResetSet, Atomic!HasGame
  <2> QED BY <2>2 DEF Atomic!Next
<1>6. CASE op = "mode"
  <2>1. /\ game[u].status = "FINISHED"
        /\ \E m \in Modes : h = SetMode(game[u], m)
    BY <1>6 DEF Outcomes
  <2>2. Atomic!ChangeMode(u)
    BY <1>1, <2>1, SameRules DEF Atomic!ChangeMode, Atomic!Finished, Atomic!HasGame
  <2> QED BY <2>2 DEF Atomic!Next
<1>7. CASE op = "status"
  BY <1>7 DEF Outcomes
<1> QED
  BY <1>2, <1>3, <1>4, <1>5, <1>6, <1>7 DEF Ops

LEMMA UpdateStep ==
    ASSUME Inv, NEW r \in Reqs, UpdateWithVersion(r)
    PROVE  Inv' /\ Refines
<1> DEFINE u == req[r].user
           q == req[r]
<1>1. /\ u \in Users /\ q \in Request /\ Prepared(q)
      /\ PendingSound(q, game[u]) /\ q.at = "update"
  BY InvRequests DEF SoundRequest, UpdateWithVersion
<1>2. CASE /\ game[u].ver = q.ver
           /\ game' = [game EXCEPT ![u] = q.new]
           /\ req' = [req EXCEPT ![r] = AfterUpdate(r)]
  <2>1. /\ game[u] # NoGame /\ q.new \in Outcomes(q.op, game[u])
        /\ game[u].ver < MaxVer
    BY <1>1, <1>2 DEF PendingSound, Prepared, Writing
  <2>2. game[u] \in GameRecord /\ q.op \in Ops
    BY <1>1, <2>1 DEF Inv, TypeOK, Request
  <2>3. q.new \in GameRecord /\ q.new.ver = game[u].ver + 1
    BY <2>1, <2>2, OutcomeType
  <2>4. game'[u] = q.new
    BY <1>1, <1>2 DEF Inv, TypeOK
  <2>5. /\ AfterUpdate(r) \in Request /\ Prepared(AfterUpdate(r))
        /\ PendingSound(AfterUpdate(r), game'[AfterUpdate(r).user])
    <3>1. CASE q.op = "select"
      <4> DEFINE p == [q EXCEPT !.at = "createLog"]
      <4>1. AfterUpdate(r) = p
        BY <3>1 DEF AfterUpdate
      <4>2. p \in Request /\ p.at = "createLog" /\ p.new = q.new /\ p.user = u
        BY <1>1 DEF Request, Stages
      <4> HIDE DEF p
      <4>3. q.new # NoGame /\ q.new.ver \in Nat
        BY <2>3, NoGameAssumption DEF GameRecord
      <4> HIDE DEF q, u
      <4>4. Prepared(p) /\ PendingSound(p, game'[p.user])
        BY <2>4, <4>2, <4>3 DEF Prepared, PendingSound, Writing
      <4> QED
        BY <4>1, <4>2, <4>4
    <3>2. CASE q.op # "select"
      <4>1. AfterUpdate(r) = Answer("ok") /\ "ok" \in Codes
        BY <3>2 DEF AfterUpdate, Codes
      <4>2. AfterUpdate(r) \in Request /\ AfterUpdate(r).at = "idle"
        BY <4>1, AnswerType
      <4> QED
        BY <4>2 DEF Prepared, PendingSound, Writing
    <3> QED
      BY <3>1, <3>2
  <2>6. UNCHANGED <<logs, faults>>
    BY DEF UpdateWithVersion
  <2>7. Inv'
    <3> HIDE DEF q, u
    <3> QED BY <1>1, <1>2, <2>3, <2>5, <2>6, RowStep
  <2>8. Atomic!Next
    <3> HIDE DEF q, u
    <3> QED BY <1>1, <1>2, <2>1, <2>2, OutcomeIsStep
  <2> QED
    BY <2>7, <2>8 DEF Refines
<1>3. CASE /\ game[u].ver # q.ver
           /\ req' = [req EXCEPT ![r] = Answer("version_conflict")]
           /\ UNCHANGED game
  <2>1. "version_conflict" \in Codes
    BY DEF Codes
  <2>2. Inv'
    BY <1>3, <2>1, AnswerSound, SlotStep DEF UpdateWithVersion, Inv, TypeOK
  <2> QED
    BY <1>3, <2>2 DEF Refines
<1> QED
  BY <1>2, <1>3 DEF UpdateWithVersion

LEMMA CreateLogStep ==
    ASSUME Inv, NEW r \in Reqs, CreateLog(r)
    PROVE  Inv' /\ Refines
<1>1. "ok" \in Codes
  BY DEF Codes
<1>2. req[r].user \in Users /\ req[r].round \in LogRow
  BY InvRequests DEF SoundRequest, Request
<1>3. logs' \in [Users -> Seq(LogRow)]
  BY <1>2 DEF CreateLog, Inv, TypeOK
<1>4. Inv'
  BY <1>1, <1>3, AnswerSound, SlotStep DEF CreateLog, Inv, TypeOK
<1> QED
  BY <1>4 DEF CreateLog, Refines

LEMMA FailStep ==
    ASSUME Inv, NEW r \in Reqs, Fail(r)
    PROVE  Inv' /\ Refines
<1>1. "internal_error" \in Codes
  BY DEF Codes
<1>2. faults' \in 0 .. MaxFaults
  BY ServiceAssumption DEF Fail, Inv, TypeOK
<1>3. Inv'
  BY <1>1, <1>2, AnswerSound, SlotStep DEF Fail, Inv, TypeOK
<1> QED
  BY <1>3 DEF Fail, Refines

LEMMA RestartStep ==
    ASSUME Inv, Restart
    PROVE  Inv' /\ Refines
<1>1. "none" \in Codes
  BY DEF Codes
<1>2. SoundRequest(Answer("none"))
  BY <1>1, AnswerSound
<1>3. faults' \in 0 .. MaxFaults
  BY ServiceAssumption DEF Restart, Inv, TypeOK
<1>4. UNCHANGED <<game, logs>> /\ req' = [r \in Reqs |-> Answer("none")]
  BY DEF Restart
<1>5. Inv'
  BY <1>2, <1>3, <1>4 DEF Inv, TypeOK, PendingRowsSound, SoundRequest
<1> QED
  BY <1>4, <1>5 DEF Refines

LEMMA StepSound ==
    ASSUME Inv, Next
    PROVE  Inv' /\ Refines
<1>1. ASSUME NEW r \in Reqs, Begin(r)
      PROVE  Inv' /\ Refines
  <2>1. TypeOK
    BY DEF Inv
  <2>2. UNCHANGED <<game, logs, faults>>
    BY <1>1, <2>1, BeginSound
  <2>3. PICK q : SoundRequest(q) /\ req' = [req EXCEPT ![r] = q]
    BY <1>1, <2>1, BeginSound
  <2>4. Inv'
    BY <2>2, <2>3, SlotStep DEF Inv, TypeOK
  <2> QED
    BY <2>2, <2>4 DEF Refines
<1>2. ASSUME NEW r \in Reqs, GetRoundLogsByGameID(r)
      PROVE  Inv' /\ Refines
  <2>1. "ok" \in Codes
    BY DEF Codes
  <2>2. UNCHANGED <<game, logs, faults>> /\ req' = [req EXCEPT ![r] = Answer("ok")]
    BY <1>2 DEF GetRoundLogsByGameID, Reply
  <2>3. Inv'
    BY <2>1, <2>2, AnswerSound, SlotStep DEF Inv, TypeOK
  <2> QED
    BY <2>2, <2>3 DEF Refines
<1> QED
  BY <1>1, <1>2, CreateGameStep, DeleteLogsStep, CountLogsStep, UpdateStep,
     CreateLogStep, FailStep, RestartStep DEF Next, Statement

LEMMA InvAlways == Spec => []Inv
<1>1. Init => Inv
  <2> SUFFICES ASSUME Init PROVE Inv
    OBVIOUS
  <2>1. "none" \in Codes
    BY DEF Codes
  <2>2. SoundRequest(Answer("none"))
    BY <2>1, AnswerSound
  <2>3. TypeOK
    BY <2>2, ServiceAssumption DEF Init, TypeOK, SoundRequest
  <2> QED
    BY <2>2, <2>3 DEF Init, Inv, PendingRowsSound, SoundRequest
<1>2. Inv /\ [Next]_vars => Inv'
  <2>1. ASSUME Inv, UNCHANGED vars PROVE Inv'
    BY <2>1 DEF vars, Inv, TypeOK, PendingRowsSound
  <2> QED
    BY <2>1, StepSound
<1> QED
  BY <1>1, <1>2, PTL DEF Spec

\* The rows, the history and the requests in flight stay well formed.
THEOREM TypeCorrect == Spec => []TypeOK
<1>1. Inv => TypeOK
  BY DEF Inv
<1> QED
  BY <1>1, InvAlways, PTL

\* Whoever finds the version unchanged at UPDATE finds the row unchanged.
THEOREM PendingRowsAreSound == Spec => []PendingRowsSound
<1>1. Inv => PendingRowsSound
  BY DEF Inv
<1> QED
  BY <1>1, InvAlways, PTL

\* The concurrent service implements the atomic game.
THEOREM ServiceImplementsAtomicGame == Spec => ImplementsAtomicGame
<1>1. Init => Atomic!Init
  BY DEF Init, Atomic!Init
<1>2. Inv /\ [Next]_vars => [Atomic!Next]_game
  <2>1. UNCHANGED vars => UNCHANGED game
    BY DEF vars
  <2> QED
    BY <2>1, StepSound DEF Refines
<1> QED
  BY <1>1, <1>2, InvAlways, PTL DEF Spec, ImplementsAtomicGame, Atomic!Spec

-----------------------------------------------------------------------------
(* What the rules promise of the rows carries over to the service. *)

\* A step of the atomic game creates a row or replaces one by an outcome.
LEMMA AtomicStepCases ==
    ASSUME TypeOK, Atomic!Next
    PROVE  \E u \in Users :
             \/ game[u] = NoGame /\ game' = [game EXCEPT ![u] = NewGame]
             \/ /\ game[u] \in GameRecord
                /\ \E op \in Ops : \E h \in Outcomes(op, game[u]) :
                     game' = [game EXCEPT ![u] = h]
<1>1. PICK u \in Users : \/ Atomic!Start(u)
                         \/ Atomic!Select(u)
                         \/ Atomic!Cheat(u)
                         \/ Atomic!ResetSet(u)
                         \/ Atomic!ChangeMode(u)
  BY DEF Atomic!Next
<1>2. game[u] = NoGame \/ game[u] \in GameRecord
  BY DEF TypeOK
<1>3. CASE Atomic!Start(u)
  <2>1. CASE game[u] = NoGame /\ game' = [game EXCEPT ![u] = NewGame]
    BY <2>1
  <2>2. CASE Atomic!Finished(u) /\ game' = [game EXCEPT ![u] = FreshSet(game[u])]
    <3>1. game[u] \in GameRecord /\ FreshSet(game[u]) \in Outcomes("start", game[u])
      BY <1>2, <2>2 DEF Atomic!Finished, Atomic!HasGame, Outcomes
    <3> QED BY <2>2, <3>1 DEF Ops
  <2> QED BY <1>3, <2>1, <2>2, SameRules DEF Atomic!Start
<1>4. CASE Atomic!Select(u)
  <2>1. /\ game[u] \in GameRecord
        /\ game[u].status = "IN_PROGRESS" /\ Selectable(game[u])
    BY <1>2, <1>4, SameRules DEF Atomic!Select, Atomic!InProgress, Atomic!HasGame
  <2>2. PICK p \in RemainingCards(game[u].playerUsedCards),
             d \in DealerChoices(game[u]) :
               game' = [game EXCEPT ![u] = PlayRound(game[u], p, d)]
    BY <1>4, SameRules DEF Atomic!Select
  <2>3. PlayRound(game[u], p, d) \in Outcomes("select", game[u])
    BY <2>1 DEF Outcomes
  <2> QED BY <2>1, <2>2, <2>3 DEF Ops
<1>5. CASE Atomic!Cheat(u)
  <2>1. /\ game[u] \in GameRecord
        /\ game[u].status = "IN_PROGRESS" /\ game[u].mode = "DEALER"
        /\ ~game[u].cheated
    BY <1>2, <1>5 DEF Atomic!Cheat, Atomic!InProgress, Atomic!HasGame
  <2>2. /\ RemainingCards(game[u].dealerUsedCards) # {}
        /\ game' = [game EXCEPT ![u] = ReserveCheat(game[u])]
    BY <1>5, SameRules DEF Atomic!Cheat
  <2>3. ReserveCheat(game[u]) \in Outcomes("cheat", game[u])
    BY <2>1, <2>2 DEF Outcomes
  <2> QED BY <2>1, <2>2, <2>3 DEF Ops
<1>6. CASE Atomic!ResetSet(u)
  <2>1. game[u] \in GameRecord /\ FreshSet(game[u]) \in Outcomes("reset", game[u])
    BY <1>2, <1>6 DEF Atomic!ResetSet, Atomic!HasGame, Outcomes
  <2>2. game' = [game EXCEPT ![u] = FreshSet(game[u])]
    BY <1>6, SameRules DEF Atomic!ResetSet
  <2> QED BY <2>1, <2>2 DEF Ops
<1>7. CASE Atomic!ChangeMode(u)
  <2>1. game[u] \in GameRecord /\ game[u].status = "FINISHED"
    BY <1>2, <1>7 DEF Atomic!ChangeMode, Atomic!Finished, Atomic!HasGame
  <2>2. PICK m \in Modes : game' = [game EXCEPT ![u] = SetMode(game[u], m)]
    BY <1>7, SameRules DEF Atomic!ChangeMode
  <2>3. SetMode(game[u], m) \in Outcomes("mode", game[u])
    BY <2>1 DEF Outcomes
  <2> QED BY <2>1, <2>2, <2>3 DEF Ops
<1> QED
  BY <1>1, <1>3, <1>4, <1>5, <1>6, <1>7

\* What a request may rightly write keeps the rules, if the row it read did.
LEMMA OutcomeLegal ==
    ASSUME NEW g \in GameRecord, Legal(g), NEW op \in Ops, NEW h \in Outcomes(op, g)
    PROVE  Legal(h)
<1>1. CASE op = "start"
  BY <1>1, FreshSetLegal DEF Outcomes
<1>2. CASE op = "select"
  BY <1>2, PlayRoundLegal DEF Outcomes
<1>3. CASE op = "cheat"
  BY <1>3, ReserveCheatLegal DEF Outcomes
<1>4. CASE op = "reset"
  BY <1>4, FreshSetLegal DEF Outcomes
<1>5. CASE op = "mode"
  BY <1>5, SetModeLegal DEF Outcomes
<1>6. CASE op = "status"
  BY <1>6 DEF Outcomes
<1> QED
  BY <1>1, <1>2, <1>3, <1>4, <1>5, <1>6 DEF Ops

RowsLegal == \A u \in Users : game[u] # NoGame => Legal(game[u])

LEMMA RowsStayLegal ==
    ASSUME TypeOK, RowsLegal, Refines
    PROVE  RowsLegal'
<1>1. CASE UNCHANGED game
  BY <1>1 DEF RowsLegal
<1>2. CASE Atomic!Next
  <2>1. PICK u \in Users :
             \/ game[u] = NoGame /\ game' = [game EXCEPT ![u] = NewGame]
             \/ /\ game[u] \in GameRecord
                /\ \E op \in Ops : \E h \in Outcomes(op, game[u]) :
                     game' = [game EXCEPT ![u] = h]
    BY <1>2, AtomicStepCases
  <2>2. game[u] \in GameRecord => Legal(game[u])
    BY NoGameAssumption DEF RowsLegal
  <2>3. \E h : Legal(h) /\ game' = [game EXCEPT ![u] = h]
    BY <2>1, <2>2, NewGameLegal, OutcomeLegal
  <2> QED
    BY <2>3 DEF RowsLegal, TypeOK
<1> QED
  BY <1>1, <1>2 DEF Refines

LEMMA LegalAlways == Spec => []RowsLegal
<1>1. Init => RowsLegal
  BY DEF Init, RowsLegal
<1>2. Inv /\ RowsLegal /\ [Next]_vars => RowsLegal'
  <2>1. UNCHANGED vars => UNCHANGED game
    BY DEF vars
  <2> QED
    BY <2>1, StepSound, RowsStayLegal DEF Inv, Refines
<1> QED
  BY <1>1, <1>2, InvAlways, PTL DEF Spec

LEMMA SamePromises ==
    ASSUME NEW g
    PROVE  /\ Atomic!DecidedByWins(g) <=> DecidedByWins(g)
           /\ Atomic!ReservationSound(g) <=> ReservationSound(g)
           /\ Atomic!HandsInStep(g) <=> HandsInStep(g)
           /\ Atomic!DrawsBoundHands(g) <=> DrawsBoundHands(g)
<1>1. Atomic!DecidedByWins(g) <=> DecidedByWins(g)
  BY DEF Atomic!DecidedByWins, DecidedByWins, Atomic!WinsToFinish, WinsToFinish
<1>2. Atomic!ReservationSound(g) <=> ReservationSound(g)
  BY SameRules DEF Atomic!ReservationSound, ReservationSound, Atomic!NoCard, NoCard
<1>3. \A S : Atomic!Cardinality(S) = Cardinality(S)
  BY DEF Atomic!Cardinality, Cardinality
<1>4. Atomic!HandsInStep(g) <=> HandsInStep(g)
  BY <1>3 DEF Atomic!HandsInStep, HandsInStep
<1>5. Atomic!DrawsBoundHands(g) <=> DrawsBoundHands(g)
  BY <1>3 DEF Atomic!DrawsBoundHands, DrawsBoundHands
<1> QED
  BY <1>1, <1>2, <1>4, <1>5

\* Whatever overlaps, fails or restarts, no row ever breaks the rules of the
\* game: sets end with the second win of one side, a reserved card is playable
\* and the best, and the hands are accounted for.
THEOREM ServiceKeepsTheRules ==
    Spec => []( /\ Atomic!WinsDecideStatus
                /\ Atomic!CheatReservationSound
                /\ Atomic!CardsAccounted )
<1>1. RowsLegal => /\ Atomic!WinsDecideStatus
                   /\ Atomic!CheatReservationSound
                   /\ Atomic!CardsAccounted
  BY SamePromises DEF RowsLegal, Legal, Atomic!WinsDecideStatus,
     Atomic!CheatReservationSound, Atomic!CardsAccounted
<1> QED
  BY <1>1, LegalAlways, PTL

\* Under every interleaving a row changes only to one whose version is the next,
\* so that the version a client holds stands for the row it has seen.
THEOREM ServiceVersionsAdvance == Spec => Atomic!VersionsAdvance
<1> DEFINE Advance ==
             \A u \in Users : game[u] # NoGame /\ game'[u] # game[u] =>
               game'[u] # NoGame /\ game'[u].ver = game[u].ver + 1
<1>1. ASSUME TypeOK, Refines
      PROVE  Advance
  <2>1. CASE UNCHANGED game
    BY <2>1
  <2>2. CASE Atomic!Next
    <3>1. PICK w \in Users :
             \/ game[w] = NoGame /\ game' = [game EXCEPT ![w] = NewGame]
             \/ /\ game[w] \in GameRecord
                /\ \E op \in Ops : \E h \in Outcomes(op, game[w]) :
                     game' = [game EXCEPT ![w] = h]
      BY <1>1, <2>2, AtomicStepCases
    <3>2. CASE game[w] = NoGame /\ game' = [game EXCEPT ![w] = NewGame]
      BY <1>1, <3>2 DEF TypeOK
    <3>3. CASE /\ game[w] \in GameRecord
               /\ \E op \in Ops : \E h \in Outcomes(op, game[w]) :
                    game' = [game EXCEPT ![w] = h]
      <4>1. PICK h : /\ h \in GameRecord
                     /\ h.ver = game[w].ver + 1
                     /\ game' = [game EXCEPT ![w] = h]
        BY <3>3, OutcomeType
      <4> QED
        BY <1>1, <4>1, NoGameAssumption DEF TypeOK
    <3> QED BY <3>1, <3>2, <3>3
  <2> QED BY <1>1, <2>1, <2>2 DEF Refines
<1>2. Inv /\ [Next]_vars => [Advance]_game
  <2>1. UNCHANGED vars => UNCHANGED game
    BY DEF vars
  <2> QED
    BY <1>1, <2>1, StepSound DEF Inv
<1> QED
  BY <1>2, InvAlways, PTL DEF Spec, Atomic!VersionsAdvance

=============================================================================
