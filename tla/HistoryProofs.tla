--------------------------- MODULE HistoryProofs ---------------------------
(***************************************************************************)
(* The history that Status shows, when requests come one at a time: it     *)
(* tells the set that the row is in, for every number of users and cards,  *)
(* and failures can only make it tell less.                                *)
(***************************************************************************)
EXTENDS GameServiceProofs

\* Requests come one at a time.
OneSlot == \A r, s \in Reqs : r = s

-----------------------------------------------------------------------------
(* Counting the rows of a history. *)

Count(s, T) == Cardinality({i \in DOMAIN s : s[i] \in T})

LEMMA CountType ==
    ASSUME NEW s \in Seq(LogRow), NEW T
    PROVE  Count(s, T) \in Nat
<1>1. Len(s) \in Nat /\ DOMAIN s = 1 .. Len(s)
  OBVIOUS
<1>2. IsFiniteSet(DOMAIN s)
  BY <1>1, FS_Interval
<1>3. IsFiniteSet({i \in DOMAIN s : s[i] \in T})
  BY <1>2, FS_Subset
<1> QED
  BY <1>3, FS_CardinalityType DEF Count

LEMMA CountEmpty ==
    ASSUME NEW T
    PROVE  Count(<< >>, T) = 0
<1>1. {i \in DOMAIN << >> : << >>[i] \in T} = {}
  OBVIOUS
<1> QED
  BY <1>1, FS_EmptySet DEF Count

LEMMA CountAppend ==
    ASSUME NEW s \in Seq(LogRow), NEW e \in LogRow, NEW T
    PROVE  Count(Append(s, e), T) = Count(s, T) + (IF e \in T THEN 1 ELSE 0)
<1> DEFINE n == Len(s) + 1
           t == Append(s, e)
           A == {i \in DOMAIN s : s[i] \in T}
           B == {i \in DOMAIN t : t[i] \in T}
<1>1. /\ n \in Nat /\ n \notin DOMAIN s
      /\ DOMAIN t = DOMAIN s \cup {n}
      /\ t[n] = e
      /\ \A i \in DOMAIN s : t[i] = s[i]
  OBVIOUS
<1>2. IsFiniteSet(DOMAIN s)
  BY FS_Interval
<1>3. IsFiniteSet(A) /\ Cardinality(A) \in Nat /\ n \notin A
  BY <1>1, <1>2, FS_Subset, FS_CardinalityType
<1> HIDE DEF t, n
<1>4. CASE e \in T
  <2>1. B = A \cup {n}
    BY <1>1, <1>4
  <2> HIDE DEF A, B
  <2>2. Cardinality(B) = Cardinality(A) + 1
    BY <1>3, <2>1, FS_AddElement
  <2> QED
    BY <1>4, <2>2 DEF Count, A, B, t
<1>5. CASE e \notin T
  <2>1. B = A
    BY <1>1, <1>5
  <2>2. Cardinality(B) = Cardinality(A) + 0
    <3> HIDE DEF A, B
    <3> QED BY <1>3, <2>1
  <2> QED
    BY <1>5, <2>2 DEF Count, A, B, t
<1> QED
  BY <1>4, <1>5

Won(result) == {e \in LogRow : e.result = result}

WithCheat == {e \in LogRow : e.cheatUsed}

\* The properties count with sets of positions.
LEMMA LoggedIsCount ==
    ASSUME TypeOK, NEW u \in Users
    PROVE  /\ \A result : Logged(u, result) = Count(logs[u], Won(result))
           /\ Cardinality({i \in DOMAIN logs[u] : logs[u][i].cheatUsed})
                 = Count(logs[u], WithCheat)
<1>1. \A i \in DOMAIN logs[u] : logs[u][i] \in LogRow
  <2>1. logs[u] \in Seq(LogRow)
    BY DEF TypeOK
  <2> QED BY <2>1
<1>2. ASSUME NEW result
      PROVE  Logged(u, result) = Count(logs[u], Won(result))
  <2>1. {i \in DOMAIN logs[u] : logs[u][i].result = result}
           = {i \in DOMAIN logs[u] : logs[u][i] \in Won(result)}
    BY <1>1 DEF Won
  <2> QED BY <2>1 DEF Logged, Count
<1>3. {i \in DOMAIN logs[u] : logs[u][i].cheatUsed}
         = {i \in DOMAIN logs[u] : logs[u][i] \in WithCheat}
  BY <1>1 DEF WithCheat
<1> QED
  BY <1>2, <1>3 DEF Count

-----------------------------------------------------------------------------
(* What a history tells of a row. *)

Bit(b) == IF b THEN 1 ELSE 0

\* n of the m are on record: all of them, unless something has failed (~x).
Agrees(x, n, m) == n <= m /\ (x => n = m)

CheatsPlayed(g) == Bit(g.cheated /\ ~g.cheatReserved)

\* The history s tells the row g.
TellsAll(x, s, g) ==
    /\ Agrees(x, Count(s, Won("PLAYER_WIN")), g.playerWins)
    /\ Agrees(x, Count(s, Won("DEALER_WIN")), g.dealerWins)
    /\ Agrees(x, Count(s, WithCheat), CheatsPlayed(g))

\* It does once the round e is added.
TellsBut(x, s, g, e) ==
    /\ Agrees(x, Count(s, Won("PLAYER_WIN")) + Bit(e.result = "PLAYER_WIN"), g.playerWins)
    /\ Agrees(x, Count(s, Won("DEALER_WIN")) + Bit(e.result = "DEALER_WIN"), g.dealerWins)
    /\ Agrees(x, Count(s, WithCheat) + Bit(e.cheatUsed), CheatsPlayed(g))

\* The round e leads from g to h.
PlayedFrom(g, h, e) ==
    \E p \in RemainingCards(g.playerUsedCards), d \in DealerChoices(g) :
        /\ h = PlayRound(g, p, d)
        /\ e.result = JudgeRound(p, d)
        /\ e.cheatUsed = CheatPending(g)

LEMMA EmptyTellsFresh ==
    ASSUME NEW x, NEW g, g.playerWins = 0, g.dealerWins = 0, g.cheated = FALSE
    PROVE  TellsAll(x, << >>, g)
BY CountEmpty DEF TellsAll, Agrees, CheatsPlayed, Bit

LEMMA AppendTells ==
    ASSUME NEW s \in Seq(LogRow), NEW e \in LogRow, NEW x, NEW g, TellsBut(x, s, g, e)
    PROVE  TellsAll(x, Append(s, e), g)
<1>1. /\ Count(Append(s, e), Won("PLAYER_WIN"))
            = Count(s, Won("PLAYER_WIN")) + Bit(e.result = "PLAYER_WIN")
      /\ Count(Append(s, e), Won("DEALER_WIN"))
            = Count(s, Won("DEALER_WIN")) + Bit(e.result = "DEALER_WIN")
      /\ Count(Append(s, e), WithCheat) = Count(s, WithCheat) + Bit(e.cheatUsed)
  BY CountAppend DEF Won, WithCheat, Bit
<1> QED
  BY <1>1 DEF TellsBut, TellsAll

\* A history that lacks one round is not ahead of the row.
LEMMA TellsLess ==
    ASSUME NEW s \in Seq(LogRow), NEW x, NEW e, NEW g \in GameRecord, TellsBut(x, s, g, e)
    PROVE  /\ Count(s, Won("PLAYER_WIN")) <= g.playerWins
           /\ Count(s, Won("DEALER_WIN")) <= g.dealerWins
           /\ Count(s, WithCheat) <= CheatsPlayed(g)
<1>1. /\ Count(s, Won("PLAYER_WIN")) \in Nat
      /\ Count(s, Won("DEALER_WIN")) \in Nat
      /\ Count(s, WithCheat) \in Nat
  BY CountType
<1>2. g.playerWins \in Nat /\ g.dealerWins \in Nat /\ CheatsPlayed(g) \in Nat
  BY DEF GameRecord, CheatsPlayed, Bit
<1> QED
  BY <1>1, <1>2 DEF TellsBut, Agrees, Bit

\* What a round adds to the row it adds to the history.
LEMMA RoundTells ==
    ASSUME NEW s \in Seq(LogRow), NEW g \in GameRecord, Legal(g),
           NEW x, NEW h, NEW e \in LogRow, PlayedFrom(g, h, e), TellsAll(x, s, g)
    PROVE  TellsBut(x, s, h, e)
<1>1. PICK p \in RemainingCards(g.playerUsedCards), d \in DealerChoices(g) :
         /\ h = PlayRound(g, p, d)
         /\ e.result = JudgeRound(p, d)
         /\ e.cheatUsed = CheatPending(g)
  BY DEF PlayedFrom
<1>2. h.playerWins = g.playerWins + Bit(e.result = "PLAYER_WIN")
  BY <1>1 DEF PlayRound, GameRecord, PlayerWinsAfter, Bit
<1>3. h.dealerWins = g.dealerWins + Bit(e.result = "DEALER_WIN")
  BY <1>1 DEF PlayRound, GameRecord, DealerWinsAfter, Bit
<1>4. CheatsPlayed(h) = CheatsPlayed(g) + Bit(e.cheatUsed)
  <2>1. g.cheatReserved <=> CheatPending(g)
    <3>1. ASSUME g.cheatReserved PROVE g.cheatCard \in 1 .. NumCards
      BY <3>1 DEF Legal, ReservationSound, RemainingCards, Cards
    <3>2. 0 \notin 1 .. NumCards
      BY RulesAssumption
    <3> QED
      BY <3>1, <3>2 DEF CheatPending, NoCard
  <2>2. g.cheatReserved => g.cheated
    BY DEF Legal, ReservationSound
  <2>3. h.cheated = g.cheated /\ ~h.cheatReserved
    BY <1>1, <2>1 DEF PlayRound, GameRecord
  <2>4. CASE g.cheatReserved
    <3>1. e.cheatUsed /\ g.cheated /\ h.cheated
      BY <1>1, <2>1, <2>2, <2>3, <2>4
    <3>2. CheatsPlayed(g) = 0 /\ CheatsPlayed(h) = 1 /\ Bit(e.cheatUsed) = 1
      BY <2>3, <2>4, <3>1 DEF CheatsPlayed, Bit
    <3> QED BY <3>2
  <2>5. CASE ~g.cheatReserved
    <3>1. ~e.cheatUsed
      BY <1>1, <2>1, <2>5
    <3>2. CheatsPlayed(h) = CheatsPlayed(g)
      BY <2>3, <2>5 DEF CheatsPlayed
    <3>3. Bit(e.cheatUsed) = 0 /\ CheatsPlayed(g) \in Nat
      BY <3>1 DEF CheatsPlayed, Bit
    <3> QED BY <3>2, <3>3
  <2> QED
    BY <2>4, <2>5
<1>5. /\ Count(s, Won("PLAYER_WIN")) \in Nat
      /\ Count(s, Won("DEALER_WIN")) \in Nat
      /\ Count(s, WithCheat) \in Nat
  BY CountType
<1>6. g.playerWins \in Nat /\ g.dealerWins \in Nat /\ CheatsPlayed(g) \in Nat
  BY DEF GameRecord, CheatsPlayed, Bit
<1> QED
  BY <1>2, <1>3, <1>4, <1>5, <1>6 DEF TellsBut, TellsAll, Agrees, Bit

-----------------------------------------------------------------------------
(* The inductive invariant. *)

\* What the handler that has q in hand makes of the row g with the history s.
InFlight(x, q, g, s) ==
    /\ q.at \in Writing => q.ver = g.ver
    /\ q.at = "deleteLogs" => q.op \in {"start", "reset"}
    /\ q.at = "countLogs" => q.op = "select" /\ PlayedFrom(g, q.new, q.round)
    /\ q.at = "update" =>
         \/ q.op \in {"start", "reset"} /\ s = << >>
         \/ q.op \in {"cheat", "mode"}
         \/ /\ q.op = "select"
            /\ PlayedFrom(g, q.new, q.round)
            /\ q.round.number = Len(s) + 1
    /\ q.at = "createLog" =>
         TellsBut(x, s, g, q.round) /\ q.round.number = Len(s) + 1

\* The history has been given up for a fresh set that is not written yet, or
\* lacks the round that is.
Apart(q) ==
    \/ q.at = "update" /\ q.op \in {"start", "reset"}
    \/ q.at = "createLog"

Numbered(s) == \A i \in DOMAIN s : s[i].number = i

HistoryInv ==
    /\ \A u \in Users :
         /\ Numbered(logs[u])
         /\ game[u] = NoGame => logs[u] = << >>
         /\ game[u] # NoGame /\ (\A r \in Reqs : req[r].user = u => ~Apart(req[r])) =>
              TellsAll(faults = 0, logs[u], game[u])
    /\ \A r \in Reqs :
         InFlight(faults = 0, req[r], game[req[r].user], logs[req[r].user])

\* What holds of the service whatever the number of slots.
ServiceInv == Inv /\ RowsLegal

LEMMA ServiceInvAlways == Spec => []ServiceInv
BY InvAlways, LegalAlways, PTL DEF ServiceInv

LEMMA IdleAnswer ==
    ASSUME NEW code, NEW x, NEW g, NEW s
    PROVE  /\ Answer(code).at = "idle"
           /\ ~Apart(Answer(code))
           /\ InFlight(x, Answer(code), g, s)
BY DEF Answer, Apart, InFlight, Writing


-----------------------------------------------------------------------------
(* The steps. *)

\* A step of the only slot, on the row and history of u at most.
LEMMA HistoryStep ==
    ASSUME OneSlot, ServiceInv, HistoryInv, NEW r \in Reqs, NEW q, NEW u \in Users,
           req' = [req EXCEPT ![r] = q],
           faults' = faults \/ faults' # 0,
           \A w \in Users : w # u => game'[w] = game[w] /\ logs'[w] = logs[w],
           req[r].user # u => ~Apart(req[r]),
           InFlight(faults' = 0, q, game'[q.user], logs'[q.user]),
           Apart(q) => q.user = u,
           Numbered(logs'[u]),
           game'[u] = NoGame => logs'[u] = << >>,
           game'[u] # NoGame /\ ~Apart(q) => TellsAll(faults' = 0, logs'[u], game'[u])
    PROVE  HistoryInv'
<1>1. req \in [Reqs -> Request]
  BY DEF ServiceInv, Inv, TypeOK
<1>2. \A s \in Reqs : s = r /\ req'[s] = q
  BY <1>1 DEF OneSlot
<1>3. ASSUME NEW w \in Users
      PROVE  /\ Numbered(logs'[w])
             /\ game'[w] = NoGame => logs'[w] = << >>
             /\ game'[w] # NoGame /\ (\A s \in Reqs : req'[s].user = w => ~Apart(req'[s]))
                  => TellsAll(faults' = 0, logs'[w], game'[w])
  <2>1. CASE w = u
    BY <1>2, <2>1
  <2>2. CASE w # u
    <3>1. game'[w] = game[w] /\ logs'[w] = logs[w]
      BY <2>2
    <3>2. Numbered(logs[w]) /\ (game[w] = NoGame => logs[w] = << >>)
      BY DEF HistoryInv
    <3>3. ASSUME game[w] # NoGame
          PROVE  TellsAll(faults' = 0, logs[w], game[w])
      <4>1. CASE Apart(req[r]) /\ req[r].user = w
        BY <2>2, <4>1
      <4>2. CASE ~(Apart(req[r]) /\ req[r].user = w)
        <5>1. TellsAll(faults = 0, logs[w], game[w])
          BY <1>2, <3>3, <4>2 DEF HistoryInv
        <5> QED BY <5>1 DEF TellsAll, Agrees
      <4> QED BY <4>1, <4>2
    <3> QED BY <3>1, <3>2, <3>3
  <2> QED BY <2>1, <2>2
<1>4. \A s \in Reqs : InFlight(faults' = 0, req'[s], game'[req'[s].user], logs'[req'[s].user])
  BY <1>2
<1> QED
  BY <1>3, <1>4 DEF HistoryInv

\* A handler that begins holds a row that follows from the one it has read.
LEMMA BeginFits ==
    ASSUME TypeOK, NEW r \in Reqs, Begin(r)
    PROVE  /\ req[r].at = "idle"
           /\ UNCHANGED <<game, logs, faults>>
           /\ \E q : /\ req' = [req EXCEPT ![r] = q]
                     /\ ~Apart(q)
                     /\ InFlight(faults = 0, q, game[q.user], logs[q.user])
<1>1. PICK u \in Users : \E v \in SentVersions(u) :
         \/ Start(r, u, v)
         \/ \E sid \in Users \cup {NoGame, "OTHER"} : Select(r, u, sid, v)
         \/ Cheat(r, u, v)
         \/ ResetSet(r, u, v)
         \/ \E m \in Modes \cup {"OTHER"} : ChangeMode(r, u, m, v)
         \/ Status(r, u)
  BY DEF Begin
<1>2. PICK v \in SentVersions(u) :
         \/ Start(r, u, v)
         \/ \E sid \in Users \cup {NoGame, "OTHER"} : Select(r, u, sid, v)
         \/ Cheat(r, u, v)
         \/ ResetSet(r, u, v)
         \/ \E m \in Modes \cup {"OTHER"} : ChangeMode(r, u, m, v)
         \/ Status(r, u)
  BY <1>1
<1> DEFINE g == game[u]
           Good == /\ UNCHANGED <<game, logs, faults>>
                   /\ \E q : /\ req' = [req EXCEPT ![r] = q]
                             /\ ~Apart(q)
                             /\ InFlight(faults = 0, q, game[q.user], logs[q.user])
<1>3. req[r].at = "idle"
  BY <1>2 DEF Start, Select, Cheat, ResetSet, ChangeMode, Status, CanBegin
<1> SUFFICES Good
  BY <1>3
<1>4. ASSUME NEW code, Reply(r, code)
      PROVE  Good
  BY <1>4, IdleAnswer DEF Reply
<1>5. ASSUME NEW stage, NEW op, NEW w, NEW h, NEW round,
             Proceed(r, stage, op, u, w, h, round),
             stage \in Writing => w = g.ver,
             \/ stage \in {"createGame", "readLogs"}
             \/ stage = "deleteLogs" /\ op \in {"start", "reset"}
             \/ /\ stage = "countLogs" /\ op = "select"
                /\ PlayedFrom(g, h, round)
             \/ stage = "update" /\ op \in {"cheat", "mode"}
      PROVE  Good
  <2> DEFINE q == [at |-> stage, op |-> op, user |-> u, ver |-> w, new |-> h,
                   round |-> round, lost |-> FALSE, code |-> "none"]
  <2>1. /\ q.at = stage /\ q.op = op /\ q.user = u /\ q.ver = w
        /\ q.new = h /\ q.round = round
    OBVIOUS
  <2>2. req' = [req EXCEPT ![r] = q] /\ UNCHANGED <<game, logs, faults>>
    BY <1>5 DEF Proceed
  <2> HIDE DEF q
  <2>3. ~Apart(q) /\ InFlight(faults = 0, q, game[q.user], logs[q.user])
    BY <1>5, <2>1 DEF Apart, InFlight
  <2> QED
    BY <2>2, <2>3
<1> HIDE DEF Good
<1>6. CASE Start(r, u, v)
  <2>1. CASE Proceed(r, "createGame", "start", u, 0, NewGame, NoRound)
    BY <1>5, <2>1 DEF Writing
  <2>2. CASE /\ StartRefusal(g, v) = "ok"
             /\ Proceed(r, "deleteLogs", "start", u, v, FreshSet(g), NoRound)
    <3>1. v = g.ver
      BY <2>2 DEF StartRefusal
    <3> QED BY <1>5, <2>2, <3>1
  <2>3. CASE Reply(r, StartRefusal(g, v))
    BY <1>4, <2>3
  <2> QED BY <1>6, <2>1, <2>2, <2>3 DEF Start
<1>7. CASE \E sid \in Users \cup {NoGame, "OTHER"} : Select(r, u, sid, v)
  <2>1. PICK sid \in Users \cup {NoGame, "OTHER"} : Select(r, u, sid, v)
    BY <1>7
  <2>2. CASE SelectRefusal(g, u, sid, v) = "ok"
    <3>1. v = g.ver
      BY <2>2 DEF SelectRefusal
    <3>2. PICK p \in RemainingCards(g.playerUsedCards), d \in DealerChoices(g) :
             Proceed(r, "countLogs", "select", u, v, PlayRound(g, p, d),
                     [number |-> 0, result |-> JudgeRound(p, d),
                      cheatUsed |-> CheatPending(g)])
      BY <2>1, <2>2 DEF Select
    <3>3. PlayedFrom(g, PlayRound(g, p, d),
                     [number |-> 0, result |-> JudgeRound(p, d),
                      cheatUsed |-> CheatPending(g)])
      BY DEF PlayedFrom
    <3> QED BY <1>5, <3>1, <3>2, <3>3
  <2>3. CASE Reply(r, SelectRefusal(g, u, sid, v))
    BY <1>4, <2>3
  <2> QED BY <2>1, <2>2, <2>3 DEF Select
<1>8. CASE Cheat(r, u, v)
  <2>1. CASE /\ CheatRefusal(g, v) = "ok"
             /\ Proceed(r, "update", "cheat", u, v, ReserveCheat(g), NoRound)
    <3>1. v = g.ver
      BY <2>1 DEF CheatRefusal
    <3> QED BY <1>5, <2>1, <3>1
  <2>2. CASE Reply(r, CheatRefusal(g, v))
    BY <1>4, <2>2
  <2> QED BY <1>8, <2>1, <2>2 DEF Cheat
<1>9. CASE ResetSet(r, u, v)
  <2>1. CASE /\ ResetRefusal(g, v) = "ok"
             /\ Proceed(r, "deleteLogs", "reset", u, v, FreshSet(g), NoRound)
    <3>1. v = g.ver
      BY <2>1 DEF ResetRefusal
    <3> QED BY <1>5, <2>1, <3>1
  <2>2. CASE Reply(r, ResetRefusal(g, v))
    BY <1>4, <2>2
  <2> QED BY <1>9, <2>1, <2>2 DEF ResetSet
<1>10. CASE \E m \in Modes \cup {"OTHER"} : ChangeMode(r, u, m, v)
  <2>1. PICK m \in Modes \cup {"OTHER"} : ChangeMode(r, u, m, v)
    BY <1>10
  <2>2. CASE /\ ModeRefusal(g, m, v) = "ok"
             /\ Proceed(r, "update", "mode", u, v, SetMode(g, m), NoRound)
    <3>1. v = g.ver
      BY <2>2 DEF ModeRefusal
    <3> QED BY <1>5, <2>2, <3>1
  <2>3. CASE Reply(r, ModeRefusal(g, m, v))
    BY <1>4, <2>3
  <2> QED BY <2>1, <2>2, <2>3 DEF ChangeMode
<1>11. CASE Status(r, u)
  <2>1. CASE Reply(r, "ok")
    BY <1>4, <2>1
  <2>2. CASE Proceed(r, "readLogs", "status", u, 0, g, NoRound)
    BY <1>5, <2>2 DEF Writing
  <2> QED BY <1>11, <2>1, <2>2 DEF Status
<1> QED
  BY <1>2, <1>6, <1>7, <1>8, <1>9, <1>10, <1>11

\* The slot is given up with the row and the history as they are.
LEMMA GiveUpStep ==
    ASSUME OneSlot, ServiceInv, HistoryInv, NEW r \in Reqs, NEW code,
           req' = [req EXCEPT ![r] = Answer(code)], UNCHANGED <<game, logs>>,
           \/ faults' # 0
           \/ faults' = faults /\ ~Apart(req[r])
    PROVE  HistoryInv'
<1> DEFINE u == req[r].user
           s == logs[u]
<1>1. /\ u \in Users /\ s \in Seq(LogRow)
      /\ PendingSound(req[r], game[u])
  BY InvRequests DEF ServiceInv, Inv, TypeOK, SoundRequest
<1>2. ~Apart(Answer(code)) /\ InFlight(faults' = 0, Answer(code), game'[Answer(code).user], logs'[Answer(code).user])
  BY IdleAnswer
<1>3. Numbered(s) /\ (game[u] = NoGame => s = << >>)
  BY <1>1 DEF HistoryInv
<1>4. ASSUME game[u] # NoGame
      PROVE  TellsAll(faults' = 0, s, game[u])
  <2>1. game[u] \in GameRecord
    BY <1>1, <1>4 DEF ServiceInv, Inv, TypeOK
  <2>2. CASE ~Apart(req[r])
    <3>1. TellsAll(faults = 0, s, game[u])
      BY <1>1, <1>4, <2>2 DEF HistoryInv, OneSlot
    <3> QED BY <3>1 DEF TellsAll, Agrees
  <2>3. CASE req[r].at = "update" /\ req[r].op \in {"start", "reset"}
    <3>1. s = << >>
      BY <2>3 DEF HistoryInv, InFlight
    <3>2. /\ Count(s, Won("PLAYER_WIN")) = 0
          /\ Count(s, Won("DEALER_WIN")) = 0
          /\ Count(s, WithCheat) = 0
      BY <3>1, CountEmpty
    <3>3. game[u].playerWins \in Nat /\ game[u].dealerWins \in Nat
      BY <2>1 DEF GameRecord
    <3>4. CheatsPlayed(game[u]) \in Nat
      BY DEF CheatsPlayed, Bit
    <3>5. faults' # 0
      BY <2>3 DEF Apart
    <3> HIDE DEF s, u
    <3> QED BY <3>2, <3>3, <3>4, <3>5 DEF TellsAll, Agrees
  <2>4. CASE req[r].at = "createLog"
    <3>1. TellsBut(faults = 0, s, game[u], req[r].round)
      BY <2>4 DEF HistoryInv, InFlight
    <3>2. faults' # 0
      BY <2>4 DEF Apart
    <3> HIDE DEF s, u
    <3> QED BY <1>1, <2>1, <3>1, <3>2, TellsLess DEF TellsAll, Agrees
  <2> QED BY <2>2, <2>3, <2>4 DEF Apart
<1> HIDE DEF u, s
<1>5. game'[u] = game[u] /\ logs'[u] = s
  BY DEF s
<1>6. \A w \in Users : game'[w] = game[w] /\ logs'[w] = logs[w]
  OBVIOUS
<1>7. req[r].user # u => ~Apart(req[r])
  BY DEF u
<1> QED
  BY <1>1, <1>2, <1>3, <1>4, <1>5, <1>6, <1>7, HistoryStep

LEMMA CreateGameTells ==
    ASSUME OneSlot, ServiceInv, HistoryInv, NEW r \in Reqs, CreateGame(r)
    PROVE  HistoryInv'
<1> DEFINE u == req[r].user
<1>1. u \in Users /\ PendingSound(req[r], game[u]) /\ req[r].at = "createGame"
  BY InvRequests DEF ServiceInv, SoundRequest, CreateGame
<1>2. ~Apart(req[r]) /\ UNCHANGED <<logs, faults>>
  BY <1>1 DEF Apart, CreateGame
<1>3. CASE /\ game[u] = NoGame
           /\ game' = [game EXCEPT ![u] = req[r].new]
           /\ req' = [req EXCEPT ![r] = Answer("ok")]
  <2>1. /\ game'[u] = NewGame
        /\ \A w \in Users : w # u => game'[w] = game[w] /\ logs'[w] = logs[w]
    BY <1>1, <1>2, <1>3 DEF PendingSound, ServiceInv, Inv, TypeOK
  <2>2. logs'[u] = << >> /\ Numbered(logs'[u])
    BY <1>1, <1>2, <1>3 DEF HistoryInv
  <2>3. TellsAll(faults' = 0, logs'[u], game'[u])
    <3> DEFINE x == faults' = 0
    <3>1. NewGame.playerWins = 0 /\ NewGame.dealerWins = 0 /\ NewGame.cheated = FALSE
      BY DEF NewGame
    <3> HIDE DEF x
    <3>2. TellsAll(x, << >>, NewGame)
      BY <3>1, EmptyTellsFresh
    <3> QED BY <2>1, <2>2, <3>2 DEF x
  <2> DEFINE q == Answer("ok")
  <2>4. /\ ~Apart(q) /\ q.at = "idle"
        /\ InFlight(faults' = 0, q, game'[q.user], logs'[q.user])
    BY IdleAnswer
  <2>5. req' = [req EXCEPT ![r] = q] /\ faults' = faults
    BY <1>2, <1>3
  <2> HIDE DEF u, q
  <2> QED
    BY <1>1, <1>2, <2>1, <2>2, <2>3, <2>4, <2>5, HistoryStep
<1>4. CASE req' = [req EXCEPT ![r] = Answer("internal_error")] /\ UNCHANGED game
  BY <1>2, <1>4, GiveUpStep
<1> QED
  BY <1>3, <1>4 DEF CreateGame

LEMMA DeleteLogsTells ==
    ASSUME OneSlot, ServiceInv, HistoryInv, NEW r \in Reqs, DeleteByGameID(r)
    PROVE  HistoryInv'
<1> DEFINE u == req[r].user
           p == [req[r] EXCEPT !.at = "update", !.lost = logs[u] # << >>]
<1>1. /\ u \in Users /\ req[r] \in Request /\ req[r].at = "deleteLogs"
      /\ PendingSound(req[r], game[u])
  BY InvRequests DEF ServiceInv, SoundRequest, DeleteByGameID
<1>2. req' = [req EXCEPT ![r] = p] /\ UNCHANGED <<game, faults>>
  BY DEF DeleteByGameID, ServiceInv, Inv, TypeOK
<1>3. /\ p.at = "update" /\ p.user = u /\ p.op = req[r].op /\ p.ver = req[r].ver
  BY <1>1 DEF Request
<1>4. /\ logs'[u] = << >>
      /\ \A w \in Users : w # u => game'[w] = game[w] /\ logs'[w] = logs[w]
  BY <1>1, <1>2 DEF DeleteByGameID, ServiceInv, Inv, TypeOK
<1>5. req[r].ver = game[u].ver /\ req[r].op \in {"start", "reset"}
  BY <1>1 DEF HistoryInv, InFlight, Writing
<1> HIDE DEF p
<1>6. Apart(p) /\ InFlight(faults' = 0, p, game'[p.user], logs'[p.user])
  BY <1>2, <1>3, <1>4, <1>5 DEF Apart, InFlight
<1>7. Numbered(logs'[u])
  BY <1>4 DEF Numbered
<1>8. req[r].user = u
  OBVIOUS
<1> HIDE DEF u
<1> QED
  BY <1>1, <1>2, <1>3, <1>4, <1>6, <1>7, <1>8, HistoryStep

LEMMA CountLogsTells ==
    ASSUME OneSlot, ServiceInv, HistoryInv, NEW r \in Reqs,
           GetRoundLogCountByGameID(r)
    PROVE  HistoryInv'
<1> DEFINE u == req[r].user
           n == Len(logs[u]) + 1
           p == [req[r] EXCEPT !.at = "update", !.round.number = n]
<1>1. u \in Users /\ req[r] \in Request /\ req[r].at = "countLogs"
  BY InvRequests DEF ServiceInv, SoundRequest, GetRoundLogCountByGameID
<1>2. req' = [req EXCEPT ![r] = p] /\ UNCHANGED <<game, logs, faults>>
  BY DEF GetRoundLogCountByGameID, ServiceInv, Inv, TypeOK
<1>3. /\ p.at = "update" /\ p.user = u /\ p.op = req[r].op /\ p.ver = req[r].ver
      /\ p.new = req[r].new
      /\ p.round = [req[r].round EXCEPT !.number = n]
  BY <1>1 DEF Request
<1>4. /\ p.round.number = n
      /\ p.round.result = req[r].round.result
      /\ p.round.cheatUsed = req[r].round.cheatUsed
  BY <1>1, <1>3 DEF Request, LogRow
<1>5. /\ req[r].ver = game[u].ver /\ req[r].op = "select"
      /\ PlayedFrom(game[u], req[r].new, req[r].round)
  BY <1>1 DEF HistoryInv, InFlight, Writing
<1> HIDE DEF p
<1>6. PlayedFrom(game[u], p.new, p.round)
  BY <1>3, <1>4, <1>5 DEF PlayedFrom
<1>7. ~Apart(p)
  BY <1>3, <1>5 DEF Apart
<1>8. InFlight(faults' = 0, p, game'[p.user], logs'[p.user])
  BY <1>2, <1>3, <1>4, <1>5, <1>6 DEF InFlight
<1>9. ~Apart(req[r])
  BY <1>1 DEF Apart
<1>10. /\ Numbered(logs[u])
       /\ game[u] = NoGame => logs[u] = << >>
       /\ game[u] # NoGame => TellsAll(faults = 0, logs[u], game[u])
  BY <1>1, <1>9 DEF HistoryInv, OneSlot
<1> HIDE DEF u
<1> QED
  BY <1>1, <1>2, <1>7, <1>8, <1>9, <1>10, HistoryStep

\* With one slot no other handler gets ahead: the update finds the version it
\* was prepared for, and the history tells the row it writes, or all of it but
\* the round that is logged next.
LEMMA UpdateTells ==
    ASSUME OneSlot, ServiceInv, HistoryInv, NEW r \in Reqs, UpdateWithVersion(r)
    PROVE  HistoryInv'
<1> DEFINE u == req[r].user
           q == req[r]
           g == game[u]
           s == logs[u]
           x == faults = 0
<1>1. /\ u \in Users /\ q \in Request /\ q.at = "update" /\ q.op \in Ops
      /\ PendingSound(q, g) /\ s \in Seq(LogRow) /\ q.round \in LogRow
  BY InvRequests DEF ServiceInv, Inv, TypeOK, SoundRequest, UpdateWithVersion, Request
<1>2. InFlight(x, q, g, s) /\ q.ver = g.ver
  BY <1>1 DEF HistoryInv, InFlight, Writing
<1>3. g # NoGame /\ q.new \in Outcomes(q.op, g)
  BY <1>1, <1>2 DEF PendingSound, Writing
<1>4. g \in GameRecord /\ Legal(g)
  BY <1>1, <1>3 DEF ServiceInv, Inv, TypeOK, RowsLegal
<1>5. /\ game' = [game EXCEPT ![u] = q.new]
      /\ req' = [req EXCEPT ![r] = AfterUpdate(r)]
      /\ UNCHANGED <<logs, faults>>
  BY <1>2 DEF UpdateWithVersion
<1>6. /\ game'[u] = q.new /\ logs'[u] = s
      /\ \A w \in Users : w # u => game'[w] = game[w] /\ logs'[w] = logs[w]
  BY <1>1, <1>5 DEF ServiceInv, Inv, TypeOK
<1>7. q.new # NoGame /\ q.new \in GameRecord
  BY <1>1, <1>3, <1>4, OutcomeType, NoGameAssumption
<1>8. ~Apart(q) => TellsAll(x, s, g)
  BY <1>1, <1>3 DEF HistoryInv, OneSlot
<1>9. Numbered(s)
  BY <1>1 DEF HistoryInv
<1>10. CASE q.op = "select"
  <2> DEFINE p == [q EXCEPT !.at = "createLog"]
  <2>1. /\ AfterUpdate(r) = p
        /\ p.at = "createLog" /\ p.user = u /\ p.round = q.round
    BY <1>1, <1>10 DEF AfterUpdate, Request
  <2>2. /\ PlayedFrom(g, q.new, q.round)
        /\ q.round.number = Len(s) + 1
    BY <1>1, <1>2, <1>10 DEF InFlight
  <2>3. ~Apart(q)
    BY <1>1, <1>10 DEF Apart
  <2> HIDE DEF x, g, s, q
  <2>4. TellsBut(x, s, q.new, q.round)
    BY <1>1, <1>4, <1>8, <2>2, <2>3, RoundTells
  <2> HIDE DEF p
  <2>5. Apart(p) /\ InFlight(x, p, game'[p.user], logs'[p.user])
    BY <1>6, <2>1, <2>2, <2>4 DEF Apart, InFlight, Writing
  <2>6. (faults' = 0) = x
    BY <1>5 DEF x
  <2>7. /\ req' = [req EXCEPT ![r] = p] /\ faults' = faults
        /\ Numbered(logs'[u]) /\ game'[u] # NoGame
        /\ req[r].user = u
    BY <1>5, <1>6, <1>7, <1>9, <2>1
  <2>8. InFlight(faults' = 0, p, game'[p.user], logs'[p.user])
    BY <2>5, <2>6
  <2> HIDE DEF u
  <2> QED
    BY <1>1, <1>6, <2>1, <2>5, <2>7, <2>8, HistoryStep
<1>11. CASE q.op # "select"
  <2>1. AfterUpdate(r) = Answer("ok")
    BY <1>11 DEF AfterUpdate
  <2>2. TellsAll(x, s, q.new)
    <3>1. CASE q.op \in {"start", "reset"}
      <4>1. s = << >>
        BY <1>1, <1>2, <3>1 DEF InFlight
      <4>2. q.new = FreshSet(g)
        BY <1>3, <3>1 DEF Outcomes
      <4>3. q.new.playerWins = 0 /\ q.new.dealerWins = 0 /\ q.new.cheated = FALSE
        BY <4>2 DEF FreshSet, NewGame
      <4> HIDE DEF q, s, x
      <4> QED BY <4>1, <4>3, EmptyTellsFresh
    <3>2. CASE q.op \in {"cheat", "mode"}
      <4>1. TellsAll(x, s, g)
        BY <1>1, <1>8, <3>2 DEF Apart
      <4>2. /\ q.new.playerWins = g.playerWins
            /\ q.new.dealerWins = g.dealerWins
            /\ CheatsPlayed(q.new) = CheatsPlayed(g)
        <5>1. CASE q.op = "cheat"
          <6>1. q.new = ReserveCheat(g) /\ ~g.cheated
            BY <1>3, <5>1 DEF Outcomes
          <6>2. q.new.cheatReserved = TRUE
            BY <1>4, <6>1 DEF ReserveCheat, GameRecord
          <6> QED
            BY <1>4, <6>1, <6>2 DEF ReserveCheat, GameRecord, CheatsPlayed, Bit
        <5>2. CASE q.op = "mode"
          <6>1. PICK m \in Modes : q.new = SetMode(g, m)
            BY <1>3, <5>2 DEF Outcomes
          <6> QED
            BY <1>4, <6>1 DEF SetMode, GameRecord, CheatsPlayed
        <5> QED BY <3>2, <5>1, <5>2
      <4> QED BY <4>1, <4>2 DEF TellsAll
    <3> QED BY <1>1, <1>2, <1>11, <3>1, <3>2 DEF InFlight
  <2>3. /\ ~Apart(Answer("ok"))
        /\ InFlight(faults' = 0, Answer("ok"), game'[Answer("ok").user],
                    logs'[Answer("ok").user])
    BY IdleAnswer
  <2>4. /\ req' = [req EXCEPT ![r] = Answer("ok")] /\ faults' = faults
        /\ Numbered(logs'[u]) /\ game'[u] # NoGame
        /\ req[r].user = u
    BY <1>5, <1>6, <1>7, <1>9, <2>1
  <2>5. TellsAll(faults' = 0, logs'[u], game'[u])
    BY <1>5, <1>6, <2>2
  <2> HIDE DEF u, q, g, s
  <2> QED
    BY <1>1, <1>6, <2>3, <2>4, <2>5, HistoryStep
<1> QED
  BY <1>10, <1>11

LEMMA CreateLogTells ==
    ASSUME OneSlot, ServiceInv, HistoryInv, NEW r \in Reqs, CreateLog(r)
    PROVE  HistoryInv'
<1> DEFINE u == req[r].user
           s == logs[u]
           e == req[r].round
<1>1. /\ u \in Users /\ s \in Seq(LogRow) /\ e \in LogRow
      /\ req[r].at = "createLog" /\ game[u] # NoGame
  BY InvRequests
     DEF ServiceInv, Inv, TypeOK, SoundRequest, Request, PendingSound, CreateLog
<1>2. /\ req' = [req EXCEPT ![r] = Answer("ok")]
      /\ UNCHANGED <<game, faults>>
      /\ logs'[u] = Append(s, e)
      /\ \A w \in Users : w # u => game'[w] = game[w] /\ logs'[w] = logs[w]
  BY <1>1 DEF CreateLog, ServiceInv, Inv, TypeOK
<1>3. TellsBut(faults = 0, s, game[u], e) /\ e.number = Len(s) + 1
  BY <1>1 DEF HistoryInv, InFlight
<1>4. TellsAll(faults' = 0, logs'[u], game'[u])
  <2> DEFINE x == faults = 0
  <2> HIDE DEF x, s, e, u
  <2>1. TellsBut(x, s, game[u], e)
    BY <1>3 DEF x
  <2>2. TellsAll(x, Append(s, e), game[u])
    BY <1>1, <2>1, AppendTells
  <2> QED BY <1>2, <2>2 DEF x
<1>5. Numbered(logs'[u])
  <2>1. Numbered(s)
    BY <1>1 DEF HistoryInv
  <2> HIDE DEF s, e
  <2> QED BY <1>1, <1>2, <1>3, <2>1 DEF Numbered
<1>6. /\ ~Apart(Answer("ok"))
      /\ InFlight(faults' = 0, Answer("ok"), game'[Answer("ok").user],
                  logs'[Answer("ok").user])
  BY IdleAnswer
<1>7. req[r].user = u /\ game'[u] # NoGame /\ faults' = faults
  BY <1>1, <1>2
<1> HIDE DEF u, s, e
<1> QED
  BY <1>1, <1>2, <1>4, <1>5, <1>6, <1>7, HistoryStep

LEMMA RestartTells ==
    ASSUME OneSlot, ServiceInv, HistoryInv, Restart
    PROVE  HistoryInv'
<1>1. PICK r \in Reqs : req[r].at # "idle"
  BY DEF Restart
<1>2. req' = [req EXCEPT ![r] = Answer("none")]
  BY DEF Restart, OneSlot, ServiceInv, Inv, TypeOK
<1>3. faults' # 0 /\ UNCHANGED <<game, logs>>
  BY ServiceAssumption DEF Restart, ServiceInv, Inv, TypeOK
<1> QED
  BY <1>2, <1>3, GiveUpStep

LEMMA NextTells ==
    ASSUME OneSlot, ServiceInv, HistoryInv, Next
    PROVE  HistoryInv'
<1>1. ASSUME NEW r \in Reqs, Begin(r)
      PROVE  HistoryInv'
  <2>1. /\ req[r].at = "idle" /\ UNCHANGED <<game, logs, faults>>
        /\ r \in Reqs /\ req[r].user \in Users
    BY <1>1, BeginFits, InvRequests DEF ServiceInv, Inv
  <2>2. PICK q : /\ req' = [req EXCEPT ![r] = q]
                 /\ ~Apart(q)
                 /\ InFlight(faults = 0, q, game[q.user], logs[q.user])
    BY <1>1, BeginFits DEF ServiceInv, Inv
  <2> DEFINE u == req[r].user
  <2>3. ~Apart(req[r])
    BY <2>1 DEF Apart
  <2>4. /\ Numbered(logs[u])
        /\ game[u] = NoGame => logs[u] = << >>
        /\ game[u] # NoGame => TellsAll(faults = 0, logs[u], game[u])
    BY <2>1, <2>3 DEF HistoryInv, OneSlot
  <2>5. u \in Users
    BY <2>1
  <2> HIDE DEF u
  <2> QED
    BY <2>1, <2>2, <2>3, <2>4, <2>5, HistoryStep
<1>2. ASSUME NEW r \in Reqs, GetRoundLogsByGameID(r)
      PROVE  HistoryInv'
  <2>1. /\ req' = [req EXCEPT ![r] = Answer("ok")]
        /\ UNCHANGED <<game, logs, faults>> /\ ~Apart(req[r])
    BY <1>2 DEF GetRoundLogsByGameID, Reply, Apart
  <2> QED BY <2>1, GiveUpStep
<1>3. ASSUME NEW r \in Reqs, Fail(r)
      PROVE  HistoryInv'
  <2>1. /\ req' = [req EXCEPT ![r] = Answer("internal_error")]
        /\ UNCHANGED <<game, logs>>
    BY <1>3 DEF Fail
  <2>2. faults' # 0
    BY <1>3, ServiceAssumption DEF Fail, ServiceInv, Inv, TypeOK
  <2> QED BY <2>1, <2>2, GiveUpStep
<1> QED
  BY <1>1, <1>2, <1>3, CreateGameTells, DeleteLogsTells, CountLogsTells,
     UpdateTells, CreateLogTells, RestartTells DEF Next, Statement

LEMMA HistoryInvAlways ==
    ASSUME OneSlot
    PROVE  Spec => []HistoryInv
<1>1. Init => HistoryInv
  <2> SUFFICES ASSUME Init PROVE HistoryInv
    OBVIOUS
  <2>1. \A r \in Reqs : InFlight(faults = 0, req[r], game[req[r].user], logs[req[r].user])
    BY IdleAnswer DEF Init
  <2>2. \A u \in Users : game[u] = NoGame /\ logs[u] = << >>
    BY DEF Init
  <2> QED BY <2>1, <2>2 DEF HistoryInv, Numbered
<1>2. ServiceInv /\ HistoryInv /\ [Next]_vars => HistoryInv'
  <2>1. ASSUME HistoryInv, UNCHANGED vars PROVE HistoryInv'
    BY <2>1 DEF vars, HistoryInv
  <2> QED
    BY <2>1, NextTells
<1> QED
  BY <1>1, <1>2, ServiceInvAlways, PTL DEF Spec

\* While requests come one at a time and nothing has failed, the history that
\* Status shows tells the wins and the cheat of the set that the row is in.
THEOREM HistoryTellsTheSet ==
    ASSUME OneSlot
    PROVE  Spec => []HistoryMatches
<1>1. ServiceInv /\ HistoryInv => HistoryMatches
  <2> SUFFICES ASSUME ServiceInv, HistoryInv, NEW u \in Users,
                      faults = 0, Quiet(u), game[u] # NoGame
               PROVE  /\ Logged(u, "PLAYER_WIN") = game[u].playerWins
                      /\ Logged(u, "DEALER_WIN") = game[u].dealerWins
                      /\ Cardinality({i \in DOMAIN logs[u] : logs[u][i].cheatUsed}) =
                            IF game[u].cheated /\ ~game[u].cheatReserved THEN 1 ELSE 0
    BY DEF HistoryMatches
  <2>1. \A r \in Reqs : req[r].user = u => ~Apart(req[r])
    BY DEF Quiet, Apart
  <2>2. TellsAll(TRUE, logs[u], game[u])
    BY <2>1 DEF HistoryInv, TellsAll, Agrees
  <2> QED
    BY <2>2, LoggedIsCount DEF ServiceInv, Inv, TellsAll, Agrees, CheatsPlayed, Bit
<1> QED
  BY <1>1, HistoryInvAlways, ServiceInvAlways, PTL

\* Failures and restarts may lose rounds, but as long as requests come one at a
\* time no round of another set is ever shown, and no number is given twice.
THEOREM HistoryIsNeverAhead ==
    ASSUME OneSlot
    PROVE  Spec => []HistoryNeverAhead
<1>1. ServiceInv /\ HistoryInv => HistoryNeverAhead
  <2> SUFFICES ASSUME ServiceInv, HistoryInv, NEW u \in Users
               PROVE  /\ Logged(u, "PLAYER_WIN")
                            <= IF game[u] = NoGame THEN 0 ELSE game[u].playerWins
                      /\ Logged(u, "DEALER_WIN")
                            <= IF game[u] = NoGame THEN 0 ELSE game[u].dealerWins
                      /\ \A i \in DOMAIN logs[u] : logs[u][i].number = i
    BY DEF HistoryNeverAhead
  <2>1. Numbered(logs[u]) /\ (game[u] = NoGame => logs[u] = << >>)
    BY DEF HistoryInv
  <2>2. /\ Logged(u, "PLAYER_WIN") = Count(logs[u], Won("PLAYER_WIN"))
        /\ Logged(u, "DEALER_WIN") = Count(logs[u], Won("DEALER_WIN"))
    BY LoggedIsCount DEF ServiceInv, Inv
  <2>3. CASE logs[u] = << >>
    <3>1. Logged(u, "PLAYER_WIN") = 0 /\ Logged(u, "DEALER_WIN") = 0
      BY <2>2, <2>3, CountEmpty
    <3>2. game[u] # NoGame => game[u].playerWins \in Nat /\ game[u].dealerWins \in Nat
      BY DEF ServiceInv, Inv, TypeOK, GameRecord
    <3> QED BY <2>1, <3>1, <3>2 DEF Numbered
  <2>4. CASE logs[u] # << >>
    <3>1. game[u] # NoGame /\ game[u] \in GameRecord /\ logs[u] \in Seq(LogRow)
      BY <2>1, <2>4 DEF ServiceInv, Inv, TypeOK
    <3>2. /\ Count(logs[u], Won("PLAYER_WIN")) <= game[u].playerWins
          /\ Count(logs[u], Won("DEALER_WIN")) <= game[u].dealerWins
      <4>1. CASE \A r \in Reqs : req[r].user = u => ~Apart(req[r])
        BY <3>1, <4>1 DEF HistoryInv, TellsAll, Agrees
      <4>2. CASE \E r \in Reqs : req[r].user = u /\ Apart(req[r])
        <5>1. PICK r \in Reqs : req[r].user = u /\ Apart(req[r])
          BY <4>2
        <5>2. InFlight(faults = 0, req[r], game[u], logs[u])
          BY <5>1 DEF HistoryInv
        <5>3. TellsBut(faults = 0, logs[u], game[u], req[r].round)
          BY <2>4, <5>1, <5>2 DEF InFlight, Apart
        <5> DEFINE x == faults = 0
        <5> HIDE DEF x
        <5>4. TellsBut(x, logs[u], game[u], req[r].round)
          BY <5>3 DEF x
        <5> QED BY <3>1, <5>4, TellsLess
      <4> QED BY <4>1, <4>2
    <3> QED BY <2>1, <2>2, <3>1, <3>2 DEF Numbered
  <2> QED BY <2>3, <2>4
<1> QED
  BY <1>1, HistoryInvAlways, ServiceInvAlways, PTL

=============================================================================
