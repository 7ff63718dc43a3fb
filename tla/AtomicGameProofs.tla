-------------------------- MODULE AtomicGameProofs --------------------------
(***************************************************************************)
(* What AtomicGame promises, for every set of users, number of cards and   *)
(* draw limit.                                                             *)
(***************************************************************************)
EXTENDS AtomicGame, GameRulesProofs

-----------------------------------------------------------------------------

\* A step of Next is, for one user u, one of these changes of the row of u.
LEMMA NextCases ==
    ASSUME Next, game \in [Users -> GameRecord \cup {NoGame}]
    PROVE  \E u \in Users :
             \/ game[u] = NoGame /\ game' = [game EXCEPT ![u] = NewGame]
             \/ /\ game[u] \in GameRecord
                /\ \/ game' = [game EXCEPT ![u] = FreshSet(game[u])]
                   \/ /\ game[u].status = "IN_PROGRESS"
                      /\ \E p \in RemainingCards(game[u].playerUsedCards),
                            d \in DealerChoices(game[u]) :
                           game' = [game EXCEPT ![u] = PlayRound(game[u], p, d)]
                   \/ /\ game[u].status = "IN_PROGRESS"
                      /\ game[u].mode = "DEALER"
                      /\ ~game[u].cheated
                      /\ RemainingCards(game[u].dealerUsedCards) # {}
                      /\ game' = [game EXCEPT ![u] = ReserveCheat(game[u])]
                   \/ /\ game[u].status = "FINISHED"
                      /\ \E m \in Modes :
                           game' = [game EXCEPT ![u] = SetMode(game[u], m)]
<1>1. PICK u \in Users : \/ Start(u) \/ Select(u) \/ Cheat(u)
                         \/ ResetSet(u) \/ ChangeMode(u)
  BY DEF Next
<1>2. game[u] # NoGame => game[u] \in GameRecord
  OBVIOUS
<1>3. CASE Start(u)
  BY <1>2, <1>3 DEF Start, Finished, HasGame
<1>4. CASE Select(u)
  BY <1>2, <1>4 DEF Select, InProgress, HasGame
<1>5. CASE Cheat(u)
  BY <1>2, <1>5 DEF Cheat, InProgress, HasGame
<1>6. CASE ResetSet(u)
  BY <1>2, <1>6 DEF ResetSet, HasGame
<1>7. CASE ChangeMode(u)
  BY <1>2, <1>7 DEF ChangeMode, Finished, HasGame
<1> QED
  BY <1>1, <1>3, <1>4, <1>5, <1>6, <1>7

\* The rows stay well formed: Start, Select, Cheat, ResetSet and ChangeMode
\* write nothing that the columns of game_sessions could not hold.
THEOREM TypeCorrect == Spec => []TypeOK
<1>1. Init => TypeOK
  BY DEF Init, TypeOK
<1>2. TypeOK /\ [Next]_game => TypeOK'
  <2> SUFFICES ASSUME TypeOK, Next PROVE TypeOK'
    BY DEF TypeOK
  <2>1. PICK u \in Users, h \in GameRecord : game' = [game EXCEPT ![u] = h]
    BY NextCases, NewGameType, FreshSetType, SetModeType, ReserveCheatType,
       PlayRoundType DEF TypeOK
  <2> QED
    BY <2>1 DEF TypeOK
<1> QED
  BY <1>1, <1>2, PTL DEF Spec

-----------------------------------------------------------------------------

\* Every row is well formed and legal: the three invariants together, which are
\* inductive only with each other (a round keeps the hands in step because the
\* forced card is known to remain).
RowsLegal == \A u \in Users : game[u] # NoGame => Legal(game[u])

Inv == TypeOK /\ RowsLegal

LEMMA LegalInitially == Init => Inv
BY DEF Init, Inv, TypeOK, RowsLegal

LEMMA LegalPreserved == Inv /\ [Next]_game => Inv'
<1> SUFFICES ASSUME Inv, Next PROVE Inv'
  BY DEF Inv, TypeOK, RowsLegal
<1>1. PICK u \in Users, h \in GameRecord :
         game' = [game EXCEPT ![u] = h] /\ Legal(h)
  <2>1. game \in [Users -> GameRecord \cup {NoGame}]
    BY DEF Inv, TypeOK
  <2>2. \A w \in Users : game[w] \in GameRecord => Legal(game[w])
    BY NoGameAssumption DEF Inv, RowsLegal
  <2> QED
    BY <2>1, <2>2, NextCases,
       NewGameType, FreshSetType, SetModeType, ReserveCheatType, PlayRoundType,
       NewGameLegal, FreshSetLegal, SetModeLegal, ReserveCheatLegal, PlayRoundLegal
<1> QED
  BY <1>1 DEF Inv, TypeOK, RowsLegal

LEMMA LegalAlways == Spec => []Inv
BY LegalInitially, LegalPreserved, PTL DEF Spec

\* A set ends exactly with the second win of a side, and only one side has it.
THEOREM WinsDecide == Spec => []WinsDecideStatus
<1>1. Inv => WinsDecideStatus
  BY DEF Inv, RowsLegal, Legal, WinsDecideStatus
<1> QED
  BY <1>1, LegalAlways, PTL

\* A reserved card is still the dealer's best remaining one when Select forces it.
THEOREM ReservationsAreSound == Spec => []CheatReservationSound
<1>1. Inv => CheatReservationSound
  BY DEF Inv, RowsLegal, Legal, CheatReservationSound
<1> QED
  BY <1>1, LegalAlways, PTL

\* No card is turned up twice by a side, and draws bound the hands.
THEOREM CardsAreAccounted == Spec => []CardsAccounted
<1>1. Inv => CardsAccounted
  BY DEF Inv, RowsLegal, Legal, CardsAccounted
<1> QED
  BY <1>1, LegalAlways, PTL

\* With at least two cards for every draw of the limit (the code: 13 for 5), the
\* cards of a set in progress run out only at one win each.
THEOREM CardsRunOutAtOneAll ==
    ASSUME NumCards >= 2 * DrawLimit
    PROVE  Spec => []OutOfCardsOnlyAtOneAll
<1>1. Inv => OutOfCardsOnlyAtOneAll
  <2> SUFFICES ASSUME Inv, NEW u \in Users, game[u] # NoGame,
                      game[u].status = "IN_PROGRESS", ~Selectable(game[u])
               PROVE  game[u].playerWins = 1 /\ game[u].dealerWins = 1
    BY DEF OutOfCardsOnlyAtOneAll
  <2> DEFINE g == game[u]
             w == g.playerWins + g.dealerWins
             n == Cardinality(g.playerUsedCards)
  <2>1. g \in GameRecord /\ Legal(g) /\ g.status = "IN_PROGRESS" /\ ~Selectable(g)
    BY DEF Inv, TypeOK, RowsLegal
  <2> HIDE DEF g
  <2>2. /\ g.playerUsedCards \in SUBSET Cards
        /\ g.dealerUsedCards \in SUBSET Cards
        /\ g.consecutiveDraws \in Nat
    BY <2>1 DEF GameRecord
  <2>3. g.playerWins \in 0 .. 1 /\ g.dealerWins \in 0 .. 1
    BY <2>1 DEF Legal, DecidedByWins, WinsToFinish
  <2>4. n \in Nat /\ w \in 0 .. 2
    BY <2>2, <2>3, HandFinite
  <2>5. n >= NumCards
    <3>1. n = Cardinality(g.dealerUsedCards)
      BY <2>1 DEF Legal, HandsInStep
    <3>2. ~(n < NumCards)
      BY <2>1, <2>2, <3>1, SmallHandLeavesCards DEF Selectable
    <3> QED
      BY <2>4, <3>2, RulesAssumption
  <2>6. n <= w * DrawLimit + g.consecutiveDraws /\ g.consecutiveDraws < DrawLimit
    BY <2>1 DEF Legal, DrawsBoundHands
  <2> HIDE DEF w, n
  <2>7. w = 2
    <3>1. w \in 0 .. 1 => w * DrawLimit <= DrawLimit
      BY RulesAssumption
    <3>2. w * DrawLimit \in Nat
      BY <2>4, RulesAssumption
    <3>3. w \in 0 .. 1 => n < 2 * DrawLimit
      BY <2>2, <2>4, <2>6, <3>1, <3>2, RulesAssumption
    <3> QED
      BY <2>4, <2>5, <3>3, RulesAssumption
  <2>8. g.playerWins = 1 /\ g.dealerWins = 1
    BY <2>3, <2>7 DEF w
  <2> QED
    BY <2>8 DEF g
<1> QED
  BY <1>1, LegalAlways, PTL

-----------------------------------------------------------------------------

\* No row is lost and none changes without its version moving on by one.
THEOREM VersionsAlwaysAdvance == Spec => VersionsAdvance
<1>1. ASSUME TypeOK, Next, NEW u \in Users, game[u] # NoGame, game'[u] # game[u]
      PROVE  game'[u] # NoGame /\ game'[u].ver = game[u].ver + 1
  <2>2. \E g \in GameRecord :
           /\ g = game[u]
           /\ \/ game'[u] = FreshSet(g)
              \/ game'[u] = ReserveCheat(g)
              \/ \E m \in Modes : game'[u] = SetMode(g, m)
              \/ \E p, d : game'[u] = PlayRound(g, p, d)
    BY <1>1, NextCases DEF TypeOK
  <2>3. game'[u].ver = game[u].ver + 1
    BY <2>2, VersionWritten
  <2>4. game'[u] # NoGame
    <3>1. PICK w \in Users, h \in GameRecord : game' = [game EXCEPT ![w] = h]
      BY <1>1, NextCases, NewGameType, FreshSetType, SetModeType,
         ReserveCheatType, PlayRoundType DEF TypeOK
    <3> QED
      BY <1>1, <3>1, NoGameAssumption DEF TypeOK
  <2> QED
    BY <2>3, <2>4
<1>2. TypeOK /\ [Next]_game =>
        [\A u \in Users :
            game[u] # NoGame /\ game'[u] # game[u] =>
              game'[u] # NoGame /\ game'[u].ver = game[u].ver + 1]_game
  BY <1>1
<1> QED
  BY <1>2, TypeCorrect, PTL DEF Spec, VersionsAdvance

\* A reservation is spent on the dealer's reserved card or dropped with its set,
\* and a set has one cheat.
THEOREM CheatAlwaysSpentOnce == Spec => CheatSpentOnce
<1>1. ASSUME Inv, Next, NEW u \in Users, game[u] # NoGame, game'[u] # game[u]
      PROVE  /\ game[u].cheatReserved /\ ~game'[u].cheatReserved =>
                   IsFresh(game'[u]) \/ DealerShowed(game[u], game'[u], game[u].cheatCard)
             /\ game[u].cheated /\ ~game'[u].cheated => IsFresh(game'[u])
  <2> DEFINE g == game[u]
             h == game'[u]
  <2>1. /\ g \in GameRecord
        /\ ReservationSound(g)
        /\ \/ h = FreshSet(g)
           \/ h = ReserveCheat(g)
           \/ \E m \in Modes : h = SetMode(g, m)
           \/ \E p \in RemainingCards(g.playerUsedCards), d \in DealerChoices(g) :
                 h = PlayRound(g, p, d)
    <3>1. g \in GameRecord /\ ReservationSound(g)
      BY <1>1 DEF Inv, TypeOK, RowsLegal, Legal
    <3> QED
      BY <1>1, <3>1, NextCases DEF Inv, TypeOK
  <2> HIDE DEF g, h
  <2>2. CASE h = FreshSet(g)
    <3>1. IsFresh(h)
      BY <2>1, <2>2 DEF FreshSet, NewGame, IsFresh
    <3> QED
      BY <3>1 DEF g, h
  <2>3. CASE h = ReserveCheat(g)
    <3>1. h.cheatReserved /\ h.cheated
      BY <2>1, <2>3 DEF ReserveCheat, GameRecord
    <3> QED
      BY <3>1 DEF g, h
  <2>4. CASE \E m \in Modes : h = SetMode(g, m)
    <3>1. h.cheatReserved = g.cheatReserved /\ h.cheated = g.cheated
      BY <2>1, <2>4 DEF SetMode, GameRecord
    <3> QED
      BY <3>1 DEF g, h
  <2>5. CASE \E p \in RemainingCards(g.playerUsedCards), d \in DealerChoices(g) :
               h = PlayRound(g, p, d)
    <3>1. PICK p \in RemainingCards(g.playerUsedCards), d \in DealerChoices(g) :
                h = PlayRound(g, p, d)
      BY <2>5
    <3>2. h.cheated = g.cheated
      BY <2>1, <3>1 DEF PlayRound, GameRecord
    <3>3. g.cheatReserved => d = g.cheatCard
      BY <2>1, <3>1 DEF ReservationSound, DealerChoices, CheatPending,
                        RemainingCards, Cards, NoCard
    <3>4. g.cheatReserved => DealerShowed(g, h, g.cheatCard)
      BY <3>1, <3>3 DEF DealerShowed
    <3> QED
      BY <3>2, <3>4 DEF g, h
  <2> QED
    BY <2>1, <2>2, <2>3, <2>4, <2>5
<1>2. Inv /\ [Next]_game =>
        [\A u \in Users :
           game[u] # NoGame /\ game'[u] # game[u] =>
             /\ game[u].cheatReserved /\ ~game'[u].cheatReserved =>
                   IsFresh(game'[u]) \/ DealerShowed(game[u], game'[u], game[u].cheatCard)
             /\ game[u].cheated /\ ~game'[u].cheated => IsFresh(game'[u])]_game
  BY <1>1
<1> QED
  BY <1>2, LegalAlways, PTL DEF Spec, CheatSpentOnce

=============================================================================
