----------------------------- MODULE AtomicGame -----------------------------
(***************************************************************************)
(* What the game promises: every user has at most one game, and each       *)
(* accepted start, select, cheat, reset or mode request changes it in one  *)
(* indivisible step that follows the rules.  GameService, where requests   *)
(* read, compute and write in separate SQL statements and run              *)
(* concurrently, is shown to implement this specification.                 *)
(***************************************************************************)
EXTENDS GameRules

CONSTANTS
    Users,   \* user identifiers
    MaxVer   \* bound: no row goes past this version

ASSUME MaxVerAssumption == MaxVer \in Nat \ {0}

VARIABLE game   \* game[u]: the row of user u in game_sessions, or NoGame

Init == game = [u \in Users |-> NoGame]

\* The user has a row that this model still lets grow.
HasGame(u) ==
    /\ game[u] # NoGame
    /\ game[u].ver < MaxVer

InProgress(u) ==
    /\ HasGame(u)
    /\ game[u].status = "IN_PROGRESS"

Finished(u) ==
    /\ HasGame(u)
    /\ game[u].status = "FINISHED"

Start(u) ==
    \/ /\ game[u] = NoGame
       /\ game' = [game EXCEPT ![u] = NewGame]
    \/ /\ Finished(u)
       /\ game' = [game EXCEPT ![u] = FreshSet(game[u])]

Select(u) ==
    /\ InProgress(u)
    /\ Selectable(game[u])
    /\ \E p \in RemainingCards(game[u].playerUsedCards),
          d \in DealerChoices(game[u]) :
         game' = [game EXCEPT ![u] = PlayRound(game[u], p, d)]

Cheat(u) ==
    /\ InProgress(u)
    /\ game[u].mode = "DEALER"
    /\ ~game[u].cheated
    /\ RemainingCards(game[u].dealerUsedCards) # {}
    /\ game' = [game EXCEPT ![u] = ReserveCheat(game[u])]

ResetSet(u) ==
    /\ HasGame(u)
    /\ game' = [game EXCEPT ![u] = FreshSet(game[u])]

ChangeMode(u) ==
    /\ Finished(u)
    /\ \E m \in Modes : game' = [game EXCEPT ![u] = SetMode(game[u], m)]

Next ==
    \E u \in Users :
        \/ Start(u)
        \/ Select(u)
        \/ Cheat(u)
        \/ ResetSet(u)
        \/ ChangeMode(u)

Spec == Init /\ [][Next]_game

-----------------------------------------------------------------------------

\* Type correctness: a user has no row or one well-formed row.
TypeOK == game \in [Users -> GameRecord \cup {NoGame}]

\* A set is over exactly when one side has its second win, the sides never
\* both have it, and no stored row is NOT_STARTED: that status is only ever
\* reported for a user without a row.
WinsDecideStatus ==
    \A u \in Users : game[u] # NoGame => DecidedByWins(game[u])

\* A reserved card is always playable and still the dealer's best one.  Select
\* forces it without looking at the hand again, so a reservation that outlived
\* the hand it was taken from would turn up a card twice.
CheatReservationSound ==
    \A u \in Users : game[u] # NoGame => ReservationSound(game[u])

\* No side turns up a card twice between two resets of the hands (the hands
\* grow by one card a round, together), and the hands hold no more cards than
\* the wins and the current run of draws account for: every win is preceded by
\* fewer than DrawLimit draws, or the draws would have given the cards back.
CardsAccounted ==
    \A u \in Users : game[u] # NoGame =>
        HandsInStep(game[u]) /\ DrawsBoundHands(game[u])

\* A set in progress can always be played on: Select never has to refuse for
\* want of cards (errNoSelectableCard).  So the documents say; the code does not
\* keep it.
NeverOutOfCards ==
    \A u \in Users :
        game[u] # NoGame /\ game[u].status = "IN_PROGRESS" => Selectable(game[u])

\* Select refuses for want of cards only at one win each: a set that has run
\* out of cards with fewer wins would have had to draw past the limit.
OutOfCardsOnlyAtOneAll ==
    \A u \in Users :
        /\ game[u] # NoGame
        /\ game[u].status = "IN_PROGRESS"
        /\ ~Selectable(game[u])
        => game[u].playerWins = 1 /\ game[u].dealerWins = 1

\* A new set: what Start and ResetSet leave behind.
IsFresh(g) ==
    /\ g.status = "IN_PROGRESS"
    /\ g.playerWins = 0 /\ g.dealerWins = 0 /\ g.consecutiveDraws = 0
    /\ g.playerUsedCards = {} /\ g.dealerUsedCards = {}
    /\ ~g.cheated /\ ~g.cheatReserved

\* The step turned up card d for the dealer, counted by the difference it makes.
DealerShowed(g, h, d) ==
    \E p \in RemainingCards(g.playerUsedCards) : h = PlayRound(g, p, d)

\* A reservation leaves the row only by being played (the dealer shows that
\* very card, on the round that also may give all cards back) or with the set
\* it belongs to; and the one cheat of a set cannot be had again in it.
CheatSpentOnce ==
    [][\A u \in Users :
          game[u] # NoGame /\ game'[u] # game[u] =>
            /\ game[u].cheatReserved /\ ~game'[u].cheatReserved =>
                  IsFresh(game'[u]) \/ DealerShowed(game[u], game'[u], game[u].cheatCard)
            /\ game[u].cheated /\ ~game'[u].cheated => IsFresh(game'[u])]_game

\* A reservation outlives the return of the cards after a run of draws, as the
\* documents say: the hands are emptied within the set (its cheat stays spent) and
\* the reserved card stays reserved.  The code has the reserved card played in
\* that very round.
DrawResetKeepsReservation ==
    [][\A u \in Users :
          LET g == game[u]
              h == game'[u]
          IN  /\ g # NoGame
              /\ g.cheatReserved /\ h.cheated
              /\ g.playerUsedCards # {} /\ h.playerUsedCards = {}
              => h.cheatReserved /\ h.cheatCard = g.cheatCard]_game

\* Every change of a row moves its version on by exactly one and no row is ever
\* lost: equal versions mean equal rows, which is all the optimistic check of
\* UpdateWithVersion rests on.
VersionsAdvance ==
    [][\A u \in Users :
          game[u] # NoGame /\ game'[u] # game[u] =>
            game'[u] # NoGame /\ game'[u].ver = game[u].ver + 1]_game

=============================================================================
