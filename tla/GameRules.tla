----------------------------- MODULE GameRules -----------------------------
(***************************************************************************)
(* The rules of High & Low as pure operators on one game_sessions row: the *)
(* card arithmetic of backend/domain/game_domain.go, and what each         *)
(* operation of backend/usecase/game_usecase.go writes into the row it has *)
(* read.  Nothing here has state; AtomicGame and GameService share it.     *)
(*                                                                         *)
(* A hand of used cards is a set: the code only ever asks which cards      *)
(* remain, so the order in which an IntSlice lists them is abstracted.     *)
(***************************************************************************)
EXTENDS Integers, FiniteSets, FiniteSetsExt

CONSTANTS
    NumCards,   \* cards in a hand: 13 in the code
    DrawLimit,  \* draws in a row that give the cards back: 5 in the code
    NoGame      \* the nil *model.Game: the user has no row yet

ASSUME RulesAssumption ==
    /\ NumCards \in Nat \ {0}
    /\ DrawLimit \in Nat \ {0}

Cards == 1 .. NumCards

NoCard == 0   \* a nil CheatCard

Statuses == {"NOT_STARTED", "IN_PROGRESS", "FINISHED"}

Modes == {"PLAYER", "DEALER"}

Results == {"PLAYER_WIN", "DEALER_WIN", "DRAW"}

\* Wins that end a set (the literal 2 of Select).
WinsToFinish == 2

\* model.Game, without the identifiers and timestamps no rule looks at.
GameRecord ==
    [status           : Statuses,
     mode             : Modes,
     playerWins       : Nat,
     dealerWins       : Nat,
     consecutiveDraws : Nat,
     cheated          : BOOLEAN,
     cheatReserved    : BOOLEAN,
     cheatCard        : Cards \cup {NoCard},
     ver              : Nat,
     playerUsedCards  : SUBSET Cards,
     dealerUsedCards  : SUBSET Cards]

ASSUME NoGameAssumption == NoGame \notin GameRecord

-----------------------------------------------------------------------------
(* domain/game_domain.go *)

JudgeRound(playerCard, dealerCard) ==
    IF playerCard > dealerCard THEN "PLAYER_WIN"
    ELSE IF dealerCard > playerCard THEN "DEALER_WIN"
    ELSE "DRAW"

\* Faulty variant: the cards counted from zero.
RemainingFromZero(used) == (0 .. NumCards - 1) \ used

RemainingCards(used) == Cards \ used

MaxInt(arr) == Max(arr)

-----------------------------------------------------------------------------
(* usecase/game_usecase.go: the row each operation writes *)

\* Start, when the user has no row.
NewGame ==
    [status           |-> "IN_PROGRESS",
     mode             |-> "PLAYER",
     playerWins       |-> 0,
     dealerWins       |-> 0,
     consecutiveDraws |-> 0,
     cheated          |-> FALSE,
     cheatReserved    |-> FALSE,
     cheatCard        |-> NoCard,
     ver              |-> 1,
     playerUsedCards  |-> {},
     dealerUsedCards  |-> {}]

\* Faulty variant: the reservation of the old set is left in place.
FreshSetKeepsCheat(g) ==
    [NewGame EXCEPT !.mode = g.mode, !.ver = g.ver + 1,
                    !.cheatReserved = g.cheatReserved, !.cheatCard = g.cheatCard]

\* Faulty variant: the hands of the old set are left in place.
FreshSetKeepsHands(g) ==
    [NewGame EXCEPT !.mode = g.mode, !.ver = g.ver + 1,
                    !.playerUsedCards = g.playerUsedCards,
                    !.dealerUsedCards = g.dealerUsedCards]

\* Faulty variant: the version starts over with the set.
FreshSetVersionOne(g) == [NewGame EXCEPT !.mode = g.mode]

\* Start on a finished row, and ResetSet on any: a fresh set in the same mode.
FreshSet(g) ==
    [NewGame EXCEPT !.mode = g.mode, !.ver = g.ver + 1]

\* Select takes the reserved card instead of drawing one.
CheatPending(g) == g.cheatReserved /\ g.cheatCard # NoCard

\* Faulty variant: the dealer draws although a card is reserved.
DealerAlwaysDraws(g) == RemainingCards(g.dealerUsedCards)

DealerChoices(g) ==
    IF CheatPending(g) THEN {g.cheatCard} ELSE RemainingCards(g.dealerUsedCards)

\* Both sides can still draw (the errNoSelectableCard check of Select).
Selectable(g) ==
    /\ RemainingCards(g.playerUsedCards) # {}
    /\ RemainingCards(g.dealerUsedCards) # {}

PlayerWinsAfter(g, p, d) ==
    g.playerWins + (IF JudgeRound(p, d) = "PLAYER_WIN" THEN 1 ELSE 0)

DealerWinsAfter(g, p, d) ==
    g.dealerWins + (IF JudgeRound(p, d) = "DEALER_WIN" THEN 1 ELSE 0)

\* Faulty variant: a draw is not counted.
DrawsUncounted(g, p, d) ==
    IF JudgeRound(p, d) = "DRAW" THEN g.consecutiveDraws ELSE 0

\* The run of draws before the limit is looked at.
DrawsAfter(g, p, d) ==
    IF JudgeRound(p, d) = "DRAW" THEN g.consecutiveDraws + 1 ELSE 0

DrawLimitHit(g, p, d) == DrawsAfter(g, p, d) >= DrawLimit

\* Faulty variant: the dealer's second win is not looked at.
PlayerDecides(g, p, d) == PlayerWinsAfter(g, p, d) >= WinsToFinish

SetDecided(g, p, d) ==
    \/ PlayerWinsAfter(g, p, d) >= WinsToFinish
    \/ DealerWinsAfter(g, p, d) >= WinsToFinish

\* Select: one round in which the player turned up p and the dealer d.
PlayRound(g, p, d) ==
    [g EXCEPT
       !.status           = IF SetDecided(g, p, d) THEN "FINISHED" ELSE @,
       !.playerWins       = PlayerWinsAfter(g, p, d),
       !.dealerWins       = DealerWinsAfter(g, p, d),
       !.consecutiveDraws = IF DrawLimitHit(g, p, d) THEN 0 ELSE DrawsAfter(g, p, d),
       !.cheatReserved    = @ /\ ~CheatPending(g),
       !.cheatCard        = IF CheatPending(g) THEN NoCard ELSE @,
       !.ver              = @ + 1,
       !.playerUsedCards  = IF DrawLimitHit(g, p, d) THEN {} ELSE @ \cup {p},
       !.dealerUsedCards  = IF DrawLimitHit(g, p, d) THEN {} ELSE @ \cup {d}]

\* Cheat: reserve the dealer's best remaining card.
ReserveCheat(g) ==
    [g EXCEPT !.cheatCard     = MaxInt(RemainingCards(g.dealerUsedCards)),
              !.cheated       = TRUE,
              !.cheatReserved = TRUE,
              !.ver           = @ + 1]

\* Faulty variant: the mode is written under the version that was read.
SetModeSameVer(g, m) == [g EXCEPT !.mode = m]

\* ChangeMode.
SetMode(g, m) == [g EXCEPT !.mode = m, !.ver = @ + 1]

-----------------------------------------------------------------------------
(* What the rules promise of every row g that the operations lead to. *)

DecidedByWins(g) ==
    /\ g.playerWins \in 0 .. WinsToFinish
    /\ g.dealerWins \in 0 .. WinsToFinish
    /\ g.playerWins < WinsToFinish \/ g.dealerWins < WinsToFinish
    /\ g.status = IF WinsToFinish \in {g.playerWins, g.dealerWins}
                   THEN "FINISHED" ELSE "IN_PROGRESS"

ReservationSound(g) ==
    IF g.cheatReserved
    THEN /\ g.status = "IN_PROGRESS"
         /\ g.mode = "DEALER"
         /\ g.cheated
         /\ g.cheatCard \in RemainingCards(g.dealerUsedCards)
         /\ \A c \in RemainingCards(g.dealerUsedCards) : c <= g.cheatCard
    ELSE g.cheatCard = NoCard

HandsInStep(g) ==
    Cardinality(g.playerUsedCards) = Cardinality(g.dealerUsedCards)

DrawsBoundHands(g) ==
    /\ g.consecutiveDraws < DrawLimit
    /\ Cardinality(g.playerUsedCards) <=
          (g.playerWins + g.dealerWins) * DrawLimit + g.consecutiveDraws

=============================================================================
