-------------------------- MODULE GameRulesProofs --------------------------
(***************************************************************************)
(* Facts about the operators of GameRules, for every number of cards and   *)
(* every draw limit.                                                       *)
(***************************************************************************)
EXTENDS GameRules, FiniteSetTheorems, WellFoundedInduction, TLAPS

\* A hand is a finite set.
LEMMA HandFinite ==
    ASSUME NEW used \in SUBSET Cards
    PROVE  IsFiniteSet(used) /\ Cardinality(used) \in Nat
<1>1. IsFiniteSet(Cards)
  BY RulesAssumption, FS_Interval DEF Cards
<1>2. IsFiniteSet(used)
  BY <1>1, FS_Subset
<1> QED
  BY <1>2, FS_CardinalityType

\* A card that remained makes the hand one card bigger when it is turned up.
LEMMA HandGrows ==
    ASSUME NEW used \in SUBSET Cards, NEW c \in RemainingCards(used)
    PROVE  /\ used \cup {c} \in SUBSET Cards
           /\ Cardinality(used \cup {c}) = Cardinality(used) + 1
BY HandFinite, FS_AddElement DEF RemainingCards

\* Fewer used cards than there are cards leave one to play.
LEMMA SmallHandLeavesCards ==
    ASSUME NEW used \in SUBSET Cards, Cardinality(used) < NumCards
    PROVE  RemainingCards(used) # {}
<1>1. Cardinality(Cards) = NumCards
  BY RulesAssumption, FS_Interval DEF Cards
<1>2. used # Cards
  BY <1>1, HandFinite
<1> QED
  BY <1>2 DEF RemainingCards

\* MaxInt returns a card of a non-empty hand, and none of it is higher.
LEMMA MaxIntIsBest ==
    ASSUME NEW S \in SUBSET Cards, S # {}
    PROVE  /\ MaxInt(S) \in S
           /\ \A c \in S : c <= MaxInt(S)
<1> DEFINE T == {NumCards - c : c \in S}
<1>1. T \subseteq Nat /\ T # {}
  BY RulesAssumption DEF Cards
<1> DEFINE Less == {ss \in Nat \X Nat : ss[1] < ss[2]}
<1>2. IsWellFoundedOn(Less, Nat)
  BY NatLessThanWellFounded DEF OpToRel
<1>3. PICK t \in T : \A s \in T : <<s, t>> \notin Less
  <2> HIDE DEF T, Less
  <2> QED BY <1>1, <1>2, WFMin
<1>4. PICK b \in S : t = NumCards - b
  OBVIOUS
<1>5. \A c \in S : b >= c
  <2> SUFFICES ASSUME NEW c \in S PROVE b >= c
    OBVIOUS
  <2>1. NumCards - c \in T /\ t \in Nat /\ NumCards - c \in Nat
    BY <1>1
  <2>2. ~ (NumCards - c < t)
    BY <2>1, <1>3
  <2> QED
    BY <2>1, <2>2, <1>4, RulesAssumption DEF Cards
<1>6. \E x \in S : \A y \in S : x >= y
  BY <1>5
<1>7. MaxInt(S) \in S /\ \A y \in S : MaxInt(S) >= y
  BY <1>6 DEF MaxInt, Max
<1> QED
  BY <1>7 DEF Cards

-----------------------------------------------------------------------------
(* The rows that the operations write are well formed. *)

LEMMA NewGameType == NewGame \in GameRecord
BY DEF NewGame, GameRecord, Statuses, Modes

LEMMA FreshSetType ==
    ASSUME NEW g \in GameRecord
    PROVE  FreshSet(g) \in GameRecord
<1>1. g.mode \in Modes /\ g.ver + 1 \in Nat
  BY DEF GameRecord
<1> QED
  BY <1>1, NewGameType DEF FreshSet, GameRecord

LEMMA SetModeType ==
    ASSUME NEW g \in GameRecord, NEW m \in Modes
    PROVE  SetMode(g, m) \in GameRecord
<1>1. g.ver + 1 \in Nat
  BY DEF GameRecord
<1> QED
  BY <1>1 DEF SetMode, GameRecord

LEMMA ReserveCheatType ==
    ASSUME NEW g \in GameRecord, RemainingCards(g.dealerUsedCards) # {}
    PROVE  ReserveCheat(g) \in GameRecord
<1>1. RemainingCards(g.dealerUsedCards) \in SUBSET Cards
  BY DEF RemainingCards
<1>2. MaxInt(RemainingCards(g.dealerUsedCards)) \in Cards
  BY <1>1, MaxIntIsBest
<1>3. g.ver + 1 \in Nat
  BY DEF GameRecord
<1> QED
  BY <1>2, <1>3 DEF ReserveCheat, GameRecord

LEMMA PlayRoundType ==
    ASSUME NEW g \in GameRecord,
           NEW p \in RemainingCards(g.playerUsedCards), NEW d \in DealerChoices(g)
    PROVE  PlayRound(g, p, d) \in GameRecord
<1>1. p \in Cards /\ d \in Cards
  BY DEF DealerChoices, CheatPending, RemainingCards, GameRecord
<1>2. /\ g.playerUsedCards \cup {p} \in SUBSET Cards
      /\ g.dealerUsedCards \cup {d} \in SUBSET Cards
  BY <1>1 DEF GameRecord
<1>3. /\ PlayerWinsAfter(g, p, d) \in Nat
      /\ DealerWinsAfter(g, p, d) \in Nat
      /\ DrawsAfter(g, p, d) \in Nat
      /\ g.ver + 1 \in Nat
  BY DEF PlayerWinsAfter, DealerWinsAfter, DrawsAfter, GameRecord
<1> DEFINE status == IF SetDecided(g, p, d) THEN "FINISHED" ELSE g.status
           draws  == IF DrawLimitHit(g, p, d) THEN 0 ELSE DrawsAfter(g, p, d)
           res    == g.cheatReserved /\ ~CheatPending(g)
           card   == IF CheatPending(g) THEN NoCard ELSE g.cheatCard
           ph     == IF DrawLimitHit(g, p, d) THEN {} ELSE g.playerUsedCards \cup {p}
           dh     == IF DrawLimitHit(g, p, d) THEN {} ELSE g.dealerUsedCards \cup {d}
<1>4. /\ status \in Statuses
      /\ draws \in Nat
      /\ res \in BOOLEAN
      /\ card \in Cards \cup {NoCard}
      /\ ph \in SUBSET Cards
      /\ dh \in SUBSET Cards
  BY <1>2, <1>3 DEF GameRecord, Statuses
<1>5. PlayRound(g, p, d) =
        [g EXCEPT !.status = status, !.playerWins = PlayerWinsAfter(g, p, d),
                  !.dealerWins = DealerWinsAfter(g, p, d),
                  !.consecutiveDraws = draws, !.cheatReserved = res,
                  !.cheatCard = card, !.ver = g.ver + 1,
                  !.playerUsedCards = ph, !.dealerUsedCards = dh]
  BY Zenon DEF PlayRound
<1> HIDE DEF status, draws, res, card, ph, dh
<1> QED
  BY <1>3, <1>4, <1>5 DEF GameRecord

\* The version each operation writes.
LEMMA VersionWritten ==
    ASSUME NEW g \in GameRecord
    PROVE  /\ FreshSet(g).ver = g.ver + 1
           /\ ReserveCheat(g).ver = g.ver + 1
           /\ \A m \in Modes : SetMode(g, m).ver = g.ver + 1
           /\ \A p, d : PlayRound(g, p, d).ver = g.ver + 1
BY DEF FreshSet, NewGame, ReserveCheat, SetMode, PlayRound, GameRecord

-----------------------------------------------------------------------------
(* The rows that the operations write obey the rules of the game. *)

\* What the invariants say of one row.
Legal(g) ==
    /\ DecidedByWins(g)
    /\ ReservationSound(g)
    /\ HandsInStep(g)
    /\ DrawsBoundHands(g)

\* A row that looks like a new set is legal, whatever its mode and version.
LEMMA FreshIsLegal ==
    ASSUME NEW g,
           g.status = "IN_PROGRESS", g.playerWins = 0, g.dealerWins = 0,
           g.consecutiveDraws = 0, g.cheatReserved = FALSE, g.cheatCard = NoCard,
           g.playerUsedCards = {}, g.dealerUsedCards = {}
    PROVE  Legal(g)
<1>1. Cardinality({}) = 0
  BY FS_EmptySet
<1> QED
  BY <1>1, RulesAssumption
     DEF Legal, DecidedByWins, ReservationSound, HandsInStep, DrawsBoundHands,
         WinsToFinish

LEMMA NewGameLegal == Legal(NewGame)
BY FreshIsLegal DEF NewGame

LEMMA FreshSetLegal ==
    ASSUME NEW g \in GameRecord
    PROVE  Legal(FreshSet(g))
BY FreshIsLegal DEF FreshSet, NewGame

LEMMA SetModeLegal ==
    ASSUME NEW g \in GameRecord, NEW m \in Modes, Legal(g), g.status = "FINISHED"
    PROVE  Legal(SetMode(g, m))
<1> DEFINE h == SetMode(g, m)
<1>1. /\ h.status = g.status /\ h.playerWins = g.playerWins
      /\ h.dealerWins = g.dealerWins /\ h.consecutiveDraws = g.consecutiveDraws
      /\ h.cheatReserved = g.cheatReserved /\ h.cheatCard = g.cheatCard
      /\ h.playerUsedCards = g.playerUsedCards
      /\ h.dealerUsedCards = g.dealerUsedCards
  BY DEF SetMode, GameRecord
<1>2. Legal(h)
  <2> HIDE DEF h
  <2>1. DecidedByWins(h) /\ HandsInStep(h) /\ DrawsBoundHands(h)
    BY <1>1 DEF Legal, DecidedByWins, HandsInStep, DrawsBoundHands
  <2>2. ReservationSound(h)
    BY <1>1 DEF Legal, ReservationSound
  <2> QED
    BY <2>1, <2>2 DEF Legal
<1> QED
  BY <1>2

LEMMA ReserveCheatLegal ==
    ASSUME NEW g \in GameRecord, Legal(g),
           g.status = "IN_PROGRESS", g.mode = "DEALER",
           RemainingCards(g.dealerUsedCards) # {}
    PROVE  Legal(ReserveCheat(g))
<1> DEFINE h == ReserveCheat(g)
           best == MaxInt(RemainingCards(g.dealerUsedCards))
<1>1. /\ h.status = g.status /\ h.playerWins = g.playerWins
      /\ h.dealerWins = g.dealerWins /\ h.consecutiveDraws = g.consecutiveDraws
      /\ h.mode = g.mode /\ h.cheated = TRUE
      /\ h.cheatReserved = TRUE /\ h.cheatCard = best
      /\ h.playerUsedCards = g.playerUsedCards
      /\ h.dealerUsedCards = g.dealerUsedCards
  BY DEF ReserveCheat, GameRecord
<1>2. RemainingCards(g.dealerUsedCards) \in SUBSET Cards
  BY DEF RemainingCards
<1>3. /\ best \in RemainingCards(g.dealerUsedCards)
      /\ \A c \in RemainingCards(g.dealerUsedCards) : c <= best
  BY <1>2, MaxIntIsBest
<1>4. Legal(h)
  <2> HIDE DEF h, best
  <2>1. DecidedByWins(h) /\ HandsInStep(h) /\ DrawsBoundHands(h)
    BY <1>1 DEF Legal, DecidedByWins, HandsInStep, DrawsBoundHands
  <2>2. ReservationSound(h)
    BY <1>1, <1>3 DEF ReservationSound
  <2> QED
    BY <2>1, <2>2 DEF Legal
<1> QED
  BY <1>4

LEMMA PlayRoundLegal ==
    ASSUME NEW g \in GameRecord, Legal(g), g.status = "IN_PROGRESS",
           NEW p \in RemainingCards(g.playerUsedCards), NEW d \in DealerChoices(g)
    PROVE  Legal(PlayRound(g, p, d))
<1> DEFINE h == PlayRound(g, p, d)
           pw == PlayerWinsAfter(g, p, d)
           dw == DealerWinsAfter(g, p, d)
           draws == DrawsAfter(g, p, d)
<1>1. /\ h.status = IF SetDecided(g, p, d) THEN "FINISHED" ELSE g.status
      /\ h.playerWins = pw /\ h.dealerWins = dw
      /\ h.consecutiveDraws = IF DrawLimitHit(g, p, d) THEN 0 ELSE draws
      /\ h.cheatReserved = (g.cheatReserved /\ ~CheatPending(g))
      /\ h.cheatCard = IF CheatPending(g) THEN NoCard ELSE g.cheatCard
      /\ h.playerUsedCards =
            IF DrawLimitHit(g, p, d) THEN {} ELSE g.playerUsedCards \cup {p}
      /\ h.dealerUsedCards =
            IF DrawLimitHit(g, p, d) THEN {} ELSE g.dealerUsedCards \cup {d}
  BY DEF PlayRound, GameRecord
<1>2. g.cheatReserved => CheatPending(g) /\ g.cheatCard \in RemainingCards(g.dealerUsedCards)
  BY DEF Legal, ReservationSound, CheatPending, RemainingCards, Cards, NoCard
<1>3. d \in RemainingCards(g.dealerUsedCards)
  BY <1>2 DEF DealerChoices, CheatPending
<1>4. /\ g.playerWins \in 0 .. 1 /\ g.dealerWins \in 0 .. 1
      /\ g.consecutiveDraws \in Nat /\ g.consecutiveDraws < DrawLimit
  BY DEF Legal, DecidedByWins, DrawsBoundHands, WinsToFinish, GameRecord
\* A round is a win of one side, or one more draw.
<1>5. \/ pw + dw = g.playerWins + g.dealerWins + 1 /\ draws = 0
      \/ pw = g.playerWins /\ dw = g.dealerWins /\ draws = g.consecutiveDraws + 1
  BY <1>4 DEF JudgeRound, PlayerWinsAfter, DealerWinsAfter, DrawsAfter
<1>6. /\ pw \in {g.playerWins, g.playerWins + 1}
      /\ dw \in {g.dealerWins, g.dealerWins + 1}
      /\ pw = g.playerWins \/ dw = g.dealerWins
  BY <1>4 DEF JudgeRound, PlayerWinsAfter, DealerWinsAfter
<1>7. SetDecided(g, p, d) <=> pw >= 2 \/ dw >= 2
  BY DEF SetDecided, WinsToFinish
<1>8. DrawLimitHit(g, p, d) <=> draws >= DrawLimit
  BY DEF DrawLimitHit
<1>a. DecidedByWins(h)
  <2> HIDE DEF h, pw, dw, draws
  <2> QED BY <1>1, <1>4, <1>6, <1>7 DEF DecidedByWins, WinsToFinish
<1>b. ReservationSound(h)
  <2> HIDE DEF h
  <2>1. h.cheatReserved = FALSE
    BY <1>1, <1>2 DEF GameRecord
  <2>2. h.cheatCard = NoCard
    BY <1>1, <1>2 DEF Legal, ReservationSound
  <2> QED BY <2>1, <2>2 DEF ReservationSound
<1>9. g.playerUsedCards \in SUBSET Cards /\ g.dealerUsedCards \in SUBSET Cards
  BY DEF GameRecord
<1>10. /\ Cardinality(g.playerUsedCards \cup {p}) = Cardinality(g.playerUsedCards) + 1
       /\ Cardinality(g.dealerUsedCards \cup {d}) = Cardinality(g.dealerUsedCards) + 1
       /\ Cardinality(g.playerUsedCards) \in Nat
  BY <1>3, <1>9, HandGrows, HandFinite
<1>c. HandsInStep(h)
  <2> HIDE DEF h
  <2> QED BY <1>1, <1>10 DEF HandsInStep, Legal
<1>d. DrawsBoundHands(h)
  <2>1. Cardinality(g.playerUsedCards) <=
          (g.playerWins + g.dealerWins) * DrawLimit + g.consecutiveDraws
    BY DEF Legal, DrawsBoundHands
  <2>2. CASE DrawLimitHit(g, p, d)
    <3>1. h.consecutiveDraws = 0 /\ h.playerUsedCards = {}
      BY <1>1, <2>2
    <3>2. pw \in Nat /\ dw \in Nat
      BY <1>4, <1>6
    <3>3. (pw + dw) * DrawLimit \in Nat
      <4> HIDE DEF pw, dw
      <4> QED BY <3>2, RulesAssumption
    <3>4. Cardinality(h.playerUsedCards) = 0
      BY <3>1, FS_EmptySet
    <3>5. h.playerWins + h.dealerWins = pw + dw
      BY <1>1
    <3>6. 0 < DrawLimit
      BY RulesAssumption
    <3>7. 0 <= (h.playerWins + h.dealerWins) * DrawLimit + h.consecutiveDraws
      <4>1. (h.playerWins + h.dealerWins) * DrawLimit \in Nat
        BY <3>3, <3>5
      <4> HIDE DEF h, pw, dw
      <4> QED BY <3>1, <4>1
    <3> HIDE DEF h, pw, dw
    <3> QED BY <3>1, <3>4, <3>6, <3>7 DEF DrawsBoundHands
  <2>3. CASE ~DrawLimitHit(g, p, d)
    <3> DEFINE w == g.playerWins + g.dealerWins
    <3>1. w \in Nat /\ (w + 1) * DrawLimit = w * DrawLimit + DrawLimit
      BY <1>4, RulesAssumption
    <3>2. \/ pw + dw = w + 1 /\ draws = 0
          \/ pw + dw = w /\ draws = g.consecutiveDraws + 1
      BY <1>5
    <3>3. h.consecutiveDraws = draws /\ draws < DrawLimit
      BY <1>1, <1>4, <1>5, <1>8, <2>3, RulesAssumption
    <3>4. Cardinality(h.playerUsedCards) = Cardinality(g.playerUsedCards) + 1
      BY <1>1, <1>10, <2>3
    <3>5. w * DrawLimit \in Nat
      BY <3>1, RulesAssumption
    <3>6. h.playerWins + h.dealerWins = pw + dw
      BY <1>1
    <3>7. Cardinality(g.playerUsedCards) <= w * DrawLimit + g.consecutiveDraws
      BY <2>1
    <3>8. Cardinality(g.playerUsedCards) + 1 <= (pw + dw) * DrawLimit + draws
      <4>1. CASE pw + dw = w + 1 /\ draws = 0
        <5> HIDE DEF pw, dw, draws, w
        <5> QED BY <4>1, <3>1, <3>5, <3>7, <1>4, <1>10, RulesAssumption
      <4>2. CASE pw + dw = w /\ draws = g.consecutiveDraws + 1
        <5> HIDE DEF pw, dw, draws, w
        <5> QED BY <4>2, <3>5, <3>7, <1>4, <1>10, RulesAssumption
      <4> QED BY <3>2, <4>1, <4>2
    <3> HIDE DEF h, pw, dw, draws
    <3> QED BY <3>3, <3>4, <3>6, <3>8 DEF DrawsBoundHands
  <2> QED BY <2>2, <2>3
<1> QED
  BY <1>a, <1>b, <1>c, <1>d DEF Legal

=============================================================================
