---------------------------- MODULE ClientProofs ----------------------------
(***************************************************************************)
(* What the clicks of a user do to the game: for every number of tabs,     *)
(* clicks, failed calls and cards.                                         *)
(***************************************************************************)
EXTENDS Client, GameRulesProofs

-----------------------------------------------------------------------------
(* The inductive invariant. *)

\* w was told of the row now g at some time: if its version is still the one of
\* g, so is everything else of it.
Known(w, g) ==
    /\ w \in StatusResponse
    /\ w.ver <= View(g).ver
    /\ w.ver = View(g).ver => w = View(g)

RowOK(g) ==
    g # NoGame => g \in GameRecord /\ (g.cheatReserved => g.cheated)

Operations == {"start", "select", "reset", "mode"}

Attempting(T) == T.click \in Operations /\ T.attempt \in 1 .. Attempts(T.click)

\* The status that an operation is tried on is the one displayed, or differs
\* from it by the cheat of the same click.
OnShown(T) ==
    \/ T.s = T.shown
    \/ T.call = "select" /\ T.armed /\ T.s = Reserved(T.shown)

\* An armed select goes out only when no cheat is to be had.
CheatDone(s) == s.mode # "DEALER" \/ s.cheated \/ s.cheatReserved

\* The reply of an operation, or of the cheat before it, has arrived.
ReplySound(T, g) ==
    /\ T.code = "ok" =>
         /\ Known(T.row, g)
         /\ IF T.call = "cheat" THEN T.row = Reserved(T.s) /\ T.done = 0 ELSE T.done = 1
    /\ T.code = "failed" => T.done <= 1
    /\ T.code \notin {"ok", "failed"} => T.done = 0
    /\ T.code = "version_conflict" => T.s.ver < View(g).ver

\* Tab T tries the operation of its click, or the cheat that goes before.
Trying(T, g) ==
    /\ Attempting(T)
    /\ Known(T.s, g)
    /\ OnShown(T)
    /\ T.call = T.click \/ (T.call = "cheat" /\ T.click = "select" /\ T.armed)
    /\ T.call = "select" /\ T.armed => CheatDone(T.s)
    /\ IF T.at = "sent" THEN T.done = 0 ELSE ReplySound(T, g)

\* The operation has been refused for its version: the row is newer than what
\* the operation was tried on.
FetchingLatest(T, g) ==
    /\ Attempting(T)
    /\ T.call = "latest"
    /\ T.done = 0
    /\ T.s \in StatusResponse /\ T.s.ver < View(g).ver
    /\ T.at = "answered" =>
         /\ T.code \in {"ok", "failed"}
         /\ T.code = "ok" => Known(T.row, g) /\ T.s.ver < T.row.ver

\* The operation has been done, and the status is fetched once more.
Refreshing(T, g) ==
    /\ T.call = "refresh"
    /\ T.done = IF T.click = "load" THEN 0 ELSE 1
    /\ T.at = "answered" =>
         /\ T.code \in {"ok", "failed"}
         /\ T.code = "ok" => Known(T.row, g)

TabOK(T, g) ==
    /\ T \in Tab
    /\ T.shown = NoStatus \/ Known(T.shown, g)
    /\ IF T.at = "ready" THEN T.done = 0
       ELSE Trying(T, g) \/ FetchingLatest(T, g) \/ Refreshing(T, g)

Inv ==
    /\ RowOK(game)
    /\ tab \in [Tabs -> Tab]
    /\ \A t \in Tabs : TabOK(tab[t], game)
    /\ clicks \in 0 .. MaxClicks
    /\ faults \in 0 .. MaxFaults

-----------------------------------------------------------------------------
(* Rows and what is told of them. *)

\* A row is replaced by one of the next version, or not at all.
Grows(g, h) == h = g \/ View(h).ver = View(g).ver + 1

LEMMA ViewType ==
    ASSUME NEW g, RowOK(g)
    PROVE  /\ View(g) \in StatusResponse /\ View(g).ver \in Nat
           /\ Known(View(g), g)
<1>1. CASE g = NoGame
  BY <1>1 DEF View, StatusResponse, Statuses, Modes, Known
<1>2. CASE g # NoGame
  BY <1>2 DEF View, StatusResponse, RowOK, GameRecord, Known
<1> QED
  BY <1>1, <1>2

LEMMA NoStatusFacts ==
    /\ NoStatus \in Shown
    /\ NoStatus.ver = 0 /\ NoStatus.status = "NO_STATUS"
    /\ NoStatus \notin StatusResponse
    /\ View(NoGame) \in StatusResponse
BY DEF NoStatus, Shown, View, StatusResponse, Statuses, Modes

LEMMA KnownLater ==
    ASSUME NEW g, NEW h, RowOK(g), RowOK(h), Grows(g, h), NEW w, Known(w, g)
    PROVE  Known(w, h)
<1>1. View(g).ver \in Nat /\ View(h).ver \in Nat /\ w.ver \in Nat
  BY ViewType DEF Known, StatusResponse
<1> QED
  BY <1>1 DEF Known, Grows

LEMMA TabLater ==
    ASSUME NEW g, NEW h, RowOK(g), RowOK(h), Grows(g, h), NEW T, TabOK(T, g)
    PROVE  TabOK(T, h)
<1>0. \A w : Known(w, g) => Known(w, h)
  BY KnownLater
<1>1. View(g).ver \in Nat /\ View(h).ver \in Nat /\ View(g).ver <= View(h).ver
  BY ViewType DEF Grows
<1>2. T \in Tab /\ (T.shown = NoStatus \/ Known(T.shown, h))
  BY <1>0 DEF TabOK
<1>3. ASSUME Trying(T, g) PROVE Trying(T, h)
  <2>1. T.s.ver \in Nat
    BY <1>3 DEF Trying, Known, StatusResponse
  <2>2. ReplySound(T, g) => ReplySound(T, h)
    BY <1>0, <1>1, <2>1 DEF ReplySound
  <2> QED
    BY <1>0, <1>3, <2>2 DEF Trying
<1>4. ASSUME FetchingLatest(T, g) PROVE FetchingLatest(T, h)
  <2>1. T.s.ver \in Nat
    BY <1>4 DEF FetchingLatest, StatusResponse
  <2> QED
    BY <1>0, <1>1, <1>4, <2>1 DEF FetchingLatest
<1>5. ASSUME Refreshing(T, g) PROVE Refreshing(T, h)
  BY <1>0, <1>5 DEF Refreshing
<1> QED
  BY <1>2, <1>3, <1>4, <1>5 DEF TabOK

\* One tab moves on, and the row grows or stays.
LEMMA SlotStep ==
    ASSUME Inv, NEW t \in Tabs, NEW T, tab' = [tab EXCEPT ![t] = T],
           RowOK(game'), Grows(game, game'), TabOK(T, game'),
           clicks' \in 0 .. MaxClicks, faults' \in 0 .. MaxFaults
    PROVE  Inv'
<1>1. T \in Tab
  BY DEF TabOK
<1>2. tab' \in [Tabs -> Tab]
  BY <1>1 DEF Inv
<1>3. \A z \in Tabs : tab'[z] = IF z = t THEN T ELSE tab[z]
  BY DEF Inv
<1>4. \A z \in Tabs : TabOK(tab[z], game')
  BY TabLater DEF Inv
<1>5. \A z \in Tabs : TabOK(tab'[z], game')
  BY <1>3, <1>4
<1> QED
  BY <1>2, <1>5 DEF Inv

-----------------------------------------------------------------------------
(* The component: what a tab looks like when it has moved on. *)

LEMMA TabFields ==
    ASSUME NEW T \in Tab
    PROVE  /\ T.attempt \in 0 .. 3 /\ T.click \in Clicks /\ T.call \in Calls
           /\ T.s \in Shown /\ T.shown \in Shown /\ T.row \in StatusResponse
           /\ T.armed \in BOOLEAN /\ T.cheatPending \in BOOLEAN
           /\ T.code \in Codes /\ T.done \in Nat
           /\ T.at \in {"ready", "sent", "answered"}
BY DEF Tab

LEMMA CallFacts ==
    ASSUME NEW T \in Tab, NEW call \in Calls
    PROVE  LET C == Call(T, call)
           IN  /\ C \in Tab /\ C.at = "sent" /\ C.call = call
               /\ C.click = T.click /\ C.attempt = T.attempt /\ C.s = T.s
               /\ C.armed = T.armed /\ C.shown = T.shown /\ C.done = T.done
BY NoStatusFacts DEF Call, Tab

LEMMA RefreshOK ==
    ASSUME NEW g, NEW T \in Tab, T.shown = NoStatus \/ Known(T.shown, g),
           T.done = IF T.click = "load" THEN 0 ELSE 1
    PROVE  /\ TabOK(Refresh(T), g)
           /\ Refresh(T).at = "sent" /\ Refresh(T).done = T.done
<1> DEFINE U == [T EXCEPT !.s = NoStatus, !.attempt = 0, !.armed = FALSE]
           C == Call(U, "refresh")
<1>1. U \in Tab /\ U.shown = T.shown /\ U.done = T.done /\ U.click = T.click
  <2> DEFINE V == [T EXCEPT !.s = NoStatus]
  <2>1. V \in Tab /\ V.shown = T.shown /\ V.done = T.done /\ V.click = T.click
    BY NoStatusFacts DEF Tab
  <2> HIDE DEF V
  <2> DEFINE W == [V EXCEPT !.attempt = 0]
  <2>2. W \in Tab /\ W.shown = T.shown /\ W.done = T.done /\ W.click = T.click
    BY <2>1 DEF Tab
  <2> HIDE DEF W
  <2>3. U = [W EXCEPT !.armed = FALSE]
    BY DEF V, W
  <2> QED
    BY <2>2, <2>3 DEF Tab
<1> HIDE DEF U
<1>2. /\ C \in Tab /\ C.at = "sent" /\ C.call = "refresh"
      /\ C.click = T.click /\ C.shown = T.shown /\ C.done = T.done
  BY <1>1, CallFacts DEF Calls
<1> HIDE DEF C
<1>3. TabOK(C, g)
  BY <1>2 DEF TabOK, Refreshing
<1>4. Refresh(T) = C
  BY DEF Refresh, U, C
<1> QED
  BY <1>2, <1>3, <1>4

LEMMA TryOK ==
    ASSUME NEW g, NEW T \in Tab, Attempting(T), T.done = 0,
           NEW s, s = T.shown, Known(s, g)
    PROVE  /\ TabOK(Try(T, s), g)
           /\ Try(T, s).at = "sent" /\ Try(T, s).s = s /\ Try(T, s).done = 0
<1> DEFINE U == [T EXCEPT !.s = s]
           call == IF T.click = "select" /\ CheatsFirst(U, s) THEN "cheat" ELSE T.click
           C == Call(U, call)
<1>1. s \in Shown
  BY DEF Known, Shown
<1>2. /\ U \in Tab /\ U.s = s /\ U.shown = s /\ U.done = 0
      /\ U.click = T.click /\ U.attempt = T.attempt /\ U.armed = T.armed
  BY <1>1 DEF Tab
<1>3. CheatsFirst(U, s) <=> CheatsFirst(T, s)
  BY <1>2 DEF CheatsFirst
<1> HIDE DEF U
<1>4. call \in Calls
  BY DEF Attempting, Operations, Calls
<1>5. /\ call = T.click \/ (call = "cheat" /\ T.click = "select" /\ T.armed)
      /\ call = "select" /\ T.armed => CheatDone(s)
  <2>1. CheatsFirst(U, s) => T.armed
    BY <1>2 DEF CheatsFirst
  <2>2. T.armed /\ ~CheatsFirst(U, s) => CheatDone(s)
    BY <1>2 DEF CheatsFirst, CheatDone
  <2>3. T.click # "cheat"
    BY DEF Attempting, Operations
  <2> QED
    BY <2>1, <2>2, <2>3
<1> HIDE DEF call
<1>6. /\ C \in Tab /\ C.at = "sent" /\ C.call = call /\ C.s = s /\ C.shown = s
      /\ C.click = T.click /\ C.attempt = T.attempt /\ C.armed = T.armed /\ C.done = 0
  BY <1>2, <1>4, CallFacts
<1> HIDE DEF C
<1>7. Trying(C, g)
  BY <1>5, <1>6 DEF Trying, OnShown, Attempting
<1>8. TabOK(C, g)
  BY <1>6, <1>7 DEF TabOK
<1>9. Try(T, s) = C
  BY <1>3 DEF Try, C, call, U
<1> QED
  BY <1>6, <1>8, <1>9

LEMMA ReadyOK ==
    ASSUME NEW g, NEW shown, shown = NoStatus \/ Known(shown, g), NEW pending \in BOOLEAN
    PROVE  TabOK(Ready(shown, pending), g)
<1> DEFINE T == Ready(shown, pending)
<1>1. shown \in Shown
  BY NoStatusFacts DEF Known, Shown
<1>2. T \in Tab /\ T.at = "ready" /\ T.shown = shown /\ T.done = 0
  BY <1>1, NoStatusFacts DEF Ready, Tab, Clicks, Calls, Codes
<1> HIDE DEF T
<1> QED
  BY <1>2 DEF TabOK, T

LEMMA EndOK ==
    ASSUME NEW g, NEW T \in Tab, T.shown = NoStatus \/ Known(T.shown, g)
    PROVE  TabOK(End(T), g) /\ End(T).at = "ready" /\ End(T).done = 0
BY TabFields, ReadyOK DEF End, Ready

LEMMA SetStatusFacts ==
    ASSUME NEW T \in Tab, NEW s \in StatusResponse
    PROVE  LET U == SetStatus(T, s)
           IN  /\ U \in Tab /\ U.shown = s
               /\ U.at = T.at /\ U.click = T.click /\ U.call = T.call
               /\ U.attempt = T.attempt /\ U.s = T.s /\ U.armed = T.armed
               /\ U.code = T.code /\ U.row = T.row /\ U.done = T.done
<1>1. s \in Shown
  BY DEF Shown
<1>2. (T.cheatPending /\ CanCheat(s)) \in BOOLEAN
  BY DEF CanCheat
<1> QED
  BY <1>1, <1>2 DEF SetStatus, Tab

-----------------------------------------------------------------------------
(* The server: what it answers, and what it does to the row. *)

\* What a refusal tells about the row and the status that was sent.
LEMMA RefusalFacts ==
    ASSUME RowOK(game), NEW call \in Calls, NEW s
    PROVE  /\ Refusal(call, s) \in Codes \ {"failed"}
           /\ Refusal(call, s) = "version_conflict" =>
                call \in Operations \cup {"cheat"} /\ game # NoGame /\ game.ver # s.ver
           /\ Refusal(call, s) = "ok" /\ game # NoGame /\ call \in Operations \cup {"cheat"} =>
                game.ver = s.ver
           /\ Refusal(call, s) = "ok" /\ game = NoGame => call \in {"start", "latest", "refresh"}
           /\ call \in {"latest", "refresh"} => Refusal(call, s) = "ok"
<1>1. CASE call = "start"
  BY <1>1 DEF Refusal, StartRefusal, Codes, Operations
<1>2. CASE call = "select"
  BY <1>2 DEF Refusal, SelectRefusal, Codes, Operations
<1>3. CASE call = "cheat"
  BY <1>3 DEF Refusal, CheatRefusal, Codes, Operations
<1>4. CASE call = "reset"
  BY <1>4 DEF Refusal, ResetRefusal, Codes, Operations
<1>5. CASE call = "mode"
  BY <1>5 DEF Refusal, ModeRefusal, Codes, Operations
<1>6. CASE call \in {"latest", "refresh"}
  BY <1>6 DEF Refusal, Codes, Operations
<1> QED
  BY <1>1, <1>2, <1>3, <1>4, <1>5, <1>6 DEF Calls

\* A reservation that is held has been made in the same set.
LEMMA RowsWritten ==
    ASSUME NEW g \in GameRecord, g.cheatReserved => g.cheated
    PROVE  /\ FreshSet(g).cheatReserved = FALSE /\ FreshSet(g).mode = g.mode
           /\ ReserveCheat(g).cheated = TRUE /\ ReserveCheat(g).cheatReserved = TRUE
           /\ ReserveCheat(g).status = g.status /\ ReserveCheat(g).mode = g.mode
           /\ \A m : /\ SetMode(g, m).cheatReserved => SetMode(g, m).cheated
                     /\ SetMode(g, m).mode = m
           /\ \A p, d : PlayRound(g, p, d).cheatReserved => PlayRound(g, p, d).cheated
BY DEF FreshSet, NewGame, ReserveCheat, SetMode, PlayRound, GameRecord

\* An accepted call leaves a sound row of the next version, or does nothing.
LEMMA EffectsOK ==
    ASSUME RowOK(game), NEW call \in Calls, NEW s, Refusal(call, s) = "ok",
           NEW h \in Effects(call, s)
    PROVE  RowOK(h) /\ Grows(game, h)
<1>0. game # NoGame => game \in GameRecord /\ (game.cheatReserved => game.cheated)
  BY DEF RowOK
<1>1. ASSUME game \in GameRecord, game # NoGame, h \in GameRecord, h.ver = game.ver + 1,
             h.cheatReserved => h.cheated
      PROVE  RowOK(h) /\ Grows(game, h)
  BY <1>1, NoGameAssumption DEF RowOK, Grows, View
<1>2. CASE call = "start"
  <2>1. CASE game = NoGame
    <3>1. h = NewGame /\ NewGame \in GameRecord /\ NewGame # NoGame
      BY <1>2, <2>1, NewGameType, NoGameAssumption DEF Effects
    <3> QED
      BY <2>1, <3>1 DEF RowOK, Grows, View, NewGame
  <2>2. CASE game # NoGame
    <3>1. h = FreshSet(game)
      BY <1>2, <2>2 DEF Effects
    <3> QED
      BY <1>0, <1>1, <2>2, <3>1, FreshSetType, VersionWritten, RowsWritten
  <2> QED
    BY <2>1, <2>2
<1>3. CASE call = "select"
  <2>1. game # NoGame
    BY <1>3, RefusalFacts
  <2>2. PICK p \in RemainingCards(game.playerUsedCards), d \in DealerChoices(game) :
          h = PlayRound(game, p, d)
    BY <1>3 DEF Effects
  <2>3. h \in GameRecord
    BY <1>0, <2>1, <2>2, PlayRoundType
  <2>4. h.ver = game.ver + 1
    BY <1>0, <2>1, <2>2, VersionWritten
  <2>5. h.cheatReserved => h.cheated
    BY <1>0, <2>1, <2>2, RowsWritten
  <2> QED
    BY <1>0, <1>1, <2>1, <2>3, <2>4, <2>5
<1>4. CASE call = "cheat"
  <2>1. game # NoGame /\ RemainingCards(game.dealerUsedCards) # {}
    BY <1>4 DEF Refusal, CheatRefusal
  <2>2. h = ReserveCheat(game)
    BY <1>4 DEF Effects
  <2> QED
    BY <1>0, <1>1, <2>1, <2>2, ReserveCheatType, VersionWritten, RowsWritten
<1>5. CASE call = "reset"
  <2>1. game # NoGame
    BY <1>5, RefusalFacts
  <2>2. h = FreshSet(game)
    BY <1>5 DEF Effects
  <2> QED
    BY <1>0, <1>1, <2>1, <2>2, FreshSetType, VersionWritten, RowsWritten
<1>6. CASE call = "mode"
  <2>1. game # NoGame
    BY <1>6, RefusalFacts
  <2>2. h = SetMode(game, NextMode(s)) /\ NextMode(s) \in Modes
    BY <1>6 DEF Effects, NextMode, Modes
  <2> QED
    BY <1>0, <1>1, <2>1, <2>2, SetModeType, VersionWritten, RowsWritten
<1>7. CASE call \in {"latest", "refresh"}
  BY <1>7 DEF Effects, Grows
<1> QED
  BY <1>2, <1>3, <1>4, <1>5, <1>6, <1>7 DEF Calls

\* An accepted operation acts on exactly the row that was sent.
LEMMA AcceptedIsCurrent ==
    ASSUME RowOK(game), NEW call \in Operations \cup {"cheat"}, NEW s, Known(s, game),
           Refusal(call, s) = "ok"
    PROVE  View(game) = s
<1>0. call \in Calls
  BY DEF Operations, Calls
<1>1. CASE game # NoGame
  BY <1>0, <1>1, RefusalFacts DEF Known, View
<1>2. CASE game = NoGame
  <2>1. s.ver \in Nat /\ s.ver <= 0 /\ View(game).ver = 0
    BY <1>2 DEF Known, View, StatusResponse
  <2> QED
    BY <2>1 DEF Known
<1> QED
  BY <1>1, <1>2

LEMMA SameStatus ==
    ASSUME NEW v \in StatusResponse, NEW w \in StatusResponse,
           v.status = w.status, v.mode = w.mode, v.ver = w.ver,
           v.cheated = w.cheated, v.cheatReserved = w.cheatReserved
    PROVE  v = w
BY DEF StatusResponse

\* What a tab expects of the cheat.
LEMMA ReservedFacts ==
    ASSUME NEW s \in StatusResponse
    PROVE  LET v == Reserved(s)
           IN  /\ v \in StatusResponse
               /\ v.status = s.status /\ v.mode = s.mode /\ v.ver = s.ver + 1
               /\ v.cheated = TRUE /\ v.cheatReserved = TRUE
<1> DEFINE v == [s EXCEPT !.ver = @ + 1]
<1>1. /\ v \in StatusResponse
      /\ v.status = s.status /\ v.mode = s.mode /\ v.ver = s.ver + 1
  BY DEF StatusResponse
<1> HIDE DEF v
<1> DEFINE w == [v EXCEPT !.cheated = TRUE]
<1>2. /\ w \in StatusResponse
      /\ w.status = s.status /\ w.mode = s.mode /\ w.ver = s.ver + 1 /\ w.cheated = TRUE
  BY <1>1 DEF StatusResponse
<1> HIDE DEF w
<1>3. Reserved(s) = [w EXCEPT !.cheatReserved = TRUE]
  BY DEF Reserved, v, w
<1> QED
  BY <1>2, <1>3 DEF StatusResponse

\* The cheat changes what is told of the row as the client expects.
LEMMA CheatReserves ==
    ASSUME RowOK(game), NEW s, Known(s, game), Refusal("cheat", s) = "ok",
           NEW h \in Effects("cheat", s)
    PROVE  View(h) = Reserved(s)
<1>1. game # NoGame /\ RemainingCards(game.dealerUsedCards) # {} /\ View(game) = s
  BY AcceptedIsCurrent DEF Refusal, CheatRefusal
<1>2. game \in GameRecord /\ (game.cheatReserved => game.cheated)
  BY <1>1 DEF RowOK
<1>3. h = ReserveCheat(game) /\ h # NoGame
  BY <1>1, <1>2, ReserveCheatType, NoGameAssumption DEF Effects
<1>4. /\ h.status = game.status /\ h.mode = game.mode /\ h.ver = game.ver + 1
      /\ h.cheated = TRUE /\ h.cheatReserved = TRUE
  BY <1>2, <1>3, VersionWritten, RowsWritten
<1>5. View(h) \in StatusResponse /\ s \in StatusResponse
  BY <1>1, EffectsOK, ViewType DEF Calls
<1>6. /\ View(h).status = game.status /\ View(h).mode = game.mode
      /\ View(h).ver = game.ver + 1
      /\ View(h).cheated = TRUE /\ View(h).cheatReserved = TRUE
  BY <1>3, <1>4 DEF View
<1>7. s.status = game.status /\ s.mode = game.mode /\ s.ver = game.ver
  BY <1>1 DEF View
<1> DEFINE v == View(h)
           w == Reserved(s)
<1>8. /\ w \in StatusResponse
      /\ w.status = game.status /\ w.mode = game.mode /\ w.ver = game.ver + 1
      /\ w.cheated = TRUE /\ w.cheatReserved = TRUE
  BY <1>5, <1>7, ReservedFacts
<1> HIDE DEF v, w
<1>9. v = w
  BY <1>5, <1>6, <1>8, SameStatus DEF v
<1> QED
  BY <1>9 DEF v, w

-----------------------------------------------------------------------------
(* The actions. *)

LEMMA InvTab ==
    ASSUME Inv, NEW t \in Tabs
    PROVE  tab[t] \in Tab /\ TabOK(tab[t], game) /\ RowOK(game)
BY DEF Inv

LEMMA ClickStep ==
    ASSUME Inv, NEW t \in Tabs, NEW click \in Clicks, Click(t, click)
    PROVE  Inv' /\ tab'[t].done = 0
<1> DEFINE T == [tab[t] EXCEPT !.click = click, !.armed = tab[t].cheatPending, !.attempt = 1]
           Q == IF click = "load" THEN Refresh(T) ELSE Try(T, T.shown)
<1>1. /\ tab[t].at = "ready" /\ Enabled(click, tab[t].shown)
      /\ clicks' \in {clicks, clicks + 1} /\ clicks' <= MaxClicks
      /\ tab' = [tab EXCEPT ![t] = Q]
      /\ UNCHANGED <<game, faults>>
  BY DEF Click
<1>2. /\ tab[t] \in Tab /\ TabOK(tab[t], game) /\ RowOK(game)
      /\ tab[t].done = 0
  BY <1>1, InvTab DEF TabOK
<1>3. /\ T \in Tab /\ T.click = click /\ T.attempt = 1
      /\ T.shown = tab[t].shown /\ T.done = 0
  <2> DEFINE V == [tab[t] EXCEPT !.click = click]
  <2>1. /\ V \in Tab /\ V.click = click /\ V.shown = tab[t].shown /\ V.done = 0
    BY <1>2 DEF Tab
  <2> HIDE DEF V
  <2> DEFINE W == [V EXCEPT !.armed = tab[t].cheatPending]
  <2>2. /\ W \in Tab /\ W.click = click /\ W.shown = tab[t].shown /\ W.done = 0
    BY <1>2, <2>1 DEF Tab
  <2> HIDE DEF W
  <2>3. T = [W EXCEPT !.attempt = 1]
    BY DEF V, W
  <2> HIDE DEF T
  <2> QED
    BY <2>2, <2>3 DEF Tab
<1>4. T.shown = NoStatus \/ Known(T.shown, game)
  BY <1>2, <1>3 DEF TabOK
<1>5. clicks' \in 0 .. MaxClicks /\ faults' \in 0 .. MaxFaults
  BY <1>1, ClientAssumption DEF Inv
<1> HIDE DEF T
<1>6. CASE click = "load"
  <2>1. TabOK(Q, game) /\ Q.done = 0
    BY <1>3, <1>4, <1>6, RefreshOK
  <2> HIDE DEF Q
  <2>2. tab'[t] = Q
    BY <1>1 DEF Inv
  <2> QED
    BY <1>1, <1>2, <1>5, <2>1, <2>2, SlotStep DEF Grows
<1>7. CASE click # "load"
  <2>1. click \in Operations
    BY <1>7 DEF Clicks, Operations
  <2>2. T.shown # NoStatus
    <3>1. CASE click = "reset"
      BY <1>1, <1>3, <3>1, NoStatusFacts DEF Enabled, CanResetSet
    <3>2. CASE click \in {"start", "select", "mode"}
      BY <1>1, <1>3, <3>2, NoStatusFacts DEF Enabled, CanStart, CanSelect, CanChangeMode
    <3> QED
      BY <2>1, <3>1, <3>2 DEF Operations
  <2>3. Attempting(T)
    BY <1>3, <2>1 DEF Attempting, Attempts
  <2>4. TabOK(Q, game) /\ Q.done = 0
    BY <1>3, <1>4, <1>7, <2>2, <2>3, TryOK
  <2> HIDE DEF Q
  <2>5. tab'[t] = Q
    BY <1>1 DEF Inv
  <2> QED
    BY <1>1, <1>2, <1>5, <2>4, <2>5, SlotStep DEF Grows
<1> QED
  BY <1>6, <1>7

LEMMA ToggleCheatStep ==
    ASSUME Inv, NEW t \in Tabs, ToggleCheat(t)
    PROVE  Inv'
<1> DEFINE Q == [tab[t] EXCEPT !.cheatPending = ~@]
<1>1. /\ tab[t].at = "ready" /\ tab' = [tab EXCEPT ![t] = Q]
      /\ UNCHANGED <<game, clicks, faults>>
  BY DEF ToggleCheat
<1>2. tab[t] \in Tab /\ TabOK(tab[t], game) /\ RowOK(game)
  BY InvTab
<1>3. /\ Q \in Tab /\ Q.at = "ready" /\ Q.shown = tab[t].shown /\ Q.done = tab[t].done
  BY <1>1, <1>2 DEF Tab
<1> HIDE DEF Q
<1>4. TabOK(Q, game)
  BY <1>1, <1>2, <1>3 DEF TabOK
<1> QED
  BY <1>1, <1>2, <1>4, SlotStep DEF Inv, Grows

\* The reply of an accepted call; code is "ok" or "failed".
LEMMA AcceptStep ==
    ASSUME Inv, NEW t \in Tabs, NEW code \in {"ok", "failed"}, Accept(t, code),
           clicks' \in 0 .. MaxClicks, faults' \in 0 .. MaxFaults
    PROVE  Inv'
<1> DEFINE T == tab[t]
           row == IF code = "ok" THEN View(game') ELSE T.row
           done == IF T.call = T.click THEN T.done + 1 ELSE T.done
           Q == [T EXCEPT !.at = "answered", !.code = code, !.row = row, !.done = done]
<1>1. /\ T.at = "sent" /\ Refusal(T.call, T.s) = "ok"
      /\ game' \in Effects(T.call, T.s)
      /\ tab' = [tab EXCEPT ![t] = Q]
  BY DEF Accept
<1>2. /\ T \in Tab /\ TabOK(T, game) /\ RowOK(game)
      /\ T.call \in Calls /\ T.row \in StatusResponse /\ T.done \in Nat
  BY InvTab, TabFields
<1>3. RowOK(game') /\ Grows(game, game')
  BY <1>1, <1>2, EffectsOK
<1>4. TabOK(T, game')
  BY <1>2, <1>3, TabLater
<1>5. row \in StatusResponse /\ done \in Nat /\ (code = "ok" => Known(row, game'))
  BY <1>2, <1>3, ViewType
<1>6. /\ Q \in Tab /\ Q.at = "answered" /\ Q.code = code /\ Q.row = row /\ Q.done = done
      /\ Q.click = T.click /\ Q.call = T.call /\ Q.attempt = T.attempt
      /\ Q.s = T.s /\ Q.armed = T.armed /\ Q.shown = T.shown
  <2> HIDE DEF T, row, done
  <2> DEFINE V == [T EXCEPT !.at = "answered", !.code = code]
  <2>1. /\ V \in Tab /\ V.at = "answered" /\ V.code = code
        /\ V.click = T.click /\ V.call = T.call /\ V.attempt = T.attempt
        /\ V.s = T.s /\ V.armed = T.armed /\ V.shown = T.shown
    BY <1>2 DEF Tab, Codes
  <2>2. Q = [V EXCEPT !.row = row, !.done = done]
    OBVIOUS
  <2> HIDE DEF V
  <2> QED
    BY <1>5, <2>1, <2>2 DEF Tab
<1>7. Trying(T, game') \/ FetchingLatest(T, game') \/ Refreshing(T, game')
  BY <1>1, <1>4 DEF TabOK
<1>8. ASSUME Trying(T, game') PROVE Trying(Q, game')
  <2>1. T.done = 0
    BY <1>1, <1>8 DEF Trying
  <2>2. T.call = "cheat" => T.click # T.call
    BY <1>8 DEF Trying, Attempting, Operations
  <2>3. T.call # "cheat" => T.call = T.click
    BY <1>8 DEF Trying
  <2>4. ASSUME code = "ok", T.call = "cheat" PROVE row = Reserved(T.s)
    <3>1. Known(T.s, game)
      BY <1>1, <1>2, <1>8, <2>4 DEF TabOK, Trying, FetchingLatest, Refreshing
    <3> QED
      BY <1>1, <1>2, <2>4, <3>1, CheatReserves
  <2> HIDE DEF T, row, Q
  <2>5. ReplySound(Q, game')
    BY <1>5, <1>6, <2>1, <2>2, <2>3, <2>4 DEF ReplySound
  <2> QED
    BY <1>6, <1>8, <2>5 DEF Trying, Attempting, OnShown
<1>9. ASSUME FetchingLatest(T, game') PROVE FetchingLatest(Q, game')
  <2>1. T.call = "latest" /\ T.call # T.click
    BY <1>9 DEF FetchingLatest, Attempting, Operations
  <2>2. code = "ok" => T.s.ver < row.ver
    BY <1>9 DEF FetchingLatest
  <2> HIDE DEF T, row, Q
  <2> QED
    BY <1>5, <1>6, <1>9, <2>1, <2>2 DEF FetchingLatest, Attempting
<1>10. ASSUME Refreshing(T, game') PROVE Refreshing(Q, game')
  <2>1. T.call = "refresh" /\ T.call # T.click
    BY <1>2, <1>10 DEF Refreshing, Tab, Clicks
  <2> HIDE DEF T, row, Q
  <2> QED
    BY <1>5, <1>6, <1>10, <2>1 DEF Refreshing
<1>11. TabOK(Q, game')
  <2>1. T.shown = NoStatus \/ Known(T.shown, game')
    BY <1>4 DEF TabOK
  <2> HIDE DEF T, row, done, Q
  <2> QED
    BY <1>6, <1>7, <1>8, <1>9, <1>10, <2>1 DEF TabOK
<1> HIDE DEF T, Q
<1> QED
  BY <1>1, <1>3, <1>11, SlotStep

\* The reply of a call without effect: code is "failed", or what the handler
\* has found.
LEMMA RefuseStep ==
    ASSUME Inv, NEW t \in Tabs, NEW code \in Codes \ {"ok"}, Refuse(t, code),
           tab[t].call \in {"latest", "refresh"} => code = "failed",
           code = "version_conflict" => tab[t].s.ver # View(game).ver,
           clicks' \in 0 .. MaxClicks, faults' \in 0 .. MaxFaults
    PROVE  Inv'
<1> DEFINE T == tab[t]
           Q == [T EXCEPT !.at = "answered", !.code = code]
<1>1. T.at = "sent" /\ tab' = [tab EXCEPT ![t] = Q] /\ UNCHANGED game
  BY DEF Refuse, Inv
<1>2. T \in Tab /\ TabOK(T, game) /\ RowOK(game)
  BY InvTab
<1>3. /\ Q \in Tab /\ Q.at = "answered" /\ Q.code = code /\ Q.row = T.row /\ Q.done = T.done
      /\ Q.click = T.click /\ Q.call = T.call /\ Q.attempt = T.attempt
      /\ Q.s = T.s /\ Q.armed = T.armed /\ Q.shown = T.shown
  <2> HIDE DEF T
  <2> QED
    BY <1>2 DEF Tab
<1>4. Trying(T, game) \/ FetchingLatest(T, game) \/ Refreshing(T, game)
  BY <1>1, <1>2 DEF TabOK
<1>5. ASSUME Trying(T, game) PROVE Trying(Q, game)
  <2>1. T.done = 0 /\ Known(T.s, game)
    BY <1>1, <1>5 DEF Trying
  <2>2. code = "version_conflict" => T.s.ver < View(game).ver
    <3>1. T.s.ver \in Nat /\ View(game).ver \in Nat /\ T.s.ver <= View(game).ver
      BY <1>2, <2>1, ViewType DEF Known, StatusResponse
    <3> QED
      BY <3>1
  <2> HIDE DEF T, Q
  <2>3. ReplySound(Q, game)
    BY <1>3, <2>1, <2>2 DEF ReplySound
  <2> QED
    BY <1>3, <1>5, <2>3 DEF Trying, Attempting, OnShown
<1>6. ASSUME FetchingLatest(T, game) PROVE FetchingLatest(Q, game)
  <2>1. code = "failed"
    BY <1>6 DEF FetchingLatest
  <2> HIDE DEF T, Q
  <2> QED
    BY <1>3, <1>6, <2>1 DEF FetchingLatest, Attempting
<1>7. ASSUME Refreshing(T, game) PROVE Refreshing(Q, game)
  <2>1. code = "failed"
    BY <1>7 DEF Refreshing
  <2> HIDE DEF T, Q
  <2> QED
    BY <1>3, <1>7, <2>1 DEF Refreshing
<1>8. TabOK(Q, game)
  <2>1. T.shown = NoStatus \/ Known(T.shown, game)
    BY <1>2 DEF TabOK
  <2> HIDE DEF T, Q
  <2> QED
    BY <1>3, <1>4, <1>5, <1>6, <1>7, <2>1 DEF TabOK
<1> HIDE DEF T, Q
<1> QED
  BY <1>1, <1>2, <1>8, SlotStep DEF Grows

LEMMA ServeStep ==
    ASSUME Inv, NEW t \in Tabs, Serve(t)
    PROVE  Inv'
<1> DEFINE T == tab[t]
<1>1. /\ T.call \in Calls /\ RowOK(game)
      /\ clicks' \in 0 .. MaxClicks /\ faults' \in 0 .. MaxFaults
  BY InvTab, TabFields DEF Serve, Inv
<1>2. CASE Accept(t, "ok")
  BY <1>1, <1>2, AcceptStep
<1>3. CASE Refusal(T.call, T.s) # "ok" /\ Refuse(t, Refusal(T.call, T.s))
  <2> DEFINE code == Refusal(T.call, T.s)
  <2>1. /\ code \in Codes \ {"ok", "failed"} /\ T.call \notin {"latest", "refresh"}
        /\ code = "version_conflict" => game # NoGame /\ game.ver # T.s.ver
    BY <1>1, <1>3, RefusalFacts
  <2>2. code = "version_conflict" => View(game).ver # T.s.ver
    BY <2>1 DEF View
  <2> HIDE DEF code
  <2> QED
    BY <1>1, <1>3, <2>1, <2>2, RefuseStep DEF code
<1>4. CASE /\ Refusal(T.call, T.s) # "ok"
           /\ game # NoGame /\ game.ver # T.s.ver /\ Refuse(t, Overtaken(T))
  <2>1. /\ Overtaken(T) \in Codes \ {"ok"} /\ T.call \notin {"latest", "refresh"}
        /\ View(game).ver # T.s.ver
    BY <1>1, <1>4, RefusalFacts DEF Overtaken, Codes, View
  <2> QED
    BY <1>1, <1>4, <2>1, RefuseStep
<1> QED
  BY <1>2, <1>3, <1>4 DEF Serve

LEMMA FailStep ==
    ASSUME Inv, NEW t \in Tabs, Fail(t)
    PROVE  Inv'
<1>1. clicks' \in 0 .. MaxClicks /\ faults' \in 0 .. MaxFaults
  BY ClientAssumption DEF Fail, Inv
<1>2. "failed" \in Codes \ {"ok"}
  BY DEF Codes
<1> QED
  BY <1>1, <1>2, AcceptStep, RefuseStep DEF Fail

\* What the tab T does with a reply, becoming Q: a click never ends with the
\* cheat or the operation done and no status fetched since, and a retry is made
\* on the status that has arrived.
Moved(T, Q) ==
    /\ Q.done \in {0, T.done}
    /\ Q.at = "ready" => T.code # "ok" \/ T.call \in {"latest", "refresh"}
    /\ T.call = "latest" /\ Q.at = "sent" => T.code = "ok" /\ Q.s = T.row
    /\ Q.at \in {"ready", "sent"}

\* The select that follows the cheat of the same click.
LEMMA AfterCheat ==
    ASSUME Inv, NEW t \in Tabs, tab[t].at = "answered", tab[t].code = "ok",
           tab[t].call = "cheat"
    PROVE  TabOK(AfterOk(tab[t]), game) /\ Moved(tab[t], AfterOk(tab[t]))
<1> DEFINE T == tab[t]
           s == [T.s EXCEPT !.ver = T.row.ver, !.cheated = TRUE, !.cheatReserved = TRUE]
           U == [T EXCEPT !.s = s]
           C == Call(U, "select")
<1>1. T \in Tab /\ TabOK(T, game) /\ RowOK(game)
  BY InvTab
<1>2. Trying(T, game) /\ T.call = "cheat" /\ T.code = "ok" /\ T.at = "answered"
  BY <1>1 DEF TabOK, FetchingLatest, Refreshing
<1>3. /\ T.click = "select" /\ T.armed /\ T.s = T.shown /\ T.done = 0
      /\ T.row = Reserved(T.s) /\ Known(T.row, game) /\ Known(T.s, game) /\ Attempting(T)
  BY <1>2 DEF Trying, OnShown, ReplySound, Attempting, Operations
<1>4. T.s \in StatusResponse /\ T.row \in StatusResponse /\ T.row.ver \in Nat
  BY <1>3 DEF Known, StatusResponse
<1>5. s = T.row
  <2> HIDE DEF T
  <2> DEFINE v == [T.s EXCEPT !.ver = T.row.ver]
  <2>1. /\ v \in StatusResponse /\ v.ver = T.row.ver
        /\ v.status = T.s.status /\ v.mode = T.s.mode
    BY <1>4 DEF StatusResponse
  <2> HIDE DEF v
  <2> DEFINE w == [v EXCEPT !.cheated = TRUE]
  <2>2. /\ w \in StatusResponse /\ w.ver = T.row.ver
        /\ w.status = T.s.status /\ w.mode = T.s.mode /\ w.cheated = TRUE
    BY <2>1 DEF StatusResponse
  <2> HIDE DEF w
  <2>3. s = [w EXCEPT !.cheatReserved = TRUE]
    BY DEF v, w
  <2>4. /\ s \in StatusResponse /\ s.ver = T.row.ver
        /\ s.status = T.s.status /\ s.mode = T.s.mode
        /\ s.cheated = TRUE /\ s.cheatReserved = TRUE
    <3> HIDE DEF s
    <3> QED
      BY <2>2, <2>3 DEF StatusResponse
  <2> HIDE DEF s
  <2>5. /\ T.row.status = T.s.status /\ T.row.mode = T.s.mode
        /\ T.row.cheated = TRUE /\ T.row.cheatReserved = TRUE
    BY <1>3, <1>4, ReservedFacts
  <2> QED
    BY <1>4, <2>4, <2>5, SameStatus
<1> HIDE DEF s
<1>6. /\ U \in Tab /\ U.s = T.row /\ U.click = T.click /\ U.attempt = T.attempt
      /\ U.armed = T.armed /\ U.shown = T.shown /\ U.done = 0
  <2> HIDE DEF T
  <2> QED
    BY <1>1, <1>3, <1>4, <1>5 DEF Tab, Shown
<1> HIDE DEF U
<1>7. /\ C \in Tab /\ C.at = "sent" /\ C.call = "select" /\ C.s = T.row
      /\ C.click = T.click /\ C.attempt = T.attempt
      /\ C.armed = T.armed /\ C.shown = T.shown /\ C.done = 0
  BY <1>6, CallFacts DEF Calls
<1>8. CheatDone(T.row)
  BY <1>3, <1>4, ReservedFacts DEF CheatDone
<1>9. AfterOk(T) = C
  BY <1>2 DEF AfterOk, C, U, s
<1> HIDE DEF C, T
<1>10. Trying(C, game)
  BY <1>3, <1>7, <1>8 DEF Trying, OnShown, Attempting
<1>11. TabOK(C, game)
  <2>1. C.shown = NoStatus \/ Known(C.shown, game)
    BY <1>1, <1>7 DEF TabOK
  <2> QED
    BY <1>7, <1>10, <2>1 DEF TabOK
<1>12. Moved(T, C)
  BY <1>2, <1>7 DEF Moved
<1> QED
  BY <1>9, <1>11, <1>12 DEF T

\* The operation has been done.
LEMMA AfterOperation ==
    ASSUME Inv, NEW t \in Tabs, tab[t].at = "answered", tab[t].code = "ok",
           tab[t].call \in Operations
    PROVE  TabOK(AfterOk(tab[t]), game) /\ Moved(tab[t], AfterOk(tab[t]))
<1> DEFINE T == tab[t]
           U == [T EXCEPT !.cheatPending = FALSE]
<1>1. T \in Tab /\ TabOK(T, game) /\ RowOK(game)
  BY InvTab
<1>2. Trying(T, game) /\ T.call \in Operations /\ T.code = "ok" /\ T.at = "answered"
  BY <1>1 DEF TabOK, FetchingLatest, Refreshing, Operations
<1>3. T.done = 1 /\ T.click # "load" /\ Known(T.row, game) /\ T.row \in StatusResponse
  BY <1>2 DEF Trying, ReplySound, Attempting, Operations, Known
<1>4. T.shown = NoStatus \/ Known(T.shown, game)
  BY <1>1 DEF TabOK
<1>5. U \in Tab /\ U.done = 1 /\ U.click = T.click /\ U.shown = T.shown
  <2> HIDE DEF T
  <2> QED
    BY <1>1, <1>3 DEF Tab
<1>6. CASE T.call \in {"start", "mode"}
  <2>1. AfterOk(T) = Refresh(T)
    BY <1>6 DEF AfterOk
  <2> QED
    BY <1>1, <1>3, <1>4, <1>6, <2>1, RefreshOK DEF Moved
<1>7. CASE T.call = "select"
  <2>1. AfterOk(T) = Refresh(U)
    BY <1>7 DEF AfterOk
  <2> HIDE DEF U
  <2> QED
    BY <1>3, <1>4, <1>5, <1>7, <2>1, RefreshOK DEF Moved
<1>8. CASE T.call = "reset"
  <2> DEFINE V == SetStatus(U, T.row)
  <2>1. AfterOk(T) = Refresh(V)
    BY <1>8 DEF AfterOk
  <2> HIDE DEF U, T
  <2>2. V \in Tab /\ V.shown = T.row /\ V.done = 1 /\ V.click = T.click
    BY <1>3, <1>5, SetStatusFacts
  <2> HIDE DEF V
  <2> QED
    BY <1>3, <1>8, <2>1, <2>2, RefreshOK DEF T, Moved
<1> QED
  BY <1>2, <1>6, <1>7, <1>8 DEF Operations

\* The newest status has arrived after a conflict.
LEMMA AfterNewest ==
    ASSUME Inv, NEW t \in Tabs, tab[t].at = "answered", tab[t].code = "ok",
           tab[t].call = "latest"
    PROVE  TabOK(AfterOk(tab[t]), game) /\ Moved(tab[t], AfterOk(tab[t]))
<1> DEFINE T == tab[t]
           U == SetStatus(T, T.row)
           V == [U EXCEPT !.attempt = @ + 1]
<1>1. T \in Tab /\ TabOK(T, game) /\ RowOK(game)
  BY InvTab
<1>2. /\ Attempting(T) /\ T.done = 0 /\ Known(T.row, game)
      /\ T.row \in StatusResponse
  BY <1>1 DEF TabOK, FetchingLatest, Trying, Attempting, Operations, Refreshing, Known
<1>3. T.call = "latest"
  OBVIOUS
<1>4. AfterOk(T) = IF GivesUp(T) THEN End(U) ELSE Try(V, T.row)
  BY DEF AfterOk, AfterLatest, TryLatest
<1> HIDE DEF T
<1>5. /\ U \in Tab /\ U.shown = T.row /\ U.done = 0
      /\ U.click = T.click /\ U.attempt = T.attempt
  BY <1>1, <1>2, SetStatusFacts
<1> HIDE DEF U
<1>6. CASE GivesUp(T)
  BY <1>2, <1>4, <1>5, <1>6, <1>3, EndOK DEF T, Moved
<1>7. CASE ~GivesUp(T)
  <2>1. /\ T.attempt \in 1 .. Attempts(T.click) /\ T.attempt # Attempts(T.click)
        /\ Attempts(T.click) \in {2, 3}
    BY <1>2, <1>7 DEF Attempting, GivesUp, Attempts
  <2>2. T.attempt + 1 \in 1 .. Attempts(T.click) /\ T.attempt + 1 \in 0 .. 3
    BY <2>1
  <2>3. /\ V \in Tab /\ V.shown = T.row /\ V.done = 0
        /\ V.click = T.click /\ V.attempt = T.attempt + 1
    BY <1>5, <2>2 DEF Tab
  <2> HIDE DEF V
  <2>4. Attempting(V)
    BY <1>2, <2>2, <2>3 DEF Attempting
  <2> QED
    BY <1>2, <1>4, <1>7, <2>3, <2>4, TryOK DEF T, Moved
<1> QED
  BY <1>6, <1>7

\* The status at the end of a click has arrived.
LEMMA AfterRefresh ==
    ASSUME Inv, NEW t \in Tabs, tab[t].at = "answered", tab[t].code = "ok",
           tab[t].call = "refresh"
    PROVE  TabOK(AfterOk(tab[t]), game) /\ Moved(tab[t], AfterOk(tab[t]))
<1> DEFINE T == tab[t]
           U == SetStatus(T, T.row)
<1>1. T \in Tab /\ TabOK(T, game)
  BY InvTab
<1>2. Known(T.row, game) /\ T.row \in StatusResponse
  BY <1>1 DEF TabOK, FetchingLatest, Trying, Attempting, Operations, Refreshing, Known
<1>3. AfterOk(T) = End(U) /\ T.call = "refresh"
  BY DEF AfterOk
<1> HIDE DEF T
<1>4. U \in Tab /\ U.shown = T.row
  BY <1>1, <1>2, SetStatusFacts
<1> HIDE DEF U
<1> QED
  BY <1>2, <1>3, <1>4, EndOK DEF T, Moved

\* A refusal for the version, and only that, is followed by another attempt.
LEMMA AfterErrorOK ==
    ASSUME Inv, NEW t \in Tabs, tab[t].at = "answered", tab[t].code # "ok"
    PROVE  /\ TabOK(AfterError(tab[t]), game)
           /\ Moved(tab[t], AfterError(tab[t]))
<1> DEFINE T == tab[t]
           C == Call(T, "latest")
<1>1. T \in Tab /\ TabOK(T, game) /\ RowOK(game)
  BY InvTab
<1>2. T.shown = NoStatus \/ Known(T.shown, game)
  BY <1>1 DEF TabOK
<1>3. CASE ~Retryable(T) \/ AfterError(T) = End(T)
  <2>1. AfterError(T) = End(T)
    BY <1>3 DEF AfterError
  <2> QED
    BY <1>1, <1>2, <2>1, EndOK DEF Moved
<1>4. CASE Retryable(T) /\ AfterError(T) = C
  <2>1. Trying(T, game) /\ T.code = "version_conflict"
    BY <1>1, <1>4 DEF TabOK, FetchingLatest, Refreshing, Retryable
  <2>2. /\ Attempting(T) /\ T.done = 0
        /\ T.s \in StatusResponse /\ T.s.ver < View(game).ver
        /\ T.call # "latest"
    BY <2>1 DEF Trying, ReplySound, Known, Attempting, Operations
  <2> HIDE DEF T
  <2>3. /\ C \in Tab /\ C.at = "sent" /\ C.call = "latest" /\ C.s = T.s
        /\ C.click = T.click /\ C.attempt = T.attempt
        /\ C.shown = T.shown /\ C.done = 0
    BY <1>1, <2>2, CallFacts DEF Calls
  <2> HIDE DEF C
  <2>4. TabOK(C, game)
    BY <1>2, <2>2, <2>3 DEF TabOK, FetchingLatest, Attempting
  <2> QED
    BY <1>4, <2>2, <2>3, <2>4 DEF T, Moved
<1> QED
  BY <1>3, <1>4 DEF AfterError

LEMMA ReceiveStep ==
    ASSUME Inv, NEW t \in Tabs, Receive(t)
    PROVE  Inv' /\ tab[t].at = "answered" /\ Moved(tab[t], tab'[t])
<1> DEFINE Q == IF tab[t].code = "ok" THEN AfterOk(tab[t]) ELSE AfterError(tab[t])
<1>1. /\ tab[t].at = "answered" /\ tab' = [tab EXCEPT ![t] = Q]
      /\ UNCHANGED <<game, clicks, faults>>
  BY DEF Receive
<1>2. tab[t].call \in Operations \cup {"cheat", "latest", "refresh"} /\ RowOK(game)
  BY InvTab, TabFields DEF Calls, Operations
<1>3. TabOK(Q, game) /\ Moved(tab[t], Q)
  BY <1>1, <1>2, AfterCheat, AfterOperation, AfterNewest, AfterRefresh, AfterErrorOK
<1> HIDE DEF Q
<1>4. tab'[t] = Q
  BY <1>1 DEF Inv
<1> QED
  BY <1>1, <1>2, <1>3, <1>4, SlotStep DEF Inv, Grows

\* The moments of the game at which the tabs may be opened.
LEMMA InitialRows ==
    /\ RowOK(FinishedSet)
    /\ RowOK(DealerSet)
<1> DEFINE one == PlayRound(NewGame, NumCards, NumCards - 1)
           two == PlayRound(one, NumCards - 1, NumCards - 2)
<1>1. NumCards \in Nat /\ NumCards >= 3 /\ DrawLimit \in Nat /\ DrawLimit >= 1
  BY RulesAssumption, ClientAssumption
<1>2. /\ NewGame \in GameRecord /\ NewGame.cheatReserved = FALSE
      /\ NumCards \in RemainingCards(NewGame.playerUsedCards)
      /\ NumCards - 1 \in DealerChoices(NewGame)
  BY <1>1, NewGameType DEF NewGame, RemainingCards, DealerChoices, CheatPending, Cards
<1>3. /\ one \in GameRecord /\ (one.cheatReserved => one.cheated)
  BY <1>2, PlayRoundType, RowsWritten
<1>4. /\ one.playerUsedCards = {NumCards} /\ one.dealerUsedCards = {NumCards - 1}
      /\ one.cheatReserved = FALSE
  <2>1. JudgeRound(NumCards, NumCards - 1) = "PLAYER_WIN"
    BY <1>1 DEF JudgeRound
  <2>2. ~DrawLimitHit(NewGame, NumCards, NumCards - 1)
    BY <1>1, <2>1 DEF DrawLimitHit, DrawsAfter
  <2>3. /\ NewGame.playerUsedCards = {} /\ NewGame.dealerUsedCards = {}
        /\ NewGame.cheatReserved = FALSE
    BY DEF NewGame
  <2> QED
    BY <1>2, <2>2, <2>3 DEF PlayRound, GameRecord
<1>5. /\ NumCards - 1 \in RemainingCards(one.playerUsedCards)
      /\ NumCards - 2 \in DealerChoices(one)
  BY <1>1, <1>4 DEF RemainingCards, DealerChoices, CheatPending, Cards
<1> HIDE DEF one
<1>6. two \in GameRecord /\ (two.cheatReserved => two.cheated)
  BY <1>3, <1>5, PlayRoundType, RowsWritten
<1>7. FinishedSet = SetMode(two, "DEALER")
  BY DEF FinishedSet, two, one
<1> HIDE DEF two
<1>8. FinishedSet \in GameRecord /\ (FinishedSet.cheatReserved => FinishedSet.cheated)
  BY <1>6, <1>7, SetModeType, RowsWritten DEF Modes
<1>9. DealerSet \in GameRecord /\ DealerSet.cheatReserved = FALSE
  BY <1>8, FreshSetType, RowsWritten DEF DealerSet
<1> QED
  BY <1>8, <1>9 DEF RowOK

LEMMA NextStep == Inv /\ [Next]_vars => Inv'
<1>1. ASSUME Inv, UNCHANGED vars PROVE Inv'
  BY <1>1 DEF Inv, vars
<1> QED
  BY <1>1, ClickStep, ToggleCheatStep, ReceiveStep, ServeStep, FailStep DEF Next

LEMMA InvAlways == Spec => []Inv
<1>1. Init => Inv
  <2> SUFFICES ASSUME Init PROVE Inv
    OBVIOUS
  <2>1. RowOK(game)
    BY InitialRows DEF Init, RowOK
  <2>2. TabOK(Ready(NoStatus, FALSE), game) /\ Ready(NoStatus, FALSE) \in Tab
    BY ReadyOK DEF TabOK
  <2>3. tab = [t \in Tabs |-> Ready(NoStatus, FALSE)] /\ clicks = 0 /\ faults = 0
    BY DEF Init
  <2>4. \A t \in Tabs : tab[t] = Ready(NoStatus, FALSE)
    BY <2>3
  <2>5. tab \in [Tabs -> Tab] /\ \A t \in Tabs : TabOK(tab[t], game)
    BY <2>2, <2>3, <2>4
  <2>6. clicks \in 0 .. MaxClicks /\ faults \in 0 .. MaxFaults
    BY <2>3, ClientAssumption
  <2> QED
    BY <2>1, <2>5, <2>6 DEF Inv
<1> QED
  BY <1>1, NextStep, PTL DEF Spec

-----------------------------------------------------------------------------
(* What the steps of a tab are. *)

\* The server serves a call or it fails: the operation of the click is done
\* now, or nothing is counted.
LEMMA Replied ==
    ASSUME Inv, NEW t \in Tabs, Serve(t) \/ Fail(t)
    PROVE  /\ tab[t].at = "sent" /\ tab'[t].at = "answered"
           /\ \/ tab'[t].done = tab[t].done
              \/ /\ tab[t].call = tab[t].click
                 /\ Refusal(tab[t].call, tab[t].s) = "ok"
                 /\ game' \in Effects(tab[t].call, tab[t].s)
<1> DEFINE T == tab[t]
<1>1. T \in Tab /\ tab \in [Tabs -> Tab]
  BY InvTab DEF Inv
<1>2. ASSUME NEW code, Refuse(t, code)
      PROVE  T.at = "sent" /\ tab'[t].at = "answered" /\ tab'[t].done = T.done
  <2>1. T.at = "sent" /\ tab'[t] = [T EXCEPT !.at = "answered", !.code = code]
    BY <1>1, <1>2 DEF Refuse
  <2> HIDE DEF T
  <2> QED
    BY <1>1, <2>1 DEF Tab
<1>3. ASSUME NEW code, Accept(t, code)
      PROVE  /\ T.at = "sent" /\ tab'[t].at = "answered"
             /\ \/ tab'[t].done = T.done
                \/ /\ T.call = T.click
                   /\ Refusal(T.call, T.s) = "ok"
                   /\ game' \in Effects(T.call, T.s)
  <2>1. PICK row, done :
          /\ T.at = "sent" /\ Refusal(T.call, T.s) = "ok"
          /\ game' \in Effects(T.call, T.s)
          /\ tab' = [tab EXCEPT ![t] = [T EXCEPT !.at = "answered", !.code = code,
                                                 !.row = row, !.done = done]]
          /\ done = IF T.call = T.click THEN T.done + 1 ELSE T.done
    BY <1>3 DEF Accept
  <2>2. tab'[t] = [T EXCEPT !.at = "answered", !.code = code, !.row = row, !.done = done]
    BY <1>1, <2>1
  <2> HIDE DEF T
  <2>3. tab'[t].at = "answered" /\ tab'[t].done = done
    BY <1>1, <2>2 DEF Tab
  <2> QED
    BY <2>1, <2>3
<1> HIDE DEF T
<1> QED
  BY <1>2, <1>3 DEF Serve, Fail, T

\* A tab changes only by a step of its own.
LEMMA OwnStep ==
    ASSUME Inv, [Next]_vars, NEW t \in Tabs, tab'[t] # tab[t]
    PROVE  \/ \E click \in Clicks : Click(t, click)
           \/ ToggleCheat(t) \/ Receive(t) \/ Serve(t) \/ Fail(t)
<1>1. ASSUME NEW z \in Tabs, NEW q, tab' = [tab EXCEPT ![z] = q]
      PROVE  z = t
  BY <1>1 DEF Inv
<1>2. ASSUME NEW z \in Tabs, NEW click \in Clicks, Click(z, click) PROVE z = t
  BY <1>1, <1>2 DEF Click
<1>3. ASSUME NEW z \in Tabs, ToggleCheat(z) PROVE z = t
  BY <1>1, <1>3 DEF ToggleCheat
<1>4. ASSUME NEW z \in Tabs, Receive(z) PROVE z = t
  BY <1>1, <1>4 DEF Receive
<1>5. ASSUME NEW z \in Tabs, Serve(z) \/ Fail(z) PROVE z = t
  BY <1>1, <1>5 DEF Serve, Fail, Accept, Refuse
<1>6. ~UNCHANGED vars
  BY DEF vars
<1> QED
  BY <1>2, <1>3, <1>4, <1>5, <1>6 DEF Next

\* A click takes effect when the server accepts its operation, which acts on
\* exactly the row that was sent.
LEMMA EffectStep ==
    ASSUME Inv, [Next]_vars, NEW t \in Tabs, TakesEffect(t)
    PROVE  /\ tab[t].call = tab[t].click /\ tab[t].call \in Operations
           /\ Refusal(tab[t].call, tab[t].s) = "ok"
           /\ game' \in Effects(tab[t].call, tab[t].s)
           /\ Trying(tab[t], game) /\ View(game) = tab[t].s
<1> DEFINE T == tab[t]
<1>1. T \in Tab /\ TabOK(T, game) /\ RowOK(game) /\ T.done \in Nat
  BY InvTab, TabFields
<1>2. tab'[t] # T /\ tab'[t].done > T.done
  BY <1>1 DEF TakesEffect
<1>3. ASSUME NEW click \in Clicks, Click(t, click) PROVE FALSE
  BY <1>1, <1>2, <1>3, ClickStep
<1>4. ~ToggleCheat(t)
  <2>1. ASSUME ToggleCheat(t) PROVE tab'[t].done = T.done
    <3>1. tab'[t] = [T EXCEPT !.cheatPending = ~@]
      BY <2>1 DEF ToggleCheat, Inv
    <3> HIDE DEF T
    <3> QED
      BY <1>1, <3>1 DEF Tab
  <2> QED
    BY <1>1, <1>2, <2>1
<1>5. ~Receive(t)
  BY <1>1, <1>2, ReceiveStep DEF Moved
<1>6. Serve(t) \/ Fail(t)
  BY <1>2, <1>3, <1>4, <1>5, OwnStep
<1>7. /\ T.at = "sent" /\ T.call = T.click
      /\ Refusal(T.call, T.s) = "ok" /\ game' \in Effects(T.call, T.s)
  BY <1>1, <1>2, <1>6, Replied
<1>8. Trying(T, game)
  BY <1>1, <1>7 DEF TabOK, FetchingLatest, Refreshing, Attempting, Operations, Tab, Clicks
<1>9. T.call \in Operations /\ Known(T.s, game)
  BY <1>7, <1>8 DEF Trying, Attempting
<1>10. View(game) = T.s
  BY <1>1, <1>7, <1>9, AcceptedIsCurrent
<1> QED
  BY <1>7, <1>8, <1>9, <1>10

\* A tab that was waiting for a reply goes on only by receiving it.
LEMMA GoesOnStep ==
    ASSUME Inv, [Next]_vars, NEW t \in Tabs, tab[t].at # "ready",
           tab'[t].at # "answered", tab'[t] # tab[t]
    PROVE  Receive(t)
BY OwnStep, Replied DEF Click, ToggleCheat

-----------------------------------------------------------------------------
(* The properties. *)

\* Client's type invariant: in particular no click makes more attempts than
\* runWithVersionRetry and onResetSet allow.
THEOREM TypeCorrect == Spec => []TypeOK
<1>1. Inv => TypeOK
  BY DEF Inv, TypeOK, RowOK
<1> QED
  BY <1>1, InvAlways, PTL

\* Retried or not, a click that ends well has done its operation exactly once,
\* and one that ends with a refusal has not done it: runWithVersionRetry repeats
\* a call only after version_conflict, which the server never answers to a call
\* that took effect.
THEOREM ClicksTakeEffectOnce == Spec => ClickEffect
<1>1. ASSUME Inv, [Next]_vars, NEW t \in Tabs, Ends(t), tab[t].click # "load"
      PROVE  /\ tab[t].done <= 1
             /\ Outcome(tab[t]) = "ok" => tab[t].done = 1
             /\ Outcome(tab[t]) \notin {"ok", "failed"} => tab[t].done = 0
  <2> DEFINE T == tab[t]
  <2>1. T \in Tab /\ TabOK(T, game)
    BY <1>1, InvTab
  <2>2. Receive(t)
    BY <1>1, GoesOnStep DEF Ends
  <2>3. /\ T.at = "answered"
        /\ T.code # "ok" \/ T.call \in {"latest", "refresh"}
    BY <1>1, <2>2, ReceiveStep DEF Moved, Ends
  <2>4. CASE Trying(T, game)
    <3>1. T.code # "ok" /\ T.call # "latest" /\ ReplySound(T, game)
      BY <2>3, <2>4 DEF Trying, Attempting, Operations
    <3> QED
      BY <3>1 DEF ReplySound, Outcome
  <2>5. CASE FetchingLatest(T, game)
    BY <2>3, <2>5 DEF FetchingLatest, Outcome
  <2>6. CASE Refreshing(T, game)
    BY <1>1, <2>3, <2>6 DEF Refreshing, Outcome
  <2> QED
    BY <2>1, <2>3, <2>4, <2>5, <2>6 DEF TabOK
<1>2. Inv /\ [Next]_vars =>
        [\A t \in Tabs :
            LET T == tab[t]
            IN  Ends(t) /\ T.click # "load" =>
                  /\ T.done <= 1
                  /\ Outcome(T) = "ok" => T.done = 1
                  /\ Outcome(T) \notin {"ok", "failed"} => T.done = 0]_vars
  BY <1>1
<1> QED
  BY <1>2, InvAlways, PTL DEF Spec, ClickEffect

\* The version sent by the tab and the check of it by the server together mean
\* that nobody acts on a row that the tab does not display, retries included.
THEOREM ClicksActOnShownRow == Spec => ActsOnShownRow
<1>1. ASSUME Inv, [Next]_vars, NEW t \in Tabs, TakesEffect(t)
      PROVE  \/ View(game) = tab[t].shown
             \/ tab[t].armed /\ View(game) = Reserved(tab[t].shown)
  BY <1>1, EffectStep DEF Trying, OnShown
<1>2. Inv /\ [Next]_vars =>
        [\A t \in Tabs :
            TakesEffect(t) =>
              \/ View(game) = tab[t].shown
              \/ tab[t].armed /\ View(game) = Reserved(tab[t].shown)]_vars
  BY <1>1
<1> QED
  BY <1>2, InvAlways, PTL DEF Spec, ActsOnShownRow

\* onChangeMode works out the next mode inside the retried operation, from the
\* newest status, so that an accepted click always switches the mode.
THEOREM ModeClicksSwitch == Spec => ModeClickSwitches
<1>1. ASSUME Inv, [Next]_vars, NEW t \in Tabs, TakesEffect(t), tab[t].click = "mode"
      PROVE  game'.mode # game.mode
  <2> DEFINE s == tab[t].s
  <2>1. /\ Refusal("mode", s) = "ok" /\ game' \in Effects("mode", s)
        /\ View(game) = s /\ RowOK(game)
    BY <1>1, EffectStep, InvTab
  <2>2. game # NoGame
    BY <2>1, RefusalFacts DEF Calls
  <2>3. game \in GameRecord /\ (game.cheatReserved => game.cheated) /\ s.mode = game.mode
    BY <2>1, <2>2 DEF RowOK, View
  <2> HIDE DEF s
  <2>4. game' = SetMode(game, NextMode(s))
    BY <2>1 DEF Effects
  <2>5. game'.mode = NextMode(s)
    BY <2>3, <2>4, RowsWritten
  <2> QED
    BY <2>3, <2>5 DEF NextMode
<1>2. Inv /\ [Next]_vars =>
        [\A t \in Tabs :
            TakesEffect(t) /\ tab[t].click = "mode" => game'.mode # game.mode]_vars
  BY <1>1
<1> QED
  BY <1>2, InvAlways, PTL DEF Spec, ModeClickSwitches

\* onSelect reserves the cheat before the select inside the retried operation:
\* an armed select never plays a round in which the cheat was still to be had.
THEOREM ArmedSelectsCheat == Spec => ArmedSelectCheats
<1>1. ASSUME Inv, [Next]_vars, NEW t \in Tabs, TakesEffect(t),
             tab[t].click = "select", tab[t].armed
      PROVE  game.mode # "DEALER" \/ game.cheated
  <2> DEFINE s == tab[t].s
  <2>1. /\ Refusal("select", s) = "ok" /\ View(game) = s /\ RowOK(game)
        /\ CheatDone(s)
    BY <1>1, EffectStep, InvTab DEF Trying
  <2>2. game # NoGame
    BY <2>1, RefusalFacts DEF Calls
  <2> HIDE DEF s
  <2> QED
    BY <2>1, <2>2 DEF RowOK, View, CheatDone
<1>2. Inv /\ [Next]_vars =>
        [\A t \in Tabs :
            TakesEffect(t) /\ tab[t].click = "select" /\ tab[t].armed =>
              game.mode # "DEALER" \/ game.cheated]_vars
  BY <1>1
<1> QED
  BY <1>2, InvAlways, PTL DEF Spec, ArmedSelectCheats

\* An attempt after a conflict works on a newer row than the one that was
\* refused, so that the bounded retries cannot be used up on a single change.
THEOREM RetriesAreNewer == Spec => RetryIsNewer
<1>1. ASSUME Inv, [Next]_vars, NEW t \in Tabs, tab[t].at = "answered",
             tab[t].call = "latest", tab'[t].at = "sent"
      PROVE  tab'[t].s.ver > tab[t].s.ver
  <2> DEFINE T == tab[t]
  <2>1. TabOK(T, game) /\ Receive(t)
    BY <1>1, InvTab, GoesOnStep
  <2>2. T.code = "ok" /\ tab'[t].s = T.row
    BY <1>1, <2>1, ReceiveStep DEF Moved
  <2>3. FetchingLatest(T, game)
    BY <1>1, <2>1 DEF TabOK, Trying, Attempting, Operations, Refreshing
  <2>4. T.s.ver < T.row.ver /\ T.s.ver \in Nat /\ T.row.ver \in Nat
    BY <1>1, <2>2, <2>3 DEF FetchingLatest, Known, StatusResponse
  <2> QED
    BY <2>2, <2>4
<1>2. Inv /\ [Next]_vars =>
        [\A t \in Tabs :
            tab[t].at = "answered" /\ tab[t].call = "latest" /\ tab'[t].at = "sent" =>
              tab'[t].s.ver > tab[t].s.ver]_vars
  BY <1>1
<1> QED
  BY <1>2, InvAlways, PTL DEF Spec, RetryIsNewer

=============================================================================
