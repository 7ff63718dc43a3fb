------------------------------- MODULE Client -------------------------------
(***************************************************************************)
(* The browser client, frontend/01/src/App.tsx: what a click on one of its *)
(* buttons does to the game, when the same user has several tabs open.     *)
(*                                                                         *)
(* A click runs to its end before the tab takes the next (the buttons are  *)
(* disabled while it loads), as a chain of API calls: the operation, which *)
(* is repeated on the newest row after a version_conflict, and then the    *)
(* status.  Each call is served in one step on the row of the user, as     *)
(* GameServiceProofs shows that requests are; the reply may be received    *)
(* much later, and other tabs change the row before and after.             *)
(***************************************************************************)
EXTENDS Refusals

CONSTANTS
    Tabs,       \* open tabs of one user
    MaxClicks,  \* bound on the clicks on buttons
    MaxFaults   \* bound on calls that fail

ASSUME ClientAssumption ==
    /\ NumCards >= 3
    /\ MaxClicks \in Nat
    /\ MaxFaults \in Nat

VARIABLES
    game,    \* the row of the user, or NoGame
    tab,     \* tab[t]: the state of the component App in tab t
    clicks,  \* clicks on buttons so far
    faults   \* failures so far

vars == <<game, tab, clicks, faults>>

\* What a StatusResponse tells of a row.
View(g) ==
    IF g = NoGame
    THEN [status |-> "NOT_STARTED", mode |-> "PLAYER", ver |-> 0,
          cheated |-> FALSE, cheatReserved |-> FALSE]
    ELSE [status |-> g.status, mode |-> g.mode, ver |-> g.ver,
          cheated |-> g.cheated, cheatReserved |-> g.cheatReserved]

StatusResponse ==
    [status : Statuses, mode : Modes, ver : Nat,
     cheated : BOOLEAN, cheatReserved : BOOLEAN]

\* The state `status' before the first answer.
NoStatus == [View(NoGame) EXCEPT !.status = "NO_STATUS"]

Shown == StatusResponse \cup {NoStatus}

\* "load" stands for the button that refreshes the status and for the fetch
\* when the component is mounted.
Clicks == {"load", "start", "select", "reset", "mode"}

\* "latest" is the status fetched after a conflict, "refresh" the one at the end.
Calls == {"start", "select", "cheat", "reset", "mode", "latest", "refresh"}

Codes == {"ok", "failed", "internal_error", "invalid_input", "session_not_found",
          "forbidden", "game_not_started", "game_already_started",
          "game_not_finished", "invalid_game_state", "invalid_mode",
          "cheat_not_allowed", "cheat_already_used", "cheat_not_available",
          "version_conflict"}

\* at           : between calls of a click, or not in one
\* click, call  : the button and the API call that it has come to
\* attempt      : how often the operation has been tried
\* s            : the status that the operation is tried on
\* armed        : cheatPending at the click, as its closure sees it
\* code, row    : the reply
\* shown        : the state `status'
\* cheatPending : the state of that name
\* done         : history only: how often the clicked operation has taken effect
Tab ==
    [at           : {"ready", "sent", "answered"},
     click        : Clicks,
     call         : Calls,
     attempt      : 0 .. 3,
     s            : Shown,
     armed        : BOOLEAN,
     code         : Codes,
     row          : StatusResponse,
     shown        : Shown,
     cheatPending : BOOLEAN,
     done         : Nat]

Ready(shown, pending) ==
    [at |-> "ready", click |-> "load", call |-> "refresh", attempt |-> 0,
     s |-> NoStatus, armed |-> FALSE, code |-> "ok", row |-> View(NoGame),
     shown |-> shown, cheatPending |-> pending, done |-> 0]

\* A finished set in dealer mode, and the one begun after it.
FinishedSet ==
    LET first == PlayRound(NewGame, NumCards, NumCards - 1)
    IN  SetMode(PlayRound(first, NumCards - 1, NumCards - 2), "DEALER")

DealerSet == FreshSet(FinishedSet)

\* The tabs are opened at one of several moments of the game.
Init ==
    /\ game \in {NoGame, FinishedSet, DealerSet}
    /\ tab = [t \in Tabs |-> Ready(NoStatus, FALSE)]
    /\ clicks = 0
    /\ faults = 0

-----------------------------------------------------------------------------
(* The component. *)

CanStart(s) == s.status \in {"NOT_STARTED", "FINISHED"}
CanSelect(s) == s.status = "IN_PROGRESS"
CanCheat(s) == s.status = "IN_PROGRESS" /\ s.mode = "DEALER"
CanChangeMode(s) == s.status = "FINISHED"
CanResetSet(s) == s.ver > 0

Enabled(click, s) ==
    CASE click = "load"   -> TRUE
      [] click = "start"  -> CanStart(s)
      [] click = "select" -> CanSelect(s)
      [] click = "reset"  -> CanResetSet(s)
      [] click = "mode"   -> CanChangeMode(s)

\* Faulty variant: the cheat is not repeated with the select.
CheatsFirstOnce(T, s) ==
    T.attempt = 1 /\ T.armed /\ s.mode = "DEALER" /\ ~s.cheated /\ ~s.cheatReserved

\* The click on select is to reserve the cheat before it plays.
CheatsFirst(T, s) ==
    T.armed /\ s.mode = "DEALER" /\ ~s.cheated /\ ~s.cheatReserved

Call(T, call) == [T EXCEPT !.at = "sent", !.call = call, !.row = View(NoGame)]

\* The status is fetched for the last time; nothing else of the click matters.
Refresh(T) ==
    Call([T EXCEPT !.s = NoStatus, !.attempt = 0, !.armed = FALSE], "refresh")

\* Tab T tries its operation, which begins with the cheat if that is due.
Try(T, s) ==
    Call([T EXCEPT !.s = s],
         IF T.click = "select" /\ CheatsFirst(T, s) THEN "cheat" ELSE T.click)

\* setStatus, and the effect that drops a pending cheat which has no use any more.
SetStatus(T, s) ==
    [T EXCEPT !.shown = s, !.cheatPending = @ /\ CanCheat(s)]

End(T) == Ready(T.shown, T.cheatPending)

Click(t, click) ==
    LET T == [tab[t] EXCEPT !.click = click, !.armed = tab[t].cheatPending, !.attempt = 1]
    IN  /\ tab[t].at = "ready"
        /\ Enabled(click, tab[t].shown)
        /\ clicks' = IF tab[t].shown = NoStatus THEN clicks ELSE clicks + 1
        /\ clicks' <= MaxClicks
        /\ tab' = [tab EXCEPT ![t] = IF click = "load" THEN Refresh(T) ELSE Try(T, T.shown)]
        /\ UNCHANGED <<game, faults>>

\* The cheat button only arms the next select.
ToggleCheat(t) ==
    /\ tab[t].at = "ready"
    /\ CanCheat(tab[t].shown) /\ ~tab[t].shown.cheated
    /\ tab' = [tab EXCEPT ![t].cheatPending = ~@]
    /\ UNCHANGED <<game, clicks, faults>>

Attempts(click) == IF click = "reset" THEN 3 ELSE 2

\* Faulty variant: a call without an answer is repeated like a refused one.
RetryLost(T) == T.code \in {"version_conflict", "failed"} /\ T.call # "refresh"

Retryable(T) == T.code = "version_conflict"

\* Faulty variant: the same request is repeated, and not counted.
TryAgain(T, s) == Try(T, T.s)

\* Faulty variant: only the version of the newest status is used.
TryNewVersion(T, s) ==
    Try([T EXCEPT !.attempt = @ + 1], [T.s EXCEPT !.ver = s.ver])

\* The operation is tried once more, on the newest status.
TryLatest(T, s) == Try([T EXCEPT !.attempt = @ + 1], s)

\* The last attempt was refused: runWithVersionRetry gives up at once, the
\* loop of onResetSet after it has fetched the status.
GivesUp(T) == T.attempt = Attempts(T.click)

\* Faulty variant: the status fetched for the retry is not displayed.
AfterLatestUnseen(T) ==
    IF GivesUp(T) THEN End(T) ELSE TryLatest(T, T.row)

AfterLatest(T) ==
    LET U == SetStatus(T, T.row)
    IN  IF GivesUp(T) THEN End(U) ELSE TryLatest(U, T.row)

\* The call went well.
AfterOk(T) ==
    CASE T.call = "cheat" ->
           Call([T EXCEPT !.s = [@ EXCEPT !.ver = T.row.ver, !.cheated = TRUE,
                                          !.cheatReserved = TRUE]], "select")
      [] T.call \in {"start", "mode"} -> Refresh(T)
      [] T.call = "select"  -> Refresh([T EXCEPT !.cheatPending = FALSE])
      [] T.call = "reset"   ->
           Refresh(SetStatus([T EXCEPT !.cheatPending = FALSE], T.row))
      [] T.call = "latest"  -> AfterLatest(T)
      [] T.call = "refresh" -> End(SetStatus(T, T.row))

\* The call was refused or failed.
AfterError(T) ==
    IF Retryable(T) /\ (T.click = "reset" \/ ~GivesUp(T)) THEN Call(T, "latest") ELSE End(T)

Receive(t) ==
    LET T == tab[t]
    IN  /\ T.at = "answered"
        /\ tab' = [tab EXCEPT ![t] = IF T.code = "ok" THEN AfterOk(T) ELSE AfterError(T)]
        /\ UNCHANGED <<game, clicks, faults>>

-----------------------------------------------------------------------------
(* The server. *)

\* The mode asked for by a client that sees s.
NextMode(s) == IF s.mode = "PLAYER" THEN "DEALER" ELSE "PLAYER"

Me == "user"

Refusal(call, s) ==
    CASE call = "start"  -> IF game = NoGame THEN "ok" ELSE StartRefusal(game, s.ver)
      [] call = "select" ->
           SelectRefusal(game, Me, IF s.ver = 0 THEN NoGame ELSE Me, s.ver)
      [] call = "cheat"  -> CheatRefusal(game, s.ver)
      [] call = "reset"  -> ResetRefusal(game, s.ver)
      [] call = "mode"   -> ModeRefusal(game, NextMode(s), s.ver)
      [] OTHER           -> "ok"

\* The rows that an accepted call may leave.
Effects(call, s) ==
    CASE call = "start"  -> {IF game = NoGame THEN NewGame ELSE FreshSet(game)}
      [] call = "select" -> {PlayRound(game, p, d) :
                               p \in RemainingCards(game.playerUsedCards),
                               d \in DealerChoices(game)}
      [] call = "cheat"  -> {ReserveCheat(game)}
      [] call = "reset"  -> {FreshSet(game)}
      [] call = "mode"   -> {SetMode(game, NextMode(s))}
      [] OTHER           -> {game}

\* The call takes effect, and the reply has this code.
Accept(t, code) ==
    LET T == tab[t]
    IN  /\ T.at = "sent"
        /\ Refusal(T.call, T.s) = "ok"
        /\ game' \in Effects(T.call, T.s)
        /\ tab' = [tab EXCEPT
                     ![t] = [T EXCEPT !.at = "answered", !.code = code,
                                      !.row = IF code = "ok" THEN View(game') ELSE @,
                                      !.done = IF T.call = T.click THEN @ + 1 ELSE @]]

\* The call has no effect.
Refuse(t, code) ==
    /\ tab[t].at = "sent"
    /\ tab' = [tab EXCEPT ![t].at = "answered", ![t].code = code]
    /\ UNCHANGED game

\* A handler that has read the row earlier finds it changed when it writes: the
\* UPDATE fails for its version, or the INSERT of a first start for the index.
Overtaken(T) ==
    IF T.s.ver = 0 THEN "internal_error" ELSE "version_conflict"

Serve(t) ==
    LET T == tab[t]
    IN  /\ \/ Accept(t, "ok")
           \/ /\ Refusal(T.call, T.s) # "ok"
              /\ \/ Refuse(t, Refusal(T.call, T.s))
                 \/ game # NoGame /\ game.ver # T.s.ver /\ Refuse(t, Overtaken(T))
        /\ UNCHANGED <<clicks, faults>>

\* The call fails in the server or in the network, before or after it has taken effect.
Fail(t) ==
    /\ faults < MaxFaults
    /\ faults' = faults + 1
    /\ Accept(t, "failed") \/ Refuse(t, "failed")
    /\ UNCHANGED clicks

Next ==
    \E t \in Tabs :
        \/ \E click \in Clicks : Click(t, click)
        \/ ToggleCheat(t)
        \/ Receive(t)
        \/ Serve(t)
        \/ Fail(t)

Spec == Init /\ [][Next]_vars

\* Calls are answered or fail, and the event loop of a tab runs.
Fairness == \A t \in Tabs : WF_vars(Serve(t)) /\ WF_vars(Receive(t))

FairSpec == Spec /\ Fairness

-----------------------------------------------------------------------------

\* Type correctness.
TypeOK ==
    /\ game \in GameRecord \cup {NoGame}
    /\ tab \in [Tabs -> Tab]
    /\ clicks \in 0 .. MaxClicks
    /\ faults \in 0 .. MaxFaults

Ends(t) == tab[t].at # "ready" /\ tab'[t].at = "ready"

\* How a click that ends now ends for the user.
Outcome(T) == IF T.call = "latest" /\ T.code = "ok" THEN "version_conflict" ELSE T.code

\* A click that ends well has had the effect of its operation exactly once, and
\* one that ends with a refusal has had none, retries included (a cheat that its
\* select has reserved before stays); if a call fails the user cannot know, but
\* it was not done twice.
ClickEffect ==
    [][\A t \in Tabs :
          LET T == tab[t]
          IN  Ends(t) /\ T.click # "load" =>
                /\ T.done <= 1
                /\ Outcome(T) = "ok" => T.done = 1
                /\ Outcome(T) \notin {"ok", "failed"} => T.done = 0]_vars

\* The operation clicked in tab t takes effect now.
TakesEffect(t) == tab'[t].done > tab[t].done

\* What the row looks like to a tab that has just reserved the cheat.
Reserved(s) == [s EXCEPT !.ver = @ + 1, !.cheated = TRUE, !.cheatReserved = TRUE]

\* A click only ever changes a row that its tab displays at that moment, or that
\* has only changed by the cheat of the same click; a retry does not act behind
\* the back of its user.
ActsOnShownRow ==
    [][\A t \in Tabs :
          TakesEffect(t) =>
            \/ View(game) = tab[t].shown
            \/ tab[t].armed /\ View(game) = Reserved(tab[t].shown)]_vars

\* A click on the mode button that is accepted switches the mode, also when it
\* is repeated after another tab has switched it.
ModeClickSwitches ==
    [][\A t \in Tabs :
          TakesEffect(t) /\ tab[t].click = "mode" => game'.mode # game.mode]_vars

\* An armed select never plays a round in which the cheat was still to be had.
ArmedSelectCheats ==
    [][\A t \in Tabs :
          TakesEffect(t) /\ tab[t].click = "select" /\ tab[t].armed =>
            game.mode # "DEALER" \/ game.cheated]_vars

\* Each retry works on a newer row than the attempt that was refused: the same
\* row is never refused twice.
RetryIsNewer ==
    [][\A t \in Tabs :
          tab[t].at = "answered" /\ tab[t].call = "latest" /\ tab'[t].at = "sent" =>
            tab'[t].s.ver > tab[t].s.ver]_vars

\* Every click ends, so that the buttons of its tab come back, however other
\* tabs interfere and whichever calls fail.
ClickEnds == \A t \in Tabs : tab[t].at # "ready" ~> tab[t].at = "ready"

=============================================================================
