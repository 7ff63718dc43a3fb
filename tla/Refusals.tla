------------------------------ MODULE Refusals ------------------------------
(***************************************************************************)
(* What each handler of backend/usecase/game_usecase.go checks before it   *)
(* writes, in the order of the code: the error code that a request is      *)
(* refused with on the row g it has read (NoGame: there is none), or "ok"  *)
(* when all checks pass.  v is the version the client sent, 0 if none.     *)
(***************************************************************************)
EXTENDS GameRules

StartRefusal(g, v) ==
    IF g.status = "IN_PROGRESS" THEN "game_already_started"
    ELSE IF g.status # "FINISHED" THEN "game_not_started"
    ELSE IF g.ver # v THEN "version_conflict"
    ELSE "ok"

SelectRefusal(g, u, sid, v) ==
    IF sid = NoGame \/ v = 0 THEN "invalid_input"
    ELSE IF g = NoGame THEN "session_not_found"
    ELSE IF sid # u THEN "forbidden"
    ELSE IF g.status # "IN_PROGRESS" THEN "game_not_started"
    ELSE IF g.ver # v THEN "version_conflict"
    ELSE IF ~Selectable(g) THEN "invalid_game_state"
    ELSE "ok"

CheatRefusal(g, v) ==
    IF v = 0 THEN "invalid_input"
    ELSE IF g = NoGame THEN "session_not_found"
    ELSE IF g.status # "IN_PROGRESS" THEN "game_not_started"
    ELSE IF g.mode # "DEALER" THEN "cheat_not_allowed"
    ELSE IF g.cheated THEN "cheat_already_used"
    ELSE IF g.ver # v THEN "version_conflict"
    ELSE IF RemainingCards(g.dealerUsedCards) = {} THEN "cheat_not_available"
    ELSE "ok"

ResetRefusal(g, v) ==
    IF v = 0 THEN "invalid_input"
    ELSE IF g = NoGame THEN "session_not_found"
    ELSE IF g.ver # v THEN "version_conflict"
    ELSE "ok"

ModeRefusal(g, m, v) ==
    IF v = 0 THEN "invalid_input"
    ELSE IF g = NoGame THEN "game_not_started"
    ELSE IF g.status # "FINISHED" THEN "game_not_finished"
    ELSE IF m \notin Modes THEN "invalid_mode"
    ELSE IF g.ver # v THEN "version_conflict"
    ELSE "ok"

=============================================================================
