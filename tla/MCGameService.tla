--------------------------- MODULE MCGameService ---------------------------
(***************************************************************************)
(* Instances of GameService for TLC.                                       *)
(***************************************************************************)
EXTENDS GameService, TLC

\* The slots serve requests alike.
Slots == Permutations(Reqs)

\* What decides how the rows of game_sessions go on.  No handler looks at the
\* history before it writes, and no property checked under this view looks at
\* the history, at the round to be logged or at the answer of an idle slot.
RowsView ==
    <<game, faults,
      [r \in Reqs |-> <<req[r].at, req[r].op, req[r].user, req[r].ver, req[r].new>>]>>

=============================================================================
