---------------------------- MODULE MCAtomicGame ----------------------------
(***************************************************************************)
(* Instances of AtomicGame for TLC.                                        *)
(***************************************************************************)
EXTENDS AtomicGame

\* Cuts the choices of a 13-card game down to those in which the cards are
\* turned up in order: together the hands always hold the cards 1 .. n.
InOrder ==
    \A u \in Users :
        game[u] # NoGame =>
          LET shown == game[u].playerUsedCards \cup game[u].dealerUsedCards
          IN  /\ shown = {} \/ shown = 1 .. MaxInt(shown)
              /\ Cardinality(shown) <= Cardinality(game[u].playerUsedCards) + 1

=============================================================================
