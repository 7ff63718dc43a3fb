---------------------------- MODULE MCRateLimit ----------------------------
(***************************************************************************)
(* Instances of RateLimit for TLC.                                         *)
(***************************************************************************)
EXTENDS RateLimit, TLC

\* The slots serve requests alike.
Slots == Permutations(Reqs)

\* What decides how the buckets go on: without the history variables and the
\* answers, which no action reads.  For state properties that do not mention
\* them, and for action properties, which TLC evaluates on every step it takes.
BucketView ==
    <<clock, bucket, [r \in Reqs |-> <<req[r].asked, req[r].due, req[r].now>>]>>

=============================================================================
