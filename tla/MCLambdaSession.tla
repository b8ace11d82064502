--------------------------- MODULE MCLambdaSession ---------------------------
(***************************************************************************)
(* The session for TLC: attempts, polls and posts are interchangeable.     *)
(***************************************************************************)
EXTENDS LambdaSession, TLC

Symmetry == Permutations(Attempts) \cup Permutations(Polls) \cup Permutations(Posts)
=============================================================================
