------------------------------ MODULE MCScores ------------------------------
(* Instances of Scores for TLC. *)
EXTENDS Scores

CONSTANTS a, b

\* One of the users is first and the other second.
WonAndLost == {[u \in Users |-> IF u = w THEN 1 ELSE 2] : w \in Users}
=============================================================================
