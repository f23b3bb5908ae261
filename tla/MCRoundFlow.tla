----------------------------- MODULE MCRoundFlow -----------------------------
(***************************************************************************)
(* Small instances of RoundFlow for TLC.                                   *)
(***************************************************************************)
EXTENDS RoundFlow

CONSTANTS p1, p2, p3

\* The waiting room was opened by p1; the others join behind the Boss.
MCHosted == {[host |-> p1, players |-> <<p1, Boss>>]}

\* The matchmaker created the match: the Boss is last, and there is no host.
MCMatched == {[host |-> NoPlayer, players |-> <<p1, p2, Boss>>]}

MCEither == MCHosted \cup MCMatched
=============================================================================
