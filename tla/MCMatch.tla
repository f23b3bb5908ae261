------------------------------- MODULE MCMatch -------------------------------
(***************************************************************************)
(* Small instances of Match for TLC.                                       *)
(***************************************************************************)
EXTENDS Match

CONSTANTS p1, p2, p3

\* The waiting room was opened by p1.
MCHosted == {[host |-> p1, players |-> <<p1, Boss>>]}

\* The matchmaker seated p1 and p2; there is no host.
MCMatched == {[host |-> NoPlayer, players |-> <<p1, p2, Boss>>]}

MCEither == MCHosted \cup MCMatched
=============================================================================
