------------------------------- MODULE MCTurn --------------------------------
(***************************************************************************)
(* Instances of Turn for TLC.                                              *)
(***************************************************************************)
EXTENDS Turn

Cell(type, draw) == [type |-> type, draw |-> draw, event |-> "none"]

EventCell(e) == [type |-> "event", draw |-> "none", event |-> e]

\* Two players who may link their fates: a treasure, and the Boss.
LinksCourse ==
  0 :> Cell("normal", "none") @@ 1 :> Cell("checkpoint", "none") @@
  2 :> Cell("boss", "none")

LinksFaction == [u \in Users |-> IF u = "a" THEN "BaiHu" ELSE "QingLong"]

\* Holes, a treasure and draws of every kind on the way to the Boss.
QuestCourse ==
  0 :> Cell("normal", "none") @@ 1 :> Cell("fragile", "none") @@
  2 :> Cell("normal", "event") @@ 3 :> Cell("checkpoint", "none") @@
  4 :> EventCell("ghost_hit") @@ 5 :> Cell("fragile", "none") @@
  6 :> Cell("boss", "none")

QuestFaction == [u \in Users |-> "ZhuQue"]

==============================================================================
