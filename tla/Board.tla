-------------------------------- MODULE Board --------------------------------
(***************************************************************************)
(* The course of a match (internal/gamemap/engine.go): a strip of cells    *)
(* 0 .. Length-1 and the arithmetic of a move along it.  Everything here   *)
(* is a function of the course and of the set of fragile cells already     *)
(* broken; the state of the cells is kept by the module that moves players.*)
(*                                                                         *)
(* A cell of fog is a plain one here: that a player has been in it         *)
(* (FogActive) is only shown to clients; and a cell's draw probabilities   *)
(* are reduced to what the cell draws from.                                *)
(***************************************************************************)
EXTENDS Integers, Sequences, FiniteSets, SequencesExt

CONSTANTS
  Length,   \* MapEngine.Length
  Course    \* MapEngine.Cells: what each cell is

Cells == 0 .. (Length - 1)

CellTypes == {"normal", "event", "fog", "fragile", "checkpoint", "boss"}
DrawTypes == {"none", "event", "item", "buff"}

ASSUME LengthAssumption == Length \in Nat \ {0}
ASSUME CourseAssumption ==
  /\ DOMAIN Course = Cells
  /\ \A c \in Cells : Course[c].type \in CellTypes /\ Course[c].draw \in DrawTypes
\* Nothing gives way under the start and under the Boss.
ASSUME EndsAssumption ==
  Course[0].type # "fragile" /\ Course[Length - 1].type # "fragile"

IsFragile(c) == Course[c].type = "fragile"

IsCheckpoint(c) == Course[c].type = "checkpoint"

\* A move ends on the course: past either end it stops at the end.
Goal(start, steps) ==
  LET target == start + steps
  IN IF target >= Length THEN Length - 1 ELSE IF target < 0 THEN 0 ELSE target

\* The cells from start to goal, both included, in the direction of travel.
Cellway(start, goal) ==
  IF start <= goal THEN [i \in 1 .. (goal - start + 1) |-> start + i - 1]
                   ELSE [i \in 1 .. (start - goal + 1) |-> start - i + 1]

\* Mutant of CalculatePath: the cell a player falls through holds.
PathUnbroken(start, steps, broken) ==
  LET goal == Goal(start, steps)
      way  == Cellway(start, goal)
      hole == IsFragile(goal) /\ goal \in broken
      path == IF hole /\ Len(way) > 1 THEN Front(way) ELSE way
  IN [path     |-> path,
      target   |-> Last(path),
      original |-> start + steps,
      fell     |-> IsFragile(goal) /\ ~hole,
      breaks   |-> {c \in ToSet(Front(path)) : IsFragile(c)}]

\* CalculatePath.  A player whose move ends on an unbroken fragile cell falls
\* there; where it would end on a broken one it stops a cell short.  The
\* fragile cells of the path taken break, wherever the player is let stop.
CalculatePath(start, steps, broken) ==
  LET goal == Goal(start, steps)
      way  == Cellway(start, goal)
      hole == IsFragile(goal) /\ goal \in broken
      path == IF hole /\ Len(way) > 1 THEN Front(way) ELSE way
  IN [path     |-> path,
      target   |-> Last(path),
      original |-> start + steps,
      fell     |-> IsFragile(goal) /\ ~hole,
      breaks   |-> {c \in ToSet(path) : IsFragile(c)}]

\* GetLastCheckpoint: the last checkpoint strictly before a cell, else the start.
GetLastCheckpoint(position) ==
  LET before == {c \in 0 .. (position - 1) : IsCheckpoint(c)} \cup {0}
  IN CHOOSE c \in before : \A d \in before : d <= c

\* Mutant of CheckpointsIn: the cell next to the first is skipped.
CheckpointsBeyond(path) == {i \in 3 .. Len(path) : IsCheckpoint(path[i])}

\* findFirstCheckpointInPath: the checkpoints met after leaving the first cell.
CheckpointsIn(path) == {i \in 2 .. Len(path) : IsCheckpoint(path[i])}

FirstCheckpoint(path) ==
  path[CHOOSE i \in CheckpointsIn(path) : \A j \in CheckpointsIn(path) : i <= j]
==============================================================================
