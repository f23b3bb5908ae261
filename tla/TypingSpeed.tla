---------------------------- MODULE TypingSpeed -----------------------------
(***************************************************************************)
(* TypingSpeedRoom.ts: who types the text first.  A player's percentage    *)
(* grows with what is typed and tells nothing more.  Of Date.now() only    *)
(* the order matters: a text is finished in the millisecond of the last    *)
(* one that was, or later.                                                 *)
(***************************************************************************)
EXTENDS Room

CONSTANT TextLength
ASSUME TypingAssumption == TextLength \in Nat \ {0}

VARIABLES
  typed,       \* typedCount
  finishTime   \* finishTimeMs, 0 for who has not finished

Completed(p) == finishTime[p] > 0

\* Who has finished is before who has not; the earlier, then the further.
TypingStanding ==
  Ranks([p \in Players |->
           {q \in Players :
              \/ Completed(q) /\ ~Completed(p)
              \/ Completed(q) /\ Completed(p) /\ finishTime[q] < finishTime[p]
              \/ ~Completed(q) /\ ~Completed(p) /\ typed[q] > typed[p]}])

TypingCreate(p) ==
  /\ Create(p, "rules")
  /\ UNCHANGED <<ready, round, choice, result, callback, typed, finishTime>>

\* The time of the latest text finished.
Latest == CHOOSE t \in {finishTime[p] : p \in Players} \cup {0} :
            \A p \in Players : finishTime[p] <= t

\* Mutant of SubmitProgress: progress is still taken when the game is over.
SubmitProgressLate(p, n) ==
  /\ phase \in {"playing", "finished"} /\ p \in present
  /\ n > typed[p] /\ n <= TextLength
  /\ typed' = [typed EXCEPT ![p] = n]
  /\ \/ n < TextLength /\ UNCHANGED finishTime
     \/ /\ n = TextLength
        /\ \E t \in {Latest, Latest + 1} \ {0} : finishTime' = [finishTime EXCEPT ![p] = t]
  /\ \/ (\A q \in Players : Completed(q)') /\ Finish(TypingStanding')
     \/ /\ \E q \in Players : ~Completed(q)'
        /\ UNCHANGED <<phase, result, callback, clock>>
  /\ UNCHANGED <<present, ready, round, choice>>

\* submit_progress: forward only, and no further than the text.
SubmitProgress(p, n) ==
  /\ phase = "playing" /\ p \in present
  /\ n > typed[p] /\ n <= TextLength
  /\ typed' = [typed EXCEPT ![p] = n]
  /\ \/ n < TextLength /\ UNCHANGED finishTime
     \/ /\ n = TextLength
        /\ \E t \in {Latest, Latest + 1} \ {0} : finishTime' = [finishTime EXCEPT ![p] = t]
  /\ \/ (\A q \in Players : Completed(q)') /\ Finish(TypingStanding')
     \/ /\ \E q \in Players : ~Completed(q)'
        /\ UNCHANGED <<phase, result, callback, clock>>
  /\ UNCHANGED <<present, ready, round, choice>>

\* Neither startCountdownPhase nor startPlaying asks for the phase.
TypingTimer ==
  /\ \/ /\ "rules" \in timers /\ Enter("countdown", timers)
        /\ UNCHANGED <<result, callback>>
     \/ /\ "countdown" \in timers /\ Enter("playing", timers)
        /\ UNCHANGED <<result, callback>>
     \/ "playing" \in timers /\ Finish(TypingStanding)
  /\ UNCHANGED <<present, ready, round, choice, typed, finishTime>>

TypingForceFinish ==
  /\ SafetyTimeout /\ InPlay
  /\ Finish(TypingStanding)
  /\ UNCHANGED <<present, ready, round, choice, typed, finishTime>>

TypingNext ==
  \/ \E p \in Players : TypingCreate(p)
  \/ \E p \in Players, n \in 1 .. TextLength : SubmitProgress(p, n)
  \/ TypingTimer \/ TypingForceFinish
=============================================================================
