--------------------------- MODULE MCStatsLedger ----------------------------
(***************************************************************************)
(* StatsLedger on small instances, watched by a history variable: which of *)
(* two circumstances have obtained in every state so far.  It restricts    *)
(* nothing: properties that need a circumstance say so.                    *)
(***************************************************************************)
EXTENDS StatsLedger, TLC

VARIABLE kept

(* No request works on a copy of the row that is not the stored row: none  *)
(* overlapped with another's write, and no read failed.                    *)
Current == \A r \in Requests : phase[r] = "read" => row[r] = stats

(* No request has been under way over midnight since it took its date, and *)
(* none is a practice session without an answer.                           *)
Punctual == \A r \in InFlight : credit[r].active /\ now[r] \in {NoDay, day}

Circumstances == {c \in {"current", "punctual"} :
                    CASE c = "current" -> Current [] c = "punctual" -> Punctual}

MCInit == Init /\ kept = {"current", "punctual"}
MCNext == Next /\ kept' = kept \cap Circumstances'
MCSpec == MCInit /\ [][MCNext]_<<vars, kept>>

(* As long as no request worked on an outdated row, everything earned is   *)
(* on the stored one: the exam's comment (mock_exam_usecase.go:219) that   *)
(* its answers "count towards accuracy like any other", for all writers.   *)
NothingLostWhileCurrent == "current" \in kept => NothingLost

(* As long as no request straddled midnight or was empty, a streak of n is *)
(* a run of n consecutive active days, whatever requests of a day overlap, *)
(* fail or die.                                                            *)
StreakIsConsecutiveWhilePunctual == "punctual" \in kept => StreakIsConsecutive

(* What a request that is over once held is never looked at again, so two  *)
(* states that differ only in that are the same to TLC.                    *)
Live ==
  <<day, stats, phase, activeDays, earned, kept,
    [r \in InFlight |-> <<kind[r], credit[r], now[r], row[r]>>]>>

(* Requests are only ever compared, and no property names one. *)
RequestSymmetry == Permutations(Requests)
=============================================================================
