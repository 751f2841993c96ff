-------------------------- MODULE MCPracticeSession --------------------------
(***************************************************************************)
(* PracticeSession on small instances, watched by a history variable that  *)
(* remembers whether completions of a session have never overlapped, died  *)
(* half way, or failed to complete it.  It restricts nothing: properties   *)
(* that need it say so.                                                    *)
(***************************************************************************)
EXTENDS PracticeSession, TLC

VARIABLE orderly

Orderly ==
  \A s \in Sessions :
    /\ Cardinality({r \in Running : ask[r].session = s}) <= 1
    /\ \A r \in Requests :
         pc[r] = "settled" /\ ask[r].session = s => status[s] = "completed"

MCInit == Init /\ orderly = TRUE
MCNext == Next /\ orderly' = (orderly /\ Orderly')
MCSpec == MCInit /\ [][MCNext]_<<vars, orderly>>

(* Whatever interleaves, a completion counts what the learner answered,    *)
(* and a completed session stores what one completion counted.             *)
CountsAreOfAnswers == TallyIsWhatWasAnswered /\ StoredCountsWereTallied

(* As long as completions of a session have not overlapped or broken off   *)
(* it is paid for at most once, and its replies tell the same counts and   *)
(* its XP and streak at most once, although answers are still taken in     *)
(* between.  A learner who lost the first reply never reads his gain.      *)
OrderlyCompletions == orderly => PaidAtMostOnce /\ RepeatsTellNoGain

(* Questions and requests are only ever compared. *)
Symmetry == Permutations(Questions) \cup Permutations(Requests)
=============================================================================
