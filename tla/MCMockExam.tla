----------------------------- MODULE MCMockExam -----------------------------
(***************************************************************************)
(* MockExam on small instances, watched by a history variable that         *)
(* remembers whether the client has always waited for the answer to one    *)
(* submission of an exam before it sent the next, and no CompleteExam has  *)
(* failed.  It restricts nothing: properties that need it say so.          *)
(***************************************************************************)
EXTENDS MockExam, TLC

VARIABLE orderly

Orderly ==
  \A e \in Exams :
    /\ Cardinality(Submitters(e) \cap Running) <= 1
    /\ \A r \in Submitters(e) : LedgerPhase(r) # "idle" => status[e] = "completed"

MCInit == Init /\ orderly = TRUE
MCNext == Next /\ orderly' = (orderly /\ Orderly')
MCSpec == MCInit /\ [][MCNext]_<<vars, orderly>>

(* "Grades the attempt exactly once", as long as submissions of an exam    *)
(* have not overlapped: an exam is credited at most once, even when a      *)
(* process dies half way and the client submits again; and the             *)
(* per-question verdicts of a completed exam add up to its stored grade,   *)
(* also when a submission that died has set some of them before.           *)
OrderlyExams == orderly => GradedAtMostOnce /\ FlagsAddUp

(* Questions and requests are only ever compared. *)
Symmetry == Permutations(Questions) \cup Permutations(Requests)
=============================================================================
