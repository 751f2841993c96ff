--------------------------- MODULE LearnerProgress ---------------------------
(***************************************************************************)
(* The mock exams and the practice sessions of one learner at once: two    *)
(* use cases that have nothing in common but the rows they write, those of *)
(* user_stats and user_mistakes.  Together they keep the learner's         *)
(* progress as StatsLedger says requests do.                               *)
(***************************************************************************)
EXTENDS LearnerStats, FiniteSets

CONSTANTS
  Exams, ExamRequests, ExamQuestionCount, ExamPassCount, MaxSubmits, ExamFaults,
  Sessions, PracticeRequests, MaxRunning, PracticeFaults,
  Questions, MaxDay

ASSUME ProgressAssumption ==
  /\ IsFiniteSet(ExamRequests) /\ IsFiniteSet(PracticeRequests)
  /\ ExamRequests \cap PracticeRequests = {}
  /\ IsFiniteSet(Questions)
  /\ ExamPassCount \in Nat

VARIABLES
  \* what the two share
  queued, stats, day, activeDays, earned,
  \* MockExam's own
  examStatus, examPaper, examAnswers, flags, result, expired,
  examPc, examAsk, examKnown, snap, at, examNow, examRow, examReply,
  \* PracticeSession's own
  status, paper, answers, stored, paid, pc, ask, known, tally, now, row, reply

Exam == INSTANCE MockExam WITH
  Requests <- ExamRequests, Faults <- ExamFaults, status <- examStatus, paper <- examPaper,
  answers <- examAnswers, pc <- examPc, ask <- examAsk, known <- examKnown, now <- examNow,
  row <- examRow, reply <- examReply

Practice == INSTANCE PracticeSession WITH Requests <- PracticeRequests, Faults <- PracticeFaults

examOwn     == <<examStatus, examPaper, examAnswers, flags, result, expired, examPc, examAsk,
                 examKnown, snap, at, examNow, examRow, examReply>>
practiceOwn == <<status, paper, answers, stored, paid, pc, ask, known, tally, now, row, reply>>
vars        == <<queued, stats, day, activeDays, earned, examOwn, practiceOwn>>

Init == Exam!Init /\ Practice!Init

Next ==
  \/ Exam!Next /\ UNCHANGED practiceOwn
  \/ Practice!Next /\ UNCHANGED examOwn

Spec == Init /\ [][Next]_vars

(* Go runs a goroutine that can run, if not every one at once: a request   *)
(* takes a bounded number of steps, so each comes to its end.              *)
Serve ==
  \/ \E r \in ExamRequests : Exam!Serve(r) /\ UNCHANGED practiceOwn
  \/ \E r \in PracticeRequests : Practice!Serve(r) /\ UNCHANGED examOwn

Fairness == WF_vars(Serve)

-----------------------------------------------------------------------------
Requests  == ExamRequests \cup PracticeRequests
IsExam(r) == r \in ExamRequests
InLedger(r) == IF IsExam(r) THEN Exam!InLedger(r) ELSE Practice!InLedger(r)

Ledger == INSTANCE StatsLedger WITH
  Kinds       <- {"exam", "practice"},
  MaxAnswers  <- Cardinality(Questions),
  MaxInFlight <- Cardinality(Requests) + 1,
  Faults      <- {"read", "write", "crash", "midnight"},
  phase  <- [r \in Requests |-> IF IsExam(r) THEN Exam!LedgerPhase(r) ELSE Practice!LedgerPhase(r)],
  kind   <- [r \in Requests |-> IF ~ InLedger(r) THEN "sync"
                                ELSE IF IsExam(r) THEN "exam" ELSE "practice"],
  credit <- [r \in Requests |-> IF ~ InLedger(r) THEN SyncCredit(FALSE)
                                ELSE IF IsExam(r) THEN Exam!CreditOf(r) ELSE Practice!CreditOf(r)],
  now    <- [r \in Requests |-> IF IsExam(r) THEN IF InLedger(r) THEN examNow[r] ELSE NoDay
                                             ELSE now[r]],
  row    <- [r \in Requests |-> IF IsExam(r) THEN examRow[r] ELSE row[r]]

(* Exams and practice sessions, alone and against each other on one row of *)
(* user_stats, implement the abstract progress keeping: what holds of the  *)
(* ledger under every fault (RowConsistent, NeverOverCredited,             *)
(* StreakEarned) holds of them.                                            *)
KeepsTheLedger == Ledger!Spec

(* A submission that finds its exam in progress leaves it completed, or    *)
(* its client learns of an error or loses the connection.                  *)
SubmissionCompletes == Exam!SubmissionCompletes

(* The same of a practice session's completion.                            *)
CompletionCompletes == Practice!CompletionCompletes
=============================================================================
