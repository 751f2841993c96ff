------------------------------ MODULE MockExam ------------------------------
(***************************************************************************)
(* The mock exams of one learner: MockExamUsecase over the Postgres        *)
(* MockExamRepository.  A request is one HTTP call running in its own      *)
(* goroutine; every repository call is a step of its own, because no       *)
(* transaction spans two of them, so the requests interleave there.        *)
(*                                                                         *)
(* An answer is abstracted to whether it is right; the exam clock to       *)
(* whether the deadline has passed; the learner's review queue to the set  *)
(* of questions in it; the row of user_stats is that of LearnerStats.      *)
(***************************************************************************)
EXTENDS LearnerStats, FiniteSets, Sequences

CONSTANTS
  Exams,              \* exams the learner may create
  Questions,          \* the published questions of the pack
  Requests,           \* HTTP calls on those exams
  ExamQuestionCount,  \* cfg.Rules.ExamQuestionCount
  ExamPassCount,      \* cfg.Rules.ExamPassCount
  MaxDay,             \* the calendar stops here
  MaxSubmits,         \* how many submissions may be running at once
  Faults              \* what may go wrong: a subset of AllFaults

(* A repository call that fails and is reported ("call"); one whose error  *)
(* is ignored, named for what it writes or reads; a process that dies; and *)
(* midnight while a submission runs.                                       *)
AllFaults == {"call", "mistake", "flag", "complete", "read", "write",
              "crash", "midnight"}

ASSUME ExamAssumption ==
  /\ IsFiniteSet(Questions) /\ Questions # {}
  /\ IsFiniteSet(Requests) /\ IsFiniteSet(Exams)
  /\ ExamQuestionCount \in Nat \ {0}
  /\ ExamPassCount \in Nat
  /\ MaxDay \in Nat
  /\ MaxSubmits \in Nat \ {0}
  /\ Faults \subseteq AllFaults

VARIABLES
  \* the database
  status,      \* of each exam
  paper,       \* its questions, in order
  answers,     \* selected_choice_id of each question
  flags,       \* is_correct of each question
  result,      \* correct_count, score_percent and passed, or NoResult
  queued,      \* the questions in the learner's review queue
  stats,       \* the learner's row of user_stats
  \* the clocks
  expired,     \* whether an exam's deadline has passed
  day,         \* the date
  \* the requests
  pc,          \* where each request is
  ask,         \* what it asks for, fixed from the start
  known,       \* history: the exam as it stood when the request arrived
  snap,        \* the answers a submission grades
  at,          \* the position of the question it grades next
  now,         \* the date it took as its own
  row,         \* the stats row it read
  reply,       \* what the client was told
  \* histories StatsLedger speaks of
  activeDays, earned

exams    == <<status, paper, answers, flags, result>>
ledger   == <<stats, activeDays, earned>>
clocks   == <<expired, day>>
locals   == <<snap, at, now, row>>
vars     == <<exams, queued, ledger, clocks, pc, ask, known, locals, reply>>

Days     == 0 .. MaxDay
NoResult == [correct |-> 0, score |-> 0, passed |-> FALSE]
Choices  == {"right", "wrong"}
Blank    == [q \in Questions |-> "unanswered"]

Answers  == [op: {"answer"}, exam: Exams, question: Questions, choice: Choices]
Submits  == [op: {"submit"}, exam: Exams]

(* The draws GetRandomQuestions can return: that many different questions, *)
(* or the whole bank when it is smaller, in any order.                     *)
PaperSize ==
  IF Cardinality(Questions) < ExamQuestionCount THEN Cardinality(Questions)
                                                ELSE ExamQuestionCount
Papers ==
  {p \in [1 .. PaperSize -> Questions] :
     \A i, j \in 1 .. PaperSize : p[i] = p[j] => i = j}

OnPaper(e) == {paper[e][i] : i \in DOMAIN paper[e]}

(***************************************************************************)
(* Grading.                                                                *)
(***************************************************************************)
Right(e, s)    == {q \in OnPaper(e) : s[q] = "right"}
Answered(e, s) == {q \in OnPaper(e) : s[q] # "unanswered"}

Grade(e, s) ==
  LET correct == Cardinality(Right(e, s))
  IN  [correct |-> correct,
       score   |-> ScorePercent(correct, Len(paper[e])),
       passed  |-> correct >= ExamPassCount]

(* A question is a gap unless it was answered, and answered correctly. *)
IsGap_OnlyAnswered(s, q) == s[q] = "wrong"
IsGap(s, q)              == s[q] # "right"

Verdict_AnyAnswer(s, q) == IF s[q] # "unanswered" THEN "right" ELSE "wrong"
Verdict(s, q)           == IF IsGap(s, q) THEN "wrong" ELSE "right"

(* The grade a submission stores: of the answers it loaded at the start. *)
GradeOf_Reloaded(r) == Grade(ask[r].exam, answers[ask[r].exam])
GradeOf(r)          == Grade(ask[r].exam, snap[r])

CreditOf(r) ==
  LET e == ask[r].exam
  IN  ExamCredit(Cardinality(Answered(e, snap[r])), Cardinality(Right(e, snap[r])),
                 Cardinality(Right(e, snap[r])) >= ExamPassCount)

Nothing == [answered |-> 0, correct |-> 0, xp |-> 0, exams |-> 0, passed |-> 0]

Init ==
  /\ status = [e \in Exams |-> "none"]
  /\ paper = [e \in Exams |-> <<>>]
  /\ answers = [e \in Exams |-> Blank]
  /\ flags = [e \in Exams |-> Blank]
  /\ result = [e \in Exams |-> NoResult]
  /\ queued = {}
  /\ stats = FreshRow
  /\ expired = [e \in Exams |-> FALSE]
  /\ day = 0
  /\ pc = [r \in Requests |-> "idle"]
  /\ ask \in [Requests -> Answers \cup Submits]
  /\ known = [r \in Requests |-> [status |-> "none", acked |-> {}]]
  /\ snap = [r \in Requests |-> Blank]
  /\ at = [r \in Requests |-> 1]
  /\ now = [r \in Requests |-> NoDay]
  /\ row = [r \in Requests |-> FreshRow]
  /\ reply = [r \in Requests |-> "none"]
  /\ activeDays = {}
  /\ earned = Nothing

-----------------------------------------------------------------------------
(***************************************************************************)
(* CreateExam: the exam and its questions are inserted in one transaction. *)
(***************************************************************************)
CreateExam(e) ==
  /\ status[e] = "none"
  /\ status' = [status EXCEPT ![e] = "in_progress"]
  /\ \E p \in Papers : paper' = [paper EXCEPT ![e] = p]
  /\ UNCHANGED <<answers, flags, result, queued, ledger, clocks, pc, ask, known,
                 locals, reply>>

(* The server's clock passes deadline_at. *)
DeadlinePasses(e) ==
  /\ status[e] # "none"
  /\ ~ expired[e]
  /\ expired' = [expired EXCEPT ![e] = TRUE]
  /\ UNCHANGED <<exams, queued, ledger, day, pc, ask, known, locals, reply>>

Running == {r \in Requests : ask[r].op = "submit" /\ pc[r] \notin {"idle", "ended", "settled"}}

NextDay ==
  /\ day < MaxDay
  /\ "midnight" \in Faults \/ Running = {}
  /\ day' = day + 1
  /\ UNCHANGED <<exams, queued, ledger, expired, pc, ask, known, locals, reply>>

(***************************************************************************)
(* A request reaches the server.  `known' records what was then the case,  *)
(* for the properties only: the exam's status, and which answers had been  *)
(* acknowledged.                                                           *)
(***************************************************************************)
Acknowledged(e) ==
  {q \in Questions : \E r \in Requests :
     /\ reply[r] = "OK" /\ ask[r].op = "answer"
     /\ ask[r].exam = e /\ ask[r].question = q}

Arrive(r) ==
  /\ pc[r] = "idle"
  /\ ask[r].op = "submit" => Cardinality(Running) < MaxSubmits
  /\ pc' = [pc EXCEPT ![r] = "arrived"]
  /\ known' = [known EXCEPT ![r] = [status |-> status[ask[r].exam],
                                    acked  |-> Acknowledged(ask[r].exam)]]
  /\ UNCHANGED <<exams, queued, ledger, clocks, ask, locals, reply>>

(* The request ends without having graded anything. *)
EndWith(r, answer) ==
  /\ pc' = [pc EXCEPT ![r] = "ended"]
  /\ reply' = [reply EXCEPT ![r] = answer]

(***************************************************************************)
(* GetExamByPublicID and the checks SubmitAnswer makes on what it read.    *)
(***************************************************************************)
(* SubmitAnswer refuses an exam that is not in progress or has expired;    *)
(* SubmitExam one that is completed.                                       *)
TakesAnswers(e) == status[e] = "in_progress" /\ ~ expired[e]

TakesSubmits_Always(e) == status[e] # "none"
TakesSubmits(e)        == status[e] = "in_progress"

RejectAnswer(r) ==
  LET e == ask[r].exam
  IN  /\ pc[r] = "arrived" /\ ask[r].op = "answer"
      /\ \/ status[e] = "none" /\ EndWith(r, "NOT_FOUND")
         \/ status[e] = "completed" /\ EndWith(r, "EXAM_ALREADY_COMPLETED")
         \/ status[e] = "in_progress" /\ expired[e] /\ EndWith(r, "EXAM_EXPIRED")
         \/ /\ TakesAnswers(e)
            /\ ask[r].question \notin OnPaper(e)
            /\ EndWith(r, "NOT_IN_EXAM")
      /\ UNCHANGED <<exams, queued, ledger, clocks, ask, known, locals>>

AdmitAnswer(r) ==
  LET e == ask[r].exam
  IN  /\ pc[r] = "arrived" /\ ask[r].op = "answer"
      /\ TakesAnswers(e)
      /\ ask[r].question \in OnPaper(e)
      /\ pc' = [pc EXCEPT ![r] = "save"]
      /\ UNCHANGED <<exams, queued, ledger, clocks, ask, known, locals, reply>>

(* SaveExamAnswer: an UPDATE on the exam and question alone.  The status   *)
(* and the deadline were checked earlier and are not looked at again.      *)
SaveExamAnswer_IgnoresError(r) ==
  /\ pc[r] = "save"
  /\ EndWith(r, "OK")
  /\ UNCHANGED <<exams, queued, ledger, clocks, ask, known, locals>>

SaveExamAnswer(r) ==
  /\ pc[r] = "save"
  /\ answers' = [answers EXCEPT ![ask[r].exam][ask[r].question] = ask[r].choice]
  /\ EndWith(r, "OK")
  /\ UNCHANGED <<status, paper, flags, result, queued, ledger, clocks, ask, known,
                 locals>>

(* A repository call whose error the use case returns: reading the exam,   *)
(* saving an answer, loading the answers to grade.                         *)
CallFails(r) ==
  /\ "call" \in Faults
  /\ pc[r] \in {"arrived", "save", "load"}
  /\ EndWith(r, "ERROR")
  /\ UNCHANGED <<exams, queued, ledger, clocks, ask, known, locals>>

(***************************************************************************)
(* GetExamByPublicID and the checks SubmitExam makes: the status, not the  *)
(* deadline.  An admitted submission takes its `now' here.                 *)
(***************************************************************************)
RejectSubmit(r) ==
  LET e == ask[r].exam
  IN  /\ pc[r] = "arrived" /\ ask[r].op = "submit"
      /\ \/ status[e] = "none" /\ EndWith(r, "NOT_FOUND")
         \/ status[e] = "completed" /\ EndWith(r, "EXAM_ALREADY_COMPLETED")
      /\ UNCHANGED <<exams, queued, ledger, clocks, ask, known, locals>>

AdmitSubmit(r) ==
  /\ pc[r] = "arrived" /\ ask[r].op = "submit"
  /\ TakesSubmits(ask[r].exam)
  /\ pc' = [pc EXCEPT ![r] = "load"]
  /\ now' = [now EXCEPT ![r] = day]
  /\ UNCHANGED <<exams, queued, ledger, clocks, ask, known, snap, at, row, reply>>

(* GetExamAnswers: the snapshot the whole grade is computed from. *)
GetExamAnswers(r) ==
  /\ pc[r] = "load"
  /\ snap' = [snap EXCEPT ![r] = answers[ask[r].exam]]
  /\ pc' = [pc EXCEPT ![r] = "grade"]
  /\ UNCHANGED <<exams, queued, ledger, clocks, ask, known, at, now, row, reply>>

(***************************************************************************)
(* The loop over exam.Questions: a gap is queued for review, then the      *)
(* question's is_correct is set.  Errors of both calls are ignored.        *)
(***************************************************************************)
Graded(r) == paper[ask[r].exam][at[r]]

UpsertMistake(r) ==
  /\ pc[r] = "grade"
  /\ at[r] <= Len(paper[ask[r].exam])
  /\ pc' = [pc EXCEPT ![r] = "flag"]
  /\ \/ ~ IsGap(snap[r], Graded(r)) /\ UNCHANGED queued
     \/ /\ IsGap(snap[r], Graded(r))
        /\ queued' = queued \cup {Graded(r)}
     \/ "mistake" \in Faults /\ UNCHANGED queued
  /\ UNCHANGED <<exams, ledger, clocks, ask, known, locals, reply>>

SetExamAnswerCorrectness(r) ==
  /\ pc[r] = "flag"
  /\ pc' = [pc EXCEPT ![r] = "grade"]
  /\ at' = [at EXCEPT ![r] = @ + 1]
  /\ \/ flags' = [flags EXCEPT ![ask[r].exam][Graded(r)] = Verdict(snap[r], Graded(r))]
     \/ "flag" \in Faults /\ UNCHANGED flags
  /\ UNCHANGED <<status, paper, answers, result, queued, ledger, clocks, ask, known,
                 snap, now, row, reply>>

(* CompleteExam: an UPDATE on the exam's id alone, whatever its status;    *)
(* its error is ignored.                                                   *)
StatusAfter_Expired(e) == IF expired[e] THEN "expired" ELSE "completed"
StatusAfter_InTime(e)  == IF expired[e] THEN status[e] ELSE "completed"
StatusAfter(e)         == "completed"

CompleteExam(r) ==
  LET e == ask[r].exam
  IN  /\ pc[r] = "grade"
      /\ at[r] > Len(paper[e])
      /\ pc' = [pc EXCEPT ![r] = "stats"]
      /\ \/ /\ status' = [status EXCEPT ![e] = StatusAfter(e)]
            /\ result' = [result EXCEPT ![e] = GradeOf(r)]
         \/ "complete" \in Faults /\ UNCHANGED <<status, result>>
      /\ activeDays' = activeDays \cup {now[r]}
      /\ UNCHANGED <<paper, answers, flags, queued, stats, earned, clocks, ask, known,
                     locals, reply>>

(* The submission ends having graded the exam. *)
SettleWith(r, answer) ==
  /\ pc' = [pc EXCEPT ![r] = "settled"]
  /\ reply' = [reply EXCEPT ![r] = answer]

(* GetUserStats; when it fails the stats are left alone. *)
GetUserStats(r) ==
  /\ pc[r] = "stats"
  /\ \/ /\ pc' = [pc EXCEPT ![r] = "credit"]
        /\ row' = [row EXCEPT ![r] = stats]
        /\ UNCHANGED reply
     \/ "read" \in Faults /\ SettleWith(r, "completed") /\ UNCHANGED row
  /\ UNCHANGED <<exams, queued, ledger, clocks, ask, known, snap, at, now>>

(* UpdateUserStats; its error is ignored. *)
UpdateUserStats_NoStreak(r) ==
  /\ pc[r] = "credit"
  /\ SettleWith(r, "completed")
  /\ stats' = [Credited(row[r], CreditOf(r), now[r], day) EXCEPT !.streak = row[r].streak]
  /\ earned' = [c \in DOMAIN earned |-> earned[c] + CreditOf(r)[c]]
  /\ UNCHANGED <<exams, queued, activeDays, clocks, ask, known, locals>>

UpdateUserStats(r) ==
  /\ pc[r] = "credit"
  /\ SettleWith(r, "completed")
  /\ \/ /\ stats' = Credited(row[r], CreditOf(r), now[r], day)
        /\ earned' = [c \in DOMAIN earned |-> earned[c] + CreditOf(r)[c]]
     \/ "write" \in Faults /\ UNCHANGED <<stats, earned>>
  /\ UNCHANGED <<exams, queued, activeDays, clocks, ask, known, locals>>

(* The process dies, or is killed, with the request in flight. *)
Crash(r) ==
  /\ "crash" \in Faults
  /\ \/ /\ pc[r] \in {"arrived", "save", "load", "grade", "flag"}
        /\ EndWith(r, "LOST")
     \/ pc[r] \in {"stats", "credit"} /\ SettleWith(r, "LOST")
  /\ UNCHANGED <<exams, queued, ledger, clocks, ask, known, locals>>

Serve(r) ==
  \/ RejectAnswer(r) \/ AdmitAnswer(r) \/ SaveExamAnswer(r) \/ CallFails(r)
  \/ RejectSubmit(r) \/ AdmitSubmit(r) \/ GetExamAnswers(r)
  \/ UpsertMistake(r) \/ SetExamAnswerCorrectness(r) \/ CompleteExam(r)
  \/ GetUserStats(r) \/ UpdateUserStats(r)

Next ==
  \/ \E e \in Exams : CreateExam(e) \/ DeadlinePasses(e)
  \/ NextDay
  \/ \E r \in Requests : Arrive(r) \/ Serve(r) \/ Crash(r)

Spec == Init /\ [][Next]_vars

-----------------------------------------------------------------------------
StoredRow == [xp: Nat, level: Nat, streak: Nat, last: Days \cup {NoDay},
              answered: Nat, correct: Nat, exams: Nat, passed: Nat]

(* Every variable keeps its type; in particular an exam is never in a      *)
(* status but the three the code gives it ('expired' exists in the domain  *)
(* model and is never stored).                                             *)
TypeOK ==
  /\ status \in [Exams -> {"none", "in_progress", "completed"}]
  /\ paper \in [Exams -> {<<>>} \cup Papers]
  /\ answers \in [Exams -> [Questions -> Choices \cup {"unanswered"}]]
  /\ flags \in [Exams -> [Questions -> Choices \cup {"unanswered"}]]
  /\ result \in [Exams -> [correct: Nat, score: Nat, passed: BOOLEAN]]
  /\ queued \in SUBSET Questions
  /\ stats \in StoredRow
  /\ expired \in [Exams -> BOOLEAN]
  /\ day \in Days
  /\ pc \in [Requests -> {"idle", "arrived", "save", "load", "grade", "flag",
                          "stats", "credit", "ended", "settled"}]
  /\ ask \in [Requests -> Answers \cup Submits]
  /\ known \in [Requests -> [status: {"none", "in_progress", "completed"},
                            acked: SUBSET Questions]]
  /\ snap \in [Requests -> [Questions -> Choices \cup {"unanswered"}]]
  /\ at \in [Requests -> 1 .. PaperSize + 1]
  /\ now \in [Requests -> Days \cup {NoDay}]
  /\ row \in [Requests -> StoredRow]
  /\ activeDays \in SUBSET Days
  /\ earned \in [answered: Nat, correct: Nat, xp: Nat, exams: Nat, passed: Nat]

(***************************************************************************)
(* Safety, under every interleaving and fault.                             *)
(***************************************************************************)

Submitters(e) == {r \in Requests : ask[r].op = "submit" /\ ask[r].exam = e}

(* The stored grade is the grade of one set of answers that some           *)
(* submission loaded whole, however many submissions grade the exam at     *)
(* once and whatever answers are saved meanwhile.                          *)
GradeIsOfOneSnapshot ==
  \A e \in Exams : status[e] = "completed" =>
    \E r \in Submitters(e) :
      pc[r] \in {"stats", "credit", "settled"} /\ result[e] = Grade(e, snap[r])

(* "OK" means kept: an answer acknowledged before a submission arrived is  *)
(* never graded as unanswered by it.                                       *)
AcknowledgedAnswersAreGraded ==
  \A r \in Requests :
    ask[r].op = "submit" /\ pc[r] \in {"grade", "flag", "stats", "credit", "settled"}
      => known[r].acked \subseteq Answered(ask[r].exam, snap[r])

(* "An unanswered question is a gap in the same way a wrong one is, so     *)
(* both go into the review queue": by the time an exam is completed, every *)
(* question it was not credited for is queued (when no UpsertMistake       *)
(* fails), even if the submission that completed it died right after.      *)
GapsAreQueued ==
  \A e \in Exams : status[e] = "completed" /\ "mistake" \notin Faults =>
    \A q \in OnPaper(e) \ queued :
      \E r \in Submitters(e) : snap[r][q] = "right" /\ result[e] = Grade(e, snap[r])

(***************************************************************************)
(* Safety when the client waits for the answer to one submission before it *)
(* sends the next, and no CompleteExam fails.                              *)
(***************************************************************************)

(* "Grades the attempt exactly once": an exam is credited at most once,    *)
(* even when a submission dies half way and the client sends another.      *)
GradedAtMostOnce ==
  earned.exams <= Cardinality({e \in Exams : status[e] = "completed"})

(* The per-question verdicts add up to the stored grade.                   *)
FlagsAddUp ==
  \A e \in Exams : status[e] = "completed" /\ "flag" \notin Faults =>
    Cardinality({q \in OnPaper(e) : flags[e][q] = "right"}) = result[e].correct

(***************************************************************************)
(* Liveness.                                                               *)
(***************************************************************************)

(* A submission that finds its exam in progress leaves it completed, or    *)
(* its client learns of an error or loses the connection, if no            *)
(* CompleteExam fails: the client knows when to try again.                 *)
SubmissionCompletes ==
  \A r \in Requests :
    (pc[r] = "arrived" /\ ask[r].op = "submit" /\ known[r].status = "in_progress")
      ~> (status[ask[r].exam] = "completed" \/ reply[r] \in {"ERROR", "LOST"})

(***************************************************************************)
(* Where a submission is in StatsLedger, which LearnerProgress shows that  *)
(* exams implement: there from CompleteExam, where its credit is fixed,    *)
(* until it settles.                                                       *)
(***************************************************************************)
LedgerPhase(r) == CASE pc[r] = "stats"   -> "earned"
                    [] pc[r] = "credit"  -> "read"
                    [] pc[r] = "settled" -> "done"
                    [] OTHER             -> "idle"

InLedger(r) == LedgerPhase(r) # "idle"
=============================================================================
