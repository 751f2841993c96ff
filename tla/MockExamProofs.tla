---------------------------- MODULE MockExamProofs ----------------------------
(***************************************************************************)
(* Proofs about MockExam, for any number of exams, questions and requests, *)
(* any size of paper and every combination of faults: its types, what a    *)
(* stored grade is of, the review queue and, with the history variable of  *)
(* MCMockExam, that orderly submissions grade an exam once.                *)
(***************************************************************************)
EXTENDS MCMockExam, FiniteSetTheorems, TLAPS

(***************************************************************************)
(* Rows, credits and grades.                                               *)
(***************************************************************************)
Sums  == [answered: Nat, correct: Nat, xp: Nat, exams: Nat, passed: Nat]
Sheet == [Questions -> Choices \cup {"unanswered"}]
Marks == [correct: Nat, score: Nat, passed: BOOLEAN]

(* The row of a learner nothing is stored for has the type of a row.       *)
LEMMA FreshRowType == FreshRow \in StoredRow
BY DEF FreshRow, StoredRow, NoDay

(* A credit added to a row gives a row, dated with the day of the write.   *)
LEMMA CreditedType ==
  ASSUME NEW s \in StoredRow, NEW c \in Credit, NEW today \in Days \cup {NoDay},
         NEW d \in Days
  PROVE  Credited(s, c, today, d) \in StoredRow
<1>1. /\ s.xp \in Nat /\ s.answered \in Nat /\ s.correct \in Nat
      /\ s.exams \in Nat /\ s.passed \in Nat /\ s.streak \in Nat
      /\ s.last \in Days \cup {NoDay}
  BY DEF StoredRow
<1>2. /\ c.xp \in Nat /\ c.answered \in Nat /\ c.correct \in Nat
      /\ c.exams \in Nat /\ c.passed \in Nat /\ c.active \in BOOLEAN
  BY DEF Credit
<1>3. NextStreak(s.streak, s.last, today) \in Nat
  BY <1>1, ExamAssumption DEF NextStreak, Days, NoDay
<1>4. Level(s.xp + c.xp) \in Nat
  BY <1>1, <1>2 DEF Level
<1> QED
  BY <1>1, <1>2, <1>3, <1>4 DEF Credited, Accrue, ActivityDate, StoredRow

(* The sums of credits stay sums of natural numbers.                       *)
LEMMA SumType ==
  ASSUME NEW e \in Sums, NEW c \in Credit
  PROVE  [f \in DOMAIN e |-> e[f] + c[f]] \in Sums
<1>1. DOMAIN e = {"answered", "correct", "xp", "exams", "passed"}
  BY DEF Sums
<1>2. \A f \in DOMAIN e : e[f] \in Nat /\ c[f] \in Nat
  BY <1>1 DEF Sums, Credit
<1> QED
  BY <1>1, <1>2 DEF Sums

(* A percentage is a natural number.                                       *)
LEMMA ScoreType ==
  ASSUME NEW c \in Nat, NEW n \in Nat
  PROVE  ScorePercent(c, n) \in Nat
BY DEF ScorePercent

(* A paper holds at least one question, and as many as every other.        *)
LEMMA PaperSizeType == PaperSize \in Nat \ {0}
<1>1. Cardinality(Questions) \in Nat /\ Cardinality(Questions) # 0
  BY ExamAssumption, FS_CardinalityType, FS_EmptySet
<1> QED
  BY <1>1, ExamAssumption DEF PaperSize

LEMMA PaperType ==
  ASSUME NEW p \in Papers
  PROVE  /\ p \in [1 .. PaperSize -> Questions] /\ Len(p) = PaperSize
         /\ \A i, j \in 1 .. PaperSize : p[i] = p[j] => i = j
BY PaperSizeType DEF Papers

(* What is on a paper, and was answered, is among the questions.           *)
LEMMA OnPaperType ==
  ASSUME NEW e \in Exams, paper[e] \in {<<>>} \cup Papers, NEW s
  PROVE  /\ OnPaper(e) \in SUBSET Questions
         /\ Right(e, s) \in SUBSET OnPaper(e) /\ Answered(e, s) \in SUBSET OnPaper(e)
         /\ IsFiniteSet(OnPaper(e)) /\ IsFiniteSet(Right(e, s)) /\ IsFiniteSet(Answered(e, s))
         /\ Right(e, s) \in SUBSET Answered(e, s)
         /\ Cardinality(Right(e, s)) \in Nat /\ Cardinality(Answered(e, s)) \in Nat
         /\ Len(paper[e]) \in Nat
<1>1. OnPaper(e) \in SUBSET Questions /\ Len(paper[e]) \in Nat
  BY PaperType, PaperSizeType DEF OnPaper
<1>2. Right(e, s) \in SUBSET OnPaper(e) /\ Answered(e, s) \in SUBSET OnPaper(e)
      /\ Right(e, s) \in SUBSET Answered(e, s)
  BY DEF Right, Answered
<1>3. IsFiniteSet(OnPaper(e)) /\ IsFiniteSet(Right(e, s)) /\ IsFiniteSet(Answered(e, s))
  BY <1>1, <1>2, ExamAssumption, FS_Subset
<1> QED
  BY <1>1, <1>2, <1>3, FS_CardinalityType

(* A grade is well formed, and so is what it earns.                        *)
LEMMA GradeType ==
  ASSUME NEW e \in Exams, paper[e] \in {<<>>} \cup Papers, NEW s
  PROVE  /\ Grade(e, s) \in Marks
         /\ ExamCredit(Cardinality(Answered(e, s)), Cardinality(Right(e, s)),
                       Cardinality(Right(e, s)) >= ExamPassCount) \in Credit
<1>1. Cardinality(Right(e, s)) \in Nat /\ Cardinality(Answered(e, s)) \in Nat /\ Len(paper[e]) \in Nat
  BY OnPaperType
<1>2. ScorePercent(Cardinality(Right(e, s)), Len(paper[e])) \in Nat
  BY <1>1, ScoreType
<1>3. Grade(e, s) \in Marks
  BY <1>1, <1>2, ExamAssumption DEF Grade, Marks
<1> QED
  BY <1>1, <1>3 DEF ExamCredit, Credit, ExamCompletionXP, XPPerCorrectAnswer

(***************************************************************************)
(* The invariant.                                                          *)
(***************************************************************************)
Types ==
  /\ status \in [Exams -> {"none", "in_progress", "completed"}]
  /\ paper \in [Exams -> {<<>>} \cup Papers]
  /\ answers \in [Exams -> Sheet]
  /\ flags \in [Exams -> Sheet]
  /\ result \in [Exams -> Marks]
  /\ queued \in SUBSET Questions
  /\ stats \in StoredRow
  /\ expired \in [Exams -> BOOLEAN]
  /\ day \in Days
  /\ pc \in [Requests -> {"idle", "arrived", "save", "load", "grade", "flag",
                          "stats", "credit", "ended", "settled"}]
  /\ ask \in [Requests -> Answers \cup Submits]
  /\ known \in [Requests -> [status: {"none", "in_progress", "completed"},
                            acked: SUBSET Questions]]
  /\ snap \in [Requests -> Sheet]
  /\ at \in [Requests -> 1 .. PaperSize + 1]
  /\ now \in [Requests -> Days \cup {NoDay}]
  /\ row \in [Requests -> StoredRow]
  /\ reply \in [Requests -> {"none", "OK", "NOT_FOUND", "EXAM_ALREADY_COMPLETED", "EXAM_EXPIRED",
                            "NOT_IN_EXAM", "ERROR", "completed", "LOST"}]
  /\ activeDays \in SUBSET Days
  /\ earned \in Sums

Before  == {"idle", "arrived", "ended"}
Closing == {"stats", "credit", "settled"}
Grading == {"grade", "flag"} \cup Closing

(* An exam has a paper once it is created, and a grade once it is          *)
(* completed: that of what one of its submissions loaded.                  *)
SoundExam(e) ==
  /\ status[e] = "none" => paper[e] = <<>> /\ answers[e] = Blank
  /\ status[e] # "none" => paper[e] \in Papers
  /\ status[e] = "completed" =>
       \E r \in Submitters(e) : pc[r] \in Closing /\ result[e] = Grade(e, snap[r])

(* Where a request can be with what it asks for, and how far it has read.  *)
Placed(r) ==
  /\ pc[r] = "save" => ask[r].op = "answer"
  /\ pc[r] \in Grading \cup {"load"} => ask[r].op = "submit"
  /\ status[ask[r].exam] = "none" => pc[r] \in Before /\ known[r].acked = {} /\ reply[r] # "OK"
  /\ reply[r] = "OK" => pc[r] = "ended" /\ ask[r].op = "answer"
  /\ pc[r] \in {"idle", "arrived", "save", "load"} => at[r] = 1
  /\ pc[r] = "flag" => at[r] <= PaperSize
  /\ pc[r] \in Closing => at[r] = PaperSize + 1
  /\ pc[r] \in Grading \cup {"load"} => now[r] \in Days

(* An acknowledged answer is stored, and stays answered; a submission that *)
(* arrived after it loads it.                                              *)
Kept(r) ==
  LET e == ask[r].exam
  IN  /\ pc[r] = "save" \/ reply[r] = "OK" => ask[r].question \in OnPaper(e)
      /\ reply[r] = "OK" => answers[e][ask[r].question] # "unanswered"
      /\ known[r].acked \subseteq Answered(e, answers[e])
      /\ pc[r] \in Grading => known[r].acked \subseteq Answered(e, snap[r])

(* The gaps among the questions a submission has been through are queued.  *)
Through(r, i) == i < at[r] \/ (i = at[r] /\ pc[r] = "flag")

GapsQueued(r) ==
  "mistake" \notin Faults /\ pc[r] \in Grading =>
    \A i \in 1 .. PaperSize :
      Through(r, i) /\ IsGap(snap[r], paper[ask[r].exam][i]) => paper[ask[r].exam][i] \in queued

SoundRequest(r) == Placed(r) /\ Kept(r) /\ GapsQueued(r)

IInv ==
  /\ Types
  /\ \A e \in Exams : SoundExam(e)
  /\ \A r \in Requests : SoundRequest(r)

(* What a request asks for. *)
LEMMA AskType ==
  ASSUME Types, NEW r \in Requests
  PROVE  /\ ask[r].exam \in Exams
         /\ ask[r].op \in {"answer", "submit"}
         /\ ask[r].op = "answer" => ask[r].question \in Questions /\ ask[r].choice \in Choices
BY DEF Types, Answers, Submits

LEMMA InitIInv == Init => IInv
<1> SUFFICES ASSUME Init
             PROVE  IInv
  OBVIOUS
<1>1. Types
  <2>1. 0 \in Days /\ 1 \in 1 .. PaperSize + 1
    BY ExamAssumption, PaperSizeType DEF Days
  <2>2. Blank \in Sheet /\ NoResult \in Marks /\ Nothing \in Sums
    BY DEF Blank, Sheet, NoResult, Marks, Nothing, Sums
  <2> QED
    BY <2>1, <2>2, FreshRowType DEF Init, Types
<1>2. ASSUME NEW e \in Exams
      PROVE  SoundExam(e)
  BY <1>2 DEF Init, SoundExam
<1>3. ASSUME NEW r \in Requests
      PROVE  SoundRequest(r)
  <2>1. ask[r].exam \in Exams
    BY <1>1, AskType
  <2> QED
    BY <2>1 DEF Init, SoundRequest, Placed, Kept, GapsQueued, Grading, Closing, Before
<1> QED
  BY <1>1, <1>2, <1>3 DEF IInv

(***************************************************************************)
(* What every step respects: exams and their papers stay, answers are      *)
(* replaced but not withdrawn, the queue grows, and what a submission has  *)
(* graded does not change.                                                 *)
(***************************************************************************)
Grows ==
  /\ ask' = ask
  /\ \A e \in Exams : status[e] # "none" => status'[e] # "none" /\ paper'[e] = paper[e]
  /\ \A e \in Exams, q \in Questions : answers[e][q] # "unanswered" => answers'[e][q] # "unanswered"
  /\ queued \subseteq queued'
  /\ \A r \in Requests : pc[r] \in Closing => pc'[r] \in Closing /\ snap'[r] = snap[r]

(* A request that does not move is as sound as before. *)
LEMMA Bystander ==
  ASSUME IInv, Types', Grows, NEW r \in Requests,
         pc'[r] = pc[r], reply'[r] = reply[r], known'[r] = known[r], snap'[r] = snap[r],
         at'[r] = at[r], now'[r] = now[r]
  PROVE  SoundRequest(r)'
<1>0. PICK e \in Exams : e = ask[r].exam
  BY AskType DEF IInv
<1>1. ask'[r] = ask[r] /\ SoundRequest(r)
  BY DEF IInv, Grows
<1>2. CASE status[e] = "none"
  BY <1>0, <1>1, <1>2 DEF SoundRequest, Placed, Kept, GapsQueued, Before, Grading, Closing
<1>3. CASE status[e] # "none"
  <2>1. status'[e] # "none" /\ paper'[e] = paper[e]
    BY <1>3 DEF Grows
  <2>2. Placed(r)'
    BY <1>0, <1>1, <1>3, <2>1 DEF SoundRequest, Placed
  <2>3. OnPaper(e) \in SUBSET Questions
    BY OnPaperType DEF IInv, Types
  <2>4. Answered(e, answers[e]) \subseteq Answered(e, answers[e])'
    BY <2>1, <2>3 DEF Answered, OnPaper, Grows
  <2>5. Kept(r)'
    BY <1>0, <1>1, <2>1, <2>3, <2>4 DEF SoundRequest, Kept, Answered, OnPaper, Grows
  <2>6. GapsQueued(r)'
    BY <1>0, <1>1, <2>1 DEF SoundRequest, GapsQueued, Through, Grows
  <2> QED
    BY <2>2, <2>5, <2>6 DEF SoundRequest
<1> QED
  BY <1>2, <1>3

(* An exam whose status and grade a step leaves alone stays sound.         *)
LEMMA ExamKept ==
  ASSUME IInv, Types', Grows, NEW e \in Exams,
         status'[e] = status[e], paper'[e] = paper[e],
         status[e] = "none" => answers'[e] = answers[e],
         result'[e] = result[e]
  PROVE  SoundExam(e)'
<1>1. SoundExam(e)
  BY DEF IInv
<1>2. ASSUME status[e] = "completed"
      PROVE  \E r \in Submitters(e)' : pc'[r] \in Closing /\ result'[e] = Grade(e, snap[r])'
  <2>1. PICK r \in Submitters(e) : pc[r] \in Closing /\ result[e] = Grade(e, snap[r])
    BY <1>1, <1>2 DEF SoundExam
  <2>2. r \in Submitters(e)' /\ pc'[r] \in Closing /\ snap'[r] = snap[r]
    BY <2>1 DEF Grows, Submitters
  <2>3. Grade(e, snap[r])' = Grade(e, snap[r])
    BY <2>2 DEF Grade, Right, OnPaper
  <2> QED
    BY <2>1, <2>2, <2>3
<1> QED
  BY <1>1, <1>2 DEF SoundExam

(* So a step of one request that writes no exam but its flags need only be *)
(* looked at for that request.                                             *)
LEMMA OneMoves ==
  ASSUME IInv, Types', Grows, UNCHANGED <<status, paper, answers, result>>, NEW r \in Requests,
         \A o \in Requests \ {r} : /\ pc'[o] = pc[o] /\ reply'[o] = reply[o]
                                   /\ known'[o] = known[o] /\ snap'[o] = snap[o]
                                   /\ at'[o] = at[o] /\ now'[o] = now[o],
         SoundRequest(r)'
  PROVE  IInv'
<1>1. \A e \in Exams : SoundExam(e)'
  BY ExamKept
<1>2. ASSUME NEW o \in Requests
      PROVE  SoundRequest(o)'
  BY Bystander
<1> QED
  BY <1>1, <1>2 DEF IInv

(***************************************************************************)
(* Types are kept.                                                         *)
(***************************************************************************)
LEMMA ServeTypes ==
  ASSUME IInv, NEW r \in Requests, Serve(r)
  PROVE  Types'
<1> USE DEF IInv
<1>1. PICK e \in Exams : e = ask[r].exam
  BY AskType
<1>2. CASE RejectAnswer(r) \/ AdmitAnswer(r) \/ CallFails(r) \/ RejectSubmit(r) \/ AdmitSubmit(r)
  <2>1. /\ now' \in [Requests -> Days \cup {NoDay}]
        /\ UNCHANGED <<exams, queued, ledger, clocks, ask, known, snap, at, row>>
    BY <1>2 DEF RejectAnswer, AdmitAnswer, CallFails, RejectSubmit, AdmitSubmit, locals, Types
  <2>2. \E to \in {"save", "load", "ended"} : pc' = [pc EXCEPT ![r] = to]
    BY <1>2 DEF RejectAnswer, AdmitAnswer, CallFails, RejectSubmit, AdmitSubmit, EndWith
  <2>3. \/ reply' = reply
        \/ \E word \in {"NOT_FOUND", "EXAM_ALREADY_COMPLETED", "EXAM_EXPIRED", "NOT_IN_EXAM", "ERROR"} :
              reply' = [reply EXCEPT ![r] = word]
    BY <1>2 DEF RejectAnswer, AdmitAnswer, CallFails, RejectSubmit, AdmitSubmit, EndWith
  <2>4. /\ pc' \in [Requests -> {"idle", "arrived", "save", "load", "grade", "flag",
                                  "stats", "credit", "ended", "settled"}]
        /\ reply' \in [Requests -> {"none", "OK", "NOT_FOUND", "EXAM_ALREADY_COMPLETED", "EXAM_EXPIRED",
                                     "NOT_IN_EXAM", "ERROR", "completed", "LOST"}]
    <3>1. pc' \in [Requests -> {"idle", "arrived", "save", "load", "grade", "flag",
                                  "stats", "credit", "ended", "settled"}]
      BY <2>2 DEF Types
    <3>2. reply' \in [Requests -> {"none", "OK", "NOT_FOUND", "EXAM_ALREADY_COMPLETED", "EXAM_EXPIRED",
                                   "NOT_IN_EXAM", "ERROR", "completed", "LOST"}]
      BY <2>3 DEF Types
    <3> QED
      BY <3>1, <3>2
  <2> QED
    BY <2>1, <2>4 DEF Types, exams, ledger, clocks
<1>3. CASE SaveExamAnswer(r)
  <2>1. ask[r].choice \in Choices /\ ask[r].question \in Questions
    BY <1>3, AskType DEF SaveExamAnswer, SoundRequest, Placed
  <2>2. answers \in [Exams -> Sheet]
    BY DEF Types
  <2>3. [answers EXCEPT ![e][ask[r].question] = ask[r].choice] \in [Exams -> Sheet]
    BY <2>1, <2>2 DEF Sheet
  <2> QED
    BY <1>1, <1>3, <2>3 DEF SaveExamAnswer, EndWith, Types, ledger, clocks, locals
<1>4. CASE GetExamAnswers(r)
  BY <1>1, <1>4 DEF GetExamAnswers, Types, exams, ledger, clocks
<1>5. status[e] # "none" /\ pc[r] = "grade" => paper[e] \in Papers
  BY DEF SoundExam
<1>6. pc[r] \in Grading => paper[e] \in Papers /\ Len(paper[e]) = PaperSize /\ paper[e] \in [1 .. PaperSize -> Questions]
  <2>1. pc[r] \in Grading => status[e] # "none"
    BY <1>1 DEF SoundRequest, Placed, Grading, Closing, Before
  <2> QED
    BY <2>1, PaperType DEF SoundExam
<1>7. CASE UpsertMistake(r)
  <2>1. Graded(r) \in Questions
    <3>1. at[r] \in 1 .. PaperSize
      BY <1>1, <1>6, <1>7, PaperSizeType DEF UpsertMistake, Types, Grading
    <3> QED
      BY <1>1, <1>6, <1>7, <3>1 DEF UpsertMistake, Graded, Grading
  <2>2. queued' \in SUBSET Questions
    BY <1>7, <2>1 DEF UpsertMistake, Types
  <2> QED
    BY <1>7, <2>2 DEF UpsertMistake, Types, exams, ledger, clocks, locals
<1>8. CASE SetExamAnswerCorrectness(r)
  <2>1. at[r] \in 1 .. PaperSize
    BY <1>8, PaperSizeType DEF SetExamAnswerCorrectness, Types, SoundRequest, Placed
  <2>2. Graded(r) \in Questions
    BY <1>1, <1>6, <1>8, <2>1 DEF SetExamAnswerCorrectness, Graded, Grading
  <2>3. Verdict(snap[r], Graded(r)) \in Choices
    BY DEF Verdict, Choices
  <2>4. flags \in [Exams -> Sheet] /\ at \in [Requests -> 1 .. PaperSize + 1]
    BY DEF Types
  <2>5. [flags EXCEPT ![e][Graded(r)] = Verdict(snap[r], Graded(r))] \in [Exams -> Sheet]
    BY <2>2, <2>3, <2>4 DEF Sheet
  <2>6. [at EXCEPT ![r] = @ + 1] \in [Requests -> 1 .. PaperSize + 1]
    <3>1. at[r] + 1 \in 1 .. PaperSize + 1
      BY <2>1, PaperSizeType
    <3> QED
      BY <2>4, <3>1
  <2>7. /\ flags' = [flags EXCEPT ![e][Graded(r)] = Verdict(snap[r], Graded(r))] \/ flags' = flags
        /\ at' = [at EXCEPT ![r] = @ + 1]
    BY <1>1, <1>8 DEF SetExamAnswerCorrectness
  <2>8. flags' \in [Exams -> Sheet] /\ at' \in [Requests -> 1 .. PaperSize + 1]
    BY <2>4, <2>5, <2>6, <2>7
  <2> QED
    BY <1>8, <2>8 DEF SetExamAnswerCorrectness, Types, ledger, clocks
<1>9. CASE CompleteExam(r)
  <2>1. Grade(e, snap[r]) \in Marks
    BY GradeType DEF Types
  <2>2. /\ status \in [Exams -> {"none", "in_progress", "completed"}] /\ result \in [Exams -> Marks]
        /\ activeDays \in SUBSET Days
    BY DEF Types
  <2>3. status' \in [Exams -> {"none", "in_progress", "completed"}] /\ result' \in [Exams -> Marks]
    BY <1>1, <1>9, <2>1, <2>2 DEF CompleteExam, StatusAfter, GradeOf
  <2>4. activeDays' \in SUBSET Days
    <3>1. now[r] \in Days
      BY <1>9 DEF CompleteExam, SoundRequest, Placed, Grading
    <3> QED
      BY <1>9, <2>2, <3>1 DEF CompleteExam
  <2> QED
    BY <1>9, <2>3, <2>4 DEF CompleteExam, Types, clocks, locals
<1>10. CASE GetUserStats(r)
  <2>1. row' \in [Requests -> StoredRow]
    BY <1>10 DEF GetUserStats, Types
  <2>2. \/ pc' = [pc EXCEPT ![r] = "credit"] /\ reply' = reply
        \/ pc' = [pc EXCEPT ![r] = "settled"] /\ reply' = [reply EXCEPT ![r] = "completed"]
    BY <1>10 DEF GetUserStats, SettleWith
  <2> QED
    BY <1>10, <2>1, <2>2 DEF GetUserStats, Types, exams, ledger, clocks
<1>11. CASE UpdateUserStats(r)
  <2>1. CreditOf(r) \in Credit
    BY <1>1, GradeType DEF CreditOf, Types
  <2>2. stats' \in StoredRow /\ earned' \in Sums
    <3>1. stats \in StoredRow /\ earned \in Sums /\ row[r] \in StoredRow
      BY DEF Types
    <3>2. Credited(row[r], CreditOf(r), now[r], day) \in StoredRow
      BY <2>1, CreditedType DEF Types
    <3>3. [c \in DOMAIN earned |-> earned[c] + CreditOf(r)[c]] \in Sums
      BY <2>1, <3>1, SumType
    <3> QED
      BY <1>11, <3>1, <3>2, <3>3 DEF UpdateUserStats
  <2> QED
    BY <1>11, <2>2 DEF UpdateUserStats, SettleWith, Types, exams, clocks, locals
<1> QED
  BY <1>2, <1>3, <1>4, <1>7, <1>8, <1>9, <1>10, <1>11 DEF Serve

LEMMA StepTypes ==
  ASSUME IInv, [Next]_vars
  PROVE  Types'
<1> USE DEF IInv
<1>1. CASE UNCHANGED vars
  BY <1>1 DEF vars, exams, ledger, clocks, locals, Types
<1>2. ASSUME NEW e \in Exams, CreateExam(e)
      PROVE  Types'
  BY <1>2 DEF CreateExam, Types, ledger, clocks, locals
<1>3. ASSUME NEW e \in Exams, DeadlinePasses(e)
      PROVE  Types'
  BY <1>3 DEF DeadlinePasses, Types, exams, ledger, locals
<1>4. CASE NextDay
  <2>1. day' \in Days
    BY <1>4, ExamAssumption DEF NextDay, Days, Types
  <2> QED
    BY <1>4, <2>1 DEF NextDay, Types, exams, ledger, locals
<1>5. ASSUME NEW r \in Requests, Arrive(r)
      PROVE  Types'
  <2>1. ask[r].exam \in Exams
    BY AskType
  <2>2. [status |-> status[ask[r].exam], acked |-> Acknowledged(ask[r].exam)]
          \in [status: {"none", "in_progress", "completed"}, acked: SUBSET Questions]
    BY <2>1 DEF Acknowledged, Types
  <2> QED
    BY <1>5, <2>2 DEF Arrive, Types, exams, ledger, clocks, locals
<1>6. ASSUME NEW r \in Requests, Crash(r)
      PROVE  Types'
  BY <1>6 DEF Crash, EndWith, SettleWith, Types, exams, ledger, clocks, locals
<1> QED
  BY <1>1, <1>2, <1>3, <1>4, <1>5, <1>6, ServeTypes DEF Next

(***************************************************************************)
(* The invariant is kept, action by action.                                *)
(***************************************************************************)
LEMMA CreateStep ==
  ASSUME IInv, NEW e \in Exams, CreateExam(e), Types'
  PROVE  IInv'
<1>1. /\ status[e] = "none" /\ status' = [status EXCEPT ![e] = "in_progress"]
      /\ \E p \in Papers : paper' = [paper EXCEPT ![e] = p]
      /\ UNCHANGED <<answers, result, queued, pc, ask, known, snap, at, now, reply>>
  BY DEF CreateExam, locals
<1>2. \A x \in Exams \ {e} : status'[x] = status[x] /\ paper'[x] = paper[x]
  BY <1>1 DEF IInv, Types
<1>3. status'[e] = "in_progress" /\ paper'[e] \in Papers
  BY <1>1 DEF IInv, Types
<1>4. Grows
  BY <1>1, <1>2, <1>3 DEF Grows
<1>5. SoundExam(e)'
  BY <1>3 DEF SoundExam
<1>6. ASSUME NEW x \in Exams \ {e}
      PROVE  SoundExam(x)'
  BY <1>1, <1>2, <1>4, ExamKept
<1>7. \A r \in Requests : SoundRequest(r)'
  BY <1>1, <1>4, Bystander
<1> QED
  BY <1>5, <1>6, <1>7 DEF IInv

(* What was acknowledged is known to the request that arrives.             *)
LEMMA ArriveStep ==
  ASSUME IInv, NEW r \in Requests, Arrive(r), Types'
  PROVE  IInv'
<1>0. PICK e \in Exams : e = ask[r].exam
  BY AskType DEF IInv
<1>1. /\ pc[r] = "idle" /\ pc' = [pc EXCEPT ![r] = "arrived"]
      /\ known' = [known EXCEPT ![r] = [status |-> status[e], acked |-> Acknowledged(e)]]
      /\ UNCHANGED <<status, paper, answers, result, queued, ask, snap, at, now, reply>>
  BY <1>0 DEF Arrive, locals, exams
<1>2. pc'[r] = "arrived" /\ known'[r].acked = Acknowledged(e)
  BY <1>1 DEF IInv, Types
<1>3. \A o \in Requests \ {r} : pc'[o] = pc[o] /\ known'[o] = known[o]
  BY <1>1 DEF IInv, Types
<1>4. Grows
  BY <1>1, <1>2, <1>3 DEF Grows, Closing
<1>5. SoundRequest(r)
  BY DEF IInv
<1>6. Placed(r)'
  <2>1. status[e] = "none" => Acknowledged(e) = {}
    BY DEF Acknowledged, IInv, SoundRequest, Placed
  <2> QED
    BY <1>0, <1>1, <1>2, <1>5, <2>1 DEF SoundRequest, Placed, Before, Grading, Closing
<1>7. Kept(r)'
  <2>1. Acknowledged(e) \subseteq Answered(e, answers[e])
    BY DEF Acknowledged, IInv, SoundRequest, Kept, Answered
  <2>2. Answered(e, answers[e])' = Answered(e, answers[e])
    BY <1>1 DEF Answered, OnPaper
  <2> QED
    BY <1>0, <1>1, <1>2, <1>5, <2>1, <2>2 DEF SoundRequest, Placed, Kept, Grading, Closing
<1>8. GapsQueued(r)'
  BY <1>2 DEF GapsQueued, Grading, Closing
<1> QED
  BY <1>1, <1>3, <1>4, <1>6, <1>7, <1>8, OneMoves DEF SoundRequest

(* A request that ends, or is admitted.                                    *)
LEMMA MoveStep ==
  ASSUME IInv, NEW r \in Requests, Types',
         UNCHANGED <<status, paper, answers, result, queued, ask, known, snap, at>>,
         pc[r] \in {"arrived", "save", "load", "grade", "flag"},
         NEW to \in {"save", "load", "ended"}, pc' = [pc EXCEPT ![r] = to],
         to # "ended" => pc[r] = "arrived" /\ status[ask[r].exam] # "none",
         to = "save" => ask[r].op = "answer" /\ ask[r].question \in OnPaper(ask[r].exam),
         to = "load" => ask[r].op = "submit" /\ now' = [now EXCEPT ![r] = day],
         to # "load" => now' = now,
         \/ reply' = reply
         \/ \E word \in {"NOT_FOUND", "EXAM_ALREADY_COMPLETED", "EXAM_EXPIRED", "NOT_IN_EXAM",
                         "ERROR", "LOST"} : reply' = [reply EXCEPT ![r] = word]
  PROVE  IInv'
<1>1. /\ pc'[r] = to
      /\ reply'[r] = reply[r] \/ reply'[r] \in {"NOT_FOUND", "EXAM_ALREADY_COMPLETED", "EXAM_EXPIRED",
                                                "NOT_IN_EXAM", "ERROR", "LOST"}
  BY DEF IInv, Types
<1>2. \A o \in Requests \ {r} : pc'[o] = pc[o] /\ reply'[o] = reply[o]
  BY DEF IInv, Types
<1>9. /\ \A o \in Requests \ {r} : now'[o] = now[o]
      /\ to = "load" => now'[r] \in Days
  BY DEF IInv, Types
<1>3. Grows
  BY <1>1, <1>2 DEF Grows, Closing
<1>4. SoundRequest(r)
  BY DEF IInv
<1>5. reply'[r] # "OK"
  BY <1>1, <1>4 DEF SoundRequest, Placed
<1>6. Placed(r)' /\ GapsQueued(r)'
  BY <1>1, <1>9, <1>4, <1>5 DEF SoundRequest, Placed, GapsQueued, Before, Grading, Closing
<1>7. Kept(r)'
  BY <1>1, <1>4, <1>5 DEF SoundRequest, Kept, OnPaper, Answered, Grading, Closing
<1> QED
  BY <1>2, <1>9, <1>3, <1>6, <1>7, OneMoves DEF SoundRequest

(* An answer is stored and acknowledged.                                   *)
LEMMA SaveStep ==
  ASSUME IInv, NEW r \in Requests, SaveExamAnswer(r), Types'
  PROVE  IInv'
<1>0. PICK e \in Exams : e = ask[r].exam
  BY AskType DEF IInv
<1> DEFINE q == ask[r].question
<1>1. /\ pc[r] = "save" /\ pc' = [pc EXCEPT ![r] = "ended"] /\ reply' = [reply EXCEPT ![r] = "OK"]
      /\ answers' = [answers EXCEPT ![e][q] = ask[r].choice]
      /\ UNCHANGED <<status, paper, result, queued, ask, known, snap, at, now>>
  BY <1>0 DEF SaveExamAnswer, EndWith, locals
<1>2. /\ ask[r].op = "answer" /\ q \in Questions /\ ask[r].choice \in Choices
      /\ status[e] # "none" /\ q \in OnPaper(e) /\ SoundRequest(r)
  BY <1>0, <1>1, AskType DEF IInv, SoundRequest, Placed, Kept, Before
<1>3. /\ pc'[r] = "ended" /\ reply'[r] = "OK"
      /\ \A o \in Requests \ {r} : pc'[o] = pc[o] /\ reply'[o] = reply[o]
  BY <1>1 DEF IInv, Types
<1>4. answers \in [Exams -> Sheet]
  BY DEF IInv, Types
<1>5. answers'[e][q] # "unanswered"
  BY <1>1, <1>2, <1>4 DEF Choices, Sheet
<1>6. \A x \in Exams, p \in Questions : answers'[x][p] = answers[x][p] \/ (x = e /\ p = q)
  BY <1>1, <1>4 DEF Sheet
<1>7. \A x \in Exams \ {e} : answers'[x] = answers[x]
  BY <1>1, <1>4
<1>8. Grows
  BY <1>1, <1>3, <1>5, <1>6 DEF Grows, Closing
<1>9. \A x \in Exams : SoundExam(x)'
  BY <1>1, <1>2, <1>7, <1>8, ExamKept
<1>10. SoundRequest(r)'
  <2>1. Placed(r)' /\ GapsQueued(r)'
    BY <1>0, <1>1, <1>2, <1>3 DEF SoundRequest, Placed, GapsQueued, Before, Grading, Closing
  <2>2. OnPaper(e)' = OnPaper(e) /\ OnPaper(e) \in SUBSET Questions
    <3>1. OnPaper(e) \in SUBSET Questions
      BY OnPaperType DEF IInv, Types
    <3> QED
      BY <1>1, <3>1 DEF OnPaper
  <2>3. Answered(e, answers[e]) \subseteq Answered(e, answers[e])'
    BY <1>8, <2>2 DEF Answered, Grows
  <2>4. Kept(r)'
    BY <1>0, <1>1, <1>2, <1>3, <1>5, <2>2, <2>3 DEF SoundRequest, Kept, Grading, Closing
  <2> QED
    BY <2>1, <2>4 DEF SoundRequest
<1>11. ASSUME NEW o \in Requests \ {r}
       PROVE  SoundRequest(o)'
  BY <1>1, <1>3, <1>8, Bystander
<1> QED
  BY <1>9, <1>10, <1>11 DEF IInv

(* A submission loads the answers, those it knew acknowledged among them.  *)
LEMMA LoadStep ==
  ASSUME IInv, NEW r \in Requests, GetExamAnswers(r), Types'
  PROVE  IInv'
<1>0. PICK e \in Exams : e = ask[r].exam
  BY AskType DEF IInv
<1>1. /\ pc[r] = "load" /\ pc' = [pc EXCEPT ![r] = "grade"] /\ snap' = [snap EXCEPT ![r] = answers[e]]
      /\ UNCHANGED <<status, paper, answers, result, queued, ask, known, at, now, reply>>
  BY <1>0 DEF GetExamAnswers, exams
<1>2. /\ pc'[r] = "grade" /\ snap'[r] = answers[e]
      /\ \A o \in Requests \ {r} : pc'[o] = pc[o] /\ snap'[o] = snap[o]
  BY <1>1 DEF IInv, Types
<1>3. SoundRequest(r) /\ at[r] = 1
  BY <1>1 DEF IInv, SoundRequest, Placed
<1>4. Grows
  BY <1>1, <1>2 DEF Grows, Closing
<1>5. Placed(r)'
  BY <1>0, <1>1, <1>2, <1>3 DEF SoundRequest, Placed, Before, Grading, Closing
<1>6. Kept(r)'
  BY <1>0, <1>1, <1>2, <1>3 DEF SoundRequest, Placed, Kept, Answered, OnPaper
<1>7. GapsQueued(r)'
  BY <1>1, <1>2, <1>3 DEF GapsQueued, Through
<1> QED
  BY <1>1, <1>2, <1>4, <1>5, <1>6, <1>7, OneMoves DEF SoundRequest

(* A submission under way works on a whole paper.                          *)
LEMMA GradingPaper ==
  ASSUME IInv, NEW r \in Requests, pc[r] \in Grading \cup {"load"}
  PROVE  /\ status[ask[r].exam] # "none" /\ paper[ask[r].exam] \in Papers
         /\ Len(paper[ask[r].exam]) = PaperSize /\ ask[r].op = "submit"
<1>0. PICK e \in Exams : e = ask[r].exam
  BY AskType DEF IInv
<1>1. status[e] # "none" /\ ask[r].op = "submit"
  BY <1>0 DEF IInv, SoundRequest, Placed, Grading, Closing, Before
<1>2. paper[e] \in Papers
  BY <1>1 DEF IInv, SoundExam
<1> QED
  BY <1>0, <1>1, <1>2, PaperType

(* The question it is at is queued, if it is a gap; then it is passed.     *)
LEMMA MistakeStep ==
  ASSUME IInv, NEW r \in Requests, UpsertMistake(r), Types'
  PROVE  IInv'
<1>0. PICK e \in Exams : e = ask[r].exam
  BY AskType DEF IInv
<1>1. /\ pc[r] = "grade" /\ pc' = [pc EXCEPT ![r] = "flag"] /\ at[r] <= Len(paper[e])
      /\ UNCHANGED <<status, paper, answers, result, ask, known, snap, at, now, reply>>
  BY <1>0 DEF UpsertMistake, exams, locals
<1>2. /\ pc'[r] = "flag" /\ \A o \in Requests \ {r} : pc'[o] = pc[o]
  BY <1>1 DEF IInv, Types
<1>3. /\ queued \subseteq queued'
      /\ "mistake" \notin Faults /\ IsGap(snap[r], Graded(r)) => Graded(r) \in queued'
  BY DEF UpsertMistake
<1>4. SoundRequest(r) /\ at[r] <= PaperSize /\ at[r] \in Nat /\ Graded(r) = paper[e][at[r]]
  BY <1>0, <1>1, GradingPaper, PaperSizeType DEF IInv, Types, Grading, Graded
<1>5. Grows
  BY <1>1, <1>2, <1>3 DEF Grows, Closing
<1>6. Placed(r)'
  BY <1>0, <1>1, <1>2, <1>4 DEF SoundRequest, Placed, Before, Grading, Closing
<1>7. Kept(r)'
  BY <1>0, <1>1, <1>2, <1>4 DEF SoundRequest, Placed, Kept, Answered, OnPaper, Grading
<1>8. GapsQueued(r)'
  BY <1>0, <1>1, <1>2, <1>3, <1>4 DEF SoundRequest, GapsQueued, Through, Grading, IsGap
<1> QED
  BY <1>1, <1>2, <1>5, <1>6, <1>7, <1>8, OneMoves DEF SoundRequest

LEMMA FlagStep ==
  ASSUME IInv, NEW r \in Requests, SetExamAnswerCorrectness(r), Types'
  PROVE  IInv'
<1>0. PICK e \in Exams : e = ask[r].exam
  BY AskType DEF IInv
<1>1. /\ pc[r] = "flag" /\ pc' = [pc EXCEPT ![r] = "grade"] /\ at' = [at EXCEPT ![r] = @ + 1]
      /\ UNCHANGED <<status, paper, answers, result, queued, ask, known, snap, now, reply>>
  BY DEF SetExamAnswerCorrectness
<1>2. /\ pc'[r] = "grade" /\ at'[r] = at[r] + 1
      /\ \A o \in Requests \ {r} : pc'[o] = pc[o] /\ at'[o] = at[o]
  BY <1>1 DEF IInv, Types
<1>3. SoundRequest(r) /\ at[r] \in Nat
  BY PaperSizeType DEF IInv, Types
<1>4. Grows
  BY <1>1, <1>2 DEF Grows, Closing
<1>5. Placed(r)' /\ Kept(r)'
  <2>1. Placed(r)'
    BY <1>0, <1>1, <1>2, <1>3 DEF SoundRequest, Placed, Before, Grading, Closing
  <2>2. Kept(r)'
    BY <1>0, <1>1, <1>2, <1>3 DEF SoundRequest, Placed, Kept, Answered, OnPaper, Grading
  <2> QED
    BY <2>1, <2>2
<1>6. GapsQueued(r)'
  <2>1. \A i \in 1 .. PaperSize : Through(r, i)' => Through(r, i)
    BY <1>1, <1>2, <1>3, PaperSizeType DEF Through
  <2> QED
    BY <1>1, <1>2, <1>3, <2>1 DEF SoundRequest, GapsQueued, Grading, IsGap
<1> QED
  BY <1>1, <1>2, <1>4, <1>5, <1>6, OneMoves DEF SoundRequest

(* A submission that has been through the paper completes the exam, unless *)
(* the write fails.                                                        *)
LEMMA CompleteStep ==
  ASSUME IInv, NEW r \in Requests, CompleteExam(r), Types'
  PROVE  IInv'
<1>0. PICK e \in Exams : e = ask[r].exam
  BY AskType DEF IInv
<1>1. /\ pc[r] = "grade" /\ pc' = [pc EXCEPT ![r] = "stats"] /\ at[r] > Len(paper[e])
      /\ UNCHANGED <<paper, answers, queued, ask, known, snap, at, now, reply>>
  BY <1>0 DEF CompleteExam, locals
<1>2. /\ pc'[r] = "stats" /\ \A o \in Requests \ {r} : pc'[o] = pc[o]
  BY <1>1 DEF IInv, Types
<1>3. \/ status' = [status EXCEPT ![e] = "completed"] /\ result' = [result EXCEPT ![e] = Grade(e, snap[r])]
      \/ UNCHANGED <<status, result>>
  BY <1>0 DEF CompleteExam, StatusAfter, GradeOf
<1>4. /\ SoundRequest(r) /\ status[e] # "none" /\ paper[e] \in Papers /\ ask[r].op = "submit"
      /\ at[r] = PaperSize + 1
  BY <1>0, <1>1, GradingPaper, PaperSizeType DEF IInv, Types, Grading
<1>5. /\ \A x \in Exams \ {e} : status'[x] = status[x] /\ result'[x] = result[x]
      /\ \/ status'[e] = "completed" /\ result'[e] = Grade(e, snap[r])
         \/ status'[e] = status[e] /\ result'[e] = result[e]
  BY <1>3 DEF IInv, Types
<1>6. Grows
  BY <1>1, <1>2, <1>4, <1>5 DEF Grows, Closing
<1>7. ASSUME NEW x \in Exams
      PROVE  SoundExam(x)'
  <2>1. CASE status'[x] = status[x] /\ result'[x] = result[x]
    BY <1>1, <1>6, <2>1, ExamKept
  <2>2. CASE x = e /\ status'[e] = "completed" /\ result'[e] = Grade(e, snap[r])
    <3>1. r \in Submitters(e)' /\ pc'[r] \in Closing
      BY <1>0, <1>1, <1>2, <1>4 DEF Submitters, Closing
    <3>2. Grade(e, snap[r])' = Grade(e, snap[r])
      BY <1>1 DEF Grade, Right, OnPaper
    <3> QED
      BY <1>1, <1>4, <2>2, <3>1, <3>2 DEF SoundExam
  <2> QED
    BY <1>5, <2>1, <2>2
<1>8. SoundRequest(r)'
  <2>1. status'[e] # "none"
    BY <1>4, <1>5
  <2>2. Placed(r)'
    BY <1>0, <1>1, <1>2, <1>4, <2>1 DEF SoundRequest, Placed, Before, Grading, Closing
  <2>3. Kept(r)'
    BY <1>0, <1>1, <1>2, <1>4 DEF SoundRequest, Placed, Kept, Answered, OnPaper, Grading, Closing
  <2>4. GapsQueued(r)'
    BY <1>1, <1>2, <1>4 DEF SoundRequest, GapsQueued, Through, Grading, Closing, IsGap
  <2> QED
    BY <2>2, <2>3, <2>4 DEF SoundRequest
<1>9. ASSUME NEW o \in Requests \ {r}
      PROVE  SoundRequest(o)'
  BY <1>1, <1>2, <1>6, Bystander
<1> QED
  BY <1>7, <1>8, <1>9 DEF IInv

(* A submission that has completed its exam goes on, settles, or dies.     *)
LEMMA SettleStep ==
  ASSUME IInv, NEW r \in Requests, Types', UNCHANGED <<exams, queued, ask, known, snap, at, now>>,
         pc[r] \in {"stats", "credit"}, NEW to \in {"credit", "settled"}, pc' = [pc EXCEPT ![r] = to],
         \/ reply' = reply
         \/ \E word \in {"completed", "LOST"} : reply' = [reply EXCEPT ![r] = word]
  PROVE  IInv'
<1>1. pc'[r] = to /\ (reply'[r] = reply[r] \/ reply'[r] \in {"completed", "LOST"})
  BY DEF IInv, Types
<1>2. \A o \in Requests \ {r} : pc'[o] = pc[o] /\ reply'[o] = reply[o]
  BY DEF IInv, Types
<1>3. Grows
  BY <1>1, <1>2 DEF Grows, Closing, exams
<1>4. SoundRequest(r) /\ reply[r] # "OK" /\ reply'[r] # "OK"
  BY <1>1 DEF IInv, SoundRequest, Placed
<1>5. Placed(r)'
  BY <1>1, <1>4 DEF SoundRequest, Placed, Before, Grading, Closing, exams
<1>6. Kept(r)'
  BY <1>1, <1>4 DEF SoundRequest, Kept, Answered, OnPaper, Grading, Closing, exams
<1>7. GapsQueued(r)'
  BY <1>1, <1>4 DEF SoundRequest, GapsQueued, Through, Grading, Closing, IsGap, exams
<1> QED
  BY <1>2, <1>3, <1>5, <1>6, <1>7, OneMoves DEF SoundRequest, exams

LEMMA ClockStep ==
  ASSUME IInv, UNCHANGED <<exams, queued, pc, ask, known, snap, at, now, reply>>, Types'
  PROVE  IInv'
<1>1. Grows
  BY DEF Grows, exams
<1>2. \A e \in Exams : SoundExam(e)'
  BY <1>1, ExamKept DEF exams
<1>3. \A r \in Requests : SoundRequest(r)'
  BY <1>1, Bystander
<1> QED
  BY <1>2, <1>3 DEF IInv

LEMMA StepIInv == IInv /\ [Next]_vars => IInv'
<1> SUFFICES ASSUME IInv, [Next]_vars
             PROVE  IInv'
  OBVIOUS
<1>1. Types'
  BY StepTypes
<1>2. CASE UNCHANGED vars
  BY <1>1, <1>2, ClockStep DEF vars, locals
<1>3. ASSUME NEW e \in Exams, DeadlinePasses(e)
      PROVE  IInv'
  BY <1>1, <1>3, ClockStep DEF DeadlinePasses, locals
<1>4. CASE NextDay
  BY <1>1, <1>4, ClockStep DEF NextDay, locals
<1>5. ASSUME NEW r \in Requests, Crash(r)
      PROVE  IInv'
  <2>1. UNCHANGED <<exams, queued, ask, known, snap, at, now>> /\ \E word \in {"LOST"} : reply' = [reply EXCEPT ![r] = word]
    BY <1>5 DEF Crash, EndWith, SettleWith, locals
  <2>2. CASE pc[r] \in {"arrived", "save", "load", "grade", "flag"} /\ EndWith(r, "LOST")
    BY <1>1, <2>1, <2>2, MoveStep DEF EndWith, exams
  <2>3. CASE pc[r] \in {"stats", "credit"} /\ SettleWith(r, "LOST")
    BY <1>1, <2>1, <2>3, SettleStep DEF SettleWith
  <2> QED
    BY <1>5, <2>2, <2>3 DEF Crash
<1>6. ASSUME NEW r \in Requests, Serve(r)
      PROVE  IInv'
  <2>1. CASE RejectAnswer(r) \/ CallFails(r) \/ RejectSubmit(r)
    <3>1. /\ pc[r] \in {"arrived", "save", "load"} /\ pc' = [pc EXCEPT ![r] = "ended"]
          /\ \E word \in {"NOT_FOUND", "EXAM_ALREADY_COMPLETED", "EXAM_EXPIRED", "NOT_IN_EXAM", "ERROR"} :
                reply' = [reply EXCEPT ![r] = word]
          /\ UNCHANGED <<exams, queued, ask, known, snap, at, now>>
      BY <2>1 DEF RejectAnswer, CallFails, RejectSubmit, EndWith, locals
    <3> QED
      BY <1>1, <3>1, MoveStep DEF exams
  <2>2. CASE AdmitAnswer(r)
    <3>1. status[ask[r].exam] # "none"
      BY <2>2 DEF AdmitAnswer, TakesAnswers
    <3> QED
      BY <1>1, <2>2, <3>1, MoveStep DEF AdmitAnswer, exams, locals
  <2>3. CASE AdmitSubmit(r)
    <3>1. status[ask[r].exam] # "none"
      BY <2>3 DEF AdmitSubmit, TakesSubmits
    <3> QED
      BY <1>1, <2>3, <3>1, MoveStep DEF AdmitSubmit, exams
  <2>4. CASE GetUserStats(r)
    <3>1. /\ pc[r] = "stats" /\ UNCHANGED <<exams, queued, ask, known, snap, at, now>>
          /\ \/ pc' = [pc EXCEPT ![r] = "credit"] /\ reply' = reply
             \/ pc' = [pc EXCEPT ![r] = "settled"] /\ reply' = [reply EXCEPT ![r] = "completed"]
      BY <2>4 DEF GetUserStats, SettleWith
    <3> QED
      BY <1>1, <3>1, SettleStep
  <2>5. CASE UpdateUserStats(r)
    BY <1>1, <2>5, SettleStep DEF UpdateUserStats, SettleWith, locals
  <2> QED
    BY <1>1, <1>6, <2>1, <2>2, <2>3, <2>4, <2>5, SaveStep, LoadStep, MistakeStep, FlagStep,
       CompleteStep DEF Serve
<1> QED
  BY <1>1, <1>2, <1>3, <1>4, <1>5, <1>6, CreateStep, ArriveStep DEF Next

(* The invariant holds throughout.                                         *)
THEOREM Invariance == Spec => []IInv
BY InitIInv, StepIInv, PTL DEF Spec

(* Every variable keeps its type: no exam reaches a status but the three,  *)
(* and no submission runs off the end of its paper.                        *)
THEOREM TypeCorrect == Spec => []TypeOK
<1>1. IInv => TypeOK
  BY DEF IInv, Types, TypeOK, Sums, Sheet, Marks
<1> QED
  BY <1>1, Invariance, PTL

(* A stored grade is of one set of answers some submission loaded whole,   *)
(* however many graded the exam at once.                                   *)
THEOREM GradesAreOfOneSnapshot == Spec => []GradeIsOfOneSnapshot
<1>1. IInv => GradeIsOfOneSnapshot
  BY DEF IInv, SoundExam, GradeIsOfOneSnapshot, Closing
<1> QED
  BY <1>1, Invariance, PTL

(* An answer acknowledged before a submission arrived is never graded as   *)
(* unanswered by it.                                                       *)
THEOREM AnswersAreGraded == Spec => []AcknowledgedAnswersAreGraded
<1>1. IInv => AcknowledgedAnswersAreGraded
  BY DEF IInv, SoundRequest, Kept, AcknowledgedAnswersAreGraded, Grading, Closing
<1> QED
  BY <1>1, Invariance, PTL

(* When an exam is completed, every question it was not credited for is in *)
(* the review queue, if no UpsertMistake fails: the submission whose grade *)
(* it stores has been through the whole paper.                             *)
THEOREM GapsEndUpQueued == Spec => []GapsAreQueued
<1>1. ASSUME IInv
      PROVE  GapsAreQueued
  <2> SUFFICES ASSUME NEW e \in Exams, status[e] = "completed", "mistake" \notin Faults,
                      NEW q \in OnPaper(e) \ queued
               PROVE  \E r \in Submitters(e) : snap[r][q] = "right" /\ result[e] = Grade(e, snap[r])
    BY DEF GapsAreQueued
  <2>1. PICK r \in Submitters(e) : pc[r] \in Closing /\ result[e] = Grade(e, snap[r])
    BY <1>1 DEF IInv, SoundExam
  <2>2. r \in Requests /\ ask[r].exam = e
    BY DEF Submitters
  <2>3. paper[e] \in [1 .. PaperSize -> Questions] /\ at[r] = PaperSize + 1 /\ GapsQueued(r)
    BY <1>1, <2>1, <2>2, PaperType DEF IInv, SoundExam, SoundRequest, Placed
  <2>4. PICK i \in 1 .. PaperSize : q = paper[e][i]
    BY <2>3 DEF OnPaper
  <2>5. Through(r, i)
    BY <2>3, PaperSizeType DEF Through
  <2>6. snap[r][q] = "right"
    BY <2>1, <2>2, <2>3, <2>4, <2>5 DEF GapsQueued, IsGap, Grading
  <2> QED
    BY <2>1, <2>6
<1> QED
  BY <1>1, Invariance, PTL

-----------------------------------------------------------------------------
(***************************************************************************)
(* What holds as long as submissions of an exam have not overlapped and no *)
(* CompleteExam has failed.  While a submission is grading, its exam is in *)
(* progress, and the flags it has set are its own verdicts; an exam is     *)
(* credited when nobody is left between completing and crediting it.       *)
(***************************************************************************)
Busy(r) == ask[r].op = "submit" /\ pc[r] \in {"arrived", "load", "grade", "flag", "stats", "credit"}

Alone == \A r, o \in Requests : Busy(r) /\ Busy(o) /\ ask[r].exam = ask[o].exam => r = o

NoneFailed == \A r \in Requests : pc[r] \in Closing => status[ask[r].exam] = "completed"

OpenWhileGrading ==
  \A r \in Requests : pc[r] \in {"load", "grade", "flag"} => status[ask[r].exam] = "in_progress"

Closed ==
  {e \in Exams : /\ status[e] = "completed"
                 /\ \A r \in Requests : pc[r] \in {"stats", "credit"} => ask[r].exam # e}

CreditsAreOfClosed == earned.exams <= Cardinality(Closed)

FlagsAreVerdicts ==
  \A r \in Requests : pc[r] \in {"grade", "flag"} /\ "flag" \notin Faults =>
    LET e == ask[r].exam
    IN  \A i \in 1 .. PaperSize : i < at[r] => flags[e][paper[e][i]] = Verdict(snap[r], paper[e][i])

Holds == OpenWhileGrading /\ CreditsAreOfClosed /\ FlagsAreVerdicts /\ FlagsAddUp

OrderlyInv == orderly => Alone /\ NoneFailed /\ Holds

(* A set of at most one element has no two.                                *)
LEMMA AtMostOne ==
  ASSUME NEW S, IsFiniteSet(S), Cardinality(S) <= 1, NEW x \in S, NEW y \in S
  PROVE  x = y
<1>1. IsFiniteSet({x, y}) /\ Cardinality({x, y}) <= Cardinality(S)
  BY FS_Subset
<1>2. x # y => Cardinality({x, y}) = 2
  <2>1. {x, y} = {x} \cup {y}
    OBVIOUS
  <2>2. x # y => Cardinality({x} \cup {y}) = Cardinality({x}) + 1
    BY FS_Singleton, FS_AddElement
  <2> QED
    BY <2>1, <2>2, FS_Singleton
<1>3. Cardinality(S) \in Nat
  BY FS_CardinalityType
<1> QED
  BY <1>1, <1>2, <1>3

LEMMA OrderlyMeans ==
  ASSUME IInv', Orderly'
  PROVE  Alone' /\ NoneFailed'
<1>1. ASSUME NEW r \in Requests, NEW o \in Requests, Busy(r)', Busy(o)', ask'[r].exam = ask'[o].exam
      PROVE  r = o
  <2>1. PICK e \in Exams : e = ask'[r].exam
    BY DEF IInv, Types, Answers, Submits
  <2> DEFINE S == Submitters(e)' \cap Running'
  <2>2. r \in S /\ o \in S
    BY <1>1, <2>1 DEF Running, Submitters, Busy
  <2>3. S \in SUBSET Requests /\ IsFiniteSet(S)
    BY ExamAssumption, FS_Subset DEF Running
  <2>4. Cardinality(S) <= 1
    BY DEF Orderly
  <2> HIDE DEF S
  <2> QED
    BY <2>2, <2>3, <2>4, AtMostOne
<1>2. ASSUME NEW r \in Requests, pc'[r] \in Closing
      PROVE  status'[ask'[r].exam] = "completed"
  <2>1. PICK e \in Exams : e = ask'[r].exam
    BY DEF IInv, Types, Answers, Submits
  <2>2. r \in Submitters(e)'
    BY <1>2, <2>1 DEF Submitters, IInv, SoundRequest, Placed, Grading
  <2>3. LedgerPhase(r)' # "idle"
    BY <1>2 DEF LedgerPhase, Closing
  <2> QED
    BY <2>1, <2>2, <2>3 DEF Orderly
<1> QED
  BY <1>1, <1>2 DEF Alone, NoneFailed

LEMMA ClosedIsFinite == IsFiniteSet(Closed) /\ Cardinality(Closed) \in Nat
<1>1. Closed \in SUBSET Exams
  BY DEF Closed
<1> QED
  BY <1>1, ExamAssumption, FS_Subset, FS_CardinalityType

(* A step that completes, flags and credits nothing keeps what orderly     *)
(* submissions rely on.                                                    *)
LEMMA QuietStep ==
  ASSUME IInv, IInv', Holds, UNCHANGED <<ask, flags, result, earned>>,
         \A e \in Exams : /\ status'[e] = "completed" <=> status[e] = "completed"
                          /\ status[e] # "none" => status'[e] = status[e] /\ paper'[e] = paper[e],
         \A r \in Requests :
           /\ pc'[r] \in {"load", "grade", "flag"} =>
                pc[r] \in {"load", "grade", "flag"} \/ status[ask[r].exam] = "in_progress"
           /\ pc'[r] \in {"grade", "flag"} =>
                \/ pc[r] \in {"grade", "flag"} /\ at'[r] = at[r] /\ snap'[r] = snap[r]
                \/ at'[r] = 1
           /\ pc'[r] \in {"stats", "credit"} => pc[r] \in {"stats", "credit"}
  PROVE  Holds'
<1>1. \A r \in Requests : ask[r].exam \in Exams
  BY AskType DEF IInv
<1>2. OpenWhileGrading'
  BY <1>1 DEF Holds, OpenWhileGrading
<1>3. CreditsAreOfClosed'
  <2>1. Closed \subseteq Closed'
    BY DEF Closed
  <2>2. IsFiniteSet(Closed') /\ Closed' \in SUBSET Exams
    BY ExamAssumption, FS_Subset DEF Closed
  <2>3. Cardinality(Closed) <= Cardinality(Closed') /\ Cardinality(Closed) \in Nat /\ Cardinality(Closed') \in Nat
    BY <2>1, <2>2, ClosedIsFinite, FS_Subset, FS_CardinalityType
  <2>4. earned'.exams = earned.exams /\ earned.exams \in Nat
    BY DEF IInv, Types, Sums
  <2> QED
    BY <2>3, <2>4 DEF Holds, CreditsAreOfClosed
<1>4. FlagsAreVerdicts'
  <2> SUFFICES ASSUME NEW r \in Requests, pc'[r] \in {"grade", "flag"}, "flag" \notin Faults,
                      NEW i \in 1 .. PaperSize, i < at'[r]
               PROVE  flags'[ask'[r].exam][paper'[ask'[r].exam][i]]
                        = Verdict(snap[r], paper[ask[r].exam][i])'
    BY DEF FlagsAreVerdicts
  <2>0. PICK e \in Exams : e = ask[r].exam
    BY <1>1
  <2>1. pc[r] \in {"grade", "flag"} /\ at'[r] = at[r] /\ snap'[r] = snap[r]
    OBVIOUS
  <2>2. status[e] = "in_progress"
    BY <2>0, <2>1 DEF Holds, OpenWhileGrading
  <2>3. paper'[e] = paper[e]
    BY <2>2
  <2> QED
    BY <2>0, <2>1, <2>3 DEF Holds, FlagsAreVerdicts, Verdict, IsGap
<1>5. FlagsAddUp'
  BY DEF Holds, FlagsAddUp, OnPaper
<1> QED
  BY <1>2, <1>3, <1>4, <1>5 DEF Holds

(* So does a step of one request of that kind.                             *)
LEMMA QuietRequest ==
  ASSUME IInv, IInv', Holds, UNCHANGED <<ask, flags, result, earned, status, paper>>,
         NEW r \in Requests,
         \A o \in Requests \ {r} : pc'[o] = pc[o] /\ at'[o] = at[o] /\ snap'[o] = snap[o],
         pc'[r] \in {"load", "grade", "flag"} =>
           pc[r] \in {"load", "grade", "flag"} \/ status[ask[r].exam] = "in_progress",
         pc'[r] \in {"grade", "flag"} =>
           \/ pc[r] \in {"grade", "flag"} /\ at'[r] = at[r] /\ snap'[r] = snap[r]
           \/ at'[r] = 1,
         pc'[r] \in {"stats", "credit"} => pc[r] \in {"stats", "credit"}
  PROVE  Holds'
<1>1. ASSUME NEW o \in Requests
      PROVE  /\ pc'[o] \in {"load", "grade", "flag"} =>
                  pc[o] \in {"load", "grade", "flag"} \/ status[ask[o].exam] = "in_progress"
             /\ pc'[o] \in {"grade", "flag"} =>
                  \/ pc[o] \in {"grade", "flag"} /\ at'[o] = at[o] /\ snap'[o] = snap[o]
                  \/ at'[o] = 1
             /\ pc'[o] \in {"stats", "credit"} => pc[o] \in {"stats", "credit"}
  <2>1. CASE o = r
    BY <2>1
  <2>2. CASE o # r
    BY <2>2
  <2> QED
    BY <2>1, <2>2
<1> QED
  BY <1>1, QuietStep

(* A flag is set by the only submission at work on its exam.               *)
LEMMA FlagHolds ==
  ASSUME IInv, IInv', Alone, Holds, NEW r \in Requests, SetExamAnswerCorrectness(r)
  PROVE  Holds'
<1>0. PICK e \in Exams : e = ask[r].exam
  BY AskType DEF IInv
<1>1. /\ pc[r] = "flag" /\ pc' = [pc EXCEPT ![r] = "grade"] /\ at' = [at EXCEPT ![r] = @ + 1]
      /\ UNCHANGED <<status, paper, result, earned, ask, snap>>
  BY DEF SetExamAnswerCorrectness, ledger
<1>2. /\ pc'[r] = "grade" /\ at'[r] = at[r] + 1
      /\ \A o \in Requests \ {r} : pc'[o] = pc[o] /\ at'[o] = at[o]
  BY <1>1 DEF IInv, Types
<1>3. /\ status[e] = "in_progress" /\ paper[e] \in [1 .. PaperSize -> Questions]
      /\ \A i, j \in 1 .. PaperSize : paper[e][i] = paper[e][j] => i = j
      /\ at[r] \in 1 .. PaperSize /\ Graded(r) = paper[e][at[r]] /\ ask[r].op = "submit"
  <2>1. status[e] = "in_progress"
    BY <1>0, <1>1 DEF Holds, OpenWhileGrading
  <2>2. paper[e] \in Papers /\ ask[r].op = "submit"
    BY <1>0, <1>1, GradingPaper DEF Grading
  <2>3. at[r] \in 1 .. PaperSize
    BY <1>1, PaperSizeType DEF IInv, Types, SoundRequest, Placed
  <2> QED
    BY <1>0, <2>1, <2>2, <2>3, PaperType DEF Graded
<1>4. /\ \A x \in Exams \ {e} : flags'[x] = flags[x]
      /\ \A q \in Questions : q # Graded(r) => flags'[e][q] = flags[e][q]
      /\ "flag" \notin Faults => flags'[e][Graded(r)] = Verdict(snap[r], Graded(r))
  <2>1. flags \in [Exams -> Sheet]
    BY DEF IInv, Types
  <2>2. CASE flags' = [flags EXCEPT ![e][Graded(r)] = Verdict(snap[r], Graded(r))]
    <3>1. Graded(r) \in Questions
      BY <1>3
    <3> QED
      BY <2>1, <2>2, <3>1 DEF Sheet
  <2>3. CASE "flag" \in Faults /\ UNCHANGED flags
    BY <2>3
  <2> QED
    BY <1>0, <2>2, <2>3 DEF SetExamAnswerCorrectness
<1>5. \A o \in Requests : ask[o].exam \in Exams
  BY AskType DEF IInv
<1>6. OpenWhileGrading'
  BY <1>1, <1>2 DEF Holds, OpenWhileGrading
<1>7. CreditsAreOfClosed'
  <2>1. Closed' = Closed
    BY <1>1, <1>2 DEF Closed
  <2> QED
    BY <1>1, <2>1 DEF Holds, CreditsAreOfClosed
<1>8. FlagsAreVerdicts'
  <2> SUFFICES ASSUME NEW o \in Requests, pc'[o] \in {"grade", "flag"}, "flag" \notin Faults,
                      NEW i \in 1 .. PaperSize, i < at'[o]
               PROVE  flags'[ask[o].exam][paper[ask[o].exam][i]] = Verdict(snap[o], paper[ask[o].exam][i])
    BY <1>1 DEF FlagsAreVerdicts, Verdict, IsGap
  <2>1. CASE o # r
    <3>1. pc[o] \in {"grade", "flag"} /\ i < at[o]
      BY <1>2, <2>1
    <3>2. ask[o].op = "submit"
      BY <3>1, GradingPaper DEF Grading
    <3>3. ask[o].exam # e
      BY <1>0, <1>1, <1>3, <2>1, <3>1, <3>2 DEF Alone, Busy
    <3> QED
      BY <1>4, <1>5, <3>1, <3>3 DEF Holds, FlagsAreVerdicts
  <2>2. CASE o = r /\ i = at[r]
    BY <1>0, <1>3, <1>4, <2>2
  <2>3. CASE o = r /\ i # at[r]
    <3>1. i < at[r]
      BY <1>2, <1>3, <2>3, PaperSizeType
    <3>2. paper[e][i] # Graded(r) /\ paper[e][i] \in Questions
      BY <1>3, <2>3
    <3>3. flags[e][paper[e][i]] = Verdict(snap[r], paper[e][i])
      BY <1>0, <1>1, <3>1 DEF Holds, FlagsAreVerdicts
    <3> QED
      BY <1>0, <1>4, <2>3, <3>2, <3>3
  <2> QED
    BY <2>1, <2>2, <2>3
<1>9. FlagsAddUp'
  <2> SUFFICES ASSUME NEW x \in Exams, status[x] = "completed", "flag" \notin Faults
               PROVE  Cardinality({q \in OnPaper(x) : flags'[x][q] = "right"}) = result[x].correct
    BY <1>1 DEF FlagsAddUp, OnPaper
  <2>1. flags'[x] = flags[x]
    BY <1>3, <1>4
  <2> QED
    BY <2>1 DEF Holds, FlagsAddUp
<1> QED
  BY <1>6, <1>7, <1>8, <1>9 DEF Holds

(* An exam is completed by the only submission at work on it: its flags    *)
(* are that one's verdicts, and it is not credited yet.                    *)
LEMMA CompleteHolds ==
  ASSUME IInv, IInv', Alone, Holds, NoneFailed', NEW r \in Requests, CompleteExam(r)
  PROVE  Holds'
<1>0. PICK e \in Exams : e = ask[r].exam
  BY AskType DEF IInv
<1>1. /\ pc[r] = "grade" /\ pc' = [pc EXCEPT ![r] = "stats"] /\ at[r] > Len(paper[e])
      /\ UNCHANGED <<paper, flags, earned, ask, snap, at>>
  BY <1>0 DEF CompleteExam, locals
<1>2. /\ pc'[r] = "stats" /\ \A o \in Requests \ {r} : pc'[o] = pc[o]
  BY <1>1 DEF IInv, Types
<1>3. /\ status[e] = "in_progress" /\ paper[e] \in [1 .. PaperSize -> Questions]
      /\ at[r] = PaperSize + 1 /\ ask[r].op = "submit"
  <2>1. status[e] = "in_progress"
    BY <1>0, <1>1 DEF Holds, OpenWhileGrading
  <2>2. paper[e] \in Papers /\ ask[r].op = "submit" /\ Len(paper[e]) = PaperSize
    BY <1>0, <1>1, GradingPaper DEF Grading
  <2>3. at[r] = PaperSize + 1
    BY <1>1, <2>2, PaperSizeType DEF IInv, Types
  <2> QED
    BY <2>1, <2>2, <2>3, PaperType
<1>4. status' = [status EXCEPT ![e] = "completed"] /\ result' = [result EXCEPT ![e] = Grade(e, snap[r])]
  <2>1. status'[e] = "completed"
    BY <1>0, <1>1, <1>2 DEF NoneFailed, Closing
  <2> QED
    BY <1>0, <1>3, <2>1 DEF CompleteExam, StatusAfter, GradeOf
<1>5. /\ status'[e] = "completed" /\ result'[e] = Grade(e, snap[r])
      /\ \A x \in Exams \ {e} : status'[x] = status[x] /\ result'[x] = result[x]
  BY <1>4 DEF IInv, Types
<1>6. \A o \in Requests : ask[o].exam \in Exams
  BY AskType DEF IInv
<1>7. \A o \in Requests \ {r} : pc[o] \in {"load", "grade", "flag"} => ask[o].exam # e
  BY <1>0, <1>1, <1>3, GradingPaper DEF Alone, Busy, Grading
<1>8. OpenWhileGrading'
  BY <1>1, <1>2, <1>5, <1>6, <1>7 DEF Holds, OpenWhileGrading
<1>9. CreditsAreOfClosed'
  <2>1. Closed \subseteq Closed'
    <3> SUFFICES ASSUME NEW x \in Closed
                 PROVE  x \in Closed'
      OBVIOUS
    <3>1. x \in Exams /\ x # e
      BY <1>3 DEF Closed
    <3> QED
      BY <1>0, <1>1, <1>2, <1>5, <3>1 DEF Closed
  <2>2. Closed' \subseteq Closed
    <3> SUFFICES ASSUME NEW x \in Closed'
                 PROVE  x \in Closed
      OBVIOUS
    <3>1. x \in Exams /\ x # e
      BY <1>0, <1>1, <1>2 DEF Closed
    <3> QED
      BY <1>1, <1>2, <1>5, <3>1 DEF Closed
  <2>3. Closed' = Closed
    BY <2>1, <2>2
  <2> QED
    BY <1>1, <2>3 DEF Holds, CreditsAreOfClosed
<1>10. FlagsAreVerdicts'
  <2>1. \A o \in Requests : pc'[o] \in {"grade", "flag"} => pc[o] \in {"grade", "flag"}
    BY <1>2
  <2> QED
    BY <1>1, <2>1 DEF Holds, FlagsAreVerdicts, Verdict, IsGap
<1>11. FlagsAddUp'
  <2> SUFFICES ASSUME NEW x \in Exams, status'[x] = "completed", "flag" \notin Faults
               PROVE  Cardinality({q \in OnPaper(x) : flags[x][q] = "right"}) = result'[x].correct
    BY <1>1 DEF FlagsAddUp, OnPaper
  <2>1. CASE x # e
    BY <1>5, <2>1 DEF Holds, FlagsAddUp
  <2>2. CASE x = e
    <3>1. ASSUME NEW q \in OnPaper(e)
          PROVE  flags[e][q] = "right" <=> snap[r][q] = "right"
      <4>1. PICK i \in 1 .. PaperSize : q = paper[e][i]
        BY <1>3 DEF OnPaper
      <4>2. i < at[r]
        BY <1>3, PaperSizeType
      <4>3. flags[e][q] = Verdict(snap[r], q)
        BY <1>0, <1>1, <4>1, <4>2 DEF Holds, FlagsAreVerdicts
      <4> QED
        BY <4>3 DEF Verdict, IsGap
    <3>2. {q \in OnPaper(e) : flags[e][q] = "right"} = Right(e, snap[r])
      BY <3>1 DEF Right
    <3>3. Grade(e, snap[r]).correct = Cardinality(Right(e, snap[r]))
      BY DEF Grade
    <3>4. result'[e].correct = Cardinality({q \in OnPaper(e) : flags[e][q] = "right"})
      BY <1>5, <3>2, <3>3
    <3> QED
      BY <2>2, <3>4
  <2> QED
    BY <2>1, <2>2
<1> QED
  BY <1>8, <1>9, <1>10, <1>11 DEF Holds

(* An exam is credited by the only submission at work on it, which leaves  *)
(* it closed.                                                              *)
LEMMA PayHolds ==
  ASSUME IInv, IInv', Alone, NoneFailed, Holds, NEW r \in Requests, UpdateUserStats(r)
  PROVE  Holds'
<1>0. PICK e \in Exams : e = ask[r].exam
  BY AskType DEF IInv
<1>1. /\ pc[r] = "credit" /\ pc' = [pc EXCEPT ![r] = "settled"]
      /\ UNCHANGED <<status, paper, flags, result, ask, snap, at>>
  BY DEF UpdateUserStats, SettleWith, exams, locals
<1>2. /\ pc'[r] = "settled" /\ \A o \in Requests \ {r} : pc'[o] = pc[o]
  BY <1>1 DEF IInv, Types
<1>3. CASE earned' = earned
  BY <1>1, <1>2, <1>3, QuietRequest
<1>4. CASE earned' = [c \in DOMAIN earned |-> earned[c] + CreditOf(r)[c]]
  <2>1. earned.exams \in Nat /\ earned'.exams = earned.exams + 1
    <3>1. DOMAIN earned = {"answered", "correct", "xp", "exams", "passed"} /\ earned.exams \in Nat
      BY DEF IInv, Types, Sums
    <3>2. CreditOf(r).exams = 1
      BY DEF CreditOf, ExamCredit
    <3> QED
      BY <1>4, <3>1, <3>2
  <2>2. ask[r].op = "submit" /\ status[e] = "completed"
    BY <1>0, <1>1, GradingPaper DEF NoneFailed, Grading, Closing
  <2>3. \A o \in Requests \ {r} : pc[o] \in {"stats", "credit"} => ask[o].exam # e
    BY <1>0, <1>1, <2>2, GradingPaper DEF Alone, Busy, Grading, Closing
  <2>4. e \notin Closed /\ e \in Closed'
    <3>1. e \notin Closed
      BY <1>0, <1>1 DEF Closed
    <3>2. e \in Closed'
      BY <1>0, <1>1, <1>2, <2>2, <2>3 DEF Closed
    <3> QED
      BY <3>1, <3>2
  <2>5. Closed \subseteq Closed'
    BY <1>1, <1>2 DEF Closed
  <2>6. IsFiniteSet(Closed') /\ Closed' \in SUBSET Exams
    BY ExamAssumption, FS_Subset DEF Closed
  <2>7. Cardinality(Closed \cup {e}) = Cardinality(Closed) + 1
    BY <2>4, ClosedIsFinite, FS_AddElement
  <2>8. Cardinality(Closed \cup {e}) <= Cardinality(Closed')
    BY <2>4, <2>5, <2>6, FS_Subset
  <2>9. CreditsAreOfClosed'
    BY <2>1, <2>6, <2>7, <2>8, ClosedIsFinite, FS_CardinalityType DEF Holds, CreditsAreOfClosed
  <2>10. OpenWhileGrading'
    BY <1>1, <1>2 DEF Holds, OpenWhileGrading
  <2>11. FlagsAreVerdicts'
    <3>1. \A o \in Requests : pc'[o] \in {"grade", "flag"} => pc[o] \in {"grade", "flag"}
      BY <1>2
    <3> QED
      BY <1>1, <3>1 DEF Holds, FlagsAreVerdicts, Verdict, IsGap
  <2>12. FlagsAddUp'
    BY <1>1 DEF Holds, FlagsAddUp, OnPaper
  <2> QED
    BY <2>9, <2>10, <2>11, <2>12 DEF Holds
<1> QED
  BY <1>3, <1>4 DEF UpdateUserStats

LEMMA OrderlyStep ==
  ASSUME IInv, IInv', Next, Alone, NoneFailed, Holds, NoneFailed'
  PROVE  Holds'
<1>0. /\ pc \in [Requests -> {"idle", "arrived", "save", "load", "grade", "flag",
                              "stats", "credit", "ended", "settled"}]
      /\ status \in [Exams -> {"none", "in_progress", "completed"}]
      /\ snap \in [Requests -> Sheet] /\ at \in [Requests -> 1 .. PaperSize + 1]
  BY DEF IInv, Types
<1>1. CASE NextDay
  BY <1>1, QuietStep DEF NextDay, exams, ledger, locals
<1>2. ASSUME NEW e \in Exams, CreateExam(e)
      PROVE  Holds'
  <2>1. /\ UNCHANGED <<ask, flags, result, earned, pc, at, snap>>
        /\ status[e] = "none" /\ status'[e] = "in_progress"
        /\ \A x \in Exams \ {e} : status'[x] = status[x] /\ paper'[x] = paper[x]
    BY <1>0, <1>2 DEF CreateExam, ledger, locals, IInv, Types
  <2>2. \A x \in Exams : /\ status'[x] = "completed" <=> status[x] = "completed"
                         /\ status[x] # "none" => status'[x] = status[x] /\ paper'[x] = paper[x]
    BY <2>1
  <2> QED
    BY <2>1, <2>2, QuietStep
<1>3. ASSUME NEW e \in Exams, DeadlinePasses(e)
      PROVE  Holds'
  BY <1>3, QuietStep DEF DeadlinePasses, exams, ledger, locals
<1>4. ASSUME NEW r \in Requests, Arrive(r)
      PROVE  Holds'
  <2>1. /\ pc'[r] = "arrived" /\ \A o \in Requests \ {r} : pc'[o] = pc[o]
        /\ UNCHANGED <<ask, flags, result, earned, status, paper, at, snap>>
    BY <1>0, <1>4 DEF Arrive, exams, ledger, locals
  <2> QED
    BY <2>1, QuietRequest
<1>5. ASSUME NEW r \in Requests, Crash(r)
      PROVE  Holds'
  <2>1. /\ pc'[r] \in {"ended", "settled"} /\ \A o \in Requests \ {r} : pc'[o] = pc[o]
        /\ UNCHANGED <<ask, flags, result, earned, status, paper, at, snap>>
    BY <1>0, <1>5 DEF Crash, EndWith, SettleWith, exams, ledger, locals
  <2> QED
    BY <2>1, QuietRequest
<1>6. ASSUME NEW r \in Requests, Serve(r)
      PROVE  Holds'
  <2>1. CASE RejectAnswer(r) \/ AdmitAnswer(r) \/ SaveExamAnswer(r) \/ CallFails(r) \/ RejectSubmit(r)
    <3>1. /\ pc'[r] \in {"ended", "save"} /\ \A o \in Requests \ {r} : pc'[o] = pc[o]
          /\ UNCHANGED <<ask, flags, result, earned, status, paper, at, snap>>
      BY <1>0, <2>1 DEF RejectAnswer, AdmitAnswer, SaveExamAnswer, CallFails, RejectSubmit, EndWith,
                        exams, ledger, locals
    <3> QED
      BY <3>1, QuietRequest
  <2>2. CASE AdmitSubmit(r)
    <3>1. /\ pc'[r] = "load" /\ \A o \in Requests \ {r} : pc'[o] = pc[o]
          /\ status[ask[r].exam] = "in_progress"
          /\ UNCHANGED <<ask, flags, result, earned, status, paper, at, snap>>
      BY <1>0, <2>2 DEF AdmitSubmit, TakesSubmits, exams, ledger
    <3> QED
      BY <3>1, QuietRequest
  <2>3. CASE GetExamAnswers(r)
    <3>1. /\ pc[r] = "load" /\ pc'[r] = "grade" /\ at'[r] = at[r]
          /\ \A o \in Requests \ {r} : pc'[o] = pc[o] /\ snap'[o] = snap[o] /\ at'[o] = at[o]
          /\ UNCHANGED <<ask, flags, result, earned, status, paper>>
      BY <1>0, <2>3 DEF GetExamAnswers, exams, ledger
    <3>2. at'[r] = 1
      BY <3>1 DEF IInv, SoundRequest, Placed
    <3> QED
      BY <3>1, <3>2, QuietRequest
  <2>4. CASE UpsertMistake(r)
    <3>1. /\ pc[r] = "grade" /\ pc'[r] = "flag" /\ \A o \in Requests \ {r} : pc'[o] = pc[o]
          /\ UNCHANGED <<ask, flags, result, earned, status, paper, at, snap>>
      BY <1>0, <2>4 DEF UpsertMistake, exams, ledger, locals
    <3> QED
      BY <3>1, QuietRequest
  <2>5. CASE GetUserStats(r)
    <3>1. /\ pc[r] = "stats" /\ pc'[r] \in {"credit", "settled"} /\ \A o \in Requests \ {r} : pc'[o] = pc[o]
          /\ UNCHANGED <<ask, flags, result, earned, status, paper, at, snap>>
      BY <1>0, <2>5 DEF GetUserStats, SettleWith, exams, ledger
    <3> QED
      BY <3>1, QuietRequest
  <2> QED
    BY <1>6, <2>1, <2>2, <2>3, <2>4, <2>5, FlagHolds, CompleteHolds, PayHolds DEF Serve
<1> QED
  BY <1>1, <1>2, <1>3, <1>4, <1>5, <1>6 DEF Next

LEMMA InitOrderly == MCInit => IInv /\ OrderlyInv
<1> SUFFICES ASSUME MCInit
             PROVE  IInv /\ OrderlyInv
  OBVIOUS
<1>1. IInv
  BY InitIInv DEF MCInit
<1>2. \A r \in Requests : ask[r].exam \in Exams
  BY <1>1, AskType DEF IInv
<1>3. CreditsAreOfClosed
  <2>1. earned.exams = 0
    BY DEF MCInit, Init, Nothing
  <2> QED
    BY <2>1, ClosedIsFinite DEF CreditsAreOfClosed
<1> QED
  BY <1>1, <1>2, <1>3 DEF MCInit, Init, OrderlyInv, Alone, NoneFailed, Holds, OpenWhileGrading,
                          FlagsAreVerdicts, FlagsAddUp, Busy, Closing

LEMMA StepOrderly == IInv /\ OrderlyInv /\ [MCNext]_<<vars, orderly>> => IInv' /\ OrderlyInv'
<1> SUFFICES ASSUME IInv, OrderlyInv, [MCNext]_<<vars, orderly>>
             PROVE  IInv' /\ OrderlyInv'
  OBVIOUS
<1>1. IInv'
  BY StepIInv DEF MCNext, vars
<1>2. CASE UNCHANGED <<vars, orderly>>
  <2>1. UNCHANGED <<status, paper, flags, result, pc, ask, snap, at, earned, orderly>>
    BY <1>2 DEF vars, exams, ledger, locals
  <2>2. Closed' = Closed
    BY <2>1 DEF Closed
  <2>3. CreditsAreOfClosed' = CreditsAreOfClosed
    BY <2>1, <2>2 DEF CreditsAreOfClosed
  <2>4. FlagsAreVerdicts' = FlagsAreVerdicts /\ FlagsAddUp' = FlagsAddUp
    BY <2>1 DEF FlagsAreVerdicts, FlagsAddUp, OnPaper, Verdict, IsGap
  <2>5. Alone' = Alone /\ NoneFailed' = NoneFailed /\ OpenWhileGrading' = OpenWhileGrading
    BY <2>1 DEF Alone, NoneFailed, OpenWhileGrading, Busy
  <2> QED
    BY <1>1, <2>1, <2>3, <2>4, <2>5 DEF OrderlyInv, Holds
<1>3. CASE MCNext
  <2> SUFFICES ASSUME orderly'
               PROVE  OrderlyInv'
    BY <1>1 DEF OrderlyInv
  <2>1. Next /\ orderly /\ Orderly'
    BY <1>3 DEF MCNext
  <2>2. Alone' /\ NoneFailed'
    BY <1>1, <2>1, OrderlyMeans
  <2>3. Alone /\ NoneFailed /\ Holds
    BY <2>1 DEF OrderlyInv
  <2>4. Holds'
    BY <1>1, <2>1, <2>2, <2>3, OrderlyStep
  <2> QED
    BY <2>2, <2>4 DEF OrderlyInv
<1> QED
  BY <1>2, <1>3

(* As long as submissions of an exam have not overlapped and no            *)
(* CompleteExam has failed, an exam is credited at most once, and its      *)
(* verdicts add up to its grade.                                           *)
THEOREM OrderlyExamsHold == MCSpec => []OrderlyExams
<1>1. ASSUME IInv, OrderlyInv
      PROVE  OrderlyExams
  <2> SUFFICES ASSUME orderly
               PROVE  GradedAtMostOnce /\ FlagsAddUp
    BY DEF OrderlyExams
  <2>1. FlagsAddUp /\ CreditsAreOfClosed
    BY <1>1 DEF OrderlyInv, Holds
  <2> DEFINE Completed == {e \in Exams : status[e] = "completed"}
  <2>2. Closed \subseteq Completed /\ IsFiniteSet(Completed)
    BY ExamAssumption, FS_Subset DEF Closed
  <2>3. Cardinality(Closed) <= Cardinality(Completed) /\ Cardinality(Completed) \in Nat
        /\ Cardinality(Closed) \in Nat
    BY <2>2, ClosedIsFinite, FS_Subset, FS_CardinalityType
  <2>4. earned.exams \in Nat
    BY <1>1 DEF IInv, Types, Sums
  <2>5. GradedAtMostOnce
    BY <2>1, <2>3, <2>4 DEF GradedAtMostOnce, CreditsAreOfClosed
  <2> QED
    BY <2>1, <2>5
<1> QED
  BY <1>1, InitOrderly, StepOrderly, PTL DEF MCSpec
=============================================================================
