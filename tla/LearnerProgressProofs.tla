----------------------- MODULE LearnerProgressProofs ------------------------
(***************************************************************************)
(* Proofs about LearnerProgress, for any exams, sessions and requests, any *)
(* questions, and every combination of faults: mock exams and practice     *)
(* sessions together implement StatsLedger.  What StatsLedgerProofs proves *)
(* of the ledger's row therefore holds of the row that the two share.      *)
(*                                                                         *)
(* A request of either is one of the ledger's from the step that fixes its *)
(* credit.  What has to be seen is that the credit stays fixed from then   *)
(* on, although an exam's is computed from a paper and a practice          *)
(* session's from a tally that other steps write; that the date it carries *)
(* is one the ledger allows for its kind; and that whoever writes the row  *)
(* for an active credit has taken a date.                                  *)
(***************************************************************************)
EXTENDS MCLearnerProgress, FiniteSetTheorems, TLAPS

(* A request as the ledger sees it.                                        *)
PhaseOf(r) == IF IsExam(r) THEN Exam!LedgerPhase(r) ELSE Practice!LedgerPhase(r)
KindOf(r)  == IF ~ InLedger(r) THEN "sync" ELSE IF IsExam(r) THEN "exam" ELSE "practice"
ClaimOf(r) == IF ~ InLedger(r) THEN SyncCredit(FALSE)
              ELSE IF IsExam(r) THEN Exam!CreditOf(r) ELSE Practice!CreditOf(r)
DateOf(r)  == IF IsExam(r) THEN IF InLedger(r) THEN examNow[r] ELSE NoDay ELSE now[r]
ReadOf(r)  == IF IsExam(r) THEN examRow[r] ELSE row[r]

Phases == [r \in Requests |-> PhaseOf(r)]
Kinds  == [r \in Requests |-> KindOf(r)]
Claims == [r \in Requests |-> ClaimOf(r)]
Dates  == [r \in Requests |-> DateOf(r)]
Reads  == [r \in Requests |-> ReadOf(r)]

(* The ledger sees nothing of what a step does to request r.               *)
Same(r) == /\ PhaseOf(r)' = PhaseOf(r) /\ KindOf(r)' = KindOf(r) /\ ClaimOf(r)' = ClaimOf(r)
           /\ DateOf(r)' = DateOf(r) /\ ReadOf(r)' = ReadOf(r)

OnlyMoves(r) == \A q \in Requests \ {r} : Same(q)

(* The three modules share LearnerStats, and its arithmetic.               *)
LEMMA SameArithmetic ==
  /\ Ledger!NoDay = NoDay /\ Ledger!FreshRow = FreshRow
  /\ Exam!NoDay = NoDay /\ Exam!FreshRow = FreshRow
  /\ Practice!NoDay = NoDay /\ Practice!FreshRow = FreshRow
  /\ \A b : Ledger!SyncCredit(b) = SyncCredit(b)
  /\ \A S : /\ Ledger!Cardinality(S) = Cardinality(S)
            /\ Exam!Cardinality(S) = Cardinality(S)
            /\ Practice!Cardinality(S) = Cardinality(S)
<1>1. /\ Ledger!NoDay = NoDay /\ Ledger!FreshRow = FreshRow
      /\ Exam!NoDay = NoDay /\ Exam!FreshRow = FreshRow
      /\ Practice!NoDay = NoDay /\ Practice!FreshRow = FreshRow
  BY DEF Ledger!NoDay, Exam!NoDay, Practice!NoDay, NoDay,
         Ledger!FreshRow, Exam!FreshRow, Practice!FreshRow, FreshRow
<1>2. \A b : Ledger!SyncCredit(b) = SyncCredit(b)
  BY DEF Ledger!SyncCredit, SyncCredit, Ledger!XPPerCorrectAnswer, XPPerCorrectAnswer,
         Ledger!XPPerIncorrectAnswer, XPPerIncorrectAnswer
<1>3. \A S : /\ Ledger!Cardinality(S) = Cardinality(S)
             /\ Exam!Cardinality(S) = Cardinality(S)
             /\ Practice!Cardinality(S) = Cardinality(S)
  BY Zenon DEF Ledger!Cardinality, Exam!Cardinality, Practice!Cardinality, Cardinality
<1> QED
  BY <1>1, <1>2, <1>3

LEMMA SameCredits ==
  /\ \A s, c, t, d : Ledger!Credited(s, c, t, d) = Exam!Credited(s, c, t, d)
  /\ \A s, c, t, d : Ledger!Credited(s, c, t, d) = Practice!Credited(s, c, t, d)
  /\ \A a, c, p : Ledger!ExamCredit(a, c, p) = Exam!ExamCredit(a, c, p)
  /\ \A a, c : Ledger!PracticeCredit(a, c) = Practice!PracticeCredit(a, c)
<1>1. \A s, c, t, d : Ledger!Credited(s, c, t, d) = Exam!Credited(s, c, t, d)
  BY SameArithmetic DEF Ledger!Credited, Exam!Credited, Ledger!Accrue, Exam!Accrue,
     Ledger!Level, Exam!Level, Ledger!NextStreak, Exam!NextStreak,
     Ledger!ActivityDate, Exam!ActivityDate
<1>2. \A s, c, t, d : Ledger!Credited(s, c, t, d) = Practice!Credited(s, c, t, d)
  BY SameArithmetic DEF Ledger!Credited, Practice!Credited, Ledger!Accrue, Practice!Accrue,
     Ledger!Level, Practice!Level, Ledger!NextStreak, Practice!NextStreak,
     Ledger!ActivityDate, Practice!ActivityDate
<1>3. \A a, c, p : Ledger!ExamCredit(a, c, p) = Exam!ExamCredit(a, c, p)
  BY DEF Ledger!ExamCredit, Exam!ExamCredit, Ledger!ExamCompletionXP, Exam!ExamCompletionXP,
     Ledger!XPPerCorrectAnswer, Exam!XPPerCorrectAnswer
<1>4. \A a, c : Ledger!PracticeCredit(a, c) = Practice!PracticeCredit(a, c)
  BY DEF Ledger!PracticeCredit, Practice!PracticeCredit,
     Ledger!XPPerCorrectAnswer, Practice!XPPerCorrectAnswer,
     Ledger!XPPerIncorrectAnswer, Practice!XPPerIncorrectAnswer
<1> QED
  BY <1>1, <1>2, <1>3, <1>4

-----------------------------------------------------------------------------
(***************************************************************************)
(* Steps of the ledger, as a request makes them: what the ledger asks of a *)
(* step is said of the one request that moves.                             *)
(***************************************************************************)
LEMMA Moves ==
  ASSUME NEW r \in Requests, OnlyMoves(r)
  PROVE  /\ Phases' = [Phases EXCEPT ![r] = PhaseOf(r)']
         /\ Kinds' = [Kinds EXCEPT ![r] = KindOf(r)']
         /\ Claims' = [Claims EXCEPT ![r] = ClaimOf(r)']
         /\ Dates' = [Dates EXCEPT ![r] = DateOf(r)']
         /\ Reads' = [Reads EXCEPT ![r] = ReadOf(r)']
         /\ Phases[r] = PhaseOf(r) /\ Kinds[r] = KindOf(r) /\ Claims[r] = ClaimOf(r)
         /\ Dates[r] = DateOf(r) /\ Reads[r] = ReadOf(r)
<1>1. Phases' = [Phases EXCEPT ![r] = PhaseOf(r)'] /\ Phases[r] = PhaseOf(r)
  BY DEF Phases, OnlyMoves, Same, Requests
<1>2. Kinds' = [Kinds EXCEPT ![r] = KindOf(r)'] /\ Kinds[r] = KindOf(r)
  BY DEF Kinds, OnlyMoves, Same, Requests
<1>3. Claims' = [Claims EXCEPT ![r] = ClaimOf(r)'] /\ Claims[r] = ClaimOf(r)
  BY DEF Claims, OnlyMoves, Same, Requests
<1>4. Dates' = [Dates EXCEPT ![r] = DateOf(r)'] /\ Dates[r] = DateOf(r)
  BY DEF Dates, OnlyMoves, Same, Requests
<1>5. Reads' = [Reads EXCEPT ![r] = ReadOf(r)'] /\ Reads[r] = ReadOf(r)
  BY DEF Reads, OnlyMoves, Same, Requests
<1> QED
  BY <1>1, <1>2, <1>3, <1>4, <1>5

(* What a step leaves alone of the request that moves.                     *)
LEMMA Stays ==
  ASSUME NEW r \in Requests, OnlyMoves(r)
  PROVE  /\ PhaseOf(r)' = PhaseOf(r) => Phases' = Phases
         /\ KindOf(r)' = KindOf(r) => Kinds' = Kinds
         /\ ClaimOf(r)' = ClaimOf(r) => Claims' = Claims
         /\ DateOf(r)' = DateOf(r) => Dates' = Dates
         /\ ReadOf(r)' = ReadOf(r) => Reads' = Reads
BY DEF Phases, Kinds, Claims, Dates, Reads, OnlyMoves, Same, Requests

LEMMA Rests ==
  ASSUME \A r \in Requests : Same(r), UNCHANGED <<day, stats, activeDays, earned>>
  PROVE  UNCHANGED Ledger!vars
<1>1. Phases' = Phases /\ Kinds' = Kinds /\ Claims' = Claims /\ Dates' = Dates /\ Reads' = Reads
  BY DEF Phases, Kinds, Claims, Dates, Reads, Same, Requests
<1> QED
  BY <1>1 DEF Ledger!vars, Phases, Kinds, Claims, Dates, Reads,
              PhaseOf, KindOf, ClaimOf, DateOf, ReadOf

(* The credit is fixed.                                                    *)
LEMMA EarnStep ==
  ASSUME NEW r \in Requests, OnlyMoves(r), NEW k \in {"exam", "practice"},
         NEW c \in Ledger!CreditsOf(k), NEW d \in Ledger!DaysTaken(k),
         PhaseOf(r) = "idle", PhaseOf(r)' = "earned", KindOf(r)' = k,
         ClaimOf(r)' = c, DateOf(r)' = d, activeDays' = activeDays \cup ({d} \ {NoDay}),
         ReadOf(r)' = ReadOf(r), UNCHANGED <<day, stats, earned>>
  PROVE  Ledger!Next
<1>1. Ledger!Cardinality(Ledger!InFlight) < Cardinality(Requests) + 1
  <2>1. IsFiniteSet(Requests)
    BY ProgressAssumption, FS_Union DEF Requests
  <2>2. Ledger!InFlight \in SUBSET Requests
    BY DEF Ledger!InFlight
  <2>3. /\ Cardinality(Ledger!InFlight) <= Cardinality(Requests)
        /\ Cardinality(Ledger!InFlight) \in Nat /\ Cardinality(Requests) \in Nat
    BY <2>1, <2>2, FS_Subset, FS_CardinalityType
  <2>4. Ledger!Cardinality(Ledger!InFlight) = Cardinality(Ledger!InFlight)
    BY SameArithmetic
  <2> QED
    BY <2>3, <2>4
<1>2. Ledger!Earn(r, k, c, d)
  <2>1. Phases[r] = "idle" /\ Phases' = [Phases EXCEPT ![r] = "earned"]
    BY Moves
  <2>2. /\ Kinds' = [Kinds EXCEPT ![r] = k]
        /\ Claims' = [Claims EXCEPT ![r] = c]
        /\ Dates' = [Dates EXCEPT ![r] = d]
    BY Moves
  <2>3. /\ activeDays' = activeDays \cup ({d} \ {Ledger!NoDay})
        /\ UNCHANGED <<day, stats, Reads, earned>>
    BY Stays, SameArithmetic
  <2> QED
    BY <1>1, <2>1, <2>2, <2>3
    DEF Ledger!Earn, Phases, Claims, Dates, Reads, Kinds, PhaseOf, ClaimOf, DateOf, ReadOf, KindOf
<1> QED
  BY <1>2 DEF Ledger!Next

(* The row is read, or its reading fails.                                  *)
LEMMA ReadStep ==
  ASSUME NEW r \in Requests, OnlyMoves(r),
         PhaseOf(r) = "earned", PhaseOf(r)' = "read", ReadOf(r)' = stats,
         KindOf(r)' = KindOf(r), ClaimOf(r)' = ClaimOf(r), DateOf(r)' = DateOf(r),
         UNCHANGED <<day, stats, activeDays, earned>>
  PROVE  Ledger!Next
<1>1. /\ Phases[r] = "earned" /\ Phases' = [Phases EXCEPT ![r] = "read"]
      /\ Reads' = [Reads EXCEPT ![r] = stats]
  BY Moves
<1>2. UNCHANGED <<Kinds, Claims, Dates>>
  BY Stays
<1>3. Ledger!ReadStats(r)
  BY <1>1, <1>2
  DEF Ledger!ReadStats, Phases, Claims, Dates, Reads, Kinds, PhaseOf, ClaimOf, DateOf, ReadOf, KindOf
<1> QED
  BY <1>3 DEF Ledger!Next

LEMMA ReadFailsStep ==
  ASSUME NEW r \in Requests, OnlyMoves(r),
         PhaseOf(r) = "earned", PhaseOf(r)' = IF KindOf(r) = "exam" THEN "done" ELSE "read",
         ReadOf(r)' = FreshRow,
         KindOf(r)' = KindOf(r), ClaimOf(r)' = ClaimOf(r), DateOf(r)' = DateOf(r),
         UNCHANGED <<day, stats, activeDays, earned>>
  PROVE  Ledger!Next
<1>1. /\ Phases[r] = "earned"
      /\ Phases' = [Phases EXCEPT ![r] = IF Kinds[r] = "exam" THEN "done" ELSE "read"]
      /\ Reads' = [Reads EXCEPT ![r] = Ledger!FreshRow]
  BY Moves, SameArithmetic
<1>2. UNCHANGED <<Kinds, Claims, Dates>>
  BY Stays
<1>3. Ledger!ReadFails(r)
  BY <1>1, <1>2
  DEF Ledger!ReadFails, Phases, Claims, Dates, Reads, Kinds, PhaseOf, ClaimOf, DateOf, ReadOf, KindOf
<1> QED
  BY <1>3 DEF Ledger!Next

(* The clock is read.                                                      *)
LEMMA NowStep ==
  ASSUME NEW r \in Requests, OnlyMoves(r),
         PhaseOf(r) = "read", PhaseOf(r)' = "read", DateOf(r) = NoDay, ClaimOf(r).active,
         DateOf(r)' = day, activeDays' = activeDays \cup {day},
         KindOf(r)' = KindOf(r), ClaimOf(r)' = ClaimOf(r), ReadOf(r)' = ReadOf(r),
         UNCHANGED <<day, stats, earned>>
  PROVE  Ledger!Next
<1>1. /\ Phases[r] = "read" /\ Dates[r] = Ledger!NoDay /\ Claims[r].active
      /\ Dates' = [Dates EXCEPT ![r] = day]
  BY Moves, SameArithmetic
<1>2. UNCHANGED <<Phases, Kinds, Claims, Reads>>
  BY Stays
<1>3. Ledger!TakeNow(r)
  BY <1>1, <1>2
  DEF Ledger!TakeNow, Phases, Claims, Dates, Reads, Kinds, PhaseOf, ClaimOf, DateOf, ReadOf, KindOf
<1> QED
  BY <1>3 DEF Ledger!Next

(* The row is written, or its request gives up.                            *)
LEMMA WriteStep ==
  ASSUME NEW r \in Requests, OnlyMoves(r),
         PhaseOf(r) = "read", PhaseOf(r)' = "done", ClaimOf(r).active => DateOf(r) # NoDay,
         stats' = Ledger!Credited(ReadOf(r), ClaimOf(r), DateOf(r), day),
         earned' = Ledger!Plus(earned, ClaimOf(r)),
         KindOf(r)' = KindOf(r), ClaimOf(r)' = ClaimOf(r), DateOf(r)' = DateOf(r),
         ReadOf(r)' = ReadOf(r), UNCHANGED <<day, activeDays>>
  PROVE  Ledger!Next
<1>1. /\ Phases[r] = "read" /\ Phases' = [Phases EXCEPT ![r] = "done"]
      /\ Claims[r].active => Dates[r] # Ledger!NoDay
      /\ stats' = Ledger!Credited(Reads[r], Claims[r], Dates[r], day)
      /\ earned' = Ledger!Plus(earned, Claims[r])
  BY Moves, SameArithmetic
<1>2. UNCHANGED <<Kinds, Claims, Dates, Reads>>
  BY Stays
<1>3. Ledger!WriteStats(r)
  BY <1>1, <1>2
  DEF Ledger!WriteStats, Phases, Claims, Dates, Reads, Kinds, PhaseOf, ClaimOf, DateOf, ReadOf, KindOf
<1> QED
  BY <1>3 DEF Ledger!Next

LEMMA GiveUpStep ==
  ASSUME NEW r \in Requests, OnlyMoves(r),
         PhaseOf(r) \in {"earned", "read"}, PhaseOf(r)' = "done",
         KindOf(r)' = KindOf(r), ClaimOf(r)' = ClaimOf(r), DateOf(r)' = DateOf(r),
         ReadOf(r)' = ReadOf(r), UNCHANGED <<day, stats, activeDays, earned>>
  PROVE  Ledger!Next
<1>1. Phases[r] \in {"earned", "read"} /\ Phases' = [Phases EXCEPT ![r] = "done"]
  BY Moves
<1>2. UNCHANGED <<Kinds, Claims, Dates, Reads>>
  BY Stays
<1>3. Ledger!GiveUp(r)
  BY <1>1, <1>2
  DEF Ledger!GiveUp, Phases, Claims, Dates, Reads, Kinds, PhaseOf, ClaimOf, DateOf, ReadOf, KindOf
<1> QED
  BY <1>3 DEF Ledger!Next

(* Midnight.                                                               *)
LEMMA DayStep ==
  ASSUME \A r \in Requests : Same(r), day < MaxDay, day' = day + 1,
         UNCHANGED <<stats, activeDays, earned>>
  PROVE  Ledger!Next
<1>1. Phases' = Phases /\ Kinds' = Kinds /\ Claims' = Claims /\ Dates' = Dates /\ Reads' = Reads
  BY DEF Phases, Kinds, Claims, Dates, Reads, Same, Requests
<1>2. Ledger!NextDay
  BY <1>1 DEF Ledger!NextDay, Phases, Kinds, Claims, Dates, Reads,
              PhaseOf, KindOf, ClaimOf, DateOf, ReadOf
<1> QED
  BY <1>2 DEF Ledger!Next

(* What a sum of credits adds, column by column.                           *)
Columns == {"answered", "correct", "xp", "exams", "passed"}

LEMMA SumIs ==
  ASSUME DOMAIN earned = Columns, NEW c
  PROVE  [f \in DOMAIN earned |-> earned[f] + c[f]] = Ledger!Plus(earned, c)
BY DEF Columns, Ledger!Plus

-----------------------------------------------------------------------------
(***************************************************************************)
(* What is so of exams and practice sessions whenever a step is taken.     *)
(***************************************************************************)
ExamPlaces == {"idle", "arrived", "save", "load", "grade", "flag",
               "stats", "credit", "ended", "settled"}

(* A submission that was admitted found its exam created, and has taken    *)
(* its date; it has read no row before it comes to that.                   *)
SoundExam(r) ==
  /\ examAsk[r].exam \in Exams
  /\ examPc[r] \in {"load", "grade", "flag", "stats", "credit", "settled"} =>
       examStatus[examAsk[r].exam] # "none" /\ examNow[r] \in 0 .. day
  /\ examPc[r] \in {"idle", "arrived", "save", "load", "grade", "flag", "stats"} =>
       examRow[r] = FreshRow

ExamTypes ==
  /\ examStatus \in [Exams -> {"none", "in_progress", "completed"}]
  /\ DOMAIN examPaper = Exams
  /\ examPc \in [ExamRequests -> ExamPlaces]
  /\ DOMAIN snap = ExamRequests /\ DOMAIN examNow = ExamRequests /\ DOMAIN examRow = ExamRequests

ExamInv ==
  /\ ExamTypes
  /\ \A e \in Exams : Exam!OnPaper(e) \subseteq Questions
  /\ \A r \in ExamRequests : SoundExam(r)

PracticePlaces == {"idle", "arrived", "save", "mistake", "tally", "stats",
                   "clock", "credit", "finish", "ended", "settled"}

(* The counts of a tally are of questions handed out.                      *)
IsTally(t) ==
  \E a \in 0 .. Cardinality(Questions) : \E c \in 0 .. a : t.answered = a /\ t.correct = c

(* A completion takes no date before it comes to that, and has taken one   *)
(* by the time it writes what it tallied, if that was anything.            *)
SoundPractice(r) ==
  /\ ask[r].session \in Sessions
  /\ pc[r] \in {"idle", "arrived", "tally", "stats", "clock"} => now[r] = NoDay
  /\ pc[r] \in {"stats", "clock", "credit", "finish", "settled"} => IsTally(tally[r])
  /\ pc[r] = "clock" => tally[r].answered > 0
  /\ pc[r] = "credit" /\ tally[r].answered > 0 => now[r] # NoDay

PracticeTypes ==
  /\ paper \in [Sessions -> SUBSET Questions]
  /\ pc \in [PracticeRequests -> PracticePlaces]
  /\ DOMAIN tally = PracticeRequests /\ DOMAIN now = PracticeRequests /\ DOMAIN row = PracticeRequests

PracticeInv ==
  /\ PracticeTypes
  /\ \A r \in PracticeRequests : SoundPractice(r)

SharedInv == day \in Nat /\ DOMAIN earned = Columns

ProgressInv == SharedInv /\ ExamInv /\ PracticeInv

LEMMA InitProgress == Init => ProgressInv
<1> SUFFICES ASSUME Init
             PROVE  ProgressInv
  OBVIOUS
<1>1. SharedInv
  BY DEF Init, Practice!Init, Practice!Nothing, SharedInv, Columns
<1>2. ExamInv
  <2>1. ExamTypes
    BY DEF Init, Exam!Init, ExamTypes, ExamPlaces
  <2>2. \A e \in Exams : Exam!OnPaper(e) \subseteq Questions
    BY DEF Init, Exam!Init, Exam!OnPaper
  <2>3. \A r \in ExamRequests : examAsk[r].exam \in Exams
    BY DEF Init, Exam!Init, Exam!Answers, Exam!Submits
  <2> QED
    BY <2>1, <2>2, <2>3, SameArithmetic DEF Init, Exam!Init, ExamInv, SoundExam
<1>3. PracticeInv
  <2>1. PracticeTypes
    BY DEF Init, Practice!Init, PracticeTypes, PracticePlaces
  <2>2. \A r \in PracticeRequests : ask[r].session \in Sessions
    BY DEF Init, Practice!Init, Practice!Answers, Practice!Completes
  <2> QED
    BY <2>1, <2>2, SameArithmetic DEF Init, Practice!Init, PracticeInv, SoundPractice
<1> QED
  BY <1>1, <1>2, <1>3 DEF ProgressInv

LEMMA InitRefines == Init => Ledger!Init
<1> SUFFICES ASSUME Init
             PROVE  Ledger!Init
  OBVIOUS
<1>1. \A r \in Requests : PhaseOf(r) = "idle"
  BY DEF Init, Exam!Init, Practice!Init, PhaseOf, IsExam, Requests, Exam!LedgerPhase, Practice!LedgerPhase
<1>2. \A r \in Requests : ~ InLedger(r)
  BY <1>1 DEF InLedger, PhaseOf, Exam!InLedger, Practice!InLedger
<1>3. \A r \in Requests : KindOf(r) = "sync" /\ ClaimOf(r) = Ledger!SyncCredit(FALSE)
  BY <1>2, SameArithmetic DEF KindOf, ClaimOf
<1>4. \A r \in Requests : DateOf(r) = Ledger!NoDay /\ ReadOf(r) = Ledger!FreshRow
  BY <1>2, SameArithmetic DEF Init, Exam!Init, Practice!Init, DateOf, ReadOf, IsExam, Requests
<1>5. /\ Phases = [r \in Requests |-> "idle"] /\ Kinds = [r \in Requests |-> "sync"]
      /\ Claims = [r \in Requests |-> Ledger!SyncCredit(FALSE)]
      /\ Dates = [r \in Requests |-> Ledger!NoDay] /\ Reads = [r \in Requests |-> Ledger!FreshRow]
  BY <1>1, <1>3, <1>4 DEF Phases, Kinds, Claims, Dates, Reads
<1>6. day = 0 /\ stats = Ledger!FreshRow /\ activeDays = {} /\ earned = Ledger!Nothing
  BY SameArithmetic DEF Init, Practice!Init, Practice!Nothing, Ledger!Nothing
<1> QED
  BY <1>5, <1>6 DEF Ledger!Init, Phases, Kinds, Claims, Dates, Reads, PhaseOf, KindOf, ClaimOf, DateOf, ReadOf

-----------------------------------------------------------------------------
(***************************************************************************)
(* The steps of exams.                                                     *)
(***************************************************************************)
(* A step of request r moves no other exam request, and unmakes no exam.   *)
ExamMoves(r) ==
  /\ examAsk' = examAsk /\ examPaper' = examPaper /\ day' = day
  /\ \E to \in ExamPlaces : examPc' = [examPc EXCEPT ![r] = to]
  /\ DOMAIN snap' = ExamRequests /\ DOMAIN examNow' = ExamRequests /\ DOMAIN examRow' = ExamRequests
  /\ \A q \in ExamRequests \ {r} : snap'[q] = snap[q] /\ examNow'[q] = examNow[q] /\ examRow'[q] = examRow[q]
  /\ examStatus' \in [Exams -> {"none", "in_progress", "completed"}]
  /\ \A e \in Exams : examStatus[e] # "none" => examStatus'[e] # "none"

(* A step that reads nothing and completes nothing. *)
ExamQuiet(r) ==
  /\ UNCHANGED <<examAsk, examPaper, day, examStatus, snap, examNow, examRow>>
  /\ \E to \in ExamPlaces : examPc' = [examPc EXCEPT ![r] = to]

LEMMA ExamQuietSteps ==
  ASSUME NEW r \in ExamRequests,
         \/ Exam!Arrive(r) \/ Exam!RejectAnswer(r) \/ Exam!AdmitAnswer(r) \/ Exam!SaveExamAnswer(r)
         \/ Exam!CallFails(r) \/ Exam!RejectSubmit(r) \/ Exam!UpsertMistake(r)
         \/ Exam!SetExamAnswerCorrectness(r) \/ Exam!UpdateUserStats(r) \/ Exam!Crash(r)
  PROVE  ExamQuiet(r)
<1>1. CASE Exam!Arrive(r)
  BY <1>1 DEF Exam!Arrive, ExamQuiet, ExamPlaces, Exam!exams, Exam!clocks, Exam!locals
<1>2. CASE Exam!RejectAnswer(r) \/ Exam!AdmitAnswer(r) \/ Exam!CallFails(r) \/ Exam!RejectSubmit(r)
  BY <1>2 DEF Exam!RejectAnswer, Exam!AdmitAnswer, Exam!CallFails, Exam!RejectSubmit, Exam!EndWith,
              ExamQuiet, ExamPlaces, Exam!exams, Exam!clocks, Exam!locals
<1>3. CASE Exam!SaveExamAnswer(r)
  BY <1>3 DEF Exam!SaveExamAnswer, Exam!EndWith, ExamQuiet, ExamPlaces, Exam!clocks, Exam!locals
<1>4. CASE Exam!UpsertMistake(r)
  BY <1>4 DEF Exam!UpsertMistake, ExamQuiet, ExamPlaces, Exam!exams, Exam!clocks, Exam!locals
<1>5. CASE Exam!SetExamAnswerCorrectness(r)
  BY <1>5 DEF Exam!SetExamAnswerCorrectness, ExamQuiet, ExamPlaces, Exam!clocks
<1>6. CASE Exam!UpdateUserStats(r)
  BY <1>6 DEF Exam!UpdateUserStats, Exam!SettleWith, ExamQuiet, ExamPlaces, Exam!exams, Exam!clocks, Exam!locals
<1>7. CASE Exam!Crash(r)
  BY <1>7 DEF Exam!Crash, Exam!EndWith, Exam!SettleWith, ExamQuiet, ExamPlaces, Exam!exams, Exam!clocks, Exam!locals
<1> QED
  BY <1>1, <1>2, <1>3, <1>4, <1>5, <1>6, <1>7

LEMMA ExamMove ==
  ASSUME ExamInv, NEW r \in ExamRequests, Exam!Arrive(r) \/ Exam!Serve(r) \/ Exam!Crash(r)
  PROVE  ExamMoves(r)
<1>0. ExamTypes /\ examAsk[r].exam \in Exams
  BY DEF ExamInv, SoundExam
<1>1. CASE ExamQuiet(r)
  BY <1>0, <1>1 DEF ExamQuiet, ExamMoves, ExamTypes
<1>2. CASE Exam!AdmitSubmit(r)
  BY <1>0, <1>2 DEF Exam!AdmitSubmit, ExamMoves, ExamTypes, ExamPlaces, Exam!exams, Exam!clocks
<1>3. CASE Exam!GetExamAnswers(r)
  BY <1>0, <1>3 DEF Exam!GetExamAnswers, ExamMoves, ExamTypes, ExamPlaces, Exam!exams, Exam!clocks
<1>4. CASE Exam!CompleteExam(r)
  <2>1. /\ UNCHANGED <<examAsk, examPaper, day, snap, examNow, examRow>>
        /\ examPc' = [examPc EXCEPT ![r] = "stats"]
    BY <1>4 DEF Exam!CompleteExam, Exam!clocks, Exam!locals
  <2>2. examStatus' = [examStatus EXCEPT ![examAsk[r].exam] = "completed"] \/ examStatus' = examStatus
    BY <1>4 DEF Exam!CompleteExam, Exam!StatusAfter
  <2> QED
    BY <1>0, <2>1, <2>2 DEF ExamMoves, ExamTypes, ExamPlaces
<1>5. CASE Exam!GetUserStats(r)
  <2>1. /\ UNCHANGED <<examAsk, examPaper, day, examStatus, snap, examNow>>
        /\ \E to \in ExamPlaces : examPc' = [examPc EXCEPT ![r] = to]
        /\ examRow' = examRow \/ examRow' = [examRow EXCEPT ![r] = stats]
    BY <1>5 DEF Exam!GetUserStats, Exam!SettleWith, ExamPlaces, Exam!exams, Exam!clocks
  <2> QED
    BY <1>0, <2>1 DEF ExamMoves, ExamTypes
<1> QED
  BY <1>1, <1>2, <1>3, <1>4, <1>5, ExamQuietSteps DEF Exam!Serve

LEMMA Apart ==
  /\ \A r \in ExamRequests : r \in Requests /\ IsExam(r)
  /\ \A r \in PracticeRequests : r \in Requests /\ ~ IsExam(r)
  /\ \A r \in Requests : r \in ExamRequests \/ r \in PracticeRequests
BY ProgressAssumption DEF Requests, IsExam

(* What the ledger sees of a request is what its own module holds of it.   *)
LEMMA ExamSame ==
  ASSUME NEW r \in ExamRequests, examPc'[r] = examPc[r], examRow'[r] = examRow[r],
         Exam!InLedger(r) => examNow'[r] = examNow[r] /\ Exam!CreditOf(r)' = Exam!CreditOf(r)
  PROVE  Same(r)
<1>1. IsExam(r) /\ Exam!LedgerPhase(r)' = Exam!LedgerPhase(r)
  BY Apart DEF Exam!LedgerPhase
<1>2. InLedger(r) = Exam!InLedger(r) /\ InLedger(r)' = InLedger(r)
  BY <1>1 DEF InLedger, Exam!InLedger, IsExam
<1> QED
  BY <1>1, <1>2 DEF Same, PhaseOf, KindOf, ClaimOf, DateOf, ReadOf, IsExam, SyncCredit

LEMMA PracticeSame ==
  ASSUME NEW r \in PracticeRequests, pc'[r] = pc[r], row'[r] = row[r], now'[r] = now[r],
         Practice!InLedger(r) => tally'[r] = tally[r]
  PROVE  Same(r)
<1>1. ~ IsExam(r) /\ Practice!LedgerPhase(r)' = Practice!LedgerPhase(r)
  BY Apart DEF Practice!LedgerPhase
<1>2. InLedger(r) = Practice!InLedger(r) /\ InLedger(r)' = InLedger(r)
  BY <1>1 DEF InLedger, Practice!InLedger, IsExam
<1>3. Practice!InLedger(r) => Practice!CreditOf(r)' = Practice!CreditOf(r)
  BY DEF Practice!CreditOf, Practice!PracticeCredit
<1> QED
  BY <1>1, <1>2, <1>3 DEF Same, PhaseOf, KindOf, ClaimOf, DateOf, ReadOf, IsExam, SyncCredit

LEMMA ExamCreditStays ==
  ASSUME NEW r \in ExamRequests, examAsk' = examAsk, snap'[r] = snap[r],
         examPaper'[examAsk[r].exam] = examPaper[examAsk[r].exam]
  PROVE  Exam!CreditOf(r)' = Exam!CreditOf(r)
BY DEF Exam!CreditOf, Exam!Answered, Exam!Right, Exam!OnPaper

LEMMA PracticeRests ==
  ASSUME UNCHANGED practiceOwn
  PROVE  \A r \in PracticeRequests : Same(r)
BY PracticeSame DEF practiceOwn

LEMMA ExamRests ==
  ASSUME UNCHANGED examOwn
  PROVE  \A r \in ExamRequests : Same(r)
<1> SUFFICES ASSUME NEW r \in ExamRequests
             PROVE  Same(r)
  OBVIOUS
<1>1. Exam!CreditOf(r)' = Exam!CreditOf(r)
  BY ExamCreditStays DEF examOwn
<1> QED
  BY <1>1, ExamSame DEF examOwn

LEMMA ExamMovesOne ==
  ASSUME ExamInv, NEW r \in ExamRequests, ExamMoves(r), UNCHANGED practiceOwn
  PROVE  OnlyMoves(r)
<1>1. ASSUME NEW q \in ExamRequests \ {r}
      PROVE  Same(q)
  <2>1. examPc'[q] = examPc[q] /\ examRow'[q] = examRow[q] /\ examNow'[q] = examNow[q]
    BY DEF ExamMoves, ExamInv, ExamTypes
  <2>2. Exam!CreditOf(q)' = Exam!CreditOf(q)
    BY ExamCreditStays DEF ExamMoves
  <2> QED
    BY <2>1, <2>2, ExamSame
<1> QED
  BY <1>1, PracticeRests, Apart DEF OnlyMoves

(* A step outside the ledger.                                              *)
LEMMA ExamOutside ==
  ASSUME ExamInv, NEW r \in ExamRequests, ExamMoves(r), UNCHANGED practiceOwn,
         PhaseOf(r) = "idle", PhaseOf(r)' = "idle", examRow'[r] = examRow[r],
         UNCHANGED <<stats, activeDays, earned>>
  PROVE  UNCHANGED Ledger!vars
<1>1. Same(r)
  BY Apart DEF Same, PhaseOf, KindOf, ClaimOf, DateOf, ReadOf, IsExam, InLedger, Exam!InLedger, SyncCredit
<1> QED
  BY <1>1, ExamMovesOne, Rests DEF OnlyMoves, ExamMoves

(* The credit of an exam is one the ledger knows.                          *)
LEMMA ExamCredits ==
  ASSUME ExamInv, NEW r \in ExamRequests
  PROVE  Exam!CreditOf(r) \in Ledger!CreditsOf("exam")
<1>1. PICK e \in Exams : e = examAsk[r].exam
  BY DEF ExamInv, SoundExam
<1> DEFINE A == Exam!Answered(e, snap[r])
           C == Exam!Right(e, snap[r])
<1>2. A \in SUBSET Questions /\ C \in SUBSET A
  BY DEF ExamInv, Exam!Answered, Exam!Right
<1>3. /\ Cardinality(A) \in 0 .. Cardinality(Questions) /\ Cardinality(C) \in 0 .. Cardinality(A)
      /\ Cardinality(Questions) \in Nat
  <2>1. IsFiniteSet(A) /\ IsFiniteSet(C) /\ IsFiniteSet(Questions)
    BY <1>2, ProgressAssumption, FS_Subset
  <2>2. Cardinality(A) <= Cardinality(Questions) /\ Cardinality(C) <= Cardinality(A)
    BY <1>2, <2>1, ProgressAssumption, FS_Subset
  <2>3. Cardinality(A) \in Nat /\ Cardinality(C) \in Nat /\ Cardinality(Questions) \in Nat
    BY <2>1, FS_CardinalityType
  <2> QED
    BY <2>2, <2>3
<1>4. PICK p \in BOOLEAN : Exam!CreditOf(r) = Ledger!ExamCredit(Cardinality(A), Cardinality(C), p)
  <2>1. Exam!CreditOf(r) = Exam!ExamCredit(Cardinality(A), Cardinality(C), Cardinality(C) >= ExamPassCount)
    BY <1>1, SameArithmetic, Zenon DEF Exam!CreditOf
  <2>2. PICK p \in BOOLEAN : p = (Cardinality(C) >= ExamPassCount)
    <3>1. (Cardinality(C) >= ExamPassCount) \in BOOLEAN
      BY <1>3, ProgressAssumption
    <3> QED
      BY <3>1, Zenon
  <2> QED
    BY <2>1, <2>2, SameCredits, Zenon
<1> HIDE DEF A, C
<1>5. Exam!CreditOf(r) \in Ledger!ExamCredits
  <2>1. PICK a \in 0 .. Cardinality(Questions) : \E c \in 0 .. a :
          Exam!CreditOf(r) = Ledger!ExamCredit(a, c, p)
    BY <1>3, <1>4
  <2>2. PICK c \in 0 .. a : Exam!CreditOf(r) = Ledger!ExamCredit(a, c, p)
    BY <2>1
  <2>3. \E x \in 0 .. a, y \in BOOLEAN : Exam!CreditOf(r) = Ledger!ExamCredit(a, x, y)
    BY <2>2, Zenon
  <2>4. Exam!CreditOf(r) \in {Ledger!ExamCredit(a, x, y) : x \in 0 .. a, y \in BOOLEAN}
    BY <2>3
  <2> QED
    BY <2>4 DEF Ledger!ExamCredits
<1> QED
  BY <1>5 DEF Ledger!CreditsOf

(* CompleteExam fixes the credit.                                          *)
LEMMA ExamEarns ==
  ASSUME ProgressInv, NEW r \in ExamRequests, Exam!CompleteExam(r), UNCHANGED practiceOwn
  PROVE  Ledger!Next
<1>1. /\ examPc[r] = "grade" /\ examPc'[r] = "stats"
      /\ UNCHANGED <<examAsk, examPaper, day, snap, examNow, examRow, stats, earned>>
      /\ activeDays' = activeDays \cup {examNow[r]}
  BY DEF Exam!CompleteExam, Exam!clocks, Exam!locals, ProgressInv, ExamInv, ExamTypes
<1>2. examNow[r] \in 0 .. day /\ examNow[r] # NoDay
  BY <1>1 DEF ProgressInv, SharedInv, ExamInv, SoundExam, NoDay
<1>3. OnlyMoves(r) /\ r \in Requests /\ IsExam(r)
  BY ExamMove, ExamMovesOne, Apart DEF ProgressInv, Exam!Serve
<1>4. PhaseOf(r) = "idle" /\ PhaseOf(r)' = "earned" /\ InLedger(r)'
  BY <1>1, <1>3 DEF PhaseOf, Exam!LedgerPhase, InLedger, Exam!InLedger, IsExam
<1>5. Exam!CreditOf(r)' = Exam!CreditOf(r)
  BY <1>1, ExamCreditStays
<1>6. KindOf(r)' = "exam" /\ ClaimOf(r)' = Exam!CreditOf(r) /\ DateOf(r)' = examNow[r] /\ ReadOf(r)' = ReadOf(r)
  BY <1>1, <1>3, <1>4, <1>5 DEF KindOf, ClaimOf, DateOf, ReadOf, IsExam
<1>7. Exam!CreditOf(r) \in Ledger!CreditsOf("exam")
  BY ExamCredits DEF ProgressInv
<1>8. examNow[r] \in Ledger!DaysTaken("exam")
  BY <1>2 DEF Ledger!DaysTaken
<1>9. activeDays' = activeDays \cup ({examNow[r]} \ {NoDay})
  BY <1>1, <1>2
<1> QED
  BY <1>1, <1>3, <1>4, <1>6, <1>7, <1>8, <1>9, EarnStep

(* What stays of a request in the ledger until it settles.                 *)
LEMMA ExamInLedger ==
  ASSUME ExamInv, NEW r \in ExamRequests, ExamMoves(r), UNCHANGED practiceOwn,
         snap'[r] = snap[r], examNow'[r] = examNow[r],
         examPc[r] \in {"stats", "credit"}, examPc'[r] \in {"credit", "settled"}
  PROVE  /\ OnlyMoves(r) /\ r \in Requests
         /\ KindOf(r) = "exam" /\ ClaimOf(r) = Exam!CreditOf(r) /\ DateOf(r) = examNow[r]
         /\ ReadOf(r) = examRow[r] /\ ReadOf(r)' = examRow'[r]
         /\ KindOf(r)' = KindOf(r) /\ ClaimOf(r)' = ClaimOf(r) /\ DateOf(r)' = DateOf(r)
         /\ PhaseOf(r) = IF examPc[r] = "stats" THEN "earned" ELSE "read"
         /\ PhaseOf(r)' = IF examPc'[r] = "credit" THEN "read" ELSE "done"
<1>1. OnlyMoves(r) /\ r \in Requests /\ IsExam(r)
  BY ExamMovesOne, Apart
<1>2. /\ PhaseOf(r) = IF examPc[r] = "stats" THEN "earned" ELSE "read"
      /\ PhaseOf(r)' = IF examPc'[r] = "credit" THEN "read" ELSE "done"
      /\ InLedger(r) /\ InLedger(r)'
  BY <1>1 DEF PhaseOf, Exam!LedgerPhase, InLedger, Exam!InLedger, IsExam
<1>3. Exam!CreditOf(r)' = Exam!CreditOf(r)
  BY ExamCreditStays DEF ExamMoves
<1> QED
  BY <1>1, <1>2, <1>3 DEF KindOf, ClaimOf, DateOf, ReadOf, IsExam

LEMMA ExamReads ==
  ASSUME ProgressInv, NEW r \in ExamRequests, Exam!GetUserStats(r), UNCHANGED practiceOwn
  PROVE  Ledger!Next
<1>1. /\ examPc[r] = "stats" /\ UNCHANGED <<day, snap, examNow, stats, activeDays, earned>>
      /\ \/ examPc'[r] = "credit" /\ examRow' = [examRow EXCEPT ![r] = stats]
         \/ examPc'[r] = "settled" /\ examRow' = examRow
  BY DEF Exam!GetUserStats, Exam!SettleWith, Exam!ledger, Exam!clocks, ProgressInv, ExamInv, ExamTypes
<1>2. ExamMoves(r)
  BY ExamMove DEF ProgressInv, Exam!Serve
<1>3. CASE examPc'[r] = "credit" /\ examRow' = [examRow EXCEPT ![r] = stats]
  <2>1. examRow'[r] = stats
    BY <1>3 DEF ProgressInv, ExamInv, ExamTypes
  <2> QED
    BY <1>1, <1>2, <1>3, <2>1, ExamInLedger, ReadStep DEF ProgressInv
<1>4. CASE examPc'[r] = "settled" /\ examRow' = examRow
  <2>1. examRow'[r] = FreshRow
    BY <1>1, <1>4 DEF ProgressInv, ExamInv, SoundExam
  <2> QED
    BY <1>1, <1>2, <1>4, <2>1, ExamInLedger, ReadFailsStep DEF ProgressInv
<1> QED
  BY <1>1, <1>3, <1>4

LEMMA ExamWrites ==
  ASSUME ProgressInv, NEW r \in ExamRequests, Exam!UpdateUserStats(r), UNCHANGED practiceOwn
  PROVE  Ledger!Next
<1>1. /\ examPc[r] = "credit" /\ examPc'[r] = "settled"
      /\ UNCHANGED <<day, snap, examNow, examRow, activeDays>>
      /\ \/ /\ stats' = Exam!Credited(examRow[r], Exam!CreditOf(r), examNow[r], day)
            /\ earned' = [f \in DOMAIN earned |-> earned[f] + Exam!CreditOf(r)[f]]
         \/ UNCHANGED <<stats, earned>>
  BY DEF Exam!UpdateUserStats, Exam!SettleWith, Exam!clocks, Exam!locals, ProgressInv, ExamInv, ExamTypes
<1>2. ExamMoves(r)
  BY ExamMove DEF ProgressInv, Exam!Serve
<1>3. examNow[r] # NoDay
  BY <1>1 DEF ProgressInv, SharedInv, ExamInv, SoundExam, NoDay
<1>4. CASE /\ stats' = Exam!Credited(examRow[r], Exam!CreditOf(r), examNow[r], day)
           /\ earned' = [f \in DOMAIN earned |-> earned[f] + Exam!CreditOf(r)[f]]
  <2>1. /\ stats' = Ledger!Credited(examRow[r], Exam!CreditOf(r), examNow[r], day)
        /\ earned' = Ledger!Plus(earned, Exam!CreditOf(r))
    BY <1>4, SameCredits, SumIs DEF ProgressInv, SharedInv
  <2> QED
    BY <1>1, <1>2, <1>3, <2>1, ExamInLedger, WriteStep DEF ProgressInv
<1>5. CASE UNCHANGED <<stats, earned>>
  BY <1>1, <1>2, <1>5, ExamInLedger, GiveUpStep DEF ProgressInv
<1> QED
  BY <1>1, <1>4, <1>5

LEMMA ExamDies ==
  ASSUME ProgressInv, NEW r \in ExamRequests, Exam!Crash(r), UNCHANGED practiceOwn
  PROVE  Ledger!Next \/ UNCHANGED Ledger!vars
<1>1. /\ UNCHANGED <<day, snap, examNow, examRow, stats, activeDays, earned>>
      /\ \/ examPc[r] \in {"arrived", "save", "load", "grade", "flag"} /\ examPc'[r] = "ended"
         \/ examPc[r] \in {"stats", "credit"} /\ examPc'[r] = "settled"
  BY DEF Exam!Crash, Exam!EndWith, Exam!SettleWith, Exam!ledger, Exam!clocks, Exam!locals,
         ProgressInv, ExamInv, ExamTypes
<1>2. ExamMoves(r)
  BY ExamMove DEF ProgressInv
<1>3. CASE examPc[r] \in {"arrived", "save", "load", "grade", "flag"} /\ examPc'[r] = "ended"
  <2>1. PhaseOf(r) = "idle" /\ PhaseOf(r)' = "idle"
    BY <1>3, Apart DEF PhaseOf, Exam!LedgerPhase, IsExam
  <2> QED
    BY <1>1, <1>2, <2>1, ExamOutside DEF ProgressInv
<1>4. CASE examPc[r] \in {"stats", "credit"} /\ examPc'[r] = "settled"
  BY <1>1, <1>2, <1>4, ExamInLedger, GiveUpStep DEF ProgressInv
<1> QED
  BY <1>1, <1>3, <1>4

(* The invariant of exams is kept: a request that grades was admitted, and *)
(* whoever has not come to reading the row has not read it.                *)
LEMMA ExamProceeds ==
  ASSUME ProgressInv, NEW r \in ExamRequests, Exam!Arrive(r) \/ Exam!Serve(r) \/ Exam!Crash(r)
  PROVE  SoundExam(r)'
<1>0. SoundExam(r) /\ ExamTypes /\ ExamMoves(r) /\ day \in Nat
  BY ExamMove DEF ProgressInv, SharedInv, ExamInv
<1>1. ASSUME ExamQuiet(r),
             examPc'[r] \in {"load", "grade", "flag", "stats", "credit", "settled"} =>
               examPc[r] \in {"load", "grade", "flag", "stats", "credit", "settled"},
             examPc'[r] \in {"idle", "arrived", "save", "load", "grade", "flag", "stats"} =>
               examPc[r] \in {"idle", "arrived", "save", "load", "grade", "flag", "stats"}
      PROVE  SoundExam(r)'
  BY <1>0, <1>1 DEF SoundExam, ExamQuiet
<1>2. CASE Exam!Arrive(r)
  <2>1. examPc[r] = "idle" /\ examPc'[r] = "arrived"
    BY <1>0, <1>2 DEF Exam!Arrive, ExamTypes
  <2> QED
    BY <1>1, <1>2, <2>1, ExamQuietSteps
<1>3. CASE Exam!RejectAnswer(r) \/ Exam!AdmitAnswer(r) \/ Exam!CallFails(r) \/ Exam!RejectSubmit(r)
  <2>1. examPc[r] \in {"arrived", "save", "load"} /\ examPc'[r] \in {"save", "ended"}
        /\ (examPc'[r] = "save" => examPc[r] = "arrived")
    BY <1>0, <1>3 DEF Exam!RejectAnswer, Exam!AdmitAnswer, Exam!CallFails, Exam!RejectSubmit,
                      Exam!EndWith, ExamTypes
  <2> QED
    BY <1>1, <1>3, <2>1, ExamQuietSteps
<1>4. CASE Exam!SaveExamAnswer(r)
  <2>1. examPc'[r] = "ended"
    BY <1>0, <1>4 DEF Exam!SaveExamAnswer, Exam!EndWith, ExamTypes
  <2> QED
    BY <1>1, <1>4, <2>1, ExamQuietSteps
<1>5. CASE Exam!UpsertMistake(r)
  <2>1. examPc[r] = "grade" /\ examPc'[r] = "flag"
    BY <1>0, <1>5 DEF Exam!UpsertMistake, ExamTypes
  <2> QED
    BY <1>1, <1>5, <2>1, ExamQuietSteps
<1>6. CASE Exam!SetExamAnswerCorrectness(r)
  <2>1. examPc[r] = "flag" /\ examPc'[r] = "grade"
    BY <1>0, <1>6 DEF Exam!SetExamAnswerCorrectness, ExamTypes
  <2> QED
    BY <1>1, <1>6, <2>1, ExamQuietSteps
<1>7. CASE Exam!UpdateUserStats(r)
  <2>1. examPc[r] = "credit" /\ examPc'[r] = "settled"
    BY <1>0, <1>7 DEF Exam!UpdateUserStats, Exam!SettleWith, ExamTypes
  <2> QED
    BY <1>1, <1>7, <2>1, ExamQuietSteps
<1>8. CASE Exam!Crash(r)
  <2>1. \/ examPc'[r] = "ended"
        \/ examPc[r] \in {"stats", "credit"} /\ examPc'[r] = "settled"
    BY <1>0, <1>8 DEF Exam!Crash, Exam!EndWith, Exam!SettleWith, ExamTypes
  <2> QED
    BY <1>1, <1>8, <2>1, ExamQuietSteps
<1>9. CASE Exam!AdmitSubmit(r)
  <2>1. /\ examPc[r] = "arrived" /\ examPc'[r] = "load" /\ examNow'[r] = day
        /\ examStatus[examAsk[r].exam] = "in_progress"
        /\ UNCHANGED <<examAsk, examStatus, examRow, day>>
    BY <1>0, <1>9 DEF Exam!AdmitSubmit, Exam!TakesSubmits, Exam!exams, Exam!clocks, ExamTypes
  <2>2. examNow'[r] \in 0 .. day'
    BY <1>0, <2>1
  <2> QED
    BY <1>0, <2>1, <2>2 DEF SoundExam
<1>10. CASE Exam!GetExamAnswers(r)
  <2>1. /\ examPc[r] = "load" /\ examPc'[r] = "grade"
        /\ UNCHANGED <<examAsk, examStatus, examNow, examRow, day>>
    BY <1>0, <1>10 DEF Exam!GetExamAnswers, Exam!exams, Exam!clocks, ExamTypes
  <2> QED
    BY <1>0, <2>1 DEF SoundExam
<1>11. CASE Exam!CompleteExam(r)
  <2>1. /\ examPc[r] = "grade" /\ examPc'[r] = "stats"
        /\ UNCHANGED <<examAsk, examNow, examRow, day>>
    BY <1>0, <1>11 DEF Exam!CompleteExam, Exam!locals, Exam!clocks, ExamTypes
  <2> QED
    BY <1>0, <2>1 DEF SoundExam, ExamMoves
<1>12. CASE Exam!GetUserStats(r)
  <2>1. /\ examPc[r] = "stats" /\ examPc'[r] \in {"credit", "settled"}
        /\ UNCHANGED <<examAsk, examStatus, examNow, day>>
    BY <1>0, <1>12 DEF Exam!GetUserStats, Exam!SettleWith, Exam!exams, Exam!clocks, ExamTypes
  <2> QED
    BY <1>0, <2>1 DEF SoundExam
<1> QED
  BY <1>2, <1>3, <1>4, <1>5, <1>6, <1>7, <1>8, <1>9, <1>10, <1>11, <1>12 DEF Exam!Serve

(* What an exam's request adds to the sums are the sums' columns.          *)
LEMMA ExamSums ==
  ASSUME NEW r \in ExamRequests, Exam!Arrive(r) \/ Exam!Serve(r) \/ Exam!Crash(r)
  PROVE  DOMAIN earned' = DOMAIN earned
<1>1. CASE Exam!UpdateUserStats(r)
  <2>1. \/ earned' = [f \in DOMAIN earned |-> earned[f] + Exam!CreditOf(r)[f]]
        \/ earned' = earned
    BY <1>1 DEF Exam!UpdateUserStats
  <2> QED
    BY <2>1
<1>2. CASE ~ Exam!UpdateUserStats(r)
  <2>1. earned' = earned
    BY <1>2 DEF Exam!Arrive, Exam!Serve, Exam!Crash, Exam!RejectAnswer, Exam!AdmitAnswer,
       Exam!SaveExamAnswer, Exam!CallFails, Exam!RejectSubmit, Exam!AdmitSubmit, Exam!GetExamAnswers,
       Exam!UpsertMistake, Exam!SetExamAnswerCorrectness, Exam!CompleteExam, Exam!GetUserStats,
       Exam!ledger
  <2> QED
    BY <2>1
<1> QED
  BY <1>1, <1>2

(* Steps of exams leave practice as it is.                                 *)
LEMMA PracticeKept ==
  ASSUME PracticeInv, UNCHANGED practiceOwn
  PROVE  PracticeInv'
<1>1. UNCHANGED <<paper, pc, ask, tally, now, row>>
  BY DEF practiceOwn
<1> QED
  BY <1>1 DEF PracticeInv, PracticeTypes, SoundPractice, IsTally

LEMMA ExamServes ==
  ASSUME ProgressInv, NEW r \in ExamRequests, Exam!Arrive(r) \/ Exam!Serve(r) \/ Exam!Crash(r),
         UNCHANGED practiceOwn
  PROVE  ProgressInv' /\ [Ledger!Next]_(Ledger!vars)
<1>0. ExamInv /\ ExamMoves(r)
  BY ExamMove DEF ProgressInv
<1>1. ProgressInv'
  <2>1. \A e \in Exams : Exam!OnPaper(e)' \subseteq Questions
    BY <1>0 DEF ExamInv, ExamMoves, Exam!OnPaper
  <2>2. ExamTypes'
    BY <1>0 DEF ExamInv, ExamMoves, ExamTypes
  <2>3. ASSUME NEW q \in ExamRequests \ {r}
        PROVE  SoundExam(q)'
    <3>1. examPc'[q] = examPc[q]
      BY <1>0 DEF ExamInv, ExamMoves, ExamTypes
    <3> QED
      BY <1>0, <3>1 DEF ExamInv, ExamMoves, SoundExam
  <2>4. ExamInv'
    BY <2>1, <2>2, <2>3, ExamProceeds DEF ExamInv
  <2>5. SharedInv'
    BY <1>0, ExamSums DEF ProgressInv, SharedInv, ExamMoves
  <2> QED
    BY <2>4, <2>5, PracticeKept DEF ProgressInv
<1>2. ASSUME examPc[r] \notin {"stats", "credit", "settled"}, examPc'[r] \notin {"stats", "credit", "settled"},
             examRow'[r] = examRow[r], UNCHANGED <<stats, activeDays, earned>>
      PROVE  UNCHANGED Ledger!vars
  <2>1. PhaseOf(r) = "idle" /\ PhaseOf(r)' = "idle"
    BY <1>2, Apart DEF PhaseOf, Exam!LedgerPhase, IsExam
  <2> QED
    BY <1>0, <1>2, <2>1, ExamOutside
<1>3. CASE Exam!Arrive(r)
  BY <1>0, <1>1, <1>2, <1>3 DEF Exam!Arrive, Exam!ledger, Exam!locals, ExamInv, ExamTypes
<1>4. CASE Exam!RejectAnswer(r) \/ Exam!AdmitAnswer(r) \/ Exam!CallFails(r) \/ Exam!RejectSubmit(r)
           \/ Exam!AdmitSubmit(r)
  <2>1. /\ examPc[r] \in {"arrived", "save", "load"} /\ examPc'[r] \in {"save", "load", "ended"}
        /\ UNCHANGED <<examRow, stats, activeDays, earned>>
    BY <1>0, <1>4 DEF Exam!RejectAnswer, Exam!AdmitAnswer, Exam!CallFails, Exam!RejectSubmit,
       Exam!AdmitSubmit, Exam!EndWith, Exam!ledger, Exam!locals, ExamInv, ExamTypes
  <2> QED
    BY <1>1, <1>2, <2>1
<1>5. CASE Exam!SaveExamAnswer(r)
  <2>1. /\ examPc[r] = "save" /\ examPc'[r] = "ended"
        /\ UNCHANGED <<examRow, stats, activeDays, earned>>
    BY <1>0, <1>5 DEF Exam!SaveExamAnswer, Exam!EndWith, Exam!ledger, Exam!locals, ExamInv, ExamTypes
  <2> QED
    BY <1>1, <1>2, <2>1
<1>6. CASE Exam!GetExamAnswers(r) \/ Exam!UpsertMistake(r)
  <2>1. /\ examPc[r] \in {"load", "grade"} /\ examPc'[r] \in {"grade", "flag"}
        /\ UNCHANGED <<examRow, stats, activeDays, earned>>
    BY <1>0, <1>6 DEF Exam!GetExamAnswers, Exam!UpsertMistake, Exam!ledger, Exam!locals, ExamInv, ExamTypes
  <2> QED
    BY <1>1, <1>2, <2>1
<1>7. CASE Exam!SetExamAnswerCorrectness(r)
  <2>1. /\ examPc[r] = "flag" /\ examPc'[r] = "grade"
        /\ UNCHANGED <<examRow, stats, activeDays, earned>>
    BY <1>0, <1>7 DEF Exam!SetExamAnswerCorrectness, Exam!ledger, ExamInv, ExamTypes
  <2> QED
    BY <1>1, <1>2, <2>1
<1> QED
  BY <1>1, <1>3, <1>4, <1>5, <1>6, <1>7, ExamEarns, ExamReads, ExamWrites, ExamDies DEF Exam!Serve

-----------------------------------------------------------------------------
(***************************************************************************)
(* The steps of practice sessions.                                         *)
(***************************************************************************)
PracticeMoves(r) ==
  /\ ask' = ask /\ paper' = paper /\ day' = day
  /\ \E to \in PracticePlaces : pc' = [pc EXCEPT ![r] = to]
  /\ DOMAIN tally' = PracticeRequests /\ DOMAIN now' = PracticeRequests /\ DOMAIN row' = PracticeRequests
  /\ \A q \in PracticeRequests \ {r} : tally'[q] = tally[q] /\ now'[q] = now[q] /\ row'[q] = row[q]

PracticeQuiet(r) ==
  /\ UNCHANGED <<ask, paper, day, tally, now, row>>
  /\ \E to \in PracticePlaces : pc' = [pc EXCEPT ![r] = to]

LEMMA PracticeQuietSteps ==
  ASSUME NEW r \in PracticeRequests,
         \/ Practice!Arrive(r) \/ Practice!NotFound(r) \/ Practice!GradeAnswer(r)
         \/ Practice!SaveAnswer(r) \/ Practice!UpsertMistake(r) \/ Practice!AdmitCompletion(r)
         \/ Practice!UpdateUserStats(r) \/ Practice!CompleteSession(r) \/ Practice!Crash(r)
  PROVE  PracticeQuiet(r)
<1>1. CASE Practice!Arrive(r)
  BY <1>1 DEF Practice!Arrive, PracticeQuiet, PracticePlaces, Practice!sessions, Practice!locals
<1>2. CASE Practice!NotFound(r) \/ Practice!GradeAnswer(r) \/ Practice!UpsertMistake(r)
           \/ Practice!AdmitCompletion(r)
  BY <1>2 DEF Practice!NotFound, Practice!GradeAnswer, Practice!UpsertMistake, Practice!AdmitCompletion,
              Practice!EndWith, PracticeQuiet, PracticePlaces, Practice!sessions, Practice!locals
<1>3. CASE Practice!SaveAnswer(r)
  BY <1>3 DEF Practice!SaveAnswer, PracticeQuiet, PracticePlaces, Practice!locals
<1>4. CASE Practice!UpdateUserStats(r)
  BY <1>4 DEF Practice!UpdateUserStats, PracticeQuiet, PracticePlaces, Practice!sessions, Practice!locals
<1>5. CASE Practice!CompleteSession(r)
  BY <1>5 DEF Practice!CompleteSession, PracticeQuiet, PracticePlaces, Practice!locals
<1>6. CASE Practice!Crash(r)
  BY <1>6 DEF Practice!Crash, PracticeQuiet, PracticePlaces, Practice!sessions, Practice!locals
<1> QED
  BY <1>1, <1>2, <1>3, <1>4, <1>5, <1>6

LEMMA PracticeMove ==
  ASSUME PracticeInv, NEW r \in PracticeRequests,
         Practice!Arrive(r) \/ Practice!Serve(r) \/ Practice!Crash(r)
  PROVE  PracticeMoves(r)
<1>0. PracticeTypes
  BY DEF PracticeInv
<1>1. CASE PracticeQuiet(r)
  BY <1>0, <1>1 DEF PracticeQuiet, PracticeMoves, PracticeTypes
<1>2. CASE Practice!RepeatCompletion(r)
  BY <1>0, <1>2 DEF Practice!RepeatCompletion, Practice!EndWith, PracticeMoves, PracticeTypes,
                    PracticePlaces, Practice!sessions
<1>3. CASE Practice!GetSessionTally(r)
  <2>1. /\ UNCHANGED <<ask, paper, day, now, row>>
        /\ \E to \in PracticePlaces : pc' = [pc EXCEPT ![r] = to]
        /\ tally' = [tally EXCEPT ![r] = Practice!Tally(ask[r].session)] \/ tally' = tally
    BY <1>3 DEF Practice!GetSessionTally, Practice!EndWith, PracticePlaces, Practice!sessions
  <2> QED
    BY <1>0, <2>1 DEF PracticeMoves, PracticeTypes
<1>4. CASE Practice!GetUserStats(r)
  <2>1. /\ UNCHANGED <<ask, paper, day, now, tally>>
        /\ \E to \in PracticePlaces : pc' = [pc EXCEPT ![r] = to]
        /\ \E s : row' = [row EXCEPT ![r] = s]
    BY <1>4 DEF Practice!GetUserStats, PracticePlaces, Practice!sessions
  <2> QED
    BY <1>0, <2>1 DEF PracticeMoves, PracticeTypes
<1>5. CASE Practice!TakeNow(r)
  BY <1>0, <1>5 DEF Practice!TakeNow, PracticeMoves, PracticeTypes, PracticePlaces, Practice!sessions
<1> QED
  BY <1>1, <1>2, <1>3, <1>4, <1>5, PracticeQuietSteps DEF Practice!Serve

LEMMA PracticeMovesOne ==
  ASSUME PracticeInv, NEW r \in PracticeRequests, PracticeMoves(r), UNCHANGED examOwn
  PROVE  OnlyMoves(r)
<1>1. ASSUME NEW q \in PracticeRequests \ {r}
      PROVE  Same(q)
  <2>1. pc'[q] = pc[q] /\ tally'[q] = tally[q] /\ now'[q] = now[q] /\ row'[q] = row[q]
    BY DEF PracticeMoves, PracticeInv, PracticeTypes
  <2> QED
    BY <2>1, PracticeSame
<1> QED
  BY <1>1, ExamRests, Apart DEF OnlyMoves

(* A step outside the ledger, or of a request that is done with it.        *)
LEMMA PracticeOutside ==
  ASSUME PracticeInv, NEW r \in PracticeRequests, PracticeMoves(r), UNCHANGED examOwn,
         PhaseOf(r)' = PhaseOf(r), PhaseOf(r) = "idle" \/ tally'[r] = tally[r],
         now'[r] = now[r], row'[r] = row[r], UNCHANGED <<stats, activeDays, earned>>
  PROVE  UNCHANGED Ledger!vars
<1>1. ~ IsExam(r)
  BY Apart
<1>2. InLedger(r) = (PhaseOf(r) # "idle") /\ InLedger(r)' = InLedger(r)
  BY <1>1 DEF InLedger, PhaseOf, Practice!InLedger, IsExam
<1>3. tally'[r] = tally[r] => Practice!CreditOf(r)' = Practice!CreditOf(r)
  BY DEF Practice!CreditOf, Practice!PracticeCredit
<1>4. Same(r)
  BY <1>1, <1>2, <1>3 DEF Same, KindOf, ClaimOf, DateOf, ReadOf, IsExam, SyncCredit
<1> QED
  BY <1>4, PracticeMovesOne, Rests DEF OnlyMoves, PracticeMoves

(* The credit of a tally is one the ledger knows.                          *)
LEMMA PracticeCredits ==
  ASSUME NEW t, IsTally(t)
  PROVE  Ledger!PracticeCredit(t.answered, t.correct) \in Ledger!CreditsOf("practice")
<1>1. PICK a \in 0 .. Cardinality(Questions) : \E c \in 0 .. a : t.answered = a /\ t.correct = c
  BY DEF IsTally
<1>2. PICK c \in 0 .. a : t.answered = a /\ t.correct = c
  BY <1>1
<1>3. Ledger!PracticeCredit(a, c) \in {Ledger!PracticeCredit(a, x) : x \in 0 .. a}
  BY <1>2
<1>4. Ledger!PracticeCredit(a, c) \in Ledger!PracticeCredits
  BY <1>3 DEF Ledger!PracticeCredits
<1> QED
  BY <1>2, <1>4 DEF Ledger!CreditsOf

LEMMA TallyIsOfQuestions ==
  ASSUME PracticeInv, NEW s \in Sessions
  PROVE  IsTally(Practice!Tally(s))
<1> DEFINE A == {q \in paper[s] : answers[s][q] # "unanswered"}
           C == {q \in paper[s] : answers[s][q] = "right"}
<1>1. A \in SUBSET Questions /\ C \in SUBSET A
  BY DEF PracticeInv, PracticeTypes
<1>2. IsFiniteSet(A) /\ IsFiniteSet(C) /\ IsFiniteSet(Questions)
  BY <1>1, ProgressAssumption, FS_Subset
<1>3. Cardinality(A) <= Cardinality(Questions) /\ Cardinality(C) <= Cardinality(A)
  BY <1>1, <1>2, FS_Subset
<1>4. Cardinality(A) \in Nat /\ Cardinality(C) \in Nat /\ Cardinality(Questions) \in Nat
  BY <1>2, FS_CardinalityType
<1>5. Practice!Tally(s).answered = Cardinality(A) /\ Practice!Tally(s).correct = Cardinality(C)
  BY SameArithmetic DEF Practice!Tally
<1> HIDE DEF A, C
<1> QED
  BY <1>3, <1>4, <1>5 DEF IsTally

(* GetSessionTally fixes the credit.                                       *)
LEMMA PracticeEarns ==
  ASSUME ProgressInv, NEW r \in PracticeRequests, Practice!GetSessionTally(r), UNCHANGED examOwn
  PROVE  Ledger!Next \/ UNCHANGED Ledger!vars
<1>0. /\ PracticeInv /\ PracticeMoves(r) /\ OnlyMoves(r) /\ r \in Requests /\ ~ IsExam(r)
      /\ pc[r] = "tally" /\ now[r] = NoDay /\ ask[r].session \in Sessions
      /\ UNCHANGED <<now, row, day, stats, activeDays, earned>>
  BY PracticeMove, PracticeMovesOne, Apart
  DEF ProgressInv, PracticeInv, SoundPractice, Practice!Serve, Practice!GetSessionTally, Practice!ledger
<1>1. PhaseOf(r) = "idle"
  BY <1>0 DEF PhaseOf, Practice!LedgerPhase, IsExam
<1>2. CASE tally' = [tally EXCEPT ![r] = Practice!Tally(ask[r].session)] /\ pc' = [pc EXCEPT ![r] = "stats"]
  <2>1. pc'[r] = "stats" /\ tally'[r] = Practice!Tally(ask[r].session)
    BY <1>0, <1>2 DEF PracticeInv, PracticeTypes
  <2>2. PhaseOf(r)' = "earned" /\ InLedger(r)'
    BY <1>0, <2>1 DEF PhaseOf, Practice!LedgerPhase, InLedger, Practice!InLedger, IsExam
  <2>3. PICK c \in Ledger!CreditsOf("practice") :
          c = Ledger!PracticeCredit(tally'[r].answered, tally'[r].correct)
    BY <1>0, <2>1, TallyIsOfQuestions, PracticeCredits
  <2>4. KindOf(r)' = "practice" /\ ClaimOf(r)' = c /\ DateOf(r)' = NoDay /\ ReadOf(r)' = ReadOf(r)
    BY <1>0, <2>2, <2>3, SameCredits DEF KindOf, ClaimOf, DateOf, ReadOf, IsExam, Practice!CreditOf
  <2>5. NoDay \in Ledger!DaysTaken("practice") /\ activeDays' = activeDays \cup ({NoDay} \ {NoDay})
    BY <1>0, SameArithmetic DEF Ledger!DaysTaken
  <2> QED
    BY <1>0, <1>1, <2>2, <2>4, <2>5, EarnStep
<1>3. CASE Practice!EndWith(r, "ERROR") /\ UNCHANGED tally
  <2>1. pc'[r] = "ended"
    BY <1>0, <1>3 DEF Practice!EndWith, PracticeInv, PracticeTypes
  <2>2. PhaseOf(r)' = "idle"
    BY <1>0, <2>1 DEF PhaseOf, Practice!LedgerPhase, IsExam
  <2> QED
    BY <1>0, <1>1, <2>2, PracticeOutside
<1> QED
  BY <1>2, <1>3 DEF Practice!GetSessionTally

(* What stays of a request in the ledger until it is done with it.         *)
LEMMA PracticeInLedger ==
  ASSUME PracticeInv, NEW r \in PracticeRequests, PracticeMoves(r), UNCHANGED examOwn,
         tally'[r] = tally[r],
         pc[r] \in {"stats", "clock", "credit"}, pc'[r] \in {"clock", "credit", "finish", "settled"}
  PROVE  /\ OnlyMoves(r) /\ r \in Requests
         /\ KindOf(r) = "practice" /\ ClaimOf(r) = Practice!CreditOf(r) /\ DateOf(r) = now[r]
         /\ ReadOf(r) = row[r] /\ ReadOf(r)' = row'[r] /\ DateOf(r)' = now'[r]
         /\ KindOf(r)' = KindOf(r) /\ ClaimOf(r)' = ClaimOf(r)
         /\ PhaseOf(r) = IF pc[r] = "stats" THEN "earned" ELSE "read"
         /\ PhaseOf(r)' = IF pc'[r] \in {"clock", "credit"} THEN "read" ELSE "done"
         /\ Practice!CreditOf(r).active <=> tally[r].answered > 0
<1>1. OnlyMoves(r) /\ r \in Requests /\ ~ IsExam(r)
  BY PracticeMovesOne, Apart
<1>2. /\ PhaseOf(r) = IF pc[r] = "stats" THEN "earned" ELSE "read"
      /\ PhaseOf(r)' = IF pc'[r] \in {"clock", "credit"} THEN "read" ELSE "done"
      /\ InLedger(r) /\ InLedger(r)'
  BY <1>1 DEF PhaseOf, Practice!LedgerPhase, InLedger, Practice!InLedger, IsExam
<1>3. Practice!CreditOf(r)' = Practice!CreditOf(r)
  BY DEF Practice!CreditOf, Practice!PracticeCredit
<1>4. KindOf(r) = "practice" /\ ClaimOf(r) = Practice!CreditOf(r) /\ DateOf(r) = now[r]
      /\ ReadOf(r) = row[r] /\ ReadOf(r)' = row'[r] /\ DateOf(r)' = now'[r]
      /\ KindOf(r)' = KindOf(r) /\ ClaimOf(r)' = ClaimOf(r)
  BY <1>1, <1>2, <1>3 DEF KindOf, ClaimOf, DateOf, ReadOf, IsExam
<1>5. Practice!CreditOf(r).active <=> tally[r].answered > 0
  BY DEF Practice!CreditOf, Practice!PracticeCredit
<1> QED
  BY <1>1, <1>2, <1>4, <1>5

LEMMA PracticeReads ==
  ASSUME ProgressInv, NEW r \in PracticeRequests, Practice!GetUserStats(r), UNCHANGED examOwn
  PROVE  Ledger!Next
<1>0. PracticeInv /\ PracticeTypes /\ PracticeMoves(r)
  BY PracticeMove DEF ProgressInv, PracticeInv, Practice!Serve
<1>1. /\ pc[r] = "stats" /\ pc'[r] \in {"clock", "credit"}
      /\ UNCHANGED <<now, tally, day, stats, activeDays, earned>>
      /\ row'[r] = stats \/ row'[r] = FreshRow
  BY <1>0, SameArithmetic DEF Practice!GetUserStats, Practice!ledger, PracticeTypes
<1>2. /\ OnlyMoves(r) /\ r \in Requests /\ KindOf(r) = "practice" /\ PhaseOf(r) = "earned" /\ PhaseOf(r)' = "read"
      /\ ReadOf(r)' = row'[r] /\ KindOf(r)' = KindOf(r) /\ ClaimOf(r)' = ClaimOf(r) /\ DateOf(r)' = DateOf(r)
  BY <1>0, <1>1, PracticeInLedger
<1>3. CASE row'[r] = stats
  BY <1>1, <1>2, <1>3, ReadStep
<1>4. CASE row'[r] = FreshRow
  BY <1>1, <1>2, <1>4, ReadFailsStep
<1> QED
  BY <1>1, <1>3, <1>4

LEMMA PracticeTakesNow ==
  ASSUME ProgressInv, NEW r \in PracticeRequests, Practice!TakeNow(r), UNCHANGED examOwn
  PROVE  Ledger!Next
<1>0. PracticeInv /\ PracticeTypes /\ PracticeMoves(r) /\ SoundPractice(r)
  BY PracticeMove DEF ProgressInv, PracticeInv, Practice!Serve
<1>1. /\ pc[r] = "clock" /\ pc'[r] = "credit" /\ now[r] = NoDay /\ now'[r] = day
      /\ tally[r].answered > 0 /\ activeDays' = activeDays \cup {day}
      /\ UNCHANGED <<row, tally, day, stats, earned>>
  BY <1>0 DEF Practice!TakeNow, PracticeTypes, SoundPractice
<1> QED
  BY <1>0, <1>1, PracticeInLedger, NowStep

LEMMA PracticeWrites ==
  ASSUME ProgressInv, NEW r \in PracticeRequests, Practice!UpdateUserStats(r), UNCHANGED examOwn
  PROVE  Ledger!Next
<1>0. PracticeInv /\ PracticeTypes /\ PracticeMoves(r) /\ SoundPractice(r)
  BY PracticeMove DEF ProgressInv, PracticeInv, Practice!Serve
<1>1. /\ pc[r] = "credit" /\ pc'[r] = "finish"
      /\ UNCHANGED <<now, row, tally, day, activeDays>>
      /\ \/ /\ stats' = Practice!Credited(row[r], Practice!CreditOf(r), now[r], day)
            /\ earned' = [f \in DOMAIN earned |-> earned[f] + Practice!CreditOf(r)[f]]
         \/ UNCHANGED <<stats, earned>>
  BY <1>0 DEF Practice!UpdateUserStats, Practice!locals, PracticeTypes
<1>2. tally[r].answered > 0 => now[r] # NoDay
  BY <1>0, <1>1 DEF SoundPractice
<1>3. CASE /\ stats' = Practice!Credited(row[r], Practice!CreditOf(r), now[r], day)
           /\ earned' = [f \in DOMAIN earned |-> earned[f] + Practice!CreditOf(r)[f]]
  <2>1. /\ stats' = Ledger!Credited(row[r], Practice!CreditOf(r), now[r], day)
        /\ earned' = Ledger!Plus(earned, Practice!CreditOf(r))
    BY <1>3, SameCredits, SumIs DEF ProgressInv, SharedInv
  <2> QED
    BY <1>0, <1>1, <1>2, <2>1, PracticeInLedger, WriteStep
<1>4. CASE UNCHANGED <<stats, earned>>
  BY <1>0, <1>1, <1>4, PracticeInLedger, GiveUpStep
<1> QED
  BY <1>1, <1>3, <1>4

LEMMA PracticeDies ==
  ASSUME ProgressInv, NEW r \in PracticeRequests, Practice!Crash(r), UNCHANGED examOwn
  PROVE  Ledger!Next \/ UNCHANGED Ledger!vars
<1>0. PracticeInv /\ PracticeTypes /\ PracticeMoves(r)
  BY PracticeMove DEF ProgressInv, PracticeInv
<1>1. /\ UNCHANGED <<tally, now, row, day, stats, activeDays, earned>>
      /\ \/ pc[r] \in {"arrived", "save", "mistake", "tally"} /\ pc'[r] = "ended"
         \/ pc[r] \in {"stats", "clock", "credit", "finish"} /\ pc'[r] = "settled"
  BY <1>0 DEF Practice!Crash, Practice!ledger, Practice!locals, PracticeTypes
<1>2. CASE \/ pc[r] \in {"arrived", "save", "mistake", "tally"} /\ pc'[r] = "ended"
           \/ pc[r] = "finish" /\ pc'[r] = "settled"
  <2>1. PhaseOf(r)' = PhaseOf(r)
    BY <1>2, Apart DEF PhaseOf, Practice!LedgerPhase, IsExam
  <2> QED
    BY <1>0, <1>1, <2>1, PracticeOutside
<1>3. CASE pc[r] \in {"stats", "clock", "credit"} /\ pc'[r] = "settled"
  BY <1>0, <1>1, <1>3, PracticeInLedger, GiveUpStep
<1> QED
  BY <1>1, <1>2, <1>3

(* The invariant of practice sessions is kept.                             *)
LEMMA PracticeProceeds ==
  ASSUME ProgressInv, NEW r \in PracticeRequests,
         Practice!Arrive(r) \/ Practice!Serve(r) \/ Practice!Crash(r)
  PROVE  SoundPractice(r)'
<1>0. SoundPractice(r) /\ PracticeTypes /\ PracticeMoves(r) /\ day \in Nat
  BY PracticeMove DEF ProgressInv, SharedInv, PracticeInv
<1>1. ASSUME UNCHANGED <<ask, tally, now>>,
             pc'[r] \in {"idle", "arrived", "tally", "stats", "clock"} =>
               pc[r] \in {"idle", "arrived", "tally", "stats", "clock"},
             pc'[r] \in {"stats", "clock", "credit", "finish", "settled"} =>
               pc[r] \in {"stats", "clock", "credit", "finish", "settled"},
             pc'[r] \notin {"clock", "credit"}
      PROVE  SoundPractice(r)'
  BY <1>0, <1>1 DEF SoundPractice, IsTally
<1>2. CASE Practice!Arrive(r)
  <2>1. pc[r] = "idle" /\ pc'[r] = "arrived" /\ UNCHANGED <<ask, tally, now>>
    BY <1>0, <1>2 DEF Practice!Arrive, Practice!locals, PracticeTypes
  <2> QED
    BY <1>1, <2>1
<1>3. CASE Practice!NotFound(r) \/ Practice!GradeAnswer(r) \/ Practice!UpsertMistake(r)
           \/ Practice!AdmitCompletion(r)
  <2>1. /\ pc'[r] \in {"ended", "save"} \/ (pc[r] = "arrived" /\ pc'[r] = "tally")
        /\ UNCHANGED <<ask, tally, now>>
    BY <1>0, <1>3 DEF Practice!NotFound, Practice!GradeAnswer, Practice!UpsertMistake,
       Practice!AdmitCompletion, Practice!EndWith, Practice!locals, PracticeTypes
  <2> QED
    BY <1>1, <2>1
<1>4. CASE Practice!SaveAnswer(r)
  <2>1. pc'[r] = "mistake" /\ UNCHANGED <<ask, tally, now>>
    BY <1>0, <1>4 DEF Practice!SaveAnswer, Practice!locals, PracticeTypes
  <2> QED
    BY <1>1, <2>1
<1>5. CASE Practice!RepeatCompletion(r)
  <2>1. pc'[r] = "ended" /\ ask' = ask
    BY <1>0, <1>5 DEF Practice!RepeatCompletion, Practice!EndWith, PracticeTypes
  <2> QED
    BY <1>0, <2>1 DEF SoundPractice
<1>6. CASE Practice!GetSessionTally(r)
  <2>1. pc[r] = "tally" /\ ask' = ask /\ now' = now /\ ask[r].session \in Sessions
    BY <1>0, <1>6 DEF Practice!GetSessionTally, SoundPractice
  <2>2. CASE tally' = [tally EXCEPT ![r] = Practice!Tally(ask[r].session)] /\ pc' = [pc EXCEPT ![r] = "stats"]
    <3>1. pc'[r] = "stats" /\ tally'[r] = Practice!Tally(ask[r].session)
      BY <1>0, <2>2 DEF PracticeTypes
    <3>2. IsTally(tally'[r])
      BY <2>1, <3>1, TallyIsOfQuestions DEF ProgressInv
    <3>3. IsTally(tally[r])'
      BY <3>2 DEF IsTally
    <3> QED
      BY <1>0, <2>1, <3>1, <3>3 DEF SoundPractice
  <2>3. CASE Practice!EndWith(r, "ERROR") /\ UNCHANGED tally
    <3>1. pc'[r] = "ended"
      BY <1>0, <2>3 DEF Practice!EndWith, PracticeTypes
    <3> QED
      BY <1>1, <2>1, <2>3, <3>1
  <2> QED
    BY <1>6, <2>2, <2>3 DEF Practice!GetSessionTally
<1>7. CASE Practice!GetUserStats(r)
  <2>1. /\ pc[r] = "stats" /\ pc'[r] = IF tally[r].answered > 0 THEN "clock" ELSE "credit"
        /\ UNCHANGED <<ask, tally, now>>
    BY <1>0, <1>7 DEF Practice!GetUserStats, PracticeTypes
  <2>2. IsTally(tally[r])'
    BY <1>0, <2>1 DEF SoundPractice, IsTally
  <2> QED
    BY <1>0, <2>1, <2>2 DEF SoundPractice
<1>8. CASE Practice!TakeNow(r)
  <2>1. pc[r] = "clock" /\ pc'[r] = "credit" /\ now'[r] = day /\ UNCHANGED <<ask, tally>>
    BY <1>0, <1>8 DEF Practice!TakeNow, PracticeTypes
  <2>2. IsTally(tally[r])'
    BY <1>0, <2>1 DEF SoundPractice, IsTally
  <2> QED
    BY <1>0, <2>1, <2>2 DEF SoundPractice, NoDay
<1>9. CASE Practice!UpdateUserStats(r) \/ Practice!CompleteSession(r) \/ Practice!Crash(r)
  <2>1. /\ UNCHANGED <<ask, tally, now>>
        /\ \/ pc'[r] = "ended"
           \/ pc[r] \in {"stats", "clock", "credit", "finish"} /\ pc'[r] \in {"finish", "settled"}
    BY <1>0, <1>9 DEF Practice!UpdateUserStats, Practice!CompleteSession, Practice!Crash,
       Practice!locals, PracticeTypes
  <2> QED
    BY <1>1, <2>1
<1> QED
  BY <1>2, <1>3, <1>4, <1>5, <1>6, <1>7, <1>8, <1>9 DEF Practice!Serve

LEMMA PracticeSums ==
  ASSUME NEW r \in PracticeRequests, Practice!Arrive(r) \/ Practice!Serve(r) \/ Practice!Crash(r)
  PROVE  DOMAIN earned' = DOMAIN earned
<1>1. CASE Practice!UpdateUserStats(r)
  <2>1. \/ earned' = [f \in DOMAIN earned |-> earned[f] + Practice!CreditOf(r)[f]]
        \/ earned' = earned
    BY <1>1 DEF Practice!UpdateUserStats
  <2> QED
    BY <2>1
<1>2. CASE ~ Practice!UpdateUserStats(r)
  <2>1. earned' = earned
    BY <1>2 DEF Practice!Arrive, Practice!Serve, Practice!Crash, Practice!NotFound, Practice!GradeAnswer,
       Practice!SaveAnswer, Practice!UpsertMistake, Practice!RepeatCompletion, Practice!AdmitCompletion,
       Practice!GetSessionTally, Practice!GetUserStats, Practice!TakeNow, Practice!CompleteSession,
       Practice!ledger
  <2> QED
    BY <2>1
<1> QED
  BY <1>1, <1>2

(* Steps of practice leave exams as they are.                              *)
LEMMA ExamKept ==
  ASSUME ProgressInv, UNCHANGED examOwn, day' \in Nat, day' >= day
  PROVE  ExamInv'
<1>1. UNCHANGED <<examStatus, examPaper, examPc, examAsk, snap, examNow, examRow>>
  BY DEF examOwn
<1>2. 0 .. day \subseteq 0 .. day'
  BY DEF ProgressInv, SharedInv
<1> QED
  BY <1>1, <1>2 DEF ProgressInv, ExamInv, ExamTypes, SoundExam, Exam!OnPaper

LEMMA PracticeServes ==
  ASSUME ProgressInv, NEW r \in PracticeRequests,
         Practice!Arrive(r) \/ Practice!Serve(r) \/ Practice!Crash(r), UNCHANGED examOwn
  PROVE  ProgressInv' /\ [Ledger!Next]_(Ledger!vars)
<1>0. PracticeInv /\ PracticeTypes /\ PracticeMoves(r)
  BY PracticeMove DEF ProgressInv, PracticeInv
<1>1. ProgressInv'
  <2>1. PracticeTypes'
    BY <1>0 DEF PracticeMoves, PracticeTypes
  <2>2. ASSUME NEW q \in PracticeRequests \ {r}
        PROVE  SoundPractice(q)'
    <3>1. pc'[q] = pc[q] /\ tally'[q] = tally[q] /\ now'[q] = now[q] /\ ask' = ask
      BY <1>0 DEF PracticeMoves, PracticeTypes
    <3> QED
      BY <1>0, <3>1 DEF PracticeInv, SoundPractice, IsTally
  <2>3. PracticeInv'
    BY <2>1, <2>2, PracticeProceeds DEF PracticeInv
  <2>4. SharedInv'
    BY <1>0, PracticeSums DEF ProgressInv, SharedInv, PracticeMoves
  <2>5. ExamInv'
    BY <1>0, ExamKept DEF ProgressInv, SharedInv, PracticeMoves
  <2> QED
    BY <2>3, <2>4, <2>5 DEF ProgressInv
<1>2. ASSUME \/ /\ pc[r] \in {"idle", "arrived", "save", "mistake", "tally"}
                /\ pc'[r] \in {"arrived", "save", "mistake", "tally", "ended"}
             \/ pc[r] = "finish" /\ pc'[r] = "settled" /\ tally'[r] = tally[r],
             UNCHANGED <<now, row, stats, activeDays, earned>>
      PROVE  UNCHANGED Ledger!vars
  <2>1. PhaseOf(r)' = PhaseOf(r) /\ (PhaseOf(r) = "idle" \/ tally'[r] = tally[r])
    BY <1>2, Apart DEF PhaseOf, Practice!LedgerPhase, IsExam
  <2> QED
    BY <1>0, <1>2, <2>1, PracticeOutside
<1>3. CASE Practice!Arrive(r) \/ Practice!NotFound(r) \/ Practice!GradeAnswer(r)
           \/ Practice!UpsertMistake(r) \/ Practice!AdmitCompletion(r) \/ Practice!RepeatCompletion(r)
  <2>1. /\ pc[r] \in {"idle", "arrived", "mistake"}
        /\ pc'[r] \in {"arrived", "save", "tally", "ended"}
        /\ UNCHANGED <<now, row, stats, activeDays, earned>>
    BY <1>0, <1>3 DEF Practice!Arrive, Practice!NotFound, Practice!GradeAnswer, Practice!UpsertMistake,
       Practice!AdmitCompletion, Practice!RepeatCompletion, Practice!EndWith, Practice!ledger,
       Practice!locals, PracticeTypes
  <2> QED
    BY <1>1, <1>2, <2>1
<1>4. CASE Practice!SaveAnswer(r)
  <2>1. /\ pc[r] = "save" /\ pc'[r] = "mistake"
        /\ UNCHANGED <<now, row, stats, activeDays, earned>>
    BY <1>0, <1>4 DEF Practice!SaveAnswer, Practice!ledger, Practice!locals, PracticeTypes
  <2> QED
    BY <1>1, <1>2, <2>1
<1>5. CASE Practice!CompleteSession(r)
  <2>1. /\ pc[r] = "finish" /\ pc'[r] = "settled" /\ tally' = tally
        /\ UNCHANGED <<now, row, stats, activeDays, earned>>
    BY <1>0, <1>5 DEF Practice!CompleteSession, Practice!ledger, Practice!locals, PracticeTypes
  <2> QED
    BY <1>1, <1>2, <2>1
<1> QED
  BY <1>1, <1>3, <1>4, <1>5, PracticeEarns, PracticeReads, PracticeTakesNow, PracticeWrites, PracticeDies
  DEF Practice!Serve

-----------------------------------------------------------------------------
(***************************************************************************)
(* What no request does: exams and sessions are created, deadlines pass,   *)
(* and days.                                                               *)
(***************************************************************************)
LEMMA ExamIsCreated ==
  ASSUME ProgressInv, NEW e \in Exams, Exam!CreateExam(e), UNCHANGED practiceOwn
  PROVE  ProgressInv' /\ UNCHANGED Ledger!vars
<1>1. /\ examStatus[e] = "none" /\ examStatus' = [examStatus EXCEPT ![e] = "in_progress"]
      /\ \E p \in Exam!Papers : examPaper' = [examPaper EXCEPT ![e] = p]
      /\ UNCHANGED <<day, stats, activeDays, earned, examPc, examAsk, snap, examNow, examRow>>
  BY DEF Exam!CreateExam, Exam!ledger, Exam!clocks, Exam!locals
<1>2. PICK p \in Exam!Papers : examPaper' = [examPaper EXCEPT ![e] = p]
  BY <1>1
<1>3. p \in [1 .. Exam!PaperSize -> Questions]
  BY <1>2 DEF Exam!Papers
<1>4. ExamInv'
  <2>1. ASSUME NEW f \in Exams
        PROVE  Exam!OnPaper(f)' \subseteq Questions
    <3>1. CASE f = e
      <4>1. examPaper'[f] = p
        BY <1>2, <3>1 DEF ProgressInv, ExamInv, ExamTypes
      <4> QED
        BY <1>3, <4>1 DEF Exam!OnPaper
    <3>2. CASE f # e
      <4>1. examPaper'[f] = examPaper[f]
        BY <1>2, <3>2 DEF ProgressInv, ExamInv, ExamTypes
      <4> QED
        BY <4>1 DEF ProgressInv, ExamInv, Exam!OnPaper
    <3> QED
      BY <3>1, <3>2
  <2>2. ExamTypes'
    BY <1>1, <1>2 DEF ProgressInv, ExamInv, ExamTypes
  <2>3. ASSUME NEW r \in ExamRequests
        PROVE  SoundExam(r)'
    BY <1>1 DEF ProgressInv, ExamInv, ExamTypes, SoundExam
  <2> QED
    BY <2>1, <2>2, <2>3 DEF ExamInv
<1>5. ProgressInv'
  BY <1>1, <1>4, PracticeKept DEF ProgressInv, SharedInv
<1>6. ASSUME NEW r \in ExamRequests
      PROVE  Same(r)
  <2>1. Exam!InLedger(r) => examAsk[r].exam # e
    BY <1>1 DEF Exam!InLedger, Exam!LedgerPhase, ProgressInv, ExamInv, SoundExam
  <2>2. Exam!InLedger(r) => Exam!CreditOf(r)' = Exam!CreditOf(r)
    <3>1. Exam!InLedger(r) => examPaper'[examAsk[r].exam] = examPaper[examAsk[r].exam]
      BY <1>2, <2>1 DEF ProgressInv, ExamInv, ExamTypes, SoundExam
    <3> QED
      BY <1>1, <3>1, ExamCreditStays
  <2> QED
    BY <1>1, <2>2, ExamSame
<1> QED
  BY <1>1, <1>5, <1>6, PracticeRests, Apart, Rests

LEMMA SessionIsCreated ==
  ASSUME ProgressInv, NEW s \in Sessions, Practice!CreateSession(s), UNCHANGED examOwn
  PROVE  ProgressInv' /\ UNCHANGED Ledger!vars
<1>1. /\ \E p \in SUBSET Questions : paper' = [paper EXCEPT ![s] = p]
      /\ UNCHANGED <<day, stats, activeDays, earned, pc, ask, tally, now, row>>
  BY DEF Practice!CreateSession, Practice!ledger, Practice!locals
<1>2. PracticeInv'
  BY <1>1 DEF ProgressInv, PracticeInv, PracticeTypes, SoundPractice, IsTally
<1>3. ExamInv' /\ SharedInv'
  BY <1>1, ExamKept DEF ProgressInv, SharedInv
<1>4. \A r \in PracticeRequests : Same(r)
  BY <1>1, PracticeSame
<1> QED
  BY <1>1, <1>2, <1>3, <1>4, ExamRests, Apart, Rests DEF ProgressInv

LEMMA DayPasses ==
  ASSUME ProgressInv, \/ Exam!NextDay /\ UNCHANGED practiceOwn
                      \/ Practice!NextDay /\ UNCHANGED examOwn
  PROVE  ProgressInv' /\ Ledger!Next
<1>1. /\ day < MaxDay /\ day' = day + 1 /\ UNCHANGED <<stats, activeDays, earned>>
      /\ UNCHANGED examOwn /\ UNCHANGED practiceOwn
  BY DEF Exam!NextDay, Practice!NextDay, examOwn, practiceOwn, Exam!exams, Exam!ledger, Exam!locals,
         Practice!sessions, Practice!ledger, Practice!locals
<1>2. ProgressInv'
  <2>1. day' \in Nat /\ day' >= day
    BY <1>1 DEF ProgressInv, SharedInv
  <2> QED
    BY <1>1, <2>1, ExamKept, PracticeKept DEF ProgressInv, SharedInv
<1>3. \A r \in Requests : Same(r)
  BY <1>1, ExamRests, PracticeRests, Apart
<1> QED
  BY <1>1, <1>2, <1>3, DayStep

LEMMA DeadlineComes ==
  ASSUME ProgressInv, NEW e \in Exams, Exam!DeadlinePasses(e), UNCHANGED practiceOwn
  PROVE  ProgressInv' /\ UNCHANGED Ledger!vars
<1>1. UNCHANGED <<day, stats, activeDays, earned, examStatus, examPaper, examPc, examAsk, snap, examNow, examRow>>
  BY DEF Exam!DeadlinePasses, Exam!exams, Exam!ledger, Exam!locals
<1>2. ExamInv' /\ SharedInv'
  BY <1>1 DEF ProgressInv, SharedInv, ExamInv, ExamTypes, SoundExam, Exam!OnPaper
<1>3. ASSUME NEW r \in ExamRequests
      PROVE  Same(r)
  BY <1>1, ExamCreditStays, ExamSame
<1> QED
  BY <1>1, <1>2, <1>3, PracticeKept, PracticeRests, Apart, Rests DEF ProgressInv

LEMMA StepRefines == ProgressInv /\ [Next]_vars => ProgressInv' /\ [Ledger!Next]_(Ledger!vars)
<1> SUFFICES ASSUME ProgressInv, [Next]_vars
             PROVE  ProgressInv' /\ [Ledger!Next]_(Ledger!vars)
  OBVIOUS
<1>1. CASE UNCHANGED vars
  <2>1. UNCHANGED <<day, stats, activeDays, earned>> /\ UNCHANGED examOwn /\ UNCHANGED practiceOwn
    BY <1>1 DEF vars
  <2>2. ProgressInv'
    BY <2>1, ExamKept, PracticeKept DEF ProgressInv, SharedInv
  <2> QED
    BY <2>1, <2>2, ExamRests, PracticeRests, Apart, Rests
<1>2. CASE Exam!Next /\ UNCHANGED practiceOwn
  BY <1>2, ExamIsCreated, DeadlineComes, DayPasses, ExamServes DEF Exam!Next
<1>3. CASE Practice!Next /\ UNCHANGED examOwn
  BY <1>3, SessionIsCreated, DayPasses, PracticeServes DEF Practice!Next
<1> QED
  BY <1>1, <1>2, <1>3 DEF Next

(* Mock exams and practice sessions, alone and against each other on the   *)
(* one row of user_stats, whatever their number, overlaps and faults, keep *)
(* the learner's progress as the ledger says requests do: with what is     *)
(* proved of StatsLedger, their row accounts for itself, is never over-    *)
(* credited, and its streak is earned.                                     *)
THEOREM ServicesImplementTheLedger == Spec => KeepsTheLedger
<1>1. Spec => [][Ledger!Next]_(Ledger!vars)
  BY InitProgress, StepRefines, PTL DEF Spec
<1> QED
  BY <1>1, InitRefines, PTL DEF Spec, KeepsTheLedger, Ledger!Spec

(* So does the instance that TLC checks.                                   *)
COROLLARY InstanceKeepsTheLedger == MCSpec => KeepsTheLedger
<1>1. MCInit => Init
  BY DEF MCInit
<1>2. [MCNext]_<<vars, sent>> => [Next]_vars
  BY DEF MCNext
<1>3. MCSpec => Spec
  BY <1>1, <1>2, PTL DEF MCSpec, Spec
<1> QED
  BY <1>3, ServicesImplementTheLedger
=============================================================================
