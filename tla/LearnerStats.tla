---------------------------- MODULE LearnerStats ----------------------------
(***************************************************************************)
(* One learner's row of user_stats and the arithmetic the three use cases  *)
(* that credit it share: what a finished practice session, a graded mock   *)
(* exam and one offline answer add to it, the level, and the daily streak. *)
(* Everything here is a pure operator; StatsLedger, MockExam,              *)
(* PracticeSession and OfflineSync apply it to shared state.               *)
(*                                                                         *)
(* A definition named X_How, here and in the other modules, is a plausible *)
(* defect of X.  No specification uses one: each is put in X's place to    *)
(* see that a property notices.                                            *)
(***************************************************************************)
EXTENDS Integers

XPPerCorrectAnswer   == 12
XPPerIncorrectAnswer == 2
ExamCompletionXP     == 50

(* Days are numbered from 0; NoDay is last_activity_date IS NULL, and the  *)
(* "now" a request has not taken yet.                                      *)
NoDay == -1

(***************************************************************************)
(* The columns of the row that the code computes with.                     *)
(***************************************************************************)
Row == [xp: Int, level: Int, streak: Int, last: Int,
        answered: Int, correct: Int, exams: Int, passed: Int]

(* The row of a learner nothing is stored for yet.  The use cases fall     *)
(* back on the same value when the read itself fails.                      *)
FreshRow == [xp |-> 0, level |-> 1, streak |-> 0, last |-> NoDay,
             answered |-> 0, correct |-> 0, exams |-> 0, passed |-> 0]

Level(xp) == (xp \div 200) + 1

(***************************************************************************)
(* nextStreak: the same day (or a last day ahead of `today') keeps the     *)
(* streak, the day after extends it, anything else starts again at one.    *)
(***************************************************************************)
NextStreak_SameDayExtends(current, last, today) ==
  IF last = NoDay \/ today > last + 1 THEN 1 ELSE current + 1

NextStreak_AnyLaterDay(current, last, today) ==
  CASE last = NoDay                       -> 1
    [] last # NoDay /\ today <= last      -> IF current < 1 THEN 1 ELSE current
    [] last # NoDay /\ today > last       -> current + 1

NextStreak(current, last, today) ==
  CASE last = NoDay                         -> 1
    [] last # NoDay /\ today <= last        -> IF current < 1 THEN 1 ELSE current
    [] last # NoDay /\ today = last + 1     -> current + 1
    [] last # NoDay /\ today > last + 1     -> 1

(***************************************************************************)
(* A credit is what one request adds to the row.  `active' is whether the  *)
(* request moves the streak: completing a practice session in which        *)
(* nothing was answered does not.                                          *)
(***************************************************************************)
Credit == [answered: Nat, correct: Nat, xp: Nat, exams: {0, 1},
           passed: {0, 1}, active: BOOLEAN]

PracticeCredit_PaysBoth(answered, correct) ==
  [answered |-> answered, correct |-> correct,
   xp |-> correct * XPPerCorrectAnswer + answered * XPPerIncorrectAnswer,
   exams |-> 0, passed |-> 0, active |-> answered > 0]

PracticeCredit_Penalises(answered, correct) ==
  [answered |-> answered, correct |-> correct,
   xp |-> correct * XPPerCorrectAnswer - (answered - correct) * XPPerIncorrectAnswer,
   exams |-> 0, passed |-> 0, active |-> answered > 0]

PracticeCredit(answered, correct) ==
  [answered |-> answered, correct |-> correct,
   xp |-> correct * XPPerCorrectAnswer
            + (answered - correct) * XPPerIncorrectAnswer,
   exams |-> 0, passed |-> 0, active |-> answered > 0]

ExamCredit(answered, correct, passed) ==
  [answered |-> answered, correct |-> correct,
   xp |-> ExamCompletionXP + correct * XPPerCorrectAnswer,
   exams |-> 1, passed |-> IF passed THEN 1 ELSE 0, active |-> TRUE]

SyncCredit_Penalises(isCorrect) ==
  [answered |-> 1, correct |-> IF isCorrect THEN 1 ELSE 0,
   xp |-> IF isCorrect THEN XPPerCorrectAnswer ELSE -XPPerIncorrectAnswer,
   exams |-> 0, passed |-> 0, active |-> TRUE]

SyncCredit(isCorrect) ==
  [answered |-> 1, correct |-> IF isCorrect THEN 1 ELSE 0,
   xp |-> IF isCorrect THEN XPPerCorrectAnswer ELSE XPPerIncorrectAnswer,
   exams |-> 0, passed |-> 0, active |-> TRUE]

(***************************************************************************)
(* The row a request writes back: the snapshot it read plus its credit,    *)
(* the streak as of its own clock reading `today', and the database's      *)
(* CURRENT_DATE at the moment of the write as the last active day.         *)
(***************************************************************************)
Accrue_Replaces(old, gain) == gain
Accrue_Twice(old, gain)    == old + 2 * gain
Accrue(old, gain)          == old + gain

ActivityDate_Own(today, currentDate) == today
ActivityDate(today, currentDate)     == currentDate

Credited(row, c, today, currentDate) ==
  [xp       |-> Accrue(row.xp, c.xp),
   level    |-> Level(Accrue(row.xp, c.xp)),
   streak   |-> IF c.active THEN NextStreak(row.streak, row.last, today)
                            ELSE row.streak,
   last     |-> ActivityDate(today, currentDate),
   answered |-> Accrue(row.answered, c.answered),
   correct  |-> Accrue(row.correct, c.correct),
   exams    |-> Accrue(row.exams, c.exams),
   passed   |-> Accrue(row.passed, c.passed)]

(***************************************************************************)
(* score_percent of an exam, in integer arithmetic.                        *)
(***************************************************************************)
ScorePercent(correct, questionCount) ==
  IF questionCount > 0 THEN (correct * 100) \div questionCount ELSE 0
=============================================================================
