---------------------------- MODULE StatsLedger -----------------------------
(***************************************************************************)
(* The read-modify-write of one learner's user_stats row, as the three use *)
(* cases that credit it perform it: PracticeUsecase.CompleteSession,       *)
(* MockExamUsecase.SubmitExam and SyncUsecase.apply.  Each reads the whole *)
(* row (GetUserStats), adds to it in memory, and writes the whole row back *)
(* (UpdateUserStats) with no transaction, lock or version check, so any    *)
(* number of requests of the learner interleave between the two calls.     *)
(*                                                                         *)
(* This is the abstract specification of progress keeping: MockExam,       *)
(* PracticeSession and OfflineSync each implement it, the credit being     *)
(* whatever their own handlers computed.                                   *)
(***************************************************************************)
EXTENDS LearnerStats, FiniteSets

CONSTANTS
  Requests,     \* requests of this learner that end in crediting progress
  Kinds,        \* which use cases they come from: a subset of AllKinds
  MaxAnswers,   \* most answers one practice session or exam holds
  MaxDay,       \* the calendar stops here
  MaxInFlight,  \* how many of the requests may be running at once
  Faults        \* what may go wrong: a subset of AllFaults

AllKinds  == {"practice", "exam", "sync"}
AllFaults == {"read", "write", "crash", "midnight"}

ASSUME LedgerAssumption ==
  /\ IsFiniteSet(Requests)
  /\ Kinds \subseteq AllKinds
  /\ MaxAnswers \in Nat
  /\ MaxDay \in Nat
  /\ MaxInFlight \in Nat \ {0}
  /\ Faults \subseteq AllFaults

VARIABLES
  day,         \* the current date, the server's and the database's
  stats,       \* the stored row
  phase,       \* where each request is in its read-modify-write
  kind,        \* which use case the request belongs to
  credit,      \* what it will add
  now,         \* the date it computes the streak with, or NoDay
  row,         \* the snapshot it read
  activeDays,  \* history: the dates requests took as their own "now"
  earned       \* history: the sum of all credits written

vars == <<day, stats, phase, kind, credit, now, row, activeDays, earned>>

Days == 0 .. MaxDay

(***************************************************************************)
(* The credits each use case can compute.                                  *)
(***************************************************************************)
PracticeCredits ==
  UNION {{PracticeCredit(a, c) : c \in 0 .. a} : a \in 0 .. MaxAnswers}

ExamCredits ==
  UNION {{ExamCredit(a, c, p) : c \in 0 .. a, p \in BOOLEAN} : a \in 0 .. MaxAnswers}

CreditsOf(k) ==
  CASE k = "practice" -> PracticeCredits
    [] k = "exam"     -> ExamCredits
    [] k = "sync"     -> {SyncCredit(b) : b \in BOOLEAN}

(* The sums of no credits at all. *)
Nothing == [answered |-> 0, correct |-> 0, xp |-> 0, exams |-> 0, passed |-> 0]

(* The sums of an `earned' value and a credit, column by column. *)
Plus(e, c) ==
  [answered |-> e.answered + c.answered, correct |-> e.correct + c.correct,
   xp |-> e.xp + c.xp, exams |-> e.exams + c.exams, passed |-> e.passed + c.passed]

InFlight == {r \in Requests : phase[r] \in {"earned", "read"}}

Init ==
  /\ day = 0
  /\ stats = FreshRow
  /\ phase = [r \in Requests |-> "idle"]
  /\ kind = [r \in Requests |-> "sync"]
  /\ credit = [r \in Requests |-> SyncCredit(FALSE)]
  /\ now = [r \in Requests |-> NoDay]
  /\ row = [r \in Requests |-> FreshRow]
  /\ activeDays = {}
  /\ earned = Nothing

(***************************************************************************)
(* A request has computed what it is to add.  SubmitExam took its `now'    *)
(* before it began grading, which may have been on an earlier day; the     *)
(* others take theirs after reading the row.                               *)
(***************************************************************************)
Earn(r, k, c, d) ==
  /\ phase[r] = "idle"
  /\ Cardinality(InFlight) < MaxInFlight
  /\ phase' = [phase EXCEPT ![r] = "earned"]
  /\ kind' = [kind EXCEPT ![r] = k]
  /\ credit' = [credit EXCEPT ![r] = c]
  /\ now' = [now EXCEPT ![r] = d]
  /\ activeDays' = activeDays \cup ({d} \ {NoDay})
  /\ UNCHANGED <<day, stats, row, earned>>

(* The days a request of kind k may already hold when its credit is known. *)
DaysTaken(k) ==
  CASE k # "exam"                              -> {NoDay}
    [] k = "exam" /\ "midnight" \in Faults     -> 0 .. day
    [] k = "exam" /\ "midnight" \notin Faults  -> {day}

(* stats, _ := dashRepo.GetUserStats(ctx, userID) *)
ReadStats(r) ==
  /\ phase[r] = "earned"
  /\ phase' = [phase EXCEPT ![r] = "read"]
  /\ row' = [row EXCEPT ![r] = stats]
  /\ UNCHANGED <<day, stats, kind, credit, now, activeDays, earned>>

(***************************************************************************)
(* The read returns an error.  The exam gives up its credit; the other two *)
(* carry on from a fresh row, which they will write over the stored one.   *)
(***************************************************************************)
ReadFails(r) ==
  /\ "read" \in Faults
  /\ phase[r] = "earned"
  /\ phase' = [phase EXCEPT ![r] = IF kind[r] = "exam" THEN "done" ELSE "read"]
  /\ row' = [row EXCEPT ![r] = FreshRow]
  /\ UNCHANGED <<day, stats, kind, credit, now, activeDays, earned>>

(* nextStreak(..., time.Now().UTC()) of a practice session or an offline   *)
(* answer, called after the read and only when the streak is to move.      *)
TakeNow(r) ==
  /\ phase[r] = "read"
  /\ now[r] = NoDay
  /\ credit[r].active
  /\ now' = [now EXCEPT ![r] = day]
  /\ activeDays' = activeDays \cup {day}
  /\ UNCHANGED <<day, stats, phase, kind, credit, row, earned>>

(* dashRepo.UpdateUserStats(ctx, stats): the whole row, and CURRENT_DATE. *)
WriteStats(r) ==
  /\ phase[r] = "read"
  /\ credit[r].active => now[r] # NoDay
  /\ stats' = Credited(row[r], credit[r], now[r], day)
  /\ earned' = Plus(earned, credit[r])
  /\ phase' = [phase EXCEPT ![r] = "done"]
  /\ UNCHANGED <<day, kind, credit, now, row, activeDays>>

(* The write returns an error, which practice and exam ignore and sync     *)
(* reports, or the process dies with the request in flight.                *)
GiveUp(r) ==
  /\ \/ "write" \in Faults /\ phase[r] = "read"
     \/ "crash" \in Faults /\ phase[r] \in {"earned", "read"}
  /\ phase' = [phase EXCEPT ![r] = "done"]
  /\ UNCHANGED <<day, stats, kind, credit, now, row, activeDays, earned>>

(* Midnight.  Without "midnight" among the faults it never strikes while a *)
(* request is in flight.                                                   *)
NextDay ==
  /\ day < MaxDay
  /\ "midnight" \in Faults \/ InFlight = {}
  /\ day' = day + 1
  /\ UNCHANGED <<stats, phase, kind, credit, now, row, activeDays, earned>>

Next ==
  \/ NextDay
  \/ \E r \in Requests :
       \/ \E k \in Kinds : \E c \in CreditsOf(k), d \in DaysTaken(k) : Earn(r, k, c, d)
       \/ ReadStats(r)
       \/ ReadFails(r)
       \/ TakeNow(r)
       \/ WriteStats(r)
       \/ GiveUp(r)

Spec == Init /\ [][Next]_vars

-----------------------------------------------------------------------------
(***************************************************************************)
(* Types.                                                                  *)
(***************************************************************************)
StoredRow == [xp: Nat, level: Nat, streak: Nat, last: Days \cup {NoDay},
              answered: Nat, correct: Nat, exams: Nat, passed: Nat]

(* Every variable keeps its type; days stay within the calendar and no     *)
(* column of a row, stored or held by a request, is ever negative.         *)
TypeOK ==
  /\ day \in Days
  /\ stats \in StoredRow
  /\ phase \in [Requests -> {"idle", "earned", "read", "done"}]
  /\ kind \in [Requests -> AllKinds]
  /\ credit \in [Requests -> Credit]
  /\ now \in [Requests -> Days \cup {NoDay}]
  /\ row \in [Requests -> StoredRow]
  /\ activeDays \in SUBSET Days
  /\ earned \in [answered: Nat, correct: Nat, xp: Nat, exams: Nat, passed: Nat]

(***************************************************************************)
(* A row accounts for itself: its XP is what its own counters are worth,   *)
(* give or take the 2 XP an incorrect practice answer pays and an exam's   *)
(* does not, and its level is the level of its XP.                         *)
(***************************************************************************)
Consistent(s) ==
  /\ s.correct <= s.answered
  /\ s.passed <= s.exams
  /\ s.level = Level(s.xp)
  /\ s.xp >= XPPerCorrectAnswer * s.correct + ExamCompletionXP * s.exams
  /\ s.xp <= XPPerCorrectAnswer * s.correct + ExamCompletionXP * s.exams
               + XPPerIncorrectAnswer * (s.answered - s.correct)

(* Whatever interleaving of practice, exam and sync requests, whatever     *)
(* fails or dies, the stored row is consistent: updates may be lost, but   *)
(* never half of one.  The code stores level and XP redundantly and relies *)
(* on whole-row writes for this.                                           *)
RowConsistent == Consistent(stats)

(* No interleaving or failure credits more than was earned: a row never    *)
(* exceeds the sum of the credits written so far.                          *)
NeverOverCredited ==
  /\ stats.xp <= earned.xp
  /\ stats.answered <= earned.answered
  /\ stats.correct <= earned.correct
  /\ stats.exams <= earned.exams
  /\ stats.passed <= earned.passed

(* The streak is earned: it is never longer than the number of different   *)
(* days, up to the row's last_activity_date, on which a request of the     *)
(* learner moved it.  Concurrent requests of one day cannot both add a     *)
(* day, and neither can requests that straddle midnight.                   *)
StreakEarned == stats.streak <= Cardinality({d \in activeDays : d <= stats.last})

(* "Same day: unchanged ... Yesterday: one more.  Anything older, or no    *)
(* record at all: the streak starts again at one": a streak of n is a run  *)
(* of n consecutive active days somewhere in the learner's history.        *)
StreakIsConsecutive ==
  \E d \in Days \cup {NoDay} : (d - stats.streak + 1) .. d \subseteq activeDays

(* When no request is in flight, everything that was earned is on the row: *)
(* the exam's comment (mock_exam_usecase.go:219) that its answers "count   *)
(* towards accuracy like any other", for all writers of the row.           *)
NothingLost ==
  InFlight = {} => /\ stats.xp = earned.xp
                   /\ stats.answered = earned.answered
                   /\ stats.correct = earned.correct
                   /\ stats.exams = earned.exams
                   /\ stats.passed = earned.passed

(* "Finalize practice and award progress": crediting a request never takes *)
(* away what the learner already had.                                      *)
ProgressNeverErased ==
  [][stats'.xp >= stats.xp /\ stats'.answered >= stats.answered]_vars

(* last_activity_date never goes back, so a stale snapshot cannot reopen a *)
(* day the streak has already counted.                                     *)
LastActivityAdvances == [][stats'.last >= stats.last]_vars
=============================================================================
