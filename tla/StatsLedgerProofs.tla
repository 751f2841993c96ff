-------------------------- MODULE StatsLedgerProofs ---------------------------
(***************************************************************************)
(* Proofs about StatsLedger, for every finite set of requests, every       *)
(* calendar and every combination of faults.  One inductive invariant,     *)
(* IInv, carries all of them; the snapshots the requests hold are what it  *)
(* adds to the properties: a stale snapshot is written back whole, so what *)
(* is claimed of the stored row has to be claimed of every snapshot too.   *)
(***************************************************************************)
EXTENDS MCStatsLedger, FiniteSetTheorems, TLAPS

(***************************************************************************)
(* Credits.                                                                *)
(***************************************************************************)

(* What a credit has in common with a consistent row. *)
FairCredit(c) ==
  /\ c.correct <= c.answered
  /\ c.passed <= c.exams
  /\ c.xp >= XPPerCorrectAnswer * c.correct + ExamCompletionXP * c.exams
  /\ c.xp <= XPPerCorrectAnswer * c.correct + ExamCompletionXP * c.exams
               + XPPerIncorrectAnswer * (c.answered - c.correct)

(* A practice session of a answers, c of them right, earns a fair credit. *)
LEMMA PracticeCreditIsFair ==
  ASSUME NEW a \in Nat, NEW c \in 0 .. a
  PROVE  PracticeCredit(a, c) \in Credit /\ FairCredit(PracticeCredit(a, c))
BY DEF PracticeCredit, Credit, FairCredit, XPPerCorrectAnswer, XPPerIncorrectAnswer,
       ExamCompletionXP

(* So does an exam, passed or not. *)
LEMMA ExamCreditIsFair ==
  ASSUME NEW a \in Nat, NEW c \in 0 .. a, NEW p \in BOOLEAN
  PROVE  ExamCredit(a, c, p) \in Credit /\ FairCredit(ExamCredit(a, c, p))
BY DEF ExamCredit, Credit, FairCredit, XPPerCorrectAnswer, XPPerIncorrectAnswer,
       ExamCompletionXP

(* So does an answer given offline. *)
LEMMA SyncCreditIsFair ==
  ASSUME NEW b \in BOOLEAN
  PROVE  SyncCredit(b) \in Credit /\ FairCredit(SyncCredit(b))
BY DEF SyncCredit, Credit, FairCredit, XPPerCorrectAnswer, XPPerIncorrectAnswer,
       ExamCompletionXP

(* Whatever use case a request belongs to, its credit is fair. *)
LEMMA CreditsAreFair ==
  ASSUME NEW k \in Kinds, NEW c \in CreditsOf(k)
  PROVE  c \in Credit /\ FairCredit(c)
<1>1. k \in AllKinds
  BY LedgerAssumption
<1>2. CASE k = "practice"
  <2>1. PICK a \in 0 .. MaxAnswers : \E x \in 0 .. a : c = PracticeCredit(a, x)
    BY <1>2 DEF CreditsOf, PracticeCredits
  <2>2. PICK x \in 0 .. a : c = PracticeCredit(a, x)
    BY <2>1
  <2> QED
    BY <2>2, PracticeCreditIsFair, LedgerAssumption
<1>3. CASE k = "exam"
  <2>1. PICK a \in 0 .. MaxAnswers : \E x \in 0 .. a, p \in BOOLEAN : c = ExamCredit(a, x, p)
    BY <1>3 DEF CreditsOf, ExamCredits
  <2>2. PICK x \in 0 .. a, p \in BOOLEAN : c = ExamCredit(a, x, p)
    BY <2>1
  <2> QED
    BY <2>2, ExamCreditIsFair, LedgerAssumption
<1>4. CASE k = "sync"
  BY <1>4, SyncCreditIsFair DEF CreditsOf
<1> QED
  BY <1>1, <1>2, <1>3, <1>4 DEF AllKinds

(***************************************************************************)
(* The row a request writes.                                               *)
(***************************************************************************)

(* nextStreak returns a natural number; it keeps the streak, extends it by *)
(* one on the day after, or starts it again.                               *)
LEMMA NextStreakCases ==
  ASSUME NEW n \in Nat, NEW last \in Days \cup {NoDay}, NEW today \in Days
  PROVE  /\ NextStreak(n, last, today) \in Nat
         /\ \/ NextStreak(n, last, today) = 1
            \/ NextStreak(n, last, today) = n /\ today <= last
            \/ NextStreak(n, last, today) = n + 1 /\ today = last + 1 /\ last # NoDay
BY LedgerAssumption DEF NextStreak, Days, NoDay

(* The level of a natural number of XP is a natural number. *)
LEMMA LevelType ==
  ASSUME NEW xp \in Nat
  PROVE  Level(xp) \in Nat
BY DEF Level

(* A fair credit added to a consistent row is a consistent row, dated with *)
(* the day of the write.                                                   *)
LEMMA CreditedRow ==
  ASSUME NEW s \in StoredRow, NEW c \in Credit, NEW today \in Days \cup {NoDay},
         NEW d \in Days, Consistent(s), FairCredit(c),
         c.active => today # NoDay
  PROVE  /\ Credited(s, c, today, d) \in StoredRow
         /\ Consistent(Credited(s, c, today, d))
<1> DEFINE w == Credited(s, c, today, d)
<1>1. /\ s.xp \in Nat /\ s.answered \in Nat /\ s.correct \in Nat
      /\ s.exams \in Nat /\ s.passed \in Nat /\ s.streak \in Nat
      /\ s.last \in Days \cup {NoDay}
  BY DEF StoredRow
<1>2. /\ c.xp \in Nat /\ c.answered \in Nat /\ c.correct \in Nat
      /\ c.exams \in Nat /\ c.passed \in Nat /\ c.active \in BOOLEAN
  BY DEF Credit
<1>3. /\ w.xp = s.xp + c.xp /\ w.answered = s.answered + c.answered
      /\ w.correct = s.correct + c.correct /\ w.exams = s.exams + c.exams
      /\ w.passed = s.passed + c.passed /\ w.level = Level(s.xp + c.xp)
      /\ w.last = d
  BY DEF Credited, Accrue, ActivityDate
<1>4. (IF c.active THEN NextStreak(s.streak, s.last, today) ELSE s.streak) \in Nat
  BY <1>1, <1>2, NextStreakCases
<1>5. Level(s.xp + c.xp) \in Nat
  BY <1>1, <1>2, LevelType
<1>6. w \in StoredRow
  BY <1>1, <1>2, <1>4, <1>5 DEF Credited, Accrue, ActivityDate, StoredRow
<1>7. Consistent(w)
  BY <1>1, <1>2, <1>3 DEF Consistent, FairCredit, XPPerCorrectAnswer,
     XPPerIncorrectAnswer, ExamCompletionXP
<1> QED
  BY <1>6, <1>7

(***************************************************************************)
(* Sound rows: those that requests can have written, or read, by day d,    *)
(* when the dates in A were active and the credits written add up to e.    *)
(***************************************************************************)
Sums == [answered: Nat, correct: Nat, xp: Nat, exams: Nat, passed: Nat]

(* A row counts nothing twice. *)
Within(s, e) ==
  /\ s.xp <= e.xp /\ s.answered <= e.answered /\ s.correct <= e.correct
  /\ s.exams <= e.exams /\ s.passed <= e.passed

UpTo(A, d) == {x \in A : x <= d}

SoundRow(s, e, d, A) ==
  /\ Consistent(s)
  /\ Within(s, e)
  /\ s.last <= d
  /\ s.streak <= Cardinality(UpTo(A, s.last))

(* The active days up to a date are finitely many, and no fewer up to a    *)
(* later date, or after more days were active.                             *)
LEMMA ActiveDaysGrow ==
  ASSUME NEW S \in SUBSET Days, NEW T \in SUBSET Days, S \subseteq T,
         NEW c \in Int, NEW d \in Int, c <= d
  PROVE  /\ IsFiniteSet(UpTo(S, c)) /\ IsFiniteSet(UpTo(T, d))
         /\ Cardinality(UpTo(S, c)) \in Nat /\ Cardinality(UpTo(T, d)) \in Nat
         /\ Cardinality(UpTo(S, c)) <= Cardinality(UpTo(T, d))
<1>1. IsFiniteSet(Days)
  BY FS_Interval, LedgerAssumption DEF Days
<1>2. UpTo(T, d) \subseteq Days
  BY DEF UpTo
<1>3. IsFiniteSet(UpTo(T, d))
  BY <1>1, <1>2, FS_Subset
<1>4. UpTo(S, c) \subseteq UpTo(T, d)
  <2>1. \A x \in S : x \in T /\ (x <= c => x <= d)
    BY LedgerAssumption DEF Days
  <2> QED
    BY <2>1 DEF UpTo
<1> QED
  BY <1>3, <1>4, FS_Subset, FS_CardinalityType

(* A date that has been active makes the active days up to it at least one *)
(* and, when it is later than c, at least one more than up to c.           *)
LEMMA ActiveDayCounts ==
  ASSUME NEW A \in SUBSET Days, NEW c \in Int, NEW t \in A, NEW d \in Days, t <= d
  PROVE  /\ Cardinality(UpTo(A, d)) >= 1
         /\ c < t => Cardinality(UpTo(A, d)) >= Cardinality(UpTo(A, c)) + 1
<1>1. t \in Int /\ d \in Int
  BY LedgerAssumption DEF Days
<1>2. IsFiniteSet(UpTo(A, d)) /\ Cardinality(UpTo(A, d)) \in Nat
  BY <1>1, ActiveDaysGrow
<1>3. t \in UpTo(A, d)
  BY DEF UpTo
<1>4. Cardinality(UpTo(A, d)) >= 1
  <2>1. Cardinality({}) = 0 /\ IsFiniteSet({})
    BY FS_EmptySet
  <2>2. Cardinality({t}) = 1
    BY FS_Singleton
  <2>3. {t} \subseteq UpTo(A, d)
    BY <1>3
  <2> QED
    BY <1>2, <2>2, <2>3, FS_Subset
<1>5. ASSUME c < t
      PROVE  Cardinality(UpTo(A, d)) >= Cardinality(UpTo(A, c)) + 1
  <2>1. c <= d
    BY <1>1, <1>5
  <2>2. IsFiniteSet(UpTo(A, c)) /\ Cardinality(UpTo(A, c)) \in Nat
    BY <1>1, <2>1, ActiveDaysGrow
  <2>3. t \notin UpTo(A, c)
    BY <1>1, <1>5 DEF UpTo
  <2>4. UpTo(A, c) \cup {t} \subseteq UpTo(A, d)
    <3>1. \A x \in A : x <= c => x <= d
      BY <1>1, <2>1, LedgerAssumption DEF Days
    <3> QED
      BY <1>3, <3>1 DEF UpTo
  <2>5. Cardinality(UpTo(A, c) \cup {t}) = Cardinality(UpTo(A, c)) + 1
    BY <2>2, <2>3, FS_AddElement
  <2>6. Cardinality(UpTo(A, c) \cup {t}) <= Cardinality(UpTo(A, d))
    BY <1>2, <2>4, FS_Subset
  <2> QED
    BY <1>2, <2>2, <2>5, <2>6
<1> QED
  BY <1>4, <1>5

(* The row nothing is stored for is sound. *)
LEMMA FreshRowIsSound ==
  ASSUME NEW e \in Sums, NEW d \in Days, NEW A \in SUBSET Days
  PROVE  FreshRow \in StoredRow /\ SoundRow(FreshRow, e, d, A)
<1>1. FreshRow \in StoredRow
  BY DEF FreshRow, StoredRow, NoDay
<1>2. Consistent(FreshRow)
  BY DEF FreshRow, Consistent, Level, XPPerCorrectAnswer, XPPerIncorrectAnswer,
         ExamCompletionXP
<1>3. Within(FreshRow, e)
  BY DEF FreshRow, Within, Sums
<1>4. FreshRow.last = -1 /\ FreshRow.streak = 0
  BY DEF FreshRow, NoDay
<1>5. Cardinality(UpTo(A, -1)) \in Nat
  BY ActiveDaysGrow
<1> QED
  BY <1>1, <1>2, <1>3, <1>4, <1>5, LedgerAssumption DEF SoundRow, Days

(* A sound row stays sound as days pass, more days become active and more  *)
(* is earned.                                                              *)
LEMMA SoundRowLasts ==
  ASSUME NEW s \in StoredRow, NEW e \in Sums, NEW e2 \in Sums,
         NEW d \in Days, NEW d2 \in Days, NEW A \in SUBSET Days, NEW A2 \in SUBSET Days,
         SoundRow(s, e, d, A), d <= d2, A \subseteq A2, Within(e, e2)
  PROVE  SoundRow(s, e2, d2, A2)
<1>1. s.last \in Int /\ s.streak \in Nat /\ d \in Int /\ d2 \in Int
  BY LedgerAssumption DEF StoredRow, Days, NoDay
<1>2. /\ Cardinality(UpTo(A, s.last)) \in Nat
      /\ Cardinality(UpTo(A2, s.last)) \in Nat
      /\ Cardinality(UpTo(A, s.last)) <= Cardinality(UpTo(A2, s.last))
  <2>1. s.last <= s.last
    BY <1>1
  <2> QED
    BY <1>1, <2>1, ActiveDaysGrow
<1>3. s.last <= d2 /\ s.streak <= Cardinality(UpTo(A2, s.last))
  BY <1>1, <1>2 DEF SoundRow
<1>4. Within(s, e2)
  BY DEF SoundRow, Within, StoredRow, Sums
<1> QED
  BY <1>3, <1>4 DEF SoundRow

(* Writing a fair credit over a sound snapshot gives a sound row, however  *)
(* old the snapshot, if the date the streak moved with was active.  This   *)
(* is where streaks are shown to be earned: an extension by one takes a    *)
(* date later than any the snapshot counted.                               *)
LEMMA SoundRowCredited ==
  ASSUME NEW s \in StoredRow, NEW c \in Credit, NEW e \in Sums, NEW d \in Days,
         NEW A \in SUBSET Days, NEW today \in Days \cup {NoDay},
         SoundRow(s, e, d, A), FairCredit(c),
         c.active => today \in A /\ today <= d
  PROVE  /\ Credited(s, c, today, d) \in StoredRow
         /\ SoundRow(Credited(s, c, today, d), Plus(e, c), d, A)
<1> DEFINE w == Credited(s, c, today, d)
<1>1. /\ s.last \in Int /\ s.last \in Days \cup {NoDay} /\ s.streak \in Nat
      /\ d \in Int /\ c.active \in BOOLEAN
  BY LedgerAssumption DEF StoredRow, Days, NoDay, Credit
<1>2. c.active => today # NoDay /\ today \in Days
  BY LedgerAssumption DEF Days, NoDay
<1>3. w \in StoredRow /\ Consistent(w)
  BY <1>2, CreditedRow DEF SoundRow
<1>4. Within(w, Plus(e, c))
  BY DEF SoundRow, Within, Credited, Accrue, Plus, StoredRow, Credit, Sums
<1>5. w.last = d /\ w.streak = IF c.active THEN NextStreak(s.streak, s.last, today)
                                           ELSE s.streak
  BY DEF Credited, ActivityDate
<1>6. /\ Cardinality(UpTo(A, s.last)) \in Nat /\ Cardinality(UpTo(A, d)) \in Nat
      /\ Cardinality(UpTo(A, s.last)) <= Cardinality(UpTo(A, d))
      /\ s.streak <= Cardinality(UpTo(A, s.last))
  BY <1>1, ActiveDaysGrow DEF SoundRow
<1>7. w.streak <= Cardinality(UpTo(A, d))
  <2>1. CASE ~ c.active
    BY <1>1, <1>5, <1>6, <2>1
  <2>2. CASE c.active
    <3> DEFINE n == NextStreak(s.streak, s.last, today)
    <3>1. today \in Int /\ today \in A /\ today <= d
      BY <2>2, LedgerAssumption DEF Days
    <3>2. Cardinality(UpTo(A, d)) >= 1
      BY <3>1, ActiveDayCounts, <1>1
    <3>3. s.last < today => Cardinality(UpTo(A, d)) >= Cardinality(UpTo(A, s.last)) + 1
      BY <1>1, <3>1, ActiveDayCounts
    <3>4. \/ n = 1
          \/ n = s.streak /\ today <= s.last
          \/ n = s.streak + 1 /\ today = s.last + 1 /\ s.last # NoDay
      <4>1. s.streak \in Nat /\ s.last \in Days \cup {NoDay} /\ today \in Days
        BY <1>1, <1>2, <2>2
      <4> QED
        BY <4>1, NextStreakCases, Zenon
    <3>5. n <= Cardinality(UpTo(A, d))
      BY <1>1, <1>6, <3>1, <3>2, <3>3, <3>4
    <3> QED
      BY <1>5, <2>2, <3>5
  <2> QED
    BY <1>1, <2>1, <2>2
<1>8. w.last <= d
  BY <1>1, <1>5
<1> QED
  BY <1>3, <1>4, <1>5, <1>7, <1>8 DEF SoundRow

(***************************************************************************)
(* The inductive invariant.                                                *)
(***************************************************************************)
Sound(s) == SoundRow(s, earned, day, activeDays)

(* A request holds a sound snapshot and a fair credit, and the date it     *)
(* took was active.                                                        *)
SoundRequest(r) ==
  /\ Sound(row[r])
  /\ FairCredit(credit[r])
  /\ now[r] # NoDay => now[r] \in activeDays /\ now[r] <= day

IInv ==
  /\ TypeOK
  /\ Sound(stats)
  /\ \A r \in Requests : SoundRequest(r)

LEMMA InitIInv == Init => IInv
<1> SUFFICES ASSUME Init
             PROVE  IInv
  OBVIOUS
<1> USE DEF Init
<1>1. day \in Days /\ activeDays \in SUBSET Days /\ earned \in Sums
  BY LedgerAssumption DEF Days, Nothing, Sums
<1>2. FreshRow \in StoredRow /\ Sound(FreshRow)
  BY <1>1, FreshRowIsSound DEF Sound
<1>3. SyncCredit(FALSE) \in Credit /\ FairCredit(SyncCredit(FALSE))
  BY SyncCreditIsFair
<1>4. TypeOK
  BY <1>1, <1>2, <1>3 DEF TypeOK, Sums, AllKinds
<1>5. \A r \in Requests : SoundRequest(r)
  BY <1>2, <1>3 DEF SoundRequest
<1> QED
  BY <1>2, <1>4, <1>5 DEF IInv

(* What is sound stays sound over a step that writes no credit. *)
LEMMA NothingCredited ==
  ASSUME IInv, earned' = earned, day \in Days, day' \in Days, day <= day',
         activeDays \subseteq activeDays', activeDays' \in SUBSET Days
  PROVE  /\ \A s \in StoredRow : Sound(s) => SoundRow(s, earned', day', activeDays')
         /\ \A r \in Requests : SoundRow(row[r], earned', day', activeDays')
         /\ SoundRow(stats, earned', day', activeDays')
<1>1. /\ earned \in Sums /\ activeDays \in SUBSET Days /\ stats \in StoredRow
      /\ \A r \in Requests : row[r] \in StoredRow
  BY DEF IInv, TypeOK, Sums
<1>2. Within(earned, earned)
  BY <1>1 DEF Within, Sums
<1>3. \A s \in StoredRow : Sound(s) => SoundRow(s, earned', day', activeDays')
  BY <1>1, <1>2, SoundRowLasts DEF Sound
<1> QED
  BY <1>1, <1>3 DEF IInv, SoundRequest

(* Each step of a request, and midnight, preserves the invariant. *)
LEMMA EarnStep ==
  ASSUME IInv, NEW r \in Requests, NEW k \in Kinds, NEW c \in CreditsOf(k),
         NEW d \in DaysTaken(k), Earn(r, k, c, d)
  PROVE  IInv'
<1> USE DEF IInv
<1>1. c \in Credit /\ FairCredit(c) /\ k \in AllKinds
  BY CreditsAreFair, LedgerAssumption
<1>2. d \in Days \cup {NoDay} /\ (d # NoDay => d <= day)
  <2>1. d = NoDay \/ d = day \/ d \in 0 .. day
    BY <1>1 DEF DaysTaken, AllKinds
  <2>2. day \in Days
    BY DEF TypeOK
  <2> QED
    BY <2>1, <2>2, LedgerAssumption DEF Days, NoDay
<1>3. /\ day' = day /\ stats' = stats /\ row' = row /\ earned' = earned
      /\ day \in Days /\ day <= day'
      /\ activeDays \subseteq activeDays' /\ activeDays' \in SUBSET Days
  BY <1>2, LedgerAssumption DEF Earn, TypeOK, Days, NoDay
<1>4. TypeOK'
  BY <1>1, <1>2, <1>3 DEF Earn, TypeOK
<1>5. Sound(stats)' /\ \A q \in Requests : Sound(row[q])'
  BY <1>3, NothingCredited DEF Sound
<1>6. \A q \in Requests : FairCredit(credit[q])'
  BY <1>1 DEF Earn, TypeOK, SoundRequest, FairCredit
<1>7. ASSUME NEW q \in Requests, now'[q] # NoDay
      PROVE  now'[q] \in activeDays' /\ now'[q] <= day'
  BY <1>2, <1>3, <1>7 DEF Earn, TypeOK, SoundRequest
<1> QED
  BY <1>4, <1>5, <1>6, <1>7 DEF SoundRequest

LEMMA ReadStep ==
  ASSUME IInv, NEW r \in Requests, ReadStats(r) \/ ReadFails(r)
  PROVE  IInv'
<1> USE DEF IInv
<1>1. FreshRow \in StoredRow /\ Sound(FreshRow)
  BY FreshRowIsSound DEF TypeOK, Sums, Sound
<1>2. PICK s \in StoredRow : Sound(s) /\ row' = [row EXCEPT ![r] = s]
  BY <1>1 DEF ReadStats, ReadFails, TypeOK
<1>3. UNCHANGED <<day, stats, kind, credit, now, activeDays, earned>>
  BY DEF ReadStats, ReadFails
<1>4. phase' \in [Requests -> {"idle", "earned", "read", "done"}]
  BY DEF ReadStats, ReadFails, TypeOK
<1>5. TypeOK'
  BY <1>2, <1>3, <1>4 DEF TypeOK
<1>6. Sound(stats)' /\ \A q \in Requests : Sound(row[q])'
  BY <1>2, <1>3 DEF Sound, SoundRequest, TypeOK
<1>7. \A q \in Requests : SoundRequest(q)'
  BY <1>3, <1>6 DEF SoundRequest
<1> QED
  BY <1>5, <1>6, <1>7

LEMMA TakeNowStep ==
  ASSUME IInv, NEW r \in Requests, TakeNow(r)
  PROVE  IInv'
<1> USE DEF IInv
<1>1. UNCHANGED <<day, stats, kind, phase, credit, row, earned>>
  BY DEF TakeNow
<1>2. /\ day \in Days /\ day <= day /\ activeDays \subseteq activeDays'
      /\ activeDays' \in SUBSET Days /\ day \in activeDays'
  BY LedgerAssumption DEF TakeNow, TypeOK, Days
<1>3. TypeOK'
  BY <1>1, <1>2 DEF TypeOK, TakeNow
<1>4. Sound(stats)' /\ \A q \in Requests : Sound(row[q])'
  BY <1>1, <1>2, NothingCredited DEF Sound
<1>5. ASSUME NEW q \in Requests, now'[q] # NoDay
      PROVE  now'[q] \in activeDays' /\ now'[q] <= day'
  BY <1>1, <1>2, <1>5 DEF TakeNow, TypeOK, SoundRequest
<1>6. \A q \in Requests : FairCredit(credit[q])'
  BY <1>1 DEF SoundRequest, FairCredit
<1> QED
  BY <1>3, <1>4, <1>5, <1>6 DEF SoundRequest

LEMMA WriteStep ==
  ASSUME IInv, NEW r \in Requests, WriteStats(r)
  PROVE  IInv'
<1> USE DEF IInv
<1> DEFINE c == credit[r]
<1>1. UNCHANGED <<day, kind, credit, now, row, activeDays>>
  BY DEF WriteStats
<1>2. /\ stats' = Credited(row[r], c, now[r], day)
      /\ earned' = Plus(earned, c)
      /\ c.active => now[r] # NoDay
  BY DEF WriteStats
<1>3. /\ row[r] \in StoredRow /\ c \in Credit /\ now[r] \in Days \cup {NoDay}
      /\ day \in Days /\ activeDays \in SUBSET Days /\ earned \in Sums
  BY DEF TypeOK, Sums
<1>4. stats' \in StoredRow /\ Sound(stats)'
  BY <1>1, <1>2, <1>3, SoundRowCredited DEF Sound, SoundRequest
<1>5. earned' \in Sums /\ Within(earned, earned')
  BY <1>2, <1>3 DEF Sums, Credit, Plus, Within
<1>6. TypeOK'
  BY <1>1, <1>4, <1>5 DEF WriteStats, TypeOK, Sums
<1>7. ASSUME NEW q \in Requests
      PROVE  Sound(row[q])'
  <2>1. day <= day
    BY LedgerAssumption DEF TypeOK, Days
  <2>2. row[q] \in StoredRow /\ SoundRow(row[q], earned, day, activeDays)
    BY DEF TypeOK, SoundRequest, Sound
  <2> QED
    BY <1>1, <1>3, <1>5, <2>1, <2>2, SoundRowLasts DEF Sound
<1>8. \A q \in Requests : SoundRequest(q)'
  BY <1>1, <1>7 DEF SoundRequest
<1> QED
  BY <1>4, <1>6, <1>8

LEMMA GiveUpStep ==
  ASSUME IInv, NEW r \in Requests, GiveUp(r)
  PROVE  IInv'
<1>1. TypeOK'
  BY DEF IInv, GiveUp, TypeOK
<1> QED
  BY <1>1 DEF IInv, GiveUp, Sound, SoundRequest

LEMMA NextDayStep ==
  ASSUME IInv, NextDay
  PROVE  IInv'
<1> USE DEF IInv
<1>1. UNCHANGED <<stats, phase, kind, credit, now, row, activeDays, earned>>
  BY DEF NextDay
<1>2. /\ day \in Days /\ day' \in Days /\ day <= day' /\ activeDays \in SUBSET Days
  BY LedgerAssumption DEF NextDay, TypeOK, Days
<1>3. TypeOK'
  BY <1>1, <1>2 DEF TypeOK
<1>4. Sound(stats)' /\ \A q \in Requests : Sound(row[q])'
  BY <1>1, <1>2, NothingCredited DEF Sound
<1>5. ASSUME NEW q \in Requests, now[q] # NoDay
      PROVE  now[q] \in activeDays /\ now[q] <= day'
  BY <1>2, <1>5, LedgerAssumption DEF SoundRequest, TypeOK, Days
<1>6. \A q \in Requests : FairCredit(credit[q])'
  BY <1>1 DEF SoundRequest, FairCredit
<1> QED
  BY <1>1, <1>3, <1>4, <1>5, <1>6 DEF SoundRequest

LEMMA StepIInv == IInv /\ [Next]_vars => IInv'
<1> SUFFICES ASSUME IInv, [Next]_vars
             PROVE  IInv'
  OBVIOUS
<1>1. CASE NextDay
  BY <1>1, NextDayStep
<1>2. ASSUME NEW r \in Requests, NEW k \in Kinds, NEW c \in CreditsOf(k),
             NEW d \in DaysTaken(k), Earn(r, k, c, d)
      PROVE  IInv'
  BY <1>2, EarnStep
<1>3. ASSUME NEW r \in Requests, ReadStats(r) \/ ReadFails(r)
      PROVE  IInv'
  BY <1>3, ReadStep
<1>4. ASSUME NEW r \in Requests, TakeNow(r)
      PROVE  IInv'
  BY <1>4, TakeNowStep
<1>5. ASSUME NEW r \in Requests, WriteStats(r)
      PROVE  IInv'
  BY <1>5, WriteStep
<1>6. ASSUME NEW r \in Requests, GiveUp(r)
      PROVE  IInv'
  BY <1>6, GiveUpStep
<1>7. CASE UNCHANGED vars
  BY <1>7 DEF vars, IInv, TypeOK, Sound, SoundRequest
<1> QED
  BY <1>1, <1>2, <1>3, <1>4, <1>5, <1>6, <1>7 DEF Next

(* The invariant holds throughout. *)
THEOREM Invariance == Spec => []IInv
BY InitIInv, StepIInv, PTL DEF Spec

(***************************************************************************)
(* What follows from it.                                                   *)
(***************************************************************************)

(* Type correctness: rows keep non-negative columns for any number of      *)
(* requests, snapshots and failures.                                       *)
THEOREM TypeCorrect == Spec => []TypeOK
<1>1. IInv => TypeOK
  BY DEF IInv
<1> QED
  BY <1>1, Invariance, PTL

(* The stored row is always worth what its counters say: no interleaving   *)
(* of the unlocked read-modify-writes mixes two requests' columns.         *)
THEOREM RowIsConsistent == Spec => []RowConsistent
<1>1. IInv => RowConsistent
  BY DEF IInv, Sound, SoundRow, RowConsistent
<1> QED
  BY <1>1, Invariance, PTL

(* Racing, failing and dying requests may lose credits but never invent    *)
(* any.                                                                    *)
THEOREM CreditsAreNotInvented == Spec => []NeverOverCredited
<1>1. IInv => NeverOverCredited
  BY DEF IInv, Sound, SoundRow, Within, NeverOverCredited
<1> QED
  BY <1>1, Invariance, PTL

(* The streak never exceeds the number of days the learner was active, at  *)
(* whatever moments on either side of midnight requests read, compute and  *)
(* write it.                                                               *)
THEOREM StreaksAreEarned == Spec => []StreakEarned
<1>1. IInv => StreakEarned
  BY DEF IInv, Sound, SoundRow, UpTo, StreakEarned
<1> QED
  BY <1>1, Invariance, PTL

(* The date of the last activity never goes back, however stale the        *)
(* snapshot a request writes over the row.                                 *)
THEOREM ActivityNeverGoesBack == Spec => LastActivityAdvances
<1>1. IInv /\ [Next]_vars => [stats'.last >= stats.last]_vars
  <2> SUFFICES ASSUME IInv, Next
               PROVE  stats'.last >= stats.last
    OBVIOUS
  <2>1. stats.last \in Int /\ stats.last <= day /\ day \in Int
    BY LedgerAssumption DEF IInv, TypeOK, StoredRow, Sound, SoundRow, Days, NoDay
  <2>2. stats' = stats \/ \E r \in Requests : WriteStats(r)
    BY DEF Next, NextDay, Earn, ReadStats, ReadFails, TakeNow, GiveUp
  <2>3. ASSUME NEW r \in Requests, WriteStats(r)
        PROVE  stats'.last = day
    BY <2>3 DEF WriteStats, Credited, ActivityDate
  <2> QED
    BY <2>1, <2>2, <2>3
<1> QED
  BY <1>1, Invariance, PTL DEF Spec, LastActivityAdvances

-----------------------------------------------------------------------------
(***************************************************************************)
(* What holds as long as a circumstance has obtained, by the history       *)
(* variable of MCStatsLedger.  While every snapshot a request is about to  *)
(* write over is the stored row, the row is the sum of what was earned.    *)
(* While no request is late or empty, a row's streak is the run of active  *)
(* days that ends on its last one: of every snapshot, as they are written  *)
(* back.                                                                   *)
(***************************************************************************)
Matches ==
  /\ stats.xp = earned.xp /\ stats.answered = earned.answered
  /\ stats.correct = earned.correct /\ stats.exams = earned.exams
  /\ stats.passed = earned.passed

Run(s) == (s.last - s.streak + 1) .. s.last \subseteq activeDays

Runs == Run(stats) /\ \A r \in Requests : Run(row[r])

KeptInv ==
  /\ "current" \in kept => Current /\ Matches
  /\ "punctual" \in kept => Punctual /\ Runs

(* A write over the current row adds the credit to both sums.              *)
LEMMA MatchesKept ==
  ASSUME IInv, Current, Matches, [Next]_vars
  PROVE  Matches'
<1>1. CASE UNCHANGED vars
  BY <1>1 DEF vars, Matches
<1>2. ASSUME NEW r \in Requests, WriteStats(r)
      PROVE  Matches'
  <2>1. row[r] = stats /\ stats \in StoredRow /\ credit[r] \in Credit /\ earned \in Sums
    BY <1>2 DEF WriteStats, Current, IInv, TypeOK, Sums
  <2>2. stats' = Credited(stats, credit[r], now[r], day) /\ earned' = Plus(earned, credit[r])
    BY <1>2, <2>1 DEF WriteStats
  <2> QED
    BY <2>2 DEF Matches, Credited, Accrue, Plus
<1> QED
  BY <1>1, <1>2 DEF Next, NextDay, Earn, ReadStats, ReadFails, TakeNow, GiveUp, Matches

(* A row written on the day it is computed for ends a run of active days.  *)
LEMMA RunCredited ==
  ASSUME NEW s \in StoredRow, NEW c \in Credit, c.active, Run(s), activeDays \in SUBSET Days,
         NEW d \in Days, d \in activeDays, s.last <= d
  PROVE  Run(Credited(s, c, d, d))
<1> DEFINE w == Credited(s, c, d, d)
           n == NextStreak(s.streak, s.last, d)
<1>1. s.last \in Days \cup {NoDay} /\ s.last \in Int /\ s.streak \in Nat /\ d \in Int
  BY LedgerAssumption DEF StoredRow, Days, NoDay
<1>2. w.last = d /\ w.streak = n
  BY DEF Credited, ActivityDate
<1>3. n = 1 \/ (n = s.streak /\ s.last = d) \/ (n = s.streak + 1 /\ d = s.last + 1)
  <2>1. n = 1 \/ (n = s.streak /\ d <= s.last) \/ (n = s.streak + 1 /\ d = s.last + 1)
    <3>1. \A m \in Nat, l \in Days \cup {NoDay} :
            \/ NextStreak(m, l, d) = 1
            \/ NextStreak(m, l, d) = m /\ d <= l
            \/ NextStreak(m, l, d) = m + 1 /\ d = l + 1 /\ l # NoDay
      BY NextStreakCases
    <3> QED
      BY <1>1, <3>1
  <2> QED
    BY <1>1, <2>1
<1>4. (d - n + 1) .. d \subseteq activeDays
  <2>1. CASE n = 1
    BY <1>1, <2>1
  <2>2. CASE n = s.streak /\ s.last = d
    BY <2>2 DEF Run
  <2>3. CASE n = s.streak + 1 /\ d = s.last + 1
    <3>1. \A x \in (d - n + 1) .. d : x = d \/ x \in (s.last - s.streak + 1) .. s.last
      BY <1>1, <2>3
    <3> QED
      BY <3>1 DEF Run
  <2> QED
    BY <1>3, <2>1, <2>2, <2>3
<1> QED
  BY <1>2, <1>4 DEF Run

LEMMA RunsKept ==
  ASSUME IInv, Punctual, Runs, [Next]_vars
  PROVE  Runs'
<1> USE DEF IInv
<1>0. row \in [Requests -> StoredRow] /\ activeDays \in SUBSET Days
  BY DEF TypeOK
<1>1. activeDays \subseteq activeDays'
  BY DEF Next, NextDay, Earn, ReadStats, ReadFails, TakeNow, WriteStats, GiveUp, vars
<1>2. \A s \in StoredRow : Run(s) => Run(s)'
  BY <1>1 DEF Run
<1>3. Run(stats)'
  <2>1. CASE stats' = stats
    BY <1>2, <2>1 DEF Runs, Run, TypeOK
  <2>2. ASSUME NEW r \in Requests, WriteStats(r)
        PROVE  Run(stats)'
    <3>1. /\ row[r] \in StoredRow /\ credit[r] \in Credit /\ day \in Days
          /\ now[r] \in Days \cup {NoDay} /\ Run(row[r]) /\ row[r].last <= day
      BY DEF TypeOK, Runs, SoundRequest, Sound, SoundRow
    <3>2. credit[r].active /\ now[r] = day /\ day \in activeDays
      BY <2>2, <3>1 DEF WriteStats, Punctual, InFlight, SoundRequest
    <3>3. stats' = Credited(row[r], credit[r], day, day) /\ activeDays' = activeDays
      BY <2>2, <3>2 DEF WriteStats
    <3>4. Run(Credited(row[r], credit[r], day, day))
      BY <1>0, <3>1, <3>2, RunCredited
    <3> QED
      BY <3>3, <3>4 DEF Run
  <2> QED
    BY <2>1, <2>2 DEF Next, NextDay, Earn, ReadStats, ReadFails, TakeNow, GiveUp, vars
<1>4. ASSUME NEW q \in Requests
      PROVE  Run(row[q])'
  <2>1. CASE row'[q] = row[q]
    BY <1>0, <1>2, <2>1 DEF Runs, Run
  <2>2. ASSUME NEW r \in Requests, ReadStats(r) \/ ReadFails(r)
        PROVE  Run(row[q])'
    <3>1. row' = [row EXCEPT ![r] = stats] \/ row' = [row EXCEPT ![r] = FreshRow]
      BY <2>2 DEF ReadStats, ReadFails
    <3>2. row'[q] \in {row[q], stats, FreshRow}
      BY <1>0, <3>1
    <3>3. Run(FreshRow)
      BY DEF Run, FreshRow, NoDay
    <3> QED
      BY <1>1, <3>2, <3>3 DEF Runs, Run
  <2> QED
    BY <2>1, <2>2 DEF Next, NextDay, Earn, TakeNow, WriteStats, GiveUp, vars
<1> QED
  BY <1>3, <1>4 DEF Runs

LEMMA InitKept == MCInit => IInv /\ KeptInv
<1> SUFFICES ASSUME MCInit
             PROVE  IInv /\ KeptInv
  OBVIOUS
<1>1. IInv
  BY InitIInv DEF MCInit
<1>2. Current /\ Punctual /\ Matches
  BY DEF MCInit, Init, Current, Punctual, InFlight, Matches, FreshRow, Nothing
<1>3. Runs
  BY DEF MCInit, Init, Runs, Run, FreshRow, NoDay
<1> QED
  BY <1>1, <1>2, <1>3 DEF KeptInv

LEMMA StepKept == IInv /\ KeptInv /\ [MCNext]_<<vars, kept>> => IInv' /\ KeptInv'
<1> SUFFICES ASSUME IInv, KeptInv, [MCNext]_<<vars, kept>>
             PROVE  IInv' /\ KeptInv'
  OBVIOUS
<1>1. IInv' /\ [Next]_vars
  BY StepIInv DEF MCNext
<1>2. CASE UNCHANGED <<vars, kept>>
  <2>1. UNCHANGED <<day, stats, phase, credit, now, row, activeDays, earned, kept>>
    BY <1>2 DEF vars
  <2>2. Current' = Current /\ Matches' = Matches
    BY <2>1 DEF Current, Matches
  <2>3. Punctual' = Punctual /\ Runs' = Runs
    BY <2>1 DEF Punctual, InFlight, Runs, Run
  <2> QED
    BY <1>1, <2>1, <2>2, <2>3 DEF KeptInv
<1>3. CASE MCNext
  <2>1. "current" \in kept' => "current" \in kept /\ Current'
    BY <1>3 DEF MCNext, Circumstances
  <2>2. "punctual" \in kept' => "punctual" \in kept /\ Punctual'
    BY <1>3 DEF MCNext, Circumstances
  <2> QED
    BY <1>1, <2>1, <2>2, MatchesKept, RunsKept DEF KeptInv
<1> QED
  BY <1>2, <1>3

(* As long as no request works on an outdated row, everything earned is on *)
(* the stored row, of whatever kind the requests are.                      *)
THEOREM NothingIsLostWhileCurrent == MCSpec => []NothingLostWhileCurrent
<1>1. KeptInv => NothingLostWhileCurrent
  BY DEF KeptInv, Matches, NothingLostWhileCurrent, NothingLost
<1> QED
  BY <1>1, InitKept, StepKept, PTL DEF MCSpec

(* As long as no request straddles midnight or is empty, a streak of n is  *)
(* a run of n consecutive active days, up to the last of them.             *)
THEOREM StreaksAreRunsWhilePunctual == MCSpec => []StreakIsConsecutiveWhilePunctual
<1>1. ASSUME IInv, KeptInv
      PROVE  StreakIsConsecutiveWhilePunctual
  <2>1. stats.last \in Days \cup {NoDay}
    BY <1>1 DEF IInv, TypeOK, StoredRow
  <2> QED
    BY <1>1, <2>1 DEF KeptInv, Runs, Run, StreakIsConsecutiveWhilePunctual, StreakIsConsecutive
<1> QED
  BY <1>1, InitKept, StepKept, PTL DEF MCSpec
=============================================================================
