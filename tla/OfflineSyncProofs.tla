-------------------------- MODULE OfflineSyncProofs ---------------------------
(***************************************************************************)
(* Proofs about OfflineSync, for any number of events, uploads and devices *)
(* and every combination of faults: an event is credited at most once, and *)
(* the device forgets none the server does not have.                       *)
(*                                                                         *)
(* The argument is that the row of sync_events is a lock nobody gives      *)
(* back: the upload that inserted it is the only one to get as far as      *)
(* apply(), and having credited the event it is done with it.              *)
(*                                                                         *)
(* Then its types, that every step of it is one of the ledger's or none    *)
(* (StatsLedger is refined), and, with the log of MCSyncRetries, that      *)
(* uploads one after another, however often they are retried, leave the    *)
(* statistics of the events counted once.                                  *)
(***************************************************************************)
EXTENDS MCSyncRetries, FiniteSetTheorems, TLAPS

Steps == {"waiting", "question", "mistake", "stats", "clock", "credit",
          "accepted", "rejected"}

Applying == {"question", "mistake", "stats", "clock", "credit"}

(* The types the argument needs. *)
Types1 ==
  /\ pending \in SUBSET Events
  /\ saved \in SUBSET Events
  /\ batch \in [Uploads -> SUBSET Events]
  /\ work \in [Uploads -> [Events -> Steps]]
  /\ credits \in [Events -> Nat]

(* Two uploads are never both at work on an event. *)
Exclusive(e) ==
  \A u, v \in Uploads : work[u][e] \in Applying /\ work[v][e] \in Applying => u = v

(* Whoever works on an event, or was told it is accepted, found it stored. *)
StoredFirst(e) ==
  \A u \in Uploads : work[u][e] \in Applying \cup {"accepted"} => e \in saved

(* An event credited was credited once, is stored, and is not worked on.   *)
CreditedOnce(e) ==
  /\ credits[e] \in {0, 1}
  /\ credits[e] = 1 => e \in saved /\ \A u \in Uploads : work[u][e] \notin Applying

Guarded(e) == Exclusive(e) /\ StoredFirst(e) /\ CreditedOnce(e)

IInv ==
  /\ Types1
  /\ \A e \in Events : Guarded(e)
  /\ NothingForgotten

LEMMA InitIInv == Init => IInv
BY DEF Init, IInv, Types1, Steps, Applying, Guarded, Exclusive, StoredFirst,
       CreditedOnce, NothingForgotten

(* A step that only moves one upload along with one event, from one state  *)
(* of apply() to another or to a rejection.                                *)
LEMMA Moves ==
  ASSUME IInv, NEW u \in Uploads, NEW e \in Events, NEW what \in Applying \cup {"rejected"},
         \/ work[u][e] \in Applying
         \/ what = "rejected",
         Become(u, e, what), UNCHANGED <<pending, saved, batch, credits>>
  PROVE  IInv'
<1> USE DEF IInv
<1>2. work' = [work EXCEPT ![u][e] = what] /\ work \in [Uploads -> [Events -> Steps]]
  BY DEF Become, Types1
<1>3. Types1'
  BY <1>2 DEF Types1, Steps, Applying
<1>4. \A v \in Uploads, f \in Events :
        work'[v][f] = IF v = u /\ f = e THEN what ELSE work[v][f]
  BY <1>2
<1>5. \A f \in Events : Guarded(f)'
  BY <1>4 DEF Guarded, Exclusive, StoredFirst, CreditedOnce, Applying
<1> QED
  BY <1>3, <1>5 DEF NothingForgotten

LEMMA SaveStep ==
  ASSUME IInv, NEW u \in Uploads, NEW e \in Events, SaveSyncEvent(u, e)
  PROVE  IInv'
<1> USE DEF IInv
<1>1. CASE Become(u, e, "rejected") /\ UNCHANGED saved
  BY <1>1, Moves DEF SaveSyncEvent, client, ledger
<1>2. CASE saved' = saved \cup {e} /\ Become(u, e, AfterSave(e))
  <2>1. AfterSave(e) \in {"question", "accepted"}
    BY DEF AfterSave
  <2>2. /\ work' = [work EXCEPT ![u][e] = AfterSave(e)] /\ work \in [Uploads -> [Events -> Steps]]
        /\ UNCHANGED <<pending, batch, credits>>
    BY <1>2 DEF Become, Types1, SaveSyncEvent, client, ledger
  <2>3. Types1'
    BY <1>2, <2>1, <2>2 DEF Types1, Steps
  <2>4. \A v \in Uploads, f \in Events :
          work'[v][f] = IF v = u /\ f = e THEN AfterSave(e) ELSE work[v][f]
    BY <2>2
  <2>5. ASSUME NEW f \in Events, f # e
        PROVE  Guarded(f)'
    BY <1>2, <2>2, <2>4, <2>5 DEF Guarded, Exclusive, StoredFirst, CreditedOnce, Applying
  <2>6. Guarded(e)'
    <3>1. CASE AfterSave(e) = "accepted"
      BY <1>2, <2>2, <2>4, <3>1 DEF Guarded, Exclusive, StoredFirst, CreditedOnce, Applying
    <3>2. CASE AfterSave(e) = "question"
      <4>1. e \notin saved
        BY <3>2 DEF AfterSave, IsNew
      <4>2. credits[e] = 0 /\ \A v \in Uploads : work[v][e] \notin Applying
        BY <4>1 DEF Guarded, StoredFirst, CreditedOnce
      <4> QED
        BY <1>2, <2>2, <2>4, <4>2 DEF Guarded, Exclusive, StoredFirst, CreditedOnce, Applying
    <3> QED
      BY <2>1, <3>1, <3>2
  <2> QED
    BY <1>2, <2>2, <2>3, <2>5, <2>6 DEF NothingForgotten
<1> QED
  BY <1>1, <1>2 DEF SaveSyncEvent

LEMMA ApplyStep ==
  ASSUME IInv, NEW u \in Uploads, NEW e \in Events,
         GetQuestion(u, e) \/ UpsertMistake(u, e) \/ GetUserStats(u, e) \/ TakeNow(u, e)
  PROVE  IInv'
<1>1. UNCHANGED <<pending, saved, batch, credits>> /\ work[u][e] \in Applying
  BY DEF GetQuestion, UpsertMistake, GetUserStats, TakeNow, client, ledger, At, Applying
<1>2. \E what \in Applying \cup {"rejected"} : Become(u, e, what)
  BY DEF GetQuestion, UpsertMistake, GetUserStats, TakeNow, Applying
<1> QED
  BY <1>1, <1>2, Moves

LEMMA CreditStep ==
  ASSUME IInv, NEW u \in Uploads, NEW e \in Events, UpdateUserStats(u, e)
  PROVE  IInv'
<1> USE DEF IInv
<1>1. UNCHANGED <<pending, saved, batch>> /\ work[u][e] = "credit"
  BY DEF UpdateUserStats, client, At
<1>2. CASE Become(u, e, "rejected") /\ UNCHANGED credits
  BY <1>1, <1>2, Moves DEF Applying
<1>3. CASE Become(u, e, "accepted") /\ credits' = [credits EXCEPT ![e] = @ + 1]
  <2>2. work' = [work EXCEPT ![u][e] = "accepted"] /\ work \in [Uploads -> [Events -> Steps]]
    BY <1>3 DEF Become, Types1
  <2>3. Types1'
    BY <1>1, <1>3, <2>2 DEF Types1, Steps
  <2>4. \A v \in Uploads, f \in Events :
          work'[v][f] = IF v = u /\ f = e THEN "accepted" ELSE work[v][f]
    BY <2>2
  <2>5. \A f \in Events : credits'[f] = IF f = e THEN credits[e] + 1 ELSE credits[f]
    BY <1>3 DEF Types1
  <2>6. e \in saved /\ credits[e] = 0
    BY <1>1 DEF Guarded, StoredFirst, CreditedOnce, Applying
  <2>7. \A v \in Uploads : work'[v][e] \notin Applying
    BY <1>1, <2>4 DEF Guarded, Exclusive, Applying
  <2>8. Guarded(e)'
    BY <1>1, <2>4, <2>5, <2>6, <2>7 DEF Guarded, Exclusive, StoredFirst, CreditedOnce
  <2>9. ASSUME NEW f \in Events, f # e
        PROVE  Guarded(f)'
    BY <1>1, <2>4, <2>5, <2>9 DEF Guarded, Exclusive, StoredFirst, CreditedOnce
  <2> QED
    BY <1>1, <2>3, <2>8, <2>9 DEF NothingForgotten
<1> QED
  BY <1>2, <1>3 DEF UpdateUserStats

LEMMA ReplyStep ==
  ASSUME IInv, NEW u \in Uploads, Reply(u)
  PROVE  IInv'
<1> USE DEF IInv
<1>1. UNCHANGED <<saved, batch, work, credits>>
  BY DEF Reply, ledger
<1>2. pending' \in SUBSET Events /\ pending \ Accepted(u) \subseteq pending'
  BY DEF Reply, Types1
<1>3. Accepted(u) \subseteq saved
  BY DEF Accepted, Types1, Guarded, StoredFirst
<1>4. NothingForgotten'
  BY <1>1, <1>2, <1>3 DEF NothingForgotten
<1>5. Types1'
  BY <1>1, <1>2 DEF Types1
<1>6. \A e \in Events : Guarded(e)'
  BY <1>1 DEF Guarded, Exclusive, StoredFirst, CreditedOnce
<1> QED
  BY <1>4, <1>5, <1>6

LEMMA UploadStep ==
  ASSUME IInv, NEW u \in Uploads, Upload(u)
  PROVE  IInv'
<1> USE DEF IInv
<1>1. UNCHANGED <<pending, saved, work, credits>>
  BY DEF Upload, client, ledger
<1>2. Types1'
  BY <1>1 DEF Upload, Types1
<1> QED
  BY <1>1, <1>2 DEF Guarded, Exclusive, StoredFirst, CreditedOnce, NothingForgotten

(* Midnight and a dying process touch nothing the invariant speaks of. *)
LEMMA OtherStep ==
  ASSUME IInv, UNCHANGED <<pending, saved, batch, work, credits>>
  PROVE  IInv'
BY DEF IInv, Types1, Guarded, Exclusive, StoredFirst, CreditedOnce, NothingForgotten

LEMMA StepIInv == IInv /\ [Next]_vars => IInv'
<1> SUFFICES ASSUME IInv, [Next]_vars
             PROVE  IInv'
  OBVIOUS
<1>1. CASE NextDay \/ (\E u \in Uploads : Crash(u)) \/ UNCHANGED vars
  BY <1>1, OtherStep DEF NextDay, Crash, vars, client, ledger
<1>2. ASSUME NEW u \in Uploads, Upload(u)
      PROVE  IInv'
  BY <1>2, UploadStep
<1>3. ASSUME NEW u \in Uploads, ProcessEvents(u)
      PROVE  IInv'
  <2>1. \A e \in batch[u] : e \in Events
    BY DEF IInv, Types1
  <2>2. CASE \E e \in batch[u] : SaveSyncEvent(u, e)
    BY <2>1, <2>2, SaveStep
  <2>3. CASE \E e \in batch[u] : UpdateUserStats(u, e)
    BY <2>1, <2>3, CreditStep
  <2>4. CASE \E e \in batch[u] : \/ GetQuestion(u, e) \/ UpsertMistake(u, e)
                                 \/ GetUserStats(u, e) \/ TakeNow(u, e)
    BY <2>1, <2>4, ApplyStep
  <2>5. CASE Reply(u)
    BY <2>5, ReplyStep
  <2> QED
    BY <1>3, <2>2, <2>3, <2>4, <2>5 DEF ProcessEvents
<1> QED
  BY <1>1, <1>2, <1>3 DEF Next

THEOREM Invariance == Spec => []IInv
BY InitIInv, StepIInv, PTL DEF Spec

(* Retried, overlapping, half-finished uploads: an event is credited at    *)
(* most once.                                                              *)
THEOREM AtMostOnce == Spec => []CreditedAtMostOnce
<1>1. IInv => CreditedAtMostOnce
  BY DEF IInv, Guarded, CreditedOnce, CreditedAtMostOnce
<1> QED
  BY <1>1, Invariance, PTL

(* However many uploads carry an event, one at most applies it.            *)
THEOREM OneApplies == Spec => []OneUploadApplies
<1>1. IInv => OneUploadApplies
  <2> SUFFICES ASSUME IInv, NEW e \in Events
               PROVE  Cardinality({u \in Uploads : work[u][e] \in Applying}) <= 1
    BY DEF OneUploadApplies, Applying
  <2> DEFINE A == {u \in Uploads : work[u][e] \in Applying}
  <2>1. A = {} \/ \E u \in Uploads : A = {u}
    BY DEF IInv, Guarded, Exclusive
  <2> HIDE DEF A
  <2>2. Cardinality(A) = 0 \/ Cardinality(A) = 1
    BY <2>1, FS_EmptySet, FS_Singleton
  <2>3. Cardinality(A) <= 1
    BY <2>2
  <2> QED
    BY <2>3 DEF A
<1> QED
  BY <1>1, Invariance, PTL

(* No lost reply, failure or crash makes the device forget an answer the   *)
(* server has not stored.                                                  *)
THEOREM NoneForgotten == Spec => []NothingForgotten
<1>1. IInv => NothingForgotten
  BY DEF IInv
<1> QED
  BY <1>1, Invariance, PTL

-----------------------------------------------------------------------------
(***************************************************************************)
(* What an upload can be at work on, and the types of everything.  A row   *)
(* of user_stats that only offline answers touch counts no exam, and every *)
(* snapshot of it shares that.                                             *)
(***************************************************************************)
Sums == [answered: Nat, correct: Nat, xp: Nat, exams: Nat, passed: Nat]

PlainRow == {s \in StoredRow : s.exams = 0 /\ s.passed = 0}

WellTyped ==
  /\ event \in [Events -> [type: Types, content: Content]]
  /\ pending \in SUBSET Events
  /\ saved \in SUBSET Events
  /\ queued \in SUBSET Events
  /\ stats \in PlainRow
  /\ day \in Days
  /\ pc \in [Uploads -> {"idle", "running", "answered", "lost"}]
  /\ batch \in [Uploads -> SUBSET Events]
  /\ work \in [Uploads -> [Events -> Steps]]
  /\ now \in [Uploads -> [Events -> Days \cup {NoDay}]]
  /\ row \in [Uploads -> [Events -> PlainRow]]
  /\ credits \in [Events -> Nat]
  /\ activeDays \in SUBSET Days
  /\ earned \in Sums

AtWork(u, e) == work[u][e] \in Applying

(* An upload is at work on one event of its batch at a time, while it runs *)
(* or as it was when it died; it takes a date for it just before the end.  *)
SoundWork(u, e) ==
  /\ AtWork(u, e) => /\ pc[u] \in {"running", "lost"} /\ e \in batch[u]
                     /\ "crash" \notin Faults => pc[u] = "running"
                     /\ event[e].type = SyncEventPracticeAnswer
  /\ work[u][e] \in {"mistake", "stats", "clock", "credit"} => event[e].content # "invalid"
  /\ work[u][e] \in {"waiting", "question", "mistake", "stats", "clock"} => now[u][e] = NoDay
  /\ work[u][e] = "credit" => now[u][e] \in Days

OneAtATime(u) == \A e, f \in Events : AtWork(u, e) /\ AtWork(u, f) => e = f

Working ==
  /\ WellTyped
  /\ \A u \in Uploads : OneAtATime(u)
  /\ \A u \in Uploads, e \in Events : SoundWork(u, e)

(* The row of a learner nothing is stored for counts no exam.              *)
LEMMA FreshRowType == FreshRow \in PlainRow
BY DEF FreshRow, PlainRow, StoredRow, NoDay

LEMMA InitWorking == Init => Working
<1> SUFFICES ASSUME Init
             PROVE  Working
  OBVIOUS
<1>1. WellTyped
  BY FreshRowType, SyncAssumption DEF Init, WellTyped, Steps, Days, Sums, Nothing
<1> QED
  BY <1>1 DEF Init, Working, OneAtATime, SoundWork, AtWork, Applying

(* An answer's credit, and what it adds to a row and to the sums.          *)
LEMMA CreditType ==
  ASSUME NEW e \in Events
  PROVE  CreditOf(e) \in Credit /\ CreditOf(e).exams = 0 /\ CreditOf(e).passed = 0 /\ CreditOf(e).active
BY DEF CreditOf, SyncCredit, Credit, XPPerCorrectAnswer, XPPerIncorrectAnswer

LEMMA CreditedType ==
  ASSUME NEW s \in PlainRow, NEW c \in Credit, c.exams = 0, c.passed = 0,
         NEW today \in Days \cup {NoDay}, NEW d \in Days
  PROVE  Credited(s, c, today, d) \in PlainRow
<1>1. /\ s.xp \in Nat /\ s.answered \in Nat /\ s.correct \in Nat
      /\ s.exams = 0 /\ s.passed = 0 /\ s.streak \in Nat /\ s.last \in Days \cup {NoDay}
  BY DEF PlainRow, StoredRow
<1>2. c.xp \in Nat /\ c.answered \in Nat /\ c.correct \in Nat /\ c.active \in BOOLEAN
  BY DEF Credit
<1>3. NextStreak(s.streak, s.last, today) \in Nat
  BY <1>1, SyncAssumption DEF NextStreak, Days, NoDay
<1>4. Level(s.xp + c.xp) \in Nat
  BY <1>1, <1>2 DEF Level
<1> QED
  BY <1>1, <1>2, <1>3, <1>4 DEF Credited, Accrue, ActivityDate, PlainRow, StoredRow

LEMMA SumType ==
  ASSUME NEW s \in Sums, NEW c \in Credit
  PROVE  /\ [f \in DOMAIN s |-> s[f] + c[f]] \in Sums
         /\ [f \in DOMAIN s |-> s[f] + c[f]] = Ledger!Plus(s, c)
<1>1. DOMAIN s = {"answered", "correct", "xp", "exams", "passed"}
  BY DEF Sums
<1>2. \A f \in DOMAIN s : s[f] \in Nat /\ c[f] \in Nat
  BY <1>1 DEF Sums, Credit
<1>3. [f \in DOMAIN s |-> s[f] + c[f]] \in Sums
  BY <1>1, <1>2 DEF Sums
<1>4. [f \in DOMAIN s |-> s[f] + c[f]] = Ledger!Plus(s, c)
  BY <1>1 DEF Ledger!Plus
<1> QED
  BY <1>3, <1>4

(* A step of upload u with its event e, from one of its states to another. *)
LEMMA WorkMoves ==
  ASSUME Working, WellTyped', NEW u \in Uploads, NEW e \in batch[u], pc[u] = "running",
         AtWork(u, e) \/ Idle(u),
         NEW what \in Steps, Become(u, e, what), UNCHANGED <<event, pc, batch>>,
         \A v \in Uploads, f \in Events : now'[v][f] = now[v][f] \/ (v = u /\ f = e),
         what \in Applying => event[e].type = SyncEventPracticeAnswer,
         what \in {"mistake", "stats", "clock", "credit"} => event[e].content # "invalid",
         what \in {"waiting", "question", "mistake", "stats", "clock"} => now'[u][e] = NoDay,
         what = "credit" => now'[u][e] \in Days
  PROVE  Working'
<1>0. e \in Events /\ work \in [Uploads -> [Events -> Steps]]
  BY DEF Working, WellTyped
<1>1. \A v \in Uploads, f \in Events :
        work'[v][f] = IF v = u /\ f = e THEN what ELSE work[v][f]
  BY <1>0 DEF Become
<1>2. ASSUME NEW v \in Uploads, NEW f \in Events
      PROVE  SoundWork(v, f)'
  <2>1. CASE v = u /\ f = e
    BY <1>0, <1>1, <2>1 DEF SoundWork, AtWork
  <2>2. CASE ~ (v = u /\ f = e)
    <3>1. work'[v][f] = work[v][f] /\ now'[v][f] = now[v][f] /\ SoundWork(v, f)
      BY <1>1, <2>2 DEF Working
    <3> QED
      BY <3>1 DEF SoundWork, AtWork
  <2> QED
    BY <2>1, <2>2
<1>3. ASSUME NEW f \in Events, AtWork(u, f)
      PROVE  f = e
  <2>1. f \in batch[u] /\ OneAtATime(u)
    BY <1>3 DEF Working, SoundWork
  <2> QED
    BY <1>0, <1>3, <2>1 DEF OneAtATime, Idle, AtWork, Applying
<1>4. ASSUME NEW v \in Uploads
      PROVE  OneAtATime(v)'
  <2>1. CASE v = u
    BY <1>0, <1>1, <1>3, <2>1 DEF OneAtATime, AtWork
  <2>2. CASE v # u
    BY <1>1, <2>2 DEF OneAtATime, AtWork, Working
  <2> QED
    BY <2>1, <2>2
<1> QED
  BY <1>2, <1>4 DEF Working

LEMMA SaveWorks ==
  ASSUME Working, NEW u \in Uploads, NEW e \in batch[u], SaveSyncEvent(u, e)
  PROVE  Working'
<1>0. e \in Events /\ work \in [Uploads -> [Events -> Steps]] /\ saved \in SUBSET Events
  BY DEF Working, WellTyped
<1>1. /\ pc[u] = "running" /\ work[u][e] = "waiting" /\ Idle(u)
      /\ UNCHANGED <<event, pending, queued, ledger, day, pc, batch, now, row>>
  BY DEF SaveSyncEvent, At, client
<1>2. PICK what \in {"question", "accepted", "rejected"} :
        Become(u, e, what) /\ (what = "question" => event[e].type = SyncEventPracticeAnswer)
  BY DEF SaveSyncEvent, AfterSave
<1>3. WellTyped'
  <2>1. saved' \in SUBSET Events
    BY <1>0 DEF SaveSyncEvent
  <2>2. work' \in [Uploads -> [Events -> Steps]]
    BY <1>0, <1>2 DEF Become, Steps
  <2> QED
    BY <1>1, <2>1, <2>2 DEF Working, WellTyped, ledger
<1>4. now'[u][e] = NoDay
  BY <1>0, <1>1 DEF Working, SoundWork
<1> QED
  BY <1>1, <1>2, <1>3, <1>4, WorkMoves DEF Steps, Applying

LEMMA ApplyWorks ==
  ASSUME Working, NEW u \in Uploads, NEW e \in batch[u],
         GetQuestion(u, e) \/ UpsertMistake(u, e) \/ GetUserStats(u, e) \/ TakeNow(u, e)
  PROVE  Working'
<1>0. /\ e \in Events /\ work \in [Uploads -> [Events -> Steps]] /\ row \in [Uploads -> [Events -> PlainRow]]
      /\ now \in [Uploads -> [Events -> Days \cup {NoDay}]] /\ stats \in PlainRow /\ queued \in SUBSET Events
      /\ day \in Days /\ activeDays \in SUBSET Days /\ SoundWork(u, e)
  BY DEF Working, WellTyped
<1>1. /\ pc[u] = "running" /\ AtWork(u, e)
      /\ UNCHANGED <<event, pending, saved, stats, credits, earned, day, pc, batch>>
  BY DEF GetQuestion, UpsertMistake, GetUserStats, TakeNow, At, AtWork, Applying, client, ledger
<1>2. event[e].type = SyncEventPracticeAnswer
  BY <1>0, <1>1 DEF SoundWork
<1>3. /\ queued' \in SUBSET Events /\ row' \in [Uploads -> [Events -> PlainRow]]
      /\ now' \in [Uploads -> [Events -> Days \cup {NoDay}]] /\ activeDays' \in SUBSET Days
  <2>1. CASE GetQuestion(u, e)
    BY <1>0, <2>1 DEF GetQuestion, ledger
  <2>2. CASE UpsertMistake(u, e)
    BY <1>0, <2>2 DEF UpsertMistake, ledger
  <2>3. CASE GetUserStats(u, e)
    <3>1. \A s \in PlainRow : [row EXCEPT ![u][e] = s] \in [Uploads -> [Events -> PlainRow]]
      BY <1>0
    <3>2. row' \in [Uploads -> [Events -> PlainRow]]
      BY <1>0, <2>3, <3>1, FreshRowType DEF GetUserStats
    <3> QED
      BY <1>0, <2>3, <3>2 DEF GetUserStats, ledger
  <2>4. CASE TakeNow(u, e)
    BY <1>0, <2>4 DEF TakeNow
  <2> QED
    BY <2>1, <2>2, <2>3, <2>4
<1>4. ASSUME NEW what \in Steps, Become(u, e, what)
      PROVE  WellTyped'
  <2>1. work' \in [Uploads -> [Events -> Steps]]
    BY <1>0, <1>4 DEF Become
  <2> QED
    BY <1>1, <1>3, <2>1 DEF Working, WellTyped
<1>5. CASE GetQuestion(u, e)
  <2>1. PICK what \in {"mistake", "rejected"} :
          Become(u, e, what) /\ (what = "mistake" => event[e].content # "invalid")
    BY <1>5 DEF GetQuestion
  <2>2. now'[u][e] = NoDay /\ now' = now /\ what \in Steps
    BY <1>0, <1>5, <2>1 DEF GetQuestion, At, SoundWork, Steps
  <2> QED
    BY <1>1, <1>2, <1>4, <2>1, <2>2, WorkMoves
<1>6. CASE UpsertMistake(u, e)
  <2>1. /\ Become(u, e, "stats") /\ event[e].content # "invalid" /\ now'[u][e] = NoDay /\ now' = now
    BY <1>0, <1>6 DEF UpsertMistake, At, SoundWork
  <2> QED
    BY <1>1, <1>2, <1>4, <2>1, WorkMoves DEF Steps
<1>7. CASE GetUserStats(u, e)
  <2>1. /\ Become(u, e, "clock") /\ event[e].content # "invalid" /\ now'[u][e] = NoDay /\ now' = now
    BY <1>0, <1>7 DEF GetUserStats, At, SoundWork
  <2> QED
    BY <1>1, <1>2, <1>4, <2>1, WorkMoves DEF Steps
<1>8. CASE TakeNow(u, e)
  <2>1. /\ Become(u, e, "credit") /\ event[e].content # "invalid" /\ now' = [now EXCEPT ![u][e] = day]
    BY <1>0, <1>8 DEF TakeNow, At, SoundWork
  <2>2. /\ now'[u][e] \in Days
        /\ \A v \in Uploads, f \in Events : now'[v][f] = now[v][f] \/ (v = u /\ f = e)
    BY <1>0, <2>1
  <2> QED
    BY <1>1, <1>2, <1>4, <2>1, <2>2, WorkMoves DEF Steps
<1> QED
  BY <1>5, <1>6, <1>7, <1>8

LEMMA CreditWorks ==
  ASSUME Working, NEW u \in Uploads, NEW e \in batch[u], UpdateUserStats(u, e)
  PROVE  Working'
<1>0. /\ e \in Events /\ work \in [Uploads -> [Events -> Steps]] /\ row[u][e] \in PlainRow
      /\ now[u][e] \in Days \cup {NoDay} /\ stats \in PlainRow /\ earned \in Sums
      /\ day \in Days /\ credits \in [Events -> Nat]
  BY DEF Working, WellTyped
<1>1. /\ pc[u] = "running" /\ AtWork(u, e)
      /\ UNCHANGED <<event, pending, saved, queued, activeDays, day, pc, batch, now, row>>
  BY DEF UpdateUserStats, At, AtWork, Applying, client
<1>2. PICK what \in {"accepted", "rejected"} : Become(u, e, what)
  BY DEF UpdateUserStats
<1>3. stats' \in PlainRow /\ earned' \in Sums /\ credits' \in [Events -> Nat]
  <2>1. Credited(row[u][e], CreditOf(e), now[u][e], day) \in PlainRow
    BY <1>0, CreditType, CreditedType
  <2>2. [c \in DOMAIN earned |-> earned[c] + CreditOf(e)[c]] \in Sums
    BY <1>0, CreditType, SumType
  <2>3. [credits EXCEPT ![e] = @ + 1] \in [Events -> Nat]
    BY <1>0
  <2> QED
    BY <1>0, <2>1, <2>2, <2>3 DEF UpdateUserStats
<1>4. WellTyped'
  <2>1. work' \in [Uploads -> [Events -> Steps]]
    BY <1>0, <1>2 DEF Become, Steps
  <2> QED
    BY <1>1, <1>3, <2>1 DEF Working, WellTyped
<1> QED
  BY <1>1, <1>2, <1>4, WorkMoves DEF Steps, Applying

LEMMA StepWorking == Working /\ [Next]_vars => Working'
<1> SUFFICES ASSUME Working, [Next]_vars
             PROVE  Working'
  OBVIOUS
<1>1. CASE UNCHANGED vars
  BY <1>1 DEF vars, client, ledger, Working, WellTyped, OneAtATime, SoundWork, AtWork
<1>2. CASE NextDay
  <2>1. day' \in Days
    BY <1>2, SyncAssumption DEF NextDay, Days, Working, WellTyped
  <2> QED
    BY <1>2, <2>1 DEF NextDay, client, ledger, Working, WellTyped, OneAtATime, SoundWork, AtWork
<1>3. ASSUME NEW u \in Uploads,
             \/ Upload(u) \/ Reply(u) \/ Crash(u)
      PROVE  Working'
  <2>1. UNCHANGED <<event, saved, queued, ledger, day, work, now, row>>
    BY <1>3 DEF Upload, Reply, Crash, client
  <2>2. /\ \A v \in Uploads \ {u} : pc'[v] = pc[v] /\ batch'[v] = batch[v]
        /\ pending' \in SUBSET Events /\ batch' \in [Uploads -> SUBSET Events]
        /\ pc' \in [Uploads -> {"idle", "running", "answered", "lost"}]
    <3>1. CASE Upload(u)
      <4>1. pc' = [pc EXCEPT ![u] = "running"] /\ pending' = pending
        BY <3>1 DEF Upload, client
      <4>2. PICK b \in SUBSET Events : batch' = [batch EXCEPT ![u] = b]
        BY <3>1 DEF Upload, Working, WellTyped
      <4> QED
        BY <4>1, <4>2 DEF Working, WellTyped
    <3>2. CASE Reply(u) \/ Crash(u)
      BY <3>2 DEF Reply, Crash, client, Working, WellTyped
    <3> QED
      BY <1>3, <3>1, <3>2
  <2>3. \A f \in Events : AtWork(u, f) => /\ pc'[u] \in {"running", "lost"} /\ f \in batch'[u]
                                          /\ "crash" \notin Faults => pc'[u] = "running"
    <3>1. CASE Upload(u)
      BY <3>1 DEF Upload, Working, SoundWork
    <3>2. CASE Reply(u)
      BY <3>2 DEF Reply, Done, Working, SoundWork, AtWork, Applying
    <3>3. CASE Crash(u)
      BY <3>3 DEF Crash, Working, WellTyped, SoundWork
    <3> QED
      BY <1>3, <3>1, <3>2, <3>3
  <2>4. WellTyped'
    BY <2>1, <2>2 DEF Working, WellTyped, ledger
  <2>5. ASSUME NEW v \in Uploads, NEW f \in Events
        PROVE  SoundWork(v, f)'
    <3>1. SoundWork(v, f)
      BY DEF Working
    <3>2. CASE v = u
      BY <2>1, <2>3, <3>1, <3>2 DEF SoundWork, AtWork
    <3>3. CASE v # u
      BY <2>1, <2>2, <3>1, <3>3 DEF SoundWork, AtWork
    <3> QED
      BY <3>2, <3>3
  <2>6. \A v \in Uploads : OneAtATime(v)'
    BY <2>1 DEF Working, OneAtATime, AtWork
  <2> QED
    BY <2>4, <2>5, <2>6 DEF Working
<1>4. ASSUME NEW u \in Uploads, NEW e \in batch[u],
             \/ SaveSyncEvent(u, e) \/ GetQuestion(u, e) \/ UpsertMistake(u, e)
             \/ GetUserStats(u, e) \/ TakeNow(u, e) \/ UpdateUserStats(u, e)
      PROVE  Working'
  BY <1>4, SaveWorks, ApplyWorks, CreditWorks
<1> QED
  BY <1>1, <1>2, <1>3, <1>4 DEF Next, ProcessEvents

(* Every variable keeps its type, and a learner whose answers are all      *)
(* offline is never credited with an exam.                                 *)
THEOREM TypeCorrect == Spec => []TypeOK
<1>1. Working => TypeOK
  BY DEF Working, WellTyped, TypeOK, PlainRow, Steps, Sums
<1> QED
  BY <1>1, InitWorking, StepWorking, PTL DEF Spec

-----------------------------------------------------------------------------
(***************************************************************************)
(* Uploads implement StatsLedger: every step of theirs is a step of the    *)
(* ledger's requests, each an event of an upload, or none at all.          *)
(***************************************************************************)
Phases  == [p \in Pairs |-> LedgerPhase(p[1], p[2])]
Kind    == [p \in Pairs |-> "sync"]
Claims  == [p \in Pairs |-> IF LedgerPhase(p[1], p[2]) = "idle" THEN SyncCredit(FALSE) ELSE CreditOf(p[2])]
Dates   == [p \in Pairs |-> now[p[1]][p[2]]]
Reads   == [p \in Pairs |-> row[p[1]][p[2]]]

(* The two modules share LearnerStats, and its arithmetic.                 *)
LEMMA SameArithmetic ==
  /\ Ledger!NoDay = NoDay /\ Ledger!FreshRow = FreshRow
  /\ \A b : Ledger!SyncCredit(b) = SyncCredit(b)
  /\ \A s, c, t, d : Ledger!Credited(s, c, t, d) = Credited(s, c, t, d)
  /\ \A S : Ledger!Cardinality(S) = Cardinality(S)
<1>1. Ledger!NoDay = NoDay /\ Ledger!FreshRow = FreshRow
  BY DEF Ledger!NoDay, NoDay, Ledger!FreshRow, FreshRow
<1>2. \A b : Ledger!SyncCredit(b) = SyncCredit(b)
  BY DEF Ledger!SyncCredit, SyncCredit, Ledger!XPPerCorrectAnswer, XPPerCorrectAnswer,
         Ledger!XPPerIncorrectAnswer, XPPerIncorrectAnswer
<1>3. \A s, c, t, d : Ledger!Credited(s, c, t, d) = Credited(s, c, t, d)
  BY <1>1 DEF Ledger!Credited, Credited, Ledger!Accrue, Accrue, Ledger!Level, Level,
              Ledger!NextStreak, NextStreak, Ledger!ActivityDate, ActivityDate
<1>4. \A S : Ledger!Cardinality(S) = Cardinality(S)
  BY Zenon DEF Ledger!Cardinality, Cardinality
<1> QED
  BY <1>1, <1>2, <1>3, <1>4

LEMMA InitRefines == Init => Ledger!Init
<1> SUFFICES ASSUME Init
             PROVE  Ledger!Init
  OBVIOUS
<1>1. \A p \in Pairs : /\ LedgerPhase(p[1], p[2]) = "idle"
                       /\ now[p[1]][p[2]] = NoDay /\ row[p[1]][p[2]] = FreshRow
  BY DEF Init, Pairs, LedgerPhase
<1>2. Nothing = Ledger!Nothing
  BY DEF Nothing, Ledger!Nothing
<1> QED
  BY <1>1, <1>2, SameArithmetic DEF Init, Ledger!Init

(* A step that moves no event's phase, date or snapshot is none of the     *)
(* ledger's.                                                               *)
LEMMA Stutters ==
  ASSUME \A u \in Uploads, e \in Events :
           /\ LedgerPhase(u, e)' = LedgerPhase(u, e)
           /\ now'[u][e] = now[u][e] /\ row'[u][e] = row[u][e],
         UNCHANGED <<event, day, stats, activeDays, earned>>
  PROVE  UNCHANGED Ledger!vars
<1>1. \A p \in Pairs : /\ LedgerPhase(p[1], p[2])' = LedgerPhase(p[1], p[2])
                       /\ now'[p[1]][p[2]] = now[p[1]][p[2]] /\ row'[p[1]][p[2]] = row[p[1]][p[2]]
                       /\ CreditOf(p[2])' = CreditOf(p[2])
  BY DEF Pairs, CreditOf
<1>2. Phases' = Phases /\ Dates' = Dates /\ Reads' = Reads
  BY <1>1 DEF Phases, Dates, Reads
<1>3. Claims' = Claims
  BY <1>1 DEF Claims
<1> QED
  BY <1>2, <1>3 DEF Ledger!vars, Phases, Dates, Reads, Claims

(* A step of upload u with event e moves the phase of that request only.   *)
LEMMA OnePhaseMoves ==
  ASSUME Working, NEW u \in Uploads, NEW e \in Events, NEW what \in Steps, NEW x,
         Become(u, e, what), UNCHANGED <<event, pc>>,
         \A v \in Uploads, f \in Events : now'[v][f] = now[v][f] \/ (v = u /\ f = e),
         LedgerPhase(u, e)' = x, x # "idle"
  PROVE  /\ Phases' = [Phases EXCEPT ![<<u, e>>] = x]
         /\ Claims' = [Claims EXCEPT ![<<u, e>>] = CreditOf(e)]
<1>1. ASSUME NEW v \in Uploads, NEW f \in Events, ~ (v = u /\ f = e)
      PROVE  LedgerPhase(v, f)' = LedgerPhase(v, f)
  <2>1. work'[v][f] = work[v][f]
    BY <1>1 DEF Become, Working, WellTyped
  <2> QED
    BY <1>1, <2>1 DEF LedgerPhase
<1>2. ASSUME NEW p \in Pairs
      PROVE  LedgerPhase(p[1], p[2])' = IF p = <<u, e>> THEN x ELSE LedgerPhase(p[1], p[2])
  BY <1>1 DEF Pairs
<1>3. \A f : CreditOf(f)' = CreditOf(f)
  BY DEF CreditOf
<1>4. Phases' = [Phases EXCEPT ![<<u, e>>] = x]
  BY <1>2 DEF Phases
<1>5. Claims' = [Claims EXCEPT ![<<u, e>>] = CreditOf(e)]
  <2>1. ASSUME NEW p \in Pairs
        PROVE  (IF LedgerPhase(p[1], p[2]) = "idle" THEN SyncCredit(FALSE) ELSE CreditOf(p[2]))'
                 = IF p = <<u, e>> THEN CreditOf(e)
                   ELSE IF LedgerPhase(p[1], p[2]) = "idle" THEN SyncCredit(FALSE) ELSE CreditOf(p[2])
    <3>1. CASE p = <<u, e>>
      BY <1>2, <1>3, <3>1
    <3>2. CASE p # <<u, e>>
      BY <1>2, <1>3, <3>2 DEF SyncCredit
    <3> QED
      BY <3>1, <3>2
  <2> QED
    BY <2>1 DEF Claims
<1> QED
  BY <1>4, <1>5

(* Before an event's stats are read: nothing the ledger knows of.          *)
LEMMA SaveRefines ==
  ASSUME Working, NEW u \in Uploads, NEW e \in batch[u],
         SaveSyncEvent(u, e) \/ GetQuestion(u, e)
  PROVE  UNCHANGED Ledger!vars
<1>0. e \in Events /\ work \in [Uploads -> [Events -> Steps]] /\ SoundWork(u, e)
  BY DEF Working, WellTyped
<1>1. /\ work[u][e] \in {"waiting", "question"} /\ now[u][e] = NoDay
      /\ UNCHANGED <<event, day, stats, activeDays, earned, pc, now, row>>
  BY <1>0 DEF SaveSyncEvent, GetQuestion, At, SoundWork, client, ledger
<1>2. PICK what \in {"question", "mistake", "accepted", "rejected"} : Become(u, e, what)
  BY DEF SaveSyncEvent, AfterSave, GetQuestion
<1>3. \A v \in Uploads, f \in Events :
        work'[v][f] = IF v = u /\ f = e THEN what ELSE work[v][f]
  BY <1>0, <1>2 DEF Become
<1>4. ASSUME NEW v \in Uploads, NEW f \in Events
      PROVE  LedgerPhase(v, f)' = LedgerPhase(v, f)
  <2>1. CASE v = u /\ f = e
    BY <1>1, <1>3, <2>1 DEF LedgerPhase
  <2>2. CASE ~ (v = u /\ f = e)
    BY <1>1, <1>3, <2>2 DEF LedgerPhase
  <2> QED
    BY <2>1, <2>2
<1> QED
  BY <1>1, <1>4, Stutters

(* Where a request of the ledger is, and what it holds. *)
LEMMA RequestOf ==
  ASSUME NEW u \in Uploads, NEW e \in Events
  PROVE  /\ <<u, e>> \in Pairs
         /\ Phases[<<u, e>>] = LedgerPhase(u, e) /\ Dates[<<u, e>>] = now[u][e]
         /\ Reads[<<u, e>>] = row[u][e]
         /\ LedgerPhase(u, e) # "idle" => Claims[<<u, e>>] = CreditOf(e)
         /\ LedgerPhase(u, e) = "idle" => Claims[<<u, e>>] = SyncCredit(FALSE)
BY DEF Pairs, Phases, Dates, Reads, Claims

(* The credit is fixed when the review queue has been seen to.             *)
LEMMA EarnRefines ==
  ASSUME Working, NEW u \in Uploads, NEW e \in batch[u], UpsertMistake(u, e)
  PROVE  \E c \in Ledger!CreditsOf("sync"), d \in Ledger!DaysTaken("sync") :
           Ledger!Earn(<<u, e>>, "sync", c, d)
<1>0. e \in Events /\ SoundWork(u, e) /\ activeDays \in SUBSET Days
  BY DEF Working, WellTyped
<1>1. /\ work[u][e] = "mistake" /\ pc[u] = "running" /\ now[u][e] = NoDay /\ Become(u, e, "stats")
      /\ UNCHANGED <<event, day, stats, activeDays, earned, pc, now, row>>
  BY <1>0 DEF UpsertMistake, At, SoundWork, client, ledger
<1>2. LedgerPhase(u, e) = "idle" /\ LedgerPhase(u, e)' = "earned"
  <2>1. work'[u][e] = "stats"
    BY <1>0, <1>1 DEF Become, Working, WellTyped
  <2> QED
    BY <1>1, <2>1 DEF LedgerPhase
<1>3. /\ Phases' = [Phases EXCEPT ![<<u, e>>] = "earned"]
      /\ Claims' = [Claims EXCEPT ![<<u, e>>] = CreditOf(e)]
  BY <1>0, <1>1, <1>2, OnePhaseMoves DEF Steps
<1>4. Dates' = Dates /\ Reads' = Reads /\ Dates = [Dates EXCEPT ![<<u, e>>] = NoDay]
  <2>1. Dates[<<u, e>>] = NoDay
    BY <1>0, <1>1, RequestOf
  <2> QED
    BY <1>1, <2>1 DEF Dates, Reads
<1>5. CreditOf(e) \in Ledger!CreditsOf("sync") /\ NoDay \in Ledger!DaysTaken("sync")
  <2>1. CreditOf(e) = Ledger!SyncCredit(event[e].content = "right")
    BY SameArithmetic DEF CreditOf
  <2> QED
    BY <2>1, SameArithmetic DEF Ledger!CreditsOf, Ledger!DaysTaken
<1>6. Ledger!Cardinality(Ledger!InFlight) < Cardinality(Pairs) + 1
  <2>1. IsFiniteSet(Pairs)
    BY SyncAssumption, FS_Product DEF Pairs
  <2>2. Ledger!InFlight \in SUBSET Pairs
    BY DEF Ledger!InFlight
  <2>3. /\ Cardinality(Ledger!InFlight) <= Cardinality(Pairs)
        /\ Cardinality(Ledger!InFlight) \in Nat /\ Cardinality(Pairs) \in Nat
    BY <2>1, <2>2, FS_Subset, FS_CardinalityType
  <2>4. Ledger!Cardinality(Ledger!InFlight) = Cardinality(Ledger!InFlight)
    BY SameArithmetic
  <2> QED
    BY <2>3, <2>4
<1>7. Kind = [Kind EXCEPT ![<<u, e>>] = "sync"]
  BY DEF Kind
<1>8. Phases[<<u, e>>] = "idle" /\ activeDays' = activeDays \cup ({NoDay} \ {Ledger!NoDay})
  BY <1>0, <1>1, <1>2, RequestOf, SameArithmetic
<1>9. Ledger!Earn(<<u, e>>, "sync", CreditOf(e), NoDay)
  <2>1. Phases[<<u, e>>] = "idle" /\ Phases' = [Phases EXCEPT ![<<u, e>>] = "earned"]
    BY <1>3, <1>8
  <2>2. /\ Kind' = [Kind EXCEPT ![<<u, e>>] = "sync"]
        /\ Claims' = [Claims EXCEPT ![<<u, e>>] = CreditOf(e)]
        /\ Dates' = [Dates EXCEPT ![<<u, e>>] = NoDay]
    <3>1. Kind' = Kind
      BY DEF Kind
    <3> QED
      BY <1>3, <1>4, <1>7, <3>1
  <2>3. activeDays' = activeDays \cup ({NoDay} \ {Ledger!NoDay}) /\ UNCHANGED <<day, stats, Reads, earned>>
    BY <1>1, <1>4, <1>8
  <2> QED
    BY <1>6, <2>1, <2>2, <2>3 DEF Ledger!Earn, Phases, Claims, Dates, Reads, Kind
<1> QED
  BY <1>5, <1>9

LEMMA ReadRefines ==
  ASSUME Working, NEW u \in Uploads, NEW e \in batch[u], GetUserStats(u, e)
  PROVE  Ledger!ReadStats(<<u, e>>) \/ Ledger!ReadFails(<<u, e>>)
<1>0. e \in Events /\ row \in [Uploads -> [Events -> PlainRow]]
  BY DEF Working, WellTyped
<1>1. /\ work[u][e] = "stats" /\ pc[u] = "running" /\ Become(u, e, "clock")
      /\ UNCHANGED <<event, day, stats, activeDays, earned, pc, now>>
  BY DEF GetUserStats, At, client, ledger
<1>2. LedgerPhase(u, e) = "earned" /\ LedgerPhase(u, e)' = "read"
  <2>1. work'[u][e] = "clock"
    BY <1>0, <1>1 DEF Become, Working, WellTyped
  <2> QED
    BY <1>1, <2>1 DEF LedgerPhase
<1>3. Phases' = [Phases EXCEPT ![<<u, e>>] = "read"] /\ Claims' = Claims
  <2>1. /\ Phases' = [Phases EXCEPT ![<<u, e>>] = "read"]
        /\ Claims' = [Claims EXCEPT ![<<u, e>>] = CreditOf(e)]
    <3>1. UNCHANGED <<event, pc>> /\ "clock" \in Steps /\ "read" # "idle"
      BY <1>1 DEF Steps
    <3>2. \A v \in Uploads, f \in Events : now'[v][f] = now[v][f] \/ (v = u /\ f = e)
      BY <1>1
    <3> QED
      BY <1>0, <1>1, <1>2, <3>1, <3>2, OnePhaseMoves
  <2>2. Claims[<<u, e>>] = CreditOf(e)
    BY <1>0, <1>2, RequestOf
  <2>3. Claims = [Claims EXCEPT ![<<u, e>>] = CreditOf(e)]
    BY <2>2 DEF Claims
  <2> QED
    BY <2>1, <2>3
<1>4. Dates' = Dates
  BY <1>1 DEF Dates
<1>5. ASSUME NEW s, row' = [row EXCEPT ![u][e] = s]
      PROVE  Reads' = [Reads EXCEPT ![<<u, e>>] = s]
  <2>1. ASSUME NEW p \in Pairs
        PROVE  row'[p[1]][p[2]] = IF p = <<u, e>> THEN s ELSE row[p[1]][p[2]]
    BY <1>0, <1>5 DEF Pairs
  <2> QED
    BY <2>1 DEF Reads
<1>6. Phases[<<u, e>>] = "earned" /\ Kind[<<u, e>>] = "sync" /\ Kind' = Kind
  BY <1>0, <1>2, RequestOf DEF Kind, Pairs
<1>7. CASE row' = [row EXCEPT ![u][e] = stats]
  <2>1. Reads' = [Reads EXCEPT ![<<u, e>>] = stats]
    BY <1>5, <1>7
  <2> QED
    BY <1>1, <1>3, <1>4, <1>6, <2>1 DEF Ledger!ReadStats, Phases, Claims, Dates, Reads, Kind
<1>8. CASE row' = [row EXCEPT ![u][e] = FreshRow]
  <2>1. Reads' = [Reads EXCEPT ![<<u, e>>] = Ledger!FreshRow]
    BY <1>5, <1>8, SameArithmetic
  <2> QED
    BY <1>1, <1>3, <1>4, <1>6, <2>1 DEF Ledger!ReadFails, Phases, Claims, Dates, Reads, Kind
<1> QED
  BY <1>7, <1>8 DEF GetUserStats

LEMMA NowRefines ==
  ASSUME Working, NEW u \in Uploads, NEW e \in batch[u], TakeNow(u, e)
  PROVE  Ledger!TakeNow(<<u, e>>)
<1>0. e \in Events /\ now \in [Uploads -> [Events -> Days \cup {NoDay}]] /\ SoundWork(u, e)
  BY DEF Working, WellTyped
<1>1. /\ work[u][e] = "clock" /\ pc[u] = "running" /\ now[u][e] = NoDay /\ Become(u, e, "credit")
      /\ now' = [now EXCEPT ![u][e] = day] /\ activeDays' = activeDays \cup {day}
      /\ UNCHANGED <<event, day, stats, earned, pc, row>>
  BY <1>0 DEF TakeNow, At, SoundWork, client
<1>2. LedgerPhase(u, e) = "read" /\ LedgerPhase(u, e)' = "read"
  <2>1. work'[u][e] = "credit"
    BY <1>0, <1>1 DEF Become, Working, WellTyped
  <2> QED
    BY <1>1, <2>1 DEF LedgerPhase
<1>3. \A v \in Uploads, f \in Events : now'[v][f] = IF v = u /\ f = e THEN day ELSE now[v][f]
  BY <1>0, <1>1
<1>4. Phases' = Phases /\ Claims' = Claims
  <2>1. /\ Phases' = [Phases EXCEPT ![<<u, e>>] = "read"]
        /\ Claims' = [Claims EXCEPT ![<<u, e>>] = CreditOf(e)]
    <3>1. UNCHANGED <<event, pc>> /\ "credit" \in Steps /\ "read" # "idle"
      BY <1>1 DEF Steps
    <3> QED
      BY <1>0, <1>1, <1>2, <1>3, <3>1, OnePhaseMoves
  <2>2. Phases[<<u, e>>] = "read" /\ Claims[<<u, e>>] = CreditOf(e)
    BY <1>0, <1>2, RequestOf
  <2>3. Phases = [Phases EXCEPT ![<<u, e>>] = "read"] /\ Claims = [Claims EXCEPT ![<<u, e>>] = CreditOf(e)]
    BY <2>2 DEF Phases, Claims
  <2> QED
    BY <2>1, <2>3
<1>5. Dates' = [Dates EXCEPT ![<<u, e>>] = day]
  <2>1. \A p \in Pairs : now'[p[1]][p[2]] = IF p = <<u, e>> THEN day ELSE now[p[1]][p[2]]
    BY <1>3 DEF Pairs
  <2> QED
    BY <2>1 DEF Dates
<1>6. Reads' = Reads /\ Kind' = Kind
  BY <1>1 DEF Reads, Kind
<1>7. Phases[<<u, e>>] = "read" /\ Dates[<<u, e>>] = Ledger!NoDay /\ Claims[<<u, e>>].active
  <2>1. CreditOf(e).active
    BY <1>0, CreditType
  <2> QED
    BY <1>0, <1>1, <1>2, <2>1, RequestOf, SameArithmetic
<1> QED
  BY <1>1, <1>4, <1>5, <1>6, <1>7 DEF Ledger!TakeNow, Phases, Claims, Dates, Reads, Kind

(* The write: its success is the ledger's write, and its error the         *)
(* request giving up.                                                      *)
LEMMA WriteRefines ==
  ASSUME Working, NEW u \in Uploads, NEW e \in batch[u], UpdateUserStats(u, e)
  PROVE  Ledger!WriteStats(<<u, e>>) \/ Ledger!GiveUp(<<u, e>>)
<1>0. e \in Events /\ SoundWork(u, e) /\ earned \in Sums
  BY DEF Working, WellTyped
<1>1. /\ work[u][e] = "credit" /\ pc[u] = "running" /\ now[u][e] \in Days
      /\ UNCHANGED <<event, day, activeDays, pc, now, row>>
  BY <1>0 DEF UpdateUserStats, At, SoundWork, client
<1>2. PICK what \in {"accepted", "rejected"} : Become(u, e, what)
  BY DEF UpdateUserStats
<1>3. now[u][e] # NoDay
  BY <1>1, SyncAssumption DEF Days, NoDay
<1>4. LedgerPhase(u, e) = "read" /\ LedgerPhase(u, e)' = "done"
  <2>1. work'[u][e] = what
    BY <1>0, <1>2 DEF Become, Working, WellTyped
  <2> QED
    BY <1>1, <1>2, <1>3, <2>1 DEF LedgerPhase
<1>5. Phases' = [Phases EXCEPT ![<<u, e>>] = "done"] /\ Claims' = Claims
  <2>1. /\ Phases' = [Phases EXCEPT ![<<u, e>>] = "done"]
        /\ Claims' = [Claims EXCEPT ![<<u, e>>] = CreditOf(e)]
    <3>1. UNCHANGED <<event, pc>> /\ what \in Steps /\ "done" # "idle"
      BY <1>1, <1>2 DEF Steps
    <3>2. \A v \in Uploads, f \in Events : now'[v][f] = now[v][f] \/ (v = u /\ f = e)
      BY <1>1
    <3> QED
      BY <1>0, <1>2, <1>4, <3>1, <3>2, OnePhaseMoves
  <2>2. Claims[<<u, e>>] = CreditOf(e)
    BY <1>0, <1>4, RequestOf
  <2>3. Claims = [Claims EXCEPT ![<<u, e>>] = CreditOf(e)]
    BY <2>2 DEF Claims
  <2> QED
    BY <2>1, <2>3
<1>6. Dates' = Dates /\ Reads' = Reads /\ Kind' = Kind
  BY <1>1 DEF Dates, Reads, Kind
<1>7. /\ Phases[<<u, e>>] = "read" /\ Dates[<<u, e>>] = now[u][e] /\ Reads[<<u, e>>] = row[u][e]
      /\ Claims[<<u, e>>] = CreditOf(e) /\ Dates[<<u, e>>] # Ledger!NoDay
  BY <1>0, <1>3, <1>4, RequestOf, SameArithmetic
<1>8. CASE /\ stats' = Credited(row[u][e], CreditOf(e), now[u][e], day)
           /\ earned' = [c \in DOMAIN earned |-> earned[c] + CreditOf(e)[c]]
  <2>1. stats' = Ledger!Credited(Reads[<<u, e>>], Claims[<<u, e>>], Dates[<<u, e>>], day)
    BY <1>7, <1>8, SameArithmetic
  <2>2. earned' = Ledger!Plus(earned, Claims[<<u, e>>])
    <3>1. CreditOf(e) \in Credit
      BY <1>0, CreditType
    <3>2. [c \in DOMAIN earned |-> earned[c] + CreditOf(e)[c]] = Ledger!Plus(earned, CreditOf(e))
      BY <1>0, <3>1, SumType
    <3> QED
      BY <1>7, <1>8, <3>2
  <2> QED
    BY <1>1, <1>5, <1>6, <1>7, <2>1, <2>2 DEF Ledger!WriteStats, Phases, Claims, Dates, Reads, Kind
<1>9. CASE UNCHANGED <<stats, earned>>
  BY <1>1, <1>5, <1>6, <1>7, <1>9 DEF Ledger!GiveUp, Phases, Claims, Dates, Reads, Kind
<1> QED
  BY <1>8, <1>9 DEF UpdateUserStats

(* A process that dies takes at most one request of the ledger with it,    *)
(* because an upload is at work on one event at a time.                    *)
LEMMA CrashRefines ==
  ASSUME Working, NEW u \in Uploads, Crash(u)
  PROVE  (\E r \in Pairs : Ledger!GiveUp(r)) \/ UNCHANGED Ledger!vars
<1>1. /\ pc[u] = "running" /\ pc \in [Uploads -> {"idle", "running", "answered", "lost"}]
      /\ pc' = [pc EXCEPT ![u] = "lost"]
      /\ UNCHANGED <<event, day, stats, activeDays, earned, work, now, row>>
  BY DEF Crash, Working, WellTyped, client, ledger
<1>2. ASSUME NEW v \in Uploads, NEW f \in Events, v # u \/ work[v][f] \notin {"stats", "clock", "credit"}
      PROVE  LedgerPhase(v, f)' = LedgerPhase(v, f)
  BY <1>1, <1>2 DEF LedgerPhase
<1>3. CASE \A e \in Events : work[u][e] \notin {"stats", "clock", "credit"}
  <2>1. \A v \in Uploads, f \in Events :
          /\ LedgerPhase(v, f)' = LedgerPhase(v, f)
          /\ now'[v][f] = now[v][f] /\ row'[v][f] = row[v][f]
    BY <1>1, <1>2, <1>3
  <2> QED
    BY <1>1, <2>1, Stutters
<1>4. ASSUME NEW e \in Events, work[u][e] \in {"stats", "clock", "credit"}
      PROVE  Ledger!GiveUp(<<u, e>>)
  <2>1. \A f \in Events : work[u][f] \in {"stats", "clock", "credit"} => f = e
    BY <1>4 DEF Working, OneAtATime, AtWork, Applying
  <2>2. LedgerPhase(u, e) \in {"earned", "read"} /\ LedgerPhase(u, e)' = "done"
    BY <1>1, <1>4 DEF LedgerPhase
  <2>3. \A p \in Pairs : LedgerPhase(p[1], p[2])' = IF p = <<u, e>> THEN "done" ELSE LedgerPhase(p[1], p[2])
    BY <1>2, <2>1, <2>2 DEF Pairs
  <2>4. Phases' = [Phases EXCEPT ![<<u, e>>] = "done"]
    BY <2>3 DEF Phases
  <2>5. Claims' = Claims
    <3>1. \A f : CreditOf(f)' = CreditOf(f)
      BY <1>1 DEF CreditOf
    <3>2. \A p \in Pairs : (LedgerPhase(p[1], p[2]) = "idle")' <=> (LedgerPhase(p[1], p[2]) = "idle")
      BY <2>2, <2>3
    <3> QED
      BY <3>1, <3>2 DEF Claims, SyncCredit
  <2>6. Dates' = Dates /\ Reads' = Reads /\ Kind' = Kind
    BY <1>1 DEF Dates, Reads, Kind
  <2>7. Phases[<<u, e>>] \in {"earned", "read"}
    BY <1>4, <2>2, RequestOf
  <2> QED
    BY <1>1, <2>4, <2>5, <2>6, <2>7 DEF Ledger!GiveUp, Phases, Claims, Dates, Reads, Kind
<1> QED
  BY <1>3, <1>4, RequestOf

(* The client's calls and answers are nothing to the ledger, for an upload *)
(* is at work on none of its events before or after it runs.               *)
LEMMA ClientRefines ==
  ASSUME Working, NEW u \in Uploads, Upload(u) \/ Reply(u)
  PROVE  UNCHANGED Ledger!vars
<1>1. /\ UNCHANGED <<event, day, stats, activeDays, earned, work, now, row>>
      /\ \A v \in Uploads \ {u} : pc'[v] = pc[v]
  BY DEF Upload, Reply, Working, WellTyped, client, ledger
<1>2. ASSUME NEW e \in Events
      PROVE  work[u][e] \notin {"stats", "clock", "credit"}
  <2>1. SoundWork(u, e)
    BY DEF Working
  <2>2. CASE Upload(u)
    BY <2>1, <2>2 DEF Upload, SoundWork, AtWork, Applying
  <2>3. CASE Reply(u)
    BY <2>1, <2>3 DEF Reply, Done, SoundWork, AtWork, Applying
  <2> QED
    BY <2>2, <2>3
<1>3. \A v \in Uploads, f \in Events :
        /\ LedgerPhase(v, f)' = LedgerPhase(v, f)
        /\ now'[v][f] = now[v][f] /\ row'[v][f] = row[v][f]
  BY <1>1, <1>2 DEF LedgerPhase
<1> QED
  BY <1>1, <1>3, Stutters

(* Midnight is the ledger's midnight.                                      *)
LEMMA DayRefines ==
  ASSUME NextDay
  PROVE  Ledger!NextDay
<1>1. UNCHANGED <<event, stats, activeDays, earned, pc, work, now, row>> /\ day < MaxDay /\ day' = day + 1
  BY DEF NextDay, client, ledger
<1>2. \A p \in Pairs : LedgerPhase(p[1], p[2])' = LedgerPhase(p[1], p[2]) /\ CreditOf(p[2])' = CreditOf(p[2])
  BY <1>1 DEF LedgerPhase, CreditOf
<1>3. Phases' = Phases /\ Dates' = Dates /\ Reads' = Reads /\ Kind' = Kind
  BY <1>1, <1>2 DEF Phases, Dates, Reads, Kind
<1>4. Claims' = Claims
  BY <1>2 DEF Claims, SyncCredit
<1> QED
  BY <1>1, <1>3, <1>4 DEF Ledger!NextDay, Phases, Dates, Reads, Claims, Kind

LEMMA StepRefines == Working /\ [Next]_vars => [Ledger!Next]_(Ledger!vars)
<1> SUFFICES ASSUME Working, [Next]_vars
             PROVE  [Ledger!Next]_(Ledger!vars)
  OBVIOUS
<1>1. CASE UNCHANGED vars
  <2>1. /\ UNCHANGED <<event, day, stats, activeDays, earned>>
        /\ \A v \in Uploads, f \in Events :
             /\ LedgerPhase(v, f)' = LedgerPhase(v, f)
             /\ now'[v][f] = now[v][f] /\ row'[v][f] = row[v][f]
    BY <1>1 DEF vars, client, ledger, LedgerPhase
  <2> QED
    BY <2>1, Stutters
<1>2. CASE NextDay
  BY <1>2, DayRefines DEF Ledger!Next
<1>3. ASSUME NEW u \in Uploads, Upload(u) \/ Reply(u)
      PROVE  UNCHANGED Ledger!vars
  BY <1>3, ClientRefines
<1>4. ASSUME NEW u \in Uploads, Crash(u)
      PROVE  [Ledger!Next]_(Ledger!vars)
  BY <1>4, CrashRefines DEF Ledger!Next
<1>5. ASSUME NEW u \in Uploads, NEW e \in batch[u], <<u, e>> \in Pairs,
             \/ SaveSyncEvent(u, e) \/ GetQuestion(u, e) \/ UpsertMistake(u, e)
             \/ GetUserStats(u, e) \/ TakeNow(u, e) \/ UpdateUserStats(u, e)
      PROVE  [Ledger!Next]_(Ledger!vars)
  <2>1. CASE SaveSyncEvent(u, e) \/ GetQuestion(u, e)
    BY <2>1, SaveRefines
  <2>2. CASE UpsertMistake(u, e)
    <3>1. \E c \in Ledger!CreditsOf("sync"), d \in Ledger!DaysTaken("sync") :
            Ledger!Earn(<<u, e>>, "sync", c, d)
      BY <2>2, EarnRefines
    <3> QED
      BY <1>5, <3>1 DEF Ledger!Next
  <2>3. CASE GetUserStats(u, e)
    BY <1>5, <2>3, ReadRefines DEF Ledger!Next
  <2>4. CASE TakeNow(u, e)
    BY <1>5, <2>4, NowRefines DEF Ledger!Next
  <2>5. CASE UpdateUserStats(u, e)
    BY <1>5, <2>5, WriteRefines DEF Ledger!Next
  <2> QED
    BY <1>5, <2>1, <2>2, <2>3, <2>4, <2>5
<1>6. \A u \in Uploads : \A e \in batch[u] : <<u, e>> \in Pairs
  BY DEF Pairs, Working, WellTyped
<1> QED
  BY <1>1, <1>2, <1>3, <1>4, <1>5, <1>6 DEF Next, ProcessEvents

(* Offline answers keep the learner's progress as the ledger says requests *)
(* do, whatever the uploads' number, overlaps and faults: with what is     *)
(* proved of StatsLedger, their row accounts for itself, is never over-    *)
(* credited, and its streak is earned.                                     *)
THEOREM ImplementsTheLedger == Spec => KeepsTheLedger
<1>1. Spec => [][Ledger!Next]_(Ledger!vars)
  <2>1. Working /\ [Next]_vars => [Ledger!Next]_(Ledger!vars)
    BY StepRefines
  <2> QED
    BY <2>1, InitWorking, StepWorking, PTL DEF Spec
<1> QED
  BY <1>1, InitRefines, PTL DEF Spec, KeepsTheLedger, Ledger!Spec

-----------------------------------------------------------------------------
(***************************************************************************)
(* Retries that do not overlap, when no call fails but the insert: the     *)
(* stats are worth exactly the stored events no upload is at work on, and  *)
(* the one upload that holds a snapshot of them holds the current one.     *)
(***************************************************************************)
Alone == \A u, v \in Running : u = v

Settles(e) == e \in saved /\ Creditable(e) /\ \A u \in Uploads : ~ AtWork(u, e)

Settled(content) == {e \in Events : Settles(e) /\ event[e].content \in content}

(* Stored, and its upload has passed the review queue. *)
Reviewed(e) == e \in saved /\ Creditable(e) /\ \A u \in Uploads : work[u][e] \notin {"question", "mistake"}

SnapshotsAreCurrent ==
  \A u \in Uploads, e \in Events : work[u][e] \in {"clock", "credit"} => row[u][e] = stats

StatsAreWorthSettled ==
  /\ stats.answered = Cardinality(Settled({"right", "wrong"}))
  /\ stats.correct = Cardinality(Settled({"right"}))
  /\ stats.xp = XPPerCorrectAnswer * Cardinality(Settled({"right"}))
                  + XPPerIncorrectAnswer * Cardinality(Settled({"wrong"}))

QueueIsOfReviewed == queued = {e \in Events : Reviewed(e) /\ event[e].content = "wrong"}

Holds == SnapshotsAreCurrent /\ StatsAreWorthSettled /\ QueueIsOfReviewed

OrderlyInv == orderly => Alone /\ Holds

Gentle == Faults \subseteq {"save", "reply", "midnight"}

LEMMA AtMostOneIsAlone ==
  ASSUME Cardinality(Running) <= 1
  PROVE  Alone
<1>1. IsFiniteSet(Running)
  BY SyncAssumption, FS_Subset DEF Running
<1>2. Cardinality(Running) \in {0, 1}
  BY <1>1, FS_CardinalityType
<1>3. CASE Cardinality(Running) = 0
  BY <1>1, <1>3, FS_EmptySet DEF Alone
<1>4. CASE Cardinality(Running) = 1
  BY <1>1, <1>4, FS_Singleton DEF Alone
<1> QED
  BY <1>2, <1>3, <1>4

LEMMA SettledIsFinite ==
  ASSUME NEW content
  PROVE  IsFiniteSet(Settled(content)) /\ Cardinality(Settled(content)) \in Nat
<1>1. IsFiniteSet(Settled(content))
  BY SyncAssumption, FS_Subset DEF Settled
<1> QED
  BY <1>1, FS_CardinalityType

(* A step that settles no event and writes no stats. *)
LEMMA SettledStays ==
  ASSUME StatsAreWorthSettled, UNCHANGED <<event, stats>>,
         \A e \in Events : Settles(e)' <=> Settles(e)
  PROVE  StatsAreWorthSettled'
<1>1. ASSUME NEW content
      PROVE  Settled(content)' = Settled(content)
  BY DEF Settled
<1> QED
  BY <1>1 DEF StatsAreWorthSettled

(* A step that settles one more. *)
LEMMA SettledGrows ==
  ASSUME NEW e \in Events, UNCHANGED event, ~ Settles(e), Settles(e)',
         \A f \in Events \ {e} : Settles(f)' <=> Settles(f),
         NEW content
  PROVE  Cardinality(Settled(content))' =
           Cardinality(Settled(content)) + IF event[e].content \in content THEN 1 ELSE 0
<1>1. IsFiniteSet(Settled(content)) /\ Cardinality(Settled(content)) \in Nat
  BY SettledIsFinite
<1>2. CASE event[e].content \in content
  <2>1. Settled(content)' = Settled(content) \cup {e} /\ e \notin Settled(content)
    BY <1>2 DEF Settled
  <2> QED
    BY <1>1, <1>2, <2>1, FS_AddElement
<1>3. CASE event[e].content \notin content
  <2>1. Settled(content)' = Settled(content)
    BY <1>3 DEF Settled
  <2> QED
    BY <1>1, <1>3, <2>1
<1> QED
  BY <1>2, <1>3

LEMMA InitOrderly == MCInit => OrderlyInv
<1> SUFFICES ASSUME MCInit
             PROVE  Alone /\ Holds
  BY DEF OrderlyInv
<1>1. Running = {} /\ \A content : Settled(content) = {}
  BY DEF MCInit, Init, Running, Settled, Settles
<1>2. Cardinality({}) = 0
  BY FS_EmptySet
<1>3. StatsAreWorthSettled
  <2>1. \A content : Cardinality(Settled(content)) = 0
    BY <1>1, <1>2
  <2>2. stats.answered = 0 /\ stats.correct = 0 /\ stats.xp = 0
    BY DEF MCInit, Init, FreshRow
  <2> QED
    BY <2>1, <2>2 DEF StatsAreWorthSettled, XPPerCorrectAnswer, XPPerIncorrectAnswer
<1>4. SnapshotsAreCurrent /\ QueueIsOfReviewed
  BY DEF MCInit, Init, SnapshotsAreCurrent, QueueIsOfReviewed, Reviewed
<1> QED
  BY <1>1, <1>3, <1>4 DEF Alone, Holds

LEMMA SaveHolds ==
  ASSUME IInv, Working, Holds, NEW u \in Uploads, NEW e \in batch[u], SaveSyncEvent(u, e)
  PROVE  Holds'
<1>0. e \in Events /\ work \in [Uploads -> [Events -> Steps]] /\ StoredFirst(e)
  BY DEF Working, WellTyped, IInv, Guarded
<1>1. work[u][e] = "waiting" /\ UNCHANGED <<event, queued, stats, row>>
  BY DEF SaveSyncEvent, At, client, ledger
<1>2. PICK what \in {"question", "accepted", "rejected"} :
        /\ Become(u, e, what)
        /\ saved' = saved \/ (saved' = saved \cup {e} /\ what # "rejected")
        /\ what = "question" => e \notin saved
        /\ what = "accepted" => e \in saved \/ ~ Creditable(e)
  BY DEF SaveSyncEvent, AfterSave, IsNew, Creditable
<1>3. \A v \in Uploads, f \in Events :
        work'[v][f] = IF v = u /\ f = e THEN what ELSE work[v][f]
  BY <1>0, <1>2 DEF Become
<1>4. \A f : Creditable(f)' <=> Creditable(f)
  BY <1>1 DEF Creditable
<1>5. \A f \in Events : Settles(f)' <=> Settles(f)
  <2>1. ASSUME NEW f \in Events, f # e
        PROVE  Settles(f)' <=> Settles(f)
    BY <1>2, <1>3, <1>4, <2>1 DEF Settles, AtWork
  <2>2. CASE what = "question"
    <3>1. ~ Settles(e) /\ ~ Settles(e)'
      BY <1>0, <1>2, <1>3, <2>2 DEF Settles, AtWork, Applying
    <3> QED
      BY <2>1, <3>1
  <2>3. CASE what # "question"
    <3>1. \A v \in Uploads : AtWork(v, e)' <=> AtWork(v, e)
      BY <1>0, <1>1, <1>2, <1>3, <2>3 DEF AtWork, Applying
    <3>2. Settles(e)' <=> Settles(e)
      BY <1>0, <1>2, <1>4, <2>3, <3>1 DEF Settles
    <3> QED
      BY <2>1, <3>2
  <2> QED
    BY <2>2, <2>3
<1>6. \A f \in Events : Reviewed(f)' <=> Reviewed(f)
  <2>1. ASSUME NEW f \in Events, f # e
        PROVE  Reviewed(f)' <=> Reviewed(f)
    BY <1>2, <1>3, <1>4, <2>1 DEF Reviewed
  <2>2. CASE what = "question"
    <3>1. ~ Reviewed(e) /\ ~ Reviewed(e)'
      BY <1>0, <1>2, <1>3, <2>2 DEF Reviewed
    <3> QED
      BY <2>1, <3>1
  <2>3. CASE what # "question"
    <3>1. \A v \in Uploads : work'[v][e] \in {"question", "mistake"} <=> work[v][e] \in {"question", "mistake"}
      BY <1>0, <1>1, <1>2, <1>3, <2>3
    <3>2. Reviewed(e)' <=> Reviewed(e)
      BY <1>0, <1>2, <1>4, <2>3, <3>1 DEF Reviewed
    <3> QED
      BY <2>1, <3>2
  <2> QED
    BY <2>2, <2>3
<1>7. StatsAreWorthSettled'
  BY <1>1, <1>5, SettledStays DEF Holds
<1>8. QueueIsOfReviewed'
  BY <1>1, <1>6 DEF Holds, QueueIsOfReviewed
<1>9. SnapshotsAreCurrent'
  BY <1>1, <1>2, <1>3 DEF Holds, SnapshotsAreCurrent
<1> QED
  BY <1>7, <1>8, <1>9 DEF Holds

(* From one state of apply() to another: nothing is settled, and what the  *)
(* queue gains is what the review has seen.                                *)
LEMMA ApplyHolds ==
  ASSUME Gentle, IInv, Working, Holds, NEW u \in Uploads, NEW e \in batch[u],
         GetQuestion(u, e) \/ UpsertMistake(u, e) \/ GetUserStats(u, e) \/ TakeNow(u, e)
  PROVE  Holds'
<1>0. /\ e \in Events /\ work \in [Uploads -> [Events -> Steps]] /\ StoredFirst(e) /\ Exclusive(e)
      /\ SoundWork(u, e) /\ row \in [Uploads -> [Events -> PlainRow]] /\ queued \in SUBSET Events
      /\ event[e].content \in Content
  BY DEF Working, WellTyped, IInv, Guarded
<1>1. AtWork(u, e) /\ UNCHANGED <<event, saved, stats>>
  BY DEF GetQuestion, UpsertMistake, GetUserStats, TakeNow, At, AtWork, Applying, client, ledger
<1>2. PICK what \in {"mistake", "rejected", "stats", "clock", "credit"} :
        /\ Become(u, e, what)
        /\ what \in {"mistake", "rejected"} => work[u][e] = "question" /\ queued' = queued
        /\ what = "rejected" => event[e].content = "invalid"
        /\ what = "stats" => /\ work[u][e] = "mistake"
                             /\ queued' = IF event[e].content = "wrong" THEN queued \cup {e} ELSE queued
        /\ what \in {"clock", "credit"} => work[u][e] \notin {"question", "mistake"} /\ queued' = queued
        /\ what = "clock" => row' = [row EXCEPT ![u][e] = stats]
        /\ what = "credit" => work[u][e] = "clock"
        /\ what # "clock" => row' = row
  <2>1. CASE GetQuestion(u, e)
    BY <2>1 DEF GetQuestion, At, Gentle
  <2>2. CASE UpsertMistake(u, e)
    BY <2>2 DEF UpsertMistake, At, Gentle
  <2>3. CASE GetUserStats(u, e)
    BY <2>3 DEF GetUserStats, At, Gentle
  <2>4. CASE TakeNow(u, e)
    BY <2>4 DEF TakeNow, At
  <2> QED
    BY <2>1, <2>2, <2>3, <2>4
<1>3. \A v \in Uploads, f \in Events :
        work'[v][f] = IF v = u /\ f = e THEN what ELSE work[v][f]
  BY <1>0, <1>2 DEF Become
<1>4. \A f : Creditable(f)' <=> Creditable(f)
  BY <1>1 DEF Creditable
<1>5. \A f \in Events : Settles(f)' <=> Settles(f)
  <2>1. ASSUME NEW f \in Events, f # e
        PROVE  Settles(f)' <=> Settles(f)
    BY <1>1, <1>3, <1>4, <2>1 DEF Settles, AtWork
  <2>2. ~ Settles(e)
    BY <1>1 DEF Settles
  <2>3. ~ Settles(e)'
    BY <1>0, <1>2, <1>3, <1>4 DEF Settles, AtWork, Applying, Creditable
  <2> QED
    BY <2>1, <2>2, <2>3
<1>6. \A f \in Events \ {e} : Reviewed(f)' <=> Reviewed(f)
  BY <1>1, <1>3, <1>4 DEF Reviewed
<1>7. QueueIsOfReviewed'
  <2>1. CASE what \in {"mistake", "rejected"}
    <3>1. ~ Reviewed(e)
      BY <1>2, <2>1 DEF Reviewed
    <3>2. ~ Reviewed(e)' \/ event[e].content = "invalid"
      BY <1>0, <1>2, <1>3, <2>1 DEF Reviewed
    <3> QED
      BY <1>1, <1>2, <1>6, <2>1, <3>1, <3>2 DEF Holds, QueueIsOfReviewed
  <2>2. CASE what = "stats"
    <3>1. ~ Reviewed(e)
      BY <1>2, <2>2 DEF Reviewed
    <3>2. Reviewed(e)'
      <4>1. e \in saved /\ Creditable(e)
        BY <1>0, <1>1, <1>2, <2>2 DEF StoredFirst, AtWork, SoundWork, Creditable
      <4>2. \A v \in Uploads : work'[v][e] \notin {"question", "mistake"}
        BY <1>0, <1>1, <1>3, <2>2 DEF Exclusive, AtWork, Applying
      <4> QED
        BY <1>1, <1>4, <4>1, <4>2 DEF Reviewed
    <3> QED
      BY <1>0, <1>1, <1>2, <1>6, <2>2, <3>1, <3>2 DEF Holds, QueueIsOfReviewed
  <2>3. CASE what \in {"clock", "credit"}
    <3>1. \A v \in Uploads : work'[v][e] \in {"question", "mistake"} <=> work[v][e] \in {"question", "mistake"}
      BY <1>0, <1>2, <1>3, <2>3
    <3>2. Reviewed(e)' <=> Reviewed(e)
      BY <1>1, <1>4, <3>1 DEF Reviewed
    <3> QED
      BY <1>1, <1>2, <1>6, <2>3, <3>2 DEF Holds, QueueIsOfReviewed
  <2> QED
    BY <2>1, <2>2, <2>3
<1>8. SnapshotsAreCurrent'
  <2>1. ASSUME NEW v \in Uploads, NEW f \in Events, ~ (v = u /\ f = e)
        PROVE  work'[v][f] = work[v][f] /\ row'[v][f] = row[v][f]
    BY <1>0, <1>2, <1>3, <2>1
  <2>2. what \in {"clock", "credit"} => row'[u][e] = stats
    BY <1>0, <1>2 DEF Holds, SnapshotsAreCurrent
  <2> QED
    BY <1>0, <1>1, <1>3, <2>1, <2>2 DEF Holds, SnapshotsAreCurrent
<1> QED
  BY <1>1, <1>5, <1>7, <1>8, SettledStays DEF Holds

(* The write: from a current snapshot, the one event more it settles.      *)
LEMMA CreditHolds ==
  ASSUME Gentle, IInv, Working, Alone, Holds, NEW u \in Uploads, NEW e \in batch[u],
         UpdateUserStats(u, e)
  PROVE  Holds'
<1>0. /\ e \in Events /\ work \in [Uploads -> [Events -> Steps]] /\ StoredFirst(e) /\ Exclusive(e)
      /\ SoundWork(u, e) /\ OneAtATime(u) /\ event[e].content \in Content
  BY DEF Working, WellTyped, IInv, Guarded
<1>1. /\ pc[u] = "running" /\ work[u][e] = "credit" /\ AtWork(u, e) /\ Become(u, e, "accepted")
      /\ stats' = Credited(row[u][e], CreditOf(e), now[u][e], day)
      /\ UNCHANGED <<event, saved, queued, row>>
  BY DEF UpdateUserStats, At, AtWork, Applying, Gentle, client
<1>2. row[u][e] = stats
  BY <1>0, <1>1 DEF Holds, SnapshotsAreCurrent
<1>3. \A v \in Uploads, f \in Events :
        work'[v][f] = IF v = u /\ f = e THEN "accepted" ELSE work[v][f]
  BY <1>0, <1>1 DEF Become
<1>4. \A f : Creditable(f)' <=> Creditable(f)
  BY <1>1 DEF Creditable
<1>5. ~ Settles(e) /\ Settles(e)'
  <2>1. e \in saved /\ Creditable(e)
    BY <1>0, <1>1 DEF StoredFirst, AtWork, SoundWork, Creditable
  <2>2. \A v \in Uploads : ~ AtWork(v, e)'
    BY <1>0, <1>1, <1>3 DEF Exclusive, AtWork, Applying
  <2> QED
    BY <1>1, <1>4, <2>1, <2>2 DEF Settles
<1>6. \A f \in Events \ {e} : Settles(f)' <=> Settles(f)
  BY <1>1, <1>3, <1>4 DEF Settles, AtWork
<1>7. \A content : Cardinality(Settled(content))' =
        Cardinality(Settled(content)) + IF event[e].content \in content THEN 1 ELSE 0
  BY <1>0, <1>1, <1>5, <1>6, SettledGrows
<1>8. StatsAreWorthSettled'
  <2>1. /\ stats'.answered = stats.answered + 1
        /\ stats'.correct = stats.correct + IF event[e].content = "right" THEN 1 ELSE 0
        /\ stats'.xp = stats.xp + IF event[e].content = "right" THEN XPPerCorrectAnswer ELSE XPPerIncorrectAnswer
    BY <1>1, <1>2 DEF Credited, Accrue, CreditOf, SyncCredit
  <2>2. event[e].content \in {"right", "wrong"}
    BY <1>0, <1>1 DEF SoundWork, Content
  <2>3. /\ Cardinality(Settled({"right", "wrong"}))' = Cardinality(Settled({"right", "wrong"})) + 1
        /\ Cardinality(Settled({"right"}))' =
             Cardinality(Settled({"right"})) + IF event[e].content = "right" THEN 1 ELSE 0
        /\ Cardinality(Settled({"wrong"}))' =
             Cardinality(Settled({"wrong"})) + IF event[e].content = "right" THEN 0 ELSE 1
    <3>1. event[e].content \in {"right", "wrong"} /\ (event[e].content \in {"right"} <=> event[e].content = "right")
          /\ (event[e].content \in {"wrong"} <=> event[e].content # "right")
      BY <2>2
    <3> QED
      BY <1>7, <3>1
  <2>4. /\ Cardinality(Settled({"right", "wrong"})) \in Nat /\ Cardinality(Settled({"right"})) \in Nat
        /\ Cardinality(Settled({"wrong"})) \in Nat
    BY SettledIsFinite
  <2> QED
    BY <2>1, <2>3, <2>4 DEF Holds, StatsAreWorthSettled, XPPerCorrectAnswer, XPPerIncorrectAnswer
<1>9. QueueIsOfReviewed'
  <2>1. \A f \in Events : Reviewed(f)' <=> Reviewed(f)
    BY <1>0, <1>1, <1>3, <1>4 DEF Reviewed
  <2> QED
    BY <1>1, <2>1 DEF Holds, QueueIsOfReviewed
<1>10. SnapshotsAreCurrent'
  <2>1. ASSUME NEW v \in Uploads, NEW f \in Events, work'[v][f] \in {"clock", "credit"}
        PROVE  FALSE
    <3>1. AtWork(v, f) /\ ~ (v = u /\ f = e)
      BY <1>3, <2>1 DEF AtWork, Applying
    <3>2. pc[v] = "running"
      BY <3>1 DEF Working, SoundWork, Gentle
    <3>3. v = u
      BY <1>1, <3>2 DEF Alone, Running
    <3> QED
      BY <1>0, <1>1, <3>1, <3>3 DEF OneAtATime
  <2> QED
    BY <2>1 DEF SnapshotsAreCurrent
<1> QED
  BY <1>8, <1>9, <1>10 DEF Holds

LEMMA StepHolds ==
  ASSUME Gentle, IInv, Working, Alone, Holds, [Next]_vars
  PROVE  Holds'
<1>1. ASSUME UNCHANGED <<event, saved, queued, stats, work, row>>
      PROVE  Holds'
  <2>1. \A e \in Events : (Settles(e)' <=> Settles(e)) /\ (Reviewed(e)' <=> Reviewed(e))
    BY <1>1 DEF Settles, Reviewed, AtWork, Creditable
  <2>2. StatsAreWorthSettled'
    BY <1>1, <2>1, SettledStays DEF Holds
  <2>3. SnapshotsAreCurrent' /\ QueueIsOfReviewed'
    BY <1>1, <2>1 DEF Holds, SnapshotsAreCurrent, QueueIsOfReviewed
  <2> QED
    BY <2>2, <2>3 DEF Holds
<1>2. CASE UNCHANGED vars
  BY <1>1, <1>2 DEF vars, client, ledger
<1>3. CASE NextDay
  BY <1>1, <1>3 DEF NextDay, client, ledger
<1>4. ASSUME NEW u \in Uploads, Upload(u) \/ Reply(u) \/ Crash(u)
      PROVE  Holds'
  BY <1>1, <1>4 DEF Upload, Reply, Crash, client, ledger
<1>5. ASSUME NEW u \in Uploads, NEW e \in batch[u],
             \/ SaveSyncEvent(u, e) \/ GetQuestion(u, e) \/ UpsertMistake(u, e)
             \/ GetUserStats(u, e) \/ TakeNow(u, e) \/ UpdateUserStats(u, e)
      PROVE  Holds'
  BY <1>5, SaveHolds, ApplyHolds, CreditHolds
<1> QED
  BY <1>2, <1>3, <1>4, <1>5 DEF Next, ProcessEvents

LEMMA StepOrderly ==
  ASSUME Gentle
  PROVE  IInv /\ Working /\ OrderlyInv /\ [MCNext]_<<vars, orderly>> => OrderlyInv'
<1> SUFFICES ASSUME IInv, Working, OrderlyInv, [MCNext]_<<vars, orderly>>, orderly'
             PROVE  Alone' /\ Holds'
  BY DEF OrderlyInv
<1>1. orderly /\ [Next]_vars
  BY DEF MCNext
<1>2. Alone /\ Holds
  BY <1>1 DEF OrderlyInv
<1>3. Alone'
  <2>1. CASE MCNext
    <3>1. (Cardinality(Running) <= 1)'
      BY <2>1 DEF MCNext, Orderly
    <3>2. (Cardinality(Running) <= 1 => Alone)'
      BY AtMostOneIsAlone, PTL
    <3> QED
      BY <3>1, <3>2
  <2>2. CASE UNCHANGED vars
    BY <1>2, <2>2 DEF vars, Alone, Running
  <2> QED
    BY <2>1, <2>2
<1> QED
  BY <1>1, <1>2, <1>3, StepHolds

(* While uploads do not overlap, and nothing fails but inserts and         *)
(* replies, retries and midnights notwithstanding, an answer given offline *)
(* counts for exactly what it would have online: the stats and the review  *)
(* queue are worth the stored events, each once.                           *)
THEOREM RetriesCountOnce ==
  ASSUME Faults \subseteq {"save", "reply", "midnight"}
  PROVE  MCSpec => []OrderlyStatsMatchTheLog
<1>0. Gentle
  BY DEF Gentle
<1>1. ASSUME Working, OrderlyInv
      PROVE  OrderlyStatsMatchTheLog
  <2> SUFFICES ASSUME orderly, Running = {}
               PROVE  /\ stats.answered = Cardinality(Stored({"right", "wrong"}))
                      /\ stats.correct = Cardinality(Stored({"right"}))
                      /\ stats.xp = XPPerCorrectAnswer * Cardinality(Stored({"right"}))
                                      + XPPerIncorrectAnswer * Cardinality(Stored({"wrong"}))
                      /\ queued = Stored({"wrong"})
    BY DEF OrderlyStatsMatchTheLog, StatsMatchTheLog
  <2>1. \A u \in Uploads, e \in Events : ~ AtWork(u, e)
    BY <1>0, <1>1 DEF Working, SoundWork, Running, Gentle
  <2>2. saved \in SUBSET Events
    BY <1>1 DEF Working, WellTyped
  <2>3. \A content : Settled(content) = Stored(content)
    BY <2>1, <2>2 DEF Settled, Settles, Stored
  <2>4. queued = Stored({"wrong"})
    BY <1>1, <2>1, <2>2 DEF OrderlyInv, Holds, QueueIsOfReviewed, Reviewed, Stored, AtWork, Applying
  <2> QED
    BY <1>1, <2>3, <2>4 DEF OrderlyInv, Holds, StatsAreWorthSettled
<1>2. MCInit => Init
  BY DEF MCInit
<1>3. [MCNext]_<<vars, orderly>> => [Next]_vars
  BY DEF MCNext
<1>4. IInv /\ Working /\ OrderlyInv /\ [MCNext]_<<vars, orderly>> => OrderlyInv'
  BY <1>0, StepOrderly
<1>5. Working /\ OrderlyInv => OrderlyStatsMatchTheLog
  BY <1>1
<1> QED
  BY <1>2, <1>3, <1>4, <1>5, InitIInv, StepIInv, InitWorking, StepWorking, InitOrderly, PTL DEF MCSpec
=============================================================================
