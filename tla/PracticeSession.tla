-------------------------- MODULE PracticeSession ---------------------------
(***************************************************************************)
(* The practice sessions of one learner: PracticeUsecase over the Postgres *)
(* PracticeRepository.  As in MockExam a request is one HTTP call and each *)
(* repository call a step of its own.  An answer is abstracted to whether  *)
(* it is right, and the review queue to the set of questions in it.        *)
(***************************************************************************)
EXTENDS LearnerStats, FiniteSets

CONSTANTS
  Sessions,    \* sessions the learner may create
  Questions,   \* the published questions
  Requests,    \* HTTP calls on those sessions
  MaxDay,      \* the calendar stops here
  MaxRunning,  \* how many completions may be running at once
  Faults       \* what may go wrong: a subset of AllFaults

(* A call that fails and is reported ("call"); one whose error is ignored, *)
(* named for what it reads or writes; a process that dies; midnight while  *)
(* a completion runs.                                                      *)
AllFaults == {"call", "save", "mistake", "read", "write", "complete",
              "crash", "midnight"}

ASSUME PracticeAssumption ==
  /\ IsFiniteSet(Questions) /\ Questions # {}
  /\ IsFiniteSet(Requests) /\ IsFiniteSet(Sessions)
  /\ MaxDay \in Nat
  /\ MaxRunning \in Nat \ {0}
  /\ Faults \subseteq AllFaults

VARIABLES
  \* the database
  status,      \* of each session
  paper,       \* the questions handed out in it
  answers,     \* the answer stored for each question
  stored,      \* answered_count and correct_count of each session
  queued,      \* the questions in the learner's review queue
  stats,       \* the learner's row of user_stats
  day,         \* the date
  \* the requests
  pc, ask,     \* where each request is, and what it asks for
  known,       \* history: the session as it stood when the request arrived
  tally,       \* the counts it works with, and reports
  now, row,    \* the date it took, and the stats row it read
  reply,       \* what the client was told
  \* histories
  paid,        \* how often the stats were credited for each session
  activeDays, earned

sessions == <<status, paper, answers, stored>>
ledger   == <<stats, activeDays, earned, paid>>
locals   == <<tally, now, row>>
vars     == <<sessions, queued, ledger, day, pc, ask, known, locals, reply>>

Days    == 0 .. MaxDay
Choices == {"right", "wrong"}
Blank   == [q \in Questions |-> "unanswered"]
Counts  == [answered: Nat, correct: Nat]
Zero    == [answered |-> 0, correct |-> 0]
Nothing == [answered |-> 0, correct |-> 0, xp |-> 0, exams |-> 0, passed |-> 0]

Answers   == [op: {"answer"}, session: Sessions, question: Questions, choice: Choices]
Completes == [op: {"complete"}, session: Sessions]

(***************************************************************************)
(* GetSessionTally: the rows with a verdict, and those with a good one --  *)
(* "what the learner actually answered, not what they were handed".        *)
(***************************************************************************)
Tally_HandedOut(s) ==
  [answered |-> Cardinality(paper[s]),
   correct  |-> Cardinality({q \in paper[s] : answers[s][q] = "right"})]

Tally(s) ==
  [answered |-> Cardinality({q \in paper[s] : answers[s][q] # "unanswered"}),
   correct  |-> Cardinality({q \in paper[s] : answers[s][q] = "right"})]

CreditOf(r) == PracticeCredit(tally[r].answered, tally[r].correct)

Init ==
  /\ status = [s \in Sessions |-> "none"]
  /\ paper = [s \in Sessions |-> {}]
  /\ answers = [s \in Sessions |-> Blank]
  /\ stored = [s \in Sessions |-> Zero]
  /\ queued = {}
  /\ stats = FreshRow
  /\ day = 0
  /\ pc = [r \in Requests |-> "idle"]
  /\ ask \in [Requests -> Answers \cup Completes]
  /\ known = [r \in Requests |-> [status |-> "none", acked |-> {}]]
  /\ tally = [r \in Requests |-> Zero]
  /\ now = [r \in Requests |-> NoDay]
  /\ row = [r \in Requests |-> FreshRow]
  /\ reply = [r \in Requests |-> "none"]
  /\ paid = [s \in Sessions |-> 0]
  /\ activeDays = {}
  /\ earned = Nothing

-----------------------------------------------------------------------------
(***************************************************************************)
(* CreateSession and persistSession: the session and its questions, in one *)
(* transaction.  A ticket, a sign, a numbered test, the due mistakes and   *)
(* their random fill, a random draw: whichever it is, the paper is some    *)
(* non-empty set of questions, for idx_psq_session_question refuses a      *)
(* transaction that repeats one.                                           *)
(***************************************************************************)
CreateSession(s) ==
  /\ status[s] = "none"
  /\ status' = [status EXCEPT ![s] = "in_progress"]
  /\ \E p \in (SUBSET Questions) \ {{}} : paper' = [paper EXCEPT ![s] = p]
  /\ UNCHANGED <<answers, stored, queued, ledger, day, pc, ask, known, locals, reply>>

Running ==
  {r \in Requests : ask[r].op = "complete" /\ pc[r] \notin {"idle", "ended", "settled"}}

NextDay ==
  /\ day < MaxDay
  /\ "midnight" \in Faults \/ Running = {}
  /\ day' = day + 1
  /\ UNCHANGED <<sessions, queued, ledger, pc, ask, known, locals, reply>>

(***************************************************************************)
(* A request reaches the server; `known' is what was then the case, for    *)
(* the properties only.                                                    *)
(***************************************************************************)
Acknowledged(s) ==
  {q \in Questions : \E r \in Requests :
     /\ reply[r] = "OK" /\ ask[r].op = "answer"
     /\ ask[r].session = s /\ ask[r].question = q}

Arrive(r) ==
  /\ pc[r] = "idle"
  /\ ask[r].op = "complete" => Cardinality(Running) < MaxRunning
  /\ pc' = [pc EXCEPT ![r] = "arrived"]
  /\ known' = [known EXCEPT ![r] = [status |-> status[ask[r].session],
                                    acked  |-> Acknowledged(ask[r].session)]]
  /\ UNCHANGED <<sessions, queued, ledger, day, ask, locals, reply>>

EndWith(r, answer) ==
  /\ pc' = [pc EXCEPT ![r] = "ended"]
  /\ reply' = [reply EXCEPT ![r] = answer]

(* GetSessionByPublicID finds nothing, or fails: both read the same. *)
NotFound(r) ==
  /\ pc[r] = "arrived"
  /\ status[ask[r].session] = "none" \/ "call" \in Faults
  /\ EndWith(r, "NOT_FOUND")
  /\ UNCHANGED <<sessions, queued, ledger, day, ask, known, locals>>

(***************************************************************************)
(* SubmitAnswer.  It looks at neither the session's status nor its owner;  *)
(* a question that is not in the session is looked up in the bank instead. *)
(***************************************************************************)
GradeAnswer(r) ==
  /\ pc[r] = "arrived" /\ ask[r].op = "answer"
  /\ status[ask[r].session] # "none"
  /\ pc' = [pc EXCEPT ![r] = "save"]
  /\ UNCHANGED <<sessions, queued, ledger, day, ask, known, locals, reply>>

(* SaveAnswer: an UPDATE, of no row when the question is not in the        *)
(* session; its error is ignored.                                          *)
SaveAnswer(r) ==
  LET s == ask[r].session
      q == ask[r].question
  IN  /\ pc[r] = "save"
      /\ pc' = [pc EXCEPT ![r] = "mistake"]
      /\ \/ q \in paper[s] /\ answers' = [answers EXCEPT ![s][q] = ask[r].choice]
         \/ q \notin paper[s] /\ UNCHANGED answers
         \/ "save" \in Faults /\ UNCHANGED answers
      /\ UNCHANGED <<status, paper, stored, queued, ledger, day, ask, known, locals,
                     reply>>

(* UpsertMistake: a wrong answer queues the question, a right one moves    *)
(* the review date of a question that is queued; its error is ignored.     *)
Requeue_RightRemoves(q, choice) == IF choice = "wrong" THEN queued \cup {q}
                                                       ELSE queued \ {q}
Requeue(q, choice) == IF choice = "wrong" THEN queued \cup {q} ELSE queued

UpsertMistake(r) ==
  /\ pc[r] = "mistake"
  /\ EndWith(r, "OK")
  /\ \/ queued' = Requeue(ask[r].question, ask[r].choice)
     \/ "mistake" \in Faults /\ UNCHANGED queued
  /\ UNCHANGED <<sessions, ledger, day, ask, known, locals>>

(***************************************************************************)
(* CompleteSession.                                                        *)
(***************************************************************************)
TakesCompletions_Always(s) == status[s] # "none"
TakesCompletions(s)        == status[s] = "in_progress"

(* A session that is completed: its stored counts, and nothing is paid. *)
RepeatCompletion(r) ==
  LET s == ask[r].session
  IN  /\ pc[r] = "arrived" /\ ask[r].op = "complete"
      /\ status[s] = "completed" /\ ~ TakesCompletions(s)
      /\ EndWith(r, "completed")
      /\ tally' = [tally EXCEPT ![r] = stored[s]]
      /\ UNCHANGED <<sessions, queued, ledger, day, ask, known, now, row>>

AdmitCompletion(r) ==
  /\ pc[r] = "arrived" /\ ask[r].op = "complete"
  /\ TakesCompletions(ask[r].session)
  /\ pc' = [pc EXCEPT ![r] = "tally"]
  /\ UNCHANGED <<sessions, queued, ledger, day, ask, known, locals, reply>>

GetSessionTally(r) ==
  /\ pc[r] = "tally"
  /\ \/ /\ tally' = [tally EXCEPT ![r] = Tally(ask[r].session)]
        /\ pc' = [pc EXCEPT ![r] = "stats"]
        /\ UNCHANGED reply
     \/ "call" \in Faults /\ EndWith(r, "ERROR") /\ UNCHANGED tally
  /\ UNCHANGED <<sessions, queued, ledger, day, ask, known, now, row>>

(* GetUserStats; when it fails, the request carries on from a fresh row. *)
GetUserStats(r) ==
  /\ pc[r] = "stats"
  /\ pc' = [pc EXCEPT ![r] = IF tally[r].answered > 0 THEN "clock" ELSE "credit"]
  /\ \/ row' = [row EXCEPT ![r] = stats]
     \/ "read" \in Faults /\ row' = [row EXCEPT ![r] = FreshRow]
  /\ UNCHANGED <<sessions, queued, ledger, day, ask, known, tally, now, reply>>

(* The time.Now() nextStreak is called with, if anything was answered. *)
TakeNow(r) ==
  /\ pc[r] = "clock"
  /\ pc' = [pc EXCEPT ![r] = "credit"]
  /\ now' = [now EXCEPT ![r] = day]
  /\ activeDays' = activeDays \cup {day}
  /\ UNCHANGED <<sessions, queued, stats, earned, paid, day, ask, known, tally, row,
                 reply>>

(* UpdateUserStats; its error is ignored, and the session is completed     *)
(* all the same.                                                           *)
UpdateUserStats(r) ==
  /\ pc[r] = "credit"
  /\ pc' = [pc EXCEPT ![r] = "finish"]
  /\ \/ /\ stats' = Credited(row[r], CreditOf(r), now[r], day)
        /\ earned' = [c \in DOMAIN earned |-> earned[c] + CreditOf(r)[c]]
        /\ paid' = [paid EXCEPT ![ask[r].session] = @ + 1]
     \/ "write" \in Faults /\ UNCHANGED <<stats, earned, paid>>
  /\ UNCHANGED <<sessions, queued, activeDays, day, ask, known, locals, reply>>

(* practiceRepo.CompleteSession: an UPDATE on the session's id alone,      *)
(* whatever its status; its error is ignored.                              *)
FinalCounts_Reloaded(r) == Tally(ask[r].session)
FinalCounts(r)          == tally[r]

CompleteSession_KeepsStatus(r) ==
  /\ pc[r] = "finish"
  /\ pc' = [pc EXCEPT ![r] = "settled"]
  /\ reply' = [reply EXCEPT ![r] = "completed"]
  /\ stored' = [stored EXCEPT ![ask[r].session] = FinalCounts(r)]
  /\ UNCHANGED <<status, paper, answers, queued, ledger, day, ask, known, locals>>

CompleteSession(r) ==
  /\ pc[r] = "finish"
  /\ pc' = [pc EXCEPT ![r] = "settled"]
  /\ reply' = [reply EXCEPT ![r] = "completed"]
  /\ \/ /\ status' = [status EXCEPT ![ask[r].session] = "completed"]
        /\ stored' = [stored EXCEPT ![ask[r].session] = FinalCounts(r)]
     \/ "complete" \in Faults /\ UNCHANGED <<status, stored>>
  /\ UNCHANGED <<paper, answers, queued, ledger, day, ask, known, locals>>

(* What a client is told with "completed": the completion that went all    *)
(* the way tells its gain and the new streak; one that found the session   *)
(* completed only the stored counts, without XP or streak.                 *)
FirstResult(r) ==
  [answered |-> tally[r].answered, correct |-> tally[r].correct, xp |-> CreditOf(r).xp,
   streak   |-> Credited(row[r], CreditOf(r), now[r], day).streak]

RepeatResult(r) ==
  [answered |-> tally[r].answered, correct |-> tally[r].correct, xp |-> 0, streak |-> 0]

Told(r) == IF pc[r] = "settled" THEN FirstResult(r) ELSE RepeatResult(r)

(* The process dies with the request under way. *)
Crash(r) ==
  /\ "crash" \in Faults
  /\ \/ /\ pc[r] \in {"arrived", "save", "mistake", "tally"}
        /\ pc' = [pc EXCEPT ![r] = "ended"]
     \/ /\ pc[r] \in {"stats", "clock", "credit", "finish"}
        /\ pc' = [pc EXCEPT ![r] = "settled"]
  /\ reply' = [reply EXCEPT ![r] = "LOST"]
  /\ UNCHANGED <<sessions, queued, ledger, day, ask, known, locals>>

(* What the server does for a request it has received. *)
Serve(r) ==
  \/ NotFound(r) \/ GradeAnswer(r) \/ SaveAnswer(r) \/ UpsertMistake(r)
  \/ RepeatCompletion(r) \/ AdmitCompletion(r) \/ GetSessionTally(r)
  \/ GetUserStats(r) \/ TakeNow(r) \/ UpdateUserStats(r) \/ CompleteSession(r)

Next ==
  \/ \E s \in Sessions : CreateSession(s)
  \/ NextDay
  \/ \E r \in Requests : Arrive(r) \/ Serve(r) \/ Crash(r)

Spec == Init /\ [][Next]_vars

-----------------------------------------------------------------------------
StoredRow == [xp: Nat, level: Nat, streak: Nat, last: Days \cup {NoDay},
              answered: Nat, correct: Nat, exams: Nat, passed: Nat]

(* Every variable keeps its type; in particular a tally is of questions    *)
(* handed out, and never counts more right answers than answers.           *)
TypeOK ==
  /\ status \in [Sessions -> {"none", "in_progress", "completed"}]
  /\ paper \in [Sessions -> SUBSET Questions]
  /\ answers \in [Sessions -> [Questions -> Choices \cup {"unanswered"}]]
  /\ stored \in [Sessions -> Counts]
  /\ queued \in SUBSET Questions
  /\ stats \in StoredRow
  /\ day \in Days
  /\ pc \in [Requests -> {"idle", "arrived", "save", "mistake", "tally", "stats",
                          "clock", "credit", "finish", "ended", "settled"}]
  /\ ask \in [Requests -> Answers \cup Completes]
  /\ known \in [Requests -> [status: {"none", "in_progress", "completed"},
                            acked: SUBSET Questions]]
  /\ tally \in [Requests -> Counts]
  /\ \A r \in Requests : /\ tally[r].correct <= tally[r].answered
                         /\ tally[r].answered <= Cardinality(paper[ask[r].session])
  /\ now \in [Requests -> Days \cup {NoDay}]
  /\ row \in [Requests -> StoredRow]
  /\ reply \in [Requests -> {"none", "OK", "NOT_FOUND", "ERROR", "completed", "LOST"}]
  /\ paid \in [Sessions -> Nat]
  /\ activeDays \in SUBSET Days
  /\ earned \in [answered: Nat, correct: Nat, xp: Nat, exams: Nat, passed: Nat]

(***************************************************************************)
(* Safety, under every interleaving.                                       *)
(***************************************************************************)

(* The questions some answer request has got as far as saving. *)
Sent(s) ==
  {q \in paper[s] : \E r \in Requests :
     /\ ask[r].op = "answer" /\ ask[r].session = s /\ ask[r].question = q
     /\ pc[r] \in {"mistake", "ended"}}

(* "What the learner actually answered, not what they were handed": a      *)
(* completion counts every answer acknowledged before it arrived (when no  *)
(* SaveAnswer fails) and nothing that was not sent, although answers keep  *)
(* arriving while it runs, and after.                                      *)
TallyIsWhatWasAnswered ==
  \A r \in Requests :
    LET s == ask[r].session
    IN  pc[r] \in {"stats", "clock", "credit", "finish", "settled"} =>
          /\ tally[r].answered <= Cardinality(Sent(s))
          /\ "save" \notin Faults =>
               Cardinality(known[r].acked \cap paper[s]) <= tally[r].answered

(* A completed session stores the counts one completion tallied, never a   *)
(* later state of its answers: they are what its learner was told and what *)
(* was credited.                                                           *)
StoredCountsWereTallied ==
  \A s \in Sessions : status[s] = "completed" =>
    \E r \in Requests : /\ ask[r].op = "complete" /\ ask[r].session = s
                        /\ pc[r] = "settled" /\ tally[r] = stored[s]

(* A mistake is never forgotten by racing answers: a question answered     *)
(* wrongly, the answer acknowledged, is in the review queue (when no       *)
(* UpsertMistake fails), whatever other answers to it come in.             *)
MistakesStayQueued ==
  \A r \in Requests :
    /\ reply[r] = "OK" /\ ask[r].op = "answer" /\ ask[r].choice = "wrong"
    /\ "mistake" \notin Faults
    => ask[r].question \in queued

(***************************************************************************)
(* Safety when completions of a session do not overlap, none dies half     *)
(* way, and practiceRepo.CompleteSession does not fail.                    *)
(***************************************************************************)

(* "Completing twice must not pay twice": the learner's stats are credited *)
(* for a session at most once, however often it is completed.              *)
PaidAtMostOnce == \A s \in Sessions : paid[s] <= 1

(* Completing again tells the learner the counts that completing did,      *)
(* whatever answers came in between; but the XP and the streak it won are  *)
(* told at most once, and every other reply has none.                      *)
RepeatsTellNoGain ==
  \A r1, r2 \in Requests :
    /\ r1 # r2 /\ reply[r1] = "completed" /\ reply[r2] = "completed"
    /\ ask[r1].session = ask[r2].session
    => /\ Told(r1).answered = Told(r2).answered /\ Told(r1).correct = Told(r2).correct
       /\ Told(r1).xp = 0 \/ Told(r2).xp = 0
       /\ Told(r1).streak = 0 \/ Told(r2).streak = 0

(* "Return the original response for retries", "it must be idempotent": a  *)
(* learner who completes again reads what he read first.  The API document *)
(* says so; the use case does not do it, only the middleware for the same  *)
(* key within a day; no run checks it.                                     *)
RepeatsReadTheOriginal ==
  \A r1, r2 \in Requests :
    reply[r1] = "completed" /\ reply[r2] = "completed" /\ ask[r1].session = ask[r2].session
      => Told(r1) = Told(r2)

(***************************************************************************)
(* Liveness.                                                               *)
(***************************************************************************)

(* A completion that finds its session in progress leaves it completed, or *)
(* its client learns of an error or loses the connection, if no            *)
(* CompleteSession fails: the client knows when to try again.              *)
CompletionCompletes ==
  \A r \in Requests :
    (pc[r] = "arrived" /\ ask[r].op = "complete" /\ known[r].status = "in_progress")
      ~> (status[ask[r].session] = "completed" \/ reply[r] \in {"NOT_FOUND", "ERROR", "LOST"})

(***************************************************************************)
(* Where a completion is in StatsLedger, which LearnerProgress shows that  *)
(* practice sessions implement: there from GetSessionTally, where its      *)
(* credit is fixed, until it settles.                                      *)
(***************************************************************************)
LedgerPhase(r) == CASE pc[r] = "stats"                 -> "earned"
                    [] pc[r] \in {"clock", "credit"}   -> "read"
                    [] pc[r] \in {"finish", "settled"} -> "done"
                    [] OTHER                           -> "idle"

InLedger(r) == LedgerPhase(r) # "idle"
=============================================================================
