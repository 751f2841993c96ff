---------------------------- MODULE OfflineSync -----------------------------
(***************************************************************************)
(* Offline answers of one learner: SyncUsecase.ProcessEvents and apply     *)
(* over the Postgres SyncRepository, and the client that keeps an event    *)
(* until it is told it was accepted, and uploads it again otherwise        *)
(* ("the client retried an upload it never saw the answer to").            *)
(*                                                                         *)
(* An upload works through its events one after the other, a repository    *)
(* call a step, and several uploads of the learner's devices may run at    *)
(* once.  What upload u is doing with its event e is work[u][e].           *)
(***************************************************************************)
EXTENDS LearnerStats, FiniteSets

CONSTANTS
  Events,      \* answers given without a connection
  Uploads,     \* calls of POST /sync/events
  MaxDay,      \* the calendar stops here
  MaxRunning,  \* how many uploads may be running at once
  Faults       \* what may go wrong: a subset of AllFaults

(* SaveSyncEvent fails ("save"), UpsertMistake ("mistake"), GetUserStats   *)
(* ("read"), UpdateUserStats ("write"), GetQuestionByID ("call"); the      *)
(* reply to an upload is lost; the process dies; midnight while an upload  *)
(* runs.                                                                   *)
AllFaults == {"save", "call", "mistake", "read", "write", "reply", "crash", "midnight"}

ASSUME SyncAssumption ==
  /\ IsFiniteSet(Events) /\ IsFiniteSet(Uploads)
  /\ MaxDay \in Nat
  /\ MaxRunning \in Nat \ {0}
  /\ Faults \subseteq AllFaults

VARIABLES
  \* the client
  event,      \* what each event is, fixed from the start
  pending,    \* the events it still has to upload
  \* the database
  saved,      \* the rows of sync_events
  queued,     \* the questions, named by their event, in the review queue
  stats,      \* the learner's row of user_stats
  day,        \* the date
  \* the uploads
  pc,         \* where each upload is
  batch,      \* its events
  work,       \* what it is doing, or did, with each event
  now, row,   \* the date and the stats row it took for an event
  \* histories
  credits,    \* how often each event was credited
  activeDays, earned

client == <<event, pending>>
ledger == <<stats, credits, activeDays, earned>>
vars   == <<client, saved, queued, ledger, day, pc, batch, work, now, row>>

Days    == 0 .. MaxDay
Pairs   == Uploads \X Events
Nothing == [answered |-> 0, correct |-> 0, xp |-> 0, exams |-> 0, passed |-> 0]

(* The code knows one event type; the API document names it otherwise.  An *)
(* answer is right or wrong, or names no question or one that is unknown.  *)
SyncEventPracticeAnswer == "practice_answer"
Types   == {SyncEventPracticeAnswer, "practice_answered"}
Content == {"right", "wrong", "invalid"}

CreditOf(e) == SyncCredit(event[e].content = "right")

Init ==
  /\ event \in [Events -> [type: Types, content: Content]]
  /\ pending = Events
  /\ saved = {}
  /\ queued = {}
  /\ stats = FreshRow
  /\ day = 0
  /\ pc = [u \in Uploads |-> "idle"]
  /\ batch = [u \in Uploads |-> {}]
  /\ work = [u \in Uploads |-> [e \in Events |-> "waiting"]]
  /\ now = [u \in Uploads |-> [e \in Events |-> NoDay]]
  /\ row = [u \in Uploads |-> [e \in Events |-> FreshRow]]
  /\ credits = [e \in Events |-> 0]
  /\ activeDays = {}
  /\ earned = Nothing

-----------------------------------------------------------------------------
(***************************************************************************)
(* The client.                                                             *)
(***************************************************************************)
Running == {u \in Uploads : pc[u] = "running"}

Upload(u) ==
  /\ pc[u] = "idle"
  /\ Cardinality(Running) < MaxRunning
  /\ \E b \in (SUBSET pending) \ {{}} : batch' = [batch EXCEPT ![u] = b]
  /\ pc' = [pc EXCEPT ![u] = "running"]
  /\ UNCHANGED <<client, saved, queued, ledger, day, work, now, row>>

(* What the learner's device is told: every event of the batch is answered *)
(* for, and the accepted ones need not be sent again.                      *)
Done(u)     == \A e \in batch[u] : work[u][e] \in {"accepted", "rejected"}
Accepted(u) == {e \in batch[u] : work[u][e] = "accepted"}

Reply(u) ==
  /\ pc[u] = "running" /\ Done(u)
  /\ \/ pc' = [pc EXCEPT ![u] = "answered"] /\ pending' = pending \ Accepted(u)
     \/ "reply" \in Faults /\ pc' = [pc EXCEPT ![u] = "lost"] /\ UNCHANGED pending
  /\ UNCHANGED <<event, saved, queued, ledger, day, batch, work, now, row>>

NextDay ==
  /\ day < MaxDay
  /\ "midnight" \in Faults \/ Running = {}
  /\ day' = day + 1
  /\ UNCHANGED <<client, saved, queued, ledger, pc, batch, work, now, row>>

-----------------------------------------------------------------------------
(***************************************************************************)
(* The server.                                                             *)
(***************************************************************************)
Become(u, e, what) == work' = [work EXCEPT ![u][e] = what]
At(u, e, what)     == pc[u] = "running" /\ e \in batch[u] /\ work[u][e] = what

(* The next event's turn comes when the one before it is answered for. *)
Idle(u) == \A e \in batch[u] : work[u][e] \in {"waiting", "accepted", "rejected"}

(* An INSERT .. ON CONFLICT DO NOTHING that inserted the row. *)
IsNew_Always(e)   == e \in Events
IsNew_Inverted(e) == e \in saved
IsNew(e)          == e \notin saved

(* An event of a type the server does not know is stored and ignored. *)
AfterSave_Reapplies(e) == IF event[e].type = SyncEventPracticeAnswer THEN "question"
                                                                   ELSE "accepted"
AfterSave(e) ==
  IF IsNew(e) /\ event[e].type = SyncEventPracticeAnswer THEN "question" ELSE "accepted"

SaveSyncEvent_ReportsNoError(u, e) ==
  /\ At(u, e, "waiting") /\ Idle(u)
  /\ \/ saved' = saved \cup {e} /\ Become(u, e, AfterSave(e))
     \/ "save" \in Faults /\ Become(u, e, "accepted") /\ UNCHANGED saved
  /\ UNCHANGED <<client, queued, ledger, day, pc, batch, now, row>>

SaveSyncEvent(u, e) ==
  /\ At(u, e, "waiting") /\ Idle(u)
  /\ \/ saved' = saved \cup {e} /\ Become(u, e, AfterSave(e))
     \/ "save" \in Faults /\ Become(u, e, "rejected") /\ UNCHANGED saved
  /\ UNCHANGED <<client, queued, ledger, day, pc, batch, now, row>>

(* The payload is read and the question looked up. *)
GetQuestion(u, e) ==
  /\ At(u, e, "question")
  /\ \/ event[e].content # "invalid" /\ Become(u, e, "mistake")
     \/ event[e].content = "invalid" /\ Become(u, e, "rejected")
     \/ "call" \in Faults /\ Become(u, e, "rejected")
  /\ UNCHANGED <<client, saved, queued, ledger, day, pc, batch, now, row>>

(* Its error is ignored. *)
UpsertMistake(u, e) ==
  /\ At(u, e, "mistake")
  /\ Become(u, e, "stats")
  /\ \/ queued' = IF event[e].content = "wrong" THEN queued \cup {e} ELSE queued
     \/ "mistake" \in Faults /\ UNCHANGED queued
  /\ UNCHANGED <<client, saved, ledger, day, pc, batch, now, row>>

GetUserStats(u, e) ==
  /\ At(u, e, "stats")
  /\ Become(u, e, "clock")
  /\ \/ row' = [row EXCEPT ![u][e] = stats]
     \/ "read" \in Faults /\ row' = [row EXCEPT ![u][e] = FreshRow]
  /\ UNCHANGED <<client, saved, queued, ledger, day, pc, batch, now>>

(* The time.Now() nextStreak is called with. *)
TakeNow(u, e) ==
  /\ At(u, e, "clock")
  /\ Become(u, e, "credit")
  /\ now' = [now EXCEPT ![u][e] = day]
  /\ activeDays' = activeDays \cup {day}
  /\ UNCHANGED <<client, saved, queued, stats, credits, earned, day, pc, batch, row>>

(* Its error is apply's, and the event is reported as not accepted. *)
UpdateUserStats_NoStreak(u, e) ==
  /\ At(u, e, "credit")
  /\ Become(u, e, "accepted")
  /\ stats' = [Credited(row[u][e], CreditOf(e), now[u][e], day)
                 EXCEPT !.streak = row[u][e].streak]
  /\ earned' = [c \in DOMAIN earned |-> earned[c] + CreditOf(e)[c]]
  /\ credits' = [credits EXCEPT ![e] = @ + 1]
  /\ UNCHANGED <<client, saved, queued, activeDays, day, pc, batch, now, row>>

UpdateUserStats(u, e) ==
  /\ At(u, e, "credit")
  /\ \/ /\ Become(u, e, "accepted")
        /\ stats' = Credited(row[u][e], CreditOf(e), now[u][e], day)
        /\ earned' = [c \in DOMAIN earned |-> earned[c] + CreditOf(e)[c]]
        /\ credits' = [credits EXCEPT ![e] = @ + 1]
     \/ /\ "write" \in Faults
        /\ Become(u, e, "rejected")
        /\ UNCHANGED <<stats, earned, credits>>
  /\ UNCHANGED <<client, saved, queued, activeDays, day, pc, batch, now, row>>

(* The process dies with the upload in it; the client hears nothing. *)
Crash(u) ==
  /\ "crash" \in Faults
  /\ pc[u] = "running"
  /\ pc' = [pc EXCEPT ![u] = "lost"]
  /\ UNCHANGED <<client, saved, queued, ledger, day, batch, work, now, row>>

ProcessEvents(u) ==
  \/ \E e \in batch[u] : \/ SaveSyncEvent(u, e) \/ GetQuestion(u, e)
                         \/ UpsertMistake(u, e) \/ GetUserStats(u, e)
                         \/ TakeNow(u, e) \/ UpdateUserStats(u, e)
  \/ Reply(u)

Next ==
  \/ NextDay
  \/ \E u \in Uploads : Upload(u) \/ ProcessEvents(u) \/ Crash(u)

Spec == Init /\ [][Next]_vars

(* A goroutine that can run does; the client need not upload at all. *)
Fairness == \A u \in Uploads : WF_vars(ProcessEvents(u))

-----------------------------------------------------------------------------
StoredRow == [xp: Nat, level: Nat, streak: Nat, last: Days \cup {NoDay},
              answered: Nat, correct: Nat, exams: Nat, passed: Nat]

(* Every variable keeps its type; a row of user_stats that only offline    *)
(* answers touch never counts an exam.                                     *)
TypeOK ==
  /\ event \in [Events -> [type: Types, content: Content]]
  /\ pending \in SUBSET Events
  /\ saved \in SUBSET Events
  /\ queued \in SUBSET Events
  /\ stats \in StoredRow /\ stats.exams = 0 /\ stats.passed = 0
  /\ day \in Days
  /\ pc \in [Uploads -> {"idle", "running", "answered", "lost"}]
  /\ batch \in [Uploads -> SUBSET Events]
  /\ work \in [Uploads -> [Events -> {"waiting", "question", "mistake", "stats", "clock",
                                      "credit", "accepted", "rejected"}]]
  /\ now \in [Uploads -> [Events -> Days \cup {NoDay}]]
  /\ row \in [Uploads -> [Events -> StoredRow]]
  /\ credits \in [Events -> Nat]
  /\ activeDays \in SUBSET Days
  /\ earned \in [answered: Nat, correct: Nat, xp: Nat, exams: Nat, passed: Nat]

(* The events that are worth something. *)
Creditable(e) == event[e].type = SyncEventPracticeAnswer /\ event[e].content # "invalid"

(* "Crediting the same answer twice would inflate the learner's stats": an *)
(* event is credited at most once, however often it is uploaded, over      *)
(* whatever connections and by however many devices at once.               *)
CreditedAtMostOnce == \A e \in Events : credits[e] <= 1

(* Only one upload ever works at an event beyond storing it: the insert is *)
(* the lock, and it is never given back.                                   *)
OneUploadApplies ==
  \A e \in Events :
    Cardinality({u \in Uploads : work[u][e] \in {"question", "mistake", "stats",
                                                 "clock", "credit"}}) <= 1

(* The device forgets an event only when the server has it ("do not        *)
(* discard answer history"), so no failure or lost reply loses an answer.  *)
NothingForgotten == Events \ pending \subseteq saved

(* When nothing fails but replies, and uploads do not overlap, the stats   *)
(* are worth exactly the stored events: an answer given offline "counts    *)
(* for exactly what it would have online", retries notwithstanding.        *)
Stored(content) == {e \in saved : Creditable(e) /\ event[e].content \in content}

StatsMatchTheLog ==
  Running = {} =>
    /\ stats.answered = Cardinality(Stored({"right", "wrong"}))
    /\ stats.correct = Cardinality(Stored({"right"}))
    /\ stats.xp = XPPerCorrectAnswer * Cardinality(Stored({"right"}))
                    + XPPerIncorrectAnswer * Cardinality(Stored({"wrong"}))
    /\ queued = Stored({"wrong"})

(***************************************************************************)
(* What the code's comments and the documentation say, and the code does   *)
(* not do.                                                                 *)
(***************************************************************************)

(* "Work done without a connection counts for exactly what it would have   *)
(* online": an answer the client was told is accepted has been credited,   *)
(* or an upload is still at it.                                            *)
AcceptedIsCredited ==
  \A e \in Events \ pending :
    Creditable(e) => \/ credits[e] = 1
                     \/ \E u \in Running : e \in batch[u]

(***************************************************************************)
(* Liveness.                                                               *)
(***************************************************************************)

(* When only replies are lost, a stored answer is credited in the end,     *)
(* also when another device was told "accepted" while it was not yet.      *)
StoredIsCredited ==
  \A e \in Events : (e \in saved /\ Creditable(e)) ~> credits[e] = 1

(***************************************************************************)
(* Uploads keep the learner's progress as StatsLedger says requests do.    *)
(* Each event of each upload is a request of the ledger, in it while its   *)
(* upload reads, computes and writes the stats for it.                     *)
(***************************************************************************)
LedgerPhase(u, e) ==
  LET at == work[u][e]
  IN  CASE at = "stats"              -> IF pc[u] = "lost" THEN "done" ELSE "earned"
        [] at \in {"clock", "credit"} -> IF pc[u] = "lost" THEN "done" ELSE "read"
        [] at \in {"accepted", "rejected"} /\ now[u][e] # NoDay -> "done"
        [] OTHER                     -> "idle"

Ledger == INSTANCE StatsLedger WITH
  Requests    <- Pairs,
  Kinds       <- {"sync"},
  MaxAnswers  <- 0,
  MaxInFlight <- Cardinality(Pairs) + 1,
  Faults      <- {"read", "write", "crash", "midnight"},
  phase       <- [p \in Pairs |-> LedgerPhase(p[1], p[2])],
  kind        <- [p \in Pairs |-> "sync"],
  credit      <- [p \in Pairs |-> IF LedgerPhase(p[1], p[2]) = "idle"
                                     THEN SyncCredit(FALSE) ELSE CreditOf(p[2])],
  now         <- [p \in Pairs |-> now[p[1]][p[2]]],
  row         <- [p \in Pairs |-> row[p[1]][p[2]]]

(* Offline answers implement the abstract progress keeping, so what holds  *)
(* of the ledger under every fault holds of them.                          *)
KeepsTheLedger == Ledger!Spec
=============================================================================
