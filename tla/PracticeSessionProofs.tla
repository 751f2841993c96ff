------------------------ MODULE PracticeSessionProofs ------------------------
(***************************************************************************)
(* Proofs about PracticeSession, for any number of sessions, questions and *)
(* requests and every combination of faults: its types, what a completion  *)
(* counts, the review queue and, with the history variable of              *)
(* MCPracticeSession, that orderly completions pay once, tell one count,   *)
(* and tell the gain at most once.                                         *)
(***************************************************************************)
EXTENDS MCPracticeSession, FiniteSetTheorems, TLAPS

(***************************************************************************)
(* Rows, credits and counts.                                               *)
(***************************************************************************)
Sums == [answered: Nat, correct: Nat, xp: Nat, exams: Nat, passed: Nat]

(* The row of a learner nothing is stored for has the type of a row.       *)
LEMMA FreshRowType == FreshRow \in StoredRow
BY DEF FreshRow, StoredRow, NoDay

(* What was answered, and how much of it rightly, makes a credit.          *)
LEMMA CreditType ==
  ASSUME NEW a \in Nat, NEW c \in Nat, c <= a
  PROVE  PracticeCredit(a, c) \in Credit
BY DEF PracticeCredit, Credit, XPPerCorrectAnswer, XPPerIncorrectAnswer

(* A credit added to a row gives a row, dated with the day of the write.   *)
LEMMA CreditedType ==
  ASSUME NEW s \in StoredRow, NEW c \in Credit, NEW today \in Days \cup {NoDay},
         NEW d \in Days
  PROVE  Credited(s, c, today, d) \in StoredRow
<1>1. /\ s.xp \in Nat /\ s.answered \in Nat /\ s.correct \in Nat
      /\ s.exams \in Nat /\ s.passed \in Nat /\ s.streak \in Nat
      /\ s.last \in Days \cup {NoDay}
  BY DEF StoredRow
<1>2. /\ c.xp \in Nat /\ c.answered \in Nat /\ c.correct \in Nat
      /\ c.exams \in Nat /\ c.passed \in Nat /\ c.active \in BOOLEAN
  BY DEF Credit
<1>3. NextStreak(s.streak, s.last, today) \in Nat
  BY <1>1, PracticeAssumption DEF NextStreak, Days, NoDay
<1>4. Level(s.xp + c.xp) \in Nat
  BY <1>1, <1>2 DEF Level
<1> QED
  BY <1>1, <1>2, <1>3, <1>4 DEF Credited, Accrue, ActivityDate, StoredRow

(* The sums of credits stay sums of natural numbers.                       *)
LEMMA SumType ==
  ASSUME NEW e \in Sums, NEW c \in Credit
  PROVE  [f \in DOMAIN e |-> e[f] + c[f]] \in Sums
<1>1. DOMAIN e = {"answered", "correct", "xp", "exams", "passed"}
  BY DEF Sums
<1>2. \A f \in DOMAIN e : e[f] \in Nat /\ c[f] \in Nat
  BY <1>1 DEF Sums, Credit
<1> QED
  BY <1>1, <1>2 DEF Sums

(* The answered questions of a session are finitely many.                  *)
AnsweredOn(s) == {q \in paper[s] : answers[s][q] # "unanswered"}
RightOn(s)    == {q \in paper[s] : answers[s][q] = "right"}

LEMMA TallyCounts ==
  ASSUME NEW s \in Sessions, paper[s] \in SUBSET Questions
  PROVE  /\ Tally(s) \in Counts
         /\ Tally(s).correct <= Tally(s).answered
         /\ Tally(s).answered = Cardinality(AnsweredOn(s))
         /\ Tally(s).answered <= Cardinality(paper[s])
<1>1. IsFiniteSet(paper[s])
  BY PracticeAssumption, FS_Subset
<1>2. IsFiniteSet(AnsweredOn(s)) /\ Cardinality(AnsweredOn(s)) <= Cardinality(paper[s])
  BY <1>1, FS_Subset DEF AnsweredOn
<1>3. RightOn(s) \in SUBSET AnsweredOn(s)
  BY DEF RightOn, AnsweredOn
<1>4. IsFiniteSet(RightOn(s)) /\ Cardinality(RightOn(s)) <= Cardinality(AnsweredOn(s))
  BY <1>2, <1>3, FS_Subset
<1>5. Tally(s) = [answered |-> Cardinality(AnsweredOn(s)), correct |-> Cardinality(RightOn(s))]
  BY DEF Tally, AnsweredOn, RightOn
<1> QED
  BY <1>2, <1>4, <1>5, FS_CardinalityType DEF Counts

(***************************************************************************)
(* The invariant.                                                          *)
(***************************************************************************)
Types ==
  /\ status \in [Sessions -> {"none", "in_progress", "completed"}]
  /\ paper \in [Sessions -> SUBSET Questions]
  /\ answers \in [Sessions -> [Questions -> Choices \cup {"unanswered"}]]
  /\ stored \in [Sessions -> Counts]
  /\ queued \in SUBSET Questions
  /\ stats \in StoredRow
  /\ day \in Days
  /\ pc \in [Requests -> {"idle", "arrived", "save", "mistake", "tally", "stats",
                          "clock", "credit", "finish", "ended", "settled"}]
  /\ ask \in [Requests -> Answers \cup Completes]
  /\ known \in [Requests -> [status: {"none", "in_progress", "completed"},
                            acked: SUBSET Questions]]
  /\ tally \in [Requests -> Counts]
  /\ now \in [Requests -> Days \cup {NoDay}]
  /\ row \in [Requests -> StoredRow]
  /\ reply \in [Requests -> {"none", "OK", "NOT_FOUND", "ERROR", "completed", "LOST"}]
  /\ paid \in [Sessions -> Nat]
  /\ activeDays \in SUBSET Days
  /\ earned \in Sums

(* Nothing is stored for a session before it is created, and nothing is    *)
(* counted before it is completed.                                         *)
SoundSession(s) ==
  /\ status[s] = "none" => paper[s] = {} /\ answers[s] = Blank
  /\ status[s] # "completed" => stored[s] = Zero
  /\ status[s] = "completed" =>
       \E r \in Requests : /\ ask[r].op = "complete" /\ ask[r].session = s
                           /\ pc[r] = "settled" /\ tally[r] = stored[s]
  /\ AnsweredOn(s) \subseteq Sent(s)

Counting == {"stats", "clock", "credit", "finish", "settled"}
Before   == {"idle", "arrived", "ended"}

(* Where a request can be with what it asks for, and what it can hold.     *)
Placed(r) ==
  /\ pc[r] \in {"save", "mistake"} => ask[r].op = "answer"
  /\ pc[r] \in Counting \cup {"tally"} => ask[r].op = "complete"
  /\ status[ask[r].session] = "none" => pc[r] \in Before /\ known[r].acked = {} /\ reply[r] # "OK"
  /\ reply[r] = "OK" => pc[r] = "ended"
  /\ tally[r].correct <= tally[r].answered
  /\ tally[r].answered <= Cardinality(paper[ask[r].session])

(* An answer that was saved stays, and those acknowledged were saved.      *)
SavedFirst(r) ==
  LET s == ask[r].session
  IN  "save" \notin Faults =>
        /\ ask[r].op = "answer" /\ (pc[r] = "mistake" \/ reply[r] = "OK")
             => (ask[r].question \in paper[s] => answers[s][ask[r].question] # "unanswered")
        /\ known[r].acked \cap paper[s] \subseteq AnsweredOn(s)

Counted(r) ==
  LET s == ask[r].session
  IN  pc[r] \in Counting =>
        /\ tally[r].answered <= Cardinality(Sent(s))
        /\ "save" \notin Faults => Cardinality(known[r].acked \cap paper[s]) <= tally[r].answered

Queued(r) ==
  /\ reply[r] = "OK" /\ ask[r].op = "answer" /\ ask[r].choice = "wrong"
  /\ "mistake" \notin Faults
  => ask[r].question \in queued

SoundRequest(r) == Placed(r) /\ SavedFirst(r) /\ Counted(r) /\ Queued(r)

IInv ==
  /\ Types
  /\ \A s \in Sessions : SoundSession(s)
  /\ \A r \in Requests : SoundRequest(r)

(* What a request asks for. *)
LEMMA AskType ==
  ASSUME Types, NEW r \in Requests
  PROVE  /\ ask[r].session \in Sessions
         /\ ask[r].op \in {"answer", "complete"}
         /\ ask[r].op = "answer" => ask[r].question \in Questions /\ ask[r].choice \in Choices
BY DEF Types, Answers, Completes

LEMMA InitIInv == Init => IInv
<1> SUFFICES ASSUME Init
             PROVE  IInv
  OBVIOUS
<1>1. Types
  BY FreshRowType, PracticeAssumption DEF Init, Types, Blank, Zero, Counts, Days, Sums, Nothing
<1>2. Cardinality({}) = 0
  BY FS_EmptySet
<1>3. ASSUME NEW s \in Sessions
      PROVE  SoundSession(s)
  BY <1>3 DEF Init, SoundSession, AnsweredOn, Zero
<1>4. ASSUME NEW r \in Requests
      PROVE  SoundRequest(r)
  <2>1. ask[r].session \in Sessions
    BY <1>1, AskType
  <2> QED
    BY <1>2, <2>1 DEF Init, SoundRequest, Placed, SavedFirst, Counted, Queued, Counting, Before, Zero
<1> QED
  BY <1>1, <1>3, <1>4 DEF IInv

(***************************************************************************)
(* What every step respects: sessions and their papers stay, answers are   *)
(* replaced but not withdrawn, the queue grows.                            *)
(***************************************************************************)
Grows ==
  /\ ask' = ask
  /\ \A s \in Sessions : status[s] # "none" => status'[s] # "none" /\ paper'[s] = paper[s]
  /\ \A s \in Sessions, q \in Questions : answers[s][q] # "unanswered" => answers'[s][q] # "unanswered"
  /\ queued \subseteq queued'
  /\ \A r \in Requests : pc[r] \in {"mistake", "ended"} => pc'[r] \in {"mistake", "ended"}

LEMMA SentGrows ==
  ASSUME IInv, Types', Grows, NEW s \in Sessions
  PROVE  /\ Sent(s) \subseteq Sent(s)'
         /\ IsFiniteSet(Sent(s)') /\ Cardinality(Sent(s)) <= Cardinality(Sent(s)')
         /\ Cardinality(Sent(s)) \in Nat /\ Cardinality(Sent(s)') \in Nat
<1>1. Sent(s) \subseteq Sent(s)'
  <2>1. CASE status[s] = "none"
    BY <2>1 DEF IInv, SoundSession, Sent
  <2>2. CASE status[s] # "none"
    BY <2>2 DEF Grows, Sent
  <2> QED
    BY <2>1, <2>2
<1>2. Sent(s)' \subseteq Questions
  BY DEF Sent, Types
<1>3. IsFiniteSet(Sent(s)')
  BY <1>2, PracticeAssumption, FS_Subset
<1> QED
  BY <1>1, <1>3, FS_Subset, FS_CardinalityType

(* What was answered was sent. *)
LEMMA AnsweredSent ==
  ASSUME IInv, NEW s \in Sessions
  PROVE  AnsweredOn(s) \subseteq Sent(s)
BY DEF IInv, SoundSession

(* A request that does not move is as sound as before. *)
LEMMA Bystander ==
  ASSUME IInv, Types', Grows, NEW r \in Requests,
         pc'[r] = pc[r], reply'[r] = reply[r], known'[r] = known[r], tally'[r] = tally[r]
  PROVE  SoundRequest(r)'
<1> DEFINE s == ask[r].session
<1>1. s \in Sessions /\ ask'[r] = ask[r] /\ SoundRequest(r) /\ SoundSession(s)
  BY AskType DEF IInv, Grows
<1>2. IsFiniteSet(paper'[s]) /\ Cardinality(paper'[s]) \in Nat
  BY <1>1, PracticeAssumption, FS_Subset, FS_CardinalityType DEF Types
<1>3. tally[r].answered \in Nat /\ tally[r].correct \in Nat
  BY DEF IInv, Types, Counts
<1>4. Placed(r)'
  <2>1. CASE status[s] = "none"
    <3>1. tally[r].answered <= 0
      BY <1>1, <2>1, FS_EmptySet DEF SoundSession, SoundRequest, Placed
    <3> QED
      BY <1>1, <1>2, <1>3, <2>1, <3>1 DEF SoundRequest, Placed, Before, Counting
  <2>2. CASE status[s] # "none"
    BY <1>1, <2>2 DEF SoundRequest, Placed, Grows
  <2> QED
    BY <2>1, <2>2
<1>5. SavedFirst(r)'
  <2>1. CASE status[s] = "none"
    BY <1>1, <2>1 DEF SoundRequest, Placed, SavedFirst, Before
  <2>2. CASE status[s] # "none"
    BY <1>1, <2>2, AskType DEF SoundRequest, SavedFirst, Grows, AnsweredOn, IInv, Types
  <2> QED
    BY <2>1, <2>2
<1>6. Counted(r)'
  <2>1. CASE status[s] = "none"
    BY <1>1, <2>1 DEF SoundRequest, Placed, Counted, Before, Counting
  <2>2. CASE status[s] # "none"
    <3>1. paper'[s] = paper[s]
      BY <1>1, <2>2 DEF Grows
    <3> QED
      BY <1>1, <1>3, <3>1, SentGrows DEF SoundRequest, Counted
  <2> QED
    BY <2>1, <2>2
<1>7. Queued(r)'
  BY <1>1 DEF SoundRequest, Queued, Grows
<1> QED
  BY <1>4, <1>5, <1>6, <1>7 DEF SoundRequest

(***************************************************************************)
(* Types are kept.                                                         *)
(***************************************************************************)

(* A step of request r that leaves the sessions and the stats alone.       *)
LEMMA CreditOfType ==
  ASSUME IInv, NEW r \in Requests
  PROVE  CreditOf(r) \in Credit
<1>1. tally[r] \in Counts /\ tally[r].correct <= tally[r].answered
  BY DEF IInv, Types, SoundRequest, Placed
<1> QED
  BY <1>1, CreditType DEF CreditOf, Counts

LEMMA ServeTypes ==
  ASSUME IInv, NEW r \in Requests, Serve(r)
  PROVE  Types'
<1> USE DEF IInv
<1>1. ask[r].session \in Sessions
  BY AskType
<1>2. CASE NotFound(r) \/ GradeAnswer(r) \/ AdmitCompletion(r)
  BY <1>2 DEF NotFound, GradeAnswer, AdmitCompletion, EndWith, Types, sessions, ledger, locals
<1>3. CASE SaveAnswer(r)
  <2>1. pc' = [pc EXCEPT ![r] = "mistake"] /\ answers' \in [Sessions -> [Questions -> Choices \cup {"unanswered"}]]
    <3>1. ask[r].op = "answer" /\ ask[r].choice \in Choices /\ ask[r].question \in Questions
      BY <1>3, AskType DEF SaveAnswer, SoundRequest, Placed
    <3>2. answers \in [Sessions -> [Questions -> Choices \cup {"unanswered"}]]
      BY DEF Types
    <3>3. [answers EXCEPT ![ask[r].session][ask[r].question] = ask[r].choice]
            \in [Sessions -> [Questions -> Choices \cup {"unanswered"}]]
      BY <1>1, <3>1, <3>2
    <3> QED
      BY <1>3, <3>2, <3>3 DEF SaveAnswer
  <2> QED
    BY <1>3, <2>1 DEF SaveAnswer, Types, ledger, locals
<1>4. CASE UpsertMistake(r)
  <2>1. ask[r].op = "answer" /\ ask[r].question \in Questions
    BY <1>4, AskType DEF UpsertMistake, SoundRequest, Placed
  <2>2. queued' \in SUBSET Questions
    BY <1>4, <2>1 DEF UpsertMistake, Requeue, Types
  <2> QED
    BY <1>4, <2>2 DEF UpsertMistake, EndWith, Types, sessions, ledger, locals
<1>5. CASE RepeatCompletion(r)
  BY <1>1, <1>5 DEF RepeatCompletion, EndWith, Types, sessions, ledger
<1>6. CASE GetSessionTally(r)
  <2>1. Tally(ask[r].session) \in Counts
    BY <1>1, TallyCounts DEF Types
  <2>2. /\ tally' \in [Requests -> Counts]
        /\ UNCHANGED <<sessions, queued, ledger, day, ask, known, now, row>>
    BY <1>6, <2>1 DEF GetSessionTally, Types
  <2>3. /\ \/ pc' = [pc EXCEPT ![r] = "stats"] \/ pc' = [pc EXCEPT ![r] = "ended"]
        /\ reply' = reply \/ reply' = [reply EXCEPT ![r] = "ERROR"]
    BY <1>6 DEF GetSessionTally, EndWith
  <2> QED
    BY <2>2, <2>3 DEF Types, sessions, ledger
<1>7. CASE GetUserStats(r)
  <2>1. /\ row' \in [Requests -> StoredRow]
        /\ UNCHANGED <<sessions, queued, ledger, day, ask, known, tally, now, reply>>
    BY <1>7, FreshRowType DEF GetUserStats, Types, ledger
  <2>2. pc' = [pc EXCEPT ![r] = "clock"] \/ pc' = [pc EXCEPT ![r] = "credit"]
    BY <1>7 DEF GetUserStats
  <2> QED
    BY <2>1, <2>2 DEF Types, sessions, ledger
<1>8. CASE TakeNow(r)
  BY <1>8 DEF TakeNow, Types, sessions
<1>9. CASE UpdateUserStats(r)
  <2>1. Credited(row[r], CreditOf(r), now[r], day) \in StoredRow
    BY CreditOfType, CreditedType DEF Types
  <2>2. [c \in DOMAIN earned |-> earned[c] + CreditOf(r)[c]] \in Sums
    BY CreditOfType, SumType DEF Types
  <2>3. stats' \in StoredRow /\ earned' \in Sums /\ paid' \in [Sessions -> Nat]
    <3>1. stats \in StoredRow /\ earned \in Sums /\ paid \in [Sessions -> Nat]
      BY DEF Types
    <3>2. [paid EXCEPT ![ask[r].session] = @ + 1] \in [Sessions -> Nat]
      BY <1>1, <3>1
    <3> QED
      BY <1>9, <2>1, <2>2, <3>1, <3>2 DEF UpdateUserStats
  <2> QED
    BY <1>9, <2>3 DEF UpdateUserStats, Types, sessions, locals
<1>10. CASE CompleteSession(r)
  <2>1. /\ status' = status \/ status' = [status EXCEPT ![ask[r].session] = "completed"]
        /\ stored' = stored \/ stored' = [stored EXCEPT ![ask[r].session] = tally[r]]
    BY <1>10 DEF CompleteSession, FinalCounts
  <2>2. /\ pc' = [pc EXCEPT ![r] = "settled"] /\ reply' = [reply EXCEPT ![r] = "completed"]
        /\ UNCHANGED <<paper, answers, queued, ledger, day, ask, known, locals>>
    BY <1>10 DEF CompleteSession
  <2>3. stored' \in [Sessions -> Counts] /\ status' \in [Sessions -> {"none", "in_progress", "completed"}]
    <3>1. /\ tally[r] \in Counts /\ stored \in [Sessions -> Counts]
          /\ status \in [Sessions -> {"none", "in_progress", "completed"}]
      BY DEF Types
    <3>2. stored' \in [Sessions -> Counts]
      BY <2>1, <3>1
    <3>3. status' \in [Sessions -> {"none", "in_progress", "completed"}]
      BY <2>1, <3>1
    <3> QED
      BY <3>2, <3>3
  <2> QED
    BY <2>2, <2>3 DEF Types, ledger, locals
<1> QED
  BY <1>2, <1>3, <1>4, <1>5, <1>6, <1>7, <1>8, <1>9, <1>10 DEF Serve

LEMMA StepTypes ==
  ASSUME IInv, [Next]_vars
  PROVE  Types'
<1> USE DEF IInv
<1>1. CASE UNCHANGED vars
  BY <1>1 DEF vars, sessions, ledger, locals, Types
<1>2. ASSUME NEW s \in Sessions, CreateSession(s)
      PROVE  Types'
  BY <1>2 DEF CreateSession, Types, ledger, locals
<1>3. CASE NextDay
  <2>1. day' \in Days
    BY <1>3, PracticeAssumption DEF NextDay, Days, Types
  <2> QED
    BY <1>3, <2>1 DEF NextDay, Types, sessions, ledger, locals
<1>4. ASSUME NEW r \in Requests, Arrive(r)
      PROVE  Types'
  <2>1. ask[r].session \in Sessions
    BY AskType
  <2>2. [status |-> status[ask[r].session], acked |-> Acknowledged(ask[r].session)]
          \in [status: {"none", "in_progress", "completed"}, acked: SUBSET Questions]
    BY <2>1 DEF Acknowledged, Types
  <2> QED
    BY <1>4, <2>2 DEF Arrive, Types, sessions, ledger, locals
<1>5. ASSUME NEW r \in Requests, Crash(r)
      PROVE  Types'
  BY <1>5 DEF Crash, Types, sessions, ledger, locals
<1> QED
  BY <1>1, <1>2, <1>3, <1>4, <1>5, ServeTypes DEF Next

(***************************************************************************)
(* The invariant is kept, action by action.                                *)
(***************************************************************************)

(* A session whose row and answers a step leaves alone stays sound.        *)
LEMMA SessionKept ==
  ASSUME IInv, Types', Grows, NEW s \in Sessions,
         status'[s] = status[s], paper'[s] = paper[s], answers'[s] = answers[s],
         stored'[s] = stored[s],
         \A r \in Requests : pc[r] = "settled" => pc'[r] = "settled" /\ tally'[r] = tally[r]
  PROVE  SoundSession(s)'
<1>1. SoundSession(s)
  BY DEF IInv
<1>2. AnsweredOn(s)' \subseteq Sent(s)'
  BY <1>1, SentGrows DEF SoundSession, AnsweredOn
<1> QED
  BY <1>1, <1>2 DEF SoundSession, Grows

(* So a step of one request that writes no session need only be looked at  *)
(* for that request.                                                       *)
LEMMA OneMoves ==
  ASSUME IInv, Types', Grows, UNCHANGED sessions, NEW r \in Requests, pc[r] # "settled",
         \A o \in Requests \ {r} : /\ pc'[o] = pc[o] /\ reply'[o] = reply[o]
                                   /\ known'[o] = known[o] /\ tally'[o] = tally[o],
         SoundRequest(r)'
  PROVE  IInv'
<1>1. ASSUME NEW s \in Sessions
      PROVE  SoundSession(s)'
  <2>1. \A o \in Requests : pc[o] = "settled" => pc'[o] = "settled" /\ tally'[o] = tally[o]
    OBVIOUS
  <2> QED
    BY <2>1, SessionKept DEF sessions
<1>2. ASSUME NEW o \in Requests
      PROVE  SoundRequest(o)'
  BY Bystander
<1> QED
  BY <1>1, <1>2 DEF IInv

LEMMA CreateStep ==
  ASSUME IInv, NEW s \in Sessions, CreateSession(s), Types'
  PROVE  IInv'
<1>1. /\ status[s] = "none" /\ status' = [status EXCEPT ![s] = "in_progress"]
      /\ UNCHANGED <<answers, stored, queued, pc, ask, known, tally, reply>>
  BY DEF CreateSession, locals
<1>2. \A t \in Sessions \ {s} : status'[t] = status[t] /\ paper'[t] = paper[t]
  BY <1>1 DEF CreateSession, IInv, Types
<1>3. status'[s] = "in_progress"
  BY <1>1 DEF IInv, Types
<1>4. Grows
  BY <1>1, <1>2, <1>3 DEF Grows
<1>5. \A r \in Requests : SoundRequest(r)'
  BY <1>1, <1>4, Bystander
<1>6. SoundSession(s)'
  <2>1. AnsweredOn(s)' = {}
    BY <1>1 DEF IInv, SoundSession, AnsweredOn, Blank, Types
  <2> QED
    BY <1>1, <1>3, <2>1 DEF IInv, SoundSession
<1>7. ASSUME NEW t \in Sessions \ {s}
      PROVE  SoundSession(t)'
  BY <1>1, <1>2, <1>4, SessionKept
<1> QED
  BY <1>5, <1>6, <1>7 DEF IInv

LEMMA ArriveStep ==
  ASSUME IInv, NEW r \in Requests, Arrive(r), Types'
  PROVE  IInv'
<1> DEFINE s == ask[r].session
<1>1. /\ pc[r] = "idle" /\ pc' = [pc EXCEPT ![r] = "arrived"]
      /\ known' = [known EXCEPT ![r] = [status |-> status[s], acked |-> Acknowledged(s)]]
      /\ UNCHANGED sessions /\ UNCHANGED <<queued, ask, tally, reply>>
  BY DEF Arrive, locals
<1>2. pc'[r] = "arrived" /\ known'[r].acked = Acknowledged(s)
  BY <1>1 DEF IInv, Types
<1>3. \A o \in Requests \ {r} : pc'[o] = pc[o] /\ known'[o] = known[o]
  BY <1>1 DEF IInv, Types
<1>4. Grows
  BY <1>1, <1>2, <1>3 DEF Grows, sessions
<1>5. Placed(r)'
  <2>1. status[s] = "none" => Acknowledged(s) = {}
    BY DEF Acknowledged, IInv, SoundRequest, Placed
  <2> QED
    BY <1>1, <1>2, <2>1 DEF IInv, SoundRequest, Placed, Before, Counting, sessions
<1>6. SavedFirst(r)'
  <2>1. "save" \notin Faults => Acknowledged(s) \cap paper[s] \subseteq AnsweredOn(s)
    BY DEF Acknowledged, IInv, SoundRequest, SavedFirst, AnsweredOn
  <2>2. AnsweredOn(s)' = AnsweredOn(s)
    BY <1>1 DEF AnsweredOn, sessions
  <2> QED
    BY <1>1, <1>2, <2>1, <2>2 DEF IInv, SoundRequest, Placed, SavedFirst, sessions
<1>7. Counted(r)' /\ Queued(r)'
  BY <1>1, <1>2 DEF IInv, SoundRequest, Counted, Queued, Counting
<1> QED
  BY <1>1, <1>3, <1>4, <1>5, <1>6, <1>7, OneMoves DEF SoundRequest

(* A request that ends, or is admitted, without having saved or counted.   *)
LEMMA MoveStep ==
  ASSUME IInv, NEW r \in Requests, Types', UNCHANGED sessions, UNCHANGED <<queued, ask, known>>,
         NEW to \in {"save", "tally", "ended"}, pc' = [pc EXCEPT ![r] = to],
         \/ pc[r] \in {"arrived", "tally"}
         \/ pc[r] \in {"save", "mistake"} /\ to = "ended",
         to = "save" => ask[r].op = "answer",
         to = "tally" => ask[r].op = "complete",
         to # "ended" => status[ask[r].session] # "none",
         reply' = reply \/ \E word \in {"NOT_FOUND", "ERROR", "LOST"} : reply' = [reply EXCEPT ![r] = word],
         UNCHANGED tally
  PROVE  IInv'
<1>1. pc'[r] = to /\ (reply'[r] = reply[r] \/ reply'[r] \in {"NOT_FOUND", "ERROR", "LOST"})
  BY DEF IInv, Types
<1>2. \A o \in Requests \ {r} : pc'[o] = pc[o] /\ reply'[o] = reply[o]
  BY DEF IInv, Types
<1>3. Grows
  BY <1>1, <1>2 DEF Grows, sessions
<1>4. SoundRequest(r)
  BY DEF IInv
<1>5. Placed(r)' /\ Queued(r)'
  BY <1>1, <1>4 DEF SoundRequest, Placed, Queued, Before, Counting, sessions
<1>6. SavedFirst(r)' /\ Counted(r)'
  BY <1>1, <1>4 DEF SoundRequest, Placed, SavedFirst, Counted, AnsweredOn, Counting, sessions
<1> QED
  BY <1>2, <1>3, <1>5, <1>6, OneMoves DEF SoundRequest

(* An answer is written, or not: the question is not in the session, or    *)
(* the write failed.                                                       *)
LEMMA SaveStep ==
  ASSUME IInv, NEW r \in Requests, SaveAnswer(r), Types'
  PROVE  IInv'
<1> DEFINE s == ask[r].session
           q == ask[r].question
<1>1. /\ pc[r] = "save" /\ pc' = [pc EXCEPT ![r] = "mistake"]
      /\ UNCHANGED <<status, paper, stored, queued, ask, known, tally, reply>>
  BY DEF SaveAnswer, locals
<1>2. /\ ask[r].op = "answer" /\ s \in Sessions /\ q \in Questions /\ ask[r].choice \in Choices
      /\ status[s] # "none"
  BY <1>1, AskType DEF IInv, SoundRequest, Placed, Before
<1>3. pc'[r] = "mistake" /\ \A o \in Requests \ {r} : pc'[o] = pc[o]
  BY <1>1 DEF IInv, Types
<1>4. \/ q \in paper[s] /\ answers' = [answers EXCEPT ![s][q] = ask[r].choice]
      \/ q \notin paper[s] /\ UNCHANGED answers
      \/ "save" \in Faults /\ UNCHANGED answers
  BY DEF SaveAnswer
<1>5. answers \in [Sessions -> [Questions -> Choices \cup {"unanswered"}]]
  BY DEF IInv, Types
<1>6. \A t \in Sessions, p \in Questions :
        \/ answers'[t][p] = answers[t][p]
        \/ t = s /\ p = q /\ q \in paper[s] /\ answers'[t][p] # "unanswered"
  <2>1. CASE UNCHANGED answers
    BY <2>1
  <2>2. CASE q \in paper[s] /\ answers' = [answers EXCEPT ![s][q] = ask[r].choice]
    BY <1>2, <1>5, <2>2 DEF Choices
  <2> QED
    BY <1>4, <2>1, <2>2
<1>7. Grows
  BY <1>1, <1>3, <1>6 DEF Grows
<1>8. ASSUME NEW t \in Sessions
      PROVE  SoundSession(t)'
  <2>1. SoundSession(t) /\ paper[t] \in SUBSET Questions
    BY DEF IInv, Types
  <2>2. AnsweredOn(t)' \subseteq Sent(t)'
    <3>1. ASSUME NEW p \in paper[t], answers'[t][p] # "unanswered", answers'[t][p] = answers[t][p]
          PROVE  p \in Sent(t)'
      BY <1>7, <2>1, <3>1, SentGrows DEF SoundSession, AnsweredOn
    <3>2. t = s /\ q \in paper[s] => q \in Sent(t)'
      BY <1>1, <1>2, <1>3 DEF Sent
    <3> QED
      BY <1>1, <1>6, <2>1, <3>1, <3>2 DEF AnsweredOn
  <2>3. status[t] = "none" => answers'[t] = Blank
    <3>1. status[t] = "none" => t # s
      BY <1>2
    <3>2. t # s => answers'[t] = answers[t]
      BY <1>4, <1>5
    <3> QED
      BY <2>1, <3>1, <3>2 DEF SoundSession
  <2>4. \A o \in Requests : pc[o] = "settled" => pc'[o] = "settled"
    BY <1>1, <1>3
  <2> QED
    BY <1>1, <2>1, <2>2, <2>3, <2>4 DEF SoundSession, Blank
<1>9. SoundRequest(r)'
  <2>1. SoundRequest(r)
    BY DEF IInv
  <2>2. Placed(r)' /\ Counted(r)' /\ Queued(r)'
    BY <1>1, <1>2, <1>3, <2>1 DEF SoundRequest, Placed, Counted, Queued, Before, Counting
  <2>3. "save" \notin Faults => (q \in paper[s] => answers'[s][q] # "unanswered")
    BY <1>2, <1>4, <1>5 DEF Choices
  <2>4. AnsweredOn(s) \subseteq AnsweredOn(s)'
    BY <1>1, <1>2, <1>7 DEF AnsweredOn, Grows, IInv, Types
  <2>5. SavedFirst(r)'
    BY <1>1, <1>2, <2>1, <2>3, <2>4 DEF SoundRequest, SavedFirst
  <2> QED
    BY <2>2, <2>5 DEF SoundRequest
<1>10. ASSUME NEW o \in Requests \ {r}
       PROVE  SoundRequest(o)'
  BY <1>1, <1>3, <1>7, Bystander
<1> QED
  BY <1>8, <1>9, <1>10 DEF IInv

(* The answer is acknowledged, and queued if it is wrong.                  *)
LEMMA MistakeStep ==
  ASSUME IInv, NEW r \in Requests, UpsertMistake(r), Types'
  PROVE  IInv'
<1>1. /\ pc[r] = "mistake" /\ pc' = [pc EXCEPT ![r] = "ended"]
      /\ reply' = [reply EXCEPT ![r] = "OK"]
      /\ UNCHANGED sessions /\ UNCHANGED <<ask, known, tally>>
  BY DEF UpsertMistake, EndWith, locals
<1>2. pc'[r] = "ended" /\ reply'[r] = "OK"
  BY <1>1 DEF IInv, Types
<1>3. \A o \in Requests \ {r} : pc'[o] = pc[o] /\ reply'[o] = reply[o]
  BY <1>1 DEF IInv, Types
<1>4. /\ queued \subseteq queued'
      /\ "mistake" \notin Faults /\ ask[r].choice = "wrong" => ask[r].question \in queued'
  BY DEF UpsertMistake, Requeue
<1>5. Grows
  BY <1>1, <1>2, <1>3, <1>4 DEF Grows, sessions
<1>6. SoundRequest(r) /\ ask[r].op = "answer" /\ status[ask[r].session] # "none"
  BY <1>1 DEF IInv, SoundRequest, Placed, Before
<1>7. Placed(r)' /\ Counted(r)' /\ Queued(r)'
  BY <1>1, <1>2, <1>4, <1>6 DEF SoundRequest, Placed, Counted, Queued, Counting, Before, sessions
<1>8. SavedFirst(r)'
  BY <1>1, <1>2, <1>6 DEF SoundRequest, SavedFirst, AnsweredOn, sessions
<1> QED
  BY <1>1, <1>3, <1>5, <1>7, <1>8, OneMoves DEF SoundRequest

(* A completed session's counts are read back: some completion's tally.    *)
LEMMA RepeatStep ==
  ASSUME IInv, NEW r \in Requests, RepeatCompletion(r), Types'
  PROVE  IInv'
<1> DEFINE s == ask[r].session
<1>1. /\ pc[r] = "arrived" /\ pc' = [pc EXCEPT ![r] = "ended"] /\ status[s] = "completed"
      /\ reply' = [reply EXCEPT ![r] = "completed"] /\ tally' = [tally EXCEPT ![r] = stored[s]]
      /\ UNCHANGED sessions /\ UNCHANGED <<queued, ask, known>>
  BY DEF RepeatCompletion, EndWith
<1>2. pc'[r] = "ended" /\ reply'[r] = "completed" /\ tally'[r] = stored[s]
  BY <1>1 DEF IInv, Types
<1>3. \A o \in Requests \ {r} : pc'[o] = pc[o] /\ reply'[o] = reply[o] /\ tally'[o] = tally[o]
  BY <1>1 DEF IInv, Types
<1>4. Grows
  BY <1>1, <1>2, <1>3 DEF Grows, sessions
<1>5. stored[s].correct <= stored[s].answered /\ stored[s].answered <= Cardinality(paper[s])
  <2>1. s \in Sessions
    BY AskType DEF IInv
  <2>2. PICK o \in Requests : ask[o].session = s /\ tally[o] = stored[s]
    BY <1>1, <2>1 DEF IInv, SoundSession
  <2> QED
    BY <2>2 DEF IInv, SoundRequest, Placed
<1>6. SoundRequest(r)'
  <2>1. SoundRequest(r)
    BY DEF IInv
  <2>2. Placed(r)' /\ Counted(r)' /\ Queued(r)'
    BY <1>1, <1>2, <1>5, <2>1 DEF SoundRequest, Placed, Counted, Queued, Counting, Before, sessions
  <2>3. SavedFirst(r)'
    BY <1>1, <1>2, <2>1 DEF SoundRequest, SavedFirst, AnsweredOn, sessions
  <2> QED
    BY <2>2, <2>3 DEF SoundRequest
<1> QED
  BY <1>1, <1>3, <1>4, <1>6, OneMoves

(* The tally is of the answers saved by now: at least those acknowledged   *)
(* when the completion arrived, at most those sent.                        *)
LEMMA TallyStep ==
  ASSUME IInv, NEW r \in Requests, GetSessionTally(r), pc' = [pc EXCEPT ![r] = "stats"],
         tally' = [tally EXCEPT ![r] = Tally(ask[r].session)], UNCHANGED reply, Types'
  PROVE  IInv'
<1> DEFINE s == ask[r].session
<1>1. /\ pc[r] = "tally" /\ UNCHANGED sessions /\ UNCHANGED <<queued, ask, known, reply>>
  BY DEF GetSessionTally
<1>2. pc'[r] = "stats" /\ tally'[r] = Tally(s)
  BY DEF IInv, Types
<1>3. \A o \in Requests \ {r} : pc'[o] = pc[o] /\ tally'[o] = tally[o]
  BY DEF IInv, Types
<1>4. Grows
  BY <1>1, <1>2, <1>3 DEF Grows, sessions
<1>5. s \in Sessions /\ paper[s] \in SUBSET Questions /\ ask[r].op = "complete"
  BY <1>1, AskType DEF IInv, Types, SoundRequest, Placed
<1>6. /\ Tally(s).correct <= Tally(s).answered /\ Tally(s).answered <= Cardinality(paper[s])
      /\ Tally(s).answered = Cardinality(AnsweredOn(s))
  BY <1>5, TallyCounts
<1>7. Placed(r)' /\ Queued(r)' /\ SavedFirst(r)'
  <2>1. SoundRequest(r)
    BY DEF IInv
  <2>2. Placed(r)' /\ Queued(r)'
    BY <1>1, <1>2, <1>5, <1>6, <2>1 DEF SoundRequest, Placed, Queued, Counting, Before, sessions
  <2>3. SavedFirst(r)'
    BY <1>1, <1>2, <2>1 DEF SoundRequest, SavedFirst, AnsweredOn, sessions
  <2> QED
    BY <2>2, <2>3
<1>8. Counted(r)'
  <2>0. PICK t \in Sessions : t = s
    BY <1>5
  <2>1. IsFiniteSet(Sent(t)') /\ AnsweredOn(t) \subseteq Sent(t)'
    BY <1>4, SentGrows, AnsweredSent
  <2>2. Cardinality(AnsweredOn(s)) <= Cardinality(Sent(t)') /\ IsFiniteSet(AnsweredOn(s))
    BY <2>0, <2>1, FS_Subset
  <2>3. "save" \notin Faults => Cardinality(known[r].acked \cap paper[s]) <= Cardinality(AnsweredOn(s))
    <3>1. "save" \notin Faults => known[r].acked \cap paper[s] \in SUBSET AnsweredOn(s)
      BY DEF IInv, SoundRequest, SavedFirst
    <3> QED
      BY <2>2, <3>1, FS_Subset
  <2> QED
    BY <1>1, <1>2, <1>6, <2>0, <2>2, <2>3 DEF Counted, sessions
<1> QED
  BY <1>1, <1>3, <1>4, <1>7, <1>8, OneMoves DEF SoundRequest

(* A completion that has counted goes on, settles without completing its   *)
(* session, or dies.                                                       *)
LEMMA CreditStep ==
  ASSUME IInv, NEW r \in Requests, Types', UNCHANGED sessions, UNCHANGED <<queued, ask, known, tally>>,
         pc[r] \in Counting \ {"settled"},
         NEW to \in Counting, pc' = [pc EXCEPT ![r] = to],
         reply' = reply \/ \E word \in {"completed", "LOST"} : reply' = [reply EXCEPT ![r] = word]
  PROVE  IInv'
<1>1. pc'[r] = to /\ (reply'[r] = reply[r] \/ reply'[r] \in {"completed", "LOST"})
  BY DEF IInv, Types
<1>2. \A o \in Requests \ {r} : pc'[o] = pc[o] /\ reply'[o] = reply[o]
  BY DEF IInv, Types
<1>3. Grows
  BY <1>1, <1>2 DEF Grows, Counting, sessions
<1>4. SoundRequest(r) /\ ask[r].session \in Sessions
  BY AskType DEF IInv
<1>5. Placed(r)' /\ Queued(r)'
  BY <1>1, <1>4 DEF SoundRequest, Placed, Queued, Before, Counting, sessions
<1>6. SavedFirst(r)'
  BY <1>1, <1>4 DEF SoundRequest, Placed, SavedFirst, AnsweredOn, Counting, sessions
<1>7. Counted(r)'
  <2>1. tally[r].answered \in Nat
    BY DEF IInv, Types, Counts
  <2>2. PICK t \in Sessions : t = ask[r].session
    BY <1>4
  <2>3. /\ Cardinality(Sent(t)) <= Cardinality(Sent(t)')
        /\ Cardinality(Sent(t)) \in Nat /\ Cardinality(Sent(t)') \in Nat
    BY <1>3, SentGrows
  <2> QED
    BY <1>1, <1>4, <2>1, <2>2, <2>3 DEF SoundRequest, Counted, sessions
<1> QED
  BY <1>2, <1>3, <1>5, <1>6, <1>7, OneMoves DEF SoundRequest

(* A completion completes its session: with what it counted.               *)
LEMMA CompleteStep ==
  ASSUME IInv, NEW r \in Requests, CompleteSession(r), Types',
         status' = [status EXCEPT ![ask[r].session] = "completed"],
         stored' = [stored EXCEPT ![ask[r].session] = FinalCounts(r)]
  PROVE  IInv'
<1>0. PICK s \in Sessions : s = ask[r].session
  BY AskType DEF IInv
<1>1. /\ pc[r] = "finish" /\ pc' = [pc EXCEPT ![r] = "settled"]
      /\ reply' = [reply EXCEPT ![r] = "completed"]
      /\ UNCHANGED <<paper, answers, queued, ask, known, tally>>
  BY DEF CompleteSession, locals
<1>2. pc'[r] = "settled" /\ reply'[r] = "completed"
  BY <1>1 DEF IInv, Types
<1>3. \A o \in Requests \ {r} : pc'[o] = pc[o] /\ reply'[o] = reply[o]
  BY <1>1 DEF IInv, Types
<1>4. s \in Sessions /\ ask[r].op = "complete" /\ status[s] # "none" /\ SoundRequest(r)
  BY <1>0, <1>1, AskType DEF IInv, SoundRequest, Placed, Counting, Before
<1>5. /\ status'[s] = "completed" /\ stored'[s] = tally[r]
      /\ \A t \in Sessions \ {s} : status'[t] = status[t] /\ stored'[t] = stored[t]
  BY <1>0, <1>4 DEF IInv, Types, FinalCounts
<1>6. Grows
  BY <1>1, <1>2, <1>3, <1>5 DEF Grows
<1>7. SoundSession(s)'
  <2>1. AnsweredOn(s) \subseteq Sent(s)
    BY AnsweredSent
  <2>2. AnsweredOn(s)' = AnsweredOn(s)
    BY <1>1 DEF AnsweredOn
  <2>3. Sent(s) \subseteq Sent(s)'
    BY <1>0, <1>4, <1>6, SentGrows
  <2>4. status'[s] = "completed" /\ stored'[s] = tally'[r] /\ ask'[r] = ask[r]
    BY <1>1, <1>5
  <2> QED
    BY <1>0, <1>1, <1>2, <1>4, <2>1, <2>2, <2>3, <2>4 DEF SoundSession
<1>8. ASSUME NEW t \in Sessions \ {s}
      PROVE  SoundSession(t)'
  <2>1. \A o \in Requests : pc[o] = "settled" => pc'[o] = "settled" /\ tally'[o] = tally[o]
    BY <1>1, <1>2, <1>3
  <2> QED
    BY <1>1, <1>5, <1>6, <2>1, SessionKept
<1>9. SoundRequest(r)'
  <2>1. Placed(r)' /\ Queued(r)'
    BY <1>1, <1>2, <1>0, <1>4, <1>5 DEF SoundRequest, Placed, Queued, Before, Counting
  <2>2. SavedFirst(r)'
    BY <1>1, <1>2, <1>0, <1>4 DEF SoundRequest, SavedFirst, AnsweredOn
  <2>3. Counted(r)'
    <3>1. tally[r].answered \in Nat
      BY DEF IInv, Types, Counts
    <3>2. /\ Cardinality(Sent(s)) <= Cardinality(Sent(s)')
          /\ Cardinality(Sent(s)) \in Nat /\ Cardinality(Sent(s)') \in Nat
      BY <1>0, <1>4, <1>6, SentGrows
    <3> QED
      BY <1>1, <1>0, <1>4, <3>1, <3>2 DEF SoundRequest, Counted, Counting
  <2> QED
    BY <2>1, <2>2, <2>3 DEF SoundRequest
<1>10. ASSUME NEW o \in Requests \ {r}
       PROVE  SoundRequest(o)'
  BY <1>1, <1>3, <1>6, Bystander
<1> QED
  BY <1>7, <1>8, <1>9, <1>10 DEF IInv

(* Nothing the invariant speaks of, except types, changes.                 *)
LEMMA ClockStep ==
  ASSUME IInv, Types', UNCHANGED sessions, UNCHANGED <<queued, pc, ask, known, tally, reply>>
  PROVE  IInv'
<1>1. Grows
  BY DEF Grows, sessions
<1> QED
  BY <1>1, SessionKept, Bystander DEF IInv, sessions

LEMMA StepIInv == IInv /\ [Next]_vars => IInv'
<1> SUFFICES ASSUME IInv, [Next]_vars
             PROVE  IInv'
  OBVIOUS
<1>0. Types'
  BY StepTypes
<1>1. CASE NextDay \/ UNCHANGED vars
  BY <1>0, <1>1, ClockStep DEF NextDay, vars, locals
<1>2. ASSUME NEW s \in Sessions, CreateSession(s)
      PROVE  IInv'
  BY <1>0, <1>2, CreateStep
<1>3. ASSUME NEW r \in Requests, Arrive(r)
      PROVE  IInv'
  BY <1>0, <1>3, ArriveStep
<1>4. ASSUME NEW r \in Requests, Crash(r)
      PROVE  IInv'
  <2>1. CASE pc[r] \in {"arrived", "save", "mistake", "tally"} /\ pc' = [pc EXCEPT ![r] = "ended"]
    BY <1>0, <1>4, <2>1, MoveStep DEF Crash, locals
  <2>2. CASE pc[r] \in {"stats", "clock", "credit", "finish"} /\ pc' = [pc EXCEPT ![r] = "settled"]
    BY <1>0, <1>4, <2>2, CreditStep DEF Crash, locals, Counting
  <2> QED
    BY <1>4, <2>1, <2>2 DEF Crash
<1>5. ASSUME NEW r \in Requests, Serve(r)
      PROVE  IInv'
  <2>1. CASE NotFound(r)
    BY <1>0, <2>1, MoveStep DEF NotFound, EndWith, locals
  <2>2. CASE GradeAnswer(r) \/ AdmitCompletion(r)
    <3>1. UNCHANGED sessions /\ UNCHANGED <<queued, ask, known, tally, reply>> /\ pc[r] = "arrived"
      BY <2>2 DEF GradeAnswer, AdmitCompletion, locals
    <3>2. status[ask[r].session] # "none"
      BY <2>2 DEF GradeAnswer, AdmitCompletion, TakesCompletions
    <3>3. PICK to \in {"save", "tally"} : /\ pc' = [pc EXCEPT ![r] = to]
                                          /\ to = "save" => ask[r].op = "answer"
                                          /\ to = "tally" => ask[r].op = "complete"
      BY <2>2 DEF GradeAnswer, AdmitCompletion
    <3>4. UNCHANGED <<queued, ask, known>> /\ reply' = reply /\ tally' = tally
      BY <3>1
    <3>5. /\ to \in {"save", "tally", "ended"}
          /\ pc[r] \in {"arrived", "tally"}
          /\ to # "ended" => status[ask[r].session] # "none"
          /\ UNCHANGED sessions
      BY <3>1, <3>2
    <3> QED
      BY <1>0, <3>3, <3>4, <3>5, MoveStep
  <2>3. CASE SaveAnswer(r)
    BY <1>0, <2>3, SaveStep
  <2>4. CASE UpsertMistake(r)
    BY <1>0, <2>4, MistakeStep
  <2>5. CASE RepeatCompletion(r)
    BY <1>0, <2>5, RepeatStep
  <2>6. CASE GetSessionTally(r)
    <3>1. CASE EndWith(r, "ERROR") /\ UNCHANGED tally
      BY <1>0, <2>6, <3>1, MoveStep DEF GetSessionTally, EndWith
    <3> QED
      BY <1>0, <2>6, <3>1, TallyStep DEF GetSessionTally
  <2>7. CASE GetUserStats(r)
    BY <1>0, <2>7, CreditStep DEF GetUserStats, Counting
  <2>8. CASE TakeNow(r) \/ UpdateUserStats(r)
    BY <1>0, <2>8, CreditStep DEF TakeNow, UpdateUserStats, Counting, sessions, locals
  <2>9. CASE CompleteSession(r)
    <3>1. CASE UNCHANGED <<status, stored>>
      BY <1>0, <2>9, <3>1, CreditStep DEF CompleteSession, Counting, sessions, locals
    <3> QED
      BY <1>0, <2>9, <3>1, CompleteStep DEF CompleteSession
  <2> QED
    BY <1>5, <2>1, <2>2, <2>3, <2>4, <2>5, <2>6, <2>7, <2>8, <2>9 DEF Serve
<1> QED
  BY <1>1, <1>2, <1>3, <1>4, <1>5 DEF Next

THEOREM Invariance == Spec => []IInv
BY InitIInv, StepIInv, PTL DEF Spec

-----------------------------------------------------------------------------
(***************************************************************************)
(* What holds under every interleaving and fault.                          *)
(***************************************************************************)

(* Every variable keeps its type; no tally exceeds the paper, and no more  *)
(* answers are right than were given.                                      *)
THEOREM TypeCorrect == Spec => []TypeOK
<1>1. IInv => TypeOK
  BY DEF IInv, Types, TypeOK, SoundRequest, Placed, Sums
<1> QED
  BY <1>1, Invariance, PTL

(* A completion counts every answer acknowledged before it arrived and     *)
(* nothing that was not sent, although answers keep arriving while it runs.*)
THEOREM TalliesAreOfAnswers == Spec => []TallyIsWhatWasAnswered
<1>1. IInv => TallyIsWhatWasAnswered
  BY DEF IInv, SoundRequest, Counted, Counting, TallyIsWhatWasAnswered
<1> QED
  BY <1>1, Invariance, PTL

(* A completed session stores what one completion counted.                 *)
THEOREM StoredCountsAreTallies == Spec => []StoredCountsWereTallied
<1>1. IInv => StoredCountsWereTallied
  BY DEF IInv, SoundSession, StoredCountsWereTallied
<1> QED
  BY <1>1, Invariance, PTL

(* Both together, as the runs check them.                                  *)
THEOREM CompletionsCountAnswers == Spec => []CountsAreOfAnswers
BY TalliesAreOfAnswers, StoredCountsAreTallies, PTL DEF CountsAreOfAnswers

(* No race of answers takes an acknowledged mistake off the review queue.  *)
THEOREM MistakesAreNotForgotten == Spec => []MistakesStayQueued
<1>1. IInv => MistakesStayQueued
  BY DEF IInv, SoundRequest, Queued, MistakesStayQueued
<1> QED
  BY <1>1, Invariance, PTL

-----------------------------------------------------------------------------
(***************************************************************************)
(* What holds as long as completions of a session have not overlapped or   *)
(* broken off.  While one is under way its session is in progress, so      *)
(* nobody else can have paid for it, or told its counts.                   *)
(***************************************************************************)
Busy(r) == pc[r] \in {"tally", "stats", "clock", "credit", "finish"}

Alone ==
  \A r, o \in Requests : Busy(r) /\ Busy(o) /\ ask[r].session = ask[o].session => r = o

NoneBrokenOff ==
  \A r \in Requests : pc[r] = "settled" => status[ask[r].session] = "completed"

OpenWhileBusy == \A r \in Requests : Busy(r) => status[ask[r].session] = "in_progress"

PaidWhenFinished ==
  \A s \in Sessions :
    /\ paid[s] <= 1
    /\ paid[s] # 0 => \/ status[s] = "completed"
                      \/ \E r \in Requests : pc[r] = "finish" /\ ask[r].session = s

ToldWhatIsStored ==
  \A r \in Requests : reply[r] = "completed" =>
    status[ask[r].session] = "completed" /\ tally[r] = stored[ask[r].session]

(* A request that completed its session and told so.                       *)
CompletedIt(r) == pc[r] = "settled" /\ reply[r] = "completed"

CompletedByOne ==
  \A r, o \in Requests :
    CompletedIt(r) /\ CompletedIt(o) /\ ask[r].session = ask[o].session => r = o

OrderlyInv ==
  orderly => /\ Alone /\ NoneBrokenOff /\ OpenWhileBusy /\ PaidWhenFinished
             /\ ToldWhatIsStored /\ CompletedByOne

(* A set of at most one element has no two.                                *)
LEMMA AtMostOne ==
  ASSUME NEW S, IsFiniteSet(S), Cardinality(S) <= 1, NEW x \in S, NEW y \in S
  PROVE  x = y
<1>1. IsFiniteSet({x, y}) /\ Cardinality({x, y}) <= Cardinality(S)
  BY FS_Subset
<1>2. x # y => Cardinality({x, y}) = 2
  <2>1. {x, y} = {x} \cup {y}
    OBVIOUS
  <2>2. x # y => Cardinality({x} \cup {y}) = Cardinality({x}) + 1
    BY FS_Singleton, FS_AddElement
  <2> QED
    BY <2>1, <2>2, FS_Singleton
<1>3. Cardinality(S) \in Nat
  BY FS_CardinalityType
<1> QED
  BY <1>1, <1>2, <1>3

LEMMA OrderlyMeans ==
  ASSUME IInv', Orderly'
  PROVE  Alone' /\ NoneBrokenOff'
<1>1. NoneBrokenOff'
  BY DEF Orderly, NoneBrokenOff, IInv, Types, Answers, Completes
<1>2. ASSUME NEW r \in Requests, NEW o \in Requests, Busy(r)', Busy(o)', ask'[r].session = ask'[o].session
      PROVE  r = o
  <2>1. PICK s \in Sessions : s = ask'[r].session
    BY DEF IInv, Types, Answers, Completes
  <2> DEFINE S == {x \in Running' : ask'[x].session = s}
  <2>2. r \in S /\ o \in S
    BY <1>2, <2>1 DEF Running, Busy, IInv, SoundRequest, Placed, Counting
  <2>3. S \in SUBSET Requests /\ IsFiniteSet(S)
    BY PracticeAssumption, FS_Subset DEF Running
  <2>4. Cardinality(S) <= 1
    BY DEF Orderly
  <2> HIDE DEF S
  <2> QED
    BY <2>2, <2>3, <2>4, AtMostOne
<1> QED
  BY <1>1, <1>2 DEF Alone

(* A step that completes no session, pays for none and breaks no           *)
(* completion off keeps what orderly completions rely on.                  *)
LEMMA QuietStep ==
  ASSUME IInv, Types', OpenWhileBusy, PaidWhenFinished, ToldWhatIsStored, CompletedByOne,
         UNCHANGED <<ask, stored, paid>>,
         \A s \in Sessions : status[s] # "none" => status'[s] = status[s],
         \A r \in Requests :
           /\ Busy(r)' => Busy(r) \/ status[ask[r].session] = "in_progress"
           /\ pc[r] = "finish" => pc'[r] = "finish"
           /\ CompletedIt(r)' => CompletedIt(r)
           /\ reply'[r] = "completed" =>
                \/ reply[r] = "completed" /\ tally'[r] = tally[r]
                \/ status[ask[r].session] = "completed" /\ tally'[r] = stored[ask[r].session]
  PROVE  OpenWhileBusy' /\ PaidWhenFinished' /\ ToldWhatIsStored' /\ CompletedByOne'
<1>1. \A r \in Requests : ask[r].session \in Sessions
  BY AskType DEF IInv
<1>2. OpenWhileBusy'
  BY <1>1 DEF OpenWhileBusy
<1>3. PaidWhenFinished'
  BY DEF PaidWhenFinished
<1>4. ToldWhatIsStored'
  BY <1>1 DEF ToldWhatIsStored
<1>5. CompletedByOne'
  BY DEF CompletedByOne
<1> QED
  BY <1>2, <1>3, <1>4, <1>5

(* A session is paid for while one completion of it is under way, and its  *)
(* session is still open: for the first time.                              *)
LEMMA PayStep ==
  ASSUME IInv, Types', Alone, OpenWhileBusy, PaidWhenFinished, ToldWhatIsStored, CompletedByOne,
         NEW r \in Requests, UpdateUserStats(r)
  PROVE  OpenWhileBusy' /\ PaidWhenFinished' /\ ToldWhatIsStored' /\ CompletedByOne'
<1>0. PICK s \in Sessions : s = ask[r].session
  BY AskType DEF IInv
<1>1. /\ pc[r] = "credit" /\ pc' = [pc EXCEPT ![r] = "finish"]
      /\ UNCHANGED <<status, stored, ask, tally, reply>>
  BY DEF UpdateUserStats, sessions, locals
<1>2. pc'[r] = "finish" /\ \A o \in Requests \ {r} : pc'[o] = pc[o]
  BY <1>1 DEF IInv, Types
<1>3. status[s] = "in_progress"
  BY <1>0, <1>1 DEF OpenWhileBusy, Busy
<1>4. paid[s] = 0
  <2>1. \A o \in Requests : pc[o] = "finish" => ask[o].session # s
    BY <1>0, <1>1 DEF Alone, Busy
  <2> QED
    BY <1>3, <2>1 DEF PaidWhenFinished
<1>5. \A t \in Sessions : paid'[t] = paid[t] \/ (t = s /\ paid'[t] = 1)
  <2>1. paid' = paid \/ paid' = [paid EXCEPT ![s] = @ + 1]
    BY <1>0 DEF UpdateUserStats
  <2>2. paid \in [Sessions -> Nat]
    BY DEF IInv, Types
  <2>3. [paid EXCEPT ![s] = @ + 1] = [paid EXCEPT ![s] = 1]
    BY <1>4
  <2> QED
    BY <2>1, <2>2, <2>3
<1>6. OpenWhileBusy'
  BY <1>0, <1>1, <1>2, <1>3 DEF OpenWhileBusy, Busy
<1>7. PaidWhenFinished'
  BY <1>0, <1>1, <1>2, <1>5 DEF PaidWhenFinished
<1>8. ToldWhatIsStored'
  BY <1>1 DEF ToldWhatIsStored
<1>9. CompletedByOne'
  BY <1>1, <1>2 DEF CompletedByOne, CompletedIt
<1> QED
  BY <1>6, <1>7, <1>8, <1>9

(* A session is completed by the only completion under way, before which   *)
(* nobody was told anything.                                               *)
LEMMA FinishStep ==
  ASSUME IInv, Types', Alone, OpenWhileBusy, PaidWhenFinished, ToldWhatIsStored, CompletedByOne,
         NoneBrokenOff', NEW r \in Requests, CompleteSession(r)
  PROVE  OpenWhileBusy' /\ PaidWhenFinished' /\ ToldWhatIsStored' /\ CompletedByOne'
<1>0. PICK s \in Sessions : s = ask[r].session
  BY AskType DEF IInv
<1>1. /\ pc[r] = "finish" /\ pc' = [pc EXCEPT ![r] = "settled"]
      /\ reply' = [reply EXCEPT ![r] = "completed"] /\ UNCHANGED <<ask, tally, paid>>
  BY DEF CompleteSession, locals, ledger
<1>2. /\ pc'[r] = "settled" /\ reply'[r] = "completed"
      /\ \A o \in Requests \ {r} : pc'[o] = pc[o] /\ reply'[o] = reply[o]
  BY <1>1 DEF IInv, Types
<1>3. status[s] = "in_progress"
  BY <1>0, <1>1 DEF OpenWhileBusy, Busy
<1>4. status' = [status EXCEPT ![s] = "completed"] /\ stored' = [stored EXCEPT ![s] = tally[r]]
  <2>1. status'[s] = "completed"
    BY <1>0, <1>1, <1>2 DEF NoneBrokenOff
  <2> QED
    BY <1>0, <1>3, <2>1 DEF CompleteSession, FinalCounts
<1>5. /\ status'[s] = "completed" /\ stored'[s] = tally[r]
      /\ \A t \in Sessions \ {s} : status'[t] = status[t] /\ stored'[t] = stored[t]
  BY <1>4 DEF IInv, Types
<1>6. \A o \in Requests : ask[o].session \in Sessions
  BY AskType DEF IInv
<1>7. OpenWhileBusy'
  <2>1. \A o \in Requests \ {r} : Busy(o) => ask[o].session # s
    BY <1>0, <1>1 DEF Alone, Busy
  <2> QED
    BY <1>1, <1>2, <1>5, <1>6, <2>1 DEF OpenWhileBusy, Busy
<1>8. PaidWhenFinished'
  BY <1>0, <1>1, <1>2, <1>5 DEF PaidWhenFinished
<1>9. ToldWhatIsStored'
  <2>1. \A o \in Requests : reply[o] = "completed" => ask[o].session # s
    BY <1>3 DEF ToldWhatIsStored
  <2> QED
    BY <1>0, <1>1, <1>2, <1>5, <1>6, <2>1 DEF ToldWhatIsStored
<1>10. CompletedByOne'
  <2>1. \A o \in Requests : CompletedIt(o) => ask[o].session # s
    BY <1>3 DEF ToldWhatIsStored, CompletedIt
  <2> QED
    BY <1>0, <1>1, <1>2, <2>1 DEF CompletedByOne, CompletedIt
<1> QED
  BY <1>7, <1>8, <1>9, <1>10

(* So does a step of one request that finishes nothing.                    *)
LEMMA QuietRequest ==
  ASSUME IInv, Types', OpenWhileBusy, PaidWhenFinished, ToldWhatIsStored, CompletedByOne,
         UNCHANGED <<status, ask, stored, paid>>, NEW r \in Requests, pc[r] # "finish",
         \A o \in Requests \ {r} : pc'[o] = pc[o] /\ reply'[o] = reply[o] /\ tally'[o] = tally[o],
         Busy(r)' => Busy(r) \/ status[ask[r].session] = "in_progress",
         CompletedIt(r)' => CompletedIt(r),
         reply'[r] = "completed" =>
           \/ reply[r] = "completed" /\ tally'[r] = tally[r]
           \/ status[ask[r].session] = "completed" /\ tally'[r] = stored[ask[r].session]
  PROVE  OpenWhileBusy' /\ PaidWhenFinished' /\ ToldWhatIsStored' /\ CompletedByOne'
<1>1. ASSUME NEW o \in Requests
      PROVE  /\ Busy(o)' => Busy(o) \/ status[ask[o].session] = "in_progress"
             /\ pc[o] = "finish" => pc'[o] = "finish"
             /\ CompletedIt(o)' => CompletedIt(o)
             /\ reply'[o] = "completed" =>
                  \/ reply[o] = "completed" /\ tally'[o] = tally[o]
                  \/ status[ask[o].session] = "completed" /\ tally'[o] = stored[ask[o].session]
  BY <1>1 DEF Busy, CompletedIt
<1> QED
  BY <1>1, QuietStep

LEMMA OrderlyStep ==
  ASSUME IInv, Next, Types', Alone, OpenWhileBusy, PaidWhenFinished, ToldWhatIsStored, CompletedByOne, NoneBrokenOff'
  PROVE  OpenWhileBusy' /\ PaidWhenFinished' /\ ToldWhatIsStored' /\ CompletedByOne'
<1>0. /\ pc \in [Requests -> {"idle", "arrived", "save", "mistake", "tally", "stats",
                              "clock", "credit", "finish", "ended", "settled"}]
      /\ reply \in [Requests -> {"none", "OK", "NOT_FOUND", "ERROR", "completed", "LOST"}]
      /\ tally \in [Requests -> Counts] /\ status \in [Sessions -> {"none", "in_progress", "completed"}]
  BY DEF IInv, Types
<1>1. CASE NextDay
  BY <1>1, QuietStep DEF NextDay, sessions, ledger, locals, Busy, CompletedIt
<1>2. ASSUME NEW s \in Sessions, CreateSession(s)
      PROVE  OpenWhileBusy' /\ PaidWhenFinished' /\ ToldWhatIsStored' /\ CompletedByOne'
  <2>1. \A t \in Sessions : status[t] # "none" => status'[t] = status[t]
    BY <1>0, <1>2 DEF CreateSession
  <2> QED
    BY <1>2, <2>1, QuietStep DEF CreateSession, ledger, locals, Busy, CompletedIt
<1>3. ASSUME NEW r \in Requests, Arrive(r)
      PROVE  OpenWhileBusy' /\ PaidWhenFinished' /\ ToldWhatIsStored' /\ CompletedByOne'
  <2>1. /\ pc'[r] = "arrived" /\ pc[r] = "idle" /\ \A o \in Requests \ {r} : pc'[o] = pc[o]
        /\ UNCHANGED <<status, ask, stored, paid, reply, tally>>
    BY <1>0, <1>3 DEF Arrive, sessions, ledger, locals
  <2> QED
    BY <2>1, QuietRequest DEF Busy, CompletedIt
<1>4. ASSUME NEW r \in Requests, Crash(r)
      PROVE  OpenWhileBusy' /\ PaidWhenFinished' /\ ToldWhatIsStored' /\ CompletedByOne'
  <2>1. /\ pc'[r] \in {"ended", "settled"} /\ reply'[r] = "LOST"
        /\ pc[r] = "finish" => pc'[r] = "settled"
        /\ \A o \in Requests \ {r} : pc'[o] = pc[o] /\ reply'[o] = reply[o]
        /\ UNCHANGED <<status, ask, stored, paid, tally>>
    BY <1>0, <1>4 DEF Crash, sessions, ledger, locals
  <2>2. pc[r] # "finish"
    BY <2>1 DEF OpenWhileBusy, Busy, NoneBrokenOff
  <2> QED
    BY <2>1, <2>2, QuietRequest DEF Busy, CompletedIt
<1>5. ASSUME NEW r \in Requests, Serve(r)
      PROVE  OpenWhileBusy' /\ PaidWhenFinished' /\ ToldWhatIsStored' /\ CompletedByOne'
  <2>1. CASE NotFound(r) \/ GradeAnswer(r) \/ SaveAnswer(r) \/ UpsertMistake(r)
    <3>1. /\ pc'[r] \in {"ended", "save", "mistake"} /\ pc[r] # "finish"
          /\ reply'[r] \in {reply[r], "NOT_FOUND", "OK"}
          /\ \A o \in Requests \ {r} : pc'[o] = pc[o] /\ reply'[o] = reply[o]
          /\ UNCHANGED <<status, ask, stored, paid, tally>>
      BY <1>0, <2>1 DEF NotFound, GradeAnswer, SaveAnswer, UpsertMistake, EndWith, sessions, ledger, locals
    <3> QED
      BY <3>1, QuietRequest DEF Busy, CompletedIt
  <2>2. CASE RepeatCompletion(r)
    <3>1. /\ pc'[r] = "ended" /\ pc[r] # "finish" /\ status[ask[r].session] = "completed"
          /\ tally'[r] = stored[ask[r].session]
          /\ \A o \in Requests \ {r} : pc'[o] = pc[o] /\ reply'[o] = reply[o] /\ tally'[o] = tally[o]
          /\ UNCHANGED <<status, ask, stored, paid>>
      BY <1>0, <2>2 DEF RepeatCompletion, EndWith, sessions, ledger
    <3> QED
      BY <3>1, QuietRequest DEF Busy, CompletedIt
  <2>3. CASE AdmitCompletion(r)
    <3>1. /\ pc[r] = "arrived" /\ pc'[r] = "tally" /\ status[ask[r].session] = "in_progress"
          /\ \A o \in Requests \ {r} : pc'[o] = pc[o]
          /\ UNCHANGED <<status, ask, stored, paid, reply, tally>>
      BY <1>0, <2>3 DEF AdmitCompletion, TakesCompletions, sessions, ledger, locals
    <3> QED
      BY <3>1, QuietRequest DEF CompletedIt
  <2>4. CASE GetSessionTally(r)
    <3>1. /\ pc[r] = "tally" /\ \A o \in Requests \ {r} : pc'[o] = pc[o] /\ reply'[o] = reply[o] /\ tally'[o] = tally[o]
          /\ UNCHANGED <<status, ask, stored, paid>>
          /\ reply'[r] = reply[r] \/ reply'[r] = "ERROR"
      BY <1>0, <2>4 DEF GetSessionTally, EndWith, sessions, ledger
    <3>2. reply[r] # "completed"
      BY <3>1 DEF OpenWhileBusy, ToldWhatIsStored, Busy
    <3> QED
      BY <3>1, <3>2, QuietRequest DEF Busy, CompletedIt
  <2>5. CASE GetUserStats(r) \/ TakeNow(r)
    <3>1. /\ pc[r] \in {"stats", "clock"} /\ pc'[r] \in {"clock", "credit"}
          /\ \A o \in Requests \ {r} : pc'[o] = pc[o]
          /\ UNCHANGED <<status, ask, stored, paid, reply, tally>>
      BY <1>0, <2>5 DEF GetUserStats, TakeNow, sessions, ledger
    <3> QED
      BY <3>1, QuietRequest DEF Busy, CompletedIt
  <2> QED
    BY <1>5, <2>1, <2>2, <2>3, <2>4, <2>5, PayStep, FinishStep DEF Serve
<1> QED
  BY <1>1, <1>2, <1>3, <1>4, <1>5 DEF Next

(* The history variable says what it should: that the circumstances have   *)
(* obtained in every state so far.                                         *)
LEMMA InitOrderly == MCInit => IInv /\ OrderlyInv
<1> SUFFICES ASSUME MCInit
             PROVE  IInv /\ OrderlyInv
  OBVIOUS
<1>1. IInv
  BY InitIInv DEF MCInit
<1>2. \A r \in Requests : ask[r].session \in Sessions
  BY <1>1, AskType DEF IInv
<1> QED
  BY <1>1, <1>2 DEF MCInit, Init, OrderlyInv, Alone, NoneBrokenOff, OpenWhileBusy, PaidWhenFinished,
                    ToldWhatIsStored, CompletedByOne, CompletedIt, Busy

LEMMA StepOrderly == IInv /\ OrderlyInv /\ [MCNext]_<<vars, orderly>> => IInv' /\ OrderlyInv'
<1> SUFFICES ASSUME IInv, OrderlyInv, [MCNext]_<<vars, orderly>>
             PROVE  IInv' /\ OrderlyInv'
  OBVIOUS
<1>1. IInv'
  BY StepIInv DEF MCNext, vars
<1>2. CASE UNCHANGED <<vars, orderly>>
  <2>1. UNCHANGED <<status, stored, pc, ask, tally, reply, paid, orderly>>
    BY <1>2 DEF vars, sessions, ledger, locals
  <2> QED
    BY <1>1, <2>1 DEF OrderlyInv, Alone, NoneBrokenOff, OpenWhileBusy, PaidWhenFinished, ToldWhatIsStored,
                    CompletedByOne, CompletedIt, Busy
<1>3. CASE MCNext
  <2> SUFFICES ASSUME orderly'
               PROVE  OrderlyInv'
    BY <1>1 DEF OrderlyInv
  <2>1. Next /\ orderly /\ Orderly'
    BY <1>3 DEF MCNext
  <2>2. Alone' /\ NoneBrokenOff'
    BY <1>1, <2>1, OrderlyMeans
  <2>3. Alone /\ OpenWhileBusy /\ PaidWhenFinished /\ ToldWhatIsStored /\ CompletedByOne
    BY <2>1 DEF OrderlyInv
  <2>4. Types'
    BY <1>1 DEF IInv
  <2>5. OpenWhileBusy' /\ PaidWhenFinished' /\ ToldWhatIsStored' /\ CompletedByOne'
    BY <2>1, <2>2, <2>3, <2>4, OrderlyStep
  <2> QED
    BY <2>2, <2>5 DEF OrderlyInv
<1> QED
  BY <1>2, <1>3

(* As long as completions of a session have not overlapped or broken off,  *)
(* a session is paid for at most once, and its replies tell the same       *)
(* counts, and its XP and streak at most once: of two replies one is that  *)
(* of a request that found the session completed.                          *)
THEOREM OrderlyCompletionsAgree == MCSpec => []OrderlyCompletions
<1>1. ASSUME IInv, OrderlyInv, orderly
      PROVE  PaidAtMostOnce /\ RepeatsTellNoGain
  <2>1. PaidAtMostOnce
    BY <1>1 DEF OrderlyInv, PaidWhenFinished, PaidAtMostOnce
  <2>2. ASSUME NEW r1 \in Requests, NEW r2 \in Requests, r1 # r2,
               reply[r1] = "completed", reply[r2] = "completed", ask[r1].session = ask[r2].session
        PROVE  /\ Told(r1).answered = Told(r2).answered /\ Told(r1).correct = Told(r2).correct
               /\ Told(r1).xp = 0 \/ Told(r2).xp = 0
               /\ Told(r1).streak = 0 \/ Told(r2).streak = 0
    <3>1. tally[r1] = tally[r2]
      BY <1>1, <2>2 DEF OrderlyInv, ToldWhatIsStored
    <3>2. \A r \in Requests :
            /\ Told(r).answered = tally[r].answered /\ Told(r).correct = tally[r].correct
            /\ pc[r] # "settled" => Told(r).xp = 0 /\ Told(r).streak = 0
      BY DEF Told, FirstResult, RepeatResult
    <3>3. pc[r1] # "settled" \/ pc[r2] # "settled"
      BY <1>1, <2>2 DEF OrderlyInv, CompletedByOne, CompletedIt
    <3> QED
      BY <3>1, <3>2, <3>3
  <2> QED
    BY <2>1, <2>2 DEF RepeatsTellNoGain
<1>2. IInv /\ OrderlyInv => OrderlyCompletions
  BY <1>1 DEF OrderlyCompletions
<1> QED
  BY <1>2, InitOrderly, StepOrderly, PTL DEF MCSpec
=============================================================================
