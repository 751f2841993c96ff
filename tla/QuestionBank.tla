---------------------------- MODULE QuestionBank ----------------------------
(***************************************************************************)
(* The question bank: the versions of one question pack and its questions; *)
(* the administrators' endpoints (AdminUsecase) and the maintenance tools  *)
(* (cmd/scraper, cmd/seed, cmd/import-tickets, cmd/classify-topics), which *)
(* write them; and the numbered tests, tickets and pages that learners are *)
(* served.  Every statement or transaction of Postgres is a step, and jobs *)
(* interleave at each.  A question's text is one value, its wording, which *)
(* the tools take from Prepdrive; its translations are written together.   *)
(***************************************************************************)
EXTENDS Naturals, FiniteSets, SequencesExt

CONSTANTS
  LastQuestion,    \* questions are numbered as their public ids sort
  LastVersion,     \* versions of the pack, numbered as their names sort
  Wordings, NoText,
  Topics,
  DetectCategory,  \* the topic that the scraper guesses of a wording
  Classify,        \* the topic that the classifier files it under
  Prepdrive,       \* the wordings that Prepdrive first serves
  Templates,       \* its ticket templates: sequences of questions
  Samples,         \* the seeder's questions: a sequence
  PerTest,         \* domain.QuestionsPerTest
  PageLimit,       \* questions to a page
  Workers,         \* processes and requests, which do one job after another
  Jobs,            \* their jobs: a subset of AllJobs
  MaxJobs,         \* how many there are
  MaxRewordings,   \* corrections that Prepdrive makes
  MaxAttempts,     \* numbered tests that the learner opens
  BankFaults       \* statements that may fail, and "crash"

Questions == 1 .. LastQuestion
Versions  == 1 .. LastVersion
Numbers   == DOMAIN Templates

AllJobs == [op: {"draft"}, version: Versions]
             \cup [op: {"add"}, question: Questions, wording: Wordings, topic: Topics]
             \cup [op: {"publish", "rollback", "scrape", "refetch", "seed", "tickets", "classify"}]

ASSUME BankAssumption ==
  /\ {LastQuestion, LastVersion, PerTest, PageLimit} \subseteq Nat \ {0}
  /\ NoText \notin Wordings
  /\ DetectCategory \in [Wordings -> Topics]
  /\ Classify \in [Wordings \cup {NoText} -> Topics]
  /\ Prepdrive \in [Questions -> Wordings]
  /\ Templates \in Seq(Seq(Questions)) /\ Samples \in Seq(Questions)
  /\ Jobs \subseteq AllJobs /\ IsFiniteSet(Workers)
  /\ {MaxJobs, MaxRewordings, MaxAttempts} \subseteq Nat
  /\ BankFaults \subseteq {"load", "row", "text", "pack", "log", "mark", "save", "crash"}

VARIABLES
  packs,     \* the rows of `question_packs', by version
  clock,     \* the last publication's number: published_at
  questions, \* the rows of `questions' with their translations
  lastRow,   \* the sequence behind their ids
  tickets,   \* the questions of each ticket, in order
  audit,     \* the administrators' acts in the audit log
  prepdrive, \* what Prepdrive serves
  at, job,   \* where each worker is, and the job it has
  mind,      \* what its process holds
  begun,     \* jobs begun so far
  attempts,  \* the numbered tests that a learner opened
  walk       \* a client's way through GET /content/packs/:id/questions

table    == <<questions, lastRow>>
catalog  == <<packs, clock, audit>>
work     == <<at, job, mind, begun>>
learner  == <<attempts, walk>>
bankVars == <<catalog, table, tickets, prepdrive, work, learner>>

NoPack     == [status |-> "none", count |-> 0, since |-> 0]
NoQuestion == [id |-> 0, topic |-> "none", status |-> "none", wording |-> NoText]
NoJob      == [op |-> "none"]
(* The version it read and its row, the questions it has before it, the    *)
(* wording it writes, and what it read of other questions.                 *)
EmptyMind          == [version |-> 0, row |-> NoPack, todo |-> <<>>, text |-> NoText, found |-> <<>>]
Holding(m, v, row) == [m EXCEPT !.version = v, !.row = row]
Tools              == {"scrape", "refetch", "seed"}

EmptyBank ==
  /\ packs = [v \in Versions |-> NoPack] /\ clock = 0
  /\ questions = [q \in Questions |-> NoQuestion] /\ lastRow = 0
NothingServed ==
  /\ tickets = [n \in Numbers |-> <<>>]
  /\ audit = {} /\ prepdrive = Prepdrive
  /\ attempts = {}
  /\ walk = [at |-> "idle", cursor |-> 0, listed |-> {}, twice |-> FALSE]
NobodyWorks ==
  /\ at = [w \in Workers |-> "idle"]
  /\ job = [w \in Workers |-> NoJob]
  /\ mind = [w \in Workers |-> EmptyMind] /\ begun = 0

BankInit == EmptyBank /\ NothingServed /\ NobodyWorks

Go(w, place, m) == /\ at' = [at EXCEPT ![w] = place]
                   /\ mind' = [mind EXCEPT ![w] = m]
                   /\ UNCHANGED <<job, begun>>
End(w)          == /\ at' = [at EXCEPT ![w] = "idle"]
                   /\ mind' = [mind EXCEPT ![w] = EmptyMind]
                   /\ job' = [job EXCEPT ![w] = NoJob]
                   /\ UNCHANGED begun
Fails(fault)    == fault \in BankFaults
Exists(q)       == questions[q] # NoQuestion

(* GetPackByID: of the versions the one whose name sorts last. *)
Latest == CHOOSE v \in Versions \cup {0} :
            /\ v > 0 => packs[v] # NoPack
            /\ \A u \in Versions : packs[u] # NoPack => u <= v

-----------------------------------------------------------------------------
(* What learners are served: the published questions, whatever version.    *)
Published  == {q \in Questions : questions[q].status = "published"}
InTopic(t) == {q \in Published : questions[q].topic = t}

(* A numbered test is a window of its topic in the order of insertion. *)
Before_ByPublicID(p, q) == p < q
Before(p, q)            == questions[p].id < questions[q].id
Rank(q, S)              == Cardinality({p \in S : Before(p, q)})

GetQuestionSlice(t, offset, limit) ==
  LET S == InTopic(t)
  IN  {q \in S : LET r == Rank(q, S) IN offset <= r /\ r < offset + limit}

NumberedTest(t, n) == GetQuestionSlice(t, (n - 1) * PerTest, PerTest)

TestCount(count) == (count + PerTest - 1) \div PerTest

TestSize(count, n) ==
  LET remaining == count - (n - 1) * PerTest
  IN  IF remaining < PerTest THEN remaining ELSE PerTest

(* What a list has of a set, in the list's order. *)
Only(list, S) == FlattenSeq([i \in DOMAIN list |-> IF list[i] \in S THEN <<list[i]>> ELSE <<>>])

(* A ticket's questions in order, but for those not published. *)
GetTicketQuestions(n) == Only(tickets[n], Published)

(* A session lists a question once: idx_psq_session_question. *)
Distinct(list) == \A i, j \in DOMAIN list : i # j => list[i] # list[j]

(* A page: the first of the published after the cursor, and a new cursor,  *)
(* 0 if there is nothing more.                                             *)
NextCursor_FirstLeftOut(rows, page) ==
  IF rows = page THEN 0 ELSE CHOOSE q \in rows \ page : \A p \in rows \ page : q <= p
NextCursor(rows, page) ==
  IF rows = page THEN 0 ELSE CHOOSE q \in page : \A p \in page : p <= q

GetQuestionsByPack ==
  LET rows == {q \in Published : q > walk.cursor}
      page == {q \in rows : Cardinality({p \in rows : p < q}) < PageLimit}
  IN  /\ walk.at # "over"
      /\ walk' = [at     |-> IF NextCursor(rows, page) = 0 THEN "over" ELSE "on",
                  cursor |-> NextCursor(rows, page),
                  listed |-> walk.listed \cup page,
                  twice  |-> walk.twice \/ walk.listed \cap page # {}]
      /\ UNCHANGED <<catalog, table, tickets, prepdrive, work, attempts>>

(* A session of a numbered test has its questions and nothing else, or is  *)
(* refused.                                                                *)
OpenTest(t, n) ==
  /\ Cardinality(attempts) < MaxAttempts
  /\ Latest > 0 /\ NumberedTest(t, n) # {}
  /\ attempts' = attempts \cup {[topic |-> t, index |-> n, questions |-> NumberedTest(t, n)]}
  /\ UNCHANGED <<catalog, table, tickets, prepdrive, work, walk>>

-----------------------------------------------------------------------------
(* A job begins: a request of an administrator, or a tool. *)
Begin(w) ==
  /\ at[w] = "idle" /\ begun < MaxJobs
  /\ begun' = begun + 1
  /\ \E j \in Jobs :
       /\ job' = [job EXCEPT ![w] = j]
       /\ at' = [at EXCEPT ![w] = CASE j.op = "draft"    -> "create"
                                     [] j.op = "tickets"  -> "duplicates"
                                     [] j.op = "classify" -> "texts"
                                     [] OTHER             -> "pack"]
  /\ UNCHANGED <<catalog, table, tickets, prepdrive, mind, learner>>

Adds(w)   == job[w].op = "add"
IsTool(w) == job[w].op \in Tools

(* A tool goes on with the questions left; the scraper counts when it is   *)
(* through, the seeder does not.                                           *)
Continue(w, m) ==
  IF m.todo = <<>> /\ job[w].op = "seed" THEN End(w)
  ELSE Go(w, IF m.todo = <<>> THEN "recount" ELSE "look", m)

(* The seeder runs over its samples, the scraper over a range of templates.*)
Seed(w, m)   == job[w].op = "seed" /\ Continue(w, [m EXCEPT !.todo = Samples])
Scrape(w, m) ==
  /\ job[w].op # "seed"
  /\ \E first, last \in Numbers :
       first <= last /\ Continue(w, [m EXCEPT !.todo = FlattenSeq(SubSeq(Templates, first, last))])

StartBatch(w, m) == Seed(w, m) \/ Scrape(w, m)

(* An administrator needs a pack; a tool makes one if it finds none, or    *)
(* cannot look.                                                            *)
GetPackByID(w) ==
  LET m == Holding(mind[w], Latest, packs[Latest])
  IN  /\ at[w] = "pack"
      /\ \/ /\ Latest > 0
            /\ CASE Adds(w)               -> Go(w, "row", [m EXCEPT !.text = job[w].wording])
                 [] job[w].op = "publish"  -> Go(w, "write", m)
                 [] job[w].op = "rollback" -> Go(w, "log", m)
                 [] OTHER                  -> StartBatch(w, m)
         \/ /\ Latest = 0 \/ Fails("load")
            /\ IF IsTool(w) THEN Go(w, "create", mind[w]) ELSE End(w)
      /\ UNCHANGED <<catalog, table, tickets, prepdrive, learner>>

(* A tool's pack is published at once, under the name that sorts first;    *)
(* the seeder's says that it has seven questions.                          *)
ToolPack(w) ==
  [status |-> "published", count |-> IF job[w].op = "seed" THEN 7 ELSE 0, since |-> clock + 1]

(* CreatePack: a version is there once.                                    *)
CreatePack(w) ==
  LET v   == IF IsTool(w) THEN 1 ELSE job[w].version
      row == IF IsTool(w) THEN ToolPack(w) ELSE [NoPack EXCEPT !.status = "draft"]
      m   == Holding(mind[w], v, row)
  IN  /\ at[w] = "create"
      /\ \/ /\ packs[v] = NoPack
            /\ packs' = [packs EXCEPT ![v] = row]
            /\ clock' = IF IsTool(w) THEN clock + 1 ELSE clock
            /\ IF IsTool(w) THEN StartBatch(w, m) ELSE Go(w, "log", m)
         \/ (packs[v] # NoPack \/ Fails("pack")) /\ End(w) /\ UNCHANGED <<packs, clock>>
      /\ UNCHANGED <<audit, table, tickets, prepdrive, learner>>

(* "Already imported: leave it alone", unless the tool refetches or cannot *)
(* look.                                                                   *)
Skips(w, q) == Exists(q) /\ job[w].op # "refetch"

LookAtQuestion(w) ==
  LET m == mind[w]
      q == Head(m.todo)
  IN  /\ at[w] = "look"
      /\ \/ Skips(w, q) /\ Continue(w, [m EXCEPT !.todo = Tail(@)])
         \/ (~ Skips(w, q) \/ Fails("load")) /\ Go(w, "row", [m EXCEPT !.text = prepdrive[q]])
      /\ UNCHANGED <<catalog, table, tickets, prepdrive, learner>>

(* CreateQuestion: the row, inserted or overwritten under its old id, then *)
(* the text.  An administrator's is a draft, a tool's published.           *)
QuestionOf(w) == IF Adds(w) THEN job[w].question ELSE Head(mind[w].todo)
Abandon(w)    == IF Adds(w) THEN End(w) ELSE Continue(w, [mind[w] EXCEPT !.todo = Tail(@)])

RowId_Anew(q) == lastRow + 1
RowId(q)      == IF Exists(q) THEN questions[q].id ELSE lastRow + 1

UpsertQuestion(w) ==
  LET q == QuestionOf(w)
  IN  /\ at[w] = "row"
      /\ \/ /\ questions' = [questions EXCEPT ![q] =
                   [id      |-> RowId(q),
                    topic   |-> IF Adds(w) THEN job[w].topic ELSE DetectCategory[mind[w].text],
                    status  |-> IF Adds(w) THEN "draft" ELSE "published",
                    wording |-> @.wording]]
            /\ lastRow' = IF Exists(q) THEN lastRow ELSE lastRow + 1
            /\ Go(w, "text", mind[w])
         \/ Fails("row") /\ Abandon(w) /\ UNCHANGED table
      /\ UNCHANGED <<catalog, tickets, prepdrive, learner>>

UpsertTranslations(w) ==
  /\ at[w] = "text"
  /\ \/ /\ questions' = [questions EXCEPT ![QuestionOf(w)].wording = mind[w].text]
        /\ IF Adds(w) THEN Go(w, "write", mind[w]) ELSE Continue(w, [mind[w] EXCEPT !.todo = Tail(@)])
     \/ Fails("text") /\ Abandon(w) /\ UNCHANGED questions
  /\ UNCHANGED <<catalog, lastRow, tickets, prepdrive, learner>>

(* "The pack counts every question it holds, not just this run's." *)
CountQuestions(w) ==
  /\ at[w] = "recount"
  /\ \/ Go(w, "write", [mind[w] EXCEPT !.found = <<Cardinality(Published)>>])
     \/ Fails("load") /\ End(w)
  /\ UNCHANGED <<catalog, table, tickets, prepdrive, learner>>

(* UpdatePack writes the whole row, as it was read but for what the job    *)
(* changes.  Only a publication minds that it fails.                       *)
NewRow_Draft(w) ==
  LET row == mind[w].row
  IN  CASE Adds(w)              -> [row EXCEPT !.count = @ + 1, !.status = "draft"]
        [] job[w].op = "publish" -> [row EXCEPT !.status = "published", !.since = clock + 1]
        [] OTHER                 -> [row EXCEPT !.count = mind[w].found[1]]
NewRow(w) ==
  LET row == mind[w].row
  IN  CASE Adds(w)               -> [row EXCEPT !.count = @ + 1]
        [] job[w].op = "publish" -> [row EXCEPT !.status = "published", !.since = clock + 1]
        [] OTHER                 -> [row EXCEPT !.count = mind[w].found[1]]

UpdatePack(w) ==
  /\ at[w] = "write"
  /\ \/ /\ packs' = [packs EXCEPT ![mind[w].version] = NewRow(w)]
        /\ clock' = IF job[w].op = "publish" THEN clock + 1 ELSE clock
        /\ IF IsTool(w) THEN End(w) ELSE Go(w, "log", mind[w])
     \/ /\ Fails("pack") /\ UNCHANGED <<packs, clock>>
        /\ IF Adds(w) THEN Go(w, "log", mind[w]) ELSE End(w)
  /\ UNCHANGED <<audit, table, tickets, prepdrive, learner>>

(* An error of the audit log is ignored. *)
LogAction(w) ==
  /\ at[w] = "log"
  /\ \/ audit' = audit \cup {[op |-> job[w].op, version |-> mind[w].version]}
     \/ Fails("log") /\ UNCHANGED audit
  /\ End(w)
  /\ UNCHANGED <<packs, clock, table, tickets, prepdrive, learner>>

-----------------------------------------------------------------------------
(* MarkContentDuplicates: of the questions of one wording, published or    *)
(* marked before, the one inserted first is kept; the others are marked,   *)
(* one UPDATE each, in any order.                                          *)
Candidates == {q \in Questions : /\ questions[q].status \in {"published", "duplicate"}
                                 /\ questions[q].wording # NoText}
Same_InTopic(p, q) == questions[p].wording = questions[q].wording /\ questions[p].topic = questions[q].topic
Same(p, q)         == questions[p].wording = questions[q].wording
Kept(q)    == CHOOSE p \in Candidates : /\ Same(p, q)
                                        /\ \A o \in Candidates : Same(o, q) => questions[p].id <= questions[o].id
Duplicates == {q \in Candidates : Kept(q) # q}

FindDuplicates(w) ==
  /\ at[w] = "duplicates"
  /\ \/ Go(w, "mark", [mind[w] EXCEPT !.found = [q \in Duplicates |-> Kept(q)],
                                      !.todo  = SetToSeq(Duplicates)])
     \/ Fails("load") /\ End(w)
  /\ UNCHANGED <<catalog, table, tickets, prepdrive, learner>>

MarkDuplicate(w) ==
  /\ at[w] = "mark" /\ mind[w].todo # <<>>
  /\ \/ \E i \in DOMAIN mind[w].todo :
          /\ questions' = [questions EXCEPT ![mind[w].todo[i]].status = "duplicate"]
          /\ Go(w, "mark", [mind[w] EXCEPT !.todo = RemoveAt(@, i)])
     \/ Fails("mark") /\ End(w) /\ UNCHANGED questions
  /\ UNCHANGED <<catalog, lastRow, tickets, prepdrive, learner>>

(* ReplaceTickets, all or none: every ticket points at the question kept,  *)
(* and leaves out what the bank has not.                                   *)
PointsAt_Itself(w, q) == q
PointsAt(w, q)        == IF q \in DOMAIN mind[w].found THEN mind[w].found[q] ELSE q

ReplaceTickets(w) ==
  /\ at[w] = "mark" /\ mind[w].todo = <<>>
  /\ \/ tickets' = [n \in Numbers |->
          Only([i \in DOMAIN Templates[n] |-> PointsAt(w, Templates[n][i])], {q \in Questions : Exists(q)})]
     \/ Fails("save") /\ UNCHANGED tickets
  /\ End(w)
  /\ UNCHANGED <<catalog, table, prepdrive, learner>>

(* cmd/classify-topics files every question under the topic its text is    *)
(* about; SetCategories is one transaction.                                *)
ListQuestionTexts(w) ==
  /\ at[w] = "texts"
  /\ \/ Go(w, "file", [mind[w] EXCEPT !.found =
             [q \in {p \in Questions : Exists(p)} |-> Classify[questions[q].wording]]])
     \/ Fails("load") /\ End(w)
  /\ UNCHANGED <<catalog, table, tickets, prepdrive, learner>>

SetCategories(w) ==
  LET topic == mind[w].found
  IN  /\ at[w] = "file"
      /\ \/ questions' = [q \in Questions |->
              IF q \in DOMAIN topic THEN [questions[q] EXCEPT !.topic = topic[q]] ELSE questions[q]]
         \/ Fails("save") /\ UNCHANGED questions
      /\ End(w)
      /\ UNCHANGED <<catalog, lastRow, tickets, prepdrive, learner>>

-----------------------------------------------------------------------------
(* The process of a job dies. *)
Die(w) ==
  /\ Fails("crash") /\ at[w] # "idle" /\ End(w)
  /\ UNCHANGED <<catalog, table, tickets, prepdrive, learner>>

(* Prepdrive corrects a question's wording. *)
Reword(q, wording) ==
  /\ Cardinality({p \in Questions : prepdrive[p] # Prepdrive[p]}) < MaxRewordings
  /\ prepdrive[q] = Prepdrive[q] /\ wording # prepdrive[q]
  /\ prepdrive' = [prepdrive EXCEPT ![q] = wording]
  /\ UNCHANGED <<catalog, table, tickets, work, learner>>

WorkOnPack(w)     == GetPackByID(w) \/ CreatePack(w) \/ UpdatePack(w) \/ LogAction(w)
FillPack(w)       == LookAtQuestion(w) \/ CountQuestions(w)
CreateQuestion(w) == UpsertQuestion(w) \/ UpsertTranslations(w)
ImportTickets(w)  == FindDuplicates(w) \/ MarkDuplicate(w) \/ ReplaceTickets(w)
ClassifyTopics(w) == ListQuestionTexts(w) \/ SetCategories(w)

Work(w) ==
  \/ Begin(w) \/ WorkOnPack(w) \/ FillPack(w) \/ CreateQuestion(w) \/ ImportTickets(w)
  \/ ClassifyTopics(w) \/ Die(w)

BankNext ==
  \/ \E w \in Workers : Work(w)
  \/ \E q \in Questions, wording \in Wordings : Reword(q, wording)
  \/ \E t \in Topics, n \in Questions : OpenTest(t, n)
  \/ GetQuestionsByPack

BankSpec == BankInit /\ [][BankNext]_bankVars

-----------------------------------------------------------------------------
PackRows     == [status: {"none", "draft", "published"}, count: Nat, since: 0 .. clock]
QuestionRows == [id: 0 .. lastRow, topic: Topics \cup {"none"},
                 status: {"none", "draft", "published", "duplicate"},
                 wording: Wordings \cup {NoText}]

(* Types, and no two questions inserted under one id. *)
BankTypeOK ==
  /\ packs \in [Versions -> PackRows]
  /\ questions \in [Questions -> QuestionRows] /\ lastRow \in 0 .. LastQuestion
  /\ \A p, q \in Questions : Exists(p) /\ Exists(q) /\ p # q => questions[p].id # questions[q].id
  /\ tickets \in [Numbers -> Seq(Questions)]
  /\ audit \subseteq [op: {"draft", "add", "publish", "rollback"}, version: Versions]
  /\ prepdrive \in [Questions -> Wordings] /\ begun \in 0 .. MaxJobs
  /\ at \in [Workers -> {"idle", "pack", "create", "look", "row", "text", "recount", "write", "log",
                         "duplicates", "mark", "texts", "file"}]
  /\ \A w \in Workers : /\ job[w] \in Jobs \cup {NoJob}
                        /\ mind[w].version \in 0 .. LastVersion /\ mind[w].row \in PackRows
                        /\ mind[w].todo \in Seq(Questions) /\ mind[w].text \in Wordings \cup {NoText}
  /\ attempts \subseteq [topic: Topics, index: Questions, questions: SUBSET Questions]
  /\ walk \in [at: {"idle", "on", "over"}, cursor: 0 .. LastQuestion,
               listed: SUBSET Questions, twice: BOOLEAN]

(* The numbered tests of a topic are as many and as large as they are      *)
(* listed, share no question and leave none out: "a learner who finishes   *)
(* every test in a topic has seen every question in it".                   *)
TestsCoverTheTopic(t) ==
  LET count == Cardinality(InTopic(t))
  IN  /\ \A n \in 1 .. TestCount(count) : Cardinality(NumberedTest(t, n)) = TestSize(count, n)
      /\ UNION {NumberedTest(t, n) : n \in 1 .. TestCount(count)} = InTopic(t)
      /\ \A n \in Questions : n > TestCount(count) => NumberedTest(t, n) = {}

(* A test keeps the questions that it had when the learner opened it, and  *)
(* gains none but newer ones: "anything else would renumber the tests      *)
(* under the learner".                                                     *)
TestsKeepTheirQuestions(t) ==
  \A a \in attempts : a.topic = t =>
    /\ a.questions \subseteq NumberedTest(t, a.index)
    /\ \A q \in NumberedTest(t, a.index) \ a.questions, p \in a.questions : Before(p, q)

(* "A topic never asks the same question twice".                           *)
AskedOnce ==
  \A p, q \in Published : p # q => questions[p].wording # questions[q].wording
                                    \/ questions[p].wording = NoText

(* Of the questions of one wording the one that is kept is asked: marking  *)
(* the others loses none.                                                  *)
KeptIsAsked == \A q \in Candidates : Kept(q) \in Published

(* A ticket asks what its template does, of the questions given, if in the *)
(* words of another; and a session of it opens unless its template itself  *)
(* repeats a question.                                                     *)
AsksItsTemplate(n, known) ==
  LET asked  == GetTicketQuestions(n)
      wanted == Only(Templates[n], known)
  IN  /\ \A i \in DOMAIN wanted : \E k \in DOMAIN asked :
            questions[asked[k]].wording = questions[wanted[i]].wording
      /\ Distinct([i \in DOMAIN wanted |-> questions[wanted[i]].wording]) => Distinct(asked)
=============================================================================
