------------------------------ MODULE MCContent ------------------------------
(***************************************************************************)
(* Instances of QuestionBank and of Tutor for TLC, with the histories the  *)
(* bank's properties speak of.  One behaviour looks at one of seven        *)
(* things: the tests, the pages, the tickets, the packs or an empty bank,  *)
(* with jobs that bear on it; the tutor; or how a text of law is cut into  *)
(* passages, where nothing moves.                                          *)
(***************************************************************************)
EXTENDS QuestionBank, Tutor, TLC

CONSTANTS w1, w2, wa, wb, wc, a1, a2, xa, xb

VARIABLES
  desk,     \* what the behaviour looks at
  shifted,  \* topics that lost a question, or got one before another
  stayed,   \* questions published since the walk began
  fresh,    \* jobs that found duplicates, since when no other job wrote a question
  marked,   \* whether such a job marked them all, and none was written since
  tidy,     \* whether no jobs overlapped, wrote drafts or left a question without its text, and no
            \* wording changed
  known,    \* the questions that were there when the tickets were last replaced
  launched, \* versions ever published
  met       \* versions that two jobs held at once

histories == <<shifted, stayed, fresh, marked, tidy, known, launched, met>>

MCDetect    == (wa :> "rules") @@ (wb :> "rules") @@ (wc :> "signs")
MCClassify  == (wa :> "rules") @@ (wb :> "signs") @@ (wc :> "signs") @@ (NoText :> "rules")
MCPrepdrive == <<wa, wb, wa, wc>>
MCTemplates == <<<<2, 3>>, <<1, 4>>>>
MCSamples   == <<4>>
MCJobs      == [op: {"scrape", "refetch", "seed", "tickets", "classify", "publish", "rollback"}]
                 \cup [op: {"draft"}, version: {1, 2}]
                 \cup [op: {"add"}, question: {2}, wording: {wc}, topic: {"signs"}]
Symmetry    == Permutations(Workers)

(* The Rules, and an edition that words clause 2 as clause 1 was. *)
MCEditions == <<<<[id |-> 1, clause |-> 1, size |-> 2], [id |-> 3, clause |-> 2, size |-> 1]>>,
                <<[id |-> 1, clause |-> 2, size |-> 2]>>>>
(* Texts of law of up to four paragraphs, in clauses. *)
MCLists ==
  UNION {{[i \in 1 .. n |-> [id |-> i, clause |-> Cardinality(starts \cap (2 .. i)), size |-> size[i]]] :
            starts \in SUBSET (2 .. n), size \in [1 .. n -> 1 .. 3]} : n \in 0 .. 4}

JobsAt == [tests   |-> {"scrape", "refetch", "tickets", "classify"},
           pages   |-> {"scrape", "refetch", "tickets"},
           tickets |-> {"refetch", "tickets"},
           packs   |-> {"scrape", "draft", "add", "publish"},
           empty   |-> {"seed", "draft", "add", "publish", "rollback"}]

(* The scraper has been through the first templates, if any. *)
LoadedAt == [tests |-> <<2, 3>>, pages |-> <<2, 3>>, tickets |-> <<2, 3, 1, 4>>, packs |-> <<2, 3, 1, 4>>,
             empty |-> <<>>]
Loaded(list) ==
  /\ lastRow = Len(list)
  /\ questions = [q \in Questions |->
       IF \E i \in DOMAIN list : list[i] = q
       THEN [id |-> CHOOSE i \in DOMAIN list : list[i] = q, topic |-> DetectCategory[Prepdrive[q]],
             status |-> "published", wording |-> Prepdrive[q]]
       ELSE NoQuestion]
  /\ packs = [v \in Versions |-> IF v = 1 /\ list # <<>>
                                 THEN [status |-> "published", count |-> Len(list), since |-> 1]
                                 ELSE NoPack]
  /\ clock = packs[1].since

MCInit ==
  /\ desk \in DOMAIN JobsAt \cup {"tutor", "law"}
  /\ Loaded(IF desk \in DOMAIN JobsAt THEN LoadedAt[desk] ELSE <<>>) /\ NothingServed /\ NobodyWorks
  /\ TutorInit /\ explained[1] = xa /\ explained[2] # xb
  /\ desk # "tutor" => explained[2] = xa
  /\ shifted = {} /\ stayed = {} /\ fresh = {} /\ marked = FALSE /\ tidy = TRUE
  /\ known = {} /\ launched = {} /\ met = {}

Shifts(t) ==
  \/ ~ InTopic(t) \subseteq InTopic(t)'
  \/ \E q \in InTopic(t)' \ InTopic(t), p \in InTopic(t) : questions'[q].id < questions[p].id

Busy        == {w \in Workers : at[w] # "idle"}
Holds(w, v) == at[w] \in {"row", "text", "look", "recount", "write"} /\ mind[w].version = v
Texted(w)   == questions'[QuestionOf(w)].wording # NoText
Marks(w)    == at[w] = "mark" /\ at'[w] = "mark" /\ mind'[w] # mind[w]

Remember ==
  /\ shifted'  = shifted \cup {t \in Topics : Shifts(t)}
  /\ stayed'   = (IF walk.at = "idle" THEN Published ELSE stayed) \cap Published'
  /\ fresh'    = ((IF questions' = questions \/ \E w \in fresh : Marks(w) THEN fresh ELSE {})
                   \cap Busy') \cup {w \in Workers : at[w] = "duplicates" /\ at'[w] = "mark"}
  /\ marked'   = \/ questions' = questions /\ marked
                 \/ \E w \in fresh' : mind'[w].todo = <<>>
  /\ tidy'     = (/\ tidy /\ Cardinality(Busy') <= 1 /\ prepdrive' = Prepdrive
                  /\ \A w \in Workers : /\ job'[w].op # "add"
                                        /\ at[w] = "text" => at'[w] = "text" \/ Texted(w))
  /\ known'    = IF tickets' = tickets THEN known ELSE {q \in Questions : Exists(q)}
  /\ launched' = launched \cup {v \in Versions : packs'[v].status = "published"}
  /\ met'      = met \cup {v \in Versions : Cardinality({w \in Workers : Holds(w, v)'}) > 1}

AtTheBank ==
  /\ desk \in DOMAIN JobsAt
  /\ BankNext /\ Remember
  /\ \A w \in Workers : job'[w].op \in JobsAt[desk] \cup {"none"}
  /\ desk \in {"tests", "pages"} => Cardinality(Busy') <= 1
  /\ desk = "pages"   => begun' <= 2
  /\ desk \in {"tickets", "packs"} => begun' <= 2 \/ Cardinality(Busy') <= 1
  /\ desk # "tests"   => attempts' = attempts
  /\ desk # "pages"   => walk' = walk
  /\ desk # "tickets" => prepdrive' = prepdrive
  /\ UNCHANGED <<desk, tutorVars>>

AtTheTutor == desk = "tutor" /\ TutorNext /\ UNCHANGED <<desk, bankVars, histories>>

MCNext == AtTheBank \/ AtTheTutor

MCSpec == MCInit /\ [][MCNext]_<<desk, bankVars, histories, tutorVars>>

-----------------------------------------------------------------------------
(* The types of both. *)
ContentTypeOK == BankTypeOK /\ TutorTypeOK

(* A topic's tests partition it, and they keep their questions unless one  *)
(* of the topic is withdrawn, or one comes in that was inserted earlier.   *)
TestsAreStable ==
  \A t \in Topics : TestsCoverTheTopic(t) /\ (t \in shifted \/ TestsKeepTheirQuestions(t))
NumberedTestsAreStable == desk = "tests" => TestsAreStable

(* A client that walks the pages to their end is given every question that *)
(* was published all the while, and none twice, whatever jobs write        *)
(* between two pages.                                                      *)
PagesCoverThePack == ~ walk.twice /\ (walk.at = "over" => stayed \subseteq walk.listed)

(* Once the duplicates are marked, no job having written meanwhile, no two *)
(* published questions have one wording.                                   *)
MarkedIsAskedOnce == marked => AskedOnce

(* When jobs do not overlap, write drafts or leave a question without its  *)
(* text, and no wording changes, tickets ask what their templates do,      *)
(* though a job may break off marking.                                     *)
OrderlyTickets == tidy => \A n \in Numbers : AsksItsTemplate(n, known)

(* A version that was published stays published, whatever is added to it   *)
(* or counted, unless two jobs held it at once.                            *)
OrderlyPacks == \A v \in launched \ met : packs[v].status = "published"

(* The sources of an answer are official and differ. *)
TutorIsGrounded == AnswersAreOfficial /\ SourcesDiffer

(* Whatever the clauses and the lengths of its paragraphs, a text of law   *)
(* is in the corpus whole.                                                 *)
PassagesCoverTheLaw == desk = "law" => \A list \in MCLists : CoversTheLaw(list)

(* "Keeps the oldest of each set and marks the rest": after marking, no    *)
(* job having written meanwhile, the question kept of each set is asked.   *)
KeptQuestionsAreAsked == marked => KeptIsAsked
=============================================================================
