-------------------------------- MODULE Tutor --------------------------------
(***************************************************************************)
(* The AI tutor, enabled and with a model: TutorUsecase.Ask over a corpus  *)
(* of official texts, which is kept in memory, rebuilt under a mutex once  *)
(* it is 15 minutes old, and used after the mutex is released.  The texts  *)
(* change under it: cmd/lex-import replaces those of a document, here the  *)
(* Rules, in one transaction; the explanations of the published questions  *)
(* are read page by page, one question to a page.  A query's words are     *)
(* abstracted: a search may find any passages, up to its limit.            *)
(***************************************************************************)
EXTENDS Naturals, FiniteSetsExt, SequencesExt

CONSTANTS
  Askers,          \* POST /ai/tutor calls
  Editions,        \* what lex-import may store: lists of paragraphs, in a sequence
  LastExplained,   \* published questions, at least one, numbered as their public ids sort
  Explanations,    \* what may be written under one
  NoExplanation,   \* nothing is
  RuleSources,     \* tutorRuleSources
  QuestionSources, \* tutorQuestionSources
  CorpusTTL,       \* steps of tutorCorpusTTL
  PassageMax,      \* rulePassageMaxRunes
  ChunkMax,        \* ruleChunkRunes
  MaxEdits,        \* changes of a text
  TutorFaults      \* calls that may fail

Paragraphs == [id: Nat, clause: Nat, size: Nat]

ASSUME TutorAssumption ==
  /\ IsFiniteSet(Askers)
  /\ Editions \in Seq(Seq(Paragraphs)) /\ Editions # <<>>
  /\ "nobody" \notin Askers /\ NoExplanation \notin Explanations
  /\ LastExplained \in Nat \ {0}
  /\ {RuleSources, QuestionSources, CorpusTTL, MaxEdits, PassageMax, ChunkMax} \subseteq Nat
  /\ TutorFaults \subseteq {"build", "question"}

VARIABLES
  edition,   \* legal_paragraphs: one of Editions
  explained, \* the explanation of each published question
  gone,      \* steps for which a text has not been official, up to CorpusTTL + 1
  edits,     \* changes of texts so far
  corp,      \* u.corp
  freshFor,  \* steps until it is too old
  lock,      \* who holds u.mu
  asking,    \* where each call is
  ask,       \* what it has at hand
  reply      \* its answer: how old the oldest text it cites is, and whether the
             \* corpus was to be replaced but could not be

texts     == <<edition, explained, edits>>
cache     == <<corp, freshFor, lock>>
tutorVars == <<texts, gone, cache, asking, ask, reply>>

-----------------------------------------------------------------------------
(* LegalPassages.  A clause's paragraphs are one passage, or if they are   *)
(* too long several, which repeat its lead.  A paragraph stands for its    *)
(* text, whose length is its size.                                         *)
Passage(start, list) == [kind |-> "rule", id |-> start.id, text |-> list]
Ellipsis    == [id |-> 0, clause |-> 0, size |-> 0]

Size(list) ==
  LET size[n \in 0 .. Len(list)] == IF n = 0 THEN 0 ELSE size[n - 1] + list[n].size
  IN  size[Len(list)]

NewPart_LeadNotCounted(lead, p) == [start |-> p, list |-> <<lead, Ellipsis, p>>, size |-> p.size]
NewPart(lead, p) == [start |-> p, list |-> <<lead, Ellipsis, p>>, size |-> lead.size + p.size]

AddToPart(part, p) == [start |-> part.start, list |-> Append(part.list, p), size |-> part.size + p.size]

PutIntoParts(parts, lead, p) ==
  LET last == parts[Len(parts)]
  IN  IF last.size + p.size > ChunkMax /\ Len(last.list) > 1
      THEN Append(parts, NewPart(lead, p))
      ELSE [parts EXCEPT ![Len(parts)] = AddToPart(last, p)]

Parts(group) ==
  LET lead == group[1]
      parts[n \in 0 .. Len(group) - 1] ==
        IF n = 0 THEN <<[start |-> lead, list |-> <<lead>>, size |-> lead.size]>>
                 ELSE PutIntoParts(parts[n - 1], lead, group[n + 1])
  IN  parts[Len(group) - 1]

PutIntoGroups(groups, p) ==
  IF groups # <<>> /\ groups[Len(groups)][1].clause = p.clause
  THEN [groups EXCEPT ![Len(groups)] = Append(groups[Len(groups)], p)]
  ELSE Append(groups, <<p>>)

Clauses(list) ==
  LET groups[n \in 0 .. Len(list)] == IF n = 0 THEN <<>> ELSE PutIntoGroups(groups[n - 1], list[n])
  IN  groups[Len(list)]

PassagesOf(group) ==
  IF Size(group) <= PassageMax
  THEN <<Passage(group[1], group)>>
  ELSE [n \in 1 .. Len(Parts(group)) |-> Passage(Parts(group)[n].start, Parts(group)[n].list)]

LegalPassages(list) == FlattenSeq([i \in 1 .. Len(Clauses(list)) |-> PassagesOf(Clauses(list)[i])])

HasText(p) == p.text # NoExplanation

(* newTutorIndex: of the passages of one text the first is indexed; those  *)
(* without a text (of a question) are no passages.                         *)
Repeats(list, i)    == \E k \in 1 .. i - 1 : list[k].text = list[i].text
NewTutorIndex(list) == {list[i] : i \in {n \in DOMAIN list : HasText(list[n]) /\ ~ Repeats(list, n)}}

PassageFromQuestion(q) == [kind |-> "question", id |-> q, text |-> explained[q]]

(* A corpus is its two indexes, and the edition its rules are of. *)
NoCorpus == [edition |-> 0, rules |-> {}, questions |-> {}]

-----------------------------------------------------------------------------
(* What is official: an edition, or an explanation of a question.          *)
Facts == [kind: {"rule"}, id: {0}, text: DOMAIN Editions]
           \cup [kind: {"question"}, id: 1 .. LastExplained, text: Explanations]
RuleFact(e)    == [kind |-> "rule", id |-> 0, text |-> e]
Fact(p, e)     == IF p.kind = "rule" THEN RuleFact(e) ELSE p
IsOfficial(f)  == f.text = IF f.kind = "rule" THEN edition ELSE explained[f.id]
Age(f)         == IF IsOfficial(f) THEN 0 ELSE gone[f]

(* The question asked about, if any; the questions read for a new corpus;  *)
(* the corpus got, and whether for want of a new one; the sources.         *)
NoAsk   == [about |-> 0, pages |-> <<>>, corpus |-> NoCorpus, failed |-> FALSE, sources |-> <<>>]
NoReply == [oldest |-> 0, failed |-> FALSE]

TutorInit ==
  /\ edition = 1 /\ explained \in [1 .. LastExplained -> Explanations \cup {NoExplanation}]
  /\ gone = [f \in Facts |-> 0] /\ edits = 0
  /\ corp = NoCorpus /\ freshFor = 0 /\ lock = "nobody"
  /\ asking = [a \in Askers |-> "client"]
  /\ ask = [a \in Askers |-> NoAsk]
  /\ reply = [a \in Askers |-> NoReply]

(* cmd/lex-import stores another edition, in a transaction. *)
ReplaceDocument(e) == edition' = e /\ gone' = [gone EXCEPT ![RuleFact(e)] = 0]

LexImport(e) ==
  /\ edits < MaxEdits /\ edits' = edits + 1
  /\ e # edition /\ ReplaceDocument(e)
  /\ UNCHANGED <<explained, cache, asking, ask, reply>>

(* A question is published with an explanation, or its own is corrected. *)
Explain(q, x) ==
  /\ edits < MaxEdits /\ edits' = edits + 1
  /\ x # explained[q] /\ explained' = [explained EXCEPT ![q] = x]
  /\ gone' = [gone EXCEPT ![[kind |-> "question", id |-> q, text |-> x]] = 0]
  /\ UNCHANGED <<edition, cache, asking, ask, reply>>

(* A step of time; the database answers far faster, the model may not. *)
Ages(f) == ~ IsOfficial(f) /\ gone[f] <= CorpusTTL
TutorTick ==
  /\ \A a \in Askers : asking[a] \notin {"pages", "law", "gather"}
  /\ freshFor > 0 \/ \E f \in Facts : Ages(f)
  /\ freshFor' = IF freshFor = 0 THEN 0 ELSE freshFor - 1
  /\ gone' = [f \in Facts |-> IF Ages(f) THEN gone[f] + 1 ELSE gone[f]]
  /\ UNCHANGED <<texts, corp, lock, asking, ask, reply>>

-----------------------------------------------------------------------------
Turn(a, place, m) ==
  /\ asking' = [asking EXCEPT ![a] = place]
  /\ ask' = [ask EXCEPT ![a] = m]
  /\ UNCHANGED reply
Leave(a) ==
  /\ asking' = [asking EXCEPT ![a] = "replied"]
  /\ ask' = [ask EXCEPT ![a] = NoAsk]
(* An error, or the fixed answer that the sources say nothing. *)
NoAnswer(a) == Leave(a) /\ UNCHANGED reply
Reply(a, cited) ==
  /\ Leave(a)
  /\ reply' = [reply EXCEPT ![a] = [oldest |-> Max({s.age : s \in cited}), failed |-> ask[a].failed]]

(* A call comes with a question or none; one without a message is refused. *)
Ask(a) ==
  /\ asking[a] = "client"
  /\ \/ \E q \in 0 .. LastExplained : Turn(a, "corpus", [NoAsk EXCEPT !.about = q])
     \/ NoAnswer(a)
  /\ UNCHANGED <<texts, gone, cache>>

(* corpus, under the mutex: the one in memory, if there is one not too old.*)
Usable_AnyCorpus == corp # NoCorpus
UsableCorpus     == corp # NoCorpus /\ freshFor > 0

Take(a, corpus, failed) ==
  Turn(a, "gather", [ask[a] EXCEPT !.pages = <<>>, !.corpus = corpus, !.failed = failed])

TakeCorpus(a) ==
  /\ asking[a] = "corpus" /\ lock = "nobody"
  /\ \/ UsableCorpus /\ Take(a, corp, FALSE) /\ UNCHANGED lock
     \/ ~ UsableCorpus /\ Turn(a, "pages", ask[a]) /\ lock' = a
  /\ UNCHANGED <<texts, gone, corp, freshFor>>

(* questionPassages, a page. *)
QuestionPassages(a) ==
  LET read == Append(ask[a].pages, PassageFromQuestion(Len(ask[a].pages) + 1))
  IN  /\ asking[a] = "pages"
      /\ Turn(a, IF Len(read) = LastExplained THEN "law" ELSE "pages", [ask[a] EXCEPT !.pages = read])
      /\ UNCHANGED <<texts, gone, cache>>

(* ListParagraphs, then the corpus is there and the mutex released. *)
BuildCorpus(a) ==
  /\ asking[a] = "law" /\ lock' = "nobody"
  /\ corp' = [edition   |-> edition,
              rules     |-> NewTutorIndex(LegalPassages(Editions[edition])),
              questions |-> NewTutorIndex(ask[a].pages)]
  /\ freshFor' = CorpusTTL
  /\ Take(a, corp', FALSE)
  /\ UNCHANGED <<texts, gone>>

(* "A failed rebuild keeps serving the old corpus." *)
BuildFails(a) ==
  /\ asking[a] \in {"pages", "law"} /\ "build" \in TutorFaults /\ lock' = "nobody"
  /\ \/ corp # NoCorpus /\ Take(a, corp, TRUE)
     \/ corp = NoCorpus /\ NoAnswer(a)
  /\ UNCHANGED <<texts, gone, corp, freshFor>>

(* search: any passages but the one excluded, up to the limit. *)
Search(index, limit, exclude) ==
  {SetToSeq(S) : S \in {T \in SUBSET {p \in index : p.id # exclude} : Cardinality(T) <= limit}}

(* The explanation of the question asked about is read anew and is the     *)
(* first source; the two indexes add to it.  Without any there is no       *)
(* answer.  A source is as old as it has not been official.                *)
Gather(a) ==
  LET q      == ask[a].about
      corpus == ask[a].corpus
      own    == IF q # 0 /\ explained[q] # NoExplanation THEN <<PassageFromQuestion(q)>> ELSE <<>>
      Put(list) == Turn(a, "model", [ask[a] EXCEPT !.corpus = NoCorpus, !.sources =
                     [i \in DOMAIN list |->
                        [passage |-> list[i], age |-> Age(Fact(list[i], corpus.edition))]]])
  IN  /\ asking[a] = "gather"
      /\ \/ \E rules \in Search(corpus.rules, RuleSources, 0),
               others \in Search(corpus.questions, QuestionSources, IF own = <<>> THEN 0 ELSE q) :
              IF own \o rules \o others = <<>> THEN NoAnswer(a) ELSE Put(own \o rules \o others)
         \/ q # 0 /\ "question" \in TutorFaults /\ NoAnswer(a)
      /\ UNCHANGED <<texts, gone, cache>>

(* The model may say that it is sure and used some of the sources; what    *)
(* else it names is dropped, and without a source there is no answer.      *)
Answer(a) ==
  /\ asking[a] = "model"
  /\ \/ \E used \in SUBSET (1 .. Len(ask[a].sources) + 1) :
          LET cited == used \cap DOMAIN ask[a].sources
          IN  cited # {} /\ Reply(a, {ask[a].sources[n] : n \in cited})
     \/ NoAnswer(a)
  /\ UNCHANGED <<texts, gone, cache>>

ServeAsker(a) ==
  \/ Ask(a) \/ TakeCorpus(a) \/ QuestionPassages(a) \/ BuildCorpus(a) \/ BuildFails(a)
  \/ Gather(a) \/ Answer(a)

TutorNext ==
  \/ \E a \in Askers : ServeAsker(a)
  \/ \E e \in DOMAIN Editions : LexImport(e)
  \/ \E q \in 1 .. LastExplained, x \in Explanations : Explain(q, x)
  \/ TutorTick

TutorSpec == TutorInit /\ [][TutorNext]_tutorVars

-----------------------------------------------------------------------------
(* Types, and the mutex is held by the call that rebuilds the corpus.      *)
TutorTypeOK ==
  /\ edition \in DOMAIN Editions
  /\ explained \in [1 .. LastExplained -> Explanations \cup {NoExplanation}]
  /\ gone \in [Facts -> 0 .. CorpusTTL + 1] /\ edits \in 0 .. MaxEdits
  /\ freshFor \in 0 .. CorpusTTL /\ (freshFor > 0 => corp # NoCorpus)
  /\ asking \in [Askers -> {"client", "corpus", "pages", "law", "gather", "model", "replied"}]
  /\ \A a \in Askers : /\ asking[a] \in {"pages", "law"} <=> lock = a
                       /\ ask[a].about \in 0 .. LastExplained
  /\ reply \in [Askers -> [oldest: 0 .. CorpusTTL + 1, failed: BOOLEAN]]

(* "A re-import of the Rules or a newly published pack shows up without a  *)
(* restart": what an answer cites was official when its corpus's life, or  *)
(* less, ran back from the search, unless the corpus could not be rebuilt. *)
AnswersAreOfficial ==
  \A a \in Askers : reply[a].failed \/ reply[a].oldest <= CorpusTTL

(* "As sources they would say the same thing": no two sources of an answer *)
(* have one text, but for the question's own explanation, which another    *)
(* question of the corpus may share.                                       *)
SourcesDiffer ==
  \A a \in Askers : \A i, k \in DOMAIN ask[a].sources :
    i < k /\ ask[a].sources[i].passage.text = ask[a].sources[k].passage.text
      => i = 1 /\ ask[a].about # 0

(* Every paragraph is in one passage, verbatim and in its order, but for   *)
(* the lead that the parts of a long clause repeat; passages have names of *)
(* their own; and none is longer than it may be, unless it is the lead and *)
(* one paragraph.                                                          *)
CoversTheLaw(list) ==
  LET passages == LegalPassages(list)
      own(t)   == IF Len(t) > 2 /\ t[2] = Ellipsis THEN SubSeq(t, 3, Len(t)) ELSE t
  IN  /\ FlattenSeq([i \in DOMAIN passages |-> own(passages[i].text)]) = list
      /\ \A i, k \in DOMAIN passages : i # k => passages[i].id # passages[k].id
      /\ \A i \in DOMAIN passages :
           Size(passages[i].text) <= PassageMax \/ Cardinality(ToSet(passages[i].text) \ {Ellipsis}) <= 2
=============================================================================
