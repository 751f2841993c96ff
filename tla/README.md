# Formal models of the AvtoFast backend

TLA+ specifications of the parts of this backend in which several requests, devices
or failures meet in the same rows, the TLC configurations that check them on small
instances, and theorems about them checked by TLAPS. Every definition is written from
the Go source; `PROJECT.json` gives, for each one, the lines it stands for.

## 1. Inventory

The service is a Fiber HTTP server. A handler calls a use case; a use case calls
repositories. In production the repositories are Postgres (`internal/repository/postgres`)
and Redis (`internal/repository/redis`); `internal/repository/memory` stands in for both in
tests and when no database is configured. Each request is a goroutine. Hardly any use case opens a
transaction over more than one repository call, so **the unit of atomicity is the
repository call**, and requests interleave at every one of them.

| Component | State it keeps | Operations | Hard behaviour | Correct means |
|---|---|---|---|---|
| Learner statistics | `user_stats`: XP, level, streak, last activity date, counters | read and written whole by practice completion, exam submission, each offline answer | unlocked read-modify-write, ignored errors, two clocks (`time.Now`, `CURRENT_DATE`) | rows agree with themselves, nothing is credited twice or lost, streaks are earned on consecutive days |
| Mock exams | `mock_exams`, `mock_exam_questions` | create, answer, submit | deadline and submission race answers and each other; grading is a loop of calls whose errors are ignored | one grade, of one set of answers, credited once; gaps queued for review |
| Practice sessions | `practice_sessions`, `practice_session_questions` | create, answer, complete | client retries, answers during completion, credit before status | paid once, a repeat reads what the first reply said, counts are what was answered |
| Offline synchronization | `sync_events`, the device's list of pending events | upload a batch | lost replies, several devices, an event stored before it is applied | every answer credited once, none forgotten |
| Review queue | `user_mistakes` | upsert, due list, paginated list | racing answers, pages cut by a key they are not ordered by | mistakes stay queued until reviewed, pages cover the list |
| Idempotency | Redis keys, 24 h | look up, run the handler, store the reply | check-then-act, Redis failing, what is stored and for how long | a key runs its handler once and its retries read one reply |
| Rate limiting | Redis counters, 60 s, one per path and client | INCR with EXPIRE, TTL | expiry renewed by denied calls, two limiters on one counter, fail open | no window has more calls than the limit, nobody is denied below it, `Retry-After` is enough |
| Accounts and sessions | `users`, default rows, settings, JWTs | sign-in by Firebase, Telegram, as a guest; refresh; `/me`; delete; roles | SELECT then INSERT, whole-row updates, tokens that outlive the account | one account per identity, no write taken back, a deletion is final |
| Firebase key cache | certificates under a RWMutex, an hour | look up, refetch, store, look again | concurrent refetches whose answers overtake each other, rotation, failures | no token verified with a withdrawn key, no good one refused |
| Entitlements and billing | `user_entitlements`, purchases, devices | verify, restore, expire, push tokens | retried verification, midnight, expiry | premium while paid for, and only then |
| Content administration | packs, questions with translations, audit log | draft, add, publish, roll back | whole-row writes of packs read earlier, two statements for one question | a published pack stays published |
| Topics and numbered tests | slices of the question bank | list, start | a bank that changes under its slices | tests partition a topic and keep their questions |
| Tickets, road signs | replaced in one transaction | import, mark duplicates, list | duplicates marked in several statements, jobs that overlap | no question twice, tickets ask what their template does |
| Tutor | cached corpus under a mutex, 15 min | import of laws, rebuild, search, answer | rebuilds that fail or are waited for, texts that change meanwhile | sources are official and differ, no text of law is lost |
| Maintenance tools | the question bank and the law | scrape, seed, import tickets, classify topics, import law | crash between statements, tools that run at once | - |
| In-memory store | maps under one mutex | all of the above | rows handed out as pointers | behaves as Postgres does |
| Dashboard, router, configuration, classifier, helpers | none of their own | reads, wiring, text processing | - | - |

**Interactions.** Practice, exams and sync all write `user_stats` and `user_mistakes`. The
handlers of practice and exams sit behind the rate limiter and the idempotency middleware,
which decide how often a use case runs at all: the models of these use cases let a client's retry reach
them any number of times, which is what happens when it sends a new key, when two calls with
one key overlap, or when the server died before it stored the reply. `Purchases` has the middleware and a
handler in one module and shows exactly these cases. The question bank feeds the draws of practice and exams, the
numbered tests, the tickets and the tutor; administrators and tools write it at once.

## 2. Modules

| Module | Models | Role |
|---|---|---|
| `LearnerStats` | `nextStreak`, XP rules, level, score, the row a request writes back | pure operators the others share |
| `StatsLedger` | the read-modify-write of `user_stats` by any number of requests | abstract specification of progress keeping |
| `MockExam` | `MockExamUsecase` over its Postgres repository | detailed |
| `PracticeSession` | `PracticeUsecase` over its Postgres repository | detailed |
| `LearnerProgress` | both of these on the rows they share | composition; implements `StatsLedger` |
| `OfflineSync` | `SyncUsecase`, `SyncRepository` and the uploading client | detailed; implements `StatsLedger` |
| `RateLimit` | `middleware.RateLimit` over `redis.Store.Allow`, as the router mounts it | detailed |
| `KeyCache` | `firebase.Verifier` and what the session handler makes of its errors | detailed |
| `Purchases` | `middleware.Idempotency` around the billing handlers, over Redis and Postgres | detailed |
| `Accounts` | sign-in, tokens, `Authenticate`, roles, profile, settings, deletion | detailed |
| `QuestionBank` | administration, the tools that write the bank, tests, tickets, pages | detailed |
| `Tutor` | the tutor's corpus, its rebuild, the sources of an answer, the cutting of laws | detailed |
| `StatsLedgerProofs`, `OfflineSyncProofs`, `PracticeSessionProofs`, `MockExamProofs`, `LearnerProgressProofs`, `FrontDoorProofs`, `TutorProofs`, `ContentProofs` | - | theorems and proofs, also about the histories of the MC modules they extend |
| `MCStatsLedger`, `MCMockExam`, `MCPracticeSession`, `MCLearnerProgress`, `MCOfflineSync`, `MCSyncRetries`, `MCRateLimit`, `MCFrontDoor`, `MCContent` | - | instances for TLC, symmetry, history variables |

`MCFrontDoor` instantiates four modules that share no state (`RateLimit`, `KeyCache`, `Purchases`, `Accounts`), and
`MCContent` two (`QuestionBank`, `Tutor`). A behaviour is one of one of them: the variable `door` or `desk` picks which
when it begins, so that the run is the sum of the instances and not their product.

### How state and actions correspond to the code

* A **request** has a program counter (`pc`, or `phase` in the ledger, or `work[u][e]` for
  event `e` of upload `u`), the locals of its use case (`snap`, `tally`, `now`, `row`) and what
  the client was told (`reply`). Every repository call is one action and carries the name of
  the call: `SaveExamAnswer`, `GetSessionTally`, `UpdateUserStats`. What the use
  case computes between two calls is part of the action of the call that follows or precedes it.
* The other modules have a program counter of the same kind: `limiting`, `verifying`, `billing`, `serving`,
  `at` (the place of a worker in its job), `asking`. A lock held over several calls is a variable (`Tutor`'s `lock`); a
  critical section without a call in it is one action (`KeyCache`). A job of `QuestionBank` is a tool's or an
  administrator's; an action is one statement or transaction of it.
* **Time** is days where dates are stored, and steps of the window, the hour or the corpus's life where something
  expires. It does not pass during a call of which the code bounds the duration (`KeyTick`, `TutorTick`).
* The **clock** is read by actions of its own (`TakeNow`) where another request or midnight
  can come between the reading and its use; `SubmitExam` takes its `now` with its status check.
* An **error** the code returns ends the request; an error the code drops is a second
  disjunct of the action that leaves the database alone and carries on. Which errors may happen is
  the constant `Faults`, so that each run says what it assumes.
* A **crash** is the death of the process under a request: the database stays as it is, the
  client loses the connection and may ask again.
* **Abstracted data.** An answer is right or wrong; a paper is a set (practice) or sequence
  (exam) of questions; the review queue is the set of questions in it (its intervals are not
  modelled, section 6). Which questions a practice mode selects is any non-empty set of
  them. A question of the bank is its wording, its topic and its status; a token is its key or its subject; a paragraph is its
  length. The exam clock is whether `deadline_at` has passed; dates are numbers.
* **History variables** (`known`, `paid`, `credits`, `earned`, `activeDays`; `orderly` and
  `kept` in the MC modules) are never read by an action's guard; they let properties speak of the past.
* The practice, exam and sync modules have one learner; checks of ownership (`FORBIDDEN`) are therefore left out.
* A definition named `X_How` is a plausible defect of `X`. No specification uses one;
  `PROJECT.json` pairs each property with one that it detects.

### The abstract specification

`StatsLedger` lets each request earn some credit, read the row (or fail to), take its date, and write the
row back, in any interleaving, with failures and midnight. `LearnerProgress`, that is exams and practice sessions
alone and against each other, and `OfflineSync` map their program counters to its `phase` and their
computed credits to its `credit` (`Ledger == INSTANCE StatsLedger WITH ...`), and are checked, and
proved (section 5), to satisfy `Ledger!Spec`. So what is proved of the ledger for all parameters holds of the
row that the three use cases write.

## 3. Runs

| Run | Question | Properties |
|---|---|---|
| `ledger` | what survives lost updates, failed reads, crashes and midnight | `TypeOK`, `RowConsistent`, `NeverOverCredited`, `StreakEarned`, `LastActivityAdvances`; while no request works on an outdated row, `NothingLostWhileCurrent`; while none straddles midnight or is empty, `StreakIsConsecutiveWhilePunctual` |
| `exam` | what overlapping answers, submissions and crashes do to a grade | `TypeOK`, `GradeIsOfOneSnapshot`, `AcknowledgedAnswersAreGraded`, `GapsAreQueued`; while submissions do not overlap, `OrderlyExams` (graded at most once, flags add up) |
| `practice` | what is counted, stored, queued and paid | `TypeOK`, `CountsAreOfAnswers`, `MistakesStayQueued`; while completions neither overlap nor break off, `OrderlyCompletions` (paid at most once, replies tell one count and the gain at most once) |
| `services` | do exams and practice together keep the ledger, and does every submission and completion come to an end | `KeepsTheLedger`, `SubmissionCompletes`, `CompletionCompletes` |
| `sync_faults` | two devices, every fault | `TypeOK`, `CreditedAtMostOnce`, `NothingForgotten`, `KeepsTheLedger` |
| `sync_retries` | are retries harmless, and is what is stored credited in the end | `OrderlyStatsMatchTheLog` while uploads do not overlap, `StoredIsCredited` |
| `front_door` | what stands before the use cases | `FrontDoorTypeOK`; `LimitersHold`; `KeyCacheIsSound`; `OrderlyKeyRunsOnce`, `TermsRunAndEnd`; `DeletionIsFinal`, `OrderlyAccounts` |
| `content` | what learners are served of a bank and of laws that change | `ContentTypeOK`; `NumberedTestsAreStable`, `PagesCoverThePack`, `MarkedIsAskedOnce`, `OrderlyTickets`, `OrderlyPacks`; `TutorIsGrounded`, `PassagesCoverTheLaw` |
| `exam_twice` | violated: "grades the attempt exactly once" | `GradedAtMostOnce` |
| `practice_died` | violated: "Completing twice must not pay twice" | `PaidAtMostOnce` |
| `sync_dropped` | violated: offline work "counts for exactly what it would have online" | `AcceptedIsCredited` |
| `limit_denies` | violated: "limited to 20 requests a minute" | `DeniedOnlyAboveTheLimit` |

**Conditional properties.** Several promises hold only in part. Rather than shrink an instance until
they hold, the MC modules watch the behaviour with a history variable (`orderly`, `kept`, `tidy`) that turns false when the
circumstance the promise depends on fails, or collects what it fails for (`crossed`, `disturbed`, `raced`, `shared`,
`shifted`, `met`), and the property excepts these. The behaviours in which it is false are explored too, by the other properties.
Such a property does not promise that the circumstance does no harm: mostly it does, and the harm is a hazard of the code. It says that *nothing else* does.
`OrderlyKeyRunsOnce` excepts overlapping calls of one key, `OrderlyAccounts` sign-ins that meet and calls that hold one row at once,
`OrderlyPacks` jobs that hold one version at once, `MarkedIsAskedOnce` a marking that breaks off or is interfered with, `NumberedTestsAreStable` marking and filing, and
`NothingLostWhileCurrent` overlapping requests and failed reads.

**Bounds.** *Progress.* Three concurrent requests for the ledger, exams and practice, because two
writers and a third party (an answer acknowledged between two submissions' loads, a retry after
two overlapping calls) are the smallest cases that differ; two questions, so that a grading loop can be
interrupted between them; three days for the ledger, because a bridged gap needs a day that was
missed; two uploads and two events, so that batches overlap and an event is retried behind another one. The
refinement runs use two requests and two days: a refinement is about single steps of one request against the
shared row, and the ledger run has three. `MaxSubmits`, `MaxRunning` and `MaxInFlight`
bound how many requests overlap, `MaxDay` the calendar.
*Front door.* Limits of 3 and 2 with a window of 2 steps, and a client who makes no further call once his counter stands at `MaxCount` = 5, which is above either limit:
enough to be denied on either route, to be denied again while waiting, and to come back; a window may be watched from any call on. Four keys of which Google serves two at a time, and an hour of 2 steps: enough for a key to be cached,
withdrawn and outlive the hour, and for the older of two answers to be stored last. Three billing calls with two keys, one of
them no key at all, and a term, a kept reply and a calendar of 1, 1 and 2 days: two retries of one purchase, one of them after the reply was
dropped, and a term that ends. Two calls on three accounts: a pair of calls is what a race takes, and one account is there before.
*Content.* Four questions, two of them word for word the same, in two topics and two tickets, tests and pages of
two: every slice has a neighbour it can borrow from. Two workers and three jobs, all three of which may meet at the desk `empty`; two at
`tickets` and `packs`, where a third comes when it is alone. The desks
`tests` and `pages` have one worker at a time, since what a learner sees depends on the order of statements and not on who issues them, and `pages` two jobs.
The theorems about the bank (section 5) do without these restrictions. Two askers, who wait for each other at the
mutex and hold corpora of different age; one change of a text, which is what it takes to make one outdated; texts of law of up to four paragraphs of sizes 1 to 3 against a
part of 3 and a passage of 4, all of them.
No other variable grows without an end: each request, call, event and job is used once. `CHECK_DEADLOCK FALSE` everywhere: when every request has been
answered and the calendar has ended, the system rests.
`MCStatsLedger`'s `VIEW` identifies states that differ only in what finished requests once held, which no
action and no property reads.

**Fairness.** `Fairness` of `OfflineSync` and of `LearnerProgress` is weak fairness of what the server does for requests it
has received (`ProcessEvents`; `Serve`, one of the requests at a time): a goroutine that can run is run by the Go scheduler, repository calls return, and a request takes
a bounded number of steps, so that each comes to its end although only their union is fair. Nothing is
assumed of clients, of clocks, or of faults; no client has to retry. Crashes are not fair
either, so liveness properties name the crash as an alternative or are checked without it. The other modules have no
liveness property: their calls are bounded sequences of steps, and the tutor's mutex is given up on every path by the type invariant and the absence of
a step that keeps it.

## 4. What the checks show

*Progress.*

* Whole-row writes keep the row consistent, never credit too much and never lengthen a
  streak beyond the active days; `last_activity_date` never goes back.
* They do not keep everything. An update is lost whenever two requests of the learner
  overlap; a failed read makes practice and sync write a fresh row over all progress; a practice
  session without an answer, or a request over midnight, dates the row with a day the streak did not
  count, and the next day's streak bridges the gap. The two conditional properties of
  `ledger` say that nothing else goes wrong.
* An exam's stored grade is always that of one set of answers loaded whole, contains every
  answer acknowledged before the submission arrived, and leaves its gaps in the review queue. But
  two overlapping submissions both pay (`exam_twice`); and an answer admitted before a submission may still be saved
  after it, and a submission after the deadline is graded, where
  `docs/BACKEND_API_RELEASE.md` (lines 373 and 557) says otherwise.
* A completion counts exactly the answers it should and stores what it tallied. It pays
  again after a crash between paying and completing (`practice_died`), or when two overlap. Completed again later it pays nothing, and its reply has the stored counts,
  but 0 XP and a streak of 0 (`practice_usecase.go`, lines 312 to 317): a learner who lost the first reply, and retries under a new key or after the key's day, never reads what he won.
  `docs/BACKEND_API_RELEASE.md` has "return the original response for retries" (line 48) and "it must be idempotent" (line 315); `RepeatsReadTheOriginal`
  (stated in `PracticeSession`, part of no run) says so and does not hold. What holds is `RepeatsTellNoGain`: the counts agree, and the gain is told at most once.
* An offline event is credited at most once under every fault: the insert into
  `sync_events` is a lock that is never given back. For the same reason an event whose
  application failed is never credited (`sync_dropped`). An event of the documented type `practice_answered`
  is stored and ignored; the code knows `practice_answer`. The event's id is unique over all learners, so that another learner's
  event of the same id would count as stored; with one learner in the model this is read off the schema and not checked.

*Front door.*

* The limiter is an upper bound: in no window, whenever it begins, does it let through more calls than the limit, unless Redis fails; and `Retry-After` is enough although denied
  calls renew the counter. But it denies clients who stay within the limit (`limit_denies`). On `/ai/tutor` each call counts twice, because the group's limiter and the route's own use
  one Redis key: the "20 requests a minute" of `api/openapi.yaml` (line 396) are 10. And on every route the counter's life is renewed by each call (`redis.go`, line 50), so that it counts the calls
  since the client was last silent for a whole minute: one who asks the tutor every 30 seconds is denied at his eleventh question. This is no "sliding window" (`README.md`, line 16, of the repository). With `route = "sync"` alone the
  property is violated as well, by a client whose calls are spread over more than the window.
* A token is accepted only with a key served within the last hour, or because Google could not be asked. When two refetches meet and
  the older answer is stored last, a good token of the newer key is refused. An outage is answered 401
  instead of the 503 that the handler has for it (`OutageIsNotABadToken`, stated in `KeyCache`, part of no run, does not hold). The keys are refetched for every token of an unknown key, and by each of several calls at once, where the
  comment of `Verifier` (`pkg/firebase/verifier.go`, lines 50 and 51) says at most once per expiry window.
* A key of the idempotency middleware runs its handler once and its retries read the same reply, except in the circumstances that `Disturbs`
  lists: overlapping calls, a failing Redis, a death, a reply of 500 or more, and a day gone by. Failures mapped to 400 are kept like successes.
* Premium runs out: nobody is told that he is premium who did not ask for a verification within the term, whatever the row or Redis still keeps. That he *bought* anything no property says, because nothing in the code
  does. `VerifyPurchase` is a "server-side validation simulation" (`billing_usecase.go`, lines 62 and 63): it asks no store, drops the error of `RecordPurchase`, takes a transaction that is recorded for another user
  (`ON CONFLICT DO NOTHING`), and makes up an id from the clock when there is none, so that any well-formed call gives a term. `docs/BACKEND_API_RELEASE.md` asks for verification with Apple and Google, a transaction stored uniquely (line 476), and
  server-side verification with reconciliation (line 559). `PremiumHasAPurchase` (stated in `Purchases`, part of no run), the weakest reading of it, does not hold.
  A retry that verifies again begins the term anew;
  one whose two writes have midnight between them may shorten it. A restore reads the row and repeats no reconciliation: after a purchase was recorded and its entitlement
  not saved, `RestoreReconciles` (stated in `Purchases`, part of no run) does not hold.
* Two first sign-ins at once make two accounts of one identity, and two calls that hold one row at once take back each other's writes;
  `OrderlyAccounts` says that nothing else does. A deletion is final under every interleaving. A guest who reopens the app gets another account
  (`ReopeningKeepsTheGuest`, part of no run), because the older `/auth/guest` route is registered first and makes its provider id of the clock.
* Onboarding without an exam date is answered 500: the handler stores an empty date "so onboarding is never blocked"
  (`profile_handler.go`, lines 87 to 90) in a column that is `DATE NOT NULL`.

*Content.*

* Tests partition their topic at every moment, and keep their questions unless one of the topic is withdrawn or one inserted earlier comes in; then
  every test behind it shifts, under a learner who has it open. Pages of a pack skip and repeat nothing, whatever is written between two of them.
* Duplicates that were marked by a job alone are gone from what is asked. Which of a set is kept is another matter: `MarkContentDuplicates` "keeps the oldest of each set"
  (`ticket_repo.go`, lines 101 to 105), and its candidates include the questions marked before. The oldest of a set may be one of those: marked as a duplicate of another,
  its wording corrected since, which leaves its status alone. Then the published ones of the new set are marked and none of it is asked; `KeptQuestionsAreAsked`
  (in `MCContent`, part of no run) says otherwise and does not hold.
* Tickets ask what their templates do, while jobs do not overlap, write drafts or leave a question without its text. The last is needed: when an import breaks off between a question's row and its text
  (two statements, `content_repo.go`, line 535), the tickets are imported, a refetch brings the late text of a row with a smaller id than its duplicate has, and the tickets are imported again, then the tickets point, until they are replaced, at a
  question that is about to be marked. A job that breaks off while marking does no harm.
* A published version stays published unless two jobs hold it at once; whole-row writes of one then take back the other's publication. A rollback changes nothing but the audit log
  (`admin_usecase.go`, lines 183 to 199), where the API document (line 526) has it switch the active pack to a prior version.
* The wording of a question is one value in the model. In the database it is several columns, the picture by `COALESCE(image_sha256, image_url, '')` (`ticket_repo.go`, line 114): the question writer stores an empty checksum as it is
  (`content_repo.go`, lines 477 to 479), an empty string is not NULL, and two questions that differ only in pictures without a checksum are marked as duplicates. The model does not have this.
* The tutor's sources were official within the corpus's life, unless a rebuild failed, and no two say the same, except that the explanation of the question asked about
  may come again under another question's id, which alone is excluded. Laws are cut without loss.
  A learner asks about published questions in the model; in the code `GetQuestionByID` has no condition on the status (`content_repo.go`, lines 223 to 228; `tutor_usecase.go`, line 191),
  so that the explanation of a draft or of a withdrawn question may be the first source of an answer. `TutorIsGrounded` does not speak of that source. The seeder counts 7 questions in a pack that it gives 2 samples.

## 5. What is proved

Every theorem holds for all values of the constants that satisfy the named assumption of its module: any finite sets of requests, calls, questions and workers,
any faults and any bounds. Few of the properties are inductive. What each argument adds is a claim about what requests *hold* between two calls, since that is where
a stale value waits to be written.

| Module | Theorem | Property it states |
|---|---|---|
| `StatsLedgerProofs` | `TypeCorrect`, `RowIsConsistent`, `CreditsAreNotInvented`, `StreaksAreEarned`, `ActivityNeverGoesBack` | `TypeOK`, `RowConsistent`, `NeverOverCredited`, `StreakEarned`, `LastActivityAdvances` |
| | `NothingIsLostWhileCurrent`, `StreaksAreRunsWhilePunctual` | `NothingLostWhileCurrent`, `StreakIsConsecutiveWhilePunctual` |
| `OfflineSyncProofs` | `TypeCorrect`, `AtMostOnce`, `OneApplies`, `NoneForgotten` | `TypeOK`, `CreditedAtMostOnce`, `NothingForgotten` |
| | `ImplementsTheLedger` | `KeepsTheLedger`: the refinement of `StatsLedger` |
| | `RetriesCountOnce` | `OrderlyStatsMatchTheLog` |
| `PracticeSessionProofs` | `TypeCorrect`, `TalliesAreOfAnswers`, `StoredCountsAreTallies`, `CompletionsCountAnswers`, `MistakesAreNotForgotten`, `OrderlyCompletionsAgree` | `TypeOK`, `CountsAreOfAnswers`, `MistakesStayQueued`, `OrderlyCompletions` |
| `MockExamProofs` | `TypeCorrect`, `GradesAreOfOneSnapshot`, `AnswersAreGraded`, `GapsEndUpQueued`, `OrderlyExamsHold` | `TypeOK`, `GradeIsOfOneSnapshot`, `AcknowledgedAnswersAreGraded`, `GapsAreQueued`, `OrderlyExams` |
| `LearnerProgressProofs` | `ServicesImplementTheLedger` (`InstanceKeepsTheLedger`) | `KeepsTheLedger`: the refinement of `StatsLedger` by exams and practice together |
| `FrontDoorProofs` | `DeletedForGood`, `AccountsTypeCorrect` | `DeletionIsFinal` |
| | `LimitsHold`, `LimitsTypeCorrect` | `LimitersHold` |
| | `WithdrawnKeysExpire`, `GoodTokensAreAccepted` | `KeyCacheIsSound` |
| | `PremiumIsOfATerm`, `TermsAreKept`, `RetriesRunOnce` | `TermsRunAndEnd`, `OrderlyKeyRunsOnce` |
| | `AccountsAreOrderly`, `FrontDoorTypeCorrect` (with `KeysTypeCorrect`, `BillingTypeCorrect`) | `OrderlyAccounts`, `FrontDoorTypeOK` |
| `ContentProofs` | `PublishedVersionsStay`, `PagesSkipAndRepeatNothing`, `MarkedQuestionsDiffer`, `TestsAreNumberedForGood`, `TicketsAskTheirTemplates` (`TheBankServesWell`) | `OrderlyPacks`, `PagesCoverThePack`, `MarkedIsAskedOnce`, `NumberedTestsAreStable`, `OrderlyTickets` |
| | `BankTypesCorrect`, `ContentTypesCorrect` | `BankTypeOK`, `ContentTypeOK` |
| `TutorProofs` | `AnswersAreOfTheDay`, `SourcesAreApart`, `TutorTypeCorrect`, `LawIsCovered` | the parts of `TutorIsGrounded`, `TutorTypeOK`, and `CoversTheLaw` of every text |
| `ContentProofs` | `TutorAnswersAreGrounded`, `TheLawIsCutWell` | `TutorIsGrounded`, `PassagesCoverTheLaw` |

**The ledger** (`LedgerAssumption`). A request may hold any row between its read and its write. `IInv` therefore says of every snapshot in flight
what the properties say of the stored row: it is consistent, it does not exceed what had been earned, its
last day is not after today's and not after the stored one, and its streak is at most the
number of active days up to its last day. The heart of the argument is that a snapshot's date is
never later than the stored one, so a write with a stale streak only counts days that were
already active. `Invariance` proves `IInv` action by action; lemmas about `NextStreak`, `Credited`
and cardinalities of sets of days carry the arithmetic. `KeptInv` adds the histories: while no request worked on an outdated row, whoever is about to write
holds the row as stored (`Current`, so that `Matches` adds his credit to the sum), and while none straddled midnight or was empty, the day he takes is today and
the streak he computes is that of a run (`Punctual`, `Runs`).

**Offline synchronization** (`SyncAssumption`). The row in `sync_events` is a lock that nobody gives back: whoever works at an event beyond storing it found the
event not stored, so at most one upload does, the event's credits are zero until that upload
writes, and an upload that has answered for an event never comes back to it. `ImplementsTheLedger` is the refinement: the initial states are the ledger's, and every step of an upload
is a step of its request in the ledger or a stutter; the invariant `Working` says what an upload holds in each phase, and that it works at one event at a time.
`RetriesCountOnce` assumes that nothing fails but inserts and replies (the faults a retry is for); `OrderlyInv` relates the stats to the events stored and the one under way.

**Practice and exams** (`PracticeAssumption`, `ExamAssumption`). `IInv` is the types, what holds of each stored session or exam, and what holds of each request by the place it has
reached: what it read was there when it read it, what it tallied or graded is of one reading, and what was acknowledged before it arrived is in there. For the orderly properties the
history `orderly` gives that at most one completion or submission of a session or exam is beyond its status check, so that what it read is what is stored, and that one request has completed a session and every other was told what is stored (`OrderlyInv`;
for exams `Alone`, `NoneFailed`, `Holds`).

**Exams and practice together** (`ProgressAssumption`: the requests of the two differ and are finitely many, as are the questions). A request of either is one of the ledger's from the step that fixes its
credit: `CompleteExam`, which stores the grade, or `GetSessionTally`. The ledger keeps a credit until it is written, so it has to be seen that nothing changes this one meanwhile: an exam's is computed from the
paper, which a creation writes, but a creation takes an id that no admitted submission has; a completion's is computed from the tally, which is its own. `ProgressInv` says this, that the date of an exam's
request is one of 0 to `day` and that of a completion is unset before it reads the clock and set when it writes for an active credit, as the ledger distinguishes; and that the row of an exam that was not read is the fresh one, which is the ledger's
failed read. `StepRefines` goes through the actions of both: each is a step of its request (`EarnStep` to `DayStep`) or nothing the ledger sees (`Rests`). The theorem is of the specification without fairness;
`InstanceKeepsTheLedger` is the statement that the run `services` checks.

**The limiter** (`RateLimitAssumption`). Every call renews the counter's life, so the counter outlives any window that began with a call: all that was let through within a window that somebody watches
is in the count, and what is left of the window is at most what is left of the counter (`Watched`). The last call let through was admitted by a count within the limit of its route (`OwnIsTutors`: only the tutor's calls stand before
the second limiter), so the window has no more than the limit. Whoever was told the exact wait has nothing on its way and waits no less than the counter lives (`WaitCovers`).

**The key cache** (`KeyCacheAssumption`). A set of keys is stored within the step in
which it was served, so for every cached key its age and what is left of the hour are at most an hour together (`CacheIsRecent`), even when answers overtake each other.
A call that met no other at a refetch has in its cache what it fetched (`KeysApart`), so a good token is accepted.

**Billing** (`PurchasesAssumption`). The end of a term is followed from the
request that computed it to the row, to the reply, and to Redis's copy of the reply: at each place it is the term of a day on which this learner asked (`claimed`), whether or not he bought anything.
`TermsApart` adds the converse, that a term told is served by what is stored unless a midnight fell between two writes; `KeysAreOrderly` that a key which nothing disturbed has run no handler, is running one, or has
the reply of the one run kept. (`Disturbs` in `MCFrontDoor` names the disturbances call by call, as this proof needs them.)

**Accounts** (`AccountsAssumption`). An id is given out once and a row that is gone is written by nobody, so the rows that were gone when a call came stay gone,
and the call finds none of them; `AccountsSound` adds where a call may be with what it asks for. For `AccountsAreOrderly` (`AccountsApart`): two accounts of one identity come of two sign-ins that found
none, and a write is taken back only by a call that held the row. It assumes `OpenedOnce`: the accounts there at the beginning have different identities, which is a condition on the instance's constants.

**Content** (`BankAssumption`). The theorems about what is served are of `WatchedSpec`: any behaviour of `QuestionBank` with the histories, without the restrictions by which `MCNext` keeps TLC's instance small;
`DesksAreWatched` gives that `MCSpec` is a case of it, `TheBankServesWell` that what TLC checks follows. Each step of a job is first sorted by what it does to the packs or to the questions
(`WorkIsPackStep`, `WorkIsQuestionStep`). `PacksInv`: a version that no two jobs hold at once is held as it is stored, so the row written back is as published as the one it replaces. `WalkInv`: a walk has been given
everything that stayed before its cursor, and nothing behind it. `MarkInv`: while no other job writes a question, a marking job has one of every two equal published questions on its list. `TestsInv`: an upsert keeps
the row id of a question and a new one gets a larger id than any (`IdsAreGiven`; `WritersFindRows` for the two statements of one question), so a topic that loses none and gains none but later ones ranks its questions as before;
`RanksNumber` proves that ranks are a bijection to 0 .. N - 1, `Windows` that windows of a fixed size partition it, so the tests partition the topic.
`TidyInv` is of the jobs while one works at a time: every question has the wording Prepdrive gives it, except the newest while it waits for its text; a question that was marked has an older one of its wording among the candidates
(`HaveOlder`); a job that is marking has found lists whose kept question is the oldest of its wording; and a ticket has, for each question of its template, the oldest of that wording, twice only if the template has the wording twice. New
questions get larger ids, so the oldest stays the oldest, and the oldest is never marked: a marking that breaks off does no harm.
`BankInv` is what the types need: each worker's job and what he holds suit the place he has reached (`Suits`), and as many ids were given as there are questions (`Counted`), so none is given twice. `ContentTypesCorrect` assumes that there are
the four questions with which the desks of `MCContent` begin.

**The tutor** (`TutorAssumption`). How old the texts of a cached corpus are and how long it is still kept never exceed its life together (`Cached`, `Young`), so a call that takes it under the
mutex takes texts within their life, and it searches them before time passes; while a corpus is being built, every question read for it is official as it was read (`StillNew`), since a build is far
shorter than a step of time, and the law is read last. So no answer cites what was withdrawn longer ago, unless its rebuild failed. An index has one passage of each text (`IndexHolds`), a search
gives each at most once (`SearchFinds`), and the question's own explanation comes first: two sources of one text are an explanation and a clause of the law, or the first and another. The
former is excluded by the hypothesis `NoneIsLaw`, that no explanation repeats a clause to the letter: the code builds the two indexes apart and would not see it. That the types hold needs what is computed along a text, the groups of paragraphs and the parts of a long clause:
`Recursion` proves by the least counterexample, without an induction rule, that a function given by its value at 0 and at each successor exists, and `Stepwise` what such a function keeps.

**The cutting of laws** (`TutorAssumption`). `LawIsCovered` is about the recursive definitions themselves, for every list of paragraphs with ids of their own, as `UNIQUE (document, source_element_id)` keeps them. What a passage adds (`Own`)
is its text without the lead it repeats. `PutStep` and `GroupsGrow`: a paragraph put into the last part, or beginning one, and a paragraph put into the last clause, or beginning one, is appended to what the parts, or the clauses, are one after another
(`FlattenAppends`, `FlattenGrows`). So the parts of a clause are the clause (`PartsAre`), the clauses are the text (`ClausesAre`), and joining the passages of the clauses joins what they add (`FlattenJoins`, `LegalPassagesAre`). A passage is named
by the first paragraph it adds, and these are at different places of the text (`FlattenParts`), so the names differ. A part is within `ChunkMax` unless it has one paragraph beside the lead (`Chunks`); that this is within `PassageMax` is the hypothesis
`ChunkMax <= PassageMax`, of the code's 1000 and 1500.

**Only model-checked:** liveness (`SubmissionCompletes`, `CompletionCompletes`, `StoredIsCredited`), which is outside what the prover does. Every invariant and every refinement that a passing run checks is a theorem.

## 6. What is not modelled

* The **review queue**'s intervals and priorities, its due list, the draw that fills a short review and its pages. The queue is a set in the modules that write it.
  Two of its flaws are read off the code: `mistake_repo.go` (line 94) orders pages by priority and cuts them by public id, so that walking them skips and repeats mistakes;
  and the random fill of a short review (`practice_usecase.go`, line 167) may repeat a question of it, which the unique index refuses.
* The **in-memory store**. It hands out pointers to its rows (`memory.go`, line 655), which requests then change without its lock: data races
  of Go memory, not steps of a statement each. The models are of the Postgres repositories.
* The **topic classifier** and the scraper's category detection: regular expressions over prose, the constants `Classify` and `DetectCategory`. The scores of the tutor's search and
  the prompt of its model: a search may find anything up to its limit, the model may answer anything.
* **Road signs** (a list replaced in one transaction), manifests, translations by locale, media, dashboards, a learner's best attempts at a test, and other reads
  that change nothing (`GetExamHistory`, `GetChanges`).
* The **router**, start-up, configuration, logging, error envelopes and cryptographic primitives. Which middleware stands before which handler is in the modules of those.

## 7. Plan

1. *Done:* progress (`LearnerStats`, `StatsLedger`, `MockExam`, `PracticeSession`, `OfflineSync`, `LearnerProgress`), the front door
   (`RateLimit`, `KeyCache`, `Purchases`, `Accounts`), content (`QuestionBank`, `Tutor`), eight proof modules.
2. *Done:* the refinement of `StatsLedger` by `LearnerProgress`, the types of the bank, the tickets, the cutting of laws.
3. *Review queue:* intervals and priorities, due mistakes and their random fill
   against the unique index, pagination against the reference listing; shared by practice, exams and sync.
