# StudyMate: specifications, model checking and proofs

StudyMate (StudyApp) lets a student photograph pages of a school book; a Go backend reads the
pages, lets a language model write a quiz, and keeps attempts, subscriptions, notifications and
career goals around it. This directory holds TLA+ specifications of the backend's stateful parts,
the TLC configurations that check them, and proofs that TLAPS checks.
Paths below are relative to `src/backend/internal/` unless they start with `src/`.

## 1. Inventory

| Component | State | Operations | Interacts with | What makes it hard |
|---|---|---|---|---|
| Scan jobs (`scan/service.go`, `repository.go`) | `scan_jobs`, `scan_pages`, images in object storage | create, upload page, choose strategy, status | worker, cleanup, admin | requests of one client overlap; check and update are separate statements |
| Scan worker (`scan/worker.go`, `worker_repository.go`) | the job row, local variables of a slot, quizzes and questions, generation logs | claim, OCR or vision, strategy question, cache, generate, persist, fail | all of the above, AI, cache | slots of several replicas; no transaction around a job; crashes; 30-minute reclaim |
| Generation (`quiz/ai/`) | calls of a user in the last minute | batches, retries, fall-back, validation, grounding, merging | worker, model providers | a model may answer anything or nothing; what is kept comes from several calls |
| Content cache (`scan/cache.go`) | `content_cache` rows, copies in Valkey | lookup, store, invalidate, purge, expire | worker, admin | two tiers without a common step; entries outlive the job that made them and serve other users |
| Cleanup (`scan/cleanup.go`) | `scan_pages.deleted_at`, objects | hourly sweep | jobs, storage | knows objects only through page rows; ignores job status |
| Chunked upload (`scan/upload_chunked.go`) | chunk metadata of a page, chunk objects | initiate, put chunk, complete | jobs | unlocked read-modify-write of metadata; late chunks; repeated completions |
| Draft review (`quiz/review.go`) | questions of a draft, `quizzes.status` | save, publish | worker, jobs | status checked outside the transaction |
| Attempts and reports (`quiz/service.go`, `reports.go`) | attempts, answers, reports, cached dashboard | start, submit, review, dashboard | review | concurrent starts; idempotent submission; a cache filled from what was read before |
| Billing (`billing/`) | payments, subscriptions, `payment_events`, scan counter | checkout, webhooks, quota | provider, notifications | at-least-once, unordered, concurrent delivery; three statements per credit; quota checked before, counted after |
| Accounts (`auth/`) | users, one-time codes, reset tokens | send/verify code, register, log in, reset | notifications | checks and updates in separate statements |
| Notifications (`notifications/`) | Valkey lists, job rows, device tokens, circuit breaker | enqueue, process, retry, dead letters | everyone | at-most-once queue, retries of what was half done |
| Career goals (`careergoals/`) | goals, practice sets, skill gaps, weekly sets and scores | select, daily set, submit | questions, flags | concurrent selection and set creation; best-effort work after the commit |
| Phone (`src/mobile/lib/uploadQueue.ts`, `src/mobile/app/(tabs)/scan.tsx`) | the upload queue in AsyncStorage, the state of the screen | upload, retry, remove, poll | scan jobs | un-awaited read-modify-write of one value; closures over old renders; restarts |
| Administration, feature flags, middleware, API process | flags, request counters | retry, invalidate, toggle, limit | scan, cache, goals | counters with expiry |

Components call each other through Postgres rows, Redis keys and objects in storage; there are
few in-process calls and almost no transactions across components. What has to be correct is
therefore what interleavings of single statements leave behind. `PROJECT.json` lists the hazards at
their lines.

## 2. Modules

| Module | Content |
|---|---|
| `ScanJobs` | jobs, pages, storage, worker slots of both pipelines, cache, cleanup, admin retry, publishing |
| `MCScanJobs` | instances of it: texts, page types, budgets |
| `ScanJobsProofs` | inductive invariant and theorems of `ScanJobs` |
| `ScanQuietProofs` | further theorems of `ScanJobs`, for behaviours without some kinds of fault |
| `PaymentWebhooks` | checkout, provider, webhook handler, subscriptions |
| `MCPaymentWebhooks` | instances of it |
| `PaymentProofs` | inductive invariant and theorems of `PaymentWebhooks` |
| `PageUpload` | abstract: what the chunked upload promises |
| `ChunkedUpload` | chunk requests, metadata, objects, composition; implements `PageUpload` |
| `ChunkedUploadProofs` | invariants of `ChunkedUpload`, and that it implements `PageUpload` |
| `ScanAdmission` | request limiter, validation, scan quota and consent in front of a job |
| `MCUploads` | instance of `ChunkedUpload` and `ScanAdmission` |
| `ScanAdmissionProofs` | invariants of `ScanAdmission` and types of `MCUploads` |
| `Accounts` | one address: codes, registration, sessions, password reset and change |
| `NotificationQueue` | the Valkey notification worker |
| `NotificationRows` | notification rows, preferences, quiet hours, retries, push breaker |
| `MCAccounts` | instance of the three |
| `AccountsProofs` | invariants of `Accounts` |
| `NotificationProofs` | invariants of the two delivery paths and types of `MCAccounts` |
| `Generation` | questions of a scan from what the models answer |
| `ContentCache` | both tiers of the quiz cache |
| `PhoneUploads` | the phone's upload queue and the screen that works on it |
| `Quizzes` | draft, publication, attempts, reports, dashboard of one student |
| `Practice` | goals, daily sets, skill gaps, weekly sets and scores of one student |
| `MCLearning` | instance of the five |
| `LearningProofs` | invariants of the five and of their composition |

In an MC module with several parts a behaviour moves one of them and leaves the others in their
initial states. These parts share no state in the code either; where one changes what another reads, the
other has an action for it (`DraftReplaced` of `Practice` is a save of `Quizzes`, `ServerEnds` of
`PhoneUploads` the end of a job in `ScanJobs`, `StoreRow` of `ContentCache` the `StoreCache` of `ScanJobs`).

### ScanJobs

One action is one access to shared state (SQL statement, object storage call) with the local
computation around it. `workers[w]` is a slot: its program counter and the variables `ProcessJob`
keeps (job, strategy read at the start, text, outcomes in `got`, pages still to read in `todo`, mode,
quiz id). `uploads[j][p]` is the `UploadPageImage` request for a page, `choosing` the `SetJobStrategy`
requests between their check and their update, `Given` the strategies that requests for a
new job may name (they are stored unchecked, `scan/repository.go:71`), `sweep` what `runCleanupOnce` has listed.

* Claim: `Claimable`/`ClaimPendingJob` (`FOR UPDATE SKIP LOCKED` makes it atomic), then `LoadJob`,
  `BeginJob`, `ListPages`, `ReadPage`/`SkipPage`, `OcrComplete`, `Route`, as in `ProcessJob`. A slot in
  `Vision` runs `processJobVision`: it takes the mode from the job and leaves cache and saved text alone.
* What OCR reads is a choice from `TextsOf[job]`; the text stands for its content hash and
  `PageTypeOf` for `DetectPageType`.
* `CreateQuiz`, `LinkQuestion`, `StoreCache`, `UpdateJobQuizID`, `DeleteObject`, `ClearPipelineText` and
  `FinishJob` follow `persistQuiz` and the tail of `ProcessJob` in their order: a generated quiz is
  recorded before the images go, a cached one after.
* `failJob` is `FailJobList`, `DeleteObject`, `FailJob`. An error of an outside call that leads to it is
  `WorkerError`; an error that is only returned, and a crash, are `WorkerStops`.
* A page upload whose row cannot be found or updated removes its object again (`UploadFails`, then `UndoUpload`), and the error
  of that removal is ignored, so the object may stay; errors of the count and of the queueing that follow (`scan/service.go:110-111`) are
  ignored too (`AbandonUpload`). `broken` are jobs whose slot died inside `failJob`, between the images and the status.
* Wall-clock time appears as `stale` (30 minutes without update) and `aged` (25 hours).

`Budget` bounds how often each kind of fault happens: `crash`, `external` (an outside call fails),
`limit` (AI rate limit), `stall` (30 minutes pass under a running slot), `reupload`, `parallel` (requests
that overlap), `retry` (administrator), `age`. It is a constant, so that the proofs hold for every
number of faults, and a configuration with 0 says exactly what it excludes.

### PaymentWebhooks

`payments`, `subs` and `events` are the tables, `reqs` the webhook requests in flight, `paid`, `due` and
`acked` the provider's side. A request goes through `CheckEvent`, `InsertPaymentEvent`, then the
handler of its event, statement by statement, then `MarkPaymentEventProcessed`. `subs[u].left` counts
months until `ends_at`. `RequestFails` is any `return err` or a crash between two statements. `granted`
is a history variable. The provider's actions (external) deliver any due event to any free request, also again
and also concurrently. `Budget["any"]` bounds the sum of all disturbances of a behaviour.

### PageUpload and ChunkedUpload

`ChunkedUpload` has one action per statement of `HandleUploadInitiate`, `HandleUploadChunk` and
`HandleUploadComplete` (`requests[r]` holds what a handler has read), the chunk objects, the composed
`images` whether a row refers to them or not, and a client that sends the chunks of a page side by
side, resends after every refusal and asks for the composition. Errors that the handlers drop (`upload_chunked.go:182-183, 243, 251`) are
`Swallows`: the request answers 200, the client moves on, and the budget `swallow` bounds them. `PageUpload` knows three things only: the
chunks the server `have`s of a page, its `image`, and whether the job is `queued`. The refinement
mapping takes a chunk as held while it is in storage, as an object or inside an image of its page; `Receive`, `Compose` and
`Queue` are then the only visible steps, and `ImplementsPageUpload` says that everything else is a stutter: that no chunk
is ever forgotten, none but whole images are referred to, and a job in the queue has one on every page. An image that is
referred to and not whole maps to `"broken"`, a value `PageUpload` never produces.

### ScanAdmission

A request of `POST /scan/jobs` passes the limiter (`count` and its expiry are two calls), validation, the quota
(`CheckScanLimit`), consent, the creation of the job, and `RecordScan`; one of `POST /scan/upload` all of it but the quota and `RecordScan`
(`scan/handler.go:153-222`). The counters live in Valkey and
expire; midnight, a change of plan and failing calls are actions. `uncounted` records the jobs of the day that were
never counted (a failed `RecordScan`, or `POST /scan/upload`) and `allowance` the
largest limit of the day, so that what the quota bounds can be stated exactly, also when the plan changes: no more jobs than the plan
allowed, one for each other request in flight and one for each job that was not counted.

### Accounts

One e-mail address, the clients that may work on it at the same time, and one student who wants
an account and does not give up. `calls[c]` is the request of a client between two SQL statements. A code,
a token and a password are numbers drawn from `now`. `changed` and `uncounted` are history variables. A read error of a user counts as "no such user"
(`auth/service.go:81, 220`); a suspended account cannot log in, and the error of its last-login update refuses the login.

### NotificationQueue, NotificationRows

Two delivery paths exist in the code. `NotificationQueue` is `NotificationWorker`: pop, process, retry
list with its delay, dead letters, the hourly limit, the log row; a push to a list that fails loses the job (`PushLost`), which `dropped`
records; `HasFCM` says whether the process has a client of FCM; `seen` counts what reached each device and the mailbox.
`NotificationRows` is `Service`: rows with status and retry time, preferences, quiet hours, the weekly limit of
mails, the token bucket and the circuit breaker of pushes. `cmd/api/main.go` starts the first one only
(`src/docs/runbook.md:120` tests pushes with `POST /notifications/send`, whose rows no poller of the process takes); `Pollers = {}` is that deployment, and the run checks
what `Worker.Start` would do.

### Generation

`scan` is one generation: the batch of pages (vision) or the provider (text), the attempt, and what has been
kept. An answer is an error, an unreadable page, no JSON, or a list of raw questions; a question has what validation, grounding and
merging look at: type, number of options, index of the key, a topic and words. Each call is an action (`CallVision`,
`CallGenerator`); the pure steps are operators named after the functions.

### ContentCache

For one content hash. `row` is Postgres, `entry` Valkey; `lookupRedis`, `lookupPostgres`, `CopyToRedis`, `StoreRow`, `StoreEntry`,
`InvalidateRow`, `InvalidateEntry` are the calls between which other slots and the administrator act. `barred` records
the quizzes an invalidation removed.

### PhoneUploads

`queue` is the value in AsyncStorage. Every change of it is an element of `writes`: a call that first reads the
whole queue and later writes it back, served in the order of the calls. `flows` are the running calls of
`startUpload` and `retryUpload`, `polls` the polls of jobs, `due` what the reconnect handler has listed before it sleeps,
`server` the jobs as the phone causes them. A call works with the form of the render that created it (`form`, empty without pages or consent) and
sends the pages its entry had (`uris`): a retry writes the pages of its form over those of the entry (`FindEntry`, `CreateJob`), and the new job has a row for
each page of the form. `due` has one element for each reconnect handler, so that a second one may run while the first sleeps. `origin`, the pages an upload was started
with, and `swapped`, the entries whose pages a retry has replaced, are history variables. `Restart` drops everything but `queue`, `server` and the history.

### Quizzes

`requests[c]` is the request of a client of the student; a Postgres transaction is one action. `questions`
are the quiz's questions with key and answer status, `attempts` with answers, score and report, `cached` the
dashboard in Valkey, `dropping` the invalidations that are started as goroutines. Grading, review, topic statistics, streak
and paged reports are operators that the properties compare with each other; what `reports.go` computes in Go from one query is
a function of that query's rows (`attemptRows`) and of the order in which Postgres returns those with the same time (`RowOrders`), which no query fixes. `DraftAssumption` says what the worker writes into a draft: questions that passed
the validation, and those of a generated quiz with their keys. `told` grows with the attempts.

### Practice

`goals`, `sets`, `weekly`, `history` and `gaps` are the tables. A request for a daily set reads the questions
seen before, chooses (`SelectQuestions` by weak topics, reviews and the rest) and inserts; a submission is a
transaction, followed by the weekly work in steps of its own (`WeekMean` is the rounded mean of `scorer.go`). The feature flag
guards all of it.

## 3. Runs

| Run | Instance | Question |
|---|---|---|
| `scan_quiet` | 2 jobs created with any strategy or none, an OCR and a vision slot, one crash, one outside error, one rate limit | no job is processed twice at once, taken (again) without input, ready without matching quiz, failed with a quiz, or asked for a strategy it has |
| `scan_settles` | 1 job, 2 pages, the page limit at 2, 4 outside errors, 2 rate limits, fairness | every queued job settles, fails only with cause, and an image is out of reach only after two errors |
| `scan_overlap` | 2 jobs sharing a text, one from source text; a stall, a retry, a parallel request, ageing | quizzes complete and of the right text although slots overlap |
| `scan_retry` | 1 job, one error, one retry | **violation**: "Re-queue failed jobs via admin" re-queues jobs whose images `failJob` deleted |
| `scan_stuck` | 1 job, one crash, fairness | **violation**: a job stays in `ocr_complete` for ever |
| `scan_orphan` | 1 page uploaded twice | **violation**: the cleanup cannot find the first image |
| `payment_delivery` | 2 Razorpay orders of one user, 1 PayU order, 2 requests, 2 disturbances, fairness | paid once, paid always, months add up |
| `payment_resend` | 1 order, one broken-off request, fairness | **violation**: "Resend" does not help |
| `payment_payu` | 1 PayU order, fairness | **violation**: no PayU callback is ever accepted |
| `uploads` | 2 pages of 2 chunks, 2 requests, one failure, one swallowed error, one damaged chunk, one overlap; 2 admission requests at a time (both routes that make jobs), 3 in all, one failure, one change of plan; fairness of the upload | the upload implements `PageUpload`, keeps what it received, leaves nothing behind when nothing failed, queues the job once, finishes; quota and window are kept up to what is in flight |
| `accounts` | 2 clients at one address, 2 or 3 requests besides the sign-up, one fault; 2 notices, 2 devices, one crash, error and change of settings; 2 rows, one tick, one fault; fairness | codes and reset tokens are used no more often than clients overlap; the student gets an account; every notice settles, none is repeated beyond its attempts; the breaker closes only after real successes |
| `learning` | see the bounds below | results, dashboards, sets and scores count everything once; what is generated is playable; invalidations hold; the phone's queue tells the truth |

The five violations are disagreements between the code and what its documents or comments say;
`PROJECT.json` quotes both sides under `findings`.

**Why the bounds are enough.** The guarantees are about pairs: two slots on a job, two jobs on a
cache entry, two requests on an event, two payments on a subscription, two clients at a code. Two of each gives every
pairwise interleaving. A quiz has two questions, so that there is a state with some but not all. In `scan_quiet` and
`scan_settles` three texts cover the three page types. Single faults are placed at every step; combinations of two
are covered within a run. What holds beyond these sizes is, where there is one, the matter of a proof. Checking for deadlock is off
because all these systems end when jobs are done and budgets are spent.

Limits of the code are replaced by smaller ones where only "below, at, above" matters: one attempt at a code for five,
two attempts at a notice for five, one scan a day for the free plan's quota.
The parts of `learning` are bounded as follows.
* `Quizzes`: two clients; either a draft with two saves and one attempt, or a generated quiz with three attempts, or with two attempts
  over two days. Drafts have one or two questions; one has a blank option before its key, one is refused.
* `Practice`: two devices, two goals, three questions (two topics and one without); the four `Starts` are overlapping selections (with the flag switched), a week of one
  goal, two goals on a day, a replaced draft. A week has two days instead of seven (a week that is full and one that is not), a question is
  seen for one day instead of seven, a daily set has two questions.
* `Generation`: three images in batches of two, so that the last batch is short; at most three questions; two calls
  a window; eleven answers, which include each defect the validation knows.
* `ContentCache`: entries live one day; two quizzes, one invalidation, two days, one failing call, one restart.
* `PhoneUploads`: two uploads (or one and its retry) of two pages, or of one other page, with a failed job or a kill; one upload with a failed call, a
  reconnect, a removal, an edit and a kill; one upload that fails with two reconnect handlers; three changes of the queue under way at once, two flows.
Clients, devices, slots and flows are interchangeable model values; `learning` has no temporal property, so symmetry is sound.

**Fairness.** `ScanJobs!FairSpec` gives each slot weak fairness on its own steps: a slot is a goroutine with
a ticker (`worker.go:163-185`) that proceeds unless its process dies, and a process that dies is a
fault action. An idle slot claims what is claimable at its next tick. Time passes (`TimePasses`), otherwise
nothing would ever be reclaimed. Clients, administrator, cleanup and faults have no fairness.
`PaymentWebhooks!FairSpec` gives a request fairness on its steps, and the provider fairness on delivering an
event it has no acknowledgement for: Razorpay retries until it gets a 2xx.
`ChunkedUpload!ChunkFairness` gives each request fairness on its handler's steps, and the client on sending what is not
acknowledged and asking for the composition: without a client that resends, nothing finishes. `AccountFairness` gives each request
fairness on its statements and the student on going on with the sign-up; `NoticeFairness` the main loop on popping, each goroutine on its steps
and the retry processor on its list (tickers in `notifications/worker.go:94-189`). Crashes, errors, expiries, other clients and the
administrator have none. `NotificationRows`, `ScanAdmission` and the parts of `learning` are checked for safety only.

## 4. Proofs

The theorems are about the specifications without fairness, hence also about those with it. They hold for arbitrary
constants: any number of jobs, pages, chunks, slots, texts, orders, requests, clients, devices, questions and faults. Each module
assumes what the `ASSUME` of the module it is about says, the types of the constants: `ScanAssumption`, `PaymentAssumption`, `ChunkAssumption`,
`AdmissionAssumption`, `AccountAssumption`, `NoticeAssumption`, `RowAssumption`, `CacheAssumption`, `PhoneAssumption`,
`GenerationAssumption`, `PracticeAssumption`, `QuizAssumption` and `DraftAssumption`. TLC evaluates all of them in the runs. Beyond types they say that
sets of clients, devices and questions are finite (their number is a bound), that bounds are positive where
the code's are, that the mailbox is not a device, and the following of the data. `DraftAssumption`: the worker stores only drafts that the validation accepts.
`PracticeAssumption`: what the tables hold at the start is well formed. `GenerationAssumption`: a reply is any list of questions, valid or not.
Only `ScanQuietProofs` has theorems with hypotheses of their own.

All safety invariants and action properties of the passing runs, and the refinement, are stated by a theorem. A property a run
checks is seldom inductive; the paragraphs say what had to be added.

**ScanJobsProofs**: `TypeCorrect` (`TypeOK`), `QuizzesComplete` (`JobQuizComplete`), `ReadyJobsHaveQuizzes`
(`ReadyHasQuiz`), `CacheIsSound` (`CacheSound`), `QuizzesAreOwn` (`QuizOfOwnText`). None of these is inductive,
because what is written into a job or the cache comes out of local variables of a slot. `IInv`
adds, for each stage of a slot, what it may rely on (`SlotText`, `SlotLink`, `SlotQuiz`): a slot past OCR
holds a text of its job; a slot that links questions holds an unfinished quiz of that text with the
mode it was created with; a slot about to record a quiz holds a complete one; and that no two slots
link questions of the same quiz (`OneWriter`), which is what overlapping slots cannot break because
each creates its own quiz. `ReadyHasQuiz` survives overtaken slots because no step ever sets a quiz id back
(`QuizzesKept`). Every action has a lemma for the types and one for the rest of the invariant.

**ScanQuietProofs**: the five invariants of `ScanJobs` that are false when certain faults occur, each under a
condition on `Budget`. The runs `scan_overlap`, `scan_retry` and `scan_orphan` have the faults that are excluded.

| Theorem | Property | No | Any number of |
|---|---|---|---|
| `ImagesAreFound` | `ObjectsReclaimable` | second upload of a page, crashes (of a request between storing an image and naming it) | stalls, overlapping requests, retries, failures, ageing |
| `OneSlotAtATime`, `StatusesAreTrue` | `OneSlotPerJob`, `StatusIsTrue` | second upload, overlapping requests, stalls, retries (`Quiet`) | crashes, failures, rate limits, ageing |
| `QueuedJobsHaveInput` | `QueuedHasInput` | the same, and no image of 25 hours (`NeverOld`) | crashes, failures, rate limits |
| `FailuresHaveCauses` | `FailureHasCause` | the same; jobs are scanned, not made from text, and within the page limit (`Ordinary`) | crashes, failures, rate limits |

`Ordinary` is needed: a job from source text is claimable before its page rows exist (`scan/service.go:141`), and a job with too many pages fails
without anything having failed. The budgets of the runs `scan_quiet` (crashes) and `scan_settles` (errors outside) meet the conditions, so they are not empty. The
invariant comes in five layers, each inductive with the ones before it. `Once`: an image has one key, on which row, upload and cleanup
agree; with it `LossesPaid` counts two failures for each image out of reach, one for each that is about to be removed. `QuietOK`: for each stage of a slot the status of its job, for each status what it says, and that a draft has one
owner; a slot holds its job because the 30 minutes that would hand it to another never pass while it runs. `Fed`: a job that is, or after a crash
or rate limit may be, queued again has its text or its images. `Kept`: so has a job in process, until its slot has begun to delete the images in
`failJob`. `NoCause`: as long as nothing outside failed, no job has failed and no slot is about to fail one.

**PaymentProofs**: `TypeCorrect`, `NoDoubleCredit` (`CreditedOnce`) and `MonthsAddUp` (`PaidTimeAddsUp`). `CreditedOnce` says nothing of requests that
are about to credit. `IInv` adds that a request past `InsertPaymentEvent` is the only one handling its event
(`OneHandler`), that it has not credited the order yet (`RequestOK`), and that a credited order's event
has its row (`CreditOK`), so no later request gets past the insertion. The unique row is the whole
argument: the status of the payment is not needed for it. `MonthsInv` counts: until a month passes or a cancellation is handled, the months left of a
user are the number of his credited orders, a cardinality that each credit raises by one because `IInv` makes it the first of its order.

**ChunkedUploadProofs**: `UploadTypes`, `ReceivedIsKept` (`NothingReceivedIsLost`), `UploadRefines` (`ImplementsPageUpload`),
`QueuedOnce` (`JobQueuedOnce`), `NothingIsLeftBehind` (`StorageAccounted`). `Kept` holds under all faults and overlaps: what a row or a
running request lists as received is in storage, as a chunk or in a whole image. From it follows step by step that each action of
`ChunkedUpload` is one of `PageUpload` or a stutter (`RefinesInit`, `RefinesStep`). `Turn` holds while the client waits for its answers
(`Patient`): one page is in the making and a completion runs alone. `Accounted` holds on top of it while nothing fails.

**ScanAdmissionProofs**: `WindowsEnd` (`RateWindowEnds`), `QuotaIsKept` (`QuotaHolds`), and with `UploadTypes` the types of the run's
composition (`UploadsTypes`). The quota says nothing of requests that have passed the check, so `QuotaInv` counts them: a job whose
limit was read is still missing (`Passed`) or is there and not counted (`Recording`), and the two sets are disjoint. A job of
`POST /scan/upload` is never in them: it raises `made` and `uncounted` together.

**AccountsProofs**: `GuessesAreBounded` (`GuessesBounded`), `ResetsOnce` (`ResetOnce`), `AccountsTypes`. Both bounds count clients
between two statements of a request: those that compared and have not counted, that found a token unused and have not set the password, that
set it and have not marked the token. A client is in one of these sets for one code or token only, so the sets are bounded by the number of clients.

**NotificationProofs**: `BreakerClosesOnSuccess` (`BreakerCloses`), `NoticesAreBounded` (`NoticesBounded`), `NoticesAndAccountsTypes` (`TypeOK` of
`MCAccounts`). While the breaker is half open, the successes still needed and those since the last failure add up to the threshold
(`BreakerOK`). A job id is at one place at a time, the queue, the retry list or the hands of a goroutine (`OnePlace`); so what a device
got is bounded by the attempts the one copy carries.

**LearningProofs**: the five parts of `MCLearning`, each with its inductive invariant; `LearningSpec` moves one part at a time, so
they hold together (`LearningInv`).

* Cache (`CacheInv`): `InvalidationHolds`, `CacheTypesHold`. No slot between
  the tiers holds a quiz that an invalidation has removed or is removing (`SlotOK`), and the row is not of one; so nobody can put it back. What a slot
  copies from Postgres to Valkey was valid when it read it. (An invalidation that slots overlap removes nothing for good: `Behind` of `ContentCache`.)
* Phone (`ScanPhoneInv`): `QueueIsTruthful`. Whatever could get into the queue, from a stored entry, a change under way, a running flow or a
  poll, is true of the server (`TrueEntry`), and the server only moves on. A flow whose form is not that of its entry has marked the entry as swapped
  before its change is written (`Same`), so the pages of the others are those they were started with.
* Attempts (`QuizInv`): `ResultIsOne`, and half of `OneOfEachAtATime`: the attempts in progress map one-to-one to clients (`Owners`); what a client is told is the stored
  result, and a stored result never changes. In every order by time, a row stands behind the newer ones and before the older ones, so its place is
  fixed up to the rows of its own time.
* Published quiz (`QuizStable`): `PublishedIsStable`. From a publication that no save overlapped, the questions stay, have keys, and a
  completed attempt has an answer for each of them; grading, review and the counts by topic read the same rows.
* Dashboard (`QuizFresh`): `DashboardIsFresh`. A request that computes a dashboard has seen a part of the completed attempts as large as it counted, and
  completed attempts do not change; so an entry is of all of them, or a later submission has marked it. The streak of `reports.go`, computed by walking over
  days, is the longest run of days that ends today or yesterday (`IsRun`); the topic table adds up to the answers (`PairsCount`).
* Practice (`GoalInv`, `SetInv`): the other half of `OneOfEachAtATime` (`Keepers` maps active goals to devices), `SetsAreSound`,
  `PracticeCountsOnce`. A device between choosing and inserting holds a choice that is sound for the questions it had read (`HoldOK`).
* Generation (`ScanOK`, `CallsOK`): `GenerationIsSound`. What is kept is a list of valid, grounded questions in every stage, for any list a model
  returns; calls of a scan and calls within a window are bounded.

`LearningTypesHold` is `TypeOK` of the five together. Where these arguments need induction over data (a sequence, a set of days, a sum), the least
counterexample is taken and refuted (`LeastNat`, `SmallestSet`), since the induction theorems of the library cannot be instantiated here.

**Only model-checked**: the liveness properties `QueuedJobSettles`, `PaidIsCredited`, `UploadFinishes`, `SignUpCompletes` and
`JobsSettle`. They rest on weak fairness, and TLAPS has no reasoning about `ENABLED`.

## 5. Not modelled

* OCR, language models, prompt texts, the transports of mail and push: outside services or wording.
* Generation logs, progress percentages, metrics and audit rows: written, never read by the modelled code.
* Wrong signatures, malformed requests, other users' jobs: refused before any state changes.
* Checks of image size and format; lists, histories and statistics that only read; the development-only checkout and stub
  providers; content flags; the 60-second copy of the feature flags in memory.
* The cleanup of device tokens and old rows (`notifications/worker.go:571`), which `cmd/api/main.go` does not start.
* The web application and the other screens of the phone: user interface over the API.

**Seen while modelling.** The models contain all of this, and the properties are stated so as to hold in spite of it. First what comments and
documents of the repository say otherwise:

* Quota: `billing/limiter.go:14` ("enforces per-day scan quotas") and `scan/handler.go:35` ("enforces subscription scan limits") speak of all scans; the jobs of
  `POST /scan/upload` (`scan/handler.go:153-222`) are neither checked nor counted. `QuotaHolds` bounds the others.
* Drafts: a save that overlaps the publication rewrites a published quiz, because the status is checked outside the transaction; `quiz/review.go:109-110` allows
  saves "only ... while the quiz is still a draft", and `src/backend/migrations/0003_reconciled_schema.sql:163` calls attempts an immutable history. `overlapped`
  excludes the case from `PublishedIsStable`.
* Notifications (`notifications/README.md`): quiet hours (line 66) are parsed with a layout the stored text does not have, which makes every hour quiet; nothing locks the
  rows a poller reads (line 74), so two pollers may send the same row; a row that failed after its last retry is picked again (line 180); 5 mails a
  week (line 185) are divided by seven into a limit of none a day, which is no limit.

The rest no document speaks of:

* Scan: an image stays without a name when both the update of its row and the removal that follows fail (`scan/service.go:101-109`); the strategy of a request is stored
  unchecked (`scan/repository.go:71`), and a job whose slot dies inside `failJob` is taken once more without its images.
* Chunked upload: when the count of pages fails at the last completion, the client is told 200 and nobody queues the job (`upload_chunked.go:182-183, 251`; `Stranded` in
  `UploadFinishes`).
* Drafts: a blank option is dropped without moving the index of the key (`quiz/review.go:310-341`). The expiry
  of an attempt is stored and not enforced by `SubmitAttempt`.
* Dashboard: an entry computed before a submission may be stored after its invalidation, for fifteen minutes (`quiz/reports.go:48`;
  `lagging`). Attempts submitted at the same instant are paged without a second sort key (`quiz/service.go:440`), so one of them
  may be on two pages and another on none; `OneResult` fixes the place of an attempt only up to those.
* Practice: the weekly work after a submission is about the week of now, not of the set (`careergoals/adaptive/scorer.go:80`), so a week whose
  last set is submitted after midnight gets no score; the adaptive choice also takes questions of drafts that are not published
  (`selector.go:280`) and does not ask for the goal's subject.
* Generation: when every call fails, the job fails with "page unreadable" (`gemini_vision.go:134`); off-page questions are kept when
  both attempts return nothing else (`gemini_vision.go:209-221`).
* Cache: `PurgeAll` empties Postgres and leaves the copies in Valkey; an error of Valkey while storing is silent.
* Notifications: a push to the retry or dead-letter list that fails loses the job (`notifications/worker.go:367, 379-381`; `dropped` in `JobsSettle`); a row for the SMS
  channel is set to processing and never sent.
* Limits: the request limiter and the AI limiter count per user, the AI limiter per process.
* Phone: changes of the queue that overlap overwrite one another, so a page count, or an entry that was just added, can be lost
  (`uploadQueue.ts:75-81`, un-awaited in `scan.tsx:434-442`); after the server failed a job, a retry makes a new job and resumes after the pages counted for the old one
  (`scan.tsx:263, 421`); a retry works with the form of the render it was created in, so after a restart it may leave its entry `queued` without a
  Retry button (`scan.tsx:492-506`), and otherwise it puts the pages of that form into the entry, makes the job for as many, and sends those the entry had
  (`scan.tsx:352, 366, 414, 420`); two taps on Upload before `isUploading` is set make two jobs (`scan.tsx:316-350`).
  `QueueTellsTruth` holds in spite of these.

## 6. Plan

Done: every part of the backend that keeps state of its own is modelled and checked, except what section 5 names; every safety invariant and action
property of the runs, and the refinement of `PageUpload`, has a proof for all values of the constants. Next, in this order:

1. Results the proofs already contain and no theorem states yet: that a quiz id of a job is never set back (`QuizzesKept`), that the answers of
   a completed attempt never change.
2. The composition of `ChunkedUpload` with `ScanJobs`: `PageUpload` in the place of `PutPage` and `MarkPageUploaded`, so that the theorems
   of `ScanJobs` hold for jobs uploaded in chunks.
3. Weaker conditions for `ScanQuietProofs`: which of its theorems survive overlapping requests of different pages.
4. Administration: the memory copy of the flags.
