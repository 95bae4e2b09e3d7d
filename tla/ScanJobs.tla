------------------------------- MODULE ScanJobs -------------------------------
(***************************************************************************)
(* The scan pipeline of the StudyMate backend: a client creates a job and  *)
(* uploads its page images to temporary storage, a worker slot claims the  *)
(* job, reads the images, generates a quiz and deletes the images.  Every  *)
(* action is one access to what the parties share (a SQL statement, an     *)
(* object storage call) with the local computation around it, so that the  *)
(* interleavings are those of the API handlers, the worker slots of all    *)
(* replicas, the administrator and the hourly cleanup.                     *)
(***************************************************************************)
EXTENDS Integers, Sequences, FiniteSets

CONSTANTS
    Jobs,             \* rows of scan_jobs
    NoJob,            \* the job of an idle worker slot
    NPages,           \* pages requested when a job is created
    MaxPagesPerJob,   \* OCR_MAX_PAGES_PER_JOB, 0 for no limit
    Workers,          \* worker slots, over all replicas
    NQuestions,       \* questions of a generated quiz
    Texts,            \* texts OCR may produce; also their content hashes
    NoText,           \* NULL in pipeline_text
    TextsOf,          \* the texts OCR may read on the pages of a job
    PageTypeOf,       \* what DetectPageType answers for a text
    ModeOf,           \* the scan mode a job was created with
    Inline,           \* jobs created with source text instead of images
    Given,            \* what requests carry as generation_strategy
    UseCache,         \* a content cache is wired and the provider is not the stub
    Vision,           \* slots whose process runs the gemini_vision pipeline, not OCR
    Budget            \* how many events of each fault kind a behaviour has

Modes == {"chapter", "existing_questions"}
PageTypes == {"chapter_text", "existing_questions", "mixed"}
Strategies == {"extract_questions", "generate_from_chapter"}
NoStrategy == "none"
\* The column takes any text; "other" stands for every text that is no strategy.
AnyStrategy == Strategies \cup {NoStrategy, "other"}
FaultKinds == {"crash",     \* a slot or a request stops between two steps
               "external",  \* storage, OCR, AI or database answers an error
               "limit",     \* the per-user AI rate limit refuses a call
               "stall",     \* 30 minutes pass under a slot that still runs
               "reupload",  \* the client uploads a page it has uploaded before
               "parallel",  \* two requests on the same job are in flight
               "retry",     \* the administrator retries a job
               "age"}       \* 25 hours pass since the pages were created

ASSUME ScanAssumption ==
    /\ NoJob \notin Jobs
    /\ NPages \in Nat \ {0} /\ MaxPagesPerJob \in Nat
    /\ NQuestions \in Nat \ {0}
    /\ NoText \notin Texts
    /\ TextsOf \in [Jobs -> SUBSET Texts]
    /\ PageTypeOf \in [Texts -> PageTypes]
    /\ ModeOf \in [Jobs -> Modes]
    /\ Inline \subseteq Jobs /\ Given \subseteq AnyStrategy
    /\ UseCache \in BOOLEAN /\ Vision \subseteq Workers
    /\ Budget \in [FaultKinds -> Nat]

VARIABLES
    jobs,       \* scan_jobs: status, quiz_id, generation_strategy, pipeline_text,
                \* and whether updated_at is more than 30 minutes old
    pages,      \* scan_pages: upload_status, object reference, deleted_at
    objects,    \* the keys present in temporary object storage
    quizzes,    \* quizzes with the questions linked so far; the id is the position
    cache,      \* content cache: text to quiz id
    workers,    \* what each slot is doing and the local variables it holds
    uploads,    \* the UploadPageImage request in flight for each page
    choosing,   \* SetJobStrategy requests between their check and their update
    aged,       \* jobs whose pages were created more than 25 hours ago
    sweep,      \* object keys the cleanup has listed and not yet handled
    broken,     \* jobs whose failJob was cut short by a crash
    budget      \* faults that may still happen

vars == <<jobs, pages, objects, quizzes, cache, workers, uploads, choosing,
          aged, sweep, broken, budget>>

Pages == 1..NPages
Keys == Jobs \X Pages \X Nat   \* temp/<job>/<page>/<uuid>; number 0 is stub://inline
NoKey == <<>>
NoQuiz == 0

IdleWorker == [pc |-> "idle", job |-> NoJob, strategy |-> NoStrategy, text |-> NoText,
               resumed |-> FALSE, todo |-> {}, got |-> {}, mode |-> "undecided",
               quiz |-> NoQuiz]

(* ------------------------------- helpers ------------------------------- *)

\* UPDATE scan_jobs SET status, updated_at: whatever the current status is.
UpdateJobStatus(j, s) ==
    jobs' = [jobs EXCEPT ![j].status = s, ![j].stale = FALSE]

PageRows(j) == {p \in Pages : pages[j][p].upload # "absent"}
PageRefs(j) == {pages[j][p].key : p \in PageRows(j)} \ {NoKey}
Key(j, p) == <<j, p, uploads[j][p].n>>
IsStub(k) == k[3] = 0
Readable(w, k) == k \in objects \/ (IsStub(k) /\ w \notin Vision)

\* The mode a text is processed in; "undecided" asks the user for a strategy.
ResolveGenerationMode(pageType, strategy) ==
    CASE pageType = "existing_questions" -> "existing_questions"
      [] pageType = "chapter_text" -> "chapter"
      [] strategy = "extract_questions" -> "existing_questions"
      [] strategy = "generate_from_chapter" -> "chapter"
      [] OTHER -> "undecided"

FinalJobStatusLegacy(mode) ==
    IF mode = "existing_questions" THEN "review_ready" ELSE "completed"

FinalJobStatus(mode) ==
    IF mode = "existing_questions" THEN "review_ready" ELSE "quiz_ready"

\* Whether ProcessJob goes on with the row it has read, or leaves it alone.
ProcessableIfPending(status) == status = "pending"

Processable(status) == status \in {"pending", "processing"}

\* Drafts and vision quizzes stay out of the cache; a resumed job does not read it.
CacheableDraft(w, mode) == UseCache /\ w \notin Vision

Cacheable(w, mode) == UseCache /\ w \notin Vision /\ mode # "existing_questions"

\* The content hash covers the whole text.
CachedQuizOfBook(t) ==
    IF \E u \in Texts : cache[u] # NoQuiz
    THEN cache[CHOOSE u \in Texts : cache[u] # NoQuiz] ELSE NoQuiz

CachedQuiz(t) == cache[t]

LastQuestionEarly(q) == quizzes[q].linked + 2 >= NQuestions

LastQuestion(q) == quizzes[q].linked + 1 = NQuestions

Spend(kinds) ==
    /\ \A k \in kinds : budget[k] > 0
    /\ budget' = [k \in FaultKinds |-> IF k \in kinds THEN budget[k] - 1 ELSE budget[k]]

Goto(w, pc) == workers' = [workers EXCEPT ![w].pc = pc]
Rest(w) == workers' = [workers EXCEPT ![w] = IdleWorker]
LiveOn(j) == \E w \in Workers : workers[w].job = j

(* ------------------------------ the client ----------------------------- *)

clientVars == <<uploads, choosing>>
cleanupVars == <<aged, sweep, broken>>

\* The job row comes first, with whatever strategy the request names; its page rows follow
\* one statement each.
CreateJob(j) ==
    /\ jobs[j].status = "none"
    /\ \E s \in Given :
         jobs' = [jobs EXCEPT ![j].status = IF j \in Inline THEN "pending" ELSE "uploading",
                              ![j].strategy = s, ![j].stale = FALSE]
    /\ UNCHANGED <<pages, objects, quizzes, cache, workers, clientVars, cleanupVars, budget>>

CreatePage(j) ==
    LET p == Cardinality(PageRows(j)) + 1 IN
    /\ jobs[j].status # "none"
    /\ p \in Pages
    /\ pages' = [pages EXCEPT ![j][p].upload = "pending",
                              ![j][p].key = IF j \in Inline THEN <<j, p, 0>> ELSE NoKey]
    /\ UNCHANGED <<jobs, objects, quizzes, cache, workers, clientVars, cleanupVars, budget>>

\* UploadPageImage stores the bytes under a fresh key.  The job id is only known
\* to the client once CreateJob has created every page.
PutPage(j, p) ==
    LET again == uploads[j][p].n > 0 \/ pages[j][p].key # NoKey
        busy == \E q \in Pages : uploads[j][q].pc # "idle" IN
    /\ PageRows(j) = Pages
    /\ uploads[j][p].pc = "idle"
    /\ Spend((IF again THEN {"reupload"} ELSE {}) \cup (IF busy THEN {"parallel"} ELSE {}))
    /\ uploads' = [uploads EXCEPT ![j][p] = [pc |-> "put", n |-> @.n + 1]]
    /\ objects' = objects \cup {<<j, p, uploads[j][p].n + 1>>}
    /\ UNCHANGED <<jobs, pages, quizzes, cache, workers, choosing, cleanupVars>>

MarkPageUploaded(j, p) ==
    /\ uploads[j][p].pc = "put"
    /\ pages' = [pages EXCEPT ![j][p].upload = "uploaded", ![j][p].key = Key(j, p)]
    /\ uploads' = [uploads EXCEPT ![j][p].pc = "marked"]
    /\ UNCHANGED <<jobs, objects, quizzes, cache, workers, choosing, cleanupVars, budget>>

UploadFailsLeavingObject(j, p) ==
    /\ uploads[j][p].pc = "put"
    /\ Spend({"external"})
    /\ uploads' = [uploads EXCEPT ![j][p].pc = "idle"]
    /\ UNCHANGED <<jobs, pages, objects, quizzes, cache, workers, choosing, cleanupVars>>

\* GetPageByJobAndPageNo or MarkPageUploaded failed.
UploadFails(j, p) ==
    /\ uploads[j][p].pc = "put"
    /\ Spend({"external"})
    /\ uploads' = [uploads EXCEPT ![j][p].pc = "undo"]
    /\ UNCHANGED <<jobs, pages, objects, quizzes, cache, workers, choosing, cleanupVars>>

\* The object is to be removed again; an error of that is ignored and leaves it.
UndoUpload(j, p) ==
    /\ uploads[j][p].pc = "undo"
    /\ \/ objects' = objects \ {Key(j, p)} /\ UNCHANGED budget
       \/ UNCHANGED objects /\ Spend({"external"})
    /\ uploads' = [uploads EXCEPT ![j][p].pc = "idle"]
    /\ UNCHANGED <<jobs, pages, quizzes, cache, workers, choosing, cleanupVars>>

CheckAllPagesUploaded(j, p) ==
    /\ uploads[j][p].pc = "marked"
    /\ uploads' = [uploads EXCEPT ![j][p].pc =
                      IF \A q \in PageRows(j) : pages[j][q].upload = "uploaded"
                      THEN "ready" ELSE "idle"]
    /\ UNCHANGED <<jobs, pages, objects, quizzes, cache, workers, choosing, cleanupVars, budget>>

\* The job is queued whatever its status has become in the meantime.
QueueUploadedJob(j, p) ==
    /\ uploads[j][p].pc = "ready"
    /\ UpdateJobStatus(j, "pending")
    /\ uploads' = [uploads EXCEPT ![j][p].pc = "idle"]
    /\ UNCHANGED <<pages, objects, quizzes, cache, workers, choosing, cleanupVars, budget>>

\* The request dies, or the database fails after the page is marked, which is ignored.
AbandonUpload(j, p) ==
    /\ uploads[j][p].pc # "idle"
    /\ \/ Spend({"crash"})
       \/ uploads[j][p].pc \in {"marked", "ready"} /\ Spend({"external"})
    /\ uploads' = [uploads EXCEPT ![j][p].pc = "idle"]
    /\ UNCHANGED <<jobs, pages, objects, quizzes, cache, workers, choosing, cleanupVars>>

\* SetJobStrategy reads the status, and updates the row in a second statement.
CheckStrategy(j, s) ==
    /\ jobs[j].status = "needs_strategy"
    /\ <<j, s>> \notin choosing
    /\ Spend(IF \E t \in Strategies : <<j, t>> \in choosing THEN {"parallel"} ELSE {})
    /\ choosing' = choosing \cup {<<j, s>>}
    /\ UNCHANGED <<jobs, pages, objects, quizzes, cache, workers, uploads, cleanupVars>>

UpdateJobStrategy(j, s) ==
    /\ <<j, s>> \in choosing
    /\ jobs' = [jobs EXCEPT ![j].strategy = s, ![j].status = "pending", ![j].stale = FALSE]
    /\ choosing' = choosing \ {<<j, s>>}
    /\ UNCHANGED <<pages, objects, quizzes, cache, workers, uploads, cleanupVars, budget>>

\* PublishDraft's transaction: the quiz and every job of it.  The apps offer it once
\* the job is ready for review; the handler takes it as soon as the job has a quiz.
PublishDraft(q) ==
    /\ quizzes[q].status = "draft"
    /\ \E j \in Jobs :
         /\ jobs[j].quiz = q
         /\ Spend(IF jobs[j].status = "review_ready" THEN {} ELSE {"parallel"})
    /\ quizzes' = [quizzes EXCEPT ![q].status = "published"]
    /\ jobs' = [j \in Jobs |-> IF jobs[j].quiz = q
                               THEN [jobs[j] EXCEPT !.status = "quiz_ready", !.stale = FALSE]
                               ELSE jobs[j]]
    /\ UNCHANGED <<pages, objects, cache, workers, clientVars, cleanupVars>>

(* ---------------------------- the worker slots ------------------------- *)

workerFrame == <<pages, uploads, choosing, aged, sweep, broken>>

\* Pending, or processing without an update for 30 minutes; rows another claim
\* has locked are skipped, so that a claim is atomic.
ClaimableTwice(j) == jobs[j].status \in {"pending", "processing"}
ClaimableUnfinished(j) ==
    \/ jobs[j].status \in {"pending", "ocr_complete"} /\ ~LiveOn(j)
    \/ jobs[j].status = "processing" /\ jobs[j].stale

Claimable(j) ==
    \/ jobs[j].status = "pending"
    \/ jobs[j].status = "processing" /\ jobs[j].stale

ClaimPendingJob(w, j) ==
    /\ workers[w].pc = "idle"
    /\ Claimable(j)
    /\ UpdateJobStatus(j, "processing")
    /\ workers' = [workers EXCEPT ![w].pc = "load", ![w].job = j]
    /\ UNCHANGED <<objects, quizzes, cache, budget, workerFrame>>

\* ProcessJob reads the row again and keeps the strategy and the text it finds.
LoadJob(w) ==
    LET job == jobs[workers[w].job] IN
    /\ workers[w].pc = "load"
    /\ IF Processable(job.status)
       THEN workers' = [workers EXCEPT
              ![w].pc = IF job.status = "pending" THEN "begin" ELSE "list",
              ![w].strategy = job.strategy,
              ![w].text = IF w \in Vision THEN NoText ELSE job.pipeline,
              ![w].resumed = w \notin Vision /\ job.pipeline # NoText]
       ELSE Rest(w)
    /\ UNCHANGED <<jobs, objects, quizzes, cache, budget, workerFrame>>

BeginJob(w) ==
    /\ workers[w].pc = "begin"
    /\ UpdateJobStatus(workers[w].job, "processing")
    /\ Goto(w, "list")
    /\ UNCHANGED <<objects, quizzes, cache, budget, workerFrame>>

\* A job resumed from its saved text skips OCR and the page limit.
ListPages(w) ==
    LET rows == PageRows(workers[w].job)
        refs == PageRefs(workers[w].job)
        tooMany == MaxPagesPerJob > 0 /\ Cardinality(rows) > MaxPagesPerJob IN
    /\ workers[w].pc = "list"
    /\ IF rows = {} \/ (tooMany /\ ~workers[w].resumed)
       THEN Goto(w, "failing")
       ELSE workers' = [workers EXCEPT
              ![w].pc = "ocr",
              ![w].todo = IF workers[w].resumed THEN {} ELSE refs,
              ![w].got = IF workers[w].resumed THEN refs ELSE {}]
    /\ UNCHANGED <<jobs, objects, quizzes, cache, budget, workerFrame>>

ReadPage(w, k) ==
    /\ workers[w].pc = "ocr" /\ k \in workers[w].todo
    /\ Readable(w, k)
    /\ workers' = [workers EXCEPT ![w].todo = @ \ {k}, ![w].got = @ \cup {k}]
    /\ UNCHANGED <<jobs, objects, quizzes, cache, budget, workerFrame>>

\* A page that cannot be read is skipped; the job goes on with the others.
SkipPage(w, k) ==
    /\ workers[w].pc = "ocr" /\ k \in workers[w].todo
    /\ Spend(IF Readable(w, k) THEN {"external"} ELSE {})
    /\ workers' = [workers EXCEPT ![w].todo = @ \ {k}]
    /\ UNCHANGED <<jobs, objects, quizzes, cache, workerFrame>>

NoPageRead(w) ==
    /\ workers[w].pc = "ocr" /\ workers[w].todo = {}
    /\ workers[w].got = {} /\ ~workers[w].resumed
    /\ Goto(w, "failing")
    /\ UNCHANGED <<jobs, objects, quizzes, cache, budget, workerFrame>>

\* Where the job goes once its text and mode are known.
Route(w, mode) ==
    IF mode = "undecided" THEN "save"
    ELSE IF Cacheable(w, mode) /\ ~workers[w].resumed THEN "lookup"
    ELSE "generate"

OcrComplete(w) ==
    LET j == workers[w].job IN
    /\ workers[w].pc = "ocr" /\ workers[w].todo = {}
    /\ workers[w].got # {} \/ workers[w].resumed
    /\ UpdateJobStatus(j, "ocr_complete")
    /\ \E t \in IF workers[w].resumed THEN {workers[w].text} ELSE TextsOf[j] :
         LET mode == IF w \in Vision THEN ModeOf[j]
                     ELSE ResolveGenerationMode(PageTypeOf[t], workers[w].strategy) IN
         workers' = [workers EXCEPT ![w].text = t, ![w].mode = mode,
                                    ![w].pc = Route(w, mode)]
    /\ UNCHANGED <<objects, quizzes, cache, budget, workerFrame>>

SavePipelineText(w) ==
    /\ workers[w].pc = "save"
    /\ jobs' = [jobs EXCEPT ![workers[w].job].pipeline = workers[w].text,
                            ![workers[w].job].stale = FALSE]
    /\ Goto(w, "ask")
    /\ UNCHANGED <<objects, quizzes, cache, budget, workerFrame>>

AskStrategy(w) ==
    /\ workers[w].pc = "ask"
    /\ UpdateJobStatus(workers[w].job, "needs_strategy")
    /\ Rest(w)
    /\ UNCHANGED <<objects, quizzes, cache, budget, workerFrame>>

LookupCache(w) ==
    LET hit == CachedQuiz(workers[w].text) IN
    /\ workers[w].pc = "lookup"
    /\ workers' = [workers EXCEPT ![w].quiz = hit,
                                  ![w].pc = IF hit = NoQuiz THEN "generate" ELSE "hit"]
    /\ UNCHANGED <<jobs, objects, quizzes, cache, budget, workerFrame>>

\* The AI rate limit refuses the call: the job is queued again.
RateLimited(w) ==
    /\ workers[w].pc = "generate"
    /\ Spend({"limit"})
    /\ UpdateJobStatus(workers[w].job, "pending")
    /\ Rest(w)
    /\ UNCHANGED <<objects, quizzes, cache, workerFrame>>

\* The AI has answered: the quiz row is inserted, its questions follow.
CreateQuiz(w) ==
    LET extract == workers[w].mode = "existing_questions" IN
    /\ workers[w].pc = "generate"
    /\ quizzes' = Append(quizzes, [status |-> IF extract THEN "draft" ELSE "published",
                                   extract |-> extract, linked |-> 0,
                                   text |-> workers[w].text])
    /\ workers' = [workers EXCEPT ![w].quiz = Len(quizzes) + 1, ![w].pc = "link"]
    /\ UNCHANGED <<jobs, objects, cache, budget, workerFrame>>

\* LinkQuestionToQuiz is the last of the four inserts of a question.
LinkQuestion(w) ==
    LET q == workers[w].quiz IN
    /\ workers[w].pc = "link"
    /\ quizzes' = [quizzes EXCEPT ![q].linked = @ + 1]
    /\ Goto(w, IF ~LastQuestion(q) THEN "link"
               ELSE IF Cacheable(w, workers[w].mode) THEN "store" ELSE "setquiz")
    /\ UNCHANGED <<jobs, objects, cache, budget, workerFrame>>

StoreCache(w) ==
    /\ workers[w].pc = "store"
    /\ cache' = [cache EXCEPT ![workers[w].text] = workers[w].quiz]
    /\ Goto(w, "setquiz")
    /\ UNCHANGED <<jobs, objects, quizzes, budget, workerFrame>>

UpdateJobQuizIDLost(w) ==
    /\ \/ workers[w].pc = "setquiz" /\ Goto(w, "delete")
       \/ workers[w].pc = "hit" /\ workers[w].got = {} /\ Goto(w, "clear")
    /\ UNCHANGED <<jobs, objects, quizzes, cache, budget, workerFrame>>

\* A generated quiz is recorded before the images go, a cached one after.
UpdateJobQuizID(w) ==
    /\ \/ workers[w].pc = "setquiz" /\ Goto(w, "delete")
       \/ workers[w].pc = "hit" /\ workers[w].got = {} /\ Goto(w, "clear")
    /\ jobs' = [jobs EXCEPT ![workers[w].job].quiz = workers[w].quiz,
                            ![workers[w].job].stale = FALSE]
    /\ UNCHANGED <<objects, quizzes, cache, budget, workerFrame>>

\* deletePageObjects ignores the errors of storage.
DeleteObject(w, k) ==
    /\ workers[w].pc \in {"delete", "hit", "faildelete"}
    /\ k \in workers[w].got
    /\ \/ objects' = objects \ {k} /\ UNCHANGED budget
       \/ k \in objects /\ Spend({"external"}) /\ UNCHANGED objects
    /\ workers' = [workers EXCEPT ![w].got = @ \ {k}]
    /\ UNCHANGED <<jobs, quizzes, cache, workerFrame>>

ImagesGone(w) == workers[w].pc = "delete" /\ workers[w].got = {}

ClearPipelineText(w) ==
    /\ workers[w].pc = "clear" \/ (ImagesGone(w) /\ w \notin Vision)
    /\ jobs' = [jobs EXCEPT ![workers[w].job].pipeline = NoText,
                            ![workers[w].job].stale = FALSE]
    /\ Goto(w, "final")
    /\ UNCHANGED <<objects, quizzes, cache, budget, workerFrame>>

FinishJob(w) ==
    /\ workers[w].pc = "final" \/ (ImagesGone(w) /\ w \in Vision)
    /\ UpdateJobStatus(workers[w].job, FinalJobStatus(workers[w].mode))
    /\ Rest(w)
    /\ UNCHANGED <<objects, quizzes, cache, budget, workerFrame>>

\* Every `return w.failJob(...)` of the pipeline on an error from outside.
WorkerError(w) ==
    /\ workers[w].pc \in {"list", "save", "lookup", "generate", "link", "store", "setquiz"}
    /\ Spend({"external"})
    /\ Goto(w, "failing")
    /\ UNCHANGED <<jobs, objects, quizzes, cache, workerFrame>>

\* failJob deletes the images of all pages, then marks the job failed.
FailJobList(w) ==
    /\ workers[w].pc = "failing"
    /\ workers' = [workers EXCEPT ![w].pc = "faildelete",
                                  ![w].got = PageRefs(workers[w].job)]
    /\ UNCHANGED <<jobs, objects, quizzes, cache, budget, workerFrame>>

FailJob(w) ==
    /\ workers[w].pc = "faildelete" /\ workers[w].got = {}
    /\ UpdateJobStatus(workers[w].job, "failed")
    /\ Rest(w)
    /\ UNCHANGED <<objects, quizzes, cache, budget, workerFrame>>

\* The process dies, or a statement whose error ProcessJob merely returns fails.
WorkerStops(w) ==
    /\ workers[w].pc # "idle"
    /\ Spend({"crash"})
    /\ Rest(w)
    /\ broken' = broken \cup (IF workers[w].pc = "faildelete" THEN {workers[w].job} ELSE {})
    /\ UNCHANGED <<jobs, objects, quizzes, cache, pages, uploads, choosing, aged, sweep>>

(* ----------------- administrator, clock, cache and cleanup ------------- *)

RetryJob(j) ==
    /\ jobs[j].status \in {"failed", "processing"}
    /\ Spend({"retry"})
    /\ UpdateJobStatus(j, "pending")
    /\ UNCHANGED <<pages, objects, quizzes, cache, workers, clientVars, cleanupVars>>

\* Thirty minutes without an update of the row.
TimePasses(j) ==
    /\ jobs[j].status = "processing" /\ ~jobs[j].stale
    /\ Spend(IF LiveOn(j) THEN {"stall"} ELSE {})
    /\ jobs' = [jobs EXCEPT ![j].stale = TRUE]
    /\ UNCHANGED <<pages, objects, quizzes, cache, workers, clientVars, cleanupVars>>

\* An entry expires, or an administrator invalidates it.
EvictCache(t) ==
    /\ cache[t] # NoQuiz
    /\ cache' = [cache EXCEPT ![t] = NoQuiz]
    /\ UNCHANGED <<jobs, pages, objects, quizzes, workers, clientVars, cleanupVars, budget>>

DayPasses(j) ==
    /\ jobs[j].status # "none" /\ j \notin aged
    /\ Spend({"age"})
    /\ aged' = aged \cup {j}
    /\ UNCHANGED <<jobs, pages, objects, quizzes, cache, workers, clientVars, sweep, broken>>

\* runCleanupOnce lists the pages, whatever the status of their job is ...
Orphans == {k \in UNION {PageRefs(j) : j \in aged} :
              ~IsStub(k) /\ ~pages[k[1]][k[2]].deleted}

CleanupList ==
    /\ sweep = {} /\ Orphans # {}
    /\ sweep' = Orphans
    /\ UNCHANGED <<jobs, pages, objects, quizzes, cache, workers, clientVars, aged, broken, budget>>

\* ... then deletes each object and sets deleted_at on its page.
CleanupDelete(k) ==
    /\ k \in sweep
    /\ objects' = objects \ {k}
    /\ pages' = [pages EXCEPT ![k[1]][k[2]].deleted = TRUE]
    /\ sweep' = sweep \ {k}
    /\ UNCHANGED <<jobs, quizzes, cache, workers, clientVars, aged, broken, budget>>

(* --------------------------- the specification ------------------------- *)

Init ==
    /\ jobs = [j \in Jobs |-> [status |-> "none", quiz |-> NoQuiz, strategy |-> NoStrategy,
                               pipeline |-> NoText, stale |-> FALSE]]
    /\ pages = [j \in Jobs |-> [p \in Pages |->
                  [upload |-> "absent", key |-> NoKey, deleted |-> FALSE]]]
    /\ objects = {}
    /\ quizzes = <<>>
    /\ cache = [t \in Texts |-> NoQuiz]
    /\ workers = [w \in Workers |-> IdleWorker]
    /\ uploads = [j \in Jobs |-> [p \in Pages |-> [pc |-> "idle", n |-> 0]]]
    /\ choosing = {}
    /\ aged = {}
    /\ sweep = {}
    /\ broken = {}
    /\ budget = Budget

UploadStep(j, p) ==
    \/ PutPage(j, p) \/ MarkPageUploaded(j, p) \/ UploadFails(j, p) \/ UndoUpload(j, p)
    \/ CheckAllPagesUploaded(j, p) \/ QueueUploadedJob(j, p) \/ AbandonUpload(j, p)

\* What a running slot does of its own: the steps the scheduler must give it.
WorkerStep(w) ==
    \/ \E j \in Jobs : ClaimPendingJob(w, j)
    \/ LoadJob(w) \/ BeginJob(w) \/ ListPages(w)
    \/ \E k \in workers[w].todo : ReadPage(w, k) \/ SkipPage(w, k)
    \/ NoPageRead(w) \/ OcrComplete(w) \/ SavePipelineText(w) \/ AskStrategy(w)
    \/ LookupCache(w) \/ CreateQuiz(w) \/ LinkQuestion(w) \/ StoreCache(w)
    \/ UpdateJobQuizID(w) \/ (\E k \in workers[w].got : DeleteObject(w, k))
    \/ ClearPipelineText(w) \/ FinishJob(w)
    \/ FailJobList(w) \/ FailJob(w)

WorkerFault(w) == RateLimited(w) \/ WorkerError(w) \/ WorkerStops(w)

Next ==
    \/ \E j \in Jobs : \/ CreateJob(j) \/ CreatePage(j)
                       \/ \E p \in Pages : UploadStep(j, p)
                       \/ \E s \in Strategies : CheckStrategy(j, s) \/ UpdateJobStrategy(j, s)
                       \/ RetryJob(j) \/ TimePasses(j) \/ DayPasses(j)
    \/ \E q \in 1..Len(quizzes) : PublishDraft(q)
    \/ \E w \in Workers : WorkerStep(w) \/ WorkerFault(w)
    \/ \E t \in Texts : EvictCache(t)
    \/ CleanupList
    \/ \E k \in sweep : CleanupDelete(k)

Spec == Init /\ [][Next]_vars

\* A slot that has work goes on with it, an idle slot polls, and time passes.
FairSpec ==
    /\ Spec
    /\ \A w \in Workers : WF_vars(WorkerStep(w))
    /\ \A j \in Jobs : WF_vars(TimePasses(j))

(* ------------------------------ properties ----------------------------- *)

Statuses == {"none", "uploading", "pending", "processing", "ocr_complete",
             "needs_strategy", "review_ready", "quiz_ready", "failed"}
Settled == {"needs_strategy", "review_ready", "quiz_ready", "failed"}
QuizIds == 1..Len(quizzes)

JobType ==
    [status : Statuses, quiz : Nat, strategy : AnyStrategy,
     pipeline : Texts \cup {NoText}, stale : BOOLEAN]
PageType ==
    [upload : {"absent", "pending", "uploaded"}, key : Keys \cup {NoKey}, deleted : BOOLEAN]
QuizType ==
    [status : {"draft", "published"}, extract : BOOLEAN, linked : 0..NQuestions, text : Texts]
WorkerPC ==
    {"idle", "load", "begin", "list", "ocr", "save", "ask", "lookup", "hit", "generate",
     "link", "store", "setquiz", "delete", "clear", "final", "failing", "faildelete"}
WorkerType ==
    [pc : WorkerPC, job : Jobs \cup {NoJob}, strategy : AnyStrategy,
     text : Texts \cup {NoText}, resumed : BOOLEAN, todo : SUBSET Keys, got : SUBSET Keys,
     mode : Modes \cup {"undecided"}, quiz : Nat]
UploadType == [pc : {"idle", "put", "undo", "marked", "ready"}, n : Nat]

\* Every row, object and local variable has the shape the schema and the code
\* give it; in particular no status outside model.go's list is ever written, and
\* no quiz has more questions than were generated for it.
TypeOK ==
    /\ jobs \in [Jobs -> JobType]
    /\ pages \in [Jobs -> [Pages -> PageType]]
    /\ objects \in SUBSET Keys
    /\ quizzes \in Seq(QuizType)
    /\ cache \in [Texts -> Nat]
    /\ workers \in [Workers -> WorkerType]
    /\ uploads \in [Jobs -> [Pages -> UploadType]]
    /\ choosing \in SUBSET (Jobs \X Strategies)
    /\ aged \in SUBSET Jobs
    /\ sweep \in SUBSET Keys
    /\ broken \in SUBSET Jobs
    /\ budget \in [FaultKinds -> Nat]

\* A student is never shown a half-written quiz: the quiz a job points at has all
\* of its questions, whatever slots crash, overlap or fail between the inserts.
JobQuizComplete ==
    \A j \in Jobs : jobs[j].quiz # NoQuiz =>
        jobs[j].quiz \in QuizIds /\ quizzes[jobs[j].quiz].linked = NQuestions

\* A job announced as ready (to play or to review) has a quiz, even when two
\* slots process it at once and finish in any order.
ReadyHasQuiz ==
    \A j \in Jobs : jobs[j].status \in {"quiz_ready", "review_ready"} => jobs[j].quiz # NoQuiz

\* What the cache hands to the next student is a complete generated quiz of that
\* very text: never a draft of someone's own exam, never one still being written.
CacheSound ==
    \A t \in Texts : cache[t] # NoQuiz =>
        /\ cache[t] \in QuizIds
        /\ LET quiz == quizzes[cache[t]] IN
           quiz.linked = NQuestions /\ ~quiz.extract /\ quiz.status = "published" /\ quiz.text = t

\* A job never ends up with the quiz of another book: through the cache, a
\* resumed text or an overlapping slot, its quiz is about a text of its pages.
QuizOfOwnText ==
    \A j \in Jobs : jobs[j].quiz # NoQuiz => quizzes[jobs[j].quiz].text \in TextsOf[j]

\* Without stalls, repeated or parallel requests and administrator retries, no two
\* slots of any replica process the same job: the claim and the 30-minute rule
\* are all that keeps them apart, also after a crash.
OneSlotPerJob ==
    \A v, w \in Workers : v # w /\ workers[v].job # NoJob => workers[v].job # workers[w].job

\* A job can be processed if its text is saved or an image of it is in storage.
HasInput(j) ==
    jobs[j].pipeline # NoText \/ \E k \in PageRefs(j) : k \in objects \/ IsStub(k)

\* A job no slot works on, and that one may claim now or after 30 minutes.
Waits(j) ==
    \/ jobs[j].status = "pending"
    \/ jobs[j].status = "processing" /\ ~LiveOn(j) /\ j \notin broken

\* A job that a slot will claim can still be processed: rate limiting and crashes put it
\* back after its images were read, but never after they are gone.  The exception is a
\* slot that dies in failJob, between the deletion of the images and the status: what is
\* claimed again then is a job that can only fail once more.
QueuedHasInput ==
    \A j \in Jobs : Waits(j) /\ PageRows(j) = Pages => HasInput(j)

\* A status says what is so: "ready to play" goes with a published quiz, "ready for
\* review" with a draft, a job is not reported failed once its quiz was delivered, and
\* a user who has named a strategy, when the job was created or later, is not asked for one.
StatusIsTrue ==
    \A j \in Jobs :
        /\ jobs[j].status = "quiz_ready" => quizzes[jobs[j].quiz].status = "published"
        /\ jobs[j].status = "review_ready" => quizzes[jobs[j].quiz].status = "draft"
        /\ jobs[j].status = "failed" => jobs[j].quiz = NoQuiz
        /\ jobs[j].status = "needs_strategy" => jobs[j].strategy \notin Strategies

\* A job fails only if storage, OCR, the AI or the database failed it.
FailureHasCause ==
    (\E j \in Jobs : jobs[j].status = "failed") => budget["external"] < Budget["external"]

\* Somebody who will delete this image can still find it: the request that stores it, or
\* the cleanup through its page.
Findable(k) ==
    \/ uploads[k[1]][k[2]].pc \in {"put", "undo"} /\ k = Key(k[1], k[2])
    \/ pages[k[1]][k[2]].key = k /\ ~pages[k[1]][k[2]].deleted
    \/ k \in sweep

\* An image in temporary storage stays within reach of whoever deletes it.  To lose one takes
\* two failures, of the statement that names it in its row and of the deletion that follows.
ObjectsReclaimable ==
    2 * Cardinality({k \in objects : ~Findable(k)}) <= Budget["external"] - budget["external"]

\* As long as no slot crashes, a queued job settles: it ends ready or failed, or
\* waits for its user, and does not stay queued or half-processed for ever.
QueuedJobSettles ==
    \A j \in Jobs : (jobs[j].status = "pending") ~> (jobs[j].status \in Settled)

\* "Re-queue failed jobs via admin": what RetryJob takes out of the failed state is
\* a job that a slot can process.
RequeuedHasInput ==
    [][\A j \in Jobs : jobs[j].status = "failed" /\ jobs'[j].status = "pending"
            => HasInput(j)']_vars

\* "ocr complete; generating quiz": a job that shows this state is being worked on
\* and leaves it again.
GeneratingGoesOn ==
    \A j \in Jobs : (jobs[j].status = "ocr_complete") ~> (jobs[j].status # "ocr_complete")
=============================================================================
