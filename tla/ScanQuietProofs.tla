---------------------------- MODULE ScanQuietProofs ----------------------------
(*****************************************************************************)
(* What the scan pipeline keeps when the requests of a user come one after   *)
(* another and no slot stalls, for any number of jobs, pages, slots, texts,  *)
(* crashes, refusals and failures of services.  Five layers, each inductive  *)
(* only with the ones before it and the invariant of ScanJobsProofs:         *)
(*                                                                           *)
(* 1. Once     every image has one key, and row and upload agree on it.      *)
(* 2. QuietOK  one slot on a job; what a slot may rely on; what a status     *)
(*             says; a draft has one owner.                                  *)
(* 3. Fed      a job that is or may be queued again has its input.           *)
(* 4. Kept     so has a job in process, until its slot fails it.             *)
(* 5. NoCause  until something outside fails, no job has failed or will.     *)
(*****************************************************************************)
EXTENDS ScanJobsProofs, FiniteSetTheorems

\* What is left of a kind of fault is at most what there was: a kind with none never happens.
BudgetOK ==
    /\ budget \in [FaultKinds -> Nat]
    /\ \A k \in FaultKinds : budget[k] <= Budget[k]

\* The image of page p of job j, when no page is uploaded twice.
Image(j, p) == <<j, p, 1>>

\* How the row of a page, its upload and its image go together: the key is written once, by
\* the upload that stored the image.
ImageOnce(j, p) ==
    LET row == pages[j][p]
        up == uploads[j][p] IN
    /\ up.n \in {0, 1}
    /\ up.n = 0 => up.pc = "idle"
    /\ up.n = 1 => j \notin Inline /\ row.upload # "absent"
    /\ row.key \in {NoKey, <<j, p, 0>>, Image(j, p)}
    /\ row.key = <<j, p, 0>> => j \in Inline
    /\ row.key = Image(j, p) => up.n = 1
    /\ row.upload = "absent" => row.key = NoKey
    /\ row.upload # "absent" /\ j \in Inline => row.key = <<j, p, 0>>
    /\ row.upload = "uploaded" => row.key = Image(j, p)
    /\ up.pc \in {"put", "undo"} => row.key = NoKey
    /\ up.pc \in {"marked", "ready"} => row.key = Image(j, p)
    /\ Image(j, p) \in objects => up.n = 1
    /\ row.deleted => row.key = Image(j, p) /\ Image(j, p) \notin objects

\* Page rows are created one after the other, before anything is uploaded.
RowsOnce(j) ==
    /\ \E n \in 0..NPages : PageRows(j) = 1..n
    /\ PageRows(j) # {} => jobs[j].status # "none"
    /\ \A p \in Pages : uploads[j][p].n = 1 => PageRows(j) = Pages

\* Temporary storage holds images of pages, nothing else.
OnlyImages == \A k \in objects : \E j \in Jobs, p \in Pages : k = Image(j, p)
\* The cleanup works on images its pages still name.
SweepOnce == \A k \in sweep : \E j \in Jobs, p \in Pages : k = Image(j, p) /\ pages[j][p].key = k

\* Layer 1: every page is stored once.
Once ==
    /\ BudgetOK
    /\ \A j \in Jobs : RowsOnce(j)
    /\ \A j \in Jobs, p \in Pages : ImageOnce(j, p)
    /\ OnlyImages
    /\ SweepOnce

\* A stored image is named by its row, or its upload is about to name or to remove it.
Found(j, p) ==
    Image(j, p) \in objects => uploads[j][p].pc \in {"put", "undo"} \/ pages[j][p].key = Image(j, p)

\* The images nobody will find, and the requests that are about to remove one.
Lost == {k \in objects : ~Found(k[1], k[2])}
Undoing == {c \in Jobs \X Pages : uploads[c[1]][c[2]].pc = "undo"}

\* A lost image has cost two failures, a request that undoes its upload one.
LossesPaid ==
    /\ IsFiniteSet(Lost) /\ IsFiniteSet(Undoing)
    /\ 2 * Cardinality(Lost) + Cardinality(Undoing) <= Budget["external"] - budget["external"]

\* Stages in which a slot holds a quiz its job does not point at yet.
HoldingPC == {"link", "store", "setquiz", "hit"}
\* Stages after the job was moved to ocr_complete.
AfterOcr == {"save", "ask", "lookup", "hit", "generate", "link", "store", "setquiz", "delete", "clear", "final"}
\* Stages after the quiz was recorded in the job.
Recorded == {"delete", "clear", "final"}
\* Statuses a job without a quiz has.
Early == {"none", "uploading", "pending", "processing", "needs_strategy", "failed"}

\* The quiz is a draft exactly when the mode asked for a review.
Fits(q, mode) == q \in QuizIds /\ (quizzes[q].status = "draft" <=> mode = "existing_questions")

\* What a slot that works may rely on about its job.
SlotAt(w) ==
    LET s == workers[w]
        row == jobs[s.job] IN
    /\ s.pc = "idle" => s.job = NoJob
    /\ s.pc # "idle" =>
         /\ row.status \in {"processing", "ocr_complete"} /\ ~row.stale
         /\ s.pc \in AfterOcr => row.status = "ocr_complete"
         /\ s.pc \notin Recorded => row.quiz = NoQuiz
         /\ s.pc # "load" => s.strategy = row.strategy
         /\ s.pc \in {"save", "ask"} => s.strategy \notin Strategies
         /\ s.pc \in HoldingPC => Fits(s.quiz, s.mode)
         /\ s.pc \in Recorded => Fits(row.quiz, s.mode)

\* What the status of a job says about its quiz, its strategy and its images.
JobAt(j) ==
    LET row == jobs[j] IN
    /\ row.status \in Early => row.quiz = NoQuiz
    /\ row.status = "quiz_ready" => quizzes[row.quiz].status = "published"
    /\ row.status = "review_ready" => quizzes[row.quiz].status = "draft"
    /\ row.status = "needs_strategy" => row.strategy \notin Strategies
    /\ row.status = "uploading" => j \notin Inline
    /\ row.status \notin {"none", "uploading"} /\ j \notin Inline =>
         \A p \in Pages : pages[j][p].key = Image(j, p)

\* An upload runs alone, before the job is queued, and queues it when every page is there.
UploadAt(j, p) ==
    /\ uploads[j][p].pc # "idle" =>
         /\ jobs[j].status = "uploading"
         /\ \A q \in Pages : q # p => uploads[j][q].pc = "idle"
    /\ uploads[j][p].pc = "ready" => \A q \in Pages : pages[j][q].key = Image(j, q)

\* A strategy is chosen for a job that waits for one, and by one request.
ChoiceAt ==
    \A c, d \in choosing :
        /\ jobs[c[1]].status = "needs_strategy"
        /\ c[1] = d[1] => c = d

\* Slot w has quiz q and has not recorded it.
Holds(w, q) == workers[w].pc \in HoldingPC /\ workers[w].quiz = q

\* A draft belongs to one job or is in the hands of one slot.
DraftOwned(q) ==
    quizzes[q].status = "draft" =>
        /\ \A i, j \in Jobs : jobs[i].quiz = q /\ jobs[j].quiz = q => i = j
        /\ \A v, w \in Workers : Holds(v, q) /\ Holds(w, q) => v = w
        /\ \A j \in Jobs, w \in Workers : ~(jobs[j].quiz = q /\ Holds(w, q))

\* Layer 2: one slot on a job, and statuses that are true.
QuietOK ==
    /\ \A w \in Workers : SlotAt(w)
    /\ \A j \in Jobs : JobAt(j)
    /\ \A j \in Jobs, p \in Pages : UploadAt(j, p)
    /\ ChoiceAt
    /\ \A q \in QuizIds : DraftOwned(q)
    /\ OneSlotPerJob

\* Nothing is old enough for the cleanup.
OldOK == aged = {} /\ sweep = {}
\* The page can be read.
Here(k) == k \in objects \/ IsStub(k)

\* Stages in which the slot still needs the images or the text.
FeedingPC == {"begin", "list", "ocr", "save", "ask", "lookup", "generate"}

\* The slot reads pages of its own job, and what it read is still there when it asks its user
\* or the model, because a rate limit would send the job back to the queue.
FedSlot(w) ==
    LET s == workers[w] IN
    /\ s.pc = "idle" => s.todo = {} /\ s.got = {}
    /\ s.pc # "idle" =>
         /\ s.todo \cup s.got \subseteq PageRefs(s.job)
         /\ s.pc \in FeedingPC /\ s.resumed =>
              jobs[s.job].pipeline # NoText
         /\ s.pc \in {"ocr", "save", "ask", "lookup", "generate"} /\ ~s.resumed => \A k \in s.got : Here(k)
         /\ s.pc \in {"save", "ask", "lookup", "generate"} /\ ~s.resumed => s.got # {}
         /\ s.pc = "ask" => jobs[s.job].pipeline # NoText

\* A job that waits for its user has its text; one that is queued has text or images.
FedJob(j) ==
    /\ jobs[j].status = "needs_strategy" => jobs[j].pipeline # NoText
    /\ jobs[j].status = "pending" /\ PageRows(j) = Pages => HasInput(j)
    /\ \A p \in Pages :
         /\ uploads[j][p].pc = "put" => Image(j, p) \in objects
         /\ jobs[j].status = "uploading" /\ pages[j][p].key = Image(j, p) => Image(j, p) \in objects

\* Layer 3: what is or may be queued has its input.
Fed ==
    /\ OldOK
    /\ \A w \in Workers : FedSlot(w)
    /\ \A j \in Jobs : FedJob(j)

\* The slot of the job has begun to delete its images, or died while it did.
Spoiled(j) == j \in broken \/ \E w \in Workers : workers[w].job = j /\ workers[w].pc = "faildelete"

\* A job in process has its input until its slot fails it; the claim has set its status, so that
\* the slot never does.
Kept ==
    /\ \A w \in Workers : workers[w].pc # "begin"
    /\ \A j \in Jobs : jobs[j].status = "processing" /\ PageRows(j) = Pages => HasInput(j) \/ Spoiled(j)

\* Every image of the job is in storage.
Imaged(j) == \A p \in Pages : Image(j, p) \in objects

\* The job has not failed and, until it passed OCR, has all images.
Causeless(j) ==
    /\ jobs[j].status # "failed"
    /\ jobs[j].status \in {"pending", "processing", "needs_strategy"} => Imaged(j)

\* The slot is not about to fail its job: there are images to read.
CauselessSlot(w) ==
    LET s == workers[w] IN
    /\ s.pc \notin {"failing", "faildelete"}
    /\ s.pc \in FeedingPC \cup {"load"} => Imaged(s.job)
    /\ s.pc = "ocr" /\ ~s.resumed => s.todo \cup s.got # {}

\* No job failed or will fail.
Clean ==
    /\ \A j \in Jobs : Causeless(j)
    /\ \A w \in Workers : CauselessSlot(w)

\* Storage, OCR, AI and database have not failed yet.
Unspent == budget["external"] = Budget["external"]
\* Layer 4: until something outside fails, no job does.
NoCause == Unspent => Clean


(* ------------------------------- the budget ---------------------------- *)

\* Spending faults only lowers the budget.
LEMMA SpendSinks ==
    ASSUME BudgetOK, NEW kinds, Spend(kinds)
    PROVE  BudgetOK'
<1>1. budget \in [FaultKinds -> Nat] /\ Budget \in [FaultKinds -> Nat] BY ScanAssumption DEF BudgetOK
<1>2. ASSUME NEW k \in FaultKinds PROVE budget'[k] \in Nat /\ budget'[k] <= budget[k]
  <2>1. budget'[k] = IF k \in kinds THEN budget[k] - 1 ELSE budget[k] BY DEF Spend
  <2>2. k \in kinds => budget[k] > 0 BY DEF Spend
  <2>. QED BY <1>1, <2>1, <2>2
<1>3. budget' \in [FaultKinds -> Nat] BY <1>2 DEF Spend
<1>4. \A k \in FaultKinds : budget'[k] <= Budget[k] BY <1>1, <1>2 DEF BudgetOK
<1>. QED BY <1>3, <1>4 DEF BudgetOK

\* A kind of fault without budget does not happen.
LEMMA Never ==
    ASSUME BudgetOK, NEW kinds, Spend(kinds), NEW k \in FaultKinds, Budget[k] = 0
    PROVE  k \notin kinds
<1>1. budget[k] <= 0 /\ budget[k] \in Nat BY DEF BudgetOK
<1>2. ~(budget[k] > 0) BY <1>1
<1>. QED BY <1>2 DEF Spend

\* The budget changes by spending only.
Charged == UNCHANGED budget \/ \E kinds : Spend(kinds)

\* No step refills the budget.
LEMMA Charges ==
    ASSUME [Next]_vars
    PROVE  Charged
<1>1. ASSUME UNCHANGED budget PROVE Charged BY <1>1 DEF Charged
<1>2. ASSUME NEW j \in Jobs, CreateJob(j) \/ CreatePage(j) PROVE Charged
  BY <1>1, <1>2 DEF CreateJob, CreatePage
<1>3. ASSUME NEW j \in Jobs, NEW p \in Pages, UploadStep(j, p) PROVE Charged
  <2>1. CASE PutPage(j, p) BY <2>1 DEF Charged, PutPage
  <2>2. CASE UploadFails(j, p) BY <2>2 DEF Charged, UploadFails
  <2>3. CASE AbandonUpload(j, p) BY <2>3 DEF Charged, AbandonUpload
  <2>5. CASE UndoUpload(j, p) BY <1>1, <2>5 DEF Charged, UndoUpload
  <2>4. CASE MarkPageUploaded(j, p) \/ CheckAllPagesUploaded(j, p) \/ QueueUploadedJob(j, p)
    BY <1>1, <2>4 DEF MarkPageUploaded, CheckAllPagesUploaded, QueueUploadedJob
  <2>. QED BY <1>3, <2>1, <2>2, <2>3, <2>4, <2>5 DEF UploadStep
<1>4. ASSUME NEW j \in Jobs, NEW s \in Strategies, CheckStrategy(j, s) \/ UpdateJobStrategy(j, s)
      PROVE Charged
  <2>1. CASE CheckStrategy(j, s) BY <2>1 DEF Charged, CheckStrategy
  <2>2. CASE UpdateJobStrategy(j, s) BY <1>1, <2>2 DEF UpdateJobStrategy
  <2>. QED BY <1>4, <2>1, <2>2
<1>5. ASSUME NEW j \in Jobs, RetryJob(j) \/ TimePasses(j) \/ DayPasses(j) PROVE Charged
  <2>1. CASE RetryJob(j) BY <2>1 DEF Charged, RetryJob
  <2>2. CASE TimePasses(j) BY <2>2 DEF Charged, TimePasses
  <2>3. CASE DayPasses(j) BY <2>3 DEF Charged, DayPasses
  <2>. QED BY <1>5, <2>1, <2>2, <2>3
<1>6. ASSUME NEW q \in 1..Len(quizzes), PublishDraft(q) PROVE Charged
  BY <1>6 DEF Charged, PublishDraft
<1>7. ASSUME NEW w \in Workers, WorkerStep(w) PROVE Charged
  <2>1. ASSUME NEW k, SkipPage(w, k) PROVE Charged BY <2>1 DEF Charged, SkipPage
  <2>2. ASSUME NEW k, DeleteObject(w, k) PROVE Charged BY <1>1, <2>2 DEF Charged, DeleteObject
  <2>3. ASSUME NEW k, ReadPage(w, k) PROVE Charged BY <1>1, <2>3 DEF ReadPage
  <2>4. ASSUME NEW j \in Jobs, ClaimPendingJob(w, j) PROVE Charged BY <1>1, <2>4 DEF ClaimPendingJob
  <2>5. CASE \/ LoadJob(w) \/ BeginJob(w) \/ ListPages(w)
             \/ NoPageRead(w) \/ OcrComplete(w) \/ SavePipelineText(w) \/ AskStrategy(w)
             \/ LookupCache(w) \/ CreateQuiz(w) \/ LinkQuestion(w) \/ StoreCache(w)
             \/ UpdateJobQuizID(w) \/ ClearPipelineText(w) \/ FinishJob(w)
             \/ FailJobList(w) \/ FailJob(w)
    <3>1. UNCHANGED budget
      BY <2>5 DEF LoadJob, BeginJob, ListPages, NoPageRead, OcrComplete, SavePipelineText, AskStrategy,
         LookupCache, CreateQuiz, LinkQuestion, StoreCache, UpdateJobQuizID, ClearPipelineText,
         FinishJob, FailJobList, FailJob
    <3>. QED BY <1>1, <3>1
  <2>. QED BY <1>7, <2>1, <2>2, <2>3, <2>4, <2>5 DEF WorkerStep
<1>8. ASSUME NEW w \in Workers, WorkerFault(w) PROVE Charged
  BY <1>8 DEF Charged, WorkerFault, RateLimited, WorkerError, WorkerStops
<1>9. ASSUME NEW t \in Texts, EvictCache(t) PROVE Charged BY <1>1, <1>9 DEF EvictCache
<1>10. CASE CleanupList BY <1>1, <1>10 DEF CleanupList
<1>11. ASSUME NEW k \in sweep, CleanupDelete(k) PROVE Charged BY <1>1, <1>11 DEF CleanupDelete
<1>12. CASE UNCHANGED vars BY <1>1, <1>12 DEF vars
<1>. QED
  BY <1>2, <1>3, <1>4, <1>5, <1>6, <1>7, <1>8, <1>9, <1>10, <1>11, <1>12 DEF Next

\* Every step keeps the budget within its limits.
LEMMA BudgetSinks ==
    ASSUME BudgetOK, [Next]_vars
    PROVE  BudgetOK'
<1>1. CASE UNCHANGED budget BY <1>1 DEF BudgetOK
<1>2. ASSUME NEW kinds, Spend(kinds) PROVE BudgetOK' BY <1>2, SpendSinks
<1>. QED BY <1>1, <1>2, Charges DEF Charged

(* ------------------------ what a slot leaves alone --------------------- *)

\* A job that exists keeps existing.
Stays == \A j \in Jobs : jobs'[j].status = "none" => jobs[j].status = "none"

\* A new status does not undo a job.
LEMMA StatusStays ==
    ASSUME TypeOK, NEW j, NEW s, s # "none", UpdateJobStatus(j, s)
    PROVE  Stays
BY DEF TypeOK, UpdateJobStatus, Stays, JobType

\* A slot writes no page row, upload or choice, and stores no image.
LEMMA SlotFrame ==
    ASSUME TypeOK, NEW w \in Workers, WorkerStep(w) \/ WorkerFault(w)
    PROVE  /\ UNCHANGED <<pages, uploads, choosing, aged, sweep>>
           /\ objects' \subseteq objects
           /\ Stays
<1>0. ASSUME UNCHANGED jobs PROVE Stays BY <1>0 DEF Stays
<1>1. ASSUME NEW k, SkipPage(w, k) \/ ReadPage(w, k)
      PROVE UNCHANGED <<pages, uploads, choosing, aged, sweep, jobs, objects>>
  BY <1>1 DEF SkipPage, ReadPage, workerFrame
<1>2. ASSUME NEW k, DeleteObject(w, k)
      PROVE UNCHANGED <<pages, uploads, choosing, aged, sweep, jobs>> /\ objects' \subseteq objects
  BY <1>2 DEF DeleteObject, workerFrame
<1>3. ASSUME NEW j \in Jobs, ClaimPendingJob(w, j)
      PROVE UNCHANGED <<pages, uploads, choosing, aged, sweep, objects>> /\ Stays
  BY <1>3, StatusStays DEF ClaimPendingJob, workerFrame
<1>4. CASE \/ LoadJob(w) \/ ListPages(w) \/ NoPageRead(w) \/ LookupCache(w) \/ CreateQuiz(w)
           \/ LinkQuestion(w) \/ StoreCache(w) \/ FailJobList(w) \/ WorkerError(w) \/ WorkerStops(w)
  <2>1. UNCHANGED <<pages, uploads, choosing, aged, sweep, jobs, objects>>
    BY <1>4 DEF LoadJob, ListPages, NoPageRead, LookupCache, CreateQuiz, LinkQuestion, StoreCache,
       FailJobList, WorkerError, WorkerStops, workerFrame
  <2>. QED BY <1>0, <2>1
<1>5. CASE \/ BeginJob(w) \/ OcrComplete(w) \/ AskStrategy(w) \/ FinishJob(w) \/ FailJob(w)
           \/ RateLimited(w)
  <2>1. UNCHANGED <<pages, uploads, choosing, aged, sweep, objects>>
    BY <1>5 DEF BeginJob, OcrComplete, AskStrategy, FinishJob, FailJob, RateLimited, workerFrame
  <2>2. PICK s : s # "none" /\ UpdateJobStatus(workers[w].job, s)
    BY <1>5 DEF BeginJob, OcrComplete, AskStrategy, FinishJob, FailJob, RateLimited, FinalJobStatus
  <2>. QED BY <2>1, <2>2, StatusStays
<1>6. CASE SavePipelineText(w) \/ UpdateJobQuizID(w) \/ ClearPipelineText(w)
  <2>1. UNCHANGED <<pages, uploads, choosing, aged, sweep, objects>>
    BY <1>6 DEF SavePipelineText, UpdateJobQuizID, ClearPipelineText, workerFrame
  <2>2. CASE SavePipelineText(w) BY <2>1, <2>2 DEF SavePipelineText, TypeOK, JobType, Stays
  <2>3. CASE UpdateJobQuizID(w) BY <2>1, <2>3 DEF UpdateJobQuizID, TypeOK, JobType, Stays
  <2>4. CASE ClearPipelineText(w) BY <2>1, <2>4 DEF ClearPipelineText, TypeOK, JobType, Stays
  <2>. QED BY <1>6, <2>1, <2>2, <2>3, <2>4
<1>7. CASE WorkerStep(w)
  BY <1>0, <1>1, <1>2, <1>3, <1>4, <1>5, <1>6, <1>7 DEF WorkerStep
<1>8. CASE WorkerFault(w)
  BY <1>4, <1>5, <1>8 DEF WorkerFault
<1>. QED BY <1>7, <1>8

(* ---------------------------- every page once -------------------------- *)

\* No key, the key of a stub and the key of an image are different.
LEMMA KeysDiffer ==
    ASSUME NEW j, NEW p
    PROVE  NoKey # Image(j, p) /\ <<j, p, 0>> # Image(j, p) /\ NoKey # <<j, p, 0>>
BY DEF NoKey, Image

\* A page whose row and upload stay keeps its layer.
LEMMA ImageKept ==
    ASSUME NEW i \in Jobs, NEW q \in Pages, ImageOnce(i, q),
           pages'[i][q] = pages[i][q], uploads'[i][q] = uploads[i][q],
           Image(i, q) \in objects' => Image(i, q) \in objects
    PROVE  ImageOnce(i, q)'
BY DEF ImageOnce, Image

\* A job whose rows stay keeps its layer.
LEMMA RowsKept ==
    ASSUME NEW i \in Jobs, RowsOnce(i), PageRows(i)' = PageRows(i),
           \A q \in Pages : uploads'[i][q].n = 1 => uploads[i][q].n = 1,
           jobs'[i].status = "none" => jobs[i].status = "none"
    PROVE  RowsOnce(i)'
BY DEF RowsOnce

\* Layer 1 stays when rows and uploads do and no image is added.
LEMMA OnceKept ==
    ASSUME Once, BudgetOK', UNCHANGED <<pages, uploads>>, objects' \subseteq objects,
           sweep' \subseteq sweep, Stays
    PROVE  Once'
<1>1. \A j \in Jobs : RowsOnce(j)' BY RowsKept DEF Once, Stays, PageRows
<1>2. \A j \in Jobs, p \in Pages : ImageOnce(j, p)' BY ImageKept DEF Once
<1>3. OnlyImages' BY DEF Once, OnlyImages, Image
<1>4. SweepOnce' BY DEF Once, SweepOnce, Image
<1>. QED BY <1>1, <1>2, <1>3, <1>4 DEF Once

\* An upload that ends or goes on keeps layer 1.
LEMMA UploadMovesOnce ==
    ASSUME TypeOK, Once, BudgetOK', NEW j \in Jobs, NEW p \in Pages, NEW pc,
           uploads' = [uploads EXCEPT ![j][p].pc = pc],
           \/ pc = "idle" \/ (pc = "ready" /\ uploads[j][p].pc = "marked")
           \/ (pc = "undo" /\ uploads[j][p].pc = "put"),
           UNCHANGED <<pages, sweep>>, objects' \subseteq objects, Stays
    PROVE  Once'
<1>1. uploads[j][p] \in UploadType BY DEF TypeOK
<1>2. uploads'[j][p] = [uploads[j][p] EXCEPT !.pc = pc] BY DEF TypeOK
<1>3. \A i \in Jobs, q \in Pages : <<i, q>> # <<j, p>> => uploads'[i][q] = uploads[i][q] BY DEF TypeOK
<1>4. \A i \in Jobs, q \in Pages : uploads'[i][q].n = uploads[i][q].n BY <1>1, <1>2, <1>3 DEF UploadType
<1>5. \A i \in Jobs : RowsOnce(i)' BY <1>4, RowsKept DEF Once, Stays, PageRows
<1>6. ImageOnce(j, p)'
  <2>1. uploads'[j][p].n = uploads[j][p].n /\ uploads'[j][p].pc = pc BY <1>1, <1>2 DEF UploadType
  <2>2. ImageOnce(j, p) BY DEF Once
  <2>. QED BY <2>1, <2>2 DEF ImageOnce, Image
<1>7. \A i \in Jobs, q \in Pages : ImageOnce(i, q)'
  BY <1>3, <1>6, ImageKept DEF Once
<1>8. OnlyImages' BY DEF Once, OnlyImages, Image
<1>9. SweepOnce' BY DEF Once, SweepOnce, Image
<1>. QED BY <1>5, <1>7, <1>8, <1>9 DEF Once

\* CreatePage keeps layer 1.
LEMMA CreatePageOnce ==
    ASSUME TypeOK, Once, NEW j \in Jobs, CreatePage(j)
    PROVE  Once'
<1>1. UNCHANGED <<jobs, objects, uploads, sweep, budget>> /\ jobs[j].status # "none"
  BY DEF CreatePage, clientVars, cleanupVars
<1>0. PICK p \in Pages : p = Cardinality(PageRows(j)) + 1 BY DEF CreatePage
<1>. DEFINE key == IF j \in Inline THEN <<j, p, 0>> ELSE NoKey
<1>2. PICK n \in 0..NPages : PageRows(j) = 1..n BY DEF Once, RowsOnce
<1>3. p = n + 1
  <2>1. Cardinality(1..n) = n BY FS_Interval
  <2>. QED BY <1>0, <1>2, <2>1
<1>4. pages[j][p] \in PageType /\ pages[j][p].upload = "absent"
  <2>1. p \notin PageRows(j) BY <1>2, <1>3
  <2>. QED BY <2>1 DEF PageRows, TypeOK
<1>5. pages'[j][p] = [pages[j][p] EXCEPT !.upload = "pending", !.key = key]
  BY <1>0, <1>1 DEF CreatePage, TypeOK
<1>6. \A i \in Jobs, q \in Pages : <<i, q>> # <<j, p>> => pages'[i][q] = pages[i][q]
  BY <1>0, <1>1 DEF CreatePage, TypeOK
<1>7. pages'[j][p].upload = "pending" /\ pages'[j][p].key = key /\ pages'[j][p].deleted = pages[j][p].deleted
  BY <1>4, <1>5 DEF PageType
<1>8. ImageOnce(j, p) BY DEF Once
<1>9. ImageOnce(j, p)'
  <2>1. uploads[j][p].n = 0 /\ uploads[j][p].pc = "idle" /\ pages[j][p].key = NoKey BY <1>4, <1>8 DEF ImageOnce
  <2>2. ~pages[j][p].deleted BY <1>8, <2>1, KeysDiffer DEF ImageOnce
  <2>3. uploads'[j][p] = uploads[j][p] /\ ~(Image(j, p) \in objects') /\ Image(j, p) = Image(j, p)'
    BY <1>1, <1>8, <2>1 DEF ImageOnce, Image
  <2>4. NoKey # Image(j, p) /\ <<j, p, 0>> # Image(j, p) /\ NoKey # <<j, p, 0>> BY KeysDiffer
  <2>5. CASE j \in Inline BY <1>7, <2>1, <2>2, <2>3, <2>4, <2>5 DEF ImageOnce
  <2>6. CASE j \notin Inline BY <1>7, <2>1, <2>2, <2>3, <2>4, <2>6 DEF ImageOnce
  <2>. QED BY <2>5, <2>6
<1>10. \A i \in Jobs, q \in Pages : ImageOnce(i, q)' BY <1>1, <1>6, <1>9, ImageKept DEF Once
<1>11. \A i \in Jobs : RowsOnce(i)'
  <2>1. ASSUME NEW i \in Jobs, i # j PROVE RowsOnce(i)'
    <3>1. PageRows(i)' = PageRows(i) BY <1>6, <2>1 DEF PageRows
    <3>. QED BY <1>1, <3>1, RowsKept DEF Once
  <2>2. RowsOnce(j)'
    <3>1. PageRows(j)' = PageRows(j) \cup {p} BY <1>1, <1>6, <1>7 DEF PageRows
    <3>2. PageRows(j)' = 1..(n + 1) BY <1>2, <1>3, <3>1
    <3>3. n + 1 \in 0..NPages BY <1>1, <1>3, ScanAssumption DEF Pages
    <3>4. \A q \in Pages : uploads[j][q].n # 1 BY <1>1, <1>4 DEF Once, RowsOnce, PageRows
    <3>. QED BY <1>1, <3>2, <3>3, <3>4 DEF RowsOnce
  <2>. QED BY <2>1, <2>2
<1>12. OnlyImages' BY <1>1 DEF Once, OnlyImages, Image
<1>13. SweepOnce'
  <2>1. ASSUME NEW i \in Jobs, NEW q \in Pages, Image(i, q) \in sweep, pages[i][q].key = Image(i, q)
        PROVE  pages'[i][q].key = Image(i, q)
    <3>1. <<i, q>> # <<j, p>>
      <4>1. pages[j][p].key = NoKey BY <1>4, <1>8 DEF ImageOnce
      <4>. QED BY <2>1, <4>1, KeysDiffer
    <3>. QED BY <1>6, <2>1, <3>1
  <2>. QED BY <1>1, <2>1 DEF Once, SweepOnce, Image
<1>14. BudgetOK' BY <1>1 DEF Once, BudgetOK
<1>. QED BY <1>10, <1>11, <1>12, <1>13, <1>14 DEF Once

\* Without repeated uploads UploadPageImage stores a page for the first time.
LEMMA FirstUpload ==
    ASSUME TypeOK, Once, Budget["reupload"] = 0, NEW j \in Jobs, NEW p \in Pages, PutPage(j, p)
    PROVE  /\ uploads[j][p].n = 0 /\ pages[j][p].key = NoKey /\ PageRows(j) = Pages /\ j \notin Inline
           /\ uploads' = [uploads EXCEPT ![j][p] = [pc |-> "put", n |-> 1]]
           /\ objects' = objects \cup {Image(j, p)}
           /\ UNCHANGED <<jobs, pages, quizzes, cache, workers, choosing, aged, sweep>>
<1>1. ImageOnce(j, p) /\ BudgetOK BY DEF Once
<1>2. "reupload" \in FaultKinds BY DEF FaultKinds
<1>3. ~(uploads[j][p].n > 0 \/ pages[j][p].key # NoKey)
  BY <1>1, <1>2, Never DEF PutPage
<1>4. uploads[j][p].n = 0 BY <1>1, <1>3 DEF ImageOnce
<1>5. PageRows(j) = Pages BY DEF PutPage
<1>6. pages[j][p].upload # "absent" BY <1>5 DEF PageRows
<1>7. j \notin Inline BY <1>1, <1>3, <1>6, KeysDiffer DEF ImageOnce
<1>. QED BY <1>3, <1>4, <1>5, <1>7 DEF PutPage, cleanupVars, Image

\* Storing the image keeps layer 1.
LEMMA PutPageOnce ==
    ASSUME TypeOK, Once, BudgetOK', Budget["reupload"] = 0,
           NEW j \in Jobs, NEW p \in Pages, PutPage(j, p)
    PROVE  Once'
<1>1. /\ uploads[j][p].n = 0 /\ pages[j][p].key = NoKey /\ PageRows(j) = Pages /\ j \notin Inline
      /\ uploads' = [uploads EXCEPT ![j][p] = [pc |-> "put", n |-> 1]]
      /\ objects' = objects \cup {Image(j, p)}
      /\ UNCHANGED <<jobs, pages, sweep>>
  BY FirstUpload
<1>2. uploads'[j][p] = [pc |-> "put", n |-> 1] BY <1>1 DEF TypeOK
<1>3. \A i \in Jobs, q \in Pages : <<i, q>> # <<j, p>> => uploads'[i][q] = uploads[i][q] BY <1>1 DEF TypeOK
<1>4. ImageOnce(j, p)'
  <2>1. ImageOnce(j, p) /\ pages[j][p].upload # "absent" BY <1>1 DEF Once, PageRows
  <2>2. NoKey # Image(j, p) BY KeysDiffer
  <2>. QED BY <1>1, <1>2, <2>1, <2>2 DEF ImageOnce
<1>5. ASSUME NEW i \in Jobs, NEW q \in Pages, <<i, q>> # <<j, p>> PROVE ImageOnce(i, q)'
  <2>1. Image(i, q) # Image(j, p) BY <1>5 DEF Image
  <2>. QED BY <1>1, <1>3, <1>5, <2>1, ImageKept DEF Once
<1>6. \A i \in Jobs, q \in Pages : ImageOnce(i, q)' BY <1>4, <1>5
<1>7. ASSUME NEW i \in Jobs PROVE RowsOnce(i)'
  <2>1. PageRows(i)' = PageRows(i) BY <1>1 DEF PageRows
  <2>2. CASE i = j BY <1>1, <2>1, <2>2 DEF Once, RowsOnce
  <2>3. CASE i # j BY <1>1, <1>3, <2>1, <2>3, RowsKept DEF Once
  <2>. QED BY <2>2, <2>3
<1>8. OnlyImages' BY <1>1 DEF Once, OnlyImages, Image
<1>9. SweepOnce' BY <1>1 DEF Once, SweepOnce, Image
<1>. QED BY <1>6, <1>7, <1>8, <1>9 DEF Once

\* What MarkPageUploaded writes.
LEMMA Marked ==
    ASSUME TypeOK, Once, NEW j \in Jobs, NEW p \in Pages, MarkPageUploaded(j, p)
    PROVE  /\ uploads[j][p].n = 1 /\ pages[j][p].key = NoKey /\ ~pages[j][p].deleted
           /\ pages'[j][p] = [pages[j][p] EXCEPT !.upload = "uploaded", !.key = Image(j, p)]
           /\ uploads'[j][p] = [pc |-> "marked", n |-> 1]
           /\ \A i \in Jobs, q \in Pages : <<i, q>> # <<j, p>> =>
                 pages'[i][q] = pages[i][q] /\ uploads'[i][q] = uploads[i][q]
           /\ UNCHANGED <<jobs, objects, quizzes, cache, workers, choosing, aged, sweep, budget>>
<1>1. ImageOnce(j, p) /\ uploads[j][p] \in UploadType BY DEF Once, TypeOK
<1>2. uploads[j][p].n = 1 /\ pages[j][p].key = NoKey
  BY <1>1 DEF ImageOnce, MarkPageUploaded
<1>3. ~pages[j][p].deleted BY <1>1, <1>2, KeysDiffer DEF ImageOnce
<1>4. Key(j, p) = Image(j, p) BY <1>2 DEF Key, Image
<1>5. pages'[j][p] = [pages[j][p] EXCEPT !.upload = "uploaded", !.key = Image(j, p)]
  BY <1>4 DEF MarkPageUploaded, TypeOK
<1>6. uploads'[j][p] = [uploads[j][p] EXCEPT !.pc = "marked"] BY DEF MarkPageUploaded, TypeOK
<1>7. uploads'[j][p] = [pc |-> "marked", n |-> 1] BY <1>1, <1>2, <1>6 DEF UploadType
<1>8. \A i \in Jobs, q \in Pages : <<i, q>> # <<j, p>> =>
         pages'[i][q] = pages[i][q] /\ uploads'[i][q] = uploads[i][q]
  BY DEF MarkPageUploaded, TypeOK
<1>. QED BY <1>2, <1>3, <1>5, <1>7, <1>8 DEF MarkPageUploaded, cleanupVars

\* MarkPageUploaded keeps layer 1.
LEMMA MarkPageUploadedOnce ==
    ASSUME TypeOK, Once, NEW j \in Jobs, NEW p \in Pages, MarkPageUploaded(j, p)
    PROVE  Once'
<1>1. /\ uploads[j][p].n = 1 /\ pages[j][p].key = NoKey /\ ~pages[j][p].deleted
      /\ pages'[j][p] = [pages[j][p] EXCEPT !.upload = "uploaded", !.key = Image(j, p)]
      /\ uploads'[j][p] = [pc |-> "marked", n |-> 1]
      /\ UNCHANGED <<jobs, objects, sweep, budget>>
  BY Marked
<1>2. \A i \in Jobs, q \in Pages : <<i, q>> # <<j, p>> =>
         pages'[i][q] = pages[i][q] /\ uploads'[i][q] = uploads[i][q]
  BY Marked
<1>3. pages[j][p] \in PageType BY DEF TypeOK
<1>4. /\ pages'[j][p].upload = "uploaded" /\ pages'[j][p].key = Image(j, p)
      /\ pages'[j][p].deleted = pages[j][p].deleted
  BY <1>1, <1>3 DEF PageType
<1>5. ImageOnce(j, p) BY DEF Once
<1>6. ImageOnce(j, p)'
  <2>1. j \notin Inline /\ pages[j][p].upload # "absent" BY <1>1, <1>5 DEF ImageOnce
  <2>2. NoKey # Image(j, p) /\ <<j, p, 0>> # Image(j, p) BY KeysDiffer
  <2>. QED BY <1>1, <1>4, <2>1, <2>2 DEF ImageOnce
<1>7. \A i \in Jobs, q \in Pages : ImageOnce(i, q)' BY <1>1, <1>2, <1>6, ImageKept DEF Once
<1>8. ASSUME NEW i \in Jobs PROVE RowsOnce(i)'
  <2>1. pages[j][p].upload # "absent" BY <1>1, <1>5 DEF ImageOnce
  <2>2. PageRows(i)' = PageRows(i) BY <1>2, <1>4, <2>1 DEF PageRows
  <2>3. \A q \in Pages : uploads'[i][q].n = 1 => uploads[i][q].n = 1 BY <1>1, <1>2
  <2>. QED BY <1>1, <2>2, <2>3, RowsKept DEF Once
<1>9. OnlyImages' BY <1>1 DEF Once, OnlyImages, Image
<1>10. SweepOnce'
  <2>1. ASSUME NEW i \in Jobs, NEW q \in Pages, pages[i][q].key = Image(i, q)
        PROVE  pages'[i][q].key = Image(i, q)
    BY <1>2, <1>4, <2>1
  <2>2. SUFFICES ASSUME NEW k \in sweep
                 PROVE  \E i \in Jobs, q \in Pages : k = Image(i, q) /\ pages'[i][q].key = k
    BY <1>1 DEF SweepOnce, Image
  <2>3. PICK i \in Jobs, q \in Pages : k = Image(i, q) /\ pages[i][q].key = k
    BY DEF Once, SweepOnce
  <2>. QED BY <2>1, <2>3
<1>11. BudgetOK' BY <1>1 DEF Once, BudgetOK
<1>. QED BY <1>7, <1>8, <1>9, <1>10, <1>11 DEF Once

\* The listing of the cleanup keeps layer 1.
LEMMA CleanupListOnce ==
    ASSUME TypeOK, Once, CleanupList
    PROVE  Once'
<1>1. UNCHANGED <<jobs, pages, objects, uploads, budget>> /\ sweep' = Orphans
  BY DEF CleanupList, clientVars
<1>2. \A j \in Jobs : RowsOnce(j)' BY <1>1, RowsKept DEF Once, PageRows
<1>3. \A j \in Jobs, p \in Pages : ImageOnce(j, p)' BY <1>1, ImageKept DEF Once
<1>4. OnlyImages' BY <1>1 DEF Once, OnlyImages, Image
<1>5. ASSUME NEW k \in Orphans
      PROVE \E j \in Jobs, p \in Pages : k = Image(j, p) /\ pages[j][p].key = k
  <2>1. PICK j \in aged : k \in PageRefs(j) BY DEF Orphans
  <2>2. j \in Jobs BY <2>1 DEF TypeOK
  <2>3. PICK p \in Pages : k = pages[j][p].key /\ k # NoKey BY <2>1 DEF PageRefs, PageRows
  <2>4. ImageOnce(j, p) BY <2>2 DEF Once
  <2>5. ~IsStub(k) BY DEF Orphans
  <2>6. k = Image(j, p) BY <2>3, <2>4, <2>5 DEF ImageOnce, IsStub
  <2>. QED BY <2>2, <2>3, <2>6
<1>6. SweepOnce' BY <1>1, <1>5 DEF SweepOnce, Image
<1>7. BudgetOK' BY <1>1 DEF Once, BudgetOK
<1>. QED BY <1>2, <1>3, <1>4, <1>6, <1>7 DEF Once

\* A deletion by the cleanup keeps layer 1.
LEMMA CleanupDeleteOnce ==
    ASSUME TypeOK, Once, NEW k \in sweep, CleanupDelete(k)
    PROVE  Once'
<1>1. UNCHANGED <<jobs, uploads, budget>> /\ sweep' = sweep \ {k} /\ objects' = objects \ {k}
  BY DEF CleanupDelete, clientVars
<1>2. PICK j \in Jobs, p \in Pages : k = Image(j, p) /\ pages[j][p].key = k BY DEF Once, SweepOnce
<1>3. k[1] = j /\ k[2] = p BY <1>2 DEF Image
<1>4. pages[j][p] \in PageType BY DEF TypeOK
<1>5. pages'[j][p] = [pages[j][p] EXCEPT !.deleted = TRUE] BY <1>3 DEF CleanupDelete, TypeOK
<1>6. \A i \in Jobs, q \in Pages : <<i, q>> # <<j, p>> => pages'[i][q] = pages[i][q]
  BY <1>3 DEF CleanupDelete, TypeOK
<1>7. pages'[j][p].upload = pages[j][p].upload /\ pages'[j][p].key = pages[j][p].key
  BY <1>4, <1>5 DEF PageType
<1>8. ImageOnce(j, p)'
  <2>1. ImageOnce(j, p) BY DEF Once
  <2>2. Image(j, p) \notin objects' BY <1>1, <1>2
  <2>. QED BY <1>1, <1>2, <1>7, <2>1, <2>2 DEF ImageOnce, Image
<1>9. \A i \in Jobs, q \in Pages : ImageOnce(i, q)'
  BY <1>1, <1>6, <1>8, ImageKept DEF Once
<1>10. \A i \in Jobs, q \in Pages : pages'[i][q].upload = pages[i][q].upload /\ pages'[i][q].key = pages[i][q].key
  BY <1>6, <1>7
<1>11. ASSUME NEW i \in Jobs PROVE RowsOnce(i)'
  <2>1. PageRows(i)' = PageRows(i) BY <1>10 DEF PageRows
  <2>. QED BY <1>1, <2>1, RowsKept DEF Once
<1>12. OnlyImages' BY <1>1 DEF Once, OnlyImages, Image
<1>13. SweepOnce' BY <1>1, <1>10 DEF Once, SweepOnce, Image
<1>14. BudgetOK' BY <1>1 DEF Once, BudgetOK
<1>. QED BY <1>9, <1>11, <1>12, <1>13, <1>14 DEF Once

\* Layer 1 holds at the start.
LEMMA InitOnce == Init => Once
<1>. SUFFICES ASSUME Init PROVE Once OBVIOUS
<1>1. BudgetOK BY ScanAssumption DEF Init, BudgetOK
<1>2. ASSUME NEW j \in Jobs PROVE RowsOnce(j)
  <2>1. PageRows(j) = {} BY DEF Init, PageRows
  <2>2. PageRows(j) = 1..0 BY <2>1
  <2>3. 0 \in 0..NPages BY ScanAssumption
  <2>. QED BY <2>1, <2>2, <2>3 DEF RowsOnce, Init
<1>3. ASSUME NEW j \in Jobs, NEW p \in Pages PROVE ImageOnce(j, p)
  <2>1. /\ pages[j][p] = [upload |-> "absent", key |-> NoKey, deleted |-> FALSE]
        /\ uploads[j][p] = [pc |-> "idle", n |-> 0]
        /\ objects = {}
    BY DEF Init
  <2>. QED BY <2>1, KeysDiffer DEF ImageOnce
<1>4. OnlyImages /\ SweepOnce BY DEF Init, OnlyImages, SweepOnce
<1>. QED BY <1>1, <1>2, <1>3, <1>4 DEF Once

\* Every step keeps layer 1 when no page is uploaded again.
LEMMA NextOnce ==
    ASSUME Budget["reupload"] = 0, IInv, Once, [Next]_vars
    PROVE  Once'
<1>1. TypeOK BY DEF IInv
<1>2. BudgetOK' BY BudgetSinks DEF Once
<1>3. ASSUME UNCHANGED <<pages, uploads, objects, sweep>>, Stays PROVE Once' BY <1>2, <1>3, OnceKept
<1>4. ASSUME NEW j \in Jobs, CreateJob(j) PROVE Once'
  <2>1. Stays BY <1>1, <1>4 DEF CreateJob, TypeOK, JobType, Stays
  <2>. QED BY <1>3, <1>4, <2>1 DEF CreateJob, clientVars, cleanupVars
<1>5. ASSUME NEW j \in Jobs, CreatePage(j) PROVE Once' BY <1>1, <1>5, CreatePageOnce
<1>6. ASSUME NEW j \in Jobs, NEW p \in Pages, UploadStep(j, p) PROVE Once'
  <2>1. CASE PutPage(j, p) BY <1>1, <1>2, <2>1, PutPageOnce
  <2>2. CASE MarkPageUploaded(j, p) BY <1>1, <2>2, MarkPageUploadedOnce
  <2>3. CASE \/ UploadFails(j, p) \/ UndoUpload(j, p) \/ AbandonUpload(j, p)
             \/ CheckAllPagesUploaded(j, p)
    <3>1. UNCHANGED <<jobs, pages, sweep>> /\ objects' \subseteq objects
      BY <2>3 DEF UploadFails, UndoUpload, AbandonUpload, CheckAllPagesUploaded, cleanupVars
    <3>2. Stays BY <3>1 DEF Stays
    <3>3. PICK pc : /\ uploads' = [uploads EXCEPT ![j][p].pc = pc]
                    /\ \/ pc = "idle" \/ (pc = "ready" /\ uploads[j][p].pc = "marked")
                       \/ (pc = "undo" /\ uploads[j][p].pc = "put")
      BY <2>3 DEF UploadFails, UndoUpload, AbandonUpload, CheckAllPagesUploaded
    <3>. QED BY <1>1, <1>2, <3>1, <3>2, <3>3, UploadMovesOnce
  <2>4. CASE QueueUploadedJob(j, p)
    <3>1. UNCHANGED <<pages, sweep, objects>> BY <2>4 DEF QueueUploadedJob, cleanupVars
    <3>2. Stays BY <1>1, <2>4, StatusStays DEF QueueUploadedJob
    <3>. QED BY <1>1, <1>2, <2>4, <3>1, <3>2, UploadMovesOnce DEF QueueUploadedJob
  <2>. QED BY <1>6, <2>1, <2>2, <2>3, <2>4 DEF UploadStep
<1>7. ASSUME NEW j \in Jobs, NEW s \in Strategies, CheckStrategy(j, s) \/ UpdateJobStrategy(j, s)
      PROVE Once'
  <2>1. Stays
    <3>1. CASE CheckStrategy(j, s) BY <3>1 DEF CheckStrategy, Stays
    <3>2. CASE UpdateJobStrategy(j, s) BY <1>1, <3>2 DEF UpdateJobStrategy, Stays, TypeOK, JobType
    <3>. QED BY <1>7, <3>1, <3>2
  <2>. QED BY <1>3, <1>7, <2>1 DEF CheckStrategy, UpdateJobStrategy, cleanupVars
<1>8. ASSUME NEW j \in Jobs, RetryJob(j) \/ TimePasses(j) \/ DayPasses(j) PROVE Once'
  <2>1. CASE RetryJob(j)
    <3>1. Stays BY <1>1, <2>1, StatusStays DEF RetryJob
    <3>. QED BY <1>3, <2>1, <3>1 DEF RetryJob, clientVars, cleanupVars
  <2>2. CASE TimePasses(j)
    <3>1. Stays BY <1>1, <2>2 DEF TimePasses, TypeOK, JobType, Stays
    <3>. QED BY <1>3, <2>2, <3>1 DEF TimePasses, clientVars, cleanupVars
  <2>3. CASE DayPasses(j) BY <1>3, <2>3 DEF DayPasses, clientVars, Stays
  <2>. QED BY <1>8, <2>1, <2>2, <2>3
<1>9. ASSUME NEW q \in 1..Len(quizzes), PublishDraft(q) PROVE Once'
  <2>1. Stays BY <1>1, <1>9 DEF PublishDraft, TypeOK, JobType, Stays
  <2>. QED BY <1>3, <1>9, <2>1 DEF PublishDraft, clientVars, cleanupVars
<1>10. ASSUME NEW w \in Workers, WorkerStep(w) \/ WorkerFault(w) PROVE Once'
  BY <1>1, <1>2, <1>10, SlotFrame, OnceKept
<1>11. ASSUME NEW t \in Texts, EvictCache(t) PROVE Once'
  BY <1>3, <1>11 DEF EvictCache, clientVars, cleanupVars, Stays
<1>12. CASE CleanupList BY <1>1, <1>12, CleanupListOnce
<1>13. ASSUME NEW k \in sweep, CleanupDelete(k) PROVE Once' BY <1>1, <1>13, CleanupDeleteOnce
<1>14. CASE UNCHANGED vars BY <1>3, <1>14 DEF vars, Stays
<1>. QED
  BY <1>4, <1>5, <1>6, <1>7, <1>8, <1>9, <1>10, <1>11, <1>12, <1>13, <1>14 DEF Next

\* When no page is uploaded again (UploadPageImage, service.go:89), every image is stored under
\* one key, and its row, its upload and the cleanup agree on it.
THEOREM EveryPageOnce ==
    ASSUME Budget["reupload"] = 0
    PROVE  Spec => []Once
<1>1. IInv /\ Once /\ [Next]_vars => Once' BY NextOnce
<1>. QED BY InitOnce, Invariance, <1>1, PTL DEF Spec

\* What can be found stays so.
FoundStay == \A j \in Jobs, p \in Pages : Found(j, p) => Found(j, p)'

\* No step but the end of a request that undoes its upload loses sight of an image, when no
\* request dies between storing and naming it.
LEMMA NextFound ==
    ASSUME Budget["reupload"] = 0, Budget["crash"] = 0, IInv, Once, [Next]_vars,
           \A j \in Jobs, p \in Pages : ~UndoUpload(j, p)
    PROVE  FoundStay
<1>1. TypeOK BY DEF IInv
<1>2. ASSUME UNCHANGED <<pages, uploads>>, objects' \subseteq objects PROVE FoundStay
  BY <1>2 DEF FoundStay, Found, Image
<1>3. ASSUME NEW j \in Jobs, CreatePage(j) PROVE FoundStay
  <2>1. PICK p \in Pages : p = Cardinality(PageRows(j)) + 1 BY <1>3 DEF CreatePage
  <2>2. \A i \in Jobs, q \in Pages : <<i, q>> # <<j, p>> => pages'[i][q] = pages[i][q]
    BY <1>1, <1>3, <2>1 DEF CreatePage, TypeOK
  <2>3. UNCHANGED <<objects, uploads>> BY <1>3 DEF CreatePage, clientVars
  <2>4. Image(j, p) \notin objects
    <3>1. PICK n \in 0..NPages : PageRows(j) = 1..n BY DEF Once, RowsOnce
    <3>2. Cardinality(1..n) = n BY FS_Interval
    <3>3. p \notin PageRows(j) BY <2>1, <3>1, <3>2
    <3>4. pages[j][p].upload = "absent" BY <3>3 DEF PageRows
    <3>5. ImageOnce(j, p) BY DEF Once
    <3>. QED BY <3>4, <3>5 DEF ImageOnce
  <2>. QED BY <2>2, <2>3, <2>4 DEF FoundStay, Found, Image
<1>4. ASSUME NEW j \in Jobs, NEW p \in Pages, UploadStep(j, p) PROVE FoundStay
  <2>1. CASE PutPage(j, p)
    <3>1. /\ uploads' = [uploads EXCEPT ![j][p] = [pc |-> "put", n |-> 1]]
          /\ objects' = objects \cup {Image(j, p)} /\ UNCHANGED pages
      BY <1>1, <2>1, FirstUpload DEF PutPage
    <3>2. uploads'[j][p].pc = "put" BY <1>1, <3>1 DEF TypeOK
    <3>3. \A i \in Jobs, q \in Pages : <<i, q>> # <<j, p>> =>
             uploads'[i][q] = uploads[i][q] /\ Image(i, q) # Image(j, p)
      BY <1>1, <3>1 DEF TypeOK, Image
    <3>. QED BY <3>1, <3>2, <3>3 DEF FoundStay, Found, Image
  <2>2. CASE MarkPageUploaded(j, p)
    <3>1. pages[j][p] \in PageType BY <1>1 DEF TypeOK
    <3>4. pages'[j][p] = [pages[j][p] EXCEPT !.upload = "uploaded", !.key = Image(j, p)]
      BY <1>1, <2>2, Marked
    <3>5. objects' = objects BY <2>2 DEF MarkPageUploaded
    <3>2. pages'[j][p].key = Image(j, p) /\ objects' = objects BY <3>1, <3>4, <3>5 DEF PageType
    <3>3. \A i \in Jobs, q \in Pages : <<i, q>> # <<j, p>> =>
             pages'[i][q] = pages[i][q] /\ uploads'[i][q] = uploads[i][q]
      BY <1>1, <2>2, Marked
    <3>. QED BY <3>2, <3>3 DEF FoundStay, Found, Image
  <2>3. CASE UploadFails(j, p)
    <3>1. uploads[j][p] \in UploadType BY <1>1 DEF TypeOK
    <3>2. uploads'[j][p].pc = "undo" BY <1>1, <2>3, <3>1 DEF UploadFails, TypeOK, UploadType
    <3>3. \A i \in Jobs, q \in Pages : <<i, q>> # <<j, p>> => uploads'[i][q] = uploads[i][q]
      BY <1>1, <2>3 DEF UploadFails, TypeOK
    <3>4. UNCHANGED <<objects, pages>> BY <2>3 DEF UploadFails
    <3>. QED BY <3>2, <3>3, <3>4 DEF FoundStay, Found, Image
  <2>4. CASE CheckAllPagesUploaded(j, p) \/ QueueUploadedJob(j, p)
    <3>1. UNCHANGED <<pages, objects>> BY <2>4 DEF CheckAllPagesUploaded, QueueUploadedJob
    <3>2. \A i \in Jobs, q \in Pages : <<i, q>> # <<j, p>> => uploads'[i][q] = uploads[i][q]
      BY <1>1, <2>4 DEF CheckAllPagesUploaded, QueueUploadedJob, TypeOK
    <3>3. pages[j][p].key = Image(j, p)
      BY <2>4 DEF Once, ImageOnce, CheckAllPagesUploaded, QueueUploadedJob
    <3>4. Found(j, p)' BY <3>1, <3>3 DEF Found, Image
    <3>5. \A i \in Jobs, q \in Pages : <<i, q>> # <<j, p>> /\ Found(i, q) => Found(i, q)'
      BY <3>1, <3>2 DEF Found, Image
    <3>. QED BY <3>4, <3>5 DEF FoundStay
  <2>5. CASE AbandonUpload(j, p)
    <3>1. BudgetOK /\ "crash" \in FaultKinds BY DEF Once, FaultKinds
    <3>2. uploads[j][p].pc \in {"marked", "ready"} BY <2>5, <3>1, Never DEF AbandonUpload
    <3>3. UNCHANGED <<pages, objects>> BY <2>5 DEF AbandonUpload
    <3>4. \A i \in Jobs, q \in Pages : <<i, q>> # <<j, p>> => uploads'[i][q] = uploads[i][q]
      BY <1>1, <2>5 DEF AbandonUpload, TypeOK
    <3>5. pages[j][p].key = Image(j, p) BY <3>2 DEF Once, ImageOnce
    <3>6. Found(j, p)' BY <3>3, <3>5 DEF Found, Image
    <3>7. \A i \in Jobs, q \in Pages : <<i, q>> # <<j, p>> /\ Found(i, q) => Found(i, q)'
      BY <3>3, <3>4 DEF Found, Image
    <3>. QED BY <3>6, <3>7 DEF FoundStay
  <2>. QED BY <1>4, <2>1, <2>2, <2>3, <2>4, <2>5 DEF UploadStep
<1>5. ASSUME NEW w \in Workers, WorkerStep(w) \/ WorkerFault(w) PROVE FoundStay
  BY <1>1, <1>2, <1>5, SlotFrame
<1>6. ASSUME NEW k \in sweep, CleanupDelete(k) PROVE FoundStay
  <2>1. PICK j \in Jobs, p \in Pages : k = Image(j, p) BY DEF Once, SweepOnce
  <2>2. k[1] = j /\ k[2] = p BY <2>1 DEF Image
  <2>3. pages[j][p] \in PageType BY <1>1 DEF TypeOK
  <2>4. \A i \in Jobs, q \in Pages : pages'[i][q].key = pages[i][q].key
    BY <1>1, <1>6, <2>2, <2>3 DEF CleanupDelete, TypeOK, PageType
  <2>. QED BY <1>6, <2>4 DEF CleanupDelete, clientVars, FoundStay, Found, Image
<1>7. ASSUME NEW j \in Jobs, CreateJob(j) PROVE FoundStay BY <1>2, <1>7 DEF CreateJob, clientVars
<1>8. ASSUME NEW j \in Jobs, NEW s \in Strategies, CheckStrategy(j, s) \/ UpdateJobStrategy(j, s)
      PROVE FoundStay
  BY <1>2, <1>8 DEF CheckStrategy, UpdateJobStrategy
<1>9. ASSUME NEW j \in Jobs, RetryJob(j) \/ TimePasses(j) \/ DayPasses(j) PROVE FoundStay
  BY <1>2, <1>9 DEF RetryJob, TimePasses, DayPasses, clientVars
<1>10. ASSUME NEW q \in 1..Len(quizzes), PublishDraft(q) PROVE FoundStay
  BY <1>2, <1>10 DEF PublishDraft, clientVars
<1>11. ASSUME NEW t \in Texts, EvictCache(t) PROVE FoundStay BY <1>2, <1>11 DEF EvictCache, clientVars
<1>12. CASE CleanupList BY <1>2, <1>12 DEF CleanupList, clientVars
<1>13. CASE UNCHANGED vars BY <1>2, <1>13 DEF vars
<1>. QED
  BY <1>3, <1>4, <1>5, <1>6, <1>7, <1>8, <1>9, <1>10, <1>11, <1>12, <1>13 DEF Next

\* A page that is found again is no loss: the images lost before are all there are, but one
\* that is named here.
LEMMA LossesGrow ==
    ASSUME Once', NEW K, \A j \in Jobs, p \in Pages : Found(j, p) /\ Image(j, p) \notin K => Found(j, p)'
    PROVE  Lost' \subseteq Lost \cup K
<1>. SUFFICES ASSUME NEW k \in Lost', k \notin K PROVE k \in Lost OBVIOUS
<1>1. PICK j \in Jobs, p \in Pages : k = Image(j, p) BY DEF Once, OnlyImages, Lost, Image
<1>2. k[1] = j /\ k[2] = p BY <1>1 DEF Image
<1>3. ~Found(j, p)' BY <1>2 DEF Lost
<1>4. ~Found(j, p) BY <1>1, <1>3
<1>5. k \in objects BY <1>1, <1>4 DEF Found
<1>. QED BY <1>2, <1>4, <1>5 DEF Lost

\* Steps that lose nothing and begin no undoing keep the account.
LEMMA StaysPaid ==
    ASSUME Once, BudgetOK', LossesPaid, Lost' \subseteq Lost, Undoing' \subseteq Undoing,
           budget'["external"] <= budget["external"]
    PROVE  LossesPaid'
<1>1. /\ IsFiniteSet(Lost') /\ Cardinality(Lost') <= Cardinality(Lost)
      /\ IsFiniteSet(Undoing') /\ Cardinality(Undoing') <= Cardinality(Undoing)
  BY FS_Subset DEF LossesPaid
<1>2. /\ Cardinality(Lost) \in Nat /\ Cardinality(Undoing) \in Nat
      /\ Cardinality(Lost') \in Nat /\ Cardinality(Undoing') \in Nat
  BY <1>1, FS_CardinalityType DEF LossesPaid
<1>3. "external" \in FaultKinds BY DEF FaultKinds
<1>4. budget["external"] \in Nat /\ budget'["external"] \in Nat /\ Budget["external"] \in Nat
  BY <1>3, ScanAssumption DEF Once, BudgetOK
<1>5. 2 * Cardinality(Lost) + Cardinality(Undoing) <= Budget["external"] - budget["external"]
  BY DEF LossesPaid
<1>6. 2 * Cardinality(Lost') + Cardinality(Undoing') <= Budget["external"] - budget'["external"]
  BY <1>1, <1>2, <1>4, <1>5
<1>. QED BY <1>1, <1>6 DEF LossesPaid

\* What spending costs.
LEMMA Cost ==
    ASSUME BudgetOK, NEW kinds, Spend(kinds)
    PROVE  /\ "external" \in kinds => budget'["external"] = budget["external"] - 1
           /\ budget'["external"] <= budget["external"]
<1>1. "external" \in FaultKinds BY DEF FaultKinds
<1>2. budget["external"] \in Nat BY <1>1 DEF BudgetOK
<1>3. budget'["external"] = IF "external" \in kinds THEN budget["external"] - 1 ELSE budget["external"]
  BY <1>1 DEF Spend
<1>. QED BY <1>2, <1>3

\* An upload that fails has cost one failure, and is undone by its request.
LEMMA FailPaid ==
    ASSUME TypeOK, Once, Once', LossesPaid, FoundStay,
           NEW j \in Jobs, NEW p \in Pages, UploadFails(j, p)
    PROVE  LossesPaid'
<1>1. Lost' \subseteq Lost \cup {} BY LossesGrow DEF FoundStay
<1>2. Undoing' = Undoing \cup {<<j, p>>} /\ <<j, p>> \notin Undoing
  <2>1. uploads[j][p] \in UploadType BY DEF TypeOK
  <2>2. uploads[j][p].pc = "put" /\ uploads'[j][p].pc = "undo"
    BY <2>1 DEF UploadFails, TypeOK, UploadType
  <2>3. \A i \in Jobs, q \in Pages : <<i, q>> # <<j, p>> => uploads'[i][q] = uploads[i][q]
    BY DEF UploadFails, TypeOK
  <2>4. ASSUME NEW c \in Jobs \X Pages PROVE c \in Undoing' <=> c \in Undoing \/ c = <<j, p>>
    <3>1. PICK i \in Jobs, q \in Pages : c = <<i, q>> OBVIOUS
    <3>. QED BY <2>2, <2>3, <3>1 DEF Undoing
  <2>5. Undoing' = Undoing \cup {<<j, p>>} BY <2>4 DEF Undoing
  <2>. QED BY <2>2, <2>5 DEF Undoing
<1>3. /\ IsFiniteSet(Undoing') /\ Cardinality(Undoing') = Cardinality(Undoing) + 1
  BY <1>2, FS_AddElement DEF LossesPaid
<1>4. IsFiniteSet(Lost') /\ Cardinality(Lost') <= Cardinality(Lost)
  BY <1>1, FS_Subset DEF LossesPaid
<1>5. /\ Cardinality(Lost) \in Nat /\ Cardinality(Lost') \in Nat /\ Cardinality(Undoing) \in Nat
  BY <1>4, FS_CardinalityType DEF LossesPaid
<1>6. budget'["external"] = budget["external"] - 1 BY Cost DEF UploadFails, Once
<1>7. budget["external"] \in Nat /\ Budget["external"] \in Nat
  BY ScanAssumption DEF Once, BudgetOK, FaultKinds
<1>8. 2 * Cardinality(Lost) + Cardinality(Undoing) <= Budget["external"] - budget["external"]
  BY DEF LossesPaid
<1>9. 2 * Cardinality(Lost') + Cardinality(Undoing') <= Budget["external"] - budget'["external"]
  BY <1>3, <1>4, <1>5, <1>6, <1>7, <1>8
<1>. QED BY <1>3, <1>4, <1>9 DEF LossesPaid

\* The end of the undoing removes the image, or has cost one failure more and loses it.
LEMMA UndoPaid ==
    ASSUME TypeOK, Once, Once', LossesPaid,
           NEW j \in Jobs, NEW p \in Pages, UndoUpload(j, p)
    PROVE  LossesPaid'
<1>0. \A i \in Jobs, q \in Pages : <<i, q>> # <<j, p>> => uploads'[i][q] = uploads[i][q]
  BY DEF UndoUpload, TypeOK
<1>1. Undoing = Undoing' \cup {<<j, p>>} /\ <<j, p>> \notin Undoing'
  <2>1. uploads[j][p] \in UploadType BY DEF TypeOK
  <2>2. uploads[j][p].pc = "undo" /\ uploads'[j][p].pc = "idle"
    BY <2>1 DEF UndoUpload, TypeOK, UploadType
  <2>4. ASSUME NEW c \in Jobs \X Pages PROVE c \in Undoing <=> c \in Undoing' \/ c = <<j, p>>
    <3>1. PICK i \in Jobs, q \in Pages : c = <<i, q>> OBVIOUS
    <3>. QED BY <1>0, <2>2, <3>1 DEF Undoing
  <2>5. Undoing = Undoing' \cup {<<j, p>>} BY <2>4 DEF Undoing
  <2>. QED BY <2>2, <2>5 DEF Undoing
<1>2. IsFiniteSet(Undoing') BY <1>1, FS_Subset DEF LossesPaid
<1>3. Cardinality(Undoing) = Cardinality(Undoing') + 1 BY <1>1, <1>2, FS_AddElement
<1>4. \A i \in Jobs, q \in Pages : Found(i, q) /\ Image(i, q) \notin {Image(j, p)} => Found(i, q)'
  <2>1. objects' \subseteq objects /\ UNCHANGED pages BY DEF UndoUpload
  <2>. QED BY <1>0, <2>1 DEF Found, Image
<1>5. BudgetOK /\ uploads[j][p].n = 1
  <2>1. ImageOnce(j, p) BY DEF Once
  <2>. QED BY <2>1 DEF Once, ImageOnce, UndoUpload
<1>6. budget["external"] \in Nat /\ Budget["external"] \in Nat
  BY <1>5, ScanAssumption DEF BudgetOK, FaultKinds
<1>7. 2 * Cardinality(Lost) + Cardinality(Undoing) <= Budget["external"] - budget["external"]
  BY DEF LossesPaid
<1>8. /\ IsFiniteSet(Lost) /\ Cardinality(Lost) \in Nat /\ Cardinality(Undoing') \in Nat
  BY <1>2, FS_CardinalityType DEF LossesPaid
<1>9. CASE objects' = objects \ {Key(j, p)} /\ UNCHANGED budget
  <2>1. Key(j, p) = Image(j, p) BY <1>5 DEF Key, Image
  <2>2. \A i \in Jobs, q \in Pages : Found(i, q) /\ Image(i, q) \notin {} => Found(i, q)'
    <3>1. Found(j, p)' BY <1>9, <2>1 DEF Found, Image
    <3>. QED BY <1>4, <3>1 DEF Image
  <2>3. Lost' \subseteq Lost \cup {} BY <2>2, LossesGrow
  <2>4. BudgetOK' BY DEF Once
  <2>5. budget'["external"] <= budget["external"] BY <1>6, <1>9
  <2>. QED BY <1>1, <2>3, <2>4, <2>5, StaysPaid
<1>10. CASE UNCHANGED objects /\ Spend({"external"})
  <2>1. Lost' \subseteq Lost \cup {Image(j, p)} BY <1>4, LossesGrow
  <2>2. /\ IsFiniteSet(Lost \cup {Image(j, p)})
        /\ Cardinality(Lost \cup {Image(j, p)}) <= Cardinality(Lost) + 1
    <3>1. CASE Image(j, p) \in Lost
      <4>1. Lost \cup {Image(j, p)} = Lost BY <3>1
      <4>2. Cardinality(Lost) <= Cardinality(Lost) + 1 BY <1>8
      <4>. QED BY <1>8, <4>1, <4>2
    <3>2. CASE Image(j, p) \notin Lost
      <4>1. /\ IsFiniteSet(Lost \cup {Image(j, p)})
            /\ Cardinality(Lost \cup {Image(j, p)}) = Cardinality(Lost) + 1
        BY <1>8, <3>2, FS_AddElement
      <4>. QED BY <1>8, <4>1
    <3>. QED BY <3>1, <3>2
  <2>3. IsFiniteSet(Lost') /\ Cardinality(Lost') <= Cardinality(Lost \cup {Image(j, p)})
    BY <2>1, <2>2, FS_Subset
  <2>4. Cardinality(Lost') \in Nat /\ Cardinality(Lost \cup {Image(j, p)}) \in Nat
    BY <2>2, <2>3, FS_CardinalityType
  <2>5. budget'["external"] = budget["external"] - 1 BY <1>5, <1>10, Cost
  <2>6. 2 * Cardinality(Lost') + Cardinality(Undoing') <= Budget["external"] - budget'["external"]
    BY <1>3, <1>6, <1>7, <1>8, <2>2, <2>3, <2>4, <2>5
  <2>. QED BY <1>2, <2>3, <2>6 DEF LossesPaid
<1>. QED BY <1>9, <1>10 DEF UndoUpload

\* Undoing begins with a failure of the upload only.
LEMMA UndoingStays ==
    ASSUME TypeOK, [Next]_vars, \A j \in Jobs, p \in Pages : ~UploadFails(j, p)
    PROVE  Undoing' \subseteq Undoing
<1>1. ASSUME UNCHANGED uploads PROVE Undoing' \subseteq Undoing BY <1>1 DEF Undoing
<1>2. ASSUME NEW j \in Jobs, NEW p \in Pages, UploadStep(j, p) PROVE Undoing' \subseteq Undoing
  <2>1. \A i \in Jobs, q \in Pages : <<i, q>> # <<j, p>> => uploads'[i][q] = uploads[i][q]
    BY <1>2 DEF UploadStep, PutPage, MarkPageUploaded, UploadFails, UndoUpload,
       CheckAllPagesUploaded, QueueUploadedJob, AbandonUpload, TypeOK
  <2>2. uploads[j][p] \in UploadType BY DEF TypeOK
  <2>3. uploads'[j][p].pc # "undo"
    <3>1. CASE PutPage(j, p) BY <2>2, <3>1 DEF PutPage, TypeOK, UploadType
    <3>2. CASE \/ MarkPageUploaded(j, p) \/ UndoUpload(j, p) \/ CheckAllPagesUploaded(j, p)
               \/ QueueUploadedJob(j, p) \/ AbandonUpload(j, p)
      BY <2>2, <3>2 DEF MarkPageUploaded, UndoUpload, CheckAllPagesUploaded, QueueUploadedJob,
         AbandonUpload, TypeOK, UploadType
    <3>. QED BY <1>2, <3>1, <3>2 DEF UploadStep
  <2>4. ASSUME NEW c \in Undoing' PROVE c \in Undoing
    <3>1. PICK i \in Jobs, q \in Pages : c = <<i, q>> BY DEF Undoing
    <3>. QED BY <2>1, <2>3, <2>4, <3>1 DEF Undoing
  <2>. QED BY <2>4
<1>3. ASSUME NEW w \in Workers, WorkerStep(w) \/ WorkerFault(w) PROVE Undoing' \subseteq Undoing
  BY <1>1, <1>3, SlotFrame
<1>4. ASSUME NEW j \in Jobs, CreateJob(j) \/ CreatePage(j) \/ RetryJob(j) \/ TimePasses(j) \/ DayPasses(j)
      PROVE  Undoing' \subseteq Undoing
  BY <1>1, <1>4 DEF CreateJob, CreatePage, RetryJob, TimePasses, DayPasses, clientVars
<1>5. ASSUME NEW j \in Jobs, NEW s \in Strategies, CheckStrategy(j, s) \/ UpdateJobStrategy(j, s)
      PROVE  Undoing' \subseteq Undoing
  BY <1>1, <1>5 DEF CheckStrategy, UpdateJobStrategy
<1>6. ASSUME NEW q \in 1..Len(quizzes), PublishDraft(q) PROVE Undoing' \subseteq Undoing
  BY <1>1, <1>6 DEF PublishDraft, clientVars
<1>7. ASSUME NEW t \in Texts, EvictCache(t) PROVE Undoing' \subseteq Undoing
  BY <1>1, <1>7 DEF EvictCache, clientVars
<1>8. ASSUME NEW k \in sweep, CleanupDelete(k) PROVE Undoing' \subseteq Undoing
  BY <1>1, <1>8 DEF CleanupDelete, clientVars
<1>9. CASE CleanupList \/ UNCHANGED vars BY <1>1, <1>9 DEF CleanupList, clientVars, vars
<1>. QED BY <1>2, <1>3, <1>4, <1>5, <1>6, <1>7, <1>8, <1>9 DEF Next

\* Every step keeps the account of lost images.
LEMMA NextPaid ==
    ASSUME Budget["reupload"] = 0, Budget["crash"] = 0, IInv, Once, Once', LossesPaid, [Next]_vars
    PROVE  LossesPaid'
<1>1. TypeOK BY DEF IInv
<1>2. ASSUME NEW j \in Jobs, NEW p \in Pages, UndoUpload(j, p) PROVE LossesPaid'
  BY <1>1, <1>2, UndoPaid
<1>3. CASE \A j \in Jobs, p \in Pages : ~UndoUpload(j, p)
  <2>1. FoundStay BY <1>3, NextFound
  <2>2. ASSUME NEW j \in Jobs, NEW p \in Pages, UploadFails(j, p) PROVE LossesPaid'
    BY <1>1, <2>1, <2>2, FailPaid
  <2>3. CASE \A j \in Jobs, p \in Pages : ~UploadFails(j, p)
    <3>1. Undoing' \subseteq Undoing BY <1>1, <2>3, UndoingStays
    <3>2. Lost' \subseteq Lost \cup {} BY <2>1, LossesGrow DEF FoundStay
    <3>3. budget'["external"] <= budget["external"]
      <4>1. budget["external"] \in Nat BY DEF Once, BudgetOK, FaultKinds
      <4>2. ASSUME NEW kinds, Spend(kinds) PROVE budget'["external"] <= budget["external"]
        BY <4>2, Cost DEF Once
      <4>. QED BY <4>1, <4>2, Charges DEF Charged
    <3>4. BudgetOK' BY DEF Once
    <3>. QED BY <3>1, <3>2, <3>3, <3>4, StaysPaid
  <2>. QED BY <2>2, <2>3
<1>. QED BY <1>2, <1>3

\* When no page is uploaded again and no request dies half-way, an image of temporary storage
\* that its row does not name, its request no longer handles and the cleanup has not in hand has
\* cost two failures: the statement that names it in its row (service.go:101, 106) and the deletion
\* whose error is dropped (service.go:103, 107).  Without failures there is none.
THEOREM ImagesAreFound ==
    ASSUME Budget["reupload"] = 0, Budget["crash"] = 0
    PROVE  Spec => []ObjectsReclaimable
<1>1. Init => LossesPaid
  <2>. SUFFICES ASSUME Init PROVE LossesPaid OBVIOUS
  <2>1. Lost = {} /\ Undoing = {} BY DEF Init, Lost, Undoing
  <2>2. Budget["external"] \in Nat BY ScanAssumption DEF FaultKinds
  <2>3. budget["external"] = Budget["external"] BY DEF Init
  <2>. QED BY <2>1, <2>2, <2>3, FS_EmptySet DEF LossesPaid
<1>2. IInv /\ Once /\ Once' /\ LossesPaid /\ [Next]_vars => LossesPaid' BY NextPaid
<1>3. Once /\ LossesPaid => ObjectsReclaimable
  <2>. SUFFICES ASSUME Once, LossesPaid PROVE ObjectsReclaimable OBVIOUS
  <2>. DEFINE Gone == {k \in objects : ~Findable(k)}
  <2>1. ASSUME NEW k \in objects, ~Findable(k) PROVE k \in Lost
    <3>1. PICK j \in Jobs, p \in Pages : k = Image(j, p) BY DEF Once, OnlyImages
    <3>2. k[1] = j /\ k[2] = p BY <3>1 DEF Image
    <3>3. ImageOnce(j, p) BY DEF Once
    <3>4. uploads[j][p].pc \notin {"put", "undo"}
      <4>1. SUFFICES ASSUME uploads[j][p].pc \in {"put", "undo"} PROVE k = Key(j, p)
        BY <2>1, <3>2 DEF Findable
      <4>2. uploads[j][p].n = 1 BY <3>3, <4>1 DEF ImageOnce
      <4>. QED BY <3>1, <4>2 DEF Key, Image
    <3>5. pages[j][p].key # Image(j, p)
      BY <2>1, <3>1, <3>2, <3>3 DEF Findable, ImageOnce
    <3>. QED BY <3>1, <3>2, <3>4, <3>5 DEF Lost, Found
  <2>2. Gone \subseteq Lost BY <2>1
  <2>3. IsFiniteSet(Gone) /\ Cardinality(Gone) <= Cardinality(Lost)
    BY <2>2, FS_Subset DEF LossesPaid
  <2>4. Cardinality(Gone) \in Nat /\ Cardinality(Lost) \in Nat /\ Cardinality(Undoing) \in Nat
    BY <2>3, FS_CardinalityType DEF LossesPaid
  <2>5. budget["external"] \in Nat /\ Budget["external"] \in Nat
    BY ScanAssumption DEF Once, BudgetOK, FaultKinds
  <2>6. 2 * Cardinality(Lost) + Cardinality(Undoing) <= Budget["external"] - budget["external"]
    BY DEF LossesPaid
  <2>7. 2 * Cardinality(Gone) <= Budget["external"] - budget["external"]
    BY <2>3, <2>4, <2>5, <2>6
  <2>. QED BY <2>7 DEF ObjectsReclaimable
<1>. QED BY <1>1, <1>2, <1>3, Invariance, EveryPageOnce, PTL DEF Spec

(* ---------------------- one slot, one draft, one truth ------------------ *)

\* No request is repeated or overlaps another, no slot stalls for 30 minutes, and no
\* administrator retries a job.
Quiet == \A k \in {"reupload", "parallel", "stall", "retry"} : Budget[k] = 0

\* The quiz of a job, if any, is a row.
LEMMA QuizIn ==
    ASSUME IInv
    PROVE  /\ NoQuiz \notin QuizIds
           /\ \A i \in Jobs : jobs[i].quiz # NoQuiz => jobs[i].quiz \in QuizIds
           /\ \A i \in Jobs : jobs[i].status \in {"quiz_ready", "review_ready"} => jobs[i].quiz \in QuizIds
<1>1. NoQuiz \notin QuizIds BY DEF NoQuiz, QuizIds
<1>. QED BY <1>1 DEF IInv, Safe, JobOK, Showable

\* A slot that works has a job of its own, in process.
LEMMA Busy ==
    ASSUME IInv, QuietOK, NEW w \in Workers, workers[w].pc # "idle"
    PROVE  /\ workers[w] \in WorkerType
           /\ workers[w].job \in Jobs
           /\ \A v \in Workers : v # w => workers[v].job # workers[w].job
           /\ jobs[workers[w].job] \in JobType
           /\ jobs[workers[w].job].status \notin {"none", "uploading", "needs_strategy"}
           /\ JobAt(workers[w].job)
<1>1. TypeOK /\ SlotText(w) BY DEF IInv, Safe, SlotOK
<1>2. workers[w].job \in Jobs /\ workers[w] \in WorkerType /\ jobs[workers[w].job] \in JobType
  BY <1>1, SlotJob
<1>3. workers[w].job # NoJob BY <1>2, ScanAssumption
<1>4. \A v \in Workers : v # w => workers[v].job # workers[w].job
  BY <1>3 DEF QuietOK, OneSlotPerJob
<1>5. jobs[workers[w].job].status \in {"processing", "ocr_complete"}
  BY DEF QuietOK, SlotAt
<1>. QED BY <1>2, <1>4, <1>5 DEF QuietOK

\* The quizzes there are keep their status.
QuizzesStay == \A q \in QuizIds : q \in QuizIds' /\ quizzes'[q].status = quizzes[q].status

\* A slot keeps what it relies on when it and its job stay.
LEMMA SlotStays ==
    ASSUME NEW v \in Workers, SlotAt(v), QuizzesStay, workers'[v] = workers[v],
           workers[v].pc # "idle" => jobs'[workers[v].job] = jobs[workers[v].job]
    PROVE  SlotAt(v)'
<1>1. ASSUME NEW q, NEW mode, Fits(q, mode) PROVE Fits(q, mode)'
  BY <1>1 DEF Fits, QuizzesStay
<1>2. CASE workers[v].pc = "idle" BY <1>2 DEF SlotAt, HoldingPC, Recorded
<1>3. CASE workers[v].pc # "idle"
  <2>1. jobs'[workers'[v].job] = jobs[workers[v].job] BY <1>3
  <2>2. workers[v].pc \in HoldingPC => Fits(workers[v].quiz, workers[v].mode)' BY <1>1, <1>3 DEF SlotAt
  <2>3. workers[v].pc \in Recorded => Fits(jobs[workers[v].job].quiz, workers[v].mode)'
    <3>. QED BY <1>1, <1>3, <2>1 DEF SlotAt, Fits, QuizzesStay
  <2>. QED BY <1>3, <2>1, <2>2, <2>3 DEF SlotAt, Fits, QuizzesStay
<1>. QED BY <1>2, <1>3

\* A job keeps what its status says when its row stays.
LEMMA JobStays ==
    ASSUME IInv, NEW i \in Jobs, JobAt(i), QuizzesStay, jobs'[i] = jobs[i],
           \A p \in Pages : pages[i][p].key = Image(i, p) => pages'[i][p].key = Image(i, p)
    PROVE  JobAt(i)'
BY QuizIn DEF JobAt, QuizzesStay, Image

\* What a slot may do about quizzes: record the one it holds, or take up a new or a published
\* one.
Passes(w, j) ==
    /\ \/ jobs'[j].quiz = jobs[j].quiz
       \/ Holds(w, jobs'[j].quiz) /\ workers'[w].pc \notin HoldingPC
    /\ workers'[w].pc \in HoldingPC =>
          \/ Holds(w, workers'[w].quiz)
          \/ workers'[w].quiz \notin QuizIds
          \/ quizzes[workers'[w].quiz].status = "published"

\* Drafts keep one owner when a slot passes its quiz on.
LEMMA DraftsStay ==
    ASSUME IInv, QuietOK, NEW w \in Workers, NEW j \in Jobs, QuizzesStay, Passes(w, j),
           \A v \in Workers : v # w => workers'[v] = workers[v],
           \A i \in Jobs : i # j => jobs'[i] = jobs[i]
    PROVE  \A q \in QuizIds' : DraftOwned(q)'
<1>1. \A v \in Workers : \A q : Holds(v, q) => q \in QuizIds BY DEF QuietOK, SlotAt, Holds, Fits, HoldingPC
<1>2. \A i \in Jobs : jobs[i].quiz # NoQuiz => jobs[i].quiz \in QuizIds BY QuizIn
<1>. TAKE q \in QuizIds'
<1>3. q # NoQuiz BY DEF QuizIds, NoQuiz
<1>. DEFINE Held(v) == workers'[v].pc \in HoldingPC /\ workers'[v].quiz = q
<1>4. \A v \in Workers : Holds(v, q)' <=> Held(v) BY DEF Holds
<1>5. \A v \in Workers : v # w => (Held(v) <=> Holds(v, q)) BY DEF Holds
<1>6. \A i \in Jobs : i # j => (jobs'[i].quiz = q <=> jobs[i].quiz = q) OBVIOUS
<1>7. jobs'[j].quiz = q => jobs[j].quiz = q \/ (Holds(w, q) /\ ~Held(w)) BY DEF Passes
<1>8. Held(w) => Holds(w, q) \/ q \notin QuizIds \/ quizzes[q].status = "published" BY DEF Passes
<1>. HIDE DEF Held
<1>9. CASE q \in QuizIds
  <2>1. quizzes'[q].status = quizzes[q].status BY <1>9 DEF QuizzesStay
  <2>. SUFFICES ASSUME quizzes'[q].status = "draft"
                PROVE  /\ \A i, k \in Jobs : jobs'[i].quiz = q /\ jobs'[k].quiz = q => i = k
                       /\ \A v, u \in Workers : Held(v) /\ Held(u) => v = u
                       /\ \A i \in Jobs, v \in Workers : ~(jobs'[i].quiz = q /\ Held(v))
    BY <1>4 DEF DraftOwned
  <2>2. quizzes[q].status = "draft" BY <2>1
  <2>3. /\ \A i, k \in Jobs : jobs[i].quiz = q /\ jobs[k].quiz = q => i = k
        /\ \A v, u \in Workers : Holds(v, q) /\ Holds(u, q) => v = u
        /\ \A i \in Jobs, v \in Workers : ~(jobs[i].quiz = q /\ Holds(v, q))
    BY <1>9, <2>2 DEF QuietOK, DraftOwned
  <2>4. \A v \in Workers : Held(v) => Holds(v, q) BY <1>5, <1>8, <1>9, <2>2
  <2>5. \A i, k \in Jobs : jobs'[i].quiz = q /\ jobs'[k].quiz = q => i = k BY <1>6, <1>7, <2>3
  <2>6. \A v, u \in Workers : Held(v) /\ Held(u) => v = u BY <2>3, <2>4
  <2>7. \A i \in Jobs, v \in Workers : ~(jobs'[i].quiz = q /\ Held(v))
    <3>. SUFFICES ASSUME NEW i \in Jobs, NEW v \in Workers, jobs'[i].quiz = q, Held(v) PROVE FALSE
      OBVIOUS
    <3>1. Holds(v, q) BY <2>4
    <3>2. CASE i # j BY <1>6, <2>3, <3>1, <3>2
    <3>3. CASE i = j BY <1>7, <2>3, <3>1, <3>3
    <3>. QED BY <3>2, <3>3
  <2>. QED BY <2>5, <2>6, <2>7
<1>10. CASE q \notin QuizIds
  <2>1. \A i \in Jobs : jobs'[i].quiz # q BY <1>1, <1>2, <1>3, <1>6, <1>7, <1>10
  <2>2. \A v \in Workers : v # w => ~Held(v) BY <1>1, <1>5, <1>10
  <2>. QED BY <1>4, <2>1, <2>2 DEF DraftOwned
<1>. QED BY <1>9, <1>10

\* Layer 2 after a step of one slot on a job that nobody else works on.
LEMMA SlotMoves ==
    ASSUME IInv, QuietOK, NEW w \in Workers, NEW j \in Jobs, QuizzesStay, Passes(w, j),
           \A v \in Workers : v # w => workers'[v] = workers[v] /\ workers[v].job # j,
           \A i \in Jobs : i # j => jobs'[i] = jobs[i],
           jobs[j].status \notin {"uploading", "needs_strategy"},
           workers'[w].job \in {j, NoJob}, SlotAt(w)', JobAt(j)',
           UNCHANGED <<pages, uploads, choosing>>
    PROVE  QuietOK'
<1>1. \A q \in QuizIds' : DraftOwned(q)' BY DraftsStay
<1>2. \A v \in Workers : SlotAt(v)'
  <2>1. ASSUME NEW v \in Workers, v # w PROVE SlotAt(v)'
    <3>1. workers[v].pc # "idle" => workers[v].job \in Jobs \ {j} BY <2>1 DEF IInv, Safe, SlotOK, SlotText
    <3>. QED BY <2>1, <3>1, SlotStays DEF QuietOK
  <2>. QED BY <2>1
<1>3. \A i \in Jobs : JobAt(i)'
  <2>1. ASSUME NEW i \in Jobs, i # j PROVE JobAt(i)' BY <2>1, JobStays DEF QuietOK
  <2>. QED BY <2>1
<1>4. \A i \in Jobs, p \in Pages : UploadAt(i, p)'
  <2>1. ASSUME NEW i \in Jobs, NEW p \in Pages PROVE UploadAt(i, p)'
    <3>1. UploadAt(i, p) BY DEF QuietOK
    <3>2. CASE i # j BY <3>1, <3>2 DEF UploadAt, Image
    <3>3. CASE i = j BY <3>1, <3>3 DEF UploadAt
    <3>. QED BY <3>2, <3>3
  <2>. QED BY <2>1
<1>5. ChoiceAt'
  <2>1. ChoiceAt /\ \A c \in choosing : c[1] \in Jobs BY DEF QuietOK, IInv, TypeOK
  <2>2. \A c \in choosing : c[1] # j BY <2>1 DEF ChoiceAt
  <2>. QED BY <2>1, <2>2 DEF ChoiceAt
<1>6. OneSlotPerJob' BY DEF QuietOK, OneSlotPerJob
<1>. QED BY <1>1, <1>2, <1>3, <1>4, <1>5, <1>6 DEF QuietOK

\* The second stage relies on no more than the first.
Weaker(from, to) ==
    /\ from \notin {"idle", "load"} /\ to \notin {"idle", "load"}
    /\ to \in AfterOcr => from \in AfterOcr
    /\ to \in {"save", "ask"} => from \in {"save", "ask"}
    /\ to \in HoldingPC => from \in HoldingPC
    /\ to \in Recorded <=> from \in Recorded

\* Layer 2 after a slot moved to such a stage and changed no row.
LEMMA PCMoves ==
    ASSUME IInv, QuietOK, NEW w \in Workers, QuizzesStay, Weaker(workers[w].pc, workers'[w].pc),
           \A v \in Workers : v # w => workers'[v] = workers[v],
           workers'[w].job = workers[w].job, workers'[w].strategy = workers[w].strategy,
           workers'[w].quiz = workers[w].quiz, workers'[w].mode = workers[w].mode,
           UNCHANGED <<jobs, pages, uploads, choosing>>
    PROVE  QuietOK'
<1>. DEFINE j == workers[w].job
<1>1. workers[w].pc # "idle" BY DEF Weaker
<1>2. PICK i \in Jobs : i = workers[w].job BY <1>1, Busy
<1>3. /\ \A v \in Workers : v # w => workers[v].job # i
      /\ jobs[i].status \notin {"uploading", "needs_strategy"} /\ JobAt(i)
  BY <1>1, <1>2, Busy
<1>4. JobAt(i)' BY <1>3, JobStays
<1>5. Passes(w, i) BY <1>2 DEF Passes, Holds, Weaker
<1>6. SlotAt(w)'
  <2>1. SlotAt(w) BY DEF QuietOK
  <2>2. ASSUME NEW q, NEW mode, Fits(q, mode) PROVE Fits(q, mode)' BY <2>2 DEF Fits, QuizzesStay
  <2>3. PICK q, r, mode : q = workers[w].quiz /\ r = jobs[i].quiz /\ mode = workers[w].mode OBVIOUS
  <2>4. workers'[w].pc \in HoldingPC => Fits(q, mode)
    BY <1>1, <2>1, <2>3 DEF SlotAt, Weaker
  <2>5. workers'[w].pc \in Recorded => Fits(r, mode)
    BY <1>1, <1>2, <2>1, <2>3 DEF SlotAt, Weaker
  <2>6. /\ workers'[w].pc \in HoldingPC => Fits(q, mode)'
        /\ workers'[w].pc \in Recorded => Fits(r, mode)'
    BY <2>2, <2>4, <2>5
  <2>7. q = workers'[w].quiz /\ r = jobs'[workers'[w].job].quiz /\ mode = workers'[w].mode
    BY <1>2, <2>3
  <2>. QED BY <1>1, <1>2, <2>1, <2>6, <2>7 DEF SlotAt, Weaker
<1>. QED BY <1>2, <1>3, <1>4, <1>5, <1>6, SlotMoves

\* Layer 2 after a slot gave its job up.
LEMMA RestQuiet ==
    ASSUME IInv, QuietOK, NEW w \in Workers, NEW j \in Jobs, Rest(w), JobAt(j)',
           \A v \in Workers : v # w => workers[v].job # j,
           \A i \in Jobs : i # j => jobs'[i] = jobs[i],
           jobs[j].status \notin {"uploading", "needs_strategy"}, jobs'[j].quiz = jobs[j].quiz,
           UNCHANGED <<quizzes, pages, uploads, choosing>>
    PROVE  QuietOK'
<1>1. workers'[w] = IdleWorker /\ \A v \in Workers : v # w => workers'[v] = workers[v]
  BY DEF Rest, IInv, TypeOK
<1>2. workers'[w].pc = "idle" /\ workers'[w].job = NoJob BY <1>1 DEF IdleWorker
<1>3. QuizzesStay BY DEF QuizzesStay, QuizIds
<1>4. Passes(w, j) BY <1>2 DEF Passes, HoldingPC
<1>5. SlotAt(w)' BY <1>2 DEF SlotAt
<1>. QED BY <1>1, <1>2, <1>3, <1>4, <1>5, SlotMoves

\* The stages that errors, and steps without a new row, lead to.
LEMMA WeakerStages ==
    /\ Weaker("list", "ocr") /\ Weaker("list", "failing") /\ Weaker("ocr", "failing")
    /\ Weaker("link", "link") /\ Weaker("link", "store") /\ Weaker("link", "setquiz")
    /\ Weaker("store", "setquiz") /\ Weaker("failing", "faildelete")
    /\ \A pc \in {"list", "save", "lookup", "generate", "link", "store", "setquiz"} : Weaker(pc, "failing")
    /\ \A pc \in {"ocr", "delete", "hit", "faildelete"} : Weaker(pc, pc)
BY DEF Weaker, AfterOcr, HoldingPC, Recorded

\* Steps of a slot that change no job keep layer 2.
LEMMA SamePCs ==
    ASSUME IInv, QuietOK, NEW w \in Workers,
           \/ ListPages(w) \/ NoPageRead(w) \/ LinkQuestion(w) \/ StoreCache(w) \/ FailJobList(w)
           \/ WorkerError(w)
           \/ \E k : ReadPage(w, k) \/ SkipPage(w, k) \/ DeleteObject(w, k)
    PROVE  QuietOK'
<1>1. workers[w] \in WorkerType /\ TypeOK BY DEF IInv, TypeOK
<1>2. UNCHANGED <<jobs, pages, uploads, choosing>>
  BY DEF ListPages, NoPageRead, LinkQuestion, StoreCache, FailJobList, WorkerError, ReadPage, SkipPage,
     DeleteObject, workerFrame
<1>3. QuizzesStay
  <2>1. CASE LinkQuestion(w)
    <3>1. quizzes \in Seq(QuizType) /\ SlotLink(w) BY <1>1 DEF IInv, Safe, SlotOK, TypeOK
    <3>2. PICK q \in QuizIds : q = workers[w].quiz BY <2>1, <3>1 DEF LinkQuestion, SlotLink
    <3>3. quizzes' = [quizzes EXCEPT ![q].linked = quizzes[q].linked + 1] BY <2>1, <3>2 DEF LinkQuestion
    <3>4. \A r \in QuizIds : quizzes[r] \in QuizType BY <3>1 DEF QuizIds
    <3>5. Len(quizzes') = Len(quizzes) BY <3>1, <3>3
    <3>6. \A r \in QuizIds : quizzes'[r].status = quizzes[r].status BY <3>1, <3>2, <3>3, <3>4 DEF QuizIds, QuizType
    <3>. QED BY <3>5, <3>6 DEF QuizzesStay, QuizIds
  <2>2. CASE ~LinkQuestion(w)
    <3>1. UNCHANGED quizzes
      BY <2>2 DEF ListPages, NoPageRead, StoreCache, FailJobList, WorkerError, ReadPage, SkipPage,
         DeleteObject
    <3>. QED BY <3>1 DEF QuizzesStay, QuizIds
  <2>. QED BY <2>1, <2>2
<1>. DEFINE Moved(pc, todo, got) ==
       workers' = [workers EXCEPT ![w].pc = pc, ![w].todo = todo, ![w].got = got]
<1>4. PICK pc, todo, got : Moved(pc, todo, got) /\ Weaker(workers[w].pc, pc)
  <2>. DEFINE here == workers[w].pc
              todo0 == workers[w].todo
              got0 == workers[w].got
  <2>0. ASSUME NEW pc, Goto(w, pc) PROVE Moved(pc, todo0, got0) BY <1>1, <2>0 DEF Goto, WorkerType, TypeOK
  <2>1. CASE ListPages(w)
    <3>1. here = "list" BY <2>1 DEF ListPages
    <3>2. CASE Goto(w, "failing")
      <4>1. Moved("failing", todo0, got0) BY <2>0, <3>2
      <4>2. Weaker(here, "failing") BY <3>1, WeakerStages
      <4>. QED BY <4>1, <4>2
    <3>3. CASE ~Goto(w, "failing")
      <4>1. PICK todo, got : Moved("ocr", todo, got) BY <2>1, <3>3 DEF ListPages
      <4>2. Weaker(here, "ocr") BY <3>1, WeakerStages
      <4>. QED BY <4>1, <4>2
    <3>. QED BY <3>2, <3>3
  <2>2. CASE NoPageRead(w)
    <3>1. here = "ocr" /\ Moved("failing", todo0, got0) BY <2>0, <2>2 DEF NoPageRead
    <3>. QED BY <3>1, WeakerStages
  <2>3. CASE LinkQuestion(w)
    <3>1. PICK pc \in {"link", "store", "setquiz"} : Goto(w, pc) /\ here = "link" BY <2>3 DEF LinkQuestion
    <3>2. Moved(pc, todo0, got0) BY <2>0, <3>1
    <3>3. Weaker("link", pc) BY <3>1, WeakerStages
    <3>. QED BY <3>1, <3>2, <3>3
  <2>4. CASE StoreCache(w)
    <3>1. here = "store" /\ Moved("setquiz", todo0, got0) BY <2>0, <2>4 DEF StoreCache
    <3>. QED BY <3>1, WeakerStages
  <2>5. CASE FailJobList(w)
    <3>1. PICK got : workers' = [workers EXCEPT ![w].pc = "faildelete", ![w].got = got] /\ here = "failing"
      BY <2>5 DEF FailJobList
    <3>2. Moved("faildelete", todo0, got) BY <1>1, <3>1 DEF WorkerType, TypeOK
    <3>3. Weaker(here, "faildelete") BY <3>1, WeakerStages
    <3>. QED BY <3>2, <3>3
  <2>6. CASE WorkerError(w)
    <3>1. here \in {"list", "save", "lookup", "generate", "link", "store", "setquiz"} /\ Goto(w, "failing")
      BY <2>6 DEF WorkerError
    <3>2. Moved("failing", todo0, got0) BY <2>0, <3>1
    <3>. QED BY <3>1, <3>2, WeakerStages
  <2>7. ASSUME NEW k, ReadPage(w, k) \/ SkipPage(w, k) \/ DeleteObject(w, k)
        PROVE \E todo, got : Moved(here, todo, got) /\ here \in {"ocr", "delete", "hit", "faildelete"}
    <3>1. CASE ReadPage(w, k)
      <4>1. Moved(here, todo0 \ {k}, got0 \cup {k}) BY <1>1, <3>1 DEF ReadPage, WorkerType, TypeOK
      <4>. QED BY <3>1, <4>1 DEF ReadPage
    <3>2. CASE SkipPage(w, k)
      <4>1. Moved(here, todo0 \ {k}, got0) BY <1>1, <3>2 DEF SkipPage, WorkerType, TypeOK
      <4>. QED BY <3>2, <4>1 DEF SkipPage
    <3>3. CASE DeleteObject(w, k)
      <4>1. Moved(here, todo0, got0 \ {k}) BY <1>1, <3>3 DEF DeleteObject, WorkerType, TypeOK
      <4>. QED BY <3>3, <4>1 DEF DeleteObject
    <3>. QED BY <2>7, <3>1, <3>2, <3>3
  <2>8. CASE \E k : ReadPage(w, k) \/ SkipPage(w, k) \/ DeleteObject(w, k)
    <3>1. PICK todo, got : Moved(here, todo, got) /\ here \in {"ocr", "delete", "hit", "faildelete"}
      BY <2>7, <2>8
    <3>2. Weaker(here, here) BY <3>1, WeakerStages
    <3>. QED BY <3>1, <3>2
  <2>. QED BY <2>1, <2>2, <2>3, <2>4, <2>5, <2>6, <2>8
<1>5. \A v \in Workers : v # w => workers'[v] = workers[v] BY <1>1, <1>4 DEF TypeOK
<1>6. workers'[w] = [workers[w] EXCEPT !.pc = pc, !.todo = todo, !.got = got] BY <1>1, <1>4 DEF TypeOK
<1>7. /\ workers'[w].pc = pc
      /\ workers'[w].job = workers[w].job /\ workers'[w].strategy = workers[w].strategy
      /\ workers'[w].quiz = workers[w].quiz /\ workers'[w].mode = workers[w].mode
  BY <1>1, <1>6 DEF WorkerType
<1>. QED BY <1>2, <1>3, <1>4, <1>5, <1>7, PCMoves

\* CreateJob writes the status and the strategy of a job, nothing else.
LEMMA Created ==
    ASSUME TypeOK, NEW j \in Jobs, CreateJob(j)
    PROVE  /\ jobs'[j].status = IF j \in Inline THEN "pending" ELSE "uploading"
           /\ jobs'[j].quiz = jobs[j].quiz /\ jobs'[j].pipeline = jobs[j].pipeline
           /\ \A i \in Jobs : i # j => jobs'[i] = jobs[i]
<1>. DEFINE st == IF j \in Inline THEN "pending" ELSE "uploading"
<1>1. jobs[j] \in JobType BY DEF TypeOK
<1>2. PICK s : jobs' = [jobs EXCEPT ![j].status = st, ![j].strategy = s, ![j].stale = FALSE]
  BY DEF CreateJob
<1>. HIDE DEF st
<1>3. jobs'[j] = [jobs[j] EXCEPT !.status = st, !.strategy = s, !.stale = FALSE] BY <1>2 DEF TypeOK
<1>4. \A i \in Jobs : i # j => jobs'[i] = jobs[i] BY <1>2 DEF TypeOK
<1>5. jobs'[j].status = st /\ jobs'[j].quiz = jobs[j].quiz /\ jobs'[j].pipeline = jobs[j].pipeline
  BY <1>1, <1>3 DEF JobType
<1>. QED BY <1>4, <1>5 DEF st

\* UpdateJobStatus writes the status and the time of a job, nothing else.
LEMMA StatusFields ==
    ASSUME TypeOK, NEW j \in Jobs, NEW s, UpdateJobStatus(j, s)
    PROVE  /\ jobs'[j].status = s /\ ~jobs'[j].stale
           /\ jobs'[j].quiz = jobs[j].quiz /\ jobs'[j].strategy = jobs[j].strategy
           /\ jobs'[j].pipeline = jobs[j].pipeline
           /\ \A i \in Jobs : i # j => jobs'[i] = jobs[i]
<1>1. jobs[j] \in JobType BY DEF TypeOK
<1>2. jobs'[j] = [jobs[j] EXCEPT !.status = s, !.stale = FALSE] BY DEF TypeOK, UpdateJobStatus
<1>3. \A i \in Jobs : i # j => jobs'[i] = jobs[i] BY DEF TypeOK, UpdateJobStatus
<1>. QED BY <1>1, <1>2, <1>3 DEF JobType

\* A slot that goes to another stage keeps its local variables.
LEMMA GotoFields ==
    ASSUME TypeOK, NEW w \in Workers, NEW pc, Goto(w, pc)
    PROVE  /\ workers'[w] = [workers[w] EXCEPT !.pc = pc]
           /\ workers'[w].pc = pc /\ workers'[w].job = workers[w].job
           /\ workers'[w].strategy = workers[w].strategy /\ workers'[w].text = workers[w].text
           /\ workers'[w].resumed = workers[w].resumed /\ workers'[w].todo = workers[w].todo
           /\ workers'[w].got = workers[w].got /\ workers'[w].mode = workers[w].mode
           /\ workers'[w].quiz = workers[w].quiz
           /\ \A v \in Workers : v # w => workers'[v] = workers[v]
<1>1. workers[w] \in WorkerType BY DEF TypeOK
<1>2. workers'[w] = [workers[w] EXCEPT !.pc = pc] BY DEF TypeOK, Goto
<1>3. \A v \in Workers : v # w => workers'[v] = workers[v] BY DEF TypeOK, Goto
<1>. QED BY <1>1, <1>2, <1>3 DEF WorkerType

\* What a new status has to say to be true.
LEMMA JobMoves ==
    ASSUME IInv, NEW j \in Jobs, JobAt(j), jobs[j].status \notin {"none", "uploading"},
           jobs'[j].status # "uploading", UNCHANGED pages,
           jobs'[j].status \in Early => jobs'[j].quiz = NoQuiz,
           jobs'[j].status = "quiz_ready" => quizzes'[jobs'[j].quiz].status = "published",
           jobs'[j].status = "review_ready" => quizzes'[jobs'[j].quiz].status = "draft",
           jobs'[j].status = "needs_strategy" => jobs'[j].strategy \notin Strategies
    PROVE  JobAt(j)'
BY DEF JobAt, Image

\* Layer 2 after a slot wrote the status of its job and gave it up.
LEMMA StatusRestQuiet ==
    ASSUME IInv, QuietOK, NEW w \in Workers, workers[w].pc # "idle", NEW s, s \notin {"none", "uploading"},
           UpdateJobStatus(workers[w].job, s), Rest(w),
           s \in Early => jobs[workers[w].job].quiz = NoQuiz,
           s = "quiz_ready" => quizzes[jobs[workers[w].job].quiz].status = "published",
           s = "review_ready" => quizzes[jobs[workers[w].job].quiz].status = "draft",
           s = "needs_strategy" => jobs[workers[w].job].strategy \notin Strategies,
           UNCHANGED <<quizzes, pages, uploads, choosing>>
    PROVE  QuietOK'
<1>1. TypeOK BY DEF IInv
<1>2. PICK j \in Jobs : j = workers[w].job BY Busy
<1>3. /\ \A v \in Workers : v # w => workers[v].job # j
      /\ jobs[j].status \notin {"none", "uploading", "needs_strategy"} /\ JobAt(j)
  BY <1>2, Busy
<1>4. /\ jobs'[j].status = s /\ jobs'[j].quiz = jobs[j].quiz /\ jobs'[j].strategy = jobs[j].strategy
      /\ \A i \in Jobs : i # j => jobs'[i] = jobs[i]
  BY <1>1, <1>2, StatusFields
<1>5. JobAt(j)' BY <1>2, <1>3, <1>4, JobMoves
<1>. QED BY <1>3, <1>4, <1>5, RestQuiet

\* The four ways a job leaves its slot keep layer 2.
LEMMA EndsQuiet ==
    ASSUME IInv, QuietOK, NEW w \in Workers,
           AskStrategy(w) \/ RateLimited(w) \/ FinishJob(w) \/ FailJob(w)
    PROVE  QuietOK'
<1>1. workers[w].pc # "idle" BY DEF AskStrategy, RateLimited, FinishJob, FailJob, ImagesGone
<1>2. workers[w] \in WorkerType /\ workers[w].job \in Jobs BY <1>1, Busy
<1>3. SlotAt(w) BY DEF QuietOK
<1>4. UNCHANGED <<quizzes, pages, uploads, choosing>> /\ Rest(w)
  BY DEF AskStrategy, RateLimited, FinishJob, FailJob, workerFrame
<1>5. CASE AskStrategy(w)
  <2>1. /\ jobs[workers[w].job].quiz = NoQuiz /\ jobs[workers[w].job].strategy \notin Strategies
        /\ UpdateJobStatus(workers[w].job, "needs_strategy")
    BY <1>3, <1>5 DEF AskStrategy, SlotAt, Recorded
  <2>2. PICK s : s = "needs_strategy" OBVIOUS
  <2>3. s \notin {"none", "uploading"} /\ s # "quiz_ready" /\ s # "review_ready" BY <2>2
  <2>. QED BY <1>1, <1>4, <2>1, <2>2, <2>3, StatusRestQuiet
<1>6. CASE RateLimited(w)
  <2>1. jobs[workers[w].job].quiz = NoQuiz /\ UpdateJobStatus(workers[w].job, "pending")
    BY <1>3, <1>6 DEF RateLimited, SlotAt, Recorded
  <2>. QED BY <1>1, <1>4, <2>1, StatusRestQuiet
<1>7. CASE FailJob(w)
  <2>1. jobs[workers[w].job].quiz = NoQuiz /\ UpdateJobStatus(workers[w].job, "failed")
    BY <1>3, <1>7 DEF FailJob, SlotAt, Recorded
  <2>2. PICK s : s = "failed" OBVIOUS
  <2>3. s \notin {"none", "uploading"} /\ s \notin {"quiz_ready", "review_ready", "needs_strategy"} BY <2>2
  <2>. QED BY <1>1, <1>4, <2>1, <2>2, <2>3, StatusRestQuiet
<1>8. CASE FinishJob(w)
  <2>1. Fits(jobs[workers[w].job].quiz, workers[w].mode)
    BY <1>1, <1>3, <1>8 DEF FinishJob, ImagesGone, SlotAt, Recorded
  <2>2. \A q \in QuizIds : quizzes[q].status \in {"draft", "published"}
    <3>1. quizzes \in Seq(QuizType) BY DEF IInv, TypeOK
    <3>2. \A q \in QuizIds : quizzes[q] \in QuizType BY <3>1 DEF QuizIds
    <3>. QED BY <3>2 DEF QuizType
  <2>3. CASE workers[w].mode = "existing_questions"
    <3>1. UpdateJobStatus(workers[w].job, "review_ready") BY <1>8, <2>3 DEF FinishJob, FinalJobStatus
    <3>2. quizzes[jobs[workers[w].job].quiz].status = "draft" BY <2>1, <2>3 DEF Fits
    <3>3. PICK s : s = "review_ready" OBVIOUS
    <3>4. s \notin {"none", "uploading"} /\ s \notin Early /\ s \notin {"quiz_ready", "needs_strategy"}
      BY <3>3 DEF Early
    <3>. QED BY <1>1, <1>4, <3>1, <3>2, <3>3, <3>4, StatusRestQuiet
  <2>4. CASE workers[w].mode # "existing_questions"
    <3>1. UpdateJobStatus(workers[w].job, "quiz_ready") BY <1>8, <2>4 DEF FinishJob, FinalJobStatus
    <3>2. quizzes[jobs[workers[w].job].quiz].status = "published" BY <2>1, <2>2, <2>4 DEF Fits
    <3>3. PICK s : s = "quiz_ready" OBVIOUS
    <3>4. s \notin {"none", "uploading"} /\ s \notin Early /\ s \notin {"review_ready", "needs_strategy"}
      BY <3>3 DEF Early
    <3>. QED BY <1>1, <1>4, <3>1, <3>2, <3>3, <3>4, StatusRestQuiet
  <2>. QED BY <2>3, <2>4
<1>. QED BY <1>5, <1>6, <1>7, <1>8

\* A slot that dies keeps layer 2.
LEMMA WorkerStopsQuiet ==
    ASSUME IInv, QuietOK, NEW w \in Workers, workers[w].pc # "idle", Rest(w),
           UNCHANGED <<jobs, quizzes, pages, uploads, choosing>>
    PROVE  QuietOK'
<1>1. PICK j \in Jobs : j = workers[w].job BY Busy
<1>2. /\ \A v \in Workers : v # w => workers[v].job # j
      /\ jobs[j].status \notin {"none", "uploading", "needs_strategy"} /\ JobAt(j)
  BY <1>1, Busy
<1>3. QuizzesStay BY DEF QuizzesStay, QuizIds
<1>4. JobAt(j)' BY <1>2, <1>3, JobStays
<1>. QED BY <1>2, <1>4, RestQuiet

\* Layer 2 after a slot that goes on wrote the row of its job.
LEMMA GoesOn ==
    ASSUME IInv, QuietOK, NEW w \in Workers, workers[w].pc # "idle", QuizzesStay,
           NEW j \in Jobs, j = workers[w].job, Passes(w, j),
           \A v \in Workers : v # w => workers'[v] = workers[v],
           \A i \in Jobs : i # j => jobs'[i] = jobs[i],
           workers'[w].job = j, SlotAt(w)',
           jobs'[j].status \in {"processing", "ocr_complete"},
           jobs'[j].status = "processing" => jobs'[j].quiz = NoQuiz,
           UNCHANGED <<pages, uploads, choosing>>
    PROVE  QuietOK'
<1>1. /\ \A v \in Workers : v # w => workers[v].job # j
      /\ jobs[j].status \notin {"none", "uploading", "needs_strategy"} /\ JobAt(j)
  BY Busy
<1>2. JobAt(j)' BY <1>1, JobMoves DEF Early
<1>. QED BY <1>1, <1>2, SlotMoves

\* Reading the job keeps layer 2.
LEMMA LoadJobQuiet ==
    ASSUME IInv, QuietOK, NEW w \in Workers, LoadJob(w)
    PROVE  QuietOK'
<1>1. TypeOK /\ workers[w].pc = "load" /\ UNCHANGED <<jobs, quizzes, pages, uploads, choosing>>
  BY DEF IInv, LoadJob, workerFrame
<1>2. PICK j \in Jobs : j = workers[w].job BY <1>1, Busy
<1>3. workers[w] \in WorkerType /\ SlotAt(w) BY <1>1 DEF QuietOK, TypeOK
<1>4. CASE Processable(jobs[j].status)
  <2>1. jobs[j].status = "processing" /\ ~jobs[j].stale /\ jobs[j].quiz = NoQuiz
    BY <1>1, <1>2, <1>3, <1>4 DEF SlotAt, Processable, Recorded
  <2>2. PICK text, resumed :
          workers' = [workers EXCEPT ![w].pc = "list", ![w].strategy = jobs[j].strategy,
                                     ![w].text = text, ![w].resumed = resumed]
    <3>. DEFINE text == IF w \in Vision THEN NoText ELSE jobs[j].pipeline
                resumed == w \notin Vision /\ jobs[j].pipeline # NoText
                pc == IF jobs[j].status = "pending" THEN "begin" ELSE "list"
    <3>1. workers' = [workers EXCEPT ![w].pc = pc, ![w].strategy = jobs[j].strategy,
                                     ![w].text = text, ![w].resumed = resumed]
      BY <1>2, <1>4 DEF LoadJob
    <3>2. pc = "list" BY <2>1
    <3>. HIDE DEF pc, text, resumed
    <3>. QED BY <3>1, <3>2
  <2>3. workers'[w] = [workers[w] EXCEPT !.pc = "list", !.strategy = jobs[j].strategy,
                                         !.text = text, !.resumed = resumed]
    BY <1>1, <2>2 DEF TypeOK
  <2>4. workers'[w].pc = "list" /\ workers'[w].job = j /\ workers'[w].strategy = jobs[j].strategy
    BY <1>2, <1>3, <2>3 DEF WorkerType
  <2>5. \A v \in Workers : v # w => workers'[v] = workers[v] BY <1>1, <2>2 DEF TypeOK
  <2>6. QuizzesStay BY <1>1 DEF QuizzesStay, QuizIds
  <2>7. Passes(w, j) BY <1>1, <2>4 DEF Passes, HoldingPC
  <2>8. SlotAt(w)' BY <1>1, <2>1, <2>4 DEF SlotAt, AfterOcr, Recorded, HoldingPC
  <2>. QED BY <1>1, <1>2, <2>1, <2>4, <2>5, <2>6, <2>7, <2>8, GoesOn
<1>5. CASE ~Processable(jobs[j].status)
  <2>1. Rest(w) BY <1>2, <1>5 DEF LoadJob
  <2>. QED BY <1>1, <2>1, WorkerStopsQuiet
<1>. QED BY <1>4, <1>5

\* The status "processing" keeps layer 2.
LEMMA BeginJobQuiet ==
    ASSUME IInv, QuietOK, NEW w \in Workers, BeginJob(w)
    PROVE  QuietOK'
<1>1. TypeOK /\ workers[w].pc = "begin" /\ UNCHANGED <<quizzes, pages, uploads, choosing>>
  BY DEF IInv, BeginJob, workerFrame
<1>2. PICK j \in Jobs : j = workers[w].job BY <1>1, Busy
<1>3. SlotAt(w) BY DEF QuietOK
<1>4. Goto(w, "list") /\ UpdateJobStatus(j, "processing") BY <1>2 DEF BeginJob
<1>5. /\ workers'[w].pc = "list" /\ workers'[w].job = j /\ workers'[w].strategy = workers[w].strategy
      /\ \A v \in Workers : v # w => workers'[v] = workers[v]
  BY <1>1, <1>2, <1>4, GotoFields
<1>6. /\ jobs'[j].status = "processing" /\ ~jobs'[j].stale
      /\ jobs'[j].quiz = jobs[j].quiz /\ jobs'[j].strategy = jobs[j].strategy
      /\ \A i \in Jobs : i # j => jobs'[i] = jobs[i]
  BY <1>1, <1>4, StatusFields
<1>7. jobs[j].quiz = NoQuiz /\ workers[w].strategy = jobs[j].strategy
  BY <1>1, <1>2, <1>3 DEF SlotAt, Recorded
<1>8. QuizzesStay BY <1>1 DEF QuizzesStay, QuizIds
<1>9. Passes(w, j) BY <1>5, <1>6 DEF Passes, HoldingPC
<1>10. SlotAt(w)' BY <1>5, <1>6, <1>7 DEF SlotAt, AfterOcr, Recorded, HoldingPC
<1>. QED BY <1>1, <1>2, <1>5, <1>6, <1>7, <1>8, <1>9, <1>10, GoesOn

\* The status "ocr_complete" keeps layer 2.
LEMMA OcrCompleteQuiet ==
    ASSUME IInv, QuietOK, NEW w \in Workers, OcrComplete(w)
    PROVE  QuietOK'
<1>1. TypeOK /\ workers[w].pc = "ocr" /\ UNCHANGED <<quizzes, pages, uploads, choosing>>
  BY DEF IInv, OcrComplete, workerFrame
<1>2. PICK j \in Jobs : j = workers[w].job BY <1>1, Busy
<1>3. workers[w] \in WorkerType /\ SlotAt(w) BY <1>1 DEF QuietOK, TypeOK
<1>4. UpdateJobStatus(j, "ocr_complete") BY <1>2 DEF OcrComplete
<1>5. PICK t, mode, pc :
        /\ workers' = [workers EXCEPT ![w].text = t, ![w].mode = mode, ![w].pc = pc]
        /\ pc = Route(w, mode)
        /\ mode = IF w \in Vision THEN ModeOf[j]
                  ELSE ResolveGenerationMode(PageTypeOf[t], workers[w].strategy)
  <2>1. PICK t : workers' = [workers EXCEPT ![w].text = t,
                     ![w].mode = IF w \in Vision THEN ModeOf[j]
                                 ELSE ResolveGenerationMode(PageTypeOf[t], workers[w].strategy),
                     ![w].pc = Route(w, IF w \in Vision THEN ModeOf[j]
                                        ELSE ResolveGenerationMode(PageTypeOf[t], workers[w].strategy))]
    BY <1>2 DEF OcrComplete
  <2>. QED BY <2>1
<1>6. workers'[w] = [workers[w] EXCEPT !.text = t, !.mode = mode, !.pc = pc] BY <1>1, <1>5 DEF TypeOK
<1>7. /\ workers'[w].pc = pc /\ workers'[w].job = j /\ workers'[w].strategy = workers[w].strategy
      /\ \A v \in Workers : v # w => workers'[v] = workers[v]
  BY <1>1, <1>2, <1>3, <1>5, <1>6 DEF WorkerType, TypeOK
<1>8. /\ jobs'[j].status = "ocr_complete" /\ ~jobs'[j].stale
      /\ jobs'[j].quiz = jobs[j].quiz /\ jobs'[j].strategy = jobs[j].strategy
      /\ \A i \in Jobs : i # j => jobs'[i] = jobs[i]
  BY <1>1, <1>4, StatusFields
<1>9. jobs[j].quiz = NoQuiz /\ workers[w].strategy = jobs[j].strategy
  BY <1>1, <1>2, <1>3 DEF SlotAt, Recorded
<1>10. pc \in {"save", "lookup", "generate"} BY <1>5 DEF Route
<1>11. pc = "save" => workers[w].strategy \notin Strategies
  <2>. SUFFICES ASSUME pc = "save" PROVE workers[w].strategy \notin Strategies OBVIOUS
  <2>1. mode = "undecided" BY <1>5 DEF Route
  <2>2. w \notin Vision BY <1>5, <2>1, ScanAssumption DEF Modes
  <2>. QED BY <1>5, <2>1, <2>2 DEF ResolveGenerationMode, Strategies
<1>12. QuizzesStay BY <1>1 DEF QuizzesStay, QuizIds
<1>13. Passes(w, j) BY <1>7, <1>8, <1>10 DEF Passes, HoldingPC
<1>14. SlotAt(w)' BY <1>7, <1>8, <1>9, <1>10, <1>11 DEF SlotAt, AfterOcr, Recorded, HoldingPC
<1>. QED BY <1>1, <1>2, <1>7, <1>8, <1>9, <1>12, <1>13, <1>14, GoesOn

\* What a slot writes into the row of its job besides the status.
LEMMA RowFields ==
    ASSUME TypeOK, NEW w \in Workers, NEW j \in Jobs, j = workers[w].job,
           SavePipelineText(w) \/ ClearPipelineText(w) \/ UpdateJobQuizID(w)
    PROVE  /\ jobs'[j].status = jobs[j].status /\ ~jobs'[j].stale
           /\ jobs'[j].strategy = jobs[j].strategy
           /\ \A i \in Jobs : i # j => jobs'[i] = jobs[i]
           /\ UpdateJobQuizID(w) => jobs'[j].quiz = workers[w].quiz /\ jobs'[j].pipeline = jobs[j].pipeline
           /\ SavePipelineText(w) => jobs'[j].quiz = jobs[j].quiz /\ jobs'[j].pipeline = workers[w].text
           /\ ClearPipelineText(w) => jobs'[j].quiz = jobs[j].quiz
<1>1. jobs[j] \in JobType BY DEF TypeOK
<1>2. CASE SavePipelineText(w)
  <2>1. jobs'[j] = [jobs[j] EXCEPT !.pipeline = workers[w].text, !.stale = FALSE] BY <1>2 DEF SavePipelineText, TypeOK
  <2>2. \A i \in Jobs : i # j => jobs'[i] = jobs[i] BY <1>2 DEF SavePipelineText, TypeOK
  <2>3. ~UpdateJobQuizID(w) /\ ~ClearPipelineText(w)
    BY <1>2 DEF SavePipelineText, UpdateJobQuizID, ClearPipelineText, ImagesGone
  <2>. QED BY <1>1, <2>1, <2>2, <2>3 DEF JobType
<1>3. CASE ClearPipelineText(w)
  <2>1. jobs'[j] = [jobs[j] EXCEPT !.pipeline = NoText, !.stale = FALSE] BY <1>3 DEF ClearPipelineText, TypeOK
  <2>2. \A i \in Jobs : i # j => jobs'[i] = jobs[i] BY <1>3 DEF ClearPipelineText, TypeOK
  <2>3. ~UpdateJobQuizID(w) /\ ~SavePipelineText(w)
    BY <1>3 DEF SavePipelineText, UpdateJobQuizID, ClearPipelineText, ImagesGone
  <2>. QED BY <1>1, <2>1, <2>2, <2>3 DEF JobType
<1>4. CASE UpdateJobQuizID(w)
  <2>1. jobs'[j] = [jobs[j] EXCEPT !.quiz = workers[w].quiz, !.stale = FALSE] BY <1>4 DEF UpdateJobQuizID, TypeOK
  <2>2. \A i \in Jobs : i # j => jobs'[i] = jobs[i] BY <1>4 DEF UpdateJobQuizID, TypeOK
  <2>3. ~ClearPipelineText(w) /\ ~SavePipelineText(w)
    BY <1>4 DEF SavePipelineText, UpdateJobQuizID, ClearPipelineText, ImagesGone
  <2>. QED BY <1>1, <2>1, <2>2, <2>3 DEF JobType
<1>. QED BY <1>2, <1>3, <1>4

\* Saving text, clearing it and recording the quiz keep layer 2.
LEMMA RowsQuiet ==
    ASSUME IInv, QuietOK, NEW w \in Workers,
           SavePipelineText(w) \/ ClearPipelineText(w) \/ UpdateJobQuizID(w)
    PROVE  QuietOK'
<1>1. TypeOK /\ workers[w].pc # "idle" /\ UNCHANGED <<quizzes, pages, uploads, choosing>>
  BY DEF IInv, SavePipelineText, ClearPipelineText, UpdateJobQuizID, ImagesGone, workerFrame
<1>2. PICK j \in Jobs : j = workers[w].job BY <1>1, Busy
<1>3. SlotAt(w) BY DEF QuietOK
<1>4. /\ jobs'[j].status = jobs[j].status /\ ~jobs'[j].stale
      /\ jobs'[j].strategy = jobs[j].strategy
      /\ \A i \in Jobs : i # j => jobs'[i] = jobs[i]
  BY <1>1, <1>2, RowFields
<1>5. QuizzesStay BY <1>1 DEF QuizzesStay, QuizIds
<1>6. ASSUME NEW q, NEW mode, Fits(q, mode) PROVE Fits(q, mode)' BY <1>5, <1>6 DEF Fits, QuizzesStay
<1>7. CASE SavePipelineText(w)
  <2>1. workers[w].pc = "save" /\ Goto(w, "ask") /\ jobs'[j].quiz = jobs[j].quiz
    BY <1>1, <1>2, <1>7, RowFields DEF SavePipelineText
  <2>2. /\ workers'[w].pc = "ask" /\ workers'[w].job = j /\ workers'[w].strategy = workers[w].strategy
        /\ \A v \in Workers : v # w => workers'[v] = workers[v]
    BY <1>1, <1>2, <2>1, GotoFields
  <2>3. Passes(w, j) BY <2>1, <2>2 DEF Passes, HoldingPC
  <2>4. /\ jobs[j].status = "ocr_complete" /\ jobs[j].quiz = NoQuiz
        /\ workers[w].strategy = jobs[j].strategy /\ workers[w].strategy \notin Strategies
    BY <1>2, <1>3, <2>1 DEF SlotAt, AfterOcr, Recorded
  <2>5. SlotAt(w)' BY <1>4, <2>1, <2>2, <2>4 DEF SlotAt, AfterOcr, HoldingPC, Recorded
  <2>. QED BY <1>1, <1>2, <1>4, <1>5, <2>1, <2>2, <2>3, <2>4, <2>5, GoesOn
<1>8. CASE ClearPipelineText(w)
  <2>1. workers[w].pc \in {"delete", "clear"} /\ Goto(w, "final") /\ jobs'[j].quiz = jobs[j].quiz
    BY <1>1, <1>2, <1>8, RowFields DEF ClearPipelineText, ImagesGone
  <2>2. /\ workers'[w].pc = "final" /\ workers'[w].job = j /\ workers'[w].strategy = workers[w].strategy
        /\ workers'[w].mode = workers[w].mode
        /\ \A v \in Workers : v # w => workers'[v] = workers[v]
    BY <1>1, <1>2, <2>1, GotoFields
  <2>3. Passes(w, j) BY <2>1, <2>2 DEF Passes, HoldingPC
  <2>4. PICK q, mode : q = jobs[j].quiz /\ mode = workers[w].mode OBVIOUS
  <2>5. jobs[j].status = "ocr_complete" /\ workers[w].strategy = jobs[j].strategy /\ Fits(q, mode)
    BY <1>2, <1>3, <2>1, <2>4 DEF SlotAt, AfterOcr, Recorded
  <2>6. Fits(q, mode)' BY <1>6, <2>5
  <2>7. SlotAt(w)' BY <1>4, <2>1, <2>2, <2>4, <2>5, <2>6 DEF SlotAt, AfterOcr, HoldingPC, Recorded
  <2>. QED BY <1>1, <1>2, <1>4, <1>5, <2>1, <2>2, <2>3, <2>5, <2>7, GoesOn
<1>9. CASE UpdateJobQuizID(w)
  <2>1. PICK pc \in {"delete", "clear"} : Goto(w, pc) BY <1>9 DEF UpdateJobQuizID
  <2>2. workers[w].pc \in {"setquiz", "hit"} /\ jobs'[j].quiz = workers[w].quiz
    BY <1>1, <1>2, <1>9, RowFields DEF UpdateJobQuizID
  <2>3. /\ workers'[w].pc = pc /\ workers'[w].job = j /\ workers'[w].strategy = workers[w].strategy
        /\ workers'[w].mode = workers[w].mode
        /\ \A v \in Workers : v # w => workers'[v] = workers[v]
    BY <1>1, <1>2, <2>1, GotoFields
  <2>4. Passes(w, j) BY <2>2, <2>3 DEF Passes, HoldingPC, Holds
  <2>5. PICK q, mode : q = workers[w].quiz /\ mode = workers[w].mode OBVIOUS
  <2>6. jobs[j].status = "ocr_complete" /\ workers[w].strategy = jobs[j].strategy /\ Fits(q, mode)
    BY <1>2, <1>3, <2>2, <2>5 DEF SlotAt, AfterOcr, HoldingPC
  <2>7. Fits(q, mode)' BY <1>6, <2>6
  <2>8. SlotAt(w)' BY <1>4, <2>2, <2>3, <2>5, <2>6, <2>7 DEF SlotAt, AfterOcr, HoldingPC, Recorded
  <2>. QED BY <1>1, <1>2, <1>4, <1>5, <2>3, <2>4, <2>6, <2>8, GoesOn
<1>. QED BY <1>7, <1>8, <1>9

\* A cached quiz is published: taking it keeps layer 2.
LEMMA LookupCacheQuiet ==
    ASSUME IInv, QuietOK, NEW w \in Workers, LookupCache(w)
    PROVE  QuietOK'
<1>1. TypeOK /\ workers[w].pc = "lookup" /\ UNCHANGED <<jobs, quizzes, pages, uploads, choosing>>
  BY DEF IInv, LookupCache, workerFrame
<1>2. PICK j \in Jobs : j = workers[w].job BY <1>1, Busy
<1>3. workers[w] \in WorkerType /\ SlotAt(w) /\ SlotText(w) BY <1>1 DEF QuietOK, TypeOK, IInv, Safe, SlotOK
<1>4. PICK hit : hit = CachedQuiz(workers[w].text) OBVIOUS
<1>5. PICK pc : /\ workers' = [workers EXCEPT ![w].quiz = hit, ![w].pc = pc]
                /\ pc = IF hit = NoQuiz THEN "generate" ELSE "hit"
  BY <1>4 DEF LookupCache
<1>6. workers'[w] = [workers[w] EXCEPT !.quiz = hit, !.pc = pc] BY <1>1, <1>5 DEF TypeOK
<1>7. /\ workers'[w].pc = pc /\ workers'[w].job = j /\ workers'[w].strategy = workers[w].strategy
      /\ workers'[w].mode = workers[w].mode /\ workers'[w].quiz = hit
      /\ \A v \in Workers : v # w => workers'[v] = workers[v]
  BY <1>1, <1>2, <1>3, <1>5, <1>6 DEF WorkerType, TypeOK
<1>8. /\ jobs[j].status = "ocr_complete" /\ ~jobs[j].stale /\ jobs[j].quiz = NoQuiz
      /\ workers[w].strategy = jobs[j].strategy
  BY <1>1, <1>2, <1>3 DEF SlotAt, AfterOcr, Recorded
<1>9. hit # NoQuiz => hit \in QuizIds /\ quizzes[hit].status = "published"
  <2>1. workers[w].text \in Texts
    <3>1. workers[w].text \in TextsOf[workers[w].job] BY <1>1, <1>3 DEF SlotText
    <3>2. TextsOf[j] \subseteq Texts BY ScanAssumption
    <3>. QED BY <1>2, <3>1, <3>2
  <2>2. CacheOK(workers[w].text) BY <2>1 DEF IInv, Safe
  <2>. QED BY <1>4, <2>2 DEF CacheOK, CachedQuiz, Shareable
<1>10. workers[w].mode # "existing_questions" BY <1>1, <1>3 DEF SlotText
<1>11. QuizzesStay BY <1>1 DEF QuizzesStay, QuizIds
<1>12. Passes(w, j) BY <1>1, <1>5, <1>7, <1>9 DEF Passes, HoldingPC
<1>13. SlotAt(w)'
  <2>1. pc = "hit" => Fits(hit, workers[w].mode) BY <1>5, <1>9, <1>10 DEF Fits
  <2>2. pc = "hit" => hit \in QuizIds' /\ (quizzes'[hit].status = "draft" <=> workers'[w].mode = "existing_questions")
    BY <1>1, <1>7, <2>1 DEF Fits, QuizIds
  <2>3. pc = "hit" => Fits(workers[w].quiz, workers[w].mode)' BY <1>7, <2>2 DEF Fits
  <2>. QED BY <1>1, <1>5, <1>7, <1>8, <2>3 DEF SlotAt, AfterOcr, HoldingPC, Recorded
<1>. QED BY <1>1, <1>2, <1>7, <1>8, <1>11, <1>12, <1>13, GoesOn

\* A new quiz is nobody's: creating it keeps layer 2.
LEMMA CreateQuizQuiet ==
    ASSUME IInv, QuietOK, NEW w \in Workers, CreateQuiz(w)
    PROVE  QuietOK'
<1>1. TypeOK /\ workers[w].pc = "generate" /\ UNCHANGED <<jobs, pages, uploads, choosing>>
  BY DEF IInv, CreateQuiz, workerFrame
<1>2. PICK j \in Jobs : j = workers[w].job BY <1>1, Busy
<1>3. workers[w] \in WorkerType /\ SlotAt(w) /\ quizzes \in Seq(QuizType) BY <1>1 DEF QuietOK, TypeOK
<1>. DEFINE extract == workers[w].mode = "existing_questions"
            made == [status |-> IF extract THEN "draft" ELSE "published",
                     extract |-> extract, linked |-> 0, text |-> workers[w].text]
<1>14. made.status = IF extract THEN "draft" ELSE "published" OBVIOUS
<1>15. workers' = [workers EXCEPT ![w].quiz = Len(quizzes) + 1, ![w].pc = "link"]
       /\ quizzes' = Append(quizzes, made)
  BY DEF CreateQuiz
<1>. HIDE DEF made
<1>4. PICK new, q : /\ workers' = [workers EXCEPT ![w].quiz = q, ![w].pc = "link"]
                    /\ q = Len(quizzes) + 1 /\ quizzes' = Append(quizzes, new)
                    /\ new.status = IF workers[w].mode = "existing_questions" THEN "draft" ELSE "published"
  BY <1>14, <1>15
<1>5. workers'[w] = [workers[w] EXCEPT !.quiz = q, !.pc = "link"] BY <1>1, <1>4 DEF TypeOK
<1>6. /\ workers'[w].pc = "link" /\ workers'[w].job = j /\ workers'[w].strategy = workers[w].strategy
      /\ workers'[w].mode = workers[w].mode /\ workers'[w].quiz = q
      /\ \A v \in Workers : v # w => workers'[v] = workers[v]
  BY <1>1, <1>2, <1>3, <1>4, <1>5 DEF WorkerType, TypeOK
<1>7. /\ jobs[j].status = "ocr_complete" /\ ~jobs[j].stale /\ jobs[j].quiz = NoQuiz
      /\ workers[w].strategy = jobs[j].strategy
  BY <1>1, <1>2, <1>3 DEF SlotAt, AfterOcr, Recorded
<1>8. Len(quizzes') = q /\ quizzes'[q] = new /\ \A r \in QuizIds : quizzes'[r] = quizzes[r]
  BY <1>3, <1>4 DEF QuizIds
<1>9. Len(quizzes) \in Nat BY <1>3
<1>10. q \in QuizIds' /\ q \notin QuizIds BY <1>4, <1>8, <1>9 DEF QuizIds
<1>11. QuizzesStay BY <1>4, <1>8, <1>9 DEF QuizzesStay, QuizIds
<1>12. Passes(w, j) BY <1>1, <1>6, <1>10 DEF Passes
<1>13. SlotAt(w)'
  <2>1. Fits(workers[w].quiz, workers[w].mode)' BY <1>4, <1>6, <1>8, <1>10 DEF Fits
  <2>. QED BY <1>1, <1>6, <1>7, <2>1 DEF SlotAt, AfterOcr, HoldingPC, Recorded
<1>. QED BY <1>1, <1>2, <1>6, <1>7, <1>11, <1>12, <1>13, GoesOn

\* The claim takes a job that no slot has: it is pending, or stale after a crash.
LEMMA ClaimPendingJobQuiet ==
    ASSUME IInv, QuietOK, NEW w \in Workers, NEW j \in Jobs, ClaimPendingJob(w, j)
    PROVE  QuietOK'
<1>1. TypeOK /\ workers[w].pc = "idle" /\ UNCHANGED <<quizzes, pages, uploads, choosing>>
  BY DEF IInv, ClaimPendingJob, workerFrame
<1>2. jobs[j].status = "pending" \/ (jobs[j].status = "processing" /\ jobs[j].stale)
  BY DEF ClaimPendingJob, Claimable
<1>3. \A v \in Workers : workers[v].job # j
  <2>. SUFFICES ASSUME NEW v \in Workers, workers[v].job = j PROVE FALSE OBVIOUS
  <2>1. SlotAt(v) BY DEF QuietOK
  <2>2. workers[v].pc # "idle" BY <2>1, ScanAssumption DEF SlotAt
  <2>. QED BY <1>2, <2>1, <2>2 DEF SlotAt
<1>4. workers[w] \in WorkerType BY <1>1 DEF TypeOK
<1>5. workers'[w] = [workers[w] EXCEPT !.pc = "load", !.job = j] BY <1>1 DEF ClaimPendingJob, TypeOK
<1>6. /\ workers'[w].pc = "load" /\ workers'[w].job = j
      /\ \A v \in Workers : v # w => workers'[v] = workers[v]
  BY <1>1, <1>4, <1>5 DEF WorkerType, ClaimPendingJob, TypeOK
<1>7. /\ jobs'[j].status = "processing" /\ ~jobs'[j].stale
      /\ jobs'[j].quiz = jobs[j].quiz /\ jobs'[j].strategy = jobs[j].strategy
      /\ \A i \in Jobs : i # j => jobs'[i] = jobs[i]
  BY <1>1, StatusFields DEF ClaimPendingJob
<1>8. JobAt(j) /\ jobs[j].quiz = NoQuiz BY <1>2 DEF QuietOK, JobAt, Early
<1>9. JobAt(j)' BY <1>1, <1>2, <1>7, <1>8, JobMoves
<1>10. QuizzesStay BY <1>1 DEF QuizzesStay, QuizIds
<1>11. Passes(w, j) BY <1>6, <1>7 DEF Passes, HoldingPC
<1>12. SlotAt(w)' BY <1>6, <1>7, <1>8 DEF SlotAt, AfterOcr, HoldingPC, Recorded
<1>. QED BY <1>1, <1>2, <1>3, <1>6, <1>7, <1>9, <1>10, <1>11, <1>12, SlotMoves

\* Layer 2 after somebody other than a slot touched one job, its pages or its uploads.
LEMMA ClientMoves ==
    ASSUME IInv, QuietOK, NEW j \in Jobs,
           jobs'[j] = jobs[j] \/ \A v \in Workers : workers[v].job # j,
           \A i \in Jobs : i # j => jobs'[i] = jobs[i],
           \A i \in Jobs, p \in Pages : i # j => pages'[i][p] = pages[i][p] /\ uploads'[i][p] = uploads[i][p],
           jobs'[j].quiz = jobs[j].quiz, UNCHANGED <<workers, quizzes>>,
           JobAt(j)', \A p \in Pages : UploadAt(j, p)', ChoiceAt'
    PROVE  QuietOK'
<1>1. QuizzesStay BY DEF QuizzesStay, QuizIds
<1>2. \A v \in Workers : SlotAt(v)'
  <2>. SUFFICES ASSUME NEW v \in Workers PROVE SlotAt(v)' OBVIOUS
  <2>1. workers[v].pc # "idle" => workers[v].job \in Jobs BY DEF IInv, Safe, SlotOK, SlotText
  <2>. QED BY <1>1, <2>1, SlotStays DEF QuietOK
<1>3. \A i \in Jobs : JobAt(i)'
  <2>1. ASSUME NEW i \in Jobs, i # j PROVE JobAt(i)' BY <1>1, <2>1, JobStays DEF QuietOK
  <2>. QED BY <2>1
<1>4. \A i \in Jobs, p \in Pages : UploadAt(i, p)'
  <2>1. ASSUME NEW i \in Jobs, NEW p \in Pages, i # j PROVE UploadAt(i, p)'
    BY <2>1 DEF QuietOK, UploadAt, Image
  <2>. QED BY <2>1
<1>5. \A i \in Jobs : jobs'[i].quiz = jobs[i].quiz OBVIOUS
<1>6. \A q \in QuizIds' : DraftOwned(q)'
  BY <1>5 DEF QuietOK, DraftOwned, Holds, QuizIds
<1>7. OneSlotPerJob' BY DEF QuietOK, OneSlotPerJob
<1>. QED BY <1>2, <1>3, <1>4, <1>6, <1>7 DEF QuietOK

\* A slot only works on jobs in process.
LEMMA NotLive ==
    ASSUME QuietOK, NEW j \in Jobs, jobs[j].status \notin {"processing", "ocr_complete"} \/ ~LiveOn(j)
    PROVE  \A v \in Workers : workers[v].job # j
<1>. SUFFICES ASSUME NEW v \in Workers, workers[v].job = j PROVE FALSE OBVIOUS
<1>1. SlotAt(v) BY DEF QuietOK
<1>2. workers[v].pc # "idle" BY <1>1, ScanAssumption DEF SlotAt
<1>3. jobs[j].status \in {"processing", "ocr_complete"} BY <1>1, <1>2 DEF SlotAt
<1>. QED BY <1>3 DEF LiveOn

\* The faults that are excluded do not happen.
LEMMA QuietNever ==
    ASSUME Quiet, BudgetOK, NEW kinds, Spend(kinds), NEW k \in {"reupload", "parallel", "stall", "retry"}
    PROVE  k \notin kinds
<1>1. k \in FaultKinds /\ Budget[k] = 0 BY DEF FaultKinds, Quiet
<1>. QED BY <1>1, Never

\* CreateJob keeps layer 2.
LEMMA CreateJobQuiet ==
    ASSUME IInv, QuietOK, NEW j \in Jobs, CreateJob(j)
    PROVE  QuietOK'
<1>1. /\ TypeOK /\ jobs[j].status = "none"
      /\ UNCHANGED <<pages, objects, quizzes, cache, workers, uploads, choosing>>
  BY DEF IInv, CreateJob, clientVars
<1>2. PICK s : s = (IF j \in Inline THEN "pending" ELSE "uploading") OBVIOUS
<1>4. /\ jobs'[j].status = s /\ jobs'[j].quiz = jobs[j].quiz
      /\ \A i \in Jobs : i # j => jobs'[i] = jobs[i]
  BY <1>1, <1>2, Created
<1>5. \A v \in Workers : workers[v].job # j BY <1>1, NotLive
<1>6. JobAt(j)'
  <2>1. jobs[j].quiz = NoQuiz BY <1>1 DEF QuietOK, JobAt, Early
  <2>. QED BY <1>2, <1>4, <2>1 DEF JobAt, Early
<1>7. ASSUME NEW p \in Pages PROVE UploadAt(j, p)'
  <2>1. UploadAt(j, p) BY DEF QuietOK
  <2>2. uploads[j][p].pc = "idle" BY <1>1, <2>1 DEF UploadAt
  <2>. QED BY <1>1, <2>2 DEF UploadAt
<1>8. ChoiceAt'
  <2>1. \A c \in choosing : c[1] \in Jobs BY <1>1 DEF TypeOK
  <2>. QED BY <1>1, <1>4, <2>1 DEF QuietOK, ChoiceAt
<1>. QED BY <1>1, <1>4, <1>5, <1>6, <1>7, <1>8, ClientMoves

\* CreatePage keeps layer 2.
LEMMA CreatePageQuiet ==
    ASSUME IInv, Once, QuietOK, NEW j \in Jobs, CreatePage(j)
    PROVE  QuietOK'
<1>1. TypeOK /\ UNCHANGED <<jobs, objects, quizzes, cache, workers, uploads, choosing>>
  BY DEF IInv, CreatePage, clientVars
<1>2. PICK p \in Pages : p = Cardinality(PageRows(j)) + 1 BY DEF CreatePage
<1>3. \A i \in Jobs, q \in Pages : <<i, q>> # <<j, p>> => pages'[i][q] = pages[i][q]
  BY <1>1, <1>2 DEF CreatePage, TypeOK
<1>4. pages[j][p].key = NoKey
  <2>1. PICK n \in 0..NPages : PageRows(j) = 1..n BY DEF Once, RowsOnce
  <2>2. Cardinality(1..n) = n BY FS_Interval
  <2>3. p \notin PageRows(j) BY <1>2, <2>1, <2>2
  <2>4. ImageOnce(j, p) BY DEF Once
  <2>. QED BY <2>3, <2>4 DEF ImageOnce, PageRows
<1>5. pages[j][p].key # Image(j, p) BY <1>4, KeysDiffer
<1>6. JobAt(j) /\ \A q \in Pages : UploadAt(j, q) BY DEF QuietOK
<1>7. JobAt(j)' BY <1>1, <1>5, <1>6 DEF JobAt, Image
<1>8. \A q \in Pages : UploadAt(j, q)' BY <1>1, <1>5, <1>6 DEF UploadAt, Image
<1>9. ChoiceAt' BY <1>1 DEF QuietOK, ChoiceAt
<1>. QED BY <1>1, <1>3, <1>7, <1>8, <1>9, ClientMoves

\* An upload that begins keeps layer 2: it finds the job uploading and no other request.
LEMMA PutPageQuiet ==
    ASSUME IInv, Once, QuietOK, Quiet, NEW j \in Jobs, NEW p \in Pages, PutPage(j, p)
    PROVE  QuietOK'
<1>1. TypeOK /\ Budget["reupload"] = 0 /\ BudgetOK BY DEF IInv, Quiet, Once
<1>2. /\ uploads[j][p].n = 0 /\ pages[j][p].key = NoKey /\ PageRows(j) = Pages /\ j \notin Inline
      /\ uploads' = [uploads EXCEPT ![j][p] = [pc |-> "put", n |-> 1]]
      /\ UNCHANGED <<jobs, pages, quizzes, workers, choosing>>
  BY <1>1, FirstUpload
<1>3. \A q \in Pages : uploads[j][q].pc = "idle"
  BY <1>1, QuietNever DEF PutPage
<1>4. uploads'[j][p] = [pc |-> "put", n |-> 1] BY <1>1, <1>2 DEF TypeOK
<1>5. \A i \in Jobs, q \in Pages : <<i, q>> # <<j, p>> => uploads'[i][q] = uploads[i][q] BY <1>1, <1>2 DEF TypeOK
<1>6. jobs[j].status = "uploading"
  <2>1. jobs[j].status # "none"
    <3>1. p \in PageRows(j) BY <1>2
    <3>. QED BY <1>2, <3>1 DEF Once, RowsOnce
  <2>2. pages[j][p].key # Image(j, p) BY <1>2, KeysDiffer
  <2>. QED BY <1>2, <2>1, <2>2 DEF QuietOK, JobAt
<1>7. JobAt(j)' BY <1>2 DEF QuietOK, JobAt, Image
<1>8. \A q \in Pages : UploadAt(j, q)'
  <2>1. UploadAt(j, p)' BY <1>2, <1>3, <1>4, <1>5, <1>6 DEF UploadAt
  <2>2. ASSUME NEW q \in Pages, q # p PROVE UploadAt(j, q)' BY <1>3, <1>5, <2>2 DEF UploadAt
  <2>. QED BY <2>1, <2>2
<1>9. ChoiceAt' BY <1>2 DEF QuietOK, ChoiceAt
<1>. QED BY <1>2, <1>5, <1>7, <1>8, <1>9, ClientMoves

\* MarkPageUploaded keeps layer 2.
LEMMA MarkPageUploadedQuiet ==
    ASSUME IInv, Once, QuietOK, NEW j \in Jobs, NEW p \in Pages, MarkPageUploaded(j, p)
    PROVE  QuietOK'
<1>1. TypeOK /\ pages[j][p] \in PageType BY DEF IInv, TypeOK
<1>2. /\ pages[j][p].key = NoKey
      /\ pages'[j][p] = [pages[j][p] EXCEPT !.upload = "uploaded", !.key = Image(j, p)]
      /\ uploads'[j][p] = [pc |-> "marked", n |-> 1]
      /\ UNCHANGED <<jobs, quizzes, workers, choosing>>
  BY <1>1, Marked
<1>3. \A i \in Jobs, q \in Pages : <<i, q>> # <<j, p>> =>
         pages'[i][q] = pages[i][q] /\ uploads'[i][q] = uploads[i][q]
  BY <1>1, Marked
<1>4. pages'[j][p].key = Image(j, p) BY <1>1, <1>2 DEF PageType
<1>5. uploads[j][p].pc = "put" BY DEF MarkPageUploaded
<1>6. JobAt(j) /\ \A q \in Pages : UploadAt(j, q) BY DEF QuietOK
<1>7. JobAt(j)' BY <1>2, <1>3, <1>4, <1>6 DEF JobAt, Image
<1>8. \A q \in Pages : q # p => uploads'[j][q].pc = "idle" BY <1>3, <1>5, <1>6 DEF UploadAt
<1>9. jobs[j].status = "uploading" BY <1>5, <1>6 DEF UploadAt
<1>10. \A q \in Pages : UploadAt(j, q)'
  <2>1. UploadAt(j, p)' BY <1>2, <1>8, <1>9 DEF UploadAt
  <2>2. ASSUME NEW q \in Pages, q # p PROVE UploadAt(j, q)' BY <1>8, <2>2 DEF UploadAt
  <2>. QED BY <2>1, <2>2
<1>11. ChoiceAt' BY <1>2 DEF QuietOK, ChoiceAt
<1>. QED BY <1>2, <1>3, <1>7, <1>10, <1>11, ClientMoves

\* The end of an upload keeps layer 2: it queues a job that has every page.
LEMMA UploadEndsQuiet ==
    ASSUME IInv, Once, QuietOK, NEW j \in Jobs, NEW p \in Pages,
           \/ UploadFails(j, p) \/ UndoUpload(j, p) \/ CheckAllPagesUploaded(j, p)
           \/ QueueUploadedJob(j, p) \/ AbandonUpload(j, p)
    PROVE  QuietOK'
<1>1. TypeOK /\ uploads[j][p] \in UploadType BY DEF IInv, TypeOK
<1>2. UNCHANGED <<pages, quizzes, workers, choosing>> /\ uploads[j][p].pc # "idle"
  BY DEF UploadFails, UndoUpload, CheckAllPagesUploaded, QueueUploadedJob, AbandonUpload
<1>3. PICK pc : /\ uploads' = [uploads EXCEPT ![j][p].pc = pc]
                /\ \/ pc \in {"idle", "undo"}
                   \/ /\ pc = "ready" /\ CheckAllPagesUploaded(j, p) /\ uploads[j][p].pc = "marked"
                      /\ \A q \in PageRows(j) : pages[j][q].upload = "uploaded"
  BY DEF UploadFails, UndoUpload, CheckAllPagesUploaded, QueueUploadedJob, AbandonUpload
<1>4. uploads'[j][p] = [uploads[j][p] EXCEPT !.pc = pc] BY <1>1, <1>3 DEF TypeOK
<1>5. uploads'[j][p].pc = pc BY <1>1, <1>4 DEF UploadType
<1>6. \A i \in Jobs, q \in Pages : <<i, q>> # <<j, p>> => uploads'[i][q] = uploads[i][q] BY <1>1, <1>3 DEF TypeOK
<1>7. JobAt(j) /\ \A q \in Pages : UploadAt(j, q) BY DEF QuietOK
<1>8. \A q \in Pages : q # p => uploads'[j][q].pc = "idle" BY <1>2, <1>6, <1>7 DEF UploadAt
<1>9. jobs[j].status = "uploading" BY <1>2, <1>7 DEF UploadAt
<1>10. CASE ~QueueUploadedJob(j, p)
  <2>1. UNCHANGED jobs BY <1>10 DEF UploadFails, UndoUpload, CheckAllPagesUploaded, AbandonUpload
  <2>2. JobAt(j)' BY <1>2, <1>7, <2>1 DEF JobAt, Image
  <2>3. ChoiceAt' BY <1>2, <2>1 DEF QuietOK, ChoiceAt
  <2>4. pc = "ready" => \A q \in Pages : pages[j][q].key = Image(j, q)
    <3>. SUFFICES ASSUME pc = "ready" PROVE \A q \in Pages : pages[j][q].key = Image(j, q) OBVIOUS
    <3>1. uploads[j][p].n = 1 BY <1>2 DEF Once, ImageOnce
    <3>2. PageRows(j) = Pages BY <3>1 DEF Once, RowsOnce
    <3>. QED BY <1>3, <3>2 DEF Once, ImageOnce
  <2>5. \A q \in Pages : UploadAt(j, q)'
    <3>1. UploadAt(j, p)' BY <1>2, <1>3, <1>5, <1>8, <1>9, <2>1, <2>4 DEF UploadAt, Image
    <3>2. ASSUME NEW q \in Pages, q # p PROVE UploadAt(j, q)' BY <1>8, <3>2 DEF UploadAt
    <3>. QED BY <3>1, <3>2
  <2>. QED BY <1>2, <1>6, <2>1, <2>2, <2>3, <2>5, ClientMoves
<1>11. CASE QueueUploadedJob(j, p)
  <2>1. UpdateJobStatus(j, "pending") /\ uploads[j][p].pc = "ready" BY <1>11 DEF QueueUploadedJob
  <2>2. /\ jobs'[j].status = "pending" /\ jobs'[j].quiz = jobs[j].quiz
        /\ \A i \in Jobs : i # j => jobs'[i] = jobs[i]
    BY <1>1, <2>1, StatusFields
  <2>3. pc = "idle"
    <3>1. uploads' = [uploads EXCEPT ![j][p].pc = "idle"] BY <1>11 DEF QueueUploadedJob
    <3>2. uploads'[j][p] = [uploads[j][p] EXCEPT !.pc = "idle"] BY <1>1, <3>1 DEF TypeOK
    <3>. QED BY <1>1, <1>5, <3>2 DEF UploadType
  <2>4. \A q \in Pages : pages[j][q].key = Image(j, q) BY <1>7, <2>1 DEF UploadAt
  <2>5. jobs[j].quiz = NoQuiz BY <1>7, <1>9 DEF JobAt, Early
  <2>6. JobAt(j)' BY <1>2, <2>2, <2>4, <2>5 DEF JobAt, Image
  <2>7. \A q \in Pages : UploadAt(j, q)'
    <3>1. \A q \in Pages : uploads'[j][q].pc = "idle" BY <1>5, <1>8, <2>3
    <3>. QED BY <3>1 DEF UploadAt
  <2>8. ChoiceAt'
    <3>1. \A c \in choosing : c[1] \in Jobs BY <1>1 DEF TypeOK
    <3>. QED BY <1>2, <1>9, <2>2, <3>1 DEF QuietOK, ChoiceAt
  <2>9. \A v \in Workers : workers[v].job # j BY <1>9, NotLive
  <2>. QED BY <1>2, <1>6, <2>2, <2>6, <2>7, <2>8, <2>9, ClientMoves
<1>. QED BY <1>10, <1>11

\* SetJobStrategy keeps layer 2: alone, it finds the job as it read it.
LEMMA ChooseQuiet ==
    ASSUME IInv, Once, QuietOK, Quiet, NEW j \in Jobs, NEW s \in Strategies,
           CheckStrategy(j, s) \/ UpdateJobStrategy(j, s)
    PROVE  QuietOK'
<1>1. TypeOK /\ BudgetOK /\ \A c \in choosing : c \in Jobs \X Strategies BY DEF IInv, TypeOK, Once
<1>2. UNCHANGED <<pages, quizzes, workers, uploads>> BY DEF CheckStrategy, UpdateJobStrategy
<1>3. JobAt(j) /\ \A q \in Pages : UploadAt(j, q) BY DEF QuietOK
<1>4. CASE CheckStrategy(j, s)
  <2>1. jobs' = jobs /\ choosing' = choosing \cup {<<j, s>>} /\ jobs[j].status = "needs_strategy"
    BY <1>4 DEF CheckStrategy
  <2>2. \A t \in Strategies : <<j, t>> \notin choosing BY <1>1, <1>4, QuietNever DEF CheckStrategy
  <2>3. \A c \in choosing : c[1] # j BY <1>1, <2>2
  <2>4. ChoiceAt' BY <2>1, <2>3 DEF QuietOK, ChoiceAt
  <2>5. JobAt(j)' /\ \A q \in Pages : UploadAt(j, q)' BY <1>2, <1>3, <2>1 DEF JobAt, UploadAt, Image
  <2>. QED BY <1>2, <2>1, <2>4, <2>5, ClientMoves
<1>5. CASE UpdateJobStrategy(j, s)
  <2>1. jobs[j] \in JobType BY <1>1 DEF TypeOK
  <2>2. jobs'[j] = [jobs[j] EXCEPT !.strategy = s, !.status = "pending", !.stale = FALSE]
    BY <1>1, <1>5 DEF UpdateJobStrategy, TypeOK
  <2>3. /\ jobs'[j].status = "pending" /\ jobs'[j].quiz = jobs[j].quiz
        /\ \A i \in Jobs : i # j => jobs'[i] = jobs[i]
    BY <1>1, <1>5, <2>1, <2>2 DEF JobType, UpdateJobStrategy, TypeOK
  <2>4. choosing' = choosing \ {<<j, s>>} /\ <<j, s>> \in choosing BY <1>5 DEF UpdateJobStrategy
  <2>5. jobs[j].status = "needs_strategy" BY <2>4 DEF QuietOK, ChoiceAt
  <2>6. JobAt(j)' BY <1>2, <1>3, <2>3, <2>5 DEF JobAt, Early, Image
  <2>7. \A q \in Pages : UploadAt(j, q)' BY <1>2, <1>3, <2>5 DEF UploadAt, Image
  <2>8. ChoiceAt'
    <3>1. \A c \in choosing' : c[1] # j BY <2>4 DEF QuietOK, ChoiceAt
    <3>. QED BY <1>1, <2>3, <2>4, <3>1 DEF QuietOK, ChoiceAt
  <2>9. \A v \in Workers : workers[v].job # j BY <2>5, NotLive
  <2>. QED BY <1>2, <2>3, <2>6, <2>7, <2>8, <2>9, ClientMoves
<1>. QED BY <1>4, <1>5

\* Thirty minutes make stale only what no slot has.
LEMMA TimePassesQuiet ==
    ASSUME IInv, Once, QuietOK, Quiet, NEW j \in Jobs, TimePasses(j)
    PROVE  QuietOK'
<1>1. TypeOK /\ BudgetOK /\ jobs[j] \in JobType BY DEF IInv, TypeOK, Once
<1>2. UNCHANGED <<pages, quizzes, workers, uploads, choosing>> BY DEF TimePasses, clientVars
<1>3. ~LiveOn(j) BY <1>1, QuietNever DEF TimePasses
<1>4. jobs'[j] = [jobs[j] EXCEPT !.stale = TRUE] BY <1>1 DEF TimePasses, TypeOK
<1>5. /\ jobs'[j].status = jobs[j].status /\ jobs'[j].quiz = jobs[j].quiz
      /\ jobs'[j].strategy = jobs[j].strategy
      /\ \A i \in Jobs : i # j => jobs'[i] = jobs[i]
  BY <1>1, <1>4 DEF JobType, TimePasses, TypeOK
<1>6. \A v \in Workers : workers[v].job # j BY <1>3, NotLive
<1>7. JobAt(j)' BY <1>2, <1>5 DEF QuietOK, JobAt, Image
<1>8. \A q \in Pages : UploadAt(j, q)' BY <1>2, <1>5 DEF QuietOK, UploadAt, Image
<1>9. ChoiceAt'
  <2>1. \A c \in choosing : c[1] \in Jobs BY <1>1 DEF TypeOK
  <2>2. \A i \in Jobs : jobs'[i].status = jobs[i].status BY <1>5
  <2>. QED BY <1>2, <2>1, <2>2 DEF QuietOK, ChoiceAt
<1>. QED BY <1>2, <1>5, <1>6, <1>7, <1>8, <1>9, ClientMoves

\* Publishing a draft keeps layer 2.
LEMMA PublishDraftQuiet ==
    ASSUME IInv, Once, QuietOK, Quiet, NEW q \in QuizIds, PublishDraft(q)
    PROVE  QuietOK'
<1>1. TypeOK /\ BudgetOK /\ quizzes \in Seq(QuizType) BY DEF IInv, TypeOK, Once
<1>2. UNCHANGED <<pages, workers, uploads, choosing>> BY DEF PublishDraft, clientVars
<1>3. PICK j \in Jobs : jobs[j].quiz = q /\ Spend(IF jobs[j].status = "review_ready" THEN {} ELSE {"parallel"})
  BY DEF PublishDraft
<1>4. jobs[j].status = "review_ready" BY <1>1, <1>3, QuietNever
<1>5. quizzes[q].status = "draft" /\ DraftOwned(q) BY DEF PublishDraft, QuietOK
<1>6. \A i \in Jobs : i # j => jobs[i].quiz # q BY <1>3, <1>5 DEF DraftOwned
<1>7. \A v \in Workers : ~Holds(v, q) BY <1>3, <1>5 DEF DraftOwned
<1>8. \A i \in Jobs : i # j => jobs'[i] = jobs[i] BY <1>6 DEF PublishDraft
<1>9. jobs[j] \in JobType BY <1>1 DEF TypeOK
<1>10. jobs'[j] = [jobs[j] EXCEPT !.status = "quiz_ready", !.stale = FALSE] BY <1>3 DEF PublishDraft
<1>11. jobs'[j].status = "quiz_ready" /\ jobs'[j].quiz = q BY <1>3, <1>9, <1>10 DEF JobType
<1>12. \A r \in QuizIds : quizzes[r] \in QuizType BY <1>1 DEF QuizIds
<1>13. Len(quizzes') = Len(quizzes) /\ quizzes'[q].status = "published"
       /\ \A r \in QuizIds : r # q => quizzes'[r] = quizzes[r]
  <2>1. quizzes' = [quizzes EXCEPT ![q] = [quizzes[q] EXCEPT !.status = "published"]]
    BY <1>1, <1>12 DEF PublishDraft
  <2>2. Len(quizzes') = Len(quizzes) BY <1>1, <2>1
  <2>3. \A r \in QuizIds : r # q => quizzes'[r] = quizzes[r] BY <1>1, <2>1 DEF QuizIds
  <2>4. quizzes'[q] = [quizzes[q] EXCEPT !.status = "published"] BY <1>1, <2>1 DEF QuizIds
  <2>5. quizzes'[q].status = "published" BY <1>12, <2>4 DEF QuizType
  <2>. QED BY <2>2, <2>3, <2>5
<1>14. QuizIds' = QuizIds BY <1>13 DEF QuizIds
<1>15. \A i \in Jobs : jobs'[i].quiz = jobs[i].quiz BY <1>3, <1>8, <1>11
<1>16. \A v \in Workers : workers[v].job # j BY <1>4, NotLive
<1>17. \A v \in Workers : SlotAt(v)'
  <2>. SUFFICES ASSUME NEW v \in Workers PROVE SlotAt(v)' OBVIOUS
  <2>1. SlotAt(v) /\ ~Holds(v, q) BY <1>7 DEF QuietOK
  <2>2. workers[v].pc # "idle" => workers[v].job \in Jobs /\ workers[v].job # j
    BY <1>16 DEF IInv, Safe, SlotOK, SlotText
  <2>3. ASSUME NEW r, NEW mode, r # q, Fits(r, mode) PROVE Fits(r, mode)'
    BY <1>13, <1>14, <2>3 DEF Fits
  <2>4. CASE workers[v].pc = "idle" BY <1>2, <2>1, <2>4 DEF SlotAt
  <2>5. CASE workers[v].pc # "idle"
    <3>1. jobs'[workers[v].job] = jobs[workers[v].job] /\ workers[v].job \in Jobs BY <1>8, <2>2, <2>5
    <3>2. PICK r, u, mode : r = workers[v].quiz /\ u = jobs[workers[v].job].quiz /\ mode = workers[v].mode
      OBVIOUS
    <3>3. workers[v].pc \in HoldingPC => r # q /\ Fits(r, mode) BY <2>1, <2>5, <3>2 DEF SlotAt, Holds
    <3>4. workers[v].pc \in Recorded => u # q /\ Fits(u, mode) BY <1>6, <2>1, <2>2, <2>5, <3>2 DEF SlotAt
    <3>5. /\ workers[v].pc \in HoldingPC => Fits(r, mode)'
          /\ workers[v].pc \in Recorded => Fits(u, mode)'
      BY <2>3, <3>3, <3>4
    <3>6. workers'[v] = workers[v] BY <1>2
    <3>. QED BY <2>1, <2>5, <3>1, <3>2, <3>5, <3>6 DEF SlotAt
  <2>. QED BY <2>4, <2>5
<1>18. \A i \in Jobs : JobAt(i)'
  <2>1. ASSUME NEW i \in Jobs, i # j PROVE JobAt(i)'
    <3>1. JobAt(i) /\ jobs'[i] = jobs[i] /\ jobs[i].quiz # q BY <1>6, <1>8, <2>1 DEF QuietOK
    <3>2. jobs[i].status \in {"quiz_ready", "review_ready"} => jobs[i].quiz \in QuizIds BY QuizIn
    <3>3. jobs[i].status \in {"quiz_ready", "review_ready"} => quizzes'[jobs[i].quiz] = quizzes[jobs[i].quiz]
      BY <1>13, <3>1, <3>2
    <3>. QED BY <1>2, <3>1, <3>3 DEF JobAt, Image
  <2>2. JobAt(j)'
    <3>1. JobAt(j) BY DEF QuietOK
    <3>. QED BY <1>2, <1>4, <1>11, <1>13, <3>1 DEF JobAt, Early, Image
  <2>. QED BY <2>1, <2>2
<1>19. \A i \in Jobs, p \in Pages : UploadAt(i, p)'
  <2>1. ASSUME NEW i \in Jobs, NEW p \in Pages PROVE UploadAt(i, p)'
    <3>1. UploadAt(i, p) BY DEF QuietOK
    <3>2. CASE i = j BY <1>2, <1>4, <3>1, <3>2 DEF UploadAt
    <3>3. CASE i # j BY <1>2, <1>8, <3>1, <3>3 DEF UploadAt, Image
    <3>. QED BY <3>2, <3>3
  <2>. QED BY <2>1
<1>20. ChoiceAt'
  <2>1. \A c \in choosing : c[1] \in Jobs BY <1>1 DEF TypeOK
  <2>2. \A c \in choosing : c[1] # j BY <1>4 DEF QuietOK, ChoiceAt
  <2>. QED BY <1>2, <1>8, <2>1, <2>2 DEF QuietOK, ChoiceAt
<1>21. \A r \in QuizIds' : DraftOwned(r)'
  <2>. SUFFICES ASSUME NEW r \in QuizIds PROVE DraftOwned(r)' BY <1>14
  <2>1. CASE r = q BY <1>13, <2>1 DEF DraftOwned
  <2>2. CASE r # q
    <3>1. DraftOwned(r) /\ quizzes'[r] = quizzes[r] BY <1>13, <2>2 DEF QuietOK
    <3>. QED BY <1>2, <1>15, <3>1 DEF DraftOwned, Holds
  <2>. QED BY <2>1, <2>2
<1>22. OneSlotPerJob' BY <1>2 DEF QuietOK, OneSlotPerJob
<1>. QED BY <1>17, <1>18, <1>19, <1>20, <1>21, <1>22 DEF QuietOK

\* Layer 2 holds at the start.
LEMMA InitQuiet == Init => QuietOK
<1>. SUFFICES ASSUME Init PROVE QuietOK OBVIOUS
<1>1. \A w \in Workers : workers[w].pc = "idle" /\ workers[w].job = NoJob BY DEF Init, IdleWorker
<1>2. \A w \in Workers : SlotAt(w) BY <1>1 DEF SlotAt
<1>3. \A j \in Jobs : JobAt(j) BY DEF Init, JobAt
<1>4. \A j \in Jobs, p \in Pages : UploadAt(j, p) BY DEF Init, UploadAt
<1>5. ChoiceAt BY DEF Init, ChoiceAt
<1>6. QuizIds = {} BY DEF Init, QuizIds
<1>7. OneSlotPerJob BY <1>1 DEF OneSlotPerJob
<1>. QED BY <1>2, <1>3, <1>4, <1>5, <1>6, <1>7 DEF QuietOK

\* Every step of a slot keeps layer 2.
LEMMA WorkerStepQuiet ==
    ASSUME IInv, QuietOK, NEW w \in Workers, WorkerStep(w) \/ WorkerFault(w)
    PROVE  QuietOK'
<1>1. CASE WorkerStep(w)
  <2>1. ASSUME NEW j \in Jobs, ClaimPendingJob(w, j) PROVE QuietOK' BY <2>1, ClaimPendingJobQuiet
  <2>2. CASE LoadJob(w) BY <2>2, LoadJobQuiet
  <2>3. CASE BeginJob(w) BY <2>3, BeginJobQuiet
  <2>4. CASE \/ ListPages(w) \/ NoPageRead(w) \/ LinkQuestion(w) \/ StoreCache(w) \/ FailJobList(w)
             \/ \E k \in workers[w].todo : ReadPage(w, k) \/ SkipPage(w, k)
             \/ \E k \in workers[w].got : DeleteObject(w, k)
    BY <2>4, SamePCs
  <2>5. CASE OcrComplete(w) BY <2>5, OcrCompleteQuiet
  <2>6. CASE SavePipelineText(w) \/ ClearPipelineText(w) \/ UpdateJobQuizID(w) BY <2>6, RowsQuiet
  <2>7. CASE AskStrategy(w) \/ FinishJob(w) \/ FailJob(w) BY <2>7, EndsQuiet
  <2>8. CASE LookupCache(w) BY <2>8, LookupCacheQuiet
  <2>9. CASE CreateQuiz(w) BY <2>9, CreateQuizQuiet
  <2>. QED BY <1>1, <2>1, <2>2, <2>3, <2>4, <2>5, <2>6, <2>7, <2>8, <2>9 DEF WorkerStep
<1>2. CASE WorkerFault(w)
  <2>1. CASE RateLimited(w) BY <2>1, EndsQuiet
  <2>2. CASE WorkerError(w) BY <2>2, SamePCs
  <2>3. CASE WorkerStops(w) BY <2>3, WorkerStopsQuiet DEF WorkerStops, workerFrame
  <2>. QED BY <1>2, <2>1, <2>2, <2>3 DEF WorkerFault
<1>. QED BY <1>1, <1>2

\* Every step keeps layer 2.
LEMMA NextQuiet ==
    ASSUME Quiet, IInv, Once, QuietOK, [Next]_vars
    PROVE  QuietOK'
<1>1. BudgetOK BY DEF Once
<1>2. ASSUME UNCHANGED <<jobs, quizzes, workers, uploads, choosing>>,
             \A j \in Jobs, p \in Pages : pages'[j][p].key = pages[j][p].key
      PROVE  QuietOK'
  <2>1. QuizzesStay BY <1>2 DEF QuizzesStay, QuizIds
  <2>2. \A v \in Workers : SlotAt(v)' BY <1>2, <2>1, SlotStays DEF QuietOK
  <2>3. \A i \in Jobs : JobAt(i)' BY <1>2, <2>1, JobStays DEF QuietOK
  <2>4. \A i \in Jobs, p \in Pages : UploadAt(i, p)' BY <1>2 DEF QuietOK, UploadAt, Image
  <2>5. ChoiceAt' /\ OneSlotPerJob' BY <1>2 DEF QuietOK, ChoiceAt, OneSlotPerJob
  <2>6. \A q \in QuizIds' : DraftOwned(q)' BY <1>2 DEF QuietOK, DraftOwned, Holds, QuizIds
  <2>. QED BY <2>2, <2>3, <2>4, <2>5, <2>6 DEF QuietOK
<1>3. ASSUME NEW j \in Jobs, CreateJob(j) \/ CreatePage(j) PROVE QuietOK'
  BY <1>3, CreateJobQuiet, CreatePageQuiet
<1>4. ASSUME NEW j \in Jobs, NEW p \in Pages, UploadStep(j, p) PROVE QuietOK'
  BY <1>4, PutPageQuiet, MarkPageUploadedQuiet, UploadEndsQuiet DEF UploadStep
<1>5. ASSUME NEW j \in Jobs, NEW s \in Strategies, CheckStrategy(j, s) \/ UpdateJobStrategy(j, s)
      PROVE  QuietOK'
  BY <1>5, ChooseQuiet
<1>6. ASSUME NEW j \in Jobs, RetryJob(j) \/ TimePasses(j) \/ DayPasses(j) PROVE QuietOK'
  <2>1. CASE RetryJob(j) BY <1>1, <2>1, QuietNever DEF RetryJob
  <2>2. CASE TimePasses(j) BY <2>2, TimePassesQuiet
  <2>3. CASE DayPasses(j) BY <1>2, <2>3 DEF DayPasses, clientVars
  <2>. QED BY <1>6, <2>1, <2>2, <2>3
<1>7. ASSUME NEW q \in 1..Len(quizzes), PublishDraft(q) PROVE QuietOK'
  BY <1>7, PublishDraftQuiet DEF QuizIds
<1>8. ASSUME NEW w \in Workers, WorkerStep(w) \/ WorkerFault(w) PROVE QuietOK' BY <1>8, WorkerStepQuiet
<1>9. ASSUME NEW t \in Texts, EvictCache(t) PROVE QuietOK' BY <1>2, <1>9 DEF EvictCache, clientVars
<1>10. CASE CleanupList BY <1>2, <1>10 DEF CleanupList, clientVars
<1>11. ASSUME NEW k \in sweep, CleanupDelete(k) PROVE QuietOK'
  <2>1. \A j \in Jobs, p \in Pages : pages'[j][p].key = pages[j][p].key
    <3>1. PICK j \in Jobs, p \in Pages : k = Image(j, p) BY DEF Once, SweepOnce
    <3>2. k[1] = j /\ k[2] = p BY <3>1 DEF Image
    <3>3. pages \in [Jobs -> [Pages -> PageType]] BY DEF IInv, TypeOK
    <3>. QED BY <1>11, <3>2, <3>3 DEF CleanupDelete, PageType
  <2>. QED BY <1>2, <1>11, <2>1 DEF CleanupDelete, clientVars
<1>12. CASE UNCHANGED vars BY <1>2, <1>12 DEF vars
<1>. QED
  BY <1>3, <1>4, <1>5, <1>6, <1>7, <1>8, <1>9, <1>10, <1>11, <1>12 DEF Next

\* Layer 2 holds in every reachable state, whatever crashes, fails or is refused.
THEOREM QuietInvariance ==
    ASSUME Quiet
    PROVE  Spec => []QuietOK
<1>1. Budget["reupload"] = 0 BY DEF Quiet
<1>2. Spec => []Once BY <1>1, EveryPageOnce
<1>3. IInv /\ Once /\ QuietOK /\ [Next]_vars => QuietOK' BY NextQuiet
<1>. QED BY InitQuiet, Invariance, <1>2, <1>3, PTL DEF Spec

\* No two slots process the same job, also after a crash: the claim (worker_repository.go:33-38)
\* and the 30 minutes keep them apart when no slot stalls and no request overlaps.
THEOREM OneSlotAtATime ==
    ASSUME Quiet
    PROVE  Spec => []OneSlotPerJob
<1>1. QuietOK => OneSlotPerJob BY DEF QuietOK
<1>. QED BY <1>1, QuietInvariance, PTL

\* A job "ready to play" has a published quiz, one "ready for review" a draft, a failed one none,
\* and a job that asks for a strategy has no valid one, whatever the request named
\* (worker.go:268, service.go:198, repository.go:71, review.go:228).
THEOREM StatusesAreTrue ==
    ASSUME Quiet
    PROVE  Spec => []StatusIsTrue
<1>1. QuietOK => StatusIsTrue BY DEF QuietOK, JobAt, StatusIsTrue, Early
<1>. QED BY <1>1, QuietInvariance, PTL

(* ------------------------- a queued job has its input ------------------ *)

\* No image becomes 25 hours old.
NeverOld == Budget["age"] = 0

\* The keys a job refers to are those of its pages.
LEMMA RefShape ==
    ASSUME Once, NEW j \in Jobs
    PROVE  /\ \A k \in PageRefs(j) : \E p \in Pages : pages[j][p].key = k /\ k \in {<<j, p, 0>>, Image(j, p)}
           /\ \A p \in Pages : pages[j][p].key # NoKey => pages[j][p].key \in PageRefs(j)
<1>1. ASSUME NEW k \in PageRefs(j)
      PROVE  \E p \in Pages : pages[j][p].key = k /\ k \in {<<j, p, 0>>, Image(j, p)}
  BY <1>1 DEF PageRefs, PageRows, Once, ImageOnce
<1>2. ASSUME NEW p \in Pages, pages[j][p].key # NoKey PROVE pages[j][p].key \in PageRefs(j)
  BY <1>2 DEF PageRefs, PageRows, Once, ImageOnce
<1>. QED BY <1>1, <1>2

\* What is a stub and whose an image is can be told from the key.
LEMMA StubIsStub ==
    ASSUME NEW j, NEW p
    PROVE  IsStub(<<j, p, 0>>) /\ ~IsStub(Image(j, p)) /\ Image(j, p)[1] = j
BY DEF IsStub, Image

\* Nothing of the job is touched, and no image of it deleted.
Untouched(i) ==
    /\ jobs'[i] = jobs[i]
    /\ \A p \in Pages :
         /\ pages'[i][p] = pages[i][p] /\ uploads'[i][p] = uploads[i][p]
         /\ Image(i, p) \in objects => Image(i, p) \in objects'

\* The pages of an untouched job can be read as before.
LEMMA HereStays ==
    ASSUME Once, NEW i \in Jobs, Untouched(i)
    PROVE  /\ PageRefs(i)' = PageRefs(i) /\ PageRows(i)' = PageRows(i)
           /\ \A k \in PageRefs(i) : Here(k) => k \in objects' \/ IsStub(k)
<1>1. PageRows(i)' = PageRows(i) BY DEF Untouched, PageRows
<1>2. PageRefs(i)' = PageRefs(i)
  <2>1. \A p \in PageRows(i) : pages'[i][p].key = pages[i][p].key BY DEF Untouched, PageRows
  <2>. QED BY <1>1, <2>1 DEF PageRefs
<1>3. ASSUME NEW k \in PageRefs(i), Here(k) PROVE k \in objects' \/ IsStub(k)
  <2>1. PICK p \in Pages : k \in {<<i, p, 0>>, Image(i, p)} BY RefShape
  <2>. QED BY <1>3, <2>1, StubIsStub DEF Here, Untouched
<1>. QED BY <1>1, <1>2, <1>3

\* Layer 3 after a step that touches one job.
LEMMA FedMoves ==
    ASSUME IInv, Once, Fed, NEW j \in Jobs, \A i \in Jobs : i # j => Untouched(i), UNCHANGED <<aged, sweep>>,
           \A v \in Workers : (workers'[v] = workers[v] /\ workers[v].job # j) \/ FedSlot(v)',
           FedJob(j)'
    PROVE  Fed'
<1>1. OldOK' BY DEF Fed, OldOK
<1>2. ASSUME NEW i \in Jobs, i # j PROVE FedJob(i)'
  <2>1. FedJob(i) /\ Untouched(i) BY <1>2 DEF Fed
  <2>2. PageRefs(i)' = PageRefs(i) /\ PageRows(i)' = PageRows(i) BY <2>1, HereStays
  <2>3. \A k \in PageRefs(i) : Here(k) => k \in objects' \/ IsStub(k) BY <2>1, HereStays
  <2>4. jobs'[i] = jobs[i] BY <2>1 DEF Untouched
  <2>5. HasInput(i) => HasInput(i)' BY <2>2, <2>3, <2>4 DEF HasInput, Here, IsStub
  <2>6. ASSUME NEW p \in Pages
        PROVE  /\ uploads'[i][p].pc = "put" => Image(i, p) \in objects'
               /\ jobs'[i].status = "uploading" /\ pages'[i][p].key = Image(i, p) => Image(i, p) \in objects'
    BY <2>1 DEF FedJob, Untouched
  <2>. QED BY <2>1, <2>2, <2>4, <2>5, <2>6 DEF FedJob, Image
<1>3. ASSUME NEW v \in Workers, workers'[v] = workers[v], workers[v].job # j PROVE FedSlot(v)'
  <2>1. FedSlot(v) BY DEF Fed
  <2>2. CASE workers[v].pc = "idle" BY <1>3, <2>1, <2>2 DEF FedSlot
  <2>3. CASE workers[v].pc # "idle"
    <3>1. PICK i \in Jobs : i = workers[v].job BY <2>3 DEF IInv, Safe, SlotOK, SlotText
    <3>2. Untouched(i) BY <1>3, <3>1
    <3>3. PageRefs(i)' = PageRefs(i) BY <3>2, HereStays
    <3>4. \A k \in PageRefs(i) : Here(k) => Here(k)' BY <3>2, HereStays DEF Here, IsStub
    <3>5. jobs'[i] = jobs[i] BY <3>2 DEF Untouched
    <3>6. workers[v].got \subseteq PageRefs(i) BY <2>1, <2>3, <3>1 DEF FedSlot
    <3>7. PageRefs(workers[v].job)' = PageRefs(workers[v].job) BY <1>3, <3>1, <3>3 DEF PageRefs, PageRows
    <3>. QED BY <1>3, <2>1, <2>3, <3>1, <3>4, <3>5, <3>6, <3>7 DEF FedSlot
  <2>. QED BY <2>2, <2>3
<1>. QED BY <1>1, <1>2, <1>3 DEF Fed

\* The images of a job are not of another one.
LEMMA OthersUntouched ==
    ASSUME Once, NEW j \in Jobs, \A i \in Jobs : i # j => jobs'[i] = jobs[i],
           \A i \in Jobs, p \in Pages : i # j => pages'[i][p] = pages[i][p] /\ uploads'[i][p] = uploads[i][p],
           \A k \in objects : k \in objects' \/ k[1] = j
    PROVE  \A i \in Jobs : i # j => Untouched(i)
BY StubIsStub DEF Untouched, Image

\* Layer 3 after a step of one slot on one job.
LEMMA FedStep ==
    ASSUME IInv, Once, QuietOK, QuietOK', Fed, NEW w \in Workers, NEW j \in Jobs,
           jobs[j].status \notin {"none", "uploading"}, jobs'[j].status # "uploading",
           workers[w].job = j \/ workers'[w].job = j,
           \A v \in Workers : v # w => workers'[v] = workers[v],
           \A i \in Jobs : i # j => jobs'[i] = jobs[i],
           UNCHANGED <<pages, uploads, aged, sweep>>, \A k \in objects : k \in objects' \/ k[1] = j,
           jobs'[j].status = "needs_strategy" => jobs'[j].pipeline # NoText,
           jobs'[j].status = "pending" => HasInput(j)', FedSlot(w)'
    PROVE  Fed'
<1>1. \A i \in Jobs : i # j => Untouched(i) BY OthersUntouched
<1>2. j # NoJob BY ScanAssumption
<1>3. \A v \in Workers : v # w => workers[v].job # j
  BY <1>2 DEF QuietOK, OneSlotPerJob
<1>4. FedJob(j)'
  <2>1. \A p \in Pages : uploads[j][p].pc # "put" BY DEF QuietOK, UploadAt
  <2>. QED BY <2>1 DEF FedJob
<1>. QED BY <1>1, <1>3, <1>4, FedMoves

\* A slot that gave its job up needs nothing.
LEMMA IdleFed ==
    ASSUME TypeOK, NEW w \in Workers, Rest(w)
    PROVE  FedSlot(w)' /\ \A v \in Workers : v # w => workers'[v] = workers[v]
<1>1. workers'[w] = IdleWorker /\ \A v \in Workers : v # w => workers'[v] = workers[v] BY DEF Rest, TypeOK
<1>2. workers'[w].pc = "idle" /\ workers'[w].todo = {} /\ workers'[w].got = {} BY <1>1 DEF IdleWorker
<1>. QED BY <1>1, <1>2 DEF FedSlot

\* A slot that goes on needs what its new stage does.
LEMMA BusyFed ==
    ASSUME NEW w \in Workers, NEW j \in Jobs, workers'[w].job = j, UNCHANGED pages,
           workers'[w].pc # "idle", NEW pc, pc = workers'[w].pc,
           NEW todo, todo = workers'[w].todo, NEW got, got = workers'[w].got,
           NEW resumed, resumed = workers'[w].resumed,
           todo \cup got \subseteq PageRefs(j),
           pc \in FeedingPC /\ resumed => jobs'[j].pipeline # NoText,
           pc \in {"ocr", "save", "ask", "lookup", "generate"} /\ ~resumed =>
              \A k \in got : k \in objects' \/ IsStub(k),
           pc \in {"save", "ask", "lookup", "generate"} /\ ~resumed => got # {},
           pc = "ask" => jobs'[j].pipeline # NoText
    PROVE  FedSlot(w)'
<1>1. PageRefs(workers[w].job)' = PageRefs(j) BY DEF PageRefs, PageRows
<1>. QED BY <1>1 DEF FedSlot, Here, IsStub

\* What a slot may rely on while it works.
LEMMA BusyHas ==
    ASSUME IInv, QuietOK, Fed, NEW w \in Workers, workers[w].pc # "idle"
    PROVE  /\ TypeOK /\ FedSlot(w)
           /\ workers[w] \in WorkerType /\ workers[w].job \in Jobs
           /\ jobs[workers[w].job].status \in {"processing", "ocr_complete"}
           /\ workers[w].todo \cup workers[w].got \subseteq PageRefs(workers[w].job)
BY Busy DEF IInv, Fed, FedSlot, QuietOK, SlotAt

\* The four ways a job leaves its slot keep layer 3: it goes back to the queue only from a stage
\* in which its images or its text are still there.
LEMMA GiveUpFed ==
    ASSUME IInv, Once, QuietOK, QuietOK', Fed, NEW w \in Workers,
           AskStrategy(w) \/ RateLimited(w) \/ FinishJob(w) \/ FailJob(w)
    PROVE  Fed'
<1>1. workers[w].pc # "idle" BY DEF AskStrategy, RateLimited, FinishJob, FailJob, ImagesGone
<1>2. PICK j \in Jobs : j = workers[w].job BY <1>1, BusyHas
<1>3. TypeOK /\ FedSlot(w) /\ jobs[j].status \in {"processing", "ocr_complete"} BY <1>1, <1>2, BusyHas
<1>4. UNCHANGED <<objects, pages, uploads, aged, sweep>> /\ Rest(w)
  BY DEF AskStrategy, RateLimited, FinishJob, FailJob, workerFrame
<1>5. FedSlot(w)' /\ \A v \in Workers : v # w => workers'[v] = workers[v] BY <1>3, <1>4, IdleFed
<1>6. PICK s \in {"needs_strategy", "pending", "review_ready", "quiz_ready", "failed"} :
        /\ UpdateJobStatus(j, s)
        /\ s = "needs_strategy" <=> workers[w].pc = "ask"
        /\ s = "pending" <=> workers[w].pc = "generate"
  <2>1. CASE AskStrategy(w) BY <1>2, <2>1 DEF AskStrategy
  <2>2. CASE RateLimited(w) BY <1>2, <2>2 DEF RateLimited
  <2>3. CASE FailJob(w) BY <1>2, <2>3 DEF FailJob
  <2>4. CASE FinishJob(w) BY <1>2, <2>4 DEF FinishJob, FinalJobStatus, ImagesGone
  <2>. QED BY <2>1, <2>2, <2>3, <2>4
<1>7. /\ jobs'[j].status = s /\ jobs'[j].pipeline = jobs[j].pipeline
      /\ \A i \in Jobs : i # j => jobs'[i] = jobs[i]
  BY <1>3, <1>6, StatusFields
<1>8. s = "needs_strategy" => jobs[j].pipeline # NoText
  BY <1>1, <1>2, <1>3, <1>6 DEF FedSlot
<1>9. s = "pending" => HasInput(j)'
  <2>. SUFFICES ASSUME s = "pending" PROVE HasInput(j)' OBVIOUS
  <2>1. workers[w].pc = "generate" BY <1>6
  <2>2. PageRefs(j)' = PageRefs(j) BY <1>4 DEF PageRefs, PageRows
  <2>3. jobs[j].pipeline # NoText \/ \E k \in PageRefs(j) : k \in objects \/ IsStub(k)
    <3>1. CASE workers[w].resumed BY <1>1, <1>2, <1>3, <2>1, <3>1 DEF FedSlot, FeedingPC
    <3>2. CASE ~workers[w].resumed
      <4>1. PICK k : k \in workers[w].got BY <1>1, <1>3, <2>1, <3>2 DEF FedSlot
      <4>2. k \in PageRefs(j) /\ Here(k) BY <1>1, <1>2, <1>3, <2>1, <3>2, <4>1 DEF FedSlot
      <4>. QED BY <4>2 DEF Here
    <3>. QED BY <3>1, <3>2
  <2>. QED BY <1>4, <1>7, <2>2, <2>3 DEF HasInput, IsStub
<1>10. s # "uploading" OBVIOUS
<1>11. jobs[j].status \notin {"none", "uploading"} BY <1>3
<1>. QED BY <1>2, <1>4, <1>5, <1>7, <1>8, <1>9, <1>10, <1>11, FedStep

\* A slot that dies keeps layer 3.
LEMMA StopsFed ==
    ASSUME IInv, Once, QuietOK, QuietOK', Fed, NEW w \in Workers, workers[w].pc # "idle", Rest(w),
           UNCHANGED <<jobs, pages, uploads, objects, aged, sweep>>
    PROVE  Fed'
<1>1. PICK j \in Jobs : j = workers[w].job BY BusyHas
<1>2. TypeOK /\ jobs[j].status \in {"processing", "ocr_complete"} BY <1>1, BusyHas
<1>3. FedSlot(w)' /\ \A v \in Workers : v # w => workers'[v] = workers[v] BY <1>2, IdleFed
<1>4. /\ jobs[j].status \notin {"none", "uploading"} /\ jobs'[j].status # "uploading"
      /\ jobs'[j].status # "needs_strategy" /\ jobs'[j].status # "pending"
  BY <1>2
<1>. QED BY <1>1, <1>3, <1>4, FedStep

\* The claim keeps layer 3.
LEMMA ClaimFed ==
    ASSUME IInv, Once, QuietOK, QuietOK', Fed, NEW w \in Workers, NEW j \in Jobs, ClaimPendingJob(w, j)
    PROVE  Fed'
<1>1. TypeOK /\ workers[w].pc = "idle" /\ UNCHANGED <<pages, uploads, objects, aged, sweep>>
  BY DEF IInv, ClaimPendingJob, workerFrame
<1>2. workers[w] \in WorkerType BY <1>1 DEF TypeOK
<1>3. workers'[w] = [workers[w] EXCEPT !.pc = "load", !.job = j] BY <1>1 DEF ClaimPendingJob, TypeOK
<1>4. /\ workers'[w].pc = "load" /\ workers'[w].job = j
      /\ workers'[w].todo = workers[w].todo /\ workers'[w].got = workers[w].got
      /\ \A v \in Workers : v # w => workers'[v] = workers[v]
  BY <1>1, <1>2, <1>3 DEF WorkerType, ClaimPendingJob, TypeOK
<1>5. /\ jobs'[j].status = "processing" /\ \A i \in Jobs : i # j => jobs'[i] = jobs[i]
  BY <1>1, StatusFields DEF ClaimPendingJob
<1>6. jobs[j].status \in {"pending", "processing"} BY DEF ClaimPendingJob, Claimable
<1>7. workers[w].todo = {} /\ workers[w].got = {} BY <1>1 DEF Fed, FedSlot
<1>8. FedSlot(w)'
  <2>1. PICK pc, todo, got, resumed :
          pc = workers'[w].pc /\ todo = workers'[w].todo /\ got = workers'[w].got /\ resumed = workers'[w].resumed
    OBVIOUS
  <2>2. pc = "load" /\ todo \cup got \subseteq PageRefs(j) BY <1>4, <1>7, <2>1
  <2>. QED BY <1>1, <1>4, <2>1, <2>2, BusyFed DEF FeedingPC
<1>9. jobs[j].status \notin {"none", "uploading"} BY <1>6
<1>10. jobs'[j].status \notin {"uploading", "needs_strategy", "pending"} BY <1>5
<1>. QED BY <1>1, <1>4, <1>5, <1>8, <1>9, <1>10, FedStep

\* Layer 3 after a slot that goes on wrote the row of its job.
LEMMA GoesOnFed ==
    ASSUME IInv, Once, QuietOK, QuietOK', Fed, NEW w \in Workers, workers[w].pc # "idle",
           NEW j \in Jobs, j = workers[w].job,
           \A v \in Workers : v # w => workers'[v] = workers[v],
           \A i \in Jobs : i # j => jobs'[i] = jobs[i],
           jobs'[j].status \in {"processing", "ocr_complete"},
           UNCHANGED <<pages, uploads, aged, sweep>>, \A k \in objects : k \in objects' \/ k[1] = j,
           FedSlot(w)'
    PROVE  Fed'
<1>1. jobs[j].status \in {"processing", "ocr_complete"} BY BusyHas
<1>2. /\ jobs[j].status \notin {"none", "uploading"} /\ jobs'[j].status # "uploading"
      /\ jobs'[j].status # "needs_strategy" /\ jobs'[j].status # "pending"
  BY <1>1
<1>. QED BY <1>2, FedStep

\* Layer 3 after a slot reached a stage that needs no input any more.
LEMMA OffFed ==
    ASSUME IInv, Once, QuietOK, QuietOK', Fed, NEW w \in Workers, workers[w].pc # "idle",
           NEW j \in Jobs, j = workers[w].job, workers'[w].job = j,
           NEW pc, pc = workers'[w].pc, pc # "idle", pc \notin FeedingPC,
           NEW todo, todo = workers'[w].todo, NEW got, got = workers'[w].got,
           todo \cup got \subseteq PageRefs(j),
           \A v \in Workers : v # w => workers'[v] = workers[v],
           \A i \in Jobs : i # j => jobs'[i] = jobs[i], jobs'[j].status = jobs[j].status,
           UNCHANGED <<pages, uploads, aged, sweep>>, \A k \in objects : k \in objects' \/ k[1] = j
    PROVE  Fed'
<1>1. PICK resumed : resumed = workers'[w].resumed OBVIOUS
<1>2. FedSlot(w)' BY <1>1, BusyFed DEF FeedingPC
<1>3. jobs'[j].status \in {"processing", "ocr_complete"} BY BusyHas
<1>. QED BY <1>2, <1>3, GoesOnFed

\* The steps that lead to such a stage keep layer 3.
LEMMA GotoOffFed ==
    ASSUME IInv, Once, QuietOK, QuietOK', Fed, NEW w \in Workers,
           \/ NoPageRead(w) \/ LinkQuestion(w) \/ StoreCache(w) \/ WorkerError(w)
           \/ UpdateJobQuizID(w) \/ ClearPipelineText(w)
           \/ ListPages(w) /\ Goto(w, "failing")
    PROVE  Fed'
<1>1. TypeOK /\ workers[w].pc # "idle" /\ UNCHANGED <<pages, uploads, objects, aged, sweep>>
  BY DEF IInv, NoPageRead, LinkQuestion, StoreCache, WorkerError, UpdateJobQuizID, ClearPipelineText,
     ListPages, ImagesGone, workerFrame
<1>2. PICK j \in Jobs : j = workers[w].job BY <1>1, BusyHas
<1>3. PICK pc : Goto(w, pc) /\ pc # "idle" /\ pc \notin FeedingPC
  <2>1. CASE NoPageRead(w) BY <2>1 DEF NoPageRead, FeedingPC
  <2>2. CASE LinkQuestion(w)
    <3>1. PICK pc \in {"link", "store", "setquiz"} : Goto(w, pc) BY <2>2 DEF LinkQuestion
    <3>. QED BY <3>1 DEF FeedingPC
  <2>3. CASE StoreCache(w) BY <2>3 DEF StoreCache, FeedingPC
  <2>4. CASE WorkerError(w) BY <2>4 DEF WorkerError, FeedingPC
  <2>5. CASE UpdateJobQuizID(w)
    <3>1. PICK pc \in {"delete", "clear"} : Goto(w, pc) BY <2>5 DEF UpdateJobQuizID
    <3>. QED BY <3>1 DEF FeedingPC
  <2>6. CASE ClearPipelineText(w) BY <2>6 DEF ClearPipelineText, FeedingPC
  <2>7. CASE Goto(w, "failing") BY <2>7 DEF FeedingPC
  <2>. QED BY <2>1, <2>2, <2>3, <2>4, <2>5, <2>6, <2>7
<1>4. /\ workers'[w].pc = pc /\ workers'[w].job = j
      /\ workers'[w].todo = workers[w].todo /\ workers'[w].got = workers[w].got
      /\ \A v \in Workers : v # w => workers'[v] = workers[v]
  BY <1>1, <1>2, <1>3, GotoFields
<1>5. jobs'[j].status = jobs[j].status /\ \A i \in Jobs : i # j => jobs'[i] = jobs[i]
  <2>1. CASE UpdateJobQuizID(w) \/ ClearPipelineText(w) BY <1>1, <1>2, <2>1, RowFields
  <2>2. CASE ~(UpdateJobQuizID(w) \/ ClearPipelineText(w))
    BY <2>2 DEF NoPageRead, LinkQuestion, StoreCache, WorkerError, ListPages
  <2>. QED BY <2>1, <2>2
<1>6. PICK todo, got : todo = workers'[w].todo /\ got = workers'[w].got OBVIOUS
<1>7. todo \cup got \subseteq PageRefs(j) BY <1>1, <1>2, <1>4, <1>6, BusyHas
<1>. QED BY <1>1, <1>2, <1>3, <1>4, <1>5, <1>6, <1>7, OffFed

\* An image is deleted only when its job needs none any more.
LEMMA DeletesFed ==
    ASSUME IInv, Once, QuietOK, QuietOK', Fed, NEW w \in Workers, NEW k, DeleteObject(w, k)
    PROVE  Fed'
<1>1. /\ TypeOK /\ workers[w].pc # "idle" /\ UNCHANGED <<jobs, pages, uploads, aged, sweep>>
      /\ workers[w].pc \notin FeedingPC /\ k \in workers[w].got
      /\ objects' \in {objects, objects \ {k}}
  BY DEF IInv, DeleteObject, FeedingPC, workerFrame
<1>2. PICK j \in Jobs : j = workers[w].job BY <1>1, BusyHas
<1>3. workers[w] \in WorkerType /\ workers[w].todo \cup workers[w].got \subseteq PageRefs(j)
  BY <1>1, <1>2, BusyHas
<1>4. workers'[w] = [workers[w] EXCEPT !.got = workers[w].got \ {k}] BY <1>1 DEF DeleteObject, TypeOK
<1>5. /\ workers'[w].pc = workers[w].pc /\ workers'[w].job = j
      /\ workers'[w].todo = workers[w].todo /\ workers'[w].got = workers[w].got \ {k}
      /\ \A v \in Workers : v # w => workers'[v] = workers[v]
  BY <1>1, <1>2, <1>3, <1>4 DEF WorkerType, DeleteObject, TypeOK
<1>6. k[1] = j
  <2>1. PICK p \in Pages : k \in {<<j, p, 0>>, Image(j, p)} BY <1>1, <1>3, RefShape
  <2>. QED BY <2>1 DEF Image
<1>7. PICK pc, todo, got : pc = workers'[w].pc /\ todo = workers'[w].todo /\ got = workers'[w].got OBVIOUS
<1>8. todo \cup got \subseteq PageRefs(j) BY <1>3, <1>5, <1>7
<1>9. pc # "idle" /\ pc \notin FeedingPC BY <1>1, <1>5, <1>7
<1>10. \A o \in objects : o \in objects' \/ o[1] = j BY <1>1, <1>6
<1>. QED BY <1>1, <1>2, <1>5, <1>7, <1>8, <1>9, <1>10, OffFed

\* failJob lists the images in order to delete them.
LEMMA FailListFed ==
    ASSUME IInv, Once, QuietOK, QuietOK', Fed, NEW w \in Workers, FailJobList(w)
    PROVE  Fed'
<1>1. TypeOK /\ workers[w].pc # "idle" /\ UNCHANGED <<jobs, pages, uploads, objects, aged, sweep>>
  BY DEF IInv, FailJobList, workerFrame
<1>2. PICK j \in Jobs : j = workers[w].job BY <1>1, BusyHas
<1>3. workers[w] \in WorkerType /\ workers[w].todo \cup workers[w].got \subseteq PageRefs(j)
  BY <1>1, <1>2, BusyHas
<1>4. PICK refs : refs = PageRefs(j) OBVIOUS
<1>5. workers' = [workers EXCEPT ![w].pc = "faildelete", ![w].got = refs] BY <1>2, <1>4 DEF FailJobList
<1>6. workers'[w] = [workers[w] EXCEPT !.pc = "faildelete", !.got = refs] BY <1>1, <1>5 DEF TypeOK
<1>7. /\ workers'[w].pc = "faildelete" /\ workers'[w].job = j
      /\ workers'[w].todo = workers[w].todo /\ workers'[w].got = refs
      /\ \A v \in Workers : v # w => workers'[v] = workers[v]
  BY <1>1, <1>2, <1>3, <1>5, <1>6 DEF WorkerType, TypeOK
<1>8. PICK pc, todo, got : pc = workers'[w].pc /\ todo = workers'[w].todo /\ got = workers'[w].got OBVIOUS
<1>9. todo \cup got \subseteq PageRefs(j) BY <1>3, <1>4, <1>7, <1>8
<1>10. pc # "idle" /\ pc \notin FeedingPC BY <1>7, <1>8 DEF FeedingPC
<1>. QED BY <1>1, <1>2, <1>7, <1>8, <1>9, <1>10, OffFed

\* Creating the quiz keeps layer 3.
LEMMA CreateQuizFed ==
    ASSUME IInv, Once, QuietOK, QuietOK', Fed, NEW w \in Workers, CreateQuiz(w)
    PROVE  Fed'
<1>1. TypeOK /\ workers[w].pc # "idle" /\ UNCHANGED <<jobs, pages, uploads, objects, aged, sweep>>
  BY DEF IInv, CreateQuiz, workerFrame
<1>2. PICK j \in Jobs : j = workers[w].job BY <1>1, BusyHas
<1>3. workers[w] \in WorkerType /\ workers[w].todo \cup workers[w].got \subseteq PageRefs(j)
  BY <1>1, <1>2, BusyHas
<1>4. PICK q : workers' = [workers EXCEPT ![w].quiz = q, ![w].pc = "link"] BY DEF CreateQuiz
<1>5. workers'[w] = [workers[w] EXCEPT !.quiz = q, !.pc = "link"] BY <1>1, <1>4 DEF TypeOK
<1>6. /\ workers'[w].pc = "link" /\ workers'[w].job = j
      /\ workers'[w].todo = workers[w].todo /\ workers'[w].got = workers[w].got
      /\ \A v \in Workers : v # w => workers'[v] = workers[v]
  BY <1>1, <1>2, <1>3, <1>4, <1>5 DEF WorkerType, TypeOK
<1>7. PICK pc, todo, got : pc = workers'[w].pc /\ todo = workers'[w].todo /\ got = workers'[w].got OBVIOUS
<1>8. todo \cup got \subseteq PageRefs(j) BY <1>3, <1>6, <1>7
<1>9. pc # "idle" /\ pc \notin FeedingPC BY <1>6, <1>7 DEF FeedingPC
<1>. QED BY <1>1, <1>2, <1>6, <1>7, <1>8, <1>9, OffFed

\* The lookup in the cache keeps layer 3.
LEMMA LookupFed ==
    ASSUME IInv, Once, QuietOK, QuietOK', Fed, NEW w \in Workers, LookupCache(w)
    PROVE  Fed'
<1>1. /\ TypeOK /\ FedSlot(w) /\ workers[w].pc = "lookup"
      /\ UNCHANGED <<jobs, pages, uploads, objects, aged, sweep>>
  BY DEF IInv, Fed, LookupCache, workerFrame
<1>2. PICK j \in Jobs : j = workers[w].job BY <1>1, BusyHas
<1>3. /\ workers[w] \in WorkerType /\ workers[w].todo \cup workers[w].got \subseteq PageRefs(j)
      /\ jobs[j].status \in {"processing", "ocr_complete"}
  BY <1>1, <1>2, BusyHas
<1>4. PICK hit, pc : workers' = [workers EXCEPT ![w].quiz = hit, ![w].pc = pc] /\ pc \in {"generate", "hit"}
  BY DEF LookupCache
<1>5. workers'[w] = [workers[w] EXCEPT !.quiz = hit, !.pc = pc] BY <1>1, <1>4 DEF TypeOK
<1>6. /\ workers'[w].pc = pc /\ workers'[w].job = j /\ workers'[w].resumed = workers[w].resumed
      /\ workers'[w].todo = workers[w].todo /\ workers'[w].got = workers[w].got
      /\ \A v \in Workers : v # w => workers'[v] = workers[v]
  BY <1>1, <1>2, <1>3, <1>4, <1>5 DEF WorkerType, TypeOK
<1>7. PICK todo, got, resumed :
        todo = workers'[w].todo /\ got = workers'[w].got /\ resumed = workers'[w].resumed
  OBVIOUS
<1>8. todo \cup got \subseteq PageRefs(j) BY <1>3, <1>6, <1>7
<1>9. resumed => jobs'[j].pipeline # NoText BY <1>1, <1>2, <1>6, <1>7 DEF FedSlot, FeedingPC
<1>10. ~resumed => got # {} /\ \A k \in got : k \in objects' \/ IsStub(k)
  BY <1>1, <1>6, <1>7 DEF FedSlot, Here
<1>11. pc # "idle" /\ pc # "ask" BY <1>4
<1>12. UNCHANGED pages BY <1>1
<1>13. FedSlot(w)' BY <1>6, <1>7, <1>8, <1>9, <1>10, <1>11, <1>12, BusyFed
<1>. QED BY <1>1, <1>2, <1>3, <1>6, <1>13, GoesOnFed

\* Reading the job keeps layer 3: it is resumed only if its text was saved.
LEMMA LoadFed ==
    ASSUME IInv, Once, QuietOK, QuietOK', Fed, NEW w \in Workers, LoadJob(w)
    PROVE  Fed'
<1>1. /\ TypeOK /\ workers[w].pc = "load"
      /\ UNCHANGED <<jobs, pages, uploads, objects, aged, sweep>>
  BY DEF IInv, LoadJob, workerFrame
<1>2. PICK j \in Jobs : j = workers[w].job BY <1>1, BusyHas
<1>3. /\ workers[w] \in WorkerType /\ workers[w].todo \cup workers[w].got \subseteq PageRefs(j)
      /\ jobs[j].status \in {"processing", "ocr_complete"}
  BY <1>1, <1>2, BusyHas
<1>4. CASE Processable(jobs[j].status)
  <2>1. PICK pc, text, resumed, strategy :
          /\ workers' = [workers EXCEPT ![w].pc = pc, ![w].strategy = strategy,
                                        ![w].text = text, ![w].resumed = resumed]
          /\ pc \in {"begin", "list"}
          /\ resumed = (w \notin Vision /\ jobs[j].pipeline # NoText)
    <3>. DEFINE text == IF w \in Vision THEN NoText ELSE jobs[j].pipeline
                resumed == w \notin Vision /\ jobs[j].pipeline # NoText
                pc == IF jobs[j].status = "pending" THEN "begin" ELSE "list"
    <3>1. workers' = [workers EXCEPT ![w].pc = pc, ![w].strategy = jobs[j].strategy,
                                     ![w].text = text, ![w].resumed = resumed]
      BY <1>2, <1>4 DEF LoadJob
    <3>2. pc \in {"begin", "list"} /\ resumed = (w \notin Vision /\ jobs[j].pipeline # NoText) OBVIOUS
    <3>. HIDE DEF pc, text, resumed
    <3>. QED BY <3>1, <3>2
  <2>2. workers'[w] = [workers[w] EXCEPT !.pc = pc, !.strategy = strategy, !.text = text, !.resumed = resumed]
    BY <1>1, <2>1 DEF TypeOK
  <2>3. /\ workers'[w].pc = pc /\ workers'[w].job = j /\ workers'[w].resumed = resumed
        /\ workers'[w].todo = workers[w].todo /\ workers'[w].got = workers[w].got
        /\ \A v \in Workers : v # w => workers'[v] = workers[v]
    BY <1>1, <1>2, <1>3, <2>1, <2>2 DEF WorkerType, TypeOK
  <2>4. PICK todo, got : todo = workers'[w].todo /\ got = workers'[w].got OBVIOUS
  <2>5. todo \cup got \subseteq PageRefs(j) BY <1>3, <2>3, <2>4
  <2>6. pc \notin {"idle", "ocr", "save", "ask", "lookup", "generate"} BY <2>1
  <2>7. resumed => jobs'[j].pipeline # NoText BY <1>1, <2>1
  <2>8. UNCHANGED pages BY <1>1
  <2>9. FedSlot(w)' BY <2>3, <2>4, <2>5, <2>6, <2>7, <2>8, BusyFed
  <2>. QED BY <1>1, <1>2, <1>3, <2>3, <2>9, GoesOnFed
<1>5. CASE ~Processable(jobs[j].status)
  <2>1. Rest(w) BY <1>2, <1>5 DEF LoadJob
  <2>2. workers[w].pc # "idle" BY <1>1
  <2>. QED BY <1>1, <2>1, <2>2, StopsFed
<1>. QED BY <1>4, <1>5

\* The status "processing" keeps layer 3.
LEMMA BeginFed ==
    ASSUME IInv, Once, QuietOK, QuietOK', Fed, NEW w \in Workers, BeginJob(w)
    PROVE  Fed'
<1>1. /\ TypeOK /\ FedSlot(w) /\ workers[w].pc = "begin"
      /\ UNCHANGED <<pages, uploads, objects, aged, sweep>>
  BY DEF IInv, Fed, BeginJob, workerFrame
<1>2. PICK j \in Jobs : j = workers[w].job BY <1>1, BusyHas
<1>3. workers[w].todo \cup workers[w].got \subseteq PageRefs(j) BY <1>1, <1>2, BusyHas
<1>4. Goto(w, "list") /\ UpdateJobStatus(j, "processing") BY <1>2 DEF BeginJob
<1>5. /\ workers'[w].pc = "list" /\ workers'[w].job = j /\ workers'[w].resumed = workers[w].resumed
      /\ workers'[w].todo = workers[w].todo /\ workers'[w].got = workers[w].got
      /\ \A v \in Workers : v # w => workers'[v] = workers[v]
  BY <1>1, <1>2, <1>4, GotoFields
<1>6. /\ jobs'[j].status = "processing" /\ jobs'[j].pipeline = jobs[j].pipeline
      /\ \A i \in Jobs : i # j => jobs'[i] = jobs[i]
  BY <1>1, <1>4, StatusFields
<1>7. PICK pc, todo, got, resumed :
        pc = workers'[w].pc /\ todo = workers'[w].todo /\ got = workers'[w].got /\ resumed = workers'[w].resumed
  OBVIOUS
<1>8. todo \cup got \subseteq PageRefs(j) BY <1>3, <1>5, <1>7
<1>9. pc \notin {"idle", "ocr", "save", "ask", "lookup", "generate"} BY <1>5, <1>7
<1>10. resumed => jobs'[j].pipeline # NoText BY <1>1, <1>2, <1>5, <1>6, <1>7 DEF FedSlot, FeedingPC
<1>11. UNCHANGED pages BY <1>1
<1>12. FedSlot(w)' BY <1>5, <1>7, <1>8, <1>9, <1>10, <1>11, BusyFed
<1>. QED BY <1>1, <1>2, <1>5, <1>6, <1>12, GoesOnFed

\* Listing the pages keeps layer 3.
LEMMA ListFed ==
    ASSUME IInv, Once, QuietOK, QuietOK', Fed, NEW w \in Workers, ListPages(w)
    PROVE  Fed'
<1>1. /\ TypeOK /\ FedSlot(w) /\ workers[w].pc = "list"
      /\ UNCHANGED <<jobs, pages, uploads, objects, aged, sweep>>
  BY DEF IInv, Fed, ListPages, workerFrame
<1>2. PICK j \in Jobs : j = workers[w].job BY <1>1, BusyHas
<1>3. workers[w] \in WorkerType /\ jobs[j].status \in {"processing", "ocr_complete"} BY <1>1, <1>2, BusyHas
<1>4. CASE Goto(w, "failing") BY <1>4, GotoOffFed
<1>5. CASE ~Goto(w, "failing")
  <2>1. PICK todo, got :
          /\ workers' = [workers EXCEPT ![w].pc = "ocr", ![w].todo = todo, ![w].got = got]
          /\ todo = (IF workers[w].resumed THEN {} ELSE PageRefs(j))
          /\ got = (IF workers[w].resumed THEN PageRefs(j) ELSE {})
    BY <1>2, <1>5 DEF ListPages
  <2>2. workers'[w] = [workers[w] EXCEPT !.pc = "ocr", !.todo = todo, !.got = got] BY <1>1, <2>1 DEF TypeOK
  <2>3. /\ workers'[w].pc = "ocr" /\ workers'[w].job = j /\ workers'[w].resumed = workers[w].resumed
        /\ workers'[w].todo = todo /\ workers'[w].got = got
        /\ \A v \in Workers : v # w => workers'[v] = workers[v]
    BY <1>1, <1>2, <1>3, <2>1, <2>2 DEF WorkerType, TypeOK
  <2>4. todo \cup got \subseteq PageRefs(j) BY <2>1
  <2>5. PICK pc, resumed : pc = workers'[w].pc /\ resumed = workers'[w].resumed OBVIOUS
  <2>6. pc \notin {"idle", "save", "ask", "lookup", "generate"} BY <2>3, <2>5
  <2>7. resumed => jobs'[j].pipeline # NoText BY <1>1, <1>2, <2>3, <2>5 DEF FedSlot, FeedingPC
  <2>8. ~resumed => got = {} BY <2>1, <2>3, <2>5
  <2>9. UNCHANGED pages BY <1>1
  <2>10. FedSlot(w)' BY <2>3, <2>4, <2>5, <2>6, <2>7, <2>8, <2>9, BusyFed
  <2>. QED BY <1>1, <1>2, <1>3, <2>3, <2>10, GoesOnFed
<1>. QED BY <1>4, <1>5

\* Reading or skipping a page keeps layer 3.
LEMMA PageFed ==
    ASSUME IInv, Once, QuietOK, QuietOK', Fed, NEW w \in Workers, NEW k, ReadPage(w, k) \/ SkipPage(w, k)
    PROVE  Fed'
<1>1. /\ TypeOK /\ FedSlot(w) /\ workers[w].pc = "ocr" /\ k \in workers[w].todo
      /\ UNCHANGED <<jobs, pages, uploads, objects, aged, sweep>>
  BY DEF IInv, Fed, ReadPage, SkipPage, workerFrame
<1>2. PICK j \in Jobs : j = workers[w].job BY <1>1, BusyHas
<1>3. /\ workers[w] \in WorkerType /\ workers[w].todo \cup workers[w].got \subseteq PageRefs(j)
      /\ jobs[j].status \in {"processing", "ocr_complete"}
  BY <1>1, <1>2, BusyHas
<1>4. PICK todo, got :
        /\ workers' = [workers EXCEPT ![w].todo = todo, ![w].got = got]
        /\ todo = workers[w].todo \ {k}
        /\ got = workers[w].got \/ (got = workers[w].got \cup {k} /\ Readable(w, k))
  <2>1. CASE ReadPage(w, k) BY <1>1, <1>3, <2>1 DEF ReadPage, TypeOK, WorkerType
  <2>2. CASE SkipPage(w, k)
    <3>1. workers' = [workers EXCEPT ![w].todo = workers[w].todo \ {k}] BY <2>2 DEF SkipPage
    <3>2. workers' = [workers EXCEPT ![w].todo = workers[w].todo \ {k}, ![w].got = workers[w].got]
      BY <1>1, <1>3, <3>1 DEF TypeOK, WorkerType
    <3>. QED BY <3>2
  <2>. QED BY <2>1, <2>2
<1>5. workers'[w] = [workers[w] EXCEPT !.todo = todo, !.got = got] BY <1>1, <1>4 DEF TypeOK
<1>6. /\ workers'[w].pc = "ocr" /\ workers'[w].job = j /\ workers'[w].resumed = workers[w].resumed
      /\ workers'[w].todo = todo /\ workers'[w].got = got
      /\ \A v \in Workers : v # w => workers'[v] = workers[v]
  BY <1>1, <1>2, <1>3, <1>4, <1>5 DEF WorkerType, TypeOK
<1>7. todo \cup got \subseteq PageRefs(j) BY <1>1, <1>3, <1>4
<1>8. PICK pc, resumed : pc = workers'[w].pc /\ resumed = workers'[w].resumed OBVIOUS
<1>9. pc \notin {"idle", "save", "ask", "lookup", "generate"} BY <1>6, <1>8
<1>10. resumed => jobs'[j].pipeline # NoText BY <1>1, <1>2, <1>6, <1>8 DEF FedSlot, FeedingPC
<1>11. ~resumed => \A o \in got : o \in objects' \/ IsStub(o)
  BY <1>1, <1>4, <1>6, <1>8 DEF FedSlot, Here, Readable
<1>12. UNCHANGED pages BY <1>1
<1>13. FedSlot(w)' BY <1>6, <1>7, <1>8, <1>9, <1>10, <1>11, <1>12, BusyFed
<1>. QED BY <1>1, <1>2, <1>3, <1>6, <1>13, GoesOnFed

\* The status "ocr_complete" keeps layer 3.
LEMMA OcrCompleteFed ==
    ASSUME IInv, Once, QuietOK, QuietOK', Fed, NEW w \in Workers, OcrComplete(w)
    PROVE  Fed'
<1>1. /\ TypeOK /\ FedSlot(w) /\ workers[w].pc = "ocr" /\ (workers[w].got # {} \/ workers[w].resumed)
      /\ UNCHANGED <<pages, uploads, objects, aged, sweep>>
  BY DEF IInv, Fed, OcrComplete, workerFrame
<1>2. PICK j \in Jobs : j = workers[w].job BY <1>1, BusyHas
<1>3. workers[w] \in WorkerType /\ workers[w].todo \cup workers[w].got \subseteq PageRefs(j)
  BY <1>1, <1>2, BusyHas
<1>4. PICK t, mode, pc :
        /\ workers' = [workers EXCEPT ![w].text = t, ![w].mode = mode, ![w].pc = pc]
        /\ pc = Route(w, mode)
        /\ mode = IF w \in Vision THEN ModeOf[j]
                  ELSE ResolveGenerationMode(PageTypeOf[t], workers[w].strategy)
  <2>1. PICK t : workers' = [workers EXCEPT ![w].text = t,
                     ![w].mode = IF w \in Vision THEN ModeOf[j]
                                 ELSE ResolveGenerationMode(PageTypeOf[t], workers[w].strategy),
                     ![w].pc = Route(w, IF w \in Vision THEN ModeOf[j]
                                        ELSE ResolveGenerationMode(PageTypeOf[t], workers[w].strategy))]
    BY <1>2 DEF OcrComplete
  <2>. QED BY <2>1
<1>15. pc \in {"save", "lookup", "generate"} BY <1>4 DEF Route
<1>5. workers'[w] = [workers[w] EXCEPT !.text = t, !.mode = mode, !.pc = pc] BY <1>1, <1>4 DEF TypeOK
<1>6. /\ workers'[w].pc = pc /\ workers'[w].job = j /\ workers'[w].resumed = workers[w].resumed
      /\ workers'[w].todo = workers[w].todo /\ workers'[w].got = workers[w].got
      /\ \A v \in Workers : v # w => workers'[v] = workers[v]
  BY <1>1, <1>2, <1>3, <1>4, <1>5 DEF WorkerType, TypeOK
<1>7. /\ jobs'[j].status = "ocr_complete" /\ jobs'[j].pipeline = jobs[j].pipeline
      /\ \A i \in Jobs : i # j => jobs'[i] = jobs[i]
  BY <1>1, <1>2, StatusFields DEF OcrComplete
<1>8. PICK todo, got, resumed :
        todo = workers'[w].todo /\ got = workers'[w].got /\ resumed = workers'[w].resumed
  OBVIOUS
<1>9. todo \cup got \subseteq PageRefs(j) BY <1>3, <1>6, <1>8
<1>10. resumed => jobs'[j].pipeline # NoText BY <1>1, <1>2, <1>6, <1>7, <1>8 DEF FedSlot, FeedingPC
<1>11. ~resumed => got # {} /\ \A k \in got : k \in objects' \/ IsStub(k)
  BY <1>1, <1>6, <1>8 DEF FedSlot, Here
<1>12. pc # "idle" /\ pc # "ask" BY <1>15
<1>13. UNCHANGED pages BY <1>1
<1>14. FedSlot(w)' BY <1>6, <1>8, <1>9, <1>10, <1>11, <1>12, <1>13, BusyFed
<1>. QED BY <1>1, <1>2, <1>6, <1>7, <1>14, GoesOnFed

\* Saving the text keeps layer 3.
LEMMA SaveFed ==
    ASSUME IInv, Once, QuietOK, QuietOK', Fed, NEW w \in Workers, SavePipelineText(w)
    PROVE  Fed'
<1>1. /\ TypeOK /\ FedSlot(w) /\ workers[w].pc = "save" /\ SlotText(w)
      /\ UNCHANGED <<pages, uploads, objects, aged, sweep>>
  BY DEF IInv, Safe, SlotOK, Fed, SavePipelineText, workerFrame
<1>2. PICK j \in Jobs : j = workers[w].job BY <1>1, BusyHas
<1>3. /\ workers[w].todo \cup workers[w].got \subseteq PageRefs(j)
      /\ jobs[j].status \in {"processing", "ocr_complete"}
  BY <1>1, <1>2, BusyHas
<1>4. Goto(w, "ask") BY DEF SavePipelineText
<1>5. /\ workers'[w].pc = "ask" /\ workers'[w].job = j /\ workers'[w].resumed = workers[w].resumed
      /\ workers'[w].todo = workers[w].todo /\ workers'[w].got = workers[w].got
      /\ \A v \in Workers : v # w => workers'[v] = workers[v]
  BY <1>1, <1>2, <1>4, GotoFields
<1>6. /\ jobs'[j].status = jobs[j].status /\ jobs'[j].pipeline = workers[w].text
      /\ \A i \in Jobs : i # j => jobs'[i] = jobs[i]
  BY <1>1, <1>2, RowFields
<1>7. jobs'[j].pipeline # NoText
  <2>1. workers[w].text \in TextsOf[j] BY <1>1, <1>2 DEF SlotText
  <2>. QED BY <1>6, <2>1, ScanAssumption
<1>8. PICK pc, todo, got, resumed :
        pc = workers'[w].pc /\ todo = workers'[w].todo /\ got = workers'[w].got /\ resumed = workers'[w].resumed
  OBVIOUS
<1>9. todo \cup got \subseteq PageRefs(j) BY <1>3, <1>5, <1>8
<1>10. ~resumed => got # {} /\ \A k \in got : k \in objects' \/ IsStub(k)
  BY <1>1, <1>5, <1>8 DEF FedSlot, Here
<1>11. pc # "idle" BY <1>5, <1>8
<1>12. UNCHANGED pages BY <1>1
<1>13. FedSlot(w)' BY <1>5, <1>7, <1>8, <1>9, <1>10, <1>11, <1>12, BusyFed
<1>14. jobs'[j].status \in {"processing", "ocr_complete"} BY <1>3, <1>6
<1>. QED BY <1>1, <1>2, <1>5, <1>6, <1>13, <1>14, GoesOnFed

\* Every step of a slot keeps layer 3.
LEMMA WorkerStepFed ==
    ASSUME IInv, Once, QuietOK, Fed, NEW w \in Workers, WorkerStep(w) \/ WorkerFault(w)
    PROVE  Fed'
<1>1. QuietOK' BY WorkerStepQuiet
<1>2. CASE WorkerStep(w)
  <2>1. ASSUME NEW j \in Jobs, ClaimPendingJob(w, j) PROVE Fed' BY <1>1, <2>1, ClaimFed
  <2>2. CASE LoadJob(w) BY <1>1, <2>2, LoadFed
  <2>3. CASE BeginJob(w) BY <1>1, <2>3, BeginFed
  <2>4. CASE ListPages(w) BY <1>1, <2>4, ListFed
  <2>5. ASSUME NEW k, ReadPage(w, k) \/ SkipPage(w, k) PROVE Fed' BY <1>1, <2>5, PageFed
  <2>6. CASE NoPageRead(w) \/ LinkQuestion(w) \/ StoreCache(w) \/ UpdateJobQuizID(w) \/ ClearPipelineText(w)
    BY <1>1, <2>6, GotoOffFed
  <2>7. CASE OcrComplete(w) BY <1>1, <2>7, OcrCompleteFed
  <2>8. CASE SavePipelineText(w) BY <1>1, <2>8, SaveFed
  <2>9. CASE AskStrategy(w) \/ FinishJob(w) \/ FailJob(w) BY <1>1, <2>9, GiveUpFed
  <2>10. CASE LookupCache(w) BY <1>1, <2>10, LookupFed
  <2>11. CASE CreateQuiz(w) BY <1>1, <2>11, CreateQuizFed
  <2>12. ASSUME NEW k, DeleteObject(w, k) PROVE Fed' BY <1>1, <2>12, DeletesFed
  <2>13. CASE FailJobList(w) BY <1>1, <2>13, FailListFed
  <2>. QED
    BY <1>2, <2>1, <2>2, <2>3, <2>4, <2>5, <2>6, <2>7, <2>8, <2>9, <2>10, <2>11, <2>12, <2>13 DEF WorkerStep
<1>3. CASE WorkerFault(w)
  <2>1. CASE RateLimited(w) BY <1>1, <2>1, GiveUpFed
  <2>2. CASE WorkerError(w) BY <1>1, <2>2, GotoOffFed
  <2>3. CASE WorkerStops(w) BY <1>1, <2>3, StopsFed DEF WorkerStops, workerFrame
  <2>. QED BY <1>3, <2>1, <2>2, <2>3 DEF WorkerFault
<1>. QED BY <1>2, <1>3

\* Layer 3 after somebody other than a slot touched one job, its pages or its uploads.
LEMMA FedClient ==
    ASSUME IInv, Once, QuietOK, Fed, NEW j \in Jobs,
           jobs'[j] = jobs[j] \/ \A v \in Workers : workers[v].job # j,
           \A i \in Jobs : i # j => jobs'[i] = jobs[i],
           \A i \in Jobs, p \in Pages : i # j => pages'[i][p] = pages[i][p] /\ uploads'[i][p] = uploads[i][p],
           \A k \in objects : k \in objects' \/ k[1] = j,
           \A v \in Workers : workers[v].job = j => objects \subseteq objects' /\ PageRefs(j) \subseteq PageRefs(j)',
           UNCHANGED <<workers, aged, sweep>>, FedJob(j)'
    PROVE  Fed'
<1>1. \A i \in Jobs : i # j => Untouched(i) BY OthersUntouched
<1>2. ASSUME NEW v \in Workers, workers[v].job = j PROVE FedSlot(v)'
  <2>1. /\ jobs'[j] = jobs[j] /\ objects \subseteq objects' /\ PageRefs(j) \subseteq PageRefs(j)'
        /\ workers'[v] = workers[v] /\ FedSlot(v)
    BY <1>2 DEF Fed
  <2>2. \A k : Here(k) => Here(k)' BY <2>1 DEF Here, IsStub
  <2>3. PageRefs(workers[v].job)' = PageRefs(j)' BY <1>2, <2>1 DEF PageRefs, PageRows
  <2>. QED BY <1>2, <2>1, <2>2, <2>3 DEF FedSlot
<1>. QED BY <1>1, <1>2, FedMoves

\* CreateJob keeps layer 3.
LEMMA CreateJobFed ==
    ASSUME IInv, Once, QuietOK, Fed, NEW j \in Jobs, CreateJob(j)
    PROVE  Fed'
<1>1. /\ TypeOK /\ jobs[j].status = "none" /\ PageRows(j) = {}
      /\ UNCHANGED <<pages, objects, workers, uploads, aged, sweep>>
  BY DEF IInv, CreateJob, clientVars, cleanupVars, Once, RowsOnce
<1>2. PICK s \in {"pending", "uploading"} : s = (IF j \in Inline THEN "pending" ELSE "uploading") OBVIOUS
<1>3. jobs'[j].status = s /\ \A i \in Jobs : i # j => jobs'[i] = jobs[i] BY <1>1, <1>2, Created
<1>4. \A v \in Workers : workers[v].job # j BY <1>1, NotLive
<1>5. PageRows(j)' = {} BY <1>1 DEF PageRows
<1>6. \A p \in Pages : pages[j][p].key = NoKey BY <1>1 DEF Once, ImageOnce, PageRows
<1>7. \A p \in Pages : pages'[j][p].key # Image(j, p) BY <1>1, <1>6, KeysDiffer
<1>8. 1 \in Pages BY ScanAssumption DEF Pages
<1>9. FedJob(j)'
  <2>1. jobs'[j].status # "needs_strategy" BY <1>3
  <2>2. \A p \in Pages : uploads[j][p].pc = "put" => Image(j, p) \in objects BY DEF Fed, FedJob
  <2>3. PageRows(j)' # Pages' BY <1>5, <1>8
  <2>. QED BY <1>1, <1>7, <2>1, <2>2, <2>3 DEF FedJob, Image
<1>. QED BY <1>1, <1>3, <1>4, <1>9, FedClient

\* CreatePage writes a row that was not there.
LEMMA NewRow ==
    ASSUME TypeOK, Once, NEW j \in Jobs, CreatePage(j)
    PROVE  \E p \in Pages : \E key :
              /\ key = (IF j \in Inline THEN <<j, p, 0>> ELSE NoKey)
              /\ pages[j][p].key = NoKey
              /\ pages'[j][p].upload = "pending" /\ pages'[j][p].key = key
              /\ \A i \in Jobs, q \in Pages : <<i, q>> # <<j, p>> => pages'[i][q] = pages[i][q]
<1>1. PICK p \in Pages : p = Cardinality(PageRows(j)) + 1 BY DEF CreatePage
<1>2. PICK key : /\ key = (IF j \in Inline THEN <<j, p, 0>> ELSE NoKey)
                 /\ pages' = [pages EXCEPT ![j][p].upload = "pending", ![j][p].key = key]
  BY <1>1 DEF CreatePage
<1>3. pages[j][p] \in PageType BY DEF TypeOK
<1>4. pages'[j][p] = [pages[j][p] EXCEPT !.upload = "pending", !.key = key] BY <1>2 DEF TypeOK
<1>5. /\ pages'[j][p].upload = "pending" /\ pages'[j][p].key = key
      /\ \A i \in Jobs, q \in Pages : <<i, q>> # <<j, p>> => pages'[i][q] = pages[i][q]
  BY <1>2, <1>3, <1>4 DEF TypeOK, PageType
<1>6. pages[j][p].key = NoKey
  <2>1. PICK n \in 0..NPages : PageRows(j) = 1..n BY DEF Once, RowsOnce
  <2>2. Cardinality(1..n) = n BY FS_Interval
  <2>3. p \notin PageRows(j) BY <1>1, <2>1, <2>2
  <2>4. ImageOnce(j, p) BY DEF Once
  <2>. QED BY <2>3, <2>4 DEF ImageOnce, PageRows
<1>. QED BY <1>2, <1>5, <1>6

\* A job that is queued or in process while its rows are created is one from text: it has its
\* stub as soon as all rows are there.
LEMMA StubThere ==
    ASSUME IInv, Once, QuietOK, NEW j \in Jobs, CreatePage(j),
           jobs[j].status \in {"pending", "processing"}, PageRows(j)' = Pages
    PROVE  HasInput(j)'
<1>1. TypeOK BY DEF IInv
<1>p. PICK p \in Pages : \E key :
        /\ key = (IF j \in Inline THEN <<j, p, 0>> ELSE NoKey)
        /\ pages[j][p].key = NoKey
        /\ pages'[j][p].upload = "pending" /\ pages'[j][p].key = key
  BY <1>1, NewRow
<1>2. PICK key :
        /\ key = (IF j \in Inline THEN <<j, p, 0>> ELSE NoKey)
        /\ pages[j][p].key = NoKey
        /\ pages'[j][p].upload = "pending" /\ pages'[j][p].key = key
  BY <1>p
<1>3. CASE j \in Inline
  <2>1. key = <<j, p, 0>> /\ key # NoKey /\ IsStub(key) BY <1>2, <1>3, KeysDiffer, StubIsStub
  <2>2. key \in PageRefs(j)' BY <1>2, <2>1 DEF PageRefs, PageRows
  <2>. QED BY <2>1, <2>2 DEF HasInput, IsStub
<1>4. CASE j \notin Inline
  <2>1. JobAt(j) BY DEF QuietOK
  <2>2. pages[j][p].key = Image(j, p) BY <1>4, <2>1 DEF JobAt
  <2>. QED BY <1>2, <2>2, KeysDiffer
<1>. QED BY <1>3, <1>4

\* CreatePage keeps layer 3.
LEMMA CreatePageFed ==
    ASSUME IInv, Once, QuietOK, Fed, NEW j \in Jobs, CreatePage(j)
    PROVE  Fed'
<1>1. TypeOK /\ UNCHANGED <<jobs, objects, workers, uploads, aged, sweep>>
  BY DEF IInv, CreatePage, clientVars, cleanupVars
<1>p. PICK p \in Pages : \E key :
        /\ key = (IF j \in Inline THEN <<j, p, 0>> ELSE NoKey)
        /\ pages[j][p].key = NoKey
        /\ pages'[j][p].upload = "pending" /\ pages'[j][p].key = key
        /\ \A i \in Jobs, q \in Pages : <<i, q>> # <<j, p>> => pages'[i][q] = pages[i][q]
  BY <1>1, NewRow
<1>2. PICK key :
        /\ key = (IF j \in Inline THEN <<j, p, 0>> ELSE NoKey)
        /\ pages[j][p].key = NoKey
        /\ pages'[j][p].upload = "pending" /\ pages'[j][p].key = key
        /\ \A i \in Jobs, q \in Pages : <<i, q>> # <<j, p>> => pages'[i][q] = pages[i][q]
  BY <1>p
<1>3. key = (IF j \in Inline THEN <<j, p, 0>> ELSE NoKey) BY <1>2
<1>6. /\ pages'[j][p].upload = "pending" /\ pages'[j][p].key = key
      /\ \A i \in Jobs, q \in Pages : <<i, q>> # <<j, p>> => pages'[i][q] = pages[i][q]
  BY <1>2
<1>7. pages[j][p].key = NoKey BY <1>2
<1>8. PageRefs(j) \subseteq PageRefs(j)'
  <2>. SUFFICES ASSUME NEW k \in PageRefs(j) PROVE k \in PageRefs(j)' OBVIOUS
  <2>1. PICK q \in Pages : pages[j][q].upload # "absent" /\ pages[j][q].key = k /\ k # NoKey
    BY DEF PageRefs, PageRows
  <2>2. q # p BY <1>7, <2>1
  <2>3. pages'[j][q] = pages[j][q] BY <1>6, <2>2
  <2>. QED BY <2>1, <2>3 DEF PageRefs, PageRows
<1>9. FedJob(j)'
  <2>1. FedJob(j) BY DEF Fed
  <2>2. ASSUME jobs'[j].status = "pending", PageRows(j)' = Pages PROVE HasInput(j)'
    BY <1>1, <2>2, StubThere
  <2>3. ASSUME NEW q \in Pages, pages'[j][q].key = Image(j, q) PROVE pages[j][q].key = Image(j, q)
    <3>1. key # Image(j, p) BY <1>3, KeysDiffer
    <3>2. q # p BY <1>6, <2>3, <3>1
    <3>. QED BY <1>6, <2>3, <3>2
  <2>. QED BY <1>1, <2>1, <2>2, <2>3 DEF FedJob, Image
<1>10. \A i \in Jobs, q \in Pages : i # j => pages'[i][q] = pages[i][q] /\ uploads'[i][q] = uploads[i][q]
  BY <1>1, <1>6
<1>. QED BY <1>1, <1>8, <1>9, <1>10, FedClient

\* Storing the image keeps layer 3.
LEMMA PutPageFed ==
    ASSUME IInv, Once, QuietOK, Fed, Quiet, NEW j \in Jobs, NEW p \in Pages, PutPage(j, p)
    PROVE  Fed'
<1>1. TypeOK /\ Budget["reupload"] = 0 BY DEF IInv, Quiet
<1>2. /\ uploads' = [uploads EXCEPT ![j][p] = [pc |-> "put", n |-> 1]]
      /\ objects' = objects \cup {Image(j, p)}
      /\ UNCHANGED <<jobs, pages, workers, aged, sweep>>
  BY <1>1, FirstUpload
<1>3. \A i \in Jobs, q \in Pages : <<i, q>> # <<j, p>> => uploads'[i][q] = uploads[i][q] BY <1>1, <1>2 DEF TypeOK
<1>4. PageRefs(j)' = PageRefs(j) /\ PageRows(j)' = PageRows(j) BY <1>2 DEF PageRefs, PageRows
<1>5. FedJob(j)'
  <2>1. FedJob(j) BY DEF Fed
  <2>2. HasInput(j) => HasInput(j)' BY <1>2, <1>4 DEF HasInput, IsStub
  <2>3. \A q \in Pages : uploads'[j][q].pc = "put" => Image(j, q) \in objects' BY <1>2, <1>3, <2>1 DEF FedJob
  <2>. QED BY <1>2, <1>4, <2>1, <2>2, <2>3 DEF FedJob, Image
<1>6. /\ \A i \in Jobs, q \in Pages : i # j => pages'[i][q] = pages[i][q] /\ uploads'[i][q] = uploads[i][q]
      /\ objects \subseteq objects'
  BY <1>2, <1>3
<1>. QED BY <1>2, <1>4, <1>5, <1>6, FedClient

\* MarkPageUploaded keeps layer 3.
LEMMA MarkFed ==
    ASSUME IInv, Once, QuietOK, Fed, NEW j \in Jobs, NEW p \in Pages, MarkPageUploaded(j, p)
    PROVE  Fed'
<1>1. TypeOK /\ pages[j][p] \in PageType /\ uploads[j][p].pc = "put" BY DEF IInv, TypeOK, MarkPageUploaded
<1>2. /\ pages'[j][p] = [pages[j][p] EXCEPT !.upload = "uploaded", !.key = Image(j, p)]
      /\ uploads'[j][p] = [pc |-> "marked", n |-> 1]
      /\ UNCHANGED <<jobs, objects, workers, aged, sweep>>
  BY <1>1, Marked
<1>3. \A i \in Jobs, q \in Pages : <<i, q>> # <<j, p>> =>
         pages'[i][q] = pages[i][q] /\ uploads'[i][q] = uploads[i][q]
  BY <1>1, Marked
<1>4. jobs[j].status = "uploading" BY <1>1 DEF QuietOK, UploadAt
<1>5. \A v \in Workers : workers[v].job # j BY <1>4, NotLive
<1>6. FedJob(j)'
  <2>1. FedJob(j) BY DEF Fed
  <2>2. Image(j, p) \in objects BY <1>1, <2>1 DEF FedJob
  <2>3. uploads'[j][p].pc # "put" BY <1>2
  <2>. QED BY <1>2, <1>3, <1>4, <2>1, <2>2, <2>3 DEF FedJob, Image
<1>7. \A i \in Jobs, q \in Pages : i # j => pages'[i][q] = pages[i][q] /\ uploads'[i][q] = uploads[i][q]
  BY <1>3
<1>. QED BY <1>2, <1>5, <1>6, <1>7, FedClient

\* The end of an upload keeps layer 3: the job it queues has its images.
LEMMA UploadEndsFed ==
    ASSUME IInv, Once, QuietOK, Fed, NEW j \in Jobs, NEW p \in Pages,
           \/ UploadFails(j, p) \/ UndoUpload(j, p) \/ CheckAllPagesUploaded(j, p)
           \/ QueueUploadedJob(j, p) \/ AbandonUpload(j, p)
    PROVE  Fed'
<1>1. TypeOK /\ uploads[j][p] \in UploadType /\ FedJob(j) BY DEF IInv, TypeOK, Fed
<1>2. UNCHANGED <<pages, workers, aged, sweep>> /\ uploads[j][p].pc # "idle"
  BY DEF UploadFails, UndoUpload, CheckAllPagesUploaded, QueueUploadedJob, AbandonUpload, cleanupVars
<1>3. PICK pc \in {"idle", "undo", "ready"} : uploads' = [uploads EXCEPT ![j][p].pc = pc]
  BY DEF UploadFails, UndoUpload, CheckAllPagesUploaded, QueueUploadedJob, AbandonUpload
<1>4. uploads'[j][p] = [uploads[j][p] EXCEPT !.pc = pc] BY <1>1, <1>3 DEF TypeOK
<1>5. uploads'[j][p].pc # "put" BY <1>1, <1>3, <1>4 DEF UploadType
<1>6. \A i \in Jobs, q \in Pages : <<i, q>> # <<j, p>> => uploads'[i][q] = uploads[i][q] BY <1>1, <1>3 DEF TypeOK
<1>7. jobs[j].status = "uploading" BY <1>2 DEF QuietOK, UploadAt
<1>8. \A v \in Workers : workers[v].job # j BY <1>7, NotLive
<1>9. \A i \in Jobs, q \in Pages : i # j => pages'[i][q] = pages[i][q] /\ uploads'[i][q] = uploads[i][q]
  BY <1>2, <1>6
<1>10. CASE UndoUpload(j, p)
  <2>1. UNCHANGED jobs /\ objects' \in {objects, objects \ {Key(j, p)}} /\ uploads[j][p].pc = "undo"
    BY <1>10 DEF UndoUpload
  <2>2. uploads[j][p].n = 1 /\ pages[j][p].key = NoKey BY <1>2, <2>1 DEF Once, ImageOnce
  <2>3. Key(j, p) = Image(j, p) BY <2>2 DEF Key, Image
  <2>4. \A q \in Pages : q # p => Image(j, q) # Image(j, p) BY DEF Image
  <2>5. Image(j, p)[1] = j BY StubIsStub
  <2>6. FedJob(j)'
    <3>1. ASSUME NEW q \in Pages, pages[j][q].key = Image(j, q) PROVE Image(j, q) \in objects'
      <4>1. q # p BY <2>2, <3>1, KeysDiffer
      <4>. QED BY <1>1, <1>7, <2>1, <2>3, <2>4, <3>1, <4>1 DEF FedJob
    <3>2. ASSUME NEW q \in Pages, uploads'[j][q].pc = "put" PROVE FALSE
      BY <1>5, <1>6, <2>1, <3>2 DEF QuietOK, UploadAt
    <3>. QED BY <1>2, <1>7, <2>1, <3>1, <3>2 DEF FedJob, Image
  <2>. QED BY <1>2, <1>8, <1>9, <2>1, <2>3, <2>5, <2>6, FedClient
<1>11. CASE UploadFails(j, p) \/ CheckAllPagesUploaded(j, p) \/ AbandonUpload(j, p)
  <2>1. UNCHANGED <<jobs, objects>> BY <1>11 DEF UploadFails, CheckAllPagesUploaded, AbandonUpload
  <2>2. FedJob(j)'
    <3>1. \A q \in Pages : uploads'[j][q].pc = "put" => uploads[j][q].pc = "put" BY <1>5, <1>6
    <3>. QED BY <1>1, <1>2, <1>7, <2>1, <3>1 DEF FedJob, Image
  <2>. QED BY <1>2, <1>8, <1>9, <2>1, <2>2, FedClient
<1>12. CASE QueueUploadedJob(j, p)
  <2>1. UpdateJobStatus(j, "pending") /\ uploads[j][p].pc = "ready" /\ UNCHANGED objects
    BY <1>12 DEF QueueUploadedJob
  <2>2. jobs'[j].status = "pending" /\ \A i \in Jobs : i # j => jobs'[i] = jobs[i] BY <1>1, <2>1, StatusFields
  <2>3. pages[j][p].key = Image(j, p) BY <2>1 DEF QuietOK, UploadAt
  <2>4. Image(j, p) \in objects BY <1>1, <1>7, <2>3 DEF FedJob
  <2>5. HasInput(j)'
    <3>1. Image(j, p) \in PageRefs(j) BY <2>3, KeysDiffer, RefShape
    <3>2. PageRefs(j)' = PageRefs(j) BY <1>2 DEF PageRefs, PageRows
    <3>. QED BY <2>1, <2>4, <3>1, <3>2 DEF HasInput
  <2>6. FedJob(j)'
    <3>1. \A q \in Pages : uploads'[j][q].pc = "put" => uploads[j][q].pc = "put" BY <1>5, <1>6
    <3>2. jobs'[j].status # "needs_strategy" /\ jobs'[j].status # "uploading" BY <2>2
    <3>. QED BY <1>1, <2>1, <2>5, <3>1, <3>2 DEF FedJob, Image
  <2>. QED BY <1>2, <1>8, <1>9, <2>1, <2>2, <2>6, FedClient
<1>. QED BY <1>10, <1>11, <1>12

\* The chosen strategy keeps layer 3: the job it queues has its text.
LEMMA ChosenFed ==
    ASSUME IInv, Once, QuietOK, Fed, NEW j \in Jobs, NEW s \in Strategies, UpdateJobStrategy(j, s)
    PROVE  Fed'
<1>1. TypeOK /\ UNCHANGED <<pages, uploads, objects, workers, aged, sweep>>
  BY DEF IInv, UpdateJobStrategy, cleanupVars
<1>2. jobs[j].status = "needs_strategy" BY DEF UpdateJobStrategy, QuietOK, ChoiceAt
<1>3. jobs[j] \in JobType BY <1>1 DEF TypeOK
<1>4. jobs'[j] = [jobs[j] EXCEPT !.strategy = s, !.status = "pending", !.stale = FALSE]
  BY <1>1 DEF UpdateJobStrategy, TypeOK
<1>5. /\ jobs'[j].status = "pending" /\ jobs'[j].pipeline = jobs[j].pipeline
      /\ \A i \in Jobs : i # j => jobs'[i] = jobs[i]
  BY <1>1, <1>3, <1>4 DEF JobType, UpdateJobStrategy, TypeOK
<1>6. \A v \in Workers : workers[v].job # j BY <1>2, NotLive
<1>7. FedJob(j)'
  <2>1. FedJob(j) /\ jobs'[j].pipeline # NoText BY <1>2, <1>5 DEF Fed, FedJob
  <2>2. jobs'[j].status # "needs_strategy" /\ jobs'[j].status # "uploading" BY <1>5
  <2>. QED BY <1>1, <2>1, <2>2 DEF FedJob, HasInput, Image
<1>. QED BY <1>1, <1>5, <1>6, <1>7, FedClient

\* The passing of 30 minutes keeps layer 3.
LEMMA TimeFed ==
    ASSUME IInv, Once, QuietOK, Fed, Quiet, NEW j \in Jobs, TimePasses(j)
    PROVE  Fed'
<1>1. /\ TypeOK /\ BudgetOK /\ jobs[j] \in JobType /\ jobs[j].status = "processing"
      /\ UNCHANGED <<pages, uploads, objects, workers, aged, sweep>>
  BY DEF IInv, TypeOK, Once, TimePasses, clientVars, cleanupVars
<1>2. ~LiveOn(j) BY <1>1, QuietNever DEF TimePasses
<1>3. jobs'[j] = [jobs[j] EXCEPT !.stale = TRUE] BY <1>1 DEF TimePasses, TypeOK
<1>4. jobs'[j].status = "processing" /\ \A i \in Jobs : i # j => jobs'[i] = jobs[i]
  BY <1>1, <1>3 DEF JobType, TimePasses, TypeOK
<1>5. \A v \in Workers : workers[v].job # j BY <1>2, NotLive
<1>6. FedJob(j)'
  <2>1. FedJob(j) BY DEF Fed
  <2>2. /\ jobs'[j].status # "needs_strategy" /\ jobs'[j].status # "uploading"
        /\ jobs'[j].status # "pending"
    BY <1>4
  <2>. QED BY <1>1, <2>1, <2>2 DEF FedJob, Image
<1>. QED BY <1>1, <1>4, <1>5, <1>6, FedClient

\* Publishing a draft keeps layer 3.
LEMMA PublishFed ==
    ASSUME IInv, Once, QuietOK, Fed, Quiet, NEW q \in QuizIds, PublishDraft(q)
    PROVE  Fed'
<1>1. TypeOK /\ BudgetOK /\ UNCHANGED <<pages, uploads, objects, workers, aged, sweep>>
  BY DEF IInv, Once, PublishDraft, clientVars, cleanupVars
<1>2. PICK j \in Jobs : jobs[j].quiz = q /\ Spend(IF jobs[j].status = "review_ready" THEN {} ELSE {"parallel"})
  BY DEF PublishDraft
<1>3. jobs[j].status = "review_ready" BY <1>1, <1>2, QuietNever
<1>4. quizzes[q].status = "draft" /\ DraftOwned(q) BY DEF PublishDraft, QuietOK
<1>5. \A i \in Jobs : i # j => jobs[i].quiz # q BY <1>2, <1>4 DEF DraftOwned
<1>6. \A i \in Jobs : i # j => jobs'[i] = jobs[i] BY <1>5 DEF PublishDraft
<1>7. jobs[j] \in JobType BY <1>1 DEF TypeOK
<1>8. jobs'[j] = [jobs[j] EXCEPT !.status = "quiz_ready", !.stale = FALSE] BY <1>2 DEF PublishDraft
<1>9. jobs'[j].status = "quiz_ready" BY <1>7, <1>8 DEF JobType
<1>10. \A v \in Workers : workers[v].job # j BY <1>3, NotLive
<1>11. FedJob(j)'
  <2>1. FedJob(j) BY DEF Fed
  <2>2. /\ jobs'[j].status # "needs_strategy" /\ jobs'[j].status # "uploading"
        /\ jobs'[j].status # "pending"
    BY <1>9
  <2>. QED BY <1>1, <2>1, <2>2 DEF FedJob, Image
<1>. QED BY <1>1, <1>6, <1>10, <1>11, FedClient

\* Layer 3 stays when nothing it speaks of changes.
LEMMA NothingHappensFed ==
    ASSUME Fed, UNCHANGED <<jobs, pages, objects, workers, uploads, aged, sweep>>
    PROVE  Fed'
<1>1. \A j \in Jobs : PageRefs(j)' = PageRefs(j) /\ PageRows(j)' = PageRows(j) BY DEF PageRefs, PageRows
<1>2. \A j \in Jobs : HasInput(j) => HasInput(j)' BY <1>1 DEF HasInput, IsStub
<1>3. \A j \in Jobs : FedJob(j)' BY <1>1, <1>2 DEF Fed, FedJob, Image
<1>4. ASSUME NEW v \in Workers PROVE FedSlot(v)'
  <2>1. PageRefs(workers[v].job)' = PageRefs(workers[v].job) BY DEF PageRefs, PageRows
  <2>2. FedSlot(v) BY DEF Fed
  <2>. QED BY <2>1, <2>2 DEF FedSlot, Here, IsStub
<1>. QED BY <1>3, <1>4 DEF Fed, OldOK

\* Layer 3 holds at the start.
LEMMA InitFed == Init => Fed
<1>. SUFFICES ASSUME Init PROVE Fed OBVIOUS
<1>1. \A w \in Workers : FedSlot(w) BY DEF Init, IdleWorker, FedSlot
<1>2. \A j \in Jobs : FedJob(j)
  <2>1. \A j \in Jobs : jobs[j].status = "none" BY DEF Init
  <2>2. \A j \in Jobs, p \in Pages : uploads[j][p].pc = "idle" BY DEF Init
  <2>. QED BY <2>1, <2>2 DEF FedJob
<1>. QED BY <1>1, <1>2 DEF Init, Fed, OldOK

\* Every step keeps layer 3.
LEMMA NextFed ==
    ASSUME Quiet, NeverOld, IInv, Once, QuietOK, Fed, [Next]_vars
    PROVE  Fed'
<1>1. BudgetOK /\ OldOK BY DEF Once, Fed
<1>2. ASSUME NEW j \in Jobs, CreateJob(j) \/ CreatePage(j) PROVE Fed'
  BY <1>2, CreateJobFed, CreatePageFed
<1>3. ASSUME NEW j \in Jobs, NEW p \in Pages, UploadStep(j, p) PROVE Fed'
  BY <1>3, PutPageFed, MarkFed, UploadEndsFed DEF UploadStep
<1>4. ASSUME NEW j \in Jobs, NEW s \in Strategies, CheckStrategy(j, s) PROVE Fed'
  BY <1>4, NothingHappensFed DEF CheckStrategy, cleanupVars
<1>5. ASSUME NEW j \in Jobs, NEW s \in Strategies, UpdateJobStrategy(j, s) PROVE Fed' BY <1>5, ChosenFed
<1>6. ASSUME NEW j \in Jobs, RetryJob(j) \/ TimePasses(j) \/ DayPasses(j) PROVE Fed'
  <2>1. CASE RetryJob(j) BY <1>1, <2>1, QuietNever DEF RetryJob
  <2>2. CASE TimePasses(j) BY <2>2, TimeFed
  <2>3. CASE DayPasses(j)
    <3>1. "age" \in FaultKinds /\ Budget["age"] = 0 BY DEF FaultKinds, NeverOld
    <3>. QED BY <1>1, <2>3, <3>1, Never DEF DayPasses
  <2>. QED BY <1>6, <2>1, <2>2, <2>3
<1>7. ASSUME NEW q \in 1..Len(quizzes), PublishDraft(q) PROVE Fed' BY <1>7, PublishFed DEF QuizIds
<1>8. ASSUME NEW w \in Workers, WorkerStep(w) \/ WorkerFault(w) PROVE Fed' BY <1>8, WorkerStepFed
<1>9. ASSUME NEW t \in Texts, EvictCache(t) PROVE Fed'
  BY <1>9, NothingHappensFed DEF EvictCache, clientVars, cleanupVars
<1>10. CASE CleanupList BY <1>1, <1>10 DEF CleanupList, OldOK, Orphans
<1>11. ASSUME NEW k \in sweep, CleanupDelete(k) PROVE Fed' BY <1>1, <1>11 DEF OldOK
<1>12. CASE UNCHANGED vars BY <1>12, NothingHappensFed DEF vars
<1>. QED
  BY <1>2, <1>3, <1>4, <1>5, <1>6, <1>7, <1>8, <1>9, <1>10, <1>11, <1>12 DEF Next

\* Layer 3 holds in every reachable state.
LEMMA FedInvariance ==
    ASSUME Quiet, NeverOld
    PROVE  Spec => []Fed
<1>1. Budget["reupload"] = 0 BY DEF Quiet
<1>2. Spec => []Once BY <1>1, EveryPageOnce
<1>3. Spec => []QuietOK BY QuietInvariance
<1>4. IInv /\ Once /\ QuietOK /\ Fed /\ [Next]_vars => Fed' BY NextFed
<1>. QED BY InitFed, Invariance, <1>2, <1>3, <1>4, PTL DEF Spec

(* ------------------------ so has a job in process ---------------------- *)

\* Layer 3 says of the stages before the deletion what a slot still has; what it leaves behind
\* if it stops follows here.
LEMMA KeptMoves ==
    ASSUME Kept, broken \subseteq broken',
           \A w \in Workers : workers'[w].pc # "begin",
           \A j \in Jobs : jobs'[j].status = "processing" /\ PageRows(j)' = Pages =>
               \/ HasInput(j)'
               \/ Spoiled(j)'
    PROVE  Kept'
BY DEF Kept, Pages

\* The pages of a job can be read as before when no image goes.
LEMMA InputStays ==
    ASSUME NEW j \in Jobs, UNCHANGED pages, objects \subseteq objects',
           jobs'[j].pipeline = jobs[j].pipeline
    PROVE  (HasInput(j) => HasInput(j)') /\ PageRows(j)' = PageRows(j)
<1>1. PageRefs(j)' = PageRefs(j) /\ PageRows(j)' = PageRows(j) BY DEF PageRefs, PageRows
<1>. QED BY <1>1 DEF HasInput, IsStub

\* A step in which no image goes, and in which jobs become or stay "processing" with what they
\* have, keeps what they have.
LEMMA KeptRests ==
    ASSUME Fed, Kept, broken \subseteq broken', UNCHANGED pages, objects \subseteq objects',
           \A w \in Workers : workers'[w].pc # "begin",
           \A j \in Jobs : jobs'[j].status = "processing" =>
               /\ jobs[j].status \in {"pending", "processing"}
               /\ jobs'[j].pipeline = jobs[j].pipeline
               /\ jobs[j].status = "processing" /\ Spoiled(j) => Spoiled(j)'
    PROVE  Kept'
<1>1. ASSUME NEW j \in Jobs, jobs'[j].status = "processing", PageRows(j)' = Pages
      PROVE  HasInput(j)' \/ Spoiled(j)'
  <2>1. (HasInput(j) => HasInput(j)') /\ PageRows(j)' = PageRows(j) BY <1>1, InputStays
  <2>2. HasInput(j) \/ (jobs[j].status = "processing" /\ Spoiled(j))
    BY <1>1, <2>1 DEF Fed, FedJob, Kept
  <2>. QED BY <1>1, <2>1, <2>2
<1>. QED BY <1>1, KeptMoves

\* The same for a step of one slot on one job: only its end forgets that it was deleting.
LEMMA KeptSlot ==
    ASSUME Fed, Kept, NEW w \in Workers, NEW j \in Jobs,
           workers[w].pc = "faildelete" => workers[w].job = j /\ jobs'[j].status # "processing",
           workers'[w].pc # "begin",
           \A v \in Workers : v # w => workers'[v] = workers[v],
           \A i \in Jobs : i # j => jobs'[i] = jobs[i],
           jobs'[j].status = "processing" =>
               jobs[j].status \in {"pending", "processing"} /\ jobs'[j].pipeline = jobs[j].pipeline,
           UNCHANGED <<pages, objects, broken>>
    PROVE  Kept'
<1>1. \A v \in Workers : workers'[v].pc # "begin" BY DEF Kept
<1>2. ASSUME NEW i \in Jobs, jobs'[i].status = "processing", Spoiled(i) PROVE Spoiled(i)'
  <2>1. CASE i \in broken BY <2>1 DEF Spoiled
  <2>2. ASSUME NEW v \in Workers, workers[v].job = i, workers[v].pc = "faildelete" PROVE Spoiled(i)'
    <3>1. v # w BY <1>2, <2>2
    <3>2. workers'[v] = workers[v] BY <3>1
    <3>. QED BY <2>2, <3>2 DEF Spoiled
  <2>. QED BY <1>2, <2>1, <2>2 DEF Spoiled
<1>. QED BY <1>1, <1>2, KeptRests

\* A slot that goes to another stage, or back to the pool, is not at the forbidden one.
LEMMA NeverBegins ==
    ASSUME IInv, QuietOK, Kept, NEW w \in Workers, WorkerStep(w) \/ WorkerFault(w)
    PROVE  workers'[w].pc # "begin" /\ ~BeginJob(w)
<1>. SUFFICES workers'[w].pc # "begin" BY DEF Kept, BeginJob
<1>0. TypeOK /\ ~BeginJob(w) BY DEF IInv, Kept, BeginJob
<1>1. ASSUME NEW pc, Goto(w, pc), pc # "begin" PROVE workers'[w].pc # "begin"
  BY <1>0, <1>1, GotoFields
<1>2. ASSUME Rest(w) PROVE workers'[w].pc # "begin"
  <2>1. workers'[w] = IdleWorker BY <1>0, <1>2 DEF Rest, TypeOK
  <2>. QED BY <2>1 DEF IdleWorker
<1>3. workers[w] \in WorkerType BY <1>0 DEF TypeOK
<1>4. CASE LoadJob(w)
  <2>1. workers[w].pc # "idle" /\ SlotAt(w) BY <1>4 DEF LoadJob, QuietOK
  <2>2. jobs[workers[w].job].status # "pending" BY <2>1 DEF SlotAt
  <2>3. CASE Processable(jobs[workers[w].job].status)
    <3>1. PICK a, b, c : workers' = [workers EXCEPT ![w].pc = "list", ![w].strategy = a,
                                                    ![w].text = b, ![w].resumed = c]
      <4>. DEFINE a == jobs[workers[w].job].strategy
                  b == IF w \in Vision THEN NoText ELSE jobs[workers[w].job].pipeline
                  c == w \notin Vision /\ jobs[workers[w].job].pipeline # NoText
                  pc == IF jobs[workers[w].job].status = "pending" THEN "begin" ELSE "list"
      <4>1. workers' = [workers EXCEPT ![w].pc = pc, ![w].strategy = a, ![w].text = b, ![w].resumed = c]
        BY <1>4, <2>3 DEF LoadJob
      <4>2. pc = "list" BY <2>2
      <4>. HIDE DEF pc, a, b, c
      <4>. QED BY <4>1, <4>2
    <3>2. workers'[w] = [workers[w] EXCEPT !.pc = "list", !.strategy = a, !.text = b, !.resumed = c]
      BY <1>0, <3>1 DEF TypeOK
    <3>. QED BY <1>3, <3>2 DEF WorkerType
  <2>4. CASE ~Processable(jobs[workers[w].job].status)
    <3>1. Rest(w) BY <1>4, <2>4 DEF LoadJob
    <3>. QED BY <1>2, <3>1
  <2>. QED BY <2>3, <2>4
<1>5. CASE ListPages(w)
  <2>1. CASE Goto(w, "failing") BY <1>1, <2>1
  <2>2. CASE ~Goto(w, "failing")
    <3>1. PICK a, b : workers' = [workers EXCEPT ![w].pc = "ocr", ![w].todo = a, ![w].got = b]
      BY <1>5, <2>2 DEF ListPages
    <3>2. workers'[w] = [workers[w] EXCEPT !.pc = "ocr", !.todo = a, !.got = b] BY <1>0, <3>1 DEF TypeOK
    <3>. QED BY <1>3, <3>2 DEF WorkerType
  <2>. QED BY <2>1, <2>2
<1>6. ASSUME NEW j \in Jobs, ClaimPendingJob(w, j) PROVE workers'[w].pc # "begin"
  <2>1. workers'[w] = [workers[w] EXCEPT !.pc = "load", !.job = j] BY <1>0, <1>6 DEF ClaimPendingJob, TypeOK
  <2>. QED BY <1>3, <2>1 DEF WorkerType
<1>7. ASSUME NEW k, ReadPage(w, k) \/ SkipPage(w, k) \/ DeleteObject(w, k) PROVE workers'[w].pc # "begin"
  <2>1. PICK a, b : workers'[w] = [workers[w] EXCEPT !.todo = a, !.got = b]
    <3>1. CASE ReadPage(w, k) BY <1>0, <1>3, <3>1 DEF ReadPage, TypeOK, WorkerType
    <3>2. CASE SkipPage(w, k)
      <4>1. workers'[w] = [workers[w] EXCEPT !.todo = @ \ {k}] BY <1>0, <3>2 DEF SkipPage, TypeOK
      <4>2. workers'[w] = [workers[w] EXCEPT !.todo = workers[w].todo \ {k}, !.got = workers[w].got]
        BY <1>3, <4>1 DEF WorkerType
      <4>. QED BY <4>2
    <3>3. CASE DeleteObject(w, k)
      <4>1. workers'[w] = [workers[w] EXCEPT !.got = @ \ {k}] BY <1>0, <3>3 DEF DeleteObject, TypeOK
      <4>2. workers'[w] = [workers[w] EXCEPT !.todo = workers[w].todo, !.got = workers[w].got \ {k}]
        BY <1>3, <4>1 DEF WorkerType
      <4>. QED BY <4>2
    <3>. QED BY <1>7, <3>1, <3>2, <3>3
  <2>2. workers[w].pc # "begin" BY DEF Kept
  <2>. QED BY <1>3, <2>1, <2>2 DEF WorkerType
<1>8. CASE OcrComplete(w)
  <2>1. PICK a, b, c : workers' = [workers EXCEPT ![w].text = a, ![w].mode = b, ![w].pc = c] /\ c = Route(w, b)
    <3>1. PICK t : workers' = [workers EXCEPT ![w].text = t,
                     ![w].mode = IF w \in Vision THEN ModeOf[workers[w].job]
                                 ELSE ResolveGenerationMode(PageTypeOf[t], workers[w].strategy),
                     ![w].pc = Route(w, IF w \in Vision THEN ModeOf[workers[w].job]
                                        ELSE ResolveGenerationMode(PageTypeOf[t], workers[w].strategy))]
      BY <1>8 DEF OcrComplete
    <3>. QED BY <3>1
  <2>2. workers'[w] = [workers[w] EXCEPT !.text = a, !.mode = b, !.pc = c] BY <1>0, <2>1 DEF TypeOK
  <2>3. c \in {"save", "lookup", "generate"} BY <2>1 DEF Route
  <2>. QED BY <1>3, <2>2, <2>3 DEF WorkerType
<1>9. CASE LookupCache(w) \/ CreateQuiz(w)
  <2>1. PICK q, pc : workers' = [workers EXCEPT ![w].quiz = q, ![w].pc = pc] /\ pc \in {"generate", "hit", "link"}
    <3>1. CASE CreateQuiz(w)
      <4>1. PICK q : workers' = [workers EXCEPT ![w].quiz = q, ![w].pc = "link"] BY <3>1 DEF CreateQuiz
      <4>. QED BY <4>1
    <3>2. CASE LookupCache(w)
      <4>1. PICK q, pc : workers' = [workers EXCEPT ![w].quiz = q, ![w].pc = pc] /\ pc \in {"generate", "hit"}
        BY <3>2 DEF LookupCache
      <4>. QED BY <4>1
    <3>. QED BY <1>9, <3>1, <3>2
  <2>2. workers'[w] = [workers[w] EXCEPT !.quiz = q, !.pc = pc] BY <1>0, <2>1 DEF TypeOK
  <2>3. pc # "begin" BY <2>1
  <2>4. workers'[w].pc = pc BY <1>3, <2>2 DEF WorkerType
  <2>. QED BY <2>3, <2>4
<1>10. CASE \/ NoPageRead(w) \/ SavePipelineText(w) \/ LinkQuestion(w) \/ StoreCache(w)
            \/ UpdateJobQuizID(w) \/ ClearPipelineText(w) \/ WorkerError(w)
  <2>1. PICK pc : Goto(w, pc) /\ pc # "begin"
    BY <1>10 DEF NoPageRead, SavePipelineText, LinkQuestion, StoreCache, UpdateJobQuizID, ClearPipelineText,
                 WorkerError
  <2>. QED BY <1>1, <2>1
<1>11. CASE AskStrategy(w) \/ RateLimited(w) \/ FinishJob(w) \/ FailJob(w) \/ WorkerStops(w)
  <2>1. Rest(w) BY <1>11 DEF AskStrategy, RateLimited, FinishJob, FailJob, WorkerStops
  <2>. QED BY <1>2, <2>1
<1>12. CASE FailJobList(w)
  <2>1. PICK a : workers' = [workers EXCEPT ![w].pc = "faildelete", ![w].got = a] BY <1>12 DEF FailJobList
  <2>2. workers'[w] = [workers[w] EXCEPT !.pc = "faildelete", !.got = a] BY <1>0, <2>1 DEF TypeOK
  <2>. QED BY <1>3, <2>2 DEF WorkerType
<1>. QED
  BY <1>0, <1>4, <1>5, <1>6, <1>7, <1>8, <1>9, <1>10, <1>11, <1>12 DEF WorkerStep, WorkerFault

\* A step of a slot changes the local variables of that slot only.
LEMMA SlotOnly ==
    ASSUME TypeOK, NEW w \in Workers, WorkerStep(w) \/ WorkerFault(w)
    PROVE  \A v \in Workers : v # w => workers'[v] = workers[v]
<1>1. ASSUME NEW j \in Jobs, ClaimPendingJob(w, j) PROVE \A v \in Workers : v # w => workers'[v] = workers[v]
  BY <1>1 DEF ClaimPendingJob, TypeOK
<1>2. ASSUME NEW k, ReadPage(w, k) \/ SkipPage(w, k) \/ DeleteObject(w, k)
      PROVE  \A v \in Workers : v # w => workers'[v] = workers[v]
  BY <1>2 DEF ReadPage, SkipPage, DeleteObject, TypeOK
<1>3. CASE \/ LoadJob(w) \/ ListPages(w) \/ LookupCache(w) \/ CreateQuiz(w) \/ FailJobList(w)
  BY <1>3 DEF LoadJob, ListPages, LookupCache, CreateQuiz, FailJobList, TypeOK, Goto, Rest
<1>4. CASE OcrComplete(w) BY <1>4 DEF OcrComplete, TypeOK
<1>5. CASE \/ BeginJob(w) \/ NoPageRead(w) \/ SavePipelineText(w) \/ LinkQuestion(w) \/ StoreCache(w)
           \/ UpdateJobQuizID(w) \/ ClearPipelineText(w) \/ WorkerError(w)
  <2>1. PICK pc : Goto(w, pc)
    BY <1>5 DEF BeginJob, NoPageRead, SavePipelineText, LinkQuestion, StoreCache, UpdateJobQuizID,
                ClearPipelineText, WorkerError
  <2>. QED BY <2>1 DEF Goto, TypeOK
<1>6. CASE AskStrategy(w) \/ RateLimited(w) \/ FinishJob(w) \/ FailJob(w) \/ WorkerStops(w)
  <2>1. Rest(w) BY <1>6 DEF AskStrategy, RateLimited, FinishJob, FailJob, WorkerStops
  <2>. QED BY <2>1 DEF Rest, TypeOK
<1>. QED BY <1>1, <1>2, <1>3, <1>4, <1>5, <1>6 DEF WorkerStep, WorkerFault

\* Every step of a slot keeps what a job in process has.
LEMMA WorkerStepKept ==
    ASSUME IInv, Once, QuietOK, Fed, Kept, NEW w \in Workers, WorkerStep(w) \/ WorkerFault(w)
    PROVE  Kept'
<1>0. TypeOK /\ workers'[w].pc # "begin" /\ ~BeginJob(w) BY NeverBegins DEF IInv
<1>2. UNCHANGED pages /\ \A v \in Workers : v # w => workers'[v] = workers[v] BY <1>0, SlotOnly, SlotFrame
<1>3. ASSUME NEW j \in Jobs, ClaimPendingJob(w, j) PROVE Kept'
  <2>1. UNCHANGED <<objects, broken>> /\ workers[w].pc = "idle" BY <1>3 DEF ClaimPendingJob, workerFrame
  <2>2. jobs[j].status \in {"pending", "processing"} BY <1>3 DEF ClaimPendingJob, Claimable
  <2>3. jobs'[j].pipeline = jobs[j].pipeline /\ \A i \in Jobs : i # j => jobs'[i] = jobs[i]
    BY <1>0, <1>3, StatusFields DEF ClaimPendingJob
  <2>. QED BY <1>0, <1>2, <2>1, <2>2, <2>3, KeptSlot
<1>4. ASSUME workers[w].pc # "idle" PROVE workers[w].job \in Jobs /\ SlotAt(w)
  BY <1>4, BusyHas DEF QuietOK
<1>5. CASE /\ UNCHANGED <<jobs, objects, broken>>
           /\ workers[w].pc \notin {"idle", "faildelete"}
  <2>1. PICK j \in Jobs : j = workers[w].job BY <1>4, <1>5
  <2>2. jobs[j].status \in {"processing", "ocr_complete"} BY <1>4, <1>5, <2>1 DEF SlotAt
  <2>. QED BY <1>0, <1>2, <1>5, <2>2, KeptSlot
<1>6. CASE AskStrategy(w) \/ RateLimited(w) \/ FinishJob(w) \/ FailJob(w) \/ OcrComplete(w)
  <2>1. UNCHANGED <<objects, broken>> /\ workers[w].pc # "idle"
    BY <1>6 DEF AskStrategy, RateLimited, FinishJob, FailJob, OcrComplete, ImagesGone, workerFrame
  <2>2. PICK j \in Jobs : j = workers[w].job BY <1>4, <2>1
  <2>3. PICK s : UpdateJobStatus(j, s) /\ s # "processing"
    <3>1. CASE AskStrategy(w) BY <2>2, <3>1 DEF AskStrategy
    <3>2. CASE RateLimited(w) BY <2>2, <3>2 DEF RateLimited
    <3>3. CASE FinishJob(w) BY <2>2, <3>3 DEF FinishJob, FinalJobStatus
    <3>4. CASE FailJob(w) BY <2>2, <3>4 DEF FailJob
    <3>5. CASE OcrComplete(w) BY <2>2, <3>5 DEF OcrComplete
    <3>. QED BY <1>6, <3>1, <3>2, <3>3, <3>4, <3>5
  <2>4. jobs'[j].status # "processing" /\ \A i \in Jobs : i # j => jobs'[i] = jobs[i]
    BY <1>0, <2>3, StatusFields
  <2>. QED BY <1>0, <1>2, <2>1, <2>2, <2>4, KeptSlot
<1>7. CASE SavePipelineText(w) \/ UpdateJobQuizID(w) \/ ClearPipelineText(w)
  <2>1. /\ UNCHANGED <<objects, broken>> /\ workers[w].pc \notin {"idle", "faildelete"}
        /\ workers[w].pc \in AfterOcr
    BY <1>7 DEF SavePipelineText, UpdateJobQuizID, ClearPipelineText, ImagesGone, workerFrame, AfterOcr
  <2>2. PICK j \in Jobs : j = workers[w].job BY <1>4, <2>1
  <2>3. jobs[j].status = "ocr_complete" BY <1>4, <2>1, <2>2 DEF SlotAt
  <2>4. jobs'[j].status = jobs[j].status /\ \A i \in Jobs : i # j => jobs'[i] = jobs[i]
    BY <1>0, <1>7, <2>2, RowFields
  <2>. QED BY <1>0, <1>2, <2>1, <2>3, <2>4, KeptSlot
<1>8. ASSUME NEW k, DeleteObject(w, k) PROVE Kept'
  <2>1. /\ UNCHANGED <<jobs, broken>> /\ workers[w].pc \in {"delete", "hit", "faildelete"}
        /\ k \in workers[w].got /\ objects' \in {objects, objects \ {k}}
    BY <1>8 DEF DeleteObject, workerFrame
  <2>2. PICK j \in Jobs : j = workers[w].job BY <1>4, <2>1
  <2>3. workers[w].todo \cup workers[w].got \subseteq PageRefs(j) /\ workers[w] \in WorkerType
    BY <2>1, <2>2, BusyHas
  <2>4. workers'[w] = [workers[w] EXCEPT !.got = workers[w].got \ {k}] BY <1>0, <1>8 DEF DeleteObject, TypeOK
  <2>5. workers'[w].pc = workers[w].pc /\ workers'[w].job = workers[w].job BY <2>3, <2>4 DEF WorkerType
  <2>6. k[1] = j
    <3>1. PICK p \in Pages : k \in {<<j, p, 0>>, Image(j, p)} BY <2>1, <2>3, RefShape
    <3>. QED BY <3>1 DEF Image
  <2>7. ASSUME NEW i \in Jobs, Spoiled(i) PROVE Spoiled(i)'
    <3>1. \A v \in Workers : workers'[v].pc = workers[v].pc /\ workers'[v].job = workers[v].job BY <1>2, <2>5
    <3>. QED BY <2>1, <2>7, <3>1 DEF Spoiled
  <2>8. ASSUME NEW i \in Jobs, jobs'[i].status = "processing", PageRows(i)' = Pages
        PROVE  HasInput(i)' \/ Spoiled(i)'
    <3>1. PageRefs(i)' = PageRefs(i) /\ PageRows(i)' = PageRows(i) BY <1>2 DEF PageRefs, PageRows
    <3>2. HasInput(i) \/ Spoiled(i) BY <2>1, <2>8, <3>1 DEF Kept
    <3>3. CASE i = j
      <4>1. workers[w].pc = "faildelete"
        BY <1>4, <2>1, <2>2, <2>8, <3>3 DEF SlotAt, AfterOcr
      <4>2. Spoiled(i) BY <2>2, <3>3, <4>1 DEF Spoiled
      <4>. QED BY <2>7, <4>2
    <3>4. CASE i # j
      <4>1. ASSUME NEW o \in PageRefs(i) PROVE o # k
        <5>1. PICK p \in Pages : o \in {<<i, p, 0>>, Image(i, p)} BY <4>1, RefShape
        <5>. QED BY <2>6, <3>4, <5>1 DEF Image
      <4>2. HasInput(i) => HasInput(i)' BY <2>1, <3>1, <4>1 DEF HasInput, IsStub
      <4>. QED BY <2>7, <3>2, <4>2
    <3>. QED BY <3>3, <3>4
  <2>9. \A v \in Workers : workers'[v].pc # "begin" BY <1>0, <1>2 DEF Kept
  <2>. QED BY <2>1, <2>8, <2>9, KeptMoves
<1>9. CASE WorkerStops(w)
  <2>1. /\ UNCHANGED <<jobs, objects>> /\ broken \subseteq broken'
        /\ workers[w].pc = "faildelete" => workers[w].job \in broken'
    BY <1>9 DEF WorkerStops
  <2>2. ASSUME NEW i \in Jobs, Spoiled(i) PROVE Spoiled(i)'
    <3>1. CASE i \in broken BY <2>1, <3>1 DEF Spoiled
    <3>2. ASSUME NEW v \in Workers, workers[v].job = i, workers[v].pc = "faildelete" PROVE Spoiled(i)'
      BY <1>2, <2>1, <3>2 DEF Spoiled
    <3>. QED BY <2>2, <3>1, <3>2 DEF Spoiled
  <2>3. \A v \in Workers : workers'[v].pc # "begin" BY <1>0, <1>2 DEF Kept
  <2>. QED BY <1>2, <2>1, <2>2, <2>3, KeptRests
<1>10. CASE \/ LoadJob(w) \/ ListPages(w) \/ NoPageRead(w) \/ LookupCache(w) \/ CreateQuiz(w)
            \/ LinkQuestion(w) \/ StoreCache(w) \/ WorkerError(w) \/ FailJobList(w)
  BY <1>5, <1>10 DEF LoadJob, ListPages, NoPageRead, LookupCache, CreateQuiz, LinkQuestion, StoreCache,
                     WorkerError, FailJobList, workerFrame
<1>11. ASSUME NEW k, ReadPage(w, k) \/ SkipPage(w, k) PROVE Kept'
  BY <1>5, <1>11 DEF ReadPage, SkipPage, workerFrame
<1>. QED
  BY <1>0, <1>3, <1>6, <1>7, <1>8, <1>9, <1>10, <1>11 DEF WorkerStep, WorkerFault

\* The steps of clients, clock and cache keep it too: they touch no job in process.
LEMMA OthersKeep ==
    ASSUME Fed, Kept, UNCHANGED <<pages, workers, broken>>, objects \subseteq objects',
           \A j \in Jobs : jobs'[j].status = "processing" =>
               jobs[j].status = "processing" /\ jobs'[j].pipeline = jobs[j].pipeline
    PROVE  Kept'
<1>1. \A j \in Jobs : Spoiled(j) => Spoiled(j)' BY DEF Spoiled
<1>2. \A w \in Workers : workers'[w].pc # "begin" BY DEF Kept
<1>. QED BY <1>1, <1>2, KeptRests

\* The steps that write a page row or take an image back keep it: the job is not in process yet,
\* or has its stub.
LEMMA PageStepKept ==
    ASSUME IInv, Once, QuietOK, Kept, NEW j \in Jobs,
           CreatePage(j) \/ \E p \in Pages : MarkPageUploaded(j, p) \/ UndoUpload(j, p)
    PROVE  Kept'
<1>1. TypeOK /\ UNCHANGED <<jobs, workers, broken>>
  BY DEF IInv, CreatePage, MarkPageUploaded, UndoUpload, clientVars, cleanupVars
<1>2. \A i \in Jobs : i # j => Untouched(i)
  <2>1. CASE CreatePage(j)
    <3>1. PICK p \in Pages : p = Cardinality(PageRows(j)) + 1 BY <2>1 DEF CreatePage
    <3>2. \A i \in Jobs, q \in Pages : i # j => pages'[i][q] = pages[i][q]
      BY <1>1, <2>1, <3>1 DEF CreatePage, TypeOK
    <3>3. UNCHANGED <<uploads, objects>> BY <2>1 DEF CreatePage, clientVars
    <3>. QED BY <1>1, <3>2, <3>3, OthersUntouched
  <2>2. ASSUME NEW p \in Pages, MarkPageUploaded(j, p) PROVE \A i \in Jobs : i # j => Untouched(i)
    <3>1. UNCHANGED objects BY <2>2 DEF MarkPageUploaded
    <3>2. \A i \in Jobs, q \in Pages : i # j => pages'[i][q] = pages[i][q] /\ uploads'[i][q] = uploads[i][q]
      BY <1>1, <2>2 DEF MarkPageUploaded, TypeOK
    <3>. QED BY <1>1, <3>1, <3>2, OthersUntouched
  <2>3. ASSUME NEW p \in Pages, UndoUpload(j, p) PROVE \A i \in Jobs : i # j => Untouched(i)
    <3>1. UNCHANGED pages /\ \A k \in objects : k \in objects' \/ k[1] = j BY <2>3 DEF UndoUpload, Key
    <3>2. \A i \in Jobs, q \in Pages : i # j => pages'[i][q] = pages[i][q] /\ uploads'[i][q] = uploads[i][q]
      BY <1>1, <2>3, <3>1 DEF UndoUpload, TypeOK
    <3>. QED BY <1>1, <3>1, <3>2, OthersUntouched
  <2>. QED BY <2>1, <2>2, <2>3
<1>3. ASSUME NEW i \in Jobs, jobs'[i].status = "processing", PageRows(i)' = Pages, i # j
      PROVE  HasInput(i)' \/ Spoiled(i)'
  <2>1. PageRefs(i)' = PageRefs(i) /\ PageRows(i)' = PageRows(i) BY <1>2, <1>3, HereStays
  <2>2. \A k \in PageRefs(i) : Here(k) => k \in objects' \/ IsStub(k) BY <1>2, <1>3, HereStays
  <2>3. HasInput(i) => HasInput(i)' BY <1>1, <2>1, <2>2 DEF HasInput, Here, IsStub
  <2>4. HasInput(i) \/ Spoiled(i) BY <1>1, <1>3, <2>1 DEF Kept
  <2>. QED BY <1>1, <2>3, <2>4 DEF Spoiled
<1>4. ASSUME jobs'[j].status = "processing", PageRows(j)' = Pages PROVE HasInput(j)'
  <2>1. jobs[j].status = "processing" BY <1>1, <1>4
  <2>2. \A p \in Pages : ~MarkPageUploaded(j, p) /\ ~UndoUpload(j, p)
    BY <2>1 DEF MarkPageUploaded, UndoUpload, QuietOK, UploadAt
  <2>3. CreatePage(j) BY <2>2
  <2>. QED BY <1>4, <2>1, <2>3, StubThere
<1>5. \A w \in Workers : workers'[w].pc # "begin" BY <1>1 DEF Kept
<1>. QED BY <1>1, <1>3, <1>4, <1>5, KeptMoves

\* Every step keeps what a job in process has.
LEMMA NextKept ==
    ASSUME Quiet, NeverOld, IInv, Once, QuietOK, Fed, Kept, [Next]_vars
    PROVE  Kept'
<1>0. TypeOK /\ BudgetOK /\ OldOK BY DEF IInv, Once, Fed
<1>1. ASSUME NEW j \in Jobs, CreateJob(j) PROVE Kept'
  <2>1. UNCHANGED <<pages, workers, objects, broken>> BY <1>1 DEF CreateJob, cleanupVars
  <2>2. jobs'[j].status # "processing" /\ \A i \in Jobs : i # j => jobs'[i] = jobs[i] BY <1>0, <1>1, Created
  <2>. QED BY <2>1, <2>2, OthersKeep
<1>2. ASSUME NEW j \in Jobs, CreatePage(j) \/ \E p \in Pages : MarkPageUploaded(j, p) \/ UndoUpload(j, p)
      PROVE  Kept'
  BY <1>2, PageStepKept
<1>3. ASSUME NEW j \in Jobs, NEW p \in Pages, UploadStep(j, p) PROVE Kept'
  <2>1. CASE MarkPageUploaded(j, p) \/ UndoUpload(j, p) BY <1>2, <2>1
  <2>2. CASE QueueUploadedJob(j, p)
    <3>1. UNCHANGED <<pages, workers, objects, broken>> BY <2>2 DEF QueueUploadedJob, cleanupVars
    <3>2. jobs'[j].status # "processing" /\ \A i \in Jobs : i # j => jobs'[i] = jobs[i]
      BY <1>0, <2>2, StatusFields DEF QueueUploadedJob
    <3>. QED BY <3>1, <3>2, OthersKeep
  <2>3. CASE PutPage(j, p) \/ UploadFails(j, p) \/ CheckAllPagesUploaded(j, p) \/ AbandonUpload(j, p)
    <3>1. UNCHANGED <<jobs, pages, workers, broken>> /\ objects \subseteq objects'
      BY <2>3 DEF PutPage, UploadFails, CheckAllPagesUploaded, AbandonUpload, cleanupVars
    <3>. QED BY <3>1, OthersKeep
  <2>. QED BY <1>3, <2>1, <2>2, <2>3 DEF UploadStep
<1>4. ASSUME NEW j \in Jobs, NEW s \in Strategies, CheckStrategy(j, s) PROVE Kept'
  BY <1>4, OthersKeep DEF CheckStrategy, cleanupVars
<1>5. ASSUME NEW j \in Jobs, NEW s \in Strategies, UpdateJobStrategy(j, s) PROVE Kept'
  <2>1. UNCHANGED <<pages, workers, objects, broken>> BY <1>5 DEF UpdateJobStrategy, cleanupVars
  <2>2. jobs[j] \in JobType BY <1>0 DEF TypeOK
  <2>3. /\ jobs'[j] = [jobs[j] EXCEPT !.strategy = s, !.status = "pending", !.stale = FALSE]
        /\ \A i \in Jobs : i # j => jobs'[i] = jobs[i]
    BY <1>0, <1>5 DEF UpdateJobStrategy, TypeOK
  <2>4. jobs'[j].status # "processing" BY <2>2, <2>3 DEF JobType
  <2>. QED BY <2>1, <2>3, <2>4, OthersKeep
<1>6. ASSUME NEW j \in Jobs, RetryJob(j) \/ TimePasses(j) \/ DayPasses(j) PROVE Kept'
  <2>1. CASE RetryJob(j) BY <1>0, <2>1, QuietNever DEF RetryJob
  <2>2. CASE TimePasses(j)
    <3>1. UNCHANGED <<pages, workers, objects, broken>> /\ jobs[j].status = "processing"
      BY <2>2 DEF TimePasses, cleanupVars
    <3>2. jobs[j] \in JobType BY <1>0 DEF TypeOK
    <3>3. /\ jobs'[j] = [jobs[j] EXCEPT !.stale = TRUE]
          /\ \A i \in Jobs : i # j => jobs'[i] = jobs[i]
      BY <1>0, <2>2 DEF TimePasses, TypeOK
    <3>4. jobs'[j].pipeline = jobs[j].pipeline BY <3>2, <3>3 DEF JobType
    <3>. QED BY <3>1, <3>3, <3>4, OthersKeep
  <2>3. CASE DayPasses(j) BY <2>3, OthersKeep DEF DayPasses, clientVars
  <2>. QED BY <1>6, <2>1, <2>2, <2>3
<1>7. ASSUME NEW q \in 1..Len(quizzes), PublishDraft(q) PROVE Kept'
  <2>1. UNCHANGED <<pages, workers, objects, broken>> BY <1>7 DEF PublishDraft, cleanupVars
  <2>2. ASSUME NEW i \in Jobs, jobs'[i].status = "processing" PROVE jobs'[i] = jobs[i]
    <3>1. jobs[i] \in JobType BY <1>0 DEF TypeOK
    <3>2. CASE jobs[i].quiz = q
      <4>1. jobs'[i] = [jobs[i] EXCEPT !.status = "quiz_ready", !.stale = FALSE]
        BY <1>7, <3>2 DEF PublishDraft
      <4>2. jobs'[i].status = "quiz_ready" BY <3>1, <4>1 DEF JobType
      <4>. QED BY <2>2, <4>2
    <3>3. CASE jobs[i].quiz # q BY <1>7, <3>3 DEF PublishDraft
    <3>. QED BY <3>2, <3>3
  <2>. QED BY <2>1, <2>2, OthersKeep
<1>8. ASSUME NEW w \in Workers, WorkerStep(w) \/ WorkerFault(w) PROVE Kept' BY <1>8, WorkerStepKept
<1>9. ASSUME NEW t \in Texts, EvictCache(t) PROVE Kept' BY <1>9, OthersKeep DEF EvictCache, cleanupVars
<1>10. CASE CleanupList BY <1>0, <1>10 DEF CleanupList, OldOK, Orphans
<1>11. ASSUME NEW k \in sweep, CleanupDelete(k) PROVE Kept' BY <1>0, <1>11 DEF OldOK
<1>12. CASE UNCHANGED vars BY <1>12, OthersKeep DEF vars
<1>. QED
  BY <1>1, <1>2, <1>3, <1>4, <1>5, <1>6, <1>7, <1>8, <1>9, <1>10, <1>11, <1>12 DEF Next

\* A job in process has its input in every reachable state.
LEMMA KeptInvariance ==
    ASSUME Quiet, NeverOld
    PROVE  Spec => []Kept
<1>1. Budget["reupload"] = 0 BY DEF Quiet
<1>2. Spec => []Once BY <1>1, EveryPageOnce
<1>3. Spec => []QuietOK BY QuietInvariance
<1>4. Spec => []Fed BY FedInvariance
<1>5. Init => Kept BY DEF Init, Kept, IdleWorker
<1>6. IInv /\ Once /\ QuietOK /\ Fed /\ Kept /\ [Next]_vars => Kept' BY NextKept
<1>. QED BY Invariance, <1>2, <1>3, <1>4, <1>5, <1>6, PTL DEF Spec

\* A job a slot will claim has its text or an image: one a rate limit (worker.go:309) or a
\* strategy put back into the queue, and one a crash left in process, unless the slot was in
\* failJob, between deleting the images and setting the status (worker.go:711-713).
THEOREM QueuedJobsHaveInput ==
    ASSUME Quiet, NeverOld
    PROVE  Spec => []QueuedHasInput
<1>1. Fed /\ Kept => QueuedHasInput
  <2>. SUFFICES ASSUME Fed, Kept, NEW j \in Jobs, Waits(j), PageRows(j) = Pages PROVE HasInput(j)
    BY DEF QueuedHasInput
  <2>1. CASE jobs[j].status = "pending" BY <2>1 DEF Fed, FedJob
  <2>2. CASE jobs[j].status = "processing" /\ ~LiveOn(j) /\ j \notin broken
    <3>1. ~Spoiled(j) BY <2>2 DEF Spoiled, LiveOn
    <3>. QED BY <2>2, <3>1 DEF Kept
  <2>. QED BY <2>1, <2>2 DEF Waits
<1>. QED BY <1>1, FedInvariance, KeptInvariance, PTL

(* ---------------------- nothing fails of its own accord ---------------- *)

\* Every job is scanned page by page, and has no more pages than the page limit.
Ordinary == Inline = {} /\ (MaxPagesPerJob = 0 \/ NPages <= MaxPagesPerJob)

\* If nothing outside failed until after a step, it did not in the step either.
LEMMA WasUnspent ==
    ASSUME BudgetOK, [Next]_vars, Unspent'
    PROVE  Unspent /\ \A kinds : Spend(kinds) => "external" \notin kinds
<1>. DEFINE e == "external"
<1>1. e \in FaultKinds BY DEF FaultKinds
<1>. HIDE DEF e
<1>2. budget[e] \in Nat /\ Budget[e] \in Nat /\ budget[e] <= Budget[e] BY <1>1, ScanAssumption DEF BudgetOK
<1>3. budget'[e] = Budget[e] BY DEF Unspent, e
<1>4. ASSUME NEW kinds, Spend(kinds) PROVE budget[e] = Budget[e] /\ e \notin kinds
  <2>1. budget'[e] = (IF e \in kinds THEN budget[e] - 1 ELSE budget[e]) BY <1>1, <1>4 DEF Spend
  <2>. QED BY <1>2, <1>3, <2>1
<1>5. budget[e] = Budget[e] BY <1>3, <1>4, Charges DEF Charged
<1>. QED BY <1>4, <1>5 DEF Unspent, e

\* A job in process has one image for each page.
LEMMA AllKeys ==
    ASSUME Ordinary, QuietOK, Once, NEW j \in Jobs, jobs[j].status \notin {"none", "uploading"}
    PROVE  /\ \A p \in Pages : pages[j][p].key = Image(j, p)
           /\ PageRows(j) = Pages
           /\ PageRefs(j) # {}
           /\ \A k \in PageRefs(j) : \E p \in Pages : k = Image(j, p)
<1>1. \A p \in Pages : pages[j][p].key = Image(j, p) BY DEF QuietOK, JobAt, Ordinary
<1>2. ASSUME NEW p \in Pages PROVE pages[j][p].upload # "absent"
  <2>1. ImageOnce(j, p) BY DEF Once
  <2>. QED BY <1>1, <2>1, KeysDiffer DEF ImageOnce
<1>3. PageRows(j) = Pages BY <1>2 DEF PageRows
<1>4. 1 \in Pages BY ScanAssumption DEF Pages
<1>5. PageRefs(j) # {} BY <1>1, <1>4, KeysDiffer, RefShape
<1>. QED BY <1>1, <1>3, <1>5, RefShape

\* Layer 4 when no slot moves and no image is deleted.
LEMMA ClientClean ==
    ASSUME Clean, UNCHANGED workers, objects \subseteq objects', \A i \in Jobs : Causeless(i)'
    PROVE  Clean'
BY DEF Clean, CauselessSlot, Imaged, Image

\* A job whose row and images stay keeps layer 4.
LEMMA JobClean ==
    ASSUME Clean, NEW i \in Jobs, jobs'[i] = jobs[i], objects \subseteq objects'
    PROVE  Causeless(i)'
BY DEF Clean, Causeless, Imaged, Image

\* Layer 4 after a step of one slot on one job.
LEMMA StepClean ==
    ASSUME IInv, QuietOK', Clean, NEW w \in Workers, NEW j \in Jobs,
           workers[w].job = j \/ workers'[w].job = j, QuietOK,
           \A v \in Workers : v # w => workers'[v] = workers[v],
           \A i \in Jobs : i # j => jobs'[i] = jobs[i],
           \A k \in objects : k \in objects' \/ k[1] = j,
           Causeless(j)', CauselessSlot(w)'
    PROVE  Clean'
<1>1. j # NoJob BY ScanAssumption
<1>2. \A v \in Workers : v # w => workers[v].job # j BY <1>1 DEF QuietOK, OneSlotPerJob
<1>3. ASSUME NEW i \in Jobs, i # j, Imaged(i) PROVE Imaged(i)'
  BY <1>3, StubIsStub DEF Imaged, Image
<1>4. ASSUME NEW i \in Jobs, i # j PROVE Causeless(i)' BY <1>3, <1>4 DEF Clean, Causeless
<1>5. ASSUME NEW v \in Workers, v # w PROVE CauselessSlot(v)'
  <2>1. CauselessSlot(v) /\ workers'[v] = workers[v] /\ workers[v].job # j BY <1>2, <1>5 DEF Clean
  <2>2. CASE workers[v].pc = "idle" BY <2>1, <2>2 DEF CauselessSlot, FeedingPC
  <2>3. CASE workers[v].pc # "idle"
    <3>1. PICK i \in Jobs : i = workers[v].job BY <2>3 DEF IInv, Safe, SlotOK, SlotText
    <3>2. Imaged(i) => Imaged(i)' BY <1>3, <2>1, <3>1
    <3>3. Imaged(workers[v].job)' = Imaged(i)' BY <2>1, <3>1 DEF Imaged, Image
    <3>. QED BY <2>1, <3>1, <3>2, <3>3 DEF CauselessSlot
  <2>. QED BY <2>2, <2>3
<1>. QED BY <1>4, <1>5 DEF Clean

\* What a slot that goes on must have.
LEMMA SlotClean ==
    ASSUME NEW w \in Workers, NEW j \in Jobs, workers'[w].job = j,
           NEW pc, pc = workers'[w].pc, NEW todo, todo = workers'[w].todo,
           NEW got, got = workers'[w].got, NEW resumed, resumed = workers'[w].resumed,
           pc \notin {"failing", "faildelete"},
           pc \in FeedingPC \cup {"load"} => Imaged(j)',
           pc = "ocr" /\ ~resumed => todo \cup got # {}
    PROVE  CauselessSlot(w)'
<1>1. Imaged(workers[w].job)' = Imaged(j)' BY DEF Imaged, Image
<1>. QED BY <1>1 DEF CauselessSlot

\* A slot that gave its job up is not about to fail it.
LEMMA RestClean ==
    ASSUME TypeOK, NEW w \in Workers, Rest(w)
    PROVE  CauselessSlot(w)' /\ \A v \in Workers : v # w => workers'[v] = workers[v]
<1>1. workers'[w] = IdleWorker /\ \A v \in Workers : v # w => workers'[v] = workers[v] BY DEF Rest, TypeOK
<1>2. workers'[w].pc = "idle" BY <1>1 DEF IdleWorker
<1>. QED BY <1>1, <1>2 DEF CauselessSlot, FeedingPC

\* What a slot that works may rely on.
LEMMA BusyClean ==
    ASSUME IInv, QuietOK, Fed, Clean, NEW w \in Workers, workers[w].pc # "idle"
    PROVE  /\ TypeOK /\ CauselessSlot(w) /\ workers[w] \in WorkerType
           /\ workers[w].job \in Jobs /\ Causeless(workers[w].job)
           /\ jobs[workers[w].job].status \in {"processing", "ocr_complete"}
           /\ workers[w].todo \cup workers[w].got \subseteq PageRefs(workers[w].job)
           /\ workers[w].pc \in FeedingPC \cup {"load"} => Imaged(workers[w].job)
BY BusyHas DEF Clean, CauselessSlot

\* A job that leaves its slot has not failed.
LEMMA GiveUpClean ==
    ASSUME IInv, QuietOK, QuietOK', Fed, Clean, NEW w \in Workers,
           AskStrategy(w) \/ RateLimited(w) \/ FinishJob(w) \/ FailJob(w) \/ WorkerStops(w)
    PROVE  Clean'
<1>1. workers[w].pc # "idle" BY DEF AskStrategy, RateLimited, FinishJob, FailJob, WorkerStops, ImagesGone
<1>2. PICK j \in Jobs : j = workers[w].job BY <1>1, BusyClean
<1>3. /\ TypeOK /\ CauselessSlot(w) /\ Causeless(j)
      /\ workers[w].pc \in FeedingPC \cup {"load"} => Imaged(j)
  BY <1>1, <1>2, BusyClean
<1>4. UNCHANGED objects /\ Rest(w) BY DEF AskStrategy, RateLimited, FinishJob, FailJob, WorkerStops
<1>5. CauselessSlot(w)' /\ \A v \in Workers : v # w => workers'[v] = workers[v] BY <1>3, <1>4, RestClean
<1>6. Imaged(j) => Imaged(j)' BY <1>4 DEF Imaged, Image
<1>7. CASE WorkerStops(w)
  <2>1. UNCHANGED jobs BY <1>7 DEF WorkerStops
  <2>2. Causeless(j)' BY <1>3, <1>6, <2>1 DEF Causeless
  <2>. QED BY <1>2, <1>4, <1>5, <2>1, <2>2, StepClean
<1>8. CASE ~WorkerStops(w)
  <2>1. PICK s \in {"needs_strategy", "pending", "review_ready", "quiz_ready"} :
          UpdateJobStatus(j, s) /\ (s \in {"needs_strategy", "pending"} => workers[w].pc \in {"ask", "generate"})
    <3>1. CASE AskStrategy(w) BY <1>2, <3>1 DEF AskStrategy
    <3>2. CASE RateLimited(w) BY <1>2, <3>2 DEF RateLimited
    <3>3. CASE FailJob(w) BY <1>3, <3>3 DEF FailJob, CauselessSlot
    <3>4. CASE FinishJob(w) BY <1>2, <3>4 DEF FinishJob, FinalJobStatus
    <3>. QED BY <1>8, <3>1, <3>2, <3>3, <3>4
  <2>2. jobs'[j].status = s /\ \A i \in Jobs : i # j => jobs'[i] = jobs[i] BY <1>3, <2>1, StatusFields
  <2>3. s \in {"needs_strategy", "pending"} => Imaged(j)' BY <1>3, <1>6, <2>1 DEF FeedingPC
  <2>4. s # "failed" /\ s # "processing" OBVIOUS
  <2>5. Causeless(j)' BY <2>2, <2>3, <2>4 DEF Causeless
  <2>. QED BY <1>2, <1>4, <1>5, <2>2, <2>5, StepClean
<1>. QED BY <1>7, <1>8

\* The claim keeps layer 4.
LEMMA ClaimClean ==
    ASSUME IInv, QuietOK, QuietOK', Fed, Clean, NEW w \in Workers, NEW j \in Jobs, ClaimPendingJob(w, j)
    PROVE  Clean'
<1>1. TypeOK /\ UNCHANGED objects /\ workers[w] \in WorkerType BY DEF IInv, ClaimPendingJob, TypeOK
<1>2. workers'[w] = [workers[w] EXCEPT !.pc = "load", !.job = j] BY <1>1 DEF ClaimPendingJob, TypeOK
<1>3. /\ workers'[w].pc = "load" /\ workers'[w].job = j
      /\ \A v \in Workers : v # w => workers'[v] = workers[v]
  BY <1>1, <1>2 DEF WorkerType, ClaimPendingJob, TypeOK
<1>4. jobs'[j].status = "processing" /\ \A i \in Jobs : i # j => jobs'[i] = jobs[i]
  BY <1>1, StatusFields DEF ClaimPendingJob
<1>5. jobs[j].status \in {"pending", "processing"} BY DEF ClaimPendingJob, Claimable
<1>6. Imaged(j)' BY <1>1, <1>5 DEF Clean, Causeless, Imaged, Image
<1>7. Causeless(j)' BY <1>4, <1>6 DEF Causeless
<1>8. CauselessSlot(w)'
  <2>1. Imaged(workers[w].job)' = Imaged(j)' BY <1>3 DEF Imaged, Image
  <2>. QED BY <1>3, <1>6, <2>1 DEF CauselessSlot
<1>. QED BY <1>1, <1>3, <1>4, <1>7, <1>8, StepClean

\* Layer 4 after a slot that goes on wrote the row of its job.
LEMMA GoesOnClean ==
    ASSUME IInv, QuietOK, QuietOK', Fed, Clean, NEW w \in Workers, workers[w].pc # "idle",
           NEW j \in Jobs, j = workers[w].job,
           \A v \in Workers : v # w => workers'[v] = workers[v],
           \A i \in Jobs : i # j => jobs'[i] = jobs[i],
           \/ jobs'[j].status = "ocr_complete"
           \/ jobs'[j].status = "processing" /\ Imaged(j) /\ UNCHANGED objects
           \/ jobs'[j].status = jobs[j].status /\ UNCHANGED objects,
           \A k \in objects : k \in objects' \/ k[1] = j, CauselessSlot(w)'
    PROVE  Clean'
<1>1. Causeless(j) /\ jobs[j].status \in {"processing", "ocr_complete"} BY BusyClean
<1>2. Causeless(j)' BY <1>1 DEF Causeless, Imaged, Image
<1>. QED BY <1>2, StepClean

\* The steps that call only the database and go on keep layer 4.
LEMMA GotoClean ==
    ASSUME IInv, QuietOK, QuietOK', Fed, Clean, NEW w \in Workers,
           \/ LinkQuestion(w) \/ StoreCache(w) \/ UpdateJobQuizID(w) \/ ClearPipelineText(w)
           \/ SavePipelineText(w) \/ BeginJob(w)
    PROVE  Clean'
<1>1. TypeOK /\ workers[w].pc # "idle" /\ UNCHANGED objects
  BY DEF IInv, LinkQuestion, StoreCache, UpdateJobQuizID, ClearPipelineText, SavePipelineText, BeginJob,
     ImagesGone
<1>2. PICK j \in Jobs : j = workers[w].job BY <1>1, BusyClean
<1>3. workers[w].pc \in FeedingPC \cup {"load"} => Imaged(j) BY <1>1, <1>2, BusyClean
<1>4. PICK pc : /\ Goto(w, pc) /\ pc \notin {"ocr", "failing", "faildelete"}
                /\ pc \in FeedingPC \cup {"load"} => workers[w].pc \in FeedingPC
  <2>1. CASE LinkQuestion(w)
    <3>1. PICK pc \in {"link", "store", "setquiz"} : Goto(w, pc) BY <2>1 DEF LinkQuestion
    <3>. QED BY <3>1 DEF FeedingPC
  <2>2. CASE StoreCache(w) BY <2>2 DEF StoreCache, FeedingPC
  <2>3. CASE UpdateJobQuizID(w)
    <3>1. PICK pc \in {"delete", "clear"} : Goto(w, pc) BY <2>3 DEF UpdateJobQuizID
    <3>. QED BY <3>1 DEF FeedingPC
  <2>4. CASE ClearPipelineText(w) BY <2>4 DEF ClearPipelineText, FeedingPC
  <2>5. CASE SavePipelineText(w) BY <2>5 DEF SavePipelineText, FeedingPC
  <2>6. CASE BeginJob(w) BY <2>6 DEF BeginJob, FeedingPC
  <2>. QED BY <2>1, <2>2, <2>3, <2>4, <2>5, <2>6
<1>5. /\ workers'[w].pc = pc /\ workers'[w].job = j
      /\ \A v \in Workers : v # w => workers'[v] = workers[v]
  BY <1>1, <1>2, <1>4, GotoFields
<1>6. CauselessSlot(w)'
  <2>1. PICK todo, got, resumed :
          todo = workers'[w].todo /\ got = workers'[w].got /\ resumed = workers'[w].resumed
    OBVIOUS
  <2>2. pc \in FeedingPC \cup {"load"} => Imaged(j)' BY <1>1, <1>3, <1>4 DEF Imaged, Image
  <2>3. pc \notin {"failing", "faildelete"} /\ pc # "ocr" BY <1>4
  <2>. QED BY <1>5, <2>1, <2>2, <2>3, SlotClean
<1>7. CASE BeginJob(w)
  <2>1. jobs'[j].status = "processing" /\ \A i \in Jobs : i # j => jobs'[i] = jobs[i]
    BY <1>1, <1>2, <1>7, StatusFields DEF BeginJob
  <2>2. workers[w].pc \in FeedingPC BY <1>7 DEF BeginJob, FeedingPC
  <2>3. Imaged(j) BY <1>3, <2>2
  <2>. QED BY <1>1, <1>2, <1>5, <1>6, <2>1, <2>3, GoesOnClean
<1>8. CASE UpdateJobQuizID(w) \/ ClearPipelineText(w) \/ SavePipelineText(w)
  <2>1. jobs'[j].status = jobs[j].status /\ \A i \in Jobs : i # j => jobs'[i] = jobs[i]
    BY <1>1, <1>2, <1>8, RowFields
  <2>. QED BY <1>1, <1>2, <1>5, <1>6, <2>1, GoesOnClean
<1>9. CASE LinkQuestion(w) \/ StoreCache(w)
  <2>1. UNCHANGED jobs BY <1>9 DEF LinkQuestion, StoreCache
  <2>. QED BY <1>1, <1>2, <1>5, <1>6, <2>1, GoesOnClean
<1>. QED BY <1>7, <1>8, <1>9

\* Deleting an image keeps layer 4: its job needs none any more.
LEMMA DeletesClean ==
    ASSUME IInv, Once, QuietOK, QuietOK', Fed, Clean, NEW w \in Workers, NEW k, DeleteObject(w, k)
    PROVE  Clean'
<1>1. /\ workers[w].pc \in {"delete", "hit", "faildelete"} /\ UNCHANGED jobs /\ k \in workers[w].got
      /\ objects' \in {objects, objects \ {k}}
  BY DEF DeleteObject
<1>2. workers[w].pc # "idle" BY <1>1
<1>3. PICK j \in Jobs : j = workers[w].job BY <1>2, BusyClean
<1>4. /\ TypeOK /\ CauselessSlot(w) /\ workers[w] \in WorkerType
      /\ workers[w].todo \cup workers[w].got \subseteq PageRefs(j)
  BY <1>2, <1>3, BusyClean
<1>5. workers[w].pc \in {"delete", "hit"} BY <1>1, <1>4 DEF CauselessSlot
<1>6. jobs[j].status = "ocr_complete" BY <1>3, <1>5 DEF QuietOK, SlotAt, AfterOcr
<1>7. workers'[w] = [workers[w] EXCEPT !.got = workers[w].got \ {k}] BY <1>4 DEF DeleteObject, TypeOK
<1>8. /\ workers'[w].pc = workers[w].pc /\ workers'[w].job = j
      /\ \A v \in Workers : v # w => workers'[v] = workers[v]
  BY <1>3, <1>4, <1>7 DEF WorkerType, DeleteObject, TypeOK
<1>9. k[1] = j
  <2>1. PICK p \in Pages : k \in {<<j, p, 0>>, Image(j, p)} BY <1>1, <1>4, RefShape
  <2>. QED BY <2>1 DEF Image
<1>10. CauselessSlot(w)' BY <1>5, <1>8 DEF CauselessSlot, FeedingPC
<1>11. \A o \in objects : o \in objects' \/ o[1] = j BY <1>1, <1>9
<1>12. jobs'[j].status = "ocr_complete" /\ \A i \in Jobs : i # j => jobs'[i] = jobs[i] BY <1>1, <1>6
<1>. QED BY <1>2, <1>3, <1>8, <1>10, <1>11, <1>12, GoesOnClean

\* A new or a cached quiz keeps layer 4.
LEMMA AnswersClean ==
    ASSUME IInv, QuietOK, QuietOK', Fed, Clean, NEW w \in Workers, CreateQuiz(w) \/ LookupCache(w)
    PROVE  Clean'
<1>1. UNCHANGED <<jobs, objects>> /\ workers[w].pc \in {"lookup", "generate"} BY DEF CreateQuiz, LookupCache
<1>2. workers[w].pc # "idle" BY <1>1
<1>3. PICK j \in Jobs : j = workers[w].job BY <1>2, BusyClean
<1>4. TypeOK /\ workers[w] \in WorkerType /\ Imaged(j) BY <1>1, <1>2, <1>3, BusyClean DEF FeedingPC
<1>5. PICK q, pc : workers' = [workers EXCEPT ![w].quiz = q, ![w].pc = pc] /\ pc \in {"link", "generate", "hit"}
  <2>1. CASE CreateQuiz(w)
    <3>1. PICK q : workers' = [workers EXCEPT ![w].quiz = q, ![w].pc = "link"] BY <2>1 DEF CreateQuiz
    <3>. QED BY <3>1
  <2>2. CASE LookupCache(w)
    <3>1. PICK q, pc : workers' = [workers EXCEPT ![w].quiz = q, ![w].pc = pc] /\ pc \in {"generate", "hit"}
      BY <2>2 DEF LookupCache
    <3>. QED BY <3>1
  <2>. QED BY <2>1, <2>2
<1>6. workers'[w] = [workers[w] EXCEPT !.quiz = q, !.pc = pc] BY <1>4, <1>5 DEF TypeOK
<1>7. /\ workers'[w].pc = pc /\ workers'[w].job = j
      /\ \A v \in Workers : v # w => workers'[v] = workers[v]
  BY <1>3, <1>4, <1>5, <1>6 DEF WorkerType, TypeOK
<1>8. CauselessSlot(w)'
  <2>1. PICK todo, got, resumed :
          todo = workers'[w].todo /\ got = workers'[w].got /\ resumed = workers'[w].resumed
    OBVIOUS
  <2>2. pc \notin {"failing", "faildelete"} /\ pc # "ocr" BY <1>5
  <2>3. Imaged(j)' BY <1>1, <1>4 DEF Imaged, Image
  <2>. QED BY <1>7, <2>1, <2>2, <2>3, SlotClean
<1>. QED BY <1>1, <1>2, <1>3, <1>7, <1>8, GoesOnClean

\* Reading the job keeps layer 4.
LEMMA LoadClean ==
    ASSUME IInv, QuietOK, QuietOK', Fed, Clean, NEW w \in Workers, LoadJob(w)
    PROVE  Clean'
<1>1. UNCHANGED <<jobs, objects>> /\ workers[w].pc = "load" BY DEF LoadJob
<1>2. workers[w].pc # "idle" BY <1>1
<1>3. PICK j \in Jobs : j = workers[w].job BY <1>2, BusyClean
<1>4. TypeOK /\ workers[w] \in WorkerType /\ Imaged(j) BY <1>1, <1>2, <1>3, BusyClean
<1>5. CASE Processable(jobs[j].status)
  <2>1. PICK pc, text, resumed, strategy :
          /\ workers' = [workers EXCEPT ![w].pc = pc, ![w].strategy = strategy,
                                        ![w].text = text, ![w].resumed = resumed]
          /\ pc \in {"begin", "list"}
    <3>. DEFINE text == IF w \in Vision THEN NoText ELSE jobs[j].pipeline
                resumed == w \notin Vision /\ jobs[j].pipeline # NoText
                pc == IF jobs[j].status = "pending" THEN "begin" ELSE "list"
    <3>1. workers' = [workers EXCEPT ![w].pc = pc, ![w].strategy = jobs[j].strategy,
                                     ![w].text = text, ![w].resumed = resumed]
      BY <1>3, <1>5 DEF LoadJob
    <3>2. pc \in {"begin", "list"} OBVIOUS
    <3>. HIDE DEF pc, text, resumed
    <3>. QED BY <3>1, <3>2
  <2>2. workers'[w] = [workers[w] EXCEPT !.pc = pc, !.strategy = strategy, !.text = text, !.resumed = resumed]
    BY <1>4, <2>1 DEF TypeOK
  <2>3. /\ workers'[w].pc = pc /\ workers'[w].job = j
        /\ \A v \in Workers : v # w => workers'[v] = workers[v]
    BY <1>3, <1>4, <2>1, <2>2 DEF WorkerType, TypeOK
  <2>4. CauselessSlot(w)'
    <3>1. PICK todo, got, busy :
            todo = workers'[w].todo /\ got = workers'[w].got /\ busy = workers'[w].resumed
      OBVIOUS
    <3>2. pc \notin {"failing", "faildelete"} /\ pc # "ocr" BY <2>1
    <3>3. Imaged(j)' BY <1>1, <1>4 DEF Imaged, Image
    <3>. QED BY <2>3, <3>1, <3>2, <3>3, SlotClean
  <2>. QED BY <1>1, <1>2, <1>3, <2>3, <2>4, GoesOnClean
<1>6. CASE ~Processable(jobs[j].status)
  <2>1. Rest(w) BY <1>3, <1>6 DEF LoadJob
  <2>2. CauselessSlot(w)' /\ \A v \in Workers : v # w => workers'[v] = workers[v] BY <1>4, <2>1, RestClean
  <2>. QED BY <1>1, <1>2, <1>3, <2>2, GoesOnClean
<1>. QED BY <1>5, <1>6

\* A job within the limits has pages to read.
LEMMA ListClean ==
    ASSUME Ordinary, IInv, Once, QuietOK, QuietOK', Fed, Clean, NEW w \in Workers, ListPages(w)
    PROVE  Clean'
<1>1. UNCHANGED <<jobs, objects>> /\ workers[w].pc = "list" BY DEF ListPages
<1>2. workers[w].pc # "idle" BY <1>1
<1>3. PICK j \in Jobs : j = workers[w].job BY <1>2, BusyClean
<1>4. /\ TypeOK /\ workers[w] \in WorkerType /\ Imaged(j)
      /\ jobs[j].status \in {"processing", "ocr_complete"}
  BY <1>1, <1>2, <1>3, BusyClean DEF FeedingPC
<1>5. jobs[j].status \notin {"none", "uploading"} BY <1>4
<1>6. PageRows(j) = Pages /\ PageRefs(j) # {} BY <1>5, AllKeys
<1>7. Pages # {} /\ Cardinality(Pages) = NPages
  <2>1. NPages \in Nat \ {0} BY ScanAssumption
  <2>2. Cardinality(1..NPages) = IF NPages >= 1 THEN NPages - 1 + 1 ELSE 0 BY <2>1, FS_Interval
  <2>. QED BY <2>1, <2>2 DEF Pages
<1>8. ~(PageRows(j) = {} \/ (MaxPagesPerJob > 0 /\ Cardinality(PageRows(j)) > MaxPagesPerJob))
  BY <1>6, <1>7, ScanAssumption DEF Ordinary
<1>9. PICK todo, got :
        /\ workers' = [workers EXCEPT ![w].pc = "ocr", ![w].todo = todo, ![w].got = got]
        /\ todo = (IF workers[w].resumed THEN {} ELSE PageRefs(j))
        /\ got = (IF workers[w].resumed THEN PageRefs(j) ELSE {})
  BY <1>3, <1>8 DEF ListPages
<1>10. workers'[w] = [workers[w] EXCEPT !.pc = "ocr", !.todo = todo, !.got = got] BY <1>4, <1>9 DEF TypeOK
<1>11. /\ workers'[w].pc = "ocr" /\ workers'[w].job = j
       /\ workers'[w].todo = todo /\ workers'[w].got = got
       /\ \A v \in Workers : v # w => workers'[v] = workers[v]
  BY <1>3, <1>4, <1>9, <1>10 DEF WorkerType, TypeOK
<1>12. CauselessSlot(w)'
  <2>1. PICK pc, resumed : pc = workers'[w].pc /\ resumed = workers'[w].resumed OBVIOUS
  <2>2. pc \notin {"failing", "faildelete"} BY <1>11, <2>1
  <2>3. Imaged(j)' BY <1>1, <1>4 DEF Imaged, Image
  <2>4. todo \cup got # {} BY <1>6, <1>9
  <2>. QED BY <1>11, <2>1, <2>2, <2>3, <2>4, SlotClean
<1>. QED BY <1>1, <1>2, <1>3, <1>11, <1>12, GoesOnClean

\* The images are there: only storage or OCR can make a slot skip one.
LEMMA PageClean ==
    ASSUME Ordinary, IInv, Once, QuietOK, QuietOK', Fed, Clean, NEW w \in Workers,
           NEW k, ReadPage(w, k) \/ SkipPage(w, k),
           \A kinds : Spend(kinds) => "external" \notin kinds
    PROVE  Clean'
<1>1. UNCHANGED <<jobs, objects>> /\ workers[w].pc = "ocr" /\ k \in workers[w].todo BY DEF ReadPage, SkipPage
<1>2. workers[w].pc # "idle" BY <1>1
<1>3. PICK j \in Jobs : j = workers[w].job BY <1>2, BusyClean
<1>4. /\ TypeOK /\ CauselessSlot(w) /\ workers[w] \in WorkerType /\ Imaged(j)
      /\ jobs[j].status \in {"processing", "ocr_complete"}
      /\ workers[w].todo \cup workers[w].got \subseteq PageRefs(j)
  BY <1>1, <1>2, <1>3, BusyClean DEF FeedingPC
<1>5. Readable(w, k)
  <2>1. jobs[j].status \notin {"none", "uploading"} BY <1>4
  <2>2. PICK p \in Pages : k = Image(j, p) BY <1>1, <1>4, <2>1, AllKeys
  <2>. QED BY <1>4, <2>2 DEF Imaged, Readable
<1>6. ReadPage(w, k)
  <2>1. ~SkipPage(w, k) BY <1>5 DEF SkipPage
  <2>. QED BY <2>1
<1>7. PICK todo, got : /\ workers' = [workers EXCEPT ![w].todo = todo, ![w].got = got]
                       /\ todo = workers[w].todo \ {k} /\ got = workers[w].got \cup {k}
  BY <1>4, <1>6 DEF ReadPage, TypeOK, WorkerType
<1>8. workers'[w] = [workers[w] EXCEPT !.todo = todo, !.got = got] BY <1>4, <1>7 DEF TypeOK
<1>9. /\ workers'[w].pc = "ocr" /\ workers'[w].job = j
      /\ workers'[w].todo = todo /\ workers'[w].got = got
      /\ \A v \in Workers : v # w => workers'[v] = workers[v]
  BY <1>1, <1>3, <1>4, <1>7, <1>8 DEF WorkerType, TypeOK
<1>10. CauselessSlot(w)'
  <2>1. PICK pc, resumed : pc = workers'[w].pc /\ resumed = workers'[w].resumed OBVIOUS
  <2>2. pc \notin {"failing", "faildelete"} BY <1>9, <2>1
  <2>3. Imaged(j)' BY <1>1, <1>4 DEF Imaged, Image
  <2>4. todo \cup got # {} BY <1>7
  <2>. QED BY <1>9, <2>1, <2>2, <2>3, <2>4, SlotClean
<1>. QED BY <1>1, <1>2, <1>3, <1>9, <1>10, GoesOnClean

\* The status "ocr_complete" keeps layer 4.
LEMMA OcrCompleteClean ==
    ASSUME IInv, QuietOK, QuietOK', Fed, Clean, NEW w \in Workers, OcrComplete(w)
    PROVE  Clean'
<1>1. UNCHANGED objects /\ workers[w].pc = "ocr" BY DEF OcrComplete
<1>2. workers[w].pc # "idle" BY <1>1
<1>3. PICK j \in Jobs : j = workers[w].job BY <1>2, BusyClean
<1>4. TypeOK /\ workers[w] \in WorkerType /\ Imaged(j) BY <1>1, <1>2, <1>3, BusyClean DEF FeedingPC
<1>5. PICK t, mode, pc :
        /\ workers' = [workers EXCEPT ![w].text = t, ![w].mode = mode, ![w].pc = pc]
        /\ pc = Route(w, mode)
        /\ mode = IF w \in Vision THEN ModeOf[j]
                  ELSE ResolveGenerationMode(PageTypeOf[t], workers[w].strategy)
  <2>1. PICK t : workers' = [workers EXCEPT ![w].text = t,
                     ![w].mode = IF w \in Vision THEN ModeOf[j]
                                 ELSE ResolveGenerationMode(PageTypeOf[t], workers[w].strategy),
                     ![w].pc = Route(w, IF w \in Vision THEN ModeOf[j]
                                        ELSE ResolveGenerationMode(PageTypeOf[t], workers[w].strategy))]
    BY <1>3 DEF OcrComplete
  <2>. QED BY <2>1
<1>6. pc \in {"save", "lookup", "generate"} BY <1>5 DEF Route
<1>7. workers'[w] = [workers[w] EXCEPT !.text = t, !.mode = mode, !.pc = pc] BY <1>4, <1>5 DEF TypeOK
<1>8. /\ workers'[w].pc = pc /\ workers'[w].job = j
      /\ \A v \in Workers : v # w => workers'[v] = workers[v]
  BY <1>3, <1>4, <1>5, <1>7 DEF WorkerType, TypeOK
<1>9. jobs'[j].status = "ocr_complete" /\ \A i \in Jobs : i # j => jobs'[i] = jobs[i]
  BY <1>3, <1>4, StatusFields DEF OcrComplete
<1>10. CauselessSlot(w)'
  <2>1. PICK todo, got, resumed :
          todo = workers'[w].todo /\ got = workers'[w].got /\ resumed = workers'[w].resumed
    OBVIOUS
  <2>2. pc \notin {"failing", "faildelete"} /\ pc # "ocr" BY <1>6
  <2>3. Imaged(j)' BY <1>1, <1>4 DEF Imaged, Image
  <2>. QED BY <1>8, <2>1, <2>2, <2>3, SlotClean
<1>. QED BY <1>1, <1>2, <1>3, <1>8, <1>9, <1>10, GoesOnClean

\* Every step of a slot in which nothing outside fails keeps layer 4.
LEMMA WorkerStepClean ==
    ASSUME Ordinary, IInv, Once, QuietOK, Fed, Clean, NEW w \in Workers, WorkerStep(w) \/ WorkerFault(w),
           \A kinds : Spend(kinds) => "external" \notin kinds
    PROVE  Clean'
<1>1. QuietOK' BY WorkerStepQuiet
<1>0. CauselessSlot(w) BY DEF Clean
<1>2. CASE WorkerStep(w)
  <2>1. ASSUME NEW j \in Jobs, ClaimPendingJob(w, j) PROVE Clean' BY <1>1, <2>1, ClaimClean
  <2>2. CASE LoadJob(w) BY <1>1, <2>2, LoadClean
  <2>3. CASE ListPages(w) BY <1>1, <2>3, ListClean
  <2>4. ASSUME NEW k, ReadPage(w, k) \/ SkipPage(w, k) PROVE Clean' BY <1>1, <2>4, PageClean
  <2>5. CASE NoPageRead(w) BY <1>0, <2>5 DEF NoPageRead, CauselessSlot
  <2>6. CASE \/ LinkQuestion(w) \/ StoreCache(w) \/ UpdateJobQuizID(w) \/ ClearPipelineText(w)
             \/ SavePipelineText(w) \/ BeginJob(w)
    BY <1>1, <2>6, GotoClean
  <2>7. CASE OcrComplete(w) BY <1>1, <2>7, OcrCompleteClean
  <2>8. CASE AskStrategy(w) \/ FinishJob(w) \/ FailJob(w) BY <1>1, <2>8, GiveUpClean
  <2>9. CASE CreateQuiz(w) \/ LookupCache(w) BY <1>1, <2>9, AnswersClean
  <2>10. ASSUME NEW k, DeleteObject(w, k) PROVE Clean' BY <1>1, <2>10, DeletesClean
  <2>11. CASE FailJobList(w) BY <1>0, <2>11 DEF FailJobList, CauselessSlot
  <2>. QED BY <1>2, <2>1, <2>2, <2>3, <2>4, <2>5, <2>6, <2>7, <2>8, <2>9, <2>10, <2>11 DEF WorkerStep
<1>3. CASE WorkerFault(w)
  <2>1. CASE RateLimited(w) \/ WorkerStops(w) BY <1>1, <2>1, GiveUpClean
  <2>2. CASE WorkerError(w) BY <2>2 DEF WorkerError
  <2>. QED BY <1>3, <2>1, <2>2 DEF WorkerFault
<1>. QED BY <1>2, <1>3

\* The steps of clients keep layer 4.
LEMMA UploadClean ==
    ASSUME IInv, Once, QuietOK, Fed, Clean, Quiet, NEW j \in Jobs, NEW p \in Pages, UploadStep(j, p),
           \A kinds : Spend(kinds) => "external" \notin kinds
    PROVE  Clean'
<1>0. CASE UndoUpload(j, p)
  <2>1. UNCHANGED <<jobs, workers>> /\ objects' \in {objects, objects \ {Key(j, p)}} /\ uploads[j][p].pc = "undo"
    BY <1>0 DEF UndoUpload
  <2>2. jobs[j].status = "uploading" BY <2>1 DEF QuietOK, UploadAt
  <2>3. \A v \in Workers : workers[v].job # j BY <2>2, NotLive
  <2>4. \A k \in objects : k \in objects' \/ k[1] = j BY <2>1 DEF Key
  <2>5. ASSUME NEW i \in Jobs, i # j, Imaged(i) PROVE Imaged(i)'
    BY <2>4, <2>5, StubIsStub DEF Imaged, Image
  <2>6. ASSUME NEW i \in Jobs PROVE Causeless(i)'
    BY <2>1, <2>2, <2>5 DEF Clean, Causeless
  <2>7. ASSUME NEW v \in Workers PROVE CauselessSlot(v)'
    <3>1. CauselessSlot(v) /\ workers'[v] = workers[v] /\ workers[v].job # j BY <2>1, <2>3 DEF Clean
    <3>2. CASE workers[v].pc = "idle" BY <3>1, <3>2 DEF CauselessSlot, FeedingPC
    <3>3. CASE workers[v].pc # "idle"
      <4>1. PICK i \in Jobs : i = workers[v].job BY <3>3 DEF IInv, Safe, SlotOK, SlotText
      <4>2. Imaged(i) => Imaged(i)' BY <2>5, <3>1, <4>1
      <4>3. Imaged(workers[v].job)' = Imaged(i)' BY <3>1, <4>1 DEF Imaged, Image
      <4>. QED BY <3>1, <4>1, <4>2, <4>3 DEF CauselessSlot
    <3>. QED BY <3>2, <3>3
  <2>. QED BY <2>6, <2>7 DEF Clean
<1>1. ~UndoUpload(j, p) => UNCHANGED workers /\ objects \subseteq objects'
  BY DEF UploadStep, PutPage, MarkPageUploaded, UploadFails, CheckAllPagesUploaded, QueueUploadedJob, AbandonUpload
<1>2. CASE ~QueueUploadedJob(j, p) /\ ~UndoUpload(j, p)
  <2>1. UNCHANGED jobs
    BY <1>2 DEF UploadStep, PutPage, MarkPageUploaded, UploadFails, CheckAllPagesUploaded, AbandonUpload
  <2>. QED BY <1>1, <1>2, <2>1, JobClean, ClientClean
<1>3. CASE QueueUploadedJob(j, p) /\ ~UndoUpload(j, p)
  <2>1. TypeOK /\ UpdateJobStatus(j, "pending") /\ uploads[j][p].pc = "ready"
    BY <1>3 DEF IInv, QueueUploadedJob
  <2>2. jobs'[j].status = "pending" /\ \A i \in Jobs : i # j => jobs'[i] = jobs[i] BY <2>1, StatusFields
  <2>3. jobs[j].status = "uploading" /\ \A q \in Pages : pages[j][q].key = Image(j, q)
    BY <2>1 DEF QuietOK, UploadAt
  <2>4. Imaged(j) BY <2>3 DEF Fed, FedJob, Imaged
  <2>5. Imaged(j)' BY <1>1, <1>3, <2>4 DEF Imaged, Image
  <2>6. Causeless(j)' BY <2>2, <2>5 DEF Causeless
  <2>. QED BY <1>1, <1>3, <2>2, <2>6, JobClean, ClientClean
<1>. QED BY <1>0, <1>2, <1>3

\* Layer 4 holds at the start.
LEMMA InitClean ==
    ASSUME Init
    PROVE  Clean
BY DEF Init, IdleWorker, Clean, Causeless, CauselessSlot, FeedingPC

\* Every step keeps layer 4.
LEMMA NextClean ==
    ASSUME Ordinary, Quiet, NeverOld, IInv, Once, QuietOK, Fed, NoCause, [Next]_vars
    PROVE  NoCause'
<1>. SUFFICES ASSUME Unspent' PROVE Clean' BY DEF NoCause
<1>1. BudgetOK /\ OldOK /\ TypeOK BY DEF Once, Fed, IInv
<1>2. Unspent /\ \A kinds : Spend(kinds) => "external" \notin kinds BY <1>1, WasUnspent
<1>3. Clean BY <1>2 DEF NoCause
<1>4. ASSUME UNCHANGED <<jobs, workers, objects>> PROVE Clean' BY <1>3, <1>4, JobClean, ClientClean
<1>5. ASSUME NEW j \in Jobs, CreateJob(j) PROVE Clean'
  <2>1. UNCHANGED <<workers, objects>> BY <1>5 DEF CreateJob
  <2>2. jobs'[j].status = "uploading" /\ \A i \in Jobs : i # j => jobs'[i] = jobs[i]
    BY <1>1, <1>5, Created DEF Ordinary
  <2>3. Causeless(j)' BY <2>2 DEF Causeless
  <2>. QED BY <1>3, <2>1, <2>2, <2>3, JobClean, ClientClean
<1>6. ASSUME NEW j \in Jobs, CreatePage(j) PROVE Clean' BY <1>4, <1>6 DEF CreatePage
<1>7. ASSUME NEW j \in Jobs, NEW p \in Pages, UploadStep(j, p) PROVE Clean' BY <1>2, <1>3, <1>7, UploadClean
<1>8. ASSUME NEW j \in Jobs, NEW s \in Strategies, CheckStrategy(j, s) PROVE Clean'
  BY <1>4, <1>8 DEF CheckStrategy
<1>9. ASSUME NEW j \in Jobs, NEW s \in Strategies, UpdateJobStrategy(j, s) PROVE Clean'
  <2>1. UNCHANGED <<workers, objects>> BY <1>9 DEF UpdateJobStrategy
  <2>2. jobs[j].status = "needs_strategy" BY <1>9 DEF UpdateJobStrategy, QuietOK, ChoiceAt
  <2>3. jobs[j] \in JobType BY <1>1 DEF TypeOK
  <2>4. jobs'[j] = [jobs[j] EXCEPT !.strategy = s, !.status = "pending", !.stale = FALSE]
    BY <1>1, <1>9 DEF UpdateJobStrategy, TypeOK
  <2>5. jobs'[j].status = "pending" /\ \A i \in Jobs : i # j => jobs'[i] = jobs[i]
    BY <1>1, <1>9, <2>3, <2>4 DEF JobType, UpdateJobStrategy, TypeOK
  <2>6. Imaged(j)' BY <1>3, <2>1, <2>2 DEF Clean, Causeless, Imaged, Image
  <2>7. Causeless(j)' BY <2>5, <2>6 DEF Causeless
  <2>. QED BY <1>3, <2>1, <2>5, <2>7, JobClean, ClientClean
<1>10. ASSUME NEW j \in Jobs, RetryJob(j) \/ TimePasses(j) \/ DayPasses(j) PROVE Clean'
  <2>1. CASE RetryJob(j) BY <1>1, <2>1, QuietNever DEF RetryJob
  <2>2. CASE TimePasses(j)
    <3>1. UNCHANGED <<workers, objects>> /\ jobs[j].status = "processing" BY <2>2 DEF TimePasses
    <3>2. jobs[j] \in JobType BY <1>1 DEF TypeOK
    <3>3. jobs'[j] = [jobs[j] EXCEPT !.stale = TRUE] BY <1>1, <2>2 DEF TimePasses, TypeOK
    <3>4. jobs'[j].status = "processing" /\ \A i \in Jobs : i # j => jobs'[i] = jobs[i]
      BY <1>1, <2>2, <3>1, <3>2, <3>3 DEF JobType, TimePasses, TypeOK
    <3>5. Imaged(j)' BY <1>3, <3>1 DEF Clean, Causeless, Imaged, Image
    <3>6. Causeless(j)' BY <3>4, <3>5 DEF Causeless
    <3>. QED BY <1>3, <3>1, <3>4, <3>6, JobClean, ClientClean
  <2>3. CASE DayPasses(j) BY <1>4, <2>3 DEF DayPasses
  <2>. QED BY <1>10, <2>1, <2>2, <2>3
<1>11. ASSUME NEW q \in 1..Len(quizzes), PublishDraft(q) PROVE Clean'
  <2>1. UNCHANGED <<workers, objects>> BY <1>11 DEF PublishDraft
  <2>2. ASSUME NEW i \in Jobs PROVE Causeless(i)'
    <3>1. jobs[i] \in JobType BY <1>1 DEF TypeOK
    <3>2. CASE jobs[i].quiz = q
      <4>1. jobs'[i] = [jobs[i] EXCEPT !.status = "quiz_ready", !.stale = FALSE]
        BY <1>11, <3>2 DEF PublishDraft
      <4>2. jobs'[i].status = "quiz_ready" BY <3>1, <4>1 DEF JobType
      <4>. QED BY <4>2 DEF Causeless
    <3>3. CASE jobs[i].quiz # q
      <4>1. jobs'[i] = jobs[i] BY <1>11, <3>3 DEF PublishDraft
      <4>. QED BY <1>3, <2>1, <4>1, JobClean
    <3>. QED BY <3>2, <3>3
  <2>. QED BY <1>3, <2>1, <2>2, ClientClean
<1>12. ASSUME NEW w \in Workers, WorkerStep(w) \/ WorkerFault(w) PROVE Clean'
  BY <1>2, <1>3, <1>12, WorkerStepClean
<1>13. ASSUME NEW t \in Texts, EvictCache(t) PROVE Clean' BY <1>4, <1>13 DEF EvictCache
<1>14. CASE CleanupList BY <1>4, <1>14 DEF CleanupList
<1>15. ASSUME NEW k \in sweep, CleanupDelete(k) PROVE Clean' BY <1>1, <1>15 DEF OldOK
<1>16. CASE UNCHANGED vars BY <1>4, <1>16 DEF vars
<1>. QED
  BY <1>5, <1>6, <1>7, <1>8, <1>9, <1>10, <1>11, <1>12, <1>13, <1>14, <1>15, <1>16 DEF Next

\* A scanned job fails only if storage, OCR, the AI or the database failed it (worker.go:690-713):
\* no order of claims, rate limits, crashes, choices and reclaims alone makes it fail.
THEOREM FailuresHaveCauses ==
    ASSUME Ordinary, Quiet, NeverOld
    PROVE  Spec => []FailureHasCause
<1>1. Budget["reupload"] = 0 BY DEF Quiet
<1>2. Spec => []Once BY <1>1, EveryPageOnce
<1>3. Spec => []QuietOK BY QuietInvariance
<1>4. Spec => []Fed BY FedInvariance
<1>5. Init => NoCause BY InitClean DEF NoCause
<1>6. IInv /\ Once /\ QuietOK /\ Fed /\ NoCause /\ [Next]_vars => NoCause' BY NextClean
<1>7. Once /\ NoCause => FailureHasCause
  <2>. SUFFICES ASSUME Once, NoCause, NEW j \in Jobs, jobs[j].status = "failed"
                PROVE  budget["external"] < Budget["external"]
    BY DEF FailureHasCause
  <2>1. ~Unspent BY DEF NoCause, Clean, Causeless
  <2>2. PICK e \in FaultKinds : e = "external" BY DEF FaultKinds
  <2>3. budget[e] \in Nat /\ Budget[e] \in Nat /\ budget[e] <= Budget[e]
    BY ScanAssumption DEF Once, BudgetOK
  <2>4. budget[e] # Budget[e] BY <2>1, <2>2 DEF Unspent
  <2>5. budget[e] < Budget[e] BY <2>3, <2>4
  <2>. QED BY <2>2, <2>5
<1>. QED BY Invariance, <1>2, <1>3, <1>4, <1>5, <1>6, <1>7, PTL DEF Spec
====
