---------------------------- MODULE ScanJobsProofs ----------------------------
(***************************************************************************)
(* For every set of jobs, slots and texts and every number of faults: the  *)
(* quiz a job or a cache entry points at is complete and about the right   *)
(* text, and a job announced as ready has one.                             *)
(*                                                                         *)
(* None of the four safety properties is inductive by itself, because what *)
(* a slot writes into a job or into the cache comes out of its local       *)
(* variables.  The inductive invariant therefore says, for each stage a    *)
(* slot can be in, what it may rely on about the quiz and text it holds,   *)
(* and that no two slots are writing the same quiz.                        *)
(***************************************************************************)
EXTENDS ScanJobs, SequenceTheorems, TLAPS

\* The quiz may be shown to the user of the job.
Showable(q, j) ==
    q \in QuizIds /\ quizzes[q].linked = NQuestions /\ quizzes[q].text \in TextsOf[j]

\* The quiz may be handed to whoever scans the text.
Shareable(q, t) ==
    /\ q \in QuizIds /\ quizzes[q].linked = NQuestions
    /\ ~quizzes[q].extract /\ quizzes[q].status = "published" /\ quizzes[q].text = t

\* Only extracted exams start as drafts.
QuizOK == \A q \in QuizIds : ~quizzes[q].extract => quizzes[q].status = "published"

\* The three things a row of scan_jobs promises.
JobOK(j) ==
    /\ jobs[j].quiz # NoQuiz => Showable(jobs[j].quiz, j)
    /\ jobs[j].status \in {"quiz_ready", "review_ready"} => jobs[j].quiz # NoQuiz
    /\ jobs[j].pipeline # NoText => jobs[j].pipeline \in TextsOf[j]

\* An entry is shareable.
CacheOK(t) == cache[t] # NoQuiz => Shareable(cache[t], t)

\* A slot that has read its pages holds a text of its job.
SlotText(w) ==
    LET s == workers[w] IN
    /\ s.pc # "idle" => s.job \in Jobs
    /\ s.resumed => s.pc # "idle" /\ s.text \in TextsOf[s.job]
    /\ s.pc \in {"save", "lookup", "generate", "link", "store"} => s.text \in TextsOf[s.job]
    /\ s.pc \in {"lookup", "store"} => s.mode # "existing_questions"

\* The quiz being written is the slot's own and has room for the next question.
SlotLink(w) ==
    LET s == workers[w] IN
    s.pc = "link" =>
        /\ s.quiz \in QuizIds
        /\ quizzes[s.quiz].linked < NQuestions
        /\ quizzes[s.quiz].text = s.text
        /\ quizzes[s.quiz].extract = (s.mode = "existing_questions")

\* A quiz about to be recorded is complete, and one recorded stays recorded.
SlotQuiz(w) ==
    LET s == workers[w] IN
    /\ s.pc \in {"store", "setquiz", "hit"} => Showable(s.quiz, s.job)
    /\ s.pc = "store" => Shareable(s.quiz, s.text)
    /\ s.pc \in {"delete", "clear", "final"} => jobs[s.job].quiz # NoQuiz

\* What a slot may rely on at its stage.
SlotOK(w) == SlotText(w) /\ SlotLink(w) /\ SlotQuiz(w)

\* No two slots write the same quiz.
OneWriter ==
    \A v, w \in Workers :
        v # w /\ workers[v].pc = "link" /\ workers[w].pc = "link"
            => workers[v].quiz # workers[w].quiz

\* The inductive invariant, without and with the types.
Safe ==
    /\ QuizOK
    /\ \A j \in Jobs : JobOK(j)
    /\ \A t \in Texts : CacheOK(t)
    /\ \A w \in Workers : SlotOK(w)
    /\ OneWriter

IInv == TypeOK /\ Safe

(* ------------------------- types of the single parts ------------------- *)

\* UpdateJobStatus keeps the rows of scan_jobs well-formed.
LEMMA StatusType ==
    ASSUME TypeOK, NEW j \in Jobs, NEW s \in Statuses, UpdateJobStatus(j, s)
    PROVE  jobs' \in [Jobs -> JobType]
<1>1. jobs[j] \in JobType BY DEF TypeOK
<1>. QED BY <1>1 DEF TypeOK, UpdateJobStatus, JobType

\* So does writing any well-formed row.
LEMMA RowType ==
    ASSUME TypeOK, NEW j \in Jobs, NEW r \in JobType, jobs' = [jobs EXCEPT ![j] = r]
    PROVE  jobs' \in [Jobs -> JobType]
BY DEF TypeOK

\* A fault is taken from a budget that had one.
LEMMA SpendType ==
    ASSUME TypeOK, NEW kinds, kinds \subseteq FaultKinds, Spend(kinds)
    PROVE  budget' \in [FaultKinds -> Nat]
BY DEF TypeOK, Spend

\* A slot that gets a well-formed record leaves the slots well-formed.
LEMMA SlotType ==
    ASSUME TypeOK, NEW w \in Workers, NEW r \in WorkerType, workers' = [workers EXCEPT ![w] = r]
    PROVE  workers' \in [Workers -> WorkerType]
BY DEF TypeOK

\* A slot that only goes on to its next statement stays well-formed.
LEMMA GotoType ==
    ASSUME TypeOK, NEW w \in Workers, NEW pc \in WorkerPC, Goto(w, pc)
    PROVE  workers' \in [Workers -> WorkerType]
<1>1. workers[w] \in WorkerType BY DEF TypeOK
<1>2. [workers[w] EXCEPT !.pc = pc] \in WorkerType BY <1>1 DEF WorkerType
<1>. QED BY <1>2 DEF TypeOK, Goto

\* The record of an idle slot is well-formed.
LEMMA IdleType == IdleWorker \in WorkerType
BY DEF IdleWorker, WorkerType, WorkerPC, AnyStrategy, NoStrategy, NoQuiz

\* A slot that gives its job up becomes an idle one.
LEMMA RestType ==
    ASSUME TypeOK, NEW w \in Workers, Rest(w)
    PROVE  workers' \in [Workers -> WorkerType]
BY IdleType DEF TypeOK, Rest

\* Writing an upload record or a page row keeps the tables well-formed.
LEMMA UploadsType ==
    ASSUME TypeOK, NEW j \in Jobs, NEW p \in Pages, NEW u \in UploadType,
           uploads' = [uploads EXCEPT ![j][p] = u]
    PROVE  uploads' \in [Jobs -> [Pages -> UploadType]]
BY DEF TypeOK

\* An upload that only moves to its next statement stays well-formed.
LEMMA UploadPCType ==
    ASSUME TypeOK, NEW j \in Jobs, NEW p \in Pages,
           NEW pc \in {"idle", "put", "undo", "marked", "ready"},
           uploads' = [uploads EXCEPT ![j][p].pc = pc]
    PROVE  uploads' \in [Jobs -> [Pages -> UploadType]]
<1>1. uploads[j][p] \in UploadType BY DEF TypeOK
<1>2. [uploads[j][p] EXCEPT !.pc = pc] \in UploadType BY <1>1 DEF UploadType
<1>. QED BY <1>2 DEF TypeOK

\* Writing a page row keeps scan_pages well-formed.
LEMMA PagesType ==
    ASSUME TypeOK, NEW j \in Jobs, NEW p \in Pages, NEW r \in PageType,
           pages' = [pages EXCEPT ![j][p] = r]
    PROVE  pages' \in [Jobs -> [Pages -> PageType]]
BY DEF TypeOK

\* The key of the upload in flight is an object key.
LEMMA KeyType ==
    ASSUME TypeOK, NEW j \in Jobs, NEW p \in Pages
    PROVE  Key(j, p) \in Keys
<1>1. uploads[j][p] \in UploadType BY DEF TypeOK
<1>. QED BY <1>1 DEF Key, Keys, UploadType

\* The references of a job's pages are object keys.
LEMMA RefsType ==
    ASSUME TypeOK, NEW j \in Jobs
    PROVE  PageRefs(j) \subseteq Keys
<1>1. \A p \in Pages : pages[j][p].key \in Keys \cup {NoKey} BY DEF TypeOK, PageType
<1>. QED BY <1>1 DEF PageRefs, PageRows

(* -------------------------- types: the client steps -------------------- *)

\* CreateJob adds a well-formed row.
LEMMA CreateJobType ==
    ASSUME TypeOK, NEW j \in Jobs, CreateJob(j)
    PROVE  TypeOK'
<1>1. UNCHANGED <<pages, objects, quizzes, cache, workers, uploads, choosing, aged, sweep, broken, budget>>
  BY DEF CreateJob, clientVars, cleanupVars
<1>2. jobs' \in [Jobs -> JobType]
  <2>. DEFINE st == IF j \in Inline THEN "pending" ELSE "uploading"
  <2>1. PICK s \in AnyStrategy :
          jobs' = [jobs EXCEPT ![j].status = st, ![j].strategy = s, ![j].stale = FALSE]
    BY ScanAssumption DEF CreateJob
  <2>2. st \in Statuses BY DEF Statuses
  <2>3. jobs[j] \in JobType BY DEF TypeOK
  <2>4. [jobs[j] EXCEPT !.status = st, !.strategy = s, !.stale = FALSE] \in JobType
    BY <2>2, <2>3 DEF JobType
  <2>5. jobs' = [jobs EXCEPT ![j] = [jobs[j] EXCEPT !.status = st, !.strategy = s, !.stale = FALSE]]
    BY <2>1 DEF TypeOK
  <2>. QED BY <2>4, <2>5, RowType
<1>. QED BY <1>1, <1>2 DEF TypeOK

\* CreatePage adds a page row with no image, or with the stub of a source text.
LEMMA CreatePageType ==
    ASSUME TypeOK, NEW j \in Jobs, CreatePage(j)
    PROVE  TypeOK'
<1>1. UNCHANGED <<jobs, objects, quizzes, cache, workers, uploads, choosing, aged, sweep, broken, budget>>
  BY DEF CreatePage, clientVars, cleanupVars
<1>2. pages' \in [Jobs -> [Pages -> PageType]]
  <2>. DEFINE p == Cardinality(PageRows(j)) + 1
              key == IF j \in Inline THEN <<j, p, 0>> ELSE NoKey
              row == [pages[j][p] EXCEPT !.upload = "pending", !.key = key]
  <2>1. p \in Pages BY DEF CreatePage
  <2>2. pages[j][p] \in PageType BY <2>1 DEF TypeOK
  <2>3. key \in Keys \cup {NoKey} BY <2>1 DEF Keys
  <2>4. row \in PageType BY <2>2, <2>3 DEF PageType
  <2>5. pages' = [pages EXCEPT ![j][p] = row] BY <2>1 DEF CreatePage, TypeOK
  <2>. QED BY <2>1, <2>4, <2>5, PagesType
<1>. QED BY <1>1, <1>2 DEF TypeOK

\* Storing an image makes a fresh key of the page.
LEMMA PutPageType ==
    ASSUME TypeOK, NEW j \in Jobs, NEW p \in Pages, PutPage(j, p)
    PROVE  TypeOK'
<1>1. UNCHANGED <<jobs, pages, quizzes, cache, workers, choosing, aged, sweep, broken>>
  BY DEF PutPage, cleanupVars
<1>2. uploads[j][p] \in UploadType BY DEF TypeOK
<1>3. uploads' \in [Jobs -> [Pages -> UploadType]]
  <2>1. [pc |-> "put", n |-> uploads[j][p].n + 1] \in UploadType BY <1>2 DEF UploadType
  <2>. QED BY <2>1, UploadsType DEF PutPage
<1>4. objects' \subseteq Keys
  <2>1. <<j, p, uploads[j][p].n + 1>> \in Keys BY <1>2 DEF Keys, UploadType
  <2>. QED BY <2>1 DEF PutPage, TypeOK
<1>5. budget' \in [FaultKinds -> Nat]
  BY SpendType DEF PutPage, FaultKinds
<1>. QED BY <1>1, <1>3, <1>4, <1>5 DEF TypeOK

\* MarkPageUploaded records the key the request has stored.
LEMMA MarkPageUploadedType ==
    ASSUME TypeOK, NEW j \in Jobs, NEW p \in Pages, MarkPageUploaded(j, p)
    PROVE  TypeOK'
<1>1. UNCHANGED <<jobs, objects, quizzes, cache, workers, choosing, aged, sweep, broken, budget>>
  BY DEF MarkPageUploaded, cleanupVars
<1>2. uploads' \in [Jobs -> [Pages -> UploadType]]
  BY UploadPCType DEF MarkPageUploaded
<1>3. pages' \in [Jobs -> [Pages -> PageType]]
  <2>. DEFINE row == [pages[j][p] EXCEPT !.upload = "uploaded", !.key = Key(j, p)]
  <2>1. pages[j][p] \in PageType BY DEF TypeOK
  <2>2. row \in PageType BY <2>1, KeyType DEF PageType
  <2>3. pages' = [pages EXCEPT ![j][p] = row] BY DEF MarkPageUploaded, TypeOK
  <2>. QED BY <2>2, <2>3, PagesType
<1>. QED BY <1>1, <1>2, <1>3 DEF TypeOK

\* However an upload request ends, rows and keys stay well-formed.
LEMMA UploadEndsType ==
    ASSUME TypeOK, NEW j \in Jobs, NEW p \in Pages,
           \/ UploadFails(j, p) \/ UndoUpload(j, p) \/ CheckAllPagesUploaded(j, p)
           \/ QueueUploadedJob(j, p) \/ AbandonUpload(j, p)
    PROVE  TypeOK'
<1>1. UNCHANGED <<pages, quizzes, cache, workers, choosing, aged, sweep, broken>>
  BY DEF UploadFails, UndoUpload, CheckAllPagesUploaded, QueueUploadedJob, AbandonUpload, cleanupVars
<1>2. uploads' \in [Jobs -> [Pages -> UploadType]]
  <2>1. PICK pc \in {"idle", "put", "undo", "marked", "ready"} :
          uploads' = [uploads EXCEPT ![j][p].pc = pc]
    BY DEF UploadFails, UndoUpload, CheckAllPagesUploaded, QueueUploadedJob, AbandonUpload
  <2>. QED BY <2>1, UploadPCType
<1>3. jobs' \in [Jobs -> JobType]
  <2>1. CASE QueueUploadedJob(j, p) BY <2>1, StatusType DEF QueueUploadedJob, Statuses
  <2>2. CASE ~QueueUploadedJob(j, p)
    BY <2>2 DEF UploadFails, UndoUpload, CheckAllPagesUploaded, AbandonUpload, TypeOK
  <2>. QED BY <2>1, <2>2
<1>4. objects' \subseteq Keys
  BY DEF UploadFails, UndoUpload, CheckAllPagesUploaded, QueueUploadedJob, AbandonUpload, TypeOK
<1>5. budget' \in [FaultKinds -> Nat]
  <2>1. CASE UploadFails(j, p) BY <2>1, SpendType DEF UploadFails, FaultKinds
  <2>2. CASE AbandonUpload(j, p)
    <3>1. Spend({"crash"}) \/ Spend({"external"}) BY <2>2 DEF AbandonUpload
    <3>. QED BY <3>1, SpendType DEF FaultKinds
  <2>4. CASE UndoUpload(j, p)
    <3>1. UNCHANGED budget \/ Spend({"external"}) BY <2>4 DEF UndoUpload
    <3>. QED BY <3>1, SpendType DEF TypeOK, FaultKinds
  <2>3. CASE CheckAllPagesUploaded(j, p) \/ QueueUploadedJob(j, p)
    BY <2>3 DEF CheckAllPagesUploaded, QueueUploadedJob, TypeOK
  <2>. QED BY <2>1, <2>2, <2>3, <2>4
<1>. QED BY <1>1, <1>2, <1>3, <1>4, <1>5 DEF TypeOK

\* Choosing a strategy writes one of the two strategies.
LEMMA ChooseType ==
    ASSUME TypeOK, NEW j \in Jobs, NEW s \in Strategies,
           CheckStrategy(j, s) \/ UpdateJobStrategy(j, s)
    PROVE  TypeOK'
<1>1. UNCHANGED <<pages, objects, quizzes, cache, workers, uploads, aged, sweep, broken>>
  BY DEF CheckStrategy, UpdateJobStrategy, cleanupVars
<1>2. choosing' \in SUBSET (Jobs \X Strategies)
  BY DEF CheckStrategy, UpdateJobStrategy, TypeOK
<1>3. jobs' \in [Jobs -> JobType]
  <2>1. CASE UpdateJobStrategy(j, s)
    <3>. DEFINE row == [jobs[j] EXCEPT !.strategy = s, !.status = "pending", !.stale = FALSE]
    <3>1. jobs[j] \in JobType BY DEF TypeOK
    <3>2. row \in JobType BY <3>1 DEF JobType, Statuses, AnyStrategy
    <3>3. jobs' = [jobs EXCEPT ![j] = row] BY <2>1 DEF UpdateJobStrategy, TypeOK
    <3>. QED BY <3>2, <3>3, RowType
  <2>2. CASE CheckStrategy(j, s) BY <2>2 DEF CheckStrategy, TypeOK
  <2>. QED BY <2>1, <2>2
<1>4. budget' \in [FaultKinds -> Nat]
  <2>1. CASE CheckStrategy(j, s) BY <2>1, SpendType DEF CheckStrategy, FaultKinds
  <2>2. CASE UpdateJobStrategy(j, s) BY <2>2 DEF UpdateJobStrategy, TypeOK
  <2>. QED BY <2>1, <2>2
<1>. QED BY <1>1, <1>2, <1>3, <1>4 DEF TypeOK

(* -------------------------- types: the slot steps ---------------------- *)

\* A busy slot holds a job, and the texts of that job are texts.
LEMMA SlotJob ==
    ASSUME TypeOK, NEW w \in Workers, SlotText(w), workers[w].pc # "idle"
    PROVE  /\ workers[w] \in WorkerType
           /\ workers[w].job \in Jobs
           /\ jobs[workers[w].job] \in JobType
           /\ TextsOf[workers[w].job] \subseteq Texts
<1>1. workers[w] \in WorkerType BY DEF TypeOK
<1>2. workers[w].job \in Jobs BY DEF SlotText
<1>. QED BY <1>1, <1>2, ScanAssumption DEF TypeOK

\* A claim gives the slot a job of the table.
LEMMA ClaimPendingJobType ==
    ASSUME TypeOK, NEW w \in Workers, NEW j \in Jobs, ClaimPendingJob(w, j)
    PROVE  TypeOK'
<1>1. UNCHANGED <<objects, quizzes, cache, budget, pages, uploads, choosing, aged, sweep, broken>>
  BY DEF ClaimPendingJob, workerFrame
<1>2. workers' \in [Workers -> WorkerType]
  <2>1. workers[w] \in WorkerType BY DEF TypeOK
  <2>2. [workers[w] EXCEPT !.pc = "load", !.job = j] \in WorkerType
    BY <2>1 DEF WorkerType, WorkerPC
  <2>. QED BY <2>2 DEF TypeOK, ClaimPendingJob
<1>3. jobs' \in [Jobs -> JobType] BY StatusType DEF ClaimPendingJob, Statuses
<1>. QED BY <1>1, <1>2, <1>3 DEF TypeOK

\* The row a slot loads yields a strategy and a text of the right type.
LEMMA LoadJobType ==
    ASSUME TypeOK, NEW w \in Workers, SlotText(w), LoadJob(w)
    PROVE  TypeOK'
<1>1. UNCHANGED <<jobs, objects, quizzes, cache, budget, pages, uploads, choosing, aged, sweep, broken>>
  BY DEF LoadJob, workerFrame
<1>2. workers' \in [Workers -> WorkerType]
  <2>. DEFINE job == jobs[workers[w].job]
              pc == IF job.status = "pending" THEN "begin" ELSE "list"
              text == IF w \in Vision THEN NoText ELSE job.pipeline
              resumed == w \notin Vision /\ job.pipeline # NoText
              slot == [workers[w] EXCEPT !.pc = pc, !.strategy = job.strategy,
                                         !.text = text, !.resumed = resumed]
  <2>1. workers[w] \in WorkerType /\ job \in JobType BY SlotJob DEF LoadJob
  <2>2. CASE Processable(job.status)
    <3>1. pc \in WorkerPC BY DEF WorkerPC
    <3>2. text \in Texts \cup {NoText} BY <2>1 DEF JobType
    <3>3. resumed \in BOOLEAN OBVIOUS
    <3>4. slot \in WorkerType
      <4>1. job.strategy \in AnyStrategy BY <2>1 DEF JobType
      <4>. HIDE DEF pc, text, resumed
      <4>. QED BY <2>1, <3>1, <3>2, <3>3, <4>1 DEF WorkerType
    <3>5. workers' = [workers EXCEPT ![w] = slot] BY <2>2 DEF LoadJob, TypeOK
    <3>. QED BY <3>4, <3>5, SlotType
  <2>3. CASE ~Processable(job.status) BY <2>3, RestType DEF LoadJob
  <2>. QED BY <2>2, <2>3
<1>. QED BY <1>1, <1>2 DEF TypeOK

\* The steps that set the status of the job and move on.
LEMMA StatusStepType ==
    ASSUME TypeOK, NEW w \in Workers, SlotText(w),
           \/ BeginJob(w) \/ AskStrategy(w) \/ RateLimited(w) \/ FinishJob(w) \/ FailJob(w)
    PROVE  TypeOK'
<1>1. UNCHANGED <<objects, quizzes, cache, pages, uploads, choosing, aged, sweep, broken>>
  BY DEF BeginJob, AskStrategy, RateLimited, FinishJob, FailJob, workerFrame
<1>2. workers[w].pc # "idle"
  BY DEF BeginJob, AskStrategy, RateLimited, FinishJob, FailJob, ImagesGone
<1>3. PICK s \in Statuses : UpdateJobStatus(workers[w].job, s)
  BY DEF BeginJob, AskStrategy, RateLimited, FinishJob, FailJob, FinalJobStatus, Statuses
<1>4. jobs' \in [Jobs -> JobType] BY <1>2, <1>3, SlotJob, StatusType
<1>5. workers' \in [Workers -> WorkerType]
  <2>1. CASE BeginJob(w) BY <2>1, GotoType DEF BeginJob, WorkerPC
  <2>2. CASE ~BeginJob(w)
    BY <2>2, RestType DEF AskStrategy, RateLimited, FinishJob, FailJob
  <2>. QED BY <2>1, <2>2
<1>6. budget' \in [FaultKinds -> Nat]
  <2>1. CASE RateLimited(w) BY <2>1, SpendType DEF RateLimited, FaultKinds
  <2>2. CASE ~RateLimited(w)
    BY <2>2 DEF BeginJob, AskStrategy, FinishJob, FailJob, TypeOK
  <2>. QED BY <2>1, <2>2
<1>. QED BY <1>1, <1>4, <1>5, <1>6 DEF TypeOK

\* The images a slot lists are keys of its job.
LEMMA ListPagesType ==
    ASSUME TypeOK, NEW w \in Workers, SlotText(w), ListPages(w)
    PROVE  TypeOK'
<1>1. UNCHANGED <<jobs, objects, quizzes, cache, budget, pages, uploads, choosing, aged, sweep, broken>>
  BY DEF ListPages, workerFrame
<1>2. workers' \in [Workers -> WorkerType]
  <2>. DEFINE refs == PageRefs(workers[w].job)
              slot == [workers[w] EXCEPT
                         !.pc = "ocr",
                         !.todo = IF workers[w].resumed THEN {} ELSE refs,
                         !.got = IF workers[w].resumed THEN refs ELSE {}]
  <2>1. workers[w] \in WorkerType /\ workers[w].job \in Jobs BY SlotJob DEF ListPages
  <2>2. refs \subseteq Keys BY <2>1, RefsType
  <2>3. slot \in WorkerType
    <3>. HIDE DEF refs
    <3>. QED BY <2>1, <2>2 DEF WorkerType, WorkerPC
  <2>4. workers' = [workers EXCEPT ![w] = slot] \/ Goto(w, "failing")
    BY DEF ListPages, TypeOK
  <2>. QED BY <2>3, <2>4, SlotType, GotoType DEF WorkerPC
<1>. QED BY <1>1, <1>2 DEF TypeOK

\* So are those failJob lists.
LEMMA FailJobListType ==
    ASSUME TypeOK, NEW w \in Workers, SlotText(w), FailJobList(w)
    PROVE  TypeOK'
<1>1. UNCHANGED <<jobs, objects, quizzes, cache, budget, pages, uploads, choosing, aged, sweep, broken>>
  BY DEF FailJobList, workerFrame
<1>2. workers' \in [Workers -> WorkerType]
  <2>. DEFINE refs == PageRefs(workers[w].job)
              slot == [workers[w] EXCEPT !.pc = "faildelete", !.got = refs]
  <2>1. workers[w] \in WorkerType /\ workers[w].job \in Jobs BY SlotJob DEF FailJobList
  <2>2. refs \subseteq Keys BY <2>1, RefsType
  <2>3. slot \in WorkerType
    <3>. HIDE DEF refs
    <3>. QED BY <2>1, <2>2 DEF WorkerType, WorkerPC
  <2>4. workers' = [workers EXCEPT ![w] = slot] BY DEF FailJobList, TypeOK
  <2>. QED BY <2>3, <2>4, SlotType
<1>. QED BY <1>1, <1>2 DEF TypeOK

\* Reading, skipping or deleting one of the images a slot has listed.
LEMMA ImageStepType ==
    ASSUME TypeOK, NEW w \in Workers, NEW k \in workers[w].todo \cup workers[w].got,
           ReadPage(w, k) \/ SkipPage(w, k) \/ DeleteObject(w, k)
    PROVE  TypeOK'
<1>1. UNCHANGED <<jobs, quizzes, cache, pages, uploads, choosing, aged, sweep, broken>>
  BY DEF ReadPage, SkipPage, DeleteObject, workerFrame
<1>2. workers[w] \in WorkerType BY DEF TypeOK
<1>3. k \in Keys BY <1>2 DEF WorkerType
<1>4. workers' \in [Workers -> WorkerType]
  <2>. DEFINE read == [workers[w] EXCEPT !.todo = @ \ {k}, !.got = @ \cup {k}]
              skip == [workers[w] EXCEPT !.todo = @ \ {k}]
              delete == [workers[w] EXCEPT !.got = @ \ {k}]
  <2>1. read \in WorkerType /\ skip \in WorkerType /\ delete \in WorkerType
    BY <1>2, <1>3 DEF WorkerType
  <2>2. \/ workers' = [workers EXCEPT ![w] = read]
        \/ workers' = [workers EXCEPT ![w] = skip]
        \/ workers' = [workers EXCEPT ![w] = delete]
    BY DEF ReadPage, SkipPage, DeleteObject, TypeOK
  <2>. HIDE DEF read, skip, delete
  <2>. QED BY <2>1, <2>2, SlotType
<1>5. objects' \subseteq Keys
  BY DEF ReadPage, SkipPage, DeleteObject, TypeOK
<1>6. budget' \in [FaultKinds -> Nat]
  <2>1. UNCHANGED budget \/ Spend({}) \/ Spend({"external"})
    BY DEF ReadPage, SkipPage, DeleteObject
  <2>. QED BY <2>1, SpendType DEF TypeOK, FaultKinds
<1>. QED BY <1>1, <1>4, <1>5, <1>6 DEF TypeOK

\* The text OCR produces and the mode it leads to are of the right type.
LEMMA OcrCompleteType ==
    ASSUME TypeOK, NEW w \in Workers, SlotText(w), OcrComplete(w)
    PROVE  TypeOK'
<1>1. UNCHANGED <<objects, quizzes, cache, budget, pages, uploads, choosing, aged, sweep, broken>>
  BY DEF OcrComplete, workerFrame
<1>2. /\ workers[w] \in WorkerType /\ workers[w].job \in Jobs
      /\ TextsOf[workers[w].job] \subseteq Texts
  BY SlotJob DEF OcrComplete
<1>3. jobs' \in [Jobs -> JobType] BY <1>2, StatusType DEF OcrComplete, Statuses
<1>4. workers' \in [Workers -> WorkerType]
  <2>1. PICK t \in IF workers[w].resumed THEN {workers[w].text} ELSE TextsOf[workers[w].job] :
          LET mode == IF w \in Vision THEN ModeOf[workers[w].job]
                      ELSE ResolveGenerationMode(PageTypeOf[t], workers[w].strategy) IN
          workers' = [workers EXCEPT ![w].text = t, ![w].mode = mode, ![w].pc = Route(w, mode)]
    BY DEF OcrComplete
  <2>. DEFINE mode == IF w \in Vision THEN ModeOf[workers[w].job]
                      ELSE ResolveGenerationMode(PageTypeOf[t], workers[w].strategy)
              slot == [workers[w] EXCEPT !.text = t, !.mode = mode, !.pc = Route(w, mode)]
  <2>2. t \in Texts \cup {NoText} BY <1>2, <2>1 DEF WorkerType
  <2>3. mode \in Modes \cup {"undecided"}
    BY <1>2, ScanAssumption DEF ResolveGenerationMode, Modes
  <2>4. Route(w, mode) \in WorkerPC BY DEF Route, WorkerPC
  <2>5. workers' = [workers EXCEPT ![w] = slot] BY <2>1 DEF TypeOK
  <2>6. slot \in WorkerType
    <3>. HIDE DEF mode
    <3>. QED BY <1>2, <2>2, <2>3, <2>4 DEF WorkerType
  <2>. QED BY <2>5, <2>6, SlotType
<1>. QED BY <1>1, <1>3, <1>4 DEF TypeOK

\* The steps that write another column of the job.
LEMMA RowStepType ==
    ASSUME TypeOK, NEW w \in Workers, SlotText(w),
           SavePipelineText(w) \/ UpdateJobQuizID(w) \/ ClearPipelineText(w)
    PROVE  TypeOK'
<1>1. UNCHANGED <<objects, quizzes, cache, budget, pages, uploads, choosing, aged, sweep, broken>>
  BY DEF SavePipelineText, UpdateJobQuizID, ClearPipelineText, workerFrame
<1>2. /\ workers[w] \in WorkerType /\ workers[w].job \in Jobs
      /\ jobs[workers[w].job] \in JobType
  BY SlotJob DEF SavePipelineText, UpdateJobQuizID, ClearPipelineText, ImagesGone
<1>3. workers' \in [Workers -> WorkerType]
  <2>1. PICK pc \in WorkerPC : Goto(w, pc)
    BY DEF SavePipelineText, UpdateJobQuizID, ClearPipelineText, WorkerPC
  <2>. QED BY <2>1, GotoType
<1>4. jobs' \in [Jobs -> JobType]
  <2>. DEFINE j == workers[w].job
              save == [jobs[j] EXCEPT !.pipeline = workers[w].text, !.stale = FALSE]
              quiz == [jobs[j] EXCEPT !.quiz = workers[w].quiz, !.stale = FALSE]
              clear == [jobs[j] EXCEPT !.pipeline = NoText, !.stale = FALSE]
  <2>1. save \in JobType /\ quiz \in JobType /\ clear \in JobType
    BY <1>2 DEF JobType, WorkerType
  <2>2. \/ jobs' = [jobs EXCEPT ![j] = save]
        \/ jobs' = [jobs EXCEPT ![j] = quiz]
        \/ jobs' = [jobs EXCEPT ![j] = clear]
    BY <1>2 DEF SavePipelineText, UpdateJobQuizID, ClearPipelineText, TypeOK
  <2>. HIDE DEF save, quiz, clear
  <2>. QED BY <1>2, <2>1, <2>2, RowType
<1>. QED BY <1>1, <1>3, <1>4 DEF TypeOK

\* A cache entry is the id of a quiz, under a text.
LEMMA CacheStepType ==
    ASSUME TypeOK, NEW w \in Workers, SlotOK(w), LookupCache(w) \/ StoreCache(w)
    PROVE  TypeOK'
<1>1. UNCHANGED <<jobs, objects, quizzes, budget, pages, uploads, choosing, aged, sweep, broken>>
  BY DEF LookupCache, StoreCache, workerFrame
<1>2. /\ workers[w] \in WorkerType /\ workers[w].text \in Texts
  <2>1. SlotText(w) /\ workers[w].pc \in {"lookup", "store"} BY DEF LookupCache, StoreCache, SlotOK
  <2>2. /\ workers[w] \in WorkerType /\ TextsOf[workers[w].job] \subseteq Texts
    BY <2>1, SlotJob
  <2>. QED BY <2>1, <2>2 DEF SlotText
<1>3. workers' \in [Workers -> WorkerType]
  <2>1. CASE LookupCache(w)
    <3>. DEFINE hit == CachedQuiz(workers[w].text)
                slot == [workers[w] EXCEPT !.quiz = hit,
                           !.pc = IF hit = NoQuiz THEN "generate" ELSE "hit"]
    <3>1. hit \in Nat BY <1>2 DEF CachedQuiz, TypeOK
    <3>2. slot \in WorkerType
      <4>. HIDE DEF hit
      <4>. QED BY <1>2, <3>1 DEF WorkerType, WorkerPC
    <3>3. workers' = [workers EXCEPT ![w] = slot] BY <2>1 DEF LookupCache, TypeOK
    <3>. QED BY <3>2, <3>3, SlotType
  <2>2. CASE StoreCache(w) BY <2>2, GotoType DEF StoreCache, WorkerPC
  <2>. QED BY <2>1, <2>2
<1>4. cache' \in [Texts -> Nat]
  BY <1>2 DEF LookupCache, StoreCache, TypeOK, WorkerType
<1>. QED BY <1>1, <1>3, <1>4 DEF TypeOK

\* A new quiz takes the next id and leaves the others as they were.
LEMMA CreateQuizType ==
    ASSUME TypeOK, NEW w \in Workers, SlotText(w), CreateQuiz(w)
    PROVE  /\ TypeOK'
           /\ Len(quizzes') = Len(quizzes) + 1
           /\ \A q \in QuizIds : quizzes'[q] = quizzes[q]
           /\ quizzes'[Len(quizzes) + 1] =
                [status |-> IF workers[w].mode = "existing_questions" THEN "draft" ELSE "published",
                 extract |-> (workers[w].mode = "existing_questions"), linked |-> 0,
                 text |-> workers[w].text]
<1>1. UNCHANGED <<jobs, objects, cache, budget, pages, uploads, choosing, aged, sweep, broken>>
  BY DEF CreateQuiz, workerFrame
<1>2. workers[w] \in WorkerType /\ workers[w].text \in Texts
  BY SlotJob DEF CreateQuiz, SlotText
<1>3. quizzes \in Seq(QuizType) BY DEF TypeOK
<1>. DEFINE extract == workers[w].mode = "existing_questions"
            quiz == [status |-> IF extract THEN "draft" ELSE "published",
                     extract |-> extract, linked |-> 0, text |-> workers[w].text]
<1>4. quiz \in QuizType BY <1>2, ScanAssumption DEF QuizType
<1>5. quizzes' = Append(quizzes, quiz) BY DEF CreateQuiz
<1>6. /\ quizzes' \in Seq(QuizType) /\ Len(quizzes') = Len(quizzes) + 1
      /\ \A q \in QuizIds : quizzes'[q] = quizzes[q]
      /\ quizzes'[Len(quizzes) + 1] = quiz
  <2>. HIDE DEF quiz
  <2>. QED BY <1>3, <1>4, <1>5, AppendProperties DEF QuizIds
<1>7. workers' \in [Workers -> WorkerType]
  <2>. DEFINE slot == [workers[w] EXCEPT !.quiz = Len(quizzes) + 1, !.pc = "link"]
  <2>1. Len(quizzes) + 1 \in Nat BY <1>3, LenProperties
  <2>2. slot \in WorkerType BY <1>2, <2>1 DEF WorkerType, WorkerPC
  <2>3. workers' = [workers EXCEPT ![w] = slot] BY DEF CreateQuiz, TypeOK
  <2>. QED BY <2>2, <2>3, SlotType
<1>. QED BY <1>1, <1>6, <1>7 DEF TypeOK

\* Linking a question adds one to the quiz of the slot, and there was room for it.
LEMMA LinkQuestionType ==
    ASSUME TypeOK, NEW w \in Workers, SlotLink(w), LinkQuestion(w)
    PROVE  /\ TypeOK'
           /\ QuizIds' = QuizIds
           /\ \A q \in QuizIds :
                quizzes'[q] = IF q = workers[w].quiz
                              THEN [quizzes[q] EXCEPT !.linked = @ + 1] ELSE quizzes[q]
<1>1. UNCHANGED <<jobs, objects, cache, budget, pages, uploads, choosing, aged, sweep, broken>>
  BY DEF LinkQuestion, workerFrame
<1>2. quizzes \in Seq(QuizType) BY DEF TypeOK
<1>. DEFINE q == workers[w].quiz
            quiz == [quizzes[q] EXCEPT !.linked = @ + 1]
<1>3. q \in 1..Len(quizzes) /\ quizzes[q].linked < NQuestions
  BY DEF SlotLink, LinkQuestion, QuizIds
<1>4. quizzes[q] \in QuizType BY <1>2, <1>3, ElementOfSeq
<1>5. quiz \in QuizType
  <2>1. quizzes[q].linked + 1 \in 0..NQuestions BY <1>3, <1>4, ScanAssumption DEF QuizType
  <2>. QED BY <1>4, <2>1 DEF QuizType
<1>6. quizzes' = [quizzes EXCEPT ![q] = quiz] BY DEF LinkQuestion
<1>7. /\ quizzes' \in Seq(QuizType) /\ Len(quizzes') = Len(quizzes)
      /\ \A i \in 1..Len(quizzes) : quizzes'[i] = IF i = q THEN quiz ELSE quizzes[i]
  <2>. HIDE DEF q, quiz
  <2>. QED BY <1>2, <1>3, <1>5, <1>6, ExceptSeq
<1>8. workers' \in [Workers -> WorkerType]
  <2>1. PICK pc \in WorkerPC : Goto(w, pc) BY DEF LinkQuestion, WorkerPC
  <2>. QED BY <2>1, GotoType
<1>. QED BY <1>1, <1>7, <1>8 DEF TypeOK, QuizIds

\* The steps that only change where the slot is.
LEMMA GotoStepType ==
    ASSUME TypeOK, NEW w \in Workers, SlotText(w),
           NoPageRead(w) \/ WorkerError(w) \/ WorkerStops(w)
    PROVE  TypeOK'
<1>1. UNCHANGED <<jobs, objects, quizzes, cache, pages, uploads, choosing, aged, sweep>>
  BY DEF NoPageRead, WorkerError, WorkerStops, workerFrame
<1>4. broken' \in SUBSET Jobs
  <2>1. CASE WorkerStops(w)
    <3>1. workers[w].pc = "faildelete" => workers[w].job \in Jobs
      BY SlotJob
    <3>. QED BY <2>1, <3>1 DEF WorkerStops, TypeOK
  <2>2. CASE NoPageRead(w) \/ WorkerError(w)
    BY <2>2 DEF NoPageRead, WorkerError, workerFrame, TypeOK
  <2>. QED BY <2>1, <2>2
<1>2. workers' \in [Workers -> WorkerType]
  BY GotoType, RestType DEF NoPageRead, WorkerError, WorkerStops, WorkerPC
<1>3. budget' \in [FaultKinds -> Nat]
  <2>1. UNCHANGED budget \/ Spend({"external"}) \/ Spend({"crash"})
    BY DEF NoPageRead, WorkerError, WorkerStops
  <2>. QED BY <2>1, SpendType DEF TypeOK, FaultKinds
<1>. QED BY <1>1, <1>2, <1>3, <1>4 DEF TypeOK

(* ------------------ types: publication, clock and cleanup -------------- *)

\* Publishing changes the status of one quiz and of its jobs.
LEMMA PublishDraftType ==
    ASSUME TypeOK, NEW q \in QuizIds, PublishDraft(q)
    PROVE  /\ TypeOK'
           /\ QuizIds' = QuizIds
           /\ \A i \in QuizIds :
                quizzes'[i] = IF i = q THEN [quizzes[q] EXCEPT !.status = "published"]
                              ELSE quizzes[i]
<1>1. UNCHANGED <<pages, objects, cache, workers, uploads, choosing, aged, sweep, broken>>
  BY DEF PublishDraft, clientVars, cleanupVars
<1>2. quizzes \in Seq(QuizType) BY DEF TypeOK
<1>3. q \in 1..Len(quizzes) BY DEF QuizIds
<1>. DEFINE quiz == [quizzes[q] EXCEPT !.status = "published"]
<1>4. quiz \in QuizType
  <2>1. quizzes[q] \in QuizType BY <1>2, <1>3, ElementOfSeq
  <2>. QED BY <2>1 DEF QuizType
<1>5. quizzes' = [quizzes EXCEPT ![q] = quiz] BY DEF PublishDraft
<1>6. /\ quizzes' \in Seq(QuizType) /\ Len(quizzes') = Len(quizzes)
      /\ \A i \in 1..Len(quizzes) : quizzes'[i] = IF i = q THEN quiz ELSE quizzes[i]
  <2>. HIDE DEF quiz
  <2>. QED BY <1>2, <1>3, <1>4, <1>5, ExceptSeq
<1>7. jobs' \in [Jobs -> JobType]
  <2>1. \A j \in Jobs : jobs[j] \in JobType BY DEF TypeOK
  <2>2. \A j \in Jobs : [jobs[j] EXCEPT !.status = "quiz_ready", !.stale = FALSE] \in JobType
    BY <2>1 DEF JobType, Statuses
  <2>. QED BY <2>1, <2>2 DEF PublishDraft
<1>8. budget' \in [FaultKinds -> Nat]
  <2>1. Spend({}) \/ Spend({"parallel"}) BY DEF PublishDraft
  <2>. QED BY <2>1, SpendType DEF FaultKinds
<1>. QED BY <1>1, <1>6, <1>7, <1>8 DEF TypeOK, QuizIds

\* Administrator and clock write only statuses and timestamps.
LEMMA OutsideType ==
    ASSUME TypeOK, NEW j \in Jobs, RetryJob(j) \/ TimePasses(j) \/ DayPasses(j)
    PROVE  TypeOK'
<1>1. UNCHANGED <<pages, objects, quizzes, cache, workers, uploads, choosing, sweep, broken>>
  BY DEF RetryJob, TimePasses, DayPasses, clientVars, cleanupVars
<1>2. aged' \in SUBSET Jobs BY DEF RetryJob, TimePasses, DayPasses, cleanupVars, TypeOK
<1>3. jobs' \in [Jobs -> JobType]
  <2>1. CASE RetryJob(j) BY <2>1, StatusType DEF RetryJob, Statuses
  <2>2. CASE TimePasses(j)
    <3>1. jobs[j] \in JobType BY DEF TypeOK
    <3>2. [jobs[j] EXCEPT !.stale = TRUE] \in JobType BY <3>1 DEF JobType
    <3>. QED BY <2>2, <3>2 DEF TimePasses, TypeOK
  <2>3. CASE DayPasses(j) BY <2>3 DEF DayPasses, TypeOK
  <2>. QED BY <2>1, <2>2, <2>3
<1>4. budget' \in [FaultKinds -> Nat]
  <2>1. Spend({}) \/ Spend({"retry"}) \/ Spend({"stall"}) \/ Spend({"age"})
    BY DEF RetryJob, TimePasses, DayPasses
  <2>. QED BY <2>1, SpendType DEF FaultKinds
<1>. QED BY <1>1, <1>2, <1>3, <1>4 DEF TypeOK

\* An evicted entry is one without a quiz.
LEMMA EvictCacheType ==
    ASSUME TypeOK, NEW t \in Texts, EvictCache(t)
    PROVE  TypeOK'
<1>1. UNCHANGED <<jobs, pages, objects, quizzes, workers, uploads, choosing, aged, sweep, broken, budget>>
  BY DEF EvictCache, clientVars, cleanupVars
<1>2. cache' \in [Texts -> Nat] BY DEF EvictCache, TypeOK, NoQuiz
<1>. QED BY <1>1, <1>2 DEF TypeOK

\* The cleanup lists object keys.
LEMMA CleanupListType ==
    ASSUME TypeOK, CleanupList
    PROVE  TypeOK'
<1>1. UNCHANGED <<jobs, pages, objects, quizzes, cache, workers, uploads, choosing, aged, broken, budget>>
  BY DEF CleanupList, clientVars
<1>2. sweep' \subseteq Keys
  <2>1. \A j \in aged : PageRefs(j) \subseteq Keys BY RefsType DEF TypeOK
  <2>. QED BY <2>1 DEF CleanupList, Orphans
<1>. QED BY <1>1, <1>2 DEF TypeOK

\* The cleanup marks the page the key belongs to.
LEMMA CleanupDeleteType ==
    ASSUME TypeOK, NEW k \in sweep, CleanupDelete(k)
    PROVE  TypeOK'
<1>1. UNCHANGED <<jobs, quizzes, cache, workers, uploads, choosing, aged, broken, budget>>
  BY DEF CleanupDelete, clientVars
<1>2. objects' \subseteq Keys /\ sweep' \subseteq Keys BY DEF CleanupDelete, TypeOK
<1>3. pages' \in [Jobs -> [Pages -> PageType]]
  <2>1. k[1] \in Jobs /\ k[2] \in Pages BY DEF TypeOK, Keys
  <2>. DEFINE row == [pages[k[1]][k[2]] EXCEPT !.deleted = TRUE]
  <2>2. pages[k[1]][k[2]] \in PageType BY <2>1 DEF TypeOK
  <2>3. row \in PageType BY <2>2 DEF PageType
  <2>4. pages' = [pages EXCEPT ![k[1]][k[2]] = row] BY <2>1 DEF CleanupDelete, TypeOK
  <2>. QED BY <2>1, <2>3, <2>4, PagesType
<1>. QED BY <1>1, <1>2, <1>3 DEF TypeOK

(* ---------------------- preservation: the shared parts ----------------- *)

\* No job loses its quiz in this step.
QuizzesKept == \A j \in Jobs : jobs[j].quiz # NoQuiz => jobs'[j].quiz # NoQuiz

\* A step that leaves quizzes, cache and slots alone only has to be right about jobs.
LEMMA JobsSafe ==
    ASSUME Safe, UNCHANGED <<quizzes, cache, workers>>,
           \A j \in Jobs : JobOK(j)', QuizzesKept
    PROVE  Safe'
<1>1. QuizOK' BY DEF Safe, QuizOK, QuizIds
<1>2. \A t \in Texts : CacheOK(t)' BY DEF Safe, CacheOK, Shareable, QuizIds
<1>3. ASSUME NEW w \in Workers PROVE SlotOK(w)'
  <2>1. SlotOK(w) BY DEF Safe
  <2>. QED BY <2>1 DEF SlotOK, SlotText, SlotLink, SlotQuiz, Showable, Shareable, QuizIds, QuizzesKept
<1>4. OneWriter' BY DEF Safe, OneWriter
<1>. QED BY <1>1, <1>2, <1>3, <1>4 DEF Safe

\* A slot that does not start to write a quiz disturbs no other slot.
LEMMA SlotSafe ==
    ASSUME TypeOK, Safe, NEW w \in Workers, NEW r, workers' = [workers EXCEPT ![w] = r],
           UNCHANGED quizzes, r.pc # "link", SlotOK(w)',
           \A j \in Jobs : JobOK(j)', QuizzesKept, \A t \in Texts : CacheOK(t)'
    PROVE  Safe'
<1>1. QuizOK' BY DEF Safe, QuizOK, QuizIds
<1>2. ASSUME NEW v \in Workers, v # w PROVE SlotOK(v)'
  <2>1. workers'[v] = workers[v] BY <1>2 DEF TypeOK
  <2>2. SlotOK(v) BY DEF Safe
  <2>. QED BY <2>1, <2>2
    DEF SlotOK, SlotText, SlotLink, SlotQuiz, Showable, Shareable, QuizIds, QuizzesKept
<1>3. OneWriter' BY DEF Safe, OneWriter, TypeOK
<1>. QED BY <1>1, <1>2, <1>3 DEF Safe

\* The cache stays sound when neither it nor the quizzes change.
LEMMA CacheKept ==
    ASSUME Safe, UNCHANGED <<quizzes, cache>>
    PROVE  \A t \in Texts : CacheOK(t)'
BY DEF Safe, CacheOK, Shareable, QuizIds

\* Jobs stay right when neither they nor the quizzes change.
LEMMA JobsKept ==
    ASSUME Safe, UNCHANGED <<quizzes, jobs>>
    PROVE  (\A j \in Jobs : JobOK(j)') /\ QuizzesKept
BY DEF Safe, JobOK, Showable, QuizIds, QuizzesKept

\* Setting a status is harmless unless it announces a quiz that is not there.
LEMMA StatusSafe ==
    ASSUME TypeOK, Safe, UNCHANGED quizzes, NEW j \in Jobs, NEW s \in Statuses,
           UpdateJobStatus(j, s),
           s \in {"quiz_ready", "review_ready"} => jobs[j].quiz # NoQuiz
    PROVE  (\A i \in Jobs : JobOK(i)') /\ QuizzesKept
<1>. SUFFICES ASSUME NEW i \in Jobs
              PROVE  JobOK(i)' /\ (jobs[i].quiz # NoQuiz => jobs'[i].quiz # NoQuiz)
  BY DEF QuizzesKept
<1>1. jobs[i] \in JobType /\ JobOK(i) BY DEF TypeOK, Safe
<1>2. /\ jobs'[i].quiz = jobs[i].quiz /\ jobs'[i].pipeline = jobs[i].pipeline
      /\ jobs'[i].status = IF i = j THEN s ELSE jobs[i].status
  BY <1>1 DEF UpdateJobStatus, TypeOK, JobType
<1>. QED BY <1>1, <1>2 DEF JobOK, Showable, QuizIds

\* Nothing is required of an idle slot.
LEMMA IdleSafe ==
    ASSUME TypeOK, NEW w \in Workers, Rest(w)
    PROVE  /\ workers' = [workers EXCEPT ![w] = IdleWorker] /\ IdleWorker.pc # "link"
           /\ SlotOK(w)'
<1>1. workers'[w] = IdleWorker BY DEF Rest, TypeOK
<1>. QED BY <1>1 DEF Rest, IdleWorker, SlotOK, SlotText, SlotLink, SlotQuiz

(* ------------------ preservation: steps outside the slots -------------- *)

\* The requests of the client queue jobs and touch no quiz.
LEMMA ClientSafe ==
    ASSUME TypeOK, Safe, NEW j \in Jobs, NEW p \in Pages,
           \/ CreateJob(j) \/ CreatePage(j) \/ UploadStep(j, p)
    PROVE  Safe'
<1>1. UNCHANGED <<quizzes, cache, workers>>
  BY DEF CreateJob, CreatePage, UploadStep, PutPage, MarkPageUploaded, UploadFails,
         UndoUpload, CheckAllPagesUploaded, QueueUploadedJob, AbandonUpload
<1>2. CASE CreateJob(j)
  <2>1. ASSUME NEW i \in Jobs
        PROVE  JobOK(i)' /\ (jobs[i].quiz # NoQuiz => jobs'[i].quiz # NoQuiz)
    <3>1. jobs[i] \in JobType /\ JobOK(i) BY DEF TypeOK, Safe
    <3>3. PICK s :
            jobs' = [jobs EXCEPT ![j].status = IF j \in Inline THEN "pending" ELSE "uploading",
                                 ![j].strategy = s, ![j].stale = FALSE]
      BY <1>2 DEF CreateJob
    <3>2. /\ jobs'[i].quiz = jobs[i].quiz /\ jobs'[i].pipeline = jobs[i].pipeline
          /\ jobs'[i].status = IF i # j THEN jobs[i].status
                              ELSE IF j \in Inline THEN "pending" ELSE "uploading"
      BY <3>1, <3>3 DEF TypeOK, JobType
    <3>. QED BY <1>1, <3>1, <3>2 DEF JobOK, Showable, QuizIds
  <2>. QED BY <1>1, <2>1, JobsSafe DEF QuizzesKept
<1>3. CASE CreatePage(j) \/ UploadStep(j, p)
  <2>1. UNCHANGED jobs \/ UpdateJobStatus(j, "pending")
    BY <1>3 DEF CreatePage, UploadStep, PutPage, MarkPageUploaded, UploadFails, UndoUpload,
           CheckAllPagesUploaded, QueueUploadedJob, AbandonUpload
  <2>. QED BY <1>1, <2>1, JobsKept, StatusSafe, JobsSafe DEF Statuses
<1>. QED BY <1>2, <1>3

\* Choosing a strategy queues the job and touches no quiz.
LEMMA ChooseSafe ==
    ASSUME TypeOK, Safe, NEW j \in Jobs, NEW s \in Strategies,
           CheckStrategy(j, s) \/ UpdateJobStrategy(j, s)
    PROVE  Safe'
<1>1. UNCHANGED <<quizzes, cache, workers>> BY DEF CheckStrategy, UpdateJobStrategy
<1>2. CASE CheckStrategy(j, s) BY <1>1, <1>2, JobsKept, JobsSafe DEF CheckStrategy
<1>3. CASE UpdateJobStrategy(j, s)
  <2>1. ASSUME NEW i \in Jobs
        PROVE  JobOK(i)' /\ (jobs[i].quiz # NoQuiz => jobs'[i].quiz # NoQuiz)
    <3>1. jobs[i] \in JobType /\ JobOK(i) BY DEF TypeOK, Safe
    <3>2. /\ jobs'[i].quiz = jobs[i].quiz /\ jobs'[i].pipeline = jobs[i].pipeline
          /\ jobs'[i].status = IF i = j THEN "pending" ELSE jobs[i].status
      BY <1>3, <3>1 DEF UpdateJobStrategy, TypeOK, JobType
    <3>. QED BY <1>1, <3>1, <3>2 DEF JobOK, Showable, QuizIds
  <2>. QED BY <1>1, <2>1, JobsSafe DEF QuizzesKept
<1>. QED BY <1>2, <1>3

\* Administrator and clock never announce a quiz.
LEMMA OutsideSafe ==
    ASSUME TypeOK, Safe, NEW j \in Jobs, RetryJob(j) \/ TimePasses(j) \/ DayPasses(j)
    PROVE  Safe'
<1>1. UNCHANGED <<quizzes, cache, workers>> BY DEF RetryJob, TimePasses, DayPasses
<1>2. CASE RetryJob(j) BY <1>1, <1>2, StatusSafe, JobsSafe DEF RetryJob, Statuses
<1>3. CASE TimePasses(j)
  <2>1. ASSUME NEW i \in Jobs
        PROVE  JobOK(i)' /\ (jobs[i].quiz # NoQuiz => jobs'[i].quiz # NoQuiz)
    <3>1. jobs[i] \in JobType /\ JobOK(i) BY DEF TypeOK, Safe
    <3>2. /\ jobs'[i].quiz = jobs[i].quiz /\ jobs'[i].pipeline = jobs[i].pipeline
          /\ jobs'[i].status = jobs[i].status
      BY <1>3, <3>1 DEF TimePasses, TypeOK, JobType
    <3>. QED BY <1>1, <3>1, <3>2 DEF JobOK, Showable, QuizIds
  <2>. QED BY <1>1, <2>1, JobsSafe DEF QuizzesKept
<1>4. CASE DayPasses(j) BY <1>1, <1>4, JobsKept, JobsSafe DEF DayPasses
<1>. QED BY <1>2, <1>3, <1>4

\* The cleanup touches images and page rows only.
LEMMA CleanupSafe ==
    ASSUME TypeOK, Safe, CleanupList \/ \E k \in sweep : CleanupDelete(k)
    PROVE  Safe'
<1>1. UNCHANGED <<jobs, quizzes, cache, workers>> BY DEF CleanupList, CleanupDelete
<1>. QED BY <1>1, JobsKept, JobsSafe

\* Losing a cache entry endangers nothing: a slot that had found it holds the quiz.
LEMMA EvictCacheSafe ==
    ASSUME TypeOK, Safe, NEW t \in Texts, EvictCache(t)
    PROVE  Safe'
<1>1. UNCHANGED <<jobs, quizzes, workers>> BY DEF EvictCache
<1>2. \A u \in Texts : CacheOK(u)'
  <2>1. \A u \in Texts : cache'[u] = IF u = t THEN NoQuiz ELSE cache[u] BY DEF EvictCache, TypeOK
  <2>. QED BY <1>1, <2>1 DEF Safe, CacheOK, Shareable, QuizIds
<1>3. ASSUME NEW w \in Workers PROVE SlotOK(w)'
  <2>1. SlotOK(w) BY DEF Safe
  <2>. QED BY <1>1, <2>1 DEF SlotOK, SlotText, SlotLink, SlotQuiz, Showable, Shareable, QuizIds
<1>4. QuizOK' /\ OneWriter' BY <1>1 DEF Safe, QuizOK, OneWriter, QuizIds
<1>. QED BY <1>1, <1>2, <1>3, <1>4, JobsKept DEF Safe

\* Publishing changes no text, no question and no generated quiz.
LEMMA PublishDraftSafe ==
    ASSUME TypeOK, Safe, NEW q \in QuizIds, PublishDraft(q)
    PROVE  Safe'
<1>1. UNCHANGED <<cache, workers>> BY DEF PublishDraft
<1>2. /\ QuizIds' = QuizIds
      /\ \A i \in QuizIds :
           /\ quizzes'[i].linked = quizzes[i].linked /\ quizzes'[i].text = quizzes[i].text
           /\ quizzes'[i].extract = quizzes[i].extract
           /\ quizzes'[i].status = IF i = q THEN "published" ELSE quizzes[i].status
  <2>1. \A i \in QuizIds : quizzes[i] \in QuizType BY ElementOfSeq DEF TypeOK, QuizIds
  <2>. QED BY <2>1, PublishDraftType DEF QuizType
<1>3. QuizOK' BY <1>2 DEF Safe, QuizOK
<1>4. ASSUME NEW j \in Jobs
      PROVE  JobOK(j)' /\ jobs'[j].quiz = jobs[j].quiz
  <2>1. jobs[j] \in JobType /\ JobOK(j) BY DEF TypeOK, Safe
  <2>2. /\ jobs'[j].quiz = jobs[j].quiz /\ jobs'[j].pipeline = jobs[j].pipeline
        /\ jobs'[j].status = IF jobs[j].quiz = q THEN "quiz_ready" ELSE jobs[j].status
    BY <2>1 DEF PublishDraft, JobType
  <2>3. q # NoQuiz BY DEF QuizIds, NoQuiz
  <2>. QED BY <1>2, <2>1, <2>2, <2>3 DEF JobOK, Showable
<1>5. \A t \in Texts : CacheOK(t)' BY <1>1, <1>2 DEF Safe, CacheOK, Shareable
<1>6. ASSUME NEW w \in Workers PROVE SlotOK(w)'
  <2>1. SlotOK(w) BY DEF Safe
  <2>. QED BY <1>1, <1>2, <1>4, <2>1 DEF SlotOK, SlotText, SlotLink, SlotQuiz, Showable, Shareable
<1>7. OneWriter' BY <1>1 DEF Safe, OneWriter
<1>. QED BY <1>3, <1>4, <1>5, <1>6, <1>7 DEF Safe

(* ------------------- preservation: the steps of a slot ----------------- *)

\* What a slot that merely goes on to `pc` must already know.
LEMMA GotoSafe ==
    ASSUME TypeOK, Safe, NEW w \in Workers, workers[w].pc # "idle",
           NEW pc \in {"list", "ask", "delete", "clear", "final", "failing"},
           Goto(w, pc), UNCHANGED <<quizzes, cache>>,
           pc \in {"delete", "clear", "final"} => jobs'[workers[w].job].quiz # NoQuiz,
           \A j \in Jobs : JobOK(j)', QuizzesKept
    PROVE  Safe'
<1>. DEFINE r == [workers[w] EXCEPT !.pc = pc]
<1>1. workers[w] \in WorkerType /\ SlotOK(w) BY DEF TypeOK, Safe
<1>2. workers' = [workers EXCEPT ![w] = r] /\ r.pc # "link" BY <1>1 DEF Goto, TypeOK, WorkerType
<1>3. SlotOK(w)'
  <2>1. workers'[w] = r BY <1>2 DEF TypeOK
  <2>. QED BY <1>1, <2>1 DEF SlotOK, SlotText, SlotLink, SlotQuiz, WorkerType
<1>. QED BY <1>2, <1>3, CacheKept, SlotSafe

\* A slot that claims a job holds nothing of an earlier one.
LEMMA ClaimPendingJobSafe ==
    ASSUME TypeOK, Safe, NEW w \in Workers, NEW j \in Jobs, ClaimPendingJob(w, j)
    PROVE  Safe'
<1>. DEFINE r == [workers[w] EXCEPT !.pc = "load", !.job = j]
<1>1. workers[w] \in WorkerType /\ SlotOK(w) BY DEF TypeOK, Safe
<1>2. workers' = [workers EXCEPT ![w] = r] /\ r.pc # "link"
  BY <1>1 DEF ClaimPendingJob, TypeOK, WorkerType
<1>3. SlotOK(w)'
  <2>1. workers'[w] = r BY <1>2 DEF TypeOK
  <2>2. r.pc = "load" /\ r.job = j /\ r.resumed = workers[w].resumed BY <1>1 DEF WorkerType
  <2>3. ~workers[w].resumed BY <1>1 DEF ClaimPendingJob, SlotOK, SlotText
  <2>. HIDE DEF r
  <2>. QED BY <2>1, <2>2, <2>3 DEF SlotOK, SlotText, SlotLink, SlotQuiz
<1>4. UNCHANGED <<quizzes, cache>> BY DEF ClaimPendingJob
<1>5. (\A i \in Jobs : JobOK(i)') /\ QuizzesKept
  BY <1>4, StatusSafe DEF ClaimPendingJob, Statuses
<1>. QED BY <1>2, <1>3, <1>4, <1>5, CacheKept, SlotSafe

\* The text a slot resumes with was saved for this very job.
LEMMA LoadJobSafe ==
    ASSUME TypeOK, Safe, NEW w \in Workers, LoadJob(w)
    PROVE  Safe'
<1>1. UNCHANGED <<quizzes, cache, jobs>> BY DEF LoadJob
<1>2. workers[w] \in WorkerType /\ SlotOK(w) BY DEF TypeOK, Safe
<1>. DEFINE job == jobs[workers[w].job]
            r == [workers[w] EXCEPT
                    !.pc = IF job.status = "pending" THEN "begin" ELSE "list",
                    !.strategy = job.strategy,
                    !.text = IF w \in Vision THEN NoText ELSE job.pipeline,
                    !.resumed = w \notin Vision /\ job.pipeline # NoText]
<1>3. CASE Processable(job.status)
  <2>1. workers' = [workers EXCEPT ![w] = r] /\ r.pc # "link"
    BY <1>2, <1>3 DEF LoadJob, TypeOK, WorkerType
  <2>2. workers[w].job \in Jobs /\ JobOK(workers[w].job) BY <1>2 DEF Safe, SlotOK, SlotText, LoadJob
  <2>3. workers'[w] = r BY <2>1 DEF TypeOK
  <2>4. /\ r.pc \in {"begin", "list"} /\ r.job = workers[w].job
        /\ r.resumed => job.pipeline # NoText /\ r.text = job.pipeline
    BY <1>2 DEF WorkerType
  <2>5. SlotOK(w)'
    <3>. HIDE DEF r
    <3>. QED BY <1>1, <2>2, <2>3, <2>4 DEF SlotOK, SlotText, SlotLink, SlotQuiz, JobOK
  <2>. QED BY <1>1, <2>1, <2>5, CacheKept, JobsKept, SlotSafe
<1>4. CASE ~Processable(job.status)
  <2>1. Rest(w) BY <1>4 DEF LoadJob
  <2>. QED BY <1>1, <2>1, IdleSafe, CacheKept, JobsKept, SlotSafe
<1>. QED BY <1>3, <1>4

\* A slot announces a quiz only once the job has one.
LEMMA StatusStepSafe ==
    ASSUME TypeOK, Safe, NEW w \in Workers,
           \/ BeginJob(w) \/ AskStrategy(w) \/ RateLimited(w) \/ FinishJob(w) \/ FailJob(w)
    PROVE  Safe'
<1>1. UNCHANGED <<quizzes, cache>>
  BY DEF BeginJob, AskStrategy, RateLimited, FinishJob, FailJob
<1>2. SlotOK(w) /\ workers[w].pc # "idle" /\ workers[w].job \in Jobs
  BY DEF Safe, SlotOK, SlotText, BeginJob, AskStrategy, RateLimited, FinishJob, FailJob, ImagesGone
<1>3. PICK s \in Statuses :
        /\ UpdateJobStatus(workers[w].job, s)
        /\ s \in {"quiz_ready", "review_ready"} => FinishJob(w)
  BY DEF BeginJob, AskStrategy, RateLimited, FinishJob, FailJob, FinalJobStatus, Statuses
<1>4. FinishJob(w) => jobs[workers[w].job].quiz # NoQuiz
  BY <1>2 DEF FinishJob, ImagesGone, SlotOK, SlotQuiz
<1>5. (\A i \in Jobs : JobOK(i)') /\ QuizzesKept BY <1>1, <1>2, <1>3, <1>4, StatusSafe
<1>6. CASE BeginJob(w) BY <1>1, <1>2, <1>5, <1>6, GotoSafe DEF BeginJob
<1>7. CASE ~BeginJob(w)
  <2>1. Rest(w) BY <1>7 DEF AskStrategy, RateLimited, FinishJob, FailJob
  <2>. QED BY <1>1, <1>5, <2>1, IdleSafe, CacheKept, SlotSafe
<1>. QED BY <1>6, <1>7

\* Listing the pages changes nothing a slot relies on.
LEMMA ListPagesSafe ==
    ASSUME TypeOK, Safe, NEW w \in Workers, ListPages(w)
    PROVE  Safe'
<1>1. UNCHANGED <<quizzes, cache, jobs>> BY DEF ListPages
<1>2. workers[w] \in WorkerType /\ SlotOK(w) /\ workers[w].pc = "list" BY DEF TypeOK, Safe, ListPages
<1>. DEFINE refs == PageRefs(workers[w].job)
            r == [workers[w] EXCEPT !.pc = "ocr",
                    !.todo = IF workers[w].resumed THEN {} ELSE refs,
                    !.got = IF workers[w].resumed THEN refs ELSE {}]
<1>3. Goto(w, "failing") \/ workers' = [workers EXCEPT ![w] = r] BY DEF ListPages, TypeOK
<1>4. CASE Goto(w, "failing") BY <1>1, <1>2, <1>4, JobsKept, GotoSafe
<1>5. CASE workers' = [workers EXCEPT ![w] = r]
  <2>1. workers'[w] = r BY <1>5 DEF TypeOK
  <2>2. /\ r.pc = "ocr" /\ r.job = workers[w].job /\ r.text = workers[w].text
        /\ r.resumed = workers[w].resumed
    BY <1>2 DEF WorkerType
  <2>3. SlotOK(w)'
    <3>. HIDE DEF r
    <3>. QED BY <1>2, <2>1, <2>2 DEF SlotOK, SlotText, SlotLink, SlotQuiz
  <2>. QED BY <1>1, <1>5, <2>2, <2>3, CacheKept, JobsKept, SlotSafe
<1>. QED BY <1>3, <1>4, <1>5

\* Listing the images of a failing job, or handling one image, is of no consequence.
LEMMA ImageStepSafe ==
    ASSUME TypeOK, Safe, NEW w \in Workers,
           \/ FailJobList(w)
           \/ \E k \in workers[w].todo : ReadPage(w, k) \/ SkipPage(w, k)
           \/ \E k \in workers[w].got : DeleteObject(w, k)
    PROVE  Safe'
<1>1. UNCHANGED <<quizzes, cache, jobs>> BY DEF FailJobList, ReadPage, SkipPage, DeleteObject
<1>2. workers[w] \in WorkerType /\ SlotOK(w) BY DEF TypeOK, Safe
<1>. DEFINE Same(r) == /\ r.job = workers[w].job /\ r.text = workers[w].text
                       /\ r.resumed = workers[w].resumed /\ r.mode = workers[w].mode
                       /\ r.quiz = workers[w].quiz
            list == [workers[w] EXCEPT !.pc = "faildelete", !.got = PageRefs(workers[w].job)]
            read(k) == [workers[w] EXCEPT !.todo = @ \ {k}, !.got = @ \cup {k}]
            skip(k) == [workers[w] EXCEPT !.todo = @ \ {k}]
            delete(k) == [workers[w] EXCEPT !.got = @ \ {k}]
<1>3. PICK r : /\ workers' = [workers EXCEPT ![w] = r]
               /\ Same(r)
               /\ workers[w].pc \in {"ocr", "delete", "hit", "failing", "faildelete"}
               /\ r.pc = workers[w].pc \/ r.pc = "faildelete"
  <2>1. CASE FailJobList(w)
    <3>1. workers' = [workers EXCEPT ![w] = list] /\ workers[w].pc = "failing"
      BY <2>1 DEF FailJobList, TypeOK
    <3>2. list.pc = "faildelete" /\ Same(list) BY <1>2 DEF WorkerType
    <3>. QED BY <3>1, <3>2
  <2>2. ASSUME NEW k \in workers[w].todo, ReadPage(w, k)
        PROVE  workers' = [workers EXCEPT ![w] = read(k)] /\ workers[w].pc = "ocr"
    BY <2>2 DEF ReadPage, TypeOK
  <2>3. ASSUME NEW k \in workers[w].todo, SkipPage(w, k)
        PROVE  workers' = [workers EXCEPT ![w] = skip(k)] /\ workers[w].pc = "ocr"
    BY <2>3 DEF SkipPage, TypeOK
  <2>4. ASSUME NEW k \in workers[w].got, DeleteObject(w, k)
        PROVE  /\ workers' = [workers EXCEPT ![w] = delete(k)]
               /\ workers[w].pc \in {"delete", "hit", "faildelete"}
    BY <2>4 DEF DeleteObject, TypeOK
  <2>5. \A k : /\ read(k).pc = workers[w].pc /\ Same(read(k))
              /\ skip(k).pc = workers[w].pc /\ Same(skip(k))
              /\ delete(k).pc = workers[w].pc /\ Same(delete(k))
    BY <1>2 DEF WorkerType
  <2>. HIDE DEF Same, read, skip, delete
  <2>. QED BY <2>1, <2>2, <2>3, <2>4, <2>5
<1>4. workers'[w] = r /\ r.pc # "link" BY <1>3 DEF TypeOK
<1>5. SlotOK(w)'
  BY <1>1, <1>2, <1>3, <1>4 DEF SlotOK, SlotText, SlotLink, SlotQuiz, Showable, Shareable, QuizIds
<1>. QED BY <1>1, <1>3, <1>4, <1>5, CacheKept, JobsKept, SlotSafe

\* OCR yields a text of the job's own pages.
LEMMA OcrCompleteSafe ==
    ASSUME TypeOK, Safe, NEW w \in Workers, OcrComplete(w)
    PROVE  Safe'
<1>1. UNCHANGED <<quizzes, cache>> BY DEF OcrComplete
<1>2. /\ workers[w] \in WorkerType /\ SlotOK(w) /\ workers[w].pc = "ocr" /\ workers[w].job \in Jobs
  BY DEF TypeOK, Safe, SlotOK, SlotText, OcrComplete
<1>3. (\A i \in Jobs : JobOK(i)') /\ QuizzesKept
  BY <1>1, <1>2, StatusSafe DEF OcrComplete, Statuses
<1>4. PICK t \in IF workers[w].resumed THEN {workers[w].text} ELSE TextsOf[workers[w].job] :
        LET mode == IF w \in Vision THEN ModeOf[workers[w].job]
                    ELSE ResolveGenerationMode(PageTypeOf[t], workers[w].strategy) IN
        workers' = [workers EXCEPT ![w].text = t, ![w].mode = mode, ![w].pc = Route(w, mode)]
  BY DEF OcrComplete
<1>. DEFINE mode == IF w \in Vision THEN ModeOf[workers[w].job]
                    ELSE ResolveGenerationMode(PageTypeOf[t], workers[w].strategy)
            r == [workers[w] EXCEPT !.text = t, !.mode = mode, !.pc = Route(w, mode)]
<1>5. t \in TextsOf[workers[w].job] BY <1>2, <1>4 DEF SlotOK, SlotText
<1>6. /\ Route(w, mode) \in {"save", "lookup", "generate"}
      /\ Route(w, mode) = "lookup" => mode # "existing_questions"
  <2>. HIDE DEF mode
  <2>. QED BY DEF Route, Cacheable
<1>7. workers' = [workers EXCEPT ![w] = r] BY <1>4 DEF TypeOK
<1>8. /\ r.pc = Route(w, mode) /\ r.job = workers[w].job /\ r.text = t /\ r.mode = mode
      /\ r.resumed = workers[w].resumed
  <2>. HIDE DEF mode
  <2>. QED BY <1>2 DEF WorkerType
<1>9. workers'[w] = r BY <1>7 DEF TypeOK
<1>10. SlotOK(w)'
  <2>. HIDE DEF mode, r
  <2>. QED BY <1>2, <1>5, <1>6, <1>8, <1>9 DEF SlotOK, SlotText, SlotLink, SlotQuiz
<1>11. r.pc # "link" BY <1>6, <1>8
<1>. HIDE DEF r, mode
<1>. QED BY <1>1, <1>3, <1>7, <1>10, <1>11, CacheKept, SlotSafe

\* What a slot records in its job is right: its text, or a complete quiz about it.
LEMMA RowStepSafe ==
    ASSUME TypeOK, Safe, NEW w \in Workers,
           SavePipelineText(w) \/ UpdateJobQuizID(w) \/ ClearPipelineText(w)
    PROVE  Safe'
<1>. DEFINE j == workers[w].job
<1>1. UNCHANGED <<quizzes, cache>> BY DEF SavePipelineText, UpdateJobQuizID, ClearPipelineText
<1>2. SlotOK(w) /\ workers[w].pc # "idle" /\ workers[w].job \in Jobs
  BY DEF Safe, SlotOK, SlotText, SavePipelineText, UpdateJobQuizID, ClearPipelineText, ImagesGone
<1>3. ASSUME NEW i \in Jobs
      PROVE  JobOK(i)' /\ (jobs[i].quiz # NoQuiz => jobs'[i].quiz # NoQuiz)
  <2>1. jobs[i] \in JobType /\ JobOK(i) BY DEF TypeOK, Safe
  <2>2. CASE SavePipelineText(w)
    <3>1. /\ jobs'[i].quiz = jobs[i].quiz /\ jobs'[i].status = jobs[i].status
          /\ jobs'[i].pipeline = IF i = j THEN workers[w].text ELSE jobs[i].pipeline
      BY <2>1, <2>2 DEF SavePipelineText, TypeOK, JobType
    <3>2. workers[w].text \in TextsOf[j] BY <1>2, <2>2 DEF SavePipelineText, SlotOK, SlotText
    <3>. QED BY <1>1, <2>1, <3>1, <3>2 DEF JobOK, Showable, QuizIds
  <2>3. CASE UpdateJobQuizID(w)
    <3>1. /\ jobs'[i].quiz = IF i = j THEN workers[w].quiz ELSE jobs[i].quiz
          /\ jobs'[i].status = jobs[i].status /\ jobs'[i].pipeline = jobs[i].pipeline
      BY <2>1, <2>3 DEF UpdateJobQuizID, TypeOK, JobType
    <3>2. Showable(workers[w].quiz, j) BY <1>2, <2>3 DEF UpdateJobQuizID, SlotOK, SlotQuiz
    <3>3. workers[w].quiz # NoQuiz BY <3>2 DEF Showable, QuizIds, NoQuiz
    <3>. QED BY <1>1, <2>1, <3>1, <3>2, <3>3 DEF JobOK, Showable, QuizIds
  <2>4. CASE ClearPipelineText(w)
    <3>1. /\ jobs'[i].quiz = jobs[i].quiz /\ jobs'[i].status = jobs[i].status
          /\ jobs'[i].pipeline = IF i = j THEN NoText ELSE jobs[i].pipeline
      BY <2>1, <2>4 DEF ClearPipelineText, TypeOK, JobType
    <3>. QED BY <1>1, <2>1, <3>1 DEF JobOK, Showable, QuizIds
  <2>. QED BY <2>2, <2>3, <2>4
<1>4. CASE SavePipelineText(w)
  BY <1>1, <1>2, <1>3, <1>4, GotoSafe DEF SavePipelineText, QuizzesKept
<1>5. CASE UpdateJobQuizID(w)
  <2>1. jobs'[j].quiz = workers[w].quiz BY <1>2, <1>5 DEF UpdateJobQuizID, TypeOK, JobType
  <2>2. Showable(workers[w].quiz, j) BY <1>2, <1>5 DEF UpdateJobQuizID, SlotOK, SlotQuiz
  <2>3. jobs'[j].quiz # NoQuiz BY <2>1, <2>2 DEF Showable, QuizIds, NoQuiz
  <2>. QED BY <1>1, <1>2, <1>3, <1>5, <2>3, GotoSafe DEF UpdateJobQuizID, QuizzesKept
<1>6. CASE ClearPipelineText(w)
  <2>1. jobs[j].quiz # NoQuiz BY <1>2, <1>6 DEF ClearPipelineText, ImagesGone, SlotOK, SlotQuiz
  <2>2. jobs'[j].quiz # NoQuiz BY <1>2, <1>3, <2>1
  <2>. QED BY <1>1, <1>2, <1>3, <1>6, <2>2, GotoSafe DEF ClearPipelineText, QuizzesKept
<1>. QED BY <1>4, <1>5, <1>6

\* Nor does failing or dying.
LEMMA GotoStepSafe ==
    ASSUME TypeOK, Safe, NEW w \in Workers, NoPageRead(w) \/ WorkerError(w) \/ WorkerStops(w)
    PROVE  Safe'
<1>1. UNCHANGED <<quizzes, cache, jobs>> BY DEF NoPageRead, WorkerError, WorkerStops
<1>2. CASE WorkerStops(w)
  BY <1>1, <1>2, IdleSafe, CacheKept, JobsKept, SlotSafe DEF WorkerStops
<1>3. CASE NoPageRead(w) \/ WorkerError(w)
  <2>1. Goto(w, "failing") /\ workers[w].pc # "idle" BY <1>3 DEF NoPageRead, WorkerError
  <2>. QED BY <1>1, <2>1, JobsKept, GotoSafe
<1>. QED BY <1>2, <1>3

(* ---------------- preservation: the cache and the quizzes -------------- *)

\* A quiz found under the hash of a text is a quiz about a text of the job.
LEMMA LookupCacheSafe ==
    ASSUME TypeOK, Safe, NEW w \in Workers, LookupCache(w)
    PROVE  Safe'
<1>1. UNCHANGED <<quizzes, cache, jobs>> BY DEF LookupCache
<1>2. /\ workers[w] \in WorkerType /\ SlotText(w) /\ workers[w].pc = "lookup"
  BY DEF TypeOK, Safe, SlotOK, LookupCache
<1>3. /\ workers[w].text \in Texts /\ workers[w].text \in TextsOf[workers[w].job]
      /\ workers[w].mode # "existing_questions" /\ workers[w].job \in Jobs
  BY <1>2, SlotJob DEF SlotText
<1>. DEFINE hit == CachedQuiz(workers[w].text)
            r == [workers[w] EXCEPT !.quiz = hit,
                    !.pc = IF hit = NoQuiz THEN "generate" ELSE "hit"]
<1>4. workers' = [workers EXCEPT ![w] = r] /\ workers'[w] = r BY DEF LookupCache, TypeOK
<1>5. /\ r.quiz = hit /\ r.job = workers[w].job /\ r.text = workers[w].text
      /\ r.resumed = workers[w].resumed
      /\ r.pc = IF hit = NoQuiz THEN "generate" ELSE "hit"
  <2>. HIDE DEF hit
  <2>. QED BY <1>2 DEF WorkerType
<1>6. hit # NoQuiz => Showable(hit, workers[w].job)
  BY <1>3 DEF Safe, CacheOK, Shareable, Showable, CachedQuiz
<1>7. SlotOK(w)' /\ r.pc # "link"
  <2>. HIDE DEF r, hit
  <2>. QED BY <1>1, <1>2, <1>3, <1>4, <1>5, <1>6
    DEF SlotOK, SlotText, SlotLink, SlotQuiz, Showable, QuizIds
<1>. HIDE DEF r
<1>. QED BY <1>1, <1>4, <1>7, CacheKept, JobsKept, SlotSafe

\* What goes into the cache is complete, generated and about the text it is stored under.
LEMMA StoreCacheSafe ==
    ASSUME TypeOK, Safe, NEW w \in Workers, StoreCache(w)
    PROVE  Safe'
<1>1. UNCHANGED <<quizzes, jobs>> BY DEF StoreCache
<1>2. workers[w] \in WorkerType /\ SlotOK(w) /\ workers[w].pc = "store"
  BY DEF TypeOK, Safe, StoreCache
<1>3. \A t \in Texts : CacheOK(t)'
  <2>1. Shareable(workers[w].quiz, workers[w].text) BY <1>2 DEF SlotOK, SlotQuiz
  <2>2. ASSUME NEW t \in Texts
        PROVE  cache'[t] = IF t = workers[w].text THEN workers[w].quiz ELSE cache[t]
    BY DEF StoreCache, TypeOK
  <2>. QED BY <1>1, <2>1, <2>2 DEF Safe, CacheOK, Shareable, QuizIds
<1>. DEFINE r == [workers[w] EXCEPT !.pc = "setquiz"]
<1>4. workers' = [workers EXCEPT ![w] = r] /\ workers'[w] = r BY DEF StoreCache, Goto, TypeOK
<1>5. /\ r.pc = "setquiz" /\ r.quiz = workers[w].quiz /\ r.job = workers[w].job
      /\ r.text = workers[w].text /\ r.resumed = workers[w].resumed
  BY <1>2 DEF WorkerType
<1>6. SlotOK(w)'
  <2>. HIDE DEF r
  <2>. QED BY <1>1, <1>2, <1>4, <1>5
    DEF SlotOK, SlotText, SlotLink, SlotQuiz, Showable, QuizIds
<1>. HIDE DEF r
<1>. QED BY <1>1, <1>3, <1>4, <1>5, <1>6, JobsKept, SlotSafe

\* The new quiz has an id nobody holds yet.
LEMMA CreateQuizSafe ==
    ASSUME TypeOK, Safe, NEW w \in Workers, CreateQuiz(w)
    PROVE  Safe'
<1>. DEFINE new == Len(quizzes) + 1
            extract == workers[w].mode = "existing_questions"
<1>1. UNCHANGED <<jobs, cache>> BY DEF CreateQuiz
<1>2. /\ workers[w] \in WorkerType /\ SlotOK(w) /\ SlotText(w) /\ workers[w].pc = "generate"
  BY DEF TypeOK, Safe, SlotOK, CreateQuiz
<1>3. /\ Len(quizzes) \in Nat /\ QuizIds' = QuizIds \cup {new} /\ new \notin QuizIds
      /\ \A q \in QuizIds : quizzes'[q] = quizzes[q]
      /\ quizzes'[new].linked = 0 /\ quizzes'[new].text = workers[w].text
      /\ quizzes'[new].extract = extract
      /\ ~extract => quizzes'[new].status = "published"
  <2>1. Len(quizzes) \in Nat BY LenProperties DEF TypeOK
  <2>2. /\ Len(quizzes') = new
        /\ \A q \in QuizIds : quizzes'[q] = quizzes[q]
        /\ quizzes'[new] = [status |-> IF extract THEN "draft" ELSE "published",
                            extract |-> extract, linked |-> 0, text |-> workers[w].text]
    BY <1>2, CreateQuizType
  <2>3. QuizIds' = QuizIds \cup {new} /\ new \notin QuizIds BY <2>1, <2>2 DEF QuizIds
  <2>. HIDE DEF new, extract
  <2>. QED BY <2>1, <2>2, <2>3
<1>. DEFINE r == [workers[w] EXCEPT !.quiz = new, !.pc = "link"]
<1>4. workers' = [workers EXCEPT ![w] = r] BY DEF CreateQuiz, TypeOK
<1>5. /\ r.pc = "link" /\ r.quiz = new /\ r.job = workers[w].job /\ r.text = workers[w].text
      /\ r.resumed = workers[w].resumed /\ r.mode = workers[w].mode
  <2>. HIDE DEF new
  <2>. QED BY <1>2 DEF WorkerType
<1>6. workers'[w] = r /\ \A v \in Workers : v # w => workers'[v] = workers[v]
  BY <1>4 DEF TypeOK
<1>. HIDE DEF new, r, extract
<1>7. QuizOK' BY <1>3 DEF Safe, QuizOK
<1>8. \A j \in Jobs : JobOK(j)' BY <1>1, <1>3 DEF Safe, JobOK, Showable
<1>9. \A t \in Texts : CacheOK(t)' BY <1>1, <1>3 DEF Safe, CacheOK, Shareable
<1>10. SlotOK(w)'
  BY <1>2, <1>3, <1>5, <1>6, ScanAssumption DEF SlotOK, SlotText, SlotLink, SlotQuiz, extract
<1>11. ASSUME NEW v \in Workers, v # w PROVE SlotOK(v)'
  <2>1. SlotOK(v) /\ workers'[v] = workers[v] BY <1>6, <1>11 DEF Safe
  <2>. QED BY <1>1, <1>3, <2>1 DEF SlotOK, SlotText, SlotLink, SlotQuiz, Showable, Shareable
<1>12. OneWriter'
  <2>1. \A v \in Workers : v # w /\ workers[v].pc = "link" => workers[v].quiz # new
    BY <1>3 DEF Safe, SlotOK, SlotLink
  <2>. QED BY <1>5, <1>6, <2>1 DEF Safe, OneWriter
<1>. QED BY <1>7, <1>8, <1>9, <1>10, <1>11, <1>12 DEF Safe

\* The next question goes to a quiz no other slot writes and nobody has seen yet.
LEMMA LinkQuestionSafe ==
    ASSUME TypeOK, Safe, NEW w \in Workers, LinkQuestion(w)
    PROVE  Safe'
<1>. DEFINE q == workers[w].quiz
<1>1. UNCHANGED <<jobs, cache>> BY DEF LinkQuestion
<1>2. /\ workers[w] \in WorkerType /\ SlotOK(w) /\ SlotText(w) /\ SlotLink(w)
      /\ workers[w].pc = "link"
  BY DEF TypeOK, Safe, SlotOK, LinkQuestion
<1>3. /\ q \in QuizIds /\ quizzes[q].linked < NQuestions /\ quizzes[q].linked \in Nat
      /\ quizzes[q].text = workers[w].text
      /\ quizzes[q].extract = (workers[w].mode = "existing_questions")
  <2>1. q \in QuizIds BY <1>2 DEF SlotLink
  <2>2. quizzes[q] \in QuizType BY <2>1, ElementOfSeq DEF TypeOK, QuizIds
  <2>. QED BY <1>2, <2>1, <2>2 DEF SlotLink, QuizType
<1>4. /\ QuizIds' = QuizIds
      /\ \A i \in QuizIds :
           /\ quizzes'[i].text = quizzes[i].text /\ quizzes'[i].extract = quizzes[i].extract
           /\ quizzes'[i].status = quizzes[i].status
           /\ quizzes'[i].linked = IF i = q THEN quizzes[q].linked + 1 ELSE quizzes[i].linked
  <2>1. \A i \in QuizIds : quizzes[i] \in QuizType BY ElementOfSeq DEF TypeOK, QuizIds
  <2>2. QuizIds' = QuizIds
        /\ \A i \in QuizIds :
             quizzes'[i] = IF i = q THEN [quizzes[i] EXCEPT !.linked = @ + 1] ELSE quizzes[i]
    BY <1>2, LinkQuestionType
  <2>. SUFFICES ASSUME NEW i \in QuizIds
       PROVE /\ quizzes'[i].text = quizzes[i].text /\ quizzes'[i].extract = quizzes[i].extract
             /\ quizzes'[i].status = quizzes[i].status
             /\ quizzes'[i].linked = IF i = q THEN quizzes[q].linked + 1 ELSE quizzes[i].linked
    BY <2>2
  <2>3. CASE i # q BY <2>2, <2>3
  <2>4. CASE i = q
    <3>1. quizzes[q] \in QuizType BY <2>1, <2>4
    <3>2. quizzes'[q] = [quizzes[q] EXCEPT !.linked = @ + 1] BY <2>2, <2>4
    <3>. HIDE DEF q
    <3>. QED BY <2>4, <3>1, <3>2 DEF QuizType
  <2>. QED BY <2>3, <2>4
<1>5. PICK pc : /\ workers' = [workers EXCEPT ![w] = [workers[w] EXCEPT !.pc = pc]]
                /\ pc = IF ~LastQuestion(q) THEN "link"
                        ELSE IF Cacheable(w, workers[w].mode) THEN "store" ELSE "setquiz"
  BY DEF LinkQuestion, Goto, TypeOK
<1>. DEFINE r == [workers[w] EXCEPT !.pc = pc]
<1>6. /\ r.pc = pc /\ r.quiz = q /\ r.job = workers[w].job /\ r.text = workers[w].text
      /\ r.resumed = workers[w].resumed /\ r.mode = workers[w].mode
  BY <1>2 DEF WorkerType
<1>7. workers'[w] = r /\ \A v \in Workers : v # w => workers'[v] = workers[v]
  BY <1>5 DEF TypeOK
<1>8. /\ pc \in {"link", "store", "setquiz"}
      /\ pc = "link" => quizzes[q].linked + 1 # NQuestions
      /\ pc # "link" => quizzes[q].linked + 1 = NQuestions
      /\ pc = "store" => workers[w].mode # "existing_questions"
  BY <1>5 DEF LastQuestion, Cacheable
<1>. HIDE DEF q, r
<1>9. \A i \in QuizIds : quizzes[i].linked = NQuestions => i # q /\ quizzes'[i].linked = NQuestions
  BY <1>3, <1>4, ScanAssumption
<1>10. QuizOK' BY <1>4 DEF Safe, QuizOK
<1>11. \A j \in Jobs : JobOK(j)' BY <1>1, <1>4, <1>9 DEF Safe, JobOK, Showable
<1>12. \A t \in Texts : CacheOK(t)' BY <1>1, <1>4, <1>9 DEF Safe, CacheOK, Shareable
<1>13. SlotOK(w)'
  <2>1. SlotText(w)' BY <1>2, <1>6, <1>7, <1>8 DEF SlotText
  <2>2. SlotLink(w)' BY <1>3, <1>4, <1>6, <1>7, <1>8, ScanAssumption DEF SlotLink
  <2>3. workers[w].text \in TextsOf[workers[w].job] BY <1>2 DEF SlotText
  <2>4. ~quizzes[q].extract => quizzes[q].status = "published" BY <1>3 DEF Safe, QuizOK
  <2>5. SlotQuiz(w)'
    BY <1>3, <1>4, <1>6, <1>7, <1>8, <2>3, <2>4 DEF SlotQuiz, Showable, Shareable
  <2>. QED BY <2>1, <2>2, <2>5 DEF SlotOK
<1>14. ASSUME NEW v \in Workers, v # w PROVE SlotOK(v)'
  <2>1. SlotOK(v) /\ workers'[v] = workers[v] BY <1>7, <1>14 DEF Safe
  <2>2. workers[v].pc = "link" => workers[v].quiz # q
    BY <1>2, <1>14 DEF Safe, OneWriter, q
  <2>. QED BY <1>1, <1>4, <1>9, <2>1, <2>2
    DEF SlotOK, SlotText, SlotLink, SlotQuiz, Showable, Shareable
<1>15. OneWriter' BY <1>2, <1>6, <1>7 DEF Safe, OneWriter, q
<1>. QED BY <1>10, <1>11, <1>12, <1>13, <1>14, <1>15 DEF Safe

(* ------------------------------- theorems ------------------------------ *)

\* The empty tables satisfy the invariant.
LEMMA InitIInv == Init => IInv
<1>. SUFFICES ASSUME Init PROVE IInv OBVIOUS
<1>1. TypeOK
  <2>1. jobs \in [Jobs -> JobType]
    BY DEF Init, JobType, Statuses, AnyStrategy, NoStrategy, NoQuiz
  <2>2. pages \in [Jobs -> [Pages -> PageType]] BY DEF Init, PageType
  <2>3. quizzes \in Seq(QuizType) BY DEF Init
  <2>4. cache \in [Texts -> Nat] BY DEF Init, NoQuiz
  <2>5. workers \in [Workers -> WorkerType] BY IdleType DEF Init
  <2>6. uploads \in [Jobs -> [Pages -> UploadType]] BY DEF Init, UploadType
  <2>7. budget \in [FaultKinds -> Nat] BY ScanAssumption DEF Init
  <2>. QED BY <2>1, <2>2, <2>3, <2>4, <2>5, <2>6, <2>7 DEF Init, TypeOK
<1>2. Safe
  <2>1. QuizOK
    <3>1. Len(quizzes) = 0 BY DEF Init
    <3>. QED BY <3>1 DEF QuizOK, QuizIds
  <2>2. \A j \in Jobs : JobOK(j) BY DEF Init, JobOK, NoQuiz
  <2>3. \A t \in Texts : CacheOK(t) BY DEF Init, CacheOK
  <2>4. \A w \in Workers : SlotOK(w) /\ workers[w].pc = "idle"
    BY DEF Init, IdleWorker, SlotOK, SlotText, SlotLink, SlotQuiz
  <2>. QED BY <2>1, <2>2, <2>3, <2>4 DEF Safe, OneWriter
<1>. QED BY <1>1, <1>2 DEF IInv

\* What a slot does of its own preserves the invariant.
LEMMA WorkerStepIInv ==
    ASSUME IInv, NEW w \in Workers, WorkerStep(w)
    PROVE  IInv'
<1>1. TypeOK /\ Safe /\ SlotOK(w) /\ SlotText(w) /\ SlotLink(w) BY DEF IInv, Safe, SlotOK
<1>2. ASSUME NEW j \in Jobs, ClaimPendingJob(w, j) PROVE IInv'
  BY <1>1, <1>2, ClaimPendingJobType, ClaimPendingJobSafe DEF IInv
<1>3. CASE LoadJob(w) BY <1>1, <1>3, LoadJobType, LoadJobSafe DEF IInv
<1>4. CASE BeginJob(w) \/ AskStrategy(w) \/ FinishJob(w) \/ FailJob(w)
  BY <1>1, <1>4, StatusStepType, StatusStepSafe DEF IInv
<1>5. CASE ListPages(w) BY <1>1, <1>5, ListPagesType, ListPagesSafe DEF IInv
<1>6. CASE FailJobList(w) BY <1>1, <1>6, FailJobListType, ImageStepSafe DEF IInv
<1>7. CASE \/ \E k \in workers[w].todo : ReadPage(w, k) \/ SkipPage(w, k)
           \/ \E k \in workers[w].got : DeleteObject(w, k)
  BY <1>1, <1>7, ImageStepType, ImageStepSafe DEF IInv
<1>8. CASE NoPageRead(w) BY <1>1, <1>8, GotoStepType, GotoStepSafe DEF IInv
<1>9. CASE OcrComplete(w) BY <1>1, <1>9, OcrCompleteType, OcrCompleteSafe DEF IInv
<1>10. CASE SavePipelineText(w) \/ UpdateJobQuizID(w) \/ ClearPipelineText(w)
  BY <1>1, <1>10, RowStepType, RowStepSafe DEF IInv
<1>11. CASE LookupCache(w) BY <1>1, <1>11, CacheStepType, LookupCacheSafe DEF IInv
<1>12. CASE StoreCache(w) BY <1>1, <1>12, CacheStepType, StoreCacheSafe DEF IInv
<1>13. CASE CreateQuiz(w) BY <1>1, <1>13, CreateQuizType, CreateQuizSafe DEF IInv
<1>14. CASE LinkQuestion(w) BY <1>1, <1>14, LinkQuestionType, LinkQuestionSafe DEF IInv
<1>. QED
  BY <1>2, <1>3, <1>4, <1>5, <1>6, <1>7, <1>8, <1>9, <1>10, <1>11, <1>12, <1>13, <1>14
  DEF WorkerStep

\* The invariant is inductive.
LEMMA NextIInv == IInv /\ [Next]_vars => IInv'
<1>. SUFFICES ASSUME IInv, [Next]_vars PROVE IInv' OBVIOUS
<1>1. TypeOK /\ Safe BY DEF IInv
<1>2. ASSUME NEW j \in Jobs, CreateJob(j) \/ CreatePage(j) PROVE IInv'
  <2>1. 1 \in Pages BY ScanAssumption DEF Pages
  <2>. QED BY <1>1, <1>2, <2>1, CreateJobType, CreatePageType, ClientSafe DEF IInv
<1>3. ASSUME NEW j \in Jobs, NEW p \in Pages, UploadStep(j, p) PROVE IInv'
  BY <1>1, <1>3, PutPageType, MarkPageUploadedType, UploadEndsType, ClientSafe DEF IInv, UploadStep
<1>4. ASSUME NEW j \in Jobs, NEW s \in Strategies, CheckStrategy(j, s) \/ UpdateJobStrategy(j, s)
      PROVE  IInv'
  BY <1>1, <1>4, ChooseType, ChooseSafe DEF IInv
<1>5. ASSUME NEW j \in Jobs, RetryJob(j) \/ TimePasses(j) \/ DayPasses(j) PROVE IInv'
  BY <1>1, <1>5, OutsideType, OutsideSafe DEF IInv
<1>6. ASSUME NEW q \in 1..Len(quizzes), PublishDraft(q) PROVE IInv'
  BY <1>1, <1>6, PublishDraftType, PublishDraftSafe DEF IInv, QuizIds
<1>7. ASSUME NEW w \in Workers, WorkerStep(w) PROVE IInv'
  BY <1>7, WorkerStepIInv
<1>8. ASSUME NEW w \in Workers, WorkerFault(w) PROVE IInv'
  <2>1. SlotText(w) BY <1>1 DEF Safe, SlotOK
  <2>2. CASE RateLimited(w) BY <1>1, <2>1, <2>2, StatusStepType, StatusStepSafe DEF IInv
  <2>3. CASE WorkerError(w) \/ WorkerStops(w)
    BY <1>1, <2>1, <2>3, GotoStepType, GotoStepSafe DEF IInv
  <2>. QED BY <1>8, <2>2, <2>3 DEF WorkerFault
<1>9. ASSUME NEW t \in Texts, EvictCache(t) PROVE IInv'
  BY <1>1, <1>9, EvictCacheType, EvictCacheSafe DEF IInv
<1>10. CASE CleanupList BY <1>1, <1>10, CleanupListType, CleanupSafe DEF IInv
<1>11. ASSUME NEW k \in sweep, CleanupDelete(k) PROVE IInv'
  BY <1>1, <1>11, CleanupDeleteType, CleanupSafe DEF IInv
<1>12. CASE UNCHANGED vars
  BY <1>1, <1>12 DEF vars, IInv, TypeOK, Safe, QuizOK, JobOK, CacheOK, SlotOK, SlotText, SlotLink,
     SlotQuiz, OneWriter, Showable, Shareable, QuizIds
<1>. QED
  BY <1>2, <1>3, <1>4, <1>5, <1>6, <1>7, <1>8, <1>9, <1>10, <1>11, <1>12 DEF Next

\* The inductive invariant holds in every reachable state.
THEOREM Invariance == Spec => []IInv
BY InitIInv, NextIInv, PTL DEF Spec

\* Every row and every local variable keeps its shape, for any number of jobs,
\* slots and faults: in particular no quiz gets more questions than were generated
\* (LinkQuestionToQuiz in worker.go's question loop).
THEOREM TypeCorrect == Spec => []TypeOK
<1>1. IInv => TypeOK BY DEF IInv
<1>. QED BY <1>1, Invariance, PTL

\* The quiz a job points at has all of its questions, whatever slots crash, overlap
\* or fail between worker.go's inserts (it records the quiz id after the last one).
THEOREM QuizzesComplete == Spec => []JobQuizComplete
<1>1. IInv => JobQuizComplete BY DEF IInv, Safe, JobOK, Showable, JobQuizComplete
<1>. QED BY <1>1, Invariance, PTL

\* A job is announced as ready only with a quiz, in worker.go as in PublishDraft.
THEOREM ReadyJobsHaveQuizzes == Spec => []ReadyHasQuiz
<1>1. IInv => ReadyHasQuiz BY DEF IInv, Safe, JobOK, ReadyHasQuiz
<1>. QED BY <1>1, Invariance, PTL

\* The content cache hands out only complete, published, generated quizzes of the
\* very text they are stored under (saveToCache in worker.go).
THEOREM CacheIsSound == Spec => []CacheSound
<1>1. IInv => CacheSound BY DEF IInv, Safe, CacheOK, Shareable, CacheSound
<1>. QED BY <1>1, Invariance, PTL

\* The quiz of a job is about a text OCR reads on that job's own pages, through the
\* cache and the saved pipeline text alike.
THEOREM QuizzesAreOwn == Spec => []QuizOfOwnText
<1>1. IInv => QuizOfOwnText BY DEF IInv, Safe, JobOK, Showable, QuizOfOwnText
<1>. QED BY <1>1, Invariance, PTL

=============================================================================
