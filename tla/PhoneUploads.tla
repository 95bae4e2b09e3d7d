------------------------------ MODULE PhoneUploads ------------------------------
(***************************************************************************)
(* The upload queue of the phone and the scan screen that works on it.     *)
(* The queue is one value in AsyncStorage: every change reads all of it,   *)
(* waits, and writes all of it back.  Uploads, polls and progress notes do *)
(* so side by side, some without waiting for the result.  AsyncStorage     *)
(* itself serves its calls one after another, in the order they came.      *)
(***************************************************************************)
EXTENDS Integers, Sequences, FiniteSets, FiniteSetsExt

CONSTANTS
    NUploads,     \* queue entries of a behaviour
    Pictures,     \* the uris of pages
    Rolls,        \* the lists of pages the form may hold
    NPages,       \* MAX_PAGES_PER_SCAN, 10
    Flows,        \* calls of startUpload and retryUpload that run side by side
    MaxAttempts,  \* MAX_ATTEMPTS, 5
    MaxWrites,    \* bounds the changes that are under way
    PhoneBudgets  \* bounds [starts, edits, reconnects, removes, drops, refusals, kills : Nat]

ASSUME PhoneAssumption ==
    /\ {NUploads, NPages, MaxAttempts, MaxWrites} \subseteq Nat \ {0}
    /\ \A roll \in Rolls : roll \in Seq(Pictures) /\ Len(roll) \in 1..NPages

VARIABLES
    queue,        \* studyapp.upload.queue: the entries by id
    writes,       \* changes of it that are under way, in the order of their next call
    screen,       \* state of ScanScreen: draft, terms, busy, and the status shown per entry
    flows,        \* what each upload is about
    polls,        \* the job that is polled for an entry, or 0
    due,          \* per reconnect handler the entries it has still to retry
    server,       \* the scan jobs: the upload each was made for, its pages, status
    origin,       \* history: the pages each upload was started with
    swapped,      \* history: entries whose pages a retry replaced by others
    phoneBudget

phoneVars == <<queue, writes, screen, flows, polls, due, server, origin, swapped, phoneBudget>>

Entries == 1..NUploads
\* form: pagesToUpload, what the called render saw of the form, <<>> without consent;
\* uris: the pages of queueItem; handler: the reconnect handler that waits, or 0.
NoFlow == [pc |-> "idle", id |-> 0, new |-> FALSE, handler |-> 0, form |-> <<>>, uris |-> <<>>, job |-> 0,
           sent |-> 0, attempts |-> 0, page |-> 0]
Fresh(uris) == [status |-> "queued", uris |-> uris, job |-> 0, sent |-> 0, attempts |-> 0, quiz |-> 0]
Spend(k) == phoneBudget[k] > 0 /\ phoneBudget' = [phoneBudget EXCEPT ![k] = @ - 1]
To(f, pc) == flows' = [flows EXCEPT ![f].pc = pc]
\* updateQueueEntry changes an entry that the screen lists.
Shown(id, status) == [screen EXCEPT !.shown[id] = IF @ = "none" THEN @ ELSE status]

(* ------------------------------- the queue ------------------------------- *)

\* A call of updateUpload, enqueueUpload or removeUpload; by is the flow that waits
\* for it, "screen" when only the screen does, or "nobody".
Change(by, op, id, patch) == [by |-> by, op |-> op, id |-> id, patch |-> patch, read |-> FALSE, seen |-> <<>>]
updateUpload(by, id, patch) == Change(by, "update", id, patch)
enqueueUpload(by, id, uris) == Change(by, "add", id, [uris |-> uris])
removeUpload(id) == Change("screen", "remove", id, <<>>)

Patched(c) ==
    CASE c.op = "add" -> [i \in DOMAIN c.seen \cup {c.id} |-> IF i = c.id THEN Fresh(c.patch.uris) ELSE c.seen[i]]
      [] c.op = "remove" -> [i \in DOMAIN c.seen \ {c.id} |-> c.seen[i]]
      [] OTHER -> [i \in DOMAIN c.seen |->
                     IF i # c.id THEN c.seen[i]
                     ELSE [x \in DOMAIN c.seen[i] |-> IF x \in DOMAIN c.patch THEN c.patch[x] ELSE c.seen[i][x]]]

\* The first call is served; what it read goes into the call that writes, at the end.
getQueuedUploads ==
    /\ writes # <<>> /\ ~Head(writes).read
    /\ writes' = Append(Tail(writes), [Head(writes) EXCEPT !.read = TRUE, !.seen = queue])
    /\ UNCHANGED <<queue, screen, flows, polls, due, server, origin, swapped, phoneBudget>>

\* An update of an entry that was not there writes nothing.  The screen then shows a
\* new entry or the end of a poll, and drops what was removed.
saveQueuedUploads ==
    LET c == Head(writes) IN
    /\ writes # <<>> /\ c.read
    /\ writes' = Tail(writes)
    /\ queue' = IF c.op = "update" /\ c.id \notin DOMAIN c.seen THEN queue ELSE Patched(c)
    /\ screen' = IF c.op = "add" THEN [screen EXCEPT !.shown[c.id] = "queued"]
                 ELSE IF c.by # "screen" THEN screen
                 ELSE IF c.op = "remove" THEN [screen EXCEPT !.shown[c.id] = "none"]
                 ELSE Shown(c.id, c.patch.status)
    /\ UNCHANGED <<flows, polls, due, server, origin, swapped, phoneBudget>>

\* A flow goes on when its own change has been written.
Awaited(f) == \A i \in DOMAIN writes : writes[i].by # f
Note(changes) == Len(writes) + Len(changes) <= MaxWrites /\ writes' = writes \o changes

(* ------------------------------ the uploads ------------------------------ *)

\* handlePick, removeDraftPage and the consent box.
EditForm ==
    /\ \/ \E roll \in Rolls \ {screen.draft} : screen' = [screen EXCEPT !.draft = roll]
       \/ ~screen.terms /\ screen' = [screen EXCEPT !.terms = TRUE]
    /\ Spend("edits")
    /\ UNCHANGED <<queue, writes, flows, polls, due, server, origin, swapped>>

\* The render whose function is called fixes what it sees of the form.
Form == IF screen.terms THEN screen.draft ELSE <<>>

startUpload(f, id) ==
    /\ flows[f].pc = "idle" /\ id \notin DOMAIN origin /\ 1..(id - 1) \subseteq DOMAIN origin
    /\ ~screen.busy /\ Form # <<>> /\ Spend("starts")
    /\ flows' = [flows EXCEPT ![f] =
         [NoFlow EXCEPT !.pc = "check", !.id = id, !.new = TRUE, !.form = Form, !.uris = Form]]
    /\ origin' = [i \in DOMAIN origin \cup {id} |-> IF i = id THEN Form ELSE origin[i]]
    /\ UNCHANGED <<queue, writes, screen, polls, due, server, swapped>>

\* The retry button of a failed entry, or a handler that runs when the phone is online
\* again: it looked at the status before it slept, and retries one after another.
retryUpload(f, id) ==
    /\ flows[f].pc = "idle"
    /\ \E h \in 0 .. Len(due) :
         /\ \/ h = 0 /\ screen.shown[id] = "failed" /\ Spend("starts") /\ UNCHANGED due
            \/ /\ h # 0 /\ id \in due[h] /\ due' = [due EXCEPT ![h] = @ \ {id}] /\ UNCHANGED phoneBudget
               /\ \A g \in Flows : flows[g].handler # h
         /\ flows' = [flows EXCEPT ![f] = [NoFlow EXCEPT !.pc = "look", !.id = id, !.handler = h, !.form = Form]]
    /\ UNCHANGED <<queue, writes, screen, polls, server, origin, swapped>>

Reconnect ==
    /\ Spend("reconnects")
    /\ due' = Append(due, {i \in DOMAIN queue : queue[i].status = "failed" /\ queue[i].attempts < MaxAttempts})
    /\ UNCHANGED <<queue, writes, screen, flows, polls, server, origin, swapped>>

\* retryUpload goes back to the pages of the entry and marks it queued.
LookUp(f) ==
    LET id == flows[f].id IN
    /\ flows[f].pc = "look"
    /\ IF id \notin DOMAIN queue THEN flows' = [flows EXCEPT ![f] = NoFlow] /\ UNCHANGED <<writes, screen>>
       ELSE /\ flows' = [flows EXCEPT ![f].pc = "check", ![f].job = queue[id].job]
            /\ screen' = [screen EXCEPT !.draft = queue[id].uris]
            /\ Note(<<updateUpload(f, id, [status |-> "queued", sent |-> queue[id].sent])>>)
    /\ UNCHANGED <<queue, polls, due, server, origin, swapped, phoneBudget>>

\* Without pages, consent, a token or a server nothing happens; a retried entry stays queued.
Check(f) ==
    LET id == flows[f].id IN
    /\ flows[f].pc = "check" /\ Awaited(f)
    /\ \/ /\ flows[f].form # <<>>
          /\ IF flows[f].new THEN To(f, "job") /\ Note(<<enqueueUpload(f, id, flows[f].form)>>)
                             ELSE To(f, "find") /\ UNCHANGED writes
          /\ screen' = [(IF flows[f].new THEN screen ELSE Shown(id, "queued")) EXCEPT !.busy = TRUE]
          /\ UNCHANGED phoneBudget
       \/ /\ IF flows[f].form = <<>> THEN UNCHANGED phoneBudget ELSE Spend("drops")
          /\ flows' = [flows EXCEPT ![f] = NoFlow]
          /\ screen' = IF flows[f].new THEN screen ELSE Shown(id, "queued")
          /\ UNCHANGED writes
    /\ UNCHANGED <<queue, polls, due, server, origin, swapped>>

\* The entry gets the pages of the form; the flow sends those the entry had.
FindEntry(f) ==
    LET id == flows[f].id IN
    /\ flows[f].pc = "find"
    /\ IF id \notin DOMAIN queue
       THEN /\ flows' = [flows EXCEPT ![f] = NoFlow] /\ screen' = [screen EXCEPT !.busy = FALSE]
            /\ UNCHANGED <<writes, swapped>>
       ELSE /\ flows' = [flows EXCEPT ![f] = [@ EXCEPT !.pc = "job", !.uris = queue[id].uris, !.sent = queue[id].sent,
                                  !.attempts = queue[id].attempts,
                                  !.job = IF flows[f].job # 0 THEN flows[f].job ELSE queue[id].job]]
            /\ Note(<<updateUpload(f, id, [status |-> "uploading", uris |-> flows[f].form])>>)
            /\ swapped' = IF flows[f].form = queue[id].uris THEN swapped ELSE swapped \cup {id}
            /\ UNCHANGED screen
    /\ UNCHANGED <<queue, polls, due, server, origin, phoneBudget>>

\* The catch block.
Caught(f) ==
    Note(<<updateUpload(f, flows[f].id, [status |-> "failed", attempts |-> flows[f].attempts + 1])>>)
    /\ To(f, "caught")

\* A job has a row for each page of the form.
NewJob(f) == [for |-> flows[f].id, rows |-> Len(flows[f].form), pages |-> {}, status |-> "uploading", quiz |-> "none"]

CreateJob(f) ==
    /\ flows[f].pc = "job" /\ Awaited(f)
    /\ \/ /\ flows[f].job # 0 /\ To(f, "begin") /\ UNCHANGED <<writes, server, phoneBudget>>
       \/ /\ flows[f].job = 0
          /\ server' = Append(server, NewJob(f))
          /\ flows' = [flows EXCEPT ![f].pc = "begin", ![f].job = Len(server')]
          /\ Note(<<updateUpload(f, flows[f].id, [job |-> Len(server'), uris |-> flows[f].form])>>)
          /\ UNCHANGED phoneBudget
       \/ /\ flows[f].job = 0 /\ Spend("drops") /\ Caught(f)
          /\ \/ UNCHANGED server
             \/ server' = Append(server, NewJob(f))
    /\ UNCHANGED <<queue, screen, polls, due, origin, swapped>>

\* The page after the one to begin with: page numbers are taken for indexes.
FirstPageOneBased(sent, n) == Max({0, Min({sent + 1, n - 1})}) + 1

\* uploadMultiplePages starts at the page after those counted, at the last one at most.
FirstPage(sent, n) == Max({0, Min({sent, n - 1})}) + 1

BeginPages(f) ==
    /\ flows[f].pc = "begin" /\ Awaited(f)
    /\ flows' = [flows EXCEPT ![f].pc = "pages", ![f].page = FirstPage(flows[f].sent, Len(flows[f].uris))]
    /\ Note(<<updateUpload(f, flows[f].id, [status |-> "uploading"])>>)
    /\ screen' = Shown(flows[f].id, "uploading")
    /\ UNCHANGED <<queue, polls, due, server, origin, swapped, phoneBudget>>

\* The server takes a page; with the last one it queues the job, and ignores an error of that.
Received(f, queues) ==
    LET job == flows[f].job
        pages == server[job].pages \cup {[no |-> flows[f].page, uri |-> flows[f].uris[flows[f].page]]}
        ready == \A no \in 1 .. server[job].rows : \E x \in pages : x.no = no IN
    [server EXCEPT ![job].pages = pages, ![job].status = IF ready /\ queues THEN "pending" ELSE @]

\* What onPageComplete and onProgress note of a page, without waiting for it.  (The
\* notes of onProgress before that say what is already noted.)
Progress(f) ==
    <<updateUpload("nobody", flows[f].id, [sent |-> flows[f].page]),
      updateUpload("nobody", flows[f].id, [status |-> "uploading"])>>

\* The server refuses a page that the job has no row for.
UploadPage(f) ==
    LET id == flows[f].id
        n == Len(flows[f].uris)
        known == flows[f].page <= server[flows[f].job].rows IN
    /\ flows[f].pc = "pages" /\ Awaited(f)
    /\ \/ /\ known /\ screen' = Shown(id, "uploading")
          /\ \/ server' = Received(f, TRUE) /\ UNCHANGED phoneBudget
             \/ server' = Received(f, FALSE) /\ Spend("drops")
          /\ IF flows[f].page < n
             THEN Note(Progress(f)) /\ flows' = [flows EXCEPT ![f].page = @ + 1]
             ELSE /\ Note(Progress(f) \o <<updateUpload(f, id, [status |-> "processing", sent |-> n])>>)
                  /\ To(f, "done")
       \/ known /\ Spend("drops") /\ Caught(f) /\ UNCHANGED screen /\ (UNCHANGED server \/ server' = Received(f, TRUE))
       \/ ~known /\ Caught(f) /\ UNCHANGED <<screen, server, phoneBudget>>
    /\ UNCHANGED <<queue, polls, due, origin, swapped>>

\* The end of startUpload, well or badly.
FinishUpload(f) ==
    LET id == flows[f].id IN
    /\ flows[f].pc \in {"done", "caught"} /\ Awaited(f)
    /\ \/ /\ flows[f].pc = "done"
          /\ screen' = [Shown(id, "processing") EXCEPT !.draft = <<>>, !.busy = FALSE]
          /\ polls' = [polls EXCEPT ![id] = IF @ = 0 THEN flows[f].job ELSE @]
       \/ /\ flows[f].pc = "caught"
          /\ screen' = [Shown(id, "failed") EXCEPT !.busy = FALSE]
          /\ UNCHANGED polls
    /\ flows' = [flows EXCEPT ![f] = NoFlow]
    /\ UNCHANGED <<queue, writes, due, server, origin, swapped, phoneBudget>>

\* The Remove button.
clearUpload(id) ==
    /\ screen.shown[id] # "none" /\ Spend("removes")
    /\ Note(<<removeUpload(id)>>)
    /\ UNCHANGED <<queue, screen, flows, polls, due, server, origin, swapped>>

(* ------------------------------- the polls ------------------------------- *)

Terminal == {"quiz_ready", "review_ready", "failed"}

\* What the end of a poll writes into the entry.
Outcome(job) ==
    CASE server[job].status = "quiz_ready" -> [status |-> "ready", quiz |-> job]
      [] server[job].status = "review_ready" -> [status |-> "review", quiz |-> job]
      [] OTHER -> [status |-> "failed", job |-> 0]

\* A tick: onUpdate always, and the end of the poll when the status is a last one.
PollTick(id) ==
    LET progress == updateUpload("nobody", id, [status |-> "processing"]) IN
    /\ polls[id] # 0
    /\ screen' = Shown(id, "processing")
    /\ IF server[polls[id]].status \in Terminal
       THEN /\ Note(<<progress, updateUpload("screen", id, Outcome(polls[id]))>>)
            /\ polls' = [polls EXCEPT ![id] = 0]
       ELSE Note(<<progress>>) /\ UNCHANGED polls
    /\ UNCHANGED <<queue, flows, due, server, origin, swapped, phoneBudget>>

\* After five minutes the poll gives up and leaves the entry as it is.
PollTimesOut(id) ==
    /\ polls[id] # 0 /\ server[polls[id]].status \notin Terminal
    /\ Spend("drops") /\ polls' = [polls EXCEPT ![id] = 0]
    /\ UNCHANGED <<queue, writes, screen, flows, due, server, origin, swapped>>

\* The worker, as the phone sees it.
ServerEnds(j) ==
    /\ server[j].status = "pending"
    /\ \/ /\ \E s \in {"quiz_ready", "review_ready"} :
                /\ server[j].quiz \in {"none", s}
                /\ server' = [server EXCEPT ![j].status = s, ![j].quiz = s]
          /\ UNCHANGED phoneBudget
       \/ Spend("refusals") /\ server' = [server EXCEPT ![j].status = "failed"]
    /\ UNCHANGED <<queue, writes, screen, flows, polls, due, origin, swapped>>

\* The application is killed and opened again: it polls for what was processing.
Restart ==
    /\ Spend("kills")
    /\ writes' = <<>> /\ due' = <<>> /\ flows' = [f \in Flows |-> NoFlow]
    /\ screen' = [draft |-> <<>>, terms |-> FALSE, busy |-> FALSE,
                  shown |-> [i \in Entries |-> IF i \in DOMAIN queue THEN queue[i].status ELSE "none"]]
    /\ polls' = [i \in Entries |-> IF i \in DOMAIN queue /\ queue[i].status = "processing" THEN queue[i].job ELSE 0]
    /\ UNCHANGED <<queue, server, origin, swapped>>

\* The form has been filled.
PhoneInit ==
    /\ queue = <<>> /\ writes = <<>> /\ due = <<>> /\ server = <<>> /\ origin = <<>> /\ swapped = {}
    /\ screen \in [draft : Rolls, terms : {TRUE}, busy : {FALSE}, shown : {[i \in Entries |-> "none"]}]
    /\ flows = [f \in Flows |-> NoFlow] /\ polls = [i \in Entries |-> 0]
    /\ phoneBudget \in PhoneBudgets

PhoneNext ==
    \/ EditForm \/ Reconnect \/ Restart \/ getQueuedUploads \/ saveQueuedUploads
    \/ \E f \in Flows :
         \/ \E id \in Entries : startUpload(f, id) \/ retryUpload(f, id)
         \/ LookUp(f) \/ Check(f) \/ FindEntry(f) \/ CreateJob(f) \/ BeginPages(f)
         \/ UploadPage(f) \/ FinishUpload(f)
    \/ \E id \in Entries : clearUpload(id) \/ PollTick(id) \/ PollTimesOut(id)
    \/ \E j \in DOMAIN server : ServerEnds(j)

(* ------------------------------ properties ------------------------------ *)

PhoneTypeOK ==
    /\ DOMAIN queue \subseteq Entries
    /\ \A i \in DOMAIN queue :
         /\ queue[i].status \in {"queued", "uploading", "processing", "review", "ready", "failed"}
         /\ {queue[i].job, queue[i].quiz} \subseteq 0 .. Len(server) /\ queue[i].sent \in 0..NPages
         /\ queue[i].attempts \in Nat /\ queue[i].uris \in Rolls
    /\ \A f \in Flows : flows[f].pc \in {"idle", "look", "check", "find", "job", "begin", "pages", "done", "caught"}
    /\ \A i \in Entries : polls[i] \in 0 .. Len(server)
    /\ Len(writes) <= MaxWrites

\* However the changes of the queue overlap, and after a restart: a page number that
\* counts as uploaded has reached the server in some job of this upload, and an entry
\* that offers a quiz offers one that was made of a job of this upload.  Unless a retry
\* replaced the pages of the entry by those of another form, they are the ones the upload
\* was started with, and what reached the server under a counted number is that page.
QueueTellsTruth ==
    \A i \in DOMAIN queue :
        /\ i \in swapped \/ (queue[i].uris = origin[i] /\ queue[i].sent <= Len(origin[i]))
        /\ \A p \in 1 .. queue[i].sent : \E j \in DOMAIN server : \E page \in server[j].pages :
             server[j].for = i /\ page.no = p /\ (i \in swapped \/ page.uri = origin[i][p])
        /\ queue[i].status \in {"ready", "review"} =>
             /\ queue[i].quiz # 0 /\ server[queue[i].quiz].for = i
             /\ server[queue[i].quiz].quiz = IF queue[i].status = "ready" THEN "quiz_ready" ELSE "review_ready"
===============================================================================
