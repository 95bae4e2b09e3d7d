--------------------------- MODULE NotificationQueue ---------------------------
(***************************************************************************)
(* The Redis notification worker for the jobs of one user: the main loop   *)
(* with its bounded goroutines, the retry processor, the dead-letter list, *)
(* the hourly limit, and what reaches devices and mailbox.  A job that was *)
(* popped is in no list until it is recorded or pushed again.              *)
(***************************************************************************)
EXTENDS Integers, Sequences, FiniteSets

CONSTANTS
    Jobs,          \* ids of queue jobs
    Kind,          \* of each job: [template, push, email : BOOLEAN]
    Devices,       \* device tokens of the user
    Slots,         \* goroutines of the main loop (maxConcurrent)
    MaxAttempts,   \* maxAttempts, 5
    HourlyLimit,   \* jobs per user and hour, 10
    HasFCM,        \* the process has a client of FCM
    NoticeBudget

Mailbox == "mailbox"
Templates == {"quiz_ready", "email_otp", "unknown"}
NoticeFaults == {"crash",   \* the process dies
                 "error",   \* an error of Redis or Postgres
                 "change"}  \* the user edits devices or preferences

ASSUME NoticeAssumption ==
    /\ Kind \in [Jobs -> [template : Templates, push : BOOLEAN, email : BOOLEAN]]
    /\ MaxAttempts \in Nat \ {0} /\ HourlyLimit \in Nat
    /\ HasFCM \in BOOLEAN /\ Mailbox \notin Devices /\ NoticeBudget \in [NoticeFaults -> Nat]

VARIABLES
    queue,         \* notif:queue, newest first
    retryQueue,    \* notif:retry
    dlq,           \* notif:dlq
    log,           \* notification_jobs rows by idempotency key
    slots,         \* goroutines and the retry processor
    devices,       \* is_active of each token
    prefs,         \* push_enabled and email_enabled
    edits,         \* the preferences a settings request has read: a set of at most one
    hour,          \* the counter of the hour
    seen,          \* how often each device and the mailbox got each job
    dropped,       \* jobs lost with a process, a failed push to a list or a failed row
    noticeBudget

noticeVars == <<queue, retryQueue, dlq, log, slots, devices, prefs, edits, hour, seen,
                dropped, noticeBudget>>

Retrier == "retrier"
Runners == Slots \cup {Retrier}
Free == [pc |-> "free"]
Lose(k) ==
    /\ noticeBudget[k] > 0
    /\ noticeBudget' = [noticeBudget EXCEPT ![k] = @ - 1]
Goes(s, pc) == slots' = [slots EXCEPT ![s].pc = pc]
Release(s) == slots' = [slots EXCEPT ![s] = Free]
Id(s) == slots[s].job.id
Of(s) == Kind[Id(s)]

(* ------------------------------- the queue ------------------------------ *)

Queued(id) == \E i \in DOMAIN queue : queue[i].id = id

\* QuizReady, PaymentCaptured, EnqueueRegistrationOTP and the like.
Enqueue(id) ==
    /\ ~Queued(id) /\ id \notin DOMAIN log /\ id \notin dropped /\ id \notin dlq
    /\ \A s \in Runners : slots[s].pc # "free" => Id(s) # id
    /\ \A i \in DOMAIN retryQueue : retryQueue[i].id # id
    /\ queue' = <<[id |-> id, attempt |-> 0]>> \o queue
    /\ UNCHANGED <<retryQueue, dlq, log, slots, devices, prefs, edits, hour, seen, dropped, noticeBudget>>

LastOf(list) == list[Len(list)]
WithoutLast(list) == SubSeq(list, 1, Len(list) - 1)

Started(job) == [pc |-> "begin", job |-> job, todo |-> {}, push |-> FALSE, email |-> FALSE,
                 pushOK |-> FALSE, emailOK |-> FALSE]

\* BRPop, and a place under the semaphore.
Pop(s) ==
    /\ s \in Slots /\ slots[s].pc = "free" /\ queue # <<>>
    /\ slots' = [slots EXCEPT ![s] = Started(LastOf(queue))]
    /\ queue' = WithoutLast(queue)
    /\ UNCHANGED <<retryQueue, dlq, log, devices, prefs, edits, hour, seen, dropped, noticeBudget>>

\* The retry processor holds one job while its backoff runs.
PopRetry ==
    /\ slots[Retrier].pc = "free" /\ retryQueue # <<>>
    /\ slots' = [slots EXCEPT ![Retrier] =
          [Started(LastOf(retryQueue)) EXCEPT !.pc =
              IF LastOf(retryQueue).attempt >= MaxAttempts THEN "bury" ELSE "wait"]]
    /\ retryQueue' = WithoutLast(retryQueue)
    /\ UNCHANGED <<queue, dlq, log, devices, prefs, edits, hour, seen, dropped, noticeBudget>>

BackoffEnds ==
    /\ slots[Retrier].pc = "wait" /\ Goes(Retrier, "begin")
    /\ UNCHANGED <<queue, retryQueue, dlq, log, devices, prefs, edits, hour, seen, dropped, noticeBudget>>

(* ------------------------------ processJob ------------------------------ *)

isTransactionalTemplate(t) == t = "email_otp"

\* templateDefs knows the template.
Render(t) == t # "unknown"

\* Preferences that cannot be read are the defaults.
GetUserPreferences == {prefs, [push |-> TRUE, email |-> TRUE]}

\* An unknown template fails the job.
BeginNotice(s) ==
    /\ slots[s].pc = "begin"
    /\ \E p \in GetUserPreferences :
         /\ \/ p = prefs /\ UNCHANGED noticeBudget
            \/ p # prefs /\ Lose("error")
         /\ slots' = [slots EXCEPT
               ![s].pc = IF Render(Of(s).template) THEN "limit" ELSE "failed",
               ![s].push = Of(s).push /\ p.push,
               ![s].email = Of(s).email /\ (isTransactionalTemplate(Of(s).template) \/ p.email)]
    /\ UNCHANGED <<queue, retryQueue, dlq, log, devices, prefs, edits, hour, seen, dropped>>

\* Counted again at every attempt; without Redis nothing is refused.
checkRateLimit(s) ==
    /\ slots[s].pc = "limit"
    /\ \/ /\ hour' = hour + 1
          /\ Goes(s, IF hour + 1 <= HourlyLimit THEN "tokens" ELSE "skipped")
          /\ UNCHANGED noticeBudget
       \/ Lose("error") /\ Goes(s, "tokens") /\ UNCHANGED hour
    /\ UNCHANGED <<queue, retryQueue, dlq, log, devices, prefs, edits, seen, dropped>>

HourEnds ==
    /\ hour > 0 /\ hour' = 0 /\ Lose("change")
    /\ UNCHANGED <<queue, retryQueue, dlq, log, slots, devices, prefs, edits, seen, dropped>>

GetActiveDeviceTokens == {d \in Devices : devices[d]}

\* Without a client of FCM the push counts as sent.
ListTokens(s) ==
    /\ slots[s].pc = "tokens"
    /\ \/ ~slots[s].push /\ Goes(s, "email") /\ UNCHANGED noticeBudget
       \/ /\ slots[s].push /\ UNCHANGED noticeBudget
          /\ slots' = IF HasFCM
                      THEN [slots EXCEPT ![s].todo = GetActiveDeviceTokens,
                              ![s].pc = IF GetActiveDeviceTokens = {} THEN "email" ELSE "push"]
                      ELSE [slots EXCEPT ![s].pushOK = GetActiveDeviceTokens # {}, ![s].pc = "email"]
       \/ slots[s].push /\ Lose("error") /\ Goes(s, "email")
    /\ UNCHANGED <<queue, retryQueue, dlq, log, devices, prefs, edits, hour, seen, dropped>>

MarkTokenInactive(d) == [devices EXCEPT ![d] = FALSE]

AfterDevice(s, d) ==
    [slots[s] EXCEPT !.todo = @ \ {d}, !.pc = IF slots[s].todo = {d} THEN "email" ELSE "push"]

\* What FCM answers: sent, token unknown, another client error.
SendToToken(s, d) ==
    /\ slots[s].pc = "push" /\ d \in slots[s].todo
    /\ \/ /\ seen' = [seen EXCEPT ![Id(s)][d] = @ + 1]
          /\ slots' = [slots EXCEPT ![s] = [AfterDevice(s, d) EXCEPT !.pushOK = TRUE]]
          /\ UNCHANGED devices
       \/ /\ devices' = MarkTokenInactive(d)
          /\ slots' = [slots EXCEPT ![s] = AfterDevice(s, d)]
          /\ UNCHANGED seen
       \/ slots' = [slots EXCEPT ![s] = AfterDevice(s, d)] /\ UNCHANGED <<devices, seen>>
    /\ UNCHANGED <<queue, retryQueue, dlq, log, prefs, edits, hour, dropped, noticeBudget>>

SameAttempt(job) == job

NextAttempt(job) == [job EXCEPT !.attempt = @ + 1]

\* A push to a list of Valkey fails: the popped job is nowhere any more.
PushLost(s) == Lose("error") /\ dropped' = dropped \cup {Id(s)} /\ Release(s)

\* A retryable error leaves the loop: the whole job is scheduled again.
scheduleRetry(s) ==
    LET job == NextAttempt(slots[s].job) IN
    /\ slots[s].pc = "push"
    /\ \/ /\ job.attempt >= MaxAttempts
          /\ slots' = [slots EXCEPT ![s].job = job, ![s].pc = "bury"]
          /\ UNCHANGED <<retryQueue, dropped, noticeBudget>>
       \/ /\ job.attempt < MaxAttempts
          /\ retryQueue' = <<job>> \o retryQueue
          /\ Release(s) /\ UNCHANGED <<dropped, noticeBudget>>
       \/ job.attempt < MaxAttempts /\ PushLost(s) /\ UNCHANGED retryQueue
    /\ UNCHANGED <<queue, dlq, log, devices, prefs, edits, hour, seen>>

SendEmail(s) ==
    /\ slots[s].pc = "email"
    /\ \/ /\ slots[s].email
          /\ seen' = [seen EXCEPT ![Id(s)][Mailbox] = @ + 1]
          /\ slots' = [slots EXCEPT ![s].emailOK = TRUE, ![s].pc = "status"]
       \/ Goes(s, "status") /\ UNCHANGED seen
    /\ UNCHANGED <<queue, retryQueue, dlq, log, devices, prefs, edits, hour, dropped, noticeBudget>>

\* A failed mail alone does not make the job failed.
StatusOf(s) ==
    LET x == slots[s] IN
    CASE x.push /\ ~x.pushOK /\ ~x.emailOK -> "failed"
      [] ~x.push /\ ~x.email -> "skipped"
      [] OTHER -> "delivered"

Write(s, status) ==
    /\ \/ log' = [id \in DOMAIN log \cup {Id(s)} |-> IF id = Id(s) THEN status ELSE log[id]]
          /\ UNCHANGED <<dropped, noticeBudget>>
       \/ UNCHANGED log /\ dropped' = dropped \cup {Id(s)} /\ Lose("error")
    /\ Release(s)

recordJob(s) ==
    /\ \/ slots[s].pc = "status" /\ Write(s, StatusOf(s))
       \/ slots[s].pc \in {"failed", "skipped"} /\ Write(s, slots[s].pc)
    /\ UNCHANGED <<queue, retryQueue, dlq, devices, prefs, edits, hour, seen>>

moveToDLQUnrecorded(s) ==
    /\ slots[s].pc = "bury"
    /\ \/ dlq' = dlq \cup {Id(s)} /\ Release(s) /\ UNCHANGED <<dropped, noticeBudget>>
       \/ PushLost(s) /\ UNCHANGED dlq
    /\ UNCHANGED <<queue, retryQueue, log, devices, prefs, edits, hour, seen>>

\* The row follows the dead letter; without the letter there is no row either.
moveToDLQ(s) ==
    /\ slots[s].pc = "bury"
    /\ \/ dlq' = dlq \cup {Id(s)} /\ Goes(s, "failed") /\ UNCHANGED <<dropped, noticeBudget>>
       \/ PushLost(s) /\ UNCHANGED dlq
    /\ UNCHANGED <<queue, retryQueue, log, devices, prefs, edits, hour, seen>>

(* --------------------------- devices and settings ----------------------- *)

\* A token that is registered again becomes active.
CreateFCMDeviceToken(d) == [devices EXCEPT ![d] = TRUE]

RegisterDevice(d) ==
    /\ Lose("change") /\ devices' = CreateFCMDeviceToken(d)
    /\ UNCHANGED <<queue, retryQueue, dlq, log, slots, prefs, edits, hour, seen, dropped>>

ReadPreferences ==
    /\ edits = {} /\ Lose("change") /\ edits' = {prefs}
    /\ UNCHANGED <<queue, retryQueue, dlq, log, slots, devices, prefs, hour, seen, dropped>>

\* All settings are written back, the changed one with them.
UpdateUserPreferences(field, value) ==
    /\ \E p \in edits : prefs' = [p EXCEPT ![field] = value]
    /\ edits' = {}
    /\ UNCHANGED <<queue, retryQueue, dlq, log, slots, devices, hour, seen, dropped, noticeBudget>>

(* -------------------------------- crashes ------------------------------- *)

Crash ==
    /\ Lose("crash")
    /\ dropped' = dropped \cup {Id(s) : s \in {r \in Runners : slots[r].pc # "free"}}
    /\ slots' = [s \in Runners |-> Free]
    /\ UNCHANGED <<queue, retryQueue, dlq, log, devices, prefs, edits, hour, seen>>

NoticeInit ==
    /\ queue = <<>> /\ retryQueue = <<>> /\ dlq = {} /\ log = <<>>
    /\ slots = [s \in Runners |-> Free]
    /\ devices = [d \in Devices |-> TRUE]
    /\ prefs = [push |-> TRUE, email |-> TRUE] /\ edits = {} /\ hour = 0
    /\ seen = [id \in Jobs |-> [d \in Devices \cup {Mailbox} |-> 0]]
    /\ dropped = {} /\ noticeBudget = NoticeBudget

Process(s) ==
    \/ BeginNotice(s) \/ checkRateLimit(s) \/ ListTokens(s)
    \/ \E d \in Devices : SendToToken(s, d)
    \/ scheduleRetry(s) \/ SendEmail(s) \/ recordJob(s) \/ moveToDLQ(s)

NoticeNext ==
    \/ \E id \in Jobs : Enqueue(id)
    \/ \E s \in Runners : Pop(s) \/ Process(s)
    \/ PopRetry \/ BackoffEnds \/ HourEnds
    \/ \E d \in Devices : RegisterDevice(d)
    \/ ReadPreferences
    \/ \E f \in {"push", "email"}, v \in BOOLEAN : UpdateUserPreferences(f, v)
    \/ Crash

\* The loops run, every call to a provider ends, and backoffs expire.
NoticeFairness ==
    /\ WF_noticeVars(\E s \in Slots : Pop(s))
    /\ \A s \in Runners : WF_noticeVars(Process(s))
    /\ WF_noticeVars(PopRetry \/ BackoffEnds)

NoticeSpec == NoticeInit /\ [][NoticeNext]_noticeVars /\ NoticeFairness

(* ------------------------------ properties ------------------------------ *)

NoticeTypeOK ==
    /\ \A s \in Runners : slots[s].pc # "free" =>
          Id(s) \in Jobs /\ slots[s].job.attempt \in 0..MaxAttempts /\ slots[s].todo \subseteq Devices
    /\ \A i \in DOMAIN retryQueue : retryQueue[i].attempt \in 1..(MaxAttempts - 1)
    /\ devices \in [Devices -> BOOLEAN] /\ prefs \in [push : BOOLEAN, email : BOOLEAN]
    /\ DOMAIN log \subseteq Jobs /\ dlq \subseteq Jobs /\ dropped \subseteq Jobs
    /\ \A id \in DOMAIN log : log[id] \in {"delivered", "failed", "skipped"}

\* processJob is run again from its start after a retryable push error: a device
\* that was reached before gets the notice again, but no more than maxAttempts
\* times in all, and the mail, which comes after the pushes, is sent once.
NoticesBounded ==
    \A id \in Jobs :
        /\ seen[id][Mailbox] <= 1
        /\ \A d \in Devices : seen[id][d] <= MaxAttempts

\* Whatever FCM and the mail provider answer, a job that was queued gets its row in
\* notification_jobs.  One call stands between it and being lost, each time it changes
\* hands: its process must not die while it holds it, and neither the push to the retry or
\* dead-letter list nor the insertion of the row may fail.  Nothing else loses a job.
JobsSettle ==
    \A id \in Jobs : Queued(id) ~> (id \in DOMAIN log \/ id \in dropped)
===============================================================================
