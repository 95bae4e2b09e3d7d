--------------------------- MODULE NotificationRows ----------------------------
(***************************************************************************)
(* Notifications kept as rows of notification_jobs: POST                   *)
(* /notifications/send inserts them, Service.processJob of the polling     *)
(* workers takes, postpones, retries and sends them, pushes behind the     *)
(* circuit breaker and the token bucket.  Everything belongs to one user.  *)
(* Pollers are the goroutines Worker.Start would run; the API process      *)
(* starts none, which is the instance Pollers = {}.                        *)
(***************************************************************************)
EXTENDS Integers, FiniteSets

CONSTANTS
    Rows,          \* idempotency keys
    Sends,         \* what clients ask for: sets of [category, channel]
    Pollers,
    MaxRetries,    \* max_retries, 5
    Threshold,     \* failureThreshold of the breaker, 5
    Probes,        \* successThreshold, 2
    Burst,         \* capacity of the token bucket, 100
    Day,           \* steps of the clock in 24 hours
    RowBudget

Channels == {"push", "email", "sms"}
RowFaults == {"ticks",    \* steps of the clock
              "trouble"}  \* errors of Postgres and changes of settings

ASSUME RowAssumption ==
    /\ MaxRetries \in Nat /\ Threshold \in Nat \ {0} /\ Probes \in Nat \ {0}
    /\ Burst \in Nat \ {0} /\ Day \in Nat \ {0} /\ RowBudget \in [RowFaults -> Nat]

VARIABLES
    rows,          \* notification_jobs by idempotency key
    clock,
    settings,      \* notification_preferences of the user
    pollers,       \* what each goroutine has read and where it is
    breaker,       \* the circuit breaker of the process
    streak,        \* successes recorded since the last recorded failure
    bucket,        \* tokens of the rate limiter
    tokens,        \* the user has an active device
    rowBudget

rowVars == <<rows, clock, settings, pollers, breaker, streak, bucket, tokens, rowBudget>>

Idle == [pc |-> "idle", batch |-> {}]
Take(k) ==
    /\ rowBudget[k] > 0
    /\ rowBudget' = [rowBudget EXCEPT ![k] = @ - 1]
Troubles(n) ==
    /\ rowBudget["trouble"] >= n
    /\ rowBudget' = [rowBudget EXCEPT !["trouble"] = @ - n]

(* ------------------------- POST /notifications/send --------------------- *)

CategoryConfig ==
    LET Category(on, channels, p) == [on |-> on, channels |-> channels, priority |-> p] IN
    [quiz_ready    |-> Category(TRUE, {"push", "email"}, "high"),
     quiz_reminder |-> Category(TRUE, {"push", "email"}, "normal"),
     otp_verify    |-> Category(TRUE, Channels, "high"),
     weekly_digest |-> Category(TRUE, {"email"}, "low"),
     promotion     |-> Category(FALSE, {"push", "email"}, "low")]

Priority(category, channel) ==
    LET p == CategoryConfig[category].priority
    IN  IF channel = "email" /\ p = "high" THEN "normal" ELSE p

CreateNotificationJob(k, x) ==
    [category |-> x.category, channel |-> x.channel, status |-> "pending",
     priority |-> Priority(x.category, x.channel), retries |-> 0, born |-> clock, due |-> 0]

\* A category or channel outside the table is answered 400, a key of the same second 202.
SendNotification(k, x) ==
    /\ k \notin DOMAIN rows
    /\ x.category \in DOMAIN CategoryConfig
    /\ x.channel \in CategoryConfig[x.category].channels
    /\ rows' = [i \in DOMAIN rows \cup {k} |->
                  IF i = k THEN CreateNotificationJob(k, x) ELSE rows[i]]
    /\ UNCHANGED <<clock, settings, pollers, breaker, streak, bucket, tokens, rowBudget>>

(* ------------------------------- the checks ----------------------------- *)

isChannelEnabled(channel) == settings[channel]

\* Promotions are opted into below preferences, which no request writes.
isCategoryEnabled(category) == CategoryConfig[category].on

Day24(r) == clock - r.born < Day
CountNotifications(channel) ==
    Cardinality({k \in DOMAIN rows : rows[k].channel = channel /\ Day24(rows[k])
                   /\ rows[k].status \in {"pending", "processing", "sent", "delivered"}})

\* The row itself is counted; a weekly limit below seven is no limit, and short messages
\* have none.
isFrequencyCapped(channel) ==
    LET maxPerDay == CASE channel = "push" -> settings.maxPush
                       [] channel = "email" -> settings.maxEmail \div 7
                       [] OTHER -> 0
    IN  maxPerDay > 0 /\ CountNotifications(channel) >= maxPerDay

\* Postgres prints a TIME with seconds, which the layout 15:04 does not parse: both
\* ends read as midnight, and with equal ends every minute is a quiet one.
isInQuietHours(priority) == priority # "high" /\ settings.quiet

getNextQuietHourEnd == (clock \div Day + 1) * Day

(* ------------------------------- a poller ------------------------------- *)

GetPendingJobs(priority) ==
    {k \in DOMAIN rows : /\ rows[k].status \in {"pending", "failed"}
                         /\ rows[k].priority = priority /\ rows[k].due <= clock}

\* Two pollers may read the same rows.
Poll(w, priority) ==
    /\ pollers[w].pc = "idle" /\ GetPendingJobs(priority) # {}
    /\ pollers' = [pollers EXCEPT ![w] = [pc |-> "batch",
          batch |-> {[key |-> k, row |-> rows[k]] : k \in GetPendingJobs(priority)}]]
    /\ UNCHANGED <<rows, clock, settings, breaker, streak, bucket, tokens, rowBudget>>

Settled(w, j) ==
    LET rest == pollers[w].batch \ {j}
    IN  [pollers EXCEPT ![w] = IF rest = {} THEN Idle ELSE [pc |-> "batch", batch |-> rest]]
At(w, j, pc) ==
    [pollers EXCEPT ![w] = [pc |-> pc, batch |-> @.batch \ {j}, cur |-> j]]
Put(k, r) == rows' = [rows EXCEPT ![k] = r]

\* The statement writes the row, unless the database fails, as it did n times before.
Writes(k, r, n) ==
    \/ Put(k, r) /\ Troubles(n)
    \/ UNCHANGED rows /\ Troubles(n + 1)

\* The one statement that ends the work on a row.
Ends(w, j, r) == pollers' = Settled(w, j) /\ Writes(j.key, r, 0)

UpdateJobStatus(k, status) == [rows[k] EXCEPT !.status = status]
FailJob(k) == UpdateJobStatus(k, "failed")
RescheduleJob(k, delay) ==
    [rows[k] EXCEPT !.status = "pending", !.due = clock + delay, !.retries = @ + 1]

\* Retries and age are those of the row as it was read; the exponential delay and its
\* jitter are one step of the clock.
retryWithBackoff(j) ==
    IF j.row.retries >= MaxRetries \/ ~Day24(j.row) THEN FailJob(j.key)
    ELSE RescheduleJob(j.key, 1)

\* Sends the row, postpones it for a day or to the end of the quiet hours, after n errors.
Route(w, j, capped, n) ==
    \/ /\ capped \/ isInQuietHours(j.row.priority)
       /\ pollers' = Settled(w, j)
       /\ Writes(j.key, RescheduleJob(j.key, IF capped THEN Day ELSE getNextQuietHourEnd - clock), n)
    \/ /\ ~capped /\ ~isInQuietHours(j.row.priority)
       /\ pollers' = IF j.row.channel = "sms" THEN Settled(w, j) ELSE At(w, j, j.row.channel)
       /\ Writes(j.key, UpdateJobStatus(j.key, "processing"), n)

\* The limit is not looked at when the count fails; nothing sends a short message.
processJob(w, j) ==
    /\ pollers[w].pc = "batch" /\ j \in pollers[w].batch
    /\ \/ Take("trouble") /\ Put(j.key, FailJob(j.key)) /\ pollers' = Settled(w, j)
       \/ /\ ~isChannelEnabled(j.row.channel) \/ ~isCategoryEnabled(j.row.category)
          /\ Ends(w, j, UpdateJobStatus(j.key, "skipped"))
       \/ /\ isChannelEnabled(j.row.channel) /\ isCategoryEnabled(j.row.category)
          /\ \/ Route(w, j, isFrequencyCapped(j.row.channel), 0)
             \/ isFrequencyCapped(j.row.channel) /\ Route(w, j, FALSE, 1)
    /\ UNCHANGED <<clock, settings, breaker, streak, bucket, tokens>>

(* --------------------------- the circuit breaker ------------------------ *)

RecordFailureAtThreshold ==
    LET n == breaker.failures + 1 IN
    [breaker EXCEPT !.failures = n, !.last = clock,
                    !.state = IF n = Threshold THEN "open" ELSE @]

RecordFailure ==
    LET n == breaker.failures + 1 IN
    [breaker EXCEPT !.failures = n, !.last = clock,
                    !.state = IF n >= Threshold THEN "open" ELSE @]

RecordSuccess ==
    CASE breaker.state = "half-open" /\ breaker.needed <= 1 ->
           [breaker EXCEPT !.needed = @ - 1, !.state = "closed", !.failures = 0]
      [] breaker.state = "half-open" /\ breaker.needed > 1 -> [breaker EXCEPT !.needed = @ - 1]
      [] breaker.state = "closed" -> [breaker EXCEPT !.failures = 0]
      [] OTHER -> breaker

\* An open breaker lets calls through again after the recovery timeout, 30 seconds.
Recovers == breaker.state = "open" /\ clock > breaker.last
IsOpen == breaker.state = "open" /\ ~Recovers
AfterIsOpen == IF Recovers THEN [breaker EXCEPT !.state = "half-open", !.needed = Probes]
               ELSE breaker

(* -------------------------------- sending ------------------------------- *)

\* sendPushWithFallback up to the call of FCM.  A push without devices becomes a mail.
SendPush(w) ==
    LET j == pollers[w].cur IN
    /\ pollers[w].pc = "push"
    /\ \/ /\ pollers' = At(w, j, "email")
          /\ \/ ~tokens /\ UNCHANGED rowBudget
             \/ tokens /\ Take("trouble")
          /\ UNCHANGED <<rows, breaker, bucket>>
       \/ /\ tokens /\ (IsOpen \/ bucket = 0)
          /\ breaker' = AfterIsOpen
          /\ Ends(w, j, retryWithBackoff(j)) /\ UNCHANGED bucket
       \/ /\ tokens /\ ~IsOpen /\ bucket > 0
          /\ breaker' = AfterIsOpen /\ bucket' = bucket - 1
          /\ pollers' = At(w, j, "sending") /\ UNCHANGED <<rows, rowBudget>>
    /\ UNCHANGED <<clock, settings, streak, tokens>>

\* SendMulticast returns: all or some devices reached, or none and the mail follows.
SendMulticast(w) ==
    LET j == pollers[w].cur IN
    /\ pollers[w].pc = "sending"
    /\ \/ /\ breaker' = RecordSuccess /\ streak' = IF streak < Probes THEN streak + 1 ELSE streak
          /\ Ends(w, j, UpdateJobStatus(j.key, "sent")) /\ UNCHANGED tokens
       \/ /\ breaker' = RecordFailure /\ streak' = 0
          /\ \/ Ends(w, j, UpdateJobStatus(j.key, "sent")) /\ UNCHANGED tokens
             \/ /\ pollers' = At(w, j, "email") /\ UNCHANGED <<rows, rowBudget>>
                /\ tokens' \in {tokens, FALSE}
    /\ UNCHANGED <<clock, settings, bucket>>

\* sendEmailWithRetry; an address that cannot be looked up fails the row.
SendEmailWithRetry(w) ==
    LET j == pollers[w].cur IN
    /\ pollers[w].pc = "email"
    /\ \/ Ends(w, j, UpdateJobStatus(j.key, "sent"))
       \/ Ends(w, j, retryWithBackoff(j))
       \/ Take("trouble") /\ Put(j.key, FailJob(j.key)) /\ pollers' = Settled(w, j)
    /\ UNCHANGED <<clock, settings, breaker, streak, bucket, tokens>>

(* ------------------------------- surroundings --------------------------- *)

Tick ==
    /\ Take("ticks") /\ clock' = clock + 1 /\ bucket' = Burst
    /\ UNCHANGED <<rows, settings, pollers, breaker, streak, tokens>>

normalizeNotificationPreferencesUnset(p) ==
    [p EXCEPT !.maxPush = IF @ <= 0 THEN 10 ELSE @]

normalizeNotificationPreferences(p) ==
    [p EXCEPT !.maxPush = IF @ <= 0 THEN 10 ELSE @, !.maxEmail = IF @ <= 0 THEN 5 ELSE @]

UpsertUserPreferences(field, value) ==
    /\ Take("trouble") /\ settings[field] # value
    /\ settings' = normalizeNotificationPreferences([settings EXCEPT ![field] = value])
    /\ UNCHANGED <<rows, clock, pollers, breaker, streak, bucket, tokens>>

DefaultNotificationPreferences ==
    [push |-> TRUE, email |-> TRUE, sms |-> FALSE, maxPush |-> 10, maxEmail |-> 5, quiet |-> FALSE]

NewCircuitBreaker == [state |-> "closed", failures |-> 0, needed |-> Probes, last |-> 0]

RowInit ==
    /\ rows = <<>> /\ clock = 0 /\ settings = DefaultNotificationPreferences
    /\ pollers = [w \in Pollers |-> Idle]
    /\ breaker = NewCircuitBreaker /\ streak = 0 /\ bucket = Burst /\ tokens = TRUE
    /\ rowBudget = RowBudget

RowNext ==
    \/ \E k \in Rows, x \in Sends : SendNotification(k, x)
    \/ \E w \in Pollers :
         \/ \E p \in {"high", "normal", "low"} : Poll(w, p)
         \/ \E j \in pollers[w].batch : processJob(w, j)
         \/ SendPush(w) \/ SendMulticast(w) \/ SendEmailWithRetry(w)
    \/ Tick
    \/ \E f \in Channels \cup {"quiet"}, v \in BOOLEAN : UpsertUserPreferences(f, v)
    \/ \E n \in {0, 1, 7} : UpsertUserPreferences("maxEmail", n)

RowSpec == RowInit /\ [][RowNext]_rowVars

(* ------------------------------ properties ------------------------------ *)

RowTypeOK ==
    /\ DOMAIN rows \subseteq Rows
    /\ \A k \in DOMAIN rows :
         /\ rows[k].status \in {"pending", "processing", "failed", "skipped", "sent"}
         /\ rows[k].retries \in Nat /\ rows[k].born <= clock
    /\ breaker.state \in {"closed", "open", "half-open"} /\ breaker.needed \in 0..Probes
    /\ bucket \in 0..Burst /\ settings.maxPush > 0 /\ settings.maxEmail > 0

\* failureCount is kept while the breaker is half open, so one failed push opens it
\* again: in whatever order rows are retried, it closes only after successThreshold
\* successes with no failure between them.
BreakerCloses ==
    [][breaker.state # "closed" /\ breaker'.state = "closed" => streak' >= Probes]_rowVars
===============================================================================
