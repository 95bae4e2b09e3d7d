-------------------------- MODULE NotificationProofs ---------------------------
(*****************************************************************************)
(* Proofs about the two ways notices are sent, for any number of jobs, rows, *)
(* goroutines, devices and settings.  Rows: the circuit breaker closes only  *)
(* after successThreshold successes without a failure, because while it is   *)
(* half open the successes still needed and those recorded since the last    *)
(* failure add up to the threshold (BreakerOK).  Queue: a job id is in one   *)
(* place at a time (OnePlace), so what a device got is bounded by the        *)
(* attempts of the one copy (Work), and a mail is sent once.                 *)
(*****************************************************************************)
EXTENDS MCAccounts, AccountsProofs

\* The categories of the table.
Categories == {"quiz_ready", "quiz_reminder", "otp_verify", "weekly_digest", "promotion"}
\* The priorities of the table.
Priorities == {"high", "normal", "low"}
\* A row of notification_jobs.
RowType == [category : Categories, channel : Channels,
            status : {"pending", "processing", "failed", "skipped", "sent"},
            priority : Priorities, retries : Nat, born : Nat, due : Int]
\* A row of notification_preferences.
SettingsType == [push : BOOLEAN, email : BOOLEAN, sms : BOOLEAN, maxPush : Nat \ {0},
                 maxEmail : Nat \ {0}, quiet : BOOLEAN]
\* The circuit breaker.
BreakerType == [state : {"closed", "open", "half-open"}, failures : Nat, needed : 0..Probes, last : Nat]

\* Types of the variables; no row was born in the future.
RowTypes ==
    /\ DOMAIN rows \subseteq Rows /\ rows \in [DOMAIN rows -> RowType]
    /\ clock \in Nat /\ \A k \in DOMAIN rows : rows[k].born <= clock
    /\ settings \in SettingsType
    /\ breaker \in BreakerType /\ streak \in 0..Probes /\ bucket \in 0..Burst

\* failureCount is at the threshold unless the breaker is closed; half open, the successes
\* needed and those since the last failure add up to successThreshold.
BreakerOK ==
    /\ breaker.state # "closed" => breaker.failures >= Threshold
    /\ breaker.state = "half-open" => breaker.needed >= 1 /\ breaker.needed + streak >= Probes

\* The inductive invariant of the rows.
RowInv == RowTypes /\ BreakerOK

\* A poller rewrites the row of key k: its status, or its date and retries.
Rewrites(k) ==
    \/ \E s \in {"processing", "failed", "skipped", "sent"} : Put(k, UpdateJobStatus(k, s))
    \/ \E delay \in Int : Put(k, RescheduleJob(k, delay))
\* A poller rewrites one row at most.
Sent == rows' = rows \/ \E k : Rewrites(k)
\* A push failed.
Heard == breaker' = RecordFailure /\ streak' = 0
\* A push reached a device.
Reached == breaker' = RecordSuccess /\ streak' = IF streak < Probes THEN streak + 1 ELSE streak
\* No push was answered; the breaker may have recovered.
Asked == breaker' \in {breaker, AfterIsOpen} /\ streak' = streak

\* retryWithBackoff and the two postponements rewrite the row they read.
LEMMA PostponedIsPut ==
    ASSUME RowTypes, NEW k, NEW j, j.key = k, NEW capped \in BOOLEAN,
           \/ Put(k, retryWithBackoff(j))
           \/ Put(k, RescheduleJob(k, IF capped THEN Day ELSE getNextQuietHourEnd - clock))
    PROVE  Rewrites(k)
<1> DEFINE delay == IF capped THEN Day ELSE getNextQuietHourEnd - clock
<1>1. delay \in Int
  BY RowAssumption DEF RowTypes, getNextQuietHourEnd
<1>2. CASE Put(k, retryWithBackoff(j))
  BY <1>2 DEF retryWithBackoff, FailJob, Rewrites
<1>3. CASE Put(k, RescheduleJob(k, delay))
  <2> HIDE DEF delay
  <2> QED BY <1>1, <1>3 DEF Rewrites
<1> QED BY <1>2, <1>3

\* Whatever processJob decides on a row, it rewrites that row or leaves it.
LEMMA RouteWrites ==
    ASSUME RowTypes, NEW w, NEW j, NEW capped \in BOOLEAN, NEW n, Route(w, j, capped, n)
    PROVE  rows' = rows \/ Rewrites(j.key)
<1>1. CASE rows' = rows
  BY <1>1
<1>2. CASE Put(j.key, UpdateJobStatus(j.key, "processing"))
  BY <1>2 DEF Rewrites
<1>3. CASE Put(j.key, RescheduleJob(j.key, IF capped THEN Day ELSE getNextQuietHourEnd - clock))
  BY <1>3, PostponedIsPut
<1> QED BY <1>1, <1>2, <1>3 DEF Route, Writes

\* What a step of a poller writes besides its own place.
LEMMA PollerWrites ==
    ASSUME RowTypes, NEW w \in Pollers, NEW j,
           processJob(w, j) \/ SendPush(w) \/ SendMulticast(w) \/ SendEmailWithRetry(w)
    PROVE  /\ Sent /\ UNCHANGED <<clock, settings>> /\ bucket' \in {bucket, bucket - 1}
           /\ bucket' = bucket \/ bucket > 0
           /\ Asked \/ Heard \/ Reached
<1>1. CASE processJob(w, j)
  <2>1. UNCHANGED <<clock, settings, breaker, streak, bucket>>
    BY <1>1 DEF processJob
  <2>2. rows' = rows \/ Rewrites(j.key)
    <3>1. isFrequencyCapped(j.row.channel) \in BOOLEAN /\ FALSE \in BOOLEAN
      BY DEF isFrequencyCapped
    <3>2. \A capped \in BOOLEAN : \A n : Route(w, j, capped, n) => rows' = rows \/ Rewrites(j.key)
      BY RouteWrites
    <3> QED BY <1>1, <3>1, <3>2 DEF processJob, Ends, Writes, Rewrites, FailJob
  <2>3. Sent
    BY <2>2 DEF Sent
  <2> QED BY <2>1, <2>3 DEF Asked
<1>2. CASE SendPush(w)
  <2> DEFINE j2 == pollers[w].cur
  <2>1. rows' = rows \/ Put(j2.key, retryWithBackoff(j2))
    BY <1>2 DEF SendPush, Ends, Writes
  <2>2. Sent
    <3> HIDE DEF j2
    <3> QED BY <2>1, PostponedIsPut DEF Sent
  <2>3. UNCHANGED <<clock, settings, streak>> /\ breaker' \in {breaker, AfterIsOpen}
    BY <1>2 DEF SendPush
  <2>4. bucket' = bucket \/ (bucket > 0 /\ bucket' = bucket - 1)
    BY <1>2 DEF SendPush
  <2> QED BY <2>2, <2>3, <2>4 DEF Asked
<1>3. CASE SendMulticast(w)
  <2> DEFINE j2 == pollers[w].cur
  <2>1. rows' = rows \/ Put(j2.key, UpdateJobStatus(j2.key, "sent"))
    BY <1>3 DEF SendMulticast, Ends, Writes
  <2>2. Sent
    BY <2>1 DEF Sent, Rewrites
  <2>3. UNCHANGED <<clock, settings, bucket>>
    BY <1>3 DEF SendMulticast
  <2>4. Heard \/ Reached
    BY <1>3 DEF SendMulticast, Heard, Reached
  <2> QED BY <2>2, <2>3, <2>4
<1>4. CASE SendEmailWithRetry(w)
  <2> DEFINE j2 == pollers[w].cur
  <2>1. rows' = rows \/ Rewrites(j2.key) \/ Put(j2.key, retryWithBackoff(j2))
    BY <1>4 DEF SendEmailWithRetry, Ends, Writes, Rewrites, FailJob
  <2>2. Sent
    <3> HIDE DEF j2
    <3> QED BY <2>1, PostponedIsPut DEF Sent
  <2>3. UNCHANGED <<clock, settings, breaker, streak, bucket>>
    BY <1>4 DEF SendEmailWithRetry
  <2> QED BY <2>2, <2>3 DEF Asked
<1> QED BY <1>1, <1>2, <1>3, <1>4

\* The conjuncts of RowTypes about rows.
RowsOK == /\ DOMAIN rows \subseteq Rows /\ rows \in [DOMAIN rows -> RowType]
          /\ \A k \in DOMAIN rows : rows[k].born <= clock

\* A rewritten row keeps its type and birth.
LEMMA SentRows ==
    ASSUME RowTypes, Sent, clock' = clock
    PROVE  RowsOK'
<1>1. CASE rows' = rows
  BY <1>1 DEF RowTypes, RowsOK
<1>2. ASSUME NEW k, Rewrites(k) PROVE RowsOK'
  <2>1. CASE k \notin DOMAIN rows
    <3>1. \E r : rows' = [rows EXCEPT ![k] = r]
      BY <1>2 DEF Rewrites, Put
    <3>2. rows' = rows
      BY <2>1, <3>1 DEF RowTypes
    <3> QED BY <3>2 DEF RowTypes, RowsOK
  <2>2. CASE k \in DOMAIN rows
    <3>1. rows[k] \in RowType /\ rows[k].born <= clock
      BY <2>2 DEF RowTypes
    <3>2. PICK r \in RowType : rows' = [rows EXCEPT ![k] = r] /\ r.born <= clock
      <4>1. ASSUME NEW s \in {"processing", "failed", "skipped", "sent"}, Put(k, UpdateJobStatus(k, s))
            PROVE \E r \in RowType : rows' = [rows EXCEPT ![k] = r] /\ r.born <= clock
        <5> DEFINE r == UpdateJobStatus(k, s)
        <5>1. r \in RowType /\ r.born <= clock
          BY <3>1 DEF UpdateJobStatus, RowType
        <5>2. rows' = [rows EXCEPT ![k] = r]
          BY <4>1 DEF Put
        <5> HIDE DEF r
        <5> QED BY <5>1, <5>2
      <4>2. ASSUME NEW delay \in Int, Put(k, RescheduleJob(k, delay))
            PROVE \E r \in RowType : rows' = [rows EXCEPT ![k] = r] /\ r.born <= clock
        <5> DEFINE due == clock + delay
                   n == rows[k].retries + 1
                   r == [rows[k] EXCEPT !.status = "pending", !.due = due, !.retries = n]
        <5>1. due \in Int /\ n \in Nat
          BY <3>1 DEF RowTypes, RowType
        <5>3. rows' = [rows EXCEPT ![k] = r]
          BY <4>2 DEF Put, RescheduleJob
        <5> HIDE DEF due, n
        <5>2. r \in RowType /\ r.born <= clock
          BY <3>1, <5>1 DEF RowType
        <5> HIDE DEF r
        <5> QED BY <5>2, <5>3
      <4> QED BY <1>2, <4>1, <4>2 DEF Rewrites
    <3> QED BY <2>2, <3>2 DEF RowTypes, RowsOK
  <2> QED BY <2>1, <2>2
<1> QED BY <1>1, <1>2 DEF Sent

\* The conjuncts of RowTypes about the breaker.
BreakerTypes == breaker \in BreakerType /\ streak \in 0..Probes

\* The breaker invariant holds after a call, and the breaker closes only when the
\* successes since the last failure have reached successThreshold.
LEMMA BreakerStep ==
    ASSUME RowInv, Asked \/ Heard \/ Reached
    PROVE  /\ BreakerTypes' /\ BreakerOK'
           /\ breaker.state # "closed" /\ breaker'.state = "closed" => streak' >= Probes
<1>1. /\ breaker \in BreakerType /\ streak \in 0..Probes /\ clock \in Nat
      /\ Threshold \in Nat \ {0} /\ Probes \in Nat \ {0}
  BY RowAssumption DEF RowInv, RowTypes
<1>2. CASE Asked
  <2> DEFINE b == [breaker EXCEPT !.state = "half-open", !.needed = Probes]
  <2>1. b \in BreakerType /\ b.state = "half-open" /\ b.needed = Probes /\ b.failures = breaker.failures
    <3>1. Probes \in 0..Probes
      BY <1>1
    <3>2. b \in BreakerType
      BY <1>1, <3>1 DEF BreakerType
    <3> QED BY <1>1, <3>2 DEF BreakerType
  <2>2. breaker' = breaker \/ (breaker' = b /\ breaker.state = "open")
    BY <1>2 DEF Asked, AfterIsOpen, Recovers
  <2> HIDE DEF b
  <2>3. streak' = streak
    BY <1>2 DEF Asked
  <2> QED BY <1>1, <2>1, <2>2, <2>3 DEF RowInv, BreakerOK, BreakerTypes
<1>3. CASE Heard
  <2> DEFINE n == breaker.failures + 1
             state == IF n >= Threshold THEN "open" ELSE breaker.state
             b == [breaker EXCEPT !.failures = n, !.last = clock, !.state = state]
  <2>1. breaker.failures \in Nat /\ breaker.state \in {"closed", "open", "half-open"}
    BY <1>1 DEF BreakerType
  <2>2. n \in Nat /\ state \in {"closed", "open", "half-open"}
    BY <2>1
  <2>3. (n < Threshold => state = breaker.state) /\ (n >= Threshold => state = "open") /\ n = breaker.failures + 1
    BY <1>1, <2>1
  <2>4. breaker' = b /\ streak' = 0
    BY <1>3 DEF Heard, RecordFailure
  <2> HIDE DEF n, state
  <2>5. b \in BreakerType /\ b.failures = n /\ b.state = state
    BY <1>1, <2>2 DEF BreakerType
  <2> HIDE DEF b
  <2>6. BreakerTypes'
    BY <1>1, <2>4, <2>5 DEF BreakerTypes
  <2> QED BY <1>1, <2>1, <2>2, <2>3, <2>4, <2>5, <2>6 DEF RowInv, BreakerOK
<1>4. CASE Reached
  <2> DEFINE n == breaker.needed - 1
             one == [breaker EXCEPT !.needed = n, !.state = "closed", !.failures = 0]
             two == [breaker EXCEPT !.needed = n]
             three == [breaker EXCEPT !.failures = 0]
  <2>0. /\ breaker.failures \in Nat /\ breaker.needed \in 0..Probes
        /\ breaker.state \in {"closed", "open", "half-open"}
    BY <1>1 DEF BreakerType
  <2>1. breaker.state = "half-open" => breaker.needed >= 1 /\ breaker.needed + streak >= Probes /\ n \in 0..Probes
    BY <1>1, <2>0 DEF RowInv, BreakerOK
  <2>2. n \in 0..Probes =>
          /\ one \in BreakerType /\ one.state = "closed"
          /\ two \in BreakerType /\ two.state = breaker.state /\ two.needed = n /\ two.failures = breaker.failures
    <3> HIDE DEF n
    <3> QED BY <1>1 DEF BreakerType
  <2>3. three \in BreakerType /\ three.state = breaker.state
    BY <1>1 DEF BreakerType
  <2>4. \/ breaker.state = "half-open" /\ breaker.needed <= 1 /\ breaker' = one
        \/ breaker.state = "half-open" /\ breaker.needed > 1 /\ breaker' = two
        \/ breaker.state = "closed" /\ breaker' = three
        \/ breaker.state = "open" /\ breaker' = breaker
    BY <1>4, <2>0 DEF Reached, RecordSuccess
  <2>5. streak' = (IF streak < Probes THEN streak + 1 ELSE streak)
    BY <1>4 DEF Reached
  <2>6. breaker.state # "closed" => breaker.failures >= Threshold
    BY DEF RowInv, BreakerOK
  <2>7. n = breaker.needed - 1
    OBVIOUS
  <2> HIDE DEF n, one, two, three
  <2>8. streak' \in 0..Probes /\ streak' >= streak /\ (streak' = Probes \/ streak' = streak + 1)
    BY <1>1, <2>5
  <2> QED BY <1>1, <2>0, <2>1, <2>2, <2>3, <2>4, <2>6, <2>7, <2>8 DEF BreakerOK, BreakerTypes
<1> QED BY <1>2, <1>3, <1>4

\* Settings keep their type, limits above zero, whatever is written.
LEMMA SettingsStep ==
    ASSUME RowTypes, NEW field, NEW value, UpsertUserPreferences(field, value),
           \/ field \in {"push", "email", "sms", "quiet"} /\ value \in BOOLEAN
           \/ field = "maxEmail" /\ value \in Nat
    PROVE  settings' \in SettingsType
<1>1. [settings EXCEPT ![field] = value]
         \in [push : BOOLEAN, email : BOOLEAN, sms : BOOLEAN, maxPush : Nat, maxEmail : Nat, quiet : BOOLEAN]
  BY DEF RowTypes, SettingsType
<1> DEFINE p == [settings EXCEPT ![field] = value]
<1>2. settings' = normalizeNotificationPreferences(p)
  BY DEF UpsertUserPreferences
<1> HIDE DEF p
<1>3. p \in [push : BOOLEAN, email : BOOLEAN, sms : BOOLEAN, maxPush : Nat, maxEmail : Nat, quiet : BOOLEAN]
  BY <1>1 DEF p
<1> DEFINE most == IF p.maxPush <= 0 THEN 10 ELSE p.maxPush
           mails == IF p.maxEmail <= 0 THEN 5 ELSE p.maxEmail
<1>4. settings' = [p EXCEPT !.maxPush = most, !.maxEmail = mails]
  BY <1>2 DEF normalizeNotificationPreferences
<1>5. most \in Nat \ {0} /\ mails \in Nat \ {0}
  BY <1>3
<1> HIDE DEF most, mails
<1> QED BY <1>3, <1>4, <1>5 DEF SettingsType

\* Every step keeps the invariant and closes the breaker only on success.
LEMMA RowStep ==
    ASSUME RowInv, RowNext
    PROVE  RowInv' /\ (breaker.state # "closed" /\ breaker'.state = "closed" => streak' >= Probes)
<1> DEFINE Quiet2 == breaker' = breaker /\ streak' = streak
<1>0. RowTypes /\ RowsOK
  BY DEF RowInv, RowTypes, RowsOK
<1>q. Quiet2 => Asked
  BY DEF Asked
<1>1. ASSUME NEW k \in Rows, NEW x \in Sends, SendNotification(k, x)
      PROVE  RowsOK' /\ Quiet2 /\ UNCHANGED <<clock, settings, bucket>>
  <2>1. /\ x.category \in Categories /\ x.channel \in Channels
        /\ Priority(x.category, x.channel) \in Priorities
    <3>1. x.category \in Categories
      BY <1>1 DEF SendNotification, CategoryConfig, Categories
    <3>2. CategoryConfig[x.category].channels \subseteq Channels
      BY <3>1 DEF CategoryConfig, Categories, Channels
    <3>3. CategoryConfig[x.category].priority \in Priorities
      BY <3>1 DEF CategoryConfig, Categories, Priorities
    <3>4. x.channel \in Channels
      BY <1>1, <3>2 DEF SendNotification
    <3>5. Priority(x.category, x.channel) \in Priorities
      BY <3>3 DEF Priority, Priorities
    <3> QED BY <3>1, <3>4, <3>5
  <2>2. CreateNotificationJob(k, x) \in RowType /\ CreateNotificationJob(k, x).born = clock
    BY <1>0, <2>1 DEF CreateNotificationJob, RowType, RowTypes
  <2>3. rows' = [i \in DOMAIN rows \cup {k} |-> IF i = k THEN CreateNotificationJob(k, x) ELSE rows[i]]
    BY <1>1 DEF SendNotification
  <2>4. UNCHANGED <<clock, settings, breaker, streak, bucket>>
    BY <1>1 DEF SendNotification
  <2> QED BY <1>0, <2>2, <2>3, <2>4 DEF RowTypes, RowsOK
<1>2. ASSUME NEW w \in Pollers, NEW p, Poll(w, p)
      PROVE  RowsOK' /\ Quiet2 /\ UNCHANGED <<clock, settings, bucket>>
  BY <1>0, <1>2 DEF Poll, RowsOK
<1>3. ASSUME NEW w \in Pollers, NEW j,
             processJob(w, j) \/ SendPush(w) \/ SendMulticast(w) \/ SendEmailWithRetry(w)
      PROVE  /\ RowsOK' /\ UNCHANGED <<clock, settings>> /\ bucket' \in 0..Burst
             /\ Asked \/ Heard \/ Reached
  <2>1. /\ Sent /\ UNCHANGED <<clock, settings>> /\ bucket' \in {bucket, bucket - 1}
        /\ bucket' = bucket \/ bucket > 0
        /\ Asked \/ Heard \/ Reached
    BY <1>0, <1>3, PollerWrites
  <2>2. RowsOK'
    BY <1>0, <2>1, SentRows
  <2>3. bucket' \in 0..Burst
    BY <1>0, <2>1, RowAssumption DEF RowTypes
  <2> QED BY <2>1, <2>2, <2>3
<1>4. CASE Tick
  <2>1. /\ clock' = clock + 1 /\ bucket' = Burst /\ UNCHANGED <<rows, settings, breaker, streak>>
    BY <1>4 DEF Tick
  <2>2. RowsOK' /\ clock' \in Nat /\ bucket' \in 0..Burst
    BY <1>0, <2>1, RowAssumption DEF RowsOK, RowTypes, RowType
  <2>3. BreakerTypes' /\ BreakerOK'
    BY <1>0, <2>1 DEF BreakerTypes, BreakerOK, RowInv, RowTypes
  <2> QED BY <1>0, <2>1, <2>2, <2>3 DEF RowInv, RowTypes, RowsOK, BreakerTypes
<1>5. ASSUME NEW f, NEW v, UpsertUserPreferences(f, v),
             \/ f \in {"push", "email", "sms", "quiet"} /\ v \in BOOLEAN
             \/ f = "maxEmail" /\ v \in Nat
      PROVE  RowsOK' /\ Quiet2 /\ settings' \in SettingsType /\ UNCHANGED <<clock, bucket>>
  <2>1. UNCHANGED <<rows, clock, breaker, streak, bucket>>
    BY <1>5 DEF UpsertUserPreferences
  <2> QED BY <1>0, <1>5, <2>1, SettingsStep DEF RowsOK
<1>6. CASE ~Tick
  <2>1. /\ RowsOK' /\ clock' = clock /\ settings' \in SettingsType /\ bucket' \in 0..Burst
        /\ Asked \/ Heard \/ Reached
    <3>1. settings \in SettingsType /\ bucket \in 0..Burst
      BY <1>0 DEF RowTypes
    <3> QED BY <1>1, <1>2, <1>3, <1>5, <1>6, <1>q, <3>1 DEF RowNext, Channels
  <2>2. /\ BreakerTypes' /\ BreakerOK'
        /\ breaker.state # "closed" /\ breaker'.state = "closed" => streak' >= Probes
    BY <2>1, BreakerStep
  <2> QED BY <1>0, <2>1, <2>2 DEF RowInv, RowTypes, RowsOK, BreakerTypes
<1> QED BY <1>4, <1>6

\* The invariant of the rows holds at the start.
LEMMA RowInitInv == RowInit => RowInv
BY RowAssumption DEF RowInit, RowInv, RowTypes, BreakerOK, BreakerType, SettingsType, RowType,
   NewCircuitBreaker, DefaultNotificationPreferences

\* The invariant of the rows holds.
LEMMA RowInvariant == RowSpec => []RowInv
<1>1. RowInv /\ UNCHANGED rowVars => RowInv'
  BY DEF RowInv, RowTypes, BreakerOK, rowVars
<1>2. RowInv /\ [RowNext]_rowVars => RowInv'
  BY <1>1, RowStep
<1> QED BY RowInitInv, <1>2, PTL DEF RowSpec

\* The rows, settings and breaker keep their types.
LEMMA RowsTyped == RowSpec => []RowTypeOK
<1>1. RowInv => RowTypeOK
  BY DEF RowInv, RowTypes, RowTypeOK, RowType, BreakerType, SettingsType
<1> QED BY <1>1, RowInvariant, PTL

\* The circuit breaker closes only after successThreshold successes with no failure
\* between them, in whatever order pollers take and retry rows.
THEOREM BreakerClosesOnSuccess == RowSpec => BreakerCloses
<1>1. RowInv /\ [RowNext]_rowVars
        => [breaker.state # "closed" /\ breaker'.state = "closed" => streak' >= Probes]_rowVars
  BY RowStep
<1> QED BY <1>1, RowInvariant, PTL DEF RowSpec, BreakerCloses

\* The elements of a list.
Elems(list) == {list[i] : i \in DOMAIN list}
\* No two elements have the same id.
Distinct(list) == \A i, j \in DOMAIN list : list[i].id = list[j].id => i = j
\* No element has this id.
Without(list, id) == \A a \in Elems(list) : a.id # id

\* LPUSH: the list gains the element, ids stay distinct if its id is new.
LEMMA PushedFront ==
    ASSUME NEW S, NEW list \in Seq(S), NEW x \in S
    PROVE  /\ <<x>> \o list \in Seq(S)
           /\ Elems(<<x>> \o list) = Elems(list) \cup {x}
           /\ Distinct(list) /\ Without(list, x.id) => Distinct(<<x>> \o list)
<1> DEFINE new == <<x>> \o list
<1>1. <<x>> \in Seq(S) /\ Len(<<x>>) = 1 /\ <<x>>[1] = x
  OBVIOUS
<1>2. /\ new \in Seq(S) /\ Len(new) = 1 + Len(list)
      /\ \A i \in 1 .. 1 + Len(list) : new[i] = IF i <= 1 THEN <<x>>[i] ELSE list[i - 1]
  BY <1>1, ConcatProperties
<1>3. Len(list) \in Nat /\ DOMAIN list = 1 .. Len(list) /\ DOMAIN new = 1 .. 1 + Len(list)
  BY <1>2, LenProperties
<1>4. /\ new[1] = x /\ 1 \in DOMAIN new
      /\ \A i \in DOMAIN list : i + 1 \in DOMAIN new /\ new[i + 1] = list[i]
      /\ \A i \in DOMAIN new : i = 1 \/ (i - 1 \in DOMAIN list /\ new[i] = list[i - 1])
  BY <1>1, <1>2, <1>3
<1> HIDE DEF new
<1>5. Elems(new) = Elems(list) \cup {x}
  <2>1. ASSUME NEW a \in Elems(new) PROVE a \in Elems(list) \cup {x}
    BY <1>4 DEF Elems
  <2>2. ASSUME NEW a \in Elems(list) \cup {x} PROVE a \in Elems(new)
    BY <1>4 DEF Elems
  <2> QED BY <2>1, <2>2
<1>6. ASSUME Distinct(list), Without(list, x.id), NEW i \in DOMAIN new, NEW j \in DOMAIN new, new[i].id = new[j].id
      PROVE  i = j
  <2>1. \A k \in DOMAIN list : list[k].id # x.id
    BY <1>6 DEF Without, Elems
  <2>2. i \in Int /\ j \in Int
    BY <1>3
  <2>3. CASE i = 1 \/ j = 1
    BY <1>4, <1>6, <2>1, <2>3
  <2>4. CASE i # 1 /\ j # 1
    <3>1. i - 1 \in DOMAIN list /\ j - 1 \in DOMAIN list /\ list[i - 1].id = list[j - 1].id
      BY <1>4, <1>6, <2>4
    <3>2. i - 1 = j - 1
      BY <1>6, <3>1 DEF Distinct
    <3> QED BY <2>2, <3>2
  <2> QED BY <2>3, <2>4
<1>7. Distinct(list) /\ Without(list, x.id) => Distinct(new)
  BY <1>6 DEF Distinct
<1> QED BY <1>2, <1>5, <1>7 DEF new

\* BRPOP: the list loses the last element and, when ids are distinct, its id.
LEMMA PoppedLast ==
    ASSUME NEW S, NEW list \in Seq(S), list # <<>>
    PROVE  /\ LastOf(list) \in S /\ LastOf(list) \in Elems(list)
           /\ WithoutLast(list) \in Seq(S) /\ Elems(WithoutLast(list)) \subseteq Elems(list)
           /\ Elems(list) \subseteq Elems(WithoutLast(list)) \cup {LastOf(list)}
           /\ Distinct(list) => Distinct(WithoutLast(list)) /\ Without(WithoutLast(list), LastOf(list).id)
<1> DEFINE n == Len(list)
           rest == WithoutLast(list)
<1>1. n \in Nat \ {0} /\ DOMAIN list = 1..n
  BY LenProperties, EmptySeq
<1>2. \A i \in 1..n : list[i] \in S
  BY ElementOfSeq
<1> HIDE DEF n
<1>3. /\ 1 .. n - 1 \subseteq 1..n /\ \A i \in 1..n : i = n \/ i \in 1 .. n - 1
      /\ \A i \in 1 .. n - 1 : list[i] \in S
  BY <1>1, <1>2
<1>4. /\ rest \in Seq(S) /\ Len(rest) = IF 1 <= n - 1 THEN n - 1 - 1 + 1 ELSE 0
      /\ \A i \in 1 .. n - 1 - 1 + 1 : rest[i] = list[1 + i - 1]
  <2>1. n - 1 \in Int /\ 1 \in Int
    BY <1>1
  <2> QED BY <1>3, <2>1, SubSeqProperties DEF WithoutLast, n
<1>5. DOMAIN rest = 1 .. n - 1 /\ \A i \in 1 .. n - 1 : rest[i] = list[i]
  <2>1. DOMAIN rest = 1 .. Len(rest)
    BY <1>4, LenProperties
  <2>2. Len(rest) = n - 1 /\ n - 1 - 1 + 1 = n - 1
    <3> HIDE DEF rest
    <3> QED BY <1>1, <1>4
  <2>3. \A i \in 1 .. n - 1 : 1 + i - 1 = i
    BY <1>1
  <2> QED BY <1>4, <2>1, <2>2, <2>3
<1>6. LastOf(list) = list[n] /\ n \in DOMAIN list
  BY <1>1 DEF LastOf, n
<1> HIDE DEF rest
<1>7. Elems(rest) \subseteq Elems(list) /\ Elems(list) \subseteq Elems(rest) \cup {LastOf(list)}
  <2>1. Elems(rest) \subseteq Elems(list)
    BY <1>1, <1>5 DEF Elems
  <2>2. ASSUME NEW a \in Elems(list) PROVE a \in Elems(rest) \cup {LastOf(list)}
    <3>1. PICK i \in 1..n : a = list[i]
      BY <1>1 DEF Elems
    <3>2. i = n \/ i \in 1 .. n - 1
      BY <1>3
    <3> QED BY <1>5, <1>6, <3>1, <3>2 DEF Elems
  <2> QED BY <2>1, <2>2
<1>8. ASSUME Distinct(list) PROVE Distinct(rest) /\ Without(rest, LastOf(list).id)
  <2>1. 1 .. n - 1 \subseteq DOMAIN list
    BY <1>1
  <2>2. Distinct(rest)
    BY <1>5, <1>8, <2>1 DEF Distinct
  <2>3. \A i \in 1 .. n - 1 : list[i].id # list[n].id
    BY <1>1, <1>6, <1>8, <2>1 DEF Distinct
  <2> QED BY <1>5, <1>6, <2>2, <2>3 DEF Without, Elems
<1>9. LastOf(list) \in S /\ LastOf(list) \in Elems(list)
  BY <1>1, <1>2, <1>6 DEF Elems
<1> QED BY <1>4, <1>7, <1>8, <1>9 DEF rest, n

\* The elements of a typed list are typed.
LEMMA ElemsTyped ==
    ASSUME NEW S, NEW list \in Seq(S)
    PROVE  Elems(list) \subseteq S
BY ElementOfSeq, LenProperties DEF Elems

\* A queue job.
JobType == [id : Jobs, attempt : 0..MaxAttempts]
\* A job of the retry list: tried before, with an attempt left.
RetryType == [id : Jobs, attempt : 1 .. MaxAttempts - 1]
\* Steps of processJob before any device is tried.
Waiting == {"wait", "begin", "limit", "tokens"}
\* All steps of processJob.
WorkSteps == Waiting \cup {"push", "email", "status", "failed", "skipped", "bury"}
\* A goroutine that has a job.
WorkType == [pc : WorkSteps, job : JobType, todo : SUBSET Devices,
             push : BOOLEAN, email : BOOLEAN, pushOK : BOOLEAN, emailOK : BOOLEAN]
\* The preferences.
PrefType == [push : BOOLEAN, email : BOOLEAN]
\* Where a notice can arrive.
Places == Devices \cup {Mailbox}
\* Notices by job and place.
SeenType == [Jobs -> [Places -> Nat]]

\* Types of the variables a job passes through.
QueueTypes ==
    /\ queue \in Seq(JobType) /\ retryQueue \in Seq(RetryType)
    /\ slots \in [Runners -> {Free} \cup WorkType]
    /\ log \in [DOMAIN log -> {"delivered", "failed", "skipped"}] /\ DOMAIN log \subseteq Jobs
    /\ dlq \subseteq Jobs /\ dropped \subseteq Jobs /\ seen \in SeenType

\* Types of the other variables.
SettingTypes ==
    /\ devices \in [Devices -> BOOLEAN] /\ prefs \in PrefType /\ edits \subseteq PrefType
    /\ hour \in Nat

\* The goroutines that have a job.
Busy == {s \in Runners : slots[s].pc # "free"}

\* A job id is in one list or in one goroutine, and there once.
OnePlace ==
    /\ Distinct(queue) /\ Distinct(retryQueue)
    /\ \A a \in Elems(queue) : Without(retryQueue, a.id)
    /\ \A s \in Busy : Without(queue, Id(s)) /\ Without(retryQueue, Id(s))
    /\ \A s, r \in Busy : Id(s) = Id(r) => s = r

\* Nothing has arrived.
None(m) == \A d \in Places : m[d] = 0
\* No mail was sent, and no device got more than n notices.
Upto(m, n) == m[Mailbox] = 0 /\ \A d \in Devices : m[d] <= n
\* The bound that is to be shown.
Within(m) == m[Mailbox] <= 1 /\ \A d \in Devices : m[d] <= MaxAttempts
\* What arrived is bounded by the attempt that runs: a device still to do got nothing in it,
\* and the mail comes last.
Work(x, m) ==
    /\ x.pc \in Waiting \cup {"push", "email"} => x.job.attempt < MaxAttempts
    /\ x.pc \in Waiting \cup {"bury"} => Upto(m, x.job.attempt)
    /\ x.pc = "push" => Upto(m, x.job.attempt + 1) /\ \A d \in x.todo : m[d] <= x.job.attempt
    /\ x.pc = "email" => m[Mailbox] = 0

\* A job that was never queued, or not yet.
Unknown(id) ==
    /\ id \notin DOMAIN log \cup dropped \cup dlq
    /\ Without(queue, id) /\ Without(retryQueue, id) /\ \A s \in Busy : Id(s) # id

\* The bounds for jobs in the queue, in the retry list, in work, and elsewhere.
Notices ==
    /\ \A a \in Elems(queue) : a.attempt = 0 /\ None(seen[a.id])
    /\ \A a \in Elems(retryQueue) : Upto(seen[a.id], a.attempt)
    /\ \A s \in Busy : Work(slots[s], seen[Id(s)])
    /\ \A id \in Jobs : Within(seen[id]) /\ (Unknown(id) => None(seen[id]))

\* The inductive invariant of the queue.
QueueInv == QueueTypes /\ OnePlace /\ Notices

\* A goroutine that goes on with its job keeps the invariant when it keeps the bounds.
LEMMA WorkMoves ==
    ASSUME QueueInv, NEW s \in Busy, NEW x \in WorkType,
           slots' = [slots EXCEPT ![s] = x], x.job.id = Id(s),
           UNCHANGED <<queue, retryQueue, log, dropped>>, dlq \subseteq dlq', dlq' \subseteq Jobs,
           seen' \in SeenType, \A id \in Jobs \ {Id(s)} : seen'[id] = seen[id],
           Work(x, seen'[Id(s)]), Within(seen'[Id(s)])
    PROVE  QueueInv'
<1>1. /\ s \in Runners /\ slots[s] \in WorkType /\ Id(s) \in Jobs /\ slots \in [Runners -> {Free} \cup WorkType]
  BY DEF QueueInv, QueueTypes, Busy, Free, WorkType, JobType, Id
<1>2. QueueTypes'
  BY <1>1 DEF QueueInv, QueueTypes
<1>3. x.pc # "free"
  BY DEF WorkType, WorkSteps, Waiting
<1>4. /\ Busy' = Busy /\ slots'[s] = x /\ Id(s)' = Id(s)
      /\ \A r \in Busy \ {s} : slots'[r] = slots[r] /\ Id(r)' = Id(r)
  BY <1>1, <1>3 DEF Busy, Id
<1>5. \A r \in Busy : Id(r)' = Id(r)
  BY <1>4
<1>6. OnePlace'
  BY <1>4, <1>5 DEF QueueInv, OnePlace
<1>7. \A r \in Busy \ {s} : Id(r) # Id(s) /\ Id(r) \in Jobs
  BY <1>1 DEF QueueInv, OnePlace, QueueTypes, Busy, Free, WorkType, JobType, Id
<1>8. \A r \in Busy' : Work(slots[r], seen[Id(r)])'
  <2> SUFFICES ASSUME NEW r \in Busy PROVE Work(slots'[r], seen'[Id(r)])
    BY <1>4, <1>5
  <2>1. CASE r = s
    BY <1>4, <2>1
  <2>2. CASE r # s
    BY <1>4, <1>7, <2>2 DEF QueueInv, Notices
  <2> QED BY <2>1, <2>2
<1>9. \A a \in Elems(queue) : a.id \in Jobs /\ a.id # Id(s)
  <2>1. Elems(queue) \subseteq JobType
    BY ElemsTyped DEF QueueInv, QueueTypes
  <2>2. Without(queue, Id(s))
    BY DEF QueueInv, OnePlace
  <2> QED BY <2>1, <2>2 DEF Without, JobType
<1>10. \A a \in Elems(retryQueue) : a.id \in Jobs /\ a.id # Id(s)
  <2>1. Elems(retryQueue) \subseteq RetryType
    BY ElemsTyped DEF QueueInv, QueueTypes
  <2>2. Without(retryQueue, Id(s))
    BY DEF QueueInv, OnePlace
  <2> QED BY <2>1, <2>2 DEF Without, RetryType
<1>11. \A id \in Jobs : Unknown(id)' => Unknown(id) /\ id # Id(s)
  BY <1>4, <1>5 DEF Unknown
<1>12. Notices'
  BY <1>1, <1>8, <1>9, <1>10, <1>11 DEF QueueInv, Notices
<1> QED BY <1>2, <1>6, <1>12 DEF QueueInv

\* A job that is recorded or lost leaves its place.
LEMMA WorkEnds ==
    ASSUME QueueInv, NEW s \in Busy, slots' = [slots EXCEPT ![s] = Free],
           UNCHANGED <<queue, retryQueue, seen, dlq>>,
           DOMAIN log \cup dropped \cup {Id(s)} \subseteq DOMAIN log' \cup dropped',
           log' \in [DOMAIN log' -> {"delivered", "failed", "skipped"}], DOMAIN log' \subseteq Jobs,
           dropped' \subseteq Jobs
    PROVE  QueueInv'
<1>1. s \in Runners /\ Id(s) \in Jobs /\ slots \in [Runners -> {Free} \cup WorkType]
  BY DEF QueueInv, QueueTypes, Busy, Free, WorkType, JobType, Id
<1>2. QueueTypes'
  BY <1>1 DEF QueueInv, QueueTypes
<1>3. /\ Busy' = Busy \ {s}
      /\ \A r \in Busy \ {s} : slots'[r] = slots[r] /\ Id(r)' = Id(r)
  BY <1>1 DEF Busy, Id, Free
<1>4. OnePlace'
  BY <1>3 DEF QueueInv, OnePlace
<1>5. \A id \in Jobs : Unknown(id)' => Unknown(id)
  BY <1>3 DEF Unknown
<1>6. \A r \in Busy' : Work(slots[r], seen[Id(r)])'
  BY <1>3 DEF QueueInv, Notices
<1>7. Notices'
  BY <1>5, <1>6 DEF QueueInv, Notices
<1> QED BY <1>2, <1>4, <1>7 DEF QueueInv

\* A job moves from its goroutine to the retry list.
LEMMA WorkPostponed ==
    ASSUME QueueInv, NEW s \in Busy, slots' = [slots EXCEPT ![s] = Free],
           NEW job \in RetryType, job.id = Id(s), Upto(seen[Id(s)], job.attempt),
           retryQueue' = <<job>> \o retryQueue,
           UNCHANGED <<queue, seen, dlq, log, dropped>>
    PROVE  QueueInv'
<1>1. s \in Runners /\ Id(s) \in Jobs /\ slots \in [Runners -> {Free} \cup WorkType]
  BY DEF QueueInv, QueueTypes, Busy, Free, WorkType, JobType, Id
<1>2. Without(retryQueue, Id(s)) /\ Without(queue, Id(s)) /\ retryQueue \in Seq(RetryType) /\ Distinct(retryQueue)
  BY DEF QueueInv, QueueTypes, OnePlace
<1>3. retryQueue' \in Seq(RetryType) /\ Elems(retryQueue') = Elems(retryQueue) \cup {job} /\ Distinct(retryQueue')
  BY <1>2, PushedFront
<1>4. QueueTypes'
  BY <1>1, <1>3 DEF QueueInv, QueueTypes
<1>5. /\ Busy' = Busy \ {s}
      /\ \A r \in Busy \ {s} : slots'[r] = slots[r] /\ Id(r)' = Id(r)
  BY <1>1 DEF Busy, Id, Free
<1>6. \A id : Without(retryQueue', id) <=> Without(retryQueue, id) /\ id # Id(s)
  BY <1>3 DEF Without
<1>7. \A r \in Busy \ {s} : Id(r) # Id(s)
  BY DEF QueueInv, OnePlace
<1>8. \A a \in Elems(queue) : a.id # Id(s)
  BY <1>2 DEF Without
<1>9. OnePlace'
  BY <1>3, <1>5, <1>6, <1>7, <1>8 DEF QueueInv, OnePlace
<1>10. \A id \in Jobs : Unknown(id)' => Unknown(id)
  BY <1>5, <1>6 DEF Unknown
<1>11. \A r \in Busy' : Work(slots[r], seen[Id(r)])'
  BY <1>5 DEF QueueInv, Notices
<1>12. Notices'
  BY <1>3, <1>10, <1>11 DEF QueueInv, Notices
<1> QED BY <1>4, <1>9, <1>12 DEF QueueInv

\* A job moves from a list to a goroutine.
LEMMA WorkBegins ==
    ASSUME QueueInv, NEW s \in Runners, slots[s].pc = "free", NEW x \in WorkType,
           slots' = [slots EXCEPT ![s] = x], UNCHANGED <<log, dlq, dropped, seen>>,
           \/ /\ queue # <<>> /\ queue' = WithoutLast(queue) /\ retryQueue' = retryQueue
              /\ x.job = LastOf(queue)
           \/ /\ retryQueue # <<>> /\ retryQueue' = WithoutLast(retryQueue) /\ queue' = queue
              /\ x.job = LastOf(retryQueue),
           x.pc \in Waiting
    PROVE  QueueInv'
<1>1. /\ queue \in Seq(JobType) /\ retryQueue \in Seq(RetryType) /\ Distinct(queue) /\ Distinct(retryQueue)
      /\ slots \in [Runners -> {Free} \cup WorkType]
      /\ \A a \in Elems(queue) : Without(retryQueue, a.id)
  BY DEF QueueInv, QueueTypes, OnePlace
<1>2. x.pc # "free" /\ s \notin Busy /\ x.job.id \in Jobs
  BY DEF WorkType, Waiting, Busy, JobType
<1>3. /\ Busy' = Busy \cup {s} /\ slots'[s] = x /\ Id(s)' = x.job.id
      /\ \A r \in Busy : slots'[r] = slots[r] /\ Id(r)' = Id(r)
  BY <1>1, <1>2 DEF Busy, Id
<1> DEFINE id0 == x.job.id
<1>4. /\ queue' \in Seq(JobType) /\ retryQueue' \in Seq(RetryType)
      /\ Elems(queue') \subseteq Elems(queue) /\ Elems(retryQueue') \subseteq Elems(retryQueue)
      /\ \A a \in Elems(queue) : a \in Elems(queue') \/ a.id = id0
      /\ \A a \in Elems(retryQueue) : a \in Elems(retryQueue') \/ a.id = id0
      /\ Distinct(queue') /\ Distinct(retryQueue') /\ Without(queue', id0) /\ Without(retryQueue', id0)
      /\ x.job \in Elems(queue) \cup Elems(retryQueue)
  <2>1. CASE /\ queue # <<>> /\ queue' = WithoutLast(queue) /\ retryQueue' = retryQueue
             /\ x.job = LastOf(queue)
    <3>1. /\ LastOf(queue) \in Elems(queue)
          /\ queue' \in Seq(JobType) /\ Elems(queue') \subseteq Elems(queue)
          /\ Elems(queue) \subseteq Elems(queue') \cup {x.job}
          /\ Distinct(queue') /\ Without(queue', id0)
      BY <1>1, <2>1, PoppedLast
    <3>2. Without(retryQueue', id0)
      BY <1>1, <2>1, <3>1
    <3> QED BY <1>1, <2>1, <3>1, <3>2
  <2>2. CASE /\ retryQueue # <<>> /\ retryQueue' = WithoutLast(retryQueue) /\ queue' = queue
             /\ x.job = LastOf(retryQueue)
    <3>1. /\ LastOf(retryQueue) \in Elems(retryQueue)
          /\ retryQueue' \in Seq(RetryType) /\ Elems(retryQueue') \subseteq Elems(retryQueue)
          /\ Elems(retryQueue) \subseteq Elems(retryQueue') \cup {x.job}
          /\ Distinct(retryQueue') /\ Without(retryQueue', id0)
      BY <1>1, <2>2, PoppedLast
    <3>2. Without(queue', id0)
      BY <1>1, <2>2, <3>1 DEF Without
    <3> QED BY <1>1, <2>2, <3>1, <3>2
  <2> QED BY <2>1, <2>2
<1>5. QueueTypes'
  BY <1>1, <1>4 DEF QueueInv, QueueTypes
<1>6. \A r \in Busy : Id(r) # id0
  BY <1>4 DEF QueueInv, OnePlace, Without
<1>7. OnePlace'
  <2>1. \A a \in Elems(queue') : Without(retryQueue', a.id)
    BY <1>1, <1>4 DEF Without
  <2>2. \A r \in Busy : Without(queue', Id(r)) /\ Without(retryQueue', Id(r))
    BY <1>4 DEF QueueInv, OnePlace, Without
  <2>3. \A r, t \in Busy' : Id(r)' = Id(t)' => r = t
    BY <1>3, <1>6 DEF QueueInv, OnePlace
  <2> QED BY <1>3, <1>4, <2>1, <2>2, <2>3 DEF OnePlace
<1>8. ASSUME NEW id \in Jobs, Unknown(id)' PROVE Unknown(id)
  <2>1. id # id0 /\ \A r \in Busy : Id(r) # id
    BY <1>3, <1>8 DEF Unknown
  <2>2. Without(queue, id) /\ Without(retryQueue, id)
    BY <1>4, <1>8, <2>1 DEF Unknown, Without
  <2> QED BY <1>8, <2>1, <2>2 DEF Unknown
<1>9. Upto(seen[id0], x.job.attempt) /\ x.job.attempt < MaxAttempts
  <2>1. CASE x.job \in Elems(queue)
    <3>1. x.job.attempt = 0 /\ None(seen[id0])
      BY <2>1 DEF QueueInv, Notices
    <3> QED BY <3>1, NoticeAssumption DEF None, Upto, Places
  <2>2. CASE x.job \in Elems(retryQueue)
    <3>1. Elems(retryQueue) \subseteq RetryType
      BY <1>1, ElemsTyped
    <3>2. Upto(seen[id0], x.job.attempt)
      BY <2>2 DEF QueueInv, Notices
    <3>3. x.job.attempt \in 1 .. MaxAttempts - 1
      BY <2>2, <3>1 DEF RetryType
    <3> QED BY <3>2, <3>3, NoticeAssumption
  <2> QED BY <1>4, <2>1, <2>2
<1>10. Work(x, seen[id0])
  BY <1>9 DEF Work, Waiting
<1>11. Notices'
  BY <1>3, <1>4, <1>8, <1>10 DEF QueueInv, Notices
<1> QED BY <1>5, <1>7, <1>11 DEF QueueInv

\* A job that is in no place is queued.
LEMMA JobArrives ==
    ASSUME QueueInv, NEW id \in Jobs, Enqueue(id)
    PROVE  QueueInv'
<1> DEFINE job == [id |-> id, attempt |-> 0]
<1>0. /\ queue' = <<job>> \o queue
      /\ UNCHANGED <<retryQueue, dlq, log, slots, seen, dropped>>
      /\ Without(queue, id) /\ Without(retryQueue, id) /\ \A s \in Busy : Id(s) # id
      /\ Unknown(id)
  BY DEF Enqueue, Queued, Without, Elems, Busy, Unknown
<1>1. job \in JobType /\ job.id = id /\ job.attempt = 0
  BY NoticeAssumption DEF JobType
<1> HIDE DEF job
<1>2. queue' \in Seq(JobType) /\ Elems(queue') = Elems(queue) \cup {job} /\ Distinct(queue')
  BY <1>0, <1>1, PushedFront DEF QueueInv, QueueTypes, OnePlace
<1>3. QueueTypes'
  BY <1>0, <1>2 DEF QueueInv, QueueTypes
<1>4. Busy' = Busy /\ \A s \in Busy : Id(s)' = Id(s)
  BY <1>0 DEF Busy, Id
<1>5. OnePlace'
  <2>1. \A a \in Elems(queue') : Without(retryQueue', a.id)
    BY <1>0, <1>1, <1>2 DEF QueueInv, OnePlace
  <2>2. \A s \in Busy' : Without(queue', Id(s)') /\ Without(retryQueue', Id(s)')
    BY <1>0, <1>1, <1>2, <1>4 DEF QueueInv, OnePlace, Without
  <2>3. \A s, r \in Busy' : Id(s)' = Id(r)' => s = r
    BY <1>4 DEF QueueInv, OnePlace
  <2>4. Distinct(queue') /\ Distinct(retryQueue')
    BY <1>0, <1>2 DEF QueueInv, OnePlace
  <2> QED BY <2>1, <2>2, <2>3, <2>4 DEF OnePlace
<1>6. \A i \in Jobs : Unknown(i)' => Unknown(i)
  BY <1>0, <1>2, <1>4 DEF Unknown, Without
<1>7. None(seen[id])
  BY <1>0 DEF QueueInv, Notices
<1>8. Notices'
  BY <1>0, <1>1, <1>2, <1>4, <1>6, <1>7 DEF QueueInv, Notices
<1> QED BY <1>3, <1>5, <1>8 DEF QueueInv

\* A crash loses the jobs of all goroutines.
LEMMA ProcessDies ==
    ASSUME QueueInv, Crash
    PROVE  QueueInv'
<1>1. /\ dropped' = dropped \cup {Id(s) : s \in Busy} /\ slots' = [s \in Runners |-> Free]
      /\ UNCHANGED <<queue, retryQueue, dlq, log, seen>>
  BY DEF Crash, Busy
<1>2. Busy' = {}
  BY <1>1 DEF Busy, Free
<1>3. \A s \in Busy : Id(s) \in Jobs
  BY DEF QueueInv, QueueTypes, Busy, Free, WorkType, JobType, Id
<1>4. QueueTypes'
  BY <1>1, <1>3 DEF QueueInv, QueueTypes
<1>5. OnePlace'
  BY <1>1, <1>2 DEF QueueInv, OnePlace
<1>6. \A id \in Jobs : Unknown(id)' => Unknown(id)
  BY <1>1, <1>2 DEF Unknown
<1>7. Notices'
  BY <1>1, <1>2, <1>6 DEF QueueInv, Notices
<1> QED BY <1>4, <1>5, <1>7 DEF QueueInv

\* Nothing about jobs changes.
QueueStays == UNCHANGED <<queue, retryQueue, slots, log, dlq, dropped, seen>>

\* Steps of devices, settings and the hour keep the invariant.
LEMMA NothingMoves ==
    ASSUME QueueInv, QueueStays
    PROVE  QueueInv'
<1>1. Busy' = Busy /\ \A s \in Busy : Id(s)' = Id(s)
  BY DEF QueueStays, Busy, Id
<1>2. \A id \in Jobs : Unknown(id)' => Unknown(id)
  BY <1>1 DEF QueueStays, Unknown
<1>3. QueueTypes' /\ OnePlace'
  BY <1>1 DEF QueueStays, QueueInv, QueueTypes, OnePlace
<1>4. Notices'
  BY <1>1, <1>2 DEF QueueStays, QueueInv, Notices
<1> QED BY <1>3, <1>4 DEF QueueInv

\* What the invariant says of a goroutine that has a job.
LEMMA BusyWorks ==
    ASSUME QueueInv, NEW s \in Runners, slots[s].pc # "free"
    PROVE  /\ s \in Busy /\ slots[s] \in WorkType /\ slots \in [Runners -> {Free} \cup WorkType]
           /\ slots[s].job = [id |-> Id(s), attempt |-> slots[s].job.attempt]
           /\ Id(s) \in Jobs /\ slots[s].job.attempt \in 0..MaxAttempts /\ slots[s].todo \subseteq Devices
           /\ Work(slots[s], seen[Id(s)]) /\ Within(seen[Id(s)])
           /\ seen \in SeenType /\ dlq \subseteq Jobs
<1>1. s \in Busy /\ slots[s] \in WorkType /\ slots \in [Runners -> {Free} \cup WorkType]
  BY DEF QueueInv, QueueTypes, Busy, Free
<1>2. slots[s].job \in JobType /\ slots[s].todo \subseteq Devices
  BY <1>1 DEF WorkType
<1>3. Id(s) \in Jobs
  BY <1>2 DEF JobType, Id
<1> QED BY <1>1, <1>2, <1>3 DEF QueueInv, QueueTypes, Notices, JobType, Id

\* Only goroutines change.
Still == UNCHANGED <<queue, retryQueue, dlq, log, seen, dropped>>

\* A step that sends nothing keeps the invariant when it keeps the bounds of its job.
LEMMA WorkGoesOn ==
    ASSUME QueueInv, NEW s \in Runners, slots[s].pc # "free", NEW x \in WorkType, Still,
           slots' = [slots EXCEPT ![s] = x], x.job = slots[s].job, Work(x, seen[Id(s)])
    PROVE  QueueInv'
<1>1. /\ s \in Busy /\ Id(s) \in Jobs /\ Within(seen[Id(s)]) /\ seen \in SeenType /\ dlq \subseteq Jobs
      /\ x.job.id = Id(s)
  BY BusyWorks DEF Id
<1>2. UNCHANGED <<queue, retryQueue, log, dropped>> /\ dlq' = dlq /\ seen' = seen
  BY DEF Still
<1> QED BY <1>1, <1>2, WorkMoves

\* A step that changes only the place in processJob.
LEMMA WorkGoes ==
    ASSUME QueueInv, NEW s \in Runners, slots[s].pc # "free", NEW pc \in WorkSteps, Still,
           slots' = [slots EXCEPT ![s].pc = pc],
           \/ pc \in {"email", "status", "failed", "skipped"} /\ slots[s].pc \in Waiting \cup {"push", "email"}
           \/ pc \in Waiting /\ slots[s].pc \in Waiting
           \/ pc \in {"failed", "status"}
    PROVE  QueueInv'
<1> DEFINE x == [slots[s] EXCEPT !.pc = pc]
<1>1. /\ slots[s] \in WorkType /\ slots \in [Runners -> {Free} \cup WorkType]
      /\ Work(slots[s], seen[Id(s)])
  BY BusyWorks
<1>2. x \in WorkType /\ x.pc = pc /\ x.job = slots[s].job /\ x.todo = slots[s].todo
  BY <1>1 DEF WorkType
<1>3. slots' = [slots EXCEPT ![s] = x]
  BY <1>1
<1> HIDE DEF x
<1>4. Work(x, seen[Id(s)])
  BY <1>1, <1>2 DEF Work, Waiting, Upto
<1> QED BY <1>2, <1>3, <1>4, WorkGoesOn

\* The preferences and the template are read.
LEMMA BeginNoticeKeeps ==
    ASSUME QueueInv, NEW s \in Runners, BeginNotice(s)
    PROVE  QueueInv'
<1>1. slots[s].pc = "begin" /\ Still
  BY DEF BeginNotice, Still
<1>2. PICK p : slots' = [slots EXCEPT
               ![s].pc = IF Render(Of(s).template) THEN "limit" ELSE "failed",
               ![s].push = Of(s).push /\ p.push,
               ![s].email = Of(s).email /\ (isTransactionalTemplate(Of(s).template) \/ p.email)]
  BY DEF BeginNotice
<1> DEFINE pc == IF Render(Of(s).template) THEN "limit" ELSE "failed"
           push == Of(s).push /\ p.push
           mail == Of(s).email /\ (isTransactionalTemplate(Of(s).template) \/ p.email)
           x == [slots[s] EXCEPT !.pc = pc, !.push = push, !.email = mail]
<1>3. pc \in {"limit", "failed"} /\ push \in BOOLEAN /\ mail \in BOOLEAN
  OBVIOUS
<1>4. slots' = [slots EXCEPT ![s].pc = pc, ![s].push = push, ![s].email = mail]
  BY <1>2
<1> HIDE DEF pc, push, mail
<1>5. /\ slots[s] \in WorkType /\ slots \in [Runners -> {Free} \cup WorkType]
      /\ Work(slots[s], seen[Id(s)])
  BY <1>1, BusyWorks
<1>6. slots' = [slots EXCEPT ![s] = x]
  BY <1>4, <1>5
<1>7. x \in WorkType /\ x.pc = pc /\ x.job = slots[s].job
  <2>1. pc \in WorkSteps
    BY <1>3 DEF WorkSteps, Waiting
  <2> QED BY <1>3, <1>5, <2>1 DEF WorkType
<1> HIDE DEF x
<1>8. Work(x, seen[Id(s)])
  BY <1>1, <1>3, <1>5, <1>7 DEF Work, Waiting
<1> QED BY <1>1, <1>6, <1>7, <1>8, WorkGoesOn

\* The devices to try are listed, before any was tried in this attempt.
LEMMA ListTokensKeeps ==
    ASSUME QueueInv, NEW s \in Runners, ListTokens(s)
    PROVE  QueueInv'
<1>1. slots[s].pc = "tokens" /\ Still
  BY DEF ListTokens, Still
<1>2. CASE Goes(s, "email")
  BY <1>1, <1>2, WorkGoes DEF Goes, WorkSteps, Waiting
<1> DEFINE some == GetActiveDeviceTokens
           pc == IF some = {} THEN "email" ELSE "push"
           x == [slots[s] EXCEPT !.todo = some, !.pc = pc]
<1>4. CASE slots' = [slots EXCEPT ![s].pushOK = some # {}, ![s].pc = "email"]
  <2> DEFINE sent == some # {}
             y == [slots[s] EXCEPT !.pushOK = sent, !.pc = "email"]
  <2>1. /\ slots[s] \in WorkType /\ slots \in [Runners -> {Free} \cup WorkType]
        /\ Work(slots[s], seen[Id(s)])
    BY <1>1, BusyWorks
  <2>2. sent \in BOOLEAN /\ "email" \in WorkSteps
    BY DEF WorkSteps
  <2>3. slots' = [slots EXCEPT ![s].pushOK = sent, ![s].pc = "email"]
    BY <1>4
  <2> HIDE DEF sent
  <2>4. slots' = [slots EXCEPT ![s] = y]
    BY <2>1, <2>3
  <2>5. y \in WorkType /\ y.pc = "email" /\ y.job = slots[s].job
    BY <2>1, <2>2 DEF WorkType
  <2> HIDE DEF y
  <2>6. Work(y, seen[Id(s)])
    BY <1>1, <2>1, <2>5 DEF Work, Waiting, Upto
  <2> QED BY <1>1, <2>4, <2>5, <2>6, WorkGoesOn
<1>3. CASE slots' = [slots EXCEPT ![s].todo = some, ![s].pc = pc]
  <2>1. /\ slots[s] \in WorkType /\ slots \in [Runners -> {Free} \cup WorkType]
        /\ Work(slots[s], seen[Id(s)]) /\ slots[s].job.attempt \in 0..MaxAttempts
        /\ seen[Id(s)] \in [Places -> Nat]
    BY <1>1, BusyWorks DEF SeenType
  <2>2. some \subseteq Devices /\ pc \in {"email", "push"}
    BY DEF GetActiveDeviceTokens
  <2> HIDE DEF some, pc
  <2>3. slots' = [slots EXCEPT ![s] = x]
    BY <1>3, <2>1
  <2>4. pc \in WorkSteps
    BY <2>2 DEF WorkSteps
  <2>5. x \in WorkType /\ x.pc = pc /\ x.job = slots[s].job /\ x.todo = some
    BY <2>1, <2>2, <2>4 DEF WorkType
  <2> HIDE DEF x
  <2>6. Upto(seen[Id(s)], slots[s].job.attempt) /\ slots[s].job.attempt < MaxAttempts
    BY <1>1, <2>1 DEF Work, Waiting
  <2>7. Work(x, seen[Id(s)])
    BY <2>1, <2>2, <2>5, <2>6, NoticeAssumption DEF Work, Waiting, Upto, Places
  <2> QED BY <1>1, <2>3, <2>5, <2>7, WorkGoesOn
<1> QED BY <1>2, <1>3, <1>4 DEF ListTokens

\* A device gets the notice once per attempt.
LEMMA SendToTokenKeeps ==
    ASSUME QueueInv, NEW s \in Runners, NEW d \in Devices, SendToToken(s, d)
    PROVE  QueueInv'
<1>1. slots[s].pc = "push" /\ d \in slots[s].todo
  BY DEF SendToToken
<1>2. UNCHANGED <<queue, retryQueue, dlq, log, dropped>>
  BY DEF SendToToken
<1>3. /\ s \in Busy /\ slots[s] \in WorkType /\ slots \in [Runners -> {Free} \cup WorkType]
      /\ Id(s) \in Jobs /\ slots[s].job.attempt \in 0..MaxAttempts /\ slots[s].todo \subseteq Devices
      /\ Work(slots[s], seen[Id(s)]) /\ Within(seen[Id(s)])
      /\ seen \in SeenType /\ dlq \subseteq Jobs /\ slots[s].job.id = Id(s)
  BY <1>1, BusyWorks DEF Id
<1> DEFINE a == slots[s].job.attempt
           m == seen[Id(s)]
           rest == slots[s].todo \ {d}
           pc == IF slots[s].todo = {d} THEN "email" ELSE "push"
           x == [slots[s] EXCEPT !.todo = rest, !.pc = pc]
           y == [slots[s] EXCEPT !.todo = rest, !.pc = pc, !.pushOK = TRUE]
<1>4. a < MaxAttempts /\ Upto(m, a + 1) /\ \A e \in slots[s].todo : m[e] <= a
  BY <1>1, <1>3 DEF Work
<1>5. /\ m \in [Places -> Nat] /\ Devices \subseteq Places /\ Mailbox \in Places /\ Mailbox \notin Devices
      /\ MaxAttempts \in Nat /\ a \in Nat
  <2>1. m \in [Places -> Nat]
    BY <1>3 DEF SeenType
  <2>2. Devices \subseteq Places /\ Mailbox \in Places /\ Mailbox \notin Devices
    BY NoticeAssumption DEF Places
  <2>3. MaxAttempts \in Nat /\ a \in Nat
    BY <1>3, NoticeAssumption
  <2> QED BY <2>1, <2>2, <2>3
<1>6. pc \in {"email", "push"} /\ rest \subseteq Devices /\ d \notin rest
  BY <1>3
<1>7. \/ /\ seen' = [seen EXCEPT ![Id(s)][d] = @ + 1] /\ slots' = [slots EXCEPT ![s] = y]
      \/ seen' = seen /\ slots' = [slots EXCEPT ![s] = x]
  <2>1. AfterDevice(s, d) = x /\ [AfterDevice(s, d) EXCEPT !.pushOK = TRUE] = y
    BY DEF AfterDevice
  <2> HIDE DEF x, y
  <2> QED BY <2>1 DEF SendToToken
<1>8. pc \in WorkSteps
  BY <1>6 DEF WorkSteps
<1> HIDE DEF pc, rest
<1>9. /\ x \in WorkType /\ x.pc = pc /\ x.todo = rest /\ x.job = slots[s].job
      /\ y \in WorkType /\ y.pc = pc /\ y.todo = rest /\ y.job = slots[s].job
  BY <1>3, <1>6, <1>8 DEF WorkType
<1> HIDE DEF x, y
<1>10. CASE seen' = seen /\ slots' = [slots EXCEPT ![s] = x]
  <2>1. \A e \in rest : m[e] <= a
    BY <1>4 DEF rest
  <2>2. Work(x, m)
    BY <1>4, <1>6, <1>9, <2>1 DEF Work, Waiting, Upto
  <2> QED BY <1>1, <1>2, <1>9, <1>10, <2>2, WorkGoesOn DEF Still
<1>11. CASE seen' = [seen EXCEPT ![Id(s)][d] = @ + 1] /\ slots' = [slots EXCEPT ![s] = y]
  <2> DEFINE n == seen'[Id(s)]
  <2>1. /\ n \in [Places -> Nat] /\ n[d] = m[d] + 1 /\ \A e \in Places \ {d} : n[e] = m[e]
        /\ \A id \in Jobs \ {Id(s)} : seen'[id] = seen[id]
    BY <1>3, <1>5, <1>11 DEF SeenType
  <2>2. seen' \in SeenType
    BY <1>3, <1>5, <1>11 DEF SeenType
  <2> HIDE DEF n, m, a
  <2>3. \A e \in Devices : n[e] <= a + 1
    BY <1>1, <1>4, <1>5, <2>1 DEF Upto
  <2>4. n[Mailbox] = 0 /\ \A e \in rest : n[e] <= a
    BY <1>1, <1>4, <1>5, <1>6, <2>1 DEF Upto, rest
  <2>5. Within(n)
    BY <1>4, <1>5, <2>1, <2>3, <2>4 DEF Within
  <2>6. y.job.attempt = a
    BY <1>9 DEF a
  <2>7. Work(y, n)
    BY <1>4, <1>6, <1>9, <2>3, <2>4, <2>6 DEF Work, Waiting, Upto
  <2>8. Work(y, seen'[Id(s)]) /\ Within(seen'[Id(s)])
    BY <2>5, <2>7 DEF n
  <2> QED BY <1>2, <1>3, <1>9, <1>11, <2>1, <2>2, <2>8, WorkMoves
<1> QED BY <1>7, <1>10, <1>11

\* A job whose push to a list fails is lost.
LEMMA PushLostKeeps ==
    ASSUME QueueInv, NEW s \in Runners, slots[s].pc # "free", PushLost(s),
           UNCHANGED <<queue, retryQueue, dlq, log, seen>>
    PROVE  QueueInv'
<1>1. s \in Busy /\ Id(s) \in Jobs
  BY BusyWorks
<1>2. slots' = [slots EXCEPT ![s] = Free] /\ dropped' = dropped \cup {Id(s)}
  BY DEF PushLost, Release
<1>3. /\ log \in [DOMAIN log -> {"delivered", "failed", "skipped"}] /\ DOMAIN log \subseteq Jobs
      /\ dropped \subseteq Jobs
  BY DEF QueueInv, QueueTypes
<1> QED BY <1>1, <1>2, <1>3, WorkEnds

\* The job is tried again with the next attempt, buried or lost.
LEMMA scheduleRetryKeeps ==
    ASSUME QueueInv, NEW s \in Runners, scheduleRetry(s)
    PROVE  QueueInv'
<1>1. slots[s].pc = "push"
  BY DEF scheduleRetry
<1>3. /\ s \in Busy /\ slots[s] \in WorkType /\ slots \in [Runners -> {Free} \cup WorkType]
      /\ Id(s) \in Jobs /\ slots[s].job.attempt \in 0..MaxAttempts
      /\ Work(slots[s], seen[Id(s)]) /\ Within(seen[Id(s)])
      /\ slots[s].job = [id |-> Id(s), attempt |-> slots[s].job.attempt]
      /\ seen \in SeenType /\ dlq \subseteq Jobs
  BY <1>1, BusyWorks
<1> DEFINE a == slots[s].job.attempt
           job == [id |-> Id(s), attempt |-> a + 1]
           x == [slots[s] EXCEPT !.job = job, !.pc = "bury"]
<1>4. NextAttempt(slots[s].job) = job
  BY <1>3 DEF NextAttempt
<1>5. a \in Nat /\ a < MaxAttempts /\ MaxAttempts \in Nat /\ Upto(seen[Id(s)], a + 1)
  BY <1>1, <1>3, NoticeAssumption DEF Work
<1> HIDE DEF a
<1>6. job \in JobType /\ job.id = Id(s) /\ job.attempt = a + 1
  BY <1>3, <1>5 DEF JobType
<1> HIDE DEF job
<1>7. CASE /\ job.attempt >= MaxAttempts /\ slots' = [slots EXCEPT ![s].job = job, ![s].pc = "bury"]
           /\ UNCHANGED <<retryQueue, dropped>>
  <2>1. slots' = [slots EXCEPT ![s] = x]
    BY <1>3, <1>7
  <2>2. x \in WorkType /\ x.pc = "bury" /\ x.job = job
    <3>1. "bury" \in WorkSteps
      BY DEF WorkSteps
    <3> QED BY <1>3, <1>6, <3>1 DEF WorkType
  <2> HIDE DEF x
  <2>3. Work(x, seen[Id(s)])
    BY <1>5, <1>6, <2>2 DEF Work, Waiting
  <2>4. UNCHANGED <<queue, retryQueue, dlq, log, seen, dropped>>
    BY <1>7 DEF scheduleRetry
  <2> QED BY <1>3, <1>6, <2>1, <2>2, <2>3, <2>4, WorkMoves
<1>8. CASE /\ job.attempt < MaxAttempts /\ retryQueue' = <<job>> \o retryQueue /\ Release(s)
           /\ UNCHANGED dropped
  <2>1. job \in RetryType
    BY <1>3, <1>5, <1>6, <1>8 DEF RetryType, JobType
  <2>2. UNCHANGED <<queue, dlq, log, seen, dropped>>
    BY <1>8 DEF scheduleRetry
  <2>3. slots' = [slots EXCEPT ![s] = Free] /\ Upto(seen[Id(s)], job.attempt)
    BY <1>5, <1>6, <1>8 DEF Release
  <2> QED BY <1>3, <1>6, <1>8, <2>1, <2>2, <2>3, WorkPostponed
<1>9. CASE PushLost(s) /\ UNCHANGED retryQueue
  BY <1>1, <1>9, PushLostKeeps DEF scheduleRetry
<1> QED BY <1>4, <1>7, <1>8, <1>9 DEF scheduleRetry

\* The mail is sent, once.
LEMMA SendEmailKeeps ==
    ASSUME QueueInv, NEW s \in Runners, SendEmail(s)
    PROVE  QueueInv'
<1>1. slots[s].pc = "email" /\ UNCHANGED <<queue, retryQueue, dlq, log, dropped>>
  BY DEF SendEmail
<1>2. CASE Goes(s, "status") /\ UNCHANGED seen
  BY <1>1, <1>2, WorkGoes DEF Goes, Still, WorkSteps, Waiting
<1>3. CASE /\ seen' = [seen EXCEPT ![Id(s)][Mailbox] = @ + 1]
           /\ slots' = [slots EXCEPT ![s].emailOK = TRUE, ![s].pc = "status"]
  <2> DEFINE m == seen[Id(s)]
             n == seen'[Id(s)]
             x == [slots[s] EXCEPT !.emailOK = TRUE, !.pc = "status"]
  <2>1. /\ s \in Busy /\ slots[s] \in WorkType /\ slots \in [Runners -> {Free} \cup WorkType]
        /\ Id(s) \in Jobs /\ Work(slots[s], seen[Id(s)]) /\ Within(seen[Id(s)])
        /\ seen \in SeenType /\ dlq \subseteq Jobs /\ slots[s].job.id = Id(s)
    BY <1>1, BusyWorks DEF Id
  <2>2. /\ m \in [Places -> Nat] /\ Mailbox \in Places /\ Devices \subseteq Places /\ Mailbox \notin Devices
        /\ m[Mailbox] = 0
    BY <1>1, <2>1, NoticeAssumption DEF SeenType, Places, Work
  <2>3. /\ n[Mailbox] = 1 /\ \A e \in Places \ {Mailbox} : n[e] = m[e]
        /\ \A id \in Jobs \ {Id(s)} : seen'[id] = seen[id]
    BY <1>3, <2>1, <2>2 DEF SeenType
  <2>4. seen' \in SeenType
    BY <1>3, <2>1, <2>2 DEF SeenType
  <2>5. slots' = [slots EXCEPT ![s] = x]
    BY <1>3, <2>1
  <2>6. x \in WorkType /\ x.pc = "status" /\ x.job = slots[s].job
    BY <2>1 DEF WorkType, WorkSteps
  <2> HIDE DEF x, n, m
  <2>7. Within(n)
    BY <2>1, <2>2, <2>3 DEF Within, m
  <2>8. Work(x, seen'[Id(s)]) /\ Within(seen'[Id(s)])
    BY <2>6, <2>7 DEF Work, Waiting, n
  <2> QED BY <1>1, <2>1, <2>3, <2>4, <2>5, <2>6, <2>8, WorkMoves
<1> QED BY <1>2, <1>3 DEF SendEmail

\* The job is recorded, or the write is lost.
LEMMA recordJobKeeps ==
    ASSUME QueueInv, NEW s \in Runners, recordJob(s)
    PROVE  QueueInv'
<1>1. slots[s].pc # "free" /\ UNCHANGED <<queue, retryQueue, dlq, seen>>
  BY DEF recordJob
<1>2. PICK status \in {"delivered", "failed", "skipped"} : Write(s, status)
  BY DEF recordJob, StatusOf
<1>3. s \in Busy /\ Id(s) \in Jobs
  BY <1>1, BusyWorks
<1>4. slots' = [slots EXCEPT ![s] = Free]
  BY <1>2 DEF Write, Release
<1>5. /\ log \in [DOMAIN log -> {"delivered", "failed", "skipped"}] /\ DOMAIN log \subseteq Jobs
      /\ dropped \subseteq Jobs
  BY DEF QueueInv, QueueTypes
<1>6. CASE /\ log' = [id \in DOMAIN log \cup {Id(s)} |-> IF id = Id(s) THEN status ELSE log[id]]
           /\ UNCHANGED dropped
  <2>1. /\ log' \in [DOMAIN log' -> {"delivered", "failed", "skipped"}]
        /\ DOMAIN log' = DOMAIN log \cup {Id(s)}
    BY <1>5, <1>6
  <2> QED BY <1>1, <1>3, <1>4, <1>5, <1>6, <2>1, WorkEnds
<1>7. CASE UNCHANGED log /\ dropped' = dropped \cup {Id(s)}
  BY <1>1, <1>3, <1>4, <1>5, <1>7, WorkEnds
<1> QED BY <1>2, <1>6, <1>7 DEF Write

\* The job is put on the dead-letter list and recorded next, or lost.
LEMMA moveToDLQKeeps ==
    ASSUME QueueInv, NEW s \in Runners, moveToDLQ(s)
    PROVE  QueueInv'
<1>0. CASE PushLost(s) /\ UNCHANGED dlq
  BY <1>0, PushLostKeeps DEF moveToDLQ
<1> SUFFICES ASSUME dlq' = dlq \cup {Id(s)}, Goes(s, "failed"), UNCHANGED dropped PROVE QueueInv'
  BY <1>0 DEF moveToDLQ
<1> DEFINE x == [slots[s] EXCEPT !.pc = "failed"]
<1>1. /\ slots[s].pc = "bury" /\ dlq' = dlq \cup {Id(s)} /\ slots' = [slots EXCEPT ![s].pc = "failed"]
      /\ UNCHANGED <<queue, retryQueue, log, seen, dropped>>
  BY DEF moveToDLQ, Goes
<1>2. /\ s \in Busy /\ slots[s] \in WorkType /\ slots \in [Runners -> {Free} \cup WorkType]
      /\ Id(s) \in Jobs /\ Within(seen[Id(s)]) /\ seen \in SeenType /\ dlq \subseteq Jobs
      /\ slots[s].job.id = Id(s)
  BY <1>1, BusyWorks DEF Id
<1>3. slots' = [slots EXCEPT ![s] = x]
  BY <1>1, <1>2
<1>4. x \in WorkType /\ x.pc = "failed" /\ x.job = slots[s].job
  BY <1>2 DEF WorkType, WorkSteps
<1> HIDE DEF x
<1>5. Work(x, seen[Id(s)])
  BY <1>4 DEF Work, Waiting
<1> QED BY <1>1, <1>2, <1>3, <1>4, <1>5, WorkMoves

\* Every step keeps the invariant of the queue.
LEMMA NoticeStep ==
    ASSUME QueueInv, [NoticeNext]_noticeVars
    PROVE  QueueInv'
<1>1. ASSUME NEW id \in Jobs, Enqueue(id) PROVE QueueInv'
  BY <1>1, JobArrives
<1>2. ASSUME NEW s \in Runners, Pop(s) PROVE QueueInv'
  <2> DEFINE x == Started(LastOf(queue))
  <2>1. LastOf(queue) \in JobType
    BY <1>2, PoppedLast DEF Pop, QueueInv, QueueTypes
  <2>2. x \in WorkType /\ x.pc = "begin" /\ x.job = LastOf(queue)
    BY <2>1 DEF Started, WorkType, WorkSteps, Waiting
  <2>3. /\ slots[s].pc = "free" /\ queue # <<>> /\ slots' = [slots EXCEPT ![s] = x]
        /\ queue' = WithoutLast(queue) /\ UNCHANGED <<retryQueue, log, dlq, dropped, seen>>
    BY <1>2 DEF Pop
  <2> HIDE DEF x
  <2> QED BY <2>2, <2>3, WorkBegins DEF Waiting
<1>3. CASE PopRetry
  <2> DEFINE x == [Started(LastOf(retryQueue)) EXCEPT !.pc =
              IF LastOf(retryQueue).attempt >= MaxAttempts THEN "bury" ELSE "wait"]
  <2>1. LastOf(retryQueue) \in RetryType
    BY <1>3, PoppedLast DEF PopRetry, QueueInv, QueueTypes
  <2>2. LastOf(retryQueue) \in JobType /\ ~(LastOf(retryQueue).attempt >= MaxAttempts)
    BY <2>1, NoticeAssumption DEF RetryType, JobType
  <2>3. x \in WorkType /\ x.pc = "wait" /\ x.job = LastOf(retryQueue)
    BY <2>2 DEF Started, WorkType, WorkSteps, Waiting
  <2>4. /\ slots[Retrier].pc = "free" /\ retryQueue # <<>> /\ slots' = [slots EXCEPT ![Retrier] = x]
        /\ retryQueue' = WithoutLast(retryQueue) /\ UNCHANGED <<queue, log, dlq, dropped, seen>>
    BY <1>3 DEF PopRetry
  <2> HIDE DEF x
  <2>5. Retrier \in Runners
    BY DEF Runners
  <2> QED BY <2>3, <2>4, <2>5, WorkBegins DEF Waiting
<1>4. CASE BackoffEnds
  <2>1. /\ slots[Retrier].pc = "wait" /\ slots' = [slots EXCEPT ![Retrier].pc = "begin"] /\ Still
        /\ Retrier \in Runners
    BY <1>4 DEF BackoffEnds, Goes, Still, Runners
  <2> QED BY <2>1, WorkGoes DEF WorkSteps, Waiting
<1>5. ASSUME NEW s \in Runners, Process(s) PROVE QueueInv'
  <2>1. CASE checkRateLimit(s)
    <3>1. slots[s].pc = "limit" /\ Still /\ (Goes(s, "tokens") \/ Goes(s, "skipped"))
      BY <2>1 DEF checkRateLimit, Still
    <3> QED BY <3>1, WorkGoes DEF Goes, WorkSteps, Waiting
  <2> QED BY <1>5, <2>1, BeginNoticeKeeps, ListTokensKeeps, SendToTokenKeeps, scheduleRetryKeeps,
             SendEmailKeeps, recordJobKeeps, moveToDLQKeeps DEF Process
<1>6. CASE \/ HourEnds \/ \E d \in Devices : RegisterDevice(d)
           \/ ReadPreferences
           \/ \E f \in {"push", "email"}, v \in BOOLEAN : UpdateUserPreferences(f, v)
           \/ UNCHANGED noticeVars
  <2>1. QueueStays
    BY <1>6 DEF HourEnds, RegisterDevice, ReadPreferences, UpdateUserPreferences, noticeVars, QueueStays
  <2> QED BY <2>1, NothingMoves
<1>7. CASE Crash
  BY <1>7, ProcessDies
<1> QED BY <1>1, <1>2, <1>3, <1>4, <1>5, <1>6, <1>7 DEF NoticeNext

\* Every step keeps the types of devices, preferences and the hour.
LEMMA SettingsTyped ==
    ASSUME SettingTypes, [NoticeNext]_noticeVars
    PROVE  SettingTypes'
<1>1. ASSUME NEW s \in Runners, Pop(s) \/ Process(s) PROVE SettingTypes'
  <2>1. UNCHANGED <<prefs, edits>>
    BY <1>1 DEF Pop, Process, BeginNotice, checkRateLimit, ListTokens, SendToToken, scheduleRetry, SendEmail,
                recordJob, moveToDLQ
  <2>2. hour' \in {hour, hour + 1}
    BY <1>1 DEF Pop, Process, BeginNotice, checkRateLimit, ListTokens, SendToToken, scheduleRetry, SendEmail,
                recordJob, moveToDLQ
  <2>3. devices' = devices \/ \E d \in Devices : devices' = MarkTokenInactive(d)
    BY <1>1 DEF Pop, Process, BeginNotice, checkRateLimit, ListTokens, SendToToken, scheduleRetry, SendEmail,
                recordJob, moveToDLQ
  <2>4. devices' \in [Devices -> BOOLEAN]
    BY <2>3 DEF SettingTypes, MarkTokenInactive
  <2> QED BY <2>1, <2>2, <2>4 DEF SettingTypes
<1>2. ASSUME NEW f \in {"push", "email"}, NEW v \in BOOLEAN, UpdateUserPreferences(f, v) PROVE SettingTypes'
  <2>1. PICK p \in PrefType : prefs' = [p EXCEPT ![f] = v]
    BY <1>2 DEF UpdateUserPreferences, SettingTypes
  <2>2. prefs' \in PrefType
    BY <2>1 DEF PrefType
  <2> QED BY <1>2, <2>2 DEF UpdateUserPreferences, SettingTypes
<1>3. ASSUME NEW d \in Devices, RegisterDevice(d) PROVE SettingTypes'
  BY <1>3 DEF RegisterDevice, CreateFCMDeviceToken, SettingTypes
<1>4. CASE HourEnds \/ ReadPreferences
  BY <1>4 DEF HourEnds, ReadPreferences, SettingTypes
<1>5. CASE PopRetry \/ BackoffEnds \/ Crash \/ (\E id \in Jobs : Enqueue(id)) \/ UNCHANGED noticeVars
  BY <1>5 DEF PopRetry, BackoffEnds, Crash, Enqueue, noticeVars, SettingTypes
<1> QED BY <1>1, <1>2, <1>3, <1>4, <1>5 DEF NoticeNext

\* The invariant of the queue holds at the start.
LEMMA NoticeStart == NoticeInit => QueueInv /\ SettingTypes
<1> SUFFICES ASSUME NoticeInit PROVE QueueInv /\ SettingTypes
  OBVIOUS
<1>1. QueueTypes /\ SettingTypes
  BY DEF NoticeInit, QueueTypes, SettingTypes, SeenType, Places, PrefType
<1>2. Elems(queue) = {} /\ Elems(retryQueue) = {} /\ Busy = {}
  BY DEF NoticeInit, Elems, Busy, Free
<1>3. OnePlace
  BY <1>2 DEF NoticeInit, OnePlace, Distinct, Elems
<1>4. \A id \in Jobs : None(seen[id]) /\ Within(seen[id])
  BY NoticeAssumption DEF NoticeInit, None, Within, Places
<1>5. Notices
  BY <1>2, <1>4 DEF Notices
<1> QED BY <1>1, <1>3, <1>5 DEF QueueInv

\* The invariant of the queue holds.
LEMMA NoticeInvariant == NoticeSpec => [](QueueInv /\ SettingTypes)
<1>1. QueueInv /\ SettingTypes /\ [NoticeNext]_noticeVars => (QueueInv /\ SettingTypes)'
  BY NoticeStep, SettingsTyped
<1> QED BY NoticeStart, <1>1, PTL DEF NoticeSpec

\* The queue, the goroutines and the log keep their types.
LEMMA NoticesTyped == NoticeSpec => []NoticeTypeOK
<1>1. QueueInv /\ SettingTypes => NoticeTypeOK
  <2> SUFFICES ASSUME QueueInv, SettingTypes PROVE NoticeTypeOK
    OBVIOUS
  <2>1. \A s \in Runners : slots[s].pc # "free" =>
          Id(s) \in Jobs /\ slots[s].job.attempt \in 0..MaxAttempts /\ slots[s].todo \subseteq Devices
    BY BusyWorks
  <2>2. \A i \in DOMAIN retryQueue : retryQueue[i].attempt \in 1..(MaxAttempts - 1)
    <3>1. Elems(retryQueue) \subseteq RetryType
      BY ElemsTyped DEF QueueInv, QueueTypes
    <3> QED BY <3>1 DEF Elems, RetryType
  <2> QED BY <2>1, <2>2 DEF QueueInv, QueueTypes, SettingTypes, PrefType, NoticeTypeOK
<1> QED BY <1>1, NoticeInvariant, PTL

\* A device gets a notice maxAttempts times at most and the mailbox once, through any
\* retries, crashes and changes of devices.
THEOREM NoticesAreBounded == NoticeSpec => []NoticesBounded
<1>1. QueueInv => NoticesBounded
  BY DEF QueueInv, Notices, Within, NoticesBounded
<1> QED BY <1>1, NoticeInvariant, PTL

\* The composition is the accounts, the queue and the rows, each by its own specification.
LEMMA EveryPart == AccountsSpec => AccountSpec /\ NoticeSpec /\ RowSpec
<1>1. Init => AccountInit /\ NoticeInit /\ RowInit
  BY DEF Init
<1>2. [NextAccount \/ NextNotice \/ NextRow]_vars => [AccountNext]_accountVars
  BY DEF NextAccount, NextNotice, NextRow, AtRest, vars
<1>3. [NextAccount \/ NextNotice \/ NextRow]_vars => [NoticeNext]_noticeVars
  BY DEF NextAccount, NextNotice, NextRow, vars
<1>4. [NextAccount \/ NextNotice \/ NextRow]_vars => [RowNext]_rowVars
  BY DEF NextAccount, NextNotice, NextRow, vars
<1> QED BY <1>1, <1>2, <1>3, <1>4, PTL DEF AccountsSpec, AccountSpec, NoticeSpec, RowSpec

\* Accounts, queue and rows composed keep their types.
THEOREM NoticesAndAccountsTypes == AccountsSpec => []TypeOK
<1>1. AccountTypeOK /\ NoticeTypeOK /\ RowTypeOK => TypeOK
  BY DEF TypeOK
<1> QED BY <1>1, EveryPart, AccountsTypes, NoticesTyped, RowsTyped, PTL
====
