-------------------------------- MODULE Quizzes --------------------------------
(***************************************************************************)
(* One quiz that a scan produced, from its draft to the attempts of one    *)
(* student who uses several clients, with the analytics dashboard and its  *)
(* cache.  A handler that reads, waits and then writes takes several       *)
(* steps; a Postgres transaction is one.  Times are days.                  *)
(***************************************************************************)
EXTENDS Integers, Sequences, FiniteSets, FiniteSetsExt, SequencesExt

CONSTANTS
    Clients,      \* phone, tablet, browser: one request each at a time
    FirstDraft,   \* the questions of a question scan, in the form of a save request
    Generated,    \* the questions of a quiz the worker generated: published at once
    Drafts,       \* question lists a reviewer may save
    Subject,      \* subject of the quiz
    Explains,     \* an explainer is configured (WithExplainer)
    Skews,        \* how far a client's clock may be off, in days
    Start,        \* the day on which a behaviour begins
    DraftBudget,  \* bounds [saves, attempts, days : Nat] of a behaviour from a draft,
    QuizBudgets   \* and the bounds of those from a generated quiz

ASSUME QuizAssumption == IsFiniteSet(Clients) /\ Skews \subseteq Int /\ Start \in Nat

VARIABLES
    quizStatus,   \* quizzes.status
    questions,    \* quiz_questions in order_no order, with key and explanation
    lastID,       \* the newest question id
    attempts,     \* quiz_attempts with their quiz_attempt_answers and report
    requests,     \* the request of each client
    cached,       \* analytics:{user} in Redis
    dropping,     \* invalidations started and not yet run
    today,
    told,         \* history: results told for each attempt
    overlapped,   \* history: a save began while the quiz was a draft and ended too late
    lagging,      \* history: the cached entry may be older than the attempts
    quizBudget

quizVars == <<quizStatus, questions, lastID, attempts, requests, cached, dropping, today,
              told, overlapped, lagging, quizBudget>>

None == [kind |-> "none"]
Idle == [kind |-> "idle"]
NoKey == -1                     \* ai.CorrectIndexUnknown
Completed == {i \in DOMAIN attempts : attempts[i].status = "completed"}
Running == {i \in DOMAIN attempts : attempts[i].status = "in_progress"}
Ask(c, r) == requests' = [requests EXCEPT ![c] = r]
Reply(c) == requests' = [requests EXCEPT ![c] = Idle]
SpendQuiz(k) ==
    /\ quizBudget[k] > 0
    /\ quizBudget' = [quizBudget EXCEPT ![k] = @ - 1]

(* -------------------------------- drafts -------------------------------- *)

\* How many options a question of a type may have; none for an unknown type.
OptionRange(type) ==
    CASE type = "mcq" -> 2..6
      [] type = "fill_blank" -> 2..4
      [] type = "true_false" -> {2}
      [] OTHER -> {}

\* A blank option is dropped and the index of the key is not moved with it.
Options(q) == Cardinality({i \in DOMAIN q.options : q.options[i]})
Known(q) == q.correctIndex \in 0 .. Options(q) - 1
Normalized(q, id) ==
    [id |-> id, options |-> Options(q), key |-> IF Known(q) THEN q.correctIndex ELSE NoKey,
     answerStatus |-> IF Known(q) THEN "set" ELSE "unknown", explained |-> q.explained]

\* validateDraftInput accepts the list.
ValidDraft(draft) ==
    /\ draft # <<>>
    /\ \A i \in DOMAIN draft :
         draft[i].text /\ Options(draft[i]) \in OptionRange(draft[i].type)

\* insertDraftQuestion for each question: new ids in the order of the list.
Inserted(draft, after) ==
    [i \in DOMAIN draft |-> Normalized(draft[i], after + i)]

\* The worker writes validated questions, and those it generates with their keys.
ASSUME DraftAssumption ==
    /\ {FirstDraft, Generated} \cup Drafts \subseteq
         Seq([text : BOOLEAN, type : STRING, options : Seq(BOOLEAN), correctIndex : Int, explained : BOOLEAN])
    /\ ValidDraft(FirstDraft) /\ ValidDraft(Generated)
    /\ \A i \in DOMAIN Generated : Known(Generated[i])

Keyed(q) == q.key # NoKey       \* correctOption
IDs(list) == {list[i].id : i \in DOMAIN list}

\* PUT /quizzes/{id}/draft: the owner's list passes the status check and validation.
HandleSaveDraft(c, draft) ==
    /\ requests[c] = Idle /\ quizStatus = "draft" /\ ValidDraft(draft)
    /\ SpendQuiz("saves")
    /\ Ask(c, [kind |-> "save", status |-> quizStatus, draft |-> draft])
    /\ UNCHANGED <<quizStatus, questions, lastID, attempts, cached, dropping, today, told, overlapped, lagging>>

\* Deleting the questions deletes their options, explanations and attempt answers.
WithoutAnswers(attempt, gone) ==
    [attempt EXCEPT !.rows = {r \in @ : r.question \notin gone}]

Publishing == {c \in Clients : requests[c].kind = "publish"}

\* The transaction of SaveDraft: delete all questions, insert the new list.
SaveDraft(c) ==
    LET r == requests[c] IN
    /\ r.kind = "save"
    /\ questions' = Inserted(r.draft, lastID)
    /\ lastID' = lastID + Len(r.draft)
    /\ attempts' = [i \in DOMAIN attempts |-> WithoutAnswers(attempts[i], IDs(questions))]
    /\ overlapped' = (overlapped \/ (r.status = "draft" /\ (quizStatus # "draft" \/ Publishing # {})))
    /\ Reply(c)
    /\ UNCHANGED <<quizStatus, cached, dropping, today, told, lagging, quizBudget>>

\* Mutant: publication does not look for a missing key.
HandlePublishUnchecked(c) ==
    /\ requests[c] = Idle /\ quizStatus = "draft" /\ questions # <<>>
    /\ Ask(c, [kind |-> "publish", status |-> quizStatus,
               todo |-> SelectSeq(questions, LAMBDA q : ~q.explained)])
    /\ UNCHANGED <<quizStatus, questions, lastID, attempts, cached, dropping, today, told, overlapped, lagging, quizBudget>>

\* POST /quizzes/{id}/publish: read the draft and check it.
HandlePublishDraft(c) ==
    /\ requests[c] = Idle /\ quizStatus = "draft"
    /\ questions # <<>> /\ \A i \in DOMAIN questions : Keyed(questions[i])
    /\ Ask(c, [kind |-> "publish", status |-> quizStatus,
               todo |-> SelectSeq(questions, LAMBDA q : ~q.explained)])
    /\ UNCHANGED <<quizStatus, questions, lastID, attempts, cached, dropping, today, told, overlapped, lagging, quizBudget>>

\* explainForQuestion and the insert of its text.  An explainer that is missing,
\* fails or says nothing leaves the question as it is; a question that was
\* deleted meanwhile fails the insert and the request.
ExplainQuestion(c) ==
    LET q == Head(requests[c].todo)
        rest == [requests[c] EXCEPT !.todo = Tail(@)] IN
    /\ requests[c].kind = "publish" /\ requests[c].todo # <<>>
    /\ \/ UNCHANGED questions /\ Ask(c, rest)
       \/ /\ Explains /\ q.id \in IDs(questions)
          /\ questions' = [i \in DOMAIN questions |->
                             IF questions[i].id = q.id THEN [questions[i] EXCEPT !.explained = TRUE]
                             ELSE questions[i]]
          /\ Ask(c, rest)
       \/ Explains /\ q.id \notin IDs(questions) /\ UNCHANGED questions /\ Reply(c)
    /\ UNCHANGED <<quizStatus, lastID, attempts, cached, dropping, today, told, overlapped, lagging, quizBudget>>

\* The transaction of PublishDraft; it marks whatever questions there are now.
PublishDraft(c) ==
    /\ requests[c].kind = "publish" /\ requests[c].todo = <<>>
    /\ quizStatus' = "published"
    /\ questions' = [i \in DOMAIN questions |-> [questions[i] EXCEPT !.answerStatus = "set"]]
    /\ Reply(c)
    /\ UNCHANGED <<lastID, attempts, cached, dropping, today, told, overlapped, lagging, quizBudget>>

(* ------------------------------- attempts ------------------------------- *)

\* Mutant: no look for a running attempt.
HandleCreateAnother(c, at) ==
    /\ requests[c] = Idle /\ quizStatus # "draft"
    /\ Ask(c, [kind |-> "create", started |-> at])
    /\ UNCHANGED <<quizStatus, questions, lastID, attempts, cached, dropping, today, told, overlapped, lagging, quizBudget>>

\* POST /quizzes/{id}/attempts: the status, then a look for a running attempt.
\* The status never leaves "published", so the two reads are one step.  A running
\* attempt is returned as it is.
HandleCreateAttempt(c, at) ==
    /\ requests[c] = Idle /\ quizStatus # "draft"
    /\ Running = {}
    /\ Ask(c, [kind |-> "create", started |-> at])
    /\ UNCHANGED <<quizStatus, questions, lastID, attempts, cached, dropping, today, told, overlapped, lagging, quizBudget>>

\* The insert of CreateAttempt; nothing makes the running attempt unique.
CreateAttempt(c) ==
    /\ requests[c].kind = "create"
    /\ SpendQuiz("attempts")
    /\ attempts' = Append(attempts,
         [status |-> "in_progress", started |-> requests[c].started, submitted |-> requests[c].started,
          correct |-> 0, wrong |-> 0, skipped |-> 0, score |-> 0, rows |-> {}])
    /\ told' = Append(told, {}) /\ Reply(c)
    /\ UNCHANGED <<quizStatus, questions, lastID, cached, dropping, today, overlapped, lagging>>

\* In tenths of a percent, rounded half up.
scorePercent(correct, total) ==
    IF total <= 0 THEN 0 ELSE (2000 * correct + total) \div (2 * total)

\* Validate: no question twice.
ValidAnswers(answers) == \A x, y \in answers : x.question = y.question => x = y

Option(q, n) == <<q, n>>        \* id of the option n of a question
NoOption == <<0, NoKey>>        \* selectedOptionId null
Selected(answers, q) ==
    IF \E x \in answers : x.question = q
    THEN (CHOOSE x \in answers : x.question = q).option ELSE NoOption

\* One answer row per question, answered or not.
Grade(q, answers) ==
    LET o == Selected(answers, q.id) IN
    [question |-> q.id, selected |-> o,
     isCorrect |-> IF o = NoOption THEN "null"
                   ELSE IF Keyed(q) /\ o = Option(q.id, q.key) THEN "true" ELSE "false"]

loadResult(a) ==
    [score |-> a.score, correct |-> a.correct, wrong |-> a.wrong, skipped |-> a.skipped,
     total |-> a.correct + a.wrong + a.skipped,
     time |-> Max({0, a.submitted - a.started})]

Tally(rows, mark) == Cardinality({r \in rows : r.isCorrect = mark})

\* The attempt after its first submission.
Graded(a, answers, at) ==
    LET rows == {Grade(questions[i], answers) : i \in DOMAIN questions} IN
    [a EXCEPT !.status = "completed", !.submitted = at, !.rows = rows,
              !.correct = Tally(rows, "true"), !.wrong = Tally(rows, "false"),
              !.skipped = Tally(rows, "null"),
              !.score = scorePercent(Tally(rows, "true"), Len(questions))]

\* Mutant: a submitted attempt is graded again.
SubmitAttemptAgain(i, answers, at) ==
    LET graded == Graded(attempts[i], answers, at) IN
    /\ attempts' = [attempts EXCEPT ![i] = graded]
    /\ told' = [told EXCEPT ![i] = @ \cup {loadResult(graded)}]
    /\ dropping' = dropping + 1
    /\ UNCHANGED lagging

\* Mutant: the first submission starts no invalidation.
SubmitAttemptQuietly(i, answers, at) ==
    LET a == attempts[i]
        graded == IF a.status = "in_progress" THEN Graded(a, answers, at) ELSE a IN
    /\ attempts' = [attempts EXCEPT ![i] = graded]
    /\ told' = [told EXCEPT ![i] = @ \cup {loadResult(graded)}]
    /\ UNCHANGED <<dropping, lagging>>

\* The transaction holds the attempt's row; a submitted attempt is only read.
SubmitAttempt(i, answers, at) ==
    LET a == attempts[i] IN
    \/ /\ a.status # "in_progress"
       /\ told' = [told EXCEPT ![i] = @ \cup {loadResult(a)}]
       /\ UNCHANGED <<attempts, dropping, lagging>>
    \/ /\ a.status = "in_progress"
       /\ attempts' = [attempts EXCEPT ![i] = Graded(a, answers, at)]
       /\ told' = [told EXCEPT ![i] = @ \cup {loadResult(Graded(a, answers, at))}]
       /\ dropping' = dropping + 1
       /\ UNCHANGED lagging

\* PUT .../submit with a list of answers; submittedAt is the client's clock.
HandleSubmitAttempt(c, i, answers, at) ==
    /\ requests[c] = Idle /\ i \in DOMAIN attempts
    /\ ValidAnswers(answers) /\ SubmitAttempt(i, answers, at)
    /\ UNCHANGED <<quizStatus, questions, lastID, requests, cached, today, overlapped, quizBudget>>

\* GetReview: the questions of today with the answers of then, for a completed attempt.
GetReview(a) ==
    [n \in DOMAIN questions |->
       LET mine == {r \in a.rows : r.question = questions[n].id} IN
       IF \A r \in mine : r.selected = NoOption THEN "skipped"
       ELSE IF \E r \in mine : r.isCorrect = "true" THEN "correct" ELSE "wrong"]

\* GetTopicAnalytics for the quiz's only topic.
GetTopicAnalytics ==
    LET rows == UNION {{<<i, r>> : r \in attempts[i].rows} : i \in Completed}
        right == {x \in rows : x[2].isCorrect = "true"}
    IN [total |-> Cardinality(rows), correct |-> Cardinality(right),
        accuracy |-> scorePercent(Cardinality(right), Cardinality(rows))]

\* attemptRow of the completed attempts, what the one query returns.
attemptRows ==
    [i \in Completed |->
       [score |-> attempts[i].score, submitted |-> attempts[i].submitted,
        correct |-> attempts[i].correct, wrong |-> attempts[i].wrong, skipped |-> attempts[i].skipped]]

\* ORDER BY submitted_at: rows of equal times come in any order, another one each time.
RowOrders(rows) ==
    {order \in SetToSeqs(DOMAIN rows) :
       \A k, l \in DOMAIN order : k < l => rows[order[k]].submitted <= rows[order[l]].submitted}

\* GetUserReports: a page of the completed attempts, the latest first.
GetUserReports(page, limit, order) ==
    LET p == Max({page, 1})
        n == IF limit \in 1..100 THEN limit ELSE 10
        shown == {k \in DOMAIN order : Len(order) - k \in (p - 1) * n .. p * n - 1}
    IN [total |-> Cardinality(Completed),
        items |-> {[attempt |-> order[k], score |-> attempts[order[k]].score] : k \in shown}]

(* ------------------------------- analytics ------------------------------ *)

RoundedMean(sum, n) == (2 * sum + n) \div (2 * n)      \* round1(sum / n), in tenths
MeanScore(rows) ==
    RoundedMean(FoldFunction(+, 0, [i \in DOMAIN rows |-> rows[i].score]), Cardinality(DOMAIN rows))

isoWeek(day) == day \div 7      \* day 0 is a Monday

\* The rows of each week that has some.
weeklyBuckets(rows) ==
    [w \in {isoWeek(rows[i].submitted) : i \in DOMAIN rows} |->
        Restrict(rows, {i \in DOMAIN rows : isoWeek(rows[i].submitted) = w})]

\* The last weeks that have attempts, at most lastN.
buildWeeklyScores(rows, lastN) ==
    LET b == weeklyBuckets(rows)
        kept == {w \in DOMAIN b : Cardinality({v \in DOMAIN b : v > w}) < lastN}
    IN {[week |-> w, score |-> MeanScore(b[w]), quizCount |-> Cardinality(DOMAIN b[w])] : w \in kept}

\* Mean of the later half against the mean of the earlier half: more than three points.
trendFor(scores) ==
    LET half == Len(scores) \div 2
        total(s) == FoldSeq(+, 0, s)
        older == total(SubSeq(scores, 1, half))
        recent == total(SubSeq(scores, half + 1, Len(scores)))
        lead == recent * half - older * (Len(scores) - half)
        margin == 30 * half * (Len(scores) - half)
    IN CASE Len(scores) < 2 -> "stable"
         [] lead > margin -> "improving"
         [] lead < -margin -> "declining"
         [] OTHER -> "stable"

\* The subjects of the attempts: the only quiz has one.
buildSubjectBreakdown(rows, order) ==
    IF DOMAIN rows = {} THEN {}
    ELSE {[subject |-> Subject, quizCount |-> Len(order), avgScore |-> MeanScore(rows),
           trend |-> trendFor([k \in DOMAIN order |-> rows[order[k]].score])]}

DaysOf(rows) == {rows[i].submitted : i \in DOMAIN rows}

\* Days with attempts since the cutoff.
buildRecentActivity(rows, now, days) ==
    LET on(d) == Restrict(rows, {i \in DOMAIN rows : rows[i].submitted = d}) IN
    {[date |-> d, quizCount |-> Cardinality(DOMAIN on(d)), avgScore |-> MeanScore(on(d))] :
       d \in {x \in DaysOf(rows) : x >= now - days}}

\* Days in a row that end today, or yesterday when today has none yet.
computeStreak(dates, now) ==
    LET run[d \in Int] == IF d \in dates THEN 1 + run[d - 1] ELSE 0 IN
    IF now \in dates THEN run[now] ELSE run[now - 1]

buildSummary(rows, now) ==
    LET b == weeklyBuckets(rows)
        weekScore(w) == IF w \in DOMAIN b THEN MeanScore(b[w]) ELSE 0
    IN [totalQuizzes |-> Cardinality(DOMAIN rows),
        averageScore |-> IF DOMAIN rows = {} THEN 0 ELSE MeanScore(rows),
        attempted |-> FoldFunction(+, 0, [i \in DOMAIN rows |-> rows[i].correct + rows[i].wrong + rows[i].skipped]),
        correct |-> FoldFunction(+, 0, [i \in DOMAIN rows |-> rows[i].correct]),
        thisWeek |-> weekScore(isoWeek(now)), lastWeek |-> weekScore(isoWeek(now - 7)),
        improvement |-> weekScore(isoWeek(now)) - weekScore(isoWeek(now - 7)),
        streak |-> computeStreak(DaysOf(rows), now)]

\* What it may return: the order of equal times decides the trend.
computeAnalytics(rows, now) ==
    {[summary |-> buildSummary(rows, now),
      subjects |-> buildSubjectBreakdown(rows, order),
      weekly |-> buildWeeklyScores(rows, 8),
      activity |-> buildRecentActivity(rows, now, 14)] : order \in RowOrders(rows)}

\* GET /users/me/analytics when there is no entry, or it could not be read: one query,
\* then a pause before the Set.
HandleGetAnalytics(c) ==
    /\ requests[c] = Idle
    /\ \E payload \in computeAnalytics(attemptRows, today) :
         Ask(c, [kind |-> "analytics", payload |-> payload, day |-> today,
                 read |-> Cardinality(Completed)])
    /\ UNCHANGED <<quizStatus, questions, lastID, attempts, cached, dropping, today, told, overlapped, lagging, quizBudget>>

\* The Set at the end of GetAnalytics overwrites whatever is there.
StoreAnalytics(c) ==
    LET r == requests[c] IN
    /\ r.kind = "analytics"
    /\ cached' = [kind |-> "entry", payload |-> r.payload, day |-> r.day]
    /\ lagging' = (r.read < Cardinality(Completed))
    /\ Reply(c)
    /\ UNCHANGED <<quizStatus, questions, lastID, attempts, dropping, today, told, overlapped, quizBudget>>

\* The goroutine that SubmitAttempt started; an error is only logged.
invalidateAnalytics ==
    /\ dropping > 0 /\ dropping' = dropping - 1
    /\ \/ cached' = None /\ lagging' = FALSE
       \/ UNCHANGED cached /\ lagging' = (lagging \/ cached # None)
    /\ UNCHANGED <<quizStatus, questions, lastID, attempts, requests, today, told, overlapped, quizBudget>>

\* Fifteen minutes after the Set.
EntryExpires ==
    /\ cached # None /\ cached' = None /\ lagging' = FALSE
    /\ UNCHANGED <<quizStatus, questions, lastID, attempts, requests, dropping, today, told, overlapped, quizBudget>>

\* An error of Postgres or Redis, a conflict of order_no between two saves, a
\* restart: the transaction is rolled back.
RequestFails(c) ==
    /\ requests[c] # Idle /\ Reply(c)
    /\ UNCHANGED <<quizStatus, questions, lastID, attempts, cached, dropping, today, told, overlapped, lagging, quizBudget>>

DayPasses ==
    /\ SpendQuiz("days") /\ today' = today + 1
    /\ UNCHANGED <<quizStatus, questions, lastID, attempts, requests, cached, dropping, told, overlapped, lagging>>

QuizInit ==
    /\ \/ quizStatus = "draft" /\ questions = Inserted(FirstDraft, 0) /\ quizBudget = DraftBudget
       \/ quizStatus = "published" /\ questions = Inserted(Generated, 0) /\ quizBudget \in QuizBudgets
    /\ lastID = Len(questions)
    /\ attempts = <<>> /\ requests = [c \in Clients |-> Idle]
    /\ cached = None /\ dropping = 0 /\ today = Start
    /\ told = <<>>
    /\ overlapped = FALSE /\ lagging = FALSE

\* A sheet answers some of the questions, each at most once with one of its options.
AnswersTo(q) == {[question |-> q.id, option |-> o] :
                 o \in {NoOption} \cup {Option(q.id, n) : n \in 0 .. q.options - 1}}
Sheets == SUBSET UNION {AnswersTo(questions[i]) : i \in DOMAIN questions}

QuizNext ==
    \/ \E c \in Clients :
         \/ \E draft \in Drafts : HandleSaveDraft(c, draft)
         \/ SaveDraft(c) \/ HandlePublishDraft(c) \/ ExplainQuestion(c) \/ PublishDraft(c)
         \/ HandleCreateAttempt(c, today)
         \/ CreateAttempt(c)
         \/ \E i \in DOMAIN attempts, answers \in Sheets, skew \in Skews :
              HandleSubmitAttempt(c, i, answers, today + skew)
         \/ HandleGetAnalytics(c) \/ StoreAnalytics(c) \/ RequestFails(c)
    \/ invalidateAnalytics \/ EntryExpires \/ DayPasses

(* ------------------------------ properties ------------------------------ *)

Results == [score : 0..1000, correct : Nat, wrong : Nat, skipped : Nat, total : Nat, time : Nat]
Marks == {"true", "false", "null"}
QuizTypeOK ==
    /\ quizStatus \in {"draft", "published"}
    /\ \A i \in DOMAIN questions :
         /\ questions[i].id \in 1..lastID /\ questions[i].options \in 2..6
         /\ questions[i].key \in NoKey .. questions[i].options - 1
    /\ \A i \in DOMAIN attempts :
         /\ attempts[i].status \in {"in_progress", "completed"} /\ attempts[i].score \in 0..1000
         /\ \A r \in attempts[i].rows : r.question \in 1..lastID /\ r.isCorrect \in Marks
    /\ \A c \in Clients : requests[c].kind \in {"idle", "save", "publish", "create", "analytics"}
    /\ cached.kind \in {"none", "entry"} /\ dropping \in Nat /\ today \in Nat
    /\ \A i \in DOMAIN told : told[i] \subseteq Results
    /\ {overlapped, lagging} \subseteq BOOLEAN

\* Whatever the clients send again and in whatever order, an attempt has one result:
\* every answer to a submission of it is the stored result ("It is idempotent",
\* SubmitAttempt), and its score is in the reports, "latest first", behind the attempts
\* that are newer.  Those with its time may stand before it or after it, from one page to
\* the next; nothing else moves it.
OneResult ==
    \A i \in DOMAIN attempts : told[i] # {} =>
        /\ told[i] = {loadResult(attempts[i])}
        /\ LET newer == {j \in Completed : attempts[j].submitted > attempts[i].submitted}
               tied == {j \in Completed : attempts[j].submitted = attempts[i].submitted}
           IN \A order \in RowOrders(attemptRows) :
                \E page \in Cardinality(newer) + 1 .. Cardinality(newer) + Cardinality(tied) :
                  [attempt |-> i, score |-> attempts[i].score] \in GetUserReports(page, 1, order).items

\* A student has at most one running attempt per client: only requests that look for
\* a running attempt at the same time can each start one.
AttemptsBounded == Cardinality(Running) <= Cardinality(Clients)

\* A published quiz is what was checked: every question has a key that is marked as
\* set, and a completed attempt is reviewed, and counted in the topic statistics,
\* as it was graded.  A save that began on a draft and ended during or after the
\* publication breaks this (SaveDraft checks the status outside its transaction),
\* so such behaviours are excluded.
PublishedIsStable ==
    (quizStatus = "published" /\ ~overlapped) =>
        /\ \A i \in DOMAIN questions : Keyed(questions[i]) /\ questions[i].answerStatus = "set"
        /\ \A i \in Completed :
             LET marked(m) == Cardinality({n \in DOMAIN questions : GetReview(attempts[i])[n] = m}) IN
             <<marked("correct"), marked("wrong"), marked("skipped")>>
               = <<attempts[i].correct, attempts[i].wrong, attempts[i].skipped>>
        /\ GetTopicAnalytics.total = buildSummary(attemptRows, today).attempted
        /\ GetTopicAnalytics.correct = buildSummary(attemptRows, today).correct

\* The dashboard of a student whose last submission has been invalidated shows all
\* completed attempts as of the day it was computed, with the longest run of days
\* as streak.  A computation that overlapped a submission, or an invalidation that
\* failed, leaves an older entry for up to fifteen minutes.
AnalyticsFresh ==
    (cached # None /\ dropping = 0 /\ ~lagging) =>
        LET dates == DaysOf(attemptRows)
            last == IF cached.day \in dates THEN cached.day ELSE cached.day - 1
        IN /\ cached.payload \in computeAnalytics(attemptRows, cached.day)
           /\ cached.payload.summary.streak =
                Max({n \in 0 .. Len(attempts) : (last - n + 1) .. last \subseteq dates})
===============================================================================
