------------------------------- MODULE Practice --------------------------------
(***************************************************************************)
(* The career goals of one student: selecting a goal, the daily practice   *)
(* set with its adaptive choice of questions, skill gaps, and the weekly   *)
(* set and score that follow a submission.  Requests of several devices    *)
(* interleave between transactions.  Times are days; day 0 is a Sunday.    *)
(***************************************************************************)
EXTENDS Integers, Sequences, FiniteSets, FiniteSetsExt

CONSTANTS
    Devices,       \* devices of the student: one request each at a time
    Goals,         \* career goals that can be selected
    SubjectsOf,    \* subject areas of each goal; none means all subjects
    Questions,     \* active questions: [topic, subject], or NoTopic without a chapter
    Topic,         \* [Questions -> topic]
    SubjectOf,     \* [Questions -> subject]
    Drafted,       \* questions of a draft that a reviewer may still replace
    Wrong,         \* questions answered wrong in quiz attempts of the last week
    DailyTotal,    \* DefaultDailyQuestions, 20
    WeeklyTotal,   \* DefaultWeeklyQuestions, 40
    ReviewCap,     \* weeklyReviewCap, 10
    WeakTopicLimit,\* weakTopicLimit, 5
    SeenDays,      \* 7, for recently seen questions
    WeekDays,      \* 7
    Bucket,        \* hash of student and flag, 0..99
    Override,      \* the student's override of the flag: "on", "off" or "none"
    Starts         \* gaps the student has and bounds: [gaps, budget], where budget
                   \* is [selects, sets, days, flags, deletes : Nat]

NoTopic == "no topic"
NoSubject == "no subject"

ASSUME PracticeAssumption ==
    /\ Topic \in [Questions -> STRING] /\ SubjectOf \in [Questions -> STRING]
    /\ Drafted \subseteq Questions /\ Wrong \subseteq Questions
    /\ {DailyTotal, WeeklyTotal, WeekDays} \subseteq Nat \ {0}
    /\ IsFiniteSet(Devices) /\ IsFiniteSet(Questions)
    /\ SeenDays \in Nat /\ Bucket \in 0..99
    /\ \A start \in Starts :
         /\ start.gaps \subseteq [topic : STRING, subject : STRING, weakness : 0..100]
         /\ \A g, h \in start.gaps : g.topic = h.topic /\ g.subject = h.subject => g = h

VARIABLES
    flag,        \* the feature flag career_goals_module: [enabled, rollout]
    goals,       \* student_goals in creation order: [goal, status]
    sets,        \* daily_practice_sets in creation order, with their questions
    weekly,      \* weekly_goal_sets: [goal, week, questions]
    history,     \* weekly_score_history of all goals: [goal, week, score]
    gaps,        \* skill_gaps: [topic, subject, weakness]
    pool,        \* questions that exist
    device,      \* the request of each device
    day,
    clash,       \* history: the last selection overlapped another one
    moves,       \* history: the sets whose submission moved the gaps, in order
    scores,      \* history: scores told for each set
    practiceBudget

practiceVars == <<flag, goals, sets, weekly, history, gaps, pool, device, day, clash,
                  moves, scores, practiceBudget>>

AtRestNow == [pc |-> "rest"]
Resting(d) == device[d] = AtRestNow
Wait(d, r) == device' = [device EXCEPT ![d] = r]
Answered(d) == device' = [device EXCEPT ![d] = AtRestNow]
Use(k) ==
    /\ practiceBudget[k] > 0
    /\ practiceBudget' = [practiceBudget EXCEPT ![k] = @ - 1]

(* ----------------------------- feature flag ----------------------------- *)

\* The same student is always in the same bucket.
inRollout(percentage) == Bucket < percentage

\* An override wins; then the flag itself; then the rollout.
ResolveForUser ==
    IF Override # "none" THEN Override = "on"
    ELSE flag.enabled /\ inRollout(flag.rollout)

\* RequireCareerGoalsFlag, before every handler of the module.
RequireCareerGoalsFlag == ResolveForUser

\* PUT of the flag by an administrator.
AdminSetFlag(enabled, rollout) ==
    /\ Use("flags") /\ flag' = [enabled |-> enabled, rollout |-> rollout]
    /\ UNCHANGED <<goals, sets, weekly, history, gaps, pool, device, day, clash, moves, scores>>

(* --------------------------------- goals -------------------------------- *)

Active == {i \in DOMAIN goals : goals[i].status = "active"}

\* The active goal that was created last.
activeGoal == Max(Active)

\* POST /goals/select: the goal exists; the transaction follows.
HandleSelectGoal(d, g) ==
    /\ Resting(d) /\ RequireCareerGoalsFlag
    /\ Use("selects") /\ Wait(d, [pc |-> "select", goal |-> g])
    /\ UNCHANGED <<flag, goals, sets, weekly, history, gaps, pool, day, clash, moves, scores>>

\* Mutant: the old goals stay active.
AbandonedNone(S) == goals

Abandoned(S) == [i \in DOMAIN goals |-> IF i \in S THEN [goals[i] EXCEPT !.status = "abandoned"] ELSE goals[i]]

\* Activate g among the goals of list: its row, or a new one at the end.
Activated(list, g) ==
    IF \E i \in DOMAIN list : list[i].goal = g
    THEN [i \in DOMAIN list |-> IF list[i].goal = g THEN [list[i] EXCEPT !.status = "active"] ELSE list[i]]
    ELSE Append(list, [goal |-> g, status |-> "active"])

\* Abandon the active goals that a first statement sees, then activate the chosen
\* one.  A row that another selection activates between the two is not abandoned.
AbandonActive(d) ==
    /\ device[d].pc = "select"
    /\ Wait(d, [pc |-> "activate", goal |-> device[d].goal, seen |-> Active, alone |-> TRUE])
    /\ UNCHANGED <<flag, goals, sets, weekly, history, gaps, pool, day, clash, moves, scores, practiceBudget>>

SelectGoal(d) ==
    /\ device[d].pc = "activate"
    /\ goals' = Activated(Abandoned(device[d].seen), device[d].goal)
    /\ clash' = ~device[d].alone
    /\ device' = [e \in Devices |->
          IF e = d THEN AtRestNow
          ELSE IF device[e].pc = "activate" THEN [device[e] EXCEPT !.alone = FALSE] ELSE device[e]]
    /\ UNCHANGED <<flag, sets, weekly, history, gaps, pool, day, moves, scores, practiceBudget>>

\* DELETE /goals/my.
AbandonGoal(d) ==
    /\ Resting(d) /\ RequireCareerGoalsFlag /\ Active # {}
    /\ Use("selects") /\ goals' = Abandoned(Active)
    /\ UNCHANGED <<flag, sets, weekly, history, gaps, pool, device, day, clash, moves, scores>>

(* --------------------------- choosing questions ------------------------- *)

WeakRows == {g \in gaps : g.weakness > 0}

\* The weakest topics first, in any order among equals; the first few names.
weakTopics(limit) ==
    LET n == Cardinality(WeakRows) IN
    {[i \in 1 .. Min({n, limit}) |-> s[i].topic] :
       s \in {f \in [1..n -> WeakRows] :
                \A i, j \in 1..n : i < j => f[i] # f[j] /\ f[i].weakness >= f[j].weakness}}

allocateWeak(total) == (3 * total) \div 5      \* DefaultWeakTopicRatio 0.6

\* As even as possible, what is left over to the weakest topics.
perTopicAllocation(weakCount, n) ==
    [i \in 1..n |-> weakCount \div n + IF i <= weakCount % n THEN 1 ELSE 0]

\* Any limit of the candidates, or all when there are fewer (ORDER BY random() LIMIT).
AnyOf(candidates, limit) == kSubset(Min({limit, Cardinality(candidates)}), candidates)

\* By the name of the topic alone, whatever its subject.
selectByTopic(topic, exclude, limit) == AnyOf({q \in pool : Topic[q] = topic} \ exclude, limit)

selectOther(subjects, exclude, limit) ==
    AnyOf({q \in pool : subjects = {} \/ SubjectOf[q] \in subjects} \ exclude, limit)

\* Every set that SelectForDaily can return for this order of weak topics: a part for
\* each topic, without the parts before it, and the rest from all topics.
SelectForDaily(total, exclude, subjects, weak) ==
    LET n == Len(weak)
        alloc == perTopicAllocation(allocateWeak(total), n)
        before(part, i) == UNION {part[j] : j \in 1 .. i - 1}
        parts == {part \in [1..n -> SUBSET pool] :
                    \A i \in 1..n : part[i] \in selectByTopic(weak[i], exclude \cup before(part, i), alloc[i])}
        chosen == {UNION {part[i] : i \in 1..n} : part \in parts}
    IN UNION {{s \cup more : more \in selectOther(subjects, exclude \cup s, total - Cardinality(s))} :
                s \in chosen}

\* Questions answered wrong in the last week lead, as many as the cap allows.
reviews == AnyOf(Wrong \cap pool, ReviewCap)

\* Every set that SelectForWeekly can return.
SelectForWeekly(subjects, weak) ==
    UNION {IF Cardinality(r) >= WeeklyTotal THEN AnyOf(r, WeeklyTotal)
           ELSE {r \cup fill : fill \in SelectForDaily(WeeklyTotal - Cardinality(r), r, subjects, weak)} :
             r \in reviews}

\* Mutant: the sets of today are not asked for.
GetSeenBeforeToday(edge) ==
    UNION {sets[i].questions : i \in {k \in DOMAIN sets : sets[k].created < day}}

\* Questions of the daily sets created in the last SeenDays times 24 hours; a set
\* created exactly that many days ago is in or out with the time of day.
GetRecentlySeenIDs(edge) ==
    UNION {sets[i].questions : i \in {k \in DOMAIN sets :
             day - sets[k].created < SeenDays \/ (edge /\ day - sets[k].created = SeenDays)}}

(* ------------------------------- daily sets ----------------------------- *)

Daily(g, date) == {i \in DOMAIN sets : sets[i].goal = g /\ sets[i].date = date}

\* GET /goals/my/practice/today without a set of today: the active goal was read.
GetTodayPractice(d) ==
    /\ Resting(d) /\ RequireCareerGoalsFlag /\ Active # {}
    /\ Daily(activeGoal, day) = {}
    /\ Wait(d, [pc |-> "generate", goal |-> activeGoal, date |-> day])
    /\ UNCHANGED <<flag, goals, sets, weekly, history, gaps, pool, day, clash, moves, scores, practiceBudget>>

SubjectsFor(g) == SubjectsOf[goals[g].goal]

\* The reads of generateDailySet, taken together: what was seen, the choice, the focus.
ChooseDailySet(d) ==
    LET r == device[d] IN
    /\ r.pc = "generate"
    /\ \E edge \in BOOLEAN, weak \in weakTopics(WeakTopicLimit) :
         \E picked \in SelectForDaily(DailyTotal, GetRecentlySeenIDs(edge), SubjectsFor(r.goal), weak) :
            Wait(d, [pc |-> "insert", goal |-> r.goal, date |-> r.date, picked |-> picked,
                     focus |-> {Topic[q] : q \in picked} \cap {g.topic : g \in WeakRows},
                     before |-> Len(sets)])
    /\ UNCHANGED <<flag, goals, sets, weekly, history, gaps, pool, day, clash, moves, scores, practiceBudget>>

\* The transaction of generateDailySet.  The loser of a race returns the set of the
\* winner; a question that was deleted meanwhile fails the insert.
generateDailySet(d) ==
    LET r == device[d] IN
    /\ r.pc = "insert" /\ Answered(d)
    /\ \/ /\ Daily(r.goal, r.date) = {} /\ r.picked \subseteq pool
          /\ Use("sets")
          /\ sets' = Append(sets, [goal |-> r.goal, date |-> r.date, created |-> day, status |-> "pending",
                                   score |-> 0, questions |-> r.picked, focus |-> r.focus,
                                   before |-> r.before])
          /\ scores' = Append(scores, {})
       \/ /\ Daily(r.goal, r.date) # {} \/ ~(r.picked \subseteq pool)
          /\ UNCHANGED <<sets, scores, practiceBudget>>
    /\ UNCHANGED <<flag, goals, weekly, history, gaps, pool, day, clash, moves>>

(* ------------------------------ submissions ----------------------------- *)

\* In tenths of a percent.
scorePct(correct, total) == IF total <= 0 THEN 0 ELSE (2000 * correct + total) \div (2 * total)

Key(q) == [topic |-> Topic[q], subject |-> SubjectOf[q]]
KeyOf(g) == [topic |-> g.topic, subject |-> g.subject]

\* The score of each subject and topic of a set; questions without a topic are left out.
topicScores(asked, right) ==
    [k \in {Key(q) : q \in {x \in asked : Topic[x] # NoTopic}} |->
       LET of == {q \in asked : Key(q) = k} IN scorePct(Cardinality(of \cap right), Cardinality(of))]

\* Mutant: no upper limit.
MovedUncapped(weakness, score) ==
    CASE score < 600 -> weakness + 10
      [] score > 800 -> Max({weakness - 15, 0})
      [] OTHER -> weakness

\* An existing row moves within 0..100; a new row starts at 10 or 0.
Moved(weakness, score) ==
    CASE score < 600 -> Min({weakness + 10, 100})
      [] score > 800 -> Max({weakness - 15, 0})
      [] OTHER -> weakness
Seed(score) == IF score < 600 THEN 10 ELSE 0

UpdateSkillGaps(rows, result) ==
    LET touched == {g \in rows : KeyOf(g) \in DOMAIN result} IN
    (rows \ touched)
      \cup {[g EXCEPT !.weakness = Moved(@, result[KeyOf(g)])] : g \in touched}
      \cup {[topic |-> k.topic, subject |-> k.subject, weakness |-> Seed(result[k])] :
              k \in DOMAIN result \ {KeyOf(g) : g \in rows}}

\* Mutant: a completed set is processed again.
SubmitPracticeAgain(d, i, right) ==
    LET s == sets[i]
        score == scorePct(Cardinality(right), Cardinality(s.questions)) IN
    /\ sets' = [sets EXCEPT ![i].status = "completed", ![i].score = score]
    /\ gaps' = UpdateSkillGaps(gaps, topicScores(s.questions, right))
    /\ scores' = [scores EXCEPT ![i] = @ \cup {score}]
    /\ moves' = Append(moves, i)
    /\ Wait(d, [pc |-> "week", goal |-> s.goal])

\* The transaction that holds the row of the set.
SubmitPractice(d, i, right) ==
    LET s == sets[i]
        score == scorePct(Cardinality(right), Cardinality(s.questions)) IN
    \/ /\ s.status = "completed"
       /\ scores' = [scores EXCEPT ![i] = @ \cup {s.score}]
       /\ UNCHANGED <<sets, gaps, moves, device>>
    \/ /\ s.status = "pending"
       /\ sets' = [sets EXCEPT ![i].status = "completed", ![i].score = score]
       /\ gaps' = UpdateSkillGaps(gaps, topicScores(s.questions, right))
       /\ scores' = [scores EXCEPT ![i] = @ \cup {score}]
       /\ moves' = Append(moves, i)
       /\ Wait(d, [pc |-> "week", goal |-> s.goal])

\* POST /goals/my/practice/{setId}/submit with these questions answered right.
HandleSubmitPractice(d, i, right) ==
    /\ Resting(d) /\ RequireCareerGoalsFlag /\ i \in DOMAIN sets
    /\ SubmitPractice(d, i, right)
    /\ UNCHANGED <<flag, goals, weekly, history, pool, day, clash, practiceBudget>>

(* ------------------------------ weekly goals ---------------------------- *)

weekBounds(date) == date \div WeekDays      \* the week, Sunday to Saturday, that date is in

WeeklySet(g, week) == {w \in weekly : w.goal = g /\ w.week = week}

\* UpdateWeeklyGoal after the commit, for the week of now: look for its set, or
\* choose the questions of a new one.
ReadWeek(d) ==
    LET g == device[d].goal
        week == weekBounds(day) IN
    /\ device[d].pc = "week"
    /\ \/ /\ WeeklySet(g, week) # {} /\ Wait(d, [pc |-> "progress", goal |-> g, week |-> week])
       \/ /\ WeeklySet(g, week) = {}
          /\ \E weak \in weakTopics(WeakTopicLimit) :
               \E picked \in SelectForWeekly(SubjectsFor(g), weak) :
                 Wait(d, [pc |-> "insertWeek", goal |-> g, week |-> week, picked |-> picked])
    /\ UNCHANGED <<flag, goals, sets, weekly, history, gaps, pool, day, clash, moves, scores, practiceBudget>>

\* The transaction of ensureWeeklySet; the loser of a race goes on with the winner's set.
ensureWeeklySet(d) ==
    LET r == device[d]
        goOn == Wait(d, [pc |-> "progress", goal |-> r.goal, week |-> r.week]) IN
    /\ r.pc = "insertWeek"
    /\ \/ WeeklySet(r.goal, r.week) # {} /\ UNCHANGED weekly /\ goOn
       \/ /\ WeeklySet(r.goal, r.week) = {} /\ r.picked \subseteq pool
          /\ weekly' = weekly \cup {[goal |-> r.goal, week |-> r.week, questions |-> r.picked]}
          /\ goOn
       \/ ~(r.picked \subseteq pool) /\ UNCHANGED weekly /\ Answered(d)
    /\ UNCHANGED <<flag, goals, sets, history, gaps, pool, day, clash, moves, scores, practiceBudget>>

DoneIn(g, week) ==
    {i \in DOMAIN sets : sets[i].goal = g /\ sets[i].status = "completed" /\ weekBounds(sets[i].date) = week}

\* Rounded half up.
MeanOf(score) ==
    LET n == Cardinality(DOMAIN score) IN (2 * MapThenSumSet(LAMBDA i : score[i], DOMAIN score) + n) \div (2 * n)
WeekMean(S) == MeanOf([i \in S |-> sets[i].score])

\* Go on only when every day of the week has a completed set.
weekProgress(d) ==
    LET r == device[d]
        done == DoneIn(r.goal, r.week) IN
    /\ r.pc = "progress"
    /\ IF Cardinality({sets[i].date : i \in done}) < WeekDays THEN Answered(d)
       ELSE Wait(d, [pc |-> "append", goal |-> r.goal, week |-> r.week, score |-> WeekMean(done)])
    /\ UNCHANGED <<flag, goals, sets, weekly, history, gaps, pool, day, clash, moves, scores, practiceBudget>>

\* Unless the week is already recorded.
appendWeeklyScore(d) ==
    LET r == device[d] IN
    /\ r.pc = "append" /\ Answered(d)
    /\ history' = IF \E h \in history : h.goal = r.goal /\ h.week = r.week THEN history
                  ELSE history \cup {[goal |-> r.goal, week |-> r.week, score |-> r.score]}
    /\ UNCHANGED <<flag, goals, sets, weekly, gaps, pool, day, clash, moves, scores, practiceBudget>>

(* ------------------------------- progress ------------------------------- *)

\* Days in a row with a completed set, if the last is today or yesterday.
loadStreak(g) ==
    LET dates == {sets[i].date : i \in {k \in DOMAIN sets : sets[k].goal = g /\ sets[k].status = "completed"}}
        run[date \in Int] == IF date \in dates THEN 1 + run[date - 1] ELSE 0
    IN IF dates = {} \/ day - Max(dates) > 1 THEN 0 ELSE run[Max(dates)]

loadProgress(g) ==
    LET mine == {i \in DOMAIN sets : sets[i].goal = g}
        done == {i \in mine : sets[i].status = "completed"}
        now == Daily(g, day)
    IN [total |-> Cardinality(mine), completed |-> Cardinality(done),
        today |-> IF now = {} THEN "none" ELSE sets[Min(now)].status,
        streak |-> loadStreak(g)]

(* ----------------------------- surroundings ----------------------------- *)

\* SaveDraft of the quiz deletes its questions: they leave every set by cascade.
DraftReplaced ==
    /\ Use("deletes") /\ pool' = pool \ Drafted
    /\ sets' = [i \in DOMAIN sets |-> [sets[i] EXCEPT !.questions = @ \ Drafted]]
    /\ weekly' = {[w EXCEPT !.questions = @ \ Drafted] : w \in weekly}
    /\ UNCHANGED <<flag, goals, history, gaps, device, day, clash, moves, scores>>

\* An error of Postgres or a restart; after the commit of a submission the weekly
\* update is lost for good, since the submission is not processed again.
PracticeFails(d) ==
    /\ ~Resting(d) /\ Answered(d)
    /\ UNCHANGED <<flag, goals, sets, weekly, history, gaps, pool, day, clash, moves, scores, practiceBudget>>

NextDay ==
    /\ Use("days") /\ day' = day + 1
    /\ UNCHANGED <<flag, goals, sets, weekly, history, gaps, pool, device, clash, moves, scores>>

PracticeInit ==
    /\ flag = [enabled |-> TRUE, rollout |-> 100]
    /\ goals = <<>> /\ sets = <<>> /\ weekly = {} /\ history = {}
    /\ pool = Questions /\ device = [d \in Devices |-> AtRestNow] /\ day = 0 /\ clash = FALSE
    /\ moves = <<>> /\ scores = <<>>
    /\ \E start \in Starts : gaps = start.gaps /\ practiceBudget = start.budget

PracticeNext ==
    \/ \E d \in Devices :
         \/ \E g \in Goals : HandleSelectGoal(d, g)
         \/ AbandonActive(d) \/ SelectGoal(d) \/ AbandonGoal(d)
         \/ GetTodayPractice(d) \/ ChooseDailySet(d) \/ generateDailySet(d)
         \/ \E i \in DOMAIN sets : \E right \in SUBSET sets[i].questions : HandleSubmitPractice(d, i, right)
         \/ ReadWeek(d) \/ ensureWeeklySet(d) \/ weekProgress(d) \/ appendWeeklyScore(d)
         \/ PracticeFails(d)
    \/ DraftReplaced \/ NextDay
    \/ \E enabled \in BOOLEAN, rollout \in {Bucket, Bucket + 1} : AdminSetFlag(enabled, rollout)

(* ------------------------------ properties ------------------------------ *)

PracticeTypeOK ==
    /\ flag \in [enabled : BOOLEAN, rollout : 0..100]
    /\ \A i \in DOMAIN goals : goals[i].goal \in Goals /\ goals[i].status \in {"active", "abandoned"}
    /\ \A i \in DOMAIN sets :
         /\ sets[i].goal \in DOMAIN goals /\ sets[i].status \in {"pending", "completed"}
         /\ sets[i].score \in 0..1000 /\ sets[i].questions \subseteq pool
    /\ \A w \in weekly : w.goal \in DOMAIN goals /\ w.questions \subseteq pool
    /\ \A h \in history : h.score \in 0..1000
    /\ \A g \in gaps : g.weakness \in 0..100
    /\ day \in Nat /\ clash \in BOOLEAN

\* A student has one active goal, whatever was selected and abandoned before, except
\* that selections which overlap can each leave one.
GoalsBounded ==
    /\ Cardinality(Active) <= Cardinality(Devices)
    /\ ~clash => Cardinality(Active) <= 1

\* However often and from wherever a daily set is submitted, it counts once: one
\* score is told, each skill gap moves once per set, and a week gets one score, of
\* a week in which every day has a completed set.
CountedOnce ==
    /\ \A i, j \in DOMAIN moves : moves[i] = moves[j] => i = j
    /\ {moves[i] : i \in DOMAIN moves} = {i \in DOMAIN sets : sets[i].status = "completed"}
    /\ \A i \in DOMAIN sets : scores[i] # {} => scores[i] = {sets[i].score}
    /\ \A g, h \in gaps : KeyOf(g) = KeyOf(h) => g = h
    /\ \A h, k \in history : h.goal = k.goal /\ h.week = k.week => h = k
    /\ \A h \in history : Cardinality(DoneIn(h.goal, h.week)) = WeekDays
                             /\ h.score = WeekMean(DoneIn(h.goal, h.week))
    /\ \A g \in DOMAIN goals :
            loadProgress(g).streak <= loadProgress(g).completed
            /\ loadProgress(g).completed = Cardinality({i \in DOMAIN moves : sets[moves[i]].goal = g})

\* A goal has one set a day, and no question of a set was served in a set of the
\* days before it, unless that set was created while the later one was being chosen.
SetSound ==
    /\ \A i, j \in DOMAIN sets :
         sets[i].goal = sets[j].goal /\ sets[i].date = sets[j].date => i = j
    /\ \A j \in DOMAIN sets :
         /\ Cardinality(sets[j].questions) <= DailyTotal
         /\ \A i \in 1 .. sets[j].before :
              sets[j].created - sets[i].created < SeenDays
                => sets[i].questions \cap sets[j].questions = {}
===============================================================================
