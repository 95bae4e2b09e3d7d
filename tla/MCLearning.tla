------------------------------ MODULE MCLearning -------------------------------
(***************************************************************************)
(* Instance of the parts a quiz passes through: its generation, the cache, *)
(* the phone that waits for it, its attempts and dashboard, and the career *)
(* goals with daily practice.  A behaviour is one of the five; what one    *)
(* does to another is an action of the other (DraftReplaced, StoreRow,     *)
(* ServerEnds) or a constant (Wrong).                                      *)
(***************************************************************************)
EXTENDS Quizzes, Practice, Generation, ContentCache, PhoneUploads, TLC

CONSTANTS phone, tablet, q1, q2, q3

Blank(type, filled, key) ==
    [text |-> TRUE, type |-> type, options |-> filled, correctIndex |-> key, explained |-> FALSE]
MCFirstDraft == <<Blank("true_false", <<TRUE, TRUE>>, -1)>>
MCGenerated == <<Blank("true_false", <<TRUE, TRUE>>, 0)>>
\* One question; one whose blank option is dropped and takes the key with it; two
\* questions; one that is refused.
MCDrafts == {<<Blank("true_false", <<TRUE, TRUE>>, 0)>>,
             <<Blank("mcq", <<TRUE, FALSE, TRUE>>, 2)>>,
             <<Blank("true_false", <<TRUE, TRUE>>, 0), Blank("fill_blank", <<TRUE, TRUE>>, 1)>>,
             <<Blank("true_false", <<TRUE, FALSE>>, 0)>>}
MCDraftBudget == [saves |-> 2, attempts |-> 1, days |-> 0]
MCQuizBudgets == {[saves |-> 0, attempts |-> 3, days |-> 0], [saves |-> 0, attempts |-> 2, days |-> 1]}

MCTopic == q1 :> "motion" @@ q2 :> "heat" @@ q3 :> NoTopic
MCSubjectOf == q1 :> "physics" @@ q2 :> "chemistry" @@ q3 :> NoSubject
MCSubjectsOf == "jee" :> {"physics"} @@ "ssc" :> {}
Gap(weakness) == [topic |-> "motion", subject |-> "physics", weakness |-> weakness]
Bounds(selects, dailySets, days, flags, deletes) ==
    [selects |-> selects, sets |-> dailySets, days |-> days, flags |-> flags, deletes |-> deletes]
\* Selections that overlap; a week of one goal; two goals on a day; a draft replaced.
Selecting == [gaps |-> {}, budget |-> Bounds(3, 0, 0, 1, 0)]
MCStarts == {Selecting,
             [gaps |-> {Gap(95)}, budget |-> Bounds(1, 2, 1, 0, 0)],
             [gaps |-> {}, budget |-> Bounds(2, 2, 0, 0, 0)],
             [gaps |-> {Gap(10)}, budget |-> Bounds(1, 1, 0, 0, 1)]}

MCMix == [chapter |-> 2, existing |-> 1]
Raw(text, type, options, index, topic, words) ==
    [text |-> text, type |-> type, options |-> options, index |-> index, topic |-> topic, words |-> words]
List(list, summary) == [kind |-> "list", questions |-> list, summary |-> summary]
NoList(kind) == [kind |-> kind, questions |-> <<>>, summary |-> {}]
OnPage == Raw("a", "mcq", 4, 1, <<"cell">>, {})
NoType == Raw("b", "", 4, 0, <<"wall">>, {"cell"})
OffPage == Raw("c", "true_false", 2, 1, <<"comet">>, {})
Unkeyed == Raw("d", "fill_blank", 3, 3, <<"cell">>, {})
Short == Raw("e", "mcq", 3, 0, <<"cell">>, {})
Mixed == Raw("f", "true_false", 2, 0, <<"noun">>, {"photosynthesis"})
MCReplies ==
    {NoList("error"), NoList("unreadable"), NoList("garbage"),
     List(<<OnPage>>, {}), List(<<OnPage, NoType>>, {}), List(<<OnPage, OnPage, Unkeyed>>, {}),
     List(<<OffPage>>, {}), List(<<Short, OffPage, OnPage>>, {}), List(<<Mixed>>, {"noun"}),
     List(<<Short, Unkeyed>>, {}), List(<<>>, {})}
MCGenerationBudget == [scans |-> 3, ticks |-> 2]
MCCacheBudget == [quizzes |-> 2, invalidations |-> 1, ticks |-> 2, fails |-> 1, restarts |-> 1]

\* Two uploads, or one and its retry, when a job fails; an upload that fails, is retried
\* with another form when the phone is online again and removed, and a kill; two and a
\* kill; an upload of one page that fails, and two handlers that retry it.
PhoneBounds(starts, others, refusals, kills) ==
    [starts |-> starts, edits |-> others, reconnects |-> others, removes |-> others, drops |-> others,
     refusals |-> refusals, kills |-> kills]
MCRolls == {<<"first", "second">>, <<"other">>}
MCPhoneBudgets == {PhoneBounds(2, 0, 1, 0), PhoneBounds(1, 1, 0, 1), PhoneBounds(2, 0, 0, 1),
                   [PhoneBounds(1, 0, 0, 0) EXCEPT !["drops"] = 1, !["reconnects"] = 2]}

Init ==
    /\ QuizInit /\ PracticeInit /\ GenerationInit /\ CacheInit /\ PhoneInit
    /\ Len(screen.draft) = IF phoneBudget["reconnects"] > 1 THEN 1 ELSE 2
QuizAtRest == quizBudget = DraftBudget /\ QuizInit /\ UNCHANGED quizVars
PracticeAtRest == practiceBudget = Selecting.budget /\ PracticeInit /\ UNCHANGED practiceVars
GenerationAtRest == GenerationInit /\ UNCHANGED generationVars
CacheAtRest == CacheInit /\ UNCHANGED cacheVars
PhoneAtRest == phoneBudget = PhoneBounds(2, 0, 1, 0) /\ PhoneInit /\ UNCHANGED phoneVars
LearningNext ==
    \/ PhoneAtRest /\ PracticeAtRest /\ GenerationAtRest /\ CacheAtRest /\ QuizNext
    \/ PhoneAtRest /\ QuizAtRest /\ GenerationAtRest /\ CacheAtRest /\ PracticeNext
    \/ PhoneAtRest /\ QuizAtRest /\ PracticeAtRest /\ CacheAtRest /\ GenerationNext
    \/ PhoneAtRest /\ QuizAtRest /\ PracticeAtRest /\ GenerationAtRest /\ CacheNext
    \/ QuizAtRest /\ PracticeAtRest /\ GenerationAtRest /\ CacheAtRest /\ PhoneNext
LearningSpec ==
    Init /\ [][LearningNext]_<<quizVars, practiceVars, generationVars, cacheVars, phoneVars>>

\* The clients, devices and slots are interchangeable; no property is temporal.
Symmetric == Permutations({phone, tablet})

\* Type invariant of all parts.
TypeOK == QuizTypeOK /\ PracticeTypeOK /\ GenerationTypeOK /\ CacheTypeOK /\ PhoneTypeOK

\* One attempt of a quiz is in progress and one goal is active, except for as many
\* more as there were requests that overlapped.
OneAtATime == AttemptsBounded /\ GoalsBounded
===============================================================================
