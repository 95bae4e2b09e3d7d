------------------------------- MODULE Generation -------------------------------
(***************************************************************************)
(* How the questions of a scan come about: the worker asks its per-user    *)
(* limiter, then either the vision model, batch of pages by batch, or a    *)
(* text model with its fallback.  Every call may fail or answer anything;  *)
(* answers are parsed, validated, grounded in the page and merged.         *)
(***************************************************************************)
EXTENDS Integers, Sequences, FiniteSets, FiniteSetsExt, SequencesExt

CONSTANTS
    NImages,          \* page images of a job
    PagesPerBatch,    \* AI_VISION_PAGES_PER_BATCH, 3
    PerPage,          \* AI_VISION_QUESTIONS_PER_PAGE, 6
    MaxQuestions,     \* AI_VISION_MAX_QUESTIONS, 60
    MinQuestions,     \* AI_VISION_MIN_QUESTIONS, 1
    Mix,              \* questions a text quiz asks for in each mode
    HasFallback,      \* an OpenAI key beside the Gemini key
    ChapterTokens,    \* significant words of the chapter title
    GrammarTokens,    \* words that mark a grammar chapter
    OffTopicTokens,   \* knownOffTopicMarkers
    ModelReplies,     \* what a call may come back with
    MaxCalls,         \* rateLimitMaxCalls, 10
    Window,           \* rateLimitWindow, a minute
    GenerationBudget  \* bounds [scans, ticks : Nat]

ASSUME GenerationAssumption ==
    /\ {NImages, PagesPerBatch, PerPage, MaxQuestions, MinQuestions, MaxCalls, Window} \subseteq Nat \ {0}
    /\ \A mode \in {"chapter", "existing"} : Mix[mode] \in Nat \ {0}
    /\ \A reply \in ModelReplies :
         reply.questions \in Seq([text : STRING, type : STRING, options : Nat, index : Int,
                                 topic : Seq(STRING), words : SUBSET STRING])

VARIABLES
    scan,         \* the generation that runs, or the last one
    calls,        \* RateLimiter.calls of one user
    minute,
    admitted,     \* history: when a generation was admitted
    scanBudget

generationVars == <<scan, calls, minute, admitted, scanBudget>>

ClaimScan(k) == scanBudget[k] > 0 /\ scanBudget' = [scanBudget EXCEPT ![k] = @ - 1]

NewScan(path, mode) ==
    [path |-> path, mode |-> mode, start |-> 0, attempt |-> 0, provider |-> "gemini", round |-> 0,
     out |-> <<>>, readable |-> FALSE, asked |-> 0, result |-> "running"]

\* What a loop over a list keeps: the elements at the positions S, in their order.
Picked(list, S) ==
    [k \in 1 .. Cardinality(S) |-> list[CHOOSE n \in S : Cardinality({m \in S : m <= n}) = k]]

(* ------------------------------ validation ------------------------------ *)

Unknown == -1                    \* CorrectIndexUnknown
Extracts(mode) == mode = "existing"

LegalOptions(type) ==
    CASE type = "true_false" -> {2}
      [] type = "fill_blank" -> 2..4
      [] type \in {"mcq", ""} -> {4}
      [] OTHER -> {}

InRange(q) == q.index \in 0 .. q.options - 1

\* validateRawQuestion accepts it; an extracted question may come without its answer.
Valid(q, allowUnknown) ==
    q.text # "" /\ q.options \in LegalOptions(q.type) /\ (InRange(q) \/ allowUnknown)

Domain(q) == [q EXCEPT !.index = IF InRange(q) THEN @ ELSE Unknown,
                       !.type = IF @ = "" THEN "mcq" ELSE @]

Accepted(raw, allowUnknown) ==
    LET valid == Picked(raw, {i \in DOMAIN raw : Valid(raw[i], allowUnknown)}) IN
    [i \in DOMAIN valid |-> Domain(valid[i])]

\* parseAndValidate returns an error; want = 0 skips single invalid questions.
Rejected(raw, want, allowUnknown) ==
    LET n == Len(Accepted(raw, allowUnknown)) IN
    IF want > 0 THEN Len(raw) # want \/ n # want ELSE raw # <<>> /\ n = 0

\* The call comes back with a candidate: not a lost request, a status, an undecodable
\* body or an empty list.
Replied(reply) == reply.kind # "error"

\* The model says that it cannot read the page, and asks nothing.
visionResponseUnreadable(reply) == reply.kind = "unreadable"

\* parseProviderResponse returns an error.
Unparsable(reply, want, allowUnknown) ==
    reply.kind = "garbage" \/ Rejected(reply.questions, want, allowUnknown)

(* ------------------------------- grounding ------------------------------ *)

\* Words of title and summary, and words that the topics of the batch repeat.
buildAnchorTerms(questions, summary) ==
    LET at(t) == UNION {{<<i, k>> : k \in {n \in DOMAIN questions[i].topic : questions[i].topic[n] = t}} :
                          i \in DOMAIN questions}
        terms == UNION {ToSet(questions[i].topic) : i \in DOMAIN questions}
    IN ChapterTokens \cup summary \cup {t \in terms : Cardinality(at(t)) >= 2}

\* The words of text, topic, explanation and options.
questionBlob(q) == q.words \cup ToSet(q.topic)

isGrammarLikeChapter(summary) == (ChapterTokens \cup summary) \cap GrammarTokens # {}

Related(q, questions, summary) ==
    LET anchor == buildAnchorTerms(questions, summary) IN
    \/ anchor = {}
    \/ /\ questionBlob(q) \cap anchor # {}
       /\ ~(isGrammarLikeChapter(summary) /\ questionBlob(q) \cap OffTopicTokens # {})

FilterPageGroundedQuestions(questions, summary) ==
    Picked(questions, {i \in DOMAIN questions : Related(questions[i], questions, summary)})

(* -------------------------------- vision -------------------------------- *)

overallTarget == Max({1, Min({PerPage * NImages, MaxQuestions})})
batchMax == Min({PerPage * Min({PagesPerBatch, NImages - scan.start}), overallTarget - Len(scan.out)})
minCount == Min({MinQuestions, batchMax})

\* Mutant: only the questions of earlier batches are looked at for a text that came before.
MergedUnseen(out, questions) ==
    out \o Picked(questions, {n \in DOMAIN questions : \A i \in DOMAIN out : out[i].text # questions[n].text})

\* normalizeQuestionKey: a text that came before, from this batch or another, is left
\* out, and the loop ends when the target is reached.
Merged(out, questions) ==
    LET first(n) == \A m \in 1 .. n - 1 : questions[m].text # questions[n].text
        new == Picked(questions, {n \in DOMAIN questions :
                                    first(n) /\ \A i \in DOMAIN out : out[i].text # questions[n].text})
    IN out \o SubSeq(new, 1, Min({Len(new), overallTarget - Len(out)}))

\* What the loop leaves: no question and no readable batch counts as an unreadable page.
Verdict(s) ==
    CASE s.out # <<>> -> "done"
      [] ~s.readable -> "unreadable"
      [] OTHER -> "failed"

NextBatch(s) ==
    LET moved == [s EXCEPT !.start = @ + PagesPerBatch, !.attempt = 0] IN
    IF moved.start < NImages /\ Len(moved.out) < overallTarget THEN moved
    ELSE [moved EXCEPT !.result = Verdict(moved)]

\* The questions of a parsed answer: those that relate to the page, or all of them
\* when none does.
Grounded(reply) ==
    LET parsed == Accepted(reply.questions, Extracts(scan.mode))
        related == FilterPageGroundedQuestions(parsed, reply.summary)
        mark(list, is) == [i \in DOMAIN list |-> [q |-> list[i], related |-> is]]
    IN IF Extracts(scan.mode) \/ related # <<>> \/ parsed = <<>>
       THEN mark(IF Extracts(scan.mode) THEN parsed ELSE related, TRUE)
       ELSE mark(parsed, FALSE)

\* One call of generateBatch and what follows from its answer: the second attempt
\* takes what the first one would have refused as off-page or too few.
CallVision(reply) ==
    LET s == [scan EXCEPT !.asked = @ + 1]
        legible == Replied(reply) /\ ~visionResponseUnreadable(reply)
        bad == Unparsable(reply, 0, Extracts(scan.mode))
        got == Grounded(reply)
        unsure == Len(got) < minCount \/ \E i \in DOMAIN got : ~got[i].related
        taken == [i \in 1 .. Min({Len(got), batchMax}) |->
                    [text |-> got[i].q.text, type |-> got[i].q.type, options |-> got[i].q.options,
                     index |-> got[i].q.index, related |-> got[i].related, attempt |-> scan.attempt]]
    IN /\ scan.path = "vision" /\ scan.result = "running"
       /\ \/ ~legible /\ scan' = NextBatch(s)
          \/ legible /\ scan.attempt = 0 /\ (bad \/ unsure) /\ scan' = [s EXCEPT !.attempt = 1]
          \/ legible /\ scan.attempt = 1 /\ bad /\ scan' = NextBatch(s)
          \/ /\ legible /\ ~bad /\ (scan.attempt = 1 \/ ~unsure)
             /\ scan' = NextBatch([s EXCEPT !.readable = TRUE, !.out = Merged(@, taken)])
       /\ UNCHANGED <<calls, minute, admitted, scanBudget>>

(* --------------------------------- text --------------------------------- *)

\* Gemini hands over to OpenAI; the worker asks the whole chain twice.
ProviderFails(s) ==
    CASE s.provider = "gemini" /\ HasFallback -> [s EXCEPT !.provider = "openai", !.attempt = 0]
      [] s.round = 0 /\ ~(s.provider = "gemini" /\ HasFallback) ->
           [s EXCEPT !.provider = "gemini", !.attempt = 0, !.round = 1]
      [] OTHER -> [s EXCEPT !.result = "failed"]

\* One call of a text generator: an answer that does not parse is asked for once more.
CallGenerator(reply) ==
    LET s == [scan EXCEPT !.asked = @ + 1]
        bad == Unparsable(reply, Mix[scan.mode], FALSE)
        got == Accepted(reply.questions, FALSE)
    IN /\ scan.path = "text" /\ scan.result = "running"
       /\ \/ (~Replied(reply) \/ (bad /\ scan.attempt = 1)) /\ scan' = ProviderFails(s)
          \/ Replied(reply) /\ bad /\ scan.attempt = 0 /\ scan' = [s EXCEPT !.attempt = 1]
          \/ /\ Replied(reply) /\ ~bad
             /\ scan' = [s EXCEPT !.result = "done",
                         !.out = [i \in DOMAIN got |->
                                    [text |-> got[i].text, type |-> got[i].type, options |-> got[i].options,
                                     index |-> got[i].index, related |-> TRUE, attempt |-> scan.attempt]]]
       /\ UNCHANGED <<calls, minute, admitted, scanBudget>>

(* -------------------------------- limiter ------------------------------- *)

\* The calls of the last window.
Recent == Picked(calls, {i \in DOMAIN calls : calls[i] > minute - Window})

\* The worker asks Allow once per job; a refused job goes back to the queue.
Allow(path, mode) ==
    /\ scan.result # "running" /\ ClaimScan("scans")
    /\ \/ /\ Len(Recent) >= MaxCalls /\ calls' = Recent
          /\ scan' = [NewScan(path, mode) EXCEPT !.result = "requeued"]
          /\ UNCHANGED admitted
       \/ /\ Len(Recent) < MaxCalls /\ calls' = Append(Recent, minute)
          /\ scan' = NewScan(path, mode)
          /\ admitted' = Append(admitted, minute)
    /\ UNCHANGED minute

Minute ==
    /\ ClaimScan("ticks") /\ minute' = minute + 1
    /\ UNCHANGED <<scan, calls, admitted>>

GenerationInit ==
    /\ scan = [NewScan("vision", "chapter") EXCEPT !.result = "none"]
    /\ calls = <<>> /\ minute = 0 /\ admitted = <<>>
    /\ scanBudget = GenerationBudget

GenerationNext ==
    \/ \E path \in {"vision", "text"}, mode \in {"chapter", "existing"} : Allow(path, mode)
    \/ \E reply \in ModelReplies : CallVision(reply) \/ CallGenerator(reply)
    \/ Minute

(* ------------------------------ properties ------------------------------ *)

GenerationTypeOK ==
    /\ scan.path \in {"vision", "text"} /\ scan.mode \in {"chapter", "existing"}
    /\ scan.start \in 0 .. NImages + PagesPerBatch /\ {scan.attempt, scan.round} \subseteq 0..1
    /\ scan.provider \in {"gemini", "openai"} /\ scan.readable \in BOOLEAN
    /\ scan.result \in {"none", "running", "done", "failed", "unreadable", "requeued"}
    /\ minute \in Nat /\ \A i \in DOMAIN calls : calls[i] \in 0..minute

Batches == (NImages + PagesPerBatch - 1) \div PagesPerBatch

\* Whatever the models answer and however often they have to be asked, a quiz that
\* is saved can be played: legal options, a key unless it was read from a page of
\* printed questions, no question twice and no more than asked for in all batches
\* together; off-page questions only where the model insisted.  The number of calls
\* is bounded for a job, and generations of a user in every window.
GeneratedSound ==
    /\ scan.result = "done" =>
         /\ scan.out # <<>>
         /\ \A i \in DOMAIN scan.out :
              LET q == scan.out[i] IN
              /\ q.options \in LegalOptions(q.type) /\ q.text # ""
              /\ InRange(q) \/ (q.index = Unknown /\ scan.path = "vision" /\ Extracts(scan.mode))
              /\ ~q.related => q.attempt = 1 /\ ~Extracts(scan.mode)
         /\ scan.path = "text" => Len(scan.out) = Mix[scan.mode]
         /\ scan.path = "vision" =>
              /\ Len(scan.out) <= Min({PerPage * NImages, MaxQuestions})
              /\ \A i, j \in DOMAIN scan.out : scan.out[i].text = scan.out[j].text => i = j
    /\ scan.asked <= IF scan.path = "vision" THEN 2 * Batches ELSE IF HasFallback THEN 8 ELSE 4
    /\ \A i \in DOMAIN admitted :
         Cardinality({j \in 1..i : admitted[j] > admitted[i] - Window}) <= MaxCalls
===============================================================================
