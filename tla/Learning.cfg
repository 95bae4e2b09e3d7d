SPECIFICATION LearningSpec
CONSTANTS
    phone = phone
    tablet = tablet
    q1 = q1
    q2 = q2
    q3 = q3
    Clients = {phone, tablet}
    FirstDraft <- MCFirstDraft
    Generated <- MCGenerated
    Drafts <- MCDrafts
    Subject = "physics"
    Explains = TRUE
    Skews = {0}
    Start = 14
    DraftBudget <- MCDraftBudget
    QuizBudgets <- MCQuizBudgets
    Devices = {phone, tablet}
    Goals = {"jee", "ssc"}
    SubjectsOf <- MCSubjectsOf
    Questions = {q1, q2, q3}
    Topic <- MCTopic
    SubjectOf <- MCSubjectOf
    Drafted = {q3}
    Wrong = {q3}
    DailyTotal = 2
    WeeklyTotal = 1
    ReviewCap = 1
    WeakTopicLimit = 1
    SeenDays = 1
    WeekDays = 2
    Bucket = 40
    Override = "none"
    Starts <- MCStarts
    NImages = 3
    PagesPerBatch = 2
    PerPage = 2
    MaxQuestions = 3
    MinQuestions = 1
    Mix <- MCMix
    HasFallback = TRUE
    ChapterTokens = {"cell"}
    GrammarTokens = {"noun"}
    OffTopicTokens = {"photosynthesis"}
    ModelReplies <- MCReplies
    MaxCalls = 2
    Window = 2
    GenerationBudget <- MCGenerationBudget
    Readers = {phone, tablet}
    CacheTTL = 1
    CacheBudget <- MCCacheBudget
    NUploads = 2
    Pictures = {"first", "second", "other"}
    Rolls <- MCRolls
    NPages = 2
    Flows = {phone, tablet}
    MaxAttempts = 2
    MaxWrites = 3
    PhoneBudgets <- MCPhoneBudgets
SYMMETRY Symmetric
INVARIANTS
    TypeOK
    OneResult
    OneAtATime
    PublishedIsStable
    AnalyticsFresh
    CountedOnce
    SetSound
    GeneratedSound
    CacheHolds
    QueueTellsTruth
CHECK_DEADLOCK FALSE
