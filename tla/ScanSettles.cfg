SPECIFICATION FairSpec

CONSTANTS
    j1 = j1
    j2 = j2
    w1 = w1
    w2 = w2
    chapter = chapter
    exam = exam
    mixture = mixture
    other = other
    NoJob = NoJob
    NoText = NoText
    ModeOf <- ExamMode
    PageTypeOf <- MCPageTypeOf
    Jobs = {j1}
    NPages = 2
    MaxPagesPerJob = 2
    Workers = {w1, w2}
    NQuestions = 2
    Texts = {chapter, exam, mixture}
    TextsOf <- AnyText
    Inline = {}
    Given = {"none", "other"}
    UseCache = TRUE
    Vision = {w2}
    Budget <- OutsideFaults

INVARIANTS
    FailureHasCause
    ObjectsReclaimable
PROPERTIES
    QueuedJobSettles

CHECK_DEADLOCK FALSE
