SPECIFICATION AccountsSpec
CONSTANTS
    phone = phone
    laptop = laptop
    n1 = n1
    n2 = n2
    d1 = d1
    d2 = d2
    s1 = s1
    k1 = k1
    k2 = k2
    Callers = {phone, laptop}
    Student = phone
    Applications <- MCApplications
    maxOTPAttempts = 1
    SignUpBudget <- MCSignUpBudget
    MemberBudget <- MCMemberBudget
    Jobs <- MCJobs
    Kind <- MCKind
    Devices = {d1, d2}
    Slots = {s1}
    MaxAttempts = 2
    HourlyLimit = 3
    HasFCM = TRUE
    NoticeBudget <- MCNoticeBudget
    Rows <- MCRows
    Sends <- MCSends
    Pollers = {s1}
    MaxRetries = 1
    Threshold = 1
    Probes = 2
    Burst = 3
    Day = 2
    RowBudget <- MCRowBudget
INVARIANTS
    TypeOK
    GuessesBounded
    ResetOnce
    NoticesBounded
PROPERTIES
    SignUpCompletes
    JobsSettle
    BreakerCloses
CHECK_DEADLOCK FALSE
