SPECIFICATION UploadsSpec
CONSTANTS
    r1 = r1
    r2 = r2
    NPages = 2
    NChunks = 2
    Requests <- MCRequests
    ChunkBudget <- MCChunkBudget
    Asks <- MCAsks
    Forms <- MCForms
    RateLimit = 1
    PlanLimits <- MCPlanLimits
    AdmissionBudget <- MCAdmissionBudget
INVARIANTS
    TypeOK
    NothingReceivedIsLost
    StorageAccounted
    QuotaHolds
    RateWindowEnds
PROPERTIES
    JobQueuedOnce
    UploadFinishes
    ImplementsPageUpload
CHECK_DEADLOCK FALSE
