------------------------- MODULE ChunkedUploadProofs -------------------------
(***************************************************************************)
(* For every number of pages, chunks, requests and faults: the chunked     *)
(* upload keeps what PageUpload promises, loses nothing it has received,   *)
(* queues a job once for a client that waits for its answers, and leaves   *)
(* nothing behind when nothing fails.                                      *)
(*                                                                         *)
(* The argument has three layers, each an invariant that relies on the one *)
(* before it.  Kept holds under all faults and overlaps: what a row or a   *)
(* request lists as received is in storage, as a chunk or in an image.     *)
(* Turn holds as long as the client never repeats a request that is still  *)
(* in flight: there is one page in the making, and a completion runs       *)
(* alone.  Accounted holds as long as nothing fails: a page that is        *)
(* uploaded has one image and no chunks.                                   *)
(***************************************************************************)
EXTENDS ChunkedUpload, FiniteSetTheorems, TLAPS

\* Stages of a chunk request and of a completion.
ChunkStages == {"chunk", "put", "record"}
CompleteStages == {"job", "page", "repeat", "compose", "delete", "mark", "count", "queue"}

\* What a request may hold.
RequestRecord ==
    [pc : {"idle"} \cup ChunkStages \cup CompleteStages, page : 0..NPages, chunk : Chunks,
     data : {"none", "intact", "damaged"}, total : {0, NChunks}, received : SUBSET Chunks,
     status : {"none", "uploading", "pending", "taken"}, image : Nat]

RequestsType ==
    /\ requests \in [Requests -> RequestRecord]
    /\ \A r \in Requests : requests[r].pc # "idle" <=> requests[r].page \in Pages
ClientType == client \in [page : 1..(NPages + 1), acked : SUBSET Chunks]
BudgetType ==
    /\ chunkBudget \in [ChunkFaults -> Nat]
    /\ \A k \in ChunkFaults : chunkBudget[k] <= ChunkBudget[k]

\* The types of all variables; the budget never grows.
Types ==
    /\ ChunkTypeOK
    /\ RequestsType
    /\ ClientType
    /\ BudgetType
    /\ IsFiniteSet(images)

(* --------------------------------- types --------------------------------- *)

\* Chunk 0 exists; 0 is no page.
LEMMA ZeroIsChunk == 0 \in Chunks /\ 0 \notin Pages /\ Pages \subseteq 0..NPages /\ 0 \in 0..NPages
BY ChunkAssumption DEF Chunks, Pages

\* A request that is not in flight has the type of a request.
LEMMA NoRequestType == NoRequest \in RequestRecord
BY ZeroIsChunk, ChunkAssumption DEF NoRequest, RequestRecord, NoImage, ChunkStages, CompleteStages

\* A fault lowers its budget, which then is below what a behaviour started with.
LEMMA WasteType ==
    ASSUME BudgetType, NEW k \in ChunkFaults, Waste(k)
    PROVE  BudgetType' /\ chunkBudget'[k] < ChunkBudget[k]
<1>1. ChunkBudget \in [ChunkFaults -> Nat]
    BY ChunkAssumption
<1>2. chunkBudget' \in [ChunkFaults -> Nat]
    BY DEF BudgetType, Waste
<1>3. chunkBudget[k] \in Nat /\ ChunkBudget[k] \in Nat
    BY <1>1 DEF BudgetType
<1>4. chunkBudget'[k] = chunkBudget[k] - 1
    BY DEF Waste, BudgetType
<1>5. chunkBudget'[k] < ChunkBudget[k]
    BY <1>3, <1>4 DEF BudgetType
<1>6. ASSUME NEW l \in ChunkFaults PROVE chunkBudget'[l] <= ChunkBudget[l]
    BY <1>1, <1>5, <1>3, <1>4 DEF BudgetType, Waste
<1> QED
    BY <1>2, <1>5, <1>6 DEF BudgetType

\* The first state has the right types.
LEMMA TypesInit == ChunkInit => Types
<1> SUFFICES ASSUME ChunkInit PROVE Types
    OBVIOUS
<1>1. IsFiniteSet(images)
    BY FS_EmptySet DEF ChunkInit
<1>2. RequestsType
    BY NoRequestType, ZeroIsChunk DEF ChunkInit, RequestsType, NoRequest
<1>3. ClientType
    BY ChunkAssumption DEF ChunkInit, ClientType
<1>4. BudgetType
    BY ChunkAssumption DEF ChunkInit, BudgetType
<1>5. ChunkTypeOK
    BY ChunkAssumption, ZeroIsChunk DEF ChunkInit, ChunkTypeOK, NoImage
<1> QED
    BY <1>1, <1>2, <1>3, <1>4, <1>5 DEF Types

\* A step keeps the types of the requests.
LEMMA RequestsTypeStep == Types /\ [ChunkNext]_chunkVars => RequestsType'
<1> SUFFICES ASSUME Types, [ChunkNext]_chunkVars PROVE RequestsType'
    OBVIOUS
<1> USE NoRequestType, ZeroIsChunk DEF RequestsType, Types
<1>1. ASSUME NEW r \in Requests, NEW p \in Pages, NEW c \in Chunks,
             NEW d \in {"intact", "damaged"}, SendChunk(r, p, c, d)
      PROVE  RequestsType'
    BY <1>1 DEF SendChunk, NoRequest, RequestRecord, ChunkStages
<1>2. ASSUME NEW r \in Requests, NEW p \in Pages, SendComplete(r, p)
      PROVE  RequestsType'
    BY <1>2 DEF SendComplete, NoRequest, RequestRecord, CompleteStages
<1>3. ASSUME NEW r \in Requests, requests' = Answered(r)
      PROVE  RequestsType'
    BY <1>3 DEF Answered, NoRequest
<1>4. ASSUME NEW r \in Requests, requests[r].pc # "idle",
             NEW pc \in ChunkStages \cup CompleteStages, Step(r, pc)
      PROVE  RequestsType'
    <2>1. pc # "idle" /\ pc \in {"idle"} \cup ChunkStages \cup CompleteStages
        BY DEF ChunkStages, CompleteStages
    <2>2. requests' \in [Requests -> RequestRecord]
        BY <1>4, <2>1 DEF Step, RequestRecord
    <2>3. \A q \in Requests : requests'[q].page = requests[q].page
        BY <1>4 DEF Step, RequestRecord
    <2>4. \A q \in Requests : requests'[q].pc = (IF q = r THEN pc ELSE requests[q].pc)
        BY <1>4 DEF Step, RequestRecord
    <2> QED
        BY <1>4, <2>1, <2>2, <2>3, <2>4
<1>5. ASSUME NEW r \in Requests, ReadChunkPage(r)
      PROVE  RequestsType'
    <2>1. CASE requests' = Answered(r)
        BY <1>3, <2>1
    <2>2. CASE requests' = [requests EXCEPT ![r].pc = "put", ![r].total = NChunks,
                               ![r].received = rows[requests[r].page].received]
        <3>1. requests[r] \in RequestRecord /\ requests[r].page \in Pages
            BY <1>5 DEF ReadChunkPage
        <3>2. rows[requests[r].page].received \in SUBSET Chunks
            BY <3>1 DEF ChunkTypeOK
        <3>3. requests' \in [Requests -> RequestRecord]
            <4> DEFINE x == [requests[r] EXCEPT !.pc = "put", !.total = NChunks,
                                  !.received = rows[requests[r].page].received]
            <4>1. x \in RequestRecord
                BY <3>1, <3>2 DEF RequestRecord, ChunkStages
            <4>2. requests' = [requests EXCEPT ![r] = x]
                BY <2>2
            <4> QED
                BY <4>1, <4>2
        <3>4. \A q \in Requests : requests'[q].page = requests[q].page
            BY <2>2 DEF RequestRecord
        <3>5. \A q \in Requests : requests'[q].pc = (IF q = r THEN "put" ELSE requests[q].pc)
            BY <2>2 DEF RequestRecord
        <3> QED
            BY <3>1, <3>3, <3>4, <3>5
    <2> QED
        BY <1>5, <2>1, <2>2 DEF ReadChunkPage
<1>6. ASSUME NEW r \in Requests, PutChunk(r)
      PROVE  RequestsType'
    <2>1. "record" \in ChunkStages \cup CompleteStages /\ requests[r].pc # "idle"
        BY <1>6 DEF PutChunk, ChunkStages
    <2> QED
        BY <1>4, <1>6, <2>1 DEF PutChunk
<1>7. ASSUME NEW r \in Requests, UpdatePageChunkMetadata(r)
      PROVE  RequestsType'
    BY <1>3, <1>7 DEF UpdatePageChunkMetadata, Replies
<1>8. ASSUME NEW r \in Requests, ReadUploadJob(r)
      PROVE  RequestsType'
    <2>1. upJob \in {"uploading", "pending", "taken"}
        BY DEF ChunkTypeOK
    <2>2. requests' \in [Requests -> RequestRecord]
        <3> DEFINE x == [requests[r] EXCEPT !.pc = "page", !.status = upJob]
        <3>1. x \in RequestRecord
            BY <2>1 DEF RequestRecord, CompleteStages
        <3>2. requests' = [requests EXCEPT ![r] = x]
            BY <1>8 DEF ReadUploadJob
        <3> QED
            BY <3>1, <3>2
    <2>3. \A q \in Requests : requests'[q].page = requests[q].page
        BY <1>8 DEF ReadUploadJob, RequestRecord
    <2>4. \A q \in Requests : requests'[q].pc = (IF q = r THEN "page" ELSE requests[q].pc)
        BY <1>8 DEF ReadUploadJob, RequestRecord
    <2> QED
        BY <1>8, <2>2, <2>3, <2>4 DEF ReadUploadJob
<1>9. ASSUME NEW r \in Requests, ReadCompletePage(r)
      PROVE  RequestsType'
    BY <1>3, <1>4, <1>9 DEF ReadCompletePage, CompleteStages
<1>10. ASSUME NEW r \in Requests, RepeatComplete(r)
      PROVE  RequestsType'
    BY <1>3, <1>4, <1>10 DEF RepeatComplete, Replies, Swallows, CompleteStages
<1>11. ASSUME NEW r \in Requests, ComposeImage(r)
      PROVE  RequestsType'
    <2>1. ImagesOf(requests[r].page) \subseteq images
        BY DEF ImagesOf
    <2>2. Cardinality(ImagesOf(requests[r].page)) \in Nat
        BY <2>1, FS_Subset, FS_CardinalityType
    <2> QED
        BY <1>3, <1>11, <2>2 DEF ComposeImage, RequestRecord, CompleteStages
<1>12. ASSUME NEW r \in Requests, DeleteChunks(r)
      PROVE  RequestsType'
    BY <1>4, <1>12 DEF DeleteChunks, CompleteStages
<1>13. ASSUME NEW r \in Requests, MarkPageUploaded(r)
      PROVE  RequestsType'
    BY <1>4, <1>13 DEF MarkPageUploaded, CompleteStages
<1>14. ASSUME NEW r \in Requests, CountPages(r)
      PROVE  RequestsType'
    BY <1>3, <1>4, <1>14 DEF CountPages, Replies, Swallows, CompleteStages
<1>15. ASSUME NEW r \in Requests, QueueJob(r)
      PROVE  RequestsType'
    BY <1>3, <1>15 DEF QueueJob, Replies, Swallows
<1>16. ASSUME NEW r \in Requests, RequestFails(r)
      PROVE  RequestsType'
    BY <1>3, <1>16 DEF RequestFails
<1>17. CASE ClaimJob
    BY <1>17 DEF ClaimJob
<1>18. CASE UNCHANGED chunkVars
    BY <1>18 DEF chunkVars
<1> QED
    BY <1>1, <1>2, <1>5, <1>6, <1>7, <1>8, <1>9, <1>10, <1>11, <1>12, <1>13, <1>14, <1>15,
       <1>16, <1>17, <1>18 DEF ChunkNext, Handle

\* A step keeps the type of the client: it ends one page after the last.
LEMMA ClientTypeStep == Types /\ [ChunkNext]_chunkVars => ClientType'
<1> SUFFICES ASSUME Types, [ChunkNext]_chunkVars PROVE ClientType'
    OBVIOUS
<1> USE ChunkAssumption DEF ClientType, Types
<1>1. CASE UNCHANGED client
    BY <1>1
<1>2. ASSUME NEW r \in Requests, Acknowledge(r)
      PROVE  ClientType'
    BY <1>2 DEF Acknowledge, RequestsType, RequestRecord
<1>3. ASSUME NEW r \in Requests, requests[r].pc # "idle", Advance(r)
      PROVE  ClientType'
    <2>1. requests[r].page \in 1..NPages
        BY <1>3 DEF RequestsType, Pages
    <2> QED
        BY <1>3, <2>1 DEF Advance
<1>4. ASSUME NEW r \in Requests, StartOver(r)
      PROVE  ClientType'
    BY <1>4 DEF StartOver
<1> QED
    BY <1>1, <1>2, <1>3, <1>4
    DEF ChunkNext, Handle, chunkVars, SendChunk, SendComplete, ReadChunkPage, PutChunk,
        UpdatePageChunkMetadata, Replies, Swallows, ReadUploadJob, ReadCompletePage, RepeatComplete,
        ComposeImage, DeleteChunks, MarkPageUploaded, CountPages, QueueJob, RequestFails, ClaimJob

\* A step keeps the type of the budget.
LEMMA BudgetTypeStep == Types /\ [ChunkNext]_chunkVars => BudgetType'
<1> SUFFICES ASSUME Types, [ChunkNext]_chunkVars PROVE BudgetType'
    OBVIOUS
<1>1. CASE UNCHANGED chunkBudget
    BY <1>1 DEF Types, BudgetType
<1>2. ASSUME NEW k \in ChunkFaults, Waste(k)
      PROVE  BudgetType'
    BY <1>2, WasteType DEF Types
<1>3. {"fail", "swallow", "damage", "overlap"} = ChunkFaults
    BY DEF ChunkFaults
<1> QED
    BY <1>1, <1>2, <1>3
    DEF ChunkNext, Handle, chunkVars, SendChunk, SendComplete, ReadChunkPage, PutChunk,
        UpdatePageChunkMetadata, Replies, Swallows, ReadUploadJob, ReadCompletePage, RepeatComplete,
        ComposeImage, DeleteChunks, MarkPageUploaded, CountPages, QueueJob, RequestFails, ClaimJob

\* Only ComposeImage changes the images, and there are finitely many.
LEMMA ImagesStep ==
    Types /\ [ChunkNext]_chunkVars =>
        /\ IsFiniteSet(images)'
        /\ images' = images \/ \E r \in Requests : ComposeImage(r)
<1> SUFFICES ASSUME Types, [ChunkNext]_chunkVars
             PROVE  /\ IsFiniteSet(images)'
                    /\ images' = images \/ \E r \in Requests : ComposeImage(r)
    OBVIOUS
<1>1. images' = images \/ \E r \in Requests : ComposeImage(r)
    BY DEF ChunkNext, Handle, chunkVars, SendChunk, SendComplete, ReadChunkPage, PutChunk,
        UpdatePageChunkMetadata, ReadUploadJob, ReadCompletePage, RepeatComplete,
        DeleteChunks, MarkPageUploaded, CountPages, QueueJob, RequestFails, ClaimJob
<1>2. ASSUME NEW r \in Requests, ComposeImage(r)
      PROVE  IsFiniteSet(images')
    BY <1>2, FS_AddElement DEF ComposeImage, Types
<1> QED
    BY <1>1, <1>2 DEF Types

\* The actions that change the job, the rows and the chunks.
LEMMA WhoChanges ==
    [ChunkNext]_chunkVars =>
        /\ upJob' = upJob \/ ClaimJob \/ \E r \in Requests : QueueJob(r)
        /\ rows' = rows \/ \E r \in Requests : UpdatePageChunkMetadata(r) \/ MarkPageUploaded(r)
        /\ chunks' = chunks \/ \E r \in Requests : PutChunk(r) \/ DeleteChunks(r)
<1> SUFFICES ASSUME [ChunkNext]_chunkVars
             PROVE  /\ upJob' = upJob \/ ClaimJob \/ \E r \in Requests : QueueJob(r)
                    /\ \/ rows' = rows
                       \/ \E r \in Requests : UpdatePageChunkMetadata(r) \/ MarkPageUploaded(r)
                    /\ chunks' = chunks \/ \E r \in Requests : PutChunk(r) \/ DeleteChunks(r)
    OBVIOUS
<1>1. upJob' = upJob \/ ClaimJob \/ \E r \in Requests : QueueJob(r)
    BY DEF ChunkNext, Handle, chunkVars, SendChunk, SendComplete, ReadChunkPage, PutChunk,
        UpdatePageChunkMetadata, ReadUploadJob, ReadCompletePage, RepeatComplete,
        ComposeImage, DeleteChunks, MarkPageUploaded, CountPages, RequestFails
<1>2. rows' = rows \/ \E r \in Requests : UpdatePageChunkMetadata(r) \/ MarkPageUploaded(r)
    BY DEF ChunkNext, Handle, chunkVars, SendChunk, SendComplete, ReadChunkPage, PutChunk,
        ReadUploadJob, ReadCompletePage, RepeatComplete, ComposeImage, DeleteChunks,
        CountPages, QueueJob, RequestFails, ClaimJob
<1>3. chunks' = chunks \/ \E r \in Requests : PutChunk(r) \/ DeleteChunks(r)
    BY DEF ChunkNext, Handle, chunkVars, SendChunk, SendComplete, ReadChunkPage,
        UpdatePageChunkMetadata, ReadUploadJob, ReadCompletePage, RepeatComplete,
        ComposeImage, MarkPageUploaded, CountPages, QueueJob, RequestFails, ClaimJob
<1> QED
    BY <1>1, <1>2, <1>3

\* A step keeps the types of rows, chunks and images.
LEMMA ChunkTypeStep == Types /\ [ChunkNext]_chunkVars => ChunkTypeOK'
<1> SUFFICES ASSUME Types, [ChunkNext]_chunkVars PROVE ChunkTypeOK'
    OBVIOUS
<1> USE DEF Types
<1>1. upJob' \in {"uploading", "pending", "taken"}
    BY WhoChanges DEF ChunkTypeOK, ClaimJob, QueueJob
<1> DEFINE Row == [status : {"pending", "uploading", "uploaded"},
                   total : {0, NChunks}, received : SUBSET Chunks, image : Nat]
<1>2. rows' \in [Pages -> Row]
    <2>1. rows \in [Pages -> Row]
        BY DEF ChunkTypeOK
    <2>2. ASSUME NEW r \in Requests, UpdatePageChunkMetadata(r)
          PROVE  rows' \in [Pages -> Row]
        <3> DEFINE q == requests[r]
                   x == [rows[q.page] EXCEPT !.total = q.total, !.status = "uploading",
                            !.received = recordChunkReceipt(r)]
        <3>1. /\ q.total \in {0, NChunks} /\ q.received \subseteq Chunks /\ q.chunk \in Chunks
              /\ q.page \in Pages
            BY <2>2 DEF RequestsType, RequestRecord, UpdatePageChunkMetadata
        <3>2. x \in Row
            BY <2>1, <3>1 DEF recordChunkReceipt
        <3>3. rows' = [rows EXCEPT ![q.page] = x]
            BY <2>1, <2>2, <3>1 DEF UpdatePageChunkMetadata
        <3> QED
            BY <2>1, <3>1, <3>2, <3>3
    <2>3. ASSUME NEW r \in Requests, MarkPageUploaded(r)
          PROVE  rows' \in [Pages -> Row]
        <3>1. requests[r].image \in Nat
            BY DEF RequestsType, RequestRecord
        <3> QED
            BY <2>1, <2>3, <3>1 DEF MarkPageUploaded
    <2> QED
        BY <2>1, <2>2, <2>3, WhoChanges
<1>3. chunks' \in [Pages -> [Chunks -> {"none", "intact", "damaged"}]]
    <2>1. chunks \in [Pages -> [Chunks -> {"none", "intact", "damaged"}]]
        BY DEF ChunkTypeOK
    <2>2. ASSUME NEW r \in Requests
          PROVE  /\ requests[r].chunk \in Chunks
                 /\ requests[r].data \in {"none", "intact", "damaged"}
                 /\ requests[r].pc # "idle" => requests[r].page \in Pages
        BY DEF RequestsType, RequestRecord
    <2>3. ASSUME NEW r \in Requests, PutChunk(r)
          PROVE  chunks' \in [Pages -> [Chunks -> {"none", "intact", "damaged"}]]
        BY <2>1, <2>2, <2>3 DEF PutChunk
    <2>4. ASSUME NEW r \in Requests, DeleteChunks(r)
          PROVE  chunks' \in [Pages -> [Chunks -> {"none", "intact", "damaged"}]]
        BY <2>1, <2>4 DEF DeleteChunks, DeletePrefix
    <2> QED
        BY <2>1, <2>3, <2>4, WhoChanges
<1>4. \A i \in images' : i.page \in Pages /\ i.parts \in [Chunks -> {"intact", "damaged"}]
    <2>1. ASSUME NEW r \in Requests, ComposeImage(r)
          PROVE  <1>4
        <3> DEFINE p == requests[r].page
        <3>1. p \in Pages
            BY <2>1 DEF ComposeImage, RequestsType
        <3>2. (\A c \in Chunks : chunks[p][c] # "none")
                 => chunks[p] \in [Chunks -> {"intact", "damaged"}]
            BY <3>1 DEF ChunkTypeOK
        <3> QED
            BY <3>1, <3>2, <2>1 DEF ComposeImage, ChunkTypeOK
    <2> QED
        BY <2>1, ImagesStep DEF ChunkTypeOK
<1>5. client'.page \in 1..(NPages + 1) /\ client'.acked \subseteq Chunks
    BY ClientTypeStep DEF ClientType
<1> QED
    BY <1>1, <1>2, <1>3, <1>4, <1>5 DEF ChunkTypeOK

\* A step keeps all types.
LEMMA TypesStep == Types /\ [ChunkNext]_chunkVars => Types'
BY RequestsTypeStep, ClientTypeStep, BudgetTypeStep, ImagesStep, ChunkTypeStep DEF Types

\* The types hold in every state.
LEMMA AlwaysTypes == ChunkSpec => []Types
<1>1. Types /\ [ChunkNext]_chunkVars => Types'
    BY TypesStep
<1> QED
    BY TypesInit, <1>1, PTL DEF ChunkSpec

(* --------------------------- what was received --------------------------- *)

\* A chunk is held while it is in storage, alone or inside an image of its page.
HasImage(p) == ImagesOf(p) # {}
Held(p, c) == chunks[p][c] # "none" \/ HasImage(p)

\* What a row lists is held, and the image it names is in storage.
RowOK(p) ==
    /\ \A c \in rows[p].received : Held(p, c)
    /\ rows[p].image # NoImage => Referenced(p) # {}
    /\ rows[p].status = "uploaded" => rows[p].image # NoImage

\* What a request has read stays true: chunks are held, and an image it is about to
\* record is stored.
RequestOK(r) ==
    LET q == requests[r] IN
    /\ q.pc = "put" => q.data = "intact"
    /\ q.pc \in {"put", "record"} => \A c \in q.received : Held(q.page, c)
    /\ q.pc = "record" => Held(q.page, q.chunk)
    /\ q.pc \in {"delete", "mark"} =>
          q.image # NoImage /\ \E i \in ImagesOf(q.page) : i.n = q.image
    /\ q.pc = "queue" => \A p \in Pages : rows[p].image # NoImage

\* Holds whatever fails or overlaps.
Kept ==
    /\ \A p \in Pages, c \in Chunks : chunks[p][c] # "damaged"
    /\ \A i \in images : IsWhole(i)
    /\ \A p \in Pages : RowOK(p)
    /\ \A r \in Requests : RequestOK(r)
    /\ upJob # "uploading" => \A p \in Pages : rows[p].image # NoImage

\* The type invariant of the upload: rows, chunks, images and the client's page.
THEOREM UploadTypes == ChunkSpec => []ChunkTypeOK
<1>1. Types => ChunkTypeOK
    BY DEF Types
<1> QED
    BY <1>1, AlwaysTypes, PTL

\* Nothing is received in the first state.
LEMMA KeptInit == ChunkInit => Kept
BY DEF ChunkInit, Kept, RowOK, RequestOK, NoRequest, Held, HasImage

\* What is held stays held, and a page that has an image keeps one.
LEMMA Grows ==
    Types /\ Kept /\ [ChunkNext]_chunkVars =>
        /\ images \subseteq images'
        /\ \A p \in Pages : HasImage(p) => HasImage(p)'
        /\ \A p \in Pages, c \in Chunks : Held(p, c) => Held(p, c)'
        /\ \A p \in Pages : rows[p].image # NoImage => rows'[p].image # NoImage
<1> SUFFICES ASSUME Types, Kept, [ChunkNext]_chunkVars
             PROVE  /\ images \subseteq images'
                    /\ \A p \in Pages : HasImage(p) => HasImage(p)'
                    /\ \A p \in Pages, c \in Chunks : Held(p, c) => Held(p, c)'
                    /\ \A p \in Pages : rows[p].image # NoImage => rows'[p].image # NoImage
    OBVIOUS
<1>1. images \subseteq images'
    BY ImagesStep DEF ComposeImage
<1>2. \A p \in Pages : HasImage(p) => HasImage(p)'
    BY <1>1 DEF HasImage, ImagesOf
<1>3. \A p \in Pages, c \in Chunks : Held(p, c) => Held(p, c)'
    <2>1. ASSUME NEW r \in Requests, PutChunk(r)
          PROVE  \A p \in Pages, c \in Chunks : chunks[p][c] # "none" => chunks'[p][c] # "none"
        <3>1. /\ requests[r].data # "none" /\ requests[r].chunk \in Chunks
              /\ requests[r].page \in Pages
            BY <2>1 DEF PutChunk, Kept, RequestOK, Types, RequestsType, RequestRecord
        <3> QED
            BY <2>1, <3>1 DEF PutChunk, Types, ChunkTypeOK
    <2>2. ASSUME NEW r \in Requests, DeleteChunks(r)
          PROVE  /\ HasImage(requests[r].page)
                 /\ \A p \in Pages : p # requests[r].page => chunks'[p] = chunks[p]
        BY <2>2 DEF DeleteChunks, DeletePrefix, Kept, RequestOK, HasImage, Types, ChunkTypeOK
    <2> QED
        BY <2>1, <2>2, <1>2, WhoChanges DEF Held
<1>4. \A p \in Pages : rows[p].image # NoImage => rows'[p].image # NoImage
    <2>1. ASSUME NEW r \in Requests, MarkPageUploaded(r)
          PROVE  requests[r].image # NoImage
        BY <2>1 DEF MarkPageUploaded, Kept, RequestOK
    <2> QED
        <3>1. rows \in [Pages -> [status : {"pending", "uploading", "uploaded"},
                           total : {0, NChunks}, received : SUBSET Chunks, image : Nat]]
            BY DEF Types, ChunkTypeOK
        <3>2. ASSUME NEW r \in Requests, UpdatePageChunkMetadata(r)
              PROVE  \A p \in Pages : rows'[p].image = rows[p].image
            BY <3>1, <3>2 DEF UpdatePageChunkMetadata
        <3>3. ASSUME NEW r \in Requests, MarkPageUploaded(r)
              PROVE  \A p \in Pages : rows[p].image # NoImage => rows'[p].image # NoImage
            BY <2>1, <3>1, <3>3 DEF MarkPageUploaded
        <3> QED
            BY <3>2, <3>3, WhoChanges
<1> QED
    BY <1>1, <1>2, <1>3, <1>4

\* A request changes only by a step of its own.
LEMMA OwnStep ==
    Types /\ [ChunkNext]_chunkVars =>
        \A r \in Requests :
            \/ requests'[r] = requests[r]
            \/ \E p \in Pages, c \in Chunks, d \in {"intact", "damaged"} : SendChunk(r, p, c, d)
            \/ \E p \in Pages : SendComplete(r, p)
            \/ Handle(r)
            \/ RequestFails(r)
<1> SUFFICES ASSUME Types, [ChunkNext]_chunkVars, NEW r \in Requests,
                    requests'[r] # requests[r]
             PROVE  \/ \E p \in Pages, c \in Chunks, d \in {"intact", "damaged"} :
                          SendChunk(r, p, c, d)
                    \/ \E p \in Pages : SendComplete(r, p)
                    \/ Handle(r)
                    \/ RequestFails(r)
    OBVIOUS
<1>1. ASSUME NEW q \in Requests,
             \A s \in Requests : s # q => requests'[s] = requests[s]
      PROVE  q = r
    BY <1>1
<1>2. ASSUME NEW q \in Requests, NEW p \in Pages, SendComplete(q, p)
      PROVE  q = r
    BY <1>1, <1>2 DEF SendComplete, Types, RequestsType
<1>3. ASSUME NEW q \in Requests, NEW p \in Pages, NEW c \in Chunks,
             NEW d \in {"intact", "damaged"}, SendChunk(q, p, c, d)
      PROVE  q = r
    BY <1>1, <1>3 DEF SendChunk, Types, RequestsType
<1>4. ASSUME NEW q \in Requests, Handle(q) \/ RequestFails(q)
      PROVE  q = r
    <2>1. \A s \in Requests : s # q => requests'[s] = requests[s]
      BY <1>4 DEF Types, RequestsType, Handle, RequestFails, Answered, Step, Replies, Swallows, ReadChunkPage, PutChunk,
        UpdatePageChunkMetadata, ReadUploadJob, ReadCompletePage, RepeatComplete, ComposeImage,
        DeleteChunks, MarkPageUploaded, CountPages, QueueJob
    <2> QED
        BY <1>1, <2>1
<1> QED
    BY <1>2, <1>3, <1>4 DEF ChunkNext, ClaimJob, chunkVars

\* Damaged bytes do not pass the checksum, so no chunk in storage is damaged.
LEMMA ChunksStayIntact ==
    Types /\ Kept /\ [ChunkNext]_chunkVars =>
        \A p \in Pages, c \in Chunks : chunks'[p][c] # "damaged"
<1> SUFFICES ASSUME Types, Kept, [ChunkNext]_chunkVars, NEW p \in Pages, NEW c \in Chunks
             PROVE  chunks'[p][c] # "damaged"
    OBVIOUS
<1>1. ASSUME NEW r \in Requests, PutChunk(r)
      PROVE  chunks'[p][c] # "damaged"
    BY <1>1 DEF PutChunk, Kept, RequestOK, Types, ChunkTypeOK, RequestsType, RequestRecord
<1>2. ASSUME NEW r \in Requests, DeleteChunks(r)
      PROVE  chunks'[p][c] # "damaged"
    BY <1>2 DEF DeleteChunks, DeletePrefix, Kept, Types, ChunkTypeOK
<1> QED
    BY <1>1, <1>2, WhoChanges DEF Kept

\* An image is composed of stored chunks only, so it is whole.
LEMMA ImagesStayWhole ==
    Types /\ Kept /\ [ChunkNext]_chunkVars => \A i \in images' : IsWhole(i)
<1> SUFFICES ASSUME Types, Kept, [ChunkNext]_chunkVars, NEW i \in images'
             PROVE  IsWhole(i)
    OBVIOUS
<1>1. CASE i \in images
    BY <1>1 DEF Kept
<1>2. ASSUME NEW r \in Requests, ComposeImage(r), i \notin images
      PROVE  IsWhole(i)
    <2>1. requests[r].page \in Pages
        BY <1>2 DEF ComposeImage, Types, RequestsType
    <2>2. \A c \in Chunks : chunks[requests[r].page][c] \in {"none", "intact"}
        BY <2>1 DEF Kept, Types, ChunkTypeOK
    <2>3. i.parts = chunks[requests[r].page] /\ \A c \in Chunks : i.parts[c] # "none"
        BY <1>2 DEF ComposeImage
    <2> QED
        BY <2>2, <2>3 DEF IsWhole
<1> QED
    BY <1>1, <1>2, ImagesStep

\* Metadata that was read before the chunk was stored lists only chunks still held.
LEMMA RowsStayOK ==
    Types /\ Kept /\ [ChunkNext]_chunkVars => \A p \in Pages : RowOK(p)'
<1> SUFFICES ASSUME Types, Kept, [ChunkNext]_chunkVars, NEW p \in Pages
             PROVE  RowOK(p)'
    OBVIOUS
<1>r. rows \in [Pages -> [status : {"pending", "uploading", "uploaded"},
                          total : {0, NChunks}, received : SUBSET Chunks, image : Nat]]
    BY DEF Types, ChunkTypeOK
<1>1. CASE rows'[p] = rows[p]
    BY <1>1, <1>r, Grows DEF Kept, RowOK, Referenced, ImagesOf
<1>2. ASSUME NEW r \in Requests, UpdatePageChunkMetadata(r), requests[r].page = p
      PROVE  RowOK(p)'
    <2>1. /\ rows'[p].received = recordChunkReceipt(r)
          /\ rows'[p].image = rows[p].image
          /\ rows'[p].status = "uploading"
        BY <1>2, <1>r DEF UpdatePageChunkMetadata
    <2>2. requests[r].chunk \in Chunks /\ requests[r].received \subseteq Chunks
        BY DEF Types, RequestsType, RequestRecord
    <2>3. \A c \in recordChunkReceipt(r) : c \in Chunks /\ Held(p, c)
        BY <1>2, <2>2 DEF UpdatePageChunkMetadata, Kept, RequestOK, recordChunkReceipt
    <2> QED
        BY <2>1, <2>3, Grows DEF Kept, RowOK, Referenced, ImagesOf
<1>3. ASSUME NEW r \in Requests, MarkPageUploaded(r), requests[r].page = p
      PROVE  RowOK(p)'
    <2>1. rows'[p] = [status |-> "uploaded", total |-> 0, received |-> {},
                      image |-> requests[r].image]
        BY <1>3, <1>r DEF MarkPageUploaded
    <2>2. requests[r].image # NoImage /\ \E i \in ImagesOf(p) : i.n = requests[r].image
        BY <1>3 DEF MarkPageUploaded, Kept, RequestOK
    <2> QED
        BY <2>1, <2>2, Grows DEF RowOK, Referenced, ImagesOf
<1>4. rows'[p] # rows[p] =>
        \E r \in Requests : requests[r].page = p /\ (UpdatePageChunkMetadata(r) \/ MarkPageUploaded(r))
    BY <1>r, WhoChanges DEF UpdatePageChunkMetadata, MarkPageUploaded
<1> QED
    BY <1>1, <1>2, <1>3, <1>4

\* No step of another request invalidates what a request relies on.
LEMMA RequestsStayOK ==
    Types /\ Kept /\ [ChunkNext]_chunkVars => \A r \in Requests : RequestOK(r)'
<1> SUFFICES ASSUME Types, Kept, [ChunkNext]_chunkVars, NEW r \in Requests
             PROVE  RequestOK(r)'
    OBVIOUS
<1>t. /\ requests \in [Requests -> RequestRecord]
      /\ requests[r].pc # "idle" => requests[r].page \in Pages
      /\ requests[r].chunk \in Chunks
      /\ requests[r].received \subseteq Chunks
    BY DEF Types, RequestsType, RequestRecord
<1>1. CASE requests'[r] = requests[r]
    BY <1>1, <1>t, Grows DEF Kept, RequestOK, ImagesOf
<1>2. ASSUME NEW p \in Pages, NEW c \in Chunks, NEW d \in {"intact", "damaged"},
             SendChunk(r, p, c, d)
      PROVE  RequestOK(r)'
    BY <1>2, <1>t DEF SendChunk, RequestOK, NoRequest
<1>3. ASSUME NEW p \in Pages, SendComplete(r, p)
      PROVE  RequestOK(r)'
    BY <1>3, <1>t DEF SendComplete, RequestOK, NoRequest
<1>4. CASE requests' = Answered(r)
    BY <1>4, <1>t DEF Answered, RequestOK, NoRequest
<1>5. ASSUME ReadChunkPage(r), requests' # Answered(r)
      PROVE  RequestOK(r)'
    <2>1. /\ requests'[r].pc = "put" /\ requests'[r].page = requests[r].page
          /\ requests'[r].data = requests[r].data
          /\ requests'[r].received = rows[requests[r].page].received
          /\ requests[r].data = "intact"
          /\ requests[r].page \in Pages
        <3> DEFINE x == [requests[r] EXCEPT !.pc = "put", !.total = NChunks,
                                           !.received = rows[requests[r].page].received]
        <3>1. requests' = [requests EXCEPT ![r] = x] /\ requests[r].data = "intact"
              /\ requests[r].pc = "chunk"
            BY <1>5 DEF ReadChunkPage, ChecksumMatches
        <3>2. requests'[r] = x /\ requests[r] \in RequestRecord
            BY <3>1, <1>t
        <3> QED
            BY <1>t, <3>1, <3>2 DEF RequestRecord
    <2>2. rows[requests[r].page].received \subseteq Chunks
        BY <2>1 DEF Types, ChunkTypeOK
    <2> QED
        BY <2>1, <2>2, Grows DEF RequestOK, Kept, RowOK
<1>6. CASE PutChunk(r)
    <2>1. requests'[r] = [requests[r] EXCEPT !.pc = "record"] /\ requests[r].page \in Pages
        BY <1>6, <1>t DEF PutChunk, Step
    <2>2. chunks'[requests[r].page][requests[r].chunk] = "intact"
        BY <1>6, <1>t, <2>1 DEF PutChunk, Kept, RequestOK, Types, ChunkTypeOK
    <2>3. requests[r].pc = "put"
        BY <1>6 DEF PutChunk
    <2> QED
        BY <1>t, <2>1, <2>2, <2>3, Grows DEF RequestOK, Kept, Held, RequestRecord
<1>7. ASSUME NEW pc \in {"page", "repeat", "compose", "count"}, requests'[r].pc = pc
      PROVE  RequestOK(r)'
    BY <1>7 DEF RequestOK
<1>8. ASSUME AllPagesUploaded, rows' = rows, Step(r, "queue")
      PROVE  RequestOK(r)'
    <2>1. requests'[r].pc = "queue"
        BY <1>8, <1>t DEF Step, RequestRecord
    <2>2. \A p \in Pages : rows'[p].image # NoImage
        BY <1>8 DEF AllPagesUploaded, Kept, RowOK
    <2> QED
        BY <2>1, <2>2 DEF RequestOK
<1>9. ASSUME ComposeImage(r), requests' # Answered(r)
      PROVE  RequestOK(r)'
    <2> DEFINE p == requests[r].page
               n == Cardinality(ImagesOf(p)) + 1
    <2>1. n # NoImage
        <3>1. IsFiniteSet(ImagesOf(p))
            BY FS_Subset DEF Types, ImagesOf
        <3> QED
            BY <3>1, FS_CardinalityType DEF NoImage
    <2>2. /\ requests'[r].pc = "delete" /\ requests'[r].page = p /\ requests'[r].image = n
        BY <1>9, <1>t DEF ComposeImage, RequestRecord
    <2>3. [page |-> p, n |-> n, parts |-> chunks[p]] \in images'
        BY <1>9 DEF ComposeImage
    <2> HIDE DEF n
    <2> QED
        BY <2>1, <2>2, <2>3 DEF RequestOK, ImagesOf
<1>10. CASE DeleteChunks(r)
    <2>1. requests'[r] = [requests[r] EXCEPT !.pc = "mark"]
        BY <1>10, <1>t DEF DeleteChunks, Step
    <2>2. requests[r].image # NoImage /\ \E i \in ImagesOf(requests[r].page) : i.n = requests[r].image
        BY <1>10 DEF DeleteChunks, Kept, RequestOK
    <2>3. /\ requests'[r].pc = "mark" /\ requests'[r].page = requests[r].page
          /\ requests'[r].image = requests[r].image
        BY <2>1, <1>t DEF RequestRecord
    <2> QED
        BY <2>2, <2>3, Grows DEF RequestOK, ImagesOf
<1>11. CASE MarkPageUploaded(r)
    BY <1>7, <1>11, <1>t DEF MarkPageUploaded, Step, RequestRecord
<1>12. CASE ReadUploadJob(r) \/ ReadCompletePage(r)
    BY <1>4, <1>7, <1>12, <1>t DEF ReadUploadJob, ReadCompletePage, Step, RequestRecord
<1>13. CASE RepeatComplete(r) \/ CountPages(r)
    BY <1>4, <1>8, <1>13 DEF RepeatComplete, CountPages, Replies, Swallows, MayQueueRepeated
<1>14. CASE UpdatePageChunkMetadata(r) \/ QueueJob(r) \/ RequestFails(r)
    BY <1>4, <1>14 DEF UpdatePageChunkMetadata, QueueJob, RequestFails, Replies, Swallows
<1> QED
    BY <1>1, <1>2, <1>3, <1>4, <1>5, <1>6, <1>9, <1>10, <1>11, <1>12, <1>13, <1>14, OwnStep
    DEF Handle

\* Kept is inductive.
LEMMA KeptStep == Types /\ Kept /\ [ChunkNext]_chunkVars => Kept'
<1> SUFFICES ASSUME Types, Kept, [ChunkNext]_chunkVars PROVE Kept'
    OBVIOUS
<1>1. upJob' # "uploading" => \A p \in Pages : rows'[p].image # NoImage
    <2>1. ASSUME NEW r \in Requests, QueueJob(r)
          PROVE  \A p \in Pages : rows[p].image # NoImage
        BY <2>1 DEF QueueJob, Kept, RequestOK
    <2>2. upJob' # "uploading" => \A p \in Pages : rows[p].image # NoImage
        BY <2>1, WhoChanges DEF ClaimJob, Kept
    <2> QED
        BY <2>2, Grows
<1>2. \A p \in Pages, c \in Chunks : chunks'[p][c] # "damaged"
    BY ChunksStayIntact
<1>3. \A i \in images' : IsWhole(i)
    BY ImagesStayWhole
<1>4. \A p \in Pages : RowOK(p)'
    BY RowsStayOK
<1>5. \A r \in Requests : RequestOK(r)'
    BY RequestsStayOK
<1> QED
    BY <1>1, <1>2, <1>3, <1>4, <1>5 DEF Kept, IsWhole

\* Kept holds in every state.
LEMMA AlwaysKept == ChunkSpec => [](Types /\ Kept)
<1>1. ChunkInit => Types /\ Kept
    BY TypesInit, KeptInit
<1>2. (Types /\ Kept) /\ [ChunkNext]_chunkVars => (Types /\ Kept)'
    BY TypesStep, KeptStep
<1> QED
    BY <1>1, <1>2, PTL DEF ChunkSpec

\* HandleUploadComplete (chunk_handler.go) never leaves a listed chunk without a
\* whole image of its page: nothing that was received is lost, under all faults.
THEOREM ReceivedIsKept == ChunkSpec => []NothingReceivedIsLost
<1>1. Types /\ Kept => NothingReceivedIsLost
    BY DEF Types, ChunkTypeOK, Kept, RowOK, Held, HasImage, NothingReceivedIsLost, ImagesOf
<1> QED
    BY <1>1, AlwaysKept, PTL

(* ------------------------------- refinement ------------------------------ *)

\* A step adds at most one chunk to what is held, and takes none away.
LEMMA HeldStep ==
    ASSUME Types, Kept, [ChunkNext]_chunkVars
    PROVE  \/ \A p \in Pages, c \in Chunks : Held(p, c)' <=> Held(p, c)
           \/ \E q \in Pages, d \in Chunks : \A p \in Pages, c \in Chunks :
                 Held(p, c)' <=> Held(p, c) \/ (p = q /\ c = d)
<1>1. ASSUME NEW r \in Requests, PutChunk(r)
      PROVE  \A p \in Pages, c \in Chunks :
                Held(p, c)' <=> Held(p, c) \/ (p = requests[r].page /\ c = requests[r].chunk)
    <2>1. /\ images' = images
          /\ requests[r].page \in Pages /\ requests[r].chunk \in Chunks
          /\ chunks' = [chunks EXCEPT ![requests[r].page][requests[r].chunk] = "intact"]
        BY <1>1 DEF PutChunk, Types, RequestsType, RequestRecord, Kept, RequestOK
    <2>2. \A p \in Pages, c \in Chunks :
             chunks'[p][c] = (IF p = requests[r].page /\ c = requests[r].chunk
                              THEN "intact" ELSE chunks[p][c])
        BY <2>1 DEF Types, ChunkTypeOK
    <2> QED
        BY <2>1, <2>2 DEF Held, HasImage, ImagesOf
<1>2. ASSUME NEW r \in Requests, DeleteChunks(r)
      PROVE  \A p \in Pages, c \in Chunks : Held(p, c)' <=> Held(p, c)
    <2>1. /\ images' = images
          /\ requests[r].page \in Pages
          /\ HasImage(requests[r].page)
          /\ \A p \in Pages : p # requests[r].page => chunks'[p] = chunks[p]
        BY <1>2 DEF DeleteChunks, DeletePrefix, Types, RequestsType, ChunkTypeOK, Kept, RequestOK,
                    HasImage
    <2> QED
        BY <2>1 DEF Held, HasImage, ImagesOf
<1>3. ASSUME NEW r \in Requests, ComposeImage(r)
      PROVE  \A p \in Pages, c \in Chunks : Held(p, c)' <=> Held(p, c)
    <2>1. CASE images' = images
        BY <1>3, <2>1 DEF ComposeImage, Held, HasImage, ImagesOf
    <2>2. CASE images' # images
        <3>1. /\ chunks' = chunks
              /\ \A c \in Chunks : chunks[requests[r].page][c] # "none"
              /\ \E i : i.page = requests[r].page /\ images' = images \cup {i}
            BY <1>3, <2>2 DEF ComposeImage
        <3> QED
            BY <3>1 DEF Held, HasImage, ImagesOf
    <2> QED
        BY <2>1, <2>2
<1>4. CASE chunks' = chunks /\ images' = images
    BY <1>4 DEF Held, HasImage, ImagesOf
<1>5. ASSUME NEW r \in Requests, PutChunk(r)
      PROVE  requests[r].page \in Pages /\ requests[r].chunk \in Chunks
    BY <1>5 DEF PutChunk, Types, RequestsType, RequestRecord
<1>6. ASSUME NEW r \in Requests, PutChunk(r)
      PROVE  \E q \in Pages, d \in Chunks : \A p \in Pages, c \in Chunks :
                 Held(p, c)' <=> Held(p, c) \/ (p = q /\ c = d)
    <2> DEFINE q == requests[r].page
               d == requests[r].chunk
    <2>1. \A p \in Pages, c \in Chunks : Held(p, c)' <=> Held(p, c) \/ (p = q /\ c = d)
        BY <1>1, <1>6
    <2>2. q \in Pages /\ d \in Chunks
        BY <1>5, <1>6
    <2> HIDE DEF q, d
    <2> QED
        BY <2>1, <2>2
<1>7. CASE chunks' = chunks
    BY <1>3, <1>4, <1>7, ImagesStep
<1>8. CASE chunks' # chunks
    BY <1>2, <1>6, <1>8, WhoChanges
<1> QED
    BY <1>7, <1>8

\* The same in terms of the refinement mapping.
LEMMA HaveStep ==
    ASSUME Types, Kept, [ChunkNext]_chunkVars
    PROVE  \/ ChunksHeld' = ChunksHeld
           \/ \E p \in Pages, c \in Chunks : ChunksHeld' = [ChunksHeld EXCEPT ![p] = @ \cup {c}]
<1>1. ChunksHeld = [p \in Pages |-> {c \in Chunks : Held(p, c)}]
    BY DEF ChunksHeld, Held, HasImage
<1>2. ChunksHeld' = [p \in Pages |-> {c \in Chunks : Held(p, c)'}]
    BY DEF ChunksHeld, Held, HasImage
<1>3. ASSUME \A p \in Pages, c \in Chunks : Held(p, c)' <=> Held(p, c)
      PROVE  ChunksHeld' = ChunksHeld
    BY <1>1, <1>2, <1>3
<1>4. ASSUME NEW q \in Pages, NEW d \in Chunks,
             \A p \in Pages, c \in Chunks : Held(p, c)' <=> Held(p, c) \/ (p = q /\ c = d)
      PROVE  ChunksHeld' = [ChunksHeld EXCEPT ![q] = @ \cup {d}]
    BY <1>1, <1>2, <1>4
<1> QED
    BY <1>3, <1>4, HeldStep

\* The first state is one of PageUpload.
LEMMA RefinesInit == ChunkInit => Upload!Init
<1> SUFFICES ASSUME ChunkInit PROVE Upload!Init
    OBVIOUS
<1>1. \A p \in Pages : ImagesOf(p) = {} /\ \A c \in Chunks : chunks[p][c] = "none"
    BY DEF ChunkInit, ImagesOf
<1>2. \A p \in Pages : rows[p].image = NoImage
    BY DEF ChunkInit
<1> QED
    BY <1>1, <1>2 DEF Upload!Init, ChunkInit, ChunksHeld, PageImage

\* Every step receives a chunk, composes a page, queues the job or does nothing
\* that PageUpload sees.
LEMMA RefinesStep ==
    ASSUME Types, Kept, Types', Kept', [ChunkNext]_chunkVars
    PROVE  [Upload!Next]_Upload!vars
<1>r. rows \in [Pages -> [status : {"pending", "uploading", "uploaded"},
                          total : {0, NChunks}, received : SUBSET Chunks, image : Nat]]
    BY DEF Types, ChunkTypeOK
<1>i. /\ PageImage = [p \in Pages |-> IF rows[p].image = NoImage THEN "none" ELSE "whole"]
      /\ PageImage' = [p \in Pages |-> IF rows'[p].image = NoImage THEN "none" ELSE "whole"]
    BY DEF Kept, RowOK, PageImage, Referenced, ImagesOf
<1>s. (\A p \in Pages : rows'[p].image = rows[p].image) => PageImage' = PageImage
    BY <1>i
<1>1. ASSUME PageImage' = PageImage, (upJob' # "uploading") = (upJob # "uploading")
      PROVE  [Upload!Next]_Upload!vars
    BY <1>1, HaveStep DEF Upload!vars, Upload!Next, Upload!Receive
<1>2. ASSUME NEW r \in Requests, UpdatePageChunkMetadata(r)
      PROVE  [Upload!Next]_Upload!vars
    <2>1. \A p \in Pages : rows'[p].image = rows[p].image
        BY <1>2, <1>r DEF UpdatePageChunkMetadata
    <2> QED
        BY <2>1, <1>2, <1>s, <1>1 DEF UpdatePageChunkMetadata
<1>3. ASSUME NEW r \in Requests, MarkPageUploaded(r)
      PROVE  [Upload!Next]_Upload!vars
    <2> DEFINE p == requests[r].page
    <2>1. p \in Pages /\ requests[r].image # NoImage /\ HasImage(p)
        BY <1>3 DEF MarkPageUploaded, Kept, RequestOK, HasImage, Types, RequestsType
    <2>2. /\ rows'[p].image = requests[r].image
          /\ \A q \in Pages : q # p => rows'[q].image = rows[q].image
        BY <1>3, <1>r, <2>1 DEF MarkPageUploaded
    <2>3. PageImage' = [PageImage EXCEPT ![p] = "whole"]
        BY <1>i, <2>1, <2>2
    <2>4. ChunksHeld[p] = Chunks
        BY <2>1 DEF ChunksHeld, HasImage
    <2>5. ChunksHeld' = ChunksHeld /\ upJob' = upJob
        BY <1>3 DEF MarkPageUploaded, ChunksHeld, ImagesOf
    <2> QED
        BY <2>1, <2>3, <2>4, <2>5 DEF Upload!Next, Upload!Compose
<1>4. ASSUME NEW r \in Requests, QueueJob(r)
      PROVE  [Upload!Next]_Upload!vars
    <2>1. \A p \in Pages : PageImage[p] = "whole"
        BY <1>4, <1>i DEF QueueJob, Kept, RequestOK
    <2>2. ChunksHeld' = ChunksHeld /\ PageImage' = PageImage
        BY <1>4 DEF QueueJob, ChunksHeld, ImagesOf, PageImage, Referenced, IsWhole
    <2>3. CASE upJob' = "pending"
        BY <2>1, <2>2, <2>3 DEF Upload!Next, Upload!Queue
    <2>4. CASE upJob' = upJob
        BY <1>1, <2>2, <2>4
    <2> QED
        BY <1>4, <2>3, <2>4 DEF QueueJob
<1>5. CASE ClaimJob
    BY <1>5, <1>s, <1>1 DEF ClaimJob
<1> QED
    BY <1>1, <1>2, <1>3, <1>4, <1>5, <1>s, WhoChanges

\* The chunked upload implements PageUpload: pages get only whole images, and a job
\* that is queued has one on every page, under all faults and overlaps.
THEOREM UploadRefines == ChunkSpec => ImplementsPageUpload
<1>1. ChunkInit => Upload!Init
    BY RefinesInit
<1>2. Types /\ Kept /\ (Types /\ Kept)' /\ [ChunkNext]_chunkVars => [Upload!Next]_Upload!vars
    BY RefinesStep
<1> QED
    BY <1>1, <1>2, AlwaysKept, PTL DEF ChunkSpec, ImplementsPageUpload, Upload!Spec

(* ---------------------------- a patient client --------------------------- *)

\* Names for the state of a request and of a page.
Active(r) == requests[r].pc # "idle"
Completing(r) == requests[r].pc \in CompleteStages
IsUploaded(p) == rows[p].status = "uploaded"
Alone(r) == \A q \in Requests : Active(q) => q = r

\* A completion knows whether its page is uploaded and whether the job is queued.
StageOK(r) ==
    LET q == requests[r] IN
    /\ q.pc \in {"repeat", "count", "queue"} => IsUploaded(q.page)
    /\ q.pc \in {"compose", "delete", "mark"} => ~IsUploaded(q.page)
    /\ q.pc = "queue" => AllPagesUploaded
    /\ q.pc \in {"page", "repeat"} => (q.status = "uploading" <=> upJob = "uploading")
    /\ q.pc \in {"count", "queue"} => upJob = "uploading"

\* The client takes the pages one after the other.
InOrder ==
    /\ \A p \in Pages : p < client.page => IsUploaded(p)
    /\ \A p \in Pages : p > client.page => ~IsUploaded(p)
    /\ \A p \in Pages : p = client.page /\ IsUploaded(p) => client.acked = Chunks

\* Holds as long as no request is repeated before its answer.
Turn ==
    /\ \A r \in Requests : Active(r) => requests[r].page = client.page
    /\ \A r \in Requests : Completing(r) => Alone(r) /\ client.acked = Chunks
    /\ \A r \in Requests : requests[r].pc \in ChunkStages => ~IsUploaded(requests[r].page)
    /\ \A r \in Requests : StageOK(r)
    /\ InOrder
    /\ upJob # "uploading" => AllPagesUploaded

\* The client starts with the first page.
LEMMA TurnInit == ChunkInit => Turn
BY ZeroIsChunk DEF ChunkInit, Turn, InOrder, StageOK, Active, Completing, IsUploaded, NoRequest,
   ChunkStages, CompleteStages, Pages

\* A step costs at most one fault.
LEMMA BudgetStep ==
    [ChunkNext]_chunkVars => chunkBudget' = chunkBudget \/ \E k \in ChunkFaults : Waste(k)
BY DEF ChunkNext, Handle, chunkVars, SendChunk, SendComplete, ReadChunkPage, PutChunk,
        UpdatePageChunkMetadata, Replies, Swallows, ReadUploadJob, ReadCompletePage, RepeatComplete,
        ComposeImage, DeleteChunks, MarkPageUploaded, CountPages, QueueJob, RequestFails, ClaimJob,
        ChunkFaults

\* A client that has been patient until now did not overlap in this step.
LEMMA PatientBefore ==
    ASSUME Types, [ChunkNext]_chunkVars, Patient'
    PROVE  Patient /\ ~Waste("overlap")
<1>1. "overlap" \in ChunkFaults
    BY DEF ChunkFaults
<1>2. ~Waste("overlap")
    <2>1. ChunkBudget["overlap"] \in Nat
        BY <1>1, ChunkAssumption
    <2> QED
        BY <1>1, <2>1, WasteType DEF Types, Patient
<1>3. ASSUME NEW k \in ChunkFaults, Waste(k), k # "overlap"
      PROVE  chunkBudget'["overlap"] = chunkBudget["overlap"]
    BY <1>1, <1>3 DEF Waste, Types, BudgetType
<1> QED
    BY <1>2, <1>3, BudgetStep DEF Patient

\* A behaviour without faults until now had none in this step.
LEMMA FaultlessBefore ==
    ASSUME Types, [ChunkNext]_chunkVars, Faultless'
    PROVE  Faultless /\ \A k \in ChunkFaults : ~Waste(k)
<1>1. \A k \in ChunkFaults : ~Waste(k)
    <2>1. SUFFICES ASSUME NEW k \in ChunkFaults, Waste(k) PROVE FALSE
        OBVIOUS
    <2>2. chunkBudget'[k] < ChunkBudget[k] /\ ChunkBudget[k] \in Nat
        BY <2>1, WasteType, ChunkAssumption DEF Types
    <2> QED
        BY <2>2 DEF Faultless
<1> QED
    BY <1>1, BudgetStep DEF Faultless

\* A request is answered; what the client has heard can only have grown.
LEMMA TurnAnswer ==
    ASSUME Types, Turn, NEW r \in Requests, requests' = Answered(r),
           rows' = rows, upJob' = upJob \/ (Alone(r) /\ AllPagesUploaded),
           client'.page = client.page, client.acked \subseteq client'.acked,
           client'.acked \subseteq Chunks
    PROVE  Turn'
<1>1. \A q \in Requests : requests'[q] = (IF q = r THEN NoRequest ELSE requests[q])
    BY DEF Answered, Types, RequestsType
<1>2. InOrder'
    BY DEF Turn, InOrder, IsUploaded
<1>3. \A q \in Requests : StageOK(q)'
    <2>1. StageOK(r)'
        <3>1. requests'[r].pc = "idle"
            BY <1>1 DEF NoRequest
        <3> QED
            BY <3>1 DEF StageOK
    <2>2. ASSUME NEW q \in Requests, q # r
          PROVE  StageOK(q)'
        <3>1. requests'[q] = requests[q] /\ StageOK(q)
            BY <1>1, <2>2 DEF Turn
        <3>2. upJob' = upJob \/ requests[q].pc = "idle"
            BY <2>2 DEF Alone, Active
        <3> QED
            BY <3>1, <3>2 DEF StageOK, IsUploaded, AllPagesUploaded
    <2> QED
        BY <2>1, <2>2
<1>4. \A q \in Requests : Completing(q)' => Alone(q)' /\ client'.acked = Chunks
    <2>1. client.acked = Chunks => client'.acked = Chunks
        OBVIOUS
    <2> QED
        BY <1>1, <2>1 DEF Turn, Alone, Completing, Active, NoRequest, CompleteStages
<1>5. \A q \in Requests : Active(q)' => requests'[q].page = client'.page
    BY <1>1 DEF Turn, Active, NoRequest
<1>6. \A q \in Requests : requests'[q].pc \in ChunkStages => ~IsUploaded(requests[q].page)'
    BY <1>1 DEF Turn, IsUploaded, NoRequest, ChunkStages
<1> QED
    BY <1>1, <1>2, <1>3, <1>4, <1>5, <1>6 DEF Turn, AllPagesUploaded, IsUploaded, NoRequest, ChunkStages

\* A request goes from one of its stages to another, nothing else changes.
LEMMA TurnStage ==
    ASSUME Types, Turn, NEW r \in Requests, NEW x, requests' = [requests EXCEPT ![r] = x],
           x.page = requests[r].page,
           \/ requests[r].pc \in ChunkStages /\ x.pc \in ChunkStages
           \/ requests[r].pc \in CompleteStages /\ x.pc \in CompleteStages,
           StageOK(r)', rows' = rows, upJob' = upJob, client' = client
    PROVE  Turn'
<1>1. \A q \in Requests : requests'[q] = (IF q = r THEN x ELSE requests[q])
    BY DEF Types, RequestsType
<1>2. InOrder'
    BY DEF Turn, InOrder, IsUploaded
<1>3. \A q \in Requests : StageOK(q)'
    BY <1>1 DEF Turn, StageOK, IsUploaded, AllPagesUploaded
<1>a. \A q \in Requests : Active(q)' => Active(q)
    BY <1>1 DEF Active, ChunkStages, CompleteStages
<1>b. \A q \in Requests : Completing(q)' => Completing(q)
    BY <1>1 DEF Completing, ChunkStages, CompleteStages
<1>4. \A q \in Requests : Completing(q)' => Alone(q)' /\ client'.acked = Chunks
    BY <1>a, <1>b DEF Turn, Alone
<1>5. \A q \in Requests : Active(q)' => requests'[q].page = client'.page
    BY <1>1, <1>a DEF Turn
<1>6. \A q \in Requests : requests'[q].pc \in ChunkStages => ~IsUploaded(requests[q].page)'
    BY <1>1 DEF Turn, IsUploaded, ChunkStages, CompleteStages
<1> QED
    BY <1>2, <1>3, <1>4, <1>5, <1>6 DEF Turn, AllPagesUploaded, IsUploaded

\* A completion is answered and the client takes the next page.
LEMMA TurnAdvance ==
    ASSUME Types, Turn, NEW r \in Requests, Completing(r), requests' = Answered(r), Advance(r),
           rows' = rows, upJob' = upJob \/ AllPagesUploaded, IsUploaded(requests[r].page)
    PROVE  Turn'
<1>1. \A q \in Requests : requests'[q] = (IF q = r THEN NoRequest ELSE requests[q])
    BY DEF Answered, Types, RequestsType
<1>2. Alone(r) /\ Active(r) /\ client.page = requests[r].page /\ requests[r].page \in Pages
    BY DEF Turn, Completing, CompleteStages, Active, Types, RequestsType
<1>3. client'.page = client.page + 1
    BY <1>2 DEF Advance
<1>4. \A q \in Requests : requests'[q].pc = "idle"
    BY <1>1, <1>2 DEF Alone, Active, NoRequest
<1>5. InOrder'
    BY <1>2, <1>3 DEF Turn, InOrder, IsUploaded, Pages
<1> QED
    BY <1>4, <1>5 DEF Turn, StageOK, Completing, Active, CompleteStages, ChunkStages,
                      AllPagesUploaded, IsUploaded

\* A completion is refused and the client sends the page again.
LEMMA TurnStartOver ==
    ASSUME Types, Turn, NEW r \in Requests, Completing(r), requests' = Answered(r), StartOver(r),
           rows' = rows, upJob' = upJob, ~IsUploaded(requests[r].page)
    PROVE  Turn'
<1>1. \A q \in Requests : requests'[q] = (IF q = r THEN NoRequest ELSE requests[q])
    BY DEF Answered, Types, RequestsType
<1>2. Alone(r) /\ Active(r) /\ client.page = requests[r].page
    BY DEF Turn, Completing, CompleteStages, Active
<1>3. client'.page = client.page
    BY <1>2 DEF StartOver, Types, ClientType
<1>4. \A q \in Requests : requests'[q].pc = "idle"
    BY <1>1, <1>2 DEF Alone, Active, NoRequest
<1>5. InOrder'
    BY <1>2, <1>3 DEF Turn, InOrder, IsUploaded
<1> QED
    BY <1>4, <1>5 DEF Turn, StageOK, Completing, Active, CompleteStages, ChunkStages,
                      AllPagesUploaded, IsUploaded

\* The client sends a chunk of its page.
LEMMA TurnSendChunk ==
    ASSUME Types, Turn, NEW r \in Requests, NEW p \in Pages, NEW c \in Chunks,
           NEW d \in {"intact", "damaged"}, SendChunk(r, p, c, d), InTurn(p, c)
    PROVE  Turn'
<1> DEFINE x == [NoRequest EXCEPT !.pc = "chunk", !.page = p, !.chunk = c, !.data = d]
<1>1. /\ requests' = [requests EXCEPT ![r] = x]
      /\ x.pc = "chunk" /\ x.page = p
      /\ UNCHANGED <<upJob, rows, client>>
      /\ client.page = p /\ client.acked # Chunks
    BY DEF SendChunk, NoRequest, InTurn
<1> HIDE DEF x
<1>2. \A q \in Requests : requests'[q] = (IF q = r THEN x ELSE requests[q])
    BY <1>1 DEF Types, RequestsType
<1>3. ~IsUploaded(p)
    BY <1>1 DEF Turn, InOrder
<1>4. \A q \in Requests : ~Completing(q)'
    <2>1. \A q \in Requests : requests[q].page \in Pages => requests[q].pc \in ChunkStages
        BY ZeroIsChunk DEF InTurn, ChunkStages
    <2>2. \A q \in Requests : ~Completing(q)
        BY <2>1 DEF Completing, CompleteStages, ChunkStages, Types, RequestsType
    <2> QED
        BY <1>1, <1>2, <2>2 DEF Completing, CompleteStages
<1>5. \A q \in Requests : StageOK(q)'
    BY <1>4 DEF StageOK, Completing, CompleteStages
<1>6. \A q \in Requests : Active(q)' => requests'[q].page = client'.page
    BY <1>1, <1>2 DEF Turn, Active
<1>7. \A q \in Requests : requests'[q].pc \in ChunkStages => ~IsUploaded(requests[q].page)'
    BY <1>1, <1>2, <1>3 DEF Turn, IsUploaded
<1>8. InOrder'
    BY <1>1 DEF Turn, InOrder, IsUploaded
<1> QED
    BY <1>1, <1>4, <1>5, <1>6, <1>7, <1>8 DEF Turn, AllPagesUploaded, IsUploaded

\* The client asks for the composition of its page.
LEMMA TurnSendComplete ==
    ASSUME Types, Turn, NEW r \in Requests, NEW p \in Pages, SendComplete(r, p), CompleteInTurn(p)
    PROVE  Turn'
<1> DEFINE x == [NoRequest EXCEPT !.pc = "job", !.page = p]
<1>1. /\ requests' = [requests EXCEPT ![r] = x]
      /\ x.pc = "job" /\ x.page = p
      /\ UNCHANGED <<upJob, rows, client>>
      /\ client.page = p /\ client.acked = Chunks
      /\ \A q \in Requests : requests[q].pc = "idle"
    BY DEF SendComplete, NoRequest, CompleteInTurn
<1> HIDE DEF x
<1>2. \A q \in Requests : requests'[q] = (IF q = r THEN x ELSE requests[q])
    BY <1>1 DEF Types, RequestsType
<1>3. InOrder'
    BY <1>1 DEF Turn, InOrder, IsUploaded
<1>4. \A q \in Requests : Alone(q)' \/ ~Active(q)'
    BY <1>1, <1>2 DEF Alone, Active
<1>5. \A q \in Requests : StageOK(q)' /\ requests'[q].pc \notin ChunkStages
    BY <1>1, <1>2 DEF StageOK, ChunkStages
<1>6. \A q \in Requests : Active(q)' => requests'[q].page = client'.page
    BY <1>1, <1>2 DEF Active
<1>7. \A q \in Requests : Completing(q)' => Active(q)'
    BY DEF Completing, Active, CompleteStages
<1> QED
    BY <1>1, <1>3, <1>4, <1>5, <1>6, <1>7 DEF Turn, AllPagesUploaded, IsUploaded

\* A receipt is written while the page is not uploaded.
LEMMA TurnMetadata ==
    ASSUME Types, Turn, NEW r \in Requests, UpdatePageChunkMetadata(r)
    PROVE  Turn'
<1>r. rows \in [Pages -> [status : {"pending", "uploading", "uploaded"},
                          total : {0, NChunks}, received : SUBSET Chunks, image : Nat]]
    BY DEF Types, ChunkTypeOK
<1>1. /\ requests[r].pc = "record" /\ requests[r].page \in Pages
      /\ ~IsUploaded(requests[r].page)
    BY DEF UpdatePageChunkMetadata, Turn, ChunkStages, Types, RequestsType
<1>2. \A p \in Pages : IsUploaded(p)' <=> IsUploaded(p)
    BY <1>r, <1>1 DEF UpdatePageChunkMetadata, IsUploaded
<1>3. /\ requests' = Answered(r) /\ upJob' = upJob
      /\ client'.page = client.page
      /\ client.acked \subseteq client'.acked
      /\ client'.acked \subseteq Chunks
    BY DEF UpdatePageChunkMetadata, Replies, Acknowledge, Types, ClientType, RequestsType, RequestRecord
<1>4. \A q \in Requests : requests'[q] = (IF q = r THEN NoRequest ELSE requests[q])
    BY <1>3 DEF Answered, Types, RequestsType
<1>5. \A q \in Requests : ~Completing(q)
    BY <1>1 DEF Turn, Alone, Active, Completing, CompleteStages
<1>6. \A q \in Requests : ~Completing(q)'
    BY <1>4, <1>5 DEF Completing, NoRequest, CompleteStages
<1>7. InOrder'
    BY <1>2, <1>3 DEF Turn, InOrder
<1>8. \A q \in Requests : StageOK(q)'
    BY <1>6 DEF StageOK, Completing, CompleteStages
<1>9. \A q \in Requests : Active(q)' => requests'[q].page = client'.page
    BY <1>3, <1>4 DEF Turn, Active, NoRequest
<1>10. \A q \in Requests : requests'[q].pc \in ChunkStages => ~IsUploaded(requests[q].page)'
    BY <1>2, <1>4 DEF Turn, NoRequest, ChunkStages, Types, RequestsType
<1>11. AllPagesUploaded' <=> AllPagesUploaded
    BY <1>2 DEF AllPagesUploaded, IsUploaded
<1> QED
    BY <1>3, <1>6, <1>7, <1>8, <1>9, <1>10, <1>11 DEF Turn

\* The page of the only completion becomes uploaded.
LEMMA TurnMark ==
    ASSUME Types, Turn, NEW r \in Requests, MarkPageUploaded(r)
    PROVE  Turn'
<1>r. rows \in [Pages -> [status : {"pending", "uploading", "uploaded"},
                          total : {0, NChunks}, received : SUBSET Chunks, image : Nat]]
    BY DEF Types, ChunkTypeOK
<1>p. PICK p : p = requests[r].page
    OBVIOUS
<1> DEFINE x == [requests[r] EXCEPT !.pc = "count"]
<1>1. /\ requests[r].pc = "mark" /\ p \in Pages /\ ~IsUploaded(p)
      /\ Completing(r) /\ Alone(r) /\ client.acked = Chunks /\ p = client.page
    BY <1>p DEF MarkPageUploaded, Turn, StageOK, Completing, CompleteStages, Active, Types, RequestsType
<1>2. upJob = "uploading"
    BY <1>1 DEF Turn, AllPagesUploaded, IsUploaded
<1>3. requests' = [requests EXCEPT ![r] = x] /\ upJob' = upJob /\ client' = client
    BY DEF MarkPageUploaded, Step
<1>4. x.pc = "count" /\ x.page = p
    BY <1>p DEF Types, RequestsType, RequestRecord
<1> HIDE DEF x
<1>5. \A q \in Requests : requests'[q] = (IF q = r THEN x ELSE requests[q])
    BY <1>3 DEF Types, RequestsType
<1>6. IsUploaded(p)' /\ \A q \in Pages : q # p => (IsUploaded(q)' <=> IsUploaded(q))
    <2> DEFINE y == [status |-> "uploaded", total |-> 0, received |-> {}, image |-> requests[r].image]
    <2>1. rows' = [rows EXCEPT ![p] = y] /\ y.status = "uploaded"
        BY <1>p DEF MarkPageUploaded
    <2> HIDE DEF y
    <2>2. \A q \in Pages : rows'[q] = (IF q = p THEN y ELSE rows[q])
        BY <1>r, <2>1
    <2> QED
        BY <1>1, <2>1, <2>2 DEF IsUploaded
<1>7. Alone(r)' /\ Completing(r)'
    BY <1>1, <1>4, <1>5 DEF Alone, Active, Completing, CompleteStages
<1>8. \A q \in Requests : q # r => requests'[q].pc = "idle"
    BY <1>1, <1>5 DEF Alone, Active
<1>9. InOrder'
    BY <1>1, <1>3, <1>6 DEF Turn, InOrder
<1>10. \A q \in Requests : StageOK(q)'
    <2>1. requests'[r].pc = "count" /\ requests'[r].page = p
        BY <1>4, <1>5
    <2>2. StageOK(r)'
        BY <1>2, <1>3, <1>6, <2>1 DEF StageOK
    <2>3. ASSUME NEW q \in Requests, q # r
          PROVE  StageOK(q)'
        BY <1>8, <2>3 DEF StageOK
    <2> QED
        BY <2>2, <2>3
<1>11. \A q \in Requests : Active(q)' => requests'[q].page = client'.page
    BY <1>1, <1>3, <1>4, <1>5, <1>8 DEF Active
<1>12. \A q \in Requests : requests'[q].pc \notin ChunkStages
    BY <1>4, <1>5, <1>8 DEF ChunkStages
<1>13. \A q \in Requests : Completing(q)' => Alone(q)' /\ client'.acked = Chunks
    BY <1>1, <1>3, <1>7, <1>8 DEF Completing, CompleteStages
<1> QED
    BY <1>2, <1>3, <1>9, <1>10, <1>11, <1>12, <1>13 DEF Turn

\* The other steps of a chunk request.
LEMMA TurnChunkRequest ==
    ASSUME Types, Turn, NEW r \in Requests, ReadChunkPage(r) \/ PutChunk(r)
    PROVE  Turn'
<1>t. requests[r].page \in Pages /\ requests[r].pc \in ChunkStages
    BY DEF ReadChunkPage, PutChunk, ChunkStages, Types, RequestsType
<1>1. CASE requests' = Answered(r)
    <2>1. /\ client'.page = client.page /\ client.acked \subseteq client'.acked
          /\ client'.acked \subseteq Chunks
        BY <1>1 DEF ReadChunkPage, PutChunk, Acknowledge, Types, ClientType, RequestsType,
                    RequestRecord, Step
    <2>2. rows' = rows /\ upJob' = upJob
        BY DEF ReadChunkPage, PutChunk
    <2> QED
        BY <1>1, <2>1, <2>2, TurnAnswer
<1>2. CASE requests' # Answered(r)
    <2>1. \E x : /\ requests' = [requests EXCEPT ![r] = x]
                 /\ x.page = requests[r].page /\ x.pc \in {"put", "record"}
        <3>1. requests[r] \in RequestRecord
            BY DEF Types, RequestsType
        <3>2. CASE ReadChunkPage(r)
            <4> DEFINE x == [requests[r] EXCEPT !.pc = "put", !.total = NChunks,
                                                !.received = rows[requests[r].page].received]
            <4>1. requests' = [requests EXCEPT ![r] = x]
                BY <1>2, <3>2 DEF ReadChunkPage
            <4>2. x.page = requests[r].page /\ x.pc = "put"
                BY <3>1 DEF RequestRecord
            <4> QED
                BY <4>1, <4>2
        <3>3. CASE PutChunk(r)
            <4> DEFINE x == [requests[r] EXCEPT !.pc = "record"]
            <4>1. requests' = [requests EXCEPT ![r] = x]
                BY <3>3 DEF PutChunk, Step
            <4>2. x.page = requests[r].page /\ x.pc = "record"
                BY <3>1 DEF RequestRecord
            <4> QED
                BY <4>1, <4>2
        <3> QED
            BY <3>2, <3>3
    <2>2. PICK x : /\ requests' = [requests EXCEPT ![r] = x]
                   /\ x.page = requests[r].page /\ x.pc \in {"put", "record"}
        BY <2>1
    <2>3. requests'[r] = x
        BY <2>2 DEF Types, RequestsType
    <2>4. StageOK(r)'
        BY <2>2, <2>3 DEF StageOK
    <2>5. rows' = rows /\ upJob' = upJob /\ client' = client
        BY <1>2 DEF ReadChunkPage, PutChunk
    <2>6. x.pc \in ChunkStages
        BY <2>2 DEF ChunkStages
    <2> QED
        BY <1>t, <2>2, <2>4, <2>5, <2>6, TurnStage
<1> QED
    BY <1>1, <1>2

\* The next stage of a completion that stays in flight.
LEMMA TurnCompleteStage ==
    ASSUME Types, Turn, NEW r \in Requests, NEW pc \in CompleteStages, Step(r, pc),
           requests[r].pc \in CompleteStages,
           pc \in {"repeat", "count", "queue"} => IsUploaded(requests[r].page),
           pc \in {"compose", "delete", "mark"} => ~IsUploaded(requests[r].page),
           pc = "queue" => AllPagesUploaded,
           pc = "repeat" => (requests[r].status = "uploading" <=> upJob = "uploading"),
           pc \in {"count", "queue"} => upJob = "uploading",
           pc # "page",
           rows' = rows, upJob' = upJob, client' = client
    PROVE  Turn'
<1> DEFINE x == [requests[r] EXCEPT !.pc = pc]
<1>1. requests' = [requests EXCEPT ![r] = x]
    BY DEF Step
<1>2. x.pc = pc /\ x.page = requests[r].page /\ x.status = requests[r].status
    BY DEF Types, RequestsType, RequestRecord
<1> HIDE DEF x
<1>3. requests'[r] = x
    BY <1>1 DEF Types, RequestsType
<1>4. StageOK(r)'
    BY <1>2, <1>3 DEF StageOK, IsUploaded, AllPagesUploaded
<1> QED
    BY <1>1, <1>2, <1>4, TurnStage

\* A completion reads the status of the job, which stays as it is until it queues.
LEMMA TurnReadJob ==
    ASSUME Types, Turn, NEW r \in Requests, ReadUploadJob(r)
    PROVE  Turn'
<1> DEFINE x == [requests[r] EXCEPT !.pc = "page", !.status = upJob]
<1>1. requests' = [requests EXCEPT ![r] = x] /\ requests[r].pc = "job"
    BY DEF ReadUploadJob
<1>2. x.pc = "page" /\ x.page = requests[r].page /\ x.status = upJob
    BY DEF Types, RequestsType, RequestRecord
<1> HIDE DEF x
<1>3. requests'[r] = x /\ rows' = rows /\ upJob' = upJob /\ client' = client
    BY <1>1 DEF Types, RequestsType, ReadUploadJob
<1>4. StageOK(r)'
    BY <1>2, <1>3 DEF StageOK
<1>5. requests[r].pc \in CompleteStages /\ x.pc \in CompleteStages
    BY <1>1, <1>2 DEF CompleteStages
<1> QED
    BY <1>1, <1>2, <1>3, <1>4, <1>5, TurnStage

\* The other steps of a completion.
LEMMA TurnCompleteRequest ==
    ASSUME Types, Kept, Turn, NEW r \in Requests,
           \/ ReadCompletePage(r) \/ RepeatComplete(r) \/ ComposeImage(r) \/ DeleteChunks(r)
           \/ CountPages(r) \/ QueueJob(r)
    PROVE  Turn'
<1>1. /\ Completing(r) /\ requests[r].page \in Pages /\ StageOK(r)
      /\ Alone(r) /\ client.acked = Chunks
      /\ rows' = rows
    BY DEF ReadCompletePage, RepeatComplete, ComposeImage, DeleteChunks, CountPages, QueueJob,
           Completing, CompleteStages, Types, RequestsType, Turn
<1>2. \A p \in Pages : IsUploaded(p) => rows[p].image # NoImage
    BY DEF Kept, RowOK, IsUploaded
<1>3. {"repeat", "compose", "delete", "mark", "count", "queue"} \subseteq CompleteStages
    BY DEF CompleteStages
<1>4. requests[r].pc \in CompleteStages
    BY <1>1 DEF Completing
<1>a. ASSUME Replies(r, Advance(r)), IsUploaded(requests[r].page),
             upJob' = upJob \/ AllPagesUploaded
      PROVE  Turn'
    <2>1. CASE Advance(r)
        BY <1>1, <1>a, <2>1, TurnAdvance DEF Replies
    <2>2. CASE UNCHANGED client
        <3>1. client.acked \subseteq client'.acked /\ client'.acked \subseteq Chunks
            BY <2>2 DEF Types, ClientType
        <3> QED
            BY <1>1, <1>a, <2>2, <3>1, TurnAnswer DEF Replies
    <2> QED
        BY <1>a, <2>1, <2>2 DEF Replies
<1>b. ASSUME Swallows(r), IsUploaded(requests[r].page), upJob' = upJob
      PROVE  Turn'
    BY <1>1, <1>b, TurnAdvance DEF Swallows
<1>5. CASE ReadCompletePage(r)
    <2>1. requests[r].pc = "page" /\ upJob' = upJob
        BY <1>5 DEF ReadCompletePage
    <2>2. requests[r].status = "uploading" <=> upJob = "uploading"
        BY <1>1, <2>1 DEF StageOK
    <2>3. CASE Step(r, "repeat") /\ client' = client /\ IsUploaded(requests[r].page)
        BY <1>1, <1>3, <1>4, <2>1, <2>2, <2>3, TurnCompleteStage
    <2>4. CASE Step(r, "compose") /\ client' = client /\ ~IsUploaded(requests[r].page)
        BY <1>1, <1>3, <1>4, <2>1, <2>4, TurnCompleteStage
    <2>5. CASE requests' = Answered(r) /\ StartOver(r) /\ ~IsUploaded(requests[r].page)
        BY <1>1, <2>1, <2>5, TurnStartOver
    <2> QED
        BY <1>1, <1>2, <1>5, <2>3, <2>4, <2>5 DEF ReadCompletePage, IsUploaded
<1>6. CASE RepeatComplete(r)
    <2>1. requests[r].pc = "repeat" /\ upJob' = upJob
        BY <1>6 DEF RepeatComplete
    <2>2. IsUploaded(requests[r].page) /\ (requests[r].status = "uploading" <=> upJob = "uploading")
        BY <1>1, <2>1 DEF StageOK
    <2>3. CASE MayQueueRepeated(r) /\ Step(r, "queue") /\ UNCHANGED client
        BY <1>1, <1>3, <1>4, <2>1, <2>2, <2>3, TurnCompleteStage DEF MayQueueRepeated
    <2>4. CASE Replies(r, Advance(r))
        BY <1>a, <2>1, <2>2, <2>4
    <2>5. CASE Swallows(r)
        BY <1>b, <2>1, <2>2, <2>5
    <2> QED
        BY <1>6, <2>3, <2>4, <2>5 DEF RepeatComplete
<1>7. CASE ComposeImage(r)
    <2>1. requests[r].pc = "compose" /\ upJob' = upJob
        BY <1>7 DEF ComposeImage
    <2>2. ~IsUploaded(requests[r].page)
        BY <1>1, <2>1 DEF StageOK
    <2>3. CASE requests' = Answered(r) /\ StartOver(r)
        BY <1>1, <2>1, <2>2, <2>3, TurnStartOver
    <2>4. ASSUME NEW n, requests' = [requests EXCEPT ![r].pc = "delete", ![r].image = n],
                 UNCHANGED client
          PROVE  Turn'
        <3> DEFINE x == [requests[r] EXCEPT !.pc = "delete", !.image = n]
        <3>1. requests' = [requests EXCEPT ![r] = x]
            BY <2>4
        <3>2. x.pc = "delete" /\ x.page = requests[r].page
            BY DEF Types, RequestsType, RequestRecord
        <3> HIDE DEF x
        <3>3. requests'[r] = x
            BY <3>1 DEF Types, RequestsType
        <3>4. StageOK(r)'
            BY <1>1, <2>2, <3>2, <3>3 DEF StageOK, IsUploaded
        <3> QED
            BY <1>1, <1>3, <1>4, <2>1, <2>4, <3>1, <3>2, <3>4, TurnStage
    <2> QED
        BY <1>7, <2>3, <2>4 DEF ComposeImage
<1>8. CASE DeleteChunks(r)
    <2>1. /\ requests[r].pc = "delete" /\ upJob' = upJob /\ client' = client /\ Step(r, "mark")
        BY <1>8 DEF DeleteChunks
    <2> QED
        BY <1>1, <1>3, <1>4, <2>1, TurnCompleteStage DEF StageOK
<1>9. CASE CountPages(r)
    <2>1. requests[r].pc = "count" /\ upJob' = upJob
        BY <1>9 DEF CountPages
    <2>2. IsUploaded(requests[r].page) /\ upJob = "uploading"
        BY <1>1, <2>1 DEF StageOK
    <2>3. CASE AllPagesUploaded /\ Step(r, "queue") /\ UNCHANGED client
        BY <1>1, <1>3, <1>4, <2>1, <2>2, <2>3, TurnCompleteStage
    <2>4. CASE Replies(r, Advance(r))
        BY <1>a, <2>1, <2>2, <2>4
    <2>5. CASE Swallows(r)
        BY <1>b, <2>1, <2>2, <2>5
    <2> QED
        BY <1>9, <2>3, <2>4, <2>5 DEF CountPages
<1>10. CASE QueueJob(r)
    <2>1. requests[r].pc = "queue"
        BY <1>10 DEF QueueJob
    <2>2. IsUploaded(requests[r].page) /\ AllPagesUploaded
        BY <1>1, <2>1 DEF StageOK
    <2>3. CASE Replies(r, Advance(r))
        BY <1>a, <2>2, <2>3
    <2>4. CASE Swallows(r) /\ UNCHANGED upJob
        BY <1>b, <2>2, <2>4
    <2> QED
        BY <1>10, <2>3, <2>4 DEF QueueJob
<1> QED
    BY <1>5, <1>6, <1>7, <1>8, <1>9, <1>10

\* Turn is kept while the client is patient.
LEMMA TurnStep ==
    ASSUME Types, Kept, Turn, [ChunkNext]_chunkVars, Patient'
    PROVE  Turn'
<1>1. ~Waste("overlap")
    BY PatientBefore
<1>2. ASSUME NEW r \in Requests, NEW p \in Pages, NEW c \in Chunks,
             NEW d \in {"intact", "damaged"}, SendChunk(r, p, c, d)
      PROVE  Turn'
    <2>1. InTurn(p, c)
        BY <1>1, <1>2 DEF SendChunk
    <2> QED
        BY <1>2, <2>1, TurnSendChunk
<1>3. ASSUME NEW r \in Requests, NEW p \in Pages, SendComplete(r, p)
      PROVE  Turn'
    <2>1. CompleteInTurn(p)
        BY <1>1, <1>3 DEF SendComplete
    <2> QED
        BY <1>3, <2>1, TurnSendComplete
<1>4. ASSUME NEW r \in Requests, Handle(r)
      PROVE  Turn'
    BY <1>4, TurnChunkRequest, TurnMetadata, TurnReadJob, TurnCompleteRequest, TurnMark DEF Handle
<1>5. ASSUME NEW r \in Requests, RequestFails(r)
      PROVE  Turn'
    <2>1. client.acked \subseteq client'.acked /\ client'.acked \subseteq Chunks
        BY <1>5 DEF RequestFails, Types, ClientType
    <2> QED
        BY <1>5, <2>1, TurnAnswer DEF RequestFails
<1>6. CASE ClaimJob
    <2>1. UNCHANGED <<rows, requests, client>> /\ upJob # "uploading" /\ upJob' # "uploading"
        BY <1>6 DEF ClaimJob
    <2>2. \A q \in Requests : StageOK(q)'
        BY <2>1 DEF Turn, StageOK, IsUploaded, AllPagesUploaded
    <2>3. InOrder'
        BY <2>1 DEF Turn, InOrder, IsUploaded
    <2> QED
        BY <2>1, <2>2, <2>3 DEF Turn, Active, Completing, Alone, IsUploaded, AllPagesUploaded
<1>7. CASE UNCHANGED chunkVars
    <2>1. UNCHANGED <<upJob, rows, requests, client>>
        BY <1>7 DEF chunkVars
    <2>2. \A q \in Requests : StageOK(q)'
        BY <2>1 DEF Turn, StageOK, IsUploaded, AllPagesUploaded
    <2>3. InOrder'
        BY <2>1 DEF Turn, InOrder, IsUploaded
    <2> QED
        BY <2>1, <2>2, <2>3 DEF Turn, Active, Completing, Alone, IsUploaded, AllPagesUploaded
<1> QED
    BY <1>2, <1>3, <1>4, <1>5, <1>6, <1>7 DEF ChunkNext

\* The two layers together.
TurnInv == Types /\ Kept /\ (Patient => Turn)

\* The two layers hold in every state.
LEMMA AlwaysTurn == ChunkSpec => []TurnInv
<1>1. ChunkInit => TurnInv
    BY TypesInit, KeptInit, TurnInit DEF TurnInv
<1>2. TurnInv /\ [ChunkNext]_chunkVars => TurnInv'
    <2> SUFFICES ASSUME TurnInv, [ChunkNext]_chunkVars PROVE TurnInv'
        OBVIOUS
    <2>1. Types' /\ Kept'
        BY TypesStep, KeptStep DEF TurnInv
    <2>2. ASSUME Patient' PROVE Turn'
        BY <2>2, PatientBefore, TurnStep DEF TurnInv
    <2> QED
        BY <2>1, <2>2 DEF TurnInv
<1> QED
    BY <1>1, <1>2, PTL DEF ChunkSpec

\* Completions repeated after lost answers do not queue a job a worker has taken.
THEOREM QueuedOnce == ChunkSpec => JobQueuedOnce
<1>1. TurnInv /\ [ChunkNext]_chunkVars =>
        [Patient /\ upJob = "taken" => upJob' = "taken"]_upJob
    <2> SUFFICES ASSUME TurnInv, [ChunkNext]_chunkVars, Patient, upJob = "taken"
                 PROVE  upJob' = "taken"
        OBVIOUS
    <2>1. ASSUME NEW r \in Requests, QueueJob(r)
          PROVE  FALSE
        BY <2>1 DEF QueueJob, TurnInv, Turn, StageOK
    <2> QED
        BY <2>1, WhoChanges DEF ClaimJob
<1> QED
    BY <1>1, AlwaysTurn, PTL DEF ChunkSpec, JobQueuedOnce

(* ----------------------------- without faults ---------------------------- *)

\* All chunks of a page are deleted.
NoChunks(p) == \A c \in Chunks : chunks[p][c] = "none"

\* Holds as long as nothing fails: an image no row refers to belongs to the
\* completion that is about to record it.
Accounted ==
    /\ \A p \in Pages : IsUploaded(p) => NoChunks(p) /\ ImagesOf(p) = Referenced(p)
    /\ \A i \in images : ~IsUploaded(i.page) =>
          \E r \in Requests : /\ requests[r].pc \in {"delete", "mark"}
                              /\ requests[r].page = i.page /\ requests[r].image = i.n
    /\ \A r \in Requests : requests[r].pc = "mark" => NoChunks(requests[r].page)

\* There are no images in the first state.
LEMMA AccountedInit == ChunkInit => Accounted
BY DEF ChunkInit, Accounted, IsUploaded, NoRequest

\* A step that touches no row, no chunk and no image, and ends no writing request.
LEMMA AccountedQuiet ==
    ASSUME Types, Accounted, rows' = rows, chunks' = chunks, images' = images,
           \A r \in Requests :
              \/ requests'[r] = requests[r]
              \/ requests[r].pc \notin {"delete", "mark"} /\ requests'[r].pc # "mark"
    PROVE  Accounted'
<1>1. \A p \in Pages : IsUploaded(p) => NoChunks(p) /\ ImagesOf(p) = Referenced(p)
    BY DEF Accounted
<1>2. \A p \in Pages : (IsUploaded(p) => NoChunks(p) /\ ImagesOf(p) = Referenced(p))'
    BY <1>1 DEF IsUploaded, NoChunks, ImagesOf, Referenced
<1>3. \A i \in images' : ~IsUploaded(i.page)' =>
          \E r \in Requests : /\ requests'[r].pc \in {"delete", "mark"}
                              /\ requests'[r].page = i.page /\ requests'[r].image = i.n
    BY DEF Accounted, IsUploaded
<1>4. \A r \in Requests : requests'[r].pc = "mark" => NoChunks(requests[r].page)'
    BY DEF Accounted, NoChunks
<1> QED
    BY <1>2, <1>3, <1>4 DEF Accounted, IsUploaded, NoChunks

\* A chunk is stored for the page in the making.
LEMMA AccountedPut ==
    ASSUME Types, Turn, Accounted, NEW r \in Requests, PutChunk(r)
    PROVE  Accounted'
<1>p. PICK p : p = requests[r].page
    OBVIOUS
<1>1. /\ p \in Pages /\ ~IsUploaded(p) /\ UNCHANGED <<rows, images>>
      /\ \A q \in Pages : q # p => chunks'[q] = chunks[q]
      /\ requests[r].pc = "put"
    BY <1>p DEF PutChunk, Turn, ChunkStages, Types, RequestsType, ChunkTypeOK
<1>2. \A q \in Requests : ~Completing(q)
    BY <1>1 DEF Turn, Alone, Active, Completing, CompleteStages
<1>3. \A q \in Requests : requests[q].pc \notin {"delete", "mark"} /\ requests'[q].pc # "mark"
    BY <1>2 DEF PutChunk, Step, Completing, CompleteStages, Types, RequestsType, RequestRecord
<1>4. \A q \in Pages : (IsUploaded(q) => NoChunks(q) /\ ImagesOf(q) = Referenced(q))'
    BY <1>1 DEF Accounted, IsUploaded, NoChunks, ImagesOf, Referenced
<1>5. \A i \in images' : IsUploaded(i.page)'
    BY <1>1, <1>3 DEF Accounted, IsUploaded
<1> QED
    BY <1>3, <1>4, <1>5 DEF Accounted

\* The first image of a page belongs to the completion that composed it.
LEMMA AccountedCompose ==
    ASSUME Types, Turn, Accounted, NEW r \in Requests, ComposeImage(r), images' # images
    PROVE  Accounted'
<1> DEFINE n == Cardinality(ImagesOf(requests[r].page)) + 1
<1>p. PICK p : p = requests[r].page
    OBVIOUS
<1>n. PICK m : m = n
    OBVIOUS
<1>1. /\ p \in Pages /\ requests[r].pc = "compose"
      /\ ~IsUploaded(p) /\ Alone(r) /\ UNCHANGED <<rows, chunks>>
      /\ images' = images \cup {[page |-> p, n |-> m, parts |-> chunks[p]]}
      /\ requests' = [requests EXCEPT ![r].pc = "delete", ![r].image = m]
    BY <1>p, <1>n DEF ComposeImage, Turn, StageOK, Completing, CompleteStages, Types, RequestsType
<1> HIDE DEF n
<1>2. \A q \in Requests : q # r => requests'[q] = requests[q] /\ requests[q].pc = "idle"
    BY <1>1 DEF Alone, Active, Types, RequestsType
<1>3. requests'[r].pc = "delete" /\ requests'[r].image = m /\ requests'[r].page = p
    BY <1>1, <1>p DEF Types, RequestsType, RequestRecord
<1>4. \A i \in images : IsUploaded(i.page)
    BY <1>1, <1>2 DEF Accounted
<1>5. \A q \in Pages : IsUploaded(q) => ImagesOf(q)' = ImagesOf(q)
    BY <1>1 DEF ImagesOf
<1>6. \A q \in Pages : (IsUploaded(q) => NoChunks(q) /\ ImagesOf(q) = Referenced(q))'
    BY <1>1, <1>5 DEF Accounted, IsUploaded, NoChunks, Referenced
<1>7. \A i \in images' : ~IsUploaded(i.page)' =>
          \E q \in Requests : /\ requests'[q].pc \in {"delete", "mark"}
                              /\ requests'[q].page = i.page /\ requests'[q].image = i.n
    <2>1. \A i \in images' : ~IsUploaded(i.page)' => i.page = p /\ i.n = m
        BY <1>1, <1>4 DEF IsUploaded
    <2> QED
        BY <1>3, <2>1
<1>8. \A q \in Requests : requests'[q].pc # "mark"
    BY <1>2, <1>3
<1> QED
    BY <1>6, <1>7, <1>8 DEF Accounted

\* The chunks of a composed page are deleted.
LEMMA AccountedDelete ==
    ASSUME Types, Turn, Accounted, NEW r \in Requests, DeleteChunks(r), ~Waste("swallow")
    PROVE  Accounted'
<1>p. PICK p : p = requests[r].page
    OBVIOUS
<1>1. /\ p \in Pages /\ requests[r].pc = "delete"
      /\ ~IsUploaded(p) /\ Alone(r) /\ UNCHANGED <<rows, images>>
      /\ chunks' = [chunks EXCEPT ![p] = [c \in Chunks |-> "none"]]
      /\ requests' = [requests EXCEPT ![r].pc = "mark"]
    BY <1>p DEF DeleteChunks, DeletePrefix, Step, Turn, StageOK, Completing, CompleteStages, Types,
                RequestsType
<1>2. \A q \in Requests : q # r => requests'[q] = requests[q] /\ requests[q].pc = "idle"
    BY <1>1 DEF Alone, Active, Types, RequestsType
<1>3. requests'[r].pc = "mark" /\ requests'[r].image = requests[r].image /\ requests'[r].page = p
    BY <1>1, <1>p DEF Types, RequestsType, RequestRecord
<1>4. NoChunks(p)' /\ \A q \in Pages : q # p => chunks'[q] = chunks[q]
    BY <1>1 DEF NoChunks, Types, ChunkTypeOK
<1>5. \A q \in Pages : (IsUploaded(q) => NoChunks(q) /\ ImagesOf(q) = Referenced(q))'
    BY <1>1, <1>4 DEF Accounted, IsUploaded, NoChunks, Referenced, ImagesOf
<1>6. \A i \in images' : ~IsUploaded(i.page)' =>
          \E q \in Requests : /\ requests'[q].pc \in {"delete", "mark"}
                              /\ requests'[q].page = i.page /\ requests'[q].image = i.n
    BY <1>1, <1>2, <1>3, <1>p DEF Accounted, IsUploaded
<1>7. \A q \in Requests : requests'[q].pc = "mark" => NoChunks(requests[q].page)'
    BY <1>2, <1>3, <1>4 DEF NoChunks
<1> QED
    BY <1>5, <1>6, <1>7 DEF Accounted

\* The row takes over the only image of its page.
LEMMA AccountedMark ==
    ASSUME Types, Turn, Accounted, NEW r \in Requests, MarkPageUploaded(r)
    PROVE  Accounted'
<1>p. PICK p : p = requests[r].page
    OBVIOUS
<1>m. PICK m : m = requests[r].image
    OBVIOUS
<1>1. /\ p \in Pages /\ requests[r].pc = "mark"
      /\ ~IsUploaded(p) /\ Alone(r) /\ UNCHANGED <<chunks, images>>
      /\ requests' = [requests EXCEPT ![r].pc = "count"]
    BY <1>p DEF MarkPageUploaded, Step, Turn, StageOK, Completing, CompleteStages, Types,
                RequestsType
<1>2. \A q \in Requests : q # r => requests'[q] = requests[q] /\ requests[q].pc = "idle"
    BY <1>1 DEF Alone, Active, Types, RequestsType
<1>3. requests'[r].pc = "count"
    BY <1>1 DEF Types, RequestsType, RequestRecord
<1>4. /\ rows'[p].status = "uploaded" /\ rows'[p].image = m
      /\ \A q \in Pages : q # p => rows'[q] = rows[q]
    <2> DEFINE y == [status |-> "uploaded", total |-> 0, received |-> {}, image |-> m]
    <2>1. rows' = [rows EXCEPT ![p] = y] /\ y.status = "uploaded" /\ y.image = m
        BY <1>p, <1>m DEF MarkPageUploaded
    <2> HIDE DEF y
    <2> QED
        BY <1>1, <2>1 DEF Types, ChunkTypeOK
<1>5. \A i \in images : i.page = p => i.n = m
    BY <1>1, <1>2, <1>m DEF Accounted
<1>6. NoChunks(p)
    BY <1>1, <1>p DEF Accounted
<1>7. ASSUME NEW q \in Pages
      PROVE  (IsUploaded(q) => NoChunks(q) /\ ImagesOf(q) = Referenced(q))'
    <2>1. CASE q = p
        BY <1>1, <1>4, <1>5, <1>6, <2>1 DEF IsUploaded, NoChunks, Referenced, ImagesOf
    <2>2. CASE q # p
        BY <1>1, <1>4, <2>2 DEF Accounted, IsUploaded, NoChunks, Referenced, ImagesOf
    <2> QED
        BY <2>1, <2>2
<1>8. \A i \in images' : IsUploaded(i.page)'
    <2>1. \A i \in images : i.page \in Pages
        BY DEF Types, ChunkTypeOK
    <2>2. \A i \in images : i.page # p => IsUploaded(i.page)
        BY <1>1, <1>2, <1>p DEF Accounted
    <2> QED
        BY <1>1, <1>4, <2>1, <2>2 DEF IsUploaded
<1>9. \A q \in Requests : requests'[q].pc # "mark"
    BY <1>2, <1>3
<1> QED
    BY <1>7, <1>8, <1>9 DEF Accounted

\* A receipt concerns a page without image.
LEMMA AccountedMetadata ==
    ASSUME Types, Turn, Accounted, NEW r \in Requests, UpdatePageChunkMetadata(r)
    PROVE  Accounted'
<1>p. PICK p : p = requests[r].page
    OBVIOUS
<1>1. /\ p \in Pages /\ ~IsUploaded(p) /\ UNCHANGED <<chunks, images>>
      /\ requests[r].pc = "record" /\ requests' = Answered(r)
    BY <1>p DEF UpdatePageChunkMetadata, Replies, Turn, ChunkStages, Types, RequestsType
<1>2. rows'[p].status = "uploading" /\ \A q \in Pages : q # p => rows'[q] = rows[q]
    BY <1>1, <1>p DEF UpdatePageChunkMetadata, Types, ChunkTypeOK
<1>3. \A q \in Requests : q # r => requests'[q] = requests[q]
    BY <1>1 DEF Answered, Types, RequestsType
<1>4. requests'[r].pc = "idle"
    BY <1>1 DEF Answered, Types, RequestsType, NoRequest
<1>5. ASSUME NEW q \in Pages
      PROVE  (IsUploaded(q) => NoChunks(q) /\ ImagesOf(q) = Referenced(q))'
    <2>1. CASE q = p
        BY <1>2, <2>1 DEF IsUploaded
    <2>2. CASE q # p
        BY <1>1, <1>2, <2>2 DEF Accounted, IsUploaded, NoChunks, Referenced, ImagesOf
    <2> QED
        BY <2>1, <2>2
<1>6. \A i \in images : ~IsUploaded(i.page)' => ~IsUploaded(i.page)
    BY <1>1, <1>2 DEF IsUploaded, Types, ChunkTypeOK
<1>7. \A i \in images' : ~IsUploaded(i.page)' =>
          \E q \in Requests : /\ requests'[q].pc \in {"delete", "mark"}
                              /\ requests'[q].page = i.page /\ requests'[q].image = i.n
    BY <1>1, <1>3, <1>6 DEF Accounted
<1>8. \A q \in Requests : requests'[q].pc = "mark" => NoChunks(requests[q].page)'
    BY <1>1, <1>3, <1>4 DEF Accounted, NoChunks
<1> QED
    BY <1>5, <1>7, <1>8 DEF Accounted

\* Accounted is kept while nothing fails.
LEMMA AccountedStep ==
    ASSUME Types, Turn, Accounted, [ChunkNext]_chunkVars, Faultless'
    PROVE  Accounted'
<1>1. ~Waste("fail") /\ ~Waste("swallow") /\ ~Waste("overlap")
    BY FaultlessBefore DEF ChunkFaults
<1>2. ASSUME NEW r \in Requests, PutChunk(r) \/ UpdatePageChunkMetadata(r)
                \/ DeleteChunks(r) \/ MarkPageUploaded(r) \/ (ComposeImage(r) /\ images' # images)
      PROVE  Accounted'
    BY <1>1, <1>2, AccountedPut, AccountedMetadata, AccountedDelete, AccountedMark, AccountedCompose
<1>3. ASSUME NEW r \in Requests, requests[r].pc \notin {"delete", "mark"},
             requests' = Answered(r) \/ (\E pc : pc # "mark" /\ Step(r, pc)),
             UNCHANGED <<rows, chunks, images>>
      PROVE  Accounted'
    <2>1. \A q \in Requests : q # r => requests'[q] = requests[q]
        BY <1>3 DEF Answered, Step, Types, RequestsType
    <2>2. requests'[r].pc # "mark"
        BY <1>3 DEF Answered, Step, Types, RequestsType, NoRequest, RequestRecord
    <2> QED
        BY <1>3, <2>1, <2>2, AccountedQuiet
<1>4. ASSUME NEW r \in Requests, ReadCompletePage(r) \/ RepeatComplete(r) \/ CountPages(r) \/ QueueJob(r)
      PROVE  Accounted'
    BY <1>3, <1>4 DEF ReadCompletePage, RepeatComplete, CountPages, QueueJob, Replies, Swallows
<1>5. ASSUME NEW r \in Requests, ComposeImage(r), images' = images
      PROVE  Accounted'
    <2>1. requests' = Answered(r) \/ requests'[r].pc = "delete"
        BY <1>5 DEF ComposeImage, Types, RequestsType, RequestRecord
    <2>2. requests'[r].pc # "mark"
        BY <2>1 DEF Answered, Types, RequestsType, NoRequest
    <2>3. \A q \in Requests : q # r => requests'[q] = requests[q]
        BY <1>5 DEF ComposeImage, Answered, Types, RequestsType
    <2> QED
        BY <1>5, <2>2, <2>3, AccountedQuiet DEF ComposeImage
<1>6. ASSUME NEW r \in Requests, NEW x, requests' = [requests EXCEPT ![r] = x], x.pc # "mark",
             requests[r].pc \notin {"delete", "mark"}, UNCHANGED <<rows, chunks, images>>
      PROVE  Accounted'
    BY <1>6, AccountedQuiet DEF Types, RequestsType
<1>7. ASSUME NEW r \in Requests, ReadUploadJob(r)
      PROVE  Accounted'
    <2> DEFINE x == [requests[r] EXCEPT !.pc = "page", !.status = upJob]
    <2>1. x.pc # "mark"
        BY DEF Types, RequestsType, RequestRecord
    <2> QED
        BY <1>6, <1>7, <2>1 DEF ReadUploadJob
<1>8. ASSUME NEW r \in Requests, ReadChunkPage(r)
      PROVE  Accounted'
    <2> DEFINE x == [requests[r] EXCEPT !.pc = "put", !.total = NChunks,
                                        !.received = rows[requests[r].page].received]
    <2>1. x.pc # "mark"
        BY DEF Types, RequestsType, RequestRecord
    <2>2. requests' = Answered(r) \/ requests' = [requests EXCEPT ![r] = x]
        BY <1>8 DEF ReadChunkPage
    <2> QED
        BY <1>3, <1>6, <1>8, <2>1, <2>2 DEF ReadChunkPage
<1>9. ASSUME NEW r \in Requests, NEW p \in Pages, SendComplete(r, p)
      PROVE  Accounted'
    <2> DEFINE x == [NoRequest EXCEPT !.pc = "job", !.page = p]
    <2>1. x.pc # "mark"
        BY DEF NoRequest
    <2> QED
        BY <1>6, <1>9, <2>1 DEF SendComplete
<1>10. ASSUME NEW r \in Requests, NEW p \in Pages, NEW c \in Chunks,
              NEW d \in {"intact", "damaged"}, SendChunk(r, p, c, d)
      PROVE  Accounted'
    <2> DEFINE x == [NoRequest EXCEPT !.pc = "chunk", !.page = p, !.chunk = c, !.data = d]
    <2>1. x.pc # "mark"
        BY DEF NoRequest
    <2> QED
        BY <1>6, <1>10, <2>1 DEF SendChunk
<1>11. CASE ClaimJob \/ UNCHANGED chunkVars
    BY <1>11, AccountedQuiet DEF ClaimJob, chunkVars
<1>12. \A r \in Requests : ~RequestFails(r)
    BY <1>1 DEF RequestFails
<1> QED
    BY <1>2, <1>4, <1>5, <1>7, <1>8, <1>9, <1>10, <1>11, <1>12 DEF ChunkNext, Handle

\* All three layers.
FaultlessInv == TurnInv /\ (Faultless => Accounted)

\* Without faults an uploaded page has exactly the image its row refers to and no
\* chunk objects.
THEOREM NothingIsLeftBehind == ChunkSpec => []StorageAccounted
<1>1. ChunkInit => FaultlessInv
    BY TypesInit, KeptInit, TurnInit, AccountedInit DEF TurnInv, FaultlessInv
<1>2. TurnInv /\ TurnInv' /\ FaultlessInv /\ [ChunkNext]_chunkVars => FaultlessInv'
    <2> SUFFICES ASSUME TurnInv, TurnInv', FaultlessInv, [ChunkNext]_chunkVars, Faultless'
                 PROVE  Accounted'
        BY DEF FaultlessInv
    <2>1. Faultless /\ Types
        BY FaultlessBefore DEF TurnInv
    <2>2. Turn /\ Accounted
        BY <2>1 DEF FaultlessInv, TurnInv, Patient, Faultless
    <2> QED
        BY <2>1, <2>2, AccountedStep
<1>3. FaultlessInv => StorageAccounted
    BY DEF FaultlessInv, Accounted, StorageAccounted, IsUploaded, NoChunks
<1> QED
    BY <1>1, <1>2, <1>3, AlwaysTurn, PTL DEF ChunkSpec
===============================================================================
