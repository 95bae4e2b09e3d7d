----------------------------- MODULE ChunkedUpload -----------------------------
(***************************************************************************)
(* The chunked upload of the page images of one scan job: a client sends   *)
(* the chunks of a page, some of them in parallel, and then asks for their *)
(* composition.  Chunk metadata is read, changed and written back without  *)
(* a lock, chunks and images are objects in temporary storage, so every    *)
(* statement and every storage call is an action of its own.               *)
(***************************************************************************)
EXTENDS Integers, FiniteSets

CONSTANTS
    NPages,        \* pages of the job, created with it
    NChunks,       \* chunks the client cuts a page into
    Requests,      \* HTTP requests that may be in flight
    ChunkBudget    \* how many faults of each kind a behaviour has

ChunkFaults == {"fail",      \* a request stops between two steps, or a step errors
                "swallow",   \* a step errors and the request answers as if it had not
                "damage",    \* the bytes of a chunk are damaged on the way
                "overlap"}   \* the client repeats a request without waiting for it

ASSUME ChunkAssumption ==
    /\ NPages \in Nat \ {0} /\ NChunks \in Nat \ {0}
    /\ ChunkBudget \in [ChunkFaults -> Nat]

VARIABLES
    upJob,       \* status of the scan job, as far as the upload changes it
    rows,        \* scan_pages: upload_status, chunk_metadata, temp_storage_key
    chunks,      \* temp/chunks/<job>/<page>/<index>.part
    images,      \* composed images in storage, referenced or not
    requests,    \* what each request is doing, with the values it has read
    client,      \* the page the client sends, and the chunks it saw acknowledged
    chunkBudget

chunkVars == <<upJob, rows, chunks, images, requests, client, chunkBudget>>

Pages == 1..NPages
Chunks == 0..(NChunks - 1)
NoImage == 0
NoRequest == [pc |-> "idle", page |-> 0, chunk |-> 0, data |-> "none",
              total |-> 0, received |-> {}, status |-> "none", image |-> NoImage]

ImagesOf(p) == {i \in images : i.page = p}
Referenced(p) == {i \in ImagesOf(p) : i.n = rows[p].image}
IsWhole(i) == \A c \in Chunks : i.parts[c] = "intact"
Answered(r) == [requests EXCEPT ![r] = NoRequest]
Step(r, pc) == requests' = [requests EXCEPT ![r].pc = pc]
Calm(p) == \A r \in Requests : requests[r].page # p
Waste(k) ==
    /\ chunkBudget[k] > 0
    /\ chunkBudget' = [chunkBudget EXCEPT ![k] = @ - 1]

(* ------------------------------ the client ------------------------------ *)

\* The client works page by page; the chunks of a page may travel together.
InTurn(p, c) ==
    /\ client.page = p /\ c \notin client.acked
    /\ \A r \in Requests : requests[r].page # 0 =>
          requests[r].pc \in {"chunk", "put", "record"} /\ requests[r].chunk # c

SendChunk(r, p, c, data) ==
    /\ requests[r].pc = "idle"
    /\ \/ InTurn(p, c) /\ data = "intact" /\ UNCHANGED chunkBudget
       \/ InTurn(p, c) /\ data = "damaged" /\ Waste("damage")
       \/ ~InTurn(p, c) /\ data = "intact" /\ Waste("overlap")
    /\ requests' = [requests EXCEPT ![r] =
          [NoRequest EXCEPT !.pc = "chunk", !.page = p, !.chunk = c, !.data = data]]
    /\ UNCHANGED <<upJob, rows, chunks, images, client>>

CompleteInTurn(p) ==
    /\ client.page = p /\ client.acked = Chunks
    /\ \A r \in Requests : requests[r].pc = "idle"

SendComplete(r, p) ==
    /\ requests[r].pc = "idle"
    /\ \/ CompleteInTurn(p) /\ UNCHANGED chunkBudget
       \/ ~CompleteInTurn(p) /\ Waste("overlap")
    /\ requests' = [requests EXCEPT ![r] = [NoRequest EXCEPT !.pc = "job", !.page = p]]
    /\ UNCHANGED <<upJob, rows, chunks, images, client>>

\* 200 and 409 alike tell the client that the server has the chunk.
Acknowledge(r) ==
    client' = IF client.page = requests[r].page
              THEN [client EXCEPT !.acked = @ \cup {requests[r].chunk}] ELSE client

\* A completed page is followed by the next one; after a refusal all is sent again.
Advance(r) ==
    client' = IF client.page = requests[r].page
              THEN [page |-> client.page + 1, acked |-> {}] ELSE client
StartOver(r) ==
    client' = IF client.page = requests[r].page
              THEN [client EXCEPT !.acked = {}] ELSE client

\* The answer reaches the client, or is lost on the way.
Replies(r, Heard) ==
    /\ requests' = Answered(r)
    /\ \/ Heard /\ UNCHANGED chunkBudget
       \/ UNCHANGED client /\ Waste("fail")

\* The statement of this step failed; the client is answered as if it had succeeded.
Swallows(r) == Waste("swallow") /\ requests' = Answered(r) /\ Advance(r)

(* -------------------------- POST /scan/upload/chunk --------------------- *)

ChecksumUnchecked(data) == TRUE

ChecksumMatches(data) == data = "intact"

\* The page row as it is now; everything up to the checksum is decided on it.
ReadChunkPage(r) ==
    LET p == requests[r].page
        known == rows[p].status = "uploaded"
                 \/ requests[r].chunk \in rows[p].received
    IN
    /\ requests[r].pc = "chunk"
    /\ \/ /\ known
          /\ requests' = Answered(r) /\ Acknowledge(r)
       \/ /\ ~known /\ ~ChecksumMatches(requests[r].data)
          /\ requests' = Answered(r) /\ UNCHANGED client
       \/ /\ ~known /\ ChecksumMatches(requests[r].data)
          /\ requests' = [requests EXCEPT ![r].pc = "put",
                             ![r].total = NChunks, ![r].received = rows[p].received]
          /\ UNCHANGED client
    /\ UNCHANGED <<upJob, rows, chunks, images, chunkBudget>>

PutChunk(r) ==
    /\ requests[r].pc = "put"
    /\ chunks' = [chunks EXCEPT ![requests[r].page][requests[r].chunk] = requests[r].data]
    /\ Step(r, "record")
    /\ UNCHANGED <<upJob, rows, images, client, chunkBudget>>

ReceiptOneBased(r) == requests[r].received \cup {requests[r].chunk + 1}

recordChunkReceipt(r) == requests[r].received \cup {requests[r].chunk}

\* The metadata read before the chunk was stored is written back with one more entry.
UpdatePageChunkMetadata(r) ==
    /\ requests[r].pc = "record"
    /\ rows' = [rows EXCEPT ![requests[r].page].total = requests[r].total,
                            ![requests[r].page].received = recordChunkReceipt(r),
                            ![requests[r].page].status = "uploading"]
    /\ Replies(r, Acknowledge(r))
    /\ UNCHANGED <<upJob, chunks, images>>

(* ------------------------ POST /scan/upload/complete -------------------- *)

ReadUploadJob(r) ==
    /\ requests[r].pc = "job"
    /\ requests' = [requests EXCEPT ![r].pc = "page", ![r].status = upJob]
    /\ UNCHANGED <<upJob, rows, chunks, images, client, chunkBudget>>

AllChunksOneBased(received) == received = 1..NChunks

AllChunksListed(received) == received = Chunks

\* Answered at once for a composed page, refused while chunks are not listed.
ReadCompletePage(r) ==
    LET row == rows[requests[r].page]
        composed == row.status = "uploaded" /\ row.image # NoImage
    IN
    /\ requests[r].pc = "page"
    /\ \/ composed /\ Step(r, "repeat") /\ UNCHANGED client
       \/ /\ ~composed /\ AllChunksListed(row.received)
          /\ Step(r, "compose") /\ UNCHANGED client
       \/ /\ ~composed /\ ~AllChunksListed(row.received)
          /\ requests' = Answered(r) /\ StartOver(r)
    /\ UNCHANGED <<upJob, rows, chunks, images, chunkBudget>>

AllPagesUploaded == \A p \in Pages : rows[p].status = "uploaded"

RequeueRepeated(r) == AllPagesUploaded

MayQueueRepeated(r) == AllPagesUploaded /\ requests[r].status = "uploading"

RepeatComplete(r) ==
    /\ requests[r].pc = "repeat"
    /\ \/ MayQueueRepeated(r) /\ Step(r, "queue") /\ UNCHANGED <<client, chunkBudget>>
       \/ ~MayQueueRepeated(r) /\ Replies(r, Advance(r))
       \/ Swallows(r)
    /\ UNCHANGED <<upJob, rows, chunks, images>>

\* All chunk objects are read and written as one image under a fresh key.
ComposeImage(r) ==
    LET p == requests[r].page
        n == Cardinality(ImagesOf(p)) + 1
    IN
    /\ requests[r].pc = "compose"
    /\ \/ /\ \E c \in Chunks : chunks[p][c] = "none"
          /\ requests' = Answered(r) /\ StartOver(r) /\ UNCHANGED images
       \/ /\ \A c \in Chunks : chunks[p][c] # "none"
          /\ images' = images \cup {[page |-> p, n |-> n, parts |-> chunks[p]]}
          /\ requests' = [requests EXCEPT ![r].pc = "delete", ![r].image = n]
          /\ UNCHANGED client
    /\ UNCHANGED <<upJob, rows, chunks, chunkBudget>>

DeleteOneObject(p) == [chunks EXCEPT ![p][0] = "none"]

DeletePrefixOfJob(p) == [q \in Pages |-> [c \in Chunks |-> "none"]]

\* DeletePrefix ends in the page number and a slash: no other page is touched.
DeletePrefix(p) == [chunks EXCEPT ![p] = [c \in Chunks |-> "none"]]

\* Its error is ignored.
DeleteChunks(r) ==
    /\ requests[r].pc = "delete"
    /\ \/ chunks' = DeletePrefix(requests[r].page) /\ UNCHANGED chunkBudget
       \/ UNCHANGED chunks /\ Waste("swallow")
    /\ Step(r, "mark")
    /\ UNCHANGED <<upJob, rows, images, client>>

MarkPageUploaded(r) ==
    /\ requests[r].pc = "mark"
    /\ rows' = [rows EXCEPT ![requests[r].page] =
          [status |-> "uploaded", total |-> 0, received |-> {}, image |-> requests[r].image]]
    /\ Step(r, "count")
    /\ UNCHANGED <<upJob, chunks, images, client, chunkBudget>>

CountPages(r) ==
    /\ requests[r].pc = "count"
    /\ \/ AllPagesUploaded /\ Step(r, "queue") /\ UNCHANGED <<client, chunkBudget>>
       \/ ~AllPagesUploaded /\ Replies(r, Advance(r))
       \/ Swallows(r)
    /\ UNCHANGED <<upJob, rows, chunks, images>>

\* Its error is answered (RequestFails), except when the completion was a repeated one.
QueueJob(r) ==
    /\ requests[r].pc = "queue"
    /\ \/ upJob' = "pending" /\ Replies(r, Advance(r))
       \/ requests[r].image = NoImage /\ Swallows(r) /\ UNCHANGED upJob
    /\ UNCHANGED <<rows, chunks, images>>

(* --------------------- failures and the rest of the system -------------- *)

\* An error answer, the 60 seconds of chunkTimeout, a lost connection or a crash.
RequestFails(r) ==
    /\ requests[r].pc # "idle" /\ Waste("fail")
    /\ requests' = Answered(r)
    /\ UNCHANGED <<upJob, rows, chunks, images, client>>

ClaimJob ==
    /\ upJob = "pending" /\ upJob' = "taken"
    /\ UNCHANGED <<rows, chunks, images, requests, client, chunkBudget>>

ChunkInit ==
    /\ upJob = "uploading"
    /\ rows = [p \in Pages |-> [status |-> "pending", total |-> 0,
                                received |-> {}, image |-> NoImage]]
    /\ chunks = [p \in Pages |-> [c \in Chunks |-> "none"]]
    /\ images = {}
    /\ requests = [r \in Requests |-> NoRequest]
    /\ client = [page |-> 1, acked |-> {}]
    /\ chunkBudget = ChunkBudget

Handle(r) ==
    \/ ReadChunkPage(r) \/ PutChunk(r) \/ UpdatePageChunkMetadata(r)
    \/ ReadUploadJob(r) \/ ReadCompletePage(r) \/ RepeatComplete(r)
    \/ ComposeImage(r) \/ DeleteChunks(r) \/ MarkPageUploaded(r)
    \/ CountPages(r) \/ QueueJob(r)

ChunkNext ==
    \/ \E r \in Requests :
         \/ \E p \in Pages, c \in Chunks, d \in {"intact", "damaged"} : SendChunk(r, p, c, d)
         \/ \E p \in Pages : SendComplete(r, p)
         \/ Handle(r) \/ RequestFails(r)
    \/ ClaimJob

\* The server handles its requests and the client goes on until it is done.
ChunkFairness ==
    /\ \A r \in Requests : WF_chunkVars(Handle(r))
    /\ WF_chunkVars(\E r \in Requests, c \in Chunks :
                      InTurn(client.page, c) /\ SendChunk(r, client.page, c, "intact"))
    /\ WF_chunkVars(\E r \in Requests :
                      CompleteInTurn(client.page) /\ SendComplete(r, client.page))

ChunkSpec == ChunkInit /\ [][ChunkNext]_chunkVars /\ ChunkFairness

(* ------------------------------ properties ------------------------------ *)

ChunkTypeOK ==
    /\ upJob \in {"uploading", "pending", "taken"}
    /\ rows \in [Pages -> [status : {"pending", "uploading", "uploaded"},
                           total : {0, NChunks}, received : SUBSET Chunks, image : Nat]]
    /\ chunks \in [Pages -> [Chunks -> {"none", "intact", "damaged"}]]
    /\ \A i \in images : i.page \in Pages /\ i.parts \in [Chunks -> {"intact", "damaged"}]
    /\ client.page \in 1..(NPages + 1) /\ client.acked \subseteq Chunks

\* No request was repeated before it was answered.
Patient == chunkBudget["overlap"] = ChunkBudget["overlap"]
Faultless == chunkBudget = ChunkBudget

\* HandleUploadComplete stores the image before it deletes the chunks: when a
\* chunk that is listed as received is gone, the whole page exists as an image,
\* whatever requests fail or overlap.
NothingReceivedIsLost ==
    \A p \in Pages :
        (\E c \in rows[p].received : chunks[p][c] = "none")
            => \E i \in ImagesOf(p) : IsWhole(i)

\* Storage under temp/ is freed by the keys in scan_pages only. A client that
\* waits for its answers leaves nothing else behind: when nothing failed, a
\* composed page has one image, the one it refers to, and no chunks.
StorageAccounted ==
    Faultless =>
        \A p \in Pages : rows[p].status = "uploaded" /\ Calm(p) =>
            /\ \A c \in Chunks : chunks[p][c] = "none"
            /\ ImagesOf(p) = Referenced(p)

\* Completions that are repeated because an answer was lost do not put a job
\* back into the queue that a worker slot has taken.
JobQueuedOnce == [][Patient /\ upJob = "taken" => upJob' = "taken"]_upJob

\* A page whose chunks were deleted but whose row was never marked: it cannot
\* be completed (chunks gone) and takes no chunk again (all listed).
Wedged(p) ==
    /\ rows[p].status # "uploaded" /\ Calm(p)
    /\ \E c \in rows[p].received : chunks[p][c] = "none"

\* Every page was answered with success and the job is not queued: the error of the
\* last completion's AllPagesUploaded or UpdateJobStatus was swallowed.
Stranded ==
    /\ client.page > NPages /\ upJob = "uploading" /\ AllPagesUploaded
    /\ chunkBudget["swallow"] < ChunkBudget["swallow"]

\* A client that resends after every refusal finishes in spite of receipts lost
\* to parallel chunks, damaged bytes and failed requests, except when a failure
\* falls between DeletePrefix and MarkPageUploaded, or when an error of the last
\* completion is swallowed and the client believes it is done.
UploadFinishes ==
    <>(upJob # "uploading" \/ ~Patient \/ Stranded \/ \E p \in Pages : Wedged(p))

\* What the upload promises (PageUpload): a chunk counts as held while it is in
\* storage, as an object or inside an image of its page.
ChunksHeld == [p \in Pages |-> IF ImagesOf(p) # {} THEN Chunks
                               ELSE {c \in Chunks : chunks[p][c] # "none"}]
PageImage ==
    [p \in Pages |->
        IF rows[p].image = NoImage THEN "none"
        ELSE IF Referenced(p) # {} /\ \A i \in Referenced(p) : IsWhole(i)
             THEN "whole" ELSE "broken"]
Upload == INSTANCE PageUpload WITH
    have <- ChunksHeld, image <- PageImage, queued <- (upJob # "uploading")

\* The chunked upload implements PageUpload under all faults and overlaps: images
\* only from all intact chunks, and a job in the queue has an image on every page.
ImplementsPageUpload == Upload!Spec
===============================================================================
