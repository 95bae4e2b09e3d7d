------------------------------- MODULE MCUploads -------------------------------
(***************************************************************************)
(* Instance of the chunked upload and of the admission of scan requests.   *)
(* The two share no state; a behaviour is one of either.                   *)
(***************************************************************************)
EXTENDS ChunkedUpload, ScanAdmission

CONSTANTS r1, r2

MCRequests == {r1, r2}
MCChunkBudget == [fail |-> 1, swallow |-> 1, damage |-> 1, overlap |-> 1]

MCAsks == {r1, r2}
Form(kind, board, mode, pages, terms) ==
    [kind |-> kind, board |-> board, mode |-> mode, pages |-> pages, terms |-> terms]
MCForms == {Form("create", "jac", "chapter", 10, TRUE), Form("create", "", "", 0, FALSE),
            Form("upload", "ncert", "chapter", 11, TRUE), Form("upload", "ncert", "chapter", 1, TRUE),
            Form("read", "ncert", "", 1, FALSE)}
MCPlanLimits == [free |-> 1, basic |-> 2, pro |-> 0]
MCAdmissionBudget == [send |-> 3, fail |-> 1, plan |-> 1]

Init == ChunkInit /\ AdmissionInit

Next ==
    \/ ChunkNext /\ AdmissionInit /\ UNCHANGED admissionVars
    \/ AdmissionNext /\ ChunkInit /\ UNCHANGED chunkVars

\* Fairness is that of the upload: a behaviour that only admits is not a fair one.
UploadsSpec == Init /\ [][Next]_<<chunkVars, admissionVars>> /\ ChunkFairness

\* Type invariant of both parts: every value a request, a row or a counter takes.
TypeOK == ChunkTypeOK /\ AdmissionTypeOK
===============================================================================
