------------------------------ MODULE MCScanJobs ------------------------------
(***************************************************************************)
(* Small instances of ScanJobs for TLC: which texts the pages of a job may *)
(* read as, and which faults a behaviour may contain.                      *)
(***************************************************************************)
EXTENDS ScanJobs

CONSTANTS j1, j2,                \* model values for jobs
          w1, w2,                \* model values for worker slots
          chapter, exam, mixture, \* texts of the three page types
          other                  \* a second chapter text

MCPageTypeOf == [t \in Texts |->
    CASE t \in {chapter, other} -> "chapter_text" [] t = exam -> "existing_questions" [] OTHER -> "mixed"]

\* Every job may read as any text: a page that fails OCR changes the text.
AnyText == [j \in Jobs |-> Texts]
\* Two jobs of different books that share one text.
TwoBooks == [j \in Jobs |-> IF j = j1 THEN {chapter, exam} ELSE {chapter, other}]
MixedBooks == [j \in Jobs |-> IF j = j1 THEN {chapter, exam} ELSE {chapter, mixture}]
\* The mode matters to the vision pipeline only.
ExamMode == [j \in Jobs |-> "existing_questions"]

NoFaults == [k \in FaultKinds |-> 0]
CrashFaults == [NoFaults EXCEPT !["crash"] = 1, !["external"] = 1, !["limit"] = 1]
OutsideFaults == [NoFaults EXCEPT !["external"] = 4, !["limit"] = 2]
OverlapFaults == [NoFaults EXCEPT !["stall"] = 1, !["retry"] = 1, !["age"] = 1, !["parallel"] = 1]
RetryFaults == [NoFaults EXCEPT !["external"] = 1, !["retry"] = 1]
CrashOnly == [NoFaults EXCEPT !["crash"] = 1]
ReuploadOnly == [NoFaults EXCEPT !["reupload"] = 1]
=============================================================================
