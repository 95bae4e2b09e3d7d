-------------------------- MODULE ScanAdmissionProofs --------------------------
(*****************************************************************************)
(* Proofs about the admission of scan requests, for any number of requests,  *)
(* any forms, plans and faults: the request limiter refuses for a window and *)
(* no longer, the daily quota is exceeded by no more than the requests that  *)
(* overlap and the counts that were lost, and every value keeps its type, also *)
(* in the composition with the chunked upload.                               *)
(* The quota needs an invariant of what is between the check and the count:  *)
(* requests that passed the check and have not created their job (Passed) and *)
(* those whose job is not counted yet (Recording).                           *)
(*****************************************************************************)
EXTENDS MCUploads, ChunkedUploadProofs
\* A limit is a number of scans a day, or none.
Limits == {Unlimited} \cup Nat
\* What a request holds while the handler runs it.
AskRecord ==
    {Idle} \cup
    [pc : {"limit", "expire", "limited", "plan", "count", "consent", "create", "record"},
     form : Forms, count : Nat, limit : Limits]

\* Types of all variables, with the records of the requests.
AskTypes ==
    /\ plan \in DOMAIN PlanLimits /\ consent \in BOOLEAN /\ clock \in {"day", "last"}
    /\ window \in [count : Nat, expires : BOOLEAN]
    /\ scans \in Nat /\ made \in Nat /\ uncounted \in Nat
    /\ allowance \in Limits
    /\ asks \in [Asks -> AskRecord]
    /\ admissionBudget \in [AdmissionFaults -> Nat]
    /\ \A k \in AdmissionFaults : admissionBudget[k] <= AdmissionBudget[k]

\* scansPerDayFromLimit never answers zero: a limit that is not positive is none.
LEMMA LimitsOfPlans ==
    ASSUME NEW p \in DOMAIN PlanLimits
    PROVE  scansPerDayFromLimit(p) \in {Unlimited} \cup (Nat \ {0})
BY AdmissionAssumption DEF scansPerDayFromLimit, Unlimited

\* A fault that is used up leaves less of its budget.
LEMMA UseType ==
    ASSUME AskTypes, NEW k \in AdmissionFaults, Use(k)
    PROVE  /\ admissionBudget' \in [AdmissionFaults -> Nat]
           /\ \A l \in AdmissionFaults : admissionBudget'[l] <= AdmissionBudget[l]
           /\ admissionBudget'[k] < AdmissionBudget[k]
<1>1. AdmissionBudget \in [AdmissionFaults -> Nat]
    BY AdmissionAssumption
<1>2. admissionBudget' \in [AdmissionFaults -> Nat]
    BY DEF AskTypes, Use
<1>3. admissionBudget[k] \in Nat /\ AdmissionBudget[k] \in Nat
    BY <1>1 DEF AskTypes
<1>4. admissionBudget'[k] = admissionBudget[k] - 1
    BY DEF Use, AskTypes
<1>5. admissionBudget'[k] < AdmissionBudget[k]
    BY <1>3, <1>4 DEF AskTypes
<1>6. ASSUME NEW l \in AdmissionFaults PROVE admissionBudget'[l] <= AdmissionBudget[l]
    BY <1>1, <1>5, <1>3, <1>4 DEF AskTypes, Use
<1> QED
    BY <1>2, <1>5, <1>6

\* The types hold at the start.
LEMMA AskTypesInit == AdmissionInit => AskTypes
<1> SUFFICES ASSUME AdmissionInit PROVE AskTypes
    OBVIOUS
<1>1. scansPerDayFromLimit("free") \in Limits
    BY LimitsOfPlans, AdmissionAssumption DEF Limits
<1>2. admissionBudget \in [AdmissionFaults -> Nat] /\ \A k \in AdmissionFaults : admissionBudget[k] <= AdmissionBudget[k]
    BY AdmissionAssumption DEF AdmissionInit
<1>3. asks \in [Asks -> AskRecord]
    BY DEF AdmissionInit, AskRecord
<1> QED
    BY <1>1, <1>2, <1>3, AdmissionAssumption DEF AdmissionInit, AskTypes

\* Only a use changes the budget.
LEMMA AskBudgetStep ==
    [AdmissionNext]_admissionVars =>
        admissionBudget' = admissionBudget \/ \E k \in AdmissionFaults : Use(k)
BY DEF AdmissionNext, admissionVars, AdmissionFaults, SendAsk, CountRequest, ExpireWindow, Admit, CheckPlan, CheckScanLimit, CheckConsent, CreateJobRow, RecordScan, AskFails, WindowEnds, LastSecond, Midnight, ChangePlan

\* Every handler step leaves a request in a state the handler knows.
LEMMA AsksStep == AskTypes /\ [AdmissionNext]_admissionVars => asks' \in [Asks -> AskRecord]
<1> SUFFICES ASSUME AskTypes, [AdmissionNext]_admissionVars PROVE asks' \in [Asks -> AskRecord]
    OBVIOUS
<1> DEFINE Busy == [pc : {"limit", "expire", "limited", "plan", "count", "consent", "create", "record"},
                    form : Forms, count : Nat, limit : Limits]
<1>0. Idle \in AskRecord /\ Busy \subseteq AskRecord /\ asks \in [Asks -> AskRecord]
    BY DEF AskRecord, AskTypes
<1>b. ASSUME NEW r \in Asks, asks[r].pc # "idle"
      PROVE  asks[r] \in Busy
    BY <1>b, <1>0 DEF AskRecord, Idle
<1>1. ASSUME NEW r \in Asks, Answer(r)
      PROVE  asks' \in [Asks -> AskRecord]
    BY <1>0, <1>1 DEF Answer
<1>2. ASSUME NEW r \in Asks, asks[r].pc # "idle",
             NEW pc \in {"expire", "limited", "plan", "count", "consent", "create", "record"}, Goto(r, pc)
      PROVE  asks' \in [Asks -> AskRecord]
    <2> DEFINE x == [asks[r] EXCEPT !.pc = pc]
    <2>1. x \in Busy
        BY <1>2, <1>b
    <2>2. asks' = [asks EXCEPT ![r] = x]
        BY <1>2 DEF Goto
    <2> HIDE DEF x, Busy
    <2> QED
        BY <1>0, <2>1, <2>2
<1>3. ASSUME NEW r \in Asks, NEW form \in Forms, SendAsk(r, form)
      PROVE  asks' \in [Asks -> AskRecord]
    <2>1. [pc |-> "limit", form |-> form, count |-> 0, limit |-> 0] \in Busy
        BY DEF Limits
    <2> HIDE DEF Busy
    <2> QED
        BY <1>0, <1>3, <2>1 DEF SendAsk
<1>4. ASSUME NEW r \in Asks, CountRequest(r)
      PROVE  asks' \in [Asks -> AskRecord]
    <2> DEFINE pc == IF ArmsWindow(window.count + 1) THEN "expire" ELSE "limited"
               x == [asks[r] EXCEPT !.count = window.count + 1, !.pc = pc]
    <2>1. asks[r].pc # "idle"
        BY <1>4 DEF CountRequest
    <2>2. x \in Busy
        <3>1. pc \in {"expire", "limited"} /\ window.count + 1 \in Nat
            BY DEF AskTypes
        <3> HIDE DEF pc
        <3> QED
            BY <2>1, <1>b, <3>1
    <2>3. asks' = [asks EXCEPT ![r] = x] \/ Goto(r, "limited")
        BY <1>4 DEF CountRequest
    <2> HIDE DEF x, Busy
    <2> QED
        BY <1>0, <1>2, <2>1, <2>2, <2>3
<1>5. ASSUME NEW r \in Asks, CheckPlan(r)
      PROVE  asks' \in [Asks -> AskRecord]
    <2> DEFINE l == scansPerDayFromLimit(plan)
               x == [asks[r] EXCEPT !.limit = l, !.pc = IF l = Unlimited THEN "consent" ELSE "count"]
    <2>1. asks[r].pc # "idle" /\ l \in Limits
        BY <1>5, LimitsOfPlans DEF CheckPlan, AskTypes, Limits
    <2>3. asks' = [asks EXCEPT ![r] = x]
        BY <1>5 DEF CheckPlan
    <2> HIDE DEF l
    <2>2. x \in Busy
        BY <2>1, <1>b
    <2> HIDE DEF x, Busy
    <2> QED
        BY <1>0, <2>2, <2>3
<1>6. ASSUME NEW r \in Asks, ExpireWindow(r)
      PROVE  asks' \in [Asks -> AskRecord]
    BY <1>2, <1>6 DEF ExpireWindow
<1>7. ASSUME NEW r \in Asks, Admit(r)
      PROVE  asks' \in [Asks -> AskRecord]
    BY <1>1, <1>2, <1>7 DEF Admit
<1>8. ASSUME NEW r \in Asks, CheckScanLimit(r) \/ CheckConsent(r) \/ CreateJobRow(r)
      PROVE  asks' \in [Asks -> AskRecord]
    BY <1>1, <1>2, <1>8 DEF CheckScanLimit, CheckConsent, CreateJobRow
<1>9. ASSUME NEW r \in Asks, RecordScan(r) \/ AskFails(r)
      PROVE  asks' \in [Asks -> AskRecord]
    BY <1>1, <1>9 DEF RecordScan, AskFails
<1>10. CASE asks' = asks
    BY <1>0, <1>10
<1> QED
    BY <1>3, <1>4, <1>5, <1>6, <1>7, <1>8, <1>9, <1>10
    DEF AdmissionNext, admissionVars, WindowEnds, LastSecond, Midnight, ChangePlan

\* The allowance stays one of the limits a plan may have.
LEMMA AllowanceStep == AskTypes /\ [AdmissionNext]_admissionVars => allowance' \in Limits
<1> SUFFICES ASSUME AskTypes, [AdmissionNext]_admissionVars PROVE allowance' \in Limits
    OBVIOUS
<1>1. ASSUME NEW p \in DOMAIN PlanLimits
      PROVE  scansPerDayFromLimit(p) \in Limits
    BY LimitsOfPlans DEF Limits
<1>2. Checked \subseteq Limits
    BY DEF Checked, AskTypes, AskRecord, Idle
<1>3. CASE Midnight
    BY <1>1, <1>2, <1>3 DEF Midnight, Allow, AskTypes
<1>4. ASSUME NEW p \in DOMAIN PlanLimits, ChangePlan(p)
      PROVE  allowance' \in Limits
    BY <1>1, <1>4 DEF ChangePlan, Allow, AskTypes
<1>5. CASE allowance' = allowance
    BY <1>5 DEF AskTypes
<1> QED
    BY <1>3, <1>4, <1>5 DEF AdmissionNext, admissionVars, SendAsk, CountRequest, ExpireWindow, Admit, CheckPlan, CheckScanLimit, CheckConsent, CreateJobRow, RecordScan, AskFails, WindowEnds, LastSecond

\* Every step keeps the types.
LEMMA AskTypesStep == AskTypes /\ [AdmissionNext]_admissionVars => AskTypes'
<1> SUFFICES ASSUME AskTypes, [AdmissionNext]_admissionVars PROVE AskTypes'
    OBVIOUS
<1>1. /\ admissionBudget' \in [AdmissionFaults -> Nat]
      /\ \A k \in AdmissionFaults : admissionBudget'[k] <= AdmissionBudget[k]
    BY AskBudgetStep, UseType DEF AskTypes
<1>2. plan' \in DOMAIN PlanLimits /\ consent' \in BOOLEAN /\ clock' \in {"day", "last"}
    BY DEF AskTypes, AdmissionNext, admissionVars, SendAsk, CountRequest, ExpireWindow, Admit, CheckPlan, CheckScanLimit, CheckConsent, CreateJobRow, RecordScan, AskFails, WindowEnds, LastSecond, Midnight, ChangePlan
<1>3. window' \in [count : Nat, expires : BOOLEAN]
    <2>1. CASE window' = window
        BY <2>1 DEF AskTypes
    <2>2. ASSUME NEW r \in Asks, CountRequest(r)
          PROVE  window' \in [count : Nat, expires : BOOLEAN]
        BY <2>2 DEF CountRequest, AskTypes
    <2>3. ASSUME NEW r \in Asks, ExpireWindow(r)
          PROVE  window' \in [count : Nat, expires : BOOLEAN]
        <3> DEFINE e == window.count > 0
        <3>1. e \in BOOLEAN
            OBVIOUS
        <3>2. window' = window \/ window' = [window EXCEPT !.expires = e]
            BY <2>3 DEF ExpireWindow
        <3> HIDE DEF e
        <3> QED
            BY <3>1, <3>2 DEF AskTypes
    <2>4. CASE WindowEnds
        BY <2>4 DEF WindowEnds
    <2> QED
        BY <2>1, <2>2, <2>3, <2>4 DEF AdmissionNext, admissionVars, SendAsk, Admit, CheckPlan, CheckScanLimit, CheckConsent, CreateJobRow, RecordScan, AskFails, LastSecond, Midnight, ChangePlan
<1>4. scans' \in Nat /\ made' \in Nat /\ uncounted' \in Nat
    <2>1. scans' \in {scans, 0, scans + 1}
        BY DEF AdmissionNext, admissionVars, SendAsk, CountRequest, ExpireWindow, Admit, CheckPlan, CheckScanLimit, CheckConsent, CreateJobRow, RecordScan, AskFails, WindowEnds, LastSecond, Midnight, ChangePlan
    <2>2. made' \in {made, 0, made + 1}
        BY DEF AdmissionNext, admissionVars, SendAsk, CountRequest, ExpireWindow, Admit, CheckPlan, CheckScanLimit, CheckConsent, CreateJobRow, RecordScan, AskFails, WindowEnds, LastSecond, Midnight, ChangePlan
    <2>3. uncounted' \in {uncounted, 0, uncounted + 1}
        <3>1. ASSUME NEW r \in Asks, AskFails(r)
              PROVE  uncounted' \in {uncounted, 0, uncounted + 1}
            BY <3>1 DEF AskFails
        <3> QED
            BY <3>1 DEF AdmissionNext, admissionVars, SendAsk, CountRequest, ExpireWindow, Admit, CheckPlan, CheckScanLimit, CheckConsent, CreateJobRow, RecordScan, WindowEnds, LastSecond, Midnight, ChangePlan
    <2> QED
        BY <2>1, <2>2, <2>3 DEF AskTypes
<1> QED
    BY <1>1, <1>2, <1>3, <1>4, AsksStep, AllowanceStep DEF AskTypes

\* The types hold for ever.
LEMMA AlwaysAskTypes == AdmissionSpec => []AskTypes
<1>1. AskTypes /\ [AdmissionNext]_admissionVars => AskTypes'
    BY AskTypesStep
<1> QED
    BY AskTypesInit, <1>1, PTL DEF AdmissionSpec

\* A call of Redis or Postgres has failed.
Spent == admissionBudget["fail"] < AdmissionBudget["fail"]

\* A counter that was raised expires, or is about to be told to, or the call failed.
WindowOK ==
    window.count > 0 =>
        \/ window.expires
        \/ \E r \in Asks : asks[r].pc = "expire"
        \/ Spent

\* Counting and arming are two calls, and every step between them keeps WindowOK.
LEMMA WindowStep ==
    ASSUME AskTypes, WindowOK, [AdmissionNext]_admissionVars
    PROVE  WindowOK'
<1>f. "fail" \in AdmissionFaults
    BY DEF AdmissionFaults
<1>1. Use("fail") => Spent'
    BY <1>f, UseType DEF Spent
<1>2. Spent => Spent'
    <2>1. ASSUME NEW k \in AdmissionFaults, Use(k)
          PROVE  admissionBudget'["fail"] <= admissionBudget["fail"]
        BY <1>f, <2>1 DEF Use, AskTypes
    <2>2. admissionBudget["fail"] \in Nat /\ admissionBudget'["fail"] \in Nat /\ AdmissionBudget["fail"] \in Nat
        BY <1>f, AskTypesStep, AdmissionAssumption DEF AskTypes
    <2> QED
        BY <2>1, <2>2, AskBudgetStep DEF Spent
<1>e. ASSUME NEW r \in Asks, asks[r].pc # "expire",
             \A q \in Asks : q # r => asks'[q] = asks[q]
      PROVE  (\E q \in Asks : asks[q].pc = "expire") => \E q \in Asks : asks'[q].pc = "expire"
    BY <1>e
<1>3. ASSUME NEW r \in Asks, CountRequest(r)
      PROVE  WindowOK'
    <2>1. CASE Use("fail")
        BY <1>1, <2>1 DEF WindowOK, Spent
    <2>2. CASE ~Use("fail") /\ window.count = 0
        <3>1. asks'[r].pc = "expire"
            BY <1>3, <2>2 DEF CountRequest, ArmsWindow, AskTypes, AskRecord, Idle
        <3> QED
            BY <3>1 DEF WindowOK
    <2>3. CASE ~Use("fail") /\ window.count > 0
        <3>1. /\ window'.expires = window.expires
              /\ \A q \in Asks : q # r => asks'[q] = asks[q]
              /\ asks[r].pc # "expire"
            BY <1>3, <2>3 DEF CountRequest, AskTypes
        <3> QED
            BY <3>1, <2>3, <1>e, <1>2 DEF WindowOK, Spent
    <2> QED
        BY <2>1, <2>2, <2>3 DEF AskTypes
<1>4. ASSUME NEW r \in Asks, ExpireWindow(r)
      PROVE  WindowOK'
    <2>1. CASE Use("fail")
        BY <1>1, <2>1 DEF WindowOK, Spent
    <2>2. CASE ~Use("fail")
        BY <1>4, <2>2 DEF ExpireWindow, AskTypes, WindowOK
    <2> QED
        BY <2>1, <2>2
<1>5. ASSUME NEW r \in Asks, AskFails(r)
      PROVE  WindowOK'
    BY <1>1, <1>5 DEF AskFails, WindowOK, Spent
<1>6. CASE WindowEnds
    BY <1>6 DEF WindowEnds, WindowOK
<1>7. ASSUME NEW r \in Asks,
             \/ \E form \in Forms : SendAsk(r, form)
             \/ Admit(r) \/ CheckPlan(r) \/ CheckScanLimit(r) \/ CheckConsent(r)
             \/ CreateJobRow(r) \/ RecordScan(r)
      PROVE  WindowOK'
    <2>1. window' = window /\ asks[r].pc # "expire"
        BY <1>7 DEF SendAsk, Admit, CheckPlan, CheckScanLimit, CheckConsent, CreateJobRow, RecordScan
    <2>2. \A q \in Asks : q # r => asks'[q] = asks[q]
        BY <1>7 DEF SendAsk, Admit, CheckPlan, CheckScanLimit, CheckConsent, CreateJobRow, RecordScan,
                    Goto, Answer, AskTypes
    <2> QED
        BY <2>1, <2>2, <1>e, <1>2 DEF WindowOK, Spent
<1>8. CASE window' = window /\ asks' = asks
    BY <1>2, <1>8 DEF WindowOK, Spent
<1> QED
    BY <1>3, <1>4, <1>5, <1>6, <1>7, <1>8
    DEF AdmissionNext, admissionVars, LastSecond, Midnight, ChangePlan

\* RateWindowEnds for any limit: the limiter (ratelimit.go) refuses nobody for ever
\* unless its Expire call failed.
THEOREM WindowsEnd == AdmissionSpec => []RateWindowEnds
<1>1. AdmissionInit => WindowOK
    BY DEF AdmissionInit, WindowOK
<1>2. AskTypes /\ WindowOK /\ [AdmissionNext]_admissionVars => WindowOK'
    BY WindowStep
<1>3. AskTypes /\ WindowOK => RateWindowEnds
    BY AdmissionAssumption DEF AskTypes, WindowOK, RateWindowEnds, Spent
<1> QED
    BY <1>1, <1>2, <1>3, AlwaysAskTypes, PTL DEF AdmissionSpec

\* Requests that passed the quota, or need none, and have not created their job.
Passed == {r \in Asks : asks[r].pc \in {"consent", "create"} /\ asks[r].form.kind = "create"}
\* Requests whose job exists and is not counted.
Recording == {r \in Asks : asks[r].pc = "record"}

\* Two sets that differ at most in r differ in size by the membership of r.
LEMMA Moved ==
    ASSUME NEW A, IsFiniteSet(A), NEW S \in SUBSET A, NEW T \in SUBSET A, NEW r \in A,
           S \ {r} = T \ {r}
    PROVE  Cardinality(T) = Cardinality(S) + (IF r \in T THEN 1 ELSE 0) - (IF r \in S THEN 1 ELSE 0)
<1>1. IsFiniteSet(S) /\ IsFiniteSet(T)
    BY FS_Subset
<1>2. Cardinality(S) \in Nat /\ Cardinality(T) \in Nat
    BY <1>1, FS_CardinalityType
<1>3. Cardinality(S \ {r}) = IF r \in S THEN Cardinality(S) - 1 ELSE Cardinality(S)
    BY <1>1, FS_RemoveElement
<1>4. Cardinality(T \ {r}) = IF r \in T THEN Cardinality(T) - 1 ELSE Cardinality(T)
    BY <1>1, FS_RemoveElement
<1> QED
    BY <1>2, <1>3, <1>4

\* Two disjoint sets of requests have together no more members than there are requests.
LEMMA Disjoint ==
    ASSUME NEW S \in SUBSET Asks, NEW T \in SUBSET Asks, S \cap T = {}
    PROVE  /\ Cardinality(Asks) \in Nat
           /\ Cardinality(S) \in Nat
           /\ Cardinality(T) \in Nat
           /\ Cardinality(S) + Cardinality(T) <= Cardinality(Asks)
           /\ \A r \in Asks : r \notin S /\ r \notin T =>
                 Cardinality(S) + Cardinality(T) + 1 <= Cardinality(Asks)
<1>1. IsFiniteSet(Asks) /\ IsFiniteSet(S) /\ IsFiniteSet(T)
    BY AdmissionAssumption, FS_Subset
<1>2. /\ Cardinality(Asks) \in Nat
      /\ Cardinality(S) \in Nat
      /\ Cardinality(T) \in Nat
    BY <1>1, FS_CardinalityType
<1>3. IsFiniteSet(S \cup T)
    BY <1>1, FS_Union
<1>4. Cardinality(S \cup T) = Cardinality(S) + Cardinality(T)
    <2>1. Cardinality(S \cup T) = Cardinality(S) + Cardinality(T) - Cardinality(S \cap T)
        BY <1>1, FS_Union
    <2>2. Cardinality(S \cap T) = 0
        BY FS_EmptySet
    <2> QED
        BY <1>2, <2>1, <2>2
<1>5. Cardinality(S \cup T) <= Cardinality(Asks)
    BY <1>1, FS_Subset
<1>6. ASSUME NEW r \in Asks, r \notin S, r \notin T
      PROVE  Cardinality(S) + Cardinality(T) + 1 <= Cardinality(Asks)
    <2>1. Cardinality((S \cup T) \cup {r}) = Cardinality(S \cup T) + 1
        BY <1>3, <1>6, FS_AddElement
    <2>2. (S \cup T) \cup {r} \subseteq Asks
        BY <1>6
    <2>3. Cardinality((S \cup T) \cup {r}) <= Cardinality(Asks)
        BY <1>1, <2>2, FS_Subset
    <2> QED
        BY <1>4, <2>1, <2>3
<1> QED
    BY <1>2, <1>4, <1>5, <1>6

\* Nobody has passed the check and is counting at once.
LEMMA Counts ==
    /\ Passed \in SUBSET Asks /\ Recording \in SUBSET Asks /\ Passed \cap Recording = {}
    /\ Passed' \in SUBSET Asks /\ Recording' \in SUBSET Asks /\ Passed' \cap Recording' = {}
BY DEF Passed, Recording

\* A step of one request moves at most that request in or out of either set.
LEMMA Others ==
    ASSUME AskTypes, NEW r \in Asks, \A q \in Asks : q # r => asks'[q] = asks[q]
    PROVE  /\ Cardinality(Passed)' = Cardinality(Passed)
                 + (IF r \in Passed' THEN 1 ELSE 0) - (IF r \in Passed THEN 1 ELSE 0)
           /\ Cardinality(Recording)' = Cardinality(Recording)
                 + (IF r \in Recording' THEN 1 ELSE 0) - (IF r \in Recording THEN 1 ELSE 0)
<1>1. Passed \ {r} = Passed' \ {r}
    BY DEF Passed
<1>2. Recording \ {r} = Recording' \ {r}
    BY DEF Recording
<1>3. /\ Passed \in SUBSET Asks /\ Passed' \in SUBSET Asks
      /\ Recording \in SUBSET Asks /\ Recording' \in SUBSET Asks
    BY DEF Passed, Recording
<1> QED
    BY <1>1, <1>2, <1>3, Moved, AdmissionAssumption

\* The counter is behind the jobs by those being counted and those nobody counts,
\* and the jobs with those about to be created are within the quota but for the overlap.
QuotaInv ==
    /\ scans + Cardinality(Recording) <= made + Cardinality(Asks)
    /\ clock = "day" => made <= scans + Cardinality(Recording) + uncounted
    /\ Covers(allowance, scansPerDayFromLimit(plan))
    /\ \A r \in Asks : asks[r].pc = "count" \/ r \in Passed => Covers(allowance, asks[r].limit)
    /\ clock = "day" /\ allowance # Unlimited =>
          made + Cardinality(Passed) <= allowance + Cardinality(Asks) - 1 + uncounted

\* Covers is transitive.
LEMMA CoversMore ==
    ASSUME NEW a \in Limits, NEW b \in Limits, NEW l \in Limits, Covers(a, l), Covers(b, a)
    PROVE  Covers(b, l)
BY DEF Covers, Limits, Unlimited

\* A limit that covers the one of a plan is none, or positive.
LEMMA AtLeastOne ==
    ASSUME AskTypes, NEW a \in Limits, Covers(a, scansPerDayFromLimit(plan))
    PROVE  a = Unlimited \/ a \in Nat \ {0}
BY LimitsOfPlans DEF AskTypes, Covers, Limits, Unlimited

\* Every step keeps QuotaInv: the check reads the counter, which is behind by at most
\* the other requests, and every request is in one of the two sets at most.
LEMMA QuotaStep ==
    ASSUME AskTypes, QuotaInv, [AdmissionNext]_admissionVars
    PROVE  QuotaInv'
<1>0. AskTypes'
    BY AskTypesStep
<1>n. /\ scans \in Nat /\ made \in Nat /\ uncounted \in Nat /\ allowance \in Limits
      /\ scans' \in Nat /\ made' \in Nat /\ uncounted' \in Nat /\ allowance' \in Limits
      /\ clock \in {"day", "last"}
    BY <1>0 DEF AskTypes
<1>c. /\ Cardinality(Asks) \in Nat
      /\ Cardinality(Passed) \in Nat /\ Cardinality(Recording) \in Nat
      /\ Cardinality(Passed)' \in Nat /\ Cardinality(Recording)' \in Nat
      /\ Cardinality(Passed)' + Cardinality(Recording)' <= Cardinality(Asks)
    BY Counts, Disjoint
<1>a. allowance = Unlimited \/ allowance \in Nat \ {0}
    BY <1>n, AtLeastOne DEF QuotaInv
<1>o. ASSUME NEW r \in Asks, \A q \in Asks : q # r => asks'[q] = asks[q],
             plan' = plan, allowance' = allowance,
             asks'[r].pc = "count" \/ r \in Passed' => Covers(allowance, asks'[r].limit)
      PROVE  /\ Covers(allowance', scansPerDayFromLimit(plan'))
             /\ \A q \in Asks : asks'[q].pc = "count" \/ q \in Passed' => Covers(allowance', asks'[q].limit)
    BY <1>o DEF QuotaInv, Passed
<1>k. ASSUME NEW r \in Asks, \A q \in Asks : q # r => asks'[q] = asks[q],
             r \notin Passed', r \notin Recording, r \notin Recording',
             plan' = plan, allowance' = allowance, clock' = clock,
             scans' = scans, made' = made, uncounted' = uncounted,
             asks'[r].pc = "count" \/ r \in Passed' => Covers(allowance, asks'[r].limit)
      PROVE  QuotaInv'
    <2>1. /\ Cardinality(Passed)' <= Cardinality(Passed)
          /\ Cardinality(Recording)' = Cardinality(Recording)
        BY <1>k, <1>c, Others
    <2> QED
        BY <1>k, <1>o, <1>n, <1>c, <1>a, <2>1 DEF QuotaInv, Unlimited
<1>p. ASSUME NEW r \in Asks, \A q \in Asks : q # r => asks'[q] = asks[q],
             r \in Passed, r \notin Recording, r \notin Recording',
             plan' = plan, allowance' = allowance, clock' = clock,
             scans' = scans, made' = made, uncounted' = uncounted,
             asks'[r].pc = "count" \/ r \in Passed' => Covers(allowance, asks'[r].limit)
      PROVE  QuotaInv'
    <2>1. /\ Cardinality(Passed)' <= Cardinality(Passed)
          /\ Cardinality(Recording)' = Cardinality(Recording)
        BY <1>p, <1>c, Others
    <2> QED
        BY <1>p, <1>o, <1>n, <1>c, <1>a, <2>1 DEF QuotaInv, Unlimited
<1>1. ASSUME NEW r \in Asks, CheckScanLimit(r)
      PROVE  QuotaInv'
    <2>1. /\ \A q \in Asks : q # r => asks'[q] = asks[q]
          /\ r \notin Recording /\ r \notin Passed /\ r \notin Recording'
          /\ plan' = plan /\ allowance' = allowance /\ clock' = clock
          /\ scans' = scans /\ made' = made /\ uncounted' = uncounted
          /\ r \in Passed' => scans < asks[r].limit
          /\ Covers(allowance, asks[r].limit)
          /\ asks'[r].pc = "count" \/ r \in Passed' => asks'[r].limit = asks[r].limit
        BY <1>1 DEF CheckScanLimit, Exceeded, Goto, Answer, Passed, Recording, QuotaInv, AskTypes, Idle, AskRecord, Limits, Unlimited
    <2>l. asks[r].limit \in Limits
        BY <1>1 DEF CheckScanLimit, AskTypes, AskRecord, Idle
    <2>2. CASE r \notin Passed'
        BY <2>1, <2>2, <1>k
    <2>3. CASE r \in Passed'
        <3>1. /\ Cardinality(Passed)' = Cardinality(Passed) + 1
              /\ Cardinality(Recording)' = Cardinality(Recording)
              /\ Cardinality(Passed) + Cardinality(Recording) + 1 <= Cardinality(Asks)
            BY <2>1, <2>3, <1>c, Others, Counts, Disjoint
        <3>2. allowance = Unlimited \/ scans < allowance
            BY <2>1, <2>3, <2>l, <1>n DEF Covers, Limits, Unlimited
        <3> QED
            BY <2>1, <3>1, <3>2, <1>o, <1>n, <1>c, <1>a DEF QuotaInv, Unlimited
    <2> QED
        BY <2>2, <2>3
<1>2. ASSUME NEW r \in Asks, CheckPlan(r)
      PROVE  QuotaInv'
    <2>l. asks[r].limit \in Limits /\ asks[r].pc = "plan" /\ asks[r].form = asks[r].form
        BY <1>2 DEF CheckPlan, AskTypes, AskRecord, Idle
    <2> DEFINE l == scansPerDayFromLimit(plan)
               x == [asks[r] EXCEPT !.limit = l, !.pc = IF l = Unlimited THEN "consent" ELSE "count"]
    <2>1. asks' = [asks EXCEPT ![r] = x]
        BY <1>2 DEF CheckPlan
    <2>2. l \in Limits
        BY LimitsOfPlans DEF AskTypes, Limits
    <2>3. Covers(allowance, l)
        BY DEF QuotaInv
    <2> HIDE DEF l
    <2>5. x.limit = l /\ x.pc = IF l = Unlimited THEN "consent" ELSE "count"
        BY <2>l DEF AskTypes, AskRecord, Idle
    <2> HIDE DEF x
    <2>6. asks'[r] = x /\ \A q \in Asks : q # r => asks'[q] = asks[q]
        BY <2>1 DEF AskTypes
    <2>7. /\ plan' = plan /\ allowance' = allowance /\ clock' = clock
          /\ scans' = scans /\ made' = made /\ uncounted' = uncounted
        BY <1>2 DEF CheckPlan
    <2>8. r \notin Passed /\ r \notin Recording /\ r \notin Recording'
        BY <2>l, <2>5, <2>6 DEF Passed, Recording
    <2>9. CASE r \notin Passed'
        BY <2>3, <2>5, <2>6, <2>7, <2>8, <2>9, <1>k
    <2>10. CASE r \in Passed'
        <3>1. allowance = Unlimited
            BY <2>3, <2>5, <2>6, <2>10 DEF Passed, Covers
        <3>2. /\ Cardinality(Passed)' = Cardinality(Passed) + 1
              /\ Cardinality(Recording)' = Cardinality(Recording)
            BY <2>6, <2>8, <2>10, <1>c, Others
        <3> QED
            BY <2>3, <2>5, <2>6, <2>7, <3>1, <3>2, <1>o, <1>n, <1>c DEF QuotaInv
    <2> QED
        BY <2>9, <2>10
<1>3. ASSUME NEW r \in Asks, CreateJobRow(r)
      PROVE  QuotaInv'
    <2>1. /\ \A q \in Asks : q # r => asks'[q] = asks[q]
          /\ r \notin Recording
          /\ plan' = plan /\ allowance' = allowance /\ clock' = clock
          /\ scans' = scans /\ made' = made + 1
        BY <1>3 DEF CreateJobRow, Goto, Answer, Recording, AskTypes
    <2>0. asks'[r].pc \in {"record", "idle"}
        <3>1. CASE Goto(r, "record")
            BY <3>1, <1>3 DEF Goto, CreateJobRow, AskTypes, AskRecord, Idle
        <3>2. CASE Answer(r)
            BY <3>2 DEF Answer, AskTypes, Idle
        <3> QED
            BY <1>3, <3>1, <3>2 DEF CreateJobRow
    <2>p. r \notin Passed' /\ asks'[r].pc # "count"
        BY <2>0 DEF Passed
    <2>2. CASE asks[r].form.kind = "create" /\ Goto(r, "record") /\ uncounted' = uncounted
        <3>0. r \in Passed /\ r \in Recording'
            BY <1>3, <2>2 DEF CreateJobRow, Goto, Passed, Recording, AskTypes, AskRecord, Idle
        <3>1. /\ Cardinality(Passed)' = Cardinality(Passed) - 1
              /\ Cardinality(Recording)' = Cardinality(Recording) + 1
            BY <2>1, <2>p, <3>0, <1>c, Others
        <3> QED
            BY <2>1, <2>p, <2>2, <3>1, <1>o, <1>n, <1>c, <1>a DEF QuotaInv, Unlimited
    <2>3. CASE Answer(r) /\ uncounted' = uncounted + 1
        <3>0. r \notin Recording'
            BY <2>3 DEF Answer, Recording, AskTypes, Idle
        <3>1. /\ Cardinality(Passed)' <= Cardinality(Passed)
              /\ Cardinality(Recording)' = Cardinality(Recording)
            BY <2>1, <2>p, <3>0, <1>c, Others
        <3> QED
            BY <2>1, <2>p, <2>3, <3>1, <1>o, <1>n, <1>c, <1>a DEF QuotaInv, Unlimited
    <2> QED
        BY <1>3, <2>2, <2>3 DEF CreateJobRow
<1>4. ASSUME NEW r \in Asks, RecordScan(r)
      PROVE  QuotaInv'
    <2>1. /\ \A q \in Asks : q # r => asks'[q] = asks[q]
          /\ r \in Recording /\ r \notin Recording' /\ r \notin Passed' /\ r \notin Passed
          /\ plan' = plan /\ allowance' = allowance /\ clock' = clock
          /\ made' = made /\ uncounted' = uncounted
          /\ scans' = IF clock = "last" THEN 0 ELSE scans + 1
          /\ asks'[r].pc # "count"
        BY <1>4 DEF RecordScan, Answer, Passed, Recording, AskTypes, Idle
    <2>2. /\ Cardinality(Passed)' = Cardinality(Passed)
          /\ Cardinality(Recording)' = Cardinality(Recording) - 1
        BY <2>1, <1>c, Others
    <2> QED
        BY <2>1, <2>2, <1>o, <1>n, <1>c, <1>a DEF QuotaInv, Unlimited
<1>5. ASSUME NEW r \in Asks, AskFails(r)
      PROVE  QuotaInv'
    <2>1. /\ \A q \in Asks : q # r => asks'[q] = asks[q]
          /\ r \notin Recording' /\ r \notin Passed'
          /\ plan' = plan /\ allowance' = allowance /\ clock' = clock
          /\ made' = made /\ scans' = scans
          /\ uncounted' = IF r \in Recording THEN uncounted + 1 ELSE uncounted
          /\ asks'[r].pc # "count"
        BY <1>5 DEF AskFails, Answer, Passed, Recording, AskTypes, Idle
    <2>2. CASE r \in Recording
        <3>1. /\ Cardinality(Passed)' <= Cardinality(Passed)
              /\ Cardinality(Recording)' = Cardinality(Recording) - 1
            BY <2>1, <2>2, <1>c, Others
        <3> QED
            BY <2>1, <2>2, <3>1, <1>o, <1>n, <1>c, <1>a DEF QuotaInv, Unlimited
    <2>3. CASE r \notin Recording
        BY <2>1, <2>3, <1>k
    <2> QED
        BY <2>2, <2>3
<1>6. ASSUME NEW r \in Asks, CheckConsent(r)
      PROVE  QuotaInv'
    <2>1. /\ \A q \in Asks : q # r => asks'[q] = asks[q]
          /\ r \notin Recording /\ r \notin Recording'
          /\ plan' = plan /\ allowance' = allowance /\ clock' = clock
          /\ made' = made /\ scans' = scans /\ uncounted' = uncounted
          /\ asks[r].pc = "consent"
          /\ r \in Passed' => r \in Passed
          /\ asks'[r].pc # "count"
          /\ asks'[r].pc = "count" \/ r \in Passed' => asks'[r].limit = asks[r].limit
        BY <1>6 DEF CheckConsent, Goto, Answer, Passed, Recording, AskTypes, Idle, AskRecord
    <2>2. r \in Passed => Covers(allowance, asks[r].limit)
        BY DEF QuotaInv
    <2> QED
        BY <2>1, <2>2, <1>k, <1>p
<1>7. ASSUME NEW r \in Asks, NEW form \in Forms, SendAsk(r, form)
      PROVE  QuotaInv'
    <2>1. /\ \A q \in Asks : q # r => asks'[q] = asks[q]
          /\ r \notin Recording /\ r \notin Recording' /\ r \notin Passed'
          /\ plan' = plan /\ allowance' = allowance /\ clock' = clock
          /\ made' = made /\ scans' = scans /\ uncounted' = uncounted
          /\ asks'[r].pc # "count"
        BY <1>7 DEF SendAsk, Passed, Recording, AskTypes
    <2> QED
        BY <2>1, <1>k
<1>8. ASSUME NEW r \in Asks, CountRequest(r) \/ ExpireWindow(r)
      PROVE  QuotaInv'
    <2>1. /\ \A q \in Asks : q # r => asks'[q] = asks[q]
          /\ plan' = plan /\ allowance' = allowance /\ clock' = clock
          /\ made' = made /\ scans' = scans /\ uncounted' = uncounted
          /\ asks[r].pc \in {"limit", "expire"}
        BY <1>8 DEF CountRequest, ExpireWindow, Goto, AskTypes
    <2>2. asks'[r].pc \in {"expire", "limited"}
        <3>1. CASE Goto(r, "limited")
            BY <2>1, <3>1 DEF Goto, AskTypes, AskRecord, Idle
        <3>2. CASE ~Goto(r, "limited")
            <4> DEFINE pc == IF ArmsWindow(window.count + 1) THEN "expire" ELSE "limited"
                       x == [asks[r] EXCEPT !.count = window.count + 1, !.pc = pc]
            <4>1. asks' = [asks EXCEPT ![r] = x]
                BY <1>8, <3>2 DEF CountRequest, ExpireWindow
            <4>2. pc \in {"expire", "limited"}
                OBVIOUS
            <4> HIDE DEF pc
            <4>3. x.pc = pc
                BY <2>1 DEF AskTypes, AskRecord, Idle
            <4> HIDE DEF x
            <4> QED
                BY <4>1, <4>2, <4>3 DEF AskTypes
        <3> QED
            BY <3>1, <3>2
    <2>3. r \notin Recording /\ r \notin Recording' /\ r \notin Passed'
        BY <2>1, <2>2 DEF Recording, Passed
    <2> QED
        BY <2>1, <2>2, <2>3, <1>k
<1>9. ASSUME NEW r \in Asks, Admit(r)
      PROVE  QuotaInv'
    <2>1. /\ \A q \in Asks : q # r => asks'[q] = asks[q]
          /\ r \notin Recording /\ r \notin Recording'
          /\ plan' = plan /\ allowance' = allowance /\ clock' = clock
          /\ made' = made /\ scans' = scans /\ uncounted' = uncounted
          /\ r \notin Passed' /\ asks'[r].pc # "count"
        BY <1>9 DEF Admit, Goto, Answer, Passed, Recording, AskTypes, Idle, AskRecord
    <2> QED
        BY <2>1, <1>k
<1>10. CASE Midnight
    <2>1. /\ clock' = "day" /\ scans' = 0 /\ made' = 0 /\ uncounted' = 0
          /\ asks' = asks /\ plan' = plan
          /\ \A limit \in {scansPerDayFromLimit(plan)} \cup Checked : Covers(allowance', limit)
        BY <1>10 DEF Midnight, Allow
    <2>2. allowance' = Unlimited \/ allowance' \in Nat \ {0}
        BY <2>1, <1>n, AtLeastOne
    <2>3. \A r \in Asks : asks[r].pc = "count" \/ r \in Passed => asks[r].limit \in Checked
        BY DEF Checked, Passed
    <2>4. Cardinality(Passed)' <= Cardinality(Asks) /\ Cardinality(Recording)' <= Cardinality(Asks)
        BY <1>c
    <2>5. Passed' = Passed
        BY <2>1 DEF Passed
    <2>6. \A r \in Asks : asks'[r].pc = "count" \/ r \in Passed' => Covers(allowance', asks'[r].limit)
        BY <2>1, <2>3, <2>5
    <2>7. Covers(allowance', scansPerDayFromLimit(plan'))
        BY <2>1
    <2> QED
        BY <2>1, <2>2, <2>4, <2>6, <2>7, <1>n, <1>c DEF QuotaInv, Unlimited
<1>11. ASSUME NEW p \in DOMAIN PlanLimits, ChangePlan(p)
      PROVE  QuotaInv'
    <2>1. /\ clock' = clock /\ scans' = scans /\ made' = made /\ uncounted' = uncounted
          /\ asks' = asks /\ plan' = p
          /\ Covers(allowance', scansPerDayFromLimit(p)) /\ Covers(allowance', allowance)
        BY <1>11 DEF ChangePlan, Allow
    <2>2. ASSUME NEW r \in Asks, asks[r].pc = "count" \/ r \in Passed
          PROVE  Covers(allowance', asks[r].limit)
        <3>1. asks[r].limit \in Limits /\ Covers(allowance, asks[r].limit)
            BY <2>2 DEF AskTypes, AskRecord, Idle, QuotaInv, Passed
        <3> QED
            BY <3>1, <2>1, <1>n, CoversMore
    <2>3. Passed' = Passed /\ Recording' = Recording
        BY <2>1 DEF Passed, Recording
    <2>4. allowance' # Unlimited => allowance # Unlimited /\ allowance <= allowance'
        BY <2>1 DEF Covers
    <2>5. Covers(allowance', scansPerDayFromLimit(plan'))
        BY <2>1
    <2>6. \A r \in Asks : asks'[r].pc = "count" \/ r \in Passed' => Covers(allowance', asks'[r].limit)
        BY <2>1, <2>2, <2>3
    <2>7. /\ Cardinality(Passed)' = Cardinality(Passed)
          /\ Cardinality(Recording)' = Cardinality(Recording)
        BY <2>3
    <2>8. clock' = "day" /\ allowance' # Unlimited =>
            made' + Cardinality(Passed)' <= allowance' + Cardinality(Asks) - 1 + uncounted'
        BY <2>1, <2>4, <2>7, <1>n, <1>c, <1>a DEF QuotaInv, Unlimited, Limits
    <2> QED
        BY <2>1, <2>5, <2>6, <2>7, <2>8 DEF QuotaInv
<1>12. CASE LastSecond
    <2>1. Passed' = Passed /\ Recording' = Recording
        BY <1>12 DEF LastSecond, Passed, Recording
    <2> QED
        BY <1>12, <2>1, <1>n, <1>c DEF LastSecond, QuotaInv
<1>13. CASE WindowEnds \/ UNCHANGED admissionVars
    <2>1. Passed' = Passed /\ Recording' = Recording
        BY <1>13 DEF WindowEnds, admissionVars, Passed, Recording
    <2> QED
        BY <1>13, <2>1 DEF WindowEnds, admissionVars, QuotaInv
<1> QED
    BY <1>1, <1>2, <1>3, <1>4, <1>5, <1>6, <1>7, <1>8, <1>9, <1>10, <1>11, <1>12, <1>13
    DEF AdmissionNext

\* QuotaInv holds at the start.
LEMMA QuotaInit == AdmissionInit => QuotaInv
<1> SUFFICES ASSUME AdmissionInit PROVE QuotaInv
    OBVIOUS
<1>1. Passed = {} /\ Recording = {}
    BY DEF AdmissionInit, Passed, Recording, Idle
<1>2. Cardinality(Passed) = 0 /\ Cardinality(Recording) = 0
    BY <1>1, FS_EmptySet
<1>3. AskTypes
    BY AskTypesInit
<1>4. Covers(allowance, scansPerDayFromLimit(plan))
    BY AdmissionAssumption, LimitsOfPlans DEF AdmissionInit, Covers, Unlimited
<1>5. allowance = Unlimited \/ allowance \in Nat \ {0}
    BY <1>3, <1>4, AtLeastOne DEF AskTypes
<1>6. /\ scans = 0 /\ made = 0 /\ uncounted = 0
      /\ \A r \in Asks : asks[r].pc = "idle"
    BY DEF AdmissionInit, Idle
<1>7. /\ Cardinality(Asks) \in Nat
      /\ \A r \in Asks : r \notin Passed
    BY <1>1, Counts, Disjoint
<1> QED
    BY <1>2, <1>4, <1>5, <1>6, <1>7 DEF QuotaInv, Unlimited

\* QuotaInv holds for ever.
LEMMA AlwaysQuotaInv == AdmissionSpec => [](AskTypes /\ QuotaInv)
<1>1. AdmissionInit => QuotaInv
    BY QuotaInit
<1>2. AskTypes /\ QuotaInv /\ [AdmissionNext]_admissionVars => QuotaInv'
    BY QuotaStep
<1> QED
    BY <1>1, <1>2, AlwaysAskTypes, PTL DEF AdmissionSpec

\* QuotaHolds for any number of requests in flight, any plans and any faults: the jobs of a
\* day exceed the limit CheckScanLimit applies (limiter.go:25) by at most the requests that
\* overlap, and by those that are never counted: lost counts (handler.go:147), and every job of
\* POST /scan/upload (handler.go:153-222), which is not checked either.
THEOREM QuotaIsKept == AdmissionSpec => []QuotaHolds
<1>1. AskTypes /\ QuotaInv => QuotaHolds
    BY Counts, Disjoint DEF AskTypes, QuotaInv, QuotaHolds, Limits, Unlimited
<1> QED
    BY <1>1, AlwaysQuotaInv, PTL

\* AdmissionTypeOK holds for ever; the counter is never further ahead of the jobs than
\* there are requests.
LEMMA AdmissionTypes == AdmissionSpec => []AdmissionTypeOK
<1>1. AskTypes /\ QuotaInv => AdmissionTypeOK
    BY Counts, Disjoint DEF AskTypes, QuotaInv, AdmissionTypeOK
<1> QED
    BY <1>1, AlwaysQuotaInv, PTL

\* The composition lets each part do what it does alone.
LEMMA BothParts == UploadsSpec => ChunkSpec /\ AdmissionSpec
<1>1. Init => ChunkInit /\ AdmissionInit
    BY DEF Init
<1>2. [Next]_<<chunkVars, admissionVars>> => [ChunkNext]_chunkVars /\ [AdmissionNext]_admissionVars
    BY DEF Next
<1> QED
    BY <1>1, <1>2, PTL DEF UploadsSpec, ChunkSpec, AdmissionSpec

\* The type invariant of the composition of the chunked upload and the admission.
THEOREM UploadsTypes == UploadsSpec => []TypeOK
<1>1. ChunkTypeOK /\ AdmissionTypeOK => TypeOK
    BY DEF TypeOK
<1> QED
    BY <1>1, BothParts, UploadTypes, AdmissionTypes, PTL
=============================================================================
