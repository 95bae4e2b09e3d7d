----------------------------- MODULE ScanAdmission -----------------------------
(***************************************************************************)
(* How the scan requests of one user are admitted: the request limiter of  *)
(* the route group, validation, the daily scan quota and the consent.      *)
(* Limiter and quota are Redis counters with an expiry; the quota is       *)
(* checked before a job is created and counted after it, for one of the    *)
(* two routes that create jobs.                                            *)
(***************************************************************************)
EXTENDS Integers, FiniteSets

CONSTANTS
    Asks,          \* HTTP requests that may be in flight
    Forms,         \* what is sent: route, board, mode, pages, accepted terms
    RateLimit,     \* requests per window (30 per minute)
    PlanLimits,    \* scan_limit of each plan, by plan name
    AdmissionBudget

AdmissionFaults == {"send",   \* requests of a behaviour
                    "fail",   \* an error of Redis or Postgres, a crash
                    "plan"}   \* changes of the plan

ASSUME AdmissionAssumption ==
    /\ RateLimit \in Nat \ {0}
    /\ DOMAIN PlanLimits = {"free", "basic", "pro"}
    /\ \A p \in DOMAIN PlanLimits : PlanLimits[p] \in Nat
    /\ AdmissionBudget \in [AdmissionFaults -> Nat]
    /\ IsFiniteSet(Asks)

VARIABLES
    plan,          \* the plan of the active subscription
    window,        \* rl:user:<id>:scan, and whether the key has an expiry
    scans,         \* scans:<id>:<day>
    consent,       \* a tos.accepted entry in the audit log
    clock,         \* "day", or "last" in the second before midnight
    made,          \* jobs created today
    allowance,     \* the largest limit the user had today
    uncounted,     \* jobs of today that RecordScan did not count
    asks,
    admissionBudget

admissionVars == <<plan, window, scans, consent, clock, made, allowance, uncounted,
                   asks, admissionBudget>>

Idle == [pc |-> "idle"]
Goto(r, pc) == asks' = [asks EXCEPT ![r].pc = pc]
Answer(r) == asks' = [asks EXCEPT ![r] = Idle]
Use(k) ==
    /\ admissionBudget[k] > 0
    /\ admissionBudget' = [admissionBudget EXCEPT ![k] = @ - 1]

(* ------------------------------ validation ------------------------------ *)

AllowedBoards == {"ncert", "cbse", "icse", "jharkhand_board", "bihar_board", "state_board"}

NormalizeBoard(b) ==
    CASE b = "" -> "ncert"
      [] b = "jac" -> "jharkhand_board"
      [] b = "bseb" -> "bihar_board"
      [] OTHER -> b

PageCount(form) == IF form.pages <= 0 THEN 1 ELSE form.pages

ValidateScanMode(mode) == mode \in {"", "chapter", "existing_questions"}

ValidateScanJob(form) ==
    /\ NormalizeBoard(form.board) \in AllowedBoards
    /\ PageCount(form) \in 1..10

(* --------------------------- the request limiter ------------------------ *)

\* POST /scan/jobs, POST /scan/upload, or one of the routes that only read.
SendAsk(r, form) ==
    /\ asks[r].pc = "idle" /\ Use("send")
    /\ asks' = [asks EXCEPT ![r] =
          [pc |-> "limit", form |-> form, count |-> 0, limit |-> 0]]
    /\ UNCHANGED <<plan, window, scans, consent, clock, made, allowance, uncounted>>

NeverArms(count) == count = 0

\* Incr answers 1 to the request that created the key.
ArmsWindow(count) == count = 1

\* Without Redis the request passes uncounted.
CountRequest(r) ==
    /\ asks[r].pc = "limit"
    /\ \/ /\ window' = [window EXCEPT !.count = @ + 1]
          /\ asks' = [asks EXCEPT ![r].count = window.count + 1, ![r].pc =
                IF ArmsWindow(window.count + 1) THEN "expire" ELSE "limited"]
          /\ UNCHANGED admissionBudget
       \/ Use("fail") /\ Goto(r, "limited") /\ UNCHANGED window
    /\ UNCHANGED <<plan, scans, consent, clock, made, allowance, uncounted>>

\* Its error is ignored.
ExpireWindow(r) ==
    /\ asks[r].pc = "expire"
    /\ \/ window' = [window EXCEPT !.expires = window.count > 0] /\ UNCHANGED admissionBudget
       \/ UNCHANGED window /\ Use("fail")
    /\ Goto(r, "limited")
    /\ UNCHANGED <<plan, scans, consent, clock, made, allowance, uncounted>>

Refused(r) == asks[r].count > RateLimit

\* Past the limiter the handler validates; only POST /scan/jobs asks for the quota.
Admit(r) ==
    LET valid == ValidateScanJob(asks[r].form) /\ ValidateScanMode(asks[r].form.mode) IN
    /\ asks[r].pc = "limited"
    /\ \/ /\ Refused(r) \/ asks[r].form.kind = "read" \/ ~valid
          /\ Answer(r)
       \/ ~Refused(r) /\ valid /\ asks[r].form.kind = "create" /\ Goto(r, "plan")
       \/ ~Refused(r) /\ valid /\ asks[r].form.kind = "upload" /\ Goto(r, "consent")
    /\ UNCHANGED <<plan, window, scans, consent, clock, made, allowance, uncounted,
                   admissionBudget>>

(* ------------------------------- the quota ------------------------------ *)

Unlimited == -1

scansPerDayFromLimit(p) ==
    IF p = "pro" \/ PlanLimits[p] <= 0 THEN Unlimited ELSE PlanLimits[p]

\* GetEntitlements reads the active subscription; no limit, no further check.
CheckPlan(r) ==
    /\ asks[r].pc = "plan"
    /\ asks' = [asks EXCEPT ![r].limit = scansPerDayFromLimit(plan),
                            ![r].pc = IF scansPerDayFromLimit(plan) = Unlimited
                                      THEN "consent" ELSE "count"]
    /\ UNCHANGED <<plan, window, scans, consent, clock, made, allowance, uncounted,
                   admissionBudget>>

ExceededLate(count, limit) == count > limit

Exceeded(count, limit) == count >= limit

CheckScanLimit(r) ==
    /\ asks[r].pc = "count"
    /\ IF Exceeded(scans, asks[r].limit) THEN Answer(r) ELSE Goto(r, "consent")
    /\ UNCHANGED <<plan, window, scans, consent, clock, made, allowance, uncounted,
                   admissionBudget>>

\* Accepting the terms is recorded; otherwise an earlier acceptance is needed.
CheckConsent(r) ==
    /\ asks[r].pc = "consent"
    /\ \/ asks[r].form.terms /\ consent' = TRUE /\ Goto(r, "create")
       \/ ~asks[r].form.terms /\ consent /\ Goto(r, "create") /\ UNCHANGED consent
       \/ ~asks[r].form.terms /\ ~consent /\ Answer(r) /\ UNCHANGED consent
    /\ UNCHANGED <<plan, window, scans, clock, made, allowance, uncounted, admissionBudget>>

\* The job row; its pages and their images are the matter of ScanJobs.  POST /scan/upload
\* never calls RecordScan.
CreateJobRow(r) ==
    /\ asks[r].pc = "create"
    /\ made' = made + 1
    /\ \/ asks[r].form.kind = "create" /\ Goto(r, "record") /\ UNCHANGED uncounted
       \/ asks[r].form.kind = "upload" /\ Answer(r) /\ uncounted' = uncounted + 1
    /\ UNCHANGED <<plan, window, scans, consent, clock, allowance, admissionBudget>>

\* The key expires at 23:59:59: an ExpireAt in the last second removes it.
RecordScan(r) ==
    /\ asks[r].pc = "record"
    /\ scans' = IF clock = "last" THEN 0 ELSE scans + 1
    /\ Answer(r)
    /\ UNCHANGED <<plan, window, consent, clock, made, allowance, uncounted, admissionBudget>>

\* Any error ends a request; one of RecordScan leaves its job uncounted.
AskFails(r) ==
    /\ asks[r].pc \in {"limited", "expire", "plan", "count", "consent", "create", "record"}
    /\ Use("fail")
    /\ Answer(r)
    /\ uncounted' = IF asks[r].pc = "record" THEN uncounted + 1 ELSE uncounted
    /\ UNCHANGED <<plan, window, scans, consent, clock, made, allowance>>

(* --------------------------- time and payments -------------------------- *)

WindowEnds ==
    /\ window.expires
    /\ window' = [count |-> 0, expires |-> FALSE]
    /\ UNCHANGED <<plan, scans, consent, clock, made, allowance, uncounted, asks, admissionBudget>>

LastSecond ==
    /\ clock = "day" /\ clock' = "last" /\ scans' = 0
    /\ UNCHANGED <<plan, window, consent, made, allowance, uncounted, asks, admissionBudget>>

Covers(most, limit) == most = Unlimited \/ (limit # Unlimited /\ limit <= most)
\* The user is allowed the largest of the limits that applied today.
Allow(limits) ==
    \E most \in limits : allowance' = most /\ \A limit \in limits : Covers(most, limit)

\* A check of yesterday may still lead to a job of today.
Checked == {asks[r].limit : r \in {q \in Asks : asks[q].pc \in {"count", "consent", "create"}}}

Midnight ==
    /\ clock = "last" /\ clock' = "day" /\ scans' = 0 /\ made' = 0
    /\ Allow({scansPerDayFromLimit(plan)} \cup Checked)
    /\ uncounted' = 0
    /\ UNCHANGED <<plan, window, consent, asks, admissionBudget>>

\* A subscription starts, ends or is replaced.
ChangePlan(p) ==
    /\ plan # p /\ Use("plan") /\ plan' = p
    /\ Allow({scansPerDayFromLimit(p), allowance})
    /\ UNCHANGED <<window, scans, consent, clock, made, uncounted, asks>>

AdmissionInit ==
    /\ plan = "free" /\ window = [count |-> 0, expires |-> FALSE]
    /\ scans = 0 /\ consent = FALSE /\ clock = "day"
    /\ made = 0 /\ allowance = scansPerDayFromLimit("free") /\ uncounted = 0
    /\ asks = [r \in Asks |-> Idle]
    /\ admissionBudget = AdmissionBudget

AdmissionNext ==
    \/ \E r \in Asks :
         \/ \E form \in Forms : SendAsk(r, form)
         \/ CountRequest(r) \/ ExpireWindow(r) \/ Admit(r) \/ CheckPlan(r)
         \/ CheckScanLimit(r) \/ CheckConsent(r) \/ CreateJobRow(r) \/ RecordScan(r)
         \/ AskFails(r)
    \/ WindowEnds \/ LastSecond \/ Midnight
    \/ \E p \in DOMAIN PlanLimits : ChangePlan(p)

AdmissionSpec == AdmissionInit /\ [][AdmissionNext]_admissionVars

(* ------------------------------ properties ------------------------------ *)

AdmissionTypeOK ==
    /\ plan \in DOMAIN PlanLimits /\ consent \in BOOLEAN /\ clock \in {"day", "last"}
    /\ window.count \in Nat /\ window.expires \in BOOLEAN
    /\ scans \in Nat /\ made \in Nat /\ uncounted \in Nat
    /\ scans <= made + Cardinality(Asks)

\* CheckScanLimit and RecordScan are apart, so requests that overlap all pass the
\* check; but only one for each that is in flight.  The daily limit does not bound what
\* is never counted: a job whose RecordScan fails, and every job of POST /scan/upload.
QuotaHolds ==
    clock = "day" /\ allowance # Unlimited =>
        made <= allowance + Cardinality(Asks) - 1 + uncounted

\* The request limiter refuses for a window and no longer: a counter above the
\* limit has an expiry, unless the call that sets it has failed.
RateWindowEnds ==
    window.count > RateLimit =>
        \/ window.expires
        \/ \E r \in Asks : asks[r].pc = "expire"
        \/ admissionBudget["fail"] < AdmissionBudget["fail"]
===============================================================================
