------------------------------- MODULE Accounts --------------------------------
(***************************************************************************)
(* One e-mail address: the one-time codes that verify it, the account that *)
(* is registered for it, its sessions and its password.  A request is a    *)
(* sequence of SQL statements between which others run; two columns are    *)
(* protected by the database alone, users.email and user_profiles.user_id. *)
(* A code, a token and a password are numbers nobody else draws.           *)
(***************************************************************************)
EXTENDS Integers, Sequences, FiniteSets

CONSTANTS
    Callers,          \* clients of the API, each with one request at a time
    Student,          \* the client that signs up and does not give up
    Applications,     \* the registration forms that are filled in
    maxOTPAttempts,   \* 5
    SignUpBudget,     \* bounds when the address is new
    MemberBudget      \* bounds when it has an account

AccountFaults == {"requests",  \* requests besides those of the sign-up
                  "trouble"}   \* statements and mails that fail, and expiries

ASSUME AccountAssumption ==
    /\ Student \in Callers /\ IsFiniteSet(Callers) /\ maxOTPAttempts \in Nat \ {0}
    /\ {SignUpBudget, MemberBudget} \subseteq [AccountFaults -> Nat]

VARIABLES
    codes,         \* email_verification_otps; wrong counts the comparisons that failed
    user,          \* users with user_profiles: a set of at most one row
    resets,        \* password_reset_tokens
    inbox,         \* id of the code whose mail arrived last
    calls,         \* the request of each client
    student,       \* how far the sign-up is
    session,       \* claims of the tokens a client holds
    now,           \* clock and source of random values
    changed,       \* passwords set with each reset token
    uncounted,     \* failed writes of attempts and of the used mark
    accountBudget

accountVars == <<codes, user, resets, inbox, calls, student, session, now, changed, uncounted,
                 accountBudget>>

NoCall == [pc |-> "idle"]
Pay(k) ==
    /\ accountBudget[k] > 0
    /\ accountBudget' = [accountBudget EXCEPT ![k] = @ - 1]
Moves(c, x) == calls' = [calls EXCEPT ![c] = x]
Steps(c, pc) == calls' = [calls EXCEPT ![c].pc = pc]

\* The request ends; one of the sign-up tells the student where to go on.
Answer(c, stage) ==
    /\ calls' = [calls EXCEPT ![c] = NoCall]
    /\ student' = IF calls[c].flow THEN [student EXCEPT !.stage = stage] ELSE student

\* A request arrives: op for the reader, pc its first statement, ref what it carries.
Arrives(c, op, pc, ref, flow) ==
    /\ calls[c].pc = "idle"
    /\ Moves(c, [op |-> op, pc |-> pc, ref |-> ref, flow |-> flow])
    /\ UNCHANGED <<codes, user, resets, inbox, student, session, now, changed, uncounted>>

(* ------------------------------- validation ----------------------------- *)

ValidatePassword(p) ==
    p.length \in 8..72 /\ {"upper", "lower", "digit"} \subseteq p.holds /\ ~p.common

\* The digits that remain without blanks, dashes and the country code.
ValidateMobile(m) == m.digits = 10 /\ m.first >= 6

ValidateClass(class) == class # ""

ValidateEmail(e) == e.length \in 1..254 /\ e.parses

ValidApplication(a) ==
    /\ ValidateEmail(a.email) /\ ValidateClass(a.class) /\ ValidateMobile(a.mobile)
    /\ a.password = a.confirm /\ ValidatePassword(a.password) /\ a.terms

(* ----------------------------- one-time codes --------------------------- *)

\* By created_at, which the service takes before the insert.
GetLatestEmailOTP == {r \in codes : \A o \in codes : o.created <= r.created}

\* UPDATE ... WHERE id = $1, which may find no row.
Updated(id, Change(_)) == {IF r.id = id THEN Change(r) ELSE r : r \in codes}

\* The student types the code that arrived last, now and then wrongly.
SignUp ==
    \/ /\ UNCHANGED accountBudget
       /\ \/ student.stage = "ask" /\ Arrives(Student, "code", "exists", 0, TRUE)
          \/ student.stage = "enter" /\ Arrives(Student, "verify", "compare", inbox, TRUE)
          \/ /\ student.stage = "apply" /\ (\E a \in Applications : ValidApplication(a))
             /\ Arrives(Student, "register", "token", student.token, TRUE)
          \/ student.stage = "registered" /\ \E u \in user :
                Arrives(Student, "login", "password", u.password, TRUE)
    \/ student.stage = "enter" /\ Arrives(Student, "verify", "compare", 0, TRUE) /\ Pay("trouble")

\* Other requests of the same people and of others, with values they may know.
Request(c) ==
    /\ Pay("requests")
    /\ \/ Arrives(c, "code", "exists", 0, FALSE)
       \/ \E typed \in {0, inbox} : Arrives(c, "verify", "compare", typed, FALSE)
       \/ Arrives(c, "register", "token", student.token, FALSE)
       \/ Arrives(c, "forgot", "find", 0, FALSE)
       \/ \E t \in DOMAIN resets : Arrives(c, "reset", "check", t, FALSE)
       \/ \E u \in user : \/ Arrives(c, "login", "password", u.password, FALSE)
                          \/ Arrives(c, "change", "current", u.password, FALSE)
       \/ session # {} /\ Arrives(c, "refresh", "claims", 0, FALSE)

\* What every statement leaves alone.
OnlyCodes == UNCHANGED <<user, resets, session, changed>>
OnlyAccount == UNCHANGED <<codes, resets, inbox, now, changed, uncounted>>

\* An account that cannot be read is taken for none.
GetUserByEmail(c) ==
    /\ calls[c].pc = "exists"
    /\ \/ /\ (user = {} /\ UNCHANGED accountBudget) \/ (user # {} /\ Pay("trouble"))
          /\ Steps(c, IF calls[c].op = "code" THEN "delete" ELSE "insert") /\ UNCHANGED student
       \/ user # {} /\ Answer(c, "registered") /\ UNCHANGED accountBudget
    /\ UNCHANGED <<codes, inbox, now, uncounted>> /\ OnlyCodes

DeleteEmailOTPs(c) ==
    /\ calls[c].pc = "delete"
    /\ \/ /\ codes' = {} /\ now' = now + 1
          /\ Moves(c, [calls[c] EXCEPT !.pc = "create", !.ref = now'])
          /\ UNCHANGED <<student, accountBudget>>
       \/ Pay("trouble") /\ Answer(c, "ask") /\ UNCHANGED <<codes, now>>
    /\ UNCHANGED <<inbox, uncounted>> /\ OnlyCodes

NewCode(id, created) ==
    [id |-> id, created |-> created, attempts |-> 0, verified |-> FALSE, token |-> 0,
     expired |-> FALSE, wrong |-> 0]

CreateEmailOTP(c) ==
    /\ calls[c].pc = "create"
    /\ \/ /\ now' = now + 1 /\ codes' = codes \cup {NewCode(now', calls[c].ref)}
          /\ Moves(c, [calls[c] EXCEPT !.pc = "mail", !.ref = now'])
          /\ UNCHANGED <<student, accountBudget>>
       \/ Pay("trouble") /\ Answer(c, "ask") /\ UNCHANGED <<codes, now>>
    /\ UNCHANGED <<inbox, uncounted>> /\ OnlyCodes

\* Queued for the mail worker; the mail may be lost, and is then asked for again.
EnqueueRegistrationOTP(c) ==
    /\ calls[c].pc = "mail"
    /\ \/ inbox' = calls[c].ref /\ Answer(c, "enter") /\ UNCHANGED accountBudget
       \/ UNCHANGED inbox /\ Answer(c, "ask") /\ Pay("trouble")
    /\ UNCHANGED <<codes, now, uncounted>> /\ OnlyCodes

AttemptsOverMax(r) == r.attempts > maxOTPAttempts

AttemptsUsedUp(r) == r.attempts >= maxOTPAttempts

Refused(r) == r.verified \/ r.expired \/ AttemptsUsedUp(r)

\* The newest row alone decides.
VerifyRegistrationOTP(c) ==
    /\ calls[c].pc = "compare"
    /\ \/ /\ \A r \in GetLatestEmailOTP : Refused(r)
          /\ Answer(c, "ask") /\ UNCHANGED codes
       \/ \E r \in GetLatestEmailOTP :
             /\ ~Refused(r) /\ UNCHANGED student
             /\ \/ calls[c].ref = r.id /\ Steps(c, "mark") /\ UNCHANGED codes
                \/ /\ calls[c].ref # r.id
                   /\ codes' = Updated(r.id, LAMBDA x : [x EXCEPT !.wrong = @ + 1])
                   /\ Moves(c, [calls[c] EXCEPT !.pc = "count", !.ref = r.id])
    /\ UNCHANGED <<inbox, now, uncounted, accountBudget>> /\ OnlyCodes

\* Its error is ignored.
IncrementEmailOTPAttempts(c) ==
    /\ calls[c].pc = "count" /\ Answer(c, "ask")
    /\ \/ codes' = Updated(calls[c].ref, LAMBDA x : [x EXCEPT !.attempts = @ + 1])
          /\ UNCHANGED <<uncounted, accountBudget>>
       \/ UNCHANGED codes /\ uncounted' = uncounted + 1 /\ Pay("trouble")
    /\ UNCHANGED <<inbox, now>> /\ OnlyCodes

\* The second of two verifications overwrites the token of the first.
MarkEmailOTPVerified(c) ==
    /\ calls[c].pc = "mark"
    /\ \/ /\ now' = now + 1 /\ UNCHANGED accountBudget
          /\ codes' = Updated(calls[c].ref, LAMBDA x : [x EXCEPT !.verified = TRUE, !.token = now'])
          /\ calls' = [calls EXCEPT ![c] = NoCall]
          /\ student' = IF calls[c].flow THEN [stage |-> "apply", token |-> now'] ELSE student
       \/ Pay("trouble") /\ Answer(c, "ask") /\ UNCHANGED <<codes, now>>
    /\ UNCHANGED <<inbox, uncounted>> /\ OnlyCodes

(* ------------------------------ registration ---------------------------- *)

GetVerifiedEmailOTPByToken(c) ==
    LET found == \E r \in codes : r.verified /\ r.token = calls[c].ref /\ ~r.expired
    IN  /\ calls[c].pc = "token"
        /\ \/ found /\ Steps(c, "exists") /\ UNCHANGED student
           \/ ~found /\ Answer(c, "ask")
        /\ UNCHANGED <<user, session, accountBudget>> /\ OnlyAccount

CreateUserProfileDropped(c) ==
    /\ calls[c].pc = "profile" /\ UNCHANGED <<user, session, student, accountBudget>>
    /\ Steps(c, "clear") /\ OnlyAccount

NewUser(password) ==
    [password |-> password, profile |-> FALSE, role |-> "student", status |-> "active"]

\* The second of two registrations fails on the index of users.email.
CreateUser(c) ==
    /\ calls[c].pc = "insert" /\ UNCHANGED session
    /\ \/ /\ user = {} /\ user' = {NewUser(calls[c].ref)}
          /\ Steps(c, "profile") /\ UNCHANGED <<student, accountBudget>>
       \/ user # {} /\ Answer(c, "ask") /\ UNCHANGED <<user, accountBudget>>
       \/ Pay("trouble") /\ Answer(c, "ask") /\ UNCHANGED user
    /\ OnlyAccount

CreateUserProfile(c) ==
    /\ calls[c].pc = "profile" /\ UNCHANGED session
    /\ \/ /\ user' = {[u EXCEPT !.profile = TRUE] : u \in user}
          /\ Steps(c, "clear") /\ UNCHANGED <<student, accountBudget>>
       \/ Pay("trouble") /\ Answer(c, "ask") /\ UNCHANGED user
    /\ OnlyAccount

generateAccessToken(role) == [type |-> "access", role |-> role]

generateRefreshToken(role) == [type |-> "refresh", role |-> role]

\* Codes are deleted and the welcome mail queued; neither error is looked at.
DeleteAfterUse(c) ==
    /\ calls[c].pc = "clear" /\ Answer(c, "member")
    /\ \/ codes' = {} /\ UNCHANGED accountBudget
       \/ UNCHANGED codes /\ Pay("trouble")
    /\ session' = {generateAccessToken("student"), generateRefreshToken("student")}
    /\ UNCHANGED <<user, resets, inbox, now, changed, uncounted>>

(* -------------------------------- sessions ------------------------------ *)

\* The password and the status of the row that was read, then last_login_at, whose error
\* counts, then the tokens.
Login(c) ==
    /\ calls[c].pc = "password"
    /\ LET known == {u \in user : u.password = calls[c].ref /\ u.status = "active"} IN
         \/ /\ Answer(c, IF known = {} THEN "registered" ELSE "member")
            /\ session' = IF known = {} THEN session
                          ELSE UNION {{generateAccessToken(u.role), generateRefreshToken(u.role)}
                                       : u \in known}
            /\ UNCHANGED accountBudget
         \/ known # {} /\ Pay("trouble") /\ Answer(c, "registered") /\ UNCHANGED session
    /\ UNCHANGED user /\ OnlyAccount

\* The role of a new access token is that of the row, not of the refresh token.
RefreshToken(c) ==
    /\ calls[c].pc = "claims" /\ Answer(c, student.stage)
    /\ \E s \in session : s.type = "refresh"
    /\ session' = {s \in session : s.type = "refresh"}
                    \cup {generateAccessToken(u.role) : u \in user}
    /\ UNCHANGED <<user, accountBudget>> /\ OnlyAccount

\* At the start of a process whose ADMIN_BOOTSTRAP_EMAIL is this address.
PromoteAdminByEmail ==
    /\ Pay("requests") /\ user' = {[u EXCEPT !.role = "admin"] : u \in user}
    /\ UNCHANGED <<calls, student, session>> /\ OnlyAccount

\* An administrator suspends the account or lifts the suspension; tokens stay valid.
SetUserStatus(status) ==
    /\ Pay("requests") /\ user' = {[u EXCEPT !.status = status] : u \in user}
    /\ UNCHANGED <<calls, student, session>> /\ OnlyAccount

(* -------------------------------- passwords ----------------------------- *)

NewResetToken == [used |-> FALSE, expired |-> FALSE]

\* A token is mailed to the address if it has an account; the answer is the same.
InitiatePasswordReset(c) ==
    /\ calls[c].pc = "find" /\ Answer(c, "ask")
    /\ \/ user # {} /\ resets' = Append(resets, NewResetToken)
          /\ changed' = Append(changed, 0)
       \/ user = {} /\ UNCHANGED <<resets, changed>>
    /\ UNCHANGED <<codes, user, inbox, session, now, uncounted, accountBudget>>

TokenExpired(t) == resets[t].expired

TokenSpent(t) == resets[t].used \/ resets[t].expired

GetPasswordResetToken(c) ==
    /\ calls[c].pc = "check"
    /\ \/ TokenSpent(calls[c].ref) /\ Answer(c, "ask")
       \/ ~TokenSpent(calls[c].ref) /\ Steps(c, "set") /\ UNCHANGED student
    /\ UNCHANGED <<user, session, accountBudget>> /\ OnlyAccount

\* UpdateUserPassword, of a reset or of a change whose current password was right.
UpdateUserPassword(c) ==
    /\ calls[c].pc = "set" /\ now' = now + 1
    /\ user' = {[u EXCEPT !.password = now'] : u \in user}
    /\ \/ calls[c].op = "reset" /\ Steps(c, "used") /\ UNCHANGED student
          /\ changed' = [changed EXCEPT ![calls[c].ref] = @ + 1]
       \/ calls[c].op = "change" /\ Answer(c, "ask") /\ UNCHANGED changed
    /\ UNCHANGED <<codes, resets, inbox, session, uncounted, accountBudget>>

MarkPasswordResetTokenUsed(c) ==
    /\ calls[c].pc = "used" /\ Answer(c, "ask")
    /\ \/ resets' = [resets EXCEPT ![calls[c].ref].used = TRUE]
          /\ UNCHANGED <<uncounted, accountBudget>>
       \/ UNCHANGED resets /\ uncounted' = uncounted + 1 /\ Pay("trouble")
    /\ UNCHANGED <<codes, user, inbox, session, now, changed>>

ChangePassword(c) ==
    /\ calls[c].pc = "current"
    /\ \/ (\E u \in user : u.password = calls[c].ref) /\ Steps(c, "set") /\ UNCHANGED student
       \/ (\A u \in user : u.password # calls[c].ref) /\ Answer(c, "ask")
    /\ UNCHANGED <<user, session, accountBudget>> /\ OnlyAccount

(* --------------------------------- time --------------------------------- *)

Expire ==
    /\ Pay("trouble")
    /\ \/ /\ \E r \in codes : codes' = Updated(r.id, LAMBDA x : [x EXCEPT !.expired = TRUE])
          /\ UNCHANGED resets
       \/ /\ \E t \in DOMAIN resets : resets' = [resets EXCEPT ![t].expired = TRUE]
          /\ UNCHANGED codes
    /\ UNCHANGED <<user, inbox, calls, student, session, now, changed, uncounted>>

\* The address is new, or has an account and a reset link that was asked for.
Account == [NewUser(0) EXCEPT !.profile = TRUE]

AccountInit ==
    /\ codes = {} /\ user \in {{}, {Account}} /\ inbox = 0
    /\ resets = IF user = {} THEN <<>> ELSE <<NewResetToken>>
    /\ calls = [c \in Callers |-> NoCall]
    /\ student = [stage |-> IF user = {} THEN "ask" ELSE "member", token |-> 0]
    /\ session = {} /\ now = 0 /\ uncounted = 0
    /\ changed = [t \in DOMAIN resets |-> 0]
    /\ accountBudget = IF user = {} THEN SignUpBudget ELSE MemberBudget

Statement(c) ==
    \/ GetUserByEmail(c) \/ DeleteEmailOTPs(c) \/ CreateEmailOTP(c) \/ EnqueueRegistrationOTP(c)
    \/ VerifyRegistrationOTP(c) \/ IncrementEmailOTPAttempts(c) \/ MarkEmailOTPVerified(c)
    \/ GetVerifiedEmailOTPByToken(c) \/ CreateUser(c) \/ CreateUserProfile(c) \/ DeleteAfterUse(c)
    \/ Login(c) \/ RefreshToken(c) \/ InitiatePasswordReset(c) \/ GetPasswordResetToken(c)
    \/ UpdateUserPassword(c) \/ MarkPasswordResetTokenUsed(c) \/ ChangePassword(c)

AccountNext ==
    \/ SignUp
    \/ \E c \in Callers : Request(c) \/ Statement(c)
    \/ PromoteAdminByEmail \/ Expire
    \/ \E status \in {"active", "suspended"} : SetUserStatus(status)

\* Every request is carried through, and the student takes the next step.
AccountFairness ==
    /\ \A c \in Callers : WF_accountVars(Statement(c))
    /\ WF_accountVars(SignUp)

AccountSpec == AccountInit /\ [][AccountNext]_accountVars /\ AccountFairness

(* ------------------------------ properties ------------------------------ *)

AccountTypeOK ==
    /\ \A r \in codes : {r.id, r.created} \subseteq 1..now /\ r.attempts \in 0..r.wrong
    /\ user \subseteq [password : 0..now, profile : BOOLEAN, role : {"student", "admin"},
                       status : {"active", "suspended"}]
    /\ Cardinality(user) <= 1 /\ inbox \in 0..now
    /\ DOMAIN changed = DOMAIN resets
    /\ student.stage \in {"ask", "enter", "apply", "registered", "member"}
    /\ session \subseteq [type : {"access", "refresh"}, role : {"student", "admin"}]

\* Attempts are read, compared and counted in three statements: requests that run
\* together all pass the limit, but no more of them than there are clients, and
\* beyond that only as many as writes of the counter failed.
GuessesBounded ==
    \A r \in codes : r.wrong <= maxOTPAttempts - 1 + Cardinality(Callers) + uncounted

\* A reset token is checked, used and marked in three statements: each client
\* that runs at the same time may set a password with it, none that comes later.
ResetOnce ==
    \A t \in DOMAIN resets : changed[t] <= Cardinality(Callers) + uncounted

\* A student who keeps asking for codes gets an account, whatever mails are lost, codes
\* expire and other requests replace the code, and it has a profile unless the insert
\* of the profile failed, after which the address cannot be registered any more.
SignUpCompletes ==
    <>[](\E u \in user : (u.profile \/ accountBudget["trouble"] < SignUpBudget["trouble"]))
===============================================================================
