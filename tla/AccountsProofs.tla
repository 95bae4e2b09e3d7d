---------------------------- MODULE AccountsProofs -----------------------------
(*****************************************************************************)
(* Proofs about registration, sessions and password resets, for any number of *)
(* clients and requests: every row keeps its type and there is one account at *)
(* most, wrong guesses at a one-time code are bounded by the attempts and the *)
(* clients, and a reset token sets a password once per client at most.       *)
(* Both bounds count the clients that are between two statements of the same *)
(* request: those that compared and have not counted (CountingAt), those that *)
(* found the token unused and have not set the password (SettingAt), and those *)
(* that set it and have not marked the token (MarkingAt).                    *)
(*****************************************************************************)
EXTENDS Accounts, FiniteSetTheorems, SequenceTheorems, TLAPS

\* What a request is for.
Ops == {"code", "verify", "register", "login", "forgot", "reset", "change", "refresh"}
\* The statement a request runs next.
Statements ==
    {"exists", "delete", "create", "mail", "compare", "count", "mark", "token", "insert",
     "profile", "clear", "password", "claims", "find", "check", "set", "used", "current"}
\* The request of a client, or none.
CallRecord == {NoCall} \cup [op : Ops, pc : Statements, ref : Nat, flow : BOOLEAN]
\* A row of email_verification_otps.
CodeRecord ==
    [id : Nat, created : Nat, attempts : Nat, verified : BOOLEAN, token : Nat,
     expired : BOOLEAN, wrong : Nat]
\* A row of users with its profile.
UserRecord == [password : Nat, profile : BOOLEAN, role : {"student", "admin"},
               status : {"active", "suspended"}]
\* A row of password_reset_tokens.
ResetRecord == [used : BOOLEAN, expired : BOOLEAN]
\* How far the sign-up may be.
Stages == {"ask", "enter", "apply", "registered", "member"}
\* What a token of a session says.
Claims == [type : {"access", "refresh"}, role : {"student", "admin"}]

\* Types of all variables.
AccountTypes ==
    /\ codes \in SUBSET CodeRecord
    /\ user \in SUBSET UserRecord
    /\ resets \in Seq(ResetRecord)
    /\ changed \in Seq(Nat) /\ Len(changed) = Len(resets)
    /\ inbox \in Nat /\ now \in Nat /\ uncounted \in Nat
    /\ calls \in [Callers -> CallRecord]
    /\ student \in [stage : Stages, token : Nat]
    /\ session \in SUBSET Claims
    /\ accountBudget \in [AccountFaults -> Nat]

\* A reset carries a token that exists, any other request a value that was drawn before;
\* only a reset checks and marks tokens.
CallOK(x) ==
    x.pc # "idle" =>
        /\ x.op = "reset" => x.pc \in {"check", "set", "used"} /\ x.ref \in 1..Len(resets)
        /\ x.op # "reset" => x.pc \notin {"check", "used"} /\ x.ref <= now
        /\ x.pc = "create" => x.ref > 0

\* Every value a request or a row refers to was drawn before; ids tell codes apart; there
\* is one account at most.
Known ==
    /\ \A c \in Callers : CallOK(calls[c])
    /\ \A r \in codes : r.id \in 1..now /\ r.created \in 1..now /\ r.token <= now
    /\ \A r, s \in codes : r.id = s.id => r = s
    /\ \A u \in user : u.password <= now
    /\ \A u, v \in user : u = v
    /\ inbox <= now /\ student.token <= now

\* A fault that is used up leaves a budget.
LEMMA PayType ==
    ASSUME AccountTypes, NEW k \in AccountFaults, Pay(k)
    PROVE  accountBudget' \in [AccountFaults -> Nat]
BY DEF AccountTypes, Pay

\* The budget keeps its type.
LEMMA BudgetStep ==
    ASSUME AccountTypes, [AccountNext]_accountVars
    PROVE  accountBudget' \in [AccountFaults -> Nat]
<1>1. accountBudget' = accountBudget \/ \E k \in AccountFaults : Pay(k)
    BY DEF AccountNext, accountVars, AccountFaults, SignUp, Request, Statement, PromoteAdminByEmail, SetUserStatus, Expire,
       GetUserByEmail, DeleteEmailOTPs, CreateEmailOTP, EnqueueRegistrationOTP, VerifyRegistrationOTP,
       IncrementEmailOTPAttempts, MarkEmailOTPVerified, GetVerifiedEmailOTPByToken, CreateUser,
       CreateUserProfile, DeleteAfterUse, Login, RefreshToken, InitiatePasswordReset,
       GetPasswordResetToken, UpdateUserPassword, MarkPasswordResetTokenUsed, ChangePassword
<1> QED
    BY <1>1, PayType DEF AccountTypes

\* Who writes what: a variable changes only by the statements named for it.
LEMMA Touches ==
    ASSUME [AccountNext]_accountVars
    PROVE  /\ \/ codes' = codes \/ Expire
              \/ \E c \in Callers : DeleteEmailOTPs(c) \/ CreateEmailOTP(c) \/ VerifyRegistrationOTP(c) \/
                                   IncrementEmailOTPAttempts(c) \/
                                   MarkEmailOTPVerified(c) \/
                                   DeleteAfterUse(c)
           /\ \/ user' = user \/ PromoteAdminByEmail \/ \E x \in {"active", "suspended"} : SetUserStatus(x)
              \/ \E c \in Callers : CreateUser(c) \/ CreateUserProfile(c) \/ UpdateUserPassword(c)
           /\ \/ (resets' = resets /\ changed' = changed) \/ Expire
              \/ \E c \in Callers : InitiatePasswordReset(c) \/ UpdateUserPassword(c) \/
                                   MarkPasswordResetTokenUsed(c)
           /\ \/ inbox' = inbox
              \/ \E c \in Callers : EnqueueRegistrationOTP(c)
           /\ \/ now' = now
              \/ \E c \in Callers : DeleteEmailOTPs(c) \/ CreateEmailOTP(c) \/ MarkEmailOTPVerified(c) \/
                                   UpdateUserPassword(c)
           /\ \/ uncounted' = uncounted
              \/ \E c \in Callers : IncrementEmailOTPAttempts(c) \/ MarkPasswordResetTokenUsed(c)
           /\ \/ session' = session
              \/ \E c \in Callers : DeleteAfterUse(c) \/ Login(c) \/ RefreshToken(c)
<1>1. \/ codes' = codes \/ Expire
      \/ \E c \in Callers : DeleteEmailOTPs(c) \/ CreateEmailOTP(c) \/ VerifyRegistrationOTP(c) \/
                           IncrementEmailOTPAttempts(c) \/
                           MarkEmailOTPVerified(c) \/
                           DeleteAfterUse(c)
    BY DEF AccountNext, accountVars, SignUp, Request, Statement, PromoteAdminByEmail, SetUserStatus, Arrives,
           OnlyCodes, OnlyAccount, GetUserByEmail, EnqueueRegistrationOTP,
           GetVerifiedEmailOTPByToken, CreateUser, CreateUserProfile, Login, RefreshToken,
           InitiatePasswordReset, GetPasswordResetToken, UpdateUserPassword,
           MarkPasswordResetTokenUsed, ChangePassword
<1>2. \/ user' = user \/ PromoteAdminByEmail \/ \E x \in {"active", "suspended"} : SetUserStatus(x)
      \/ \E c \in Callers : CreateUser(c) \/ CreateUserProfile(c) \/ UpdateUserPassword(c)
    BY DEF AccountNext, accountVars, SignUp, Request, Statement, Expire, Arrives, OnlyCodes,
           OnlyAccount, GetUserByEmail, DeleteEmailOTPs, CreateEmailOTP,
           EnqueueRegistrationOTP, VerifyRegistrationOTP, IncrementEmailOTPAttempts,
           MarkEmailOTPVerified, GetVerifiedEmailOTPByToken, DeleteAfterUse, Login,
           RefreshToken, InitiatePasswordReset, GetPasswordResetToken,
           MarkPasswordResetTokenUsed, ChangePassword
<1>3. \/ (resets' = resets /\ changed' = changed) \/ Expire
      \/ \E c \in Callers : InitiatePasswordReset(c) \/ UpdateUserPassword(c) \/
                           MarkPasswordResetTokenUsed(c)
    BY DEF AccountNext, accountVars, SignUp, Request, Statement, PromoteAdminByEmail, SetUserStatus, Arrives,
           OnlyCodes, OnlyAccount, GetUserByEmail, DeleteEmailOTPs, CreateEmailOTP,
           EnqueueRegistrationOTP, VerifyRegistrationOTP, IncrementEmailOTPAttempts,
           MarkEmailOTPVerified, GetVerifiedEmailOTPByToken, CreateUser,
           CreateUserProfile, DeleteAfterUse, Login, RefreshToken, GetPasswordResetToken,
           ChangePassword
<1>4. \/ inbox' = inbox
      \/ \E c \in Callers : EnqueueRegistrationOTP(c)
    BY DEF AccountNext, accountVars, SignUp, Request, Statement, PromoteAdminByEmail, SetUserStatus, Expire,
           Arrives, OnlyCodes, OnlyAccount, GetUserByEmail, DeleteEmailOTPs,
           CreateEmailOTP, VerifyRegistrationOTP, IncrementEmailOTPAttempts,
           MarkEmailOTPVerified, GetVerifiedEmailOTPByToken, CreateUser,
           CreateUserProfile, DeleteAfterUse, Login, RefreshToken, InitiatePasswordReset,
           GetPasswordResetToken, UpdateUserPassword, MarkPasswordResetTokenUsed,
           ChangePassword
<1>5. \/ now' = now
      \/ \E c \in Callers : DeleteEmailOTPs(c) \/ CreateEmailOTP(c) \/ MarkEmailOTPVerified(c) \/
                           UpdateUserPassword(c)
    BY DEF AccountNext, accountVars, SignUp, Request, Statement, PromoteAdminByEmail, SetUserStatus, Expire,
           Arrives, OnlyCodes, OnlyAccount, GetUserByEmail, EnqueueRegistrationOTP,
           VerifyRegistrationOTP, IncrementEmailOTPAttempts, GetVerifiedEmailOTPByToken,
           CreateUser, CreateUserProfile, DeleteAfterUse, Login, RefreshToken,
           InitiatePasswordReset, GetPasswordResetToken, MarkPasswordResetTokenUsed,
           ChangePassword
<1>6. \/ uncounted' = uncounted
      \/ \E c \in Callers : IncrementEmailOTPAttempts(c) \/ MarkPasswordResetTokenUsed(c)
    BY DEF AccountNext, accountVars, SignUp, Request, Statement, PromoteAdminByEmail, SetUserStatus, Expire,
           Arrives, OnlyCodes, OnlyAccount, GetUserByEmail, DeleteEmailOTPs,
           CreateEmailOTP, EnqueueRegistrationOTP, VerifyRegistrationOTP,
           MarkEmailOTPVerified, GetVerifiedEmailOTPByToken, CreateUser,
           CreateUserProfile, DeleteAfterUse, Login, RefreshToken, InitiatePasswordReset,
           GetPasswordResetToken, UpdateUserPassword, ChangePassword
<1>7. \/ session' = session
      \/ \E c \in Callers : DeleteAfterUse(c) \/ Login(c) \/ RefreshToken(c)
    BY DEF AccountNext, accountVars, SignUp, Request, Statement, PromoteAdminByEmail, SetUserStatus, Expire,
           Arrives, OnlyCodes, OnlyAccount, GetUserByEmail, DeleteEmailOTPs,
           CreateEmailOTP, EnqueueRegistrationOTP, VerifyRegistrationOTP,
           IncrementEmailOTPAttempts, MarkEmailOTPVerified, GetVerifiedEmailOTPByToken,
           CreateUser, CreateUserProfile, InitiatePasswordReset, GetPasswordResetToken,
           UpdateUserPassword, MarkPasswordResetTokenUsed, ChangePassword
<1> QED
    BY <1>1, <1>2, <1>3, <1>4, <1>5, <1>6, <1>7

\* Every write of users leaves rows of its type.
LEMMA UserStep ==
    ASSUME AccountTypes, [AccountNext]_accountVars
    PROVE  user' \in SUBSET UserRecord
<1>1. ASSUME NEW c \in Callers, CreateUser(c)
      PROVE  user' \in SUBSET UserRecord
    <2> DEFINE u == NewUser(calls[c].ref)
    <2>1. calls[c] \in CallRecord /\ calls[c].pc = "insert"
        BY <1>1 DEF AccountTypes, CreateUser
    <2>2. u \in UserRecord
        BY <2>1 DEF CallRecord, NoCall, UserRecord, NewUser
    <2>3. user' = user \/ user' = {u}
        BY <1>1 DEF CreateUser
    <2> HIDE DEF u
    <2> QED
        BY <2>2, <2>3 DEF AccountTypes
<1>2. ASSUME NEW c \in Callers, CreateUserProfile(c)
      PROVE  user' \in SUBSET UserRecord
    <2>1. user' = user \/ user' = {[u EXCEPT !.profile = TRUE] : u \in user}
        BY <1>2 DEF CreateUserProfile
    <2>2. \A u \in user : [u EXCEPT !.profile = TRUE] \in UserRecord
        BY DEF AccountTypes, UserRecord
    <2> QED
        BY <2>1, <2>2 DEF AccountTypes
<1>3. ASSUME NEW c \in Callers, UpdateUserPassword(c)
      PROVE  user' \in SUBSET UserRecord
    <2>1. user' = {[u EXCEPT !.password = now'] : u \in user} /\ now' = now + 1
        BY <1>3 DEF UpdateUserPassword
    <2>2. now' \in Nat
        BY <2>1 DEF AccountTypes
    <2>3. \A u \in user : [u EXCEPT !.password = now'] \in UserRecord
        BY <2>2 DEF AccountTypes, UserRecord
    <2> QED
        BY <2>1, <2>3
<1>4. CASE PromoteAdminByEmail
    <2>1. user' = {[u EXCEPT !.role = "admin"] : u \in user}
        BY <1>4 DEF PromoteAdminByEmail
    <2>2. \A u \in user : [u EXCEPT !.role = "admin"] \in UserRecord
        BY DEF AccountTypes, UserRecord
    <2> QED
        BY <2>1, <2>2
<1>5. ASSUME NEW x \in {"active", "suspended"}, SetUserStatus(x)
      PROVE  user' \in SUBSET UserRecord
    <2>1. user' = {[u EXCEPT !.status = x] : u \in user}
        BY <1>5 DEF SetUserStatus
    <2>2. \A u \in user : [u EXCEPT !.status = x] \in UserRecord
        BY DEF AccountTypes, UserRecord
    <2> QED
        BY <2>1, <2>2
<1> QED
    BY <1>1, <1>2, <1>3, <1>4, <1>5, Touches DEF AccountTypes

\* A code after a wrong guess.
Guessed(s, id) == IF s.id = id THEN [s EXCEPT !.wrong = @ + 1] ELSE s
\* A code after its attempts were incremented.
Counted(s, id) == IF s.id = id THEN [s EXCEPT !.attempts = @ + 1] ELSE s
\* A code after it was verified.
Marked(s, id, token) == IF s.id = id THEN [s EXCEPT !.verified = TRUE, !.token = token] ELSE s
\* A code after it expired.
Aged(s, id) == IF s.id = id THEN [s EXCEPT !.expired = TRUE] ELSE s

\* What a guess, a count and an expiry leave alone.
LEMMA CodeFields ==
    ASSUME NEW s \in CodeRecord, NEW id
    PROVE  /\ Guessed(s, id) \in CodeRecord
           /\ Guessed(s, id).id = s.id /\ Guessed(s, id).created = s.created
           /\ Guessed(s, id).token = s.token /\ Guessed(s, id).attempts = s.attempts
           /\ Guessed(s, id).wrong = IF s.id = id THEN s.wrong + 1 ELSE s.wrong
           /\ Counted(s, id) \in CodeRecord
           /\ Counted(s, id).id = s.id /\ Counted(s, id).created = s.created
           /\ Counted(s, id).token = s.token /\ Counted(s, id).wrong = s.wrong
           /\ Counted(s, id).attempts = IF s.id = id THEN s.attempts + 1 ELSE s.attempts
           /\ Aged(s, id) \in CodeRecord
           /\ Aged(s, id).id = s.id /\ Aged(s, id).created = s.created
           /\ Aged(s, id).token = s.token
           /\ Aged(s, id).attempts = s.attempts /\ Aged(s, id).wrong = s.wrong
<1>1. /\ Guessed(s, id) \in CodeRecord
      /\ Guessed(s, id).id = s.id /\ Guessed(s, id).created = s.created
      /\ Guessed(s, id).token = s.token /\ Guessed(s, id).attempts = s.attempts
      /\ Guessed(s, id).wrong = IF s.id = id THEN s.wrong + 1 ELSE s.wrong
    BY DEF CodeRecord, Guessed
<1>2. /\ Counted(s, id) \in CodeRecord
      /\ Counted(s, id).id = s.id /\ Counted(s, id).created = s.created
      /\ Counted(s, id).token = s.token /\ Counted(s, id).wrong = s.wrong
      /\ Counted(s, id).attempts = IF s.id = id THEN s.attempts + 1 ELSE s.attempts
    BY DEF CodeRecord, Counted
<1>3. /\ Aged(s, id) \in CodeRecord
      /\ Aged(s, id).id = s.id /\ Aged(s, id).created = s.created
      /\ Aged(s, id).token = s.token
      /\ Aged(s, id).attempts = s.attempts /\ Aged(s, id).wrong = s.wrong
    BY DEF CodeRecord, Aged
<1> QED
    BY <1>1, <1>2, <1>3

\* What a verification leaves alone.
LEMMA MarkedFields ==
    ASSUME NEW s \in CodeRecord, NEW id, NEW token \in Nat
    PROVE  /\ Marked(s, id, token) \in CodeRecord
           /\ Marked(s, id, token).id = s.id /\ Marked(s, id, token).created = s.created
           /\ Marked(s, id, token).token \in {token, s.token}
           /\ Marked(s, id, token).attempts = s.attempts /\ Marked(s, id, token).wrong = s.wrong
BY DEF CodeRecord, Marked

\* The ways the codes may change.
LEMMA CodeChanges ==
    ASSUME AccountTypes, [AccountNext]_accountVars
    PROVE  \/ codes' = codes
           \/ codes' = {}
           \/ \E c \in Callers : /\ CreateEmailOTP(c) /\ now' = now + 1
                                 /\ codes' = codes \cup {NewCode(now + 1, calls[c].ref)}
           \/ \E c \in Callers, r \in codes : /\ VerifyRegistrationOTP(c) /\ ~Refused(r)
                                             /\ calls' = [calls EXCEPT ![c] = [calls[c] EXCEPT !.pc = "count", !.ref = r.id]]
                                             /\ codes' = {Guessed(s, r.id) : s \in codes}
           \/ \E c \in Callers : /\ IncrementEmailOTPAttempts(c)
                                 /\ codes' = {Counted(s, calls[c].ref) : s \in codes}
           \/ \E c \in Callers : /\ MarkEmailOTPVerified(c) /\ now' = now + 1
                                 /\ codes' = {Marked(s, calls[c].ref, now + 1) : s \in codes}
           \/ \E r \in codes : Expire /\ codes' = {Aged(s, r.id) : s \in codes}
<1>1. ASSUME NEW c \in Callers, VerifyRegistrationOTP(c)
      PROVE  \/ codes' = codes
             \/ \E r \in codes : /\ ~Refused(r)
                                  /\ calls' = [calls EXCEPT ![c] = [calls[c] EXCEPT !.pc = "count", !.ref = r.id]]
                                  /\ codes' = {Guessed(s, r.id) : s \in codes}
    <2>1. CASE codes' # codes
        <3>1. PICK r \in codes : /\ ~Refused(r)
                                 /\ Moves(c, [calls[c] EXCEPT !.pc = "count", !.ref = r.id])
                                 /\ codes' = Updated(r.id, LAMBDA x : [x EXCEPT !.wrong = @ + 1])
            BY <1>1, <2>1, Zenon DEF VerifyRegistrationOTP, GetLatestEmailOTP
        <3>2. codes' = {Guessed(s, r.id) : s \in codes}
            BY <3>1, Zenon DEF Updated, Guessed
        <3> QED
            BY <3>1, <3>2, Zenon DEF Moves
    <2> QED
        BY <2>1
<1>2. ASSUME NEW c \in Callers, IncrementEmailOTPAttempts(c)
      PROVE  codes' = codes \/ codes' = {Counted(s, calls[c].ref) : s \in codes}
    BY <1>2, Zenon DEF IncrementEmailOTPAttempts, Updated, Counted
<1>3. ASSUME NEW c \in Callers, MarkEmailOTPVerified(c)
      PROVE  codes' = codes \/ (now' = now + 1 /\ codes' = {Marked(s, calls[c].ref, now + 1) : s \in codes})
    <2>1. CASE codes' # codes
        <3>1. now' = now + 1 /\ codes' = Updated(calls[c].ref, LAMBDA x : [x EXCEPT !.verified = TRUE, !.token = now'])
            BY <1>3, <2>1, Zenon DEF MarkEmailOTPVerified
        <3>2. codes' = {Marked(s, calls[c].ref, now') : s \in codes}
            BY <3>1, Zenon DEF Updated, Marked
        <3> QED
            BY <3>1, <3>2
    <2> QED
        BY <2>1
<1>4. CASE Expire
    <2>1. codes' = codes \/ \E r \in codes : codes' = Updated(r.id, LAMBDA x : [x EXCEPT !.expired = TRUE])
        BY <1>4, Zenon DEF Expire
    <2> QED
        BY <2>1, <1>4, Zenon DEF Updated, Aged
<1>5. ASSUME NEW c \in Callers, CreateEmailOTP(c)
      PROVE  codes' = codes \/ (now' = now + 1 /\ codes' = codes \cup {NewCode(now + 1, calls[c].ref)})
    BY <1>5 DEF CreateEmailOTP
<1>6. ASSUME NEW c \in Callers, DeleteEmailOTPs(c) \/ DeleteAfterUse(c)
      PROVE  codes' = codes \/ codes' = {}
    BY <1>6 DEF DeleteEmailOTPs, DeleteAfterUse
<1> QED
    BY <1>1, <1>2, <1>3, <1>4, <1>5, <1>6, Touches

\* Every write of the codes leaves rows of their type.
LEMMA CodesStep ==
    ASSUME AccountTypes, [AccountNext]_accountVars
    PROVE  codes' \in SUBSET CodeRecord
<1>0. now + 1 \in Nat
    BY DEF AccountTypes
<1>1. ASSUME NEW c \in Callers, CreateEmailOTP(c)
      PROVE  NewCode(now + 1, calls[c].ref) \in CodeRecord
    <2>1. calls[c] \in CallRecord /\ calls[c].pc = "create"
        BY <1>1 DEF AccountTypes, CreateEmailOTP
    <2>2. calls[c].ref \in Nat
        BY <2>1 DEF CallRecord, NoCall
    <2> QED
        BY <2>2, <1>0 DEF NewCode, CodeRecord
<1>2. \A s \in codes : s \in CodeRecord
    BY DEF AccountTypes
<1>3. \A s \in codes : \A id : /\ Guessed(s, id) \in CodeRecord /\ Counted(s, id) \in CodeRecord
                               /\ Marked(s, id, now + 1) \in CodeRecord /\ Aged(s, id) \in CodeRecord
    BY <1>0, <1>2, CodeFields, MarkedFields
<1>4. CASE \E c \in Callers : CreateEmailOTP(c) /\ codes' = codes \cup {NewCode(now + 1, calls[c].ref)}
    BY <1>1, <1>2, <1>4
<1>5. CASE \E id : \/ codes' = {Guessed(s, id) : s \in codes}
                  \/ codes' = {Counted(s, id) : s \in codes}
                  \/ codes' = {Marked(s, id, now + 1) : s \in codes}
                  \/ codes' = {Aged(s, id) : s \in codes}
    BY <1>3, <1>5
<1>6. CASE codes' = codes \/ codes' = {}
    BY <1>2, <1>6
<1> QED
    BY <1>4, <1>5, <1>6, CodeChanges

\* A client that is not idle has a whole request.
LEMMA CallOf ==
    ASSUME AccountTypes, NEW c \in Callers, calls[c].pc # "idle"
    PROVE  calls[c] \in [op : Ops, pc : Statements, ref : Nat, flow : BOOLEAN]
BY DEF AccountTypes, CallRecord, NoCall

\* The ways the reset tokens may change.
LEMMA ResetChanges ==
    ASSUME AccountTypes, Known, [AccountNext]_accountVars
    PROVE  \/ resets' = resets /\ changed' = changed
           \/ /\ resets' = Append(resets, NewResetToken)
              /\ changed' = Append(changed, 0)
           \/ \E c \in Callers : /\ UpdateUserPassword(c) /\ calls[c].op = "reset"
                                 /\ calls[c].ref \in 1..Len(resets) /\ resets' = resets
                                 /\ changed' = [changed EXCEPT ![calls[c].ref] = @ + 1]
           \/ \E c \in Callers : /\ MarkPasswordResetTokenUsed(c) /\ changed' = changed
                                 /\ calls[c].ref \in 1..Len(resets)
                                 /\ resets' = [resets EXCEPT ![calls[c].ref] = [@ EXCEPT !.used = TRUE]]
           \/ \E t \in 1..Len(resets) : /\ Expire /\ changed' = changed
                                         /\ resets' = [resets EXCEPT ![t] = [@ EXCEPT !.expired = TRUE]]
<1>1. ASSUME NEW c \in Callers, InitiatePasswordReset(c)
      PROVE  \/ resets' = resets /\ changed' = changed
             \/ resets' = Append(resets, NewResetToken) /\ changed' = Append(changed, 0)
    BY <1>1 DEF InitiatePasswordReset
<1>2. ASSUME NEW c \in Callers, UpdateUserPassword(c)
      PROVE  /\ resets' = resets
             /\ \/ changed' = changed
                \/ /\ calls[c].op = "reset" /\ calls[c].ref \in 1..Len(resets)
                   /\ changed' = [changed EXCEPT ![calls[c].ref] = @ + 1]
    BY <1>2 DEF UpdateUserPassword, Known, CallOK
<1>3. ASSUME NEW c \in Callers, MarkPasswordResetTokenUsed(c)
      PROVE  /\ changed' = changed /\ calls[c].ref \in 1..Len(resets)
             /\ \/ resets' = resets
                \/ resets' = [resets EXCEPT ![calls[c].ref] = [@ EXCEPT !.used = TRUE]]
    BY <1>3 DEF MarkPasswordResetTokenUsed, Known, CallOK
<1>4. CASE Expire
    <2>1. DOMAIN resets = 1..Len(resets)
        BY DEF AccountTypes
    <2> QED
        BY <1>4, <2>1 DEF Expire
<1> QED
    BY <1>1, <1>2, <1>3, <1>4, Touches

\* Reset tokens are added and never removed.
LEMMA ResetsStep ==
    ASSUME AccountTypes, Known, [AccountNext]_accountVars
    PROVE  /\ resets' \in Seq(ResetRecord) /\ changed' \in Seq(Nat)
           /\ Len(changed') = Len(resets') /\ Len(resets) <= Len(resets')
<1>0. /\ resets \in Seq(ResetRecord) /\ changed \in Seq(Nat) /\ Len(changed) = Len(resets)
      /\ Len(resets) \in Nat
    BY LenProperties DEF AccountTypes
<1>1. CASE resets' = Append(resets, NewResetToken) /\ changed' = Append(changed, 0)
    <2>1. NewResetToken \in ResetRecord
        BY DEF NewResetToken, ResetRecord
    <2> QED
        BY <1>0, <1>1, <2>1, AppendProperties
<1>2. ASSUME NEW t \in 1..Len(resets), resets' = resets, changed' = [changed EXCEPT ![t] = @ + 1]
      PROVE  /\ resets' \in Seq(ResetRecord) /\ changed' \in Seq(Nat)
             /\ Len(changed') = Len(resets') /\ Len(resets) <= Len(resets')
    <2>1. changed[t] + 1 \in Nat
        BY <1>0, <1>2, ElementOfSeq
    <2> QED
        BY <1>0, <1>2, <2>1, ExceptSeq
<1>3. ASSUME NEW t \in 1..Len(resets), NEW x \in ResetRecord, changed' = changed,
             resets' = [resets EXCEPT ![t] = x]
      PROVE  /\ resets' \in Seq(ResetRecord) /\ changed' \in Seq(Nat)
             /\ Len(changed') = Len(resets') /\ Len(resets) <= Len(resets')
    BY <1>0, <1>3, ExceptSeq
<1>4. \A t \in 1..Len(resets) : /\ [resets[t] EXCEPT !.used = TRUE] \in ResetRecord
                                /\ [resets[t] EXCEPT !.expired = TRUE] \in ResetRecord
    <2> SUFFICES ASSUME NEW t \in 1..Len(resets)
                 PROVE  /\ [resets[t] EXCEPT !.used = TRUE] \in ResetRecord
                        /\ [resets[t] EXCEPT !.expired = TRUE] \in ResetRecord
        OBVIOUS
    <2>1. resets[t] \in ResetRecord
        BY <1>0, ElementOfSeq
    <2> QED
        BY <2>1 DEF ResetRecord
<1>5. CASE resets' = resets /\ changed' = changed
    BY <1>0, <1>5
<1> QED
    BY <1>1, <1>2, <1>3, <1>4, <1>5, ResetChanges

\* Clock and lost writes only grow, the clock by one.
LEMMA Grows ==
    ASSUME AccountTypes, [AccountNext]_accountVars
    PROVE  /\ now' \in Nat /\ now <= now' /\ now' <= now + 1
           /\ uncounted' \in Nat /\ uncounted <= uncounted'
<1>1. now' \in {now, now + 1}
    BY Touches DEF DeleteEmailOTPs, CreateEmailOTP, MarkEmailOTPVerified, UpdateUserPassword
<1>2. uncounted' \in {uncounted, uncounted + 1}
    BY Touches DEF IncrementEmailOTPAttempts, MarkPasswordResetTokenUsed
<1> QED
    BY <1>1, <1>2 DEF AccountTypes

\* A request that compared and has not counted.
Counting(x) == x.pc = "count"
\* A reset that found its token unused and has not set the password.
Setting(x) == x.pc = "set" /\ x.op = "reset"
\* A reset that set the password and has not marked its token.
Marking(x) == x.pc = "used"
\* A request that is at none of the three.
Quiet(x) == ~Counting(x) /\ ~Setting(x) /\ ~Marking(x)

\* The request of c becomes x, which refers to what exists after the step.
Becomes(c, x) ==
    /\ x \in CallRecord /\ calls' = [calls EXCEPT ![c] = x]
    /\ x.pc # "idle" =>
          /\ x.op = "reset" => x.pc \in {"check", "set", "used"} /\ x.ref \in 1..Len(resets')
          /\ x.op # "reset" => x.pc \notin {"check", "used"} /\ x.ref <= now'
          /\ x.pc = "create" => x.ref > 0

\* A request that is answered is over.
LEMMA Answers ==
    ASSUME AccountTypes, NEW c \in Callers, NEW stage, Answer(c, stage)
    PROVE  Becomes(c, NoCall) /\ Quiet(NoCall)
BY DEF Answer, Becomes, CallRecord, NoCall, Quiet, Counting, Setting, Marking

\* A request that goes on keeps its purpose and its reference.
LEMMA GoesOn ==
    ASSUME AccountTypes, Known, [AccountNext]_accountVars,
           NEW c \in Callers, calls[c].pc # "idle", NEW pc \in Statements, Steps(c, pc),
           pc # "create", calls[c].op # "reset" => pc \notin {"check", "used"},
           calls[c].op = "reset" => pc \in {"check", "set", "used"}
    PROVE  \E x : /\ Becomes(c, x) /\ x.pc = pc
                 /\ x.op = calls[c].op /\ x.ref = calls[c].ref
<1> DEFINE x == [calls[c] EXCEPT !.pc = pc]
<1>1. /\ x \in CallRecord /\ x.pc = pc /\ x.op = calls[c].op /\ x.ref = calls[c].ref
      /\ calls[c].ref \in Nat
    BY CallOf DEF CallRecord
<1>2. calls' = [calls EXCEPT ![c] = x]
    BY DEF Steps
<1>3. /\ Len(resets) \in Nat /\ Len(resets') \in Nat /\ Len(resets) <= Len(resets')
      /\ now \in Nat /\ now' \in Nat /\ now <= now'
    BY ResetsStep, Grows, LenProperties DEF AccountTypes
<1>4. CallOK(calls[c])
    BY DEF Known
<1> HIDE DEF x
<1>5. Becomes(c, x)
    BY <1>1, <1>2, <1>3, <1>4 DEF Becomes, CallOK
<1> QED
    BY <1>1, <1>5

\* A request that arrives is quiet.
LEMMA Begins ==
    ASSUME AccountTypes, Known, [AccountNext]_accountVars,
           NEW c \in Callers, NEW op \in Ops, NEW pc \in Statements, NEW ref \in Nat,
           NEW flow \in BOOLEAN, Arrives(c, op, pc, ref, flow),
           op = "reset" => pc = "check" /\ ref \in 1..Len(resets),
           op # "reset" => pc \notin {"check", "used", "set", "count", "create"} /\ ref <= now
    PROVE  \E x : Becomes(c, x) /\ Quiet(x) /\ Quiet(calls[c])
<1> DEFINE x == [op |-> op, pc |-> pc, ref |-> ref, flow |-> flow]
<1>1. x \in CallRecord /\ x.pc = pc /\ x.op = op /\ x.ref = ref
    BY DEF CallRecord
<1>2. calls' = [calls EXCEPT ![c] = x] /\ resets' = resets /\ now' = now /\ calls[c].pc = "idle"
    BY DEF Arrives, Moves
<1> HIDE DEF x
<1>3. Becomes(c, x)
    BY <1>1, <1>2 DEF Becomes
<1>4. Quiet(x) /\ Quiet(calls[c])
    BY <1>1, <1>2 DEF Quiet, Counting, Setting, Marking
<1> QED
    BY <1>3, <1>4

\* The sign-up and other requests begin with values that are known.
LEMMA Arrivals ==
    ASSUME AccountTypes, Known, [AccountNext]_accountVars,
           SignUp \/ \E c \in Callers : Request(c)
    PROVE  \E c \in Callers : \E x : Becomes(c, x) /\ Quiet(x) /\ Quiet(calls[c])
<1>1. /\ 0 \in Nat /\ 0 <= now /\ inbox \in Nat /\ inbox <= now
      /\ student.token \in Nat /\ student.token <= now /\ Student \in Callers
      /\ DOMAIN resets = 1..Len(resets) /\ Len(resets) \in Nat
    BY AccountAssumption, LenProperties DEF AccountTypes, Known
<1>2. \A u \in user : u.password \in Nat /\ u.password <= now
    BY DEF AccountTypes, UserRecord, Known
<1>3. CASE SignUp
    <2>1. \E op \in {"code", "verify", "register", "login"},
             pc \in {"exists", "compare", "token", "password"}, ref \in Nat :
             ref <= now /\ Arrives(Student, op, pc, ref, TRUE)
        <3>1. CASE Arrives(Student, "code", "exists", 0, TRUE)
            BY <3>1, <1>1
        <3>2. CASE Arrives(Student, "verify", "compare", inbox, TRUE)
            BY <3>2, <1>1
        <3>3. CASE Arrives(Student, "register", "token", student.token, TRUE)
            BY <3>3, <1>1
        <3>4. CASE \E u \in user : Arrives(Student, "login", "password", u.password, TRUE)
            BY <3>4, <1>2
        <3>5. CASE Arrives(Student, "verify", "compare", 0, TRUE)
            BY <3>5, <1>1
        <3> QED
            BY <1>3, <3>1, <3>2, <3>3, <3>4, <3>5 DEF SignUp
    <2>2. PICK op \in {"code", "verify", "register", "login"},
               pc \in {"exists", "compare", "token", "password"}, ref \in Nat :
             ref <= now /\ Arrives(Student, op, pc, ref, TRUE)
        BY <2>1
    <2>3. op \in Ops /\ op # "reset" /\ pc \in Statements /\ pc \notin {"check", "used", "set", "count", "create"}
        BY DEF Ops, Statements
    <2> QED
        BY <2>2, <2>3, <1>1, Begins
<1>4. ASSUME NEW c \in Callers, Request(c)
      PROVE  \E x : Becomes(c, x) /\ Quiet(x) /\ Quiet(calls[c])
    <2>1. ASSUME NEW t \in DOMAIN resets, Arrives(c, "reset", "check", t, FALSE)
          PROVE  \E x : Becomes(c, x) /\ Quiet(x) /\ Quiet(calls[c])
        <3>1. t \in 1..Len(resets) /\ t \in Nat
            BY <1>1
        <3> QED
            BY <2>1, <3>1, Begins DEF Ops, Statements
    <2>3. CASE Arrives(c, "code", "exists", 0, FALSE)
        BY <2>3, <1>1, Begins DEF Ops, Statements
    <2>4. CASE \E typed \in {0, inbox} : Arrives(c, "verify", "compare", typed, FALSE)
        BY <2>4, <1>1, Begins DEF Ops, Statements
    <2>5. CASE Arrives(c, "register", "token", student.token, FALSE)
        BY <2>5, <1>1, Begins DEF Ops, Statements
    <2>6. CASE Arrives(c, "forgot", "find", 0, FALSE)
        BY <2>6, <1>1, Begins DEF Ops, Statements
    <2>7. CASE \E u \in user : \/ Arrives(c, "login", "password", u.password, FALSE)
                              \/ Arrives(c, "change", "current", u.password, FALSE)
        BY <2>7, <1>2, Begins DEF Ops, Statements
    <2>8. CASE Arrives(c, "refresh", "claims", 0, FALSE)
        BY <2>8, <1>1, Begins DEF Ops, Statements
    <2> QED
        BY <1>4, <2>1, <2>3, <2>4, <2>5, <2>6, <2>7, <2>8 DEF Request
<1> QED
    BY <1>3, <1>4, <1>1

\* How a statement may move its request between the three stages.
Turns(c, x) ==
    \/ Quiet(calls[c]) /\ Quiet(x)
    \/ /\ Quiet(calls[c]) /\ Counting(x)
       /\ \E r \in codes : ~Refused(r) /\ x.ref = r.id /\ codes' = {Guessed(s, r.id) : s \in codes}
    \/ Counting(calls[c]) /\ Quiet(x) /\ IncrementEmailOTPAttempts(c)
    \/ Quiet(calls[c]) /\ Setting(x) /\ ~TokenSpent(x.ref)
    \/ Setting(calls[c]) /\ Marking(x) /\ x.ref = calls[c].ref /\ UpdateUserPassword(c)
    \/ Marking(calls[c]) /\ Quiet(x) /\ MarkPasswordResetTokenUsed(c)

\* The comparison counts only after a wrong guess at a code that was not refused.
LEMMA VerifyTurns ==
    ASSUME AccountTypes, Known, [AccountNext]_accountVars, NEW c \in Callers, VerifyRegistrationOTP(c)
    PROVE  \E x : Becomes(c, x) /\ Turns(c, x)
<1>1. calls[c].pc = "compare" /\ calls[c].op # "reset" /\ Quiet(calls[c])
    BY DEF VerifyRegistrationOTP, Known, CallOK, Quiet, Counting, Setting, Marking
<1>2. CASE Answer(c, "ask")
    BY <1>1, <1>2, Answers DEF Turns
<1>3. CASE Steps(c, "mark")
    <2>1. PICK x : Becomes(c, x) /\ x.pc = "mark"
        BY <1>1, <1>3, GoesOn DEF Statements
    <2> QED
        BY <1>1, <2>1 DEF Turns, Quiet, Counting, Setting, Marking
<1>4. ASSUME NEW r \in codes, ~Refused(r), Moves(c, [calls[c] EXCEPT !.pc = "count", !.ref = r.id]),
             codes' = {Guessed(s, r.id) : s \in codes}
      PROVE  \E x : Becomes(c, x) /\ Turns(c, x)
    <2> DEFINE x == [calls[c] EXCEPT !.pc = "count", !.ref = r.id]
    <2>1. r.id \in Nat /\ r.id <= now /\ now <= now' /\ now \in Nat /\ now' \in Nat
        BY Grows DEF Known, AccountTypes
    <2>2. x \in CallRecord /\ x.pc = "count" /\ x.op = calls[c].op /\ x.ref = r.id
        BY <1>1, <2>1, CallOf DEF CallRecord, Statements
    <2>3. calls' = [calls EXCEPT ![c] = x]
        BY <1>4 DEF Moves
    <2> HIDE DEF x
    <2>4. Becomes(c, x)
        BY <1>1, <2>1, <2>2, <2>3 DEF Becomes
    <2>5. Counting(x)
        BY <2>2 DEF Counting
    <2> QED
        BY <1>1, <1>4, <2>2, <2>4, <2>5 DEF Turns
<1>5. VerifyRegistrationOTP(c) =>
        \/ Answer(c, "ask") \/ Steps(c, "mark")
        \/ \E r \in codes : /\ ~Refused(r) /\ Moves(c, [calls[c] EXCEPT !.pc = "count", !.ref = r.id])
                            /\ codes' = {Guessed(s, r.id) : s \in codes}
    BY Zenon DEF VerifyRegistrationOTP, GetLatestEmailOTP, Updated, Guessed
<1> QED
    BY <1>2, <1>3, <1>4, <1>5

\* The other statements about codes.
LEMMA CodeTurns ==
    ASSUME AccountTypes, Known, [AccountNext]_accountVars, NEW c \in Callers,
           \/ GetUserByEmail(c) \/ DeleteEmailOTPs(c) \/ CreateEmailOTP(c)
           \/ EnqueueRegistrationOTP(c) \/ IncrementEmailOTPAttempts(c) \/ MarkEmailOTPVerified(c)
    PROVE  \E x : Becomes(c, x) /\ Turns(c, x)
<1>1. calls[c].pc # "idle" /\ calls[c].op # "reset"
    BY DEF GetUserByEmail, DeleteEmailOTPs, CreateEmailOTP, EnqueueRegistrationOTP,
           IncrementEmailOTPAttempts, MarkEmailOTPVerified, Known, CallOK
<1>2. calls[c].pc \notin {"count", "set", "used"} => Quiet(calls[c])
    BY DEF Quiet, Counting, Setting, Marking
<1>3. ASSUME NEW stage, Answer(c, stage)
      PROVE  Becomes(c, NoCall) /\ Quiet(NoCall)
    BY <1>3, Answers
<1>4. CASE GetUserByEmail(c)
    <2>1. CASE \E stage : Answer(c, stage)
        BY <1>2, <1>3, <1>4, <2>1 DEF GetUserByEmail, Turns
    <2>2. CASE \E pc \in {"delete", "insert"} : Steps(c, pc)
        <3>1. PICK x : Becomes(c, x) /\ x.pc \in {"delete", "insert"}
            BY <1>1, <2>2, GoesOn DEF Statements
        <3> QED
            BY <1>2, <1>4, <3>1 DEF GetUserByEmail, Turns, Quiet, Counting, Setting, Marking
    <2> QED
        BY <1>4, <2>1, <2>2 DEF GetUserByEmail
<1>5. ASSUME DeleteEmailOTPs(c) \/ CreateEmailOTP(c),
             NEW pc \in {"create", "mail"}, now' = now + 1, Moves(c, [calls[c] EXCEPT !.pc = pc, !.ref = now'])
      PROVE  \E x : Becomes(c, x) /\ Turns(c, x)
    <2> DEFINE x == [calls[c] EXCEPT !.pc = pc, !.ref = now']
    <2>1. now' \in Nat /\ now' > 0
        BY <1>5, Grows DEF AccountTypes
    <2>2. x \in CallRecord /\ x.pc = pc /\ x.op = calls[c].op /\ x.ref = now'
        BY <1>1, <2>1, CallOf DEF CallRecord, Statements
    <2>3. calls' = [calls EXCEPT ![c] = x]
        BY <1>5 DEF Moves
    <2> HIDE DEF x
    <2>4. Becomes(c, x)
        BY <1>1, <2>1, <2>2, <2>3 DEF Becomes
    <2>5. Quiet(x)
        BY <2>2 DEF Quiet, Counting, Setting, Marking
    <2> QED
        BY <1>2, <1>5, <2>4, <2>5 DEF Turns, DeleteEmailOTPs, CreateEmailOTP
<1>6. CASE DeleteEmailOTPs(c)
    <2>1. CASE \E stage : Answer(c, stage)
        BY <1>2, <1>3, <1>6, <2>1 DEF DeleteEmailOTPs, Turns
    <2>2. CASE now' = now + 1 /\ Moves(c, [calls[c] EXCEPT !.pc = "create", !.ref = now'])
        BY <1>5, <1>6, <2>2
    <2> QED
        BY <1>6, <2>1, <2>2, Zenon DEF DeleteEmailOTPs
<1>7. CASE CreateEmailOTP(c)
    <2>1. CASE \E stage : Answer(c, stage)
        BY <1>2, <1>3, <1>7, <2>1 DEF CreateEmailOTP, Turns
    <2>2. CASE now' = now + 1 /\ Moves(c, [calls[c] EXCEPT !.pc = "mail", !.ref = now'])
        BY <1>5, <1>7, <2>2
    <2> QED
        BY <1>7, <2>1, <2>2, Zenon DEF CreateEmailOTP
<1>8. CASE EnqueueRegistrationOTP(c)
    BY <1>2, <1>3, <1>8 DEF EnqueueRegistrationOTP, Turns
<1>9. CASE IncrementEmailOTPAttempts(c)
    BY <1>3, <1>9 DEF IncrementEmailOTPAttempts, Turns, Counting
<1>10. CASE MarkEmailOTPVerified(c)
    <2>1. Becomes(c, NoCall) /\ Quiet(NoCall)
        <3>1. calls' = [calls EXCEPT ![c] = NoCall]
            BY <1>10 DEF MarkEmailOTPVerified, Answer
        <3> QED
            BY <3>1 DEF Becomes, CallRecord, NoCall, Quiet, Counting, Setting, Marking
    <2> QED
        BY <1>2, <1>10, <2>1 DEF MarkEmailOTPVerified, Turns
<1> QED
    BY <1>4, <1>6, <1>7, <1>8, <1>9, <1>10

\* The statements about accounts and sessions.
LEMMA AccountTurns ==
    ASSUME AccountTypes, Known, [AccountNext]_accountVars, NEW c \in Callers,
           \/ GetVerifiedEmailOTPByToken(c) \/ CreateUser(c) \/ CreateUserProfile(c)
           \/ DeleteAfterUse(c) \/ Login(c) \/ RefreshToken(c)
    PROVE  \E x : Becomes(c, x) /\ Turns(c, x)
<1>1. calls[c].pc # "idle" /\ calls[c].op # "reset" /\ Quiet(calls[c])
    BY DEF GetVerifiedEmailOTPByToken, CreateUser, CreateUserProfile, DeleteAfterUse, Login,
           RefreshToken, Known, CallOK, Quiet, Counting, Setting, Marking
<1>2. ASSUME NEW stage, Answer(c, stage)
      PROVE  \E x : Becomes(c, x) /\ Turns(c, x)
    BY <1>1, <1>2, Answers DEF Turns
<1>3. ASSUME NEW pc \in {"exists", "profile", "clear"}, Steps(c, pc)
      PROVE  \E x : Becomes(c, x) /\ Turns(c, x)
    <2>1. PICK x : Becomes(c, x) /\ x.pc = pc
        BY <1>1, <1>3, GoesOn DEF Statements
    <2>2. Quiet(x)
        BY <2>1 DEF Quiet, Counting, Setting, Marking
    <2> QED
        BY <1>1, <2>1, <2>2 DEF Turns
<1> QED
    BY <1>2, <1>3 DEF GetVerifiedEmailOTPByToken, CreateUser, CreateUserProfile, DeleteAfterUse,
                      Login, RefreshToken

\* The statements about passwords.
LEMMA PasswordTurns ==
    ASSUME AccountTypes, Known, [AccountNext]_accountVars, NEW c \in Callers,
           \/ InitiatePasswordReset(c) \/ GetPasswordResetToken(c) \/ UpdateUserPassword(c)
           \/ MarkPasswordResetTokenUsed(c) \/ ChangePassword(c)
    PROVE  \E x : Becomes(c, x) /\ Turns(c, x)
<1>1. ASSUME NEW stage, Answer(c, stage)
      PROVE  Becomes(c, NoCall) /\ Quiet(NoCall)
    BY <1>1, Answers
<1>2. CASE InitiatePasswordReset(c)
    BY <1>1, <1>2 DEF InitiatePasswordReset, Turns, Quiet, Counting, Setting, Marking
<1>3. CASE GetPasswordResetToken(c)
    <2>1. Quiet(calls[c]) /\ calls[c].pc # "idle"
        BY <1>3 DEF GetPasswordResetToken, Quiet, Counting, Setting, Marking
    <2>2. CASE Answer(c, "ask")
        BY <1>1, <2>1, <2>2 DEF Turns
    <2>3. CASE Steps(c, "set") /\ ~TokenSpent(calls[c].ref)
        <3>1. calls[c].op = "reset"
            BY <1>3 DEF GetPasswordResetToken, Known, CallOK
        <3>2. PICK x : Becomes(c, x) /\ x.pc = "set" /\ x.op = "reset" /\ x.ref = calls[c].ref
            BY <2>1, <2>3, <3>1, GoesOn DEF Statements
        <3> QED
            BY <2>1, <2>3, <3>2 DEF Turns, Setting
    <2> QED
        BY <1>3, <2>2, <2>3 DEF GetPasswordResetToken
<1>4. CASE UpdateUserPassword(c)
    <2>1. calls[c].pc = "set"
        BY <1>4 DEF UpdateUserPassword
    <2>2. CASE calls[c].op = "reset" /\ Steps(c, "used")
        <3>1. PICK x : Becomes(c, x) /\ x.pc = "used" /\ x.ref = calls[c].ref
            BY <2>1, <2>2, GoesOn DEF Statements
        <3> QED
            BY <1>4, <2>1, <2>2, <3>1 DEF Turns, Setting, Marking
    <2>3. CASE calls[c].op = "change" /\ Answer(c, "ask")
        BY <1>1, <2>1, <2>3 DEF Turns, Quiet, Counting, Setting, Marking
    <2> QED
        BY <1>4, <2>2, <2>3 DEF UpdateUserPassword
<1>5. CASE MarkPasswordResetTokenUsed(c)
    BY <1>1, <1>5 DEF MarkPasswordResetTokenUsed, Turns, Marking
<1>6. CASE ChangePassword(c)
    <2>1. Quiet(calls[c]) /\ calls[c].pc = "current"
        BY <1>6 DEF ChangePassword, Quiet, Counting, Setting, Marking
    <2>2. CASE Answer(c, "ask")
        BY <1>1, <2>1, <2>2 DEF Turns
    <2>3. CASE Steps(c, "set")
        <3>1. calls[c].op # "reset"
            BY <2>1 DEF Known, CallOK
        <3>2. PICK x : Becomes(c, x) /\ x.pc = "set" /\ x.op # "reset"
            BY <2>1, <2>3, <3>1, GoesOn DEF Statements
        <3> QED
            BY <2>1, <3>2 DEF Turns, Quiet, Counting, Setting, Marking
    <2> QED
        BY <1>6, <2>2, <2>3 DEF ChangePassword
<1> QED
    BY <1>2, <1>3, <1>4, <1>5, <1>6

\* Every step moves one request at most, and in one of the ways of Turns.
LEMMA CallsStep ==
    ASSUME AccountTypes, Known, [AccountNext]_accountVars
    PROVE  calls' = calls \/ \E c \in Callers : \E x : Becomes(c, x) /\ Turns(c, x)
<1>1. CASE SignUp \/ \E c \in Callers : Request(c)
    BY <1>1, Arrivals DEF Turns
<1>2. ASSUME NEW c \in Callers, Statement(c)
      PROVE  \E x : Becomes(c, x) /\ Turns(c, x)
    BY <1>2, VerifyTurns, CodeTurns, AccountTurns, PasswordTurns DEF Statement
<1>3. CASE PromoteAdminByEmail \/ (\E s : SetUserStatus(s)) \/ Expire \/ UNCHANGED accountVars
    BY <1>3 DEF PromoteAdminByEmail, SetUserStatus, Expire, accountVars
<1> QED
    BY <1>1, <1>2, <1>3 DEF AccountNext

\* The sign-up stays at a stage, with a token that was drawn.
LEMMA StudentStep ==
    ASSUME AccountTypes, Known, [AccountNext]_accountVars
    PROVE  student' \in [stage : Stages, token : Nat] /\ student'.token <= now'
<1>1. /\ student \in [stage : Stages, token : Nat] /\ student.token <= now
      /\ now \in Nat /\ now' \in Nat /\ now <= now'
    BY Grows DEF AccountTypes, Known
<1>2. ASSUME NEW c \in Callers, NEW stage \in Stages, Answer(c, stage)
      PROVE  student' \in [stage : Stages, token : Nat] /\ student'.token <= now'
    <2> DEFINE s == [student EXCEPT !.stage = stage]
    <2>1. student' = student \/ student' = s
        BY <1>2 DEF Answer
    <2>2. s \in [stage : Stages, token : Nat] /\ s.token = student.token
        BY <1>1
    <2> HIDE DEF s
    <2> QED
        BY <1>1, <2>1, <2>2
<1>3. CASE student' = student
    BY <1>1, <1>3
<1>4. ASSUME NEW c \in Callers, MarkEmailOTPVerified(c)
      PROVE  student' \in [stage : Stages, token : Nat] /\ student'.token <= now'
    <2>1. CASE Answer(c, "ask")
        BY <1>2, <2>1 DEF Stages
    <2>2. CASE student' = IF calls[c].flow THEN [stage |-> "apply", token |-> now'] ELSE student
        BY <1>1, <2>2 DEF Stages
    <2> QED
        BY <1>4, <2>1, <2>2 DEF MarkEmailOTPVerified
<1>5. ASSUME NEW c \in Callers, Statement(c), ~MarkEmailOTPVerified(c)
      PROVE  student' = student \/ \E stage \in Stages : Answer(c, stage)
    <2>1. student.stage \in Stages
        BY <1>1
    <2>2. {"ask", "enter", "registered", "member"} \subseteq Stages
        BY DEF Stages
    <2>3. CASE \/ GetUserByEmail(c) \/ DeleteEmailOTPs(c) \/ CreateEmailOTP(c) \/ EnqueueRegistrationOTP(c)
        BY <2>2, <2>3 DEF GetUserByEmail, DeleteEmailOTPs, CreateEmailOTP, EnqueueRegistrationOTP
    <2>4. CASE \/ VerifyRegistrationOTP(c) \/ IncrementEmailOTPAttempts(c)
        BY <2>2, <2>4 DEF VerifyRegistrationOTP, IncrementEmailOTPAttempts
    <2>5. CASE \/ GetVerifiedEmailOTPByToken(c) \/ CreateUser(c) \/ CreateUserProfile(c) \/ DeleteAfterUse(c)
        BY <2>2, <2>5 DEF GetVerifiedEmailOTPByToken, CreateUser, CreateUserProfile, DeleteAfterUse
    <2>6. CASE \/ RefreshToken(c) \/ InitiatePasswordReset(c) \/ GetPasswordResetToken(c)
        BY <2>1, <2>2, <2>6 DEF RefreshToken, InitiatePasswordReset, GetPasswordResetToken
    <2>7. CASE \/ UpdateUserPassword(c) \/ MarkPasswordResetTokenUsed(c) \/ ChangePassword(c)
        BY <2>2, <2>7 DEF UpdateUserPassword, MarkPasswordResetTokenUsed, ChangePassword
    <2>8. CASE Login(c)
        <3>1. Answer(c, "registered") \/ Answer(c, "member")
            BY <2>8 DEF Login
        <3> QED
            BY <2>2, <3>1
    <2> QED
        BY <1>5, <2>3, <2>4, <2>5, <2>6, <2>7, <2>8 DEF Statement
<1>6. ASSUME \/ SignUp \/ PromoteAdminByEmail \/ (\E s : SetUserStatus(s)) \/ Expire
             \/ (\E c \in Callers : Request(c)) \/ UNCHANGED accountVars
      PROVE  student' = student
    BY <1>6 DEF SignUp, Request, PromoteAdminByEmail, SetUserStatus, Expire, accountVars, Arrives
<1> QED
    BY <1>2, <1>3, <1>4, <1>5, <1>6 DEF AccountNext

\* Tokens carry a role and a type.
LEMMA SessionStep ==
    ASSUME AccountTypes, [AccountNext]_accountVars
    PROVE  session' \in SUBSET Claims
<1>1. \A role \in {"student", "admin"} :
        generateAccessToken(role) \in Claims /\ generateRefreshToken(role) \in Claims
    BY DEF generateAccessToken, generateRefreshToken, Claims
<1>2. \A u \in user : u.role \in {"student", "admin"}
    BY DEF AccountTypes, UserRecord
<1>3. session \in SUBSET Claims
    BY DEF AccountTypes
<1>4. ASSUME NEW c \in Callers, DeleteAfterUse(c)
      PROVE  session' \in SUBSET Claims
    BY <1>1, <1>4 DEF DeleteAfterUse
<1>5. ASSUME NEW c \in Callers, Login(c)
      PROVE  session' \in SUBSET Claims
    BY <1>1, <1>2, <1>3, <1>5 DEF Login
<1>6. ASSUME NEW c \in Callers, RefreshToken(c)
      PROVE  session' \in SUBSET Claims
    BY <1>1, <1>2, <1>3, <1>6 DEF RefreshToken
<1> QED
    BY <1>3, <1>4, <1>5, <1>6, Touches

\* The mail that arrived carries a code that was drawn.
LEMMA InboxStep ==
    ASSUME AccountTypes, Known, [AccountNext]_accountVars
    PROVE  inbox' \in Nat /\ inbox' <= now'
<1>1. inbox \in Nat /\ inbox <= now /\ now \in Nat /\ now' \in Nat /\ now <= now'
    BY Grows DEF AccountTypes, Known
<1>2. ASSUME NEW c \in Callers, EnqueueRegistrationOTP(c)
      PROVE  inbox' \in Nat /\ inbox' <= now'
    <2>1. calls[c].ref \in Nat /\ calls[c].ref <= now
        BY <1>2, CallOf DEF EnqueueRegistrationOTP, Known, CallOK
    <2>2. inbox' = inbox \/ inbox' = calls[c].ref
        BY <1>2 DEF EnqueueRegistrationOTP
    <2> QED
        BY <1>1, <2>1, <2>2
<1> QED
    BY <1>1, <1>2, Touches

\* Every step keeps the types.
LEMMA AccountTypesStep ==
    ASSUME AccountTypes, Known, [AccountNext]_accountVars
    PROVE  AccountTypes'
<1>1. calls' \in [Callers -> CallRecord]
    BY CallsStep DEF AccountTypes, Becomes
<1> QED
    BY <1>1, BudgetStep, CodesStep, UserStep, ResetsStep, Grows, InboxStep, StudentStep, SessionStep
    DEF AccountTypes

\* Requests keep referring to what exists.
LEMMA CallsStayOK ==
    ASSUME AccountTypes, Known, [AccountNext]_accountVars
    PROVE  \A c \in Callers : CallOK(calls[c])'
<1>1. /\ Len(resets) \in Nat /\ Len(resets') \in Nat /\ Len(resets) <= Len(resets')
      /\ now \in Nat /\ now' \in Nat /\ now <= now'
    BY ResetsStep, Grows, LenProperties DEF AccountTypes
<1>2. ASSUME NEW c \in Callers, calls'[c] = calls[c]
      PROVE  CallOK(calls[c])'
    <2>1. CallOK(calls[c])
        BY DEF Known
    <2>2. calls[c].pc # "idle" => calls[c].ref \in Nat
        BY CallOf
    <2> QED
        BY <1>1, <1>2, <2>1, <2>2 DEF CallOK
<1>3. ASSUME NEW c \in Callers, NEW x, Becomes(c, x)
      PROVE  CallOK(calls[c])' /\ \A d \in Callers : d # c => calls'[d] = calls[d]
    <2>1. calls'[c] = x /\ \A d \in Callers : d # c => calls'[d] = calls[d]
        BY <1>3 DEF Becomes, AccountTypes
    <2> QED
        BY <1>3, <2>1 DEF Becomes, CallOK
<1> QED
    BY <1>2, <1>3, CallsStep

\* Codes keep ids of their own.
LEMMA CodesStayKnown ==
    ASSUME AccountTypes, Known, [AccountNext]_accountVars
    PROVE  /\ \A r \in codes' : r.id \in 1..now' /\ r.created \in 1..now' /\ r.token <= now'
           /\ \A r, s \in codes' : r.id = s.id => r = s
<1>1. now \in Nat /\ now' \in Nat /\ now <= now'
    BY Grows DEF AccountTypes
<1>2. \A s \in codes : /\ s \in CodeRecord /\ s.token \in Nat
                       /\ s.id \in 1..now' /\ s.created \in 1..now' /\ s.token <= now'
    BY <1>1 DEF AccountTypes, Known, CodeRecord
<1>3. ASSUME NEW c \in Callers, CreateEmailOTP(c), now' = now + 1,
             codes' = codes \cup {NewCode(now + 1, calls[c].ref)}
      PROVE  /\ \A r \in codes' : r.id \in 1..now' /\ r.created \in 1..now' /\ r.token <= now'
             /\ \A r, s \in codes' : r.id = s.id => r = s
    <2> DEFINE n == NewCode(now + 1, calls[c].ref)
    <2>1. calls[c].ref \in Nat /\ calls[c].ref > 0 /\ calls[c].ref <= now
        BY <1>3, CallOf DEF CreateEmailOTP, Known, CallOK
    <2>2. n.id = now' /\ n.created = calls[c].ref /\ n.token = 0
        BY <1>3 DEF NewCode
    <2>3. \A s \in codes : s.id # n.id
        BY <1>1, <1>3, <2>2 DEF Known
    <2> HIDE DEF n
    <2>4. \A r \in codes' : r \in codes \/ r = n
        BY <1>3 DEF n
    <2>5. n.id \in 1..now' /\ n.created \in 1..now' /\ n.token <= now'
        BY <1>1, <1>3, <2>1, <2>2
    <2> QED
        BY <1>2, <2>3, <2>4, <2>5 DEF Known
<1>4. ASSUME NEW id, codes' = {Guessed(s, id) : s \in codes}
      PROVE  /\ \A r \in codes' : r.id \in 1..now' /\ r.created \in 1..now' /\ r.token <= now'
             /\ \A r, s \in codes' : r.id = s.id => r = s
    <2>1. \A s \in codes : LET r == Guessed(s, id) IN r.id = s.id /\ r.created = s.created /\ r.token = s.token
        BY <1>1, <1>2, CodeFields
    <2> QED
        BY <1>2, <1>4, <2>1 DEF Known
<1>5. ASSUME NEW id, codes' = {Counted(s, id) : s \in codes}
      PROVE  /\ \A r \in codes' : r.id \in 1..now' /\ r.created \in 1..now' /\ r.token <= now'
             /\ \A r, s \in codes' : r.id = s.id => r = s
    <2>1. \A s \in codes : LET r == Counted(s, id) IN r.id = s.id /\ r.created = s.created /\ r.token = s.token
        BY <1>1, <1>2, CodeFields
    <2> QED
        BY <1>2, <1>5, <2>1 DEF Known
<1>6. ASSUME NEW id, now' = now + 1, codes' = {Marked(s, id, now + 1) : s \in codes}
      PROVE  /\ \A r \in codes' : r.id \in 1..now' /\ r.created \in 1..now' /\ r.token <= now'
             /\ \A r, s \in codes' : r.id = s.id => r = s
    <2>1. \A s \in codes : LET r == Marked(s, id, now + 1)
                           IN  r.id = s.id /\ r.created = s.created /\ r.token \in {now + 1, s.token}
        BY <1>1, <1>2, MarkedFields
    <2>2. now + 1 <= now'
        BY <1>1, <1>6
    <2> QED
        BY <1>2, <1>6, <2>1, <2>2 DEF Known
<1>7. ASSUME NEW id, codes' = {Aged(s, id) : s \in codes}
      PROVE  /\ \A r \in codes' : r.id \in 1..now' /\ r.created \in 1..now' /\ r.token <= now'
             /\ \A r, s \in codes' : r.id = s.id => r = s
    <2>1. \A s \in codes : LET r == Aged(s, id) IN r.id = s.id /\ r.created = s.created /\ r.token = s.token
        BY <1>1, <1>2, CodeFields
    <2> QED
        BY <1>2, <1>7, <2>1 DEF Known
<1>8. CASE codes' = codes \/ codes' = {}
    BY <1>2, <1>8 DEF Known
<1> QED
    BY <1>3, <1>4, <1>5, <1>6, <1>7, <1>8, CodeChanges

\* There stays one account at most.
LEMMA UserStaysKnown ==
    ASSUME AccountTypes, Known, [AccountNext]_accountVars
    PROVE  (\A u \in user' : u.password <= now') /\ \A u, v \in user' : u = v
<1>1. now \in Nat /\ now' \in Nat /\ now <= now'
    BY Grows DEF AccountTypes
<1>2. /\ \A u \in user : u \in UserRecord /\ u.password \in Nat /\ u.password <= now'
      /\ \A u, v \in user : u = v
    BY <1>1 DEF AccountTypes, UserRecord, Known
<1>3. ASSUME NEW c \in Callers, CreateUser(c)
      PROVE  (\A u \in user' : u.password <= now') /\ \A u, v \in user' : u = v
    <2>1. calls[c].ref \in Nat /\ calls[c].ref <= now
        BY <1>3, CallOf DEF CreateUser, Known, CallOK
    <2> DEFINE n == NewUser(calls[c].ref)
    <2>2. user' = user \/ user' = {n}
        BY <1>3 DEF CreateUser
    <2>3. n.password = calls[c].ref
        BY DEF NewUser
    <2> HIDE DEF n
    <2> QED
        BY <1>1, <1>2, <2>1, <2>2, <2>3
<1>4. ASSUME NEW c \in Callers, CreateUserProfile(c)
      PROVE  (\A u \in user' : u.password <= now') /\ \A u, v \in user' : u = v
    <2>1. user' = user \/ user' = {[u EXCEPT !.profile = TRUE] : u \in user}
        BY <1>4 DEF CreateUserProfile
    <2>2. \A u \in user : [u EXCEPT !.profile = TRUE].password = u.password
        BY <1>2 DEF UserRecord
    <2> QED
        BY <1>2, <2>1, <2>2
<1>5. ASSUME NEW c \in Callers, UpdateUserPassword(c)
      PROVE  (\A u \in user' : u.password <= now') /\ \A u, v \in user' : u = v
    <2>1. user' = {[u EXCEPT !.password = now'] : u \in user}
        BY <1>5 DEF UpdateUserPassword
    <2>2. \A u \in user : [u EXCEPT !.password = now'].password = now'
        BY <1>2 DEF UserRecord
    <2>3. now' <= now'
        BY <1>1
    <2> QED
        BY <1>2, <2>1, <2>2, <2>3
<1>6. CASE PromoteAdminByEmail
    <2>1. user' = {[u EXCEPT !.role = "admin"] : u \in user}
        BY <1>6 DEF PromoteAdminByEmail
    <2>2. \A u \in user : [u EXCEPT !.role = "admin"].password = u.password
        BY <1>2 DEF UserRecord
    <2> QED
        BY <1>2, <2>1, <2>2
<1>7. CASE user' = user
    BY <1>2, <1>7
<1>8. ASSUME NEW x, SetUserStatus(x)
      PROVE  (\A u \in user' : u.password <= now') /\ \A u, v \in user' : u = v
    <2>1. user' = {[u EXCEPT !.status = x] : u \in user}
        BY <1>8 DEF SetUserStatus
    <2>2. \A u \in user : [u EXCEPT !.status = x].password = u.password
        BY <1>2 DEF UserRecord
    <2> QED
        BY <1>2, <2>1, <2>2
<1> QED
    BY <1>3, <1>4, <1>5, <1>6, <1>7, <1>8, Touches

\* Every step keeps what is known.
LEMMA KnownStep ==
    ASSUME AccountTypes, Known, [AccountNext]_accountVars
    PROVE  Known'
BY CallsStayOK, CodesStayKnown, UserStaysKnown, InboxStep, StudentStep DEF Known

\* Types and Known hold at the start.
LEMMA KnownInit ==
    ASSUME AccountInit
    PROVE  AccountTypes /\ Known
<1>1. /\ codes = {} /\ inbox = 0 /\ session = {} /\ now = 0 /\ uncounted = 0
      /\ calls = [c \in Callers |-> NoCall]
      /\ student \in [stage : Stages, token : Nat] /\ student.token = 0
    BY DEF AccountInit, Stages
<1>2. user = {} \/ user = {Account}
    BY DEF AccountInit
<1>3. Account \in UserRecord /\ Account.password = 0
    BY DEF Account, NewUser, UserRecord
<1>4. resets \in Seq(ResetRecord) /\ changed \in Seq(Nat) /\ Len(changed) = Len(resets)
    <2>1. CASE resets = << >>
        BY <2>1 DEF AccountInit
    <2>2. CASE resets = <<NewResetToken>>
        <3>1. NewResetToken \in ResetRecord
            BY DEF NewResetToken, ResetRecord
        <3>2. resets \in Seq(ResetRecord) /\ Len(resets) = 1
            BY <2>2, <3>1
        <3>3. changed = [t \in 1..1 |-> 0]
            BY <3>2, <2>2 DEF AccountInit
        <3>4. changed \in Seq(Nat) /\ Len(changed) = 1
            BY <3>3, IsASeq
        <3> QED
            BY <3>2, <3>4
    <2> QED
        BY <2>1, <2>2 DEF AccountInit
<1>5. accountBudget \in [AccountFaults -> Nat]
    BY AccountAssumption DEF AccountInit
<1>6. /\ NoCall \in CallRecord /\ CallOK(NoCall)
    BY DEF CallRecord, NoCall, CallOK
<1>7. AccountTypes
    BY <1>1, <1>2, <1>3, <1>4, <1>5, <1>6 DEF AccountTypes
<1>8. Known
    BY <1>1, <1>2, <1>3, <1>6 DEF Known
<1> QED
    BY <1>7, <1>8

\* They hold for ever.
LEMMA AlwaysKnown == AccountSpec => [](AccountTypes /\ Known)
<1>1. AccountInit => AccountTypes /\ Known
    BY KnownInit
<1>2. AccountTypes /\ Known /\ [AccountNext]_accountVars => (AccountTypes /\ Known)'
    BY AccountTypesStep, KnownStep
<1> QED
    BY <1>1, <1>2, PTL DEF AccountSpec

\* Clients that guessed wrongly at the code and have not counted it.
CountingAt(id) == {c \in Callers : Counting(calls[c]) /\ calls[c].ref = id}
\* Clients about to set a password with the token.
SettingAt(t) == {c \in Callers : Setting(calls[c]) /\ calls[c].ref = t}
\* Clients about to mark the token.
MarkingAt(t) == {c \in Callers : Marking(calls[c]) /\ calls[c].ref = t}

\* Two sets that differ at most in c differ in size by the membership of c.
LEMMA OneMoves ==
    ASSUME NEW S \in SUBSET Callers, NEW T \in SUBSET Callers, NEW c \in Callers,
           S \ {c} = T \ {c}
    PROVE  Cardinality(T) = Cardinality(S) + (IF c \in T THEN 1 ELSE 0) - (IF c \in S THEN 1 ELSE 0)
<1>1. IsFiniteSet(S) /\ IsFiniteSet(T)
    BY AccountAssumption, FS_Subset
<1>2. Cardinality(S) \in Nat /\ Cardinality(T) \in Nat
    BY <1>1, FS_CardinalityType
<1>3. Cardinality(S \ {c}) = IF c \in S THEN Cardinality(S) - 1 ELSE Cardinality(S)
    BY <1>1, FS_RemoveElement
<1>4. Cardinality(T \ {c}) = IF c \in T THEN Cardinality(T) - 1 ELSE Cardinality(T)
    BY <1>1, FS_RemoveElement
<1>5. Cardinality(S \ {c}) = Cardinality(T \ {c})
    OBVIOUS
<1> QED
    BY <1>2, <1>3, <1>4, <1>5

\* Two disjoint sets of clients have together no more members than there are clients.
LEMMA Together ==
    ASSUME NEW S \in SUBSET Callers, NEW T \in SUBSET Callers, S \cap T = {}
    PROVE  /\ Cardinality(Callers) \in Nat /\ Cardinality(Callers) > 0
           /\ Cardinality(S) \in Nat /\ Cardinality(T) \in Nat
           /\ Cardinality(S) + Cardinality(T) <= Cardinality(Callers)
           /\ \A c \in Callers : c \notin S /\ c \notin T =>
                 Cardinality(S) + Cardinality(T) + 1 <= Cardinality(Callers)
<1>1. IsFiniteSet(Callers) /\ IsFiniteSet(S) /\ IsFiniteSet(T)
    BY AccountAssumption, FS_Subset
<1>2. /\ Cardinality(Callers) \in Nat
      /\ Cardinality(S) \in Nat
      /\ Cardinality(T) \in Nat
    BY <1>1, FS_CardinalityType
<1>3. IsFiniteSet(S \cup T)
    BY <1>1, FS_Union
<1>4. Cardinality(S \cup T) = Cardinality(S) + Cardinality(T)
    <2>1. Cardinality(S \cup T) = Cardinality(S) + Cardinality(T) - Cardinality(S \cap T)
        BY <1>1, FS_Union
    <2>2. Cardinality(S \cap T) = 0
        BY FS_EmptySet
    <2> QED
        BY <1>2, <2>1, <2>2
<1>5. Cardinality(S \cup T) <= Cardinality(Callers)
    BY <1>1, FS_Subset
<1>6. ASSUME NEW c \in Callers, c \notin S, c \notin T
      PROVE  Cardinality(S) + Cardinality(T) + 1 <= Cardinality(Callers)
    <2>1. Cardinality((S \cup T) \cup {c}) = Cardinality(S \cup T) + 1
        BY <1>3, <1>6, FS_AddElement
    <2>2. (S \cup T) \cup {c} \subseteq Callers
        BY <1>6
    <2>3. Cardinality((S \cup T) \cup {c}) <= Cardinality(Callers)
        BY <1>1, <2>2, FS_Subset
    <2> QED
        BY <1>4, <2>1, <2>3
<1>7. Cardinality(Callers) # 0
    BY <1>1, AccountAssumption, FS_EmptySet
<1> QED
    BY <1>2, <1>4, <1>5, <1>6, <1>7

\* A request that moves changes the number of those that count by itself.
LEMMA CountingMoves ==
    ASSUME AccountTypes, NEW c \in Callers, NEW x, Becomes(c, x), NEW id
    PROVE  Cardinality(CountingAt(id)') = Cardinality(CountingAt(id))
              + (IF Counting(x) /\ x.ref = id THEN 1 ELSE 0)
              - (IF Counting(calls[c]) /\ calls[c].ref = id THEN 1 ELSE 0)
<1>1. calls'[c] = x /\ \A d \in Callers : d # c => calls'[d] = calls[d]
    BY DEF Becomes, AccountTypes
<1>2. /\ CountingAt(id) \in SUBSET Callers /\ CountingAt(id)' \in SUBSET Callers
      /\ CountingAt(id) \ {c} = CountingAt(id)' \ {c}
      /\ c \in CountingAt(id)' <=> Counting(x) /\ x.ref = id
      /\ c \in CountingAt(id) <=> Counting(calls[c]) /\ calls[c].ref = id
    BY <1>1 DEF CountingAt, Counting
<1> HIDE DEF CountingAt
<1> QED
    BY <1>2, OneMoves

\* The same for those that set and mark.
LEMMA ResettingMoves ==
    ASSUME AccountTypes, NEW c \in Callers, NEW x, Becomes(c, x), NEW t
    PROVE  /\ Cardinality(SettingAt(t)') = Cardinality(SettingAt(t))
                + (IF Setting(x) /\ x.ref = t THEN 1 ELSE 0)
                - (IF Setting(calls[c]) /\ calls[c].ref = t THEN 1 ELSE 0)
           /\ Cardinality(MarkingAt(t)') = Cardinality(MarkingAt(t))
                + (IF Marking(x) /\ x.ref = t THEN 1 ELSE 0)
                - (IF Marking(calls[c]) /\ calls[c].ref = t THEN 1 ELSE 0)
<1>1. calls'[c] = x /\ \A d \in Callers : d # c => calls'[d] = calls[d]
    BY DEF Becomes, AccountTypes
<1>2. /\ SettingAt(t) \in SUBSET Callers /\ SettingAt(t)' \in SUBSET Callers
      /\ SettingAt(t) \ {c} = SettingAt(t)' \ {c}
      /\ c \in SettingAt(t)' <=> Setting(x) /\ x.ref = t
      /\ c \in SettingAt(t) <=> Setting(calls[c]) /\ calls[c].ref = t
    BY <1>1 DEF SettingAt, Setting
<1>3. /\ MarkingAt(t) \in SUBSET Callers /\ MarkingAt(t)' \in SUBSET Callers
      /\ MarkingAt(t) \ {c} = MarkingAt(t)' \ {c}
      /\ c \in MarkingAt(t)' <=> Marking(x) /\ x.ref = t
      /\ c \in MarkingAt(t) <=> Marking(calls[c]) /\ calls[c].ref = t
    BY <1>1 DEF MarkingAt, Marking
<1>4. Cardinality(SettingAt(t)') = Cardinality(SettingAt(t))
        + (IF Setting(x) /\ x.ref = t THEN 1 ELSE 0) - (IF Setting(calls[c]) /\ calls[c].ref = t THEN 1 ELSE 0)
    BY <1>2, OneMoves
<1>5. Cardinality(MarkingAt(t)') = Cardinality(MarkingAt(t))
        + (IF Marking(x) /\ x.ref = t THEN 1 ELSE 0) - (IF Marking(calls[c]) /\ calls[c].ref = t THEN 1 ELSE 0)
    BY <1>3, OneMoves
<1> QED
    BY <1>4, <1>5

\* The wrong guesses are those that were counted, those about to be, and lost counts.
GuessInv ==
    \A r \in codes :
        /\ r.attempts + Cardinality(CountingAt(r.id)) <= r.wrong
        /\ r.wrong <= r.attempts + Cardinality(CountingAt(r.id)) + uncounted
        /\ r.wrong <= maxOTPAttempts - 1 + Cardinality(Callers) + uncounted

\* A step that neither enters nor leaves the counting leaves guesses and attempts alone.
LEMMA Steady ==
    ASSUME AccountTypes, Known, [AccountNext]_accountVars,
           calls' = calls \/ \E c \in Callers : \E x :
             Becomes(c, x) /\ ~Counting(calls[c]) /\ ~Counting(x)
    PROVE  /\ \A id : CountingAt(id)' = CountingAt(id)
           /\ \A y \in codes' :
                \/ \E s \in codes : y.id = s.id /\ y.attempts = s.attempts /\ y.wrong = s.wrong
                \/ y.id = now + 1 /\ y.attempts = 0 /\ y.wrong = 0
<1>1. \A d \in Callers : calls'[d] = calls[d] \/ (~Counting(calls[d]) /\ ~Counting(calls'[d]))
    BY DEF Becomes, AccountTypes
<1>2. \A id : CountingAt(id)' = CountingAt(id)
    BY <1>1 DEF CountingAt
<1>3. \A s \in codes : s \in CodeRecord
    BY DEF AccountTypes
<1>4. ASSUME NEW c \in Callers, VerifyRegistrationOTP(c), NEW r \in codes,
             calls' = [calls EXCEPT ![c] = [calls[c] EXCEPT !.pc = "count", !.ref = r.id]]
      PROVE  FALSE
    <2> DEFINE x == [calls[c] EXCEPT !.pc = "count", !.ref = r.id]
    <2>1. calls[c] \in [op : Ops, pc : Statements, ref : Nat, flow : BOOLEAN] /\ calls[c].pc = "compare"
        BY <1>4, CallOf DEF VerifyRegistrationOTP
    <2>2. x.pc = "count"
        BY <2>1
    <2>3. calls'[c] = x
        BY <1>4 DEF AccountTypes
    <2> HIDE DEF x
    <2> QED
        BY <1>1, <2>1, <2>2, <2>3 DEF Counting
<1>5. ASSUME NEW c \in Callers, IncrementEmailOTPAttempts(c)
      PROVE  FALSE
    BY <1>1, <1>5 DEF IncrementEmailOTPAttempts, Answer, Counting, NoCall, AccountTypes
<1>6. ASSUME NEW n \in Nat, NEW id, codes' = {Marked(s, id, n) : s \in codes}
      PROVE  \A y \in codes' : \E s \in codes : y.id = s.id /\ y.attempts = s.attempts /\ y.wrong = s.wrong
    BY <1>3, <1>6, MarkedFields
<1>7. ASSUME NEW id, codes' = {Aged(s, id) : s \in codes}
      PROVE  \A y \in codes' : \E s \in codes : y.id = s.id /\ y.attempts = s.attempts /\ y.wrong = s.wrong
    BY <1>3, <1>7, CodeFields
<1>8. ASSUME NEW c \in Callers, codes' = codes \cup {NewCode(now + 1, calls[c].ref)}
      PROVE  \A y \in codes' :
                \/ \E s \in codes : y.id = s.id /\ y.attempts = s.attempts /\ y.wrong = s.wrong
                \/ y.id = now + 1 /\ y.attempts = 0 /\ y.wrong = 0
    BY <1>8 DEF NewCode
<1>9. now + 1 \in Nat
    BY DEF AccountTypes
<1> QED
    BY <1>2, <1>4, <1>5, <1>6, <1>7, <1>8, <1>9, CodeChanges

\* Nobody counts for a code that is still to be drawn.
LEMMA CountingNumbers ==
    ASSUME AccountTypes, Known
    PROVE  /\ \A id : Cardinality(CountingAt(id)) \in Nat
           /\ \A id : Cardinality(CountingAt(id)) <= Cardinality(Callers)
           /\ Cardinality(Callers) \in Nat /\ Cardinality(Callers) > 0
           /\ Cardinality(CountingAt(now + 1)) = 0
<1>1. ASSUME NEW id
      PROVE  /\ Cardinality(CountingAt(id)) \in Nat /\ Cardinality(CountingAt(id)) <= Cardinality(Callers)
             /\ Cardinality(Callers) \in Nat /\ Cardinality(Callers) > 0
    <2>1. CountingAt(id) \in SUBSET Callers /\ {} \in SUBSET Callers /\ CountingAt(id) \cap {} = {}
        BY DEF CountingAt
    <2>2. Cardinality({}) = 0
        BY FS_EmptySet
    <2> QED
        BY <2>1, <2>2, Together
<1>2. CountingAt(now + 1) = {}
    <2> SUFFICES ASSUME NEW c \in Callers, Counting(calls[c]), calls[c].ref = now + 1
                 PROVE  FALSE
        BY DEF CountingAt
    <2>1. calls[c].ref <= now /\ now \in Nat
        BY DEF Counting, Known, CallOK, AccountTypes
    <2> QED
        BY <2>1
<1>3. Cardinality(CountingAt(now + 1)) = 0
    BY <1>2, FS_EmptySet
<1> QED
    BY <1>1, <1>3

\* Every step keeps GuessInv: at a guess the attempts are below the limit and at most the
\* other clients are between guess and count.
LEMMA GuessStep ==
    ASSUME AccountTypes, Known, GuessInv, [AccountNext]_accountVars
    PROVE  GuessInv'
<1>1. /\ \A id : Cardinality(CountingAt(id)) \in Nat
      /\ Cardinality(Callers) \in Nat /\ Cardinality(Callers) > 0
      /\ Cardinality(CountingAt(now + 1)) = 0
      /\ uncounted \in Nat /\ uncounted' \in Nat /\ uncounted <= uncounted'
      /\ maxOTPAttempts \in Nat \ {0}
    BY CountingNumbers, Grows, AccountAssumption DEF AccountTypes
<1>2. \A s \in codes : s \in CodeRecord /\ s.wrong \in Nat /\ s.attempts \in Nat
    BY DEF AccountTypes, CodeRecord
<1>3. CASE calls' = calls \/ \E c \in Callers : \E x :
             Becomes(c, x) /\ ~Counting(calls[c]) /\ ~Counting(x)
    <2> SUFFICES ASSUME NEW y \in codes'
                 PROVE  /\ y.attempts + Cardinality(CountingAt(y.id)') <= y.wrong
                        /\ y.wrong <= y.attempts + Cardinality(CountingAt(y.id)') + uncounted'
                        /\ y.wrong <= maxOTPAttempts - 1 + Cardinality(Callers) + uncounted'
        BY DEF GuessInv, CountingAt
    <2>1. \/ \E s \in codes : y.id = s.id /\ y.attempts = s.attempts /\ y.wrong = s.wrong
          \/ y.id = now + 1 /\ y.attempts = 0 /\ y.wrong = 0
        BY <1>3, Steady
    <2>2. CountingAt(y.id)' = CountingAt(y.id)
        BY <1>3, Steady
    <2> QED
        BY <1>1, <1>2, <2>1, <2>2 DEF GuessInv
<1>4. ASSUME NEW c \in Callers, NEW x, Becomes(c, x), ~Counting(calls[c]), Counting(x),
             NEW r \in codes, ~Refused(r), x.ref = r.id, codes' = {Guessed(s, r.id) : s \in codes}
      PROVE  GuessInv'
    <2> SUFFICES ASSUME NEW y \in codes'
                 PROVE  /\ y.attempts + Cardinality(CountingAt(y.id)') <= y.wrong
                        /\ y.wrong <= y.attempts + Cardinality(CountingAt(y.id)') + uncounted'
                        /\ y.wrong <= maxOTPAttempts - 1 + Cardinality(Callers) + uncounted'
        BY DEF GuessInv, CountingAt
    <2>1. PICK s \in codes : y = Guessed(s, r.id)
        BY <1>4
    <2>2. /\ y.id = s.id /\ y.attempts = s.attempts
          /\ y.wrong = IF s.id = r.id THEN s.wrong + 1 ELSE s.wrong
        BY <1>2, <2>1, CodeFields
    <2>3. Cardinality(CountingAt(s.id)') = Cardinality(CountingAt(s.id)) + (IF s.id = r.id THEN 1 ELSE 0)
        BY <1>1, <1>4, CountingMoves
    <2>4. s.id = r.id => s = r /\ s.attempts < maxOTPAttempts
        BY <1>4, <1>1, <1>2 DEF Known, Refused, AttemptsUsedUp
    <2>5. Cardinality(CountingAt(s.id)) + 1 <= Cardinality(Callers)
        <3>1. /\ CountingAt(s.id) \in SUBSET Callers /\ {} \in SUBSET Callers
              /\ CountingAt(s.id) \cap {} = {} /\ c \notin CountingAt(s.id) /\ c \notin {}
            BY <1>4 DEF CountingAt
        <3>2. Cardinality({}) = 0
            BY FS_EmptySet
        <3> QED
            BY <1>1, <3>1, <3>2, Together
    <2>6. /\ s.attempts + Cardinality(CountingAt(s.id)) <= s.wrong
          /\ s.wrong <= s.attempts + Cardinality(CountingAt(s.id)) + uncounted
          /\ s.wrong <= maxOTPAttempts - 1 + Cardinality(Callers) + uncounted
        BY DEF GuessInv
    <2> QED
        BY <1>1, <1>2, <2>2, <2>3, <2>4, <2>5, <2>6
<1>5. ASSUME NEW c \in Callers, NEW x, Becomes(c, x), Counting(calls[c]), ~Counting(x),
             IncrementEmailOTPAttempts(c)
      PROVE  GuessInv'
    <2> SUFFICES ASSUME NEW y \in codes'
                 PROVE  /\ y.attempts + Cardinality(CountingAt(y.id)') <= y.wrong
                        /\ y.wrong <= y.attempts + Cardinality(CountingAt(y.id)') + uncounted'
                        /\ y.wrong <= maxOTPAttempts - 1 + Cardinality(Callers) + uncounted'
        BY DEF GuessInv, CountingAt
    <2>1. \/ codes' = {Counted(s, calls[c].ref) : s \in codes} /\ uncounted' = uncounted
          \/ codes' = codes /\ uncounted' = uncounted + 1
        BY <1>5, Zenon DEF IncrementEmailOTPAttempts, Updated, Counted
    <2>2. \A s \in codes :
            /\ Cardinality(CountingAt(s.id)') =
                  Cardinality(CountingAt(s.id)) - (IF s.id = calls[c].ref THEN 1 ELSE 0)
            /\ s.attempts + Cardinality(CountingAt(s.id)) <= s.wrong
            /\ s.wrong <= s.attempts + Cardinality(CountingAt(s.id)) + uncounted
            /\ s.wrong <= maxOTPAttempts - 1 + Cardinality(Callers) + uncounted
        BY <1>1, <1>5, CountingMoves DEF GuessInv
    <2>3. CASE codes' = {Counted(s, calls[c].ref) : s \in codes} /\ uncounted' = uncounted
        <3>1. PICK s \in codes : y = Counted(s, calls[c].ref)
            BY <2>3
        <3>2. /\ y.id = s.id /\ y.wrong = s.wrong
              /\ y.attempts = IF s.id = calls[c].ref THEN s.attempts + 1 ELSE s.attempts
            BY <1>2, <3>1, CodeFields
        <3> QED
            BY <1>1, <1>2, <2>2, <2>3, <3>2
    <2>4. CASE codes' = codes /\ uncounted' = uncounted + 1
        BY <1>1, <1>2, <2>2, <2>4
    <2> QED
        BY <2>1, <2>3, <2>4
<1>6. ASSUME NEW c \in Callers, NEW x, Becomes(c, x), Turns(c, x)
      PROVE  \/ ~Counting(calls[c]) /\ ~Counting(x)
             \/ /\ ~Counting(calls[c]) /\ Counting(x)
                /\ \E r \in codes : ~Refused(r) /\ x.ref = r.id /\ codes' = {Guessed(s, r.id) : s \in codes}
             \/ Counting(calls[c]) /\ ~Counting(x) /\ IncrementEmailOTPAttempts(c)
    BY <1>6 DEF Turns, Quiet, Counting, Setting, Marking
<1> QED
    BY <1>3, <1>4, <1>5, <1>6, CallsStep

\* GuessesBounded for any number of clients and any limit: VerifyRegistrationOTP lets no
\* more wrong guesses through than the limit, the overlap and the lost counts.
THEOREM GuessesAreBounded == AccountSpec => []GuessesBounded
<1>1. AccountInit => GuessInv
    BY DEF AccountInit, GuessInv
<1>2. AccountTypes /\ Known /\ GuessInv /\ [AccountNext]_accountVars => GuessInv'
    BY GuessStep
<1>3. GuessInv => GuessesBounded
    BY DEF GuessInv, GuessesBounded
<1> QED
    BY <1>1, <1>2, <1>3, AlwaysKnown, PTL DEF AccountSpec

\* The passwords set with an unused token are those about to mark it and lost marks.
ResetInv ==
    \A t \in 1..Len(resets) :
        /\ ~resets[t].used => changed[t] <= Cardinality(MarkingAt(t)) + uncounted
        /\ changed[t] + Cardinality(SettingAt(t)) <= Cardinality(Callers) + uncounted

\* A step that leaves neither stage leaves tokens and their passwords alone.
LEMMA SteadyResets ==
    ASSUME AccountTypes, Known, [AccountNext]_accountVars,
           calls' = calls \/ \E c \in Callers : \E x :
             Becomes(c, x) /\ ~Setting(calls[c]) /\ ~Marking(calls[c])
    PROVE  \A t \in 1..Len(resets') :
              \/ /\ t \in 1..Len(resets) /\ resets'[t].used = resets[t].used
                 /\ changed'[t] = changed[t]
              \/ t = Len(resets) + 1 /\ ~resets'[t].used /\ changed'[t] = 0
<1>0. /\ resets \in Seq(ResetRecord) /\ changed \in Seq(Nat) /\ Len(changed) = Len(resets)
      /\ Len(resets) \in Nat
    BY LenProperties DEF AccountTypes
<1>1. \A d \in Callers : calls'[d] = calls[d] \/ (~Setting(calls[d]) /\ ~Marking(calls[d]))
    BY DEF Becomes, AccountTypes
<1>2. ASSUME NEW c \in Callers, UpdateUserPassword(c), calls[c].op = "reset"
      PROVE  FALSE
    <2>1. Setting(calls[c])
        BY <1>2 DEF UpdateUserPassword, Setting
    <2>2. calls'[c].pc = "used"
        <3>1. Steps(c, "used")
            BY <1>2 DEF UpdateUserPassword
        <3>2. calls[c] \in [op : Ops, pc : Statements, ref : Nat, flow : BOOLEAN]
            BY <2>1, CallOf DEF Setting
        <3> QED
            BY <3>1, <3>2 DEF Steps, AccountTypes
    <2> QED
        BY <1>1, <2>1, <2>2 DEF Setting
<1>3. ASSUME NEW c \in Callers, MarkPasswordResetTokenUsed(c)
      PROVE  FALSE
    BY <1>1, <1>3 DEF MarkPasswordResetTokenUsed, Answer, Marking, NoCall, AccountTypes
<1>4. CASE resets' = Append(resets, NewResetToken) /\ changed' = Append(changed, 0)
    <2>1. NewResetToken \in ResetRecord /\ ~NewResetToken.used
        BY DEF NewResetToken, ResetRecord
    <2>2. /\ Len(resets') = Len(resets) + 1 /\ resets'[Len(resets) + 1] = NewResetToken
          /\ \A t \in 1..Len(resets) : resets'[t] = resets[t]
        BY <1>0, <1>4, <2>1, AppendProperties
    <2>3. /\ changed'[Len(resets) + 1] = 0
          /\ \A t \in 1..Len(resets) : changed'[t] = changed[t]
        BY <1>0, <1>4, AppendProperties
    <2> QED
        BY <1>0, <2>1, <2>2, <2>3
<1>5. ASSUME NEW n \in 1..Len(resets), changed' = changed,
             resets' = [resets EXCEPT ![n] = [@ EXCEPT !.expired = TRUE]]
      PROVE  \A t \in 1..Len(resets') :
                t \in 1..Len(resets) /\ resets'[t].used = resets[t].used /\ changed'[t] = changed[t]
    <2> DEFINE x == [resets[n] EXCEPT !.expired = TRUE]
    <2>1. resets[n] \in ResetRecord
        BY <1>0, ElementOfSeq
    <2>2. x \in ResetRecord /\ x.used = resets[n].used
        BY <2>1 DEF ResetRecord
    <2>3. resets' = [resets EXCEPT ![n] = x]
        BY <1>5
    <2> HIDE DEF x
    <2>4. Len(resets') = Len(resets) /\ \A t \in 1..Len(resets) : resets'[t] = IF t = n THEN x ELSE resets[t]
        BY <1>0, <2>2, <2>3, ExceptSeq
    <2> QED
        BY <1>5, <2>2, <2>4
<1>6. CASE resets' = resets /\ changed' = changed
    BY <1>6
<1> QED
    BY <1>2, <1>3, <1>4, <1>5, <1>6, ResetChanges

\* Nobody sets a password with a token that is still to be made.
LEMMA ResettingNumbers ==
    ASSUME AccountTypes, Known
    PROVE  /\ Cardinality(Callers) \in Nat
           /\ \A t : /\ Cardinality(SettingAt(t)) \in Nat /\ Cardinality(MarkingAt(t)) \in Nat
                    /\ Cardinality(MarkingAt(t)) + Cardinality(SettingAt(t)) <= Cardinality(Callers)
                    /\ \A c \in Callers : ~Setting(calls[c]) /\ ~Marking(calls[c]) =>
                          Cardinality(MarkingAt(t)) + Cardinality(SettingAt(t)) + 1 <= Cardinality(Callers)
           /\ Cardinality(SettingAt(Len(resets) + 1)) = 0
<1>1. ASSUME NEW t
      PROVE  /\ Cardinality(Callers) \in Nat
             /\ Cardinality(SettingAt(t)) \in Nat /\ Cardinality(MarkingAt(t)) \in Nat
             /\ Cardinality(MarkingAt(t)) + Cardinality(SettingAt(t)) <= Cardinality(Callers)
             /\ \A c \in Callers : ~Setting(calls[c]) /\ ~Marking(calls[c]) =>
                   Cardinality(MarkingAt(t)) + Cardinality(SettingAt(t)) + 1 <= Cardinality(Callers)
    <2>1. /\ SettingAt(t) \in SUBSET Callers /\ MarkingAt(t) \in SUBSET Callers
          /\ MarkingAt(t) \cap SettingAt(t) = {}
          /\ \A c \in Callers : ~Setting(calls[c]) /\ ~Marking(calls[c]) =>
                c \notin SettingAt(t) /\ c \notin MarkingAt(t)
        BY DEF SettingAt, MarkingAt, Setting, Marking
    <2> QED
        BY <2>1, Together
<1>2. SettingAt(Len(resets) + 1) = {}
    <2> SUFFICES ASSUME NEW c \in Callers, Setting(calls[c]), calls[c].ref = Len(resets) + 1
                 PROVE  FALSE
        BY DEF SettingAt
    <2>1. calls[c].ref \in 1..Len(resets) /\ Len(resets) \in Nat
        BY LenProperties DEF Setting, Known, CallOK, AccountTypes
    <2> QED
        BY <2>1
<1>3. Cardinality(SettingAt(Len(resets) + 1)) = 0
    BY <1>2, FS_EmptySet
<1> QED
    BY <1>1, <1>3

\* Every step keeps ResetInv: at a check the token is unused, so that the passwords set with
\* it belong to other clients that are still to mark it.
LEMMA ResetStep ==
    ASSUME AccountTypes, Known, ResetInv, [AccountNext]_accountVars
    PROVE  ResetInv'
<1>1. /\ Cardinality(Callers) \in Nat
      /\ \A t : /\ Cardinality(SettingAt(t)) \in Nat /\ Cardinality(MarkingAt(t)) \in Nat
               /\ Cardinality(MarkingAt(t)) + Cardinality(SettingAt(t)) <= Cardinality(Callers)
               /\ \A c \in Callers : ~Setting(calls[c]) /\ ~Marking(calls[c]) =>
                     Cardinality(MarkingAt(t)) + Cardinality(SettingAt(t)) + 1 <= Cardinality(Callers)
      /\ Cardinality(SettingAt(Len(resets) + 1)) = 0
      /\ uncounted \in Nat /\ uncounted' \in Nat /\ uncounted <= uncounted'
    BY ResettingNumbers, Grows DEF AccountTypes
<1>2. \A t \in 1..Len(resets) : changed[t] \in Nat
    BY ElementOfSeq DEF AccountTypes
<1>3. /\ resets \in Seq(ResetRecord) /\ changed \in Seq(Nat) /\ Len(changed) = Len(resets)
      /\ Len(resets) \in Nat
    BY LenProperties DEF AccountTypes
<1>n. ASSUME NEW t
      PROVE  /\ Cardinality(SettingAt(t)) \in Nat /\ Cardinality(MarkingAt(t)) \in Nat
             /\ Cardinality(MarkingAt(t)) + Cardinality(SettingAt(t)) <= Cardinality(Callers)
    BY <1>1
<1>i. ASSUME NEW t \in 1..Len(resets)
      PROVE  /\ ~resets[t].used => changed[t] <= Cardinality(MarkingAt(t)) + uncounted
             /\ changed[t] + Cardinality(SettingAt(t)) <= Cardinality(Callers) + uncounted
             /\ changed[t] \in Nat
    BY <1>2 DEF ResetInv
<1>u. /\ uncounted \in Nat /\ uncounted' \in Nat /\ uncounted <= uncounted'
      /\ Cardinality(Callers) \in Nat /\ Cardinality(SettingAt(Len(resets) + 1)) = 0
    BY <1>1
<1>p. ASSUME \A t \in 1..Len(resets') :
               /\ ~resets'[t].used => changed'[t] <= Cardinality(MarkingAt(t)') + uncounted'
               /\ changed'[t] + Cardinality(SettingAt(t)') <= Cardinality(Callers) + uncounted'
      PROVE  ResetInv'
    BY <1>p DEF ResetInv, MarkingAt, SettingAt
<1>4. CASE calls' = calls
    <2>1. \A t : SettingAt(t)' = SettingAt(t) /\ MarkingAt(t)' = MarkingAt(t)
        BY <1>4 DEF SettingAt, MarkingAt
    <2>2. ASSUME NEW t \in 1..Len(resets')
          PROVE  /\ ~resets'[t].used => changed'[t] <= Cardinality(MarkingAt(t)') + uncounted'
                 /\ changed'[t] + Cardinality(SettingAt(t)') <= Cardinality(Callers) + uncounted'
        <3>1. \/ /\ t \in 1..Len(resets) /\ resets'[t].used = resets[t].used
                 /\ changed'[t] = changed[t]
              \/ t = Len(resets) + 1 /\ ~resets'[t].used /\ changed'[t] = 0
            BY <1>4, SteadyResets
        <3>5. /\ Cardinality(SettingAt(t)) \in Nat /\ Cardinality(MarkingAt(t)) \in Nat
              /\ Cardinality(MarkingAt(t)) + Cardinality(SettingAt(t)) <= Cardinality(Callers)
            BY <1>n
        <3>6. CASE t \in 1..Len(resets) /\ resets'[t].used = resets[t].used /\ changed'[t] = changed[t]
            <4>1. /\ ~resets[t].used => changed[t] <= Cardinality(MarkingAt(t)) + uncounted
                  /\ changed[t] + Cardinality(SettingAt(t)) <= Cardinality(Callers) + uncounted
                  /\ changed[t] \in Nat
                BY <1>i, <3>6
            <4> QED
                BY <1>u, <2>1, <3>5, <3>6, <4>1
        <3>7. CASE t = Len(resets) + 1 /\ ~resets'[t].used /\ changed'[t] = 0
            BY <1>u, <2>1, <3>5, <3>7
        <3> QED
            BY <3>1, <3>6, <3>7
    <2> QED
        BY <1>p, <2>2
<1>5. ASSUME NEW c \in Callers, NEW x, Becomes(c, x), ~Setting(calls[c]), ~Marking(calls[c]), ~Marking(x),
             Setting(x) => ~TokenSpent(x.ref)
      PROVE  ResetInv'
    <2>1. ASSUME NEW t \in 1..Len(resets')
          PROVE  /\ ~resets'[t].used => changed'[t] <= Cardinality(MarkingAt(t)') + uncounted'
                 /\ changed'[t] + Cardinality(SettingAt(t)') <= Cardinality(Callers) + uncounted'
        <3>1. \/ /\ t \in 1..Len(resets) /\ resets'[t].used = resets[t].used
                 /\ changed'[t] = changed[t]
              \/ t = Len(resets) + 1 /\ ~resets'[t].used /\ changed'[t] = 0
            BY <1>5, SteadyResets
        <3>2. /\ Cardinality(SettingAt(t)') = Cardinality(SettingAt(t)) + (IF Setting(x) /\ x.ref = t THEN 1 ELSE 0)
              /\ Cardinality(MarkingAt(t)') = Cardinality(MarkingAt(t))
            <4>1. Cardinality(SettingAt(t)') = Cardinality(SettingAt(t)) + (IF Setting(x) /\ x.ref = t THEN 1 ELSE 0) - 0
                BY <1>5, ResettingMoves
            <4>2. Cardinality(MarkingAt(t)') = Cardinality(MarkingAt(t)) + 0 - 0
                BY <1>5, ResettingMoves
            <4> QED
                BY <1>n, <4>1, <4>2
        <3>3. Setting(x) /\ x.ref = t /\ t \in 1..Len(resets) => ~resets[t].used
            BY <1>5 DEF TokenSpent
        <3>4. Cardinality(MarkingAt(t)) + Cardinality(SettingAt(t)) + 1 <= Cardinality(Callers)
            BY <1>1, <1>5
        <3>5. /\ Cardinality(SettingAt(t)) \in Nat /\ Cardinality(MarkingAt(t)) \in Nat
              /\ Cardinality(MarkingAt(t)) + Cardinality(SettingAt(t)) <= Cardinality(Callers)
            BY <1>n
        <3>6. CASE t \in 1..Len(resets) /\ resets'[t].used = resets[t].used /\ changed'[t] = changed[t]
            <4>1. /\ ~resets[t].used => changed[t] <= Cardinality(MarkingAt(t)) + uncounted
                  /\ changed[t] + Cardinality(SettingAt(t)) <= Cardinality(Callers) + uncounted
                  /\ changed[t] \in Nat
                BY <1>i, <3>6
            <4>m. /\ Cardinality(MarkingAt(t)') = Cardinality(MarkingAt(t)) /\ changed'[t] = changed[t]
                  /\ ~resets'[t].used => ~resets[t].used
                BY <3>2, <3>6
            <4>2. CASE Setting(x) /\ x.ref = t
                <5>1. Cardinality(SettingAt(t)') = Cardinality(SettingAt(t)) + 1
                    BY <3>2, <4>2
                <5>2. changed[t] <= Cardinality(MarkingAt(t)) + uncounted
                    BY <3>3, <3>6, <4>1, <4>2
                <5>3. changed[t] + (Cardinality(SettingAt(t)) + 1) <= Cardinality(Callers) + uncounted
                    <6> DEFINE k == changed[t]
                               m == Cardinality(MarkingAt(t))
                               n == Cardinality(SettingAt(t))
                               all == Cardinality(Callers)
                    <6>1. /\ k \in Nat /\ m \in Nat /\ n \in Nat /\ all \in Nat /\ uncounted \in Nat
                          /\ m + n + 1 <= all /\ k <= m + uncounted
                        BY <1>u, <3>4, <3>5, <4>1, <5>2
                    <6> HIDE DEF k, m, n, all
                    <6>2. k + (n + 1) <= all + uncounted
                        BY <6>1
                    <6> QED
                        BY <6>2 DEF k, n, all
                <5>4. changed'[t] + Cardinality(SettingAt(t)') <= Cardinality(Callers) + uncounted
                    BY <4>m, <5>1, <5>3
                <5>5. changed'[t] <= Cardinality(MarkingAt(t)') + uncounted
                    BY <4>m, <5>2
                <5>6. changed'[t] \in Nat /\ Cardinality(SettingAt(t)') \in Nat /\ Cardinality(MarkingAt(t)') \in Nat
                    BY <3>5, <4>1, <4>m, <5>1
                <5> QED
                    BY <1>u, <5>4, <5>5, <5>6
            <4>3. CASE ~(Setting(x) /\ x.ref = t)
                <5>1. Cardinality(SettingAt(t)') = Cardinality(SettingAt(t))
                    BY <3>2, <3>5, <4>3
                <5> QED
                    BY <1>u, <3>5, <4>m, <4>1, <5>1
            <4> QED
                BY <4>2, <4>3
        <3>7. CASE t = Len(resets) + 1 /\ ~resets'[t].used /\ changed'[t] = 0
            BY <1>u, <3>2, <3>3, <3>4, <3>5, <3>7
        <3> QED
            BY <3>1, <3>6, <3>7
    <2> QED
        BY <1>p, <2>1
<1>6. ASSUME NEW c \in Callers, NEW x, Becomes(c, x), Setting(calls[c]), Marking(x),
             x.ref = calls[c].ref, UpdateUserPassword(c)
      PROVE  ResetInv'
    <2> DEFINE n == calls[c].ref
    <2>1. n \in 1..Len(resets) /\ calls[c].op = "reset"
        BY <1>6 DEF Setting, Known, CallOK
    <2>2. resets' = resets /\ uncounted' = uncounted /\ changed' = [changed EXCEPT ![n] = @ + 1]
        BY <1>6, <2>1 DEF UpdateUserPassword
    <2>3. changed[n] + 1 \in Nat
        BY <1>2, <2>1
    <2>4. \A t \in 1..Len(resets) : changed'[t] = IF t = n THEN changed[n] + 1 ELSE changed[t]
        BY <1>3, <2>1, <2>2, <2>3, ExceptSeq
    <2>5. ASSUME NEW t \in 1..Len(resets)
          PROVE  /\ Cardinality(SettingAt(t)') = Cardinality(SettingAt(t)) - (IF n = t THEN 1 ELSE 0)
                 /\ Cardinality(MarkingAt(t)') = Cardinality(MarkingAt(t)) + (IF n = t THEN 1 ELSE 0)
        <3>1. ~Setting(x) /\ ~Marking(calls[c])
            BY <1>6 DEF Setting, Marking
        <3> QED
            <4>1. Cardinality(SettingAt(t)') = Cardinality(SettingAt(t)) + 0 - (IF n = t THEN 1 ELSE 0)
                BY <1>6, <3>1, ResettingMoves
            <4>2. Cardinality(MarkingAt(t)') = Cardinality(MarkingAt(t)) + (IF n = t THEN 1 ELSE 0) - 0
                BY <1>6, <3>1, ResettingMoves
            <4> QED
                BY <1>n, <4>1, <4>2
    <2> HIDE DEF n
    <2>6. ASSUME NEW t \in 1..Len(resets')
          PROVE  /\ ~resets'[t].used => changed'[t] <= Cardinality(MarkingAt(t)') + uncounted'
                 /\ changed'[t] + Cardinality(SettingAt(t)') <= Cardinality(Callers) + uncounted'
        <3>1. t \in 1..Len(resets)
            BY <2>2
        <3>2. /\ Cardinality(SettingAt(t)) \in Nat /\ Cardinality(MarkingAt(t)) \in Nat
            BY <1>n
        <3>3. /\ ~resets[t].used => changed[t] <= Cardinality(MarkingAt(t)) + uncounted
              /\ changed[t] + Cardinality(SettingAt(t)) <= Cardinality(Callers) + uncounted
              /\ changed[t] \in Nat
            BY <1>i, <3>1
        <3> QED
            BY <1>u, <2>2, <2>4, <2>5, <3>1, <3>2, <3>3
    <2> QED
        BY <1>p, <2>6
<1>7. ASSUME NEW c \in Callers, NEW x, Becomes(c, x), Marking(calls[c]), ~Setting(x), ~Marking(x),
             MarkPasswordResetTokenUsed(c)
      PROVE  ResetInv'
    <2> DEFINE n == calls[c].ref
               u == [resets[n] EXCEPT !.used = TRUE]
    <2>1. n \in 1..Len(resets)
        BY <1>7 DEF Marking, Known, CallOK
    <2>2. changed' = changed
        BY <1>7 DEF MarkPasswordResetTokenUsed
    <2>3. \/ resets' = [resets EXCEPT ![n] = u] /\ uncounted' = uncounted
          \/ resets' = resets /\ uncounted' = uncounted + 1
        BY <1>7 DEF MarkPasswordResetTokenUsed
    <2>4. resets[n] \in ResetRecord
        BY <1>3, <2>1, ElementOfSeq
    <2>5. u \in ResetRecord /\ u.used
        BY <2>4 DEF ResetRecord
    <2>6. ASSUME NEW t
          PROVE  /\ Cardinality(SettingAt(t)') = Cardinality(SettingAt(t))
                 /\ Cardinality(MarkingAt(t)') = Cardinality(MarkingAt(t)) - (IF n = t THEN 1 ELSE 0)
        <3>1. ~Setting(calls[c])
            BY <1>7 DEF Setting, Marking
        <3> QED
            <4>1. Cardinality(SettingAt(t)') = Cardinality(SettingAt(t)) + 0 - 0
                BY <1>7, <3>1, ResettingMoves
            <4>2. Cardinality(MarkingAt(t)') = Cardinality(MarkingAt(t)) + 0 - (IF n = t THEN 1 ELSE 0)
                BY <1>7, <3>1, ResettingMoves
            <4> QED
                BY <1>n, <4>1, <4>2
    <2> HIDE DEF n, u
    <2>7. CASE resets' = [resets EXCEPT ![n] = u] /\ uncounted' = uncounted
        <3>1. Len(resets') = Len(resets) /\ \A t \in 1..Len(resets) : resets'[t] = IF t = n THEN u ELSE resets[t]
            BY <1>3, <2>1, <2>5, <2>7, ExceptSeq
        <3>2. ASSUME NEW t \in 1..Len(resets')
              PROVE  /\ ~resets'[t].used => changed'[t] <= Cardinality(MarkingAt(t)') + uncounted'
                     /\ changed'[t] + Cardinality(SettingAt(t)') <= Cardinality(Callers) + uncounted'
            <4>1. t \in 1..Len(resets)
                BY <3>1
            <4> QED
                BY <1>n, <1>i, <1>u, <2>2, <2>5, <2>6, <2>7, <3>1, <4>1
        <3> QED
            BY <1>p, <3>2
    <2>8. CASE resets' = resets /\ uncounted' = uncounted + 1
        <3>1. ASSUME NEW t \in 1..Len(resets')
              PROVE  /\ ~resets'[t].used => changed'[t] <= Cardinality(MarkingAt(t)') + uncounted'
                     /\ changed'[t] + Cardinality(SettingAt(t)') <= Cardinality(Callers) + uncounted'
            <4>1. t \in 1..Len(resets)
                BY <2>8
            <4>2. /\ Cardinality(SettingAt(t)) \in Nat /\ Cardinality(MarkingAt(t)) \in Nat
                BY <1>n
            <4>3. /\ ~resets[t].used => changed[t] <= Cardinality(MarkingAt(t)) + uncounted
                  /\ changed[t] + Cardinality(SettingAt(t)) <= Cardinality(Callers) + uncounted
                  /\ changed[t] \in Nat
                BY <1>i, <4>1
            <4>4. /\ Cardinality(SettingAt(t)') = Cardinality(SettingAt(t))
                  /\ Cardinality(MarkingAt(t)') >= Cardinality(MarkingAt(t)) - 1
                  /\ Cardinality(MarkingAt(t)') \in Int
                BY <2>6, <4>2
            <4> QED
                BY <1>u, <2>2, <2>8, <4>2, <4>3, <4>4
        <3> QED
            BY <1>p, <3>1
    <2> QED
        BY <2>3, <2>7, <2>8
<1>8. ASSUME NEW c \in Callers, NEW x, Becomes(c, x), Turns(c, x)
      PROVE  ResetInv'
    <2>1. \/ /\ ~Setting(calls[c]) /\ ~Marking(calls[c]) /\ ~Marking(x)
             /\ Setting(x) => ~TokenSpent(x.ref)
          \/ Setting(calls[c]) /\ Marking(x) /\ x.ref = calls[c].ref /\ UpdateUserPassword(c)
          \/ Marking(calls[c]) /\ ~Setting(x) /\ ~Marking(x) /\ MarkPasswordResetTokenUsed(c)
        BY <1>8 DEF Turns, Quiet, Counting, Setting, Marking
    <2> QED
        BY <1>5, <1>6, <1>7, <1>8, <2>1
<1> QED
    BY <1>4, <1>8, CallsStep

\* ResetOnce for any number of clients: ResetPassword sets at most one password per client
\* with a token, but for lost marks.
THEOREM ResetsOnce == AccountSpec => []ResetOnce
<1>1. AccountInit => ResetInv
    <2> SUFFICES ASSUME AccountInit, NEW t \in 1..Len(resets)
                 PROVE  /\ changed[t] <= Cardinality(MarkingAt(t)) + uncounted
                        /\ changed[t] + Cardinality(SettingAt(t)) <= Cardinality(Callers) + uncounted
        BY DEF ResetInv
    <2>1. AccountTypes /\ Known
        BY KnownInit
    <2>2. changed[t] = 0 /\ uncounted = 0
        <3>1. t \in DOMAIN resets
            BY <2>1 DEF AccountTypes
        <3> QED
            BY <3>1 DEF AccountInit
    <2> QED
        BY <2>1, <2>2, ResettingNumbers
<1>2. AccountTypes /\ Known /\ ResetInv /\ [AccountNext]_accountVars => ResetInv'
    BY ResetStep
<1>3. AccountTypes /\ Known /\ ResetInv => ResetOnce
    <2> SUFFICES ASSUME AccountTypes, Known, ResetInv, NEW t \in DOMAIN resets
                 PROVE  changed[t] <= Cardinality(Callers) + uncounted
        BY DEF ResetOnce
    <2>1. t \in 1..Len(resets)
        BY DEF AccountTypes
    <2>2. changed[t] \in Nat
        BY <2>1, ElementOfSeq DEF AccountTypes
    <2>3. Cardinality(SettingAt(t)) \in Nat /\ Cardinality(Callers) \in Nat /\ uncounted \in Nat
        BY <2>1, ResettingNumbers DEF AccountTypes
    <2>4. changed[t] + Cardinality(SettingAt(t)) <= Cardinality(Callers) + uncounted
        BY <2>1 DEF ResetInv
    <2> QED
        BY <2>2, <2>3, <2>4
<1> QED
    BY <1>1, <1>2, <1>3, AlwaysKnown, PTL DEF AccountSpec

\* AccountTypeOK holds for ever: attempts never exceed the wrong guesses, and the index of
\* users.email leaves one account at most.
THEOREM AccountsTypes == AccountSpec => []AccountTypeOK
<1>1. AccountInit => GuessInv
    BY DEF AccountInit, GuessInv
<1>2. AccountTypes /\ Known /\ GuessInv /\ [AccountNext]_accountVars => GuessInv'
    BY GuessStep
<1>3. AccountTypes /\ Known /\ GuessInv => AccountTypeOK
    <2> SUFFICES ASSUME AccountTypes, Known, GuessInv PROVE AccountTypeOK
        OBVIOUS
    <2>1. \A r \in codes : {r.id, r.created} \subseteq 1..now /\ r.attempts \in 0..r.wrong
        <3> SUFFICES ASSUME NEW r \in codes
                     PROVE  {r.id, r.created} \subseteq 1..now /\ r.attempts \in 0..r.wrong
            OBVIOUS
        <3>1. r.attempts \in Nat /\ r.wrong \in Nat
            BY DEF AccountTypes, CodeRecord
        <3>2. r.attempts + Cardinality(CountingAt(r.id)) <= r.wrong /\ Cardinality(CountingAt(r.id)) \in Nat
            BY CountingNumbers DEF GuessInv
        <3> QED
            BY <3>1, <3>2 DEF Known
    <2>2. user \subseteq [password : 0..now, profile : BOOLEAN, role : {"student", "admin"},
                         status : {"active", "suspended"}]
        <3> SUFFICES ASSUME NEW u \in user
                     PROVE  u \in [password : 0..now, profile : BOOLEAN, role : {"student", "admin"},
                                   status : {"active", "suspended"}]
            OBVIOUS
        <3>1. u \in UserRecord /\ u.password <= now /\ now \in Nat
            BY DEF AccountTypes, Known
        <3> QED
            BY <3>1 DEF UserRecord
    <2>3. Cardinality(user) <= 1
        <3>1. CASE user = {}
            BY <3>1, FS_EmptySet
        <3>2. ASSUME NEW u \in user
              PROVE  Cardinality(user) <= 1
            <4>1. user = {u}
                BY DEF Known
            <4> QED
                BY <4>1, FS_Singleton
        <3> QED
            BY <3>1, <3>2
    <2>4. DOMAIN changed = DOMAIN resets
        BY DEF AccountTypes
    <2> QED
        BY <2>1, <2>2, <2>3, <2>4 DEF AccountTypeOK, AccountTypes, Known, Stages, Claims
<1> QED
    BY <1>1, <1>2, <1>3, AlwaysKnown, PTL DEF AccountSpec

================================================================================
