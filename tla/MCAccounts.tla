------------------------------ MODULE MCAccounts -------------------------------
(***************************************************************************)
(* Instance of the accounts, of the Redis notification queue and of the    *)
(* notification rows.  The three share no state; a behaviour is one of     *)
(* them.  While another part moves, the account is one that exists and     *)
(* whose owner wants nothing, so that the fairness of sign-ups asks        *)
(* nothing of it.                                                          *)
(***************************************************************************)
EXTENDS Accounts, NotificationQueue, NotificationRows, TLC

CONSTANTS phone, laptop, n1, n2, d1, d2, s1, k1, k2

MCSignUpBudget == [requests |-> 2, trouble |-> 1]
MCMemberBudget == [requests |-> 3, trouble |-> 1]
Password(n, holds) == [length |-> n, holds |-> holds, common |-> FALSE]
Application(first, confirm) ==
    [email |-> [length |-> 20, parses |-> TRUE], class |-> "10",
     mobile |-> [digits |-> 10, first |-> first], terms |-> TRUE,
     password |-> Password(8, {"upper", "lower", "digit"}), confirm |-> confirm]
MCApplications == {Application(6, Password(8, {"upper", "lower", "digit"})),
                   Application(6, Password(7, {"upper", "lower", "digit"})),
                   Application(5, Password(8, {"upper", "lower", "digit"}))}

MCJobs == {n1, n2}
MCKind == n1 :> [template |-> "quiz_ready", push |-> TRUE, email |-> TRUE]
          @@ n2 :> [template |-> "email_otp", push |-> FALSE, email |-> TRUE]
MCNoticeBudget == [crash |-> 1, error |-> 1, change |-> 1]

MCRows == {k1, k2}
Send(category, channel) == [category |-> category, channel |-> channel]
MCSends == {Send("quiz_ready", "push"), Send("weekly_digest", "email"),
            Send("weekly_digest", "push"), Send("otp_verify", "sms"), Send("chat", "email")}
MCRowBudget == [ticks |-> 1, trouble |-> 1]

Init == AccountInit /\ NoticeInit /\ RowInit
vars == <<accountVars, noticeVars, rowVars>>

AtRest == AccountInit /\ user # {} /\ UNCHANGED accountVars
NextAccount == AccountNext /\ NoticeInit /\ RowInit /\ UNCHANGED <<noticeVars, rowVars>>
NextNotice == NoticeNext /\ AtRest /\ RowInit /\ UNCHANGED rowVars
NextRow == RowNext /\ AtRest /\ NoticeInit /\ UNCHANGED noticeVars

AccountsSpec ==
    Init /\ [][NextAccount \/ NextNotice \/ NextRow]_vars /\ AccountFairness /\ NoticeFairness

\* Type invariant of all parts: every row, queue entry, request and breaker value.
TypeOK == AccountTypeOK /\ NoticeTypeOK /\ RowTypeOK
===============================================================================
