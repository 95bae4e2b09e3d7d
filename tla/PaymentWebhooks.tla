---------------------------- MODULE PaymentWebhooks ----------------------------
(***************************************************************************)
(* Billing: a checkout creates a pending payment, the payment provider     *)
(* reports what became of it in webhooks, and the webhook handler credits  *)
(* one month to the subscription of the payment's owner.  The provider     *)
(* delivers every event at least once, in any order and possibly twice at  *)
(* the same time.  Every action of a request is one SQL statement of the   *)
(* handler.  Signatures are taken to be right; a wrong one changes nothing.*)
(***************************************************************************)
EXTENDS Integers, FiniteSets

CONSTANTS
    Users,
    Orders,      \* orders at Razorpay, one row of payments each
    PayUOrders,  \* the orders of them that are paid through PayU instead
    OwnerOf,     \* the user who checked an order out
    Requests,    \* webhook requests that can be in flight at once
    Budget       \* how many events of each kind below a behaviour has

FaultKinds == {"any",        \* any of the following
               "attempt",    \* an attempt to pay fails
               "cancel",     \* a user cancels the subscription with the provider
               "other",      \* the provider reports something the handler ignores
               "fault",      \* a statement fails, or the process dies: no 2xx answer
               "notify",     \* the notification queue refuses the notice of a payment
               "duplicate",  \* an event is delivered while a copy of it is in flight,
                             \* or although it was acknowledged
               "month"}      \* a month passes

ASSUME PaymentAssumption ==
    /\ PayUOrders \subseteq Orders
    /\ OwnerOf \in [Orders -> Users]
    /\ Budget \in [FaultKinds -> Nat]

VARIABLES
    payments,  \* payments.status of each order
    subs,      \* subscriptions: status, and the months left until ends_at
    events,    \* payment_events: absent, inserted or processed
    reqs,      \* the webhook requests in flight
    paid,      \* provider: the orders whose payment was captured
    due,       \* provider: the events it has to deliver
    acked,     \* provider: the events that were answered with 200
    refused,   \* PayU: the orders whose callback was answered with 400
    granted,   \* history: how often each order was credited to a subscription
    budget     \* events of each kind that may still happen

vars == <<payments, subs, events, reqs, paid, due, acked, refused,
          granted, budget>>
provider == <<paid, due, acked, refused>>

\* An event is its kind and the order (for a cancellation: the user) it is about.
OrderKinds == {"captured", "failed", "other"}
Events == (OrderKinds \X Orders) \cup ({"cancelled"} \X Users)
RazorpayOrders == Orders \ PayUOrders
NoEvent == <<"none", "none">>
IdleRequest == [pc |-> "idle", event |-> NoEvent]

Spend(kinds) ==
    LET spent == IF kinds = {} THEN {} ELSE kinds \cup {"any"} IN
    /\ \A k \in spent : budget[k] > 0
    /\ budget' = [k \in FaultKinds |-> IF k \in spent THEN budget[k] - 1 ELSE budget[k]]

Goto(r, pc) == reqs' = [reqs EXCEPT ![r].pc = pc]
Answer(r) == reqs' = [reqs EXCEPT ![r] = IdleRequest]
Order(r) == reqs[r].event[2]

(* ------------------------ checkout and provider ------------------------ *)

\* The user gets to see the order only after its pending payment was inserted.
CreateCheckout(o) ==
    /\ payments[o] = "none"
    /\ payments' = [payments EXCEPT ![o] = "pending"]
    /\ UNCHANGED <<subs, events, reqs, provider, granted, budget>>

\* The first attempt to pay an order may fail and a later one succeed.
AttemptFails(o) ==
    /\ payments[o] # "none" /\ o \in RazorpayOrders /\ o \notin paid
    /\ <<"failed", o>> \notin due
    /\ Spend({"attempt"})
    /\ due' = due \cup {<<"failed", o>>}
    /\ UNCHANGED <<payments, subs, events, reqs, paid, acked, refused, granted>>

Pay(o) ==
    /\ payments[o] # "none" /\ o \notin paid
    /\ paid' = paid \cup {o}
    /\ due' = due \cup (IF o \in PayUOrders THEN {} ELSE {<<"captured", o>>})
    /\ UNCHANGED <<payments, subs, events, reqs, acked, refused, granted, budget>>

CancelAtProvider(u) ==
    /\ subs[u].status = "active" /\ <<"cancelled", u>> \notin due
    /\ Spend({"cancel"})
    /\ due' = due \cup {<<"cancelled", u>>}
    /\ UNCHANGED <<payments, subs, events, reqs, paid, acked, refused, granted>>

OtherEvent(o) ==
    /\ o \in paid \cap RazorpayOrders /\ <<"other", o>> \notin due
    /\ Spend({"other"})
    /\ due' = due \cup {<<"other", o>>}
    /\ UNCHANGED <<payments, subs, events, reqs, paid, acked, refused, granted>>

Deliver(r, e) ==
    LET again == e \in acked \/ \E s \in Requests : reqs[s].event = e IN
    /\ reqs[r].pc = "idle"
    /\ e \in due
    /\ Spend(IF again THEN {"duplicate"} ELSE {})
    /\ reqs' = [reqs EXCEPT ![r] = [pc |-> "check", event |-> e]]
    /\ UNCHANGED <<payments, subs, events, provider, granted>>

\* The callback of PayU is a form.  The handler turns it into JSON, which makes a
\* list of every field, and the service then looks for strings: neither the hash
\* nor the transaction id is found, and the callback is refused.
PayUCallback(o) ==
    /\ o \in PayUOrders \cap paid
    /\ refused' = refused \cup {o}
    /\ UNCHANGED <<payments, subs, events, reqs, paid, due, acked, granted, budget>>

(* ------------------------- the webhook handler ------------------------- *)

handlerFrame == <<paid, due, refused>>

EventExists(e) == events[e] # "absent"

\* An event with a row is acknowledged, whether or not it was ever processed.
CheckEvent(r) ==
    LET e == reqs[r].event IN
    /\ reqs[r].pc = "check"
    /\ IF EventExists(e)
       THEN Answer(r) /\ acked' = acked \cup {e}
       ELSE Goto(r, "insert") /\ UNCHANGED acked
    /\ UNCHANGED <<payments, subs, events, granted, budget, handlerFrame>>

InsertableAgain(e) == TRUE

Insertable(e) == events[e] = "absent"

\* The first statement of the handler for each kind of event.
FirstStep(kind) ==
    CASE kind \in {"captured", "failed"} -> "read"
      [] kind = "cancelled" -> "cancel"
      [] OTHER -> "mark"

\* The unique index on provider_event_id refuses a second row.
InsertPaymentEvent(r) ==
    LET e == reqs[r].event IN
    /\ reqs[r].pc = "insert"
    /\ IF Insertable(e)
       THEN /\ events' = [events EXCEPT ![e] = "inserted"]
            /\ Goto(r, FirstStep(e[1]))
       ELSE Answer(r) /\ UNCHANGED events
    /\ UNCHANGED <<payments, subs, acked, granted, budget, handlerFrame>>

NothingToDoUnlessPending(status) == status # "pending"
NothingToDo(status) == status = "completed"

ReadPayment(r) ==
    /\ reqs[r].pc = "read"
    /\ Goto(r, IF reqs[r].event[1] = "failed" THEN "fail"
               ELSE IF NothingToDo(payments[Order(r)]) THEN "mark" ELSE "complete")
    /\ UNCHANGED <<payments, subs, events, acked, granted, budget, handlerFrame>>

\* Only a pending payment changes its status.
MarkPaymentCompleted(r) ==
    /\ reqs[r].pc = "complete"
    /\ payments' = [payments EXCEPT ![Order(r)] = IF @ = "pending" THEN "completed" ELSE @]
    /\ Goto(r, "grant")
    /\ UNCHANGED <<subs, events, acked, granted, budget, handlerFrame>>

ExtendedFromNow(sub) == [status |-> "active", left |-> 1]

\* A running subscription is extended; any other starts anew, today.
Extended(sub) ==
    [status |-> "active", left |-> IF sub.status = "active" /\ sub.left > 0
                                   THEN sub.left + 1 ELSE 1]

UpsertActiveSubscription(r) ==
    /\ reqs[r].pc = "grant"
    /\ subs' = [subs EXCEPT ![OwnerOf[Order(r)]] = Extended(@)]
    /\ granted' = [granted EXCEPT ![Order(r)] = @ + 1]
    /\ Goto(r, "notify")
    /\ UNCHANGED <<payments, events, acked, budget, handlerFrame>>

\* A notice that cannot be queued fails the request, although all was done.
NotifyPaymentCaptured(r) ==
    /\ reqs[r].pc = "notify"
    /\ \/ Goto(r, "mark") /\ UNCHANGED budget
       \/ Spend({"notify"}) /\ Answer(r)
    /\ UNCHANGED <<payments, subs, events, acked, granted, handlerFrame>>

MarkPaymentFailed(r) ==
    /\ reqs[r].pc = "fail"
    /\ payments' = [payments EXCEPT ![Order(r)] = IF @ = "pending" THEN "failed" ELSE @]
    /\ Goto(r, "mark")
    /\ UNCHANGED <<subs, events, acked, granted, budget, handlerFrame>>

CancelSubscriptionInactive(r) ==
    /\ reqs[r].pc = "cancel"
    /\ subs' = [subs EXCEPT ![reqs[r].event[2]].status = IF @ = "active" THEN "inactive" ELSE @]
    /\ Goto(r, "mark")
    /\ UNCHANGED <<payments, events, acked, granted, budget, handlerFrame>>

CancelSubscription(r) ==
    /\ reqs[r].pc = "cancel"
    /\ subs' = [subs EXCEPT ![reqs[r].event[2]].status = IF @ = "active" THEN "cancelled" ELSE @]
    /\ Goto(r, "mark")
    /\ UNCHANGED <<payments, events, acked, granted, budget, handlerFrame>>

MarkPaymentEventProcessed(r) ==
    /\ reqs[r].pc = "mark"
    /\ events' = [events EXCEPT ![reqs[r].event] = "processed"]
    /\ acked' = acked \cup {reqs[r].event}
    /\ Answer(r)
    /\ UNCHANGED <<payments, subs, granted, budget, handlerFrame>>

\* Every `return err` of the handler, and a process that dies.
RequestFails(r) ==
    /\ reqs[r].pc # "idle"
    /\ Spend({"fault"})
    /\ Answer(r)
    /\ UNCHANGED <<payments, subs, events, acked, granted, handlerFrame>>

MonthPasses ==
    /\ Spend({"month"})
    /\ subs' = [u \in Users |-> [subs[u] EXCEPT !.left = IF @ > 0 THEN @ - 1 ELSE 0]]
    /\ UNCHANGED <<payments, events, reqs, provider, granted>>

(* --------------------------- the specification ------------------------- *)

Init ==
    /\ payments = [o \in Orders |-> "none"]
    /\ subs = [u \in Users |-> [status |-> "none", left |-> 0]]
    /\ events = [e \in Events |-> "absent"]
    /\ reqs = [r \in Requests |-> IdleRequest]
    /\ paid = {} /\ due = {} /\ acked = {} /\ refused = {}
    /\ granted = [o \in Orders |-> 0]
    /\ budget = Budget

HandlerStep(r) ==
    \/ CheckEvent(r) \/ InsertPaymentEvent(r) \/ ReadPayment(r)
    \/ MarkPaymentCompleted(r) \/ UpsertActiveSubscription(r) \/ NotifyPaymentCaptured(r)
    \/ MarkPaymentFailed(r) \/ CancelSubscription(r) \/ MarkPaymentEventProcessed(r)

Next ==
    \/ \E o \in Orders : \/ CreateCheckout(o) \/ AttemptFails(o) \/ Pay(o)
                         \/ OtherEvent(o) \/ PayUCallback(o)
    \/ \E u \in Users : CancelAtProvider(u)
    \/ \E r \in Requests : \/ \E e \in due : Deliver(r, e)
                           \/ HandlerStep(r) \/ RequestFails(r)
    \/ MonthPasses

Spec == Init /\ [][Next]_vars

\* A handler runs to its end, and the provider delivers an event until it is
\* acknowledged.
FairSpec ==
    /\ Spec
    /\ \A r \in Requests : WF_vars(HandlerStep(r))
    /\ \A o \in PayUOrders : WF_vars(PayUCallback(o))
    /\ \A e \in Events : WF_vars(e \notin acked /\ \E r \in Requests : Deliver(r, e))

(* ------------------------------ properties ----------------------------- *)

SubType == [status : {"none", "active", "cancelled"}, left : Nat]
RequestType ==
    [pc : {"idle", "check", "insert", "read", "complete", "grant", "notify", "fail", "cancel",
           "mark"},
     event : Events \cup {NoEvent}]

\* Payments, subscriptions and event rows have the statuses of model.go.
TypeOK ==
    /\ payments \in [Orders -> {"none", "pending", "completed", "failed"}]
    /\ subs \in [Users -> SubType]
    /\ events \in [Events -> {"absent", "inserted", "processed"}]
    /\ reqs \in [Requests -> RequestType]
    /\ paid \in SUBSET Orders /\ refused \in SUBSET Orders
    /\ due \in SUBSET Events /\ acked \in SUBSET Events
    /\ granted \in [Orders -> Nat]
    /\ budget \in [FaultKinds -> Nat]

\* A payment is credited once, and only if it was captured, however often and
\* however concurrently the provider delivers its events.
CreditedOnce ==
    \A o \in Orders : granted[o] <= 1 /\ (granted[o] = 1 => o \in paid)

\* As long as no month has passed and nothing was cancelled, a user has one month
\* left per credited order: two payments at the same time both count.
PaidTimeAddsUp ==
    \A u \in Users :
        budget["month"] = Budget["month"] /\ events[<<"cancelled", u>>] = "absent" =>
            subs[u].left = Cardinality({o \in Orders : OwnerOf[o] = u /\ granted[o] > 0})

\* An order that was paid is credited in the end, also one whose first attempt
\* failed and whichever event arrives first, unless a request broke off.
PaidIsCredited ==
    \A o \in RazorpayOrders :
        (o \in paid) ~> (granted[o] > 0 \/ budget["fault"] < Budget["fault"])

\* "Select failed event -> Resend" is the remedy for "users paid but subscription not
\* active": also after a request broke off, redelivery gets a paid order credited.
ResendHeals ==
    \A o \in RazorpayOrders : (o \in paid) ~> (granted[o] > 0)

\* "HandlePayUWebhook processes PayU callbacks": so is an order paid through PayU.
PayUPaidIsCredited ==
    \A o \in PayUOrders : (o \in paid) ~> (granted[o] > 0)
=============================================================================
