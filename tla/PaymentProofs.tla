----------------------------- MODULE PaymentProofs -----------------------------
(***************************************************************************)
(* For every set of users, orders and concurrent requests, and for every   *)
(* number of failures, duplicate deliveries and broken-off requests: no    *)
(* payment is credited twice and none that was not captured.               *)
(*                                                                         *)
(* CreditedOnce is not inductive: nothing in it keeps a request that is    *)
(* about to credit an order from being the second one.  What does is the   *)
(* row of payment_events, which exactly one request gets to insert.        *)
(***************************************************************************)
EXTENDS PaymentWebhooks, FiniteSetTheorems, TLAPS

\* Where a request is once it has inserted the row of its event.
Handling == {"read", "complete", "grant", "notify", "fail", "cancel", "mark"}

\* An event that is being handled has its row and a single handler.
OneHandler ==
    \A r \in Requests : reqs[r].pc \in Handling =>
        /\ events[reqs[r].event] # "absent"
        /\ \A s \in Requests : s # r /\ reqs[s].pc \in Handling => reqs[s].event # reqs[r].event

\* A request handles an event that was sent, by the steps of its kind, and has not
\* credited the order before it comes to that step.
RequestOK(r) ==
    /\ reqs[r].pc # "idle" => reqs[r].event \in due
    /\ reqs[r].pc \in {"read", "fail"} => reqs[r].event[1] \in {"captured", "failed"}
    /\ reqs[r].pc \in {"complete", "grant", "notify"} => reqs[r].event[1] = "captured"
    /\ reqs[r].pc = "cancel" => reqs[r].event[1] = "cancelled"
    /\ reqs[r].pc \in {"read", "complete", "grant"} /\ reqs[r].event[1] = "captured"
           => granted[Order(r)] = 0

\* A credited order was paid, and the event that says so has its row.
CreditOK(o) ==
    granted[o] # 0 => granted[o] = 1 /\ o \in paid /\ events[<<"captured", o>>] # "absent"

\* A capture is reported only of an order that was paid.
SentOK == \A o \in Orders : <<"captured", o>> \in due => o \in paid

\* What a handler relies on, beside the types.
Safe ==
    /\ OneHandler /\ SentOK
    /\ \A r \in Requests : RequestOK(r)
    /\ \A o \in Orders : CreditOK(o)

\* The inductive invariant.
IInv == TypeOK /\ Safe

(* -------------------------------- types -------------------------------- *)

\* Spending takes from a budget that had something left.
LEMMA SpendType ==
    ASSUME TypeOK, NEW kinds, kinds \subseteq FaultKinds, Spend(kinds)
    PROVE  budget' \in [FaultKinds -> Nat]
<1>. DEFINE spent == IF kinds = {} THEN {} ELSE kinds \cup {"any"}
<1>1. spent \subseteq FaultKinds BY DEF FaultKinds
<1>2. \A k \in spent : budget[k] > 0 BY DEF Spend
<1>3. budget' = [k \in FaultKinds |-> IF k \in spent THEN budget[k] - 1 ELSE budget[k]] BY DEF Spend
<1>. HIDE DEF spent
<1>. QED BY <1>1, <1>2, <1>3 DEF TypeOK

\* A request that moves on or is answered stays well-formed.
LEMMA RequestsType ==
    ASSUME TypeOK, NEW r \in Requests,
           Answer(r) \/ \E pc \in Handling \cup {"insert"} : Goto(r, pc)
    PROVE  reqs' \in [Requests -> RequestType]
<1>1. reqs[r] \in RequestType BY DEF TypeOK
<1>2. CASE Answer(r)
  <2>1. IdleRequest \in RequestType BY DEF IdleRequest, RequestType
  <2>. QED BY <1>2, <2>1 DEF Answer, TypeOK
<1>3. ASSUME NEW pc \in Handling \cup {"insert"}, Goto(r, pc) PROVE reqs' \in [Requests -> RequestType]
  <2>1. [reqs[r] EXCEPT !.pc = pc] \in RequestType BY <1>1 DEF RequestType, Handling
  <2>. QED BY <1>3, <2>1 DEF Goto, TypeOK
<1>. QED BY <1>2, <1>3

\* An event about an order names an order, a cancellation a user.
LEMMA EventParts ==
    ASSUME TypeOK, NEW r \in Requests, RequestOK(r), reqs[r].pc # "idle"
    PROVE  /\ reqs[r] \in RequestType /\ reqs[r].event \in Events
           /\ reqs[r].event[1] \in OrderKinds =>
                Order(r) \in Orders /\ reqs[r].event = <<reqs[r].event[1], Order(r)>>
           /\ reqs[r].event[1] = "cancelled" => reqs[r].event[2] \in Users
<1>1. reqs[r] \in RequestType /\ reqs[r].event \in Events BY DEF TypeOK, RequestOK
<1>. QED BY <1>1 DEF Events, OrderKinds, Order

\* The requests of the user and the reports of the provider are well-formed.
LEMMA OutsideType ==
    ASSUME TypeOK,
           \/ \E o \in Orders : \/ CreateCheckout(o) \/ AttemptFails(o) \/ Pay(o)
                                \/ OtherEvent(o) \/ PayUCallback(o)
           \/ \E u \in Users : CancelAtProvider(u)
           \/ MonthPasses
    PROVE  TypeOK'
<1>1. UNCHANGED <<events, reqs, acked, granted>>
  BY DEF CreateCheckout, AttemptFails, Pay, OtherEvent, PayUCallback, CancelAtProvider,
         MonthPasses, provider
<1>2. payments' \in [Orders -> {"none", "pending", "completed", "failed"}]
  BY DEF CreateCheckout, AttemptFails, Pay, OtherEvent, PayUCallback, CancelAtProvider,
         MonthPasses, TypeOK
<1>3. paid' \in SUBSET Orders /\ refused' \in SUBSET Orders
  BY DEF CreateCheckout, AttemptFails, Pay, OtherEvent, PayUCallback, CancelAtProvider,
         MonthPasses, provider, TypeOK
<1>4. due' \in SUBSET Events
  <2>2. \A u \in Users : <<"cancelled", u>> \in Events BY DEF Events
  <2>3. \/ due' = due
        \/ \E o \in Orders : \E k \in OrderKinds : due' = due \cup {<<k, o>>}
        \/ \E u \in Users : due' = due \cup {<<"cancelled", u>>}
    <3>1. ASSUME NEW o \in Orders, CreateCheckout(o) \/ PayUCallback(o) PROVE due' = due
      BY <3>1 DEF CreateCheckout, PayUCallback, provider
    <3>2. ASSUME NEW o \in Orders, AttemptFails(o) PROVE due' = due \cup {<<"failed", o>>}
      BY <3>2 DEF AttemptFails
    <3>3. ASSUME NEW o \in Orders, Pay(o)
          PROVE  due' = due \/ due' = due \cup {<<"captured", o>>}
      BY <3>3 DEF Pay
    <3>4. ASSUME NEW o \in Orders, OtherEvent(o) PROVE due' = due \cup {<<"other", o>>}
      BY <3>4 DEF OtherEvent
    <3>5. ASSUME NEW u \in Users, CancelAtProvider(u)
          PROVE  due' = due \cup {<<"cancelled", u>>}
      BY <3>5 DEF CancelAtProvider
    <3>6. MonthPasses => due' = due BY DEF MonthPasses, provider
    <3>. QED BY <3>1, <3>2, <3>3, <3>4, <3>5, <3>6 DEF OrderKinds
  <2>4. \A k \in OrderKinds, o \in Orders : <<k, o>> \in Events BY DEF Events
  <2>. QED BY <2>2, <2>3, <2>4 DEF TypeOK
<1>5. subs' \in [Users -> SubType]
  <2>1. CASE MonthPasses
    <3>1. \A u \in Users : subs[u] \in SubType BY DEF TypeOK
    <3>2. \A u \in Users : [subs[u] EXCEPT !.left = IF @ > 0 THEN @ - 1 ELSE 0] \in SubType
      BY <3>1 DEF SubType
    <3>. QED BY <2>1, <3>2 DEF MonthPasses
  <2>2. CASE ~MonthPasses
    BY <2>2 DEF CreateCheckout, AttemptFails, Pay, OtherEvent, PayUCallback, CancelAtProvider,
         TypeOK
  <2>. QED BY <2>1, <2>2
<1>6. budget' \in [FaultKinds -> Nat]
  <2>1. \/ UNCHANGED budget \/ Spend({"attempt"}) \/ Spend({"other"})
        \/ Spend({"cancel"}) \/ Spend({"month"})
    BY DEF CreateCheckout, AttemptFails, Pay, OtherEvent, PayUCallback, CancelAtProvider, MonthPasses
  <2>. QED BY <2>1, SpendType DEF TypeOK, FaultKinds
<1>. QED BY <1>1, <1>2, <1>3, <1>4, <1>5, <1>6 DEF TypeOK

\* So is a delivery.
LEMMA DeliverType ==
    ASSUME TypeOK, NEW r \in Requests, NEW e \in due, Deliver(r, e)
    PROVE  TypeOK'
<1>1. UNCHANGED <<payments, subs, events, paid, due, acked, refused, granted>>
  BY DEF Deliver, provider
<1>2. reqs' \in [Requests -> RequestType]
  <2>1. [pc |-> "check", event |-> e] \in RequestType BY DEF RequestType, TypeOK
  <2>. QED BY <2>1 DEF Deliver, TypeOK
<1>3. budget' \in [FaultKinds -> Nat]
  <2>1. Spend({}) \/ Spend({"duplicate"}) BY DEF Deliver
  <2>. QED BY <2>1, SpendType DEF FaultKinds
<1>. QED BY <1>1, <1>2, <1>3 DEF TypeOK

\* The statements of the handler write the statuses of the schema.
LEMMA HandlerType ==
    ASSUME TypeOK, NEW r \in Requests, RequestOK(r), HandlerStep(r) \/ RequestFails(r)
    PROVE  TypeOK'
<1>. USE DEF HandlerStep
<1>1. UNCHANGED <<paid, due, refused>>
  BY DEF CheckEvent, InsertPaymentEvent, ReadPayment, MarkPaymentCompleted,
         UpsertActiveSubscription, NotifyPaymentCaptured, MarkPaymentFailed, CancelSubscription,
         MarkPaymentEventProcessed, RequestFails, handlerFrame
<1>2. reqs[r].pc # "idle"
  BY DEF CheckEvent, InsertPaymentEvent, ReadPayment, MarkPaymentCompleted,
         UpsertActiveSubscription, NotifyPaymentCaptured, MarkPaymentFailed, CancelSubscription,
         MarkPaymentEventProcessed, RequestFails
<1>3. reqs[r].event \in Events BY <1>2, EventParts
<1>4. reqs' \in [Requests -> RequestType]
  <2>1. Answer(r) \/ \E pc \in Handling \cup {"insert"} : Goto(r, pc)
    BY DEF CheckEvent, InsertPaymentEvent, ReadPayment, MarkPaymentCompleted,
         UpsertActiveSubscription, NotifyPaymentCaptured, MarkPaymentFailed, CancelSubscription,
         MarkPaymentEventProcessed, RequestFails, FirstStep, Handling
  <2>. QED BY <2>1, RequestsType
<1>5. payments' \in [Orders -> {"none", "pending", "completed", "failed"}]
  BY DEF CheckEvent, InsertPaymentEvent, ReadPayment, MarkPaymentCompleted,
         UpsertActiveSubscription, NotifyPaymentCaptured, MarkPaymentFailed, CancelSubscription,
         MarkPaymentEventProcessed, RequestFails, TypeOK
<1>6. subs' \in [Users -> SubType]
  <2>1. CASE UpsertActiveSubscription(r)
    <3>. DEFINE u == OwnerOf[Order(r)]
    <3>1. u \in Users
      <4>1. Order(r) \in Orders
        BY <1>2, <2>1, EventParts DEF UpsertActiveSubscription, RequestOK, OrderKinds
      <4>. QED BY <4>1, PaymentAssumption
    <3>2. subs[u] \in SubType BY <3>1 DEF TypeOK
    <3>3. Extended(subs[u]) \in SubType BY <3>2 DEF Extended, SubType
    <3>4. subs' = [subs EXCEPT ![u] = Extended(subs[u])] BY <2>1 DEF UpsertActiveSubscription
    <3>. QED BY <3>1, <3>3, <3>4 DEF TypeOK
  <2>2. CASE CancelSubscription(r)
    <3>. DEFINE u == reqs[r].event[2]
                sub == [subs[u] EXCEPT !.status = IF @ = "active" THEN "cancelled" ELSE @]
    <3>1. u \in Users BY <1>2, <2>2, EventParts DEF CancelSubscription, RequestOK
    <3>2. subs[u] \in SubType BY <3>1 DEF TypeOK
    <3>3. sub \in SubType BY <3>2 DEF SubType
    <3>4. subs' = [subs EXCEPT ![u] = sub] BY <2>2 DEF CancelSubscription
    <3>. QED BY <3>1, <3>3, <3>4 DEF TypeOK
  <2>3. CASE ~UpsertActiveSubscription(r) /\ ~CancelSubscription(r)
    BY <2>3 DEF CheckEvent, InsertPaymentEvent, ReadPayment, MarkPaymentCompleted,
         NotifyPaymentCaptured, MarkPaymentFailed, MarkPaymentEventProcessed, RequestFails, TypeOK
  <2>. QED BY <2>1, <2>2, <2>3
<1>7. events' \in [Events -> {"absent", "inserted", "processed"}]
  BY <1>3 DEF CheckEvent, InsertPaymentEvent, ReadPayment, MarkPaymentCompleted,
         UpsertActiveSubscription, NotifyPaymentCaptured, MarkPaymentFailed, CancelSubscription,
         MarkPaymentEventProcessed, RequestFails, TypeOK
<1>8. acked' \in SUBSET Events
  BY <1>3 DEF CheckEvent, InsertPaymentEvent, ReadPayment, MarkPaymentCompleted,
         UpsertActiveSubscription, NotifyPaymentCaptured, MarkPaymentFailed, CancelSubscription,
         MarkPaymentEventProcessed, RequestFails, TypeOK
<1>9. granted' \in [Orders -> Nat]
  BY DEF CheckEvent, InsertPaymentEvent, ReadPayment, MarkPaymentCompleted,
         UpsertActiveSubscription, NotifyPaymentCaptured, MarkPaymentFailed, CancelSubscription,
         MarkPaymentEventProcessed, RequestFails, TypeOK
<1>10. budget' \in [FaultKinds -> Nat]
  <2>1. UNCHANGED budget \/ Spend({"notify"}) \/ Spend({"fault"})
    BY DEF CheckEvent, InsertPaymentEvent, ReadPayment, MarkPaymentCompleted,
         UpsertActiveSubscription, NotifyPaymentCaptured, MarkPaymentFailed, CancelSubscription,
         MarkPaymentEventProcessed, RequestFails
  <2>. QED BY <2>1, SpendType DEF TypeOK, FaultKinds
<1>. QED BY <1>1, <1>4, <1>5, <1>6, <1>7, <1>8, <1>9, <1>10 DEF TypeOK

(* ---------------------------- preservation ----------------------------- *)

\* Whatever happens outside the handler only adds payments and events to deliver.
LEMMA OutsideSafe ==
    ASSUME IInv,
           \/ \E o \in Orders : \/ CreateCheckout(o) \/ AttemptFails(o) \/ Pay(o)
                                \/ OtherEvent(o) \/ PayUCallback(o)
           \/ \E u \in Users : CancelAtProvider(u)
           \/ MonthPasses
    PROVE  Safe'
<1>1. UNCHANGED <<events, reqs, granted>> /\ due \subseteq due' /\ paid \subseteq paid'
  BY DEF CreateCheckout, AttemptFails, Pay, OtherEvent, PayUCallback, CancelAtProvider,
         MonthPasses, provider
<1>2. SentOK'
  <2>1. ASSUME NEW o \in Orders, <<"captured", o>> \in due' \ due PROVE o \in paid'
    <3>1. ASSUME NEW p \in Orders, CreateCheckout(p) \/ PayUCallback(p) PROVE due' = due
      BY <3>1 DEF CreateCheckout, PayUCallback, provider
    <3>2. ASSUME NEW p \in Orders, AttemptFails(p) PROVE due' = due \cup {<<"failed", p>>}
      BY <3>2 DEF AttemptFails
    <3>3. ASSUME NEW p \in Orders, Pay(p) PROVE o \in paid'
      <4>1. <<"captured", o>> \in {<<"captured", p>>} BY <2>1, <3>3 DEF Pay
      <4>2. o = p BY <4>1
      <4>. QED BY <3>3, <4>2 DEF Pay
    <3>4. ASSUME NEW p \in Orders, OtherEvent(p) PROVE due' = due \cup {<<"other", p>>}
      BY <3>4 DEF OtherEvent
    <3>5. ASSUME NEW u \in Users, CancelAtProvider(u)
          PROVE  due' = due \cup {<<"cancelled", u>>}
      BY <3>5 DEF CancelAtProvider
    <3>6. MonthPasses => due' = due BY DEF MonthPasses, provider
    <3>7. \A k, x : <<"captured", o>> = <<k, x>> => k = "captured" OBVIOUS
    <3>. QED BY <2>1, <3>1, <3>2, <3>3, <3>4, <3>5, <3>6, <3>7
  <2>. QED BY <1>1, <2>1 DEF IInv, Safe, SentOK
<1>3. OneHandler' BY <1>1 DEF IInv, Safe, OneHandler
<1>4. \A r \in Requests : RequestOK(r)' BY <1>1 DEF IInv, Safe, RequestOK, Order
<1>5. \A o \in Orders : CreditOK(o)' BY <1>1 DEF IInv, Safe, CreditOK
<1>. QED BY <1>2, <1>3, <1>4, <1>5 DEF Safe

\* A step of one request that inserts no row and credits nothing is harmless if the
\* request may be where it goes.
LEMMA RequestSafe ==
    ASSUME IInv, NEW r \in Requests, NEW q, reqs' = [reqs EXCEPT ![r] = q],
           UNCHANGED <<paid, due, granted>>, RequestOK(r)',
           \A e \in Events : events[e] # "absent" => events'[e] # "absent",
           q.pc \in Handling => reqs[r].pc \in Handling /\ q.event = reqs[r].event
    PROVE  Safe'
<1>1. \A s \in Requests : reqs'[s] = IF s = r THEN q ELSE reqs[s] BY DEF IInv, TypeOK
<1>2. \A s \in Requests : reqs[s].pc \in Handling => reqs[s].event \in Events
  BY DEF IInv, Safe, RequestOK, TypeOK, Handling
<1>3. OneHandler' BY <1>1, <1>2 DEF IInv, Safe, OneHandler
<1>4. SentOK' BY DEF IInv, Safe, SentOK
<1>5. ASSUME NEW s \in Requests, s # r PROVE RequestOK(s)'
  BY <1>1, <1>5 DEF IInv, Safe, RequestOK, Order
<1>6. ASSUME NEW o \in Orders PROVE CreditOK(o)'
  <2>1. <<"captured", o>> \in Events BY DEF Events, OrderKinds
  <2>. QED BY <2>1 DEF IInv, Safe, CreditOK
<1>. QED BY <1>3, <1>4, <1>5, <1>6 DEF Safe

\* A request that is answered is no longer of any consequence.
LEMMA AnswerSafe ==
    ASSUME IInv, NEW r \in Requests, Answer(r), UNCHANGED <<paid, due, granted>>,
           \A e \in Events : events[e] # "absent" => events'[e] # "absent"
    PROVE  Safe'
<1>1. reqs' = [reqs EXCEPT ![r] = IdleRequest] /\ IdleRequest.pc \notin Handling
  BY DEF Answer, IdleRequest, Handling
<1>2. reqs'[r] = IdleRequest BY <1>1 DEF IInv, TypeOK
<1>3. RequestOK(r)' BY <1>2 DEF RequestOK, IdleRequest
<1>. QED BY <1>1, <1>3, RequestSafe

\* A delivery starts before the row of its event.
LEMMA DeliverSafe ==
    ASSUME IInv, NEW r \in Requests, NEW e \in due, Deliver(r, e)
    PROVE  Safe'
<1>. DEFINE q == [pc |-> "check", event |-> e]
<1>1. UNCHANGED <<events, paid, due, granted>> /\ reqs' = [reqs EXCEPT ![r] = q]
  BY DEF Deliver, provider
<1>2. reqs'[r] = q BY <1>1 DEF IInv, TypeOK
<1>3. RequestOK(r)' BY <1>1, <1>2 DEF RequestOK
<1>4. q.pc \notin Handling BY DEF Handling
<1>. QED BY <1>1, <1>3, <1>4, RequestSafe

\* The row decides which request handles the event: nothing was credited before it.
LEMMA InsertSafe ==
    ASSUME IInv, NEW r \in Requests, InsertPaymentEvent(r)
    PROVE  Safe'
<1>. DEFINE e == reqs[r].event
            pc == FirstStep(e[1])
<1>1. UNCHANGED <<paid, due, granted>> BY DEF InsertPaymentEvent, handlerFrame
<1>2. CASE ~Insertable(e)
  BY <1>1, <1>2, AnswerSafe DEF InsertPaymentEvent
<1>3. CASE Insertable(e)
  <2>1. /\ reqs[r] \in RequestType /\ e \in Events /\ e \in due /\ events[e] = "absent"
        /\ e[1] \in OrderKinds => Order(r) \in Orders /\ e = <<e[1], Order(r)>>
    BY <1>3, EventParts DEF IInv, Safe, RequestOK, InsertPaymentEvent, Insertable
  <2>2. \A f \in Events : events'[f] = IF f = e THEN "inserted" ELSE events[f]
    BY <1>3 DEF IInv, TypeOK, InsertPaymentEvent
  <2>3. /\ \A s \in Requests : s # r => reqs'[s] = reqs[s]
        /\ reqs'[r].pc = pc /\ reqs'[r].event = e
    BY <1>3, <2>1 DEF IInv, TypeOK, InsertPaymentEvent, Goto, RequestType
  <2>4. /\ pc \in {"read", "cancel", "mark"}
        /\ pc = "read" => e[1] \in {"captured", "failed"}
        /\ pc = "cancel" => e[1] = "cancelled"
    BY DEF FirstStep
  <2>. HIDE DEF e, pc
  <2>5. e[1] = "captured" => granted[Order(r)] = 0
    BY <2>1 DEF IInv, Safe, CreditOK, OrderKinds
  <2>6. \A s \in Requests : reqs[s].pc \in Handling => reqs[s].event # e /\ reqs[s].event \in Events
    BY <2>1 DEF IInv, Safe, OneHandler, RequestOK, TypeOK, Handling
  <2>7. OneHandler' BY <2>1, <2>2, <2>3, <2>6 DEF IInv, Safe, OneHandler
  <2>8. RequestOK(r)'
    BY <1>1, <2>1, <2>3, <2>4, <2>5 DEF RequestOK, Order, e
  <2>9. ASSUME NEW s \in Requests, s # r PROVE RequestOK(s)'
    BY <1>1, <2>3, <2>9 DEF IInv, Safe, RequestOK, Order
  <2>10. ASSUME NEW o \in Orders PROVE CreditOK(o)'
    <3>1. <<"captured", o>> \in Events BY DEF Events, OrderKinds
    <3>. QED BY <1>1, <2>2, <3>1 DEF IInv, Safe, CreditOK
  <2>. QED BY <1>1, <2>7, <2>8, <2>9, <2>10 DEF IInv, Safe, SentOK
<1>. QED BY <1>2, <1>3

\* The request that credits the order is the only one that ever could.
LEMMA UpsertSafe ==
    ASSUME IInv, NEW r \in Requests, UpsertActiveSubscription(r)
    PROVE  Safe'
<1>. DEFINE o == Order(r)
<1>1. UNCHANGED <<events, paid, due>> BY DEF UpsertActiveSubscription, handlerFrame
<1>2. /\ reqs[r] \in RequestType /\ o \in Orders /\ reqs[r].event = <<"captured", o>>
      /\ reqs[r].event \in due /\ reqs[r].pc \in Handling /\ granted[o] = 0
  BY EventParts DEF IInv, Safe, RequestOK, UpsertActiveSubscription, OrderKinds, Handling
<1>3. o \in paid /\ events[<<"captured", o>>] # "absent"
  BY <1>2 DEF IInv, Safe, SentOK, OneHandler
<1>4. \A p \in Orders : granted'[p] = IF p = o THEN 1 ELSE granted[p]
  BY <1>2 DEF IInv, TypeOK, UpsertActiveSubscription
<1>5. /\ \A s \in Requests : s # r => reqs'[s] = reqs[s]
      /\ reqs'[r].pc = "notify" /\ reqs'[r].event = reqs[r].event
  BY <1>2 DEF IInv, TypeOK, UpsertActiveSubscription, Goto, RequestType
<1>. HIDE DEF o
<1>6. OneHandler' BY <1>1, <1>2, <1>5 DEF IInv, Safe, OneHandler, Handling
<1>7. RequestOK(r)' BY <1>1, <1>2, <1>5 DEF RequestOK
<1>8. ASSUME NEW s \in Requests, s # r PROVE RequestOK(s)'
  <2>1. reqs'[s] = reqs[s] /\ RequestOK(s) BY <1>5, <1>8 DEF IInv, Safe
  <2>2. ASSUME reqs[s].pc \in {"read", "complete", "grant"}, reqs[s].event[1] = "captured"
        PROVE  Order(s) # o /\ Order(s) \in Orders
    <3>1. reqs[s].event # reqs[r].event
      BY <1>2, <1>8, <2>2 DEF IInv, Safe, OneHandler, Handling
    <3>2. Order(s) \in Orders /\ reqs[s].event = <<"captured", Order(s)>>
      BY <2>1, <2>2, EventParts DEF IInv, OrderKinds
    <3>. QED BY <1>2, <3>1, <3>2
  <2>. QED BY <1>1, <1>4, <2>1, <2>2 DEF RequestOK, Order
<1>9. ASSUME NEW p \in Orders PROVE CreditOK(p)'
  BY <1>1, <1>3, <1>4 DEF IInv, Safe, CreditOK
<1>. QED BY <1>1, <1>6, <1>7, <1>8, <1>9 DEF IInv, Safe, SentOK

\* The other statements of the handler leave rows and credits alone.
LEMMA HandlerSafe ==
    ASSUME IInv, NEW r \in Requests, HandlerStep(r) \/ RequestFails(r)
    PROVE  Safe'
<1>1. CASE InsertPaymentEvent(r) BY <1>1, InsertSafe
<1>2. CASE UpsertActiveSubscription(r) BY <1>2, UpsertSafe
<1>3. CASE ~InsertPaymentEvent(r) /\ ~UpsertActiveSubscription(r)
  <2>1. UNCHANGED <<paid, due, granted>>
    BY <1>3 DEF HandlerStep, CheckEvent, ReadPayment, MarkPaymentCompleted,
         NotifyPaymentCaptured, MarkPaymentFailed, CancelSubscription,
         MarkPaymentEventProcessed, RequestFails, handlerFrame
  <2>2. \A e \in Events : events[e] # "absent" => events'[e] # "absent"
    BY <1>3 DEF HandlerStep, CheckEvent, ReadPayment, MarkPaymentCompleted,
         NotifyPaymentCaptured, MarkPaymentFailed, CancelSubscription,
         MarkPaymentEventProcessed, RequestFails, IInv, TypeOK
  <2>3. RequestOK(r) /\ reqs[r] \in RequestType BY DEF IInv, Safe, TypeOK
  <2>4. CASE Answer(r) BY <2>1, <2>2, <2>4, AnswerSafe
  <2>5. CASE ~Answer(r)
    <3>1. PICK pc :
            /\ Goto(r, pc)
            /\ \/ pc = "insert" /\ reqs[r].pc = "check"
               \/ pc \in {"fail", "mark", "complete"} /\ reqs[r].pc = "read"
                  /\ (pc = "fail" => reqs[r].event[1] = "failed")
                  /\ (pc = "complete" => reqs[r].event[1] # "failed")
               \/ pc = "grant" /\ reqs[r].pc = "complete"
               \/ pc = "mark" /\ reqs[r].pc \in {"notify", "fail", "cancel"}
      BY <1>3, <2>5 DEF HandlerStep, CheckEvent, ReadPayment, MarkPaymentCompleted,
         NotifyPaymentCaptured, MarkPaymentFailed, CancelSubscription,
         MarkPaymentEventProcessed, RequestFails
    <3>. DEFINE q == [reqs[r] EXCEPT !.pc = pc]
    <3>2. reqs' = [reqs EXCEPT ![r] = q] BY <3>1 DEF Goto, IInv, TypeOK
    <3>3. reqs'[r] = q BY <3>2 DEF IInv, TypeOK
    <3>4. q.pc = pc /\ q.event = reqs[r].event BY <2>3 DEF RequestType
    <3>. HIDE DEF q
    <3>5. RequestOK(r)' BY <2>1, <2>3, <3>1, <3>3, <3>4 DEF RequestOK, Order
    <3>6. q.pc \in Handling => reqs[r].pc \in Handling BY <3>1, <3>4 DEF Handling
    <3>. QED BY <2>1, <2>2, <3>2, <3>4, <3>5, <3>6, RequestSafe
  <2>. QED BY <2>4, <2>5
<1>. QED BY <1>1, <1>2, <1>3

(* ------------------------------- theorems ------------------------------ *)

\* Before anything happens the invariant holds.
LEMMA InitIInv == Init => IInv
<1>. SUFFICES ASSUME Init PROVE IInv OBVIOUS
<1>1. IdleRequest \in RequestType /\ IdleRequest.pc = "idle" BY DEF IdleRequest, RequestType
<1>2. TypeOK BY <1>1, PaymentAssumption DEF Init, TypeOK, SubType
<1>3. Safe BY <1>1 DEF Init, Safe, OneHandler, SentOK, RequestOK, CreditOK, Handling
<1>. QED BY <1>2, <1>3 DEF IInv

\* Every step preserves it.
LEMMA NextIInv == IInv /\ [Next]_vars => IInv'
<1>. SUFFICES ASSUME IInv, [Next]_vars PROVE IInv' OBVIOUS
<1>1. TypeOK /\ Safe BY DEF IInv
<1>2. CASE \/ \E o \in Orders : \/ CreateCheckout(o) \/ AttemptFails(o) \/ Pay(o)
                                \/ OtherEvent(o) \/ PayUCallback(o)
           \/ \E u \in Users : CancelAtProvider(u)
           \/ MonthPasses
  BY <1>1, <1>2, OutsideType, OutsideSafe DEF IInv
<1>3. ASSUME NEW r \in Requests, NEW e \in due, Deliver(r, e) PROVE IInv'
  BY <1>1, <1>3, DeliverType, DeliverSafe DEF IInv
<1>4. ASSUME NEW r \in Requests, HandlerStep(r) \/ RequestFails(r) PROVE IInv'
  <2>1. RequestOK(r) BY <1>1 DEF Safe
  <2>. QED BY <1>1, <1>4, <2>1, HandlerType, HandlerSafe DEF IInv
<1>5. CASE UNCHANGED vars
  BY <1>1, <1>5 DEF vars, provider, IInv, TypeOK, Safe, OneHandler, SentOK, RequestOK, CreditOK, Order
<1>. QED BY <1>2, <1>3, <1>4, <1>5 DEF Next

\* The invariant holds in every reachable state.
THEOREM Invariance == Spec => []IInv
BY InitIInv, NextIInv, PTL DEF Spec

\* Payments, subscriptions and event rows keep the statuses of model.go, whatever
\* the webhook handler is interrupted by.
THEOREM TypeCorrect == Spec => []TypeOK
<1>1. IInv => TypeOK BY DEF IInv
<1>. QED BY <1>1, Invariance, PTL

\* HandleRazorpayWebhook's idempotency: no order is credited twice and none that was
\* not captured, for any number of deliveries, concurrent requests and failures.
THEOREM NoDoubleCredit == Spec => []CreditedOnce
<1>1. IInv => CreditedOnce
  <2>. SUFFICES ASSUME IInv, NEW o \in Orders
                PROVE  granted[o] <= 1 /\ (granted[o] = 1 => o \in paid)
    BY DEF CreditedOnce
  <2>1. CreditOK(o) /\ granted[o] \in Nat BY DEF IInv, Safe, TypeOK
  <2>2. granted[o] = 0 \/ (granted[o] = 1 /\ o \in paid) BY <2>1 DEF CreditOK
  <2>. QED BY <2>2
<1>. QED BY <1>1, Invariance, PTL

(* ---------------------------- the time that is paid --------------------- *)

\* The credited orders of a user.
Credited(u) == {o \in Orders : OwnerOf[o] = u /\ granted[o] > 0}

\* Until a month passes or a cancellation of the user is received, the subscription runs or
\* never began, and has one month per credited order.
MonthsOK(u) ==
    budget["month"] = Budget["month"] /\ events[<<"cancelled", u>>] = "absent" =>
        /\ subs[u].status = "active" \/ (subs[u].status = "none" /\ subs[u].left = 0)
        /\ IsFiniteSet(Credited(u))
        /\ subs[u].left = Cardinality(Credited(u))

\* No kind of disturbance happens more often than the bound says.
BudgetSinks == \A k \in FaultKinds : budget[k] <= Budget[k]

\* What PaidTimeAddsUp needs beside IInv.
MonthsInv == BudgetSinks /\ \A u \in Users : MonthsOK(u)

\* Spending lowers what is left, of a kind that is spent by one.
LEMMA SpendSinks ==
    ASSUME TypeOK, BudgetSinks, NEW kinds, Spend(kinds)
    PROVE  /\ BudgetSinks' /\ \A k \in FaultKinds : budget'[k] <= budget[k]
           /\ \A k \in kinds \cap FaultKinds : budget'[k] < Budget[k]
<1>. DEFINE spent == IF kinds = {} THEN {} ELSE kinds \cup {"any"}
<1>1. budget' = [k \in FaultKinds |-> IF k \in spent THEN budget[k] - 1 ELSE budget[k]] BY DEF Spend
<1>2. kinds \subseteq spent OBVIOUS
<1>3. \A k \in FaultKinds : budget[k] \in Nat /\ Budget[k] \in Nat /\ budget[k] <= Budget[k]
  BY PaymentAssumption DEF TypeOK, BudgetSinks
<1>. HIDE DEF spent
<1>4. \A k \in FaultKinds : budget'[k] <= budget[k] /\ budget'[k] <= Budget[k] BY <1>1, <1>3
<1>5. \A k \in kinds \cap FaultKinds : budget'[k] < Budget[k] BY <1>1, <1>2, <1>3
<1>. QED BY <1>4, <1>5 DEF BudgetSinks

\* Every step spends or leaves the budget alone; the passing of a month spends it.
LEMMA Spends ==
    ASSUME TypeOK, BudgetSinks, [Next]_vars
    PROVE  /\ BudgetSinks' /\ \A k \in FaultKinds : budget'[k] <= budget[k]
           /\ MonthPasses => budget'["month"] < Budget["month"]
<1>1. UNCHANGED budget \/ \E kinds : Spend(kinds)
  <2>1. CASE \E o \in Orders : \/ CreateCheckout(o) \/ AttemptFails(o) \/ Pay(o)
                               \/ OtherEvent(o) \/ PayUCallback(o)
    BY <2>1 DEF CreateCheckout, AttemptFails, Pay, OtherEvent, PayUCallback
  <2>2. CASE (\E u \in Users : CancelAtProvider(u)) \/ MonthPasses
    BY <2>2 DEF CancelAtProvider, MonthPasses
  <2>3. ASSUME NEW r \in Requests, NEW e \in due, Deliver(r, e) PROVE \E kinds : Spend(kinds)
    BY <2>3 DEF Deliver
  <2>4. ASSUME NEW r \in Requests, HandlerStep(r) \/ RequestFails(r)
        PROVE  UNCHANGED budget \/ \E kinds : Spend(kinds)
    BY <2>4 DEF HandlerStep, CheckEvent, InsertPaymentEvent, ReadPayment, MarkPaymentCompleted,
         UpsertActiveSubscription, NotifyPaymentCaptured, MarkPaymentFailed, CancelSubscription,
         MarkPaymentEventProcessed, RequestFails
  <2>5. CASE UNCHANGED vars BY <2>5 DEF vars
  <2>. QED BY <2>1, <2>2, <2>3, <2>4, <2>5 DEF Next
<1>2. UNCHANGED budget => BudgetSinks' /\ \A k \in FaultKinds : budget'[k] <= budget[k]
  BY PaymentAssumption DEF BudgetSinks, TypeOK
<1>3. MonthPasses => Spend({"month"}) BY DEF MonthPasses
<1>4. "month" \in FaultKinds BY DEF FaultKinds
<1>. QED BY <1>1, <1>2, <1>3, <1>4, SpendSinks

\* The condition of MonthsOK never comes back once it is gone.
LEMMA MonthsStay ==
    ASSUME IInv, MonthsInv, [Next]_vars, NEW u \in Users,
           events[<<"cancelled", u>>] # "absent" => events'[<<"cancelled", u>>] # "absent",
           subs'[u] = subs[u], Credited(u)' = Credited(u)
    PROVE  MonthsOK(u)'
<1>1. budget'["month"] <= budget["month"] /\ budget["month"] <= Budget["month"]
  BY Spends DEF IInv, MonthsInv, BudgetSinks, FaultKinds
<1>2. budget["month"] \in Nat /\ Budget["month"] \in Nat BY PaymentAssumption DEF IInv, TypeOK, FaultKinds
<1>3. budget'["month"] = Budget["month"] => budget'["month"] = budget["month"] \/ budget'["month"] > budget["month"]
  BY <1>1, <1>2
<1>4. budget'["month"] = Budget["month"] => budget["month"] = Budget["month"] BY <1>1, <1>2
<1>. QED BY <1>4 DEF MonthsOK, MonthsInv

\* No row of payment_events is deleted.
LEMMA RowsStay ==
    ASSUME IInv, [Next]_vars, NEW e \in Events, events[e] # "absent"
    PROVE  events'[e] # "absent"
<1>1. CASE \/ \E o \in Orders : \/ CreateCheckout(o) \/ AttemptFails(o) \/ Pay(o)
                                \/ OtherEvent(o) \/ PayUCallback(o)
           \/ \E u \in Users : CancelAtProvider(u)
           \/ MonthPasses
  BY <1>1 DEF CreateCheckout, AttemptFails, Pay, OtherEvent, PayUCallback, CancelAtProvider, MonthPasses
<1>2. ASSUME NEW r \in Requests, NEW f \in due, Deliver(r, f) PROVE events'[e] # "absent"
  BY <1>2 DEF Deliver
<1>3. ASSUME NEW r \in Requests, HandlerStep(r) \/ RequestFails(r) PROVE events'[e] # "absent"
  BY <1>3 DEF HandlerStep, CheckEvent, InsertPaymentEvent, ReadPayment, MarkPaymentCompleted,
       UpsertActiveSubscription, NotifyPaymentCaptured, MarkPaymentFailed, CancelSubscription,
       MarkPaymentEventProcessed, RequestFails, IInv, TypeOK
<1>4. CASE UNCHANGED vars BY <1>4 DEF vars
<1>. QED BY <1>1, <1>2, <1>3, <1>4 DEF Next

\* A step that credits nothing and touches no subscription.
LEMMA OthersMonths ==
    ASSUME IInv, MonthsInv, [Next]_vars, UNCHANGED <<subs, granted>>, NEW u \in Users
    PROVE  MonthsOK(u)'
<1>1. <<"cancelled", u>> \in Events BY DEF Events
<1>. QED BY <1>1, RowsStay, MonthsStay DEF Credited

\* A cancellation is handled after its row was inserted.
LEMMA CancelMonths ==
    ASSUME IInv, MonthsInv, [Next]_vars, NEW r \in Requests, CancelSubscription(r), NEW u \in Users
    PROVE  MonthsOK(u)'
<1>. DEFINE v == reqs[r].event[2]
<1>1. /\ reqs[r].pc = "cancel" /\ UNCHANGED <<events, granted>>
      /\ subs' = [subs EXCEPT ![v].status = IF @ = "active" THEN "cancelled" ELSE @]
  BY DEF CancelSubscription
<1>2. reqs[r].event \in Events /\ reqs[r].event[1] = "cancelled" /\ events[reqs[r].event] # "absent"
  BY <1>1, EventParts DEF IInv, Safe, RequestOK, OneHandler, Handling
<1>3. reqs[r].event = <<"cancelled", v>> BY <1>2 DEF Events, OrderKinds
<1>4. CASE u = v BY <1>1, <1>2, <1>3, <1>4 DEF MonthsOK
<1>5. CASE u # v
  <2>1. subs'[u] = subs[u] BY <1>1, <1>5 DEF IInv, TypeOK
  <2>. QED BY <1>1, <2>1, MonthsStay DEF Credited
<1>. QED BY <1>4, <1>5

\* The statement that credits an order adds a month to what is left.
LEMMA UpsertMonths ==
    ASSUME IInv, MonthsInv, [Next]_vars, NEW r \in Requests, UpsertActiveSubscription(r), NEW u \in Users
    PROVE  MonthsOK(u)'
<1>1. PICK o \in Orders : o = Order(r) /\ granted[o] = 0
  BY EventParts DEF IInv, Safe, RequestOK, UpsertActiveSubscription, OrderKinds
<1>2. PICK v \in Users : v = OwnerOf[o] BY PaymentAssumption
<1>3. /\ UNCHANGED <<events, budget>> /\ subs' = [subs EXCEPT ![v] = Extended(@)]
      /\ granted' = [granted EXCEPT ![o] = @ + 1]
  BY <1>1, <1>2 DEF UpsertActiveSubscription
<1>4. granted \in [Orders -> Nat] /\ subs \in [Users -> SubType] BY DEF IInv, TypeOK
<1>5. \A p \in Orders : granted'[p] = IF p = o THEN 1 ELSE granted[p] BY <1>1, <1>3, <1>4
<1>6. CASE u # v
  <2>1. subs'[u] = subs[u] BY <1>3, <1>4, <1>6
  <2>2. Credited(u)' = Credited(u) BY <1>2, <1>5, <1>6 DEF Credited
  <2>. QED BY <1>3, <2>1, <2>2, MonthsStay
<1>7. CASE u = v
  <2>. SUFFICES ASSUME budget["month"] = Budget["month"], events[<<"cancelled", u>>] = "absent"
                PROVE  /\ subs'[u].status = "active"
                       /\ IsFiniteSet(Credited(u)') /\ subs'[u].left = Cardinality(Credited(u)')
    BY <1>3 DEF MonthsOK
  <2>1. /\ subs[u].status = "active" \/ (subs[u].status = "none" /\ subs[u].left = 0)
        /\ IsFiniteSet(Credited(u)) /\ subs[u].left = Cardinality(Credited(u))
    BY DEF MonthsInv, MonthsOK
  <2>2. Credited(u)' = Credited(u) \cup {o} /\ o \notin Credited(u)
    BY <1>1, <1>2, <1>5, <1>7 DEF Credited
  <2>3. IsFiniteSet(Credited(u)') /\ Cardinality(Credited(u)') = Cardinality(Credited(u)) + 1
    BY <2>1, <2>2, FS_AddElement
  <2>4. subs[u] \in SubType /\ subs'[u] = Extended(subs[u]) BY <1>3, <1>4, <1>7
  <2>5. subs'[u].status = "active" /\ subs'[u].left = subs[u].left + 1
    BY <2>1, <2>4 DEF Extended, SubType
  <2>. QED BY <2>1, <2>3, <2>5
<1>. QED BY <1>6, <1>7

\* Every step keeps the count.
LEMMA NextMonths ==
    ASSUME IInv, MonthsInv, [Next]_vars
    PROVE  MonthsInv'
<1>1. BudgetSinks' BY Spends DEF IInv, MonthsInv
<1>2. ASSUME NEW u \in Users PROVE MonthsOK(u)'
  <2>1. CASE MonthPasses
    <3>1. budget'["month"] < Budget["month"] BY <2>1, Spends DEF IInv, MonthsInv
    <3>2. budget'["month"] # Budget["month"]
      BY <2>1, <3>1, PaymentAssumption, SpendType DEF MonthPasses, FaultKinds, IInv
    <3>. QED BY <3>2 DEF MonthsOK
  <2>2. CASE \/ \E o \in Orders : \/ CreateCheckout(o) \/ AttemptFails(o) \/ Pay(o)
                                  \/ OtherEvent(o) \/ PayUCallback(o)
             \/ \E v \in Users : CancelAtProvider(v)
    <3>1. UNCHANGED <<subs, granted>>
      BY <2>2 DEF CreateCheckout, AttemptFails, Pay, OtherEvent, PayUCallback, CancelAtProvider
    <3>. QED BY <3>1, OthersMonths
  <2>3. ASSUME NEW r \in Requests, NEW e \in due, Deliver(r, e) PROVE MonthsOK(u)'
    <3>1. UNCHANGED <<subs, granted>> BY <2>3 DEF Deliver
    <3>. QED BY <3>1, OthersMonths
  <2>4. ASSUME NEW r \in Requests, HandlerStep(r) \/ RequestFails(r) PROVE MonthsOK(u)'
    <3>1. CASE UpsertActiveSubscription(r) BY <3>1, UpsertMonths
    <3>2. CASE CancelSubscription(r) BY <3>2, CancelMonths
    <3>3. CASE ~UpsertActiveSubscription(r) /\ ~CancelSubscription(r)
      <4>1. UNCHANGED <<subs, granted>>
        BY <2>4, <3>3 DEF HandlerStep, CheckEvent, InsertPaymentEvent, ReadPayment, MarkPaymentCompleted,
             NotifyPaymentCaptured, MarkPaymentFailed, MarkPaymentEventProcessed, RequestFails
      <4>. QED BY <4>1, OthersMonths
    <3>. QED BY <3>1, <3>2, <3>3
  <2>5. CASE UNCHANGED vars
    <3>1. UNCHANGED <<subs, granted>> BY <2>5 DEF vars
    <3>. QED BY <3>1, OthersMonths
  <2>. QED BY <2>1, <2>2, <2>3, <2>4, <2>5 DEF Next
<1>. QED BY <1>1, <1>2 DEF MonthsInv

\* At the start nobody has a subscription or a credit.
LEMMA InitMonths == Init => MonthsInv
<1>. SUFFICES ASSUME Init PROVE MonthsInv OBVIOUS
<1>1. BudgetSinks BY PaymentAssumption DEF Init, BudgetSinks
<1>2. ASSUME NEW u \in Users PROVE MonthsOK(u)
  <2>1. Credited(u) = {} BY DEF Init, Credited
  <2>2. subs[u].status = "none" /\ subs[u].left = 0 BY DEF Init
  <2>. QED BY <2>1, <2>2, FS_EmptySet DEF MonthsOK
<1>. QED BY <1>1, <1>2 DEF MonthsInv

\* UpsertActiveSubscription adds a month for each payment: as long as no month has passed and
\* nothing was cancelled, a user has one month left per credited order, also when several are
\* credited at the same time or delivered twice.
THEOREM MonthsAddUp == Spec => []PaidTimeAddsUp
<1>1. IInv /\ MonthsInv => PaidTimeAddsUp BY DEF MonthsInv, MonthsOK, PaidTimeAddsUp, Credited
<1>2. Spec => []MonthsInv
  <2>1. IInv /\ MonthsInv /\ [Next]_vars => MonthsInv' BY NextMonths
  <2>. QED BY <2>1, InitMonths, Invariance, PTL DEF Spec
<1>. QED BY <1>1, <1>2, Invariance, PTL
=============================================================================
