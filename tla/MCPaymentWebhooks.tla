--------------------------- MODULE MCPaymentWebhooks ---------------------------
(* Small instances of PaymentWebhooks for TLC. *)
EXTENDS PaymentWebhooks

CONSTANTS u1, u2, o1, o2, p1, r1, r2

\* Both Razorpay orders belong to the same user, so that their months add up.
Owners == [o \in Orders |-> IF o = p1 THEN u2 ELSE u1]

NoFaults == [k \in FaultKinds |-> 0]
DeliveryFaults ==
    [NoFaults EXCEPT !["any"] = 2, !["attempt"] = 1, !["cancel"] = 1, !["other"] = 1,
                     !["fault"] = 1, !["notify"] = 1, !["duplicate"] = 1, !["month"] = 1]
OneFault == [NoFaults EXCEPT !["any"] = 1, !["fault"] = 1]
=============================================================================
