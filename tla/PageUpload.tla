------------------------------ MODULE PageUpload ------------------------------
(***************************************************************************)
(* What the chunked upload promises: a page image is stored in one piece,  *)
(* and only from all of its chunks; the job goes to the worker only when   *)
(* every page has its image; nothing that was received is forgotten.       *)
(***************************************************************************)
CONSTANTS Pages, Chunks

VARIABLES
    have,     \* the chunks of each page that the server holds, in whatever form
    image,    \* the image a page refers to: "none" or "whole"
    queued    \* whether the job was handed to the worker

vars == <<have, image, queued>>

Init ==
    /\ have = [p \in Pages |-> {}]
    /\ image = [p \in Pages |-> "none"]
    /\ queued = FALSE

Receive(p, c) ==
    /\ have' = [have EXCEPT ![p] = @ \cup {c}]
    /\ UNCHANGED <<image, queued>>

Compose(p) ==
    /\ have[p] = Chunks
    /\ image' = [image EXCEPT ![p] = "whole"]
    /\ UNCHANGED <<have, queued>>

Queue ==
    /\ \A p \in Pages : image[p] = "whole"
    /\ queued' = TRUE
    /\ UNCHANGED <<have, image>>

Next ==
    \/ \E p \in Pages, c \in Chunks : Receive(p, c)
    \/ \E p \in Pages : Compose(p)
    \/ Queue

Spec == Init /\ [][Next]_vars
===============================================================================
