---------------------------- MODULE ServedCalls ----------------------------
(***************************************************************************)
(* What apiClient promises to the pages that call it: a call that was made *)
(* is answered exactly once, with data or with an error, unless the page   *)
(* that waits for it is gone.  Session.tla shows that the interceptors,    *)
(* the refresh and the queue implement this.                               *)
(***************************************************************************)
CONSTANT Call

VARIABLE status    \* status[c]: what the caller of c knows

Status == {"idle", "pending", "ok", "failed"}

Init == status = [c \in Call |-> "idle"]

\* A page makes a call, again or for the first time.
Make(c) == /\ status[c] # "pending"
           /\ status' = [status EXCEPT ![c] = "pending"]

\* Pending calls are answered; an error may reject several at once.
Answer(C) == /\ C # {}
             /\ \A c \in C : status[c] = "pending"
             /\ \E r \in {"ok", "failed"} :
                  status' = [c \in Call |-> IF c \in C THEN r ELSE status[c]]

\* The page that made the calls C is unloaded.
Unload(C) == status' = [c \in Call |-> IF c \in C THEN "idle" ELSE status[c]]

Next == \/ \E c \in Call : Make(c)
        \/ \E C \in SUBSET Call : Answer(C) \/ Unload(C)

Spec == Init /\ [][Next]_status

\* A call does not stay pending for ever.
Live == \A c \in Call : status[c] = "pending" ~> status[c] # "pending"
=============================================================================
