------------------------------ MODULE Mailbox ------------------------------
(* What a task thread promises to those who wake it up: the posts reach the  *)
(* task in the order they were made, never an older one after a newer one,   *)
(* and while the task is open none stays unseen. Several posts may be seen   *)
(* at once.                                                                  *)
EXTENDS Naturals

VARIABLES posts, seen, open
mailVars == <<posts, seen, open>>

Init == posts = 0 /\ seen = 0 /\ open = TRUE

Post == open /\ posts' = posts + 1 /\ UNCHANGED <<seen, open>>

\* The task sees everything up to some post that it has not seen yet.
See == \E n \in (seen + 1)..posts : seen' = n /\ UNCHANGED <<posts, open>>

Close == open /\ open' = FALSE /\ UNCHANGED <<posts, seen>>

Next == Post \/ See \/ Close
Spec == Init /\ [][Next]_mailVars /\ WF_mailVars(open /\ See)
=============================================================================
