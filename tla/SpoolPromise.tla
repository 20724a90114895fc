---------------------------- MODULE SpoolPromise ----------------------------
(* What the spool promises the calls that use it, and all that the modules   *)
(* about delivery and tasks assume of it: a queued operation stays pending   *)
(* until it is applied or set aside, in no particular order, and neither     *)
(* outcome is ever taken back.  (Applying twice is applying: at least once.) *)
EXTENDS FiniteSets

CONSTANT Calls

VARIABLE status

Init == status = [c \in Calls |-> "idle"]

Move(c, from, to) == status[c] = from /\ status' = [status EXCEPT ![c] = to]

Queue(c)    == Move(c, "idle", "pending")
Apply(c)    == Move(c, "pending", "applied")
SetAside(c) == Move(c, "pending", "setaside")

Next == \E c \in Calls : Queue(c) \/ Apply(c) \/ SetAside(c)

Spec == Init /\ [][Next]_status
=============================================================================
