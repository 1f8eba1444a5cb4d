------------------------------- MODULE Registry -------------------------------
(***************************************************************************)
(* What the filter manager promises to its callers: the life of a name.  A *)
(* filter is created where there is none, dropped or cleared once, and its *)
(* name is free again only when the vacuum is done with it.  ConnHandler   *)
(* runs the commands over such a registry.                                 *)
(***************************************************************************)
CONSTANT Names

VARIABLES
  status,   \* [Names -> {"absent", "active", "doomed"}]
  open      \* the manager has not been destroyed

vars == <<status, open>>

Init == open = TRUE /\ status \in [Names -> {"absent", "active"}]

Move(n, from, to) ==
  /\ open /\ status[n] = from
  /\ status' = [status EXCEPT ![n] = to]
  /\ UNCHANGED open

Create(n) == Move(n, "absent", "active")
Retire(n) == Move(n, "active", "doomed")
Reclaim(n) == Move(n, "doomed", "absent")

Close == open /\ open' = FALSE /\ status' = [n \in Names |-> "absent"]

Next == Close \/ \E n \in Names : Create(n) \/ Retire(n) \/ Reclaim(n)

Spec == Init /\ [][Next]_vars
=============================================================================
