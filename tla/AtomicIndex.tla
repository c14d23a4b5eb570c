----------------------------- MODULE AtomicIndex ------------------------------
(* What update_cas promises its callers: each update is applied to the tag at   *)
(* once and on top of whatever is there, at most one time, and an update that   *)
(* reports a conflict is not applied at all.                                    *)
CONSTANT Clients

VARIABLES contents, outcome

vars == <<contents, outcome>>

Init == contents = {} /\ outcome = [c \in Clients |-> "none"]

Apply(c) ==
  /\ outcome[c] = "none"
  /\ contents' = contents \cup {c}
  /\ outcome' \in {[outcome EXCEPT ![c] = "ok"], [outcome EXCEPT ![c] = "failed"]}

Fail(c) ==
  /\ outcome[c] = "none"
  /\ outcome' \in {[outcome EXCEPT ![c] = "conflict"], [outcome EXCEPT ![c] = "failed"]}
  /\ UNCHANGED contents

Clear == contents' = {} /\ UNCHANGED outcome

Next == Clear \/ \E c \in Clients : Apply(c) \/ Fail(c)

Spec == Init /\ [][Next]_vars
===============================================================================
