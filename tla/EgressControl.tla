---------------------------- MODULE EgressControl ---------------------------
(***************************************************************************)
(* What the daemon promises about content leaving it: every request is     *)
(* given one clearance, which never changes, and its content is released   *)
(* at most once, after that, to a place the clearance permits.             *)
(***************************************************************************)
CONSTANT Requests

VARIABLES
    clearance,  \* "unset", "local" (local providers only) or "any"
    released    \* the locations the request's content was released to

vars == <<clearance, released>>

TypeOK ==
    /\ clearance \in [Requests -> {"unset", "local", "any"}]
    /\ released \in [Requests -> SUBSET {"local", "remote"}]

Init ==
    /\ clearance = [r \in Requests |-> "unset"]
    /\ released = [r \in Requests |-> {}]

Clear(r) ==
    /\ clearance[r] = "unset"
    /\ \E c \in {"local", "any"} : clearance' = [clearance EXCEPT ![r] = c]
    /\ UNCHANGED released

Permitted(r) ==
    CASE clearance[r] = "any" -> {"local", "remote"}
      [] clearance[r] = "local" -> {"local"}
      [] OTHER -> {}

Release(r) ==
    /\ released[r] = {}
    /\ \E l \in Permitted(r) : released' = [released EXCEPT ![r] = {l}]
    /\ UNCHANGED clearance

Next == \E r \in Requests : Clear(r) \/ Release(r)

Spec == Init /\ [][Next]_vars

=============================================================================
