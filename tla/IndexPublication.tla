-------------------------- MODULE IndexPublication --------------------------
(***************************************************************************)
(* What the index promises to those that search it and to those that read  *)
(* its status: the work of one run replaces all there was, at once and     *)
(* whole; a run publishes at most once, succeeds only after it has, and    *)
(* fails only if it has not.  A run that dies says neither.                *)
(***************************************************************************)
EXTENDS Integers, Sequences

CONSTANTS Chunks, Dims, NoDims

VARIABLES
    index,      \* what a search sees
    stage       \* the stage of each run, by its number

vars == <<index, stage>>

Whole(chunks, dims, run) ==
    [chunks |-> chunks, vectors |-> chunks, dims |-> dims, run |-> run]

Init == index = Whole({}, NoDims, 0) /\ stage = <<>>

Move(i, from, to) ==
    /\ i \in DOMAIN stage /\ stage[i] \in from
    /\ stage' = [stage EXCEPT ![i] = to]

Start == stage' = Append(stage, "running") /\ UNCHANGED index

Publish(i) ==
    /\ Move(i, {"running"}, "published")
    /\ \E chunks \in SUBSET Chunks, dims \in Dims : index' = Whole(chunks, dims, i)

Succeed(i) == Move(i, {"published"}, "succeeded") /\ UNCHANGED index
Fail(i) == Move(i, {"running"}, "failed") /\ UNCHANGED index
Die(i) == Move(i, {"running", "published"}, "dead") /\ UNCHANGED index

Next == Start \/ \E i \in DOMAIN stage : Publish(i) \/ Succeed(i) \/ Fail(i) \/ Die(i)

Spec == Init /\ [][Next]_vars
=============================================================================
