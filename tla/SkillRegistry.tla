--------------------------- MODULE SkillRegistry ----------------------------
(***************************************************************************)
(* What the catalog of markdown skills promises: a map from skill ids to   *)
(* checksums in which an installed skill is never replaced, only removed,  *)
(* and which may become unreadable, and then stays as it is.  Once         *)
(* commands have overlapped less is left of it: an edit may be of an       *)
(* earlier version and undo those made since, and an unreadable catalog    *)
(* may be written again.                                                   *)
(***************************************************************************)
CONSTANTS Ids, Checksums

VARIABLES
    entries,    \* the installed skills
    versions,   \* what they have been so far
    readable,   \* whether the catalog can be read
    overlapped  \* whether two commands ever ran at the same time

vars == <<entries, versions, readable, overlapped>>

Init == entries = <<>> /\ versions = {<<>>} /\ readable = TRUE /\ overlapped = FALSE

(* What an edit may be an edit of.                                         *)
Bases == IF overlapped THEN versions ELSE {entries}

Becomes(map) ==
    /\ readable /\ entries' = map /\ versions' = versions \cup {map}
    /\ UNCHANGED <<readable, overlapped>>

(* A skill with a new id is installed.                                     *)
Add(base, id, sum) ==
    /\ id \notin DOMAIN base
    /\ Becomes([i \in DOMAIN base \cup {id} |-> IF i = id THEN sum ELSE base[i]])

(* An installed skill is removed.                                          *)
Drop(base, id) ==
    /\ id \in DOMAIN base
    /\ Becomes([i \in DOMAIN base \ {id} |-> base[i]])

(* A command dies while it writes.                                         *)
Lose == readable /\ readable' = FALSE /\ UNCHANGED <<entries, versions, overlapped>>

(* A command that had read the catalog before it was lost writes it.       *)
Recover ==
    /\ overlapped /\ ~readable /\ readable' = TRUE
    /\ UNCHANGED <<entries, versions, overlapped>>

Overlap == ~overlapped /\ overlapped' = TRUE /\ UNCHANGED <<entries, versions, readable>>

Next ==
    \/ Lose \/ Recover \/ Overlap
    \/ \E base \in Bases, id \in Ids :
        Drop(base, id) \/ \E sum \in Checksums : Add(base, id, sum)

Spec == Init /\ [][Next]_vars
=============================================================================
