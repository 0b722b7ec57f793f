---------------------------- MODULE MCAgentTasks ----------------------------
(***************************************************************************)
(* Model checking of AgentTasks: two tasks that use the same tool, in a    *)
(* directory one of two lists approves by name and the other by an alias.  *)
(***************************************************************************)
EXTENDS AgentTasks, TLC

CONSTANTS r1, r2, alias

MCRoots == {r1, r2}
MCAliases == {alias}
MCRootLists == {{r1}, {alias}}

Read(root) == [kind |-> "read_files", root |-> root, db |-> NoRoot]
Lookup(db) == [kind |-> "index_lookup", root |-> NoRoot, db |-> db]
Unknown == [kind |-> "unknown", root |-> NoRoot, db |-> NoRoot]
MCWorkloads == {<<Read(r1), Read(r1)>>, <<Unknown, Read(alias)>>,
                <<Lookup(alias), Read(r2)>>, <<Lookup(NoRoot), Read(NoRoot)>>}

(* Tasks are interchangeable.                                              *)
MCSymmetry == Permutations(Tasks)
=============================================================================
