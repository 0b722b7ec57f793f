---------------------------- MODULE SkillCatalog ----------------------------
(***************************************************************************)
(* The catalog of installed markdown skills (internal/agent): a JSON file  *)
(* and one managed copy per skill, edited by `rillan skill` commands that  *)
(* may be killed at any step and take no lock against one another.         *)
(*                                                                         *)
(* The content of a source stands for its checksum too.  A file that is    *)
(* being written is truncated first; killed there, a command leaves it     *)
(* empty or cut, which no reader can parse.  The id of a skill is derived  *)
(* from the heading of its source: two sources may share it.               *)
(***************************************************************************)
EXTENDS Naturals, FiniteSets

CONSTANTS
    Commands,   \* the install and remove commands that are run
    Ids,        \* skill ids
    Contents,   \* contents of skill files
    Enabled,    \* ids the current project enables
    MaxRunning, \* bound on the commands that run at the same time
    Cut,        \* a file truncated and not yet written
    Absent      \* no file

Maps == UNION {[S -> Contents] : S \in SUBSET Ids}

ASSUME SkillAssumption ==
    /\ Enabled \subseteq Ids
    /\ Ids # {} /\ Contents # {}
    /\ IsFiniteSet(Commands) /\ MaxRunning \in Nat
    /\ Cut \notin Contents \cup Maps \cup {Absent} /\ Absent \notin Contents

VARIABLES
    catalog,    \* Cut, or what catalog.json holds: a map from ids to contents
    copy,       \* the managed copy of each id
    command,    \* what each command does and the point it has reached
    last,       \* history: the catalog when it was last whole
    versions,   \* history: what it was whenever it was whole
    overlapped  \* history: whether two commands ever ran at the same time

history == <<last, versions, overlapped>>
vars == <<catalog, copy, command, history>>

Points == {"idle", "load", "copy", "copied", "save", "saving", "delete",
           "done", "failed", "killed"}

Unstarted == [pc |-> "idle", op |-> "none", id |-> CHOOSE i \in Ids : TRUE,
              content |-> Cut, next |-> <<>>]

Running == {c \in Commands : command[c].pc \notin {"idle", "done", "failed", "killed"}}

At(c, pc) == command[c].pc = pc
Go(c, pc) == command' = [command EXCEPT ![c].pc = pc]

(* No file yet is read as an empty catalog.                                *)
Init ==
    /\ catalog = <<>> /\ last = <<>> /\ versions = {<<>>} /\ overlapped = FALSE
    /\ copy = [id \in Ids |-> Absent]
    /\ command = [c \in Commands |-> Unstarted]

Start(c) ==
    /\ At(c, "idle") /\ Cardinality(Running) < MaxRunning
    /\ \E id \in Ids, content \in Contents, op \in {"install", "remove", "force"} :
        command' = [command EXCEPT ![c] =
                        [pc |-> "load", op |-> op, id |-> id, next |-> <<>>,
                         content |-> IF op = "install" THEN content ELSE Cut]]
    /\ overlapped' = (overlapped \/ Running # {})
    /\ UNCHANGED <<catalog, copy, last, versions>>

-----------------------------------------------------------------------------
(* LoadSkillCatalog: the maps it may return, none when it cannot parse.    *)

(* A loader that takes an unreadable catalog for a missing one.            *)
LoadedLeniently(file) == IF file = Cut THEN {<<>>} ELSE {file}

Loaded(file) == IF file = Cut THEN {} ELSE {file}

(* The first steps of InstallSkill and RemoveSkill: a command that cannot  *)
(* or need not go on ends here.  `next` is the catalog it will write.      *)

Plan(c, pc, map) == command' = [command EXCEPT ![c].pc = pc, ![c].next = map]

Install(c) ==
    /\ At(c, "load") /\ command[c].op = "install"
    /\ \E map \in Loaded(catalog) :
        /\ command[c].id \notin DOMAIN map
        /\ Plan(c, "copy", [id \in DOMAIN map \cup {command[c].id} |->
                    IF id = command[c].id THEN command[c].content ELSE map[id]])
    /\ UNCHANGED <<catalog, copy, history>>

(* The same content is already installed: the command reports the entry.   *)
AlreadyInstalled(c) ==
    /\ At(c, "load") /\ command[c].op = "install"
    /\ \E map \in Loaded(catalog) :
        /\ command[c].id \in DOMAIN map
        /\ map[command[c].id] = command[c].content
    /\ Go(c, "done")
    /\ UNCHANGED <<catalog, copy, history>>

(* A removal that deletes the copy before it saves the catalog.            *)
RemoveCopyFirst(c) ==
    /\ At(c, "load") /\ command[c].op \in {"remove", "force"}
    /\ command[c].op = "force" \/ command[c].id \notin Enabled
    /\ \E map \in Loaded(catalog) :
        /\ command[c].id \in DOMAIN map
        /\ Plan(c, "save", [i \in DOMAIN map \ {command[c].id} |-> map[i]])
    /\ copy' = [copy EXCEPT ![command[c].id] = Absent]
    /\ UNCHANGED <<catalog, history>>

Remove(c) ==
    /\ At(c, "load") /\ command[c].op \in {"remove", "force"}
    /\ command[c].op = "force" \/ command[c].id \notin Enabled
    /\ \E map \in Loaded(catalog) :
        /\ command[c].id \in DOMAIN map
        /\ Plan(c, "save", [i \in DOMAIN map \ {command[c].id} |-> map[i]])
    /\ UNCHANGED <<catalog, copy, history>>

(* An unreadable catalog, other content under the id, nothing to remove,   *)
(* or a skill the project enables.                                         *)
Refuse(c) ==
    /\ At(c, "load")
    /\ \/ Loaded(catalog) = {}
       \/ /\ command[c].op = "install"
          /\ \E map \in Loaded(catalog) :
                /\ command[c].id \in DOMAIN map
                /\ map[command[c].id] # command[c].content
       \/ /\ command[c].op # "install"
          /\ \E map \in Loaded(catalog) : command[c].id \notin DOMAIN map
       \/ command[c].op = "remove" /\ command[c].id \in Enabled
    /\ Go(c, "failed")
    /\ UNCHANGED <<catalog, copy, history>>

-----------------------------------------------------------------------------
(* os.WriteFile truncates a file and then writes it.  When another command *)
(* writes the same file in between, the longer text shows behind the       *)
(* shorter one; when it deletes it, the text goes nowhere.                 *)
CopyTruncate(c) ==
    /\ At(c, "copy") /\ Go(c, "copied")
    /\ copy' = [copy EXCEPT ![command[c].id] = Cut]
    /\ UNCHANGED <<catalog, history>>

CopyWrite(c) ==
    /\ At(c, "copied") /\ Go(c, "save")
    /\ LET id == command[c].id
       IN  \E file \in {command[c].content} \cup (IF overlapped THEN {Cut, copy[id]} ELSE {}) :
            copy' = [copy EXCEPT ![id] = file]
    /\ UNCHANGED <<catalog, history>>

(* SaveSkillCatalog, of catalog.json.                                      *)
SaveTruncate(c) ==
    /\ At(c, "save") /\ Go(c, "saving")
    /\ catalog' = Cut
    /\ UNCHANGED <<copy, history>>

SaveWrite(c) ==
    /\ At(c, "saving")
    /\ Go(c, IF command[c].op = "install" THEN "done" ELSE "delete")
    /\ \/ /\ catalog' = command[c].next /\ last' = catalog'
          /\ versions' = versions \cup {catalog'}
       \/ overlapped /\ catalog' = Cut /\ UNCHANGED <<last, versions>>
    /\ UNCHANGED <<copy, overlapped>>

DeleteCopy(c) ==
    /\ At(c, "delete") /\ Go(c, "done")
    /\ copy' = [copy EXCEPT ![command[c].id] = Absent]
    /\ UNCHANGED <<catalog, history>>

(* The process dies, or a write fails (a full disk): the rest is not done, *)
(* and what it was writing may be written in part.                         *)
Kill(c) ==
    /\ c \in Running
    /\ Go(c, "killed")
    /\ catalog' \in {catalog} \cup (IF At(c, "saving") THEN {Cut} ELSE {})
    /\ \E file \in {copy[command[c].id]} \cup (IF At(c, "copied") THEN {Cut} ELSE {}) :
        copy' = [copy EXCEPT ![command[c].id] = file]
    /\ UNCHANGED history

Step(c) ==
    \/ Start(c) \/ Install(c) \/ AlreadyInstalled(c) \/ Remove(c) \/ Refuse(c)
    \/ CopyTruncate(c) \/ CopyWrite(c) \/ SaveTruncate(c) \/ SaveWrite(c)
    \/ DeleteCopy(c) \/ Kill(c)

Next == \E c \in Commands : Step(c)

Spec == Init /\ [][Next]_vars

-----------------------------------------------------------------------------
TypeOK ==
    /\ catalog \in Maps \cup {Cut} /\ last \in Maps
    /\ versions \subseteq Maps /\ overlapped \in BOOLEAN
    /\ copy \in [Ids -> Contents \cup {Cut, Absent}]
    /\ command \in [Commands ->
         [pc : Points, op : {"none", "install", "remove", "force"}, id : Ids,
          content : Contents \cup {Cut}, next : Maps]]

(* Every installed skill has its managed copy, with the content the entry  *)
(* has the checksum of, whichever command died at whichever step: the copy *)
(* is written before the entry and deleted after it (InstallSkill,         *)
(* RemoveSkill), so that ListTools never fails on an entry.                *)
EntriesAreReadable ==
    catalog # Cut => \A id \in DOMAIN catalog : copy[id] = catalog[id]

(* A managed copy nobody lists is the work of a command that still runs or *)
(* that was killed: commands that end clean up, those that are refused     *)
(* leave nothing behind.                                                   *)
OrphansComeFromKills ==
    \A id \in Ids :
        copy[id] # Absent /\ id \notin DOMAIN last =>
            \E c \in Commands :
                /\ command[c].id = id
                /\ command[c].pc \in {"copy", "copied", "save", "saving", "delete", "killed"}

(* As long as commands run one after another the two files of a skill      *)
(* agree: no entry without its copy, and no copy without its entry but for *)
(* the commands above.  Commands that overlap may leave an entry without   *)
(* its copy: a removal deletes what an installation has just written.      *)
CopiesFollowEntries == ~overlapped => EntriesAreReadable /\ OrphansComeFromKills

(* Commands that run one after another keep the registry, whatever kills   *)
(* them: no installed skill is replaced or forgotten by the installation   *)
(* of another, and an unreadable catalog is never taken for an empty one.  *)
(* Where they overlap, each save is still one edit of a catalog there was. *)
Registry == INSTANCE SkillRegistry WITH
    entries <- last,
    readable <- catalog # Cut \/ \E c \in Commands : At(c, "saving"),
    versions <- versions, overlapped <- overlapped,
    Checksums <- Contents

KeepsRegistry == Registry!Spec
=============================================================================
