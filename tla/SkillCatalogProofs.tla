------------------------- MODULE SkillCatalogProofs -------------------------
(***************************************************************************)
(* Proofs about SkillCatalog, for any skills, contents and commands, any   *)
(* number of them at the same time: what TLC shows of a few is true of all,*)
(* and the catalog implements SkillRegistry.                               *)
(*                                                                         *)
(* Always, a catalog that can be read is the one that was last whole       *)
(* (Whole), and what a command will write is one edit of a version there   *)
(* was (Planned), of the last one as long as commands have not overlapped. *)
(* Until then a command is alone (Alone), what it has read is still there  *)
(* until it truncates the file (Unread), and the copies follow the entries *)
(* that were last whole (Copies): also while, or after, the file is cut.   *)
(***************************************************************************)
EXTENDS SkillCatalog, TLAPS

Ends == {"idle", "done", "failed", "killed"}

Alone == \A c, d \in Commands : ~(command[c].pc \in Ends) /\ ~(command[d].pc \in Ends) => c = d

Put(map, id, content) ==
    [i \in DOMAIN map \cup {id} |-> IF i = id THEN content ELSE map[i]]

Without(map, id) == [i \in DOMAIN map \ {id} |-> map[i]]

Whole == (catalog # Cut => catalog = last) /\ last \in versions

Unread ==
    /\ \A c \in Commands : command[c].pc \in {"copy", "copied", "save"} => catalog # Cut
    /\ \A c \in Commands : At(c, "saving") => catalog = Cut

Bases == IF overlapped THEN versions ELSE {last}

(* What a command will write, as an edit of a catalog.                     *)
EditOf(task, base) ==
    IF task.op = "install"
    THEN task.id \notin DOMAIN base /\ task.next = Put(base, task.id, task.content)
    ELSE task.id \in DOMAIN base /\ task.next = Without(base, task.id)

Planned ==
    \A c \in Commands :
        /\ command[c].op = "install" => command[c].content \in Contents
        /\ command[c].pc \in {"copy", "copied"} => command[c].op = "install"
        /\ command[c].pc = "delete" => command[c].op # "install"
        /\ command[c].pc \in {"copy", "copied", "save", "saving"} =>
            \E base \in Bases : EditOf(command[c], base)

Copies ==
    /\ \A id \in DOMAIN last : copy[id] = last[id]
    /\ \A c \in Commands :
        /\ command[c].pc \in {"save", "saving"} /\ command[c].op = "install"
                => copy[command[c].id] = command[c].content
        /\ At(c, "delete") => command[c].id \notin DOMAIN last

Orderly == Alone /\ Unread /\ Copies /\ OrphansComeFromKills

IInv == TypeOK /\ Whole /\ Planned /\ (~overlapped => Orderly)

-----------------------------------------------------------------------------
LEMMA MapsType ==
    ASSUME NEW map \in Maps, NEW id \in Ids, NEW content \in Contents
    PROVE  Put(map, id, content) \in Maps /\ Without(map, id) \in Maps
<1>1. PICK S \in SUBSET Ids : map \in [S -> Contents]
  BY DEF Maps
<1>2. Put(map, id, content) \in [S \cup {id} -> Contents] /\ S \cup {id} \in SUBSET Ids
  BY <1>1 DEF Put
<1>3. Without(map, id) \in [S \ {id} -> Contents] /\ S \ {id} \in SUBSET Ids
  BY <1>1 DEF Without
<1>4. QED
  BY <1>2, <1>3 DEF Maps

LEMMA EmptyMap == <<>> \in Maps /\ DOMAIN <<>> = {}
<1>1. <<>> \in [{} -> Contents]
  OBVIOUS
<1>2. QED
  BY <1>1 DEF Maps

LEMMA InitIInv == Init => IInv
<1> SUFFICES ASSUME Init PROVE IInv
  OBVIOUS
<1>1. (CHOOSE i \in Ids : TRUE) \in Ids
  BY SkillAssumption
<1>2. TypeOK
  BY <1>1, EmptyMap DEF Init, TypeOK, Unstarted, Points
<1>3. Alone /\ Unread /\ Whole
  BY DEF Init, Unstarted, Alone, Unread, Whole, Ends, At
<1>4. Planned
  BY DEF Init, Unstarted, Planned
<1>5. Copies /\ OrphansComeFromKills
  BY EmptyMap DEF Init, Unstarted, Copies, OrphansComeFromKills, At
<1>6. QED
  BY <1>2, <1>3, <1>4, <1>5 DEF IInv, Orderly

(* Where commands have not overlapped one starts when nobody runs.         *)
LEMMA StartsAlone ==
    ASSUME ~overlapped', NEW c \in Commands, Start(c)
    PROVE  \A d \in Commands : command[d].pc \in Ends
BY DEF Start, Running, Ends

(* What a command has read of the catalog.                                 *)
LEMMA LoadedIs ==
    ASSUME NEW map \in Loaded(catalog), Whole
    PROVE  map = catalog /\ catalog # Cut /\ map = last
BY DEF Loaded, Whole

(* A command that moves on keeps its task.                                 *)
Moved(c, pc, map) ==
    [pc |-> pc, op |-> command[c].op, id |-> command[c].id,
     content |-> command[c].content, next |-> map]

LEMMA PlanIs ==
    ASSUME TypeOK, NEW c \in Commands, NEW pc, NEW map, Plan(c, pc, map)
    PROVE  command' = [command EXCEPT ![c] = Moved(c, pc, map)]
<1> DEFINE Left == [command EXCEPT ![c].pc = pc, ![c].next = map]
           Right == [command EXCEPT ![c] = Moved(c, pc, map)]
<1>1. command[c] \in [pc : Points, op : {"none", "install", "remove", "force"}, id : Ids,
                      content : Contents \cup {Cut}, next : Maps]
  BY DEF TypeOK
<1>2. Left[c] = [[command[c] EXCEPT !.pc = pc] EXCEPT !.next = map]
  BY DEF TypeOK
<1>3. Left[c] = Right[c]
  BY <1>1, <1>2 DEF Moved, TypeOK
<1>4. \A d \in Commands : d # c => Left[d] = Right[d]
  BY DEF TypeOK
<1>5. Left = Right
  BY <1>3, <1>4 DEF TypeOK
<1>6. QED
  BY <1>5 DEF Plan

LEMMA StartIs ==
    ASSUME NEW c \in Commands, Start(c)
    PROVE  \E id \in Ids, content \in Contents \cup {Cut}, op \in {"install", "remove", "force"} :
                /\ op = "install" => content \in Contents
                /\ command' = [command EXCEPT ![c] = [pc |-> "load", op |-> op, id |-> id,
                                    next |-> <<>>, content |-> content]]
BY DEF Start

(* The catalog a command decides to write is what it read and one edit.    *)
LEMMA InstallIs ==
    ASSUME TypeOK, Whole, NEW c \in Commands, Install(c)
    PROVE  /\ command[c].pc = "load" /\ command[c].op = "install"
           /\ catalog # Cut /\ command[c].id \notin DOMAIN last
           /\ command' = [command EXCEPT ![c] =
                    Moved(c, "copy", Put(last, command[c].id, command[c].content))]
           /\ UNCHANGED <<catalog, copy, history>>
<1>1. /\ command[c].pc = "load" /\ command[c].op = "install"
      /\ catalog # Cut /\ command[c].id \notin DOMAIN last
      /\ Plan(c, "copy", Put(last, command[c].id, command[c].content))
      /\ UNCHANGED <<catalog, copy, history>>
  BY LoadedIs DEF Install, At, Put
<1>2. QED
  BY <1>1, PlanIs

LEMMA RemoveIs ==
    ASSUME TypeOK, Whole, NEW c \in Commands, Remove(c)
    PROVE  /\ command[c].pc = "load" /\ command[c].op # "install"
           /\ catalog # Cut /\ command[c].id \in DOMAIN last
           /\ command' = [command EXCEPT ![c] =
                    Moved(c, "save", Without(last, command[c].id))]
           /\ UNCHANGED <<catalog, copy, history>>
<1>1. /\ command[c].pc = "load" /\ command[c].op # "install"
      /\ catalog # Cut /\ command[c].id \in DOMAIN last
      /\ Plan(c, "save", Without(last, command[c].id))
      /\ UNCHANGED <<catalog, copy, history>>
  BY LoadedIs DEF Remove, At, Without
<1>2. QED
  BY <1>1, PlanIs

LEMMA TypeStays ==
    ASSUME TypeOK, Whole, Planned, Next PROVE TypeOK'
<1> USE DEF TypeOK, Points, history
<1>1. ASSUME NEW c \in Commands, Start(c) PROVE TypeOK'
  BY <1>1, StartIs, EmptyMap DEF Start
<1>2. ASSUME NEW c \in Commands, Install(c) PROVE TypeOK'
  <2>1. Put(last, command[c].id, command[c].content) \in Maps
    BY <1>2, InstallIs, MapsType DEF Planned
  <2>2. QED
    BY <1>2, <2>1, InstallIs DEF Moved
<1>3. ASSUME NEW c \in Commands, Remove(c) PROVE TypeOK'
  <2>1. Without(last, command[c].id) \in Maps
    BY SkillAssumption, MapsType
  <2>2. QED
    BY <1>3, <2>1, RemoveIs DEF Moved
<1>4. ASSUME NEW c \in Commands, AlreadyInstalled(c) \/ Refuse(c) PROVE TypeOK'
  BY <1>4 DEF AlreadyInstalled, Refuse, Go
<1>5. ASSUME NEW c \in Commands, CopyTruncate(c) \/ DeleteCopy(c) PROVE TypeOK'
  BY <1>5 DEF CopyTruncate, DeleteCopy, Go
<1>6. ASSUME NEW c \in Commands, SaveTruncate(c) \/ SaveWrite(c) PROVE TypeOK'
  BY <1>6 DEF SaveTruncate, SaveWrite, Go
<1>7. ASSUME NEW c \in Commands, CopyWrite(c) PROVE TypeOK'
  <2>1. PICK file : copy' = [copy EXCEPT ![command[c].id] = file]
                    /\ file \in {command[c].content} \cup (IF overlapped THEN {Cut, copy[command[c].id]}
                                                          ELSE {})
    BY <1>7 DEF CopyWrite
  <2>2. file \in Contents \cup {Cut, Absent}
    BY <2>1
  <2>3. QED
    BY <1>7, <2>1, <2>2 DEF CopyWrite, Go
<1>8. ASSUME NEW c \in Commands, Kill(c) PROVE TypeOK'
  <2>1. PICK file : copy' = [copy EXCEPT ![command[c].id] = file]
                    /\ file \in {copy[command[c].id]} \cup (IF At(c, "copied") THEN {Cut} ELSE {})
    BY <1>8 DEF Kill
  <2>2. file \in Contents \cup {Cut, Absent}
    BY <2>1
  <2>3. catalog' \in Maps \cup {Cut}
    BY <1>8 DEF Kill
  <2>4. QED
    BY <1>8, <2>1, <2>2, <2>3 DEF Kill, Go
<1>9. QED
  BY <1>1, <1>2, <1>3, <1>4, <1>5, <1>6, <1>7, <1>8 DEF Next, Step

(* What is read is always what was last whole.                             *)
LEMMA WholeStays ==
    ASSUME TypeOK, Whole, Next PROVE Whole'
<1> USE DEF Whole
<1>1. ASSUME NEW c \in Commands, SaveWrite(c) PROVE Whole'
  BY <1>1 DEF SaveWrite
<1>2. ASSUME NEW c \in Commands, Kill(c) \/ SaveTruncate(c) PROVE Whole'
  BY <1>2 DEF Kill, SaveTruncate, history
<1>3. ASSUME NEW c \in Commands,
             \/ Start(c) \/ Install(c) \/ AlreadyInstalled(c) \/ Remove(c) \/ Refuse(c)
             \/ CopyTruncate(c) \/ CopyWrite(c) \/ DeleteCopy(c)
      PROVE  UNCHANGED <<catalog, last, versions>>
  BY <1>3 DEF Start, Install, AlreadyInstalled, Remove, Refuse, CopyTruncate, CopyWrite,
     DeleteCopy, history
<1>4. QED
  BY <1>1, <1>2, <1>3 DEF Next, Step

(* Once commands have overlapped they have.                                *)
LEMMA OverlappedStays ==
    ASSUME Next PROVE overlapped => overlapped'
BY DEF Next, Step, Start, Install, AlreadyInstalled, Remove, Refuse, CopyTruncate, CopyWrite,
   SaveTruncate, SaveWrite, DeleteCopy, Kill, history

(* Only Start makes a command run.                                         *)
LEMMA AloneStays ==
    ASSUME ~overlapped', TypeOK, Whole, Alone, Next PROVE Alone'
<1>1. ASSUME NEW c \in Commands, Start(c) PROVE Alone'
  <2>1. \A d \in Commands : d # c => command'[d] = command[d] /\ command[d].pc \in Ends
    BY <1>1, StartsAlone DEF Start, TypeOK
  <2>2. QED
    BY <2>1 DEF Alone
<1>2. ASSUME NEW c \in Commands, ~(command[c].pc \in Ends),
             \A d \in Commands : d # c => command'[d] = command[d]
      PROVE  Alone'
  BY <1>2 DEF Alone
<1>3. ASSUME NEW c \in Commands, Install(c) PROVE Alone'
  BY <1>2, <1>3, InstallIs DEF TypeOK, Ends
<1>4. ASSUME NEW c \in Commands, Remove(c) PROVE Alone'
  BY <1>2, <1>4, RemoveIs DEF TypeOK, Ends
<1>5. ASSUME NEW c \in Commands,
             \/ AlreadyInstalled(c) \/ Refuse(c) \/ Kill(c) \/ CopyTruncate(c)
             \/ CopyWrite(c) \/ SaveTruncate(c) \/ SaveWrite(c) \/ DeleteCopy(c)
      PROVE  Alone'
  BY <1>2, <1>5 DEF AlreadyInstalled, Refuse, Kill, CopyTruncate, CopyWrite, SaveTruncate,
     SaveWrite, DeleteCopy, Running, At, Go, TypeOK, Ends
<1>6. QED
  BY <1>1, <1>3, <1>4, <1>5 DEF Next, Step

(* The file is cut only by the command that then writes it.                *)
LEMMA UnreadStays ==
    ASSUME ~overlapped', TypeOK, TypeOK', Whole, Alone, Unread, Next PROVE Unread'
<1> USE DEF Unread, At
<1>1. ASSUME NEW c \in Commands, Start(c) PROVE Unread'
  BY <1>1, StartIs DEF Start, TypeOK
<1>2. ASSUME NEW c \in Commands, Install(c) PROVE Unread'
  BY <1>2, InstallIs DEF TypeOK, Moved
<1>3. ASSUME NEW c \in Commands, Remove(c) PROVE Unread'
  BY <1>3, RemoveIs DEF TypeOK, Moved
<1>4. ASSUME NEW c \in Commands, AlreadyInstalled(c) \/ Refuse(c) \/ Kill(c) PROVE Unread'
  BY <1>4 DEF AlreadyInstalled, Refuse, Kill, Go, TypeOK
<1>5. ASSUME NEW c \in Commands, CopyTruncate(c) \/ CopyWrite(c) \/ DeleteCopy(c) PROVE Unread'
  BY <1>5, SMTT(30) DEF CopyTruncate, CopyWrite, DeleteCopy, Go, TypeOK
<1>6. ASSUME NEW c \in Commands, SaveTruncate(c) PROVE Unread'
  BY <1>6 DEF SaveTruncate, Go, TypeOK, Alone, Ends
<1>7. ASSUME NEW c \in Commands, SaveWrite(c) PROVE Unread'
  BY <1>7 DEF SaveWrite, Go, TypeOK, Alone, Ends
<1>8. QED
  BY <1>1, <1>2, <1>3, <1>4, <1>5, <1>6, <1>7 DEF Next, Step

(* A plan stays an edit of a version: versions are kept, and while nobody  *)
(* else runs the last one stays the last.                                  *)
LEMMA PlannedStays ==
    ASSUME TypeOK, Whole, Planned, ~overlapped => Alone, Next PROVE Planned'
<1> DEFINE Saves(task) == task.pc \in {"copy", "copied", "save", "saving"}
           Plans(task) == Saves(task) => \E base \in Bases : EditOf(task, base)
           Fits(task) == /\ task.op = "install" => task.content \in Contents
                         /\ task.pc \in {"copy", "copied"} => task.op = "install"
                         /\ task.pc = "delete" => task.op # "install"
<1>1. ASSUME \A d \in Commands : Fits(command'[d]),
             \A d \in Commands : Saves(command'[d]) =>
                \E base \in Bases' : EditOf(command'[d], base)
      PROVE  Planned'
  BY <1>1 DEF Planned, EditOf
<1>2. \A d \in Commands : Fits(command[d]) /\ Plans(command[d])
  BY DEF Planned
<1>3. ASSUME NEW c \in Commands, Start(c) PROVE Planned'
  <2>1. \A d \in Commands : d # c => command'[d] = command[d]
    BY <1>3, StartIs DEF TypeOK
  <2>2. command'[c].pc = "load" /\ (command'[c].op = "install" => command'[c].content \in Contents)
    BY <1>3, StartIs DEF TypeOK
  <2>3. Bases \subseteq Bases'
    BY <1>3 DEF Start, Bases, Whole
  <2>4. QED
    BY <1>1, <1>2, <2>1, <2>2, <2>3
<1>4. ASSUME NEW c \in Commands, UNCHANGED history,
             \A d \in Commands \ {c} : command'[d] = command[d],
             Fits(command'[c]), Saves(command'[c]) => \E base \in Bases : EditOf(command'[c], base)
      PROVE  Planned'
  <2>1. Bases' = Bases
    BY <1>4 DEF history, Bases
  <2>2. QED
    BY <1>1, <1>2, <1>4, <2>1
<1>5. last \in Bases
  BY DEF Bases, Whole
<1>6. ASSUME NEW c \in Commands, Install(c) PROVE Planned'
  <2>1. /\ command[c].op = "install" /\ command[c].id \notin DOMAIN last
        /\ command'[c] = Moved(c, "copy", Put(last, command[c].id, command[c].content))
        /\ \A d \in Commands \ {c} : command'[d] = command[d]
        /\ UNCHANGED history
    BY <1>6, InstallIs DEF TypeOK
  <2>2. EditOf(command'[c], last) /\ Fits(command'[c])
    BY <1>2, <2>1 DEF EditOf, Moved
  <2>3. QED
    BY <1>4, <1>5, <2>1, <2>2
<1>7. ASSUME NEW c \in Commands, Remove(c) PROVE Planned'
  <2>1. /\ command[c].op # "install" /\ command[c].id \in DOMAIN last
        /\ command'[c] = Moved(c, "save", Without(last, command[c].id))
        /\ \A d \in Commands \ {c} : command'[d] = command[d]
        /\ UNCHANGED history
    BY <1>7, RemoveIs DEF TypeOK
  <2>2. EditOf(command'[c], last) /\ Fits(command'[c])
    BY <2>1 DEF EditOf, Moved
  <2>3. QED
    BY <1>4, <1>5, <2>1, <2>2
<1>8. ASSUME NEW c \in Commands,
             \/ AlreadyInstalled(c) \/ Refuse(c) \/ Kill(c) \/ CopyTruncate(c)
             \/ CopyWrite(c) \/ SaveTruncate(c) \/ DeleteCopy(c)
      PROVE  Planned'
  <2>1. UNCHANGED history /\ \A d \in Commands \ {c} : command'[d] = command[d]
    BY <1>8 DEF AlreadyInstalled, Refuse, Kill, CopyTruncate, CopyWrite, SaveTruncate, DeleteCopy,
       Go, TypeOK
  <2>2. /\ command'[c].op = command[c].op /\ command'[c].content = command[c].content
        /\ command'[c].id = command[c].id /\ command'[c].next = command[c].next
        /\ \/ command'[c].pc \in {"done", "failed", "killed"}
           \/ command[c].pc = "copy" /\ command'[c].pc = "copied"
           \/ command[c].pc = "copied" /\ command'[c].pc = "save"
           \/ command[c].pc = "save" /\ command'[c].pc = "saving"
    BY <1>8, SMTT(30) DEF AlreadyInstalled, Refuse, Kill, CopyTruncate, CopyWrite, SaveTruncate, DeleteCopy,
       Go, At, TypeOK
  <2>3. Fits(command'[c])
    BY <1>2, <2>2
  <2>4. ASSUME Saves(command'[c]) PROVE \E base \in Bases : EditOf(command'[c], base)
    <3>1. PICK base \in Bases : EditOf(command[c], base)
      BY <1>2, <2>2, <2>4
    <3>2. EditOf(command'[c], base)
      BY <2>2, <3>1 DEF EditOf
    <3>3. QED
      BY <3>2
  <2>5. QED
    BY <1>4, <2>1, <2>3, <2>4
<1>9. ASSUME NEW c \in Commands, SaveWrite(c) PROVE Planned'
  <2>1. /\ \A d \in Commands \ {c} : command'[d] = command[d]
        /\ command[c].pc = "saving" /\ command'[c].op = command[c].op
        /\ command'[c].content = command[c].content
        /\ command'[c].pc = IF command[c].op = "install" THEN "done" ELSE "delete"
    BY <1>9 DEF SaveWrite, At, Go, TypeOK
  <2>2. Fits(command'[c]) /\ ~Saves(command'[c])
    BY <1>2, <2>1
  <2>3. ASSUME NEW d \in Commands \ {c}, Saves(command[d])
        PROVE  \E base \in Bases' : EditOf(command[d], base)
    <3>1. overlapped
      BY <2>1, <2>3 DEF Alone, Ends
    <3>2. versions \subseteq versions' /\ overlapped' = overlapped
      BY <1>9 DEF SaveWrite
    <3>3. Bases \subseteq Bases'
      BY <3>1, <3>2 DEF Bases
    <3>4. PICK base \in Bases : EditOf(command[d], base)
      BY <1>2, <2>3
    <3>5. QED
      BY <3>3, <3>4
  <2>4. QED
    BY <1>1, <1>2, <2>1, <2>2, <2>3
<1>10. QED
  BY <1>3, <1>6, <1>7, <1>8, <1>9 DEF Next, Step

(* What a save leaves of commands that have not overlapped: the planned    *)
(* catalog, whole.                                                         *)
LEMMA SaveIs ==
    ASSUME ~overlapped, TypeOK, Alone, Unread, NEW c \in Commands, SaveWrite(c)
    PROVE  /\ command[c].pc = "saving" /\ catalog = Cut
           /\ catalog' = command[c].next /\ last' = command[c].next
           /\ catalog' # Cut /\ copy' = copy
           /\ \A d \in Commands : d # c => command'[d] = command[d] /\ command[d].pc \in Ends
           /\ command'[c].op = command[c].op /\ command'[c].id = command[c].id
           /\ command'[c].pc = IF command[c].op = "install" THEN "done" ELSE "delete"
<1>1. command[c].pc = "saving" /\ catalog = Cut
  BY DEF SaveWrite, Unread, At
<1>2. \A d \in Commands : d # c => command'[d] = command[d] /\ command[d].pc \in Ends
  BY <1>1 DEF SaveWrite, Go, TypeOK, Alone, Ends
<1>3. command[c].next # Cut
  BY SkillAssumption DEF TypeOK
<1>4. catalog' = command[c].next /\ last' = command[c].next /\ copy' = copy
  BY DEF SaveWrite
<1>5. /\ command'[c].op = command[c].op /\ command'[c].id = command[c].id
      /\ command'[c].pc = IF command[c].op = "install" THEN "done" ELSE "delete"
  BY DEF SaveWrite, Go, TypeOK
<1>6. QED
  BY <1>1, <1>2, <1>3, <1>4, <1>5

(* The checksum of an entry is that of its copy: an installation writes the*)
(* copy before the entry, a removal deletes it after.                      *)
LEMMA CopiesStay ==
    ASSUME ~overlapped, ~overlapped', TypeOK, Whole, Alone, Unread, Planned, Copies, Next
    PROVE  Copies'
<1> USE DEF Copies, At, history
<1>0. ASSUME NEW d \in Commands, command[d].pc \in {"copy", "copied", "save", "saving"}
      PROVE  EditOf(command[d], last)
  BY <1>0 DEF Planned, Bases
<1>1. ASSUME NEW c \in Commands, Start(c) PROVE Copies'
  <2>1. \A d \in Commands : d # c => command'[d] = command[d]
    BY <1>1, StartIs DEF TypeOK
  <2>2. command'[c].pc = "load" /\ UNCHANGED <<copy, last>>
    BY <1>1, StartIs DEF Start, TypeOK
  <2>3. QED
    BY <2>1, <2>2
<1>2. ASSUME NEW c \in Commands, Install(c) PROVE Copies'
  BY <1>2, InstallIs DEF TypeOK, Moved
<1>3. ASSUME NEW c \in Commands, Remove(c) PROVE Copies'
  BY <1>3, RemoveIs DEF TypeOK, Moved
<1>4. ASSUME NEW c \in Commands, AlreadyInstalled(c) \/ Refuse(c) PROVE Copies'
  BY <1>4 DEF AlreadyInstalled, Refuse, Go, TypeOK
<1>5. ASSUME NEW c \in Commands, Kill(c) PROVE Copies'
  <2>1. \A d \in Commands : d # c => command'[d] = command[d]
    BY <1>5 DEF Kill, Go, TypeOK
  <2>2. command'[c].pc = "killed" /\ last' = last
    BY <1>5 DEF Kill, Go, TypeOK
  <2>3. \A d \in Commands : d # c => command[d].pc \in Ends
    BY <1>5 DEF Kill, Running, Alone, Ends
  <2>4. \A id \in Ids : id # command[c].id => copy'[id] = copy[id]
    BY <1>5 DEF Kill, TypeOK
  <2>5. CASE command[c].pc = "copied"
    <3>1. command[c].id \notin DOMAIN last
      BY <1>0, <2>5 DEF EditOf, Planned
    <3>2. DOMAIN last \subseteq Ids
      BY DEF TypeOK, Maps
    <3>3. QED
      BY <2>1, <2>2, <2>3, <2>4, <3>1, <3>2 DEF Ends
  <2>6. CASE command[c].pc # "copied"
    <3>1. copy' = copy
      BY <1>5, <2>6 DEF Kill, TypeOK
    <3>2. QED
      BY <2>1, <2>2, <2>3, <3>1 DEF Ends
  <2>7. QED
    BY <2>5, <2>6
<1>6. ASSUME NEW c \in Commands, CopyTruncate(c) \/ CopyWrite(c) \/ DeleteCopy(c) PROVE Copies'
  <2>1. \A d \in Commands : d # c => command'[d] = command[d] /\ command[d].pc \in Ends
    BY <1>6 DEF CopyTruncate, CopyWrite, DeleteCopy, Go, TypeOK, Alone, Ends
  <2>2. command[c].id \notin DOMAIN last
    BY <1>0, <1>6 DEF CopyTruncate, CopyWrite, DeleteCopy, Planned, EditOf
  <2>3. last' = last /\ \A id \in Ids : id # command[c].id => copy'[id] = copy[id]
    BY <1>6 DEF CopyTruncate, CopyWrite, DeleteCopy, TypeOK
  <2>4. DOMAIN last \subseteq Ids
    BY DEF TypeOK, Maps
  <2>5. \A id \in DOMAIN last' : copy'[id] = last'[id]
    BY <2>2, <2>3, <2>4
  <2>6. /\ command'[c].pc = "save" => copy'[command'[c].id] = command'[c].content
        /\ command'[c].pc \in {"copied", "save", "done"}
    BY <1>6 DEF CopyTruncate, CopyWrite, DeleteCopy, Go, TypeOK
  <2>7. QED
    BY <2>1, <2>5, <2>6 DEF Ends
<1>7. ASSUME NEW c \in Commands, SaveTruncate(c) PROVE Copies'
  BY <1>7 DEF SaveTruncate, Go, TypeOK
<1>8. ASSUME NEW c \in Commands, SaveWrite(c) PROVE Copies'
  <2>1. \A id \in DOMAIN last' : copy'[id] = last'[id]
    <3>1. copy' = copy /\ last' = command[c].next /\ command[c].pc = "saving"
      BY <1>8, SaveIs
    <3>2. CASE command[c].op = "install"
      <4>1. last' = Put(last, command[c].id, command[c].content)
        BY <1>0, <1>8, <3>1, <3>2, SaveIs DEF EditOf
      <4>2. copy[command[c].id] = command[c].content
        BY <3>1, <3>2
      <4>3. QED
        BY <3>1, <4>1, <4>2 DEF Put
    <3>3. CASE command[c].op # "install"
      <4>1. last' = Without(last, command[c].id)
        BY <1>0, <1>8, <3>1, <3>3, SaveIs DEF EditOf
      <4>2. QED
        BY <3>1, <4>1 DEF Without
    <3>4. QED
      BY <3>2, <3>3
  <2>2. command'[c].pc = "delete" => command'[c].id \notin DOMAIN last'
    <3>1. EditOf(command[c], last) /\ last' = command[c].next /\ command'[c].id = command[c].id
      BY <1>0, <1>8, SaveIs
    <3>2. command'[c].pc = "delete" => command[c].op # "install"
      BY <1>8, SaveIs
    <3>3. QED
      BY <3>1, <3>2 DEF EditOf, Without
  <2>3. QED
    BY <1>8, <2>1, <2>2, SaveIs DEF Ends
<1>9. QED
  BY <1>1, <1>2, <1>3, <1>4, <1>6, <1>7, <1>8, <1>5 DEF Next, Step

LEMMA OrphansStay ==
    ASSUME ~overlapped, ~overlapped', TypeOK, Whole, Alone, Unread, Planned, OrphansComeFromKills, Next
    PROVE  OrphansComeFromKills'
<1> USE DEF history
<1> DEFINE Late == {"copy", "copied", "save", "saving", "delete", "killed"}
           By(d, id) == command[d].id = id /\ command[d].pc \in Late
<1>1. ASSUME UNCHANGED <<copy, last>>,
             \A d \in Commands : command[d].pc \in Late =>
                command'[d].pc \in Late /\ command'[d].id = command[d].id
      PROVE  OrphansComeFromKills'
  BY <1>1 DEF OrphansComeFromKills
<1>2. ASSUME NEW c \in Commands, Start(c) PROVE OrphansComeFromKills'
  <2>1. \A d \in Commands : d # c => command'[d] = command[d]
    BY <1>2, StartIs DEF TypeOK
  <2>2. QED
    BY <1>1, <1>2, <2>1 DEF Start, At
<1>3. ASSUME NEW c \in Commands, Install(c) PROVE OrphansComeFromKills'
  BY <1>1, <1>3, InstallIs DEF TypeOK, Moved
<1>4. ASSUME NEW c \in Commands, Remove(c) PROVE OrphansComeFromKills'
  BY <1>1, <1>4, RemoveIs DEF TypeOK, Moved
<1>5. ASSUME NEW c \in Commands,
             AlreadyInstalled(c) \/ Refuse(c) \/ SaveTruncate(c)
      PROVE  OrphansComeFromKills'
  BY <1>1, <1>5 DEF AlreadyInstalled, Refuse, SaveTruncate, At, Go, TypeOK
<1>6. ASSUME NEW c \in Commands, Kill(c) PROVE OrphansComeFromKills'
  <2>1. /\ last' = last /\ command'[c].pc \in Late /\ command'[c].id = command[c].id
        /\ \A d \in Commands \ {c} : command'[d] = command[d]
    BY <1>6 DEF Kill, Go, TypeOK
  <2>2. \A id \in Ids : id # command[c].id => copy'[id] = copy[id]
    BY <1>6 DEF Kill, TypeOK
  <2>3. command[c].id \in Ids /\ (command[c].pc # "copied" => copy' = copy)
    BY <1>6 DEF Kill, TypeOK, At
  <2>4. ASSUME NEW id \in Ids, copy'[id] # Absent, id \notin DOMAIN last'
        PROVE  \E d \in Commands : By(d, id)'
    <3>1. CASE id = command[c].id
      BY <2>1, <3>1
    <3>2. CASE id # command[c].id
      <4>1. PICK d \in Commands : By(d, id)
        BY <2>1, <2>2, <2>4, <3>2 DEF OrphansComeFromKills
      <4>2. QED
        BY <2>1, <4>1
    <3>3. QED
      BY <3>1, <3>2
  <2>5. QED
    BY <2>4 DEF OrphansComeFromKills
<1>7. ASSUME NEW c \in Commands, CopyTruncate(c) \/ CopyWrite(c) PROVE OrphansComeFromKills'
  <2>1. \A d \in Commands : command[d].pc \in Late =>
            command'[d].pc \in Late /\ command'[d].id = command[d].id
    BY <1>7 DEF CopyTruncate, CopyWrite, Go, TypeOK
  <2>2. command'[c].pc \in Late /\ command'[c].id = command[c].id
    BY <1>7 DEF CopyTruncate, CopyWrite, Go, TypeOK
  <2>3. last' = last /\ \A id \in Ids : id # command[c].id => copy'[id] = copy[id]
    BY <1>7 DEF CopyTruncate, CopyWrite, TypeOK
  <2>4. ASSUME NEW id \in Ids, copy'[id] # Absent, id \notin DOMAIN last'
        PROVE  \E d \in Commands : By(d, id)'
    <3>1. CASE id = command[c].id
      BY <2>2, <3>1
    <3>2. CASE id # command[c].id
      <4>1. PICK d \in Commands : By(d, id)
        BY <2>3, <2>4, <3>2 DEF OrphansComeFromKills
      <4>2. QED
        BY <2>1, <4>1
    <3>3. QED
      BY <3>1, <3>2
  <2>5. QED
    BY <2>4 DEF OrphansComeFromKills
<1>8. ASSUME NEW c \in Commands, SaveWrite(c) PROVE OrphansComeFromKills'
  <2>1. copy' = copy /\ \A d \in Commands \ {c} : command'[d] = command[d]
    BY <1>8, SaveIs
  <2>2. CASE command[c].op = "install"
    <3>1. DOMAIN last' = DOMAIN last \cup {command[c].id}
      BY <1>8, <2>2, SaveIs DEF Planned, Bases, EditOf, Put
    <3>2. QED
      BY <2>1, <3>1 DEF OrphansComeFromKills
  <2>3. CASE command[c].op # "install"
    <3>1. DOMAIN last' = DOMAIN last \ {command[c].id}
      BY <1>8, <2>3, SaveIs DEF Planned, Bases, EditOf, Without
    <3>2. command'[c].id = command[c].id /\ command'[c].pc = "delete"
      BY <1>8, <2>3, SaveIs
    <3>3. QED
      BY <2>1, <3>1, <3>2 DEF OrphansComeFromKills
  <2>4. QED
    BY <2>2, <2>3
<1>9. ASSUME NEW c \in Commands, DeleteCopy(c) PROVE OrphansComeFromKills'
  <2>1. /\ \A d \in Commands \ {c} : command'[d] = command[d]
        /\ last' = last /\ copy'[command[c].id] = Absent
        /\ \A id \in Ids : id # command[c].id => copy'[id] = copy[id]
    BY <1>9 DEF DeleteCopy, Go, TypeOK
  <2>2. QED
    BY <2>1 DEF OrphansComeFromKills
<1>10. QED
  BY <1>2, <1>3, <1>4, <1>5, <1>7, <1>8, <1>9, <1>6 DEF Next, Step

-----------------------------------------------------------------------------
(* The inductive invariant holds throughout.                               *)
THEOREM Invariance == Spec => []IInv
<1>1. Init => IInv
  BY InitIInv
<1>2. IInv /\ [Next]_vars => IInv'
  <2> SUFFICES ASSUME IInv, [Next]_vars PROVE IInv'
    OBVIOUS
  <2>1. CASE Next
    <3>1. TypeOK' /\ Whole' /\ Planned'
      BY <2>1, TypeStays, WholeStays, PlannedStays DEF IInv, Orderly
    <3>2. ASSUME ~overlapped' PROVE Orderly'
      <4>1. ~overlapped /\ Orderly
        BY <2>1, <3>2, OverlappedStays DEF IInv
      <4>2. Alone' /\ Unread'
        BY <2>1, <3>1, <3>2, <4>1, AloneStays, UnreadStays DEF IInv, Orderly
      <4>3. Copies' /\ OrphansComeFromKills'
        BY <2>1, <3>2, <4>1, CopiesStay, OrphansStay DEF IInv, Orderly
      <4>4. QED
        BY <4>2, <4>3 DEF Orderly
    <3>3. QED
      BY <3>1, <3>2 DEF IInv
  <2>2. CASE UNCHANGED vars
    <3>1. UNCHANGED <<catalog, copy, command, last, versions, overlapped>>
      BY <2>2 DEF vars, history
    <3>2. TypeOK' /\ Whole' /\ Planned'
      BY <3>1 DEF IInv, TypeOK, Whole, Planned, Bases
    <3>3. Orderly => Orderly'
      BY <3>1 DEF Orderly, Alone, Unread, Copies, OrphansComeFromKills, At
    <3>4. QED
      BY <3>1, <3>2, <3>3 DEF IInv
  <2>3. QED
    BY <2>1, <2>2
<1>3. QED
  BY <1>1, <1>2, PTL DEF Spec

(* The types, of the catalog and of what is planned for it, hold whatever  *)
(* commands run at the same time and are killed at any step.               *)
THEOREM TypeCorrect == Spec => []TypeOK
<1>1. IInv => TypeOK
  BY DEF IInv
<1>2. QED
  BY <1>1, Invariance, PTL

(* As long as no two commands have overlapped, every installed skill has   *)
(* its managed copy, and a copy without an entry is left by a command that *)
(* was killed or still runs.                                               *)
THEOREM CopiesTheorem == Spec => []CopiesFollowEntries
<1>1. IInv => CopiesFollowEntries
  BY DEF IInv, Orderly, Whole, Copies, CopiesFollowEntries, EntriesAreReadable
<1>2. QED
  BY <1>1, Invariance, PTL

(* A step of a command adds or removes one skill, loses the catalog, or is *)
(* no step of the registry; that of one that overlaps may bring it back.   *)
LEMMA RegistryStep ==
    ASSUME IInv, [Next]_vars PROVE [Registry!Next]_(Registry!vars)
<1> DEFINE Readable == catalog # Cut \/ \E d \in Commands : At(d, "saving")
<1> USE DEF IInv
<1>0. Bases = Registry!Bases
  BY DEF Bases, Registry!Bases
<1>1. ASSUME UNCHANGED history, Readable' = Readable PROVE [Registry!Next]_(Registry!vars)
  BY <1>1 DEF Registry!vars, history
<1>2. ASSUME UNCHANGED history, Readable, ~Readable' PROVE [Registry!Next]_(Registry!vars)
  BY <1>2 DEF Registry!Lose, Registry!Next, history
<1>3. ASSUME UNCHANGED history, overlapped, ~Readable, Readable'
      PROVE  [Registry!Next]_(Registry!vars)
  BY <1>3 DEF Registry!Recover, Registry!Next, history
<1>4. ASSUME NEW c \in Commands, SaveWrite(c) PROVE [Registry!Next]_(Registry!vars)
  <2>1. At(c, "saving") /\ Readable /\ overlapped' = overlapped
    BY <1>4 DEF SaveWrite
  <2>2. CASE overlapped /\ catalog' = Cut /\ UNCHANGED <<last, versions>>
    <3>1. UNCHANGED history
      BY <2>1, <2>2 DEF history
    <3>2. QED
      BY <1>1, <1>2, <2>1, <3>1
  <2>3. CASE catalog' = command[c].next /\ last' = catalog' /\ versions' = versions \cup {catalog'}
    <3>1. catalog' # Cut
      BY <2>3, SkillAssumption DEF TypeOK
    <3>2. Readable'
      BY <3>1
    <3>3. PICK base \in Registry!Bases : EditOf(command[c], base)
      BY <1>0, <2>1 DEF Planned, At
    <3>4. command[c].id \in Ids /\ (command[c].op = "install" => command[c].content \in Contents)
      BY DEF TypeOK, Planned
    <3>5. CASE command[c].op = "install"
      <4>1. Registry!Add(base, command[c].id, command[c].content)
        BY <2>1, <2>3, <3>2, <3>3, <3>5 DEF EditOf, Put, Registry!Add, Registry!Becomes
      <4>2. QED
        BY <3>4, <3>5, <4>1 DEF Registry!Next
    <3>6. CASE command[c].op # "install"
      <4>1. Registry!Drop(base, command[c].id)
        BY <2>1, <2>3, <3>2, <3>3, <3>6 DEF EditOf, Without, Registry!Drop, Registry!Becomes
      <4>2. QED
        BY <3>4, <4>1 DEF Registry!Next
    <3>7. QED
      BY <3>5, <3>6
  <2>4. QED
    BY <1>4, <2>2, <2>3 DEF SaveWrite
<1>5. ASSUME NEW c \in Commands, SaveTruncate(c) PROVE [Registry!Next]_(Registry!vars)
  <2>1. UNCHANGED history
    BY <1>5 DEF SaveTruncate
  <2>2. At(c, "saving")'
    BY <1>5 DEF SaveTruncate, Go, At, TypeOK
  <2>3. ~overlapped => Readable
    BY <1>5 DEF SaveTruncate, Orderly, Unread, At
  <2>4. QED
    BY <1>1, <1>3, <2>1, <2>2, <2>3
<1>6. ASSUME NEW c \in Commands, Kill(c) PROVE [Registry!Next]_(Registry!vars)
  <2>1. UNCHANGED history /\ (catalog' # Cut => catalog # Cut)
    BY <1>6 DEF Kill
  <2>2. Readable' => Readable
    BY <1>6, <2>1 DEF Kill, Go, At, TypeOK
  <2>3. QED
    BY <1>1, <1>2, <2>1, <2>2
<1>7. ASSUME UNCHANGED history, catalog' = catalog,
             \A d \in Commands : At(d, "saving")' <=> At(d, "saving")
      PROVE  [Registry!Next]_(Registry!vars)
  BY <1>1, <1>7
<1>8. ASSUME NEW c \in Commands, Start(c) PROVE [Registry!Next]_(Registry!vars)
  <2>1. \A d \in Commands : At(d, "saving")' <=> At(d, "saving")
    BY <1>8, StartIs DEF Start, At, TypeOK
  <2>2. UNCHANGED <<catalog, last, versions>> /\ Readable' = Readable
    BY <1>8, <2>1 DEF Start
  <2>3. CASE overlapped' = overlapped
    BY <1>1, <2>2, <2>3 DEF history
  <2>4. CASE overlapped' # overlapped
    <3>1. ~overlapped /\ overlapped' = TRUE
      BY <1>8, <2>4 DEF Start, TypeOK
    <3>2. QED
      BY <2>2, <3>1 DEF Registry!Overlap, Registry!Next
  <2>5. QED
    BY <2>3, <2>4
<1>9. ASSUME NEW c \in Commands, Install(c) PROVE [Registry!Next]_(Registry!vars)
  BY <1>7, <1>9, InstallIs DEF Moved, At, TypeOK
<1>10. ASSUME NEW c \in Commands, Remove(c) PROVE [Registry!Next]_(Registry!vars)
  BY <1>7, <1>10, RemoveIs DEF Moved, At, TypeOK
<1>11. ASSUME NEW c \in Commands, AlreadyInstalled(c) \/ Refuse(c)
       PROVE  [Registry!Next]_(Registry!vars)
  BY <1>7, <1>11 DEF AlreadyInstalled, Refuse, Go, At, TypeOK
<1>12. ASSUME NEW c \in Commands, CopyTruncate(c) \/ CopyWrite(c) \/ DeleteCopy(c)
       PROVE  [Registry!Next]_(Registry!vars)
  BY <1>7, <1>12 DEF CopyTruncate, CopyWrite, DeleteCopy, Go, At, TypeOK
<1>13. CASE UNCHANGED vars
  BY <1>7, <1>13 DEF vars, At
<1>14. QED
  BY <1>4, <1>5, <1>6, <1>8, <1>9, <1>10, <1>11, <1>12, <1>13 DEF Next, Step

(* The catalog implements the registry it promises: while commands run one *)
(* after another no installed skill is replaced or forgotten when another  *)
(* is installed, and an unreadable catalog is never taken for an empty one;*)
(* once they have overlapped a save is one edit of a catalog there was.    *)
THEOREM RegistryTheorem == Spec => KeepsRegistry
<1>1. Init => Registry!Init
  BY EmptyMap, SkillAssumption DEF Init, Registry!Init
<1>2. IInv /\ [Next]_vars => [Registry!Next]_(Registry!vars)
  BY RegistryStep
<1>3. QED
  BY <1>1, <1>2, Invariance, PTL DEF Spec, KeepsRegistry, Registry!Spec
=============================================================================
