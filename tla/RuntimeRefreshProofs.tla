------------------------ MODULE RuntimeRefreshProofs ------------------------
(***************************************************************************)
(* Proofs about RuntimeRefresh, for any commands, providers and defaults.  *)
(*                                                                         *)
(* What is served depends on a snapshot that was built many steps before,  *)
(* from a file that has changed since.  The inductive invariant carries    *)
(* along what is known of it: a snapshot that is being built is at least   *)
(* as new as the one served and at most as new as the file (Ordered), it   *)
(* can serve (Sound), and where its version is still that of the file so   *)
(* is its content, unless the file is being rewritten (Same).  That the    *)
(* newest version is served once every command is acknowledged needs more: *)
(* a handler belongs to a request that was sent (Asked), and as long as    *)
(* the newest version is not served, some command is not done (Heard).     *)
(***************************************************************************)
EXTENDS RuntimeRefresh, TLAPS

(* A command has a handler only once it has sent its request.              *)
Asked ==
    \A c \in Commands :
        cli[c] \in {"idle", "loaded", "truncated", "written"} => handler[c] = "none"

Ordered ==
    /\ current.version <= file.version
    /\ daemon # "up" => \A c \in Commands : handler[c] = "none"
    /\ \A c \in Commands : handler[c] = "probing" =>
            current.version <= next[c].version /\ next[c].version <= file.version

Sound ==
    /\ AlwaysServable
    /\ \A c \in Commands : handler[c] = "probing" =>
            /\ Servable(next[c].cfg)
            /\ next[c].ready \cup pending[c] \subseteq Catalog(next[c].cfg)

Rewriting == \E c \in Commands : cli[c] = "truncated"

Same ==
    ~Rewriting =>
        /\ current.version = file.version => current.cfg = Contents
        /\ \A c \in Commands :
                handler[c] = "probing" /\ next[c].version = file.version
                    => next[c].cfg = Contents

(* The newest version of the file is served, or a command still works on   *)
(* it, failed to, or waits for a refresh that has it or will read it.      *)
Outstanding(c) ==
    \/ cli[c] \in {"truncated", "written", "unreachable", "failed"}
    \/ /\ cli[c] = "notifying"
       /\ \/ handler[c] \in {"waiting", "loading"}
          \/ handler[c] = "probing" /\ next[c].version = file.version

Heard ==
    daemon # "down" =>
        current.version = file.version \/ \E c \in Commands : Outstanding(c)

IInv == TypeOK /\ Asked /\ Ordered /\ Sound /\ Same /\ Heard

-----------------------------------------------------------------------------
(* What is read from the file is a configuration, and so is its edit.      *)
LEMMA ContentsType == TypeOK => Contents \in Configs
BY RefreshAssumption DEF TypeOK, Contents, Parsed, Configs

LEMMA AppliedType ==
    ASSUME TypeOK, NEW c \in Commands PROVE Applied(op[c], Contents) \in Configs
<1>1. op[c] \in [kind : {"add", "remove", "use"}, id : Providers]
  BY RefreshAssumption DEF TypeOK
<1>2. Contents \in Configs
  BY ContentsType
<1>3. QED
  BY <1>1, <1>2 DEF Applied, Configs

(* A configuration that can serve has a provider and a default, and reads  *)
(* back as it was written.                                                 *)
LEMMA ServableReadsBack ==
    ASSUME NEW cfg \in Configs, Servable(cfg) PROVE Parsed(cfg) = cfg
BY RefreshAssumption DEF Parsed, Servable, Configs

LEMMA InitIInv == Init => IInv
<1> SUFFICES ASSUME Init PROVE IInv
  OBVIOUS
<1> USE RefreshAssumption
<1>1. TypeOK
  BY DEF Init, TypeOK, FirstSnapshot, Catalog, CliEnds, Configs
<1>2. Servable(FirstConfig)
  BY DEF Servable
<1>3. Asked /\ Ordered /\ Sound /\ Heard
  BY <1>2 DEF Init, Asked, Ordered, Sound, AlwaysServable, Heard, FirstSnapshot
<1>4. Same
  BY <1>2, ServableReadsBack DEF Init, Same, Contents, FirstSnapshot
<1>5. QED
  BY <1>1, <1>3, <1>4 DEF IInv

-----------------------------------------------------------------------------
(* The types, and with them the mutex: only Acquire passes the lock.       *)
LEMMA TypeStays ==
    ASSUME TypeOK, Asked, Next PROVE TypeOK'
<1> USE RefreshAssumption
<1>1. ASSUME NEW c \in Commands, EditLoad(c) PROVE TypeOK'
  <2>1. edit' \in [Commands -> Configs]
    <3>1. CASE edit' = [edit EXCEPT ![c] = Applied(op[c], Contents)]
      BY <3>1, AppliedType DEF TypeOK
    <3>2. CASE edit' = edit
      BY <3>2 DEF TypeOK
    <3>3. QED
      BY <1>1, <3>1, <3>2 DEF EditLoad
  <2>2. cli' = [cli EXCEPT ![c] = "loaded"] \/ cli' = [cli EXCEPT ![c] = "failed"]
    BY <1>1 DEF EditLoad
  <2>3. QED
    BY <1>1, <2>1, <2>2 DEF EditLoad, TypeOK, CliEnds, building
<1>2. ASSUME NEW c \in Commands, WriteTruncate(c) PROVE TypeOK'
  BY <1>2 DEF WriteTruncate, TypeOK, CliEnds, building
<1>3. ASSUME NEW c \in Commands, WriteContents(c) PROVE TypeOK'
  BY <1>3 DEF WriteContents, TypeOK, CliEnds, building
<1>4. ASSUME NEW c \in Commands, Notify(c) PROVE TypeOK'
  <2>1. CASE daemon = "up"
    BY <1>4, <2>1, ZenonT(60) DEF Notify, Asked, TypeOK, CliEnds
  <2>2. CASE daemon # "up"
    BY <1>4, <2>2 DEF Notify, TypeOK, CliEnds
  <2>3. QED
    BY <2>1, <2>2
<1>5. ASSUME NEW c \in Commands, NotifyTimeout(c) PROVE TypeOK'
  BY <1>5 DEF NotifyTimeout, TypeOK, CliEnds, building
<1>6. ASSUME NEW c \in Commands, Acquire(c) PROVE TypeOK'
  BY <1>6 DEF Acquire, TypeOK, disk
<1>7. ASSUME NEW c \in Commands, LoadDisk(c) PROVE TypeOK'
  BY <1>7, ContentsType DEF LoadDisk, TypeOK, disk, Catalog, Configs
<1>8. ASSUME NEW c \in Commands, LoadDiskFails(c) PROVE TypeOK'
  BY <1>8 DEF LoadDiskFails, Respond, TypeOK, CliEnds
<1>9. ASSUME NEW c \in Commands, Probe(c) PROVE TypeOK'
  <2>1. next' \in [Commands -> [cfg : Configs, version : Nat, ready : SUBSET Providers]]
    <3>1. PICK p \in pending[c] : next' = IF p \in healthy /\ ~gone[c]
                                         THEN [next EXCEPT ![c].ready = @ \cup {p}]
                                         ELSE next
      BY <1>9 DEF Probe
    <3>2. p \in Providers
      BY DEF TypeOK
    <3>3. CASE next' = next
      BY <3>3 DEF TypeOK
    <3>4. CASE next' = [next EXCEPT ![c].ready = @ \cup {p}]
      BY <3>2, <3>4, ZenonT(60) DEF TypeOK
    <3>5. QED
      BY <3>1, <3>3, <3>4
  <2>2. pending' \in [Commands -> SUBSET Providers]
    BY <1>9 DEF Probe, TypeOK
  <2>3. UNCHANGED <<disk, healthy, daemon, current, mutex, handler, gone>>
    BY <1>9 DEF Probe
  <2>4. QED
    BY <2>1, <2>2, <2>3 DEF TypeOK, disk
<1>10. ASSUME NEW c \in Commands, Swap(c) PROVE TypeOK'
  BY <1>10 DEF Swap, Respond, TypeOK, CliEnds
<1>11. ASSUME NEW p \in Credentialed, HealthChanges(p) PROVE TypeOK'
  BY <1>11 DEF HealthChanges, TypeOK, disk, building
<1>12. CASE Stop
  BY <1>12 DEF Stop, TypeOK, CliEnds
<1>13. CASE Start
  BY <1>13, ContentsType DEF Start, TypeOK, disk, building, Catalog, Configs
<1>14. CASE Listen
  BY <1>14 DEF Listen, TypeOK, disk, building
<1>15. QED
  BY <1>1, <1>2, <1>3, <1>4, <1>5, <1>6, <1>7, <1>8, <1>9, <1>10, <1>11, <1>12,
     <1>13, <1>14 DEF Next, Refresh

LEMMA AskedStays ==
    ASSUME TypeOK, Asked, Next PROVE Asked'
<1> USE DEF Asked
<1>1. ASSUME NEW c \in Commands, EditLoad(c) PROVE Asked'
  BY <1>1 DEF EditLoad, TypeOK, building
<1>2. ASSUME NEW c \in Commands, WriteTruncate(c) \/ WriteContents(c) PROVE Asked'
  BY <1>2 DEF WriteTruncate, WriteContents, TypeOK, building
<1>3. ASSUME NEW c \in Commands, Notify(c) PROVE Asked'
  BY <1>3 DEF Notify, TypeOK
<1>4. ASSUME NEW c \in Commands, NotifyTimeout(c) PROVE Asked'
  BY <1>4 DEF NotifyTimeout, TypeOK, building
<1>5. ASSUME NEW c \in Commands, Acquire(c) \/ LoadDisk(c) \/ Probe(c) PROVE Asked'
  BY <1>5 DEF Acquire, LoadDisk, Probe, TypeOK, disk
<1>6. ASSUME NEW c \in Commands, LoadDiskFails(c) \/ Swap(c) PROVE Asked'
  BY <1>6 DEF LoadDiskFails, Swap, Respond, TypeOK
<1>7. ASSUME NEW p \in Credentialed, HealthChanges(p) PROVE Asked'
  BY <1>7 DEF HealthChanges, disk, building
<1>8. CASE Stop \/ Start \/ Listen
  BY <1>8 DEF Stop, Start, Listen, disk, building
<1>9. QED
  BY <1>1, <1>2, <1>3, <1>4, <1>5, <1>6, <1>7, <1>8 DEF Next, Refresh

(* Versions: a snapshot takes the file's version under the mutex, and      *)
(* nobody else changes the one served until the mutex is released.         *)
LEMMA OrderedStays ==
    ASSUME TypeOK, TypeOK', Ordered, Next PROVE Ordered'
<1> USE RefreshAssumption
<1>1. ASSUME NEW c \in Commands, EditLoad(c) \/ WriteTruncate(c) \/ NotifyTimeout(c)
      PROVE  Ordered'
  BY <1>1, ZenonT(60) DEF EditLoad, WriteTruncate, NotifyTimeout, TypeOK, Ordered, building
<1>2. ASSUME NEW c \in Commands, WriteContents(c) PROVE Ordered'
  BY <1>2 DEF WriteContents, TypeOK, Ordered, building
<1>3. ASSUME NEW c \in Commands, Notify(c) PROVE Ordered'
  BY <1>3 DEF Notify, TypeOK, Ordered
<1>4. ASSUME NEW c \in Commands, Acquire(c) PROVE Ordered'
  BY <1>4 DEF Acquire, TypeOK, Ordered, disk
<1>5. ASSUME NEW c \in Commands, LoadDisk(c) PROVE Ordered'
  BY <1>5 DEF LoadDisk, TypeOK, Ordered, disk
<1>6. ASSUME NEW c \in Commands, LoadDiskFails(c) PROVE Ordered'
  BY <1>6 DEF LoadDiskFails, TypeOK, Ordered
<1>7. ASSUME NEW c \in Commands, Probe(c) PROVE Ordered'
  <2>1. \A d \in Commands : next'[d].version = next[d].version
    BY <1>7 DEF Probe, TypeOK
  <2>2. QED
    BY <1>7, <2>1 DEF Probe, Ordered, disk
<1>8. ASSUME NEW c \in Commands, Swap(c) PROVE Ordered'
  <2>1. \A d \in Commands : handler'[d] # "probing"
    BY <1>8 DEF Swap, TypeOK
  <2>2. QED
    BY <1>8, <2>1 DEF Swap, TypeOK, Ordered
<1>9. ASSUME NEW p \in Credentialed, HealthChanges(p) PROVE Ordered'
  BY <1>9 DEF HealthChanges, Ordered, disk, building
<1>10. CASE Stop
  BY <1>10 DEF Stop, TypeOK, Ordered
<1>11. CASE Start
  BY <1>11 DEF Start, TypeOK, Ordered, disk, building
<1>12. CASE Listen
  BY <1>12 DEF Listen, Ordered, disk, building
<1>13. QED
  BY <1>1, <1>2, <1>3, <1>4, <1>5, <1>6, <1>7, <1>8, <1>9, <1>10, <1>11, <1>12
     DEF Next, Refresh

(* What is served, and what is about to be, can serve.                     *)
LEMMA SoundStays ==
    ASSUME TypeOK, Sound, Next PROVE Sound'
<1> USE RefreshAssumption DEF Sound, AlwaysServable
<1>1. ASSUME NEW c \in Commands,
             EditLoad(c) \/ WriteTruncate(c) \/ WriteContents(c) \/ NotifyTimeout(c)
      PROVE  Sound'
  BY <1>1 DEF EditLoad, WriteTruncate, WriteContents, NotifyTimeout, building
<1>2. ASSUME NEW c \in Commands, Notify(c) PROVE Sound'
  BY <1>2 DEF Notify, TypeOK
<1>3. ASSUME NEW c \in Commands, Acquire(c) PROVE Sound'
  BY <1>3 DEF Acquire, TypeOK
<1>4. ASSUME NEW c \in Commands, LoadDisk(c) PROVE Sound'
  BY <1>4 DEF LoadDisk, TypeOK
<1>5. ASSUME NEW c \in Commands, LoadDiskFails(c) PROVE Sound'
  BY <1>5 DEF LoadDiskFails, TypeOK
<1>6. ASSUME NEW c \in Commands, Probe(c) PROVE Sound'
  <2>1. \A d \in Commands : next'[d].cfg = next[d].cfg
    BY <1>6 DEF Probe, TypeOK
  <2>2. \A d \in Commands :
            next'[d].ready \cup pending'[d] \subseteq next[d].ready \cup pending[d]
    BY <1>6 DEF Probe, TypeOK
  <2>3. QED
    BY <1>6, <2>1, <2>2 DEF Probe
<1>7. ASSUME NEW c \in Commands, Swap(c) PROVE Sound'
  BY <1>7 DEF Swap, TypeOK
<1>8. ASSUME NEW p \in Credentialed, HealthChanges(p) PROVE Sound'
  BY <1>8 DEF HealthChanges, building
<1>9. CASE Stop
  BY <1>9 DEF Stop
<1>10. CASE Start
  BY <1>10 DEF Start, building
<1>11. CASE Listen
  BY <1>11 DEF Listen, building
<1>12. QED
  BY <1>1, <1>2, <1>3, <1>4, <1>5, <1>6, <1>7, <1>8, <1>9, <1>10, <1>11
     DEF Next, Refresh

(* Contents: the file changes without a new version only when a command    *)
(* truncates it, and that command is still to write.                       *)
LEMMA SameStays ==
    ASSUME TypeOK, TypeOK', Ordered, Same, Next PROVE Same'
<1> USE RefreshAssumption DEF Same, Rewriting
<1>1. ASSUME NEW c \in Commands, EditLoad(c) PROVE Same'
  BY <1>1 DEF EditLoad, TypeOK, Contents, building
<1>2. ASSUME NEW c \in Commands, WriteTruncate(c) PROVE Same'
  BY <1>2 DEF WriteTruncate, TypeOK
<1>3. ASSUME NEW c \in Commands, WriteContents(c) PROVE Same'
  BY <1>3 DEF WriteContents, TypeOK, Ordered, building
<1>4. ASSUME NEW c \in Commands, Notify(c) PROVE Same'
  BY <1>4 DEF Notify, TypeOK, Contents
<1>5. ASSUME NEW c \in Commands, NotifyTimeout(c) PROVE Same'
  BY <1>5 DEF NotifyTimeout, TypeOK, Contents, building
<1>6. ASSUME NEW c \in Commands, Acquire(c) PROVE Same'
  BY <1>6 DEF Acquire, TypeOK, Contents, disk
<1>7. ASSUME NEW c \in Commands, LoadDisk(c) PROVE Same'
  BY <1>7 DEF LoadDisk, TypeOK, Contents, disk
<1>8. ASSUME NEW c \in Commands, LoadDiskFails(c) PROVE Same'
  BY <1>8 DEF LoadDiskFails, Respond, TypeOK, Contents
<1>9. ASSUME NEW c \in Commands, Probe(c) PROVE Same'
  <2>1. \A d \in Commands : next'[d].cfg = next[d].cfg /\ next'[d].version = next[d].version
    BY <1>9 DEF Probe, TypeOK
  <2>2. QED
    BY <1>9, <2>1 DEF Probe, Contents, disk
<1>10. ASSUME NEW c \in Commands, Swap(c) PROVE Same'
  BY <1>10, ZenonT(60) DEF Swap, Respond, TypeOK, Contents
<1>11. ASSUME NEW p \in Credentialed, HealthChanges(p) PROVE Same'
  BY <1>11 DEF HealthChanges, Contents, disk, building
<1>12. CASE Stop
  BY <1>12 DEF Stop, TypeOK, Contents
<1>13. CASE Start
  BY <1>13 DEF Start, TypeOK, Ordered, Contents, disk, building
<1>14. CASE Listen
  BY <1>14 DEF Listen, Contents, disk, building
<1>15. QED
  BY <1>1, <1>2, <1>3, <1>4, <1>5, <1>6, <1>7, <1>8, <1>9, <1>10, <1>11, <1>12,
     <1>13, <1>14 DEF Next, Refresh

(* A written edit stays outstanding until a snapshot that has it is served.*)
LEMMA HeardStays ==
    ASSUME TypeOK, TypeOK', Ordered, Heard, Next PROVE Heard'
<1> USE RefreshAssumption DEF Heard, Outstanding
<1>1. ASSUME NEW c \in Commands, EditLoad(c) PROVE Heard'
  BY <1>1 DEF EditLoad, TypeOK, building
<1>2. ASSUME NEW c \in Commands, WriteTruncate(c) \/ WriteContents(c) PROVE Heard'
  BY <1>2 DEF WriteTruncate, WriteContents, TypeOK
<1>3. ASSUME NEW c \in Commands, Notify(c) PROVE Heard'
  BY <1>3 DEF Notify, TypeOK
<1>4. ASSUME NEW c \in Commands, NotifyTimeout(c) PROVE Heard'
  BY <1>4 DEF NotifyTimeout, TypeOK
<1>5. ASSUME NEW c \in Commands, Acquire(c) PROVE Heard'
  BY <1>5 DEF Acquire, TypeOK, disk
<1>6. ASSUME NEW c \in Commands, LoadDisk(c) PROVE Heard'
  BY <1>6 DEF LoadDisk, TypeOK, disk
<1>7. ASSUME NEW c \in Commands, LoadDiskFails(c) PROVE Heard'
  BY <1>7 DEF LoadDiskFails, Respond, TypeOK
<1>8. ASSUME NEW c \in Commands, Probe(c) PROVE Heard'
  <2>1. \A d \in Commands : next'[d].version = next[d].version
    BY <1>8 DEF Probe, TypeOK
  <2>2. QED
    BY <1>8, <2>1 DEF Probe, disk
<1>9. ASSUME NEW c \in Commands, Swap(c) PROVE Heard'
  <2>1. CASE current.version = file.version
    <3>1. current' = next[c] /\ file' = file
      BY <1>9 DEF Swap
    <3>2. current.version <= next[c].version /\ next[c].version <= file.version
      BY <1>9 DEF Swap, Ordered
    <3>3. file.version \in Nat /\ next[c].version \in Nat
      BY DEF TypeOK
    <3>4. next[c].version = file.version
      BY <2>1, <3>2, <3>3, SMTT(30)
    <3>5. QED
      BY <3>1, <3>4
  <2>2. ASSUME NEW d \in Commands, Outstanding(d) PROVE Heard'
    <3>1. CASE d = c /\ cli[c] = "notifying"
      <4>1. next[c].version = file.version
        BY <1>9, <2>2, <3>1 DEF Swap
      <4>2. current' = next[c] /\ file' = file
        BY <1>9 DEF Swap
      <4>3. QED
        BY <4>1, <4>2
    <3>2. CASE d = c /\ cli[c] # "notifying"
      BY <1>9, <2>2, <3>2 DEF Swap, Respond, TypeOK
    <3>3. CASE d # c
      BY <1>9, <2>2, <3>3 DEF Swap, Respond, TypeOK
    <3>4. QED
      BY <3>1, <3>2, <3>3
  <2>3. CASE daemon = "down"
    BY <1>9, <2>3 DEF Swap
  <2>4. QED
    BY <2>1, <2>2, <2>3
<1>10. ASSUME NEW p \in Credentialed, HealthChanges(p) PROVE Heard'
  BY <1>10 DEF HealthChanges, disk, building
<1>11. CASE Stop
  BY <1>11 DEF Stop
<1>12. CASE Start
  BY <1>12 DEF Start, TypeOK, disk
<1>13. CASE Listen
  BY <1>13 DEF Listen, TypeOK, disk, building
<1>14. QED
  BY <1>1, <1>2, <1>3, <1>4, <1>5, <1>6, <1>7, <1>8, <1>9, <1>10, <1>11, <1>12,
     <1>13 DEF Next, Refresh

-----------------------------------------------------------------------------
LEMMA Invariance == Spec => []IInv
<1>1. Init => IInv
  BY InitIInv
<1>2. IInv /\ [Next]_vars => IInv'
  <2> SUFFICES ASSUME IInv, [Next]_vars PROVE IInv'
    OBVIOUS
  <2>1. CASE Next
    BY <2>1, TypeStays, AskedStays, OrderedStays, SoundStays, SameStays, HeardStays DEF IInv
  <2>2. CASE UNCHANGED vars
    BY <2>2 DEF IInv, TypeOK, Asked, Ordered, Sound, AlwaysServable, Same, Rewriting, Heard,
       Outstanding, Contents, vars, disk, building
  <2>3. QED
    BY <2>1, <2>2
<1>3. QED
  BY <1>1, <1>2, PTL DEF Spec

(* Every variable keeps its type, and the handlers past the lock of Refresh*)
(* are those that hold runtimeManager.mu.                                  *)
THEOREM TypeCorrect == Spec => []TypeOK
<1>1. IInv => TypeOK
  BY DEF IInv
<1>2. QED
  BY <1>1, Invariance, PTL

(* Whatever the file holds when a refresh reads it, what is served then    *)
(* has a default provider that is listed and resolves.                     *)
THEOREM ServableTheorem == Spec => []AlwaysServable
<1>1. IInv => AlwaysServable
  BY DEF IInv, Sound
<1>2. QED
  BY <1>1, Invariance, PTL

(* While the daemon runs, what it serves never becomes older.              *)
THEOREM VersionTheorem == Spec => VersionNeverGoesBack
<1>1. IInv /\ [Next]_vars => [daemon = "up" => current'.version >= current.version]_vars
  <2> SUFFICES ASSUME IInv, Next, daemon = "up" PROVE current'.version >= current.version
    BY DEF IInv
  <2>1. \/ current' = current
        \/ \E c \in Commands : handler[c] = "probing" /\ current' = next[c]
    BY DEF Next, Refresh, EditLoad, WriteTruncate, WriteContents, Notify, NotifyTimeout,
       Acquire, LoadDisk, LoadDiskFails, Probe, Swap, HealthChanges, Stop, Start, Listen
  <2>2. QED
    BY <2>1 DEF IInv, TypeOK, Ordered
<1>2. QED
  BY <1>1, Invariance, PTL DEF Spec, VersionNeverGoesBack

(* When every command that ran was acknowledged, what is on disk is served.*)
THEOREM AckedTheorem == Spec => []AckedIsServed
<1>1. IInv => AckedIsServed
  BY DEF IInv, AckedIsServed, Heard, Outstanding, Same, Rewriting
<1>2. QED
  BY <1>1, Invariance, PTL
=============================================================================
