-------------------------- MODULE AgentTasksProofs --------------------------
(***************************************************************************)
(* Proofs about AgentTasks, for any finite set of tasks and any            *)
(* directories, approvals, workloads and latencies.                        *)
(*                                                                         *)
(* The inductive invariant IInv conjoins                                   *)
(*   Typed      the types, as sets of functions and records                *)
(*   Straight   a directory leads to itself, however aliases are turned    *)
(*   Approving  what repository tools read for a task, and may still be    *)
(*              asked to read, was approved when it was accepted           *)
(*   Measuring  a task that measures has the call it measures, and the     *)
(*              time that call took was observed                           *)
(*   Observed   the averages in the file, and those that updates under     *)
(*              way hold, lie within the observed latencies                *)
(*   Counted    the same of the counts: with the calls that still wait to  *)
(*              be counted they do not exceed the calls that were made     *)
(* The exactness of the counts has one more, Exact, which holds as long    *)
(* as no two updates overlapped and none was killed or failed.  It needs   *)
(* that the truncated file is no map of metrics, which its theorem assumes.*)
(***************************************************************************)
EXTENDS AgentTasks, Integers, FiniteSetTheorems, SequenceTheorems, TLAPS

Maps == UNION {[S -> [count : Nat \ {0}, average : Nat]] : S \in SUBSET Tools}

TaskType == [pc : Points, todo : Seq(Invocations), approved : SUBSET Roots,
             read : SUBSET Reads, took : Latencies \cup {0}, store : Maps]

Typed ==
    /\ link \in [Paths -> Roots] /\ current \in RootLists /\ runner \in RootLists
    /\ task \in [Tasks -> TaskType]
    /\ metrics \in Maps \cup {Cut}
    /\ executed \in [Tools -> Seq(Latencies)]
    /\ disturbed \in BOOLEAN

(* A directory is no alias.                                                *)
Straight == \A r \in Roots : link[r] = r

Active == {"run", "measure", "truncate", "write"}

(* What tools read for a task, leaving aside the databases it names.       *)
Allowed(reads, approved) == \A o \in reads : o.tool # "index_lookup" => o.root \in approved

(* What a task may still read was approved when it was accepted.           *)
Approving ==
    \A t \in Tasks :
        /\ Allowed(task[t].read, task[t].approved)
        /\ task[t].pc = "idle" => task[t].read = {}
        /\ task[t].pc \in Active => \A i \in DOMAIN task[t].todo :
                task[t].todo[i].root # NoRoot => task[t].todo[i].root \in task[t].approved

(* A task in the middle of an update has the invocation it measures.       *)
Measuring ==
    \A t \in Tasks : task[t].pc \in {"measure", "truncate", "write"} =>
        /\ task[t].todo # <<>> /\ Asked(t).kind \in Tools
        /\ task[t].pc = "measure" =>
            \E i \in DOMAIN executed[Asked(t).kind] : executed[Asked(t).kind][i] = task[t].took

-----------------------------------------------------------------------------
(* What the actions make of a task.                                        *)
Rec(pc, todo, approved, read, took, store) ==
    [pc |-> pc, todo |-> todo, approved |-> approved, read |-> read, took |-> took,
     store |-> store]

Becomes(t, r) == task' = [task EXCEPT ![t] = r]

(* The record of a task t after some of its fields were changed.           *)
LEMMA Changed ==
    ASSUME Typed, NEW t \in Tasks, NEW r,
           DOMAIN task' = Tasks, task' = [u \in Tasks |-> task'[u]], task'[t] = r,
           \A u \in Tasks \ {t} : task'[u] = task[u]
    PROVE  Becomes(t, r)
BY DEF Typed, Becomes

LEMMA AcceptIs ==
    ASSUME Typed, NEW t \in Tasks, Accept(t)
    PROVE  /\ task[t].pc = "idle" /\ UNCHANGED <<Shared, Recorded>>
           /\ \E work \in Workloads :
                /\ Canonical(Named(work)) \subseteq Canonical(current)
                /\ Becomes(t, Rec("run", Resolved(work), Canonical(current),
                                  task[t].read, task[t].took, task[t].store))
<1>1. PICK work \in Workloads :
        /\ Canonical(Named(work)) \subseteq Canonical(current)
        /\ task' = [task EXCEPT ![t].pc = "run", ![t].todo = Resolved(work),
                                ![t].approved = Canonical(current)]
  BY DEF Accept
<1>2. task'[t] = [[[task[t] EXCEPT !.pc = "run"] EXCEPT !.todo = Resolved(work)]
                    EXCEPT !.approved = Canonical(current)]
  BY <1>1 DEF Typed
<1>3. task[t] \in TaskType
  BY DEF Typed
<1>4. task'[t] = Rec("run", Resolved(work), Canonical(current), task[t].read, task[t].took,
                     task[t].store)
  BY <1>2, <1>3 DEF Rec, TaskType
<1>5. Becomes(t, Rec("run", Resolved(work), Canonical(current), task[t].read, task[t].took,
                     task[t].store))
  BY <1>1, <1>4, Changed DEF Typed
<1>6. QED
  BY <1>1, <1>5 DEF Accept

LEMMA AnswersIs ==
    ASSUME Typed, NEW t \in Tasks, ToolAnswers(t)
    PROVE  \E took \in Latencies :
            /\ Becomes(t, Rec("measure", task[t].todo, task[t].approved,
                              task[t].read \cup Opened(t), took, task[t].store))
            /\ executed' = [executed EXCEPT ![Asked(t).kind] = Append(@, took)]
<1>1. PICK took \in Latencies :
        /\ task' = [task EXCEPT ![t].pc = "measure", ![t].took = took,
                                ![t].read = @ \cup Opened(t)]
        /\ executed' = [executed EXCEPT ![Asked(t).kind] = Append(@, took)]
  BY DEF ToolAnswers
<1>2. task'[t] = [[[task[t] EXCEPT !.pc = "measure"] EXCEPT !.took = took]
                    EXCEPT !.read = task[t].read \cup Opened(t)]
  BY <1>1 DEF Typed
<1>3. task[t] \in TaskType
  BY DEF Typed
<1>4. task'[t] = Rec("measure", task[t].todo, task[t].approved, task[t].read \cup Opened(t), took,
                     task[t].store)
  BY <1>2, <1>3 DEF Rec, TaskType
<1>5. Becomes(t, Rec("measure", task[t].todo, task[t].approved, task[t].read \cup Opened(t), took,
                     task[t].store))
  BY <1>1, <1>4, Changed DEF Typed
<1>6. QED
  BY <1>1, <1>5

LEMMA FailsIs ==
    ASSUME Typed, NEW t \in Tasks, ToolFails(t)
    PROVE  Becomes(t, Rec("failed", task[t].todo, task[t].approved, task[t].read \cup Opened(t),
                          task[t].took, task[t].store))
<1>1. task'[t] = [[task[t] EXCEPT !.pc = "failed"] EXCEPT !.read = task[t].read \cup Opened(t)]
  BY DEF ToolFails, Typed
<1>2. task[t] \in TaskType
  BY DEF Typed
<1>3. task'[t] = Rec("failed", task[t].todo, task[t].approved, task[t].read \cup Opened(t),
                     task[t].took, task[t].store)
  BY <1>1, <1>2 DEF Rec, TaskType
<1>4. QED
  BY <1>3, Changed DEF ToolFails, Typed

LEMMA LoadIs ==
    ASSUME Typed, NEW t \in Tasks, LoadMetrics(t)
    PROVE  Becomes(t, Rec("truncate", task[t].todo, task[t].approved, task[t].read, task[t].took,
                          WithLatency(metrics, Asked(t).kind, task[t].took)))
<1> DEFINE store == WithLatency(metrics, Asked(t).kind, task[t].took)
<1> HIDE DEF store
<1>1. task' = [task EXCEPT ![t].pc = "truncate", ![t].store = store]
  BY DEF LoadMetrics, store
<1>2. task'[t] = [[task[t] EXCEPT !.pc = "truncate"] EXCEPT !.store = store]
  BY <1>1 DEF Typed
<1>3. task[t] \in TaskType
  BY DEF Typed
<1>4. task'[t] = Rec("truncate", task[t].todo, task[t].approved, task[t].read, task[t].took, store)
  BY <1>2, <1>3 DEF Rec, TaskType
<1>5. Becomes(t, Rec("truncate", task[t].todo, task[t].approved, task[t].read, task[t].took, store))
  BY <1>1, <1>4, Changed DEF Typed
<1>6. QED
  BY <1>5 DEF store

(* The other actions change where the task is, or take an invocation away. *)
LEMMA GoesIs ==
    ASSUME Typed, NEW t \in Tasks, NEW pc, task' = [task EXCEPT ![t].pc = pc]
    PROVE  Becomes(t, Rec(pc, task[t].todo, task[t].approved, task[t].read, task[t].took,
                          task[t].store))
<1>1. task'[t] = [task[t] EXCEPT !.pc = pc]
  BY DEF Typed
<1>2. task[t] \in TaskType
  BY DEF Typed
<1>3. task'[t] = Rec(pc, task[t].todo, task[t].approved, task[t].read, task[t].took, task[t].store)
  BY <1>1, <1>2 DEF Rec, TaskType
<1>4. QED
  BY <1>3, Changed DEF Typed

LEMMA SkipIs ==
    ASSUME Typed, NEW t \in Tasks, SkipUnknown(t)
    PROVE  Becomes(t, Rec(task[t].pc, Tail(task[t].todo), task[t].approved, task[t].read,
                          task[t].took, task[t].store))
<1>1. task'[t] = [task[t] EXCEPT !.todo = Tail(task[t].todo)]
  BY DEF SkipUnknown, Typed
<1>2. task[t] \in TaskType
  BY DEF Typed
<1>3. task'[t] = Rec(task[t].pc, Tail(task[t].todo), task[t].approved, task[t].read, task[t].took,
                     task[t].store)
  BY <1>1, <1>2 DEF Rec, TaskType
<1>4. QED
  BY <1>3, Changed DEF SkipUnknown, Typed

LEMMA ProceedIs ==
    ASSUME Typed, NEW t \in Tasks, Proceed(t)
    PROVE  Becomes(t, Rec("run", Tail(task[t].todo), task[t].approved, task[t].read, 0, <<>>))
<1>1. task'[t] = [[[[task[t] EXCEPT !.pc = "run"] EXCEPT !.todo = Tail(task[t].todo)]
                    EXCEPT !.took = 0] EXCEPT !.store = <<>>]
  BY DEF Proceed, Typed
<1>2. task[t] \in TaskType
  BY DEF Typed
<1>3. task'[t] = Rec("run", Tail(task[t].todo), task[t].approved, task[t].read, 0, <<>>)
  BY <1>1, <1>2 DEF Rec, TaskType
<1>4. QED
  BY <1>3, Changed DEF Proceed, Typed

LEMMA BecomesIs ==
    ASSUME Typed, NEW t \in Tasks, NEW r, Becomes(t, r)
    PROVE  /\ task'[t] = r /\ \A u \in Tasks \ {t} : task'[u] = task[u]
           /\ r \in TaskType => task' \in [Tasks -> TaskType]
BY DEF Typed, Becomes

-----------------------------------------------------------------------------
(* RecordSkillLatency.                                                     *)
Count(store, k) == IF k \in DOMAIN store THEN store[k].count ELSE 0

LEMMA DivBounds ==
    ASSUME NEW n \in Nat \ {0}, NEW x \in Nat, NEW lo \in Nat, NEW hi \in Nat,
           n * lo <= x, x <= n * hi
    PROVE  lo <= x \div n /\ x \div n <= hi
<1> DEFINE q == x \div n
<1>1. x = n * q + (x % n) /\ 0 <= x % n /\ x % n < n /\ q \in Int
  OBVIOUS
<1> HIDE DEF q
<1>2. lo <= q
  <2>1. SUFFICES ASSUME q < lo PROVE FALSE
    BY <1>1
  <2>2. n * (q + 1) <= n * lo
    BY <2>1, <1>1
  <2>3. QED
    BY <2>2, <1>1
<1>3. q <= hi
  <2>1. SUFFICES ASSUME hi < q PROVE FALSE
    BY <1>1
  <2>2. n * (hi + 1) <= n * q
    BY <2>1, <1>1
  <2>3. QED
    BY <2>2, <1>1
<1>4. QED
  BY <1>2, <1>3 DEF q

(* The new average lies between the old one and the latest call, rounded   *)
(* down or not.                                                            *)
LEMMA RollingAverageBetween ==
    ASSUME NEW previous \in Nat, NEW count \in Nat \ {0}, NEW latest \in Nat
    PROVE  LET average == RollingAverage(previous, count, latest)
           IN  /\ average \in Nat
               /\ count = 1 => average = latest
               /\ count # 1 =>
                    \/ previous <= average /\ average <= latest
                    \/ latest <= average /\ average <= previous
<1>1. CASE count = 1
  BY <1>1 DEF RollingAverage
<1>2. CASE count # 1
  <2> DEFINE x == previous * (count - 1) + latest
  <2>1. RollingAverage(previous, count, latest) = x \div count
    BY <1>2 DEF RollingAverage
  <2>2. x \in Nat /\ x \div count \in Nat
    OBVIOUS
  <2>3. CASE previous <= latest
    <3>1. count * previous <= x
      BY <2>3
    <3>2. x <= count * latest
      <4>1. previous * (count - 1) <= latest * (count - 1)
        BY <2>3, <1>2
      <4>2. QED
        BY <4>1
    <3>3. QED
      BY <1>2, <2>1, <2>2, <3>1, <3>2, DivBounds
  <2>4. CASE latest <= previous
    <3>1. x <= count * previous
      BY <2>4
    <3>2. count * latest <= x
      <4>1. latest * (count - 1) <= previous * (count - 1)
        BY <2>4, <1>2
      <4>2. QED
        BY <4>1
    <3>3. QED
      BY <1>2, <2>1, <2>2, <3>1, <3>2, DivBounds
  <2>5. QED
    BY <2>3, <2>4
<1>3. QED
  BY <1>1, <1>2

LEMMA WithLatencyIs ==
    ASSUME NEW store \in Maps, NEW kind \in Tools, NEW took \in Nat
    PROVE  LET new == WithLatency(store, kind, took)
           IN  /\ new \in Maps /\ DOMAIN new = DOMAIN store \cup {kind}
               /\ Count(new, kind) = Count(store, kind) + 1
               /\ \A k \in DOMAIN store \ {kind} : new[k] = store[k]
               /\ kind \notin DOMAIN store => new[kind].average = took
               /\ kind \in DOMAIN store =>
                    \/ store[kind].average <= new[kind].average /\ new[kind].average <= took
                    \/ took <= new[kind].average /\ new[kind].average <= store[kind].average
<1> DEFINE count == IF kind \in DOMAIN store THEN store[kind].count + 1 ELSE 1
           before == IF kind \in DOMAIN store THEN store[kind].average ELSE took
           average == RollingAverage(before, count, took)
           new == WithLatency(store, kind, took)
<1>1. PICK S \in SUBSET Tools : store \in [S -> [count : Nat \ {0}, average : Nat]]
  BY DEF Maps
<1>2. /\ count \in Nat \ {0} /\ before \in Nat
      /\ kind \in DOMAIN store => count # 1 /\ before = store[kind].average
      /\ kind \notin DOMAIN store => count = 1
      /\ count = Count(store, kind) + 1
  BY <1>1 DEF Count
<1>3. /\ average \in Nat
      /\ count = 1 => average = took
      /\ count # 1 => \/ before <= average /\ average <= took
                      \/ took <= average /\ average <= before
  <2> HIDE DEF count, before
  <2>1. QED
    BY <1>2, RollingAverageBetween
<1>4. new = [k \in S \cup {kind} |->
                IF k = kind THEN [count |-> count, average |-> average] ELSE store[k]]
  BY <1>1 DEF WithLatency, Entered
<1> HIDE DEF new, average, count, before
<1>5. new \in [S \cup {kind} -> [count : Nat \ {0}, average : Nat]] /\ S \cup {kind} \in SUBSET Tools
  BY <1>1, <1>2, <1>3, <1>4
<1>6. new[kind].count = count /\ new[kind].average = average
  BY <1>4
<1>7. Count(new, kind) = Count(store, kind) + 1
  BY <1>2, <1>5, <1>6 DEF Count
<1>8. new \in Maps
  BY <1>5 DEF Maps
<1>9. kind \notin DOMAIN store => new[kind].average = took
  BY <1>2, <1>3, <1>6
<1>10. kind \in DOMAIN store =>
        \/ store[kind].average <= new[kind].average /\ new[kind].average <= took
        \/ took <= new[kind].average /\ new[kind].average <= store[kind].average
  BY <1>2, <1>3, <1>6
<1>11. DOMAIN new = DOMAIN store \cup {kind} /\ \A k \in DOMAIN store \ {kind} : new[k] = store[k]
  BY <1>1, <1>4
<1>12. QED
  BY <1>7, <1>8, <1>9, <1>10, <1>11 DEF new

-----------------------------------------------------------------------------
LEMMA LatenciesAreNat == Latencies \subseteq Nat /\ Latencies \cup {0} \subseteq Nat
BY AgentAssumption

LEMMA EmptyMap == <<>> \in Maps /\ DOMAIN <<>> = {}
<1>1. <<>> \in [{} -> [count : Nat \ {0}, average : Nat]]
  OBVIOUS
<1>2. QED
  BY <1>1 DEF Maps

LEMMA IdleType == Idle \in TaskType
<1>1. <<>> \in Seq(Invocations) /\ 0 \in Latencies \cup {0}
  OBVIOUS
<1>2. QED
  BY <1>1, EmptyMap DEF Idle, TaskType, Points

LEMMA RecType ==
    ASSUME NEW pc \in Points, NEW todo \in Seq(Invocations), NEW approved \in SUBSET Roots,
           NEW read \in SUBSET Reads, NEW took \in Latencies \cup {0}, NEW store \in Maps
    PROVE  Rec(pc, todo, approved, read, took, store) \in TaskType
BY DEF Rec, TaskType

LEMMA FieldTypes ==
    ASSUME Typed, NEW t \in Tasks
    PROVE  /\ task[t].pc \in Points /\ task[t].todo \in Seq(Invocations)
           /\ task[t].approved \in SUBSET Roots /\ task[t].read \in SUBSET Reads
           /\ task[t].took \in Latencies \cup {0} /\ task[t].store \in Maps
<1>1. task[t] \in TaskType
  BY DEF Typed
<1>2. QED
  BY <1>1 DEF TaskType

LEMMA RootTypes ==
    ASSUME Typed, Straight
    PROVE  /\ \A p \in Paths : link[p] \in Roots
           /\ current \subseteq Paths /\ runner \subseteq Paths
           /\ Canonical(current) \in SUBSET Roots
BY AgentAssumption DEF Typed, Canonical

LEMMA ResolvedIs ==
    ASSUME Typed, Straight, NEW work \in Workloads
    PROVE  /\ work \in Seq(Invocations) /\ Resolved(work) \in Seq(Invocations)
           /\ Len(Resolved(work)) = Len(work)
           /\ \A i \in DOMAIN Resolved(work) : Resolved(work)[i].root # NoRoot =>
                Resolved(work)[i].root \in Canonical(Named(work))
<1>1. work \in Seq(Invocations) /\ DOMAIN work = 1..Len(work) /\ Len(work) \in Nat
  BY AgentAssumption
<1>2. ASSUME NEW i \in 1..Len(work)
      PROVE  /\ Resolved(work)[i] \in Invocations
             /\ Resolved(work)[i].root # NoRoot =>
                    Resolved(work)[i].root \in Canonical(Named(work))
  <2>1. work[i] \in Invocations
    BY <1>1, ElementOfSeq
  <2>2. CASE work[i].root = NoRoot
    BY <1>1, <2>1, <2>2 DEF Resolved
  <2>3. CASE work[i].root # NoRoot
    <3>1. work[i].root \in Paths /\ link[work[i].root] \in Roots
      BY <2>1, <2>3, RootTypes DEF Invocations
    <3>2. Resolved(work)[i] = [work[i] EXCEPT !.root = link[work[i].root]]
      BY <1>1, <2>3 DEF Resolved
    <3>3. link[work[i].root] \in Canonical(Named(work))
      BY <1>1, <2>3 DEF Canonical, Named
    <3>4. Resolved(work)[i] \in Invocations
      BY <2>1, <3>1, <3>2 DEF Invocations, Paths
    <3>5. Resolved(work)[i].root = link[work[i].root]
      BY <2>1, <3>2 DEF Invocations
    <3>6. QED
      BY <3>3, <3>4, <3>5
  <2>4. QED
    BY <2>2, <2>3
<1>3. Resolved(work) = [i \in 1..Len(work) |-> Resolved(work)[i]]
  BY <1>1 DEF Resolved
<1>4. Resolved(work) \in [1..Len(work) -> Invocations]
  BY <1>2, <1>3
<1>5. Resolved(work) \in Seq(Invocations)
  BY <1>1, <1>4, SeqDef
<1>6. Len(Resolved(work)) = Len(work) /\ DOMAIN Resolved(work) = 1..Len(work)
  BY <1>1, <1>4, <1>5
<1>7. QED
  BY <1>1, <1>2, <1>5, <1>6

(* The invocation that a task asks for.                                    *)
LEMMA AskedIs ==
    ASSUME Typed, NEW t \in Tasks, task[t].todo # <<>>
    PROVE  /\ Asked(t) \in Invocations /\ 1 \in DOMAIN task[t].todo
           /\ Asked(t) = task[t].todo[1] /\ Tail(task[t].todo) \in Seq(Invocations)
<1>1. task[t].todo \in Seq(Invocations)
  BY FieldTypes
<1>2. QED
  BY <1>1 DEF Asked

LEMMA OpenedIs ==
    ASSUME Typed, Straight, Approving, NEW t \in Tasks, Asking(t), Permitted(t)
    PROVE  /\ Allowed(Opened(t), task[t].approved) /\ Opened(t) \subseteq Reads
           /\ Asked(t).kind \in Tools
<1>1. Asked(t) \in Invocations /\ 1 \in DOMAIN task[t].todo /\ Asked(t) = task[t].todo[1]
  BY AskedIs DEF Asking
<1>2. Asked(t).kind \in RootTools => Asked(t).root # NoRoot
  BY DEF Permitted, RootTools
<1>3. Asked(t).kind \in RootTools => Asked(t).root \in task[t].approved
  BY <1>1, <1>2 DEF Approving, Asking, Active
<1>4. task[t].approved \subseteq Roots
  BY FieldTypes
<1>5. Asked(t).kind \in RootTools => link[Asked(t).root] = Asked(t).root
  BY <1>3, <1>4 DEF Straight
<1>6. Asked(t).kind \in Tools
  BY DEF Permitted, Tools
<1> DEFINE path == IF Asked(t).kind \in RootTools THEN Asked(t).root ELSE Asked(t).db
<1>7. path \in Paths \cup {NoRoot}
  BY <1>1 DEF Invocations
<1>8. Opened(t) = IF path = NoRoot THEN {}
                  ELSE {[tool |-> Asked(t).kind, root |-> link[path]]}
  BY DEF Opened
<1>9. path # NoRoot => link[path] \in Roots
  BY <1>7, RootTypes
<1>10. Asked(t).kind \notin RootTools => Asked(t).kind = "index_lookup"
  BY DEF Permitted
<1>11. Opened(t) \subseteq Reads
  <2> HIDE DEF path
  <2>1. QED
    BY <1>6, <1>8, <1>9 DEF Reads
<1>12. ASSUME NEW o \in Opened(t), o.tool # "index_lookup" PROVE o.root \in task[t].approved
  <2>1. o = [tool |-> Asked(t).kind, root |-> link[path]]
    BY <1>8, <1>12
  <2>2. o.tool = Asked(t).kind /\ o.root = link[path]
    BY <2>1
  <2>3. Asked(t).kind \in RootTools
    BY <1>10, <1>12, <2>2
  <2>4. QED
    BY <1>3, <1>5, <2>2, <2>3
<1>13. QED
  BY <1>6, <1>11, <1>12 DEF Allowed

(* Actions that neither open nor measure anything.                         *)
Quiet(t) ==
    \E pc \in {"run", "rejected", "refused", "done"}, todo \in Seq(Invocations) :
        /\ task[t].pc \in {"idle", "run"}
        /\ Becomes(t, Rec(pc, todo, task[t].approved, task[t].read, task[t].took, task[t].store))
        /\ pc = "run" =>
                task[t].pc = "run" /\ task[t].todo # <<>> /\ todo = Tail(task[t].todo)

LEMMA QuietIs ==
    ASSUME Typed, NEW t \in Tasks,
           Reject(t) \/ SkipUnknown(t) \/ RunnerRefuses(t) \/ Answer(t)
    PROVE  Quiet(t) /\ UNCHANGED <<Shared, Recorded>>
<1>1. task[t].todo \in Seq(Invocations)
  BY FieldTypes
<1>2. CASE Reject(t)
  <2>1. Becomes(t, Rec("rejected", task[t].todo, task[t].approved, task[t].read, task[t].took,
                       task[t].store))
    BY <1>2, GoesIs DEF Reject
  <2>2. QED
    BY <1>1, <1>2, <2>1 DEF Reject, Quiet
<1>3. CASE SkipUnknown(t)
  <2>1. task[t].pc = "run" /\ task[t].todo # <<>> /\ Tail(task[t].todo) \in Seq(Invocations)
    BY <1>3, AskedIs DEF SkipUnknown, Asking
  <2>2. Becomes(t, Rec("run", Tail(task[t].todo), task[t].approved, task[t].read, task[t].took,
                       task[t].store))
    BY <1>3, <2>1, SkipIs
  <2>3. QED
    BY <1>3, <2>1, <2>2 DEF SkipUnknown, Quiet
<1>4. CASE RunnerRefuses(t)
  <2>1. Becomes(t, Rec("refused", task[t].todo, task[t].approved, task[t].read, task[t].took,
                       task[t].store))
    BY <1>4, GoesIs DEF RunnerRefuses
  <2>2. QED
    BY <1>1, <1>4, <2>1 DEF RunnerRefuses, Asking, Quiet
<1>5. CASE Answer(t)
  <2>1. Becomes(t, Rec("done", task[t].todo, task[t].approved, task[t].read, task[t].took,
                       task[t].store))
    BY <1>5, GoesIs DEF Answer
  <2>2. QED
    BY <1>1, <1>5, <2>1 DEF Answer, Quiet
<1>6. QED
  BY <1>2, <1>3, <1>4, <1>5

(* Truncating the file changes nothing else of a task.                     *)
LEMMA TruncateIs ==
    ASSUME Typed, NEW t \in Tasks, TruncateMetrics(t)
    PROVE  Becomes(t, Rec("write", task[t].todo, task[t].approved, task[t].read, task[t].took,
                          task[t].store))
BY GoesIs DEF TruncateMetrics

(* Where a task is after a step of its update.                             *)
LEMMA PointIs ==
    ASSUME Typed, NEW t \in Tasks
    PROVE  /\ Proceed(t) => task'[t].pc = "run"
           /\ LoadMetrics(t) => task'[t].pc = "truncate"
           /\ TruncateMetrics(t) => task'[t].pc = "write"
<1>1. ASSUME NEW pc, NEW todo, NEW took, NEW store,
             Becomes(t, Rec(pc, todo, task[t].approved, task[t].read, took, store))
      PROVE  task'[t].pc = pc
  <2>1. task'[t] = Rec(pc, todo, task[t].approved, task[t].read, took, store)
    BY <1>1, BecomesIs
  <2>2. QED
    BY <2>1 DEF Rec
<1>2. Proceed(t) => task'[t].pc = "run"
  BY <1>1, ProceedIs
<1>3. LoadMetrics(t) => task'[t].pc = "truncate"
  BY <1>1, LoadIs
<1>4. TruncateMetrics(t) => task'[t].pc = "write"
  BY <1>1, TruncateIs
<1>5. QED
  BY <1>2, <1>3, <1>4

(* The steps that end an update, in which the file was written or not.     *)
Ends(t) ==
    /\ task[t].pc \in {"truncate", "write"} /\ Proceed(t)
    /\ metrics' \in {task[t].store, metrics, Cut}
    /\ UNCHANGED <<Shared, executed>> /\ disturbed' \in BOOLEAN

LEMMA EndsIs ==
    ASSUME Typed, NEW t \in Tasks,
           WriteMetrics(t) \/ TruncateMetricsFails(t) \/ WriteMetricsFails(t)
    PROVE  Ends(t)
<1>1. disturbed \in BOOLEAN
  BY DEF Typed
<1>2. CASE WriteMetrics(t)
  BY <1>1, <1>2 DEF WriteMetrics, Ends
<1>3. CASE TruncateMetricsFails(t)
  BY <1>3 DEF TruncateMetricsFails, Ends
<1>4. CASE WriteMetricsFails(t)
  BY <1>4 DEF WriteMetricsFails, Ends
<1>5. QED
  BY <1>2, <1>3, <1>4

LEMMA TypedStays ==
    ASSUME Typed, Straight, Approving, Measuring, Next PROVE Typed'
<1> USE DEF Shared, Recorded
<1>1. ASSUME task' \in [Tasks -> TaskType], UNCHANGED <<Shared, Recorded>> PROVE Typed'
  BY <1>1 DEF Typed
<1>2. ASSUME NEW t \in Tasks, Accept(t) PROVE Typed'
  <2>1. PICK work \in Workloads :
            Becomes(t, Rec("run", Resolved(work), Canonical(current), task[t].read, task[t].took,
                           task[t].store))
    BY <1>2, AcceptIs
  <2>2. Rec("run", Resolved(work), Canonical(current), task[t].read, task[t].took, task[t].store)
            \in TaskType
    BY ResolvedIs, RootTypes, FieldTypes, RecType DEF Points
  <2>3. QED
    BY <1>1, <1>2, <2>1, <2>2, BecomesIs DEF Accept
<1>3. ASSUME NEW t \in Tasks, Quiet(t), UNCHANGED <<Shared, Recorded>> PROVE Typed'
  <2>1. PICK pc \in {"run", "rejected", "refused", "done"}, todo \in Seq(Invocations) :
            Becomes(t, Rec(pc, todo, task[t].approved, task[t].read, task[t].took, task[t].store))
    BY <1>3 DEF Quiet
  <2>2. Rec(pc, todo, task[t].approved, task[t].read, task[t].took, task[t].store) \in TaskType
    BY FieldTypes, RecType DEF Points
  <2>3. QED
    BY <1>1, <1>3, <2>1, <2>2, BecomesIs
<1>4. ASSUME NEW t \in Tasks, ToolFails(t) PROVE Typed'
  <2>1. Opened(t) \subseteq Reads
    BY <1>4, OpenedIs DEF ToolFails
  <2>2. Rec("failed", task[t].todo, task[t].approved, task[t].read \cup Opened(t), task[t].took,
            task[t].store) \in TaskType
    BY <2>1, FieldTypes, RecType DEF Points
  <2>3. QED
    BY <1>1, <1>4, <2>2, FailsIs, BecomesIs DEF ToolFails
<1>5. ASSUME NEW t \in Tasks, ToolAnswers(t) PROVE Typed'
  <2>1. PICK took \in Latencies :
            /\ Becomes(t, Rec("measure", task[t].todo, task[t].approved,
                              task[t].read \cup Opened(t), took, task[t].store))
            /\ executed' = [executed EXCEPT ![Asked(t).kind] = Append(@, took)]
    BY <1>5, AnswersIs
  <2>2. Opened(t) \subseteq Reads
    BY <1>5, OpenedIs DEF ToolAnswers
  <2>3. Rec("measure", task[t].todo, task[t].approved, task[t].read \cup Opened(t), took,
            task[t].store) \in TaskType
    BY <2>2, FieldTypes, RecType DEF Points
  <2>4. task' \in [Tasks -> TaskType]
    BY <2>1, <2>3, BecomesIs
  <2>5. \A k \in Tools : Append(executed[k], took) \in Seq(Latencies)
    BY DEF Typed
  <2>6. executed' \in [Tools -> Seq(Latencies)]
    BY <2>1, <2>5 DEF Typed
  <2>7. QED
    BY <1>5, <2>4, <2>6 DEF ToolAnswers, Typed
<1>6. ASSUME NEW t \in Tasks, LoadMetrics(t) PROVE Typed'
  <2>1. Asked(t).kind \in Tools /\ metrics \in Maps /\ task[t].took \in Nat
    BY <1>6, FieldTypes, AgentAssumption DEF LoadMetrics, Measuring, Typed
  <2>2. WithLatency(metrics, Asked(t).kind, task[t].took) \in Maps
    BY <2>1, WithLatencyIs
  <2>3. Rec("truncate", task[t].todo, task[t].approved, task[t].read, task[t].took,
            WithLatency(metrics, Asked(t).kind, task[t].took)) \in TaskType
    BY <2>2, FieldTypes, RecType DEF Points
  <2>4. task' \in [Tasks -> TaskType]
    BY <1>6, <2>3, LoadIs, BecomesIs
  <2>5. QED
    BY <1>6, <2>4 DEF LoadMetrics, Typed
<1>7. ASSUME NEW t \in Tasks, Proceed(t), task[t].pc \in {"measure", "truncate", "write"}
      PROVE  task' \in [Tasks -> TaskType]
  <2>1. Tail(task[t].todo) \in Seq(Invocations)
    BY <1>7, AskedIs DEF Measuring
  <2>2. Rec("run", Tail(task[t].todo), task[t].approved, task[t].read, 0, <<>>) \in TaskType
    BY <2>1, EmptyMap, FieldTypes, RecType DEF Points
  <2>3. QED
    BY <1>7, <2>2, ProceedIs, BecomesIs
<1>8. ASSUME NEW t \in Tasks, LoadMetricsFails(t) PROVE Typed'
  BY <1>7, <1>8 DEF LoadMetricsFails, Typed
<1>9. ASSUME NEW t \in Tasks, TruncateMetrics(t) PROVE Typed'
  <2>1. Rec("write", task[t].todo, task[t].approved, task[t].read, task[t].took, task[t].store)
            \in TaskType
    BY FieldTypes, RecType DEF Points
  <2>2. task' \in [Tasks -> TaskType]
    BY <1>9, <2>1, TruncateIs, BecomesIs
  <2>3. QED
    BY <1>9, <2>2 DEF TruncateMetrics, Typed
<1>10. ASSUME NEW t \in Tasks, Ends(t) PROVE Typed'
  <2>1. task[t].store \in Maps
    BY FieldTypes
  <2>2. metrics' \in Maps \cup {Cut}
    BY <1>10, <2>1 DEF Ends, Typed
  <2>3. QED
    BY <1>7, <1>10, <2>2 DEF Ends, Typed
<1>11. CASE Refresh
  BY <1>11 DEF Refresh, Typed
<1>12. CASE Turn
  BY <1>12 DEF Turn, Typed, Paths
<1>13. CASE Restart
  <2>1. [Idle EXCEPT !.pc = "lost"] \in TaskType
    BY IdleType DEF TaskType, Points
  <2>2. QED
    BY <1>13, <2>1, IdleType DEF Restart, Typed
<1>14. QED
  BY <1>2, <1>3, <1>4, <1>5, <1>6, <1>8, <1>9, <1>10, <1>11, <1>12, <1>13, QuietIs, EndsIs
     DEF Next, Handle

LEMMA StraightStays == ASSUME Typed, Straight, Next PROVE Straight'
<1> USE DEF Straight
<1>1. CASE Turn
  BY <1>1, AgentAssumption DEF Turn, Typed, Paths
<1>2. CASE Refresh \/ Restart
  BY <1>2 DEF Refresh, Restart
<1>3. ASSUME NEW t \in Tasks, Handle(t) PROVE Straight'
  BY <1>3 DEF Handle, Accept, Reject, SkipUnknown, RunnerRefuses, ToolFails, ToolAnswers, Answer,
     LoadMetrics, LoadMetricsFails, TruncateMetrics, TruncateMetricsFails, WriteMetrics,
     WriteMetricsFails, Shared
<1>4. QED
  BY <1>1, <1>2, <1>3 DEF Next

(* What a task opens next was approved: the handler replaced every path by *)
(* the directory that it checked, which no turn of an alias changes.       *)
LEMMA ApprovingStays ==
    ASSUME Typed, Straight, Approving, Measuring, Next PROVE Approving'
<1> DEFINE Ok(r) ==
        /\ Allowed(r.read, r.approved)
        /\ r.pc = "idle" => r.read = {}
        /\ r.pc \in Active => \A i \in DOMAIN r.todo :
                r.todo[i].root # NoRoot => r.todo[i].root \in r.approved
<1>1. \A t \in Tasks : Ok(task[t])
  BY DEF Approving
<1>2. ASSUME NEW t \in Tasks, NEW r, Becomes(t, r), Ok(r) PROVE Approving'
  <2>1. \A u \in Tasks : Ok(task'[u])
    BY <1>1, <1>2, BecomesIs
  <2>2. QED
    BY <2>1 DEF Approving
<1>3. ASSUME NEW t \in Tasks, NEW pc, NEW took, NEW store,
             task[t].pc \in Active, pc # "idle",
             Becomes(t, Rec(pc, task[t].todo, task[t].approved, task[t].read, took, store))
      PROVE  Approving'
  <2>1. Ok(Rec(pc, task[t].todo, task[t].approved, task[t].read, took, store))
    BY <1>1, <1>3 DEF Rec
  <2>2. QED
    BY <1>2, <1>3, <2>1
<1>4. ASSUME NEW t \in Tasks, NEW took, NEW store,
             task[t].pc \in Active, task[t].todo # <<>>,
             Becomes(t, Rec("run", Tail(task[t].todo), task[t].approved, task[t].read, took, store))
      PROVE  Approving'
  <2>1. task[t].todo \in Seq(Invocations)
    BY FieldTypes
  <2>2. \A i \in DOMAIN Tail(task[t].todo) :
            i + 1 \in DOMAIN task[t].todo /\ Tail(task[t].todo)[i] = task[t].todo[i + 1]
    BY <1>4, <2>1
  <2>3. Ok(Rec("run", Tail(task[t].todo), task[t].approved, task[t].read, took, store))
    BY <1>1, <1>4, <2>2 DEF Rec
  <2>4. QED
    BY <1>2, <1>4, <2>3
<1>5. ASSUME NEW t \in Tasks, Accept(t) PROVE Approving'
  <2>1. PICK work \in Workloads :
            /\ Canonical(Named(work)) \subseteq Canonical(current)
            /\ Becomes(t, Rec("run", Resolved(work), Canonical(current), task[t].read,
                              task[t].took, task[t].store))
    BY <1>5, AcceptIs
  <2>2. task[t].read = {}
    BY <1>1, <1>5, AcceptIs
  <2>3. \A i \in DOMAIN Resolved(work) : Resolved(work)[i].root # NoRoot =>
            Resolved(work)[i].root \in Canonical(current)
    BY <2>1, ResolvedIs
  <2>4. Ok(Rec("run", Resolved(work), Canonical(current), task[t].read, task[t].took,
               task[t].store))
    BY <2>2, <2>3 DEF Rec, Allowed
  <2>5. QED
    BY <1>2, <2>1, <2>4
<1>6. ASSUME NEW t \in Tasks, Quiet(t) PROVE Approving'
  <2>1. PICK pc \in {"run", "rejected", "refused", "done"}, todo \in Seq(Invocations) :
            /\ Becomes(t, Rec(pc, todo, task[t].approved, task[t].read, task[t].took, task[t].store))
            /\ pc = "run" =>
                    task[t].pc = "run" /\ task[t].todo # <<>> /\ todo = Tail(task[t].todo)
    BY <1>6 DEF Quiet
  <2>2. CASE pc = "run"
    <3>1. /\ task[t].pc \in Active /\ task[t].todo # <<>>
          /\ Becomes(t, Rec("run", Tail(task[t].todo), task[t].approved, task[t].read,
                            task[t].took, task[t].store))
      BY <2>1, <2>2 DEF Active
    <3>2. QED
      BY <1>4, <3>1
  <2>3. CASE pc # "run"
    <3>1. Ok(Rec(pc, todo, task[t].approved, task[t].read, task[t].took, task[t].store))
      BY <1>1, <2>3 DEF Rec, Active
    <3>2. QED
      BY <1>2, <2>1, <3>1
  <2>4. QED
    BY <2>2, <2>3
<1>7. ASSUME NEW t \in Tasks, ToolFails(t) PROVE Approving'
  <2>1. Allowed(Opened(t), task[t].approved)
    BY <1>7, OpenedIs DEF ToolFails
  <2>2. Ok(Rec("failed", task[t].todo, task[t].approved, task[t].read \cup Opened(t),
               task[t].took, task[t].store))
    BY <1>1, <2>1 DEF Rec, Active, Allowed
  <2>3. QED
    BY <1>2, <1>7, <2>2, FailsIs
<1>8. ASSUME NEW t \in Tasks, ToolAnswers(t) PROVE Approving'
  <2>1. PICK took \in Latencies :
            Becomes(t, Rec("measure", task[t].todo, task[t].approved,
                           task[t].read \cup Opened(t), took, task[t].store))
    BY <1>8, AnswersIs
  <2>2. Allowed(Opened(t), task[t].approved) /\ task[t].pc \in Active
    BY <1>8, OpenedIs DEF ToolAnswers, Asking, Active
  <2>3. Ok(Rec("measure", task[t].todo, task[t].approved, task[t].read \cup Opened(t), took,
               task[t].store))
    BY <1>1, <2>2 DEF Rec, Allowed
  <2>4. QED
    BY <1>2, <2>1, <2>3
<1>9. ASSUME NEW t \in Tasks, LoadMetrics(t) \/ TruncateMetrics(t) PROVE Approving'
  <2>1. task[t].pc \in Active
    BY <1>9 DEF LoadMetrics, TruncateMetrics, Active
  <2>2. CASE LoadMetrics(t)
    BY <1>3, <2>1, <2>2, LoadIs
  <2>3. CASE TruncateMetrics(t)
    BY <1>3, <2>1, <2>3, TruncateIs
  <2>4. QED
    BY <1>9, <2>2, <2>3
<1>10. ASSUME NEW t \in Tasks, LoadMetricsFails(t) \/ Ends(t) PROVE Approving'
  BY <1>4, <1>10, ProceedIs DEF LoadMetricsFails, Ends, Active, Measuring
<1>11. CASE Refresh \/ Turn
  BY <1>11 DEF Refresh, Turn, Approving
<1>12. CASE Restart
  BY <1>1, <1>12 DEF Restart, Approving, Allowed, Idle, Active
<1>13. QED
  BY <1>5, <1>6, <1>7, <1>8, <1>9, <1>10, <1>11, <1>12, QuietIs, EndsIs DEF Next, Handle

-----------------------------------------------------------------------------
(* The history of calls only grows.                                        *)
LEMMA ExecutedGrows ==
    ASSUME Typed, Straight, Approving, Next
    PROVE  \A k \in Tools :
            /\ Len(executed[k]) <= Len(executed'[k])
            /\ \A i \in DOMAIN executed[k] : i \in DOMAIN executed'[k]
                                            /\ executed'[k][i] = executed[k][i]
<1>1. \A k \in Tools : executed[k] \in Seq(Latencies)
  BY DEF Typed
<1>2. CASE executed' = executed
  BY <1>1, <1>2
<1>3. ASSUME NEW t \in Tasks, ToolAnswers(t)
      PROVE  \A k \in Tools :
                /\ Len(executed[k]) <= Len(executed'[k])
                /\ \A i \in DOMAIN executed[k] : i \in DOMAIN executed'[k]
                                                /\ executed'[k][i] = executed[k][i]
  <2>1. PICK took \in Latencies : executed' = [executed EXCEPT ![Asked(t).kind] = Append(@, took)]
    BY <1>3, AnswersIs
  <2>2. \A k \in Tools : executed'[k] = executed[k] \/ executed'[k] = Append(executed[k], took)
    BY <2>1 DEF Typed
  <2>3. QED
    BY <1>1, <2>2
<1>4. QED
  BY <1>2, <1>3 DEF Next, Handle, Accept, Reject, SkipUnknown, RunnerRefuses, ToolFails,
     Answer, LoadMetrics, LoadMetricsFails, TruncateMetrics, TruncateMetricsFails, WriteMetrics,
     WriteMetricsFails, Refresh, Turn, Restart,
     Recorded

(* A task that measures does so with the time the call took.               *)
LEMMA MeasuringStays ==
    ASSUME Typed, Straight, Approving, Measuring, Next PROVE Measuring'
<1> DEFINE Ok(r) ==
        r.pc \in {"measure", "truncate", "write"} =>
            /\ r.todo # <<>> /\ Head(r.todo).kind \in Tools
            /\ r.pc = "measure" =>
                \E i \in DOMAIN executed'[Head(r.todo).kind] :
                    executed'[Head(r.todo).kind][i] = r.took
<1>1. \A u \in Tasks : Ok(task[u])
  BY ExecutedGrows DEF Measuring, Asked
<1>2. ASSUME NEW t \in Tasks, NEW r, Becomes(t, r), Ok(r) PROVE Measuring'
  <2>1. \A u \in Tasks : Ok(task'[u])
    BY <1>1, <1>2, BecomesIs
  <2>2. QED
    BY <2>1 DEF Measuring, Asked
<1>3. ASSUME NEW t \in Tasks, NEW pc, NEW todo, NEW approved, NEW read, NEW took, NEW store,
             Becomes(t, Rec(pc, todo, approved, read, took, store)),
             pc \notin {"measure", "truncate", "write"}
      PROVE  Measuring'
  <2>1. Ok(Rec(pc, todo, approved, read, took, store))
    BY <1>3 DEF Rec
  <2>2. QED
    BY <1>2, <1>3, <2>1
<1>4. ASSUME NEW t \in Tasks, Accept(t) \/ Quiet(t) \/ ToolFails(t) PROVE Measuring'
  <2>1. \E pc, todo, approved, read, took, store :
            /\ Becomes(t, Rec(pc, todo, approved, read, took, store))
            /\ pc \notin {"measure", "truncate", "write"}
    <3>1. CASE Accept(t)
      BY <3>1, AcceptIs
    <3>2. CASE Quiet(t)
      BY <3>2 DEF Quiet
    <3>3. CASE ToolFails(t)
      <4>1. Becomes(t, Rec("failed", task[t].todo, task[t].approved,
                           task[t].read \cup Opened(t), task[t].took, task[t].store))
        BY <3>3, FailsIs
      <4>2. "failed" \notin {"measure", "truncate", "write"}
        OBVIOUS
      <4>3. QED
        BY <4>1, <4>2, Zenon
    <3>4. QED
      BY <1>4, <3>1, <3>2, <3>3
  <2>2. QED
    BY <1>3, <2>1
<1>5. ASSUME NEW t \in Tasks, ToolAnswers(t) PROVE Measuring'
  <2>1. PICK took \in Latencies :
            /\ Becomes(t, Rec("measure", task[t].todo, task[t].approved,
                              task[t].read \cup Opened(t), took, task[t].store))
            /\ executed' = [executed EXCEPT ![Asked(t).kind] = Append(@, took)]
    BY <1>5, AnswersIs
  <2>2. Asked(t).kind \in Tools /\ task[t].todo # <<>>
    BY <1>5, OpenedIs DEF ToolAnswers, Asking
  <2>3. executed[Asked(t).kind] \in Seq(Latencies)
    BY <2>2 DEF Typed
  <2>4. executed'[Asked(t).kind] = Append(executed[Asked(t).kind], took)
    BY <2>1, <2>2 DEF Typed
  <2>5. \E i \in DOMAIN executed'[Asked(t).kind] : executed'[Asked(t).kind][i] = took
    BY <2>3, <2>4
  <2>6. Ok(Rec("measure", task[t].todo, task[t].approved, task[t].read \cup Opened(t), took,
               task[t].store))
    BY <2>2, <2>5 DEF Rec, Asked
  <2>7. QED
    BY <1>2, <2>1, <2>6
<1>6. ASSUME NEW t \in Tasks, LoadMetrics(t) PROVE Measuring'
  <2>1. Ok(Rec("truncate", task[t].todo, task[t].approved, task[t].read, task[t].took,
               WithLatency(metrics, Asked(t).kind, task[t].took)))
    BY <1>1, <1>6 DEF LoadMetrics, Rec
  <2>2. QED
    BY <1>2, <1>6, <2>1, LoadIs
<1>7. ASSUME NEW t \in Tasks, TruncateMetrics(t) PROVE Measuring'
  <2>1. Ok(Rec("write", task[t].todo, task[t].approved, task[t].read, task[t].took,
               task[t].store))
    BY <1>1, <1>7 DEF TruncateMetrics, Rec
  <2>2. QED
    BY <1>2, <1>7, <2>1, TruncateIs
<1>8. ASSUME NEW t \in Tasks, LoadMetricsFails(t) \/ Ends(t) PROVE Measuring'
  <2>1. Proceed(t)
    BY <1>8 DEF LoadMetricsFails, Ends
  <2>2. QED
    BY <1>3, <2>1, ProceedIs
<1>9. CASE Refresh \/ Turn
  BY <1>1, <1>9 DEF Refresh, Turn, Measuring, Asked
<1>10. CASE Restart
  <2>1. \A u \in Tasks : task'[u].pc \in {"idle", "lost"}
    BY <1>10 DEF Restart, Idle
  <2>2. QED
    BY <2>1 DEF Measuring
<1>11. QED
  BY <1>4, <1>5, <1>6, <1>7, <1>8, <1>9, <1>10, QuietIs, EndsIs DEF Next, Handle

-----------------------------------------------------------------------------
(* Averages: every one that is in the file, or is about to be, lies within *)
(* what was observed.                                                      *)
Within(store, calls) ==
    \A k \in DOMAIN store :
        \E i, j \in DOMAIN calls[k] :
            calls[k][i] <= store[k].average /\ store[k].average <= calls[k][j]

Observed ==
    /\ metrics # Cut => Within(metrics, executed)
    /\ \A t \in Tasks : Within(task[t].store, executed)

(* A store stays within what was observed, of which there is only more.    *)
LEMMA WithinStays ==
    ASSUME Typed, Straight, Approving, Next, NEW store \in Maps, Within(store, executed)
    PROVE  Within(store, executed')
<1>1. DOMAIN store \subseteq Tools
  BY DEF Maps
<1>2. SUFFICES ASSUME NEW k \in DOMAIN store
               PROVE  \E i, j \in DOMAIN executed'[k] :
                        /\ executed'[k][i] <= store[k].average
                        /\ store[k].average <= executed'[k][j]
  BY DEF Within
<1>3. PICK i \in DOMAIN executed[k], j \in DOMAIN executed[k] :
        executed[k][i] <= store[k].average /\ store[k].average <= executed[k][j]
  BY DEF Within
<1>4. /\ i \in DOMAIN executed'[k] /\ executed'[k][i] = executed[k][i]
      /\ j \in DOMAIN executed'[k] /\ executed'[k][j] = executed[k][j]
  BY <1>1, ExecutedGrows
<1>5. QED
  BY <1>3, <1>4

(* An update of the metrics leads no average out of what was observed.     *)
LEMMA WithLatencyWithin ==
    ASSUME Typed, NEW store \in Maps, Within(store, executed), NEW kind \in Tools, NEW took \in Nat,
           \E i \in DOMAIN executed[kind] : executed[kind][i] = took
    PROVE  Within(WithLatency(store, kind, took), executed)
<1> DEFINE new == WithLatency(store, kind, took)
           Bounded(k, average) ==
                \E i, j \in DOMAIN executed[k] :
                    executed[k][i] <= average /\ average <= executed[k][j]
<1>1. /\ new \in Maps /\ DOMAIN new = DOMAIN store \cup {kind}
      /\ \A k \in DOMAIN store \ {kind} : new[k] = store[k]
      /\ kind \notin DOMAIN store => new[kind].average = took
      /\ kind \in DOMAIN store =>
            \/ store[kind].average <= new[kind].average /\ new[kind].average <= took
            \/ took <= new[kind].average /\ new[kind].average <= store[kind].average
  BY WithLatencyIs
<1> HIDE DEF new
<1>2. PICK m \in DOMAIN executed[kind] : executed[kind][m] = took
  OBVIOUS
<1>3. /\ executed[kind] \in Seq(Latencies) /\ Latencies \subseteq Nat
      /\ \A i \in DOMAIN executed[kind] : executed[kind][i] \in Nat
  <2>1. executed[kind] \in Seq(Latencies)
    BY DEF Typed
  <2>2. \A i \in DOMAIN executed[kind] : executed[kind][i] \in Latencies
    BY <2>1
  <2>3. QED
    BY <2>1, <2>2, LatenciesAreNat
<1>4. new[kind].average \in Nat
  BY <1>1 DEF Maps
<1>5. Bounded(kind, new[kind].average)
  <2>1. CASE kind \notin DOMAIN store
    <3>1. new[kind].average = took
      BY <1>1, <2>1
    <3>2. executed[kind][m] <= new[kind].average /\ new[kind].average <= executed[kind][m]
      BY <1>2, <3>1
    <3>3. QED
      BY <3>2
  <2>2. CASE kind \in DOMAIN store
    <3>1. PICK i \in DOMAIN executed[kind], j \in DOMAIN executed[kind] :
            executed[kind][i] <= store[kind].average /\ store[kind].average <= executed[kind][j]
      BY <2>2 DEF Within
    <3>2. store[kind].average \in Nat
      BY <2>2 DEF Maps
    <3>3. CASE store[kind].average <= new[kind].average /\ new[kind].average <= took
      <4>1. executed[kind][i] <= new[kind].average /\ new[kind].average <= executed[kind][m]
        BY <1>2, <1>3, <1>4, <3>1, <3>2, <3>3
      <4>2. QED
        BY <4>1
    <3>4. CASE took <= new[kind].average /\ new[kind].average <= store[kind].average
      <4>1. executed[kind][m] <= new[kind].average /\ new[kind].average <= executed[kind][j]
        BY <1>2, <1>3, <1>4, <3>1, <3>2, <3>4
      <4>2. QED
        BY <4>1
    <3>5. QED
      BY <1>1, <2>2, <3>3, <3>4
  <2>3. QED
    BY <2>1, <2>2
<1>6. \A k \in DOMAIN store \ {kind} : Bounded(k, new[k].average)
  BY <1>1 DEF Within
<1>7. \A k \in DOMAIN new : Bounded(k, new[k].average)
  BY <1>1, <1>5, <1>6
<1>8. QED
  BY <1>7 DEF Within, new

LEMMA ObservedStays ==
    ASSUME Typed, Straight, Approving, Measuring, Observed, Next PROVE Observed'
<1>1. \A u \in Tasks : Within(task[u].store, executed')
  BY FieldTypes, WithinStays DEF Observed
<1>2. metrics # Cut => Within(metrics, executed')
  BY WithinStays DEF Observed, Typed
<1>3. Within(<<>>, executed')
  BY EmptyMap DEF Within
<1>4. ASSUME NEW t \in Tasks, NEW r, Becomes(t, r), Within(r.store, executed'),
             metrics' # Cut => Within(metrics', executed')
      PROVE  Observed'
  <2>1. \A u \in Tasks : Within(task'[u].store, executed')
    BY <1>1, <1>4, BecomesIs
  <2>2. QED
    BY <1>4, <2>1 DEF Observed
<1>5. ASSUME NEW t \in Tasks, NEW pc, NEW todo, NEW approved, NEW read, NEW took, NEW store,
             Becomes(t, Rec(pc, todo, approved, read, took, store)), Within(store, executed'),
             metrics' # Cut => Within(metrics', executed')
      PROVE  Observed'
  <2>1. Rec(pc, todo, approved, read, took, store).store = store
    BY DEF Rec
  <2>2. QED
    BY <1>4, <1>5, <2>1
<1>6. ASSUME NEW t \in Tasks, Accept(t) \/ (Quiet(t) /\ UNCHANGED Recorded) \/ ToolFails(t)
      PROVE  Observed'
  <2>1. \E pc, todo, approved, read, took :
            Becomes(t, Rec(pc, todo, approved, read, took, task[t].store))
    <3>1. CASE Accept(t)
      BY <3>1, AcceptIs
    <3>2. CASE Quiet(t)
      BY <3>2 DEF Quiet
    <3>3. CASE ToolFails(t)
      <4>1. Becomes(t, Rec("failed", task[t].todo, task[t].approved,
                           task[t].read \cup Opened(t), task[t].took, task[t].store))
        BY <3>3, FailsIs
      <4>2. QED
        BY <4>1, Zenon
    <3>4. QED
      BY <1>6, <3>1, <3>2, <3>3
  <2>2. metrics' = metrics
    BY <1>6 DEF Accept, ToolFails, Recorded
  <2>3. QED
    BY <1>1, <1>2, <1>5, <2>1, <2>2
<1>7. ASSUME NEW t \in Tasks, ToolAnswers(t) PROVE Observed'
  BY <1>1, <1>2, <1>5, <1>7, AnswersIs DEF ToolAnswers
<1>8. ASSUME NEW t \in Tasks, LoadMetrics(t) PROVE Observed'
  <2>1. /\ metrics # Cut /\ metrics \in Maps /\ metrics' = metrics /\ executed' = executed
        /\ Asked(t).kind \in Tools
        /\ \E i \in DOMAIN executed[Asked(t).kind] : executed[Asked(t).kind][i] = task[t].took
    BY <1>8 DEF LoadMetrics, Measuring, Typed
  <2>2. task[t].took \in Nat
    <3>1. task[t].took \in Latencies \cup {0}
      BY FieldTypes
    <3>2. QED
      BY <3>1, LatenciesAreNat, Zenon
  <2>3. Within(WithLatency(metrics, Asked(t).kind, task[t].took), executed)
    BY <2>1, <2>2, WithLatencyWithin DEF Observed
  <2>4. QED
    BY <1>2, <1>5, <1>8, <2>1, <2>3, LoadIs
<1>9. ASSUME NEW t \in Tasks, LoadMetricsFails(t) PROVE Observed'
  BY <1>2, <1>3, <1>5, <1>9, ProceedIs DEF LoadMetricsFails
<1>10. ASSUME NEW t \in Tasks, TruncateMetrics(t) PROVE Observed'
  BY <1>1, <1>5, <1>10, TruncateIs DEF TruncateMetrics
<1>11. ASSUME NEW t \in Tasks, Ends(t) PROVE Observed'
  <2>1. Proceed(t) /\ metrics' \in {task[t].store, metrics, Cut}
    BY <1>11 DEF Ends
  <2>2. metrics' # Cut => Within(metrics', executed')
    BY <1>1, <1>2, <2>1
  <2>3. QED
    BY <1>3, <1>5, <2>1, <2>2, ProceedIs
<1>12. CASE Refresh \/ Turn
  BY <1>1, <1>2, <1>12 DEF Refresh, Turn, Recorded, Observed
<1>13. CASE Restart
  <2>1. \A u \in Tasks : task'[u].store = <<>>
    BY <1>13 DEF Restart, Idle
  <2>2. QED
    BY <1>2, <1>3, <1>13, <2>1 DEF Restart, Observed
<1>14. QED
  BY <1>6, <1>7, <1>8, <1>9, <1>10, <1>11, <1>12, <1>13, QuietIs, EndsIs DEF Next, Handle, Recorded

-----------------------------------------------------------------------------
(* Counts: calls that succeeded and are not counted yet.                   *)
Calling(k) == {t \in Tasks : task[t].pc = "measure" /\ Asked(t).kind = k}
Busy == [k \in Tools |-> Cardinality(Calling(k))]

(* Whether a task that is as r is one of them.                             *)
Weight(r, k) == IF r.pc = "measure" /\ Head(r.todo).kind = k THEN 1 ELSE 0

LEMMA BusyType == \A k \in Tools : Busy[k] \in Nat /\ IsFiniteSet(Calling(k))
<1>1. \A k \in Tools : Calling(k) \subseteq Tasks
  BY DEF Calling
<1>2. IsFiniteSet(Tasks)
  BY AgentAssumption
<1>3. \A k \in Tools : IsFiniteSet(Calling(k))
  BY <1>1, <1>2, FS_Subset
<1>4. \A k \in Tools : Cardinality(Calling(k)) \in Nat
  BY <1>3, FS_CardinalityType
<1>5. QED
  BY <1>3, <1>4 DEF Busy

LEMMA BusyIs ==
    ASSUME Typed, NEW t \in Tasks, NEW r, Becomes(t, r), NEW k \in Tools
    PROVE  /\ Busy[k] \in Nat /\ Busy'[k] \in Nat
           /\ Busy'[k] + Weight(task[t], k) = Busy[k] + Weight(r, k)
<1> DEFINE C == Calling(k)
           D == Calling(k)'
<1>1. IsFiniteSet(C) /\ Cardinality(C) \in Nat
  BY BusyType, FS_CardinalityType
<1>2. task'[t] = r /\ \A u \in Tasks \ {t} : task'[u] = task[u]
  BY BecomesIs
<1>3. \A u \in Tasks \ {t} : u \in D <=> u \in C
  BY <1>2 DEF Calling, Asked
<1>4. t \in C <=> Weight(task[t], k) = 1
  BY DEF Calling, Asked, Weight
<1>5. t \in D <=> Weight(r, k) = 1
  BY <1>2 DEF Calling, Asked, Weight
<1>6. C \subseteq Tasks /\ D \subseteq Tasks
  BY DEF Calling
<1>7. Weight(task[t], k) \in {0, 1} /\ Weight(r, k) \in {0, 1}
  BY DEF Weight
<1>8. Busy[k] = Cardinality(C) /\ Busy'[k] = Cardinality(D)
  BY DEF Busy
<1> HIDE DEF C, D
<1>9. CASE t \in C /\ t \notin D
  <2>1. D = C \ {t}
    BY <1>3, <1>6, <1>9
  <2>2. Cardinality(D) = Cardinality(C) - 1 /\ Cardinality(D) \in Nat
    BY <1>1, <1>9, <2>1, FS_RemoveElement, FS_CardinalityType
  <2>3. QED
    BY <1>1, <1>4, <1>5, <1>7, <1>8, <1>9, <2>2
<1>10. CASE t \notin C /\ t \in D
  <2>1. D = C \cup {t}
    BY <1>3, <1>6, <1>10
  <2>2. Cardinality(D) = Cardinality(C) + 1
    BY <1>1, <1>10, <2>1, FS_AddElement
  <2>3. QED
    BY <1>1, <1>4, <1>5, <1>7, <1>8, <1>10, <2>2
<1>11. CASE t \in C <=> t \in D
  <2>1. D = C
    BY <1>3, <1>6, <1>11
  <2>2. Weight(task[t], k) = Weight(r, k)
    BY <1>4, <1>5, <1>7, <1>11
  <2>3. Cardinality(D) = Cardinality(C)
    BY <2>1
  <2>4. QED
    BY <1>1, <1>7, <1>8, <2>2, <2>3
<1>12. QED
  BY <1>9, <1>10, <1>11

(* What the counts of a store leave room for.                              *)
Tallied(store, calls, busy) == \A k \in Tools : Count(store, k) + busy[k] <= Len(calls[k])

Counted ==
    /\ metrics # Cut => Tallied(metrics, executed, Busy)
    /\ \A t \in Tasks : Tallied(task[t].store, executed, Busy)

LEMMA CountType == \A store \in Maps : \A k \in Tools : Count(store, k) \in Nat
BY DEF Maps, Count

(* The tasks that are in the middle of an update, after a task changed.    *)
LEMMA UpdatingIs ==
    ASSUME Typed, NEW t \in Tasks, NEW r, Becomes(t, r)
    PROVE  Updating' = IF r.pc \in {"truncate", "write"} THEN Updating \cup {t} ELSE Updating \ {t}
<1>1. task'[t] = r /\ \A u \in Tasks \ {t} : task'[u] = task[u]
  BY BecomesIs
<1>2. QED
  BY <1>1 DEF Updating

(* A step of a task that neither measures nor updates before or after.     *)
LEMMA Unmeasured ==
    ASSUME Typed, NEW t \in Tasks, NEW pc, NEW todo, NEW approved, NEW read, NEW took, NEW store,
           Becomes(t, Rec(pc, todo, approved, read, took, store)),
           pc \notin {"measure", "truncate", "write"},
           task[t].pc \notin {"measure", "truncate", "write"}
    PROVE  Busy' = Busy /\ Updating' = Updating
<1> DEFINE r == Rec(pc, todo, approved, read, took, store)
<1>1. r.pc = pc
  BY DEF Rec
<1> HIDE DEF r
<1>2. ASSUME NEW k \in Tools PROVE Busy'[k] = Busy[k]
  <2>1. Weight(r, k) = 0 /\ Weight(task[t], k) = 0
    BY <1>1 DEF Weight
  <2>2. Busy[k] \in Nat /\ Busy'[k] \in Nat /\ Busy'[k] + Weight(task[t], k) = Busy[k] + Weight(r, k)
    BY BusyIs DEF r
  <2>3. QED
    BY <2>1, <2>2
<1>3. Busy' = Busy
  <2>1. Busy = [k \in Tools |-> Busy[k]] /\ Busy' = [k \in Tools |-> Busy'[k]]
    BY DEF Busy
  <2>2. QED
    BY <1>2, <2>1
<1>4. t \notin Updating
  BY DEF Updating
<1>5. Updating' = Updating
  <2>1. Updating' = IF r.pc \in {"truncate", "write"} THEN Updating \cup {t} ELSE Updating \ {t}
    BY UpdatingIs DEF r
  <2>2. QED
    BY <1>1, <1>4, <2>1
<1>6. QED
  BY <1>3, <1>5

One(t, k) == IF Asked(t).kind = k THEN 1 ELSE 0

(* What the steps leave alone that neither measure nor update.             *)
LEMMA ApartIs ==
    ASSUME Typed, NEW t \in Tasks, Accept(t) \/ Quiet(t) \/ ToolFails(t)
    PROVE  /\ Busy' = Busy /\ Updating' = Updating
           /\ \A u \in Tasks : task'[u].store = task[u].store
           /\ \A u \in Updating : task'[u] = task[u]
<1>1. task[t].pc \notin {"measure", "truncate", "write"}
  BY DEF Accept, Quiet, ToolFails, Asking
<1>2. t \notin Updating
  BY <1>1 DEF Updating
<1>3. ASSUME NEW pc, NEW todo, NEW approved, NEW read, NEW took,
             pc \notin {"measure", "truncate", "write"},
             Becomes(t, Rec(pc, todo, approved, read, took, task[t].store))
      PROVE  /\ Busy' = Busy /\ Updating' = Updating
             /\ \A u \in Tasks : task'[u].store = task[u].store
             /\ \A u \in Updating : task'[u] = task[u]
  <2>1. Busy' = Busy /\ Updating' = Updating
    BY <1>1, <1>3, Unmeasured
  <2>2. /\ task'[t] = Rec(pc, todo, approved, read, took, task[t].store)
        /\ \A u \in Tasks \ {t} : task'[u] = task[u]
    BY <1>3, BecomesIs
  <2>3. task'[t].store = task[t].store
    BY <2>2 DEF Rec
  <2>4. QED
    BY <1>2, <2>1, <2>2, <2>3 DEF Updating
<1>4. CASE Accept(t)
  <2>1. PICK work \in Workloads :
            Becomes(t, Rec("run", Resolved(work), Canonical(current), task[t].read, task[t].took,
                           task[t].store))
    BY <1>4, AcceptIs
  <2>2. QED
    BY <1>3, <2>1
<1>5. CASE Quiet(t)
  <2>1. PICK pc \in {"run", "rejected", "refused", "done"}, todo \in Seq(Invocations) :
            Becomes(t, Rec(pc, todo, task[t].approved, task[t].read, task[t].took, task[t].store))
    BY <1>5 DEF Quiet
  <2>2. QED
    BY <1>3, <2>1
<1>6. CASE ToolFails(t)
  <2>1. Becomes(t, Rec("failed", task[t].todo, task[t].approved, task[t].read \cup Opened(t),
                       task[t].took, task[t].store))
    BY <1>6, FailsIs
  <2>2. QED
    BY <1>3, <2>1
<1>7. QED
  BY <1>4, <1>5, <1>6

(* A successful call is one more, and one more to be counted.              *)
LEMMA AnswerCounts ==
    ASSUME Typed, Straight, Approving, NEW t \in Tasks, ToolAnswers(t)
    PROVE  /\ \A k \in Tools : /\ Busy[k] \in Nat /\ Busy'[k] = Busy[k] + One(t, k)
                               /\ Len(executed'[k]) = Len(executed[k]) + One(t, k)
           /\ Updating' = Updating
           /\ \A u \in Tasks : task'[u].store = task[u].store
           /\ \A u \in Updating : task'[u] = task[u]
<1>1. PICK took \in Latencies :
        /\ Becomes(t, Rec("measure", task[t].todo, task[t].approved, task[t].read \cup Opened(t),
                          took, task[t].store))
        /\ executed' = [executed EXCEPT ![Asked(t).kind] = Append(@, took)]
  BY AnswersIs
<1> DEFINE r == Rec("measure", task[t].todo, task[t].approved, task[t].read \cup Opened(t), took,
                    task[t].store)
<1>2. r.pc = "measure" /\ r.todo = task[t].todo /\ r.store = task[t].store
  BY DEF Rec
<1>3. Becomes(t, r)
  BY <1>1
<1> HIDE DEF r
<1>4. Asked(t).kind \in Tools /\ task[t].pc = "run"
  BY OpenedIs DEF ToolAnswers, Asking
<1>5. ASSUME NEW k \in Tools PROVE Busy[k] \in Nat /\ Busy'[k] = Busy[k] + One(t, k)
  <2>1. Weight(task[t], k) = 0 /\ Weight(r, k) = One(t, k)
    BY <1>2, <1>4 DEF Weight, One, Asked
  <2>2. Busy[k] \in Nat /\ Busy'[k] \in Nat /\ Busy'[k] + Weight(task[t], k) = Busy[k] + Weight(r, k)
    BY <1>3, BusyIs
  <2>3. One(t, k) \in {0, 1}
    BY DEF One
  <2>4. QED
    BY <2>1, <2>2, <2>3
<1>6. ASSUME NEW k \in Tools PROVE Len(executed'[k]) = Len(executed[k]) + One(t, k)
  <2>1. executed[k] \in Seq(Latencies)
    BY DEF Typed
  <2>2. executed'[k] = IF Asked(t).kind = k THEN Append(executed[k], took) ELSE executed[k]
    BY <1>1 DEF Typed
  <2>3. Len(Append(executed[k], took)) = Len(executed[k]) + 1 /\ Len(executed[k]) \in Nat
    BY <2>1
  <2>4. CASE Asked(t).kind = k
    <3>1. Len(executed'[k]) = Len(executed[k]) + 1
      BY <2>2, <2>3, <2>4
    <3>2. QED
      BY <2>4, <3>1 DEF One
  <2>5. CASE Asked(t).kind # k
    <3>1. executed'[k] = executed[k]
      BY <2>2, <2>5
    <3>2. QED
      BY <2>3, <2>5, <3>1 DEF One
  <2>6. QED
    BY <2>4, <2>5
<1>7. task'[t] = r /\ \A u \in Tasks \ {t} : task'[u] = task[u]
  BY <1>3, BecomesIs
<1>8. t \notin Updating
  BY <1>4 DEF Updating
<1>9. Updating' = Updating
  BY <1>2, <1>3, <1>8, UpdatingIs
<1>10. \A u \in Tasks : task'[u].store = task[u].store
  BY <1>2, <1>7
<1>11. \A u \in Updating : task'[u] = task[u]
  BY <1>7, <1>8 DEF Updating
<1>12. QED
  BY <1>5, <1>6, <1>9, <1>10, <1>11

(* A call that is counted, or never will be, is to be counted no more.     *)
LEMMA LoadCounts ==
    ASSUME Typed, Measuring, NEW t \in Tasks, LoadMetrics(t) \/ LoadMetricsFails(t)
    PROVE  /\ \A k \in Tools : Busy'[k] \in Nat /\ Busy[k] = Busy'[k] + One(t, k)
           /\ \A u \in Tasks \ {t} : task'[u] = task[u]
           /\ t \notin Updating /\ Asked(t).kind \in Tools
           /\ LoadMetrics(t) =>
                /\ task'[t].store = WithLatency(metrics, Asked(t).kind, task[t].took)
                /\ task'[t].pc = "truncate" /\ Asked(t)' = Asked(t)
                /\ Updating' = Updating \cup {t}
           /\ LoadMetricsFails(t) => task'[t].store = <<>> /\ Updating' = Updating
<1>1. task[t].pc = "measure" /\ Asked(t).kind \in Tools
  BY DEF LoadMetrics, LoadMetricsFails, Measuring
<1>2. t \notin Updating
  BY <1>1 DEF Updating
<1>3. ASSUME NEW r, Becomes(t, r), r.pc # "measure"
      PROVE  \A k \in Tools : Busy'[k] \in Nat /\ Busy[k] = Busy'[k] + One(t, k)
  <2>1. SUFFICES ASSUME NEW k \in Tools PROVE Busy'[k] \in Nat /\ Busy[k] = Busy'[k] + One(t, k)
    OBVIOUS
  <2>2. Weight(task[t], k) = One(t, k) /\ Weight(r, k) = 0
    BY <1>1, <1>3 DEF Weight, One, Asked
  <2>3. Busy[k] \in Nat /\ Busy'[k] \in Nat /\ Busy'[k] + Weight(task[t], k) = Busy[k] + Weight(r, k)
    BY <1>3, BusyIs
  <2>4. QED
    BY <2>2, <2>3
<1>4. CASE LoadMetrics(t)
  <2> DEFINE r == Rec("truncate", task[t].todo, task[t].approved, task[t].read, task[t].took,
                      WithLatency(metrics, Asked(t).kind, task[t].took))
  <2>1. Becomes(t, r)
    BY <1>4, LoadIs
  <2>2. /\ r.pc = "truncate" /\ r.todo = task[t].todo
        /\ r.store = WithLatency(metrics, Asked(t).kind, task[t].took)
    BY DEF Rec
  <2> HIDE DEF r
  <2>3. task'[t] = r /\ \A u \in Tasks \ {t} : task'[u] = task[u]
    BY <2>1, BecomesIs
  <2>4. Updating' = Updating \cup {t}
    BY <2>1, <2>2, UpdatingIs
  <2>5. Asked(t)' = Asked(t)
    BY <2>2, <2>3 DEF Asked
  <2>6. ~LoadMetricsFails(t)
    <3>1. LoadMetricsFails(t) => task'[t].pc = "run"
      BY PointIs DEF LoadMetricsFails
    <3>2. QED
      BY <2>2, <2>3, <3>1
  <2>7. \A k \in Tools : Busy'[k] \in Nat /\ Busy[k] = Busy'[k] + One(t, k)
    BY <1>3, <2>1, <2>2
  <2>8. QED
    BY <1>1, <1>2, <2>2, <2>3, <2>4, <2>5, <2>6, <2>7
<1>5. CASE LoadMetricsFails(t)
  <2> DEFINE r == Rec("run", Tail(task[t].todo), task[t].approved, task[t].read, 0, <<>>)
  <2>1. Becomes(t, r)
    BY <1>5, ProceedIs DEF LoadMetricsFails
  <2>2. r.pc = "run" /\ r.store = <<>>
    BY DEF Rec
  <2> HIDE DEF r
  <2>3. task'[t] = r /\ \A u \in Tasks \ {t} : task'[u] = task[u]
    BY <2>1, BecomesIs
  <2>4. Updating' = Updating
    BY <1>2, <2>1, <2>2, UpdatingIs
  <2>5. ~LoadMetrics(t)
    <3>1. LoadMetrics(t) => task'[t].pc = "truncate"
      BY PointIs
    <3>2. QED
      BY <2>2, <2>3, <3>1
  <2>6. \A k \in Tools : Busy'[k] \in Nat /\ Busy[k] = Busy'[k] + One(t, k)
    BY <1>3, <2>1, <2>2
  <2>7. QED
    BY <1>1, <1>2, <2>2, <2>3, <2>4, <2>5, <2>6
<1>6. QED
  BY <1>4, <1>5

(* Opening the file, and the end of an update, leave every call where it   *)
(* is.                                                                     *)
LEMMA WriteCounts ==
    ASSUME Typed, NEW t \in Tasks, TruncateMetrics(t) \/ Ends(t)
    PROVE  /\ Busy' = Busy /\ t \in Updating
           /\ \A u \in Tasks \ {t} : task'[u] = task[u]
           /\ TruncateMetrics(t) =>
                task'[t].store = task[t].store /\ task'[t].pc = "write" /\ Updating' = Updating
           /\ Ends(t) => task'[t].store = <<>> /\ Updating' = Updating \ {t}
<1>1. task[t].pc \in {"truncate", "write"} /\ t \in Updating
  BY DEF TruncateMetrics, Ends, Updating
<1>2. ASSUME NEW r, Becomes(t, r), r.pc # "measure" PROVE Busy' = Busy
  <2>1. \A k \in Tools : Weight(task[t], k) = 0 /\ Weight(r, k) = 0
    BY <1>1, <1>2 DEF Weight
  <2>2. \A k \in Tools : /\ Busy[k] \in Nat /\ Busy'[k] \in Nat
                         /\ Busy'[k] + Weight(task[t], k) = Busy[k] + Weight(r, k)
    BY <1>2, BusyIs
  <2>3. \A k \in Tools : Busy'[k] = Busy[k]
    BY <2>1, <2>2
  <2>4. Busy = [k \in Tools |-> Busy[k]] /\ Busy' = [k \in Tools |-> Busy'[k]]
    BY DEF Busy
  <2>5. QED
    BY <2>3, <2>4
<1>3. CASE TruncateMetrics(t)
  <2> DEFINE r == Rec("write", task[t].todo, task[t].approved, task[t].read, task[t].took,
                      task[t].store)
  <2>1. Becomes(t, r)
    BY <1>3, TruncateIs
  <2>2. r.pc = "write" /\ r.store = task[t].store
    BY DEF Rec
  <2> HIDE DEF r
  <2>3. task'[t] = r /\ \A u \in Tasks \ {t} : task'[u] = task[u]
    BY <2>1, BecomesIs
  <2>4. Updating' = Updating
    BY <1>1, <2>1, <2>2, UpdatingIs
  <2>5. ~Ends(t)
    <3>1. Ends(t) => task'[t].pc = "run"
      BY PointIs DEF Ends
    <3>2. task'[t].pc = "write"
      BY <2>1, <2>2, BecomesIs
    <3>3. QED
      BY <3>1, <3>2
  <2>6. QED
    BY <1>1, <1>2, <2>1, <2>2, <2>3, <2>4, <2>5
<1>4. CASE Ends(t)
  <2> DEFINE r == Rec("run", Tail(task[t].todo), task[t].approved, task[t].read, 0, <<>>)
  <2>1. Becomes(t, r)
    BY <1>4, ProceedIs DEF Ends
  <2>2. r.pc = "run" /\ r.store = <<>>
    BY DEF Rec
  <2> HIDE DEF r
  <2>3. task'[t] = r /\ \A u \in Tasks \ {t} : task'[u] = task[u]
    BY <2>1, BecomesIs
  <2>4. Updating' = Updating \ {t}
    BY <2>1, <2>2, UpdatingIs
  <2>5. ~TruncateMetrics(t)
    <3>1. TruncateMetrics(t) => task'[t].pc = "write"
      BY PointIs
    <3>2. QED
      BY <2>2, <2>3, <3>1
  <2>6. QED
    BY <1>1, <1>2, <2>1, <2>2, <2>3, <2>4, <2>5
<1>5. QED
  BY <1>3, <1>4

(* After a restart nothing is left to count.                               *)
LEMMA RestartCounts ==
    ASSUME Typed, Restart
    PROVE  /\ \A k \in Tools : Busy'[k] = 0
           /\ Updating' = {} /\ \A u \in Tasks : task'[u].store = <<>>
<1>1. \A u \in Tasks : task'[u].pc \in {"idle", "lost"} /\ task'[u].store = <<>>
  BY DEF Restart, Idle
<1>2. Updating' = {}
  BY <1>1 DEF Updating
<1>3. ASSUME NEW k \in Tools PROVE Busy'[k] = 0
  <2>1. Calling(k)' = {}
    BY <1>1 DEF Calling
  <2>2. Busy'[k] = Cardinality(Calling(k)')
    BY DEF Busy
  <2>3. QED
    BY <2>1, <2>2, FS_EmptySet
<1>4. QED
  BY <1>1, <1>2, <1>3

LEMMA EmptyTally ==
    ASSUME NEW store \in Maps, NEW calls, NEW busy,
           \A k \in Tools : busy[k] \in Nat /\ Len(calls[k]) \in Nat,
           Tallied(store, calls, busy)
    PROVE  Tallied(<<>>, calls, busy)
<1>1. \A k \in Tools : Count(<<>>, k) = 0
  BY EmptyMap DEF Count
<1>2. QED
  BY <1>1, CountType DEF Tallied

LEMMA CountedStays ==
    ASSUME Typed, Straight, Approving, Measuring, Counted, Next PROVE Counted'
<1>1. \A k \in Tools : Busy[k] \in Nat /\ Len(executed[k]) \in Nat
  BY BusyType DEF Typed
<1>2. \A u \in Tasks : task[u].store \in Maps /\ Tallied(task[u].store, executed, Busy)
  BY FieldTypes DEF Counted
<1>3. metrics # Cut => metrics \in Maps /\ Tallied(metrics, executed, Busy)
  BY DEF Counted, Typed
<1>4. ASSUME NEW t \in Tasks, Accept(t) \/ Quiet(t) \/ ToolFails(t), UNCHANGED Recorded
      PROVE  Counted'
  BY <1>4, ApartIs DEF Counted, Recorded
<1>5. ASSUME NEW t \in Tasks, ToolAnswers(t) PROVE Counted'
  <2>1. \A k \in Tools : /\ Busy[k] \in Nat /\ Busy'[k] = Busy[k] + One(t, k)
                         /\ Len(executed'[k]) = Len(executed[k]) + One(t, k)
                         /\ One(t, k) \in {0, 1}
    BY <1>5, AnswerCounts DEF One
  <2>2. ASSUME NEW store \in Maps, Tallied(store, executed, Busy)
        PROVE  Tallied(store, executed', Busy')
    BY <1>1, <2>1, <2>2, CountType DEF Tallied
  <2>3. metrics' = metrics /\ \A u \in Tasks : task'[u].store = task[u].store
    BY <1>5, AnswerCounts DEF ToolAnswers
  <2>4. QED
    BY <1>2, <1>3, <2>2, <2>3 DEF Counted
<1>6. ASSUME NEW t \in Tasks, LoadMetrics(t) \/ LoadMetricsFails(t) PROVE Counted'
  <2>1. \A k \in Tools : /\ Busy'[k] \in Nat /\ Busy[k] = Busy'[k] + One(t, k)
                         /\ One(t, k) \in {0, 1}
    BY <1>6, LoadCounts DEF One
  <2>2. executed' = executed /\ metrics' = metrics
    BY <1>6 DEF LoadMetrics, LoadMetricsFails
  <2>3. ASSUME NEW store \in Maps, Tallied(store, executed, Busy)
        PROVE  Tallied(store, executed', Busy')
    BY <1>1, <2>1, <2>2, <2>3, CountType DEF Tallied
  <2>4. \A u \in Tasks \ {t} : Tallied(task'[u].store, executed', Busy')
    BY <1>2, <1>6, <2>3, LoadCounts
  <2>5. CASE LoadMetrics(t)
    <3> DEFINE new == WithLatency(metrics, Asked(t).kind, task[t].took)
    <3>1. metrics # Cut /\ metrics \in Maps /\ Tallied(metrics, executed, Busy)
      BY <1>3, <2>5 DEF LoadMetrics
    <3>2. Asked(t).kind \in Tools /\ task[t].took \in Nat
      <4>1. task[t].took \in Latencies \cup {0}
        BY FieldTypes
      <4>2. task[t].took \in Nat
        BY <4>1, LatenciesAreNat, Zenon
      <4>3. QED
        BY <1>6, <4>2, LoadCounts
    <3>3. /\ new \in Maps /\ DOMAIN new = DOMAIN metrics \cup {Asked(t).kind}
          /\ Count(new, Asked(t).kind) = Count(metrics, Asked(t).kind) + 1
          /\ \A k \in DOMAIN metrics \ {Asked(t).kind} : new[k] = metrics[k]
      BY <3>1, <3>2, WithLatencyIs
    <3> HIDE DEF new
    <3>4. \A k \in Tools : Count(new, k) = Count(metrics, k) + One(t, k)
      <4>1. ASSUME NEW k \in Tools, k # Asked(t).kind PROVE Count(new, k) = Count(metrics, k)
        BY <3>3, <4>1 DEF Count
      <4>2. \A k \in Tools : Count(metrics, k) \in Nat
        BY <3>1, CountType
      <4>3. QED
        BY <3>3, <4>1, <4>2 DEF One
    <3>5. \A k \in Tools : Count(metrics, k) \in Nat
      BY <3>1, CountType
    <3>6. Tallied(new, executed', Busy')
      BY <1>1, <2>1, <2>2, <3>1, <3>4, <3>5 DEF Tallied
    <3>7. task'[t].store = new
      BY <2>5, LoadCounts DEF new
    <3>8. metrics' # Cut => Tallied(metrics', executed', Busy')
      BY <2>2, <2>3, <3>1
    <3>9. QED
      BY <2>4, <3>6, <3>7, <3>8 DEF Counted
  <2>6. CASE LoadMetricsFails(t)
    <3>1. /\ task'[t].store = <<>>
          /\ metrics' # Cut => Tallied(metrics', executed', Busy')
      BY <1>3, <2>2, <2>3, <2>6, LoadCounts
    <3>2. Tallied(task[t].store, executed', Busy') /\ task[t].store \in Maps
      BY <1>2, <2>3
    <3>3. \A k \in Tools : Busy'[k] \in Nat /\ Len(executed'[k]) \in Nat
      BY <1>1, <2>1, <2>2
    <3>4. Tallied(<<>>, executed', Busy')
      BY <3>2, <3>3, EmptyTally
    <3>5. QED
      BY <2>4, <3>1, <3>4 DEF Counted
  <2>7. QED
    BY <1>6, <2>5, <2>6
<1>7. ASSUME NEW t \in Tasks, TruncateMetrics(t) PROVE Counted'
  <2>1. \A u \in Tasks : task'[u].store = task[u].store
    BY <1>7, WriteCounts
  <2>2. Busy' = Busy /\ executed' = executed /\ metrics' = Cut
    BY <1>7, WriteCounts DEF TruncateMetrics
  <2>3. QED
    BY <1>2, <2>1, <2>2 DEF Counted
<1>8. ASSUME NEW t \in Tasks, Ends(t) PROVE Counted'
  <2>1. /\ task'[t].store = <<>> /\ Busy' = Busy /\ executed' = executed
        /\ metrics' \in {task[t].store, metrics, Cut}
        /\ \A u \in Tasks \ {t} : task'[u] = task[u]
    BY <1>8, WriteCounts DEF Ends
  <2>2. Tallied(<<>>, executed, Busy)
    BY <1>1, <1>2, EmptyTally
  <2>3. metrics' # Cut => Tallied(metrics', executed', Busy')
    BY <1>2, <1>3, <2>1
  <2>4. QED
    BY <1>2, <2>1, <2>2, <2>3 DEF Counted
<1>9. CASE Refresh \/ Turn
  <2>1. Busy' = Busy
    BY <1>9 DEF Refresh, Turn, Busy, Calling, Asked
  <2>2. QED
    BY <1>9, <2>1 DEF Refresh, Turn, Recorded, Counted
<1>10. CASE Restart
  <2>1. \A k \in Tools : Busy'[k] = 0
    BY <1>10, RestartCounts
  <2>2. executed' = executed /\ metrics' = metrics
    BY <1>10 DEF Restart
  <2>3. ASSUME NEW store \in Maps, Tallied(store, executed, Busy)
        PROVE  Tallied(store, executed', Busy')
    BY <1>1, <2>1, <2>2, <2>3, CountType DEF Tallied
  <2>4. ASSUME NEW u \in Tasks PROVE Tallied(task'[u].store, executed', Busy')
    <3>1. Tallied(task[u].store, executed', Busy') /\ task[u].store \in Maps
      BY <1>2, <2>3
    <3>2. Tallied(<<>>, executed', Busy')
      BY <1>1, <2>1, <2>2, <3>1, EmptyTally
    <3>3. QED
      BY <1>10, <3>2, RestartCounts
  <2>5. QED
    BY <1>3, <2>2, <2>3, <2>4 DEF Counted
<1>11. QED
  BY <1>4, <1>5, <1>6, <1>7, <1>8, <1>9, <1>10, QuietIs,
     EndsIs DEF Next, Handle, Accept, ToolFails

-----------------------------------------------------------------------------
(* While no two updates overlapped and none was killed or failed, the one  *)
(* under way, if there is one, holds every call that is counted nowhere else.    *)
Balanced(store, calls, busy) == \A k \in Tools : Count(store, k) + busy[k] = Len(calls[k])

Exact ==
    ~disturbed =>
        /\ \A t, u \in Updating : t = u
        /\ Updating = {} => metrics # Cut /\ Balanced(metrics, executed, Busy)
        /\ \A t \in Updating :
            /\ Balanced(task[t].store, executed, Busy)
            /\ task[t].pc = "write" => metrics = Cut
            /\ task[t].pc = "truncate" =>
                /\ metrics # Cut
                /\ \A k \in Tools :
                        Count(metrics, k) + Busy[k] + One(t, k) = Len(executed[k])

LEMMA ExactStays ==
    ASSUME Typed, Straight, Approving, Measuring, Exact, Next, Cut \notin Maps PROVE Exact'
<1>1. \A k \in Tools : Busy[k] \in Nat /\ Len(executed[k]) \in Nat
  BY BusyType DEF Typed
<1>2. \A u \in Tasks : task[u].store \in Maps
  BY FieldTypes
<1>3. metrics # Cut => metrics \in Maps
  BY DEF Typed
<1>4. ASSUME UNCHANGED Recorded, Busy' = Busy, Updating' = Updating,
             \A u \in Updating : task'[u] = task[u]
      PROVE  Exact'
  <2>1. \A u \in Updating : \A k \in Tools : One(u, k)' = One(u, k)
    BY <1>4 DEF One, Asked
  <2>2. QED
    BY <1>4, <2>1 DEF Exact, Recorded
<1>5. ASSUME NEW t \in Tasks, ToolAnswers(t) PROVE Exact'
  <2>1. \A k \in Tools : /\ Busy[k] \in Nat /\ Busy'[k] = Busy[k] + One(t, k)
                         /\ Len(executed'[k]) = Len(executed[k]) + One(t, k)
                         /\ One(t, k) \in {0, 1}
    BY <1>5, AnswerCounts DEF One
  <2>2. ASSUME NEW store \in Maps, Balanced(store, executed, Busy)
        PROVE  Balanced(store, executed', Busy')
    BY <1>1, <2>1, <2>2, CountType DEF Balanced
  <2>3. /\ metrics' = metrics /\ disturbed' = disturbed /\ Updating' = Updating
        /\ \A u \in Updating : task'[u] = task[u]
    BY <1>5, AnswerCounts DEF ToolAnswers
  <2>4. \A u \in Updating : \A k \in Tools : One(u, k)' = One(u, k) /\ One(u, k) \in {0, 1}
    BY <2>3 DEF One, Asked
  <2>5. ASSUME NEW u \in Updating, metrics # Cut,
               \A k \in Tools : Count(metrics, k) + Busy[k] + One(u, k) = Len(executed[k])
        PROVE  \A k \in Tools : Count(metrics, k) + Busy'[k] + One(u, k)' = Len(executed'[k])
    <3>1. \A k \in Tools : Count(metrics, k) \in Nat
      BY <1>3, <2>5, CountType
    <3>2. QED
      BY <1>1, <2>1, <2>4, <2>5, <3>1
  <2>6. Updating \subseteq Tasks
    BY DEF Updating
  <2>7. SUFFICES ASSUME ~disturbed
                 PROVE  /\ \A v, u \in Updating : v = u
                        /\ Updating = {} => metrics # Cut /\ Balanced(metrics, executed', Busy')
                        /\ \A u \in Updating :
                            /\ Balanced(task[u].store, executed', Busy')
                            /\ task[u].pc = "write" => metrics = Cut
                            /\ task[u].pc = "truncate" =>
                                /\ metrics # Cut
                                /\ \A k \in Tools :
                                      Count(metrics, k) + Busy'[k] + One(u, k)' = Len(executed'[k])
    BY <2>3 DEF Exact
  <2>8. \A v, u \in Updating : v = u
    BY <2>7 DEF Exact
  <2>9. Updating = {} => metrics # Cut /\ Balanced(metrics, executed', Busy')
    BY <1>3, <2>2, <2>7 DEF Exact
  <2>10. ASSUME NEW u \in Updating
         PROVE  /\ Balanced(task[u].store, executed', Busy')
                /\ task[u].pc = "write" => metrics = Cut
    BY <1>2, <2>2, <2>6, <2>7 DEF Exact
  <2>11. ASSUME NEW u \in Updating, task[u].pc = "truncate"
         PROVE  /\ metrics # Cut
                /\ \A k \in Tools : Count(metrics, k) + Busy'[k] + One(u, k)' = Len(executed'[k])
    BY <2>5, <2>7, <2>11 DEF Exact
  <2>12. QED
    BY <2>8, <2>9, <2>10, <2>11
<1>6. ASSUME NEW t \in Tasks, LoadMetrics(t), ~disturbed' PROVE Exact'
  <2>1. ~disturbed /\ Updating = {} /\ metrics' = metrics /\ executed' = executed
    BY <1>6 DEF LoadMetrics
  <2>2. metrics # Cut /\ metrics \in Maps /\ Balanced(metrics, executed, Busy)
    BY <1>3, <2>1 DEF Exact
  <2>3. /\ \A k \in Tools : Busy'[k] \in Nat /\ Busy[k] = Busy'[k] + One(t, k)
        /\ task'[t].store = WithLatency(metrics, Asked(t).kind, task[t].took)
        /\ task'[t].pc = "truncate" /\ Asked(t)' = Asked(t) /\ Updating' = Updating \cup {t}
        /\ Asked(t).kind \in Tools
    BY <1>6, LoadCounts
  <2>4. task[t].took \in Nat
    <3>1. task[t].took \in Latencies \cup {0}
      BY FieldTypes
    <3>2. QED
      BY <3>1, LatenciesAreNat, Zenon
  <2> DEFINE new == WithLatency(metrics, Asked(t).kind, task[t].took)
  <2>5. /\ new \in Maps /\ DOMAIN new = DOMAIN metrics \cup {Asked(t).kind}
        /\ Count(new, Asked(t).kind) = Count(metrics, Asked(t).kind) + 1
        /\ \A k \in DOMAIN metrics \ {Asked(t).kind} : new[k] = metrics[k]
    <3>1. metrics \in Maps /\ Asked(t).kind \in Tools /\ task[t].took \in Nat
      BY <2>2, <2>3, <2>4
    <3>2. QED
      BY <3>1, WithLatencyIs
  <2>6. task'[t].store = new
    BY <2>3
  <2> HIDE DEF new
  <2>7. \A k \in Tools : Count(metrics, k) \in Nat
    BY <2>2, CountType
  <2>8. \A k \in Tools : Count(new, k) = Count(metrics, k) + One(t, k)
    <3>1. ASSUME NEW k \in Tools, k # Asked(t).kind PROVE Count(new, k) = Count(metrics, k)
      BY <2>5, <3>1 DEF Count
    <3>2. QED
      BY <2>5, <2>7, <3>1 DEF One
  <2>9. \A k \in Tools : One(t, k)' = One(t, k) /\ One(t, k) \in {0, 1}
    BY <2>3 DEF One
  <2>10. Balanced(new, executed', Busy')
    <3>1. SUFFICES ASSUME NEW k \in Tools PROVE Count(new, k) + Busy'[k] = Len(executed'[k])
      BY DEF Balanced
    <3>2. /\ Count(new, k) = Count(metrics, k) + One(t, k) /\ Busy[k] = Busy'[k] + One(t, k)
          /\ Busy'[k] \in Nat /\ Count(metrics, k) \in Nat /\ One(t, k) \in {0, 1}
      BY <2>3, <2>7, <2>8, <2>9
    <3>3. Count(metrics, k) + Busy[k] = Len(executed[k]) /\ executed' = executed
      BY <2>1, <2>2 DEF Balanced
    <3>4. QED
      BY <3>2, <3>3
  <2>11. \A k \in Tools : Count(metrics, k) + Busy'[k] + One(t, k)' = Len(executed[k])
    BY <1>1, <2>2, <2>3, <2>7, <2>9 DEF Balanced
  <2>12. Updating' = {t}
    BY <2>1, <2>3
  <2>13. QED
    BY <2>1, <2>2, <2>3, <2>6, <2>10, <2>11, <2>12 DEF Exact
<1>7. ASSUME NEW t \in Tasks, LoadMetricsFails(t), ~disturbed' PROVE FALSE
  BY <1>7 DEF LoadMetricsFails, Exact
<1>8. ASSUME NEW t \in Tasks, TruncateMetrics(t), ~disturbed' PROVE Exact'
  <2>1. ~disturbed /\ metrics' = Cut /\ executed' = executed
    BY <1>8 DEF TruncateMetrics
  <2>2. /\ Busy' = Busy /\ t \in Updating /\ Updating' = Updating
        /\ task'[t].store = task[t].store /\ task'[t].pc = "write"
    BY <1>8, WriteCounts
  <2>3. Updating = {t} /\ Balanced(task[t].store, executed, Busy)
    BY <2>1, <2>2 DEF Exact
  <2>4. QED
    BY <2>1, <2>2, <2>3 DEF Exact
<1>9. ASSUME NEW t \in Tasks, WriteMetrics(t), ~disturbed' PROVE Exact'
  <2>1. ~disturbed /\ executed' = executed /\ task[t].pc = "write"
    BY <1>9 DEF WriteMetrics
  <2>2. Busy' = Busy /\ t \in Updating /\ Updating' = Updating \ {t}
    BY <1>9, EndsIs, WriteCounts
  <2>3. Updating = {t} /\ Balanced(task[t].store, executed, Busy) /\ metrics = Cut
    BY <2>1, <2>2 DEF Exact
  <2>4. metrics' = task[t].store
    BY <1>9, <2>3 DEF WriteMetrics
  <2>5. metrics' # Cut /\ Updating' = {}
    BY <1>2, <2>2, <2>3, <2>4
  <2>6. Balanced(metrics', executed', Busy')
    BY <2>1, <2>2, <2>3, <2>4
  <2>7. QED
    BY <2>5, <2>6 DEF Exact
<1>10. ASSUME Restart, ~disturbed' PROVE Exact'
  <2>1. ~disturbed /\ executed' = executed /\ metrics' = metrics
    BY <1>10 DEF Restart
  <2>2. \A u \in Tasks : task[u].pc \notin {"measure", "truncate", "write"}
    BY <1>10 DEF Restart
  <2>3. Updating = {} /\ Updating' = {}
    BY <1>10, <2>2, RestartCounts DEF Updating
  <2>4. \A k \in Tools : Busy[k] = 0
    <3>1. \A k \in Tools : Calling(k) = {}
      BY <2>2 DEF Calling
    <3>2. QED
      BY <3>1, FS_EmptySet DEF Busy
  <2>5. \A k \in Tools : Busy'[k] = Busy[k]
    BY <1>10, <2>4, RestartCounts
  <2>6. metrics # Cut /\ Balanced(metrics, executed, Busy)
    BY <2>1, <2>3 DEF Exact
  <2>7. Balanced(metrics', executed', Busy')
    BY <2>1, <2>5, <2>6 DEF Balanced
  <2>8. QED
    BY <2>1, <2>3, <2>6, <2>7 DEF Exact
<1>11. CASE Refresh \/ Turn
  <2>1. Busy' = Busy /\ Updating' = Updating /\ task' = task
    BY <1>11 DEF Refresh, Turn, Busy, Calling, Asked, Updating
  <2>2. QED
    BY <1>4, <1>11, <2>1 DEF Refresh, Turn
<1>12. ASSUME NEW t \in Tasks, Accept(t) \/ Quiet(t) \/ ToolFails(t), UNCHANGED Recorded
       PROVE  Exact'
  BY <1>4, <1>12, ApartIs
<1>13. disturbed' => Exact'
  BY DEF Exact
<1>14. ASSUME NEW t \in Tasks, TruncateMetricsFails(t) \/ WriteMetricsFails(t) PROVE Exact'
  BY <1>13, <1>14 DEF TruncateMetricsFails, WriteMetricsFails
<1>15. QED
  BY <1>5, <1>6, <1>7, <1>8, <1>9, <1>10, <1>11, <1>12, <1>13, <1>14, QuietIs
     DEF Next, Handle, Accept, ToolFails

-----------------------------------------------------------------------------
IInv == Typed /\ Straight /\ Approving /\ Measuring /\ Observed /\ Counted

(* A step that changes no variable.                                        *)
LEMMA Stutters ==
    ASSUME IInv, UNCHANGED vars PROVE IInv' /\ (Exact => Exact')
<1> USE DEF vars
<1>1. Busy' = Busy /\ Updating' = Updating /\ \A t \in Tasks : \A k \in Tools : One(t, k)' = One(t, k)
  BY DEF Busy, Calling, Asked, Updating, One
<1>2. Updating \subseteq Tasks
  BY DEF Updating
<1>3. Exact => Exact'
  BY <1>1, <1>2 DEF Exact
<1>4. Counted' /\ Observed'
  BY <1>1 DEF IInv, Counted, Observed
<1>5. Typed' /\ Straight'
  BY DEF IInv, Typed, Straight
<1>6. Approving' /\ Measuring'
  BY DEF IInv, Approving, Measuring, Asked
<1>7. QED
  BY <1>3, <1>4, <1>5, <1>6 DEF IInv

LEMMA Initial ==
    ASSUME Init PROVE IInv /\ (Cut \notin Maps => Exact)
<1>1. \A t \in Tasks : task[t] = Idle
  BY DEF Init
<1>2. Typed
  <2>1. link \in [Paths -> Roots] /\ current \in RootLists /\ runner \in RootLists
    BY DEF Init
  <2>2. task \in [Tasks -> TaskType]
    BY IdleType DEF Init
  <2>3. metrics \in Maps /\ disturbed \in BOOLEAN
    BY EmptyMap DEF Init
  <2>4. <<>> \in Seq(Latencies)
    OBVIOUS
  <2>5. executed \in [Tools -> Seq(Latencies)]
    BY <2>4 DEF Init
  <2>6. QED
    BY <2>1, <2>2, <2>3, <2>5 DEF Typed
<1>3. Straight
  BY DEF Init, Straight
<1>4. Approving /\ Measuring
  BY <1>1 DEF Approving, Allowed, Measuring, Idle, Active
<1>5. Within(<<>>, executed)
  BY EmptyMap DEF Within
<1>6. Observed
  BY <1>1, <1>5 DEF Init, Observed, Idle
<1>7. \A k \in Tools : Busy[k] = 0 /\ Len(executed[k]) = 0 /\ Count(<<>>, k) = 0
  <2>1. SUFFICES ASSUME NEW k \in Tools
                 PROVE  Busy[k] = 0 /\ Len(executed[k]) = 0 /\ Count(<<>>, k) = 0
    OBVIOUS
  <2>2. Calling(k) = {}
    BY <1>1 DEF Calling, Idle
  <2>3. Busy[k] = 0
    BY <2>2, FS_EmptySet DEF Busy
  <2>4. executed[k] = <<>>
    BY DEF Init
  <2>5. QED
    BY <2>3, <2>4, EmptyMap DEF Count
<1>8. Counted
  <2>1. Tallied(<<>>, executed, Busy)
    BY <1>7 DEF Tallied
  <2>2. QED
    BY <1>1, <2>1 DEF Init, Counted, Idle
<1>9. Cut \notin Maps => Exact
  <2>1. Updating = {} /\ metrics = <<>> /\ <<>> \in Maps
    BY <1>1, EmptyMap DEF Init, Updating, Idle
  <2>2. Balanced(<<>>, executed, Busy)
    BY <1>7 DEF Balanced
  <2>3. QED
    BY <2>1, <2>2 DEF Exact
<1>10. QED
  BY <1>2, <1>3, <1>4, <1>6, <1>8, <1>9 DEF IInv

(* The inductive invariant holds throughout.                               *)
THEOREM Invariance == Spec => []IInv
<1>1. Init => IInv
  BY Initial
<1>2. IInv /\ [Next]_vars => IInv'
  <2>1. ASSUME IInv, Next PROVE IInv'
    BY <2>1, TypedStays, StraightStays, ApprovingStays, MeasuringStays, ObservedStays, CountedStays
       DEF IInv
  <2>2. ASSUME IInv, UNCHANGED vars PROVE IInv'
    BY <2>2, Stutters
  <2>3. QED
    BY <2>1, <2>2
<1>3. QED
  BY <1>1, <1>2, PTL DEF Spec

(* Every variable keeps its type, whatever the tasks do.                   *)
THEOREM TypeCorrect == Spec => []TypeOK
<1>1. IInv => TypeOK
  <2>1. ASSUME NEW store \in Maps PROVE Metrics(store)
    BY DEF Maps, Metrics
  <2>2. SUFFICES ASSUME IInv PROVE TypeOK
    OBVIOUS
  <2>3. Typed
    BY <2>2 DEF IInv
  <2>4. \A t \in Tasks :
            /\ task[t].pc \in Points /\ task[t].todo \in Seq(Invocations)
            /\ task[t].approved \subseteq Roots /\ task[t].read \subseteq Reads
            /\ task[t].took \in Latencies \cup {0} /\ Metrics(task[t].store)
    BY <2>1, <2>3, FieldTypes
  <2>5. metrics = Cut \/ Metrics(metrics)
    BY <2>1, <2>3 DEF Typed
  <2>6. QED
    BY <2>3, <2>4, <2>5 DEF Typed, TypeOK
<1>2. QED
  BY <1>1, Invariance, PTL

(* Repository tools read only directories that were approved when the task *)
(* was accepted: the handler passes on directories and no aliases, so no   *)
(* alias turned later, and no list the runner still has, leads elsewhere.  *)
THEOREM ReadsTheorem == Spec => []ReadsStayApproved
<1>1. IInv => ReadsStayApproved
  BY DEF IInv, Approving, Allowed, ReadsStayApproved
<1>2. QED
  BY <1>1, Invariance, PTL

(* However the unlocked updates of the metrics file overlap or are cut     *)
(* short, the file never counts a call too often and no average leaves the *)
(* range of the calls that were made.                                      *)
THEOREM MetricsTheorem == Spec => []MetricsAreObserved
<1>1. IInv => MetricsAreObserved
  <2>1. SUFFICES ASSUME IInv, metrics # Cut, NEW k \in DOMAIN metrics
                 PROVE  /\ metrics[k].count <= Len(executed[k])
                        /\ \E i, j \in DOMAIN executed[k] :
                            /\ executed[k][i] <= metrics[k].average
                            /\ metrics[k].average <= executed[k][j]
    BY DEF MetricsAreObserved, NeverOvercounts, AverageWithinObserved
  <2>2. k \in Tools /\ metrics[k].count \in Nat /\ Len(executed[k]) \in Nat
    BY <2>1 DEF IInv, Typed, Maps
  <2>3. Count(metrics, k) + Busy[k] <= Len(executed[k]) /\ Busy[k] \in Nat
    BY <2>1, <2>2, BusyType DEF IInv, Counted, Tallied
  <2>4. metrics[k].count <= Len(executed[k])
    BY <2>1, <2>2, <2>3 DEF Count
  <2>5. Within(metrics, executed)
    BY <2>1 DEF IInv, Observed
  <2>6. QED
    BY <2>1, <2>4, <2>5 DEF Within
<1>2. QED
  BY <1>1, Invariance, PTL

(* As long as no two updates of the file overlapped and none was killed or *)
(* failed, every successful call is counted, or is the one being counted.  *)
THEOREM ExactTheorem ==
    ASSUME Cut \notin Maps PROVE Spec => []UndisturbedIsExact
<1>1. Init => Exact
  BY Initial
<1>2. IInv /\ Exact /\ [Next]_vars => Exact'
  <2>1. ASSUME IInv, Exact, Next PROVE Exact'
    BY <2>1, ExactStays DEF IInv
  <2>2. ASSUME IInv, Exact, UNCHANGED vars PROVE Exact'
    BY <2>2, Stutters
  <2>3. QED
    BY <2>1, <2>2
<1>3. IInv /\ Exact => UndisturbedIsExact
  <2>1. SUFFICES ASSUME IInv, Exact, ~disturbed, metrics # Cut, NEW k \in Tools
                 PROVE  Count(metrics, k)
                            + Cardinality({t \in Tasks : task[t].pc \in {"measure", "truncate"}
                                                         /\ Asked(t).kind = k})
                        = Len(executed[k])
    BY DEF UndisturbedIsExact, Count
  <2> DEFINE pending == {t \in Tasks : task[t].pc \in {"measure", "truncate"} /\ Asked(t).kind = k}
  <2>2. /\ Busy[k] \in Nat /\ Busy[k] = Cardinality(Calling(k)) /\ IsFiniteSet(Calling(k))
        /\ Len(executed[k]) \in Nat /\ Count(metrics, k) \in Nat
    <3>1. Busy[k] \in Nat /\ Busy[k] = Cardinality(Calling(k)) /\ IsFiniteSet(Calling(k))
      BY BusyType DEF Busy
    <3>2. Len(executed[k]) \in Nat
      BY <2>1 DEF IInv, Typed
    <3>3. QED
      BY <2>1, <3>1, <3>2, CountType DEF IInv, Typed
  <2>3. CASE Updating = {}
    <3>1. pending = Calling(k)
      BY <2>3 DEF Updating, Calling
    <3>2. Count(metrics, k) + Busy[k] = Len(executed[k])
      BY <2>1, <2>3 DEF Exact, Balanced
    <3>3. QED
      BY <2>2, <3>1, <3>2
  <2>4. CASE Updating # {}
    <3>1. PICK t \in Updating : TRUE
      BY <2>4
    <3>2. Updating = {t} /\ t \in Tasks /\ task[t].pc = "truncate"
      BY <2>1, <3>1 DEF Exact, Updating
    <3>3. Count(metrics, k) + Busy[k] + One(t, k) = Len(executed[k])
      BY <2>1, <3>2 DEF Exact
    <3>4. t \notin Calling(k)
      BY <3>2 DEF Calling
    <3>5. \A u \in Tasks : task[u].pc = "truncate" => u = t
      BY <3>2 DEF Updating
    <3>6. CASE Asked(t).kind = k
      <4>1. pending = Calling(k) \cup {t}
        BY <3>2, <3>5, <3>6 DEF Calling
      <4>2. Cardinality(pending) = Cardinality(Calling(k)) + 1
        BY <2>2, <3>4, <4>1, FS_AddElement
      <4>3. QED
        BY <2>2, <3>3, <3>6, <4>2 DEF One
    <3>7. CASE Asked(t).kind # k
      <4>1. pending = Calling(k)
        BY <3>2, <3>5, <3>7 DEF Calling
      <4>2. One(t, k) = 0
        BY <3>7 DEF One
      <4>3. Cardinality(pending) = Busy[k]
        BY <2>2, <4>1
      <4>4. QED
        BY <2>2, <3>3, <4>2, <4>3
    <3>8. QED
      BY <3>6, <3>7
  <2>5. QED
    BY <2>3, <2>4
<1>4. QED
  BY <1>1, <1>2, <1>3, Invariance, PTL DEF Spec
=============================================================================
