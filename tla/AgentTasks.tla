----------------------------- MODULE AgentTasks -----------------------------
(***************************************************************************)
(* Agent tasks (internal/httpapi/agent_task_handler.go, internal/agent):   *)
(* a handler checks the repository roots of a task against the current     *)
(* snapshot, its runner, which was given its own list when the daemon      *)
(* started, runs the read-only tools, and each success is entered in the   *)
(* metrics file, which all handlers load, change and save without a lock.  *)
(*                                                                         *)
(* A path is a directory or an alias of one (a symbolic link), which may   *)
(* be turned to another directory at any time.  index_lookup takes no root *)
(* but may name a database, which stands here for the directory it is in.  *)
(* What a tool returns and the context package, which is trimmed but never *)
(* refused, are left out.                                                  *)
(***************************************************************************)
EXTENDS Naturals, Sequences, FiniteSets

CONSTANTS
    Tasks,
    Roots,          \* directories
    Aliases,        \* symbolic links to directories
    RootLists,      \* sets of paths a configuration approves
    Workloads,      \* sequences of invocations a task may ask for
    Latencies,      \* milliseconds a tool may take
    NoRoot,         \* an invocation without a repository root, or a database
    Cut             \* the metrics file truncated and not yet written

Paths == Roots \cup Aliases
RootTools == {"read_files", "search_repo", "git_status", "git_diff"}
Tools == RootTools \cup {"index_lookup"}
Invocations == [kind : Tools \cup {"unknown"}, root : Paths \cup {NoRoot},
                db : Paths \cup {NoRoot}]
Reads == [tool : Tools, root : Roots]

ASSUME AgentAssumption ==
    /\ NoRoot \notin Paths /\ Roots \cap Aliases = {} /\ Roots # {}
    /\ RootLists \subseteq SUBSET Paths /\ RootLists # {}
    /\ Workloads \subseteq Seq(Invocations)
    /\ Latencies \subseteq Nat
    /\ IsFiniteSet(Tasks)

VARIABLES
    link,           \* the directory each path leads to
    current,        \* paths approved by the runtime snapshot
    runner,         \* paths approved when the daemon started
    task,           \* what each task asks for and the point it has reached
    metrics,        \* Cut, or a map from tools to their metrics
    executed,       \* history: how long the successful calls of a tool took
    disturbed       \* history: two updates of the metrics overlapped, or one was
                    \* killed or failed

vars == <<link, current, runner, task, metrics, executed, disturbed>>

Updating == {t \in Tasks : task[t].pc \in {"truncate", "write"}}

Idle == [pc |-> "idle", todo |-> <<>>, approved |-> {}, read |-> {},
         took |-> 0, store |-> <<>>]

(* canonicalPath of a set of paths.                                        *)
Canonical(paths) == {link[p] : p \in paths}

Init ==
    /\ link \in {f \in [Paths -> Roots] : \A r \in Roots : f[r] = r}
    /\ current \in RootLists /\ runner = current
    /\ task = [t \in Tasks |-> Idle]
    /\ metrics = <<>>
    /\ executed = [k \in Tools |-> <<>>]
    /\ disturbed = FALSE

Shared == <<link, current, runner>>
Recorded == <<metrics, executed, disturbed>>

-----------------------------------------------------------------------------
(* AgentTaskHandler.ServeHTTP up to the run: every root an invocation      *)
(* names must be approved now, and is replaced by the directory it is.     *)
Named(work) == {work[i].root : i \in DOMAIN work} \ {NoRoot}

Resolved(work) ==
    [i \in DOMAIN work |->
        IF work[i].root = NoRoot THEN work[i]
        ELSE [work[i] EXCEPT !.root = link[@]]]

(* A handler that checks the roots and hands on the paths it was given.    *)
AcceptUnresolved(t) ==
    /\ task[t].pc = "idle"
    /\ \E work \in Workloads :
        /\ Canonical(Named(work)) \subseteq Canonical(current)
        /\ task' = [task EXCEPT ![t].pc = "run", ![t].todo = work,
                                ![t].approved = Canonical(current)]
    /\ UNCHANGED <<Shared, Recorded>>

Accept(t) ==
    /\ task[t].pc = "idle"
    /\ \E work \in Workloads :
        /\ Canonical(Named(work)) \subseteq Canonical(current)
        /\ task' = [task EXCEPT ![t].pc = "run", ![t].todo = Resolved(work),
                                ![t].approved = Canonical(current)]
    /\ UNCHANGED <<Shared, Recorded>>

Reject(t) ==
    /\ task[t].pc = "idle"
    /\ \E work \in Workloads : ~(Canonical(Named(work)) \subseteq Canonical(current))
    /\ task' = [task EXCEPT ![t].pc = "rejected"]
    /\ UNCHANGED <<Shared, Recorded>>

-----------------------------------------------------------------------------
(* SharedRunner.runSkillInvocations.  An unknown tool yields an empty      *)
(* result; the first error ends the task.                                  *)
Asking(t) == task[t].pc = "run" /\ task[t].todo # <<>>
Asked(t) == Head(task[t].todo)

SkipUnknown(t) ==
    /\ Asking(t) /\ Asked(t).kind = "unknown"
    /\ task' = [task EXCEPT ![t].todo = Tail(@)]
    /\ UNCHANGED <<Shared, Recorded>>

(* ResolveApprovedRepoRoot, with the runner's own list.                    *)
Permitted(t) ==
    \/ Asked(t).kind = "index_lookup"
    \/ /\ Asked(t).kind \in RootTools /\ Asked(t).root # NoRoot
       /\ link[Asked(t).root] \in Canonical(runner)

RunnerRefuses(t) ==
    /\ Asking(t) /\ Asked(t).kind # "unknown" /\ ~Permitted(t)
    /\ task' = [task EXCEPT ![t].pc = "refused"]
    /\ UNCHANGED <<Shared, Recorded>>

(* The directory a tool reads: index_lookup opens, without a check, the    *)
(* database it was given, or else that of the workspace index.             *)
Opened(t) ==
    LET path == IF Asked(t).kind \in RootTools THEN Asked(t).root ELSE Asked(t).db
    IN  IF path = NoRoot THEN {} ELSE {[tool |-> Asked(t).kind, root |-> link[path]]}

(* The tool fails, or the client has left.                                 *)
ToolFails(t) ==
    /\ Asking(t) /\ Permitted(t)
    /\ task' = [task EXCEPT ![t].pc = "failed", ![t].read = @ \cup Opened(t)]
    /\ UNCHANGED <<Shared, Recorded>>

ToolAnswers(t) ==
    /\ Asking(t) /\ Permitted(t)
    /\ \E took \in Latencies :
        /\ task' = [task EXCEPT ![t].pc = "measure", ![t].took = took,
                                ![t].read = @ \cup Opened(t)]
        /\ executed' = [executed EXCEPT ![Asked(t).kind] = Append(@, took)]
    /\ UNCHANGED <<Shared, metrics, disturbed>>

Answer(t) ==
    /\ task[t].pc = "run" /\ task[t].todo = <<>>
    /\ task' = [task EXCEPT ![t].pc = "done"]
    /\ UNCHANGED <<Shared, Recorded>>

-----------------------------------------------------------------------------
(* RecordSkillLatency.                                                     *)

(* An average that counts the previous calls once too often.               *)
RollingAverageHeavy(previous, count, latest) ==
    IF count <= 1 THEN latest ELSE (previous * count + latest) \div count

(* Integer division: the average loses up to one millisecond per call.     *)
RollingAverage(previous, count, latest) ==
    IF count <= 1 THEN latest ELSE (previous * (count - 1) + latest) \div count

Entered(store, kind, entry) ==
    [k \in DOMAIN store \cup {kind} |-> IF k = kind THEN entry ELSE store[k]]

(* An update that forgets the calls before.                                *)
WithLatencyAfresh(store, kind, took) ==
    Entered(store, kind, [count |-> 1, average |-> took])

(* Counts that start at zero.                                              *)
WithLatencyFromZero(store, kind, took) ==
    LET count == IF kind \in DOMAIN store THEN store[kind].count + 1 ELSE 0
        before == IF kind \in DOMAIN store THEN store[kind].average ELSE took
    IN  Entered(store, kind, [count |-> count, average |-> RollingAverage(before, count, took)])

WithLatency(store, kind, took) ==
    LET count == IF kind \in DOMAIN store THEN store[kind].count + 1 ELSE 1
        before == IF kind \in DOMAIN store THEN store[kind].average ELSE took
    IN  Entered(store, kind, [count |-> count, average |-> RollingAverage(before, count, took)])

(* The runner goes on with the next invocation.                            *)
Proceed(t) ==
    task' = [task EXCEPT ![t].pc = "run", ![t].todo = Tail(@), ![t].took = 0, ![t].store = <<>>]

LoadMetrics(t) ==
    /\ task[t].pc = "measure" /\ metrics # Cut
    /\ task' = [task EXCEPT ![t].pc = "truncate",
                            ![t].store = WithLatency(metrics, Asked(t).kind, task[t].took)]
    /\ disturbed' = (disturbed \/ Updating # {})
    /\ UNCHANGED <<Shared, metrics, executed>>

(* The runner ignores every error of an update: the call is not counted.   *)
(* This one is a file that cannot be parsed, or not be read.               *)
LoadMetricsFails(t) ==
    /\ task[t].pc = "measure"
    /\ Proceed(t)
    /\ \/ metrics = Cut /\ disturbed' = (disturbed \/ Updating # {})
       \/ disturbed' = TRUE
    /\ UNCHANGED <<Shared, metrics, executed>>

TruncateMetrics(t) ==
    /\ task[t].pc = "truncate"
    /\ task' = [task EXCEPT ![t].pc = "write"]
    /\ metrics' = Cut
    /\ UNCHANGED <<Shared, executed, disturbed>>

(* The directory cannot be made, or the file not be opened.                *)
TruncateMetricsFails(t) ==
    /\ task[t].pc = "truncate"
    /\ Proceed(t)
    /\ disturbed' = TRUE
    /\ UNCHANGED <<Shared, metrics, executed>>

(* When another update was written since, the longer text may show behind  *)
(* the shorter one.                                                        *)
WriteMetrics(t) ==
    /\ task[t].pc = "write"
    /\ Proceed(t)
    /\ metrics' \in {task[t].store} \cup (IF metrics = Cut THEN {} ELSE {Cut})
    /\ UNCHANGED <<Shared, executed, disturbed>>

(* The disk takes nothing of the text, or a part, which is no metrics.     *)
WriteMetricsFails(t) ==
    /\ task[t].pc = "write"
    /\ Proceed(t)
    /\ metrics' \in {metrics, Cut}
    /\ disturbed' = TRUE
    /\ UNCHANGED <<Shared, executed>>

-----------------------------------------------------------------------------
(* A runtime refresh: the handlers see the new list, the runner does not.  *)
Refresh ==
    /\ current' \in RootLists
    /\ UNCHANGED <<link, runner, task, Recorded>>

(* An alias is turned to another directory.                                *)
Turn ==
    /\ \E a \in Aliases, r \in Roots : link' = [link EXCEPT ![a] = r]
    /\ UNCHANGED <<current, runner, task, Recorded>>

(* The daemon is killed and started again, with the list it finds then.    *)
Restart ==
    /\ current' \in RootLists /\ runner' = current'
    /\ task' = [t \in Tasks |-> IF task[t].pc = "idle" THEN Idle
                                ELSE [Idle EXCEPT !.pc = "lost"]]
    /\ disturbed' = (disturbed \/ \E t \in Tasks : task[t].pc \in {"measure", "truncate", "write"})
    /\ UNCHANGED <<link, metrics, executed>>

Handle(t) ==
    \/ Accept(t) \/ Reject(t) \/ SkipUnknown(t) \/ RunnerRefuses(t)
    \/ ToolFails(t) \/ ToolAnswers(t) \/ Answer(t)
    \/ LoadMetrics(t) \/ LoadMetricsFails(t)
    \/ TruncateMetrics(t) \/ TruncateMetricsFails(t)
    \/ WriteMetrics(t) \/ WriteMetricsFails(t)

Next == Refresh \/ Turn \/ Restart \/ \E t \in Tasks : Handle(t)

Spec == Init /\ [][Next]_vars

-----------------------------------------------------------------------------
Points == {"idle", "run", "measure", "truncate", "write", "done", "failed",
           "rejected", "refused", "lost"}
Metrics(store) ==
    /\ DOMAIN store \subseteq Tools
    /\ \A k \in DOMAIN store : store[k] \in [count : Nat \ {0}, average : Nat]

TypeOK ==
    /\ link \in [Paths -> Roots] /\ current \in RootLists /\ runner \in RootLists
    /\ DOMAIN task = Tasks
    /\ \A t \in Tasks :
        /\ task[t].pc \in Points /\ task[t].todo \in Seq(Invocations)
        /\ task[t].approved \subseteq Roots /\ task[t].read \subseteq Reads
        /\ task[t].took \in Latencies \cup {0} /\ Metrics(task[t].store)
    /\ metrics = Cut \/ Metrics(metrics)
    /\ executed \in [Tools -> Seq(Latencies)]
    /\ disturbed \in BOOLEAN

(* Repository tools read only directories that the snapshot approved when  *)
(* the task was accepted, although the runner has an older list and        *)
(* aliases may be turned between the handler's check and the call          *)
(* (docs/reference.md:190).  index_lookup is no such tool: it reads the    *)
(* database its caller names, wherever that is (registry.go:78).           *)
ReadsStayApproved ==
    \A t \in Tasks : \A r \in task[t].read :
        r.tool # "index_lookup" => r.root \in task[t].approved

(* However updates of the metrics overlap, they never count a call that    *)
(* did not succeed, nor one twice.                                         *)
NeverOvercounts ==
    metrics # Cut =>
        \A k \in DOMAIN metrics : metrics[k].count <= Len(executed[k])

(* The average of a tool lies between its fastest and its slowest call,    *)
(* whichever updates were lost and however often it was rounded down.      *)
AverageWithinObserved ==
    metrics # Cut =>
        \A k \in DOMAIN metrics :
            \E i, j \in DOMAIN executed[k] :
                /\ executed[k][i] <= metrics[k].average
                /\ metrics[k].average <= executed[k][j]

(* The metrics tell of nothing that was not observed.                      *)
MetricsAreObserved == NeverOvercounts /\ AverageWithinObserved

(* Calls go missing only when two updates overlap, one is killed, or the   *)
(* file could not be read or written, which the runner ignores: as long as *)
(* none of this happened, every success is counted or about to be.         *)
UndisturbedIsExact ==
    ~disturbed /\ metrics # Cut =>
        \A k \in Tools :
            LET pending == {t \in Tasks : task[t].pc \in {"measure", "truncate"}
                                          /\ Asked(t).kind = k}
                counted == IF k \in DOMAIN metrics THEN metrics[k].count ELSE 0
            IN  counted + Cardinality(pending) = Len(executed[k])
=============================================================================
