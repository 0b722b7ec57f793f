---------------------------- MODULE ApprovalGate ----------------------------
(***************************************************************************)
(* Agent proposals: agent.ApprovalGate and its ProposalStore, used by      *)
(* AgentTaskHandler (Propose) and AgentProposalHandler (Resolve), each     *)
(* request in a goroutine of its own, and the audit events they write.     *)
(*                                                                         *)
(* The store and the counter live in memory, under a mutex and an atomic   *)
(* that cover one access each; a restart empties both, and ids start again *)
(* at proposal-1.  The ledger survives.  A task stands for a valid POST    *)
(* /v1/agent/tasks that proposes an action, and for its request id; those  *)
(* the handler rejects leave no trace.  A client decides about an id it    *)
(* was answered, possibly by an earlier run of the daemon.  Execute and    *)
(* the execute callback have no caller outside tests (Resolve gets nil).   *)
(***************************************************************************)
EXTENDS Integers, Sequences, FiniteSets

CONSTANTS
    Tasks,          \* requests that propose an action
    Decisions,      \* requests that approve or deny a proposal
    NoTask,         \* of a decision that did not choose or change one yet
    MaxRestarts     \* bound: how often the daemon restarts

ASSUME GateAssumption ==
    /\ NoTask \notin Tasks /\ Tasks \cap Decisions = {}
    /\ MaxRestarts \in Nat

VARIABLES
    run,        \* how often the daemon was restarted
    counter,    \* ApprovalGate.counter
    store,      \* ProposalStore.proposals: records [id, task, status]
    task,       \* where the handler of each task is
    id,         \* the number of the proposal it makes, 0 before
    born,       \* the run in which it got that number
    decision,   \* where the handler of each decision is
    shown,      \* the task whose answer told its client the proposal id
    approved,   \* what its client decides
    target,     \* the task whose proposal it changed
    gone,       \* the requests whose context is cancelled
    ledger,     \* the audit ledger
    unwritten   \* the requests whose event could not be written (history)

proposing == <<task, id, born>>
resolving == <<decision, shown, approved, target>>
audit == <<ledger, unwritten>>
vars == <<run, counter, store, proposing, resolving, gone, audit>>

TaskEnds == {"answered", "abandoned", "lost"}
DecisionEnds == {"done", "refused", "lost"}
Statuses == {"pending", "approved", "denied"}
Events == [type : {"proposed", "approved", "denied"}, req : Tasks]

Outcome(d) == IF approved[d] THEN "approved" ELSE "denied"

(* Store.Record: nothing is written once the request context is cancelled, *)
(* and the ledger may refuse to be opened or written at any time; the gate *)
(* ignores the error and goes on either way.                               *)
Record(request, event) ==
    \/ /\ request \notin gone
       /\ ledger' = Append(ledger, event)
       /\ UNCHANGED unwritten
    \/ /\ unwritten' = unwritten \cup {request}
       /\ UNCHANGED ledger

-----------------------------------------------------------------------------
Init ==
    /\ run = 0 /\ counter = 0 /\ store = {}
    /\ task = [t \in Tasks |-> "idle"]
    /\ id = [t \in Tasks |-> 0]
    /\ born = [t \in Tasks |-> 0]
    /\ decision = [d \in Decisions |-> "idle"]
    /\ shown = [d \in Decisions |-> NoTask]
    /\ approved = [d \in Decisions |-> FALSE]
    /\ target = [d \in Decisions |-> NoTask]
    /\ gone = {} /\ ledger = <<>> /\ unwritten = {}

(* A gate that numbers a proposal by how many there are.                   *)
NumberByCount(t) ==
    /\ task[t] = "idle"
    /\ counter' = Cardinality(store) + 1
    /\ id' = [id EXCEPT ![t] = Cardinality(store) + 1]
    /\ born' = [born EXCEPT ![t] = run]
    /\ task' = [task EXCEPT ![t] = "numbered"]
    /\ UNCHANGED <<run, store, resolving, gone, audit>>

(* Propose takes the next number.                                          *)
Number(t) ==
    /\ task[t] = "idle"
    /\ counter' = counter + 1
    /\ id' = [id EXCEPT ![t] = counter + 1]
    /\ born' = [born EXCEPT ![t] = run]
    /\ task' = [task EXCEPT ![t] = "numbered"]
    /\ UNCHANGED <<run, store, resolving, gone, audit>>

(* A gate that only audits what was decided.                               *)
PutUnrecorded(t) ==
    /\ task[t] = "numbered"
    /\ store' = {p \in store : p.id # id[t]}
                    \cup {[id |-> id[t], task |-> t, status |-> "pending"]}
    /\ task' = [task EXCEPT ![t] = "recorded"]
    /\ UNCHANGED <<run, counter, id, born, resolving, gone, audit>>

(* ProposalStore.Put; from here on a decision can find the proposal.       *)
Put(t) ==
    /\ task[t] = "numbered"
    /\ store' = {p \in store : p.id # id[t]}
                    \cup {[id |-> id[t], task |-> t, status |-> "pending"]}
    /\ task' = [task EXCEPT ![t] = "put"]
    /\ UNCHANGED <<run, counter, id, born, resolving, gone, audit>>

(* The proposal is audited.                                                *)
RecordProposal(t) ==
    /\ task[t] = "put"
    /\ Record(t, [type |-> "proposed", req |-> t])
    /\ task' = [task EXCEPT ![t] = "recorded"]
    /\ UNCHANGED <<run, counter, store, id, born, resolving, gone>>

(* The answer tells the client the id, if the client is still there.       *)
Answer(t) ==
    /\ task[t] = "recorded"
    /\ task' = [task EXCEPT ![t] = IF t \in gone THEN "abandoned" ELSE "answered"]
    /\ UNCHANGED <<run, counter, store, id, born, resolving, gone, audit>>

-----------------------------------------------------------------------------
(* A client posts its decision about a proposal it was told of.            *)
Decide(d) ==
    /\ decision[d] = "idle"
    /\ \E t \in Tasks, a \in BOOLEAN :
        /\ task[t] = "answered"
        /\ shown' = [shown EXCEPT ![d] = t]
        /\ approved' = [approved EXCEPT ![d] = a]
    /\ decision' = [decision EXCEPT ![d] = "arrived"]
    /\ UNCHANGED <<run, counter, store, proposing, target, gone, audit>>

(* What ProposalStore.Get finds under the id of the decision.              *)
Found(d) == {p \in store : p.id = id[shown[d]]}

(* Resolve reads the proposal and finds it pending.                        *)
Check(d) ==
    /\ decision[d] = "arrived"
    /\ \E p \in Found(d) : p.status = "pending"
    /\ decision' = [decision EXCEPT ![d] = "checked"]
    /\ UNCHANGED <<run, counter, store, proposing, shown, approved, target,
                   gone, audit>>

(* There is none (404), or it is already decided (400).                    *)
Refuse(d) ==
    /\ decision[d] = "arrived"
    /\ \A p \in Found(d) : p.status # "pending"
    /\ decision' = [decision EXCEPT ![d] = "refused"]
    /\ UNCHANGED <<run, counter, store, proposing, shown, approved, target,
                   gone, audit>>

(* An UpdateStatus that changes its copy of the proposal only.             *)
UpdateCopy(d) ==
    /\ decision[d] = "checked"
    /\ \E p \in Found(d) : target' = [target EXCEPT ![d] = p.task]
    /\ decision' = [decision EXCEPT ![d] = "updated"]
    /\ UNCHANGED <<run, counter, store, proposing, shown, approved, gone,
                   audit>>

(* ProposalStore.UpdateStatus, which looks the proposal up again and does  *)
(* not look at its status.  It finds it: only a restart removes one.       *)
Update(d) ==
    /\ decision[d] = "checked"
    /\ \E p \in Found(d) :
        /\ store' = (store \ {p}) \cup {[p EXCEPT !.status = Outcome(d)]}
        /\ target' = [target EXCEPT ![d] = p.task]
    /\ decision' = [decision EXCEPT ![d] = "updated"]
    /\ UNCHANGED <<run, counter, proposing, shown, approved, gone, audit>>

(* A Resolve that returns ErrApprovalRequired before it audits a denial.   *)
RecordApprovalOnly(d) ==
    /\ decision[d] = "updated"
    /\ IF approved[d]
       THEN Record(d, [type |-> Outcome(d), req |-> target[d]])
       ELSE UNCHANGED audit
    /\ decision' = [decision EXCEPT ![d] = "done"]
    /\ UNCHANGED <<run, counter, store, proposing, shown, approved, target,
                   gone>>

(* The decision is audited and the client answered.                        *)
RecordDecision(d) ==
    /\ decision[d] = "updated"
    /\ Record(d, [type |-> Outcome(d), req |-> target[d]])
    /\ decision' = [decision EXCEPT ![d] = "done"]
    /\ UNCHANGED <<run, counter, store, proposing, shown, approved, target,
                   gone>>

-----------------------------------------------------------------------------
(* A client disconnects before its request has ended.                      *)
Cancel ==
    /\ \E r \in {t \in Tasks : task[t] \notin TaskEnds \cup {"idle"}}
                    \cup {d \in Decisions : decision[d] \notin DecisionEnds \cup {"idle"}} :
        gone' = gone \cup {r}
    /\ UNCHANGED <<run, counter, store, proposing, resolving, audit>>

(* The daemon stops, its handlers with it, and starts again.               *)
Restart ==
    /\ run < MaxRestarts
    /\ run' = run + 1
    /\ counter' = 0
    /\ store' = {}
    /\ task' = [t \in Tasks |->
                    IF task[t] \in TaskEnds \cup {"idle"} THEN task[t] ELSE "lost"]
    /\ decision' = [d \in Decisions |->
                    IF decision[d] \in DecisionEnds \cup {"idle"} THEN decision[d] ELSE "lost"]
    /\ UNCHANGED <<id, born, shown, approved, target, gone, audit>>

Propose(t) == Number(t) \/ Put(t) \/ RecordProposal(t) \/ Answer(t)
Resolve(d) == Check(d) \/ Refuse(d) \/ Update(d) \/ RecordDecision(d)

Next ==
    \/ \E t \in Tasks : Propose(t)
    \/ \E d \in Decisions : Decide(d) \/ Resolve(d)
    \/ Cancel
    \/ Restart

Spec == Init /\ [][Next]_vars

-----------------------------------------------------------------------------
(* The types; the store is a map from ids, and a handler has chosen or     *)
(* changed a proposal by the time its status says so.                      *)
TypeOK ==
    /\ run \in 0..MaxRestarts /\ counter \in Nat
    /\ store \subseteq [id : Nat, task : Tasks, status : Statuses]
    /\ \A p, q \in store : p.id = q.id => p = q
    /\ task \in [Tasks -> {"idle", "numbered", "put", "recorded"} \cup TaskEnds]
    /\ id \in [Tasks -> Nat] /\ born \in [Tasks -> 0..run]
    /\ decision \in [Decisions -> {"idle", "arrived", "checked", "updated"}
                                    \cup DecisionEnds]
    /\ shown \in [Decisions -> Tasks \cup {NoTask}]
    /\ target \in [Decisions -> Tasks \cup {NoTask}]
    /\ \A d \in Decisions :
        /\ decision[d] # "idle" => shown[d] \in Tasks
        /\ decision[d] \in {"updated", "done"} => target[d] \in Tasks
    /\ approved \in [Decisions -> BOOLEAN]
    /\ gone \subseteq Tasks \cup Decisions
    /\ ledger \in Seq(Events) /\ unwritten \subseteq Tasks \cup Decisions

(* As long as the store calls a proposal pending, no decision about it was *)
(* carried out, answered or audited: a decision that arrives after another *)
(* was answered is refused (gating.go:49).                                 *)
PendingIsUndecided ==
    \A p \in store : p.status = "pending" =>
        /\ \A d \in Decisions : target[d] # p.task
        /\ \A i \in DOMAIN ledger :
            ledger[i].req = p.task => ledger[i].type = "proposed"

(* A decision changes the proposal its client was shown, however the       *)
(* handlers interleave; it changes another one only when the daemon was    *)
(* restarted in between and gave the same number again.                    *)
ResolvesWhatWasShown ==
    \A d \in Decisions :
        target[d] \in Tasks \ {shown[d]} => born[target[d]] > born[shown[d]]

(* Whoever was answered is in the ledger: a proposal its client was told   *)
(* of, and a decision that was carried out and answered, approval or       *)
(* denial.  Missing are only those whose own event could not be written,   *)
(* because the client had left or the disk refused it: gating.go:90        *)
(* ignores that error, and answers all the same.                           *)
AnsweredIsRecorded ==
    /\ \A t \in Tasks : task[t] = "answered" =>
        \/ t \in unwritten
        \/ \E i \in DOMAIN ledger : ledger[i] = [type |-> "proposed", req |-> t]
    /\ \A d \in Decisions : decision[d] = "done" =>
        \/ d \in unwritten
        \/ \E i \in DOMAIN ledger : ledger[i] = [type |-> Outcome(d), req |-> target[d]]

(* The ledger tells of a proposal before it tells of a decision about it,  *)
(* unless the id was one of an earlier run, or the proposal's own event    *)
(* could not be written, which hides it but not what is decided about it.  *)
LedgerInOrder ==
    \A i \in DOMAIN ledger : ledger[i].type # "proposed" =>
        \/ \E j \in 1..(i - 1) : ledger[j] = [type |-> "proposed", req |-> ledger[i].req]
        \/ \E d \in Decisions : target[d] = ledger[i].req /\ shown[d] # target[d]
        \/ ledger[i].req \in unwritten

(* "proposal %s is already %s" (gating.go:50): no two decisions about one  *)
(* proposal succeed.                                                       *)
DecidedOnce ==
    \A d, e \in Decisions :
        d # e /\ decision[d] = "done" /\ decision[e] = "done" => target[d] # target[e]
=============================================================================
