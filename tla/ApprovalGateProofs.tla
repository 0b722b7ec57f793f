-------------------------- MODULE ApprovalGateProofs ------------------------
(***************************************************************************)
(* Proofs about ApprovalGate, for any tasks, decisions and number of       *)
(* restarts.                                                               *)
(*                                                                         *)
(* What a decision does depends on the number it was told meaning the same *)
(* proposal still.  The inductive invariant says why it does within a run: *)
(* numbers of this run are distinct and not above the counter (Numbers),   *)
(* and the store holds under each number the proposal of the task that got *)
(* it in this run (Stored).  Chosen ties the decisions to the tasks.       *)
(***************************************************************************)
EXTENDS ApprovalGate, TLAPS

USE DEF audit

(* t got its number from the daemon that runs now.                         *)
Live(t) == task[t] # "idle" /\ born[t] = run

Numbers ==
    /\ \A t \in Tasks : Live(t) => id[t] <= counter
    /\ \A t, u \in Tasks : Live(t) /\ Live(u) /\ id[t] = id[u] => t = u
    /\ \A t \in Tasks : task[t] \in {"numbered", "put", "recorded"} => Live(t)

Stored ==
    \A p \in store :
        /\ task[p.task] # "numbered" /\ Live(p.task)
        /\ id[p.task] = p.id

Chosen ==
    \A d \in Decisions :
        /\ decision[d] # "idle" => task[shown[d]] = "answered"
        /\ decision[d] \in {"idle", "arrived", "checked"} => target[d] = NoTask
        /\ target[d] \in Tasks => task[target[d]] \notin {"idle", "numbered"}

IInv == TypeOK /\ Numbers /\ Stored /\ Chosen

-----------------------------------------------------------------------------
(* What Record does to the ledger: it keeps its type and every event, and  *)
(* holds the new one unless it could not be written.                       *)
LEMMA RecordLedger ==
    ASSUME NEW r, NEW e \in Events, ledger \in Seq(Events), Record(r, e)
    PROVE  /\ ledger' \in Seq(Events)
           /\ DOMAIN ledger \subseteq DOMAIN ledger'
           /\ \A i \in DOMAIN ledger : ledger'[i] = ledger[i]
           /\ \A i \in DOMAIN ledger' :
                \/ i \in DOMAIN ledger
                \/ i = Len(ledger) + 1 /\ ledger'[i] = e
           /\ unwritten \subseteq unwritten'
           /\ r \in unwritten' \/ \E i \in DOMAIN ledger' : ledger'[i] = e
<1> HIDE DEF Events
<1>1. CASE unwritten' = unwritten \cup {r} /\ UNCHANGED ledger
  <2>1. ledger' = ledger
    BY <1>1
  <2>2. \A i \in DOMAIN ledger : ledger'[i] = ledger[i]
    BY <2>1
  <2>3. DOMAIN ledger' = DOMAIN ledger
    BY <2>1
  <2>4. r \in unwritten' /\ unwritten \subseteq unwritten'
    BY <1>1
  <2>5. QED
    BY <2>1, <2>2, <2>3, <2>4, Zenon
<1>2. CASE ledger' = Append(ledger, e) /\ UNCHANGED unwritten
  <2>1. ledger' = Append(ledger, e) /\ unwritten' = unwritten
    BY <1>2
  <2>2. /\ ledger' \in Seq(Events) /\ Len(ledger') = Len(ledger) + 1
        /\ Len(ledger) \in Nat /\ ledger'[Len(ledger) + 1] = e
        /\ \A i \in 1..Len(ledger) : ledger'[i] = ledger[i]
    BY <2>1
  <2>3. /\ DOMAIN ledger = 1..Len(ledger)
        /\ DOMAIN ledger' = 1..(Len(ledger) + 1)
    BY <2>2
  <2>4. Len(ledger) + 1 \in DOMAIN ledger'
    BY <2>2, <2>3
  <2>5. \A i \in DOMAIN ledger' : i \in DOMAIN ledger \/ i = Len(ledger) + 1
    BY <2>2, <2>3
  <2>6. DOMAIN ledger \subseteq DOMAIN ledger'
    BY <2>2, <2>3
  <2>7. \A i \in DOMAIN ledger : ledger'[i] = ledger[i]
    BY <2>2, <2>3
  <2>8. QED
    BY <2>1, <2>2, <2>4, <2>5, <2>6, <2>7, Zenon
<1>3. QED
  BY <1>1, <1>2 DEF Record

(* What is recorded is an event.                                           *)
LEMMA RecordedType ==
    ASSUME TypeOK
    PROVE  /\ \A t \in Tasks : [type |-> "proposed", req |-> t] \in Events
           /\ \A d \in Decisions : decision[d] = "updated" =>
                [type |-> Outcome(d), req |-> target[d]] \in Events
BY DEF TypeOK, Events, Outcome

(* The invariant holds when the daemon starts.                             *)
LEMMA InitIInv == Init => IInv
BY GateAssumption DEF Init, IInv, TypeOK, Numbers, Stored, Chosen, Live,
   TaskEnds, DecisionEnds, Events

(* A task's step keeps the invariant: only Number moves the counter, and   *)
(* only Put the store.                                                     *)
LEMMA ProposeIInv ==
    ASSUME IInv, NEW t \in Tasks, Propose(t)
    PROVE  IInv'
<1> USE GateAssumption
<1> USE DEF IInv
<1>1. CASE Number(t)
  <2>1. TypeOK'
    BY <1>1 DEF Number, TypeOK, resolving
  <2>2. Numbers'
    BY <1>1 DEF Number, TypeOK, Numbers, Live, resolving
  <2>3. Stored'
    BY <1>1 DEF Number, TypeOK, Stored, Live, resolving
  <2>4. Chosen'
    BY <1>1 DEF Number, TypeOK, Chosen, resolving
  <2>5. QED
    BY <2>1, <2>2, <2>3, <2>4
<1>2. CASE Put(t)
  <2>1. TypeOK'
    BY <1>2 DEF Put, TypeOK, resolving, Statuses
  <2>2. Numbers'
    BY <1>2 DEF Put, TypeOK, Numbers, Live, resolving
  <2>3. Stored'
    BY <1>2 DEF Put, TypeOK, Numbers, Stored, Live, resolving
  <2>4. Chosen'
    BY <1>2 DEF Put, TypeOK, Chosen, resolving
  <2>5. QED
    BY <2>1, <2>2, <2>3, <2>4
<1>3. CASE RecordProposal(t) \/ Answer(t)
  <2>1. TypeOK'
    <3>1. ledger' \in Seq(Events)
      BY <1>3, RecordLedger, RecordedType DEF RecordProposal, Answer, TypeOK
    <3>2. unwritten' \subseteq Tasks \cup Decisions
      BY <1>3 DEF RecordProposal, Answer, Record, TypeOK
    <3>3. QED
      BY <1>3, <3>1, <3>2 DEF RecordProposal, Answer, TypeOK, resolving, TaskEnds
  <2>2. Numbers'
    <3>1. /\ run' = run /\ counter' = counter /\ id' = id /\ born' = born
          /\ Live(t)
      BY <1>3 DEF RecordProposal, Answer, Numbers
    <3>2. \A u \in Tasks : task'[u] = task[u] \/ u = t
      BY <1>3 DEF RecordProposal, Answer, TypeOK
    <3>3. \A u \in Tasks : Live(u)' => Live(u)
      BY <3>1, <3>2 DEF Live
    <3>4. \A u \in Tasks : task'[u] \in {"numbered", "put", "recorded"} => Live(u)'
      BY <3>1, <3>2 DEF Numbers, Live
    <3>5. QED
      BY <3>1, <3>3, <3>4 DEF Numbers
  <2>3. Stored'
    BY <1>3 DEF RecordProposal, Answer, TypeOK, Stored, Live, resolving
  <2>4. Chosen'
    BY <1>3 DEF RecordProposal, Answer, TypeOK, Chosen, resolving
  <2>5. QED
    BY <2>1, <2>2, <2>3, <2>4
<1>4. QED
  BY <1>1, <1>2, <1>3 DEF Propose

(* A decision's step keeps it: the updated proposal keeps its number.      *)
LEMMA ResolveIInv ==
    ASSUME IInv, NEW d \in Decisions, Decide(d) \/ Resolve(d)
    PROVE  IInv'
<1> USE GateAssumption
<1> USE DEF IInv
<1>1. CASE Decide(d)
  <2>1. TypeOK'
    BY <1>1 DEF Decide, TypeOK, proposing
  <2>2. Numbers' /\ Stored' /\ Chosen'
    BY <1>1 DEF Decide, TypeOK, Numbers, Stored, Chosen, Live, proposing
  <2>3. QED
    BY <2>1, <2>2
<1>2. CASE Update(d)
  <2>1. PICK p \in Found(d) :
           /\ store' = (store \ {p}) \cup {[p EXCEPT !.status = Outcome(d)]}
           /\ target' = [target EXCEPT ![d] = p.task]
    BY <1>2 DEF Update
  <2>2. /\ p \in store /\ p \in [id : Nat, task : Tasks, status : Statuses]
        /\ Outcome(d) \in Statuses
    BY <2>1 DEF Found, TypeOK, Outcome, Statuses
  <2> DEFINE q == [p EXCEPT !.status = Outcome(d)]
  <2>3. /\ q \in [id : Nat, task : Tasks, status : Statuses]
        /\ q.id = p.id /\ q.task = p.task
    BY <2>2
  <2> HIDE DEF q
  <2>4. store' = (store \ {p}) \cup {q}
    BY <2>1 DEF q
  <2>5. /\ run' = run /\ counter' = counter /\ task' = task /\ id' = id
        /\ born' = born /\ shown' = shown /\ approved' = approved
        /\ gone' = gone /\ ledger' = ledger /\ unwritten' = unwritten
        /\ decision[d] = "checked"
        /\ decision' = [decision EXCEPT ![d] = "updated"]
    BY <1>2 DEF Update, proposing
  <2>6. TypeOK'
    BY <2>1, <2>2, <2>3, <2>4, <2>5 DEF TypeOK
  <2>7. Numbers'
    BY <2>5 DEF Numbers, Live
  <2>8. Stored'
    BY <2>2, <2>3, <2>4, <2>5 DEF Stored, Live
  <2>9. Chosen'
    BY <2>1, <2>2, <2>5 DEF Chosen, Stored, Live, TypeOK
  <2>10. QED
    BY <2>6, <2>7, <2>8, <2>9
<1>3. CASE Check(d) \/ Refuse(d) \/ RecordDecision(d)
  <2>1. TypeOK'
    <3>1. ledger' \in Seq(Events)
      BY <1>3, RecordLedger, RecordedType DEF Check, Refuse, RecordDecision, TypeOK
    <3>2. unwritten' \subseteq Tasks \cup Decisions
      BY <1>3 DEF Check, Refuse, RecordDecision, Record, TypeOK
    <3>3. QED
      <4>1. CASE Check(d)
        BY <4>1, <3>1, <3>2, ZenonT(60) DEF Check, TypeOK, proposing
      <4>2. CASE Refuse(d)
        BY <4>2, <3>1, <3>2, ZenonT(60) DEF Refuse, TypeOK, proposing, DecisionEnds
      <4>3. CASE RecordDecision(d)
        BY <4>3, <3>1, <3>2, ZenonT(60) DEF RecordDecision, TypeOK, proposing, DecisionEnds
      <4>4. QED
        BY <1>3, <4>1, <4>2, <4>3
  <2>2. Numbers' /\ Stored'
    BY <1>3 DEF Check, Refuse, RecordDecision, Numbers, Stored, Live, proposing
  <2>3. Chosen'
    BY <1>3 DEF Check, Refuse, RecordDecision, TypeOK, Chosen, proposing
  <2>4. QED
    BY <2>1, <2>2, <2>3
<1>4. QED
  BY <1>1, <1>2, <1>3 DEF Resolve

(* A restart keeps it: nothing is live then.                               *)
LEMMA RestartIInv ==
    ASSUME IInv, Restart
    PROVE  IInv'
<1> USE GateAssumption
<1> USE DEF IInv
<1>1. TypeOK'
  BY DEF Restart, TypeOK, TaskEnds, DecisionEnds
<1>2. \A t \in Tasks : ~Live(t)'
  BY DEF Restart, Live, TypeOK
<1>3. Numbers'
  <2>1. \A t \in Tasks : task'[t] \notin {"numbered", "put", "recorded"}
    BY DEF Restart, TaskEnds, TypeOK
  <2>2. QED
    BY <1>2, <2>1 DEF Numbers, Live
<1>4. Stored'
  BY DEF Restart, Stored
<1>5. Chosen'
  BY DEF Restart, Chosen, TypeOK, TaskEnds, DecisionEnds
<1>6. QED
  BY <1>1, <1>3, <1>4, <1>5

(* Every step keeps the invariant.                                         *)
LEMMA NextIInv ==
    ASSUME IInv, [Next]_vars
    PROVE  IInv'
<1>1. CASE \E t \in Tasks : Propose(t)
  BY <1>1, ProposeIInv
<1>2. CASE \E d \in Decisions : Decide(d) \/ Resolve(d)
  BY <1>2, ResolveIInv
<1>3. CASE Restart
  BY <1>3, RestartIInv
<1>4. CASE Cancel \/ UNCHANGED vars
  BY <1>4 DEF Cancel, vars, proposing, resolving, IInv, TypeOK, Numbers,
     Stored, Chosen, Live
<1>5. QED
  BY <1>1, <1>2, <1>3, <1>4 DEF Next

(* The inductive invariant holds in every reachable state.                 *)
THEOREM Invariance == Spec => []IInv
<1>1. Init => IInv
  BY InitIInv
<1>2. IInv /\ [Next]_vars => IInv'
  BY NextIInv
<1>3. QED
  BY <1>1, <1>2, PTL DEF Spec

(* The store is a map from ids, and every variable keeps its type.         *)
THEOREM TypeCorrect == Spec => []TypeOK
<1>1. IInv => TypeOK
  BY DEF IInv
<1>2. QED
  BY <1>1, Invariance, PTL

-----------------------------------------------------------------------------
(* How the targets move: Update of one decision, which finds a live        *)
(* proposal under its number, and nothing else.                            *)
LEMMA TargetMoves ==
    ASSUME IInv, [Next]_vars
    PROVE  \/ target' = target
           \/ \E d \in Decisions, p \in store :
                /\ Update(d) /\ p.id = id[shown[d]]
                /\ target' = [target EXCEPT ![d] = p.task]
<1>1. ASSUME NEW t \in Tasks, Propose(t) PROVE target' = target
  BY <1>1 DEF Propose, Number, Put, RecordProposal, Answer, resolving
<1>2. ASSUME NEW d \in Decisions, Decide(d) \/ Check(d) \/ Refuse(d) \/ RecordDecision(d)
      PROVE  target' = target
  BY <1>2 DEF Decide, Check, Refuse, RecordDecision
<1>3. ASSUME NEW d \in Decisions, Update(d)
      PROVE  \E p \in store :
                /\ p.id = id[shown[d]]
                /\ target' = [target EXCEPT ![d] = p.task]
  BY <1>3 DEF Update, Found
<1>4. CASE Cancel \/ Restart \/ UNCHANGED vars
  BY <1>4 DEF Cancel, Restart, vars, resolving
<1>5. QED
  BY <1>1, <1>2, <1>3, <1>4 DEF Next, Resolve

(* The shown task and the birth of a task that was answered never change.  *)
LEMMA ShownStays ==
    ASSUME IInv, [Next]_vars, NEW d \in Decisions, target'[d] \in Tasks
    PROVE  /\ shown'[d] = shown[d] /\ shown[d] \in Tasks
           /\ born'[shown[d]] = born[shown[d]]
           /\ born'[target'[d]] = born[target'[d]]
<1> USE GateAssumption
<1> USE DEF IInv
<1>1. target[d] \in Tasks \/ decision[d] = "checked"
  <2>1. CASE target' = target
    BY <2>1
  <2>2. CASE target' # target
    BY <2>2, TargetMoves, ZenonT(60) DEF Update, TypeOK
  <2>3. QED
    BY <2>1, <2>2
<1>2. decision[d] # "idle" /\ shown[d] \in Tasks /\ task[shown[d]] = "answered"
  BY <1>1 DEF Chosen, TypeOK
<1>3. task[target'[d]] # "idle"
  <2>1. CASE target' = target
    BY <2>1 DEF Chosen
  <2>2. CASE target' # target
    <3>1. PICK e \in Decisions, p \in store :
             target' = [target EXCEPT ![e] = p.task]
      BY <2>2, TargetMoves
    <3>2. task[p.task] # "idle"
      BY DEF Stored, Live
    <3>3. target'[d] = p.task \/ target'[d] = target[d]
      BY <3>1 DEF TypeOK
    <3>4. QED
      BY <3>2, <3>3 DEF Chosen
  <2>3. QED
    BY <2>1, <2>2
<1>4. \A t \in Tasks : task[t] # "idle" => born'[t] = born[t]
  <2>1. ASSUME NEW t \in Tasks, Propose(t) PROVE \A u \in Tasks : task[u] # "idle" => born'[u] = born[u]
    BY <2>1 DEF Propose, Number, Put, RecordProposal, Answer, TypeOK
  <2>2. ASSUME NEW e \in Decisions, Decide(e) \/ Resolve(e) PROVE born' = born
    BY <2>2 DEF Decide, Resolve, Check, Refuse, Update, RecordDecision, proposing
  <2>3. CASE Cancel \/ Restart \/ UNCHANGED vars
    BY <2>3 DEF Cancel, Restart, vars, proposing
  <2>4. QED
    BY <2>1, <2>2, <2>3 DEF Next
<1>5. shown'[d] = shown[d]
  <2>1. ASSUME NEW t \in Tasks, Propose(t) PROVE shown' = shown
    BY <2>1 DEF Propose, Number, Put, RecordProposal, Answer, resolving
  <2>2. ASSUME NEW e \in Decisions, Decide(e) PROVE shown'[d] = shown[d]
    BY <2>2, <1>2 DEF Decide, TypeOK
  <2>3. ASSUME NEW e \in Decisions, Resolve(e) PROVE shown' = shown
    BY <2>3 DEF Resolve, Check, Refuse, Update, RecordDecision
  <2>4. CASE Cancel \/ Restart \/ UNCHANGED vars
    BY <2>4 DEF Cancel, Restart, vars, resolving
  <2>5. QED
    BY <2>1, <2>2, <2>3, <2>4 DEF Next
<1>6. QED
  BY <1>2, <1>3, <1>4, <1>5

(* Within a run of the daemon a decision changes the proposal its client   *)
(* was shown, and never another one.                                       *)
THEOREM ShownTheorem == Spec => []ResolvesWhatWasShown
<1>1. Init => ResolvesWhatWasShown
  BY GateAssumption DEF Init, ResolvesWhatWasShown
<1>2. IInv /\ ResolvesWhatWasShown /\ [Next]_vars => ResolvesWhatWasShown'
  <2> SUFFICES ASSUME IInv, ResolvesWhatWasShown, [Next]_vars, NEW d \in Decisions,
                      target'[d] \in Tasks, target'[d] # shown'[d]
               PROVE  born'[target'[d]] > born'[shown'[d]]
    BY DEF ResolvesWhatWasShown
  <2>1. /\ shown'[d] = shown[d] /\ shown[d] \in Tasks
        /\ born'[shown[d]] = born[shown[d]]
        /\ born'[target'[d]] = born[target'[d]]
    BY ShownStays
  <2>2. CASE target'[d] = target[d]
    BY <2>1, <2>2 DEF ResolvesWhatWasShown
  <2>3. CASE target'[d] # target[d]
    <3>1. PICK p \in store : p.id = id[shown[d]] /\ target'[d] = p.task
      BY <2>3, TargetMoves DEF IInv, TypeOK
    <3>2. /\ Live(p.task) /\ id[p.task] = id[shown[d]] /\ p.task \in Tasks
      BY <3>1 DEF IInv, Stored, TypeOK
    <3>3. decision[d] = "checked" /\ task[shown[d]] = "answered"
      BY <2>3, TargetMoves DEF IInv, Chosen, TypeOK, Update
    <3>4. ~Live(shown[d])
      BY <2>1, <3>1, <3>2 DEF IInv, Numbers
    <3>5. QED
      BY <2>1, <3>1, <3>2, <3>3, <3>4 DEF Live, IInv, TypeOK
  <2>4. QED
    BY <2>2, <2>3
<1>3. QED
  BY <1>1, <1>2, Invariance, PTL DEF Spec

-----------------------------------------------------------------------------
(* How the ledger moves: one audit step appends to it, or it stays.        *)
LEMMA LedgerMoves ==
    ASSUME IInv, [Next]_vars
    PROVE  \/ audit' = audit
           \/ \E t \in Tasks :
                RecordProposal(t) /\ Record(t, [type |-> "proposed", req |-> t])
           \/ \E d \in Decisions :
                /\ RecordDecision(d)
                /\ Record(d, [type |-> Outcome(d), req |-> target[d]])
<1>1. ASSUME NEW t \in Tasks, Number(t) \/ Put(t) \/ Answer(t) PROVE audit' = audit
  BY <1>1 DEF Number, Put, Answer
<1>2. ASSUME NEW d \in Decisions, Decide(d) \/ Check(d) \/ Refuse(d) \/ Update(d)
      PROVE  audit' = audit
  BY <1>2 DEF Decide, Check, Refuse, Update
<1>3. CASE Cancel \/ Restart \/ UNCHANGED vars
  BY <1>3 DEF Cancel, Restart, vars
<1>4. QED
  BY <1>1, <1>2, <1>3 DEF Next, Propose, Resolve, RecordProposal, RecordDecision

(* Every decision in the ledger is one some handler carried out.           *)
Carried ==
    \A i \in DOMAIN ledger : ledger[i].type # "proposed" =>
        \E d \in Decisions : target[d] = ledger[i].req

(* Carried is kept: targets are never cleared, and what is recorded is a   *)
(* target.                                                                 *)
LEMMA CarriedStays ==
    ASSUME IInv, Carried, [Next]_vars
    PROVE  Carried'
<1> USE GateAssumption
<1>1. \A d \in Decisions : target[d] \in Tasks => target'[d] = target[d]
  <2>1. SUFFICES ASSUME NEW d \in Decisions, NEW p \in store, Update(d),
                        target' = [target EXCEPT ![d] = p.task]
                 PROVE  \A e \in Decisions : target[e] \in Tasks => target'[e] = target[e]
    BY TargetMoves
  <2>2. target[d] = NoTask
    BY <2>1 DEF IInv, Chosen, Update
  <2>3. QED
    BY <2>1, <2>2 DEF IInv, TypeOK
<1>2. \A i \in DOMAIN ledger : ledger[i].req \in Tasks
  <2>1. \A i \in DOMAIN ledger : ledger[i] \in Events
    BY DEF IInv, TypeOK
  <2>2. QED
    BY <2>1 DEF Events
<1> DEFINE Grown(e) ==
        /\ \A i \in DOMAIN ledger : ledger'[i] = ledger[i]
        /\ \A i \in DOMAIN ledger' :
            \/ i \in DOMAIN ledger
            \/ i = Len(ledger) + 1 /\ ledger'[i] = e
<1>3. CASE ledger' = ledger
  BY <1>1, <1>2, <1>3 DEF Carried
<1>4. ASSUME NEW t \in Tasks, RecordProposal(t),
             Record(t, [type |-> "proposed", req |-> t])
      PROVE  Carried'
  <2>1. target' = target
    BY <1>4 DEF RecordProposal, resolving
  <2>2. [type |-> "proposed", req |-> t] \in Events
    BY RecordedType DEF IInv
  <2>3. Grown([type |-> "proposed", req |-> t])
    BY <1>4, <2>2, RecordLedger DEF IInv, TypeOK
  <2>4. QED
    BY <2>1, <2>3 DEF Carried
<1>5. ASSUME NEW d \in Decisions, RecordDecision(d),
             Record(d, [type |-> Outcome(d), req |-> target[d]])
      PROVE  Carried'
  <2>1. target' = target /\ decision[d] = "updated"
    BY <1>5 DEF RecordDecision
  <2>2. [type |-> Outcome(d), req |-> target[d]] \in Events
    BY <2>1, RecordedType DEF IInv
  <2>3. Grown([type |-> Outcome(d), req |-> target[d]])
    BY <1>5, <2>2, RecordLedger DEF IInv, TypeOK
  <2>4. QED
    BY <2>1, <2>3 DEF Carried
<1>6. QED
  BY <1>3, <1>4, <1>5, LedgerMoves

(* While the store calls a proposal pending no decision about it was       *)
(* carried out or audited.                                                 *)
THEOREM PendingTheorem == Spec => []PendingIsUndecided
<1> USE GateAssumption
<1> DEFINE Untouched == \A p \in store : p.status = "pending" =>
                            \A d \in Decisions : target[d] # p.task
           S == Untouched /\ Carried
<1>1. Init => S
  BY DEF Init, Carried
<1>2. IInv /\ S /\ [Next]_vars => S'
  <2> SUFFICES ASSUME IInv, S, [Next]_vars PROVE Untouched'
    BY CarriedStays
  <2>1. ASSUME NEW t \in Tasks, Put(t) PROVE Untouched'
    <3>1. /\ target' = target
          /\ \A p \in store' : p \in store \/ p.task = t
          /\ task[t] = "numbered"
      BY <2>1 DEF Put, resolving
    <3>2. \A d \in Decisions : target[d] # t
      BY <3>1 DEF IInv, Chosen
    <3>3. QED
      BY <3>1, <3>2
  <2>2. ASSUME NEW d \in Decisions, Update(d) PROVE Untouched'
    <3>1. PICK p \in Found(d) :
             /\ store' = (store \ {p}) \cup {[p EXCEPT !.status = Outcome(d)]}
             /\ target' = [target EXCEPT ![d] = p.task]
      BY <2>2 DEF Update
    <3>2. p \in store /\ p \in [id : Nat, task : Tasks, status : Statuses]
      BY <3>1 DEF Found, IInv, TypeOK
    <3> DEFINE q == [p EXCEPT !.status = Outcome(d)]
    <3>3. q.status # "pending"
      BY <3>2 DEF Outcome
    <3> HIDE DEF q
    <3>4. store' = (store \ {p}) \cup {q}
      BY <3>1 DEF q
    <3>5. \A o \in store : o # p => o.task # p.task
      BY <3>2 DEF IInv, TypeOK, Stored
    <3>6. \A e \in Decisions : target'[e] = target[e] \/ target'[e] = p.task
      BY <3>1 DEF IInv, TypeOK
    <3>7. QED
      BY <3>3, <3>4, <3>5, <3>6
  <2>3. ASSUME NEW t \in Tasks, Number(t) \/ RecordProposal(t) \/ Answer(t)
        PROVE  Untouched'
    BY <2>3 DEF Number, RecordProposal, Answer, resolving
  <2>4. ASSUME NEW d \in Decisions, Decide(d) \/ Check(d) \/ Refuse(d) \/ RecordDecision(d)
        PROVE  Untouched'
    BY <2>4 DEF Decide, Check, Refuse, RecordDecision
  <2>5. CASE Cancel \/ Restart \/ UNCHANGED vars
    BY <2>5 DEF Cancel, Restart, vars, resolving
  <2>6. QED
    BY <2>1, <2>2, <2>3, <2>4, <2>5 DEF Next, Propose, Resolve
<1>3. IInv /\ S => PendingIsUndecided
  BY DEF PendingIsUndecided, Carried
<1> HIDE DEF S
<1>4. QED
  BY <1>1, <1>2, <1>3, Invariance, PTL DEF Spec

-----------------------------------------------------------------------------
(* The ledger only grows, and what could not be written stays so.          *)
LEMMA LedgerGrows ==
    ASSUME IInv, [Next]_vars
    PROVE  /\ \A i \in DOMAIN ledger : i \in DOMAIN ledger' /\ ledger'[i] = ledger[i]
           /\ unwritten \subseteq unwritten'
<1>1. ASSUME NEW d \in Decisions, RecordDecision(d)
      PROVE  [type |-> Outcome(d), req |-> target[d]] \in Events
  BY <1>1, RecordedType DEF IInv, RecordDecision
<1>2. \A t \in Tasks : [type |-> "proposed", req |-> t] \in Events
  BY RecordedType DEF IInv
<1>3. ledger \in Seq(Events)
  BY DEF IInv, TypeOK
<1> HIDE DEF Events
<1>4. CASE audit' = audit
  BY <1>4
<1>5. ASSUME NEW r, NEW e \in Events, Record(r, e)
      PROVE  /\ \A i \in DOMAIN ledger : i \in DOMAIN ledger' /\ ledger'[i] = ledger[i]
             /\ unwritten \subseteq unwritten'
  BY <1>3, <1>5, RecordLedger
<1>6. QED
  BY <1>1, <1>2, <1>4, <1>5, LedgerMoves

(* A target, once there, stays.                                            *)
LEMMA TargetStays ==
    ASSUME IInv, [Next]_vars, NEW d \in Decisions, target[d] \in Tasks
    PROVE  target'[d] = target[d]
<1>1. SUFFICES ASSUME NEW e \in Decisions, NEW p \in store, Update(e),
                      target' = [target EXCEPT ![e] = p.task]
               PROVE  target'[d] = target[d]
  BY TargetMoves
<1>2. target[e] = NoTask
  BY <1>1 DEF IInv, Chosen, Update
<1>3. QED
  BY <1>1, <1>2, GateAssumption DEF IInv, TypeOK

InLedger(e) == \E i \in DOMAIN ledger : ledger[i] = e

(* A proposal whose event could be written is in the ledger by the time    *)
(* its client is told of it.                                               *)
Told ==
    \A t \in Tasks :
        task[t] \in {"answered", "recorded"}
            => t \in unwritten \/ InLedger([type |-> "proposed", req |-> t])

(* Told is kept: RecordProposal comes before Answer.                       *)
LEMMA ToldStays ==
    ASSUME IInv, Told, [Next]_vars
    PROVE  Told'
<1> SUFFICES ASSUME NEW t \in Tasks, task'[t] \in {"answered", "recorded"}
             PROVE  t \in unwritten' \/ InLedger([type |-> "proposed", req |-> t])'
  BY DEF Told
<1>1. CASE task[t] \in {"answered", "recorded"}
  BY <1>1, LedgerGrows DEF Told, InLedger
<1>2. CASE RecordProposal(t)
  <2>1. [type |-> "proposed", req |-> t] \in Events
    BY RecordedType DEF IInv
  <2>2. /\ Record(t, [type |-> "proposed", req |-> t])
        /\ ledger \in Seq(Events)
    BY <1>2 DEF RecordProposal, IInv, TypeOK
  <2>3. QED
    BY <2>1, <2>2, RecordLedger DEF InLedger
<1>3. CASE ~RecordProposal(t) /\ task[t] \notin {"answered", "recorded"}
  <2>1. ASSUME NEW u \in Tasks, Propose(u) PROVE FALSE
    BY <1>3, <2>1 DEF Propose, Number, Put, RecordProposal, Answer, IInv, TypeOK
  <2>2. ASSUME NEW d \in Decisions, Decide(d) \/ Resolve(d) PROVE FALSE
    BY <1>3, <2>2 DEF Decide, Resolve, Check, Refuse, Update, RecordDecision, proposing
  <2>3. CASE Cancel \/ Restart \/ UNCHANGED vars
    BY <1>3, <2>3 DEF Cancel, Restart, vars, proposing, IInv, TypeOK, TaskEnds
  <2>4. QED
    BY <2>1, <2>2, <2>3 DEF Next
<1>4. QED
  BY <1>1, <1>2, <1>3

(* A proposal comes before the decisions about it in the ledger, unless    *)
(* one of these was made with the number of an earlier run, or its own     *)
(* event could not be written.                                             *)
THEOREM OrderTheorem == Spec => []LedgerInOrder
<1> DEFINE Earlier(i, r) == \E j \in 1..(i - 1) : ledger[j] = [type |-> "proposed", req |-> r]
           Stale(r) == \E d \in Decisions : target[d] = r /\ shown[d] # target[d]
           Ordered(i) == ledger[i].type # "proposed" =>
                            \/ Earlier(i, ledger[i].req) \/ Stale(ledger[i].req)
                            \/ ledger[i].req \in unwritten
<1>1. Init => Told /\ LedgerInOrder
  BY DEF Init, Told, LedgerInOrder
<1>2. IInv /\ Told /\ LedgerInOrder /\ [Next]_vars => LedgerInOrder'
  <2> SUFFICES ASSUME IInv, Told, LedgerInOrder, [Next]_vars, NEW i \in DOMAIN ledger'
               PROVE  Ordered(i)'
    BY DEF LedgerInOrder
  <2>0. /\ ledger \in Seq(Events) /\ Len(ledger) \in Nat
        /\ DOMAIN ledger = 1..Len(ledger)
    BY DEF IInv, TypeOK
  <2>1. CASE i \in DOMAIN ledger
    <3>1. ledger'[i] = ledger[i] /\ Ordered(i)
      BY <2>1, LedgerGrows DEF LedgerInOrder
    <3>2. ledger[i].req \in Tasks
      <4>1. ledger[i] \in Events
        BY <2>0, <2>1
      <4>2. QED
        BY <4>1 DEF Events
    <3>3. Earlier(i, ledger[i].req) => Earlier(i, ledger[i].req)'
      <4>1. \A j \in 1..(i - 1) : j \in DOMAIN ledger
        BY <2>0, <2>1
      <4>2. QED
        BY <3>1, <4>1, LedgerGrows
    <3>4. Stale(ledger[i].req) => Stale(ledger[i].req)'
      <4>1. ASSUME NEW d \in Decisions, target[d] = ledger[i].req, shown[d] # target[d]
            PROVE  Stale(ledger[i].req)'
        BY <3>1, <3>2, <4>1, TargetStays, ShownStays
      <4>2. QED
        BY <4>1
    <3>5. ledger[i].req \in unwritten => ledger[i].req \in unwritten'
      BY LedgerGrows
    <3>6. QED
      BY <3>1, <3>3, <3>4, <3>5
  <2>2. ASSUME i \notin DOMAIN ledger, NEW d \in Decisions, RecordDecision(d)
        PROVE  Ordered(i)'
    <3> DEFINE e == [type |-> Outcome(d), req |-> target[d]]
    <3>1. e \in Events /\ e.req = target[d] /\ decision[d] = "updated"
      BY <2>2, RecordedType DEF IInv, RecordDecision
    <3>2. Record(d, e) /\ target' = target /\ shown' = shown
      BY <2>2 DEF RecordDecision
    <3>3. i = Len(ledger) + 1 /\ ledger'[i] = e
      BY <2>0, <2>2, <3>1, <3>2, RecordLedger
    <3>4. CASE shown[d] = target[d]
      <4>1. \/ target[d] \in unwritten
            \/ InLedger([type |-> "proposed", req |-> target[d]])
        BY <3>1, <3>4 DEF IInv, Chosen, Told, TypeOK
      <4>2. CASE target[d] \in unwritten
        BY <3>1, <3>2, <3>3, <4>2, LedgerGrows
      <4>3. ASSUME InLedger([type |-> "proposed", req |-> target[d]])
            PROVE  Earlier(i, target[d])'
        BY <2>0, <3>2, <3>3, <4>3, LedgerGrows DEF InLedger
      <4>4. QED
        BY <3>1, <3>2, <3>3, <4>2, <4>1, <4>3
    <3>5. CASE shown[d] # target[d]
      BY <3>1, <3>2, <3>3, <3>5
    <3>6. QED
      BY <3>4, <3>5
  <2>3. ASSUME i \notin DOMAIN ledger, NEW t \in Tasks, RecordProposal(t)
        PROVE  Ordered(i)'
    <3>1. [type |-> "proposed", req |-> t] \in Events
      BY RecordedType DEF IInv
    <3>2. ledger'[i] = [type |-> "proposed", req |-> t]
      BY <2>0, <2>3, <3>1, RecordLedger DEF RecordProposal
    <3>3. QED
      BY <3>2
  <2>4. QED
    BY <2>1, <2>2, <2>3, LedgerMoves
<1>3. IInv /\ Told /\ [Next]_vars => Told'
  BY ToldStays
<1>4. QED
  BY <1>1, <1>2, <1>3, Invariance, PTL DEF Spec

(* A proposal a client was told of is in the ledger, and so is a decision  *)
(* that was answered, unless its own event could not be written.           *)
THEOREM RecordedTheorem == Spec => []AnsweredIsRecorded
<1> DEFINE Done(d) == decision[d] = "done"
           Event(d) == [type |-> Outcome(d), req |-> target[d]]
           S == \A d \in Decisions : Done(d) => d \in unwritten \/ InLedger(Event(d))
<1>1. Init => S
  BY DEF Init
<1>2. IInv /\ S /\ [Next]_vars => S'
  <2> SUFFICES ASSUME IInv, S, [Next]_vars, NEW d \in Decisions, Done(d)'
               PROVE  d \in unwritten' \/ InLedger(Event(d))'
    OBVIOUS
  <2>1. CASE RecordDecision(d)
    <3>1. /\ Event(d) \in Events /\ ledger \in Seq(Events)
          /\ Event(d)' = Event(d) /\ Record(d, Event(d))
      BY <2>1, RecordedType DEF IInv, TypeOK, RecordDecision, Outcome
    <3>2. QED
      BY <3>1, RecordLedger DEF InLedger
  <2>2. CASE Done(d)
    <3>1. target'[d] = target[d]
      BY <2>2, TargetStays DEF IInv, TypeOK
    <3>2. approved'[d] = approved[d]
      <4>1. ASSUME NEW t \in Tasks, Propose(t) PROVE approved' = approved
        BY <4>1 DEF Propose, Number, Put, RecordProposal, Answer, resolving
      <4>2. ASSUME NEW e \in Decisions, Decide(e) PROVE approved'[d] = approved[d]
        BY <2>2, <4>2 DEF Decide, IInv, TypeOK
      <4>3. ASSUME NEW e \in Decisions, Resolve(e) PROVE approved' = approved
        BY <4>3 DEF Resolve, Check, Refuse, Update, RecordDecision
      <4>4. CASE Cancel \/ Restart \/ UNCHANGED vars
        BY <4>4 DEF Cancel, Restart, vars, resolving
      <4>5. QED
        BY <4>1, <4>2, <4>3, <4>4 DEF Next
    <3>3. d \in unwritten \/ InLedger(Event(d))
      BY <2>2
    <3>4. QED
      BY <3>1, <3>2, <3>3, LedgerGrows DEF InLedger, Outcome
  <2>3. CASE ~RecordDecision(d) /\ ~Done(d)
    <3>1. ASSUME NEW t \in Tasks, Propose(t) PROVE FALSE
      BY <2>3, <3>1 DEF Propose, Number, Put, RecordProposal, Answer, resolving
    <3>2. ASSUME NEW e \in Decisions, Decide(e) \/ Resolve(e) PROVE FALSE
      BY <2>3, <3>2 DEF Decide, Resolve, Check, Refuse, Update, RecordDecision,
         IInv, TypeOK
    <3>3. CASE Cancel \/ Restart \/ UNCHANGED vars
      BY <2>3, <3>3 DEF Cancel, Restart, vars, resolving, IInv, TypeOK, DecisionEnds
    <3>4. QED
      BY <3>1, <3>2, <3>3 DEF Next
  <2>4. QED
    BY <2>1, <2>2, <2>3
<1>3. Init => Told
  BY DEF Init, Told
<1>4. IInv /\ Told /\ [Next]_vars => Told'
  BY ToldStays
<1>5. S /\ Told => AnsweredIsRecorded
  BY DEF AnsweredIsRecorded, Told, InLedger
<1> HIDE DEF S
<1>6. QED
  BY <1>1, <1>2, <1>3, <1>4, <1>5, Invariance, PTL DEF Spec
=============================================================================
