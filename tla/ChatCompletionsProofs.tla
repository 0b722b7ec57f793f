----------------------- MODULE ChatCompletionsProofs ------------------------
(***************************************************************************)
(* Proofs about ChatCompletions, for every number of requests, every set   *)
(* of snapshots, inputs, labels and chunks.                                *)
(*                                                                         *)
(* The properties rest on one inductive invariant, IInv: next to the types *)
(* it says what a handler has by the time it gets somewhere (Progress) and *)
(* that content only left for requests whose handler called a provider     *)
(* (SentIsPast), so that nothing that decided about it changes any more.   *)
(* On top of it, Vetted says what the evaluations left for the call, and   *)
(* LInv what the ledger holds.                                             *)
(***************************************************************************)
EXTENDS ChatCompletions, FiniteSetTheorems, TLAPS

Parsed == {"classify", "preflight", "prepare", "egress", "calling", "waiting",
           "copying"}
Placed == {"prepare", "egress", "calling", "waiting", "copying"}
Past == {"waiting", "copying", "served", "lost"}

(* The candidate c can serve r as far as r's own snapshot is concerned.    *)
Serves(r, c) ==
    /\ c \in Available(snap[r])
    /\ input[r].required \subseteq c.caps
    /\ ResolvePreference(snap[r].routing, Action(label[r])) = "local_only"
         => c.location = "local"

Progress ==
    \A r \in Requests :
        /\ pc[r] # "idle" => snap[r] \in Snapshots
        /\ pc[r] \in Parsed => input[r] \in ChatInputs
        /\ pc[r] \in Placed => Serves(r, route[r])
        /\ pc[r] \in Placed => verdict[r] \in Verdicts
        /\ pc[r] \in {"idle", "reading", "classify"} => label[r] = Unclassified
        /\ pc[r] \in Placed \cup {"preflight"} => label[r] # Unclassified

SentIsPast == \A m \in sent : pc[m.req] \in Past

IInv == TypeOK /\ Progress /\ SentIsPast

-----------------------------------------------------------------------------
(* Scan, VerdictOf and Evaluate return what the handler relies on.         *)

LEMMA EvaluateType ==
    ASSUME NEW p, NEW b \in SUBSET Fragments, NEW c \in SUBSET Chunks,
           NEW l, NEW t
    PROVE  LET e == Evaluate(p, b, c, l, t) IN
           /\ e.verdict \in Verdicts
           /\ e.body \in SUBSET Fragments
           /\ e.body \cap Secret = {}
           /\ e.refs \in SUBSET Chunks
           /\ e.minimize \in BOOLEAN
BY DEF Evaluate, VerdictOf, Scan, Verdicts

(* The evaluator never clears a trade secret for a remote provider.        *)
LEMMA EvaluateTradeSecret ==
    ASSUME NEW p, NEW b, NEW c, NEW l, NEW t, l \/ t
    PROVE  Evaluate(p, b, c, l, t).verdict \in {"block", "local_only"}
BY DEF Evaluate, VerdictOf

(* A selected candidate is available and passed every filter.              *)
LEMMA SelectionServes ==
    ASSUME NEW r \in Requests, NEW v, NEW c \in ResolveRoute(r, v)
    PROVE  Serves(r, c)
<1> DEFINE in == [candidates |-> Available(Runtime(r)),
                  verdict |-> v,
                  preference |-> ResolvePreference(Runtime(r).routing, Action(label[r])),
                  action |-> Action(label[r]),
                  model |-> input[r].model,
                  required |-> input[r].required]
<1>1. c \in Eligible(in)
  BY DEF ResolveRoute, Selections
<1>2. c \in Admissible(in)
  BY <1>1 DEF Eligible
<1>3. QED
  BY <1>2 DEF Admissible, PreferenceEligible, Serves, Runtime

(* The initial states satisfy the inductive invariant.                     *)
LEMMA InitIInv == Init => IInv
<1> SUFFICES ASSUME Init PROVE IInv
  OBVIOUS
<1>1. TypeOK
  BY DEF Init, TypeOK, PCs
<1>2. Progress /\ SentIsPast
  BY DEF Init, Progress, SentIsPast, Parsed, Placed
<1>3. QED
  BY <1>1, <1>2 DEF IInv

(* The part of a step that the invariant is about: handler r moves from    *)
(* one place to the next and nothing of the other requests changes.        *)
LEMMA BeginIInv ==
    ASSUME IInv, NEW r \in Requests, Begin(r) PROVE IInv'
<1> USE DEF IInv, Begin, Goto
<1>1. TypeOK'
  BY DEF TypeOK, PCs
<1>2. Progress'
  BY DEF TypeOK, Progress, Serves, Available, Parsed, Placed
<1>3. SentIsPast'
  BY DEF TypeOK, SentIsPast, Past, Messages
<1>4. QED
  BY <1>1, <1>2, <1>3

(* Accepting a body keeps it: the handler only gains its input and body.   *)
LEMMA AcceptBodyIInv ==
    ASSUME IInv, NEW r \in Requests, AcceptBody(r) PROVE IInv'
<1> USE DEF IInv, AcceptBody, Goto
<1>1. TypeOK'
  <2>1. snap[r] \in Snapshots
    BY DEF Progress
  <2>2. \A i \in ChatInputs : \A p \in snap[r].prompts :
            i.text \cup p \in SUBSET Fragments
    BY <2>1 DEF Fragments
  <2>3. body' \in [Requests -> SUBSET Fragments] /\ input' \in [Requests -> ChatInputs \cup {NoInput}]
    BY <2>2 DEF TypeOK, Runtime
  <2>4. pc' \in [Requests -> PCs]
    BY DEF TypeOK, PCs
  <2>5. QED
    BY <2>3, <2>4 DEF TypeOK
<1>2. Progress'
  BY DEF TypeOK, Progress, Serves, Available, Parsed, Placed
<1>3. SentIsPast'
  BY DEF TypeOK, SentIsPast, Past, Messages
<1>4. QED
  BY <1>1, <1>2, <1>3

(* Ending a request without another effect keeps it.                       *)
LEMMA RejectIInv ==
    ASSUME IInv, NEW r \in Requests, RejectBody(r) \/ PrepareFails(r)
    PROVE  IInv'
<1> USE DEF IInv, RejectBody, PrepareFails, Goto, request
<1>1. TypeOK'
  BY DEF TypeOK, PCs, Ended
<1>2. Progress'
  BY DEF TypeOK, Progress, Serves, Available, Parsed, Placed
<1>3. SentIsPast'
  BY DEF TypeOK, SentIsPast, Past, Messages
<1>4. QED
  BY <1>1, <1>2, <1>3

(* Classifying keeps it: the label is one the snapshot's classifier gives. *)
LEMMA ClassifyIInv ==
    ASSUME IInv, NEW r \in Requests, Classify(r) PROVE IInv'
<1> USE DEF IInv, Classify, Goto
<1>1. TypeOK'
  <2>1. label' \in [Requests -> Labels \cup {NoLabel, Unclassified}]
    BY DEF TypeOK
  <2>2. pc' \in [Requests -> PCs]
    BY DEF TypeOK, PCs
  <2>3. QED
    BY <2>1, <2>2 DEF TypeOK
<1>2. Progress'
  <2>1. label'[r] # Unclassified
    BY ChatAssumption DEF TypeOK
  <2>2. QED
    BY <2>1 DEF TypeOK, Progress, Serves, Available, Action, Parsed, Placed
<1>3. SentIsPast'
  BY DEF TypeOK, SentIsPast, Past, Messages
<1>4. QED
  BY <1>1, <1>2, <1>3

(* An event the handler records keeps the ledger a sequence of events.     *)
LEMMA RecordType ==
    ASSUME NEW r \in Requests, ledger \in Seq(Events), logged \subseteq Requests,
           NEW e \in Events, Record(r, e)
    PROVE  ledger' \in Seq(Events) /\ logged' \subseteq Requests
BY DEF Record

(* The preflight evaluation of a well-typed request is well-typed.         *)
LEMMA PreflightType ==
    ASSUME TypeOK, NEW r \in Requests
    PROVE  /\ Preflight(r).verdict \in Verdicts
           /\ Preflight(r).minimize \in BOOLEAN
           /\ Preflight(r).refs \in SUBSET Chunks
BY EvaluateType DEF TypeOK, Preflight

(* So is the egress evaluation.                                            *)
LEMMA EgressType ==
    ASSUME TypeOK, NEW r \in Requests
    PROVE  /\ Egress(r).verdict \in Verdicts
           /\ Egress(r).body \in SUBSET Fragments
           /\ Egress(r).body \cap Secret = {}
           /\ Egress(r).refs \in SUBSET Chunks
BY EvaluateType DEF TypeOK, Egress

(* A denial is an event of the ledger.                                     *)
LEMMA DenyEventType ==
    ASSUME NEW r \in Requests, NEW p \in Int, NEW e, NEW b \in SUBSET Fragments,
           e.verdict \in Verdicts, e.refs \in SUBSET Chunks
    PROVE  DenyEvent(r, p, e, b) \in Events
BY DEF DenyEvent, Events

(* A selected route is a candidate of some snapshot.                       *)
LEMMA RouteType ==
    ASSUME IInv, NEW r \in Requests, pc[r] \in Placed
    PROVE  /\ route[r] \in Candidates
           /\ route[r].id \in Int
           /\ route[r].location \in Locations
<1>1. snap[r] \in Snapshots
  BY DEF IInv, Progress, Placed
<1>2. route[r] \in snap[r].catalog
  BY DEF IInv, Progress, Serves, Available
<1>3. QED
  BY <1>1, <1>2, ChatAssumption DEF Candidates

(* The event of a dispatched request is an event of the ledger.            *)
LEMMA EgressEventType ==
    ASSUME IInv, NEW r \in Requests, pc[r] \in Placed, NEW a \in BOOLEAN,
           NEW f \in BOOLEAN
    PROVE  EgressEvent(r, a, f) \in Events
<1>1. /\ route[r].id \in Int
      /\ verdict[r] \in Verdicts
      /\ body[r] \in SUBSET Fragments
      /\ refs[r] \in SUBSET Chunks
  BY RouteType DEF IInv, TypeOK, Progress
<1>2. QED
  BY <1>1 DEF EgressEvent, Events

(* A refusal in preflight keeps it, recorded or not.                       *)
LEMMA PreflightRefusesIInv ==
    ASSUME IInv, NEW r \in Requests, PreflightBlock(r) \/ NoEligibleRoute(r)
    PROVE  IInv'
<1>1. PICK p \in Int :
        \/ /\ Record(r, DenyEvent(r, p, Preflight(r), body[r]))
           /\ Goto(r, "refused")
        \/ /\ UNCHANGED <<ledger, logged>>
           /\ Goto(r, "rejected")
  BY ChatAssumption DEF PreflightBlock, NoEligibleRoute
<1>2. /\ pc[r] = "preflight"
      /\ verdict' = [verdict EXCEPT ![r] = Preflight(r).verdict]
      /\ UNCHANGED <<current, snap, input, label, minimize, route, body,
                     refs, cancelled, sent>>
  BY DEF PreflightBlock, NoEligibleRoute
<1>3. DenyEvent(r, p, Preflight(r), body[r]) \in Events
  BY PreflightType, DenyEventType DEF IInv, TypeOK
<1>4. ledger' \in Seq(Events) /\ logged' \subseteq Requests
  BY <1>1, <1>3, RecordType DEF IInv, TypeOK
<1>5. TypeOK'
  <2>1. pc' \in [Requests -> PCs]
    BY <1>1 DEF IInv, TypeOK, Goto, PCs, Ended
  <2>2. verdict' \in [Requests -> Verdicts \cup {"none"}]
    BY <1>2, PreflightType DEF IInv, TypeOK
  <2>3. QED
    BY <1>2, <1>4, <2>1, <2>2 DEF IInv, TypeOK
<1>6. Progress'
  BY <1>1, <1>2 DEF IInv, TypeOK, Progress, Serves, Available, Parsed, Placed, Goto
<1>7. SentIsPast'
  BY <1>1, <1>2 DEF IInv, TypeOK, SentIsPast, Past, Messages, Goto
<1>8. QED
  BY <1>5, <1>6, <1>7 DEF IInv

(* Routing keeps it: the route serves the request.                         *)
LEMMA RoutedIInv ==
    ASSUME IInv, NEW r \in Requests, Routed(r) PROVE IInv'
<1>1. PICK c \in ResolveRoute(r, Preflight(r).verdict) :
        route' = [route EXCEPT ![r] = c]
  BY DEF Routed
<1>2. /\ pc[r] = "preflight"
      /\ verdict' = [verdict EXCEPT ![r] = Preflight(r).verdict]
      /\ minimize' = [minimize EXCEPT ![r] = Preflight(r).minimize]
      /\ Goto(r, "rejected") \/ Goto(r, "prepare")
      /\ UNCHANGED <<current, snap, input, label, body, refs, cancelled,
                     sent, ledger, logged>>
  BY DEF Routed
<1>3. Serves(r, c)
  BY SelectionServes
<1>4. c \in Candidates
  BY <1>2, <1>3 DEF IInv, Progress, Serves, Available, Candidates
<1>5. TypeOK'
  <2>1. pc' \in [Requests -> PCs]
    BY <1>2 DEF IInv, TypeOK, Goto, PCs, Ended
  <2>2. /\ verdict' \in [Requests -> Verdicts \cup {"none"}]
        /\ minimize' \in [Requests -> BOOLEAN]
    BY <1>2, PreflightType DEF IInv, TypeOK
  <2>3. route' \in [Requests -> Candidates \cup {NoRoute}]
    BY <1>1, <1>4 DEF IInv, TypeOK
  <2>4. QED
    BY <1>2, <2>1, <2>2, <2>3 DEF IInv, TypeOK
<1>6. Progress'
  <2>1. Preflight(r).verdict \in Verdicts
    BY PreflightType DEF IInv
  <2>2. QED
    BY <1>1, <1>2, <1>3, <2>1
       DEF IInv, TypeOK, Progress, Serves, Available, Parsed, Placed, Goto
<1>7. SentIsPast'
  BY <1>2 DEF IInv, TypeOK, SentIsPast, Past, Messages, Goto
<1>8. QED
  BY <1>5, <1>6, <1>7 DEF IInv

(* Preparing keeps it: only chunks are added.                              *)
LEMMA PrepareIInv ==
    ASSUME IInv, NEW r \in Requests, Prepare(r) PROVE IInv'
<1> USE DEF IInv, Prepare, Goto
<1>1. TypeOK'
  <2>1. body' \in [Requests -> SUBSET Fragments]
    BY DEF TypeOK, Fragments
  <2>2. pc' \in [Requests -> PCs] /\ refs' \in [Requests -> SUBSET Chunks]
    BY DEF TypeOK, PCs
  <2>3. QED
    BY <2>1, <2>2 DEF TypeOK
<1>2. Progress'
  BY DEF TypeOK, Progress, Serves, Available, Parsed, Placed
<1>3. SentIsPast'
  BY DEF TypeOK, SentIsPast, Past, Messages
<1>4. QED
  BY <1>1, <1>2, <1>3

(* What the handler holds once the egress evaluation was accepted.         *)
LEMMA EgressKept ==
    ASSUME IInv, NEW r \in Requests, pc[r] = "egress",
           verdict' = [verdict EXCEPT ![r] = Egress(r).verdict],
           body' = [body EXCEPT ![r] = Egress(r).body],
           refs' = [refs EXCEPT ![r] = Egress(r).refs]
    PROVE  /\ verdict' \in [Requests -> Verdicts \cup {"none"}]
           /\ body' \in [Requests -> SUBSET Fragments]
           /\ refs' \in [Requests -> SUBSET Chunks]
           /\ verdict'[r] \in Verdicts
BY EgressType DEF IInv, TypeOK

(* A denial at egress keeps it.                                            *)
LEMMA EgressDenyIInv ==
    ASSUME IInv, NEW r \in Requests, EgressDeny(r) PROVE IInv'
<1>1. pc[r] = "egress" /\ Goto(r, "refused")
  BY DEF EgressDeny
<1>2. DenyEvent(r, route[r].id, Egress(r), Egress(r).body) \in Events
  BY <1>1, RouteType, EgressType, DenyEventType DEF IInv, Placed
<1>3. ledger' \in Seq(Events) /\ logged' \subseteq Requests
  BY <1>2, RecordType DEF EgressDeny, IInv, TypeOK
<1>4. TypeOK'
  <2>1. pc' \in [Requests -> PCs]
    BY <1>1 DEF IInv, TypeOK, Goto, PCs, Ended
  <2>2. QED
    BY <1>1, <1>3, <2>1, EgressKept DEF EgressDeny, IInv, TypeOK
<1>5. Progress'
  BY <1>1 DEF EgressDeny, IInv, TypeOK, Progress, Serves, Available, Parsed, Placed, Goto
<1>6. SentIsPast'
  BY <1>1 DEF EgressDeny, IInv, TypeOK, SentIsPast, Past, Messages, Goto
<1>7. QED
  BY <1>4, <1>5, <1>6 DEF IInv

(* Dispatching keeps it: the verdict, body and sources are well-typed.     *)
LEMMA DispatchIInv ==
    ASSUME IInv, NEW r \in Requests, Dispatch(r) PROVE IInv'
<1>1. pc[r] = "egress" /\ Goto(r, "calling")
  BY DEF Dispatch
<1>2. TypeOK'
  <2>1. pc' \in [Requests -> PCs]
    BY <1>1 DEF IInv, TypeOK, Goto, PCs
  <2>2. QED
    BY <1>1, <2>1, EgressKept DEF Dispatch, IInv, TypeOK
<1>3. Progress'
  <2>1. verdict'[r] \in Verdicts
    BY <1>1, EgressKept DEF Dispatch
  <2>2. QED
    BY <1>1, <2>1
       DEF Dispatch, IInv, TypeOK, Progress, Serves, Available, Parsed, Placed, Goto
<1>4. SentIsPast'
  BY <1>1 DEF Dispatch, IInv, TypeOK, SentIsPast, Past, Messages, Goto
<1>5. QED
  BY <1>2, <1>3, <1>4 DEF IInv

(* Sending keeps it: the message is that of a routed request.              *)
LEMMA TransmitIInv ==
    ASSUME IInv, NEW r \in Requests, Transmit(r) PROVE IInv'
<1>1. /\ pc[r] = "calling" /\ Goto(r, "waiting")
      /\ sent' = sent \cup {Message(r)}
      /\ UNCHANGED <<current, request, cancelled, ledger, logged>>
  BY DEF Transmit
<1>2. Message(r) \in Messages
  <2>1. /\ route[r].id \in Int
        /\ route[r].location \in Locations
        /\ verdict[r] \in Verdicts
    BY <1>1, RouteType DEF Placed, IInv, Progress
  <2>2. QED
    BY <2>1 DEF IInv, TypeOK, Message, Messages
<1>3. TypeOK'
  <2>1. pc' \in [Requests -> PCs]
    BY <1>1 DEF IInv, TypeOK, Goto, PCs
  <2>2. QED
    BY <1>1, <1>2, <2>1 DEF IInv, TypeOK, request
<1>4. Progress'
  BY <1>1 DEF IInv, TypeOK, Progress, Serves, Available, Parsed, Placed, Goto, request
<1>5. SentIsPast'
  <2>1. pc'[r] = "waiting"
    BY <1>1 DEF IInv, TypeOK, Goto
  <2>2. \A m \in sent : pc'[m.req] \in Past
    BY <1>1 DEF IInv, TypeOK, SentIsPast, Past, Messages, Goto
  <2>3. QED
    BY <1>1, <2>1, <2>2 DEF Message, SentIsPast, Past
<1>6. QED
  BY <1>3, <1>4, <1>5 DEF IInv

(* The end of the provider's call keeps it.                                *)
LEMMA CallIInv ==
    ASSUME IInv, NEW r \in Requests,
           ProviderFails(r) \/ ProviderAnswers(r) \/ CopyEnds(r)
    PROVE  IInv'
<1>1. /\ pc[r] \in {"calling", "waiting", "copying"}
      /\ \/ pc[r] = "waiting" /\ Goto(r, "copying")
         \/ Goto(r, "served")
      /\ UNCHANGED <<current, request, cancelled, sent>>
  BY DEF ProviderFails, ProviderAnswers, CopyEnds
<1>2. \A a, f \in BOOLEAN : EgressEvent(r, a, f) \in Events
  BY <1>1, EgressEventType DEF Placed
<1>3. ledger' \in Seq(Events) /\ logged' \subseteq Requests
  BY <1>2, RecordType DEF ProviderFails, ProviderAnswers, CopyEnds, IInv, TypeOK
<1>4. TypeOK'
  <2>1. pc' \in [Requests -> PCs]
    BY <1>1 DEF IInv, TypeOK, Goto, PCs, Ended
  <2>2. QED
    BY <1>1, <1>3, <2>1 DEF IInv, TypeOK, request
<1>5. Progress'
  BY <1>1 DEF IInv, TypeOK, Progress, Serves, Available, Parsed, Placed, Goto, request
<1>6. SentIsPast'
  BY <1>1 DEF IInv, TypeOK, SentIsPast, Past, Messages, Goto, request
<1>7. QED
  BY <1>4, <1>5, <1>6 DEF IInv

(* The steps of the environment leave every handler where it is or lose it.*)
LEMMA EnvironmentIInv ==
    ASSUME IInv, (\E r \in Requests : Cancel(r)) \/ Refresh \/ Restart
    PROVE  IInv'
<1>1. UNCHANGED <<request, sent, ledger, logged>>
  BY DEF Cancel, Refresh, Restart
<1>2. \A r \in Requests :
        \/ pc'[r] = pc[r]
        \/ pc'[r] = "lost" /\ pc[r] \notin Ended \cup {"idle"}
  BY DEF Cancel, Refresh, Restart, IInv, TypeOK
<1>3. TypeOK'
  <2>1. pc' \in [Requests -> PCs]
    BY <1>2 DEF Cancel, Refresh, Restart, IInv, TypeOK, PCs, Ended
  <2>2. current' \in Snapshots /\ cancelled' \in [Requests -> BOOLEAN]
    BY DEF Cancel, Refresh, Restart, IInv, TypeOK
  <2>3. QED
    BY <1>1, <2>1, <2>2 DEF IInv, TypeOK, request
<1>4. Progress'
  BY <1>1, <1>2 DEF IInv, Progress, Serves, Available, Parsed, Placed, request
<1>5. SentIsPast'
  BY <1>1, <1>2 DEF IInv, TypeOK, SentIsPast, Past, Messages, Ended, request
<1>6. QED
  BY <1>3, <1>4, <1>5 DEF IInv

(* Every step keeps the inductive invariant.                               *)
LEMMA NextIInv == IInv /\ [Next]_vars => IInv'
<1> SUFFICES ASSUME IInv, [Next]_vars PROVE IInv'
  OBVIOUS
<1>1. CASE \E r \in Requests : Begin(r)
  BY <1>1, BeginIInv
<1>2. CASE \E r \in Requests : Handler(r)
  BY <1>2, AcceptBodyIInv, RejectIInv, ClassifyIInv, PreflightRefusesIInv,
     RoutedIInv, PrepareIInv, EgressDenyIInv, DispatchIInv, TransmitIInv,
     CallIInv DEF Handler
<1>3. CASE (\E r \in Requests : Cancel(r)) \/ Refresh \/ Restart
  BY <1>3, EnvironmentIInv
<1>4. CASE UNCHANGED vars
  BY <1>4 DEF vars, request, IInv, TypeOK, Progress, Serves, Available,
              SentIsPast, Action
<1>5. QED
  BY <1>1, <1>2, <1>3, <1>4 DEF Next

(* IInv holds in every reachable state.                                    *)
THEOREM Invariance == Spec => []IInv
BY InitIInv, NextIInv, PTL DEF Spec

(* Type correctness of the request path, for every value of the constants. *)
THEOREM TypeCorrect == Spec => []TypeOK
<1>1. IInv => TypeOK
  BY DEF IInv
<1>2. QED
  BY <1>1, Invariance, PTL

-----------------------------------------------------------------------------
(* What the evaluations leave for the call.  A body without findings at    *)
(* egress had none in preflight, when it held less: so the preflight       *)
(* verdict was allow, and came with the retrieval plan that caps top_k.    *)

Minimal(r) ==
    verdict[r] = "allow" /\ route[r].location = "remote"
        => Cardinality(refs[r]) <= RemoteTopK

Vetted(r) ==
    /\ pc[r] = "prepare" => minimize[r] = (Preflight(r).verdict = "allow")
    /\ pc[r] = "egress" /\ Egress(r).verdict = "allow" /\ route[r].location = "remote"
         => Cardinality(refs[r]) <= RemoteTopK
    /\ pc[r] = "calling" =>
         /\ body[r] \cap Secret = {}
         /\ TradeSecret(r) => route[r].location = "local"
         /\ Minimal(r)

(* The top_k of an allowed remote request is at most RemoteTopK.           *)
LEMMA TopKCapped ==
    ASSUME IInv, NEW r \in Requests, pc[r] = "prepare", minimize[r],
           route[r].location = "remote", NEW found \in SUBSET Chunks,
           Cardinality(found) <= (IF Settings(r).enabled THEN TopK(r) ELSE 0)
    PROVE  Cardinality(found) <= RemoteTopK
<1>1. Cardinality(found) \in Nat
  BY ChatAssumption, FS_Subset, FS_CardinalityType
<1>2. Settings(r).topK \in Int
  <2>1. snap[r] \in Snapshots /\ input[r] \in ChatInputs
    BY DEF IInv, Progress, Parsed
  <2>2. QED
    BY <2>1, ChatAssumption DEF Settings, Runtime
<1>3. TopK(r) \in Int /\ TopK(r) <= RemoteTopK
  BY <1>2, PolicyAssumption DEF TopK
<1>4. QED
  BY <1>1, <1>3, PolicyAssumption

(* Preparing injects no more than that.                                    *)
LEMMA PrepareVetted ==
    ASSUME IInv, NEW r \in Requests, Vetted(r), Prepare(r)
    PROVE  Vetted(r)'
<1>1. PICK found \in SUBSET Chunks :
        /\ Cardinality(found) <= (IF Settings(r).enabled THEN TopK(r) ELSE 0)
        /\ body' = [body EXCEPT ![r] = @ \cup found]
        /\ refs' = [refs EXCEPT ![r] = found]
  BY DEF Prepare
<1>2. /\ pc[r] = "prepare" /\ pc'[r] = "egress"
      /\ body'[r] = body[r] \cup found /\ refs'[r] = found
      /\ UNCHANGED <<snap, label, route>>
  BY <1>1 DEF Prepare, Goto, IInv, TypeOK
<1>3. Egress(r)'.verdict = "allow" => Preflight(r).verdict = "allow"
  BY <1>2 DEF Egress, Preflight, Evaluate, VerdictOf, Scan, Runtime
<1>4. ASSUME Egress(r)'.verdict = "allow", route[r].location = "remote"
      PROVE  Cardinality(found) <= RemoteTopK
  <2>1. minimize[r]
    BY <1>2, <1>3, <1>4 DEF Vetted
  <2>2. QED
    BY <1>1, <1>2, <1>4, <2>1, TopKCapped
<1>5. QED
  BY <1>2, <1>4 DEF Vetted

(* Routing has injected nothing yet.                                       *)
LEMMA RoutedVetted ==
    ASSUME IInv, NEW r \in Requests, Routed(r)
    PROVE  Vetted(r)'
<1>1. /\ pc'[r] \in {"rejected", "prepare"}
      /\ minimize'[r] = Preflight(r).minimize
      /\ UNCHANGED <<snap, label, body>>
  BY DEF Routed, Goto, IInv, TypeOK
<1>2. Preflight(r)' = Preflight(r)
  BY <1>1 DEF Preflight, Runtime, LabelTradeSecret
<1>3. Preflight(r).minimize = (Preflight(r).verdict = "allow")
  BY DEF Preflight, Evaluate
<1>4. QED
  BY <1>1, <1>2, <1>3 DEF Vetted

(* Dispatching: the evaluation judges by the same snapshot and label as    *)
(* TradeSecret does, and keeps the sources of a body without findings.     *)
LEMMA DispatchVetted ==
    ASSUME IInv, NEW r \in Requests, Vetted(r), Dispatch(r)
    PROVE  Vetted(r)'
<1>1. /\ pc[r] = "egress" /\ pc'[r] = "calling"
      /\ verdict'[r] = Egress(r).verdict
      /\ body'[r] = Egress(r).body
      /\ refs'[r] = Egress(r).refs
      /\ UNCHANGED <<snap, label, route>>
      /\ Egress(r).verdict # "block"
      /\ Egress(r).verdict = "local_only" => route[r].location = "local"
  BY DEF Dispatch, EgressDenied, Goto, IInv, TypeOK
<1>2. body'[r] \cap Secret = {}
  BY <1>1, EgressType DEF IInv
<1>3. TradeSecret(r)' => route[r].location = "local"
  <2>1. ASSUME TradeSecret(r) PROVE Egress(r).verdict \in {"block", "local_only"}
    BY <2>1, EvaluateTradeSecret DEF Egress, TradeSecret, Runtime
  <2>2. TradeSecret(r)' = TradeSecret(r)
    BY <1>1 DEF TradeSecret, LabelTradeSecret
  <2>3. QED
    BY <1>1, <2>1, <2>2
<1>4. ASSUME Egress(r).verdict = "allow", route[r].location = "remote"
      PROVE  Cardinality(Egress(r).refs) <= RemoteTopK
  <2>1. Egress(r).refs = refs[r]
    BY <1>4 DEF Egress, Evaluate, VerdictOf
  <2>2. QED
    BY <1>1, <1>4, <2>1 DEF Vetted
<1>5. QED
  BY <1>1, <1>2, <1>3, <1>4 DEF Vetted, Minimal

(* Steps of others, and those of r that leave it elsewhere.                *)
LEMMA FrameVetted ==
    ASSUME NEW r \in Requests, Vetted(r),
           \/ pc'[r] \notin {"prepare", "egress", "calling"}
           \/ /\ pc'[r] = pc[r] /\ snap'[r] = snap[r] /\ label'[r] = label[r]
              /\ body'[r] = body[r] /\ refs'[r] = refs[r] /\ verdict'[r] = verdict[r]
              /\ route'[r] = route[r] /\ minimize'[r] = minimize[r]
    PROVE  Vetted(r)'
<1>1. CASE pc'[r] \notin {"prepare", "egress", "calling"}
  BY <1>1 DEF Vetted
<1>2. CASE /\ pc'[r] = pc[r] /\ snap'[r] = snap[r] /\ label'[r] = label[r]
           /\ body'[r] = body[r] /\ refs'[r] = refs[r] /\ verdict'[r] = verdict[r]
           /\ route'[r] = route[r] /\ minimize'[r] = minimize[r]
  <2>1. Preflight(r)' = Preflight(r) /\ Egress(r)' = Egress(r)
    BY <1>2 DEF Preflight, Egress, Runtime, LabelTradeSecret
  <2>2. TradeSecret(r)' = TradeSecret(r)
    BY <1>2 DEF TradeSecret, LabelTradeSecret
  <2>3. QED
    BY <1>2, <2>1, <2>2 DEF Vetted, Minimal
<1>3. QED
  BY <1>1, <1>2

(* Every step keeps it.                                                    *)
LEMMA NextVetted ==
    ASSUME IInv, \A r \in Requests : Vetted(r), [Next]_vars
    PROVE  \A r \in Requests : Vetted(r)'
<1> SUFFICES ASSUME NEW r \in Requests PROVE Vetted(r)'
  OBVIOUS
<1>1. CASE Prepare(r)
  BY <1>1, PrepareVetted
<1>2. CASE Routed(r)
  BY <1>2, RoutedVetted
<1>3. CASE Dispatch(r)
  BY <1>3, DispatchVetted
<1>4. CASE ~Prepare(r) /\ ~Routed(r) /\ ~Dispatch(r)
  <2> DEFINE Moved == pc'[r] \notin {"prepare", "egress", "calling"}
             Same == /\ pc'[r] = pc[r] /\ snap'[r] = snap[r] /\ label'[r] = label[r]
                     /\ body'[r] = body[r] /\ refs'[r] = refs[r] /\ verdict'[r] = verdict[r]
                     /\ route'[r] = route[r] /\ minimize'[r] = minimize[r]
  <2>1. Moved \/ Same
    <3>1. ASSUME NEW q \in Requests, Begin(q) \/ Handler(q) \/ Cancel(q)
          PROVE  Moved \/ Same
      <4>1. CASE Begin(q) \/ Cancel(q) \/ AcceptBody(q) \/ RejectBody(q)
        BY <1>4, <4>1, ZenonT(60) DEF Begin, AcceptBody, RejectBody, Cancel,
           request, Goto, IInv, TypeOK
      <4>2. CASE Classify(q) \/ PreflightBlock(q) \/ NoEligibleRoute(q) \/ Routed(q)
        BY <1>4, <4>2, ZenonT(60) DEF Classify, PreflightBlock, NoEligibleRoute,
           Routed, request, Goto, IInv, TypeOK
      <4>3. CASE Prepare(q) \/ PrepareFails(q) \/ EgressDeny(q) \/ Dispatch(q)
        BY <1>4, <4>3, ZenonT(60) DEF Prepare, PrepareFails, EgressDeny, Dispatch,
           request, Goto, IInv, TypeOK
      <4>4. CASE \/ Transmit(q) \/ ProviderFails(q) \/ ProviderAnswers(q)
                 \/ CopyEnds(q)
        BY <1>4, <4>4, ZenonT(60) DEF Transmit, ProviderFails, ProviderAnswers,
           CopyEnds, request, Goto, IInv, TypeOK
      <4>5. QED
        BY <3>1, <4>1, <4>2, <4>3, <4>4 DEF Handler
    <3>2. CASE Refresh \/ Restart \/ UNCHANGED vars
      BY <3>2 DEF Refresh, Restart, vars, request
    <3>3. QED
      BY <3>1, <3>2 DEF Next
  <2>2. QED
    BY <2>1, FrameVetted
<1>5. QED
  BY <1>1, <1>2, <1>3, <1>4

(* What is called was vetted, in every reachable state.                    *)
THEOREM VettedTheorem == Spec => [](\A r \in Requests : Vetted(r))
<1> DEFINE V == \A r \in Requests : Vetted(r)
<1>1. Init => V
  BY DEF Init, Vetted
<1>2. IInv /\ V /\ [Next]_vars => V'
  BY NextVetted
<1> HIDE DEF V
<1>3. Spec => []V
  BY <1>1, <1>2, Invariance, PTL DEF Spec
<1>4. QED
  BY <1>3 DEF V

-----------------------------------------------------------------------------
(* What is sent when: only Transmit sends, the message of its own request, *)
(* and what decided about it does not change afterwards.                   *)

(* No action but Transmit changes what was sent.                           *)
LEMMA OnlyTransmitSends ==
    ASSUME [Next]_vars
    PROVE  \/ UNCHANGED sent
           \/ \E r \in Requests : Transmit(r)
<1>1. CASE Next
  BY <1>1 DEF Next, Handler, Begin, AcceptBody, RejectBody, Classify,
     PreflightBlock, NoEligibleRoute, Routed, Prepare, PrepareFails,
     EgressDeny, Dispatch, ProviderFails, ProviderAnswers, CopyEnds,
     Cancel, Refresh, Restart, request
<1>2. CASE UNCHANGED vars
  BY <1>2 DEF vars
<1>3. QED
  BY <1>1, <1>2

(* What a handler works with is settled once the request has left.         *)
LEMMA PastIsSettled ==
    ASSUME IInv, [Next]_vars, NEW q \in Requests, pc[q] \in Past
    PROVE  /\ snap'[q] = snap[q] /\ label'[q] = label[q] /\ input'[q] = input[q]
           /\ route'[q] = route[q] /\ verdict'[q] = verdict[q]
           /\ body'[q] = body[q] /\ refs'[q] = refs[q]
<1>1. pc[q] \notin {"idle", "reading", "classify", "preflight", "prepare",
                    "egress", "calling"}
  BY DEF Past
<1>2. CASE Next
  BY <1>1, <1>2, ZenonT(60) DEF Next, Handler, Begin, AcceptBody, RejectBody, Classify,
     PreflightBlock, NoEligibleRoute, Routed, Prepare, PrepareFails,
     EgressDeny, Dispatch, Transmit, ProviderFails, ProviderAnswers,
     CopyEnds, Cancel, Refresh, Restart, request, IInv, TypeOK
<1>3. CASE UNCHANGED vars
  BY <1>3 DEF vars, request
<1>4. QED
  BY <1>2, <1>3

(* So it is for the request of a message.                                  *)
LEMMA SentIsSettled ==
    ASSUME IInv, [Next]_vars, NEW m \in sent
    PROVE  /\ snap'[m.req] = snap[m.req]
           /\ label'[m.req] = label[m.req]
           /\ input'[m.req] = input[m.req]
<1>1. m.req \in Requests /\ pc[m.req] \in Past
  BY DEF IInv, TypeOK, Messages, SentIsPast
<1>2. QED
  BY <1>1, PastIsSettled

(* What Transmit sends was vetted.                                         *)
LEMMA TransmitSends ==
    ASSUME IInv, NEW r \in Requests, Transmit(r)
    PROVE  /\ sent' = sent \cup {Message(r)}
           /\ pc[r] = "calling" /\ pc'[r] = "waiting"
           /\ UNCHANGED <<snap, label, input, route, verdict, body, refs>>
           /\ Serves(r, route[r])
BY DEF Transmit, IInv, TypeOK, Progress, Placed, request, Goto

(* No content of a trade-secret request leaves the machine: the egress     *)
(* evaluation judges by the same snapshot and label as TradeSecret does.   *)
THEOREM TradeSecretTheorem == Spec => []TradeSecretStaysLocal
<1> DEFINE V == \A r \in Requests : Vetted(r)
<1>1. Init => TradeSecretStaysLocal
  BY DEF Init, TradeSecretStaysLocal
<1>2. IInv /\ V /\ TradeSecretStaysLocal /\ [Next]_vars => TradeSecretStaysLocal'
  <2> SUFFICES ASSUME IInv, V, TradeSecretStaysLocal, [Next]_vars,
                      NEW m \in sent', TradeSecret(m.req)'
               PROVE  m.location = "local"
    BY DEF TradeSecretStaysLocal
  <2>1. CASE m \in sent
    <3>1. TradeSecret(m.req)
      BY <2>1, SentIsSettled DEF TradeSecret, LabelTradeSecret
    <3>2. QED
      BY <2>1, <3>1 DEF TradeSecretStaysLocal
  <2>2. CASE m \notin sent
    <3>1. PICK r \in Requests : Transmit(r)
      BY <2>2, OnlyTransmitSends
    <3>2. m = Message(r) /\ pc[r] = "calling" /\ UNCHANGED <<snap, label>>
      BY <2>2, <3>1, TransmitSends
    <3>3. m.req = r /\ m.location = route[r].location
      BY <3>2 DEF Message
    <3>4. TradeSecret(r)
      BY <3>2, <3>3 DEF TradeSecret, LabelTradeSecret
    <3>5. QED
      BY <3>2, <3>3, <3>4 DEF Vetted
  <2>3. QED
    BY <2>1, <2>2
<1>3. Spec => []V
  BY VettedTheorem
<1> HIDE DEF V
<1>4. QED
  BY <1>1, <1>2, <1>3, Invariance, PTL DEF Spec

(* No provider receives a fragment the scanner matches.                    *)
THEOREM NoSecretTheorem == Spec => []NoSecretSent
<1> DEFINE V == \A r \in Requests : Vetted(r)
<1>1. Init => NoSecretSent
  BY DEF Init, NoSecretSent
<1>2. IInv /\ V /\ NoSecretSent /\ [Next]_vars => NoSecretSent'
  <2> SUFFICES ASSUME IInv, V, NoSecretSent, [Next]_vars, NEW m \in sent'
               PROVE  m.body \cap Secret = {}
    BY DEF NoSecretSent
  <2>1. CASE m \in sent
    BY <2>1 DEF NoSecretSent
  <2>2. CASE m \notin sent
    <3>1. PICK r \in Requests : Transmit(r)
      BY <2>2, OnlyTransmitSends
    <3>2. m = Message(r) /\ pc[r] = "calling"
      BY <2>2, <3>1, TransmitSends
    <3>3. m.body = body[r]
      BY <3>2 DEF Message
    <3>4. QED
      BY <3>2, <3>3 DEF Vetted
  <2>3. QED
    BY <2>1, <2>2
<1>3. Spec => []V
  BY VettedTheorem
<1> HIDE DEF V
<1>4. QED
  BY <1>1, <1>2, <1>3, Invariance, PTL DEF Spec

(* A remote provider that gets an unredacted request gets a capped context.*)
THEOREM MinimalContextTheorem == Spec => []AllowedRemoteContextIsMinimal
<1> DEFINE V == \A r \in Requests : Vetted(r)
<1>1. Init => AllowedRemoteContextIsMinimal
  BY DEF Init, AllowedRemoteContextIsMinimal
<1>2. /\ IInv /\ V /\ AllowedRemoteContextIsMinimal
      /\ [Next]_vars
      => AllowedRemoteContextIsMinimal'
  <2> SUFFICES ASSUME IInv, V, AllowedRemoteContextIsMinimal, [Next]_vars,
                      NEW m \in sent', m \notin sent,
                      m.location = "remote", m.verdict = "allow"
               PROVE  Cardinality(m.refs) <= RemoteTopK
    BY DEF AllowedRemoteContextIsMinimal
  <2>1. PICK r \in Requests : Transmit(r)
    BY OnlyTransmitSends
  <2>2. m = Message(r) /\ pc[r] = "calling"
    BY <2>1, TransmitSends
  <2>3. /\ m.refs = refs[r] /\ m.verdict = verdict[r]
        /\ m.location = route[r].location
    BY <2>2 DEF Message
  <2>4. QED
    BY <2>2, <2>3 DEF Vetted, Minimal
<1>3. Spec => []V
  BY VettedTheorem
<1> HIDE DEF V
<1>4. QED
  BY <1>1, <1>2, <1>3, Invariance, PTL DEF Spec

(* A request never reaches a provider its own snapshot would not choose.   *)
THEOREM OwnSnapshotTheorem == Spec => []SentWithinOwnSnapshot
<1> DEFINE Own(m) ==
        \E c \in snap[m.req].catalog :
            /\ c.id = m.provider /\ c.location = m.location
            /\ Serves(m.req, c)
<1>1. SentWithinOwnSnapshot <=> \A m \in sent : Own(m)
  BY DEF SentWithinOwnSnapshot, Serves, Available
<1>2. Init => \A m \in sent : Own(m)
  BY DEF Init
<1>3. IInv /\ (\A m \in sent : Own(m)) /\ [Next]_vars => (\A m \in sent : Own(m))'
  <2> SUFFICES ASSUME IInv, \A m \in sent : Own(m), [Next]_vars, NEW m \in sent'
               PROVE  Own(m)'
    OBVIOUS
  <2>1. CASE m \in sent
    BY <2>1, SentIsSettled DEF Serves, Available, Action
  <2>2. CASE m \notin sent
    <3>1. PICK r \in Requests : Transmit(r)
      BY <2>2, OnlyTransmitSends
    <3>2. /\ m = Message(r)
          /\ UNCHANGED <<snap, label, input>>
          /\ Serves(r, route[r])
      BY <2>2, <3>1, TransmitSends
    <3>3. /\ m.req = r
          /\ m.provider = route[r].id
          /\ m.location = route[r].location
      BY <3>2 DEF Message
    <3>4. QED
      BY <3>2, <3>3 DEF Serves, Available, Action
  <2>3. QED
    BY <2>1, <2>2
<1>4. QED
  BY <1>1, <1>2, <1>3, Invariance, PTL DEF Spec

-----------------------------------------------------------------------------
(* The abstract promise.                                                   *)

(* What was sent for r is in no other request's way.                       *)
LEMMA ReleasedNow ==
    ASSUME IInv, NEW r \in Requests, Transmit(r)
    PROVE  /\ Released[r] = {}
           /\ Released' = [Released EXCEPT ![r] = {route[r].location}]
<1>1. /\ sent' = sent \cup {Message(r)}
      /\ pc[r] = "calling"
  BY TransmitSends
<1>2. Message(r).req = r /\ Message(r).location = route[r].location
  BY DEF Message
<1>3. \A m \in sent : m.req # r
  BY <1>1 DEF IInv, SentIsPast, Past
<1>4. Released[r] = {}
  BY <1>3 DEF Released, SentFor
<1>5. \A q \in Requests :
        Released'[q] = IF q = r THEN {route[r].location} ELSE Released[q]
  BY <1>1, <1>2, <1>3 DEF Released, SentFor
<1>6. QED
  BY <1>4, <1>5 DEF Released

(* A clearance is given when the handler classifies, and never changes.    *)
LEMMA ClearanceSteps ==
    ASSUME IInv, [Next]_vars
    PROVE  \/ UNCHANGED Clearance
           \/ /\ UNCHANGED sent
              /\ \E r \in Requests : Control!Clear(r)
<1>1. CASE \E r \in Requests : Begin(r)
  <2>1. PICK r \in Requests : Begin(r)
    BY <1>1
  <2>2. /\ label[r] = Unclassified
        /\ UNCHANGED label
        /\ \A q \in Requests \ {r} : snap'[q] = snap[q]
    BY <2>1 DEF Begin, IInv, Progress, TypeOK
  <2>3. QED
    BY <2>2 DEF Clearance, TradeSecret
<1>2. CASE \E r \in Requests : Classify(r)
  <2>1. PICK r \in Requests : Classify(r)
    BY <1>2
  <2>2. /\ label[r] = Unclassified
        /\ label'[r] # Unclassified
        /\ \A q \in Requests \ {r} : label'[q] = label[q]
        /\ UNCHANGED <<snap, sent>>
    BY <2>1, ChatAssumption DEF Classify, IInv, Progress, TypeOK
  <2> DEFINE c == IF TradeSecret(r)' THEN "local" ELSE "any"
  <2>3. \A q \in Requests :
          Clearance'[q] = IF q = r THEN c ELSE Clearance[q]
    BY <2>2 DEF Clearance, TradeSecret, LabelTradeSecret
  <2>4. Clearance[r] = "unset" /\ Clearance' = [Clearance EXCEPT ![r] = c]
    BY <2>2, <2>3 DEF Clearance
  <2>5. UNCHANGED Released
    BY <2>2 DEF Released, SentFor
  <2>6. QED
    BY <2>2, <2>4, <2>5 DEF Control!Clear
<1>3. CASE UNCHANGED <<snap, label>>
  BY <1>3 DEF Clearance, TradeSecret, LabelTradeSecret
<1>4. QED
  BY <1>1, <1>2, <1>3 DEF Next, Handler, AcceptBody, RejectBody,
     PreflightBlock, NoEligibleRoute, Routed, Prepare, PrepareFails,
     EgressDeny, Dispatch, Transmit, ProviderFails, ProviderAnswers,
     CopyEnds, Cancel, Refresh, Restart, request, vars

(* The request path implements EgressControl: every request gets one       *)
(* clearance, and is released at most once, where the clearance permits.   *)
THEOREM Refinement == Spec => ControlsEgress
<1> DEFINE V == \A r \in Requests : Vetted(r)
<1>1. Init => Control!Init
  BY DEF Init, Control!Init, Clearance, Released, SentFor
<1>2. IInv /\ V /\ [Next]_vars => [Control!Next]_(Control!vars)
  <2> SUFFICES ASSUME IInv, V, [Next]_vars
               PROVE  [Control!Next]_(Control!vars)
    OBVIOUS
  <2>1. CASE \E r \in Requests : Transmit(r)
    <3>1. PICK r \in Requests : Transmit(r)
      BY <2>1
    <3>2. pc[r] = "calling" /\ UNCHANGED <<snap, label>>
      BY <3>1, TransmitSends
    <3>3. UNCHANGED Clearance
      BY <3>2 DEF Clearance, TradeSecret, LabelTradeSecret
    <3>4. Clearance[r] = "local" => route[r].location = "local"
      BY <3>2 DEF Clearance, Vetted
    <3>5. Clearance[r] \in {"local", "any"}
      BY <3>2 DEF Clearance, IInv, Progress, Placed
    <3>6. route[r].location \in Locations
      BY <3>2, RouteType DEF Placed
    <3>7. route[r].location \in Control!Permitted(r)
      BY <3>4, <3>5, <3>6 DEF Control!Permitted, Locations
    <3>8. Control!Release(r)
      BY <3>1, <3>3, <3>7, ReleasedNow DEF Control!Release
    <3>9. QED
      BY <3>8 DEF Control!Next
  <2>2. CASE UNCHANGED sent
    <3>1. UNCHANGED Released
      BY <2>2 DEF Released, SentFor
    <3>2. QED
      BY <3>1, ClearanceSteps DEF Control!Next, Control!vars
  <2>3. QED
    BY <2>1, <2>2, OnlyTransmitSends
<1>3. Spec => []V
  BY VettedTheorem
<1> HIDE DEF V
<1>4. QED
  BY <1>1, <1>2, <1>3, Invariance, PTL DEF Spec, ControlsEgress, Control!Spec

-----------------------------------------------------------------------------
(* The ledger.  LInv: a message is what its handler still holds, and so is *)
(* the event of a call; an event is the last thing a handler writes, so    *)
(* that its request stays where it is; a call that waits for its outcome   *)
(* was sent.                                                               *)

Held(m) == m = Message(m.req)

Told(e) ==
    IF e.type = "remote_egress"
    THEN /\ pc[e.req] = "served"
         /\ e = EgressEvent(e.req, e.answered, e.error)
         /\ e.answered => Message(e.req) \in sent
    ELSE pc[e.req] = "refused"

Unique ==
    \A k, n \in DOMAIN ledger : ledger[k].req = ledger[n].req => k = n

Recorded(e) == \E n \in DOMAIN ledger : ledger[n] = e

LInv ==
    /\ \A m \in sent : Held(m)
    /\ \A e \in Events : Recorded(e) => Told(e)
    /\ Unique
    /\ \A r \in Requests : pc[r] \in {"waiting", "copying"} => Message(r) \in sent

(* An entry of the ledger is an event of one of the requests.              *)
LEMMA EventRequest ==
    ASSUME IInv, NEW n \in DOMAIN ledger
    PROVE  ledger[n] \in Events /\ ledger[n].req \in Requests
<1>1. ledger[n] \in Events
  BY DEF IInv, TypeOK
<1>2. QED
  BY <1>1 DEF Events

(* The inductive invariant of the ledger gives the property.               *)
LEMMA LedgerIsTruthfulFromInv == IInv /\ LInv => LedgerIsTruthful
<1> SUFFICES ASSUME IInv, LInv, NEW n \in DOMAIN ledger, NEW e, e = ledger[n]
             PROVE  /\ IF e.type = "remote_egress"
                       THEN /\ \A m \in SentFor(e.req) :
                                 /\ m.provider = e.provider /\ m.verdict = e.verdict
                                 /\ m.body = e.body /\ m.refs = e.refs
                            /\ e.answered => SentFor(e.req) # {}
                       ELSE SentFor(e.req) = {}
                    /\ \A k \in DOMAIN ledger : ledger[k].req = e.req => k = n
  BY DEF LedgerIsTruthful
<1>1. Told(e) /\ e.req \in Requests
  BY EventRequest DEF LInv, Recorded
<1>2. \A k \in DOMAIN ledger : ledger[k].req = e.req => k = n
  BY DEF LInv, Unique
<1>3. CASE e.type = "remote_egress"
  <2>1. e = EgressEvent(e.req, e.answered, e.error)
    BY <1>1, <1>3 DEF Told
  <2>2. /\ e.provider = route[e.req].id /\ e.verdict = verdict[e.req]
        /\ e.body = body[e.req] /\ e.refs = refs[e.req]
    BY <2>1 DEF EgressEvent
  <2>3. \A m \in SentFor(e.req) : m = Message(e.req)
    BY DEF SentFor, LInv, Held
  <2>4. \A m \in SentFor(e.req) :
            /\ m.provider = e.provider /\ m.verdict = e.verdict
            /\ m.body = e.body /\ m.refs = e.refs
    BY <2>2, <2>3 DEF Message
  <2>5. e.answered => Message(e.req) \in SentFor(e.req)
    BY <1>1, <1>3 DEF Told, SentFor, Message
  <2>6. QED
    BY <1>2, <1>3, <2>4, <2>5
<1>4. CASE e.type # "remote_egress"
  <2>1. pc[e.req] = "refused"
    BY <1>1, <1>4 DEF Told
  <2>2. SentFor(e.req) = {}
    BY <2>1 DEF SentFor, IInv, SentIsPast, Past
  <2>3. QED
    BY <1>2, <1>4, <2>2
<1>5. QED
  BY <1>3, <1>4

(* A request that was served or refused stays so.                          *)
LEMMA EndedStays ==
    ASSUME IInv, [Next]_vars, NEW q \in Requests, pc[q] \in {"served", "refused"}
    PROVE  pc'[q] = pc[q]
<1>1. CASE Next
  BY <1>1, ZenonT(60) DEF Next, Handler, Begin, AcceptBody, RejectBody, Classify,
     PreflightBlock, NoEligibleRoute, Routed, Prepare, PrepareFails,
     EgressDeny, Dispatch, Transmit, ProviderFails, ProviderAnswers,
     CopyEnds, Cancel, Refresh, Restart, Goto, Ended, IInv, TypeOK
<1>2. CASE UNCHANGED vars
  BY <1>2 DEF vars
<1>3. QED
  BY <1>1, <1>2

(* A step leaves ledger and log alone, or is the record of one handler     *)
(* that ends with it, and that tells the truth.                            *)
LEMMA RecordSteps ==
    ASSUME IInv, LInv, [Next]_vars
    PROVE  \/ /\ UNCHANGED <<ledger, logged>>
              /\ \A q \in Requests :
                    pc'[q] \in {"served", "refused"} => pc'[q] = pc[q]
           \/ \E r \in Requests, e \in Events :
                /\ e.req = r /\ Record(r, e)
                /\ pc[r] \notin {"served", "refused"}
                /\ Told(e)'
                /\ \/ e.type = "remote_egress" /\ Goto(r, "served")
                   \/ e.type = "remote_deny" /\ Goto(r, "refused")
                /\ UNCHANGED cancelled
<1> DEFINE Quiet == /\ UNCHANGED <<ledger, logged>>
                    /\ \A q \in Requests :
                          pc'[q] \in {"served", "refused"} => pc'[q] = pc[q]
           Recording(r, e) ==
                /\ e.req = r /\ Record(r, e)
                /\ pc[r] \notin {"served", "refused"}
                /\ Told(e)'
                /\ \/ e.type = "remote_egress" /\ Goto(r, "served")
                   \/ e.type = "remote_deny" /\ Goto(r, "refused")
                /\ UNCHANGED cancelled
<1>1. ASSUME NEW r \in Requests, NEW e \in Events, e.req = r, Record(r, e),
             e.type = "remote_deny", Goto(r, "refused"), UNCHANGED cancelled,
             pc[r] \notin {"served", "refused"}
      PROVE  Recording(r, e)
  BY <1>1 DEF Told, Goto, IInv, TypeOK
<1>2. ASSUME NEW r \in Requests, PreflightBlock(r)
      PROVE  \E e \in Events : Recording(r, e)
  <2>1. DenyEvent(r, StartupProvider, Preflight(r), body[r]) \in Events
    BY ChatAssumption, PreflightType, DenyEventType DEF IInv, TypeOK
  <2>2. PICK e \in Events : e = DenyEvent(r, StartupProvider, Preflight(r), body[r])
    BY <2>1
  <2>3. e.req = r /\ e.type = "remote_deny"
    BY <2>2 DEF DenyEvent
  <2>4. Record(r, e) /\ Goto(r, "refused") /\ UNCHANGED cancelled /\ pc[r] = "preflight"
    BY <1>2, <2>2 DEF PreflightBlock
  <2> HIDE DEF Recording
  <2>5. QED
    BY <1>1, <2>3, <2>4
<1>3. ASSUME NEW r \in Requests, NoEligibleRoute(r),
             Preflight(r).verdict = "local_only"
      PROVE  \E e \in Events : Recording(r, e)
  <2>1. DenyEvent(r, 0, Preflight(r), body[r]) \in Events
    <3>1. 0 \in Int /\ body[r] \in SUBSET Fragments
      BY DEF IInv, TypeOK
    <3>2. Preflight(r).verdict \in Verdicts /\ Preflight(r).refs \in SUBSET Chunks
      BY PreflightType DEF IInv
    <3>3. QED
      BY <3>1, <3>2, DenyEventType
  <2>2. PICK e \in Events : e = DenyEvent(r, 0, Preflight(r), body[r])
    BY <2>1
  <2>3. e.req = r /\ e.type = "remote_deny"
    BY <2>2 DEF DenyEvent
  <2>4. Record(r, e) /\ Goto(r, "refused") /\ UNCHANGED cancelled /\ pc[r] = "preflight"
    BY <1>3, <2>2 DEF NoEligibleRoute
  <2> HIDE DEF Recording
  <2>5. QED
    BY <1>1, <2>3, <2>4
<1>4. ASSUME NEW r \in Requests, EgressDeny(r)
      PROVE  \E e \in Events : Recording(r, e)
  <2>1. DenyEvent(r, route[r].id, Egress(r), Egress(r).body) \in Events
    <3>1. pc[r] = "egress"
      BY <1>4 DEF EgressDeny
    <3>2. route[r].id \in Int
      BY <3>1, RouteType DEF Placed
    <3>3. /\ Egress(r).verdict \in Verdicts /\ Egress(r).refs \in SUBSET Chunks
          /\ Egress(r).body \in SUBSET Fragments
      BY EgressType DEF IInv
    <3>4. QED
      BY <3>2, <3>3, DenyEventType
  <2>2. PICK e \in Events : e = DenyEvent(r, route[r].id, Egress(r), Egress(r).body)
    BY <2>1
  <2>3. e.req = r /\ e.type = "remote_deny"
    BY <2>2 DEF DenyEvent
  <2>4. Record(r, e) /\ Goto(r, "refused") /\ UNCHANGED cancelled /\ pc[r] = "egress"
    BY <1>4, <2>2 DEF EgressDeny
  <2> HIDE DEF Recording
  <2>5. QED
    BY <1>1, <2>3, <2>4
<1>5. ASSUME NEW r \in Requests, ProviderFails(r) \/ CopyEnds(r)
      PROVE  \E e \in Events : Recording(r, e)
  <2>1. PICK a \in BOOLEAN, f \in BOOLEAN :
          /\ Record(r, EgressEvent(r, a, f))
          /\ a => pc[r] = "copying"
    BY <1>5 DEF ProviderFails, CopyEnds
  <2>2. /\ pc[r] \in {"calling", "waiting", "copying"}
        /\ Goto(r, "served")
        /\ UNCHANGED <<request, sent, cancelled>>
    BY <1>5 DEF ProviderFails, CopyEnds
  <2>3. PICK e \in Events : e = EgressEvent(r, a, f)
    BY <2>2, EgressEventType DEF Placed
  <2>4. /\ e.req = r /\ e.type = "remote_egress" /\ e.answered = a
        /\ e.error = f
    BY <2>3 DEF EgressEvent
  <2>5. EgressEvent(r, a, f)' = EgressEvent(r, a, f) /\ Message(r)' = Message(r)
    BY <2>2 DEF EgressEvent, Message, request
  <2>6. a => Message(r) \in sent
    BY <2>1 DEF LInv
  <2>7. pc'[r] = "served"
    BY <2>2 DEF Goto, IInv, TypeOK
  <2>8. Told(e)'
    BY <2>2, <2>3, <2>4, <2>5, <2>6, <2>7 DEF Told
  <2>9. Record(r, e) /\ UNCHANGED cancelled
    BY <2>1, <2>2, <2>3
  <2>10. pc[r] \notin {"served", "refused"} /\ Goto(r, "served")
    BY <2>2
  <2>11. Recording(r, e)
    BY <2>4, <2>8, <2>9, <2>10
  <2> HIDE DEF Recording
  <2>12. QED
    BY <2>11
<1>6. ASSUME NEW r \in Requests,
             \/ Begin(r) \/ AcceptBody(r) \/ RejectBody(r) \/ Classify(r)
             \/ Routed(r) \/ Prepare(r) \/ PrepareFails(r) \/ Dispatch(r)
             \/ Transmit(r) \/ ProviderAnswers(r) \/ Cancel(r)
             \/ NoEligibleRoute(r) /\ Preflight(r).verdict # "local_only"
      PROVE  Quiet
  <2>1. UNCHANGED <<ledger, logged>>
    BY <1>6 DEF Begin, AcceptBody, RejectBody, Classify, Routed, Prepare,
       PrepareFails, Dispatch, Transmit, ProviderAnswers, Cancel, NoEligibleRoute
  <2>2. \A q \in Requests : pc'[q] \in {"served", "refused"} => pc'[q] = pc[q]
    BY <1>6 DEF Begin, AcceptBody, RejectBody, Classify, Routed, Prepare,
       PrepareFails, Dispatch, Transmit, ProviderAnswers, Cancel,
       NoEligibleRoute, Goto, Ended, IInv, TypeOK
  <2>3. QED
    BY <2>1, <2>2
<1>7. ASSUME Refresh \/ Restart \/ UNCHANGED vars
      PROVE  Quiet
  BY <1>7 DEF Refresh, Restart, vars
<1> HIDE DEF Quiet, Recording
<1>8. Quiet \/ \E r \in Requests, e \in Events : Recording(r, e)
  <2>1. ASSUME NEW r \in Requests, Begin(r) \/ Handler(r) \/ Cancel(r)
        PROVE  Quiet \/ \E e \in Events : Recording(r, e)
    BY <1>2, <1>3, <1>4, <1>5, <1>6, <2>1 DEF Handler
  <2>2. CASE Next /\ ~(Refresh \/ Restart)
    <3>1. PICK r \in Requests : Begin(r) \/ Handler(r) \/ Cancel(r)
      BY <2>2 DEF Next
    <3>2. QED
      BY <2>1, <3>1
  <2>3. QED
    BY <1>7, <2>2
<1>9. QED
  BY <1>8 DEF Quiet, Recording

(* What was told stays true.                                               *)
LEMMA ToldStays ==
    ASSUME IInv, [Next]_vars, NEW e \in Events, Told(e) PROVE Told(e)'
<1>1. e.req \in Requests
  BY DEF Events
<1>2. CASE e.type = "remote_egress"
  <2>1. pc[e.req] = "served" /\ pc'[e.req] = "served"
    BY <1>1, <1>2, EndedStays DEF Told
  <2>2. /\ route'[e.req] = route[e.req] /\ verdict'[e.req] = verdict[e.req]
        /\ body'[e.req] = body[e.req] /\ refs'[e.req] = refs[e.req]
    BY <1>1, <2>1, PastIsSettled DEF Past
  <2>3. /\ EgressEvent(e.req, e.answered, e.error)' = EgressEvent(e.req, e.answered, e.error)
        /\ Message(e.req)' = Message(e.req)
    BY <2>2 DEF EgressEvent, Message
  <2>4. \A m \in sent : m \in sent'
    BY OnlyTransmitSends DEF Transmit
  <2>5. QED
    BY <1>2, <2>1, <2>3, <2>4 DEF Told
<1>3. CASE e.type # "remote_egress"
  BY <1>1, <1>3, EndedStays DEF Told
<1>4. QED
  BY <1>2, <1>3

(* Record appends the event or leaves the ledger as it is.                 *)
LEMMA RecordCases ==
    ASSUME ledger \in Seq(Events), NEW r \in Requests, NEW e \in Events, Record(r, e)
    PROVE  /\ \A n \in DOMAIN ledger : n \in DOMAIN ledger' /\ ledger'[n] = ledger[n]
           /\ \A n \in DOMAIN ledger' :
                \/ n \in DOMAIN ledger
                \/ n = Len(ledger) + 1 /\ ledger'[n] = e
           /\ \/ logged' = logged \cup {r} /\ (cancelled[r] \/ r \in Unwritable)
              \/ /\ UNCHANGED logged
                 /\ \E n \in DOMAIN ledger' : ledger'[n] = e
<1>1. CASE UNCHANGED ledger
  <2>1. Append(ledger, e) # ledger
    <3>1. Len(Append(ledger, e)) = Len(ledger) + 1 /\ Len(ledger) \in Nat
      OBVIOUS
    <3>2. QED
      BY <3>1
  <2>2. logged' = logged \cup {r} /\ (cancelled[r] \/ r \in Unwritable)
    BY <1>1, <2>1 DEF Record
  <2>3. QED
    BY <1>1, <2>2
<1>2. CASE ledger' # ledger
  <2>1. ledger' = Append(ledger, e) /\ UNCHANGED logged
    BY <1>2 DEF Record
  <2>2. /\ DOMAIN ledger' = 1..(Len(ledger) + 1)
        /\ DOMAIN ledger = 1..Len(ledger)
        /\ ledger'[Len(ledger) + 1] = e
        /\ \A n \in 1..Len(ledger) : ledger'[n] = ledger[n]
        /\ Len(ledger) \in Nat
    BY <2>1
  <2>3. Len(ledger) + 1 \in DOMAIN ledger'
    BY <2>2
  <2>4. QED
    BY <2>1, <2>2, <2>3
<1>3. QED
  BY <1>1, <1>2

(* Every step keeps the ledger truthful.                                   *)
LEMMA NextLInv == IInv /\ LInv /\ [Next]_vars => LInv'
<1> SUFFICES ASSUME IInv, LInv, [Next]_vars PROVE LInv'
  OBVIOUS
<1>1. \A m \in sent' : Held(m)'
  <2> SUFFICES ASSUME NEW m \in sent' PROVE Held(m)'
    OBVIOUS
  <2>1. CASE m \in sent
    <3>1. m.req \in Requests /\ pc[m.req] \in Past /\ Held(m)
      BY <2>1 DEF IInv, TypeOK, Messages, SentIsPast, LInv
    <3>2. /\ route'[m.req] = route[m.req] /\ verdict'[m.req] = verdict[m.req]
          /\ body'[m.req] = body[m.req] /\ refs'[m.req] = refs[m.req]
      BY <3>1, PastIsSettled
    <3>3. Message(m.req)' = Message(m.req)
      BY <3>2 DEF Message
    <3>4. QED
      BY <3>1, <3>3 DEF Held
  <2>2. CASE m \notin sent
    <3>1. PICK r \in Requests : Transmit(r)
      BY <2>2, OnlyTransmitSends
    <3>2. m = Message(r) /\ UNCHANGED <<route, verdict, body, refs>>
      BY <2>2, <3>1, TransmitSends
    <3>3. m.req = r /\ Message(r)' = Message(r)
      BY <3>2 DEF Message
    <3>4. QED
      BY <3>2, <3>3 DEF Held
  <2>3. QED
    BY <2>1, <2>2
<1>2. \A r \in Requests : pc'[r] \in {"waiting", "copying"} => Message(r)' \in sent'
  <2> SUFFICES ASSUME NEW r \in Requests, pc'[r] \in {"waiting", "copying"}
               PROVE  Message(r)' \in sent'
    OBVIOUS
  <2>1. CASE pc[r] \in {"waiting", "copying"}
    <3>1. /\ route'[r] = route[r] /\ verdict'[r] = verdict[r]
          /\ body'[r] = body[r] /\ refs'[r] = refs[r]
      BY <2>1, PastIsSettled DEF Past
    <3>2. Message(r)' = Message(r)
      BY <3>1 DEF Message
    <3>3. \A m \in sent : m \in sent'
      BY OnlyTransmitSends DEF Transmit
    <3>4. QED
      BY <2>1, <3>2, <3>3 DEF LInv
  <2>2. CASE pc[r] \notin {"waiting", "copying"}
    <3>1. Transmit(r)
      <4>1. CASE Next
        <5>1. ASSUME NEW q \in Requests, Begin(q) \/ Handler(q) \/ Cancel(q)
              PROVE  Transmit(r)
          <6>1. CASE Begin(q) \/ Cancel(q) \/ AcceptBody(q) \/ RejectBody(q)
            BY <2>2, <6>1, ZenonT(60) DEF Begin, AcceptBody, RejectBody, Cancel,
               Goto, IInv, TypeOK
          <6>2. CASE Classify(q) \/ PreflightBlock(q) \/ NoEligibleRoute(q) \/ Routed(q)
            BY <2>2, <6>2, ZenonT(60) DEF Classify, PreflightBlock, NoEligibleRoute,
               Routed, Goto, IInv, TypeOK
          <6>3. CASE Prepare(q) \/ PrepareFails(q) \/ EgressDeny(q) \/ Dispatch(q)
            BY <2>2, <6>3, ZenonT(60) DEF Prepare, PrepareFails, EgressDeny, Dispatch,
               Goto, IInv, TypeOK
          <6>4. CASE \/ Transmit(q) \/ ProviderFails(q) \/ ProviderAnswers(q)
                     \/ CopyEnds(q)
            BY <2>2, <6>4, ZenonT(60) DEF Transmit, ProviderFails, ProviderAnswers,
               CopyEnds, Goto, IInv, TypeOK
          <6>5. QED
            BY <5>1, <6>1, <6>2, <6>3, <6>4 DEF Handler
        <5>2. CASE Refresh \/ Restart
          BY <2>2, <5>2, ZenonT(60) DEF Refresh, Restart, Ended, IInv, TypeOK
        <5>3. QED
          BY <4>1, <5>1, <5>2 DEF Next
      <4>2. CASE UNCHANGED vars
        BY <2>2, <4>2 DEF vars
      <4>3. QED
        BY <4>1, <4>2
    <3>2. Message(r)' = Message(r) /\ Message(r) \in sent'
      BY <3>1, TransmitSends DEF Message
    <3>3. QED
      BY <3>2
  <2>3. QED
    BY <2>1, <2>2
<1>3. ASSUME UNCHANGED ledger
      PROVE  (\A e \in Events : Recorded(e) => Told(e)') /\ Unique'
  BY <1>3, ToldStays DEF LInv, Unique
<1>4. ASSUME NEW r \in Requests, NEW e \in Events, e.req = r, Record(r, e),
             pc[r] \notin {"served", "refused"}, Told(e)'
      PROVE  (\A x \in Events : Recorded(x)' => Told(x)') /\ Unique'
  <2>1. /\ \A n \in DOMAIN ledger : n \in DOMAIN ledger' /\ ledger'[n] = ledger[n]
        /\ \A n \in DOMAIN ledger' :
              \/ n \in DOMAIN ledger
              \/ n = Len(ledger) + 1 /\ ledger'[n] = e
    BY <1>4, RecordCases DEF IInv, TypeOK
  <2>2. \A n \in DOMAIN ledger : ledger[n].req # r
    <3> SUFFICES ASSUME NEW n \in DOMAIN ledger PROVE ledger[n].req # r
      OBVIOUS
    <3>1. Told(ledger[n])
      BY EventRequest DEF LInv, Recorded
    <3>2. pc[ledger[n].req] \in {"served", "refused"}
      BY <3>1 DEF Told
    <3>3. QED
      BY <1>4, <3>2
  <2>3. ASSUME NEW x \in Events, Recorded(x)' PROVE Told(x)'
    <3>1. Recorded(x) \/ x = e
      BY <2>1, <2>3 DEF Recorded
    <3>2. QED
      BY <1>4, <3>1, ToldStays DEF LInv
  <2>4. Unique'
    BY <1>4, <2>1, <2>2 DEF LInv, Unique
  <2>5. QED
    BY <2>3, <2>4
<1>5. (\A x \in Events : Recorded(x)' => Told(x)') /\ Unique'
  <2>1. CASE UNCHANGED ledger
    <3>1. \A x \in Events : Recorded(x)' => Recorded(x)
      BY <2>1 DEF Recorded
    <3>2. QED
      BY <1>3, <2>1, <3>1
  <2>2. CASE ~UNCHANGED ledger
    <3>1. PICK r \in Requests, e \in Events :
            /\ e.req = r /\ Record(r, e)
            /\ pc[r] \notin {"served", "refused"}
            /\ Told(e)'
      BY <2>2, RecordSteps
    <3>2. QED
      BY <1>4, <3>1
  <2>3. QED
    BY <2>1, <2>2
<1>6. QED
  BY <1>1, <1>2, <1>5 DEF LInv, Held

(* LInv holds in every reachable state.                                    *)
THEOREM LedgerInvariance == Spec => []LInv
<1>1. Init => LInv
  BY DEF Init, LInv, Unique, Recorded
<1>2. QED
  BY <1>1, NextLInv, Invariance, PTL DEF Spec

(* The ledger tells the truth, for every value of the constants, wherever  *)
(* a call fails and whichever writes of the ledger fail.                   *)
THEOREM LedgerTheorem == Spec => []LedgerIsTruthful
BY LedgerInvariance, LedgerIsTruthfulFromInv, Invariance, PTL

-----------------------------------------------------------------------------
(* Nothing goes unnoticed.                                                 *)

Noticed(r) ==
    /\ pc[r] = "served" /\ r \notin logged => RecordedAs(r, "remote_egress")
    /\ pc[r] = "refused" /\ r \notin logged => RecordedAs(r, "remote_deny")
    /\ r \in logged => cancelled[r] \/ r \in Unwritable

(* Every step keeps what was noticed.                                      *)
LEMMA NextNoticed ==
    ASSUME IInv, LInv, \A q \in Requests : Noticed(q), [Next]_vars
    PROVE  \A q \in Requests : Noticed(q)'
<1>1. \A q \in Requests : cancelled[q] => cancelled'[q]
  <2>1. CASE Next
    BY <2>1, ZenonT(60) DEF Next, Handler, Begin, AcceptBody, RejectBody, Classify,
       PreflightBlock, NoEligibleRoute, Routed, Prepare, PrepareFails,
       EgressDeny, Dispatch, Transmit, ProviderFails, ProviderAnswers,
       CopyEnds, Cancel, Refresh, Restart, IInv, TypeOK
  <2>2. CASE UNCHANGED vars
    BY <2>2 DEF vars
  <2>3. QED
    BY <2>1, <2>2
<1>2. CASE /\ UNCHANGED <<ledger, logged>>
           /\ \A q \in Requests : pc'[q] \in {"served", "refused"} => pc'[q] = pc[q]
  BY <1>1, <1>2 DEF Noticed, RecordedAs
<1>3. ASSUME NEW r \in Requests, NEW e \in Events, e.req = r, Record(r, e),
             \/ e.type = "remote_egress" /\ Goto(r, "served")
             \/ e.type = "remote_deny" /\ Goto(r, "refused")
      PROVE  \A q \in Requests : Noticed(q)'
  <2>1. /\ \A n \in DOMAIN ledger : n \in DOMAIN ledger' /\ ledger'[n] = ledger[n]
        /\ \/ logged' = logged \cup {r} /\ (cancelled[r] \/ r \in Unwritable)
           \/ /\ UNCHANGED logged
              /\ \E n \in DOMAIN ledger' : ledger'[n] = e
    BY <1>3, RecordCases DEF IInv, TypeOK
  <2>2. \A q \in Requests : \A t : RecordedAs(q, t) => RecordedAs(q, t)'
    BY <2>1 DEF RecordedAs
  <2>3. Noticed(r)'
    <3>1. CASE logged' = logged \cup {r} /\ (cancelled[r] \/ r \in Unwritable)
      BY <1>1, <3>1 DEF Noticed
    <3>2. CASE UNCHANGED logged /\ \E n \in DOMAIN ledger' : ledger'[n] = e
      <4>1. RecordedAs(r, e.type)'
        BY <1>3, <3>2 DEF RecordedAs
      <4>2. \/ e.type = "remote_egress" /\ pc'[r] = "served"
            \/ e.type = "remote_deny" /\ pc'[r] = "refused"
        BY <1>3 DEF Goto, IInv, TypeOK
      <4>3. r \in logged' => cancelled'[r] \/ r \in Unwritable
        BY <1>1, <3>2 DEF Noticed
      <4>4. QED
        BY <4>1, <4>2, <4>3 DEF Noticed
    <3>3. QED
      BY <2>1, <3>1, <3>2
  <2>4. ASSUME NEW q \in Requests, q # r PROVE Noticed(q)'
    <3>1. pc'[q] = pc[q] /\ (q \in logged' <=> q \in logged)
      BY <1>3, <2>1, <2>4 DEF Goto, IInv, TypeOK
    <3>2. QED
      BY <1>1, <2>2, <3>1 DEF Noticed
  <2>5. QED
    BY <2>3, <2>4
<1>4. QED
  BY <1>2, <1>3, RecordSteps

(* Whatever was dispatched or refused is on record, or the log says why    *)
(* not: the client left, or the disk refused the event.                    *)
THEOREM StayedTheorem == Spec => []StayedIsRecorded
<1> DEFINE S == \A r \in Requests : Noticed(r)
<1>1. Init => S
  BY DEF Init, Noticed
<1>2. IInv /\ LInv /\ S /\ [Next]_vars => S'
  BY NextNoticed
<1> HIDE DEF S
<1>3. Spec => []S
  BY <1>1, <1>2, Invariance, LedgerInvariance, PTL DEF Spec
<1>4. S => StayedIsRecorded
  BY DEF S, Noticed, StayedIsRecorded
<1>5. QED
  BY <1>3, <1>4, PTL

=============================================================================
