-------------------------- MODULE ChatCompletions ---------------------------
(***************************************************************************)
(* The request path of the daemon: ChatCompletionsHandler.ServeHTTP        *)
(* (internal/httpapi), run by one goroutine per request, with the policy,  *)
(* routing and retrieval code it calls, the audit ledger it writes, the    *)
(* clients that may disconnect, the refreshes that replace the runtime     *)
(* snapshot under it, and the death and restart of the daemon.             *)
(*                                                                         *)
(* One action is the code between two points where another actor can be    *)
(* seen: a read from the client, a call over the network or to the index,  *)
(* the write of an audit event.                                            *)
(*                                                                         *)
(* Abstracted: streaming, headers, metrics and all logging but that of an  *)
(* event that could not be recorded; the number of context characters      *)
(* (max_context_chars), which is capped as top_k is; the text of errors.   *)
(* A write of the ledger that fails leaves no event; the part of a line a  *)
(* full disk may leave behind is not modelled.  Request IDs are unique.    *)
(***************************************************************************)
EXTENDS Policy, Routing, Sequences, FiniteSets

CONSTANTS
    Requests,       \* the requests the daemon receives (each one once)
    Snapshots,      \* the runtime snapshots a refresh may install
    ChatInputs,     \* the valid request bodies clients send
    Labels,         \* the answers of the intent classifier
    NoLabel,        \* no classifier, or a classification that failed
    Unclassified,   \* the label of a request that was not classified yet
    NoSnapshot,     \* the snapshot of a request that did not start yet
    NoInput,        \* the body of a request that was not read yet
    NoRoute,        \* the route of a request that was not routed yet
    Chunks,         \* the indexed chunks retrieval may inject
    Unwritable,     \* the requests whose event the disk may refuse
    StartupProvider \* id of the provider the daemon started with

(* A snapshot: tradeSecret (the project's classification), routing (its    *)
(* preferences), catalog (BuildCatalog), ready (ids Available in the       *)
(* status table), host (ids the provider host holds), classifier (whether  *)
(* there is one), retrieval (defaults), prompts (what the project's prompts*)
(* may hold: the system prompt and the instructions are the snapshot's,    *)
(* the enabled skills are read from their files when a request arrives).   *)
(* An input: text, model, required (capabilities), enabled ("unset", "on"  *)
(* or "off") and topK (0 when unset, negative when out of range).          *)
ASSUME ChatAssumption ==
    /\ \A s \in Snapshots :
        /\ s.tradeSecret \in BOOLEAN /\ s.classifier \in BOOLEAN
        /\ s.retrieval.enabled \in BOOLEAN /\ s.retrieval.topK \in Nat
        /\ \A c, d \in s.catalog : c.id = d.id => c = d
        /\ \A c \in s.catalog : c.id \in Int /\ c.location \in Locations
    /\ \A i \in ChatInputs : i.topK \in Int
    /\ \A l \in Labels : l.tradeSecret \in BOOLEAN
    /\ NoLabel \notin Labels /\ Unclassified \notin Labels \cup {NoLabel}
    /\ NoSnapshot \notin Snapshots /\ NoInput \notin ChatInputs
    /\ \A s \in Snapshots : NoRoute \notin s.catalog
    /\ StartupProvider \in Int /\ IsFiniteSet(Chunks)
    /\ Unwritable \subseteq Requests

VARIABLES
    current,    \* the snapshot the RuntimeManager holds
    pc,         \* where the handler of each request is
    snap,       \* the snapshot the handler took when it started
    input,      \* the request it read
    label,      \* the classification of the request
    verdict,    \* the verdict of the last evaluation, "none" before
    minimize,   \* the retrieval plan of the preflight evaluation
    route,      \* the candidate the request is routed to
    body,       \* the outbound body, a set of fragments
    refs,       \* the chunks the outbound request's metadata names
    cancelled,  \* the client went away: the request context is cancelled
    sent,       \* what left for the providers
    ledger,     \* the audit ledger, a sequence of events
    logged      \* the requests whose event could not be recorded, as logged

(* Everything a body can hold, and every candidate of a snapshot.          *)
Fragments ==
    Chunks \cup (UNION {i.text : i \in ChatInputs})
           \cup (UNION (UNION {s.prompts : s \in Snapshots}))
Candidates == UNION {s.catalog : s \in Snapshots}

request == <<snap, input, label, verdict, minimize, route, body, refs>>
vars == <<current, pc, request, cancelled, sent, ledger, logged>>

Ended == {"rejected", "refused", "served", "lost"}
PCs == {"idle", "reading", "classify", "preflight", "prepare", "egress",
        "calling", "waiting", "copying"} \cup Ended

(* Whether the classifier called the request a trade secret.               *)
LabelTradeSecret(l) == l \in Labels /\ l.tradeSecret

-----------------------------------------------------------------------------
(* The runtime the handler of r works with: the snapshot it took on entry. *)
RuntimeReread(r) == current
Runtime(r) == snap[r]

(* availableRouteCandidates: ready candidates the provider host can give.  *)
Available(s) == {c \in s.catalog : c.id \in s.ready \cap s.host}

Action(l) == IF l \in Labels THEN l.action ELSE "general_qa"

(* resolveRoute: the decision's selection, {} when it fails.               *)
ResolveRoute(r, v) ==
    Selections([candidates |-> Available(Runtime(r)),
                verdict |-> v,
                preference |-> ResolvePreference(Runtime(r).routing, Action(label[r])),
                action |-> Action(label[r]),
                model |-> input[r].model,
                required |-> input[r].required])

(* retrieval.ResolveSettings.                                              *)
Settings(r) ==
    [enabled |-> IF input[r].enabled = "unset" THEN Runtime(r).retrieval.enabled
                 ELSE input[r].enabled = "on",
     topK |-> IF input[r].topK = 0 THEN Runtime(r).retrieval.topK
              ELSE input[r].topK]

(* The top_k Prepare works with: applyRetrievalPlan caps the resolved      *)
(* setting of a remote-bound request the preflight evaluation allowed.     *)
TopKUncapped(r) == Settings(r).topK
TopK(r) ==
    IF /\ route[r].location = "remote"
       /\ minimize[r]
       /\ Settings(r).topK > RemoteTopK
    THEN RemoteTopK
    ELSE Settings(r).topK

Preflight(r) ==
    Evaluate("preflight", body[r], {}, LabelTradeSecret(label[r]),
             Runtime(r).tradeSecret)

Egress(r) ==
    Evaluate("egress", body[r], refs[r], LabelTradeSecret(label[r]),
             Runtime(r).tradeSecret)

(* recordAudit: Store.Record appends the event, or fails (the request      *)
(* context is cancelled, the file cannot be opened or written), and the    *)
(* failure is logged and otherwise ignored.                                *)
Record(r, event) ==
    \/ /\ ~cancelled[r]
       /\ ledger' = Append(ledger, event)
       /\ UNCHANGED logged
    \/ /\ cancelled[r] \/ r \in Unwritable
       /\ logged' = logged \cup {r}
       /\ UNCHANGED ledger

DenyEvent(r, provider, evaluation, outbound) ==
    [type |-> "remote_deny", req |-> r, provider |-> provider,
     verdict |-> evaluation.verdict, body |-> outbound,
     refs |-> evaluation.refs, answered |-> FALSE, error |-> FALSE]

(* A handler that names the provider the daemon started with, as the       *)
(* denial in preflight does.                                               *)
EgressEventStartup(r, answered, failed) ==
    [type |-> "remote_egress", req |-> r, provider |-> StartupProvider,
     verdict |-> verdict[r], body |-> body[r], refs |-> refs[r],
     answered |-> answered, error |-> failed]

(* The event of a call: whether it has a response status, and whether it   *)
(* has an error.                                                           *)
EgressEvent(r, answered, failed) ==
    [type |-> "remote_egress", req |-> r, provider |-> route[r].id,
     verdict |-> verdict[r], body |-> body[r], refs |-> refs[r],
     answered |-> answered, error |-> failed]

Goto(r, label_) == pc' = [pc EXCEPT ![r] = label_]

-----------------------------------------------------------------------------
Init ==
    /\ current \in Snapshots
    /\ pc = [r \in Requests |-> "idle"]
    /\ snap = [r \in Requests |-> NoSnapshot]
    /\ input = [r \in Requests |-> NoInput]
    /\ label = [r \in Requests |-> Unclassified]
    /\ verdict = [r \in Requests |-> "none"]
    /\ minimize = [r \in Requests |-> FALSE]
    /\ route = [r \in Requests |-> NoRoute]
    /\ body = [r \in Requests |-> {}]
    /\ refs = [r \in Requests |-> {}]
    /\ cancelled = [r \in Requests |-> FALSE]
    /\ sent = {}
    /\ ledger = <<>>
    /\ logged = {}

(* A POST arrives; the handler takes the current snapshot.                 *)
Begin(r) ==
    /\ pc[r] = "idle"
    /\ snap' = [snap EXCEPT ![r] = current]
    /\ Goto(r, "reading")
    /\ UNCHANGED <<current, input, label, verdict, minimize, route, body,
                   refs, cancelled, sent, ledger, logged>>

(* The body is read, parsed and validated; the project's prompts are put   *)
(* in front of the messages.                                               *)
AcceptBody(r) ==
    /\ pc[r] = "reading"
    /\ \E i \in ChatInputs, p \in Runtime(r).prompts :
        /\ input' = [input EXCEPT ![r] = i]
        /\ body' = [body EXCEPT ![r] = i.text \cup p]
    /\ Goto(r, "classify")
    /\ UNCHANGED <<current, snap, label, verdict, minimize, route, refs,
                   cancelled, sent, ledger, logged>>

(* The body cannot be read or is not a valid request (400), or an enabled  *)
(* skill cannot be read from the catalog (500).                            *)
RejectBody(r) ==
    /\ pc[r] = "reading"
    /\ Goto(r, "rejected")
    /\ UNCHANGED <<current, request, cancelled, sent, ledger, logged>>

(* The classifier answers, or fails and the handler goes on without.       *)
Classify(r) ==
    /\ pc[r] = "classify"
    /\ \E l \in {NoLabel} \cup (IF Runtime(r).classifier THEN Labels ELSE {}) :
        label' = [label EXCEPT ![r] = l]
    /\ Goto(r, "preflight")
    /\ UNCHANGED <<current, snap, input, verdict, minimize, route, body, refs,
                   cancelled, sent, ledger, logged>>

(* Preflight, the verdict is block: the denial names the provider the      *)
(* daemon started with (h.provider).                                       *)
PreflightBlock(r) ==
    LET p == Preflight(r)
    IN  /\ pc[r] = "preflight"
        /\ p.verdict = "block"
        /\ verdict' = [verdict EXCEPT ![r] = p.verdict]
        /\ Record(r, DenyEvent(r, StartupProvider, p, body[r]))
        /\ Goto(r, "refused")
        /\ UNCHANGED <<current, snap, input, label, minimize, route, body,
                       refs, cancelled, sent>>

(* No candidate can serve the request: a policy denial when the verdict is *)
(* local_only (403, recorded), an unavailable upstream otherwise (503).    *)
NoEligibleRoute(r) ==
    LET p == Preflight(r)
    IN  /\ pc[r] = "preflight"
        /\ p.verdict # "block"
        /\ ResolveRoute(r, p.verdict) = {}
        /\ verdict' = [verdict EXCEPT ![r] = p.verdict]
        /\ IF p.verdict = "local_only"
           THEN /\ Record(r, DenyEvent(r, 0, p, body[r]))
                /\ Goto(r, "refused")
           ELSE /\ Goto(r, "rejected")
                /\ UNCHANGED <<ledger, logged>>
        /\ UNCHANGED <<current, snap, input, label, minimize, route, body,
                       refs, cancelled, sent>>

(* A route is chosen.  Out-of-range retrieval settings are found after it  *)
(* (400).  The preflight evaluation's redacted body is not kept.           *)
Routed(r) ==
    LET p == Preflight(r)
    IN  /\ pc[r] = "preflight"
        /\ p.verdict # "block"
        /\ \E c \in ResolveRoute(r, p.verdict) :
            route' = [route EXCEPT ![r] = c]
        /\ verdict' = [verdict EXCEPT ![r] = p.verdict]
        /\ minimize' = [minimize EXCEPT ![r] = p.minimize]
        /\ Goto(r, IF input[r].topK < 0 THEN "rejected" ELSE "prepare")
        /\ UNCHANGED <<current, snap, input, label, body, refs, cancelled,
                       sent, ledger, logged>>

(* Pipeline.Prepare injects the chunks it found, as many as top_k.         *)
Prepare(r) ==
    /\ pc[r] = "prepare"
    /\ \E found \in SUBSET Chunks :
        /\ Cardinality(found) <= (IF Settings(r).enabled THEN TopK(r) ELSE 0)
        /\ body' = [body EXCEPT ![r] = @ \cup found]
        /\ refs' = [refs EXCEPT ![r] = found]
    /\ Goto(r, "egress")
    /\ UNCHANGED <<current, snap, input, label, verdict, minimize, route,
                   cancelled, sent, ledger, logged>>

(* The index cannot be opened or searched (400).                           *)
PrepareFails(r) ==
    /\ pc[r] = "prepare"
    /\ Settings(r).enabled
    /\ Goto(r, "rejected")
    /\ UNCHANGED <<current, request, cancelled, sent, ledger, logged>>

EgressDenied(r) ==
    \/ Egress(r).verdict = "block"
    \/ Egress(r).verdict = "local_only" /\ route[r].location # "local"

(* The egress evaluation refuses the prepared body.                        *)
EgressDeny(r) ==
    /\ pc[r] = "egress"
    /\ EgressDenied(r)
    /\ verdict' = [verdict EXCEPT ![r] = Egress(r).verdict]
    /\ body' = [body EXCEPT ![r] = Egress(r).body]
    /\ refs' = [refs EXCEPT ![r] = Egress(r).refs]
    /\ Record(r, DenyEvent(r, route[r].id, Egress(r), Egress(r).body))
    /\ Goto(r, "refused")
    /\ UNCHANGED <<current, snap, input, label, minimize, route, cancelled,
                   sent>>

(* The egress evaluation lets the body pass: it is what the client of the  *)
(* route's provider is called with, and what the event of the call says,   *)
(* which waits for the outcome.                                            *)
Dispatch(r) ==
    /\ pc[r] = "egress"
    /\ ~EgressDenied(r)
    /\ verdict' = [verdict EXCEPT ![r] = Egress(r).verdict]
    /\ body' = [body EXCEPT ![r] = Egress(r).body]
    /\ refs' = [refs EXCEPT ![r] = Egress(r).refs]
    /\ Goto(r, "calling")
    /\ UNCHANGED <<current, snap, input, label, minimize, route, cancelled,
                   sent, ledger, logged>>

Message(r) ==
    [req |-> r, provider |-> route[r].id, location |-> route[r].location,
     verdict |-> verdict[r], body |-> body[r], refs |-> refs[r]]

(* The client sends the request, unless its context is cancelled already.  *)
Transmit(r) ==
    /\ pc[r] = "calling"
    /\ ~cancelled[r]
    /\ sent' = sent \cup {Message(r)}
    /\ Goto(r, "waiting")
    /\ UNCHANGED <<current, request, cancelled, ledger, logged>>

(* A handler that prepares the request again when the call is cancelled    *)
(* before anything is sent.                                                *)
ProviderFailsRetried(r) ==
    /\ pc[r] = "calling"
    /\ cancelled[r]
    /\ Goto(r, "prepare")
    /\ UNCHANGED <<current, request, cancelled, sent, ledger, logged>>

(* The call fails: before anything is sent (the request does not translate,*)
(* the command is not there, the connection is refused, the context is     *)
(* cancelled) or after it (an error, the client's timeout).                *)
ProviderFails(r) ==
    /\ pc[r] \in {"calling", "waiting"}
    /\ Record(r, EgressEvent(r, FALSE, TRUE))
    /\ Goto(r, "served")
    /\ UNCHANGED <<current, request, cancelled, sent>>

ProviderAnswers(r) ==
    /\ pc[r] = "waiting"
    /\ Goto(r, "copying")
    /\ UNCHANGED <<current, request, cancelled, sent, ledger, logged>>

(* A handler that returns from a failed copy before it records the event.  *)
CopyEndsUnrecorded(r) ==
    /\ pc[r] = "copying"
    /\ \/ Record(r, EgressEvent(r, TRUE, FALSE))
       \/ UNCHANGED <<ledger, logged>>
    /\ Goto(r, "served")
    /\ UNCHANGED <<current, request, cancelled, sent>>

(* The answer was copied to the client, or the copy broke off.             *)
CopyEnds(r) ==
    /\ pc[r] = "copying"
    /\ \E failed \in BOOLEAN : Record(r, EgressEvent(r, TRUE, failed))
    /\ Goto(r, "served")
    /\ UNCHANGED <<current, request, cancelled, sent>>

-----------------------------------------------------------------------------
(* The client disconnects while its request is being handled.              *)
Cancel(r) ==
    /\ pc[r] \notin Ended \cup {"idle"}
    /\ ~cancelled[r]
    /\ cancelled' = [cancelled EXCEPT ![r] = TRUE]
    /\ UNCHANGED <<current, pc, request, sent, ledger, logged>>

(* RuntimeManager.Refresh replaces the snapshot.                           *)
Refresh ==
    /\ \E s \in Snapshots \ {current} : current' = s
    /\ UNCHANGED <<pc, request, cancelled, sent, ledger, logged>>

(* The daemon dies, or is told to stop (Run returns without waiting for    *)
(* the handlers), and starts again from the configuration on disk.         *)
Restart ==
    /\ \E r \in Requests : pc[r] \notin Ended \cup {"idle"}
    /\ pc' = [r \in Requests |-> IF pc[r] \in Ended \cup {"idle"}
                                 THEN pc[r] ELSE "lost"]
    /\ current' \in Snapshots
    /\ UNCHANGED <<request, cancelled, sent, ledger, logged>>

Handler(r) ==
    \/ AcceptBody(r) \/ RejectBody(r) \/ Classify(r)
    \/ PreflightBlock(r) \/ NoEligibleRoute(r) \/ Routed(r)
    \/ Prepare(r) \/ PrepareFails(r)
    \/ EgressDeny(r) \/ Dispatch(r) \/ Transmit(r)
    \/ ProviderFails(r) \/ ProviderAnswers(r) \/ CopyEnds(r)

Next ==
    \/ \E r \in Requests : Begin(r) \/ Handler(r) \/ Cancel(r)
    \/ Refresh
    \/ Restart

Spec == Init /\ [][Next]_vars

(* Every step of a handler ends: reads and writes on the client by the     *)
(* server's timeouts, calls by the outbound client's (30 s).               *)
FairSpec == Spec /\ \A r \in Requests : WF_vars(Handler(r))

-----------------------------------------------------------------------------
(***************************************************************************)
(* Properties.                                                             *)
(***************************************************************************)

Events ==
    [type : {"remote_deny", "remote_egress"}, req : Requests, provider : Int,
     verdict : Verdicts, body : SUBSET Fragments, refs : SUBSET Chunks,
     answered : BOOLEAN, error : BOOLEAN]

Messages ==
    [req : Requests, provider : Int, location : Locations, verdict : Verdicts,
     body : SUBSET Fragments, refs : SUBSET Chunks]

(* Every variable has its type; what is sent and recorded has the shape of *)
(* an outbound message and of an audit event.                              *)
TypeOK ==
    /\ current \in Snapshots
    /\ pc \in [Requests -> PCs]
    /\ snap \in [Requests -> Snapshots \cup {NoSnapshot}]
    /\ input \in [Requests -> ChatInputs \cup {NoInput}]
    /\ label \in [Requests -> Labels \cup {NoLabel, Unclassified}]
    /\ verdict \in [Requests -> Verdicts \cup {"none"}]
    /\ minimize \in [Requests -> BOOLEAN]
    /\ route \in [Requests -> Candidates \cup {NoRoute}]
    /\ body \in [Requests -> SUBSET Fragments]
    /\ refs \in [Requests -> SUBSET Chunks]
    /\ cancelled \in [Requests -> BOOLEAN]
    /\ sent \subseteq Messages
    /\ ledger \in Seq(Events)
    /\ logged \subseteq Requests

(* What may not leave the machine, judged by the project's classification  *)
(* in the snapshot the request started with and the classifier's answer.   *)
TradeSecret(r) ==
    \/ snap[r] \in Snapshots /\ snap[r].tradeSecret
    \/ LabelTradeSecret(label[r])

(* README.md, "Trade-secret classified repos are automatically routed to   *)
(* local models only": no content of a trade-secret request reaches a      *)
(* remote provider, whatever the routing preference, the requested model,  *)
(* the refreshes and the restarts while it was handled.                    *)
TradeSecretStaysLocal ==
    \A m \in sent : TradeSecret(m.req) => m.location = "local"

(* No provider receives a fragment a scan rule matches, whether the        *)
(* client wrote it, a project prompt holds it or retrieval injected it.    *)
NoSecretSent == \A m \in sent : m.body \cap Secret = {}

(* The provider of a request is one that the snapshot the request started  *)
(* with knew as available, that has the capabilities the request needs,    *)
(* and that is local when the resolved preference is local_only: a refresh *)
(* never mixes two configurations in one request.                          *)
SentWithinOwnSnapshot ==
    \A m \in sent :
        LET s == snap[m.req] IN
        \E c \in s.catalog :
            /\ c.id = m.provider /\ c.location = m.location
            /\ c.id \in s.ready /\ c.id \in s.host
            /\ input[m.req].required \subseteq c.caps
            /\ ResolvePreference(s.routing, Action(label[m.req])) = "local_only"
                 => c.location = "local"

(* A remote provider whose request passes the egress evaluation unredacted *)
(* gets at most RemoteTopK chunks, whatever top_k the client or the daemon *)
(* configured: the egress verdict "allow" vouches for the preflight one.   *)
AllowedRemoteContextIsMinimal ==
    \A m \in sent :
        m.location = "remote" /\ m.verdict = "allow"
            => Cardinality(m.refs) <= RemoteTopK

(* The messages that left for r.                                           *)
SentFor(r) == {m \in sent : m.req = r}

(* The ledger tells the truth: whatever left for a request with an egress  *)
(* event went to the provider, with the body, the verdict and the sources  *)
(* the event names, and something did leave when the event has a response  *)
(* status; nothing left for a denied request; no request has two events.   *)
(* (An egress event without a status may be that of a call that failed     *)
(* before anything was sent.)                                              *)
LedgerIsTruthful ==
    \A n \in DOMAIN ledger :
        LET e == ledger[n] IN
        /\ IF e.type = "remote_egress"
           THEN /\ \A m \in SentFor(e.req) :
                     /\ m.provider = e.provider /\ m.verdict = e.verdict
                     /\ m.body = e.body /\ m.refs = e.refs
                /\ e.answered => SentFor(e.req) # {}
           ELSE SentFor(e.req) = {}
        /\ \A k \in DOMAIN ledger : ledger[k].req = e.req => k = n

RecordedAs(r, type) ==
    \E n \in DOMAIN ledger : ledger[n].req = r /\ ledger[n].type = type

(* No call and no refusal goes unnoticed: once its handler ended, a request*)
(* that was dispatched or refused by policy has its event in the ledger, or*)
(* the log says that it could not be recorded; and that only happens when  *)
(* the client left or the disk refused the event.                          *)
StayedIsRecorded ==
    \A r \in Requests :
        /\ pc[r] = "served" /\ r \notin logged => RecordedAs(r, "remote_egress")
        /\ pc[r] = "refused" /\ r \notin logged => RecordedAs(r, "remote_deny")
        /\ r \in logged => cancelled[r] \/ r \in Unwritable

(* ADR-010.md:19, "remote_egress - a request was sent to an upstream       *)
(* provider": every request whose handler ended after it was sent has its  *)
(* event.                                                                  *)
EgressIsRecorded ==
    \A m \in sent :
        pc[m.req] = "served"
            => \E n \in DOMAIN ledger :
                 ledger[n].type = "remote_egress" /\ ledger[n].req = m.req

(* What the abstract promise sees: the clearance is fixed when the request *)
(* is classified, and sent holds what was released.                        *)
Clearance ==
    [r \in Requests |-> IF label[r] = Unclassified THEN "unset"
                        ELSE IF TradeSecret(r) THEN "local" ELSE "any"]
Released == [r \in Requests |-> {m.location : m \in SentFor(r)}]

Control == INSTANCE EgressControl WITH clearance <- Clearance,
                                       released <- Released

(* The handler implements EgressControl: content leaves at most once per   *)
(* request, only after it was classified, only where that permits.         *)
ControlsEgress == Control!Spec

(* Every request a handler took up ends, with an answer or with the        *)
(* daemon, even when its client is gone and its route died.                *)
EveryRequestEnds ==
    \A r \in Requests : pc[r] # "idle" ~> pc[r] \in Ended

=============================================================================
