# Specifications of Rillan

Rillan is a local daemon that stands between an OpenAI-compatible client and
the language-model providers: it scans and classifies every request, chooses a
provider, adds context from an index of the workspace, and records what it did.
This directory holds TLA+ specifications of its core logic, the TLC
configurations that check them, and TLAPS proofs about them. Every definition
is translated from the Go source; `PROJECT.json` ("map") names the lines.

## 1. Inventory

### Components, their state and their operations

| Component | State | Operations | Modelled in |
|---|---|---|---|
| Chat completions handler (`internal/httpapi`) | per request: runtime snapshot, request, classification, verdict, route, outbound body, source refs | `ServeHTTP`: read, classify, preflight, route, prepare, egress, call, copy, record | `ChatCompletions` |
| Policy (`internal/policy`) | none | `Scan`, `Evaluate`, `MergeRuntimePolicy` | `Policy` (verdicts), `Scanner` (overlapping matches) |
| Routing (`internal/routing`) | none (pure) | `ResolvePreference`, `Decide` | `Routing` |
| Route status (`internal/routing/status.go`) | the status table of a snapshot | `BuildStatusCatalog` probes every provider | `RuntimeRefresh` |
| Runtime manager (`internal/app`) | current snapshot (atomic pointer), mutex | `Refresh`, `CurrentSnapshot`, build from disk | `RuntimeRefresh` |
| Configuration (`internal/config`) | `config.yaml`, project and system files | `LoadForEdit`, `Load`, `Write`, validation, resolution of providers and credentials | `RuntimeRefresh` (registry), `Credentials` (selection, secrets) |
| LLM registry commands (`cmd/rillan/llm.go`, `daemon_refresh.go`) | an edited copy of the configuration | `add`, `remove`, `use`, `login`, `logout`, refresh of the daemon | `RuntimeRefresh` (first three, refresh), `Credentials` (all five) |
| Audit ledger (`internal/audit`) | an append-only JSONL file, a mutex | `Record`, `ReadAll` | `ChatCompletions`, `ApprovalGate` |
| Providers (`internal/providers`) | none | `Ready`, `ChatCompletions` | `ChatCompletions`, `RuntimeRefresh` (outcomes) |
| Intent classifier (`internal/classify`) | none | `Classify`, fail-open | `ChatCompletions` (outcomes) |
| Retrieval (`internal/retrieval`) | none | `ResolveSettings`, `Prepare`: rewrite, embed, two searches, fuse, compile | `WorkspaceIndex` (searches), `Retrieval` (fusion, context), `ChatCompletions` (outcomes) |
| Index (`internal/index`) | SQLite tables: documents, chunks, vectors, FTS, runs | `Rebuild`, `ReplaceAll`, `SearchChunks`, `SearchChunksKeyword`, `ReadStatus` | `WorkspaceIndex` |
| Agent proposals (`internal/agent/gating.go`) | in-memory proposal store, ID counter | `Propose`, `Resolve` | `ApprovalGate` |
| Chunking (`internal/index/chunker.go`) | none (pure) | `ChunkFile` | `Chunking` |
| Skill catalog (`internal/agent/skill_catalog.go`) | `catalog.json`, one managed copy per skill | install, remove, list, show | `SkillCatalog` |
| Agent tasks (`internal/httpapi/agent_task_handler.go`, `internal/agent/runner.go`, `internal/agent/skills`) | per task: resolved roots, invocations; the runner's approved roots | check roots, run read-only tools, measure | `AgentTasks` |
| Skill metrics (`internal/agent/skill_metrics.go`) | `skill_metrics.json` | `RecordSkillLatency`: load, change, save | `AgentTasks` |
| Context package (`internal/agent/context_*.go`) | none (pure) | build, normalise, apply the budget, choose the role | `ContextPackage` |
| Modules and trust (`internal/modules`) | manifest files, a trust list | load, enable, trust, merge adapters | `Credentials` (one module) |
| Secret store (`internal/secretstore`) | the OS keyring | save, load, delete, validate a binding | `Credentials` |
| Server authentication (`internal/httpapi/auth_middleware.go`) | none | compare a request's bearer with the keyring's | `Credentials` |
| Ollama client, tokenizer, observability, other commands, packaging | – | pure I/O, logging, monitoring | not modelled |

### What makes each component correct

| Component | Correct when |
|---|---|
| Chat completions handler | trade secrets stay local; nothing a rule matches leaves; one request, one configuration; one release per request, cleared beforehand; every request ends |
| Policy | the verdict is the strictest that applies to the body it is given, and the body it returns has no redactable text; of overlapping matches none is handed on whole, and what is reported is what was replaced |
| Routing | the choice is the first of the documented pipeline, a servable request is served, and a choice does not move for reasons that do not concern it |
| Runtime manager, configuration, registry commands | what is served can always serve, whatever the file held when it was read; once every command that ran is acknowledged, what is on disk is served; snapshots never go back; a refresh never blocks the next |
| Audit ledger | what it tells is true and told once; what is missing is missing because the client left or the write failed |
| Agent proposals | a pending proposal is undecided; a decision meets the proposal its client saw; proposals are recorded before decisions, unless a write failed |
| Retrieval | one search is enough; the fusion respects both rankings; the context fits its budget and leaves no better source out |
| Index | readers see a whole index; run rows agree with it; a rebuild gives the lock back |
| Skill catalog | while commands run one after another, an entry has its managed copy with the content it was installed with, and nothing installed is replaced or forgotten by another installation, whatever is killed; where they overlap, each save is still one edit of a catalog there was |
| Agent tasks, skill metrics | a repository tool opens only what was approved for its task; metrics may miss calls but count none that did not happen, and an average lies within what was observed |
| Context package | what is kept is the first of all there is, a second application of the budget changes nothing, and the budget does not change the role |
| Chunking | every line that is not empty is in one chunk, and chunks are numbered without a gap |
| Modules, secrets | a manifest that was not trusted contributes no provider; a secret is used only for what it was stored for, and not by a snapshot built after it was withdrawn |
| Server authentication | only the bearer that is at the daemon's own keyring reference when a request arrives admits it |

### Interactions

* The HTTP server runs one goroutine per request. A handler takes the runtime
  snapshot once, on entry, and the runtime manager may replace it at any time.
* CLI commands are other processes. They share `config.yaml`, the skill catalog
  and the index with the daemon, without locks, and call
  `/admin/runtime/refresh` after an edit.
* A build of a snapshot reads `config.yaml`, the project file, the system policy,
  the manifests of the repository's modules and one secret per provider, each at
  its own time; commands, editors and checkouts change any of them in between.
* The task handlers share the metrics file and one runner; the runner was given
  its approved roots when the daemon started, the handler reads the snapshot's.
* The audit ledger is shared by all handlers, behind a mutex. `Record` takes
  the request's context and does nothing once that is cancelled; a write may
  fail. The request path logs the error and goes on, the approval gate ignores it.
* `rillan auth` keeps the session of the control plane in the keyring, at a
  reference of its own (`auth.rillan.session_ref`). The bearer inbound requests
  must show is at another one (`server.auth.session_ref`), and nothing in `src/`
  stores it.
* The retrieval pipeline opens the index database per request; `rillan index`
  rebuilds it from another process.

### What is hard

Policy is decided twice on bodies that differ (before and after retrieval);
the runtime changes under a running request; what is sent and what is recorded
are two steps with a client that may leave in between, a call that may fail
before anything is sent and a write that may fail; a file is truncated
before it is written; a refresh outlives the request that asked for it; fields
left empty are omitted from the file and come back as defaults; a proposal is read
and updated under two locks, and its numbers start again with the daemon; index
runs are numbered when they start and take effect when they commit; a skill is two
files that are changed one after the other; a root is checked in one place and
opened in another; the secret of a provider is looked up long after its entry was
read; matches of several scanner rules overlap. `PROJECT.json`
("hazards") lists each at its line with the properties that cover it.

## 2. Modules

| Module | Models | Correspondence |
|---|---|---|
| `Policy` | `internal/policy` | a body is a set of fragments; a fragment is redactable, blocking or harmless |
| `Routing` | `internal/routing/decision.go` | `Selections(in)` is `Decide`; ids are integers in the order of the id strings |
| `EgressControl` | – | the abstract promise: one clearance per request, content released at most once, where the clearance permits |
| `ChatCompletions` | the request path | `pc` is the point `ServeHTTP` has reached; one action per stretch of code between two points another actor can observe; the call of a provider (`Dispatch`), the send (`Transmit`) and the event are three steps; `logged` holds the requests whose event could not be recorded |
| `ChatCompletionsProofs` | – | theorems about `ChatCompletions` |
| `RuntimeRefresh` | registry edits and refreshes | `cli` is the point a command has reached, `handler` that of the refresh it asked for; `mutex` is `runtimeManager.mu` |
| `RuntimeRefreshProofs` | – | theorems about `RuntimeRefresh` |
| `ApprovalGate` | agent proposals | `task` and `decision` are the points the two handlers have reached, one action per critical section; `store` is `ProposalStore.items`, `run` counts restarts, `unwritten` holds the requests whose own event could not be written |
| `ApprovalGateProofs` | – | theorems about `ApprovalGate` |
| `SkillRegistry` | – | the abstract promise of the catalog: a map that changes by one entry at a time and may become unreadable; once commands have overlapped, an edit may be one of an earlier version |
| `SkillCatalog` | `internal/agent/skill_catalog.go` | `catalog` and `copy` are the files, `Cut` one that is truncated and not yet written; `command` is the point a command has reached, with the catalog it will write (`next`) |
| `SkillCatalogProofs` | – | theorems about `SkillCatalog`, and that it implements `SkillRegistry` |
| `AgentTasks` | agent tasks, their tools, the metrics | `task` is the point a handler has reached, `current` the roots of the snapshot, `runner` those of the start, `link` where an alias leads; `metrics` is the file, loaded, truncated and written in three actions, each of which may fail; `index_lookup` opens the database it is given |
| `AgentTasksProofs` | – | theorems about `AgentTasks` |
| `Credentials` | keyring, logins, modules and trust, the build of a snapshot, server authentication | `build` is the point `buildFromDisk` has reached, one action per file and per secret it reads; `minted` numbers the credentials ever stored, so that a token tells which it is. `SignIn` and `SignOut` are `auth login` and `logout`, `Provision` is whoever puts the daemon's own bearer into the keyring |
| `CredentialsProofs` | – | theorems about `Credentials` |
| `FunctionProofs` | – | theorems about the pure functions of `Routing`, `Scanner`, `Chunking`, `ContextPackage` and `Retrieval` as `MCRouting` and `MCTextFunctions` call them |
| `Scanner` | the intervals of `Scanner.Scan` | a match is an interval and a rule, a text a sequence of positions |
| `Chunking` | `internal/index/chunker.go` | of a line matters whether it is empty |
| `ContextPackage` | `internal/agent/context_*.go`, `orchestrator.go`, the snippets of `skills/read_only.go` | a text is a sequence of blanks, letters and, in a composed summary, brackets; a diagnostic has a severity and a message, which are trimmed apart and composed |
| `Retrieval` | the pure part of `internal/retrieval` | a search result is a chunk, of which only lengths and ranks count; scores are exact: whole multiples of 1/(5 `Unit`), where `Unit` is any number that every rank divides |
| `WorkspaceIndex` | `internal/index` and the two searches of `Pipeline.Prepare` | `tables` is the committed state, `draft` the open transaction, `writer` SQLite's write lock; `rebuild` and `query` are the points the processes have reached |
| `WorkspaceIndexProofs` | – | theorems about `WorkspaceIndex`, and that it implements `IndexPublication` |
| `IndexPublication` | – | the abstract promise of the index: the work of one run replaces all there was at once, and what is recorded of a run is true |
| `MCRouting`, `MCChatCompletions`, `MCRuntimeRefresh`, `MCApprovalGate`, `MCWorkspaceIndex`, `MCSkillCatalog`, `MCAgentTasks`, `MCCredentials`, `MCTextFunctions` | – | instances for TLC; `MCRouting` and `MCTextFunctions` also hold the reference definitions their pure operators are compared with |

`ChatCompletions` EXTENDS `Policy` and `Routing` (it calls them) and INSTANCEs
`EgressControl` under a refinement mapping; so do `SkillCatalog` with
`SkillRegistry` and `WorkspaceIndex` with `IndexPublication`. `MCTextFunctions` composes the four pure modules over texts and lists.
Their loops are recursive functions over the rounds, which theorems can speak of. In each module the operators whose
comment begins with "A ... that" (for example `EgressEventStartup`) are not part
of the specification: they are the plausible slips the properties are tested
against ("mutants" in `PROJECT.json`).

Modules meet at their interfaces. What `WorkspaceIndex` calls a set of results
is, in `Retrieval`, a ranking to be fused and packed; its chunks are what
`Chunking` cuts. `RuntimeRefresh` and `Credentials` model the same refresh: the
first with half-written files, the mutex and overlapping refreshes and a
catalog of ids, the second with whole files, one build at a time and everything
a build reads. A fragment of `Policy` is a text whose matches `Scanner` resolves.

## 3. Runs

| Run | Checks | Shows |
|---|---|---|
| `routing` | `ChoiceFollowsPipeline`, `ChoiceIsStable` | `Decide` sorts once with a compound comparison; it chooses what the pipeline of ADR-005 chooses, and a choice does not move when an unchosen candidate drops out or the verdict tightens |
| `chat_policy` | `TradeSecretStaysLocal`, `NoSecretSent`, `AllowedRemoteContextIsMinimal`, `ControlsEgress`, `EveryRequestEnds` | one request, every combination of body, project, classifier answer and retrieved chunks: nothing confidential leaves, the handler implements the abstract promise, and it ends |
| `chat_concurrent` | `SentWithinOwnSnapshot`, `LedgerIsTruthful`, `StayedIsRecorded` | two requests share runtime and ledger: no request mixes two configurations, no event lies, and none is missing unless its client left or the disk refused it |
| `refresh` | `AckedIsServed`, `AlwaysServable`, `VersionNeverGoesBack`, `EveryRefreshEnds` | two unlocked read-modify-write commands against a daemon that reads the same file, is restarted and loses refresh clients |
| `gate` | `PendingIsUndecided`, `ResolvesWhatWasShown`, `AnsweredIsRecorded`, `LedgerInOrder` | proposals, decisions, disconnects, writes of the ledger that fail and a restart in every order |
| `index` | `IndexIsWhole`, `RunsAreTruthful`, `OneSearchIsEnough`, `KeepsPublication`, `BuiltEnds` | overlapping rebuilds that fail, time out, are interrupted or killed, and a request between them: searches see a whole index, rebuilds implement `IndexPublication`; each that has its records ends without the lock |
| `texts` | `RedactionIsSound`, `ChunksHoldTheFile`, `SnippetShowsMatch`, `PackageKeepsBudget`, `FusionIsFaithful`, `ContextIsTheBest` | the pure functions over texts and lists, each over every input of a size, against definitions by positions |
| `skills` | `CopiesFollowEntries`, `KeepsRegistry` | installs and removals, one after the other or two at a time, killed at any step: entries have their copies as long as none overlapped, and the catalog implements `SkillRegistry` |
| `agent_tasks` | `TypeOK`, `ReadsStayApproved`, `MetricsAreObserved`, `UndisturbedIsExact` | two tasks, changing approvals, an alias that is turned, a restart, and updates of one file without a lock whose reads and writes may fail |
| `credentials` | `TypeOK`, `CredentialsStayBound`, `WithdrawnCredentialsLeave`, `ModulesWereVetted`, `AdmittedBearersAreCurrent` | every order of registry edits, logins and logouts of providers and of the control plane, changes of the daemon's own bearer, checkouts, trust and the steps of a build or of an inbound request |

Two further runs (`chat_egress_recorded`, `gate_decided_once`) check a sentence
of the documentation and of an error message and find it violated: section 6.

Where a property is a conjunction, its parts are definitions of their own with
a comment each. The type invariants of the modules about which something is
proved are proved too (section 4); of these, `agent_tasks` and `credentials`
check theirs in a run as well.

### Bounds, and why they are enough

* `routing`: catalogs of up to `MaxCandidates` = 4 of a pool (`MCPool`) that
  differs in location, models and capabilities. A comparison goes wrong between
  two candidates and a cyclic one among three; the fourth leaves one to remove.
* `chat_policy`: one request; three projects (open source on two clouds and a
  local model, trade secret, clouds only), six inputs, three labels, five
  chunks, two of which match a rule; `RemoteTopK` is 2 as in the code, below the `top_k` of 3
  asked for and configured, so that the cap binds. Policy, routing and egress of different
  requests do not interact except through the runtime and the ledger.
* `chat_concurrent`: two requests and two snapshots that disagree on
  everything; more requests repeat a pair. The disk may refuse the event of one
  of them (`Unwritable` = {r2}), so that a request that must be recorded is next
  to one that need not; in the other runs of the request path no write fails.
* `refresh`: two commands out of three workloads, chosen so that they conflict
  (remove against add, remove the default against add, use against add), three
  providers of which one is the bundled default and one has no credential.
* `gate`: two tasks, three decisions (two that race and a late one), one
  restart (`MaxRestarts`), which is enough for a number to be given twice. Any
  write of the ledger may fail.
* `texts`: texts of up to `MaxText` = 4 characters under three rules, of which
  one blocks, with every set of matches each rule may have: two matches overlap in every way and a third
  sees the outcome. Files of up to `MaxLines` = 6 lines cut into windows of 0 to 7.
  Texts of up to `MaxChars` + 2 = 7 characters with a mark of `MarkLength` = 2
  (14 in the code): limits below, at and above the mark. Lists of up to `MaxItems` = 2 items under limits of 0
  to 3, with defaults of `DefaultFiles` = 1, `DefaultDiagnostics` = 2 and
  `DefaultChars` = 4 (8, 20 and 240 in the code), and `DefaultLines` = 2 (120), so
  that each default binds. The parts of a diagnostic are short, blank, over the
  limit, or as long as the limit with a blank in front, so that the summary
  composed of them is cut where neither part was.
  Fusion and compilation: three chunks (`Results`) of lengths 22, 40 and 58 with the reference line, so that budgets up to
  `MaxBudget` = 90 include every way to fit, cut and drop; ranks up to
  `MaxRank` = 3, all of which divide `Unit` = 60. Results of a search differ from each other, as chunk ids are keys.
* `skills`: four commands over two ids and two contents, up to two at a time
  (`MaxRunning` = 2): enough to install, lose, install again and remove, and for
  a third command to meet what an overlap of two left.
* `agent_tasks`: two tasks of one or two invocations; a pair of updates is what
  loses one, a third repeats it. Two directories and an alias; latencies of two
  values. Two calls of one tool by one task let a lost update meet a counted one.
  One list approves a directory by name, the other by the alias; one workload
  gives `index_lookup` a path that is on neither.
* `credentials`: three references, of which a session of the control plane may
  share the daemon's own or a provider's; `MaxEdits` = 4 commands and edits; the longest story the
  properties need (add, log in, change the endpoint, log in again; or trust,
  check out, enable, log in) has four. Two ids, a bundled and an added
  or a module's, four entries that differ in endpoint, backend and reference,
  two manifests and a malformed one.
* `index`: two rebuilds, one request, two chunks, vectors of 8 (placeholder)
  and 768 dimensions, `TopK` = 1; one root. A third rebuild could only wait for the lock, like the second.

Deadlock is checked for the request path and the refreshes, whose environment
never ends, and for `agent_tasks` and `credentials`, whose refreshes and restarts never end.
`routing` and `texts` evaluate an operator once or twice; in `gate`, `skills`
and `index` the tasks, commands, decisions, rebuilds and requests are finite in number and
may all have ended: there it is off.

### Fairness

* Request path: weak fairness of each request's handler. A handler's goroutine
  runs; reading the request is bounded by the server's read timeout (30 s), the
  provider's answer by the client's timeout (30 s), copying by the write
  timeout (60 s). A `stdio` provider has no timeout of its own: that it answers
  or exits is assumed. Nothing is assumed of disconnects, refreshes and restarts.
* Refresh: weak fairness of each refresh handler. Reading a file ends, a probe
  is given 3 seconds, the mutex is released by `defer`. Weak fairness is enough
  because only as many handlers as commands ever wait. Commands, health changes
  and restarts are not assumed to happen.
* `agent_tasks`, `skills` and `credentials` state safety only: nothing is assumed.
* Index: weak fairness of each rebuild's statements (`FairSpec`): they work on
  a local file and wait at most `busy_timeout`. Nothing is assumed of the start
  of a rebuild or of discovery and embedding, which has no timeout.

## 4. Proofs

`PROJECT.json` ("theorems") lists the results. Each holds for every value of
the constants that satisfies the assumption of its module, which TLC evaluates
in the module's run:

| Assumption | Says |
|---|---|
| `ChatAssumption`, `PolicyAssumption` | settings have their types, ids are unique in a catalog, the cap for remote providers is positive; those whose event the disk may refuse are requests |
| `GateAssumption` | tasks and decisions are different things |
| `RefreshAssumption` | commands add, remove or use providers; no provider is called `NoProvider` |
| `IndexAssumption` | a rebuild finds finitely many chunks; `TopK` is positive |
| `SkillAssumption` | finitely many commands; there are ids and contents; what a cut file holds is neither a map nor a content |
| `AgentAssumption` | there are directories and lists of roots; aliases are not directories; workloads are lists of invocations, of which each may name a root and a database |
| `CredentialsAssumption` | what is added, bundled or contributed by a module is an entry; references are not `None`; a session of inbound authentication has a reference and a strategy |
| `PoolAssumption` | ids are numbers and unique; no candidate advertises the empty model |
| `ScannerAssumption` | every rule redacts or blocks |
| `ChunkingAssumption`, `PackageAssumption` | defaults and the length of the mark are positive |
| `TextAssumption` | lengths and bounds are numbers; ranks divide `Unit`; an item has room for more than the mark (240 characters against 14, `agent_task_handler.go:100`). `PackageSound` is about any limit that is 0 or above the mark |

`ExactTheorem` assumes in addition that the truncated file is no map of metrics.

**`ChatCompletionsProofs`.** The inductive invariant is

    IInv == TypeOK /\ Progress /\ SentIsPast

The safety properties speak of `sent`, whose messages are built by `Transmit`
from variables set many steps before. `Progress` carries the facts along: from
the point a request has passed on, its snapshot, input and label are set and
never change, and its route serves it within its own snapshot (`Serves`).
`SentIsPast` says that a message's request is past the send, so that nothing
its message depends on changes any more. `Vetted` says what the two evaluations
left for the call: from `Dispatch` on the body holds nothing a rule matches, the
route of a trade secret is local, and the chunks of an allowed remote request
are capped. From them follow

* `TypeCorrect`, `TradeSecretTheorem`, `NoSecretTheorem` and
  `OwnSnapshotTheorem`, each by what `Transmit` adds to `sent`: for trade secrets
  the egress evaluation of the very body and label that leave permits a local
  route only;
* `MinimalContextTheorem`: a body without findings at egress had none in
  preflight, when it held less, so the preflight verdict was `allow` and came
  with the plan that caps `top_k` (`Minimal`);
* `LedgerTheorem`, with `LInv`: whatever was sent is what the request still holds
  (`Held`); each event is that of a request that is over, is made of what it
  holds, and is backed by a message if it has a status (`Told`); no two events
  are of one request. A call that failed before it sent anything has an event
  and no message;
* `StayedTheorem`, with `Noticed` for each request: when its handler has ended,
  its event is in the ledger or it is in `logged`, and it came there only because
  the client had left or the disk refused the event;
* `Refinement`: initial states of `ChatCompletions` map to those of
  `EgressControl`, and under `IInv` every step maps to a step or a stutter:
  `Classify` fixes the clearance, `Transmit` releases, all others stutter.

**`FunctionProofs`, routing.** `Before`, the comparison of the sort, is asymmetric
(`Asymmetric`), and every set of candidates that is not empty has a first one
(`FirstExists`, from the least value of a number that folds the criteria before
the id). So one candidate is selected, and one exactly when one is admissible
(`OneSelection`). `ChoiceTheorem` compares with the pipeline of ADR-005: the filters leave
the same candidates (`FiltersAreEligible`), among which the model no longer
tells any two apart and the ranks order alike (`RanksAgree`). `StableTheorem` rests on
`Narrowing`: a selected candidate that stays admissible among fewer is selected again.

**`RuntimeRefreshProofs`.** The inductive invariant is

    IInv == TypeOK /\ Asked /\ Ordered /\ Sound /\ Same /\ Heard

What is served was built many steps ago from a file that has changed since.
`Ordered`: a snapshot that is being built is between the served one and the
file in age; `Sound`: it can serve; `Same`: where its version is that of the
file, so is its content. `Heard`: as long as the newest version is not served,
some command is not done. That gives `AckedTheorem`, which looks like liveness
and is safety: an acknowledgement is never early.

**`WorkspaceIndexProofs`.** The inductive invariant is

    IInv == TypeOK /\ Rows /\ Records /\ Owned /\ Published /\ Searched

A row of `index_runs` belongs to one rebuild and says `running` as long as it
works (`Rows`); its records do not change once they are built (`Records`); and
the rebuild whose records are committed is past its transaction for good
(`Owned`, `Published`). `Searched` bounds each of a request's two searches.
`PublicationTheorem`: the stage of a run is read off its rebuild while that
works and off its row afterwards (`Stage`), so that a step of a rebuild moves
the stage of its own row and no other (`Moved`). `RecordRunStart` starts a run,
`Commit` publishes, `RecordRunCompletion` and `Kill` succeed, fail or die, and
all other steps stutter; what is published has dimensions (`Dimensioned`).

**`ApprovalGateProofs`.** The inductive invariant is

    IInv == TypeOK /\ Numbers /\ Stored /\ Chosen

`Numbers`: the numbers given since the last restart are at most the counter and
differ. `Stored`: what is in the store was numbered by the running daemon, so
that a restart, which clears the store and the counter, keeps it. `Chosen`: a
decision has a target only once it changed one. `Carried` (decisions in the
ledger were carried out) and `Told` (an answered proposal is in the ledger or in
`unwritten`) strengthen it for the properties about the ledger. A write that
fails adds to `unwritten` and leaves the ledger alone (`RecordLedger`).

**`SkillCatalogProofs`.** The inductive invariant is

    IInv == TypeOK /\ Whole /\ Planned /\ (~overlapped => Orderly)

    Orderly == Alone /\ Unread /\ Copies /\ OrphansComeFromKills

`Whole` and `Planned` hold however commands overlap: a catalog that can be read
is the one last saved, and what a command will write is one edit of a catalog
there was, the last one as long as no commands overlapped (`Bases`). That is all
`RegistryTheorem` needs afterwards. Before, a command that runs is the only one
(`Alone`), what it has read is still there until it truncates the file
(`Unread`), and `Copies` holds with respect to the entries that were last whole,
also while the file is cut; `CopiesTheorem` follows. Under it every step maps to
a step of `SkillRegistry` or a stutter, any number of commands at a time.

**`AgentTasksProofs`.** The inductive invariant is

    IInv == Typed /\ Straight /\ Approving /\ Measuring /\ Observed /\ Counted

`Straight`: a directory leads to itself however aliases are turned, so that
what was approved (`Approving`) stays what is opened; the databases of
`index_lookup` are set aside (`Allowed`). `Observed` and `Counted`
speak of every map of metrics there is, the file and those that updates under way hold: averages
lie within the observed latencies, and counts with the calls that still wait to be
counted do not exceed the calls that were made. `Exact` is added for `ExactTheorem`:
while no two updates overlapped and none was killed or failed, the two are equal.

**`CredentialsProofs`.** The inductive invariant is

    IInv == Files /\ Keys /\ Builds /\ Serves /\ Requests

Everything a build or a request has read may change while it goes on. `Grows`
says what does not: a token keeps what it was stored for and, once withdrawn,
stays so, since each login mints a new one (`Keys`); what was once vetted stays
vetted. So what is known of a build when it reads a secret (`Builds`) still
holds when the snapshot is swapped in (`Serves`). The bearer a request is
admitted with is at the daemon's reference when it is compared; a token newer than
the request cannot be the one it shows, and one that was replaced does not come
back, so it was there when the request arrived (`Requests`).

**`FunctionProofs`, texts and lists.** Each step calls one function, so that
the work is in the function: a loop, modelled as a recursive function over its
rounds. That such a function exists, and that what holds before the first round
and is kept by each holds after the last, are `LoopExists` and `RoundByRound`,
both from the least round at which they fail (`LeastExists`); they speak of
sets, the set of good values of each round, and take no operator. What is good
is the loop's invariant:

* `RedactionTheorem`: what is selected of the first matches does not overlap,
  and each of them is selected or begins within an earlier one that is
  (`Picked`). Replacing from the end, the text after each round shows in order
  all positions but those that the findings already replaced took, and is still
  untouched before them (`Shows`), which is why the offsets of the others stay
  right. `SortedIs` and `IncreasingIs` rest on `ListedIs`: listing a finite set
  by how many members are before each one is a bijection that keeps the order.
* `ChunksTheorem`: the chunks end at the window's start, follow each other and
  hold every line of text before it (`Cut`); `AtMostOnce` bounds how many hold a line.
* `ContextTheorem`: the sources are a prefix of the results, as long as the
  rounds unless the loop has stopped, and the length is within the budget
  (`Packed`). `Compile` works on what `Fuse` returned, so the invariant
  `FusionSafe` adds to `FusionIsFaithful` that this is a list of results.
* `FusionTheorem`: a chunk that neither search ranks behind another and one of
  them ahead of it has the greater score, exactly (`ShareOrders`,
  `BetterScores`), and a list in the order of the scores places it first
  (`ScoresArrange`). A finite list that names each chunk once has room for all.
* `SnippetTheorem`: arithmetic of the window's three cases.
* `PackageTheorem`, from `TrimTextIs` (a text cut twice with a limit above the
  mark is cut once) and `PackageSound`: two lists of evidence whose items are
  the same up to the limit, once trimmed, are cut to the same (`Agree`). A
  summary composed of two parts is the exception: each part is trimmed before,
  so the package is that of the request with the parts stripped of blanks, and
  only if neither part was cut by itself. The steps of `MCTextFunctions` package
  few texts; `PackageSound` is about every request.

The theorems hold for `MaxText`, `MaxLines`, `MaxChars`, `MaxRank`, `MaxBudget`
and `MaxItems` of any size, for any `Results` and lengths and any `RuleActions`.

**Only model-checked.** Liveness (`EveryRequestEnds`, `EveryRefreshEnds`,
`BuiltEnds`), which the prover does not do under fairness. Every invariant and
action property that a passing run checks is stated by a theorem.

## 5. What is not modelled

* Request path: streaming and headers of responses, metrics, token counts and
  logs; the wording of prompts and the parsing of the local model's replies
  (their outcomes are chosen freely); the translation between provider
  protocols (a call sends one body, or fails before). What a write of the ledger
  that fails half way leaves in the file: it leaves no event. The regular expressions of the scanner:
  the intervals they match are an input.
* Index: which files are discovered (a rebuild finds an arbitrary set of
  chunks), and `graphify`, which only reports.
* Configuration: ranges of numeric settings, configurations before schema 2,
  the encryption of the system file. `mcp add` and `mcp remove` edit another list of
  the same file in the way of the LLM commands.
* Modules: several modules, their MCP servers and skills, and the paths in a manifest.
* Agent: the contents of tool results, the git commands that produce them, and
  `Execute`, which has no caller outside tests. A file of which two processes have
  written parts is taken for one that cannot be parsed.
* The Ollama client, tokenizer, metrics, the router and the operating system's
  keyring beyond a map: pure I/O or without state.

## 6. Findings

| Run | What the documentation or a test says | What the code does |
|---|---|---|
| `chat_egress_recorded` | `remote_egress`: a request was sent (ADR-010) | the event is written after the answer is copied, with a context the client's disconnect cancels |
| `gate_decided_once` | "proposal %s is already %s" (`gating.go`) | two decisions that arrive together both pass the check |

Further disagreements were met while modelling and have no run:

| Says | Does |
|---|---|
| ADR-008:26: preflight redacts the request body | `chat_completions_handler.go:304` goes on with the original; retrieval works on it, egress redacts |
| ADR-008:29-31: findings that do not block give `redact` first | `evaluator.go:60` asks the classification first |
| ADR-009:36: a request proceeds without context when both searches fail | `pipeline.go:141` returns an error: the end `failed` of a query in `WorkspaceIndex` |
| `docs/reference.md:21`: `llm remove` removes a provider | an empty registry is omitted from the file and read as the bundled one, so the last provider removed comes back |
| `docs/command-native-setup.md:112`: `llm remove` clears the keyring credential | `cmd/rillan/llm.go:96-123` does not touch the keyring |
| `index/store_test.go:92`: the committed root is that of the counted documents | `store.go:231` takes it from the newest succeeded run, which need not have committed last |
| `docs/audit-backlog.md:46`: approved roots remain usable | `agent_task_handler.go:34` gives the runner the roots of the start: one approved later passes the handler's check and fails in the runner |
| `docs/command-native-setup.md:188`: a skill's id is derived from the filename | `skill_catalog.go:225` takes the first heading, if there is one |
| `docs/architecture.md:174`: skills are at `<data_dir>/skills/<id>.md` | the managed copy is `<id>/SKILL.md` |
| ADR-010:19: `remote_egress` means that a request was sent | `chat_completions_handler.go:414-418` records it also for a call that failed before anything was sent (`anthropic/client.go:87`, `stdio/client.go:53`, a refused connection), with an error and without a status |
| `docs/reference.md:190`: repository tools are limited to approved roots | true of the tools that take a root; `index_lookup` opens the database path its caller gives (`skills/registry.go:78`) without a check |
| `README.md:11`: a credential is bound to its endpoint | `secretstore/store.go:141` lets an empty endpoint on either side agree with anything |

Behaviours no document speaks of, which the models keep: a refresh whose client
left probes with a cancelled context and installs a snapshot in which nothing is
ready (`status.go:122`); a refresh that fails after a logout leaves the old
snapshot, and its secret, in use (`load.go:268`); the denial of a blocked
request names the provider the daemon started with
(`chat_completions_handler.go:273`); proposals are never removed from their
store (`proposal_store.go:23`); an edit of `server.auth` refuses the refresh
that would make it known (`daemon_refresh.go:43`); one malformed manifest,
enabled or not, fails every build (`modules/catalog.go:100`); the two searches
of a request are two transactions and may see two indexes (`pipeline.go:140`);
two skill commands at once lose one of their edits, since each writes the whole
catalog it read, and a removal may delete the copy an installation has just
written; a refresh that reads `config.yaml` while a command has truncated it
serves the default configuration until the next one (`load.go:145`), and of two
commands that overlap one edit is lost although both are acknowledged; an event
the disk refuses is logged by the request path
(`chat_completions_handler.go:637`) and dropped without a word by the approval
gate (`gating.go:90`), and either client is answered all the same; an update of
the skill metrics that fails is dropped as well (`runner.go:78`); `auth logout`
withdraws the session of the control plane and leaves the daemon's inbound
bearer as it is, unless both references are the same, and no command stores that
bearer; the severity and message of a diagnostic are cut before they are
composed, so that a summary may show the mark and be cut again.

## 7. Plan

What is left, in order of importance; (m) model, (p) proof.

1. (p) What liveness rests on: that a waiting refresh or rebuild always finds
   the owner of the lock at a step of its own, as invariants.
2. (m) Composition of `Credentials` with the half-written file and overlapping
   builds of `RuntimeRefresh`.
3. (m) The MCP registry: commands, servers of modules, the read-only snapshot
   of a task.
4. (m) Discovery of files, and its ignore rules against a definition by paths.
