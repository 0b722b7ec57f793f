--------------------------- MODULE RuntimeRefresh ---------------------------
(***************************************************************************)
(* How an edit of config.yaml reaches the running daemon: the CLI commands *)
(* that read, edit and rewrite the file (cmd/rillan/llm.go), the refresh   *)
(* request they send afterwards (daemon_refresh.go), the handler of that   *)
(* request (admin_reload_handler.go) and the runtimeManager that builds    *)
(* and swaps the snapshot under its mutex (internal/app).                  *)
(*                                                                         *)
(* config.Write truncates the file and then writes it (os.WriteFile), so   *)
(* another process can read it empty, and an empty file parses as the      *)
(* default configuration.  A field left empty is omitted from the file and *)
(* reads back as its default.  Of a configuration only the provider        *)
(* registry is kept; the project and system files do not change.           *)
(***************************************************************************)
EXTENDS Integers, FiniteSets

CONSTANTS
    Commands,       \* the CLI invocations, each run once
    Workloads,      \* what the commands may be: functions to [kind, id]
    Providers,      \* provider ids
    NoProvider,     \* the empty llms.default
    Credentialed,   \* providers whose credential resolves
    DefaultConfig,  \* config.DefaultConfig(): the bundled registry
    FirstConfig,    \* the configuration on disk at the beginning
    Nobody          \* the holder of a free mutex

(* A registry; nothing ties the default to the providers listed.           *)
Configs == [providers : SUBSET Providers, default : Providers \cup {NoProvider}]

ASSUME RefreshAssumption ==
    /\ Workloads \subseteq [Commands -> [kind : {"add", "remove", "use"}, id : Providers]]
    /\ NoProvider \notin Providers /\ Nobody \notin Commands
    /\ Credentialed \subseteq Providers
    /\ DefaultConfig \in Configs /\ FirstConfig \in Configs
    /\ \A cfg \in {DefaultConfig, FirstConfig} :
        cfg.default \in cfg.providers \cap Credentialed

VARIABLES
    file,       \* config.yaml: what it holds, and how often it was written
    healthy,    \* the credentialed providers that answer a readiness probe
    daemon,     \* "down", "starting" (not listening yet) or "up"
    current,    \* the snapshot served: cfg, version of the file, ready ids
    mutex,      \* runtimeManager.mu
    op,         \* the arguments each command is invoked with
    cli,        \* where each command is
    edit,       \* the configuration a command is about to write
    handler,    \* where the refresh handler of a command's request is
    gone,       \* the request context of a handler is cancelled
    next,       \* the snapshot a handler is building
    pending     \* the candidates it still has to probe

disk == <<file, op, cli, edit>>
building == <<handler, next, pending>>
vars == <<disk, healthy, daemon, current, mutex, building, gone>>

CliEnds == {"acked", "unreachable", "failed"}

-----------------------------------------------------------------------------
(* What os.ReadFile and yaml.Unmarshal over DefaultConfig() give.          *)
Readable == file.state # "corrupt"

(* An empty llms.default or llms.providers is omitted from what Write      *)
(* marshals, and reading unmarshals over the default configuration.        *)
Parsed(cfg) ==
    [providers |-> IF cfg.providers = {} THEN DefaultConfig.providers ELSE cfg.providers,
     default |-> IF cfg.default = NoProvider THEN DefaultConfig.default ELSE cfg.default]

Contents == IF file.state = "empty" THEN DefaultConfig ELSE Parsed(file.cfg)

(* ValidateForMode(serve) and the resolution of the default provider.      *)
Servable(cfg) == cfg.default \in cfg.providers \cap Credentialed

(* The catalog: of the registry, what the host holds and probes can reach. *)
Catalog(cfg) == cfg.providers \cap Credentialed

Applicable(o, cfg) == o.kind = "add" <=> o.id \notin cfg.providers

(* The edit of llm add, remove and use.                                    *)
Applied(o, cfg) ==
    CASE o.kind = "add" ->
            [providers |-> cfg.providers \cup {o.id},
             default |-> IF cfg.default = NoProvider THEN o.id ELSE cfg.default]
      [] o.kind = "remove" ->
            [providers |-> cfg.providers \ {o.id},
             default |-> IF cfg.default = o.id THEN NoProvider ELSE cfg.default]
      [] o.kind = "use" -> [cfg EXCEPT !.default = o.id]

FirstSnapshot ==
    [cfg |-> FirstConfig, version |-> 0, ready |-> Catalog(FirstConfig)]

Init ==
    /\ file = [state |-> "whole", cfg |-> FirstConfig, version |-> 0]
    /\ healthy = Credentialed
    /\ daemon = "up" /\ current = FirstSnapshot
    /\ mutex = Nobody
    /\ op \in Workloads
    /\ cli = [c \in Commands |-> "idle"]
    /\ edit = [c \in Commands |-> FirstConfig]
    /\ handler = [c \in Commands |-> "none"]
    /\ gone = [c \in Commands |-> FALSE]
    /\ next = [c \in Commands |-> FirstSnapshot]
    /\ pending = [c \in Commands |-> {}]

-----------------------------------------------------------------------------
(* The command line.                                                       *)

(* LoadForEdit and the edit; a command that does not apply ends.           *)
EditLoad(c) ==
    /\ cli[c] = "idle"
    /\ IF Readable /\ Applicable(op[c], Contents)
       THEN /\ cli' = [cli EXCEPT ![c] = "loaded"]
            /\ edit' = [edit EXCEPT ![c] = Applied(op[c], Contents)]
       ELSE /\ cli' = [cli EXCEPT ![c] = "failed"]
            /\ UNCHANGED edit
    /\ UNCHANGED <<file, op, healthy, daemon, current, mutex, building, gone>>

(* config.Write, os.WriteFile opening the file with O_TRUNC.               *)
WriteTruncate(c) ==
    /\ cli[c] = "loaded"
    /\ cli' = [cli EXCEPT ![c] = "truncated"]
    /\ file' = [file EXCEPT !.state = "empty"]
    /\ UNCHANGED <<op, edit, healthy, daemon, current, mutex, building, gone>>

(* os.WriteFile writing from the start of the file: over what another      *)
(* command wrote since, a longer tail of that may stay.                    *)
WriteContents(c) ==
    /\ cli[c] = "truncated"
    /\ cli' = [cli EXCEPT ![c] = "written"]
    /\ \E s \in {"whole"} \cup (IF file.state = "empty" THEN {} ELSE {"corrupt"}) :
        file' = [state |-> s, cfg |-> edit[c], version |-> file.version + 1]
    /\ UNCHANGED <<op, edit, healthy, daemon, current, mutex, building, gone>>

(* notifyDaemonRuntimeRefresh: a refused connection is a success.          *)
Notify(c) ==
    /\ cli[c] = "written"
    /\ IF daemon = "up"
       THEN /\ cli' = [cli EXCEPT ![c] = "notifying"]
            /\ handler' = [handler EXCEPT ![c] = "waiting"]
       ELSE /\ cli' = [cli EXCEPT ![c] = "unreachable"]
            /\ UNCHANGED handler
    /\ UNCHANGED <<file, op, edit, healthy, daemon, current, mutex, next, pending,
                   gone>>

(* The 5 s timeout of the command's HTTP client, or its interruption: the  *)
(* request context of the handler is cancelled, the handler goes on.       *)
NotifyTimeout(c) ==
    /\ cli[c] = "notifying"
    /\ cli' = [cli EXCEPT ![c] = "failed"]
    /\ gone' = [gone EXCEPT ![c] = TRUE]
    /\ UNCHANGED <<file, op, edit, healthy, daemon, current, mutex, building>>

-----------------------------------------------------------------------------
(* The refresh handler, on behalf of the request of command c.             *)

Respond(c, result) ==
    cli' = [cli EXCEPT ![c] = IF @ = "notifying" THEN result ELSE @]

(* A manager that builds before it takes its mutex.                        *)
AcquireUnlocked(c) ==
    /\ handler[c] = "waiting"
    /\ mutex' = mutex
    /\ handler' = [handler EXCEPT ![c] = "loading"]
    /\ UNCHANGED <<disk, healthy, daemon, current, next, pending, gone>>

(* Refresh takes the mutex, whatever became of the request's context.      *)
Acquire(c) ==
    /\ handler[c] = "waiting"
    /\ mutex = Nobody
    /\ mutex' = c
    /\ handler' = [handler EXCEPT ![c] = "loading"]
    /\ UNCHANGED <<disk, healthy, daemon, current, next, pending, gone>>

(* A refresh that trusts the file to be a valid configuration.             *)
LoadDiskUnvalidated(c) ==
    /\ handler[c] = "loading"
    /\ next' = [next EXCEPT ![c] = [cfg |-> Contents, version |-> file.version,
                                    ready |-> {}]]
    /\ pending' = [pending EXCEPT ![c] = Catalog(Contents)]
    /\ handler' = [handler EXCEPT ![c] = "probing"]
    /\ UNCHANGED <<disk, healthy, daemon, current, mutex, gone>>

(* buildFromDisk reads and validates the configuration.                    *)
LoadDisk(c) ==
    /\ handler[c] = "loading"
    /\ Readable /\ Servable(Contents)
    /\ next' = [next EXCEPT ![c] = [cfg |-> Contents, version |-> file.version,
                                    ready |-> {}]]
    /\ pending' = [pending EXCEPT ![c] = Catalog(Contents)]
    /\ handler' = [handler EXCEPT ![c] = "probing"]
    /\ UNCHANGED <<disk, healthy, daemon, current, mutex, gone>>

(* A refresh that fails and keeps the mutex.                               *)
LoadDiskFailsLocked(c) ==
    /\ handler[c] = "loading"
    /\ ~(Readable /\ Servable(Contents))
    /\ handler' = [handler EXCEPT ![c] = "none"]
    /\ Respond(c, "failed")
    /\ UNCHANGED <<file, op, edit, healthy, daemon, current, next, pending, gone, mutex>>

(* buildFromDisk fails: the served snapshot stays.                         *)
LoadDiskFails(c) ==
    /\ handler[c] = "loading"
    /\ ~(Readable /\ Servable(Contents))
    /\ handler' = [handler EXCEPT ![c] = "none"]
    /\ mutex' = Nobody
    /\ Respond(c, "failed")
    /\ UNCHANGED <<file, op, edit, healthy, daemon, current, next, pending, gone>>

(* buildCandidateStatus: Ready is called with a context derived from the   *)
(* request's, so a cancelled request makes the provider not ready.         *)
Probe(c) ==
    /\ handler[c] = "probing"
    /\ \E p \in pending[c] :
        /\ pending' = [pending EXCEPT ![c] = @ \ {p}]
        /\ next' = IF p \in healthy /\ ~gone[c]
                   THEN [next EXCEPT ![c].ready = @ \cup {p}] ELSE next
    /\ UNCHANGED <<disk, healthy, daemon, current, mutex, handler, gone>>

(* The new snapshot replaces the current one, the mutex is released.       *)
Swap(c) ==
    /\ handler[c] = "probing"
    /\ pending[c] = {}
    /\ current' = next[c]
    /\ mutex' = Nobody
    /\ handler' = [handler EXCEPT ![c] = "none"]
    /\ Respond(c, "acked")
    /\ UNCHANGED <<file, op, edit, healthy, daemon, next, pending, gone>>

Refresh(c) ==
    Acquire(c) \/ LoadDisk(c) \/ LoadDiskFails(c) \/ Probe(c) \/ Swap(c)

-----------------------------------------------------------------------------
(* A provider stops answering, or answers again.                           *)
HealthChanges(p) ==
    /\ healthy' = IF p \in healthy THEN healthy \ {p} ELSE healthy \cup {p}
    /\ UNCHANGED <<disk, daemon, current, mutex, building, gone>>

(* The daemon dies: its handlers are gone, their clients see an error.     *)
Stop ==
    /\ daemon = "up"
    /\ daemon' = "down"
    /\ mutex' = Nobody
    /\ handler' = [c \in Commands |-> "none"]
    /\ cli' = [c \in Commands |-> IF cli[c] = "notifying" THEN "failed" ELSE cli[c]]
    /\ UNCHANGED <<file, op, edit, healthy, current, next, pending, gone>>

(* serve loads the configuration and builds the first snapshot ...         *)
Start ==
    /\ daemon = "down"
    /\ Readable /\ Servable(Contents)
    /\ daemon' = "starting"
    /\ current' = [cfg |-> Contents, version |-> file.version,
                   ready |-> Catalog(Contents) \cap healthy]
    /\ UNCHANGED <<disk, healthy, mutex, building, gone>>

(* ... and listens only then.                                              *)
Listen ==
    /\ daemon = "starting"
    /\ daemon' = "up"
    /\ UNCHANGED <<disk, healthy, current, mutex, building, gone>>

Next ==
    \/ \E c \in Commands :
        \/ EditLoad(c) \/ WriteTruncate(c) \/ WriteContents(c)
        \/ Notify(c) \/ NotifyTimeout(c) \/ Refresh(c)
    \/ \E p \in Credentialed : HealthChanges(p)
    \/ Stop \/ Start \/ Listen

Spec == Init /\ [][Next]_vars

(* A handler keeps running: file reads end and a probe is given 3 s.       *)
FairSpec == Spec /\ \A c \in Commands : WF_vars(Refresh(c))

-----------------------------------------------------------------------------
(* Every variable has its type, and a handler is past the lock of Refresh  *)
(* exactly while it holds runtimeManager.mu.                               *)
TypeOK ==
    /\ file \in [state : {"whole", "empty", "corrupt"}, cfg : Configs, version : Nat]
    /\ healthy \subseteq Credentialed
    /\ daemon \in {"down", "starting", "up"}
    /\ current \in [cfg : Configs, version : Nat, ready : SUBSET Providers]
    /\ mutex \in Commands \cup {Nobody}
    /\ \A c \in Commands : mutex = c <=> handler[c] \in {"loading", "probing"}
    /\ op \in Workloads
    /\ cli \in [Commands -> {"idle", "loaded", "truncated", "written", "notifying"}
                            \cup CliEnds]
    /\ edit \in [Commands -> Configs]
    /\ handler \in [Commands -> {"none", "waiting", "loading", "probing"}]
    /\ gone \in [Commands -> BOOLEAN]
    /\ next \in [Commands -> [cfg : Configs, version : Nat, ready : SUBSET Providers]]
    /\ pending \in [Commands -> SUBSET Providers]

(* While the daemon runs, the version of the configuration it serves never *)
(* goes back, however many refreshes queue up or lose their client.        *)
VersionNeverGoesBack ==
    [][daemon = "up" => current'.version >= current.version]_vars

(* When every command that ran was acknowledged, the daemon serves what is *)
(* on disk, although refreshes may have read the file half-written in      *)
(* between and may have taken the mutex in any order.  It is said of that  *)
(* moment only: while another command has truncated the file, one that is  *)
(* acknowledged may leave the default configuration served; and what is on *)
(* disk need not hold both edits, for the second writer may have read the  *)
(* file before the first wrote it.                                         *)
AckedIsServed ==
    (daemon = "up" /\ \A c \in Commands : cli[c] \in {"idle", "acked"})
        => current.version = file.version /\ current.cfg = Contents

(* The served snapshot can always serve: its default provider is listed    *)
(* and has a credential, and nothing outside its catalog is ready, whatever*)
(* the file held when a refresh read it.  A file that cannot be parsed, or *)
(* names no provider that resolves, replaces nothing; one read empty is    *)
(* the default configuration, and that does replace what was served.       *)
AlwaysServable ==
    /\ Servable(current.cfg)
    /\ current.ready \subseteq Catalog(current.cfg)

(* Every refresh request that reached the daemon ends, also behind others  *)
(* that failed or whose clients left.                                      *)
EveryRefreshEnds ==
    \A c \in Commands : handler[c] # "none" ~> handler[c] = "none"

=============================================================================
