---------------------------- MODULE Credentials -----------------------------
(***************************************************************************)
(* Which secrets the daemon uses, and for whom: the keyring, the commands  *)
(* that fill and clear it (cmd/rillan), the modules a repository brings    *)
(* along and the trust the machine's owner gives them (internal/modules),  *)
(* the build of a runtime snapshot that takes a secret for each provider   *)
(* (internal/app, internal/config), and the bearer an inbound request must *)
(* show (internal/httpapi/auth_middleware.go).                             *)
(*                                                                         *)
(* A build reads its files and each secret at its own time, while commands *)
(* and editors change them.  A file is read and written whole here; that   *)
(* it may be read half-written is RuntimeRefresh's part.  A token is the   *)
(* number of the login that stored it.  Issuer and audience, which no      *)
(* caller asks for, and configurations before schema 2 are left out.       *)
(***************************************************************************)
EXTENDS Naturals, Sequences

CONSTANTS
    Ids,            \* provider ids
    Refs,           \* keyring references
    RefOf,          \* the reference a command gives a provider id
    Sessions,       \* settings of inbound authentication: reference, strategy
    Controls,       \* settings of the control plane: endpoint, strategy, reference
    ControlRef,     \* the reference a first login to the control plane uses
    Offers,         \* what may be written about a provider
    DefaultRegistry, DefaultId,     \* config.DefaultConfig().LLMs
    Projects,       \* project files: enabled, override, allowed
    Manifests,      \* manifests the repository's module may have
    Malformed,      \* one that cannot be loaded
    None,           \* an empty setting, a missing credential or manifest
    MaxEdits        \* bound on the commands and edits

Backends == {"openai_compatible", "anthropic", "ollama", "stdio"}
NoToken == 0

(* Entries by id, which ask for a secret at a reference of the keyring.    *)
Registry(map) ==
    /\ DOMAIN map \subseteq Ids
    /\ \A id \in DOMAIN map : map[id].backend \in Backends /\ map[id].ref \in Refs \cup {None}

ASSUME CredentialsAssumption ==
    /\ RefOf \in [Ids -> Refs] /\ ControlRef \in Refs /\ None \notin Refs \cup Ids
    /\ None \notin Sessions
    /\ \A s \in Sessions : s.ref \in Refs /\ s.strategy # None
    /\ \A c \in Controls : c.ref \in Refs \cup {None}
    /\ \A o \in Offers : o.backend \in Backends /\ o.ref \in Refs \cup {None}
    /\ Registry(DefaultRegistry) /\ DefaultId \in DOMAIN DefaultRegistry
    /\ \A m \in Manifests : Registry(m)
    /\ \A p \in Projects : p.enabled \in BOOLEAN /\ p.override \in Ids \cup {None}
                           /\ p.allowed \subseteq Ids
    /\ MaxEdits \in Nat

VARIABLES
    config,     \* config.yaml: registry, default, server.auth or None, auth.rillan
    project,    \* project.yaml
    manifest,   \* the module's manifest
    trusted,    \* system policy: trusted manifests, and whether they may use stdio
    keyring,    \* the credential at each reference
    minted,     \* history: the credentials in the order they were stored
    vetted,     \* history: the manifests that were trusted, with stdio or without
    build,      \* the build of a snapshot
    current,    \* the snapshot served, None when the daemon is down
    request,    \* an inbound request
    edits       \* how many commands and edits there were

files == <<config, project, manifest, trusted, vetted>>
secrets == <<keyring, minted>>
vars == <<files, secrets, build, current, request, edits>>

Idle == [pc |-> "idle"]
NoControl == [endpoint |-> None, strategy |-> None, ref |-> None]

Init ==
    /\ config = [registry |-> DefaultRegistry, default |-> DefaultId, session |-> None,
                 control |-> NoControl]
    /\ project \in Projects /\ manifest = None /\ trusted = <<>> /\ vetted = {}
    /\ keyring = [r \in Refs |-> None] /\ minted = <<>>
    /\ build = Idle /\ current = None /\ request = Idle /\ edits = 0

-----------------------------------------------------------------------------
(* Commands and edits.                                                     *)

(* A map and what it says where another one says nothing; one entry.       *)
Over(map, other) ==
    [i \in DOMAIN map \cup DOMAIN other |-> IF i \in DOMAIN map THEN map[i] ELSE other[i]]
One(id, entry) == [i \in {id} |-> entry]

Edit == edits < MaxEdits /\ edits' = edits + 1
Running == <<build, current, request>>

(* buildLLMProviderEntry and validateLLMProviderEntry: what add accepts.   *)
Addable(id, offer) ==
    /\ offer.ref = RefOf[id] /\ offer.strategy # None
    /\ offer.backend = "stdio" \/ offer.endpoint # None

Add(id, offer) ==
    /\ Edit /\ id \notin DOMAIN config.registry /\ Addable(id, offer)
    /\ config' = [config EXCEPT !.registry = Over(One(id, offer), @)]
    /\ UNCHANGED <<project, manifest, trusted, vetted, secrets, Running>>

(* A removal after which the file is read without the defaults.            *)
RemoveBare(id) ==
    /\ Edit /\ id \in DOMAIN config.registry
    /\ config' = [config EXCEPT
                    !.registry = [i \in DOMAIN @ \ {id} |-> @[i]],
                    !.default = IF @ = id THEN None ELSE @]
    /\ UNCHANGED <<project, manifest, trusted, vetted, secrets, Running>>

(* An empty registry or default is omitted and reads back as the default's.*)
Remove(id) ==
    /\ Edit /\ id \in DOMAIN config.registry
    /\ LET left == [i \in DOMAIN config.registry \ {id} |-> config.registry[i]]
       IN  config' = [config EXCEPT
                        !.registry = IF left = <<>> THEN DefaultRegistry ELSE left,
                        !.default = IF @ = id THEN DefaultId ELSE @]
    /\ UNCHANGED <<project, manifest, trusted, vetted, secrets, Running>>

Use(id) ==
    /\ Edit /\ id \in DOMAIN config.registry
    /\ config' = [config EXCEPT !.default = id]
    /\ UNCHANGED <<project, manifest, trusted, vetted, secrets, Running>>

(* An entry is changed in an editor.                                       *)
Change(id, offer) ==
    /\ Edit /\ id \in DOMAIN config.registry
    /\ config' = [config EXCEPT !.registry[id] = offer]
    /\ UNCHANGED <<project, manifest, trusted, vetted, secrets, Running>>

(* secretstore.Save, with the endpoint and strategy of the login.          *)
Save(ref, endpoint, strategy) ==
    LET credential == [endpoint |-> endpoint, strategy |-> strategy, token |-> Len(minted) + 1]
    IN  /\ minted' = Append(minted, credential)
        /\ keyring' = [keyring EXCEPT ![ref] = credential]

(* llm login: credentialFromInput refuses a strategy without credential.   *)
Login(id) ==
    /\ Edit /\ id \in DOMAIN config.registry
    /\ LET entry == config.registry[id]
       IN  /\ entry.strategy \notin {None, "none"} /\ entry.ref # None
           /\ Save(entry.ref, entry.endpoint, entry.strategy)
    /\ UNCHANGED <<files, Running>>

(* llm logout.                                                             *)
Logout(id) ==
    /\ Edit /\ id \in DOMAIN config.registry /\ config.registry[id].ref # None
    /\ keyring' = [keyring EXCEPT ![config.registry[id].ref] = None]
    /\ UNCHANGED <<files, minted, Running>>

(* auth login: what the flags do not say is the configuration's.  The      *)
(* secret is stored first; the write of the configuration may fail.        *)
SignIn(flags) ==
    LET control == config.control
        endpoint == IF flags.endpoint # None THEN flags.endpoint ELSE control.endpoint
        strategy == IF flags.strategy # None THEN flags.strategy ELSE control.strategy
        ref == IF control.ref # None THEN control.ref ELSE ControlRef
    IN  /\ Edit /\ endpoint # None /\ strategy \notin {None, "none"}
        /\ Save(ref, endpoint, strategy)
        /\ \/ config' = [config EXCEPT
                !.control = [endpoint |-> endpoint, strategy |-> strategy, ref |-> ref]]
           \/ UNCHANGED config
        /\ UNCHANGED <<project, manifest, trusted, vetted, Running>>

(* auth logout.                                                            *)
SignOut ==
    /\ Edit /\ config.control.ref # None
    /\ keyring' = [keyring EXCEPT ![config.control.ref] = None]
    /\ UNCHANGED <<files, minted, Running>>

(* No command stores the daemon's own bearer: whoever runs it puts one in  *)
(* the keyring, bound to a strategy or to nothing, and takes it away.      *)
Provision ==
    /\ Edit
    /\ \E session \in Sessions :
        \/ \E strategy \in {None} \cup {s.strategy : s \in Sessions} :
                Save(session.ref, None, strategy)
        \/ keyring' = [keyring EXCEPT ![session.ref] = None] /\ UNCHANGED minted
    /\ UNCHANGED <<files, Running>>

(* server.auth and auth.rillan are changed in an editor.                   *)
SetAuth ==
    /\ Edit
    /\ \/ \E s \in Sessions \cup {None} : config' = [config EXCEPT !.session = s]
       \/ \E c \in Controls : config' = [config EXCEPT !.control = c]
    /\ UNCHANGED <<project, manifest, trusted, vetted, secrets, Running>>

(* The repository brings another manifest, or another project file.        *)
Checkout ==
    /\ Edit /\ manifest' \in Manifests \cup {Malformed, None} /\ project' \in Projects
    /\ UNCHANGED <<config, trusted, vetted, secrets, Running>>

(* The manifest is trusted as it is now, or a trust is withdrawn.          *)
Trust ==
    /\ Edit /\ manifest \in Manifests
    /\ \E stdio \in BOOLEAN :
        /\ trusted' = Over(One(manifest, stdio), trusted)
        /\ vetted' = vetted \cup {<<manifest, FALSE>>, <<manifest, stdio>>}
    /\ UNCHANGED <<config, project, manifest, secrets, Running>>

Distrust ==
    /\ Edit
    /\ \E m \in DOMAIN trusted : trusted' = [n \in DOMAIN trusted \ {m} |-> trusted[n]]
    /\ UNCHANGED <<config, project, manifest, vetted, secrets, Running>>

-----------------------------------------------------------------------------
(* validateBinding: what a secret was stored for must be what it is to be  *)
(* used for, as far as both say.                                           *)
Agree(a, b) == a = None \/ b = None \/ a = b

(* A binding that looks at the endpoint only when the strategies differ.   *)
BoundLoosely(credential, entry) ==
    Agree(credential.endpoint, entry.endpoint) \/ Agree(credential.strategy, entry.strategy)

Bound(credential, entry) ==
    Agree(credential.endpoint, entry.endpoint) /\ Agree(credential.strategy, entry.strategy)

(* ResolveRuntimeProviderAdapterConfig: whether an entry uses a secret, and*)
(* whether it can be configured with what the keyring holds.               *)
NeedsSecret(entry) ==
    \/ entry.backend = "anthropic"
    \/ entry.backend = "openai_compatible" /\ entry.strategy # "none" /\ entry.ref # None

(* A cache of the last credential stored, used for those that are missing. *)
HeldCached(entry) ==
    IF entry.ref = None THEN None
    ELSE IF keyring[entry.ref] = None /\ minted # <<>> THEN
        [minted[Len(minted)] EXCEPT !.endpoint = None]
    ELSE keyring[entry.ref]

Held(entry) == IF entry.ref = None THEN None ELSE keyring[entry.ref]

Configurable(entry) ==
    /\ entry.backend = "stdio" => entry.strategy \in {None, "none"}
    /\ entry.backend = "anthropic" => entry.strategy = "api_key"
    /\ NeedsSecret(entry) => Held(entry) # None /\ Bound(Held(entry), entry)

Adapter(entry) ==
    [endpoint |-> entry.endpoint, strategy |-> entry.strategy,
     token |-> IF NeedsSecret(entry) THEN Held(entry).token ELSE NoToken]

(* Credentials stored and no longer in the keyring.                        *)
Withdrawn == 1..Len(minted) \ {keyring[r].token : r \in {q \in Refs : keyring[q] # None}}

-----------------------------------------------------------------------------
(* The build of a snapshot.                                                *)
Building(pc) == build.pc = pc
Fail == build' = Idle /\ UNCHANGED current
External == <<files, secrets, request, edits>>

Begin == build' = [pc |-> "config", withdrawn |-> Withdrawn]

(* The daemon is started: it serves once a first build succeeds.           *)
Start ==
    /\ current = None /\ Building("idle") /\ Begin
    /\ UNCHANGED <<External, current>>

(* config.Load with ValidateForMode(serve).                                *)
Servable ==
    /\ config.default \in DOMAIN config.registry
    /\ LET active == config.registry[config.default]
       IN  active.backend \in {"stdio", "ollama"} \/ active.endpoint # None

LoadConfig ==
    /\ Building("config")
    /\ \/ Servable /\ UNCHANGED current
          /\ build' = [pc |-> "project", withdrawn |-> build.withdrawn, config |-> config]
       \/ ~Servable /\ Fail
    /\ UNCHANGED External

(* The project may override the default provider.                          *)
Selected ==
    IF project.override # None THEN project.override ELSE build.config.default

LoadProject ==
    /\ Building("project")
    /\ build' = [pc |-> "system", withdrawn |-> build.withdrawn, config |-> build.config,
                 selected |-> Selected, enabled |-> project.enabled,
                 allowed |-> project.allowed]
    /\ UNCHANGED <<External, current>>

(* A starting daemon looks for its own bearer next.                        *)
LoadSystem ==
    /\ Building("system")
    /\ build' = [pc |-> IF current = None THEN "bearer" ELSE "modules",
                 withdrawn |-> build.withdrawn, config |-> build.config, trusted |-> trusted,
                 selected |-> build.selected, enabled |-> build.enabled,
                 allowed |-> build.allowed]
    /\ UNCHANGED <<External, current>>

(* ResolveServerAuthBearer: what the keyring holds at the daemon's own     *)
(* reference, stored for the strategy the configuration names.             *)
Resolvable(session) ==
    keyring[session.ref] # None /\ Agree(keyring[session.ref].strategy, session.strategy)

(* app.New, of a daemon that is started: a refresh does not look.          *)
CheckBearer ==
    /\ Building("bearer")
    /\ LET session == build.config.session
       IN  \/ /\ session # None => Resolvable(session)
              /\ build' = [build EXCEPT !.pc = "modules"] /\ UNCHANGED current
           \/ session # None /\ ~Resolvable(session) /\ Fail
    /\ UNCHANGED External

(* FilterTrusted without the look at the adapters' transport.              *)
TrustedAnyTransport(m) == m \in DOMAIN build.trusted

(* FilterTrusted: the manifest is the one that was trusted, and an adapter *)
(* that is a command needs a trust that says so.                           *)
Trusted(m) ==
    /\ m \in DOMAIN build.trusted
    /\ build.trusted[m] \/ \A id \in DOMAIN m : m[id].backend # "stdio"

(* LoadProjectCatalog, FilterEnabled, FilterTrusted: a module that cannot  *)
(* be loaded fails the build even when it is not enabled.                  *)
Acceptable ==
    manifest # Malformed /\ (build.enabled => manifest # None /\ Trusted(manifest))

(* augmentRuntimeConfigWithModuleLLMAdapters; a module of no adapters that *)
(* is not enabled adds none.                                               *)
Adapters == IF build.enabled THEN manifest ELSE <<>>

(* No adapter has the id of a configured provider.                         *)
Augmentable == DOMAIN Adapters \cap DOMAIN build.config.registry = {}

(* ... and ResolveActiveLLMProvider, with the project's override and list. *)
LoadModules ==
    /\ Building("modules")
    /\ LET entries == Over(Adapters, build.config.registry)
           allowed == IF build.allowed = {} THEN Ids ELSE build.allowed
       IN  \/ /\ Acceptable /\ Augmentable /\ build.selected \in DOMAIN entries \cap allowed
              /\ build' = [pc |-> "resolve", withdrawn |-> build.withdrawn,
                           session |-> build.config.session, selected |-> build.selected,
                           entries |-> entries, pending |-> DOMAIN entries \cap allowed,
                           adapters |-> <<>>, source |-> Adapters]
              /\ UNCHANGED current
           \/ /\ ~(Acceptable /\ Augmentable /\ build.selected \in DOMAIN entries \cap allowed)
              /\ Fail
    /\ UNCHANGED External

(* ResolveRuntimeProviderHostConfig, one provider: the selected one must be*)
(* configured, any other is passed over when it cannot be.                 *)
Resolve(id) ==
    /\ Building("resolve") /\ id \in build.pending
    /\ \/ /\ Configurable(build.entries[id]) /\ UNCHANGED current
          /\ build' = [build EXCEPT !.pending = @ \ {id},
                                    !.adapters = Over(One(id, Adapter(build.entries[id])), @)]
       \/ /\ ~Configurable(build.entries[id]) /\ id # build.selected /\ UNCHANGED current
          /\ build' = [build EXCEPT !.pending = @ \ {id}]
       \/ ~Configurable(build.entries[id]) /\ id = build.selected /\ Fail
    /\ UNCHANGED External

Swap ==
    /\ Building("resolve") /\ build.pending = {}
    /\ current' = [adapters |-> build.adapters, selected |-> build.selected,
                   session |-> build.session, source |-> build.source,
                   withdrawn |-> build.withdrawn]
    /\ build' = Idle
    /\ UNCHANGED External

Kill ==
    /\ current # None
    /\ current' = None /\ build' = Idle /\ request' = Idle
    /\ UNCHANGED <<files, secrets, edits>>

-----------------------------------------------------------------------------
(* WrapProtectedEndpoint: a request arrives and is given the settings of   *)
(* the snapshot served then, and the bearer is looked up afterwards.       *)
Arrive ==
    /\ current # None /\ request = Idle
    /\ LET session == current.session
       IN  \E token \in {NoToken} \cup 1..Len(minted) :
            request' = [pc |-> "arrived", token |-> token, session |-> session,
                        held |-> IF session = None \/ keyring[session.ref] = None THEN NoToken
                                 ELSE keyring[session.ref].token]
    /\ UNCHANGED <<files, secrets, build, current, edits>>

(* The bearer is looked up without a binding.                              *)
ExpectedUnbound ==
    /\ keyring[request.session.ref] # None
    /\ request.token = keyring[request.session.ref].token

(* The lookup and the comparison.                                          *)
Expected ==
    /\ Resolvable(request.session)
    /\ request.token = keyring[request.session.ref].token

Admit ==
    /\ request.pc = "arrived" /\ (request.session # None => Expected)
    /\ request' = [request EXCEPT !.pc = "admitted"]
    /\ UNCHANGED <<files, secrets, build, current, edits>>

(* 401, for no bearer or another one, and 500 when there is none to expect.*)
Refuse ==
    /\ request.pc = "arrived" /\ request.session # None
    /\ request.token = NoToken \/ (Resolvable(request.session) /\ ~Expected)
    /\ request' = Idle
    /\ UNCHANGED <<files, secrets, build, current, edits>>

Misconfigured ==
    /\ request.pc = "arrived" /\ request.session # None
    /\ request.token # NoToken /\ ~Resolvable(request.session)
    /\ request' = Idle
    /\ UNCHANGED <<files, secrets, build, current, edits>>

(* The admitted request asks for a refresh, or for something else.         *)
Refresh ==
    /\ request.pc = "admitted" /\ Building("idle")
    /\ request' = Idle /\ Begin
    /\ UNCHANGED <<files, secrets, current, edits>>

Answer ==
    /\ request.pc = "admitted" /\ request' = Idle
    /\ UNCHANGED <<files, secrets, build, current, edits>>

Command ==
    \/ \E id \in Ids :
        \/ Remove(id) \/ Use(id) \/ Login(id) \/ Logout(id)
        \/ \E offer \in Offers : Add(id, offer) \/ Change(id, offer)
    \/ \E flags \in Controls : SignIn(flags)
    \/ SignOut \/ Provision \/ SetAuth \/ Checkout \/ Trust \/ Distrust

Daemon ==
    \/ Start \/ LoadConfig \/ LoadProject \/ LoadSystem \/ CheckBearer \/ LoadModules
    \/ Swap \/ Kill
    \/ Arrive \/ Admit \/ Refuse \/ Misconfigured \/ Refresh \/ Answer
    \/ \E id \in Ids : Resolve(id)

Next == Command \/ Daemon

Spec == Init /\ [][Next]_vars

-----------------------------------------------------------------------------
TypeOK ==
    /\ Registry(config.registry) /\ config.default \in Ids
    /\ config.session \in Sessions \cup {None}
    /\ project \in Projects /\ manifest \in Manifests \cup {Malformed, None}
    /\ DOMAIN trusted \subseteq Manifests
    /\ \A r \in Refs : keyring[r] = None \/ keyring[r].token \in 1..Len(minted)
    /\ build.pc \in {"idle", "config", "project", "system", "bearer", "modules", "resolve"}
    /\ Building("resolve") => build.pending \subseteq DOMAIN build.entries
    /\ current # None => DOMAIN current.adapters \subseteq Ids
    /\ request.pc \in {"idle", "arrived", "admitted"}
    /\ edits \in 0..MaxEdits

(* "Each credential is bound to its endpoint and auth strategy" (README):  *)
(* a provider is served with a secret only where the login that stored it  *)
(* said so, through any change of the entries, removal and addition under  *)
(* the same name, and modules that name a reference of the user's.  An     *)
(* endpoint or strategy that is empty on either side agrees with any.      *)
CredentialsStayBound ==
    current # None =>
        \A id \in DOMAIN current.adapters :
            LET adapter == current.adapters[id]
            IN  adapter.token # NoToken =>
                    /\ Agree(minted[adapter.token].endpoint, adapter.endpoint)
                    /\ Agree(minted[adapter.token].strategy, adapter.strategy)

(* A snapshot holds no secret that was withdrawn or replaced before its    *)
(* build began: once a refresh sent after a logout succeeds, the secret is *)
(* not in use.                                                             *)
WithdrawnCredentialsLeave ==
    current # None =>
        \A id \in DOMAIN current.adapters : current.adapters[id].token \notin current.withdrawn

(* Only manifests that were trusted contribute providers, commands only    *)
(* where the trust said so, however the file changed during the build.     *)
ModulesWereVetted ==
    current # None /\ current.source # <<>> =>
        <<current.source, \E id \in DOMAIN current.source :
                                current.source[id].backend = "stdio">> \in vetted

(* Where inbound authentication is on, a request is let in only with the   *)
(* credential that was at the daemon's own reference when it arrived,      *)
(* stored for the configured strategy or for none: not without one, not    *)
(* with a provider's, not with one that was replaced or taken away before, *)
(* and without waiting for a refresh.                                      *)
AdmittedBearersAreCurrent ==
    request.pc = "admitted" /\ request.session # None =>
        /\ request.token # NoToken /\ request.token = request.held
        /\ Agree(minted[request.token].strategy, request.session.strategy)
=============================================================================
