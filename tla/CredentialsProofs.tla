------------------------- MODULE CredentialsProofs --------------------------
(***************************************************************************)
(* Proofs about Credentials, for any providers, references, entries,       *)
(* manifests and projects, and any number of commands and edits.           *)
(*                                                                         *)
(* The inductive invariant IInv conjoins                                   *)
(*   Files     the registry lists known entries; what is trusted was vetted*)
(*   Keys      what a reference holds is the login its token numbers       *)
(*   Builds    a build goes on with what it read: the tokens withdrawn when*)
(*             it began are withdrawn, its trust was given, and the        *)
(*             adapters it has hold none of those tokens and are bound     *)
(*   Serves    the same of the snapshot that is served                     *)
(*   Requests  a request's token is at the daemon's reference only if it   *)
(*             was there when the request arrived                          *)
(* They are kept because of Grows: tokens keep what they were stored for   *)
(* and, once withdrawn, stay so, as every login makes a new one.           *)
(***************************************************************************)
EXTENDS Credentials, SequenceTheorems, TLAPS

Entries ==
    Offers \cup {DefaultRegistry[id] : id \in DOMAIN DefaultRegistry}
           \cup UNION {{m[id] : id \in DOMAIN m} : m \in Manifests}

Endpoints == {e.endpoint : e \in Entries \cup Controls} \cup {None}
Strategies == {e.strategy : e \in Entries \cup Controls \cup Sessions} \cup {None}
Credential == [endpoint : Endpoints, strategy : Strategies, token : Nat]

(* Settings of the control plane.                                          *)
Control(c) == c.endpoint \in Endpoints /\ c.strategy \in Strategies /\ c.ref \in Refs \cup {None}

(* A registry or a module's adapters: all of their entries are known ones. *)
Listing(map) == DOMAIN map \subseteq Ids /\ \A id \in DOMAIN map : map[id] \in Entries

Vetting(trust) ==
    /\ DOMAIN trust \subseteq Manifests
    /\ \A m \in DOMAIN trust : /\ trust[m] \in BOOLEAN
                               /\ <<m, FALSE>> \in vetted /\ <<m, trust[m]>> \in vetted

Files ==
    /\ config = [registry |-> config.registry, default |-> config.default,
                 session |-> config.session, control |-> config.control]
    /\ Listing(config.registry) /\ config.default \in Ids
    /\ config.session \in Sessions \cup {None} /\ Control(config.control)
    /\ project \in Projects /\ manifest \in Manifests \cup {Malformed, None}
    /\ Vetting(trusted)
    /\ edits \in 0..MaxEdits

Keys ==
    /\ minted \in Seq(Credential)
    /\ keyring = [r \in Refs |-> keyring[r]]
    /\ \A r \in Refs : keyring[r] # None =>
            /\ keyring[r].token \in 1..Len(minted)
            /\ keyring[r] = minted[keyring[r].token]

(* Tokens that are in the keyring.                                         *)
InUse == {keyring[r].token : r \in {q \in Refs : keyring[q] # None}}

-----------------------------------------------------------------------------
LEMMA EntryRefs ==
    \A e \in Entries : e.ref \in Refs \cup {None} /\ e.backend \in Backends
BY CredentialsAssumption DEF Entries, Registry

LEMMA EntryBindings ==
    /\ \A e \in Entries : e.endpoint \in Endpoints /\ e.strategy \in Strategies
    /\ \A c \in Controls \cup {NoControl} : Control(c)
    /\ \A s \in Sessions : s.ref \in Refs /\ s.strategy \in Strategies
    /\ None \in Endpoints /\ None \in Strategies
<1>1. \A e \in Entries : e.endpoint \in Endpoints /\ e.strategy \in Strategies
  BY DEF Endpoints, Strategies
<1>2. \A s \in Sessions : s.ref \in Refs /\ s.strategy \in Strategies
  BY CredentialsAssumption DEF Strategies
<1>3. None \in Endpoints /\ None \in Strategies
  BY DEF Endpoints, Strategies
<1>4. \A c \in Controls : Control(c)
  BY CredentialsAssumption DEF Control, Endpoints, Strategies
<1>5. Control(NoControl)
  BY <1>3 DEF Control, NoControl
<1>6. QED
  BY <1>1, <1>2, <1>3, <1>4, <1>5

LEMMA ListingIs == ASSUME NEW map, Listing(map) PROVE Registry(map)
BY EntryRefs DEF Listing, Registry

LEMMA Listings ==
    /\ Listing(DefaultRegistry) /\ \A m \in Manifests : Listing(m)
    /\ Listing(<<>>) /\ DOMAIN <<>> = {}
<1>1. Listing(DefaultRegistry) /\ \A m \in Manifests : Listing(m)
  BY CredentialsAssumption DEF Entries, Registry, Listing
<1>2. DOMAIN <<>> = {}
  OBVIOUS
<1>3. QED
  BY <1>1, <1>2 DEF Listing

LEMMA OverIs ==
    ASSUME NEW a, NEW b
    PROVE  /\ DOMAIN Over(a, b) = DOMAIN a \cup DOMAIN b
           /\ \A i \in DOMAIN a : Over(a, b)[i] = a[i]
           /\ \A i \in DOMAIN b \ DOMAIN a : Over(a, b)[i] = b[i]
<1>1. DOMAIN Over(a, b) = DOMAIN a \cup DOMAIN b
  BY DEF Over
<1>2. ASSUME NEW i \in DOMAIN a PROVE Over(a, b)[i] = a[i]
  BY DEF Over
<1>3. ASSUME NEW i \in DOMAIN b \ DOMAIN a PROVE Over(a, b)[i] = b[i]
  BY DEF Over
<1>4. QED
  BY <1>1, <1>2, <1>3

LEMMA OneIs == ASSUME NEW i, NEW x PROVE DOMAIN One(i, x) = {i} /\ One(i, x)[i] = x
BY DEF One

LEMMA OverListing ==
    ASSUME NEW a, NEW b, Listing(a), Listing(b) PROVE Listing(Over(a, b))
<1> DEFINE both == Over(a, b)
<1>1. /\ DOMAIN both = DOMAIN a \cup DOMAIN b
      /\ \A i \in DOMAIN a : both[i] = a[i]
      /\ \A i \in DOMAIN b \ DOMAIN a : both[i] = b[i]
  BY OverIs
<1> HIDE DEF both
<1>2. DOMAIN both \subseteq Ids /\ \A i \in DOMAIN both : both[i] \in Entries
  BY <1>1 DEF Listing
<1>3. QED
  BY <1>2 DEF Listing, both

LEMMA OneListing ==
    ASSUME NEW id \in Ids, NEW e \in Entries PROVE Listing(One(id, e))
<1>1. DOMAIN One(id, e) = {id} /\ One(id, e)[id] = e
  BY OneIs
<1>2. QED
  BY <1>1 DEF Listing

-----------------------------------------------------------------------------
(* The keyring: what was withdrawn never comes back.                       *)
Grows ==
    /\ Len(minted) \in Nat /\ Len(minted') \in Nat /\ Len(minted) <= Len(minted')
    /\ \A n \in 1..Len(minted) : minted'[n] = minted[n]
    /\ Withdrawn \subseteq Withdrawn'
    /\ \A r \in Refs : \/ keyring'[r] = None \/ keyring'[r] = keyring[r]
                       \/ keyring'[r].token > Len(minted)

LEMMA WithdrawnIs == Withdrawn = 1..Len(minted) \ InUse
BY DEF Withdrawn, InUse

LEMMA SaveStores ==
    ASSUME Keys, NEW ref \in Refs, NEW endpoint, NEW strategy,
           endpoint \in Endpoints, strategy \in Strategies,
           Save(ref, endpoint, strategy)
    PROVE  Keys' /\ Grows
<1> DEFINE n == Len(minted) + 1
           c == [endpoint |-> endpoint, strategy |-> strategy, token |-> n]
<1>1. minted \in Seq(Credential) /\ Len(minted) \in Nat /\ c \in Credential /\ c.token = n
  BY DEF Keys, Credential
<1>2. minted' = Append(minted, c) /\ keyring' = [keyring EXCEPT ![ref] = c]
  BY DEF Save
<1> HIDE DEF c
<1>3. /\ minted' \in Seq(Credential) /\ Len(minted') = n /\ minted'[n] = c
      /\ \A i \in 1..Len(minted) : minted'[i] = minted[i]
  BY <1>1, <1>2
<1>4. keyring' = [r \in Refs |-> IF r = ref THEN c ELSE keyring[r]]
  BY <1>2 DEF Keys
<1>5. keyring' = [r \in Refs |-> keyring'[r]]
  BY <1>4
<1>6. ASSUME NEW r \in Refs, keyring'[r] # None
      PROVE  keyring'[r].token \in 1..Len(minted') /\ keyring'[r] = minted'[keyring'[r].token]
  <2>1. CASE r = ref
    BY <1>1, <1>3, <1>4, <2>1
  <2>2. CASE r # ref
    <3>1. keyring'[r] = keyring[r]
      BY <1>4, <2>2
    <3>2. keyring[r].token \in 1..Len(minted) /\ keyring[r] = minted[keyring[r].token]
      BY <1>6, <3>1 DEF Keys
    <3>3. QED
      BY <1>1, <1>3, <3>1, <3>2
  <2>3. QED
    BY <2>1, <2>2
<1>7. Keys'
  BY <1>3, <1>5, <1>6 DEF Keys
<1>8. InUse' \subseteq InUse \cup {n}
  BY <1>1, <1>4 DEF InUse
<1>9. Withdrawn \subseteq Withdrawn'
  <2>1. 1..Len(minted) \subseteq 1..Len(minted') /\ n \notin 1..Len(minted)
    BY <1>1, <1>3
  <2>2. Withdrawn' = 1..Len(minted') \ InUse'
    BY DEF Withdrawn, InUse
  <2>3. QED
    BY <1>8, <2>1, <2>2, WithdrawnIs
<1>10. \A r \in Refs : keyring'[r] = keyring[r] \/ keyring'[r].token > Len(minted)
  BY <1>1, <1>4
<1>11. QED
  BY <1>1, <1>3, <1>7, <1>9, <1>10 DEF Grows

LEMMA ClearingClears ==
    ASSUME Keys, NEW ref \in Refs, keyring' = [keyring EXCEPT ![ref] = None], minted' = minted
    PROVE  Keys' /\ Grows
<1>1. keyring' = [r \in Refs |-> IF r = ref THEN None ELSE keyring[r]]
  BY DEF Keys
<1>2. \A r \in Refs : keyring'[r] # None => keyring'[r] = keyring[r]
  BY <1>1
<1>3. InUse' \subseteq InUse
  BY <1>2 DEF InUse
<1>4. Withdrawn' = 1..Len(minted') \ InUse'
  BY DEF Withdrawn, InUse
<1>5. Withdrawn \subseteq Withdrawn'
  BY <1>3, <1>4, WithdrawnIs
<1>6. keyring' = [r \in Refs |-> keyring'[r]]
  BY <1>1
<1>7. Keys'
  BY <1>2, <1>6 DEF Keys
<1>8. \A r \in Refs : keyring'[r] = None \/ keyring'[r] = keyring[r]
  BY <1>1
<1>9. QED
  BY <1>5, <1>7, <1>8 DEF Grows, Keys

LEMMA SameSecrets == ASSUME Keys, UNCHANGED secrets PROVE Keys' /\ Grows
<1>1. keyring' = keyring /\ minted' = minted
  BY DEF secrets
<1>2. Keys'
  BY <1>1 DEF Keys
<1>3. Withdrawn' = Withdrawn
  BY <1>1 DEF Withdrawn
<1>4. Len(minted) \in Nat
  BY DEF Keys
<1>5. QED
  BY <1>1, <1>2, <1>3, <1>4 DEF Grows

LEMMA SignInSaves ==
    ASSUME Files, NEW flags \in Controls, SignIn(flags)
    PROVE  \E c \in [endpoint : Endpoints, strategy : Strategies, ref : Refs] :
             /\ Save(c.ref, c.endpoint, c.strategy)
             /\ config' \in {config, [config EXCEPT !.control = c]}
<1> DEFINE control == config.control
           endpoint == IF flags.endpoint # None THEN flags.endpoint ELSE control.endpoint
           strategy == IF flags.strategy # None THEN flags.strategy ELSE control.strategy
           ref == IF control.ref # None THEN control.ref ELSE ControlRef
           c == [endpoint |-> endpoint, strategy |-> strategy, ref |-> ref]
<1>1. Control(control) /\ Control(flags)
  BY EntryBindings DEF Files
<1>2. endpoint \in Endpoints /\ strategy \in Strategies /\ ref \in Refs
  BY <1>1, CredentialsAssumption DEF Control
<1>3. Save(ref, endpoint, strategy) /\ config' \in {config, [config EXCEPT !.control = c]}
  BY DEF SignIn
<1> HIDE DEF endpoint, strategy, ref
<1>4. /\ c \in [endpoint : Endpoints, strategy : Strategies, ref : Refs]
      /\ c.endpoint = endpoint /\ c.strategy = strategy /\ c.ref = ref
  BY <1>2
<1>5. QED
  BY <1>3, <1>4

LEMMA KeysStay ==
    ASSUME Files, Keys, Next PROVE Keys' /\ Grows
<1>1. ASSUME NEW id \in Ids, Login(id) PROVE Keys' /\ Grows
  <2> DEFINE entry == config.registry[id]
  <2>1. entry \in Entries /\ entry.ref # None /\ Save(entry.ref, entry.endpoint, entry.strategy)
    BY <1>1 DEF Login, Files, Listing
  <2>2. entry.ref \in Refs /\ entry.endpoint \in Endpoints /\ entry.strategy \in Strategies
    BY <2>1, EntryRefs, EntryBindings
  <2>3. QED
    BY <2>1, <2>2, SaveStores
<1>2. ASSUME NEW id \in Ids, Logout(id) PROVE Keys' /\ Grows
  <2>1. config.registry[id] \in Entries /\ config.registry[id].ref # None
    BY <1>2 DEF Logout, Files, Listing
  <2>2. config.registry[id].ref \in Refs
    BY <2>1, EntryRefs
  <2>3. QED
    BY <1>2, <2>2, ClearingClears DEF Logout
<1>3. ASSUME NEW flags \in Controls, SignIn(flags) PROVE Keys' /\ Grows
  <2>1. PICK c \in [endpoint : Endpoints, strategy : Strategies, ref : Refs] :
            Save(c.ref, c.endpoint, c.strategy)
    BY <1>3, SignInSaves
  <2>2. QED
    BY <2>1, SaveStores
<1>4. CASE SignOut \/ Provision
  <2>1. CASE SignOut
    <3>1. config.control.ref \in Refs
      BY <2>1 DEF SignOut, Files, Control
    <3>2. QED
      BY <2>1, <3>1, ClearingClears DEF SignOut
  <2>2. CASE Provision
    <3>1. PICK session \in Sessions :
              \/ \E strategy \in {None} \cup {s.strategy : s \in Sessions} :
                     Save(session.ref, None, strategy)
              \/ keyring' = [keyring EXCEPT ![session.ref] = None] /\ minted' = minted
      BY <2>2 DEF Provision
    <3>2. session.ref \in Refs
      BY EntryBindings
    <3>3. ASSUME NEW strategy \in {None} \cup {s.strategy : s \in Sessions},
                 Save(session.ref, None, strategy)
          PROVE  Keys' /\ Grows
      <4>1. strategy \in Strategies /\ None \in Endpoints
        BY EntryBindings
      <4>2. QED
        BY <3>2, <3>3, <4>1, SaveStores
    <3>4. QED
      BY <3>1, <3>2, <3>3, ClearingClears
  <2>3. QED
    BY <1>4, <2>1, <2>2
<1>5. CASE Daemon
  <2>1. UNCHANGED secrets
    BY <1>5 DEF Daemon, Start, LoadConfig, LoadProject, LoadSystem, CheckBearer, LoadModules, Swap,
       Kill, Arrive, Admit, Refuse, Misconfigured, Refresh, Answer, Resolve, External
  <2>2. QED
    BY <2>1, SameSecrets
<1>6. ASSUME NEW id \in Ids, \/ Remove(id) \/ Use(id)
                             \/ \E offer \in Offers : Add(id, offer) \/ Change(id, offer)
      PROVE  Keys' /\ Grows
  BY <1>6, SameSecrets DEF Remove, Use, Add, Change
<1>7. CASE SetAuth \/ Checkout \/ Trust \/ Distrust
  BY <1>7, SameSecrets DEF SetAuth, Checkout, Trust, Distrust
<1>8. QED
  BY <1>1, <1>2, <1>3, <1>4, <1>5, <1>6, <1>7 DEF Next, Command

-----------------------------------------------------------------------------
(* Files.                                                                  *)
LEMMA VettingIs ==
    ASSUME NEW trust, Vetting(trust), vetted \subseteq vetted'
    PROVE  Vetting(trust)'
BY DEF Vetting

LEMMA ConfigIs ==
    ASSUME Files, NEW registry, NEW default, NEW session, NEW control,
           config' = [registry |-> registry, default |-> default, session |-> session,
                      control |-> control],
           Listing(registry), default \in Ids, session \in Sessions \cup {None}, Control(control),
           UNCHANGED <<project, manifest, trusted, vetted>>, edits' \in 0..MaxEdits
    PROVE  Files'
<1>1. /\ config'.registry = registry /\ config'.default = default /\ config'.session = session
      /\ config'.control = control
  OBVIOUS
<1>2. Vetting(trusted)'
  BY DEF Files, Vetting
<1>3. Control(config.control)'
  BY <1>1 DEF Control, Endpoints, Strategies, Entries
<1>4. QED
  BY <1>1, <1>2, <1>3 DEF Files

LEMMA FilesStand ==
    ASSUME Files, UNCHANGED files, edits' \in 0..MaxEdits PROVE Files'
<1>1. UNCHANGED <<config, project, manifest, trusted, vetted>>
  BY DEF files
<1>2. Vetting(trusted)'
  BY <1>1 DEF Files, Vetting
<1>3. Control(config.control)'
  BY <1>1 DEF Files, Control
<1>4. QED
  BY <1>1, <1>2, <1>3 DEF Files

LEMMA FilesStay == ASSUME Files, Next PROVE Files' /\ vetted \subseteq vetted'
<1> DEFINE Other == UNCHANGED <<project, manifest, trusted, vetted>>
<1>1. ASSUME Edit PROVE edits' \in 0..MaxEdits
  BY <1>1, CredentialsAssumption DEF Edit, Files
<1>2. ASSUME NEW id \in Ids, NEW offer \in Offers, Add(id, offer) PROVE Files'
  <2>1. Listing(Over(One(id, offer), config.registry))
    <3>1. offer \in Entries
      BY DEF Entries
    <3>2. QED
      BY <3>1, OneListing, OverListing DEF Files
  <2>2. config' = [registry |-> Over(One(id, offer), config.registry),
                   default |-> config.default, session |-> config.session,
                   control |-> config.control]
    BY <1>2 DEF Add, Files
  <2>3. QED
    BY <1>1, <1>2, <2>1, <2>2, ConfigIs DEF Add, Files
<1>3. ASSUME NEW id \in Ids, Remove(id) PROVE Files'
  <2> DEFINE left == [i \in DOMAIN config.registry \ {id} |-> config.registry[i]]
             registry == IF left = <<>> THEN DefaultRegistry ELSE left
             default == IF config.default = id THEN DefaultId ELSE config.default
  <2>1. Listing(left)
    BY DEF Files, Listing
  <2>2. Listing(registry) /\ default \in Ids
    BY <2>1, Listings, CredentialsAssumption DEF Files, Listing
  <2>3. config' = [registry |-> registry, default |-> default, session |-> config.session,
                   control |-> config.control]
    BY <1>3 DEF Remove, Files
  <2> HIDE DEF registry, default
  <2>4. QED
    BY <1>1, <1>3, <2>2, <2>3, ConfigIs DEF Remove, Files
<1>4. ASSUME NEW id \in Ids, Use(id) PROVE Files'
  <2>1. config' = [registry |-> config.registry, default |-> id, session |-> config.session,
                   control |-> config.control]
    BY <1>4 DEF Use, Files
  <2>2. QED
    BY <1>1, <1>4, <2>1, ConfigIs DEF Use, Files
<1>5. ASSUME NEW id \in Ids, NEW offer \in Offers, Change(id, offer) PROVE Files'
  <2>1. Listing([config.registry EXCEPT ![id] = offer])
    BY <1>5 DEF Change, Files, Listing, Entries
  <2>2. config' = [registry |-> [config.registry EXCEPT ![id] = offer],
                   default |-> config.default, session |-> config.session,
                   control |-> config.control]
    BY <1>5 DEF Change, Files
  <2>3. QED
    BY <1>1, <1>5, <2>1, <2>2, ConfigIs DEF Change, Files
<1>6. CASE SetAuth
  <2>1. CASE \E x \in Sessions \cup {None} : config' = [config EXCEPT !.session = x]
    <3>1. PICK x \in Sessions \cup {None} : config' = [config EXCEPT !.session = x]
      BY <2>1
    <3>2. config' = [registry |-> config.registry, default |-> config.default, session |-> x,
                     control |-> config.control]
      BY <3>1 DEF Files
    <3>3. QED
      BY <1>1, <1>6, <3>2, ConfigIs DEF SetAuth, Files
  <2>2. CASE \E c \in Controls : config' = [config EXCEPT !.control = c]
    <3>1. PICK c \in Controls : config' = [config EXCEPT !.control = c]
      BY <2>2
    <3>2. config' = [registry |-> config.registry, default |-> config.default,
                     session |-> config.session, control |-> c]
      BY <3>1 DEF Files
    <3>3. Control(c)
      BY EntryBindings
    <3>4. QED
      BY <1>1, <1>6, <3>2, <3>3, ConfigIs DEF SetAuth, Files
  <2>3. QED
    BY <1>6, <2>1, <2>2 DEF SetAuth
<1>7. ASSUME NEW id, Login(id) \/ Logout(id) \/ SignOut \/ Provision PROVE Files' /\ UNCHANGED files
  <2>1. UNCHANGED files /\ edits' \in 0..MaxEdits
    BY <1>1, <1>7 DEF Login, Logout, SignOut, Provision
  <2>2. Files'
    BY <2>1, FilesStand
  <2>3. QED
    BY <2>1, <2>2
<1>8. CASE Checkout
  <2>1. Vetting(trusted)' /\ edits' \in 0..MaxEdits
    BY <1>1, <1>8 DEF Checkout, Files, Vetting
  <2>2. Control(config.control)'
    BY <1>8 DEF Checkout, Files, Control
  <2>3. QED
    BY <1>8, <2>1, <2>2 DEF Checkout, Files
<1>9. CASE Trust
  <2>1. PICK stdio \in BOOLEAN :
            /\ trusted' = Over(One(manifest, stdio), trusted)
            /\ vetted' = vetted \cup {<<manifest, FALSE>>, <<manifest, stdio>>}
    BY <1>9 DEF Trust
  <2> DEFINE one == One(manifest, stdio)
             new == Over(one, trusted)
  <2>2. DOMAIN one = {manifest} /\ one[manifest] = stdio
    BY OneIs
  <2>3. trusted' = new
    BY <2>1
  <2> HIDE DEF one
  <2>4. /\ DOMAIN new = {manifest} \cup DOMAIN trusted
        /\ new[manifest] = stdio
        /\ \A m \in DOMAIN trusted \ {manifest} : new[m] = trusted[m]
    <3>1. /\ DOMAIN new = DOMAIN one \cup DOMAIN trusted
          /\ \A m \in DOMAIN one : new[m] = one[m]
          /\ \A m \in DOMAIN trusted \ DOMAIN one : new[m] = trusted[m]
      BY OverIs
    <3> HIDE DEF new
    <3>2. QED
      BY <2>2, <3>1
  <2> HIDE DEF new
  <2>5. Vetting(trusted)'
    BY <1>9, <2>1, <2>3, <2>4 DEF Trust, Files, Vetting
  <2>6. vetted \subseteq vetted' /\ UNCHANGED <<config, project, manifest>> /\ edits' \in 0..MaxEdits
    BY <1>1, <1>9, <2>1 DEF Trust
  <2>7. Control(config.control)'
    BY <2>6 DEF Files, Control
  <2>8. QED
    BY <2>5, <2>6, <2>7 DEF Files
<1>10. CASE Distrust
  <2>1. Vetting(trusted)'
    BY <1>10 DEF Distrust, Files, Vetting
  <2>2. Control(config.control)'
    BY <1>10 DEF Distrust, Files, Control
  <2>3. QED
    BY <1>1, <1>10, <2>1, <2>2 DEF Distrust, Files
<1>11. CASE Daemon
  <2>1. UNCHANGED files /\ edits' = edits
    BY <1>11 DEF Daemon, Start, LoadConfig, LoadProject, LoadSystem, CheckBearer, LoadModules, Swap,
       Kill, Arrive, Admit, Refuse, Misconfigured, Refresh, Answer, Resolve, External
  <2>2. edits' \in 0..MaxEdits
    BY <2>1 DEF Files
  <2>3. Files' /\ vetted' = vetted
    BY <2>1, <2>2, FilesStand DEF files
  <2>4. QED
    BY <2>3
<1>12. vetted \subseteq vetted'
  <2>1. CASE Trust
    BY <2>1 DEF Trust
  <2>2. CASE ~Trust
    BY <2>2 DEF Next, Command, Daemon, Start, LoadConfig, LoadProject, LoadSystem, CheckBearer,
       LoadModules, Swap, Kill, Arrive, Admit, Refuse, Misconfigured, Refresh, Answer, Resolve,
       External, files, Add, Remove, Use, Change, Login, Logout, SignIn, SignOut, Provision,
       SetAuth, Checkout, Distrust
  <2>3. QED
    BY <2>1, <2>2
<1>13. ASSUME NEW flags \in Controls, SignIn(flags) PROVE Files'
  <2>1. PICK c \in [endpoint : Endpoints, strategy : Strategies, ref : Refs] :
            config' \in {config, [config EXCEPT !.control = c]}
    BY <1>13, SignInSaves
  <2>2. UNCHANGED <<project, manifest, trusted, vetted>> /\ edits' \in 0..MaxEdits
    BY <1>1, <1>13 DEF SignIn
  <2>3. CASE config' = config
    BY <2>2, <2>3, FilesStand DEF files
  <2>4. CASE config' = [config EXCEPT !.control = c]
    <3>1. config' = [registry |-> config.registry, default |-> config.default,
                     session |-> config.session, control |-> c]
      BY <2>4 DEF Files
    <3>2. Control(c)
      BY DEF Control
    <3>3. QED
      BY <2>2, <3>1, <3>2, ConfigIs DEF Files
  <2>5. QED
    BY <2>1, <2>3, <2>4
<1>14. QED
  BY <1>2, <1>3, <1>4, <1>5, <1>6, <1>7, <1>8, <1>9, <1>10, <1>11, <1>12, <1>13
  DEF Next, Command

-----------------------------------------------------------------------------
(* Snapshots.  What a provider is served with was stored for it.           *)
Sound(adapters) ==
    /\ DOMAIN adapters \subseteq Ids
    /\ \A id \in DOMAIN adapters :
        /\ adapters[id].token \in 0..Len(minted)
        /\ adapters[id].token # NoToken => Bound(minted[adapters[id].token], adapters[id])

Clean(adapters, withdrawn) ==
    /\ NoToken \notin withdrawn
    /\ \A id \in DOMAIN adapters : adapters[id].token \notin withdrawn

Sourced(source) ==
    source # <<>> =>
        <<source, \E id \in DOMAIN source : source[id].backend = "stdio">> \in vetted

Resolving ==
    /\ build = [pc |-> "resolve", withdrawn |-> build.withdrawn, session |-> build.session,
                selected |-> build.selected, entries |-> build.entries,
                pending |-> build.pending, adapters |-> build.adapters,
                source |-> build.source]
    /\ Listing(build.entries) /\ build.pending \subseteq DOMAIN build.entries
    /\ build.session \in Sessions \cup {None}
    /\ Sound(build.adapters) /\ Clean(build.adapters, build.withdrawn)
    /\ Sourced(build.source)

Builds ==
    /\ build.pc \in {"idle", "config", "project", "system", "bearer", "modules", "resolve"}
    /\ build.pc # "idle" => build.withdrawn \subseteq Withdrawn
    /\ build.pc \in {"project", "system", "bearer", "modules"} =>
            Listing(build.config.registry) /\ build.config.session \in Sessions \cup {None}
    /\ build.pc \in {"bearer", "modules"} =>
            /\ Vetting(build.trusted)
            /\ build = [pc |-> build.pc, withdrawn |-> build.withdrawn, config |-> build.config,
                        trusted |-> build.trusted, selected |-> build.selected,
                        enabled |-> build.enabled, allowed |-> build.allowed]
    /\ build.pc = "resolve" => Resolving

Serves ==
    current # None =>
        /\ Sound(current.adapters) /\ Clean(current.adapters, current.withdrawn)
        /\ Sourced(current.source)
        /\ current.session \in Sessions \cup {None}

Requests ==
    \/ request = Idle
    \/ /\ request = [pc |-> request.pc, token |-> request.token, session |-> request.session,
                     held |-> request.held]
       /\ request.pc \in {"arrived", "admitted"}
       /\ request.session \in Sessions \cup {None}
       /\ request.token \in 0..Len(minted)
       /\ request.session # None /\ keyring[request.session.ref] # None
            /\ keyring[request.session.ref].token = request.token
          => request.held = request.token
       /\ request.pc = "admitted" /\ request.session # None =>
            /\ request.token # NoToken /\ request.token = request.held
            /\ Agree(minted[request.token].strategy, request.session.strategy)

(* Tokens keep what they were stored for, and what was vetted stays so.    *)
LEMMA SoundStays ==
    ASSUME NEW adapters, Sound(adapters), Grows PROVE Sound(adapters)'
<1>1. SUFFICES ASSUME NEW id \in DOMAIN adapters
               PROVE  /\ adapters[id].token \in 0..Len(minted')
                      /\ adapters[id].token # NoToken =>
                            Bound(minted'[adapters[id].token], adapters[id])
  BY DEF Sound
<1>2. /\ adapters[id].token \in 0..Len(minted)
      /\ adapters[id].token # NoToken => Bound(minted[adapters[id].token], adapters[id])
  BY DEF Sound
<1>3. adapters[id].token # NoToken => minted'[adapters[id].token] = minted[adapters[id].token]
  BY <1>2 DEF Grows, NoToken
<1>4. adapters[id].token \in 0..Len(minted')
  BY <1>2 DEF Grows
<1>5. QED
  BY <1>2, <1>3, <1>4

LEMMA SourcedStays ==
    ASSUME NEW source, Sourced(source), vetted \subseteq vetted' PROVE Sourced(source)'
BY DEF Sourced

LEMMA WithdrawnNumbers == ASSUME Keys PROVE NoToken \notin Withdrawn /\ NoToken = 0
BY DEF Withdrawn, NoToken, Keys

(* The secret an entry is configured with is in the keyring, bound to it.  *)
LEMMA AdapterIs ==
    ASSUME Keys, NEW entry \in Entries, Configurable(entry)
    PROVE  LET adapter == Adapter(entry)
           IN  /\ adapter.token \in 0..Len(minted)
               /\ adapter.token # NoToken => Bound(minted[adapter.token], adapter)
               /\ adapter.token \notin Withdrawn
<1> DEFINE adapter == Adapter(entry)
<1>1. /\ adapter.endpoint = entry.endpoint /\ adapter.strategy = entry.strategy
      /\ adapter.token = IF NeedsSecret(entry) THEN Held(entry).token ELSE NoToken
  BY DEF Adapter
<1>2. Len(minted) \in Nat
  BY DEF Keys
<1> HIDE DEF adapter
<1>3. CASE NeedsSecret(entry)
  <2>1. Held(entry) # None /\ Bound(Held(entry), entry)
    BY <1>3 DEF Configurable
  <2>2. entry.ref \in Refs /\ Held(entry) = keyring[entry.ref] /\ keyring[entry.ref] # None
    BY <2>1, EntryRefs DEF Held
  <2>3. /\ keyring[entry.ref].token \in 1..Len(minted)
        /\ keyring[entry.ref] = minted[keyring[entry.ref].token]
    BY <2>2 DEF Keys
  <2>4. keyring[entry.ref].token \in InUse
    BY <2>2 DEF InUse
  <2>5. adapter.token = keyring[entry.ref].token
    BY <1>1, <1>3, <2>2
  <2>6. Bound(minted[adapter.token], adapter)
    BY <1>1, <2>1, <2>2, <2>3, <2>5 DEF Bound
  <2>7. adapter.token \in 0..Len(minted) /\ adapter.token \notin Withdrawn
    BY <1>2, <2>3, <2>4, <2>5, WithdrawnIs
  <2>8. QED
    BY <2>6, <2>7 DEF adapter
<1>4. CASE ~NeedsSecret(entry)
  <2>1. adapter.token = 0
    BY <1>1, <1>4 DEF NoToken
  <2>2. QED
    BY <1>2, <2>1, WithdrawnNumbers DEF adapter
<1>5. QED
  BY <1>3, <1>4

(* A build that makes no step, and a snapshot that is not exchanged.       *)
LEMMA BuildsStand ==
    ASSUME Builds, Grows, vetted \subseteq vetted', build' = build PROVE Builds'
<1>1. build.pc # "idle" => build.withdrawn \subseteq Withdrawn'
  BY DEF Builds, Grows
<1>2. build.pc \in {"bearer", "modules"} => Vetting(build.trusted)'
  BY DEF Builds, Vetting
<1>3. build.pc = "resolve" => Sound(build.adapters)' /\ Sourced(build.source)'
  BY SoundStays, SourcedStays DEF Builds, Resolving
<1>4. build.pc = "resolve" => Resolving'
  BY <1>3 DEF Builds, Resolving, Clean
<1>5. QED
  BY <1>1, <1>2, <1>4 DEF Builds

LEMMA ServesStand ==
    ASSUME Serves, Grows, vetted \subseteq vetted', current' = current PROVE Serves'
<1>1. current # None => Sound(current.adapters)' /\ Sourced(current.source)'
  BY SoundStays, SourcedStays DEF Serves
<1>2. QED
  BY <1>1 DEF Serves, Clean

LEMMA IdleBuilds == ASSUME build' = Idle PROVE Builds'
BY DEF Builds, Idle, Building

LEMMA BeginBuilds == ASSUME Keys, Grows, Begin PROVE Builds'
<1>1. build'.pc = "config" /\ build'.withdrawn = Withdrawn
  BY DEF Begin
<1>2. QED
  BY <1>1 DEF Builds, Grows

LEMMA ReadingBuilds ==
    ASSUME Files, Keys, Builds, LoadConfig \/ LoadProject \/ LoadSystem \/ CheckBearer
    PROVE  Builds'
<1>1. UNCHANGED <<files, secrets>>
  BY DEF LoadConfig, LoadProject, LoadSystem, CheckBearer, External
<1>2. Withdrawn' = Withdrawn /\ vetted' = vetted
  BY <1>1 DEF files, secrets, Withdrawn
<1>3. CASE build' = Idle
  BY <1>3, IdleBuilds
<1>4. CASE LoadConfig /\ build' # Idle
  <2>1. /\ build.pc = "config"
        /\ build' = [pc |-> "project", withdrawn |-> build.withdrawn, config |-> config]
    BY <1>4 DEF LoadConfig, Building, Fail
  <2>2. build'.pc = "project" /\ build'.withdrawn = build.withdrawn /\ build'.config = config
    BY <2>1
  <2>3. QED
    BY <1>2, <2>1, <2>2 DEF Builds, Files
<1>5. CASE LoadProject
  <2>1. /\ build.pc = "project" /\ build'.pc = "system"
        /\ build'.withdrawn = build.withdrawn /\ build'.config = build.config
    BY <1>5 DEF LoadProject, Building
  <2>2. QED
    BY <1>2, <2>1 DEF Builds
<1>6. CASE LoadSystem
  <2>1. PICK pc \in {"bearer", "modules"} :
            build' = [pc |-> pc, withdrawn |-> build.withdrawn, config |-> build.config,
                      trusted |-> trusted, selected |-> build.selected,
                      enabled |-> build.enabled, allowed |-> build.allowed]
    BY <1>6 DEF LoadSystem
  <2>2. build.pc = "system"
    BY <1>6 DEF LoadSystem, Building
  <2>3. /\ build'.pc = pc /\ build'.withdrawn = build.withdrawn
        /\ build'.config = build.config /\ build'.trusted = trusted
        /\ build' = [pc |-> build'.pc, withdrawn |-> build'.withdrawn, config |-> build'.config,
                     trusted |-> build'.trusted, selected |-> build'.selected,
                     enabled |-> build'.enabled, allowed |-> build'.allowed]
    BY <2>1
  <2>4. Vetting(build.trusted)'
    BY <1>2, <2>3 DEF Files, Vetting
  <2>5. QED
    BY <1>2, <2>2, <2>3, <2>4 DEF Builds
<1>7. CASE CheckBearer /\ build' # Idle
  <2>1. build.pc = "bearer" /\ build' = [build EXCEPT !.pc = "modules"]
    BY <1>7 DEF CheckBearer, Building, Fail
  <2>2. build' = [pc |-> "modules", withdrawn |-> build.withdrawn, config |-> build.config,
                  trusted |-> build.trusted, selected |-> build.selected,
                  enabled |-> build.enabled, allowed |-> build.allowed]
    BY <2>1 DEF Builds
  <2>3. /\ build'.pc = "modules" /\ build'.withdrawn = build.withdrawn
        /\ build'.config = build.config /\ build'.trusted = build.trusted
        /\ build' = [pc |-> build'.pc, withdrawn |-> build'.withdrawn, config |-> build'.config,
                     trusted |-> build'.trusted, selected |-> build'.selected,
                     enabled |-> build'.enabled, allowed |-> build'.allowed]
    BY <2>2
  <2>4. Vetting(build.trusted)'
    BY <1>2, <2>1, <2>3 DEF Builds, Vetting
  <2>5. QED
    BY <1>2, <2>1, <2>3, <2>4 DEF Builds
<1>8. QED
  BY <1>3, <1>4, <1>5, <1>6, <1>7

(* A module that was not trusted adds nothing.                             *)
LEMMA AdaptersAre ==
    ASSUME Builds, Building("modules"), Acceptable
    PROVE  Listing(Adapters) /\ Sourced(Adapters)
<1>1. CASE build.enabled
  <2>1. /\ Adapters = manifest /\ manifest \in DOMAIN build.trusted
        /\ build.trusted[manifest] \/ \A id \in DOMAIN manifest : manifest[id].backend # "stdio"
    BY <1>1 DEF Acceptable, Adapters, Trusted
  <2>2. Vetting(build.trusted)
    BY DEF Builds, Building
  <2>3. /\ manifest \in Manifests /\ build.trusted[manifest] \in BOOLEAN
        /\ <<manifest, FALSE>> \in vetted /\ <<manifest, build.trusted[manifest]>> \in vetted
    BY <2>1, <2>2 DEF Vetting
  <2>4. Listing(Adapters)
    BY <2>1, <2>3, Listings
  <2>5. CASE \E id \in DOMAIN manifest : manifest[id].backend = "stdio"
    <3>1. build.trusted[manifest] = TRUE
      BY <2>1, <2>3, <2>5
    <3>2. (\E id \in DOMAIN manifest : manifest[id].backend = "stdio") = TRUE
      BY <2>5
    <3>3. QED
      BY <2>1, <2>3, <2>4, <3>1, <3>2 DEF Sourced
  <2>6. CASE ~ \E id \in DOMAIN manifest : manifest[id].backend = "stdio"
    <3>1. (\E id \in DOMAIN manifest : manifest[id].backend = "stdio") = FALSE
      BY <2>6
    <3>2. QED
      BY <2>1, <2>3, <2>4, <3>1 DEF Sourced
  <2>7. QED
    BY <2>5, <2>6
<1>2. CASE ~build.enabled
  <2>1. Adapters = <<>>
    BY <1>2 DEF Adapters
  <2>2. QED
    BY <2>1, Listings DEF Sourced
<1>3. QED
  BY <1>1, <1>2

LEMMA LoadModulesBuilds ==
    ASSUME Files, Keys, Builds, LoadModules PROVE Builds'
<1> DEFINE entries == Over(Adapters, build.config.registry)
           allowed == IF build.allowed = {} THEN Ids ELSE build.allowed
<1>1. CASE build' = Idle
  BY <1>1, IdleBuilds
<1>2. ASSUME Acceptable,
             build' = [pc |-> "resolve", withdrawn |-> build.withdrawn,
                       session |-> build.config.session, selected |-> build.selected,
                       entries |-> entries, pending |-> DOMAIN entries \cap allowed,
                       adapters |-> <<>>, source |-> Adapters]
      PROVE  Builds'
  <2>1. /\ build.pc = "modules" /\ build.withdrawn \subseteq Withdrawn
        /\ Listing(build.config.registry) /\ build.config.session \in Sessions \cup {None}
    BY DEF LoadModules, Building, Builds
  <2>2. Listing(Adapters) /\ Sourced(Adapters)
    BY <1>2, <2>1, AdaptersAre DEF Building
  <2>3. Listing(entries)
    BY <2>1, <2>2, OverListing
  <2>4. UNCHANGED <<files, secrets>>
    BY DEF LoadModules, External
  <2>5. Withdrawn' = Withdrawn /\ vetted' = vetted
    BY <2>4 DEF secrets, files, Withdrawn
  <2> DEFINE source == Adapters
  <2>6. Listing(entries) /\ Sourced(source)
    BY <2>2, <2>3
  <2> HIDE DEF entries, allowed, source
  <2>7. /\ build'.pc = "resolve" /\ build'.withdrawn = build.withdrawn
        /\ build'.session = build.config.session /\ build'.selected = build.selected
        /\ build'.entries = entries /\ build'.pending = DOMAIN entries \cap allowed
        /\ build'.adapters = <<>> /\ build'.source = source
        /\ build' = [pc |-> "resolve", withdrawn |-> build'.withdrawn, session |-> build'.session,
                     selected |-> build'.selected, entries |-> build'.entries,
                     pending |-> build'.pending, adapters |-> build'.adapters,
                     source |-> build'.source]
    BY <1>2 DEF source
  <2>8. Sourced(build.source)'
    BY <2>5, <2>6, <2>7 DEF Sourced
  <2>9. Sound(build.adapters)' /\ Clean(build.adapters, build.withdrawn)'
    BY <2>1, <2>7, WithdrawnNumbers, Listings DEF Sound, Clean
  <2>10. Resolving'
    BY <2>1, <2>6, <2>7, <2>8, <2>9 DEF Resolving
  <2>11. QED
    BY <2>1, <2>5, <2>7, <2>10 DEF Builds
<1>3. QED
  BY <1>1, <1>2 DEF LoadModules, Fail

LEMMA ResolveBuilds ==
    ASSUME Files, Keys, Builds, NEW id \in Ids, Resolve(id) PROVE Builds'
<1>1. build.pc = "resolve" /\ Resolving /\ build.withdrawn \subseteq Withdrawn
  BY DEF Resolve, Building, Builds
<1>2. UNCHANGED <<files, secrets>>
  BY DEF Resolve, External
<1>3. Withdrawn' = Withdrawn /\ minted' = minted /\ vetted' = vetted
  BY <1>2 DEF secrets, files, Withdrawn
<1>4. CASE build' = Idle
  BY <1>4, IdleBuilds
<1>5. ASSUME NEW adapters, Sound(adapters), Clean(adapters, build.withdrawn),
             build' = [pc |-> "resolve", withdrawn |-> build.withdrawn, session |-> build.session,
                       selected |-> build.selected, entries |-> build.entries,
                       pending |-> build.pending \ {id}, adapters |-> adapters,
                       source |-> build.source]
      PROVE  Builds'
  <2>1. /\ build'.pc = "resolve" /\ build'.withdrawn = build.withdrawn
        /\ build'.session = build.session /\ build'.selected = build.selected
        /\ build'.entries = build.entries /\ build'.pending = build.pending \ {id}
        /\ build'.adapters = adapters /\ build'.source = build.source
    BY <1>5
  <2>2. Sound(build.adapters)' /\ Clean(build.adapters, build.withdrawn)'
    BY <1>3, <1>5, <2>1 DEF Sound, Clean
  <2>3. Sourced(build.source)'
    BY <1>1, <1>3, <2>1 DEF Resolving, Sourced
  <2>4. Resolving'
    BY <1>1, <1>5, <2>1, <2>2, <2>3 DEF Resolving
  <2>5. QED
    BY <1>1, <1>3, <2>1, <2>4 DEF Builds
<1>6. CASE Configurable(build.entries[id])
  <2>1. build' = [build EXCEPT !.pending = @ \ {id},
                               !.adapters = Over(One(id, Adapter(build.entries[id])), @)]
    BY <1>6 DEF Resolve
  <2> DEFINE adapter == Adapter(build.entries[id])
             one == One(id, adapter)
             new == Over(one, build.adapters)
  <2>2. build.entries[id] \in Entries
    BY <1>1 DEF Resolve, Resolving, Listing
  <2>3. /\ adapter.token \in 0..Len(minted) /\ adapter.token \notin Withdrawn
        /\ adapter.token # NoToken => Bound(minted[adapter.token], adapter)
    BY <1>6, <2>2, AdapterIs
  <2>4. build' = [build EXCEPT !.pending = build.pending \ {id}, !.adapters = new]
    BY <2>1
  <2> HIDE DEF adapter
  <2>5. DOMAIN one = {id} /\ one[id] = adapter
    BY OneIs
  <2> HIDE DEF one
  <2>6. /\ DOMAIN new = DOMAIN one \cup DOMAIN build.adapters
        /\ \A i \in DOMAIN one : new[i] = one[i]
        /\ \A i \in DOMAIN build.adapters \ DOMAIN one : new[i] = build.adapters[i]
    BY OverIs
  <2> HIDE DEF new
  <2>7. Sound(new)
    BY <1>1, <2>3, <2>5, <2>6 DEF Sound, Resolving
  <2>8. Clean(new, build.withdrawn)
    BY <1>1, <2>3, <2>5, <2>6 DEF Clean, Resolving
  <2>9. build' = [pc |-> "resolve", withdrawn |-> build.withdrawn, session |-> build.session,
                  selected |-> build.selected, entries |-> build.entries,
                  pending |-> build.pending \ {id}, adapters |-> new, source |-> build.source]
    BY <1>1, <2>4 DEF Resolving
  <2>10. QED
    BY <1>5, <2>7, <2>8, <2>9
<1>7. CASE ~Configurable(build.entries[id]) /\ id # build.selected
  <2>1. build' = [build EXCEPT !.pending = build.pending \ {id}]
    BY <1>7 DEF Resolve
  <2>2. build' = [pc |-> "resolve", withdrawn |-> build.withdrawn, session |-> build.session,
                  selected |-> build.selected, entries |-> build.entries,
                  pending |-> build.pending \ {id}, adapters |-> build.adapters,
                  source |-> build.source]
    BY <1>1, <2>1 DEF Resolving
  <2>3. QED
    BY <1>1, <1>5, <2>2 DEF Resolving
<1>8. QED
  BY <1>4, <1>6, <1>7 DEF Resolve, Fail

LEMMA BuildsStay ==
    ASSUME Files, Keys, Builds, Grows, vetted \subseteq vetted', Next PROVE Builds'
<1>1. CASE Command
  <2>1. build' = build
    BY <1>1 DEF Command, Remove, Use, Login, Logout, Add, Change, SignIn, SignOut, Provision,
       SetAuth, Checkout, Trust, Distrust, Running
  <2>2. QED
    BY <2>1, BuildsStand
<1>2. CASE Start \/ Refresh
  BY <1>2, BeginBuilds DEF Start, Refresh
<1>3. CASE Swap \/ Kill
  BY <1>3, IdleBuilds DEF Swap, Kill
<1>4. CASE Arrive \/ Admit \/ Refuse \/ Misconfigured \/ Answer
  BY <1>4, BuildsStand DEF Arrive, Admit, Refuse, Misconfigured, Answer
<1>5. QED
  BY <1>1, <1>2, <1>3, <1>4, ReadingBuilds, LoadModulesBuilds, ResolveBuilds DEF Next, Daemon

LEMMA ServesStay ==
    ASSUME Builds, Serves, Grows, vetted \subseteq vetted', Next PROVE Serves'
<1>1. CASE current' = current
  BY <1>1, ServesStand
<1>2. CASE Kill
  BY <1>2 DEF Kill, Serves
<1>3. CASE Swap
  <2>1. Resolving /\ UNCHANGED <<files, secrets>>
    BY <1>3 DEF Swap, Building, Builds, External
  <2>2. /\ current'.adapters = build.adapters /\ current'.session = build.session
        /\ current'.source = build.source /\ current'.withdrawn = build.withdrawn
    BY <1>3 DEF Swap
  <2>3. Sound(current.adapters)' /\ Sourced(current.source)'
    BY <2>1, <2>2 DEF Resolving, Sound, Sourced, files, secrets
  <2>4. QED
    BY <2>1, <2>2, <2>3 DEF Resolving, Serves, Clean
<1>4. ASSUME ~Kill, ~Swap PROVE current' = current
  BY <1>4 DEF Next, Command, Daemon, Start, LoadConfig, LoadProject, LoadSystem, CheckBearer,
     LoadModules, Arrive, Admit, Refuse, Misconfigured, Refresh, Answer, Resolve, Fail, External,
     Add, Remove, Use, Change, Login, Logout, SignIn, SignOut, Provision, SetAuth, Checkout, Trust,
     Distrust, Running
<1>5. QED
  BY <1>1, <1>2, <1>3, <1>4

(* A request's token comes to the daemon's reference with no later login.  *)
LEMMA RequestStands ==
    ASSUME Keys, Requests, Grows, request' = request PROVE Requests'
<1>1. CASE request = Idle
  BY <1>1 DEF Requests
<1>2. ASSUME request # Idle PROVE Requests'
  <2> DEFINE ref == request.session.ref
  <2>1. request.token \in 0..Len(minted) /\ request.token \in 0..Len(minted')
    BY <1>2 DEF Requests, Grows
  <2>2. ASSUME request.session # None, keyring'[ref] # None, keyring'[ref].token = request.token
        PROVE  request.held = request.token
    <3>1. ref \in Refs
      BY <1>2, <2>2, EntryBindings DEF Requests
    <3>2. keyring'[ref] = keyring[ref]
      BY <2>1, <2>2, <3>1 DEF Grows
    <3>3. QED
      BY <1>2, <2>2, <3>2 DEF Requests
  <2>3. ASSUME request.pc = "admitted", request.session # None
        PROVE  Agree(minted'[request.token].strategy, request.session.strategy)
    <3>1. request.token \in 1..Len(minted)
      BY <1>2, <2>1, <2>3 DEF Requests, NoToken
    <3>2. minted'[request.token] = minted[request.token]
      BY <3>1 DEF Grows
    <3>3. QED
      BY <1>2, <2>3, <3>2 DEF Requests
  <2>4. QED
    BY <1>2, <2>1, <2>2, <2>3 DEF Requests
<1>3. QED
  BY <1>1, <1>2

LEMMA RequestsStay ==
    ASSUME Keys, Serves, Requests, Grows, Next PROVE Requests'
<1>1. CASE request' = request
  BY <1>1, RequestStands
<1>2. CASE request' = Idle
  BY <1>2 DEF Requests
<1>3. CASE Arrive
  <2> DEFINE session == current.session
             held == IF session = None \/ keyring[session.ref] = None THEN NoToken
                     ELSE keyring[session.ref].token
  <2>1. PICK token \in {NoToken} \cup 1..Len(minted) :
            request' = [pc |-> "arrived", token |-> token, session |-> session, held |-> held]
    BY <1>3 DEF Arrive
  <2>2. session \in Sessions \cup {None} /\ UNCHANGED secrets
    BY <1>3 DEF Arrive, Serves
  <2>3. token \in 0..Len(minted')
    BY <2>1, <2>2 DEF NoToken, secrets, Keys
  <2>4. ASSUME session # None, keyring'[session.ref] # None, keyring'[session.ref].token = token
        PROVE  held = token
    BY <2>2, <2>4 DEF secrets
  <2> HIDE DEF held, session
  <2>5. /\ request'.pc = "arrived" /\ request'.token = token
        /\ request'.session = session /\ request'.held = held
        /\ request' = [pc |-> request'.pc, token |-> request'.token, session |-> request'.session,
                       held |-> request'.held]
    BY <2>1
  <2>6. QED
    BY <2>2, <2>3, <2>4, <2>5 DEF Requests
<1>4. CASE Admit
  <2>1. /\ request.pc = "arrived" /\ (request.session # None => Expected)
        /\ request' = [request EXCEPT !.pc = "admitted"] /\ UNCHANGED secrets
    BY <1>4 DEF Admit
  <2>2. request # Idle
    <3>1. Idle.pc = "idle"
      BY DEF Idle
    <3>2. QED
      BY <2>1, <3>1
  <2>3. /\ request = [pc |-> request.pc, token |-> request.token, session |-> request.session,
                      held |-> request.held]
        /\ request.session \in Sessions \cup {None} /\ request.token \in 0..Len(minted)
    BY <2>2 DEF Requests
  <2>4. /\ request'.pc = "admitted" /\ request'.token = request.token
        /\ request'.session = request.session /\ request'.held = request.held
        /\ request' = [pc |-> request'.pc, token |-> request'.token, session |-> request'.session,
                       held |-> request'.held]
    BY <2>1, <2>3
  <2>5. ASSUME request.session # None
        PROVE  /\ request.token # NoToken /\ request.token = request.held
               /\ Agree(minted[request.token].strategy, request.session.strategy)
    <3>1. /\ request.session.ref \in Refs /\ keyring[request.session.ref] # None
          /\ request.token = keyring[request.session.ref].token
          /\ Agree(keyring[request.session.ref].strategy, request.session.strategy)
      BY <2>1, <2>3, <2>5, EntryBindings DEF Expected, Resolvable
    <3>2. /\ request.token \in 1..Len(minted)
          /\ keyring[request.session.ref] = minted[request.token]
      BY <3>1 DEF Keys
    <3>3. request.token # NoToken
      BY <3>2 DEF NoToken, Keys
    <3>4. request.held = request.token
      BY <2>2, <2>5, <3>1 DEF Requests
    <3>5. QED
      BY <3>1, <3>2, <3>3, <3>4
  <2>6. request'.session # None /\ keyring'[request'.session.ref] # None
            /\ keyring'[request'.session.ref].token = request'.token
          => request'.held = request'.token
    BY <2>4, <2>5
  <2>7. minted' = minted
    BY <2>1 DEF secrets
  <2>8. QED
    BY <2>3, <2>4, <2>5, <2>6, <2>7 DEF Requests
<1>5. ASSUME ~Arrive, ~Admit PROVE request' = request \/ request' = Idle
  BY <1>5 DEF Next, Command, Daemon, Start, LoadConfig, LoadProject, LoadSystem, CheckBearer,
     LoadModules, Refuse, Misconfigured, Refresh, Swap, Kill, Answer, Resolve, External, Add,
     Remove, Use, Change, Login, Logout, SignIn, SignOut, Provision, SetAuth, Checkout, Trust,
     Distrust, Running
<1>6. QED
  BY <1>1, <1>2, <1>3, <1>4, <1>5

-----------------------------------------------------------------------------
IInv == Files /\ Keys /\ Builds /\ Serves /\ Requests

LEMMA Initial == Init => IInv
<1>1. SUFFICES ASSUME Init PROVE IInv
  OBVIOUS
<1>2. Files
  <2>1. /\ config = [registry |-> DefaultRegistry, default |-> DefaultId, session |-> None,
                     control |-> NoControl]
        /\ project \in Projects /\ manifest = None /\ trusted = <<>> /\ edits = 0
    BY <1>1 DEF Init
  <2>2. Vetting(trusted)
    BY <2>1, Listings DEF Vetting
  <2>3. Control(config.control)
    BY <2>1, EntryBindings
  <2>4. QED
    BY <2>1, <2>2, <2>3, Listings, CredentialsAssumption DEF Files, Listing
<1>3. Keys
  <2>1. <<>> \in Seq(Credential)
    OBVIOUS
  <2>2. QED
    BY <1>1, <2>1 DEF Init, Keys
<1>4. Builds /\ Serves /\ Requests
  BY <1>1 DEF Init, Builds, Serves, Requests, Idle
<1>5. QED
  BY <1>2, <1>3, <1>4 DEF IInv

(* The inductive invariant holds throughout.                               *)
THEOREM Invariance == Spec => []IInv
<1>1. IInv /\ [Next]_vars => IInv'
  <2>1. ASSUME IInv, Next PROVE IInv'
    <3>1. Files' /\ vetted \subseteq vetted' /\ Keys' /\ Grows
      BY <2>1, FilesStay, KeysStay DEF IInv
    <3>2. Builds' /\ Serves' /\ Requests'
      BY <2>1, <3>1, BuildsStay, ServesStay, RequestsStay DEF IInv
    <3>3. QED
      BY <3>1, <3>2 DEF IInv
  <2>2. ASSUME IInv, UNCHANGED vars PROVE IInv'
    <3>1. Keys' /\ Grows
      BY <2>2, SameSecrets DEF IInv, vars
    <3>2. Builds' /\ Serves'
      BY <2>2, <3>1, BuildsStand, ServesStand DEF IInv, vars, files
    <3>3. Files' /\ Requests'
      BY <2>2, <3>1, FilesStand, RequestStands DEF IInv, vars, Files
    <3>4. QED
      BY <3>1, <3>2, <3>3 DEF IInv
  <2>3. QED
    BY <2>1, <2>2
<1>2. QED
  BY <1>1, Initial, PTL DEF Spec

(* Every variable keeps its type, whatever the commands and the checkouts  *)
(* do.                                                                     *)
THEOREM TypeCorrect == Spec => []TypeOK
<1>1. ASSUME IInv PROVE TypeOK
  <2>1. Registry(config.registry)
    BY <1>1, ListingIs DEF IInv, Files
  <2>2. \A r \in Refs : keyring[r] = None \/ keyring[r].token \in 1..Len(minted)
    BY <1>1 DEF IInv, Keys
  <2>3. request.pc \in {"idle", "arrived", "admitted"}
    BY <1>1 DEF IInv, Requests, Idle
  <2>4. /\ build.pc \in {"idle", "config", "project", "system", "bearer", "modules", "resolve"}
        /\ Building("resolve") => build.pending \subseteq DOMAIN build.entries
        /\ current # None => DOMAIN current.adapters \subseteq Ids
    BY <1>1 DEF IInv, Builds, Resolving, Building, Serves, Sound
  <2>5. QED
    BY <1>1, <2>1, <2>2, <2>3, <2>4 DEF IInv, Files, Vetting, TypeOK
<1>2. QED
  BY <1>1, Invariance, PTL

(* A provider is served with a secret only where endpoint and strategy of  *)
(* the login that stored it agree with its own, an empty one with anything,*)
(* whatever was changed, removed or brought along since.                   *)
THEOREM BoundTheorem == Spec => []CredentialsStayBound
<1>1. IInv => CredentialsStayBound
  BY DEF IInv, Serves, Sound, Bound, CredentialsStayBound
<1>2. QED
  BY <1>1, Invariance, PTL

(* No snapshot holds a secret that was withdrawn before its build began.   *)
THEOREM WithdrawnTheorem == Spec => []WithdrawnCredentialsLeave
<1>1. IInv => WithdrawnCredentialsLeave
  BY DEF IInv, Serves, Clean, WithdrawnCredentialsLeave
<1>2. QED
  BY <1>1, Invariance, PTL

(* Only manifests that were trusted contribute providers, commands only    *)
(* where the trust said so.                                                *)
THEOREM VettedTheorem == Spec => []ModulesWereVetted
<1>1. IInv => ModulesWereVetted
  BY DEF IInv, Serves, Sourced, ModulesWereVetted
<1>2. QED
  BY <1>1, Invariance, PTL

(* Where authentication is on, a request is let in only with the credential*)
(* that was at the daemon's own reference when it arrived, stored for the  *)
(* configured strategy or for none.                                        *)
THEOREM BearersTheorem == Spec => []AdmittedBearersAreCurrent
<1>1. IInv => AdmittedBearersAreCurrent
  BY DEF IInv, Requests, Idle, AdmittedBearersAreCurrent
<1>2. QED
  BY <1>1, Invariance, PTL
=============================================================================
