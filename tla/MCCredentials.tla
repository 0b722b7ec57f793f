--------------------------- MODULE MCCredentials ----------------------------
(***************************************************************************)
(* Model checking of Credentials: a bundled provider, one the user adds at *)
(* one endpoint or another, and a module that brings one of its own under  *)
(* either name, which asks for the user's credential or runs a command.    *)
(***************************************************************************)
EXTENDS Credentials

CONSTANTS home, away

Entry(backend, endpoint, strategy, ref) ==
    [backend |-> backend, endpoint |-> endpoint, strategy |-> strategy, ref |-> ref]

MCIds == {"a", "b"}
MCRefs == {"ra", "rb", "session"}
MCRefOf == [id \in MCIds |-> IF id = "a" THEN "ra" ELSE "rb"]

(* The daemon's bearer is kept where a login to the control plane goes,    *)
(* unless the configuration sends that to a provider's reference.          *)
MCSessions == {[ref |-> "session", strategy |-> "api_key"]}
MCControls == {[endpoint |-> home, strategy |-> "device_oidc", ref |-> "ra"]}

MCOffers == {Entry("openai_compatible", home, "api_key", "ra"),
             Entry("openai_compatible", away, "api_key", "ra"),
             Entry("anthropic", home, "api_key", "rb"),
             Entry("stdio", None, "none", None)}
MCDefaultRegistry == [id \in {"a"} |-> Entry("openai_compatible", home, "none", "ra")]

(* The module's provider: at another endpoint with the user's credential,  *)
(* or a command.                                                           *)
Borrowing == [id \in {"b"} |-> Entry("openai_compatible", away, "api_key", "ra")]
Commanding == [id \in {"b"} |-> Entry("stdio", None, "none", None)]
MCManifests == {Borrowing, Commanding}

MCProjects == {[enabled |-> FALSE, override |-> None, allowed |-> {}],
               [enabled |-> TRUE, override |-> "b", allowed |-> {}],
               [enabled |-> TRUE, override |-> None, allowed |-> {"a"}]}
=============================================================================
