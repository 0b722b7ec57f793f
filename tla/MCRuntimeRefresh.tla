-------------------------- MODULE MCRuntimeRefresh --------------------------
(***************************************************************************)
(* A small instance of RuntimeRefresh: the bundled registry is one         *)
(* provider, which is the default.  A command removes another provider or  *)
(* the default and races one that adds a provider; or one command adds a   *)
(* provider that the other makes the default, if it comes second.          *)
(***************************************************************************)
EXTENDS RuntimeRefresh

CONSTANTS c1, c2

MCProviders == {"ollama", "openai", "vllm"}
MCCredentialed == {"openai", "vllm"}
MCDefaultConfig == [providers |-> {"openai"}, default |-> "openai"]
MCFirstConfig == [providers |-> {"ollama", "openai"}, default |-> "openai"]

MCPair(k1, p1, k2, p2) ==
    [c \in {c1, c2} |-> IF c = c1 THEN [kind |-> k1, id |-> p1] ELSE [kind |-> k2, id |-> p2]]
MCWorkloads ==
    {MCPair("remove", "ollama", "add", "vllm"),
     MCPair("remove", "openai", "add", "vllm"),
     MCPair("use", "vllm", "add", "vllm")}

=============================================================================
