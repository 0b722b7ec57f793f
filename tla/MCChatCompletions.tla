------------------------- MODULE MCChatCompletions --------------------------
(***************************************************************************)
(* Small instances of ChatCompletions.                                     *)
(*                                                                         *)
(* Fragments: "hi" is harmless, "key" matches a redacting rule, "pem" a    *)
(* blocking one; chunks c1, c2, c3 are harmless, "ckey" and "cpem" are     *)
(* chunks that match.                                                      *)
(***************************************************************************)
EXTENDS ChatCompletions

MCRedactable == {"key", "ckey"}
MCBlocking == {"pem", "cpem"}

Cloud == [id |-> 1, location |-> "remote", models |-> {"m1"},
          caps |-> {"chat", "tool_calling"}]
CloudTwo == [id |-> 2, location |-> "remote", models |-> {}, caps |-> {"chat"}]
Ollama == [id |-> 3, location |-> "local", models |-> {}, caps |-> {"chat"}]

Routing(default, generation) ==
    [default |-> default,
     taskTypes |-> [a \in Actions |-> IF a = "code_generation" THEN generation
                                      ELSE "unset"]]

(* An open-source project on two clouds and a local model, the second      *)
(* cloud not ready, retrieval on beyond the remote cap.                    *)
OpenSource ==
    [tradeSecret |-> FALSE, routing |-> Routing("prefer_cloud", "unset"),
     catalog |-> {Cloud, CloudTwo, Ollama}, ready |-> {1, 3},
     host |-> {1, 2, 3}, classifier |-> TRUE,
     retrieval |-> [enabled |-> TRUE, topK |-> 3], prompts |-> {{}}]

(* A trade-secret project whose local model is available.                  *)
SecretProject ==
    [tradeSecret |-> TRUE, routing |-> Routing("unset", "unset"),
     catalog |-> {Cloud, Ollama}, ready |-> {1, 3}, host |-> {1, 3},
     classifier |-> FALSE,
     retrieval |-> [enabled |-> TRUE, topK |-> 1], prompts |-> {{}, {"key"}}]

(* A project that may only use the clouds, and that keeps code generation  *)
(* local: no route for that task.                                          *)
CloudOnly ==
    [tradeSecret |-> FALSE, routing |-> Routing("auto", "local_only"),
     catalog |-> {Cloud, CloudTwo}, ready |-> {1, 2}, host |-> {1, 2},
     classifier |-> TRUE,
     retrieval |-> [enabled |-> FALSE, topK |-> 2], prompts |-> {{}}]

MCSnapshots == {OpenSource, SecretProject, CloudOnly}

(* Two snapshots that disagree on everything a request asks of them.       *)
OneCloud ==
    [CloudOnly EXCEPT !.catalog = {Cloud},
                      !.retrieval = [enabled |-> TRUE, topK |-> 1]]
OneLocal == [SecretProject EXCEPT !.catalog = {Ollama}, !.prompts = {{}}]
MCTwoSnapshots == {OneCloud, OneLocal}

Plain == [text |-> {"hi"}, model |-> "none", required |-> {},
          enabled |-> "unset", topK |-> 0]
WithKey == [Plain EXCEPT !.text = {"hi", "key"}]
WithPem == [Plain EXCEPT !.text = {"pem"}]
WithTools == [Plain EXCEPT !.required = {"tool_calling"}, !.model = "m1"]
Greedy == [Plain EXCEPT !.enabled = "on", !.topK = 3]
OutOfRange == [Plain EXCEPT !.topK = -1]

MCInputs == {Plain, WithKey, WithPem, WithTools, Greedy, OutOfRange}
MCFewInputs == {Plain, WithKey}

MCLabels ==
    {[action |-> "general_qa", tradeSecret |-> FALSE],
     [action |-> "general_qa", tradeSecret |-> TRUE],
     [action |-> "code_generation", tradeSecret |-> FALSE]}

MCChunks == {"c1", "c2", "c3", "ckey", "cpem"}
MCOneChunk == {"cpem"}
MCOneLabel == {[action |-> "general_qa", tradeSecret |-> TRUE]}

=============================================================================
