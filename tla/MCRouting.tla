----------------------------- MODULE MCRouting ------------------------------
(***************************************************************************)
(* Model checking of Routing: every decision over small catalogs, and what *)
(* happens to the decision when it is taken again after a candidate        *)
(* dropped out of the status table or after the verdict became local_only. *)
(***************************************************************************)
EXTENDS Routing, FiniteSets

CONSTANTS
    Pool,           \* the candidates catalogs are drawn from
    MaxCandidates   \* bound on the size of a catalog

(* Candidates are the providers of a registry: one per id.  A model that   *)
(* is left empty is not among those a candidate advertises.                *)
ASSUME PoolAssumption ==
    /\ \A c \in Pool : c.id \in Nat /\ NoModel \notin c.models
    /\ \A c, d \in Pool : c.id = d.id => c = d

(* The candidates catalogs are drawn from: two locals and three remotes,   *)
(* one of each advertising the requested model, with ids that do not       *)
(* follow their other qualities.                                           *)
MCPool ==
    {[id |-> 1, location |-> "remote", models |-> {}, caps |-> {"chat"}],
     [id |-> 2, location |-> "local", models |-> {"m1"}, caps |-> {"chat"}],
     [id |-> 3, location |-> "remote", models |-> {"m1"},
      caps |-> {"chat", "tool_calling", "reasoning"}],
     [id |-> 4, location |-> "local", models |-> {},
      caps |-> {"chat", "tool_calling"}],
     [id |-> 5, location |-> "remote", models |-> {},
      caps |-> {"chat", "tool_calling"}]}

VARIABLES in,           \* the input of the last decision
          chosen        \* its result

decision == <<in, chosen>>

Inputs ==
    [candidates : {C \in SUBSET Pool : Cardinality(C) <= MaxCandidates},
     verdict : {"allow", "redact", "block", "local_only"},
     preference : Preferences,
     action : {"code_generation", "review", "general_qa"},
     model : {NoModel, "m1"},
     required : {{}, {"tool_calling"}}]

InitDecision == in \in Inputs /\ chosen = Selections(in)

(* The next status table no longer holds the candidate c.                  *)
Lose(c) ==
    /\ c \in in.candidates
    /\ in' = [in EXCEPT !.candidates = @ \ {c}]
    /\ chosen' = Selections(in')

(* The same request is decided again under a stricter verdict.             *)
Tighten ==
    /\ in.verdict \in {"allow", "redact"}
    /\ in' = [in EXCEPT !.verdict = "local_only"]
    /\ chosen' = Selections(in')

NextDecision == Tighten \/ \E c \in Pool : Lose(c)

Decisions == InitDecision /\ [][NextDecision]_decision

-----------------------------------------------------------------------------
(* The decision pipeline as ADR-005 describes it, one filter after the     *)
(* other, each keeping the candidates that do best at its own criterion.   *)

Best(S, Rank(_)) == {c \in S : \A d \in S : Rank(c) >= Rank(d)}

ByPolicy ==
    CASE in.verdict = "block" -> {}
      [] in.verdict = "local_only" ->
            {c \in in.candidates : c.location = "local"}
      [] OTHER -> in.candidates
ByCapability == {c \in ByPolicy : \A k \in in.required : k \in c.caps}
ByPreference ==
    IF in.preference = "local_only"
    THEN {c \in ByCapability : c.location = "local"} ELSE ByCapability
ByModel ==
    IF \E c \in ByPreference : in.model \in c.models
    THEN {c \in ByPreference : in.model \in c.models} ELSE ByPreference
Preferred(c) ==
    CASE in.preference = "prefer_cloud" -> IF c.location = "remote" THEN 1 ELSE 0
      [] in.preference = "prefer_local" -> IF c.location = "local" THEN 1 ELSE 0
      [] OTHER -> 0
Weight ==
    CASE in.action = "code_generation" -> {<<"tool_calling", 3>>, <<"reasoning", 2>>, <<"chat", 1>>}
      [] in.action = "review" -> {<<"reasoning", 2>>, <<"chat", 1>>}
      [] OTHER -> {<<"chat", 1>>}
Fitness(c) ==
    Cardinality({p \in Weight \X (1..3) : p[1][1] \in c.caps /\ p[2] <= p[1][2]})
LowestId(c) == -c.id
PipelineChoice == Best(Best(Best(ByModel, Preferred), Fitness), LowestId)

(* The sort Decide performs, with its single comparison function, chooses  *)
(* what the layered pipeline of ADR-005 chooses, for every input.          *)
ChoiceFollowsPipeline == chosen = PipelineChoice

(* Losing a candidate that was not chosen, or tightening the verdict while *)
(* the choice is local, never moves the request to another provider, and   *)
(* never makes a refused request servable.                                 *)
ChoiceIsStable ==
    [][LET kept == {c \in chosen : /\ c \in in'.candidates
                                   /\ in'.verdict = "local_only" => c.location = "local"}
       IN  (kept # {} \/ chosen = {}) => chosen' = kept]_decision

=============================================================================
