------------------------------ MODULE Routing -------------------------------
(***************************************************************************)
(* internal/routing: the choice of one provider for a request.  Decide is  *)
(* a pure function of the candidates, the policy verdict and the request;  *)
(* here it is the operator Selections, the set holding the candidate that  *)
(* sorts first, or nothing when no candidate is eligible.                  *)
(*                                                                         *)
(* A candidate is a record: id (an integer whose order stands for the      *)
(* lexicographic order of provider IDs), location, models (its model pins  *)
(* and default model) and caps (its capabilities).  Strings are compared   *)
(* after trimming and lower-casing in the code and are equal or not here.  *)
(***************************************************************************)
EXTENDS Integers

CONSTANT NoModel        \* the empty model of a request that names none

Locations == {"local", "remote"}
Preferences == {"auto", "prefer_local", "prefer_cloud", "local_only"}
CodeActions == {"code_diagnosis", "code_generation", "refactor"}
ReviewActions == {"review", "architecture", "explanation"}
Actions == CodeActions \cup ReviewActions \cup {"general_qa"}

(* The project's routing section: a preference per task type and a         *)
(* default, "unset" where the project says nothing.                        *)
ResolvePreference(routing, action) ==
    IF routing.taskTypes[action] # "unset" THEN routing.taskTypes[action]
    ELSE IF routing.default # "unset" THEN routing.default
    ELSE "auto"

PolicyEligible(verdict, c) ==
    /\ verdict # "block"
    /\ verdict = "local_only" => c.location = "local"

PreferenceEligible(preference, c) ==
    preference = "local_only" => c.location = "local"

PreferenceScore(preference, c) ==
    IF \/ preference \in {"prefer_local", "local_only"} /\ c.location = "local"
       \/ preference = "prefer_cloud" /\ c.location = "remote"
    THEN 1 ELSE 0

ModelMatches(model, c) == model # NoModel /\ model \in c.models

(* taskStrength over the weights of capabilityWeights.                     *)
TaskStrength(action, c) ==
      (IF "chat" \in c.caps THEN 1 ELSE 0)
    + (IF action \in CodeActions \cup ReviewActions /\ "reasoning" \in c.caps
       THEN 2 ELSE 0)
    + (IF action \in CodeActions /\ "tool_calling" \in c.caps THEN 3 ELSE 0)

(* A decision's input: candidates, verdict, preference, action, model and  *)
(* required (the capabilities the request needs).                          *)
Admissible(in) ==
    {c \in in.candidates :
        /\ PolicyEligible(in.verdict, c)
        /\ in.required \subseteq c.caps
        /\ PreferenceEligible(in.preference, c)}

(* Affinity triggered by a candidate that was already rejected.            *)
EligibleAnyMatch(in) ==
    LET matching == {c \in in.candidates : ModelMatches(in.model, c)}
    IN  IF matching = {} THEN Admissible(in)
        ELSE Admissible(in) \cap matching

(* applyModelAffinity: once one admissible candidate advertises the model, *)
(* only those that do stay eligible.                                       *)
Eligible(in) ==
    LET matching == {c \in Admissible(in) : ModelMatches(in.model, c)}
    IN  IF matching = {} THEN Admissible(in) ELSE matching

(* A comparison that ranks task strength above the preference.             *)
BeforeStrengthFirst(in, c, d) ==
    LET score(x) == PreferenceScore(in.preference, x)
        strength(x) == TaskStrength(in.action, x)
    IN  \/ strength(c) > strength(d)
        \/ /\ strength(c) = strength(d)
           /\ \/ score(c) > score(d)
              \/ score(c) = score(d) /\ c.id < d.id

(* compareCandidateState on two eligible candidates: TRUE iff c sorts      *)
(* before d.                                                               *)
Before(in, c, d) ==
    LET score(x) == PreferenceScore(in.preference, x)
        match(x) == ModelMatches(in.model, x)
        strength(x) == TaskStrength(in.action, x)
    IN  \/ score(c) > score(d)
        \/ /\ score(c) = score(d)
           /\ \/ match(c) /\ ~match(d)
              \/ /\ match(c) = match(d)
                 /\ \/ strength(c) > strength(d)
                    \/ strength(c) = strength(d) /\ c.id < d.id

(* Decide: at most one candidate, the first of the sorted eligible ones.   *)
Selections(in) ==
    {c \in Eligible(in) : \A d \in Eligible(in) \ {c} : Before(in, c, d)}

=============================================================================
