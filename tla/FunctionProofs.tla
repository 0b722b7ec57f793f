--------------------------- MODULE FunctionProofs ----------------------------
(***************************************************************************)
(* Theorems about the pure functions: the choice of a provider, for every  *)
(* pool of candidates, and the functions over texts and lists, for texts,  *)
(* lists and limits of every size.                                         *)
(*                                                                         *)
(* The order of the sort (Before) is shown to be asymmetric and to have a  *)
(* first element in every set of candidates that is not empty; the latter  *)
(* from the least value of Key, a number that folds the three criteria     *)
(* that come before the id.                                                *)
(***************************************************************************)
EXTENDS MCRouting, MCTextFunctions, FiniteSetTheorems, SequenceTheorems,
        WellFoundedInduction, TLAPS

(* A set of numbers that is not empty has a least one.                     *)
LEMMA LeastExists ==
    ASSUME NEW T \in SUBSET Nat, T # {}
    PROVE  \E n \in T : \A m \in T : n <= m
<1>1. PICK n \in T : \A m \in T : ~(<<m, n>> \in OpToRel(<, Nat))
    BY WFMin, NatLessThanWellFounded, Zenon
<1>2. \A m \in T : ~(m < n)
    BY <1>1, Zenon DEF OpToRel
<1>3. \A m \in T : n <= m
    BY <1>2
<1> QED
    BY <1>3

(* The criteria before the id, folded into a number: less is better.       *)
Key(i, c) ==
    14 * (1 - PreferenceScore(i.preference, c))
      + (IF ModelMatches(i.model, c) THEN 0 ELSE 7)
      + (6 - TaskStrength(i.action, c))

LEMMA ScoreBounds ==
    ASSUME NEW p, NEW a, NEW c
    PROVE  PreferenceScore(p, c) \in 0..1 /\ TaskStrength(a, c) \in 0..6
<1>1. PreferenceScore(p, c) \in 0..1
    BY DEF PreferenceScore
<1>2. TaskStrength(a, c) \in 0..6
    <2>1. (IF "chat" \in c.caps THEN 1 ELSE 0) \in 0..1
        OBVIOUS
    <2>2. (IF a \in CodeActions \cup ReviewActions /\ "reasoning" \in c.caps
           THEN 2 ELSE 0) \in 0..2
        OBVIOUS
    <2>3. (IF a \in CodeActions /\ "tool_calling" \in c.caps THEN 3 ELSE 0) \in 0..3
        OBVIOUS
    <2> QED
        BY <2>1, <2>2, <2>3 DEF TaskStrength
<1> QED
    BY <1>1, <1>2

(* A smaller key sorts first; between equal keys the id decides.           *)
LEMMA KeyOrders ==
    ASSUME NEW i, NEW c \in Pool, NEW d \in Pool,
           \/ Key(i, c) < Key(i, d)
           \/ Key(i, c) = Key(i, d) /\ c.id < d.id
    PROVE  Before(i, c, d)
<1> DEFINE sc == PreferenceScore(i.preference, c)
           sd == PreferenceScore(i.preference, d)
           tc == TaskStrength(i.action, c)
           td == TaskStrength(i.action, d)
           mc == ModelMatches(i.model, c)
           md == ModelMatches(i.model, d)
<1>1. sc \in 0..1 /\ sd \in 0..1 /\ tc \in 0..6 /\ td \in 0..6
    BY ScoreBounds
<1>2. mc \in BOOLEAN /\ md \in BOOLEAN
    BY DEF ModelMatches
<1>3. /\ Key(i, c) = 14 * (1 - sc) + (IF mc THEN 0 ELSE 7) + (6 - tc)
      /\ Key(i, d) = 14 * (1 - sd) + (IF md THEN 0 ELSE 7) + (6 - td)
    BY DEF Key
<1>4. Before(i, c, d) <=>
        \/ sc > sd
        \/ /\ sc = sd
           /\ \/ mc /\ ~md
              \/ /\ mc = md
                 /\ \/ tc > td
                    \/ tc = td /\ c.id < d.id
    BY Zenon DEF Before
<1> HIDE DEF sc, sd, tc, td, mc, md
<1>5. CASE mc /\ md
    BY <1>1, <1>3, <1>4, <1>5
<1>6. CASE mc /\ ~md
    <2>1. CASE sc > sd \/ sc = sd
        BY <2>1, <1>4, <1>6, Zenon
    <2>2. CASE sc < sd
        <3>1. sc = 0 /\ sd = 1
            BY <2>2, <1>1
        <3>2. Key(i, c) = 14 + (6 - tc) /\ Key(i, d) = 7 + (6 - td)
            BY <3>1, <1>1, <1>3, <1>6
        <3> QED
            BY <3>2, <1>1
    <2> QED
        BY <2>1, <2>2, <1>1
<1>7. CASE ~mc /\ md
    <2>1. CASE sc > sd
        BY <2>1, <1>4
    <2>2. CASE sc <= sd
        <3>1. 14 * (1 - sc) >= 14 * (1 - sd) /\ 14 * (1 - sc) \in Int /\ 14 * (1 - sd) \in Int
            BY <2>2, <1>1
        <3>2. Key(i, c) = 14 * (1 - sc) + 7 + (6 - tc)
            BY <1>3, <1>7
        <3>3. Key(i, d) = 14 * (1 - sd) + 0 + (6 - td)
            BY <1>3, <1>7
        <3> QED
            BY <3>1, <3>2, <3>3, <1>1
    <2> QED
        BY <2>1, <2>2, <1>1
<1>8. CASE ~mc /\ ~md
    BY <1>1, <1>3, <1>4, <1>8, <1>2
<1> QED
    BY <1>2, <1>5, <1>6, <1>7, <1>8, Zenon

(* Of two candidates at most one sorts before the other.                   *)
LEMMA Asymmetric ==
    ASSUME NEW i, NEW c \in Pool, NEW d \in Pool, Before(i, c, d)
    PROVE  ~Before(i, d, c)
<1>1. /\ PreferenceScore(i.preference, c) \in 0..1
      /\ PreferenceScore(i.preference, d) \in 0..1
      /\ TaskStrength(i.action, c) \in 0..6
      /\ TaskStrength(i.action, d) \in 0..6
    BY ScoreBounds
<1> QED
    BY <1>1, PoolAssumption DEF Before

(* A set of candidates that is not empty has one that sorts before all     *)
(* others.                                                                 *)
LEMMA FirstExists ==
    ASSUME NEW i, NEW S \in SUBSET Pool, S # {}
    PROVE  \E c \in S : \A d \in S \ {c} : Before(i, c, d)
<1> DEFINE keys == {Key(i, c) : c \in S}
<1>1. \A c \in S : Key(i, c) \in Nat
    <2> SUFFICES ASSUME NEW c \in S PROVE Key(i, c) \in Nat
        OBVIOUS
    <2>1. /\ PreferenceScore(i.preference, c) \in 0..1
          /\ TaskStrength(i.action, c) \in 0..6
        BY ScoreBounds
    <2> QED
        BY <2>1 DEF Key
<1>2. PICK k \in keys : \A m \in keys : k <= m
    <2>1. keys \in SUBSET Nat /\ keys # {}
        BY <1>1
    <2> QED
        BY <2>1, LeastExists, Zenon
<1> DEFINE best == {c \in S : Key(i, c) = k}
           ids == {c.id : c \in best}
<1>3. PICK n \in ids : \A m \in ids : n <= m
    <2>1. ids \in SUBSET Nat /\ ids # {}
        BY <1>2, PoolAssumption
    <2> QED
        BY <2>1, LeastExists, Zenon
<1>4. PICK c \in best : c.id = n
    BY <1>3
<1>5. ASSUME NEW d \in S \ {c} PROVE Before(i, c, d)
    <2>1. Key(i, c) \in Nat /\ Key(i, d) \in Nat /\ Key(i, c) <= Key(i, d)
        BY <1>1, <1>2, <1>4
    <2>2. CASE Key(i, c) < Key(i, d)
        BY <2>2, <1>4, KeyOrders
    <2>3. CASE Key(i, c) = Key(i, d)
        <3>1. d.id \in ids
            BY <2>3, <1>4
        <3>2. c.id <= d.id /\ c.id # d.id /\ c.id \in Nat /\ d.id \in Nat
            BY <3>1, <1>3, <1>4, PoolAssumption
        <3> QED
            BY <3>2, <2>3, <1>4, KeyOrders
    <2> QED
        BY <2>1, <2>2, <2>3
<1> QED
    BY <1>4, <1>5

-----------------------------------------------------------------------------
(* What a state of a run is: an input over the pool and its decision.      *)
Typed ==
    /\ in \in [candidates : SUBSET Pool,
              verdict : {"allow", "redact", "block", "local_only"},
              preference : Preferences,
              action : {"code_generation", "review", "general_qa"},
              model : {NoModel, "m1"},
              required : {{}, {"tool_calling"}}]
    /\ chosen = Selections(in)

LEMMA TypedInvariant == Decisions => []Typed
<1>1. InitDecision => Typed
    BY DEF InitDecision, Inputs, Typed
<1>2. Typed /\ [NextDecision]_decision => Typed'
    <2> SUFFICES ASSUME Typed, [NextDecision]_decision PROVE Typed'
        OBVIOUS
    <2>1. CASE Tighten
        BY <2>1 DEF Typed, Tighten
    <2>2. ASSUME NEW c \in Pool, Lose(c) PROVE Typed'
        BY <2>2 DEF Typed, Lose
    <2>3. CASE UNCHANGED decision
        BY <2>3 DEF Typed, decision, Selections, Eligible, Admissible
    <2> QED
        BY <2>1, <2>2, <2>3 DEF NextDecision
<1> QED
    BY <1>1, <1>2, PTL DEF Decisions

(* At most one candidate is selected, and one whenever one is admissible.  *)
LEMMA OneSelection ==
    ASSUME NEW i, i.candidates \in SUBSET Pool
    PROVE  /\ \A c, d \in Selections(i) : c = d
           /\ Selections(i) = {} <=> Admissible(i) = {}
<1>1. Eligible(i) \in SUBSET Pool /\ (Eligible(i) = {} <=> Admissible(i) = {})
    BY DEF Eligible, Admissible
<1>2. \A c, d \in Selections(i) : c = d
    BY <1>1, Asymmetric DEF Selections
<1>3. Eligible(i) # {} => Selections(i) # {}
    <2> SUFFICES ASSUME Eligible(i) # {} PROVE Selections(i) # {}
        OBVIOUS
    <2>1. PICK c \in Eligible(i) : \A d \in Eligible(i) \ {c} : Before(i, c, d)
        BY <1>1, FirstExists
    <2> QED
        BY <2>1 DEF Selections
<1>4. Eligible(i) = {} => Selections(i) = {}
    BY DEF Selections
<1> QED
    BY <1>1, <1>2, <1>3, <1>4

(* A request is decided again with fewer admissible candidates: if the one *)
(* that was selected is among them it is selected again.                   *)
LEMMA Narrowing ==
    ASSUME NEW i, NEW j,
           i.candidates \in SUBSET Pool, j.candidates \in SUBSET Pool,
           j.preference = i.preference, j.action = i.action, j.model = i.model,
           Admissible(j) \subseteq Admissible(i),
           NEW k \in Selections(i), k \in Admissible(j)
    PROVE  Selections(j) = {k}
<1>1. Eligible(j) \subseteq Eligible(i) /\ k \in Eligible(j)
    BY DEF Selections, Eligible
<1>2. \A c, d : Before(j, c, d) <=> Before(i, c, d)
    BY DEF Before
<1>3. k \in Selections(j)
    BY <1>1, <1>2 DEF Selections
<1> QED
    BY <1>3, OneSelection

(* The choice does not move when a candidate that was not chosen drops out *)
(* or when the verdict tightens and the choice is local, and no such       *)
(* change serves a request that had been refused (Decide).                 *)
THEOREM StableTheorem == Decisions => ChoiceIsStable
<1> DEFINE kept == {c \in chosen : /\ c \in in'.candidates
                                   /\ in'.verdict = "local_only" => c.location = "local"}
<1>1. Typed /\ Typed' /\ [NextDecision]_decision
        => [(kept # {} \/ chosen = {}) => chosen' = kept]_decision
    <2> SUFFICES ASSUME Typed, Typed', NextDecision, kept # {} \/ chosen = {}
                 PROVE  chosen' = kept
        BY DEF decision
    <2>1. /\ in.candidates \in SUBSET Pool /\ in'.candidates \in SUBSET Pool
          /\ chosen = Selections(in) /\ chosen' = Selections(in')
        BY DEF Typed
    <2> DEFINE Narrowed ==
          /\ in'.preference = in.preference /\ in'.action = in.action
          /\ in'.model = in.model
          /\ Admissible(in') = {c \in Admissible(in) :
                /\ c \in in'.candidates
                /\ in'.verdict = "local_only" => c.location = "local"}
    <2>2. Narrowed
        <3>1. CASE Tighten
            BY <3>1 DEF Typed, Tighten, Admissible, PolicyEligible
        <3>2. ASSUME NEW c \in Pool, Lose(c) PROVE Narrowed
            BY <3>2 DEF Typed, Lose, Admissible, PolicyEligible
        <3> QED
            BY <3>1, <3>2 DEF NextDecision
    <2>3. CASE chosen = {}
        <3>1. Admissible(in') = {}
            BY <2>1, <2>2, <2>3, OneSelection
        <3> QED
            BY <2>1, <2>3, <3>1, OneSelection
    <2>4. CASE chosen # {}
        <3>1. PICK k : k \in kept
            BY <2>4
        <3>2. kept = {k} /\ k \in Selections(in)
            BY <2>1, <3>1, OneSelection
        <3>3. k \in Admissible(in')
            BY <2>2, <3>1, <3>2 DEF Selections, Eligible
        <3> QED
            BY <2>1, <2>2, <3>2, <3>3, Narrowing
    <2> QED
        BY <2>3, <2>4
<1> QED
    BY <1>1, TypedInvariant, PTL DEF ChoiceIsStable, Decisions

-----------------------------------------------------------------------------
(* The points of each capability that Fitness counts.                      *)
ChatPoints == {<<<<"chat", 1>>, 1>>}
ReasoningPoints == {<<<<"reasoning", 2>>, 1>>, <<<<"reasoning", 2>>, 2>>}
ToolPoints == {<<<<"tool_calling", 3>>, 1>>, <<<<"tool_calling", 3>>, 2>>,
               <<<<"tool_calling", 3>>, 3>>}

LEMMA PointsCounted ==
    /\ IsFiniteSet(ChatPoints) /\ Cardinality(ChatPoints) = 1
    /\ IsFiniteSet(ReasoningPoints) /\ Cardinality(ReasoningPoints) = 2
    /\ IsFiniteSet(ToolPoints) /\ Cardinality(ToolPoints) = 3
<1> DEFINE r1 == <<<<"reasoning", 2>>, 1>>
           r2 == <<<<"reasoning", 2>>, 2>>
           t1 == <<<<"tool_calling", 3>>, 1>>
           t2 == <<<<"tool_calling", 3>>, 2>>
           t3 == <<<<"tool_calling", 3>>, 3>>
<1>1. /\ r1 # r2 /\ t1 # t2 /\ t1 # t3 /\ t2 # t3
      /\ ReasoningPoints = {r1, r2} /\ ToolPoints = {t1, t2, t3}
    BY DEF ReasoningPoints, ToolPoints
<1>2. IsFiniteSet(ChatPoints) /\ Cardinality(ChatPoints) = 1
    BY FS_Singleton DEF ChatPoints
<1> HIDE DEF r1, r2, t1, t2, t3
<1>3. IsFiniteSet(ReasoningPoints) /\ Cardinality(ReasoningPoints) = 2
    <2>1. ReasoningPoints = {r1} \cup {r2} /\ r2 \notin {r1}
        BY <1>1
    <2>2. IsFiniteSet({r1}) /\ Cardinality({r1}) = 1
        BY FS_Singleton
    <2> QED
        BY <2>1, <2>2, FS_AddElement
<1>4. IsFiniteSet(ToolPoints) /\ Cardinality(ToolPoints) = 3
    <2>1. ToolPoints = ({t1} \cup {t2}) \cup {t3} /\ t2 \notin {t1}
          /\ t3 \notin {t1} \cup {t2}
        BY <1>1
    <2>2. IsFiniteSet({t1}) /\ Cardinality({t1}) = 1
        BY FS_Singleton
    <2>3. IsFiniteSet({t1} \cup {t2}) /\ Cardinality({t1} \cup {t2}) = 2
        BY <2>1, <2>2, FS_AddElement
    <2> QED
        BY <2>1, <2>3, FS_AddElement
<1> QED
    BY <1>2, <1>3, <1>4

(* The weights of the capabilities, counted as points, are taskStrength.   *)
LEMMA FitnessIsStrength ==
    ASSUME in.action \in {"code_generation", "review", "general_qa"}, NEW c
    PROVE  Fitness(c) = TaskStrength(in.action, c)
<1> DEFINE chat == IF "chat" \in c.caps THEN ChatPoints ELSE {}
           reason == IF in.action \in CodeActions \cup ReviewActions
                           /\ "reasoning" \in c.caps
                     THEN ReasoningPoints ELSE {}
           tool == IF in.action \in CodeActions /\ "tool_calling" \in c.caps
                   THEN ToolPoints ELSE {}
           points == {p \in Weight \X (1..3) : p[1][1] \in c.caps /\ p[2] <= p[1][2]}
<1>1. points = (chat \cup reason) \cup tool
    <2>1. CASE in.action = "code_generation"
        <3>1. Weight = {<<"tool_calling", 3>>, <<"reasoning", 2>>, <<"chat", 1>>}
            BY <2>1 DEF Weight
        <3>2. in.action \in CodeActions
            BY <2>1 DEF CodeActions
        <3> QED
            BY <3>1, <3>2 DEF ChatPoints, ReasoningPoints, ToolPoints
    <2>2. CASE in.action = "review"
        <3>1. Weight = {<<"reasoning", 2>>, <<"chat", 1>>}
            BY <2>2 DEF Weight
        <3>2. in.action \in ReviewActions /\ in.action \notin CodeActions
            BY <2>2 DEF CodeActions, ReviewActions
        <3> QED
            BY <3>1, <3>2 DEF ChatPoints, ReasoningPoints
    <2>3. CASE in.action = "general_qa"
        <3>1. Weight = {<<"chat", 1>>}
            BY <2>3 DEF Weight
        <3>2. in.action \notin ReviewActions /\ in.action \notin CodeActions
            BY <2>3 DEF CodeActions, ReviewActions
        <3> QED
            BY <3>1, <3>2 DEF ChatPoints
    <2> QED
        BY <2>1, <2>2, <2>3
<1>2. /\ IsFiniteSet(chat)
      /\ Cardinality(chat) = (IF "chat" \in c.caps THEN 1 ELSE 0)
    BY PointsCounted, FS_EmptySet
<1>3. /\ IsFiniteSet(reason)
      /\ Cardinality(reason) =
            (IF in.action \in CodeActions \cup ReviewActions
                   /\ "reasoning" \in c.caps THEN 2 ELSE 0)
    BY PointsCounted, FS_EmptySet
<1>4. /\ IsFiniteSet(tool)
      /\ Cardinality(tool) =
            (IF in.action \in CodeActions /\ "tool_calling" \in c.caps THEN 3 ELSE 0)
    BY PointsCounted, FS_EmptySet
<1>5. chat \cap reason = {} /\ (chat \cup reason) \cap tool = {}
    BY DEF ChatPoints, ReasoningPoints, ToolPoints
<1> HIDE DEF chat, reason, tool
<1>6. /\ IsFiniteSet(chat \cup reason)
      /\ Cardinality(chat \cup reason) = Cardinality(chat) + Cardinality(reason)
    BY <1>2, <1>3, <1>5, FS_Union, FS_EmptySet
<1>7. Cardinality((chat \cup reason) \cup tool)
        = Cardinality(chat) + Cardinality(reason) + Cardinality(tool)
    <2>1. Cardinality((chat \cup reason) \cup tool)
            = Cardinality(chat \cup reason) + Cardinality(tool) - Cardinality({})
        BY <1>4, <1>5, <1>6, FS_Union
    <2> QED
        BY <2>1, <1>2, <1>3, <1>4, <1>6, FS_EmptySet
<1> QED
    BY <1>1, <1>2, <1>3, <1>4, <1>7, Zenon DEF Fitness, TaskStrength

-----------------------------------------------------------------------------
(* The filters of the pipeline leave what Decide calls eligible.           *)
LEMMA FiltersAreEligible ==
    ASSUME Typed
    PROVE  ByModel = Eligible(in)
<1>1. ByPreference = Admissible(in)
    BY DEF Typed, ByPreference, ByCapability, ByPolicy, Admissible, PolicyEligible,
           PreferenceEligible
<1>2. \A c \in Admissible(in) : in.model \in c.models <=> ModelMatches(in.model, c)
    BY PoolAssumption DEF Typed, Admissible, ModelMatches
<1> QED
    BY <1>1, <1>2 DEF ByModel, Eligible

(* Among eligible candidates the pipeline's ranks order as Decide's do.    *)
LEMMA RanksAgree ==
    ASSUME Typed, NEW c \in Eligible(in), NEW d \in Eligible(in)
    PROVE  /\ Preferred(c) >= Preferred(d)
                <=> PreferenceScore(in.preference, c) >= PreferenceScore(in.preference, d)
           /\ Fitness(c) >= Fitness(d)
                <=> TaskStrength(in.action, c) >= TaskStrength(in.action, d)
           /\ ModelMatches(in.model, c) = ModelMatches(in.model, d)
<1>1. Preferred(c) >= Preferred(d)
        <=> PreferenceScore(in.preference, c) >= PreferenceScore(in.preference, d)
    <2>1. c \in Admissible(in) /\ d \in Admissible(in)
        BY DEF Eligible
    <2>2. CASE in.preference = "local_only"
        <3>1. c.location = "local" /\ d.location = "local"
            BY <2>1, <2>2 DEF Admissible, PreferenceEligible
        <3> QED
            BY <3>1, <2>2 DEF Preferred, PreferenceScore
    <2>3. CASE in.preference = "prefer_local"
        BY <2>3 DEF Preferred, PreferenceScore
    <2>4. CASE in.preference = "prefer_cloud"
        BY <2>4 DEF Preferred, PreferenceScore
    <2>5. CASE in.preference = "auto"
        BY <2>5 DEF Preferred, PreferenceScore
    <2> QED
        BY <2>2, <2>3, <2>4, <2>5 DEF Typed, Preferences
<1>2. Fitness(c) = TaskStrength(in.action, c) /\ Fitness(d) = TaskStrength(in.action, d)
    BY FitnessIsStrength DEF Typed
<1>3. ModelMatches(in.model, c) = ModelMatches(in.model, d)
    BY DEF Eligible, ModelMatches
<1> QED
    BY <1>1, <1>2, <1>3

(* The candidate that sorts first is the one the pipeline keeps.           *)
LEMMA PipelineIsSelections ==
    ASSUME Typed
    PROVE  PipelineChoice = Selections(in)
<1> DEFINE score(c) == PreferenceScore(in.preference, c)
           strength(c) == TaskStrength(in.action, c)
           E == Eligible(in)
           Top == {c \in E : \A d \in E : score(c) >= score(d)}
           Second == {c \in Top : \A d \in Top : strength(c) >= strength(d)}
           Third == {c \in Second : \A d \in Second : c.id <= d.id}
<1>1. \A c \in E : /\ score(c) \in 0..1 /\ strength(c) \in 0..6
                   /\ c \in Pool /\ c.id \in Nat
    BY ScoreBounds, PoolAssumption DEF Typed, Eligible, Admissible
<1>2. PipelineChoice = Third
    <2>1. Best(ByModel, Preferred) = Top
        BY FiltersAreEligible, RanksAgree DEF Best
    <2>2. Best(Top, Fitness) = Second
        BY RanksAgree DEF Best
    <2>3. Best(Second, LowestId) = Third
        BY <1>1 DEF Best, LowestId
    <2> QED
        BY <2>1, <2>2, <2>3 DEF PipelineChoice
<1>3. \A c, d \in E : Before(in, c, d) <=>
        \/ score(c) > score(d)
        \/ /\ score(c) = score(d)
           /\ \/ strength(c) > strength(d)
              \/ strength(c) = strength(d) /\ c.id < d.id
    <2> SUFFICES ASSUME NEW c \in E, NEW d \in E
                 PROVE Before(in, c, d) <=>
                        \/ score(c) > score(d)
                        \/ /\ score(c) = score(d)
                           /\ \/ strength(c) > strength(d)
                              \/ strength(c) = strength(d) /\ c.id < d.id
        OBVIOUS
    <2>1. ModelMatches(in.model, c) = ModelMatches(in.model, d)
        BY RanksAgree
    <2> QED
        BY <2>1 DEF Before
<1>4. Selections(in) = {c \in E : \A d \in E \ {c} : Before(in, c, d)}
    BY DEF Selections
<1> HIDE DEF score, strength, E
<1>5. ASSUME NEW c \in Selections(in) PROVE c \in Third
    <2>1. c \in E /\ \A d \in E \ {c} : Before(in, c, d)
        BY <1>4
    <2>2. c \in Top
        BY <2>1, <1>1, <1>3
    <2>3. c \in Second
        BY <2>1, <2>2, <1>1, <1>3
    <2> QED
        BY <2>1, <2>3, <1>1, <1>3
<1>6. ASSUME NEW c \in Third PROVE c \in Selections(in)
    <2> SUFFICES ASSUME NEW d \in E \ {c} PROVE Before(in, c, d)
        BY <1>4
    <2>1. c \in E /\ score(c) \in Int /\ score(d) \in Int
          /\ strength(c) \in Int /\ strength(d) \in Int
          /\ c.id \in Nat /\ d.id \in Nat /\ c.id # d.id
        BY <1>1, PoolAssumption
    <2>2. CASE d \notin Top
        <3>1. PICK e \in E : score(e) > score(d)
            BY <2>2, <1>1
        <3>2. score(c) >= score(e) /\ score(e) \in Int
            BY <3>1, <1>1
        <3> QED
            BY <2>1, <3>1, <3>2, <1>3
    <2>3. CASE d \in Top \ Second
        <3>1. PICK e \in Top : strength(e) > strength(d)
            BY <2>3, <1>1
        <3>2. strength(c) >= strength(e) /\ strength(e) \in Int
            BY <3>1, <1>1
        <3>3. score(c) = score(d)
            BY <2>1, <2>3
        <3> QED
            BY <2>1, <3>1, <3>2, <3>3, <1>3
    <2>4. CASE d \in Second
        <3>1. score(c) = score(d) /\ strength(c) = strength(d) /\ c.id <= d.id
            BY <2>1, <2>4
        <3> QED
            BY <2>1, <3>1, <1>3
    <2> QED
        BY <2>2, <2>3, <2>4
<1> QED
    BY <1>2, <1>5, <1>6

(* Decide sorts once, with a compound comparison; what it chooses is what  *)
(* the filters and ranks of ADR-005, applied one after the other, leave,   *)
(* for every catalog and request.                                          *)
THEOREM ChoiceTheorem == Decisions => []ChoiceFollowsPipeline
<1>1. Typed => ChoiceFollowsPipeline
    BY PipelineIsSelections DEF Typed, ChoiceFollowsPipeline
<1> QED
    BY <1>1, TypedInvariant, PTL

-----------------------------------------------------------------------------
(* Induction over the rounds of a loop, by sets: what holds before the     *)
(* first round and is kept by each holds after all.                        *)
LEMMA RoundByRound ==
    ASSUME NEW n \in Nat, NEW T, 0 \in T, \A k \in 1..n : k - 1 \in T => k \in T
    PROVE  0..n \subseteq T
<1> SUFFICES ASSUME (0..n) \ T # {} PROVE FALSE
    OBVIOUS
<1>1. PICK k \in (0..n) \ T : \A m \in (0..n) \ T : k <= m
    <2>1. (0..n) \ T \in SUBSET Nat
        OBVIOUS
    <2> QED
        BY <2>1, LeastExists
<1>2. k # 0
    OBVIOUS
<1>3. k - 1 \in 0..n /\ k \in 1..n /\ ~(k <= k - 1)
    BY <1>2
<1>4. k - 1 \in T
    BY <1>1, <1>3
<1> QED
    BY <1>3, <1>4

(* A loop whose rounds keep to a set of states has a result: the function  *)
(* its recursive definition chooses satisfies that definition.             *)
Loops(f, n, S, first, round) ==
    /\ f \in [0..n -> S]
    /\ f[0] = first
    /\ \A k \in 1..n : f[k] = round[k][f[k - 1]]

LEMMA LoopExists ==
    ASSUME NEW n \in Nat, NEW S, NEW first \in S, NEW round \in [1..n -> [S -> S]]
    PROVE  \E f : Loops(f, n, S, first, round)
<1> DEFINE T == {m \in 0..n : \E f : Loops(f, m, S, first, round)}
<1>1. 0 \in T
    <2> DEFINE f == [k \in 0..0 |-> first]
    <2>1. f \in [0..0 -> S] /\ f[0] = first
        OBVIOUS
    <2>2. Loops(f, 0, S, first, round)
        BY <2>1 DEF Loops
    <2> QED
        BY <2>2
<1>2. ASSUME NEW m \in 1..n, m - 1 \in T PROVE m \in T
    <2>1. PICK f : Loops(f, m - 1, S, first, round)
        BY <1>2
    <2> DEFINE g == [k \in 0..m |-> IF k = m THEN round[m][f[m - 1]] ELSE f[k]]
    <2>2. /\ f \in [0..(m - 1) -> S] /\ f[0] = first
          /\ \A k \in 1..(m - 1) : f[k] = round[k][f[k - 1]]
        BY <2>1 DEF Loops
    <2>3. round[m][f[m - 1]] \in S
        <3>1. f[m - 1] \in S
            BY <2>2
        <3> QED
            BY <3>1
    <2>4. g \in [0..m -> S]
        BY <2>2, <2>3
    <2>5. \A k \in 0..(m - 1) : g[k] = f[k]
        OBVIOUS
    <2>6. g[m] = round[m][f[m - 1]]
        OBVIOUS
    <2>7. ASSUME NEW k \in 1..m PROVE g[k] = round[k][g[k - 1]]
        <3>1. k - 1 \in 0..(m - 1)
            OBVIOUS
        <3>2. CASE k = m
            BY <3>1, <3>2, <2>5, <2>6
        <3>3. CASE k # m
            <4>1. k \in 1..(m - 1) /\ k \in 0..(m - 1)
                BY <3>3
            <4> QED
                BY <2>2, <2>5, <3>1, <4>1
        <3> QED
            BY <3>2, <3>3
    <2>8. g[0] = first
        BY <2>2, <2>5
    <2> HIDE DEF g
    <2>9. Loops(g, m, S, first, round)
        BY <2>4, <2>7, <2>8 DEF Loops
    <2>10. m \in 0..n
        OBVIOUS
    <2> QED
        BY <2>9, <2>10
<1> HIDE DEF T
<1>3. 0..n \subseteq T
    BY <1>1, <1>2, RoundByRound
<1> QED
    BY <1>3 DEF T

-----------------------------------------------------------------------------
(* Compilation of the context.  A round that does not stop takes the next  *)
(* result, and a loop that stops is out of room or has truncated.          *)
Packs == [sources : Seq(Results), length : Nat, truncated : BOOLEAN, full : BOOLEAN]

Packed(results, budget, k, p) ==
    /\ p.length <= budget
    /\ Len(p.sources) <= k
    /\ \A i \in 1..Len(p.sources) : p.sources[i] = results[i]
    /\ ~p.full => Len(p.sources) = k
    /\ p.full => p.truncated \/ p.length >= budget

(* A section is cut to what is available, with its mark.                   *)
LEMMA TrimmedFits ==
    ASSUME NEW c \in Results, NEW available \in Int, NEW blank \in Nat
    PROVE  /\ Trimmed(c, available, blank) \in Nat
           /\ Trimmed(c, available, blank) # 0 =>
                Trimmed(c, available, blank) <= available /\ available > 1
<1> DEFINE limit == available - Reference(c) - 1
           kept == limit - Suffix - blank
<1>1. Reference(c) \in Nat /\ Text(c) \in Nat
    BY TextAssumption
<1>2. CASE limit <= 0
    BY <1>1, <1>2 DEF Trimmed
<1>3. CASE limit > 0 /\ Text(c) <= limit
    <2>1. Trimmed(c, available, blank) = Reference(c) + 1 + Text(c)
        BY <1>1, <1>3 DEF Trimmed
    <2> QED
        BY <1>1, <1>3, <2>1
<1>4. CASE limit > 0 /\ Text(c) > limit /\ limit <= Suffix
    <2>1. Trimmed(c, available, blank) = 0
        BY <1>1, <1>4 DEF Trimmed
    <2> QED
        BY <2>1
<1>5. CASE limit > 0 /\ Text(c) > limit /\ limit > Suffix
    <2>1. Trimmed(c, available, blank) =
                Reference(c) + 1 + (IF kept < 0 THEN 0 ELSE kept) + Suffix
        BY <1>1, <1>5 DEF Trimmed, Suffix
    <2> QED
        BY <1>1, <1>5, <2>1 DEF Suffix
<1> QED
    BY <1>1, <1>2, <1>3, <1>4, <1>5 DEF Suffix

LEMMA PackRound ==
    ASSUME NEW results \in Seq(Results), NEW budget \in Nat, NEW blank \in Nat,
           NEW k \in 1..Len(results), NEW p \in Packs
    PROVE  /\ Pack(budget, blank, p, results[k]) \in Packs
           /\ Packed(results, budget, k - 1, p) =>
                Packed(results, budget, k, Pack(budget, blank, p, results[k]))
<1> DEFINE c == results[k]
           remaining == budget - p.length
           lead == IF p.sources = <<>> THEN 0 ELSE Separator
           section == lead + Reference(c) + 1 + Text(c)
           available == IF remaining >= lead THEN remaining - lead ELSE remaining
           cut == Trimmed(c, available, blank)
           taken(length, truncated) ==
                [sources |-> Append(p.sources, c), length |-> p.length + length,
                 truncated |-> truncated, full |-> p.length + length >= budget]
           stopped == [sources |-> p.sources, length |-> p.length,
                       truncated |-> TRUE, full |-> TRUE]
<1>1. c \in Results /\ Reference(c) \in Nat /\ Text(c) \in Nat
    <2>1. c \in Results
        BY ElementOfSeq
    <2> QED
        BY <2>1, TextAssumption
<1>2. /\ p.sources \in Seq(Results) /\ p.length \in Nat
      /\ p.truncated \in BOOLEAN /\ p.full \in BOOLEAN /\ Len(p.sources) \in Nat
    BY DEF Packs
<1>3. lead \in 0..2 /\ remaining \in Int /\ available \in Int /\ section \in Nat
    BY SMTT(30), <1>1, <1>2 DEF Separator
<1>4. cut \in Nat /\ (cut # 0 => cut <= available /\ available > 1)
    BY <1>1, <1>3, TrimmedFits
<1>5. cut # 0 => lead + cut <= remaining
    BY SMTT(30), <1>3, <1>4
<1>6. Pack(budget, blank, p, c) =
        CASE p.full -> p
          [] ~p.full /\ section <= remaining -> taken(section, p.truncated)
          [] ~p.full /\ section > remaining /\ cut = 0 -> stopped
          [] OTHER -> taken(lead + cut, TRUE)
    BY DEF Pack
<1> HIDE DEF c, remaining, lead, section, available, cut
<1>7. ASSUME NEW length \in Nat, NEW truncated \in BOOLEAN, ~p.full, length <= remaining
      PROVE  /\ taken(length, truncated) \in Packs
             /\ Packed(results, budget, k - 1, p) =>
                    Packed(results, budget, k, taken(length, truncated))
    <2>1. /\ Append(p.sources, c) \in Seq(Results)
          /\ Len(Append(p.sources, c)) = Len(p.sources) + 1
          /\ \A i \in 1..Len(p.sources) : Append(p.sources, c)[i] = p.sources[i]
          /\ Append(p.sources, c)[Len(p.sources) + 1] = c
        BY <1>1, <1>2, AppendProperties
    <2>2. taken(length, truncated) \in Packs
        BY <1>2, <2>1 DEF Packs
    <2>3. ASSUME Packed(results, budget, k - 1, p)
          PROVE  Packed(results, budget, k, taken(length, truncated))
        <3>1. Len(p.sources) = k - 1
            BY <1>7, <2>3 DEF Packed
        <3>2. p.length + length <= budget
            BY <1>2, <1>7 DEF remaining
        <3>3. \A i \in 1..k : Append(p.sources, c)[i] = results[i]
            <4>1. \A i \in 1..(k - 1) : Append(p.sources, c)[i] = results[i]
                BY <2>1, <2>3, <3>1 DEF Packed
            <4>2. Append(p.sources, c)[k] = results[k]
                BY <2>1, <3>1 DEF c
            <4>3. \A i \in 1..k : i \in 1..(k - 1) \/ i = k
                OBVIOUS
            <4> QED
                BY <4>1, <4>2, <4>3
        <3> QED
            BY <2>1, <3>1, <3>2, <3>3 DEF Packed
    <2> QED
        BY <2>2, <2>3
<1>8. CASE p.full
    BY <1>2, <1>6, <1>8 DEF Packed, c
<1>9. CASE ~p.full /\ section <= remaining
    <2>1. Pack(budget, blank, p, c) = taken(section, p.truncated)
        BY <1>3, <1>6, <1>9
    <2> QED
        BY <1>2, <1>3, <1>7, <1>9, <2>1 DEF c
<1>10. CASE ~p.full /\ section > remaining /\ cut = 0
    <2>1. Pack(budget, blank, p, c) = stopped
        BY <1>3, <1>6, <1>10
    <2>2. stopped \in Packs
        BY <1>2 DEF Packs
    <2> QED
        BY <1>2, <1>10, <2>1, <2>2 DEF Packed, c
<1>11. CASE ~p.full /\ section > remaining /\ cut # 0
    <2>1. Pack(budget, blank, p, c) = taken(lead + cut, TRUE)
        BY <1>3, <1>6, <1>11
    <2>2. lead + cut \in Nat
        BY <1>3, <1>4
    <2> QED
        BY <1>5, <1>7, <1>11, <2>1, <2>2 DEF c
<1> QED
    BY <1>3, <1>8, <1>9, <1>10, <1>11

LEMMA CompileSound ==
    ASSUME NEW results \in Seq(Results), NEW budget \in Nat \ {0}, NEW blank \in Nat
    PROVE  /\ CompileContext(results, budget, blank) \in Packs
           /\ Packed(results, budget, Len(results), CompileContext(results, budget, blank))
<1> DEFINE n == Len(results)
           packed[k \in 0..n] ==
                IF k = 0 THEN Nothing ELSE Pack(budget, blank, packed[k - 1], results[k])
           round == [k \in 1..n |-> [p \in Packs |-> Pack(budget, blank, p, results[k])]]
<1>1. n \in Nat /\ Nothing \in Packs
    BY EmptySeq DEF Nothing, Packs
<1>2. round \in [1..n -> [Packs -> Packs]]
    BY PackRound
<1>3. PICK f : Loops(f, n, Packs, Nothing, round)
    <2> HIDE DEF round, n
    <2> QED
        BY <1>1, <1>2, LoopExists
<1>4. /\ f \in [0..n -> Packs] /\ f[0] = Nothing
      /\ \A k \in 1..n : f[k] = round[k][f[k - 1]]
    BY <1>3 DEF Loops
<1>5. ASSUME NEW k \in 1..n PROVE f[k] = Pack(budget, blank, f[k - 1], results[k])
    <2>1. f[k - 1] \in Packs
        BY <1>1, <1>4
    <2>2. round[k][f[k - 1]] = Pack(budget, blank, f[k - 1], results[k])
        BY <2>1
    <2> QED
        BY <1>4, <2>2
<1>6. f = [k \in 0..n |-> IF k = 0 THEN Nothing ELSE Pack(budget, blank, f[k - 1], results[k])]
    <2>1. \A k \in 0..n : k = 0 \/ k \in 1..n
        BY <1>1
    <2> QED
        BY <1>4, <1>5, <2>1
<1>7. packed = [k \in 0..n |-> IF k = 0 THEN Nothing ELSE Pack(budget, blank, packed[k - 1], results[k])]
    BY <1>6, Zenon
<1>8. packed[0] = Nothing /\ \A k \in 1..n : packed[k] = Pack(budget, blank, packed[k - 1], results[k])
    <2>1. 0 \in 0..n /\ \A k \in 1..n : k \in 0..n /\ k # 0
        BY <1>1
    <2> HIDE DEF packed
    <2> QED
        BY <1>7, <2>1
<1> HIDE DEF packed, round
<1> DEFINE T == {k \in 0..n : packed[k] \in Packs /\ Packed(results, budget, k, packed[k])}
<1>9. 0 \in T
    <2>1. Packed(results, budget, 0, Nothing)
        BY EmptySeq DEF Packed, Nothing
    <2> QED
        BY <1>1, <1>8, <2>1
<1>10. ASSUME NEW k \in 1..n, k - 1 \in T PROVE k \in T
    <2>1. packed[k - 1] \in Packs /\ Packed(results, budget, k - 1, packed[k - 1])
        BY <1>10
    <2>2. packed[k] = Pack(budget, blank, packed[k - 1], results[k])
        BY <1>8
    <2>3. packed[k] \in Packs /\ Packed(results, budget, k, packed[k])
        BY <2>1, <2>2, PackRound
    <2> QED
        BY <2>3
<1>11. 0..n \subseteq T
    <2> HIDE DEF T
    <2> QED
        BY <1>1, <1>9, <1>10, RoundByRound
<1>12. CompileContext(results, budget, blank) = packed[n]
    BY DEF CompileContext, packed
<1> QED
    BY <1>1, <1>11, <1>12

-----------------------------------------------------------------------------
(* The fusion.  What Fusions caps is an arrangement of all that was found: *)
(* each chunk once, and none behind one that both searches rank behind it. *)
FoundIn(vectors, keywords) == ToSet(vectors) \cup ToSet(keywords)

Beats(vectors, keywords, c, d) ==
    /\ c # d
    /\ Place(vectors, c) <= Place(vectors, d)
    /\ Place(keywords, c) <= Place(keywords, d)

Arranged(s, vectors, keywords) ==
    /\ s \in Seq(Results) /\ IsInjective(s) /\ ToSet(s) = FoundIn(vectors, keywords)
    /\ \A i, j \in 1..Len(s) : Beats(vectors, keywords, s[i], s[j]) => i < j

(* A ranking holds each of its chunks at one place.                        *)
LEMMA RankingIs ==
    ASSUME NEW s \in Rankings
    PROVE  s \in Seq(Results) /\ Len(s) <= MaxRank /\ IsInjective(s)
<1>1. PICK n \in 0..MaxRank : s \in [1..n -> Results]
    BY DEF Rankings
<1>2. MaxRank \in Nat
    BY TextAssumption
<1>3. s \in Seq(Results)
    BY <1>1, <1>2, SeqDef
<1>4. Len(s) = n
    BY <1>1, <1>2, <1>3
<1> QED
    BY <1>1, <1>2, <1>3, <1>4 DEF Rankings

LEMMA PlaceIs ==
    ASSUME NEW s \in Seq(Results), IsInjective(s), Len(s) <= MaxRank
    PROVE  /\ \A i \in 1..Len(s) : Place(s, s[i]) = i /\ Rank(s, s[i]) = i
           /\ \A c : c \notin ToSet(s) => Place(s, c) = MaxRank + 1 /\ Rank(s, c) = 0
           /\ \A c \in ToSet(s) : \E i \in 1..Len(s) : c = s[i]
<1>1. DOMAIN s = 1..Len(s)
    OBVIOUS
<1>2. ASSUME NEW i \in 1..Len(s) PROVE Place(s, s[i]) = i /\ Rank(s, s[i]) = i
    <2>1. s[i] \in ToSet(s)
        BY <1>1 DEF ToSet
    <2>2. \A j \in DOMAIN s : s[j] = s[i] => j = i
        BY <1>1 DEF IsInjective
    <2>3. (CHOOSE j \in DOMAIN s : s[j] = s[i]) = i
        BY <1>1, <2>2
    <2> QED
        BY <2>1, <2>3 DEF Place, Rank
<1>3. \A c : c \notin ToSet(s) => Place(s, c) = MaxRank + 1 /\ Rank(s, c) = 0
    BY DEF Place, Rank
<1>4. \A c \in ToSet(s) : \E i \in 1..Len(s) : c = s[i]
    BY <1>1 DEF ToSet
<1> QED
    BY <1>2, <1>3, <1>4

(* The better rank has the larger share.                                   *)
LEMMA DivisionExact ==
    ASSUME NEW r \in 1..MaxRank
    PROVE  (Unit \div r) * r = Unit /\ Unit \div r \in Nat \ {0}
<1>1. Unit \in Nat \ {0} /\ MaxRank \in Nat
    BY TextAssumption
<1>2. r \in Nat \ {0}
    BY <1>1
<1>3. Unit % r = 0
    BY TextAssumption
<1> QED
    BY <1>1, <1>2, <1>3

LEMMA ShareOrders ==
    ASSUME NEW s \in Seq(Results), IsInjective(s), Len(s) <= MaxRank,
           NEW c, NEW d, NEW w \in Nat \ {0}
    PROVE  /\ Share(w, Rank(s, c)) \in Nat
           /\ Place(s, c) <= Place(s, d) => Share(w, Rank(s, c)) >= Share(w, Rank(s, d))
           /\ Place(s, c) < Place(s, d) => Share(w, Rank(s, c)) > Share(w, Rank(s, d))
<1>1. MaxRank \in Nat /\ Len(s) \in Nat
    BY TextAssumption
<1>2. ASSUME NEW x
      PROVE  \/ Place(s, x) = MaxRank + 1 /\ Rank(s, x) = 0 /\ Share(w, Rank(s, x)) = 0
             \/ /\ Place(s, x) \in 1..MaxRank /\ Rank(s, x) = Place(s, x)
                /\ Share(w, Rank(s, x)) = w * (Unit \div Place(s, x))
    <2>1. CASE x \notin ToSet(s)
        BY <2>1, PlaceIs DEF Share
    <2>2. CASE x \in ToSet(s)
        <3>1. PICK i \in 1..Len(s) : x = s[i]
            BY <2>2, PlaceIs
        <3>2. Place(s, x) = i /\ Rank(s, x) = i /\ i \in 1..MaxRank /\ i # 0
            BY <1>1, <3>1, PlaceIs
        <3> QED
            BY <3>2 DEF Share
    <2> QED
        BY <2>1, <2>2
<1>3. ASSUME NEW i \in 1..MaxRank
      PROVE  w * (Unit \div i) \in Nat \ {0}
    <2>1. Unit \div i \in Nat \ {0}
        BY DivisionExact
    <2> QED
        BY <2>1
<1>4. ASSUME NEW i \in 1..MaxRank, NEW j \in 1..MaxRank, i < j
      PROVE  w * (Unit \div i) > w * (Unit \div j)
    <2> DEFINE p == Unit \div i
               q == Unit \div j
    <2>1. p * i = Unit /\ q * j = Unit /\ p \in Nat \ {0} /\ q \in Nat \ {0}
        BY DivisionExact
    <2> HIDE DEF p, q
    <2>2. p > q
        <3>1. i \in Nat \ {0} /\ j \in Nat \ {0} /\ p * i = q * j
            BY <1>1, <2>1
        <3> QED
            BY <1>4, <2>1, <3>1
    <2>3. w * p > w * q
        BY <2>1, <2>2
    <2> QED
        BY <2>3 DEF p, q
<1>5. Share(w, Rank(s, c)) \in Nat
    BY <1>2, <1>3
<1>6. CASE Place(s, d) = MaxRank + 1 /\ Share(w, Rank(s, d)) = 0
    BY <1>1, <1>2, <1>3, <1>6
<1>7. CASE Place(s, d) \in 1..MaxRank /\ Share(w, Rank(s, d)) = w * (Unit \div Place(s, d))
    <2>1. CASE Place(s, c) = MaxRank + 1
        BY <1>1, <1>7, <2>1, <1>5
    <2>2. CASE Place(s, c) \in 1..MaxRank /\ Share(w, Rank(s, c)) = w * (Unit \div Place(s, c))
        <3>1. CASE Place(s, c) < Place(s, d)
            <4>1. w * (Unit \div Place(s, c)) > w * (Unit \div Place(s, d))
                BY <1>4, <1>7, <2>2, <3>1
            <4>2. w * (Unit \div Place(s, c)) \in Nat /\ w * (Unit \div Place(s, d)) \in Nat
                BY <1>3, <1>7, <2>2
            <4> QED
                BY <1>5, <1>7, <2>2, <4>1, <4>2
        <3>2. CASE Place(s, c) = Place(s, d)
            <4>1. Share(w, Rank(s, c)) = Share(w, Rank(s, d))
                BY <1>7, <2>2, <3>2
            <4> QED
                BY <1>5, <1>7, <3>2, <4>1
        <3>3. CASE Place(s, c) > Place(s, d)
            BY <1>5, <1>7, <2>2, <3>3
        <3> QED
            BY <1>7, <2>2, <3>1, <3>2, <3>3
    <2> QED
        BY <1>2, <2>1, <2>2
<1> QED
    BY <1>2, <1>6, <1>7
(* Two chunks have the same place only if neither is there.                *)
LEMMA PlacesDiffer ==
    ASSUME NEW s \in Seq(Results), IsInjective(s), Len(s) <= MaxRank,
           NEW c \in ToSet(s), NEW d, c # d, Place(s, c) <= Place(s, d)
    PROVE  Place(s, c) < Place(s, d)
<1>1. MaxRank \in Nat /\ Len(s) \in Nat
    BY TextAssumption
<1>2. PICK i \in 1..Len(s) : c = s[i]
    BY PlaceIs
<1>3. Place(s, c) = i
    BY <1>2, PlaceIs
<1>4. CASE d \in ToSet(s)
    <2>1. PICK j \in 1..Len(s) : d = s[j]
        BY <1>4, PlaceIs
    <2>2. Place(s, d) = j /\ i # j
        BY <1>2, <2>1, PlaceIs
    <2> QED
        BY <1>3, <2>2
<1>5. CASE d \notin ToSet(s)
    BY <1>1, <1>3, <1>5, PlaceIs
<1> QED
    BY <1>4, <1>5

(* A capped list is the beginning of the list.                             *)
LEMMA CappedIs ==
    ASSUME NEW S, NEW s \in Seq(S), NEW limit \in Nat
    PROVE  /\ Capped(s, limit) \in Seq(S)
           /\ Len(Capped(s, limit)) = IF Len(s) > limit THEN limit ELSE Len(s)
           /\ \A i \in 1..Len(Capped(s, limit)) : i \in 1..Len(s) /\ Capped(s, limit)[i] = s[i]
<1> DEFINE n == IF Len(s) > limit THEN limit ELSE Len(s)
<1>1. n \in Nat /\ n <= Len(s) /\ Len(s) \in Nat
    OBVIOUS
<1>2. \A i \in 1..n : s[i] \in S
    BY <1>1, ElementOfSeq
<1>3. /\ SubSeq(s, 1, n) \in Seq(S)
      /\ Len(SubSeq(s, 1, n)) = IF 1 <= n THEN n - 1 + 1 ELSE 0
      /\ \A i \in 1..(n - 1 + 1) : SubSeq(s, 1, n)[i] = s[1 + i - 1]
    <2> HIDE DEF n
    <2> QED
        BY <1>1, <1>2, SubSeqProperties
<1>4. Capped(s, limit) = SubSeq(s, 1, n)
    BY DEF Capped
<1> HIDE DEF n
<1>5. Len(SubSeq(s, 1, n)) = n
    BY <1>1, <1>3
<1>6. \A i \in 1..n : i \in 1..Len(s) /\ SubSeq(s, 1, n)[i] = s[i]
    <2> TAKE i \in 1..n
    <2>1. i \in 1..(n - 1 + 1) /\ 1 + i - 1 = i /\ i \in 1..Len(s)
        BY <1>1
    <2> QED
        BY <1>3, <2>1
<1> QED
    BY <1>3, <1>4, <1>5, <1>6 DEF n

(* The elements of a list are finitely many.                               *)
LEMMA ListIsFinite ==
    ASSUME NEW S, NEW s \in Seq(S)
    PROVE  IsFiniteSet(ToSet(s))
<1>1. s \in Surjection(1..Len(s), ToSet(s))
    <2>1. DOMAIN s = 1..Len(s) /\ s = [i \in 1..Len(s) |-> s[i]]
        OBVIOUS
    <2>2. s \in [1..Len(s) -> ToSet(s)]
        BY <2>1 DEF ToSet
    <2>3. \A t \in ToSet(s) : \E i \in 1..Len(s) : s[i] = t
        BY <2>1 DEF ToSet
    <2> QED
        BY <2>2, <2>3 DEF Surjection
<1>2. IsFiniteSet(1..Len(s))
    <2>1. 1 \in Int /\ Len(s) \in Int
        OBVIOUS
    <2> QED
        BY <2>1, FS_Interval
<1> QED
    BY <1>1, <1>2, FS_Surjection

(* What both searches rank higher has the higher score.                    *)
LEMMA BetterScores ==
    ASSUME NEW vectors \in Rankings, NEW keywords \in Rankings,
           NEW c \in FoundIn(vectors, keywords), NEW d \in FoundIn(vectors, keywords)
    PROVE  /\ Score(vectors, keywords, c) \in Nat
           /\ Beats(vectors, keywords, c, d) =>
                Score(vectors, keywords, c) > Score(vectors, keywords, d)
<1>1. /\ vectors \in Seq(Results) /\ Len(vectors) <= MaxRank /\ IsInjective(vectors)
      /\ keywords \in Seq(Results) /\ Len(keywords) <= MaxRank /\ IsInjective(keywords)
    BY RankingIs
<1> DEFINE vc == Share(2, Rank(vectors, c))
           vd == Share(2, Rank(vectors, d))
           kc == Share(3, Rank(keywords, c))
           kd == Share(3, Rank(keywords, d))
<1>2. 2 \in Nat \ {0} /\ 3 \in Nat \ {0}
    OBVIOUS
<1>3. /\ vc \in Nat /\ vd \in Nat
      /\ Place(vectors, c) <= Place(vectors, d) => vc >= vd
      /\ Place(vectors, c) < Place(vectors, d) => vc > vd
    BY <1>1, <1>2, ShareOrders
<1>4. /\ kc \in Nat /\ kd \in Nat
      /\ Place(keywords, c) <= Place(keywords, d) => kc >= kd
      /\ Place(keywords, c) < Place(keywords, d) => kc > kd
    BY <1>1, <1>2, ShareOrders
<1>5. /\ Score(vectors, keywords, c) = vc + kc
      /\ Score(vectors, keywords, d) = vd + kd
    BY DEF Score
<1> HIDE DEF vc, vd, kc, kd
<1>6. ASSUME Beats(vectors, keywords, c, d)
      PROVE  Place(vectors, c) < Place(vectors, d) \/ Place(keywords, c) < Place(keywords, d)
    <2>1. /\ c # d /\ Place(vectors, c) <= Place(vectors, d)
          /\ Place(keywords, c) <= Place(keywords, d)
        BY <1>6 DEF Beats
    <2>2. CASE c \in ToSet(vectors)
        BY <1>1, <2>1, <2>2, PlacesDiffer
    <2>3. CASE c \in ToSet(keywords)
        BY <1>1, <2>1, <2>3, PlacesDiffer
    <2> QED
        BY <2>2, <2>3 DEF FoundIn
<1> QED
    BY <1>3, <1>4, <1>5, <1>6 DEF Beats

(* A list in the order of the scores arranges what was found.              *)
LEMMA ScoresArrange ==
    ASSUME NEW vectors \in Rankings, NEW keywords \in Rankings,
           NEW p \in [1..Cardinality(FoundIn(vectors, keywords)) -> FoundIn(vectors, keywords)],
           ToSet(p) = FoundIn(vectors, keywords),
           \A i \in 1..(Len(p) - 1) :
                Score(vectors, keywords, p[i]) >= Score(vectors, keywords, p[i + 1])
    PROVE  Arranged(p, vectors, keywords)
<1> DEFINE found == FoundIn(vectors, keywords)
           n == Cardinality(found)
           score(c) == Score(vectors, keywords, c)
<1>1. vectors \in Seq(Results) /\ keywords \in Seq(Results)
    BY RankingIs
<1>2. found \subseteq Results
    <2>1. ToSet(vectors) \subseteq Results /\ ToSet(keywords) \subseteq Results
        BY <1>1, ElementOfSeq DEF ToSet
    <2> QED
        BY <2>1 DEF FoundIn
<1>3. IsFiniteSet(found) /\ n \in Nat
    <2>1. IsFiniteSet(ToSet(vectors)) /\ IsFiniteSet(ToSet(keywords))
        BY <1>1, ListIsFinite
    <2>2. IsFiniteSet(found)
        BY <2>1, FS_Union DEF FoundIn
    <2> QED
        BY <2>2, FS_CardinalityType
<1>4. \A c \in found : score(c) \in Nat
    BY BetterScores
<1>5. \A c, d \in found : Beats(vectors, keywords, c, d) => score(c) > score(d)
    BY BetterScores
<1> HIDE DEF found, n, score
<1>6. p \in Seq(Results) /\ Len(p) = n /\ DOMAIN p = 1..n /\ \A i \in 1..n : p[i] \in found
    <2>1. p \in [1..n -> found] /\ p \in [1..n -> Results]
        BY <1>2 DEF n, found
    <2>2. p \in Seq(Results)
        BY <1>3, <2>1, SeqDef
    <2>3. DOMAIN p = 1..n /\ \A i \in 1..n : p[i] \in found
        BY <2>1
    <2>4. Len(p) = n
        BY <1>3, <2>2, <2>3, LenProperties
    <2> QED
        BY <2>2, <2>3, <2>4
<1>7. IsInjective(p)
    <2>1. p \in Surjection(1..n, found)
        <3>1. p \in [1..n -> found]
            BY DEF n, found
        <3>2. ToSet(p) = found
            BY DEF found
        <3>3. \A t \in found : \E i \in 1..n : p[i] = t
            BY <1>6, <3>2 DEF ToSet
        <3> QED
            BY <3>1, <3>3 DEF Surjection
    <2>2. IsFiniteSet(1..n) /\ Cardinality(1..n) = n
        <3>1. 1 \in Int /\ n \in Int
            BY <1>3
        <3>2. Cardinality(1..n) = IF 1 > n THEN 0 ELSE n - 1 + 1
            BY <3>1, FS_Interval
        <3> QED
            BY <1>3, <3>1, <3>2, FS_Interval
    <2>3. p \in Injection(1..n, found)
        BY <2>1, <2>2, FS_SurjSameCardinalityImpliesInj DEF n
    <2> QED
        BY <2>3 DEF Injection
<1>8. ASSUME NEW i \in 1..n, NEW j \in 1..n, i <= j PROVE score(p[i]) >= score(p[j])
    <2> DEFINE T == {k \in 0..n : k < i \/ score(p[i]) >= score(p[k])}
    <2>1. 0 \in T
        BY <1>3
    <2>2. ASSUME NEW k \in 1..n, k - 1 \in T PROVE k \in T
        <3>1. CASE k < i
            BY <3>1
        <3>2. CASE k = i
            BY <1>4, <1>6, <3>2
        <3>3. CASE k > i
            <4>1. k - 1 \in 1..n /\ k - 1 \in 1..(Len(p) - 1) /\ k - 1 + 1 = k /\ ~(k - 1 < i)
                BY <1>3, <1>6, <3>3
            <4>2. score(p[k - 1]) >= score(p[k])
                <5>1. score(p[k - 1]) >= score(p[k - 1 + 1])
                    BY <4>1 DEF score
                <5> QED
                    BY <4>1, <5>1
            <4>3. score(p[i]) >= score(p[k - 1])
                BY <2>2, <4>1
            <4>4. score(p[i]) \in Nat /\ score(p[k]) \in Nat /\ score(p[k - 1]) \in Nat
                BY <1>4, <1>6, <4>1
            <4>5. score(p[i]) >= score(p[k])
                BY <4>2, <4>3, <4>4
            <4> QED
                BY <4>5
        <3> QED
            BY <1>3, <3>1, <3>2, <3>3
    <2>3. 0..n \subseteq T
        <3> HIDE DEF T
        <3> QED
            BY <1>3, <2>1, <2>2, RoundByRound
    <2>4. j \in T
        BY <1>3, <2>3
    <2> QED
        BY <1>3, <1>8, <2>4
<1>9. ASSUME NEW i \in 1..n, NEW j \in 1..n, Beats(vectors, keywords, p[i], p[j])
      PROVE  i < j
    <2>1. score(p[i]) > score(p[j]) /\ score(p[i]) \in Nat /\ score(p[j]) \in Nat
        BY <1>4, <1>5, <1>6, <1>9
    <2>2. j <= i => score(p[j]) >= score(p[i])
        BY <1>8
    <2> QED
        BY <1>3, <2>1, <2>2
<1> QED
    BY <1>6, <1>7, <1>9 DEF Arranged, found

(* Every fusion is the beginning of such an arrangement.                   *)
LEMMA FusionArranges ==
    ASSUME NEW vectors \in Rankings, NEW keywords \in Rankings, NEW limit \in Nat,
           NEW fused \in Fusions(vectors, keywords, limit)
    PROVE  \E s : Arranged(s, vectors, keywords) /\ fused = Capped(s, limit)
<1>1. /\ vectors \in Seq(Results) /\ Len(vectors) <= MaxRank /\ IsInjective(vectors)
      /\ keywords \in Seq(Results) /\ Len(keywords) <= MaxRank /\ IsInjective(keywords)
    BY RankingIs
<1>2. ToSet(<<>>) = {}
    BY DEF ToSet
<1>3. CASE vectors = <<>>
    <2>1. FoundIn(vectors, keywords) = ToSet(keywords)
        BY <1>2, <1>3 DEF FoundIn
    <2>2. \A i, j \in 1..Len(keywords) :
                Beats(vectors, keywords, keywords[i], keywords[j]) => i < j
        BY <1>1, PlaceIs DEF Beats
    <2>3. Arranged(keywords, vectors, keywords)
        BY <1>1, <2>1, <2>2 DEF Arranged
    <2> QED
        BY <1>3, <2>3 DEF Fusions
<1>4. CASE vectors # <<>> /\ keywords = <<>>
    <2>1. FoundIn(vectors, keywords) = ToSet(vectors)
        BY <1>2, <1>4 DEF FoundIn
    <2>2. \A i, j \in 1..Len(vectors) :
                Beats(vectors, keywords, vectors[i], vectors[j]) => i < j
        BY <1>1, PlaceIs DEF Beats
    <2>3. Arranged(vectors, vectors, keywords)
        BY <1>1, <2>1, <2>2 DEF Arranged
    <2> QED
        BY <1>4, <2>3 DEF Fusions
<1>5. CASE vectors # <<>> /\ keywords # <<>>
    <2>1. PICK p \in [1..Cardinality(FoundIn(vectors, keywords)) -> FoundIn(vectors, keywords)] :
            /\ ToSet(p) = FoundIn(vectors, keywords)
            /\ \A i \in 1..(Len(p) - 1) :
                    Score(vectors, keywords, p[i]) >= Score(vectors, keywords, p[i + 1])
            /\ fused = Capped(p, limit)
        BY <1>5 DEF Fusions, FoundIn
    <2>2. Arranged(p, vectors, keywords)
        BY <2>1, ScoresArrange
    <2> QED
        BY <2>1, <2>2
<1> QED
    BY <1>3, <1>4, <1>5

(* What the beginning of an arrangement shows of the whole.                *)
LEMMA FusionSound ==
    ASSUME NEW vectors \in Rankings, NEW keywords \in Rankings, NEW limit \in 1..MaxRank,
           NEW fused \in Fusions(vectors, keywords, limit)
    PROVE  /\ fused \in Seq(Results)
           /\ IsInjective(fused) /\ ToSet(fused) \subseteq FoundIn(vectors, keywords)
           /\ Len(fused) = limit \/ ToSet(fused) = FoundIn(vectors, keywords)
           /\ \A c, d \in FoundIn(vectors, keywords) : Beats(vectors, keywords, c, d) =>
                Place(fused, c) < Place(fused, d) \/ d \notin ToSet(fused)
<1>1. limit \in Nat /\ MaxRank \in Nat /\ limit <= MaxRank
    BY TextAssumption
<1>2. PICK s : Arranged(s, vectors, keywords) /\ fused = Capped(s, limit)
    BY <1>1, FusionArranges
<1>3. /\ s \in Seq(Results) /\ IsInjective(s) /\ ToSet(s) = FoundIn(vectors, keywords)
      /\ DOMAIN s = 1..Len(s) /\ Len(s) \in Nat
      /\ \A i, j \in 1..Len(s) : Beats(vectors, keywords, s[i], s[j]) => i < j
    BY <1>2 DEF Arranged
<1>4. /\ fused \in Seq(Results)
      /\ Len(fused) = IF Len(s) > limit THEN limit ELSE Len(s)
      /\ \A i \in 1..Len(fused) : i \in 1..Len(s) /\ fused[i] = s[i]
    BY <1>1, <1>2, <1>3, CappedIs
<1>5. DOMAIN fused = 1..Len(fused) /\ Len(fused) \in Nat /\ Len(fused) <= MaxRank
    BY <1>1, <1>3, <1>4
<1>6. IsInjective(fused)
    BY <1>3, <1>4, <1>5 DEF IsInjective
<1>7. ToSet(fused) \subseteq ToSet(s)
    BY <1>3, <1>4, <1>5 DEF ToSet
<1>8. Len(fused) = limit \/ ToSet(fused) = ToSet(s)
    <2>1. CASE Len(s) > limit
        BY <1>4, <2>1
    <2>2. CASE ~(Len(s) > limit)
        <3>1. Len(fused) = Len(s)
            BY <1>4, <2>2
        <3> QED
            BY <1>3, <1>4, <1>5, <3>1 DEF ToSet
    <2> QED
        BY <2>1, <2>2
<1>9. ASSUME NEW c \in ToSet(s), NEW d \in ToSet(fused), Beats(vectors, keywords, c, d)
      PROVE  Place(fused, c) < Place(fused, d)
    <2>1. PICK j \in 1..Len(fused) : d = fused[j]
        BY <1>5 DEF ToSet
    <2>2. PICK i \in 1..Len(s) : c = s[i]
        BY <1>3 DEF ToSet
    <2>3. i < j
        <3>1. j \in 1..Len(s) /\ d = s[j]
            BY <1>4, <2>1
        <3> QED
            BY <1>3, <1>9, <2>2, <3>1
    <2>4. i \in 1..Len(fused) /\ c = fused[i]
        BY <1>3, <1>4, <1>5, <2>1, <2>2, <2>3
    <2>5. Place(fused, c) = i /\ Place(fused, d) = j
        BY <1>4, <1>5, <1>6, <2>1, <2>4, PlaceIs
    <2> QED
        BY <2>3, <2>5
<1> QED
    BY <1>3, <1>4, <1>6, <1>7, <1>8, <1>9

-----------------------------------------------------------------------------
(* A call remembers the function that made it.                             *)
LEMMA Origin ==
    ASSUME Next
    PROVE  /\ call'.name = "fuse" => Fuse
           /\ call'.name = "compile" => Compile
           /\ call'.name = "scan" => ScanMatches
           /\ call'.name = "chunk" => Chunk
           /\ call'.name = "trim" => Trim
           /\ call'.name = "snip" => Snip
           /\ call'.name = "package" => Package
<1>1. Fuse => call'.name = "fuse"
    BY DEF Fuse
<1>2. Compile => call'.name = "compile"
    BY DEF Compile
<1>3. ScanMatches => call'.name = "scan"
    BY DEF ScanMatches
<1>4. Chunk => call'.name = "chunk"
    BY DEF Chunk
<1>5. Trim => call'.name = "trim"
    BY DEF Trim
<1>6. Snip => call'.name = "snip"
    BY DEF Snip
<1>7. Package => call'.name = "package"
    BY DEF Package
<1> QED
    BY <1>1, <1>2, <1>3, <1>4, <1>5, <1>6, <1>7 DEF Next

FusionSafe ==
    /\ FusionIsFaithful
    /\ Called("fuse") => call.fused \in Seq(Results)

LEMMA FuseStep ==
    ASSUME Fuse
    PROVE  FusionSafe'
<1>1. PICK vectors \in Rankings, keywords \in Rankings, limit \in 1..MaxRank :
        \E fused \in Fusions(vectors, keywords, limit) :
            call' = [name |-> "fuse", vectors |-> vectors, keywords |-> keywords,
                     limit |-> limit, fused |-> fused]
    BY DEF Fuse
<1>2. PICK fused \in Fusions(vectors, keywords, limit) :
            call' = [name |-> "fuse", vectors |-> vectors, keywords |-> keywords,
                     limit |-> limit, fused |-> fused]
    BY <1>1
<1>3. /\ call'.vectors = vectors /\ call'.keywords = keywords
      /\ call'.limit = limit /\ call'.fused = fused /\ call'.name = "fuse"
    BY <1>2
<1>4. /\ fused \in Seq(Results)
      /\ IsInjective(fused) /\ ToSet(fused) \subseteq FoundIn(vectors, keywords)
      /\ Len(fused) = limit \/ ToSet(fused) = FoundIn(vectors, keywords)
      /\ \A c, d \in FoundIn(vectors, keywords) : Beats(vectors, keywords, c, d) =>
            Place(fused, c) < Place(fused, d) \/ d \notin ToSet(fused)
    BY FusionSound
<1>5. Found' = FoundIn(vectors, keywords)
    BY <1>3 DEF Found, FoundIn
<1>6. FusionRespectsBoth'
    BY <1>3, <1>4, <1>5 DEF FusionRespectsBoth, Beats
<1>7. FusionIsFull'
    BY <1>3, <1>4, <1>5 DEF FusionIsFull
<1> QED
    BY <1>3, <1>4, <1>6, <1>7 DEF FusionSafe, FusionIsFaithful

LEMMA FusionInvariant == Spec => []FusionSafe
<1>1. Init => FusionSafe
    BY DEF Init, FusionSafe, FusionIsFaithful, FusionRespectsBoth, FusionIsFull, Called
<1>2. FusionSafe /\ [Next]_vars => FusionSafe'
    <2> SUFFICES ASSUME FusionSafe, [Next]_vars PROVE FusionSafe'
        OBVIOUS
    <2>1. CASE Next /\ call'.name = "fuse"
        BY <2>1, Origin, FuseStep
    <2>2. CASE Next /\ call'.name # "fuse"
        BY <2>2 DEF FusionSafe, FusionIsFaithful, FusionRespectsBoth, FusionIsFull, Called
    <2>3. CASE UNCHANGED vars
        BY <2>3 DEF vars, FusionSafe, FusionIsFaithful, FusionRespectsBoth, FusionIsFull,
            Called, Found
    <2> QED
        BY <2>1, <2>2, <2>3
<1> QED
    BY <1>1, <1>2, PTL DEF Spec

(* The fusion of two rankings is a ranking of all they found: whatever the *)
(* two searches return, a chunk that both rank higher comes first.         *)
THEOREM FusionTheorem == Spec => []FusionIsFaithful
<1>1. FusionSafe => FusionIsFaithful
    BY DEF FusionSafe
<1> QED
    BY <1>1, FusionInvariant, PTL

LEMMA CompileStep ==
    ASSUME Compile, FusionSafe
    PROVE  ContextIsTheBest'
<1>1. /\ Called("fuse") /\ call.fused \in Seq(Results)
    BY DEF Compile, FusionSafe
<1>2. PICK blank \in {0, 1}, budget \in 1..MaxBudget :
        call' = [name |-> "compile", fused |-> call.fused, budget |-> budget,
                 compiled |-> CompileContext(call.fused, budget, blank)]
    BY DEF Compile
<1> DEFINE fused == call.fused
           compiled == CompileContext(fused, budget, blank)
<1>3. budget \in Nat \ {0} /\ blank \in Nat
    <2>1. MaxBudget \in Nat
        BY TextAssumption
    <2> QED
        BY <2>1
<1>4. compiled \in Packs /\ Packed(fused, budget, Len(fused), compiled)
    BY <1>1, <1>3, CompileSound
<1>5. call'.name = "compile" /\ call'.fused = fused /\ call'.budget = budget
      /\ call'.compiled = compiled
    BY <1>2
<1> HIDE DEF compiled
<1> DEFINE sources == compiled.sources
<1>6. sources \in Seq(Results) /\ compiled.length \in Nat
    BY <1>4 DEF Packs
<1>7. /\ compiled.length <= budget /\ Len(sources) <= Len(fused)
      /\ \A i \in 1..Len(sources) : sources[i] = fused[i]
      /\ ~compiled.full => Len(sources) = Len(fused)
      /\ compiled.full => compiled.truncated \/ compiled.length >= budget
    BY <1>4 DEF Packed
<1> HIDE DEF sources, fused
<1>8. IsPrefix(sources, fused)
    <2>1. Len(sources) \in Nat /\ Len(fused) \in Nat
        BY <1>1, <1>6 DEF fused
    <2>2. SubSeq(sources, 1, Len(sources)) = SubSeq(fused, 1, Len(sources))
        BY <1>1, <1>6, <1>7, <2>1 DEF fused
    <2> QED
        BY <1>7, <2>2 DEF IsPrefix
<1>9. Len(sources) = Len(fused) => sources = fused
    <2> SUFFICES ASSUME Len(sources) = Len(fused) PROVE sources = fused
        OBVIOUS
    <2> QED
        BY <1>1, <1>6, <1>7, SeqEqual DEF fused
<1>10. budget > compiled.length /\ sources # fused => compiled.truncated
    BY <1>3, <1>6, <1>7, <1>9
<1>11. ContextWithinBudget'
    BY <1>5, <1>7 DEF ContextWithinBudget
<1>12. SourcesAreTheBest'
    BY <1>5, <1>8, <1>10 DEF SourcesAreTheBest, sources
<1> QED
    BY <1>11, <1>12 DEF ContextIsTheBest

(* The context holds the best results its budget has room for: never more  *)
(* than max_context_chars, never a lower result where a better one did not *)
(* fit, and one that leaves out a result although there was room says so.  *)
(* One that is filled exactly need not (CompileContext).                   *)
THEOREM ContextTheorem == Spec => []ContextIsTheBest
<1>1. Init => ContextIsTheBest
    BY DEF Init, ContextIsTheBest, ContextWithinBudget, SourcesAreTheBest, Called
<1>2. ContextIsTheBest /\ FusionSafe /\ [Next]_vars => ContextIsTheBest'
    <2> SUFFICES ASSUME ContextIsTheBest, FusionSafe, [Next]_vars PROVE ContextIsTheBest'
        OBVIOUS
    <2>1. CASE Next /\ call'.name = "compile"
        BY <2>1, Origin, CompileStep
    <2>2. CASE Next /\ call'.name # "compile"
        BY <2>2 DEF ContextIsTheBest, ContextWithinBudget, SourcesAreTheBest, Called
    <2>3. CASE UNCHANGED vars
        BY <2>3 DEF vars, ContextIsTheBest, ContextWithinBudget, SourcesAreTheBest, Called
    <2> QED
        BY <2>1, <2>2, <2>3
<1> QED
    BY <1>1, <1>2, FusionInvariant, PTL DEF Spec

-----------------------------------------------------------------------------
(* The greater and the smaller of two numbers.                             *)
LEMMA MaxOfTwo ==
    ASSUME NEW a \in Int, NEW b \in Int
    PROVE  /\ Max({a, b}) = IF a >= b THEN a ELSE b
           /\ Min({a, b}) = IF a <= b THEN a ELSE b
<1>1. \A x \in {a, b} : (\A y \in {a, b} : x >= y) <=> x = IF a >= b THEN a ELSE b
    OBVIOUS
<1>2. \A x \in {a, b} : (\A y \in {a, b} : x <= y) <=> x = IF a <= b THEN a ELSE b
    OBVIOUS
<1>3. (IF a >= b THEN a ELSE b) \in {a, b} /\ (IF a <= b THEN a ELSE b) \in {a, b}
    OBVIOUS
<1>4. Max({a, b}) = IF a >= b THEN a ELSE b
    BY <1>1, <1>3 DEF Max
<1>5. Min({a, b}) = IF a <= b THEN a ELSE b
    BY <1>2, <1>3 DEF Min
<1> QED
    BY <1>4, <1>5

(* Wherever a match lies, and even when lower-casing places it behind the  *)
(* end of the text, the window has the full length, lies within the text   *)
(* and shows the match or the end.                                         *)
THEOREM SnippetTheorem == Spec => []SnippetShowsMatch
<1>1. Init => SnippetShowsMatch
    BY DEF Init, SnippetShowsMatch, Called
<1>2. SnippetShowsMatch /\ [Next]_vars => SnippetShowsMatch'
    <2> SUFFICES ASSUME SnippetShowsMatch, [Next]_vars PROVE SnippetShowsMatch'
        OBVIOUS
    <2>1. ASSUME Snip PROVE SnippetShowsMatch'
        <3>1. PICK length \in 1..(2 * MaxChars), limit \in 1..MaxChars : \E index \in 0..(length + 2) :
                /\ length > limit
                /\ call' = [name |-> "snip", length |-> length, index |-> index, limit |-> limit,
                            window |-> Window(length, index, limit)]
            BY <2>1 DEF Snip
        <3>2. PICK index \in 0..(length + 2) :
                /\ length > limit
                /\ call' = [name |-> "snip", length |-> length, index |-> index, limit |-> limit,
                            window |-> Window(length, index, limit)]
            BY <3>1
        <3>3. length \in Nat /\ limit \in Nat \ {0} /\ index \in Nat /\ length > limit
            <4>1. MaxChars \in Nat
                BY TextAssumption
            <4> QED
                BY <3>2, <4>1
        <3>4. limit \div 2 \in Nat /\ limit \div 2 < limit
            BY <3>3
        <3> DEFINE half == limit \div 2
                   start == IF index - half >= 0 THEN index - half ELSE 0
        <3>5. Max({index - half, 0}) = start
            <4>1. index - half \in Int /\ 0 \in Int
                BY <3>3, <3>4
            <4> QED
                BY <4>1, MaxOfTwo
        <3>6. Max({length - limit, 0}) = length - limit
            <4>1. length - limit \in Int /\ 0 \in Int /\ length - limit >= 0
                BY <3>3
            <4> QED
                BY <4>1, MaxOfTwo
        <3>7. Window(length, index, limit) =
                IF start + limit > length
                THEN [first |-> length - limit + 1, last |-> length]
                ELSE [first |-> start + 1, last |-> start + limit]
            BY <3>5, <3>6 DEF Window
        <3> DEFINE window == Window(length, index, limit)
        <3> HIDE DEF half
        <3>8. start \in Nat /\ start <= index /\ index < start + limit
            BY <3>3, <3>4 DEF half
        <3> HIDE DEF start
        <3>9. /\ window.first \in 1..length /\ window.last \in 1..length
              /\ window.last - window.first + 1 = limit
              /\ index < length => index + 1 \in window.first..window.last
              /\ index >= length => window.last = length
            <4>1. CASE start + limit > length
                <5>1. window.first = length - limit + 1 /\ window.last = length
                    BY <3>7, <4>1
                <5> HIDE DEF window
                <5> QED
                    BY <3>3, <3>8, <4>1, <5>1
            <4>2. CASE ~(start + limit > length)
                <5>1. window.first = start + 1 /\ window.last = start + limit
                    BY <3>7, <4>2
                <5> HIDE DEF window
                <5> QED
                    BY <3>3, <3>8, <4>2, <5>1
            <4> QED
                BY <4>1, <4>2
        <3>10. /\ call'.length = length /\ call'.index = index /\ call'.limit = limit
               /\ call'.window = window
            BY <3>2
        <3> QED
            BY <3>9, <3>10 DEF SnippetShowsMatch
    <2>2. CASE Next /\ call'.name = "snip"
        BY <2>1, <2>2, Origin
    <2>3. CASE Next /\ call'.name # "snip"
        BY <2>3 DEF SnippetShowsMatch, Called
    <2>4. CASE UNCHANGED vars
        BY <2>4 DEF vars, SnippetShowsMatch, Called
    <2> QED
        BY <2>2, <2>3, <2>4
<1> QED
    BY <1>1, <1>2, PTL DEF Spec

-----------------------------------------------------------------------------
(* The chunks of a file: after a round of the loop they hold the lines     *)
(* before its next window, in order and each at most once.                 *)
Chunks == Seq([ordinal : Nat, first : Nat, last : Nat])
Windows == [start : Nat, chunks : Chunks]

NextWindow(lines, size, p) ==
    IF p.start >= Len(lines) THEN p
    ELSE [start |-> p.start + size, chunks |-> AddChunk(lines, size, p.chunks, p.start)]

InChunk(chunks, k, i) == i \in chunks[k].first..chunks[k].last

Cut(lines, size, p) ==
    /\ \A k \in 1..Len(p.chunks) :
        /\ p.chunks[k].ordinal = k - 1
        /\ p.chunks[k].first >= 1
        /\ p.chunks[k].last \in p.chunks[k].first..(p.chunks[k].first + size - 1)
        /\ p.chunks[k].last <= p.start
    /\ \A j, k \in 1..Len(p.chunks) : j < k => p.chunks[j].last < p.chunks[k].first
    /\ \A i \in 1..Len(lines) : i <= p.start /\ lines[i] = "text" =>
        \E k \in 1..Len(p.chunks) : InChunk(p.chunks, k, i)

LEMMA ChunkRound ==
    ASSUME NEW lines \in Seq({"empty", "text"}), NEW size \in Nat \ {0}, NEW p \in Windows
    PROVE  /\ NextWindow(lines, size, p) \in Windows
           /\ Cut(lines, size, p) => Cut(lines, size, NextWindow(lines, size, p))
<1>1. p.start \in Nat /\ p.chunks \in Chunks /\ Len(p.chunks) \in Nat /\ Len(lines) \in Nat
    BY DEF Windows, Chunks
<1>2. CASE p.start >= Len(lines)
    BY <1>2 DEF NextWindow
<1>3. CASE p.start < Len(lines)
    <2> DEFINE start == p.start
               chunks == p.chunks
               end == WindowEnd(lines, size, start)
               added == [ordinal |-> Len(chunks), first |-> start + 1, last |-> end]
               more == Append(chunks, added)
               next == NextWindow(lines, size, p)
    <2>1. end \in Nat /\ start < end /\ end <= start + size /\ end <= Len(lines)
          /\ (end = start + size \/ end = Len(lines))
        BY <1>1, <1>3 DEF WindowEnd
    <2>2. /\ next = [start |-> start + size, chunks |-> AddChunk(lines, size, chunks, start)]
          /\ AddChunk(lines, size, chunks, start) =
                IF end = start + 1 /\ lines[end] = "empty" THEN chunks ELSE more
        BY <1>1, <1>3 DEF NextWindow, AddChunk
    <2>3. added \in [ordinal : Nat, first : Nat, last : Nat]
        BY <1>1, <2>1
    <2>4. /\ more \in Chunks /\ Len(more) = Len(chunks) + 1
          /\ \A k \in 1..Len(chunks) : more[k] = chunks[k]
          /\ more[Len(chunks) + 1] = added
        BY <1>1, <2>3, AppendProperties DEF Chunks
    <2>5. next \in Windows
        BY <1>1, <2>2, <2>4 DEF Windows
    <2>6. added.ordinal = Len(chunks) /\ added.first = start + 1 /\ added.last = end
        OBVIOUS
    <2>7. \A k \in 1..Len(chunks) : chunks[k].last \in Nat
        <3>1. \A k \in 1..Len(chunks) : chunks[k] \in [ordinal : Nat, first : Nat, last : Nat]
            BY <1>1, ElementOfSeq DEF Chunks
        <3> QED
            BY <3>1
    <2> HIDE DEF end, added, more, next
    <2>8. ASSUME Cut(lines, size, p), end = start + 1, lines[end] = "empty"
          PROVE  Cut(lines, size, next)
        <3>1. next.start = start + size /\ next.chunks = chunks
            BY <2>2, <2>8
        <3>2. ASSUME NEW i \in 1..Len(lines), i <= start + size, lines[i] = "text"
              PROVE  i <= start
            BY <1>1, <2>1, <2>8, <3>2
        <3>3. \A k \in 1..Len(chunks) : chunks[k].last <= start + size
            <4> TAKE k \in 1..Len(chunks)
            <4>1. chunks[k].last <= start /\ chunks[k].last \in Nat
                BY <2>8, <2>7 DEF Cut
            <4> QED
                BY <1>1, <4>1
        <3> QED
            BY <2>8, <3>1, <3>2, <3>3 DEF Cut
    <2>9. ASSUME Cut(lines, size, p), ~(end = start + 1 /\ lines[end] = "empty")
          PROVE  Cut(lines, size, next)
        <3>1. next.start = start + size /\ next.chunks = more
            BY <2>2, <2>9
        <3>2. \A k \in 1..Len(chunks) : chunks[k].last \in Nat /\ chunks[k].last <= start
            BY <2>9, <2>7 DEF Cut
        <3>3. \A k \in 1..Len(more) : k \in 1..Len(chunks) \/ k = Len(chunks) + 1
            BY <1>1, <2>4
        <3>4. ASSUME NEW k \in 1..Len(more)
              PROVE  /\ more[k].ordinal = k - 1
                     /\ more[k].first >= 1
                     /\ more[k].last \in more[k].first..(more[k].first + size - 1)
                     /\ more[k].last <= start + size
            <4>1. CASE k \in 1..Len(chunks)
                <5>1. more[k] = chunks[k]
                    BY <2>4, <4>1
                <5>2. more[k].last <= start + size
                    BY <1>1, <3>2, <4>1, <5>1
                <5> QED
                    BY <2>9, <4>1, <5>1, <5>2 DEF Cut
            <4>2. CASE k = Len(chunks) + 1
                <5>1. more[k] = added
                    BY <2>4, <4>2
                <5> QED
                    BY <1>1, <2>1, <2>6, <4>2, <5>1
            <4> QED
                BY <3>3, <4>1, <4>2
        <3>5. ASSUME NEW j \in 1..Len(more), NEW k \in 1..Len(more), j < k
              PROVE  more[j].last < more[k].first
            <4>1. j \in 1..Len(chunks) /\ more[j] = chunks[j]
                BY <1>1, <2>4, <3>3, <3>5
            <4>2. CASE k \in 1..Len(chunks)
                BY <2>4, <2>9, <3>5, <4>1, <4>2 DEF Cut
            <4>3. CASE k = Len(chunks) + 1
                <5>1. more[k].first = start + 1
                    BY <2>4, <2>6, <4>3
                <5>2. more[j].last \in Nat /\ more[j].last <= start
                    BY <3>2, <4>1
                <5>3. start \in Nat
                    BY <1>1
                <5> QED
                    BY <5>1, <5>2, <5>3
            <4> QED
                BY <3>3, <4>2, <4>3
        <3>6. ASSUME NEW i \in 1..Len(lines), i <= start + size, lines[i] = "text"
              PROVE  \E k \in 1..Len(more) : InChunk(more, k, i)
            <4>1. CASE i <= start
                <5>1. PICK k \in 1..Len(chunks) : InChunk(chunks, k, i)
                    BY <2>9, <3>6, <4>1 DEF Cut
                <5>2. k \in 1..Len(more) /\ more[k] = chunks[k]
                    BY <1>1, <2>4, <5>1
                <5> QED
                    BY <5>1, <5>2 DEF InChunk
            <4>2. CASE i > start
                <5>1. i \in (start + 1)..end
                    BY <1>1, <2>1, <3>6, <4>2
                <5>2. Len(chunks) + 1 \in 1..Len(more)
                    BY <1>1, <2>4
                <5>3. InChunk(more, Len(chunks) + 1, i)
                    BY <2>4, <2>6, <5>1 DEF InChunk
                <5> QED
                    BY <5>2, <5>3
            <4> QED
                BY <1>1, <4>1, <4>2
        <3> QED
            BY <3>1, <3>4, <3>5, <3>6 DEF Cut
    <2>10. Cut(lines, size, p) => Cut(lines, size, next)
        BY <2>8, <2>9
    <2> QED
        BY <2>5, <2>10 DEF next
<1> QED
    BY <1>1, <1>2, <1>3

LEMMA ChunkFileSound ==
    ASSUME NEW lines \in Seq({"empty", "text"}), lines # <<>>, NEW size \in Nat \ {0},
           NEW linesPerChunk, size = IF linesPerChunk < 1 THEN DefaultLines ELSE linesPerChunk
    PROVE  \/ lines = <<"empty">> /\ ChunkFile(lines, linesPerChunk) = <<>>
           \/ \E p \in Windows : /\ ChunkFile(lines, linesPerChunk) = p.chunks
                                 /\ Cut(lines, size, p) /\ p.start >= Len(lines)
<1> DEFINE n == Len(lines)
           first == [start |-> 0, chunks |-> <<>>]
           loop[k \in 0..n] ==
                IF k = 0 THEN first
                ELSE IF loop[k - 1].start >= n THEN loop[k - 1]
                ELSE [start |-> loop[k - 1].start + size,
                      chunks |-> AddChunk(lines, size, loop[k - 1].chunks, loop[k - 1].start)]
           round == [k \in 1..n |-> [p \in Windows |-> NextWindow(lines, size, p)]]
<1>1. n \in Nat /\ first \in Windows
    BY EmptySeq DEF Windows, Chunks
<1>2. round \in [1..n -> [Windows -> Windows]]
    BY ChunkRound
<1>3. PICK f : Loops(f, n, Windows, first, round)
    <2> HIDE DEF round, n, first
    <2> QED
        BY <1>1, <1>2, LoopExists
<1>4. /\ f \in [0..n -> Windows] /\ f[0] = first
      /\ \A k \in 1..n : f[k] = round[k][f[k - 1]]
    BY <1>3 DEF Loops
<1>5. ASSUME NEW k \in 1..n PROVE f[k] = NextWindow(lines, size, f[k - 1])
    <2>1. f[k - 1] \in Windows
        BY <1>1, <1>4
    <2>2. round[k][f[k - 1]] = NextWindow(lines, size, f[k - 1])
        BY <2>1
    <2> QED
        BY <1>4, <2>2
<1>6. f = [k \in 0..n |->
                IF k = 0 THEN first
                ELSE IF f[k - 1].start >= n THEN f[k - 1]
                ELSE [start |-> f[k - 1].start + size,
                      chunks |-> AddChunk(lines, size, f[k - 1].chunks, f[k - 1].start)]]
    <2>1. \A k \in 0..n : k = 0 \/ k \in 1..n
        BY <1>1
    <2> HIDE DEF first
    <2> QED
        BY <1>4, <1>5, <2>1 DEF NextWindow
<1>7. loop = [k \in 0..n |->
                IF k = 0 THEN first
                ELSE IF loop[k - 1].start >= n THEN loop[k - 1]
                ELSE [start |-> loop[k - 1].start + size,
                      chunks |-> AddChunk(lines, size, loop[k - 1].chunks, loop[k - 1].start)]]
    BY <1>6, Zenon
<1>8. loop[0] = first /\ \A k \in 1..n : loop[k] = NextWindow(lines, size, loop[k - 1])
    <2>1. 0 \in 0..n /\ \A k \in 1..n : k \in 0..n /\ k # 0
        BY <1>1
    <2> HIDE DEF loop, first
    <2> QED
        BY <1>7, <2>1 DEF NextWindow
<1>9. lines # <<"empty">> => ChunkFile(lines, linesPerChunk) = loop[n].chunks
    BY DEF ChunkFile
<1> HIDE DEF loop, round, first
<1> DEFINE T == {k \in 0..n : /\ loop[k] \in Windows /\ Cut(lines, size, loop[k])
                              /\ loop[k].start >= k \/ loop[k].start >= n}
<1>10. 0 \in T
    <2>1. first.start = 0 /\ first.chunks = <<>>
        BY DEF first
    <2>2. Cut(lines, size, first)
        BY <2>1, EmptySeq DEF Cut
    <2> QED
        BY <1>1, <1>8, <2>1, <2>2
<1>11. ASSUME NEW k \in 1..n, k - 1 \in T PROVE k \in T
    <2> DEFINE p == loop[k - 1]
    <2>1. p \in Windows /\ Cut(lines, size, p) /\ (p.start >= k - 1 \/ p.start >= n)
        BY <1>11
    <2>2. loop[k] = NextWindow(lines, size, p)
        BY <1>8
    <2>3. loop[k] \in Windows /\ Cut(lines, size, loop[k])
        BY <2>1, <2>2, ChunkRound
    <2>4. loop[k].start >= k \/ loop[k].start >= n
        <3>1. p.start \in Nat
            BY <2>1 DEF Windows
        <3> HIDE DEF p
        <3>2. CASE p.start >= n
            BY <2>2, <3>2 DEF NextWindow
        <3>3. CASE ~(p.start >= n)
            <4>1. loop[k].start = p.start + size
                BY <2>2, <3>3 DEF NextWindow
            <4> QED
                BY <1>1, <2>1, <3>1, <3>3, <4>1
        <3> QED
            BY <3>2, <3>3
    <2> QED
        BY <2>3, <2>4
<1>12. 0..n \subseteq T
    <2> HIDE DEF T
    <2> QED
        BY <1>1, <1>10, <1>11, RoundByRound
<1>13. loop[n] \in Windows /\ Cut(lines, size, loop[n]) /\ loop[n].start >= n
    <2>1. n \in T
        BY <1>1, <1>12
    <2> QED
        BY <2>1
<1>14. lines = <<"empty">> => ChunkFile(lines, linesPerChunk) = <<>>
    BY DEF ChunkFile
<1> QED
    BY <1>9, <1>13, <1>14

(* A line in no chunk or in one is in so many.                             *)
LEMMA AtMostOnce ==
    ASSUME NEW S, \A j, k \in S : j = k
    PROVE  Cardinality(S) \in {0, 1} /\ (S # {} => Cardinality(S) = 1)
<1>1. CASE S = {}
    BY <1>1, FS_EmptySet
<1>2. CASE S # {}
    <2>1. PICK x : x \in S
        BY <1>2
    <2>2. S = {x}
        BY <2>1
    <2> QED
        BY <2>1, <2>2, FS_Singleton
<1> QED
    BY <1>1, <1>2

(* The chunks of a file hold each line that is not empty once and in       *)
(* order, none longer than the setting, numbered without a gap.            *)
THEOREM ChunksTheorem == Spec => []ChunksHoldTheFile
<1>1. Init => ChunksHoldTheFile
    BY DEF Init, ChunksHoldTheFile, Called
<1>2. ChunksHoldTheFile /\ [Next]_vars => ChunksHoldTheFile'
    <2> SUFFICES ASSUME ChunksHoldTheFile, [Next]_vars PROVE ChunksHoldTheFile'
        OBVIOUS
    <2>1. ASSUME Chunk PROVE ChunksHoldTheFile'
        <3>1. PICK n \in 1..MaxLines, perChunk \in 0..(MaxLines + 1) :
                \E lines \in [1..n -> {"empty", "text"}] :
                    call' = [name |-> "chunk", lines |-> lines, size |-> perChunk,
                             chunks |-> ChunkFile(lines, perChunk)]
            BY <2>1 DEF Chunk
        <3>2. PICK lines \in [1..n -> {"empty", "text"}] :
                    call' = [name |-> "chunk", lines |-> lines, size |-> perChunk,
                             chunks |-> ChunkFile(lines, perChunk)]
            BY <3>1
        <3> DEFINE chunks == ChunkFile(lines, perChunk)
                   size == IF perChunk < 1 THEN DefaultLines ELSE perChunk
                   within(i) == {k \in DOMAIN chunks : i \in chunks[k].first..chunks[k].last}
        <3>3. n \in Nat /\ n >= 1 /\ perChunk \in Nat
            <4>1. MaxLines \in Nat
                BY TextAssumption
            <4> QED
                BY <4>1
        <3>4. lines \in Seq({"empty", "text"}) /\ Len(lines) = n /\ DOMAIN lines = 1..n
            <4>1. lines \in Seq({"empty", "text"})
                BY <3>3, SeqDef
            <4>2. DOMAIN lines = 1..n
                OBVIOUS
            <4>3. Len(lines) \in Nat /\ DOMAIN lines = 1..Len(lines)
                BY <4>1, LenProperties
            <4> QED
                BY <3>3, <4>1, <4>2, <4>3
        <3>5. size \in Nat \ {0}
            BY <3>3, ChunkingAssumption
        <3>6. lines # <<>>
            BY <3>3, <3>4, EmptySeq
        <3>7. /\ call'.lines = lines /\ call'.size = perChunk /\ call'.chunks = chunks
            BY <3>2
        <3>8. \/ lines = <<"empty">> /\ chunks = <<>>
              \/ \E p \in Windows : chunks = p.chunks /\ Cut(lines, size, p) /\ p.start >= n
            <4> HIDE DEF size
            <4>1. size = IF perChunk < 1 THEN DefaultLines ELSE perChunk
                BY DEF size
            <4> QED
                BY <3>4, <3>5, <3>6, <4>1, ChunkFileSound
        <3> HIDE DEF chunks, size
        <3>9. /\ \A i \in 1..n : Cardinality(within(i)) \in
                        IF lines[i] = "text" THEN {1} ELSE {0, 1}
              /\ \A k \in DOMAIN chunks :
                    /\ chunks[k].ordinal = k - 1
                    /\ chunks[k].last \in chunks[k].first..(chunks[k].first + size - 1)
                    /\ k > 1 => chunks[k - 1].last < chunks[k].first
            <4>1. CASE lines = <<"empty">> /\ chunks = <<>>
                <5>1. DOMAIN chunks = {} /\ n = 1 /\ lines[1] = "empty"
                    BY <3>4, <4>1
                <5>2. \A i \in 1..n : within(i) = {}
                    BY <5>1
                <5> HIDE DEF within
                <5> QED
                    BY <5>1, <5>2, FS_EmptySet
            <4>2. ASSUME NEW p \in Windows, chunks = p.chunks, Cut(lines, size, p), p.start >= n
                  PROVE  /\ \A i \in 1..n : Cardinality(within(i)) \in
                                IF lines[i] = "text" THEN {1} ELSE {0, 1}
                         /\ \A k \in DOMAIN chunks :
                            /\ chunks[k].ordinal = k - 1
                            /\ chunks[k].last \in chunks[k].first..(chunks[k].first + size - 1)
                            /\ k > 1 => chunks[k - 1].last < chunks[k].first
                <5>1. /\ chunks \in Chunks /\ Len(chunks) \in Nat /\ DOMAIN chunks = 1..Len(chunks)
                      /\ p.start \in Nat
                    BY <4>2 DEF Windows, Chunks
                <5>2. ASSUME NEW k \in 1..Len(chunks)
                      PROVE  /\ chunks[k].ordinal = k - 1
                             /\ chunks[k].last \in chunks[k].first..(chunks[k].first + size - 1)
                             /\ chunks[k].first \in Nat /\ chunks[k].last \in Nat
                             /\ k > 1 => chunks[k - 1].last < chunks[k].first
                    <6>1. chunks[k] \in [ordinal : Nat, first : Nat, last : Nat]
                        BY <5>1, ElementOfSeq DEF Chunks
                    <6>2. k > 1 => k - 1 \in 1..Len(chunks) /\ k - 1 < k
                        BY <5>1
                    <6> QED
                        BY <4>2, <6>1, <6>2 DEF Cut
                <5>3. ASSUME NEW i \in 1..n
                      PROVE  Cardinality(within(i)) \in IF lines[i] = "text" THEN {1} ELSE {0, 1}
                    <6>1. ASSUME NEW j \in within(i), NEW k \in within(i), j < k PROVE FALSE
                        <7>1. j \in 1..Len(chunks) /\ k \in 1..Len(chunks)
                              /\ i <= chunks[j].last /\ chunks[k].first <= i
                            BY <5>1, <5>2
                        <7>2. chunks[j].last < chunks[k].first
                            BY <4>2, <6>1, <7>1 DEF Cut
                        <7>3. chunks[j].last \in Nat /\ chunks[k].first \in Nat
                            BY <5>2, <7>1
                        <7> QED
                            BY <7>1, <7>2, <7>3
                    <6>2. \A j, k \in within(i) : j = k
                        <7>1. \A j \in within(i) : j \in Nat
                            BY <5>1
                        <7> HIDE DEF within
                        <7> QED
                            BY <6>1, <7>1
                    <6>3. lines[i] = "text" => within(i) # {}
                        <7> SUFFICES ASSUME lines[i] = "text" PROVE within(i) # {}
                            OBVIOUS
                        <7>1. i \in 1..Len(lines) /\ i <= p.start
                            BY <3>3, <3>4, <4>2, <5>1
                        <7>2. PICK k \in 1..Len(chunks) : InChunk(chunks, k, i)
                            BY <4>2, <7>1 DEF Cut
                        <7> QED
                            BY <5>1, <7>2 DEF InChunk
                    <6> HIDE DEF within
                    <6> QED
                        BY <6>2, <6>3, AtMostOnce
                <5> QED
                    BY <5>1, <5>2, <5>3
            <4> QED
                BY <3>8, <4>1, <4>2
        <3> QED
            BY <3>4, <3>7, <3>9 DEF ChunksHoldTheFile, size
    <2>2. CASE Next /\ call'.name = "chunk"
        BY <2>1, <2>2, Origin
    <2>3. CASE Next /\ call'.name # "chunk"
        BY <2>3 DEF ChunksHoldTheFile, Called
    <2>4. CASE UNCHANGED vars
        BY <2>4 DEF vars, ChunksHoldTheFile, Called
    <2> QED
        BY <2>2, <2>3, <2>4
<1> QED
    BY <1>1, <1>2, PTL DEF Spec

-----------------------------------------------------------------------------
(* Texts.  A tidy text neither begins nor ends with a blank.               *)
Chars == {Blank, Letter, Dot, Bracket}

Tidy(text) == text = <<>> \/ (text[1] # Blank /\ text[Len(text)] # Blank)

LEMMA GreatestExists ==
    ASSUME NEW n \in Nat, NEW S \in SUBSET (0..n), S # {}
    PROVE  \E x \in S : \A y \in S : x >= y
<1> DEFINE T == {n - x : x \in S}
<1>1. T \in SUBSET Nat /\ T # {}
    <2>1. \A x \in S : n - x \in Nat
        OBVIOUS
    <2> QED
        BY <2>1
<1>2. PICK t \in T : \A u \in T : t <= u
    <2> HIDE DEF T
    <2> QED
        BY <1>1, LeastExists
<1>3. PICK x \in S : t = n - x
    OBVIOUS
<1>4. \A y \in S : n - y \in T /\ y \in 0..n
    OBVIOUS
<1>5. ASSUME NEW y \in S PROVE x >= y
    <2>1. n - x <= n - y /\ x \in 0..n /\ y \in 0..n
        BY <1>2, <1>3, <1>4
    <2> QED
        BY <2>1
<1> QED
    BY <1>5

LEMMA TrimSpaceIs ==
    ASSUME NEW text \in Seq(Chars)
    PROVE  /\ TrimSpace(text) \in Seq(Chars)
           /\ Len(TrimSpace(text)) <= Len(text)
           /\ Tidy(TrimSpace(text))
           /\ Tidy(text) => TrimSpace(text) = text
<1> DEFINE n == Len(text)
           shown == {i \in DOMAIN text : text[i] # Blank}
<1>1. n \in Nat /\ DOMAIN text = 1..n /\ \A i \in 1..n : text[i] \in Chars
    BY ElementOfSeq
<1>2. CASE shown = {}
    <2>1. TrimSpace(text) = <<>>
        BY <1>2 DEF TrimSpace
    <2>2. text # <<>> => 1 \in 1..n
        BY <1>1, EmptySeq
    <2>3. Tidy(text) => text = <<>>
        BY <1>1, <1>2, <2>2 DEF Tidy
    <2> QED
        BY <1>1, <2>1, <2>3, EmptySeq DEF Tidy
<1>3. CASE shown # {}
    <2>1. \E x \in shown : \A y \in shown : x <= y
        <3>1. shown \in SUBSET Nat
            BY <1>1
        <3> HIDE DEF shown
        <3> QED
            BY <1>3, <3>1, LeastExists
    <2>2. \E x \in shown : \A y \in shown : x >= y
        <3>1. shown \in SUBSET (0..n)
            BY <1>1
        <3> HIDE DEF shown, n
        <3> QED
            BY <1>1, <1>3, <3>1, GreatestExists
    <2> DEFINE first == Min(shown)
               last == Max(shown)
    <2>3. first \in shown /\ \A y \in shown : first <= y
        <3> HIDE DEF shown
        <3> QED
            BY <2>1 DEF Min
    <2>4. last \in shown /\ \A y \in shown : last >= y
        <3> HIDE DEF shown
        <3> QED
            BY <2>2 DEF Max
    <2>5. TrimSpace(text) = SubSeq(text, first, last)
        BY <1>3 DEF TrimSpace
    <2> HIDE DEF first, last
    <2>6. first \in 1..n /\ last \in 1..n /\ first <= last
          /\ text[first] # Blank /\ text[last] # Blank
        BY <1>1, <2>3, <2>4
    <2> DEFINE cut == SubSeq(text, first, last)
    <2>7. /\ cut \in Seq(Chars)
          /\ Len(cut) = last - first + 1
          /\ \A i \in 1..(last - first + 1) : cut[i] = text[first + i - 1]
        <3>1. /\ first \in Int /\ last \in Int /\ first <= last
              /\ \A i \in first..last : text[i] \in Chars
            BY <1>1, <2>6
        <3> HIDE DEF n, shown
        <3>2. /\ SubSeq(text, first, last) \in Seq(Chars)
              /\ Len(SubSeq(text, first, last)) = IF first <= last THEN last - first + 1 ELSE 0
              /\ \A i \in 1..(last - first + 1) : SubSeq(text, first, last)[i] = text[first + i - 1]
            BY <3>1, SubSeqProperties
        <3> QED
            BY <3>1, <3>2
    <2> HIDE DEF cut
    <2>8. Len(cut) \in 1..n
        BY <1>1, <2>6, <2>7
    <2>9. cut[1] # Blank /\ cut[Len(cut)] # Blank
        <3>1. 1 \in 1..(last - first + 1) /\ first + 1 - 1 = first
              /\ last - first + 1 \in 1..(last - first + 1)
              /\ first + (last - first + 1) - 1 = last
            BY <1>1, <2>6
        <3>2. cut[1] = text[first] /\ cut[last - first + 1] = text[last]
            BY <2>7, <3>1
        <3> QED
            BY <2>6, <2>7, <3>2
    <2>10. Tidy(text) => cut = text
        <3> SUFFICES ASSUME Tidy(text) PROVE cut = text
            OBVIOUS
        <3>1. text # <<>> /\ 1 \in 1..n /\ n \in 1..n
            BY <1>1, <2>6, EmptySeq
        <3>2. 1 \in shown /\ n \in shown
            BY <1>1, <3>1 DEF Tidy
        <3>3. first = 1 /\ last = n
            BY <1>1, <2>3, <2>4, <2>6, <3>2
        <3> QED
            BY <3>3, SubSeqFull DEF cut
    <2> QED
        BY <1>1, <2>5, <2>7, <2>8, <2>9, <2>10 DEF cut, Tidy
<1> QED
    BY <1>2, <1>3

(* A cut text keeps to the limit; beyond the mark's length it is tidy and  *)
(* cutting it again leaves it.                                             *)
LEMMA TrimTextIs ==
    ASSUME NEW value \in Seq(Chars), NEW limit \in Nat
    PROVE  /\ TrimText(value, limit) \in Seq(Chars)
           /\ limit > 0 => Len(TrimText(value, limit)) <= limit
           /\ limit > MarkLength =>
                /\ TrimText(TrimText(value, limit), limit) = TrimText(value, limit)
                /\ TrimSpace(TrimText(value, limit)) = <<>> <=> TrimSpace(value) = <<>>
<1> DEFINE text == TrimSpace(value)
           trimmed == TrimText(value, limit)
<1>1. text \in Seq(Chars) /\ Len(text) \in Nat /\ Tidy(text) /\ TrimSpace(text) = text
    <2>1. text \in Seq(Chars) /\ Tidy(text)
        BY TrimSpaceIs
    <2> HIDE DEF text
    <2>2. TrimSpace(text) = text
        BY <2>1, TrimSpaceIs
    <2> QED
        BY <2>1, <2>2
<1>2. MarkLength \in Nat \ {0}
    BY PackageAssumption
<1>3. ASSUME NEW t \in Seq(Chars), Tidy(t), Len(t) <= limit
      PROVE  TrimText(t, limit) = t
    <2>1. TrimSpace(t) = t
        BY <1>3, TrimSpaceIs
    <2> QED
        BY <1>3, <2>1 DEF TrimText
<1>4. CASE limit < 1 \/ Len(text) <= limit
    <2>1. trimmed = text
        BY <1>4 DEF TrimText
    <2> HIDE DEF text, trimmed
    <2>2. limit > MarkLength => TrimText(text, limit) = text
        BY <1>1, <1>2, <1>3, <1>4
    <2> QED
        BY <1>1, <1>4, <2>1, <2>2 DEF trimmed, text
<1>5. ASSUME ~(limit < 1 \/ Len(text) <= limit), limit <= MarkLength
      PROVE  trimmed \in Seq(Chars) /\ Len(trimmed) <= limit
    <2>1. trimmed = SubSeq(text, 1, limit)
        BY <1>5 DEF TrimText
    <2> HIDE DEF text, trimmed
    <2>2. /\ 1 \in Int /\ limit \in Int /\ 1 <= limit /\ limit - 1 + 1 = limit
          /\ \A i \in 1..limit : text[i] \in Chars
        BY <1>1, <1>5, ElementOfSeq
    <2>3. SubSeq(text, 1, limit) \in Seq(Chars)
          /\ Len(SubSeq(text, 1, limit)) = IF 1 <= limit THEN limit - 1 + 1 ELSE 0
        BY <2>2, SubSeqProperties
    <2> QED
        BY <2>1, <2>2, <2>3
<1>6. ASSUME ~(limit < 1 \/ Len(text) <= limit), limit > MarkLength
      PROVE  /\ trimmed \in Seq(Chars) /\ Len(trimmed) <= limit /\ trimmed # <<>>
             /\ TrimText(trimmed, limit) = trimmed /\ TrimSpace(trimmed) = trimmed
             /\ text # <<>>
    <2> DEFINE m == limit - MarkLength
               head == TrimSpace(SubSeq(text, 1, m))
    <2>1. trimmed = head \o Mark
        <3>1. ~(limit <= MarkLength)
            BY <1>2, <1>6
        <3> QED
            BY <1>6, <3>1 DEF TrimText
    <2> HIDE DEF text, trimmed
    <2>2. /\ m \in Nat /\ m >= 1 /\ m <= Len(text) /\ m - 1 + 1 = m
          /\ \A i \in 1..m : text[i] \in Chars
        BY <1>1, <1>2, <1>6, ElementOfSeq
    <2>3. SubSeq(text, 1, m) \in Seq(Chars) /\ Len(SubSeq(text, 1, m)) = m
        <3>1. 1 \in Int /\ m \in Int
            BY <2>2
        <3> HIDE DEF m
        <3>2. SubSeq(text, 1, m) \in Seq(Chars)
              /\ Len(SubSeq(text, 1, m)) = IF 1 <= m THEN m - 1 + 1 ELSE 0
            BY <2>2, <3>1, SubSeqProperties
        <3> QED
            BY <2>2, <3>2
    <2>4. head \in Seq(Chars) /\ Len(head) \in Nat /\ Len(head) <= m /\ Tidy(head)
        <3> HIDE DEF m
        <3>1. head \in Seq(Chars) /\ Len(head) <= Len(SubSeq(text, 1, m)) /\ Tidy(head)
            BY <2>3, TrimSpaceIs
        <3> QED
            BY <2>3, <3>1
    <2>5. /\ Mark \in Seq(Chars) /\ Len(Mark) = MarkLength
          /\ \A i \in 1..MarkLength : Mark[i] = Dot
        <3>1. Mark \in [1..MarkLength -> Chars]
            BY DEF Mark, Chars
        <3>2. Mark \in Seq(Chars)
            BY <1>2, <3>1, SeqDef
        <3>3. DOMAIN Mark = 1..MarkLength /\ \A i \in 1..MarkLength : Mark[i] = Dot
            BY DEF Mark
        <3>4. Len(Mark) \in Nat /\ DOMAIN Mark = 1..Len(Mark)
            BY <3>2, LenProperties
        <3> QED
            BY <1>2, <3>2, <3>3, <3>4
    <2> HIDE DEF head, Mark
    <2>6. /\ trimmed \in Seq(Chars) /\ Len(trimmed) = Len(head) + MarkLength
          /\ \A i \in 1..(Len(head) + MarkLength) :
                trimmed[i] = IF i <= Len(head) THEN head[i] ELSE Mark[i - Len(head)]
        BY <2>1, <2>4, <2>5, ConcatProperties
    <2>7. Len(trimmed) <= limit /\ Len(trimmed) >= 1
        BY <1>2, <2>4, <2>6
    <2>8. trimmed[Len(trimmed)] = Dot
        <3>1. /\ Len(trimmed) \in 1..(Len(head) + MarkLength) /\ ~(Len(trimmed) <= Len(head))
              /\ Len(trimmed) - Len(head) \in 1..MarkLength
            BY <1>2, <2>4, <2>6
        <3> QED
            BY <2>5, <2>6, <3>1
    <2>9. trimmed[1] # Blank
        <3>1. 1 \in 1..(Len(head) + MarkLength)
            BY <1>2, <2>4
        <3>2. CASE Len(head) = 0
            <4>1. trimmed[1] = Mark[1]
                BY <2>6, <3>1, <3>2
            <4> QED
                BY <1>2, <2>5, <4>1 DEF Dot, Blank
        <3>3. CASE Len(head) # 0
            <4>1. trimmed[1] = head[1] /\ head # <<>>
                BY <2>4, <2>6, <3>1, <3>3, EmptySeq
            <4> QED
                BY <2>4, <4>1 DEF Tidy
        <3> QED
            BY <3>2, <3>3
    <2>10. Tidy(trimmed) /\ trimmed # <<>>
        BY <2>6, <2>7, <2>8, <2>9, EmptySeq DEF Tidy, Dot, Blank
    <2>11. TrimSpace(trimmed) = trimmed
        BY <2>6, <2>10, TrimSpaceIs
    <2>12. text # <<>>
        BY <1>6, EmptySeq
    <2> QED
        BY <1>3, <2>6, <2>7, <2>10, <2>11, <2>12
<1>7. trimmed \in Seq(Chars) /\ (limit > 0 => Len(trimmed) <= limit)
    BY <1>2, <1>4, <1>5, <1>6
<1>8. ASSUME limit > MarkLength
      PROVE  TrimText(trimmed, limit) = trimmed /\ (TrimSpace(trimmed) = <<>> <=> text = <<>>)
    BY <1>4, <1>6, <1>8
<1> QED
    BY <1>7, <1>8

-----------------------------------------------------------------------------
(* The evidence of a package.  Two lists agree on what a budget of m items *)
(* takes of them when their first m items are cut to the same.             *)
Kinds == {"retrieval_query", "retrieval_source", "mcp_open_file", "mcp_selection",
          "mcp_diagnostic"}
AllItems == [kind : Kinds, text : Seq(Chars)]
TextLists == Seq(Seq(Chars))
DiagnosticLists == Seq([severity : Seq(Chars), message : Seq(Chars)])
Editors == [files : TextLists, selection : TextLists, diagnostics : DiagnosticLists,
            vcs : TextLists]
Budgets == {c \in Nat : c = 0 \/ c > MarkLength}

Alike(x, y, c) == x.kind = y.kind /\ TrimText(x.text, c) = TrimText(y.text, c)

Agree(a, b, m, c) ==
    /\ Len(a) = Len(b) \/ (Len(a) >= m /\ Len(b) >= m)
    /\ \A i \in 1..m : i <= Len(a) /\ i <= Len(b) => Alike(a[i], b[i], c)

LEMMA CharsAssumed == MaxChars \in Nat /\ MaxChars > MarkLength /\ MarkLength \in Nat \ {0}
<1>1. MaxChars \in Nat
    BY TextAssumption
<1>2. MaxChars > MarkLength
    BY TextAssumption
<1> QED
    BY <1>1, <1>2, PackageAssumption

LEMMA TrimTwice ==
    ASSUME NEW text \in Seq(Chars), NEW c \in Budgets
    PROVE  /\ TrimText(text, c) \in Seq(Chars)
           /\ TrimText(TrimText(text, c), c) = TrimText(text, c)
           /\ TrimSpace(TrimText(text, c)) = <<>> <=> TrimSpace(text) = <<>>
<1>1. c \in Nat /\ (c = 0 \/ c > MarkLength)
    BY DEF Budgets
<1>2. CASE c > MarkLength
    BY <1>1, <1>2, TrimTextIs
<1>3. CASE c = 0
    <2>1. TrimSpace(text) \in Seq(Chars) /\ TrimSpace(TrimSpace(text)) = TrimSpace(text)
        <3>1. TrimSpace(text) \in Seq(Chars) /\ Tidy(TrimSpace(text))
            BY TrimSpaceIs
        <3> QED
            BY <3>1, TrimSpaceIs
    <2>2. \A t \in Seq(Chars) : TrimText(t, c) = TrimSpace(t)
        BY <1>3 DEF TrimText
    <2>3. TrimText(text, c) = TrimSpace(text)
        BY <2>2
    <2>4. TrimText(TrimText(text, c), c) = TrimSpace(TrimSpace(text))
        BY <2>1, <2>2, <2>3
    <2>5. TrimSpace(TrimText(text, c)) = TrimSpace(text)
        BY <2>1, <2>3
    <2> QED
        BY <2>1, <2>3, <2>4, <2>5
<1> QED
    BY <1>1, <1>2, <1>3

LEMMA FirstIs ==
    ASSUME NEW S, NEW s \in Seq(S), NEW limit \in Nat
    PROVE  /\ First(s, limit) \in Seq(S)
           /\ Len(First(s, limit)) = IF Len(s) > limit THEN limit ELSE Len(s)
           /\ DOMAIN First(s, limit) = 1..Len(First(s, limit))
           /\ \A i \in 1..Len(First(s, limit)) : i \in 1..Len(s) /\ First(s, limit)[i] = s[i]
<1>1. Len(s) \in Nat /\ limit \in Int /\ Len(s) \in Int
    OBVIOUS
<1>2. Min({limit, Len(s)}) = IF limit <= Len(s) THEN limit ELSE Len(s)
    BY <1>1, MaxOfTwo
<1>3. Min({limit, Len(s)}) = IF Len(s) > limit THEN limit ELSE Len(s)
    BY <1>1, <1>2
<1>4. First(s, limit) = Capped(s, limit)
    BY <1>3 DEF First, Capped
<1> QED
    BY <1>4, CappedIs, LenProperties

(* A list made of a list.                                                  *)
LEMMA MadeOf ==
    ASSUME NEW S, NEW T, NEW s \in Seq(S), NEW t \in [1..Len(s) -> T]
    PROVE  t \in Seq(T) /\ Len(t) = Len(s)
<1>1. Len(s) \in Nat
    BY LenProperties
<1>2. t \in Seq(T)
    BY <1>1, SeqDef
<1>3. Len(t) \in Nat /\ DOMAIN t = 1..Len(t) /\ DOMAIN t = 1..Len(s)
    BY <1>2, LenProperties
<1> QED
    BY <1>1, <1>2, <1>3

LEMMA TrimEachIs ==
    ASSUME NEW texts \in TextLists, NEW c \in Nat
    PROVE  /\ TrimEach(texts, c) \in TextLists /\ Len(TrimEach(texts, c)) = Len(texts)
           /\ \A i \in 1..Len(texts) : TrimEach(texts, c)[i] = TrimText(texts[i], c)
<1> DEFINE t == TrimEach(texts, c)
<1> texts \in Seq(Seq(Chars))
    BY DEF TextLists
<1>1. DOMAIN texts = 1..Len(texts) /\ \A i \in 1..Len(texts) : texts[i] \in Seq(Chars)
    BY LenProperties, ElementOfSeq
<1>2. /\ DOMAIN t = DOMAIN texts
      /\ \A i \in 1..Len(texts) : t[i] = TrimText(texts[i], c)
    BY <1>1 DEF TrimEach
<1>3. \A i \in 1..Len(texts) : t[i] \in Seq(Chars)
    BY <1>1, <1>2, TrimTextIs
<1>4. t \in [1..Len(texts) -> Seq(Chars)]
    <2>1. t = [i \in 1..Len(texts) |-> t[i]]
        BY <1>1 DEF TrimEach
    <2> HIDE DEF t
    <2> QED
        BY <1>3, <2>1
<1> HIDE DEF t
<1>5. t \in Seq(Seq(Chars)) /\ Len(t) = Len(texts)
    BY <1>4, MadeOf
<1> QED
    BY <1>2, <1>5 DEF t, TextLists

LEMMA ItemsIs ==
    ASSUME NEW texts \in TextLists, NEW kind \in Kinds
    PROVE  /\ Items(kind, texts) \in Seq(AllItems) /\ Len(Items(kind, texts)) = Len(texts)
           /\ \A i \in 1..Len(texts) : /\ Items(kind, texts)[i].kind = kind
                                       /\ Items(kind, texts)[i].text = texts[i]
<1> DEFINE t == Items(kind, texts)
<1> texts \in Seq(Seq(Chars))
    BY DEF TextLists
<1>1. DOMAIN texts = 1..Len(texts) /\ \A i \in 1..Len(texts) : texts[i] \in Seq(Chars)
    BY LenProperties, ElementOfSeq
<1>2. /\ DOMAIN t = DOMAIN texts
      /\ \A i \in 1..Len(texts) : t[i] = [kind |-> kind, text |-> texts[i]]
    BY <1>1 DEF Items, Item
<1>3. \A i \in 1..Len(texts) : t[i] \in AllItems /\ t[i].kind = kind /\ t[i].text = texts[i]
    BY <1>1, <1>2 DEF AllItems
<1>4. t \in [1..Len(texts) -> AllItems]
    <2>1. t = [i \in 1..Len(texts) |-> t[i]]
        BY <1>1 DEF Items
    <2> HIDE DEF t
    <2> QED
        BY <1>3, <2>1
<1> HIDE DEF t
<1>5. t \in Seq(AllItems) /\ Len(t) = Len(texts)
    BY <1>4, MadeOf
<1> QED
    BY <1>3, <1>5 DEF t

LEMMA AgreeConcat ==
    ASSUME NEW a \in Seq(AllItems), NEW b \in Seq(AllItems), NEW e \in Seq(AllItems),
           NEW d \in Seq(AllItems), NEW m \in Nat, NEW c \in Budgets,
           Agree(a, b, m, c), Agree(e, d, m, c)
    PROVE  Agree(a \o e, b \o d, m, c)
<1>1. Len(a) \in Nat /\ Len(b) \in Nat /\ Len(e) \in Nat /\ Len(d) \in Nat
    OBVIOUS
<1>2. /\ Len(a \o e) = Len(a) + Len(e)
      /\ \A i \in 1..(Len(a) + Len(e)) :
            (a \o e)[i] = IF i <= Len(a) THEN a[i] ELSE e[i - Len(a)]
    BY ConcatProperties
<1>3. /\ Len(b \o d) = Len(b) + Len(d)
      /\ \A i \in 1..(Len(b) + Len(d)) :
            (b \o d)[i] = IF i <= Len(b) THEN b[i] ELSE d[i - Len(b)]
    BY ConcatProperties
<1>4. Len(a \o e) = Len(b \o d) \/ (Len(a \o e) >= m /\ Len(b \o d) >= m)
    <2>1. /\ Len(a) = Len(b) \/ (Len(a) >= m /\ Len(b) >= m)
          /\ Len(e) = Len(d) \/ (Len(e) >= m /\ Len(d) >= m)
        BY DEF Agree
    <2>2. Len(a \o e) = Len(a) + Len(e) /\ Len(b \o d) = Len(b) + Len(d)
        BY <1>2, <1>3
    <2> DEFINE p == Len(a)
               q == Len(b)
               u == Len(e)
               v == Len(d)
    <2>3. /\ p \in Nat /\ q \in Nat /\ u \in Nat /\ v \in Nat
          /\ p = q \/ (p >= m /\ q >= m)
          /\ u = v \/ (u >= m /\ v >= m)
        BY <1>1, <2>1
    <2> HIDE DEF p, q, u, v
    <2>4. p + u = q + v \/ (p + u >= m /\ q + v >= m)
        BY <2>3
    <2>5. Len(a \o e) = p + u /\ Len(b \o d) = q + v
        BY <2>2 DEF p, q, u, v
    <2> QED
        BY <2>4, <2>5
<1>5. ASSUME NEW i \in 1..m, i <= Len(a \o e), i <= Len(b \o d)
      PROVE  Alike((a \o e)[i], (b \o d)[i], c)
    <2>1. i \in 1..(Len(a) + Len(e)) /\ i \in 1..(Len(b) + Len(d))
        BY <1>1, <1>2, <1>3, <1>5
    <2>2. CASE i <= Len(a)
        <3>1. i <= Len(b)
            BY <1>1, <2>2 DEF Agree
        <3>2. (a \o e)[i] = a[i] /\ (b \o d)[i] = b[i]
            BY <1>2, <1>3, <2>1, <2>2, <3>1
        <3> QED
            BY <2>2, <3>1, <3>2 DEF Agree
    <2>3. CASE i > Len(a)
        <3>1. Len(a) = Len(b)
            BY <1>1, <2>3 DEF Agree
        <3>2. (a \o e)[i] = e[i - Len(a)] /\ (b \o d)[i] = d[i - Len(a)]
            BY <1>1, <1>2, <1>3, <2>1, <2>3, <3>1
        <3>3. i - Len(a) \in 1..m /\ i - Len(a) <= Len(e) /\ i - Len(a) <= Len(d)
            BY <1>1, <2>1, <2>3, <3>1
        <3> QED
            BY <3>2, <3>3 DEF Agree
    <2>4. i <= Len(a) \/ i > Len(a)
        BY <1>1
    <2> QED
        BY <2>2, <2>3, <2>4
<1> QED
    BY <1>4, <1>5 DEF Agree

LEMMA AgreeItems ==
    ASSUME NEW u \in TextLists, NEW v \in TextLists, NEW kind \in Kinds, NEW m \in Nat,
           NEW c \in Budgets, Len(u) = Len(v) \/ (Len(u) >= m /\ Len(v) >= m),
           \A i \in 1..m : i <= Len(u) /\ i <= Len(v) => TrimText(u[i], c) = TrimText(v[i], c)
    PROVE  Agree(Items(kind, u), Items(kind, v), m, c)
<1>1. /\ Len(Items(kind, u)) = Len(u)
      /\ \A i \in 1..Len(u) : Items(kind, u)[i].kind = kind /\ Items(kind, u)[i].text = u[i]
    BY ItemsIs
<1>2. /\ Len(Items(kind, v)) = Len(v)
      /\ \A i \in 1..Len(v) : Items(kind, v)[i].kind = kind /\ Items(kind, v)[i].text = v[i]
    BY ItemsIs
<1>3. ASSUME NEW i \in 1..m, i <= Len(u), i <= Len(v)
      PROVE  Alike(Items(kind, u)[i], Items(kind, v)[i], c)
    <2>1. i \in 1..Len(u) /\ i \in 1..Len(v)
        BY <1>3 DEF TextLists
    <2>2. TrimText(u[i], c) = TrimText(v[i], c)
        BY <1>3
    <2> QED
        BY <1>1, <1>2, <2>1, <2>2 DEF Alike
<1> QED
    BY <1>1, <1>2, <1>3 DEF Agree

(* A list that is limited before, to no less than the budget.              *)
LEMMA AgreeFirst ==
    ASSUME NEW u \in TextLists, NEW kind \in Kinds, NEW m \in Nat, NEW c \in Budgets,
           NEW limit \in Nat, m <= limit
    PROVE  /\ First(u, limit) \in TextLists
           /\ Agree(Items(kind, First(u, limit)), Items(kind, u), m, c)
<1> DEFINE f == First(u, limit)
<1>1. u \in Seq(Seq(Chars)) /\ Len(u) \in Nat
    BY DEF TextLists
<1>2. /\ f \in Seq(Seq(Chars)) /\ Len(f) \in Nat
      /\ Len(f) = IF Len(u) > limit THEN limit ELSE Len(u)
      /\ \A i \in 1..Len(f) : i \in 1..Len(u) /\ f[i] = u[i]
    BY <1>1, FirstIs
<1> HIDE DEF f
<1>3. f \in TextLists /\ (Len(f) = Len(u) \/ (Len(f) >= m /\ Len(u) >= m))
    BY <1>1, <1>2 DEF TextLists
<1>4. \A i \in 1..m : i <= Len(f) /\ i <= Len(u) => TrimText(f[i], c) = TrimText(u[i], c)
    BY <1>2
<1>5. Agree(Items(kind, f), Items(kind, u), m, c)
    BY <1>3, <1>4, AgreeItems
<1> QED
    BY <1>3, <1>5 DEF f

LEMMA FirstOfAll ==
    ASSUME NEW S, NEW s \in Seq(S), NEW limit \in Nat, Len(s) <= limit
    PROVE  First(s, limit) = s
<1>1. /\ First(s, limit) \in Seq(S)
      /\ Len(First(s, limit)) = IF Len(s) > limit THEN limit ELSE Len(s)
      /\ \A i \in 1..Len(First(s, limit)) : i \in 1..Len(s) /\ First(s, limit)[i] = s[i]
    BY FirstIs
<1>2. Len(First(s, limit)) = Len(s)
    BY <1>1
<1> QED
    BY <1>1, <1>2, SeqEqual

(* The texts of diagnostics, and their summaries.                          *)
LEMMA TrimPartsAre ==
    ASSUME NEW list \in DiagnosticLists, NEW c \in Nat
    PROVE  /\ TrimParts(list, c) \in DiagnosticLists /\ Len(TrimParts(list, c)) = Len(list)
           /\ \A i \in 1..Len(list) : TrimParts(list, c)[i] =
                    [severity |-> TrimText(list[i].severity, c),
                     message |-> TrimText(list[i].message, c)]
<1> DEFINE t == TrimParts(list, c)
           Diagnostics == [severity : Seq(Chars), message : Seq(Chars)]
<1> list \in Seq(Diagnostics)
    BY DEF DiagnosticLists
<1>1. DOMAIN list = 1..Len(list) /\ \A i \in 1..Len(list) : list[i] \in Diagnostics
    <2> HIDE DEF Diagnostics
    <2> QED
        BY LenProperties, ElementOfSeq
<1>2. t = [i \in 1..Len(list) |-> [severity |-> TrimText(list[i].severity, c),
                                   message |-> TrimText(list[i].message, c)]]
    BY <1>1 DEF TrimParts
<1> HIDE DEF t
<1>3. ASSUME NEW i \in 1..Len(list)
      PROVE  t[i] \in Diagnostics
    <2>1. list[i].severity \in Seq(Chars) /\ list[i].message \in Seq(Chars)
        BY <1>1
    <2>2. TrimText(list[i].severity, c) \in Seq(Chars) /\ TrimText(list[i].message, c) \in Seq(Chars)
        BY <2>1, TrimTextIs
    <2> QED
        BY <1>2, <2>2
<1>4. t \in [1..Len(list) -> Diagnostics]
    <2> HIDE DEF Diagnostics
    <2> QED
        BY <1>2, <1>3
<1>5. t \in Seq(Diagnostics) /\ Len(t) = Len(list)
    <2> HIDE DEF Diagnostics
    <2> QED
        BY <1>4, MadeOf
<1> QED
    BY <1>2, <1>5 DEF t, DiagnosticLists

LEMMA SummariesAre ==
    ASSUME NEW list \in DiagnosticLists
    PROVE  /\ Summaries(list) \in TextLists /\ Len(Summaries(list)) = Len(list)
           /\ \A i \in 1..Len(list) : Summaries(list)[i] = Summary(list[i])
<1> DEFINE t == Summaries(list)
           Diagnostics == [severity : Seq(Chars), message : Seq(Chars)]
<1> list \in Seq(Diagnostics)
    BY DEF DiagnosticLists
<1>1. DOMAIN list = 1..Len(list) /\ \A i \in 1..Len(list) : list[i] \in Diagnostics
    <2> HIDE DEF Diagnostics
    <2> QED
        BY LenProperties, ElementOfSeq
<1>2. t = [i \in 1..Len(list) |-> Summary(list[i])]
    BY <1>1 DEF Summaries
<1> HIDE DEF t
<1>3. ASSUME NEW i \in 1..Len(list)
      PROVE  t[i] \in Seq(Chars)
    <2>1. list[i].severity \in Seq(Chars) /\ list[i].message \in Seq(Chars)
        BY <1>1
    <2>2. <<Bracket>> \in Seq(Chars) /\ <<Bracket, Blank>> \in Seq(Chars)
        <3>1. Bracket \in Chars /\ Blank \in Chars
            BY DEF Chars
        <3> QED
            BY <3>1
    <2>3. <<Bracket>> \o list[i].severity \in Seq(Chars)
        BY <2>1, <2>2, ConcatProperties
    <2>4. <<Bracket>> \o list[i].severity \o <<Bracket, Blank>> \in Seq(Chars)
        BY <2>2, <2>3, ConcatProperties
    <2>5. Summary(list[i]) \in Seq(Chars)
        BY <2>1, <2>4, ConcatProperties DEF Summary
    <2> QED
        BY <1>2, <2>5
<1>4. t \in [1..Len(list) -> Seq(Chars)]
    BY <1>2, <1>3
<1>5. t \in Seq(Seq(Chars)) /\ Len(t) = Len(list)
    <2> HIDE DEF Diagnostics
    <2> QED
        BY <1>4, MadeOf
<1> QED
    BY <1>2, <1>5 DEF t, TextLists

LEMMA SummariesOfFirst ==
    ASSUME NEW list \in DiagnosticLists, NEW limit \in Nat
    PROVE  /\ First(list, limit) \in DiagnosticLists
           /\ Summaries(First(list, limit)) = First(Summaries(list), limit)
<1> DEFINE f == First(list, limit)
           t == Summaries(list)
           Diagnostics == [severity : Seq(Chars), message : Seq(Chars)]
<1>1. /\ f \in Seq(Diagnostics)
      /\ Len(f) = IF Len(list) > limit THEN limit ELSE Len(list)
      /\ \A i \in 1..Len(f) : i \in 1..Len(list) /\ f[i] = list[i]
    <2> list \in Seq(Diagnostics)
        BY DEF DiagnosticLists
    <2> HIDE DEF Diagnostics
    <2> QED
        BY FirstIs
<1>2. f \in DiagnosticLists
    BY <1>1 DEF DiagnosticLists
<1>3. /\ t \in Seq(Seq(Chars)) /\ Len(t) = Len(list)
      /\ \A i \in 1..Len(list) : t[i] = Summary(list[i])
    BY SummariesAre DEF TextLists
<1> HIDE DEF f, t
<1>4. /\ Summaries(f) \in Seq(Seq(Chars)) /\ Len(Summaries(f)) = Len(f)
      /\ \A i \in 1..Len(f) : Summaries(f)[i] = Summary(f[i])
    BY <1>2, SummariesAre DEF TextLists
<1>5. /\ First(t, limit) \in Seq(Seq(Chars))
      /\ Len(First(t, limit)) = IF Len(t) > limit THEN limit ELSE Len(t)
      /\ \A i \in 1..Len(First(t, limit)) : i \in 1..Len(t) /\ First(t, limit)[i] = t[i]
    BY <1>3, FirstIs
<1>6. Len(Summaries(f)) = Len(First(t, limit))
    BY <1>1, <1>3, <1>4, <1>5
<1>7. ASSUME NEW i \in 1..Len(Summaries(f)) PROVE Summaries(f)[i] = First(t, limit)[i]
    BY <1>1, <1>3, <1>4, <1>5, <1>6
<1>8. Summaries(f) = First(t, limit)
    BY <1>4, <1>5, <1>6, <1>7, SeqEqual
<1> QED
    BY <1>2, <1>8 DEF f, t

(* What a budget of m items makes of evidence and of facts.                *)
CutEvidence(items, m, c) ==
    LET evidence == First(items, m)
    IN  [i \in DOMAIN evidence |->
            Item(evidence[i].kind, TrimText(evidence[i].text, c))]

CutFacts(texts, m, c) ==
    LET facts == First(texts, m)
    IN  TrimEach(facts, c)

LEMMA CutEvidenceIs ==
    ASSUME NEW a \in Seq(AllItems), NEW m \in Nat, NEW c \in Budgets
    PROVE  /\ CutEvidence(a, m, c) \in Seq(AllItems)
           /\ Len(CutEvidence(a, m, c)) = IF Len(a) > m THEN m ELSE Len(a)
           /\ \A i \in 1..Len(CutEvidence(a, m, c)) :
                /\ i \in 1..Len(a)
                /\ CutEvidence(a, m, c)[i] = [kind |-> a[i].kind, text |-> TrimText(a[i].text, c)]
<1> DEFINE f == First(a, m)
           t == CutEvidence(a, m, c)
<1>1. /\ f \in Seq(AllItems) /\ DOMAIN f = 1..Len(f) /\ Len(f) \in Nat
      /\ Len(f) = IF Len(a) > m THEN m ELSE Len(a)
      /\ \A i \in 1..Len(f) : i \in 1..Len(a) /\ f[i] = a[i] /\ a[i] \in AllItems
    BY FirstIs, ElementOfSeq, LenProperties
<1> HIDE DEF f
<1>2. t = [i \in 1..Len(f) |-> [kind |-> f[i].kind, text |-> TrimText(f[i].text, c)]]
    BY <1>1 DEF CutEvidence, Item, f
<1> HIDE DEF t
<1>3. ASSUME NEW i \in 1..Len(f)
      PROVE  /\ t[i] = [kind |-> a[i].kind, text |-> TrimText(a[i].text, c)]
             /\ t[i] \in AllItems
    <2>1. a[i].kind \in Kinds /\ a[i].text \in Seq(Chars)
        BY <1>1 DEF AllItems
    <2>2. TrimText(a[i].text, c) \in Seq(Chars)
        BY <2>1, TrimTwice
    <2>3. t[i] = [kind |-> a[i].kind, text |-> TrimText(a[i].text, c)]
        BY <1>1, <1>2
    <2> QED
        BY <2>1, <2>2, <2>3 DEF AllItems
<1>4. t \in [1..Len(f) -> AllItems]
    BY <1>2, <1>3
<1>5. t \in Seq(AllItems) /\ Len(t) = Len(f)
    BY <1>1, <1>4, MadeOf
<1> QED
    BY <1>1, <1>3, <1>5 DEF t

LEMMA CutFactsIs ==
    ASSUME NEW a \in TextLists, NEW m \in Nat, NEW c \in Budgets
    PROVE  /\ CutFacts(a, m, c) \in TextLists
           /\ Len(CutFacts(a, m, c)) = IF Len(a) > m THEN m ELSE Len(a)
           /\ \A i \in 1..Len(CutFacts(a, m, c)) :
                i \in 1..Len(a) /\ CutFacts(a, m, c)[i] = TrimText(a[i], c)
<1> DEFINE f == First(a, m)
<1>1. a \in Seq(Seq(Chars))
    BY DEF TextLists
<1>2. /\ f \in Seq(Seq(Chars)) /\ DOMAIN f = 1..Len(f)
      /\ Len(f) = IF Len(a) > m THEN m ELSE Len(a)
      /\ \A i \in 1..Len(f) : i \in 1..Len(a) /\ f[i] = a[i]
    BY <1>1, FirstIs
<1>3. CutFacts(a, m, c) = TrimEach(f, c)
    BY DEF CutFacts
<1> HIDE DEF f
<1>4. /\ TrimEach(f, c) \in TextLists /\ Len(TrimEach(f, c)) = Len(f)
      /\ \A i \in 1..Len(f) : TrimEach(f, c)[i] = TrimText(f[i], c)
    BY <1>2, TrimEachIs DEF TextLists, Budgets
<1> QED
    BY <1>2, <1>3, <1>4

(* Lists that agree are cut to the same.                                   *)
LEMMA CutSame ==
    ASSUME NEW a \in Seq(AllItems), NEW b \in Seq(AllItems), NEW m \in Nat,
           NEW c \in Budgets, Agree(a, b, m, c)
    PROVE  CutEvidence(a, m, c) = CutEvidence(b, m, c)
<1> DEFINE s == CutEvidence(a, m, c)
           t == CutEvidence(b, m, c)
<1>1. /\ s \in Seq(AllItems) /\ Len(s) = IF Len(a) > m THEN m ELSE Len(a)
      /\ \A i \in 1..Len(s) : /\ i \in 1..Len(a)
            /\ s[i] = [kind |-> a[i].kind, text |-> TrimText(a[i].text, c)]
    BY CutEvidenceIs
<1>2. /\ t \in Seq(AllItems) /\ Len(t) = IF Len(b) > m THEN m ELSE Len(b)
      /\ \A i \in 1..Len(t) : /\ i \in 1..Len(b)
            /\ t[i] = [kind |-> b[i].kind, text |-> TrimText(b[i].text, c)]
    BY CutEvidenceIs
<1> HIDE DEF s, t
<1>3. Len(a) \in Nat /\ Len(b) \in Nat
    OBVIOUS
<1>4. Len(s) = Len(t) /\ Len(s) <= m
    <2>1. Len(a) = Len(b) \/ (Len(a) >= m /\ Len(b) >= m)
        BY DEF Agree
    <2> QED
        BY <1>1, <1>2, <1>3, <2>1
<1>5. ASSUME NEW i \in 1..Len(s) PROVE s[i] = t[i]
    <2>1. i \in 1..m /\ i <= Len(a) /\ i <= Len(b) /\ i \in 1..Len(t)
        BY <1>1, <1>2, <1>3, <1>4
    <2>2. Alike(a[i], b[i], c)
        BY <2>1 DEF Agree
    <2> QED
        BY <1>1, <1>2, <2>1, <2>2 DEF Alike
<1> QED
    BY <1>1, <1>2, <1>4, <1>5, SeqEqual DEF s, t

(* The budget, applied again, changes nothing.                             *)
LEMMA CutTwice ==
    ASSUME NEW a \in Seq(AllItems), NEW m \in Nat, NEW c \in Budgets
    PROVE  CutEvidence(CutEvidence(a, m, c), m, c) = CutEvidence(a, m, c)
<1> DEFINE s == CutEvidence(a, m, c)
<1>1. /\ s \in Seq(AllItems) /\ Len(s) = IF Len(a) > m THEN m ELSE Len(a)
      /\ \A i \in 1..Len(s) : /\ i \in 1..Len(a)
            /\ s[i] = [kind |-> a[i].kind, text |-> TrimText(a[i].text, c)]
    BY CutEvidenceIs
<1> HIDE DEF s
<1>2. Len(a) \in Nat /\ Len(s) \in Nat
    BY <1>1
<1>3. Len(s) = Len(a) \/ (Len(s) >= m /\ Len(a) >= m)
    BY <1>1, <1>2
<1>4. ASSUME NEW i \in 1..m, i <= Len(s), i <= Len(a) PROVE Alike(s[i], a[i], c)
    <2>1. i \in 1..Len(s) /\ i \in 1..Len(a)
        BY <1>2, <1>4
    <2>2. a[i] \in AllItems
        BY <2>1, ElementOfSeq
    <2>3. a[i].text \in Seq(Chars)
        BY <2>2 DEF AllItems
    <2>4. TrimText(TrimText(a[i].text, c), c) = TrimText(a[i].text, c)
        BY <2>3, TrimTwice
    <2>5. s[i] = [kind |-> a[i].kind, text |-> TrimText(a[i].text, c)]
        BY <1>1, <2>1
    <2>6. s[i].kind = a[i].kind /\ s[i].text = TrimText(a[i].text, c)
        BY <2>5
    <2> QED
        BY <2>4, <2>6 DEF Alike
<1>5. Agree(s, a, m, c)
    BY <1>3, <1>4 DEF Agree
<1> QED
    BY <1>1, <1>5, CutSame DEF s

(* Facts whose texts are trimmed to the same are cut to the same.          *)
LEMMA FactsSame ==
    ASSUME NEW a \in TextLists, NEW b \in TextLists, NEW m \in Nat, NEW c \in Budgets,
           Len(a) = Len(b) \/ (Len(a) >= m /\ Len(b) >= m),
           \A i \in 1..Len(a) : i \in 1..Len(b) => TrimText(a[i], c) = TrimText(b[i], c)
    PROVE  CutFacts(a, m, c) = CutFacts(b, m, c)
<1> DEFINE s == CutFacts(a, m, c)
           t == CutFacts(b, m, c)
<1>1. /\ s \in TextLists /\ Len(s) = IF Len(a) > m THEN m ELSE Len(a)
      /\ \A i \in 1..Len(s) : i \in 1..Len(a) /\ s[i] = TrimText(a[i], c)
    BY CutFactsIs
<1>2. /\ t \in TextLists /\ Len(t) = IF Len(b) > m THEN m ELSE Len(b)
      /\ \A i \in 1..Len(t) : i \in 1..Len(b) /\ t[i] = TrimText(b[i], c)
    BY CutFactsIs
<1> HIDE DEF s, t
<1>3. Len(a) \in Nat /\ Len(b) \in Nat /\ s \in Seq(Seq(Chars)) /\ t \in Seq(Seq(Chars))
    BY <1>1, <1>2 DEF TextLists
<1>4. Len(s) = Len(t)
    BY <1>1, <1>2, <1>3
<1>5. ASSUME NEW i \in 1..Len(s) PROVE s[i] = t[i]
    <2>1. i \in 1..Len(a) /\ i \in 1..Len(b)
        BY <1>1, <1>2, <1>4
    <2>2. TrimText(a[i], c) = TrimText(b[i], c)
        BY <2>1
    <2> QED
        BY <1>1, <1>2, <1>4, <2>2
<1> QED
    BY <1>3, <1>4, <1>5, SeqEqual DEF s, t

(* ApplyBudget in these terms.                                             *)
LEMMA BudgetIs ==
    ASSUME NEW package, NEW m, NEW c
    PROVE  ApplyBudget(package, m, c) =
                [evidence |-> CutEvidence(package.evidence, m, c),
                 facts |-> CutFacts(package.facts, m, c),
                 planFirst |-> package.planFirst,
                 step |-> TrimText(package.step, c)]
BY DEF ApplyBudget, CutEvidence, CutFacts

LEMMA EvidenceAgrees ==
    ASSUME NEW base \in Seq(AllItems), NEW e \in Editors, NEW f \in Editors, NEW m \in Nat,
           NEW c \in Budgets,
           Agree(Items("mcp_open_file", e.files), Items("mcp_open_file", f.files), m, c),
           Agree(Items("mcp_selection", e.selection), Items("mcp_selection", f.selection), m, c),
           Agree(Items("mcp_diagnostic", Summaries(e.diagnostics)),
                 Items("mcp_diagnostic", Summaries(f.diagnostics)), m, c)
    PROVE  /\ base \o EvidenceFromEditor(e) \in Seq(AllItems)
           /\ base \o EvidenceFromEditor(f) \in Seq(AllItems)
           /\ Agree(base \o EvidenceFromEditor(e), base \o EvidenceFromEditor(f), m, c)
<1> DEFINE a1 == Items("mcp_open_file", e.files)
           a2 == Items("mcp_selection", e.selection)
           a3 == Items("mcp_diagnostic", Summaries(e.diagnostics))
           b1 == Items("mcp_open_file", f.files)
           b2 == Items("mcp_selection", f.selection)
           b3 == Items("mcp_diagnostic", Summaries(f.diagnostics))
<1>1. /\ e.files \in TextLists /\ e.selection \in TextLists
      /\ f.files \in TextLists /\ f.selection \in TextLists
      /\ e.diagnostics \in DiagnosticLists /\ f.diagnostics \in DiagnosticLists
    BY DEF Editors
<1>2. Summaries(e.diagnostics) \in TextLists /\ Summaries(f.diagnostics) \in TextLists
    BY <1>1, SummariesAre
<1>3. {"mcp_open_file", "mcp_selection", "mcp_diagnostic"} \subseteq Kinds
    BY DEF Kinds
<1>4. /\ a1 \in Seq(AllItems) /\ a2 \in Seq(AllItems) /\ a3 \in Seq(AllItems)
      /\ b1 \in Seq(AllItems) /\ b2 \in Seq(AllItems) /\ b3 \in Seq(AllItems)
    BY <1>1, <1>2, <1>3, ItemsIs
<1>5. Agree(a1, b1, m, c) /\ Agree(a2, b2, m, c) /\ Agree(a3, b3, m, c)
    OBVIOUS
<1>6. Agree(base, base, m, c)
    BY DEF Agree, Alike
<1>7. /\ EvidenceFromEditor(e) = (a1 \o a2) \o a3
      /\ EvidenceFromEditor(f) = (b1 \o b2) \o b3
    BY DEF EvidenceFromEditor
<1> HIDE DEF a1, a2, a3, b1, b2, b3
<1>8. a1 \o a2 \in Seq(AllItems) /\ b1 \o b2 \in Seq(AllItems)
      /\ Agree(a1 \o a2, b1 \o b2, m, c)
    BY <1>4, <1>5, AgreeConcat, ConcatProperties
<1>9. /\ (a1 \o a2) \o a3 \in Seq(AllItems) /\ (b1 \o b2) \o b3 \in Seq(AllItems)
      /\ Agree((a1 \o a2) \o a3, (b1 \o b2) \o b3, m, c)
    BY <1>4, <1>5, <1>8, AgreeConcat, ConcatProperties
<1> QED
    BY <1>6, <1>7, <1>9, AgreeConcat, ConcatProperties

(* The characters the editor's texts are trimmed to.                       *)
CharsOf(c) == IF c < 1 THEN DefaultChars ELSE c

FileLimit(m) == IF m < 1 THEN DefaultFiles ELSE m
DiagnosticLimit(m) == IF m < 1 THEN DefaultDiagnostics ELSE m

LEMMA LimitsAre ==
    ASSUME NEW m \in Nat
    PROVE  /\ FileLimit(m) \in Nat /\ m <= FileLimit(m) /\ (m > 0 => FileLimit(m) = m)
           /\ DiagnosticLimit(m) \in Nat /\ m <= DiagnosticLimit(m)
           /\ m > 0 => DiagnosticLimit(m) = m
BY PackageAssumption DEF FileLimit, DiagnosticLimit

LEMMA NormalizedIs ==
    ASSUME NEW editor \in Editors, NEW m \in Nat, NEW c \in Budgets
    PROVE  /\ NormalizeMCPSnapshot(editor, m, c) =
                [files |-> First(TrimEach(editor.files, CharsOf(c)), FileLimit(m)),
                 selection |-> TrimEach(editor.selection, CharsOf(c)),
                 diagnostics |-> First(TrimParts(editor.diagnostics, CharsOf(c)),
                                       DiagnosticLimit(m)),
                 vcs |-> TrimEach(editor.vcs, CharsOf(c))]
           /\ NormalizeMCPSnapshot(editor, m, c) \in Editors
           /\ CharsOf(c) \in Nat
<1> DEFINE n == NormalizeMCPSnapshot(editor, m, c)
           files == FileLimit(m)
           diagnostics == DiagnosticLimit(m)
           chars == CharsOf(c)
<1>1. files \in Nat /\ diagnostics \in Nat /\ chars \in Nat
    BY PackageAssumption, LimitsAre DEF Budgets, CharsOf
<1>2. n = [files |-> First(TrimEach(editor.files, chars), files),
           selection |-> TrimEach(editor.selection, chars),
           diagnostics |-> First(TrimParts(editor.diagnostics, chars), diagnostics),
           vcs |-> TrimEach(editor.vcs, chars)]
    BY DEF NormalizeMCPSnapshot, CharsOf, FileLimit, DiagnosticLimit
<1> HIDE DEF n, files, diagnostics, chars
<1>3. /\ editor.files \in TextLists /\ editor.selection \in TextLists
      /\ editor.diagnostics \in DiagnosticLists /\ editor.vcs \in TextLists
    BY DEF Editors
<1>4. /\ TrimEach(editor.files, chars) \in TextLists
      /\ TrimEach(editor.selection, chars) \in TextLists
      /\ TrimEach(editor.vcs, chars) \in TextLists
      /\ TrimParts(editor.diagnostics, chars) \in DiagnosticLists
    BY <1>1, <1>3, TrimEachIs, TrimPartsAre
<1>5. First(TrimEach(editor.files, chars), files) \in TextLists
    BY <1>1, <1>4, FirstIs DEF TextLists
<1>6. First(TrimParts(editor.diagnostics, chars), diagnostics) \in DiagnosticLists
    BY <1>1, <1>4, SummariesOfFirst
<1>7. n \in Editors
    BY <1>2, <1>4, <1>5, <1>6 DEF Editors
<1> QED
    BY <1>1, <1>2, <1>7 DEF n, files, diagnostics, chars

(* However the editor's lists are limited, no less than the budget is kept.*)
LEMMA NormalizedAgrees ==
    ASSUME NEW base \in Seq(AllItems), NEW editor \in Editors, NEW m \in Nat, NEW c \in Budgets
    PROVE  LET n == NormalizeMCPSnapshot(editor, m, c)
               w == NormalizeMCPSnapshot(editor, Room(editor), c)
           IN  /\ w.files = TrimEach(editor.files, CharsOf(c))
               /\ w.selection = TrimEach(editor.selection, CharsOf(c))
               /\ w.diagnostics = TrimParts(editor.diagnostics, CharsOf(c))
               /\ w.vcs = TrimEach(editor.vcs, CharsOf(c)) /\ n.vcs = w.vcs
               /\ n \in Editors /\ w \in Editors
               /\ base \o EvidenceFromEditor(n) \in Seq(AllItems)
               /\ base \o EvidenceFromEditor(w) \in Seq(AllItems)
               /\ Agree(base \o EvidenceFromEditor(n), base \o EvidenceFromEditor(w), m, c)
<1> DEFINE n == NormalizeMCPSnapshot(editor, m, c)
           w == NormalizeMCPSnapshot(editor, Room(editor), c)
           files == TrimEach(editor.files, CharsOf(c))
           parts == TrimParts(editor.diagnostics, CharsOf(c))
<1>1. /\ editor.files \in TextLists /\ editor.selection \in TextLists
      /\ editor.diagnostics \in DiagnosticLists
    BY DEF Editors
<1>2. /\ Len(editor.files) \in Nat /\ Len(editor.diagnostics) \in Nat
    BY <1>1 DEF TextLists, DiagnosticLists
<1>3. /\ Room(editor) \in Nat /\ Room(editor) > 0
      /\ Len(editor.files) <= Room(editor) /\ Len(editor.diagnostics) <= Room(editor)
    <2>1. \A x, y \in Nat : /\ 1 + x + y \in Nat /\ 1 + x + y > 0
                            /\ x <= 1 + x + y /\ y <= 1 + x + y
        OBVIOUS
    <2>2. Room(editor) = 1 + Len(editor.files) + Len(editor.diagnostics)
        BY DEF Room
    <2> QED
        BY <1>2, <2>1, <2>2
<1>4. /\ n = [files |-> First(files, FileLimit(m)),
              selection |-> TrimEach(editor.selection, CharsOf(c)),
              diagnostics |-> First(parts, DiagnosticLimit(m)),
              vcs |-> TrimEach(editor.vcs, CharsOf(c))]
      /\ n \in Editors /\ CharsOf(c) \in Nat
    BY NormalizedIs
<1>5. /\ files \in TextLists /\ Len(files) = Len(editor.files)
      /\ parts \in DiagnosticLists /\ Len(parts) = Len(editor.diagnostics)
    BY <1>1, <1>4, TrimEachIs, TrimPartsAre
<1>6. /\ w = [files |-> First(files, FileLimit(Room(editor))),
              selection |-> TrimEach(editor.selection, CharsOf(c)),
              diagnostics |-> First(parts, DiagnosticLimit(Room(editor))),
              vcs |-> TrimEach(editor.vcs, CharsOf(c))]
      /\ w \in Editors
    BY <1>3, NormalizedIs
<1>7. FileLimit(Room(editor)) = Room(editor) /\ DiagnosticLimit(Room(editor)) = Room(editor)
    BY <1>3, LimitsAre
<1> HIDE DEF files, parts, n, w
<1>8. w.files = files /\ w.diagnostics = parts
    <2>1. First(files, Room(editor)) = files
        BY <1>3, <1>5, FirstOfAll DEF TextLists
    <2>2. First(parts, Room(editor)) = parts
        BY <1>3, <1>5, FirstOfAll DEF DiagnosticLists
    <2> QED
        BY <1>6, <1>7, <2>1, <2>2
<1>9. /\ n.selection = w.selection /\ n.vcs = w.vcs
      /\ w.selection = TrimEach(editor.selection, CharsOf(c))
      /\ w.vcs = TrimEach(editor.vcs, CharsOf(c))
    BY <1>4, <1>6
<1>10. PICK g \in Nat, e \in Nat :
            /\ m <= g /\ m <= e
            /\ n.files = First(files, g) /\ n.diagnostics = First(parts, e)
    <2>1. n.files = First(files, FileLimit(m)) /\ n.diagnostics = First(parts, DiagnosticLimit(m))
        BY <1>4
    <2> QED
        BY <2>1, LimitsAre
<1>11. {"mcp_open_file", "mcp_selection", "mcp_diagnostic"} \subseteq Kinds
    BY DEF Kinds
<1>12. Agree(Items("mcp_open_file", n.files), Items("mcp_open_file", w.files), m, c)
    <2>1. Agree(Items("mcp_open_file", First(files, g)), Items("mcp_open_file", files), m, c)
        BY <1>5, <1>10, <1>11, AgreeFirst
    <2> QED
        BY <1>8, <1>10, <2>1
<1>13. Agree(Items("mcp_selection", n.selection), Items("mcp_selection", w.selection), m, c)
    BY <1>9 DEF Agree, Alike
<1>14. Agree(Items("mcp_diagnostic", Summaries(n.diagnostics)),
             Items("mcp_diagnostic", Summaries(w.diagnostics)), m, c)
    <2>1. Summaries(First(parts, e)) = First(Summaries(parts), e) /\ Summaries(parts) \in TextLists
        BY <1>5, SummariesOfFirst, SummariesAre
    <2>2. Agree(Items("mcp_diagnostic", First(Summaries(parts), e)),
                Items("mcp_diagnostic", Summaries(parts)), m, c)
        BY <1>10, <1>11, <2>1, AgreeFirst
    <2> QED
        BY <1>8, <1>10, <2>1, <2>2
<1>15. /\ base \o EvidenceFromEditor(n) \in Seq(AllItems)
       /\ base \o EvidenceFromEditor(w) \in Seq(AllItems)
       /\ Agree(base \o EvidenceFromEditor(n), base \o EvidenceFromEditor(w), m, c)
    BY <1>4, <1>6, <1>12, <1>13, <1>14, EvidenceAgrees
<1> QED
    BY <1>4, <1>6, <1>8, <1>9, <1>15 DEF files, parts, n, w

(* A list of texts that are trimmed before.                                *)
LEMMA AgreeTrimmed ==
    ASSUME NEW u \in TextLists, NEW kind \in Kinds, NEW m \in Nat, NEW c \in Budgets
    PROVE  /\ Agree(Items(kind, TrimEach(u, c)), Items(kind, u), m, c)
           /\ CutFacts(TrimEach(u, c), m, c) = CutFacts(u, m, c)
<1> DEFINE t == TrimEach(u, c)
<1>1. c \in Nat
    BY DEF Budgets
<1>2. /\ t \in TextLists /\ Len(t) = Len(u) /\ Len(u) \in Nat
      /\ \A i \in 1..Len(u) : t[i] = TrimText(u[i], c)
    BY <1>1, TrimEachIs DEF TextLists
<1>3. \A i \in 1..Len(u) : u[i] \in Seq(Chars)
    BY ElementOfSeq DEF TextLists
<1> HIDE DEF t
<1>4. \A i \in 1..Len(u) : TrimText(t[i], c) = TrimText(u[i], c)
    BY <1>2, <1>3, TrimTwice
<1>5. Agree(Items(kind, t), Items(kind, u), m, c)
    BY <1>2, <1>4, AgreeItems
<1>6. CutFacts(t, m, c) = CutFacts(u, m, c)
    BY <1>2, <1>4, FactsSame
<1> QED
    BY <1>5, <1>6 DEF t

(* Texts that fit by themselves are only stripped of their outer blanks.   *)
LEMMA PartsFit ==
    ASSUME NEW list \in DiagnosticLists, NEW c \in Nat, c > 0,
           \A d \in ToSet(list) : Fits(d.severity, c) /\ Fits(d.message, c)
    PROVE  TrimParts(list, c) = TrimParts(list, 0)
<1>1. DOMAIN list = 1..Len(list)
    BY LenProperties DEF DiagnosticLists
<1>2. ASSUME NEW i \in DOMAIN list
      PROVE  /\ TrimText(list[i].severity, c) = TrimText(list[i].severity, 0)
             /\ TrimText(list[i].message, c) = TrimText(list[i].message, 0)
    <2>1. list[i] \in ToSet(list)
        BY DEF ToSet
    <2>2. /\ Len(TrimSpace(list[i].severity)) <= c
          /\ Len(TrimSpace(list[i].message)) <= c
        BY <2>1 DEF Fits
    <2> QED
        BY <2>2 DEF TrimText
<1> QED
    BY <1>2 DEF TrimParts

(* A request's texts and lists.                                            *)
Requests == [query : Seq(Chars), sources : TextLists, editor : Editors,
             planFirst : BOOLEAN, step : Seq(Chars)]

LEMMA RetrievedAre ==
    ASSUME NEW input \in Requests
    PROVE  EvidenceFromRetrieval(input.query, input.sources) \in Seq(AllItems)
<1>1. input.query \in Seq(Chars) /\ input.sources \in TextLists
    BY DEF Requests
<1>2. {"retrieval_query", "retrieval_source"} \subseteq Kinds
    BY DEF Kinds
<1>3. Items("retrieval_source", input.sources) \in Seq(AllItems)
    BY <1>1, <1>2, ItemsIs
<1>4. <<Item("retrieval_query", TrimSpace(input.query))>> \in Seq(AllItems)
    <2>1. TrimSpace(input.query) \in Seq(Chars)
        BY <1>1, TrimSpaceIs
    <2>2. Item("retrieval_query", TrimSpace(input.query)) \in AllItems
        BY <1>2, <2>1 DEF Item, AllItems
    <2> QED
        BY <2>2
<1>5. <<>> \in Seq(AllItems)
    OBVIOUS
<1> DEFINE asked == IF TrimSpace(input.query) = <<>> THEN <<>>
                    ELSE <<Item("retrieval_query", TrimSpace(input.query))>>
<1>6. asked \in Seq(AllItems)
    BY <1>4, <1>5
<1>7. EvidenceFromRetrieval(input.query, input.sources)
        = asked \o Items("retrieval_source", input.sources)
    BY DEF EvidenceFromRetrieval
<1> HIDE DEF asked
<1> QED
    BY <1>3, <1>6, <1>7, ConcatProperties

(* Editors' states that agree are cut to the same package.                 *)
LEMMA AssembledSame ==
    ASSUME NEW input \in Requests, NEW e, NEW f, NEW m \in Nat, NEW c \in Budgets,
           NEW base, base = EvidenceFromRetrieval(input.query, input.sources),
           base \o EvidenceFromEditor(e) \in Seq(AllItems),
           base \o EvidenceFromEditor(f) \in Seq(AllItems),
           Agree(base \o EvidenceFromEditor(e), base \o EvidenceFromEditor(f), m, c),
           CutFacts(e.vcs, m, c) = CutFacts(f.vcs, m, c)
    PROVE  ApplyBudget(Assembled(input, e), m, c) = ApplyBudget(Assembled(input, f), m, c)
<1>1. CutEvidence(base \o EvidenceFromEditor(e), m, c) = CutEvidence(base \o EvidenceFromEditor(f), m, c)
    BY CutSame
<1> DEFINE a == Assembled(input, e)
           b == Assembled(input, f)
<1>2. /\ a.evidence = base \o EvidenceFromEditor(e) /\ a.facts = e.vcs
      /\ b.evidence = base \o EvidenceFromEditor(f) /\ b.facts = f.vcs
      /\ a.planFirst = b.planFirst /\ a.step = b.step
    BY DEF Assembled
<1> HIDE DEF a, b
<1>3. ApplyBudget(a, m, c) = ApplyBudget(b, m, c)
    BY <1>1, <1>2, BudgetIs
<1> QED
    BY <1>3 DEF a, b

(* A package cut to a budget is cut by it no more.                         *)
LEMMA BudgetTwice ==
    ASSUME NEW whole, NEW m \in Nat, NEW c \in Budgets, whole.evidence \in Seq(AllItems),
           whole.facts \in TextLists, whole.step \in Seq(Chars),
           NEW package, package = ApplyBudget(whole, m, c)
    PROVE  package = ApplyBudget(package, m, c)
<1> DEFINE facts == whole.facts
           cut == CutFacts(facts, m, c)
<1>1. package = [evidence |-> CutEvidence(whole.evidence, m, c), facts |-> cut,
                 planFirst |-> whole.planFirst, step |-> TrimText(whole.step, c)]
    BY BudgetIs
<1>2. CutEvidence(package.evidence, m, c) = package.evidence
    BY <1>1, CutTwice
<1>3. CutFacts(cut, m, c) = cut
    <2>1. /\ cut \in TextLists /\ Len(cut) = IF Len(facts) > m THEN m ELSE Len(facts)
          /\ \A i \in 1..Len(cut) : i \in 1..Len(facts) /\ cut[i] = TrimText(facts[i], c)
        BY CutFactsIs
    <2>2. Len(facts) \in Nat /\ \A i \in 1..Len(facts) : facts[i] \in Seq(Chars)
        BY ElementOfSeq DEF TextLists
    <2> HIDE DEF cut, facts
    <2>3. Len(cut) = Len(facts) \/ (Len(cut) >= m /\ Len(facts) >= m)
        BY <2>1, <2>2
    <2>4. \A i \in 1..Len(cut) : i \in 1..Len(facts) => TrimText(cut[i], c) = TrimText(facts[i], c)
        BY <2>1, <2>2, TrimTwice
    <2>5. facts \in TextLists
        BY DEF facts
    <2>6. CutFacts(cut, m, c) = CutFacts(facts, m, c)
        BY <2>1, <2>3, <2>4, <2>5, FactsSame
    <2> QED
        BY <2>6 DEF cut
<1>4. TrimText(package.step, c) = package.step
    BY <1>1, TrimTwice
<1>5. package.facts = cut
    BY <1>1
<1>6. package = [evidence |-> package.evidence, facts |-> package.facts,
                 planFirst |-> package.planFirst, step |-> package.step]
    BY <1>1
<1> HIDE DEF cut
<1> QED
    BY <1>2, <1>3, <1>4, <1>5, <1>6, BudgetIs

(* For every request and limits: in a package that is built, no item the   *)
(* budget has room for is lost to the limits of the editor's lists;        *)
(* cutting it once more changes nothing; when the texts of the diagnostics *)
(* fit by themselves, it is the request cut once; and its role is that of  *)
(* the request (BuildContextPackage, ApplyBudget and DecideExecutionMode). *)
THEOREM PackageSound ==
    ASSUME NEW input \in Requests, NEW m \in Nat, NEW c \in Budgets,
           NEW package, package = BuildContextPackage(input, m, c),
           NEW editor, editor = input.editor
    PROVE  /\ package = ApplyBudget(Assembled(input,
                            NormalizeMCPSnapshot(editor, Room(editor), c)), m, c)
           /\ package = ApplyBudget(package, m, c)
           /\ /\ c > 0
              /\ \A d \in ToSet(editor.diagnostics) : Fits(d.severity, c) /\ Fits(d.message, c)
              => package = ApplyBudget(Assembled(input, Stripped(editor)), m, c)
           /\ DecideExecutionMode(package) = DecideExecutionMode(Assembled(input, editor))
<1> DEFINE n == NormalizeMCPSnapshot(editor, m, c)
           w == NormalizeMCPSnapshot(editor, Room(editor), c)
           base == EvidenceFromRetrieval(input.query, input.sources)
           step == input.step
<1>1. c \in Nat /\ editor \in Editors /\ step \in Seq(Chars) /\ base \in Seq(AllItems)
    BY RetrievedAre DEF Requests, Budgets
<1>2. package = ApplyBudget(Assembled(input, n), m, c)
    BY DEF BuildContextPackage
<1>3. n = NormalizeMCPSnapshot(editor, m, c) /\ w = NormalizeMCPSnapshot(editor, Room(editor), c)
    OBVIOUS
<1>4. base = EvidenceFromRetrieval(input.query, input.sources)
    OBVIOUS
<1> HIDE DEF n, w, base, step
<1>5. /\ w.files = TrimEach(editor.files, CharsOf(c))
      /\ w.selection = TrimEach(editor.selection, CharsOf(c))
      /\ w.diagnostics = TrimParts(editor.diagnostics, CharsOf(c))
      /\ w.vcs = TrimEach(editor.vcs, CharsOf(c)) /\ n.vcs = w.vcs
      /\ n \in Editors /\ w \in Editors
      /\ base \o EvidenceFromEditor(n) \in Seq(AllItems)
      /\ base \o EvidenceFromEditor(w) \in Seq(AllItems)
      /\ Agree(base \o EvidenceFromEditor(n), base \o EvidenceFromEditor(w), m, c)
    <2>1. \A list \in Seq(AllItems), state \in Editors :
            LET p == NormalizeMCPSnapshot(state, m, c)
                q == NormalizeMCPSnapshot(state, Room(state), c)
            IN  /\ q.files = TrimEach(state.files, CharsOf(c))
                /\ q.selection = TrimEach(state.selection, CharsOf(c))
                /\ q.diagnostics = TrimParts(state.diagnostics, CharsOf(c))
                /\ q.vcs = TrimEach(state.vcs, CharsOf(c)) /\ p.vcs = q.vcs
                /\ p \in Editors /\ q \in Editors
                /\ list \o EvidenceFromEditor(p) \in Seq(AllItems)
                /\ list \o EvidenceFromEditor(q) \in Seq(AllItems)
                /\ Agree(list \o EvidenceFromEditor(p), list \o EvidenceFromEditor(q), m, c)
        BY NormalizedAgrees
    <2> QED
        BY <1>1, <2>1 DEF n, w
<1>6. package = ApplyBudget(Assembled(input, w), m, c)
    <2>1. CutFacts(n.vcs, m, c) = CutFacts(w.vcs, m, c)
        BY <1>5
    <2>2. ApplyBudget(Assembled(input, n), m, c) = ApplyBudget(Assembled(input, w), m, c)
        BY <1>4, <1>5, <2>1, AssembledSame
    <2> QED
        BY <1>2, <2>2
<1>7. package = ApplyBudget(package, m, c)
    <2> DEFINE whole == Assembled(input, w)
    <2>1. /\ whole.evidence \in Seq(AllItems) /\ whole.facts \in TextLists
          /\ whole.step \in Seq(Chars)
        BY <1>1, <1>4, <1>5 DEF Assembled, Editors, step
    <2> HIDE DEF whole
    <2>2. package = ApplyBudget(whole, m, c)
        BY <1>6 DEF whole
    <2> QED
        BY <2>1, <2>2, BudgetTwice
<1>8. ASSUME c > 0,
             \A d \in ToSet(editor.diagnostics) : Fits(d.severity, c) /\ Fits(d.message, c)
      PROVE  package = ApplyBudget(Assembled(input, Stripped(editor)), m, c)
    <2> DEFINE f == Stripped(editor)
    <2>1. CharsOf(c) = c
        BY <1>1, <1>8 DEF CharsOf
    <2>2. /\ editor.files \in TextLists /\ editor.selection \in TextLists
          /\ editor.vcs \in TextLists /\ editor.diagnostics \in DiagnosticLists
        BY <1>1 DEF Editors
    <2>3. TrimParts(editor.diagnostics, 0) \in DiagnosticLists
        BY <2>2, TrimPartsAre
    <2>4. /\ f \in Editors
          /\ f.files = editor.files /\ f.selection = editor.selection /\ f.vcs = editor.vcs
          /\ f.diagnostics = TrimParts(editor.diagnostics, 0)
        BY <1>1, <2>2, <2>3 DEF Stripped, Editors
    <2> HIDE DEF f
    <2>5. w.diagnostics = f.diagnostics
        BY <1>1, <1>5, <1>8, <2>1, <2>2, <2>4, PartsFit
    <2>6. {"mcp_open_file", "mcp_selection", "mcp_diagnostic"} \subseteq Kinds
        BY DEF Kinds
    <2>7. Agree(Items("mcp_open_file", w.files), Items("mcp_open_file", f.files), m, c)
        BY <1>5, <2>1, <2>2, <2>4, <2>6, AgreeTrimmed
    <2>8. Agree(Items("mcp_selection", w.selection), Items("mcp_selection", f.selection), m, c)
        BY <1>5, <2>1, <2>2, <2>4, <2>6, AgreeTrimmed
    <2>9. Agree(Items("mcp_diagnostic", Summaries(w.diagnostics)),
                Items("mcp_diagnostic", Summaries(f.diagnostics)), m, c)
        BY <2>5 DEF Agree, Alike
    <2>10. CutFacts(w.vcs, m, c) = CutFacts(f.vcs, m, c)
        BY <1>5, <2>1, <2>2, <2>4, <2>6, AgreeTrimmed
    <2>11. /\ base \o EvidenceFromEditor(w) \in Seq(AllItems)
           /\ base \o EvidenceFromEditor(f) \in Seq(AllItems)
           /\ Agree(base \o EvidenceFromEditor(w), base \o EvidenceFromEditor(f), m, c)
        BY <1>1, <1>5, <2>4, <2>7, <2>8, <2>9, EvidenceAgrees
    <2>12. ApplyBudget(Assembled(input, w), m, c) = ApplyBudget(Assembled(input, f), m, c)
        BY <1>4, <2>10, <2>11, AssembledSame
    <2> QED
        BY <1>6, <2>12 DEF f
<1>9. DecideExecutionMode(package) = DecideExecutionMode(Assembled(input, editor))
    <2>1. TrimSpace(TrimText(step, c)) = <<>> <=> TrimSpace(step) = <<>>
        BY <1>1, TrimTwice
    <2>2. package.planFirst = input.planFirst /\ package.step = TrimText(step, c)
        <3>1. /\ Assembled(input, n).planFirst = input.planFirst
              /\ Assembled(input, n).step = step
            BY DEF Assembled, step
        <3> QED
            BY <1>2, <3>1, BudgetIs
    <2>3. /\ Assembled(input, editor).planFirst = input.planFirst
          /\ Assembled(input, editor).step = step
        BY DEF Assembled, step
    <2> QED
        BY <2>1, <2>2, <2>3 DEF DecideExecutionMode
<1>10. package = ApplyBudget(Assembled(input, NormalizeMCPSnapshot(editor, Room(editor), c)), m, c)
    BY <1>3, <1>6
<1> QED
    BY <1>7, <1>8, <1>9, <1>10

LEMMA ItemsAssumed == MaxItems \in Nat
<1> QED
    BY TextAssumption

LEMMA SamplesAreTexts ==
    ASSUME NEW text \in Messages
    PROVE  text \in Seq(Chars)
<1>1. Letter \in Chars /\ Blank \in Chars
    BY DEF Chars
<1>2. \A n \in Nat : [i \in 1..n |-> Letter] \in Seq(Chars)
    <2> TAKE n \in Nat
    <2>1. [i \in 1..n |-> Letter] \in [1..n -> Chars]
        BY <1>1
    <2> QED
        BY <2>1, SeqDef
<1>3. <<Letter>> \in Seq(Chars) /\ <<Blank>> \in Seq(Chars)
    BY <1>1
<1>4. MaxChars \in Nat /\ MaxChars + 1 \in Nat
    BY CharsAssumed
<1>5. /\ [i \in 1..(MaxChars + 1) |-> Letter] \in Seq(Chars)
      /\ [i \in 1..MaxChars |-> Letter] \in Seq(Chars)
    BY <1>2, <1>4
<1>6. <<Blank>> \o [i \in 1..MaxChars |-> Letter] \in Seq(Chars)
    <2> DEFINE full == [i \in 1..MaxChars |-> Letter]
    <2>1. full \in Seq(Chars)
        BY <1>5
    <2> HIDE DEF full
    <2>2. <<Blank>> \o full \in Seq(Chars)
        BY <1>3, <2>1, ConcatProperties
    <2> QED
        BY <2>2 DEF full
<1> QED
    BY <1>3, <1>5, <1>6 DEF Messages, Samples

LEMMA SameIs ==
    ASSUME NEW S, NEW value \in S, NEW n \in Nat
    PROVE  Same(n, value) \in Seq(S)
<1>1. Same(n, value) \in [1..n -> S]
    BY DEF Same
<1> QED
    BY <1>1, SeqDef

(* The budget may be applied at every stage of an agent task: the editor's *)
(* lists lose nothing early that the package has room for, cutting again   *)
(* changes nothing, texts come out as if they were cut once unless a part  *)
(* of a diagnostic is over the limit by itself, and the role chosen by the *)
(* cut package is that of the request.                                     *)
THEOREM PackageTheorem == Spec => []PackageKeepsBudget
<1>1. Init => PackageKeepsBudget
    BY DEF Init, PackageKeepsBudget, TrimmedOnce, PackageIsTheFirst, TextsAreCutOnce,
        BudgetKeepsTheRole, Called
<1>2. ASSUME Trim PROVE TrimmedOnce'
    <2>1. PICK text \in Texts(MaxChars + 2), limit \in 0..MaxChars :
            call' = [name |-> "trim", limit |-> limit, trimmed |-> TrimText(text, limit)]
        BY <1>2 DEF Trim
    <2>2. text \in Seq(Chars)
        <3>1. PICK k \in 0..(MaxChars + 2) : text \in [1..k -> {Blank, Letter}]
            BY DEF Texts
        <3>2. k \in Nat /\ text \in [1..k -> Chars]
            BY <3>1, CharsAssumed DEF Chars
        <3> QED
            BY <3>2, SeqDef
    <2>3. limit \in Nat
        BY CharsAssumed
    <2>4. /\ call'.limit = limit /\ call'.trimmed = TrimText(text, limit)
        BY <2>1
    <2>5. /\ limit > 0 => Len(TrimText(text, limit)) <= limit
          /\ limit > MarkLength => TrimText(TrimText(text, limit), limit) = TrimText(text, limit)
        BY <2>2, <2>3, TrimTextIs
    <2> QED
        BY <2>4, <2>5 DEF TrimmedOnce
<1>3. ASSUME Package PROVE PackageIsTheFirst' /\ TextsAreCutOnce' /\ BudgetKeepsTheRole'
    <2>1. PICK sources \in 0..MaxItems, files \in 0..MaxItems, diagnostics \in 0..MaxItems,
               vcs \in 0..MaxItems,
               selection \in 0..1, query \in Samples, step \in Samples, text \in Samples,
               message \in Messages, planFirst \in BOOLEAN :
            LET diagnostic == [severity |-> text, message |-> message]
                editor == [files |-> Same(files, text), selection |-> Same(selection, text),
                           diagnostics |-> Same(diagnostics, diagnostic),
                           vcs |-> Same(vcs, text)]
                input == [query |-> query, sources |-> Same(sources, text), editor |-> editor,
                          planFirst |-> planFirst, step |-> step]
            IN  \E maxItems \in 0..(MaxItems + 1), maxChars \in {0, MaxChars} :
                    call' = [name |-> "package", input |-> input,
                             maxItems |-> maxItems, maxChars |-> maxChars,
                             package |-> BuildContextPackage(input, maxItems, maxChars)]
        BY <1>3 DEF Package
    <2> DEFINE diagnostic == [severity |-> text, message |-> message]
               state == [files |-> Same(files, text), selection |-> Same(selection, text),
                         diagnostics |-> Same(diagnostics, diagnostic), vcs |-> Same(vcs, text)]
               input == [query |-> query, sources |-> Same(sources, text), editor |-> state,
                         planFirst |-> planFirst, step |-> step]
    <2>2. PICK maxItems \in 0..(MaxItems + 1), maxChars \in {0, MaxChars} :
            call' = [name |-> "package", input |-> input,
                     maxItems |-> maxItems, maxChars |-> maxChars,
                     package |-> BuildContextPackage(input, maxItems, maxChars)]
        BY <2>1
    <2>3. input \in Requests
        <3>1. Samples \subseteq Messages
            BY DEF Messages
        <3>2. /\ text \in Seq(Chars) /\ message \in Seq(Chars)
              /\ query \in Seq(Chars) /\ step \in Seq(Chars)
            BY <3>1, SamplesAreTexts
        <3>3. /\ Same(files, text) \in TextLists /\ Same(selection, text) \in TextLists
              /\ Same(vcs, text) \in TextLists /\ Same(sources, text) \in TextLists
            <4>1. files \in Nat /\ selection \in Nat /\ vcs \in Nat /\ sources \in Nat
                BY ItemsAssumed
            <4>2. \A k \in Nat : Same(k, text) \in Seq(Seq(Chars))
                BY <3>2, SameIs
            <4> QED
                BY <4>1, <4>2 DEF TextLists
        <3>4. Same(diagnostics, diagnostic) \in DiagnosticLists
            <4>1. diagnostic \in [severity : Seq(Chars), message : Seq(Chars)]
                BY <3>2
            <4>2. diagnostics \in Nat
                BY ItemsAssumed
            <4> HIDE DEF diagnostic
            <4> QED
                BY <4>1, <4>2, SameIs DEF DiagnosticLists
        <3> HIDE DEF diagnostic
        <3>5. state \in Editors
            BY <3>3, <3>4 DEF Editors
        <3> HIDE DEF state
        <3> QED
            BY <3>2, <3>3, <3>5 DEF Requests
    <2> HIDE DEF input
    <2> DEFINE package == BuildContextPackage(input, maxItems, maxChars)
               editor == input.editor
    <2>4. /\ call'.input = input /\ call'.maxItems = maxItems /\ call'.maxChars = maxChars
          /\ call'.package = package
        BY <2>2
    <2>5. /\ package = ApplyBudget(Assembled(input,
                            NormalizeMCPSnapshot(editor, Room(editor), maxChars)), maxItems, maxChars)
          /\ package = ApplyBudget(package, maxItems, maxChars)
          /\ /\ maxChars > 0
             /\ \A d \in ToSet(editor.diagnostics) :
                    Fits(d.severity, maxChars) /\ Fits(d.message, maxChars)
             => package = ApplyBudget(Assembled(input, Stripped(editor)), maxItems, maxChars)
          /\ DecideExecutionMode(package) = DecideExecutionMode(Assembled(input, editor))
        <3>1. maxItems \in Nat
            BY ItemsAssumed
        <3>2. maxChars \in Budgets
            BY CharsAssumed DEF Budgets
        <3>3. package = BuildContextPackage(input, maxItems, maxChars) /\ editor = input.editor
            OBVIOUS
        <3> HIDE DEF package, editor
        <3> QED
            BY <2>3, <3>1, <3>2, <3>3, PackageSound
    <2> HIDE DEF package
    <2>6. PackageIsTheFirst'
        BY <2>4, <2>5 DEF PackageIsTheFirst
    <2>7. TextsAreCutOnce'
        BY <2>4, <2>5 DEF TextsAreCutOnce
    <2>8. BudgetKeepsTheRole'
        BY <2>4, <2>5 DEF BudgetKeepsTheRole
    <2> QED
        BY <2>6, <2>7, <2>8
<1>4. PackageKeepsBudget /\ [Next]_vars => PackageKeepsBudget'
    <2> SUFFICES ASSUME PackageKeepsBudget, [Next]_vars PROVE PackageKeepsBudget'
        OBVIOUS
    <2>1. CASE Next
        <3>1. TrimmedOnce'
            <4>1. call'.name # "trim" => TrimmedOnce'
                BY DEF TrimmedOnce, Called
            <4> QED
                BY <1>2, <2>1, <4>1, Origin
        <3>2. PackageIsTheFirst' /\ TextsAreCutOnce' /\ BudgetKeepsTheRole'
            <4>1. call'.name # "package" =>
                        PackageIsTheFirst' /\ TextsAreCutOnce' /\ BudgetKeepsTheRole'
                BY DEF PackageIsTheFirst, TextsAreCutOnce, BudgetKeepsTheRole, Called
            <4> QED
                BY <1>3, <2>1, <4>1, Origin
        <3> QED
            BY <3>1, <3>2 DEF PackageKeepsBudget
    <2>2. CASE UNCHANGED vars
        BY <2>2 DEF vars, PackageKeepsBudget, TrimmedOnce, PackageIsTheFirst,
            TextsAreCutOnce, BudgetKeepsTheRole, Called
    <2> QED
        BY <2>1, <2>2
<1> QED
    BY <1>1, <1>4, PTL DEF Spec

-----------------------------------------------------------------------------
(* Orders.  below gives the members of a finite set before each of them.   *)
Orders(below, S) ==
    /\ below \in [S -> SUBSET S]
    /\ \A m \in S : m \notin below[m]
    /\ \A m, n \in S : m = n \/ m \in below[n] \/ n \in below[m]
    /\ \A m \in S : \A n \in below[m] : below[n] \subseteq below[m]

(* The members listed by how many are before them.                         *)
Listed(below, S) == [k \in 1..Cardinality(S) |-> CHOOSE m \in S : Cardinality(below[m]) = k - 1]

LEMMA ListedIs ==
    ASSUME NEW S, IsFiniteSet(S), NEW below, Orders(below, S)
    PROVE  /\ Cardinality(S) \in Nat
           /\ Listed(below, S) \in [1..Cardinality(S) -> S]
           /\ \A m \in S : \E k \in 1..Cardinality(S) : Listed(below, S)[k] = m
           /\ \A j, k \in 1..Cardinality(S) :
                j < k => Listed(below, S)[j] \in below[Listed(below, S)[k]]
<1> DEFINE size == Cardinality(S)
           f == Listed(below, S)
           rank == [m \in S |-> Cardinality(below[m])]
<1>1. size \in Nat
    BY FS_CardinalityType
<1>2. ASSUME NEW m \in S
      PROVE  IsFiniteSet(below[m]) /\ rank[m] \in Nat /\ rank[m] < size
    <2>1. below[m] \in SUBSET S /\ below[m] # S
        BY DEF Orders
    <2>2. IsFiniteSet(below[m]) /\ Cardinality(below[m]) <= size /\ Cardinality(below[m]) # size
        BY <2>1, FS_Subset
    <2>3. Cardinality(below[m]) \in Nat
        BY <2>2, FS_CardinalityType
    <2> QED
        BY <1>1, <2>2, <2>3
<1>3. ASSUME NEW m \in S, NEW n \in below[m] PROVE rank[n] < rank[m]
    <2>1. /\ n \in S /\ below[n] \in SUBSET below[m] /\ below[n] # below[m]
        BY DEF Orders
    <2>2. Cardinality(below[n]) <= Cardinality(below[m]) /\ Cardinality(below[n]) # Cardinality(below[m])
        BY <1>2, <2>1, FS_Subset
    <2> QED
        BY <1>2, <2>1, <2>2
<1>4. ASSUME NEW m \in S, NEW n \in S, rank[m] = rank[n] PROVE m = n
    <2>1. m = n \/ m \in below[n] \/ n \in below[m]
        BY DEF Orders
    <2>2. rank[m] \in Nat /\ rank[n] \in Nat
        BY <1>2
    <2> HIDE DEF rank
    <2>3. m \in below[n] => rank[m] < rank[n]
        BY <1>3
    <2>4. n \in below[m] => rank[n] < rank[m]
        BY <1>3
    <2> QED
        BY <1>4, <2>1, <2>2, <2>3, <2>4
<1>5. \A k \in 0..(size - 1) : \E m \in S : rank[m] = k
    <2>1. rank \in Injection(S, 0..(size - 1))
        <3>1. \A m \in S : rank[m] \in 0..(size - 1)
            BY <1>1, <1>2
        <3>2. rank \in [S -> 0..(size - 1)]
            BY <3>1
        <3> QED
            BY <1>4, <3>2 DEF Injection, IsInjective
    <2>2. IsFiniteSet(0..(size - 1)) /\ Cardinality(0..(size - 1)) = size
        <3>1. 0 \in Int /\ size - 1 \in Int
            BY <1>1
        <3> HIDE DEF size
        <3>2. /\ IsFiniteSet(0..(size - 1))
              /\ Cardinality(0..(size - 1)) = IF 0 > size - 1 THEN 0 ELSE size - 1 - 0 + 1
            BY <3>1, FS_Interval
        <3> QED
            BY <1>1, <3>2
    <2> HIDE DEF rank
    <2>3. rank \in Surjection(S, 0..(size - 1))
        BY <2>1, <2>2, FS_Injection
    <2> QED
        BY <2>3 DEF Surjection
<1>6. ASSUME NEW k \in 1..size PROVE f[k] \in S /\ rank[f[k]] = k - 1
    <2>1. k - 1 \in 0..(size - 1)
        BY <1>1
    <2>2. \E m \in S : Cardinality(below[m]) = k - 1
        BY <1>5, <2>1
    <2>3. f[k] = CHOOSE m \in S : Cardinality(below[m]) = k - 1
        BY DEF Listed
    <2> HIDE DEF f
    <2> QED
        BY <2>2, <2>3
<1>7. f \in [1..size -> S]
    <2>1. f = [k \in 1..size |-> f[k]]
        BY DEF Listed
    <2> HIDE DEF f
    <2> QED
        BY <1>6, <2>1
<1>8. ASSUME NEW m \in S PROVE \E k \in 1..size : f[k] = m
    <2>1. rank[m] + 1 \in 1..size /\ rank[m] + 1 - 1 = rank[m]
        BY <1>1, <1>2
    <2> HIDE DEF f, rank, size
    <2> DEFINE k == rank[m] + 1
    <2>2. k \in 1..size /\ k - 1 = rank[m]
        <3>1. rank[m] \in Nat
            BY <1>2
        <3> QED
            BY <2>1, <3>1
    <2> HIDE DEF k
    <2>3. f[k] \in S /\ rank[f[k]] = k - 1
        BY <1>6, <2>2
    <2> QED
        BY <1>4, <2>2, <2>3
<1>9. ASSUME NEW j \in 1..size, NEW k \in 1..size, j < k PROVE f[j] \in below[f[k]]
    <2>1. f[j] \in S /\ f[k] \in S /\ rank[f[j]] = j - 1 /\ rank[f[k]] = k - 1
        BY <1>6
    <2>2. f[j] = f[k] \/ f[j] \in below[f[k]] \/ f[k] \in below[f[j]]
        BY <2>1 DEF Orders
    <2> HIDE DEF f, rank
    <2>3. f[j] # f[k]
        BY <1>1, <1>9, <2>1
    <2>4. f[k] \notin below[f[j]]
        <3> SUFFICES ASSUME f[k] \in below[f[j]] PROVE FALSE
            OBVIOUS
        <3>1. rank[f[k]] < rank[f[j]]
            BY <1>3, <2>1
        <3> QED
            BY <1>1, <1>9, <2>1, <3>1
    <2> QED
        BY <2>2, <2>3, <2>4
<1> QED
    BY <1>1, <1>7, <1>8, <1>9

(* An increasing list of numbers is their list in order.                   *)
LEMMA IncreasingIs ==
    ASSUME NEW n \in Nat, NEW S \in SUBSET Nat, NEW e \in [1..n -> S],
           \A i, j \in 1..n : i < j => e[i] < e[j],
           \A p \in S : \E i \in 1..n : e[i] = p
    PROVE  Cardinality(S) = n /\ InOrder(S, <) = e
<1>1. \A i \in 1..n : e[i] \in Nat
    OBVIOUS
<1>2. \A i, j \in 1..n : e[i] = e[j] => i = j
    BY <1>1
<1>3. ASSUME NEW m \in 0..n, NEW T, NEW f \in [1..m -> T],
             \A i, j \in 1..m : f[i] = f[j] => i = j, \A p \in T : \E i \in 1..m : f[i] = p
      PROVE  Cardinality(T) = m
    <2>1. f \in Surjection(1..m, T) /\ f \in Injection(1..m, T)
        BY <1>3 DEF Surjection, Injection, IsInjective
    <2>2. IsFiniteSet(1..m) /\ Cardinality(1..m) = m
        <3>1. 1 \in Int /\ m \in Int /\ m \in Nat
            OBVIOUS
        <3>2. /\ IsFiniteSet(1..m)
              /\ Cardinality(1..m) = IF 1 > m THEN 0 ELSE m - 1 + 1
            BY <3>1, FS_Interval
        <3> QED
            BY <3>1, <3>2
    <2> QED
        BY <2>1, <2>2, FS_Surjection
<1>4. Cardinality(S) = n
    <2>1. n \in 0..n
        OBVIOUS
    <2> QED
        BY <1>2, <1>3, <2>1
<1>5. ASSUME NEW k \in 1..n PROVE Cardinality({p \in S : p < e[k]}) = k - 1
    <2> DEFINE T == {p \in S : p < e[k]}
               f == [i \in 1..(k - 1) |-> e[i]]
    <2>1. k - 1 \in 0..n /\ \A i \in 1..(k - 1) : i \in 1..n /\ i < k
        OBVIOUS
    <2>2. f \in [1..(k - 1) -> T]
        BY <2>1
    <2>3. \A i, j \in 1..(k - 1) : f[i] = f[j] => i = j
        BY <1>2, <2>1
    <2>4. ASSUME NEW p \in T PROVE \E i \in 1..(k - 1) : f[i] = p
        <3>1. PICK i \in 1..n : e[i] = p
            OBVIOUS
        <3>2. i < k
            BY <1>1, <3>1
        <3> QED
            BY <3>1, <3>2
    <2> HIDE DEF T, f
    <2> QED
        BY <1>3, <2>1, <2>2, <2>3, <2>4 DEF T
<1>6. ASSUME NEW k \in 1..n
      PROVE  (CHOOSE m \in S : Cardinality({p \in S : p < m}) = k - 1) = e[k]
    <2>1. ASSUME NEW m \in S, Cardinality({p \in S : p < m}) = k - 1 PROVE m = e[k]
        <3>1. PICK i \in 1..n : e[i] = m
            OBVIOUS
        <3>2. Cardinality({p \in S : p < m}) = i - 1
            BY <1>5, <3>1
        <3>3. i = k
            BY <2>1, <3>2
        <3> QED
            BY <3>1, <3>3
    <2>2. e[k] \in S /\ Cardinality({p \in S : p < e[k]}) = k - 1
        BY <1>5
    <2> QED
        BY <2>1, <2>2
<1>7. InOrder(S, <) = [k \in 1..n |-> CHOOSE m \in S : Cardinality({p \in S : p < m}) = k - 1]
    BY <1>4 DEF InOrder
<1> QED
    BY <1>4, <1>6, <1>7

-----------------------------------------------------------------------------
(* The matches a scan selects.                                             *)
AllMatches == {m \in [rule : Rules, start : 0..MaxText, end : 0..MaxText] : m.start < m.end}

LEMMA RulesAre ==
    /\ Len(RuleActions) \in Nat
    /\ \A r \in Rules : r \in Nat /\ r > 0 /\ RuleActions[r] \in {"redact", "block"}
<1>1. RuleActions \in Seq({"redact", "block"})
    BY ScannerAssumption
<1>2. Len(RuleActions) \in Nat
    BY <1>1, LenProperties
<1> QED
    BY <1>1, <1>2, ElementOfSeq DEF Rules

LEMMA MatchesAre ==
    ASSUME NEW indices \in [Rules -> Indices(MaxText)]
    PROVE  Matches(indices) \subseteq AllMatches
<1> DEFINE pairs == {p \in (0..MaxText) \X (0..MaxText) : p[1] < p[2]}
<1>1. \A r \in Rules : indices[r] \subseteq pairs
    BY DEF Indices
<1>2. ASSUME NEW r \in Rules, NEW p \in pairs PROVE Match(r, p[1], p[2]) \in AllMatches
    <2>1. p[1] \in 0..MaxText /\ p[2] \in 0..MaxText /\ p[1] < p[2]
        OBVIOUS
    <2> QED
        BY <2>1 DEF Match, AllMatches
<1> HIDE DEF pairs
<1>3. ASSUME NEW m \in Matches(indices) PROVE m \in AllMatches
    <2>1. PICK r \in Rules : m \in {Match(r, p[1], p[2]) : p \in indices[r]}
        BY DEF Matches
    <2>2. PICK p \in indices[r] : m = Match(r, p[1], p[2])
        BY <2>1
    <2> QED
        BY <1>1, <1>2, <2>2
<1> QED
    BY <1>3

LEMMA MatchesFinite ==
    ASSUME NEW matches \in SUBSET AllMatches
    PROVE  IsFiniteSet(matches)
<1> DEFINE triples == Rules \X ((0..MaxText) \X (0..MaxText))
           f == [m \in matches |-> <<m.rule, <<m.start, m.end>>>>]
<1>1. IsFiniteSet(triples)
    <2>1. 0 \in Int /\ MaxText \in Int /\ 1 \in Int /\ Len(RuleActions) \in Int
        <3>1. MaxText \in Int
            BY TextAssumption
        <3> QED
            BY <3>1, RulesAre
    <2>2. IsFiniteSet(0..MaxText) /\ IsFiniteSet(Rules)
        BY <2>1, FS_Interval DEF Rules
    <2>3. IsFiniteSet((0..MaxText) \X (0..MaxText))
        BY <2>2, FS_Product
    <2> QED
        BY <2>2, <2>3, FS_Product
<1>2. \A m \in matches : /\ m \in [rule : Rules, start : 0..MaxText, end : 0..MaxText]
                         /\ m.rule \in Rules /\ m.start \in 0..MaxText /\ m.end \in 0..MaxText
    BY DEF AllMatches
<1>3. f \in [matches -> triples]
    BY <1>2
<1>4. ASSUME NEW m \in matches, NEW n \in matches, f[m] = f[n] PROVE m = n
    <2>1. m.rule = n.rule /\ m.start = n.start /\ m.end = n.end
        BY <1>4
    <2> QED
        BY <1>2, <2>1
<1> HIDE DEF f, triples
<1>5. f \in Injection(matches, triples)
    BY <1>3, <1>4 DEF Injection, IsInjective
<1> QED
    BY <1>1, <1>5, FS_Injection

(* Sorted: what comes earlier, is longer or of an earlier rule is first.   *)
LEMMA SortedIs ==
    ASSUME NEW matches \in SUBSET AllMatches
    PROVE  LET sorted == InOrder(matches, Precedes)
           IN  /\ Len(sorted) \in Nat /\ sorted \in [1..Len(sorted) -> matches]
               /\ \A m \in matches : \E k \in 1..Len(sorted) : sorted[k] = m
               /\ \A j, k \in 1..Len(sorted) : j < k => Precedes(sorted[j], sorted[k])
<1> DEFINE sorted == InOrder(matches, Precedes)
           below == [m \in matches |-> {n \in matches : Precedes(n, m)}]
           size == Cardinality(matches)
<1>1. \A m \in matches : /\ m = [rule |-> m.rule, start |-> m.start, end |-> m.end]
                         /\ m.rule \in Nat /\ m.start \in Nat /\ m.end \in Nat
    <2>1. MaxText \in Nat
        BY TextAssumption
    <2>2. \A m \in matches :
            /\ m = [rule |-> m.rule, start |-> m.start, end |-> m.end]
            /\ m.rule \in Rules /\ m.start \in 0..MaxText /\ m.end \in 0..MaxText
        BY DEF AllMatches
    <2> QED
        BY <2>1, <2>2, RulesAre
<1>2. Orders(below, matches)
    <2>1. below \in [matches -> SUBSET matches]
        OBVIOUS
    <2>2. \A m \in matches : m \notin below[m]
        BY <1>1 DEF Precedes
    <2>3. \A m, n \in matches : m = n \/ m \in below[n] \/ n \in below[m]
        <3> TAKE m, n \in matches
        <3>1. m.start = n.start /\ m.end = n.end /\ m.rule = n.rule => m = n
            BY <1>1
        <3>2. Precedes(m, n) \/ Precedes(n, m) \/ (m.start = n.start /\ m.end = n.end /\ m.rule = n.rule)
            BY <1>1 DEF Precedes
        <3> QED
            BY <3>1, <3>2
    <2>4. \A m \in matches : \A n \in below[m] : below[n] \subseteq below[m]
        <3> TAKE m \in matches
        <3> TAKE n \in below[m]
        <3>1. n \in matches /\ Precedes(n, m)
            OBVIOUS
        <3>2. ASSUME NEW p \in matches, Precedes(p, n) PROVE Precedes(p, m)
            BY <1>1, <3>1, <3>2 DEF Precedes
        <3> QED
            BY <3>1, <3>2
    <2> HIDE DEF below
    <2> QED
        BY <2>1, <2>2, <2>3, <2>4 DEF Orders
<1>3. IsFiniteSet(matches)
    BY MatchesFinite
<1>4. sorted = Listed(below, matches)
    <2>1. \A m \in matches : below[m] = {n \in matches : Precedes(n, m)}
        OBVIOUS
    <2> HIDE DEF below
    <2> DEFINE here(k) == CHOOSE m \in matches : Cardinality({n \in matches : Precedes(n, m)}) = k - 1
               there(k) == CHOOSE m \in matches : Cardinality(below[m]) = k - 1
    <2>2. ASSUME NEW k \in 1..size PROVE here(k) = there(k)
        <3>1. \A m : (m \in matches /\ Cardinality({n \in matches : Precedes(n, m)}) = k - 1)
                    <=> (m \in matches /\ Cardinality(below[m]) = k - 1)
            BY <2>1
        <3> QED
            BY <3>1
    <2>3. sorted = [k \in 1..size |-> here(k)]
        BY DEF InOrder
    <2>4. Listed(below, matches) = [k \in 1..size |-> there(k)]
        BY DEF Listed
    <2> HIDE DEF here, there, sorted
    <2> QED
        BY <2>2, <2>3, <2>4
<1> HIDE DEF sorted, below
<1>5. /\ size \in Nat /\ sorted \in [1..size -> matches]
      /\ \A m \in matches : \E k \in 1..size : sorted[k] = m
      /\ \A j, k \in 1..size : j < k => sorted[j] \in below[sorted[k]]
    BY <1>2, <1>3, <1>4, ListedIs
<1>6. Len(sorted) = size
    BY <1>5
<1>7. \A j, k \in 1..size : j < k => Precedes(sorted[j], sorted[k])
    <2>1. \A k \in 1..size : below[sorted[k]] = {n \in matches : Precedes(n, sorted[k])}
        BY <1>5 DEF below
    <2> QED
        BY <1>5, <2>1
<1> QED
    BY <1>5, <1>6, <1>7 DEF sorted

(* What is selected of the first k: they do not overlap, and every match   *)
(* is selected or begins within an earlier one that is.                    *)
Picked(sorted, k, selected) ==
    /\ \A i \in 1..Len(selected) : \E h \in 1..k : selected[i] = sorted[h]
    /\ \A i, j \in 1..Len(selected) : i < j => selected[i].end <= selected[j].start
    /\ \A h \in 1..k : \E i \in 1..Len(selected) :
        \/ selected[i] = sorted[h]
        \/ Precedes(selected[i], sorted[h]) /\ sorted[h].start < selected[i].end

LEMMA SelectRound ==
    ASSUME NEW matches \in SUBSET AllMatches, NEW n \in Nat, NEW sorted \in [1..n -> matches],
           NEW k \in 1..n, NEW selected \in Seq(matches)
    PROVE  /\ Select(selected, sorted[k]) \in Seq(matches)
           /\ /\ \A h, j \in 1..n : h < j => Precedes(sorted[h], sorted[j])
              /\ Picked(sorted, k - 1, selected)
              => Picked(sorted, k, Select(selected, sorted[k]))
<1> DEFINE m == sorted[k]
           last == selected[Len(selected)]
           more == Append(selected, m)
<1>1. m \in matches /\ Len(selected) \in Nat /\ \A i \in 1..Len(selected) : selected[i] \in matches
    BY ElementOfSeq
<1>2. \A x \in matches : x.start \in Nat /\ x.end \in Nat /\ x.start < x.end
    <2>1. MaxText \in Nat
        BY TextAssumption
    <2> QED
        BY <2>1 DEF AllMatches
<1>3. /\ more \in Seq(matches) /\ Len(more) = Len(selected) + 1
      /\ \A i \in 1..Len(selected) : more[i] = selected[i]
      /\ more[Len(selected) + 1] = m
    BY <1>1, AppendProperties
<1>4. Select(selected, m) = IF selected # <<>> /\ m.start < last.end THEN selected ELSE more
    BY DEF Select, Last
<1>5. selected # <<>> => Len(selected) \in 1..Len(selected)
    BY <1>1, EmptySeq
<1>6. k - 1 \in Nat /\ 1..k = 1..(k - 1) \cup {k} /\ k \in 1..k
    OBVIOUS
<1> HIDE DEF m, last, more
<1>7. ASSUME \A h, j \in 1..n : h < j => Precedes(sorted[h], sorted[j]),
             Picked(sorted, k - 1, selected), selected # <<>>, m.start < last.end
      PROVE  Picked(sorted, k, selected)
    <2>1. PICK h \in 1..(k - 1) : last = sorted[h]
        BY <1>5, <1>7 DEF Picked, last
    <2>2. Precedes(last, m)
        BY <1>6, <1>7, <2>1 DEF m
    <2>3. \A i \in 1..Len(selected) : \E j \in 1..k : selected[i] = sorted[j]
        BY <1>6, <1>7 DEF Picked
    <2>4. \A j \in 1..k : \E i \in 1..Len(selected) :
            \/ selected[i] = sorted[j]
            \/ Precedes(selected[i], sorted[j]) /\ sorted[j].start < selected[i].end
        <3> TAKE j \in 1..k
        <3>1. CASE j \in 1..(k - 1)
            BY <1>7, <3>1 DEF Picked
        <3>2. CASE j = k
            BY <1>5, <1>7, <2>2, <3>2 DEF last, m
        <3> QED
            BY <1>6, <3>1, <3>2
    <2> QED
        BY <1>7, <2>3, <2>4 DEF Picked
<1>8. ASSUME Picked(sorted, k - 1, selected), ~(selected # <<>> /\ m.start < last.end)
      PROVE  Picked(sorted, k, more)
    <2>1. \A i \in 1..Len(more) : i \in 1..Len(selected) \/ i = Len(selected) + 1
        BY <1>1, <1>3
    <2>2. \A i \in 1..Len(more) : \E h \in 1..k : more[i] = sorted[h]
        <3> TAKE i \in 1..Len(more)
        <3>1. CASE i \in 1..Len(selected)
            BY <1>3, <1>6, <1>8, <3>1 DEF Picked
        <3>2. CASE i = Len(selected) + 1
            BY <1>3, <1>6, <3>2 DEF m
        <3> QED
            BY <2>1, <3>1, <3>2
    <2>3. ASSUME NEW i \in 1..Len(selected) PROVE selected[i].end <= m.start
        <3>1. selected # <<>> /\ Len(selected) \in 1..Len(selected)
            BY <1>1, EmptySeq
        <3>2. last \in matches /\ selected[i] \in matches
            BY <1>1, <3>1 DEF last
        <3>3. last.end <= m.start
            BY <1>1, <1>2, <1>8, <3>1, <3>2
        <3>4. CASE i = Len(selected)
            BY <3>3, <3>4 DEF last
        <3>5. CASE i < Len(selected)
            <4>1. selected[i].end <= last.start
                BY <1>8, <3>1, <3>5 DEF Picked, last
            <4> QED
                BY <1>1, <1>2, <3>2, <3>3, <4>1
        <3> QED
            BY <1>1, <3>4, <3>5
    <2>4. ASSUME NEW i \in 1..Len(more), NEW j \in 1..Len(more), i < j
          PROVE  more[i].end <= more[j].start
        <3>1. i \in 1..Len(selected) /\ more[i] = selected[i]
            BY <1>1, <1>3, <2>1, <2>4
        <3>2. CASE j \in 1..Len(selected)
            BY <1>3, <1>8, <2>4, <3>1, <3>2 DEF Picked
        <3>3. CASE j = Len(selected) + 1
            BY <1>3, <2>3, <3>1, <3>3
        <3> QED
            BY <2>1, <3>2, <3>3
    <2>5. \A h \in 1..k : \E i \in 1..Len(more) :
            \/ more[i] = sorted[h]
            \/ Precedes(more[i], sorted[h]) /\ sorted[h].start < more[i].end
        <3> TAKE h \in 1..k
        <3>1. CASE h \in 1..(k - 1)
            <4>1. PICK i \in 1..Len(selected) :
                    \/ selected[i] = sorted[h]
                    \/ Precedes(selected[i], sorted[h]) /\ sorted[h].start < selected[i].end
                BY <1>8, <3>1 DEF Picked
            <4>2. i \in 1..Len(more) /\ more[i] = selected[i]
                BY <1>1, <1>3
            <4> QED
                BY <4>1, <4>2
        <3>2. CASE h = k
            <4>1. Len(selected) + 1 \in 1..Len(more)
                BY <1>1, <1>3
            <4> QED
                BY <1>3, <3>2, <4>1 DEF m
        <3> QED
            BY <1>6, <3>1, <3>2
    <2> QED
        BY <2>2, <2>4, <2>5 DEF Picked
<1>9. Select(selected, m) \in Seq(matches)
    BY <1>3, <1>4
<1>10. /\ \A h, j \in 1..n : h < j => Precedes(sorted[h], sorted[j])
       /\ Picked(sorted, k - 1, selected)
       => Picked(sorted, k, Select(selected, m))
    BY <1>4, <1>7, <1>8
<1> QED
    BY <1>9, <1>10 DEF m

(* The selection of all: none overlaps another, and every match is         *)
(* selected or begins within an earlier one that is.                       *)
Chosen(matches, findings) ==
    /\ findings \in Seq(matches)
    /\ \A i, j \in 1..Len(findings) : i < j => findings[i].end <= findings[j].start
    /\ \A m \in matches : \E i \in 1..Len(findings) :
        \/ findings[i] = m
        \/ Precedes(findings[i], m) /\ m.start < findings[i].end

LEMMA SelectedIs ==
    ASSUME NEW matches \in SUBSET AllMatches
    PROVE  Chosen(matches, Selected(matches))
<1> DEFINE sorted == InOrder(matches, Precedes)
           n == Len(sorted)
           selected[k \in 0..n] ==
                IF k = 0 THEN <<>> ELSE Select(selected[k - 1], sorted[k])
           S == Seq(matches)
           round == [k \in 1..n |-> [s \in S |-> Select(s, sorted[k])]]
<1>1. /\ n \in Nat /\ sorted \in [1..n -> matches]
      /\ \A m \in matches : \E k \in 1..n : sorted[k] = m
      /\ \A j, k \in 1..n : j < k => Precedes(sorted[j], sorted[k])
    BY SortedIs
<1>2. Selected(matches) = selected[n]
    BY DEF Selected
<1> HIDE DEF sorted
<1>3. ASSUME NEW k \in 1..n, NEW s \in S PROVE Select(s, sorted[k]) \in S
    <2> HIDE DEF n
    <2> QED
        BY <1>1, SelectRound
<1>4. round \in [1..n -> [S -> S]]
    BY <1>3
<1>5. <<>> \in S
    OBVIOUS
<1>6. PICK f : Loops(f, n, S, <<>>, round)
    <2> HIDE DEF round, n, S
    <2> QED
        BY <1>1, <1>4, <1>5, LoopExists
<1>7. /\ f \in [0..n -> S] /\ f[0] = <<>>
      /\ \A k \in 1..n : f[k] = round[k][f[k - 1]]
    BY <1>6 DEF Loops
<1>8. ASSUME NEW k \in 1..n PROVE f[k] = Select(f[k - 1], sorted[k])
    <2>1. f[k - 1] \in S
        BY SMTT(30), <1>1, <1>7
    <2>2. round[k][f[k - 1]] = Select(f[k - 1], sorted[k])
        BY <2>1
    <2> QED
        BY <1>7, <2>2
<1>9. f = [k \in 0..n |-> IF k = 0 THEN <<>> ELSE Select(f[k - 1], sorted[k])]
    <2>1. \A k \in 0..n : k = 0 \/ k \in 1..n
        BY <1>1
    <2> QED
        BY <1>7, <1>8, <2>1
<1>10. selected = [k \in 0..n |-> IF k = 0 THEN <<>> ELSE Select(selected[k - 1], sorted[k])]
    BY <1>9, Zenon
<1>11. selected[0] = <<>> /\ \A k \in 1..n : selected[k] = Select(selected[k - 1], sorted[k])
    <2>1. 0 \in 0..n /\ \A k \in 1..n : k \in 0..n /\ k # 0
        BY <1>1
    <2> HIDE DEF selected
    <2> QED
        BY <1>10, <2>1
<1> HIDE DEF selected, round, n
<1> DEFINE T == {k \in 0..n : selected[k] \in S /\ Picked(sorted, k, selected[k])}
<1>12. 0 \in T
    <2>1. Picked(sorted, 0, <<>>)
        BY EmptySeq DEF Picked
    <2>2. 0 \in 0..n /\ selected[0] = <<>>
        BY <1>1, <1>11
    <2> HIDE DEF S
    <2> QED
        BY <1>5, <2>1, <2>2
<1>13. ASSUME NEW k \in 1..n, k - 1 \in T PROVE k \in T
    <2>1. selected[k - 1] \in S /\ Picked(sorted, k - 1, selected[k - 1])
        BY <1>13
    <2>2. selected[k] = Select(selected[k - 1], sorted[k])
        BY <1>11
    <2>3. selected[k] \in S
        BY <1>3, <2>1, <2>2
    <2>4. Picked(sorted, k, selected[k])
        <3> DEFINE before == selected[k - 1]
        <3>1. before \in Seq(matches) /\ Picked(sorted, k - 1, before)
            BY <2>1
        <3> HIDE DEF before
        <3>2. Picked(sorted, k, Select(before, sorted[k]))
            BY <1>1, <3>1, SelectRound
        <3> QED
            BY <2>2, <3>2 DEF before
    <2>5. k \in 0..n
        OBVIOUS
    <2> QED
        BY <2>3, <2>4, <2>5
<1>14. 0..n \subseteq T
    <2> HIDE DEF T
    <2> QED
        BY <1>1, <1>12, <1>13, RoundByRound
<1> DEFINE findings == selected[n]
<1>15. findings \in S /\ Picked(sorted, n, findings)
    <2>1. n \in T
        BY <1>1, <1>14
    <2> QED
        BY <2>1
<1> HIDE DEF T, findings
<1>16. \A m \in matches : \E i \in 1..Len(findings) :
            \/ findings[i] = m
            \/ Precedes(findings[i], m) /\ m.start < findings[i].end
    <2> TAKE m \in matches
    <2>1. PICK k \in 1..n : sorted[k] = m
        BY <1>1
    <2> QED
        BY <1>15, <2>1 DEF Picked
<1>17. Chosen(matches, findings)
    BY <1>15, <1>16 DEF Chosen, Picked
<1> QED
    BY <1>2, <1>17 DEF findings

-----------------------------------------------------------------------------
(* The replacement.  After a round the text shows the positions e: those   *)
(* that no finding from the q-th on hides, in order, each as itself or, if *)
(* a finding begins there, as its placeholder.                             *)
Shows(t, e, findings, q) ==
    /\ t \in Seq(Int) /\ e \in Seq(1..MaxText) /\ Len(t) = Len(e)
    /\ \A i, j \in 1..Len(e) : i < j => e[i] < e[j]
    /\ \A p \in 1..MaxText :
        (\E i \in 1..Len(e) : e[i] = p)
            <=> \A j \in q..Len(findings) : p \notin (findings[j].start + 2)..findings[j].end
    /\ \A i \in 1..Len(e) :
        \/ \E j \in q..Len(findings) : e[i] = findings[j].start + 1 /\ t[i] = -findings[j].rule
        \/ t[i] = e[i] /\ \A j \in q..Len(findings) : e[i] # findings[j].start + 1
    /\ \A p \in 1..MaxText : (\A j \in q..Len(findings) : p <= findings[j].start)
        => p <= Len(e) /\ e[p] = p

(* A text of which one stretch is replaced by one character.               *)
Replaced(text, start, end, character) ==
    SubSeq(text, 1, start) \o <<character>> \o SubSeq(text, end + 1, Len(text))

IsReplaced(r, t, start, end, character, gone, S) ==
    /\ r \in Seq(S) /\ Len(r) = Len(t) - gone
    /\ r[start + 1] = character
    /\ \A i \in 1..start : r[i] = t[i]
    /\ \A i \in (start + 2)..(Len(t) - gone) : r[i] = t[i + gone]

LEMMA ReplacedIs ==
    ASSUME NEW S, NEW t \in Seq(S), NEW start \in Nat, NEW end \in Nat, start < end,
           end <= Len(t), NEW character \in S
    PROVE  IsReplaced(Replaced(t, start, end, character), t, start, end, character,
                      end - start - 1, S)
<1> DEFINE n == Len(t)
           a == SubSeq(t, 1, start)
           b == <<character>>
           c == SubSeq(t, end + 1, n)
           r == Replaced(t, start, end, character)
           gone == end - start - 1
<1>1. n \in Nat /\ end <= n /\ \A i \in 1..n : t[i] \in S
    BY ElementOfSeq
<1> HIDE DEF n
<1>2. a \in Seq(S) /\ Len(a) = start /\ \A i \in 1..start : a[i] = t[i]
    <2>1. 1 \in Int /\ start \in Int /\ \A i \in 1..start : t[i] \in S
        BY <1>1
    <2>2. /\ a \in Seq(S) /\ Len(a) = IF 1 <= start THEN start - 1 + 1 ELSE 0
          /\ \A i \in 1..(start - 1 + 1) : a[i] = t[1 + i - 1]
        BY <2>1, SubSeqProperties
    <2> HIDE DEF a
    <2>3. Len(a) = start /\ start - 1 + 1 = start
        BY <2>2
    <2>4. \A i \in 1..start : 1 + i - 1 = i
        OBVIOUS
    <2> QED
        BY <2>2, <2>3, <2>4
<1>3. /\ c \in Seq(S) /\ Len(c) = n - end
      /\ \A i \in 1..(n - end) : c[i] = t[end + i]
    <2>1. end + 1 \in Int /\ n \in Int /\ \A i \in (end + 1)..n : t[i] \in S
        BY <1>1
    <2>2. /\ c \in Seq(S) /\ Len(c) = IF end + 1 <= n THEN n - (end + 1) + 1 ELSE 0
          /\ \A i \in 1..(n - (end + 1) + 1) : c[i] = t[end + 1 + i - 1]
        BY <2>1, SubSeqProperties
    <2> HIDE DEF c
    <2>3. Len(c) = n - end /\ n - (end + 1) + 1 = n - end
        BY <1>1, <2>2
    <2>4. \A i \in 1..(n - end) : end + 1 + i - 1 = end + i
        OBVIOUS
    <2> QED
        BY <2>2, <2>3, <2>4
<1>4. b \in Seq(S) /\ Len(b) = 1 /\ b[1] = character
    OBVIOUS
<1>5. r = (a \o b) \o c
    BY DEF Replaced, n
<1> HIDE DEF a, b, c, r
<1> DEFINE ab == a \o b
<1>6. /\ ab \in Seq(S) /\ Len(ab) = start + 1
      /\ \A i \in 1..(start + 1) : ab[i] = IF i <= start THEN a[i] ELSE b[i - start]
    <2>1. /\ ab \in Seq(S) /\ Len(ab) = Len(a) + Len(b)
          /\ \A i \in 1..(Len(a) + Len(b)) :
                ab[i] = IF i <= Len(a) THEN a[i] ELSE b[i - Len(a)]
        <3>1. a \in Seq(S) /\ b \in Seq(S)
            BY <1>2, <1>4
        <3> QED
            BY <3>1, ConcatProperties, Zenon
    <2> HIDE DEF ab
    <2> QED
        BY <1>2, <1>4, <2>1
<1> HIDE DEF ab
<1>7. /\ ab \o c \in Seq(S) /\ Len(ab \o c) = start + 1 + (n - end)
      /\ \A i \in 1..(start + 1 + (n - end)) :
            (ab \o c)[i] = IF i <= start + 1 THEN ab[i] ELSE c[i - (start + 1)]
    <2>1. /\ ab \o c \in Seq(S) /\ Len(ab \o c) = Len(ab) + Len(c)
          /\ \A i \in 1..(Len(ab) + Len(c)) :
                (ab \o c)[i] = IF i <= Len(ab) THEN ab[i] ELSE c[i - Len(ab)]
        BY <1>3, <1>6, ConcatProperties
    <2> DEFINE abc == ab \o c
    <2> HIDE DEF abc
    <2> QED
        BY <1>3, <1>6, <2>1
<1>8. r = ab \o c
    BY <1>5 DEF ab
<1>9. r \in Seq(S) /\ Len(r) = n - gone
    BY <1>1, <1>7, <1>8
<1>10. r[start + 1] = character
    <2>1. start + 1 \in 1..(start + 1) /\ start + 1 \in 1..(start + 1 + (n - end))
          /\ ~(start + 1 <= start) /\ start + 1 - start = 1
        BY <1>1
    <2> QED
        BY <1>4, <1>6, <1>7, <1>8, <2>1
<1>11. ASSUME NEW i \in 1..start PROVE r[i] = t[i]
    <2>1. i \in 1..(start + 1) /\ i \in 1..(start + 1 + (n - end)) /\ i <= start /\ i <= start + 1
        BY <1>1
    <2> QED
        BY <1>2, <1>6, <1>7, <1>8, <2>1
<1>12. ASSUME NEW i \in (start + 2)..(n - gone) PROVE r[i] = t[i + gone]
    <2>1. /\ i \in 1..(start + 1 + (n - end)) /\ ~(i <= start + 1)
          /\ i - (start + 1) \in 1..(n - end) /\ end + (i - (start + 1)) = i + gone
        BY <1>1
    <2>2. r[i] = c[i - (start + 1)]
        BY <1>7, <1>8, <2>1
    <2>3. c[i - (start + 1)] = t[end + (i - (start + 1))]
        BY <1>3, <2>1
    <2> QED
        BY <2>1, <2>2, <2>3
<1> QED
    BY <1>9, <1>10, <1>11, <1>12 DEF n, r, IsReplaced

LEMMA ReplaceRound ==
    ASSUME NEW matches \in SUBSET AllMatches, NEW findings, Chosen(matches, findings),
           NEW q \in 1..Len(findings), NEW t, NEW e, Shows(t, e, findings, q + 1)
    PROVE  \E f : Shows(Replace(findings[q], t), f, findings, q)
<1> DEFINE m == findings[q]
           n == Len(e)
           last == Len(findings)
           start == m.start
           end == m.end
           gone == end - start - 1
           u == Replace(m, t)
           f == Replaced(e, start, end, start + 1)
<1>1. findings \in Seq(matches) /\ last \in Nat /\ q \in Nat /\ q + 1 \in Nat /\ q >= 1
    BY DEF Chosen
<1>2. MaxText \in Nat
    BY TextAssumption
<1>3. ASSUME NEW j \in q..last
      PROVE  /\ findings[j].rule \in Rules /\ findings[j].start \in Nat /\ findings[j].end \in Nat
             /\ findings[j].start < findings[j].end /\ findings[j].end <= MaxText
             /\ j # q => j \in (q + 1)..last /\ end <= findings[j].start
    <2>1. j \in 1..last
        BY <1>1
    <2>2. findings[j] \in AllMatches
        BY <1>1, <2>1, ElementOfSeq
    <2>3. j # q => j \in (q + 1)..last /\ q < j
        BY <1>1
    <2>4. j # q => end <= findings[j].start
        BY <2>1, <2>3 DEF Chosen
    <2> QED
        BY <1>2, <2>2, <2>3, <2>4 DEF AllMatches
<1>4. /\ m.rule \in Rules /\ start \in Nat /\ end \in Nat /\ start < end
      /\ end <= MaxText /\ start + 1 \in 1..MaxText /\ gone \in Nat /\ gone = end - start - 1
    <2>1. q \in q..last
        BY <1>1
    <2>2. /\ m.rule \in Rules /\ start \in Nat /\ end \in Nat /\ start < end /\ end <= MaxText
        BY <1>3, <2>1
    <2> HIDE DEF start, end
    <2> QED
        BY <1>2, <2>2
<1>5. /\ t \in Seq(Int) /\ e \in Seq(1..MaxText) /\ Len(t) = n /\ n \in Nat
      /\ \A i \in 1..n : e[i] \in 1..MaxText
      /\ \A i, j \in 1..n : i < j => e[i] < e[j]
    <2>1. /\ t \in Seq(Int) /\ e \in Seq(1..MaxText) /\ Len(t) = n
          /\ \A i, j \in 1..n : i < j => e[i] < e[j]
        BY DEF Shows
    <2>2. n \in Nat /\ \A i \in 1..n : e[i] \in 1..MaxText
        <3>1. e \in Seq(1..MaxText)
            BY <2>1
        <3> QED
            BY <3>1, ElementOfSeq, LenProperties
    <2> QED
        BY <2>1, <2>2
<1> HIDE DEF start, end, gone
<1>6. ASSUME NEW p \in 1..end PROVE p \in 1..n /\ e[p] = p
    <2>1. p \in 1..MaxText
        BY <1>2, <1>4
    <2>2. \A j \in (q + 1)..last : p <= findings[j].start
        <3> TAKE j \in (q + 1)..last
        <3>1. j \in q..last /\ j # q
            BY <1>1
        <3>2. end <= findings[j].start /\ findings[j].start \in Nat
            BY <1>3, <3>1
        <3> QED
            BY <1>4, <3>2
    <2>3. p <= n /\ e[p] = p
        BY <2>1, <2>2 DEF Shows
    <2> QED
        BY <1>4, <1>5, <2>3
<1>7. end <= n
    <2>1. end \in 1..end
        BY <1>4
    <2> QED
        BY <1>5, <1>6, <2>1
<1>8. /\ u \in Seq(Int) /\ Len(u) = n - gone /\ u[start + 1] = -m.rule
      /\ \A i \in 1..start : u[i] = t[i]
      /\ \A i \in (start + 2)..(n - gone) : u[i] = t[i + gone]
    <2>1. u = Replaced(t, start, end, -m.rule)
        BY DEF Replace, Replaced, start, end
    <2>2. -m.rule \in Int /\ Len(t) = n /\ end <= Len(t) /\ gone = end - start - 1
        <3>1. m.rule \in Nat
            BY <1>4, RulesAre
        <3>2. gone = end - start - 1
            BY DEF gone
        <3> HIDE DEF m
        <3> QED
            BY <1>5, <1>7, <3>1, <3>2
    <2> HIDE DEF m, u, n
    <2>3. /\ u \in Seq(Int) /\ Len(u) = Len(t) - gone /\ u[start + 1] = -m.rule
          /\ \A i \in 1..start : u[i] = t[i]
          /\ \A i \in (start + 2)..(Len(t) - gone) : u[i] = t[i + gone]
        <3>1. /\ t \in Seq(Int) /\ start \in Nat /\ end \in Nat /\ start < end /\ end <= Len(t)
              /\ -m.rule \in Int
            BY <1>4, <1>5, <2>2
        <3>2. IsReplaced(u, t, start, end, -m.rule, end - start - 1, Int)
            BY <2>1, <3>1, ReplacedIs
        <3> QED
            BY <2>2, <3>2 DEF IsReplaced
    <2> QED
        BY <2>2, <2>3
<1>9. /\ f \in Seq(1..MaxText) /\ Len(f) = n - gone /\ f[start + 1] = start + 1
      /\ \A i \in 1..start : f[i] = e[i]
      /\ \A i \in (start + 2)..(n - gone) : f[i] = e[i + gone]
    <2>1. f = Replaced(e, start, end, start + 1) /\ Len(e) = n
        OBVIOUS
    <2> HIDE DEF m, f, n
    <2>2. /\ f \in Seq(1..MaxText) /\ Len(f) = Len(e) - gone /\ f[start + 1] = start + 1
          /\ \A i \in 1..start : f[i] = e[i]
          /\ \A i \in (start + 2)..(Len(e) - gone) : f[i] = e[i + gone]
        <3>1. /\ e \in Seq(1..MaxText) /\ start \in Nat /\ end \in Nat /\ start < end
              /\ end <= Len(e) /\ start + 1 \in 1..MaxText /\ gone = end - start - 1
            BY <1>4, <1>5, <1>7, <2>1
        <3>2. IsReplaced(f, e, start, end, start + 1, end - start - 1, 1..MaxText)
            BY <2>1, <3>1, ReplacedIs
        <3> QED
            BY <3>1, <3>2 DEF IsReplaced
    <2> QED
        BY <2>1, <2>2
<1> HIDE DEF m, n, u, f
<1>10. n - gone \in Nat /\ start + 1 <= n - gone
    BY <1>4, <1>5, <1>7
(* The place in e that a place in f comes from.                            *)
<1> DEFINE from(i) == IF i <= start + 1 THEN i ELSE i + gone
<1>11. ASSUME NEW i \in 1..(n - gone)
       PROVE  from(i) \in 1..n /\ f[i] = e[from(i)]
    <2>1. CASE i <= start
        <3>1. i \in 1..start /\ from(i) = i /\ i \in 1..n
            BY <1>4, <1>5, <1>10, <2>1
        <3> QED
            BY <1>9, <3>1
    <2>2. CASE i = start + 1
        <3>1. i \in 1..end /\ from(i) = i
            BY <1>4, <2>2
        <3> QED
            BY <1>6, <1>9, <2>2, <3>1
    <2>3. CASE i > start + 1
        <3>1. i \in (start + 2)..(n - gone) /\ from(i) = i + gone /\ i + gone \in 1..n
            BY <1>4, <1>5, <2>3
        <3> QED
            BY <1>9, <3>1
    <2> QED
        BY <1>4, <2>1, <2>2, <2>3
<1>12. ASSUME NEW i \in 1..(n - gone), i > start + 1
       PROVE  from(i) > end /\ f[i] > end
    <2>1. from(i) = i + gone /\ from(i) > end
        BY <1>4, <1>12
    <2>2. end \in 1..n /\ e[end] = end
        <3>1. end \in 1..end
            BY <1>4
        <3> QED
            BY <1>6, <3>1
    <2>3. e[end] < e[from(i)]
        BY <1>5, <1>11, <2>1, <2>2
    <2> QED
        BY <1>11, <2>1, <2>2, <2>3
<1>13. ASSUME NEW i \in 1..(n - gone), i <= start + 1 PROVE f[i] = i
    <2>1. i \in 1..end /\ from(i) = i
        BY <1>4, <1>13
    <2> QED
        BY <1>6, <1>11, <2>1
<1>14. ASSUME NEW i \in 1..(n - gone), NEW j \in 1..(n - gone), i < j PROVE f[i] < f[j]
    <2>1. from(i) < from(j)
        BY <1>4, <1>14
    <2> HIDE DEF from
    <2> QED
        BY <1>5, <1>11, <2>1
<1>15. ASSUME NEW p \in 1..MaxText
       PROVE  (\E i \in 1..(n - gone) : f[i] = p)
                <=> \A j \in q..last : p \notin (findings[j].start + 2)..findings[j].end
    <2>1. (\E i \in 1..n : e[i] = p)
            <=> \A j \in (q + 1)..last : p \notin (findings[j].start + 2)..findings[j].end
        BY DEF Shows, n
    <2>2. (\A j \in q..last : p \notin (findings[j].start + 2)..findings[j].end)
            <=> /\ p \notin (start + 2)..end
                /\ \A j \in (q + 1)..last : p \notin (findings[j].start + 2)..findings[j].end
        <3>1. q..last = {q} \cup ((q + 1)..last)
            BY <1>1
        <3> QED
            BY <3>1 DEF m, start, end
    <2>3. ASSUME NEW i \in 1..(n - gone), f[i] = p
          PROVE  p \notin (start + 2)..end /\ \E h \in 1..n : e[h] = p
        <3>1. \E h \in 1..n : e[h] = p
            BY <1>11, <2>3
        <3>2. CASE i <= start + 1
            BY <1>2, <1>4, <1>10, <1>13, <2>3, <3>1, <3>2
        <3>3. CASE i > start + 1
            BY <1>2, <1>4, <1>10, <1>12, <2>3, <3>1, <3>3
        <3> QED
            BY <1>4, <3>1, <3>2, <3>3
    <2>4. ASSUME NEW h \in 1..n, e[h] = p, p \notin (start + 2)..end
          PROVE  \E i \in 1..(n - gone) : f[i] = p
        <3>1. CASE h <= end
            <4>1. h \in 1..end
                BY <1>4, <3>1
            <4>2. p = h
                BY <1>6, <2>4, <4>1
            <4>3. h \in 1..(n - gone) /\ h <= start + 1
                BY <1>4, <1>10, <2>4, <4>1, <4>2
            <4> QED
                BY <1>13, <4>2, <4>3
        <3>2. CASE h > end
            <4> DEFINE i == h - gone
            <4>1. i \in 1..(n - gone) /\ ~(i <= start + 1) /\ i + gone = h
                BY <1>4, <1>5, <3>2
            <4>2. f[i] = e[h]
                BY <1>11, <4>1
            <4> QED
                BY <2>4, <4>1, <4>2
        <3> QED
            BY <1>4, <3>1, <3>2
    <2> QED
        BY <2>1, <2>2, <2>3, <2>4
<1>16. ASSUME NEW i \in 1..(n - gone)
       PROVE  \/ \E j \in q..last : f[i] = findings[j].start + 1 /\ u[i] = -findings[j].rule
              \/ u[i] = f[i] /\ \A j \in q..last : f[i] # findings[j].start + 1
    <2>1. CASE i = start + 1
        <3>1. q \in q..last
            BY <1>1
        <3> QED
            BY <1>8, <1>9, <2>1, <3>1 DEF m, start
    <2>2. CASE i # start + 1
        <3>1. u[i] = t[from(i)]
            <4>1. CASE i <= start
                BY <1>4, <1>8, <2>2, <4>1
            <4>2. CASE i > start + 1
                <5>1. i \in (start + 2)..(n - gone) /\ from(i) = i + gone
                    BY <1>4, <4>2
                <5> QED
                    BY <1>8, <5>1
            <4> QED
                BY <1>4, <2>2, <4>1, <4>2
        <3>2. f[i] # start + 1
            BY <1>4, <1>12, <1>13, <2>2
        <3> DEFINE h == from(i)
        <3>3. h \in 1..n /\ f[i] = e[h] /\ u[i] = t[h]
            BY <1>11, <3>1
        <3> HIDE DEF h
        <3>4. \/ \E j \in (q + 1)..last : e[h] = findings[j].start + 1 /\ t[h] = -findings[j].rule
              \/ t[h] = e[h] /\ \A j \in (q + 1)..last : e[h] # findings[j].start + 1
            BY <3>3 DEF Shows, n
        <3>5. q..last = {q} \cup ((q + 1)..last)
            BY <1>1
        <3> QED
            BY <3>2, <3>3, <3>4, <3>5 DEF m, start
    <2> QED
        BY <2>1, <2>2
<1>17. ASSUME NEW p \in 1..MaxText, \A j \in q..last : p <= findings[j].start
       PROVE  p <= n - gone /\ f[p] = p
    <2>1. p <= start
        <3>1. q \in q..last
            BY <1>1
        <3> QED
            BY <1>17, <3>1 DEF m, start
    <2>2. p \in 1..(n - gone) /\ p <= start + 1
        BY <1>4, <1>10, <2>1
    <2> QED
        BY <1>13, <2>2
<1>18. Shows(u, f, findings, q)
    BY <1>8, <1>9, <1>14, <1>15, <1>16, <1>17 DEF Shows
<1> QED
    BY <1>18 DEF u, m

(* The replacement of one finding after another, from the last.            *)
Whole == [i \in 1..MaxText |-> i]

LEMMA ShownThroughout ==
    ASSUME NEW matches \in SUBSET AllMatches, NEW findings, Chosen(matches, findings),
           NEW g, g[0] = Whole,
           \A k \in 1..Len(findings) :
                Replace(findings[Len(findings) + 1 - k], g[k - 1]) \in Seq(Int)
                => g[k] = Replace(findings[Len(findings) + 1 - k], g[k - 1])
    PROVE  \A k \in 0..Len(findings) : \E e : Shows(g[k], e, findings, Len(findings) + 1 - k)
<1> DEFINE last == Len(findings)
           T == {k \in 0..last : \E e : Shows(g[k], e, findings, last + 1 - k)}
<1>1. last \in Nat
    BY DEF Chosen
<1>2. 0 \in T
    <2>1. /\ Whole \in Seq(Int) /\ Whole \in Seq(1..MaxText) /\ Len(Whole) = MaxText
          /\ \A i \in 1..MaxText : Whole[i] = i
        <3>1. MaxText \in Nat
            BY TextAssumption
        <3>2. Whole \in [1..MaxText -> 1..MaxText] /\ Whole \in [1..MaxText -> Int]
            BY DEF Whole
        <3>3. Whole \in Seq(Int) /\ Whole \in Seq(1..MaxText)
            BY <3>1, <3>2, SeqDef
        <3>4. Len(Whole) \in Nat /\ DOMAIN Whole = 1..Len(Whole) /\ DOMAIN Whole = 1..MaxText
            BY <3>2, <3>3, LenProperties
        <3> QED
            BY <3>1, <3>3, <3>4 DEF Whole
    <2>2. last + 1 - 0 = last + 1 /\ (last + 1)..last = {}
        BY <1>1
    <2> HIDE DEF last
    <2>3. Shows(Whole, Whole, findings, last + 1)
        <3>1. MaxText \in Nat
            BY TextAssumption
        <3>2. \A i, j \in 1..Len(Whole) : i < j => Whole[i] < Whole[j]
            BY <2>1
        <3> QED
            BY <2>1, <2>2, <3>1, <3>2 DEF Shows, last
    <2> QED
        BY <1>1, <2>2, <2>3
<1>3. ASSUME NEW k \in 1..last, k - 1 \in T PROVE k \in T
    <2> DEFINE q == last + 1 - k
    <2>1. q \in 1..last /\ q + 1 = last + 1 - (k - 1) /\ k \in 0..last
        BY <1>1
    <2>2. PICK e : Shows(g[k - 1], e, findings, q + 1)
        BY <1>3, <2>1
    <2> HIDE DEF last, q
    <2>3. PICK f : Shows(Replace(findings[q], g[k - 1]), f, findings, q)
        BY <2>1, <2>2, ReplaceRound DEF last
    <2>4. Replace(findings[q], g[k - 1]) \in Seq(Int)
        BY <2>3 DEF Shows
    <2>5. g[k] = Replace(findings[q], g[k - 1])
        BY <2>4 DEF last, q
    <2>6. Shows(g[k], f, findings, q)
        BY <2>3, <2>5
    <2> QED
        BY <2>1, <2>6 DEF q
<1>4. 0..last \subseteq T
    <2> HIDE DEF T, last
    <2> QED
        BY <1>1, <1>2, <1>3, RoundByRound
<1> QED
    BY <1>4

LEMMA ScanShows ==
    ASSUME NEW matches \in SUBSET AllMatches
    PROVE  /\ Chosen(matches, ScanText(Whole, matches).findings)
           /\ \E e : Shows(ScanText(Whole, matches).redacted, e,
                           ScanText(Whole, matches).findings, 1)
           /\ ScanText(Whole, matches).hasBlocking <=>
                \E i \in 1..Len(ScanText(Whole, matches).findings) :
                    RuleActions[ScanText(Whole, matches).findings[i].rule] = "block"
<1> DEFINE findings == Selected(matches)
           n == Len(findings)
           S == Seq(Int)
           replaced[k \in 0..n] ==
                IF k = 0 THEN Whole ELSE Replace(findings[n + 1 - k], replaced[k - 1])
           tried(k, t) == Replace(findings[n + 1 - k], t)
           round == [k \in 1..n |-> [t \in S |-> IF tried(k, t) \in S THEN tried(k, t) ELSE t]]
<1>1. Chosen(matches, findings)
    BY SelectedIs
<1>2. /\ ScanText(Whole, matches).findings = findings
      /\ ScanText(Whole, matches).redacted = replaced[n]
      /\ ScanText(Whole, matches).hasBlocking =
            (\E i \in DOMAIN findings : RuleActions[findings[i].rule] = "block")
    BY DEF ScanText
<1> HIDE DEF findings
<1>3. findings \in Seq(matches) /\ n \in Nat /\ DOMAIN findings = 1..n
    BY <1>1, LenProperties DEF Chosen
<1>4. Whole \in S
    <2>1. MaxText \in Nat /\ Whole \in [1..MaxText -> Int]
        BY TextAssumption DEF Whole
    <2> QED
        BY <2>1, SeqDef
<1>5. round \in [1..n -> [S -> S]]
    <2> HIDE DEF tried, S
    <2> QED
        OBVIOUS
<1>6. PICK f : Loops(f, n, S, Whole, round)
    <2> HIDE DEF round, n, S
    <2> QED
        BY <1>3, <1>4, <1>5, LoopExists
<1>7. /\ f \in [0..n -> S] /\ f[0] = Whole
      /\ \A k \in 1..n : f[k] = round[k][f[k - 1]]
    BY <1>6 DEF Loops
<1>8. \A k \in 1..n : tried(k, f[k - 1]) \in S => f[k] = tried(k, f[k - 1])
    <2> TAKE k \in 1..n
    <2>1. f[k - 1] \in S
        BY <1>3, <1>7
    <2> HIDE DEF tried, S
    <2>2. round[k][f[k - 1]] = IF tried(k, f[k - 1]) \in S THEN tried(k, f[k - 1]) ELSE f[k - 1]
        BY <2>1
    <2> QED
        BY <1>7, <2>2
<1>9. \A k \in 0..n : \E e : Shows(f[k], e, findings, n + 1 - k)
    BY <1>1, <1>7, <1>8, ShownThroughout
<1>10. ASSUME NEW k \in 1..n PROVE f[k] = tried(k, f[k - 1])
    <2> DEFINE q == n + 1 - k
    <2>1. k - 1 \in 0..n /\ n + 1 - (k - 1) = q + 1 /\ q \in 1..n
        BY <1>3
    <2>2. PICK e : Shows(f[k - 1], e, findings, q + 1)
        BY <1>9, <2>1
    <2>3. PICK d : Shows(Replace(findings[q], f[k - 1]), d, findings, q)
        <3> HIDE DEF q
        <3> QED
            BY <1>1, <2>1, <2>2, ReplaceRound
    <2>4. tried(k, f[k - 1]) \in S
        BY <2>3 DEF Shows
    <2> QED
        BY <1>8, <2>4
<1>11. f = [k \in 0..n |-> IF k = 0 THEN Whole ELSE Replace(findings[n + 1 - k], f[k - 1])]
    <2>1. \A k \in 0..n : k = 0 \/ k \in 1..n
        BY <1>3
    <2> HIDE DEF n
    <2> QED
        BY <1>7, <1>10, <2>1
<1>12. replaced = [k \in 0..n |->
                    IF k = 0 THEN Whole ELSE Replace(findings[n + 1 - k], replaced[k - 1])]
    BY <1>11, Zenon
<1>13. replaced[0] = Whole /\ \A k \in 1..n : replaced[k] = tried(k, replaced[k - 1])
    <2>1. 0 \in 0..n /\ \A k \in 1..n : k \in 0..n /\ k # 0
        BY <1>3
    <2> HIDE DEF replaced
    <2> QED
        BY <1>12, <2>1
<1> HIDE DEF replaced
<1>14. \E e : Shows(replaced[n], e, findings, 1)
    <2>1. \A k \in 0..n : \E e : Shows(replaced[k], e, findings, n + 1 - k)
        BY <1>1, <1>13, ShownThroughout
    <2>2. n \in 0..n /\ n + 1 - n = 1
        BY <1>3
    <2> QED
        BY <2>1, <2>2
<1> QED
    BY <1>1, <1>2, <1>3, <1>14

-----------------------------------------------------------------------------
(* The parts of RedactionIsSound, of a scan's matches and its result.      *)
Reported(findings, redacted) ==
    LET covered == UNION {Covered(f) : f \in findings}
        kept == {i \in 1..MaxText :
                    i \notin covered \/ \E f \in findings : i = f.start + 1}
        shown(i) == IF i \notin covered THEN i
                    ELSE -(CHOOSE f \in findings : i \in Covered(f)).rule
    IN  /\ \A f, g \in findings : f # g => Covered(f) \cap Covered(g) = {}
        /\ redacted = [k \in 1..Cardinality(kept) |-> shown(InOrder(kept, <)[k])]

Broken(matches, redacted) ==
    LET left == ToSet(redacted)
    IN  \A m \in matches :
            /\ m.start + 1 \notin left
            /\ \/ Covered(m) \cap left = {}
               \/ \E n \in matches : n.start < m.start /\ m.start < n.end /\ n.end < m.end

Blocked(matches, hasBlocking) ==
    LET blockers == {m \in matches : RuleActions[m.rule] = "block"}
        hidden(m) == \E n \in matches \ {m} :
                        m.start \in n.start..(n.end - 1) /\ RuleActions[n.rule] = "redact"
    IN  /\ ~hasBlocking => \A m \in blockers : hidden(m)
        /\ hasBlocking => blockers # {}

LEMMA FindingsAre ==
    ASSUME NEW matches \in SUBSET AllMatches, NEW findings, Chosen(matches, findings)
    PROVE  /\ findings \in Seq(matches) /\ Len(findings) \in Nat
           /\ ToSet(findings) = {findings[i] : i \in 1..Len(findings)}
           /\ \A i \in 1..Len(findings) : findings[i] \in matches
           /\ \A m \in matches : /\ m.rule \in Rules /\ m.start \in Nat /\ m.end \in Nat
                                 /\ m.start < m.end /\ m.end <= MaxText
           /\ \A i, j \in 1..Len(findings) :
                i # j => Covered(findings[i]) \cap Covered(findings[j]) = {}
<1>1. MaxText \in Nat
    BY TextAssumption
<1>2. findings \in Seq(matches) /\ Len(findings) \in Nat /\ DOMAIN findings = 1..Len(findings)
      /\ \A i \in 1..Len(findings) : findings[i] \in matches
    BY LenProperties, ElementOfSeq DEF Chosen
<1>3. \A m \in matches : /\ m.rule \in Rules /\ m.start \in Nat /\ m.end \in Nat
                         /\ m.start < m.end /\ m.end <= MaxText
    BY <1>1 DEF AllMatches
<1>4. ASSUME NEW i \in 1..Len(findings), NEW j \in 1..Len(findings), i < j
      PROVE  Covered(findings[i]) \cap Covered(findings[j]) = {}
    <2>1. findings[i].end <= findings[j].start
        BY <1>4 DEF Chosen
    <2>2. findings[i].end \in Nat /\ findings[j].start \in Nat
        BY <1>2, <1>3
    <2> QED
        BY <2>1, <2>2 DEF Covered
<1>5. ASSUME NEW i \in 1..Len(findings), NEW j \in 1..Len(findings), i # j
      PROVE  Covered(findings[i]) \cap Covered(findings[j]) = {}
    <2>1. i < j \/ j < i
        BY <1>2, <1>5
    <2>2. j < i => Covered(findings[j]) \cap Covered(findings[i]) = {}
        BY <1>4
    <2> QED
        BY <1>4, <2>1, <2>2
<1> QED
    BY <1>2, <1>3, <1>5 DEF ToSet

(* A position that is shown as itself is covered by no finding.            *)
LEMMA ShownUncovered ==
    ASSUME NEW matches \in SUBSET AllMatches, NEW findings, Chosen(matches, findings),
           NEW t, NEW e, Shows(t, e, findings, 1), NEW i \in 1..Len(e)
    PROVE  /\ e[i] \in 1..MaxText
           /\ \/ \E j \in 1..Len(findings) :
                    e[i] = findings[j].start + 1 /\ t[i] = -findings[j].rule
              \/ t[i] = e[i] /\ \A j \in 1..Len(findings) : e[i] \notin Covered(findings[j])
<1>1. e[i] \in 1..MaxText
    <2>1. e \in Seq(1..MaxText)
        BY DEF Shows
    <2> QED
        BY <2>1, ElementOfSeq
<1>2. \A j \in 1..Len(findings) : e[i] \notin (findings[j].start + 2)..findings[j].end
    BY <1>1 DEF Shows
<1>3. ASSUME NEW j \in 1..Len(findings), e[i] # findings[j].start + 1
      PROVE  e[i] \notin Covered(findings[j])
    <2>1. findings[j].start \in Nat /\ findings[j].end \in Nat
        <3>1. findings[j] \in matches
            BY FindingsAre
        <3>2. \A m \in matches : m.start \in Nat /\ m.end \in Nat
            BY FindingsAre
        <3> QED
            BY <3>1, <3>2
    <2>2. e[i] \notin (findings[j].start + 2)..findings[j].end
        BY <1>2
    <2>3. e[i] \in Nat
        BY <1>1
    <2> QED
        BY <1>3, <2>1, <2>2, <2>3 DEF Covered
<1>4. \/ \E j \in 1..Len(findings) : e[i] = findings[j].start + 1 /\ t[i] = -findings[j].rule
      \/ t[i] = e[i] /\ \A j \in 1..Len(findings) : e[i] # findings[j].start + 1
    BY DEF Shows
<1> QED
    BY <1>1, <1>3, <1>4

LEMMA ReportedIs ==
    ASSUME NEW matches \in SUBSET AllMatches, NEW findings, Chosen(matches, findings),
           NEW t, NEW e, Shows(t, e, findings, 1)
    PROVE  Reported(ToSet(findings), t)
<1> DEFINE F == ToSet(findings)
           covered == UNION {Covered(f) : f \in F}
           kept == {i \in 1..MaxText : i \notin covered \/ \E f \in F : i = f.start + 1}
           shown(i) == IF i \notin covered THEN i
                       ELSE -(CHOOSE f \in F : i \in Covered(f)).rule
           n == Len(e)
<1>1. /\ \A f \in F : \E j \in 1..Len(findings) : f = findings[j]
      /\ \A j \in 1..Len(findings) : findings[j] \in F
    <2>1. findings \in Seq(matches)
        BY DEF Chosen
    <2>2. DOMAIN findings = 1..Len(findings)
        BY <2>1, LenProperties
    <2> QED
        BY <2>2 DEF ToSet
<1>2. \A f \in F : f.start \in Nat /\ f.end \in Nat /\ f.start < f.end /\ f.end <= MaxText
    <2>1. /\ \A j \in 1..Len(findings) : findings[j] \in matches
          /\ \A m \in matches : m.start \in Nat /\ m.end \in Nat
                                /\ m.start < m.end /\ m.end <= MaxText
        BY FindingsAre
    <2> HIDE DEF F
    <2> QED
        BY <1>1, <2>1
<1>3. ASSUME NEW f \in F, NEW g \in F, f # g
      PROVE  Covered(f) \cap Covered(g) = {}
    <2>1. \A i, j \in 1..Len(findings) :
            i # j => Covered(findings[i]) \cap Covered(findings[j]) = {}
        BY FindingsAre
    <2>2. PICK i \in 1..Len(findings) : f = findings[i]
        BY <1>1
    <2>3. PICK j \in 1..Len(findings) : g = findings[j]
        BY <1>1
    <2>4. i # j
        BY <1>3, <2>2, <2>3
    <2> QED
        BY <2>1, <2>2, <2>3, <2>4
<1>4. \A i : i \in covered <=> \E f \in F : i \in Covered(f)
    OBVIOUS
<1>5. /\ t \in Seq(Int) /\ e \in Seq(1..MaxText) /\ Len(t) = n
      /\ \A i, j \in 1..n : i < j => e[i] < e[j]
      /\ \A p \in 1..MaxText : (\E i \in 1..n : e[i] = p)
            <=> \A j \in 1..Len(findings) : p \notin (findings[j].start + 2)..findings[j].end
    BY DEF Shows
<1> HIDE DEF F, covered
<1>6. ASSUME NEW p \in 1..MaxText
      PROVE  (\E i \in 1..n : e[i] = p) <=> p \in kept
    <2>1. p \in Nat
        BY TextAssumption
    <2>2. (\E i \in 1..n : e[i] = p) <=> \A f \in F : p \notin (f.start + 2)..f.end
        BY <1>1, <1>5
    <2>3. ASSUME \A f \in F : p \notin (f.start + 2)..f.end, p \in covered
          PROVE  \E f \in F : p = f.start + 1
        <3>1. PICK f \in F : p \in Covered(f)
            BY <1>4, <2>3
        <3>2. p = f.start + 1
            BY <1>2, <2>1, <2>3, <3>1 DEF Covered
        <3> QED
            BY <3>2
    <2>4. ASSUME p \notin covered, NEW f \in F PROVE p \notin (f.start + 2)..f.end
        <3>1. p \notin Covered(f)
            BY <1>4, <2>4
        <3> QED
            BY <1>2, <2>1, <3>1 DEF Covered
    <2>5. ASSUME NEW g \in F, p = g.start + 1, NEW f \in F
          PROVE  p \notin (f.start + 2)..f.end
        <3>1. p \in Covered(g)
            BY <1>2, <2>1, <2>5 DEF Covered
        <3>2. CASE f = g
            BY <1>2, <2>5, <3>2
        <3>3. CASE f # g
            <4>1. p \notin Covered(f)
                BY <1>3, <3>1, <3>3
            <4> QED
                BY <1>2, <2>1, <4>1 DEF Covered
        <3> QED
            BY <3>2, <3>3
    <2>6. p \in kept <=> p \notin covered \/ \E f \in F : p = f.start + 1
        OBVIOUS
    <2> HIDE DEF kept
    <2> QED
        BY <2>2, <2>3, <2>4, <2>5, <2>6
<1>7. n \in Nat /\ DOMAIN t = 1..n /\ \A i \in 1..n : e[i] \in 1..MaxText
    <2>1. e \in Seq(1..MaxText) /\ t \in Seq(Int) /\ Len(t) = n
        BY <1>5
    <2>2. DOMAIN t = 1..Len(t) /\ Len(e) \in Nat
        BY <2>1, LenProperties
    <2> QED
        BY <2>1, <2>2, ElementOfSeq
<1>8. Cardinality(kept) = n /\ InOrder(kept, <) = e
    <2>1. kept \in SUBSET Nat
        BY TextAssumption
    <2>2. /\ \A i \in 1..n : e[i] \in kept
          /\ \A p \in kept : \E i \in 1..n : e[i] = p
        <3>1. \A p \in kept : p \in 1..MaxText
            OBVIOUS
        <3> HIDE DEF kept
        <3> QED
            BY <1>6, <1>7, <3>1
    <2>3. e \in [1..n -> kept]
        <3>1. DOMAIN e = 1..n /\ e = [i \in 1..n |-> e[i]]
            BY <1>5
        <3> HIDE DEF kept
        <3> QED
            BY <2>2, <3>1
    <2>4. n \in Nat /\ \A i, j \in 1..n : i < j => e[i] < e[j]
        BY <1>5, <1>7
    <2> HIDE DEF kept, n
    <2> QED
        BY <2>1, <2>2, <2>3, <2>4, IncreasingIs
<1>9. ASSUME NEW k \in 1..n PROVE t[k] = shown(e[k])
    <2>1. CASE \E j \in 1..Len(findings) : e[k] = findings[j].start + 1 /\ t[k] = -findings[j].rule
        <3>1. PICK f \in F : e[k] = f.start + 1 /\ t[k] = -f.rule
            BY <1>1, <2>1
        <3>2. e[k] \in Covered(f)
            BY <1>2, <3>1 DEF Covered
        <3>3. e[k] \in covered
            BY <1>4, <3>2
        <3>4. \A g \in F : e[k] \in Covered(g) => g = f
            BY <1>3, <3>2
        <3>5. (CHOOSE g \in F : e[k] \in Covered(g)) = f
            BY <3>2, <3>4
        <3> QED
            BY <3>1, <3>3, <3>5
    <2>2. CASE t[k] = e[k] /\ \A j \in 1..Len(findings) : e[k] \notin Covered(findings[j])
        <3>1. e[k] \notin covered
            BY <1>1, <1>4, <2>2
        <3> QED
            BY <2>2, <3>1
    <2> QED
        BY <2>1, <2>2, ShownUncovered
<1>10. t = [k \in 1..Cardinality(kept) |-> shown(InOrder(kept, <)[k])]
    <2>1. t = [k \in 1..n |-> t[k]]
        BY <1>5, <1>7
    <2> HIDE DEF shown, kept
    <2> QED
        BY <1>8, <1>9, <2>1
<1> QED
    BY <1>3, <1>10 DEF Reported, F, covered

LEMMA BrokenIs ==
    ASSUME NEW matches \in SUBSET AllMatches, NEW findings, Chosen(matches, findings),
           NEW t, NEW e, Shows(t, e, findings, 1)
    PROVE  Broken(matches, t)
<1> DEFINE left == ToSet(t)
<1>1. ASSUME NEW p \in Nat, p \in left, NEW j \in 1..Len(findings)
      PROVE  p \notin Covered(findings[j])
    <2>1. t \in Seq(Int) /\ Len(t) = Len(e)
        BY DEF Shows
    <2>2. DOMAIN t = 1..Len(e)
        BY <2>1, LenProperties
    <2>3. PICK i \in 1..Len(e) : p = t[i]
        BY <1>1, <2>2 DEF ToSet
    <2>4. \A h \in 1..Len(findings) : findings[h].rule \in Nat /\ findings[h].rule > 0
        <3>1. \A h \in 1..Len(findings) : findings[h].rule \in Rules
            BY FindingsAre
        <3> QED
            BY <3>1, RulesAre
    <2>5. ~ \E h \in 1..Len(findings) : e[i] = findings[h].start + 1 /\ t[i] = -findings[h].rule
        BY <2>3, <2>4
    <2> QED
        BY <2>3, <2>5, ShownUncovered
<1> HIDE DEF left
<1>2. ASSUME NEW m \in matches
      PROVE  /\ m.start + 1 \notin left
             /\ \/ Covered(m) \cap left = {}
                \/ \E n \in matches : n.start < m.start /\ m.start < n.end /\ n.end < m.end
    <2>1. m.start \in Nat /\ m.end \in Nat /\ m.start < m.end
        BY FindingsAre
    <2>2. PICK j \in 1..Len(findings) :
            \/ findings[j] = m
            \/ Precedes(findings[j], m) /\ m.start < findings[j].end
        BY DEF Chosen
    <2> DEFINE f == findings[j]
    <2>3. f \in matches /\ f.start \in Nat /\ f.end \in Nat /\ f.start < f.end
        BY FindingsAre
    <2>4. f = m \/ (Precedes(f, m) /\ m.start < f.end)
        BY <2>2
    <2>5. \A p \in Nat : p \in left => p \notin Covered(f)
        BY <1>1
    <2> HIDE DEF f
    <2>6. f.start <= m.start /\ m.start < f.end
        BY <2>1, <2>3, <2>4 DEF Precedes
    <2>7. m.start + 1 \in Covered(f) /\ m.start + 1 \in Nat
        BY <2>1, <2>3, <2>6 DEF Covered
    <2>8. CASE m.end <= f.end
        <3>1. Covered(m) \subseteq Covered(f) /\ Covered(m) \subseteq Nat
            BY <2>1, <2>3, <2>6, <2>8 DEF Covered
        <3> QED
            BY <2>5, <2>7, <3>1
    <2>9. CASE f.end < m.end
        <3>1. f.start < m.start
            BY <2>1, <2>3, <2>4, <2>6, <2>9 DEF Precedes
        <3> QED
            BY <2>3, <2>5, <2>6, <2>7, <2>9, <3>1
    <2> QED
        BY <2>1, <2>3, <2>8, <2>9
<1> QED
    BY <1>2 DEF Broken, left

LEMMA BlockedIs ==
    ASSUME NEW matches \in SUBSET AllMatches, NEW findings, Chosen(matches, findings),
           NEW hasBlocking, hasBlocking <=>
                \E i \in 1..Len(findings) : RuleActions[findings[i].rule] = "block"
    PROVE  Blocked(matches, hasBlocking)
<1>1. \A r \in Rules : RuleActions[r] \in {"redact", "block"}
    BY RulesAre
<1>2. ASSUME ~hasBlocking, NEW m \in matches, RuleActions[m.rule] = "block"
      PROVE  \E n \in matches \ {m} :
                m.start \in n.start..(n.end - 1) /\ RuleActions[n.rule] = "redact"
    <2>1. m.start \in Nat /\ m.end \in Nat /\ m.start < m.end
        BY FindingsAre
    <2>2. PICK j \in 1..Len(findings) :
            \/ findings[j] = m
            \/ Precedes(findings[j], m) /\ m.start < findings[j].end
        BY DEF Chosen
    <2> DEFINE f == findings[j]
    <2>3. f \in matches /\ f.start \in Nat /\ f.end \in Nat /\ f.rule \in Rules
        BY FindingsAre
    <2>4. RuleActions[f.rule] # "block"
        BY <1>2
    <2>5. Precedes(f, m) /\ m.start < f.end /\ f # m
        BY <1>2, <2>2, <2>4
    <2> HIDE DEF f
    <2>6. m.start \in f.start..(f.end - 1)
        BY <2>1, <2>3, <2>5 DEF Precedes
    <2>7. RuleActions[f.rule] = "redact"
        BY <1>1, <2>3, <2>4
    <2> QED
        BY <2>3, <2>5, <2>6, <2>7
<1>3. ASSUME hasBlocking PROVE \E m \in matches : RuleActions[m.rule] = "block"
    BY <1>3, FindingsAre
<1> QED
    BY <1>2, <1>3 DEF Blocked

LEMMA ReportedNext ==
    ASSUME call'.name = "scan"
           => Reported(ToSet(call'.scanned.findings), call'.scanned.redacted)
    PROVE  RedactedAsReported'
BY DEF RedactedAsReported, Reported, Called, InOrder, Covered

(* However the matches of any number of rules overlap, what the scanner    *)
(* hands on is what it reports: findings never cut each other, everything  *)
(* outside them is kept, no match is handed on whole, and a match of a     *)
(* blocking rule blocks unless a redacted one covers its beginning         *)
(* (Scanner.Scan).                                                         *)
THEOREM RedactionTheorem == Spec => []RedactionIsSound
<1>1. Init => RedactionIsSound
    BY DEF Init, RedactionIsSound, RedactedAsReported, EveryMatchIsBroken, BlockersBlock, Called
<1>2. ASSUME ScanMatches PROVE RedactionIsSound'
    <2>1. PICK indices \in [Rules -> Indices(MaxText)] :
            call' = [name |-> "scan", matches |-> Matches(indices),
                     scanned |-> ScanText([i \in 1..MaxText |-> i], Matches(indices))]
        BY <1>2 DEF ScanMatches
    <2> DEFINE matches == Matches(indices)
               scanned == ScanText(Whole, matches)
               findings == scanned.findings
               redacted == scanned.redacted
               hasBlocking == scanned.hasBlocking
    <2>2. call'.matches = matches /\ call'.scanned = scanned
        <3>1. [i \in 1..MaxText |-> i] = Whole
            BY DEF Whole
        <3> QED
            BY <2>1, <3>1
    <2>3. matches \in SUBSET AllMatches
        BY MatchesAre
    <2> HIDE DEF matches
    <2>4. /\ Chosen(matches, findings)
          /\ \E e : Shows(redacted, e, findings, 1)
          /\ hasBlocking <=>
                \E i \in 1..Len(findings) : RuleActions[findings[i].rule] = "block"
        BY <2>3, ScanShows
    <2>5. PICK e : Shows(redacted, e, findings, 1)
        BY <2>4
    <2> HIDE DEF findings, redacted, hasBlocking
    <2>6. Reported(ToSet(findings), redacted)
        BY <2>3, <2>4, <2>5, ReportedIs
    <2>7. Broken(matches, redacted)
        BY <2>3, <2>4, <2>5, BrokenIs
    <2>8. Blocked(matches, hasBlocking)
        BY <2>3, <2>4, BlockedIs
    <2>9. /\ call'.matches = matches /\ call'.scanned.findings = findings
          /\ call'.scanned.redacted = redacted /\ call'.scanned.hasBlocking = hasBlocking
        BY <2>2 DEF findings, redacted, hasBlocking
    <2>10. RedactedAsReported'
        BY <2>6, <2>9, ReportedNext
    <2>11. EveryMatchIsBroken'
        BY <2>7, <2>9 DEF EveryMatchIsBroken, Broken
    <2>12. BlockersBlock'
        BY <2>8, <2>9 DEF BlockersBlock, Blocked
    <2> QED
        BY <2>10, <2>11, <2>12 DEF RedactionIsSound
<1>3. RedactionIsSound /\ [Next]_vars => RedactionIsSound'
    <2> SUFFICES ASSUME RedactionIsSound, [Next]_vars PROVE RedactionIsSound'
        OBVIOUS
    <2>1. CASE Next
        <3>1. call'.name # "scan" => RedactionIsSound'
            BY DEF RedactionIsSound, RedactedAsReported, EveryMatchIsBroken, BlockersBlock, Called
        <3> QED
            BY <1>2, <2>1, <3>1, Origin
    <2>2. CASE UNCHANGED vars
        <3>1. call' = call
            BY <2>2 DEF vars
        <3>2. RedactedAsReported => RedactedAsReported'
            <4>1. ASSUME RedactedAsReported, call.name = "scan"
                  PROVE  Reported(ToSet(call.scanned.findings), call.scanned.redacted)
                BY <4>1 DEF RedactedAsReported, Reported, Called, InOrder, Covered
            <4>2. ASSUME RedactedAsReported, call'.name = "scan"
                  PROVE  Reported(ToSet(call'.scanned.findings), call'.scanned.redacted)
                BY <3>1, <4>1, <4>2
            <4> QED
                BY <4>2, ReportedNext
        <3>3. EveryMatchIsBroken => EveryMatchIsBroken'
            BY <3>1 DEF EveryMatchIsBroken, Called, Covered
        <3>4. BlockersBlock => BlockersBlock'
            BY <3>1 DEF BlockersBlock, Called
        <3> QED
            BY <3>2, <3>3, <3>4 DEF RedactionIsSound
    <2> QED
        BY <2>1, <2>2
<1> QED
    BY <1>1, <1>3, PTL DEF Spec


=============================================================================
