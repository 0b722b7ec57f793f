----------------------------- MODULE Retrieval ------------------------------
(***************************************************************************)
(* The pure part of internal/retrieval: what Pipeline.Prepare makes of the *)
(* results of its two searches.  fuseSearchResults ranks them together,    *)
(* CompileContext packs the best into the context budget.                  *)
(*                                                                         *)
(* A result is a chunk; of its text only the length matters.  Scores are   *)
(* floating-point sums of 0.4 / (rank) and 0.6 / (rank): where the exact   *)
(* sums are equal, rounding may put either first, or the document path and *)
(* ordinal decide; both orders are admitted.                               *)
(***************************************************************************)
EXTENDS Integers, Sequences, FiniteSets, SequencesExt

CONSTANTS
    Reference(_),   \* length of "[source n] path:start-end" of a chunk
    Text(_),        \* length of the content of a chunk
    Unit            \* ranks divide it: scores are exact multiples of 1/(5 Unit)

Separator == 2      \* the empty line between two sections
Suffix == 15        \* the mark of a truncated section

(* Rank of c in the results s, 0 when it is not there.                     *)
Rank(s, c) == IF c \in ToSet(s) THEN CHOOSE i \in DOMAIN s : s[i] = c ELSE 0

Share(weight, rank) == IF rank = 0 THEN 0 ELSE weight * (Unit \div rank)

(* A score that leaves a chunk found twice with its vector share.          *)
ScoreKept(vectors, keywords, c) ==
    IF Rank(vectors, c) # 0 THEN Share(2, Rank(vectors, c))
    ELSE Share(3, Rank(keywords, c))

(* 0.4 / rank among the vector results + 0.6 / rank among the keyword ones.*)
Score(vectors, keywords, c) ==
    Share(2, Rank(vectors, c)) + Share(3, Rank(keywords, c))

Capped(s, limit) == SubSeq(s, 1, IF Len(s) > limit THEN limit ELSE Len(s))

(* fuseSearchResults: the sequences it may return.  With results of one    *)
(* search only, these are returned in their order.                         *)
Fusions(vectors, keywords, limit) ==
    IF vectors = <<>> THEN {Capped(keywords, limit)}
    ELSE IF keywords = <<>> THEN {Capped(vectors, limit)}
    ELSE LET found == ToSet(vectors) \cup ToSet(keywords)
             before(c, d) == Score(vectors, keywords, c) >= Score(vectors, keywords, d)
         IN  {Capped(s, limit) :
                s \in {p \in [1..Cardinality(found) -> found] :
                        /\ ToSet(p) = found
                        /\ \A i \in 1..(Len(p) - 1) : before(p[i], p[i + 1])}}

-----------------------------------------------------------------------------
(* trimSection: the length of a section cut to what is available, 0 when   *)
(* nothing useful fits.  Blanks that end up at the end of the cut text are *)
(* trimmed away: blank says how many.                                      *)
Trimmed(c, available, blank) ==
    LET limit == available - Reference(c) - 1
    IN  CASE limit <= 0 -> 0
          [] limit > 0 /\ Text(c) <= limit -> Reference(c) + 1 + Text(c)
          [] limit > 0 /\ Text(c) > limit /\ limit <= Suffix -> 0
          [] OTHER -> LET kept == limit - Suffix - blank
                      IN  Reference(c) + 1 + (IF kept < 0 THEN 0 ELSE kept) + Suffix

Nothing == [sources |-> <<>>, length |-> 0, truncated |-> FALSE, full |-> FALSE]

(* A loop that forgets to leave room for the separator.                    *)
PackUnseparated(budget, blank, packed, c) ==
    LET remaining == budget - packed.length
        lead == IF packed.sources = <<>> THEN 0 ELSE Separator
        section == lead + Reference(c) + 1 + Text(c)
        cut == Trimmed(c, remaining, blank)
        taken(length, truncated) ==
            [sources |-> Append(packed.sources, c), length |-> packed.length + length,
             truncated |-> truncated, full |-> packed.length + length >= budget]
    IN  CASE packed.full -> packed
          [] ~packed.full /\ section <= remaining -> taken(section, packed.truncated)
          [] ~packed.full /\ section > remaining /\ cut = 0 ->
                [packed EXCEPT !.truncated = TRUE, !.full = TRUE]
          [] OTHER -> taken(lead + cut, TRUE)

(* One round of CompileContext's loop: packed is what the rounds before it *)
(* gave; full means that the loop was left.                                *)
Pack(budget, blank, packed, c) ==
    LET remaining == budget - packed.length
        lead == IF packed.sources = <<>> THEN 0 ELSE Separator
        section == lead + Reference(c) + 1 + Text(c)
        cut == Trimmed(c, IF remaining >= lead THEN remaining - lead ELSE remaining, blank)
        taken(length, truncated) ==
            [sources |-> Append(packed.sources, c), length |-> packed.length + length,
             truncated |-> truncated, full |-> packed.length + length >= budget]
        stopped == [sources |-> packed.sources, length |-> packed.length,
                    truncated |-> TRUE, full |-> TRUE]
    IN  CASE packed.full -> packed
          [] ~packed.full /\ section <= remaining -> taken(section, packed.truncated)
          [] ~packed.full /\ section > remaining /\ cut = 0 -> stopped
          [] OTHER -> taken(lead + cut, TRUE)

(* CompileContext(results, budget).                                        *)
CompileContext(results, budget, blank) ==
    IF budget < 1 THEN Nothing
    ELSE LET packed[k \in 0..Len(results)] ==
                IF k = 0 THEN Nothing ELSE Pack(budget, blank, packed[k - 1], results[k])
         IN  packed[Len(results)]
=============================================================================
