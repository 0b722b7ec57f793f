------------------------------ MODULE Scanner -------------------------------
(***************************************************************************)
(* The interval arithmetic of Scanner.Scan (internal/policy/scanner.go):   *)
(* which of the overlapping matches of several rules are reported, and     *)
(* what the text looks like once these are replaced.                       *)
(*                                                                         *)
(* A match is a half-open interval of the text and the rule that found it; *)
(* what the rules' patterns accept is left out.  A text is a sequence of   *)
(* positive numbers, the placeholder of rule r is -r.                      *)
(***************************************************************************)
EXTENDS Integers, Sequences, FiniteSets, SequencesExt

CONSTANT RuleActions    \* "redact" or "block" of each rule, in the scanner's order

ASSUME ScannerAssumption == RuleActions \in Seq({"redact", "block"})

Match(rule, start, end) == [rule |-> rule, start |-> start, end |-> end]

Rules == 1..Len(RuleActions)

(* What one rule may find in a text of a length, as FindAllStringIndex     *)
(* returns it: intervals, never empty, never overlapping.                  *)
Indices(length) ==
    LET intervals == {p \in (0..length) \X (0..length) : p[1] < p[2]}
    IN  {s \in SUBSET intervals : \A p, q \in s : p = q \/ p[2] <= q[1] \/ q[2] <= p[1]}

(* The matches of all rules.                                               *)
Matches(indices) ==
    UNION {{Match(rule, p[1], p[2]) : p \in indices[rule]} : rule \in Rules}

(* An order in which the shorter of two matches comes first.               *)
PrecedesShorter(m, n) ==
    \/ m.start < n.start
    \/ m.start = n.start /\ m.end < n.end
    \/ m.start = n.start /\ m.end = n.end /\ m.rule < n.rule

(* Earlier first, then longer, then the rule that comes first.             *)
Precedes(m, n) ==
    \/ m.start < n.start
    \/ m.start = n.start /\ m.end > n.end
    \/ m.start = n.start /\ m.end = n.end /\ m.rule < n.rule

(* A match that begins within the last selected one is passed over.        *)
Select(selected, m) ==
    IF selected # <<>> /\ m.start < Last(selected).end
    THEN selected ELSE Append(selected, m)

(* The members of a set in the order of a relation.                        *)
InOrder(set, before(_, _)) ==
    [k \in 1..Cardinality(set) |->
        CHOOSE m \in set : Cardinality({n \in set : before(n, m)}) = k - 1]

Selected(matches) ==
    LET sorted == InOrder(matches, Precedes)
        selected[k \in 0..Len(sorted)] ==
            IF k = 0 THEN <<>> ELSE Select(selected[k - 1], sorted[k])
    IN  selected[Len(sorted)]

(* Placeholder in place of a match.                                        *)
Replace(m, text) ==
    SubSeq(text, 1, m.start) \o <<-m.rule>> \o SubSeq(text, m.end + 1, Len(text))

(* Scan.  The last match is replaced first: the offsets of those before it *)
(* stay right.                                                             *)
ScanText(text, matches) ==
    LET findings == Selected(matches)
        replaced[k \in 0..Len(findings)] ==
            IF k = 0 THEN text ELSE Replace(findings[Len(findings) + 1 - k], replaced[k - 1])
    IN  [findings |-> findings,
         redacted |-> replaced[Len(findings)],
         hasBlocking |-> \E i \in DOMAIN findings : RuleActions[findings[i].rule] = "block"]
=============================================================================
