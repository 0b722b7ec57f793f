-------------------------- MODULE MCTextFunctions ---------------------------
(***************************************************************************)
(* Model checking of the pure functions over texts and lists: Scanner,     *)
(* Chunking, ContextPackage and Retrieval, each over all inputs of a size. *)
(***************************************************************************)
EXTENDS Scanner, Chunking, ContextPackage, Retrieval

CONSTANTS
    Results,    \* the chunks a search may find
    MaxRank,    \* bound on the results of a search
    MaxBudget,  \* bound on max_context_chars
    MaxText,    \* bound on the characters a scanner sees
    MaxLines,   \* bound on the lines of a file
    MaxChars,   \* bound on the characters of an item
    MaxItems    \* bound on the lists of a package

ASSUME TextAssumption ==
    /\ \A c \in Results : Reference(c) \in Nat /\ Text(c) \in Nat
    /\ Unit \in Nat \ {0}
    /\ \A rank \in 1..MaxRank : Unit % rank = 0
    /\ {MaxRank, MaxBudget, MaxText, MaxLines, MaxChars, MaxItems} \subseteq Nat
    /\ MaxChars > MarkLength

(* Three chunks of lengths that fit, are cut and are dropped.              *)
MCReference(c) == 3 + c
MCText(c) == 17 * c

MCActions == <<"redact", "block", "redact">>

VARIABLE call   \* the function called, its input and its result

vars == call

Called(name) == call.name = name

Init == call = [name |-> "none"]

-----------------------------------------------------------------------------
Rankings == {s \in UNION {[1..n -> Results] : n \in 0..MaxRank} : IsInjective(s)}

Fuse ==
    /\ Called("none")
    /\ \E vectors, keywords \in Rankings, limit \in 1..MaxRank :
        \E fused \in Fusions(vectors, keywords, limit) :
            call' = [name |-> "fuse", vectors |-> vectors, keywords |-> keywords,
                     limit |-> limit, fused |-> fused]

Compile ==
    /\ Called("fuse")
    /\ \E blank \in {0, 1}, budget \in 1..MaxBudget :
        call' = [name |-> "compile", fused |-> call.fused, budget |-> budget,
                 compiled |-> CompileContext(call.fused, budget, blank)]

ScanMatches ==
    /\ Called("none")
    /\ \E indices \in [Rules -> Indices(MaxText)] :
        call' = [name |-> "scan", matches |-> Matches(indices),
                 scanned |-> ScanText([i \in 1..MaxText |-> i], Matches(indices))]

Chunk ==
    /\ Called("none")
    /\ \E n \in 1..MaxLines, size \in 0..(MaxLines + 1) :
        \E lines \in [1..n -> {"empty", "text"}] :
            call' = [name |-> "chunk", lines |-> lines, size |-> size,
                     chunks |-> ChunkFile(lines, size)]

Texts(n) == UNION {[1..k -> {Blank, Letter}] : k \in 0..n}

Trim ==
    /\ Called("none")
    /\ \E text \in Texts(MaxChars + 2), limit \in 0..MaxChars :
        call' = [name |-> "trim", limit |-> limit, trimmed |-> TrimText(text, limit)]

Snip ==
    /\ Called("none")
    /\ \E length \in 1..(2 * MaxChars), limit \in 1..MaxChars :
        \E index \in 0..(length + 2) :
            /\ length > limit
            /\ call' = [name |-> "snip", length |-> length, index |-> index, limit |-> limit,
                        window |-> Window(length, index, limit)]

(* A short text, a blank one and one that is cut; a diagnostic's message   *)
(* may also be of the full length and begin with a blank.                  *)
Samples == {<<Letter>>, <<Blank>>, [i \in 1..(MaxChars + 1) |-> Letter]}
Messages == Samples \cup {<<Blank>> \o [i \in 1..MaxChars |-> Letter]}
Same(n, text) == [i \in 1..n |-> text]

Package ==
    /\ Called("none")
    /\ \E sources, files, diagnostics, vcs \in 0..MaxItems, selection \in 0..1 :
        \E query, step, text \in Samples, message \in Messages, planFirst \in BOOLEAN :
            LET diagnostic == [severity |-> text, message |-> message]
                editor == [files |-> Same(files, text), selection |-> Same(selection, text),
                           diagnostics |-> Same(diagnostics, diagnostic),
                           vcs |-> Same(vcs, text)]
                input == [query |-> query, sources |-> Same(sources, text), editor |-> editor,
                          planFirst |-> planFirst, step |-> step]
            IN  \E maxItems \in 0..(MaxItems + 1), maxChars \in {0, MaxChars} :
                    call' = [name |-> "package", input |-> input,
                             maxItems |-> maxItems, maxChars |-> maxChars,
                             package |-> BuildContextPackage(input, maxItems, maxChars)]

Next == Fuse \/ Compile \/ ScanMatches \/ Chunk \/ Trim \/ Snip \/ Package

Spec == Init /\ [][Next]_vars

-----------------------------------------------------------------------------
(* Offsets, from 1, that a match covers.                                   *)
Covered(m) == (m.start + 1)..m.end

(* The text a scan hands on differs from the original exactly where it     *)
(* reports findings: outside them every character is kept in its order, of *)
(* each nothing is left but its placeholder, and no finding cuts another.  *)
RedactedAsReported ==
    Called("scan") =>
        LET findings == ToSet(call.scanned.findings)
            covered == UNION {Covered(f) : f \in findings}
            kept == {i \in 1..MaxText :
                        i \notin covered \/ \E f \in findings : i = f.start + 1}
            shown(i) == IF i \notin covered THEN i
                        ELSE -(CHOOSE f \in findings : i \in Covered(f)).rule
        IN  /\ \A f, g \in findings : f # g => Covered(f) \cap Covered(g) = {}
            /\ call.scanned.redacted =
                    [k \in 1..Cardinality(kept) |-> shown(InOrder(kept, <)[k])]

(* However matches overlap, none is handed on whole: the beginning of each *)
(* is redacted, and all of one that is alone or within another.  Only the  *)
(* end of a match that sticks out of an earlier one may remain.            *)
EveryMatchIsBroken ==
    Called("scan") =>
        LET left == ToSet(call.scanned.redacted)
        IN  \A m \in call.matches :
                /\ m.start + 1 \notin left
                /\ \/ Covered(m) \cap left = {}
                   \/ \E n \in call.matches : n.start < m.start /\ m.start < n.end /\ n.end < m.end

(* A match of a blocking rule blocks unless a match of another rule, no    *)
(* later, covers its beginning; and nothing else blocks.                   *)
BlockersBlock ==
    Called("scan") =>
        LET blockers == {m \in call.matches : RuleActions[m.rule] = "block"}
            hidden(m) == \E n \in call.matches \ {m} :
                            m.start \in n.start..(n.end - 1) /\ RuleActions[n.rule] = "redact"
        IN  /\ ~call.scanned.hasBlocking => \A m \in blockers : hidden(m)
            /\ call.scanned.hasBlocking => blockers # {}

(* A scan with overlapping matches reports what it redacts, hands on no    *)
(* match whole, and blocks on every match that nothing hides.              *)
RedactionIsSound == RedactedAsReported /\ EveryMatchIsBroken /\ BlockersBlock

(* The chunks of a file hold each of its lines that is not empty once and  *)
(* in order, none longer than the setting, numbered without a gap though   *)
(* empty windows are passed over: a chunk's id is made of its number.      *)
ChunksHoldTheFile ==
    Called("chunk") =>
        LET chunks == call.chunks
            size == IF call.size < 1 THEN DefaultLines ELSE call.size
            within(i) == {k \in DOMAIN chunks : i \in chunks[k].first..chunks[k].last}
        IN  /\ \A i \in DOMAIN call.lines : Cardinality(within(i)) \in
                    IF call.lines[i] = "text" THEN {1} ELSE {0, 1}
            /\ \A k \in DOMAIN chunks :
                /\ chunks[k].ordinal = k - 1
                /\ chunks[k].last \in chunks[k].first..(chunks[k].first + size - 1)
                /\ k > 1 => chunks[k - 1].last < chunks[k].first

(* A trimmed text keeps to the limit with its mark, and trimming it again  *)
(* changes nothing: the packages' texts are trimmed two or three times.    *)
(* With a limit no longer than the mark it may end in blanks once.         *)
TrimmedOnce ==
    Called("trim") =>
        /\ call.limit > 0 => Len(call.trimmed) <= call.limit
        /\ call.limit > MarkLength => TrimText(call.trimmed, call.limit) = call.trimmed

(* A snippet's window has the full length and shows where the match is,    *)
(* near either end of the file too; a match placed behind the end of the   *)
(* text, which lower-casing can do, shows the end.                         *)
SnippetShowsMatch ==
    Called("snip") =>
        LET window == call.window
        IN  /\ window.first \in 1..call.length /\ window.last \in 1..call.length
            /\ window.last - window.first + 1 = call.limit
            /\ call.index < call.length => call.index + 1 \in window.first..window.last
            /\ call.index >= call.length => window.last = call.length

(* A limit that leaves the editor's lists whole.                           *)
Room(editor) == 1 + Len(editor.files) + Len(editor.diagnostics)

(* The evidence and facts of a package are the first of all there is: the  *)
(* editor's lists, which are limited on their own before, never lose what  *)
(* the package has room for; and the runner, which applies the budget      *)
(* again, changes nothing.                                                 *)
PackageIsTheFirst ==
    Called("package") =>
        LET editor == NormalizeMCPSnapshot(call.input.editor, Room(call.input.editor),
                                           call.maxChars)
            cut(package) == ApplyBudget(package, call.maxItems, call.maxChars)
        IN  /\ call.package = cut(Assembled(call.input, editor))
            /\ call.package = cut(call.package)

Fits(text, maxChars) == Len(TrimSpace(text)) <= maxChars

(* The editor's state with the outer blanks of its diagnostics' texts gone.*)
Stripped(editor) == [editor EXCEPT !.diagnostics = TrimParts(editor.diagnostics, 0)]

(* The editor's texts, which are cut to the same limit before and after a  *)
(* diagnostic's summary is composed, come out as if they were cut once,    *)
(* unless the severity or the message of one is over the limit by itself.  *)
TextsAreCutOnce ==
    Called("package") =>
        LET diagnostics == ToSet(call.input.editor.diagnostics)
        IN  /\ call.maxChars > 0
            /\ \A d \in diagnostics : Fits(d.severity, call.maxChars) /\ Fits(d.message, call.maxChars)
            => call.package = ApplyBudget(Assembled(call.input, Stripped(call.input.editor)),
                                          call.maxItems, call.maxChars)

(* The role is chosen by the trimmed package as it would be by the request.*)
BudgetKeepsTheRole ==
    Called("package") =>
        DecideExecutionMode(call.package) =
        DecideExecutionMode(Assembled(call.input, call.input.editor))

(* The budget may be applied at every stage of an agent task: it changes   *)
(* neither what comes first nor, a second time, anything, nor the role.    *)
PackageKeepsBudget ==
    TrimmedOnce /\ PackageIsTheFirst /\ TextsAreCutOnce /\ BudgetKeepsTheRole

-----------------------------------------------------------------------------
Found == ToSet(call.vectors) \cup ToSet(call.keywords)

Place(s, c) == IF c \in ToSet(s) THEN CHOOSE i \in DOMAIN s : s[i] = c ELSE MaxRank + 1

(* A chunk that both searches rank at least as well as another, and one of *)
(* them better, is never behind it, and never dropped for it: neither the  *)
(* weights nor the fusion of a chunk found twice may turn the order round. *)
FusionRespectsBoth ==
    Called("fuse") =>
        \A c, d \in Found :
            /\ Place(call.vectors, c) <= Place(call.vectors, d)
            /\ Place(call.keywords, c) <= Place(call.keywords, d)
            /\ c # d
            => Place(call.fused, c) < Place(call.fused, d) \/ d \notin ToSet(call.fused)

(* The fusion names every chunk once and leaves none out below the limit,  *)
(* however the two result lists overlap.                                   *)
FusionIsFull ==
    Called("fuse") =>
        /\ IsInjective(call.fused) /\ ToSet(call.fused) \subseteq Found
        /\ Len(call.fused) = call.limit \/ ToSet(call.fused) = Found

(* The fusion of two rankings is a ranking of all they found.              *)
FusionIsFaithful == FusionRespectsBoth /\ FusionIsFull

(* The compiled text never exceeds max_context_chars, whatever is cut and  *)
(* whatever separates the sections.                                        *)
ContextWithinBudget == Called("compile") => call.compiled.length <= call.budget

(* The sources are the best results without a gap: a lower result is never *)
(* let in where a better one did not fit.  A context that leaves out a     *)
(* result although there was room says that it is truncated.               *)
SourcesAreTheBest ==
    Called("compile") =>
        /\ IsPrefix(call.compiled.sources, call.fused)
        /\ call.budget > call.compiled.length /\ call.compiled.sources # call.fused
            => call.compiled.truncated

(* The context holds the best results its budget has room for.             *)
ContextIsTheBest == ContextWithinBudget /\ SourcesAreTheBest
=============================================================================
