--------------------------- MODULE ContextPackage ---------------------------
(***************************************************************************)
(* The context package of an agent task (internal/agent): what is built    *)
(* from the request, the retrieval and the editor's state, how each part   *)
(* is cut to the budget, and the role the package is given to.  Also the   *)
(* snippet a search of the repository shows (internal/agent/skills).       *)
(*                                                                         *)
(* A text is a sequence of characters: Blank, Letter, Bracket, or Dot in   *)
(* the mark of a truncated text.  An item of evidence has one text, its    *)
(* summary; its path and its reference are cut like it, and are the same   *)
(* text but for a diagnostic, whose summary is composed of two.            *)
(***************************************************************************)
EXTENDS Integers, Sequences, SequencesExt, FiniteSetsExt

CONSTANTS
    MarkLength,         \* length of "...[truncated]"
    DefaultFiles,       \* open files kept without a limit
    DefaultDiagnostics, \* diagnostics kept without a limit
    DefaultChars        \* characters of an editor's text kept without a limit

ASSUME PackageAssumption ==
    MarkLength \in Nat \ {0} /\ {DefaultFiles, DefaultDiagnostics, DefaultChars} \subseteq Nat \ {0}

Blank == 0
Letter == 1
Dot == 2
Bracket == 3
Mark == [i \in 1..MarkLength |-> Dot]

TrimSpace(text) ==
    LET shown == {i \in DOMAIN text : text[i] # Blank}
    IN  IF shown = {} THEN <<>> ELSE SubSeq(text, Min(shown), Max(shown))

TrimText(value, maxChars) ==
    LET text == TrimSpace(value)
    IN  IF maxChars < 1 \/ Len(text) <= maxChars THEN text
        ELSE IF maxChars <= MarkLength THEN SubSeq(text, 1, maxChars)
        ELSE TrimSpace(SubSeq(text, 1, maxChars - MarkLength)) \o Mark

(* A window that is not moved back from the end of the text.               *)
WindowUnmoved(length, index, maxChars) ==
    LET start == Max({index - maxChars \div 2, 0})
    IN  [first |-> start + 1, last |-> Min({start + maxChars, length})]

(* The window of maxChars characters a snippet shows, around a match at an *)
(* offset; the offset is that in the lower-case text, which may be longer. *)
Window(length, index, maxChars) ==
    LET start == Max({index - maxChars \div 2, 0})
    IN  IF start + maxChars > length
        THEN [first |-> Max({length - maxChars, 0}) + 1, last |-> length]
        ELSE [first |-> start + 1, last |-> start + maxChars]

SnippetAround(content, index, maxChars) ==
    IF maxChars <= 0 \/ Len(content) <= maxChars THEN TrimSpace(content)
    ELSE LET shown == Window(Len(content), index, maxChars)
         IN  TrimText(SubSeq(content, shown.first, shown.last), maxChars)

-----------------------------------------------------------------------------
First(items, limit) == SubSeq(items, 1, Min({limit, Len(items)}))

TrimEach(texts, maxChars) == [i \in DOMAIN texts |-> TrimText(texts[i], maxChars)]

TrimParts(diagnostics, maxChars) ==
    [i \in DOMAIN diagnostics |-> [severity |-> TrimText(diagnostics[i].severity, maxChars),
                                   message |-> TrimText(diagnostics[i].message, maxChars)]]

(* A limit the two lists of the editor's state share.                      *)
NormalizeShared(editor, maxItems, maxChars) ==
    LET files == IF maxItems < 1 THEN DefaultFiles ELSE maxItems
        diagnostics == IF maxItems < 1 THEN DefaultDiagnostics ELSE maxItems
        chars == IF maxChars < 1 THEN DefaultChars ELSE maxChars
    IN  [files |-> First(TrimEach(editor.files, chars), files - Len(editor.diagnostics)),
         selection |-> TrimEach(editor.selection, chars),
         diagnostics |-> First(TrimParts(editor.diagnostics, chars), diagnostics),
         vcs |-> TrimEach(editor.vcs, chars)]

(* NormalizeMCPSnapshot: open files, at most one selection, diagnostics,   *)
(* whose two texts are trimmed apart, and facts about the version control. *)
NormalizeMCPSnapshot(editor, maxItems, maxChars) ==
    LET files == IF maxItems < 1 THEN DefaultFiles ELSE maxItems
        diagnostics == IF maxItems < 1 THEN DefaultDiagnostics ELSE maxItems
        chars == IF maxChars < 1 THEN DefaultChars ELSE maxChars
    IN  [files |-> First(TrimEach(editor.files, chars), files),
         selection |-> TrimEach(editor.selection, chars),
         diagnostics |-> First(TrimParts(editor.diagnostics, chars), diagnostics),
         vcs |-> TrimEach(editor.vcs, chars)]

Item(kind, text) == [kind |-> kind, text |-> text]
Items(kind, texts) == [i \in DOMAIN texts |-> Item(kind, texts[i])]

EvidenceFromRetrieval(query, sources) ==
    (IF TrimSpace(query) = <<>> THEN <<>> ELSE <<Item("retrieval_query", TrimSpace(query))>>)
        \o Items("retrieval_source", sources)

(* The summary of a diagnostic: "[severity] message".                      *)
Summary(diagnostic) ==
    <<Bracket>> \o diagnostic.severity \o <<Bracket, Blank>> \o diagnostic.message

Summaries(diagnostics) == [i \in DOMAIN diagnostics |-> Summary(diagnostics[i])]

EvidenceFromEditor(editor) ==
    Items("mcp_open_file", editor.files) \o Items("mcp_selection", editor.selection)
        \o Items("mcp_diagnostic", Summaries(editor.diagnostics))

(* ApplyBudget, with the lists but one: they are cut alike.                *)
ApplyBudget(package, maxItems, maxChars) ==
    LET evidence == First(package.evidence, maxItems)
        facts == First(package.facts, maxItems)
    IN  [evidence |-> [i \in DOMAIN evidence |->
                            Item(evidence[i].kind, TrimText(evidence[i].text, maxChars))],
         facts |-> TrimEach(facts, maxChars),
         planFirst |-> package.planFirst,
         step |-> TrimText(package.step, maxChars)]

(* The package before its parts are cut.                                   *)
Assembled(input, editor) ==
    [evidence |-> EvidenceFromRetrieval(input.query, input.sources)
                    \o EvidenceFromEditor(editor),
     facts |-> editor.vcs,
     planFirst |-> input.planFirst,
     step |-> input.step]

BuildContextPackage(input, maxItems, maxChars) ==
    ApplyBudget(Assembled(input, NormalizeMCPSnapshot(input.editor, maxItems, maxChars)),
                maxItems, maxChars)

DecideExecutionMode(package) ==
    IF package.planFirst THEN "planner"
    ELSE IF TrimSpace(package.step) # <<>> THEN "coder" ELSE "researcher"
=============================================================================
