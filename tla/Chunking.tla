------------------------------ MODULE Chunking ------------------------------
(***************************************************************************)
(* ChunkFile (internal/index/chunker.go): a file cut into chunks of so     *)
(* many lines.  Of a line matters only whether it is empty.                *)
(***************************************************************************)
EXTENDS Integers, Sequences

CONSTANT DefaultLines   \* lines of a chunk when the setting is below one

ASSUME ChunkingAssumption == DefaultLines \in Nat \ {0}

WindowEnd(lines, size, start) ==
    IF start + size > Len(lines) THEN Len(lines) ELSE start + size

(* An ordinal that counts the windows, the empty one included.             *)
AddWindow(lines, size, chunks, start) ==
    LET end == WindowEnd(lines, size, start)
    IN  IF end = start + 1 /\ lines[end] = "empty" THEN chunks
        ELSE Append(chunks, [ordinal |-> start \div size, first |-> start + 1, last |-> end])

(* The window of lines from start on.  Its lines are joined with newlines, *)
(* so that its text is empty only when it is a single empty line.          *)
AddChunk(lines, size, chunks, start) ==
    LET end == WindowEnd(lines, size, start)
    IN  IF end = start + 1 /\ lines[end] = "empty" THEN chunks
        ELSE Append(chunks, [ordinal |-> Len(chunks), first |-> start + 1, last |-> end])

(* A file without a byte is one empty line.  The loop steps from window to *)
(* window until it is past the last line; as many rounds as there are      *)
(* lines are enough.                                                       *)
ChunkFile(lines, linesPerChunk) ==
    LET size == IF linesPerChunk < 1 THEN DefaultLines ELSE linesPerChunk
        loop[k \in 0..Len(lines)] ==
            IF k = 0 THEN [start |-> 0, chunks |-> <<>>]
            ELSE IF loop[k - 1].start >= Len(lines) THEN loop[k - 1]
            ELSE [start |-> loop[k - 1].start + size,
                  chunks |-> AddChunk(lines, size, loop[k - 1].chunks, loop[k - 1].start)]
    IN  IF lines = <<"empty">> THEN <<>> ELSE loop[Len(lines)].chunks
=============================================================================
