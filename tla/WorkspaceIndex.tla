--------------------------- MODULE WorkspaceIndex ---------------------------
(***************************************************************************)
(* The SQLite index of the workspace (internal/index): rebuilds, each a    *)
(* `rillan index` process of its own, and the retrieval of the daemon      *)
(* (Pipeline.Prepare), which searches the index while it may be rebuilt.   *)
(*                                                                         *)
(* The database is in WAL mode: readers see the last committed state, and  *)
(* one transaction at a time may write; another writer waits 5 seconds     *)
(* (busy_timeout) and fails.  Every statement outside ReplaceAll is its    *)
(* own transaction.  Of a chunk its identity is kept; the documents table  *)
(* goes with the chunks.  A search result is the set of chunks in it:      *)
(* Retrieval says in which order they are fused.                           *)
(***************************************************************************)
EXTENDS Integers, Sequences, FiniteSets

CONSTANTS
    Rebuilds,       \* the rebuild processes
    Queries,        \* the requests that retrieve
    Roots,          \* workspace roots a rebuild may be configured with
    Chunks,         \* the chunks files are cut into
    Dims,           \* dimensions of the embedders' vectors
    NoDims,         \* of an empty table
    Nobody,         \* nobody writes
    TopK            \* retrieval.top_k

ASSUME IndexAssumption ==
    /\ NoDims \notin Dims /\ Nobody \notin Rebuilds
    /\ IsFiniteSet(Chunks)
    /\ TopK \in Nat \ {0}

VARIABLES
    runs,       \* the table index_runs: by id, root and status
    tables,     \* what is committed: chunks, those with a vector, dims, run
    writer,     \* the rebuild whose transaction is open
    draft,      \* what that transaction has written
    rebuild,    \* where each rebuild is
    row,        \* the id of its row in index_runs, 0 before
    built,      \* the records it built: chunks and dims
    query,      \* where each query is
    embedding,  \* the dimensions of its embedding
    hits,       \* what its vector search gave: error, chunks
    words,      \* what its keyword search gave
    context     \* the chunks it injects

database == <<runs, tables, writer, draft>>
rebuilding == <<rebuild, row, built>>
retrieving == <<query, embedding, hits, words, context>>
vars == <<database, rebuilding, retrieving>>

RebuildEnds == {"succeeded", "failed", "killed"}
QueryEnds == {"prepared", "unopened", "failed"}
NoResults == [error |-> FALSE, chunks |-> {}]
Contents == [chunks : SUBSET Chunks, vectors : SUBSET Chunks, dims : Dims \cup {NoDims}, run : Nat]
Empty == [chunks |-> {}, vectors |-> {}, dims |-> NoDims, run |-> 0]

(* An update of index_runs that does not name the row.                     *)
SetStatusOfRunning(b, status) ==
    runs' = [i \in DOMAIN runs |-> IF runs[i].status = "running"
                                   THEN [runs[i] EXCEPT !.status = status] ELSE runs[i]]

SetStatus(b, status) == runs' = [runs EXCEPT ![row[b]].status = status]
Finish(b, end) == rebuild' = [rebuild EXCEPT ![b] = end]

Init ==
    /\ runs = <<>> /\ tables = Empty /\ writer = Nobody /\ draft = Empty
    /\ rebuild = [b \in Rebuilds |-> "idle"]
    /\ row = [b \in Rebuilds |-> 0]
    /\ built = [b \in Rebuilds |-> Empty]
    /\ query = [q \in Queries |-> "idle"]
    /\ embedding = [q \in Queries |-> NoDims]
    /\ hits = [q \in Queries |-> NoResults]
    /\ words = [q \in Queries |-> NoResults]
    /\ context = [q \in Queries |-> {}]

-----------------------------------------------------------------------------
(* RecordRunStart.                                                         *)
RecordRunStart(b) ==
    /\ rebuild[b] = "idle" /\ writer = Nobody
    /\ \E root \in Roots : runs' = Append(runs, [root |-> root, status |-> "running"])
    /\ row' = [row EXCEPT ![b] = Len(runs) + 1]
    /\ rebuild' = [rebuild EXCEPT ![b] = "building"]
    /\ UNCHANGED <<tables, writer, draft, built, retrieving>>

(* Files are discovered, cut into chunks and embedded, all by one embedder.*)
Build(b) ==
    /\ rebuild[b] = "building"
    /\ \E found \in SUBSET Chunks, dims \in Dims :
        built' = [built EXCEPT ![b] = [chunks |-> found, vectors |-> found,
                                       dims |-> dims, run |-> row[b]]]
    /\ rebuild' = [rebuild EXCEPT ![b] = "built"]
    /\ UNCHANGED <<database, row, retrieving>>

(* Discovery or embedding fails.                                           *)
BuildFails(b) ==
    /\ rebuild[b] = "building"
    /\ rebuild' = [rebuild EXCEPT ![b] = "failing"]
    /\ UNCHANGED <<database, row, built, retrieving>>

(* RecordRunStart or the transaction of ReplaceAll waited too long for the *)
(* rebuild that writes.                                                    *)
LockTimeout(b) ==
    /\ rebuild[b] \in {"idle", "built"} /\ writer # Nobody
    /\ rebuild' = [rebuild EXCEPT ![b] = IF @ = "idle" THEN "failed" ELSE "failing"]
    /\ UNCHANGED <<database, row, built, retrieving>>

(* A ReplaceAll whose statements commit one by one.                        *)
BeginInPlace(b) ==
    /\ rebuild[b] = "built" /\ writer = Nobody
    /\ writer' = b
    /\ draft' = Empty
    /\ tables' = Empty
    /\ rebuild' = [rebuild EXCEPT ![b] = "replacing"]
    /\ UNCHANGED <<runs, row, built, retrieving>>

(* ReplaceAll begins its transaction and clears the tables in it.          *)
Begin(b) ==
    /\ rebuild[b] = "built" /\ writer = Nobody
    /\ writer' = b
    /\ draft' = Empty
    /\ rebuild' = [rebuild EXCEPT ![b] = "replacing"]
    /\ UNCHANGED <<runs, tables, row, built, retrieving>>

(* It inserts documents and chunks, then the vectors.                      *)
Insert(b) ==
    /\ rebuild[b] = "replacing"
    /\ \/ /\ draft = Empty
          /\ draft' = [Empty EXCEPT !.chunks = built[b].chunks, !.run = row[b]]
       \/ /\ draft.run = row[b] /\ draft # built[b]
          /\ draft' = built[b]
    /\ UNCHANGED <<runs, tables, writer, rebuilding, retrieving>>

(* A commit before the vectors are in.                                     *)
CommitEarly(b) ==
    /\ rebuild[b] = "replacing" /\ draft.run = row[b]
    /\ tables' = draft
    /\ writer' = Nobody
    /\ draft' = Empty
    /\ rebuild' = [rebuild EXCEPT ![b] = "replaced"]
    /\ UNCHANGED <<runs, row, built, retrieving>>

Commit(b) ==
    /\ rebuild[b] = "replacing" /\ draft = built[b]
    /\ tables' = draft
    /\ writer' = Nobody
    /\ draft' = Empty
    /\ rebuild' = [rebuild EXCEPT ![b] = "replaced"]
    /\ UNCHANGED <<runs, row, built, retrieving>>

(* A ReplaceAll without the deferred rollback.                             *)
RollbackForgotten(b) ==
    /\ rebuild[b] = "replacing"
    /\ rebuild' = [rebuild EXCEPT ![b] = "failing"]
    /\ UNCHANGED <<database, row, built, retrieving>>

(* An insertion or the commit fails; the transaction is rolled back.       *)
Rollback(b) ==
    /\ rebuild[b] = "replacing"
    /\ writer' = Nobody
    /\ draft' = Empty
    /\ rebuild' = [rebuild EXCEPT ![b] = "failing"]
    /\ UNCHANGED <<runs, tables, row, built, retrieving>>

(* RecordRunCompletion, which fails when another rebuild writes for too    *)
(* long, or when the command was interrupted (its context is cancelled);   *)
(* the process then ends with an error, and its row stays as it was.       *)
RecordRunCompletion(b) ==
    /\ rebuild[b] \in {"replaced", "failing"}
    /\ LET end == IF rebuild[b] = "replaced" THEN "succeeded" ELSE "failed"
       IN  \/ writer = Nobody /\ SetStatus(b, end) /\ Finish(b, end)
           \/ UNCHANGED runs /\ Finish(b, "failed")
    /\ UNCHANGED <<tables, writer, draft, row, built, retrieving>>

(* The process of a rebuild is killed; SQLite rolls its transaction back.  *)
Kill(b) ==
    /\ rebuild[b] \notin RebuildEnds \cup {"idle"}
    /\ IF writer = b THEN writer' = Nobody /\ draft' = Empty
       ELSE UNCHANGED <<writer, draft>>
    /\ Finish(b, "killed")
    /\ UNCHANGED <<runs, tables, row, built, retrieving>>

-----------------------------------------------------------------------------
(* The query is embedded, by the model or by the placeholder that takes    *)
(* over when the model does not answer (FallbackEmbedder): there always is *)
(* an embedding, but it need not have the dimensions of the index.         *)
EmbedQuery(q) ==
    /\ query[q] = "idle"
    /\ \E dims \in Dims : embedding' = [embedding EXCEPT ![q] = dims]
    /\ query' = [query EXCEPT ![q] = "embedded"]
    /\ UNCHANGED <<database, rebuilding, hits, words, context>>

(* OpenStore fails.                                                        *)
OpenFails(q) ==
    /\ query[q] = "embedded"
    /\ query' = [query EXCEPT ![q] = "unopened"]
    /\ UNCHANGED <<database, rebuilding, embedding, hits, words, context>>

(* The TopK of a set: in which order is not said.                          *)
Best(S) ==
    {B \in SUBSET S : Cardinality(B) = IF Cardinality(S) < TopK THEN Cardinality(S) ELSE TopK}

Mismatch(q) == tables.vectors # {} /\ tables.dims # embedding[q]

(* SearchChunks: an error when a stored vector has other dimensions, or    *)
(* when the query fails.                                                   *)
SearchChunks(q) ==
    /\ query[q] = "embedded"
    /\ \/ ~Mismatch(q) /\ \E found \in Best(tables.vectors) :
                hits' = [hits EXCEPT ![q] = [error |-> FALSE, chunks |-> found]]
       \/ hits' = [hits EXCEPT ![q] = [error |-> TRUE, chunks |-> {}]]
    /\ query' = [query EXCEPT ![q] = "searched"]
    /\ UNCHANGED <<database, rebuilding, embedding, words, context>>

(* What Prepare makes of the results: fused when there are keyword results,*)
(* those of the vector search otherwise.                                   *)
Fused(q, found) == IF found = {} THEN {hits[q].chunks} ELSE Best(hits[q].chunks \cup found)

(* A pipeline that needs both searches.                                    *)
SearchBoth(q) ==
    /\ query[q] = "searched"
    /\ \E r \in {[error |-> TRUE, chunks |-> {}]} \cup
                [error : {FALSE}, chunks : {S \in SUBSET tables.chunks : Cardinality(S) <= TopK}] :
        /\ words' = [words EXCEPT ![q] = r]
        /\ IF hits[q].error \/ r.error
           THEN query' = [query EXCEPT ![q] = "failed"] /\ UNCHANGED context
           ELSE /\ \E results \in Fused(q, r.chunks) :
                    context' = [context EXCEPT ![q] = results]
                /\ query' = [query EXCEPT ![q] = "prepared"]
    /\ UNCHANGED <<database, rebuilding, embedding, hits>>

(* SearchChunksKeyword, on the index as it is by then, and the end of      *)
(* Prepare: an error only when both searches failed.                       *)
SearchChunksKeyword(q) ==
    /\ query[q] = "searched"
    /\ \E r \in {[error |-> TRUE, chunks |-> {}]} \cup
                [error : {FALSE}, chunks : {S \in SUBSET tables.chunks : Cardinality(S) <= TopK}] :
        /\ words' = [words EXCEPT ![q] = r]
        /\ IF hits[q].error /\ r.error
           THEN query' = [query EXCEPT ![q] = "failed"] /\ UNCHANGED context
           ELSE /\ \E results \in Fused(q, r.chunks) :
                    context' = [context EXCEPT ![q] = results]
                /\ query' = [query EXCEPT ![q] = "prepared"]
    /\ UNCHANGED <<database, rebuilding, embedding, hits>>

-----------------------------------------------------------------------------
Transaction(b) == Insert(b) \/ Commit(b) \/ Rollback(b)
Statement(b) == Begin(b) \/ LockTimeout(b) \/ Transaction(b) \/ RecordRunCompletion(b)

Rebuild(b) ==
    RecordRunStart(b) \/ Build(b) \/ BuildFails(b) \/ Statement(b) \/ Kill(b)

Prepare(q) ==
    EmbedQuery(q) \/ OpenFails(q) \/ SearchChunks(q) \/ SearchChunksKeyword(q)

Next == (\E b \in Rebuilds : Rebuild(b)) \/ (\E q \in Queries : Prepare(q))

Spec == Init /\ [][Next]_vars

(* A statement ends: it works on a local file, and waits for the lock no   *)
(* longer than busy_timeout.  When a rebuild is started, and how long      *)
(* discovery and embedding take, is not said.                              *)
FairSpec == Spec /\ \A b \in Rebuilds : WF_vars(Statement(b))

-----------------------------------------------------------------------------
(* The types; who writes is in its transaction, and nobody else is.        *)
TypeOK ==
    /\ runs \in Seq([root : Roots, status : {"running", "succeeded", "failed"}])
    /\ tables \in Contents /\ draft \in Contents
    /\ rebuild \in [Rebuilds -> {"idle", "building", "built", "replacing",
                                 "replaced", "failing"} \cup RebuildEnds]
    /\ writer \in Rebuilds \cup {Nobody}
    /\ \A b \in Rebuilds : rebuild[b] = "replacing" <=> writer = b
    /\ row \in [Rebuilds -> 0..Len(runs)]
    /\ built \in [Rebuilds -> Contents]
    /\ query \in [Queries -> {"idle", "embedded", "searched"} \cup QueryEnds]
    /\ embedding \in [Queries -> Dims \cup {NoDims}]
    /\ hits \in [Queries -> [error : BOOLEAN, chunks : SUBSET Chunks]]
    /\ words \in [Queries -> [error : BOOLEAN, chunks : SUBSET Chunks]]
    /\ context \in [Queries -> SUBSET Chunks]

(* Whatever fails, is killed or overlaps, a search finds the index one     *)
(* rebuild built, whole, with a vector for every chunk.                    *)
IndexIsWhole ==
    tables = Empty \/ \E b \in Rebuilds :
        /\ row[b] = tables.run /\ tables = built[b] /\ tables.vectors = tables.chunks

(* A run that status calls failed put nothing into the index, and where    *)
(* status knows of one that succeeded, the index is the work of a run.     *)
RunsAreTruthful ==
    \A i \in DOMAIN runs :
        /\ runs[i].status = "failed" => tables.run # i
        /\ runs[i].status = "succeeded" => tables.run # 0

(* As long as one of the two searches works, the request gets its context: *)
(* an index of other dimensions is searched by keyword, and what either    *)
(* search found is used, up to top_k.                                      *)
OneSearchIsEnough ==
    \A q \in Queries :
        /\ query[q] = "failed" => hits[q].error /\ words[q].error
        /\ query[q] = "prepared" /\ hits[q].chunks \cup words[q].chunks # {}
                => context[q] # {}
        /\ Cardinality(context[q]) <= TopK

(* A rebuild that has its records ends, without the lock, whatever becomes *)
(* of the rebuilds it competes with.                                       *)
BuiltEnds ==
    \A b \in Rebuilds : (rebuild[b] = "built") ~> (rebuild[b] \in RebuildEnds /\ writer # b)

-----------------------------------------------------------------------------
(* The stage of a run: what its rebuild has done, and once that has ended  *)
(* what it could still record.                                             *)
Stage(i) ==
    IF \E b \in Rebuilds : row[b] = i /\ rebuild[b] = "replaced" THEN "published"
    ELSE IF \E b \in Rebuilds : row[b] = i /\ rebuild[b] \notin RebuildEnds THEN "running"
    ELSE IF runs[i].status = "running" THEN "dead"
    ELSE runs[i].status

(* Rebuilds that overlap, fail, wait for the lock or are killed publish    *)
(* atomically, each at most once, and the rows of index_runs say so.       *)
Publication == INSTANCE IndexPublication WITH
    index <- tables,
    stage <- [i \in DOMAIN runs |-> Stage(i)]

KeepsPublication == Publication!Spec

=============================================================================
