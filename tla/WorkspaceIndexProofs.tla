------------------------ MODULE WorkspaceIndexProofs ------------------------
(***************************************************************************)
(* Proofs about WorkspaceIndex, for any number of rebuilds and queries.    *)
(*                                                                         *)
(* What the index and status say agrees because a row of index_runs        *)
(* belongs to one rebuild and says "running" as long as that rebuild works *)
(* (Rows), because the records of a rebuild do not change once they are    *)
(* built (Records), and because the rebuild whose records are committed is *)
(* past its transaction for good (Owned, Published).  Of a request it is   *)
(* enough that each of its searches respects top_k (Searched).             *)
(***************************************************************************)
EXTENDS WorkspaceIndex, FiniteSetTheorems, SequenceTheorems, TLAPS

Working(b) == rebuild[b] \notin RebuildEnds \cup {"idle"}

Rows ==
    /\ \A b \in Rebuilds : rebuild[b] = "idle" => row[b] = 0
    /\ \A b \in Rebuilds : Working(b) => row[b] # 0 /\ runs[row[b]].status = "running"
    /\ \A b, c \in Rebuilds : b # c /\ row[b] # 0 => row[b] # row[c]

Records ==
    \A b \in Rebuilds : rebuild[b] \in {"built", "replacing", "replaced"} =>
        built[b].run = row[b] /\ built[b].vectors = built[b].chunks

Owner(b) ==
    /\ rebuild[b] \in {"replaced"} \cup RebuildEnds
    /\ row[b] # 0 /\ row[b] = tables.run
    /\ tables = built[b] /\ tables.vectors = tables.chunks

Owned == tables = Empty \/ \E b \in Rebuilds : Owner(b)

Published ==
    /\ \A b \in Rebuilds : rebuild[b] = "replaced" => tables.run # 0
    /\ RunsAreTruthful

Searched ==
    /\ \A q \in Queries : Cardinality(hits[q].chunks) <= TopK
    /\ OneSearchIsEnough

IInv == TypeOK /\ Rows /\ Records /\ Owned /\ Published /\ Searched

Run == [root : Roots, status : {"running", "succeeded", "failed"}]

-----------------------------------------------------------------------------
(* What a step does to the table index_runs: a row is appended, or the     *)
(* status of one row is set.                                               *)
LEMMA RowAppended ==
    ASSUME runs \in Seq(Run), NEW r \in Run
    PROVE  /\ Append(runs, r) \in Seq(Run)
           /\ Len(Append(runs, r)) = Len(runs) + 1
           /\ Append(runs, r)[Len(runs) + 1] = r
           /\ \A i \in 1..Len(runs) : Append(runs, r)[i] = runs[i]
OBVIOUS

LEMMA StatusSet ==
    ASSUME TypeOK, NEW b \in Rebuilds, row[b] # 0,
           NEW s \in {"succeeded", "failed"}, SetStatus(b, s)
    PROVE  /\ runs' \in Seq(Run) /\ Len(runs') = Len(runs)
           /\ runs'[row[b]].status = s
           /\ \A i \in 1..Len(runs) : i # row[b] => runs'[i] = runs[i]
<1>1. runs \in Seq(Run) /\ row[b] \in 1..Len(runs)
  BY DEF TypeOK, Run
<1>2. PICK r \in Run : r = [runs[row[b]] EXCEPT !.status = s]
  <2>1. runs[row[b]] \in Run
    BY <1>1, ElementOfSeq
  <2>2. QED
    BY <2>1 DEF Run
<1>3. runs' = [runs EXCEPT ![row[b]] = r]
  BY <1>2 DEF SetStatus
<1>4. runs' \in Seq(Run) /\ Len(runs') = Len(runs)
  BY <1>1, <1>3, ExceptSeq
<1>5. r.status = s
  BY <1>1, <1>2 DEF Run
<1>6. QED
  BY <1>1, <1>3, <1>4, <1>5

LEMMA ResultsType == Empty \in Contents /\ NoResults \in [error : BOOLEAN, chunks : SUBSET Chunks]
BY DEF Empty, Contents, NoResults

(* A best of a finite set is no larger than top_k, and not empty unless    *)
(* the set is.                                                             *)
LEMMA BestBounded ==
    ASSUME NEW S \in SUBSET Chunks, NEW B \in Best(S)
    PROVE  B \subseteq Chunks /\ Cardinality(B) <= TopK /\ (S # {} => B # {})
<1>1. IsFiniteSet(S) /\ Cardinality(S) \in Nat
  BY IndexAssumption, FS_Subset, FS_CardinalityType
<1>2. Cardinality(B) = IF Cardinality(S) < TopK THEN Cardinality(S) ELSE TopK
  BY DEF Best
<1>3. S # {} => Cardinality(S) # 0
  BY <1>1, FS_EmptySet
<1>4. Cardinality({}) = 0
  BY FS_EmptySet
<1>5. QED
  BY <1>1, <1>2, <1>3, <1>4, IndexAssumption DEF Best

(* What SearchChunksKeyword does: it finds r, and fuses it with the hits.  *)
Fusion(q, r) ==
    IF hits[q].error /\ r.error
    THEN query' = [query EXCEPT ![q] = "failed"] /\ UNCHANGED context
    ELSE /\ \E results \in Fused(q, r.chunks) : context' = [context EXCEPT ![q] = results]
         /\ query' = [query EXCEPT ![q] = "prepared"]

LEMMA SearchedWords ==
    ASSUME TypeOK, NEW q \in Queries, SearchChunksKeyword(q)
    PROVE  \E r \in [error : BOOLEAN, chunks : SUBSET Chunks] :
                words' = [words EXCEPT ![q] = r] /\ Fusion(q, r)
<1> DEFINE Found == [error : {FALSE}, chunks : {S \in SUBSET tables.chunks : Cardinality(S) <= TopK}]
<1>1. tables.chunks \subseteq Chunks
  BY DEF TypeOK, Contents
<1>2. PICK r \in {[error |-> TRUE, chunks |-> {}]} \cup Found :
            words' = [words EXCEPT ![q] = r] /\ Fusion(q, r)
  BY DEF SearchChunksKeyword, Fusion
<1>3. CASE r = [error |-> TRUE, chunks |-> {}]
  BY <1>2, <1>3
<1>4. CASE r \in Found
  <2>1. r.chunks \in SUBSET Chunks /\ r.error = FALSE /\ r = [error |-> r.error, chunks |-> r.chunks]
    BY <1>1, <1>4
  <2>2. r \in [error : BOOLEAN, chunks : SUBSET Chunks]
    BY <2>1
  <2>3. QED
    BY <1>2, <2>2
<1>5. QED
  BY <1>2, <1>3, <1>4

LEMMA SearchedHits ==
    ASSUME TypeOK, NEW q \in Queries, SearchChunks(q)
    PROVE  \E e \in BOOLEAN, S \in SUBSET Chunks :
                /\ Cardinality(S) <= TopK
                /\ hits' = [hits EXCEPT ![q] = [error |-> e, chunks |-> S]]
<1>1. CASE hits' = [hits EXCEPT ![q] = [error |-> TRUE, chunks |-> {}]]
  <2>1. Cardinality({}) = 0 /\ 0 <= TopK
    BY FS_EmptySet, IndexAssumption
  <2>2. QED
    BY <1>1, <2>1
<1>2. ASSUME NEW found \in Best(tables.vectors),
             hits' = [hits EXCEPT ![q] = [error |-> FALSE, chunks |-> found]]
      PROVE  \E e \in BOOLEAN, S \in SUBSET Chunks :
                /\ Cardinality(S) <= TopK
                /\ hits' = [hits EXCEPT ![q] = [error |-> e, chunks |-> S]]
  <2>1. tables.vectors \in SUBSET Chunks
    BY DEF TypeOK, Contents
  <2>2. found \subseteq Chunks /\ Cardinality(found) <= TopK
    BY <2>1, BestBounded
  <2>3. QED
    BY <1>2, <2>2
<1>3. QED
  BY <1>1, <1>2 DEF SearchChunks

LEMMA InitIInv == Init => IInv
<1> SUFFICES ASSUME Init PROVE IInv
  OBVIOUS
<1>1. TypeOK
  BY IndexAssumption, ResultsType DEF Init, TypeOK
<1>2. Rows
  BY DEF Init, Rows, Working, RebuildEnds
<1>3. Records /\ Owned
  BY DEF Init, Records, Owned
<1>4. Published
  BY DEF Init, Published, RunsAreTruthful
<1>5. Searched
  <2>1. Cardinality({}) = 0
    BY FS_EmptySet
  <2>2. \A q \in Queries : query[q] = "idle" /\ hits[q].chunks = {} /\ context[q] = {}
    BY DEF Init, NoResults
  <2>3. \A q \in Queries : Cardinality(hits[q].chunks) = 0 /\ Cardinality(context[q]) = 0
    BY <2>1, <2>2
  <2>4. 0 <= TopK
    BY IndexAssumption
  <2>5. QED
    BY <2>2, <2>3, <2>4 DEF Searched, OneSearchIsEnough
<1>6. QED
  BY <1>1, <1>2, <1>3, <1>4, <1>5 DEF IInv

-----------------------------------------------------------------------------
LEMMA TypeStays ==
    ASSUME TypeOK, Rows, Next PROVE TypeOK'
<1> USE IndexAssumption DEF database, rebuilding, retrieving
<1>1. ASSUME NEW b \in Rebuilds, RecordRunStart(b) PROVE TypeOK'
  <2>1. PICK r \in Run : runs' = Append(runs, r)
    BY <1>1 DEF RecordRunStart, Run
  <2>2. runs' \in Seq(Run) /\ Len(runs') = Len(runs) + 1 /\ Len(runs) \in Nat
    BY <2>1, RowAppended DEF TypeOK, Run
  <2>3. row' \in [Rebuilds -> 0..Len(runs')]
    BY <1>1, <2>2 DEF RecordRunStart, TypeOK
  <2>4. QED
    BY <1>1, <2>2, <2>3 DEF RecordRunStart, TypeOK, Run
<1>2. ASSUME NEW b \in Rebuilds, Build(b) PROVE TypeOK'
  <2>1. built' \in [Rebuilds -> Contents]
    BY <1>2 DEF Build, TypeOK, Contents
  <2>2. QED
    BY <1>2, <2>1 DEF Build, TypeOK
<1>3. ASSUME NEW b \in Rebuilds, BuildFails(b) \/ LockTimeout(b) PROVE TypeOK'
  BY <1>3, ZenonT(60) DEF BuildFails, LockTimeout, TypeOK, RebuildEnds
<1>4. ASSUME NEW b \in Rebuilds, Begin(b) PROVE TypeOK'
  BY <1>4, ResultsType DEF Begin, TypeOK
<1>5. ASSUME NEW b \in Rebuilds, Insert(b) PROVE TypeOK'
  <2>1. draft' \in Contents
    <3>1. built[b] \in Contents /\ row[b] \in Nat
      BY DEF TypeOK
    <3>2. [Empty EXCEPT !.chunks = built[b].chunks, !.run = row[b]] \in Contents
      BY <3>1 DEF Empty, Contents
    <3>3. QED
      BY <1>5, <3>1, <3>2 DEF Insert
  <2>2. QED
    BY <1>5, <2>1 DEF Insert, TypeOK
<1>6. ASSUME NEW b \in Rebuilds, Commit(b) PROVE TypeOK'
  BY <1>6, ResultsType DEF Commit, TypeOK
<1>7. ASSUME NEW b \in Rebuilds, Rollback(b) PROVE TypeOK'
  BY <1>7, ResultsType DEF Rollback, TypeOK
<1>8. ASSUME NEW b \in Rebuilds, RecordRunCompletion(b) PROVE TypeOK'
  <2>1. rebuild' \in [Rebuilds -> {"idle", "building", "built", "replacing",
                                   "replaced", "failing"} \cup RebuildEnds]
    BY <1>8 DEF RecordRunCompletion, Finish, TypeOK, RebuildEnds
  <2>2. \A c \in Rebuilds : rebuild'[c] = "replacing" <=> writer' = c
    BY <1>8 DEF RecordRunCompletion, Finish, TypeOK
  <2>3. runs' \in Seq(Run) /\ Len(runs') = Len(runs)
    <3>1. CASE UNCHANGED runs
      BY <3>1 DEF TypeOK, Run
    <3>2. ASSUME NEW s \in {"succeeded", "failed"}, SetStatus(b, s)
          PROVE  runs' \in Seq(Run) /\ Len(runs') = Len(runs)
      <4>1. row[b] # 0
        BY <1>8 DEF RecordRunCompletion, Rows, Working, RebuildEnds
      <4>2. QED
        BY <3>2, <4>1, StatusSet
    <3>3. QED
      BY <1>8, <3>1, <3>2 DEF RecordRunCompletion
  <2>4. QED
    BY <1>8, <2>1, <2>2, <2>3 DEF RecordRunCompletion, TypeOK, Run
<1>9. ASSUME NEW b \in Rebuilds, Kill(b) PROVE TypeOK'
  BY <1>9, ResultsType DEF Kill, Finish, TypeOK, RebuildEnds
<1>10. ASSUME NEW q \in Queries, EmbedQuery(q) \/ OpenFails(q) PROVE TypeOK'
  BY <1>10, ZenonT(60) DEF EmbedQuery, OpenFails, TypeOK, QueryEnds
<1>11. ASSUME NEW q \in Queries, SearchChunks(q) PROVE TypeOK'
  <2>1. hits' \in [Queries -> [error : BOOLEAN, chunks : SUBSET Chunks]]
    <3>1. PICK e \in BOOLEAN, S \in SUBSET Chunks :
                hits' = [hits EXCEPT ![q] = [error |-> e, chunks |-> S]]
      BY <1>11, SearchedHits
    <3>2. QED
      BY <3>1 DEF TypeOK
  <2>2. QED
    BY <1>11, <2>1 DEF SearchChunks, TypeOK
<1>12. ASSUME NEW q \in Queries, SearchChunksKeyword(q) PROVE TypeOK'
  <2>1. PICK r \in [error : BOOLEAN, chunks : SUBSET Chunks] :
            words' = [words EXCEPT ![q] = r] /\ Fusion(q, r)
    BY <1>12, SearchedWords
  <2>2. words' \in [Queries -> [error : BOOLEAN, chunks : SUBSET Chunks]]
    BY <2>1 DEF TypeOK
  <2>4. context' \in [Queries -> SUBSET Chunks]
    <3>1. ASSUME NEW results \in Fused(q, r.chunks) PROVE results \in SUBSET Chunks
      BY <3>1 DEF Fused, Best, TypeOK
    <3>2. CASE context' = context
      BY <3>2 DEF TypeOK
    <3>3. ASSUME NEW results \in Fused(q, r.chunks), context' = [context EXCEPT ![q] = results]
          PROVE  context' \in [Queries -> SUBSET Chunks]
      BY <3>1, <3>3 DEF TypeOK
    <3>4. QED
      BY <2>1, <3>2, <3>3 DEF Fusion
  <2>3. query' \in [Queries -> {"idle", "embedded", "searched"} \cup QueryEnds]
    BY <1>12, ZenonT(60) DEF SearchChunksKeyword, TypeOK, QueryEnds
  <2>5. QED
    BY <1>12, <2>2, <2>3, <2>4 DEF SearchChunksKeyword, TypeOK
<1>13. QED
  BY <1>1, <1>2, <1>3, <1>4, <1>5, <1>6, <1>7, <1>8, <1>9, <1>10, <1>11, <1>12
     DEF Next, Rebuild, Statement, Transaction, Prepare

(* A row is taken by one rebuild, and set when that rebuild ends.          *)
LEMMA RowsStay ==
    ASSUME TypeOK, Rows, Next PROVE Rows'
<1> USE DEF database, rebuilding, retrieving
<1>1. ASSUME NEW b \in Rebuilds, RecordRunStart(b) PROVE Rows'
  <2>1. PICK r \in Run : r.status = "running" /\ runs' = Append(runs, r)
    BY <1>1 DEF RecordRunStart, Run
  <2>2. /\ runs'[Len(runs) + 1] = r /\ \A i \in 1..Len(runs) : runs'[i] = runs[i]
        /\ Len(runs) \in Nat
    BY <2>1, RowAppended DEF TypeOK, Run
  <2>3. \A c \in Rebuilds : row[c] \in 0..Len(runs)
    BY DEF TypeOK
  <2>4. /\ \A c \in Rebuilds : row'[c] = IF c = b THEN Len(runs) + 1 ELSE row[c]
        /\ \A c \in Rebuilds : rebuild'[c] = IF c = b THEN "building" ELSE rebuild[c]
    BY <1>1 DEF RecordRunStart, TypeOK
  <2>5. \A c \in Rebuilds : Working(c)' => row'[c] # 0 /\ runs'[row'[c]].status = "running"
    BY <2>1, <2>2, <2>3, <2>4 DEF Rows, Working, RebuildEnds
  <2>6. \A c, d \in Rebuilds : c # d /\ row'[c] # 0 => row'[c] # row'[d]
    BY <2>2, <2>3, <2>4 DEF Rows
  <2>7. QED
    BY <2>4, <2>5, <2>6 DEF Rows
<1>2. ASSUME NEW b \in Rebuilds, RecordRunCompletion(b) PROVE Rows'
  <2>1. row[b] # 0
    BY <1>2 DEF RecordRunCompletion, Rows, Working, RebuildEnds
  <2>2. row' = row /\ \A c \in Rebuilds :
            rebuild'[c] \in IF c = b THEN {"succeeded", "failed"} ELSE {rebuild[c]}
    BY <1>2 DEF RecordRunCompletion, Finish, TypeOK
  <2>3. \A i \in 1..Len(runs) : i # row[b] => runs'[i] = runs[i]
    BY <1>2, <2>1, StatusSet DEF RecordRunCompletion
  <2>4. \A c \in Rebuilds : c # b /\ Working(c) => row[c] \in 1..Len(runs) /\ row[c] # row[b]
    BY DEF Rows, TypeOK
  <2>5. QED
    BY <2>2, <2>3, <2>4 DEF Rows, Working, RebuildEnds
<1>3. ASSUME UNCHANGED <<runs, row>>,
             \A c \in Rebuilds : rebuild'[c] = "idle" => rebuild[c] = "idle",
             \A c \in Rebuilds : Working(c)' => Working(c)
      PROVE  Rows'
  BY <1>3 DEF Rows
<1>4. ASSUME NEW b \in Rebuilds, Build(b) \/ BuildFails(b) \/ LockTimeout(b) \/ Begin(b)
      PROVE Rows'
  BY <1>3, <1>4 DEF Build, BuildFails, LockTimeout, Begin, TypeOK, Working, RebuildEnds
<1>5. ASSUME NEW b \in Rebuilds, Transaction(b) PROVE Rows'
  BY <1>3, <1>5 DEF Transaction, Insert, Commit, Rollback, TypeOK, Working, RebuildEnds
<1>6. ASSUME NEW b \in Rebuilds, Kill(b) PROVE Rows'
  BY <1>3, <1>6 DEF Kill, Finish, TypeOK, Working, RebuildEnds
<1>7. ASSUME NEW q \in Queries, Prepare(q) PROVE Rows'
  BY <1>3, <1>7 DEF Prepare, EmbedQuery, OpenFails, SearchChunks, SearchChunksKeyword,
                    Working
<1>8. QED
  BY <1>1, <1>2, <1>4, <1>5, <1>6, <1>7 DEF Next, Rebuild, Statement

(* Records are made once, for the row of their rebuild.                    *)
LEMMA RecordsStay ==
    ASSUME TypeOK, Records, Next PROVE Records'
<1> USE DEF database, rebuilding, retrieving
<1>1. ASSUME NEW b \in Rebuilds, RecordRunStart(b) PROVE Records'
  BY <1>1 DEF RecordRunStart, Records, TypeOK
<1>2. ASSUME NEW b \in Rebuilds, Build(b) PROVE Records'
  BY <1>2 DEF Build, Records, TypeOK
<1>3. ASSUME NEW b \in Rebuilds, BuildFails(b) \/ LockTimeout(b) \/ Begin(b) PROVE Records'
  BY <1>3 DEF BuildFails, LockTimeout, Begin, Records, TypeOK
<1>4. ASSUME NEW b \in Rebuilds, Transaction(b) PROVE Records'
  BY <1>4 DEF Transaction, Insert, Commit, Rollback, Records, TypeOK
<1>5. ASSUME NEW b \in Rebuilds, RecordRunCompletion(b) \/ Kill(b) PROVE Records'
  BY <1>5 DEF RecordRunCompletion, Kill, Finish, Records, TypeOK
<1>6. ASSUME NEW q \in Queries, Prepare(q) PROVE Records'
  BY <1>6 DEF Prepare, EmbedQuery, OpenFails, SearchChunks, SearchChunksKeyword, Records
<1>7. QED
  BY <1>1, <1>2, <1>3, <1>4, <1>5, <1>6 DEF Next, Rebuild, Statement

(* Only a commit changes the tables, and their owner is past every step    *)
(* that would change its records.                                          *)
LEMMA OwnedStays ==
    ASSUME TypeOK, Rows, Records, Owned, Next PROVE Owned'
<1> USE DEF database, rebuilding, retrieving
<1>1. ASSUME NEW b \in Rebuilds, Commit(b) PROVE Owned'
  <2>1. tables' = built[b] /\ built' = built /\ row' = row /\ rebuild'[b] = "replaced"
    BY <1>1 DEF Commit, TypeOK
  <2>2. row[b] # 0 /\ built[b].run = row[b] /\ built[b].vectors = built[b].chunks
    BY <1>1 DEF Commit, Rows, Working, Records, RebuildEnds
  <2>3. Owner(b)'
    BY <2>1, <2>2 DEF Owner
  <2>4. QED
    BY <2>3 DEF Owned
<1>2. ASSUME UNCHANGED tables,
             \A c \in Rebuilds : rebuild[c] \in {"replaced"} \cup RebuildEnds =>
                /\ rebuild'[c] \in {"replaced"} \cup RebuildEnds
                /\ row[c] # 0 => row'[c] = row[c] /\ built'[c] = built[c]
      PROVE  Owned'
  BY <1>2 DEF Owned, Owner
<1>3. ASSUME NEW b \in Rebuilds, RecordRunStart(b) PROVE Owned'
  BY <1>2, <1>3 DEF RecordRunStart, TypeOK, RebuildEnds
<1>4. ASSUME NEW b \in Rebuilds, Build(b) \/ BuildFails(b) \/ LockTimeout(b) \/ Begin(b)
      PROVE Owned'
  BY <1>2, <1>4 DEF Build, BuildFails, LockTimeout, Begin, TypeOK, RebuildEnds
<1>5. ASSUME NEW b \in Rebuilds, Insert(b) \/ Rollback(b) PROVE Owned'
  BY <1>2, <1>5 DEF Insert, Rollback, TypeOK, RebuildEnds
<1>6. ASSUME NEW b \in Rebuilds, RecordRunCompletion(b) \/ Kill(b) PROVE Owned'
  BY <1>2, <1>6 DEF RecordRunCompletion, Kill, Finish, TypeOK, RebuildEnds
<1>7. ASSUME NEW q \in Queries, Prepare(q) PROVE Owned'
  BY <1>2, <1>7 DEF Prepare, EmbedQuery, OpenFails, SearchChunks, SearchChunksKeyword
<1>8. QED
  BY <1>1, <1>3, <1>4, <1>5, <1>6, <1>7 DEF Next, Rebuild, Statement, Transaction

(* A run fails in status only if it never was, nor will be, the owner.     *)
LEMMA PublishedStays ==
    ASSUME TypeOK, Rows, Records, Owned, Published, Next PROVE Published'
<1> USE DEF database, rebuilding, retrieving
<1> DEFINE Truthful(i) == /\ runs[i].status = "failed" => tables.run # i
                          /\ runs[i].status = "succeeded" => tables.run # 0
<1>0. /\ runs \in Seq(Run) /\ Len(runs) \in Nat /\ DOMAIN runs = 1..Len(runs)
      /\ \A c \in Rebuilds : row[c] \in 0..Len(runs)
      /\ \A i \in 1..Len(runs) : Truthful(i)
  BY DEF TypeOK, Run, Published, RunsAreTruthful
<1>1. ASSUME NEW b \in Rebuilds, RecordRunStart(b) PROVE Published'
  <2>1. PICK r \in Run : r.status = "running" /\ runs' = Append(runs, r)
    BY <1>1 DEF RecordRunStart, Run
  <2>2. /\ runs'[Len(runs) + 1] = r /\ \A i \in 1..Len(runs) : runs'[i] = runs[i]
        /\ DOMAIN runs' = 1..(Len(runs) + 1)
    BY <1>0, <2>1, RowAppended
  <2>3. tables' = tables /\ \A c \in Rebuilds : rebuild'[c] = "replaced" => rebuild[c] = "replaced"
    BY <1>1 DEF RecordRunStart, TypeOK
  <2>4. \A i \in 1..(Len(runs) + 1) : i \in 1..Len(runs) \/ i = Len(runs) + 1
    BY <1>0
  <2>5. \A i \in DOMAIN runs' : Truthful(i)'
    BY <1>0, <2>1, <2>2, <2>3, <2>4
  <2>6. QED
    BY <2>3, <2>5 DEF Published, RunsAreTruthful
<1>2. ASSUME NEW b \in Rebuilds, Commit(b) PROVE Published'
  <2>1. tables' = built[b] /\ runs' = runs
    BY <1>2 DEF Commit
  <2>2. built[b].run = row[b] /\ row[b] # 0 /\ runs[row[b]].status = "running"
    BY <1>2 DEF Commit, Rows, Working, Records, RebuildEnds
  <2>3. QED
    BY <1>0, <2>1, <2>2 DEF Published, RunsAreTruthful
<1>3. ASSUME NEW b \in Rebuilds, RecordRunCompletion(b) PROVE Published'
  <2>1. tables' = tables /\ row[b] # 0
    BY <1>3 DEF RecordRunCompletion, Rows, Working, RebuildEnds
  <2>2. \A c \in Rebuilds : rebuild'[c] = "replaced" => rebuild[c] = "replaced"
    BY <1>3 DEF RecordRunCompletion, Finish, TypeOK
  <2>3. CASE UNCHANGED runs
    BY <2>1, <2>2, <2>3 DEF Published, RunsAreTruthful
  <2>4. ASSUME NEW s \in {"succeeded", "failed"}, SetStatus(b, s),
               s = "succeeded" => tables.run # 0,
               s = "failed" => tables.run # row[b]
        PROVE  Published'
    <3>1. /\ runs' \in Seq(Run) /\ Len(runs') = Len(runs) /\ runs'[row[b]].status = s
          /\ \A i \in 1..Len(runs) : i # row[b] => runs'[i] = runs[i]
      BY <2>1, <2>4, StatusSet
    <3>2. \A i \in 1..Len(runs) : Truthful(i)'
      BY <1>0, <2>1, <2>4, <3>1
    <3>3. DOMAIN runs' = 1..Len(runs)
      BY <3>1
    <3>4. QED
      BY <2>1, <2>2, <3>2, <3>3 DEF Published, RunsAreTruthful
  <2>5. CASE rebuild[b] = "replaced" /\ SetStatus(b, "succeeded")
    BY <2>4, <2>5 DEF Published
  <2>6. CASE rebuild[b] = "failing" /\ SetStatus(b, "failed")
    <3>1. tables.run # row[b]
      BY <2>1, <2>6 DEF Owned, Owner, Empty, Rows, RebuildEnds
    <3>2. QED
      BY <2>4, <2>6, <3>1
  <2>7. QED
    BY <1>3, <2>3, <2>5, <2>6 DEF RecordRunCompletion
<1>4. ASSUME UNCHANGED <<runs, tables>>,
             \A c \in Rebuilds : rebuild'[c] = "replaced" => rebuild[c] = "replaced"
      PROVE  Published'
  BY <1>4 DEF Published, RunsAreTruthful
<1>5. ASSUME NEW b \in Rebuilds, Build(b) \/ BuildFails(b) \/ LockTimeout(b) \/ Begin(b)
      PROVE Published'
  BY <1>4, <1>5 DEF Build, BuildFails, LockTimeout, Begin, TypeOK
<1>6. ASSUME NEW b \in Rebuilds, Insert(b) \/ Rollback(b) \/ Kill(b) PROVE Published'
  BY <1>4, <1>6 DEF Insert, Rollback, Kill, Finish, TypeOK
<1>7. ASSUME NEW q \in Queries, Prepare(q) PROVE Published'
  BY <1>4, <1>7 DEF Prepare, EmbedQuery, OpenFails, SearchChunks, SearchChunksKeyword
<1>8. QED
  BY <1>1, <1>2, <1>3, <1>5, <1>6, <1>7 DEF Next, Rebuild, Statement, Transaction

(* Each search is bounded, and so is what Prepare makes of both.           *)
LEMMA SearchedStays ==
    ASSUME TypeOK, Searched, Next PROVE Searched'
<1> USE DEF database, rebuilding, retrieving
<1>1. ASSUME NEW q \in Queries, EmbedQuery(q) \/ OpenFails(q) PROVE Searched'
  BY <1>1 DEF EmbedQuery, OpenFails, Searched, OneSearchIsEnough, TypeOK
<1>2. ASSUME NEW q \in Queries, SearchChunks(q) PROVE Searched'
  <2>1. PICK e \in BOOLEAN, S \in SUBSET Chunks :
            /\ Cardinality(S) <= TopK
            /\ hits' = [hits EXCEPT ![q] = [error |-> e, chunks |-> S]]
    BY <1>2, SearchedHits
  <2>2. \A p \in Queries : Cardinality(hits'[p].chunks) <= TopK
    BY <2>1 DEF Searched, TypeOK
  <2>3. \A p \in Queries :
            /\ query'[p] = IF p = q THEN "searched" ELSE query[p]
            /\ p # q => hits'[p] = hits[p]
    BY <1>2, <2>1 DEF SearchChunks, TypeOK
  <2>4. words' = words /\ context' = context
    BY <1>2 DEF SearchChunks
  <2>5. QED
    BY <2>2, <2>3, <2>4 DEF Searched, OneSearchIsEnough
<1>3. ASSUME NEW q \in Queries, SearchChunksKeyword(q) PROVE Searched'
  <2>1. PICK r \in [error : BOOLEAN, chunks : SUBSET Chunks] :
            words' = [words EXCEPT ![q] = r] /\ Fusion(q, r)
    BY <1>3, SearchedWords
  <2>2. hits' = hits /\ words'[q] = r
    BY <1>3, <2>1 DEF SearchChunksKeyword, TypeOK
  <2>3. \A p \in Queries \ {q} :
            query'[p] = query[p] /\ words'[p] = words[p] /\ context'[p] = context[p]
    BY <2>1 DEF Fusion, TypeOK
  <2>4. CASE hits[q].error /\ r.error
    <3>1. query'[q] = "failed" /\ context' = context
      BY <2>1, <2>4 DEF Fusion, TypeOK
    <3>2. QED
      BY <2>2, <2>3, <2>4, <3>1 DEF Searched, OneSearchIsEnough
  <2>5. CASE ~(hits[q].error /\ r.error)
    <3>1. PICK results \in Fused(q, r.chunks) : context'[q] = results
      BY <2>1, <2>5 DEF Fusion, TypeOK
    <3>2. query'[q] = "prepared"
      BY <2>1, <2>5 DEF Fusion, TypeOK
    <3>3. Cardinality(results) <= TopK /\ (hits[q].chunks \cup r.chunks # {} => results # {})
      <4>1. CASE r.chunks = {}
        BY <3>1, <4>1 DEF Fused, Searched
      <4>2. CASE r.chunks # {}
        <5>1. results \in Best(hits[q].chunks \cup r.chunks)
          BY <3>1, <4>2 DEF Fused
        <5>2. hits[q].chunks \cup r.chunks \in SUBSET Chunks
          BY DEF TypeOK
        <5>3. QED
          BY <5>1, <5>2, BestBounded
      <4>3. QED
        BY <4>1, <4>2
    <3>4. QED
      BY <2>2, <2>3, <3>1, <3>2, <3>3 DEF Searched, OneSearchIsEnough
  <2>6. QED
    BY <2>4, <2>5
<1>4. ASSUME NEW b \in Rebuilds, Rebuild(b) PROVE Searched'
  BY <1>4 DEF Rebuild, RecordRunStart, Build, BuildFails, Statement, Begin, LockTimeout,
     Transaction, Insert, Commit, Rollback, RecordRunCompletion, Kill, Searched, OneSearchIsEnough
<1>5. QED
  BY <1>1, <1>2, <1>3, <1>4 DEF Next, Prepare

-----------------------------------------------------------------------------
LEMMA Invariance == Spec => []IInv
<1>1. Init => IInv
  BY InitIInv
<1>2. IInv /\ [Next]_vars => IInv'
  <2> SUFFICES ASSUME IInv, [Next]_vars PROVE IInv'
    OBVIOUS
  <2>1. CASE Next
    BY <2>1, TypeStays, RowsStay, RecordsStay, OwnedStays, PublishedStays, SearchedStays
       DEF IInv
  <2>2. CASE UNCHANGED vars
    BY <2>2 DEF vars, database, rebuilding, retrieving, IInv, TypeOK, Rows, Working, Records,
       Owned, Owner, Published, RunsAreTruthful, Searched, OneSearchIsEnough
  <2>3. QED
    BY <2>1, <2>2
<1>3. QED
  BY <1>1, <1>2, PTL DEF Spec

(* The types, and that a rebuild writes exactly while it is the one whose  *)
(* transaction is open, whichever is killed or waits too long for it.      *)
THEOREM TypeCorrect == Spec => []TypeOK
<1>1. IInv => TypeOK
  BY DEF IInv
<1>2. QED
  BY <1>1, Invariance, PTL

(* Whatever fails, is killed or overlaps, a search finds the index that    *)
(* one rebuild built, with a vector for every chunk, or an empty one.      *)
THEOREM WholeTheorem == Spec => []IndexIsWhole
<1>1. IInv => IndexIsWhole
  BY DEF IInv, Owned, Owner, IndexIsWhole
<1>2. QED
  BY <1>1, Invariance, PTL

(* What status says of a run agrees with what the index holds: a failed    *)
(* run put nothing into it.                                                *)
THEOREM RunsTheorem == Spec => []RunsAreTruthful
<1>1. IInv => RunsAreTruthful
  BY DEF IInv, Published
<1>2. QED
  BY <1>1, Invariance, PTL

(* A request is failed by its retrieval only if both searches failed, and  *)
(* its context is at most top_k chunks, none only if neither found any.    *)
THEOREM SearchTheorem == Spec => []OneSearchIsEnough
<1>1. IInv => OneSearchIsEnough
  BY DEF IInv, Searched
<1>2. QED
  BY <1>1, Invariance, PTL
-----------------------------------------------------------------------------
(* The refinement of IndexPublication.  A step of a rebuild touches no     *)
(* stage but that of its own row; while it works that stage is read off    *)
(* the rebuild alone, and what it leaves behind off the row.               *)
stages == [i \in DOMAIN runs |-> Stage(i)]

Lasting(b) == IF rebuild[b] = "replaced" THEN "published" ELSE "running"

LEMMA StageWorking ==
    ASSUME Rows, NEW b \in Rebuilds, Working(b) PROVE Stage(row[b]) = Lasting(b)
<1>1. \A c \in Rebuilds : row[c] = row[b] => c = b
  BY DEF Rows
<1>2. row[b] = row[b] /\ rebuild[b] \notin RebuildEnds
  BY DEF Working
<1>3. QED
  BY <1>1, <1>2 DEF Stage, Lasting

LEMMA StageKept ==
    ASSUME NEW i, runs'[i] = runs[i],
           \A c \in Rebuilds : row'[c] = i <=> row[c] = i,
           \A c \in Rebuilds : row[c] = i =>
                /\ rebuild'[c] = "replaced" <=> rebuild[c] = "replaced"
                /\ rebuild'[c] \in RebuildEnds <=> rebuild[c] \in RebuildEnds
    PROVE  Stage(i)' = Stage(i)
BY ZenonT(60) DEF Stage

(* A step of one rebuild moves the stage of its row.                       *)
LEMMA Moved ==
    ASSUME TypeOK, Rows, NEW b \in Rebuilds, row[b] # 0, UNCHANGED row,
           DOMAIN runs' = DOMAIN runs, \A i \in DOMAIN runs : i # row[b] => runs'[i] = runs[i],
           \A c \in Rebuilds : c # b => rebuild'[c] = rebuild[c]
    PROVE  /\ row[b] \in DOMAIN stages
           /\ stages' = [stages EXCEPT ![row[b]] = Stage(row[b])']
<1>1. row[b] \in DOMAIN runs
  BY DEF TypeOK
<1>2. \A c \in Rebuilds : row[c] = row[b] => c = b
  BY DEF Rows
<1>3. ASSUME NEW i \in DOMAIN runs, i # row[b] PROVE Stage(i)' = Stage(i)
  BY <1>3, StageKept
<1>4. QED
  BY <1>1, <1>3 DEF stages

(* What a run publishes has the dimensions of an embedder.                 *)
Dimensioned ==
    \A b \in Rebuilds : rebuild[b] \in {"built", "replacing", "replaced"} =>
        built[b].dims \in Dims

LEMMA DimensionedStays ==
    ASSUME TypeOK, Dimensioned, Next PROVE Dimensioned'
<1> USE DEF database, rebuilding, retrieving
<1>1. ASSUME NEW b \in Rebuilds, RecordRunStart(b) PROVE Dimensioned'
  BY <1>1 DEF RecordRunStart, Dimensioned, TypeOK
<1>2. ASSUME NEW b \in Rebuilds, Build(b) PROVE Dimensioned'
  BY <1>2 DEF Build, Dimensioned, TypeOK
<1>3. ASSUME NEW b \in Rebuilds, BuildFails(b) \/ LockTimeout(b) \/ Begin(b) PROVE Dimensioned'
  BY <1>3 DEF BuildFails, LockTimeout, Begin, Dimensioned, TypeOK
<1>4. ASSUME NEW b \in Rebuilds, Transaction(b) PROVE Dimensioned'
  BY <1>4 DEF Transaction, Insert, Commit, Rollback, Dimensioned, TypeOK
<1>5. ASSUME NEW b \in Rebuilds, RecordRunCompletion(b) \/ Kill(b) PROVE Dimensioned'
  BY <1>5 DEF RecordRunCompletion, Kill, Finish, Dimensioned, TypeOK
<1>6. ASSUME NEW q \in Queries, Prepare(q) PROVE Dimensioned'
  BY <1>6 DEF Prepare, EmbedQuery, OpenFails, SearchChunks, SearchChunksKeyword, Dimensioned
<1>7. QED
  BY <1>1, <1>2, <1>3, <1>4, <1>5, <1>6 DEF Next, Rebuild, Statement

RunStages == {"running", "published", "succeeded", "failed", "dead"}

(* The stages are a sequence as long as the table, before a step and after.*)
LEMMA StagesOf ==
    ASSUME NEW n \in Nat, NEW f \in [1..n -> RunStages]
    PROVE  f \in Seq(RunStages) /\ Len(f) = n
BY SeqDef

LEMMA StagesType ==
    ASSUME runs \in Seq(Run)
    PROVE  stages \in Seq(RunStages) /\ Len(stages) = Len(runs)
<1>1. Len(runs) \in Nat /\ DOMAIN runs = 1..Len(runs)
  OBVIOUS
<1>2. ASSUME NEW i \in 1..Len(runs) PROVE Stage(i) \in RunStages
  <2>1. runs[i] \in Run
    BY ElementOfSeq
  <2>2. runs[i].status \in {"running", "succeeded", "failed"}
    BY <2>1 DEF Run
  <2>3. QED
    BY <2>2 DEF Stage, RunStages
<1>3. stages \in [1..Len(runs) -> RunStages]
  BY <1>1, <1>2 DEF stages
<1>4. QED
  BY <1>1, <1>3, StagesOf

LEMMA StagesTypeNext ==
    ASSUME runs' \in Seq(Run)
    PROVE  stages' \in Seq(RunStages) /\ Len(stages') = Len(runs')
<1>1. Len(runs') \in Nat /\ DOMAIN runs' = 1..Len(runs')
  OBVIOUS
<1>2. ASSUME NEW i \in 1..Len(runs') PROVE Stage(i)' \in RunStages
  <2>1. runs'[i] \in Run
    BY ElementOfSeq
  <2>2. runs'[i].status \in {"running", "succeeded", "failed"}
    BY <2>1 DEF Run
  <2>3. QED
    BY <2>2 DEF Stage, RunStages
<1>3. stages' \in [1..Len(runs') -> RunStages]
  BY <1>1, <1>2 DEF stages
<1>4. QED
  BY <1>1, <1>3, StagesOf

LEMMA PublicationStarts ==
    ASSUME TypeOK, Rows, TypeOK', NEW b \in Rebuilds, RecordRunStart(b)
    PROVE  Publication!Start
<1>1. PICK r \in Run : runs' = Append(runs, r)
  BY DEF RecordRunStart, Run
<1>2. /\ \A i \in 1..Len(runs) : runs'[i] = runs[i]
      /\ Len(runs) \in Nat /\ DOMAIN runs = 1..Len(runs) /\ DOMAIN runs' = 1..(Len(runs) + 1)
  BY <1>1, RowAppended DEF TypeOK, Run
<1>3. \A c \in Rebuilds : row[c] \in 0..Len(runs)
  BY DEF TypeOK
<1>4. /\ row[b] = 0
      /\ \A c \in Rebuilds : row'[c] = IF c = b THEN Len(runs) + 1 ELSE row[c]
      /\ \A c \in Rebuilds : rebuild'[c] = IF c = b THEN "building" ELSE rebuild[c]
  BY DEF RecordRunStart, TypeOK, Rows
<1>5. ASSUME NEW i \in 1..Len(runs) PROVE Stage(i)' = Stage(i)
  <2>1. \A c \in Rebuilds : row'[c] = i <=> row[c] = i
    BY <1>2, <1>3, <1>4
  <2>2. \A c \in Rebuilds : row[c] = i => rebuild'[c] = rebuild[c]
    BY <1>4
  <2>3. QED
    BY <1>2, <2>1, <2>2, StageKept
<1> DEFINE n == Len(runs) + 1
<1>6. \A i : i = n => Stage(i)' = "running"
  <2> SUFFICES ASSUME NEW i, i = n PROVE Stage(i)' = "running"
    OBVIOUS
  <2>1. \A c \in Rebuilds : row'[c] = i <=> c = b
    BY <1>2, <1>3, <1>4
  <2>2. rebuild'[b] = "building"
    BY <1>4
  <2>3. QED
    BY <2>1, <2>2 DEF Stage, RebuildEnds
<1>7. /\ stages \in Seq(RunStages) /\ Len(stages) = Len(runs)
      /\ stages' \in Seq(RunStages) /\ Len(stages') = Len(runs) + 1
  <2>1. Len(runs') = Len(runs) + 1
    BY <1>1, RowAppended DEF TypeOK, Run
  <2>2. QED
    BY <2>1, StagesType, StagesTypeNext DEF TypeOK, Run
<1>8. stages' = Append(stages, "running")
  <2>1. \A i \in 1..(Len(runs) + 1) : stages'[i] = IF i = Len(runs) + 1 THEN "running" ELSE stages[i]
    <3>1. \A i \in 1..(Len(runs) + 1) : i \in 1..Len(runs) \/ i = Len(runs) + 1
      BY <1>2
    <3>2. QED
      BY <1>2, <1>5, <1>6, <3>1 DEF stages
  <2>2. "running" \in RunStages
    BY DEF RunStages
  <2>3. /\ Append(stages, "running") \in Seq(RunStages)
        /\ Len(Append(stages, "running")) = Len(runs) + 1
        /\ \A i \in 1..(Len(runs) + 1) : Append(stages, "running")[i] =
                IF i = Len(runs) + 1 THEN "running" ELSE stages[i]
    BY <1>2, <1>7, <2>2, AppendProperties
  <2>4. QED
    BY <1>7, <2>1, <2>3, SeqEqual
<1>9. QED
  BY <1>8 DEF Publication!Start, stages, RecordRunStart

LEMMA PublicationMoves ==
    ASSUME TypeOK, Rows, NEW b \in Rebuilds, Working(b), UNCHANGED row,
           DOMAIN runs' = DOMAIN runs, \A i \in DOMAIN runs : i # row[b] => runs'[i] = runs[i],
           \A c \in Rebuilds : c # b => rebuild'[c] = rebuild[c],
           NEW from, NEW to, Lasting(b) \in from, Stage(row[b])' = to
    PROVE  Publication!Move(row[b], from, to)
<1>1. Stage(row[b]) = Lasting(b) /\ row[b] # 0
  BY StageWorking DEF Rows
<1>2. row[b] \in DOMAIN stages /\ stages' = [stages EXCEPT ![row[b]] = to]
  BY <1>1, Moved
<1>3. stages[row[b]] = Lasting(b)
  BY <1>1, <1>2 DEF stages
<1>4. QED
  BY <1>2, <1>3 DEF Publication!Move, stages

LEMMA PublicationPublishes ==
    ASSUME TypeOK, Rows, Rows', Records, Dimensioned, NEW b \in Rebuilds, Commit(b)
    PROVE  Publication!Publish(row[b])
<1>1. /\ row' = row /\ runs' = runs /\ rebuild'[b] = "replaced"
      /\ \A c \in Rebuilds : c # b => rebuild'[c] = rebuild[c]
  BY DEF Commit, TypeOK
<1>2. Working(b) /\ Lasting(b) \in {"running"}
  BY DEF Commit, Working, RebuildEnds, Lasting
<1>3. Stage(row[b])' = "published"
  BY <1>1 DEF Stage
<1>4. Publication!Move(row[b], {"running"}, "published")
  BY <1>1, <1>2, <1>3, PublicationMoves
<1>5. \E chunks \in SUBSET Chunks, dims \in Dims :
        tables' = Publication!Whole(chunks, dims, row[b])
  <2>1. tables' = built[b] /\ built[b] \in Contents
    BY DEF Commit, TypeOK
  <2>2. built[b].run = row[b] /\ built[b].vectors = built[b].chunks /\ built[b].dims \in Dims
    BY DEF Commit, Records, Dimensioned
  <2>3. built[b].chunks \in SUBSET Chunks
    BY <2>1 DEF Contents
  <2>4. tables' = Publication!Whole(built[b].chunks, built[b].dims, row[b])
    BY <2>1, <2>2 DEF Publication!Whole, Contents
  <2>5. QED
    BY <2>2, <2>3, <2>4
<1>6. QED
  BY <1>4, <1>5 DEF Publication!Publish

(* A rebuild that ends without saying so leaves its row running: dead.     *)
LEMMA PublicationEnds ==
    ASSUME TypeOK, Rows, NEW b \in Rebuilds, RecordRunCompletion(b) \/ Kill(b)
    PROVE  Publication!Succeed(row[b]) \/ Publication!Fail(row[b]) \/ Publication!Die(row[b])
<1>1. /\ row' = row /\ rebuild'[b] \in RebuildEnds /\ tables' = tables
      /\ \A c \in Rebuilds : c # b => rebuild'[c] = rebuild[c]
  BY DEF RecordRunCompletion, Kill, Finish, TypeOK, RebuildEnds
<1>2. Working(b)
  BY DEF RecordRunCompletion, Kill, Working, RebuildEnds
<1>3. row[b] # 0 /\ runs[row[b]].status = "running" /\ Lasting(b) \in {"running", "published"}
  BY <1>2 DEF Rows, Lasting
<1>4. \A c \in Rebuilds : row'[c] = row[b] => rebuild'[c] \in RebuildEnds
  BY <1>1, <1>3 DEF Rows
<1>5. Stage(row[b])' = IF runs'[row[b]].status = "running" THEN "dead" ELSE runs'[row[b]].status
  BY <1>1, <1>4 DEF Stage, RebuildEnds
<1>6. CASE UNCHANGED runs
  <2>1. Stage(row[b])' = "dead"
    BY <1>3, <1>5, <1>6
  <2>2. Publication!Move(row[b], {"running", "published"}, "dead")
    BY <1>1, <1>2, <1>3, <1>6, <2>1, PublicationMoves
  <2>3. QED
    BY <1>1, <2>2 DEF Publication!Die
<1>7. ASSUME NEW s \in {"succeeded", "failed"}, SetStatus(b, s),
             NEW was, Lasting(b) = was
      PROVE  Publication!Move(row[b], {was}, s)
  <2>1. /\ Len(runs') = Len(runs) /\ runs' \in Seq(Run) /\ runs'[row[b]].status = s
        /\ \A i \in 1..Len(runs) : i # row[b] => runs'[i] = runs[i]
    BY <1>3, <1>7, StatusSet
  <2>2. DOMAIN runs' = DOMAIN runs /\ DOMAIN runs = 1..Len(runs)
    BY <2>1 DEF TypeOK
  <2>3. Stage(row[b])' = s
    BY <1>5, <2>1
  <2>4. Lasting(b) \in {was}
    BY <1>7
  <2>5. \A i \in DOMAIN runs : i # row[b] => runs'[i] = runs[i]
    BY <2>1, <2>2
  <2>6. UNCHANGED row
    BY <1>1
  <2>7. QED
    BY SMTT(30), <1>1, <1>2, <2>2, <2>3, <2>4, <2>5, <2>6, PublicationMoves
<1>8. CASE rebuild[b] = "replaced" /\ SetStatus(b, "succeeded")
  <2>1. Publication!Move(row[b], {"published"}, "succeeded")
    BY <1>7, <1>8 DEF Lasting
  <2>2. QED
    BY <1>1, <2>1 DEF Publication!Succeed
<1>9. CASE rebuild[b] = "failing" /\ SetStatus(b, "failed")
  <2>1. Publication!Move(row[b], {"running"}, "failed")
    BY <1>7, <1>9 DEF Lasting
  <2>2. QED
    BY <1>1, <2>1 DEF Publication!Fail
<1>10. QED
  BY <1>6, <1>8, <1>9 DEF RecordRunCompletion, Kill

(* A step that keeps the rows and the tables, lets no rebuild end that has *)
(* a row, and none publish, is not seen.                                   *)
LEMMA PublicationStutters ==
    ASSUME UNCHANGED <<runs, tables, row>>,
           \A c \in Rebuilds : row[c] # 0 =>
                /\ rebuild'[c] = "replaced" <=> rebuild[c] = "replaced"
                /\ rebuild'[c] \in RebuildEnds <=> rebuild[c] \in RebuildEnds,
           TypeOK
    PROVE  UNCHANGED Publication!vars
<1>1. \A i \in DOMAIN runs : i # 0
  BY DEF TypeOK
<1>2. \A i \in DOMAIN runs : Stage(i)' = Stage(i)
  BY <1>1, StageKept
<1>3. QED
  BY <1>2 DEF Publication!vars

LEMMA PublicationSteps ==
    ASSUME IInv, IInv', Dimensioned, [Next]_vars
    PROVE  [Publication!Next]_(Publication!vars)
<1> USE DEF IInv
<1>1. \A b \in Rebuilds : Working(b) => row[b] \in DOMAIN stages
  BY DEF Rows, TypeOK, stages
<1>2. ASSUME NEW b \in Rebuilds, RecordRunStart(b) PROVE Publication!Next
  BY <1>2, PublicationStarts DEF Publication!Next
<1>3. ASSUME NEW b \in Rebuilds, Commit(b) PROVE Publication!Next
  <2>1. Working(b)
    BY <1>3 DEF Commit, Working, RebuildEnds
  <2>2. QED
    BY <1>1, <1>3, <2>1, PublicationPublishes DEF Publication!Next, stages
<1>4. ASSUME NEW b \in Rebuilds, RecordRunCompletion(b) \/ Kill(b) PROVE Publication!Next
  <2>1. Working(b)
    BY <1>4 DEF RecordRunCompletion, Kill, Working, RebuildEnds
  <2>2. QED
    BY <1>1, <1>4, <2>1, PublicationEnds DEF Publication!Next, stages
<1>5. ASSUME NEW b \in Rebuilds, Build(b) \/ BuildFails(b) \/ LockTimeout(b) \/ Begin(b)
      PROVE  UNCHANGED Publication!vars
  BY <1>5, PublicationStutters DEF Build, BuildFails, LockTimeout, Begin, Rows, TypeOK,
     RebuildEnds, database
<1>6. ASSUME NEW b \in Rebuilds, Insert(b) \/ Rollback(b) PROVE UNCHANGED Publication!vars
  BY <1>6, PublicationStutters DEF Insert, Rollback, TypeOK, RebuildEnds, rebuilding
<1>7. ASSUME NEW q \in Queries, Prepare(q) PROVE UNCHANGED Publication!vars
  BY <1>7, PublicationStutters DEF Prepare, EmbedQuery, OpenFails, SearchChunks,
     SearchChunksKeyword, database, rebuilding
<1>8. CASE UNCHANGED vars
  BY <1>8, PublicationStutters DEF vars, database, rebuilding
<1>9. QED
  BY <1>2, <1>3, <1>4, <1>5, <1>6, <1>7, <1>8 DEF Next, Rebuild, Statement, Transaction

(* Rebuilds that overlap, fail, wait for the lock or are killed implement  *)
(* a publication that is atomic: what is found is replaced at once, by a   *)
(* run that is running, at most once by each, and index_runs says          *)
(* succeeded only of a run that did, failed only of one that did not.      *)
THEOREM PublicationTheorem == Spec => KeepsPublication
<1>1. Init => Publication!Init
  <2> SUFFICES ASSUME Init PROVE Publication!Init
    OBVIOUS
  <2>1. DOMAIN runs = {}
    BY DEF Init
  <2>2. stages = <<>>
    BY <2>1 DEF stages
  <2>3. tables = Publication!Whole({}, NoDims, 0)
    BY DEF Init, Empty, Publication!Whole
  <2>4. QED
    BY <2>2, <2>3 DEF Publication!Init, stages
<1>2. Init => Dimensioned
  BY DEF Init, Dimensioned
<1>3. IInv /\ Dimensioned /\ [Next]_vars => Dimensioned'
  BY DimensionedStays DEF IInv, vars, rebuilding, Dimensioned
<1>4. IInv /\ IInv' /\ Dimensioned /\ [Next]_vars => [Publication!Next]_(Publication!vars)
  BY PublicationSteps
<1>5. QED
  BY <1>1, <1>2, <1>3, <1>4, Invariance, PTL DEF Spec, KeepsPublication, Publication!Spec

=============================================================================
