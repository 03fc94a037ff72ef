------------------------ MODULE WorkspaceContext_proofs ------------------------
(***************************************************************************)
(* What a session knows of its workspace, proved for any files, contents,  *)
(* branches and rooms and any workload.  The index, git, the conversation  *)
(* and its views, and what a revert forgets have each an invariant of      *)
(* their own; what every step of the composition may do to one of them is  *)
(* a Move, and one lemma shows that Next makes no others.                  *)
(***************************************************************************)
EXTENDS WorkspaceContext, SequenceTheorems, WellFoundedInduction, TLAPS

-----------------------------------------------------------------------------
(* The semantic index.                                                     *)

Stages == {"none", "next", "read", "chunks", "gone", "row"}

\* The record of an indexer that is well typed.
JobShape(j) ==
    /\ j = [at |-> j.at, todo |-> j.todo, file |-> j.file, seen |-> j.seen, orphan |-> j.orphan]
    /\ j.at \in Stages /\ j.orphan \in BOOLEAN
    /\ j.orphan => j.at = "chunks"
    /\ j.at \notin {"none", "next"} => j.file \in Files

\* An indexer is in one file at a time, one that may be indexed.
JobTypes ==
    /\ docs = [f \in Files |-> docs[f]] /\ chunks = [f \in Files |-> chunks[f]]
    /\ jobs = [w \in Indexers |-> jobs[w]]
    /\ \A w \in Indexers : JobShape(jobs[w])

\* Who is about to insert chunks has written the row they are of, unless the
\* file is torn; or the row is gone, with the chunks.
WrittenFirst ==
    \A w \in Indexers : jobs[w].at = "chunks" =>
        \/ jobs[w].file \in torn
        \/ IF jobs[w].orphan THEN chunks[jobs[w].file] = docs[jobs[w].file]
                             ELSE docs[jobs[w].file] = jobs[w].seen

IndexInv == JobTypes /\ WrittenFirst /\ ChunksMatchDocument

\* What a step of the composition does to the index.
IndexMove ==
    \/ UNCHANGED indexVars
    \/ \E w \in Indexers : \/ \E todo : Begin(w, todo)
                           \/ Rebuild(w)
                           \/ IndexStep(w)
    \/ IndexCrash /\ ~quiet'

\* An indexer that begins is in no file yet.
LEMMA BeginIndex ==
    ASSUME IndexInv, NEW w \in Indexers, NEW todo, Begin(w, todo)
    PROVE  IndexInv'
<1>1. JobTypes'  BY DEF IndexInv, JobTypes, JobShape, Begin, NoJob, Stages
<1>2. /\ \A v \in Indexers \ {w} : jobs'[v] = jobs[v]
      /\ jobs'[w].at = "next" /\ jobs[w].at = "none"
      /\ UNCHANGED <<docs, chunks, torn>>
  BY DEF IndexInv, JobTypes, JobShape, Begin, NoJob, Indexing
<1> QED BY <1>1, <1>2 DEF IndexInv, WrittenFirst, ChunksMatchDocument, Midway

\* A rebuild leaves neither rows nor chunks, and whoever was about to insert
\* chunks has no row.
LEMMA RebuildIndex ==
    ASSUME IndexInv, NEW w \in Indexers, Rebuild(w)
    PROVE  IndexInv'
<1>1. /\ jobs' = [v \in Indexers |-> jobs'[v]]
      /\ jobs'[w] = [at |-> "next", todo |-> Scan, file |-> Unknown, seen |-> Unknown, orphan |-> FALSE]
      /\ \A v \in Indexers \ {w} :
            jobs'[v] = IF jobs[v].at = "chunks" /\ jobs[v].file \in Files
                       THEN [jobs[v] EXCEPT !.orphan = TRUE] ELSE jobs[v]
  BY DEF IndexInv, JobTypes, JobShape, Rebuild, Orphaned, NoJob
<1>2. \A v \in Indexers \ {w} :
         /\ jobs'[v] = [at |-> jobs'[v].at, todo |-> jobs'[v].todo, file |-> jobs'[v].file,
                        seen |-> jobs'[v].seen, orphan |-> jobs'[v].orphan]
         /\ jobs'[v].at = jobs[v].at /\ jobs'[v].file = jobs[v].file
         /\ jobs'[v].orphan = (jobs[v].at = "chunks")
  BY <1>1 DEF IndexInv, JobTypes, JobShape
<1>3. /\ docs' = [f \in Files |-> docs'[f]] /\ chunks' = [f \in Files |-> chunks'[f]]
      /\ \A f \in Files : chunks'[f] = docs'[f]
  BY DEF Rebuild
<1>4. JobTypes'
  <2>1. JobShape(jobs'[w])  BY <1>1 DEF JobShape, Stages
  <2>2. \A v \in Indexers \ {w} : JobShape(jobs'[v])  BY <1>2 DEF IndexInv, JobTypes, JobShape
  <2> QED BY <1>1, <1>3, <2>1, <2>2 DEF JobTypes, JobShape
<1>5. \A v \in Indexers : jobs'[v].at = "chunks" => jobs'[v].orphan /\ jobs'[v].file \in Files
  BY <1>1, <1>2 DEF IndexInv, JobTypes, JobShape
<1> QED BY <1>3, <1>4, <1>5 DEF IndexInv, WrittenFirst, ChunksMatchDocument

\* The steps of one indexer, where it is.
LEMMA ReadIndex ==
    ASSUME IndexInv, NEW w \in Indexers, NEW f \in jobs[w].todo, ReadFile(w, f)
    PROVE  IndexInv'
<1> DEFINE rest == [jobs[w] EXCEPT !.todo = @ \ {f}]
<1>0. /\ jobs' = [jobs EXCEPT ![w] = jobs'[w]]
      /\ \/ jobs'[w] = rest
         \/ f \in Files /\ jobs'[w] = [rest EXCEPT !.at = "gone", !.file = f]
         \/ f \in Files /\ jobs'[w] = [rest EXCEPT !.at = "read", !.file = f, !.seen = files[f]]
      /\ UNCHANGED <<docs, chunks>> /\ jobs[w].at = "next"
  BY IndexAssumptions DEF IndexInv, JobTypes, JobShape, ReadFile
<1>1. JobTypes'
  <2>1. JobShape(jobs'[w])  BY <1>0 DEF IndexInv, JobTypes, JobShape, Stages
  <2>2. \A v \in Indexers \ {w} : JobShape(jobs'[v])  BY <1>0 DEF IndexInv, JobTypes, JobShape
  <2> QED BY <1>0, <2>1, <2>2 DEF IndexInv, JobTypes, JobShape
<1>2. /\ \A v \in Indexers \ {w} : jobs'[v] = jobs[v]
      /\ jobs'[w].at \in {"next", "gone", "read"} /\ jobs[w].at = "next"
      /\ UNCHANGED <<docs, chunks, torn>>
  BY DEF IndexInv, JobTypes, JobShape, ReadFile
<1> QED BY <1>1, <1>2 DEF IndexInv, WrittenFirst, ChunksMatchDocument, Midway

\* A row is written before its chunks; two indexers there at once tear the file.
LEMMA UpsertIndex ==
    ASSUME IndexInv, NEW w \in Indexers, UpsertDocument(w)
    PROVE  IndexInv'
<1> DEFINE f == jobs[w].file
<1>0. f \in Files /\ jobs[w].at = "read"  BY DEF IndexInv, JobTypes, JobShape, UpsertDocument
<1>1. JobTypes'  BY <1>0 DEF IndexInv, JobTypes, JobShape, UpsertDocument, Stages
<1>2. CASE docs[f] = jobs[w].seen
  <2>1. /\ \A v \in Indexers \ {w} : jobs'[v] = jobs[v]
        /\ jobs'[w].at = "next" /\ UNCHANGED <<docs, chunks, torn>>
    BY <1>0, <1>2 DEF IndexInv, JobTypes, JobShape, UpsertDocument
  <2> QED BY <1>0, <1>1, <2>1 DEF IndexInv, WrittenFirst, ChunksMatchDocument, Midway
<1>3. CASE docs[f] # jobs[w].seen
  <2>1. /\ \A v \in Indexers \ {w} : jobs'[v] = jobs[v]
        /\ jobs'[w].at = "chunks" /\ jobs'[w].file = f /\ jobs'[w].seen = jobs[w].seen
        /\ jobs'[w].orphan = jobs[w].orphan
        /\ torn' = torn \cup Overlaps(w, f) /\ chunks' = chunks
        /\ docs'[f] = jobs[w].seen /\ \A g \in Files : g # f => docs'[g] = docs[g]
    BY <1>0, <1>3 DEF IndexInv, JobTypes, JobShape, UpsertDocument
  <2>2. /\ torn \subseteq torn'
        /\ \A v \in Indexers \ {w} : Midway(v, f) => f \in torn'
    BY <2>1 DEF Overlaps
  <2>3. WrittenFirst'
    <3> SUFFICES ASSUME NEW v \in Indexers, jobs'[v].at = "chunks"
                 PROVE  \/ jobs'[v].file \in torn'
                        \/ IF jobs'[v].orphan THEN chunks'[jobs'[v].file] = docs'[jobs'[v].file]
                                              ELSE docs'[jobs'[v].file] = jobs'[v].seen
      BY DEF WrittenFirst
    <3>1. CASE v = w  BY <1>0, <2>1, <3>1 DEF IndexInv, JobTypes, JobShape
    <3>2. CASE v # w /\ jobs[v].file = f
      <4>1. jobs'[v] = jobs[v] /\ Midway(v, f)  BY <2>1, <3>2 DEF Midway
      <4> QED BY <2>2, <3>2, <4>1
    <3>3. CASE v # w /\ jobs[v].file # f
      <4>1. jobs'[v] = jobs[v] /\ jobs[v].file \in Files  BY <2>1, <3>3 DEF IndexInv, JobTypes, JobShape
      <4> QED BY <2>1, <2>2, <3>3, <4>1 DEF IndexInv, WrittenFirst
    <3> QED BY <3>1, <3>2, <3>3
  <2>4. ChunksMatchDocument'
    BY <1>0, <2>1, <2>2 DEF IndexInv, ChunksMatchDocument, Midway
  <2> QED BY <1>1, <2>3, <2>4 DEF IndexInv
<1> QED BY <1>2, <1>3

\* The chunks replace what was there before, and are those of the row unless
\* another indexer is in the file; without a row the indexer gives up.
LEMMA ReplaceIndex ==
    ASSUME IndexInv, NEW w \in Indexers, ReplaceChunks(w)
    PROVE  IndexInv'
<1> DEFINE f == jobs[w].file
<1>0. f \in Files /\ jobs[w].at = "chunks" /\ docs' = docs
  BY DEF IndexInv, JobTypes, JobShape, ReplaceChunks
<1>1. CASE jobs[w].orphan
  <2>1. /\ jobs' = [jobs EXCEPT ![w] = NoJob] /\ UNCHANGED <<docs, chunks, torn>>
    BY <1>0, <1>1 DEF ReplaceChunks
  <2>2. jobs'[w] = NoJob /\ \A v \in Indexers \ {w} : jobs'[v] = jobs[v]
    BY <2>1 DEF IndexInv, JobTypes
  <2>3. JobTypes'  BY <2>1, <2>2 DEF IndexInv, JobTypes, JobShape, NoJob, Stages
  <2>4. WrittenFirst'  BY <2>1, <2>2 DEF IndexInv, WrittenFirst, NoJob
  <2>5. f \in torn \/ chunks[f] = docs[f]  BY <1>0, <1>1 DEF IndexInv, WrittenFirst
  <2>6. ChunksMatchDocument'
    <3> SUFFICES ASSUME NEW g \in Files
                 PROVE  chunks'[g] = docs'[g] \/ g \in torn' \/ \E v \in Indexers : Midway(v, g)'
      BY DEF ChunksMatchDocument
    <3>1. CASE g = f  BY <2>1, <2>5, <3>1
    <3>2. CASE g # f
      <4>1. \A v \in Indexers : Midway(v, g) => v # w /\ Midway(v, g)'  BY <2>2, <3>2 DEF Midway
      <4> QED BY <2>1, <4>1 DEF IndexInv, ChunksMatchDocument
    <3> QED BY <3>1, <3>2
  <2> QED BY <2>3, <2>4, <2>6 DEF IndexInv
<1>2. CASE ~jobs[w].orphan
  <2>1. /\ jobs' = [jobs EXCEPT ![w].at = "next"]
        /\ chunks' = [chunks EXCEPT ![f] = jobs[w].seen]
        /\ torn' = IF Overlaps(w, f) = {} /\ docs[f] = jobs[w].seen
                   THEN torn \ {f} ELSE torn \cup Overlaps(w, f)
    BY <1>0, <1>2 DEF ReplaceChunks, ChunksOf
  <2>2. /\ jobs'[w] = [jobs[w] EXCEPT !.at = "next"]
        /\ \A v \in Indexers \ {w} : jobs'[v] = jobs[v]
        /\ chunks'[f] = jobs[w].seen /\ \A g \in Files : g # f => chunks'[g] = chunks[g]
        /\ jobs'[w].at = "next"
    BY <1>0, <2>1 DEF IndexInv, JobTypes, JobShape
  <2>3. JobTypes'
    <3>1. JobShape(jobs'[w])  BY <1>2, <2>2 DEF IndexInv, JobTypes, JobShape, Stages
    <3>2. \A v \in Indexers \ {w} : JobShape(jobs'[v])  BY <2>2 DEF IndexInv, JobTypes
    <3> QED BY <1>0, <2>1, <3>1, <3>2 DEF IndexInv, JobTypes, JobShape
  <2>4. /\ \A g \in Files : g # f /\ g \in torn => g \in torn'
        /\ \A v \in Indexers \ {w} : Midway(v, f) => f \in torn'
    BY <2>1 DEF Overlaps
  <2>5. docs[f] = jobs[w].seen \/ f \in torn'
    <3>1. f \in torn \/ docs[f] = jobs[w].seen  BY <1>0, <1>2 DEF IndexInv, WrittenFirst
    <3> QED BY <2>1, <3>1
  <2>6. WrittenFirst'
    <3> SUFFICES ASSUME NEW v \in Indexers, jobs'[v].at = "chunks"
                 PROVE  \/ jobs'[v].file \in torn'
                        \/ IF jobs'[v].orphan THEN chunks'[jobs'[v].file] = docs'[jobs'[v].file]
                                              ELSE docs'[jobs'[v].file] = jobs'[v].seen
      BY DEF WrittenFirst
    <3>1. v # w /\ jobs'[v] = jobs[v] /\ jobs[v].file \in Files
      BY <2>2 DEF IndexInv, JobTypes, JobShape
    <3>2. CASE jobs[v].file = f
      <4>1. Midway(v, f)  BY <3>1, <3>2 DEF Midway
      <4> QED BY <2>4, <3>1, <3>2, <4>1
    <3>3. CASE jobs[v].file # f  BY <1>0, <2>2, <2>4, <3>1, <3>3 DEF IndexInv, WrittenFirst
    <3> QED BY <3>2, <3>3
  <2>7. ChunksMatchDocument'
    <3> SUFFICES ASSUME NEW g \in Files
                 PROVE  chunks'[g] = docs'[g] \/ g \in torn' \/ \E v \in Indexers : Midway(v, g)'
      BY DEF ChunksMatchDocument
    <3>1. CASE g = f  BY <1>0, <2>2, <2>5, <3>1
    <3>2. CASE g # f
      <4>1. \A v \in Indexers : Midway(v, g) => v # w /\ Midway(v, g)'  BY <2>2, <3>2 DEF Midway
      <4> QED BY <1>0, <2>2, <2>4, <3>2, <4>1 DEF IndexInv, ChunksMatchDocument
    <3> QED BY <3>1, <3>2
  <2> QED BY <2>3, <2>6, <2>7 DEF IndexInv
<1> QED BY <1>1, <1>2

\* The chunks of a file that is gone go first, and then its row; who is in the
\* file meanwhile tears it.
LEMMA DeleteIndex ==
    ASSUME IndexInv, NEW w \in Indexers, DeleteChunks(w)
    PROVE  IndexInv'
<1> DEFINE f == jobs[w].file
<1>0. f \in Files /\ jobs[w].at = "gone" /\ docs' = docs
  BY DEF IndexInv, JobTypes, JobShape, DeleteChunks
<1>1. /\ jobs' = [jobs EXCEPT ![w].at = "row"]
      /\ chunks' = [chunks EXCEPT ![f] = Unknown]
      /\ torn' = torn \cup Overlaps(w, f)
  BY DEF DeleteChunks
<1>2. /\ jobs'[w] = [jobs[w] EXCEPT !.at = "row"]
      /\ \A v \in Indexers \ {w} : jobs'[v] = jobs[v]
      /\ \A g \in Files : g # f => chunks'[g] = chunks[g]
      /\ jobs'[w].at = "row" /\ jobs'[w].file = f
  BY <1>0, <1>1 DEF IndexInv, JobTypes, JobShape
<1>3. JobTypes'
  <2>1. JobShape(jobs'[w])  BY <1>0, <1>2 DEF IndexInv, JobTypes, JobShape, Stages
  <2>2. \A v \in Indexers \ {w} : JobShape(jobs'[v])  BY <1>2 DEF IndexInv, JobTypes
  <2> QED BY <1>0, <1>1, <2>1, <2>2 DEF IndexInv, JobTypes, JobShape
<1>4. /\ torn \subseteq torn' /\ \A v \in Indexers \ {w} : Midway(v, f) => f \in torn'
  BY <1>1 DEF Overlaps
<1>5. WrittenFirst'
  <2> SUFFICES ASSUME NEW v \in Indexers, jobs'[v].at = "chunks"
               PROVE  \/ jobs'[v].file \in torn'
                      \/ IF jobs'[v].orphan THEN chunks'[jobs'[v].file] = docs'[jobs'[v].file]
                                            ELSE docs'[jobs'[v].file] = jobs'[v].seen
    BY DEF WrittenFirst
  <2>1. v # w /\ jobs'[v] = jobs[v] /\ jobs[v].file \in Files
    BY <1>2 DEF IndexInv, JobTypes, JobShape
  <2>2. CASE jobs[v].file = f
    <3>1. Midway(v, f)  BY <2>1, <2>2 DEF Midway
    <3> QED BY <1>4, <2>1, <2>2, <3>1
  <2>3. CASE jobs[v].file # f  BY <1>0, <1>2, <1>4, <2>1, <2>3 DEF IndexInv, WrittenFirst
  <2> QED BY <2>2, <2>3
<1>6. ChunksMatchDocument'
  <2> SUFFICES ASSUME NEW g \in Files
               PROVE  chunks'[g] = docs'[g] \/ g \in torn' \/ \E v \in Indexers : Midway(v, g)'
    BY DEF ChunksMatchDocument
  <2>1. CASE g = f
    <3>1. Midway(w, g)'  BY <1>2, <2>1 DEF Midway
    <3> QED BY <3>1
  <2>2. CASE g # f
    <3>1. \A v \in Indexers : Midway(v, g) => v # w /\ Midway(v, g)'
      BY <1>0, <1>2, <2>2 DEF Midway
    <3> QED BY <1>0, <1>2, <1>4, <2>2, <3>1 DEF IndexInv, ChunksMatchDocument
  <2> QED BY <2>1, <2>2
<1> QED BY <1>3, <1>5, <1>6 DEF IndexInv

\* A row that goes takes its chunks along.
LEMMA ForgetIndex ==
    ASSUME IndexInv, NEW w \in Indexers, DeleteDocument(w)
    PROVE  IndexInv'
<1> DEFINE f == jobs[w].file
<1>0. f \in Files /\ jobs[w].at = "row"
  BY DEF IndexInv, JobTypes, JobShape, DeleteDocument
<1>1. /\ jobs' = [Orphaned({f}) EXCEPT ![w].at = "next"]
      /\ docs' = [docs EXCEPT ![f] = Unknown] /\ chunks' = [chunks EXCEPT ![f] = Unknown]
      /\ torn' = torn \ {f}
  BY DEF DeleteDocument
<1>2. /\ jobs'[w] = [jobs[w] EXCEPT !.at = "next"]
      /\ jobs' = [v \in Indexers |-> jobs'[v]]
      /\ \A v \in Indexers \ {w} :
            jobs'[v] = IF jobs[v].at = "chunks" /\ jobs[v].file = f
                       THEN [jobs[v] EXCEPT !.orphan = TRUE] ELSE jobs[v]
  BY <1>0, <1>1 DEF IndexInv, JobTypes, JobShape, Orphaned
<1>3. /\ jobs'[w].at = "next" /\ JobShape(jobs'[w])
      /\ \A v \in Indexers \ {w} : /\ JobShape(jobs'[v])
                                   /\ jobs'[v].at = jobs[v].at /\ jobs'[v].file = jobs[v].file
                                   /\ jobs'[v].seen = jobs[v].seen
  <2>1. JobShape(jobs[w])  BY DEF IndexInv, JobTypes
  <2>2. jobs'[w].at = "next" /\ JobShape(jobs'[w])  BY <1>0, <1>2, <2>1 DEF JobShape, Stages
  <2>3. ASSUME NEW v \in Indexers \ {w}
        PROVE  /\ JobShape(jobs'[v]) /\ jobs'[v].at = jobs[v].at /\ jobs'[v].file = jobs[v].file
               /\ jobs'[v].seen = jobs[v].seen
    <3>1. JobShape(jobs[v])  BY DEF IndexInv, JobTypes
    <3> QED BY <1>2, <3>1 DEF JobShape
  <2> QED BY <2>2, <2>3
<1>4. /\ docs' = [g \in Files |-> docs'[g]] /\ chunks' = [g \in Files |-> chunks'[g]]
      /\ docs'[f] = chunks'[f]
      /\ \A g \in Files : g # f => docs'[g] = docs[g] /\ chunks'[g] = chunks[g]
  BY <1>0, <1>1 DEF IndexInv, JobTypes
<1>5. JobTypes'  BY <1>2, <1>3, <1>4 DEF JobTypes, JobShape
<1>6. WrittenFirst'
  <2> SUFFICES ASSUME NEW v \in Indexers, jobs'[v].at = "chunks"
               PROVE  \/ jobs'[v].file \in torn'
                      \/ IF jobs'[v].orphan THEN chunks'[jobs'[v].file] = docs'[jobs'[v].file]
                                            ELSE docs'[jobs'[v].file] = jobs'[v].seen
    BY DEF WrittenFirst
  <2>1. v \in Indexers \ {w} /\ jobs[v].at = "chunks" /\ jobs[v].file \in Files
    BY <1>3 DEF IndexInv, JobTypes, JobShape
  <2>2. CASE jobs[v].file = f
    <3>1. jobs'[v].orphan  BY <1>2, <2>1, <2>2 DEF IndexInv, JobTypes, JobShape
    <3> QED BY <1>3, <1>4, <2>1, <2>2, <3>1
  <2>3. CASE jobs[v].file # f
    <3>1. jobs'[v] = jobs[v]  BY <1>2, <2>1, <2>3
    <3> QED BY <1>1, <1>4, <2>1, <2>3, <3>1 DEF IndexInv, WrittenFirst
  <2> QED BY <2>2, <2>3
<1>7. ChunksMatchDocument'
  <2> SUFFICES ASSUME NEW g \in Files
               PROVE  chunks'[g] = docs'[g] \/ g \in torn' \/ \E v \in Indexers : Midway(v, g)'
    BY DEF ChunksMatchDocument
  <2>1. CASE g = f  BY <1>4, <2>1
  <2>2. CASE g # f
    <3>1. \A v \in Indexers : Midway(v, g) => v # w /\ Midway(v, g)'
      BY <1>3, <2>2 DEF Midway
    <3> QED BY <1>1, <1>4, <2>2, <3>1 DEF IndexInv, ChunksMatchDocument
  <2> QED BY <2>1, <2>2
<1> QED BY <1>5, <1>6, <1>7 DEF IndexInv

\* Every step of the composition leaves the index as it was or moves it so.
LEMMA IndexMoves ==
    ASSUME [Next]_vars
    PROVE  IndexMove
<1> USE DEF IndexMove
<1>1. CASE RunStep
  BY <1>1, ContextAssumptions DEF RunStep, StartRun, BeginRun, Retrieve, AssignMemories,
     RunReturns, RunRaises, RefreshSections, EndRun, EnsureIndex, IndexWorkspace, IndexPaths
<1>2. CASE ToolStep
  BY <1>2 DEF ToolStep, ReadFileTool, SearchCode, ListFiles, WriteFileTool, EditFile, RunCommand,
     GitStatusTool, GitDiffTool, CreateBranchTool, SwitchBranchTool, CommitTool, LspTool, Update,
     Looked, Wrote, unchangedByCall
<1>3. CASE RevertStep
  BY <1>3, ContextAssumptions DEF RevertStep, RevertFiles, Forget, ReloadMemories, RevertIndexes,
     RevertSections, RevertReturns, IndexPaths
<1>4. CASE RestStep
  BY <1>4, ContextAssumptions DEF RestStep, CommitRequest, CommitStep, CommitReturns, IndexSteps, IndexRequest,
     LspRequest, IndexWorkspace, EnsureIndex
<1>5. CASE OtherStep
  BY <1>5 DEF OtherStep, ProgramWrites, ProgramStages, ProgramInstalls, Crash
<1>6. CASE AssemblyStep  BY <1>6 DEF AssemblyStep
<1>7. CASE UNCHANGED vars  BY <1>7 DEF vars
<1> QED BY <1>1, <1>2, <1>3, <1>4, <1>5, <1>6, <1>7 DEF Next

\* Every step keeps the index what it claims to be.
LEMMA IndexKept ==
    ASSUME IndexInv, [Next]_vars
    PROVE  IndexInv'
<1>1. CASE UNCHANGED indexVars
  BY <1>1 DEF indexVars, IndexInv, JobTypes, JobShape, WrittenFirst, ChunksMatchDocument, Midway
<1>2. ASSUME NEW w \in Indexers, EndJob(w) PROVE IndexInv'
  <2>1. /\ jobs' = [jobs EXCEPT ![w] = NoJob] /\ UNCHANGED <<docs, chunks, torn>> /\ jobs[w].at = "next"
    BY <1>2 DEF EndJob
  <2>2. jobs'[w] = NoJob /\ \A v \in Indexers \ {w} : jobs'[v] = jobs[v]
    BY <2>1 DEF IndexInv, JobTypes
  <2>3. JobTypes'  BY <2>1, <2>2 DEF IndexInv, JobTypes, JobShape, NoJob, Stages
  <2> QED BY <2>1, <2>2, <2>3 DEF IndexInv, WrittenFirst, ChunksMatchDocument, Midway, NoJob
<1>3. ASSUME NEW w \in Indexers, IndexStep(w) PROVE IndexInv'
  BY <1>2, <1>3, ReadIndex, UpsertIndex, ReplaceIndex, DeleteIndex, ForgetIndex DEF IndexStep
<1>4. CASE IndexCrash
  <2>1. /\ jobs' = [w \in Indexers |-> NoJob] /\ UNCHANGED <<docs, chunks>>
        /\ \A g \in Files : g \in torn => g \in torn'
        /\ \A g \in Files : (\E w \in Indexers : Midway(w, g)) => g \in torn'
    BY <1>4 DEF IndexCrash
  <2>2. JobTypes'  BY <2>1 DEF IndexInv, JobTypes, JobShape, NoJob, Stages
  <2>3. WrittenFirst'  BY <2>1 DEF WrittenFirst, NoJob
  <2>4. ChunksMatchDocument'  BY <2>1 DEF IndexInv, ChunksMatchDocument
  <2> QED BY <2>2, <2>3, <2>4 DEF IndexInv
<1> QED BY <1>1, <1>3, <1>4, BeginIndex, RebuildIndex, IndexMoves DEF IndexMove

\* The indexes start empty, and every step is one that keeps them.
LEMMA IndexAlways == Spec => []IndexInv
<1>1. Init => IndexInv
  <2> SUFFICES ASSUME Init PROVE IndexInv  OBVIOUS
  <2>1. docs = [f \in Files |-> Unknown] /\ chunks = docs /\ jobs = [w \in Indexers |-> NoJob]
    BY DEF Init, IInit
  <2>2. docs = [f \in Files |-> docs[f]] /\ chunks = [f \in Files |-> chunks[f]]  BY <2>1
  <2>3. /\ jobs = [w \in Indexers |-> jobs[w]]
        /\ \A w \in Indexers : jobs[w] = NoJob
    BY <2>1
  <2>4. JobShape(NoJob) /\ NoJob.at = "none"  BY DEF JobShape, NoJob, Stages
  <2>5. JobTypes
    <3>1. \A w \in Indexers : JobShape(jobs[w])  BY <2>3, <2>4
    <3> QED BY <2>2, <2>3, <3>1 DEF JobTypes
  <2>6. WrittenFirst  BY <2>3, <2>4 DEF WrittenFirst
  <2>7. ChunksMatchDocument  BY <2>1 DEF ChunksMatchDocument
  <2> QED BY <2>5, <2>6, <2>7 DEF IndexInv
<1>2. IndexInv /\ [Next]_vars => IndexInv'  BY IndexKept
<1> QED BY <1>1, <1>2, PTL DEF Spec

\* The chunks of a file are those of the content its row claims, for any files
\* and contents: only a crash between two writes, and two indexers in one file
\* at once (run, request and revert), tear them apart.
THEOREM ChunksMatchDocumentHolds == Spec => []ChunksMatchDocument
<1>1. IndexInv => ChunksMatchDocument  BY DEF IndexInv
<1> QED BY <1>1, IndexAlways, PTL

-----------------------------------------------------------------------------
(* Git: what is staged is what a preview has shown, or is accounted for.   *)

CommitStages == {"none", "shown", "allowed", "staged", "done"}

\* The record of a commit that is well typed.
CommitShape(c) ==
    /\ c = [at |-> c.at, paths |-> c.paths, shown |-> c.shown, excused |-> c.excused]
    /\ c.at \in CommitStages

\* The files that a commit may take: shown, or accounted for.
MayTake(c) == c.shown \cup c.excused

\* Once there is a preview: no other file is staged, nor, when all changes are
\* to be added, changed in the work tree; and named paths are what was shown.
Accounted(c) ==
    c.at \in {"shown", "allowed", "staged"} =>
        /\ \A f \in Files \ MayTake(c) :
              /\ staged[f] = HeadTree[f]
              /\ c.paths = {} => files[f] = staged[f]
        /\ c.paths # {} => c.shown = c.paths

GitTypes ==
    /\ commit = [w \in Committers |-> commit[w]]
    /\ \A w \in Committers : CommitShape(commit[w])
    /\ staged = [f \in Files |-> staged[f]]
    /\ tip = [b \in Branches |-> tip[b]] /\ branch \in Branches

GitInv == GitTypes /\ (\A w \in Committers : Accounted(commit[w]))

\* What a step of the composition does to git and the work tree.
GitMove ==
    \/ UNCHANGED worktree
    \/ (\E tree : WriteFiles(tree)) /\ UNCHANGED <<staged, tip, branch>>
    \/ \E f \in Files : StageElsewhere(f)
    \/ \E w \in Committers : \/ \E paths \in SUBSET Files : Preview(w, paths)
                             \/ Allow(w) \/ Refuse(w) \/ StageCommit(w)
                             \/ Commit(w) \/ CommitFails(w) \/ Committed(w)
    \/ \E b \in Branches : CreateBranch(b) \/ SwitchBranch(b)
    \/ /\ commit' = [w \in Committers |-> NoCommit]
       /\ UNCHANGED <<files, staged, tip, branch>>

\* What somebody writes outdates a commit of all changes and does not touch one
\* of named paths; what somebody stages is beside a commit of named paths, and a
\* commit of all changes has it already, unless it was written since.
LEMMA ExcuseAccounts ==
    ASSUME GitInv, NEW all \in BOOLEAN, NEW who, NEW changed, NEW v \in Committers, v # who,
           commit'[v] = Excuse(all, changed, who)[v], HeadTree' = HeadTree,
           \A f \in Files \ changed : staged'[f] = staged[f] /\ files'[f] = files[f],
           \A f \in Files : IF all THEN staged'[f] = staged[f]
                           ELSE files'[f] = files[f] /\ staged'[f] \in {staged[f], files[f]}
    PROVE  CommitShape(commit'[v]) /\ Accounted(commit[v])'
<1>1. CommitShape(commit[v]) /\ Accounted(commit[v])  BY DEF GitInv, GitTypes
<1>2. CASE commit[v].at \in {"none", "done"}
  BY <1>1, <1>2 DEF Excuse, Accounted
<1>3. CASE commit[v].at \notin {"none", "done"} /\ (commit[v].paths = {}) # all
  <2>1. commit'[v] = commit[v]  BY <1>3 DEF Excuse
  <2>2. commit[v].at \in {"shown", "allowed", "staged"}
    BY <1>1, <1>3 DEF CommitShape, CommitStages
  <2>3. CASE all  BY <1>1, <1>3, <2>1, <2>2, <2>3 DEF Accounted, MayTake
  <2>4. CASE ~all  BY <1>1, <1>3, <2>1, <2>2, <2>4 DEF Accounted, MayTake
  <2> QED BY <2>3, <2>4
<1>4. CASE commit[v].at \notin {"none", "done"} /\ (commit[v].paths = {}) = all
  <2>1. commit'[v] = [commit[v] EXCEPT !.excused = @ \cup changed]  BY <1>4 DEF Excuse
  <2>2. /\ CommitShape(commit'[v])
        /\ commit'[v].at = commit[v].at /\ commit'[v].paths = commit[v].paths
        /\ commit'[v].shown = commit[v].shown /\ commit'[v].excused = commit[v].excused \cup changed
    BY <1>1, <2>1 DEF CommitShape
  <2>3. commit[v].at \in {"shown", "allowed", "staged"}
    BY <1>1, <1>4 DEF CommitShape, CommitStages
  <2> QED BY <1>1, <2>2, <2>3 DEF Accounted, MayTake
<1> QED BY <1>2, <1>3, <1>4

\* A preview shows whatever the commit will add.
LEMMA PreviewAccounts ==
    ASSUME GitInv, NEW w \in Committers, NEW paths \in SUBSET Files, Preview(w, paths)
    PROVE  GitInv'
<1>1. /\ commit'[w] = [at |-> "shown", paths |-> paths, shown |-> PreviewFiles(paths),
                       excused |-> IF paths = {} THEN {} ELSE StagedFiles]
      /\ commit' = [v \in Committers |-> commit'[v]]
      /\ \A v \in Committers \ {w} : commit'[v] = commit[v]
      /\ UNCHANGED <<files, staged, tip, branch>>
  BY DEF Preview, GitInv, GitTypes
<1>2. GitTypes'  BY <1>1 DEF GitInv, GitTypes, CommitShape, CommitStages
<1>3. Accounted(commit[w])'
  <2>1. ASSUME NEW f \in Files, paths = {}, f \notin PreviewFiles(paths)
        PROVE  staged[f] = HeadTree[f] /\ files[f] = staged[f]
    BY <2>1 DEF PreviewFiles, StatusFiles, StagedFiles, UnstagedFiles, UntrackedFiles
  <2>2. ASSUME NEW f \in Files, f \notin StagedFiles
        PROVE  staged[f] = HeadTree[f]
    BY <2>2 DEF StagedFiles
  <2>3. CASE paths = {}  BY <1>1, <2>1, <2>3 DEF Accounted, MayTake, HeadTree
  <2>4. CASE paths # {}  BY <1>1, <2>2, <2>4 DEF Accounted, MayTake, PreviewFiles, HeadTree
  <2> QED BY <2>3, <2>4
<1>4. ASSUME NEW v \in Committers \ {w} PROVE Accounted(commit[v])'
  BY <1>1 DEF GitInv, Accounted, HeadTree
<1> QED BY <1>1, <1>2, <1>3, <1>4 DEF GitInv

\* Waiting for the user, being refused, failing and being told change one commit.
LEMMA AnswerAccounts ==
    ASSUME GitInv, NEW w \in Committers,
           Allow(w) \/ Refuse(w) \/ CommitFails(w) \/ Committed(w)
    PROVE  GitInv'
<1>1. /\ commit' = [v \in Committers |-> commit'[v]]
      /\ \A v \in Committers \ {w} : commit'[v] = commit[v]
      /\ UNCHANGED <<files, staged, tip, branch>>
  BY DEF GitInv, GitTypes, Allow, Refuse, CommitFails, Committed
<1>2. CommitShape(commit[w]) /\ Accounted(commit[w])  BY DEF GitInv, GitTypes
<1>3. \/ commit[w].at = "shown" /\ commit'[w] = [commit[w] EXCEPT !.at = "allowed"]
      \/ commit'[w] = NoCommit
  BY DEF GitInv, GitTypes, Allow, Refuse, CommitFails, Committed
<1>4. CommitShape(commit'[w])  BY <1>2, <1>3 DEF CommitShape, CommitStages, NoCommit
<1>5. Accounted(commit[w])'
  BY <1>1, <1>2, <1>3 DEF Accounted, MayTake, CommitShape, NoCommit, HeadTree
<1>6. ASSUME NEW v \in Committers \ {w} PROVE Accounted(commit[v])' /\ CommitShape(commit'[v])
  BY <1>1 DEF GitInv, GitTypes, Accounted, HeadTree
<1>7. GitTypes'  BY <1>1, <1>4, <1>6 DEF GitInv, GitTypes
<1> QED BY <1>1, <1>5, <1>6, <1>7 DEF GitInv

\* What is added was shown: the paths that were named, or all changes, of which
\* those that were not shown were written since.
LEMMA StageAccounts ==
    ASSUME GitInv, NEW w \in Committers, StageCommit(w)
    PROVE  GitInv'
<1>1. CommitShape(commit[w]) /\ Accounted(commit[w])  BY DEF GitInv, GitTypes
<1>2. CASE AddRefused(commit[w].paths)
  <2>1. /\ commit' = [commit EXCEPT ![w] = [NoCommit EXCEPT !.at = "done"]]
        /\ UNCHANGED <<files, staged, tip, branch>>
    BY <1>2 DEF StageCommit
  <2>2. CommitShape([NoCommit EXCEPT !.at = "done"]) /\ [NoCommit EXCEPT !.at = "done"].at = "done"
    BY DEF CommitShape, CommitStages, NoCommit
  <2>3. /\ commit' = [v \in Committers |-> commit'[v]]
        /\ commit'[w] = [NoCommit EXCEPT !.at = "done"]
        /\ \A v \in Committers \ {w} : commit'[v] = commit[v]
    BY <2>1 DEF GitInv, GitTypes
  <2>4. GitTypes'  BY <2>1, <2>2, <2>3 DEF GitInv, GitTypes
  <2>5. Accounted(commit[w])'  BY <2>2, <2>3 DEF Accounted
  <2>6. ASSUME NEW v \in Committers \ {w} PROVE Accounted(commit[v])'
    BY <2>1, <2>3 DEF GitInv, Accounted, HeadTree
  <2> QED BY <2>1, <2>4, <2>5, <2>6 DEF GitInv
<1>3. CASE ~AddRefused(commit[w].paths)
  <2> DEFINE changed == {f \in Files : staged'[f] # staged[f]}
  <2>1. /\ commit[w].at = "allowed" /\ staged' = AddPaths(w)
        /\ commit' = [StagedBeside(changed, w) EXCEPT ![w].at = "staged"]
        /\ UNCHANGED <<files, tip, branch>>
    BY <1>3 DEF StageCommit
  <2>2. /\ commit' = [v \in Committers |-> commit'[v]]
        /\ commit'[w] = [commit[w] EXCEPT !.at = "staged"]
        /\ \A v \in Committers \ {w} : commit'[v] = Excuse(FALSE, changed, w)[v]
    BY <2>1 DEF StagedBeside, Excuse, GitInv, GitTypes
  <2>3. HeadTree' = HeadTree  BY <2>1 DEF HeadTree
  <2>4. ASSUME NEW v \in Committers \ {w} PROVE CommitShape(commit'[v]) /\ Accounted(commit[v])'
    <3>1. \A f \in Files \ changed : staged'[f] = staged[f] /\ files'[f] = files[f]  BY <2>1
    <3>2. \A f \in Files : files'[f] = files[f] /\ staged'[f] \in {staged[f], files[f]}
      BY <2>1 DEF AddPaths, Added
    <3>3. v \in Committers /\ v # w /\ commit'[v] = Excuse(FALSE, changed, w)[v]  BY <2>2
    <3> HIDE DEF changed
    <3> QED BY <2>3, <3>1, <3>2, <3>3, ExcuseAccounts
  <2>5. /\ CommitShape(commit'[w]) /\ commit'[w].at = "staged"
        /\ commit'[w].paths = commit[w].paths /\ commit'[w].shown = commit[w].shown
        /\ commit'[w].excused = commit[w].excused
    BY <1>1, <2>2 DEF CommitShape, CommitStages
  <2>6. Accounted(commit[w])'
    <3>1. ASSUME NEW f \in Files \ MayTake(commit[w])
          PROVE  staged'[f] = HeadTree[f] /\ (commit[w].paths = {} => files[f] = staged'[f])
      BY <1>1, <2>1 DEF AddPaths, Added, Accounted, MayTake
    <3> QED BY <1>1, <2>1, <2>3, <2>5, <3>1 DEF Accounted, MayTake
  <2>7. GitTypes'  BY <2>1, <2>2, <2>4, <2>5 DEF GitInv, GitTypes, AddPaths, Added
  <2> QED BY <2>1, <2>4, <2>6, <2>7 DEF GitInv
<1> QED BY <1>2, <1>3

\* A commit makes the staged tree that of HEAD, for whoever waits, too.
LEMMA CommitAccounts ==
    ASSUME GitInv, NEW w \in Committers, Commit(w)
    PROVE  GitInv'
<1>1. /\ tip' = [tip EXCEPT ![branch] = staged]
      /\ commit' = [commit EXCEPT ![w] = [NoCommit EXCEPT !.at = "done"]]
      /\ UNCHANGED <<files, staged, branch>>
  BY DEF Commit
<1>4. HeadTree' = staged /\ tip' = [b \in Branches |-> tip'[b]]
  BY <1>1 DEF GitInv, GitTypes, HeadTree
<1>5. CommitShape([NoCommit EXCEPT !.at = "done"]) /\ [NoCommit EXCEPT !.at = "done"].at = "done"
  BY DEF CommitShape, CommitStages, NoCommit
<1>6. /\ commit' = [v \in Committers |-> commit'[v]]
      /\ commit'[w] = [NoCommit EXCEPT !.at = "done"]
      /\ \A v \in Committers \ {w} : commit'[v] = commit[v]
  BY <1>1 DEF GitInv, GitTypes
<1>7. GitTypes'  BY <1>1, <1>4, <1>5, <1>6 DEF GitInv, GitTypes
<1>8. Accounted(commit[w])'  BY <1>5, <1>6 DEF Accounted
<1>9. ASSUME NEW v \in Committers \ {w} PROVE Accounted(commit[v])'
  BY <1>1, <1>4, <1>6 DEF GitInv, Accounted
<1> QED BY <1>7, <1>8, <1>9 DEF GitInv

\* A new branch starts where HEAD is; a switch brings a clean file to the other
\* branch's content in the work tree, in the index and in HEAD at once.
LEMMA BranchAccounts ==
    ASSUME GitInv, NEW b \in Branches, CreateBranch(b) \/ SwitchBranch(b)
    PROVE  GitInv'
<1>1. CASE CreateBranch(b)
  <2>1. /\ tip' = [tip EXCEPT ![b] = HeadTree]
        /\ UNCHANGED <<files, staged, branch, commit>> /\ tip[b] = None
    BY <1>1 DEF CreateBranch
  <2>2. HeadTree' = HeadTree /\ tip' = [c \in Branches |-> tip'[c]]
    BY <2>1 DEF GitInv, GitTypes, HeadTree
  <2> QED BY <2>1, <2>2 DEF GitInv, GitTypes, CommitShape, Accounted
<1>2. CASE SwitchBranch(b)
  <2>1. /\ branch' = b /\ staged' = Switched(staged, b) /\ files' = Switched(files, b)
        /\ UNCHANGED <<tip, commit>>
    BY <1>2 DEF SwitchBranch
  <2>2. HeadTree' = tip[b] /\ staged' = [f \in Files |-> staged'[f]]
    BY <2>1 DEF Switched, HeadTree
  <2>3. ASSUME NEW f \in Files, staged[f] = HeadTree[f]
        PROVE  /\ staged'[f] = HeadTree'[f]
               /\ files[f] = staged[f] => files'[f] = staged'[f]
    BY <2>1, <2>2, <2>3 DEF Switched
  <2>4. ASSUME NEW v \in Committers PROVE Accounted(commit[v])'
    BY <2>1, <2>3 DEF GitInv, Accounted, MayTake
  <2> QED BY <2>1, <2>2, <2>4 DEF GitInv, GitTypes, CommitShape
<1> QED BY <1>1, <1>2

\* Whoever else writes or stages is accounted for.
LEMMA OthersAccounts ==
    ASSUME GitInv,
           \/ (\E tree : WriteFiles(tree)) /\ UNCHANGED <<staged, tip, branch>>
           \/ \E f \in Files : StageElsewhere(f)
    PROVE  GitInv'
<1>1. UNCHANGED <<tip, branch>> /\ HeadTree' = HeadTree
  BY DEF StageElsewhere, HeadTree
<1>2. ASSUME NEW all \in BOOLEAN, NEW changed, commit' = Excuse(all, changed, None),
             \A f \in Files \ changed : staged'[f] = staged[f] /\ files'[f] = files[f],
             \A f \in Files : IF all THEN staged'[f] = staged[f]
                             ELSE files'[f] = files[f] /\ staged'[f] \in {staged[f], files[f]},
             staged' = [f \in Files |-> staged'[f]]
      PROVE  GitInv'
  <2>1. ASSUME NEW v \in Committers PROVE CommitShape(commit'[v]) /\ Accounted(commit[v])'
    <3>1. v # None /\ commit'[v] = Excuse(all, changed, None)[v]  BY <1>2, GitAssumptions
    <3> QED BY <1>1, <1>2, <3>1, ExcuseAccounts
  <2>2. commit' = [v \in Committers |-> commit'[v]]  BY <1>2 DEF Excuse
  <2> QED BY <1>1, <1>2, <2>1, <2>2 DEF GitInv, GitTypes
<1>3. CASE (\E tree : WriteFiles(tree)) /\ UNCHANGED <<staged, tip, branch>>
  <2>1. PICK tree : WriteFiles(tree)  BY <1>3
  <2> DEFINE changed == {f \in Files : tree[f] # files[f]}
  <2>2. commit' = Excuse(TRUE, changed, None) /\ files' = tree  BY <2>1 DEF WriteFiles, OutdateAll
  <2>3. \A f \in Files \ changed : staged'[f] = staged[f] /\ files'[f] = files[f]  BY <1>3, <2>2
  <2>4. staged' = [f \in Files |-> staged'[f]] /\ \A f \in Files : staged'[f] = staged[f]
    BY <1>3 DEF GitInv, GitTypes
  <2> HIDE DEF changed
  <2> QED BY <1>2, <2>2, <2>3, <2>4
<1>4. CASE \E f \in Files : StageElsewhere(f)
  <2>1. PICK f \in Files : StageElsewhere(f)  BY <1>4
  <2>2. /\ commit' = Excuse(FALSE, {f}, None) /\ staged' = [staged EXCEPT ![f] = files[f]]
        /\ UNCHANGED files
    BY <2>1 DEF StageElsewhere, StagedBeside
  <2>3. /\ \A g \in Files \ {f} : staged'[g] = staged[g] /\ files'[g] = files[g]
        /\ \A g \in Files : files'[g] = files[g] /\ staged'[g] \in {staged[g], files[g]}
        /\ staged' = [g \in Files |-> staged'[g]]
    BY <2>2 DEF GitInv, GitTypes
  <2> QED BY <1>2, <2>2, <2>3
<1> QED BY <1>3, <1>4

\* Every step of the composition leaves git as it was or moves it so.
LEMMA GitMoves ==
    ASSUME [Next]_vars
    PROVE  GitMove
<1> USE DEF GitMove, worktree, gitVars
<1>1. CASE RunStep
  BY <1>1 DEF RunStep, StartRun, BeginRun, Retrieve, AssignMemories, RunReturns, RunRaises,
     RefreshSections, EndRun
<1>2. CASE ToolStep
  <2>1. ASSUME NEW tool, NEW file, NEW seen, Looked(tool, file, seen) PROVE GitMove
    BY <2>1 DEF Looked
  <2>2. ASSUME NEW tool, NEW file, NEW seen, NEW tree, Wrote(tool, file, seen, tree) PROVE GitMove
    BY <2>2 DEF Wrote
  <2>3. ASSUME NEW b \in Branches, CreateBranchTool(b) \/ SwitchBranchTool(b) PROVE GitMove
    BY <2>3 DEF CreateBranchTool, SwitchBranchTool
  <2>4. ASSUME NEW paths \in SUBSET Files, CommitTool(paths) PROVE GitMove
    BY <2>4, ContextAssumptions DEF CommitTool
  <2>5. ASSUME NEW line, NEW allowed, NEW f, NEW c, RunCommand(line, allowed, f, c) PROVE GitMove
    BY <2>1, <2>2, <2>5 DEF RunCommand
  <2>6. ASSUME NEW p, NEW c, NEW b, WriteFileTool(p, c, b) \/ EditFile(p, b, c) PROVE GitMove
    BY <2>2, <2>6 DEF WriteFileTool, EditFile
  <2>7. ASSUME NEW f, NEW c, NEW b,
               \/ ReadFileTool(f) \/ SearchCode(f, c) \/ ListFiles
               \/ GitStatusTool \/ GitDiffTool(f, b)
        PROVE  GitMove
    BY <2>1, <2>7 DEF ReadFileTool, SearchCode, ListFiles, GitStatusTool, GitDiffTool
  <2>8. ASSUME NEW f, NEW operation, NEW remembers, NEW outcome,
               LspTool(f, operation) \/ Update(remembers, outcome)
        PROVE  GitMove
    BY <2>8 DEF LspTool, Update
  <2> HIDE DEF GitMove
  <2> QED BY <1>2, <2>3, <2>4, <2>5, <2>6, <2>7, <2>8 DEF ToolStep
<1>3. CASE RevertStep
  BY <1>3 DEF RevertStep, RevertFiles, Forget, ReloadMemories, RevertIndexes, RevertSections, RevertReturns
<1>4. CASE RestStep
  BY <1>4, ContextAssumptions DEF RestStep, CommitRequest, CommitStep, CommitReturns, IndexSteps,
     IndexRequest, LspRequest
<1>5. CASE OtherStep
  BY <1>5 DEF OtherStep, ProgramWrites, ProgramStages, ProgramInstalls, Crash
<1>6. CASE AssemblyStep  BY <1>6 DEF AssemblyStep
<1>7. CASE UNCHANGED vars  BY <1>7 DEF vars
<1> QED BY <1>1, <1>2, <1>3, <1>4, <1>5, <1>6, <1>7 DEF Next

\* A commit of all changes takes what its preview showed and what was written
\* since, whatever failed commits, a second committer, programs and switches of
\* the branch have staged, for any files, contents and branches; one of named
\* paths takes those and what others had staged.
THEOREM CommitsWhatWasShownHolds == Spec => []CommitsWhatWasShown
<1>1. Init => GitInv
  <2> SUFFICES ASSUME Init PROVE GitInv  OBVIOUS
  <2>1. /\ files \in Tree /\ staged = files /\ branch = Main
        /\ tip = [b \in Branches |-> IF b = Main THEN files ELSE None]
        /\ commit = [w \in Committers |-> NoCommit]
    BY DEF Init, GInit
  <2>2. CommitShape(NoCommit) /\ NoCommit.at = "none"
    BY DEF CommitShape, CommitStages, NoCommit
  <2>3. commit = [w \in Committers |-> commit[w]] /\ \A w \in Committers : commit[w] = NoCommit
    BY <2>1
  <2>4. GitTypes  BY <2>1, <2>2, <2>3, GitAssumptions DEF GitTypes, Tree
  <2> QED BY <2>1, <2>2, <2>3, <2>4 DEF GitInv, Accounted
<1>2. ASSUME GitInv, [Next]_vars PROVE GitInv'
  <2>1. CASE UNCHANGED worktree
    BY <1>2, <2>1 DEF worktree, gitVars, GitInv, GitTypes, CommitShape, Accounted, HeadTree
  <2>2. CASE commit' = [w \in Committers |-> NoCommit] /\ UNCHANGED <<files, staged, tip, branch>>
    <3>1. CommitShape(NoCommit) /\ NoCommit.at = "none"
      BY DEF CommitShape, CommitStages, NoCommit
    <3>2. commit' = [w \in Committers |-> commit'[w]] /\ \A w \in Committers : commit'[w] = NoCommit
      BY <2>2
    <3> QED BY <1>2, <2>2, <3>1, <3>2 DEF GitInv, GitTypes, Accounted
  <2> QED BY <1>2, <2>1, <2>2, GitMoves, PreviewAccounts, AnswerAccounts, StageAccounts, CommitAccounts,
             BranchAccounts, OthersAccounts DEF GitMove
<1>3. GitInv => CommitsWhatWasShown
  BY DEF GitInv, Accounted, MayTake, CommitsWhatWasShown, StagedFiles
<1> QED BY <1>1, <1>2, <1>3, PTL DEF Spec

-----------------------------------------------------------------------------
(* The assembly of the context.                                            *)

Messages ==
    [role : {"user", "assistant", "tool"}, calls : Nat, answers : Nat \X Nat, cost : Nat, text : Nat]

Calls(m) == m.role = "assistant" /\ m.calls > 0

AllAnswered(s) == \A i \in 1..Len(s) : s[i].role = "tool" => Answered(s, i)

\* Messages as the loop appends them: each has no text or its own, a result has
\* its own, and comes after the calls it answers one of.
Conversation(s) ==
    /\ s \in Seq(Messages) /\ Len(s) <= MaxMessages
    /\ \A i \in 1..Len(s) : /\ s[i].text \in {0, i}
                            /\ s[i].role = "tool" => s[i].text = i
    /\ AllAnswered(s)

\* Min and Max of the community modules, of a bounded set of numbers.
LEMMA MinMax ==
    ASSUME NEW n \in Nat, NEW S \in SUBSET (0..n), S # {}
    PROVE  /\ Min(S) \in S /\ \A k \in S : Min(S) <= k
           /\ Max(S) \in S /\ \A k \in S : k <= Max(S)
<1>1. ASSUME NEW T \in SUBSET Nat, T # {} PROVE \E m \in T : \A k \in T : m <= k
  <2> DEFINE Less == {ss \in Nat \X Nat : ss[1] < ss[2]}
  <2>1. IsWellFoundedOn(Less, Nat)  BY NatLessThanWellFounded DEF OpToRel
  <2>2. PICK m \in T : \A k \in T : ~(<<k, m>> \in Less)
    <3> HIDE DEF Less
    <3> QED BY <1>1, <2>1, WFMin
  <2>3. ASSUME NEW k \in T PROVE m <= k
    <3>1. k \in Nat /\ m \in Nat /\ <<k, m>> \notin Less  BY <1>1, <2>2
    <3>2. k < m => <<k, m>> \in Nat \X Nat /\ <<k, m>>[1] < <<k, m>>[2]  BY <3>1
    <3>3. ~(k < m)  BY <3>1, <3>2
    <3> QED BY <3>1, <3>3
  <2> QED BY <2>3
<1>2. S \in SUBSET Nat  OBVIOUS
<1>3. \E m \in S : \A k \in S : m <= k  BY <1>1, <1>2
<1>4. \E m \in S : \A k \in S : m >= k
  <2> DEFINE above == {n - k : k \in S}
  <2>1. above \in SUBSET Nat /\ above # {}
    <3>1. \A k \in S : n - k \in Nat  OBVIOUS
    <3> QED BY <3>1
  <2>2. PICK u \in above : \A v \in above : u <= v
    <3> HIDE DEF above
    <3> QED BY <1>1, <2>1
  <2>3. PICK m \in S : u = n - m  OBVIOUS
  <2>4. ASSUME NEW k \in S PROVE m >= k
    <3>1. n - k \in above  OBVIOUS
    <3>2. n - m <= n - k  BY <2>2, <2>3, <3>1
    <3> QED BY <3>2
  <2> QED BY <2>4
<1>5. Min(S) \in S /\ \A k \in S : Min(S) <= k  BY <1>3 DEF Min
<1>6. Max(S) \in S /\ \A k \in S : Max(S) >= k  BY <1>4 DEF Max
<1> QED BY <1>2, <1>5, <1>6

\* No messages cost nothing.
LEMMA CostOfNone == Cost(<<>>) = 0
<1> DEFINE zero == [n \in 0..0 |-> 0]
           sum == CHOOSE g : g = [n \in 0..0 |-> IF n = 0 THEN 0 ELSE g[n - 1] + <<>>[n].cost]
<1>1. zero = [n \in 0..0 |-> IF n = 0 THEN 0 ELSE zero[n - 1] + <<>>[n].cost]  OBVIOUS
<1>2. sum = [n \in 0..0 |-> IF n = 0 THEN 0 ELSE sum[n - 1] + <<>>[n].cost]  BY <1>1
<1>3. sum[0] = 0  BY <1>2
<1>4. Cost(<<>>) = sum[0]  BY DEF Cost
<1> QED BY <1>3, <1>4

\* The last n messages.
LEMMA SuffixIs ==
    ASSUME NEW S, NEW s \in Seq(S), NEW n \in 0..Len(s)
    PROVE  /\ Suffix(s, n) \in Seq(S) /\ Len(Suffix(s, n)) = n
           /\ \A i \in 1..n : Suffix(s, n)[i] = s[Len(s) - n + i]
<1>1. Len(s) \in Nat /\ \A i \in 1..Len(s) : s[i] \in S  OBVIOUS
<1>2. /\ Len(s) - n + 1 \in Int /\ Len(s) \in Int
      /\ \A i \in (Len(s) - n + 1)..Len(s) : s[i] \in S
  BY <1>1
<1>3. /\ SubSeq(s, Len(s) - n + 1, Len(s)) \in Seq(S)
      /\ Len(SubSeq(s, Len(s) - n + 1, Len(s))) =
           IF Len(s) - n + 1 <= Len(s) THEN Len(s) - (Len(s) - n + 1) + 1 ELSE 0
      /\ \A i \in 1..(Len(s) - (Len(s) - n + 1) + 1) :
            SubSeq(s, Len(s) - n + 1, Len(s))[i] = s[(Len(s) - n + 1) + i - 1]
  BY <1>2, SubSeqProperties
<1>4. Len(Suffix(s, n)) = n  BY <1>1, <1>3 DEF Suffix
<1>5. ASSUME NEW i \in 1..n PROVE Suffix(s, n)[i] = s[Len(s) - n + i]
  <2>1. (Len(s) - n + 1) + i - 1 = Len(s) - n + i /\ i \in 1..(Len(s) - (Len(s) - n + 1) + 1)  BY <1>1
  <2> QED BY <1>3, <2>1 DEF Suffix
<1> QED BY <1>3, <1>4, <1>5 DEF Suffix

\* Some number of messages fits, be it none.
LEMMA FittingIs ==
    ASSUME NEW S, NEW s \in Seq(S), NEW room \in Nat
    PROVE  Fitting(s, room) \in 0..Len(s)
<1> DEFINE fit == {n \in 0..Len(s) : Cost(Suffix(s, n)) <= room}
<1>1. Suffix(s, 0) = <<>>  BY SuffixIs
<1>2. 0 \in fit  BY <1>1, CostOfNone
<1>3. Max(fit) \in fit
  <2>1. fit \in SUBSET (0..Len(s)) /\ fit # {} /\ Len(s) \in Nat  BY <1>2
  <2> HIDE DEF fit
  <2> QED BY <2>1, MinMax
<1> QED BY <1>3 DEF Fitting

\* The first messages of a conversation are one.
LEMMA PrefixIs ==
    ASSUME NEW s, Conversation(s), NEW n \in 0..Len(s)
    PROVE  Conversation(SubSeq(s, 1, n)) /\ Len(SubSeq(s, 1, n)) = n
<1> DEFINE t == SubSeq(s, 1, n)
<1>1. s \in Seq(Messages) /\ Len(s) \in Nat /\ \A i \in 1..n : s[i] \in Messages
  BY DEF Conversation
<1>2. /\ t \in Seq(Messages) /\ Len(t) = IF 1 <= n THEN n - 1 + 1 ELSE 0
      /\ \A i \in 1..(n - 1 + 1) : t[i] = s[1 + i - 1]
  BY <1>1, SubSeqProperties
<1>3. Len(t) = n /\ \A i \in 1..n : t[i] = s[i]  BY <1>1, <1>2
<1> HIDE DEF t
<1>4. AllAnswered(t)
  <2> SUFFICES ASSUME NEW i \in 1..n, t[i].role = "tool" PROVE Answered(t, i)
    BY <1>3 DEF AllAnswered
  <2>1. i \in 1..Len(s) /\ s[i].role = "tool"  BY <1>1, <1>3
  <2>2. PICK j \in 1..(i - 1) : Calls(s[j]) /\ \A k \in (j + 1)..i : s[k].role = "tool"
    BY <2>1 DEF Conversation, AllAnswered, Answered, Calls
  <2> QED BY <1>1, <1>3, <2>2 DEF Answered, Calls
<1>5. ASSUME NEW i \in 1..Len(t)
      PROVE  t[i].text \in {0, i} /\ (t[i].role = "tool" => t[i].text = i)
  <2>1. i \in 1..Len(s) /\ t[i] = s[i]  BY <1>1, <1>3
  <2> QED BY <2>1 DEF Conversation
<1>6. Len(t) <= MaxMessages  BY <1>1, <1>3, AssemblyAssumptions DEF Conversation
<1>7. Conversation(t)
  BY <1>2, <1>4, <1>5, <1>6 DEF Conversation
<1> QED BY <1>3, <1>7 DEF t

\* What begins with no result, has every result after its calls.
LEMMA FromNoTool ==
    ASSUME NEW s \in Seq(Messages), AllAnswered(s), NEW p \in 1..Len(s), s[p].role # "tool",
           NEW t \in Seq(Messages), Len(t) = Len(s) - p + 1,
           \A i \in 1..Len(t) : t[i].role = s[p + i - 1].role /\ t[i].calls = s[p + i - 1].calls
    PROVE  AllAnswered(t)
<1> SUFFICES ASSUME NEW i \in 1..Len(t), t[i].role = "tool" PROVE Answered(t, i)
  BY DEF AllAnswered
<1>1. p + i - 1 \in 1..Len(s) /\ s[p + i - 1].role = "tool" /\ i > 1
  <2>1. Len(s) \in Nat  OBVIOUS
  <2>2. p + 1 - 1 = p  OBVIOUS
  <2> QED BY <2>1, <2>2
<1>2. PICK j \in 1..((p + i - 1) - 1) :
        Calls(s[j]) /\ \A k \in (j + 1)..(p + i - 1) : s[k].role = "tool"
  <2>1. Answered(s, p + i - 1)  BY <1>1 DEF AllAnswered
  <2> QED BY <2>1 DEF Answered, Calls
<1>3. j >= p
  <2> SUFFICES ASSUME j < p PROVE FALSE  OBVIOUS
  <2>1. p \in (j + 1)..(p + i - 1)  BY <1>1
  <2> QED BY <1>2, <2>1
<1>4. j - p + 1 \in 1..(i - 1) /\ j - p + 1 \in 1..Len(t) /\ p + (j - p + 1) - 1 = j  BY <1>3
<1>5. Calls(t[j - p + 1])  BY <1>2, <1>4 DEF Calls
<1>6. ASSUME NEW k \in ((j - p + 1) + 1)..i PROVE t[k].role = "tool"
  <2>1. /\ i \in Nat /\ k \in Nat /\ Len(t) \in Nat /\ i <= Len(t)
        /\ k >= (j - p + 1) + 1 /\ k <= i /\ k >= 1
    BY <1>4
  <2>2. k \in 1..Len(t)  BY <2>1
  <2>3. p + k - 1 \in (j + 1)..(p + i - 1)  BY <1>3, <2>1
  <2> QED BY <1>2, <2>2, <2>3
<1> QED BY <1>4, <1>5, <1>6 DEF Answered, Calls

\* The end of a conversation, from a message that is no result.
LEMMA EndAnswered ==
    ASSUME NEW s, Conversation(s), NEW p \in 1..Len(s), s[p].role # "tool"
    PROVE  SubSeq(s, p, Len(s)) \in Seq(Messages) /\ AllAnswered(SubSeq(s, p, Len(s)))
<1> DEFINE t == SubSeq(s, p, Len(s))
<1>1. /\ s \in Seq(Messages) /\ Len(s) \in Nat /\ AllAnswered(s)
      /\ \A i \in p..Len(s) : s[i] \in Messages
  BY DEF Conversation
<1>2. /\ t \in Seq(Messages) /\ Len(t) = Len(s) - p + 1
      /\ \A i \in 1..Len(t) : t[i] = s[p + i - 1]
  <2>1. /\ t \in Seq(Messages) /\ Len(t) = IF p <= Len(s) THEN Len(s) - p + 1 ELSE 0
        /\ \A i \in 1..(Len(s) - p + 1) : t[i] = s[p + i - 1]
    BY <1>1, SubSeqProperties
  <2> QED BY <1>1, <2>1
<1> HIDE DEF t
<1>3. AllAnswered(t)  BY <1>1, <1>2, FromNoTool
<1> QED BY <1>2, <1>3 DEF t

\* Only the cost and the text of a message change when it is pruned again.
LEMMA RepruneIs ==
    ASSUME NEW m \in Messages
    PROVE  /\ Repruned(m) \in Messages /\ Repruned(m).text = PrunedText
           /\ Repruned(m).role = m.role /\ Repruned(m).calls = m.calls
<1>1. PrunedCost \in Nat /\ PrunedText \in Nat  BY AssemblyAssumptions DEF PrunedText
<1> QED BY <1>1 DEF Repruned, Messages

\* A tail is nothing, the last result pruned again, or the end of the
\* conversation from some message on, save for the text of its last.
TailOf(s, tail) ==
    /\ tail \in Seq(Messages)
    /\ \/ tail = <<>>
       \/ s # <<>> /\ tail[1].text = PrunedText
       \/ \E p \in 1..Len(s) :
             /\ Len(tail) = Len(s) - p + 1 /\ tail[1] = s[p]
             /\ \A i \in 1..Len(tail) : /\ tail[i].role = s[p + i - 1].role
                                        /\ tail[i].calls = s[p + i - 1].calls

\* What _tail_messages takes is such a tail, for any room.
LEMMA TailIs ==
    ASSUME NEW s, Conversation(s), NEW room \in Rooms
    PROVE  TailOf(s, Tail_(s, room))
<1>1. s \in Seq(Messages) /\ Len(s) \in Nat /\ room \in Nat
  BY AssemblyAssumptions DEF Conversation
<1>2. ASSUME NEW n \in 0..Len(s) PROVE TailOf(s, Suffix(s, n))
  <2>1. /\ Suffix(s, n) \in Seq(Messages) /\ Len(Suffix(s, n)) = n
        /\ \A i \in 1..n : Suffix(s, n)[i] = s[Len(s) - n + i]
    BY <1>1, SuffixIs
  <2>2. CASE n = 0  BY <2>1, <2>2 DEF TailOf
  <2>3. CASE n # 0
    <3> DEFINE p == Len(s) - n + 1
    <3>1. p \in 1..Len(s) /\ n = Len(s) - p + 1 /\ \A i \in 1..n : Len(s) - n + i = p + i - 1
      BY <1>1, <2>3
    <3>2. Suffix(s, n)[1] = s[p]  BY <1>1, <2>1, <2>3
    <3> HIDE DEF p
    <3>3. \A i \in 1..n : Suffix(s, n)[i] = s[p + i - 1]  BY <2>1, <3>1
    <3> QED BY <2>1, <3>1, <3>2, <3>3 DEF TailOf
  <2> QED BY <2>2, <2>3
<1>3. ASSUME TooMuch(s, room), Last(s).role = "tool",
             NEW n \in 0..Len(Append(Front(s), Repruned(Last(s))))
      PROVE  TailOf(s, Suffix(Append(Front(s), Repruned(Last(s))), n))
  <2> DEFINE m == Repruned(Last(s))
             t == Append(Front(s), m)
  <2>1. Len(s) >= 1 /\ Last(s) = s[Len(s)] /\ s[Len(s)] \in Messages
    BY <1>1, <1>3 DEF TooMuch, Last
  <2>2. m \in Messages /\ m.text = PrunedText /\ m.role = s[Len(s)].role /\ m.calls = s[Len(s)].calls
    BY <2>1, RepruneIs
  <2>3. /\ Front(s) \in Seq(Messages) /\ Len(Front(s)) = Len(s) - 1
        /\ \A i \in 1..(Len(s) - 1) : Front(s)[i] = s[i]
    <3>1. \A i \in 1..(Len(s) - 1) : s[i] \in Messages  BY <1>1
    <3>2. /\ SubSeq(s, 1, Len(s) - 1) \in Seq(Messages)
          /\ Len(SubSeq(s, 1, Len(s) - 1)) = IF 1 <= Len(s) - 1 THEN Len(s) - 1 - 1 + 1 ELSE 0
          /\ \A i \in 1..(Len(s) - 1 - 1 + 1) : SubSeq(s, 1, Len(s) - 1)[i] = s[1 + i - 1]
      BY <1>1, <3>1, SubSeqProperties
    <3>3. Len(s) - 1 - 1 + 1 = Len(s) - 1 /\ \A i \in 1..(Len(s) - 1) : 1 + i - 1 = i
      BY <1>1, <2>1
    <3>4. Len(SubSeq(s, 1, Len(s) - 1)) = Len(s) - 1
      <4>1. ASSUME NEW k \in Nat, k >= 1 PROVE (IF 1 <= k - 1 THEN k - 1 - 1 + 1 ELSE 0) = k - 1
        <5>1. CASE 1 <= k - 1  BY <4>1, <5>1
        <5>2. CASE ~(1 <= k - 1)  BY <4>1, <5>2
        <5> QED BY <5>1, <5>2
      <4>2. (IF 1 <= Len(s) - 1 THEN Len(s) - 1 - 1 + 1 ELSE 0) = Len(s) - 1  BY <1>1, <2>1, <4>1
      <4> QED BY <3>2, <4>2
    <3> QED BY <3>2, <3>3, <3>4 DEF Front
  <2>4. /\ t \in Seq(Messages) /\ Len(t) = Len(s) /\ t[Len(s)] = m
        /\ \A i \in 1..(Len(s) - 1) : t[i] = s[i]
    <3> HIDE DEF m
    <3>1. /\ t \in Seq(Messages) /\ Len(t) = Len(Front(s)) + 1 /\ t[Len(Front(s)) + 1] = m
          /\ \A i \in 1..Len(Front(s)) : t[i] = Front(s)[i]
      BY <2>2, <2>3, AppendProperties
    <3> QED BY <1>1, <2>3, <3>1
  <2> HIDE DEF t, m
  <2>5. n \in 0..Len(s)  BY <1>3, <2>4 DEF t, m
  <2>6. /\ Suffix(t, n) \in Seq(Messages) /\ Len(Suffix(t, n)) = n
        /\ \A i \in 1..n : Suffix(t, n)[i] = t[Len(s) - n + i]
    <3>1. t \in Seq(Messages) /\ n \in 0..Len(t)  BY <2>4, <2>5
    <3>2. /\ Suffix(t, n) \in Seq(Messages) /\ Len(Suffix(t, n)) = n
          /\ \A i \in 1..n : Suffix(t, n)[i] = t[Len(t) - n + i]
      BY <3>1, SuffixIs
    <3> QED BY <2>4, <3>2
  <2>7. CASE n = 0  BY <2>6, <2>7 DEF TailOf, t, m
  <2>8. CASE n = 1
    <3>1. Suffix(t, n)[1] = m  BY <1>1, <2>4, <2>6, <2>8
    <3> QED BY <2>1, <2>2, <2>6, <3>1 DEF TailOf, t, m
  <2>9. CASE n > 1
    <3> DEFINE p == Len(s) - n + 1
    <3>1. p \in 1..(Len(s) - 1) /\ n = Len(s) - p + 1 /\ \A i \in 1..n : Len(s) - n + i = p + i - 1
      BY <1>1, <2>5, <2>9
    <3>2. Suffix(t, n)[1] = s[p]
      <4>1. Suffix(t, n)[1] = t[Len(s) - n + 1]  BY <2>6, <2>9
      <4> QED BY <2>4, <3>1, <4>1
    <3> HIDE DEF p
    <3>3. ASSUME NEW i \in 1..n
          PROVE  /\ Suffix(t, n)[i].role = s[p + i - 1].role
                 /\ Suffix(t, n)[i].calls = s[p + i - 1].calls
      <4>1. Suffix(t, n)[i] = t[p + i - 1] /\ p + i - 1 \in 1..Len(s)  BY <1>1, <2>5, <2>6, <3>1
      <4>2. CASE p + i - 1 = Len(s)  BY <2>2, <2>4, <4>1, <4>2
      <4>3. CASE p + i - 1 # Len(s)
        <5>1. p + i - 1 \in 1..(Len(s) - 1)  BY <1>1, <4>1, <4>3
        <5> QED BY <2>4, <4>1, <5>1
      <4> QED BY <4>2, <4>3
    <3>4. p \in 1..Len(s)  BY <1>1, <3>1
    <3>5. TailOf(s, Suffix(t, n))  BY <2>6, <3>1, <3>2, <3>3, <3>4 DEF TailOf
    <3> QED BY <3>5 DEF t, m
  <2>10. n \in Nat  BY <1>1, <2>5
  <2> QED BY <2>7, <2>8, <2>9, <2>10
<1>4. Fitting(s, room) \in 0..Len(s)  BY <1>1, FittingIs
<1>5. ASSUME TooMuch(s, room)
      PROVE  LET t == Append(Front(s), Repruned(Last(s))) IN Fitting(t, room) \in 0..Len(t)
  <2> DEFINE t == Append(Front(s), Repruned(Last(s)))
  <2>1. Len(s) >= 1 /\ Last(s) = s[Len(s)] /\ s[Len(s)] \in Messages
    BY <1>1, <1>5 DEF TooMuch, Last
  <2>2. Repruned(Last(s)) \in Messages  BY <2>1, RepruneIs
  <2>3. Front(s) \in Seq(Messages)
    <3>1. 1 \in Int /\ Len(s) - 1 \in Int /\ \A i \in 1..(Len(s) - 1) : s[i] \in Messages  BY <1>1
    <3> QED BY <3>1, SubSeqProperties DEF Front
  <2>4. t \in Seq(Messages)  BY <2>2, <2>3, AppendProperties
  <2> HIDE DEF t
  <2>5. Fitting(t, room) \in 0..Len(t)  BY <1>1, <2>4, FittingIs
  <2> QED BY <2>5 DEF t
<1>6. <<>> \in Seq(Messages)  OBVIOUS
<1>7. TailOf(s, <<>>)  BY <1>6 DEF TailOf
<1> QED BY <1>2, <1>3, <1>4, <1>5, <1>7 DEF Tail_

\* Back from a message is itself, or from a result the calls it answers.
LEMMA CallOfIs ==
    ASSUME NEW s, Conversation(s), NEW i \in 1..Len(s)
    PROVE  /\ CallOf(s, i) \in 1..Len(s) /\ s[CallOf(s, i)].role # "tool"
           /\ s[i].role = "tool" => Calls(s[CallOf(s, i)])
           /\ s[i].role # "tool" => CallOf(s, i) = i
<1> DEFINE back == {1} \cup {j \in 1..i : s[j].role # "tool"}
<1>1. Len(s) \in Nat /\ i \in Nat  BY DEF Conversation
<1>2. CallOf(s, i) \in back /\ \A j \in back : j <= CallOf(s, i)
  <2>1. back \in SUBSET (0..i) /\ back # {}  BY <1>1
  <2> HIDE DEF back
  <2>2. Max(back) \in back /\ \A j \in back : j <= Max(back)  BY <1>1, <2>1, MinMax
  <2> QED BY <2>2 DEF CallOf, back
<1>3. CASE s[i].role = "tool"
  <2>1. Answered(s, i)  BY <1>3 DEF Conversation, AllAnswered
  <2>2. PICK j \in 1..(i - 1) : Calls(s[j]) /\ \A k \in (j + 1)..i : s[k].role = "tool"
    BY <2>1 DEF Answered, Calls
  <2>3. j \in back  BY <2>2 DEF Calls
  <2>4. CallOf(s, i) \in Nat /\ CallOf(s, i) <= i /\ j <= CallOf(s, i)  BY <1>1, <1>2, <2>3
  <2>5. CallOf(s, i) = j
    <3> SUFFICES ASSUME CallOf(s, i) # j PROVE FALSE  OBVIOUS
    <3>1. CallOf(s, i) \in (j + 1)..i /\ CallOf(s, i) # 1  BY <2>4
    <3> QED BY <1>2, <2>2, <3>1
  <2> QED BY <1>1, <1>3, <2>2, <2>5 DEF Calls
<1>4. CASE s[i].role # "tool"
  <2>1. i \in back /\ \A j \in back : j \in Nat /\ j <= i  BY <1>1, <1>4
  <2>2. CallOf(s, i) = i  BY <1>1, <1>2, <2>1
  <2> QED BY <1>4, <2>2
<1> QED BY <1>3, <1>4

\* The start of a tail is in the conversation; a result it starts with is found.
LEMMA StartIs ==
    ASSUME NEW s, Conversation(s), s # <<>>, NEW tail
    PROVE  /\ Start(s, tail) \in 1..Len(s)
           /\ \A p \in 1..Len(s) : tail[1] = s[p] /\ s[p].role = "tool" => Start(s, tail) = p
<1> DEFINE alike == {i \in 1..Len(s) : Alike(s[i], tail[1])} \cup {Len(s) + 1}
<1>1. Len(s) \in Nat /\ Len(s) >= 1  BY DEF Conversation
<1>3. Position(s, tail[1]) \in alike /\ \A i \in alike : Position(s, tail[1]) <= i
  <2>1. alike \in SUBSET (0..(Len(s) + 1)) /\ alike # {} /\ Len(s) + 1 \in Nat  BY <1>1
  <2> HIDE DEF alike
  <2>2. Min(alike) \in alike /\ \A j \in alike : Min(alike) <= j  BY <2>1, MinMax
  <2> QED BY <2>2 DEF Position, alike
<1>4. Start(s, tail) \in 1..Len(s)
  <2>1. Position(s, tail[1]) \in 1..(Len(s) + 1)  BY <1>1, <1>3
  <2> QED BY <1>1, <2>1 DEF Start
<1>5. ASSUME NEW p \in 1..Len(s), tail[1] = s[p], s[p].role = "tool"
      PROVE  Start(s, tail) = p
  <2>1. p \in alike  BY <1>5 DEF Alike
  <2>2. Position(s, tail[1]) \in 1..Len(s)  BY <1>1, <1>3, <2>1
  <2>3. s[Position(s, tail[1])].text = s[p].text  BY <1>1, <1>3, <1>5, <2>2 DEF Alike
  <2>4. s[p].text = p /\ s[Position(s, tail[1])].text \in {0, Position(s, tail[1])}
    BY <1>5, <2>2 DEF Conversation
  <2>5. Position(s, tail[1]) = p  BY <2>3, <2>4
  <2> QED BY <1>1, <2>5 DEF Start
<1> QED BY <1>4, <1>5

\* What the LLM is shown: results with their calls, or one that is pruned again.
LEMMA RepairIs ==
    ASSUME NEW s, Conversation(s), NEW tail, TailOf(s, tail)
    PROVE  /\ Repair(s, tail) \in Seq(Messages)
           /\ AllAnswered(Repair(s, tail)) \/ Repair(s, tail)[1].text = PrunedText
<1>1. CASE tail = <<>>  BY <1>1 DEF Repair, AllAnswered, TailOf
<1>2. CASE tail # <<>>
  <2> DEFINE i == CallOf(s, Start(s, tail))
  <2>1. s # <<>>
    <3>1. CASE s # <<>>  BY <3>1
    <3>2. CASE \E p \in 1..Len(s) : TRUE  BY <3>2
    <3> QED BY <1>2, <3>1, <3>2 DEF TailOf
  <2>2. Start(s, tail) \in 1..Len(s)  BY <2>1, StartIs
  <2>3. i \in 1..Len(s) /\ s[i].role # "tool"  BY <2>2, CallOfIs
  <2>4. Repair(s, tail) = IF Calls(s[i]) THEN SubSeq(s, i, Len(s)) ELSE tail
    BY <1>2 DEF Repair, Calls
  <2>5. CASE Calls(s[i])
    <3> HIDE DEF i
    <3>1. SubSeq(s, i, Len(s)) \in Seq(Messages) /\ AllAnswered(SubSeq(s, i, Len(s)))
      BY <2>3, EndAnswered
    <3> QED BY <2>4, <2>5, <3>1
  <2>6. CASE ~Calls(s[i]) /\ tail[1].text = PrunedText  BY <2>4, <2>6 DEF TailOf
  <2>7. ASSUME ~Calls(s[i]), NEW p \in 1..Len(s), Len(tail) = Len(s) - p + 1, tail[1] = s[p],
               \A k \in 1..Len(tail) : /\ tail[k].role = s[p + k - 1].role
                                       /\ tail[k].calls = s[p + k - 1].calls
        PROVE  AllAnswered(tail)
    <3>1. s[p].role # "tool"
      <4> SUFFICES ASSUME s[p].role = "tool" PROVE FALSE  OBVIOUS
      <4>1. Start(s, tail) = p  BY <2>1, <2>7, StartIs
      <4>2. Calls(s[i])  BY <4>1, CallOfIs
      <4> QED BY <2>7, <4>2
    <3>2. s \in Seq(Messages) /\ AllAnswered(s) /\ tail \in Seq(Messages)  BY DEF Conversation, TailOf
    <3> QED BY <2>7, <3>1, <3>2, FromNoTool
  <2> QED BY <1>2, <2>4, <2>5, <2>6, <2>7 DEF TailOf
<1> QED BY <1>1, <1>2

\* The messages of a view of the conversation s.
Recent(s, room) == IF Cost(s) <= room THEN s ELSE Repair(s, Tail_(s, room))

\* After the repair no result stands before its call, save one pruned again.
LEMMA RecentIs ==
    ASSUME NEW s, Conversation(s), NEW room \in Rooms
    PROVE  /\ Len(Recent(s, room)) \in Nat
           /\ AllAnswered(Recent(s, room)) \/ Recent(s, room)[1].text = PrunedText
<1>1. s \in Seq(Messages) /\ AllAnswered(s)  BY DEF Conversation
<1>2. /\ Repair(s, Tail_(s, room)) \in Seq(Messages)
      /\ \/ AllAnswered(Repair(s, Tail_(s, room)))
         \/ Repair(s, Tail_(s, room))[1].text = PrunedText
  BY TailIs, RepairIs
<1> QED BY <1>1, <1>2 DEF Recent

\* A calling assistant, and after it nothing but results.
OpenAt(s) ==
    \E j \in 1..Len(s) : Calls(s[j]) /\ \A k \in (j + 1)..Len(s) : s[k].role = "tool"

ConversationInv ==
    /\ Conversation(conversation)
    /\ unanswered \in Seq(Nat \X Nat) /\ Len(conversation) + Len(unanswered) <= MaxMessages
    /\ unanswered # <<>> => OpenAt(conversation)

\* The rows are the first of the messages.
SavedInv == saved \in 0..Len(conversation)

AssemblyInv == ConversationInv /\ SavedInv /\ CallsKeptTogether

\* What a step of the composition does to the conversation.
AssemblyMove ==
    \/ UNCHANGED assemblyVars
    \/ UserMessage \/ TextMessage \/ SaveMessages \/ LoseMessages \/ CompactContext
    \/ \E n \in Batches, said \in BOOLEAN : CallMessage(n, said)
    \/ \E cost \in ToolCosts : ToolMessage(cost)
    \/ \E room \in Rooms : BuildContext(room) \/ ContextStatus(room)

\* One more message leaves a conversation, when a result answers an open call.
LEMMA AppendIs ==
    ASSUME NEW s, Conversation(s), Len(s) + 1 <= MaxMessages,
           NEW m \in Messages, m.text \in {0, Len(s) + 1},
           m.role = "tool" => m.text = Len(s) + 1 /\ OpenAt(s)
    PROVE  Conversation(Append(s, m)) /\ Len(Append(s, m)) = Len(s) + 1 /\ Append(s, m)[Len(s) + 1] = m
<1> DEFINE t == Append(s, m)
<1>1. s \in Seq(Messages) /\ Len(s) \in Nat  BY DEF Conversation
<1>2. /\ t \in Seq(Messages) /\ Len(t) = Len(s) + 1 /\ t[Len(s) + 1] = m
      /\ \A i \in 1..Len(s) : t[i] = s[i]
  BY <1>1, AppendProperties
<1> HIDE DEF t
<1>3. ASSUME NEW i \in 1..Len(t)
      PROVE  /\ t[i].text \in {0, i} /\ (t[i].role = "tool" => t[i].text = i)
             /\ t[i].role = "tool" => Answered(t, i)
  <2>1. CASE i = Len(s) + 1
    <3>1. t[i] = m  BY <1>2, <2>1
    <3>2. ASSUME m.role = "tool" PROVE Answered(t, i)
      <4>1. PICK j \in 1..Len(s) : Calls(s[j]) /\ \A k \in (j + 1)..Len(s) : s[k].role = "tool"
        BY <3>2 DEF OpenAt
      <4>2. j \in 1..(i - 1) /\ Calls(t[j])  BY <1>1, <1>2, <2>1, <4>1
      <4>3. ASSUME NEW k \in (j + 1)..i PROVE t[k].role = "tool"
        <5>1. CASE k = i  BY <3>1, <3>2, <5>1
        <5>2. CASE k # i
          <6>1. k \in (j + 1)..Len(s) /\ k \in 1..Len(s)  BY <1>1, <2>1, <4>1, <5>2
          <6> QED BY <1>2, <4>1, <6>1
        <5> QED BY <5>1, <5>2
      <4> QED BY <4>2, <4>3 DEF Answered, Calls
    <3> QED BY <2>1, <3>1, <3>2
  <2>2. CASE i # Len(s) + 1
    <3>1. i \in 1..Len(s) /\ t[i] = s[i]  BY <1>1, <1>2, <2>2
    <3>2. ASSUME s[i].role = "tool" PROVE Answered(t, i)
      <4>1. Answered(s, i)  BY <3>1, <3>2 DEF Conversation, AllAnswered
      <4>2. PICK j \in 1..(i - 1) : Calls(s[j]) /\ \A k \in (j + 1)..i : s[k].role = "tool"
        BY <4>1 DEF Answered, Calls
      <4>3. Calls(t[j])  BY <1>1, <1>2, <3>1, <4>2
      <4>4. ASSUME NEW k \in (j + 1)..i PROVE t[k].role = "tool"
        <5>1. k \in 1..Len(s)  BY <1>1, <3>1, <4>2
        <5> QED BY <1>2, <4>2, <5>1
      <4> QED BY <4>2, <4>3, <4>4 DEF Answered, Calls
    <3> QED BY <3>1, <3>2 DEF Conversation
  <2> QED BY <2>1, <2>2
<1>4. AllAnswered(t)  BY <1>3 DEF AllAnswered
<1>5. Conversation(t)  BY <1>1, <1>2, <1>3, <1>4 DEF Conversation
<1> QED BY <1>2, <1>5 DEF t

\* Nothing is wrong with a view of nothing.
LEMMA NoViewIs ==
    ASSUME view' = NoView
    PROVE  CallsKeptTogether'
  BY DEF NoView, CallsKeptTogether

\* A user's message keeps the invariant.
LEMMA UserAppends ==
    ASSUME AssemblyInv, UserMessage
    PROVE  AssemblyInv'
<1> DEFINE m == Message("user", 0, NoCall, 1, Len(conversation) + 1)
<1>1. Len(conversation) \in Nat  BY DEF AssemblyInv, ConversationInv, Conversation
<1>2. m \in Messages /\ m.text = Len(conversation) + 1 /\ m.role = "user"
  BY <1>1 DEF Message, Messages, NoCall
<1>3. /\ conversation' = Append(conversation, m) /\ view' = NoView /\ unanswered = <<>>
      /\ UNCHANGED <<saved, unanswered, checkpoint>>
      /\ Len(conversation) + 1 <= MaxMessages
  BY DEF UserMessage, Append_, Fits
<1> HIDE DEF m
<1>4. Conversation(conversation') /\ Len(conversation') = Len(conversation) + 1
  BY <1>2, <1>3, AppendIs DEF AssemblyInv, ConversationInv
<1>5. ConversationInv'  BY <1>1, <1>3, <1>4 DEF AssemblyInv, ConversationInv
<1>6. SavedInv'  BY <1>1, <1>3, <1>4 DEF AssemblyInv, SavedInv
<1> QED BY <1>3, <1>5, <1>6, NoViewIs DEF AssemblyInv

\* So does an answer of the LLM.
LEMMA TextAppends ==
    ASSUME AssemblyInv, TextMessage
    PROVE  AssemblyInv'
<1> DEFINE m == Message("assistant", 0, NoCall, 1, Len(conversation) + 1)
<1>1. Len(conversation) \in Nat  BY DEF AssemblyInv, ConversationInv, Conversation
<1>2. m \in Messages /\ m.text = Len(conversation) + 1 /\ m.role = "assistant"
  BY <1>1 DEF Message, Messages, NoCall
<1>3. /\ conversation' = Append(conversation, m) /\ view' = NoView /\ unanswered = <<>>
      /\ UNCHANGED <<saved, unanswered, checkpoint>>
      /\ Len(conversation) + 1 <= MaxMessages
  BY DEF TextMessage, Append_, Fits
<1> HIDE DEF m
<1>4. Conversation(conversation') /\ Len(conversation') = Len(conversation) + 1
  BY <1>2, <1>3, AppendIs DEF AssemblyInv, ConversationInv
<1>5. ConversationInv'  BY <1>1, <1>3, <1>4 DEF AssemblyInv, ConversationInv
<1>6. SavedInv'  BY <1>1, <1>3, <1>4 DEF AssemblyInv, SavedInv
<1> QED BY <1>3, <1>5, <1>6, NoViewIs DEF AssemblyInv

\* So does a batch of calls, which nothing has answered yet.
LEMMA CallAppends ==
    ASSUME AssemblyInv, NEW n \in Batches, NEW said \in BOOLEAN, CallMessage(n, said)
    PROVE  AssemblyInv'
<1> DEFINE text == IF said THEN Len(conversation) + 1 ELSE 0
           m == Message("assistant", n, NoCall, 1, text)
<1>1. Len(conversation) \in Nat /\ n \in Nat /\ n > 0
  BY AssemblyAssumptions DEF AssemblyInv, ConversationInv, Conversation
<1>2. text \in Nat /\ text \in {0, Len(conversation) + 1}  BY <1>1
<1>3. /\ conversation' = Append(conversation, m) /\ view' = NoView /\ unanswered = <<>>
      /\ unanswered' = [k \in 1..n |-> <<Len(conversation) + 1, k>>]
      /\ UNCHANGED <<saved, checkpoint>>
      /\ Len(conversation) + (n + 1) <= MaxMessages
  BY DEF CallMessage, Append_, Fits
<1> HIDE DEF text
<1>4. m \in Messages /\ m.text = text /\ m.role = "assistant" /\ m.calls = n
  BY <1>1, <1>2 DEF Message, Messages, NoCall
<1> HIDE DEF m
<1>5. /\ Conversation(conversation') /\ Len(conversation') = Len(conversation) + 1
      /\ conversation'[Len(conversation) + 1] = m
  <2>1. Len(conversation) + 1 <= MaxMessages  BY <1>1, <1>3, AssemblyAssumptions
  <2> QED BY <1>2, <1>3, <1>4, <2>1, AppendIs DEF AssemblyInv, ConversationInv
<1>6. OpenAt(conversation')
  <2>1. Calls(conversation'[Len(conversation')])  BY <1>1, <1>4, <1>5 DEF Calls
  <2> QED BY <1>1, <1>5, <2>1 DEF OpenAt
<1>7. unanswered' \in Seq(Nat \X Nat) /\ Len(unanswered') = n
  <2>1. \A k \in 1..n : <<Len(conversation) + 1, k>> \in Nat \X Nat  BY <1>1
  <2> QED BY <1>1, <1>3, <2>1
<1>8. Len(conversation') + Len(unanswered') <= MaxMessages
  BY <1>1, <1>3, <1>5, <1>7
<1>9. ConversationInv'  BY <1>5, <1>6, <1>7, <1>8 DEF ConversationInv
<1>10. SavedInv'  BY <1>1, <1>3, <1>5 DEF AssemblyInv, SavedInv
<1> QED BY <1>3, <1>9, <1>10, NoViewIs DEF AssemblyInv

\* So does a result, of the first call that is open.
LEMMA ToolAppends ==
    ASSUME AssemblyInv, NEW cost \in ToolCosts, ToolMessage(cost)
    PROVE  AssemblyInv'
<1> DEFINE m == Message("tool", 0, Head(unanswered), cost, Len(conversation) + 1)
<1>1. /\ Len(conversation) \in Nat /\ cost \in Nat /\ conversation \in Seq(Messages)
      /\ unanswered \in Seq(Nat \X Nat) /\ unanswered # <<>>
      /\ Len(conversation) + Len(unanswered) <= MaxMessages /\ OpenAt(conversation)
  BY AssemblyAssumptions DEF AssemblyInv, ConversationInv, Conversation, ToolMessage
<1>2. /\ Head(unanswered) \in Nat \X Nat /\ Tail(unanswered) \in Seq(Nat \X Nat)
      /\ Len(Tail(unanswered)) = Len(unanswered) - 1
  BY <1>1, HeadTailProperties
<1>3. m \in Messages /\ m.text = Len(conversation) + 1 /\ m.role = "tool"
  BY <1>1, <1>2 DEF Message, Messages
<1>4. /\ conversation' = Append(conversation, m) /\ view' = NoView
      /\ unanswered' = Tail(unanswered)
      /\ UNCHANGED <<saved, checkpoint>>
  BY DEF ToolMessage, Append_
<1> HIDE DEF m
<1>5. Len(unanswered) \in Nat /\ Len(unanswered) >= 1  BY <1>1
<1>6. Len(conversation) + 1 <= MaxMessages  BY <1>1, <1>5, AssemblyAssumptions
<1>7. /\ Conversation(conversation') /\ Len(conversation') = Len(conversation) + 1
      /\ conversation'[Len(conversation) + 1] = m
  BY <1>1, <1>3, <1>4, <1>6, AppendIs DEF AssemblyInv, ConversationInv
<1>8. \A k \in 1..Len(conversation) : conversation'[k] = conversation[k]
  BY <1>1, <1>3, <1>4, AppendProperties
<1>9. OpenAt(conversation')
  <2>1. PICK j \in 1..Len(conversation) :
          /\ Calls(conversation[j])
          /\ \A k \in (j + 1)..Len(conversation) : conversation[k].role = "tool"
    BY <1>1 DEF OpenAt
  <2>2. j \in 1..Len(conversation') /\ Calls(conversation'[j])  BY <1>1, <1>7, <1>8, <2>1
  <2>3. ASSUME NEW k \in (j + 1)..Len(conversation') PROVE conversation'[k].role = "tool"
    <3>1. CASE k = Len(conversation) + 1  BY <1>3, <1>7, <3>1
    <3>2. CASE k # Len(conversation) + 1
      <4>1. k \in (j + 1)..Len(conversation) /\ k \in 1..Len(conversation)
        <5>1. k \in Nat /\ k >= j + 1 /\ k <= Len(conversation) + 1 /\ j \in Nat /\ j >= 1
          BY <1>1, <1>7
        <5>2. ASSUME NEW a \in Nat, NEW b \in Nat, a <= b + 1, a # b + 1 PROVE a <= b  BY <5>2
        <5>3. k <= Len(conversation)  BY <1>1, <3>2, <5>1, <5>2
        <5> QED BY <1>1, <5>1, <5>3
      <4> QED BY <1>8, <2>1, <4>1
    <3> QED BY <3>1, <3>2
  <2> QED BY <2>2, <2>3 DEF OpenAt
<1>10. Len(conversation') + Len(unanswered') <= MaxMessages
  BY <1>1, <1>2, <1>4, <1>5, <1>7
<1>11. ConversationInv'  BY <1>2, <1>4, <1>7, <1>9, <1>10 DEF ConversationInv
<1>12. SavedInv'  BY <1>1, <1>4, <1>7 DEF AssemblyInv, SavedInv
<1> QED BY <1>4, <1>11, <1>12, NoViewIs DEF AssemblyInv

\* What is saved or lost leaves a conversation of rows, with nothing to answer.
LEMMA SaveKeeps ==
    ASSUME AssemblyInv, SaveMessages
    PROVE  AssemblyInv'
<1>1. Len(conversation) \in Nat  BY DEF AssemblyInv, ConversationInv, Conversation
<1>2. /\ saved' = Len(conversation) /\ unanswered' = <<>> /\ view' = NoView
      /\ UNCHANGED <<conversation, checkpoint>>
  BY DEF SaveMessages
<1>3. ConversationInv'
  <2>1. Len(conversation) <= MaxMessages  BY DEF AssemblyInv, ConversationInv, Conversation
  <2>2. unanswered' \in Seq(Nat \X Nat) /\ Len(unanswered') = 0  BY <1>2
  <2>3. Len(conversation') + Len(unanswered') <= MaxMessages  BY <1>1, <1>2, <2>1, <2>2
  <2> QED BY <1>2, <2>2, <2>3 DEF AssemblyInv, ConversationInv
<1>4. SavedInv'  BY <1>1, <1>2 DEF AssemblyInv, SavedInv
<1> QED BY <1>2, <1>3, <1>4, NoViewIs DEF AssemblyInv

\* A failed run takes its messages along and leaves the checkpoint.
LEMMA LoseKeeps ==
    ASSUME AssemblyInv, LoseMessages
    PROVE  AssemblyInv'
<1>1. Conversation(conversation) /\ saved \in 0..Len(conversation) /\ saved \in Nat
  BY DEF AssemblyInv, ConversationInv, SavedInv
<1>2. /\ conversation' = SubSeq(conversation, 1, saved)
      /\ unanswered' = <<>> /\ view' = NoView
      /\ UNCHANGED <<saved, checkpoint>>
  BY DEF LoseMessages
<1>3. Conversation(conversation') /\ Len(conversation') = saved  BY <1>1, <1>2, PrefixIs
<1>4. ConversationInv'
  <2>1. unanswered' \in Seq(Nat \X Nat) /\ Len(unanswered') = 0  BY <1>2
  <2>2. Len(conversation') <= MaxMessages  BY <1>3 DEF Conversation
  <2>3. Len(conversation') + Len(unanswered') <= MaxMessages  BY <1>1, <1>3, <2>1, <2>2
  <2> QED BY <1>2, <1>3, <2>1, <2>3 DEF ConversationInv
<1>5. SavedInv'  BY <1>1, <1>2, <1>3 DEF AssemblyInv, SavedInv
<1> QED BY <1>2, <1>4, <1>5, NoViewIs DEF AssemblyInv

\* A checkpoint changes neither the conversation nor what was shown of it.
LEMMA CompactKeeps ==
    ASSUME AssemblyInv, CompactContext
    PROVE  AssemblyInv'
  BY DEF CompactContext, AssemblyInv, ConversationInv, SavedInv, CallsKeptTogether

\* What is assembled is of a conversation, the run's or that of the rows.
LEMMA AssembledIs ==
    ASSUME AssemblyInv, NEW room \in Rooms, BuildContext(room) \/ ContextStatus(room)
    PROVE  /\ UNCHANGED <<conversation, saved, unanswered>>
           /\ \E s : /\ Assemble(s, room) /\ Conversation(s)
                    /\ \E n \in 0..Len(conversation) : s = SubSeq(conversation, 1, n)
<1>1. Conversation(conversation) /\ saved \in 0..Len(conversation)
  BY DEF AssemblyInv, ConversationInv, SavedInv
<1>2. SubSeq(conversation, 1, Len(conversation)) = conversation
  BY <1>1 DEF Conversation
<1>3. CASE BuildContext(room)  BY <1>1, <1>2, <1>3 DEF BuildContext, Conversation
<1>4. CASE ContextStatus(room)
  <2>1. Conversation(SubSeq(conversation, 1, saved))  BY <1>1, PrefixIs
  <2> QED BY <1>1, <1>4, <2>1 DEF ContextStatus
<1> QED BY <1>3, <1>4

\* What is shown or reported keeps its calls.
LEMMA BuildKeeps ==
    ASSUME AssemblyInv, NEW room \in Rooms, BuildContext(room) \/ ContextStatus(room)
    PROVE  AssemblyInv'
<1>1. UNCHANGED <<conversation, saved, unanswered>>  BY AssembledIs
<1>2. PICK s : Conversation(s) /\ Assemble(s, room)  BY AssembledIs
<1>3. view'.recent = Recent(s, room)  BY <1>2 DEF Assemble, Recent, NoView
<1>4. CallsKeptTogether'  BY <1>2, <1>3, RecentIs DEF CallsKeptTogether, AllAnswered
<1> QED BY <1>1, <1>4 DEF AssemblyInv, ConversationInv, SavedInv

\* At the start there is no message and no view.
LEMMA AssemblyStarts ==
    ASSUME AInit
    PROVE  AssemblyInv
<1>1. /\ conversation = <<>> /\ saved = 0 /\ unanswered = <<>>
      /\ checkpoint = NoCheckpoint /\ view = NoView
  BY DEF AInit
<1>2. Conversation(conversation)  BY <1>1, AssemblyAssumptions DEF Conversation, AllAnswered
<1>3. ConversationInv  BY <1>1, <1>2, AssemblyAssumptions DEF ConversationInv
<1>4. SavedInv  BY <1>1 DEF SavedInv
<1>5. CallsKeptTogether  BY <1>1 DEF NoView, CallsKeptTogether
<1> QED BY <1>3, <1>4, <1>5 DEF AssemblyInv

\* Whatever happens to the conversation keeps the invariant.
LEMMA AssemblyKept ==
    ASSUME AssemblyInv, AssemblyMove
    PROVE  AssemblyInv'
<1>1. CASE UNCHANGED assemblyVars
  BY <1>1 DEF assemblyVars, AssemblyInv, ConversationInv, SavedInv, CallsKeptTogether
<1> QED BY <1>1, UserAppends, TextAppends, CallAppends, ToolAppends, SaveKeeps, LoseKeeps,
           CompactKeeps, BuildKeeps DEF AssemblyMove

\* Every step of the composition leaves the conversation and its views as they
\* were, or changes them so.
LEMMA AssemblyMoves ==
    ASSUME [Next]_vars
    PROVE  AssemblyMove
<1> USE DEF AssemblyMove
<1>1. CASE RunStep
  BY <1>1 DEF RunStep, StartRun, BeginRun, Retrieve, AssignMemories, RunReturns, RunRaises,
     RefreshSections, EndRun
<1>2. CASE ToolStep
  <2>1. ASSUME NEW tool, NEW file, NEW seen, Looked(tool, file, seen) PROVE AssemblyMove
    BY <2>1 DEF Looked, unchangedByCall
  <2>2. ASSUME NEW tool, NEW file, NEW seen, NEW tree, Wrote(tool, file, seen, tree) PROVE AssemblyMove
    BY <2>2 DEF Wrote, unchangedByCall
  <2>3. ASSUME NEW line, NEW allowed, NEW f, NEW c, RunCommand(line, allowed, f, c) PROVE AssemblyMove
    BY <2>1, <2>2, <2>3 DEF RunCommand
  <2>4. ASSUME NEW p, NEW c, NEW b,
               \/ WriteFileTool(p, c, b) \/ EditFile(p, b, c) \/ ReadFileTool(p)
               \/ SearchCode(p, c) \/ ListFiles \/ GitStatusTool \/ GitDiffTool(p, b)
        PROVE  AssemblyMove
    BY <2>1, <2>2, <2>4 DEF WriteFileTool, EditFile, ReadFileTool, SearchCode, ListFiles,
       GitStatusTool, GitDiffTool
  <2>5. ASSUME NEW b, NEW paths, NEW f, NEW operation, NEW remembers, NEW outcome,
               \/ CreateBranchTool(b) \/ SwitchBranchTool(b) \/ CommitTool(paths)
               \/ LspTool(f, operation) \/ Update(remembers, outcome)
        PROVE  AssemblyMove
    BY <2>5 DEF CreateBranchTool, SwitchBranchTool, CommitTool, LspTool, Update, unchangedByCall
  <2> HIDE DEF AssemblyMove
  <2> QED BY <1>2, <2>3, <2>4, <2>5 DEF ToolStep
<1>3. CASE RevertStep
  BY <1>3 DEF RevertStep, RevertFiles, Forget, ReloadMemories, RevertIndexes, RevertSections, RevertReturns
<1>4. CASE RestStep
  BY <1>4 DEF RestStep, CommitRequest, CommitStep, CommitReturns, IndexSteps, IndexRequest, LspRequest
<1>5. CASE OtherStep
  BY <1>5 DEF OtherStep, ProgramWrites, ProgramStages, ProgramInstalls, Crash
<1>6. CASE AssemblyStep  BY <1>6 DEF AssemblyStep
<1>7. CASE UNCHANGED vars  BY <1>7 DEF vars
<1> QED BY <1>1, <1>2, <1>3, <1>4, <1>5, <1>6, <1>7 DEF Next

\* The invariant of the context holds in every reachable state.
LEMMA AssemblyAlways == Spec => []AssemblyInv
<1>1. Init => AssemblyInv  BY AssemblyStarts DEF Init
<1>2. AssemblyInv /\ [Next]_vars => AssemblyInv'  BY AssemblyMoves, AssemblyKept
<1> QED BY <1>1, <1>2, PTL DEF Spec

\* The LLM is never shown the result of a call without the call, for any rooms,
\* costs and batches, save the last result when it is pruned again.
THEOREM CallsKeptTogetherHolds == Spec => []CallsKeptTogether
<1>1. AssemblyInv => CallsKeptTogether  BY DEF AssemblyInv
<1> QED BY <1>1, AssemblyAlways, PTL


\* A result is no further behind its call than the batch is large, and a
\* conversation does not begin with an assistant.
Together(s) ==
    /\ s # <<>> => s[1].role # "assistant"
    /\ \A i \in 1..Len(s) : s[i].role = "tool" =>
          \E j \in 1..(i - 1), b \in Batches :
             Calls(s[j]) /\ i <= j + b /\ \A k \in (j + 1)..i : s[k].role = "tool"

\* The last batch has n more calls to be answered.
OpenFor(s, n) ==
    \E j \in 1..Len(s), b \in Batches :
       Calls(s[j]) /\ Len(s) + n <= j + b /\ \A k \in (j + 1)..Len(s) : s[k].role = "tool"

BatchInv ==
    /\ Together(conversation)
    /\ unanswered # <<>> => OpenFor(conversation, Len(unanswered))
    /\ OverrunIsOneBatch

\* One more message keeps results near their calls, when there is a call for it.
LEMMA AppendTogether ==
    ASSUME NEW s \in Seq(Messages), Together(s), NEW m \in Messages,
           s = <<>> => m.role = "user", m.role = "tool" => OpenFor(s, 1)
    PROVE  Together(Append(s, m))
<1> DEFINE t == Append(s, m)
<1>1. /\ t \in Seq(Messages) /\ Len(t) = Len(s) + 1 /\ t[Len(s) + 1] = m /\ Len(s) \in Nat
      /\ \A i \in 1..Len(s) : t[i] = s[i]
  BY AppendProperties
<1> HIDE DEF t
<1>2. t[1].role # "assistant"
  <2>1. CASE s = <<>>  BY <1>1, <2>1
  <2>2. CASE s # <<>>  BY <1>1, <2>2 DEF Together
  <2> QED BY <2>1, <2>2
<1>3. ASSUME NEW i \in 1..Len(t), t[i].role = "tool"
      PROVE  \E j \in 1..(i - 1), b \in Batches :
                Calls(t[j]) /\ i <= j + b /\ \A k \in (j + 1)..i : t[k].role = "tool"
  <2>1. CASE i = Len(s) + 1
    <3>1. m.role = "tool"  BY <1>1, <1>3, <2>1
    <3>2. PICK j \in 1..Len(s), b \in Batches :
            Calls(s[j]) /\ Len(s) + 1 <= j + b /\ \A k \in (j + 1)..Len(s) : s[k].role = "tool"
      BY <3>1 DEF OpenFor
    <3>3. ASSUME NEW k \in (j + 1)..i PROVE t[k].role = "tool"
      <4>1. CASE k = i  BY <1>3, <4>1
      <4>2. CASE k # i
        <5>1. k \in (j + 1)..Len(s) /\ k \in 1..Len(s)  BY <1>1, <2>1, <3>2, <4>2
        <5> QED BY <1>1, <3>2, <5>1
      <4> QED BY <4>1, <4>2
    <3>4. j \in 1..(i - 1) /\ t[j] = s[j]  BY <1>1, <2>1
    <3> QED BY <2>1, <3>2, <3>3, <3>4
  <2>2. CASE i # Len(s) + 1
    <3>1. i \in 1..Len(s) /\ s[i].role = "tool"  BY <1>1, <1>3, <2>2
    <3>2. PICK j \in 1..(i - 1), b \in Batches :
            Calls(s[j]) /\ i <= j + b /\ \A k \in (j + 1)..i : s[k].role = "tool"
      BY <3>1 DEF Together
    <3>3. t[j] = s[j] /\ \A k \in (j + 1)..i : t[k] = s[k]  BY <1>1, <3>1, <3>2
    <3> QED BY <3>2, <3>3
  <2> QED BY <2>1, <2>2
<1>4. Together(t)  BY <1>2, <1>3 DEF Together
<1> QED BY <1>4 DEF t

\* So do the first messages of a conversation.
LEMMA PrefixTogether ==
    ASSUME NEW s, Conversation(s), Together(s), NEW n \in 0..Len(s)
    PROVE  Together(SubSeq(s, 1, n))
<1> DEFINE t == SubSeq(s, 1, n)
<1>1. s \in Seq(Messages) /\ Len(s) \in Nat /\ \A i \in 1..n : s[i] \in Messages
  BY DEF Conversation
<1>2. t \in Seq(Messages) /\ Len(t) = n  BY PrefixIs DEF Conversation
<1>3. \A i \in 1..n : t[i] = s[i]
  <2>1. \A i \in 1..(n - 1 + 1) : t[i] = s[1 + i - 1]  BY <1>1, SubSeqProperties
  <2> QED BY <2>1
<1> HIDE DEF t
<1>4. ASSUME NEW i \in 1..n, t[i].role = "tool"
      PROVE  \E j \in 1..(i - 1), b \in Batches :
                Calls(t[j]) /\ i <= j + b /\ \A k \in (j + 1)..i : t[k].role = "tool"
  <2>1. i \in 1..Len(s) /\ s[i].role = "tool"  BY <1>1, <1>3, <1>4
  <2>2. PICK j \in 1..(i - 1), b \in Batches :
          Calls(s[j]) /\ i <= j + b /\ \A k \in (j + 1)..i : s[k].role = "tool"
    BY <2>1 DEF Together
  <2>3. t[j] = s[j] /\ \A k \in (j + 1)..i : t[k] = s[k]  BY <1>3, <2>2
  <2> QED BY <2>2, <2>3
<1>5. t # <<>> => t[1].role # "assistant"
  <2> SUFFICES ASSUME t # <<>> PROVE t[1].role # "assistant"  OBVIOUS
  <2>1. n >= 1 /\ s # <<>>  BY <1>1, <1>2
  <2> QED BY <1>3, <2>1 DEF Together
<1>6. Together(t)  BY <1>2, <1>4, <1>5 DEF Together
<1> QED BY <1>6 DEF t

\* The repair of a tail whose first message is alike no earlier one puts before
\* it what is missing of one batch, and nothing else.
LEMMA RepairAdds ==
    ASSUME NEW s, Conversation(s), Together(s), NEW tail, TailOf(s, tail), ~HasTwin(s, tail)
    PROVE  \/ Len(Repair(s, tail)) <= Len(tail)
           \/ \E b \in Batches : Len(Repair(s, tail)) <= Len(tail) + b
<1>1. s \in Seq(Messages) /\ Len(s) \in Nat /\ tail \in Seq(Messages) /\ Len(tail) \in Nat
  BY DEF Conversation, TailOf
<1>2. CASE tail = <<>>  BY <1>1, <1>2 DEF Repair
<1>3. CASE tail # <<>> /\ s # <<>> /\ tail[1].text = PrunedText
  <2>1. \A i \in 1..Len(s) : ~Alike(s[i], tail[1])
    <3> SUFFICES ASSUME NEW i \in 1..Len(s) PROVE s[i].text # PrunedText
      BY <1>3 DEF Alike
    <3> QED BY <1>1, AssemblyAssumptions DEF Conversation, PrunedText
  <2>2. Position(s, tail[1]) = Len(s) + 1
    <3> DEFINE last == {Len(s) + 1}
    <3>1. {i \in 1..Len(s) : Alike(s[i], tail[1])} \cup last = last  BY <2>1
    <3>2. last \in SUBSET (0..(Len(s) + 1)) /\ last # {} /\ Len(s) + 1 \in Nat  BY <1>1
    <3>3. Min(last) \in last  BY <3>2, MinMax
    <3> QED BY <3>1, <3>3 DEF Position
  <2>3. Start(s, tail) = 1  BY <1>1, <2>2 DEF Start
  <2>4. CallOf(s, 1) = 1
    <3>1. Len(s) >= 1  BY <1>1, <1>3
    <3>2. CallOf(s, 1) \in 1..Len(s) /\ s[1].role # "tool"
      <4>1. s[1].role # "tool"
        <5> SUFFICES ASSUME s[1].role = "tool" PROVE FALSE  OBVIOUS
        <5>1. \E j \in 1..(1 - 1) : TRUE  BY <1>1, <3>1 DEF Together
        <5> QED BY <5>1
      <4> QED BY <1>1, <3>1, <4>1, CallOfIs
    <3> QED BY <1>1, <3>1, <3>2, CallOfIs
  <2>5. Repair(s, tail) = tail  BY <1>3, <2>3, <2>4 DEF Repair, Together
  <2> QED BY <1>1, <2>5
<1>4. ASSUME NEW p \in 1..Len(s), Len(tail) = Len(s) - p + 1, tail[1] = s[p], tail # <<>>
      PROVE  \/ Len(Repair(s, tail)) <= Len(tail)
             \/ \E b \in Batches : Len(Repair(s, tail)) <= Len(tail) + b
  <2> DEFINE alike == {i \in 1..Len(s) : Alike(s[i], tail[1])} \cup {Len(s) + 1}
             i == CallOf(s, p)
  <2>1. Position(s, tail[1]) = p
    <3>1. alike \in SUBSET (0..(Len(s) + 1)) /\ alike # {} /\ Len(s) + 1 \in Nat  BY <1>1
    <3>2. p \in alike  BY <1>4 DEF Alike
    <3> HIDE DEF alike
    <3>3. Min(alike) \in alike /\ Min(alike) <= p  BY <3>1, <3>2, MinMax
    <3>4. Position(s, tail[1]) = Min(alike)  BY DEF Position, alike
    <3>5. ~(Position(s, tail[1]) <= Len(s) - Len(tail))  BY <1>4 DEF HasTwin
    <3>6. Position(s, tail[1]) \in Nat /\ Position(s, tail[1]) <= p
      <4>1. Min(alike) \in 0..(Len(s) + 1)  BY <3>1, <3>3
      <4>2. Min(alike) \in Nat  BY <1>1, <4>1
      <4> QED BY <3>3, <3>4, <4>2
    <3>7. Len(s) - Len(tail) = p - 1  BY <1>1, <1>4
    <3>8. ~(Position(s, tail[1]) <= p - 1)  BY <3>5, <3>7
    <3>9. p \in Nat  BY <1>1
    <3> HIDE DEF Position
    <3> QED BY <3>6, <3>8, <3>9
  <2>2. Start(s, tail) = p  BY <1>1, <2>1 DEF Start
  <2>3. i \in 1..Len(s) /\ (s[p].role # "tool" => i = p)  BY CallOfIs
  <2>4. Repair(s, tail) \in {tail, SubSeq(s, i, Len(s))}  BY <1>4, <2>2 DEF Repair
  <2>5. Len(SubSeq(s, i, Len(s))) = Len(s) - i + 1
    <3> HIDE DEF i
    <3>1. \A k \in i..Len(s) : s[k] \in Messages  BY <1>1, <2>3
    <3>2. Len(SubSeq(s, i, Len(s))) = IF i <= Len(s) THEN Len(s) - i + 1 ELSE 0
      BY <1>1, <2>3, <3>1, SubSeqProperties
    <3> QED BY <1>1, <2>3, <3>2
  <2>6. CASE s[p].role # "tool"
    <3>1. i = p  BY <2>3, <2>6
    <3> QED BY <1>1, <1>4, <2>4, <2>5, <3>1
  <2>7. CASE s[p].role = "tool"
    <3>1. PICK j \in 1..(p - 1), b \in Batches :
            Calls(s[j]) /\ p <= j + b /\ \A k \in (j + 1)..p : s[k].role = "tool"
      BY <2>7 DEF Together
    <3>2. i >= j
      <4> DEFINE back == {1} \cup {k \in 1..p : s[k].role # "tool"}
      <4>1. back \in SUBSET (0..p) /\ j \in back /\ p \in Nat  BY <1>1, <3>1 DEF Calls
      <4>2. i = Max(back)  BY DEF CallOf
      <4> HIDE DEF back, i
      <4>3. j <= Max(back) /\ Max(back) \in back  BY <4>1, MinMax
      <4> QED BY <4>1, <4>2, <4>3
    <3>3. b \in Nat /\ i \in Nat /\ p \in Nat /\ j \in Nat  BY <2>3, <3>1, AssemblyAssumptions
    <3> HIDE DEF i
    <3>4. Len(s) - i + 1 <= Len(tail) + b  BY <1>1, <1>4, <3>1, <3>2, <3>3
    <3>5. Len(Repair(s, tail)) <= Len(tail) + b  BY <1>1, <2>4, <2>5, <3>3, <3>4
    <3> QED BY <3>5
  <2> QED BY <2>6, <2>7
<1> QED BY <1>1, <1>2, <1>3, <1>4 DEF TailOf

\* A view without messages shows no more than fits.
LEMMA NoViewFits ==
    ASSUME view' = NoView
    PROVE  OverrunIsOneBatch'
  BY DEF NoView, OverrunIsOneBatch

\* Every step keeps results near their calls, and the view to one batch more.
LEMMA BatchKept ==
    ASSUME AssemblyInv, BatchInv, AssemblyMove
    PROVE  BatchInv'
<1>1. /\ Conversation(conversation) /\ conversation \in Seq(Messages) /\ Len(conversation) \in Nat
      /\ unanswered \in Seq(Nat \X Nat) /\ saved \in 0..Len(conversation)
      /\ Together(conversation)
  BY DEF AssemblyInv, ConversationInv, SavedInv, Conversation, BatchInv
<1>2. ASSUME NEW m \in Messages, conversation = <<>> => m.role = "user",
             m.role = "tool" => OpenFor(conversation, 1), Append_(m)
      PROVE  Together(conversation') /\ OverrunIsOneBatch'
  BY <1>1, <1>2, AppendTogether, NoViewFits DEF Append_
<1>3. CASE UNCHANGED assemblyVars
  BY <1>3 DEF assemblyVars, BatchInv, OverrunIsOneBatch
<1>4. CASE UserMessage
  <2>1. Message("user", 0, NoCall, 1, Len(conversation) + 1) \in Messages
        /\ Message("user", 0, NoCall, 1, Len(conversation) + 1).role = "user"
    BY <1>1 DEF Message, Messages, NoCall
  <2> QED BY <1>2, <1>4, <2>1 DEF UserMessage, BatchInv
<1>5. CASE TextMessage
  <2>1. Message("assistant", 0, NoCall, 1, Len(conversation) + 1) \in Messages
        /\ Message("assistant", 0, NoCall, 1, Len(conversation) + 1).role = "assistant"
    BY <1>1 DEF Message, Messages, NoCall
  <2> QED BY <1>2, <1>5, <2>1 DEF TextMessage, BatchInv
<1>6. ASSUME NEW n \in Batches, NEW said \in BOOLEAN, CallMessage(n, said)
      PROVE  BatchInv'
  <2> DEFINE m == Message("assistant", n, NoCall, 1, IF said THEN Len(conversation) + 1 ELSE 0)
  <2>1. n \in Nat /\ n > 0  BY AssemblyAssumptions
  <2>2. m \in Messages /\ m.role = "assistant" /\ m.calls = n
    <3>1. (IF said THEN Len(conversation) + 1 ELSE 0) \in Nat  BY <1>1
    <3> QED BY <2>1, <3>1 DEF Message, Messages, NoCall
  <2>3. /\ Append_(m) /\ conversation # <<>>
        /\ unanswered' = [k \in 1..n |-> <<Len(conversation) + 1, k>>]
    BY <1>6 DEF CallMessage
  <2> HIDE DEF m
  <2>4. /\ Len(conversation') = Len(conversation) + 1 /\ conversation'[Len(conversation) + 1] = m
    BY <1>1, <2>2, <2>3, AppendProperties DEF Append_
  <2>5. Len(unanswered') = n
    <3>1. unanswered' \in Seq(Nat \X Nat) /\ Len(unanswered') = n  BY <1>1, <2>1, <2>3
    <3> QED BY <3>1
  <2>6. OpenFor(conversation', n)
    <3>1. /\ Len(conversation') \in 1..Len(conversation') /\ Calls(conversation'[Len(conversation')])
          /\ (Len(conversation') + 1)..Len(conversation') = {}
      BY <1>1, <2>1, <2>2, <2>4 DEF Calls
    <3>2. /\ Len(conversation') + n <= Len(conversation') + n
          /\ \A k \in (Len(conversation') + 1)..Len(conversation') : conversation'[k].role = "tool"
      BY <1>1, <2>1, <2>4, <3>1
    <3> QED BY <3>1, <3>2 DEF OpenFor
  <2> QED BY <1>2, <2>2, <2>3, <2>5, <2>6 DEF BatchInv
<1>7. ASSUME NEW cost \in ToolCosts, ToolMessage(cost)
      PROVE  BatchInv'
  <2> DEFINE m == Message("tool", 0, Head(unanswered), cost, Len(conversation) + 1)
  <2>1. /\ unanswered # <<>> /\ Append_(m) /\ unanswered' = Tail(unanswered)
    BY <1>7 DEF ToolMessage
  <2>2. /\ Head(unanswered) \in Nat \X Nat /\ Len(unanswered') = Len(unanswered) - 1
        /\ Len(unanswered) \in Nat /\ Len(unanswered) >= 1
    BY <1>1, <2>1, HeadTailProperties
  <2>3. m \in Messages /\ m.role = "tool"
    BY <1>1, <2>2, AssemblyAssumptions DEF Message, Messages
  <2> HIDE DEF m
  <2>4. PICK j \in 1..Len(conversation), b \in Batches :
          /\ Calls(conversation[j]) /\ Len(conversation) + Len(unanswered) <= j + b
          /\ \A k \in (j + 1)..Len(conversation) : conversation[k].role = "tool"
    BY <2>1 DEF BatchInv, OpenFor
  <2>5. j \in Nat /\ b \in Nat  BY <1>1, <2>4, AssemblyAssumptions
  <2>6. OpenFor(conversation, 1)
    <3>1. Len(conversation) + 1 <= j + b  BY <1>1, <2>2, <2>4, <2>5
    <3> QED BY <2>4, <3>1 DEF OpenFor
  <2>7. /\ Len(conversation') = Len(conversation) + 1 /\ conversation'[Len(conversation) + 1] = m
        /\ \A k \in 1..Len(conversation) : conversation'[k] = conversation[k]
    BY <1>1, <2>1, <2>3, AppendProperties DEF Append_
  <2>8. OpenFor(conversation', Len(unanswered'))
    <3>1. j \in 1..Len(conversation') /\ Calls(conversation'[j])  BY <1>1, <2>4, <2>7
    <3>2. Len(conversation') + Len(unanswered') <= j + b  BY <1>1, <2>2, <2>4, <2>5, <2>7
    <3>3. ASSUME NEW k \in (j + 1)..Len(conversation') PROVE conversation'[k].role = "tool"
      <4>1. CASE k = Len(conversation) + 1  BY <2>3, <2>7, <4>1
      <4>2. CASE k # Len(conversation) + 1
        <5>1. k \in (j + 1)..Len(conversation) /\ k \in 1..Len(conversation)
          BY <1>1, <2>5, <2>7, <4>2
        <5> QED BY <2>4, <2>7, <5>1
      <4> QED BY <4>1, <4>2
    <3> QED BY <3>1, <3>2, <3>3 DEF OpenFor
  <2>9. conversation # <<>>  BY <1>1, <2>4
  <2> QED BY <1>2, <2>1, <2>3, <2>6, <2>8, <2>9 DEF BatchInv
<1>8. CASE SaveMessages
  BY <1>8, NoViewFits DEF SaveMessages, BatchInv
<1>9. CASE LoseMessages
  BY <1>1, <1>9, PrefixTogether, NoViewFits DEF LoseMessages, BatchInv
<1>10. CASE CompactContext
  BY <1>10 DEF CompactContext, BatchInv, OverrunIsOneBatch
<1>11. ASSUME NEW room \in Rooms, BuildContext(room) \/ ContextStatus(room)
       PROVE  BatchInv'
  <2>1. UNCHANGED <<conversation, saved, unanswered>>  BY <1>11, AssembledIs
  <2>2. PICK s : /\ Assemble(s, room) /\ Conversation(s)
                 /\ \E n \in 0..Len(conversation) : s = SubSeq(conversation, 1, n)
    BY <1>11, AssembledIs
  <2>3. Together(s)  BY <1>1, <2>2, PrefixTogether
  <2>4. OverrunIsOneBatch'
    <3>1. CASE Cost(s) <= room  BY <2>2, <3>1 DEF Assemble, NoView, OverrunIsOneBatch
    <3>2. CASE ~(Cost(s) <= room)
      <4>1. view' = [recent |-> Repair(s, Tail_(s, room)), compacted |-> TRUE,
                     fit |-> Len(Tail_(s, room)), twin |-> HasTwin(s, Tail_(s, room))]
        BY <2>2, <3>2 DEF Assemble
      <4>2. TailOf(s, Tail_(s, room))  BY <2>2, TailIs
      <4>3. ~HasTwin(s, Tail_(s, room)) =>
              \/ Len(Repair(s, Tail_(s, room))) <= Len(Tail_(s, room))
              \/ \E b \in Batches : Len(Repair(s, Tail_(s, room))) <= Len(Tail_(s, room)) + b
        BY <2>2, <2>3, <4>2, RepairAdds
      <4> QED BY <4>1, <4>3 DEF OverrunIsOneBatch
    <3> QED BY <3>1, <3>2
  <2> QED BY <2>1, <2>3, <2>4 DEF BatchInv
<1> QED BY <1>3, <1>4, <1>5, <1>6, <1>7, <1>8, <1>9, <1>10, <1>11 DEF AssemblyMove

\* A compacted view shows at most one batch of calls more than the budget has
\* room for, for any rooms, costs, batches and conversations, unless the first
\* message of the tail has an earlier twin.
THEOREM OverrunIsOneBatchHolds == Spec => []OverrunIsOneBatch
<1>1. Init => BatchInv
  BY DEF Init, AInit, NoView, BatchInv, Together, OverrunIsOneBatch
<1>2. AssemblyInv /\ BatchInv /\ [Next]_vars => BatchInv'  BY AssemblyMoves, BatchKept
<1>3. BatchInv => OverrunIsOneBatch  BY DEF BatchInv
<1> QED BY <1>1, <1>2, <1>3, AssemblyAlways, PTL DEF Spec

-----------------------------------------------------------------------------
(* What a revert makes the session forget.                                 *)

RequestStages == {"none", "forget", "reload", "sections", "index", "again"}

\* A memory of the files that are reverted was added since the revert began:
\* of those stored from the first invalidation on, of those in memory once they
\* were loaded again.
MemoryInv ==
    /\ request = [at |-> request.at, paths |-> request.paths] /\ request.at \in RequestStages
    /\ request.at # "none" => settled = {}
    /\ request.at \in {"reload", "sections", "index", "again"} =>
          \A m \in stored : m[1] \in request.paths => m \in since
    /\ request.at \in {"sections", "index", "again"} =>
          \A m \in memories : m[1] \in request.paths => m \in since
    /\ \A p \in settled : Forgotten(p)

\* What a step of the composition does to the memories and to the revert.
MemoryMove ==
    \/ /\ UNCHANGED <<request, settled>> /\ since \subseteq since'
       /\ stored' \subseteq stored \cup since' /\ memories' \subseteq memories \cup stored \cup since'
    \/ settled' = {} /\ request' = NoRequest
    \/ settled' = {} /\ \E paths : request' = [at |-> "forget", paths |-> paths]
    \/ Forget \/ ReloadMemories \/ RevertIndexes
    \/ \E outcome : RevertSections(outcome)
    \/ \E raised : RevertReturns(raised)

\* Every step of the composition is of one of these forms.
LEMMA MemoryMoves ==
    ASSUME [Next]_vars
    PROVE  MemoryMove
<1> USE DEF MemoryMove, knowledge, control, history, restOfSession, Disturbed
<1>1. CASE RunStep
  <2>1. ASSUME NEW c, NEW remembers, EndRun(c, remembers) PROVE MemoryMove
    <3>1. /\ since' = since \cup (stored' \ stored)
          /\ UNCHANGED <<memories, request, settled>>
      BY <2>1 DEF EndRun
    <3> QED BY <3>1
  <2>2. CASE AssignMemories
    <3>1. /\ memories' = listed /\ since' = since \cup (listed \ stored)
          /\ UNCHANGED <<stored, request, settled>>
      BY <2>2 DEF AssignMemories
    <3> QED BY <3>1
  <2>3. ASSUME NEW outcome, NEW found,
               \/ StartRun \/ BeginRun \/ Retrieve(found) \/ RunReturns \/ RunRaises
               \/ RefreshSections(outcome)
        PROVE  MemoryMove
    BY <2>3 DEF StartRun, BeginRun, Retrieve, RunReturns, RunRaises, RefreshSections
  <2> HIDE DEF MemoryMove
  <2> QED BY <1>1, <2>1, <2>2, <2>3 DEF RunStep
<1>2. CASE ToolStep
  <2>1. ASSUME NEW tool, NEW file, NEW seen, Looked(tool, file, seen) PROVE MemoryMove
    BY <2>1 DEF Looked, unchangedByCall
  <2>2. ASSUME NEW tool, NEW file, NEW seen, NEW tree, Wrote(tool, file, seen, tree) PROVE MemoryMove
    BY <2>2 DEF Wrote, unchangedByCall
  <2>3. ASSUME NEW line, NEW allowed, NEW f, NEW c, RunCommand(line, allowed, f, c) PROVE MemoryMove
    BY <2>1, <2>2, <2>3 DEF RunCommand
  <2>4. ASSUME NEW p, NEW c, NEW b,
               \/ WriteFileTool(p, c, b) \/ EditFile(p, b, c) \/ ReadFileTool(p)
               \/ SearchCode(p, c) \/ ListFiles \/ GitStatusTool \/ GitDiffTool(p, b)
        PROVE  MemoryMove
    BY <2>1, <2>2, <2>4 DEF WriteFileTool, EditFile, ReadFileTool, SearchCode, ListFiles,
       GitStatusTool, GitDiffTool
  <2>5. ASSUME NEW b, NEW paths, NEW f, NEW operation,
               \/ CreateBranchTool(b) \/ SwitchBranchTool(b) \/ CommitTool(paths)
               \/ LspTool(f, operation)
        PROVE  MemoryMove
    BY <2>5 DEF CreateBranchTool, SwitchBranchTool, CommitTool, LspTool, unchangedByCall
  <2>6. ASSUME NEW remembers, NEW outcome, Update(remembers, outcome) PROVE MemoryMove
    <3>1. PICK new : /\ memories' = memories \cup new /\ stored' = stored \cup new
                     /\ since' = since \cup new /\ UNCHANGED <<request, settled>>
      BY <2>6 DEF Update
    <3> QED BY <3>1
  <2> HIDE DEF MemoryMove
  <2> QED BY <1>2, <2>3, <2>4, <2>5, <2>6 DEF ToolStep
<1>3. CASE RevertStep
  <2>1. ASSUME NEW to, NEW ok, RevertFiles(to, ok) PROVE MemoryMove
    BY <2>1 DEF RevertFiles
  <2> HIDE DEF MemoryMove
  <2>2. CASE Forget \/ ReloadMemories \/ RevertIndexes  BY <2>2 DEF MemoryMove
  <2>3. ASSUME NEW outcome, RevertSections(outcome) PROVE MemoryMove  BY <2>3 DEF MemoryMove
  <2>4. ASSUME NEW raised, RevertReturns(raised) PROVE MemoryMove  BY <2>4 DEF MemoryMove
  <2> QED BY <1>3, <2>1, <2>2, <2>3, <2>4 DEF RevertStep
<1>4. CASE RestStep
  BY <1>4 DEF RestStep, CommitRequest, CommitStep, CommitReturns, IndexSteps, IndexRequest, LspRequest
<1>5. CASE OtherStep
  BY <1>5 DEF OtherStep, ProgramWrites, ProgramStages, ProgramInstalls, Crash
<1>6. CASE AssemblyStep  BY <1>6 DEF AssemblyStep
<1>7. CASE UNCHANGED vars  BY <1>7 DEF vars
<1> QED BY <1>1, <1>2, <1>3, <1>4, <1>5, <1>6, <1>7 DEF Next

\* Each of them keeps what is known of the memories.
LEMMA MemoryKept ==
    ASSUME MemoryInv, MemoryMove
    PROVE  MemoryInv'
<1>1. CASE /\ UNCHANGED <<request, settled>> /\ since \subseteq since'
           /\ stored' \subseteq stored \cup since' /\ memories' \subseteq memories \cup stored \cup since'
  BY <1>1 DEF MemoryInv, Forgotten
<1>2. CASE settled' = {} /\ request' = NoRequest
  BY <1>2 DEF MemoryInv, NoRequest, RequestStages
<1>3. CASE settled' = {} /\ \E paths : request' = [at |-> "forget", paths |-> paths]
  BY <1>3 DEF MemoryInv, RequestStages
<1>4. CASE Forget
  <2>1. /\ request.at = "forget" /\ request'.at = "reload" /\ request'.paths = request.paths
        /\ request' = [at |-> request'.at, paths |-> request'.paths]
        /\ stored' = Kept(request.paths) /\ UNCHANGED <<memories, settled, since>>
    BY <1>4 DEF Forget, MemoryInv, history
  <2>2. settled' = {} /\ \A m \in stored' : m[1] \notin request.paths
    BY <2>1 DEF MemoryInv, Kept
  <2> QED BY <2>1, <2>2 DEF MemoryInv, RequestStages
<1>5. CASE ReloadMemories
  <2>1. /\ request.at = "reload" /\ request'.at = "sections" /\ request'.paths = request.paths
        /\ request' = [at |-> request'.at, paths |-> request'.paths]
        /\ memories' = stored /\ UNCHANGED <<stored, settled, since>>
    BY <1>5 DEF ReloadMemories, ListMemories, MemoryInv, history
  <2> QED BY <2>1 DEF MemoryInv, RequestStages
<1>6. CASE RevertIndexes
  <2>1. /\ request.at = "index" /\ request'.at = "again" /\ request'.paths = request.paths
        /\ request' = [at |-> request'.at, paths |-> request'.paths]
        /\ UNCHANGED <<memories, stored, settled, since>>
    BY <1>6 DEF RevertIndexes, MemoryInv, history, knowledge
  <2> QED BY <2>1 DEF MemoryInv, RequestStages
<1>7. ASSUME NEW outcome, RevertSections(outcome) PROVE MemoryInv'
  <2>1. /\ request.at = "sections" /\ UNCHANGED <<memories, stored, settled, since>>
        /\ \/ request' = NoRequest
           \/ /\ request'.at = "index" /\ request'.paths = request.paths
              /\ request' = [at |-> request'.at, paths |-> request'.paths]
    BY <1>7 DEF RevertSections, MemoryInv, history
  <2> QED BY <2>1 DEF MemoryInv, RequestStages, NoRequest
<1>8. ASSUME NEW raised, RevertReturns(raised) PROVE MemoryInv'
  <2>1. /\ request.at = "again" /\ request' = NoRequest /\ settled' = request.paths
        /\ stored' \subseteq stored /\ UNCHANGED <<memories, since>>
    BY <1>8 DEF RevertReturns, Kept
  <2> QED BY <2>1 DEF MemoryInv, RequestStages, NoRequest, Forgotten
<1> QED BY <1>1, <1>2, <1>3, <1>4, <1>5, <1>6, <1>7, <1>8 DEF MemoryMove

\* An indexer works on what the file is, while nobody writes.
FreshJob(j) ==
    /\ j.at \in {"read", "chunks"} => j.seen = files[j.file] /\ files[j.file] # Absent
    /\ j.at \in {"gone", "row"} => files[j.file] = Absent

JobsFresh == \A w \in Indexers : FreshJob(jobs[w])

\* The row of a file that is indexed at all is that of its content, or an
\* indexer that will not give up has it still to do.
Wanted(p) == p \in Scan /\ files[p] \notin TooLarge \cup Binary

ToDo(j, p) == j.at # "none" /\ ~j.orphan /\ (p \in j.todo \/ (j.file = p /\ j.at = "read"))

Reindexed(p) == Wanted(p) => docs[p] = files[p] \/ \E w \in Indexers : ToDo(jobs[w], p)

\* A step of one indexer.
LEMMA JobMoves ==
    ASSUME JobsFresh, files' = files, NEW w \in Indexers,
           \A v \in Indexers \ {w} : jobs'[v] = jobs[v],
           FreshJob(jobs'[w]),
           \A p : Wanted(p) /\ (docs[p] = files[p] \/ ToDo(jobs[w], p))
                     => docs'[p] = files[p] \/ ToDo(jobs'[w], p)
    PROVE  JobsFresh' /\ \A p : Reindexed(p) => Reindexed(p)'
<1>1. \A v \in Indexers : FreshJob(jobs'[v])  BY DEF JobsFresh
<1>2. JobsFresh'  BY <1>1 DEF JobsFresh, FreshJob
<1>3. ASSUME NEW p, Reindexed(p), Wanted(p)
      PROVE  docs'[p] = files[p] \/ \E v \in Indexers : ToDo(jobs'[v], p)
  <2>1. CASE docs[p] = files[p] \/ ToDo(jobs[w], p)  BY <1>3, <2>1
  <2>2. ASSUME NEW v \in Indexers \ {w}, ToDo(jobs[v], p) PROVE ToDo(jobs'[v], p)  BY <2>2
  <2> QED BY <1>3, <2>1, <2>2 DEF Reindexed
<1>4. \A p : Wanted(p)' <=> Wanted(p)  BY DEF Wanted, Scan, Present
<1> QED BY <1>2, <1>3, <1>4 DEF Reindexed, ToDo

\* A step of an indexer, while nobody writes.
LEMMA StepKeepsFresh ==
    ASSUME IndexInv, JobsFresh, files' = files, NEW w \in Indexers, IndexStep(w)
    PROVE  JobsFresh' /\ \A p : Reindexed(p) => Reindexed(p)'
<1>0. JobShape(jobs[w]) /\ FreshJob(jobs[w])  BY DEF IndexInv, JobTypes, JobsFresh
<1>1. ASSUME NEW f \in jobs[w].todo, ReadFile(w, f)
      PROVE  JobsFresh' /\ \A p : Reindexed(p) => Reindexed(p)'
  <2> DEFINE rest == [jobs[w] EXCEPT !.todo = @ \ {f}]
  <2>1. /\ jobs'[w] = IF f \notin Indexable \/ files[f] \in TooLarge \cup Binary THEN rest
                      ELSE IF files[f] = Absent THEN [rest EXCEPT !.at = "gone", !.file = f]
                      ELSE [rest EXCEPT !.at = "read", !.file = f, !.seen = files[f]]
        /\ \A v \in Indexers \ {w} : jobs'[v] = jobs[v]
        /\ docs' = docs /\ jobs[w].at = "next"
    BY <1>1 DEF ReadFile, IndexInv, JobTypes
  <2>2. JobShape(rest) /\ rest.at = "next" /\ rest.todo = jobs[w].todo \ {f} /\ ~rest.orphan
    BY <1>0, <2>1 DEF JobShape
  <2> HIDE DEF rest
  <2>3. FreshJob(jobs'[w])  BY <2>1, <2>2 DEF FreshJob, JobShape
  <2>4. ASSUME NEW p, Wanted(p), docs[p] = files[p] \/ ToDo(jobs[w], p)
        PROVE  docs'[p] = files[p] \/ ToDo(jobs'[w], p)
    <3>1. CASE docs[p] = files[p]  BY <2>1, <3>1
    <3>2. CASE p = f
      <4>1. jobs'[w] = [rest EXCEPT !.at = "read", !.file = f, !.seen = files[f]]
        BY <2>1, <2>4, <3>2 DEF Wanted, Scan, Present
      <4>2. jobs'[w].at = "read" /\ jobs'[w].file = p /\ ~jobs'[w].orphan
        BY <2>2, <3>2, <4>1 DEF JobShape
      <4> QED BY <4>2 DEF ToDo
    <3>3. CASE p # f /\ ToDo(jobs[w], p)
      <4>1. p \in jobs[w].todo \ {f}  BY <2>1, <3>3 DEF ToDo
      <4>2. p \in jobs'[w].todo /\ jobs'[w].at # "none" /\ ~jobs'[w].orphan
        BY <2>1, <2>2, <4>1 DEF JobShape
      <4> QED BY <4>2 DEF ToDo
    <3> QED BY <2>4, <3>1, <3>2, <3>3
  <2> QED BY <2>1, <2>3, <2>4, JobMoves
<1>2. CASE UpsertDocument(w)
  <2> DEFINE f == jobs[w].file
  <2>1. /\ jobs[w].at = "read" /\ f \in Files /\ jobs[w].seen = files[f] /\ files[f] # Absent
        /\ docs' = [docs EXCEPT ![f] = files[f]]
        /\ jobs' = [jobs EXCEPT ![w].at = IF docs[f] = jobs[w].seen THEN "next" ELSE "chunks"]
    BY <1>0, <1>2 DEF UpsertDocument, JobShape, FreshJob
  <2>2. /\ \A v \in Indexers \ {w} : jobs'[v] = jobs[v]
        /\ jobs'[w] = [jobs[w] EXCEPT !.at = IF docs[f] = jobs[w].seen THEN "next" ELSE "chunks"]
    BY <2>1 DEF IndexInv, JobTypes
  <2>3. /\ jobs'[w].at \in {"next", "chunks"} /\ jobs'[w].todo = jobs[w].todo
        /\ jobs'[w].file = f /\ jobs'[w].seen = jobs[w].seen /\ jobs'[w].orphan = jobs[w].orphan
    BY <1>0, <2>2 DEF JobShape
  <2>4. docs'[f] = files[f] /\ \A p : p \in Files \ {f} => docs'[p] = docs[p]
    BY <2>1 DEF IndexInv, JobTypes
  <2> HIDE DEF f
  <2>5. FreshJob(jobs'[w])  BY <2>1, <2>3 DEF FreshJob
  <2>6. ASSUME NEW p, Wanted(p), docs[p] = files[p] \/ ToDo(jobs[w], p)
        PROVE  docs'[p] = files[p] \/ ToDo(jobs'[w], p)
    <3>1. p \in Files  BY <2>6 DEF Wanted, Scan, Present
    <3> QED BY <2>3, <2>4, <2>6, <3>1 DEF ToDo, f
  <2> QED BY <2>2, <2>5, <2>6, JobMoves
<1>3. CASE ReplaceChunks(w)
  <2>1. jobs[w].at = "chunks" /\ docs' = docs  BY <1>3 DEF ReplaceChunks
  <2>2. CASE jobs[w].orphan
    <3>1. jobs' = [jobs EXCEPT ![w] = NoJob]  BY <1>3, <2>2 DEF ReplaceChunks
    <3>2. jobs'[w].at = "none" /\ \A v \in Indexers \ {w} : jobs'[v] = jobs[v]
      BY <3>1 DEF IndexInv, JobTypes, NoJob
    <3>3. FreshJob(jobs'[w])  BY <3>2 DEF FreshJob
    <3>4. \A p : ~ToDo(jobs[w], p)  BY <2>2 DEF ToDo
    <3> QED BY <2>1, <3>2, <3>3, <3>4, JobMoves
  <2>3. CASE ~jobs[w].orphan
    <3>1. jobs' = [jobs EXCEPT ![w].at = "next"]  BY <1>3, <2>3 DEF ReplaceChunks
    <3>2. /\ jobs'[w] = [jobs[w] EXCEPT !.at = "next"]
          /\ \A v \in Indexers \ {w} : jobs'[v] = jobs[v]
      BY <3>1 DEF IndexInv, JobTypes
    <3>3. jobs'[w].at = "next" /\ jobs'[w].todo = jobs[w].todo /\ jobs'[w].orphan = jobs[w].orphan
      BY <1>0, <3>2 DEF JobShape
    <3>4. FreshJob(jobs'[w])  BY <3>3 DEF FreshJob
    <3>5. \A p : ToDo(jobs[w], p) => ToDo(jobs'[w], p)  BY <2>1, <3>3 DEF ToDo
    <3> QED BY <2>1, <3>2, <3>4, <3>5, JobMoves
  <2> QED BY <2>2, <2>3
<1>4. CASE DeleteChunks(w)
  <2>1. jobs[w].at = "gone" /\ docs' = docs /\ jobs' = [jobs EXCEPT ![w].at = "row"]
    BY <1>4 DEF DeleteChunks
  <2>2. /\ jobs'[w] = [jobs[w] EXCEPT !.at = "row"]
        /\ \A v \in Indexers \ {w} : jobs'[v] = jobs[v]
    BY <2>1 DEF IndexInv, JobTypes
  <2>3. /\ jobs'[w].at = "row" /\ jobs'[w].todo = jobs[w].todo /\ jobs'[w].file = jobs[w].file
        /\ jobs'[w].orphan = jobs[w].orphan
    BY <1>0, <2>2 DEF JobShape
  <2>4. FreshJob(jobs'[w])  BY <1>0, <2>1, <2>3 DEF FreshJob
  <2>5. \A p : ToDo(jobs[w], p) => ToDo(jobs'[w], p)  BY <2>1, <2>3 DEF ToDo
  <2> QED BY <2>1, <2>2, <2>4, <2>5, JobMoves
<1>5. CASE DeleteDocument(w)
  <2> DEFINE f == jobs[w].file
  <2>1. /\ jobs[w].at = "row" /\ f \in Files /\ files[f] = Absent
        /\ docs' = [docs EXCEPT ![f] = Unknown]
        /\ jobs' = [Orphaned({f}) EXCEPT ![w].at = "next"]
    BY <1>0, <1>5 DEF DeleteDocument, JobShape, FreshJob
  <2>2. ASSUME NEW v \in Indexers PROVE Orphaned({f})[v] = jobs[v]
    <3>1. ~(jobs[v].at = "chunks" /\ jobs[v].file \in {f})  BY <2>1 DEF JobsFresh, FreshJob
    <3> QED BY <3>1 DEF Orphaned
  <2>3. /\ jobs'[w] = [jobs[w] EXCEPT !.at = "next"]
        /\ \A v \in Indexers \ {w} : jobs'[v] = jobs[v]
    <3>1. jobs'[w] = [Orphaned({f})[w] EXCEPT !.at = "next"]  BY <2>1 DEF Orphaned
    <3>2. \A v \in Indexers \ {w} : jobs'[v] = Orphaned({f})[v]  BY <2>1 DEF Orphaned
    <3> QED BY <2>2, <3>1, <3>2
  <2>4. jobs'[w].at = "next" /\ jobs'[w].todo = jobs[w].todo /\ jobs'[w].orphan = jobs[w].orphan
    BY <1>0, <2>3 DEF JobShape
  <2>5. FreshJob(jobs'[w])  BY <2>4 DEF FreshJob
  <2>6. ASSUME NEW p, Wanted(p), docs[p] = files[p] \/ ToDo(jobs[w], p)
        PROVE  docs'[p] = files[p] \/ ToDo(jobs'[w], p)
    <3>1. p \in Files \ {f}  BY <2>1, <2>6 DEF Wanted, Scan, Present
    <3>2. docs'[p] = docs[p]  BY <2>1, <3>1 DEF IndexInv, JobTypes
    <3> QED BY <2>1, <2>4, <2>6, <3>2 DEF ToDo
  <2> QED BY <2>3, <2>5, <2>6, JobMoves
<1>6. CASE EndJob(w)
  <2>1. /\ jobs[w].at = "next" /\ jobs[w].todo = {} /\ docs' = docs
        /\ jobs' = [jobs EXCEPT ![w] = NoJob]
    BY <1>6 DEF EndJob
  <2>2. jobs'[w].at = "none" /\ \A v \in Indexers \ {w} : jobs'[v] = jobs[v]
    BY <2>1 DEF IndexInv, JobTypes, NoJob
  <2>3. FreshJob(jobs'[w])  BY <2>2 DEF FreshJob
  <2>4. \A p : ~ToDo(jobs[w], p)  BY <2>1 DEF ToDo
  <2> QED BY <2>1, <2>2, <2>3, <2>4, JobMoves
<1> QED BY <1>1, <1>2, <1>3, <1>4, <1>5, <1>6 DEF IndexStep

\* An indexer that begins has all its files to do.
LEMMA BeginKeepsFresh ==
    ASSUME IndexInv, JobsFresh, files' = files, NEW w \in Indexers, NEW todo, Begin(w, todo)
    PROVE  /\ JobsFresh' /\ \A p : Reindexed(p) => Reindexed(p)'
           /\ \A p \in todo : ToDo(jobs'[w], p)
<1>1. /\ jobs[w].at = "none" /\ docs' = docs
      /\ jobs'[w].at = "next" /\ jobs'[w].todo = todo /\ ~jobs'[w].orphan
      /\ \A v \in Indexers \ {w} : jobs'[v] = jobs[v]
  BY DEF Begin, Indexing, NoJob, IndexInv, JobTypes
<1>2. FreshJob(jobs'[w])  BY <1>1 DEF FreshJob
<1>3. \A p : ~ToDo(jobs[w], p)  BY <1>1 DEF ToDo
<1>4. \A p \in todo : ToDo(jobs'[w], p)  BY <1>1 DEF ToDo
<1> QED BY <1>1, <1>2, <1>3, <1>4, JobMoves

\* Who rebuilds has all files still to do, whoever else gives up.
LEMMA RebuildKeepsFresh ==
    ASSUME IndexInv, JobsFresh, files' = files, NEW w \in Indexers, Rebuild(w)
    PROVE  JobsFresh' /\ \A p : Reindexed(p) => Reindexed(p)'
<1>1. /\ jobs'[w].at = "next" /\ jobs'[w].todo = Scan /\ ~jobs'[w].orphan
      /\ \A v \in Indexers \ {w} : jobs'[v] = Orphaned(Files)[v]
  BY DEF Rebuild, NoJob, IndexInv, JobTypes, Orphaned
<1>2. ASSUME NEW v \in Indexers \ {w}
      PROVE  jobs'[v].at = jobs[v].at /\ jobs'[v].file = jobs[v].file /\ jobs'[v].seen = jobs[v].seen
  <2>1. JobShape(jobs[v])  BY DEF IndexInv, JobTypes
  <2> QED BY <1>1, <2>1 DEF Orphaned, JobShape
<1>3. JobsFresh'  BY <1>1, <1>2 DEF JobsFresh, FreshJob
<1>4. \A p : Wanted(p)' => ToDo(jobs'[w], p)
  BY <1>1 DEF Wanted, Scan, Present, ToDo
<1> QED BY <1>3, <1>4 DEF Reindexed, ToDo

\* A file that is gone has no chunks, or an indexer that will not give up has it
\* still to do.
Gone(p) == p \in Indexable /\ files[p] = Absent

ToClear(j, p) == j.at # "none" /\ ~j.orphan /\ (p \in j.todo \/ (j.file = p /\ j.at = "gone"))

Cleared(p) == Gone(p) => chunks[p] = Unknown \/ \E w \in Indexers : ToClear(jobs[w], p)

\* A step of one indexer.
LEMMA ClearMoves ==
    ASSUME files' = files, NEW p, Cleared(p), NEW w \in Indexers,
           \A v \in Indexers \ {w} : jobs'[v] = jobs[v],
           Gone(p) /\ (chunks[p] = Unknown \/ ToClear(jobs[w], p))
               => chunks'[p] = Unknown \/ ToClear(jobs'[w], p),
           Gone(p) /\ chunks[p] = Unknown => chunks'[p] = Unknown
    PROVE  Cleared(p)'
<1>1. SUFFICES ASSUME Gone(p) PROVE chunks'[p] = Unknown \/ \E v \in Indexers : ToClear(jobs'[v], p)
  BY DEF Cleared, Gone, ToClear
<1>2. CASE chunks[p] = Unknown \/ ToClear(jobs[w], p)  BY <1>1, <1>2
<1>3. ASSUME NEW v \in Indexers \ {w}, ToClear(jobs[v], p) PROVE ToClear(jobs'[v], p)  BY <1>3
<1> QED BY <1>1, <1>2, <1>3 DEF Cleared

\* A step of an indexer, while nobody writes.
LEMMA StepClears ==
    ASSUME IndexInv, JobsFresh, files' = files, NEW w \in Indexers, IndexStep(w), NEW p, Cleared(p)
    PROVE  Cleared(p)'
<1> DEFINE f == jobs[w].file
<1>0. JobShape(jobs[w]) /\ FreshJob(jobs[w])  BY DEF IndexInv, JobTypes, JobsFresh
<1>1. ASSUME NEW g \in jobs[w].todo, ReadFile(w, g) PROVE Cleared(p)'
  <2> DEFINE rest == [jobs[w] EXCEPT !.todo = @ \ {g}]
  <2>1. /\ jobs'[w] = IF g \notin Indexable \/ files[g] \in TooLarge \cup Binary THEN rest
                      ELSE IF files[g] = Absent THEN [rest EXCEPT !.at = "gone", !.file = g]
                      ELSE [rest EXCEPT !.at = "read", !.file = g, !.seen = files[g]]
        /\ \A v \in Indexers \ {w} : jobs'[v] = jobs[v]
        /\ chunks' = chunks /\ jobs[w].at = "next"
    BY <1>1 DEF ReadFile, IndexInv, JobTypes
  <2>2. JobShape(rest) /\ rest.at = "next" /\ rest.todo = jobs[w].todo \ {g} /\ ~rest.orphan
    BY <1>0, <2>1 DEF JobShape
  <2> HIDE DEF rest
  <2>3. ASSUME Gone(p), ToClear(jobs[w], p) PROVE ToClear(jobs'[w], p)
    <3>1. p \in jobs[w].todo  BY <2>1, <2>3 DEF ToClear
    <3>2. CASE p = g
      <4>1. jobs'[w] = [rest EXCEPT !.at = "gone", !.file = g]
        BY <2>1, <2>3, <3>2, TreeAssumptions, IndexAssumptions DEF Gone
      <4>2. jobs'[w].at = "gone" /\ jobs'[w].file = p /\ ~jobs'[w].orphan
        BY <2>2, <3>2, <4>1 DEF JobShape
      <4> QED BY <4>2 DEF ToClear
    <3>3. CASE p # g
      <4>1. p \in jobs'[w].todo /\ jobs'[w].at # "none" /\ ~jobs'[w].orphan
        BY <2>1, <2>2, <3>1, <3>3 DEF JobShape
      <4> QED BY <4>1 DEF ToClear
    <3> QED BY <3>2, <3>3
  <2> QED BY <2>1, <2>3, ClearMoves
<1>2. CASE UpsertDocument(w)
  <2>1. /\ jobs[w].at = "read" /\ chunks' = chunks
        /\ jobs'[w] = [jobs[w] EXCEPT !.at = IF docs[f] = jobs[w].seen THEN "next" ELSE "chunks"]
        /\ \A v \in Indexers \ {w} : jobs'[v] = jobs[v]
    BY <1>2 DEF UpsertDocument, IndexInv, JobTypes
  <2>2. jobs'[w].at \in {"next", "chunks"} /\ jobs'[w].todo = jobs[w].todo /\ jobs'[w].orphan = jobs[w].orphan
    BY <1>0, <2>1 DEF JobShape
  <2>3. ToClear(jobs[w], p) => ToClear(jobs'[w], p)  BY <2>1, <2>2 DEF ToClear
  <2> QED BY <2>1, <2>3, ClearMoves
<1>3. CASE ReplaceChunks(w)
  <2>1. CASE jobs[w].orphan
    <3>1. chunks' = chunks /\ jobs' = [jobs EXCEPT ![w] = NoJob]  BY <1>3, <2>1 DEF ReplaceChunks
    <3>2. \A v \in Indexers \ {w} : jobs'[v] = jobs[v]  BY <3>1 DEF IndexInv, JobTypes
    <3>3. ~ToClear(jobs[w], p)  BY <2>1 DEF ToClear
    <3> QED BY <3>1, <3>2, <3>3, ClearMoves
  <2>2. CASE ~jobs[w].orphan
    <3>1. /\ jobs[w].at = "chunks" /\ jobs' = [jobs EXCEPT ![w].at = "next"]
          /\ chunks' = [chunks EXCEPT ![f] = ChunksOf(w)]
      BY <1>3, <2>2 DEF ReplaceChunks
    <3>2. /\ jobs'[w] = [jobs[w] EXCEPT !.at = "next"]
          /\ \A v \in Indexers \ {w} : jobs'[v] = jobs[v]
          /\ \A g \in Files : g # f => chunks'[g] = chunks[g]
      BY <3>1 DEF IndexInv, JobTypes
    <3>3. jobs'[w].at = "next" /\ jobs'[w].todo = jobs[w].todo /\ jobs'[w].orphan = jobs[w].orphan
      BY <1>0, <3>2 DEF JobShape
    <3>4. ToClear(jobs[w], p) => ToClear(jobs'[w], p)  BY <3>1, <3>3 DEF ToClear
    <3>5. Gone(p) => chunks'[p] = chunks[p]
      BY <1>0, <3>1, <3>2, IndexAssumptions DEF Gone, FreshJob
    <3> QED BY <3>2, <3>4, <3>5, ClearMoves
  <2> QED BY <2>1, <2>2
<1>4. CASE DeleteChunks(w)
  <2>1. /\ jobs[w].at = "gone" /\ f \in Files /\ jobs' = [jobs EXCEPT ![w].at = "row"]
        /\ chunks' = [chunks EXCEPT ![f] = Unknown]
    BY <1>0, <1>4 DEF DeleteChunks, JobShape
  <2>2. /\ jobs'[w] = [jobs[w] EXCEPT !.at = "row"]
        /\ \A v \in Indexers \ {w} : jobs'[v] = jobs[v]
        /\ chunks'[f] = Unknown /\ \A g \in Files : g # f => chunks'[g] = chunks[g]
    BY <2>1 DEF IndexInv, JobTypes
  <2>3. jobs'[w].at = "row" /\ jobs'[w].todo = jobs[w].todo /\ jobs'[w].orphan = jobs[w].orphan
    BY <1>0, <2>2 DEF JobShape
  <2>4. p # f /\ ToClear(jobs[w], p) => ToClear(jobs'[w], p)  BY <2>1, <2>3 DEF ToClear
  <2>5. Gone(p) => p \in Files  BY IndexAssumptions DEF Gone
  <2> HIDE DEF f
  <2> QED BY <2>2, <2>4, <2>5, ClearMoves
<1>5. CASE DeleteDocument(w)
  <2>1. /\ jobs[w].at = "row" /\ f \in Files /\ files[f] = Absent
        /\ chunks' = [chunks EXCEPT ![f] = Unknown]
        /\ jobs' = [Orphaned({f}) EXCEPT ![w].at = "next"]
    BY <1>0, <1>5 DEF DeleteDocument, JobShape, FreshJob
  <2>2. ASSUME NEW v \in Indexers PROVE Orphaned({f})[v] = jobs[v]
    <3>1. ~(jobs[v].at = "chunks" /\ jobs[v].file \in {f})  BY <2>1 DEF JobsFresh, FreshJob
    <3> QED BY <3>1 DEF Orphaned
  <2>3. /\ jobs'[w] = [jobs[w] EXCEPT !.at = "next"]
        /\ \A v \in Indexers \ {w} : jobs'[v] = jobs[v]
    <3>1. jobs'[w] = [Orphaned({f})[w] EXCEPT !.at = "next"]  BY <2>1 DEF Orphaned
    <3>2. \A v \in Indexers \ {w} : jobs'[v] = Orphaned({f})[v]  BY <2>1 DEF Orphaned
    <3> QED BY <2>2, <3>1, <3>2
  <2>4. jobs'[w].at = "next" /\ jobs'[w].todo = jobs[w].todo /\ jobs'[w].orphan = jobs[w].orphan
    BY <1>0, <2>3 DEF JobShape
  <2>5. chunks'[f] = Unknown /\ \A g \in Files : g # f => chunks'[g] = chunks[g]
    BY <2>1 DEF IndexInv, JobTypes
  <2>6. ToClear(jobs[w], p) => ToClear(jobs'[w], p)  BY <2>1, <2>4 DEF ToClear
  <2>7. Gone(p) => p \in Files  BY IndexAssumptions DEF Gone
  <2> HIDE DEF f
  <2> QED BY <2>3, <2>5, <2>6, <2>7, ClearMoves
<1>6. CASE EndJob(w)
  <2>1. /\ jobs[w].at = "next" /\ jobs[w].todo = {} /\ chunks' = chunks
        /\ jobs' = [jobs EXCEPT ![w] = NoJob]
    BY <1>6 DEF EndJob
  <2>2. \A v \in Indexers \ {w} : jobs'[v] = jobs[v]  BY <2>1 DEF IndexInv, JobTypes
  <2>3. ~ToClear(jobs[w], p)  BY <2>1 DEF ToClear
  <2> QED BY <2>1, <2>2, <2>3, ClearMoves
<1> QED BY <1>1, <1>2, <1>3, <1>4, <1>5, <1>6 DEF IndexStep

\* What else the index does, while nobody writes.
LEMMA OthersClear ==
    ASSUME IndexInv, files' = files, NEW p, Cleared(p), NEW w \in Indexers,
           Rebuild(w) \/ \E todo : Begin(w, todo)
    PROVE  Cleared(p)'
<1>1. CASE Rebuild(w)
  <2>1. Gone(p)' => p \in Files  BY IndexAssumptions DEF Gone
  <2> QED BY <1>1, <2>1 DEF Rebuild, Cleared
<1>2. ASSUME NEW todo, Begin(w, todo) PROVE Cleared(p)'
  <2>1. /\ jobs[w].at = "none" /\ chunks' = chunks /\ \A v \in Indexers \ {w} : jobs'[v] = jobs[v]
    BY <1>2 DEF Begin, Indexing, IndexInv, JobTypes
  <2>2. ~ToClear(jobs[w], p)  BY <2>1 DEF ToClear
  <2> QED BY <2>1, <2>2, ClearMoves
<1> QED BY <1>1, <1>2

\* Chunks are of files that may be indexed.
OnlyIndexable ==
    /\ \A f \in Files : chunks[f] # Unknown => f \in Indexable
    /\ \A w \in Indexers : jobs[w].at \in {"read", "chunks"} => jobs[w].file \in Indexable

\* Every step leaves it so.
LEMMA OnlyIndexableKept ==
    ASSUME IndexInv, OnlyIndexable, IndexMove
    PROVE  OnlyIndexable'
<1> USE DEF IndexInv, JobTypes, OnlyIndexable
<1>1. CASE UNCHANGED indexVars  BY <1>1 DEF indexVars
<1>2. CASE IndexCrash  BY <1>2 DEF IndexCrash, NoJob
<1>3. ASSUME NEW w \in Indexers, NEW todo, Begin(w, todo) PROVE OnlyIndexable'
  BY <1>3 DEF Begin, NoJob
<1>4. ASSUME NEW w \in Indexers, Rebuild(w) PROVE OnlyIndexable'
  <2>1. \A f \in Files : chunks'[f] = Unknown  BY <1>4 DEF Rebuild
  <2>2. jobs'[w].at = "next" /\ \A v \in Indexers \ {w} : jobs'[v] = Orphaned(Files)[v]
    BY <1>4 DEF Rebuild, NoJob, Orphaned
  <2>3. ASSUME NEW v \in Indexers \ {w}
        PROVE  jobs'[v].at = jobs[v].at /\ jobs'[v].file = jobs[v].file
    <3>1. JobShape(jobs[v])  OBVIOUS
    <3> QED BY <2>2, <3>1 DEF Orphaned, JobShape
  <2> QED BY <2>1, <2>2, <2>3
<1>5. ASSUME NEW w \in Indexers, IndexStep(w) PROVE OnlyIndexable'
  <2>0. JobShape(jobs[w])  OBVIOUS
  <2>1. ASSUME NEW f \in jobs[w].todo, ReadFile(w, f) PROVE OnlyIndexable'
    <3>1. /\ jobs'[w].at \in {"read", "chunks"} => jobs'[w].file \in Indexable
          /\ \A v \in Indexers \ {w} : jobs'[v] = jobs[v]
          /\ chunks' = chunks
      BY <2>0, <2>1 DEF ReadFile, JobShape
    <3> QED BY <3>1
  <2>2. CASE UpsertDocument(w)
    <3>1. /\ jobs[w].at = "read" /\ jobs'[w].file = jobs[w].file /\ chunks' = chunks
          /\ \A v \in Indexers \ {w} : jobs'[v] = jobs[v]
      BY <2>0, <2>2 DEF UpsertDocument, JobShape
    <3> QED BY <3>1
  <2>3. CASE ReplaceChunks(w)
    <3>1. /\ jobs[w].at = "chunks" /\ jobs'[w].at \in {"none", "next"}
          /\ \A v \in Indexers \ {w} : jobs'[v] = jobs[v]
          /\ \A f \in Files : f # jobs[w].file => chunks'[f] = chunks[f]
      BY <2>0, <2>3 DEF ReplaceChunks, JobShape, NoJob
    <3> QED BY <3>1
  <2>4. CASE DeleteChunks(w)
    <3>1. /\ jobs'[w].at = "row" /\ \A v \in Indexers \ {w} : jobs'[v] = jobs[v]
          /\ \A f \in Files : chunks'[f] \in {chunks[f], Unknown}
      BY <2>0, <2>4 DEF DeleteChunks, JobShape
    <3> QED BY <3>1
  <2>5. CASE DeleteDocument(w)
    <3>1. jobs'[w].at = "next" /\ \A v \in Indexers \ {w} : jobs'[v] = Orphaned({jobs[w].file})[v]
      BY <2>0, <2>5 DEF DeleteDocument, JobShape, Orphaned
    <3>2. \A f \in Files : chunks'[f] \in {chunks[f], Unknown}  BY <2>5 DEF DeleteDocument
    <3>3. ASSUME NEW v \in Indexers \ {w}
          PROVE  jobs'[v].at = jobs[v].at /\ jobs'[v].file = jobs[v].file
      <4>1. JobShape(jobs[v])  OBVIOUS
      <4> QED BY <3>1, <4>1 DEF Orphaned, JobShape
    <3> QED BY <3>1, <3>2, <3>3
  <2>6. CASE EndJob(w)
    <3>1. /\ jobs'[w].at = "none" /\ \A v \in Indexers \ {w} : jobs'[v] = jobs[v]
          /\ chunks' = chunks
      BY <2>6 DEF EndJob, NoJob
    <3> QED BY <3>1
  <2> QED BY <1>5, <2>1, <2>2, <2>3, <2>4, <2>5, <2>6 DEF IndexStep
<1> QED BY <1>1, <1>2, <1>3, <1>4, <1>5 DEF IndexMove

\* The section of the language server shows the files as they are.
LspFresh ==
    lspSection.status = "shown" => \A p \in DOMAIN lspSection.seen : lspSection.seen[p] = files[p]

\* The files that are reverted and whose rules, or rows, are read again.
Reread    == IF request.at \in {"index", "again"} THEN request.paths ELSE settled
Scheduled == IF request.at = "again" THEN request.paths ELSE settled

\* While nobody has written and nobody was indexing since the revert began, the
\* sections, the rules and the rows it has dealt with are those of the files.
KnowledgeInv ==
    quiet =>
        /\ request.at \notin {"forget", "reload", "sections"} =>
              gitSection \in {None, RenderStatus} /\ LspFresh
        /\ \A p \in Reread : p \in DOMAIN rules => rules[p] \in {NoRule, files[p]}
        /\ JobsFresh
        /\ \A p \in Scheduled : Reindexed(p) /\ Cleared(p)

\* What a step of the composition does while nobody writes since a revert.
QuietMove ==
    \/ /\ request'.at = "forget" /\ settled' = {}
       /\ UNCHANGED indexVars /\ \A w \in Indexers : ~Indexing(w)
    \/ /\ quiet /\ UNCHANGED <<files, staged, tip, branch>>
       /\ gitSection' \in {gitSection, RenderStatus}
       /\ UNCHANGED lspSection \/ \E path, outcome : lspSection' = BuildSection(path, outcome)
       /\ \A p \in DOMAIN rules' : p \in DOMAIN rules /\ rules'[p] \in {rules[p], files[p], NoRule}
       /\ \/ UNCHANGED <<request, settled>>
          \/ Forget \/ ReloadMemories \/ RevertIndexes
          \/ \E outcome : RevertSections(outcome)
          \/ \E raised : RevertReturns(raised)

\* Rules are read from the files, kept, or dropped.
LEMMA RulesAre ==
    ASSUME NEW known
    PROVE  /\ DOMAIN RulesRead(known) = DOMAIN known
           /\ \A p \in DOMAIN known : RulesRead(known)[p] \in {known[p], files[p]}
           /\ \A paths : /\ DOMAIN RulesDropped(paths) = DOMAIN rules
                         /\ \A p \in DOMAIN rules :
                               RulesDropped(paths)[p] = IF p \in paths THEN NoRule ELSE rules[p]
  BY DEF RulesRead, RulesDropped

\* While nothing is in flight, every step is of one of these forms.
LEMMA QuietMoves ==
    ASSUME [Next]_vars, quiet'
    PROVE  QuietMove
<1> USE DEF QuietMove, worktree, gitVars, lspVars, knowledge, control, history, restOfSession
<1>1. CASE RunStep
  <2>1. CASE BeginRun
    <3>1. rules' = RulesRead(rules) /\ UNCHANGED <<worktree, gitSection, lspSection, request, history>>
      BY <2>1 DEF BeginRun
    <3> QED BY <3>1, RulesAre
  <2>2. ASSUME NEW outcome, RefreshSections(outcome) PROVE QuietMove
    <3>1. /\ gitSection' = RenderStatus /\ lspSection' = BuildSection(focus, outcome)
          /\ UNCHANGED <<worktree, rules, request, history>>
      BY <2>2 DEF RefreshSections, RefreshLsp
    <3> QED BY <3>1
  <2>3. ASSUME NEW c, NEW remembers, NEW found,
               \/ StartRun \/ Retrieve(found) \/ AssignMemories \/ RunReturns \/ RunRaises
               \/ EndRun(c, remembers)
        PROVE  QuietMove
    <3>1. UNCHANGED <<worktree, rules, gitSection, lspSection, request, settled, quiet>>
      BY <2>3 DEF StartRun, Retrieve, AssignMemories, RunReturns, RunRaises, EndRun
    <3> QED BY <3>1
  <2> HIDE DEF QuietMove
  <2> QED BY <1>1, <2>1, <2>2, <2>3 DEF RunStep
<1>2. CASE ToolStep
  <2>1. ASSUME NEW tool, NEW file, NEW seen, Looked(tool, file, seen) PROVE QuietMove
    BY <2>1 DEF Looked, unchangedByCall
  <2>2. ASSUME NEW tool, NEW file, NEW seen, NEW tree, Wrote(tool, file, seen, tree) PROVE QuietMove
    BY <2>2 DEF Wrote, unchangedByCall, Disturbed
  <2>3. ASSUME NEW line, NEW allowed, NEW f, NEW c, RunCommand(line, allowed, f, c) PROVE QuietMove
    BY <2>1, <2>2, <2>3 DEF RunCommand
  <2>4. ASSUME NEW p, NEW c, NEW b,
               \/ WriteFileTool(p, c, b) \/ EditFile(p, b, c) \/ ReadFileTool(p)
               \/ SearchCode(p, c) \/ ListFiles \/ GitStatusTool \/ GitDiffTool(p, b)
        PROVE  QuietMove
    BY <2>1, <2>2, <2>4 DEF WriteFileTool, EditFile, ReadFileTool, SearchCode, ListFiles,
       GitStatusTool, GitDiffTool
  <2>5. ASSUME NEW b, CreateBranchTool(b) \/ SwitchBranchTool(b) PROVE QuietMove
    BY <2>5 DEF CreateBranchTool, SwitchBranchTool, Disturbed
  <2>6. ASSUME NEW paths, NEW f, NEW operation, CommitTool(paths) \/ LspTool(f, operation)
        PROVE  QuietMove
    <3>1. UNCHANGED <<files, staged, tip, branch, rules, gitSection, lspSection, request, settled, quiet>>
      BY <2>6 DEF CommitTool, Preview, LspTool, AskLsp, unchangedByCall
    <3> QED BY <3>1
  <2>7. ASSUME NEW remembers, NEW outcome, Update(remembers, outcome) PROVE QuietMove
    <3>1. /\ UNCHANGED <<worktree, request, settled, quiet>>
          /\ gitSection' \in {gitSection, RenderStatus}
          /\ rules' \in {rules, RulesRead(rules)}
      BY <2>7 DEF Update
    <3>2. UNCHANGED lspSection \/ lspSection' = BuildSection(call.file, outcome)
      BY <2>7 DEF Update, RefreshLsp
    <3> QED BY <3>1, <3>2, RulesAre
  <2> HIDE DEF QuietMove
  <2> QED BY <1>2, <2>3, <2>4, <2>5, <2>6, <2>7 DEF ToolStep
<1>3. CASE RevertStep
  <2>1. ASSUME NEW to, NEW ok, RevertFiles(to, ok) PROVE QuietMove
    <3>1. ok /\ ~InFlight  BY <2>1 DEF RevertFiles
    <3>2. \A w \in Indexers : ~Indexing(w)  BY <3>1 DEF InFlight
    <3> QED BY <2>1, <3>1, <3>2 DEF RevertFiles
  <2>2. CASE Forget \/ ReloadMemories \/ RevertIndexes
    <3>1. UNCHANGED <<worktree, rules, gitSection, lspSection, quiet>>
      BY <2>2 DEF Forget, ReloadMemories, RevertIndexes
    <3> QED BY <2>2, <3>1
  <2>3. ASSUME NEW outcome, RevertSections(outcome) PROVE QuietMove
    <3>1. /\ rules' = IF request.paths = {} THEN rules ELSE RulesRead(RulesDropped(request.paths))
          /\ gitSection' = RenderStatus /\ lspSection' = BuildSection(focus, outcome)
          /\ UNCHANGED <<worktree, quiet>>
      BY <2>3 DEF RevertSections, RefreshLsp
    <3>2. \A p \in DOMAIN rules' : p \in DOMAIN rules /\ rules'[p] \in {rules[p], files[p], NoRule}
      BY <3>1, RulesAre
    <3> QED BY <2>3, <3>1, <3>2
  <2>4. ASSUME NEW raised, RevertReturns(raised) PROVE QuietMove
    <3>1. UNCHANGED <<worktree, rules, gitSection, lspSection, quiet>>  BY <2>4 DEF RevertReturns
    <3> QED BY <2>4, <3>1
  <2> HIDE DEF QuietMove
  <2> QED BY <1>3, <2>1, <2>2, <2>3, <2>4 DEF RevertStep
<1>4. CASE RestStep
  <2>1. ASSUME NEW paths, CommitRequest(paths) \/ IndexRequest \/ LspRequest("status") PROVE QuietMove
    <3>1. UNCHANGED <<files, staged, tip, branch, rules, gitSection, lspSection, request, settled, quiet>>
      BY <2>1 DEF CommitRequest, Preview, IndexRequest, LspRequest, AskLsp
    <3> QED BY <3>1
  <2>2. ASSUME NEW w, CommitStep(w) PROVE QuietMove
    <3>1. UNCHANGED <<files, branch, rules, gitSection, lspSection, request>>
      BY <2>2 DEF CommitStep, Allow, Refuse, StageCommit, Commit, CommitFails
    <3>2. UNCHANGED <<staged, tip, settled, quiet>>  BY <2>2 DEF CommitStep, Disturbed
    <3> QED BY <3>1, <3>2
  <2>3. ASSUME NEW w, CommitReturns(w) PROVE QuietMove
    <3>1. /\ UNCHANGED <<files, staged, tip, branch, rules, lspSection, request, settled, quiet>>
          /\ gitSection' \in {gitSection, RenderStatus}
      BY <2>3 DEF CommitReturns, Committed
    <3> QED BY <3>1
  <2>4. ASSUME NEW w, IndexSteps(w) PROVE QuietMove  BY <2>4 DEF IndexSteps
  <2> HIDE DEF QuietMove
  <2> QED BY <1>4, <2>1, <2>2, <2>3, <2>4 DEF RestStep
<1>5. CASE OtherStep
  BY <1>5 DEF OtherStep, ProgramWrites, ProgramStages, ProgramInstalls, Install, Crash, Disturbed
<1>6. CASE AssemblyStep  BY <1>6 DEF AssemblyStep
<1>7. CASE UNCHANGED vars  BY <1>7 DEF vars
<1> QED BY <1>1, <1>2, <1>3, <1>4, <1>5, <1>6, <1>7 DEF Next

\* While nobody writes, what is read of the files stays true.
LEMMA KnowledgeKept ==
    ASSUME IndexInv, MemoryInv, KnowledgeInv, [Next]_vars
    PROVE  KnowledgeInv'
<1> SUFFICES ASSUME quiet' PROVE KnowledgeInv'
  BY DEF KnowledgeInv
<1>1. CASE /\ request'.at = "forget" /\ settled' = {}
           /\ UNCHANGED indexVars /\ \A w \in Indexers : ~Indexing(w)
  <2>1. \A w \in Indexers : jobs'[w].at = "none"  BY <1>1 DEF Indexing, indexVars
  <2>2. JobsFresh'  BY <2>1 DEF JobsFresh, FreshJob
  <2>3. Reread' = {} /\ Scheduled' = {}  BY <1>1 DEF Reread, Scheduled
  <2> QED BY <1>1, <2>2, <2>3 DEF KnowledgeInv
<1>2. CASE /\ quiet /\ UNCHANGED <<files, staged, tip, branch>>
           /\ gitSection' \in {gitSection, RenderStatus}
           /\ UNCHANGED lspSection \/ \E path, outcome : lspSection' = BuildSection(path, outcome)
           /\ \A p \in DOMAIN rules' : p \in DOMAIN rules /\ rules'[p] \in {rules[p], files[p], NoRule}
           /\ \/ UNCHANGED <<request, settled>>
              \/ Forget \/ ReloadMemories \/ RevertIndexes
              \/ \E outcome : RevertSections(outcome)
              \/ \E raised : RevertReturns(raised)
  <2>1. /\ JobsFresh' /\ \A p : Reindexed(p) => Reindexed(p)'
        /\ \A p : Cleared(p) => Cleared(p)'
    <3>1. JobsFresh /\ files' = files  BY <1>2 DEF KnowledgeInv
    <3>2. CASE UNCHANGED indexVars
      BY <3>1, <3>2 DEF indexVars, JobsFresh, FreshJob, Reindexed, Wanted, Scan, Present, ToDo,
         Cleared, Gone, ToClear
    <3>3. JobsFresh' /\ \A p : Reindexed(p) => Reindexed(p)'
      BY <3>1, <3>2, IndexMoves, StepKeepsFresh, BeginKeepsFresh, RebuildKeepsFresh DEF IndexMove
    <3>4. \A p : Cleared(p) => Cleared(p)'
      BY <3>1, <3>2, IndexMoves, StepClears, OthersClear DEF IndexMove
    <3> QED BY <3>3, <3>4
  <2>2. RenderStatus' = RenderStatus
    BY <1>2 DEF RenderStatus, StatusFiles, StagedFiles, UnstagedFiles, UntrackedFiles, HeadTree
  <2>3. ASSUME NEW path, NEW outcome, lspSection' = BuildSection(path, outcome) PROVE LspFresh'
    <3>1. CASE lspSection'.status = "shown" /\ lspSection'.seen = [f \in Checked(path) |-> files[f]]
      BY <1>2, <3>1 DEF LspFresh
    <3>2. CASE lspSection'.status # "shown"  BY <3>2 DEF LspFresh
    <3>3. CASE lspSection'.seen = <<>>  BY <3>3 DEF LspFresh
    <3> QED BY <2>3, <3>1, <3>2, <3>3 DEF BuildSection, Diagnostics
  <2>4. LspFresh => LspFresh'
    <3>1. CASE UNCHANGED lspSection  BY <1>2, <3>1 DEF LspFresh
    <3> QED BY <1>2, <2>3, <3>1
  <2>5. CASE UNCHANGED <<request, settled>>
    <3>1. Reread' = Reread /\ Scheduled' = Scheduled  BY <2>5 DEF Reread, Scheduled
    <3> QED BY <1>2, <2>1, <2>2, <2>4, <2>5, <3>1 DEF KnowledgeInv
  <2>6. CASE Forget \/ ReloadMemories
    <3>1. /\ request.at \in {"forget", "reload"} /\ request'.at \in {"reload", "sections"}
          /\ settled' = settled
      BY <2>6 DEF Forget, ReloadMemories, MemoryInv, history
    <3>2. Reread' = {} /\ Scheduled' = {}  BY <3>1 DEF Reread, Scheduled, MemoryInv
    <3> QED BY <2>1, <3>1, <3>2 DEF KnowledgeInv
  <2>7. ASSUME NEW outcome, RevertSections(outcome) PROVE KnowledgeInv'
    <3>1. /\ request.at = "sections" /\ settled' = settled /\ gitSection' = RenderStatus
          /\ lspSection' = BuildSection(focus, outcome)
          /\ rules' = IF request.paths = {} THEN rules ELSE RulesRead(RulesDropped(request.paths))
          /\ \/ request' = NoRequest
             \/ request'.at = "index" /\ request'.paths = request.paths /\ request.paths # {}
      BY <2>7 DEF RevertSections, RefreshLsp, MemoryInv, history
    <3>2. Scheduled' = {} /\ Reread' \subseteq request.paths
          /\ (request.paths = {} => Reread' = {})
      BY <3>1 DEF Reread, Scheduled, MemoryInv, NoRequest
    <3>3. ASSUME NEW p \in Reread', p \in DOMAIN rules' PROVE rules'[p] \in {NoRule, files'[p]}
      <4>1. rules' = RulesRead(RulesDropped(request.paths)) /\ p \in request.paths
        BY <3>1, <3>2, <3>3
      <4>2. p \in DOMAIN rules /\ p \in DOMAIN RulesDropped(request.paths)  BY <3>3, <4>1, RulesAre
      <4>3. RulesDropped(request.paths)[p] = NoRule  BY <4>1, <4>2, RulesAre
      <4>4. RulesRead(RulesDropped(request.paths))[p] \in {RulesDropped(request.paths)[p], files[p]}
        BY <4>2, RulesAre
      <4> QED BY <1>2, <4>1, <4>3, <4>4
    <3> QED BY <2>1, <2>2, <2>3, <3>1, <3>2, <3>3 DEF KnowledgeInv
  <2>8. CASE RevertIndexes
    <3>1. /\ request.at = "index" /\ request'.at = "again" /\ request'.paths = request.paths
          /\ settled' = settled /\ Begin(Revert, request.paths) /\ UNCHANGED <<gitSection, rules>>
      BY <2>8 DEF RevertIndexes, IndexPaths, MemoryInv, history, knowledge
    <3>2. Reread' = Reread /\ Scheduled' = request.paths  BY <3>1 DEF Reread, Scheduled
    <3>3. Revert \in Indexers /\ JobsFresh /\ files' = files
      BY <1>2, ContextAssumptions DEF KnowledgeInv
    <3>4. \A p \in request.paths : ToDo(jobs'[Revert], p)  BY <3>1, <3>3, BeginKeepsFresh
    <3>5. \A p \in request.paths : Reindexed(p)' /\ Cleared(p)'
      <4>1. /\ jobs'[Revert].at = "next" /\ ~jobs'[Revert].orphan
            /\ jobs'[Revert].todo = request.paths
        BY <3>1, <3>3 DEF Begin, NoJob, IndexInv, JobTypes
      <4> QED BY <3>3, <3>4, <4>1 DEF Reindexed, ToDo, Cleared, ToClear
    <3> QED BY <1>2, <2>1, <2>2, <2>4, <3>1, <3>2, <3>5 DEF KnowledgeInv
  <2>9. ASSUME NEW raised, RevertReturns(raised) PROVE KnowledgeInv'
    <3>1. /\ request.at = "again" /\ request'.at = "none" /\ settled' = request.paths
      BY <2>9 DEF RevertReturns, NoRequest
    <3>2. Reread' = Reread /\ Scheduled' = Scheduled  BY <3>1 DEF Reread, Scheduled
    <3> QED BY <1>2, <2>1, <2>2, <2>4, <3>1, <3>2 DEF KnowledgeInv
  <2> QED BY <1>2, <2>5, <2>6, <2>7, <2>8, <2>9
<1> QED BY <1>1, <1>2, QuietMoves DEF QuietMove

\* Once a revert has returned, for any files, memories, rules and requests: no
\* memory of a reverted file that was not added since, and, unless a call was
\* in flight or somebody has written, no rule, section or row of the index that
\* is not of the files as they are.  What was retrieved is RetrievedAnewHolds.
THEOREM RevertForgetsHolds == Spec => []RevertForgets
<1>1. Init => MemoryInv /\ KnowledgeInv
  BY DEF Init, MemoryInv, KnowledgeInv, NoRequest, RequestStages
<1>2. MemoryInv /\ KnowledgeInv /\ IndexInv /\ [Next]_vars => (MemoryInv /\ KnowledgeInv)'
  BY MemoryMoves, MemoryKept, KnowledgeKept
<1>3. MemoryInv /\ KnowledgeInv => RevertForgets
  <2> SUFFICES ASSUME MemoryInv, KnowledgeInv PROVE RevertForgets  OBVIOUS
  <2>1. \A p \in settled : Forgotten(p)  BY DEF MemoryInv
  <2>2. ASSUME quiet, request = NoRequest
        PROVE  (\A p \in settled : Current(p)) /\ gitSection \in {None, RenderStatus}
    <3>1. request.at = "none"  BY <2>2 DEF NoRequest
    <3>2. gitSection \in {None, RenderStatus} /\ LspFresh  BY <2>2, <3>1 DEF KnowledgeInv
    <3>3. ASSUME NEW p \in settled PROVE Current(p)
      <4>1. p \in DOMAIN rules => rules[p] \in {NoRule, files[p]}
        BY <2>2, <3>1 DEF KnowledgeInv, Reread
      <4>2. lspSection.status = "shown" /\ p \in DOMAIN lspSection.seen => lspSection.seen[p] = files[p]
        BY <3>2 DEF LspFresh
      <4>3. Reindexed(p)  BY <2>2, <3>1 DEF KnowledgeInv, Scheduled
      <4>4. (\A w \in Indexers : ~Indexing(w)) => \A w \in Indexers : ~ToDo(jobs[w], p)
        BY DEF Indexing, ToDo
      <4> QED BY <4>1, <4>2, <4>3, <4>4 DEF Current, Reindexed, Wanted
    <3> QED BY <3>2, <3>3
  <2> QED BY <2>1, <2>2 DEF RevertForgets
<1> QED BY <1>1, <1>2, <1>3, IndexAlways, PTL DEF Spec
\* What is found of a reverted file, while nobody writes and nobody indexes.
LEMMA FoundAnew ==
    ASSUME IndexInv, OnlyIndexable, MemoryInv, KnowledgeInv,
           quiet, request = NoRequest, \A w \in Indexers : ~Indexing(w),
           NEW m \in Findable, m[1] \in settled \ torn, files[m[1]] \notin TooLarge \cup Binary
    PROVE  Anew(m)
<1>1. CASE m \in stored  BY <1>1 DEF MemoryInv, Forgotten, Anew
<1>2. ASSUME NEW f \in Files, chunks[f] # Unknown, m = <<f, chunks[f]>> PROVE Anew(m)
  <2>1. f \in settled \ torn /\ f \in Indexable /\ m[1] = f /\ m[2] = chunks[f]
    BY <1>2 DEF OnlyIndexable
  <2>2. \A w \in Indexers : jobs[w].at = "none"  BY DEF Indexing
  <2>3. Reindexed(f) /\ Cleared(f)  BY <2>1 DEF KnowledgeInv, Scheduled, NoRequest
  <2>4. chunks[f] = docs[f]  BY <2>1, <2>2 DEF IndexInv, ChunksMatchDocument, Midway
  <2>5. files[f] # Absent  BY <1>2, <2>1, <2>2, <2>3 DEF Cleared, Gone, ToClear
  <2>6. Wanted(f)  BY <2>1, <2>5 DEF Wanted, Scan, Present
  <2>7. docs[f] = files[f]  BY <2>2, <2>3, <2>6 DEF Reindexed, ToDo
  <2> QED BY <2>1, <2>4, <2>7 DEF Anew
<1> QED BY <1>1, <1>2 DEF Findable

\* Only a retrieval and a crash change what is retrieved.
LEMMA RetrievedMoves ==
    ASSUME [Next]_vars
    PROVE  \/ UNCHANGED retrieved
           \/ retrieved' = {}
           \/ retrieved' \subseteq Findable /\ UNCHANGED <<files, since>>
<1> USE DEF knowledge, worktree, history, restOfSession
<1>1. CASE RunStep
  <2>1. ASSUME NEW found, Retrieve(found)
        PROVE  UNCHANGED retrieved \/ (retrieved' \subseteq Findable /\ UNCHANGED <<files, since>>)
    BY <2>1 DEF Retrieve
  <2>2. ASSUME NEW outcome, NEW c, NEW remembers,
               \/ StartRun \/ BeginRun \/ AssignMemories \/ RunReturns \/ RunRaises
               \/ RefreshSections(outcome) \/ EndRun(c, remembers)
        PROVE  UNCHANGED retrieved
    BY <2>2 DEF StartRun, BeginRun, AssignMemories, RunReturns, RunRaises, RefreshSections, EndRun
  <2> QED BY <1>1, <2>1, <2>2 DEF RunStep
<1>2. CASE ToolStep
  <2>1. ASSUME NEW tool, NEW file, NEW seen, Looked(tool, file, seen) PROVE UNCHANGED retrieved
    BY <2>1 DEF Looked, unchangedByCall
  <2>2. ASSUME NEW tool, NEW file, NEW seen, NEW tree, Wrote(tool, file, seen, tree)
        PROVE  UNCHANGED retrieved
    BY <2>2 DEF Wrote, unchangedByCall
  <2>3. ASSUME NEW line, NEW allowed, NEW f, NEW c, RunCommand(line, allowed, f, c)
        PROVE  UNCHANGED retrieved
    BY <2>1, <2>2, <2>3 DEF RunCommand
  <2>4. ASSUME NEW q, NEW c, NEW b,
               \/ WriteFileTool(q, c, b) \/ EditFile(q, b, c) \/ ReadFileTool(q)
               \/ SearchCode(q, c) \/ ListFiles \/ GitStatusTool \/ GitDiffTool(q, b)
        PROVE  UNCHANGED retrieved
    BY <2>1, <2>2, <2>4 DEF WriteFileTool, EditFile, ReadFileTool, SearchCode, ListFiles,
       GitStatusTool, GitDiffTool
  <2>5. ASSUME NEW b, NEW paths, NEW f, NEW operation, NEW remembers, NEW outcome,
               \/ CreateBranchTool(b) \/ SwitchBranchTool(b) \/ CommitTool(paths)
               \/ LspTool(f, operation) \/ Update(remembers, outcome)
        PROVE  UNCHANGED retrieved
    BY <2>5 DEF CreateBranchTool, SwitchBranchTool, CommitTool, LspTool, Update, unchangedByCall
  <2> QED BY <1>2, <2>3, <2>4, <2>5 DEF ToolStep
<1>3. CASE RevertStep
  BY <1>3 DEF RevertStep, RevertFiles, Forget, ReloadMemories, RevertSections, RevertIndexes,
     RevertReturns
<1>4. CASE RestStep
  BY <1>4 DEF RestStep, CommitRequest, CommitStep, CommitReturns, IndexSteps, IndexRequest, LspRequest
<1>5. CASE OtherStep
  BY <1>5 DEF OtherStep, ProgramWrites, ProgramStages, ProgramInstalls, Crash
<1>6. CASE AssemblyStep  BY <1>6 DEF AssemblyStep
<1>7. CASE UNCHANGED vars  BY <1>7 DEF vars
<1> QED BY <1>1, <1>2, <1>3, <1>4, <1>5, <1>6, <1>7 DEF Next

\* The first retrieval that finds anything after a revert replaces what was
\* retrieved by what is true of the reverted files, for any files, memories and
\* index, and however many chunks it takes.
THEOREM RetrievedAnewHolds == Spec => RetrievedAnew
<1> DEFINE Inv == IndexInv /\ OnlyIndexable /\ MemoryInv /\ KnowledgeInv
           Step == retrieved' # retrieved /\ quiet /\ request = NoRequest
                     /\ (\A w \in Indexers : ~Indexing(w)) =>
                   \A m \in retrieved' :
                      m[1] \in settled \ torn /\ files[m[1]] \notin TooLarge \cup Binary => Anew(m)
<1>1. Init => OnlyIndexable /\ MemoryInv /\ KnowledgeInv
  BY DEF Init, MemoryInv, KnowledgeInv, NoRequest, RequestStages, IInit, OnlyIndexable, NoJob
<1>2. Inv /\ [Next]_vars => (OnlyIndexable /\ MemoryInv /\ KnowledgeInv)'
  BY IndexMoves, OnlyIndexableKept, MemoryMoves, MemoryKept, KnowledgeKept
<1>3. Inv /\ [Next]_vars => [Step]_vars
  <2> SUFFICES ASSUME Inv, [Next]_vars PROVE Step
    OBVIOUS
  <2> QED BY RetrievedMoves, FoundAnew
<1>4. Spec => []Inv
  BY <1>1, <1>2, IndexAlways, PTL DEF Spec
<1>5. Spec => [][Step]_vars
  BY <1>3, <1>4, PTL DEF Spec
<1> QED BY <1>5 DEF RetrievedAnew

===============================================================================
