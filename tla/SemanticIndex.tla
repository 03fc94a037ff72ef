----------------------------- MODULE SemanticIndex -----------------------------
(***************************************************************************)
(* MemoryService's index of the workspace: a row per file with the hash of *)
(* the content that was indexed, and the chunks a search finds.            *)
(*                                                                         *)
(* index_file reads the file, looks the row up, writes it, and replaces    *)
(* the chunks, each on its own; a file that is gone loses its chunks and   *)
(* then its row.  Runs, searches, reverts and requests index without a     *)
(* lock.  A file whose row has its hash is never indexed again.            *)
(***************************************************************************)
EXTENDS WorkspaceTree

CONSTANTS
    Indexable,      \* should_index_path
    TooLarge,       \* contents beyond _MAX_FILE_BYTES
    Indexers,       \* who may be indexing: the run, a request
    Unknown         \* no row, no chunks

ASSUME IndexAssumptions ==
    /\ Indexable \subseteq Files /\ TooLarge \subseteq Contents
    /\ Unknown \notin Contents \cup {Absent}

VARIABLES
    docs,           \* per file the hash of its row
    chunks,         \* per file the content its chunks are from
    jobs,           \* per indexer: [at, todo, file, seen, orphan]
    torn            \* history: files whose row and chunks an overlap or a crash tore apart

indexVars == <<docs, chunks, jobs, torn>>

Indexed == [Files -> Contents \cup {Unknown}]

NoJob == [at |-> "none", todo |-> {}, file |-> Unknown, seen |-> Unknown, orphan |-> FALSE]

IInit ==
    /\ docs = [f \in Files |-> Unknown] /\ chunks = docs
    /\ jobs = [w \in Indexers |-> NoJob] /\ torn = {}

Indexing(w) == jobs[w].at # "none"

Scan == Present(files) \cap Indexable

\* stats().chunks = 0
NothingIndexed == \A f \in Files : chunks[f] = Unknown

\* Between the first write to a file's rows and the last of the same call.
Midway(w, f) == jobs[w].at \in {"chunks", "row"} /\ jobs[w].file = f

\* The rows of gone documents take the chunks with them, and leave an indexer
\* that is about to insert chunks without a row to refer to.
Orphaned(gone) ==
    [w \in Indexers |-> IF jobs[w].at = "chunks" /\ jobs[w].file \in gone
                        THEN [jobs[w] EXCEPT !.orphan = TRUE] ELSE jobs[w]]

Overlaps(w, f) == IF \E v \in Indexers \ {w} : Midway(v, f) THEN {f} ELSE {}

Begin(w, todo) ==
    /\ ~Indexing(w)
    /\ jobs' = [jobs EXCEPT ![w] = [NoJob EXCEPT !.at = "next", !.todo = todo]]
    /\ UNCHANGED <<docs, chunks, torn>>

-----------------------------------------------------------------------------
\* index_file: the checks on the path and the file.  Not indexable, too large
\* or no text: nothing is written, what was indexed before stays.
ReadFile(w, f) ==
    /\ jobs[w].at = "next" /\ f \in jobs[w].todo
    /\ LET rest == [jobs[w] EXCEPT !.todo = @ \ {f}]
       IN  jobs' = [jobs EXCEPT ![w] =
             IF f \notin Indexable \/ files[f] \in TooLarge \cup Binary THEN rest
             ELSE IF files[f] = Absent THEN [rest EXCEPT !.at = "gone", !.file = f]
             ELSE [rest EXCEPT !.at = "read", !.file = f, !.seen = files[f]]]
    /\ UNCHANGED <<docs, chunks, torn>>

\* get_document, and upsert_document unless the hash is the same.
UpsertDocument(w) ==
    LET f == jobs[w].file
        known == docs[f] = jobs[w].seen
    IN  /\ jobs[w].at = "read"
        /\ docs' = [docs EXCEPT ![f] = jobs[w].seen]
        /\ jobs' = [jobs EXCEPT ![w].at = IF known THEN "next" ELSE "chunks"]
        /\ torn' = IF known THEN torn ELSE torn \cup Overlaps(w, f)
        /\ UNCHANGED chunks

\* Mutant: the chunks are cut from the file as it is now.
ChunksOfFile(w) == files[jobs[w].file]

ChunksOf(w) == jobs[w].seen

\* replace_chunks: one transaction, which fails when the row is gone.
ReplaceChunks(w) ==
    LET f == jobs[w].file
    IN  /\ jobs[w].at = "chunks"
        /\ IF jobs[w].orphan
           THEN /\ jobs' = [jobs EXCEPT ![w] = NoJob]
                /\ UNCHANGED <<chunks, torn>>
           ELSE /\ chunks' = [chunks EXCEPT ![f] = ChunksOf(w)]
                /\ jobs' = [jobs EXCEPT ![w].at = "next"]
                /\ torn' = IF Overlaps(w, f) = {} /\ docs[f] = jobs[w].seen
                           THEN torn \ {f} ELSE torn \cup Overlaps(w, f)
        /\ UNCHANGED docs

\* delete: the chunks by path.
DeleteChunks(w) ==
    LET f == jobs[w].file
    IN  /\ jobs[w].at = "gone"
        /\ chunks' = [chunks EXCEPT ![f] = Unknown]
        /\ jobs' = [jobs EXCEPT ![w].at = "row"]
        /\ torn' = torn \cup Overlaps(w, f)
        /\ UNCHANGED docs

\* delete: the row, and by its foreign key whatever chunks it has by now.
DeleteDocument(w) ==
    LET f == jobs[w].file
    IN  /\ jobs[w].at = "row"
        /\ docs' = [docs EXCEPT ![f] = Unknown]
        /\ chunks' = [chunks EXCEPT ![f] = Unknown]
        /\ jobs' = [Orphaned({f}) EXCEPT ![w].at = "next"]
        /\ torn' = torn \ {f}

EndJob(w) ==
    /\ jobs[w].at = "next" /\ jobs[w].todo = {}
    /\ jobs' = [jobs EXCEPT ![w] = NoJob]
    /\ UNCHANGED <<docs, chunks, torn>>

-----------------------------------------------------------------------------
\* MemoryService

IndexWorkspace(w) == Begin(w, Scan)

EnsureIndex(w) == NothingIndexed /\ IndexWorkspace(w)

IndexPaths(w, paths) == Begin(w, paths)

\* clear_workspace is one transaction; the tree is listed after it.
Rebuild(w) ==
    /\ ~Indexing(w)
    /\ docs' = [f \in Files |-> Unknown] /\ chunks' = docs'
    /\ torn' = {}
    /\ jobs' = [Orphaned(Files) EXCEPT ![w] = [NoJob EXCEPT !.at = "next", !.todo = Scan]]

\* The process ends: what is committed stays, whatever is half written.
IndexCrash ==
    /\ torn' = torn \cup {f \in Files : \E w \in Indexers : Midway(w, f)}
    /\ jobs' = [w \in Indexers |-> NoJob]
    /\ UNCHANGED <<docs, chunks>>

IndexStep(w) ==
    \/ \E f \in jobs[w].todo : ReadFile(w, f)
    \/ UpsertDocument(w) \/ ReplaceChunks(w)
    \/ DeleteChunks(w) \/ DeleteDocument(w)
    \/ EndJob(w)

\* The chunks of a file are those of the content its row claims: since a row
\* with the current hash is never indexed again, chunks of anything else would
\* be found by every search from then on.  Only a crash between the two writes
\* and two indexers in the same file at once can tear them apart.
ChunksMatchDocument ==
    \A f \in Files :
        \/ chunks[f] = docs[f]
        \/ f \in torn
        \/ \E w \in Indexers : Midway(w, f)
===============================================================================
