------------------------------- MODULE Store -------------------------------
(***************************************************************************)
(* The transactions of the store (src/store/mod.rs), statement by          *)
(* statement: replace_file and remove_file keep four tables in step by     *)
(* hand, because chunks_fts and chunks_vec are virtual tables no foreign   *)
(* key reaches.  A statement may fail and the process may die at any       *)
(* point: SQLite then drops the working copy `tx`.                         *)
(*                                                                         *)
(* The connection sits behind a mutex that is held for a whole call, so    *)
(* calls follow one another and nobody else reads the working copy.        *)
(* A vector and an FTS row are known by the chunk body they were made of.  *)
(***************************************************************************)
EXTENDS Naturals, Sequences, FiniteSets

CONSTANTS
    Paths,
    Docs,       \* versions of file contents
    ChunksOf,   \* the chunks the indexer makes of a version
    Bodies,     \* contents of chunks
    NONE,
    MaxId       \* bound: rowids

Kinds == {"text", "media"}

ASSUME StoreAssumption ==
    /\ ChunksOf \in [Docs -> Seq([body : Bodies, kind : Kinds])]
    /\ NONE \notin Docs \cup Paths
    /\ MaxId \in Nat

VARIABLES
    db,       \* the committed tables
    tx,       \* the working copy of the open transaction
    stage,    \* the next statement, or "idle"
    path,     \* the path of the call
    doc,      \* the version to write, NONE for remove_file
    left,     \* chunk rows selected and not yet unlinked
    next,     \* the chunk to insert next
    upto,     \* how many chunks come with an embedding
    rowid,    \* last_insert_rowid()
    fresh     \* bodies embedded for this call and not yet cached

call == <<path, doc, upto, fresh>>
vars == <<db, tx, stage, path, doc, left, next, upto, rowid, fresh>>

Empty == [chunks |-> {}, fts |-> {}, vec |-> {},
          files |-> [p \in Paths |-> NONE], cache |-> {}]

Init ==
    /\ db = Empty /\ tx = Empty
    /\ stage = "idle" /\ path = NONE /\ doc = NONE
    /\ left = {} /\ next = 0 /\ upto = 0 /\ rowid = 0 /\ fresh = {}

ChunksAt(t, p) == {c \in t.chunks : c.path = p}
Body(c) == [id |-> c.id, body |-> c.body]
Ids(rows) == {r.id : r \in rows}

\* The rowid SQLite gives to a new row of an INTEGER PRIMARY KEY table: one
\* more than the largest in use, so the ids of deleted rows come back.
NewIds(rows) ==
    {n \in 1..MaxId : (\A m \in Ids(rows) : m < n) /\ n - 1 \in Ids(rows) \cup {0}}

---------------------------------------------------------------------------
(* Calls.                                                                  *)

\* The call begins its transaction and selects the rows of the path.
Open(p, d, n, new) ==
    /\ stage = "idle"
    /\ stage' = "unlink"
    /\ tx' = db /\ left' = ChunksAt(db, p)
    /\ path' = p /\ doc' = d /\ upto' = n /\ fresh' = new
    /\ next' = 1 /\ rowid' = 0
    /\ UNCHANGED db

\* The bodies among the first n chunks of a version that are not cached.
Misses(d, n) == {ChunksOf[d][i].body : i \in 1..n} \ db.cache

\* Mutant: the number of embeddings is not compared.
ReplaceUnchecked(p, d, n) == Open(p, d, n, Misses(d, n))

\* replace_file with n embeddings, cached ones and fresh ones; zip() would
\* silently drop the chunks that have none.
ReplaceFile(p, d, n) ==
    /\ n = Len(ChunksOf[d])
    /\ Open(p, d, n, Misses(d, n))

RemoveFile(p) == Open(p, NONE, 0, {})

---------------------------------------------------------------------------
(* Statements.                                                             *)

\* Mutant: the vector of a media chunk is left behind.
UnlinkTextOnly(c) ==
    /\ stage = "unlink" /\ c \in left
    /\ tx' = [tx EXCEPT
                !.fts = IF c.kind = "text" THEN @ \ {Body(c)} ELSE @,
                !.vec = IF c.kind = "text" THEN {v \in @ : v.id # c.id} ELSE @]
    /\ left' = left \ {c}
    /\ UNCHANGED <<db, stage, call, next, rowid>>

\* FTS5 'delete' takes the terms of the content it is given out of a text
\* row; then the vector goes.
Unlink(c) ==
    /\ stage = "unlink" /\ c \in left
    /\ tx' = [tx EXCEPT
                !.fts = IF c.kind = "text" THEN @ \ {Body(c)} ELSE @,
                !.vec = {v \in @ : v.id # c.id}]
    /\ left' = left \ {c}
    /\ UNCHANGED <<db, stage, call, next, rowid>>

\* Mutant: the rows go before what hangs on them.
DeleteFirst ==
    /\ stage = "unlink"
    /\ tx' = [tx EXCEPT !.chunks = @ \ ChunksAt(tx, path)]
    /\ stage' = IF left # {} THEN "unlink" ELSE IF doc = NONE THEN "files" ELSE "insert"
    /\ UNCHANGED <<db, call, left, next, rowid>>

\* Mutant: only the rows the new version has no chunk for are deleted.
DeleteSurplus ==
    /\ stage = "unlink" /\ left = {}
    /\ tx' = [tx EXCEPT !.chunks = @ \ {c \in ChunksAt(tx, path) : c.idx > upto}]
    /\ stage' = IF doc = NONE THEN "files" ELSE "insert"
    /\ UNCHANGED <<db, call, left, next, rowid>>

\* DELETE FROM chunks WHERE path = ?1.
DeleteChunks ==
    /\ stage = "unlink" /\ left = {}
    /\ tx' = [tx EXCEPT !.chunks = @ \ ChunksAt(tx, path)]
    /\ stage' = IF doc = NONE THEN "files" ELSE "insert"
    /\ UNCHANGED <<db, call, left, next, rowid>>

\* insert_chunk_in_tx for the next chunk; UNIQUE(path, chunk_idx).
InsertChunk ==
    /\ stage = "insert" /\ next <= upto
    /\ \A r \in ChunksAt(tx, path) : r.idx # next
    /\ \E id \in NewIds(tx.chunks) :
         LET c == [id |-> id, path |-> path, idx |-> next,
                   body |-> ChunksOf[doc][next].body, kind |-> ChunksOf[doc][next].kind]
         IN /\ tx' = [tx EXCEPT !.chunks = @ \cup {c},
                               !.fts = IF c.kind = "text" THEN @ \cup {Body(c)} ELSE @]
            /\ rowid' = id
    /\ stage' = "vector"
    /\ UNCHANGED <<db, call, left, next>>

\* The vector of the chunk just inserted; the rowid is a primary key.
InsertVector ==
    /\ stage = "vector"
    /\ rowid \notin Ids(tx.vec)
    /\ tx' = [tx EXCEPT !.vec = @ \cup {[id |-> rowid, body |-> ChunksOf[doc][next].body]}]
    /\ next' = next + 1
    /\ stage' = "insert"
    /\ UNCHANGED <<db, call, left, rowid>>

\* put_embedding_cache_in_tx for one of the fresh embeddings.
CacheVector(b) ==
    /\ stage = "insert" /\ next > upto /\ b \in fresh
    /\ tx' = [tx EXCEPT !.cache = @ \cup {b}]
    /\ fresh' = fresh \ {b}
    /\ UNCHANGED <<db, stage, path, doc, upto, left, next, rowid>>

\* Mutant: the file is recorded whatever is still to be cached.
RecordFirst ==
    /\ stage = "insert" /\ next > upto
    /\ tx' = [tx EXCEPT !.files[path] = doc]
    /\ stage' = "commit"
    /\ UNCHANGED <<db, call, left, next, rowid>>

\* set_file_state_in_tx, the last statement.
RecordFile ==
    /\ stage = "insert" /\ next > upto /\ fresh = {}
    /\ tx' = [tx EXCEPT !.files[path] = doc]
    /\ stage' = "commit"
    /\ UNCHANGED <<db, call, left, next, rowid>>

\* remove_file: DELETE FROM files WHERE path = ?1.
ForgetFile ==
    /\ stage = "files"
    /\ tx' = [tx EXCEPT !.files[path] = NONE]
    /\ stage' = "commit"
    /\ UNCHANGED <<db, call, left, next, rowid>>

Close ==
    /\ stage' = "idle" /\ path' = NONE /\ doc' = NONE
    /\ left' = {} /\ next' = 0 /\ upto' = 0 /\ rowid' = 0 /\ fresh' = {}

Commit ==
    /\ stage = "commit"
    /\ db' = tx /\ tx' = Empty
    /\ Close

\* A statement fails, or the process dies: the transaction is rolled back.
Rollback ==
    /\ stage # "idle"
    /\ tx' = Empty
    /\ Close
    /\ UNCHANGED db

\* wipe_and_rebuild, at startup.
WipeAndRebuild ==
    /\ stage = "idle"
    /\ db' = Empty
    /\ UNCHANGED <<tx, stage, call, left, next, rowid>>

---------------------------------------------------------------------------
Replacing ==
    \E p \in Paths, d \in Docs :
        \E n \in 0..Len(ChunksOf[d]) : ReplaceFile(p, d, n)

Next ==
    \/ Replacing
    \/ \E p \in Paths : RemoveFile(p)
    \/ \E c \in tx.chunks : Unlink(c)
    \/ DeleteChunks \/ InsertChunk \/ InsertVector
    \/ \E b \in Bodies : CacheVector(b)
    \/ RecordFile \/ ForgetFile
    \/ Commit \/ Rollback \/ WipeAndRebuild

Spec == Init /\ [][Next]_vars

---------------------------------------------------------------------------
Chunk == [id : Nat \ {0}, path : Paths, idx : Nat \ {0}, body : Bodies, kind : Kinds]
Link == [id : Nat \ {0}, body : Bodies]
Tables == [chunks : SUBSET Chunk, fts : SUBSET Link, vec : SUBSET Link,
           files : [Paths -> Docs \cup {NONE}], cache : SUBSET Bodies]

\* Types; a transaction works on a path exactly while it is open, it inserts
\* only for a document, and what it has yet to unlink are rows of its chunks.
TypeOK ==
    /\ db \in Tables
    /\ tx \in Tables
    /\ stage \in {"idle", "unlink", "insert", "vector", "files", "commit"}
    /\ path \in Paths \cup {NONE}
    /\ doc \in Docs \cup {NONE}
    /\ (stage = "idle") <=> (path = NONE)
    /\ stage \in {"insert", "vector"} => doc # NONE
    /\ left \subseteq tx.chunks
    /\ next \in Nat /\ upto \in Nat
    /\ rowid \in Nat
    /\ fresh \subseteq Bodies

\* No foreign key reaches the two virtual tables: the keyword index holds the
\* terms of the text chunks and of nothing else, every chunk has its own
\* vector, and no vector or term is left of a chunk that is gone.
MirrorsFollowChunks ==
    /\ db.fts = {Body(c) : c \in {c \in db.chunks : c.kind = "text"}}
    /\ db.vec = {Body(c) : c \in db.chunks}

\* Within a transaction no insert meets a row that is already there, although
\* rowids are used again: a file can always be indexed.
InsertsNeverCollide ==
    /\ stage = "insert" =>
         \A r \in ChunksAt(tx, path) : r.idx # next
    /\ stage = "vector" => rowid \notin Ids(tx.vec)

\* A vector is never paid for twice: what is indexed is cached.
IndexedIsCached == {c.body : c \in db.chunks} \subseteq db.cache

---------------------------------------------------------------------------
(* The store implements the atomic index: a reader sees, per path, the     *)
(* chunks joined with their vectors and their terms.                       *)

EntriesOf ==
    [d \in Docs |->
        {[idx |-> i, body |-> ChunksOf[d][i].body,
          vectors |-> {ChunksOf[d][i].body},
          terms |-> IF ChunksOf[d][i].kind = "text" THEN {ChunksOf[d][i].body} ELSE {}]
         : i \in DOMAIN ChunksOf[d]}]

Shown ==
    [p \in Paths |->
        {[idx |-> c.idx, body |-> c.body,
          vectors |-> {v.body : v \in {v \in db.vec : v.id = c.id}},
          terms |-> {f.body : f \in {f \in db.fts : f.id = c.id}}]
         : c \in ChunksAt(db, p)}]

Index == INSTANCE AtomicIndex
         WITH Entries <- EntriesOf, shown <- Shown, recorded <- db.files

\* Every step of the store is one whole replacement or removal, or invisible.
ImplementsAtomicIndex == Index!Spec

=============================================================================
