---------------------------- MODULE Store_proofs ----------------------------
(***************************************************************************)
(* Proofs about module Store, for any paths, versions and chunks and any   *)
(* bound on row ids: the tables stay in step, no insert collides, what is  *)
(* indexed is cached, and the store implements AtomicIndex.                *)
(***************************************************************************)
EXTENDS Store, TLAPS

---------------------------------------------------------------------------
(* The inductive invariant.                                                *)

UniqueIds(t) == \A c, d \in t.chunks : c.id = d.id => c = d

\* The rows of the working copy whose terms and vector are gone already, and
\* the one whose vector is still to come.
Unlinked == IF stage = "unlink" THEN ChunksAt(tx, path) \ left ELSE {}
Pending == IF stage = "vector" THEN {c \in tx.chunks : c.id = rowid} ELSE {}

\* Up to those the working copy is in step at every statement.
Links ==
    /\ UniqueIds(db) /\ UniqueIds(tx)
    /\ MirrorsFollowChunks
    /\ tx.fts = {Body(c) : c \in {c \in tx.chunks \ Unlinked : c.kind = "text"}}
    /\ tx.vec = {Body(c) : c \in tx.chunks \ (Unlinked \cup Pending)}

\* What the stages of a call hand on to one another.
Stages ==
    /\ stage = "unlink" => left \subseteq ChunksAt(tx, path) /\ next = 1
    /\ stage \in {"insert", "vector", "files", "commit"} => left = {}
    /\ stage # "idle" /\ doc # NONE => upto = Len(ChunksOf[doc]) /\ next >= 1
    /\ stage = "vector" => next <= upto
    /\ stage = "files" => doc = NONE
    /\ doc = NONE \/ stage = "commit" => fresh = {}

\* The rows of the path are the first n chunks of the version.
WrittenUpTo(n) ==
    /\ \A c \in ChunksAt(tx, path) :
         /\ c.idx \in 1..n
         /\ c.body = ChunksOf[doc][c.idx].body /\ c.kind = ChunksOf[doc][c.idx].kind
    /\ \A i \in 1..n : \E c \in ChunksAt(tx, path) : c.idx = i

Written ==
    /\ stage = "insert" => next <= upto + 1 /\ WrittenUpTo(next - 1)
    /\ stage = "vector" =>
         /\ WrittenUpTo(next)
         /\ \E c \in ChunksAt(tx, path) : c.id = rowid /\ c.idx = next
    /\ stage = "commit" /\ doc # NONE => WrittenUpTo(upto)
    /\ stage = "files" \/ (stage = "commit" /\ doc = NONE) => ChunksAt(tx, path) = {}

\* Nothing but the path of the call is touched.
Elsewhere ==
    /\ stage # "idle" => \A q \in Paths \ {path} : ChunksAt(tx, q) = ChunksAt(db, q)
    /\ stage \notin {"idle", "commit"} => tx.files = db.files
    /\ stage = "commit" => tx.files = [db.files EXCEPT ![path] = doc]

Bodied(t) == {c.body : c \in t.chunks}

\* Every vector of the working copy is cached or about to be.
Cached ==
    /\ IndexedIsCached
    /\ Bodied(tx) \subseteq tx.cache \cup fresh
    /\ stage # "idle" /\ doc # NONE =>
         \A i \in 1..upto : ChunksOf[doc][i].body \in tx.cache \cup fresh

IInv == TypeOK /\ Links /\ Stages /\ Written /\ Elsewhere /\ Cached

---------------------------------------------------------------------------
(* What the definitions say.                                               *)

\* A version is a sequence of chunks.
LEMMA ChunkOf ==
    ASSUME NEW d \in Docs, NEW i \in 1..Len(ChunksOf[d])
    PROVE  ChunksOf[d][i] \in [body : Bodies, kind : Kinds]
<1> DEFINE S == [body : Bodies, kind : Kinds]
<1>1. ChunksOf[d] \in Seq(S)
  BY StoreAssumption
<1> HIDE DEF S
<1>2. ChunksOf[d][i] \in S
  BY <1>1
<1>3. QED
  BY <1>2 DEF S

\* The empty tables are tables, and are in step.
LEMMA EmptyTables ==
    /\ Empty \in Tables
    /\ UniqueIds(Empty)
    /\ Empty.fts = {} /\ Empty.vec = {} /\ Empty.chunks = {} /\ Empty.cache = {}
    /\ Empty.files = [p \in Paths |-> NONE]
BY DEF Empty, Tables, UniqueIds

\* A new row id is greater than every id in use.
LEMMA NewIdIsNew ==
    ASSUME NEW rows, NEW id \in NewIds(rows)
    PROVE  id \in Nat \ {0} /\ \A r \in rows : r.id < id
BY StoreAssumption DEF NewIds, Ids

\* The writes of the working copy, by the tables they leave as they are.
LEMMA Deleting ==
    ASSUME NEW t \in Tables, NEW p
    PROVE  LET u == [t EXCEPT !.chunks = @ \ ChunksAt(t, p)]
           IN /\ u \in Tables /\ u.chunks = t.chunks \ ChunksAt(t, p)
              /\ u.fts = t.fts /\ u.vec = t.vec /\ u.files = t.files /\ u.cache = t.cache
BY DEF Tables

---------------------------------------------------------------------------
(* Types.                                                                  *)

\* A call is opened only on paths of the vault and versions of files.
LEMMA OpenTypes ==
    ASSUME TypeOK, NEW p \in Paths, NEW d \in Docs \cup {NONE}, NEW n \in Nat,
           NEW new \in SUBSET Bodies, Open(p, d, n, new)
    PROVE  TypeOK'
<1>1. NONE \notin Paths
  BY StoreAssumption
<1>2. ChunksAt(db, p) \subseteq db.chunks
  BY DEF ChunksAt
<1>3. QED
  BY <1>1, <1>2 DEF TypeOK, Open

\* Every statement keeps the types.
LEMMA TypeNext == TypeOK /\ Stages /\ Written /\ [Next]_vars => TypeOK'
<1> SUFFICES ASSUME TypeOK, Stages, Written, [Next]_vars PROVE TypeOK'
  OBVIOUS
<1> USE DEF TypeOK, call
<1>1. CASE Replacing
  <2>1. PICK p \in Paths, d \in Docs : \E n \in 0..Len(ChunksOf[d]) : ReplaceFile(p, d, n)
    BY <1>1 DEF Replacing
  <2> PICK n \in 0..Len(ChunksOf[d]) : ReplaceFile(p, d, n)
    BY <2>1
  <2>2. Misses(d, n) \subseteq Bodies
    BY ChunkOf DEF ReplaceFile, Misses
  <2>3. QED
    BY <2>2, OpenTypes DEF ReplaceFile
<1>2. ASSUME NEW p \in Paths, RemoveFile(p) PROVE TypeOK'
  BY <1>2, OpenTypes DEF RemoveFile
<1>3. ASSUME NEW c \in tx.chunks, Unlink(c) PROVE TypeOK'
  <2>1. tx' \in Tables /\ tx'.chunks = tx.chunks
    BY <1>3 DEF Unlink, Tables
  <2>2. QED
    BY <1>3, <2>1 DEF Unlink
<1>4. CASE DeleteChunks
  <2>1. tx' \in Tables
    BY <1>4, Deleting DEF DeleteChunks
  <2>2. left' = {}
    BY <1>4 DEF DeleteChunks
  <2>3. QED
    BY <1>4, <2>1, <2>2 DEF DeleteChunks
<1>5. CASE InsertChunk
  <2>1. PICK id \in NewIds(tx.chunks) :
          LET c == [id |-> id, path |-> path, idx |-> next,
                    body |-> ChunksOf[doc][next].body, kind |-> ChunksOf[doc][next].kind]
          IN /\ tx' = [tx EXCEPT !.chunks = @ \cup {c},
                                !.fts = IF c.kind = "text" THEN @ \cup {Body(c)} ELSE @]
             /\ rowid' = id
    BY <1>5 DEF InsertChunk
  <2> DEFINE c == [id |-> id, path |-> path, idx |-> next,
                   body |-> ChunksOf[doc][next].body, kind |-> ChunksOf[doc][next].kind]
  <2>2. id \in Nat \ {0}
    BY NewIdIsNew
  <2>3. doc \in Docs /\ path \in Paths
    BY <1>5 DEF InsertChunk
  <2>4. next \in 1..Len(ChunksOf[doc])
    BY <1>5, <2>3, StoreAssumption DEF InsertChunk, Stages
  <2>5. ChunksOf[doc][next] \in [body : Bodies, kind : Kinds]
    BY <2>3, <2>4, ChunkOf
  <2>6. c \in Chunk /\ Body(c) \in Link
    BY <2>2, <2>3, <2>4, <2>5 DEF Chunk, Link, Body
  <2>7. tx' \in Tables /\ tx.chunks \subseteq tx'.chunks
    BY <2>1, <2>6 DEF Tables
  <2>8. QED
    BY <1>5, <2>1, <2>2, <2>3, <2>7 DEF InsertChunk
<1>6. CASE InsertVector
  <2>1. doc \in Docs
    BY <1>6 DEF InsertVector
  <2>2. next \in 1..Len(ChunksOf[doc])
    BY <1>6, <2>1, StoreAssumption DEF InsertVector, Stages
  <2>3. rowid \in Nat \ {0}
    BY <1>6 DEF InsertVector, Written, ChunksAt, Tables, Chunk
  <2>4. [id |-> rowid, body |-> ChunksOf[doc][next].body] \in Link
    BY <2>1, <2>2, <2>3, ChunkOf DEF Link
  <2>5. QED
    BY <1>6, <2>4 DEF InsertVector, Tables
<1>7. ASSUME NEW b \in Bodies, CacheVector(b) PROVE TypeOK'
  <2>1. tx' \in Tables /\ tx'.chunks = tx.chunks
    BY <1>7 DEF CacheVector, Tables
  <2>2. QED
    BY <1>7, <2>1 DEF CacheVector
<1>8. CASE RecordFile
  <2>1. tx' \in Tables /\ tx'.chunks = tx.chunks
    BY <1>8 DEF RecordFile, Tables
  <2>2. QED
    BY <1>8, <2>1 DEF RecordFile
<1>9. CASE ForgetFile
  <2>1. tx' \in Tables /\ tx'.chunks = tx.chunks
    BY <1>9 DEF ForgetFile, Tables
  <2>2. QED
    BY <1>9, <2>1 DEF ForgetFile
<1>10. CASE Commit
  BY <1>10, EmptyTables DEF Commit, Close
<1>11. CASE Rollback
  BY <1>11, EmptyTables DEF Rollback, Close
<1>12. CASE WipeAndRebuild
  BY <1>12, EmptyTables DEF WipeAndRebuild
<1>13. CASE UNCHANGED vars
  BY <1>13 DEF vars
<1>14. QED
  BY <1>1, <1>2, <1>3, <1>4, <1>5, <1>6, <1>7, <1>8, <1>9, <1>10, <1>11, <1>12, <1>13
     DEF Next

---------------------------------------------------------------------------
(* The two virtual tables.                                                 *)

TextOf(S) == {c \in S : c.kind = "text"}
Linked(S) == {Body(c) : c \in S}

\* Links are told apart by their chunks as long as ids are.
LEMMA LinkOfOne ==
    ASSUME NEW t, UniqueIds(t), NEW c \in t.chunks, NEW d \in t.chunks,
           c.id = d.id \/ Body(c) = Body(d)
    PROVE  c = d
BY DEF UniqueIds, Body

\* What remains when the link of one chunk is taken away.
LEMMA UnlinkOne ==
    ASSUME NEW t, UniqueIds(t), NEW S \in SUBSET t.chunks, NEW c \in t.chunks
    PROVE  /\ Linked(S \ {c}) = Linked(S) \ {Body(c)}
           /\ Linked(S \ {c}) = {v \in Linked(S) : v.id # c.id}
<1>1. \A d \in S : Body(d) = Body(c) \/ Body(d).id = c.id => d = c
  BY LinkOfOne DEF Body
<1>2. Body(c).id = c.id
  BY DEF Body
<1>3. QED
  BY <1>1, <1>2 DEF Linked

\* The invariant in these terms.
LEMMA LinksInTerms ==
    Links <=> /\ UniqueIds(db) /\ UniqueIds(tx)
              /\ db.fts = Linked(TextOf(db.chunks)) /\ db.vec = Linked(db.chunks)
              /\ tx.fts = Linked(TextOf(tx.chunks \ Unlinked))
              /\ tx.vec = Linked(tx.chunks \ (Unlinked \cup Pending))
BY DEF Links, MirrorsFollowChunks, Linked, TextOf

\* Unlinking one row takes its link and no other.
LEMMA LinksUnlink ==
    ASSUME TypeOK, Links, Stages, NEW c \in tx.chunks, Unlink(c)
    PROVE  Links'
<1> DEFINE S == tx.chunks \ Unlinked
<1>1. /\ tx'.chunks = tx.chunks /\ tx'.vec = {v \in tx.vec : v.id # c.id}
      /\ tx'.fts = IF c.kind = "text" THEN tx.fts \ {Body(c)} ELSE tx.fts
      /\ UNCHANGED <<db, stage, path>> /\ stage = "unlink" /\ c \in left /\ left' = left \ {c}
  BY DEF Unlink, TypeOK, Tables, call
<1>2. Unlinked' = Unlinked \cup {c} /\ Pending = {} /\ Pending' = {} /\ c \in S
  BY <1>1 DEF Unlinked, Pending, Stages, ChunksAt
<1>3. tx'.chunks \ Unlinked' = S \ {c} /\ tx'.chunks \ (Unlinked' \cup Pending') = S \ {c}
  BY <1>1, <1>2
<1>4. UniqueIds(tx) /\ S \subseteq tx.chunks /\ TextOf(S) \subseteq tx.chunks
  BY DEF Links, TextOf
<1>5. tx.fts = Linked(TextOf(S)) /\ tx.vec = Linked(S)
  BY <1>2, LinksInTerms
<1>6. tx'.vec = Linked(S \ {c})
  BY <1>1, <1>4, <1>5, UnlinkOne
<1>7. tx'.fts = Linked(TextOf(S \ {c}))
  <2>1. CASE c.kind = "text"
    <3>1. TextOf(S \ {c}) = TextOf(S) \ {c}
      BY DEF TextOf
    <3>2. Linked(TextOf(S) \ {c}) = Linked(TextOf(S)) \ {Body(c)}
      <4> DEFINE T == TextOf(S)
      <4>1. T \in SUBSET tx.chunks
        BY <1>4
      <4> HIDE DEF T
      <4>2. Linked(T \ {c}) = Linked(T) \ {Body(c)}
        BY <1>4, <4>1, UnlinkOne
      <4>3. QED
        BY <4>2 DEF T
    <3>3. QED
      BY <2>1, <3>1, <3>2, <1>1, <1>5
  <2>2. CASE c.kind # "text"
    <3>1. TextOf(S \ {c}) = TextOf(S)
      BY <2>2 DEF TextOf
    <3>2. QED
      BY <2>2, <3>1, <1>1, <1>5
  <2>3. QED
    BY <2>1, <2>2
<1>8. UniqueIds(db)' /\ UniqueIds(tx)'
  BY <1>1 DEF Links, UniqueIds
<1>9. db'.fts = Linked(TextOf(db'.chunks)) /\ db'.vec = Linked(db'.chunks)
  BY <1>1, LinksInTerms
<1>10. QED
  BY <1>3, <1>6, <1>7, <1>8, <1>9 DEF Links, MirrorsFollowChunks, Linked, TextOf

\* A chunk is inserted with its terms, and its vector is pending.
LEMMA LinksInsertChunk ==
    ASSUME TypeOK, Links, InsertChunk
    PROVE  Links'
<1>1. PICK id \in NewIds(tx.chunks) :
        LET c == [id |-> id, path |-> path, idx |-> next,
                  body |-> ChunksOf[doc][next].body, kind |-> ChunksOf[doc][next].kind]
        IN /\ tx' = [tx EXCEPT !.chunks = @ \cup {c},
                              !.fts = IF c.kind = "text" THEN @ \cup {Body(c)} ELSE @]
           /\ rowid' = id
  BY DEF InsertChunk
<1> DEFINE c == [id |-> id, path |-> path, idx |-> next,
                 body |-> ChunksOf[doc][next].body, kind |-> ChunksOf[doc][next].kind]
           X == tx.chunks
<1>2. /\ stage = "insert" /\ stage' = "vector" /\ db' = db /\ rowid' = id /\ c.id = id
      /\ tx'.chunks = X \cup {c} /\ tx'.vec = tx.vec
      /\ tx'.fts = IF c.kind = "text" THEN tx.fts \cup {Body(c)} ELSE tx.fts
  BY <1>1 DEF InsertChunk, TypeOK, Tables
<1> HIDE DEF c
<1>3. \A d \in X : d.id # id
  <2>1. \A d \in X : d.id \in Nat /\ d.id < id
    BY NewIdIsNew DEF TypeOK, Tables, Chunk
  <2>2. QED
    BY <2>1, NewIdIsNew
<1>4. Unlinked = {} /\ Pending = {} /\ Unlinked' = {} /\ Pending' = {c}
  BY <1>2, <1>3 DEF Unlinked, Pending
<1>5. tx.fts = Linked(TextOf(X)) /\ tx.vec = Linked(X)
  BY <1>4, LinksInTerms
<1>6. tx'.chunks \ (Unlinked' \cup Pending') = X /\ tx'.chunks \ Unlinked' = X \cup {c}
  BY <1>2, <1>3, <1>4
<1>7. tx'.fts = Linked(TextOf(X \cup {c}))
  BY <1>2, <1>5 DEF Linked, TextOf
<1>8. UniqueIds(db)' /\ UniqueIds(tx)'
  BY <1>2, <1>3 DEF Links, UniqueIds
<1>9. db'.fts = Linked(TextOf(db'.chunks)) /\ db'.vec = Linked(db'.chunks)
  BY <1>2, LinksInTerms
<1>10. QED
  BY <1>2, <1>5, <1>6, <1>7, <1>8, <1>9 DEF Links, MirrorsFollowChunks, Linked, TextOf

\* The pending vector is that of the chunk just inserted.
LEMMA LinksInsertVector ==
    ASSUME TypeOK, Links, Stages, Written, InsertVector
    PROVE  Links'
<1> DEFINE v == [id |-> rowid, body |-> ChunksOf[doc][next].body]
           X == tx.chunks
<1>1. /\ stage = "vector" /\ stage' = "insert" /\ db' = db
      /\ tx'.chunks = X /\ tx'.fts = tx.fts /\ tx'.vec = tx.vec \cup {v}
  BY DEF InsertVector, TypeOK, Tables
<1>2. PICK c \in ChunksAt(tx, path) : c.id = rowid /\ c.idx = next
  BY <1>1 DEF Written
<1>3. c \in X /\ Body(c) = v
  BY <1>1, <1>2 DEF Written, WrittenUpTo, Body, ChunksAt
<1>4. Unlinked = {} /\ Unlinked' = {} /\ Pending' = {} /\ Pending = {c}
  BY <1>1, <1>2, <1>3, LinkOfOne DEF Unlinked, Pending, Links
<1> HIDE DEF v
<1>5. tx.fts = Linked(TextOf(X)) /\ tx.vec = Linked(X \ {c})
  <2>1. X \ Unlinked = X /\ X \ (Unlinked \cup Pending) = X \ {c}
    BY <1>4
  <2>2. QED
    BY <2>1, LinksInTerms
<1>6. tx'.vec = Linked(X)
  BY <1>1, <1>3, <1>5 DEF Linked
<1>7. tx'.chunks \ Unlinked' = X /\ tx'.chunks \ (Unlinked' \cup Pending') = X
  BY <1>1, <1>4
<1>8. UniqueIds(db)' /\ UniqueIds(tx)'
  BY <1>1 DEF Links, UniqueIds
<1>9. db'.fts = Linked(TextOf(db'.chunks)) /\ db'.vec = Linked(db'.chunks)
  BY <1>1, LinksInTerms
<1>10. QED
  BY <1>1, <1>5, <1>6, <1>7, <1>8, <1>9 DEF Links, MirrorsFollowChunks, Linked, TextOf

\* A working copy that begins as the database, or is thrown away, is in step.
LEMMA LinksFresh ==
    ASSUME Links, stage' # "vector", stage' = "unlink" => left' = ChunksAt(tx', path'),
           \/ tx' = db /\ db' = db
           \/ tx' = Empty /\ UniqueIds(db)' /\ MirrorsFollowChunks'
    PROVE  Links'
<1>1. Unlinked' = {} /\ Pending' = {}
  BY DEF Unlinked, Pending
<1>2. tx'.chunks \ Unlinked' = tx'.chunks /\ tx'.chunks \ (Unlinked' \cup Pending') = tx'.chunks
  BY <1>1
<1>3. CASE tx' = db /\ db' = db
  BY <1>2, <1>3 DEF Links, MirrorsFollowChunks, UniqueIds
<1>4. CASE tx' = Empty /\ UniqueIds(db)' /\ MirrorsFollowChunks'
  BY <1>2, <1>4, EmptyTables DEF Links, UniqueIds
<1>5. QED
  BY <1>3, <1>4

\* A statement that leaves chunks, terms and vectors alone changes no link.
LEMMA LinksKept ==
    ASSUME Links, stage \notin {"unlink", "vector"}, stage' \notin {"unlink", "vector"}, db' = db,
           tx'.chunks = tx.chunks, tx'.fts = tx.fts, tx'.vec = tx.vec
    PROVE  Links'
BY DEF Links, MirrorsFollowChunks, UniqueIds, Unlinked, Pending

\* Every statement keeps the virtual tables in step.
LEMMA LinksNext == TypeOK /\ Links /\ Stages /\ Written /\ [Next]_vars => Links'
<1> SUFFICES ASSUME TypeOK, Links, Stages, Written, [Next]_vars PROVE Links'
  OBVIOUS
<1> USE DEF call
<1>1. ASSUME NEW p, NEW d, NEW n, NEW new, Open(p, d, n, new) PROVE Links'
  BY <1>1, LinksFresh DEF Open
<1>2. CASE Replacing
  BY <1>1, <1>2 DEF Replacing, ReplaceFile
<1>3. ASSUME NEW p \in Paths, RemoveFile(p) PROVE Links'
  BY <1>1, <1>3 DEF RemoveFile
<1>4. ASSUME NEW c \in tx.chunks, Unlink(c) PROVE Links'
  BY <1>4, LinksUnlink
<1>5. CASE DeleteChunks
  <2> DEFINE gone == ChunksAt(tx, path)
  <2>1. /\ stage = "unlink" /\ left = {} /\ stage' \in {"insert", "files"} /\ db' = db
        /\ tx'.chunks = tx.chunks \ gone /\ tx'.fts = tx.fts /\ tx'.vec = tx.vec
    BY <1>5, Deleting DEF DeleteChunks, TypeOK
  <2>2. Unlinked = gone /\ Pending = {} /\ Unlinked' = {} /\ Pending' = {}
    BY <2>1 DEF Unlinked, Pending
  <2>3. tx'.chunks \ Unlinked' = tx.chunks \ Unlinked
        /\ tx'.chunks \ (Unlinked' \cup Pending') = tx.chunks \ (Unlinked \cup Pending)
    BY <2>1, <2>2
  <2>4. UniqueIds(db)' /\ UniqueIds(tx)' /\ MirrorsFollowChunks'
    BY <2>1 DEF Links, UniqueIds, MirrorsFollowChunks
  <2>5. QED
    BY <2>1, <2>3, <2>4 DEF Links
<1>6. CASE InsertChunk
  BY <1>6, LinksInsertChunk
<1>7. CASE InsertVector
  BY <1>7, LinksInsertVector
<1>8. ASSUME NEW b \in Bodies, CacheVector(b) PROVE Links'
  BY <1>8, LinksKept DEF CacheVector, TypeOK, Tables
<1>9. CASE RecordFile
  BY <1>9, LinksKept DEF RecordFile, TypeOK, Tables
<1>10. CASE ForgetFile
  BY <1>10, LinksKept DEF ForgetFile, TypeOK, Tables
<1>11. CASE Commit
  <2>1. stage = "commit" /\ db' = tx /\ tx' = Empty /\ stage' = "idle"
    BY <1>11 DEF Commit, Close
  <2>2. Unlinked = {} /\ Pending = {}
    BY <2>1 DEF Unlinked, Pending
  <2>3. tx.chunks \ Unlinked = tx.chunks /\ tx.chunks \ (Unlinked \cup Pending) = tx.chunks
    BY <2>2
  <2>4. UniqueIds(db)' /\ MirrorsFollowChunks'
    BY <2>1, <2>3 DEF Links, UniqueIds, MirrorsFollowChunks
  <2>5. QED
    BY <2>1, <2>4, LinksFresh
<1>12. CASE Rollback
  <2>1. tx' = Empty /\ db' = db /\ stage' = "idle"
    BY <1>12 DEF Rollback, Close
  <2>2. UniqueIds(db)' /\ MirrorsFollowChunks'
    BY <2>1 DEF Links, UniqueIds, MirrorsFollowChunks
  <2>3. QED
    BY <2>1, <2>2, LinksFresh
<1>13. CASE WipeAndRebuild
  <2>1. db' = Empty /\ tx' = tx /\ stage = "idle" /\ stage' = "idle"
    BY <1>13 DEF WipeAndRebuild
  <2>2. UniqueIds(db)' /\ MirrorsFollowChunks'
    BY <2>1, EmptyTables DEF MirrorsFollowChunks, UniqueIds
  <2>3. UniqueIds(tx)' /\ Unlinked' = Unlinked /\ Pending' = Pending
    BY <2>1 DEF Links, UniqueIds, Unlinked, Pending
  <2>4. QED
    BY <2>1, <2>2, <2>3 DEF Links
<1>14. CASE UNCHANGED vars
  BY <1>14 DEF vars, Links, UniqueIds, MirrorsFollowChunks, Unlinked, Pending
<1>15. QED
  BY <1>2, <1>3, <1>4, <1>5, <1>6, <1>7, <1>8, <1>9, <1>10, <1>11, <1>12, <1>13, <1>14
     DEF Next

---------------------------------------------------------------------------
(* The stages of a call.                                                   *)

\* Every statement leaves what the next one relies on.
LEMMA StagesNext == TypeOK /\ Stages /\ Written /\ [Next]_vars => Stages'
<1> SUFFICES ASSUME TypeOK, Stages, Written, [Next]_vars PROVE Stages'
  OBVIOUS
<1> USE DEF Stages, call
<1>1. CASE Replacing
  <2>1. PICK p \in Paths, d \in Docs : \E n \in 0..Len(ChunksOf[d]) : ReplaceFile(p, d, n)
    BY <1>1 DEF Replacing
  <2>2. QED
    BY <2>1, StoreAssumption DEF ReplaceFile, Open
<1>2. ASSUME NEW p \in Paths, RemoveFile(p) PROVE Stages'
  BY <1>2 DEF RemoveFile, Open
<1>3. ASSUME NEW c \in tx.chunks, Unlink(c) PROVE Stages'
  <2>1. ChunksAt(tx', path') = ChunksAt(tx, path)
    BY <1>3 DEF Unlink, ChunksAt, TypeOK, Tables
  <2>2. QED
    BY <1>3, <2>1 DEF Unlink
<1>4. CASE DeleteChunks
  BY <1>4 DEF DeleteChunks
<1>5. CASE InsertChunk
  BY <1>5 DEF InsertChunk
<1>6. CASE InsertVector
  BY <1>6 DEF InsertVector, TypeOK
<1>7. ASSUME NEW b \in Bodies, CacheVector(b) PROVE Stages'
  BY <1>7 DEF CacheVector
<1>8. CASE RecordFile
  BY <1>8 DEF RecordFile
<1>9. CASE ForgetFile
  BY <1>9 DEF ForgetFile
<1>10. CASE Commit
  BY <1>10 DEF Commit, Close
<1>11. CASE Rollback
  BY <1>11 DEF Rollback, Close
<1>12. CASE WipeAndRebuild
  BY <1>12 DEF WipeAndRebuild
<1>13. CASE UNCHANGED vars
  BY <1>13 DEF vars, ChunksAt
<1>14. QED
  BY <1>1, <1>2, <1>3, <1>4, <1>5, <1>6, <1>7, <1>8, <1>9, <1>10, <1>11, <1>12, <1>13
     DEF Next

---------------------------------------------------------------------------
(* What has been written of the version.                                   *)

\* The inserted row is the next of the version.
LEMMA WrittenInsertChunk ==
    ASSUME TypeOK, Stages, Written, InsertChunk
    PROVE  Written'
<1>1. PICK id \in NewIds(tx.chunks) :
        LET c == [id |-> id, path |-> path, idx |-> next,
                  body |-> ChunksOf[doc][next].body, kind |-> ChunksOf[doc][next].kind]
        IN /\ tx' = [tx EXCEPT !.chunks = @ \cup {c},
                              !.fts = IF c.kind = "text" THEN @ \cup {Body(c)} ELSE @]
           /\ rowid' = id
  BY DEF InsertChunk
<1> DEFINE c == [id |-> id, path |-> path, idx |-> next,
                 body |-> ChunksOf[doc][next].body, kind |-> ChunksOf[doc][next].kind]
           R == ChunksAt(tx, path)
<1>2. /\ stage = "insert" /\ stage' = "vector" /\ UNCHANGED <<path, doc, next>> /\ rowid' = id
      /\ tx'.chunks = tx.chunks \cup {c}
  BY <1>1 DEF InsertChunk, TypeOK, Tables, call
<1>3. /\ c.path = path /\ c.idx = next /\ c.id = id
      /\ c.body = ChunksOf[doc][next].body /\ c.kind = ChunksOf[doc][next].kind
  OBVIOUS
<1> HIDE DEF c
<1>4. ChunksAt(tx', path') = R \cup {c}
  BY <1>2, <1>3 DEF ChunksAt
<1> HIDE DEF R
<1>5. next \in Nat \ {0}
  BY <1>2 DEF TypeOK, Stages
<1>6. WrittenUpTo(next - 1)
  BY <1>2 DEF Written
<1>7. \A r \in R : /\ r.idx \in 1..(next - 1)
                   /\ r.body = ChunksOf[doc][r.idx].body /\ r.kind = ChunksOf[doc][r.idx].kind
  BY <1>6 DEF R, WrittenUpTo
<1>8. \A i \in 1..(next - 1) : \E r \in R : r.idx = i
  BY <1>6 DEF R, WrittenUpTo
<1>9. \A r \in R \cup {c} : /\ r.idx \in 1..next
                            /\ r.body = ChunksOf[doc][r.idx].body /\ r.kind = ChunksOf[doc][r.idx].kind
  BY <1>3, <1>5, <1>7
<1>10. \A i \in 1..next : \E r \in R \cup {c} : r.idx = i
  <2> SUFFICES ASSUME NEW i \in 1..next PROVE \E r \in R \cup {c} : r.idx = i
    OBVIOUS
  <2>1. i = next \/ i \in 1..(next - 1)
    BY <1>5
  <2>2. QED
    BY <2>1, <1>3, <1>8
<1>11. WrittenUpTo(next)'
  BY <1>2, <1>4, <1>9, <1>10 DEF WrittenUpTo
<1>12. \E r \in ChunksAt(tx', path') : r.id = rowid' /\ r.idx = next'
  BY <1>2, <1>3, <1>4
<1>13. QED
  BY <1>2, <1>11, <1>12 DEF Written

\* Every statement leaves a prefix of the version written.
LEMMA WrittenNext == TypeOK /\ Stages /\ Written /\ [Next]_vars => Written'
<1> SUFFICES ASSUME TypeOK, Stages, Written, [Next]_vars PROVE Written'
  OBVIOUS
<1> USE DEF call
<1>1. CASE Replacing
  BY <1>1 DEF Replacing, ReplaceFile, Open, Written
<1>2. ASSUME NEW p \in Paths, RemoveFile(p) PROVE Written'
  BY <1>2 DEF RemoveFile, Open, Written
<1>3. ASSUME NEW c \in tx.chunks, Unlink(c) PROVE Written'
  BY <1>3 DEF Unlink, Written
<1>4. CASE DeleteChunks
  <2>1. /\ stage = "unlink" /\ UNCHANGED <<path, doc, next, upto>>
        /\ stage' = IF doc = NONE THEN "files" ELSE "insert"
        /\ tx'.chunks = tx.chunks \ ChunksAt(tx, path)
    BY <1>4, Deleting DEF DeleteChunks, TypeOK
  <2>2. ChunksAt(tx', path') = {}
    BY <2>1 DEF ChunksAt
  <2>3. next = 1 /\ upto \in Nat
    BY <2>1 DEF Stages, TypeOK
  <2>4. WrittenUpTo(0)'
    BY <2>2 DEF WrittenUpTo
  <2>5. next' - 1 = 0 /\ next' <= upto' + 1
    BY <2>1, <2>3
  <2>6. WrittenUpTo(next - 1)'
    BY <2>2, <2>5 DEF WrittenUpTo
  <2>7. QED
    BY <2>1, <2>2, <2>5, <2>6 DEF Written
<1>5. CASE InsertChunk
  BY <1>5, WrittenInsertChunk
<1>6. CASE InsertVector
  <2>1. /\ stage = "vector" /\ stage' = "insert" /\ next' = next + 1
        /\ UNCHANGED <<path, doc, upto>> /\ tx'.chunks = tx.chunks
    BY <1>6 DEF InsertVector, TypeOK, Tables
  <2>2. next' - 1 = next /\ next' <= upto' + 1
    BY <2>1 DEF Stages, TypeOK
  <2>3. ChunksAt(tx', path') = ChunksAt(tx, path)
    BY <2>1 DEF ChunksAt
  <2>4. WrittenUpTo(next - 1)'
    BY <2>1, <2>2, <2>3 DEF Written, WrittenUpTo
  <2>5. QED
    BY <2>1, <2>2, <2>4 DEF Written
<1>7. ASSUME NEW b \in Bodies, CacheVector(b) PROVE Written'
  <2>1. ChunksAt(tx', path') = ChunksAt(tx, path)
    BY <1>7 DEF CacheVector, ChunksAt, TypeOK, Tables
  <2>2. QED
    BY <1>7, <2>1 DEF CacheVector, Written, WrittenUpTo
<1>8. CASE RecordFile
  <2>1. ChunksAt(tx', path') = ChunksAt(tx, path)
    BY <1>8 DEF RecordFile, ChunksAt, TypeOK, Tables
  <2>2. next - 1 = upto /\ WrittenUpTo(next - 1)
    BY <1>8 DEF RecordFile, Written, TypeOK
  <2>3. WrittenUpTo(upto)'
    BY <1>8, <2>1, <2>2 DEF RecordFile, WrittenUpTo
  <2>4. QED
    BY <1>8, <2>3 DEF RecordFile, Written, TypeOK
<1>9. CASE ForgetFile
  <2>1. ChunksAt(tx', path') = ChunksAt(tx, path)
    BY <1>9 DEF ForgetFile, ChunksAt, TypeOK, Tables
  <2>2. QED
    BY <1>9, <2>1 DEF ForgetFile, Written, Stages
<1>10. CASE Commit
  BY <1>10 DEF Commit, Close, Written
<1>11. CASE Rollback
  BY <1>11 DEF Rollback, Close, Written
<1>12. CASE WipeAndRebuild
  BY <1>12 DEF WipeAndRebuild, Written
<1>13. CASE UNCHANGED vars
  BY <1>13 DEF vars, Written, WrittenUpTo, ChunksAt
<1>14. QED
  BY <1>1, <1>2, <1>3, <1>4, <1>5, <1>6, <1>7, <1>8, <1>9, <1>10, <1>11, <1>12, <1>13
     DEF Next

---------------------------------------------------------------------------
(* What a call leaves alone.                                               *)

\* A statement that leaves the rows and the records alone touches no path.
LEMMA ElsewhereKept ==
    ASSUME Elsewhere, db' = db, path' = path, tx'.chunks = tx.chunks, tx'.files = tx.files,
           stage \notin {"idle", "commit"}, stage' \notin {"idle", "commit"}
    PROVE  Elsewhere'
BY DEF Elsewhere, ChunksAt

\* Every statement keeps to the path of the call.
LEMMA ElsewhereNext == TypeOK /\ Stages /\ Elsewhere /\ [Next]_vars => Elsewhere'
<1> SUFFICES ASSUME TypeOK, Stages, Elsewhere, [Next]_vars PROVE Elsewhere'
  OBVIOUS
<1> USE DEF call
<1>1. ASSUME NEW p, NEW d, NEW n, NEW new, Open(p, d, n, new) PROVE Elsewhere'
  BY <1>1 DEF Open, Elsewhere
<1>2. CASE Replacing
  BY <1>1, <1>2 DEF Replacing, ReplaceFile
<1>3. ASSUME NEW p \in Paths, RemoveFile(p) PROVE Elsewhere'
  BY <1>1, <1>3 DEF RemoveFile
<1>4. ASSUME NEW c \in tx.chunks, Unlink(c) PROVE Elsewhere'
  BY <1>4, ElsewhereKept DEF Unlink, TypeOK, Tables
<1>5. CASE DeleteChunks
  <2>1. /\ stage = "unlink" /\ stage' \in {"insert", "files"} /\ UNCHANGED <<db, path>>
        /\ tx'.chunks = tx.chunks \ ChunksAt(tx, path) /\ tx'.files = tx.files
    BY <1>5, Deleting DEF DeleteChunks, TypeOK
  <2>2. \A q \in Paths \ {path} : ChunksAt(tx', q) = ChunksAt(tx, q)
    BY <2>1 DEF ChunksAt
  <2>3. QED
    BY <2>1, <2>2 DEF Elsewhere
<1>6. CASE InsertChunk
  <2>1. /\ stage = "insert" /\ stage' = "vector" /\ UNCHANGED <<db, path>>
        /\ tx'.files = tx.files
        /\ \E c : c.path = path /\ tx'.chunks = tx.chunks \cup {c}
    BY <1>6 DEF InsertChunk, TypeOK, Tables
  <2>2. \A q \in Paths \ {path} : ChunksAt(tx', q) = ChunksAt(tx, q)
    BY <2>1 DEF ChunksAt
  <2>3. QED
    BY <2>1, <2>2 DEF Elsewhere
<1>7. CASE InsertVector
  BY <1>7, ElsewhereKept DEF InsertVector, TypeOK, Tables
<1>8. ASSUME NEW b \in Bodies, CacheVector(b) PROVE Elsewhere'
  BY <1>8, ElsewhereKept DEF CacheVector, TypeOK, Tables
<1>9. CASE RecordFile
  <2>1. /\ stage = "insert" /\ stage' = "commit" /\ UNCHANGED <<db, path, doc>>
        /\ tx'.chunks = tx.chunks /\ tx'.files = [tx.files EXCEPT ![path] = doc]
    BY <1>9 DEF RecordFile, TypeOK, Tables
  <2>2. QED
    BY <2>1 DEF Elsewhere, ChunksAt
<1>10. CASE ForgetFile
  <2>1. /\ stage = "files" /\ stage' = "commit" /\ UNCHANGED <<db, path, doc>> /\ doc = NONE
        /\ tx'.chunks = tx.chunks /\ tx'.files = [tx.files EXCEPT ![path] = NONE]
    BY <1>10 DEF ForgetFile, TypeOK, Tables, Stages
  <2>2. QED
    BY <2>1 DEF Elsewhere, ChunksAt
<1>11. CASE Commit
  BY <1>11 DEF Commit, Close, Elsewhere
<1>12. CASE Rollback
  BY <1>12 DEF Rollback, Close, Elsewhere
<1>13. CASE WipeAndRebuild
  BY <1>13 DEF WipeAndRebuild, Elsewhere
<1>14. CASE UNCHANGED vars
  BY <1>14 DEF vars, Elsewhere, ChunksAt
<1>15. QED
  BY <1>2, <1>3, <1>4, <1>5, <1>6, <1>7, <1>8, <1>9, <1>10, <1>11, <1>12, <1>13, <1>14
     DEF Next

---------------------------------------------------------------------------
(* The cache.                                                              *)

\* A vector leaves the fresh ones only into the cache, and none is left when
\* the call commits.
LEMMA CachedNext == TypeOK /\ Stages /\ Cached /\ [Next]_vars => Cached'
<1> SUFFICES ASSUME TypeOK, Stages, Cached, [Next]_vars PROVE Cached'
  OBVIOUS
<1> USE DEF call, Bodied
<1>1. CASE Replacing
  <2>1. PICK p \in Paths, d \in Docs : \E n \in 0..Len(ChunksOf[d]) : ReplaceFile(p, d, n)
    BY <1>1 DEF Replacing
  <2> PICK n \in 0..Len(ChunksOf[d]) : ReplaceFile(p, d, n)
    BY <2>1
  <2>2. tx' = db /\ db' = db /\ doc' = d /\ upto' = n /\ fresh' = Misses(d, n)
    BY DEF ReplaceFile, Open
  <2>3. \A i \in 1..n : ChunksOf[d][i].body \in db.cache \cup Misses(d, n)
    BY DEF Misses
  <2>4. QED
    BY <2>2, <2>3 DEF Cached, IndexedIsCached
<1>2. ASSUME NEW p \in Paths, RemoveFile(p) PROVE Cached'
  BY <1>2 DEF RemoveFile, Open, Cached, IndexedIsCached
<1>3. ASSUME NEW c \in tx.chunks, Unlink(c) PROVE Cached'
  <2>1. tx'.chunks = tx.chunks /\ tx'.cache = tx.cache
    BY <1>3 DEF Unlink, TypeOK, Tables
  <2>2. QED
    BY <1>3, <2>1 DEF Unlink, Cached, IndexedIsCached
<1>4. CASE DeleteChunks
  <2>1. tx'.chunks \subseteq tx.chunks /\ tx'.cache = tx.cache
    BY <1>4, Deleting DEF DeleteChunks, TypeOK
  <2>2. QED
    BY <1>4, <2>1 DEF DeleteChunks, Cached, IndexedIsCached
<1>5. CASE InsertChunk
  <2>1. /\ stage = "insert" /\ stage' = "vector" /\ UNCHANGED <<db, doc, upto, fresh>>
        /\ tx'.cache = tx.cache
        /\ \E c : c.body = ChunksOf[doc][next].body /\ tx'.chunks = tx.chunks \cup {c}
    BY <1>5 DEF InsertChunk, TypeOK, Tables
  <2>2. next \in 1..upto /\ doc # NONE
    BY <1>5 DEF InsertChunk, TypeOK, Stages
  <2>3. ChunksOf[doc][next].body \in tx.cache \cup fresh
    BY <2>1, <2>2 DEF Cached
  <2>4. QED
    BY <2>1, <2>2, <2>3 DEF Cached, IndexedIsCached
<1>6. CASE InsertVector
  <2>1. tx'.chunks = tx.chunks /\ tx'.cache = tx.cache
    BY <1>6 DEF InsertVector, TypeOK, Tables
  <2>2. QED
    BY <1>6, <2>1 DEF InsertVector, Cached, IndexedIsCached
<1>7. ASSUME NEW b \in Bodies, CacheVector(b) PROVE Cached'
  <2>1. tx'.chunks = tx.chunks /\ tx'.cache = tx.cache \cup {b} /\ fresh' = fresh \ {b}
    BY <1>7 DEF CacheVector, TypeOK, Tables
  <2>2. tx'.cache \cup fresh' = tx.cache \cup fresh \cup {b}
    BY <2>1
  <2>3. QED
    BY <1>7, <2>1, <2>2 DEF CacheVector, Cached, IndexedIsCached
<1>8. CASE RecordFile
  <2>1. tx'.chunks = tx.chunks /\ tx'.cache = tx.cache
    BY <1>8 DEF RecordFile, TypeOK, Tables
  <2>2. QED
    BY <1>8, <2>1 DEF RecordFile, Cached, IndexedIsCached
<1>9. CASE ForgetFile
  <2>1. tx'.chunks = tx.chunks /\ tx'.cache = tx.cache
    BY <1>9 DEF ForgetFile, TypeOK, Tables
  <2>2. QED
    BY <1>9, <2>1 DEF ForgetFile, Cached, IndexedIsCached
<1>10. CASE Commit
  <2>1. fresh = {} /\ db' = tx /\ tx' = Empty /\ stage' = "idle"
    BY <1>10 DEF Commit, Close, Stages
  <2>2. QED
    BY <2>1, EmptyTables DEF Cached, IndexedIsCached
<1>11. CASE Rollback
  <2>1. db' = db /\ tx' = Empty /\ stage' = "idle"
    BY <1>11 DEF Rollback, Close
  <2>2. QED
    BY <2>1, EmptyTables DEF Cached, IndexedIsCached
<1>12. CASE WipeAndRebuild
  <2>1. db' = Empty /\ UNCHANGED <<tx, stage, doc, upto, fresh>>
    BY <1>12 DEF WipeAndRebuild
  <2>2. QED
    BY <2>1, EmptyTables DEF Cached, IndexedIsCached
<1>13. CASE UNCHANGED vars
  BY <1>13 DEF vars, Cached, IndexedIsCached
<1>14. QED
  BY <1>1, <1>2, <1>3, <1>4, <1>5, <1>6, <1>7, <1>8, <1>9, <1>10, <1>11, <1>12, <1>13
     DEF Next

---------------------------------------------------------------------------
(* The theorems.                                                           *)

\* The empty database is where everything begins.
LEMMA InitIInv == Init => IInv
<1> SUFFICES ASSUME Init PROVE IInv
  OBVIOUS
<1> USE EmptyTables DEF Init
<1>1. TypeOK
  BY StoreAssumption DEF TypeOK
<1>2. Links
  BY DEF Links, MirrorsFollowChunks, Unlinked, Pending
<1>3. Stages /\ Written
  BY DEF Stages, Written
<1>4. Elsewhere
  BY DEF Elsewhere
<1>5. Cached
  BY DEF Cached, IndexedIsCached, Bodied
<1>6. QED
  BY <1>1, <1>2, <1>3, <1>4, <1>5 DEF IInv

\* The invariant is inductive.
THEOREM Inductive == Spec => []IInv
<1>1. IInv /\ [Next]_vars => IInv'
  BY TypeNext, LinksNext, StagesNext, WrittenNext, ElsewhereNext, CachedNext DEF IInv
<1>2. QED
  BY <1>1, InitIInv, PTL DEF Spec

\* The tables and the working copy have their types, and a transaction works
\* on one path from its first statement to its last.
THEOREM TypeCorrect == Spec => []TypeOK
<1>1. IInv => TypeOK
  BY DEF IInv
<1>2. QED
  BY <1>1, Inductive, PTL

\* No committed state has a term or a vector of a chunk that is gone, or a
\* chunk without its own: replace_file, remove_file and wipe_and_rebuild keep
\* chunks_fts and chunks_vec in step by hand, whatever statement fails.
THEOREM TablesInStep == Spec => []MirrorsFollowChunks
<1>1. IInv => MirrorsFollowChunks
  BY DEF IInv, Links
<1>2. QED
  BY <1>1, Inductive, PTL

\* No insert of replace_file meets a row that is there already: the rows of
\* the path were deleted, and the vector of a row id that comes back with them.
THEOREM FilesCanBeIndexed == Spec => []InsertsNeverCollide
<1>1. ASSUME IInv PROVE InsertsNeverCollide
  <2> USE <1>1 DEF IInv
  <2>1. stage = "insert" => \A r \in ChunksAt(tx, path) : r.idx # next
    <3> SUFFICES ASSUME stage = "insert", NEW r \in ChunksAt(tx, path) PROVE r.idx # next
      OBVIOUS
    <3>1. r.idx \in 1..(next - 1)
      BY DEF Written, WrittenUpTo
    <3>2. QED
      BY <3>1 DEF TypeOK
  <2>2. stage = "vector" => rowid \notin Ids(tx.vec)
    <3> SUFFICES ASSUME stage = "vector", NEW v \in tx.vec, v.id = rowid PROVE FALSE
      BY DEF Ids
    <3>1. tx.vec = Linked(tx.chunks \ (Unlinked \cup Pending))
      BY LinksInTerms
    <3>2. PICK c \in tx.chunks \ Pending : v = Body(c)
      BY <3>1 DEF Linked
    <3>3. QED
      BY <3>2 DEF Pending, Body
  <2>3. QED
    BY <2>1, <2>2 DEF InsertsNeverCollide
<1>2. QED
  BY <1>1, Inductive, PTL

\* No chunk is indexed whose vector is not in embedding_cache: a renamed or
\* reverted file is embedded without a call to the provider.
THEOREM NothingPaidTwice == Spec => []IndexedIsCached
<1>1. IInv => IndexedIsCached
  BY DEF IInv, Cached
<1>2. QED
  BY <1>1, Inductive, PTL

---------------------------------------------------------------------------
(* The refinement.                                                         *)

\* What a reader sees of a chunk that has its own vector and its own terms.
Whole(c) == [idx |-> c.idx, body |-> c.body, vectors |-> {c.body},
             terms |-> IF c.kind = "text" THEN {c.body} ELSE {}]

InStep(t) == UniqueIds(t) /\ t.fts = Linked(TextOf(t.chunks)) /\ t.vec = Linked(t.chunks)

\* The tables in step, a chunk joined with its links is whole.
LEMMA JoinIsWhole ==
    ASSUME NEW t, InStep(t), NEW c \in t.chunks
    PROVE  [idx |-> c.idx, body |-> c.body,
            vectors |-> {v.body : v \in {v \in t.vec : v.id = c.id}},
            terms |-> {f.body : f \in {f \in t.fts : f.id = c.id}}] = Whole(c)
<1>1. {v \in t.vec : v.id = c.id} = {Body(c)}
  <2>1. \A d \in t.chunks : Body(d).id = c.id => d = c
    BY DEF InStep, UniqueIds, Body
  <2>2. Body(c).id = c.id /\ t.vec = Linked(t.chunks)
    BY DEF InStep, Body
  <2>3. QED
    BY <2>1, <2>2 DEF Linked
<1>2. {f \in t.fts : f.id = c.id} = IF c.kind = "text" THEN {Body(c)} ELSE {}
  <2>1. \A d \in TextOf(t.chunks) : Body(d).id = c.id => d = c
    BY DEF InStep, UniqueIds, TextOf, Body
  <2>2. c \in TextOf(t.chunks) <=> c.kind = "text"
    BY DEF TextOf
  <2>3. Body(c).id = c.id /\ t.fts = Linked(TextOf(t.chunks))
    BY DEF InStep, Body
  <2>4. QED
    BY <2>1, <2>2, <2>3 DEF Linked
<1>3. Body(c).body = c.body
  BY DEF Body
<1>4. QED
  BY <1>1, <1>2, <1>3 DEF Whole

\* So a reader sees whole chunks of every path.
LEMMA ShownIsWhole ==
    ASSUME InStep(db)
    PROVE  Shown = [p \in Paths |-> {Whole(c) : c \in ChunksAt(db, p)}]
<1> SUFFICES ASSUME NEW p \in Paths
             PROVE  Shown[p] = {Whole(c) : c \in ChunksAt(db, p)}
  BY DEF Shown
<1>1. ChunksAt(db, p) \subseteq db.chunks
  BY DEF ChunksAt
<1>2. QED
  BY <1>1, JoinIsWhole DEF Shown

\* The rows of a written version are its entries.
LEMMA WrittenIsWhole ==
    ASSUME doc \in Docs, WrittenUpTo(Len(ChunksOf[doc]))
    PROVE  {Whole(c) : c \in ChunksAt(tx, path)} = EntriesOf[doc]
<1> DEFINE E(i) == [idx |-> i, body |-> ChunksOf[doc][i].body,
                    vectors |-> {ChunksOf[doc][i].body},
                    terms |-> IF ChunksOf[doc][i].kind = "text" THEN {ChunksOf[doc][i].body} ELSE {}]
           R == ChunksAt(tx, path)
           N == 1..Len(ChunksOf[doc])
<1>1. DOMAIN ChunksOf[doc] = N
  BY StoreAssumption
<1>2. EntriesOf[doc] = {E(i) : i \in N}
  BY <1>1 DEF EntriesOf
<1>3. \A c \in R : c.idx \in N /\ Whole(c) = E(c.idx)
  BY DEF WrittenUpTo, Whole
<1>4. \A i \in N : \E c \in R : c.idx = i
  BY DEF WrittenUpTo
<1> HIDE DEF E, R, N
<1>5. {Whole(c) : c \in R} = {E(i) : i \in N}
  BY <1>3, <1>4
<1>6. QED
  BY <1>2, <1>5 DEF R

\* A commit is one whole replacement or removal.
LEMMA CommitIsAtomic ==
    ASSUME IInv, IInv', Commit
    PROVE  Index!Next
<1> USE DEF IInv
<1>1. stage = "commit" /\ db' = tx
  BY DEF Commit
<1>2. path \in Paths /\ path # NONE
  BY <1>1 DEF TypeOK
<1>3. InStep(db) /\ InStep(db)'
  BY DEF InStep, Links, MirrorsFollowChunks, Linked, TextOf, UniqueIds
<1> DEFINE new == {Whole(c) : c \in ChunksAt(tx, path)}
<1>4. Shown' = [Shown EXCEPT ![path] = new]
  <2>1. Shown = [p \in Paths |-> {Whole(c) : c \in ChunksAt(db, p)}]
    BY <1>3, ShownIsWhole
  <2>2. (InStep(db) => Shown = [p \in Paths |-> {Whole(c) : c \in ChunksAt(db, p)}])'
    BY ShownIsWhole, PTL
  <2>3. Shown' = [p \in Paths |-> {Whole(c) : c \in ChunksAt(tx, p)}]
    BY <1>1, <1>3, <2>2 DEF Whole, ChunksAt
  <2>4. \A q \in Paths \ {path} : ChunksAt(tx, q) = ChunksAt(db, q)
    BY <1>1 DEF Elsewhere
  <2>5. QED
    BY <2>1, <2>3, <2>4
<1>5. db'.files = [db.files EXCEPT ![path] = doc]
  BY <1>1 DEF Elsewhere
<1>6. CASE doc = NONE
  <2>1. new = {}
    BY <1>1, <1>6 DEF Written
  <2>2. Index!Remove(path)
    BY <1>4, <1>5, <1>6, <2>1 DEF Index!Remove
  <2>3. QED
    BY <1>2, <2>2 DEF Index!Next
<1>7. CASE doc # NONE
  <2>1. doc \in Docs /\ upto = Len(ChunksOf[doc])
    BY <1>1, <1>7 DEF TypeOK, Stages
  <2>2. new = EntriesOf[doc]
    BY <1>1, <1>7, <2>1, WrittenIsWhole DEF Written
  <2>3. Index!Replace(path, doc)
    BY <1>4, <1>5, <2>2 DEF Index!Replace
  <2>4. QED
    BY <1>2, <2>1, <2>3 DEF Index!Next
<1>8. QED
  BY <1>6, <1>7

\* Every step is one of the atomic index, or invisible.
LEMMA StepIsAtomic == IInv /\ IInv' /\ [Next]_vars => [Index!Next]_<<Shown, db.files>>
<1> SUFFICES ASSUME IInv, IInv', [Next]_vars
             PROVE  [Index!Next]_<<Shown, db.files>>
  OBVIOUS
<1> USE DEF call
<1>1. ASSUME db' = db PROVE UNCHANGED <<Shown, db.files>>
  BY <1>1 DEF Shown, ChunksAt
<1>2. CASE Commit
  BY <1>2, CommitIsAtomic
<1>3. CASE WipeAndRebuild
  <2>1. db' = Empty
    BY <1>3 DEF WipeAndRebuild
  <2>2. Shown' = [p \in Paths |-> {}]
    BY <2>1, EmptyTables DEF Shown, ChunksAt
  <2>3. Index!Wipe
    BY <2>1, <2>2, EmptyTables DEF Index!Wipe
  <2>4. QED
    BY <2>3 DEF Index!Next
<1>4. CASE \E p \in Paths : \E d \in Docs : \E n \in 0..Len(ChunksOf[d]) : ReplaceFile(p, d, n)
  BY <1>1, <1>4 DEF ReplaceFile, Open
<1>5. CASE \E p \in Paths : RemoveFile(p)
  BY <1>1, <1>5 DEF RemoveFile, Open
<1>6. CASE \E c \in tx.chunks : Unlink(c)
  BY <1>1, <1>6 DEF Unlink
<1>7. CASE DeleteChunks \/ InsertChunk \/ InsertVector \/ RecordFile \/ ForgetFile
  BY <1>1, <1>7 DEF DeleteChunks, InsertChunk, InsertVector, RecordFile, ForgetFile
<1>8. CASE \E b \in Bodies : CacheVector(b)
  BY <1>1, <1>8 DEF CacheVector
<1>9. CASE Rollback \/ UNCHANGED vars
  BY <1>1, <1>9 DEF Rollback, vars
<1>10. QED
  BY <1>2, <1>3, <1>4, <1>5, <1>6, <1>7, <1>8, <1>9 DEF Next, Replacing

\* The store implements the atomic index: between two commits a reader sees
\* nothing of a transaction, and a commit shows all of one version of one file,
\* each chunk with its own vector and terms, or none of it.
THEOREM StoreIsAtomic == Spec => ImplementsAtomicIndex
<1>1. Init => Index!Init
  <2> SUFFICES ASSUME Init PROVE Index!Init
    OBVIOUS
  <2>1. Shown = [p \in Paths |-> {}]
    BY EmptyTables DEF Init, Shown, ChunksAt
  <2>2. QED
    BY <2>1, EmptyTables DEF Init, Index!Init
<1>2. QED
  BY <1>1, StepIsAtomic, Inductive, PTL DEF Spec, ImplementsAtomicIndex, Index!Spec

=============================================================================
