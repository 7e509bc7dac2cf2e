----------------------------- MODULE FileIndex -----------------------------
(***************************************************************************)
(* What reindex_one (src/indexer/mod.rs) makes of one file: a document is  *)
(* split by the chunker, step by step; an image or a PDF is prepared for   *)
(* the provider under the media policy; either way each chunk's embedding  *)
(* comes from the cache or from the provider, and the rows are replaced at *)
(* once.  The program is restarted under other policies, and the media     *)
(* rows of an earlier policy must not pass for current.                    *)
(*                                                                         *)
(* A document is indexed once.  What happens to the queue, and a file that *)
(* changes while it is read, is in IndexPipeline.                          *)
(***************************************************************************)
EXTENDS Chunker, MediaPrepare

CONSTANTS
    PagesPerChunk, Dpis, MaxFileMb,  \* bounds: the media settings
    Contents,                        \* bound: what a page or a picture shows
    MaxPages,                        \* bound: pages of a PDF
    Sides,                           \* bound: a picture's width and height
    MaxStarts                        \* bound: starts of the program

ASSUME FileIndexAssumption ==
    /\ PagesPerChunk \subseteq Nat /\ Dpis \subseteq Nat /\ MaxFileMb \subseteq Nat
    /\ {} \notin {PagesPerChunk, Dpis, MaxFileMb}
    /\ Sides \subseteq Nat \ {0}
    /\ {MaxPages, MaxStarts} \subseteq Nat

VARIABLES
    file,    \* the file: its extension, its size and its bytes
    model,   \* what registry::lookup says of the configured model
    policy,  \* the media policy of this start
    starts,
    job,     \* where reindex_one is
    row,     \* the file's hash, chunks and vectors in the store, if any
    cache    \* the embedding cache: a set of [key, vector]

media == <<file, model, policy, starts>>
fileVars == <<chunker, media, job, row, cache>>

Images ==
    [format : {"png", "jpeg"}, decodes : BOOLEAN, animated : {FALSE},
     picture : Contents, size : Sides \X Sides]
    \cup [format : {"gif", "webp"}, decodes : BOOLEAN, animated : BOOLEAN,
          picture : Contents, size : Sides \X Sides]
    \cup [format : {"bmp", "unknown"}, decodes : {FALSE}, animated : {FALSE},
          picture : Contents, size : {<<1, 1>>}]

Pdfs ==
    UNION {[format : {"pdf"}, parses : BOOLEAN, pages : [1..n -> Contents], bad : 0..n] :
            n \in 0..MaxPages}

MediaFiles ==
    {f \in [ext : {"png", "pdf"}, mb : MaxFileMb, bytes : Images \cup Pdfs] :
        f.ext = "pdf" => f.bytes.format = "pdf"}

Document == [ext |-> "md", mb |-> 1, bytes |-> [format |-> "text"]]

ModelInfos ==
    {[media_capable |-> TRUE, pdf_mode |-> "native"],    \* gemini-embedding-2
     [media_capable |-> TRUE, pdf_mode |-> "raster"],    \* voyage-multimodal-3.5, fake
     [media_capable |-> FALSE, pdf_mode |-> "none"]}     \* all others

Policies ==
    [pdf_pages_per_chunk : PagesPerChunk, pdf_dpi : Dpis, max_file_mb : MaxFileMb,
     excluded_types : {{}, {"pdf"}}]

\* The chunker has nothing to do for a media file.
EmptyNote == [utf8 |-> TRUE, lines |-> <<>>]

None == [hash |-> <<>>, chunks |-> <<>>, vectors |-> <<>>]
Idle == [at |-> "idle"]

FileInit ==
    /\ row = None /\ cache = {} /\ starts = 1
    /\ \/ /\ split_with(Documents, MaxTokens, Overlaps)
          /\ file = Document /\ job = [at |-> "split"]
          /\ model = CHOOSE m \in ModelInfos : TRUE
          /\ policy = CHOOSE p \in Policies : TRUE
       \/ /\ split_with({EmptyNote}, {0}, {0})
          /\ file \in MediaFiles /\ job = Idle
          /\ model \in ModelInfos /\ policy \in Policies

----------------------------------------------------------------------------
\* MediaPolicy

for_extension(ext) ==
    CASE ext = "md" -> "text" [] ext = "png" -> "image" [] ext = "pdf" -> "pdf"

allows_existing_file ==
    LET type == for_extension(file.ext)
    IN \/ type = "text"
       \/ type \notin policy.excluded_types /\ file.mb <= policy.max_file_mb

\* Mutant: the hash is of the bytes alone.
hash_of_bytes == <<file.bytes>>

\* The hash of a media file also names the settings it was prepared under.
effective_file_hash ==
    IF for_extension(file.ext) = "text" THEN <<file.bytes>>
    ELSE <<file.bytes, policy.max_file_mb, policy.pdf_pages_per_chunk, policy.pdf_dpi>>

----------------------------------------------------------------------------
\* reindex_one

options ==
    [pdf_pages_per_chunk |-> policy.pdf_pages_per_chunk, pdf_dpi |-> policy.pdf_dpi,
     max_image_pixels |-> MAX_IMAGE_PIXELS]

\* The chunks with their keys: a text chunk's is a hash of its content.
Keyed(chunks) ==
    [i \in DOMAIN chunks |-> [key |-> cache_key_for_input(chunks[i]), chunk |-> chunks[i]]]

TextChunks ==
    [i \in DOMAIN out |-> [key |-> <<"text", out[i].content>>, chunk |-> out[i]]]

Splitting ==
    /\ job.at = "split" /\ split_step
    /\ UNCHANGED <<media, job, row, cache>>

SplitDone ==
    /\ job.at = "split" /\ pc = "done"
    /\ job' = [at |-> "chunked", hash |-> effective_file_hash, chunks |-> TextChunks]
    /\ UNCHANGED <<chunker, media, row, cache>>

Starting == job = Idle /\ file.ext # "md"

Refuse ==
    /\ Starting /\ ~allows_existing_file
    /\ row' = None
    /\ job' = [at |-> "ended"]
    /\ UNCHANGED <<chunker, media, cache>>

Unchanged ==
    /\ Starting /\ allows_existing_file
    /\ row.hash = effective_file_hash
    /\ job' = [at |-> "ended"]
    /\ UNCHANGED <<chunker, media, row, cache>>

Prepare ==
    /\ Starting /\ allows_existing_file
    /\ row.hash # effective_file_hash
    /\ LET prepared == prepare_media(file.bytes, model, options)
       IN job' = IF prepared.ok
                 THEN [at |-> "chunked", hash |-> effective_file_hash,
                       chunks |-> Keyed(prepared.value)]
                 ELSE [at |-> "ended"]
    /\ UNCHANGED <<chunker, media, row, cache>>

\* What the provider makes of an input.
Embedding(chunk) == IF for_extension(file.ext) = "text" THEN chunk.content ELSE chunk.parts

Cached(key) == \E entry \in cache : entry.key = key

\* Mutant: the fresh vectors are put behind the cached ones.
resolve_in_two_heaps(chunks) ==
    LET hit == SelectSeq(chunks, LAMBDA c : Cached(c.key))
        missing == SelectSeq(chunks, LAMBDA c : ~Cached(c.key))
    IN [i \in DOMAIN hit |-> (CHOOSE entry \in cache : entry.key = hit[i].key).vector]
         \o [i \in DOMAIN missing |-> Embedding(missing[i].chunk)]

\* The embeddings in the order of the chunks: the fresh ones, which are those
\* of the missing in their order, fill the gaps the cached ones leave.
resolve_embeddings(chunks) ==
    LET misses == {i \in DOMAIN chunks : ~Cached(chunks[i].key)}
        Nth(i) == Cardinality({j \in misses : j <= i})
        missing == [n \in 1..Cardinality(misses) |-> CHOOSE i \in misses : Nth(i) = n]
        fresh == [n \in DOMAIN missing |-> Embedding(chunks[missing[n]].chunk)]
    IN [i \in DOMAIN chunks |->
           IF Cached(chunks[i].key)
           THEN (CHOOSE entry \in cache : entry.key = chunks[i].key).vector
           ELSE fresh[Nth(i)]]

\* The provider is asked for the missing ones at once; it may fail.
Embed ==
    /\ job.at = "chunked"
    /\ \/ job' = [at |-> "embedded", hash |-> job.hash, chunks |-> job.chunks,
                  vectors |-> resolve_embeddings(job.chunks)]
       \/ /\ \E i \in DOMAIN job.chunks : ~Cached(job.chunks[i].key)
          /\ job' = [at |-> "ended"]
    /\ UNCHANGED <<chunker, media, row, cache>>

\* One transaction: the rows, and the fresh vectors for the cache.
Replace ==
    /\ job.at = "embedded"
    /\ row' = [hash |-> job.hash, vectors |-> job.vectors,
               chunks |-> [i \in DOMAIN job.chunks |-> job.chunks[i].chunk]]
    /\ cache' = cache \cup
         {[key |-> job.chunks[i].key, vector |-> job.vectors[i]] :
            i \in {j \in DOMAIN job.chunks : ~Cached(job.chunks[j].key)}}
    /\ job' = [at |-> "ended"]
    /\ UNCHANGED <<chunker, media>>

\* Stopped at any point and started under any policy; the scan finds the file.
Restart ==
    /\ file.ext # "md" /\ starts < MaxStarts
    /\ starts' = starts + 1
    /\ policy' \in Policies
    /\ job' = Idle
    /\ UNCHANGED <<chunker, file, model, row, cache>>

FileNext ==
    \/ Splitting \/ SplitDone
    \/ Refuse \/ Unchanged \/ Prepare \/ Embed \/ Replace \/ Restart

FileSpec == FileInit /\ [][FileNext]_fileVars

----------------------------------------------------------------------------
\* The rows are those of the file as it is under the policy as it is.
Current == row # None /\ row.hash = effective_file_hash

\* src/cli/output.rs:55: the tags a PDF's hits are shown with count its pages
\* from 1 to the last without a gap, each chunk but the last of exactly the
\* configured number.  Rows of another policy do not pass for current.
PagesAreTagged ==
    Current /\ file.bytes.format = "pdf" =>
        LET tag(i) == media_tag(row.chunks[i])
            n == Len(row.chunks)
            size(i) == tag(i).pages[2] - tag(i).pages[1] + 1
        IN /\ n > 0
           /\ \A i \in 1..n : tag(i).type = "pdf" /\ tag(i).pages # <<>>
           /\ tag(1).pages[1] = 1 /\ tag(n).pages[2] = Len(file.bytes.pages)
           /\ \A i \in 2..n : tag(i).pages[1] = tag(i - 1).pages[2] + 1
           /\ \A i \in 1..n - 1 : size(i) = policy.pdf_pages_per_chunk
           /\ size(n) <= policy.pdf_pages_per_chunk

\* What the providers are documented to take: parts whose type is that of their
\* bytes and one of three, a native PDF of at most six pages and of nothing
\* else, still pictures within the pixel limit; and a row says whether it
\* shows an animation by its first frame only.
PayloadsAreAcceptable ==
    job.at = "chunked" /\ for_extension(file.ext) # "text" =>
        \A i \in DOMAIN job.chunks :
            LET chunk == job.chunks[i].chunk
                parts == chunk.parts
            IN /\ parts # <<>>
               /\ chunk.truncated = (file.bytes.format # "pdf" /\ file.bytes.animated)
               /\ \A k \in DOMAIN parts :
                    LET bytes == parts[k].bytes
                    IN \/ /\ parts[k].mime_type = "application/pdf" /\ bytes.format = "pdf"
                          /\ Len(parts) = 1 /\ Len(bytes.pages) \in 1..NATIVE_PAGES
                       \/ /\ parts[k].mime_type = mime_for_image(bytes.format)
                          /\ bytes.format \in {"png", "jpeg"}
                          /\ bytes.size[1] = 1 \/ bytes.size[2] = 1
                               \/ bytes.size[1] * bytes.size[2] <= MAX_IMAGE_PIXELS

\* Each row of the store has the vector of its own content: of the words of the
\* chunk, of the picture, or of the pages it is tagged with.
VectorsAreOfTheirChunks ==
    /\ Len(row.vectors) = Len(row.chunks)
    /\ \A i \in DOMAIN row.chunks :
         LET chunk == row.chunks[i]
         IN /\ row.vectors[i] = Embedding(chunk)
            /\ for_extension(file.ext) # "text" /\ file.bytes.format = "pdf" =>
                 LET bytes(k) == row.vectors[i][k].bytes
                     shown == IF model.pdf_mode = "native" THEN bytes(1).pages
                              ELSE [k \in DOMAIN row.vectors[i] |-> bytes(k).picture]
                 IN shown = SubSeq(file.bytes.pages, chunk.pages[1] + 1, chunk.pages[2])

=============================================================================
