# docindex-server in TLA+

docindex-server keeps a vault of markdown, image and PDF files indexed in one
SQLite database (chunks, a full-text table, a vector table, an embedding cache)
and answers hybrid searches over HTTP. This directory models the parts of it
that keep state or run concurrently, checks them with TLC and proves the most
important of them with TLAPS. Paths below are relative to the repository.

## 1. Inventory

### Parts, their state and their operations

| Part | State | Operations | Model |
|---|---|---|---|
| Watcher `src/watch/mod.rs` | notify registration, queue of raw events, debounce map `pending` | register, `record`, `flush` every tick, stop on cancel | `IndexPipeline` |
| Indexer `src/indexer/mod.rs` | dirty-path channel, current batch, the file being reindexed | `run`, `reindex_one` (stat, read, compare hash, embed, commit) | `IndexPipeline` |
| Startup scan `src/indexer/mod.rs`, `src/walk.rs` | the walk's hashes, the rows it read | `initial_scan`: walk, read rows, prune, send dirty | `IndexPipeline` |
| Media policy `src/media.rs` | none (fixed per process) | which path, which size, the effective hash | `FileIndex`, `IndexPipeline`, `Settings` |
| Store, writes `src/store/mod.rs` | `files`, `chunks`, `chunks_fts`, `chunks_vec`, `embedding_cache` | `replace_file`, `remove_file`, `wipe_and_rebuild` | `Store`, `AtomicIndex` |
| Store, opening | `meta` (schema version, fingerprint), the dim of `chunks_vec` | peek, schema, migrate, reconcile, sweep, check, adopt, wipe | `Startup` |
| Store, path migration | `path_schema_version`, the form of every path | `migrate_paths_to_relative` | `PathMigration` |
| Boot `src/server.rs` | task handles, the cancel watch | open, migrate, spawn indexer, watcher and scan, serve, drain | `Startup`, `PathMigration`, `IndexPipeline` |
| Search `src/search/mod.rs` | none between requests; a request's candidate lists | `search_with_options`, `similar`, RRF, lookup, media lane | `Search`, `MediaLane` |
| Embedding clients `src/embed/mod.rs`, `voyage.rs`, `gemini.rs`, `fake.rs` | attempt, delay, vectors so far | batch, send, retry, decode | `EmbedClient` |
| Chunker `src/chunk.rs` | heading stack, fence flag | `split_sections`, windows of an oversize section | `Chunker` |
| Media preparation `src/media_prepare.rs` | none | `prepare_media`: page ranges, pixel limit, native or rendered pages, cache key | `MediaPrepare`, `FileIndex` |
| HTTP API `src/api/` | none | `/search`, `/similar`, `/health`, the bearer before the body | `Client` |
| Configuration `src/config.rs`, `src/config/file.rs` | flag, environment, files | discovery, layers, `resolve_embed`, every check of `Config::load` | `Settings` |
| Registry `src/embed/registry.rs` | none | `lookup`, default models, dims | `Settings`, `FileIndex` |
| CLI `src/bin/search.rs`, `src/cli/` | a profile file | one request per run, exit codes | `Client`, `MediaPrepare` (tags) |

### How they interact

* The watcher and the startup scan both send paths into one unbounded channel
  that the indexer drains. Nothing else crosses it: a path says "look at this
  file", never what happened to it. The channel closes when both senders are
  gone, which is how the indexer ends.
* Indexer, scan, and every request share one `Mutex<Store>`. It is held for one
  store call, never across two, so a request sees a different index at each of
  its steps.
* A file row (`files.content_hash`) and its chunks are written by one
  transaction; the hash is what later decides that there is nothing to do.
* Everything but the database is lost with the process. The startup scan is the
  only recovery.
* `server::run` opens the store with the `[embed]` settings, migrates paths and
  only then spawns the tasks; the order decides what the scan may prune.
* `reindex_one` passes a file's bytes through the chunker or the media
  preparation, asks the cache and then the provider for vectors, and hands the
  store all of it at once. The media policy enters twice: in what is prepared
  and in the hash that says whether to prepare again.
* The client knows the server by its address and bearer only; both have
  settings of their own, layered in the same way.

### What is hard, and what makes each part correct

* **Pipeline**: the vault changes at any moment, also between the stat, the read
  and the commit of one reindex; the watcher registers while the walk is under
  way; the process dies. Correct means: a row that disagrees with the disk is on
  its way to being put right, or falls into a gap that can be named; and once
  the vault rests, it is put right.
* **Store writes**: two of the tables are virtual, so no foreign key keeps them
  in step, row ids come back, and any statement may fail. Correct means: the
  tables never disagree, and a call happens whole or not at all.
* **Opening**: seven commits in sequence, three fingerprint keys, databases of
  older builds, changing settings, crashes. Correct means: a server never
  serves vectors of two embedding spaces and never wipes unasked.
* **Path migration**: runs at every boot until it succeeds, with whatever vault
  the operator gives. Correct means: the version is set only over relative
  paths and no file on disk loses its row.
* **Search**: separate holds of the mutex, reused row ids, limits and pools that
  count different things. Correct means: no hit twice, the source never similar
  to itself, the right corpus and a full page.
* **Media lane**: a bounded heap over rows in any order; then stride, free
  capacity and displaceable text in one loop. Correct means: the nearest are
  considered, the best text and all media of the fusion stay, and the share is
  used as far as the gates allow.
* **Embedding clients**: failures of every attempt, vectors out of order.
  Correct means: each input has its own vector, or the call fails in bounded time.
* **One file's contents**: cached and fresh vectors woven together by position,
  page ranges, provider limits, and rows that outlive the policy they were made
  under. Correct means: every row has the vector of its own content, its tag
  counts the pages it was made of, and every payload is one the provider takes.
* **Settings**: four layers that decide upon one another. Correct means: what is
  accepted can embed, an edit of what is masked changes nothing, and the
  identity of the index changes only where it is named.
* **Client and API**: checks in an order, and a client that may give up. Correct
  means: nothing is done for whoever lacks the bearer, and the exit code tells
  what was done.
* **Chunker**: two loops with boundary arithmetic and a stack. Correct means: no
  word of a note in UTF-8 lost, windows that overlap as configured, the headings of the document.

`PROJECT.json` lists 40 places in the code where these go wrong if they do, and the
properties that would notice.

## 2. Modules

| Module | Models | Extends / instantiates |
|---|---|---|
| `IndexPipeline` | watcher, channel, indexer, scan, file rows, vault, restarts | |
| `IndexPipeline_proofs` | theorems about it | `IndexPipeline` |
| `Startup` | opening the database over many boots, and what is indexed in between | |
| `Startup_proofs` | theorems about it | `Startup` |
| `AtomicIndex` | what the store promises: whole files, one step per call | |
| `Store` | the transactions statement by statement | `Index == INSTANCE AtomicIndex` |
| `MCStore` | two paths and five versions | `Store` |
| `Store_proofs` | theorems about it, the refinement among them | `Store` |
| `PathMigration` | migration, the scan after it, reindexing, boots | |
| `PathMigration_proofs` | theorems about it | `PathMigration` |
| `MCPathMigration` | three directories, two of which LIKE cannot tell apart | `PathMigration` |
| `MediaLane` | the heap of `search_media_vec` row by row, `insert_media_lane` iteration by iteration | |
| `Search` | one request beside a committing writer | |
| `Ranking` | sorting, filtering and truncating, said by ranks and positions | used by `Search` and `MediaLane` |
| `Retrieval_proofs` | theorems about both | `Search`, `MediaLane` |
| `EmbedClient` | one call of `AnyEmbedder`, whatever is behind it | |
| `EmbedClient_proofs` | theorems about it | `EmbedClient` |
| `Chunker` | `split_with`, line by line and window by window | |
| `MediaPrepare` | `prepare_media` as operators: images, PDFs, cache key, tag | |
| `FileIndex` | one file from its bytes to its rows, under changing policies | `Chunker`, `MediaPrepare` |
| `FileIndex_proofs` | theorems about it and the chunker | `FileIndex` |
| `Settings` | `Config::load` and `resolve_embed` as state functions of edited settings | |
| `Client` | a command of `docindex-search`, or another program, and the server so configured | `Settings` |
| `Client_proofs` | theorems about it | `Client` |

The modules cut the system at its commit points, and each assumes of its
neighbour what the neighbour's module shows. `IndexPipeline` treats a row and
its chunks as one value because `Store` implements `AtomicIndex`; so does
`Search` in its `Commit`, with the row ids `Store` explains; `Startup` and
`Store` take an embedding call to give one vector per chunk or to fail, which is
`VectorsMatchInputs` for a call and `VectorsAreOfTheirChunks` for a file; `Search` leaves the positions of media
hits to `MediaLane`.

### Correspondence of state and actions

**IndexPipeline.** `disk` is the vault; `index` the effective hash in `files`
(`NONE` for no row). `raw` holds notify events in order, `pending` the debounce
map with `fresh`/`ripe` in place of time stamps, `chan` the channel as a set
(the indexer collapses duplicates of what it drains, and order across paths
matters to nothing), `batch` the drained `HashSet`. `ipc` is the program counter
of `reindex_one`: `stat` → `remove` or `read` → `compare` → `embed` → commit,
one action each because each is a separate await. `ihash` is the hash of the
bytes it read, which is what it commits even when the disk has moved on. `spc`,
`walked`, `snap`, `known` are the scan: the walk passes paths one by one, rows
are read once, then pruned one by one and the rest sent. `Signal`, `WatchStop`,
`IndexerStop` are the graceful end, `Restart` any end followed by a new start
with any media policy. The vault may write, delete, rename, move directories
and put directories where files were, each with the events notify gives for it.

`lost[p]` is a history variable. It becomes different from `"no"` exactly when
the system passes up its only chance to see a change, and names how: `unwatched` (changed
after the walk passed and before the watcher was on), `renamed` (the old name of
a rename is reported as a modification of a file that is not there), `dirmove`
(events name only the directory), `failed` (an error in `reindex_one`, which
nothing retries), `notfile`, `pruned` (the scan removed the row of a file that
appeared during its walk), `scan` (the scan aborted), `shutdown`. The next event
or start clears it. It is in no guard, so it changes nothing the system does.

**Startup.** `meta`, `version`, `vecdim`, `rows`, `cache` are the database, a
vector being known by the settings it was computed under. `pc` walks through
`peek`, `schema`, `migrate`, `reconcile`, `sweep`, `check`, `adopt` or `wipe`,
to `serving`; `Die` may interrupt it between any two. `Init` ranges over no
file and every database an earlier build left. `torn` and `foreign` are history
variables: a boot died with the vector table made and its dim unrecorded; an
index without a fingerprint was adopted under settings it was not made with.

**Store.** `db` is the committed database, `tx` the working copy, `stage` the
next statement. Deletion collects the rows of the path, removes the FTS and
vector row of each, then the chunks; insertion alternates chunk and vector;
cache entries, in any order, and then the file row end it. `Rollback` (a failed statement, a crash)
is possible at every stage. Row ids follow SQLite's rule for an INTEGER PRIMARY
KEY without AUTOINCREMENT: one more than the largest in use.

**PathMigration.** A row is keyed by directory and name, `REL` standing for the
relative form; `Similar[v]` are the directories whose names `LIKE 'v/%'`
matches, which is how the wildcards in a vault's own name enter. After
`migrate`, the scan prunes what it did not see and the indexer adds rows.

**Search.** `row` maps a file to the id of its chunk. A request goes through
`rank` (the rankers it waits for answer in any order), `hydrate` and, with the
lane, `lane`; `Commit` may happen between any two. Rankings are arbitrary, RRF
is computed exactly (a score is a fraction, two are compared crosswise), including
its tie-break by id. The code adds doubles; sums of fractions with divisors up to
110 differ by far more than the rounding, or are equal, and no property is about the
order of equals. `similar` starts from the vectors of its source's chunks and excludes
them by path at the lookup.

**MediaLane.** `Scan` is one row of `search_media_vec` offered to the heap, in
every order of the rows; `Blend` sorts it and takes any blended result; `Gate`
is what `insert_media_lane` computes before its loop, `Admit` an iteration. Its
variables are `candidate_k`, `limit` and `slots` as in the code, `before` for the
result handed in, `turn` for the loop's counter and `stage` for where it is; they
differ from those of `Search` so that one module can prove about both.

**EmbedClient.** Inputs and vectors are numbers, so that order is visible. One
action per outcome of a request: answered, no answer, 5xx, 429 with or without
`Retry-After`, anything else; then the wait and its doubling. What refuses a
call before it costs anything differs by client: `Begin` (Voyage, fake) and
`RefuseInput` (Gemini, at the input).

**Chunker.** A note (`markdown`, its bytes) is a sequence of lines and whether all
of it is UTF-8, a line a kind, a level and a number of words; the words are told
apart by line and position, which is all that the properties need. `from_utf8` is
how the code reads it into `doc`: a note that is not UTF-8 is read as the empty
text, so that it has no chunks. `Fence`, `Heading`, `Prose` and `EndOfText` are the
iterations of `split_sections`, `Blank`, `Whole` and `Window` those of
`split_with`. The properties refer to the document only: which fences are open,
which headings are above a line, is defined again from its lines.

**MediaPrepare and FileIndex.** Bytes stand for what the decoders find in them:
format and size of an image, whether its first frame decodes, whether a GIF or a
WebP is animated (in a PNG the code does not look for it); pages of a PDF and the
one page, if any, that cannot be extracted. An encoding is a record of what it was made of, so a
vector can be traced to the pages behind it. `FileIndex` is `reindex_one` for one
file: `Splitting` steps through the chunker for a document; `Refuse`,
`Unchanged` and `Prepare` are the three ways of a media file; then `Embed` with
its failure, and `Replace`. `Restart` may come at any point, under any policy,
and keeps rows and cache.

**Settings.** The variables are the operator's inputs, `Edit` changes one of
them, and everything `Config::load` computes is an operator over them, with the
name it has in the code (`resolved_str`, `indirected`, `provider`, `dim`,
`api_key`, `validate_listen`). `Errors` are its checks, `Config` is what the
server gets. Settings are edited within one area at a time, because the code
lets only those of an area decide upon one another; the media area includes the
provider, as media needs a model that takes it.

**Client.** `Start` takes the bearer of the settings; `RunCommand` and `OtherAsks`
are those who ask, `Unparsed` and `Help` are clap ending the program before it
does; `to_str` is the header value that the server can or cannot read as text
(a token `"accented"` it cannot); `NetworkFails` is the client giving up, at
any step of the server. `Receive` is the router with `require_bearer`, `Handle`
a handler's own checks, `Embed` and `Read` the two calls that may fail.

## 3. Runs

Deadlock is checked where the system cannot stop (`MCStore`); elsewhere a
bounded run, a stopped server or a finished request really has no next step.

| Run | Question | Bounds | Distinct states |
|---|---|---|---|
| `IndexPipeline` | Is every wrong row on its way or accounted for, and does the index converge? | a note and a media file, 2 contents (one over the size limit), media on/off, 2 changes, 1 restart | 3.7 M |
| `IndexPipeline_prune` (violation) | Are pruned paths gone from the disk? | 2 notes, 2 changes, no restart | – |
| `Startup_safety` | Are spaces and dims never mixed, nothing wiped unasked? | 2 providers, 2 models, 2 dims, 2 paths, 2 contents, 3 boots | 0.64 M |
| `Startup_reembed` (violation) | Is a boot with `--reembed` never refused over the dim? | as above | – |
| `MCStore` | Do the tables stay in step, and is a call atomic? | 2 paths, 5 versions of up to 2 chunks, ids up to 7 | 56 k |
| `PathMigration_safety` | Is the version truthful, nothing lost and nobody else's row claimed? | 3 directories, 2 names, 3 boots | 106 k |
| `PathMigration_refused` (violation) | Does a refused migration leave the rows alone? | as above | – |
| `MediaLane` | Are the nearest considered, and does the lane keep its promises? | pool and limit up to 4, 3 text and 3 media chunks, 3 distances | 1.4 M |
| `Search` | Are answers distinct, of the right corpus, full? | 2 notes, an image, a PDF, ids to 4, limit to 3, 1 commit | 5.6 M |
| `EmbedClient` | Are vectors in order, retries used up, waits bounded, and does a call end? | 3 inputs, batches of 1 to 3, 3 retries, `Retry-After` 0, 5, 90 | 15 k |
| `FileIndex` | Is every word of a note in UTF-8 in a chunk under its headings, every vector of its chunk, every payload acceptable? | 4 lines of up to 4 words, notes of one line that are not UTF-8, 9 pairs of options; images of 3 by 3 sizes about a limit of 6 pixels, PDFs of up to 3 pages, 3 kinds of model, 3 starts under any policies | 3.9 M |
| `Client` | Can accepted settings embed, does a masked edit change nothing, what does an exit code tell? | every value of every setting within 8 areas; every command with every combination of an area of the client's settings | 292 k |

**Why the bounds are enough.** In the pipeline paths interact only in pairs
(rename) and through order in the batch, so two paths give every interaction; the
two changes let one fall before and one into a reindex, and a restart makes the
index non-empty before a scan, with the policy changed in between. What the
bounds leave out the proofs cover. In `Startup` a third boot is needed for a crash, a
wrong setting and a recovery in sequence; two of everything let each key differ
alone. `MCStore` has versions that grow, shrink, mix kinds and share bodies, so
that ids are reused within and across paths and cache hits occur. `MediaLane`
covers lists that are short, full, all text and all media at every limit up to 4,
and pools smaller and larger than the rows, with ties.
In `Search` the pool of the passing run holds every chunk, and one commit is
enough to delete, replace or re-id a chunk between two holds of the mutex. Four
lines let `Chunker` open three levels and come back up, or wrap a heading in a
fence and have one after it; windows of one word, and overlaps as large as the
window, reach every branch of the step. Of a note that is not UTF-8 nothing but
that is looked at, so those of one line stand for all. For media, three pages in groups of one to
three give short last groups and single groups, and contents that repeat give hits
between misses in one file; the third start can return to the policy of the first
with the cache the second has filled. `NATIVE_PAGES` is never exceeded within
three pages: `AcceptedCanEmbed` shows that no accepted policy asks for more.

**Fairness.** Only `IndexPipeline` and `EmbedClient` use it.
The watcher's loop, the elapsing of the debounce, the indexer and the scan are
weakly fair: they are tasks of a multi-threaded executor, each polling what is
ready, and every step they make is enabled until they make it. The vault, the
failures, the signal and restarts owe nobody a step. `WF(Flush)` needs the raw
queue empty, as the biased `select!` does; that is why `Converges` says
"eventually always" in a run where the vault changes finitely often. An
embedding call is a bounded loop over requests that carry an HTTP timeout.

**What the violations show.** Each checks one sentence of the repository against
the code; `PROJECT.json` quotes it.

* *Prune race*: `initial_scan` prunes rows it read **after** the walk; a file
  created meanwhile and already indexed through the watcher loses its row.
* *`--reembed` refused*: with `embedding_dim` recorded and the other keys
  missing, the peek says "fresh", the normal open is taken, and the dim mismatch
  is fatal although the flag that the message recommends is set.
* *Refused migration*: `run` ignores the refusal, and the scan that follows
  prunes every absolute row.

Further divergences met while modelling are part of the models but have no run
of their own: the old name of a rename is not pushed (`lost = "renamed"`, against
`src/watch/mod.rs:38`); an index without a fingerprint is adopted whatever
`--reembed` says (`foreign`, against `docs/deployment.md:186`); the vector table
may be created at a dim that a crash leaves unrecorded (`torn`, against
`src/store/mod.rs:147`); a single byte that is not UTF-8 leaves a note without any
chunk, while its hash is recorded, so that nothing tries it again until it is
edited (`from_utf8`, `src/chunk.rs:120`); the migration's test for rows outside the
vault is a `LIKE`, to which an underscore in the vault's name is any character, so
that with `my_vault` configured the rows of `my-vault` are taken over and not
refused (`Similar`, against `src/store/mod.rs:772` and `docs/ARCHITECTURE.md:47`); a media-only answer can
hold a note whose row id was a media chunk's when it was ranked (`src/search/mod.rs:208`);
a `Retry-After: 0` takes the backoff to nothing, and one above `RETRY_AFTER_MAX` is
clamped to it, where `src/embed/voyage.rs:3` has the header "honored verbatim" (the
clamp is what the constant's own comment and two tests ask for);
`similar` passes over the source's chunks only after the pool has been cut to
`max(CANDIDATE_K, limit)`, so a limit above 30 may come back short (`PageIsFull`
asks for a pool that holds every chunk, against `src/search/mod.rs:28`); a section
that is nothing but a heading line of more words than a window is cut without
its line put before each part (`ChunksAreSelfIdentifying` asks for words below
the heading, against `src/chunk.rs:15`); a picture of one pixel's width may exceed
`max_image_pixels` after the limit, as no side goes below one
(`PayloadsAreAcceptable`, against `src/media_prepare.rs:35`); what a file's rows
are is decided by its bytes, what may be indexed by its name, so that
`exclude_types = ["pdf"]` lets in a PDF that is named `.png`; clap ends a command
line it cannot parse with 2, where `src/bin/search.rs:10` says 1 (`Unparsed`), and
`--help` or `--version` with 0, though nothing was asked of a server (`Help`). The
settings have corners of their own, all in `Settings` and `Client`: host names and
`localhost` pass `validate_listen`, but `src/server.rs` parses an address; a NaN
`display_k`, an `http_timeout_ms` of 0 and an empty `base_url` are
accepted; the file's `api_key` goes to whatever provider is selected, and alone
selects none; a Gemini key added to the environment turns an auto-selected Voyage
index to Gemini (`IdentityIsDeliberate` asks for a named provider); the empty
`--server` and `--token` count as given; a bearer with a character that is not
visible ASCII is accepted by `Config::load` and then lets nobody in, whoever
sends it (`to_str`, `src/api/auth.rs:34`). The
reservations in `ServesOneSpace`, `ServedAtOneDim`, `NoLostUpdate`, `RowsFollowTheirFiles`, `NothingIsLost`,
`AnswersTheCorpus`, `PageIsFull`, `ChunksAreSelfIdentifying`, `PayloadsAreAcceptable`,
`IdentityIsDeliberate`, `ExitTellsOutcome` and `OnlyTheBearerIsServed` are exactly these.

## 4. Proofs

TLAPS checks the 40 theorems `PROJECT.json` lists, from the constants' named
assumptions only. Those say that the bounds are numbers, and

* `PipelineAssumption`, `StartupAssumption`, `StoreAssumption`,
  `MigrationAssumption`, `ClientAssumption`, `SettingsAssumption`: `NONE` and its
  like are none of the values they stand beside, `MediaPaths \subseteq Paths`, a
  version is a sequence of chunks, LIKE finds a directory by its own name;
* `LaneAssumption`: text, images and PDFs have different ids, and finitely many;
* `SearchAssumption`: a file is of one kind, there are finitely many, and the pool
  and the limit are at most 50. That is `LIMIT_MAX` (`src/search/mod.rs`), to which
  every limit is clamped, `CANDIDATE_K` being 30; `FoundByBothFirst` needs it, for
  two places at rank 62 would be worth no more than the first place in one list;
* `EmbedClientAssumption`: a batch has room for one input, and the first wait is
  within the clamp;
* `FileIndexAssumption`, `MediaAssumption`: no picture has a side of 0, the pixel
  limit is not 0, and there is a setting of each kind;
* `ChunkerAssumption`: a heading has a word, its hashes, and the default window is
  not empty.

They hold for every vault, document, policy, version, setting, distance and number
of inputs, changes, boots and restarts.

**IndexPipeline_proofs.** `TypeCorrect`, `NoUpdateIsLost`,
`OutdatedWorkFollowedUp`. `NoLostUpdate` is not inductive: while a reindex holds bytes that are no longer
on disk the row may still be right, and goes wrong only with the commit. The
invariant is `TypeOK` with, per path, `Safe(p)`: a stale row is tracked, in the
scan's hands or excused, and outdated work in progress (`cur = p /\ ~Settles(p)`)
is followed by a queued path or excused. The second part carries the first over
the commit; no strengthening ties one path to another. It is preserved action by action: `SafeVault` (a
change either queues an event, or `lost` names the gap, or the walk is still to
come), `SafeWatcher` (a relevant event moves from queue to map to channel and
never disappears), `SafeIndexer` (a commit settles what it read, and what it did
not see is queued), `SafeScan`, `SafeProcess` (a fresh scan tracks every path).

**Startup_proofs.** `TypeCorrect`, `FingerprintIsTruthful`, `SpacesNeverMix`,
`DimsAgree`, `NoUnrequestedWipe`. The inductive invariant adds to the types
`DimRecorded` (how the dim of the vector table and the recorded one are related
at each stage, with `torn` as the one exception) and `Stage` (what a boot has
established when it reaches a stage: whoever gets to `adopt` has its own dim
recorded, whoever gets to `wipe` was asked to and had other settings).
`WipeOnlyOnRequest` is an action property and follows from `Stage` alone.

**Store_proofs.** `TypeCorrect`, `TablesInStep`, `FilesCanBeIndexed`,
`NothingPaidTwice`, `StoreIsAtomic`. The invariant says what is true of the
working copy at every statement: `Links` (its virtual tables follow its chunks,
but for the rows already unlinked and the one whose vector is to come, and ids
are unique), `Written` (the rows of the path are a prefix of the version),
`Elsewhere` (other paths and, before the last statement, the records are those of
the database), `Cached` (each vector is cached or among the fresh ones), `Stages`
(what one statement leaves to the next). At a commit `Unlinked` and `Pending` are
empty, so the working copy is in step when it becomes the database. For the
refinement `JoinIsWhole` shows that, the tables in step, a reader's join gives
each chunk exactly its own vector and terms, `WrittenIsWhole` that the rows of a
committing version are its entries, `CommitIsAtomic` that a commit is one
`Replace` or `Remove`; a wipe is `Wipe` and every other statement leaves what is
shown as it is.

**PathMigration_proofs.** `TypeCorrect`, `VersionIsTruthful`, `MigrationIsSafe`.
The type invariant, by which an absolute row is under its own directory, and
`RelativeOnceCurrent` are inductive together; `RowsFollowTheirFiles` follows step
by step: a scan that was not refused meets relative rows only, and a migration
gives each absolute row of the vault its relative one (`RewrittenRows`). By the types
an absolute row was built under its own directory, which is why the prefix alone
decides whose rows are claimed.

**Client_proofs.** `NobodyElseIsServed`, `ExitCodesAreTruthful`. `ServerInv` ties
each stage of the server to the bearer and to the work done so far, and an answer
to what it tells of that work; `ClientInv` lets the client have its code from an
answer only. The server's steps after the client gave up change neither.
Five more theorems are about the settings beneath: `SettingsAreTyped` is their
type invariant, from which `AcceptedCanAlwaysEmbed` and `KeysAreKeptApart` follow
by the layers that decide upon one another. `OnlyDeliberateReembeds` and
`WhatIsMaskedIsUnread` are action properties, proved from what each operator
reads: `MaskedDiscovery` shows that an edit of masked places finds the same file.

**EmbedClient_proofs.** `VectorsAreInPlace`, `WaitsAreBounded`. `Gathered` says
that the vectors so far answer the inputs so far, in their order, and that a
batch never goes past the inputs; `DecodeInOrder` shows that `decode` undoes
any order of a batch. `Backoff` bounds the delay and the time waited by the
doublings so far, `RETRY_AFTER_MAX * 2^attempt`: the bound on an exhausted call
is not inductive without it, since it speaks of the end only. `2^n` is the number
of subsets of `1..n` there (`PowerCounts`), whose doubling needs no recursion.

**Retrieval_proofs, requests.** `AnswersAreDistinct`, `AnswersAreOfTheCorpus`,
`PagesAreFull`, `BothComeFirst`. All follow from `RequestInv` (`RequestInductive`).
`ListsInv` says of the candidate lists that no id is twice in one and, while nothing
is committed, that they are of rows, and of all rows if the pool holds them; after a
commit it says nothing of what the ids stand for, since they may be another's by
then. `HitsInv` says of each hit that it is not of the source, which holds under any
commits because the lookup goes by path, and that it is of the corpus while there are
none. `PageInv` is `PageIsFull` before the end already: the lane takes away as many
text hits as it brings (`InsertProperties`, with `LastOnes` for the text that goes),
and it brings nothing when every row is in the answer (`NothingNew`).
`HigherOrders` shows that scores and ids order the candidates totally, so that
`Fuse` has each once; `BothAheadOfOne` is the arithmetic of the reciprocal ranks.
`HitsAreDistinct` rests on one file having one row at a time at each lookup, and on
the lane comparing ids between the two.

**Retrieval_proofs, the lane.** `NearestAreHandedOver`, `FusionStays`,
`LaneAdmitsAllItMay`. `HeapInv` is what the scan keeps after every row: the heap has
as many entries as it may, and what was scanned and is not in it comes after all that
is. The lane's `AdmitInv` says that the result has of new media exactly those
admitted so far; `LaneInv` that it still has what must be kept of the fusion.

Both rest on the same lemmas about `Ranking`: a rank is the number of entries before,
and `RankReaches` shows that these numbers are 1 to n without a gap, for any total
order; what a filter keeps is in its order and counted by the positions it keeps.

**FileIndex_proofs.** `VectorsFollowContent`, `TagsCountThePages`,
`ProvidersCanTakeIt`. `RowsInv` has three parts. `CacheTold`: an entry of the cache
has the vector of what its key is made from, so that a hit is as good as asking
again; this is why the key must name all that is embedded. `JobInv`: what a job
has in hand was made of the file under the policy of this start. `RowInv`: the row
was made of the file under some policy, and its hash tells under which page size;
hence a row that passes for current has the pages of the policy as it is.
`EmbeddingsInOrder` shows that cached and fresh vectors, woven together by
position, are in the order of the chunks; `RangesCoverPages` that the page ranges
follow one another to the last page, for any division with or without a rest;
`LimitedIsWithinCap` that the two divisions of `limit_pixels` end within the limit.

Five more theorems of this module are about the chunker in it: `NoWordIsLost`,
`WindowsShareWords`, `ChunksTellTheirHeadings`, `WindowsAreBounded`, and their
invariant `SectionsTileTheText`. A word is known by its place in `AllWords`, where
no two are alike (`WordsTyped`), and lines, sections and windows are `Part`s of it.
`NoWordIsLost` is about a note in UTF-8, and says of any other that it has no chunk;
`DocRead` ties the text that is cut to the bytes of the note.
While lines are read (`Walking`), the sections tile them, the flag says whether the
fences above are odd in number, and the stack has at each level the heading that no
later one of that level or above has ended (`TrailTold`; `TrailIsSet` is the step
that clears the levels below). While sections are cut (`CutTold`), the chunks have
exactly the words before a mark (`CoverOf`), each is a window of one section
(`ChunkCut`), and the mark of a section half cut is where its last window ended.
That mark is what makes `NothingIsLost` inductive: it speaks of the end only, and
the words a window adds are known only if those before it are. `FlattenSeq` is
recursive; `FlattenUnfolds` and `FlattenGrows` show by the least counterexample that
it joins one sequence after another.

TLC checked every property first, and the mutants in the modules (operators
marked "Mutant") break each of them.

Every safety invariant and action property the passing runs check has a theorem.
Only model-checked is liveness (`Converges`, `CallEnds`). Out of the prover's reach
are liveness under fairness, ENABLED, what a recursive definition computes for every input, and operators that
take an operator (`SelectSeq`, `SetToSortSeq`), of which the provers know nothing.
The modules to be proved about therefore declare no RECURSIVE operator and say
without such operators which element stands where: sorting and filtering
in `Ranking`, `Decode` in `EmbedClient`, `resolve_embeddings` in `FileIndex`, `join_path` in
`Chunker`, the order of the search for a file in `Settings`. Where an induction over numbers is
needed it is by the least counterexample.

## 5. Not modelled

* Snippets, titles, display scores, error texts, logging: layout.
* Distances and scores as floating point: rankings are arbitrary instead;
  `slots = floor(limit * fraction)` is any number up to the limit.
* Symlinks, hidden directories, canonicalisation in walk and watcher.
* The debounce as a clock: a path ripens at some time. A file written to without
  pause is therefore outside `Converges`.
* The HTTP server's drain and the five-second join: the process may end at any
  step instead, which is weaker.
* The store's single-row write methods, which only the tests call.
* Image and PDF decoding, the FTS tokenizer, SQLite itself, among its limits the
  number of variables of one statement (`vectors_for_chunks`).
* Globs of the media policy and the safety of a relative path; the encoding of a
  vector as bytes (`src/store/vec.rs`); the numbers the fake hashes a text to.
* A client's token with a control character, which fails before it is sent (exit
  code 2), as any request does that `NetworkFails` ends.
* That the error of `Config::load` names every mistake at once; JSON and TOML.
* A service that numbers two vectors of a Voyage batch alike: the client does not
  look for it, and `EmbedClient` takes the service not to.

## 6. Plan

Done: all parts of the inventory but those under "Not modelled", and a proof of
every safety property.

Next, modelling: the drain of the HTTP server beside the five-second join, and the
debounce as a clock.
