--------------------------- MODULE IndexPipeline ---------------------------
(***************************************************************************)
(* How a change of a file in the vault reaches the index: the notify       *)
(* watcher and its debounce map (src/watch/mod.rs), the startup scan       *)
(* (indexer::initial_scan over walk::scan_with_policy), the dirty-path     *)
(* channel, the indexer task (indexer::run and reindex_one) and the        *)
(* `files` table of the store.  Everything but the vault and the store is  *)
(* lost when the process ends; the startup scan is what repairs the index  *)
(* afterwards.                                                             *)
(*                                                                         *)
(* An index row is the effective content hash the row was built from: a    *)
(* row and its chunks are written by one transaction (module Store).       *)
(*                                                                         *)
(* `lost` is a history variable.  It names, per path, the one way in which *)
(* the system may have missed the last change of that path; everything     *)
(* else that makes a row differ from the disk must be in flight.           *)
(***************************************************************************)
EXTENDS Naturals, Sequences, FiniteSets

CONSTANTS
    Paths,        \* vault-relative paths with a known extension
    MediaPaths,   \* those whose extension is an image or a PDF
    Contents,     \* what a file can hold
    BigContents,  \* contents above [media].max_file_mb
    Policies,     \* [media] sections the operator may start the server with
    MediaOn,      \* the policies with media enabled
    NONE,         \* no file, no row, no path
    DIR,          \* a directory sits at the path
    TextProfile,  \* the absent media profile in the hash of a text file
    MaxChanges,   \* bound: changes of the vault
    MaxRestarts   \* bound: times the process ends and is started again

PlainHash == [content : Contents, profile : Policies \cup {TextProfile}]

ASSUME PipelineAssumption ==
    /\ MediaPaths \subseteq Paths
    /\ BigContents \subseteq Contents
    /\ MediaOn \subseteq Policies
    /\ NONE \notin Contents \cup Paths \cup PlainHash
    /\ DIR \notin Contents \cup {NONE}
    /\ MaxChanges \in Nat
    /\ MaxRestarts \in Nat

VARIABLES
    disk,      \* the vault: content, NONE or DIR at every path
    index,     \* the store: effective hash of the row of a path, or NONE
    policy,    \* the MediaPolicy this process runs with
    watch,     \* "starting" | "on" | "stopped": the notify registration
    cancel,    \* the shutdown signal has been sent
    raw,       \* events the watcher task has not received yet
    pending,   \* the debounce map: "none" | "fresh" | "ripe" per path
    chan,      \* dirty paths sent and not yet received by the indexer
    batch,     \* paths received, not yet taken up
    ipc,       \* where the indexer task is
    cur,       \* the path being reindexed
    ihash,     \* the hash of the bytes it has read
    spc,       \* where the startup scan is: "walk" | "prune" | "done"
    walked,    \* paths the walk has passed
    snap,      \* hashes the walk recorded (`files`, `seen`)
    known,     \* rows the scan read from the store (`known`)
    bumped,    \* last_reindex_ms has moved since the process started
    lost,      \* history: why the last change of a path may be missed
    changes, restarts   \* counters for the bounds

envVars   == <<disk, changes>>
watchVars == <<watch, cancel, raw, pending>>
idxVars   == <<batch, ipc, cur, ihash, bumped>>
scanVars  == <<spc, walked, snap, known>>
vars == <<disk, index, policy, watch, cancel, raw, pending, chan, batch, ipc,
          cur, ihash, spc, walked, snap, known, bumped, lost, changes,
          restarts>>

Reasons == {"no", "unwatched", "renamed", "dirmove", "failed", "notfile",
            "pruned", "scan", "shutdown"}

---------------------------------------------------------------------------
(* The media policy, as classify_path, allows_existing_file and            *)
(* effective_file_hash compute it.                                         *)

Classified(p) == p \in MediaPaths => policy \in MediaOn

Allowed(p, c) ==
    /\ c \in Contents
    /\ Classified(p)
    /\ p \in MediaPaths => c \notin BigContents

Hash(p, c) ==
    [content |-> c,
     profile |-> IF p \in MediaPaths THEN policy ELSE TextProfile]

\* The row the index ought to have for a path.
Want(p) == IF Allowed(p, disk[p]) THEN Hash(p, disk[p]) ELSE NONE

Stale(p) == index[p] # Want(p)

---------------------------------------------------------------------------
(* Where a path that needs work can be.                                    *)

\* Mutant: removals too are looked up on disk.
RelevantOnDisk(ev) == Classified(ev.path) /\ disk[ev.path] \in Contents

\* record() would keep this event if it received it now.
Relevant(ev) ==
    /\ Classified(ev.path)
    /\ ev.kind = "remove" \/ disk[ev.path] \in Contents

InRaw(p) == \E i \in DOMAIN raw : raw[i].path = p /\ Relevant(raw[i])

Queued(p) == InRaw(p) \/ pending[p] # "none" \/ p \in chan \/ p \in batch

\* The reindex_one call in progress will leave the wanted row.
Settles(p) ==
    /\ cur = p
    /\ \/ ipc = "stat"
       \/ ipc = "read" /\ Allowed(p, disk[p])
       \/ ipc = "remove" /\ Want(p) = NONE
       \/ ipc \in {"compare", "embed"} /\ ihash = Want(p)

Tracked(p) == Queued(p) \/ Settles(p)

Unwalked(p) == spc = "walk" /\ p \notin walked

\* The scan will prune or send the path.
ScanTracks(p) ==
    \/ Unwalked(p)
    \/ spc = "walk" /\ snap[p] = Want(p)
    \/ spc = "prune" /\ snap[p] = Want(p) /\ known[p] # snap[p]

---------------------------------------------------------------------------
(* The process starts: the indexer, the watcher and the scan are spawned.  *)

Fresh ==
    /\ policy' \in Policies
    /\ watch' = "starting" /\ cancel' = FALSE
    /\ raw' = <<>> /\ pending' = [p \in Paths |-> "none"]
    /\ chan' = {} /\ batch' = {}
    /\ ipc' = "recv" /\ cur' = NONE /\ ihash' = NONE
    /\ spc' = "walk" /\ walked' = {}
    /\ snap' = [p \in Paths |-> NONE] /\ known' = [p \in Paths |-> NONE]
    /\ bumped' = FALSE
    /\ lost' = [p \in Paths |-> "no"]

Init ==
    /\ disk \in [Paths -> Contents \cup {NONE}]
    /\ index = [p \in Paths |-> NONE]
    /\ policy \in Policies
    /\ watch = "starting" /\ cancel = FALSE
    /\ raw = <<>> /\ pending = [p \in Paths |-> "none"]
    /\ chan = {} /\ batch = {}
    /\ ipc = "recv" /\ cur = NONE /\ ihash = NONE
    /\ spc = "walk" /\ walked = {}
    /\ snap = [p \in Paths |-> NONE] /\ known = [p \in Paths |-> NONE]
    /\ bumped = FALSE
    /\ lost = [p \in Paths |-> "no"]
    /\ changes = 0 /\ restarts = 0

\* A crash, a kill, or the exit after a graceful shutdown (which waits for
\* the tasks 5 seconds at most), at any moment; then the next start.
Restart ==
    /\ restarts < MaxRestarts
    /\ restarts' = restarts + 1
    /\ Fresh
    /\ UNCHANGED <<disk, index, changes>>

---------------------------------------------------------------------------
(* The vault.  A change made while nobody watches is found by the scan if  *)
(* the walk has still to pass the path and no reindex of it is under way.  *)

Missed(p, why) ==
    IF Unwalked(p) /\ cur # p THEN lost[p]
    ELSE IF watch = "on" THEN why ELSE "unwatched"

Notified(p) ==
    IF watch # "on" THEN Missed(p, "unwatched")
    ELSE IF Classified(p) THEN "no" ELSE lost[p]

Notify(evs) == raw' = IF watch = "on" THEN raw \o evs ELSE raw

Event(k, p) == [kind |-> k, path |-> p]

Change ==
    /\ changes < MaxChanges
    /\ changes' = changes + 1
    /\ UNCHANGED <<index, policy, watch, cancel, pending, chan, idxVars,
                   scanVars, restarts>>

\* A file is created or overwritten in place.
WriteFile(p, c) ==
    /\ disk[p] # DIR
    /\ Change
    /\ disk' = [disk EXCEPT ![p] = c]
    /\ Notify(<<Event("data", p)>>)
    /\ lost' = [lost EXCEPT ![p] = Notified(p)]

\* A file, or the directory in its place, is deleted.
DeleteFile(p) ==
    /\ disk[p] # NONE
    /\ Change
    /\ disk' = [disk EXCEPT ![p] = NONE]
    /\ Notify(<<Event("remove", p)>>)
    /\ lost' = [lost EXCEPT ![p] = Notified(p)]

\* rename(2): notify reports both names as Modify(Name(_)), never as Remove.
RenameFile(p, q) ==
    /\ p # q /\ disk[p] \in Contents /\ disk[q] # DIR
    /\ Change
    /\ disk' = [disk EXCEPT ![p] = NONE, ![q] = disk[p]]
    /\ Notify(<<Event("data", p), Event("data", q)>>)
    /\ lost' = [lost EXCEPT ![p] = Missed(p, "renamed"), ![q] = Notified(q)]

\* The directory above p is renamed into, out of or within the vault: the
\* events name directories, which record() does not follow.
MoveDirectory(p, c) ==
    /\ disk[p] # DIR /\ disk[p] # c
    /\ disk[p] = NONE \/ c = NONE
    /\ Change
    /\ disk' = [disk EXCEPT ![p] = c]
    /\ lost' = [lost EXCEPT ![p] = Missed(p, "dirmove")]
    /\ UNCHANGED raw

\* A directory takes the place of a deleted file.
MakeDirectory(p) ==
    /\ disk[p] = NONE
    /\ Change
    /\ disk' = [disk EXCEPT ![p] = DIR]
    /\ Notify(<<Event("data", p)>>)
    /\ UNCHANGED lost

---------------------------------------------------------------------------
(* The watcher task (src/watch/mod.rs).                                    *)

\* watcher.watch(..)? succeeds or ends the task.
WatchStart ==
    /\ watch = "starting"
    /\ watch' \in {"on", "stopped"}
    /\ UNCHANGED <<envVars, index, policy, cancel, raw, pending, chan, idxVars,
                   scanVars, lost, restarts>>

\* The select is biased: an event is received only if no cancellation was
\* seen, the tick only if no event is waiting.
Record ==
    /\ watch = "on" /\ ~cancel /\ raw # <<>>
    /\ LET ev == Head(raw) IN
       pending' = IF Relevant(ev) THEN [pending EXCEPT ![ev.path] = "fresh"]
                  ELSE pending
    /\ raw' = Tail(raw)
    /\ UNCHANGED <<envVars, index, policy, watch, cancel, chan, idxVars,
                   scanVars, lost, restarts>>

\* The stamp of p becomes older than the debounce window.
Ripen(p) ==
    /\ pending[p] = "fresh"
    /\ pending' = [pending EXCEPT ![p] = "ripe"]
    /\ UNCHANGED <<envVars, index, policy, watch, cancel, raw, chan, idxVars,
                   scanVars, lost, restarts>>

Ripe == {p \in Paths : pending[p] = "ripe"}

\* Mutant: a path that is being reindexed is not sent again.
FlushSkipsCurrent ==
    /\ watch = "on" /\ ~cancel /\ raw = <<>> /\ Ripe # {}
    /\ chan' = chan \cup (Ripe \ {cur})
    /\ pending' = [p \in Paths |-> IF p \in Ripe THEN "none" ELSE pending[p]]
    /\ UNCHANGED <<envVars, index, policy, watch, cancel, raw, idxVars,
                   scanVars, lost, restarts>>

Flush ==
    /\ watch = "on" /\ ~cancel /\ raw = <<>> /\ Ripe # {}
    /\ chan' = chan \cup Ripe
    /\ pending' = [p \in Paths |-> IF p \in Ripe THEN "none" ELSE pending[p]]
    /\ UNCHANGED <<envVars, index, policy, watch, cancel, raw, idxVars,
                   scanVars, lost, restarts>>

\* wait_for_shutdown() returned and shutdown_tx.send(true) was called.
Signal ==
    /\ ~cancel
    /\ cancel' = TRUE
    /\ UNCHANGED <<envVars, index, policy, watch, raw, pending, chan, idxVars,
                   scanVars, lost, restarts>>

\* The watcher sees the signal and ends; the debounce map is not flushed.
WatchStop ==
    /\ watch = "on" /\ cancel
    /\ watch' = "stopped"
    /\ raw' = <<>> /\ pending' = [p \in Paths |-> "none"]
    /\ lost' = [p \in Paths |-> IF InRaw(p) \/ pending[p] # "none"
                                THEN "shutdown" ELSE lost[p]]
    /\ UNCHANGED <<envVars, index, policy, cancel, chan, idxVars, scanVars,
                   restarts>>

---------------------------------------------------------------------------
(* The indexer task (indexer::run and reindex_one).                        *)

\* recv, then try_recv until the channel is empty, into a HashSet.
Receive ==
    /\ ipc = "recv" /\ batch = {} /\ chan # {}
    /\ batch' = chan /\ chan' = {}
    /\ UNCHANGED <<envVars, index, policy, watchVars, ipc, cur, ihash, bumped,
                   scanVars, lost, restarts>>

TakeUp(p) ==
    /\ ipc = "recv" /\ p \in batch
    /\ batch' = batch \ {p}
    /\ cur' = p /\ ipc' = "stat"
    /\ UNCHANGED <<envVars, index, policy, watchVars, chan, ihash, bumped,
                   scanVars, lost, restarts>>

\* What every step of reindex_one leaves alone.
Working ==
    UNCHANGED <<envVars, policy, watchVars, chan, batch, scanVars, restarts>>

\* Mutant: the path stays current after the call.
FinishKeepsPath == ipc' = "recv" /\ ihash' = NONE /\ UNCHANGED cur

Finish == ipc' = "recv" /\ cur' = NONE /\ ihash' = NONE

\* fs::metadata, is_file and allows_existing_file.
Stat ==
    /\ ipc = "stat"
    /\ \/ /\ disk[cur] = DIR
          /\ Finish
          /\ lost' = IF Stale(cur) THEN [lost EXCEPT ![cur] = "notfile"]
                     ELSE lost
       \/ /\ disk[cur] # DIR
          /\ ipc' = IF Allowed(cur, disk[cur]) THEN "read" ELSE "remove"
          /\ UNCHANGED <<cur, ihash, lost>>
    /\ Working /\ UNCHANGED <<index, bumped>>

\* The file vanished or was refused: remove_file, bump_reindex.
RemoveRow ==
    /\ ipc = "remove"
    /\ index' = [index EXCEPT ![cur] = NONE]
    /\ bumped' = TRUE
    /\ Finish
    /\ Working /\ UNCHANGED lost

\* fs::read; the file may be gone since the metadata call.
Read ==
    /\ ipc = "read"
    /\ \/ /\ disk[cur] \in Contents
          /\ ihash' = Hash(cur, disk[cur])
          /\ ipc' = "compare"
          /\ UNCHANGED cur
       \/ /\ disk[cur] \notin Contents
          /\ Finish
    /\ Working /\ UNCHANGED <<index, bumped, lost>>

\* get_file_state: an equal hash ends the call, any other is embedded.
Compare ==
    /\ ipc = "compare"
    /\ \/ index[cur] = ihash /\ Finish
       \/ index[cur] # ihash /\ ipc' = "embed" /\ UNCHANGED <<cur, ihash>>
    /\ Working /\ UNCHANGED <<index, bumped, lost>>

\* The embeddings are there: replace_file, bump_reindex.
ReplaceRow ==
    /\ ipc = "embed"
    /\ index' = [index EXCEPT ![cur] = ihash]
    /\ bumped' = TRUE
    /\ Finish
    /\ Working /\ UNCHANGED lost

\* Any `?` of reindex_one: the error is logged and the path dropped.
ReindexFails ==
    /\ ipc \in {"stat", "remove", "read", "compare", "embed"}
    /\ Finish
    /\ lost' = [lost EXCEPT ![cur] = "failed"]
    /\ Working /\ UNCHANGED <<index, bumped>>

\* Every sender is dropped and the channel is drained: run() returns.
IndexerStop ==
    /\ ipc = "recv" /\ batch = {} /\ chan = {}
    /\ watch = "stopped" /\ spc = "done"
    /\ ipc' = "stopped"
    /\ Working /\ UNCHANGED <<index, bumped, cur, ihash, lost>>

---------------------------------------------------------------------------
(* The startup scan (indexer::initial_scan).                               *)

Scanning ==
    UNCHANGED <<envVars, policy, watchVars, idxVars, restarts>>

\* scan_with_policy passes p: it is hashed if it is there and allowed.
Walk(p) ==
    /\ Unwalked(p)
    /\ walked' = walked \cup {p}
    /\ snap' = [snap EXCEPT ![p] = Want(p)]
    /\ Scanning /\ UNCHANGED <<index, chan, spc, known, lost>>

\* list_indexed_paths and get_file_state, under one lock.
ReadKnown ==
    /\ spc = "walk" /\ walked = Paths
    /\ spc' = "prune"
    /\ known' = index
    /\ Scanning /\ UNCHANGED <<index, chan, walked, snap, lost>>

ToPrune == {p \in Paths : known[p] # NONE /\ snap[p] = NONE}

\* remove_file for one of to_prune, whatever has happened since the walk.
Prune(p) ==
    /\ spc = "prune" /\ p \in ToPrune
    /\ index' = [index EXCEPT ![p] = NONE]
    /\ known' = [known EXCEPT ![p] = NONE]
    /\ lost' = IF Want(p) = NONE \/ Tracked(p) THEN lost
               ELSE [lost EXCEPT ![p] = "pruned"]
    /\ Scanning /\ UNCHANGED <<chan, spc, walked, snap>>

\* Mutant: only paths without a row are dirty.
SendNew ==
    /\ spc = "prune" /\ ToPrune = {}
    /\ chan' = chan \cup {p \in Paths : snap[p] # NONE /\ known[p] = NONE}
    /\ spc' = "done"
    /\ Scanning /\ UNCHANGED <<index, walked, snap, known, lost>>

SendDirty ==
    /\ spc = "prune" /\ ToPrune = {}
    /\ chan' = chan \cup {p \in Paths : snap[p] # NONE /\ known[p] # snap[p]}
    /\ spc' = "done"
    /\ Scanning /\ UNCHANGED <<index, walked, snap, known, lost>>

\* An I/O error of the walk (a file that vanished between the listing and
\* the read included) or of the store gives the whole scan up.
ScanFails ==
    /\ spc \in {"walk", "prune"}
    /\ spc' = "done"
    /\ lost' = [p \in Paths |-> IF Stale(p) /\ ~Tracked(p) THEN "scan"
                                ELSE lost[p]]
    /\ Scanning /\ UNCHANGED <<index, chan, walked, snap, known>>

---------------------------------------------------------------------------
Vault ==
    \E p \in Paths :
        \/ \E c \in Contents : WriteFile(p, c)
        \/ DeleteFile(p)
        \/ \E q \in Paths : RenameFile(p, q)
        \/ \E c \in Contents \cup {NONE} : MoveDirectory(p, c)
        \/ MakeDirectory(p)

Watcher == WatchStart \/ Record \/ (\E p \in Paths : Ripen(p)) \/ Flush \/ WatchStop

Indexer ==
    \/ Receive \/ (\E p \in Paths : TakeUp(p)) \/ Stat \/ RemoveRow \/ Read
    \/ Compare \/ ReplaceRow \/ IndexerStop

Scan == (\E p \in Paths : Walk(p) \/ Prune(p)) \/ ReadKnown \/ SendDirty

Next ==
    Vault \/ Watcher \/ Indexer \/ Scan \/ ReindexFails \/ ScanFails \/ Signal \/ Restart

Spec == Init /\ [][Next]_vars

\* The tasks run on a multi-threaded executor and each loop polls again
\* whatever is ready; the vault, the failures, the signal and the operator
\* owe nobody a step.
FairSpec ==
    /\ Spec
    /\ WF_vars(WatchStart) /\ WF_vars(Record) /\ WF_vars(Flush)
    /\ WF_vars(WatchStop)
    /\ \A p \in Paths : WF_vars(Ripen(p))
    /\ WF_vars(Indexer) /\ WF_vars(Scan)

---------------------------------------------------------------------------
Row == PlainHash \cup {NONE}

\* Types; a watcher that is off holds no events, and the indexer is in the
\* middle of a path exactly while reindex_one runs.
TypeOK ==
    /\ disk \in [Paths -> Contents \cup {NONE, DIR}]
    /\ index \in [Paths -> Row]
    /\ policy \in Policies
    /\ watch \in {"starting", "on", "stopped"}
    /\ cancel \in BOOLEAN
    /\ raw \in Seq([kind : {"data", "remove"}, path : Paths])
    /\ watch # "on" => raw = <<>>
    /\ pending \in [Paths -> {"none", "fresh", "ripe"}]
    /\ chan \subseteq Paths
    /\ batch \subseteq Paths
    /\ ipc \in {"recv", "stat", "remove", "read", "compare", "embed", "stopped"}
    /\ cur \in Paths \cup {NONE}
    /\ (cur = NONE) <=> (ipc \in {"recv", "stopped"})
    /\ ihash \in Row
    /\ ipc \in {"compare", "embed"} => ihash # NONE
    /\ ipc = "stopped" =>
         chan = {} /\ batch = {} /\ watch = "stopped" /\ spc = "done"
    /\ spc \in {"walk", "prune", "done"}
    /\ walked \subseteq Paths
    /\ snap \in [Paths -> Row]
    /\ known \in [Paths -> Row]
    /\ bumped \in BOOLEAN
    /\ lost \in [Paths -> Reasons]
    /\ changes \in 0..MaxChanges
    /\ restarts \in 0..MaxRestarts

\* A row that disagrees with the disk is about to be repaired: the path is in
\* an event, the debounce map, the channel, the batch, the call in progress or
\* the scan.  The exceptions are the ones `lost` names.
NoLostUpdate ==
    \A p \in Paths :
        Stale(p) => Tracked(p) \/ ScanTracks(p) \/ lost[p] # "no"

\* A reindex_one call that works from an outdated look at the file is always
\* followed by another one.
OutdatedWorkIsRedone ==
    \A p \in Paths :
        cur = p /\ ~Settles(p) => Queued(p) \/ lost[p] # "no"

\* Once the vault is left alone every row ends up right and stays right,
\* but for the losses `lost` names.
Converges == <>[](\A p \in Paths : Stale(p) => lost[p] # "no")

\* src/indexer/mod.rs:120 "Prune paths that vanished from disk.": a path the
\* scan prunes is not an indexable file of the vault.
PrunedPathsVanished ==
    [][\A p \in Paths : Prune(p) => Want(p) = NONE]_vars

=============================================================================
