------------------------ MODULE IndexPipeline_proofs ------------------------
(***************************************************************************)
(* Proofs about module IndexPipeline, for any set of paths, contents and   *)
(* policies and without the bounds of the model-checked instances.         *)
(***************************************************************************)
EXTENDS IndexPipeline, SequenceTheorems, TLAPS

Evs == [kind : {"data", "remove"}, path : Paths]

\* The hash of a path is a row, and no row looks like a missing one.
LEMMA HashIsRow ==
    ASSUME TypeOK, NEW p \in Paths, NEW c \in Contents
    PROVE  Hash(p, c) \in PlainHash /\ Hash(p, c) # NONE
BY PipelineAssumption DEF TypeOK, Hash, PlainHash

\* What the index ought to hold is a row.
LEMMA WantIsRow ==
    ASSUME TypeOK, NEW p \in Paths
    PROVE  /\ Want(p) \in Row
           /\ Allowed(p, disk[p]) => Want(p) = Hash(p, disk[p])
           /\ ~Allowed(p, disk[p]) => Want(p) = NONE
<1>1. Allowed(p, disk[p]) => disk[p] \in Contents
  BY DEF Allowed
<1>2. QED
  BY <1>1, HashIsRow DEF Want, Row

\* Events appended to a queue of events leave a queue of events.
LEMMA NotifyType ==
    ASSUME TypeOK, NEW evs \in Seq(Evs), Notify(evs), watch' = watch
    PROVE  /\ raw' \in Seq(Evs)
           /\ watch' # "on" => raw' = <<>>
BY ConcatProperties DEF TypeOK, Notify, Evs

\* One and two events make a queue of events.
LEMMA EventsType ==
    ASSUME NEW p \in Paths, NEW q \in Paths
    PROVE  /\ \A k \in {"data", "remove"} : <<Event(k, p)>> \in Seq(Evs)
           /\ <<Event("data", p), Event("data", q)>> \in Seq(Evs)
BY DEF Event, Evs

\* The first event is an event and the rest is a queue of events.
LEMMA HeadType ==
    ASSUME TypeOK, raw # <<>>
    PROVE  Head(raw) \in Evs /\ Tail(raw) \in Seq(Evs)
BY HeadTailProperties DEF TypeOK, Evs

\* What a change of the vault does to the history of a path is a reason.
LEMMA ReasonType ==
    ASSUME TypeOK, NEW p \in Paths, NEW why \in Reasons
    PROVE  Missed(p, why) \in Reasons /\ Notified(p) \in Reasons
BY DEF TypeOK, Missed, Notified, Reasons

\* Every start of the process leaves the variables in their types.
LEMMA TypeInit == Init => TypeOK
<1> SUFFICES ASSUME Init PROVE TypeOK
  OBVIOUS
<1>1. index \in [Paths -> Row] /\ snap \in [Paths -> Row] /\ known \in [Paths -> Row]
  BY DEF Init, Row
<1>2. raw \in Seq([kind : {"data", "remove"}, path : Paths]) /\ (watch # "on" => raw = <<>>)
  BY DEF Init
<1>3. pending \in [Paths -> {"none", "fresh", "ripe"}] /\ lost \in [Paths -> Reasons]
  BY DEF Init, Reasons
<1>4. ihash \in Row
  BY DEF Init, Row
<1>5. changes \in 0..MaxChanges /\ restarts \in 0..MaxRestarts
  BY PipelineAssumption DEF Init
<1>6. disk \in [Paths -> Contents \cup {NONE, DIR}]
  BY DEF Init
<1>7. QED
  BY <1>1, <1>2, <1>3, <1>4, <1>5, <1>6 DEF Init, TypeOK

\* A change of the vault preserves the types.
LEMMA TypeVault ==
    ASSUME TypeOK, Vault PROVE TypeOK'
<1> USE PipelineAssumption
<1>1. ASSUME NEW p \in Paths, NEW c \in Contents, WriteFile(p, c)
      PROVE  TypeOK'
  <2>1. raw' \in Seq(Evs) /\ (watch' # "on" => raw' = <<>>)
    BY <1>1, NotifyType, EventsType DEF WriteFile, Change
  <2>2. Notified(p) \in Reasons
    BY ReasonType DEF Reasons
  <2>3. QED
    BY <1>1, <2>1, <2>2
    DEF WriteFile, Change, TypeOK, idxVars, scanVars, Evs
<1>2. ASSUME NEW p \in Paths, DeleteFile(p)
      PROVE  TypeOK'
  <2>1. raw' \in Seq(Evs) /\ (watch' # "on" => raw' = <<>>)
    BY <1>2, NotifyType, EventsType DEF DeleteFile, Change
  <2>2. Notified(p) \in Reasons
    BY ReasonType DEF Reasons
  <2>3. QED
    BY <1>2, <2>1, <2>2
    DEF DeleteFile, Change, TypeOK, idxVars, scanVars, Evs
<1>3. ASSUME NEW p \in Paths, NEW q \in Paths, RenameFile(p, q)
      PROVE  TypeOK'
  <2>1. raw' \in Seq(Evs) /\ (watch' # "on" => raw' = <<>>)
    BY <1>3, NotifyType, EventsType DEF RenameFile, Change
  <2>2. Missed(p, "renamed") \in Reasons /\ Notified(q) \in Reasons
    BY ReasonType DEF Reasons
  <2>3. QED
    BY <1>3, <2>1, <2>2
    DEF RenameFile, Change, TypeOK, idxVars, scanVars, Evs
<1>4. ASSUME NEW p \in Paths, NEW c \in Contents \cup {NONE}, MoveDirectory(p, c)
      PROVE  TypeOK'
  <2>1. Missed(p, "dirmove") \in Reasons
    BY ReasonType DEF Reasons
  <2>2. QED
    BY <1>4, <2>1
    DEF MoveDirectory, Change, TypeOK, idxVars, scanVars, Evs
<1>5. ASSUME NEW p \in Paths, MakeDirectory(p)
      PROVE  TypeOK'
  <2>1. raw' \in Seq(Evs) /\ (watch' # "on" => raw' = <<>>)
    BY <1>5, NotifyType, EventsType DEF MakeDirectory, Change
  <2>2. QED
    BY <1>5, <2>1
    DEF MakeDirectory, Change, TypeOK, idxVars, scanVars, Evs
<1>6. QED
  BY <1>1, <1>2, <1>3, <1>4, <1>5 DEF Vault

\* A step of the watcher preserves the types.
LEMMA TypeWatcher ==
    ASSUME TypeOK, Watcher PROVE TypeOK'
<1> USE PipelineAssumption DEF envVars, idxVars, scanVars
<1>1. CASE WatchStart
  BY <1>1 DEF WatchStart, TypeOK
<1>2. CASE Record
  BY <1>2, HeadType DEF Record, TypeOK, Evs
<1>3. ASSUME NEW p \in Paths, Ripen(p) PROVE TypeOK'
  BY <1>3 DEF Ripen, TypeOK
<1>4. CASE Flush
  BY <1>4 DEF Flush, TypeOK, Ripe
<1>5. CASE WatchStop
  BY <1>5 DEF WatchStop, TypeOK, Reasons
<1>6. QED
  BY <1>1, <1>2, <1>3, <1>4, <1>5 DEF Watcher

\* A step of the indexer, failures included, preserves the types.
LEMMA TypeIndexer ==
    ASSUME TypeOK, Indexer \/ ReindexFails PROVE TypeOK'
<1> USE PipelineAssumption DEF envVars, watchVars, idxVars, scanVars, Working, Finish
<1>1. CASE Receive
  BY <1>1 DEF Receive, TypeOK
<1>2. ASSUME NEW p \in Paths, TakeUp(p) PROVE TypeOK'
  BY <1>2 DEF TakeUp, TypeOK
<1>3. CASE Stat
  BY <1>3 DEF Stat, TypeOK, Reasons, Row
<1>4. CASE RemoveRow
  BY <1>4 DEF RemoveRow, TypeOK, Row
<1>5. CASE Read
  <2>1. cur \in Paths
    BY <1>5 DEF Read, TypeOK
  <2>2. disk[cur] \in Contents =>
          Hash(cur, disk[cur]) \in Row /\ Hash(cur, disk[cur]) # NONE
    BY <2>1, HashIsRow DEF Row
  <2>3. QED
    BY <1>5, <2>1, <2>2 DEF Read, TypeOK, Row
<1>6. CASE Compare
  BY <1>6 DEF Compare, TypeOK, Row
<1>7. CASE ReplaceRow
  BY <1>7 DEF ReplaceRow, TypeOK, Row
<1>8. CASE IndexerStop
  BY <1>8 DEF IndexerStop, TypeOK
<1>9. CASE ReindexFails
  BY <1>9 DEF ReindexFails, TypeOK, Reasons, Row
<1>10. QED
  BY <1>1, <1>2, <1>3, <1>4, <1>5, <1>6, <1>7, <1>8, <1>9 DEF Indexer

\* A step of the startup scan, failures included, preserves the types.
LEMMA TypeScan ==
    ASSUME TypeOK, Scan \/ ScanFails PROVE TypeOK'
<1> USE PipelineAssumption DEF envVars, watchVars, idxVars, Scanning
<1>1. ASSUME NEW p \in Paths, Walk(p) PROVE TypeOK'
  BY <1>1, WantIsRow DEF Walk, Unwalked, TypeOK
<1>2. CASE ReadKnown
  BY <1>2 DEF ReadKnown, TypeOK
<1>3. ASSUME NEW p \in Paths, Prune(p) PROVE TypeOK'
  BY <1>3 DEF Prune, TypeOK, Reasons, Row
<1>4. CASE SendDirty
  BY <1>4 DEF SendDirty, TypeOK
<1>5. CASE ScanFails
  BY <1>5 DEF ScanFails, TypeOK, Reasons
<1>6. QED
  BY <1>1, <1>2, <1>3, <1>4, <1>5 DEF Scan

\* A restart and the shutdown signal preserve the types.
LEMMA TypeProcess ==
    ASSUME TypeOK, Signal \/ Restart PROVE TypeOK'
<1> USE PipelineAssumption
<1>1. CASE Signal
  BY <1>1 DEF Signal, TypeOK, envVars, idxVars, scanVars
<1>2. CASE Restart
  <2>1. ihash' \in Row /\ snap' \in [Paths -> Row] /\ known' \in [Paths -> Row]
    BY <1>2 DEF Restart, Fresh, Row
  <2>2. /\ pending' \in [Paths -> {"none", "fresh", "ripe"}]
        /\ lost' \in [Paths -> Reasons]
    BY <1>2 DEF Restart, Fresh, Reasons
  <2>3. changes' \in 0..MaxChanges /\ restarts' \in 0..MaxRestarts
    BY <1>2 DEF Restart, TypeOK
  <2>4. raw' \in Seq([kind : {"data", "remove"}, path : Paths]) /\ raw' = <<>>
    BY <1>2 DEF Restart, Fresh
  <2>5. disk' = disk /\ index' = index /\ chan' = {} /\ batch' = {} /\ walked' = {}
    BY <1>2 DEF Restart, Fresh
  <2>6. QED
    BY <1>2, <2>1, <2>2, <2>3, <2>4, <2>5 DEF Restart, Fresh, TypeOK
<1>3. QED
  BY <1>1, <1>2

\* Every step preserves the types.
LEMMA TypeNext == TypeOK /\ [Next]_vars => TypeOK'
<1> SUFFICES ASSUME TypeOK, [Next]_vars PROVE TypeOK'
  OBVIOUS
<1>1. CASE UNCHANGED vars
  BY <1>1 DEF vars, TypeOK
<1>2. QED
  BY <1>1, TypeVault, TypeWatcher, TypeIndexer, TypeScan, TypeProcess DEF Next

\* Every variable of the pipeline keeps to its type: the current path is set
\* exactly while reindex_one runs, a stopped watcher holds no event, a
\* stopped indexer leaves nothing in the channel.
THEOREM TypeCorrect == Spec => []TypeOK
BY TypeInit, TypeNext, PTL DEF Spec

---------------------------------------------------------------------------
(* No update is lost.  The invariant is local to a path: whether a path    *)
(* with a wrong row is tracked, and whether outdated work on it is redone, *)
(* depends on no other path.                                               *)

Safe(p) ==
    /\ Stale(p) => Tracked(p) \/ ScanTracks(p) \/ lost[p] # "no"
    /\ cur = p /\ ~Settles(p) => Queued(p) \/ lost[p] # "no"

IInv == TypeOK /\ \A p \in Paths : Safe(p)

\* An event of a path stays in the queue, and stays relevant unless the file
\* has gone.
LEMMA RawGrows ==
    ASSUME TypeOK, NEW p \in Paths, NEW evs \in Seq(Evs), Notify(evs),
           policy' = policy, disk[p] \in Contents => disk'[p] \in Contents,
           InRaw(p)
    PROVE  InRaw(p)'
<1>1. PICK i \in DOMAIN raw : raw[i].path = p /\ Relevant(raw[i])
  BY DEF InRaw
<1>2. raw \in Seq(Evs) /\ i \in 1..Len(raw)
  BY <1>1 DEF TypeOK, Evs
<1>3. i \in DOMAIN raw' /\ raw'[i] = raw[i]
  BY <1>1, <1>2, ConcatProperties DEF Notify
<1>4. Classified(p)' = Classified(p)
  BY DEF Classified
<1>5. QED
  BY <1>1, <1>3, <1>4 DEF InRaw, Relevant

\* A watched change queues its events.
LEMMA RawGets ==
    ASSUME TypeOK, NEW p \in Paths, NEW evs \in Seq(Evs), Notify(evs),
           watch = "on", NEW j \in DOMAIN evs, evs[j].path = p,
           Relevant(evs[j])'
    PROVE  InRaw(p)'
<1>1. raw \in Seq(Evs) /\ j \in 1..Len(evs) /\ Len(raw) \in Nat
  BY DEF TypeOK, Evs
<1>2. Len(raw) + j \in DOMAIN raw' /\ raw'[Len(raw) + j] = evs[j]
  BY <1>1, ConcatProperties DEF Notify
<1>3. QED
  BY <1>2 DEF InRaw, Relevant, Classified

\* A path a change of the vault does not concern stays safe.
LEMMA SafeElsewhere ==
    ASSUME TypeOK, NEW p \in Paths, Safe(p), Change,
           InRaw(p) => InRaw(p)', disk'[p] = disk[p], lost'[p] = lost[p]
    PROVE  Safe(p)'
BY DEF Change, Safe, Stale, Want, Allowed, Classified, Hash, Tracked, Queued,
       Settles, ScanTracks, Unwalked, idxVars, scanVars

\* A path whose change was queued for the watcher is safe.
LEMMA SafeIfQueued ==
    ASSUME NEW p \in Paths, InRaw(p)'
    PROVE  Safe(p)'
BY DEF Safe, Tracked, Queued

\* A path whose change the history excuses, or the walk has still to pass,
\* is safe.
LEMMA SafeIfMissed ==
    ASSUME TypeOK, NEW p \in Paths, Change, NEW why \in Reasons \ {"no"},
           lost'[p] = Missed(p, why)
    PROVE  Safe(p)'
<1>1. CASE Unwalked(p) /\ cur # p
  BY <1>1 DEF Change, Safe, ScanTracks, Unwalked, idxVars, scanVars
<1>2. CASE ~(Unwalked(p) /\ cur # p)
  BY <1>2 DEF Safe, Missed, Reasons
<1>3. QED
  BY <1>1, <1>2

\* A change a path's policy class hides from the watcher leaves it safe: it
\* has no row to want before or after.
LEMMA SafeIfUnclassified ==
    ASSUME TypeOK, NEW p \in Paths, Safe(p), Change, ~Classified(p),
           lost'[p] = lost[p]
    PROVE  Safe(p)'
<1>1. ~InRaw(p)
  <2>1. SUFFICES ASSUME NEW i \in DOMAIN raw, raw[i].path = p PROVE ~Relevant(raw[i])
    BY DEF InRaw
  <2>2. QED
    BY <2>1 DEF Relevant
<1>2. Want(p) = NONE /\ Want(p)' = NONE /\ ~Allowed(p, disk[p])
  BY DEF Want, Allowed, Classified, Change
<1>3. Settles(p) => Settles(p)'
  BY <1>2 DEF Settles, Change, idxVars
<1>4. Settles(p)' => Settles(p)
  BY <1>2 DEF Settles, Change, idxVars, Allowed, Classified
<1>5. ScanTracks(p) => ScanTracks(p)'
  BY <1>2 DEF ScanTracks, Unwalked, Change, scanVars
<1>6. QED
  BY <1>1, <1>2, <1>3, <1>4, <1>5
  DEF Safe, Stale, Tracked, Queued, Change, idxVars

\* A change announced by an event of the path itself leaves it safe.
LEMMA SafeIfNotified ==
    ASSUME TypeOK, NEW p \in Paths, Safe(p), Change,
           NEW evs \in Seq(Evs), Notify(evs), NEW j \in DOMAIN evs,
           evs[j].path = p,
           evs[j].kind = "remove" \/ disk'[p] \in Contents,
           lost'[p] = Notified(p)
    PROVE  Safe(p)'
<1>1. CASE watch # "on"
  BY <1>1, SafeIfMissed DEF Notified, Reasons
<1>2. CASE watch = "on" /\ ~Classified(p)
  BY <1>2, SafeIfUnclassified DEF Notified
<1>3. CASE watch = "on" /\ Classified(p)
  <2>1. Relevant(evs[j])'
    BY <1>3 DEF Relevant, Classified, Change
  <2>2. QED
    BY <1>3, <2>1, RawGets, SafeIfQueued
<1>4. QED
  BY <1>1, <1>2, <1>3

\* A change of the vault leaves every path safe.
LEMMA SafeVault ==
    ASSUME TypeOK, Vault, NEW p \in Paths, Safe(p) PROVE Safe(p)'
<1>1. ASSUME NEW q \in Paths, NEW c \in Contents, WriteFile(q, c)
      PROVE  Safe(p)'
  <2> DEFINE evs == <<Event("data", q)>>
  <2>1. evs \in Seq(Evs) /\ Notify(evs) /\ policy' = policy /\ Change
    BY <1>1, EventsType DEF WriteFile, Change
  <2>2. CASE q = p
    <3>1. 1 \in DOMAIN evs /\ evs[1].path = p
      BY <2>2 DEF Event
    <3>2. disk'[p] \in Contents /\ lost'[p] = Notified(p)
      BY <1>1, <2>2 DEF WriteFile, TypeOK
    <3>3. QED
      BY <2>1, <3>1, <3>2, SafeIfNotified
  <2>3. CASE q # p
    <3>1. disk'[p] = disk[p] /\ lost'[p] = lost[p]
      BY <1>1, <2>3 DEF WriteFile, TypeOK
    <3>2. InRaw(p) => InRaw(p)'
      BY <2>1, <3>1, RawGrows
    <3>3. QED
      BY <2>1, <3>1, <3>2, SafeElsewhere
  <2>4. QED
    BY <2>2, <2>3
<1>2. ASSUME NEW q \in Paths, DeleteFile(q)
      PROVE  Safe(p)'
  <2> DEFINE evs == <<Event("remove", q)>>
  <2>1. evs \in Seq(Evs) /\ Notify(evs) /\ policy' = policy /\ Change
    BY <1>2, EventsType DEF DeleteFile, Change
  <2>2. CASE q = p
    <3>1. 1 \in DOMAIN evs /\ evs[1].path = p /\ evs[1].kind = "remove"
      BY <2>2 DEF Event
    <3>2. lost'[p] = Notified(p)
      BY <1>2, <2>2 DEF DeleteFile, TypeOK
    <3>3. QED
      BY <2>1, <3>1, <3>2, SafeIfNotified
  <2>3. CASE q # p
    <3>1. disk'[p] = disk[p] /\ lost'[p] = lost[p]
      BY <1>2, <2>3 DEF DeleteFile, TypeOK
    <3>2. InRaw(p) => InRaw(p)'
      BY <2>1, <3>1, RawGrows
    <3>3. QED
      BY <2>1, <3>1, <3>2, SafeElsewhere
  <2>4. QED
    BY <2>2, <2>3
<1>3. ASSUME NEW q \in Paths, NEW r \in Paths, RenameFile(q, r)
      PROVE  Safe(p)'
  <2> DEFINE evs == <<Event("data", q), Event("data", r)>>
  <2>1. evs \in Seq(Evs) /\ Notify(evs) /\ policy' = policy /\ Change /\ q # r
    BY <1>3, EventsType DEF RenameFile, Change
  <2>2. CASE r = p
    <3>1. 2 \in DOMAIN evs /\ evs[2].path = p
      BY <2>2 DEF Event
    <3>2. disk'[p] \in Contents /\ lost'[p] = Notified(p)
      BY <1>3, <2>1, <2>2 DEF RenameFile, TypeOK
    <3>3. QED
      BY <2>1, <3>1, <3>2, SafeIfNotified
  <2>3. CASE q = p
    <3>1. lost'[p] = Missed(p, "renamed")
      BY <1>3, <2>1, <2>3 DEF RenameFile, TypeOK
    <3>2. QED
      BY <2>1, <3>1, SafeIfMissed DEF Reasons
  <2>4. CASE q # p /\ r # p
    <3>1. disk'[p] = disk[p] /\ lost'[p] = lost[p]
      BY <1>3, <2>4 DEF RenameFile, TypeOK
    <3>2. InRaw(p) => InRaw(p)'
      BY <2>1, <3>1, RawGrows
    <3>3. QED
      BY <2>1, <3>1, <3>2, SafeElsewhere
  <2>5. QED
    BY <2>2, <2>3, <2>4
<1>4. ASSUME NEW q \in Paths, NEW c \in Contents \cup {NONE}, MoveDirectory(q, c)
      PROVE  Safe(p)'
  <2>1. Change /\ raw' = raw /\ policy' = policy
    BY <1>4 DEF MoveDirectory, Change
  <2>2. CASE q = p
    <3>1. lost'[p] = Missed(p, "dirmove")
      BY <1>4, <2>2 DEF MoveDirectory, TypeOK
    <3>2. QED
      BY <2>1, <3>1, SafeIfMissed DEF Reasons
  <2>3. CASE q # p
    <3>1. disk'[p] = disk[p] /\ lost'[p] = lost[p]
      BY <1>4, <2>3 DEF MoveDirectory, TypeOK
    <3>2. InRaw(p) => InRaw(p)'
      BY <2>1, <3>1 DEF InRaw, Relevant, Classified
    <3>3. QED
      BY <2>1, <3>1, <3>2, SafeElsewhere
  <2>4. QED
    BY <2>2, <2>3
<1>5. ASSUME NEW q \in Paths, MakeDirectory(q)
      PROVE  Safe(p)'
  <2> DEFINE evs == <<Event("data", q)>>
  <2>1. evs \in Seq(Evs) /\ Notify(evs) /\ policy' = policy /\ Change
    BY <1>5, EventsType DEF MakeDirectory, Change
  <2>2. disk[p] \in Contents => disk'[p] \in Contents
    BY <1>5, PipelineAssumption DEF MakeDirectory, TypeOK
  <2>3. Want(p)' = Want(p) /\ (Allowed(p, disk[p])' <=> Allowed(p, disk[p]))
    BY <1>5, PipelineAssumption
    DEF MakeDirectory, Change, TypeOK, Want, Allowed, Classified, Hash
  <2>4. InRaw(p) => InRaw(p)'
    BY <2>1, <2>2, RawGrows
  <2>5. QED
    BY <1>5, <2>1, <2>3, <2>4
    DEF MakeDirectory, Change, Safe, Stale, Tracked, Queued, Settles,
        ScanTracks, Unwalked, idxVars, scanVars
<1>6. QED
  BY <1>1, <1>2, <1>3, <1>4, <1>5 DEF Vault

\* Outside a change of the vault and a restart, what a path ought to hold and
\* what the watcher would make of its events stay as they are.
LEMMA Unchanged ==
    ASSUME NEW p \in Paths, UNCHANGED <<disk, policy>>
    PROVE  /\ Want(p)' = Want(p)
           /\ Allowed(p, disk[p])' <=> Allowed(p, disk[p])
           /\ raw' = raw => (InRaw(p)' <=> InRaw(p))
BY DEF Want, Allowed, Classified, Hash, InRaw, Relevant

\* A step of the watcher leaves every path safe: an event, a stamp or a dirty
\* path moves on, and the shutdown that drops them is excused.
LEMMA SafeWatcher ==
    ASSUME TypeOK, Watcher, NEW p \in Paths, Safe(p) PROVE Safe(p)'
<1> USE DEF Safe, Stale, Tracked, Settles, ScanTracks, Unwalked,
            envVars, idxVars, scanVars
<1>1. CASE WatchStart
  BY <1>1, Unchanged DEF WatchStart, Queued
<1>2. CASE Record
  <2>1. raw \in Seq(Evs) /\ raw # <<>> /\ Len(raw) \in Nat /\ Head(raw) = raw[1]
    BY <1>2 DEF Record, TypeOK, Evs
  <2>2. InRaw(p) => InRaw(p)' \/ pending'[p] # "none"
    <3>1. SUFFICES ASSUME NEW i \in DOMAIN raw, raw[i].path = p, Relevant(raw[i])
                   PROVE  InRaw(p)' \/ pending'[p] # "none"
      BY DEF InRaw
    <3>2. i \in 1..Len(raw)
      BY <2>1
    <3>3. CASE i = 1
      BY <1>2, <2>1, <3>1, <3>3 DEF Record, TypeOK
    <3>4. CASE i # 1
      <4>1. i - 1 \in 1..Len(Tail(raw)) /\ Tail(raw)[i - 1] = raw[i]
            /\ Tail(raw) \in Seq(Evs)
        BY <2>1, <3>2, <3>4, HeadTailProperties
      <4>2. i - 1 \in DOMAIN raw' /\ raw'[i - 1] = raw[i]
        BY <1>2, <4>1 DEF Record
      <4>3. QED
        BY <1>2, <3>1, <4>2 DEF InRaw, Relevant, Classified, Record
    <3>5. QED
      BY <3>3, <3>4
  <2>3. pending[p] # "none" => pending'[p] # "none"
    BY <1>2 DEF Record, TypeOK
  <2>4. UNCHANGED <<index, chan, lost, disk, policy>>
    BY <1>2 DEF Record
  <2>5. QED
    BY <1>2, <2>2, <2>3, <2>4, Unchanged DEF Record, Queued
<1>3. ASSUME NEW q \in Paths, Ripen(q) PROVE Safe(p)'
  <2>1. pending[p] # "none" => pending'[p] # "none"
    BY <1>3 DEF Ripen, TypeOK
  <2>2. QED
    BY <1>3, <2>1, Unchanged DEF Ripen, Queued
<1>4. CASE Flush
  <2>1. pending[p] # "none" => pending'[p] # "none" \/ p \in chan'
    BY <1>4 DEF Flush, TypeOK, Ripe
  <2>2. p \in chan => p \in chan'
    BY <1>4 DEF Flush
  <2>3. QED
    BY <1>4, <2>1, <2>2, Unchanged DEF Flush, Queued
<1>5. CASE WatchStop
  <2>1. InRaw(p) \/ pending[p] # "none" => lost'[p] # "no"
    BY <1>5 DEF WatchStop
  <2>2. lost[p] # "no" => lost'[p] # "no"
    BY <1>5 DEF WatchStop
  <2>3. QED
    BY <1>5, <2>1, <2>2, Unchanged DEF WatchStop, Queued
<1>6. QED
  BY <1>1, <1>2, <1>3, <1>4, <1>5 DEF Watcher

\* A step of the indexer leaves every path safe: a call that ends without the
\* wanted row has a later event behind it or is excused.
LEMMA SafeIndexer ==
    ASSUME TypeOK, Indexer \/ ReindexFails, NEW p \in Paths, Safe(p)
    PROVE  Safe(p)'
<1> USE DEF Safe, Stale, Tracked, Settles, ScanTracks, Unwalked, Working, Finish,
            envVars, watchVars, scanVars
<1>1. CASE Receive
  BY <1>1, Unchanged DEF Receive, Queued
<1>2. ASSUME NEW q \in Paths, TakeUp(q) PROVE Safe(p)'
  BY <1>2, Unchanged, PipelineAssumption DEF TakeUp, Queued, TypeOK
<1>3. CASE Stat
  <2>1. UNCHANGED <<disk, policy, raw, pending, chan, batch, index>>
    BY <1>3 DEF Stat
  <2>2. Queued(p)' <=> Queued(p)
    BY <2>1, Unchanged DEF Queued
  <2>3. lost[p] # "no" => lost'[p] # "no"
    BY <1>3 DEF Stat, TypeOK
  <2>4. CASE cur # p
    BY <1>3, <2>1, <2>2, <2>3, <2>4, Unchanged, PipelineAssumption DEF Stat
  <2>5. CASE cur = p /\ disk[p] = DIR
    <3>1. cur' # p /\ (Stale(p) => lost'[p] # "no")
      BY <1>3, <2>5, PipelineAssumption DEF Stat, TypeOK
    <3>2. QED
      BY <2>1, <3>1, Unchanged
  <2>6. CASE cur = p /\ disk[p] # DIR
    BY <1>3, <2>1, <2>6, Unchanged, WantIsRow DEF Stat
  <2>7. QED
    BY <2>4, <2>5, <2>6
<1>4. CASE RemoveRow
  <2>1. Queued(p)' <=> Queued(p)
    BY <1>4, Unchanged DEF RemoveRow, Queued
  <2>2. CASE cur = p
    BY <1>4, <2>1, <2>2, Unchanged, PipelineAssumption DEF RemoveRow, TypeOK
  <2>3. CASE cur # p
    BY <1>4, <2>1, <2>3, Unchanged, PipelineAssumption DEF RemoveRow, TypeOK
  <2>4. QED
    BY <2>2, <2>3
<1>5. CASE Read
  <2>1. Queued(p)' <=> Queued(p)
    BY <1>5, Unchanged DEF Read, Queued
  <2>2. CASE cur = p
    <3>1. Allowed(p, disk[p]) => disk[p] \in Contents
      BY DEF Allowed
    <3>2. QED
      BY <1>5, <2>1, <2>2, <3>1, Unchanged, WantIsRow, PipelineAssumption DEF Read
  <2>3. CASE cur # p
    BY <1>5, <2>1, <2>3, Unchanged, PipelineAssumption DEF Read
  <2>4. QED
    BY <2>2, <2>3
<1>6. CASE Compare
  <2>1. Queued(p)' <=> Queued(p)
    BY <1>6, Unchanged DEF Compare, Queued
  <2>2. QED
    BY <1>6, <2>1, Unchanged, PipelineAssumption DEF Compare
<1>7. CASE ReplaceRow
  <2>1. Queued(p)' <=> Queued(p)
    BY <1>7, Unchanged DEF ReplaceRow, Queued
  <2>2. CASE cur = p
    BY <1>7, <2>1, <2>2, Unchanged, PipelineAssumption DEF ReplaceRow, TypeOK
  <2>3. CASE cur # p
    BY <1>7, <2>1, <2>3, Unchanged, PipelineAssumption DEF ReplaceRow, TypeOK
  <2>4. QED
    BY <2>2, <2>3
<1>8. CASE IndexerStop
  BY <1>8, Unchanged, PipelineAssumption DEF IndexerStop, Queued, TypeOK
<1>9. CASE ReindexFails
  <2>1. Queued(p)' <=> Queued(p)
    BY <1>9, Unchanged DEF ReindexFails, Queued
  <2>2. cur = p => lost'[p] # "no"
    BY <1>9 DEF ReindexFails, TypeOK
  <2>3. cur # p => lost'[p] = lost[p]
    BY <1>9 DEF ReindexFails, TypeOK
  <2>4. QED
    BY <1>9, <2>1, <2>2, <2>3, Unchanged, PipelineAssumption DEF ReindexFails
<1>10. QED
  BY <1>1, <1>2, <1>3, <1>4, <1>5, <1>6, <1>7, <1>8, <1>9 DEF Indexer

\* A step of the startup scan leaves every path safe: the walk records what
\* the row ought to be, and a recorded difference is pruned or sent.
LEMMA SafeScan ==
    ASSUME TypeOK, Scan \/ ScanFails, NEW p \in Paths, Safe(p) PROVE Safe(p)'
<1> USE DEF Safe, Stale, Settles, ScanTracks, Unwalked, Scanning,
            envVars, watchVars, idxVars
<1>1. ASSUME NEW q \in Paths, Walk(q) PROVE Safe(p)'
  <2>1. Queued(p)' <=> Queued(p)
    BY <1>1, Unchanged DEF Walk, Queued
  <2>2. QED
    BY <1>1, <2>1, Unchanged DEF Walk, TypeOK, Tracked
<1>2. CASE ReadKnown
  <2>1. Queued(p)' <=> Queued(p)
    BY <1>2, Unchanged DEF ReadKnown, Queued
  <2>2. QED
    BY <1>2, <2>1, Unchanged DEF ReadKnown, Tracked
<1>3. ASSUME NEW q \in Paths, Prune(q) PROVE Safe(p)'
  <2>1. Queued(p)' <=> Queued(p)
    BY <1>3, Unchanged DEF Prune, Queued
  <2>2. Settles(p)' <=> Settles(p)
    BY <1>3, Unchanged DEF Prune
  <2>3. CASE q = p
    BY <1>3, <2>1, <2>2, <2>3, Unchanged DEF Prune, TypeOK, Tracked
  <2>4. CASE q # p
    BY <1>3, <2>1, <2>2, <2>4, Unchanged DEF Prune, TypeOK, Tracked
  <2>5. QED
    BY <2>3, <2>4
<1>4. CASE SendDirty
  <2>1. Queued(p) => Queued(p)'
    BY <1>4, Unchanged DEF SendDirty, Queued
  <2>2. snap[p] # NONE /\ known[p] # snap[p] => Queued(p)'
    BY <1>4 DEF SendDirty, Queued
  <2>3. snap[p] = NONE => known[p] = NONE
    BY <1>4 DEF SendDirty, ToPrune
  <2>4. QED
    BY <1>4, <2>1, <2>2, <2>3, Unchanged DEF SendDirty, Tracked
<1>5. CASE ScanFails
  <2>1. Queued(p)' <=> Queued(p)
    BY <1>5, Unchanged DEF ScanFails, Queued
  <2>2. QED
    BY <1>5, <2>1, Unchanged DEF ScanFails, Tracked
<1>6. QED
  BY <1>1, <1>2, <1>3, <1>4, <1>5 DEF Scan

\* The shutdown signal and a restart leave every path safe: after a restart
\* the walk has still to pass all of them.
LEMMA SafeProcess ==
    ASSUME TypeOK, Signal \/ Restart, NEW p \in Paths, Safe(p) PROVE Safe(p)'
<1>1. CASE Signal
  BY <1>1, Unchanged
  DEF Signal, Safe, Stale, Tracked, Queued, Settles, ScanTracks, Unwalked,
      envVars, idxVars, scanVars
<1>2. CASE Restart
  BY <1>2, PipelineAssumption DEF Restart, Fresh, Safe, ScanTracks, Unwalked
<1>3. QED
  BY <1>1, <1>2

\* The invariant holds initially: the walk has still to pass every path.
LEMMA InvInit == Init => IInv
<1> SUFFICES ASSUME Init, NEW p \in Paths PROVE Safe(p)
  BY TypeInit DEF IInv
<1>1. QED
  BY PipelineAssumption DEF Init, Safe, ScanTracks, Unwalked

\* Every step preserves the invariant.
LEMMA InvNext == IInv /\ [Next]_vars => IInv'
<1> SUFFICES ASSUME IInv, [Next]_vars, NEW p \in Paths PROVE Safe(p)'
  BY TypeNext DEF IInv
<1> USE DEF IInv
<1>1. CASE UNCHANGED vars
  BY <1>1, Unchanged
  DEF vars, Safe, Stale, Tracked, Queued, Settles, ScanTracks, Unwalked
<1>2. CASE Next
  BY <1>2, SafeVault, SafeWatcher, SafeIndexer, SafeScan, SafeProcess DEF Next
<1>3. QED
  BY <1>1, <1>2

\* The inductive invariant holds throughout.
LEMMA Invariance == Spec => []IInv
BY InvInit, InvNext, PTL DEF Spec

\* A row that disagrees with the disk is about to be repaired, or `lost` says
\* which of the known gaps of the code swallowed the change.
THEOREM NoUpdateIsLost == Spec => []NoLostUpdate
<1>1. IInv => NoLostUpdate
  BY DEF IInv, Safe, NoLostUpdate
<1>2. QED
  BY <1>1, Invariance, PTL

\* A reindex_one call with an outdated look at its file has a later event of
\* that file behind it.
THEOREM OutdatedWorkFollowedUp == Spec => []OutdatedWorkIsRedone
<1>1. IInv => OutdatedWorkIsRedone
  BY DEF IInv, Safe, OutdatedWorkIsRedone
<1>2. QED
  BY <1>1, Invariance, PTL

=============================================================================
