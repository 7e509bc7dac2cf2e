------------------------------ MODULE Startup ------------------------------
(***************************************************************************)
(* How the server opens its database before it indexes or answers          *)
(* anything (server::open_store_with_fingerprint_check over Store::open,   *)
(* open_for_reembed, check_fingerprint, set_fingerprint and                *)
(* wipe_and_rebuild), over a sequence of boots with changing [embed]       *)
(* settings, and what indexing then writes under the settings it opened    *)
(* with.  The process may end between any two commits.                     *)
(*                                                                         *)
(* A vector is known by its space: the provider, model and dim it was      *)
(* computed with.  A row stands for a file whose chunks were all embedded  *)
(* together; `cache` is embedding_cache, looked up by content alone.       *)
(***************************************************************************)
EXTENDS Naturals

CONSTANTS
    Providers, Models, Dims,   \* what [embed] can be set to
    Paths,       \* files of the vault
    Contents,    \* chunk contents
    NONE,        \* an absent key, table, row or entry
    MaxBoots     \* bound: times the server is started

Config == [provider : Providers, model : Models, dim : Dims]

\* schema_version values a database can hold; this binary supports "3" and
\* upgrades "2".
Versions == {"2", "3", "4"}

ASSUME StartupAssumption ==
    /\ NONE \notin Providers \cup Models \cup Dims \cup Config \cup Versions
    /\ MaxBoots \in Nat

VARIABLES
    meta,      \* embedding_provider, embedding_model and embedding_dim
    version,   \* schema_version
    vecdim,    \* the dim in the DDL of chunks_vec
    rows,      \* space of the vectors of an indexed path
    cache,     \* space of the cached vector of a content
    cfg,       \* the [embed] settings of this boot
    reembed,   \* --reembed
    skip,      \* opened by open_for_reembed
    pc,        \* the next step of the boot, "serving" or "down"
    verdict,   \* why the last boot was refused
    torn,      \* history: died with chunks_vec created and its dim unrecorded
    foreign,   \* history: adopted an index of another space
    boots      \* counter for the bound

dbVars   == <<meta, version, vecdim, rows, cache>>
bootVars == <<cfg, reembed, boots>>
history  == <<torn, foreign>>
vars == <<meta, version, vecdim, rows, cache, cfg, reembed, skip, pc, verdict,
          torn, foreign, boots>>

Complete(m) == m.provider # NONE /\ m.model # NONE /\ m.dim # NONE

\* Mutant: the model is not compared.
OutcomeIgnoresModel(m, c) ==
    IF ~Complete(m) THEN "fresh"
    ELSE IF m.provider = c.provider /\ m.dim = c.dim THEN "match" ELSE "mismatch"

\* FingerprintOutcome, from the peeked and from the live keys alike.
Outcome(m, c) ==
    IF ~Complete(m) THEN "fresh" ELSE IF m = c THEN "match" ELSE "mismatch"

\* Every vector the store holds is of the space s.
OneSpace(s) ==
    /\ \A p \in Paths : rows[p] \in {NONE, s}
    /\ \A c \in Contents : cache[c] \in {NONE, s}

---------------------------------------------------------------------------
(* The databases a first boot of this binary can find: no file at all, or  *)
(* one an earlier build left.  Builds without fingerprints recorded the    *)
(* dim alone; very old ones could die while writing the three keys.        *)

NoMeta == [provider |-> NONE, model |-> NONE, dim |-> NONE]

NoFile ==
    /\ meta = NoMeta /\ version = NONE /\ vecdim = NONE
    /\ rows = [p \in Paths |-> NONE] /\ cache = [c \in Contents |-> NONE]

EarlierBuild ==
    \E c \in Config :
        /\ \/ meta = c
           \/ meta = [c EXCEPT !.model = NONE]
           \/ meta = [NoMeta EXCEPT !.dim = c.dim]
        /\ version \in Versions
        /\ vecdim = c.dim
        /\ rows \in [Paths -> {NONE, c}]
        /\ cache \in [Contents -> {NONE, c}]

Init ==
    /\ NoFile \/ EarlierBuild
    /\ cfg \in Config /\ reembed \in BOOLEAN
    /\ skip = FALSE /\ pc = "down" /\ verdict = "none"
    /\ torn = FALSE /\ foreign = FALSE
    /\ boots = 0

---------------------------------------------------------------------------
(* The boot.                                                               *)

\* The operator starts the server with some settings.
Boot(c, r) ==
    /\ pc = "down" /\ boots < MaxBoots
    /\ boots' = boots + 1
    /\ cfg' = c /\ reembed' = r
    /\ pc' = "peek" /\ verdict' = "none"
    /\ UNCHANGED <<dbVars, skip, history>>

Refuse(why) == pc' = "down" /\ verdict' = why

\* peek_fingerprint, from_peek: only a mismatch skips the dim check.
Peek ==
    /\ pc = "peek"
    /\ skip' = (Outcome(meta, cfg) = "mismatch")
    /\ pc' = "schema"
    /\ UNCHANGED <<dbVars, bootVars, verdict, history>>

\* SCHEMA_SQL and the vector table, IF NOT EXISTS.
ApplySchema ==
    /\ pc = "schema"
    /\ vecdim' = IF vecdim = NONE THEN cfg.dim ELSE vecdim
    /\ pc' = "migrate"
    /\ UNCHANGED <<meta, version, rows, cache, bootVars, skip, verdict, history>>

MigrateSchema ==
    /\ pc = "migrate"
    /\ \/ /\ version \in {NONE, "2", "3"}
          /\ version' = "3"
          /\ pc' = IF skip THEN "check" ELSE "reconcile"
          /\ UNCHANGED verdict
       \/ /\ version \notin {NONE, "2", "3"}
          /\ Refuse("version")
          /\ UNCHANGED version
    /\ UNCHANGED <<meta, vecdim, rows, cache, bootVars, skip, history>>

\* reconcile_embedding_dim: a commit of its own for the dim.
Reconcile ==
    /\ pc = "reconcile"
    /\ \/ /\ meta.dim \in {NONE, cfg.dim}
          /\ meta' = [meta EXCEPT !.dim = cfg.dim]
          /\ pc' = "sweep"
          /\ UNCHANGED verdict
       \/ /\ meta.dim \notin {NONE, cfg.dim}
          /\ Refuse("dim")
          /\ UNCHANGED meta
    /\ UNCHANGED <<version, vecdim, rows, cache, bootVars, skip, history>>

\* Cached vectors of another dim are deleted.
Sweep ==
    /\ pc = "sweep"
    /\ cache' = [c \in Contents |->
                    IF cache[c] # NONE /\ cache[c].dim # cfg.dim THEN NONE
                    ELSE cache[c]]
    /\ pc' = "check"
    /\ UNCHANGED <<meta, version, vecdim, rows, bootVars, skip, verdict, history>>

\* Mutant: a mismatch is always rebuilt.
CheckIgnoresFlag ==
    /\ pc = "check"
    /\ pc' = CASE Outcome(meta, cfg) = "fresh" -> "adopt"
               [] Outcome(meta, cfg) = "match" -> "serving"
               [] Outcome(meta, cfg) = "mismatch" -> "wipe"
    /\ UNCHANGED <<dbVars, bootVars, skip, verdict, history>>

\* check_fingerprint and the arms of its match.
Check ==
    /\ pc = "check"
    /\ \/ /\ Outcome(meta, cfg) = "mismatch" /\ ~reembed
          /\ Refuse("fingerprint")
       \/ /\ Outcome(meta, cfg) = "mismatch" => reembed
          /\ pc' = CASE Outcome(meta, cfg) = "fresh" -> "adopt"
                     [] Outcome(meta, cfg) = "match" -> "serving"
                     [] Outcome(meta, cfg) = "mismatch" -> "wipe"
          /\ UNCHANGED verdict
    /\ UNCHANGED <<dbVars, bootVars, skip, history>>

\* Mutant: the model alone is written.
AdoptKeepsProvider ==
    /\ pc = "adopt"
    /\ meta' = [meta EXCEPT !.model = cfg.model]
    /\ foreign' = (foreign \/ ~OneSpace(cfg))
    /\ pc' = "serving"
    /\ UNCHANGED <<version, vecdim, rows, cache, bootVars, skip, verdict, torn>>

\* set_fingerprint: whatever is there is taken to be of these settings.
Adopt ==
    /\ pc = "adopt"
    /\ meta' = cfg
    /\ foreign' = (foreign \/ ~OneSpace(cfg))
    /\ pc' = "serving"
    /\ UNCHANGED <<version, vecdim, rows, cache, bootVars, skip, verdict, torn>>

\* Mutant: the cache survives the rebuild.
WipeKeepsCache ==
    /\ pc = "wipe"
    /\ rows' = [p \in Paths |-> NONE]
    /\ vecdim' = cfg.dim /\ meta' = cfg
    /\ foreign' = FALSE /\ torn' = FALSE
    /\ pc' = "serving"
    /\ UNCHANGED <<version, cache, bootVars, skip, verdict>>

\* Mutant: the vector table is emptied, not created anew.
WipeKeepsTable ==
    /\ pc = "wipe"
    /\ rows' = [p \in Paths |-> NONE] /\ cache' = [c \in Contents |-> NONE]
    /\ meta' = cfg
    /\ foreign' = FALSE /\ torn' = FALSE
    /\ pc' = "serving"
    /\ UNCHANGED <<version, vecdim, bootVars, skip, verdict>>

\* wipe_and_rebuild, one transaction.
Wipe ==
    /\ pc = "wipe"
    /\ rows' = [p \in Paths |-> NONE] /\ cache' = [c \in Contents |-> NONE]
    /\ vecdim' = cfg.dim /\ meta' = cfg
    /\ foreign' = FALSE /\ torn' = FALSE
    /\ pc' = "serving"
    /\ UNCHANGED <<version, bootVars, skip, verdict>>

\* The process ends at any point: an I/O error of a step, a crash, a stop.
Die ==
    /\ pc # "down"
    /\ pc' = "down"
    /\ torn' = (torn \/ (vecdim # NONE /\ meta.dim = NONE))
    /\ UNCHANGED <<dbVars, bootVars, skip, verdict, foreign>>

---------------------------------------------------------------------------
(* Indexing (resolve_embeddings, replace_file, remove_file).               *)

\* A cached vector is used whatever it was computed with; sqlite-vec
\* rejects one that does not fit the table, and the transaction with it.
IndexFile(p, c) ==
    LET space == IF cache[c] # NONE THEN cache[c] ELSE cfg IN
    /\ pc = "serving"
    /\ space.dim = vecdim
    /\ rows' = [rows EXCEPT ![p] = space]
    /\ cache' = [cache EXCEPT ![c] = space]
    /\ UNCHANGED <<meta, version, vecdim, bootVars, skip, pc, verdict, history>>

RemoveFile(p) ==
    /\ pc = "serving"
    /\ rows' = [rows EXCEPT ![p] = NONE]
    /\ UNCHANGED <<meta, version, vecdim, cache, bootVars, skip, pc, verdict, history>>

---------------------------------------------------------------------------
Next ==
    \/ \E c \in Config, r \in BOOLEAN : Boot(c, r)
    \/ Peek \/ ApplySchema \/ MigrateSchema \/ Reconcile \/ Sweep \/ Check
    \/ Adopt \/ Wipe \/ Die
    \/ \E p \in Paths : RemoveFile(p) \/ \E c \in Contents : IndexFile(p, c)

Spec == Init /\ [][Next]_vars

---------------------------------------------------------------------------
\* Types, and what a step of the boot may rely on: a server that serves has
\* a complete fingerprint, its own.
TypeOK ==
    /\ meta \in [provider : Providers \cup {NONE}, model : Models \cup {NONE},
                 dim : Dims \cup {NONE}]
    /\ version \in Versions \cup {NONE}
    /\ vecdim \in Dims \cup {NONE}
    /\ rows \in [Paths -> Config \cup {NONE}]
    /\ cache \in [Contents -> Config \cup {NONE}]
    /\ cfg \in Config
    /\ reembed \in BOOLEAN /\ skip \in BOOLEAN
    /\ torn \in BOOLEAN /\ foreign \in BOOLEAN
    /\ pc \in {"down", "peek", "schema", "migrate", "reconcile", "sweep",
               "check", "adopt", "wipe", "serving"}
    /\ verdict \in {"none", "version", "dim", "fingerprint"}
    /\ pc = "serving" => meta = cfg /\ version = "3"
    /\ boots \in 0..MaxBoots

\* docs/ARCHITECTURE.md:22 on mixed spaces: a complete fingerprint tells the
\* space of every vector in the index and in the cache, at every moment of
\* every boot, unless an index without one was adopted under other settings.
FingerprintTellsSpace ==
    Complete(meta) /\ ~foreign => OneSpace(meta)

\* While the server serves, vectors are compared with queries of their own
\* space only, under the same reservation.
ServesOneSpace == pc = "serving" /\ ~foreign => OneSpace(cfg)

\* While the server serves, the vector table takes the vectors the embedder
\* makes, unless a boot died between creating the table and recording its dim.
ServedAtOneDim == pc = "serving" => vecdim = cfg.dim \/ torn

\* The rows of the index go all at once only when the operator asked for it
\* and the settings did change; a boot that is refused takes nothing away.
WipeOnlyOnRequest ==
    [][\A p \in Paths :
         pc # "serving" /\ rows'[p] # rows[p] => reembed /\ meta # cfg]_vars

\* src/store/mod.rs:39 "run with --reembed to reindex at the new dim": a boot
\* with --reembed is not refused over the dim.
ReembedReindexes == verdict = "dim" => ~reembed

=============================================================================
