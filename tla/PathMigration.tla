--------------------------- MODULE PathMigration ---------------------------
(***************************************************************************)
(* The rewriting of absolute paths, which builds before 0.2.0 stored, into *)
(* vault-relative ones (Store::migrate_paths_to_relative), and what the    *)
(* startup scan that follows makes of its outcome.  The operator may point *)
(* the server at another vault at every boot.                              *)
(*                                                                         *)
(* chunks and files are rewritten by the same rule in one transaction and  *)
(* are one table here.  A row remembers the file it was built from.        *)
(***************************************************************************)
EXTENDS Naturals, FiniteSets

CONSTANTS
    Dirs,       \* directories that are or were a vault, none within another
    Names,      \* paths of files within them
    Similar,    \* Similar[v]: the directories d for which d/x LIKE v/%
    REL,        \* stands for the directory of a relative path
    NONE,
    MaxBoots    \* bound: times the server is started

ASSUME MigrationAssumption ==
    /\ Similar \in [Dirs -> SUBSET Dirs]
    /\ \A v \in Dirs : v \in Similar[v]
    /\ REL \notin Dirs /\ NONE \notin Dirs
    /\ MaxBoots \in Nat

Paths == (Dirs \cup {REL}) \X Names

VARIABLES
    rows,      \* directory of the file a row was built from, or NONE
    current,   \* path_schema_version is set
    disk,      \* the files every directory holds
    vault,     \* vault_dir of this boot
    outcome,   \* MigrationOutcome of this boot
    pc,        \* "down", "migrate", "scan" or "serving"
    boots      \* counter for the bound

vars == <<rows, current, disk, vault, outcome, pc, boots>>

Absolute == {p \in Paths : p[1] # REL /\ rows[p] # NONE}

\* Mutant: the prefix test selects every absolute path.
AnyAbsolute == Absolute

\* The rows path LIKE '<vault>/%' selects.  LIKE takes '_' and '%' of the
\* directory's name for wildcards and ignores the case of ASCII letters.
Inside == {p \in Absolute : p[1] \in Similar[vault]}

\* substr(path, length(vault) + 2).
Stripped(p) == <<REL, p[2]>>

\* A database of an earlier build, whose scans left the rows of one vault
\* only, or an empty one.
Init ==
    /\ \E home \in Dirs :
         rows \in {r \in [Paths -> {NONE, home}] :
                     \A p \in Paths : p[1] # home => r[p] = NONE}
    /\ current = FALSE
    /\ disk \in [Dirs -> SUBSET Names]
    /\ vault \in Dirs
    /\ outcome = "none" /\ pc = "down" /\ boots = 0

---------------------------------------------------------------------------
Boot(v) ==
    /\ pc = "down" /\ boots < MaxBoots
    /\ boots' = boots + 1
    /\ vault' = v
    /\ pc' = "migrate" /\ outcome' = "none"
    /\ UNCHANGED <<rows, current, disk>>

Leave(result, to) ==
    /\ outcome' = result /\ pc' = to
    /\ UNCHANGED <<disk, vault, boots>>

AlreadyCurrent ==
    /\ pc = "migrate" /\ current
    /\ Leave("current", "scan")
    /\ UNCHANGED <<rows, current>>

\* vault_dir cannot be canonicalized: the boot fails.
NoVault ==
    /\ pc = "migrate" /\ ~current
    /\ Leave("error", "down")
    /\ UNCHANGED <<rows, current>>

\* Mutant: the version is set although nothing was rewritten.
RefuseAndMark ==
    /\ pc = "migrate" /\ ~current
    /\ Absolute # Inside
    /\ current' = TRUE
    /\ Leave("refused", "scan")
    /\ UNCHANGED rows

\* Rows outside the vault: nothing is rewritten and the server goes on.
RefuseMigration ==
    /\ pc = "migrate" /\ ~current
    /\ Absolute # Inside
    /\ Leave("refused", "scan")
    /\ UNCHANGED <<rows, current>>

\* Mutant: the version is set and the rows stay.
MarkOnly ==
    /\ pc = "migrate" /\ ~current
    /\ Absolute = Inside
    /\ current' = TRUE
    /\ Leave("migrated", "scan")
    /\ UNCHANGED rows

\* Two rows with one relative path break the UNIQUE constraints.
Collision ==
    \/ \E p \in Inside : rows[Stripped(p)] # NONE
    \/ \E p, q \in Inside : p # q /\ Stripped(p) = Stripped(q)

\* The transaction fails, and the boot with it.
MigrationFails ==
    /\ pc = "migrate" /\ ~current
    /\ Absolute = Inside /\ Collision
    /\ Leave("error", "down")
    /\ UNCHANGED <<rows, current>>

\* The rows with those of the vault made relative.
Rewritten ==
    [q \in Paths |->
       IF \E p \in Inside : Stripped(p) = q
       THEN rows[CHOOSE p \in Inside : Stripped(p) = q]
       ELSE IF q \in Inside THEN NONE ELSE rows[q]]

\* Mutant: rows outside the vault do not stop the migration.
MigrateWhatFits ==
    /\ pc = "migrate" /\ ~current
    /\ ~Collision
    /\ rows' = Rewritten
    /\ current' = TRUE
    /\ Leave("migrated", "scan")

Migrate ==
    /\ pc = "migrate" /\ ~current
    /\ Absolute = Inside /\ ~Collision
    /\ rows' = Rewritten
    /\ current' = TRUE
    /\ Leave("migrated", "scan")

---------------------------------------------------------------------------
(* The startup scan knows relative paths only.                             *)

Seen == {<<REL, n>> : n \in disk[vault]}

Gone == {p \in Paths \ Seen : rows[p] # NONE}

Prune(p) ==
    /\ pc = "scan" /\ p \in Gone
    /\ rows' = [rows EXCEPT ![p] = NONE]
    /\ UNCHANGED <<current, disk, vault, outcome, pc, boots>>

ScanDone ==
    /\ pc = "scan" /\ Gone = {}
    /\ pc' = "serving"
    /\ UNCHANGED <<rows, current, disk, vault, outcome, boots>>

\* The indexer gives a file its row, under its relative path.
IndexFile(n) ==
    /\ pc \in {"scan", "serving"} /\ n \in disk[vault]
    /\ rows' = [rows EXCEPT ![<<REL, n>>] = vault]
    /\ UNCHANGED <<current, disk, vault, outcome, pc, boots>>

\* The server stops or dies.
Stop ==
    /\ pc # "down"
    /\ pc' = "down"
    /\ UNCHANGED <<rows, current, disk, vault, outcome, boots>>

Next ==
    \/ \E v \in Dirs : Boot(v)
    \/ AlreadyCurrent \/ NoVault \/ RefuseMigration \/ MigrationFails
    \/ Migrate
    \/ \E p \in Paths : Prune(p)
    \/ \E n \in Names : IndexFile(n)
    \/ ScanDone \/ Stop

Spec == Init /\ [][Next]_vars

---------------------------------------------------------------------------
\* Types; an absolute row is under its own directory, and a boot serves with
\* the old path version exactly when the migration was refused.
TypeOK ==
    /\ rows \in [Paths -> Dirs \cup {NONE}]
    /\ \A p \in Absolute : rows[p] = p[1]
    /\ current \in BOOLEAN
    /\ disk \in [Dirs -> SUBSET Names]
    /\ vault \in Dirs
    /\ outcome \in {"none", "current", "refused", "migrated", "error"}
    /\ pc \in {"down", "migrate", "scan", "serving"}
    /\ pc = "migrate" => outcome = "none"
    /\ pc \in {"scan", "serving"} => (outcome = "refused" <=> ~current)
    /\ boots \in 0..MaxBoots

\* docs/ARCHITECTURE.md:44 "always vault-relative": once the version is set,
\* which ends all migration, no absolute row is left or comes back.
RelativeOnceCurrent == current => Absolute = {}

\* A file that is on disk keeps its row, whatever its form, unless the
\* migration was refused.
RowOutlives(n) ==
    /\ n \in disk[vault] /\ outcome # "refused"
    /\ rows[<<vault, n>>] # NONE \/ rows[<<REL, n>>] # NONE
    => rows'[<<vault, n>>] # NONE \/ rows'[<<REL, n>>] # NONE

\* A row that becomes one of the vault was built from a file of it, or of a
\* directory that LIKE cannot tell from it.
RowIsTheVaults(n) ==
    \/ rows'[<<REL, n>>] \in {NONE, rows[<<REL, n>>]}
    \/ rows'[<<REL, n>>] \in Similar[vault]

\* docs/deployment.md:148 "You do not need to wipe the DB or re-index", and
\* src/store/mod.rs:772 "if any row's `path` starts with `/` but does **not**
\* fall under `vault_dir`, we refuse the migration": whatever vaults the server
\* is pointed at from boot to boot, no step loses the row of a file that is
\* there, and none passes a row off as one of a vault that it is not of.
RowsFollowTheirFiles ==
    [][\A n \in Names : RowOutlives(n) /\ RowIsTheVaults(n)]_vars

\* src/store/mod.rs:776 "leaves the DB readable in its old form but makes the
\* operator decide": a refused migration takes no absolute row away.
RefusalKeepsRows ==
    [][\A p \in Absolute : outcome = "refused" => rows'[p] = rows[p]]_vars

=============================================================================
