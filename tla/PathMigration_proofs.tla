------------------------ MODULE PathMigration_proofs ------------------------
(***************************************************************************)
(* Proofs about module PathMigration, for any directories, any names the   *)
(* prefix test confuses and any number of boots.                           *)
(***************************************************************************)
EXTENDS PathMigration, TLAPS

IInv == TypeOK /\ RelativeOnceCurrent

\* What the prefix test selects is absolute; a row made relative is not.
LEMMA Forms ==
    ASSUME TypeOK
    PROVE  /\ Inside \subseteq Absolute /\ Absolute \subseteq Paths
           /\ \A p \in Inside : /\ Stripped(p) \in Paths /\ Stripped(p)[1] = REL
                                /\ rows[p] # NONE /\ rows[p] \in Dirs
BY DEF TypeOK, Inside, Absolute, Stripped, Paths

\* The rows after a migration: the row of a vault's file under the relative
\* path, no row under the absolute one, any other as it was.
LEMMA RewrittenRows ==
    ASSUME TypeOK, NEW q \in Paths
    PROVE  /\ Rewritten[q] \in Dirs \cup {NONE}
           /\ (\E p \in Inside : Stripped(p) = q) => Rewritten[q] # NONE
           /\ ~(\E p \in Inside : Stripped(p) = q) =>
                Rewritten[q] = IF q \in Inside THEN NONE ELSE rows[q]
<1>1. CASE \E p \in Inside : Stripped(p) = q
  <2> DEFINE r == CHOOSE p \in Inside : Stripped(p) = q
  <2>1. r \in Inside
    BY <1>1
  <2>2. Rewritten[q] = rows[r]
    BY <1>1 DEF Rewritten
  <2> HIDE DEF r
  <2>3. QED
    BY <1>1, <2>1, <2>2, Forms
<1>2. CASE ~(\E p \in Inside : Stripped(p) = q)
  BY <1>2 DEF Rewritten, TypeOK
<1>3. QED
  BY <1>1, <1>2

\* A migration leaves no absolute row.
LEMMA MigrateLeavesRelative ==
    ASSUME TypeOK, Migrate
    PROVE  rows' \in [Paths -> Dirs \cup {NONE}] /\ Absolute' = {}
<1>1. rows' = Rewritten /\ Absolute = Inside
  BY DEF Migrate
<1>2. rows' \in [Paths -> Dirs \cup {NONE}]
  <2>1. Rewritten = [q \in Paths |-> Rewritten[q]]
    BY DEF Rewritten
  <2>2. QED
    BY <1>1, <2>1, RewrittenRows
<1>3. ASSUME NEW q \in Paths, q[1] # REL PROVE rows'[q] = NONE
  <2>1. ~(\E p \in Inside : Stripped(p) = q)
    BY <1>3, Forms
  <2>2. q \notin Inside => rows[q] = NONE
    BY <1>1, <1>3 DEF Absolute
  <2>3. QED
    BY <1>1, <2>1, <2>2, RewrittenRows
<1>4. QED
  BY <1>2, <1>3 DEF Absolute

\* A step that only takes rows away or adds relative ones keeps the forms.
LEMMA FormsKept ==
    ASSUME TypeOK, NEW q \in Paths, NEW d \in Dirs \cup {NONE},
           q[1] = REL \/ d = NONE, rows' = [rows EXCEPT ![q] = d]
    PROVE  /\ rows' \in [Paths -> Dirs \cup {NONE}]
           /\ Absolute' \subseteq Absolute /\ \A p \in Absolute' : rows'[p] = p[1]
BY DEF TypeOK, Absolute

\* Every step keeps the types and the promise of the version.
LEMMA StepKeeps == IInv /\ [Next]_vars => IInv'
<1> SUFFICES ASSUME IInv, [Next]_vars PROVE IInv'
  OBVIOUS
<1> USE DEF IInv, RelativeOnceCurrent
<1>1. ASSUME NEW v \in Dirs, Boot(v) PROVE IInv'
  BY <1>1, MigrationAssumption DEF Boot, TypeOK, Absolute
<1>2. CASE AlreadyCurrent \/ NoVault \/ RefuseMigration \/ MigrationFails
  BY <1>2 DEF AlreadyCurrent, NoVault, RefuseMigration, MigrationFails, Leave, TypeOK, Absolute
<1>3. CASE Migrate
  <2>1. rows' \in [Paths -> Dirs \cup {NONE}] /\ Absolute' = {}
    BY <1>3, MigrateLeavesRelative
  <2>2. QED
    BY <1>3, <2>1 DEF Migrate, Leave, TypeOK
<1>4. ASSUME NEW p \in Paths, Prune(p) PROVE IInv'
  <2>1. rows' = [rows EXCEPT ![p] = NONE] /\ UNCHANGED <<current, disk, vault, outcome, pc, boots>>
    BY <1>4 DEF Prune
  <2>2. /\ rows' \in [Paths -> Dirs \cup {NONE}]
        /\ Absolute' \subseteq Absolute /\ \A q \in Absolute' : rows'[q] = q[1]
    BY <2>1, FormsKept
  <2>3. QED
    BY <2>1, <2>2 DEF TypeOK
<1>5. ASSUME NEW n \in Names, IndexFile(n) PROVE IInv'
  <2>1. /\ rows' = [rows EXCEPT ![<<REL, n>>] = vault] /\ vault \in Dirs
        /\ UNCHANGED <<current, disk, vault, outcome, pc, boots>>
    BY <1>5 DEF IndexFile, TypeOK
  <2>2. <<REL, n>> \in Paths /\ <<REL, n>>[1] = REL
    BY DEF Paths
  <2>3. /\ rows' \in [Paths -> Dirs \cup {NONE}]
        /\ Absolute' \subseteq Absolute /\ \A q \in Absolute' : rows'[q] = q[1]
    BY <2>1, <2>2, FormsKept
  <2>4. QED
    BY <2>1, <2>3 DEF TypeOK
<1>6. CASE ScanDone \/ Stop
  BY <1>6 DEF ScanDone, Stop, TypeOK, Absolute
<1>7. CASE UNCHANGED vars
  BY <1>7 DEF vars, TypeOK, Absolute
<1>8. QED
  BY <1>1, <1>2, <1>3, <1>4, <1>5, <1>6, <1>7 DEF Next

---------------------------------------------------------------------------
\* Neither the migration nor the scan that follows takes the row of a file
\* that is on disk, unless the migration was refused.
LEMMA NoRowIsLost ==
    ASSUME IInv, Next
    PROVE  \A n \in Names : RowOutlives(n)
<1> DEFINE Has(n) == rows[<<vault, n>>] # NONE \/ rows[<<REL, n>>] # NONE
           Has2(n) == rows'[<<vault, n>>] # NONE \/ rows'[<<REL, n>>] # NONE
<1> SUFFICES ASSUME NEW n \in Names, n \in disk[vault], outcome # "refused", Has(n)
             PROVE  Has2(n)
  BY DEF RowOutlives
<1> USE DEF IInv
<1>1. <<vault, n>> \in Paths /\ <<REL, n>> \in Paths /\ vault # REL
  BY MigrationAssumption DEF Paths, TypeOK
<1>2. ASSUME rows' = rows PROVE Has2(n)
  BY <1>2
<1>3. CASE Migrate
  <2>1. rows' = Rewritten
    BY <1>3 DEF Migrate
  <2>2. CASE \E p \in Inside : Stripped(p) = <<REL, n>>
    BY <1>1, <2>1, <2>2, RewrittenRows
  <2>3. CASE ~(\E p \in Inside : Stripped(p) = <<REL, n>>)
    <3>1. <<vault, n>> \notin Inside /\ <<REL, n>> \notin Inside
      BY <2>3 DEF Stripped, Inside, Absolute
    <3>2. rows[<<vault, n>>] = NONE
      BY <1>1, <3>1, MigrationAssumption DEF Inside, Absolute, TypeOK
    <3>3. QED
      BY <1>1, <2>1, <2>3, <3>1, <3>2, RewrittenRows
  <2>4. QED
    BY <2>2, <2>3
<1>4. ASSUME NEW p \in Paths, Prune(p) PROVE Has2(n)
  <2>1. rows[<<vault, n>>] = NONE
    BY <1>1, <1>4 DEF Prune, TypeOK, RelativeOnceCurrent, Absolute
  <2>2. p # <<REL, n>>
    BY <1>4 DEF Prune, Gone, Seen
  <2>3. QED
    BY <1>1, <1>4, <2>1, <2>2 DEF Prune, TypeOK
<1>5. ASSUME NEW m \in Names, IndexFile(m) PROVE Has2(n)
  BY <1>1, <1>5, MigrationAssumption DEF IndexFile, TypeOK
<1>6. QED
  BY <1>2, <1>3, <1>4, <1>5
     DEF Next, Boot, AlreadyCurrent, NoVault, RefuseMigration, MigrationFails, ScanDone, Stop

\* What the migration and the indexer write is the vault's, as far as the
\* prefix test can tell.
LEMMA NoRowIsClaimed ==
    ASSUME IInv, Next
    PROVE  \A n \in Names : RowIsTheVaults(n)
<1> SUFFICES ASSUME NEW n \in Names
             PROVE  \/ rows'[<<REL, n>>] \in {NONE, rows[<<REL, n>>]}
                    \/ rows'[<<REL, n>>] \in Similar[vault]
  BY DEF RowIsTheVaults
<1> USE DEF IInv
<1>1. <<REL, n>> \in Paths
  BY DEF Paths
<1>2. ASSUME rows' = rows PROVE rows'[<<REL, n>>] = rows[<<REL, n>>]
  BY <1>2
<1>3. CASE Migrate
  <2>1. rows' = Rewritten
    BY <1>3 DEF Migrate
  <2>2. CASE \E p \in Inside : Stripped(p) = <<REL, n>>
    <3> DEFINE r == CHOOSE p \in Inside : Stripped(p) = <<REL, n>>
    <3>1. r \in Inside
      BY <2>2
    <3>2. rows'[<<REL, n>>] = rows[r]
      BY <1>1, <2>1, <2>2 DEF Rewritten
    <3> HIDE DEF r
    <3>3. rows[r] \in Similar[vault]
      BY <3>1 DEF Inside, TypeOK
    <3>4. QED
      BY <3>2, <3>3
  <2>3. CASE ~(\E p \in Inside : Stripped(p) = <<REL, n>>)
    BY <1>1, <2>1, <2>3, RewrittenRows
  <2>4. QED
    BY <2>2, <2>3
<1>4. ASSUME NEW p \in Paths, Prune(p) PROVE rows'[<<REL, n>>] \in {NONE, rows[<<REL, n>>]}
  BY <1>1, <1>4 DEF Prune, TypeOK
<1>5. ASSUME NEW m \in Names, IndexFile(m)
      PROVE  rows'[<<REL, n>>] = rows[<<REL, n>>] \/ rows'[<<REL, n>>] \in Similar[vault]
  <2>1. vault \in Similar[vault]
    BY MigrationAssumption DEF TypeOK
  <2>2. CASE m = n
    BY <1>1, <1>5, <2>1, <2>2 DEF IndexFile, TypeOK
  <2>3. CASE m # n
    BY <1>1, <1>5, <2>3 DEF IndexFile, TypeOK
  <2>4. QED
    BY <2>2, <2>3
<1>6. QED
  BY <1>2, <1>3, <1>4, <1>5
     DEF Next, Boot, AlreadyCurrent, NoVault, RefuseMigration, MigrationFails, ScanDone, Stop

---------------------------------------------------------------------------
\* The invariant holds of the databases earlier builds left, whose rows are
\* under their own directory, and every step keeps it.
THEOREM Inductive == Spec => []IInv
<1>1. Init => IInv
  <2> SUFFICES ASSUME Init PROVE IInv
    OBVIOUS
  <2>1. PICK home \in Dirs :
          rows \in {r \in [Paths -> {NONE, home}] :
                      \A p \in Paths : p[1] # home => r[p] = NONE}
    BY DEF Init
  <2>2. rows \in [Paths -> Dirs \cup {NONE}] /\ \A p \in Absolute : rows[p] = p[1]
    BY <2>1 DEF Absolute
  <2>3. /\ current = FALSE /\ disk \in [Dirs -> SUBSET Names] /\ vault \in Dirs
        /\ outcome = "none" /\ pc = "down" /\ boots = 0
    BY DEF Init
  <2>4. boots \in 0..MaxBoots
    BY <2>3, MigrationAssumption
  <2>5. TypeOK
    BY <2>2, <2>3, <2>4 DEF TypeOK
  <2>6. QED
    BY <2>3, <2>5 DEF IInv, RelativeOnceCurrent
<1>2. QED
  BY <1>1, StepKeeps, PTL DEF Spec

\* The types, and that a boot serves with the old path version exactly when
\* migrate_paths_to_relative refused.
THEOREM TypeCorrect == Spec => []TypeOK
<1>1. IInv => TypeOK
  BY DEF IInv
<1>2. QED
  BY <1>1, Inductive, PTL

\* Once path_schema_version is set no absolute path is stored, whatever vaults
\* the server was pointed at and wherever it was stopped.
THEOREM VersionIsTruthful == Spec => []RelativeOnceCurrent
<1>1. IInv => RelativeOnceCurrent
  BY DEF IInv
<1>2. QED
  BY <1>1, Inductive, PTL

\* Whatever vaults the server is pointed at, no file that is there loses its
\* row by a migration or the scan after it, unless the migration was refused,
\* and no vault is given the row of another that LIKE can tell from it.
THEOREM MigrationIsSafe == Spec => RowsFollowTheirFiles
<1>1. IInv /\ [Next]_vars => [\A n \in Names : RowOutlives(n) /\ RowIsTheVaults(n)]_vars
  BY NoRowIsLost, NoRowIsClaimed
<1>2. QED
  BY <1>1, Inductive, PTL DEF Spec, RowsFollowTheirFiles

=============================================================================
