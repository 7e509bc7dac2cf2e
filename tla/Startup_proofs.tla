--------------------------- MODULE Startup_proofs ---------------------------
(***************************************************************************)
(* Proofs about module Startup, for any providers, models and dims, any    *)
(* number of boots and every database an earlier build can have left.      *)
(***************************************************************************)
EXTENDS Startup, TLAPS

---------------------------------------------------------------------------
(* The inductive invariant.  Beside the types it says what each stage of   *)
(* the boot has established: a server that gets as far as `adopt` has      *)
(* recorded its own dim, one that gets as far as `wipe` was asked to.      *)

\* What is recorded of the dim is true of the vector table.
DimRecorded ==
    /\ meta.dim = NONE => meta.provider = NONE
    /\ meta.dim = NONE => version \in {NONE, "2", "3"}
    /\ vecdim = NONE => meta.dim = NONE
    /\ meta.dim # NONE => torn \/ vecdim = meta.dim
    /\ meta.dim = NONE /\ vecdim # NONE =>
         torn \/ (pc \in {"migrate", "reconcile"} /\ vecdim = cfg.dim)

\* What the steps of a boot hand on to the next one.
Stage ==
    /\ pc \in {"migrate", "reconcile", "sweep", "check", "adopt", "wipe", "serving"} =>
         vecdim # NONE
    /\ pc \in {"reconcile", "sweep", "check", "adopt", "wipe", "serving"} =>
         version = "3"
    /\ pc \in {"schema", "migrate", "check"} /\ skip => Outcome(meta, cfg) = "mismatch"
    /\ pc \in {"reconcile", "sweep", "adopt"} => ~skip
    /\ pc \in {"sweep", "check", "adopt"} /\ ~skip => meta.dim = cfg.dim
    /\ pc = "wipe" => reembed /\ meta # cfg

IInv == TypeOK /\ DimRecorded /\ Stage /\ FingerprintTellsSpace

\* A set of settings is a complete fingerprint.
LEMMA ConfigComplete == \A c \in Config : Complete(c)
BY StartupAssumption DEF Config, Complete

\* NONE is no schema version, no dim and no space.
LEMMA NoneIsNothing ==
    NONE \notin Config /\ NONE \notin Dims /\ NONE \notin Versions
BY StartupAssumption

---------------------------------------------------------------------------
(* Types.                                                                  *)

\* Every database a first boot can find is well typed.
LEMMA TypeInit == Init => TypeOK
<1> SUFFICES ASSUME Init PROVE TypeOK
  OBVIOUS
<1>1. boots \in 0..MaxBoots
  BY StartupAssumption DEF Init
<1>2. CASE NoFile
  BY <1>1, <1>2 DEF Init, NoFile, NoMeta, TypeOK
<1>3. CASE EarlierBuild
  <2>1. PICK c \in Config :
          /\ \/ meta = c
             \/ meta = [c EXCEPT !.model = NONE]
             \/ meta = [NoMeta EXCEPT !.dim = c.dim]
          /\ version \in Versions
          /\ vecdim = c.dim
          /\ rows \in [Paths -> {NONE, c}]
          /\ cache \in [Contents -> {NONE, c}]
    BY <1>3 DEF EarlierBuild
  <2>2. meta \in [provider : Providers \cup {NONE}, model : Models \cup {NONE},
                  dim : Dims \cup {NONE}]
    BY <2>1 DEF Config, NoMeta
  <2>3. rows \in [Paths -> Config \cup {NONE}] /\ cache \in [Contents -> Config \cup {NONE}]
    BY <2>1
  <2>4. vecdim \in Dims
    BY <2>1 DEF Config
  <2>5. QED
    BY <1>1, <2>1, <2>2, <2>3, <2>4 DEF Init, TypeOK
<1>4. QED
  BY <1>2, <1>3 DEF Init

\* A step of the boot, of indexing or the end of the process keeps the types.
LEMMA TypeNext == TypeOK /\ Stage /\ [Next]_vars => TypeOK'
<1> SUFFICES ASSUME TypeOK, Stage, [Next]_vars PROVE TypeOK'
  OBVIOUS
<1> USE StartupAssumption DEF TypeOK, Stage, dbVars, bootVars, history, Config
<1>1. ASSUME NEW c \in Config, NEW r \in BOOLEAN, Boot(c, r) PROVE TypeOK'
  BY <1>1 DEF Boot
<1>2. CASE Peek
  BY <1>2 DEF Peek
<1>3. CASE ApplySchema
  BY <1>3 DEF ApplySchema
<1>4. CASE MigrateSchema
  BY <1>4 DEF MigrateSchema, Refuse, Versions
<1>5. CASE Reconcile
  BY <1>5 DEF Reconcile, Refuse
<1>6. CASE Sweep
  BY <1>6 DEF Sweep
<1>7. CASE Check
  <2>1. Outcome(meta, cfg) = "match" => meta = cfg
    BY DEF Outcome
  <2>2. QED
    BY <1>7, <2>1 DEF Check, Refuse, Outcome
<1>8. CASE Adopt
  <2>1. OneSpace(cfg) \in BOOLEAN
    BY DEF OneSpace
  <2>2. QED
    BY <1>8, <2>1 DEF Adopt
<1>9. CASE Wipe
  BY <1>9 DEF Wipe
<1>10. CASE Die
  BY <1>10 DEF Die
<1>11. ASSUME NEW p \in Paths, NEW c \in Contents, IndexFile(p, c) PROVE TypeOK'
  BY <1>11 DEF IndexFile
<1>12. ASSUME NEW p \in Paths, RemoveFile(p) PROVE TypeOK'
  BY <1>12 DEF RemoveFile
<1>13. CASE UNCHANGED vars
  BY <1>13 DEF vars
<1>14. QED
  BY <1>1, <1>2, <1>3, <1>4, <1>5, <1>6, <1>7, <1>8, <1>9, <1>10, <1>11,
     <1>12, <1>13 DEF Next

---------------------------------------------------------------------------
(* The stages of a boot and the dim of the vector table.                   *)

\* Every step leaves the next stage what it relies on.
LEMMA StageNext ==
    TypeOK /\ DimRecorded /\ Stage /\ [Next]_vars => Stage' /\ DimRecorded'
<1> SUFFICES ASSUME TypeOK, DimRecorded, Stage, [Next]_vars
             PROVE  Stage' /\ DimRecorded'
  OBVIOUS
<1>c. cfg \in Config /\ cfg.dim \in Dims /\ cfg.dim # NONE /\ cfg.provider # NONE
  BY StartupAssumption DEF TypeOK, Config
<1> USE DEF TypeOK, Stage, DimRecorded, dbVars, bootVars, history
<1>1. ASSUME NEW c \in Config, NEW r \in BOOLEAN, Boot(c, r)
      PROVE  Stage' /\ DimRecorded'
  BY <1>1 DEF Boot
<1>2. CASE Peek
  BY <1>2 DEF Peek
<1>3. CASE ApplySchema
  BY <1>3, <1>c, NoneIsNothing DEF ApplySchema
<1>4. CASE MigrateSchema
  <2>1. meta' = meta /\ vecdim' = vecdim /\ cfg' = cfg /\ torn' = torn
        /\ skip' = skip /\ reembed' = reembed
    BY <1>4 DEF MigrateSchema
  <2>2. \/ pc' = "check" /\ skip /\ version' = "3"
        \/ pc' = "reconcile" /\ ~skip /\ version' = "3"
        \/ pc' = "down" /\ version \notin {NONE, "2", "3"}
    BY <1>4 DEF MigrateSchema, Refuse
  <2>3. pc = "migrate"
    BY <1>4 DEF MigrateSchema
  <2>4. Outcome(meta, cfg)' = Outcome(meta, cfg)
    BY <2>1 DEF Outcome, Complete
  <2>6. skip => meta.dim # NONE
    BY <2>3 DEF Outcome, Complete
  <2>7. Stage'
    BY <2>1, <2>2, <2>3, <2>4
  <2>8. DimRecorded'
    BY <2>1, <2>2, <2>3, <2>6 DEF Versions
  <2>9. QED
    BY <2>7, <2>8
<1>5. CASE Reconcile
  BY <1>5, <1>c, NoneIsNothing DEF Reconcile, Refuse
<1>6. CASE Sweep
  BY <1>6 DEF Sweep
<1>7. CASE Check
  <2>1. Outcome(meta, cfg) = "mismatch" => meta # cfg
    BY DEF Outcome
  <2>2. QED
    BY <1>7, <2>1 DEF Check, Refuse, Outcome
<1>8. CASE Adopt
  BY <1>8, <1>c DEF Adopt
<1>9. CASE Wipe
  BY <1>9, <1>c DEF Wipe
<1>10. CASE Die
  BY <1>10 DEF Die
<1>11. ASSUME NEW p \in Paths, NEW c \in Contents, IndexFile(p, c)
       PROVE  Stage' /\ DimRecorded'
  BY <1>11 DEF IndexFile
<1>12. ASSUME NEW p \in Paths, RemoveFile(p) PROVE Stage' /\ DimRecorded'
  BY <1>12 DEF RemoveFile
<1>13. CASE UNCHANGED vars
  BY <1>13 DEF vars
<1>14. QED
  BY <1>1, <1>2, <1>3, <1>4, <1>5, <1>6, <1>7, <1>8, <1>9, <1>10, <1>11,
     <1>12, <1>13 DEF Next

---------------------------------------------------------------------------
(* Vector spaces.                                                          *)

\* A step that leaves the vectors, the fingerprint and the history alone
\* leaves the fingerprint telling.
LEMMA SpaceUnchanged ==
    ASSUME FingerprintTellsSpace, UNCHANGED <<meta, rows, cache, foreign>>
    PROVE  FingerprintTellsSpace'
BY DEF FingerprintTellsSpace, OneSpace, Complete

\* No step leaves the fingerprint telling the wrong space.
LEMMA SpaceNext == IInv /\ [Next]_vars => FingerprintTellsSpace'
<1> SUFFICES ASSUME IInv, [Next]_vars PROVE FingerprintTellsSpace'
  OBVIOUS
<1> USE DEF IInv
<1>1. CASE UNCHANGED <<meta, rows, cache, foreign>>
  BY <1>1, SpaceUnchanged
<1>2. CASE Reconcile
  <2>1. meta.dim = NONE => ~Complete(meta')
    BY <1>2 DEF Reconcile, TypeOK, DimRecorded, Complete
  <2>2. meta.dim # NONE => meta' = meta
    BY <1>2 DEF Reconcile, TypeOK
  <2>3. CASE meta.dim = NONE
    BY <2>1, <2>3 DEF FingerprintTellsSpace
  <2>4. CASE meta.dim # NONE
    BY <1>2, <2>2, <2>4, SpaceUnchanged DEF Reconcile, history
  <2>5. QED
    BY <2>3, <2>4
<1>3. CASE Sweep
  BY <1>3 DEF Sweep, FingerprintTellsSpace, OneSpace, Complete, history
<1>4. CASE Adopt
  BY <1>4 DEF Adopt, FingerprintTellsSpace, OneSpace
<1>5. CASE Wipe
  BY <1>5 DEF Wipe, FingerprintTellsSpace, OneSpace
<1>6. ASSUME NEW p \in Paths, NEW c \in Contents, IndexFile(p, c)
      PROVE  FingerprintTellsSpace'
  <2>1. meta = cfg /\ meta' = meta /\ foreign' = foreign
    BY <1>6 DEF IndexFile, TypeOK, history
  <2> SUFFICES ASSUME ~foreign PROVE OneSpace(meta)'
    BY <2>1 DEF FingerprintTellsSpace
  <2>2. OneSpace(cfg)
    BY <2>1, ConfigComplete DEF FingerprintTellsSpace, TypeOK
  <2>3. (IF cache[c] # NONE THEN cache[c] ELSE cfg) = cfg
    BY <2>2 DEF OneSpace
  <2>4. rows' = [rows EXCEPT ![p] = cfg] /\ cache' = [cache EXCEPT ![c] = cfg]
    BY <1>6, <2>3 DEF IndexFile
  <2>5. QED
    BY <2>1, <2>2, <2>4 DEF OneSpace, TypeOK
<1>7. ASSUME NEW p \in Paths, RemoveFile(p) PROVE FingerprintTellsSpace'
  BY <1>7 DEF RemoveFile, FingerprintTellsSpace, OneSpace, TypeOK, history
<1>8. QED
  <2>1. CASE UNCHANGED vars
    BY <2>1, <1>1 DEF vars
  <2>2. CASE \E c \in Config, r \in BOOLEAN : Boot(c, r)
    BY <2>2, <1>1 DEF Boot, dbVars, history
  <2>3. CASE Peek \/ ApplySchema \/ MigrateSchema \/ Check \/ Die
    BY <2>3, <1>1
    DEF Peek, ApplySchema, MigrateSchema, Check, Die, dbVars, history
  <2>4. QED
    BY <2>1, <2>2, <2>3, <1>2, <1>3, <1>4, <1>5, <1>6, <1>7 DEF Next

---------------------------------------------------------------------------
\* Whatever an earlier build left satisfies the invariant.
LEMMA InvInit == Init => IInv
<1> SUFFICES ASSUME Init PROVE IInv
  OBVIOUS
<1>1. TypeOK
  BY TypeInit
<1>2. CASE NoFile
  BY <1>1, <1>2
  DEF Init, NoFile, NoMeta, IInv, DimRecorded, Stage, FingerprintTellsSpace,
      Complete
<1>3. CASE EarlierBuild
  <2>1. PICK c \in Config :
          /\ \/ meta = c
             \/ meta = [c EXCEPT !.model = NONE]
             \/ meta = [NoMeta EXCEPT !.dim = c.dim]
          /\ vecdim = c.dim
          /\ rows \in [Paths -> {NONE, c}]
          /\ cache \in [Contents -> {NONE, c}]
    BY <1>3 DEF EarlierBuild
  <2>2. c.dim # NONE /\ vecdim = c.dim /\ meta.dim = c.dim
    BY <2>1, StartupAssumption DEF Config, NoMeta
  <2>3. DimRecorded
    BY <2>2 DEF DimRecorded
  <2>4. Stage
    BY DEF Stage, Init
  <2>5. Complete(meta) => meta = c
    BY <2>1 DEF Complete, Config, NoMeta
  <2>6. OneSpace(c)
    BY <2>1 DEF OneSpace
  <2>7. QED
    BY <1>1, <2>3, <2>4, <2>5, <2>6 DEF IInv, FingerprintTellsSpace
<1>4. QED
  BY <1>2, <1>3 DEF Init

\* Every step preserves the invariant.
LEMMA InvNext == IInv /\ [Next]_vars => IInv'
BY TypeNext, StageNext, SpaceNext DEF IInv

\* The inductive invariant holds throughout.
LEMMA Invariance == Spec => []IInv
BY InvInit, InvNext, PTL DEF Spec

\* The types, and that a server that serves has its own complete fingerprint.
THEOREM TypeCorrect == Spec => []TypeOK
<1>1. IInv => TypeOK
  BY DEF IInv
<1>2. QED
  BY <1>1, Invariance, PTL

\* A complete fingerprint tells the space of every stored vector, through
\* every sequence of boots, crashes and rebuilds.
THEOREM FingerprintIsTruthful == Spec => []FingerprintTellsSpace
<1>1. IInv => FingerprintTellsSpace
  BY DEF IInv
<1>2. QED
  BY <1>1, Invariance, PTL

\* A serving index holds the vectors of one space, that of its settings.
THEOREM SpacesNeverMix == Spec => []ServesOneSpace
<1>1. IInv => ServesOneSpace
  BY ConfigComplete DEF IInv, ServesOneSpace, FingerprintTellsSpace, TypeOK
<1>2. QED
  BY <1>1, Invariance, PTL

\* A serving vector table has the dim of the embedder, but for the crash
\* that left a table whose dim nobody recorded.
THEOREM DimsAgree == Spec => []ServedAtOneDim
<1>1. IInv => ServedAtOneDim
  BY NoneIsNothing DEF IInv, ServedAtOneDim, DimRecorded, TypeOK, Config
<1>2. QED
  BY <1>1, Invariance, PTL

\* Outside serving, rows go only in a rebuild the operator asked for.
THEOREM NoUnrequestedWipe == Spec => WipeOnlyOnRequest
<1>1. IInv /\ [Next]_vars =>
        [\A p \in Paths :
           pc # "serving" /\ rows'[p] # rows[p] => reembed /\ meta # cfg]_vars
  <2> SUFFICES ASSUME IInv, Next, NEW p \in Paths, pc # "serving", rows'[p] # rows[p]
               PROVE  reembed /\ meta # cfg
    OBVIOUS
  <2>1. Wipe
    BY DEF Next, Boot, Peek, ApplySchema, MigrateSchema, Reconcile, Sweep,
           Check, Adopt, Die, IndexFile, RemoveFile, dbVars
  <2>2. QED
    BY <2>1 DEF IInv, Stage, Wipe
<1>2. QED
  BY <1>1, Invariance, PTL DEF Spec, WipeOnlyOnRequest

=============================================================================
