---------------------------- MODULE AtomicIndex ----------------------------
(***************************************************************************)
(* What the store promises its users ("Atomically replace every indexed    *)
(* row for one file", src/store/mod.rs): whoever holds the lock of the     *)
(* store sees, for every path, all the chunks of one version of the file,  *)
(* each with its own vector and, for text, its own terms, or nothing.      *)
(***************************************************************************)
CONSTANTS
    Paths,
    Docs,      \* versions of file contents
    Entries,   \* what a reader ought to see of each of them
    NONE

VARIABLES
    shown,     \* what a reader sees of a path
    recorded   \* the version the files table names

Init ==
    /\ shown = [p \in Paths |-> {}]
    /\ recorded = [p \in Paths |-> NONE]

Replace(p, d) ==
    /\ shown' = [shown EXCEPT ![p] = Entries[d]]
    /\ recorded' = [recorded EXCEPT ![p] = d]

Remove(p) ==
    /\ shown' = [shown EXCEPT ![p] = {}]
    /\ recorded' = [recorded EXCEPT ![p] = NONE]

Wipe ==
    /\ shown' = [p \in Paths |-> {}]
    /\ recorded' = [p \in Paths |-> NONE]

Next ==
    \/ \E p \in Paths : Remove(p) \/ \E d \in Docs : Replace(p, d)
    \/ Wipe

Spec == Init /\ [][Next]_<<shown, recorded>>

=============================================================================
