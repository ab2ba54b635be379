----------------------------- MODULE MCTaskStore -----------------------------
(***************************************************************************)
(* Small instances of TaskStore: which version each process runs, and the  *)
(* symmetry of processes that run the same one.                            *)
(***************************************************************************)
EXTENDS TaskStore, TLC

CONSTANT v1

\* Every host runs the same code/Skill version; older Tasks may name another.
MCVersionOf == [p \in Process |-> v1]

\* Sound for invariants and action properties: no definition names a process.
ProcessSymmetry == Permutations(Process)
=============================================================================
