--------------------------- MODULE MCDifAssembly ---------------------------
(***************************************************************************)
(* Instances of DifAssembly for TLC.                                       *)
(***************************************************************************)
EXTENDS DifAssembly, TLC

\* Every key's request names every chunk.
AllChunks == [k \in Key |-> Chunk]

TaskSymmetry == Permutations(Client) \cup Permutations(Worker) \cup Permutations(Job)
=============================================================================
