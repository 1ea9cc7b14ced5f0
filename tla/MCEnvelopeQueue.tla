--------------------------- MODULE MCEnvelopeQueue ---------------------------
(***************************************************************************)
(* Instances of EnvelopeQueue for TLC.                                     *)
(***************************************************************************)
EXTENDS EnvelopeQueue, TLC

TaskSymmetry == Permutations(Client) \cup Permutations(Worker)
=============================================================================
