--------------------------- MODULE MCGroupCommit ---------------------------
(***************************************************************************)
(* GroupCommit with a few threads and batches smaller than the backlog.    *)
(***************************************************************************)
EXTENDS GroupCommit, TLC

Symmetry == Permutations(Thread)
=============================================================================
