---------------------------- MODULE MCUndoBatch ----------------------------
(* UndoBatch on a small level: three entity ids, two nested batches, a     *)
(* limit of two entities per call, short undo histories.                   *)
EXTENDS UndoBatch, TLC

Symmetry == Permutations(Entity)
=============================================================================
