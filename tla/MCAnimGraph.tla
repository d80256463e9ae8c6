---------------------------- MODULE MCAnimGraph ----------------------------
(* AnimGraphAuthoring on graphs of a few nodes.                            *)
EXTENDS AnimGraphAuthoring, TLC

Symmetry == Permutations(Name)

\* The last answer decides nothing that comes.
View == <<graph, past>>
=============================================================================
