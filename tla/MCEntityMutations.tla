------------------------- MODULE MCEntityMutations -------------------------
(***************************************************************************)
(* Two entities of the level and two more that requests and scripts make.  *)
(* Scales: one, half on one axis, and too small on one axis for the        *)
(* Non-uniform Scale component.                                            *)
(***************************************************************************)
EXTENDS EntityMutations

MCScale    == {<<4, 4>>, <<2, 4>>, <<1, 4>>}
MCPosition == {1}
MCTarget   == {2, 3}

\* A rotation of either kind or of both, or a position, a scale or both.
MCRequested == {r \in TransformRequest :
                   \/ r.euler = Absent /\ r.quaternion = Absent
                   \/ r.position = Absent /\ r.scale = Absent}
=============================================================================
