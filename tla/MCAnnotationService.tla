------------------------- MODULE MCAnnotationService -------------------------
(* An instance of AnnotationService for TLC: two points that share a tile, and a range. *)
EXTENDS AnnotationService, TLC
CONSTANTS c1, c2, u1, u2, here, there, wide, top, left, right, one, two, g

MCCover == [p \in Places |->
  CASE p = here -> {<<top, one>>, <<left, one>>}
    [] p = there -> {<<top, two>>, <<right, one>>}
    [] p = wide -> {<<top, one>>, <<left, two>>, <<right, two>>}]
MCAlike == Permutations({c1, c2}) \cup Permutations({u1, u2})
=============================================================================
