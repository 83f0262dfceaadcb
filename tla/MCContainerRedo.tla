--------------------------- MODULE MCContainerRedo ---------------------------
(* A small instance of ContainerRedo. *)
EXTENDS ContainerRedo, TLC

MCValues == {<<"int", 1>>}
MCIndices == {-3, -1, 0, 1, 2}

Sym == Permutations(Keys)
=============================================================================
