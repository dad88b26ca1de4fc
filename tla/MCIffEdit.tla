----------------------------- MODULE MCIffEdit -----------------------------
(***************************************************************************)
(* Small instances of IffEdit for TLC: a root with a container and a leaf, *)
(* the container with one leaf.                                            *)
(***************************************************************************)
EXTENDS IffEdit

MCChildren == << <<2, 4>>, <<3>>, <<>>, <<>> >>
MCContainers == {1, 2}
=============================================================================
