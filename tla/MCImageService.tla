--------------------------- MODULE MCImageService ---------------------------
(* ImageService on small instances.  Calls that may time out are alike, and *)
(* so are keys; nothing is chosen among them.                              *)
EXTENDS ImageService, TLC

Symmetry == Permutations(Droppable) \cup Permutations(Keys)
=============================================================================
