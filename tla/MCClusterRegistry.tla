------------------------- MODULE MCClusterRegistry -------------------------
(***************************************************************************)
(* Three hosts that may install no function, the functions f and g, or f   *)
(* and g with another schema.                                              *)
(***************************************************************************)
EXTENDS ClusterRegistry

CONSTANTS f, g, g2

MCManifests == {<< >>, <<f, g>>, <<f, g2>>}

=============================================================================
