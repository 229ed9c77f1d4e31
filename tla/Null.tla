-------------------------------- MODULE Null --------------------------------
(***************************************************************************)
(* The null of the Web viewer, which its parts share: a sample that did    *)
(* not come, a span that is not open, a value not known, no snapshot.      *)
(***************************************************************************)
CONSTANT NONE
=============================================================================
