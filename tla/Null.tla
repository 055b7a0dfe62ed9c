-------------------------------- MODULE Null ---------------------------------
(* The value that is none: an Option's None, a column's NULL, a free slot.  *)
CONSTANT NULL
=============================================================================
