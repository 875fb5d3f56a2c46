----------------------------- MODULE MCRawWrite -----------------------------
(***************************************************************************)
(* RawWrite with an image of three blocks that ends inside a sector, on a  *)
(* drive with one sector past the image.  The tail where a table can sit   *)
(* is that sector and the last one of the image.  The process stops, so    *)
(* the model does: every behaviour ends where nothing is enabled.          *)
(***************************************************************************)
EXTENDS RawWrite
=============================================================================
