----------------------------- MODULE MetadataMC -----------------------------
(***************************************************************************)
(* A client with a timeout of its own and one without, for TLC.            *)
(***************************************************************************)
EXTENDS Metadata

MCDefaults == {<<>>, <<50>>}
=============================================================================
