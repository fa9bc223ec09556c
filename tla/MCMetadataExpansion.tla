------------------------ MODULE MCMetadataExpansion ------------------------
(* Two locations that may serve anything, references to each other included. *)
EXTENDS MetadataExpansion
=============================================================================
