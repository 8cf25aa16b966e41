--------------------------- MODULE MCDescriptors ----------------------------
(* A small instance of Descriptors for TLC, with the sets of MCService.    *)
EXTENDS Descriptors, MCService
=============================================================================
