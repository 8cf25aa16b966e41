------------------------------- MODULE MCDemo --------------------------------
(* An instance of Demo for TLC, with the sets of MCService.                *)
EXTENDS Demo, MCService
=============================================================================
