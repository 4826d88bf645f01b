------------------------------- MODULE MCCache -------------------------------
(***************************************************************************)
(* The small instances of Node with the template cache beside it.          *)
(***************************************************************************)
EXTENDS MCNode, TemplateCache
=============================================================================
