-------------------------------- MODULE MCPmi --------------------------------
(***************************************************************************)
(* Two workers, each of which is a group of its own.                       *)
(***************************************************************************)
EXTENDS Pmi

Singles == {{1}, {2}}

=============================================================================
