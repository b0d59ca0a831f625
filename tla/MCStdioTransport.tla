------------------------- MODULE MCStdioTransport -------------------------
(***************************************************************************)
(* StdioTransport for TLC: a frame that fits beside another, one that      *)
(* fills the bound, and one beyond it.                                     *)
(***************************************************************************)
EXTENDS StdioTransport

FrameSizes == {1, 2, 3}

=============================================================================
