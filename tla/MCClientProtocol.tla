-------------------------- MODULE MCClientProtocol --------------------------
(***************************************************************************)
(* ClientProtocol for TLC: callers, credentials and readers are            *)
(* interchangeable, which is sound for the safety runs that use Symmetry.  *)
(***************************************************************************)
EXTENDS ClientProtocol, TLC

Symmetry == Permutations(Callers) \cup Permutations(Credentials)

=============================================================================
