----------------------------- MODULE MCInspector -----------------------------
(***************************************************************************)
(* The command and the inspector in a group with one other process, and    *)
(* two more to be started by any of them; one once a stop is sent, and two *)
(* stops and departures between them.                                      *)
(***************************************************************************)
EXTENDS Inspector, FiniteSets, TLC

CONSTANTS self, npx, peer, reaper, nobody, c1, c2

MCPool == {c1, c2}
MCStops == {"interrupt", "quit"}
MCPoolSymmetry == Permutations(MCPool)

Scenarios ==
    /\ spent.signals + spent.leaves <= 2
    /\ spent.signals > 0 => Cardinality(born \cap Pool) <= 1
=============================================================================
