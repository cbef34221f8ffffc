-------------------------- MODULE MCAccountClosing --------------------------
(* AccountClosing with two people in one browser and two requests at a time. *)
EXTENDS AccountClosing, TLC

CONSTANTS alice, bob, h1, h2

MCPerson == {alice, bob}
MCHandler == {h1, h2}

Interchangeable == Permutations(MCPerson) \cup Permutations(MCHandler)
=============================================================================
