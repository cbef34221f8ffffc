-------------------------- MODULE MCSharedBrowser ---------------------------
(* Small instances of SharedBrowser: two people, one or two tabs.            *)
EXTENDS SharedBrowser, TLC

CONSTANTS alice, bob, t1, t2

MCPeople   == {alice, bob}
MCOneTab   == {t1}
MCTwoTabs  == {t1, t2}
MCSymmetry == Permutations(MCPeople)
MCSymmetries == Permutations(MCPeople) \cup Permutations(MCTwoTabs)
=============================================================================
