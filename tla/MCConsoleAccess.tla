--------------------------- MODULE MCConsoleAccess ---------------------------
(* Small instances of ConsoleAccess: a root and two others.                  *)
EXTENDS ConsoleAccess, TLC

CONSTANTS root, alice, bob, o1, o2

MCPeople   == {root, alice, bob}
MCRoots    == {root}
MCOneOp    == {o1}
MCTwoOps   == {o1, o2}
MCPair     == {root, alice}
MCSymmetry == Permutations(MCTwoOps)
=============================================================================
