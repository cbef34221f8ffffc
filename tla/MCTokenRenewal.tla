--------------------------- MODULE MCTokenRenewal ---------------------------
(* Small instances of TokenRenewal.  A unit of the clock is the longest a    *)
(* request is outstanding, fifteen to twenty seconds of the deployed values. *)
EXTENDS TokenRenewal, TLC

CONSTANTS gate, relay, b1, b2, r1, r2

MCGate    == {gate}
MCRelay   == {relay}
MCOne     == {b1}
MCTwo     == {b1, b2}
MCRequest == {r1, r2}
MCSymmetry == Permutations(MCRequest)
=============================================================================
