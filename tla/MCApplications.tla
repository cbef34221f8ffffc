--------------------------- MODULE MCApplications ---------------------------
(* Small instances of Applications. *)
EXTENDS Applications, TLC

CONSTANTS t1, t2, seeded, fresh, v1, v2

MCTab      == {t1, t2}
MCClient   == {seeded, fresh}
MCSeeded   == {seeded}
MCValue    == {v1, v2}
MCSymmetry == Permutations(MCTab) \cup Permutations(MCValue)
=============================================================================
