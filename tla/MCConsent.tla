----------------------------- MODULE MCConsent -----------------------------
(* Small instances of Consent. *)
EXTENDS Consent, TLC

CONSTANTS ann, bob, ours, theirs, plain, admin, h1, h2, k1, k2

MCPerson     == {ann, bob}
MCClient     == {ours, theirs}
MCFirstParty == {ours}
MCRole       == {plain, admin}
MCChallenge  == {h1}
MCHandler    == {k1, k2}
MCSymmetry   == Permutations(MCPerson) \cup Permutations(MCHandler)
=============================================================================
