------------------------------ MODULE MCSignIn ------------------------------
(* Small instances of SignIn. *)
EXTENDS SignIn

CONSTANTS t1, t2, strange

MCTab     == {t1, t2, strange}
MCStrange == {strange}
MCRequest == {{"login_challenge"}, {"return_to"}}
=============================================================================
