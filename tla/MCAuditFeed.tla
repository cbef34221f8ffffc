---------------------------- MODULE MCAuditFeed ----------------------------
(* Small instances of AuditFeed. *)
EXTENDS AuditFeed

CONSTANT person

MCParty == {person}

(* A sign-in, a change by an operator without a subject, a refusal. *)
MCRowKinds == {[status |-> "success", actor |-> person, subject |-> person],
               [status |-> "success", actor |-> person, subject |-> None],
               [status |-> "refused", actor |-> None, subject |-> person]}
=============================================================================
