----------------------------- MODULE MCTenancy -----------------------------
(* Small instances of Tenancy. *)
EXTENDS Tenancy

CONSTANTS ann, bob, cat, op, v1, v2

MCVisitor  == {ann}
MCOperator == {op}
MCPerson   == {ann, bob, cat}
MCAbove    == {cat}
MCStart    == [p \in MCPerson |->
                 CASE p = ann -> "owner" [] p = bob -> "none" [] p = cat -> "manager"]
MCValue    == {v1, v2}
=============================================================================
