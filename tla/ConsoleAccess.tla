---------------------------- MODULE ConsoleAccess ----------------------------
(***************************************************************************)
(* Operators of the console changing identities, each server action a      *)
(* sequence of calls that interleaves with the others': the gate, the      *)
(* reads the rule is checked on, the write, the audit row.  The rule is    *)
(* assertAccessChange of staff.ts: who the admins are is a root's to       *)
(* decide.  Kratos is external; a session answers for an identity as it is *)
(* now, and for none that is inactive or gone.                             *)
(*                                                                         *)
(* Sessions are at aal2: how they get there is in SharedBrowser.  What     *)
(* removePlatformProfile does at the platform is not: here it succeeds or  *)
(* throws.                                                                 *)
(***************************************************************************)
EXTENDS Naturals, FiniteSets

CONSTANTS
  Person, Nobody,
  Roots,      \* the people whose addresses ROOT_EMAILS lists
  First,      \* the person the bootstrap job creates
  Op,         \* server actions that run at the same time
  Kind        \* the server actions considered, a subset of Kinds

Kinds == {"create", "delete", "activate", "deactivate", "revoke", "access"}

ASSUME ConsoleAssumption ==
  /\ Nobody \notin Person
  /\ Roots \subseteq Person /\ Roots # {}    \* configuredRoots throws otherwise
  /\ First \in Person
  /\ Kind \subseteq Kinds

VARIABLES
  identity,   \* person -> what Kratos stores of them
  session,    \* people with a session in their browser
  op          \* op -> the server action it runs

vars == <<identity, session, op>>

Identity == [schema : {"default", "staff"},
             role   : {"none", "admin", "superadmin"},
             state  : {"active", "inactive", "gone"}]

Gone == [schema |-> "default", role |-> "none", state |-> "gone"]

Exists(p) == identity[p].state # "gone"

(* Slip: the role as written, recognised or not.                             *)
AuthorityAsWritten(p) ==
  CASE p \in Roots -> "root"
    [] p \notin Roots /\ identity[p].schema # "staff" -> "user"
    [] p \notin Roots /\ identity[p].schema = "staff" ->
         IF identity[p].role = "none" THEN "staff" ELSE identity[p].role

(* Root is configuration and outranks what is stored; an unrecognised role   *)
(* is none.                                                                  *)
AuthorityOf(p) ==
  CASE p \in Roots -> "root"
    [] p \notin Roots /\ identity[p].schema # "staff" -> "user"
    [] p \notin Roots /\ identity[p].schema = "staff" ->
         IF identity[p].role = "admin" THEN "admin" ELSE "staff"

SignedIn(p) == p \in session /\ identity[p].state = "active"

(* The staff guard, and getActor.                                            *)
MayAct(p) == SignedIn(p) /\ AuthorityOf(p) \in {"admin", "root"}

-----------------------------------------------------------------------------
(* The server actions. *)

Idle == [step |-> "idle", by |-> Nobody, kind |-> "access", target |-> Nobody,
         next |-> "user", actor |-> "unread", seen |-> "unread"]

End(o) == op' = [op EXCEPT ![o] = Idle]
Step(o, s) == op' = [op EXCEPT ![o].step = s]

(* A request passes the gate, and its action begins.                         *)
Ask(o, p, k, q, next) ==
  /\ op[o].step = "idle"
  /\ MayAct(p)
  /\ k = "access" \/ next = "user"
  /\ op' = [op EXCEPT ![o] =
       [Idle EXCEPT !.step = IF k \in {"access", "delete", "revoke"} THEN "reading" ELSE "writing",
                    !.by = p, !.kind = k, !.target = q, !.next = next]]
  /\ UNCHANGED <<identity, session>>

(* updateConsoleAccess reads the actor and the target side by side.          *)
ReadActor(o) ==
  /\ op[o].step = "reading" /\ op[o].kind = "access" /\ op[o].actor = "unread"
  /\ op' = [op EXCEPT ![o].actor =
       IF MayAct(op[o].by) THEN AuthorityOf(op[o].by) ELSE "nobody"]
  /\ UNCHANGED <<identity, session>>

(* getIdentity, which throws when there is none.                             *)
ReadTarget(o) ==
  /\ op[o].step = "reading" /\ op[o].seen = "unread"
  /\ IF Exists(op[o].target)
     THEN op' = [op EXCEPT ![o].seen = AuthorityOf(op[o].target)]
     ELSE End(o)
  /\ UNCHANGED <<identity, session>>

(* Slip: only the revocation of an admin is left to the roots.               *)
RefusedBySeen(o) ==
  \/ op[o].actor = "nobody"
  \/ op[o].actor # "root" /\ op[o].seen = "admin"

(* assertAccessChange.                                                       *)
Refused(o) ==
  \/ op[o].actor = "nobody"
  \/ op[o].actor # "root" /\ (op[o].next = "admin" \/ op[o].seen = "admin")

(* Slip: the schema is moved and the role left as it was.                    *)
MovedOnly(next, i) ==
  [i EXCEPT !.schema = IF next = "user" THEN "default" ELSE "staff",
            !.role   = IF next = "admin" THEN "admin" ELSE i.role]

(* The one PATCH of both fields.                                             *)
Moved(next, i) ==
  [i EXCEPT !.schema = IF next = "user" THEN "default" ELSE "staff",
            !.role   = IF next = "admin" THEN "admin" ELSE "none"]

(* updateConsoleAccess once both are read: the rule, then the write.         *)
ChangeAccess(o) ==
  /\ op[o].step = "reading" /\ op[o].kind = "access"
  /\ op[o].actor # "unread" /\ op[o].seen # "unread"
  /\ IF ~Refused(o) /\ Exists(op[o].target)
     THEN /\ identity' = [identity EXCEPT ![op[o].target] = Moved(op[o].next, @)]
          /\ Step(o, "recording")
     ELSE End(o) /\ UNCHANGED identity
  /\ UNCHANGED session

(* deleteIdentity once the target is read: the platform's profile goes       *)
(* first, and if that throws nothing else happens.                           *)
RemoveProfile(o) ==
  /\ op[o].step = "reading" /\ op[o].kind = "delete" /\ op[o].seen # "unread"
  /\ Step(o, "writing") \/ End(o)
  /\ UNCHANGED <<identity, session>>

(* What it leaves of an identity.                                            *)
Result(k, i) ==
  CASE k = "create"     -> [Gone EXCEPT !.state = "active"]
    [] k = "delete"     -> Gone
    [] k = "activate"   -> [i EXCEPT !.state = "active"]
    [] k = "deactivate" -> [i EXCEPT !.state = "inactive"]
    [] k \in {"revoke", "access"} -> i

(* The single write of the others.  Kratos refuses to create an address it   *)
(* has, and to touch an identity it has not.                                 *)
Write(o) ==
  LET k == op[o].kind
      q == op[o].target
  IN /\ \/ op[o].step = "writing"
        \/ op[o].step = "reading" /\ k = "revoke" /\ op[o].seen # "unread"
     /\ IF Exists(q) <=> k = "create"
        THEN End(o) /\ UNCHANGED <<identity, session>>
        ELSE /\ Step(o, "recording")
             /\ identity' = [identity EXCEPT ![q] = Result(k, @)]
             /\ session' = IF k \in {"delete", "revoke"} THEN session \ {q} ELSE session

(* recordConsoleEvent: a row that cannot be written is let go.               *)
Record(o) ==
  /\ op[o].step = "recording"
  /\ End(o)
  /\ UNCHANGED <<identity, session>>

-----------------------------------------------------------------------------
(* Around the console. *)

SignIn(p) ==
  /\ identity[p].state = "active"
  /\ session' = session \cup {p}
  /\ UNCHANGED <<identity, op>>

SessionEnds(p) ==
  /\ session' = session \ {p}
  /\ UNCHANGED <<identity, op>>

(* Somebody signs themselves up.                                             *)
Register(p) ==
  /\ ~Exists(p)
  /\ identity' = [identity EXCEPT ![p] = [Gone EXCEPT !.state = "active"]]
  /\ UNCHANGED <<session, op>>

(* bootstrap-staff.sh: creates the first operator, or migrates the identity  *)
(* it was named; one already on the staff schema is left alone.              *)
Bootstrap ==
  /\ Exists(First) => identity[First].schema # "staff"
  /\ identity' = [identity EXCEPT ![First] =
       [schema |-> "staff", role |-> "superadmin",
        state |-> IF Exists(First) THEN @.state ELSE "active"]]
  /\ UNCHANGED <<session, op>>

Init ==
  /\ identity = [p \in Person |-> Gone]
  /\ session = {}
  /\ op = [o \in Op |-> Idle]

Runs(o) ==
  \/ ReadActor(o) \/ ReadTarget(o) \/ ChangeAccess(o)
  \/ RemoveProfile(o) \/ Write(o) \/ Record(o)

Next ==
  \/ \E o \in Op, p, q \in Person, k \in Kind, next \in {"user", "staff", "admin"} :
       Ask(o, p, k, q, next)
  \/ \E o \in Op : Runs(o)
  \/ \E p \in Person : SignIn(p) \/ SessionEnds(p) \/ Register(p)
  \/ Bootstrap

Spec == Init /\ [][Next]_vars

-----------------------------------------------------------------------------
(* Properties. *)

OpRecord ==
  [step : {"idle", "reading", "writing", "recording"},
   by : Person \cup {Nobody}, kind : Kinds,
   target : Person \cup {Nobody}, next : {"user", "staff", "admin"},
   actor : {"unread", "nobody", "admin", "root"},
   seen : {"unread", "user", "staff", "admin", "root"}]

(* Every variable holds a value of its kind.                                 *)
TypeOK ==
  /\ identity \in [Person -> Identity]
  /\ session \subseteq Person
  /\ op \in [Op -> OpRecord]

Appointed(p) == identity[p].schema = "staff" /\ identity[p].role = "admin"

ByRoot(p) == \E o \in Op : /\ op'[o] # op[o]
                           /\ op[o].by \in Roots /\ op[o].target = p

(* Nobody becomes an admin but by a root's hand, however the server actions  *)
(* of admins and roots interleave.                                           *)
AppointedByRoots ==
  [][\A p \in Person : ~Appointed(p) /\ Appointed(p)' => ByRoot(p)]_vars

(* An identity never carries a role while off the staff schema.              *)
NoRoleOffStaff ==
  \A p \in Person : identity[p].role # "none" => identity[p].schema = "staff"
=============================================================================
