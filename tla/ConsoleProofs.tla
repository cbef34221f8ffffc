---------------------------- MODULE ConsoleProofs ----------------------------
(***************************************************************************)
(* What two parts of the console promise for every value of their          *)
(* constants.  They share no variable.                                     *)
(*                                                                         *)
(* ConsoleAccess, for any people, roots and server actions running at the  *)
(* same time.  The rule is checked on what an action read, and that may be *)
(* old when it writes: what saves the appointment of admins is that it     *)
(* asks only for the actor to be a root, which no write can change.        *)
(* ActorsAreWhoTheySeem is that fact.                                      *)
(*                                                                         *)
(* AuditFeed, for any rows and any sizes of a page and of a card.  Rows    *)
(* are shown by their place in an order, so the proofs count places: a row *)
(* not yet seen keeps its place or moves back as the log grows, and of two *)
(* lists cut off at the same length the first of both together are among   *)
(* the first of each.                                                      *)
(***************************************************************************)
EXTENDS ConsoleAccess, AuditFeed, FiniteSetTheorems, TLAPS

(* An action that read a root as its actor was asked for by one, and one     *)
(* under way was asked for by somebody, about somebody.                      *)
ActorsAreWhoTheySeem ==
  \A o \in Op : /\ op[o].actor = "root" => op[o].by \in Roots
                /\ op[o].step # "idle" => op[o].by \in Person /\ op[o].target \in Person

IInv == TypeOK /\ NoRoleOffStaff /\ ActorsAreWhoTheySeem

-----------------------------------------------------------------------------
(* The authority of anybody is one of four, and root is configuration.       *)
LEMMA AuthorityKind ==
  ASSUME NEW p \in Person
  PROVE  /\ AuthorityOf(p) \in {"user", "staff", "admin", "root"}
         /\ AuthorityOf(p) = "root" => p \in Roots
<1>1. CASE p \in Roots
  BY <1>1 DEF AuthorityOf
<1>2. CASE p \notin Roots /\ identity[p].schema # "staff"
  BY <1>2 DEF AuthorityOf
<1>3. CASE p \notin Roots /\ identity[p].schema = "staff"
  BY <1>3 DEF AuthorityOf
<1> QED
  BY <1>1, <1>2, <1>3

(* The write of both fields leaves a role on the staff schema only.          *)
LEMMA MovedKind ==
  ASSUME NEW i \in Identity, NEW next \in {"user", "staff", "admin"}
  PROVE  /\ Moved(next, i) \in Identity
         /\ Moved(next, i).role # "none" => Moved(next, i).schema = "staff"
         /\ Moved(next, i).role = "admin" => next = "admin"
         /\ Moved(next, i).role \in {"none", "admin"}
  BY DEF Moved, Identity

(* The other writes give nobody a role and take none.                        *)
LEMMA ResultKind ==
  ASSUME NEW i \in Identity, NEW k \in Kinds
  PROVE  /\ Result(k, i) \in Identity
         /\ \/ Result(k, i).role = i.role /\ Result(k, i).schema = i.schema
            \/ Result(k, i).role = "none"
<1>1. CASE k = "create"
  BY <1>1 DEF Result, Gone, Identity
<1>2. CASE k = "delete"
  BY <1>2 DEF Result, Gone, Identity
<1>3. CASE k = "activate"
  BY <1>3 DEF Result, Identity
<1>4. CASE k = "deactivate"
  BY <1>4 DEF Result, Identity
<1>5. CASE k \in {"revoke", "access"}
  BY <1>5 DEF Result, Identity
<1> QED
  BY <1>1, <1>2, <1>3, <1>4, <1>5 DEF Kinds

LEMMA Initially == Init => IInv
<1> SUFFICES ASSUME Init PROVE IInv
  OBVIOUS
<1>1. Idle \in OpRecord /\ Gone \in Identity
  BY DEF Idle, OpRecord, Kinds, Gone, Identity
<1>2. TypeOK
  BY <1>1 DEF Init, TypeOK
<1>3. NoRoleOffStaff
  BY DEF Init, NoRoleOffStaff, Gone
<1>4. ActorsAreWhoTheySeem
  BY DEF Init, ActorsAreWhoTheySeem, Idle
<1> QED
  BY <1>2, <1>3, <1>4 DEF IInv

(* Every step keeps the types.                                               *)
LEMMA TypeStep == IInv /\ [Next]_vars => TypeOK'
<1> SUFFICES ASSUME IInv, [Next]_vars PROVE TypeOK'
  OBVIOUS
<1> USE ConsoleAssumption
<1>t. TypeOK /\ ActorsAreWhoTheySeem
  BY DEF IInv
<1>i. Idle \in OpRecord
  BY DEF Idle, OpRecord, Kinds
<1>g. Gone \in Identity /\ [Gone EXCEPT !.state = "active"] \in Identity
  BY DEF Gone, Identity
<1>1. ASSUME NEW o \in Op, NEW p \in Person, NEW q \in Person, NEW k \in Kind,
             NEW next \in {"user", "staff", "admin"}, Ask(o, p, k, q, next)
      PROVE TypeOK'
  <2>1. [Idle EXCEPT !.step = IF k \in {"access", "delete", "revoke"} THEN "reading" ELSE "writing",
                     !.by = p, !.kind = k, !.target = q, !.next = next] \in OpRecord
    BY DEF Idle, OpRecord
  <2> QED
    BY <1>1, <1>t, <2>1 DEF Ask, TypeOK
<1>2. ASSUME NEW o \in Op, ReadActor(o)
      PROVE TypeOK'
  <2>1. op[o].by \in Person
    BY <1>2, <1>t DEF ReadActor, ActorsAreWhoTheySeem
  <2>2. op' = [op EXCEPT ![o].actor = op'[o].actor]
        /\ op'[o].actor \in {"nobody", "admin", "root"}
    BY <1>2, <1>t, <2>1, AuthorityKind DEF ReadActor, MayAct, TypeOK, OpRecord
  <2> QED
    BY <1>2, <1>t, <2>2 DEF ReadActor, TypeOK, OpRecord
<1>3. ASSUME NEW o \in Op, ReadTarget(o)
      PROVE TypeOK'
  <2>1. op[o].target \in Person
    BY <1>3, <1>t DEF ReadTarget, ActorsAreWhoTheySeem
  <2>2. AuthorityOf(op[o].target) \in {"user", "staff", "admin", "root"}
    BY <2>1, AuthorityKind
  <2>3. op' \in [Op -> OpRecord]
    <3>1. CASE Exists(op[o].target)
      BY <1>3, <1>t, <2>2, <3>1 DEF ReadTarget, TypeOK, OpRecord
    <3>2. CASE ~Exists(op[o].target)
      BY <1>3, <1>t, <1>i, <3>2 DEF ReadTarget, TypeOK, End
    <3> QED
      BY <3>1, <3>2
  <2> QED
    BY <1>3, <1>t, <2>3 DEF ReadTarget, TypeOK
<1>4. ASSUME NEW o \in Op, ChangeAccess(o)
      PROVE TypeOK'
  <2>1. op[o].target \in Person /\ op[o].next \in {"user", "staff", "admin"}
    BY <1>4, <1>t DEF ChangeAccess, ActorsAreWhoTheySeem, TypeOK, OpRecord
  <2>2. Moved(op[o].next, identity[op[o].target]) \in Identity
    BY <1>t, <2>1, MovedKind DEF TypeOK
  <2>3. identity' \in [Person -> Identity]
    BY <1>4, <1>t, <2>2 DEF ChangeAccess, TypeOK
  <2>4. op' \in [Op -> OpRecord]
    BY <1>4, <1>t, <1>i DEF ChangeAccess, TypeOK, OpRecord, End, Step
  <2> QED
    BY <1>4, <1>t, <2>3, <2>4 DEF ChangeAccess, TypeOK
<1>5. ASSUME NEW o \in Op, RemoveProfile(o)
      PROVE TypeOK'
  BY <1>5, <1>t, <1>i DEF RemoveProfile, TypeOK, OpRecord, End, Step
<1>6. ASSUME NEW o \in Op, Write(o)
      PROVE TypeOK'
  <2>1. op' \in [Op -> OpRecord]
    BY <1>6, <1>t, <1>i DEF Write, TypeOK, OpRecord, End, Step
  <2>2. op[o].target \in Person /\ op[o].kind \in Kinds
    BY <1>6, <1>t DEF Write, ActorsAreWhoTheySeem, TypeOK, OpRecord
  <2>3. identity' \in [Person -> Identity]
    BY <1>6, <1>t, <2>2, ResultKind DEF Write, TypeOK
  <2>4. session' \subseteq Person
    BY <1>6, <1>t DEF Write, TypeOK
  <2> QED
    BY <1>6, <1>t, <2>1, <2>3, <2>4 DEF Write, TypeOK
<1>7. ASSUME NEW o \in Op, Record(o)
      PROVE TypeOK'
  BY <1>7, <1>t, <1>i DEF Record, TypeOK, End, SignedIn
<1>8. ASSUME NEW p \in Person, SignIn(p) \/ SessionEnds(p) \/ Register(p)
      PROVE TypeOK'
  BY <1>8, <1>t, <1>g DEF SignIn, SessionEnds, Register, TypeOK
<1>9. ASSUME Bootstrap
      PROVE TypeOK'
  BY <1>9, <1>t DEF Bootstrap, TypeOK, Identity, Exists
<1>10. CASE UNCHANGED vars
  BY <1>10, <1>t DEF vars, TypeOK
<1> QED
  BY <1>1, <1>2, <1>3, <1>4, <1>5, <1>6, <1>7, <1>8, <1>9, <1>10 DEF Next, Runs

(* What a step does to the schema and the role of one person.                *)
IdentityStep(p) ==
  \/ /\ identity'[p].role = identity[p].role
     /\ identity'[p].schema = identity[p].schema
  \/ identity'[p].role = "none"
  \/ /\ identity'[p].role = "superadmin"
     /\ identity'[p].schema = "staff"
  \/ /\ identity'[p].role = "admin" /\ identity'[p].schema = "staff"
     /\ ByRoot(p)

(* Only a change of access by a root makes an admin.                         *)
LEMMA RoleStep ==
  ASSUME IInv, [Next]_vars, NEW p \in Person
  PROVE  IdentityStep(p)
<1>t. TypeOK /\ ActorsAreWhoTheySeem
  BY DEF IInv
<1>1. ASSUME UNCHANGED identity PROVE IdentityStep(p)
  BY <1>1 DEF IdentityStep
<1>2. ASSUME NEW o \in Op, ChangeAccess(o), ~UNCHANGED identity
      PROVE IdentityStep(p)
  <2> DEFINE q == op[o].target
             i == Moved(op[o].next, identity[q])
  <2>1. q \in Person /\ op[o].next \in {"user", "staff", "admin"}
    BY <1>2, <1>t DEF ChangeAccess, ActorsAreWhoTheySeem, TypeOK, OpRecord
  <2>2. ~Refused(o) /\ identity' = [identity EXCEPT ![q] = i] /\ Step(o, "recording")
    BY <1>2 DEF ChangeAccess
  <2>3. CASE p # q
    BY <2>2, <2>3 DEF IdentityStep
  <2>4. CASE p = q
    <3>1. identity'[p] = i
      BY <1>t, <2>1, <2>2, <2>4 DEF TypeOK
    <3>2. /\ i \in Identity
          /\ i.role # "none" => i.schema = "staff"
          /\ i.role = "admin" => op[o].next = "admin"
          /\ i.role \in {"none", "admin"}
      BY <1>t, <2>1, MovedKind DEF TypeOK
    <3>3. CASE i.role = "none"
      BY <3>1, <3>3 DEF IdentityStep
    <3>4. CASE i.role = "admin"
      <4>1. op[o].actor = "root"
        BY <2>2, <3>2, <3>4 DEF Refused
      <4>2. op[o].by \in Roots
        BY <1>t, <4>1 DEF ActorsAreWhoTheySeem
      <4>3. op'[o] # op[o]
        BY <1>2, <1>t, <2>2 DEF Step, ChangeAccess, TypeOK, OpRecord
      <4>4. ByRoot(p)
        BY <2>4, <4>2, <4>3 DEF ByRoot
      <4> QED
        BY <3>1, <3>2, <3>4, <4>4 DEF IdentityStep
    <3> QED
      BY <3>2, <3>3, <3>4
  <2> QED
    BY <2>3, <2>4
<1>3. ASSUME NEW o \in Op, Write(o), ~UNCHANGED identity
      PROVE IdentityStep(p)
  <2> DEFINE q == op[o].target
  <2>1. q \in Person /\ op[o].kind \in Kinds
    BY <1>3, <1>t DEF Write, ActorsAreWhoTheySeem, TypeOK, OpRecord
  <2>2. identity' = [identity EXCEPT ![q] = Result(op[o].kind, identity[q])]
    BY <1>3 DEF Write
  <2> QED
    BY <1>t, <2>1, <2>2, ResultKind DEF IdentityStep, TypeOK
<1>4. ASSUME NEW q \in Person, Register(q)
      PROVE IdentityStep(p)
  BY <1>4, <1>t DEF Register, IdentityStep, TypeOK, Gone
<1>5. ASSUME Bootstrap
      PROVE IdentityStep(p)
  BY <1>5, <1>t, ConsoleAssumption DEF Bootstrap, IdentityStep, TypeOK
<1>6. CASE UNCHANGED vars
  BY <1>1, <1>6 DEF vars
<1>7. ASSUME NEW o \in Op,
             ReadActor(o) \/ ReadTarget(o) \/ RemoveProfile(o) \/ Record(o)
      PROVE UNCHANGED identity
  BY <1>7 DEF ReadActor, ReadTarget, RemoveProfile, Record
<1>8. ASSUME NEW o \in Op, NEW q \in Person, NEW u \in Person, NEW k \in Kind,
             NEW next \in {"user", "staff", "admin"}, Ask(o, q, k, u, next)
      PROVE UNCHANGED identity
  BY <1>8 DEF Ask
<1>9. ASSUME NEW q \in Person, SignIn(q) \/ SessionEnds(q)
      PROVE UNCHANGED identity
  BY <1>9 DEF SignIn, SessionEnds
<1> QED
  BY <1>1, <1>2, <1>3, <1>4, <1>5, <1>6, <1>7, <1>8, <1>9 DEF Next, Runs

(* The actor an action read stays what it was.                               *)
LEMMA ActorStep == IInv /\ [Next]_vars => ActorsAreWhoTheySeem'
<1> SUFFICES ASSUME IInv, [Next]_vars, NEW o \in Op
             PROVE /\ op'[o].actor = "root" => op'[o].by \in Roots
                   /\ op'[o].step # "idle" => op'[o].by \in Person /\ op'[o].target \in Person
  BY DEF ActorsAreWhoTheySeem
<1>t. TypeOK /\ ActorsAreWhoTheySeem
  BY DEF IInv
<1>1. CASE op'[o] = op[o]
  BY <1>1, <1>t DEF ActorsAreWhoTheySeem
<1>2. CASE op'[o] = Idle
  BY <1>2 DEF Idle
<1>3. ASSUME NEW a \in Op, NEW p \in Person, NEW q \in Person, NEW k \in Kind,
             NEW next \in {"user", "staff", "admin"}, Ask(a, p, k, q, next), op'[o] # op[o]
      PROVE op'[o].by \in Person /\ op'[o].target \in Person /\ op'[o].actor = "unread"
  BY <1>3, <1>t DEF Ask, TypeOK, Idle
<1>4. ASSUME NEW a \in Op, ReadActor(a), op'[o] # op[o]
      PROVE /\ op'[o].by = op[o].by /\ op'[o].target = op[o].target
            /\ op[o].step # "idle"
            /\ op'[o].actor = "root" => op[o].by \in Roots
  <2>1. a = o /\ op[o].step # "idle"
    BY <1>4, <1>t DEF ReadActor, TypeOK
  <2>2. op[o].by \in Person
    BY <1>t, <2>1 DEF ActorsAreWhoTheySeem
  <2>3. op' = [op EXCEPT ![o].actor =
                 IF MayAct(op[o].by) THEN AuthorityOf(op[o].by) ELSE "nobody"]
    BY <1>4, <2>1 DEF ReadActor
  <2>4. op'[o].actor = "root" => AuthorityOf(op[o].by) = "root"
    BY <1>t, <2>3 DEF TypeOK, OpRecord
  <2> QED
    BY <1>t, <2>1, <2>2, <2>3, <2>4, AuthorityKind DEF TypeOK, OpRecord
<1>5. ASSUME NEW a \in Op, op'[o] # op[o], op'[o] # Idle,
             \/ ReadTarget(a) \/ ChangeAccess(a) \/ RemoveProfile(a)
             \/ Write(a) \/ Record(a)
      PROVE /\ op'[o].by = op[o].by /\ op'[o].target = op[o].target
            /\ op'[o].actor = op[o].actor /\ op[o].step # "idle"
  BY <1>5, <1>t DEF ReadTarget, ChangeAccess, RemoveProfile, Write, Record,
                    End, Step, TypeOK, OpRecord
<1>6. ASSUME \/ \E p \in Person : SignIn(p) \/ SessionEnds(p) \/ Register(p)
             \/ Bootstrap \/ UNCHANGED vars
      PROVE op'[o] = op[o]
  BY <1>6 DEF SignIn, SessionEnds, Register, Bootstrap, vars
<1> QED
  BY <1>1, <1>2, <1>3, <1>4, <1>5, <1>6, <1>t DEF Next, Runs, ActorsAreWhoTheySeem

LEMMA Inductive == IInv /\ [Next]_vars => IInv'
<1> SUFFICES ASSUME IInv, [Next]_vars PROVE IInv'
  OBVIOUS
<1>1. ASSUME NEW p \in Person
      PROVE identity'[p].role # "none" => identity'[p].schema = "staff"
  BY RoleStep DEF IInv, NoRoleOffStaff, IdentityStep
<1> QED
  BY <1>1, TypeStep, ActorStep DEF IInv, NoRoleOffStaff

(* The invariant the theorems below follow from.                             *)
THEOREM Invariant == Spec => []IInv
  BY Initially, Inductive, PTL DEF Spec

(* Every variable keeps its type.                                            *)
THEOREM TypeCorrect == Spec => []TypeOK
  BY Invariant, PTL DEF IInv

(* One PATCH writes schema and role: nobody ever carries a role while off    *)
(* the staff schema, whatever interleaves with it.                           *)
THEOREM RolesAreOnStaff == Spec => []NoRoleOffStaff
  BY Invariant, PTL DEF IInv

(* Nobody becomes an admin but by a root's hand: no race between the rule    *)
(* and the write appoints anybody.                                           *)
THEOREM OnlyRootsAppoint == Spec => AppointedByRoots
<1>1. IInv /\ [Next]_vars =>
        [\A p \in Person : ~Appointed(p) /\ Appointed(p)' => ByRoot(p)]_vars
  <2> SUFFICES ASSUME IInv, [Next]_vars, NEW p \in Person, ~Appointed(p), Appointed(p)'
               PROVE ByRoot(p)
    OBVIOUS
  <2> QED
    BY RoleStep DEF IdentityStep, Appointed
<1> QED
  BY <1>1, Invariant, PTL DEF Spec, AppointedByRoots

-----------------------------------------------------------------------------
(* Places in an order.                                                       *)

(* A strict total order of a set, as a set of pairs.                         *)
Orders(R, T) ==
  /\ \A x \in T : <<x, x>> \notin R
  /\ \A x \in T, y \in T, z \in T : <<x, y>> \in R /\ <<y, z>> \in R => <<x, z>> \in R
  /\ \A x \in T, y \in T : x # y => <<x, y>> \in R \/ <<y, x>> \in R

Below(R, T, r) == {x \in T : <<x, r>> \in R}

(* Nobody shares a place, and every place is taken.                          *)
LEMMA Places ==
  ASSUME NEW T, IsFiniteSet(T), NEW R, Orders(R, T)
  PROVE  /\ \A x \in T : /\ IsFiniteSet(Below(R, T, x))
                         /\ Cardinality(Below(R, T, x)) \in 0..(Cardinality(T) - 1)
         /\ \A x \in T, y \in T :
              <<x, y>> \in R => Cardinality(Below(R, T, x)) < Cardinality(Below(R, T, y))
         /\ \A k \in 0..(Cardinality(T) - 1) :
              \E x \in T : Cardinality(Below(R, T, x)) = k
<1> DEFINE n == Cardinality(T)
           place == [x \in T |-> Cardinality(Below(R, T, x))]
<1>1. n \in Nat
  BY FS_CardinalityType
<1>2. ASSUME NEW x \in T
      PROVE  /\ IsFiniteSet(Below(R, T, x))
             /\ Cardinality(Below(R, T, x)) \in 0..(n - 1)
  <2>1. Below(R, T, x) \subseteq T /\ x \notin Below(R, T, x)
    BY DEF Below, Orders
  <2>2. /\ IsFiniteSet(Below(R, T, x))
        /\ Cardinality(Below(R, T, x)) <= n /\ Cardinality(Below(R, T, x)) # n
    BY <2>1, FS_Subset
  <2>3. Cardinality(Below(R, T, x)) \in Nat
    BY <2>2, FS_CardinalityType
  <2> QED
    BY <1>1, <2>2, <2>3
<1>3. ASSUME NEW x \in T, NEW y \in T, <<x, y>> \in R
      PROVE  Cardinality(Below(R, T, x)) < Cardinality(Below(R, T, y))
  <2>1. Below(R, T, x) \subseteq Below(R, T, y)
    BY <1>3 DEF Below, Orders
  <2>2. x \in Below(R, T, y) /\ x \notin Below(R, T, x)
    BY <1>3 DEF Below, Orders
  <2>3. /\ Cardinality(Below(R, T, x)) <= Cardinality(Below(R, T, y))
        /\ Cardinality(Below(R, T, x)) # Cardinality(Below(R, T, y))
    BY <1>2, <2>1, <2>2, FS_Subset
  <2> QED
    BY <1>2, <2>3
<1>4. place \in Injection(T, 0..(n - 1))
  <2>1. place \in [T -> 0..(n - 1)]
    BY <1>2
  <2>2. ASSUME NEW x \in T, NEW y \in T, x # y PROVE place[x] # place[y]
    <3>1. <<x, y>> \in R \/ <<y, x>> \in R
      BY <2>2 DEF Orders
    <3>2. /\ Cardinality(Below(R, T, x)) \in Nat /\ Cardinality(Below(R, T, y)) \in Nat
          /\ Cardinality(Below(R, T, x)) # Cardinality(Below(R, T, y))
      BY <1>2, <1>3, <3>1
    <3> QED
      BY <3>2
  <2> HIDE DEF place
  <2>3. \A x \in T, y \in T : place[x] = place[y] => x = y
    BY <2>2
  <2>4. IsInjective(place)
    BY <2>1, <2>3 DEF IsInjective
  <2> QED
    BY <2>1, <2>4 DEF Injection
<1>5. IsFiniteSet(0..(n - 1)) /\ Cardinality(0..(n - 1)) = n
  BY <1>1, FS_Interval
<1>6. place \in Surjection(T, 0..(n - 1))
  <2> HIDE DEF place
  <2> QED
    BY <1>4, <1>5, FS_Injection
<1>7. \A k \in 0..(n - 1) : \E x \in T : place[x] = k
  BY <1>6 DEF Surjection
<1> QED
  BY <1>2, <1>3, <1>7

(* The first k of a set are k, or the whole of it.                           *)
LEMMA FirstPlaces ==
  ASSUME NEW T, IsFiniteSet(T), NEW R, Orders(R, T), NEW k \in Nat,
         NEW first, first = {x \in T : Cardinality(Below(R, T, x)) < k}
  PROVE  /\ IsFiniteSet(first) /\ first \subseteq T
         /\ first = T \/ Cardinality(first) >= k
<1> DEFINE n == Cardinality(T)
           place == [x \in first |-> Cardinality(Below(R, T, x))]
<1>1. n \in Nat
  BY FS_CardinalityType
<1>2. IsFiniteSet(first) /\ first \subseteq T
  BY FS_Subset
<1>3. CASE n <= k
  <2>1. \A x \in T : Cardinality(Below(R, T, x)) \in 0..(n - 1)
    BY Places
  <2>2. first = T
    BY <1>1, <1>3, <2>1
  <2> QED
    BY <1>2, <2>2
<1>4. CASE n > k
  <2>1. \A x \in T : Cardinality(Below(R, T, x)) \in 0..(n - 1)
    BY Places
  <2>2. place \in [first -> 0..(k - 1)]
    BY <1>1, <1>4, <2>1
  <2>3. ASSUME NEW j \in 0..(k - 1) PROVE \E x \in first : place[x] = j
    <3>1. PICK x \in T : Cardinality(Below(R, T, x)) = j
      BY <1>1, <1>4, Places
    <3>2. x \in first
      BY <3>1
    <3> QED
      BY <3>1, <3>2
  <2>4. place \in Surjection(first, 0..(k - 1))
    <3> HIDE DEF place
    <3> QED
      BY <2>2, <2>3 DEF Surjection
  <2>5. Cardinality(0..(k - 1)) = k
    BY FS_Interval
  <2> HIDE DEF place
  <2>6. k <= Cardinality(first)
    BY <1>2, <2>4, <2>5, FS_Surjection
  <2>7. Cardinality(first) \in Nat
    BY <1>2, FS_CardinalityType
  <2> QED
    BY <1>2, <2>6, <2>7
<1> QED
  BY <1>1, <1>3, <1>4

(* Whole pages.                                                              *)
LEMMA PagesBound ==
  ASSUME NEW total \in Nat, total > 0
  PROVE  /\ PagesOfRows(total) \in 1..total
         /\ \A page \in Nat : page * PageSize < total => page < PagesOfRows(total)
<1>1. PageSize \in Nat /\ PageSize >= 1
  BY AuditFeedAssumption
<1> DEFINE d == (total + PageSize - 1) \div PageSize
<1>2. d \in Int /\ d * PageSize <= total + PageSize - 1 /\ total + PageSize - 1 < (d + 1) * PageSize
  BY <1>1
<1> HIDE DEF d
<1>3. d * PageSize >= total
  BY <1>1, <1>2
<1>4. d >= 1
  <2>1. SUFFICES ASSUME d <= 0 PROVE FALSE
    BY <1>2
  <2>2. d * PageSize <= 0
    BY <1>1, <1>2, <2>1
  <2> QED
    BY <1>1, <1>2, <1>3, <2>2
<1>5. d <= total
  <2>1. SUFFICES ASSUME d >= total + 1 PROVE FALSE
    BY <1>2
  <2>2. d * PageSize >= (total + 1) * PageSize
    BY <1>1, <1>2, <2>1
  <2>3. (total + 1) * PageSize = total * PageSize + PageSize /\ total * PageSize >= total
    BY <1>1
  <2> QED
    BY <1>1, <1>2, <2>2, <2>3
<1>6. ASSUME NEW page \in Nat, page * PageSize < total PROVE page < d
  <2>1. SUFFICES ASSUME page >= d PROVE FALSE
    BY <1>2
  <2>2. page * PageSize >= d * PageSize
    BY <1>1, <1>2, <2>1
  <2> QED
    BY <1>1, <1>2, <1>3, <1>6, <2>2
<1> QED
  BY <1>2, <1>4, <1>5, <1>6 DEF PagesOfRows, d

-----------------------------------------------------------------------------
(* The log. *)

(* No two rows have the same id.                                             *)
LogInv ==
  /\ log \subseteq Row
  /\ \A a \in log, b \in log : a.id = b.id => a = b

LEMMA RowsFinite ==
  ASSUME NEW L, L \subseteq Row, \A a \in L, b \in L : a.id = b.id => a = b
  PROVE  IsFiniteSet(L) /\ Cardinality(L) \in 0..MaxRows
<1> DEFINE ids == [r \in L |-> r.id]
<1>1. MaxRows \in Nat
  BY AuditFeedAssumption
<1>2. ids \in [L -> 1..MaxRows]
  BY DEF Row
<1>3. \A a \in L, b \in L : ids[a] = ids[b] => a = b
  OBVIOUS
<1>4. ids \in Injection(L, 1..MaxRows)
  <2> HIDE DEF ids
  <2> QED
    BY <1>2, <1>3 DEF Injection, IsInjective
<1>5. IsFiniteSet(1..MaxRows) /\ Cardinality(1..MaxRows) = MaxRows
  BY <1>1, FS_Interval
<1> HIDE DEF ids
<1>6. IsFiniteSet(L) /\ Cardinality(L) <= MaxRows
  BY <1>4, <1>5, FS_Injection
<1> QED
  BY <1>1, <1>6, FS_CardinalityType

LEMMA LogSize ==
  ASSUME LogInv
  PROVE  IsFiniteSet(log) /\ Cardinality(log) \in 0..MaxRows
  BY RowsFinite DEF LogInv

NewerPairs == {p \in log \X log : Newer(p[1], p[2])}

LEMMA NewerOrders ==
  ASSUME LogInv, NEW T \in SUBSET log
  PROVE  /\ Orders(NewerPairs, T)
         /\ \A r \in T : Place(r, T) = Cardinality(Below(NewerPairs, T, r))
         /\ \A x \in T, y \in T : <<x, y>> \in NewerPairs <=> Newer(x, y)
<1>1. \A x \in T, y \in T : <<x, y>> \in NewerPairs <=> Newer(x, y)
  BY DEF NewerPairs
<1>2. \A x \in T : x.id \in Nat /\ x.at \in Nat
  BY AuditFeedAssumption DEF LogInv, Row
<1>3. \A x \in T : ~Newer(x, x)
  BY <1>2 DEF Newer
<1>4. \A x \in T, y \in T, z \in T : Newer(x, y) /\ Newer(y, z) => Newer(x, z)
  BY <1>2 DEF Newer
<1>5. \A x \in T, y \in T : x # y => Newer(x, y) \/ Newer(y, x)
  BY <1>2 DEF Newer, LogInv
<1>6. Orders(NewerPairs, T)
  BY <1>1, <1>3, <1>4, <1>5 DEF Orders
<1>7. ASSUME NEW r \in T PROVE Place(r, T) = Cardinality(Below(NewerPairs, T, r))
  <2>1. {x \in T : Newer(x, r)} = Below(NewerPairs, T, r)
    BY <1>1 DEF Below
  <2> QED
    BY <2>1 DEF Place
<1> QED
  BY <1>1, <1>6, <1>7

LEMMA NewestPlaces ==
  ASSUME LogInv, NEW T \in SUBSET log
  PROVE  /\ IsFiniteSet(T) /\ Cardinality(T) \in 0..MaxRows
         /\ \A r \in T : Place(r, T) \in 0..(Cardinality(T) - 1)
         /\ \A k \in 0..(Cardinality(T) - 1) : \E r \in T : Place(r, T) = k
<1>1. IsFiniteSet(log) /\ Cardinality(log) \in 0..MaxRows /\ MaxRows \in Nat
  BY LogSize, AuditFeedAssumption
<1>2. IsFiniteSet(T) /\ Cardinality(T) \in Nat /\ Cardinality(T) <= Cardinality(log)
  BY <1>1, FS_Subset, FS_CardinalityType
<1>3. IsFiniteSet(T) /\ Orders(NewerPairs, T)
  BY <1>2, NewerOrders
<1>4. /\ \A r \in T : Cardinality(Below(NewerPairs, T, r)) \in 0..(Cardinality(T) - 1)
      /\ \A k \in 0..(Cardinality(T) - 1) : \E r \in T : Cardinality(Below(NewerPairs, T, r)) = k
  BY <1>3, Places
<1> QED
  BY <1>1, <1>2, <1>4, NewerOrders

-----------------------------------------------------------------------------
(* Pages. *)

ClockInv == now \in 0..MaxTime

(* The range's start, which never moves back.                                *)
LEMMA AfterType ==
  ASSUME ClockInv, NEW range \in {Unset, "recent"}
  PROVE  SelectedAfter(range) \in 0..MaxTime
<1>1. Window \in Nat /\ MaxTime \in Nat
  BY AuditFeedAssumption
<1> QED
  BY <1>1 DEF ClockInv, SelectedAfter

(* Rows before one that is in range are in range themselves.                 *)
LEMMA PlaceInRange ==
  ASSUME LogInv, NEW filters, NEW after \in Nat,
         NEW r \in Predicate(filters, after)
  PROVE  /\ r \in Predicate(filters, 0)
         /\ Place(r, Predicate(filters, after)) = Place(r, Predicate(filters, 0))
<1>1. \A x \in log : x.at \in Nat
  BY AuditFeedAssumption DEF LogInv, Row
<1>2. \A x \in log : Newer(x, r) /\ r.at >= after => x.at >= after /\ x.at >= 0
  BY <1>1 DEF Newer, Predicate
<1>3. \A x : x \in Predicate(filters, after) <=> x \in Predicate(filters, 0) /\ x.at >= after
  BY <1>1 DEF Predicate
<1>4. {x \in Predicate(filters, after) : Newer(x, r)} = {x \in Predicate(filters, 0) : Newer(x, r)}
  <2>1. r.at >= after /\ Predicate(filters, 0) \subseteq log
    BY DEF Predicate
  <2> QED
    BY <1>2, <1>3, <2>1
<1> QED
  BY <1>3, <1>4 DEF Place

(* A page, and what it leaves to the next: a row that is not before it is on *)
(* it or behind it, and then there is another page.                          *)
LEMMA Listed ==
  ASSUME LogInv, ClockInv, NEW filters \in Filters, NEW page \in 1..(MaxRows + 1),
         NEW after, after = SelectedAfter(filters.range),
         NEW s, s = ListEvents(filters, page)
  PROVE  /\ s.view = "log" /\ s.filters = filters /\ s.page = page /\ s.after = after
         /\ after \in 0..MaxTime
         /\ s.rows \subseteq Predicate(filters, after)
         /\ s.pages \in 1..(MaxRows + 1)
         /\ \A r \in Predicate(filters, after) :
              /\ Place(r, Predicate(filters, 0)) >= (page - 1) * PageSize
              /\ r \notin s.rows
              => /\ page < s.pages
                 /\ Place(r, Predicate(filters, 0)) >= page * PageSize
<1> DEFINE matched == Predicate(filters, after)
           rows    == Slice(matched, PageSize, PageOffset(page))
           total   == IF rows = {} THEN 0 ELSE Cardinality(matched)
<1>1. s = [view |-> "log", filters |-> filters, page |-> page, after |-> after,
           rows |-> rows, total |-> total, pages |-> Pages(total)]
  BY DEF ListEvents
<1>2. after \in 0..MaxTime /\ MaxTime \in Nat
  BY AfterType, AuditFeedAssumption DEF Filters
<1>3. matched \in SUBSET log /\ rows \subseteq matched
  BY DEF Predicate, Slice
<1>4. PageSize \in Nat /\ PageSize >= 1 /\ MaxRows \in Nat /\ page \in Nat /\ page >= 1
  BY AuditFeedAssumption
<1>5. /\ Cardinality(matched) \in 0..MaxRows
      /\ \A r \in matched : Place(r, matched) \in 0..(Cardinality(matched) - 1)
      /\ \A k \in 0..(Cardinality(matched) - 1) : \E r \in matched : Place(r, matched) = k
  BY <1>3, NewestPlaces
<1>6. total \in 0..MaxRows
  BY <1>4, <1>5
<1>7. Pages(total) \in 1..(MaxRows + 1)
  <2>1. CASE total = 0
    BY <1>4, <2>1 DEF Pages
  <2>2. CASE total # 0
    <3>1. PagesOfRows(total) \in 1..total
      <4> HIDE DEF total
      <4> QED
        BY <1>4, <1>6, <2>2, PagesBound
    <3> QED
      BY <1>4, <1>6, <2>2, <3>1 DEF Pages
  <2> QED
    BY <2>1, <2>2
<1>8. ASSUME NEW r \in matched, Place(r, Predicate(filters, 0)) >= (page - 1) * PageSize,
             r \notin rows
      PROVE  page < Pages(total) /\ Place(r, Predicate(filters, 0)) >= page * PageSize
  <2> DEFINE k == Place(r, matched)
             n == Cardinality(matched)
             offset == (page - 1) * PageSize
  <2>1. k = Place(r, Predicate(filters, 0))
    BY <1>2, PlaceInRange
  <2>2. k \in 0..(n - 1) /\ n \in Nat
    BY <1>4, <1>5
  <2>3. offset \in Nat /\ offset + PageSize = page * PageSize
    BY <1>4
  <2>4. \A x \in matched : x \in rows <=> Place(x, matched) >= offset /\ Place(x, matched) < offset + PageSize
    BY DEF Slice, PageOffset
  <2>5. k >= offset + PageSize
    <3> HIDE DEF rows, matched, offset
    <3>1. k >= offset
      BY <1>8, <2>1 DEF offset
    <3>2. ~(k < offset + PageSize)
      BY <1>8, <2>4, <3>1
    <3> HIDE DEF k
    <3> QED
      BY <1>4, <2>2, <2>3, <3>2
  <2>6. rows # {}
    <3>1. offset \in 0..(n - 1)
      <4> HIDE DEF offset, n, k
      <4> QED
        BY <1>4, <2>2, <2>3, <2>5
    <3>2. PICK x \in matched : Place(x, matched) = offset
      BY <1>5, <3>1
    <3>3. x \in rows
      <4> HIDE DEF offset, rows, matched
      <4> QED
        BY <1>4, <2>3, <2>4, <3>2
    <3> QED
      BY <3>3
  <2>7. total = n /\ page * PageSize < n
    <3>1. page * PageSize < n
      <4> HIDE DEF offset, n, k
      <4> QED
        BY <1>4, <2>2, <2>3, <2>5
    <3> QED
      BY <2>6, <3>1
  <2>8. page < Pages(total)
    <3> HIDE DEF total, n, rows, matched, offset, k
    <3>1. n > 0 /\ n \in Nat
      BY <2>2
    <3>2. page < PagesOfRows(n)
      BY <1>4, <2>7, <3>1, PagesBound
    <3> QED
      BY <2>7, <3>1, <3>2 DEF Pages
  <2> HIDE DEF k, offset
  <2> QED
    BY <2>1, <2>3, <2>5, <2>8
<1> HIDE DEF matched, rows, total
<1> QED
  BY <1>1, <1>2, <1>3, <1>7, <1>8 DEF matched

-----------------------------------------------------------------------------
(* The invariant. *)

ScreenInv ==
  /\ screen.filters \in Filters
  /\ screen.page \in 1..(MaxRows + 1) /\ screen.pages \in 1..(MaxRows + 1)
  /\ screen.rows \subseteq Predicate(screen.filters, 0)
  /\ screen.after \in Nat /\ screen.after <= SelectedAfter(screen.filters.range)

(* A row there was at page one that is still in range and was not seen is on *)
(* a page to come, and there is one.                                         *)
StillToCome(r) ==
  /\ screen.page < screen.pages
  /\ Place(r, Predicate(screen.filters, 0)) >= screen.page * PageSize

WalkInv ==
  /\ walk \in [start : SUBSET log, seen : SUBSET log]
  /\ OnLog => walk.start \subseteq Predicate(screen.filters, 0)
  /\ OnLog => \A r \in walk.start :
                r.at >= screen.after /\ r \notin walk.seen => StillToCome(r)

ChosenInv ==
  /\ chosen \in [status : Status \cup {Unset}, range : {Unset, "recent"}]
  /\ OnLog => screen.filters.status = chosen.status /\ screen.filters.range = chosen.range

(* What was read has what there was when loading began, and only what the    *)
(* statement asks for.                                                       *)
Subject ==
  /\ load.kind \in {"identity", "subject"} => load.of \in Party
  /\ load.kind = "event" => load.of \in log
  /\ load.kind \in {"identity", "subject", "event"} => load.after = 0

Asked(p) == Statement(load.kind, load.of, load.after, p)

LoadInv ==
  /\ load = [kind |-> load.kind, of |-> load.of, after |-> load.after,
             begun |-> load.begun, read |-> load.read]
  /\ load.kind \in {"none", "analytics", "identity", "subject", "event"}
  /\ load.after \in 0..MaxTime
  /\ Subject
  /\ DOMAIN load.begun = Parts(load.kind, load.of)
  /\ DOMAIN load.read \subseteq Parts(load.kind, load.of)
  /\ \A p \in DOMAIN load.begun : load.begun[p] \subseteq Asked(p)
  /\ \A p \in DOMAIN load.read :
       load.begun[p] \subseteq load.read[p] /\ load.read[p] \subseteq Asked(p)

PageInv == ScreenInv /\ WalkInv /\ ChosenInv

FeedInv == LogInv /\ ClockInv /\ PageInv /\ LoadInv

(* A log that grows, while the clock does not go back.                       *)
Passes == LogInv' /\ ClockInv' /\ log \subseteq log' /\ now <= now'

LEMMA Growth ==
  ASSUME FeedInv, Passes
  PROVE  /\ \A filters, after : Predicate(filters, after) \subseteq Predicate(filters, after)'
         /\ \A filters : \A r \in log :
              Place(r, Predicate(filters, 0)) <= Place(r, Predicate(filters, 0)')
         /\ \A range \in {Unset, "recent"} :
              /\ SelectedAfter(range) \in Nat /\ SelectedAfter(range)' \in Nat
              /\ SelectedAfter(range) <= SelectedAfter(range)'
         /\ \A kind, of, after, part :
              Statement(kind, of, after, part) \subseteq Statement(kind, of, after, part)'
<1>1. \A filters, after : Predicate(filters, after) \subseteq Predicate(filters, after)'
  BY DEF Passes, Predicate
<1>2. ASSUME NEW filters, NEW r \in log
      PROVE  Place(r, Predicate(filters, 0)) <= Place(r, Predicate(filters, 0)')
  <2> DEFINE old == {x \in Predicate(filters, 0) : Newer(x, r)}
             new == {x \in Predicate(filters, 0)' : Newer(x, r)}
  <2>1. old \subseteq new /\ new \subseteq log'
    BY <1>1 DEF Predicate
  <2>2. IsFiniteSet(log')
    BY RowsFinite DEF Passes, LogInv
  <2>3. IsFiniteSet(new)
    BY <2>1, <2>2, FS_Subset
  <2>4. Cardinality(old) <= Cardinality(new)
    BY <2>1, <2>3, FS_Subset
  <2> QED
    BY <2>4 DEF Place
<1>3. \A range \in {Unset, "recent"} :
        /\ SelectedAfter(range) \in Nat /\ SelectedAfter(range)' \in Nat
        /\ SelectedAfter(range) <= SelectedAfter(range)'
  <2>1. /\ Window \in Nat /\ now \in Int /\ now' \in Int /\ now <= now' /\ now >= 0
    BY AuditFeedAssumption DEF FeedInv, ClockInv, Passes
  <2>2. ASSUME NEW range \in {Unset, "recent"}
        PROVE  /\ SelectedAfter(range) \in Nat /\ SelectedAfter(range)' \in Nat
               /\ SelectedAfter(range) <= SelectedAfter(range)'
    <3> DEFINE was == SelectedAfter(range)
               is == SelectedAfter(range)'
    <3>1. (was = 0 /\ (range = Unset \/ now < Window)) \/ (was = now - Window /\ ~(now < Window) /\ range # Unset)
      BY DEF SelectedAfter
    <3>2. (is = 0 /\ (range = Unset \/ now' < Window)) \/ (is = now' - Window /\ ~(now' < Window) /\ range # Unset)
      BY DEF SelectedAfter
    <3> HIDE DEF was, is
    <3>3. was \in Nat /\ is \in Nat /\ was <= is
      BY <2>1, <3>1, <3>2
    <3> QED
      BY <3>3 DEF was, is
  <2> QED
    BY <2>2
<1>4. \A kind, of, after, part :
        Statement(kind, of, after, part) \subseteq Statement(kind, of, after, part)'
  BY <1>1 DEF Statement
<1> QED
  BY <1>1, <1>2, <1>3, <1>4

LEMMA PageStays ==
  ASSUME FeedInv, Passes, UNCHANGED <<screen, walk, chosen>>
  PROVE  PageInv'
<1> DEFINE filters == screen.filters
<1>1. filters \in Filters /\ filters.range \in {Unset, "recent"}
  BY DEF FeedInv, PageInv, ScreenInv, Filters
<1>2. /\ Predicate(filters, 0) \subseteq Predicate(filters, 0)'
      /\ \A r \in log : Place(r, Predicate(filters, 0)) <= Place(r, Predicate(filters, 0)')
      /\ SelectedAfter(filters.range) <= SelectedAfter(filters.range)'
  BY <1>1, Growth
<1>3. filters' = filters /\ screen' = screen /\ walk' = walk /\ chosen' = chosen /\ log \subseteq log'
  BY DEF Passes
<1>4. /\ screen.page \in Nat /\ PageSize \in Nat /\ LogInv
      /\ \A r \in log : Place(r, Predicate(filters, 0)) \in Nat /\ Place(r, Predicate(filters, 0)') \in Nat
  <2>1. screen.page \in Nat /\ PageSize \in Nat /\ LogInv
    BY AuditFeedAssumption DEF FeedInv, PageInv, ScreenInv
  <2>2. \A L : L \in SUBSET log \/ L \in SUBSET log' => IsFiniteSet(L)
    <3>1. IsFiniteSet(log) /\ IsFiniteSet(log')
      BY RowsFinite DEF FeedInv, LogInv, Passes
    <3> QED
      BY <3>1, FS_Subset
  <2>3. ASSUME NEW r \in log
        PROVE  Place(r, Predicate(filters, 0)) \in Nat /\ Place(r, Predicate(filters, 0)') \in Nat
    <3>1. /\ {x \in Predicate(filters, 0) : Newer(x, r)} \in SUBSET log
          /\ {x \in Predicate(filters, 0)' : Newer(x, r)} \in SUBSET log'
      BY DEF Predicate
    <3> QED
      BY <2>2, <3>1, FS_CardinalityType DEF Place
  <2> QED
    BY <2>1, <2>3
<1>5. ScreenInv'
  <2>1. SelectedAfter(filters.range)' \in Nat /\ SelectedAfter(filters.range) \in Nat
    BY <1>1, Growth
  <2>2. screen.after \in Nat /\ screen.after <= SelectedAfter(filters.range)
    BY DEF FeedInv, PageInv, ScreenInv
  <2>3. screen.after <= SelectedAfter(filters.range)'
    <3> DEFINE was == SelectedAfter(filters.range)
               is == SelectedAfter(filters.range)'
    <3> HIDE DEF was, is
    <3> QED
      BY <1>2, <2>1, <2>2 DEF was, is
  <2> QED
    BY <1>2, <1>3, <2>3 DEF FeedInv, PageInv, ScreenInv
<1>6. ChosenInv'
  BY <1>3 DEF FeedInv, PageInv, ChosenInv, OnLog
<1>7. WalkInv'
  <2>1. walk' \in [start : SUBSET log', seen : SUBSET log'] /\ walk.start \subseteq log
    BY <1>3 DEF FeedInv, PageInv, WalkInv
  <2>2. OnLog' => OnLog /\ walk'.start \subseteq Predicate(filters, 0)'
    BY <1>2, <1>3 DEF FeedInv, PageInv, WalkInv, OnLog
  <2>3. ASSUME OnLog', NEW r \in walk'.start, r.at >= screen.after, r \notin walk.seen
        PROVE  /\ screen.page < screen.pages
               /\ Place(r, Predicate(filters, 0)') >= screen.page * PageSize
    <3>1. StillToCome(r) /\ r \in log
      BY <1>3, <2>1, <2>2, <2>3 DEF FeedInv, PageInv, WalkInv
    <3> DEFINE was == Place(r, Predicate(filters, 0))
               is == Place(r, Predicate(filters, 0)')
               least == screen.page * PageSize
    <3>2. was >= least /\ was <= is /\ was \in Int /\ is \in Int /\ least \in Int
      BY <1>2, <1>4, <3>1 DEF StillToCome
    <3>3. is >= least
      <4> HIDE DEF was, is, least
      <4> QED
        BY <3>2
    <3> QED
      BY <3>1, <3>3 DEF StillToCome
  <2> QED
    BY <1>3, <2>1, <2>2, <2>3 DEF WalkInv, StillToCome
<1> QED
  BY <1>5, <1>6, <1>7 DEF PageInv

LEMMA LoadStays ==
  ASSUME FeedInv, Passes, UNCHANGED load
  PROVE  LoadInv'
<1>1. \A p : Asked(p) \subseteq Asked(p)'
  BY Growth DEF Asked
<1>2. Subject'
  BY DEF FeedInv, LoadInv, Subject, Passes
<1> QED
  BY <1>1, <1>2 DEF FeedInv, LoadInv, Parts
-----------------------------------------------------------------------------
(* Steps. *)

LEMMA NothingLoads ==
  ASSUME load' = NoLoad
  PROVE  LoadInv'
<1>1. /\ NoLoad = [kind |-> "none", of |-> None, after |-> 0,
                   begun |-> [p \in {} |-> {}], read |-> [p \in {} |-> {}]]
      /\ Parts("none", None) = {} /\ 0 \in 0..MaxTime
  BY AuditFeedAssumption DEF NoLoad, Parts
<1>2. /\ NoLoad.kind = "none" /\ NoLoad.of = None /\ NoLoad.after = 0
      /\ DOMAIN NoLoad.begun = {} /\ DOMAIN NoLoad.read = {}
  BY <1>1
<1>3. NoLoad = [kind |-> NoLoad.kind, of |-> NoLoad.of, after |-> NoLoad.after,
                begun |-> NoLoad.begun, read |-> NoLoad.read]
  BY <1>1
<1> QED
  BY <1>1, <1>2, <1>3 DEF LoadInv, Subject

(* Page one of a view of the log.                                            *)
LEMMA ShowStep ==
  ASSUME FeedInv, NEW filters \in Filters, Show(filters),
         chosen' \in [status : Status \cup {Unset}, range : {Unset, "recent"}],
         chosen'.status = filters.status, chosen'.range = filters.range
  PROVE  FeedInv'
<1> DEFINE after == SelectedAfter(filters.range)
           s == ListEvents(filters, 1)
<1>1. /\ screen' = s /\ now' = now /\ log' = log /\ load' = NoLoad
      /\ walk' = [start |-> Predicate(filters, after), seen |-> s.rows]
  BY DEF Show
<1>2. LogInv /\ ClockInv /\ 1 \in 1..(MaxRows + 1) /\ PageSize \in Nat
  BY AuditFeedAssumption DEF FeedInv
<1>3. /\ s.view = "log" /\ s.filters = filters /\ s.page = 1 /\ s.after = after
      /\ after \in 0..MaxTime
      /\ s.rows \subseteq Predicate(filters, after)
      /\ s.pages \in 1..(MaxRows + 1)
      /\ \A r \in Predicate(filters, after) :
           /\ Place(r, Predicate(filters, 0)) >= (1 - 1) * PageSize
           /\ r \notin s.rows
           => 1 < s.pages /\ Place(r, Predicate(filters, 0)) >= 1 * PageSize
  BY <1>2, Listed
<1> HIDE DEF s
<1>4. after \in Nat /\ Predicate(filters, 0) \subseteq log
  BY <1>3 DEF Predicate
<1>5. ASSUME NEW r \in Predicate(filters, after)
      PROVE  r \in Predicate(filters, 0) /\ Place(r, Predicate(filters, 0)) >= (1 - 1) * PageSize
  <2>1. r \in Predicate(filters, 0)
    BY <1>2, <1>4, PlaceInRange
  <2>2. Place(r, Predicate(filters, 0)) \in Nat
    BY <1>2, <1>4, <2>1, NewestPlaces
  <2>3. (1 - 1) * PageSize = 0
    BY <1>2
  <2> QED
    BY <2>1, <2>2, <2>3
<1>6. \A f, a : Predicate(f, a)' = Predicate(f, a)
  BY <1>1 DEF Predicate
<1>7. \A range : SelectedAfter(range)' = SelectedAfter(range)
  BY <1>1 DEF SelectedAfter
<1>8. LogInv' /\ ClockInv'
  BY <1>1, <1>2 DEF LogInv, ClockInv
<1>9. ScreenInv'
  <2>1. s.rows \subseteq Predicate(filters, 0)
    BY <1>3, <1>5
  <2>2. after <= after
    BY <1>4
  <2> HIDE DEF after
  <2>3. s.filters \in Filters /\ s.page \in 1..(MaxRows + 1) /\ s.pages \in 1..(MaxRows + 1)
        /\ s.after \in Nat /\ s.after <= SelectedAfter(s.filters.range)
    BY <1>2, <1>3, <1>4, <2>2 DEF after
  <2> QED
    BY <1>1, <1>3, <1>6, <1>7, <2>1, <2>3 DEF ScreenInv
<1>10. ChosenInv'
  BY <1>1, <1>3 DEF ChosenInv, OnLog
<1>11. WalkInv'
  <2>1. walk' \in [start : SUBSET log', seen : SUBSET log']
    BY <1>1, <1>3, <1>4, <1>5
  <2>2. walk'.start = Predicate(filters, after) /\ walk'.seen = s.rows
    BY <1>1
  <2>3. \A r \in walk'.start : r \notin walk'.seen =>
          1 < s.pages /\ Place(r, Predicate(filters, 0)) >= 1 * PageSize
    BY <1>3, <1>5, <2>2
  <2> HIDE DEF after
  <2>4. walk'.start \subseteq Predicate(filters, 0)'
    BY <1>5, <1>6, <2>2
  <2> QED
    BY <1>1, <1>3, <1>6, <2>1, <2>3, <2>4 DEF WalkInv, StillToCome
<1> QED
  BY <1>1, <1>8, <1>9, <1>10, <1>11, NothingLoads DEF FeedInv, PageInv

(* Another page of the same view.                                            *)
LEMMA TurnStep ==
  ASSUME FeedInv, NEW page \in 1..(MaxRows + 1), Turn(page)
  PROVE  FeedInv'
<1> DEFINE filters == screen.filters
           after == SelectedAfter(filters.range)
           s == ListEvents(filters, page)
<1>1. /\ OnLog /\ screen' = s /\ now' = now /\ log' = log /\ load' = load /\ chosen' = chosen
      /\ walk' = CASE page = 1 -> [start |-> Predicate(filters, s.after), seen |-> s.rows]
                   [] page \in 2..(screen.page + 1) -> [walk EXCEPT !.seen = @ \cup s.rows]
                   [] OTHER -> NoWalk
  BY DEF Turn
<1>2. LogInv /\ ClockInv /\ PageSize \in Nat /\ page \in Nat /\ page >= 1 /\ screen.page \in Nat
  BY AuditFeedAssumption DEF FeedInv, PageInv, ScreenInv
<1>3. filters \in Filters /\ screen.after \in Nat /\ screen.after <= after
  BY DEF FeedInv, PageInv, ScreenInv
<1>4. /\ s.view = "log" /\ s.filters = filters /\ s.page = page /\ s.after = after
      /\ after \in 0..MaxTime
      /\ s.rows \subseteq Predicate(filters, after)
      /\ s.pages \in 1..(MaxRows + 1)
      /\ \A r \in Predicate(filters, after) :
           /\ Place(r, Predicate(filters, 0)) >= (page - 1) * PageSize
           /\ r \notin s.rows
           => page < s.pages /\ Place(r, Predicate(filters, 0)) >= page * PageSize
  BY <1>2, <1>3, Listed
<1> HIDE DEF s
<1>5. after \in Nat /\ Predicate(filters, 0) \subseteq log
  BY <1>4 DEF Predicate
<1>6. ASSUME NEW r \in Predicate(filters, after)
      PROVE  r \in Predicate(filters, 0)
  BY <1>2, <1>5, PlaceInRange
<1>7. \A r \in Predicate(filters, 0) : Place(r, Predicate(filters, 0)) \in Nat
  <2> DEFINE T == Predicate(filters, 0)
  <2>1. T \in SUBSET log
    BY <1>5
  <2> HIDE DEF T
  <2>2. /\ Cardinality(T) \in 0..MaxRows
        /\ \A r \in T : Place(r, T) \in 0..(Cardinality(T) - 1)
    BY <1>2, <2>1, NewestPlaces
  <2>3. \A r \in T : Place(r, T) \in Nat
    BY <2>2
  <2> QED
    BY <2>3 DEF T
<1>8. \A f, a : Predicate(f, a)' = Predicate(f, a)
  BY <1>1 DEF Predicate
<1>9. \A range : SelectedAfter(range)' = SelectedAfter(range)
  BY <1>1 DEF SelectedAfter
<1>10. LogInv' /\ ClockInv' /\ Passes
  BY <1>1, <1>2 DEF LogInv, ClockInv, Passes
<1> HIDE DEF after
<1>11. ScreenInv'
  <2>1. s.rows \subseteq Predicate(filters, 0)
    BY <1>4, <1>6
  <2>2. s.filters \in Filters /\ s.page \in 1..(MaxRows + 1) /\ s.pages \in 1..(MaxRows + 1)
        /\ s.after \in Nat /\ s.after <= SelectedAfter(s.filters.range)
    BY <1>3, <1>4, <1>5 DEF after
  <2> QED
    BY <1>1, <1>4, <1>8, <1>9, <2>1, <2>2 DEF ScreenInv
<1>12. ChosenInv'
  BY <1>1, <1>4 DEF FeedInv, PageInv, ChosenInv, OnLog
<1>13. WalkInv'
  <2>1. walk \in [start : SUBSET log, seen : SUBSET log] /\ walk.start \subseteq Predicate(filters, 0)
    BY <1>1 DEF FeedInv, PageInv, WalkInv
  <2>2. s.rows \subseteq log
    BY <1>4, <1>5, <1>6
  <2>3. SUFFICES /\ walk' \in [start : SUBSET log, seen : SUBSET log]
                 /\ walk'.start \subseteq Predicate(filters, 0)
                 /\ \A r \in walk'.start : r.at >= after /\ r \notin walk'.seen =>
                      page < s.pages /\ Place(r, Predicate(filters, 0)) >= page * PageSize
    BY <1>1, <1>4, <1>8 DEF WalkInv, StillToCome
  <2>4. CASE page = 1
    <3>1. walk' = [start |-> Predicate(filters, after), seen |-> s.rows]
      BY <1>1, <1>4, <2>4
    <3>2. \A r \in Predicate(filters, 0) : Place(r, Predicate(filters, 0)) >= (page - 1) * PageSize
      BY <1>2, <1>7, <2>4
    <3> QED
      BY <1>4, <1>5, <1>6, <2>2, <3>1, <3>2
  <2>5. CASE page \in 2..(screen.page + 1)
    <3>1. walk' = [walk EXCEPT !.seen = @ \cup s.rows]
      BY <1>1, <1>2, <2>5
    <3>2. /\ walk' \in [start : SUBSET log, seen : SUBSET log]
          /\ walk'.start = walk.start /\ walk'.seen = walk.seen \cup s.rows
      BY <2>1, <2>2, <3>1
    <3>3. ASSUME NEW r \in walk.start, r.at >= after, r \notin walk.seen, r \notin s.rows
          PROVE  page < s.pages /\ Place(r, Predicate(filters, 0)) >= page * PageSize
      <4>1. r \in Predicate(filters, after) /\ r.at \in Nat
        <5>1. r \in Predicate(filters, 0) /\ r \in log
          BY <1>5, <2>1
        <5>2. r.at \in Nat
          BY <1>2, <5>1, AuditFeedAssumption DEF LogInv, Row
        <5> QED
          BY <3>3, <5>1, <5>2 DEF Predicate
      <4>2. r.at >= screen.after
        BY <1>3, <1>5, <3>3, <4>1
      <4>3. Place(r, Predicate(filters, 0)) >= screen.page * PageSize
        BY <1>1, <3>3, <4>2 DEF FeedInv, PageInv, WalkInv, StillToCome
      <4>4. screen.page * PageSize >= (page - 1) * PageSize
        <5>1. screen.page >= page - 1
          BY <1>2, <2>5
        <5> QED
          BY <1>2, <5>1
      <4>5. Place(r, Predicate(filters, 0)) >= (page - 1) * PageSize
        <5> DEFINE k == Place(r, Predicate(filters, 0))
                   least == screen.page * PageSize
                   before == (page - 1) * PageSize
        <5>1. k \in Nat /\ least \in Int /\ before \in Int
          BY <1>2, <1>6, <1>7, <4>1
        <5> HIDE DEF k, least, before
        <5>2. k >= before
          BY <4>3, <4>4, <5>1 DEF k, least, before
        <5> QED
          BY <5>2 DEF k, before
      <4> QED
        BY <1>4, <3>3, <4>1, <4>5
    <3> QED
      BY <2>1, <3>2, <3>3
  <2>6. CASE page # 1 /\ page \notin 2..(screen.page + 1)
    <3>1. walk' = NoWalk
      BY <1>1, <2>6
    <3> QED
      BY <3>1 DEF NoWalk
  <2> QED
    BY <2>4, <2>5, <2>6
<1> QED
  BY <1>1, <1>10, <1>11, <1>12, <1>13, LoadStays DEF FeedInv, PageInv

(* A view of several statements begins.                                      *)
LEMMA BeginStep ==
  ASSUME FeedInv, NEW kind \in {"analytics", "identity", "subject", "event"}, NEW of,
         NEW range \in {Unset, "recent"},
         kind \in {"identity", "subject"} => of \in Party,
         kind = "event" => of \in log,
         kind # "analytics" => range = Unset,
         Leave, Begin(kind, of, range)
  PROVE  FeedInv' /\ ~OnLog'
<1> DEFINE after == SelectedAfter(range)
           begun == [p \in Parts(kind, of) |-> Statement(kind, of, after, p)]
           read == [p \in {} |-> {}]
<1>1. load' = [kind |-> kind, of |-> of, after |-> after, begun |-> begun, read |-> read]
  BY DEF Begin
<1>2. /\ screen' = NoScreen /\ walk' = NoWalk /\ now' = now /\ log' = log
      /\ chosen' = [status |-> Unset, range |-> Unset]
  BY DEF Leave
<1>3. after \in 0..MaxTime /\ (kind # "analytics" => after = 0)
  <2>1. after \in 0..MaxTime
    BY AfterType DEF FeedInv
  <2> QED
    BY <2>1 DEF SelectedAfter
<1>4. LogInv' /\ ClockInv'
  BY <1>2 DEF FeedInv, LogInv, ClockInv
<1>5. PageInv' /\ ~OnLog'
  <2>1. Unfiltered \in Filters /\ 1 \in 1..(MaxRows + 1)
    BY AuditFeedAssumption DEF Unfiltered, Filters
  <2>2. /\ NoScreen.filters = Unfiltered /\ NoScreen.page = 1 /\ NoScreen.pages = 1
        /\ NoScreen.rows = {} /\ NoScreen.after = 0 /\ NoScreen.view # "log"
    BY DEF NoScreen
  <2>3. SelectedAfter(NoScreen.filters.range)' = 0
    BY <2>2 DEF SelectedAfter, Unfiltered
  <2>4. ScreenInv'
    BY <1>2, <2>1, <2>2, <2>3 DEF ScreenInv
  <2>5. ~OnLog'
    BY <1>2, <2>2 DEF OnLog
  <2>6. WalkInv' /\ ChosenInv'
    BY <1>2, <2>5 DEF WalkInv, ChosenInv, NoWalk
  <2> QED
    BY <2>4, <2>5, <2>6 DEF PageInv
<1>6. LoadInv'
  <2> HIDE DEF after, read
  <2>1. /\ load'.kind = kind /\ load'.of = of /\ load'.after = after
        /\ load'.begun = begun /\ load'.read = read
    BY <1>1
  <2>2. \A p \in Parts(kind, of) : begun[p] = Statement(kind, of, after, p)
    OBVIOUS
  <2>3. DOMAIN begun = Parts(kind, of) /\ DOMAIN read = {}
    BY DEF read
  <2> HIDE DEF begun
  <2>4. \A p : Asked(p)' = Statement(kind, of, after, p)
    BY <1>2, <2>1 DEF Asked, Statement, Predicate
  <2>5. Subject'
    BY <1>2, <1>3, <2>1 DEF Subject
  <2> QED
    BY <1>1, <1>3, <2>1, <2>2, <2>3, <2>4, <2>5 DEF LoadInv, Parts
<1> QED
  BY <1>4, <1>5, <1>6 DEF FeedInv

(* A statement is answered: with what there is now, which is no less than    *)
(* what there was.                                                           *)
LEMMA ReadPartStep ==
  ASSUME FeedInv, NEW part, ReadPart(part)
  PROVE  FeedInv'
<1> DEFINE read == [p \in DOMAIN load.read \cup {part} |->
                      IF p = part THEN Asked(part) ELSE load.read[p]]
<1>1. /\ part \in Parts(load.kind, load.of) \ DOMAIN load.read
      /\ load' = [load EXCEPT !.read = read]
      /\ now' = now /\ log' = log /\ screen' = screen /\ walk' = walk /\ chosen' = chosen
  BY DEF ReadPart, Asked
<1>2. /\ DOMAIN read = DOMAIN load.read \cup {part}
      /\ read[part] = Asked(part)
      /\ \A p \in DOMAIN load.read : p # part /\ read[p] = load.read[p]
  BY <1>1
<1> HIDE DEF read
<1>3. load' = [kind |-> load.kind, of |-> load.of, after |-> load.after,
               begun |-> load.begun, read |-> read]
  BY <1>1 DEF FeedInv, LoadInv
<1>4. /\ load'.kind = load.kind /\ load'.of = load.of /\ load'.after = load.after
      /\ load'.begun = load.begun /\ load'.read = read
  BY <1>3
<1>5. LogInv' /\ ClockInv' /\ Passes
  <2>1. LogInv' /\ ClockInv' /\ now <= now
    BY <1>1 DEF FeedInv, LogInv, ClockInv
  <2> QED
    BY <1>1, <2>1 DEF Passes
<1>6. \A p : Asked(p)' = Asked(p)
  BY <1>1, <1>4 DEF Asked, Statement, Predicate
<1>7. Subject'
  BY <1>1, <1>4 DEF FeedInv, LoadInv, Subject
<1>8. load.begun[part] \subseteq Asked(part)
  BY <1>1 DEF FeedInv, LoadInv
<1>9. LoadInv'
  BY <1>1, <1>2, <1>3, <1>4, <1>6, <1>7, <1>8 DEF FeedInv, LoadInv, Parts
<1> QED
  BY <1>1, <1>5, <1>9, PageStays DEF FeedInv

LEMMA RecordStep ==
  ASSUME FeedInv, NEW row \in Row, RecordEvent(row)
  PROVE  FeedInv' /\ Passes
<1>1. /\ \A r \in log : r.id # row.id
      /\ log' = log \cup {row} /\ UNCHANGED <<now, screen, load, walk, chosen>>
  BY DEF RecordEvent
<1>2. LogInv'
  BY <1>1 DEF FeedInv, LogInv
<1>3. ClockInv' /\ now <= now'
  BY <1>1 DEF FeedInv, ClockInv
<1>4. Passes
  BY <1>1, <1>2, <1>3 DEF Passes
<1> QED
  BY <1>1, <1>2, <1>3, <1>4, PageStays, LoadStays DEF FeedInv

LEMMA TickStep ==
  ASSUME FeedInv, Tick
  PROVE  FeedInv' /\ Passes
<1>1. /\ now < MaxTime /\ now' = now + 1 /\ UNCHANGED <<log, screen, load, walk, chosen>>
  BY DEF Tick
<1>2. ClockInv' /\ now <= now'
  BY <1>1, AuditFeedAssumption DEF FeedInv, ClockInv
<1>3. LogInv'
  BY <1>1 DEF FeedInv, LogInv
<1>4. Passes
  BY <1>1, <1>2, <1>3 DEF Passes
<1> QED
  BY <1>1, <1>2, <1>3, <1>4, PageStays, LoadStays DEF FeedInv

LEMMA IdleStep ==
  ASSUME FeedInv, UNCHANGED feedVars
  PROVE  FeedInv' /\ Passes
<1>1. UNCHANGED <<now, log, screen, load, walk, chosen>>
  BY DEF feedVars
<1>2. ClockInv' /\ LogInv' /\ now <= now'
  BY <1>1 DEF FeedInv, ClockInv, LogInv
<1>3. Passes
  BY <1>1, <1>2 DEF Passes
<1> QED
  BY <1>1, <1>2, <1>3, PageStays, LoadStays DEF FeedInv

-----------------------------------------------------------------------------
(* Links. *)

(* A link sets one key, to what every row behind it says there.              *)
LEMMA ViewAllMatches ==
  ASSUME LogInv, NEW p \in Figures, NEW v, NEW r \in log, r[p] = v, v # None
  PROVE  /\ ViewAll(p, v) \in Filters /\ ViewAll(p, v).range = Unset
         /\ r \in Predicate(ViewAll(p, v), 0)
<1>1. /\ r.at \in Nat /\ r.status \in Status
      /\ r.actor \in Party \cup {None} /\ r.subject \in Party \cup {None}
  BY AuditFeedAssumption DEF LogInv, Row
<1> DEFINE to == ViewAll(p, v)
<1>2. CASE p = "status"
  <2>1. to = [status |-> v, range |-> Unset, actor |-> Unset, subject |-> Unset]
    BY <1>2 DEF ViewAll, Unfiltered
  <2>2. r.status = v
    BY <1>2
  <2> QED
    BY <1>1, <2>1, <2>2 DEF Filters, Predicate
<1>3. CASE p = "actor"
  <2>1. to = [status |-> Unset, range |-> Unset, actor |-> v, subject |-> Unset]
    BY <1>3 DEF ViewAll, Unfiltered
  <2>2. r.actor = v
    BY <1>3
  <2> QED
    BY <1>1, <2>1, <2>2 DEF Filters, Predicate
<1>4. CASE p = "subject"
  <2>1. to = [status |-> Unset, range |-> Unset, actor |-> Unset, subject |-> v]
    BY <1>4 DEF ViewAll, Unfiltered
  <2>2. r.subject = v
    BY <1>4
  <2> QED
    BY <1>1, <2>1, <2>2 DEF Filters, Predicate
<1> QED
  BY <1>2, <1>3, <1>4 DEF Figures

(* What a statement of a card answers bears the key it was asked with.       *)
LEMMA AskedBears ==
  ASSUME LogInv, NEW kind \in {"identity", "subject", "event"}, NEW of, NEW after,
         NEW p \in {"subject", "actor"}, NEW v, v \in Party,
         v = IF kind = "event" THEN of[p] ELSE of,
         NEW r \in Statement(kind, of, after, p)
  PROVE  r \in log /\ r[p] = v
<1>1. Statement(kind, of, after, p) = Predicate([Unfiltered EXCEPT ![p] = v], 0)
  BY DEF Statement
<1>2. v # Unset
  BY AuditFeedAssumption
<1>3. CASE p = "subject"
  <2>1. [Unfiltered EXCEPT ![p] = v].subject = v
    BY <1>3 DEF Unfiltered
  <2> QED
    BY <1>1, <1>2, <1>3, <2>1 DEF Predicate
<1>4. CASE p = "actor"
  <2>1. [Unfiltered EXCEPT ![p] = v].actor = v
    BY <1>4 DEF Unfiltered
  <2> QED
    BY <1>1, <1>2, <1>4, <2>1 DEF Predicate
<1> QED
  BY <1>3, <1>4

LEMMA Leads ==
  ASSUME FeedInv, Loaded, NEW link \in Links, link.rows # {}
  PROVE  /\ link.to \in Filters /\ link.to.range = Unset
         /\ load.kind # "identity" => link.rows \subseteq Predicate(link.to, 0)
<1>1. LogInv /\ LoadInv
  BY DEF FeedInv
<1>2. DOMAIN load.read = Parts(load.kind, load.of)
  BY DEF Loaded
<1>3. \A p \in DOMAIN load.read : load.read[p] \subseteq Asked(p)
  BY <1>1 DEF LoadInv
<1>4. CASE load.kind = "analytics"
  <2>1. PICK p \in Figures, v \in Status \cup Party :
          link = [to |-> ViewAll(p, v), rows |-> {r \in load.read[p] : r[p] = v}]
    BY <1>4 DEF Links
  <2>2. link.to = ViewAll(p, v) /\ link.rows = {r \in load.read[p] : r[p] = v}
    BY <2>1
  <2>3. p \in DOMAIN load.read
    BY <1>2, <1>4 DEF Parts
  <2>4. \A r \in link.rows : r \in log /\ r[p] = v /\ v # None
    BY <1>3, <1>4, <2>2, <2>3 DEF Asked, Statement, Predicate
  <2>5. \A r \in link.rows : /\ ViewAll(p, v) \in Filters /\ ViewAll(p, v).range = Unset
                             /\ r \in Predicate(ViewAll(p, v), 0)
    BY <1>1, <2>4, ViewAllMatches
  <2> QED
    BY <2>2, <2>5
<1>5. CASE load.kind \in {"identity", "subject"}
  <2>1. load.of \in Party /\ "subject" \in Figures
    BY <1>1, <1>5 DEF LoadInv, Subject, Figures
  <2>2. link.to = ViewAll("subject", load.of) /\ (load.kind = "subject" => link.rows = Half("subject"))
    BY <1>5 DEF Links
  <2>3. link.to \in Filters /\ link.to.range = Unset
    BY <2>1, <2>2 DEF ViewAll, Unfiltered, Filters
  <2>4. ASSUME load.kind = "subject", NEW r \in link.rows
        PROVE  r \in Predicate(link.to, 0)
    <3>1. "subject" \in DOMAIN load.read
      BY <1>2, <2>4 DEF Parts
    <3>2. r \in load.read["subject"]
      BY <2>2, <2>4 DEF Half, Slice
    <3>3. r \in Statement("subject", load.of, load.after, "subject")
      BY <1>3, <2>4, <3>1, <3>2 DEF Asked
    <3>4. r \in log /\ r["subject"] = load.of
      BY <1>1, <2>1, <3>3, AskedBears
    <3>5. load.of # None
      BY <2>1, AuditFeedAssumption
    <3> QED
      BY <1>1, <2>1, <2>2, <3>4, <3>5, ViewAllMatches
  <2> QED
    BY <1>5, <2>3, <2>4
<1>6. CASE load.kind = "event"
  <2>1. PICK p \in DOMAIN load.read : link = [to |-> ViewAll(p, load.of[p]), rows |-> Related(p)]
    BY <1>6 DEF Links
  <2>2. link.to = ViewAll(p, load.of[p]) /\ link.rows = Related(p)
    BY <2>1
  <2>3. p \in {"subject", "actor"} /\ p \in Figures /\ load.of[p] # None
    BY <1>2, <1>6 DEF Parts, Figures
  <2>4. load.of \in Row
    BY <1>1, <1>6 DEF LoadInv, Subject, LogInv
  <2>5. load.of[p] \in Party
    BY <2>3, <2>4 DEF Row
  <2>6. ASSUME NEW r \in link.rows PROVE r \in log /\ r[p] = load.of[p]
    <3>1. r \in load.read[p]
      BY <2>2, <2>6 DEF Related, Slice
    <3>2. r \in Statement("event", load.of, load.after, p)
      BY <1>3, <1>6, <2>1, <3>1 DEF Asked
    <3> QED
      BY <1>1, <2>3, <2>5, <3>2, AskedBears
  <2>7. \A r \in link.rows : /\ link.to \in Filters /\ link.to.range = Unset
                             /\ r \in Predicate(link.to, 0)
    BY <1>1, <2>2, <2>3, <2>6, ViewAllMatches
  <2> QED
    BY <2>7
<1>7. load.kind \in {"analytics", "identity", "subject", "event"}
  BY <1>1 DEF LoadInv, Loaded
<1> QED
  BY <1>4, <1>5, <1>6, <1>7

-----------------------------------------------------------------------------
(* A card of two halves. *)

(* A half has the newest of what was read, and all of it or a card full.     *)
LEMMA HalfHas ==
  ASSUME LogInv, NEW p, load.read[p] \in SUBSET log
  PROVE  /\ Half(p) \subseteq load.read[p]
         /\ IsFiniteSet(Half(p)) /\ IsFiniteSet(load.read[p])
         /\ Half(p) = load.read[p] \/ Cardinality(Half(p)) >= CardSize
         /\ \A r \in load.read[p] : r \notin Half(p) =>
              \A x \in Half(p) : x.at >= r.at
<1> DEFINE T == load.read[p]
<1> HIDE DEF T
<1>1. T \in SUBSET log /\ CardSize \in Nat
  BY AuditFeedAssumption DEF T
<1>2. /\ IsFiniteSet(T) /\ Cardinality(T) \in Nat
      /\ \A r \in T : Place(r, T) \in 0..(Cardinality(T) - 1)
  BY <1>1, NewestPlaces
<1>3. Orders(NewerPairs, T) /\ \A r \in T : Place(r, T) = Cardinality(Below(NewerPairs, T, r))
  BY <1>1, NewerOrders
<1>4. Half(p) = {r \in T : Cardinality(Below(NewerPairs, T, r)) < CardSize}
  <2>1. Half(p) = {r \in T : Place(r, T) >= 0 /\ Place(r, T) < 0 + CardSize}
    BY DEF Half, Slice, T
  <2>2. \A r \in T : Place(r, T) \in Nat
    BY <1>2
  <2> QED
    BY <1>1, <1>3, <2>1, <2>2
<1>5. /\ IsFiniteSet(Half(p)) /\ Half(p) \subseteq T
      /\ Half(p) = T \/ Cardinality(Half(p)) >= CardSize
  <2> DEFINE first == Half(p)
  <2>1. first = {r \in T : Cardinality(Below(NewerPairs, T, r)) < CardSize}
    BY <1>4
  <2> HIDE DEF first
  <2>2. IsFiniteSet(first) /\ first \subseteq T /\ (first = T \/ Cardinality(first) >= CardSize)
    BY <1>1, <1>2, <1>3, <2>1, FirstPlaces
  <2> QED
    BY <2>2 DEF first
<1>6. ASSUME NEW r \in T, r \notin Half(p), NEW x \in Half(p)
      PROVE  x.at >= r.at
  <2> DEFINE places(y) == Cardinality(Below(NewerPairs, T, y))
  <2>1. x \in T /\ places(x) < CardSize /\ ~(places(r) < CardSize)
    BY <1>4, <1>6
  <2>2. \A y \in T : places(y) \in Nat
    BY <1>2, <1>3
  <2>3. \A y \in T, z \in T : <<y, z>> \in NewerPairs => places(y) < places(z)
    BY <1>2, <1>3, Places
  <2>4. x # r /\ (<<x, r>> \in NewerPairs \/ <<r, x>> \in NewerPairs)
    BY <1>3, <1>6, <2>1 DEF Orders
  <2>5. <<x, r>> \in NewerPairs
    <3> HIDE DEF places
    <3>1. <<r, x>> \in NewerPairs => places(r) < places(x)
      BY <1>6, <2>1, <2>3
    <3>2. places(r) \in Nat /\ places(x) \in Nat
      BY <1>6, <2>1, <2>2
    <3> QED
      BY <1>1, <2>1, <2>4, <3>1, <3>2
  <2>6. Newer(x, r) /\ x \in log /\ r \in log
    BY <1>1, <1>6, <2>1, <2>5 DEF NewerPairs
  <2>7. x.at \in Nat /\ r.at \in Nat
    BY <2>6, AuditFeedAssumption DEF LogInv, Row
  <2> QED
    BY <2>6, <2>7 DEF Newer
<1> QED
  BY <1>2, <1>5, <1>6 DEF T

BeforePairs(J) == {p \in J \X J : Before(p[1], p[2])}

(* The order in which the halves are joined is an order.                     *)
LEMMA BeforeOrders ==
  ASSUME LogInv, NEW J \in SUBSET log
  PROVE  /\ Orders(BeforePairs(J), J)
         /\ \A x \in J, y \in J : <<x, y>> \in BeforePairs(J) <=> Before(x, y)
<1> DEFINE first == Half("subject")
<1> HIDE DEF first
<1>1. \A x \in J, y \in J : <<x, y>> \in BeforePairs(J) <=> Before(x, y)
  BY DEF BeforePairs
<1>2. \A x \in J : x.id \in Nat /\ x.at \in Nat
  BY AuditFeedAssumption DEF LogInv, Row
<1>3. \A x, y : Before(x, y) <=>
        \/ x.at > y.at
        \/ /\ x.at = y.at
           /\ y \in first => x \in first
           /\ (x \in first /\ y \notin first) \/ x.id > y.id
  BY DEF Before, first
<1>4. \A x \in J : ~Before(x, x)
  BY <1>2, <1>3
<1>5. ASSUME NEW x \in J, NEW y \in J, NEW z \in J, Before(x, y), Before(y, z)
      PROVE  Before(x, z)
  <2>1. /\ x.at > y.at \/ (x.at = y.at /\ (y \in first => x \in first)
                          /\ ((x \in first /\ y \notin first) \/ x.id > y.id))
        /\ y.at > z.at \/ (y.at = z.at /\ (z \in first => y \in first)
                          /\ ((y \in first /\ z \notin first) \/ y.id > z.id))
    BY <1>3, <1>5
  <2>2. x.at > z.at \/ (x.at = z.at /\ (z \in first => x \in first)
                          /\ ((x \in first /\ z \notin first) \/ x.id > z.id))
    BY <1>2, <2>1
  <2> QED
    BY <1>3, <2>2
<1>6. ASSUME NEW x \in J, NEW y \in J, x # y
      PROVE  Before(x, y) \/ Before(y, x)
  <2>1. x.id # y.id
    BY <1>6 DEF LogInv
  <2> QED
    BY <1>2, <1>3, <2>1
<1> QED
  BY <1>1, <1>4, <1>5, <1>6 DEF Orders

LEMMA CardIsWhole ==
  ASSUME FeedInv
  PROVE  CardMissesNothing
<1> SUFFICES ASSUME Loaded, load.kind = "identity"
             PROVE  LET all == load.begun["subject"] \cup load.begun["actor"]
                    IN /\ \A shown \in Merged, r \in all :
                            r.at > shown.at => r \in Merged
                       /\ Cardinality(Merged) >= CardSize \/ Cardinality(Merged) >= Cardinality(all)
                       /\ Cardinality(load.read["subject"]) + Cardinality(load.read["actor"])
                            >= Cardinality(all)
  BY DEF CardMissesNothing
<1> DEFINE S == load.read["subject"]
           A == load.read["actor"]
           HS == Half("subject")
           HA == Half("actor")
           J == HS \cup HA
           all == load.begun["subject"] \cup load.begun["actor"]
           pairs == BeforePairs(J)
           behind(r) == Cardinality(Below(pairs, J, r))
<1>1. LogInv /\ CardSize \in Nat
  BY AuditFeedAssumption DEF FeedInv
<1>2. /\ S \in SUBSET log /\ A \in SUBSET log
      /\ load.begun["subject"] \subseteq S /\ load.begun["actor"] \subseteq A
  <2>1. "subject" \in DOMAIN load.read /\ "actor" \in DOMAIN load.read
    BY DEF Loaded, Parts
  <2>2. \A p \in DOMAIN load.read : load.begun[p] \subseteq load.read[p] /\ load.read[p] \subseteq log
    BY DEF FeedInv, LoadInv, Asked, Statement, Predicate
  <2> QED
    BY <2>1, <2>2
<1>3. /\ HS \subseteq S /\ IsFiniteSet(HS) /\ IsFiniteSet(S)
      /\ HS = S \/ Cardinality(HS) >= CardSize
      /\ \A r \in S : r \notin HS => \A x \in HS : x.at >= r.at
  BY <1>1, <1>2, HalfHas
<1>4. /\ HA \subseteq A /\ IsFiniteSet(HA) /\ IsFiniteSet(A)
      /\ HA = A \/ Cardinality(HA) >= CardSize
      /\ \A r \in A : r \notin HA => \A x \in HA : x.at >= r.at
  BY <1>1, <1>2, HalfHas
<1> HIDE DEF S, A, HS, HA
<1>5. J \in SUBSET log
  BY <1>2, <1>3, <1>4
<1>6. /\ Orders(pairs, J)
      /\ \A x \in J, y \in J : <<x, y>> \in pairs <=> Before(x, y)
  BY <1>1, <1>5, BeforeOrders
<1>7. IsFiniteSet(J) /\ Cardinality(J) \in Nat
  BY <1>3, <1>4, FS_Union, FS_CardinalityType
<1>8. Merged = {r \in J : behind(r) < CardSize}
  <2>1. Merged = {r \in J : Cardinality({x \in J : Before(x, r)}) < CardSize}
    BY DEF Merged, HS, HA
  <2>2. \A r \in J : {x \in J : Before(x, r)} = Below(pairs, J, r)
    BY <1>6 DEF Below
  <2> HIDE DEF J, pairs
  <2> QED
    BY <2>1, <2>2
<1> HIDE DEF J, pairs
<1>9. /\ \A x \in J : IsFiniteSet(Below(pairs, J, x)) /\ behind(x) \in 0..(Cardinality(J) - 1)
      /\ \A x \in J, y \in J : <<x, y>> \in pairs => behind(x) < behind(y)
  BY <1>6, <1>7, Places
<1>10. \A x \in J : behind(x) \in Nat
  BY <1>7, <1>9
<1>11. /\ IsFiniteSet(Merged) /\ Merged \subseteq J
       /\ Merged = J \/ Cardinality(Merged) >= CardSize
  <2> DEFINE first == Merged
  <2>1. first = {r \in J : Cardinality(Below(pairs, J, r)) < CardSize}
    BY <1>8
  <2> HIDE DEF first
  <2>2. /\ IsFiniteSet(first) /\ first \subseteq J
        /\ first = J \/ Cardinality(first) >= CardSize
    BY <1>1, <1>6, <1>7, <2>1, FirstPlaces
  <2> QED
    BY <2>2 DEF first
<1>12. ASSUME NEW shown \in Merged, NEW r \in all, r.at > shown.at
       PROVE  r \in Merged
  <2>1. shown \in J /\ shown \in log /\ r \in log /\ (r \in S \/ r \in A)
    BY <1>2, <1>5, <1>11
  <2>2. \A x \in log : x.at \in Nat
    BY <1>1, AuditFeedAssumption DEF LogInv, Row
  <2>3. behind(shown) < CardSize /\ behind(shown) \in Nat
    BY <1>8, <1>10, <2>1
  <2>4. CASE r \in J
    <3>1. Before(r, shown)
      BY <1>12 DEF Before
    <3>2. behind(r) < behind(shown) /\ behind(r) \in Nat
      BY <1>6, <1>9, <1>10, <2>1, <2>4, <3>1
    <3>3. behind(r) < CardSize
      <4> HIDE DEF behind
      <4> QED
        BY <1>1, <2>3, <3>2
    <3> QED
      BY <1>8, <2>4, <3>3
  <2>5. ASSUME NEW H \in SUBSET J, Cardinality(H) >= CardSize, \A x \in H : x.at >= r.at
        PROVE  FALSE
    <3>1. \A x \in H : x.at > shown.at
      BY <1>5, <1>12, <2>1, <2>2, <2>5
    <3>2. H \subseteq Below(pairs, J, shown)
      BY <1>6, <2>1, <3>1 DEF Below, Before
    <3>3. Cardinality(H) <= behind(shown) /\ IsFiniteSet(H)
      BY <1>9, <2>1, <3>2, FS_Subset
    <3>4. Cardinality(H) \in Nat
      BY <3>3, FS_CardinalityType
    <3> HIDE DEF behind
    <3> QED
      BY <1>1, <2>3, <2>5, <3>3, <3>4
  <2>6. r \in J
    <3>1. HS \in SUBSET J /\ HA \in SUBSET J
      BY DEF J
    <3>2. CASE r \in S /\ r \notin HS
      BY <1>3, <2>5, <3>1, <3>2
    <3>3. CASE r \in A /\ r \notin HA
      BY <1>4, <2>5, <3>1, <3>3
    <3> QED
      BY <2>1, <3>1, <3>2, <3>3
  <2> QED
    BY <2>4, <2>6
<1>13. IsFiniteSet(S \cup A) /\ all \subseteq S \cup A
  BY <1>2, <1>3, <1>4, FS_Union
<1>14. IsFiniteSet(all) /\ Cardinality(all) \in Nat /\ Cardinality(all) <= Cardinality(S \cup A)
  BY <1>13, FS_Subset, FS_CardinalityType
<1>15. Cardinality(Merged) >= CardSize \/ Cardinality(Merged) >= Cardinality(all)
  <2>1. CASE HS = S /\ HA = A
    <3>1. J = S \cup A
      BY <2>1 DEF J
    <3>2. Merged = J => Cardinality(Merged) >= Cardinality(all)
      BY <1>7, <1>14, <3>1
    <3> QED
      BY <1>11, <3>2
  <2>2. ASSUME NEW H \in SUBSET J, Cardinality(H) >= CardSize
        PROVE  Cardinality(J) >= CardSize
    <3>1. Cardinality(H) <= Cardinality(J) /\ Cardinality(H) \in Nat
      BY <1>7, FS_Subset, FS_CardinalityType
    <3> QED
      BY <1>1, <1>7, <2>2, <3>1
  <2>3. CASE ~(HS = S /\ HA = A)
    <3>1. HS \in SUBSET J /\ HA \in SUBSET J
      BY DEF J
    <3>2. Cardinality(J) >= CardSize
      BY <1>3, <1>4, <2>2, <2>3, <3>1
    <3> QED
      BY <1>11, <3>2
  <2> QED
    BY <2>1, <2>3
<1>16. Cardinality(S) + Cardinality(A) >= Cardinality(all)
  <2>1. Cardinality(S \cup A) = Cardinality(S) + Cardinality(A) - Cardinality(S \cap A)
    BY <1>3, <1>4, FS_Union
  <2>2. IsFiniteSet(S \cap A)
    BY <1>3, FS_Subset
  <2>3. /\ Cardinality(S) \in Nat /\ Cardinality(A) \in Nat
        /\ Cardinality(S \cap A) \in Nat /\ Cardinality(S \cup A) \in Nat
    BY <1>3, <1>4, <1>13, <2>2, FS_CardinalityType
  <2> HIDE DEF all
  <2> QED
    BY <1>14, <2>1, <2>3
<1> QED
  BY <1>12, <1>15, <1>16 DEF S, A

-----------------------------------------------------------------------------
(* The invariant is inductive, and a link once followed keeps delivering. *)

LEMMA FeedInitially ==
  ASSUME FeedInit
  PROVE  FeedInv /\ linked = {}
<1>1. LogInv /\ ClockInv /\ linked = {}
  BY AuditFeedAssumption DEF FeedInit, LogInv, ClockInv
<1>2. PageInv
  <2>1. Unfiltered \in Filters /\ 1 \in 1..(MaxRows + 1)
    BY AuditFeedAssumption DEF Unfiltered, Filters
  <2>2. /\ NoScreen.filters = Unfiltered /\ NoScreen.page = 1 /\ NoScreen.pages = 1
        /\ NoScreen.rows = {} /\ NoScreen.after = 0 /\ NoScreen.view # "log"
    BY DEF NoScreen
  <2>3. SelectedAfter(NoScreen.filters.range) = 0
    BY <2>2 DEF SelectedAfter, Unfiltered
  <2>4. ScreenInv
    BY <2>1, <2>2, <2>3 DEF FeedInit, ScreenInv
  <2>5. WalkInv /\ ChosenInv
    BY <2>2 DEF FeedInit, WalkInv, ChosenInv, OnLog, NoWalk
  <2> QED
    BY <2>4, <2>5 DEF PageInv
<1>3. LoadInv
  <2>1. /\ NoLoad = [kind |-> "none", of |-> None, after |-> 0,
                     begun |-> [p \in {} |-> {}], read |-> [p \in {} |-> {}]]
        /\ Parts("none", None) = {} /\ 0 \in 0..MaxTime
    BY AuditFeedAssumption DEF NoLoad, Parts
  <2>2. /\ NoLoad.kind = "none" /\ NoLoad.of = None /\ NoLoad.after = 0
        /\ DOMAIN NoLoad.begun = {} /\ DOMAIN NoLoad.read = {}
    BY <2>1
  <2>3. NoLoad = [kind |-> NoLoad.kind, of |-> NoLoad.of, after |-> NoLoad.after,
                  begun |-> NoLoad.begun, read |-> NoLoad.read]
    BY <2>1
  <2> QED
    BY <2>1, <2>2, <2>3 DEF FeedInit, LoadInv, Subject
<1> QED
  BY <1>1, <1>2, <1>3 DEF FeedInv

(* What a link promised, of the followed ones a person's card aside.         *)
LinkKept == "identity" \notin Followed => LinkDelivers

LEMMA NoLinkKept ==
  ASSUME linked' = {} \/ ~OnLog'
  PROVE  LinkKept'
  BY DEF LinkKept, LinkDelivers

LEMMA OnPageStep ==
  ASSUME FeedInv, LinkKept, OnPage
  PROVE  FeedInv' /\ LinkKept'
<1>1. ScreenInv /\ ChosenInv
  BY DEF FeedInv, PageInv
<1>2. Unfiltered \in Filters /\ Unfiltered.status = Unset /\ Unfiltered.range = Unset
  BY DEF Unfiltered, Filters
<1>3. CASE OpenLog
  <2>1. FeedInv'
    BY <1>2, <1>3, ShowStep DEF OpenLog
  <2> QED
    BY <1>3, <2>1, NoLinkKept DEF OpenLog
<1>4. ASSUME NEW value \in Status \cup {Unset}, ColumnFilter(value)
      PROVE  FeedInv' /\ LinkKept'
  <2> DEFINE f == [screen.filters EXCEPT !.status = value]
  <2>1. /\ OnLog /\ Show(f) /\ chosen' = [chosen EXCEPT !.status = value] /\ linked' = {}
    BY <1>4 DEF ColumnFilter
  <2>2. f \in Filters /\ f.status = value /\ f.range = screen.filters.range
    BY <1>1 DEF ScreenInv, Filters
  <2> HIDE DEF f
  <2>3. /\ chosen' \in [status : Status \cup {Unset}, range : {Unset, "recent"}]
        /\ chosen'.status = f.status /\ chosen'.range = f.range
    BY <1>1, <2>1, <2>2 DEF ChosenInv
  <2>4. FeedInv'
    BY <2>1, <2>2, <2>3, ShowStep
  <2> QED
    BY <2>1, <2>4, NoLinkKept
<1>5. ASSUME NEW range \in {Unset, "recent"}, ToolbarSubmit(range)
      PROVE  FeedInv' /\ LinkKept'
  <2> DEFINE f == ToolbarFields(range)
  <2>1. /\ OnLog /\ Show(f) /\ chosen' = [chosen EXCEPT !.range = range] /\ linked' = {}
    BY <1>5 DEF ToolbarSubmit
  <2>2. f \in Filters /\ f.status = screen.filters.status /\ f.range = range
    BY <1>1 DEF ScreenInv, ToolbarFields, Unfiltered, Filters
  <2> HIDE DEF f
  <2>3. /\ chosen' \in [status : Status \cup {Unset}, range : {Unset, "recent"}]
        /\ chosen'.status = f.status /\ chosen'.range = f.range
    BY <1>1, <2>1, <2>2 DEF ChosenInv
  <2>4. FeedInv'
    BY <2>1, <2>2, <2>3, ShowStep
  <2> QED
    BY <2>1, <2>4, NoLinkKept
<1>6. ASSUME NEW page \in 1..(MaxRows + 1), Turn(page)
      PROVE  FeedInv' /\ LinkKept'
  <2>1. FeedInv'
    BY <1>6, TurnStep
  <2>2. /\ OnLog /\ screen' = ListEvents(screen.filters, page)
        /\ log' = log /\ linked' = linked
    BY <1>6 DEF Turn
  <2>3. screen'.filters = screen.filters
    BY <2>2 DEF ListEvents
  <2>4. LinkKept'
    BY <2>2, <2>3 DEF LinkKept, LinkDelivers, Predicate
  <2> QED
    BY <2>1, <2>4
<1> QED
  BY <1>3, <1>4, <1>5, <1>6 DEF OnPage

LEMMA OnViewsStep ==
  ASSUME FeedInv, LinkKept, OnViews
  PROVE  FeedInv' /\ LinkKept'
<1>1. ASSUME NEW range \in {Unset, "recent"}, OpenAnalytics(range)
      PROVE  FeedInv' /\ LinkKept'
  BY <1>1, BeginStep, NoLinkKept DEF OpenAnalytics
<1>2. ASSUME NEW kind \in {"identity", "subject"}, NEW i \in Party, OpenDetail(kind, i)
      PROVE  FeedInv' /\ LinkKept'
  BY <1>2, BeginStep, NoLinkKept DEF OpenDetail
<1>3. ASSUME NEW row \in log, OpenEvent(row)
      PROVE  FeedInv' /\ LinkKept'
  BY <1>3, BeginStep, NoLinkKept DEF OpenEvent
<1>4. ASSUME NEW part \in Figures, ReadPart(part)
      PROVE  FeedInv' /\ LinkKept'
  <2>1. log' = log /\ screen' = screen /\ linked' = linked
    BY <1>4 DEF ReadPart
  <2>2. LinkKept'
    BY <2>1 DEF LinkKept, LinkDelivers, OnLog, Predicate
  <2> QED
    BY <1>4, <2>2, ReadPartStep
<1>5. CASE FollowOne
  <2>1. PICK link \in Links : Loaded /\ load.kind \in Followed /\ link.rows # {} /\ Follow(link)
    BY <1>5 DEF FollowOne
  <2>2. /\ link.to \in Filters /\ link.to.range = Unset
        /\ load.kind # "identity" => link.rows \subseteq Predicate(link.to, 0)
    BY <2>1, Leads
  <2>3. /\ Show(link.to) /\ linked' = link.rows
        /\ chosen' = [status |-> link.to.status, range |-> Unset]
    BY <2>1 DEF Follow
  <2>4. FeedInv'
    <3>1. link.to.status \in Status \cup {Unset}
      BY <2>2 DEF Filters
    <3> QED
      BY <2>2, <2>3, <3>1, ShowStep
  <2>5. screen'.filters = link.to /\ log' = log
    BY <2>3 DEF Show, ListEvents
  <2>6. LinkKept'
    BY <2>1, <2>2, <2>3, <2>5 DEF LinkKept, LinkDelivers, Predicate
  <2> QED
    BY <2>4, <2>6
<1> QED
  BY <1>1, <1>2, <1>3, <1>4, <1>5 DEF OnViews

LEMMA FeedInductive ==
  ASSUME FeedInv, LinkKept, [FeedNext]_feedVars
  PROVE  FeedInv' /\ LinkKept'
<1>1. ASSUME FeedInv', Passes, screen' = screen, linked' = linked
      PROVE  FeedInv' /\ LinkKept'
  <2>1. \A filters : Predicate(filters, 0) \subseteq Predicate(filters, 0)'
    BY <1>1, Growth
  <2> QED
    BY <1>1, <2>1 DEF LinkKept, LinkDelivers, OnLog
<1>2. CASE Tick
  BY <1>1, <1>2, TickStep DEF Tick
<1>3. ASSUME NEW row \in Row, RecordEvent(row)
      PROVE  FeedInv' /\ LinkKept'
  BY <1>1, <1>3, RecordStep DEF RecordEvent
<1>4. CASE UNCHANGED feedVars
  BY <1>1, <1>4, IdleStep DEF feedVars
<1> QED
  BY <1>2, <1>3, <1>4, OnPageStep, OnViewsStep DEF FeedNext

LEMMA FeedInvariant == FeedSpec => [](FeedInv /\ LinkKept)
<1>1. FeedInit => FeedInv /\ LinkKept
  BY FeedInitially DEF LinkKept, LinkDelivers
<1>2. (FeedInv /\ LinkKept) /\ [FeedNext]_feedVars => (FeedInv /\ LinkKept)'
  BY FeedInductive
<1> QED
  BY <1>1, <1>2, PTL DEF FeedSpec

(* Every variable of the audit trail's views holds a value of its kind.      *)
THEOREM FeedTypeCorrect == FeedSpec => []FeedTypeOK
<1>1. FeedInv => FeedTypeOK
  <2> SUFFICES ASSUME FeedInv PROVE FeedTypeOK
    OBVIOUS
  <2>1. now \in 0..MaxTime /\ log \subseteq Row
    BY DEF FeedInv, ClockInv, LogInv
  <2>2. /\ screen.filters \in Filters
        /\ screen.page \in 1..(MaxRows + 1) /\ screen.pages \in 1..(MaxRows + 1)
        /\ screen.rows \subseteq log
    BY DEF FeedInv, PageInv, ScreenInv, Predicate
  <2>3. walk.start \subseteq log /\ walk.seen \subseteq log
    BY DEF FeedInv, PageInv, WalkInv
  <2>4. load.after \in 0..MaxTime /\ \A p \in DOMAIN load.read : load.read[p] \subseteq log
    BY DEF FeedInv, LoadInv, Asked, Statement, Predicate
  <2> QED
    BY <2>1, <2>2, <2>3, <2>4 DEF FeedTypeOK
<1> QED
  BY <1>1, FeedInvariant, PTL

(* An operator who pages forward to the last page has seen every row there   *)
(* was at page one and that is still in range, whatever the size of a page,  *)
(* however many rows arrive and however far the clock moves: the offset of   *)
(* listEvents never skips a row, because a row not yet seen is never nearer  *)
(* the front than the pages already read.                                    *)
THEOREM WalksMissNothing == FeedSpec => []WalkMissesNothing
<1>1. FeedInv => WalkMissesNothing
  <2> SUFFICES ASSUME FeedInv, OnLog, screen.page >= screen.pages, NEW r \in walk.start,
                      r.at >= screen.after, r \notin walk.seen
               PROVE  FALSE
    BY DEF WalkMissesNothing
  <2>1. screen.page < screen.pages
    BY DEF FeedInv, PageInv, WalkInv, StillToCome
  <2>2. screen.page \in Int /\ screen.pages \in Int
    BY DEF FeedInv, PageInv, ScreenInv
  <2> QED
    BY <2>1, <2>2
<1> QED
  BY <1>1, FeedInvariant, PTL

(* No control of the log's page undoes what another selected: a column's     *)
(* filter and the toolbar's range carry each other along, and so do the page *)
(* links (AuditTable, AuditToolbar, AuditPagination).                        *)
THEOREM SelectionsSurvive == FeedSpec => []SelectionSurvives
<1>1. FeedInv => SelectionSurvives
  <2> SUFFICES ASSUME FeedInv, OnLog
               PROVE  /\ screen.filters.status = chosen.status
                      /\ screen.filters.range = chosen.range
                      /\ \A r \in screen.rows : chosen.status \in {Unset, r.status}
    BY DEF SelectionSurvives
  <2>1. screen.filters.status = chosen.status /\ screen.filters.range = chosen.range
    BY DEF FeedInv, PageInv, ChosenInv
  <2>2. screen.rows \subseteq Predicate(screen.filters, 0)
    BY DEF FeedInv, PageInv, ScreenInv
  <2> QED
    BY <2>1, <2>2 DEF Predicate
<1> QED
  BY <1>1, FeedInvariant, PTL

(* A view made of several statements, answered in any order while the log    *)
(* grows, loses nothing there was as it began: every figure counts it, and a *)
(* person's card, whose two halves are cut off and joined, shows no row      *)
(* without every newer one there was (listEventsForIdentity).                *)
THEOREM ViewsAgreeAlways == FeedSpec => []ViewsAgree
<1>1. FeedInv => ViewsAgree
  <2> SUFFICES ASSUME FeedInv PROVE ViewsAgree
    OBVIOUS
  <2>1. ASSUME NEW p \in DOMAIN load.read
        PROVE  /\ load.begun[p] \subseteq load.read[p]
               /\ \A r \in load.read[p] : r.at >= load.after
    <3>1. /\ load.begun[p] \subseteq load.read[p] /\ load.read[p] \subseteq Asked(p)
          /\ p \in Parts(load.kind, load.of) /\ Subject
          /\ load.kind \in {"none", "analytics", "identity", "subject", "event"}
      BY <2>1 DEF FeedInv, LoadInv
    <3>2. CASE load.kind = "analytics"
      BY <3>1, <3>2 DEF Asked, Statement, Predicate
    <3>3. CASE load.kind \in {"identity", "subject", "event"}
      BY <3>1, <3>3 DEF Asked, Statement, Predicate, Subject
    <3>4. load.kind # "none"
      BY <3>1 DEF Parts
    <3> QED
      BY <3>1, <3>2, <3>3, <3>4
  <2> QED
    BY <2>1, CardIsWhole DEF ViewsAgree, FiguresAgree
<1> QED
  BY <1>1, FeedInvariant, PTL

(* A link an operator follows opens a table that has every row the link      *)
(* stood for, and goes on having them while the log grows.  The card of a    *)
(* person is left out: its one link asks for the rows about the person, and  *)
(* the card shows also what the person did (AuditHistory).                   *)
THEOREM LinksDeliver ==
  ASSUME "identity" \notin Followed
  PROVE  FeedSpec => []LinkDelivers
<1>1. LinkKept => LinkDelivers
  BY DEF LinkKept
<1> QED
  BY <1>1, FeedInvariant, PTL
=============================================================================
