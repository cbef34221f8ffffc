--------------------------- MODULE AccountClosing ---------------------------
(***************************************************************************)
(* An identity lives in Kratos and its profile at the platform, and only   *)
(* the caller of a deletion knows of both.  The id app closes an account   *)
(* and the console deletes an identity: each asks the platform to remove   *)
(* the profile, and removes the identity if it agreed.  Consent provisions *)
(* the profile.  All three talk to the platform over calls that may be     *)
(* given up and arrive nevertheless.                                       *)
(*                                                                         *)
(* Kratos and the platform are external.  The platform refuses to remove   *)
(* somebody who is the only owner of an organization or a project.  Both   *)
(* apps have a platform configured.                                        *)
(***************************************************************************)
EXTENDS Naturals, FiniteSets

CONSTANTS
  Person, Nobody,
  Handler,    \* requests the two apps serve at the same time
  Late,       \* the methods of a call given up that may arrive nevertheless
  MaxLate     \* bound: calls given up that are on their way at the same time

ASSUME ClosingAssumption ==
  /\ Nobody \notin Person
  /\ MaxLate \in Nat
  /\ Late \subseteq {"POST", "DELETE"}

VARIABLES
  identity,   \* person -> where their identity stands in Kratos
  session,    \* people with a Kratos session that is valid
  cookie,     \* whose session the one browser carries
  row,        \* person -> whose email their profile at the platform carries
  sole,       \* people who are some authority's only owner
  call,       \* handler -> the request it serves
  late,       \* calls given up that are still on their way
  crossed     \* history: people with a profile provisioned after the removal
              \* that a closing of theirs relies on

vars == <<identity, session, cookie, row, sole, call, late, crossed>>

Idle == [step |-> "idle", kind |-> "consent", as |-> Nobody, subject |-> Nobody,
         answer |-> "none"]

Begun(kind, as, subject) ==
  [Idle EXCEPT !.step = "begun", !.kind = kind, !.as = as, !.subject = subject]

End(h) == call' = [call EXCEPT ![h] = Idle]
Step(h, s) == call' = [call EXCEPT ![h].step = s]

(* A closing that has the profile behind it: the identity is all that is     *)
(* left to remove.                                                           *)
PastRemoval(c) ==
  /\ c.kind # "consent"
  /\ c.step = "agreed" \/ (c.step = "answered" /\ c.answer = "ok")

(* Slip: whoever the browser carries stands in for the subject.              *)
AnySession(as, subject) == as \in session

(* The session of the request is valid and is the subject's.                 *)
SessionOf(as, subject) == as \in session /\ as = subject

-----------------------------------------------------------------------------
(* The id app: the account page's deleteAccount. *)

(* The address was typed and the session is fresh.                           *)
DeleteAccount(h) ==
  /\ call[h].step = "idle"
  /\ cookie \in session
  /\ call' = [call EXCEPT ![h] = Begun("close", cookie, cookie)]
  /\ UNCHANGED <<identity, session, cookie, row, sole, late, crossed>>

(* deleteOwnAccount reads the session again before it asks.                  *)
AskToClose(h) ==
  /\ call[h].step = "begun" /\ call[h].kind = "close"
  /\ IF call[h].as \in session THEN Step(h, "asking") ELSE End(h)
  /\ UNCHANGED <<identity, session, cookie, row, sole, late, crossed>>

-----------------------------------------------------------------------------
(* The console: deleteIdentity. *)

DeleteIdentity(h, p) ==
  /\ call[h].step = "idle"
  /\ identity[p] = "here"
  /\ call' = [call EXCEPT ![h] = Begun("delete", Nobody, p)]
  /\ UNCHANGED <<identity, session, cookie, row, sole, late, crossed>>

(* Its removePlatformProfile looks the profile up, and has nothing to remove *)
(* if there is none.                                                         *)
ListProfile(h) ==
  /\ call[h].step = "begun" /\ call[h].kind = "delete"
  /\ \/ Step(h, IF row[call[h].subject] = Nobody THEN "agreed" ELSE "asking")
     \/ End(h)
  /\ UNCHANGED <<identity, session, cookie, row, sole, late, crossed>>

-----------------------------------------------------------------------------
(* Consent, rendered or skipped, for the subject of its challenge: anybody   *)
(* who once signed in here.  A session that is not the subject's has the     *)
(* challenge rejected.                                                       *)

Consent(h, p) ==
  /\ call[h].step = "idle"
  /\ SessionOf(cookie, p)
  /\ call' = [call EXCEPT ![h] = Begun("consent", cookie, p)]
  /\ UNCHANGED <<identity, session, cookie, row, sole, late, crossed>>

(* ensurePlatformProfile, which checks the session for itself.               *)
EnsureProfile(h) ==
  /\ call[h].step = "begun" /\ call[h].kind = "consent"
  /\ Step(h, IF SessionOf(call[h].as, call[h].subject) THEN "asking" ELSE "accepting")
  /\ UNCHANGED <<identity, session, cookie, row, sole, late, crossed>>

(* Hydra is told, whatever became of the profile.                            *)
Accept(h) ==
  /\ call[h].step = "accepting"
  /\ End(h)
  /\ UNCHANGED <<identity, session, cookie, row, sole, late, crossed>>

-----------------------------------------------------------------------------
(* The call to the platform. *)

Request(c) == [verb    |-> IF c.kind = "consent" THEN "POST" ELSE "DELETE",
               subject |-> c.subject,
               email   |-> c.as]

(* What the platform answers, and what it does.                              *)
Verdict(r) == IF r.verb = "DELETE" /\ r.subject \in sole THEN "blocked" ELSE "ok"

Perform(r) ==
  /\ row' = IF Verdict(r) = "blocked" THEN row
            ELSE [row EXCEPT ![r.subject] = IF r.verb = "POST" THEN r.email ELSE Nobody]
  /\ crossed' =
       IF r.verb = "POST"
       THEN crossed \cup {p \in {r.subject} :
              \/ identity[p] = "gone"
              \/ \E h \in Handler : call[h].subject = p /\ PastRemoval(call[h])}
       ELSE IF Verdict(r) = "blocked" THEN crossed ELSE crossed \ {r.subject}
  /\ UNCHANGED sole

Arrive(h) ==
  /\ call[h].step = "asking"
  /\ Perform(Request(call[h]))
  /\ call' = [call EXCEPT ![h] =
                 [@ EXCEPT !.step = "answered", !.answer = Verdict(Request(call[h]))]]
  /\ UNCHANGED <<identity, session, cookie, late>>

ArriveLate(r) ==
  /\ Perform(r)
  /\ late' = late \ {r}
  /\ UNCHANGED <<identity, session, cookie, call>>

(* Slip: a refusal is taken for an answer like any other.                    *)
NextIgnoringRefusal(c) == IF c.kind = "consent" THEN "accepting" ELSE "agreed"

(* What an answer leads to: a refusal ends a closing.                        *)
NextOf(c) ==
  CASE c.kind = "consent" -> "accepting"
    [] c.kind # "consent" /\ c.answer = "ok" -> "agreed"
    [] c.kind # "consent" /\ c.answer # "ok" -> "idle"

Answer(h) ==
  /\ call[h].step = "answered"
  /\ IF NextOf(call[h]) = "idle" THEN End(h) ELSE Step(h, NextOf(call[h]))
  /\ UNCHANGED <<identity, session, cookie, row, sole, late, crossed>>

(* Slip: a call without an answer counts as an identity with no profile.     *)
UnansweredIsAgreed(c) == IF c.kind = "consent" THEN "accepting" ELSE "agreed"

(* Slip: the step is named after the error.                                  *)
UnansweredIsFailed(c) == IF c.kind = "consent" THEN "accepting" ELSE "failed"

(* No answer is a failure, fatal to a closing and to no sign-in.             *)
Unanswered(c) == IF c.kind = "consent" THEN "accepting" ELSE "idle"

(* The call times out or breaks: it never arrived, will arrive yet, or has   *)
(* been answered in vain.                                                    *)
GiveUp(h) ==
  /\ call[h].step \in {"asking", "answered"}
  /\ \/ UNCHANGED late
     \/ /\ call[h].step = "asking" /\ Request(call[h]).verb \in Late
        /\ Cardinality(late) < MaxLate
        /\ late' = late \cup {Request(call[h])}
  /\ IF Unanswered(call[h]) = "idle" THEN End(h) ELSE Step(h, Unanswered(call[h]))
  /\ UNCHANGED <<identity, session, cookie, row, sole, crossed>>

(* The last step of a closing; a failure leaves the identity.  Its sessions  *)
(* go with it.                                                               *)
DropIdentity(h) ==
  /\ call[h].step = "agreed"
  /\ \/ /\ identity' = [identity EXCEPT ![call[h].subject] = "gone"]
        /\ session' = session \ {call[h].subject}
     \/ UNCHANGED <<identity, session>>
  /\ End(h)
  /\ UNCHANGED <<cookie, row, sole, late, crossed>>

-----------------------------------------------------------------------------
(* People and the platform. *)

Register(p) ==
  /\ identity[p] = "unborn"
  /\ identity' = [identity EXCEPT ![p] = "here"]
  /\ UNCHANGED <<session, cookie, row, sole, call, late, crossed>>

SignIn(p) ==
  /\ identity[p] = "here"
  /\ session' = session \cup {p}
  /\ cookie' = p
  /\ UNCHANGED <<identity, row, sole, call, late, crossed>>

(* A session ends: signed out, revoked or expired.                           *)
SessionEnds(p) ==
  /\ session' = session \ {p}
  /\ UNCHANGED <<identity, cookie, row, sole, call, late, crossed>>

BecomeOwner(p) ==
  /\ row[p] # Nobody
  /\ sole' = sole \cup {p}
  /\ UNCHANGED <<identity, session, cookie, row, call, late, crossed>>

HandOver(p) ==
  /\ sole' = sole \ {p}
  /\ UNCHANGED <<identity, session, cookie, row, call, late, crossed>>

Init ==
  /\ identity = [p \in Person |-> "unborn"]
  /\ session = {}
  /\ cookie = Nobody
  /\ row = [p \in Person |-> Nobody]
  /\ sole = {}
  /\ call = [h \in Handler |-> Idle]
  /\ late = {}
  /\ crossed = {}

Serves(h) ==
  \/ DeleteAccount(h) \/ AskToClose(h) \/ ListProfile(h) \/ EnsureProfile(h)
  \/ Arrive(h) \/ Answer(h) \/ GiveUp(h) \/ DropIdentity(h) \/ Accept(h)
  \/ \E p \in Person : DeleteIdentity(h, p) \/ Consent(h, p)

Lives(p) ==
  \/ Register(p) \/ SignIn(p) \/ SessionEnds(p) \/ BecomeOwner(p) \/ HandOver(p)

Next ==
  \/ \E h \in Handler : Serves(h)
  \/ \E r \in late : ArriveLate(r)
  \/ \E p \in Person : Lives(p)

Spec == Init /\ [][Next]_vars

-----------------------------------------------------------------------------
(* Properties. *)

CallRecord ==
  [step : {"idle", "begun", "asking", "answered", "agreed", "accepting"},
   kind : {"close", "delete", "consent"},
   as : Person \cup {Nobody}, subject : Person \cup {Nobody},
   answer : {"none", "ok", "blocked"}]

RequestRecord ==
  [verb : {"POST", "DELETE"}, subject : Person, email : Person \cup {Nobody}]

(* Every variable holds a value of its kind.                                 *)
TypeOK ==
  /\ identity \in [Person -> {"unborn", "here", "gone"}]
  /\ session \subseteq Person
  /\ cookie \in Person \cup {Nobody}
  /\ row \in [Person -> Person \cup {Nobody}]
  /\ sole \subseteq Person
  /\ call \in [Handler -> CallRecord]
  /\ late \subseteq RequestRecord
  /\ crossed \subseteq Person

(* The platform keeps no profile of somebody who is gone: deleteOwnAccount   *)
(* and deleteIdentity remove it first and the identity only if that worked,  *)
(* whatever is given up and arrives late.  One is left only where a consent  *)
(* provisioned it between the two, or after both.                            *)
NoOrphanProfile ==
  \A p \in Person : identity[p] = "gone" => row[p] = Nobody \/ p \in crossed

(* Whoever is an authority's only owner can still sign in to hand it over,   *)
(* unless a profile crossed a removal in that way.                           *)
OwnersReachable == \A p \in sole : identity[p] = "here" \/ p \in crossed

(* A profile is provisioned from its own subject's session, also when        *)
(* several people use the browser that answers the consent challenge.        *)
RowsAreTheirOwn == \A p \in Person : row[p] \in {p, Nobody}
=============================================================================
