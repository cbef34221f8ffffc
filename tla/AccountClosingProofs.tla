------------------------ MODULE AccountClosingProofs ------------------------
(***************************************************************************)
(* What AccountClosing promises for any people, any number of requests and *)
(* any calls given up: profiles are their subject's own, and nobody who is *)
(* gone leaves one behind or owns anything alone, unless a consent of      *)
(* theirs provisioned it past the removal the closing relies on.           *)
(***************************************************************************)
EXTENDS AccountClosing, TLAPS

(* A request under way is about somebody, and a consent is about whoever     *)
(* sent it.                                                                  *)
CallsHaveSubjects ==
  \A h \in Handler : /\ call[h].step # "idle" => call[h].subject \in Person
                     /\ call[h].kind = "consent" => call[h].as = call[h].subject

LateIsOwn == \A r \in late : r.verb = "POST" => r.email = r.subject

OwnInv == TypeOK /\ CallsHaveSubjects /\ LateIsOwn /\ RowsAreTheirOwn

-----------------------------------------------------------------------------
LEMMA RequestKind ==
  ASSUME OwnInv, NEW h \in Handler, call[h].step # "idle"
  PROVE  /\ Request(call[h]) \in RequestRecord
         /\ Request(call[h]).verb = "POST" => Request(call[h]).email = Request(call[h]).subject
  BY DEF OwnInv, TypeOK, CallRecord, RequestRecord, Request, CallsHaveSubjects

(* What the platform does to profiles on a request that is its sender's own. *)
LEMMA PerformKind ==
  ASSUME OwnInv, NEW r \in RequestRecord, Perform(r),
         r.verb = "POST" => r.email = r.subject
  PROVE  /\ row' \in [Person -> Person \cup {Nobody}]
         /\ \A p \in Person : row'[p] \in {p, Nobody}
         /\ sole' = sole
         /\ crossed' \subseteq Person
<1>c. crossed' \subseteq Person
  <2>1. r.subject \in Person /\ crossed \subseteq Person
    BY DEF RequestRecord, OwnInv, TypeOK
  <2>2. \/ crossed' \subseteq crossed \cup {r.subject}
        \/ crossed' = crossed
        \/ crossed' = crossed \ {r.subject}
    BY DEF Perform
  <2> QED
    BY <2>1, <2>2
<1>1. CASE Verdict(r) = "blocked"
  <2>1. row' = row /\ sole' = sole
    BY <1>1 DEF Perform
  <2> QED
    BY <1>c, <2>1 DEF OwnInv, TypeOK, RowsAreTheirOwn
<1>2. CASE Verdict(r) # "blocked"
  <2>1. r.subject \in Person /\ r.verb \in {"POST", "DELETE"}
    BY DEF RequestRecord
  <2>2. CASE r.verb = "POST"
    <3>1. row' = [row EXCEPT ![r.subject] = r.subject]
      BY <1>2, <2>2 DEF Perform
    <3> QED
      BY <2>1, <3>1 DEF Perform, OwnInv, TypeOK, RowsAreTheirOwn
  <2>3. CASE r.verb = "DELETE"
    <3>1. row' = [row EXCEPT ![r.subject] = Nobody]
      BY <1>2, <2>3 DEF Perform
    <3> QED
      BY <2>1, <3>1 DEF Perform, OwnInv, TypeOK, RowsAreTheirOwn
  <2> QED
    BY <2>1, <2>2, <2>3
<1> QED
  BY <1>c, <1>1, <1>2

LEMMA OwnInitially == Init => OwnInv
  BY ClosingAssumption
  DEF Init, OwnInv, TypeOK, CallsHaveSubjects, LateIsOwn, RowsAreTheirOwn,
      Idle, CallRecord

LEMMA OwnStep == OwnInv /\ [Next]_vars => OwnInv'
<1> SUFFICES ASSUME OwnInv, [Next]_vars PROVE OwnInv'
  OBVIOUS
<1>o. TypeOK /\ CallsHaveSubjects /\ LateIsOwn /\ RowsAreTheirOwn
  BY DEF OwnInv
<1>i. Idle \in CallRecord /\ Idle.step = "idle" /\ Idle.as = Idle.subject
  BY DEF Idle, CallRecord
<1>b. \A k \in {"close", "delete", "consent"}, a, s \in Person \cup {Nobody} :
        /\ Begun(k, a, s) \in CallRecord
        /\ Begun(k, a, s).subject = s /\ Begun(k, a, s).as = a
        /\ Begun(k, a, s).kind = k /\ Begun(k, a, s).step = "begun"
  <2> TAKE k \in {"close", "delete", "consent"}, a, s \in Person \cup {Nobody}
  <2> DEFINE asked == [Idle EXCEPT !.step = "begun", !.kind = k]
  <2>1. asked \in CallRecord /\ asked.kind = k /\ asked.step = "begun"
    BY <1>i DEF CallRecord
  <2>2. Begun(k, a, s) = [asked EXCEPT !.as = a, !.subject = s]
    BY DEF Begun, Idle
  <2> HIDE DEF asked
  <2> QED
    BY <2>1, <2>2 DEF CallRecord
<1>1. ASSUME NEW h \in Handler, DeleteAccount(h)
      PROVE OwnInv'
  <2>1. cookie \in Person \cup {Nobody} /\ cookie \in Person
    BY <1>1, <1>o DEF DeleteAccount, TypeOK
  <2>2. call' = [call EXCEPT ![h] = Begun("close", cookie, cookie)]
    BY <1>1 DEF DeleteAccount
  <2>3. call' \in [Handler -> CallRecord] /\ CallsHaveSubjects'
    BY <1>o, <1>b, <2>1, <2>2 DEF TypeOK, CallsHaveSubjects
  <2> QED
    BY <1>1, <1>o, <2>3 DEF DeleteAccount, OwnInv, TypeOK, LateIsOwn, RowsAreTheirOwn
<1>2. ASSUME NEW h \in Handler, AskToClose(h)
      PROVE OwnInv'
  BY <1>2, <1>o, <1>i
  DEF AskToClose, Step, End, OwnInv, TypeOK, CallRecord, CallsHaveSubjects, LateIsOwn,
      RowsAreTheirOwn
<1>3. ASSUME NEW h \in Handler, NEW p \in Person, DeleteIdentity(h, p)
      PROVE OwnInv'
  <2>1. Nobody \in Person \cup {Nobody} /\ p \in Person
    BY <1>3, <1>o DEF DeleteIdentity, TypeOK
  <2>2. call' = [call EXCEPT ![h] = Begun("delete", Nobody, p)]
    BY <1>3 DEF DeleteIdentity
  <2>b. /\ Begun("delete", Nobody, p) \in CallRecord
        /\ Begun("delete", Nobody, p).subject = p
        /\ Begun("delete", Nobody, p).kind = "delete"
    BY <1>b
  <2>3. call' \in [Handler -> CallRecord] /\ CallsHaveSubjects'
    BY <1>o, <2>b, <2>2 DEF TypeOK, CallsHaveSubjects
  <2> QED
    BY <1>3, <1>o, <2>3 DEF DeleteIdentity, OwnInv, TypeOK, LateIsOwn, RowsAreTheirOwn
<1>4. ASSUME NEW h \in Handler, ListProfile(h)
      PROVE OwnInv'
  BY <1>4, <1>o, <1>i
  DEF ListProfile, Step, End, OwnInv, TypeOK, CallRecord, CallsHaveSubjects, LateIsOwn,
      RowsAreTheirOwn
<1>5. ASSUME NEW h \in Handler, NEW p \in Person, Consent(h, p)
      PROVE OwnInv'
  <2>1. cookie \in Person \cup {Nobody} /\ p \in Person
    BY <1>5, <1>o DEF Consent, TypeOK, SessionOf
  <2>2. call' = [call EXCEPT ![h] = Begun("consent", cookie, p)]
    BY <1>5 DEF Consent
  <2>3. call' \in [Handler -> CallRecord] /\ CallsHaveSubjects'
    BY <1>o, <1>b, <2>1, <2>2, <1>5 DEF TypeOK, CallsHaveSubjects, Consent, SessionOf
  <2> QED
    BY <1>5, <1>o, <2>3 DEF Consent, OwnInv, TypeOK, LateIsOwn, RowsAreTheirOwn
<1>6. ASSUME NEW h \in Handler, EnsureProfile(h)
      PROVE OwnInv'
  BY <1>6, <1>o, <1>i
  DEF EnsureProfile, Step, End, OwnInv, TypeOK, CallRecord, CallsHaveSubjects, LateIsOwn,
      RowsAreTheirOwn
<1>7. ASSUME NEW h \in Handler, Arrive(h)
      PROVE OwnInv'
  <2>1. Perform(Request(call[h])) /\ call[h].step # "idle"
    BY <1>7 DEF Arrive
  <2>2. /\ row' \in [Person -> Person \cup {Nobody}]
        /\ \A p \in Person : row'[p] \in {p, Nobody}
        /\ sole' = sole /\ crossed' \subseteq Person
    BY <2>1, RequestKind, PerformKind
  <2>3. Verdict(Request(call[h])) \in {"ok", "blocked"}
    BY DEF Verdict
  <2>4. /\ call' \in [Handler -> CallRecord]
        /\ CallsHaveSubjects'
    <3> DEFINE c == [call[h] EXCEPT !.step = "answered", !.answer = Verdict(Request(call[h]))]
    <3>1. call' = [call EXCEPT ![h] = c] /\ call \in [Handler -> CallRecord]
      BY <1>7, <1>o DEF Arrive, TypeOK
    <3>2. /\ c \in CallRecord /\ c.subject = call[h].subject /\ c.as = call[h].as
          /\ c.kind = call[h].kind
      BY <2>3, <3>1 DEF CallRecord
    <3> HIDE DEF c
    <3> QED
      BY <1>o, <2>1, <3>1, <3>2 DEF CallsHaveSubjects
  <2> QED
    BY <1>7, <1>o, <2>2, <2>4 DEF Arrive, OwnInv, TypeOK, LateIsOwn, RowsAreTheirOwn
<1>8. ASSUME NEW h \in Handler, Answer(h)
      PROVE OwnInv'
  <2>1. NextOf(call[h]) \in {"idle", "agreed", "accepting"}
    BY DEF NextOf
  <2>2. /\ call' \in [Handler -> CallRecord]
        /\ CallsHaveSubjects'
    BY <1>8, <1>o, <1>i, <2>1
    DEF Answer, Step, End, TypeOK, CallRecord, CallsHaveSubjects, NextOf
  <2> QED
    BY <1>8, <1>o, <2>2 DEF Answer, OwnInv, TypeOK, LateIsOwn, RowsAreTheirOwn
<1>9. ASSUME NEW h \in Handler, GiveUp(h)
      PROVE OwnInv'
  <2>1. late' \in SUBSET RequestRecord /\ LateIsOwn'
    BY <1>9, <1>o, RequestKind DEF GiveUp, TypeOK, LateIsOwn
  <2>2. /\ call' \in [Handler -> CallRecord]
        /\ CallsHaveSubjects'
    BY <1>9, <1>o, <1>i
    DEF GiveUp, Unanswered, Step, End, TypeOK, CallRecord, CallsHaveSubjects
  <2> QED
    BY <1>9, <1>o, <2>1, <2>2 DEF GiveUp, OwnInv, TypeOK, RowsAreTheirOwn
<1>10. ASSUME NEW h \in Handler, DropIdentity(h)
       PROVE OwnInv'
  BY <1>10, <1>o, <1>i
  DEF DropIdentity, End, OwnInv, TypeOK, CallRecord, CallsHaveSubjects, LateIsOwn,
      RowsAreTheirOwn
<1>11. ASSUME NEW h \in Handler, Accept(h)
       PROVE OwnInv'
  BY <1>11, <1>o, <1>i
  DEF Accept, End, OwnInv, TypeOK, CallRecord, CallsHaveSubjects, LateIsOwn,
      RowsAreTheirOwn
<1>12. ASSUME NEW r \in late, ArriveLate(r)
       PROVE OwnInv'
  <2>1. r \in RequestRecord /\ (r.verb = "POST" => r.email = r.subject)
    BY <1>o DEF TypeOK, LateIsOwn
  <2>2. /\ row' \in [Person -> Person \cup {Nobody}]
        /\ \A p \in Person : row'[p] \in {p, Nobody}
        /\ sole' = sole /\ crossed' \subseteq Person
    BY <1>12, <2>1, PerformKind DEF ArriveLate
  <2> QED
    BY <1>12, <1>o, <2>2
    DEF ArriveLate, OwnInv, TypeOK, CallsHaveSubjects, LateIsOwn, RowsAreTheirOwn
<1>13. ASSUME NEW p \in Person, Lives(p)
       PROVE OwnInv'
  BY <1>13, <1>o
  DEF Lives, Register, SignIn, SessionEnds, BecomeOwner, HandOver, OwnInv, TypeOK,
      CallsHaveSubjects, LateIsOwn, RowsAreTheirOwn
<1>14. CASE UNCHANGED vars
  BY <1>14, <1>o DEF vars, OwnInv, TypeOK, CallsHaveSubjects, LateIsOwn, RowsAreTheirOwn
<1> QED
  BY <1>1, <1>2, <1>3, <1>4, <1>5, <1>6, <1>7, <1>8, <1>9, <1>10, <1>11, <1>12, <1>13,
     <1>14 DEF Next, Serves

-----------------------------------------------------------------------------
(* The types, and whose profiles there are, at any time.                     *)
THEOREM OwnInvariant == Spec => []OwnInv
<1> QED
  BY OwnInitially, OwnStep, PTL DEF Spec

(* The type invariant of AccountClosing.                                     *)
THEOREM TypeCorrect == Spec => []TypeOK
<1>1. OwnInv => TypeOK
  BY DEF OwnInv
<1> QED
  BY OwnInvariant, <1>1, PTL

(* A profile is only ever provisioned from its own subject's session,        *)
(* whoever uses the browser that answers the challenge and whatever arrives  *)
(* late.                                                                     *)
THEOREM ProfilesAreTheirOwn == Spec => []RowsAreTheirOwn
<1>1. OwnInv => RowsAreTheirOwn
  BY DEF OwnInv
<1> QED
  BY OwnInvariant, <1>1, PTL

-----------------------------------------------------------------------------
(* Sessions are of people who are here, owners have a profile.               *)
SessionsStand ==
  /\ \A p \in session : identity[p] = "here"
  /\ \A p \in sole : row[p] # Nobody

(* Whoever a profile may yet be provisioned for is here, or was.             *)
ProvisionedWereBorn ==
  /\ \A h \in Handler :
       call[h].kind = "consent" /\ call[h].step # "idle"
         => identity[call[h].subject] # "unborn"
  /\ \A r \in late : r.verb = "POST" => identity[r.subject] # "unborn"

(* A closing past the removal is about somebody without a profile, or with   *)
(* one provisioned since.                                                    *)
AgreedAreRemoved ==
  \A h \in Handler :
    /\ call[h].step = "agreed" => PastRemoval(call[h])
    /\ PastRemoval(call[h]) => row[call[h].subject] = Nobody \/ call[h].subject \in crossed

(* Whoever has a profile has an identity, or the profile was provisioned     *)
(* past its removal.                                                         *)
ProfilesAreOfTheLiving ==
  \A p \in Person : row[p] # Nobody => identity[p] = "here" \/ p \in crossed

RemovalInv ==
  /\ OwnInv /\ SessionsStand /\ ProvisionedWereBorn
  /\ AgreedAreRemoved /\ ProfilesAreOfTheLiving

LEMMA RemovalInitially == Init => RemovalInv
<1> SUFFICES ASSUME Init PROVE RemovalInv
  OBVIOUS
<1>1. OwnInv
  BY OwnInitially
<1>2. \A h \in Handler : call[h].kind = "consent" /\ call[h].step = "idle"
  BY DEF Init, Idle
<1> QED
  BY <1>1, <1>2
  DEF Init, RemovalInv, SessionsStand, ProvisionedWereBorn, AgreedAreRemoved,
      ProfilesAreOfTheLiving, PastRemoval

(* What a request does, whether it is waited for or not: a removal leaves no *)
(* profile, and a profile provisioned past a removal is known for one.       *)
LEMMA PerformKeeps ==
  ASSUME RemovalInv, NEW r \in RequestRecord, Perform(r),
         r.verb = "POST" => r.email = r.subject /\ identity[r.subject] # "unborn",
         UNCHANGED <<identity, session>>
  PROVE  /\ SessionsStand' /\ ProfilesAreOfTheLiving'
         /\ \A h \in Handler : PastRemoval(call[h]) =>
              row'[call[h].subject] = Nobody \/ call[h].subject \in crossed'
         /\ r.verb = "DELETE" /\ Verdict(r) = "ok" => row'[r.subject] = Nobody
<1>1. /\ row \in [Person -> Person \cup {Nobody}] /\ r.subject \in Person
      /\ identity \in [Person -> {"unborn", "here", "gone"}]
      /\ r.verb \in {"POST", "DELETE"} /\ sole' = sole /\ sole \subseteq Person
  BY DEF RemovalInv, OwnInv, TypeOK, RequestRecord, Perform
<1>2. /\ SessionsStand /\ AgreedAreRemoved /\ ProfilesAreOfTheLiving
      /\ \A h \in Handler : PastRemoval(call[h]) => call[h].subject \in Person
  BY DEF RemovalInv, OwnInv, CallsHaveSubjects, PastRemoval
<1>3. CASE r.verb = "POST"
  <2>1. /\ row' = [row EXCEPT ![r.subject] = r.subject] /\ Verdict(r) = "ok"
        /\ crossed' = crossed \cup {p \in {r.subject} :
             \/ identity[p] = "gone"
             \/ \E h \in Handler : call[h].subject = p /\ PastRemoval(call[h])}
    BY <1>3 DEF Perform, Verdict
  <2>2. SessionsStand'
    BY <1>1, <1>2, <2>1, ClosingAssumption DEF SessionsStand
  <2>3. ProfilesAreOfTheLiving'
    BY <1>1, <1>2, <1>3, <2>1 DEF ProfilesAreOfTheLiving
  <2>4. \A h \in Handler : PastRemoval(call[h]) =>
              row'[call[h].subject] = Nobody \/ call[h].subject \in crossed'
    BY <1>1, <1>2, <2>1 DEF AgreedAreRemoved
  <2> QED
    BY <1>3, <2>2, <2>3, <2>4
<1>4. CASE r.verb = "DELETE" /\ r.subject \in sole
  <2>1. row' = row /\ crossed' = crossed /\ Verdict(r) = "blocked"
    BY <1>4 DEF Perform, Verdict
  <2> QED
    BY <1>1, <1>2, <2>1 DEF SessionsStand, ProfilesAreOfTheLiving, AgreedAreRemoved
<1>5. CASE r.verb = "DELETE" /\ r.subject \notin sole
  <2>1. /\ row' = [row EXCEPT ![r.subject] = Nobody] /\ crossed' = crossed \ {r.subject}
    BY <1>5 DEF Perform, Verdict
  <2>2. SessionsStand'
    BY <1>1, <1>2, <1>5, <2>1 DEF SessionsStand
  <2>3. ProfilesAreOfTheLiving'
    BY <1>1, <1>2, <2>1 DEF ProfilesAreOfTheLiving
  <2>4. \A h \in Handler : PastRemoval(call[h]) =>
              row'[call[h].subject] = Nobody \/ call[h].subject \in crossed'
    BY <1>1, <1>2, <2>1 DEF AgreedAreRemoved
  <2> QED
    BY <1>1, <2>1, <2>2, <2>3, <2>4
<1> QED
  BY <1>1, <1>3, <1>4, <1>5

LEMMA RemovalStep == RemovalInv /\ [Next]_vars => RemovalInv'
<1> SUFFICES ASSUME RemovalInv, [Next]_vars PROVE RemovalInv'
  OBVIOUS
<1>own. OwnInv'
  BY OwnStep DEF RemovalInv
<1>o. /\ TypeOK /\ CallsHaveSubjects /\ OwnInv /\ LateIsOwn
      /\ call \in [Handler -> CallRecord]
  BY DEF OwnInv, RemovalInv, TypeOK
<1>r. SessionsStand /\ ProvisionedWereBorn /\ AgreedAreRemoved /\ ProfilesAreOfTheLiving
  BY DEF RemovalInv
<1>i. Idle.step = "idle" /\ Idle.kind = "consent" /\ ~PastRemoval(Idle)
  BY DEF Idle, PastRemoval
<1>b. \A k, a, s : /\ Begun(k, a, s).subject = s /\ Begun(k, a, s).kind = k
                   /\ Begun(k, a, s).step = "begun" /\ ~PastRemoval(Begun(k, a, s))
  BY DEF Begun, Idle, PastRemoval
<1> DEFINE Rest == /\ SessionsStand' /\ ProvisionedWereBorn'
                   /\ AgreedAreRemoved' /\ ProfilesAreOfTheLiving'
<1> SUFFICES Rest
  BY <1>own DEF RemovalInv
(* A request goes on, and is no further past a removal than the rows allow.  *)
<1>0. ASSUME NEW h \in Handler, NEW c, call' = [call EXCEPT ![h] = c],
             UNCHANGED <<identity, session, row, sole, crossed>>,
             c.kind = "consent" /\ c.step # "idle" => identity[c.subject] # "unborn",
             c.step = "agreed" => c.kind # "consent",
             PastRemoval(c) => row[c.subject] = Nobody \/ c.subject \in crossed,
             \A r \in late' : r.verb = "POST" => identity[r.subject] # "unborn"
      PROVE  Rest
  <2>1. \A g \in Handler : call'[g] = IF g = h THEN c ELSE call[g]
    BY <1>o, <1>0
  <2>2. ProvisionedWereBorn' /\ AgreedAreRemoved'
    BY <1>0, <1>r, <2>1 DEF ProvisionedWereBorn, AgreedAreRemoved, PastRemoval
  <2> QED
    BY <1>0, <1>r, <2>2 DEF SessionsStand, ProfilesAreOfTheLiving
<1>e. ASSUME NEW h \in Handler, End(h), UNCHANGED <<identity, session, row, sole, crossed, late>>
      PROVE  Rest
  BY <1>e, <1>0, <1>i, <1>r DEF End, ProvisionedWereBorn
<1>s. ASSUME NEW h \in Handler, NEW s, Step(h, s), s # "answered", call[h].step # "idle",
             s = "agreed" => /\ call[h].kind # "consent"
                             /\ \/ row[call[h].subject] = Nobody
                                \/ call[h].subject \in crossed,
             UNCHANGED <<identity, session, row, sole, crossed>>,
             \A r \in late' : r.verb = "POST" => identity[r.subject] # "unborn"
      PROVE  Rest
  <2> DEFINE c == [call[h] EXCEPT !.step = s]
  <2>1. call' = [call EXCEPT ![h] = c]
    BY <1>s DEF Step
  <2>2. c.kind = call[h].kind /\ c.subject = call[h].subject /\ c.step = s
    BY <1>o DEF CallRecord
  <2> HIDE DEF c
  <2>3. c.kind = "consent" /\ c.step # "idle" => identity[c.subject] # "unborn"
    BY <1>s, <1>r, <2>2 DEF ProvisionedWereBorn
  <2>4. PastRemoval(c) => row[c.subject] = Nobody \/ c.subject \in crossed
    BY <1>s, <2>2 DEF PastRemoval
  <2> QED
    BY <1>0, <1>s, <2>1, <2>2, <2>3, <2>4
<1>l. \A r \in late : r.verb = "POST" => identity[r.subject] # "unborn"
  BY <1>r DEF ProvisionedWereBorn
<1>1. ASSUME NEW h \in Handler, DeleteAccount(h)
      PROVE Rest
  <2> DEFINE c == Begun("close", cookie, cookie)
  <2>1. /\ call' = [call EXCEPT ![h] = c]
        /\ UNCHANGED <<identity, session, row, sole, crossed, late>>
    BY <1>1, <1>r DEF DeleteAccount
  <2>2. c.kind = "close" /\ c.subject = cookie /\ c.step = "begun" /\ ~PastRemoval(c)
    BY <1>b
  <2> HIDE DEF c
  <2> QED
    BY <1>0, <1>l, <2>1, <2>2
<1>2. ASSUME NEW h \in Handler, AskToClose(h)
      PROVE Rest
  <2>1. End(h) \/ Step(h, "asking")
    BY <1>2 DEF AskToClose
  <2> QED
    BY <1>2, <1>e, <1>s, <1>l, <2>1 DEF AskToClose
<1>3. ASSUME NEW h \in Handler, NEW p \in Person, DeleteIdentity(h, p)
      PROVE Rest
  <2> DEFINE c == Begun("delete", Nobody, p)
  <2>1. /\ call' = [call EXCEPT ![h] = c]
        /\ UNCHANGED <<identity, session, row, sole, crossed, late>>
    BY <1>3, <1>r DEF DeleteIdentity
  <2>2. c.kind = "delete" /\ c.subject = p /\ c.step = "begun" /\ ~PastRemoval(c)
    BY <1>b
  <2> HIDE DEF c
  <2> QED
    BY <1>0, <1>l, <2>1, <2>2
<1>4. ASSUME NEW h \in Handler, ListProfile(h)
      PROVE Rest
  <2>1. /\ call[h].kind = "delete" /\ call[h].step = "begun"
        /\ UNCHANGED <<identity, session, row, sole, crossed, late>>
    BY <1>4 DEF ListProfile
  <2>2. \/ End(h)
        \/ Step(h, "asking")
        \/ Step(h, "agreed") /\ row[call[h].subject] = Nobody
    BY <1>4 DEF ListProfile
  <2> QED
    BY <1>e, <1>s, <1>l, <2>1, <2>2
<1>5. ASSUME NEW h \in Handler, NEW p \in Person, Consent(h, p)
      PROVE Rest
  <2> DEFINE c == Begun("consent", cookie, p)
  <2>1. /\ call' = [call EXCEPT ![h] = c]
        /\ UNCHANGED <<identity, session, row, sole, crossed, late>>
        /\ identity[p] # "unborn"
    BY <1>5, <1>r DEF Consent, SessionOf, SessionsStand
  <2>2. c.kind = "consent" /\ c.subject = p /\ c.step = "begun" /\ ~PastRemoval(c)
    BY <1>b
  <2> HIDE DEF c
  <2> QED
    BY <1>0, <1>l, <2>1, <2>2
<1>6. ASSUME NEW h \in Handler, EnsureProfile(h)
      PROVE Rest
  <2>1. Step(h, "asking") \/ Step(h, "accepting")
    BY <1>6 DEF EnsureProfile
  <2> QED
    BY <1>6, <1>s, <1>l, <2>1 DEF EnsureProfile
<1>7. ASSUME NEW h \in Handler, Accept(h)
      PROVE Rest
  BY <1>7, <1>e DEF Accept
<1>8. ASSUME NEW h \in Handler, Arrive(h)
      PROVE Rest
  <2> DEFINE r == Request(call[h])
             c == [call[h] EXCEPT !.step = "answered", !.answer = Verdict(r)]
  <2>1. /\ Perform(r) /\ call[h].step = "asking" /\ UNCHANGED <<identity, session, late>>
        /\ call' = [call EXCEPT ![h] = c]
    BY <1>8 DEF Arrive
  <2>2. /\ r \in RequestRecord /\ (r.verb = "POST" => r.email = r.subject)
        /\ r.subject = call[h].subject
        /\ r.verb = IF call[h].kind = "consent" THEN "POST" ELSE "DELETE"
    BY <1>o, <2>1, RequestKind DEF Request
  <2>3. r.verb = "POST" => identity[r.subject] # "unborn"
    BY <1>r, <2>1, <2>2 DEF ProvisionedWereBorn
  <2>4. /\ SessionsStand' /\ ProfilesAreOfTheLiving'
        /\ \A g \in Handler : PastRemoval(call[g]) =>
             row'[call[g].subject] = Nobody \/ call[g].subject \in crossed'
        /\ r.verb = "DELETE" /\ Verdict(r) = "ok" => row'[r.subject] = Nobody
    <3> HIDE DEF r
    <3> QED
      BY <2>1, <2>2, <2>3, PerformKeeps
  <2>5. /\ c.kind = call[h].kind /\ c.subject = call[h].subject
        /\ c.step = "answered" /\ c.answer = Verdict(r)
    BY <1>o DEF CallRecord
  <2>6. call[h].kind = "consent" => identity'[call[h].subject] # "unborn"
    BY <1>r, <2>1 DEF ProvisionedWereBorn
  <2> HIDE DEF r, c
  <2>7. \A g \in Handler : call'[g] = IF g = h THEN c ELSE call[g]
    BY <1>o, <2>1
  <2>8. ProvisionedWereBorn'
    BY <1>r, <2>1, <2>5, <2>6, <2>7 DEF ProvisionedWereBorn
  <2>9. PastRemoval(c) => row'[c.subject] = Nobody
    BY <2>2, <2>4, <2>5 DEF PastRemoval
  <2>10. AgreedAreRemoved'
    BY <1>r, <2>4, <2>5, <2>7, <2>9 DEF AgreedAreRemoved
  <2> QED
    BY <2>4, <2>8, <2>10
<1>9. ASSUME NEW r \in late, ArriveLate(r)
      PROVE Rest
  <2>1. /\ r \in RequestRecord /\ (r.verb = "POST" => r.email = r.subject)
        /\ late' = late \ {r} /\ UNCHANGED <<identity, session, call>> /\ Perform(r)
    BY <1>9, <1>o DEF ArriveLate, TypeOK, LateIsOwn
  <2>2. /\ SessionsStand' /\ ProfilesAreOfTheLiving'
        /\ \A g \in Handler : PastRemoval(call[g]) =>
             row'[call[g].subject] = Nobody \/ call[g].subject \in crossed'
    BY <1>l, <2>1, PerformKeeps
  <2>3. ProvisionedWereBorn' /\ AgreedAreRemoved'
    BY <1>r, <2>1, <2>2 DEF ProvisionedWereBorn, AgreedAreRemoved
  <2> QED
    BY <2>2, <2>3
<1>10. ASSUME NEW h \in Handler, Answer(h)
       PROVE Rest
  <2>1. /\ call[h].step = "answered"
        /\ UNCHANGED <<identity, session, row, sole, crossed, late>>
        /\ \/ NextOf(call[h]) = "idle" /\ End(h)
           \/ NextOf(call[h]) # "idle" /\ Step(h, NextOf(call[h]))
    BY <1>10 DEF Answer
  <2>2. \/ NextOf(call[h]) \in {"idle", "accepting"}
        \/ NextOf(call[h]) = "agreed" /\ call[h].kind # "consent" /\ call[h].answer = "ok"
    BY DEF NextOf
  <2>3. NextOf(call[h]) = "agreed" =>
          /\ call[h].kind # "consent"
          /\ row[call[h].subject] = Nobody \/ call[h].subject \in crossed
    BY <1>r, <2>1, <2>2 DEF AgreedAreRemoved, PastRemoval
  <2> QED
    BY <1>e, <1>s, <1>l, <2>1, <2>2, <2>3
<1>11. ASSUME NEW h \in Handler, GiveUp(h)
       PROVE Rest
  <2>1. /\ call[h].step \in {"asking", "answered"}
        /\ UNCHANGED <<identity, session, row, sole, crossed>>
        /\ late' = late \/ late' = late \cup {Request(call[h])}
    BY <1>11 DEF GiveUp
  <2>2. Request(call[h]).verb = "POST" => identity[Request(call[h]).subject] # "unborn"
    BY <1>r, <2>1 DEF Request, ProvisionedWereBorn
  <2>3. \A r \in late' : r.verb = "POST" => identity[r.subject] # "unborn"
    BY <1>l, <2>1, <2>2
  <2>4. End(h) \/ Step(h, "accepting")
    BY <1>11 DEF GiveUp, Unanswered
  <2>5. CASE End(h)
    BY <1>0, <1>i, <2>1, <2>3, <2>5 DEF End
  <2>6. CASE Step(h, "accepting")
    BY <1>s, <2>1, <2>3, <2>6
  <2> QED
    BY <2>4, <2>5, <2>6
<1>12. ASSUME NEW h \in Handler, DropIdentity(h)
       PROVE Rest
  <2> DEFINE s == call[h].subject
  <2>1. /\ call[h].step = "agreed" /\ s \in Person
        /\ row[s] = Nobody \/ s \in crossed
        /\ End(h) /\ UNCHANGED <<cookie, row, sole, late, crossed>>
    BY <1>12, <1>o, <1>r DEF DropIdentity, CallsHaveSubjects, AgreedAreRemoved, PastRemoval
  <2>2. CASE identity' = identity /\ session' = session
    BY <1>e, <2>1, <2>2
  <2>3. CASE identity' = [identity EXCEPT ![s] = "gone"] /\ session' = session \ {s}
    <3>1. \A p \in Person : identity'[p] = IF p = s THEN "gone" ELSE identity[p]
      BY <1>o, <2>1, <2>3 DEF TypeOK
    <3>2. SessionsStand'
      BY <1>o, <1>r, <2>1, <2>3, <3>1 DEF SessionsStand, TypeOK
    <3>3. ProfilesAreOfTheLiving'
      BY <1>o, <1>r, <2>1, <3>1 DEF ProfilesAreOfTheLiving
    <3>4. \A g \in Handler : call'[g] = IF g = h THEN Idle ELSE call[g]
      BY <1>o, <2>1 DEF End
    <3>5. ProvisionedWereBorn'
      <4>1. \A g \in Handler : call[g].step # "idle" => call[g].subject \in Person
        BY <1>o DEF CallsHaveSubjects
      <4>2. \A r \in late : r.subject \in Person
        BY <1>o DEF TypeOK, RequestRecord
      <4> QED
        BY <1>i, <1>r, <2>1, <3>1, <3>4, <4>1, <4>2 DEF ProvisionedWereBorn
    <3>6. AgreedAreRemoved'
      BY <1>i, <1>r, <2>1, <3>4 DEF AgreedAreRemoved
    <3> QED
      BY <3>2, <3>3, <3>5, <3>6
  <2> QED
    BY <1>12, <2>2, <2>3 DEF DropIdentity
<1>13. ASSUME NEW p \in Person, Lives(p)
       PROVE Rest
  <2>1. call' = call /\ row' = row /\ late' = late /\ crossed' = crossed
    BY <1>13 DEF Lives, Register, SignIn, SessionEnds, BecomeOwner, HandOver
  <2>2. /\ \A q \in Person : identity[q] = "here" => identity'[q] = "here"
        /\ \A q \in Person : identity[q] # "unborn" => identity'[q] # "unborn"
    BY <1>13, <1>o DEF Lives, Register, SignIn, SessionEnds, BecomeOwner, HandOver, TypeOK
  <2>3. SessionsStand'
    BY <1>13, <1>o, <1>r, <2>2
    DEF Lives, Register, SignIn, SessionEnds, BecomeOwner, HandOver, SessionsStand, TypeOK
  <2>4. AgreedAreRemoved' /\ ProfilesAreOfTheLiving'
    BY <1>r, <2>1, <2>2 DEF AgreedAreRemoved, ProfilesAreOfTheLiving
  <2>5. ProvisionedWereBorn'
    BY <1>r, <1>o, <2>1, <2>2
    DEF ProvisionedWereBorn, CallsHaveSubjects, TypeOK, RequestRecord
  <2> QED
    BY <2>3, <2>4, <2>5
<1>14. CASE UNCHANGED vars
  BY <1>14, <1>r
  DEF vars, SessionsStand, ProvisionedWereBorn, AgreedAreRemoved, ProfilesAreOfTheLiving
<1> QED
  BY <1>1, <1>2, <1>3, <1>4, <1>5, <1>6, <1>7, <1>8, <1>9, <1>10, <1>11, <1>12, <1>13, <1>14
  DEF Next, Serves

(* Nobody who is gone leaves a profile at the platform, whatever is given up *)
(* and arrives late, unless a consent of theirs provisioned it past the      *)
(* removal.                                                                  *)
THEOREM NoProfileIsOrphaned == Spec => []NoOrphanProfile
<1>1. RemovalInv => NoOrphanProfile
  BY DEF RemovalInv, ProfilesAreOfTheLiving, NoOrphanProfile
<1> QED
  BY RemovalInitially, <1>1, RemovalStep, PTL DEF Spec

(* The only owner of an authority keeps the identity to hand it over with,   *)
(* with the same exception.                                                  *)
THEOREM OwnersStayReachable == Spec => []OwnersReachable
<1>1. RemovalInv => OwnersReachable
  BY DEF RemovalInv, OwnInv, TypeOK, SessionsStand, ProfilesAreOfTheLiving, OwnersReachable
<1> QED
  BY RemovalInitially, <1>1, RemovalStep, PTL DEF Spec
=============================================================================
