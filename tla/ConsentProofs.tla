---------------------------- MODULE ConsentProofs ----------------------------
(***************************************************************************)
(* What Consent promises for any people, applications, challenges and      *)
(* server actions under way at once: tokens speak for the subject Hydra    *)
(* asked about, and the trail agrees with Hydra's decisions.               *)
(***************************************************************************)
EXTENDS Consent, FiniteSetTheorems, TLAPS

(* Claims that are p's own, with a role p had, while active, since then.     *)
Truthful(c, p, history) ==
  /\ c.of = p
  /\ c.since \in 1..Len(history)
  /\ \E i \in c.since..Len(history) : history[i].active /\ history[i].role = c.role

-----------------------------------------------------------------------------
(* Types.                                                                    *)
LEMMA Blanks ==
  /\ NoClaims \in Claims /\ NoGrant \in GrantRecord
  /\ Fresh \in ChallengeRecord /\ Free \in HandlerRecord
<1>1. NoClaims \in Claims
  BY ConsentAssumption DEF NoClaims, Claims, Subject, Aal
<1>2. (CHOOSE c \in Client : TRUE) \in Client /\ (CHOOSE h \in Challenge : TRUE) \in Challenge
  BY ConsentAssumption
<1>3. Fresh \in ChallengeRecord
  BY <1>2 DEF Fresh, ChallengeRecord, Subject
<1>4. Free \in HandlerRecord
  BY <1>1, <1>2 DEF Free, HandlerRecord, Kind
<1>5. NoGrant \in GrantRecord
  BY <1>1 DEF NoGrant, GrantRecord, Aal
<1> QED
  BY <1>1, <1>3, <1>4, <1>5

LEMMA KeptType ==
  ASSUME TypeOK, NEW p \in Person, Len(past[p]) > 0
  PROVE  Kept(p) \in Identity /\ Len(past[p]) \in Nat \ {0}
<1>1. past[p] \in Seq(Identity)
  BY DEF TypeOK
<1>2. Len(past[p]) \in 1..Len(past[p])
  BY <1>1
<1> QED
  BY <1>1, <1>2 DEF Kept

(* Everybody has been somebody, and whoever a challenge is about is.         *)
Begun ==
  /\ \A p \in Person : Len(past[p]) > 0
  /\ \A h \in Challenge : challenge[h].status = "unborn" => grant[h].status = "none"
  /\ \A k \in Handler : handler[k].step # "free" => challenge[handler[k].on].status = "open"
  /\ \A h \in Challenge : challenge[h].shown \/ challenge[h].used => challenge[h].status = "open"
  /\ IsFiniteSet(trail \cup lost)

LEMMA SessionIsSomebody ==
  ASSUME TypeOK, Begun, SignedIn
  PROVE  session.who \in Person /\ Kept(session.who) \in Identity
  BY KeptType DEF SignedIn, TypeOK, Subject, Begun

LEMMA ClaimsType ==
  ASSUME TypeOK, Begun, NEW p \in Person, NEW aal \in Aal, NEW since \in Nat \ {0}
  PROVE  SessionForIdentity(p, aal, since) \in Claims
  BY KeptType DEF Begun, SessionForIdentity, Claims, Subject, Identity

LEMMA EachType ==
  ASSUME TypeOK
  PROVE  /\ \A h \in Challenge : challenge[h] \in ChallengeRecord /\ grant[h] \in GrantRecord
         /\ \A k \in Handler : handler[k] \in HandlerRecord /\ handler[k].on \in Challenge
  BY DEF TypeOK, HandlerRecord

LEMMA OpenSubject ==
  ASSUME TypeOK, NEW h \in Challenge, challenge[h].status = "open"
  PROVE  challenge[h].subject \in Person
  BY DEF TypeOK, ChallengeRecord, Subject

LEMMA RunType ==
  ASSUME TypeOK, NEW k \in Handler, NEW a \in HandlerRecord, Run(k, a)
  PROVE  /\ handler' \in [Handler -> HandlerRecord]
         /\ handler'[k] = a
         /\ \A j \in Handler : j # k => handler'[j] = handler[j]
  BY DEF TypeOK, Run

(* The step of a browser, Hydra or an application keeps the types.           *)
LEMMA OutsideType ==
  ASSUME TypeOK, Begun,
         \/ \E p \in Person : Change(p) \/ \E aal \in Aal : SignIn(p, aal)
         \/ SignOut
         \/ \E h \in Challenge, c \in Client : Ask(h, c)
         \/ UNCHANGED vars
  PROVE  TypeOK' /\ Begun'
<1>1. ASSUME NEW p \in Person, Change(p) PROVE TypeOK' /\ Begun'
  <2>1. PICK next \in Identity : past' = [past EXCEPT ![p] = Append(@, next)]
    BY <1>1 DEF Change, Identity
  <2>2. past[p] \in Seq(Identity)
    BY DEF TypeOK
  <2>3. Append(past[p], next) \in Seq(Identity) /\ Len(Append(past[p], next)) > 0
    BY <2>2
  <2>4. past' \in [Person -> Seq(Identity)] /\ \A q \in Person : Len(past'[q]) > 0
    BY <2>1, <2>3 DEF TypeOK, Begun
  <2> QED
    BY <1>1, <2>4 DEF Change, TypeOK, Begun
<1>2. ASSUME NEW p \in Person, NEW aal \in Aal, SignIn(p, aal) PROVE TypeOK' /\ Begun'
  BY <1>2 DEF SignIn, TypeOK, Begun, Subject
<1>3. CASE SignOut
  BY <1>3 DEF SignOut, TypeOK, Begun, Subject, Aal
<1>4. ASSUME NEW h \in Challenge, NEW c \in Client, Ask(h, c) PROVE TypeOK' /\ Begun'
  <2>1. PICK p \in Subject :
          /\ p # Nobody /\ knew' = p
          /\ challenge' = [challenge EXCEPT ![h] =
               [Fresh EXCEPT !.status = "open", !.client = c, !.subject = p,
                             !.skip = c \in FirstParty \/ <<p, c>> \in remembered]]
    BY <1>4, SessionIsSomebody DEF Ask, TypeOK, Subject
  <2>2. PICK record \in ChallengeRecord :
          /\ challenge' = [challenge EXCEPT ![h] = record]
          /\ record.status = "open" /\ record.subject = p
    <3>1. [Fresh EXCEPT !.status = "open", !.client = c, !.subject = p,
                        !.skip = c \in FirstParty \/ <<p, c>> \in remembered] \in ChallengeRecord
      BY Blanks DEF ChallengeRecord
    <3> QED
      BY <2>1, <3>1, Blanks DEF ChallengeRecord
  <2>3. /\ challenge' \in [Challenge -> ChallengeRecord]
        /\ \A g \in Challenge : challenge'[g] = IF g = h THEN challenge'[h] ELSE challenge[g]
        /\ challenge'[h].status = "open" /\ challenge'[h].subject = p
    BY <2>2 DEF TypeOK
  <2>4. UNCHANGED <<past, session, handler, grant, trail, lost, remembered, profile>>
    BY <1>4 DEF Ask
  <2>5. TypeOK'
    BY <2>1, <2>3, <2>4 DEF TypeOK
  <2>6. \A k \in Handler : handler[k].on \in Challenge
    BY DEF TypeOK, HandlerRecord
  <2>7. Begun'
    <3>1. challenge[h].status = "unborn"
      BY <1>4 DEF Ask
    <3> QED
      BY <3>1, <2>3, <2>4, <2>6 DEF Begun
  <2> QED
    BY <2>5, <2>7
<1>5. CASE UNCHANGED vars
  BY <1>5 DEF vars, TypeOK, Begun
<1> QED
  BY <1>1, <1>2, <1>3, <1>4, <1>5

(* The step of a page or a server action keeps the types.                    *)
LEMMA LoadType ==
  ASSUME TypeOK, Begun, NEW h \in Challenge, Load(h)
  PROVE  TypeOK' /\ Begun'
<1>1. challenge[h].subject \in Person /\ Len(past[challenge[h].subject]) \in Nat \ {0}
  BY OpenSubject, KeptType DEF Load, Begun
<1>2. UNCHANGED <<past, session, knew, grant, trail, lost, remembered, profile>>
  BY DEF Load
<1>3. CASE challenge[h].skip
  <2> DEFINE c == [NoClaims EXCEPT !.since = Len(past[challenge[h].subject])]
             a == [Free EXCEPT !.step = "session", !.on = h, !.kind = "accept", !.claims = c]
  <2>1. PICK k \in Handler : Run(k, a)
    BY <1>3 DEF Load, Free
  <2>2. c \in Claims
    BY <1>1, Blanks DEF Claims
  <2>3. a \in HandlerRecord /\ a.on = h
    BY <2>2, Blanks DEF HandlerRecord, Kind
  <2> HIDE DEF a, c
  <2>4. /\ handler' \in [Handler -> HandlerRecord]
        /\ \A j \in Handler : handler'[j].on = IF j = k THEN h ELSE handler[j].on
        /\ \A j \in Handler : j # k => handler'[j] = handler[j]
    BY <2>1, <2>3, RunType
  <2>5. challenge' = challenge /\ challenge[h].status = "open"
    BY <1>3 DEF Load
  <2>6. TypeOK'
    BY <1>2, <2>4, <2>5 DEF TypeOK
  <2>7. Begun'
    BY <1>2, <2>4, <2>5 DEF Begun
  <2> QED
    BY <2>6, <2>7
<1>4. CASE ~challenge[h].skip
  <2>1. [challenge[h] EXCEPT !.shown = TRUE] \in ChallengeRecord
    BY EachType DEF ChallengeRecord
  <2>2. challenge' = [challenge EXCEPT ![h] = [challenge[h] EXCEPT !.shown = TRUE]]
        /\ handler' = handler /\ challenge[h].status = "open"
    BY <1>4 DEF Load
  <2>3. challenge' \in [Challenge -> ChallengeRecord]
    BY <2>1, <2>2 DEF TypeOK
  <2>4. \A g \in Challenge : /\ challenge'[g].status = challenge[g].status
                             /\ challenge'[g].subject = challenge[g].subject
                             /\ challenge'[g].used = challenge[g].used
                             /\ g # h => challenge'[g] = challenge[g]
    BY <2>2, EachType DEF TypeOK, ChallengeRecord
  <2>5. TypeOK'
    BY <1>2, <2>2, <2>3, <2>4 DEF TypeOK
  <2>6. Begun'
    BY <1>2, <2>2, <2>4, EachType DEF Begun
  <2> QED
    BY <2>5, <2>6
<1> QED
  BY <1>3, <1>4

LEMMA SubmitType ==
  ASSUME TypeOK, Begun, NEW k \in Handler, NEW h \in Challenge, NEW d \in Kind,
         NEW r \in BOOLEAN, Submit(k, h, d, r)
  PROVE  TypeOK' /\ Begun'
<1> DEFINE c == [NoClaims EXCEPT !.since = Len(past[challenge[h].subject])]
           a == [Free EXCEPT !.step = IF d = "accept" THEN "session" ELSE "deciding",
                             !.on = h, !.kind = d, !.form = TRUE,
                             !.remember = r /\ d = "accept", !.claims = c]
<1>1. challenge[h].status = "open" /\ challenge[h].subject \in Person
  BY OpenSubject DEF Submit, Begun
<1>2. Len(past[challenge[h].subject]) \in Nat \ {0}
  BY <1>1, KeptType DEF Begun
<1>3. c \in Claims
  BY <1>2, Blanks DEF Claims
<1>4. a \in HandlerRecord /\ a.on = h
  BY <1>3, Blanks DEF HandlerRecord, Kind
<1>5. Run(k, a) /\ challenge' = [challenge EXCEPT ![h] = [challenge[h] EXCEPT !.sent = @ + 1]]
  BY DEF Submit, Free
<1>6. UNCHANGED <<past, session, knew, grant, trail, lost, remembered, profile>>
  BY DEF Submit
<1> HIDE DEF a, c
<1>7. [challenge[h] EXCEPT !.sent = @ + 1] \in ChallengeRecord
  BY EachType DEF ChallengeRecord
<1>8. challenge' \in [Challenge -> ChallengeRecord]
  BY <1>5, <1>7 DEF TypeOK
<1>9. \A g \in Challenge : /\ challenge'[g].status = challenge[g].status
                           /\ challenge'[g].subject = challenge[g].subject
                           /\ challenge'[g].used = challenge[g].used
                           /\ challenge'[g].shown = challenge[g].shown
  <2> DEFINE e == [challenge[h] EXCEPT !.sent = @ + 1]
  <2>1. /\ e.status = challenge[h].status /\ e.subject = challenge[h].subject
        /\ e.used = challenge[h].used /\ e.shown = challenge[h].shown
    BY EachType DEF ChallengeRecord
  <2>2. challenge' = [challenge EXCEPT ![h] = e]
    BY <1>5
  <2> HIDE DEF e
  <2> QED
    BY <2>1, <2>2 DEF TypeOK
<1>10. /\ handler' \in [Handler -> HandlerRecord]
       /\ \A j \in Handler : handler'[j].on = IF j = k THEN h ELSE handler[j].on
       /\ \A j \in Handler : j # k => handler'[j] = handler[j]
  BY <1>4, <1>5, RunType
<1>11. TypeOK'
  BY <1>6, <1>8, <1>9, <1>10 DEF TypeOK
<1>12. Begun'
  BY <1>1, <1>6, <1>9, <1>10, EachType DEF Begun
<1> QED
  BY <1>11, <1>12

(* Rows, kept or lost, are of their kinds and finitely many.                 *)
RowsKeep ==
  /\ trail' \subseteq Challenge \X {"granted", "denied"} \X Nat
  /\ lost' \subseteq Challenge \X {"granted", "denied", "accept", "deny"} \X Nat
  /\ IsFiniteSet(trail' \cup lost')

(* A server action that writes nothing but rows and where it stands.         *)
LEMMA OwnStepType ==
  ASSUME TypeOK, Begun, NEW k \in Handler, NEW a \in HandlerRecord, Run(k, a),
         a.on = handler[k].on, handler[k].step # "free",
         UNCHANGED <<past, session, knew, challenge, grant, remembered>>,
         RowsKeep,
         profile' \subseteq {<<p, p>> : p \in Person}
  PROVE  TypeOK' /\ Begun'
<1>1. /\ handler' \in [Handler -> HandlerRecord]
      /\ \A j \in Handler : handler'[j].on = handler[j].on
      /\ \A j \in Handler : j # k => handler'[j] = handler[j]
  BY RunType
<1>2. TypeOK'
  BY <1>1 DEF TypeOK, RowsKeep
<1>3. Begun'
  BY <1>1 DEF Begun, RowsKeep
<1> QED
  BY <1>2, <1>3

LEMMA ReadSessionType ==
  ASSUME TypeOK, Begun, NEW k \in Handler, ReadSession(k)
  PROVE  TypeOK' /\ Begun'
<1> DEFINE c == SessionForIdentity(session.who, session.aal, handler[k].claims.since)
           a == [handler[k] EXCEPT !.step = "profile", !.claims = c]
           b == [handler[k] EXCEPT !.step = "deciding", !.kind = "deny"]
<1>1. handler[k] \in HandlerRecord /\ handler[k].claims \in Claims
  BY EachType DEF HandlerRecord
<1>2. b \in HandlerRecord /\ b.on = handler[k].on
  BY <1>1 DEF HandlerRecord, Kind
<1>3. ASSUME IsTheirs(challenge[handler[k].on].subject)
      PROVE  a \in HandlerRecord /\ a.on = handler[k].on
  <2>1. session.who \in Person /\ session.aal \in Aal /\ handler[k].claims.since \in Nat \ {0}
    BY <1>1, <1>3, SessionIsSomebody DEF IsTheirs, TypeOK, Claims
  <2>2. c \in Claims
    BY <2>1, ClaimsType
  <2> QED
    BY <1>1, <2>2 DEF HandlerRecord
<1>4. Run(k, IF IsTheirs(challenge[handler[k].on].subject) THEN a ELSE b)
  BY DEF ReadSession
<1>5. /\ UNCHANGED <<past, session, knew, challenge, grant, trail, lost, remembered, profile>>
      /\ handler[k].step # "free"
  BY DEF ReadSession
<1>6. RowsKeep /\ profile' \subseteq {<<p, p>> : p \in Person}
  BY <1>5 DEF TypeOK, Begun, RowsKeep
<1> HIDE DEF a, b
<1> QED
  BY <1>2, <1>3, <1>4, <1>5, <1>6, OwnStepType

LEMMA ProvisionType ==
  ASSUME TypeOK, Begun, NEW k \in Handler, Provision(k)
  PROVE  TypeOK' /\ Begun'
<1> DEFINE a == [handler[k] EXCEPT !.step = "deciding"]
<1>1. a \in HandlerRecord /\ a.on = handler[k].on
  BY EachType DEF HandlerRecord
<1>2. Run(k, a) /\ handler[k].step # "free"
  BY DEF Provision
<1>3. UNCHANGED <<past, session, knew, challenge, grant, trail, lost, remembered>>
  BY DEF Provision
<1>4. profile' \subseteq {<<p, p>> : p \in Person}
  <2>1. CASE IsTheirs(challenge[handler[k].on].subject)
    <3>1. session.who \in Person /\ challenge[handler[k].on].subject = session.who
      BY <2>1, SessionIsSomebody DEF IsTheirs
    <3>2. profile' = profile \cup {<<session.who, session.who>>}
      BY <2>1, <3>1 DEF Provision
    <3> QED
      BY <3>1, <3>2 DEF TypeOK
  <2>2. CASE ~IsTheirs(challenge[handler[k].on].subject)
    BY <2>2 DEF Provision, TypeOK
  <2> QED
    BY <2>1, <2>2
<1>5. RowsKeep
  BY <1>3 DEF TypeOK, Begun, RowsKeep
<1> HIDE DEF a
<1> QED
  BY <1>1, <1>2, <1>3, <1>4, <1>5, OwnStepType

(* What Hydra took, by kind of decision.                                     *)
Taken(c, kind) == IF kind = "accept" THEN c.accepts ELSE c.rejects

LEMMA TakeFacts ==
  ASSUME TypeOK, Begun, NEW k \in Handler, Take(k)
  PROVE  /\ handler[k] \in HandlerRecord /\ handler[k].step = "deciding"
         /\ handler[k].on \in Challenge /\ challenge[handler[k].on].status = "open"
         /\ challenge' \in [Challenge -> ChallengeRecord]
         /\ \A h \in Challenge : /\ challenge'[h].status = challenge[h].status
                                 /\ challenge'[h].subject = challenge[h].subject
                                 /\ h # handler[k].on => challenge'[h] = challenge[h]
         /\ \A kind \in Kind : Taken(challenge'[handler[k].on], kind)
              = Taken(challenge[handler[k].on], kind)
                + (IF handler[k].kind = kind /\ handler[k].form THEN 1 ELSE 0)
         /\ UNCHANGED <<past, session, knew, grant, trail, remembered, profile>>
<1> DEFINE g == handler[k].on
           b == [challenge[g] EXCEPT
                   !.accepts = IF handler[k].kind = "accept" /\ handler[k].form THEN @ + 1 ELSE @]
           c == [b EXCEPT
                   !.rejects = IF handler[k].kind = "deny" /\ handler[k].form THEN @ + 1 ELSE @]
           first == [challenge EXCEPT ![g] = b]
<1>1. /\ g \in Challenge /\ challenge[g].status = "open" /\ handler[k].step = "deciding"
      /\ challenge[g] \in ChallengeRecord /\ handler[k] \in HandlerRecord
  BY EachType DEF Take, Begun
<1>2. /\ b \in ChallengeRecord /\ b.status = challenge[g].status
      /\ b.subject = challenge[g].subject /\ b.rejects = challenge[g].rejects
      /\ b.accepts = challenge[g].accepts
           + (IF handler[k].kind = "accept" /\ handler[k].form THEN 1 ELSE 0)
  <2> HIDE DEF g
  <2> QED
    BY <1>1 DEF ChallengeRecord
<1>3. /\ c \in ChallengeRecord /\ c.status = b.status
      /\ c.subject = b.subject /\ c.accepts = b.accepts
      /\ c.rejects = b.rejects
           + (IF handler[k].kind = "deny" /\ handler[k].form THEN 1 ELSE 0)
  <2> HIDE DEF b
  <2> QED
    BY <1>2 DEF ChallengeRecord
<1>4. challenge' = [challenge EXCEPT ![g] = c]
  <2>1. first[g] = b /\ [first EXCEPT ![g] = c] = [challenge EXCEPT ![g] = c]
    <3> HIDE DEF b, c
    <3> QED
      BY <1>1 DEF TypeOK
  <2>2. challenge' = [first EXCEPT ![g] = [first[g] EXCEPT
          !.rejects = IF handler[k].kind = "deny" /\ handler[k].form THEN @ + 1 ELSE @]]
    BY DEF Take
  <2> HIDE DEF b, first
  <2>3. challenge' = [first EXCEPT ![g] = c]
    BY <2>1, <2>2
  <2> QED
    BY <2>1, <2>3
<1> HIDE DEF b, c, first
<1>5. challenge' \in [Challenge -> ChallengeRecord] /\ challenge'[g] = c
      /\ \A h \in Challenge : h # g => challenge'[h] = challenge[h]
  <2> HIDE DEF g
  <2> QED
    BY <1>1, <1>2, <1>3, <1>4 DEF TypeOK
<1>6. \A kind \in Kind : Taken(c, kind) = Taken(challenge[g], kind)
        + (IF handler[k].kind = kind /\ handler[k].form THEN 1 ELSE 0)
  <2>1. challenge[g].accepts \in Nat /\ challenge[g].rejects \in Nat
    <3> HIDE DEF g
    <3> QED
      BY <1>1 DEF ChallengeRecord
  <2> HIDE DEF g
  <2> QED
    BY <1>2, <1>3, <2>1 DEF Taken, Kind
<1>7. UNCHANGED <<past, session, knew, grant, trail, remembered, profile>>
  BY DEF Take
<1> HIDE DEF g
<1>8. \A h \in Challenge : /\ challenge'[h].status = challenge[h].status
                           /\ challenge'[h].subject = challenge[h].subject
  BY <1>2, <1>3, <1>5
<1> QED
  BY <1>1, <1>5, <1>6, <1>7, <1>8 DEF g

(* The action that took it goes on, or hears nothing.                        *)
LEMMA TakeType ==
  ASSUME TypeOK, Begun, NEW k \in Handler, Take(k), NEW a \in HandlerRecord, Run(k, a),
         a.step # "free" => a.on = handler[k].on, RowsKeep
  PROVE  TypeOK' /\ Begun'
<1>1. /\ handler' \in [Handler -> HandlerRecord]
      /\ handler'[k] = a
      /\ \A j \in Handler : j # k => handler'[j] = handler[j]
  BY RunType
<1>2. TypeOK'
  <2>1. challenge' \in [Challenge -> ChallengeRecord]
    BY TakeFacts
  <2>2. \A h \in Challenge : (challenge'[h].status = "open") = (challenge'[h].subject # Nobody)
    BY TakeFacts DEF TypeOK
  <2>3. UNCHANGED <<past, session, knew, grant, remembered, profile>>
    BY DEF Take
  <2> QED
    BY <1>1, <2>1, <2>2, <2>3 DEF TypeOK, RowsKeep
<1>3. Begun'
  <2>1. \A h \in Challenge : challenge'[h].status = challenge[h].status
    BY TakeFacts
  <2>2. \A h \in Challenge : challenge'[h].shown \/ challenge'[h].used => challenge[h].status = "open"
    BY TakeFacts DEF Begun
  <2>3. \A j \in Handler : handler'[j].step # "free" => challenge[handler'[j].on].status = "open"
                                                        /\ handler'[j].on \in Challenge
    BY <1>1, TakeFacts, EachType DEF Begun
  <2>4. past' = past /\ grant' = grant
    BY DEF Take
  <2>5. IsFiniteSet(trail' \cup lost')
    BY DEF RowsKeep
  <2>6. \A p \in Person : Len(past'[p]) > 0
    BY <2>4 DEF Begun
  <2>7. \A h \in Challenge : challenge'[h].status = "unborn" => grant'[h].status = "none"
    BY <2>1, <2>4 DEF Begun
  <2> QED
    BY <2>1, <2>2, <2>3, <2>5, <2>6, <2>7 DEF Begun
<1> QED
  BY <1>2, <1>3

LEMMA DecideType ==
  ASSUME TypeOK, Begun, NEW k \in Handler, Decide(k)
  PROVE  TypeOK' /\ Begun'
<1> DEFINE a == [handler[k] EXCEPT !.step = IF handler[k].form THEN "recording" ELSE "redirecting"]
<1>1. Take(k) /\ Run(k, a) /\ lost' = lost
  BY DEF Decide
<1>2. a \in HandlerRecord /\ a.on = handler[k].on
  BY EachType DEF HandlerRecord
<1>3. RowsKeep
  BY <1>1, TakeFacts DEF TypeOK, Begun, RowsKeep
<1> HIDE DEF a
<1> QED
  BY <1>1, <1>2, <1>3, TakeType

(* What is counted, and what a new entry is.                                 *)
LEMMA ToldType ==
  ASSUME Begun, NEW h, NEW what
  PROVE  Told(h, what) \in Nat
<1>1. IsFiniteSet({row \in trail \cup lost : row[1] = h /\ row[2] = what})
  BY FS_Subset DEF Begun
<1> QED
  BY <1>1, FS_CardinalityType DEF Told

LEMMA EntryType ==
  ASSUME Begun, NEW h \in Challenge, NEW what
  PROVE  Entry(h, what) \in Challenge \X {what} \X Nat
<1>1. Told(h, what) + 1 \in Nat
  BY ToldType
<1> QED
  BY <1>1 DEF Entry

LEMMA DecideUnheardType ==
  ASSUME TypeOK, Begun, NEW k \in Handler, DecideUnheard(k)
  PROVE  TypeOK' /\ Begun'
<1> DEFINE row == Entry(handler[k].on, handler[k].kind)
<1>1. /\ Take(k) /\ Run(k, Free)
      /\ lost' = IF handler[k].form THEN lost \cup {row} ELSE lost
  BY DEF DecideUnheard
<1>2. row \in Challenge \X {"accept", "deny"} \X Nat
  <2>1. handler[k].kind \in {"accept", "deny"} /\ handler[k].on \in Challenge
    BY EachType DEF HandlerRecord, Kind
  <2> QED
    BY <2>1, EntryType
<1> HIDE DEF row
<1>3. trail' = trail /\ lost' \in {lost, lost \cup {row}}
  BY <1>1, TakeFacts
<1>4. IsFiniteSet(trail' \cup lost')
  <2>1. trail' \cup lost' \in {trail \cup lost, (trail \cup lost) \cup {row}}
    BY <1>3
  <2> QED
    BY <2>1, FS_AddElement DEF Begun
<1>5. RowsKeep
  BY <1>2, <1>3, <1>4 DEF TypeOK, RowsKeep
<1>6. Free.step = "free"
  BY DEF Free
<1> QED
  BY <1>1, <1>5, <1>6, Blanks, TakeType

LEMMA GiveUpType ==
  ASSUME TypeOK, Begun, NEW k \in Handler, GiveUp(k)
  PROVE  TypeOK' /\ Begun'
<1>1. /\ handler' \in [Handler -> HandlerRecord]
      /\ handler'[k] = Free
      /\ \A j \in Handler : j # k => handler'[j] = handler[j]
  BY Blanks, RunType DEF GiveUp
<1>2. UNCHANGED <<past, session, knew, challenge, grant, trail, lost, remembered, profile>>
  BY DEF GiveUp
<1>3. Free.step = "free"
  BY DEF Free
<1>4. TypeOK'
  BY <1>1, <1>2 DEF TypeOK
<1>5. Begun'
  BY <1>1, <1>2, <1>3 DEF Begun
<1> QED
  BY <1>4, <1>5

LEMMA RecordType ==
  ASSUME TypeOK, Begun, NEW k \in Handler, Record(k)
  PROVE  TypeOK' /\ Begun'
<1> DEFINE a == [handler[k] EXCEPT !.step = "redirecting"]
           row == Entry(handler[k].on, IF handler[k].kind = "accept" THEN "granted" ELSE "denied")
<1>1. a \in HandlerRecord /\ a.on = handler[k].on /\ handler[k].on \in Challenge
  BY EachType DEF HandlerRecord
<1>2. row \in Challenge \X {"granted", "denied"} \X Nat
  <2>1. \A v \in {"granted", "denied"} :
          Entry(handler[k].on, v) \in Challenge \X {"granted", "denied"} \X Nat
    BY <1>1, EntryType
  <2> QED
    BY <2>1
<1>3. /\ Run(k, a) /\ handler[k].step # "free"
      /\ \/ trail' = trail \cup {row} /\ lost' = lost
         \/ lost' = lost \cup {row} /\ trail' = trail
  BY DEF Record
<1> HIDE DEF a, row
<1>4. IsFiniteSet(trail' \cup lost')
  <2>1. trail' \cup lost' = (trail \cup lost) \cup {row}
    BY <1>3
  <2> QED
    BY <2>1, FS_AddElement DEF Begun
<1>5. UNCHANGED <<past, session, knew, challenge, grant, remembered, profile>>
  BY DEF Record
<1>6. RowsKeep /\ profile' \subseteq {<<p, p>> : p \in Person}
  BY <1>2, <1>3, <1>4, <1>5 DEF TypeOK, RowsKeep
<1> QED
  BY <1>1, <1>3, <1>5, <1>6, OwnStepType

(* What Hydra makes of a redirect it is the first to see.                    *)
Granted(a) == [NoGrant EXCEPT !.status = "code", !.form = a.form, !.aal = a.claims.aal,
                              !.token = a.claims]

LEMMA GrantedType ==
  ASSUME NEW a \in HandlerRecord
  PROVE  /\ Granted(a) \in GrantRecord
         /\ Granted(a).status = "code" /\ Granted(a).form = a.form
         /\ Granted(a).aal = a.claims.aal /\ Granted(a).token = a.claims
<1>1. a.claims \in Claims /\ a.form \in BOOLEAN /\ a.claims.aal \in Aal
  BY DEF HandlerRecord, Claims
<1> QED
  BY <1>1, Blanks DEF Granted, GrantRecord

LEMMA FollowType ==
  ASSUME TypeOK, Begun, NEW k \in Handler, Follow(k)
  PROVE  TypeOK' /\ Begun'
<1> DEFINE g == handler[k].on
           c == [challenge[g] EXCEPT !.used = TRUE]
<1>1. g \in Challenge /\ challenge[g].status = "open" /\ handler[k] \in HandlerRecord
  BY EachType DEF Follow, Begun
<1>2. c \in ChallengeRecord /\ c.status = "open" /\ c.subject = challenge[g].subject
      /\ c.shown = challenge[g].shown /\ c.client = challenge[g].client
  <2>1. challenge[g] \in ChallengeRecord
    BY <1>1, EachType
  <2> HIDE DEF g
  <2> QED
    BY <1>1, <2>1 DEF ChallengeRecord
<1>3. UNCHANGED <<past, session, knew, trail, lost, profile>>
  BY DEF Follow
<1>4. /\ handler' \in [Handler -> HandlerRecord]
      /\ handler'[k] = Free /\ Free.step = "free"
      /\ \A j \in Handler : j # k => handler'[j] = handler[j]
  BY Blanks, RunType DEF Follow, Free
<1>5. CASE challenge[g].used
  <2>1. UNCHANGED <<challenge, grant, remembered>>
    BY <1>5 DEF Follow
  <2>2. TypeOK'
    BY <1>3, <1>4, <2>1 DEF TypeOK
  <2>3. Begun'
    BY <1>3, <1>4, <2>1 DEF Begun
  <2> QED
    BY <2>2, <2>3
<1>6. CASE ~challenge[g].used
  <2>1. /\ challenge' = [challenge EXCEPT ![g] = c]
        /\ grant' = IF handler[k].kind = "deny" THEN grant
                    ELSE [grant EXCEPT ![g] = Granted(handler[k])]
        /\ remembered' = IF handler[k].remember
             THEN remembered \cup {<<challenge[g].subject, challenge[g].client>>} ELSE remembered
    BY <1>6 DEF Follow, Granted
  <2>2. challenge[g].subject \in Person /\ challenge[g].client \in Client
    BY <1>1, OpenSubject, EachType DEF ChallengeRecord
  <2>3. Granted(handler[k]) \in GrantRecord
    BY <1>1, GrantedType
  <2> HIDE DEF c, g
  <2>4. challenge' \in [Challenge -> ChallengeRecord] /\ grant' \in [Challenge -> GrantRecord]
    BY <1>1, <1>2, <2>1, <2>3 DEF TypeOK
  <2>5. \A h \in Challenge : /\ challenge'[h].status = challenge[h].status
                             /\ challenge'[h].subject = challenge[h].subject
                             /\ h # g => challenge'[h] = challenge[h] /\ grant'[h] = grant[h]
    BY <1>1, <1>2, <2>1 DEF TypeOK
  <2>6. remembered' \subseteq Person \X Client
    BY <2>1, <2>2 DEF TypeOK
  <2>7. TypeOK'
    BY <1>3, <1>4, <2>4, <2>5, <2>6 DEF TypeOK
  <2>8. Begun'
    BY <1>1, <1>3, <1>4, <2>5, EachType DEF Begun
  <2> QED
    BY <2>7, <2>8
<1> QED
  BY <1>5, <1>6

(* A step of an application or of Hydra about one grant, and a revocation.   *)
LEMMA GrantStepType ==
  ASSUME TypeOK, Begun, NEW h \in Challenge, NEW g \in GrantRecord,
         grant' = [grant EXCEPT ![h] = g], grant[h].status # "none",
         UNCHANGED <<past, session, knew, challenge, handler, trail, lost, remembered, profile>>
  PROVE  TypeOK' /\ Begun'
<1>1. /\ grant' \in [Challenge -> GrantRecord]
      /\ \A i \in Challenge : i # h => grant'[i] = grant[i]
  BY DEF TypeOK
<1>2. TypeOK'
  BY <1>1 DEF TypeOK
<1>3. Begun'
  BY <1>1 DEF Begun
<1> QED
  BY <1>2, <1>3

-----------------------------------------------------------------------------
(* Truth.                                                                    *)
HandlerTrue(a, p, history) ==
  /\ a.step \in {"session", "profile"} => a.kind = "accept"
  /\ a.kind = "accept" => a.claims.since \in 1..Len(history)
  /\ a.kind = "accept" /\ a.step # "session" => Truthful(a.claims, p, history)

GrantTrue(g, p, history) ==
  /\ g.status # "ended" => Truthful(g.token, p, history) /\ g.token.aal = g.aal
  /\ g.status = "asking" => g.next.since \in 1..Len(history)
  /\ g.status = "issuing" => Truthful(g.next, p, history) /\ g.next.aal = g.aal

(* What a server action under way, and what a grant, has established.        *)
Truth ==
  /\ \A k \in Handler : handler[k].step # "free" =>
       HandlerTrue(handler[k], challenge[handler[k].on].subject, past[challenge[handler[k].on].subject])
  /\ \A h \in Challenge : grant[h].status # "none" =>
       GrantTrue(grant[h], challenge[h].subject, past[challenge[h].subject])

(* Histories only grow, and what is true of one stays so.                    *)
Extends(history, later) ==
  /\ Len(history) <= Len(later)
  /\ \A i \in 1..Len(history) : later[i] = history[i]

LEMMA TruthLasts ==
  ASSUME NEW history \in Seq(Identity), NEW later \in Seq(Identity), Extends(history, later),
         NEW p
  PROVE  /\ \A c : Truthful(c, p, history) => Truthful(c, p, later)
         /\ \A a : HandlerTrue(a, p, history) => HandlerTrue(a, p, later)
         /\ \A g : GrantTrue(g, p, history) => GrantTrue(g, p, later)
<1>1. Len(history) \in Nat /\ Len(later) \in Nat /\ Len(history) <= Len(later)
  BY DEF Extends
<1>2. ASSUME NEW c, Truthful(c, p, history) PROVE Truthful(c, p, later)
  <2>1. PICK i \in c.since..Len(history) : history[i].active /\ history[i].role = c.role
    BY <1>2 DEF Truthful
  <2>2. c.since \in 1..Len(history)
    BY <1>2 DEF Truthful
  <2>3. later[i] = history[i] /\ i \in c.since..Len(later)
    BY <1>1, <2>1, <2>2 DEF Extends
  <2> QED
    BY <1>1, <1>2, <2>1, <2>2, <2>3 DEF Truthful
<1>3. \A n : n \in 1..Len(history) => n \in 1..Len(later)
  BY <1>1
<1> QED
  BY <1>2, <1>3 DEF HandlerTrue, GrantTrue

LEMMA Carry ==
  ASSUME TypeOK, Begun, Truth, past' \in [Person -> Seq(Identity)],
         \A p \in Person : Extends(past[p], past'[p]),
         \A h \in Challenge : challenge[h].status = "open" => challenge'[h].subject = challenge[h].subject
  PROVE  /\ \A k \in Handler : handler'[k] = handler[k] /\ handler[k].step # "free" =>
              HandlerTrue(handler'[k], challenge'[handler[k].on].subject, past'[challenge'[handler[k].on].subject])
         /\ \A h \in Challenge : grant'[h] = grant[h] /\ grant[h].status # "none" =>
              GrantTrue(grant'[h], challenge'[h].subject, past'[challenge'[h].subject])
<1>1. ASSUME NEW h \in Challenge, challenge[h].status = "open"
      PROVE  /\ challenge[h].subject \in Person /\ challenge'[h].subject = challenge[h].subject
             /\ past[challenge[h].subject] \in Seq(Identity) /\ past'[challenge[h].subject] \in Seq(Identity)
             /\ Extends(past[challenge[h].subject], past'[challenge[h].subject])
  BY <1>1, OpenSubject DEF TypeOK
<1>2. ASSUME NEW k \in Handler, handler'[k] = handler[k], handler[k].step # "free"
      PROVE  HandlerTrue(handler'[k], challenge'[handler[k].on].subject, past'[challenge'[handler[k].on].subject])
  <2>1. handler[k].on \in Challenge /\ challenge[handler[k].on].status = "open"
    BY <1>2, EachType DEF Begun
  <2>2. HandlerTrue(handler[k], challenge[handler[k].on].subject, past[challenge[handler[k].on].subject])
    BY <1>2 DEF Truth
  <2>3. PICK p \in Person :
          /\ p = challenge[handler[k].on].subject /\ p = challenge'[handler[k].on].subject
          /\ past[p] \in Seq(Identity) /\ past'[p] \in Seq(Identity)
          /\ Extends(past[p], past'[p])
    BY <1>1, <2>1
  <2>4. HandlerTrue(handler[k], p, past[p]) => HandlerTrue(handler[k], p, past'[p])
    BY <2>3, TruthLasts
  <2> QED
    BY <1>2, <2>2, <2>3, <2>4
<1>3. ASSUME NEW h \in Challenge, grant'[h] = grant[h], grant[h].status # "none"
      PROVE  GrantTrue(grant'[h], challenge'[h].subject, past'[challenge'[h].subject])
  <2>1. challenge[h].status = "open"
    <3>1. challenge[h].status \in {"unborn", "open"}
      BY EachType DEF ChallengeRecord
    <3> QED
      BY <1>3, <3>1 DEF Begun
  <2>2. GrantTrue(grant[h], challenge[h].subject, past[challenge[h].subject])
    BY <1>3 DEF Truth
  <2>3. PICK p \in Person :
          /\ p = challenge[h].subject /\ p = challenge'[h].subject
          /\ past[p] \in Seq(Identity) /\ past'[p] \in Seq(Identity)
          /\ Extends(past[p], past'[p])
    BY <1>1, <2>1
  <2>4. GrantTrue(grant[h], p, past[p]) => GrantTrue(grant[h], p, past'[p])
    BY <2>3, TruthLasts
  <2> QED
    BY <1>3, <2>2, <2>3, <2>4
<1> QED
  BY <1>2, <1>3

LEMMA Same == \A history \in Seq(Identity) : Extends(history, history)
  BY DEF Extends

(* The claims the program states are true of the identity it read.           *)
LEMMA StatedTruly ==
  ASSUME TypeOK, Begun, NEW p \in Person, Kept(p).active, NEW aal,
         NEW since \in 1..Len(past[p])
  PROVE  /\ Truthful(SessionForIdentity(p, aal, since), p, past[p])
         /\ SessionForIdentity(p, aal, since).aal = aal
         /\ SessionForIdentity(p, aal, since).since = since
<1>1. Len(past[p]) \in Nat \ {0}
  BY KeptType DEF Begun
<1>2. Len(past[p]) \in since..Len(past[p])
  BY <1>1
<1> QED
  BY <1>1, <1>2 DEF Truthful, SessionForIdentity, Kept

(* One server action takes a step, and nothing else says anything new.       *)
LEMMA OneActionTrue ==
  ASSUME TypeOK, Begun, Truth, NEW k \in Handler, NEW a \in HandlerRecord, Run(k, a),
         UNCHANGED <<past, grant>>,
         \A h \in Challenge : challenge[h].status = "open" => challenge'[h].subject = challenge[h].subject,
         a.step # "free" => /\ challenge[a.on].status = "open"
                            /\ HandlerTrue(a, challenge[a.on].subject, past[challenge[a.on].subject])
  PROVE  Truth'
<1>1. handler'[k] = a /\ \A j \in Handler : j # k => handler'[j] = handler[j]
  BY RunType
<1>2. past' \in [Person -> Seq(Identity)] /\ \A p \in Person : Extends(past[p], past'[p])
  BY Same DEF TypeOK
<1>3. ASSUME NEW j \in Handler, handler'[j].step # "free"
      PROVE  HandlerTrue(handler'[j], challenge'[handler'[j].on].subject, past'[challenge'[handler'[j].on].subject])
  <2>1. CASE j = k
    <3>1. a.on \in Challenge
      BY DEF HandlerRecord
    <3> QED
      BY <1>1, <1>3, <2>1, <3>1
  <2>2. CASE j # k
    BY <1>1, <1>2, <1>3, <2>2, Carry
  <2> QED
    BY <2>1, <2>2
<1>4. \A h \in Challenge : grant'[h].status # "none" =>
        GrantTrue(grant'[h], challenge'[h].subject, past'[challenge'[h].subject])
  BY <1>2, Carry
<1> QED
  BY <1>3, <1>4 DEF Truth

(* The same of one grant.                                                    *)
LEMMA OneGrantTrue ==
  ASSUME TypeOK, Begun, Truth, NEW h \in Challenge, NEW g,
         grant' = [grant EXCEPT ![h] = g],
         UNCHANGED past,
         \A i \in Challenge : challenge[i].status = "open" => challenge'[i].subject = challenge[i].subject,
         challenge[h].status = "open",
         \A k \in Handler : handler'[k].step # "free" => handler'[k] = handler[k],
         GrantTrue(g, challenge[h].subject, past[challenge[h].subject])
  PROVE  Truth'
<1>1. grant'[h] = g /\ \A i \in Challenge : i # h => grant'[i] = grant[i]
  BY DEF TypeOK
<1>2. past' \in [Person -> Seq(Identity)] /\ \A p \in Person : Extends(past[p], past'[p])
  BY Same DEF TypeOK
<1>3. \A j \in Handler : handler'[j].step # "free" =>
        HandlerTrue(handler'[j], challenge'[handler'[j].on].subject, past'[challenge'[handler'[j].on].subject])
  BY <1>2, Carry
<1>4. ASSUME NEW i \in Challenge, grant'[i].status # "none"
      PROVE  GrantTrue(grant'[i], challenge'[i].subject, past'[challenge'[i].subject])
  <2>1. CASE i = h
    BY <1>1, <2>1
  <2>2. CASE i # h
    BY <1>1, <1>2, <1>4, <2>2, Carry
  <2> QED
    BY <2>1, <2>2
<1> QED
  BY <1>3, <1>4 DEF Truth

(* Nobody says anything new.                                                 *)
LEMMA QuietTrue ==
  ASSUME TypeOK, Begun, Truth, past' \in [Person -> Seq(Identity)],
         \A p \in Person : Extends(past[p], past'[p]),
         \A h \in Challenge : challenge[h].status = "open" =>
           challenge'[h].subject = challenge[h].subject,
         \A k \in Handler : handler'[k].step # "free" => handler'[k] = handler[k],
         \A h \in Challenge : grant'[h].status # "none" => grant'[h] = grant[h]
  PROVE  Truth'
<1>1. \A k \in Handler : handler'[k].step # "free" => HandlerTrue(handler'[k],
        challenge'[handler'[k].on].subject, past'[challenge'[handler'[k].on].subject])
  BY Carry
<1>2. \A h \in Challenge : grant'[h].status # "none" =>
        GrantTrue(grant'[h], challenge'[h].subject, past'[challenge'[h].subject])
  BY Carry
<1> QED
  BY <1>1, <1>2 DEF Truth

LEMMA OutsideTrue ==
  ASSUME TypeOK, Begun, Truth,
         \/ \E p \in Person : Change(p) \/ \E aal \in Aal : SignIn(p, aal)
         \/ SignOut
         \/ \E h \in Challenge, c \in Client : Ask(h, c)
         \/ UNCHANGED vars
  PROVE  Truth'
<1>1. ASSUME NEW p \in Person, Change(p) PROVE Truth'
  <2>1. PICK next \in Identity : past' = [past EXCEPT ![p] = Append(@, next)]
    BY <1>1 DEF Change, Identity
  <2>2. past[p] \in Seq(Identity)
    BY DEF TypeOK
  <2>3. Append(past[p], next) \in Seq(Identity) /\ Extends(past[p], Append(past[p], next))
    BY <2>2 DEF Extends
  <2>4. \A q \in Person : past'[q] = IF q = p THEN Append(past[p], next) ELSE past[q]
    BY <2>1 DEF TypeOK
  <2>5. past' \in [Person -> Seq(Identity)]
    BY <2>1, <2>3 DEF TypeOK
  <2>6. \A q \in Person : Extends(past[q], past'[q])
    BY <2>3, <2>4, Same DEF TypeOK
  <2>7. UNCHANGED <<challenge, handler, grant>>
    BY <1>1 DEF Change
  <2> QED
    BY <2>5, <2>6, <2>7, QuietTrue
<1> DEFINE Still == past' \in [Person -> Seq(Identity)] /\ \A p \in Person : Extends(past[p], past'[p])
<1>2. past' = past => Still
  BY Same DEF TypeOK
<1>3. ASSUME NEW p \in Person, NEW aal \in Aal, SignIn(p, aal) PROVE Truth'
  BY <1>2, <1>3, QuietTrue DEF SignIn
<1>4. CASE SignOut
  BY <1>2, <1>4, QuietTrue DEF SignOut
<1>5. ASSUME NEW h \in Challenge, NEW c \in Client, Ask(h, c) PROVE Truth'
  <2>1. \A g \in Challenge : g # h => challenge'[g] = challenge[g]
    <3>1. PICK record : challenge' = [challenge EXCEPT ![h] = record]
      BY <1>5 DEF Ask
    <3> QED
      BY <3>1 DEF TypeOK
  <2>2. challenge[h].status = "unborn" /\ UNCHANGED <<past, handler, grant>>
    BY <1>5 DEF Ask
  <2> QED
    BY <1>2, <2>1, <2>2, QuietTrue
<1>6. CASE UNCHANGED vars
  BY <1>2, <1>6, QuietTrue DEF vars
<1> QED
  BY <1>1, <1>3, <1>4, <1>5, <1>6

LEMMA LoadTrue ==
  ASSUME TypeOK, Begun, Truth, NEW h \in Challenge, Load(h)
  PROVE  Truth'
<1>1. challenge[h].subject \in Person /\ Len(past[challenge[h].subject]) \in Nat \ {0}
  BY OpenSubject, KeptType DEF Load, Begun
<1>2. past' = past /\ grant' = grant
  BY DEF Load
<1>3. CASE challenge[h].skip
  <2> DEFINE c == [NoClaims EXCEPT !.since = Len(past[challenge[h].subject])]
             a == [Free EXCEPT !.step = "session", !.on = h, !.kind = "accept", !.claims = c]
  <2>1. PICK k \in Handler : Run(k, a)
    BY <1>3 DEF Load, Free
  <2>2. c \in Claims /\ c.since = Len(past[challenge[h].subject])
    BY <1>1, Blanks DEF Claims
  <2>3. a \in HandlerRecord /\ a.on = h /\ a.step = "session" /\ a.kind = "accept" /\ a.claims = c
    BY <2>2, Blanks DEF HandlerRecord, Kind
  <2> HIDE DEF a, c
  <2>4. HandlerTrue(a, challenge[h].subject, past[challenge[h].subject])
    BY <1>1, <2>2, <2>3 DEF HandlerTrue
  <2>5. challenge' = challenge /\ challenge[h].status = "open"
    BY <1>3 DEF Load
  <2> QED
    BY <1>2, <2>1, <2>3, <2>4, <2>5, OneActionTrue
<1>4. CASE ~challenge[h].skip
  <2>1. handler' = handler
        /\ challenge' = [challenge EXCEPT ![h] = [challenge[h] EXCEPT !.shown = TRUE]]
    BY <1>4 DEF Load
  <2>2. \A g \in Challenge : challenge'[g].subject = challenge[g].subject
    BY <2>1, EachType DEF TypeOK, ChallengeRecord
  <2>3. past' \in [Person -> Seq(Identity)] /\ \A p \in Person : Extends(past[p], past'[p])
    BY <1>2, Same DEF TypeOK
  <2> QED
    BY <1>2, <2>1, <2>2, <2>3, QuietTrue
<1> QED
  BY <1>3, <1>4

LEMMA SubmitTrue ==
  ASSUME TypeOK, Begun, Truth, NEW k \in Handler, NEW h \in Challenge, NEW d \in Kind,
         NEW r \in BOOLEAN, Submit(k, h, d, r)
  PROVE  Truth'
<1> DEFINE c == [NoClaims EXCEPT !.since = Len(past[challenge[h].subject])]
           a == [Free EXCEPT !.step = IF d = "accept" THEN "session" ELSE "deciding",
                             !.on = h, !.kind = d, !.form = TRUE,
                             !.remember = r /\ d = "accept", !.claims = c]
<1>1. challenge[h].status = "open" /\ challenge[h].subject \in Person
  BY OpenSubject DEF Submit, Begun
<1>2. Len(past[challenge[h].subject]) \in Nat \ {0}
  BY <1>1, KeptType DEF Begun
<1>3. c \in Claims /\ c.since = Len(past[challenge[h].subject])
  BY <1>2, Blanks DEF Claims
<1>4. /\ a \in HandlerRecord /\ a.on = h /\ a.kind = d /\ a.claims = c
      /\ a.step = IF d = "accept" THEN "session" ELSE "deciding"
  BY <1>3, Blanks DEF HandlerRecord, Kind
<1>5. Run(k, a) /\ challenge' = [challenge EXCEPT ![h] = [challenge[h] EXCEPT !.sent = @ + 1]]
  BY DEF Submit, Free
<1>6. past' = past /\ grant' = grant
  BY DEF Submit
<1> HIDE DEF a, c
<1>7. \A g \in Challenge : challenge'[g].subject = challenge[g].subject
  BY <1>5, EachType DEF TypeOK, ChallengeRecord
<1>8. HandlerTrue(a, challenge[h].subject, past[challenge[h].subject])
  BY <1>2, <1>3, <1>4 DEF HandlerTrue, Kind
<1> QED
  BY <1>1, <1>4, <1>5, <1>6, <1>7, <1>8, OneActionTrue

LEMMA ReadSessionTrue ==
  ASSUME TypeOK, Begun, Truth, NEW k \in Handler, ReadSession(k)
  PROVE  Truth'
<1> DEFINE p == challenge[handler[k].on].subject
           c == SessionForIdentity(session.who, session.aal, handler[k].claims.since)
           a == [handler[k] EXCEPT !.step = "profile", !.claims = c]
           b == [handler[k] EXCEPT !.step = "deciding", !.kind = "deny"]
<1>1. /\ handler[k] \in HandlerRecord /\ handler[k].step = "session"
      /\ handler[k].claims \in Claims /\ handler[k].on \in Challenge
  BY EachType DEF ReadSession, HandlerRecord
<1>2. challenge[handler[k].on].status = "open"
  BY <1>1 DEF Begun
<1>3. HandlerTrue(handler[k], p, past[p])
  BY <1>1 DEF Truth
<1>4. handler[k].kind = "accept" /\ handler[k].claims.since \in 1..Len(past[p])
  BY <1>1, <1>3 DEF HandlerTrue
<1>5. UNCHANGED <<past, grant, challenge>>
  BY DEF ReadSession
<1>6. Run(k, IF IsTheirs(p) THEN a ELSE b)
  BY DEF ReadSession
<1>7. CASE IsTheirs(p)
  <2>1. session.who = p /\ p \in Person /\ Kept(p).active /\ session.aal \in Aal
    BY <1>7, SessionIsSomebody DEF IsTheirs, SignedIn, TypeOK
  <2>2. c \in Claims
    <3>1. handler[k].claims.since \in Nat \ {0}
      BY <1>1 DEF Claims
    <3> QED
      BY <2>1, <3>1, ClaimsType
  <2>3. Truthful(c, p, past[p]) /\ c.since \in 1..Len(past[p])
    BY <1>4, <2>1, StatedTruly
  <2> HIDE DEF p, c
  <2>4. /\ a \in HandlerRecord /\ a.on = handler[k].on /\ a.step = "profile"
        /\ a.kind = "accept" /\ a.claims = c
    BY <1>1, <1>4, <2>2 DEF HandlerRecord
  <2> HIDE DEF a
  <2>5. HandlerTrue(a, p, past[p])
    BY <2>3, <2>4 DEF HandlerTrue
  <2>6. Run(k, a)
    BY <1>6, <1>7
  <2> QED
    BY <1>2, <1>5, <2>4, <2>5, <2>6, OneActionTrue DEF p
<1>8. CASE ~IsTheirs(p)
  <2>1. /\ b \in HandlerRecord /\ b.on = handler[k].on
        /\ b.step = "deciding" /\ b.kind = "deny"
    BY <1>1 DEF HandlerRecord, Kind
  <2> HIDE DEF b
  <2>2. HandlerTrue(b, p, past[p])
    BY <2>1 DEF HandlerTrue
  <2>3. Run(k, b)
    BY <1>6, <1>8
  <2> QED
    BY <1>2, <1>5, <2>1, <2>2, <2>3, OneActionTrue
<1> QED
  BY <1>7, <1>8

(* Past the reading of the session, an action says what it said.             *)
LEMMA SaysTheSame ==
  ASSUME TypeOK, Begun, Truth, NEW k \in Handler, handler[k].step # "free",
         NEW step \in {"deciding", "recording", "redirecting"},
         handler[k].step # "session",
         Run(k, [handler[k] EXCEPT !.step = step]),
         UNCHANGED <<past, grant>>,
         \A h \in Challenge : challenge[h].status = "open" =>
           challenge'[h].subject = challenge[h].subject
  PROVE  Truth'
<1> DEFINE a == [handler[k] EXCEPT !.step = step]
           p == challenge[handler[k].on].subject
<1>1. /\ handler[k] \in HandlerRecord /\ handler[k].on \in Challenge
      /\ challenge[handler[k].on].status = "open"
  BY EachType DEF Begun
<1>2. /\ a \in HandlerRecord /\ a.on = handler[k].on /\ a.kind = handler[k].kind
      /\ a.claims = handler[k].claims /\ a.step = step
  BY <1>1 DEF HandlerRecord
<1>3. HandlerTrue(handler[k], p, past[p])
  BY DEF Truth
<1> HIDE DEF a, p
<1>4. HandlerTrue(a, p, past[p])
  BY <1>2, <1>3 DEF HandlerTrue
<1> QED
  BY <1>1, <1>2, <1>4, OneActionTrue DEF a, p

LEMMA LaterStepsTrue ==
  ASSUME TypeOK, Begun, Truth, NEW k \in Handler, Provision(k) \/ Record(k) \/ GiveUp(k)
  PROVE  Truth'
<1>1. CASE Provision(k)
  <2>1. Run(k, [handler[k] EXCEPT !.step = "deciding"]) /\ handler[k].step = "profile"
    BY <1>1 DEF Provision
  <2>2. UNCHANGED <<past, grant, challenge>>
    BY <1>1 DEF Provision
  <2> QED
    BY <2>1, <2>2, SaysTheSame
<1>2. CASE Record(k)
  <2>1. Run(k, [handler[k] EXCEPT !.step = "redirecting"]) /\ handler[k].step = "recording"
    BY <1>2 DEF Record
  <2>2. UNCHANGED <<past, grant, challenge>>
    BY <1>2 DEF Record
  <2> QED
    BY <2>1, <2>2, SaysTheSame
<1>3. CASE GiveUp(k)
  <2>1. Run(k, Free) /\ Free.step = "free" /\ UNCHANGED <<past, grant, challenge>>
    BY <1>3 DEF GiveUp, Free
  <2> QED
    BY <2>1, Blanks, OneActionTrue
<1> QED
  BY <1>1, <1>2, <1>3

LEMMA DecideTrue ==
  ASSUME TypeOK, Begun, Truth, NEW k \in Handler, Decide(k) \/ DecideUnheard(k)
  PROVE  Truth'
<1>1. Take(k)
  BY DEF Decide, DecideUnheard
<1>2. /\ handler[k].step = "deciding" /\ UNCHANGED <<past, grant>>
      /\ \A h \in Challenge : challenge'[h].subject = challenge[h].subject
  BY <1>1, TakeFacts
<1>3. CASE Decide(k)
  <2>1. PICK step \in {"recording", "redirecting"} : Run(k, [handler[k] EXCEPT !.step = step])
    BY <1>3 DEF Decide
  <2> QED
    BY <1>2, <2>1, SaysTheSame
<1>4. CASE DecideUnheard(k)
  <2>1. Run(k, Free) /\ Free.step = "free"
    BY <1>4 DEF DecideUnheard, Free
  <2> QED
    BY <1>2, <2>1, Blanks, OneActionTrue
<1> QED
  BY <1>3, <1>4

LEMMA FollowTrue ==
  ASSUME TypeOK, Begun, Truth, NEW k \in Handler, Follow(k)
  PROVE  Truth'
<1> DEFINE g == handler[k].on
           a == handler[k]
           p == challenge[g].subject
<1>1. /\ g \in Challenge /\ challenge[g].status = "open"
      /\ a \in HandlerRecord /\ a.step = "redirecting"
  BY EachType DEF Follow, Begun
<1>2. /\ handler'[k] = Free /\ Free.step = "free"
      /\ \A j \in Handler : j # k => handler'[j] = handler[j]
  BY Blanks, RunType DEF Follow, Free
<1>3. \A j \in Handler : handler'[j].step # "free" => handler'[j] = handler[j]
  BY <1>2
<1>4. past' = past /\ past' \in [Person -> Seq(Identity)]
      /\ \A q \in Person : Extends(past[q], past'[q])
  BY Same DEF Follow, TypeOK
<1>5. \A h \in Challenge : challenge'[h].subject = challenge[h].subject
  <2> DEFINE c == [challenge[g] EXCEPT !.used = TRUE]
  <2>1. challenge' = challenge \/ challenge' = [challenge EXCEPT ![g] = c]
    BY DEF Follow
  <2>2. challenge[g] \in ChallengeRecord
    BY <1>1, EachType
  <2>3. c.subject = challenge[g].subject
    <3> HIDE DEF g
    <3> QED
      BY <2>2 DEF ChallengeRecord
  <2> HIDE DEF c, g
  <2> QED
    BY <1>1, <2>1, <2>3 DEF TypeOK
<1>6. CASE grant' = grant
  BY <1>3, <1>4, <1>5, <1>6, QuietTrue
<1>7. CASE grant' # grant
  <2>1. a.kind # "deny" /\ grant' = [grant EXCEPT ![g] = Granted(a)]
    BY <1>7 DEF Follow, Granted
  <2>2. a.kind = "accept"
    BY <1>1, <2>1 DEF HandlerRecord, Kind
  <2>3. Truthful(a.claims, p, past[p])
    <3>1. HandlerTrue(a, p, past[p])
      BY <1>1 DEF Truth
    <3> QED
      BY <1>1, <2>2, <3>1 DEF HandlerTrue
  <2>4. GrantTrue(Granted(a), p, past[p])
    <3>1. /\ Granted(a).status = "code" /\ Granted(a).aal = a.claims.aal
          /\ Granted(a).token = a.claims
      BY <1>1, GrantedType
    <3> QED
      BY <2>3, <3>1 DEF GrantTrue
  <2> QED
    BY <1>1, <1>3, <1>4, <1>5, <2>1, <2>4, OneGrantTrue
<1> QED
  BY <1>6, <1>7

-----------------------------------------------------------------------------
(* The steps of a grant: types and truth at once.                            *)
LEMMA GrantStep ==
  ASSUME TypeOK, Begun, Truth, NEW h \in Challenge, NEW g \in GrantRecord,
         grant' = [grant EXCEPT ![h] = g], grant[h].status # "none",
         UNCHANGED <<past, session, knew, challenge, handler, trail, lost, remembered, profile>>,
         GrantTrue(g, challenge[h].subject, past[challenge[h].subject])
  PROVE  TypeOK' /\ Begun' /\ Truth'
<1>1. challenge[h].status = "open"
  <2>1. challenge[h].status \in {"unborn", "open"}
    BY EachType DEF ChallengeRecord
  <2> QED
    BY <2>1 DEF Begun
<1> QED
  BY <1>1, GrantStepType, OneGrantTrue

(* A grant is somebody's, and what it says is true of that person.           *)
LEMMA GrantFacts ==
  ASSUME TypeOK, Begun, Truth, NEW h \in Challenge, grant[h].status # "none"
  PROVE  /\ challenge[h].status = "open" /\ challenge[h].subject \in Person
         /\ grant[h] \in GrantRecord
         /\ GrantTrue(grant[h], challenge[h].subject, past[challenge[h].subject])
<1>1. challenge[h].status \in {"unborn", "open"} /\ grant[h] \in GrantRecord
  BY EachType DEF ChallengeRecord
<1>2. challenge[h].status = "open"
  BY <1>1 DEF Begun
<1> QED
  BY <1>1, <1>2, OpenSubject DEF Truth

LEMMA ExchangeStep ==
  ASSUME TypeOK, Begun, Truth, NEW h \in Challenge, Exchange(h)
  PROVE  TypeOK' /\ Begun' /\ Truth'
<1> DEFINE g == [grant[h] EXCEPT !.status = "live"]
<1>1. grant[h].status = "code" /\ grant' = [grant EXCEPT ![h] = g]
  BY DEF Exchange
<1>2. UNCHANGED <<past, session, knew, challenge, handler, trail, lost, remembered, profile>>
  BY DEF Exchange
<1>3. g \in GrantRecord /\ g.status = "live" /\ g.token = grant[h].token /\ g.aal = grant[h].aal
  BY <1>1, GrantFacts DEF GrantRecord
<1> HIDE DEF g
<1>4. GrantTrue(g, challenge[h].subject, past[challenge[h].subject])
  BY <1>1, <1>3, GrantFacts DEF GrantTrue
<1> QED
  BY <1>1, <1>2, <1>3, <1>4, GrantStep

LEMMA RefreshStep ==
  ASSUME TypeOK, Begun, Truth, NEW h \in Challenge, Refresh(h)
  PROVE  TypeOK' /\ Begun' /\ Truth'
<1> DEFINE n == Len(past[challenge[h].subject])
           c == [NoClaims EXCEPT !.since = n]
           g == [[grant[h] EXCEPT !.status = "asking"] EXCEPT !.next = c]
<1>1. grant[h].status = "live"
  BY DEF Refresh
<1>2. grant' = [grant EXCEPT ![h] = g]
  <2>1. grant[h] \in GrantRecord
    BY EachType
  <2>2. [grant EXCEPT ![h] = [grant[h] EXCEPT !.status = "asking"]][h]
        = [grant[h] EXCEPT !.status = "asking"]
    BY DEF TypeOK
  <2> QED
    BY <2>2 DEF Refresh, TypeOK
<1>3. UNCHANGED <<past, session, knew, challenge, handler, trail, lost, remembered, profile>>
  BY DEF Refresh
<1>4. n \in Nat \ {0}
  BY <1>1, GrantFacts, KeptType DEF Begun
<1>5. c \in Claims /\ c.since = n
  BY <1>4, Blanks DEF Claims
<1> HIDE DEF n, c
<1>6. g \in GrantRecord /\ g.status = "asking" /\ g.token = grant[h].token
      /\ g.aal = grant[h].aal /\ g.next = c
  BY <1>1, <1>5, GrantFacts DEF GrantRecord
<1> HIDE DEF g
<1>7. GrantTrue(g, challenge[h].subject, past[challenge[h].subject])
  BY <1>1, <1>4, <1>5, <1>6, GrantFacts DEF GrantTrue, n
<1> QED
  BY <1>1, <1>2, <1>3, <1>6, <1>7, GrantStep

(* Two fields of one grant written at once.                                  *)
LEMMA TwoFields ==
  ASSUME TypeOK, NEW h \in Challenge, NEW s, NEW n
  PROVE  [grant EXCEPT ![h].status = s, ![h].next = n]
         = [grant EXCEPT ![h] = [[grant[h] EXCEPT !.status = s] EXCEPT !.next = n]]
<1> DEFINE one == [grant[h] EXCEPT !.status = s]
<1>1. [grant EXCEPT ![h] = one][h] = one
  BY DEF TypeOK
<1> QED
  BY <1>1 DEF TypeOK

LEMMA HookStep ==
  ASSUME TypeOK, Begun, Truth, NEW h \in Challenge, Hook(h)
  PROVE  TypeOK' /\ Begun' /\ Truth'
<1> DEFINE p == challenge[h].subject
           s == IF Kept(p).active THEN "issuing" ELSE "live"
           n == IF Kept(p).active
                THEN SessionForIdentity(p, grant[h].token.aal, grant[h].next.since) ELSE NoClaims
           g == [[grant[h] EXCEPT !.status = s] EXCEPT !.next = n]
<1>1. grant[h].status = "asking"
  BY DEF Hook
<1>2. grant' = [grant EXCEPT ![h] = g]
  <2>1. grant' = [grant EXCEPT ![h].status = s, ![h].next = n]
    BY DEF Hook
  <2> QED
    BY <2>1, TwoFields
<1>3. UNCHANGED <<past, session, knew, challenge, handler, trail, lost, remembered, profile>>
  BY DEF Hook
<1>4. /\ p \in Person /\ grant[h] \in GrantRecord /\ GrantTrue(grant[h], p, past[p])
  BY <1>1, GrantFacts
<1>5. /\ grant[h].token \in Claims /\ grant[h].token.aal \in Aal /\ grant[h].token.aal = grant[h].aal
      /\ grant[h].next \in Claims /\ grant[h].next.since \in Nat \ {0}
      /\ grant[h].next.since \in 1..Len(past[p]) /\ Truthful(grant[h].token, p, past[p])
  <2>1. grant[h].token \in Claims /\ grant[h].next \in Claims
    BY <1>4 DEF GrantRecord
  <2>2. grant[h].token.aal \in Aal /\ grant[h].next.since \in Nat \ {0}
    BY <2>1 DEF Claims
  <2> QED
    BY <1>1, <1>4, <2>1, <2>2 DEF GrantTrue
<1>6. n \in Claims
  BY <1>4, <1>5, ClaimsType, Blanks
<1>7. s = "issuing" => Truthful(n, p, past[p]) /\ n.aal = grant[h].aal
  BY <1>4, <1>5, StatedTruly
<1>8. s \in {"issuing", "live"}
  OBVIOUS
<1> HIDE DEF s, n
<1>9. g \in GrantRecord /\ g.status = s /\ g.token = grant[h].token
      /\ g.aal = grant[h].aal /\ g.next = n
  BY <1>4, <1>6, <1>8 DEF GrantRecord
<1> HIDE DEF g
<1>10. GrantTrue(g, p, past[p])
  BY <1>5, <1>7, <1>8, <1>9 DEF GrantTrue
<1> QED
  BY <1>1, <1>2, <1>3, <1>9, <1>10, GrantStep

LEMMA IssueStep ==
  ASSUME TypeOK, Begun, Truth, NEW h \in Challenge, Issue(h)
  PROVE  TypeOK' /\ Begun' /\ Truth'
<1> DEFINE g == [[[grant[h] EXCEPT !.status = "live"] EXCEPT !.token = grant[h].next]
                  EXCEPT !.next = NoClaims]
<1>1. grant[h].status = "issuing"
  BY DEF Issue
<1>2. grant' = [grant EXCEPT ![h] = g]
  <2> DEFINE one == [grant[h] EXCEPT !.status = "live"]
             two == [one EXCEPT !.token = grant[h].next]
  <2>1. [grant EXCEPT ![h] = one][h] = one /\ [grant EXCEPT ![h] = two][h] = two
        /\ [[grant EXCEPT ![h] = one] EXCEPT ![h] = two] = [grant EXCEPT ![h] = two]
        /\ [[grant EXCEPT ![h] = two] EXCEPT ![h] = g] = [grant EXCEPT ![h] = g]
    BY DEF TypeOK
  <2> QED
    BY <2>1 DEF Issue
<1>3. UNCHANGED <<past, session, knew, challenge, handler, trail, lost, remembered, profile>>
  BY DEF Issue
<1>4. grant[h] \in GrantRecord /\ grant[h].next \in Claims
  BY <1>1, GrantFacts DEF GrantRecord
<1>5. /\ g \in GrantRecord /\ g.status = "live" /\ g.token = grant[h].next
      /\ g.aal = grant[h].aal
  BY <1>4, Blanks DEF GrantRecord
<1> HIDE DEF g
<1>6. GrantTrue(g, challenge[h].subject, past[challenge[h].subject])
  BY <1>1, <1>5, GrantFacts DEF GrantTrue
<1> QED
  BY <1>1, <1>2, <1>3, <1>5, <1>6, GrantStep

(* A revocation ends grants, and says nothing.                               *)
LEMMA RevokeStep ==
  ASSUME TypeOK, Begun, Truth, NEW c \in Client, Revoke(c)
  PROVE  TypeOK' /\ Begun' /\ Truth'
<1> DEFINE Ended(h) == [NoGrant EXCEPT !.status = "ended", !.form = grant[h].form]
           Hit(h) == challenge[h].client = c /\ challenge[h].subject = session.who
                     /\ grant[h].status # "none"
<1>1. grant' = [h \in Challenge |-> IF Hit(h) THEN Ended(h) ELSE grant[h]]
  BY DEF Revoke
<1>2. UNCHANGED <<past, session, knew, challenge, handler, trail, lost, profile>>
      /\ remembered' \subseteq Person \X Client
  BY DEF Revoke, TypeOK
<1>3. \A h \in Challenge : Ended(h) \in GrantRecord /\ Ended(h).status = "ended"
  BY EachType, Blanks DEF GrantRecord
<1> HIDE DEF Ended
<1>4. grant' \in [Challenge -> GrantRecord]
  BY <1>1, <1>3, EachType
<1>5. \A h \in Challenge : \/ grant'[h] = grant[h]
                           \/ grant'[h] \in GrantRecord /\ grant'[h].status = "ended"
                              /\ grant[h].status # "none"
  BY <1>1, <1>3
<1>6. TypeOK'
  BY <1>2, <1>4 DEF TypeOK
<1>7. Begun'
  BY <1>2, <1>5 DEF Begun
<1>8. Truth'
  <2>1. past' \in [Person -> Seq(Identity)] /\ \A p \in Person : Extends(past[p], past'[p])
    BY <1>2, Same DEF TypeOK
  <2>2. \A k \in Handler : handler'[k].step # "free" => HandlerTrue(handler'[k],
          challenge'[handler'[k].on].subject, past'[challenge'[handler'[k].on].subject])
    BY <1>2, <2>1, Carry
  <2>3. ASSUME NEW h \in Challenge, grant'[h].status # "none"
        PROVE  GrantTrue(grant'[h], challenge'[h].subject, past'[challenge'[h].subject])
    <3>1. CASE grant'[h] = grant[h]
      BY <1>2, <2>1, <2>3, <3>1, Carry
    <3>2. CASE grant'[h].status = "ended"
      BY <3>2 DEF GrantTrue
    <3> QED
      BY <1>5, <3>1, <3>2
  <2> QED
    BY <2>2, <2>3 DEF Truth
<1> QED
  BY <1>6, <1>7, <1>8

-----------------------------------------------------------------------------
(* The books: what was recorded or lost, and the actions about to record.    *)
Due == trail \cup lost

Of(rows, h, what) == {row \in rows : row[1] = h /\ row[2] = what}
Count(rows, h, what) == Cardinality(Of(rows, h, what))

(* Entries of a kind are numbered in order.                                  *)
Numbered(rows) ==
  /\ IsFiniteSet(rows)
  /\ \A row \in rows : row[3] \in Nat /\ row[3] <= Count(rows, row[1], row[2])

Verb(kind) == IF kind = "accept" THEN "granted" ELSE "denied"

Writing(actions, h, kind) ==
  {k \in Handler : actions[k].on = h /\ actions[k].step = "recording" /\ actions[k].kind = kind}

(* A decision of Hydra's is recorded, lost, or about to be recorded.         *)
Balanced(c, rows, actions, h) ==
  \A kind \in Kind :
    Taken(c, kind) = Count(rows, h, Verb(kind)) + Cardinality(Writing(actions, h, kind))
                     + Count(rows, h, kind)

(* And who is on the way back to Hydra with the consent of a form has left a *)
(* row, or lost one.                                                         *)
Books ==
  /\ Numbered(Due)
  /\ \A h \in Challenge :
       /\ Balanced(challenge[h], Due, handler, h)
       /\ grant[h].form => Count(Due, h, "granted") > 0
       /\ challenge[h].status = "unborn" => \A kind \in Kind : Taken(challenge[h], kind) = 0
  /\ \A k \in Handler : handler[k].step = "redirecting" /\ handler[k].form
                        /\ handler[k].kind = "accept" => Count(Due, handler[k].on, "granted") > 0

LEMMA BooksAgree ==
  ASSUME Books
  PROVE  RowsAgree
<1>1. \A h, what : Told(h, what) = Count(Due, h, what)
  BY DEF Told, Count, Of, Due
<1>2. ASSUME NEW h \in Challenge
      PROVE  /\ challenge[h].accepts = Count(Due, h, "granted")
                  + Cardinality(Writing(handler, h, "accept")) + Count(Due, h, "accept")
             /\ challenge[h].rejects = Count(Due, h, "denied")
                  + Cardinality(Writing(handler, h, "deny")) + Count(Due, h, "deny")
  BY DEF Books, Balanced, Taken, Verb, Kind
<1> QED
  BY <1>1, <1>2 DEF Books, RowsAgree, Writing

LEMMA CountType ==
  ASSUME NEW rows, IsFiniteSet(rows)
  PROVE  \A h, what : IsFiniteSet(Of(rows, h, what)) /\ Count(rows, h, what) \in Nat
<1>1. ASSUME NEW h, NEW what
      PROVE  IsFiniteSet(Of(rows, h, what))
  BY FS_Subset DEF Of
<1>2. ASSUME NEW h, NEW what
      PROVE  Count(rows, h, what) \in Nat
  BY <1>1, FS_CardinalityType DEF Count
<1> QED
  BY <1>1, <1>2

LEMMA WritingType ==
  ASSUME NEW actions, NEW h, NEW kind
  PROVE  /\ IsFiniteSet(Writing(actions, h, kind))
         /\ Cardinality(Writing(actions, h, kind)) \in Nat
<1>1. IsFiniteSet(Writing(actions, h, kind))
  BY ConsentAssumption, FS_Subset DEF Writing
<1> QED
  BY <1>1, FS_CardinalityType

(* A new entry counts once, where it belongs.                                *)
LEMMA Entered ==
  ASSUME NEW rows, Numbered(rows), NEW g, NEW what, NEW more,
         more = rows \cup {<<g, what, Count(rows, g, what) + 1>>}
  PROVE  /\ Numbered(more)
         /\ Count(more, g, what) = Count(rows, g, what) + 1
         /\ \A h, other : h # g \/ other # what => Count(more, h, other) = Count(rows, h, other)
<1> DEFINE row == <<g, what, Count(rows, g, what) + 1>>
<1>1. IsFiniteSet(rows) /\ \A h, other : IsFiniteSet(Of(rows, h, other)) /\ Count(rows, h, other) \in Nat
  BY CountType DEF Numbered
<1>2. row[1] = g /\ row[2] = what /\ row[3] = Count(rows, g, what) + 1
  OBVIOUS
<1> HIDE DEF row
<1>3. row \notin rows
  <2>1. ASSUME row \in rows PROVE FALSE
    <3>1. row[3] <= Count(rows, g, what)
      BY <1>2, <2>1 DEF Numbered
    <3>2. Count(rows, g, what) \in Nat
      BY <1>1
    <3> QED
      BY <1>2, <3>1, <3>2
  <2> QED
    BY <2>1
<1>4. more = rows \cup {row}
  BY DEF row
<1>5. IsFiniteSet(more)
  BY <1>1, <1>4, FS_AddElement
<1>6. Count(more, g, what) = Count(rows, g, what) + 1
  <2>1. Of(more, g, what) = Of(rows, g, what) \cup {row} /\ row \notin Of(rows, g, what)
    BY <1>2, <1>3, <1>4 DEF Of
  <2> QED
    BY <1>1, <2>1, FS_AddElement DEF Count
<1>7. ASSUME NEW h, NEW other, h # g \/ other # what
      PROVE  Count(more, h, other) = Count(rows, h, other)
  <2>1. Of(more, h, other) = Of(rows, h, other)
    BY <1>2, <1>4, <1>7 DEF Of
  <2> QED
    BY <2>1 DEF Count
<1>8. \A h, other : Count(more, h, other) \in Nat /\ Count(rows, h, other) <= Count(more, h, other)
  <2>1. ASSUME NEW h, NEW other
        PROVE  Count(more, h, other) \in Nat /\ Count(rows, h, other) <= Count(more, h, other)
    <3>1. Count(rows, h, other) \in Nat
      BY <1>1
    <3> QED
      BY <1>6, <1>7, <3>1
  <2> QED
    BY <2>1
<1>9. ASSUME NEW r \in more
      PROVE  r[3] \in Nat /\ r[3] <= Count(more, r[1], r[2])
  <2>1. CASE r \in rows
    <3>1. r[3] \in Nat /\ r[3] <= Count(rows, r[1], r[2])
      BY <2>1 DEF Numbered
    <3>2. /\ Count(rows, r[1], r[2]) \in Nat /\ Count(more, r[1], r[2]) \in Nat
          /\ Count(rows, r[1], r[2]) <= Count(more, r[1], r[2])
      BY <1>1, <1>8
    <3> QED
      BY <3>1, <3>2
  <2>2. CASE r = row
    <3>1. Count(more, r[1], r[2]) = r[3] /\ Count(more, g, what) \in Nat
      BY <1>2, <1>6, <1>8, <2>2
    <3> QED
      BY <1>2, <1>6, <2>2, <3>1
  <2> QED
    BY <1>4, <2>1, <2>2
<1>10. Numbered(more)
  BY <1>5, <1>9 DEF Numbered
<1> QED
  BY <1>6, <1>7, <1>10

(* No decision, and no entry.                                                *)
LEMMA BooksClosed ==
  ASSUME Books, UNCHANGED <<trail, lost>>,
         \A h \in Challenge :
           /\ challenge'[h].accepts = challenge[h].accepts
           /\ challenge'[h].rejects = challenge[h].rejects
           /\ challenge'[h].status = "unborn" => challenge[h].status = "unborn"
           /\ grant'[h].form => grant[h].form \/ Count(Due, h, "granted") > 0,
         \A k \in Handler :
           \/ handler'[k] = handler[k]
           \/ /\ handler[k].step # "recording" /\ handler'[k].step # "recording"
              /\ handler'[k].step = "redirecting" => ~handler'[k].form
  PROVE  Books'
<1>1. \A h \in Challenge, kind \in Kind : Writing(handler', h, kind) = Writing(handler, h, kind)
  BY DEF Writing
<1>2. Due' = Due
  BY DEF Due
<1>3. \A h \in Challenge : \A kind \in Kind : Taken(challenge'[h], kind) = Taken(challenge[h], kind)
  BY DEF Taken
<1>4. ASSUME NEW h \in Challenge
      PROVE  /\ Balanced(challenge'[h], Due, handler', h)
             /\ grant'[h].form => Count(Due, h, "granted") > 0
             /\ challenge'[h].status = "unborn" =>
                  \A kind \in Kind : Taken(challenge'[h], kind) = 0
  BY <1>1, <1>3 DEF Books, Balanced
<1>5. \A k \in Handler : handler'[k].step = "redirecting" /\ handler'[k].form
        /\ handler'[k].kind = "accept" => Count(Due, handler'[k].on, "granted") > 0
  BY DEF Books
<1>6. Numbered(Due)
  BY DEF Books
<1> QED
  BY <1>2, <1>4, <1>5, <1>6 DEF Books

(* Hydra's decision on a form, and the action that is to record it.          *)
LEMMA DecideBooks ==
  ASSUME TypeOK, Begun, Books, NEW k \in Handler, Decide(k)
  PROVE  Books'
<1> DEFINE g == handler[k].on
           a == [handler[k] EXCEPT !.step = IF handler[k].form THEN "recording" ELSE "redirecting"]
<1>1. Take(k) /\ Run(k, a) /\ lost' = lost
  BY DEF Decide
<1>2. /\ handler[k] \in HandlerRecord /\ handler[k].step = "deciding"
      /\ g \in Challenge /\ challenge[g].status = "open" /\ UNCHANGED <<trail, grant>>
      /\ \A h \in Challenge : /\ challenge'[h].status = challenge[h].status
                              /\ h # g => challenge'[h] = challenge[h]
      /\ \A kind \in Kind : Taken(challenge'[g], kind) = Taken(challenge[g], kind)
                + (IF handler[k].kind = kind /\ handler[k].form THEN 1 ELSE 0)
  BY <1>1, TakeFacts
<1>3. /\ a.on = g /\ a.kind = handler[k].kind /\ a.form = handler[k].form /\ a \in HandlerRecord
      /\ a.step = IF handler[k].form THEN "recording" ELSE "redirecting"
  BY <1>2 DEF HandlerRecord
<1> HIDE DEF a, g
<1>4. handler'[k] = a /\ \A j \in Handler : j # k => handler'[j] = handler[j]
  BY <1>1, <1>3, RunType
<1>5. Due' = Due
  BY <1>1, <1>2 DEF Due
<1>6. ASSUME NEW h \in Challenge, NEW kind \in Kind
      PROVE  Cardinality(Writing(handler', h, kind)) = Cardinality(Writing(handler, h, kind))
               + (IF h = g /\ handler[k].kind = kind /\ handler[k].form THEN 1 ELSE 0)
  <2>1. CASE h = g /\ handler[k].kind = kind /\ handler[k].form
    <3>1. /\ Writing(handler', h, kind) = Writing(handler, h, kind) \cup {k}
          /\ k \notin Writing(handler, h, kind)
      BY <1>2, <1>3, <1>4, <2>1 DEF Writing, g
    <3>2. IsFiniteSet(Writing(handler, h, kind))
      BY WritingType
    <3>3. Cardinality(Writing(handler, h, kind) \cup {k}) = Cardinality(Writing(handler, h, kind)) + 1
      BY <3>1, <3>2, FS_AddElement
    <3> QED
      BY <2>1, <3>1, <3>3
  <2>2. CASE ~(h = g /\ handler[k].kind = kind /\ handler[k].form)
    <3>1. Writing(handler', h, kind) = Writing(handler, h, kind)
      BY <1>2, <1>3, <1>4, <2>2 DEF Writing, g
    <3> QED
      BY <2>2, <3>1, WritingType
  <2> QED
    BY <2>1, <2>2
<1>7. ASSUME NEW h \in Challenge
      PROVE  Balanced(challenge'[h], Due, handler', h)
  <2>1. ASSUME NEW kind \in Kind
        PROVE  Taken(challenge'[h], kind) = Count(Due, h, Verb(kind))
                 + Cardinality(Writing(handler', h, kind)) + Count(Due, h, kind)
    <3>1. Taken(challenge[h], kind) = Count(Due, h, Verb(kind))
            + Cardinality(Writing(handler, h, kind)) + Count(Due, h, kind)
      BY DEF Books, Balanced
    <3>2. /\ Count(Due, h, Verb(kind)) \in Nat /\ Count(Due, h, kind) \in Nat
          /\ Cardinality(Writing(handler, h, kind)) \in Nat
      BY CountType, WritingType DEF Books, Numbered
    <3>3. Taken(challenge'[h], kind) = Taken(challenge[h], kind)
            + (IF h = g /\ handler[k].kind = kind /\ handler[k].form THEN 1 ELSE 0)
      <4>1. CASE h = g
        BY <1>2, <4>1
      <4>2. CASE h # g
        BY <1>2, <3>1, <3>2, <4>2
      <4> QED
        BY <4>1, <4>2
    <3> QED
      BY <1>6, <3>1, <3>2, <3>3
  <2> QED
    BY <2>1 DEF Balanced
<1>8. ASSUME NEW h \in Challenge
      PROVE  /\ grant'[h].form => Count(Due, h, "granted") > 0
             /\ challenge'[h].status = "unborn" => \A kind \in Kind : Taken(challenge'[h], kind) = 0
  BY <1>2 DEF Books
<1>9. \A j \in Handler : handler'[j].step = "redirecting" /\ handler'[j].form
        /\ handler'[j].kind = "accept" => Count(Due, handler'[j].on, "granted") > 0
  BY <1>3, <1>4 DEF Books
<1>10. Numbered(Due)
  BY DEF Books
<1> QED
  BY <1>5, <1>7, <1>8, <1>9, <1>10 DEF Books

(* The decision whose answer is lost: one more of Hydra's, and one more lost.*)
LEMMA UnheardBooks ==
  ASSUME TypeOK, Begun, Books, NEW k \in Handler, DecideUnheard(k)
  PROVE  Books'
<1> DEFINE g == handler[k].on
<1>1. /\ Take(k) /\ Run(k, Free)
      /\ lost' = IF handler[k].form THEN lost \cup {Entry(g, handler[k].kind)} ELSE lost
  BY DEF DecideUnheard
<1>2. /\ handler[k] \in HandlerRecord /\ handler[k].step = "deciding" /\ handler[k].kind \in Kind
      /\ g \in Challenge /\ challenge[g].status = "open" /\ UNCHANGED <<trail, grant>>
      /\ \A h \in Challenge : /\ challenge'[h].status = challenge[h].status
                              /\ h # g => challenge'[h] = challenge[h]
      /\ \A kind \in Kind : Taken(challenge'[g], kind) = Taken(challenge[g], kind)
                + (IF handler[k].kind = kind /\ handler[k].form THEN 1 ELSE 0)
  BY <1>1, TakeFacts DEF HandlerRecord
<1> HIDE DEF g
<1>3. handler'[k] = Free /\ Free.step = "free" /\ \A j \in Handler : j # k => handler'[j] = handler[j]
  BY <1>1, Blanks, RunType DEF Free
<1>4. \A h, kind : Writing(handler', h, kind) = Writing(handler, h, kind)
  BY <1>2, <1>3 DEF Writing
<1>5. /\ Numbered(Due')
      /\ \A h, what : Count(Due', h, what) = Count(Due, h, what)
           + (IF h = g /\ what = handler[k].kind /\ handler[k].form THEN 1 ELSE 0)
  <2>1. Numbered(Due) /\ \A h, what : Count(Due, h, what) \in Nat
    BY CountType DEF Books, Numbered
  <2>2. CASE handler[k].form
    <3>1. Due' = Due \cup {<<g, handler[k].kind, Count(Due, g, handler[k].kind) + 1>>}
      BY <1>1, <1>2, <2>2 DEF Due, Entry, Told, Count, Of
    <3>2. PICK more : more = Due'
      OBVIOUS
    <3>3. /\ Numbered(more)
          /\ Count(more, g, handler[k].kind) = Count(Due, g, handler[k].kind) + 1
          /\ \A h, other : h # g \/ other # handler[k].kind =>
               Count(more, h, other) = Count(Due, h, other)
      BY <2>1, <3>1, <3>2, Entered
    <3>4. ASSUME NEW h, NEW what
          PROVE  Count(more, h, what) = Count(Due, h, what)
                   + (IF h = g /\ what = handler[k].kind /\ handler[k].form THEN 1 ELSE 0)
      <4>1. Count(Due, h, what) \in Nat
        BY <2>1
      <4> QED
        BY <2>2, <3>3, <4>1
    <3> QED
      BY <3>2, <3>3, <3>4
  <2>3. CASE ~handler[k].form
    <3>1. Due' = Due
      BY <1>1, <1>2, <2>3 DEF Due
    <3> QED
      BY <2>1, <2>3, <3>1
  <2> QED
    BY <2>2, <2>3
<1>6. ASSUME NEW h \in Challenge
      PROVE  Balanced(challenge'[h], Due', handler', h)
  <2>1. ASSUME NEW kind \in Kind
        PROVE  Taken(challenge'[h], kind) = Count(Due', h, Verb(kind))
                 + Cardinality(Writing(handler', h, kind)) + Count(Due', h, kind)
    <3>1. Taken(challenge[h], kind) = Count(Due, h, Verb(kind))
            + Cardinality(Writing(handler, h, kind)) + Count(Due, h, kind)
      BY DEF Books, Balanced
    <3>2. /\ Count(Due, h, Verb(kind)) \in Nat /\ Count(Due, h, kind) \in Nat
          /\ Cardinality(Writing(handler, h, kind)) \in Nat
      BY CountType, WritingType DEF Books, Numbered
    <3>3. Taken(challenge'[h], kind) = Taken(challenge[h], kind)
            + (IF h = g /\ kind = handler[k].kind /\ handler[k].form THEN 1 ELSE 0)
      <4>1. CASE h = g
        BY <1>2, <4>1
      <4>2. CASE h # g
        BY <1>2, <3>1, <3>2, <4>2
      <4> QED
        BY <4>1, <4>2
    <3>4. Count(Due', h, Verb(kind)) = Count(Due, h, Verb(kind))
      <4>1. Verb(kind) # handler[k].kind
        BY <1>2 DEF Verb, Kind
      <4> QED
        BY <1>5, <3>2, <4>1
    <3>5. Count(Due', h, kind) = Count(Due, h, kind)
            + (IF h = g /\ kind = handler[k].kind /\ handler[k].form THEN 1 ELSE 0)
      BY <1>5
    <3> QED
      BY <1>4, <3>1, <3>2, <3>3, <3>4, <3>5
  <2> QED
    BY <2>1 DEF Balanced
<1>7. \A h : Count(Due', h, "granted") = Count(Due, h, "granted")
  <2>1. ASSUME NEW h
        PROVE  Count(Due', h, "granted") = Count(Due, h, "granted")
    <3>1. "granted" # handler[k].kind /\ Count(Due, h, "granted") \in Nat
      BY <1>2, CountType DEF Kind, Books, Numbered
    <3> QED
      BY <1>5, <3>1
  <2> QED
    BY <2>1
<1>8. ASSUME NEW h \in Challenge
      PROVE  /\ grant'[h].form => Count(Due', h, "granted") > 0
             /\ challenge'[h].status = "unborn" => \A kind \in Kind : Taken(challenge'[h], kind) = 0
  BY <1>2, <1>7 DEF Books
<1>9. \A j \in Handler : handler'[j].step = "redirecting" /\ handler'[j].form
        /\ handler'[j].kind = "accept" => Count(Due', handler'[j].on, "granted") > 0
  BY <1>3, <1>7 DEF Books
<1> QED
  BY <1>5, <1>6, <1>8, <1>9 DEF Books

(* The row: one more of its kind, and one action less that is to write it.   *)
LEMMA RecordBooks ==
  ASSUME TypeOK, Begun, Books, NEW k \in Handler, Record(k)
  PROVE  Books'
<1> DEFINE g == handler[k].on
           mine == handler[k].kind
           a == [handler[k] EXCEPT !.step = "redirecting"]
<1>1. /\ handler[k] \in HandlerRecord /\ handler[k].step = "recording" /\ g \in Challenge
      /\ mine \in Kind
  BY EachType DEF Record, HandlerRecord
<1>2. a.on = g /\ a.kind = mine /\ a \in HandlerRecord /\ a.step = "redirecting"
  BY <1>1 DEF HandlerRecord
<1>3. /\ Run(k, a) /\ UNCHANGED <<challenge, grant>>
      /\ Due' = Due \cup {<<g, Verb(mine), Count(Due, g, Verb(mine)) + 1>>}
  <2>1. /\ Run(k, a) /\ UNCHANGED <<challenge, grant>>
        /\ \/ trail' = trail \cup {Entry(g, Verb(mine))} /\ lost' = lost
           \/ lost' = lost \cup {Entry(g, Verb(mine))} /\ trail' = trail
    BY DEF Record, Verb
  <2>2. Entry(g, Verb(mine)) = <<g, Verb(mine), Count(Due, g, Verb(mine)) + 1>>
    BY DEF Entry, Told, Count, Of, Due
  <2>3. Due' = Due \cup {Entry(g, Verb(mine))}
    BY <2>1 DEF Due
  <2> QED
    BY <2>1, <2>2, <2>3
<1> HIDE DEF a, g, mine
<1>4. handler'[k] = a /\ \A j \in Handler : j # k => handler'[j] = handler[j]
  BY <1>2, <1>3, RunType
<1>5. Numbered(Due) /\ \A h, what : Count(Due, h, what) \in Nat
  BY CountType DEF Books, Numbered
<1>6. /\ Numbered(Due')
      /\ Count(Due', g, Verb(mine)) = Count(Due, g, Verb(mine)) + 1
      /\ \A h, what : h # g \/ what # Verb(mine) => Count(Due', h, what) = Count(Due, h, what)
  <2>1. PICK more : more = Due'
    OBVIOUS
  <2> QED
    BY <1>3, <1>5, <2>1, Entered
<1>7. ASSUME NEW h \in Challenge, NEW kind \in Kind
      PROVE  /\ Cardinality(Writing(handler, h, kind)) \in Nat
             /\ Cardinality(Writing(handler', h, kind)) \in Nat
             /\ Cardinality(Writing(handler, h, kind)) = Cardinality(Writing(handler', h, kind))
                  + (IF h = g /\ mine = kind THEN 1 ELSE 0)
  <2>1. CASE h = g /\ mine = kind
    <3>1. /\ Writing(handler, h, kind) = Writing(handler', h, kind) \cup {k}
          /\ k \notin Writing(handler', h, kind)
      BY <1>1, <1>2, <1>4, <2>1 DEF Writing, g, mine
    <3>2. IsFiniteSet(Writing(handler', h, kind)) /\ Cardinality(Writing(handler', h, kind)) \in Nat
      BY WritingType
    <3>3. Cardinality(Writing(handler', h, kind) \cup {k}) = Cardinality(Writing(handler', h, kind)) + 1
      BY <3>1, <3>2, FS_AddElement
    <3>4. Cardinality(Writing(handler, h, kind)) = Cardinality(Writing(handler', h, kind)) + 1
      BY <3>1, <3>3
    <3> QED
      BY <2>1, <3>2, <3>4
  <2>2. CASE ~(h = g /\ mine = kind)
    <3>1. Writing(handler', h, kind) = Writing(handler, h, kind)
      BY <1>1, <1>2, <1>4, <2>2 DEF Writing, g, mine
    <3> QED
      BY <2>2, <3>1, WritingType
  <2> QED
    BY <2>1, <2>2
<1>8. ASSUME NEW h \in Challenge
      PROVE  Balanced(challenge'[h], Due', handler', h)
  <2>1. ASSUME NEW kind \in Kind
        PROVE  Taken(challenge'[h], kind) = Count(Due', h, Verb(kind))
                 + Cardinality(Writing(handler', h, kind)) + Count(Due', h, kind)
    <3>1. Taken(challenge'[h], kind) = Count(Due, h, Verb(kind))
            + Cardinality(Writing(handler, h, kind)) + Count(Due, h, kind)
      BY <1>3 DEF Books, Balanced
    <3>2. /\ Count(Due, h, Verb(kind)) \in Nat /\ Count(Due, h, kind) \in Nat
          /\ Cardinality(Writing(handler, h, kind)) \in Nat
          /\ Cardinality(Writing(handler', h, kind)) \in Nat
      BY <1>5, <1>7
    <3>3. Count(Due', h, Verb(kind)) = Count(Due, h, Verb(kind))
            + (IF h = g /\ mine = kind THEN 1 ELSE 0)
      <4>1. CASE h = g /\ mine = kind
        BY <1>6, <4>1
      <4>2. CASE ~(h = g /\ mine = kind)
        <5>1. h # g \/ Verb(kind) # Verb(mine)
          BY <1>1, <4>2 DEF Verb, Kind
        <5> QED
          BY <1>6, <3>2, <4>2, <5>1
      <4> QED
        BY <4>1, <4>2
    <3>4. Count(Due', h, kind) = Count(Due, h, kind)
      <4>1. kind # Verb(mine)
        BY DEF Verb, Kind
      <4> QED
        BY <1>6, <4>1
    <3> QED
      BY <1>7, <3>1, <3>2, <3>3, <3>4
  <2> QED
    BY <2>1 DEF Balanced
<1>9. \A h, what : Count(Due, h, what) <= Count(Due', h, what) /\ Count(Due', h, what) \in Nat
  <2>1. ASSUME NEW h, NEW what
        PROVE  Count(Due, h, what) <= Count(Due', h, what) /\ Count(Due', h, what) \in Nat
    <3>1. Count(Due, h, what) \in Nat
      BY <1>5
    <3> QED
      BY <1>6, <3>1
  <2> QED
    BY <2>1
<1>10. ASSUME NEW h \in Challenge
       PROVE  /\ grant'[h].form => Count(Due', h, "granted") > 0
              /\ challenge'[h].status = "unborn" => \A kind \in Kind : Taken(challenge'[h], kind) = 0
  <2>1. grant[h].form => Count(Due, h, "granted") > 0
    BY DEF Books
  <2>2. /\ Count(Due, h, "granted") \in Nat /\ Count(Due', h, "granted") \in Nat
        /\ Count(Due, h, "granted") <= Count(Due', h, "granted")
    BY <1>5, <1>9
  <2>3. challenge[h].status = "unborn" => \A kind \in Kind : Taken(challenge[h], kind) = 0
    BY DEF Books
  <2> QED
    BY <1>3, <2>1, <2>2, <2>3
<1>11. ASSUME NEW j \in Handler, handler'[j].step = "redirecting", handler'[j].form,
              handler'[j].kind = "accept"
       PROVE  Count(Due', handler'[j].on, "granted") > 0
  <2>1. CASE j = k
    <3>1. handler'[j].on = g /\ mine = "accept"
      BY <1>2, <1>4, <1>11, <2>1
    <3>2. Count(Due', g, "granted") = Count(Due, g, "granted") + 1
      BY <1>6, <3>1 DEF Verb
    <3>3. Count(Due, g, "granted") \in Nat
      BY <1>5
    <3> QED
      BY <3>1, <3>2, <3>3
  <2>2. CASE j # k
    <3>1. Count(Due, handler'[j].on, "granted") > 0
      BY <1>4, <1>11, <2>2 DEF Books
    <3>2. /\ Count(Due', handler'[j].on, "granted") >= Count(Due, handler'[j].on, "granted")
          /\ Count(Due, handler'[j].on, "granted") \in Nat
          /\ Count(Due', handler'[j].on, "granted") \in Nat
      BY <1>5, <1>9
    <3> QED
      BY <3>1, <3>2
  <2> QED
    BY <2>1, <2>2
<1> QED
  BY <1>6, <1>8, <1>10, <1>11 DEF Books

(* Everybody else leaves the books alone.                                    *)
LEMMA OutsideBooks ==
  ASSUME TypeOK, Begun, Books,
         \/ \E p \in Person : Change(p) \/ \E aal \in Aal : SignIn(p, aal)
         \/ SignOut
         \/ \E h \in Challenge, c \in Client : Ask(h, c)
         \/ UNCHANGED vars
  PROVE  Books'
<1>1. ASSUME NEW h \in Challenge, NEW c \in Client, Ask(h, c) PROVE Books'
  <2>1. PICK p \in Subject : challenge' = [challenge EXCEPT ![h] =
               [Fresh EXCEPT !.status = "open", !.client = c, !.subject = p,
                             !.skip = c \in FirstParty \/ <<p, c>> \in remembered]]
    BY <1>1, SessionIsSomebody DEF Ask, TypeOK, Subject
  <2> DEFINE record == [Fresh EXCEPT !.status = "open", !.client = c, !.subject = p,
                                     !.skip = c \in FirstParty \/ <<p, c>> \in remembered]
  <2>2. record.status = "open" /\ record.accepts = 0 /\ record.rejects = 0
    BY DEF Fresh
  <2> HIDE DEF record
  <2>3. challenge'[h] = record /\ \A g \in Challenge : g # h => challenge'[g] = challenge[g]
    BY <2>1 DEF TypeOK, record
  <2>4. challenge[h].status = "unborn" /\ UNCHANGED <<trail, lost, handler, grant>>
    BY <1>1 DEF Ask
  <2>5. challenge[h].accepts = 0 /\ challenge[h].rejects = 0
    BY <2>4 DEF Books, Taken, Kind
  <2> QED
    BY <2>2, <2>3, <2>4, <2>5, BooksClosed
<1>2. ASSUME UNCHANGED <<trail, lost, handler, grant, challenge>> PROVE Books'
  BY <1>2, BooksClosed
<1> QED
  BY <1>1, <1>2 DEF Change, SignIn, SignOut, vars

LEMMA PageBooks ==
  ASSUME TypeOK, Begun, Books, NEW h \in Challenge,
         \/ Load(h)
         \/ \E k \in Handler, d \in Kind, r \in BOOLEAN : Submit(k, h, d, r)
  PROVE  Books'
<1>1. UNCHANGED <<trail, lost, grant>>
  BY DEF Load, Submit
<1>2. challenge' \in {challenge, [challenge EXCEPT ![h] = [challenge[h] EXCEPT !.shown = TRUE]],
                      [challenge EXCEPT ![h] = [challenge[h] EXCEPT !.sent = @ + 1]]}
  BY DEF Load, Submit
<1>3. \A g \in Challenge : /\ challenge'[g].accepts = challenge[g].accepts
                           /\ challenge'[g].rejects = challenge[g].rejects
                           /\ challenge'[g].status = challenge[g].status
  <2>1. challenge[h] \in ChallengeRecord
    BY EachType
  <2> DEFINE b == [challenge[h] EXCEPT !.shown = TRUE]
             c == [challenge[h] EXCEPT !.sent = @ + 1]
  <2>2. \A r \in {b, c} : /\ r.accepts = challenge[h].accepts
                          /\ r.rejects = challenge[h].rejects
                          /\ r.status = challenge[h].status
    BY <2>1 DEF ChallengeRecord
  <2>3. challenge' \in {challenge, [challenge EXCEPT ![h] = b], [challenge EXCEPT ![h] = c]}
    BY <1>2
  <2> HIDE DEF b, c
  <2> QED
    BY <2>2, <2>3 DEF TypeOK
<1>4. \A k \in Handler : \/ handler'[k] = handler[k]
                         \/ /\ handler[k].step = "free"
                            /\ handler'[k].step \in {"session", "deciding"}
  <2>1. CASE Load(h)
    <3>1. CASE ~challenge[h].skip
      BY <2>1, <3>1 DEF Load
    <3>2. CASE challenge[h].skip
      <4> DEFINE a == [Free EXCEPT !.step = "session", !.on = h, !.kind = "accept",
                                   !.claims = [NoClaims EXCEPT
                                     !.since = Len(past[challenge[h].subject])]]
      <4>1. PICK k \in Handler : handler[k].step = "free" /\ Run(k, a)
        BY <2>1, <3>2 DEF Load, Free
      <4>2. a.step = "session"
        BY DEF Free
      <4> HIDE DEF a
      <4> QED
        BY <4>1, <4>2 DEF Run, TypeOK
    <3> QED
      BY <3>1, <3>2
  <2>2. ASSUME NEW k \in Handler, NEW d \in Kind, NEW r \in BOOLEAN, Submit(k, h, d, r)
        PROVE  \A j \in Handler : \/ handler'[j] = handler[j]
                                  \/ /\ handler[j].step = "free"
                                     /\ handler'[j].step \in {"session", "deciding"}
    <3> DEFINE a == [Free EXCEPT !.step = IF d = "accept" THEN "session" ELSE "deciding",
                                 !.on = h, !.kind = d, !.form = TRUE,
                                 !.remember = r /\ d = "accept",
                                 !.claims = [NoClaims EXCEPT
                                   !.since = Len(past[challenge[h].subject])]]
    <3>1. handler[k].step = "free" /\ Run(k, a)
      BY <2>2 DEF Submit, Free
    <3>2. a.step \in {"session", "deciding"}
      BY DEF Free
    <3> HIDE DEF a
    <3> QED
      BY <3>1, <3>2 DEF Run, TypeOK
  <2> QED
    BY <2>1, <2>2
<1> QED
  BY <1>1, <1>3, <1>4, BooksClosed

LEMMA HandlerBooks ==
  ASSUME TypeOK, Begun, Books, NEW k \in Handler,
         ReadSession(k) \/ Provision(k) \/ GiveUp(k)
  PROVE  Books'
<1>1. UNCHANGED <<trail, lost, grant, challenge>>
  BY DEF ReadSession, Provision, GiveUp
<1>2. handler[k].step # "recording" /\ \E a : Run(k, a) /\ a.step \in {"profile", "deciding", "free"}
  <2>1. CASE ReadSession(k)
    <3> DEFINE c == SessionForIdentity(session.who, session.aal, handler[k].claims.since)
               a == [handler[k] EXCEPT !.step = "profile", !.claims = c]
               b == [handler[k] EXCEPT !.step = "deciding", !.kind = "deny"]
    <3>1. Run(k, a) \/ Run(k, b)
      BY <2>1 DEF ReadSession
    <3>2. a.step = "profile" /\ b.step = "deciding"
      BY EachType DEF HandlerRecord
    <3>3. handler[k].step = "session"
      BY <2>1 DEF ReadSession
    <3> HIDE DEF a, b
    <3> QED
      BY <3>1, <3>2, <3>3
  <2>2. CASE Provision(k)
    <3> DEFINE a == [handler[k] EXCEPT !.step = "deciding"]
    <3>1. Run(k, a) /\ handler[k].step = "profile"
      BY <2>2 DEF Provision
    <3>2. a.step = "deciding"
      BY EachType DEF HandlerRecord
    <3> HIDE DEF a
    <3> QED
      BY <3>1, <3>2
  <2>3. CASE GiveUp(k)
    BY <2>3 DEF GiveUp, Free
  <2> QED
    BY <2>1, <2>2, <2>3
<1>3. \A j \in Handler : \/ handler'[j] = handler[j]
                         \/ /\ handler[j].step # "recording"
                            /\ handler'[j].step \in {"profile", "deciding", "free"}
  BY <1>2 DEF Run, TypeOK
<1> QED
  BY <1>1, <1>3, BooksClosed

LEMMA FollowBooks ==
  ASSUME TypeOK, Begun, Books, NEW k \in Handler, Follow(k)
  PROVE  Books'
<1> DEFINE g == handler[k].on
           c == [challenge[g] EXCEPT !.used = TRUE]
<1>1. /\ g \in Challenge /\ challenge[g] \in ChallengeRecord /\ handler[k] \in HandlerRecord
      /\ handler[k].step = "redirecting" /\ UNCHANGED <<trail, lost>>
  BY EachType DEF Follow
<1>2. /\ handler'[k] = Free /\ Free.step = "free"
      /\ \A j \in Handler : j # k => handler'[j] = handler[j]
  BY Blanks, RunType DEF Follow, Free
<1>3. /\ c.accepts = challenge[g].accepts /\ c.rejects = challenge[g].rejects
      /\ c.status = challenge[g].status
  <2> HIDE DEF g
  <2> QED
    BY <1>1 DEF ChallengeRecord
<1>4. challenge' = challenge \/ challenge' = [challenge EXCEPT ![g] = c]
  BY DEF Follow
<1>5. \/ grant' = grant
      \/ handler[k].kind # "deny" /\ grant' = [grant EXCEPT ![g] = Granted(handler[k])]
  <2>1. CASE challenge[g].used
    BY <2>1 DEF Follow
  <2>2. CASE ~challenge[g].used
    BY <2>2 DEF Follow, Granted
  <2> QED
    BY <2>1, <2>2
<1> HIDE DEF c
<1>6. \A h \in Challenge : /\ challenge'[h].accepts = challenge[h].accepts
                           /\ challenge'[h].rejects = challenge[h].rejects
                           /\ challenge'[h].status = challenge[h].status
  BY <1>1, <1>3, <1>4 DEF TypeOK
<1>7. ASSUME NEW h \in Challenge, grant'[h].form
      PROVE  grant[h].form \/ Count(Due, h, "granted") > 0
  <2>1. CASE grant'[h] = grant[h]
    BY <1>7, <2>1
  <2>2. CASE grant'[h] # grant[h]
    <3>1. handler[k].kind # "deny" /\ h = g /\ grant'[h] = Granted(handler[k])
      BY <1>1, <1>5, <2>2 DEF TypeOK
    <3>2. handler[k].kind = "accept"
      BY <1>1, <3>1 DEF HandlerRecord, Kind
    <3>3. handler[k].form
      BY <1>1, <1>7, <3>1, GrantedType
    <3> QED
      BY <1>1, <3>1, <3>2, <3>3 DEF Books
  <2> QED
    BY <2>1, <2>2
<1> QED
  BY <1>1, <1>2, <1>6, <1>7, BooksClosed

LEMMA GrantBooks ==
  ASSUME TypeOK, Begun, Books,
         \/ \E h \in Challenge : Exchange(h) \/ Refresh(h) \/ Hook(h) \/ Issue(h)
         \/ \E c \in Client : Revoke(c)
  PROVE  Books'
<1>1. UNCHANGED <<challenge, handler, trail, lost>>
  BY DEF Exchange, Refresh, Hook, Issue, Revoke
<1>2. \A h \in Challenge : grant[h] \in GrantRecord
  BY EachType
<1>3. ASSUME NEW h \in Challenge, NEW g, grant' = [grant EXCEPT ![h] = g], g.form = grant[h].form
      PROVE  Books'
  <2>1. \A i \in Challenge : grant'[i].form = grant[i].form
    BY <1>3 DEF TypeOK
  <2> QED
    BY <1>1, <2>1, BooksClosed
<1>4. ASSUME NEW h \in Challenge, Exchange(h) PROVE Books'
  <2> DEFINE g == [grant[h] EXCEPT !.status = "live"]
  <2>1. grant' = [grant EXCEPT ![h] = g]
    BY <1>4 DEF Exchange
  <2>2. g.form = grant[h].form
    BY <1>2 DEF GrantRecord
  <2> HIDE DEF g
  <2> QED
    BY <1>3, <2>1, <2>2
<1>5. ASSUME NEW h \in Challenge, Refresh(h) \/ Hook(h) PROVE Books'
  <2>1. PICK s, n : grant' = [grant EXCEPT ![h].status = s, ![h].next = n]
    <3>1. CASE Refresh(h)
      <4> DEFINE one == [grant EXCEPT ![h] = [grant[h] EXCEPT !.status = "asking"]]
      <4>1. grant' = [one EXCEPT ![h] = [one[h] EXCEPT !.next =
                        [NoClaims EXCEPT !.since = Len(past[challenge[h].subject])]]]
        BY <3>1 DEF Refresh
      <4> QED
        BY <4>1
    <3>2. CASE Hook(h)
      BY <3>2 DEF Hook
    <3> QED
      BY <1>5, <3>1, <3>2
  <2> DEFINE g == [[grant[h] EXCEPT !.status = s] EXCEPT !.next = n]
  <2>2. grant' = [grant EXCEPT ![h] = g]
    BY <2>1, TwoFields
  <2>3. g.form = grant[h].form
    BY <1>2 DEF GrantRecord
  <2> HIDE DEF g
  <2> QED
    BY <1>3, <2>2, <2>3
<1>6. ASSUME NEW h \in Challenge, Issue(h) PROVE Books'
  <2> DEFINE one == [grant[h] EXCEPT !.status = "live"]
             two == [one EXCEPT !.token = grant[h].next]
             g == [two EXCEPT !.next = NoClaims]
  <2>1. grant' = [grant EXCEPT ![h] = g]
    <3>1. [grant EXCEPT ![h] = one][h] = one /\ [grant EXCEPT ![h] = two][h] = two
          /\ [[grant EXCEPT ![h] = one] EXCEPT ![h] = two] = [grant EXCEPT ![h] = two]
          /\ [[grant EXCEPT ![h] = two] EXCEPT ![h] = g] = [grant EXCEPT ![h] = g]
      BY DEF TypeOK
    <3> QED
      BY <1>6, <3>1 DEF Issue
  <2>2. g.form = grant[h].form
    BY <1>2 DEF GrantRecord
  <2> HIDE DEF g
  <2> QED
    BY <1>3, <2>1, <2>2
<1>7. ASSUME NEW c \in Client, Revoke(c) PROVE Books'
  <2> DEFINE Ended(h) == [NoGrant EXCEPT !.status = "ended", !.form = grant[h].form]
  <2>1. \A h \in Challenge : grant'[h] \in {grant[h], Ended(h)}
    BY <1>7 DEF Revoke
  <2>2. \A h \in Challenge : Ended(h).form = grant[h].form
    BY DEF NoGrant
  <2> HIDE DEF Ended
  <2>3. \A h \in Challenge : grant'[h].form = grant[h].form
    BY <2>1, <2>2
  <2> QED
    BY <1>1, <2>3, BooksClosed
<1> QED
  BY <1>4, <1>5, <1>6, <1>7

-----------------------------------------------------------------------------
(* The theorems.                                                             *)
IInv == TypeOK /\ Begun /\ Truth /\ Books

LEMMA Start ==
  ASSUME Init
  PROVE  IInv
<1>1. TypeOK
  <2>1. \A p \in Person : <<[active |-> TRUE, role |-> Unstaffed]>> \in Seq(Identity)
    BY ConsentAssumption DEF Identity
  <2>2. Fresh.status = "unborn" /\ Fresh.subject = Nobody
    BY DEF Fresh
  <2> QED
    BY <2>1, <2>2, Blanks DEF Init, TypeOK, Subject, Aal
<1>2. Begun
  BY FS_EmptySet DEF Init, Begun, Fresh, Free, NoGrant
<1>3. Truth
  BY DEF Init, Truth, Free, NoGrant
<1>4. Books
  <2>1. Numbered(Due) /\ \A h, what : Count(Due, h, what) = 0
    <3>1. Due = {} /\ \A h, what : Of(Due, h, what) = {}
      BY DEF Init, Due, Of
    <3> QED
      BY <3>1, FS_EmptySet DEF Count, Numbered
  <2>2. \A h, kind : Cardinality(Writing(handler, h, kind)) = 0
    <3>1. \A h, kind : Writing(handler, h, kind) = {}
      BY DEF Init, Free, Writing
    <3> QED
      BY <3>1, FS_EmptySet
  <2> QED
    BY <2>1, <2>2 DEF Init, Books, Balanced, Taken, Fresh, Free, NoGrant
<1> QED
  BY <1>1, <1>2, <1>3, <1>4 DEF IInv

LEMMA Step ==
  ASSUME IInv, [Next]_vars
  PROVE  IInv'
<1> USE DEF IInv
<1>1. CASE \/ \E p \in Person : Change(p) \/ \E aal \in Aal : SignIn(p, aal)
           \/ SignOut
           \/ \E h \in Challenge, c \in Client : Ask(h, c)
           \/ UNCHANGED vars
  BY <1>1, OutsideType, OutsideTrue, OutsideBooks
<1>2. ASSUME NEW h \in Challenge, Load(h) PROVE IInv'
  BY <1>2, LoadType, LoadTrue, PageBooks
<1>3. ASSUME NEW k \in Handler, NEW h \in Challenge, NEW d \in Kind, NEW r \in BOOLEAN,
             Submit(k, h, d, r)
      PROVE  IInv'
  BY <1>3, SubmitType, SubmitTrue, PageBooks
<1>4. ASSUME NEW k \in Handler, ReadSession(k) PROVE IInv'
  BY <1>4, ReadSessionType, ReadSessionTrue, HandlerBooks
<1>5. ASSUME NEW k \in Handler, Provision(k) PROVE IInv'
  BY <1>5, ProvisionType, LaterStepsTrue, HandlerBooks
<1>6. ASSUME NEW k \in Handler, Decide(k) PROVE IInv'
  BY <1>6, DecideType, DecideTrue, DecideBooks
<1>7. ASSUME NEW k \in Handler, GiveUp(k) PROVE IInv'
  BY <1>7, GiveUpType, LaterStepsTrue, HandlerBooks
<1>8. ASSUME NEW k \in Handler, Record(k) PROVE IInv'
  BY <1>8, RecordType, LaterStepsTrue, RecordBooks
<1>9. ASSUME NEW k \in Handler, Follow(k) PROVE IInv'
  BY <1>9, FollowType, FollowTrue, FollowBooks
<1>10. ASSUME NEW h \in Challenge, Exchange(h) \/ Refresh(h) \/ Hook(h) \/ Issue(h) PROVE IInv'
  BY <1>10, ExchangeStep, RefreshStep, HookStep, IssueStep, GrantBooks
<1>11. ASSUME NEW c \in Client, Revoke(c) PROVE IInv'
  BY <1>11, RevokeStep, GrantBooks
<1>12. ASSUME NEW k \in Handler, DecideUnheard(k) PROVE IInv'
  BY <1>12, DecideUnheardType, DecideTrue, UnheardBooks
<1> QED
  BY <1>1, <1>2, <1>3, <1>4, <1>5, <1>6, <1>7, <1>8, <1>9, <1>10, <1>11, <1>12 DEF Next, Kind

(* The inductive invariant: the types, what has begun, what each action and  *)
(* grant has established, and the books.                                     *)
THEOREM Invariant == Spec => []IInv
<1>1. Init => IInv
  BY Start
<1>2. IInv /\ [Next]_vars => IInv'
  BY Step
<1> QED
  BY <1>1, <1>2, PTL DEF Spec

(* Everything keeps its type, and platform's rows are provisioned from the   *)
(* session of the person they are for.                                       *)
THEOREM TypeCorrect == Spec => []TypeOK
<1>1. IInv => TypeOK
  BY DEF IInv
<1> QED
  BY <1>1, Invariant, PTL

(* Whatever accounts the browser changes to and however roles come and go,   *)
(* a token states what was true of the subject since it was asked for.       *)
THEOREM TokensAreTrue == Spec => []TokenSpeaksForItsSubject
<1>1. IInv => TokenSpeaksForItsSubject
  BY DEF IInv, Truth, GrantTrue, Truthful, TokenSpeaksForItsSubject
<1> QED
  BY <1>1, Invariant, PTL

(* Whatever inserts fail and answers are lost, each decision Hydra took of a *)
(* form has its row written, tried or its answer unheard, the trail holds no *)
(* other row, and no code comes before the row was written or tried.         *)
THEOREM TheBooksAgree == Spec => []RowsAgree
<1>1. IInv => RowsAgree
  BY BooksAgree DEF IInv
<1> QED
  BY <1>1, Invariant, PTL
=============================================================================
