------------------------------ MODULE Consent ------------------------------
(***************************************************************************)
(* The consent step and what becomes of the claims it states               *)
(* (apps/id/src/app/(flows)/consent and api/internal/refresh).  Hydra asks *)
(* about a subject; the id app answers with claims read from the browser's *)
(* own Kratos session, in a server action of several calls; at every       *)
(* refresh Hydra asks the hook again, which reads the identity.            *)
(*                                                                         *)
(* Meanwhile the browser changes accounts, a form is sent twice, the       *)
(* console changes or closes the identity, and the person revokes.         *)
(***************************************************************************)
EXTENDS Naturals, Sequences, FiniteSets

CONSTANTS
  Person,      \* the identities
  Client,      \* the applications
  FirstParty,  \* those registered with skip_consent
  Role,        \* the staff roles, and the having of none
  Unstaffed,   \* that one
  Challenge,   \* bound: the consent challenges Hydra mints
  Handler,     \* bound: server actions under way at once
  MaxChanges,  \* bound: changes of one identity
  MaxSubmits   \* bound: times one form is sent

Nobody == "nobody"
Aal    == {"aal1", "aal2"}

ASSUME ConsentAssumption ==
  /\ FirstParty \subseteq Client
  /\ Client # {} /\ Challenge # {} /\ IsFiniteSet(Handler)
  /\ Unstaffed \in Role
  /\ Nobody \notin Person
  /\ {MaxChanges, MaxSubmits} \subseteq Nat

VARIABLES
  past,       \* person -> the identity as it was at first and after each change
  session,    \* the browser's Kratos session
  knew,       \* the subject Hydra itself remembers of this browser
  challenge,  \* challenge -> what Hydra keeps of it
  handler,    \* handler -> the server action it runs
  grant,      \* challenge -> the code or the tokens it led to
  trail,      \* the audit rows, as <<challenge, verb, number>>
  lost,       \* history: rows not inserted, and answers of Hydra's not heard
  remembered, \* the <<person, client>> not to be asked again
  profile     \* whom platform has a row for, and by whose session

vars ==
  <<past, session, knew, challenge, handler, grant, trail, lost, remembered, profile>>

Kept(p) == past[p][Len(past[p])]

NoClaims == [of |-> Nobody, role |-> Unstaffed, aal |-> "aal1", since |-> 1]
Fresh    == [status |-> "unborn", client |-> CHOOSE c \in Client : TRUE, subject |-> Nobody,
             skip |-> FALSE, shown |-> FALSE, used |-> FALSE, sent |-> 0,
             accepts |-> 0, rejects |-> 0]
Free     == [step |-> "free", on |-> CHOOSE h \in Challenge : TRUE, kind |-> "deny",
             form |-> FALSE, remember |-> FALSE, claims |-> NoClaims]
NoGrant  == [status |-> "none", form |-> FALSE, aal |-> "aal1", token |-> NoClaims,
             next |-> NoClaims]

(* What of a challenge was recorded, or lost before it could be.             *)
Told(h, what) == Cardinality({row \in trail \cup lost : row[1] = h /\ row[2] = what})
Entry(h, what) == <<h, what, Told(h, what) + 1>>

(***************************************************************************)
(* Claims.                                                                 *)
(***************************************************************************)
(* sessionForIdentity: stated, never derived; since is history.              *)
SessionForIdentity(p, aal, since) ==
  [of |-> p, role |-> Kept(p).role, aal |-> aal, since |-> since]

SignedIn == session.who # Nobody /\ Kept(session.who).active

(* Slip: whoever is signed in will do.                                       *)
AnybodysSession(subject) == SignedIn

(* consentSessionForSubject: is the session the subject's own?               *)
IsTheirs(subject) == SignedIn /\ session.who = subject

(***************************************************************************)
(* The browser, and Hydra.                                                 *)
(***************************************************************************)
SignIn(p, aal) ==
  /\ Kept(p).active /\ session # [who |-> p, aal |-> aal]
  /\ session' = [who |-> p, aal |-> aal]
  /\ UNCHANGED <<past, knew, challenge, handler, grant, trail, lost, remembered, profile>>

SignOut ==
  /\ session.who # Nobody
  /\ session' = [who |-> Nobody, aal |-> "aal1"]
  /\ UNCHANGED <<past, knew, challenge, handler, grant, trail, lost, remembered, profile>>

(* An application asks; the subject is Kratos's or whom Hydra remembers.     *)
Ask(h, c) ==
  /\ challenge[h].status = "unborn"
  /\ \E p \in {knew} \cup (IF SignedIn THEN {session.who} ELSE {}) :
       /\ p # Nobody
       /\ knew' = p
       /\ challenge' = [challenge EXCEPT ![h] =
            [Fresh EXCEPT !.status = "open", !.client = c, !.subject = p,
                          !.skip = c \in FirstParty \/ <<p, c>> \in remembered]]
  /\ UNCHANGED <<past, session, handler, grant, trail, lost, remembered, profile>>

(* The console, or the person: a role given or taken, an account suspended.  *)
Change(p) ==
  /\ Len(past[p]) <= MaxChanges
  /\ \E next \in [active : BOOLEAN, role : Role] \ {Kept(p)} :
       past' = [past EXCEPT ![p] = Append(@, next)]
  /\ UNCHANGED <<session, knew, challenge, handler, grant, trail, lost, remembered, profile>>

(***************************************************************************)
(* The consent page and its two buttons.                                   *)
(***************************************************************************)
Run(k, action) == handler' = [handler EXCEPT ![k] = action]

(* The page: a skippable challenge is answered at once, another is shown.    *)
Load(h) ==
  /\ challenge[h].status = "open" /\ ~challenge[h].used
  /\ IF challenge[h].skip
     THEN /\ \E k \in Handler :
               /\ handler[k].step = "free"
               /\ Run(k, [Free EXCEPT !.step = "session", !.on = h, !.kind = "accept",
                            !.claims.since = Len(past[challenge[h].subject])])
          /\ UNCHANGED challenge
     ELSE /\ ~challenge[h].shown
          /\ challenge' = [challenge EXCEPT ![h].shown = TRUE]
          /\ UNCHANGED handler
  /\ UNCHANGED <<past, session, knew, grant, trail, lost, remembered, profile>>

(* A form, which two tabs may send, or one twice.                            *)
Submit(k, h, decision, remember) ==
  /\ challenge[h].shown /\ handler[k].step = "free"
  /\ challenge[h].sent < MaxSubmits
  /\ challenge' = [challenge EXCEPT ![h].sent = @ + 1]
  /\ Run(k, [Free EXCEPT !.step = IF decision = "accept" THEN "session" ELSE "deciding",
                         !.on = h, !.kind = decision, !.form = TRUE,
                         !.remember = remember /\ decision = "accept",
                         !.claims.since = Len(past[challenge[h].subject])])
  /\ UNCHANGED <<past, session, knew, grant, trail, lost, remembered, profile>>

(* No session, or another's, and the request is refused in Hydra.            *)
ReadSession(k) ==
  LET a == handler[k]
  IN  /\ a.step = "session"
      /\ Run(k, IF IsTheirs(challenge[a.on].subject)
                THEN [a EXCEPT !.step = "profile", !.claims =
                        SessionForIdentity(session.who, session.aal, a.claims.since)]
                ELSE [a EXCEPT !.step = "deciding", !.kind = "deny"])
      /\ UNCHANGED <<past, session, knew, challenge, grant, trail, lost, remembered, profile>>

(* ensurePlatformProfile reads the session again, and is never fatal.        *)
Provision(k) ==
  LET a == handler[k]
  IN  /\ a.step = "profile"
      /\ Run(k, [a EXCEPT !.step = "deciding"])
      /\ profile' = IF IsTheirs(challenge[a.on].subject)
                    THEN profile \cup {<<challenge[a.on].subject, session.who>>} ELSE profile
      /\ UNCHANGED <<past, session, knew, challenge, grant, trail, lost, remembered>>

(* Hydra takes a decision, and another while none has been followed.         *)
Take(k) ==
  LET a == handler[k]
  IN  /\ a.step = "deciding"
      /\ ~challenge[a.on].used
      /\ challenge' = [challenge EXCEPT
           ![a.on].accepts = IF a.kind = "accept" /\ a.form THEN @ + 1 ELSE @,
           ![a.on].rejects = IF a.kind = "deny" /\ a.form THEN @ + 1 ELSE @]
      /\ UNCHANGED <<past, session, knew, grant, trail, remembered, profile>>

(* Slip: the redirect, which throws, comes before the row.                   *)
RedirectsFirst(k) ==
  /\ Take(k)
  /\ Run(k, [handler[k] EXCEPT !.step = "redirecting"])
  /\ UNCHANGED lost

Decide(k) ==
  /\ Take(k)
  /\ Run(k, [handler[k] EXCEPT !.step =
               IF handler[k].form THEN "recording" ELSE "redirecting"])
  /\ UNCHANGED lost

(* The answer is lost on its way, and the action throws: no row, no redirect.*)
DecideUnheard(k) ==
  /\ Take(k)
  /\ Run(k, Free)
  /\ lost' = IF handler[k].form
             THEN lost \cup {Entry(handler[k].on, handler[k].kind)} ELSE lost

(* Hydra refuses or fails and the action throws, or the redirect finds the   *)
(* tab closed: nothing follows.                                              *)
GiveUp(k) ==
  /\ handler[k].step \in {"deciding", "redirecting"}
  /\ Run(k, Free)
  /\ UNCHANGED <<past, session, knew, challenge, grant, trail, lost, remembered, profile>>

(* The row, for a form alone; recordEvent returns as well when the insert    *)
(* fails.                                                                    *)
Record(k) ==
  LET a   == handler[k]
      row == Entry(a.on, IF a.kind = "accept" THEN "granted" ELSE "denied")
  IN  /\ a.step = "recording"
      /\ Run(k, [a EXCEPT !.step = "redirecting"])
      /\ \/ trail' = trail \cup {row} /\ UNCHANGED lost
         \/ lost' = lost \cup {row} /\ UNCHANGED trail
      /\ UNCHANGED <<past, session, knew, challenge, grant, remembered, profile>>

(* The browser follows the redirect back to Hydra, where the first to arrive *)
(* counts.                                                                   *)
Follow(k) ==
  LET a == handler[k]
  IN  /\ a.step = "redirecting"
      /\ Run(k, Free)
      /\ IF challenge[a.on].used
         THEN UNCHANGED <<challenge, grant, remembered>>
         ELSE /\ challenge' = [challenge EXCEPT ![a.on].used = TRUE]
              /\ grant' = IF a.kind = "deny" THEN grant ELSE
                   [grant EXCEPT ![a.on] = [NoGrant EXCEPT
                      !.status = "code", !.form = a.form, !.aal = a.claims.aal,
                      !.token = a.claims]]
              /\ remembered' = IF a.remember
                   THEN remembered \cup {<<challenge[a.on].subject, challenge[a.on].client>>}
                   ELSE remembered
      /\ UNCHANGED <<past, session, knew, trail, lost, profile>>

(***************************************************************************)
(* The tokens.                                                             *)
(***************************************************************************)
Exchange(h) ==
  /\ grant[h].status = "code"
  /\ grant' = [grant EXCEPT ![h].status = "live"]
  /\ UNCHANGED <<past, session, knew, challenge, handler, trail, lost, remembered, profile>>

Refresh(h) ==
  /\ grant[h].status = "live"
  /\ grant' = [grant EXCEPT ![h].status = "asking",
       ![h].next = [NoClaims EXCEPT !.since = Len(past[challenge[h].subject])]]
  /\ UNCHANGED <<past, session, knew, challenge, handler, trail, lost, remembered, profile>>

(* Slip: the claims of the last token travel on.                             *)
ReplaysClaims(h) ==
  LET p == challenge[h].subject
  IN  /\ grant[h].status = "asking"
      /\ grant' = [grant EXCEPT ![h].status = "issuing",
           ![h].next = [grant[h].token EXCEPT !.since = grant[h].next.since]]
      /\ UNCHANGED <<past, session, knew, challenge, handler, trail, lost, remembered, profile>>

(* The hook: the identity as it is, the assurance as it was; an inactive     *)
(* identity fails the refresh.                                               *)
Hook(h) ==
  LET p == challenge[h].subject
  IN  /\ grant[h].status = "asking"
      /\ grant' = [grant EXCEPT
           ![h].status = IF Kept(p).active THEN "issuing" ELSE "live",
           ![h].next = IF Kept(p).active
                       THEN SessionForIdentity(p, grant[h].token.aal, grant[h].next.since)
                       ELSE NoClaims]
      /\ UNCHANGED <<past, session, knew, challenge, handler, trail, lost, remembered, profile>>

Issue(h) ==
  /\ grant[h].status = "issuing"
  /\ grant' = [grant EXCEPT ![h].status = "live", ![h].token = grant[h].next,
                            ![h].next = NoClaims]
  /\ UNCHANGED <<past, session, knew, challenge, handler, trail, lost, remembered, profile>>

(* revokeApplication: the subject is the session's own.                      *)
Revoke(c) ==
  /\ SignedIn
  /\ grant' = [h \in Challenge |->
       IF challenge[h].client = c /\ challenge[h].subject = session.who
          /\ grant[h].status # "none"
       THEN [NoGrant EXCEPT !.status = "ended", !.form = grant[h].form] ELSE grant[h]]
  /\ remembered' = remembered \ {<<session.who, c>>}
  /\ UNCHANGED <<past, session, knew, challenge, handler, trail, lost, profile>>

(***************************************************************************)
(* The whole.                                                              *)
(***************************************************************************)
Init ==
  /\ past = [p \in Person |-> <<[active |-> TRUE, role |-> Unstaffed]>>]
  /\ session = [who |-> Nobody, aal |-> "aal1"]
  /\ knew \in Person \cup {Nobody}                    \* of earlier visits
  /\ remembered \in SUBSET (Person \X (Client \ FirstParty))
  /\ challenge = [h \in Challenge |-> Fresh]
  /\ handler = [k \in Handler |-> Free]
  /\ grant = [h \in Challenge |-> NoGrant]
  /\ trail = {} /\ lost = {} /\ profile = {}

Next ==
  \/ \E p \in Person : Change(p) \/ \E aal \in Aal : SignIn(p, aal)
  \/ SignOut
  \/ \E c \in Client : Revoke(c) \/ \E h \in Challenge : Ask(h, c)
  \/ \E h \in Challenge : Load(h) \/ Exchange(h) \/ Refresh(h) \/ Hook(h) \/ Issue(h)
  \/ \E k \in Handler, h \in Challenge, d \in {"accept", "deny"}, r \in BOOLEAN :
       Submit(k, h, d, r)
  \/ \E k \in Handler :
       \/ ReadSession(k) \/ Provision(k) \/ Decide(k) \/ DecideUnheard(k) \/ GiveUp(k)
       \/ Record(k) \/ Follow(k)

Spec == Init /\ [][Next]_vars

(***************************************************************************)
(* Properties.                                                             *)
(***************************************************************************)
Identity == [active : BOOLEAN, role : Role]
Subject  == Person \cup {Nobody}
Claims   == [of : Subject, role : Role, aal : Aal, since : Nat \ {0}]
Kind     == {"accept", "deny"}

ChallengeRecord ==
  [status : {"unborn", "open"}, client : Client, subject : Subject, skip : BOOLEAN,
   shown : BOOLEAN, used : BOOLEAN, sent : Nat, accepts : Nat, rejects : Nat]
HandlerRecord ==
  [step : {"free", "session", "profile", "deciding", "recording", "redirecting"},
   on : Challenge, kind : Kind, form : BOOLEAN, remember : BOOLEAN, claims : Claims]
GrantRecord ==
  [status : {"none", "code", "live", "asking", "issuing", "ended"}, form : BOOLEAN,
   aal : Aal, token : Claims, next : Claims]

(* The shape of the state, and that a row of platform's is provisioned from  *)
(* the session of the person it is for.                                      *)
TypeOK ==
  /\ past \in [Person -> Seq(Identity)]
  /\ session \in [who : Subject, aal : Aal]
  /\ knew \in Subject
  /\ challenge \in [Challenge -> ChallengeRecord]
  /\ \A h \in Challenge :
       (challenge[h].status = "open") = (challenge[h].subject # Nobody)
  /\ handler \in [Handler -> HandlerRecord]
  /\ grant \in [Challenge -> GrantRecord]
  /\ trail \subseteq Challenge \X {"granted", "denied"} \X Nat
  /\ lost \subseteq Challenge \X {"granted", "denied", "accept", "deny"} \X Nat
  /\ remembered \subseteq Person \X Client
  /\ profile \subseteq {<<p, p>> : p \in Person}

(* Whatever accounts the browser changes to meanwhile, a token speaks for    *)
(* the subject Hydra asked about: with a role that person had, while active, *)
(* since the token was asked for, at the consent step or at the refresh, and *)
(* with the assurance of the session that consented (consent.claims: "a      *)
(* caller must refuse the challenge", "keeps a revoked role from             *)
(* travelling").                                                             *)
TokenSpeaksForItsSubject ==
  \A h \in Challenge :
    LET token == grant[h].token
        p     == challenge[h].subject
    IN  grant[h].status \notin {"none", "ended"} =>
          /\ token.of = p
          /\ token.aal = grant[h].aal
          /\ \E i \in token.since..Len(past[p]) :
               past[p][i].active /\ past[p][i].role = token.role

(* However often a form is sent, the trail holds a row for each decision     *)
(* Hydra took of it and for no other ("a failed grant isn't logged as a      *)
(* success"), but while the row is being written, when its insert fails, and *)
(* when Hydra's answer is lost; and an application that a form allowed has   *)
(* had its row written or tried before it has its code: an answer that was   *)
(* not heard never leads to one.                                             *)
RowsAgree ==
  \A h \in Challenge :
    LET Unwritten(kind) == Cardinality({k \in Handler : handler[k].on = h
                             /\ handler[k].step = "recording" /\ handler[k].kind = kind})
    IN  /\ challenge[h].accepts = Told(h, "granted") + Unwritten("accept") + Told(h, "accept")
        /\ challenge[h].rejects = Told(h, "denied") + Unwritten("deny") + Told(h, "deny")
        /\ grant[h].form => Told(h, "granted") > 0
=============================================================================
