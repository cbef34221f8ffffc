--------------------------- MODULE SharedBrowser ----------------------------
(***************************************************************************)
(* One browser across the estate: the identity session Kratos keeps in it, *)
(* the login Hydra remembers for it, and the platform tokens that the      *)
(* console and the id app keep in its cookies.  Tabs walk from redirect to *)
(* redirect between them: the console's gate (proxy.ts, staff.guard.ts and *)
(* the session guard of client-nextjs), the id app's platformGate, the     *)
(* authorization round trip, the consent page, the refresh hook and the    *)
(* ways out.  Kratos and Hydra are external, and do what the comments and  *)
(* configuration of the repository rely on.                                *)
(*                                                                         *)
(* A pass is a person at an assurance level: a Kratos session, an access   *)
(* token or a refresh token.  Spent access tokens are gone from the jar:   *)
(* the half minute in which the cookie outlasts the token is in            *)
(* TokenRenewal.                                                           *)
(***************************************************************************)
EXTENDS Naturals, FiniteSets

CONSTANTS
  Person, Nobody,
  App,        \* a subset of {"console", "id"}
  Tab,        \* the tabs the browser has open
  Faults,     \* a subset of {"kratos", "hydra"}: whoami, the revocations may fail
  Lapsing,    \* a subset of {"access", "session"}: what may expire
  MaxLapses   \* bound: cookies and sessions that expire

ASSUME BrowserAssumption ==
  /\ Nobody \notin Person
  /\ App \subseteq {"console", "id"} /\ App # {}
  /\ MaxLapses \in Nat

VARIABLES
  staff,      \* people refuseIdentity lets through
  proved,     \* people who have passed a second factor
  session,    \* the browser's Kratos session
  remembered, \* whom Hydra remembers for this browser, or Nobody
  access,     \* app -> the access token in its cookies
  refresh,    \* app -> the refresh token in its cookies
  live,       \* app -> that refresh token's grant stands
  tab,        \* tab -> where it is and what it carries
  lapses,     \* how many cookies and sessions have expired
  gone,       \* people who signed out and have not signed in since
  lasting     \* history: people whose grants may have outlived a sign-out

jarVars == <<access, refresh, live>>
vars == <<staff, proved, session, remembered, jarVars, tab, lapses, gone, lasting>>

Pass == [who : Person \cup {Nobody}, aal : 0..2]
None == [who |-> Nobody, aal |-> 0]

Resting == {"away", "page", "denied"}
Place == Resting \cup
  {"gate", "renewing", "signin", "screen", "stepup", "authorize", "confirm",
   "consent", "callback", "landing", "logout", "leaving"}

Blank == [place |-> "away", app |-> CHOOSE a \in App : TRUE, back |-> "gate",
          who |-> Nobody, pass |-> None, granted |-> FALSE, marked |-> FALSE]

(* A page that leads nowhere, whatever led there.                            *)
DeadEnd == [Blank EXCEPT !.place = "denied"]

(* A redirect the browser follows by itself, or where somebody takes it.     *)
Redirect(t, new) == tab' = [tab EXCEPT ![t] = new]

At(t, p) == [tab[t] EXCEPT !.place = p]

(* Back to where the session was missing or too low.                         *)
Resume(t) == [At(t, tab[t].back) EXCEPT !.back = "gate"]

SetTokens(a, pass) ==
  /\ access' = [access EXCEPT ![a] = pass]
  /\ refresh' = [refresh EXCEPT ![a] = pass]
  /\ live' = [live EXCEPT ![a] = pass # None]

-----------------------------------------------------------------------------
(* The console's gate. *)

(* Slip: a session below the floor is sent to sign in.                       *)
AdmissionBounced ==
  IF session = None \/ (session.who \in staff /\ session.aal < 2) THEN "signin"
  ELSE IF session.who \notin staff THEN "denied" ELSE "admitted"

(***************************************************************************)
(* createSessionGuard: the schema and the role, then the assurance floor.  *)
(* whoami not answering at all is a dead end; an answer other than 200 and *)
(* the step-up refusal is an invalid session, whatever it says.            *)
(***************************************************************************)
Admission ==
  IF session = None THEN "signin"
  ELSE IF session.who \notin staff THEN "denied"
  ELSE IF session.aal < 2 THEN "stepup" ELSE "admitted"

Admissions ==
  {Admission} \cup (IF "kratos" \in Faults THEN {"signin", "denied"} ELSE {})

Refuse(t, d) ==
  /\ d # "admitted"
  /\ Redirect(t, IF d = "denied" THEN DeadEnd
                 ELSE [At(t, d) EXCEPT !.back = tab[t].place])
  /\ UNCHANGED jarVars

(* Slip: the token's subject is not compared with the person admitted.       *)
PlatformGuardUncompared(t) ==
  /\ IF access["console"].aal >= 2
     THEN Redirect(t, [At(t, "page") EXCEPT !.who = session.who, !.pass = access["console"]])
     ELSE Redirect(t, At(t, "authorize"))
  /\ UNCHANGED jarVars

(* proxy: a token for another person is cleared and the round trip run for   *)
(* this one; then the session guard takes the token there is, renews it, or  *)
(* runs the round trip.                                                      *)
PlatformGuard(t) ==
  LET a == "console"
  IN \/ /\ access[a] # None /\ access[a].who # session.who
        /\ SetTokens(a, None)
        /\ Redirect(t, At(t, "authorize"))
     \/ /\ access[a].who = session.who /\ access[a].aal >= 2
        /\ Redirect(t, [At(t, "page") EXCEPT !.who = session.who, !.pass = access[a]])
        /\ UNCHANGED jarVars
     \/ /\ access[a].who = session.who /\ access[a].aal < 2
        /\ Redirect(t, At(t, "authorize"))
        /\ UNCHANGED jarVars
     \/ /\ access[a] = None
        /\ IF refresh[a] # None
           THEN Redirect(t, [At(t, "renewing") EXCEPT !.who = session.who,
                               !.pass = refresh[a], !.granted = live[a]])
           ELSE Redirect(t, At(t, "authorize"))
        /\ UNCHANGED jarVars

ConsoleGate(t) ==
  /\ tab[t].place = "gate" /\ tab[t].app = "console"
  /\ \E d \in Admissions :
       Refuse(t, d) \/ (d = "admitted" /\ PlatformGuard(t))
  /\ UNCHANGED <<staff, proved, session, remembered, lapses, gone, lasting>>

(* guard, after refreshOnce: Hydra asks the refresh hook, which states the   *)
(* level the grant was consented at.  Only a pair that meets the level is    *)
(* written to the response.                                                  *)
Renew(t) ==
  /\ tab[t].place = "renewing"
  /\ IF tab[t].granted /\ tab[t].pass.aal >= 2
     THEN /\ SetTokens("console", tab[t].pass)
          /\ Redirect(t, At(t, "page"))
     ELSE /\ Redirect(t, [Blank EXCEPT !.place = "authorize", !.app = tab[t].app])
          /\ UNCHANGED jarVars
  /\ UNCHANGED <<staff, proved, session, remembered, lapses, gone, lasting>>

-----------------------------------------------------------------------------
(* The id app's gate. *)

(* platformGate: a session, then a token for the same person; the round trip *)
(* is run once.                                                              *)
PlatformGate(t) ==
  /\ tab[t].place = "gate" /\ tab[t].app = "id"
  /\ \/ /\ session = None
        /\ Redirect(t, [At(t, "signin") EXCEPT !.back = "gate", !.marked = FALSE])
     \/ /\ session # None /\ access["id"].who = session.who
        /\ Redirect(t, [At(t, "page") EXCEPT !.who = session.who, !.pass = access["id"]])
     \/ /\ session # None /\ access["id"].who # session.who
        /\ IF tab[t].marked
           THEN Redirect(t, DeadEnd)
           ELSE Redirect(t, [At(t, "authorize") EXCEPT !.marked = TRUE])
  /\ UNCHANGED <<staff, proved, session, remembered, jarVars, lapses, gone, lasting>>

-----------------------------------------------------------------------------
(* Signing in. *)

(* /login without a challenge: Kratos has nothing to ask somebody signed in. *)
SignIn(t) ==
  /\ tab[t].place = "signin"
  /\ Redirect(t, IF session = None THEN At(t, "screen") ELSE Resume(t))
  /\ UNCHANGED <<staff, proved, session, remembered, jarVars, lapses, gone, lasting>>

Authenticated(p) == [who |-> p, aal |-> IF session.who = p THEN session.aal ELSE 1]

(* Somebody passes the first factor.  With a challenge Kratos accepts it for *)
(* them and Hydra remembers them.                                            *)
Authenticate(t, p) ==
  /\ tab[t].place \in {"screen", "confirm"}
  /\ session' = Authenticated(p)
  /\ gone' = gone \ {p}
  /\ IF tab[t].place = "screen"
     THEN Redirect(t, Resume(t)) /\ UNCHANGED remembered
     ELSE /\ Redirect(t, [At(t, "consent") EXCEPT !.pass = [who |-> p, aal |-> 0]])
          /\ remembered' = p
  /\ UNCHANGED <<staff, proved, jarVars, lapses, lasting>>

(* Kratos's step-up flow: the code of an enrolled factor, or the enrolment   *)
(* the login page renders when there is none.  Without a session it is the   *)
(* first factor again.                                                       *)
StepUp(t) ==
  /\ tab[t].place = "stepup"
  /\ IF session = None
     THEN Redirect(t, At(t, "screen")) /\ UNCHANGED <<proved, session>>
     ELSE /\ Redirect(t, Resume(t))
          /\ session' = [session EXCEPT !.aal = 2]
          /\ proved' = proved \cup {session.who}
  /\ UNCHANGED <<staff, remembered, jarVars, lapses, gone, lasting>>

-----------------------------------------------------------------------------
(* The authorization round trip. *)

(* /auth/login, behind the staff guard in the console, then Hydra, then      *)
(* /login with the challenge, which the id app hands to Kratos untouched:    *)
(* accepted at once for the person Hydra remembers when the session is       *)
(* theirs, confirmed on a screen otherwise.                                  *)
Authorize(t) ==
  /\ tab[t].place = "authorize"
  /\ \/ /\ tab[t].app = "console"
        /\ \E d \in Admissions : Refuse(t, d)
     \/ /\ tab[t].app = "console" => Admission = "admitted"
        /\ IF remembered # Nobody /\ remembered = session.who
           THEN Redirect(t, [At(t, "consent") EXCEPT !.pass = [who |-> remembered, aal |-> 0]])
           ELSE Redirect(t, At(t, "confirm"))
        /\ UNCHANGED jarVars
  /\ UNCHANGED <<staff, proved, session, remembered, lapses, gone, lasting>>

(* Slip: the session's subject is not compared with the login's.             *)
ConsentUnchecked(t) ==
  /\ tab[t].place = "consent"
  /\ Redirect(t, [At(t, "callback") EXCEPT !.pass.aal = session.aal, !.granted = TRUE])
  /\ UNCHANGED <<staff, proved, session, remembered, jarVars, lapses, gone, lasting>>

(* The consent page of a first-party client: accepted for the person the     *)
(* login named, with the level of their session, and rejected when the       *)
(* session is not theirs.                                                    *)
Consent(t) ==
  /\ tab[t].place = "consent"
  /\ IF session.who = tab[t].pass.who
     THEN /\ Redirect(t, [At(t, "callback") EXCEPT !.pass.aal = session.aal, !.granted = TRUE])
          /\ lasting' = lasting \cup {p \in {session.who} \ {Nobody} :
                           \E u \in Tab : tab[u].place = "leaving" /\ tab[u].who = p}
     ELSE Redirect(t, DeadEnd) /\ UNCHANGED lasting
  /\ UNCHANGED <<staff, proved, session, remembered, jarVars, lapses, gone>>

(* /auth/callback, behind the staff guard in the console: the code is        *)
(* redeemed, or the round trip starts again.                                 *)
Callback(t) ==
  /\ tab[t].place = "callback"
  /\ \/ /\ tab[t].app = "console"
        /\ \E d \in Admissions : Refuse(t, d)
     \/ /\ tab[t].app = "console" => Admission = "admitted"
        /\ Redirect(t, At(t, IF tab[t].granted THEN "landing" ELSE "authorize"))
        /\ UNCHANGED jarVars
  /\ UNCHANGED <<staff, proved, session, remembered, lapses, gone, lasting>>

(* The callback's response arrives with the tokens.                          *)
Land(t) ==
  /\ tab[t].place = "landing"
  /\ access' = [access EXCEPT ![tab[t].app] = tab[t].pass]
  /\ refresh' = [refresh EXCEPT ![tab[t].app] = tab[t].pass]
  /\ live' = [live EXCEPT ![tab[t].app] = tab[t].granted]
  /\ Redirect(t, [At(t, "gate") EXCEPT !.pass = None, !.granted = FALSE])
  /\ UNCHANGED <<staff, proved, session, remembered, lapses, gone, lasting>>

-----------------------------------------------------------------------------
(* The ways out. *)

(* Slip: only this app's cookies go, the grants stay.                        *)
SignOutHere(t) ==
  /\ tab[t].place = "logout"
  /\ access' = [access EXCEPT ![tab[t].app] = None]
  /\ refresh' = [refresh EXCEPT ![tab[t].app] = None]
  /\ live' = [live EXCEPT ![tab[t].app] = FALSE]
  /\ tab' = [tab EXCEPT ![t] = [At(t, "leaving") EXCEPT !.who = session.who]]
  /\ UNCHANGED <<staff, proved, session, remembered, lapses, gone, lasting>>

(* /logout of either app: Hydra's grants and remembered login for the person *)
(* signed in, wherever they are held, then the app's own cookies, and the    *)
(* browser goes on to Kratos.  A revocation that fails does not stop it.     *)
SignOut(t) ==
  /\ tab[t].place = "logout"
  /\ LET a == tab[t].app
         p == session.who
         away == [At(t, "leaving") EXCEPT !.who = p]
     IN \/ /\ live' = [b \in App |-> live[b] /\ b # a /\ refresh[b].who # p]
           /\ tab' = [u \in Tab |-> IF u = t THEN away
                        ELSE IF tab[u].pass.who = p
                             THEN [tab[u] EXCEPT !.granted = FALSE] ELSE tab[u]]
           /\ remembered' = IF remembered = p THEN Nobody ELSE remembered
           /\ lasting' = lasting \ {p}
        \/ /\ "hydra" \in Faults
           /\ lasting' = lasting \cup ({p} \ {Nobody})
           /\ live' = [live EXCEPT ![a] = FALSE]
           /\ tab' = [tab EXCEPT ![t] = away]
           /\ UNCHANGED remembered
  /\ access' = [access EXCEPT ![tab[t].app] = None]
  /\ refresh' = [refresh EXCEPT ![tab[t].app] = None]
  /\ UNCHANGED <<staff, proved, session, lapses, gone>>

(* Slip: somebody is said to have left though nobody was signed in.          *)
LeaveAnyway(t) ==
  /\ tab[t].place = "leaving"
  /\ session' = None
  /\ gone' = gone \cup {tab[t].who}
  /\ Redirect(t, Blank)
  /\ UNCHANGED <<staff, proved, remembered, jarVars, lapses, lasting>>

(* Kratos ends the session the logout was asked for.  The login page it      *)
(* lands on leads back to the console, and from the id app nowhere yet.      *)
Leave(t) ==
  /\ tab[t].place = "leaving"
  /\ LET left == session.who = tab[t].who /\ session # None
     IN /\ session' = IF left THEN None ELSE session
        /\ gone' = IF left THEN gone \cup {tab[t].who} ELSE gone
  /\ Redirect(t, IF tab[t].app = "id" THEN Blank
                 ELSE [Blank EXCEPT !.place = "signin", !.app = tab[t].app])
  /\ UNCHANGED <<staff, proved, remembered, jarVars, lapses, lasting>>

(* handlers.logout: the app's cookies go, and with an id token at hand the   *)
(* browser is handed to Hydra, which asks its logout page, the id app's      *)
(* /logout, when it remembers a login.                                       *)
PlatformLogout(t, a) ==
  /\ tab[t].place = "page" /\ tab[t].app = a
  /\ a = "console" => Admission = "admitted"
  /\ SetTokens(a, None)
  /\ IF refresh[a] # None /\ remembered # Nobody
     THEN Redirect(t, [Blank EXCEPT !.place = "logout", !.app = "id"])
     ELSE Redirect(t, [Blank EXCEPT !.place = "gate", !.app = a])
  /\ UNCHANGED <<staff, proved, session, remembered, lapses, gone, lasting>>

-----------------------------------------------------------------------------
(* People and time. *)

Visit(t, a) ==
  /\ tab[t].place \in Resting
  /\ Redirect(t, [Blank EXCEPT !.place = "gate", !.app = a])
  /\ UNCHANGED <<staff, proved, session, remembered, jarVars, lapses, gone, lasting>>

AskToLeave(t, a) ==
  /\ tab[t].place \in Resting
  /\ Redirect(t, [Blank EXCEPT !.place = "logout", !.app = a])
  /\ UNCHANGED <<staff, proved, session, remembered, jarVars, lapses, gone, lasting>>

(* An access token's ten minutes are over, and its cookie's with them.       *)
AccessLapses(a) ==
  /\ "access" \in Lapsing /\ lapses < MaxLapses /\ access[a] # None
  /\ lapses' = lapses + 1
  /\ access' = [access EXCEPT ![a] = None]
  /\ UNCHANGED <<staff, proved, session, remembered, refresh, live, tab, gone, lasting>>

(* The Kratos session is a day old, or was revoked from elsewhere.           *)
SessionLapses ==
  /\ "session" \in Lapsing /\ lapses < MaxLapses /\ session # None
  /\ lapses' = lapses + 1
  /\ session' = None
  /\ UNCHANGED <<staff, proved, remembered, jarVars, tab, gone, lasting>>

(* An operator takes somebody's role away.                                   *)
LoseRole(p) ==
  /\ p \in staff
  /\ staff' = staff \ {p}
  /\ UNCHANGED <<proved, session, remembered, jarVars, tab, lapses, gone, lasting>>

-----------------------------------------------------------------------------
Init ==
  /\ staff \in SUBSET Person
  /\ proved = {}
  /\ session = None
  /\ remembered = Nobody
  /\ access = [a \in App |-> None]
  /\ refresh = [a \in App |-> None]
  /\ live = [a \in App |-> FALSE]
  /\ tab = [t \in Tab |-> Blank]
  /\ lapses = 0
  /\ gone = {}
  /\ lasting = {}

(* What the estate does on its own, and what people do.                      *)
Follow(t) ==
  \/ ConsoleGate(t) \/ Renew(t) \/ PlatformGate(t) \/ SignIn(t)
  \/ Authorize(t) \/ Consent(t) \/ Callback(t) \/ Land(t)
  \/ SignOut(t) \/ Leave(t)

Next ==
  \/ \E t \in Tab : Follow(t) \/ StepUp(t)
  \/ \E t \in Tab, p \in Person : Authenticate(t, p)
  \/ \E t \in Tab, a \in App :
       Visit(t, a) \/ AskToLeave(t, a) \/ PlatformLogout(t, a)
  \/ \E a \in App : AccessLapses(a)
  \/ SessionLapses
  \/ \E p \in Person : LoseRole(p)

Spec == Init /\ [][Next]_vars

(* The estate answers and the browser follows; somebody in front of a screen *)
(* completes it.  Nothing obliges anybody to visit, and nothing to expire.   *)
Fairness ==
  \A t \in Tab : /\ WF_vars(Follow(t))
                 /\ WF_vars(StepUp(t) \/ \E p \in Person : Authenticate(t, p))

FairSpec == Spec /\ Fairness

-----------------------------------------------------------------------------
(* Properties. *)

TabRecord ==
  [place : Place, app : App \cup {"id"}, back : {"gate", "authorize", "callback"},
   who : Person \cup {Nobody}, pass : Pass, granted : BOOLEAN,
   marked : BOOLEAN]

(* Every variable holds a value of its kind.                                 *)
TypeOK ==
  /\ staff \subseteq Person
  /\ proved \subseteq Person
  /\ session \in Pass
  /\ remembered \in Person \cup {Nobody}
  /\ access \in [App -> Pass]
  /\ refresh \in [App -> Pass]
  /\ live \in [App -> BOOLEAN]
  /\ tab \in [Tab -> TabRecord]
  /\ lapses \in Nat
  /\ gone \subseteq Person
  /\ lasting \subseteq Person

(* A page is rendered with the token of the person it was admitted for,      *)
(* whoever used the browser before and whatever other tabs do meanwhile;     *)
(* proxy.ts compares the access token's subject alone, so a renewal may yet  *)
(* serve the token of a person before, but never of one who signed out, if   *)
(* the sign-out ended their grants.                                          *)
OwnPage ==
  [][\A t \in Tab : tab[t].place # "page" /\ tab'[t].place = "page" =>
       \/ tab'[t].pass.who = tab'[t].who
       \/ /\ tab[t].place = "renewing"
          /\ tab'[t].pass.who \in gone => tab'[t].pass.who \in lasting]_vars

(* A token that states the second factor belongs to somebody who passed it:  *)
(* neither a renewal nor a consent given in another person's session lends   *)
(* one person's level to another.                                            *)
AssuranceEarned ==
  /\ \A a \in App :
       /\ access[a].aal = 2 => access[a].who \in proved
       /\ refresh[a].aal = 2 => refresh[a].who \in proved
  /\ \A t \in Tab : tab[t].pass.aal = 2 => tab[t].pass.who \in proved

(* Once somebody has signed out, no grant of theirs made in this browser is  *)
(* left standing, in either app's cookies or on its way to them, whatever    *)
(* other tabs do meanwhile: unless a revocation failed, or they consented in *)
(* another tab after the revocations and before Kratos ended the session.    *)
SignedOutForGood ==
  \A p \in gone \ lasting :
    /\ \A a \in App : ~(live[a] /\ refresh[a].who = p)
    /\ \A t \in Tab : ~(tab[t].granted /\ tab[t].pass.who = p)

(* Gates, flows and handlers never send a browser round without somebody     *)
(* acting: every visit ends on a page or a dead end, if the screens on the   *)
(* way are completed.                                                        *)
VisitEnds ==
  \A t \in Tab : tab[t].place = "gate" ~> tab[t].place \in {"page", "denied"}
=============================================================================
