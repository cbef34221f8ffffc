------------------------ MODULE SharedBrowserProofs -------------------------
(***************************************************************************)
(* What SharedBrowser promises for any people, tabs, faults and expiries:  *)
(* types and assurance from one invariant; whose token a page is served    *)
(* with, and what a sign-out ends, from a second one about where grants    *)
(* stand and for whom.                                                     *)
(***************************************************************************)
EXTENDS SharedBrowser, TLAPS

EarnedIn(pass, people) == pass.aal = 2 => pass.who \in people

(* The session is somebody's, at a level they passed.                        *)
SessionEarned ==
  /\ session # None => session.who \in Person
  /\ EarnedIn(session, proved)

(* A tab is at an app there is, or on its way out through the id app.        *)
AtItsApp ==
  \A t \in Tab : tab[t].app \in App \/ tab[t].place \in {"logout", "leaving"}

IInv == TypeOK /\ SessionEarned /\ AtItsApp /\ AssuranceEarned

-----------------------------------------------------------------------------
LEMMA BlankType == Blank \in TabRecord /\ Blank.app \in App /\ Blank.pass = None
                   /\ Blank.granted = FALSE /\ Blank.place = "away"
<1>1. (CHOOSE a \in App : TRUE) \in App
  BY BrowserAssumption
<1> QED
  BY <1>1 DEF Blank, TabRecord, Place, Resting, Pass, None

LEMMA DeadEndType == DeadEnd \in TabRecord /\ DeadEnd.app \in App /\ DeadEnd.pass = None
                     /\ DeadEnd.granted = FALSE /\ DeadEnd.place = "denied"
  BY BlankType DEF DeadEnd, TabRecord, Place, Resting

LEMMA NoneType == None \in Pass /\ None.aal = 0 /\ None.who = Nobody
  BY DEF None, Pass

(* What a tab may be taken to without weakening the invariant.               *)
Sound(new, people) ==
  /\ new \in TabRecord
  /\ new.app \in App \/ new.place \in {"logout", "leaving"}
  /\ EarnedIn(new.pass, people)

(* A redirect to a sound place keeps what concerns the tabs.                 *)
LEMMA TabStep ==
  ASSUME IInv, NEW t \in Tab, NEW new, Redirect(t, new), proved \subseteq proved',
         Sound(new, proved')
  PROVE  /\ tab' \in [Tab -> TabRecord]
         /\ \A u \in Tab : Sound(tab'[u], proved')
<1>1. tab' = [tab EXCEPT ![t] = new] /\ tab \in [Tab -> TabRecord]
  BY DEF Redirect, IInv, TypeOK
<1>2. \A u \in Tab : Sound(tab[u], proved')
  BY DEF IInv, TypeOK, AtItsApp, AssuranceEarned, Sound, EarnedIn
<1>3. new \in TabRecord
  BY DEF Sound
<1> QED
  BY <1>1, <1>2, <1>3

(* The invariant of the next state, from its parts.                          *)
LEMMA Assemble ==
  ASSUME staff' \subseteq Person, proved' \subseteq Person, session' \in Pass,
         remembered' \in Person \cup {Nobody},
         access' \in [App -> Pass], refresh' \in [App -> Pass], live' \in [App -> BOOLEAN],
         lapses' \in Nat, gone' \subseteq Person, lasting' \subseteq Person,
         session' # None => session'.who \in Person, EarnedIn(session', proved'),
         \A a \in App : EarnedIn(access'[a], proved') /\ EarnedIn(refresh'[a], proved'),
         tab' \in [Tab -> TabRecord], \A u \in Tab : Sound(tab'[u], proved')
  PROVE  IInv'
  BY DEF IInv, TypeOK, SessionEarned, AtItsApp, AssuranceEarned, Sound, EarnedIn, None

(* The same where only the tab and one app's cookies change.                 *)
LEMMA Walk ==
  ASSUME IInv, NEW t \in Tab, NEW new, Redirect(t, new), Sound(new, proved),
         UNCHANGED <<staff, proved, session, lapses>>,
         remembered' \in Person \cup {Nobody}, gone' \subseteq Person,
         lasting' \subseteq Person,
         \/ UNCHANGED jarVars
         \/ \E a \in {"console", "id"}, pass \in Pass :
              SetTokens(a, pass) /\ EarnedIn(pass, proved)
  PROVE  IInv'
<1>1. /\ tab' \in [Tab -> TabRecord]
      /\ \A u \in Tab : Sound(tab'[u], proved')
  BY TabStep
<1>2. /\ access \in [App -> Pass] /\ refresh \in [App -> Pass] /\ live \in [App -> BOOLEAN]
      /\ \A a \in App : EarnedIn(access[a], proved) /\ EarnedIn(refresh[a], proved)
  BY DEF IInv, TypeOK, AssuranceEarned, EarnedIn
<1>3. /\ access' \in [App -> Pass] /\ refresh' \in [App -> Pass] /\ live' \in [App -> BOOLEAN]
      /\ \A a \in App : EarnedIn(access'[a], proved') /\ EarnedIn(refresh'[a], proved')
  <2>1. CASE UNCHANGED jarVars
    BY <1>2, <2>1 DEF jarVars
  <2>2. ASSUME NEW a \in {"console", "id"}, NEW pass \in Pass, SetTokens(a, pass),
               EarnedIn(pass, proved)
        PROVE <1>3!:
    BY <1>2, <2>2 DEF SetTokens
  <2> QED
    BY <2>1, <2>2
<1>4. /\ staff' \subseteq Person /\ proved' \subseteq Person /\ session' \in Pass
      /\ lapses' \in Nat
      /\ session' # None => session'.who \in Person
      /\ EarnedIn(session', proved')
  BY DEF IInv, TypeOK, SessionEarned, None
<1> QED
  BY <1>1, <1>3, <1>4, Assemble

LEMMA Initially == Init => IInv
<1> SUFFICES ASSUME Init PROVE IInv
  OBVIOUS
<1> QED
  BY BlankType, NoneType, BrowserAssumption
     DEF Init, IInv, TypeOK, SessionEarned, AtItsApp, AssuranceEarned, EarnedIn

-----------------------------------------------------------------------------
(* What the tab brings along is sound, and so is where it stands still.      *)
LEMMA OldTab ==
  ASSUME IInv, NEW t \in Tab
  PROVE  tab[t] \in TabRecord /\ EarnedIn(tab[t].pass, proved)
  BY DEF IInv, TypeOK, AssuranceEarned, EarnedIn

(* A tab at its app, taken elsewhere as it is or with another sound pass.    *)
LEMMA SoundAt ==
  ASSUME IInv, NEW t \in Tab, tab[t].app \in App, NEW place \in Place
  PROVE  /\ Sound(At(t, place), proved)
         /\ \A pass \in Pass : EarnedIn(pass, proved)
              => Sound([At(t, place) EXCEPT !.pass = pass], proved)
<1>1. At(t, place) \in TabRecord /\ At(t, place).app = tab[t].app
      /\ At(t, place).pass = tab[t].pass
  BY OldTab DEF At, TabRecord
<1>2. Sound(At(t, place), proved)
  BY <1>1, OldTab DEF Sound
<1>3. ASSUME NEW pass \in Pass, EarnedIn(pass, proved)
      PROVE  Sound([At(t, place) EXCEPT !.pass = pass], proved)
  <2>1. /\ [At(t, place) EXCEPT !.pass = pass] \in TabRecord
        /\ [At(t, place) EXCEPT !.pass = pass].app = tab[t].app
        /\ [At(t, place) EXCEPT !.pass = pass].pass = pass
    BY <1>1 DEF TabRecord
  <2> QED
    BY <1>3, <2>1 DEF Sound
<1> QED
  BY <1>2, <1>3

(* A dead end, and the way back from a screen, are sound.                    *)
LEMMA DeadEndSound == Sound(DeadEnd, proved)
  BY DeadEndType, NoneType DEF Sound, EarnedIn

LEMMA ResumeIs ==
  ASSUME IInv, NEW t \in Tab
  PROVE  /\ Resume(t) \in TabRecord
         /\ Resume(t).place = tab[t].back /\ Resume(t).app = tab[t].app
         /\ Resume(t).pass = tab[t].pass /\ Resume(t).granted = tab[t].granted
         /\ tab[t].back \in {"gate", "authorize", "callback"}
<1>1. tab[t].back \in {"gate", "authorize", "callback"} /\ tab[t] \in TabRecord
  BY OldTab DEF TabRecord
<1>2. /\ At(t, tab[t].back) \in TabRecord
      /\ At(t, tab[t].back).place = tab[t].back /\ At(t, tab[t].back).app = tab[t].app
      /\ At(t, tab[t].back).pass = tab[t].pass /\ At(t, tab[t].back).granted = tab[t].granted
  BY <1>1 DEF At, TabRecord, Place, Resting
<1> QED
  BY <1>1, <1>2 DEF Resume, TabRecord

LEMMA ResumeSound ==
  ASSUME IInv, NEW t \in Tab, tab[t].app \in App, proved \subseteq proved'
  PROVE  Sound(Resume(t), proved')
  BY ResumeIs, OldTab DEF Sound, EarnedIn

(* Hydra names a person, at no level yet.                                    *)
LEMMA NamedPass ==
  ASSUME NEW p \in Person \cup {Nobody}
  PROVE  [who |-> p, aal |-> 0] \in Pass /\ EarnedIn([who |-> p, aal |-> 0], proved)
  BY DEF Pass, EarnedIn

LEMMA RefuseStep ==
  ASSUME IInv, NEW t \in Tab, NEW d \in {"signin", "denied", "stepup", "admitted"},
         Refuse(t, d), tab[t].app \in App, tab[t].place \in {"gate", "authorize", "callback"},
         UNCHANGED <<staff, proved, session, remembered, lapses, gone, lasting>>
  PROVE  IInv'
<1> DEFINE new == IF d = "denied" THEN DeadEnd ELSE [At(t, d) EXCEPT !.back = tab[t].place]
<1>1. Redirect(t, new) /\ UNCHANGED jarVars /\ d # "admitted"
  BY DEF Refuse
<1>2. Sound(new, proved)
  <2>1. CASE d = "denied"
    BY <2>1, DeadEndSound
  <2>2. CASE d # "denied"
    BY <1>1, <2>2, OldTab DEF Sound, At, TabRecord, Place, Resting
  <2> QED
    BY <2>1, <2>2
<1>3. remembered' \in Person \cup {Nobody} /\ gone' \subseteq Person /\ lasting' \subseteq Person
  BY DEF IInv, TypeOK
<1> HIDE DEF new
<1> QED
  BY <1>1, <1>2, <1>3, Walk

LEMMA AdmissionKind == Admission \in {"signin", "denied", "stepup", "admitted"}
  BY DEF Admission

LEMMA AdmissionsKind == Admissions \subseteq {"signin", "denied", "stepup", "admitted"}
  BY AdmissionKind DEF Admissions

LEMMA ConsoleGateStep ==
  ASSUME IInv, NEW t \in Tab, ConsoleGate(t)
  PROVE  IInv'
<1>1. /\ tab[t].place = "gate" /\ tab[t].app = "console" /\ "console" \in App
      /\ UNCHANGED <<staff, proved, session, remembered, lapses, gone, lasting>>
  BY DEF ConsoleGate, IInv, AtItsApp
<1>2. ASSUME NEW d \in Admissions, Refuse(t, d) PROVE IInv'
  BY <1>1, <1>2, AdmissionsKind, RefuseStep
<1>3. ASSUME PlatformGuard(t) PROVE IInv'
  <2>1. /\ remembered' \in Person \cup {Nobody} /\ gone' \subseteq Person
        /\ lasting' \subseteq Person
        /\ session.who \in Person \cup {Nobody}
        /\ access["console"] \in Pass /\ refresh["console"] \in Pass
        /\ live["console"] \in BOOLEAN
        /\ EarnedIn(access["console"], proved) /\ EarnedIn(refresh["console"], proved)
    BY <1>1 DEF IInv, TypeOK, AssuranceEarned, EarnedIn, Pass
  <2>2. Sound(At(t, "authorize"), proved)
    BY <1>1, OldTab DEF Sound, At, TabRecord, Place, Resting
  <2>3. Sound([At(t, "page") EXCEPT !.who = session.who, !.pass = access["console"]], proved)
    BY <1>1, <2>1, OldTab DEF Sound, At, TabRecord, Place, Resting
  <2>4. Sound([At(t, "renewing") EXCEPT !.who = session.who, !.pass = refresh["console"],
                 !.granted = live["console"]], proved)
    BY <1>1, <2>1, OldTab DEF Sound, At, TabRecord, Place, Resting
  <2>5. CASE SetTokens("console", None) /\ Redirect(t, At(t, "authorize"))
    BY <1>1, <2>1, <2>2, <2>5, NoneType, Walk DEF EarnedIn
  <2>6. CASE Redirect(t, At(t, "authorize")) /\ UNCHANGED jarVars
    BY <1>1, <2>1, <2>2, <2>6, Walk
  <2>7. CASE /\ Redirect(t, [At(t, "page") EXCEPT !.who = session.who,
                               !.pass = access["console"]])
             /\ UNCHANGED jarVars
    BY <1>1, <2>1, <2>3, <2>7, Walk
  <2>8. CASE /\ Redirect(t, [At(t, "renewing") EXCEPT !.who = session.who,
                               !.pass = refresh["console"], !.granted = live["console"]])
             /\ UNCHANGED jarVars
    BY <1>1, <2>1, <2>4, <2>8, Walk
  <2> QED
    BY <1>3, <2>5, <2>6, <2>7, <2>8 DEF PlatformGuard
<1> QED
  BY <1>2, <1>3 DEF ConsoleGate

LEMMA RenewStep ==
  ASSUME IInv, NEW t \in Tab, Renew(t)
  PROVE  IInv'
<1>1. /\ tab[t].place = "renewing" /\ tab[t].app \in App
      /\ UNCHANGED <<staff, proved, session, remembered, lapses, gone, lasting>>
      /\ remembered' \in Person \cup {Nobody} /\ gone' \subseteq Person
      /\ lasting' \subseteq Person
      /\ tab[t].pass \in Pass /\ EarnedIn(tab[t].pass, proved)
  BY OldTab DEF Renew, IInv, TypeOK, AtItsApp, TabRecord
<1> DEFINE again == [Blank EXCEPT !.place = "authorize", !.app = tab[t].app]
<1>2. Sound(At(t, "page"), proved) /\ Sound(again, proved)
  <2>1. Sound(At(t, "page"), proved)
    BY <1>1, OldTab DEF Sound, At, TabRecord, Place, Resting
  <2>2. again \in TabRecord /\ again.app = tab[t].app /\ again.pass = None
    BY <1>1, BlankType DEF TabRecord, Place, Resting
  <2> QED
    BY <1>1, <2>1, <2>2, NoneType DEF Sound, EarnedIn
<1>3. CASE SetTokens("console", tab[t].pass) /\ Redirect(t, At(t, "page"))
  BY <1>1, <1>2, <1>3, Walk
<1>4. CASE Redirect(t, again) /\ UNCHANGED jarVars
  BY <1>1, <1>2, <1>4, Walk
<1> QED
  BY <1>3, <1>4 DEF Renew

LEMMA PlatformGateStep ==
  ASSUME IInv, NEW t \in Tab, PlatformGate(t)
  PROVE  IInv'
<1>1. /\ tab[t].place = "gate" /\ tab[t].app = "id" /\ "id" \in App
      /\ UNCHANGED <<staff, proved, session, remembered, jarVars, lapses, gone, lasting>>
      /\ remembered' \in Person \cup {Nobody} /\ gone' \subseteq Person
      /\ lasting' \subseteq Person
      /\ session.who \in Person \cup {Nobody}
      /\ access["id"] \in Pass /\ EarnedIn(access["id"], proved)
  BY DEF PlatformGate, IInv, TypeOK, AtItsApp, AssuranceEarned, EarnedIn, Pass
<1>2. ASSUME NEW new, Redirect(t, new),
             new \in {[At(t, "signin") EXCEPT !.back = "gate", !.marked = FALSE],
                      [At(t, "page") EXCEPT !.who = session.who, !.pass = access["id"]],
                      [At(t, "authorize") EXCEPT !.marked = TRUE]}
      PROVE IInv'
  <2>1. /\ new \in TabRecord /\ new.app = "id"
        /\ new.pass = tab[t].pass \/ new.pass = access["id"]
    BY <1>1, <1>2, OldTab DEF At, TabRecord, Place, Resting
  <2>2. Sound(new, proved)
    BY <1>1, <2>1, OldTab DEF Sound
  <2> QED
    BY <1>1, <1>2, <2>2, Walk
<1>3. CASE Redirect(t, [At(t, "signin") EXCEPT !.back = "gate", !.marked = FALSE])
  BY <1>2, <1>3
<1>4. CASE Redirect(t, [At(t, "page") EXCEPT !.who = session.who, !.pass = access["id"]])
  BY <1>2, <1>4
<1>5. CASE Redirect(t, [At(t, "authorize") EXCEPT !.marked = TRUE])
  BY <1>2, <1>5
<1>6. CASE Redirect(t, DeadEnd)
  BY <1>1, <1>6, DeadEndSound, Walk
<1> QED
  BY <1>3, <1>4, <1>5, <1>6 DEF PlatformGate

LEMMA SignInStep ==
  ASSUME IInv, NEW t \in Tab, SignIn(t)
  PROVE  IInv'
<1>1. /\ tab[t].app \in App /\ tab[t].back \in {"gate", "authorize", "callback"}
      /\ UNCHANGED <<staff, proved, session, remembered, jarVars, lapses, gone, lasting>>
      /\ remembered' \in Person \cup {Nobody} /\ gone' \subseteq Person
      /\ lasting' \subseteq Person
  BY OldTab DEF SignIn, IInv, TypeOK, AtItsApp, TabRecord
<1>2. Sound(At(t, "screen"), proved) /\ Sound(Resume(t), proved)
  BY <1>1, OldTab, ResumeSound DEF Sound, At, TabRecord, Place, Resting
<1>3. CASE Redirect(t, At(t, "screen"))
  BY <1>1, <1>2, <1>3, Walk
<1>4. CASE Redirect(t, Resume(t))
  BY <1>1, <1>2, <1>4, Walk
<1> QED
  BY <1>3, <1>4 DEF SignIn

(* Where the session changes, and nothing of the jar.                        *)
LEMMA SessionStep ==
  ASSUME IInv, UNCHANGED <<staff, jarVars>>, lapses' \in Nat,
         gone' \subseteq Person, lasting' \subseteq Person,
         remembered' \in Person \cup {Nobody},
         proved \subseteq proved', proved' \subseteq Person,
         session' \in Pass, session' # None => session'.who \in Person,
         EarnedIn(session', proved'),
         tab' \in [Tab -> TabRecord], \A u \in Tab : Sound(tab'[u], proved')
  PROVE  IInv'
<1>1. /\ staff' \subseteq Person
      /\ access' \in [App -> Pass] /\ refresh' \in [App -> Pass] /\ live' \in [App -> BOOLEAN]
      /\ \A a \in App : EarnedIn(access'[a], proved') /\ EarnedIn(refresh'[a], proved')
  BY DEF IInv, TypeOK, AssuranceEarned, EarnedIn, jarVars
<1> QED
  BY <1>1, Assemble

LEMMA AuthenticateStep ==
  ASSUME IInv, NEW t \in Tab, NEW p \in Person, Authenticate(t, p)
  PROVE  IInv'
<1>1. /\ tab[t].app \in App /\ tab[t].back \in {"gate", "authorize", "callback"}
      /\ UNCHANGED <<staff, proved, jarVars, lapses>> /\ lapses' \in Nat
      /\ proved' \subseteq Person
      /\ remembered' \in Person \cup {Nobody} /\ gone' \subseteq Person
      /\ lasting' \subseteq Person
  BY OldTab DEF Authenticate, IInv, TypeOK, AtItsApp, TabRecord
<1>2. /\ session' \in Pass /\ session'.who \in Person
      /\ EarnedIn(session', proved')
  BY <1>1 DEF Authenticate, Authenticated, Pass, IInv, TypeOK, SessionEarned, EarnedIn
<1>3. /\ Sound(Resume(t), proved)
      /\ Sound([At(t, "consent") EXCEPT !.pass = [who |-> p, aal |-> 0]], proved)
  BY <1>1, ResumeSound, SoundAt, NamedPass DEF Place, Resting
<1>4. \/ Redirect(t, Resume(t))
      \/ Redirect(t, [At(t, "consent") EXCEPT !.pass = [who |-> p, aal |-> 0]])
  BY DEF Authenticate
<1>5. tab' \in [Tab -> TabRecord] /\ \A u \in Tab : Sound(tab'[u], proved')
  BY <1>1, <1>3, <1>4, TabStep
<1> QED
  BY <1>1, <1>2, <1>5, SessionStep

LEMMA StepUpStep ==
  ASSUME IInv, NEW t \in Tab, StepUp(t)
  PROVE  IInv'
<1>1. /\ tab[t].app \in App /\ tab[t].back \in {"gate", "authorize", "callback"}
      /\ UNCHANGED <<staff, remembered, jarVars, lapses, gone, lasting>> /\ lapses' \in Nat
      /\ remembered' \in Person \cup {Nobody} /\ gone' \subseteq Person
      /\ lasting' \subseteq Person
  BY OldTab DEF StepUp, IInv, TypeOK, AtItsApp, TabRecord
<1>2. /\ proved \subseteq proved' /\ proved' \subseteq Person
      /\ session' \in Pass
      /\ session' # None => session'.who \in Person
      /\ EarnedIn(session', proved')
  <2>1. CASE session = None
    BY <2>1 DEF StepUp, IInv, TypeOK, SessionEarned
  <2>2. CASE session # None
    <3>1. session.who \in Person /\ session \in Pass /\ proved \subseteq Person
      BY <2>2 DEF IInv, TypeOK, SessionEarned
    <3>2. session' = [session EXCEPT !.aal = 2] /\ proved' = proved \cup {session.who}
      BY <2>2 DEF StepUp
    <3> QED
      BY <3>1, <3>2 DEF Pass, EarnedIn
  <2> QED
    BY <2>1, <2>2
<1>3. Sound(At(t, "screen"), proved') /\ Sound(Resume(t), proved')
  BY <1>1, <1>2, OldTab, ResumeSound DEF Sound, At, TabRecord, Place, Resting, EarnedIn
<1>4. Redirect(t, At(t, "screen")) \/ Redirect(t, Resume(t))
  BY DEF StepUp
<1>5. tab' \in [Tab -> TabRecord] /\ \A u \in Tab : Sound(tab'[u], proved')
  BY <1>2, <1>3, <1>4, TabStep
<1>6. UNCHANGED <<staff, jarVars>> /\ lapses' \in Nat
  BY <1>1
<1> QED
  BY ONLY IInv, <1>1, <1>2, <1>5, <1>6, SessionStep

LEMMA AuthorizeStep ==
  ASSUME IInv, NEW t \in Tab, Authorize(t)
  PROVE  IInv'
<1>1. /\ tab[t].place = "authorize" /\ tab[t].app \in App
      /\ UNCHANGED <<staff, proved, session, remembered, lapses, gone, lasting>>
      /\ remembered \in Person \cup {Nobody} /\ gone' \subseteq Person
      /\ lasting' \subseteq Person
  BY DEF Authorize, IInv, TypeOK, AtItsApp
<1>2. ASSUME NEW d \in Admissions, Refuse(t, d) PROVE IInv'
  BY <1>1, <1>2, AdmissionsKind, RefuseStep
<1>3. /\ Sound([At(t, "consent") EXCEPT !.pass = [who |-> remembered, aal |-> 0]], proved)
      /\ Sound(At(t, "confirm"), proved)
  BY <1>1, SoundAt, NamedPass DEF Place, Resting
<1>4. CASE /\ Redirect(t, [At(t, "consent") EXCEPT !.pass = [who |-> remembered, aal |-> 0]])
           /\ UNCHANGED jarVars
  BY <1>1, <1>3, <1>4, Walk
<1>5. CASE Redirect(t, At(t, "confirm")) /\ UNCHANGED jarVars
  BY <1>1, <1>3, <1>5, Walk
<1> QED
  BY <1>2, <1>4, <1>5 DEF Authorize

LEMMA ConsentStep ==
  ASSUME IInv, NEW t \in Tab, Consent(t)
  PROVE  IInv'
<1>1. /\ tab[t].place = "consent" /\ tab[t].app \in App
      /\ UNCHANGED <<staff, proved, session, remembered, jarVars, lapses, gone>>
      /\ remembered' \in Person \cup {Nobody} /\ gone' \subseteq Person
      /\ session \in Pass /\ EarnedIn(session, proved)
  BY DEF Consent, IInv, TypeOK, AtItsApp, SessionEarned
<1>a. lasting' \subseteq Person
  <2>1. \A u \in Tab : tab[u].who \in Person \cup {Nobody}
    BY OldTab DEF TabRecord
  <2>2. lasting \subseteq Person /\ session \in Pass
    BY DEF IInv, TypeOK
  <2>3. session # None => session.who \in Person
    BY DEF IInv, SessionEarned
  <2> QED
    BY <2>1, <2>2, <2>3 DEF Consent
<1> DEFINE granted == [At(t, "callback") EXCEPT !.pass.aal = session.aal, !.granted = TRUE]
<1>2. CASE session.who = tab[t].pass.who /\ Redirect(t, granted)
  <2>1. granted \in TabRecord /\ granted.app = tab[t].app /\ granted.pass.aal = session.aal
        /\ granted.pass.who = tab[t].pass.who
    <3>1. At(t, "callback") \in TabRecord /\ At(t, "callback").pass = tab[t].pass
          /\ At(t, "callback").app = tab[t].app
      BY OldTab DEF At, TabRecord, Place, Resting
    <3>2. session.aal \in 0..2
      BY <1>1 DEF Pass
    <3> QED
      BY <3>1, <3>2 DEF TabRecord, Pass
  <2>2. Sound(granted, proved)
    BY <1>1, <1>2, <2>1 DEF Sound, EarnedIn
  <2> QED
    BY <1>1, <1>a, <1>2, <2>2, Walk
<1>3. CASE Redirect(t, DeadEnd)
  BY <1>1, <1>a, <1>3, DeadEndSound, Walk
<1> QED
  BY <1>2, <1>3 DEF Consent

LEMMA CallbackStep ==
  ASSUME IInv, NEW t \in Tab, Callback(t)
  PROVE  IInv'
<1>1. /\ tab[t].place = "callback" /\ tab[t].app \in App
      /\ UNCHANGED <<staff, proved, session, remembered, lapses, gone, lasting>>
      /\ remembered' \in Person \cup {Nobody} /\ gone' \subseteq Person
      /\ lasting' \subseteq Person
  BY DEF Callback, IInv, TypeOK, AtItsApp
<1>2. ASSUME NEW d \in Admissions, Refuse(t, d) PROVE IInv'
  BY <1>1, <1>2, AdmissionsKind, RefuseStep
<1>3. CASE /\ Redirect(t, At(t, IF tab[t].granted THEN "landing" ELSE "authorize"))
           /\ UNCHANGED jarVars
  <2>1. Sound(At(t, IF tab[t].granted THEN "landing" ELSE "authorize"), proved)
    BY <1>1, OldTab DEF Sound, At, TabRecord, Place, Resting
  <2> QED
    BY <1>1, <1>3, <2>1, Walk
<1> QED
  BY <1>2, <1>3 DEF Callback

LEMMA LandStep ==
  ASSUME IInv, NEW t \in Tab, Land(t)
  PROVE  IInv'
<1>1. /\ tab[t].place = "landing" /\ tab[t].app \in App
      /\ UNCHANGED <<staff, proved, session, remembered, lapses, gone, lasting>>
      /\ tab[t].pass \in Pass /\ EarnedIn(tab[t].pass, proved) /\ tab[t].granted \in BOOLEAN
  BY OldTab DEF Land, IInv, TypeOK, AtItsApp, TabRecord
<1> DEFINE new == [At(t, "gate") EXCEPT !.pass = None, !.granted = FALSE]
<1>2. Sound(new, proved)
  <2>1. new \in TabRecord /\ new.app = tab[t].app /\ new.pass = None
    BY <1>1, OldTab, NoneType DEF At, TabRecord, Place, Resting
  <2> QED
    BY <1>1, <2>1, NoneType DEF Sound, EarnedIn
<1>3. Redirect(t, new)
  BY DEF Land
<1> HIDE DEF new
<1>4. tab' \in [Tab -> TabRecord] /\ \A u \in Tab : Sound(tab'[u], proved')
  BY <1>1, <1>2, <1>3, TabStep
<1>5. /\ access' \in [App -> Pass] /\ refresh' \in [App -> Pass] /\ live' \in [App -> BOOLEAN]
      /\ \A a \in App : EarnedIn(access'[a], proved') /\ EarnedIn(refresh'[a], proved')
  <2>1. /\ access \in [App -> Pass] /\ refresh \in [App -> Pass] /\ live \in [App -> BOOLEAN]
        /\ \A a \in App : EarnedIn(access[a], proved) /\ EarnedIn(refresh[a], proved)
    BY DEF IInv, TypeOK, AssuranceEarned, EarnedIn
  <2> QED
    BY <1>1, <2>1 DEF Land
<1>6. /\ staff' \subseteq Person /\ proved' \subseteq Person /\ session' \in Pass
      /\ remembered' \in Person \cup {Nobody} /\ lapses' \in Nat
      /\ gone' \subseteq Person /\ lasting' \subseteq Person
      /\ session' # None => session'.who \in Person
      /\ EarnedIn(session', proved')
  BY <1>1 DEF IInv, TypeOK, SessionEarned
<1> QED
  BY <1>4, <1>5, <1>6, Assemble

LEMMA SignOutStep ==
  ASSUME IInv, NEW t \in Tab, SignOut(t)
  PROVE  IInv'
<1> DEFINE a    == tab[t].app
           p    == session.who
           away == [At(t, "leaving") EXCEPT !.who = p]
<1>1. /\ UNCHANGED <<staff, proved, session, lapses, gone>>
      /\ staff' \subseteq Person /\ proved' \subseteq Person /\ session' \in Pass
      /\ lapses' \in Nat /\ gone' \subseteq Person
      /\ session' # None => session'.who \in Person
      /\ EarnedIn(session', proved')
      /\ remembered' \in Person \cup {Nobody}
  BY DEF SignOut, IInv, TypeOK, SessionEarned
<1>a. lasting' \subseteq Person
  <2>1. lasting \subseteq Person /\ session.who \in Person \cup {Nobody}
    BY DEF IInv, TypeOK, Pass
  <2> QED
    BY <2>1 DEF SignOut
<1>2. /\ access' \in [App -> Pass] /\ refresh' \in [App -> Pass] /\ live' \in [App -> BOOLEAN]
      /\ \A b \in App : EarnedIn(access'[b], proved') /\ EarnedIn(refresh'[b], proved')
  <2>1. /\ access \in [App -> Pass] /\ refresh \in [App -> Pass] /\ live \in [App -> BOOLEAN]
        /\ \A b \in App : EarnedIn(access[b], proved) /\ EarnedIn(refresh[b], proved)
    BY DEF IInv, TypeOK, AssuranceEarned, EarnedIn
  <2>2. /\ access' = [access EXCEPT ![a] = None] /\ refresh' = [refresh EXCEPT ![a] = None]
    BY DEF SignOut
  <2>3. live' \in [App -> BOOLEAN]
    <3>1. live' = [b \in App |-> live[b] /\ b # a /\ refresh[b].who # p]
          \/ live' = [live EXCEPT ![a] = FALSE]
      BY DEF SignOut
    <3> QED
      BY <2>1, <3>1
  <2> QED
    <3> HIDE DEF a
    <3>1. access' \in [App -> Pass] /\ refresh' \in [App -> Pass]
      BY <2>1, <2>2, NoneType
    <3>2. \A b \in App : access'[b] \in {access[b], None} /\ refresh'[b] \in {refresh[b], None}
      BY <2>1, <2>2
    <3>3. EarnedIn(None, proved)
      BY NoneType DEF EarnedIn
    <3> QED
      BY <1>1, <2>1, <2>3, <3>1, <3>2, <3>3
<1>3. away \in TabRecord /\ away.place = "leaving" /\ away.pass = tab[t].pass
  <2>1. p \in Person \cup {Nobody}
    BY DEF IInv, TypeOK, Pass
  <2> QED
    BY <2>1, OldTab DEF At, TabRecord, Place, Resting
<1>4. Sound(away, proved)
  BY <1>3, OldTab DEF Sound
<1>5. tab' \in [Tab -> TabRecord] /\ \A u \in Tab : Sound(tab'[u], proved')
  <2>1. tab \in [Tab -> TabRecord] /\ \A u \in Tab : Sound(tab[u], proved)
    BY OldTab DEF IInv, TypeOK, AtItsApp, Sound
  <2>2. \A u \in Tab : Sound([tab[u] EXCEPT !.granted = FALSE], proved)
    BY <2>1 DEF Sound, TabRecord
  <2>3. \/ tab' = [u \in Tab |-> IF u = t THEN away
                     ELSE IF tab[u].pass.who = p
                          THEN [tab[u] EXCEPT !.granted = FALSE] ELSE tab[u]]
        \/ tab' = [tab EXCEPT ![t] = away]
    BY DEF SignOut
  <2>4. \A u \in Tab : tab'[u] \in {away, [tab[u] EXCEPT !.granted = FALSE], tab[u]}
    BY <2>1, <2>3
  <2>5. \A u \in Tab : Sound(tab'[u], proved)
    BY <1>4, <2>1, <2>2, <2>4
  <2>6. tab' \in [Tab -> TabRecord]
    <3> HIDE DEF away, p
    <3>1. \A u \in Tab : tab'[u] \in TabRecord
      BY <2>5 DEF Sound
    <3> QED
      BY <2>1, <2>3, <3>1
  <2> QED
    BY <1>1, <2>5, <2>6
<1> QED
  BY <1>1, <1>a, <1>2, <1>5, Assemble

LEMMA LeaveStep ==
  ASSUME IInv, NEW t \in Tab, Leave(t)
  PROVE  IInv'
<1>1. /\ UNCHANGED <<staff, proved, remembered, jarVars, lapses, lasting>> /\ lapses' \in Nat
      /\ remembered' \in Person \cup {Nobody} /\ proved' \subseteq Person
      /\ lasting' \subseteq Person
      /\ tab[t].place = "leaving"
  BY DEF Leave, IInv, TypeOK
<1>2. /\ session' \in Pass
      /\ session' # None => session'.who \in Person
      /\ EarnedIn(session', proved') /\ gone' \subseteq Person
  BY <1>1, NoneType DEF Leave, IInv, TypeOK, SessionEarned, EarnedIn
<1> DEFINE new == IF tab[t].app = "id" THEN Blank
                  ELSE [Blank EXCEPT !.place = "signin", !.app = tab[t].app]
<1>3. Sound(new, proved)
  <2>1. CASE tab[t].app = "id"
    BY <2>1, BlankType, NoneType DEF Sound, EarnedIn
  <2>2. CASE tab[t].app # "id"
    <3>1. tab[t].app \in App
      BY <2>2, OldTab DEF TabRecord
    <3>2. new \in TabRecord /\ new.app = tab[t].app /\ new.pass = None
      BY <2>2, <3>1, BlankType, NoneType DEF TabRecord, Place, Resting
    <3> QED
      BY <3>1, <3>2, NoneType DEF Sound, EarnedIn
  <2> QED
    BY <2>1, <2>2
<1>4. Redirect(t, new)
  BY DEF Leave
<1> HIDE DEF new
<1>5. tab' \in [Tab -> TabRecord] /\ \A u \in Tab : Sound(tab'[u], proved')
  BY <1>1, <1>3, <1>4, TabStep
<1>6. UNCHANGED <<staff, jarVars>>
  BY <1>1
<1>7. proved \subseteq proved'
  BY <1>1
<1> QED
  BY ONLY IInv, <1>1, <1>2, <1>5, <1>6, <1>7, SessionStep

LEMMA PeopleStep ==
  ASSUME IInv, NEW t \in Tab, NEW a \in App,
         Visit(t, a) \/ AskToLeave(t, a) \/ PlatformLogout(t, a)
  PROVE  IInv'
<1>1. /\ UNCHANGED <<staff, proved, session, lapses, lasting>>
      /\ remembered' \in Person \cup {Nobody} /\ gone' \subseteq Person
      /\ lasting' \subseteq Person
  BY DEF Visit, AskToLeave, PlatformLogout, IInv, TypeOK
<1>2. ASSUME NEW place \in {"gate", "logout"}, NEW b \in App \cup {"id"},
             b \in App \/ place = "logout"
      PROVE  Sound([Blank EXCEPT !.place = place, !.app = b], proved)
  <2>1. /\ [Blank EXCEPT !.place = place, !.app = b] \in TabRecord
        /\ [Blank EXCEPT !.place = place, !.app = b].app = b
        /\ [Blank EXCEPT !.place = place, !.app = b].place = place
        /\ [Blank EXCEPT !.place = place, !.app = b].pass = None
    BY <1>2, BlankType DEF TabRecord, Place, Resting
  <2> QED
    BY <1>2, <2>1, NoneType DEF Sound, EarnedIn
<1>3. CASE Visit(t, a)
  <2>1. Redirect(t, [Blank EXCEPT !.place = "gate", !.app = a]) /\ UNCHANGED jarVars
    BY <1>3 DEF Visit
  <2> QED
    BY <1>1, <1>2, <2>1, Walk
<1>4. CASE AskToLeave(t, a)
  <2>1. Redirect(t, [Blank EXCEPT !.place = "logout", !.app = a]) /\ UNCHANGED jarVars
    BY <1>4 DEF AskToLeave
  <2> QED
    BY <1>1, <1>2, <2>1, Walk
<1>5. CASE PlatformLogout(t, a)
  <2>1. SetTokens(a, None) /\ a \in {"console", "id"} /\ None \in Pass /\ EarnedIn(None, proved)
    BY <1>5, BrowserAssumption, NoneType DEF PlatformLogout, EarnedIn
  <2>2. CASE Redirect(t, [Blank EXCEPT !.place = "logout", !.app = "id"])
    BY <1>1, <1>2, <2>1, <2>2, Walk
  <2>3. CASE Redirect(t, [Blank EXCEPT !.place = "gate", !.app = a])
    BY <1>1, <1>2, <2>1, <2>3, Walk
  <2> QED
    BY <1>5, <2>2, <2>3 DEF PlatformLogout
<1> QED
  BY <1>3, <1>4, <1>5

LEMMA LapseStep ==
  ASSUME IInv,
         \/ \E a \in App : AccessLapses(a)
         \/ SessionLapses
         \/ \E p \in Person : LoseRole(p)
         \/ UNCHANGED vars
  PROVE  IInv'
<1> USE DEF IInv, TypeOK, SessionEarned, AtItsApp, AssuranceEarned, EarnedIn
<1>1. ASSUME NEW a \in App, AccessLapses(a) PROVE IInv'
  BY <1>1, NoneType DEF AccessLapses
<1>2. CASE SessionLapses
  BY <1>2, NoneType DEF SessionLapses, jarVars
<1>3. ASSUME NEW p \in Person, LoseRole(p) PROVE IInv'
  BY <1>3 DEF LoseRole, jarVars
<1>4. CASE UNCHANGED vars
  BY <1>4 DEF vars, jarVars
<1> QED
  BY <1>1, <1>2, <1>3, <1>4

LEMMA Inductive == IInv /\ [Next]_vars => IInv'
  BY ConsoleGateStep, RenewStep, PlatformGateStep, SignInStep, AuthenticateStep, StepUpStep,
     AuthorizeStep, ConsentStep, CallbackStep, LandStep, SignOutStep, LeaveStep, PeopleStep,
     LapseStep
  DEF Next, Follow

(* The invariant the theorems below rest on.                                 *)
THEOREM Invariant == Spec => []IInv
  BY Initially, Inductive, PTL DEF Spec

(* Every variable keeps its type.                                            *)
THEOREM TypeCorrect == Spec => []TypeOK
  BY Invariant, PTL DEF IInv

(* No token states a second factor its subject did not pass in this browser, *)
(* however many tabs and people share it.                                    *)
THEOREM LevelsAreEarned == Spec => []AssuranceEarned
  BY Invariant, PTL DEF IInv

-----------------------------------------------------------------------------
(* A grant stands in a cookie jar or on its way there.                       *)
Standing(p) ==
  \/ \E a \in App : live[a] /\ refresh[a].who = p
  \/ \E t \in Tab : tab[t].granted /\ tab[t].pass.who = p

(* Somebody on the way to Kratos to end their session.                       *)
Sent(p) == \E t \in Tab : tab[t].place = "leaving" /\ tab[t].who = p

(* Where a tab may carry a grant: from the consent to the jar, by way of a   *)
(* gate's screens if need be, and from the jar to a page.                    *)
MayCarry(at) ==
  \/ at.place \in {"renewing", "page", "callback", "landing"}
  \/ at.place \in {"signin", "screen", "stepup"} /\ at.back = "callback"

(* Whoever has left is not the one signed in, and of theirs, as of theirs    *)
(* who are on the way out, no grant stands that is not known to have lasted. *)
Gone ==
  /\ session.who \notin gone
  /\ \A t \in Tab : tab[t].granted => MayCarry(tab[t])
  /\ \A p \in Person : p \in gone \/ Sent(p) => p \in lasting \/ ~Standing(p)

(* A page is served to whom it was admitted for, or from a renewal.          *)
Served ==
  \A t \in Tab : tab[t].place # "page" /\ tab'[t].place = "page" =>
    \/ tab'[t].pass.who = tab'[t].who
    \/ /\ tab[t].place = "renewing"
       /\ tab'[t].pass.who \in gone => tab'[t].pass.who \in lasting

LEMMA AtIs ==
  ASSUME IInv, NEW t \in Tab, NEW place
  PROVE  /\ At(t, place).place = place /\ At(t, place).back = tab[t].back
         /\ At(t, place).granted = tab[t].granted /\ At(t, place).pass = tab[t].pass
  BY OldTab DEF At, TabRecord

(* A jar nobody writes a token to.                                           *)
LEMMA JarRests ==
  ASSUME IInv, UNCHANGED jarVars \/ \E a : SetTokens(a, None)
  PROVE  \A a \in App : live'[a] => live[a] /\ refresh'[a] = refresh[a]
  BY DEF SetTokens, jarVars, IInv, TypeOK

(* A tab goes on, with nothing granted, with what was granted before, or     *)
(* with a consent for somebody who is not on the way out.                    *)
LEMMA Moves ==
  ASSUME IInv, Gone, NEW t \in Tab, NEW new, Redirect(t, new), new.place # "leaving",
         new.granted =>
           /\ MayCarry(new)
           /\ \/ tab[t].granted /\ new.pass.who = tab[t].pass.who
              \/ \E a \in App : live[a] /\ new.pass.who = refresh[a].who
              \/ /\ new.pass.who \notin gone
                 /\ new.pass.who \in Person /\ Sent(new.pass.who)
                      => new.pass.who \in lasting',
         \/ new.place # "page"
         \/ new.pass.who = new.who
         \/ tab[t].place = "renewing" /\ (new.pass.who \in gone => new.pass.who \in lasting),
         gone' \subseteq gone, lasting \subseteq lasting', session'.who \notin gone',
         \A a \in App : live'[a] => \/ live[a] /\ refresh'[a] = refresh[a]
                                    \/ tab[t].granted /\ refresh'[a].who = tab[t].pass.who
  PROVE  Gone' /\ Served
<1>1. /\ tab' = [tab EXCEPT ![t] = new] /\ tab \in [Tab -> TabRecord]
      /\ gone \subseteq Person
  BY DEF Redirect, IInv, TypeOK
<1>2. Served
  BY <1>1 DEF Served
<1>3. \A u \in Tab : tab'[u].granted => MayCarry(tab'[u])
  BY <1>1 DEF Gone
<1>4. ASSUME NEW p \in Person, p \in gone' \/ Sent(p)', p \notin lasting', Standing(p)'
      PROVE  FALSE
  <2>1. p \in gone \/ Sent(p)
    BY <1>1, <1>4 DEF Sent
  <2>2. ~Standing(p)
    BY <1>4, <2>1 DEF Gone
  <2>3. PICK u \in Tab : tab'[u].granted /\ tab'[u].pass.who = p
    BY <1>4, <2>2 DEF Standing
  <2>4. u = t /\ new.granted /\ new.pass.who = p
    BY <1>1, <2>2, <2>3 DEF Standing
  <2> QED
    BY <1>4, <2>1, <2>2, <2>4 DEF Standing
<1> QED
  BY <1>2, <1>3, <1>4 DEF Gone

(* A tab that carries no grant, and takes none along.                        *)
LEMMA MovesEmpty ==
  ASSUME IInv, Gone, NEW t \in Tab, NEW new, Redirect(t, new),
         new.place \notin {"leaving", "page"}, ~new.granted,
         gone' \subseteq gone, lasting' = lasting, session'.who \notin gone',
         UNCHANGED jarVars \/ \E a : SetTokens(a, None)
  PROVE  Gone' /\ Served
  BY JarRests, Moves

(* A tab sent on as it is.                                                   *)
LEMMA MovesAt ==
  ASSUME IInv, Gone, NEW t \in Tab, NEW place, Redirect(t, At(t, place)),
         place \notin {"leaving", "page"}, ~tab[t].granted,
         UNCHANGED <<session, gone, lasting>>,
         UNCHANGED jarVars \/ \E a : SetTokens(a, None)
  PROVE  Gone' /\ Served
<1>1. At(t, place).place = place /\ ~At(t, place).granted
  BY AtIs
<1>2. session'.who \notin gone'
  BY DEF Gone
<1> QED
  BY <1>1, <1>2, MovesEmpty

LEMMA RefuseMoves ==
  ASSUME IInv, Gone, NEW t \in Tab, NEW d \in Admissions, Refuse(t, d),
         UNCHANGED <<session, gone, lasting>>,
         tab[t].place \in {"gate", "authorize", "callback"}
  PROVE  Gone' /\ Served
<1> DEFINE back == [At(t, d) EXCEPT !.back = tab[t].place]
<1>1. /\ Redirect(t, IF d = "denied" THEN DeadEnd ELSE back)
      /\ UNCHANGED jarVars /\ d \in {"signin", "denied", "stepup"}
  BY AdmissionsKind DEF Refuse
<1>2. session'.who \notin gone'
  BY DEF Gone
<1>3. CASE d = "denied"
  BY <1>1, <1>2, <1>3, DeadEndType, MovesEmpty
<1>4. CASE d # "denied"
  <2>1. /\ back.place = d /\ back.granted = tab[t].granted /\ back.pass = tab[t].pass
        /\ back.back = tab[t].place
    BY OldTab DEF At, TabRecord
  <2>2. Redirect(t, back)
    BY <1>1, <1>4
  <2> HIDE DEF back
  <2>3. back.granted => MayCarry(back)
    BY <1>1, <1>4, <2>1 DEF Gone, MayCarry
  <2> QED
    BY <1>1, <1>2, <1>4, <2>1, <2>2, <2>3, JarRests, Moves
<1> QED
  BY <1>3, <1>4

(* Back from a screen, with what was granted before it, if anything was.     *)
LEMMA ResumeMoves ==
  ASSUME IInv, Gone, NEW t \in Tab, tab[t].place \in {"signin", "screen", "stepup"},
         Redirect(t, Resume(t)) \/ Redirect(t, At(t, "screen")),
         gone' \subseteq gone, lasting' = lasting, session'.who \notin gone',
         UNCHANGED jarVars
  PROVE  Gone' /\ Served
<1>1. tab[t].granted => tab[t].back = "callback"
  BY DEF Gone, MayCarry
<1>2. CASE Redirect(t, Resume(t))
  <2>1. Resume(t).granted => MayCarry(Resume(t))
    BY <1>1, ResumeIs DEF MayCarry
  <2>2. Resume(t).place \notin {"leaving", "page"}
    BY ResumeIs
  <2> QED
    BY <1>2, <2>1, <2>2, ResumeIs, JarRests, Moves
<1>3. CASE Redirect(t, At(t, "screen"))
  <2>1. At(t, "screen").granted => MayCarry(At(t, "screen"))
    BY <1>1, AtIs DEF MayCarry
  <2> QED
    BY <1>3, <2>1, AtIs, JarRests, Moves
<1> QED
  BY <1>2, <1>3

-----------------------------------------------------------------------------
LEMMA GuardMoves ==
  ASSUME IInv, Gone, NEW t \in Tab, tab[t].place = "gate", "console" \in App,
         PlatformGuard(t), UNCHANGED <<session, gone, lasting>>
  PROVE  Gone' /\ Served
<1> DEFINE page  == [At(t, "page") EXCEPT !.who = session.who, !.pass = access["console"]]
           renew == [At(t, "renewing") EXCEPT !.who = session.who,
                       !.pass = refresh["console"], !.granted = live["console"]]
<1>1. ~tab[t].granted /\ session'.who \notin gone'
  BY DEF Gone, MayCarry
<1>2. /\ page.place = "page" /\ page.granted = tab[t].granted
      /\ page.pass = access["console"] /\ page.who = session.who
      /\ renew.place = "renewing" /\ renew.granted = live["console"]
      /\ renew.pass = refresh["console"]
  BY OldTab DEF At, TabRecord
<1>3. CASE Redirect(t, At(t, "authorize")) /\ (SetTokens("console", None) \/ UNCHANGED jarVars)
  BY <1>1, <1>3, MovesAt
<1>4. CASE access["console"].who = session.who /\ Redirect(t, page) /\ UNCHANGED jarVars
  <2> HIDE DEF page
  <2> QED
    BY <1>1, <1>2, <1>4, JarRests, Moves
<1>5. CASE Redirect(t, renew) /\ UNCHANGED jarVars
  <2> HIDE DEF renew
  <2>1. MayCarry(renew)
    BY <1>2 DEF MayCarry
  <2> QED
    BY <1>1, <1>2, <1>5, <2>1, JarRests, Moves
<1> QED
  BY <1>3, <1>4, <1>5 DEF PlatformGuard

LEMMA RenewMoves ==
  ASSUME IInv, Gone, NEW t \in Tab, Renew(t)
  PROVE  Gone' /\ Served
<1>1. session'.who \notin gone' /\ UNCHANGED <<gone, lasting>>
  BY DEF Renew, Gone
<1>2. CASE tab[t].granted /\ SetTokens("console", tab[t].pass) /\ Redirect(t, At(t, "page"))
  <2>1. tab[t].pass.who \in gone => tab[t].pass.who \in lasting
    <3>1. gone \subseteq Person
      BY DEF IInv, TypeOK
    <3> QED
      BY <1>2, <3>1 DEF Gone, Standing
  <2>2. \A a \in App : live'[a] => \/ live[a] /\ refresh'[a] = refresh[a]
                                   \/ tab[t].granted /\ refresh'[a].who = tab[t].pass.who
    BY <1>2 DEF SetTokens, IInv, TypeOK
  <2>3. MayCarry(At(t, "page")) /\ tab[t].place = "renewing"
    BY AtIs DEF MayCarry, Renew
  <2> QED
    BY <1>1, <1>2, <2>1, <2>2, <2>3, AtIs, Moves
<1>3. CASE /\ Redirect(t, [Blank EXCEPT !.place = "authorize", !.app = tab[t].app])
           /\ UNCHANGED jarVars
  <2> DEFINE again == [Blank EXCEPT !.place = "authorize", !.app = tab[t].app]
  <2>1. again.place = "authorize" /\ ~again.granted
    BY BlankType DEF TabRecord
  <2> HIDE DEF again
  <2> QED
    BY <1>1, <1>3, <2>1, MovesEmpty DEF again
<1> QED
  BY <1>2, <1>3 DEF Renew

LEMMA PlatformGateMoves ==
  ASSUME IInv, Gone, NEW t \in Tab, PlatformGate(t)
  PROVE  Gone' /\ Served
<1> DEFINE signin == [At(t, "signin") EXCEPT !.back = "gate", !.marked = FALSE]
           page   == [At(t, "page") EXCEPT !.who = session.who, !.pass = access["id"]]
           marked == [At(t, "authorize") EXCEPT !.marked = TRUE]
<1>1. UNCHANGED <<session, gone, lasting, jarVars>> /\ ~tab[t].granted
  BY DEF PlatformGate, Gone, MayCarry
<1>2. session'.who \notin gone'
  BY <1>1 DEF Gone
<1>3. /\ signin.place = "signin" /\ signin.granted = tab[t].granted
      /\ marked.place = "authorize" /\ marked.granted = tab[t].granted
      /\ page.place = "page" /\ page.pass = access["id"] /\ page.who = session.who
      /\ page.granted = tab[t].granted
  BY OldTab DEF At, TabRecord
<1>4. \/ Redirect(t, signin)
      \/ access["id"].who = session.who /\ Redirect(t, page)
      \/ Redirect(t, DeadEnd)
      \/ Redirect(t, marked)
  BY DEF PlatformGate
<1> HIDE DEF signin, page, marked
<1>5. CASE Redirect(t, signin) \/ Redirect(t, marked) \/ Redirect(t, DeadEnd)
  BY <1>1, <1>2, <1>3, <1>5, DeadEndType, MovesEmpty
<1>6. CASE access["id"].who = session.who /\ Redirect(t, page)
  BY <1>1, <1>2, <1>3, <1>6, JarRests, Moves
<1> QED
  BY <1>4, <1>5, <1>6

LEMMA AuthenticateMoves ==
  ASSUME IInv, Gone, NEW t \in Tab, NEW p \in Person, Authenticate(t, p)
  PROVE  Gone' /\ Served
<1>1. /\ UNCHANGED jarVars /\ lasting' = lasting /\ gone' = gone \ {p}
      /\ session'.who = p
  BY DEF Authenticate, Authenticated
<1>2. CASE tab[t].place = "screen"
  BY <1>1, <1>2, ResumeMoves DEF Authenticate
<1>3. CASE tab[t].place = "confirm"
  <2> DEFINE named == [At(t, "consent") EXCEPT !.pass = [who |-> p, aal |-> 0]]
  <2>1. Redirect(t, named) /\ ~tab[t].granted
    BY <1>3 DEF Authenticate, Gone, MayCarry
  <2>2. named.place = "consent" /\ named.granted = tab[t].granted
    BY OldTab DEF At, TabRecord
  <2> HIDE DEF named
  <2> QED
    BY <1>1, <2>1, <2>2, MovesEmpty
<1> QED
  BY <1>2, <1>3 DEF Authenticate

LEMMA SessionMoves ==
  ASSUME IInv, Gone, NEW t \in Tab, SignIn(t) \/ StepUp(t)
  PROVE  Gone' /\ Served
<1>1. /\ UNCHANGED <<jarVars, gone, lasting>> /\ session'.who = session.who
      /\ tab[t].place \in {"signin", "stepup"}
      /\ Redirect(t, Resume(t)) \/ Redirect(t, At(t, "screen"))
  BY DEF SignIn, StepUp, IInv, TypeOK, Pass
<1>2. session'.who \notin gone'
  BY <1>1 DEF Gone
<1> QED
  BY <1>1, <1>2, ResumeMoves

LEMMA AuthorizeMoves ==
  ASSUME IInv, Gone, NEW t \in Tab, Authorize(t)
  PROVE  Gone' /\ Served
<1> DEFINE named == [At(t, "consent") EXCEPT !.pass = [who |-> remembered, aal |-> 0]]
<1>1. /\ UNCHANGED <<session, gone, lasting>> /\ ~tab[t].granted /\ tab[t].place = "authorize"
  BY DEF Authorize, Gone, MayCarry
<1>2. named.place = "consent" /\ named.granted = tab[t].granted
  BY OldTab DEF At, TabRecord
<1>3. \/ \E d \in Admissions : Refuse(t, d)
      \/ (Redirect(t, named) \/ Redirect(t, At(t, "confirm"))) /\ UNCHANGED jarVars
  BY DEF Authorize
<1>4. session'.who \notin gone'
  BY <1>1 DEF Gone
<1> HIDE DEF named
<1> QED
  BY <1>1, <1>2, <1>3, <1>4, RefuseMoves, MovesAt, MovesEmpty

(* A consent makes a grant for whoever is signed in, who has not left.       *)
LEMMA ConsentMoves ==
  ASSUME IInv, Gone, NEW t \in Tab, Consent(t)
  PROVE  Gone' /\ Served
<1> DEFINE granted == [At(t, "callback") EXCEPT !.pass.aal = session.aal, !.granted = TRUE]
<1>1. UNCHANGED <<session, gone, jarVars>> /\ session'.who \notin gone'
  BY DEF Consent, Gone
<1>2. granted.place = "callback" /\ granted.pass.who = tab[t].pass.who
  BY OldTab DEF At, TabRecord, Pass
<1>3. CASE session.who = tab[t].pass.who
  <2>1. /\ Redirect(t, granted)
        /\ lasting' = lasting \cup {p \in {session.who} \ {Nobody} : Sent(p)}
    BY <1>3 DEF Consent, Sent
  <2> HIDE DEF granted
  <2>2. MayCarry(granted)
    BY <1>2 DEF MayCarry
  <2>3. granted.pass.who \notin gone
    BY <1>1, <1>2, <1>3
  <2>4. granted.pass.who \in Person /\ Sent(granted.pass.who) => granted.pass.who \in lasting'
    BY <1>2, <1>3, <2>1, BrowserAssumption
  <2> QED
    BY <1>1, <1>2, <2>1, <2>2, <2>3, <2>4, JarRests, Moves
<1>4. CASE session.who # tab[t].pass.who
  <2>1. Redirect(t, DeadEnd) /\ lasting' = lasting
    BY <1>4 DEF Consent
  <2> QED
    BY <1>1, <2>1, DeadEndType, MovesEmpty
<1> QED
  BY <1>3, <1>4

LEMMA CallbackMoves ==
  ASSUME IInv, Gone, NEW t \in Tab, Callback(t)
  PROVE  Gone' /\ Served
<1>1. UNCHANGED <<session, gone, lasting>> /\ tab[t].place = "callback"
  BY DEF Callback
<1>2. \/ \E d \in Admissions : Refuse(t, d)
      \/ tab[t].granted /\ Redirect(t, At(t, "landing")) /\ UNCHANGED jarVars
      \/ ~tab[t].granted /\ Redirect(t, At(t, "authorize")) /\ UNCHANGED jarVars
  BY DEF Callback
<1>3. session'.who \notin gone' /\ MayCarry(At(t, "landing"))
  BY <1>1, AtIs DEF Gone, MayCarry
<1>4. CASE tab[t].granted /\ Redirect(t, At(t, "landing")) /\ UNCHANGED jarVars
  BY <1>1, <1>3, <1>4, AtIs, JarRests, Moves
<1> QED
  BY <1>1, <1>2, <1>4, RefuseMoves, MovesAt

LEMMA LandMoves ==
  ASSUME IInv, Gone, NEW t \in Tab, Land(t)
  PROVE  Gone' /\ Served
<1> DEFINE new == [At(t, "gate") EXCEPT !.pass = None, !.granted = FALSE]
<1>1. new.place = "gate" /\ ~new.granted
  BY OldTab DEF At, TabRecord
<1>2. UNCHANGED <<session, gone, lasting>> /\ session'.who \notin gone' /\ Redirect(t, new)
  BY DEF Land, Gone
<1>3. \A a \in App : live'[a] => \/ live[a] /\ refresh'[a] = refresh[a]
                                 \/ tab[t].granted /\ refresh'[a].who = tab[t].pass.who
  BY DEF Land, IInv, TypeOK
<1> HIDE DEF new
<1> QED
  BY <1>1, <1>2, <1>3, Moves

(* The revocations end every grant of theirs, or they are known to last.     *)
LEMMA SignOutMoves ==
  ASSUME IInv, Gone, NEW t \in Tab, SignOut(t)
  PROVE  Gone' /\ Served
<1> DEFINE away == [At(t, "leaving") EXCEPT !.who = session.who]
           cut(u) == IF tab[u].pass.who = session.who
                     THEN [tab[u] EXCEPT !.granted = FALSE] ELSE tab[u]
<1>1. /\ away.place = "leaving" /\ away.who = session.who /\ ~away.granted
      /\ UNCHANGED <<session, gone>> /\ tab \in [Tab -> TabRecord]
  <2>1. ~tab[t].granted
    BY DEF SignOut, Gone, MayCarry
  <2> QED
    BY <2>1, OldTab DEF At, TabRecord, SignOut, IInv, TypeOK
<1>2. \A u \in Tab : /\ cut(u).place = tab[u].place /\ cut(u).who = tab[u].who
                     /\ cut(u).pass = tab[u].pass /\ cut(u).back = tab[u].back
                     /\ cut(u).granted <=> tab[u].granted /\ tab[u].pass.who # session.who
  BY <1>1 DEF TabRecord
<1>3. \/ /\ live' = [b \in App |-> live[b] /\ b # tab[t].app /\ refresh[b].who # session.who]
         /\ tab' = [u \in Tab |-> IF u = t THEN away ELSE cut(u)]
         /\ lasting' = lasting \ {session.who}
      \/ /\ live' = [live EXCEPT ![tab[t].app] = FALSE]
         /\ tab' = [tab EXCEPT ![t] = away]
         /\ lasting' = lasting \cup ({session.who} \ {Nobody})
  BY DEF SignOut
<1>4. refresh' = [refresh EXCEPT ![tab[t].app] = None]
  BY DEF SignOut
<1> HIDE DEF away, cut
<1>5. \A u \in Tab : \/ u = t /\ tab'[u] = away
                     \/ u # t /\ tab'[u] = tab[u]
                     \/ u # t /\ tab'[u] = cut(u)
  BY <1>1, <1>3
<1>6. \A a \in App : live'[a] => live[a] /\ refresh'[a] = refresh[a]
  BY <1>3, <1>4 DEF IInv, TypeOK
<1>7. \A u \in Tab : tab'[u].granted =>
        u # t /\ tab[u].granted /\ tab'[u].pass = tab[u].pass
        /\ tab'[u].place = tab[u].place /\ tab'[u].back = tab[u].back
  BY <1>1, <1>2, <1>5
<1>8. \A p : Standing(p)' => Standing(p)
  BY <1>6, <1>7 DEF Standing
<1>9. \A p \in Person : Sent(p)' => Sent(p) \/ p = session.who
  BY <1>1, <1>2, <1>5 DEF Sent
<1>11. ASSUME NEW p \in Person, p = session.who, p \notin lasting'
       PROVE  ~Standing(p)'
  <2>1. /\ live' = [b \in App |-> live[b] /\ b # tab[t].app /\ refresh[b].who # session.who]
        /\ tab' = [u \in Tab |-> IF u = t THEN away ELSE cut(u)]
    BY <1>3, <1>11, BrowserAssumption
  <2>2. \A a \in App : live'[a] => refresh'[a].who # session.who
    BY <1>6, <2>1
  <2>3. \A u \in Tab : tab'[u].granted => tab'[u].pass.who # session.who
    BY <1>1, <1>2, <2>1
  <2> QED
    BY <1>11, <2>2, <2>3 DEF Standing
<1>12. ASSUME NEW p \in Person, p # session.who, p \in gone' \/ Sent(p)'
       PROVE  p \in lasting' \/ ~Standing(p)'
  BY <1>1, <1>3, <1>8, <1>9, <1>12 DEF Gone
<1>13. \A u \in Tab : tab'[u].granted => MayCarry(tab'[u])
  BY <1>7 DEF Gone, MayCarry
<1>14. Served
  BY <1>1, <1>2, <1>5 DEF Served
<1> QED
  BY <1>1, <1>11, <1>12, <1>13, <1>14 DEF Gone

LEMMA LeaveMoves ==
  ASSUME IInv, Gone, NEW t \in Tab, Leave(t)
  PROVE  Gone' /\ Served
<1> DEFINE new == IF tab[t].app = "id" THEN Blank
                  ELSE [Blank EXCEPT !.place = "signin", !.app = tab[t].app]
<1>1. new.place \in {"away", "signin"} /\ ~new.granted
  BY BlankType DEF TabRecord
<1>2. /\ tab' = [tab EXCEPT ![t] = new] /\ UNCHANGED <<jarVars, lasting>>
      /\ tab \in [Tab -> TabRecord] /\ tab[t].place = "leaving"
  BY DEF Leave, Redirect, IInv, TypeOK
<1> HIDE DEF new
<1>3. session'.who \notin gone'
  <2>1. Nobody \notin gone /\ (session # None => session.who \in Person)
    BY BrowserAssumption DEF IInv, TypeOK, SessionEarned
  <2>2. CASE session.who = tab[t].who /\ session # None
    <3>1. session' = None /\ gone' = gone \cup {tab[t].who}
      BY <2>2 DEF Leave
    <3>2. tab[t].who # Nobody
      BY <2>1, <2>2, BrowserAssumption
    <3> QED
      BY <2>1, <3>1, <3>2, NoneType
  <2>3. CASE ~(session.who = tab[t].who /\ session # None)
    BY <2>3 DEF Leave, Gone
  <2> QED
    BY <2>2, <2>3
<1>4. \A p \in Person : p \in gone' \/ Sent(p)' => p \in gone \/ Sent(p)
  BY <1>1, <1>2 DEF Leave, Sent
<1>5. \A p : Standing(p)' => Standing(p)
  BY <1>1, <1>2 DEF Standing, jarVars
<1>6. \A u \in Tab : tab'[u].granted => MayCarry(tab'[u])
  BY <1>1, <1>2 DEF Gone
<1>7. Served
  BY <1>1, <1>2 DEF Served
<1> QED
  BY <1>2, <1>3, <1>4, <1>5, <1>6, <1>7 DEF Gone

LEMMA PeopleMove ==
  ASSUME IInv, Gone, NEW t \in Tab, NEW a \in App,
         Visit(t, a) \/ AskToLeave(t, a) \/ PlatformLogout(t, a)
  PROVE  Gone' /\ Served
<1>1. UNCHANGED <<session, gone, lasting>> /\ session'.who \notin gone'
  BY DEF Visit, AskToLeave, PlatformLogout, Gone
<1>2. PICK place \in {"gate", "logout"}, b \in {a, "id"} :
        Redirect(t, [Blank EXCEPT !.place = place, !.app = b])
  BY DEF Visit, AskToLeave, PlatformLogout
<1> DEFINE new == [Blank EXCEPT !.place = place, !.app = b]
<1>3. new.place = place /\ ~new.granted
  BY BlankType DEF TabRecord
<1>4. UNCHANGED jarVars \/ SetTokens(a, None)
  BY DEF Visit, AskToLeave, PlatformLogout
<1>5. Redirect(t, new)
  BY <1>2
<1> HIDE DEF new
<1> QED
  BY <1>1, <1>3, <1>4, <1>5, MovesEmpty

LEMMA LapseMoves ==
  ASSUME IInv, Gone,
         \/ \E a \in App : AccessLapses(a)
         \/ SessionLapses
         \/ \E p \in Person : LoseRole(p)
         \/ UNCHANGED vars
  PROVE  Gone' /\ Served
<1>1. /\ UNCHANGED <<refresh, live, tab, gone, lasting>>
      /\ session' \in {session, None}
  BY DEF AccessLapses, SessionLapses, LoseRole, vars, jarVars
<1>2. Nobody \notin gone
  BY BrowserAssumption DEF IInv, TypeOK
<1>3. \A p : (Standing(p)' <=> Standing(p)) /\ (Sent(p)' <=> Sent(p))
  BY <1>1 DEF Standing, Sent
<1> QED
  BY <1>1, <1>2, <1>3, NoneType DEF Gone, Served

LEMMA GoneNext ==
  ASSUME IInv, Gone, [Next]_vars
  PROVE  Gone' /\ Served
<1>1. ASSUME NEW t \in Tab, ConsoleGate(t) PROVE Gone' /\ Served
  <2>1. /\ tab[t].place = "gate" /\ "console" \in App
        /\ UNCHANGED <<session, gone, lasting>>
    BY <1>1 DEF ConsoleGate, IInv, AtItsApp
  <2> QED
    BY <1>1, <2>1, RefuseMoves, GuardMoves DEF ConsoleGate
<1> QED
  BY <1>1, RenewMoves, PlatformGateMoves, SessionMoves, AuthenticateMoves, AuthorizeMoves,
     ConsentMoves, CallbackMoves, LandMoves, SignOutMoves, LeaveMoves, PeopleMove, LapseMoves
  DEF Next, Follow

LEMMA GoneInvariant == Spec => []Gone
<1>1. Init => Gone
  BY BlankType, NoneType DEF Init, Gone, Standing, Sent
<1>2. IInv /\ Gone /\ [Next]_vars => Gone'
  BY GoneNext
<1> QED
  BY <1>1, <1>2, Invariant, PTL DEF Spec

(* Whatever the tabs do, whoever shares the browser and whatever fails or    *)
(* expires, a page is served with the token of the person admitted, or with  *)
(* a renewed one of somebody who has not signed out, or whose grants the     *)
(* sign-out could not end.                                                   *)
THEOREM PagesAreTheirOwn == Spec => OwnPage
<1>1. IInv /\ Gone /\ [Next]_vars => [Served]_vars
  BY GoneNext
<1> QED
  BY <1>1, Invariant, GoneInvariant, PTL DEF Spec, OwnPage, Served

(* A person who has signed out has no grant left in the browser until they   *)
(* sign in again, in any number of tabs: except one a failing revocation     *)
(* left, or a consent given between the revocations and the end of the       *)
(* session.                                                                  *)
THEOREM SignOutsAreForGood == Spec => []SignedOutForGood
<1>1. IInv /\ Gone => SignedOutForGood
  BY DEF IInv, TypeOK, Gone, Standing, SignedOutForGood
<1> QED
  BY <1>1, Invariant, GoneInvariant, PTL
=============================================================================
