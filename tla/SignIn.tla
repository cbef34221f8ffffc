------------------------------- MODULE SignIn -------------------------------
(***************************************************************************)
(* The self-service screens of the id app (apps/id/src/app/(flows)) and    *)
(* the flows of Kratos they render: how a tab's address leads to a flow,   *)
(* what the flow shows, where each form, link and mailed link goes next,   *)
(* and what becomes of the request a sign-in was begun for.                *)
(*                                                                         *)
(* One person's browser holds the session; the tabs in Strange belong to a *)
(* browser that keeps no cookies.  What Kratos does is taken from how the  *)
(* pages use it: a flow is fetched with the cookies of the browser that    *)
(* began it, every answer to a form names the flow and nothing else, and   *)
(* an expired flow a form is posted to is replaced by one for the same     *)
(* request.                                                                *)
(***************************************************************************)
EXTENDS Naturals, Sequences, FiniteSets

CONSTANTS
  Tab,         \* the tabs
  Strange,     \* those of a browser that keeps no cookies
  Request,     \* the requests a sign-in may be begun for
  MaxFlows,    \* bound: flows minted
  MaxMails,    \* bound: code mails sent
  MaxFollows,  \* bound: times one mailed link is followed
  Faults       \* a subset of {"fetch"}: may a flow's fetch fail by itself?

Param == {"login_challenge", "return_to"}
FlowType == {"login", "registration", "settings"}

ASSUME SignInAssumption ==
  /\ IsFiniteSet(Tab)
  /\ Strange \subseteq Tab
  /\ Request \subseteq SUBSET Param
  /\ {MaxFlows, MaxMails, MaxFollows} \subseteq Nat

VARIABLES
  flow,      \* Kratos's flows, in the order minted
  session,   \* the browser's session: 0 none, 1 or 2 the level it reached
  enrolled,  \* does the person have a second factor?
  mail,      \* the code mails, in the order sent
  tab        \* tab -> where it is

vars == <<flow, session, enrolled, mail, tab>>

(* An address of the id app: what it says and, in asked, the request this    *)
(* journey is for, which nothing on the page reads.                          *)
Address(type, id, carries, aal2, fragment, asked) ==
  [type |-> type, flow |-> id, carries |-> carries, aal2 |-> aal2,
   fragment |-> fragment, asked |-> asked]

Nowhere == Address("login", 0, {}, FALSE, 0, {})
Away    == [at |-> "away", url |-> Nowhere, shows |-> "nothing",
            back |-> Nowhere, answered |-> {}]

Flow(t) == flow[tab[t].url.flow]

(* A click that may end in a new flow, and those under way, stay in bounds.  *)
Hopping(t) == tab[t].at \in {"address", "kratos"}
Underway   == Len(flow) + Cardinality({t \in Tab : Hopping(t)})
MayMint    == Underway < MaxFlows

(* The tab leaves its screen for another address; Back leads here again.     *)
Go(t, url) ==
  [tab[t] EXCEPT !.at = "address", !.url = url, !.shows = "nothing",
                 !.back = IF tab[t].at = "screen" THEN tab[t].url ELSE @]

(* How Kratos answers a form: at the flow's own page, with ?flow= alone.     *)
Answered(t, id) ==
  Go(t, Address(tab[t].url.type, id, {}, FALSE, 0, tab[t].url.asked))

(* On to the application, or to the default: by a form, or because the flow  *)
(* of the address is over and the session does.                              *)
Finished(t, request, by) ==
  [tab[t] EXCEPT !.at = "answered", !.shows = "nothing",
                 !.url = Address(@.type, by, {}, FALSE, 0, @.asked),
                 !.answered = request]

(* A page that names no flow: it cannot be used here, or nothing was to do.  *)
RefusedPage(t) ==
  [tab[t] EXCEPT !.at = "refused", !.shows = "nothing", !.url = Nowhere]

(* A flow that is no more of use, and one that was used.                     *)
Over(f) == [f EXCEPT !.alive = FALSE, !.code = 0]
Used(f) == [Over(f) EXCEPT !.used = TRUE]

-----------------------------------------------------------------------------
(* From an address to a screen (getBrowserFlow and the pages). *)

(* Slip: only where to return is put back.                                   *)
CarriedReturnOnly(f) == f.request \cap {"return_to"}

(* requestParams: what the flow belongs to.                                  *)
Carried(f) == f.request

(* healedAddress: the login page's address states what its flow belongs to.  *)
Healed(t) ==
  /\ tab[t].url.type = "login"
  /\ ~(Carried(Flow(t)) \subseteq tab[t].url.carries)

(* What a flow's nodes say of where it is.                                   *)
CodeAsked(f)            == f.step = "code"
SecondFactorAsked(f)    == f.step = "second"
SecondFactorRequired(f) == f.aal2

(* The login page: the second factor before the code, and enrolment where a  *)
(* second factor is required of somebody who has none.                       *)
LoginPage(f) ==
  CASE SecondFactorAsked(f)                             -> "second factor"
    [] ~SecondFactorAsked(f) /\ SecondFactorRequired(f) -> "enrolment"
    [] ~SecondFactorRequired(f) /\ CodeAsked(f)         -> "code"
    [] OTHER                                            -> "first"

RegistrationPage(f) == IF CodeAsked(f) THEN "code" ELSE "first"
AccountPage(f)      == "settings"

Screen(f) ==
  CASE f.type = "login"        -> LoginPage(f)
    [] f.type = "registration" -> RegistrationPage(f)
    [] f.type = "settings"     -> AccountPage(f)

(* The flow is fetched: this browser began it, and says so with its cookies. *)
Kept(t) == tab[t].url.flow # 0 /\ Flow(t).ours /\ t \notin Strange

(* selfServiceRedirect: mint a flow, with what the address states.           *)
MintAnew(t) ==
  /\ tab[t].at = "address"
  /\ tab[t].url.flow = 0 \/ (Kept(t) /\ ~Flow(t).alive)
  /\ tab' = [tab EXCEPT ![t].at = "kratos"]
  /\ UNCHANGED <<flow, session, enrolled, mail>>

(* A fetch that fails by itself mints as well, and what the address does not *)
(* state of its flow's request is asked for no longer.                       *)
FetchFails(t) ==
  /\ "fetch" \in Faults
  /\ tab[t].at = "address" /\ tab[t].url.flow # 0
  /\ Kept(t) => Flow(t).alive
  /\ Underway <= MaxFlows
  /\ tab' = [tab EXCEPT ![t].at = "kratos", ![t].url.asked = tab[t].url.carries]
  /\ UNCHANGED <<flow, session, enrolled, mail>>

(* Slip: a refusal mints as well.                                            *)
RefusedMints(t) ==
  /\ tab[t].at = "address"
  /\ tab[t].url.flow # 0 /\ ~Kept(t)
  /\ tab' = [tab EXCEPT ![t].at = "kratos"]
  /\ UNCHANGED <<flow, session, enrolled, mail>>

(* A 403: this browser did not begin the flow, or keeps no cookies.  The     *)
(* page that says so, like the one for errors, leads to a plain sign-in.     *)
Refused(t) ==
  /\ tab[t].at = "address"
  /\ tab[t].url.flow # 0 /\ ~Kept(t)
  /\ tab' = [tab EXCEPT ![t] = RefusedPage(t)]
  /\ UNCHANGED <<flow, session, enrolled, mail>>

(* The page redirects to the healed address; the fragment survives.          *)
Heal(t) ==
  /\ tab[t].at = "address"
  /\ Kept(t) /\ Flow(t).alive
  /\ Healed(t)
  /\ tab' = [tab EXCEPT ![t].url.carries = Carried(Flow(t)), ![t].url.aal2 = FALSE]
  /\ UNCHANGED <<flow, session, enrolled, mail>>

Render(t) ==
  /\ tab[t].at = "address"
  /\ Kept(t) /\ Flow(t).alive
  /\ ~Healed(t)
  /\ tab' = [tab EXCEPT ![t].at = "screen", ![t].shows = Screen(Flow(t))]
  /\ UNCHANGED <<flow, session, enrolled, mail>>

-----------------------------------------------------------------------------
(* Kratos at /self-service/<type>/browser. *)

(* The session a flow of this tab would be served with.                      *)
Level(t) == IF t \in Strange THEN 0 ELSE session

NewFlow(t, step) ==
  [type |-> tab[t].url.type, request |-> tab[t].url.carries,
   aal2 |-> tab[t].url.aal2, step |-> step, alive |-> TRUE,
   ours |-> t \notin Strange, used |-> FALSE, code |-> 0]

(* Nothing to do for a session that is enough: the request is answered.      *)
AlreadySignedIn(t) ==
  /\ tab[t].at = "kratos"
  /\ tab[t].url.type # "settings"
  /\ Level(t) >= (IF tab[t].url.aal2 THEN 2 ELSE 1)
  /\ tab' = [tab EXCEPT ![t] = Finished(t, tab[t].url.carries, tab[t].url.flow)]
  /\ UNCHANGED <<flow, session, enrolled, mail>>

(* No session to step up is an error; no session to change settings of is a  *)
(* sign-in that returns there.                                               *)
NoSession(t) ==
  /\ tab[t].at = "kratos"
  /\ Level(t) = 0
  /\ \/ /\ tab[t].url.type = "login" /\ tab[t].url.aal2
        /\ tab' = [tab EXCEPT ![t] = RefusedPage(t)]
     \/ /\ tab[t].url.type = "settings"
        /\ tab' = [tab EXCEPT ![t].at = "address",
             ![t].url = Address("login", 0, {"return_to"}, FALSE, 0, {"return_to"})]
  /\ UNCHANGED <<flow, session, enrolled, mail>>

(* A request whose flow was used has been answered, and is asked no more.    *)
StillAsked(t) ==
  IF tab[t].url.flow # 0 /\ Flow(t).used THEN tab[t].url.carries ELSE tab[t].url.asked

Mint(t) ==
  /\ tab[t].at = "kratos"
  /\ Len(flow) < MaxFlows
  /\ CASE tab[t].url.type = "settings" -> Level(t) > 0
       [] tab[t].url.aal2              -> Level(t) = 1
       [] OTHER                        -> Level(t) = 0
  /\ flow' = Append(flow, NewFlow(t,
       IF tab[t].url.type = "login" /\ tab[t].url.aal2
       THEN (IF enrolled THEN "second" ELSE "none") ELSE "first"))
  /\ tab' = [tab EXCEPT ![t].at = "address",
       ![t].url = Address(@.type, Len(flow) + 1, {}, FALSE, @.fragment, StillAsked(t))]
  /\ UNCHANGED <<session, enrolled, mail>>

-----------------------------------------------------------------------------
(* The forms. *)

At(t, shows) == tab[t].at = "screen" /\ tab[t].shows = shows

(* The form of a screen reaches a flow that still is what the screen shows.  *)
Posts(t, shows) == At(t, shows) /\ Flow(t).alive /\ Screen(Flow(t)) = shows

(* The flow expired, was completed or has moved on: Kratos answers with the  *)
(* flow as it is, with one in its place, or, to somebody signed in           *)
(* meanwhile, with an error.                                                 *)
PostTooLate(t) ==
  /\ tab[t].at = "screen"
  /\ ~Posts(t, tab[t].shows)
  /\ IF Flow(t).alive
     THEN /\ tab' = [tab EXCEPT ![t] = Answered(t, tab[t].url.flow)]
          /\ UNCHANGED flow
     ELSE IF Flow(t).type # "settings" /\ session >= (IF Flow(t).aal2 THEN 2 ELSE 1)
     THEN /\ tab' = [tab EXCEPT ![t] = RefusedPage(t)]
          /\ UNCHANGED flow
     ELSE /\ MayMint
          /\ flow' = Append(flow, [Flow(t) EXCEPT
               !.alive = TRUE, !.used = FALSE,
               !.step = IF @ = "code" THEN "first" ELSE @])
          /\ tab' = [tab EXCEPT ![t] = Answered(t, Len(flow) + 1)]
  /\ UNCHANGED <<session, enrolled, mail>>

(* Slip: the mailed link names no flow.                                      *)
LinkBare(t) == 0

(* transientPayload: the mailed link names the flow and nothing else.        *)
Link(t) == tab[t].url.flow

(* A code is mailed, with the link and the code behind it.                   *)
MailCode(t) ==
  /\ Len(mail) < MaxMails
  /\ mail' = Append(mail, [flow |-> Link(t), followed |-> 0, spent |-> 0])
  /\ flow' = [flow EXCEPT ![tab[t].url.flow].step = "code",
                          ![tab[t].url.flow].code = Len(mail) + 1]
  /\ tab' = [tab EXCEPT ![t] = Answered(t, tab[t].url.flow)]
  /\ UNCHANGED <<session, enrolled>>

SubmitEmail(t) == Posts(t, "first") /\ MailCode(t)
Resend(t)      == Posts(t, "code") /\ MailCode(t)

(* The way back of a registration: the flow returns to its first screen.     *)
BackToFirst(t) ==
  /\ Posts(t, "code")
  /\ Flow(t).type = "registration"
  /\ flow' = [flow EXCEPT ![tab[t].url.flow].step = "first"]
  /\ tab' = [tab EXCEPT ![t] = Answered(t, tab[t].url.flow)]
  /\ UNCHANGED <<session, enrolled, mail>>

(* The attempt a code makes, from the address the tab leaves: the right one  *)
(* signs in and is answered.                                                 *)
Attempt(t, left, isRight) ==
  /\ Posts(t, "code")
  /\ IF isRight
     THEN /\ session' = IF session = 0 THEN 1 ELSE session
          /\ flow' = [flow EXCEPT ![tab[t].url.flow] = Used(@)]
          /\ tab' = [tab EXCEPT ![t] = [Finished(t, Flow(t).request, 0) EXCEPT !.back = left]]
     ELSE /\ tab' = [tab EXCEPT ![t] = [Answered(t, tab[t].url.flow) EXCEPT !.back = left]]
          /\ UNCHANGED <<flow, session>>
  /\ UNCHANGED enrolled

(* A code typed by hand, which also takes the link's code off the field.     *)
EnterCode(t) ==
  /\ \E isRight \in BOOLEAN : Attempt(t, tab[t].url, isRight)
  /\ UNCHANGED mail

(* Slip: the fragment stays in the address.                                  *)
LeftAddressKeepsCode(t) == tab[t].url

(* The login's code screen takes the code of a followed link out of its      *)
(* address first, ...                                                        *)
LeftAddress(t) == [tab[t].url EXCEPT !.fragment = 0]

(* ... and submits it at once.                                               *)
AutoSubmit(t) ==
  /\ At(t, "code") /\ tab[t].url.type = "login"
  /\ tab[t].url.fragment # 0
  /\ Attempt(t, LeftAddress(t), Flow(t).code = tab[t].url.fragment)
  /\ mail' = [mail EXCEPT ![tab[t].url.fragment].spent = @ + 1]

(* To a flow that has moved on meanwhile it makes no attempt.                *)
AutoSubmitTooLate(t) ==
  /\ At(t, "code") /\ tab[t].url.type = "login"
  /\ tab[t].url.fragment # 0
  /\ ~Posts(t, "code")
  /\ tab' = [tab EXCEPT ![t].url = LeftAddress(t)]
  /\ UNCHANGED <<flow, session, enrolled, mail>>

(* The second factor, of the session there is.                               *)
EnterSecondFactor(t) ==
  /\ Posts(t, "second factor")
  /\ session > 0
  /\ \/ /\ session' = 2
        /\ flow' = [flow EXCEPT ![tab[t].url.flow] = Used(@)]
        /\ tab' = [tab EXCEPT ![t] = Finished(t, Flow(t).request, 0)]
     \/ /\ tab' = [tab EXCEPT ![t] = Answered(t, tab[t].url.flow)]
        /\ UNCHANGED <<flow, session>>
  /\ UNCHANGED <<enrolled, mail>>

(* The account page's authenticator section: the person has a second factor, *)
(* this session has shown it, and Kratos returns where the flow was told to. *)
Enrol(t) ==
  /\ Posts(t, "settings")
  /\ session > 0
  /\ enrolled' = TRUE
  /\ session' = 2
  /\ flow' = [flow EXCEPT ![tab[t].url.flow] = Used(@)]
  /\ tab' = [tab EXCEPT ![t] = Finished(t, Flow(t).request, 0)]
  /\ UNCHANGED mail

-----------------------------------------------------------------------------
(* The links, and what a browser does by itself. *)

(* An application, or the console that asks for more, sends the person here. *)
Arrive(t, request, aal2) ==
  /\ tab[t].at = "away"
  /\ MayMint
  /\ aal2 => request = {"return_to"}
  /\ tab' = [tab EXCEPT ![t] = [Away EXCEPT
       !.at = "address", !.url = Address("login", 0, request, aal2, 0, request)]]
  /\ UNCHANGED <<flow, session, enrolled, mail>>

(* "Register now", "Sign in", "Start again": a page of its own.              *)
Leave(t, type) ==
  /\ \/ At(t, "first") /\ type \in {"login", "registration"} \ {tab[t].url.type}
     \/ tab[t].at = "refused" /\ type = "login"
  /\ MayMint
  /\ tab' = [tab EXCEPT ![t] = Go(t, Address(type, 0, {}, FALSE, 0, {}))]
  /\ UNCHANGED <<flow, session, enrolled, mail>>

(* Slip: another account is chosen at the bare start.                        *)
RestartPlain(t) == {}

(* restartAddress: the same request, of the flow on screen.                  *)
Restarted(t) == Carried(Flow(t))

UseAnotherAccount(t) ==
  /\ At(t, "code") /\ tab[t].url.type = "login"
  /\ MayMint
  /\ tab' = [tab EXCEPT ![t] =
       Go(t, Address("login", 0, Restarted(t), FALSE, 0, tab[t].url.asked))]
  /\ UNCHANGED <<flow, session, enrolled, mail>>

(* The screens of a second factor have one way out, which signs out.         *)
SignOut(t) ==
  /\ At(t, "second factor") \/ At(t, "enrolment")
  /\ MayMint
  /\ session' = 0
  /\ tab' = [tab EXCEPT ![t] = Go(t, Address("login", 0, {}, FALSE, 0, {}))]
  /\ UNCHANGED <<flow, enrolled, mail>>

(* SecondFactorEnrolment: to the account page, to come back where asked.     *)
SetUp(t) ==
  /\ At(t, "enrolment")
  /\ MayMint
  /\ tab' = [tab EXCEPT ![t] = Go(t, Address("settings", 0,
       Flow(t).request \cap {"return_to"}, FALSE, 0, tab[t].url.asked))]
  /\ UNCHANGED <<flow, session, enrolled, mail>>

(* The mailed link, in a tab of either browser: it stands for its flow's     *)
(* request for as long as that lives.                                        *)
Follow(t, m) ==
  /\ tab[t].at = "away"
  /\ MayMint
  /\ flow[mail[m].flow].type = "login"
  /\ mail[m].followed < MaxFollows
  /\ mail' = [mail EXCEPT ![m].followed = @ + 1]
  /\ tab' = [tab EXCEPT ![t] = [Away EXCEPT
       !.at = "address",
       !.url = Address("login", mail[m].flow, {}, FALSE, m,
                 IF flow[mail[m].flow].alive THEN flow[mail[m].flow].request ELSE {})]]
  /\ UNCHANGED <<flow, session, enrolled>>

Reload(t) ==
  /\ tab[t].at = "screen"
  /\ MayMint
  /\ tab' = [tab EXCEPT ![t].at = "address", ![t].shows = "nothing"]
  /\ UNCHANGED <<flow, session, enrolled, mail>>

Back(t) ==
  /\ tab[t].at \in {"screen", "refused", "answered"}
  /\ tab[t].back # Nowhere
  /\ MayMint
  /\ tab' = [tab EXCEPT ![t] = [Away EXCEPT !.at = "address", !.url = tab[t].back]]
  /\ UNCHANGED <<flow, session, enrolled, mail>>

Close(t) ==
  /\ tab[t].at \in {"refused", "answered"}
  /\ tab' = [tab EXCEPT ![t] = Away]
  /\ UNCHANGED <<flow, session, enrolled, mail>>

(* A flow's time is up; no redirect takes that long.                         *)
Expire(f) ==
  /\ flow[f].alive
  /\ \A t \in Tab : tab[t].url.flow = f => ~Hopping(t)
  /\ flow' = [flow EXCEPT ![f] = Over(@)]
  /\ UNCHANGED <<session, enrolled, mail, tab>>

-----------------------------------------------------------------------------
Init ==
  /\ flow = <<>>
  /\ session \in 0..1
  /\ enrolled \in BOOLEAN
  /\ mail = <<>>
  /\ tab = [t \in Tab |-> Away]

Hop(t) ==
  \/ MintAnew(t) \/ FetchFails(t) \/ Refused(t) \/ Heal(t) \/ Render(t)
  \/ AlreadySignedIn(t) \/ NoSession(t) \/ Mint(t)

Fill(t) ==
  \/ SubmitEmail(t) \/ Resend(t) \/ BackToFirst(t) \/ EnterCode(t)
  \/ AutoSubmit(t) \/ AutoSubmitTooLate(t) \/ EnterSecondFactor(t) \/ Enrol(t)
  \/ PostTooLate(t)

Browse(t) ==
  \/ \E request \in Request, aal2 \in BOOLEAN : Arrive(t, request, aal2)
  \/ \E type \in FlowType : Leave(t, type)
  \/ UseAnotherAccount(t) \/ SignOut(t) \/ SetUp(t)
  \/ \E m \in DOMAIN mail : Follow(t, m)
  \/ Reload(t) \/ Back(t) \/ Close(t)

Next ==
  \/ \E t \in Tab : Hop(t) \/ Fill(t) \/ Browse(t)
  \/ \E f \in DOMAIN flow : Expire(f)

(* A browser follows the redirects it is given; nobody has to do more.       *)
Spec == Init /\ [][Next]_vars /\ \A t \in Tab : WF_vars(Hop(t))

-----------------------------------------------------------------------------
(* Properties. *)

AddressRecord ==
  [type : FlowType, flow : Nat, carries : SUBSET Param, aal2 : BOOLEAN,
   fragment : Nat, asked : SUBSET Param]

TabRecord ==
  [at : {"away", "address", "kratos", "screen", "refused", "answered"},
   url : AddressRecord, back : AddressRecord,
   shows : {"nothing", "first", "code", "second factor", "enrolment", "settings"},
   answered : SUBSET Param]

FlowRecord ==
  [type : FlowType, request : SUBSET Param, aal2 : BOOLEAN, alive : BOOLEAN,
   ours : BOOLEAN, used : BOOLEAN, code : Nat, step : {"first", "code", "second", "none"}]

(* Every variable holds a value of its kind, and names only flows and mails  *)
(* there are.                                                                *)
TypeOK ==
  /\ flow \in Seq(FlowRecord)
  /\ session \in 0..2
  /\ enrolled \in BOOLEAN
  /\ \A m \in DOMAIN mail : mail[m].flow \in DOMAIN flow
  /\ tab \in [Tab -> TabRecord]
  /\ \A t \in Tab :
       /\ tab[t].url.flow \in 0..Len(flow) /\ tab[t].back.flow \in 0..Len(flow)
       /\ tab[t].url.fragment \in 0..Len(mail)

(* A sign-in ends with the request it was begun for, whatever expired, was   *)
(* reloaded, begun again with another account or finished from a mailed link *)
(* on the way (healedAddress, restartAddress): the application that asked    *)
(* hears back, if not from this tab, from the one that used its flow.  What  *)
(* a failed fetch forgot is asked no more, what it left still is.            *)
RequestSurvives ==
  \A t \in Tab :
    tab[t].at = "answered" /\ tab[t].url.type = "login" =>
      \/ tab[t].answered = tab[t].url.asked
      \/ tab[t].url.flow # 0 /\ Flow(t).used

(* Following a mailed link spends at most one attempt of the flow, however   *)
(* often the page is reloaded, gone back to or redirected (CodeForm).        *)
LinkSpendsOneAttempt == \A m \in DOMAIN mail : mail[m].spent <= mail[m].followed

(* No address redirects for ever: a screen, a refusal or an answer comes,    *)
(* also in a browser that keeps no cookies, and unless fetches fail for ever *)
(* (getBrowserFlow).                                                         *)
Settles == \A t \in Tab : []<>~Hopping(t)
=============================================================================
