---------------------------- MODULE SignInProofs ----------------------------
(***************************************************************************)
(* What SignIn promises for any tabs, requests and bounds: a mailed link   *)
(* spends one attempt each time it is followed, and a sign-in ends with    *)
(* the request it was begun for, of which a fetch that fails by itself     *)
(* leaves what the address states.                                         *)
(***************************************************************************)
EXTENDS SignIn, SequenceTheorems, FiniteSetTheorems, TLAPS

MailRecord == [flow : Nat, followed : Nat, spent : Nat]

(* Besides its type: a screen has a flow, and a fragment is a mail's.        *)
IInv ==
  /\ TypeOK
  /\ mail \in Seq(MailRecord)
  /\ \A t \in Tab : /\ tab[t].at = "screen" => tab[t].url.flow # 0
                    /\ tab[t].back.fragment \in 0..Len(mail)

(* Tab t goes to url, with Back leading to back.                             *)
Moved(t, at, url, back) ==
  /\ tab' \in [Tab -> TabRecord]
  /\ tab'[t].at = at /\ tab'[t].url = url /\ tab'[t].back = back
  /\ \A u \in Tab : u # t => tab'[u] = tab[u]

BackOf(t) == IF tab[t].at = "screen" THEN tab[t].url ELSE tab[t].back

-----------------------------------------------------------------------------
(* The records.                                                              *)
LEMMA NowhereIs ==
  /\ Nowhere \in AddressRecord /\ Nowhere.type = "login" /\ Nowhere.flow = 0
  /\ Nowhere.fragment = 0 /\ Nowhere.carries = {} /\ Nowhere.asked = {}
  BY DEF Nowhere, Address, AddressRecord, FlowType

LEMMA AwayIs ==
  Away \in TabRecord /\ Away.at = "away" /\ Away.url = Nowhere /\ Away.back = Nowhere
  BY NowhereIs DEF Away, TabRecord

LEMMA TabIs ==
  ASSUME IInv, NEW t \in Tab
  PROVE  /\ tab[t] \in TabRecord
         /\ tab[t].url \in AddressRecord /\ tab[t].back \in AddressRecord
         /\ tab[t].url.type \in FlowType /\ tab[t].url.flow \in 0..Len(flow)
         /\ tab[t].url.carries \in SUBSET Param /\ tab[t].url.asked \in SUBSET Param
         /\ tab[t].url.fragment \in 0..Len(mail) /\ tab[t].url.aal2 \in BOOLEAN
         /\ tab[t].back.flow \in 0..Len(flow) /\ tab[t].back.fragment \in 0..Len(mail)
         /\ Len(flow) \in Nat /\ Len(mail) \in Nat /\ flow \in Seq(FlowRecord)
         /\ tab[t].url.flow \in Nat /\ Len(flow) + 1 \in Nat /\ Len(mail) + 1 \in Nat
         /\ BackOf(t) \in {tab[t].url, tab[t].back}
<1>1. tab[t] \in TabRecord /\ flow \in Seq(FlowRecord) /\ mail \in Seq(MailRecord)
  BY DEF IInv, TypeOK
<1>2. tab[t].url \in AddressRecord /\ tab[t].back \in AddressRecord
  BY <1>1 DEF TabRecord
<1> QED
  BY <1>1, <1>2 DEF IInv, TypeOK, AddressRecord, BackOf

LEMMA TabsAre ==
  ASSUME IInv
  PROVE  tab \in [Tab -> TabRecord]
  BY DEF IInv, TypeOK

LEMMA LevelIs ==
  ASSUME IInv
  PROVE  session \in 0..2
  BY DEF IInv, TypeOK

LEMMA FlowIs ==
  ASSUME IInv, NEW t \in Tab, tab[t].url.flow # 0
  PROVE  /\ tab[t].url.flow \in DOMAIN flow /\ tab[t].url.flow \in 1..Len(flow)
         /\ Flow(t) = flow[tab[t].url.flow]
         /\ Flow(t) \in FlowRecord /\ Flow(t).request \in SUBSET Param
         /\ Flow(t).type \in FlowType
<1>1. tab[t].url.flow \in 1..Len(flow) /\ flow \in Seq(FlowRecord)
  BY TabIs
<1>2. Flow(t) = flow[tab[t].url.flow] /\ Flow(t) \in FlowRecord
  BY <1>1 DEF Flow
<1>3. tab[t].url.flow \in DOMAIN flow
  BY <1>1
<1> QED
  BY <1>1, <1>2, <1>3 DEF FlowRecord

LEMMA GoIs ==
  ASSUME IInv, NEW t \in Tab, NEW url \in AddressRecord, tab' = [tab EXCEPT ![t] = Go(t, url)]
  PROVE  Moved(t, "address", url, BackOf(t))
<1>1. tab[t] \in TabRecord /\ BackOf(t) \in AddressRecord /\ tab \in [Tab -> TabRecord]
  BY TabIs DEF IInv, TypeOK
<1>2. /\ Go(t, url) \in TabRecord /\ Go(t, url).at = "address"
      /\ Go(t, url).url = url /\ Go(t, url).back = BackOf(t)
  BY <1>1 DEF Go, TabRecord, BackOf
<1> QED
  BY <1>1, <1>2 DEF Moved

(* How Kratos answers a form, with the flow of the address or another.       *)
Named(t, id) == Address(tab[t].url.type, id, {}, FALSE, 0, tab[t].url.asked)

LEMMA NamedIs ==
  ASSUME IInv, NEW t \in Tab, NEW id \in Nat
  PROVE  /\ Named(t, id) \in AddressRecord
         /\ Named(t, id).type = tab[t].url.type /\ Named(t, id).flow = id
         /\ Named(t, id).carries = {} /\ Named(t, id).aal2 = FALSE
         /\ Named(t, id).fragment = 0 /\ Named(t, id).asked = tab[t].url.asked
<1>1. tab[t].url.type \in FlowType /\ tab[t].url.asked \in SUBSET Param
  BY TabIs
<1> QED
  BY <1>1 DEF Named, Address, AddressRecord

LEMMA AnsweredIs ==
  ASSUME IInv, NEW t \in Tab, NEW id \in Nat, tab' = [tab EXCEPT ![t] = Answered(t, id)]
  PROVE  Moved(t, "address", Named(t, id), BackOf(t))
<1>1. Answered(t, id) = Go(t, Named(t, id))
  BY DEF Answered, Named
<1> QED
  BY <1>1, NamedIs, GoIs

LEMMA FinishedIs ==
  ASSUME IInv, NEW t \in Tab, NEW request \in SUBSET Param, NEW by \in Nat
  PROVE  LET r == Finished(t, request, by) IN
         /\ r \in TabRecord /\ r.at = "answered" /\ r.answered = request
         /\ r.url = Named(t, by) /\ r.back = tab[t].back
<1>1. tab[t] \in TabRecord
  BY TabIs
<1>2. Named(t, by) \in AddressRecord
  BY NamedIs
<1>3. Finished(t, request, by) =
        [tab[t] EXCEPT !.at = "answered", !.shows = "nothing", !.url = Named(t, by),
                       !.answered = request]
  BY <1>1 DEF Finished, Named, TabRecord
<1> QED
  BY <1>1, <1>2, <1>3 DEF TabRecord

LEMMA RefusedIs ==
  ASSUME IInv, NEW t \in Tab, tab' = [tab EXCEPT ![t] = RefusedPage(t)]
  PROVE  Moved(t, "refused", Nowhere, tab[t].back)
<1>1. tab[t] \in TabRecord /\ tab \in [Tab -> TabRecord]
  BY DEF IInv, TypeOK
<1> QED
  BY <1>1, NowhereIs DEF RefusedPage, TabRecord, Moved

-----------------------------------------------------------------------------
(* What every step leaves of the flows and the mails.                        *)

(* A flow keeps its request and ends once; it ends used, or when nobody is   *)
(* being redirected to it.                                                   *)
Grown ==
  /\ flow' \in Seq(FlowRecord) /\ Len(flow') >= Len(flow)
  /\ \A i \in 1..Len(flow) :
       /\ flow'[i].request = flow[i].request
       /\ flow[i].used => flow'[i].used
       /\ flow'[i].alive => flow[i].alive
       /\ flow[i].alive /\ ~flow'[i].alive =>
            \/ flow'[i].used
            \/ \A u \in Tab : tab[u].url.flow = i => ~Hopping(u)

Posted ==
  /\ mail' \in Seq(MailRecord) /\ Len(mail') >= Len(mail)
  /\ \A m \in 1..Len(mail') : mail'[m].flow \in 1..Len(flow')

(* A step of tab t.                                                          *)
Steps(t, at, url, back) ==
  /\ Moved(t, at, url, back) /\ Grown /\ Posted
  /\ session' \in 0..2 /\ enrolled' \in BOOLEAN
  /\ url.flow \in 0..Len(flow') /\ back.flow \in 0..Len(flow')
  /\ url.fragment \in 0..Len(mail') /\ back.fragment \in 0..Len(mail')
  /\ at = "screen" => url.flow # 0

LEMMA Unchanged ==
  ASSUME IInv, flow' = flow
  PROVE  Grown
  BY DEF IInv, TypeOK, Grown

LEMMA Replaced ==
  ASSUME IInv, NEW i \in 1..Len(flow), NEW x \in FlowRecord, flow' = [flow EXCEPT ![i] = x],
         x.request = flow[i].request, flow[i].used => x.used, x.alive => flow[i].alive,
         flow[i].alive /\ ~x.alive =>
           x.used \/ \A u \in Tab : tab[u].url.flow = i => ~Hopping(u)
  PROVE  Grown /\ Len(flow') = Len(flow)
<1>1. flow \in Seq(FlowRecord)
  BY DEF IInv, TypeOK
<1>2. /\ flow' \in Seq(FlowRecord) /\ Len(flow') = Len(flow)
      /\ \A j \in 1..Len(flow) : flow'[j] = IF j = i THEN x ELSE flow[j]
  BY <1>1, ExceptSeq
<1> QED
  BY <1>1, <1>2 DEF Grown

LEMMA Appended ==
  ASSUME IInv, NEW x \in FlowRecord, flow' = Append(flow, x)
  PROVE  Grown /\ Len(flow') = Len(flow) + 1 /\ flow'[Len(flow) + 1] = x
<1>1. flow \in Seq(FlowRecord)
  BY DEF IInv, TypeOK
<1>2. /\ flow' \in Seq(FlowRecord) /\ Len(flow') = Len(flow) + 1
      /\ \A j \in 1..Len(flow) : flow'[j] = flow[j]
      /\ flow'[Len(flow) + 1] = x
  BY <1>1, AppendProperties
<1> QED
  BY <1>1, <1>2 DEF Grown

LEMMA SamePosts ==
  ASSUME IInv, Grown, mail' \in Seq(MailRecord), Len(mail') = Len(mail),
         \A m \in 1..Len(mail) : mail'[m].flow = mail[m].flow
  PROVE  Posted
<1>1. /\ mail \in Seq(MailRecord) /\ flow \in Seq(FlowRecord)
      /\ \A m \in 1..Len(mail) : mail[m].flow \in 1..Len(flow)
  BY DEF IInv, TypeOK
<1> QED
  BY <1>1 DEF Posted, Grown

LEMMA NotPosted ==
  ASSUME IInv, Grown, mail' = mail
  PROVE  Posted
  BY SamePosts DEF IInv

(* A step that leaves everything but its tab.                                *)
LEMMA TabOnly ==
  ASSUME IInv, NEW t \in Tab, NEW at, NEW url, NEW back, Moved(t, at, url, back),
         flow' = flow, enrolled' = enrolled, mail' = mail, session' \in 0..2,
         url.flow \in 0..Len(flow), back.flow \in 0..Len(flow),
         url.fragment \in 0..Len(mail), back.fragment \in 0..Len(mail),
         at = "screen" => url.flow # 0
  PROVE  Steps(t, at, url, back)
  BY Unchanged, NotPosted DEF Steps, IInv, TypeOK

LEMMA TypeStep ==
  ASSUME IInv, NEW t \in Tab, NEW at, NEW url, NEW back, Steps(t, at, url, back)
  PROVE  IInv'
<1>1. /\ tab' \in [Tab -> TabRecord] /\ flow' \in Seq(FlowRecord) /\ mail' \in Seq(MailRecord)
      /\ session' \in 0..2 /\ enrolled' \in BOOLEAN
      /\ Len(flow) \in Nat /\ Len(flow') \in Nat /\ Len(flow') >= Len(flow)
      /\ Len(mail) \in Nat /\ Len(mail') \in Nat /\ Len(mail') >= Len(mail)
  BY DEF Steps, Moved, Grown, Posted, IInv, TypeOK
<1>2. \A m \in DOMAIN mail' : mail'[m].flow \in DOMAIN flow'
  <2>1. DOMAIN mail' = 1..Len(mail') /\ DOMAIN flow' = 1..Len(flow')
    BY <1>1
  <2> QED
    BY <2>1 DEF Steps, Posted
<1>3. ASSUME NEW u \in Tab
      PROVE  /\ tab'[u].url.flow \in 0..Len(flow') /\ tab'[u].back.flow \in 0..Len(flow')
             /\ tab'[u].url.fragment \in 0..Len(mail') /\ tab'[u].back.fragment \in 0..Len(mail')
             /\ tab'[u].at = "screen" => tab'[u].url.flow # 0
  <2>1. CASE u = t
    BY <2>1 DEF Steps, Moved
  <2>2. CASE u # t
    <3>1. tab'[u] = tab[u]
      BY <2>2 DEF Steps, Moved
    <3>2. /\ tab[u].url.flow \in 0..Len(flow) /\ tab[u].back.flow \in 0..Len(flow)
          /\ tab[u].url.fragment \in 0..Len(mail) /\ tab[u].back.fragment \in 0..Len(mail)
          /\ tab[u].at = "screen" => tab[u].url.flow # 0
      BY DEF IInv, TypeOK
    <3> QED
      BY <1>1, <3>1, <3>2, SMTT(20)
  <2> QED
    BY <2>1, <2>2
<1> QED
  BY <1>1, <1>2, <1>3 DEF IInv, TypeOK

-----------------------------------------------------------------------------
(* The hops. *)

LEMMA MintAnewStep ==
  ASSUME IInv, NEW t \in Tab, MintAnew(t)
  PROVE  Steps(t, "kratos", tab[t].url, tab[t].back)
<1>1. Moved(t, "kratos", tab[t].url, tab[t].back)
  BY DEF MintAnew, Moved, IInv, TypeOK, TabRecord
<1> QED
  BY <1>1, TabOnly, TabIs, LevelIs DEF MintAnew

LEMMA RefusedStep ==
  ASSUME IInv, NEW t \in Tab, tab' = [tab EXCEPT ![t] = RefusedPage(t)],
         UNCHANGED <<flow, session, enrolled, mail>>
  PROVE  Steps(t, "refused", Nowhere, tab[t].back)
<1>1. Moved(t, "refused", Nowhere, tab[t].back)
  BY RefusedIs
<1>2. Nowhere.flow \in 0..Len(flow) /\ Nowhere.fragment \in 0..Len(mail)
  BY NowhereIs, TabIs
<1> QED
  BY <1>1, <1>2, TabOnly, TabIs DEF IInv, TypeOK

(* What a fetch that failed leaves of the address.                           *)
ForgottenUrl(t) == [tab[t].url EXCEPT !.asked = tab[t].url.carries]

LEMMA FetchFailsStep ==
  ASSUME IInv, NEW t \in Tab, FetchFails(t)
  PROVE  Steps(t, "kratos", ForgottenUrl(t), tab[t].back)
<1>1. /\ ForgottenUrl(t) \in AddressRecord /\ ForgottenUrl(t).flow = tab[t].url.flow
      /\ ForgottenUrl(t).fragment = tab[t].url.fragment
  BY TabIs DEF ForgottenUrl, AddressRecord
<1>2. tab' = [tab EXCEPT ![t].at = "kratos", ![t].url = ForgottenUrl(t)]
  <2>1. tab \in [Tab -> TabRecord] /\ tab[t] \in TabRecord /\ tab[t].url \in AddressRecord
    BY TabsAre, TabIs
  <2> DEFINE r == [tab[t] EXCEPT !.at = "kratos", !.url.asked = tab[t].url.carries]
  <2>2. tab' = [tab EXCEPT ![t] = r]
    BY <2>1 DEF FetchFails
  <2>3. r = [tab[t] EXCEPT !.at = "kratos", !.url = ForgottenUrl(t)]
    BY <2>1 DEF ForgottenUrl, TabRecord, AddressRecord
  <2> HIDE DEF r
  <2> QED
    BY <2>1, <2>2, <2>3
<1>3. Moved(t, "kratos", ForgottenUrl(t), tab[t].back)
  BY <1>1, <1>2, TabsAre, ZenonT(40) DEF Moved, TabRecord
<1> QED
  BY <1>1, <1>3, TabOnly, TabIs, LevelIs DEF FetchFails

HealedUrl(t) == [tab[t].url EXCEPT !.carries = Carried(Flow(t)), !.aal2 = FALSE]

LEMMA HealStep ==
  ASSUME IInv, NEW t \in Tab, Heal(t)
  PROVE  Steps(t, "address", HealedUrl(t), tab[t].back)
<1>1. Flow(t).request \in SUBSET Param
  BY FlowIs DEF Heal, Kept
<1>2. /\ HealedUrl(t) \in AddressRecord /\ HealedUrl(t).flow = tab[t].url.flow
      /\ HealedUrl(t).fragment = tab[t].url.fragment
  BY <1>1, TabIs DEF HealedUrl, Carried, AddressRecord
<1>3. tab' = [tab EXCEPT ![t].url = HealedUrl(t)] /\ tab[t].at = "address"
  BY DEF Heal, HealedUrl, IInv, TypeOK, TabRecord, AddressRecord
<1>4. Moved(t, "address", HealedUrl(t), tab[t].back)
  BY <1>2, <1>3 DEF Moved, IInv, TypeOK, TabRecord
<1> QED
  BY <1>2, <1>4, TabOnly, TabIs, LevelIs DEF Heal

LEMMA RenderStep ==
  ASSUME IInv, NEW t \in Tab, Render(t)
  PROVE  Steps(t, "screen", tab[t].url, tab[t].back)
<1>1. tab[t].url.flow # 0 /\ Flow(t).type \in FlowType
  BY FlowIs DEF Render, Kept
<1>2. Screen(Flow(t)) \in {"nothing", "first", "code", "second factor", "enrolment", "settings"}
  BY <1>1 DEF Screen, LoginPage, RegistrationPage, AccountPage, FlowType
<1>3. Moved(t, "screen", tab[t].url, tab[t].back)
  BY <1>2, TabsAre, ZenonT(40) DEF Render, Moved, TabRecord
<1> QED
  BY <1>1, <1>3, TabOnly, TabIs, LevelIs DEF Render

LEMMA FinishedMoves ==
  ASSUME IInv, NEW t \in Tab, NEW request \in SUBSET Param, NEW by \in Nat,
         tab' = [tab EXCEPT ![t] = Finished(t, request, by)]
  PROVE  /\ Moved(t, "answered", Named(t, by), tab[t].back)
         /\ tab'[t].answered = request
<1>1. tab \in [Tab -> TabRecord]
  BY DEF IInv, TypeOK
<1> QED
  BY <1>1, FinishedIs DEF Moved

LEMMA AlreadySignedInStep ==
  ASSUME IInv, NEW t \in Tab, AlreadySignedIn(t)
  PROVE  /\ Steps(t, "answered", Named(t, tab[t].url.flow), tab[t].back)
         /\ tab'[t].answered = tab[t].url.carries
<1>1. /\ Moved(t, "answered", Named(t, tab[t].url.flow), tab[t].back)
      /\ tab'[t].answered = tab[t].url.carries
  BY FinishedMoves, TabIs DEF AlreadySignedIn
<1>2. /\ Named(t, tab[t].url.flow).flow = tab[t].url.flow
      /\ Named(t, tab[t].url.flow).fragment = 0
  BY NamedIs, TabIs
<1> QED
  BY <1>1, <1>2, TabOnly, TabIs, LevelIs DEF AlreadySignedIn

ToSettings == Address("login", 0, {"return_to"}, FALSE, 0, {"return_to"})

LEMMA ToSettingsIs ==
  /\ ToSettings \in AddressRecord /\ ToSettings.flow = 0 /\ ToSettings.fragment = 0
  /\ ToSettings.carries = {"return_to"} /\ ToSettings.asked = {"return_to"}
  BY DEF ToSettings, Address, AddressRecord, FlowType, Param

LEMMA NoSessionStep ==
  ASSUME IInv, NEW t \in Tab, NoSession(t)
  PROVE  \/ Steps(t, "refused", Nowhere, tab[t].back)
         \/ Steps(t, "address", ToSettings, tab[t].back)
<1>1. CASE tab' = [tab EXCEPT ![t] = RefusedPage(t)]
  BY <1>1, RefusedStep DEF NoSession
<1>2. CASE tab' = [tab EXCEPT ![t].at = "address", ![t].url = ToSettings]
  <2>1. Moved(t, "address", ToSettings, tab[t].back)
    BY <1>2, ToSettingsIs, TabsAre, ZenonT(40) DEF Moved, TabRecord
  <2> QED
    BY <2>1, ToSettingsIs, TabOnly, TabIs, LevelIs DEF NoSession
<1> QED
  BY <1>1, <1>2 DEF NoSession, ToSettings

MintedUrl(t) ==
  Address(tab[t].url.type, Len(flow) + 1, {}, FALSE, tab[t].url.fragment, StillAsked(t))

LEMMA MintedIs ==
  ASSUME IInv, NEW t \in Tab
  PROVE  /\ MintedUrl(t) \in AddressRecord /\ MintedUrl(t).flow = Len(flow) + 1
         /\ MintedUrl(t).fragment = tab[t].url.fragment /\ MintedUrl(t).carries = {}
         /\ MintedUrl(t).type = tab[t].url.type /\ MintedUrl(t).asked = StillAsked(t)
<1>1. StillAsked(t) \in SUBSET Param
  BY TabIs DEF StillAsked
<1> QED
  BY <1>1, TabIs DEF MintedUrl, Address, AddressRecord

LEMMA MintStep ==
  ASSUME IInv, NEW t \in Tab, Mint(t)
  PROVE  /\ Steps(t, "address", MintedUrl(t), tab[t].back)
         /\ Len(flow') = Len(flow) + 1
         /\ flow'[Len(flow) + 1].request = tab[t].url.carries
         /\ flow'[Len(flow) + 1].alive
<1>1. PICK step \in {"first", "second", "none"} : flow' = Append(flow, NewFlow(t, step))
  BY DEF Mint
<1>2. /\ NewFlow(t, step) \in FlowRecord /\ NewFlow(t, step).alive
      /\ NewFlow(t, step).request = tab[t].url.carries
  BY TabIs DEF NewFlow, FlowRecord
<1>3. /\ Grown /\ Len(flow') = Len(flow) + 1
      /\ flow'[Len(flow) + 1] = NewFlow(t, step)
  BY <1>1, <1>2, Appended
<1>4. Posted
  BY <1>3, NotPosted DEF Mint
<1>5. /\ MintedUrl(t) \in AddressRecord /\ MintedUrl(t).flow = Len(flow) + 1
      /\ MintedUrl(t).fragment = tab[t].url.fragment
  BY MintedIs
<1>6. tab' = [tab EXCEPT ![t].at = "address", ![t].url = MintedUrl(t)]
  BY TabsAre DEF Mint, MintedUrl, TabRecord
<1>7. Moved(t, "address", MintedUrl(t), tab[t].back)
  BY <1>5, <1>6, TabsAre, ZenonT(40) DEF Moved, TabRecord
<1>8. session' \in 0..2 /\ enrolled' \in BOOLEAN /\ mail' = mail
  BY DEF Mint, IInv, TypeOK
<1> QED
  BY <1>2, <1>3, <1>4, <1>5, <1>7, <1>8, TabIs DEF Steps

-----------------------------------------------------------------------------
(* The forms. *)

LEMMA ScreenIs ==
  ASSUME IInv, NEW t \in Tab, tab[t].at = "screen"
  PROVE  /\ tab[t].url.flow # 0 /\ BackOf(t) = tab[t].url /\ ~Hopping(t)
         /\ tab[t].url.flow \in 1..Len(flow) /\ Flow(t) = flow[tab[t].url.flow]
         /\ Flow(t) \in FlowRecord /\ Flow(t).request \in SUBSET Param
<1>1. tab[t].url.flow # 0
  BY DEF IInv
<1> QED
  BY <1>1, FlowIs DEF BackOf, Hopping

(* Answered with the flow of the screen, which goes on.                      *)
LEMMA GoesOn ==
  ASSUME IInv, NEW t \in Tab, tab[t].at = "screen", Flow(t).alive,
         NEW x \in FlowRecord, flow' = [flow EXCEPT ![tab[t].url.flow] = x],
         x.request = Flow(t).request, x.used = Flow(t).used, x.alive,
         tab' = [tab EXCEPT ![t] = Answered(t, tab[t].url.flow)],
         UNCHANGED <<session, enrolled>>, mail' \in Seq(MailRecord),
         Len(mail') >= Len(mail), \A m \in 1..Len(mail') : mail'[m].flow \in 1..Len(flow)
  PROVE  /\ Steps(t, "address", Named(t, tab[t].url.flow), tab[t].url)
         /\ flow'[tab[t].url.flow].alive
<1>1. tab[t].url.flow \in 1..Len(flow) /\ Flow(t) = flow[tab[t].url.flow]
  BY ScreenIs
<1>2. Grown /\ Len(flow') = Len(flow)
  BY <1>1, Replaced
<1>3. flow'[tab[t].url.flow] = x
  BY <1>1, ExceptSeq, TabIs
<1>4. Moved(t, "address", Named(t, tab[t].url.flow), tab[t].url)
  BY AnsweredIs, ScreenIs, TabIs
<1>5. Posted
  BY <1>2 DEF Posted
<1>6. /\ Named(t, tab[t].url.flow).flow = tab[t].url.flow
      /\ Named(t, tab[t].url.flow).fragment = 0
  BY NamedIs, TabIs
<1>7. session' \in 0..2 /\ enrolled' \in BOOLEAN /\ Len(mail') \in Nat
  BY DEF IInv, TypeOK
<1> QED
  BY <1>2, <1>3, <1>4, <1>5, <1>6, <1>7, TabIs DEF Steps

LEMMA PostTooLateStep ==
  ASSUME IInv, NEW t \in Tab, PostTooLate(t)
  PROVE  \/ /\ Steps(t, "address", Named(t, tab[t].url.flow), tab[t].url)
            /\ flow'[tab[t].url.flow].alive
         \/ Steps(t, "refused", Nowhere, tab[t].back)
         \/ /\ Steps(t, "address", Named(t, Len(flow) + 1), tab[t].url)
            /\ flow'[Len(flow) + 1].request = Flow(t).request
            /\ flow'[Len(flow) + 1].alive
<1> USE DEF PostTooLate
<1>1. CASE Flow(t).alive
  <2>1. Moved(t, "address", Named(t, tab[t].url.flow), tab[t].url)
    BY <1>1, AnsweredIs, ScreenIs, TabIs
  <2>2. /\ Named(t, tab[t].url.flow).flow = tab[t].url.flow
        /\ Named(t, tab[t].url.flow).fragment = 0
    BY NamedIs, TabIs
  <2>3. Steps(t, "address", Named(t, tab[t].url.flow), tab[t].url)
    BY <1>1, <2>1, <2>2, TabOnly, TabIs DEF IInv, TypeOK
  <2>4. flow'[tab[t].url.flow].alive
    BY <1>1, ScreenIs
  <2> QED
    BY <2>3, <2>4
<1>2. CASE ~Flow(t).alive /\ tab' = [tab EXCEPT ![t] = RefusedPage(t)] /\ flow' = flow
  BY <1>2, RefusedStep
<1>3. CASE /\ flow' = Append(flow, [Flow(t) EXCEPT !.alive = TRUE, !.used = FALSE,
                              !.step = IF @ = "code" THEN "first" ELSE @])
           /\ tab' = [tab EXCEPT ![t] = Answered(t, Len(flow) + 1)]
  <2> DEFINE x == [Flow(t) EXCEPT !.alive = TRUE, !.used = FALSE,
                                  !.step = IF @ = "code" THEN "first" ELSE @]
  <2>1. x \in FlowRecord /\ x.request = Flow(t).request /\ x.alive
    BY ScreenIs DEF FlowRecord
  <2>2. Grown /\ Len(flow') = Len(flow) + 1 /\ flow'[Len(flow) + 1] = x
    BY <1>3, <2>1, Appended
  <2>3. Moved(t, "address", Named(t, Len(flow) + 1), tab[t].url)
    BY <1>3, AnsweredIs, ScreenIs, TabIs
  <2>4. /\ Named(t, Len(flow) + 1).flow = Len(flow) + 1
        /\ Named(t, Len(flow) + 1).fragment = 0
    BY NamedIs, TabIs
  <2>5. Posted
    BY <2>2, NotPosted
  <2>6. session' \in 0..2 /\ enrolled' \in BOOLEAN /\ mail' = mail
    BY DEF IInv, TypeOK
  <2>7. Steps(t, "address", Named(t, Len(flow) + 1), tab[t].url)
    BY <2>2, <2>3, <2>4, <2>5, <2>6, TabIs DEF Steps
  <2> QED
    BY <2>1, <2>2, <2>7
<1> QED
  BY <1>1, <1>2, <1>3

LEMMA MailCodeStep ==
  ASSUME IInv, NEW t \in Tab, tab[t].at = "screen", Flow(t).alive, MailCode(t)
  PROVE  /\ Steps(t, "address", Named(t, tab[t].url.flow), tab[t].url)
         /\ flow'[tab[t].url.flow].alive
<1> DEFINE x == [Flow(t) EXCEPT !.step = "code", !.code = Len(mail) + 1]
           letter == [flow |-> Link(t), followed |-> 0, spent |-> 0]
<1>1. x \in FlowRecord /\ x.request = Flow(t).request /\ x.used = Flow(t).used /\ x.alive
  BY ScreenIs, TabIs DEF FlowRecord
<1>2. flow' = [flow EXCEPT ![tab[t].url.flow] = x]
  BY ScreenIs, TabIs DEF MailCode, FlowRecord
<1>3. letter \in MailRecord /\ letter.flow = tab[t].url.flow
  BY TabIs DEF Link, MailRecord
<1>4. /\ mail' \in Seq(MailRecord) /\ Len(mail') = Len(mail) + 1
      /\ \A m \in 1..Len(mail) : mail'[m] = mail[m]
      /\ mail'[Len(mail) + 1] = letter
  BY <1>3, AppendProperties DEF MailCode, IInv
<1>5. ASSUME NEW m \in 1..Len(mail') PROVE mail'[m].flow \in 1..Len(flow)
  <2>1. CASE m \in 1..Len(mail)
    BY <1>4, <2>1 DEF IInv, TypeOK
  <2>2. CASE m = Len(mail) + 1
    BY <1>3, <1>4, <2>2, ScreenIs
  <2> QED
    BY <1>4, <2>1, <2>2, TabIs
<1>6. Len(mail') >= Len(mail)
  BY <1>4, TabIs
<1>7. /\ tab' = [tab EXCEPT ![t] = Answered(t, tab[t].url.flow)]
      /\ UNCHANGED <<session, enrolled>>
  BY DEF MailCode
<1> HIDE DEF x
<1> QED
  BY <1>1, <1>2, <1>4, <1>5, <1>6, <1>7, GoesOn

LEMMA BackToFirstStep ==
  ASSUME IInv, NEW t \in Tab, BackToFirst(t)
  PROVE  /\ Steps(t, "address", Named(t, tab[t].url.flow), tab[t].url)
         /\ flow'[tab[t].url.flow].alive
<1> DEFINE x == [Flow(t) EXCEPT !.step = "first"]
<1>0. tab[t].at = "screen" /\ Flow(t).alive
  BY DEF BackToFirst, Posts, At
<1>1. x \in FlowRecord /\ x.request = Flow(t).request /\ x.used = Flow(t).used /\ x.alive
  BY <1>0, ScreenIs DEF FlowRecord
<1>2. flow' = [flow EXCEPT ![tab[t].url.flow] = x]
  BY <1>0, ScreenIs, TabIs DEF BackToFirst
<1>3. /\ mail' \in Seq(MailRecord) /\ Len(mail') >= Len(mail)
      /\ \A m \in 1..Len(mail') : mail'[m].flow \in 1..Len(flow)
  BY DEF BackToFirst, IInv, TypeOK
<1>4. /\ tab' = [tab EXCEPT ![t] = Answered(t, tab[t].url.flow)]
      /\ UNCHANGED <<session, enrolled>>
  BY DEF BackToFirst
<1> HIDE DEF x
<1> QED
  BY <1>0, <1>1, <1>2, <1>3, <1>4, GoesOn

(* The flow of the screen was used.                                          *)
LEMMA UsedStep ==
  ASSUME IInv, NEW t \in Tab, tab[t].at = "screen",
         flow' = [flow EXCEPT ![tab[t].url.flow] = Used(@)]
  PROVE  Grown /\ Len(flow') = Len(flow)
<1>1. tab[t].url.flow \in 1..Len(flow) /\ Flow(t) = flow[tab[t].url.flow] /\ Flow(t) \in FlowRecord
  BY ScreenIs
<1> DEFINE x == Used(Flow(t))
<1>2. x \in FlowRecord /\ x.request = Flow(t).request /\ x.used /\ ~x.alive
  BY <1>1 DEF Used, Over, FlowRecord
<1>3. flow' = [flow EXCEPT ![tab[t].url.flow] = x]
  BY <1>1
<1> HIDE DEF x
<1> QED
  BY <1>1, <1>2, <1>3, Replaced, ZenonT(40)

(* A code, right or not, from the address left.                              *)
LEMMA AttemptStep ==
  ASSUME IInv, NEW t \in Tab, NEW left \in AddressRecord, NEW isRight \in BOOLEAN,
         Attempt(t, left, isRight), left.flow = tab[t].url.flow,
         left.fragment \in 0..Len(mail), mail' \in Seq(MailRecord), Len(mail') = Len(mail),
         \A m \in 1..Len(mail) : mail'[m].flow = mail[m].flow
  PROVE  /\ tab[t].at = "screen"
         /\ \/ /\ Steps(t, "answered", Named(t, 0), left)
               /\ tab'[t].answered = Flow(t).request
            \/ /\ Steps(t, "address", Named(t, tab[t].url.flow), left)
               /\ flow'[tab[t].url.flow].alive
<1>1. tab[t].at = "screen" /\ Flow(t).alive /\ enrolled' = enrolled
  BY DEF Attempt, Posts, At
<1>2. /\ session \in 0..2 /\ enrolled \in BOOLEAN /\ tab \in [Tab -> TabRecord]
  BY DEF IInv, TypeOK
<1>3. CASE isRight
  <2>1. session' \in 0..2
    BY <1>2, <1>3 DEF Attempt
  <2>2. Grown /\ Len(flow') = Len(flow)
    BY <1>1, <1>3, UsedStep DEF Attempt
  <2>3. Posted
    BY <2>2, SamePosts
  <2>4. /\ Finished(t, Flow(t).request, 0) \in TabRecord
        /\ Finished(t, Flow(t).request, 0).at = "answered"
        /\ Finished(t, Flow(t).request, 0).answered = Flow(t).request
        /\ Finished(t, Flow(t).request, 0).url = Named(t, 0)
    BY <1>1, ScreenIs, FinishedIs
  <2>5. tab' = [tab EXCEPT ![t] = [Finished(t, Flow(t).request, 0) EXCEPT !.back = left]]
    BY <1>3 DEF Attempt
  <2>6. Moved(t, "answered", Named(t, 0), left) /\ tab'[t].answered = Flow(t).request
    BY <1>2, <2>4, <2>5 DEF Moved, TabRecord
  <2>7. Named(t, 0).flow = 0 /\ Named(t, 0).fragment = 0
    BY NamedIs
  <2> QED
    BY <1>1, <1>2, <2>1, <2>2, <2>3, <2>6, <2>7, TabIs DEF Steps
<1>4. CASE ~isRight
  <2>1. UNCHANGED <<flow, session>>
    BY <1>4 DEF Attempt
  <2>2. Grown /\ Posted
    BY <2>1, Unchanged, SamePosts
  <2>3. /\ Answered(t, tab[t].url.flow) \in TabRecord
        /\ Answered(t, tab[t].url.flow).at = "address"
        /\ Answered(t, tab[t].url.flow).url = Named(t, tab[t].url.flow)
    <3>1. Answered(t, tab[t].url.flow) = Go(t, Named(t, tab[t].url.flow))
      BY DEF Answered, Named
    <3>2. Named(t, tab[t].url.flow) \in AddressRecord /\ tab[t] \in TabRecord
      BY NamedIs, TabIs
    <3> QED
      BY <3>1, <3>2 DEF Go, TabRecord
  <2>4. tab' = [tab EXCEPT ![t] = [Answered(t, tab[t].url.flow) EXCEPT !.back = left]]
    BY <1>4 DEF Attempt
  <2>5. Moved(t, "address", Named(t, tab[t].url.flow), left)
    BY <1>2, <2>3, <2>4 DEF Moved, TabRecord
  <2>6. /\ Named(t, tab[t].url.flow).flow = tab[t].url.flow
        /\ Named(t, tab[t].url.flow).fragment = 0
    BY NamedIs, TabIs
  <2>7. flow'[tab[t].url.flow].alive
    BY <1>1, <2>1, ScreenIs
  <2> QED
    BY <1>1, <1>2, <2>1, <2>2, <2>5, <2>6, <2>7, TabIs DEF Steps
<1> QED
  BY <1>3, <1>4

LEMMA EnterCodeStep ==
  ASSUME IInv, NEW t \in Tab, EnterCode(t)
  PROVE  /\ tab[t].at = "screen"
         /\ \/ /\ Steps(t, "answered", Named(t, 0), tab[t].url)
               /\ tab'[t].answered = Flow(t).request
            \/ /\ Steps(t, "address", Named(t, tab[t].url.flow), tab[t].url)
               /\ flow'[tab[t].url.flow].alive
<1>1. PICK isRight \in BOOLEAN : Attempt(t, tab[t].url, isRight)
  BY DEF EnterCode
<1>2. mail' = mail /\ mail' \in Seq(MailRecord)
  BY DEF EnterCode, IInv
<1> QED
  BY <1>1, <1>2, AttemptStep, TabIs

LEMMA LeftIs ==
  ASSUME IInv, NEW t \in Tab
  PROVE  /\ LeftAddress(t) \in AddressRecord /\ LeftAddress(t).flow = tab[t].url.flow
         /\ LeftAddress(t).fragment = 0 /\ LeftAddress(t).type = tab[t].url.type
         /\ LeftAddress(t).carries = tab[t].url.carries
         /\ LeftAddress(t).asked = tab[t].url.asked
         /\ LeftAddress(t).aal2 = tab[t].url.aal2
  BY TabIs DEF LeftAddress, AddressRecord

LEMMA AutoSubmitStep ==
  ASSUME IInv, NEW t \in Tab, AutoSubmit(t)
  PROVE  /\ tab[t].at = "screen"
         /\ Len(mail') = Len(mail) /\ tab[t].url.fragment \in 1..Len(mail)
         /\ \A m \in 1..Len(mail) :
              /\ mail'[m].followed = mail[m].followed
              /\ mail'[m].spent = IF m = tab[t].url.fragment THEN mail[m].spent + 1
                                                             ELSE mail[m].spent
         /\ \/ /\ Steps(t, "answered", Named(t, 0), LeftAddress(t))
               /\ tab'[t].answered = Flow(t).request
            \/ /\ Steps(t, "address", Named(t, tab[t].url.flow), LeftAddress(t))
               /\ flow'[tab[t].url.flow].alive
<1> DEFINE m == tab[t].url.fragment
           x == [mail[m] EXCEPT !.spent = @ + 1]
<1>1. m \in 1..Len(mail) /\ mail \in Seq(MailRecord)
  BY TabIs DEF AutoSubmit, IInv
<1>2. mail[m] \in MailRecord
  BY <1>1
<1>3. /\ x \in MailRecord /\ x.flow = mail[m].flow /\ x.followed = mail[m].followed
      /\ x.spent = mail[m].spent + 1
  BY <1>2 DEF MailRecord
<1>4. mail' = [mail EXCEPT ![m] = x]
  BY <1>1 DEF AutoSubmit
<1>5. /\ mail' \in Seq(MailRecord) /\ Len(mail') = Len(mail)
      /\ \A n \in 1..Len(mail) : mail'[n] = IF n = m THEN x ELSE mail[n]
  <2> HIDE DEF x, m
  <2> QED
    BY <1>1, <1>3, <1>4, ExceptSeq
<1>6. \A n \in 1..Len(mail) :
        /\ mail'[n].flow = mail[n].flow /\ mail'[n].followed = mail[n].followed
        /\ mail'[n].spent = IF n = m THEN mail[n].spent + 1 ELSE mail[n].spent
  BY <1>3, <1>5
<1>7. \E isRight \in BOOLEAN : Attempt(t, LeftAddress(t), isRight)
  BY DEF AutoSubmit
<1>8. 0 \in 0..Len(mail)
  BY TabIs
<1> QED
  BY <1>1, <1>5, <1>6, <1>7, <1>8, AttemptStep, LeftIs

LEMMA AutoSubmitTooLateStep ==
  ASSUME IInv, NEW t \in Tab, AutoSubmitTooLate(t)
  PROVE  Steps(t, "screen", LeftAddress(t), tab[t].back)
<1>1. tab[t].at = "screen" /\ tab[t].url.flow # 0
  BY ScreenIs DEF AutoSubmitTooLate, At
<1>2. Moved(t, "screen", LeftAddress(t), tab[t].back)
  BY <1>1, LeftIs, TabsAre, ZenonT(40) DEF AutoSubmitTooLate, Moved, TabRecord
<1>3. 0 \in 0..Len(mail)
  BY TabIs
<1> QED
  BY <1>1, <1>2, <1>3, LeftIs, TabOnly, TabIs, LevelIs DEF AutoSubmitTooLate

(* Finished by the flow of the screen.                                       *)
LEMMA FinishedStep ==
  ASSUME IInv, NEW t \in Tab, tab[t].at = "screen", session' = 2, enrolled' \in BOOLEAN,
         mail' = mail, flow' = [flow EXCEPT ![tab[t].url.flow] = Used(@)],
         tab' = [tab EXCEPT ![t] = Finished(t, Flow(t).request, 0)]
  PROVE  /\ Steps(t, "answered", Named(t, 0), tab[t].back)
         /\ tab'[t].answered = Flow(t).request
<1>0. session' \in 0..2
  OBVIOUS
<1>1. Grown /\ Len(flow') = Len(flow)
  BY UsedStep
<1>2. Posted
  BY <1>1, NotPosted
<1>3. Moved(t, "answered", Named(t, 0), tab[t].back) /\ tab'[t].answered = Flow(t).request
  BY ScreenIs, FinishedMoves
<1>4. Named(t, 0).flow = 0 /\ Named(t, 0).fragment = 0
  BY NamedIs
<1> QED
  BY <1>0, <1>1, <1>2, <1>3, <1>4, TabIs DEF Steps

LEMMA EnterSecondFactorStep ==
  ASSUME IInv, NEW t \in Tab, EnterSecondFactor(t)
  PROVE  /\ tab[t].at = "screen"
         /\ \/ /\ Steps(t, "answered", Named(t, 0), tab[t].back)
               /\ tab'[t].answered = Flow(t).request
            \/ /\ Steps(t, "address", Named(t, tab[t].url.flow), tab[t].url)
               /\ flow'[tab[t].url.flow].alive
<1>1. tab[t].at = "screen" /\ Flow(t).alive
  BY DEF EnterSecondFactor, Posts, At
<1>2. session \in 0..2 /\ enrolled' \in BOOLEAN /\ mail' = mail /\ enrolled' = enrolled
  BY DEF EnterSecondFactor, IInv, TypeOK
<1>3. CASE /\ session' = 2
           /\ flow' = [flow EXCEPT ![tab[t].url.flow] = Used(@)]
           /\ tab' = [tab EXCEPT ![t] = Finished(t, Flow(t).request, 0)]
  BY <1>1, <1>2, <1>3, FinishedStep
<1>4. CASE /\ tab' = [tab EXCEPT ![t] = Answered(t, tab[t].url.flow)]
           /\ UNCHANGED <<flow, session>>
  <2>1. Moved(t, "address", Named(t, tab[t].url.flow), tab[t].url)
    BY <1>1, <1>4, AnsweredIs, ScreenIs, TabIs
  <2>2. /\ Named(t, tab[t].url.flow).flow = tab[t].url.flow
        /\ Named(t, tab[t].url.flow).fragment = 0
    BY NamedIs, TabIs
  <2>3. Steps(t, "address", Named(t, tab[t].url.flow), tab[t].url)
    BY <1>2, <1>4, <2>1, <2>2, TabOnly, TabIs
  <2>4. flow'[tab[t].url.flow].alive
    BY <1>1, <1>2, <1>4, ScreenIs
  <2> QED
    BY <1>1, <2>3, <2>4
<1> QED
  BY <1>3, <1>4 DEF EnterSecondFactor

LEMMA EnrolStep ==
  ASSUME IInv, NEW t \in Tab, Enrol(t)
  PROVE  /\ tab[t].at = "screen"
         /\ Steps(t, "answered", Named(t, 0), tab[t].back)
         /\ tab'[t].answered = Flow(t).request
<1>1. tab[t].at = "screen"
  BY DEF Enrol, Posts, At
<1>2. /\ session' = 2 /\ enrolled' \in BOOLEAN /\ mail' = mail
      /\ flow' = [flow EXCEPT ![tab[t].url.flow] = Used(@)]
      /\ tab' = [tab EXCEPT ![t] = Finished(t, Flow(t).request, 0)]
  BY DEF Enrol
<1> QED
  BY <1>1, <1>2, FinishedStep

-----------------------------------------------------------------------------
(* The links, and what a browser does by itself. *)

LEMMA ArrivedIs ==
  ASSUME IInv, NEW t \in Tab, NEW url \in AddressRecord,
         tab' = [tab EXCEPT ![t] = [Away EXCEPT !.at = "address", !.url = url]]
  PROVE  Moved(t, "address", url, Nowhere)
<1>1. tab \in [Tab -> TabRecord]
  BY DEF IInv, TypeOK
<1> QED
  BY <1>1, AwayIs DEF Moved, TabRecord

LEMMA ArriveStep ==
  ASSUME IInv, NEW t \in Tab, NEW request \in Request, NEW aal2 \in BOOLEAN,
         Arrive(t, request, aal2)
  PROVE  Steps(t, "address", Address("login", 0, request, aal2, 0, request), Nowhere)
<1> DEFINE url == Address("login", 0, request, aal2, 0, request)
<1>1. request \in SUBSET Param
  BY SignInAssumption
<1>2. url \in AddressRecord /\ url.flow = 0 /\ url.fragment = 0
  BY <1>1 DEF Address, AddressRecord, FlowType
<1>3. tab' = [tab EXCEPT ![t] = [Away EXCEPT !.at = "address", !.url = url]]
  BY DEF Arrive
<1>4. Moved(t, "address", url, Nowhere)
  <2> HIDE DEF url
  <2> QED
    BY <1>2, <1>3, ArrivedIs
<1> QED
  BY <1>2, <1>4, NowhereIs, TabOnly, TabIs, LevelIs DEF Arrive

(* Off to the start of a flow, by a link.                                    *)
LEMMA LinkStep ==
  ASSUME IInv, NEW t \in Tab, NEW url \in AddressRecord, url.flow = 0, url.fragment = 0,
         tab' = [tab EXCEPT ![t] = Go(t, url)], UNCHANGED <<flow, enrolled, mail>>,
         session' \in 0..2
  PROVE  Steps(t, "address", url, BackOf(t))
<1>1. Moved(t, "address", url, BackOf(t))
  BY GoIs
<1> QED
  BY <1>1, TabOnly, TabIs

Start(type) == Address(type, 0, {}, FALSE, 0, {})

LEMMA StartIs ==
  ASSUME NEW type \in FlowType
  PROVE  /\ Start(type) \in AddressRecord /\ Start(type).flow = 0 /\ Start(type).fragment = 0
         /\ Start(type).carries = {} /\ Start(type).asked = {} /\ Start(type).type = type
  BY DEF Start, Address, AddressRecord

LEMMA LeaveStep ==
  ASSUME IInv, NEW t \in Tab, NEW type \in FlowType, Leave(t, type)
  PROVE  Steps(t, "address", Start(type), BackOf(t))
<1>1. session' \in 0..2
  BY DEF Leave, IInv, TypeOK
<1> QED
  BY <1>1, StartIs, LinkStep DEF Leave, Start

RestartUrl(t) == Address("login", 0, Restarted(t), FALSE, 0, tab[t].url.asked)

LEMMA UseAnotherAccountStep ==
  ASSUME IInv, NEW t \in Tab, UseAnotherAccount(t)
  PROVE  /\ tab[t].at = "screen" /\ tab[t].url.type = "login"
         /\ Steps(t, "address", RestartUrl(t), tab[t].url)
         /\ RestartUrl(t).flow = 0 /\ RestartUrl(t).carries = Flow(t).request
         /\ RestartUrl(t).asked = tab[t].url.asked
<1>1. tab[t].at = "screen" /\ session' \in 0..2
  BY DEF UseAnotherAccount, At, IInv, TypeOK
<1>2. Flow(t).request \in SUBSET Param /\ BackOf(t) = tab[t].url
  BY <1>1, ScreenIs
<1>3. /\ RestartUrl(t) \in AddressRecord /\ RestartUrl(t).flow = 0
      /\ RestartUrl(t).fragment = 0 /\ RestartUrl(t).carries = Flow(t).request
      /\ RestartUrl(t).asked = tab[t].url.asked
  BY <1>2, TabIs DEF RestartUrl, Restarted, Carried, Address, AddressRecord, FlowType
<1>4. tab' = [tab EXCEPT ![t] = Go(t, RestartUrl(t))]
  BY DEF UseAnotherAccount, RestartUrl
<1> QED
  BY <1>1, <1>2, <1>3, <1>4, LinkStep DEF UseAnotherAccount

LEMMA SignOutStep ==
  ASSUME IInv, NEW t \in Tab, SignOut(t)
  PROVE  tab[t].at = "screen" /\ Steps(t, "address", Start("login"), tab[t].url)
<1>1. tab[t].at = "screen"
  BY DEF SignOut, At
<1>2. BackOf(t) = tab[t].url
  BY <1>1, ScreenIs
<1>3. /\ session' \in 0..2 /\ UNCHANGED <<flow, enrolled, mail>>
      /\ tab' = [tab EXCEPT ![t] = Go(t, Start("login"))]
  <2>1. session' = 0 /\ UNCHANGED <<flow, enrolled, mail>>
    BY DEF SignOut
  <2>2. tab' = [tab EXCEPT ![t] = Go(t, Start("login"))]
    BY Zenon DEF SignOut, Start
  <2> QED
    BY <2>1, <2>2
<1>4. "login" \in FlowType
  BY DEF FlowType
<1>5. /\ Start("login") \in AddressRecord /\ Start("login").flow = 0
      /\ Start("login").fragment = 0
  BY <1>4, StartIs
<1>6. Steps(t, "address", Start("login"), BackOf(t))
  BY <1>3, <1>5, LinkStep
<1> QED
  BY <1>1, <1>2, <1>6

SetUpUrl(t) ==
  Address("settings", 0, Flow(t).request \cap {"return_to"}, FALSE, 0, tab[t].url.asked)

LEMMA SetUpStep ==
  ASSUME IInv, NEW t \in Tab, SetUp(t)
  PROVE  /\ tab[t].at = "screen"
         /\ Steps(t, "address", SetUpUrl(t), tab[t].url) /\ SetUpUrl(t).type = "settings"
<1>1. tab[t].at = "screen" /\ session' \in 0..2
  BY DEF SetUp, At, IInv, TypeOK
<1>2. Flow(t).request \in SUBSET Param /\ BackOf(t) = tab[t].url
  BY <1>1, ScreenIs
<1>3. /\ SetUpUrl(t) \in AddressRecord /\ SetUpUrl(t).flow = 0
      /\ SetUpUrl(t).fragment = 0 /\ SetUpUrl(t).type = "settings"
  BY <1>2, TabIs DEF SetUpUrl, Address, AddressRecord, FlowType
<1> QED
  BY <1>1, <1>2, <1>3, LinkStep DEF SetUp, SetUpUrl

FollowUrl(m) ==
  Address("login", mail[m].flow, {}, FALSE, m,
          IF flow[mail[m].flow].alive THEN flow[mail[m].flow].request ELSE {})

LEMMA FollowStep ==
  ASSUME IInv, NEW t \in Tab, NEW m \in DOMAIN mail, Follow(t, m)
  PROVE  /\ Steps(t, "address", FollowUrl(m), Nowhere)
         /\ m \in 1..Len(mail) /\ Len(mail') = Len(mail)
         /\ FollowUrl(m).type = "login" /\ FollowUrl(m).carries = {}
         /\ FollowUrl(m).flow = mail[m].flow /\ FollowUrl(m).flow \in 1..Len(flow)
         /\ FollowUrl(m).aal2 = FALSE /\ FollowUrl(m).fragment = m
         /\ flow[mail[m].flow].alive => FollowUrl(m).asked = flow[mail[m].flow].request
         /\ ~flow[mail[m].flow].alive => FollowUrl(m).asked = {}
<1> DEFINE x == [mail[m] EXCEPT !.followed = @ + 1]
<1>1. m \in 1..Len(mail) /\ mail \in Seq(MailRecord) /\ mail[m] \in MailRecord
  BY DEF IInv
<1>2. mail[m].flow \in 1..Len(flow) /\ flow[mail[m].flow] \in FlowRecord
  BY <1>1 DEF IInv, TypeOK
<1>3. flow[mail[m].flow].request \in SUBSET Param
  BY <1>2 DEF FlowRecord
<1>4. /\ x \in MailRecord /\ x.flow = mail[m].flow /\ x.spent = mail[m].spent
      /\ x.followed = mail[m].followed + 1
  <2>1. mail[m] \in [flow : Nat, followed : Nat, spent : Nat]
    BY <1>1 DEF MailRecord
  <2> QED
    BY <2>1 DEF MailRecord
<1>5. mail' = [mail EXCEPT ![m] = x]
  BY <1>1 DEF Follow
<1>6. /\ mail' \in Seq(MailRecord) /\ Len(mail') = Len(mail)
      /\ \A n \in 1..Len(mail) : mail'[n] = IF n = m THEN x ELSE mail[n]
  <2> HIDE DEF x
  <2> QED
    BY <1>1, <1>4, <1>5, ExceptSeq
<1>7. /\ FollowUrl(m) \in AddressRecord
      /\ FollowUrl(m).type = "login" /\ FollowUrl(m).carries = {}
      /\ FollowUrl(m).flow = mail[m].flow
      /\ FollowUrl(m).aal2 = FALSE /\ FollowUrl(m).fragment = m
      /\ FollowUrl(m).asked = IF flow[mail[m].flow].alive THEN flow[mail[m].flow].request
                                                         ELSE {}
  BY <1>1, <1>2, <1>3 DEF FollowUrl, Address, AddressRecord, FlowType
<1>8. Moved(t, "address", FollowUrl(m), Nowhere)
  BY <1>7, ArrivedIs DEF Follow, FollowUrl
<1>9. Grown /\ flow' = flow /\ session' \in 0..2 /\ enrolled' \in BOOLEAN
  BY Unchanged DEF Follow, IInv, TypeOK
<1>10. Posted
  BY <1>4, <1>6, <1>9, SamePosts
<1>11. FollowUrl(m).flow \in 0..Len(flow') /\ FollowUrl(m).fragment \in 0..Len(mail')
  BY <1>1, <1>2, <1>6, <1>7, <1>9
<1>12. Nowhere.flow \in 0..Len(flow') /\ Nowhere.fragment \in 0..Len(mail')
  BY <1>6, <1>9, NowhereIs, TabIs
<1>13. Steps(t, "address", FollowUrl(m), Nowhere)
  BY <1>8, <1>9, <1>10, <1>11, <1>12 DEF Steps
<1> QED
  BY <1>1, <1>2, <1>6, <1>7, <1>13

(* It counts as followed, and spends nothing yet.                            *)
LEMMA FollowCounts ==
  ASSUME IInv, NEW m \in DOMAIN mail, NEW t \in Tab, Follow(t, m), NEW n \in 1..Len(mail)
  PROVE  /\ mail'[n].spent = mail[n].spent
         /\ n = m => mail'[n].followed = mail[n].followed + 1
         /\ n # m => mail'[n].followed = mail[n].followed
<1>1. mail \in Seq(MailRecord) /\ m \in 1..Len(mail) /\ mail' = [mail EXCEPT ![m].followed = @ + 1]
  BY DEF IInv, Follow
<1>2. mail[n] \in MailRecord /\ mail[m] \in MailRecord
  BY <1>1
<1>3. CASE n = m
  BY <1>1, <1>2, <1>3 DEF MailRecord
<1>4. CASE n # m
  BY <1>1, <1>4
<1> QED
  BY <1>3, <1>4

LEMMA ReloadStep ==
  ASSUME IInv, NEW t \in Tab, Reload(t)
  PROVE  Steps(t, "address", tab[t].url, tab[t].back)
<1>1. Moved(t, "address", tab[t].url, tab[t].back)
  BY TabsAre, ZenonT(40) DEF Reload, Moved, TabRecord
<1> QED
  BY <1>1, TabOnly, TabIs, LevelIs DEF Reload

LEMMA BackStep ==
  ASSUME IInv, NEW t \in Tab, Back(t)
  PROVE  Steps(t, "address", tab[t].back, Nowhere)
<1>1. Moved(t, "address", tab[t].back, Nowhere)
  BY ArrivedIs, TabIs DEF Back
<1> QED
  BY <1>1, NowhereIs, TabOnly, TabIs, LevelIs DEF Back

LEMMA CloseStep ==
  ASSUME IInv, NEW t \in Tab, Close(t)
  PROVE  Steps(t, "away", Nowhere, Nowhere)
<1>1. Moved(t, "away", Nowhere, Nowhere)
  BY AwayIs DEF Close, Moved, IInv, TypeOK
<1> QED
  BY <1>1, NowhereIs, TabOnly, TabIs, LevelIs DEF Close

LEMMA ExpireStep ==
  ASSUME IInv, NEW f \in DOMAIN flow, Expire(f)
  PROVE  Grown /\ IInv'
<1> DEFINE x == Over(flow[f])
<1>1. f \in 1..Len(flow) /\ flow[f] \in FlowRecord
  BY DEF IInv, TypeOK
<1>2. x \in FlowRecord /\ x.request = flow[f].request /\ x.used = flow[f].used /\ ~x.alive
  BY <1>1 DEF Over, FlowRecord
<1>3. flow' = [flow EXCEPT ![f] = x] /\ \A u \in Tab : tab[u].url.flow = f => ~Hopping(u)
  BY <1>1 DEF Expire
<1>4. Grown /\ Len(flow') = Len(flow)
  <2> HIDE DEF x
  <2> QED
    BY <1>1, <1>2, <1>3, Replaced
<1>5. flow' \in Seq(FlowRecord)
  BY <1>4 DEF Grown
<1> QED
  BY <1>4, <1>5 DEF Expire, IInv, TypeOK

-----------------------------------------------------------------------------
(* Types. *)

(* A step of the browser or of Kratos is one tab's, or a flow's time is up.  *)
LEMMA TypesStay == IInv /\ [Next]_vars => IInv'
<1> SUFFICES ASSUME IInv, [Next]_vars PROVE IInv'
  OBVIOUS
<1>1. ASSUME NEW t \in Tab, Hop(t) PROVE IInv'
  <2>1. CASE MintAnew(t) \/ FetchFails(t)
    BY <2>1, MintAnewStep, FetchFailsStep, TypeStep
  <2>2. CASE Refused(t)
    BY <2>2, RefusedStep, TypeStep DEF Refused
  <2>3. CASE Heal(t)
    BY <2>3, HealStep, TypeStep
  <2>4. CASE Render(t)
    BY <2>4, RenderStep, TypeStep
  <2>5. CASE AlreadySignedIn(t)
    BY <2>5, AlreadySignedInStep, TypeStep
  <2>6. CASE NoSession(t)
    BY <2>6, NoSessionStep, TypeStep
  <2>7. CASE Mint(t)
    BY <2>7, MintStep, TypeStep
  <2> QED
    BY <1>1, <2>1, <2>2, <2>3, <2>4, <2>5, <2>6, <2>7 DEF Hop
<1>2. ASSUME NEW t \in Tab, Fill(t) PROVE IInv'
  <2>1. CASE SubmitEmail(t) \/ Resend(t)
    BY <2>1, MailCodeStep, TypeStep DEF SubmitEmail, Resend, Posts, At
  <2>2. CASE BackToFirst(t)
    BY <2>2, BackToFirstStep, TypeStep
  <2>3. CASE EnterCode(t)
    BY <2>3, EnterCodeStep, TypeStep
  <2>4. CASE AutoSubmit(t)
    BY <2>4, AutoSubmitStep, TypeStep
  <2>5. CASE AutoSubmitTooLate(t)
    BY <2>5, AutoSubmitTooLateStep, TypeStep
  <2>6. CASE EnterSecondFactor(t)
    BY <2>6, EnterSecondFactorStep, TypeStep
  <2>7. CASE Enrol(t)
    BY <2>7, EnrolStep, TypeStep
  <2>8. CASE PostTooLate(t)
    BY <2>8, PostTooLateStep, TypeStep
  <2> QED
    BY <1>2, <2>1, <2>2, <2>3, <2>4, <2>5, <2>6, <2>7, <2>8 DEF Fill
<1>3. ASSUME NEW t \in Tab, Browse(t) PROVE IInv'
  <2>1. CASE \E request \in Request, aal2 \in BOOLEAN : Arrive(t, request, aal2)
    BY <2>1, ArriveStep, TypeStep
  <2>2. CASE \E type \in FlowType : Leave(t, type)
    BY <2>2, LeaveStep, TypeStep
  <2>3. CASE UseAnotherAccount(t)
    BY <2>3, UseAnotherAccountStep, TypeStep
  <2>4. CASE SignOut(t)
    BY <2>4, SignOutStep, TypeStep
  <2>5. CASE SetUp(t)
    BY <2>5, SetUpStep, TypeStep
  <2>6. CASE \E m \in DOMAIN mail : Follow(t, m)
    BY <2>6, FollowStep, TypeStep
  <2>7. CASE Reload(t)
    BY <2>7, ReloadStep, TypeStep
  <2>8. CASE Back(t)
    BY <2>8, BackStep, TypeStep
  <2>9. CASE Close(t)
    BY <2>9, CloseStep, TypeStep
  <2> QED
    BY <1>3, <2>1, <2>2, <2>3, <2>4, <2>5, <2>6, <2>7, <2>8, <2>9 DEF Browse
<1>4. ASSUME NEW f \in DOMAIN flow, Expire(f) PROVE IInv'
  BY <1>4, ExpireStep
<1>5. CASE UNCHANGED vars
  BY <1>5 DEF vars, IInv, TypeOK
<1> QED
  BY <1>1, <1>2, <1>3, <1>4, <1>5 DEF Next

LEMMA TypesBegin == Init => IInv
<1> SUFFICES ASSUME Init PROVE IInv
  OBVIOUS
<1>1. flow = <<>> /\ mail = <<>> /\ session \in 0..1 /\ enrolled \in BOOLEAN
      /\ tab = [t \in Tab |-> Away]
  BY DEF Init
<1>2. \A t \in Tab : tab[t] = Away
  BY <1>1
<1>3. /\ flow \in Seq(FlowRecord) /\ mail \in Seq(MailRecord)
      /\ Len(flow) = 0 /\ Len(mail) = 0 /\ DOMAIN mail = {}
  BY <1>1
<1>4. tab \in [Tab -> TabRecord]
  BY <1>1, AwayIs
<1> QED
  BY <1>1, <1>2, <1>3, <1>4, AwayIs, NowhereIs DEF IInv, TypeOK

(* The invariant the theorems rest on.                                       *)
THEOREM Invariant == Spec => []IInv
  BY TypesBegin, TypesStay, PTL DEF Spec

(* Every variable holds a value of its kind, for any tabs and bounds.        *)
THEOREM TypeCorrect == Spec => []TypeOK
<1>1. IInv => TypeOK
  BY DEF IInv
<1> QED
  BY <1>1, Invariant, PTL

-----------------------------------------------------------------------------
(* A mailed link spends one attempt. *)

Weight(url, m) == IF url.fragment = m THEN 1 ELSE 0

(* The tabs whose address, or the address behind it, bears the code.         *)
Bearing(m) == {t \in Tab : tab[t].url.fragment = m}
Behind(m)  == {t \in Tab : tab[t].back.fragment = m}

(* Each time a link was followed is an attempt spent or an address bearing   *)
(* the code.                                                                 *)
Spends ==
  \A m \in 1..Len(mail) :
    mail[m].spent + Cardinality(Bearing(m)) + Cardinality(Behind(m)) <= mail[m].followed

LEMMA Counted ==
  ASSUME NEW t \in Tab, NEW A \in SUBSET Tab, NEW B \in SUBSET Tab, A \ {t} = B \ {t}
  PROVE  /\ Cardinality(A) \in Nat /\ Cardinality(B) \in Nat
         /\ Cardinality(B) + (IF t \in A THEN 1 ELSE 0)
              = Cardinality(A) + (IF t \in B THEN 1 ELSE 0)
<1>1. IsFiniteSet(A) /\ IsFiniteSet(B)
  BY SignInAssumption, FS_Subset
<1>2. Cardinality(A) \in Nat /\ Cardinality(B) \in Nat
  BY <1>1, FS_CardinalityType
<1>3. Cardinality(A \ {t}) = IF t \in A THEN Cardinality(A) - 1 ELSE Cardinality(A)
  BY <1>1, FS_RemoveElement
<1>4. Cardinality(B \ {t}) = IF t \in B THEN Cardinality(B) - 1 ELSE Cardinality(B)
  BY <1>1, FS_RemoveElement
<1> QED
  BY <1>2, <1>3, <1>4

LEMMA Recounted ==
  ASSUME IInv, NEW t \in Tab, NEW at, NEW url, NEW back, Moved(t, at, url, back), NEW m
  PROVE  /\ Cardinality(Bearing(m)) \in Nat /\ Cardinality(Behind(m)) \in Nat
         /\ Cardinality(Bearing(m)') \in Nat /\ Cardinality(Behind(m)') \in Nat
         /\ Cardinality(Bearing(m)') + Weight(tab[t].url, m)
              = Cardinality(Bearing(m)) + Weight(url, m)
         /\ Cardinality(Behind(m)') + Weight(tab[t].back, m)
              = Cardinality(Behind(m)) + Weight(back, m)
<1> DEFINE A1 == Bearing(m)
           B1 == Bearing(m)'
           A2 == Behind(m)
           B2 == Behind(m)'
<1>1. A1 \in SUBSET Tab /\ B1 \in SUBSET Tab /\ A2 \in SUBSET Tab /\ B2 \in SUBSET Tab
  BY DEF Bearing, Behind
<1>2. A1 \ {t} = B1 \ {t} /\ A2 \ {t} = B2 \ {t}
  BY DEF Moved, Bearing, Behind
<1>3. /\ t \in A1 <=> tab[t].url.fragment = m
      /\ t \in B1 <=> url.fragment = m
      /\ t \in A2 <=> tab[t].back.fragment = m
      /\ t \in B2 <=> back.fragment = m
  BY DEF Moved, Bearing, Behind
<1>4. /\ Cardinality(A1) \in Nat /\ Cardinality(B1) \in Nat
      /\ Cardinality(A2) \in Nat /\ Cardinality(B2) \in Nat
      /\ Cardinality(B1) + (IF t \in A1 THEN 1 ELSE 0)
           = Cardinality(A1) + (IF t \in B1 THEN 1 ELSE 0)
      /\ Cardinality(B2) + (IF t \in A2 THEN 1 ELSE 0)
           = Cardinality(A2) + (IF t \in B2 THEN 1 ELSE 0)
  <2> HIDE DEF A1, B1, A2, B2
  <2> QED
    BY <1>1, <1>2, Counted
<1> QED
  BY <1>3, <1>4 DEF Weight

(* A step that spends no more than it takes off, for the mails there are.    *)
LEMMA SpendStep ==
  ASSUME IInv, Spends, NEW t \in Tab, NEW at, NEW url, NEW back, Steps(t, at, url, back),
         Len(mail') = Len(mail),
         \A m \in 1..Len(mail) :
           mail'[m].spent + Weight(url, m) + Weight(back, m) + mail[m].followed
             <= mail[m].spent + Weight(tab[t].url, m) + Weight(tab[t].back, m)
                + mail'[m].followed
  PROVE  Spends'
<1> SUFFICES ASSUME NEW m \in 1..Len(mail)
             PROVE  mail'[m].spent + Cardinality(Bearing(m)') + Cardinality(Behind(m)')
                      <= mail'[m].followed
  BY DEF Spends
<1>1. Moved(t, at, url, back)
  BY DEF Steps
<1>2. mail[m] \in MailRecord /\ mail'[m] \in MailRecord
  BY DEF IInv, Steps, Posted
<1>3. /\ mail[m].spent \in Nat /\ mail[m].followed \in Nat
      /\ mail'[m].spent \in Nat /\ mail'[m].followed \in Nat
  BY <1>2 DEF MailRecord
<1>4. mail[m].spent + Cardinality(Bearing(m)) + Cardinality(Behind(m)) <= mail[m].followed
  BY DEF Spends
<1>5. \A a : Weight(a, m) \in {0, 1}
  BY DEF Weight
<1>6. mail'[m].spent + Weight(url, m) + Weight(back, m) + mail[m].followed
        <= mail[m].spent + Weight(tab[t].url, m) + Weight(tab[t].back, m)
           + mail'[m].followed
  OBVIOUS
<1> DEFINE wu == Weight(url, m)
           wb == Weight(back, m)
           vu == Weight(tab[t].url, m)
           vb == Weight(tab[t].back, m)
           bu == Cardinality(Bearing(m))
           bb == Cardinality(Behind(m))
           au == Cardinality(Bearing(m)')
           ab == Cardinality(Behind(m)')
           s0 == mail[m].spent
           s1 == mail'[m].spent
           f0 == mail[m].followed
           f1 == mail'[m].followed
<1>7. wu \in Nat /\ wb \in Nat /\ vu \in Nat /\ vb \in Nat
  BY <1>5
<1>8. /\ bu \in Nat /\ bb \in Nat /\ au \in Nat /\ ab \in Nat
      /\ au + vu = bu + wu /\ ab + vb = bb + wb
  BY <1>1, Recounted
<1>9. s0 + bu + bb <= f0 /\ s1 + wu + wb + f0 <= s0 + vu + vb + f1
  BY <1>4, <1>6
<1>10. s0 \in Nat /\ s1 \in Nat /\ f0 \in Nat /\ f1 \in Nat
  BY <1>3
<1> HIDE DEF wu, wb, vu, vb, bu, bb, au, ab, s0, s1, f0, f1
<1>11. s1 + au + ab <= f1
  BY <1>7, <1>8, <1>9, <1>10
<1> QED
  BY <1>11 DEF au, ab, s1, f1

(* One that leaves the mails, and moves the code or drops it.                *)
LEMMA NoneSpent ==
  ASSUME IInv, Spends, NEW t \in Tab, NEW at, NEW url, NEW back, Steps(t, at, url, back),
         mail' = mail,
         \/ url.fragment = 0
            /\ back.fragment \in {0, tab[t].url.fragment, tab[t].back.fragment}
         \/ url.fragment = tab[t].url.fragment /\ back.fragment = tab[t].back.fragment
         \/ url.fragment = tab[t].back.fragment /\ back.fragment = 0
  PROVE  Spends'
<1>1. ASSUME NEW m \in 1..Len(mail)
      PROVE  /\ Weight(url, m) + Weight(back, m)
                  <= Weight(tab[t].url, m) + Weight(tab[t].back, m)
             /\ \A a : Weight(a, m) \in {0, 1}
             /\ mail[m].spent \in Nat /\ mail[m].followed \in Nat
  <2>1. mail[m] \in MailRecord /\ Len(mail) \in Nat
    BY DEF IInv
  <2> QED
    BY <2>1, TabIs, SMTT(20) DEF Weight, MailRecord
<1>2. \A m \in 1..Len(mail) :
           mail'[m].spent + Weight(url, m) + Weight(back, m) + mail[m].followed
             <= mail[m].spent + Weight(tab[t].url, m) + Weight(tab[t].back, m)
                + mail'[m].followed
  BY <1>1
<1> QED
  BY <1>2, SpendStep

(* A new mail's link has not been followed, and no address bears its code.   *)
LEMMA MailSpendsNone ==
  ASSUME IInv, Spends, NEW t \in Tab, tab[t].at = "screen", Flow(t).alive, MailCode(t)
  PROVE  Spends'
<1> DEFINE letter == [flow |-> Link(t), followed |-> 0, spent |-> 0]
           url == Named(t, tab[t].url.flow)
           back == tab[t].url
<1>1. Steps(t, "address", url, back) /\ url.fragment = 0
  BY MailCodeStep, NamedIs, TabIs
<1>2. letter \in MailRecord /\ letter.followed = 0 /\ letter.spent = 0
  BY TabIs DEF Link, MailRecord
<1>3. /\ Len(mail') = Len(mail) + 1 /\ mail'[Len(mail) + 1] = letter
      /\ \A m \in 1..Len(mail) : mail'[m] = mail[m]
  BY <1>2, AppendProperties DEF MailCode, IInv
<1>4. Moved(t, "address", url, back)
  BY <1>1 DEF Steps
<1> SUFFICES ASSUME NEW m \in 1..Len(mail')
             PROVE  mail'[m].spent + Cardinality(Bearing(m)') + Cardinality(Behind(m)')
                      <= mail'[m].followed
  BY DEF Spends
<1> DEFINE bu == Cardinality(Bearing(m))
           bb == Cardinality(Behind(m))
           au == Cardinality(Bearing(m)')
           ab == Cardinality(Behind(m)')
<1>5. /\ bu \in Nat /\ bb \in Nat /\ au \in Nat /\ ab \in Nat
      /\ au + Weight(tab[t].url, m) = bu + Weight(url, m)
      /\ ab + Weight(tab[t].back, m) = bb + Weight(back, m)
  <2> HIDE DEF url, back
  <2> QED
    BY <1>4, Recounted
<1>6. m # 0 /\ \A a : Weight(a, m) \in {0, 1}
  BY <1>3, TabIs DEF Weight
<1>7. Weight(url, m) = 0
  BY <1>1, <1>6 DEF Weight
<1>8. CASE m \in 1..Len(mail)
  <2>1. mail'[m] = mail[m] /\ mail[m] \in MailRecord
    BY <1>3, <1>8 DEF IInv
  <2>2. mail[m].spent + bu + bb <= mail[m].followed
    BY <1>8 DEF Spends
  <2>3. mail[m].spent \in Nat /\ mail[m].followed \in Nat
    BY <2>1 DEF MailRecord
  <2> DEFINE s == mail[m].spent
             f == mail[m].followed
             w == Weight(tab[t].url, m)
             x == Weight(tab[t].back, m)
  <2>4. /\ s \in Nat /\ f \in Nat /\ w \in {0, 1} /\ x \in {0, 1}
        /\ au + w = bu /\ ab + x = bb + w /\ s + bu + bb <= f
    BY <1>5, <1>6, <1>7, <2>2, <2>3
  <2> HIDE DEF s, f, w, x, bu, bb, au, ab
  <2>5. s + au + ab <= f
    BY <1>5, <2>4, SMTT(20)
  <2> QED
    BY <2>1, <2>5 DEF s, f, au, ab
<1>9. CASE m = Len(mail) + 1
  <2>1. \A u \in Tab : tab[u].url.fragment # m /\ tab[u].back.fragment # m
    BY <1>9, TabIs
  <2>2. Bearing(m) = {} /\ Behind(m) = {}
    BY <2>1 DEF Bearing, Behind
  <2>3. bu = 0 /\ bb = 0
    BY <2>2, FS_EmptySet
  <2>4. Weight(tab[t].url, m) = 0 /\ Weight(tab[t].back, m) = 0
    BY <2>1 DEF Weight
  <2>5. au = 0 /\ ab = 0
    <3> HIDE DEF bu, bb, au, ab
    <3> QED
      BY <1>5, <1>7, <2>3, <2>4
  <2> QED
    BY <1>2, <1>3, <1>9, <2>5
<1> QED
  BY <1>3, <1>8, <1>9, TabIs

LEMMA SpentStay == IInv /\ Spends /\ [Next]_vars => Spends'
<1> SUFFICES ASSUME IInv, Spends, [Next]_vars PROVE Spends'
  OBVIOUS
<1>0. /\ \A t \in Tab : Named(t, 0).fragment = 0
      /\ \A t \in Tab : Named(t, tab[t].url.flow).fragment = 0
      /\ \A t \in Tab : Named(t, Len(flow) + 1).fragment = 0
      /\ Nowhere.fragment = 0 /\ ToSettings.fragment = 0
      /\ \A type \in FlowType : Start(type).fragment = 0
      /\ \A t \in Tab : BackOf(t) \in {tab[t].url, tab[t].back}
  <2>1. ASSUME NEW t \in Tab
        PROVE  /\ Named(t, 0).fragment = 0 /\ Named(t, tab[t].url.flow).fragment = 0
               /\ Named(t, Len(flow) + 1).fragment = 0
               /\ BackOf(t) \in {tab[t].url, tab[t].back}
    BY DEF Named, Address, BackOf
  <2> QED
    BY <2>1, NowhereIs, ToSettingsIs, StartIs
<1>1. ASSUME NEW t \in Tab, Hop(t) PROVE Spends'
  <2>0. mail' = mail
    BY <1>1 DEF Hop, MintAnew, FetchFails, Refused, Heal, Render, AlreadySignedIn, NoSession,
               Mint
  <2>1. CASE MintAnew(t)
    BY <2>0, <2>1, MintAnewStep, NoneSpent
  <2>8. CASE FetchFails(t)
    <3>1. ForgottenUrl(t).fragment = tab[t].url.fragment
      BY TabIs DEF ForgottenUrl, AddressRecord
    <3> QED
      BY <2>0, <2>8, <3>1, FetchFailsStep, NoneSpent
  <2>2. CASE Refused(t)
    BY <1>0, <2>0, <2>2, RefusedStep, NoneSpent DEF Refused
  <2>3. CASE Heal(t)
    <3>1. HealedUrl(t).fragment = tab[t].url.fragment
      BY TabIs DEF HealedUrl, AddressRecord
    <3> QED
      BY <2>0, <2>3, <3>1, HealStep, NoneSpent
  <2>4. CASE Render(t)
    BY <2>0, <2>4, RenderStep, NoneSpent
  <2>5. CASE AlreadySignedIn(t)
    BY <1>0, <2>0, <2>5, AlreadySignedInStep, NoneSpent
  <2>6. CASE NoSession(t)
    BY <1>0, <2>0, <2>6, NoSessionStep, NoneSpent
  <2>7. CASE Mint(t)
    <3>1. MintedUrl(t).fragment = tab[t].url.fragment
      BY MintedIs
    <3> QED
      BY <2>0, <2>7, <3>1, MintStep, NoneSpent
  <2> QED
    BY <1>1, <2>1, <2>2, <2>3, <2>4, <2>5, <2>6, <2>7, <2>8 DEF Hop
<1>2. ASSUME NEW t \in Tab, Fill(t) PROVE Spends'
  <2>1. CASE SubmitEmail(t) \/ Resend(t)
    BY <2>1, MailSpendsNone DEF SubmitEmail, Resend, Posts, At
  <2>2. CASE BackToFirst(t)
    BY <1>0, <2>2, BackToFirstStep, NoneSpent DEF BackToFirst
  <2>3. CASE EnterCode(t)
    BY <1>0, <2>3, EnterCodeStep, NoneSpent DEF EnterCode
  <2>4. CASE AutoSubmit(t)
    <3> DEFINE left == LeftAddress(t)
    <3>1. left.fragment = 0
      BY LeftIs
    <3>2. \/ Steps(t, "answered", Named(t, 0), left)
          \/ Steps(t, "address", Named(t, tab[t].url.flow), left)
      BY <2>4, AutoSubmitStep
    <3>3. /\ Len(mail') = Len(mail) /\ tab[t].url.fragment \in 1..Len(mail)
          /\ \A m \in 1..Len(mail) :
               /\ mail'[m].followed = mail[m].followed
               /\ mail'[m].spent = IF m = tab[t].url.fragment THEN mail[m].spent + 1
                                                              ELSE mail[m].spent
      BY <2>4, AutoSubmitStep
    <3> HIDE DEF left
    <3>4. ASSUME NEW url, url.fragment = 0, NEW at, Steps(t, at, url, left) PROVE Spends'
      <4>1. ASSUME NEW m \in 1..Len(mail)
            PROVE  mail'[m].spent + Weight(url, m) + Weight(left, m) + mail[m].followed
                     <= mail[m].spent + Weight(tab[t].url, m) + Weight(tab[t].back, m)
                        + mail'[m].followed
        <5>1. mail[m] \in MailRecord /\ m # 0
          BY TabIs DEF IInv
        <5>2. mail[m].spent \in Nat /\ mail[m].followed \in Nat
          BY <5>1 DEF MailRecord
        <5>3. /\ Weight(url, m) = 0 /\ Weight(left, m) = 0
              /\ Weight(tab[t].back, m) \in {0, 1}
              /\ Weight(tab[t].url, m) = IF m = tab[t].url.fragment THEN 1 ELSE 0
          BY <3>1, <3>4, <5>1 DEF Weight
        <5> QED
          BY <3>3, <5>2, <5>3
      <4> QED
        BY <3>3, <3>4, <4>1, SpendStep
    <3> QED
      BY <1>0, <3>2, <3>4
  <2>5. CASE AutoSubmitTooLate(t)
    <3>1. LeftAddress(t).fragment = 0 /\ mail' = mail
      BY <2>5, LeftIs DEF AutoSubmitTooLate
    <3> QED
      BY <2>5, <3>1, AutoSubmitTooLateStep, NoneSpent
  <2>6. CASE EnterSecondFactor(t)
    BY <1>0, <2>6, EnterSecondFactorStep, NoneSpent DEF EnterSecondFactor
  <2>7. CASE Enrol(t)
    BY <1>0, <2>7, EnrolStep, NoneSpent DEF Enrol
  <2>8. CASE PostTooLate(t)
    <3>1. mail' = mail
      BY <2>8 DEF PostTooLate
    <3> QED
      BY <1>0, <2>8, <3>1, PostTooLateStep, NoneSpent
  <2> QED
    BY <1>2, <2>1, <2>2, <2>3, <2>4, <2>5, <2>6, <2>7, <2>8 DEF Fill
<1>3. ASSUME NEW t \in Tab, Browse(t) PROVE Spends'
  <2>1. CASE \E request \in Request, aal2 \in BOOLEAN : Arrive(t, request, aal2)
    <3>1. PICK request \in Request, aal2 \in BOOLEAN : Arrive(t, request, aal2)
      BY <2>1
    <3>2. Address("login", 0, request, aal2, 0, request).fragment = 0 /\ mail' = mail
      BY <3>1 DEF Address, Arrive
    <3> QED
      BY <1>0, <3>1, <3>2, ArriveStep, NoneSpent
  <2>2. CASE \E type \in FlowType : Leave(t, type)
    <3>1. mail' = mail
      BY <2>2 DEF Leave
    <3> QED
      BY <1>0, <2>2, <3>1, LeaveStep, NoneSpent
  <2>3. CASE UseAnotherAccount(t)
    <3>1. RestartUrl(t).fragment = 0 /\ mail' = mail
      BY <2>3 DEF UseAnotherAccount, RestartUrl, Address
    <3> QED
      BY <2>3, <3>1, UseAnotherAccountStep, NoneSpent
  <2>4. CASE SignOut(t)
    <3>1. Start("login").fragment = 0
      BY DEF Start, Address
    <3>2. mail' = mail
      BY <2>4 DEF SignOut
    <3> QED
      BY <2>4, <3>1, <3>2, SignOutStep, NoneSpent
  <2>5. CASE SetUp(t)
    <3>1. SetUpUrl(t).fragment = 0 /\ mail' = mail
      BY <2>5 DEF SetUp, SetUpUrl, Address
    <3> QED
      BY <2>5, <3>1, SetUpStep, NoneSpent
  <2>6. CASE \E m \in DOMAIN mail : Follow(t, m)
    <3>1. PICK m \in DOMAIN mail : Follow(t, m)
      BY <2>6
    <3>2. /\ Steps(t, "address", FollowUrl(m), Nowhere) /\ FollowUrl(m).fragment = m
          /\ m \in 1..Len(mail) /\ Len(mail') = Len(mail)
      BY <3>1, FollowStep
    <3>3. ASSUME NEW n \in 1..Len(mail)
          PROVE  /\ mail'[n].spent = mail[n].spent
                 /\ n = m => mail'[n].followed = mail[n].followed + 1
                 /\ n # m => mail'[n].followed = mail[n].followed
      BY <3>1, FollowCounts
    <3>4. ASSUME NEW n \in 1..Len(mail)
          PROVE  mail'[n].spent + Weight(FollowUrl(m), n) + Weight(Nowhere, n)
                   + mail[n].followed
                   <= mail[n].spent + Weight(tab[t].url, n) + Weight(tab[t].back, n)
                      + mail'[n].followed
      <4>1. mail[n] \in MailRecord /\ n # 0
        BY TabIs DEF IInv
      <4>2. mail[n].spent \in Nat /\ mail[n].followed \in Nat
        BY <4>1 DEF MailRecord
      <4>3. /\ Weight(FollowUrl(m), n) = (IF n = m THEN 1 ELSE 0) /\ Weight(Nowhere, n) = 0
            /\ Weight(tab[t].back, n) \in {0, 1} /\ Weight(tab[t].url, n) \in {0, 1}
        BY <1>0, <3>2, <4>1 DEF Weight
      <4>4. CASE n = m
        <5>1. /\ mail'[n].spent = mail[n].spent
              /\ mail'[n].followed = mail[n].followed + 1
              /\ Weight(FollowUrl(m), n) = 1
          BY <3>3, <4>3, <4>4
        <5> QED
          BY <4>2, <4>3, <5>1
      <4>5. CASE n # m
        <5>1. /\ mail'[n].spent = mail[n].spent
              /\ mail'[n].followed = mail[n].followed
              /\ Weight(FollowUrl(m), n) = 0
          BY <3>3, <4>3, <4>5
        <5> QED
          BY <4>2, <4>3, <5>1
      <4> QED
        BY <4>4, <4>5
    <3> QED
      BY <3>2, <3>4, SpendStep
  <2>7. CASE Reload(t)
    BY <2>7, ReloadStep, NoneSpent DEF Reload
  <2>8. CASE Back(t)
    BY <1>0, <2>8, BackStep, NoneSpent DEF Back
  <2>9. CASE Close(t)
    BY <1>0, <2>9, CloseStep, NoneSpent DEF Close
  <2> QED
    BY <1>3, <2>1, <2>2, <2>3, <2>4, <2>5, <2>6, <2>7, <2>8, <2>9 DEF Browse
<1>4. CASE UNCHANGED <<mail, tab>>
  BY <1>4 DEF Spends, Bearing, Behind
<1> QED
  BY <1>1, <1>2, <1>3, <1>4 DEF Next, Expire, vars

(* Following a mailed link spends at most one attempt, however often the     *)
(* page is reloaded, gone back to or redirected: for any tabs and bounds.    *)
THEOREM LinksSpendOneAttempt == Spec => []LinkSpendsOneAttempt
<1>1. Init /\ IInv => Spends
  BY DEF Init, Spends
<1>2. IInv /\ Spends => LinkSpendsOneAttempt
  <2> SUFFICES ASSUME IInv, Spends, NEW m \in DOMAIN mail
               PROVE  mail[m].spent <= mail[m].followed
    BY DEF LinkSpendsOneAttempt
  <2>1. m \in 1..Len(mail) /\ mail[m] \in MailRecord
    BY DEF IInv
  <2>2. /\ mail[m].spent \in Nat /\ mail[m].followed \in Nat
        /\ Cardinality(Bearing(m)) \in Nat /\ Cardinality(Behind(m)) \in Nat
    BY <2>1, SignInAssumption, FS_Subset, FS_CardinalityType DEF MailRecord, Bearing, Behind
  <2> QED
    BY <2>1, <2>2 DEF Spends
<1> QED
  BY <1>1, <1>2, TypesBegin, Invariant, SpentStay, PTL DEF Spec

-----------------------------------------------------------------------------
(* A sign-in ends with its request. *)

(* An address whose flow is the one its request asked for.                   *)
Stated(url, flows) ==
  /\ url.flow # 0
  /\ url.carries = url.asked /\ flows[url.flow].request = url.asked

(* What the address of a redirected tab still says of its request: all of    *)
(* it, or a flow that does, until that was used or could not be fetched.     *)
OnItsWay(at, url, flows) ==
  /\ url.carries \subseteq url.asked
  /\ url.flow = 0 => url.carries = url.asked
  /\ url.flow # 0 =>
       /\ at = "address" /\ flows[url.flow].alive => flows[url.flow].request = url.asked
       /\ at = "kratos" \/ ~flows[url.flow].alive =>
            url.carries = url.asked \/ flows[url.flow].used

Heard(url, answered, flows) ==
  answered = url.asked \/ (url.flow # 0 /\ flows[url.flow].used)

LeadsBack(back, flows) == back # Nowhere /\ back.type = "login" => Stated(back, flows)

Fits(at, url, answered, flows) ==
  url.type = "login" =>
    /\ at \in {"address", "kratos"} => OnItsWay(at, url, flows)
    /\ at = "screen" => Stated(url, flows)
    /\ at = "answered" => Heard(url, answered, flows)

Faithful ==
  \A t \in Tab :
    /\ Fits(tab[t].at, tab[t].url, tab[t].answered, flow)
    /\ LeadsBack(tab[t].back, flow)

(* What the flows' growth leaves of a tab that stays where it is.            *)
LEMMA BackLasts ==
  ASSUME IInv, Faithful, Grown, NEW t \in Tab
  PROVE  /\ LeadsBack(tab[t].back, flow') /\ LeadsBack(Nowhere, flow')
         /\ tab[t].at = "screen" => LeadsBack(tab[t].url, flow')
         /\ tab[t].at = "screen" /\ tab[t].url.type = "login" =>
              Stated(tab[t].url, flow) /\ Stated(tab[t].url, flow')
<1>1. \A i \in 1..Len(flow) : flow'[i].request = flow[i].request
  BY DEF Grown
<1>2. ASSUME NEW url, url.flow \in 0..Len(flow), Stated(url, flow) PROVE Stated(url, flow')
  <2>1. url.flow \in 1..Len(flow)
    BY <1>2, TabIs DEF Stated
  <2> QED
    BY <1>1, <1>2, <2>1 DEF Stated
<1>3. tab[t].back.flow \in 0..Len(flow) /\ tab[t].url.flow \in 0..Len(flow)
  BY TabIs
<1>4. LeadsBack(tab[t].back, flow)
  BY DEF Faithful
<1>5. tab[t].at = "screen" /\ tab[t].url.type = "login" => Stated(tab[t].url, flow)
  BY DEF Faithful, Fits
<1> QED
  BY <1>2, <1>3, <1>4, <1>5 DEF LeadsBack

LEMMA OthersLast ==
  ASSUME IInv, Faithful, Grown, NEW u \in Tab
  PROVE  Fits(tab[u].at, tab[u].url, tab[u].answered, flow')
<1> DEFINE at == tab[u].at
           url == tab[u].url
           i == url.flow
<1>1. Fits(at, url, tab[u].answered, flow)
  BY DEF Faithful
<1> SUFFICES ASSUME url.type = "login"
             PROVE  /\ at \in {"address", "kratos"} => OnItsWay(at, url, flow')
                    /\ at = "screen" => Stated(url, flow')
                    /\ at = "answered" => Heard(url, tab[u].answered, flow')
  BY DEF Fits
<1>2. i \in 0..Len(flow) /\ Len(flow) \in Nat
  BY TabIs
<1>3. i # 0 =>
        /\ flow'[i].request = flow[i].request
        /\ flow[i].used => flow'[i].used
        /\ flow'[i].alive => flow[i].alive
        /\ flow[i].alive /\ ~flow'[i].alive =>
             flow'[i].used \/ ~Hopping(u)
  BY <1>2 DEF Grown
<1>4. ASSUME at \in {"address", "kratos"} PROVE OnItsWay(at, url, flow')
  <2>1. OnItsWay(at, url, flow) /\ Hopping(u)
    BY <1>1, <1>4 DEF Fits, Hopping
  <2> HIDE DEF at, url, i
  <2>3. CASE i = 0
    BY <2>1, <2>3 DEF OnItsWay, i
  <2>4. CASE i # 0
    BY <1>3, <2>1, <2>4 DEF OnItsWay, i
  <2> QED
    BY <2>3, <2>4
<1>5. ASSUME at = "screen" PROVE Stated(url, flow')
  BY <1>5, BackLasts
<1>6. ASSUME at = "answered" PROVE Heard(url, tab[u].answered, flow')
  BY <1>1, <1>3, <1>6 DEF Fits, Heard
<1> QED
  BY <1>4, <1>5, <1>6

LEMMA FaithStep ==
  ASSUME IInv, Faithful, NEW t \in Tab, NEW at, NEW url, NEW back,
         Steps(t, at, url, back), LeadsBack(back, flow'),
         Fits(at, url, tab'[t].answered, flow')
  PROVE  Faithful'
<1>1. /\ Grown /\ tab'[t].at = at /\ tab'[t].url = url /\ tab'[t].back = back
      /\ \A u \in Tab : u # t => tab'[u] = tab[u]
  BY DEF Steps, Moved
<1>2. ASSUME NEW u \in Tab
      PROVE  /\ Fits(tab'[u].at, tab'[u].url, tab'[u].answered, flow')
             /\ LeadsBack(tab'[u].back, flow')
  <2>1. CASE u = t
    BY <1>1, <2>1
  <2>2. CASE u # t
    <3>1. tab'[u] = tab[u]
      BY <1>1, <2>2
    <3> QED
      BY <1>1, <3>1, BackLasts, OthersLast
  <2> QED
    BY <2>1, <2>2
<1> QED
  BY <1>2 DEF Faithful

(* The form of a login's screen is answered, with its flow or in its place,  *)
(* or finishes for the request.                                              *)
LEMMA AnsweredFits ==
  ASSUME IInv, Faithful, NEW t \in Tab, tab[t].at = "screen", NEW id \in Nat, id # 0,
         flow'[id].request = Flow(t).request, flow'[id].alive
  PROVE  Fits("address", Named(t, id), tab'[t].answered, flow')
<1>1. /\ Named(t, id).type = tab[t].url.type /\ Named(t, id).flow = id
      /\ Named(t, id).carries = {} /\ Named(t, id).aal2 = FALSE
      /\ Named(t, id).asked = tab[t].url.asked
  BY NamedIs
<1>2. tab[t].url.type = "login" => Flow(t).request = tab[t].url.asked
  BY ScreenIs DEF Faithful, Fits, Stated
<1> QED
  BY <1>1, <1>2 DEF Fits, OnItsWay

LEMMA FinishedFits ==
  ASSUME IInv, Faithful, NEW t \in Tab, tab[t].at = "screen",
         tab'[t].answered = Flow(t).request
  PROVE  Fits("answered", Named(t, 0), tab'[t].answered, flow')
<1>1. Named(t, 0).type = tab[t].url.type /\ Named(t, 0).asked = tab[t].url.asked
  BY NamedIs
<1>2. tab[t].url.type = "login" => Flow(t).request = tab[t].url.asked
  BY ScreenIs DEF Faithful, Fits, Stated
<1> QED
  BY <1>1, <1>2 DEF Fits, Heard

LEMMA ScreenKeeps ==
  ASSUME IInv, Grown, NEW t \in Tab, tab[t].at = "screen"
  PROVE  /\ tab[t].url.flow \in Nat /\ tab[t].url.flow # 0
         /\ flow'[tab[t].url.flow].request = Flow(t).request
  BY ScreenIs, TabIs DEF Grown

(* An address that names no flow states all that was asked for.              *)
LEMMA StartFits ==
  ASSUME NEW t \in Tab, NEW url, NEW answered, NEW flows,
         url.flow = 0, url.carries = url.asked
  PROVE  Fits("address", url, answered, flows)
  BY DEF Fits, OnItsWay

(* One whose flow was stated.                                                *)
LEMMA StatedFits ==
  ASSUME NEW t \in Tab, NEW url, NEW answered, NEW flows,
         url.type = "login" => Stated(url, flows)
  PROVE  Fits("address", url, answered, flows)
  BY DEF Fits, OnItsWay, Stated

LEMMA HopsKeepRequest ==
  ASSUME IInv, Faithful, NEW t \in Tab, Hop(t)
  PROVE  Faithful'
<1> DEFINE url == tab[t].url
           i == url.flow
<1>1. /\ Grown => LeadsBack(tab[t].back, flow')
      /\ Hopping(t) /\ i \in 0..Len(flow) /\ Len(flow) \in Nat /\ Flow(t) = flow[i]
  BY BackLasts, TabIs
     DEF Hop, MintAnew, FetchFails, Refused, Heal, Render, AlreadySignedIn, NoSession, Mint,
         Hopping, Flow
<1>2. url.type = "login" => OnItsWay(tab[t].at, url, flow)
  BY <1>1 DEF Faithful, Fits, Hopping
<1>3. ASSUME NEW at, NEW to, Steps(t, at, to, tab[t].back),
             Fits(at, to, tab'[t].answered, flow')
      PROVE  Faithful'
  BY <1>1, <1>3, FaithStep DEF Steps
<1>4. CASE MintAnew(t)
  <2>1. i # 0 => ~flow[i].alive
    BY <1>1, <1>4 DEF MintAnew, Kept
  <2>2. /\ Steps(t, "kratos", url, tab[t].back) /\ flow' = flow
        /\ tab[t].at = "address"
    BY <1>4, MintAnewStep DEF MintAnew
  <2>3. Fits("kratos", url, tab'[t].answered, flow')
    BY <1>2, <2>1, <2>2 DEF Fits, OnItsWay
  <2> QED
    BY <1>3, <2>2, <2>3
<1>5. ASSUME Steps(t, "refused", Nowhere, tab[t].back) PROVE Faithful'
  BY <1>3, <1>5 DEF Fits
<1>6. CASE Heal(t)
  <2>1. /\ Steps(t, "address", HealedUrl(t), tab[t].back) /\ flow' = flow
        /\ i # 0 /\ flow[i].alive /\ url.type = "login" /\ tab[t].at = "address"
    BY <1>1, <1>6, HealStep DEF Heal, Kept, Healed
  <2>2. /\ HealedUrl(t).flow = i /\ HealedUrl(t).carries = flow[i].request
        /\ HealedUrl(t).aal2 = FALSE /\ HealedUrl(t).asked = url.asked
    BY <1>1, TabIs DEF HealedUrl, Carried, AddressRecord
  <2>3. flow[i].request = url.asked
    BY <1>2, <2>1 DEF OnItsWay
  <2>4. Stated(HealedUrl(t), flow')
    BY <2>1, <2>2, <2>3 DEF Stated
  <2>5. Fits("address", HealedUrl(t), tab'[t].answered, flow')
    BY <2>4, StatedFits
  <2>6. Steps(t, "address", HealedUrl(t), tab[t].back)
    BY <2>1
  <2> QED
    BY <1>3, <2>5, <2>6, Zenon
<1>7. CASE Render(t)
  <2>1. /\ Steps(t, "screen", url, tab[t].back) /\ flow' = flow
        /\ i # 0 /\ flow[i].alive /\ tab[t].at = "address"
    BY <1>1, <1>7, RenderStep DEF Render, Kept
  <2>2. url.type = "login" => flow[i].request \subseteq url.carries
    BY <1>1, <1>7 DEF Render, Healed, Carried
  <2>3. url.type = "login" => Stated(url, flow')
    BY <1>2, <2>1, <2>2 DEF OnItsWay, Stated
  <2>4. Fits("screen", url, tab'[t].answered, flow')
    BY <2>3 DEF Fits
  <2>5. Steps(t, "screen", url, tab[t].back)
    BY <2>1
  <2> QED
    BY <1>3, <2>4, <2>5, Zenon
<1>8. CASE AlreadySignedIn(t)
  <2>1. /\ Steps(t, "answered", Named(t, i), tab[t].back) /\ flow' = flow
        /\ tab'[t].answered = url.carries /\ tab[t].at = "kratos"
    BY <1>8, AlreadySignedInStep DEF AlreadySignedIn
  <2>2. /\ Named(t, i).type = url.type /\ Named(t, i).flow = i
        /\ Named(t, i).asked = url.asked
    BY NamedIs, TabIs
  <2>3. url.type = "login" => url.carries = url.asked \/ (i # 0 /\ flow[i].used)
    BY <1>2, <2>1 DEF OnItsWay
  <2>4. Fits("answered", Named(t, i), tab'[t].answered, flow')
    BY <2>1, <2>2, <2>3 DEF Fits, Heard
  <2> QED
    BY <1>3, <2>1, <2>4
<1>9. CASE NoSession(t)
  <2>1. Fits("address", ToSettings, tab'[t].answered, flow')
    BY ToSettingsIs, StartFits
  <2> QED
    BY <1>3, <1>5, <1>9, <2>1, NoSessionStep
<1>10. CASE Mint(t)
  <2>1. /\ Steps(t, "address", MintedUrl(t), tab[t].back) /\ tab[t].at = "kratos"
        /\ flow'[Len(flow) + 1].request = url.carries /\ flow'[Len(flow) + 1].alive
    BY <1>10, MintStep DEF Mint
  <2>2. /\ MintedUrl(t).type = url.type /\ MintedUrl(t).flow = Len(flow) + 1
        /\ MintedUrl(t).carries = {} /\ MintedUrl(t).asked = StillAsked(t)
    BY MintedIs
  <2>3. ASSUME url.type = "login" PROVE url.carries = StillAsked(t)
    BY <1>1, <1>2, <2>1, <2>3 DEF OnItsWay, StillAsked
  <2>4. Len(flow) + 1 # 0
    BY <1>1
  <2>5. Fits("address", MintedUrl(t), tab'[t].answered, flow')
    BY <2>1, <2>2, <2>3, <2>4 DEF Fits, OnItsWay
  <2> QED
    BY <1>3, <2>1, <2>5
<1>11. CASE FetchFails(t)
  <2>1. Steps(t, "kratos", ForgottenUrl(t), tab[t].back) /\ flow' = flow
    BY <1>11, FetchFailsStep DEF FetchFails
  <2>2. /\ ForgottenUrl(t).type = url.type /\ ForgottenUrl(t).carries = url.carries
        /\ ForgottenUrl(t).asked = url.carries
    BY TabIs DEF ForgottenUrl, AddressRecord
  <2>3. Fits("kratos", ForgottenUrl(t), tab'[t].answered, flow')
    BY <2>2 DEF Fits, OnItsWay
  <2> QED
    BY <1>3, <2>1, <2>3
<1> QED
  BY <1>4, <1>5, <1>6, <1>7, <1>8, <1>9, <1>10, <1>11, RefusedStep DEF Hop, Refused

LEMMA FillsKeepRequest ==
  ASSUME IInv, Faithful, NEW t \in Tab, Fill(t)
  PROVE  Faithful'
<1> DEFINE url == tab[t].url
           i == url.flow
<1>1. tab[t].at = "screen"
  BY DEF Fill, SubmitEmail, Resend, BackToFirst, EnterCode, AutoSubmit, AutoSubmitTooLate,
         EnterSecondFactor, Enrol, PostTooLate, Attempt, Posts, At
<1>2. ASSUME NEW at, NEW to, NEW back, back \in {url, tab[t].back},
             Steps(t, at, to, back), Fits(at, to, tab'[t].answered, flow')
      PROVE  Faithful'
  <2>1. Grown
    BY <1>2 DEF Steps
  <2>2. LeadsBack(back, flow')
    BY <1>1, <1>2, <2>1, BackLasts
  <2> QED
    BY <1>2, <2>2, FaithStep
<1>3. ASSUME NEW back, back \in {url, tab[t].back},
             Steps(t, "address", Named(t, i), back), flow'[i].alive
      PROVE  Faithful'
  <2>1. i \in Nat /\ i # 0 /\ flow'[i].request = Flow(t).request
    BY <1>1, <1>3, ScreenKeeps DEF Steps
  <2>2. Fits("address", Named(t, i), tab'[t].answered, flow')
    BY <1>1, <1>3, <2>1, AnsweredFits
  <2> QED
    BY <1>2, <1>3, <2>2
<1>4. ASSUME NEW back, back \in {url, tab[t].back},
             Steps(t, "answered", Named(t, 0), back), tab'[t].answered = Flow(t).request
      PROVE  Faithful'
  BY <1>1, <1>2, <1>4, FinishedFits
<1>6. CASE SubmitEmail(t) \/ Resend(t)
  BY <1>3, <1>6, MailCodeStep DEF SubmitEmail, Resend, Posts, At
<1>7. CASE BackToFirst(t)
  BY <1>3, <1>7, BackToFirstStep
<1>8. CASE EnterCode(t)
  BY <1>3, <1>4, <1>8, EnterCodeStep
<1>9. Grown => LeadsBack(LeftAddress(t), flow')
  <2>1. url.type = "login" /\ Grown => Stated(url, flow')
    BY <1>1, BackLasts
  <2> QED
    BY <2>1, LeftIs DEF LeadsBack, Stated
<1>10. CASE AutoSubmit(t)
  <2>1. \/ /\ Steps(t, "answered", Named(t, 0), LeftAddress(t))
           /\ tab'[t].answered = Flow(t).request
        \/ /\ Steps(t, "address", Named(t, i), LeftAddress(t))
           /\ flow'[i].alive
    BY <1>10, AutoSubmitStep
  <2>2. Grown
    BY <2>1 DEF Steps
  <2>3. LeadsBack(LeftAddress(t), flow')
    BY <1>9, <2>2
  <2>4. ASSUME Steps(t, "answered", Named(t, 0), LeftAddress(t)),
               tab'[t].answered = Flow(t).request
        PROVE  Faithful'
    BY <1>1, <2>3, <2>4, FinishedFits, FaithStep
  <2>5. ASSUME Steps(t, "address", Named(t, i), LeftAddress(t)), flow'[i].alive
        PROVE  Faithful'
    <3>1. i \in Nat /\ i # 0 /\ flow'[i].request = Flow(t).request
      BY <1>1, <2>2, ScreenKeeps
    <3>2. Fits("address", Named(t, i), tab'[t].answered, flow')
      BY <1>1, <2>5, <3>1, AnsweredFits
    <3> QED
      BY <2>3, <2>5, <3>2, FaithStep
  <2> QED
    BY <2>1, <2>4, <2>5
<1>11. CASE AutoSubmitTooLate(t)
  <2>1. Steps(t, "screen", LeftAddress(t), tab[t].back) /\ Grown
    BY <1>11, AutoSubmitTooLateStep DEF Steps
  <2>2. url.type = "login" => Stated(url, flow')
    BY <1>1, <2>1, BackLasts
  <2>3. Fits("screen", LeftAddress(t), tab'[t].answered, flow')
    BY <2>2, LeftIs DEF Fits, Stated
  <2> QED
    BY <1>2, <2>1, <2>3
<1>12. CASE EnterSecondFactor(t)
  BY <1>3, <1>4, <1>12, EnterSecondFactorStep
<1>13. CASE Enrol(t)
  BY <1>4, <1>13, EnrolStep
<1>14. CASE PostTooLate(t)
  <2>2. ASSUME Steps(t, "refused", Nowhere, tab[t].back) PROVE Faithful'
    BY <1>2, <2>2 DEF Fits
  <2>3. ASSUME Steps(t, "address", Named(t, Len(flow) + 1), url),
               flow'[Len(flow) + 1].request = Flow(t).request, flow'[Len(flow) + 1].alive
        PROVE  Faithful'
    <3>1. Len(flow) + 1 \in Nat /\ Len(flow) + 1 # 0
      BY TabIs
    <3>2. Fits("address", Named(t, Len(flow) + 1), tab'[t].answered, flow')
      BY <1>1, <2>3, <3>1, AnsweredFits
    <3> QED
      BY <1>2, <2>3, <3>2
  <2> QED
    BY <1>3, <1>14, <2>2, <2>3, PostTooLateStep
<1> QED
  BY <1>6, <1>7, <1>8, <1>10, <1>11, <1>12, <1>13, <1>14 DEF Fill

LEMMA BrowsingKeepsRequest ==
  ASSUME IInv, Faithful, NEW t \in Tab, Browse(t)
  PROVE  Faithful'
<1> DEFINE url == tab[t].url
<1>1. ASSUME NEW to, NEW back, NEW at, back \in {tab[t].back, BackOf(t), Nowhere},
             Steps(t, at, to, back), Fits(at, to, tab'[t].answered, flow')
      PROVE  Faithful'
  <2>1. Grown
    BY <1>1 DEF Steps
  <2>2. LeadsBack(back, flow')
    BY <1>1, <2>1, BackLasts DEF BackOf
  <2> QED
    BY <1>1, <2>2, FaithStep
<1>3. CASE \E request \in Request, aal2 \in BOOLEAN : Arrive(t, request, aal2)
  <2>1. PICK request \in Request, aal2 \in BOOLEAN : Arrive(t, request, aal2)
    BY <1>3
  <2> DEFINE to == Address("login", 0, request, aal2, 0, request)
  <2>2. Steps(t, "address", to, Nowhere)
    BY <2>1, ArriveStep
  <2>3. to.flow = 0 /\ to.carries = to.asked
    BY DEF Address
  <2> HIDE DEF to
  <2>4. Fits("address", to, tab'[t].answered, flow')
    BY <2>3, StartFits
  <2> QED
    BY <1>1, <2>2, <2>4
<1>4. CASE \E type \in FlowType : Leave(t, type)
  <2>1. PICK type \in FlowType : Leave(t, type)
    BY <1>4
  <2>2. Steps(t, "address", Start(type), BackOf(t))
    BY <2>1, LeaveStep
  <2>3. Fits("address", Start(type), tab'[t].answered, flow')
    BY StartIs, StartFits
  <2> QED
    BY <1>1, <2>2, <2>3
<1>5. CASE UseAnotherAccount(t)
  <2>1. /\ tab[t].at = "screen" /\ url.type = "login"
        /\ Steps(t, "address", RestartUrl(t), BackOf(t))
        /\ RestartUrl(t).flow = 0 /\ RestartUrl(t).carries = Flow(t).request
        /\ RestartUrl(t).asked = url.asked
    BY <1>5, UseAnotherAccountStep, ScreenIs
  <2>2. Flow(t).request = url.asked
    BY <2>1, ScreenIs DEF Faithful, Fits, Stated
  <2>3. Fits("address", RestartUrl(t), tab'[t].answered, flow')
    BY <2>1, <2>2, StartFits
  <2> QED
    BY <1>1, <2>1, <2>3
<1>6. CASE SignOut(t)
  <2>1. Steps(t, "address", Start("login"), BackOf(t))
    BY <1>6, SignOutStep, ScreenIs
  <2>2. "login" \in FlowType
    BY DEF FlowType
  <2>3. Fits("address", Start("login"), tab'[t].answered, flow')
    BY <2>2, StartIs, StartFits
  <2> QED
    BY <1>1, <2>1, <2>3
<1>7. CASE SetUp(t)
  <2>1. Steps(t, "address", SetUpUrl(t), BackOf(t)) /\ SetUpUrl(t).type = "settings"
    BY <1>7, SetUpStep, ScreenIs
  <2>2. Fits("address", SetUpUrl(t), tab'[t].answered, flow')
    BY <2>1 DEF Fits
  <2> QED
    BY <1>1, <2>1, <2>2
<1>8. CASE \E m \in DOMAIN mail : Follow(t, m)
  <2>1. PICK m \in DOMAIN mail : Follow(t, m)
    BY <1>8
  <2> DEFINE to == FollowUrl(m)
             i == mail[m].flow
  <2>2. /\ Steps(t, "address", to, Nowhere) /\ flow' = flow
    BY <2>1, FollowStep DEF Follow
  <2>3. /\ to.carries = {} /\ to.flow = i /\ i \in 1..Len(flow) /\ to.aal2 = FALSE
        /\ flow[i].alive => to.asked = flow[i].request
        /\ ~flow[i].alive => to.asked = {}
    BY <2>1, FollowStep
  <2> HIDE DEF to, i
  <2>4. Fits("address", to, tab'[t].answered, flow')
    BY <2>2, <2>3 DEF Fits, OnItsWay
  <2> QED
    BY <1>1, <2>2, <2>4
<1>9. CASE Reload(t)
  <2>1. /\ tab[t].at = "screen"
        /\ Steps(t, "address", url, tab[t].back) /\ flow' = flow
    BY <1>9, ReloadStep DEF Reload
  <2>2. Fits("address", url, tab'[t].answered, flow')
    BY <2>1, StatedFits DEF Faithful, Fits
  <2> QED
    BY <1>1, <2>1, <2>2
<1>10. CASE Back(t)
  <2>1. /\ tab[t].back # Nowhere /\ flow' = flow
        /\ Steps(t, "address", tab[t].back, Nowhere)
    BY <1>10, BackStep DEF Back
  <2>2. Fits("address", tab[t].back, tab'[t].answered, flow')
    BY <2>1, StatedFits DEF Faithful, LeadsBack
  <2> QED
    BY <1>1, <2>1, <2>2
<1>11. CASE Close(t)
  <2>1. Steps(t, "away", Nowhere, Nowhere)
    BY <1>11, CloseStep DEF Close
  <2>2. Fits("away", Nowhere, tab'[t].answered, flow')
    BY DEF Fits
  <2> QED
    BY <1>1, <2>1, <2>2
<1> QED
  BY <1>3, <1>4, <1>5, <1>6, <1>7, <1>8, <1>9, <1>10, <1>11 DEF Browse

LEMMA RequestsKept ==
  IInv /\ Faithful /\ [Next]_vars => Faithful'
<1> SUFFICES ASSUME IInv, Faithful, [Next]_vars PROVE Faithful'
  OBVIOUS
<1>1. ASSUME NEW f \in DOMAIN flow, Expire(f) PROVE Faithful'
  <2>1. Grown /\ tab' = tab
    BY <1>1, ExpireStep DEF Expire
  <2>2. ASSUME NEW t \in Tab
        PROVE  /\ Fits(tab'[t].at, tab'[t].url, tab'[t].answered, flow')
               /\ LeadsBack(tab'[t].back, flow')
    BY <2>1, BackLasts, OthersLast
  <2> QED
    BY <2>2 DEF Faithful
<1>2. CASE UNCHANGED vars
  BY <1>2 DEF vars, Faithful
<1> QED
  BY <1>1, <1>2, HopsKeepRequest, FillsKeepRequest, BrowsingKeepsRequest DEF Next

(* A sign-in ends with the request it was begun for, or the application that *)
(* asked hears from the tab that used its flow: for any tabs, requests and   *)
(* bounds, whoever signs out during a redirect.  The links that begin anew   *)
(* apart (Leave, SignOut), a fetch that fails by itself is the one step that *)
(* forgets some of a request, and what it leaves of one survives again.      *)
THEOREM RequestsSurvive == Spec => []RequestSurvives
<1>1. Init => Faithful
  <2> SUFFICES ASSUME Init PROVE Faithful
    OBVIOUS
  <2>1. \A t \in Tab : tab[t] = Away
    BY DEF Init
  <2> QED
    BY <2>1, AwayIs DEF Faithful, Fits, LeadsBack
<1>2. IInv /\ Faithful => RequestSurvives
  BY DEF Faithful, Fits, Heard, RequestSurvives, Flow
<1> QED
  BY <1>1, <1>2, TypesBegin, Invariant, RequestsKept, PTL DEF Spec
=============================================================================
