# Verification of the identity platform

TLA+ models of platform-idp, their model checks and their proofs. The platform puts one sign-in in
front of a set of applications: Ory Kratos keeps identities and sessions, Ory Hydra issues OAuth
tokens, and the code here is what joins the two to the applications (`apps/id`, `apps/console`,
`packages/client-nextjs`) and to the resource servers (`packages/resource-nestjs`).

Contents: [the system](#the-system), [the modules](#the-modules), [the runs](#the-runs),
[the proofs](#the-proofs), [met while reading](#met-while-reading),
[what is not modelled](#what-is-not-modelled), [the plan](#the-plan).

To check a run: `tlc -config <file>.cfg <MC module>.tla`. To check the proofs: `tlapm <module>.tla`.

## The system

### Who talks to whom

    browser ──cookies──> console / id app / an application's own host
                            │  gate: session (Kratos whoami), then platform token
                            │  relay: forwards to the API with the token
        redirects           ▼
    console ── /auth/login ──> Hydra ── login challenge ──> id app /login ──> Kratos
                                 │ <── consent challenge ──> id app /consent ──> platform API (profile)
                                 │ <── refresh hook ───────> id app /api/internal/refresh ──> Kratos
    console server actions ──> Kratos admin, Hydra admin, platform API, audit database

No state is shared between processes but what Kratos, Hydra, the platform API and the audit database
hold, the browser's cookie jar, and, within one process, three module-level maps: the exchanges of
refresh tokens, the discovery documents, and the service identity tokens.

### Components

| Component | State | Operations | What is hard | What makes it correct |
|---|---|---|---|---|
| Token renewal (`client-nextjs`: session, guard, forward) | per-process map token → exchange or kept answer; two cookies | guard, relay, refreshOnce, forget | concurrent requests with one spent token; two processes; answers kept and forgotten by a timer; failures | one exchange per token; no token presented after it was rotated and its grace is over; what is served is live, assured and the visitor's own; everybody is answered |
| Sign-in round trip (`client-nextjs`: handlers, cookies) | transient cookies: verifier, state, return address | login, callback, logout | two tabs overwrite each other's transient cookies; a refused exchange restarts the trip | a code is redeemed with its own verifier; the trip ends |
| Discovery and claims (`client-nextjs`: discovery) | cached promise per issuer | getConfiguration, readAal, meetsAal | a failed promise must not stay | a failure is not remembered |
| Console gate (`proxy.ts`, `staff.guard.ts`) | none; reads session, identity, cookies | proxy, refuse, step up, record a denial | redirects that lead back; somebody else's cookies in the jar | a page is rendered with the token of whoever was admitted, or a renewed one and then of nobody signed out; no redirect loop |
| Id app sign-in (`(flows)/login`, `registration`, `account`; `kratos.ts`, `login.address.ts`) | Kratos's flows, the session, the tab's address | begin, post a form, resend, follow a mailed link, step up, enrol, another account | a flow expires under its form; a mailed code survives in the address; a browser without cookies | a sign-in ends with the request it was begun for; a link spends one attempt; an address settles |
| Id app gate and sign-out (`platform.user.ts`, `/logout`) | a marker in the address | platformGate, sign-out | a cookie that is not returned; half a session left over | the trip is run once; a sign-out leaves no grant |
| Consent (`/consent`, `consent.claims.ts`) | Hydra's challenge | skip, decide, deny | the browser's session is another person's than the login's; a form sent twice | claims come from the subject's own session; a row for every decision taken and for no other, unless the row or the answer is lost |
| Refresh hook (`api/internal/refresh`) | none | POST | claims that outlive their cause | a refreshed token states the role as it was when it was asked for, or later |
| Console authority (`identities/actions.ts`, `staff.ts`, `roots.ts`) | Kratos identities | create, delete, (de)activate, revoke, change access | the rule is checked on what was read, and the write comes later | who the admins are is a root's to decide |
| Closing an account (`account.deletion.ts`, both `platform.profile.ts`) | identity in Kratos, profile at the platform | close, delete, provision | two stores without a transaction; timeouts; late calls; a sign-in at the same time | no profile of somebody gone but one provisioned during the closing; an only owner keeps the identity |
| Console applications (`applications/actions.ts`) | Hydra clients | create, update, rotate, delete | an old form laid over the client of now; a secret shown once; an answer or a row lost | a registration's parts agree; no secret is lost in silence; the rows are about changes that were made |
| Audit trail (`db`, `audit.record.ts`, `audit.feed.ts`, intake) | one table | record, list, count, merge, intake | rows arrive while pages are read; a view is several statements; the address carries the filters | paging misses nothing; no control undoes another; figures agree; a link opens what it stands for |
| Tenancy pages (both apps) | the platform's organization and roster; what each query last read; dialogs; mutations in flight | add, change, remove, edit, delete, create | answers that come after their dialog; two writes at once; standings read earlier | an answer finds its dialog; one roster write at a time; refusals only of what was stale |
| Account page actions | Hydra grants, Kratos sessions | revoke | single calls | – |
| Registration gate | a list of domains | POST | – | an address is judged by its domain as written |
| Service identity tokens (`gcp-identity-token.ts`) | one token per audience, with an expiry | middleware | concurrent mints, expiry in flight | a token sent is live |
| Addresses and return targets | none | restart, heal, safe return | – | a return stays on this estate |
| Resource server guard (`resource-nestjs`) | the key set | verify, judge | key rotation | a principal is who the token names |
| Permissions (`namespaces.keto.ts`) | relation tuples | permits | recursion over parents | what a parent grants, a child grants |

The remaining parts (database client and migrations, pages and components, infrastructure and Ory
configuration) keep no state of their own that a model could say something about. Where a model
relies on a configured value, the value is named below.

### Hazards

`PROJECT.json` lists them at their lines. They fall into six groups: requests of one browser that
share cookies and are answered in any order (`TokenRenewal`); several tabs and several people in one
browser, and the redirects between the apps and the issuer (`SharedBrowser`, `SignIn`); server actions
that read, decide and write in separate calls (`ConsoleAccess`, `Applications`, `Consent`); one act on
two stores without a transaction between them (`AccountClosing`); pages that show what was so when
they were read (`Tenancy`, `AuditFeed`); and claims that travel in a token after their cause is gone
(`Consent`).

## The modules

### TokenRenewal, SingleFlight

`TokenRenewal` follows the requests of one or more browsers through the gate (`HandleGuard`), the relay
(`HandleRelay`, `UpstreamAnswers`, `UpstreamFails`), the callback and the sign-out. A request that
carries a spent access token goes through `RefreshOnce`: it takes the answer its process keeps, joins
the exchange under way, or starts one. `IssuerAnswers` is Hydra's rotation with its grace period:
a token traded again within `Grace` is traded once more, later it is a breach that revokes the chain.
`Settle` and `ExchangeFails` resolve the promise for everybody who waits, `Forget` is the timer,
`Deliver` applies a response's cookies to the jar in whatever order responses come, and `Tick` is time.
An access token and its refresh token are one *pair*, numbered in the order of minting; the pairs
descended from one sign-in are a *chain*. `exchange[p][t]` is the map of process `p` in
`oidc.session.ts`; a request's `carried`, `token` and `set` are the cookies it came with, the access
token it is served with and the pair its response sets.

`SingleFlight` is the abstract specification of a map of promises: a fetch per key, everybody who asks
meanwhile waits for it and is released by it, a good answer may be kept, a failure never is.
`ExchangesSingleFlight` states that the exchanges of all processes implement it, with a refinement
mapping from `exchange` and `stage` to `flying`, `kept` and `waiting`.

### SharedBrowser

One browser, two apps, several tabs, several people. A tab is at a place (`gate`, `signin`, `screen`,
`stepup`, `authorize`, `confirm`, `consent`, `callback`, `landing`, `renewing`, `logout`, `leaving`,
or at rest) and each action is one response: the console's gate (`ConsoleGate`, from
`staff.guard.ts` and `proxy.ts`), the renewal of the session guard (`Renew`), the id app's
`PlatformGate`, the login page (`SignIn`, `Authorize`), Kratos's screens (`Authenticate`, `StepUp`),
the consent page (`Consent`), the callback and the delivery of its cookies (`Callback`, `Land`), the
sign-out of either app and what Kratos makes of it (`SignOut`, `Leave`), and `PlatformLogout`. A
*pass* is a person and an assurance level: the Kratos session, an access token, a refresh token. A
visit that is redirected for ever is one that never comes to rest, which `VisitEnds` excludes. A grant
may outlive a sign-out in two ways, which `lasting` remembers: Hydra's revocation failed, or its person
consented in another tab before Kratos ended the session. `OwnPage` is an action property, about the
moment a page is served: to the person the gate admitted, or by way of a renewal, whose refresh token
`proxy.ts` compares with nobody.

`TokenRenewal` and `SharedBrowser` meet at the jar: the first has the clock, the pairs and the
concurrency of requests, the second the people, the apps and the redirects. What one abstracts the
other has: `SharedBrowser`'s `Renew` is one successful or failed exchange of `TokenRenewal`, and
`TokenRenewal`'s callback is one finished round trip of `SharedBrowser`.

### ConsoleAccess

Server actions of the console on identities, each a sequence of calls: `Ask` (the gate),
`ReadActor` and `ReadTarget` (side by side in `updateConsoleAccess`), `ChangeAccess` (the rule of
`assertAccessChange`, then the one PATCH), `RemoveProfile`, `Write` (what the others do), `Record`
(the audit row). Several run at once. `identity[p]` is the schema, the role and the state Kratos
stores; who is a root is configuration. Around the console people register, sign in, lose their
session, and the bootstrap job runs at any time.

### AccountClosing

An identity in Kratos and its profile at the platform. `DeleteAccount`, `AskToClose` (the id app) and
`DeleteIdentity`, `ListProfile` (the console) ask the platform to remove the profile; `Consent` and
`EnsureProfile` ask it to provision one. The call itself is `Arrive` and `Answer`, or `GiveUp`, after
which it may still arrive (`ArriveLate`). `DropIdentity` is the last step of a closing, `Accept` of a
consent. The platform refuses to remove somebody who is an authority's only owner. Several people use
the one browser, so a consent challenge may be answered with another person's session. Nothing keeps a
consent of a person out of the closing of their account; `crossed` remembers whose profile was
provisioned when the removal a closing relies on had been made (`PastRemoval`).

`DeleteIdentity` here and the `delete` of `ConsoleAccess` are the same server action: there it is
seen against the other operators, here against the platform.

### SignIn

The screens of sign-in, registration, second factor and enrolment, over Kratos's flows. A tab is at an
address, at Kratos, at a screen, refused, answered, or away. `Heal`, `MintAnew`, `Refused`,
`RefusedPage` and `Render` are what a page does with the address it is opened at (`getBrowserFlow`,
`selfServiceRedirect`, `healedAddress`); `SubmitEmail`, `EnterCode`, `Resend`, `EnterSecondFactor` and
`Enrol` are its forms; `AutoSubmit` is the code form that finds a mailed code in the fragment;
`UseAnotherAccount`, `BackToFirst`, `SetUp` and `SignOut` are its links. `Mint`, `PostTooLate`,
`MailCode`, `Attempt` and `Expire` are Kratos, taken from how the pages use it. An address carries the
parameters of the request; `asked` is the request the journey is for, which nothing on the page reads
and `RequestSurvives` compares with what is answered. A fetch that fails by itself (`FetchFails`) mints
from the address, and what the address did not state of its flow's request is lost: `asked` is then
what the address stated. So it is when a flow is minted after one that was used: the request was
answered by whoever used it (`StillAsked`). `SharedBrowser` has one step for all of this
(`Authenticate`, `StepUp`); here there is one person and every screen.

### Consent

A consent challenge from Hydra's asking (`Ask`) through the page (`Load`, which skips or shows the
form), the server action (`Submit`, `ReadSession`, `Provision`, `Decide` or `GiveUp`, `Record`,
`Follow`) to the code and the tokens (`Exchange`), and from there through every refresh (`Refresh`,
`Hook`, `Issue`). Meanwhile the browser signs in and out, the console changes or suspends identities
(`Change`) and the person revokes (`Revoke`). `past[p]` is the history of an identity, so that a claim
can be compared with what was so at any moment since the token was asked for. `recordEvent` swallows an
insert that fails, so `Record` writes its row or loses it; `DecideUnheard` is a decision Hydra took and
whose answer did not arrive, upon which the action throws. `lost` remembers both. `AccountClosing` has the
same consent against the removal of the profile, `SharedBrowser` its place among the redirects.

### Applications

The console's forms on Hydra's clients. A tab opens a form (`OpenForm`), submits it
(`UpdateApplication`, `CreateApplication`, `RotateOrDelete`), and the action then reads the client
(`ReadClient`), makes its call (`Write`; an edit patches the fields it names), records (`Record`) and
answers (`Reply`), with the secret if one was minted: a public client has none. The call may be
refused (`WriteRefused`), or made and its answer lost (`WriteUnanswered`), which the `catch` takes for
a refusal: an update and a rotation leave a row of failure, a creation and a deletion none. The row's
insert may fail unnoticed (`RecordDropped`), and the page be left over the call, which the server
finishes (`Leave`). `made` is the history of the changes Hydra made, each with what the client was,
what it became and what of it was lost; a row knows the change it is about. `ResponseTypesFor` and
`ChangedFieldsOf` are the functions of that name. A client's `value` stands for all plain fields; its
grants and response types are modelled because one follows the other.

### Tenancy

One tab of either app on an organization. `tab.org`, `tab.roster` and `tab.mine` are the moments of
the platform's `log` at which the page's queries last ran; `calls` are the mutations in flight. Dialogs
are opened, filled, closed and submitted as the components allow (`MayOpen`, `MayClose`, `Pending`,
`Offered`); `Reach` is the arrival of a write at the platform, `Answer` what the page makes of the
answer, `Elsewhere` everybody else's writes. A page left over a call orphans it (`Unmount`,
`Orphaned`): its `then` still runs, its dialog is gone.

### AuditFeed

The console's audit log as a reader meets it: rows arrive, not always in the order of their times
(`RecordEvent`), the clock moves (`Tick`), and one operator opens the log, filters (`ColumnFilter`,
`ToolbarSubmit`), turns pages by offset (`Turn`), opens the analytics, a person's card or one event
(`OpenAnalytics`, `OpenDetail`, `OpenEvent`), whose statements are answered one by one (`ReadPart`),
and follows their links (`Follow`, `ViewAll`). `walk` remembers what there was at page one and what
has been shown since; `chosen` what the controls say is selected; `linked` the rows behind a link.
A page is the set of the rows whose place in the order falls into it (`Newer`, `Place`, `Slice`): the
database's `ORDER BY`, `LIMIT` and `OFFSET`, and the order two halves are joined in (`Before`), without
a sequence. Its specification is `FeedSpec`, and its names are apart from those of `ConsoleAccess`,
because one module proves about both.

### MC modules

Each of the nine modules above, `SingleFlight` apart, has an MC module of its name that extends it and
names small sets and, where there are any, symmetries. Definitions introduced by a comment that begins with *Slip* are
not part of any behaviour: each is a definition of the model as a plausible mistake would have it, and
putting it in place of the right one breaks a property (`PROJECT.json`, "mutants").

## The runs

| Run | Checks | Shows |
|---|---|---|
| `TokenRenewalTwoProcesses` | TypeOK, NoBreach | gate and relay in processes of their own race with one refresh token: the grace period covers the race, the kept answer everything later |
| `TokenRenewalTwoVisitors` | GateAssured, SameChain | two visitors share a process and its map of exchanges: nobody is served with another's token or let in below the assurance asked for |
| `TokenRenewalFaults` | ServedTokenLive, ExchangesSingleFlight, Answered | the issuer and the API fail at will: no token served expires under its request; the exchanges are a single flight; every request is answered |
| `SharedBrowserOneTab` | TypeOK, VisitEnds | two people take turns over both apps while cookies and sessions expire: every visit ends on a page or a dead end |
| `SharedBrowserTwoTabs` | OwnPage, AssuranceEarned, SignedOutForGood | two tabs interleave at every redirect, whoami and the revocations fail at will, a cookie or the session expires: nobody is served with another's token but by a renewal, and then not with that of somebody signed out; nobody's token states a factor they did not pass; a sign-out leaves no grant but one whose revocation failed or that was consented to meanwhile |
| `SignInJourneys` | TypeOK, RequestSurvives, LinkSpendsOneAttempt, Settles | three tabs wander through the screens while flows expire, fetches fail and mailed links are followed: the request lasts, but for what a failed fetch forgets; a link costs one attempt; no address redirects for ever |
| `ConsentBusyBrowser` | TypeOK, TokenSpeaksForItsSubject, RowsAgree | a form sent twice and page loads interleave call by call with account switches, suspensions, revocations and refreshes, inserts fail and answers are lost: tokens are true; each decision taken has one row, or lost it, or was not heard and led to no code |
| `ConsoleAccessOverlapping` | TypeOK, NoRoleOffStaff, AppointedByRoots | two server actions of any kind interleave call by call: only a root's hand makes an admin |
| `AccountClosing` | TypeOK, OwnersReachable, NoOrphanProfile, RowsAreTheirOwn | closings from both apps overlap one another and consents of the same people, calls time out, removals and provisionings arrive late: a profile of somebody gone is left only where a consent provisioned it past the removal |
| `ApplicationsOverlapping` | TypeOK, CodeFollowsGrants, SecretIsHeld, TrailIsTrue, NothingElseChanges | two operators' actions overlap call by call, Hydra refuses or is not heard, inserts fail, pages are left: response types follow grants; a secret nobody saw is one whose page was left or whose call was reported a failure; rows are about changes that were made |
| `TenancyTwoApps` | TypeOK, AnswerFindsItsDialog, OneWriteAtATime, RefusedOnlyWhenStale | either app's page against an organization others change: answers find their dialogs, one roster write at a time, refusals only of what was read before a change |
| `AuditFeed` | FeedTypeOK, WalkMissesNothing, SelectionSurvives, ViewsAgree, LinkDelivers | one operator pages, filters and follows links through a log that grows while a time range slides |

### Bounds

*TokenRenewal.* The clock's unit is the longest a request is outstanding, 15 to 20 seconds in the
deployment, so `MaxFlight` = 1. The deployed values are 600 s for the access token, 60 s for a kept
answer, 30 s for the skew, 30 s for the grace period. In units: `Retain` = 3 and `Skew` = 1 or 2;
`AccessTtl` is cut to 6, the least that lets an answer be kept, forgotten and its token expire in one
behaviour, which is all the properties tell apart. `MaxTime` = 7 or 8 reaches a renewal, the end of
the answer's retention and a second renewal; `MaxPairs` = 3 or 4 is a sign-in, two renewals and one
more. `TwoVisitors` needs two sign-ins, two renewals at once and an answer that is kept, for which
`AccessTtl` = 4, `Retain` = 1, `MaxTime` = 4 and `MaxPairs` = 4 are enough. Two requests outstanding
are the pair a race needs; the third that joins adds no case to `RefreshOnce`. `Grace` = 2 in `TwoProcesses` is two flights, because the second process may ask as
late as one flight after the first was answered, and its request takes another. The clock ends, so
these runs do not check deadlock: at `MaxTime` everything may come to rest.

*SharedBrowser.* In `OneTab` two people take turns over both apps, and access cookies or the session
expire twice (`MaxLapses`): enough for one person's token to be left behind, expire, and be replaced.
Nothing fails there, because a visit to a Kratos that never answers does not end, and cookies that are
set are returned. `TwoTabs` is the console alone, where the second person's page would be shown, with
one expiry, of the session or of the access cookie, and with whoami and Hydra's revocations failing:
one expiry is enough for the renewal of a token the person before left behind.

*ConsoleAccess.* A root and one other with every kind of action in two slots. Every action is at most
five calls and there is no counter to bound.

*AccountClosing.* Two people in one browser, two requests, of any kinds at once; two calls given up that
may arrive later (`MaxLate`), removals and provisionings alike (`Late`). Calls given up are a set: two
identical calls on their way arrive as one, which loses nothing since the platform's upsert and removal
are idempotent.

*SignIn.* Three tabs, one of a browser without cookies; two flows in all, which is a flow and the one
that replaces it or a flow of either tab; two mails, each followed once, which leaves the reload and
the way back as the second use of a code. The session starts at none or at the first level. Two things
are assumed of Kratos: a flow that expired under a form that is posted to it is replaced by one for
the same request, and none expires during a redirect. The fetch of a flow may fail by itself at any
address that names one (`Faults`); as each failure asks for another flow, `MaxFlows` bounds them.
`MayMint` and `Underway` keep what may end in a new flow within the bound. Deadlock is not checked,
because the sign-ins the bounds allow may all be over.

*Consent.* One challenge with two server actions at a time, a form sent twice, two people, a first- and
a third-party application, two roles, one change of each identity. What Hydra remembers of the browser
and which consents were given before is arbitrary at first, which stands for the challenges that came
before. Hydra is taken to accept another decision on a challenge until one is followed. Any insert may
fail and any answer be lost. Deadlock is
not checked, because everybody may be suspended.

*Applications.* Two tabs, two client ids, one of them seeded, two changes and two rows (`MaxChanges`,
`MaxRows`): two edits of one client that overlap, an edit over a rotation or a deletion, a creation and
what follows it. Each of the four things that fail (`Faults`) may fail at every call. Deadlock is not
checked, because the bounds may be used up.

*Tenancy.* One tab, of either app; two calls in flight; one write that the platform accepts, the tab's
own or another's, which is enough to make any reading stale. Three standings of the five, one person
whose standing is inherited. Reading may fail. The standing of an address typed in the id app's dialog
is settled at its submission; a failed read of the roster alone is not told from a failed page.

*AuditFeed.* Three rows on pages of one, cards of two and a range of one tick over two: a row in front
of the page being read, one behind it, and one that leaves the range. The rows are of three kinds, which
differ in status, in who acted and on whom. The operator follows
the links of the analytics, of a thing's card and of an event's; a person's card shows rows its link
does not select, see below. Deadlock is not checked, because rows and time end.

Symmetry is used where only safety is checked, over people, tabs, requests or handlers that no
constant tells apart.

### Fairness

*TokenRenewal.* Weak fairness of every handler, of the API's answer, of the issuer's answer or the
failure of the call, and of the browser taking a response: the event loop runs what is ready, every
`fetch` here ends (undici's own timeouts if nothing else), and browsers read responses. No fairness of
`Send`, `Tick` or `Forget`: nothing obliges a visitor to ask or a timer to be early.

*SharedBrowser.* Weak fairness, per tab, of the next redirect (the browser follows, the estate
answers) and of somebody completing the screen in front of them. `VisitEnds` is conditional on people
finishing what they are asked, and says that the estate then asks only finitely often. Nothing obliges
anybody to visit or anything to expire; `MaxLapses` bounds how often expiry sends a visit back.

*SignIn.* Weak fairness, per tab, of the browser's hops alone: following a redirect, and the page or
Kratos answering it. Nobody has to fill a form, and no flow has to expire. `Settles` is for a browser whose
fetches do not fail for ever: in the run they fail no more often than flows are minted.

## The proofs

All are for any values of the constants that meet the named assumptions.

**TokenRenewalProofs** (`TimingAssumption`: a request is outstanding no longer than the skew, and a
kept answer plus two flights is shorter than an access token's life; both hold of the deployed
values).

- `TypeCorrect`: `Spec => []TypeOK`.
- `ServedTokensAreLive`: no page is rendered and no call forwarded on an expired token.
  `ServedTokenLive` speaks of tokens of requests under way; it is not inductive, because a token may come from an answer kept for
  another request. The invariant adds where a pair can be and how old it can be there: every pair named
  anywhere was minted (`MintedInv`), a request is no older than a flight (`FlightInv`), an exchange
  under way has a waiter sent before it began, and answers with a pair minted since then
  (`AskedInv`), a kept answer was minted at most a flight before it settled and is kept no longer
  than its retention (`KeptInv`), and a token served outlives the longest its request can last
  (`ServedInv`).
- `RefreshOnceIsSingleFlight`: the exchanges of every process implement `SingleFlight`. Initial states
  map to initial states; each step maps to an `Ask`, a `Land`, a `Drop` or a stutter. The step of a
  request into a wait needs that it waited nowhere before, and the resolution that exactly those who
  wait for that token in that process are released, which the same invariant gives.
- `ChainsKeepToThemselves`: nobody is answered with a pair of another visitor's sign-in. The invariant
  adds `DescendsInv`: whatever an exchange was answered with descends from the token it is kept under.
- `TheGateIsAssured`: whoever passes the gate carries a token of the level asked for, also when the
  token came from an answer kept for a request that asked for less.
- `NoChainInUseIsRevoked`: no chain the application can use is revoked as a breach. Assumes
  `RenewalsArrive`: no exchange and no API call fails (after either a browser may keep a rotated token,
  see below), two requests in a row fit into the grace period, and into an access token's life less
  the skew. The
  deployed grace period is 30 s (`ory/hydra/hydra.yml`), so this speaks of requests that take at most
  15 s; `TimingAssumption` alone would allow 30. The bound is tight: with `Grace` = 1 and
  `MaxFlight` = 1 TLC finds the breach, a second process asking as late as one flight after the first
  was answered. `NoBreach` is a fact about the order in which responses reach the jar, and the
  invariant has that order. Every pair is one browser's (`OwnInv`). A token is asked about and traded
  only once it is spent, and the first trade is the one on record (`SpentInv`); the pair it is traded
  for is no older than that (`TradedInv`). A request that carries a traded token left within one flight
  of the trade, and a pair on its way to a browser is at most a flight older than the request that
  brings it (`LateInv`). And while a browser still holds a traded token, a request that it sent before
  the trade is bringing it the next pair (`WitnessInv`): a flight ends, so the token is soon gone from
  the jar, and whoever still carries it arrives within the grace period.

**ConsoleProofs**, of `ConsoleAccess` (`ConsoleAssumption`) and of `AuditFeed` (`AuditFeedAssumption`).

- `TypeCorrect`, `RolesAreOnStaff`: the write of both fields in one PATCH keeps roles on the staff
  schema, whatever it overwrites.
- `OnlyRootsAppoint`: nobody becomes an admin but by a root's hand. The rule is evaluated on an actor
  that was read earlier. What makes it safe is `ActorsAreWhoTheySeem`: an action that read a root was
  asked for by a root, and that no write can change. The converse direction, dismissal, depends on the
  target as it was read, which writes do change: it does not hold (`identities/actions.ts:175`, below).
- `FeedTypeCorrect`, `SelectionsSurvive`: the pages there are never exceed the rows and one; the rows on
  screen answer for the controls.
- `WalksMissNothing`: for any size of a page. A row that was there at page one, is still in range and
  was not seen has a place behind the pages read, and there is another page (`StillToCome`). The log
  only grows, so a place only moves back (`Growth`); whoever leaves the range leaves it from the far
  end, so the places of those who stay are those they had without a range (`PlaceInRange`); and a page
  shows every place from its offset on or leaves one for the next (`Listed`), for which places must be
  taken without a gap (`Places`).
- `ViewsAgreeAlways`: for any size of a card. What was read has what there was when loading began and
  only what the statement asks for (`LoadInv`). Of a card's halves each is whole or full
  (`FirstPlaces`), and what it leaves out is not newer than anything it has (`HalfHas`); a row left out
  by both the cut and the merge would be behind a card's worth of others (`CardIsWhole`).
- `LinksDeliver`: assumes that the operator does not follow the link of a person's card, which asks
  for less than the card shows (below). A link sets one key, to what every row behind it says there
  (`Leads`), and a row once matched stays in the log.

**AccountClosingProofs** (`ClosingAssumption`).

- `TypeCorrect`, `ProfilesAreTheirOwn`: with no further assumption, a profile carries its own
  subject's address, whoever's session the browser carries.
- `NoProfileIsOrphaned`, `OwnersStayReachable`: whatever overlaps and arrives late, the one way to a
  profile of somebody gone, and to an authority nobody can sign in for, is a profile provisioned after
  the removal that a closing relies on. The code does not prevent that (below); that there is no other
  way is the theorem. The invariant: whoever has a profile has an identity, or the profile crossed a
  removal (`ProfilesAreOfTheLiving`); a closing the platform agreed to is about somebody without a
  profile, or with one provisioned since (`AgreedAreRemoved`), which is what lets `DropIdentity` go
  ahead; whoever a profile may yet be provisioned for was born (`ProvisionedWereBorn`); and sessions are
  of people who are here (`SessionsStand`).

**SharedBrowserProofs** (`BrowserAssumption`).

- `TypeCorrect`, `LevelsAreEarned`: with no further assumption, whatever fails and however tabs
  interleave. A token's level comes from a session (`SessionEarned`) that the consent page, or the
  login, read; the invariant follows the level through every place a tab can carry it.
- `PagesAreTheirOwn`, `SignOutsAreForGood`: with no further assumption either; any tabs, anything may
  expire, revocations fail. Both rest on `Gone`: a tab carries a grant only from a consent to the jar and
  from the jar to a page (`MayCarry`), and of whoever signed out, or is on the way out through Kratos, no
  grant stands in a jar or a tab that is not known to have lasted (`Standing`, `Sent`). The two ways in
  which one lasts are the code's: `logout/route.ts` goes on when a revocation fails, and the session is
  good for a consent until Kratos has ended it. A page of another person's comes from a renewal alone,
  and `Gone` says whose it cannot be.

**ConsentProofs** (`ConsentAssumption`).

- `TypeCorrect`.
- `TokensAreTrue`: the invariant `Truth` carries the claims from the session they were read from
  through the server action, the grant and the hook, and says of each that it is the subject's and was
  so at some moment since the token was asked for; that a history only grows keeps it so.
- `TheBooksAgree`: `Books` counts what was recorded or lost and the actions that are about to record, as
  finite sets: a decision moves one from Hydra to the action, or to what is lost when it is not heard,
  and the record moves one from the action to the trail, or to what is lost when the insert fails
  (`Balanced`). Whoever follows a consent back to Hydra has left a row or lost one.

**ApplicationsProofs** (`ApplicationsAssumption`, which has finitely many tabs; no other hypothesis).

- `TypeCorrect`; `PartsBelongTogether`; `EditsKeepToTheirFields`. The response types are computed from a
  client read earlier and written with the grants of the form, so what keeps them in step is that the
  types written follow the grants written, and that a client's being hybrid is what it was when read
  (`Reads`).
- `NoSecretIsLostInSilence`: a secret in force that nobody was shown is in a tab that is about to show
  it, or its page was left, or its answer was lost; in the last case the action fails, so the row, if
  there is one, says failure (`Tells`, `Holds`).
- `TheTrailIsTrue`: however actions overlap, what an update has read, the client was at that moment, and
  either still is or was until a change in between (`HadBeen`, `Reads`). So when it is made, its row's
  from-values are those of a moment of the action, and its to-values what was written, which the history
  keeps (`Tells`); a change is under way in one tab or has its one row (`Once`), and one with neither lost
  its row or its answer (`Accounted`). Two edits that overlap are both recorded against what they read,
  so rows need not follow from one another: the theorem does not say that they replay.

**TenancyProofs** (`TenancyAssumption`; for any number of calls and writes).

- `TypeCorrect`, `AnswersFindTheirDialogs`, `WritesAreSingle`, `RefusalsAreStale`. The invariant has a
  part for the log, one for the tab, one for the calls, and one for what stands beside them: a call
  that belongs to a dialog keeps it open, and another of its kind cannot begin (`Beside`). A refusal as
  an escalation needs that what was offered was within the standing held when it was read, and that a
  pending call knows which that was.

**SignInProofs** (`SignInAssumption`; for any tabs, requests and bounds).

- `TypeCorrect`, `LinksSpendOneAttempt`: with no further assumption. The second counts, for every mail,
  the attempts spent and the addresses that still bear its code, a tab's and the one Back leads to:
  together they never exceed the times the link was followed (`Spends`). A page that submits takes the
  code out of the address it leaves, which is what keeps the sum.
- `RequestsSurvive`: with no further assumption, for any faults. The invariant `Faithful` says of every
  address which request it still stands for: a screen, and what Back leads to, states its flow's request
  in full (`Stated`), and an address on its way states it all, or names a flow that does, or one that
  somebody signed in has used (`OnItsWay`). A fetch that fails by itself is the one step of a redirect
  that forgets some of a request; the links of a page that begin anew (`Leave`, `SignOut`) begin another.
  Each action is shown once to be a step of one tab, with the flows grown and the mails kept (`Steps`);
  the tabs that stand still are one lemma for all of them (`OthersLast`).

Every invariant and every action property the runs check is stated by one of these. Two have a
hypothesis, `NoChainInUseIsRevoked` (`RenewalsArrive`) and `LinksDeliver` (no person's card). Only model-checked are the liveness properties `Answered`, `VisitEnds`
and `Settles`, which the prover does not reach.

## Met while reading

What the code does that a document, a comment or a test says otherwise of, or that nothing in the
repository claims. No run carries these; where a model leaves one out, its bounds say so.

Sessions and redirects:

- `oidc.forward.ts:127`: the 502 for an API that does not answer carries no cookies (152-153 do), so a
  pair renewed for the call is dropped; the browser keeps the rotated one, and its next renewal after
  the kept answer is gone is a breach that revokes the chain.
- `proxy.ts:40`: the gate compares the access token's subject with whoever it admitted; once that
  cookie has expired there is nothing to compare, and the refresh token beside it, another person's,
  is renewed for them (25-28 say a foreign grant is dropped).
- `oidc.handlers.ts:188`: a response that renewed a session, delivered after the sign-out's, puts the
  token back; the package's README (128-129) says the token leaves with the person.
- `oidc.handlers.ts:175`: ending the platform session goes on to Hydra's logout page, the id app's
  `/logout`, which ends the Kratos session; the package's README (126-127) says it is not a sign-out.
- `oidc.handlers.ts:122`: an exchange that fails for good sends the browser round for ever.
- `login.challenge.ts:76`: `acceptLoginChallenge` has no caller; `apps/console/src/lib/platform.auth.ts:23-25`
  says the challenge is answered from the session and no screen is shown.
- `staff.guard.ts:271`: a whoami error is read as no session, and the sign-in page sends a valid
  session straight back; `docs/guarding-an-app.md:93-95` says refusals must not loop.
- `apps/id` `logout/route.ts:24`: a consent accepted in another tab between the revocations and the
  end of the Kratos session leaves a grant.

Sign-in screens:

- `login/page.tsx:64`: a fetch that fails at an address with the flow alone loses the request, and one
  that fails every time redirects for ever.
- The second factor's "Use a different account", "Register now", `/error` and `/unavailable` drop the
  request; the account page never shows its way back, and an expired settings flow loses it.
- A healed address drops `aal` and `refresh`. A browser's Back may submit a stale link's code.

Identities and accounts:

- `identities/actions.ts:175`: the rule is asked of the target as it was read, so an admin's revocation
  of a plain staff member, overtaken by a root's appointment, undoes it (`staff.ts:56-57`).
- `identities/actions.ts:187`: plain staff is the staff schema without a role; the comment at 163-165
  says an identity never sits there without one.
- `identities/actions.ts:65`: an operator, a root included, is deactivated and deleted without the
  rule being asked; `docs/identities.md:157-159` says the rules cover it.
- `staff.ts:70`: a root's authority is "root" whatever they store, so a role they store may be taken
  away by any admin (56-60). `staff.ts:62`: nothing keeps a root from changing their own access;
  `docs/identities.md:149`.
- `bootstrap-staff.sh:10`: the job writes the role `superadmin`, which `STAFF_ROLES` does not list, so the
  gate refuses the operator it created unless `ROOT_EMAILS` names them too; the job ends with
  "next: sign in" (90).
- `apps/id` `platform.profile.ts:25`: a sign-in provisions the profile again after a closing removed
  it, and nobody is left to remove it (`account.deletion.ts:29-31`).
- A token first minted after a consent may carry a role taken away between the consent and the
  exchange of its code. A skipped consent leaves no audit row.

Applications and the audit trail:

- `applications/actions.ts`: `deleteApplication` asks no `getActor`, though 72-75 says every action
  authorizes itself. An answer of Hydra's lost on the way back from a rotation loses the secret, and the
  row says failure of a change that was made. A failed creation or deletion leaves no row, also when
  only its answer was lost; the rows of creations have no payload. Two edits that overlap are each
  recorded against what they read, so a field's rows need not follow from one another.
- `audit.repository.ts:91`: an insert that fails is logged and nothing else, by design (62-66), so an
  absent row does not mean that nothing happened.
- `audit.record.ts:51`: the author is read after the change, which may have ended their session.
- `identities/[id]/page.tsx:274`: "View all" filters by subject alone, while the card it stands under
  also shows what the person did (`audit.feed.ts:56-60`, `audit.history.tsx:53-56`). The session's card
  links to the whole log.
- A page beyond the end says "0 events · page 2 of 1". The analytics' link from a method of signing in sets a
  key the log does not read, and its links drop the range; the toolbar drops the keys links set. The
  percentages of success and refusal may add up to 101. `withParams` has no caller.

Tenancy:

- `edit.button.tsx:48`: the fields are seeded when the page mounts, so an edit may undo another's.
- `create.dialog.tsx`: what is sent is the slug of the handle typed, what is shown is the text typed.
- The console's dialog to add a member may be closed over its call, whose answer then closes one opened
  since. The id app's keeps a standing selected that is no longer offered. A background read that fails
  unmounts an open dialog and orphans its call.

## What is not modelled

- In the parts that are: wording, layout, logging; the contents of tokens beyond subject, level and
  age; the code, recovery and verification screens of Kratos (one step each); CSRF tokens.
- The record of a denial (`recordDenial`): it changes nothing the gate reads.
- `createRecoveryLink`, `removeCredential`, `revokeSession` of the console: they touch neither access
  nor the existence of an identity.
- Recovery and verification in the id app, which show the two screens `SignIn` has, the providers'
  buttons and the form for single sign-on; the scopes and audiences of a consent, a filter over lists.
- The verifier, the state and the return address of the round trip, which two tabs overwrite for each
  other: the tab that began first fails its exchange and begins again, and nothing says it should not.
- The caches of the discovery document and of service tokens: one writer per key in the first; in the
  second concurrent mints are each good for themselves.
- The intake of audit events from other processes, but for the arrival of the row.
- Filters and pages of rosters and tables in the tenancy pages, the list of projects, the activity feed.
- The registration gate, the resource server's guard, the permissions, addresses: decisions without
  state of their own, or declarations somebody else evaluates.
- Rendering, database connections and migrations, Terraform: no state of their own.
- The configuration without a platform, in which both `removePlatformProfile` do nothing.

## The plan

What is left, in the order of what would hurt most.

1. **LoginRoundTrip**: verifier, state and return address in transient cookies, two tabs, refused
   exchanges; the abstract specification that each login is answered at most once, with its own verifier.
2. **Permits**, the registration gate and the return targets as functions against reference definitions
   over bounded inputs.
3. Weaker hypotheses for `NoChainInUseIsRevoked`: an API that does not answer, once `oidc.forward.ts`
   writes the renewed pair to that response too.
