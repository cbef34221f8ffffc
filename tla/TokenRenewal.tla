---------------------------- MODULE TokenRenewal ----------------------------
(***************************************************************************)
(* Silent renewal of an application's platform session, as                 *)
(* packages/client-nextjs does it: the gate (oidc.guard.ts), the relay     *)
(* (oidc.forward.ts), the callback and the sign-out (oidc.handlers.ts),    *)
(* the map of exchanges a process has for all its visitors                 *)
(* (oidc.session.ts), the visitors' cookie jars, and the issuer's rotation *)
(* of refresh tokens as far as ory/hydra/hydra.yml configures it.          *)
(*                                                                         *)
(* An access token and the refresh token minted with it are one pair,      *)
(* named by the order of minting.  All the pairs descended from one        *)
(* sign-in form a chain, named by its first pair.                          *)
(***************************************************************************)
EXTENDS Naturals, FiniteSets

CONSTANTS
  Gate,        \* the processes that run the gate
  Relay,       \* the processes that run the relay and the callback
  Browser,     \* the visitors' browsers
  Request,     \* the requests that can be outstanding
  MaxPairs,    \* bound: pairs the issuer mints
  MaxTime,     \* bound: the clock
  MaxFlight,   \* the longest a request is outstanding
  AccessTtl,   \* hydra.yml ttl.access_token
  Grace,       \* hydra.yml grant.refresh_token.rotation_grace_period
  Retain,      \* RETAIN_RESULT_MS
  Skew,        \* EXPIRY_SKEW_SECONDS
  Faults       \* a subset of {"issuer", "upstream"}: what may fail

Process == Gate \cup Relay
Pair    == 1..MaxPairs
NoPair  == 0

(***************************************************************************)
(* A request is gone before an unspent token it carries can expire, and an *)
(* answer kept for Retain is still unspent when it is last handed out.     *)
(* The deployed values are AccessTtl = 600, Retain = 60, Skew = 30.        *)
(***************************************************************************)
ASSUME TimingAssumption ==
  /\ {MaxPairs, MaxTime, MaxFlight, AccessTtl, Grace, Retain, Skew} \subseteq Nat
  /\ Process # {}
  /\ Browser # {}
  /\ MaxFlight <= Skew
  /\ Retain + 2 * MaxFlight < AccessTtl

VARIABLES
  now,        \* the clock every timer and expiry is read against
  minted,     \* the issuer has minted pairs 1..minted
  mintedAt,   \* pair -> time
  root,       \* pair -> first pair of its chain
  rotatedAt,  \* pair -> times it was first traded at: empty, or a singleton
  revoked,    \* chains the issuer has revoked
  assured,    \* chains authorized at the assurance the app requires
  jar,        \* browser -> the pair in its cookies, or NoPair
  stage,      \* request -> how far it is
  sent,       \* request -> what it is and what it left with
  token,      \* request -> the access token it is served with, or NoPair
  set,        \* request -> the pair its response sets, or NoPair
  exchange    \* exchanges, one map per process: process -> token -> entry

issuerVars  == <<minted, mintedAt, root, rotatedAt, revoked, assured>>
requestVars == <<stage, sent, token, set>>
vars == <<now, issuerVars, jar, requestVars, exchange>>

Kind  == {"guard", "relay", "callback", "logout"}
Stage == {"idle", "arriving", "exchanging", "forwarding", "answering"}

Unsent == [kind |-> "guard", proc |-> CHOOSE p \in Process : TRUE,
           from |-> CHOOSE b \in Browser : TRUE, carried |-> NoPair, at |-> 0]
Absent == [status |-> "absent", pair |-> NoPair, since |-> 0]

(* Slip: no allowance for the time a request takes.                          *)
UnspentToTheEnd(n) == n # NoPair /\ now < mintedAt[n] + AccessTtl

(***************************************************************************)
(* isSpent and requiredAal, read off an access token.                      *)
(***************************************************************************)
Unspent(n) == n # NoPair /\ now + Skew < mintedAt[n] + AccessTtl

IsAssured(n) == root[n] \in assured

(* Slip: the renewed token is served without reading its assurance.          *)
TokenAfterUnread(k, n) == n

(***************************************************************************)
(* What refreshOnce resolving with the pair n, or with null, does to a     *)
(* request: the guard lets it through on an assured pair and sends it to   *)
(* the login otherwise, the relay forwards on any pair and answers 401     *)
(* without one.  Only the guard has its response in hand already.          *)
(***************************************************************************)
TokenAfter(k, n) ==
  IF n # NoPair /\ (k = "guard" => IsAssured(n)) THEN n ELSE NoPair

StageAfter(k, n) ==
  IF k = "relay" /\ n # NoPair THEN "forwarding" ELSE "answering"

SetAfter(k, n) == IF k = "guard" THEN TokenAfter(k, n) ELSE NoPair

(***************************************************************************)
(* refreshOnce: take the kept answer this process has for the token, join  *)
(* the exchange it has under way, or start one.                            *)
(***************************************************************************)
RefreshOnce(r) ==
  LET k == sent[r].kind
      p == sent[r].proc
      t == sent[r].carried
  IN \/ /\ exchange[p][t].status = "kept"
        /\ stage' = [stage EXCEPT ![r] = StageAfter(k, exchange[p][t].pair)]
        /\ token' = [token EXCEPT ![r] = TokenAfter(k, exchange[p][t].pair)]
        /\ set' = [set EXCEPT ![r] = SetAfter(k, exchange[p][t].pair)]
        /\ UNCHANGED exchange
     \/ /\ exchange[p][t].status \in {"asked", "answered"}
        /\ stage' = [stage EXCEPT ![r] = "exchanging"]
        /\ UNCHANGED <<token, set, exchange>>
     \/ /\ exchange[p][t].status = "absent"
        /\ stage' = [stage EXCEPT ![r] = "exchanging"]
        /\ exchange' = [exchange EXCEPT ![p][t] =
                          [status |-> "asked", pair |-> NoPair, since |-> now]]
        /\ UNCHANGED <<token, set>>

-----------------------------------------------------------------------------
(* The browsers. *)

(* A request leaves with the cookies of the moment.  The bound keeps one    *)
(* unminted pair in hand for each outstanding request.                      *)
Send(r, b, k, p) ==
  /\ stage[r] = "idle"
  /\ minted + Cardinality({s \in Request : stage[s] # "idle"}) < MaxPairs
  /\ p \in (IF k = "guard" THEN Gate ELSE Relay)
  /\ stage' = [stage EXCEPT ![r] = "arriving"]
  /\ sent' = [sent EXCEPT ![r] =
                [kind |-> k, proc |-> p, from |-> b, carried |-> jar[b],
                 at |-> now]]
  /\ UNCHANGED <<now, issuerVars, jar, token, set, exchange>>

(* A response arrives and its Set-Cookie headers take effect, whatever was  *)
(* applied before it.                                                       *)
Deliver(r) ==
  /\ stage[r] = "answering"
  /\ jar' = [jar EXCEPT ![sent[r].from] =
               IF sent[r].kind = "logout" THEN NoPair
               ELSE IF set[r] # NoPair THEN set[r] ELSE @]
  /\ stage' = [stage EXCEPT ![r] = "idle"]
  /\ sent' = [sent EXCEPT ![r] = Unsent]
  /\ token' = [token EXCEPT ![r] = NoPair]
  /\ set' = [set EXCEPT ![r] = NoPair]
  /\ UNCHANGED <<now, issuerVars, exchange>>

-----------------------------------------------------------------------------
(* The handlers. *)

(* The gate: through on an unspent, assured access token; an unspent token   *)
(* below the assurance goes to the login without a renewal; a spent one is   *)
(* renewed; no cookie at all is the login again.                             *)
HandleGuard(r) ==
  /\ stage[r] = "arriving"
  /\ sent[r].kind = "guard"
  /\ \/ /\ Unspent(sent[r].carried)
        /\ token' = [token EXCEPT ![r] = TokenAfter("guard", sent[r].carried)]
        /\ stage' = [stage EXCEPT ![r] = "answering"]
        /\ UNCHANGED <<set, exchange>>
     \/ /\ ~Unspent(sent[r].carried)
        /\ sent[r].carried # NoPair
        /\ RefreshOnce(r)
     \/ /\ sent[r].carried = NoPair
        /\ stage' = [stage EXCEPT ![r] = "answering"]
        /\ UNCHANGED <<token, set, exchange>>
  /\ UNCHANGED <<now, issuerVars, jar, sent>>

(* The relay: forward on an unspent token whatever its assurance, renew a    *)
(* spent one, answer 401 when there is neither.                              *)
HandleRelay(r) ==
  /\ stage[r] = "arriving"
  /\ sent[r].kind = "relay"
  /\ \/ /\ Unspent(sent[r].carried)
        /\ token' = [token EXCEPT ![r] = sent[r].carried]
        /\ stage' = [stage EXCEPT ![r] = "forwarding"]
        /\ UNCHANGED <<set, exchange>>
     \/ /\ ~Unspent(sent[r].carried)
        /\ sent[r].carried # NoPair
        /\ RefreshOnce(r)
     \/ /\ sent[r].carried = NoPair
        /\ stage' = [stage EXCEPT ![r] = "answering"]
        /\ UNCHANGED <<token, set, exchange>>
  /\ UNCHANGED <<now, issuerVars, jar, sent>>

(* Slip: the renewed pair is not written to the response.                    *)
UpstreamAnswersUnwritten(r) ==
  /\ stage[r] = "forwarding"
  /\ stage' = [stage EXCEPT ![r] = "answering"]
  /\ UNCHANGED <<now, issuerVars, jar, sent, token, set, exchange>>

(* The API answered: the relay passes it on, with the renewed pair if it     *)
(* renewed one.                                                              *)
UpstreamAnswers(r) ==
  /\ stage[r] = "forwarding"
  /\ stage' = [stage EXCEPT ![r] = "answering"]
  /\ set' = [set EXCEPT ![r] =
               IF token[r] # sent[r].carried THEN token[r] ELSE NoPair]
  /\ UNCHANGED <<now, issuerVars, jar, sent, token, exchange>>

(* fetch threw: a 502, and the renewed pair is not written to it.            *)
UpstreamFails(r) ==
  /\ "upstream" \in Faults
  /\ stage[r] = "forwarding"
  /\ stage' = [stage EXCEPT ![r] = "answering"]
  /\ UNCHANGED <<now, issuerVars, jar, sent, token, set, exchange>>

(* The code is redeemed: the issuer mints the first pair of a new chain, at  *)
(* the assurance the person's session had.  A refusal, a callback with no    *)
(* login behind it and a code the issuer rejects end in a redirect that      *)
(* leaves the session cookies alone.                                         *)
HandleCallback(r) ==
  /\ stage[r] = "arriving"
  /\ sent[r].kind = "callback"
  /\ stage' = [stage EXCEPT ![r] = "answering"]
  /\ \/ /\ minted < MaxPairs
        /\ minted' = minted + 1
        /\ mintedAt' = [mintedAt EXCEPT ![minted + 1] = now]
        /\ root' = [root EXCEPT ![minted + 1] = minted + 1]
        /\ assured' \in {assured, assured \cup {minted + 1}}
        /\ set' = [set EXCEPT ![r] = minted + 1]
     \/ UNCHANGED <<minted, mintedAt, root, assured, set>>
  /\ UNCHANGED <<now, rotatedAt, revoked, jar, sent, token, exchange>>

(* Sign-out: the response clears the cookies, and the hand-off to the        *)
(* issuer's end-session endpoint ends no chain.                              *)
HandleLogout(r) ==
  /\ stage[r] = "arriving"
  /\ sent[r].kind = "logout"
  /\ stage' = [stage EXCEPT ![r] = "answering"]
  /\ UNCHANGED <<now, issuerVars, jar, sent, token, set, exchange>>

-----------------------------------------------------------------------------
(* The issuer and the exchange. *)

(* Hydra, external.  A token that was never traded, or first traded within  *)
(* the grace period, is traded for a new pair; one traded longer ago is a    *)
(* breach and ends its chain.                                                *)
IssuerAnswers(p, t) ==
  /\ exchange[p][t].status = "asked"
  /\ \/ /\ root[t] \notin revoked
        /\ \A m \in rotatedAt[t] : now <= m + Grace
        /\ minted < MaxPairs
        /\ minted' = minted + 1
        /\ mintedAt' = [mintedAt EXCEPT ![minted + 1] = now]
        /\ root' = [root EXCEPT ![minted + 1] = root[t]]
        /\ rotatedAt' = [rotatedAt EXCEPT ![t] = IF @ = {} THEN {now} ELSE @]
        /\ exchange' = [exchange EXCEPT ![p][t] =
                          [status |-> "answered", pair |-> minted + 1,
                           since |-> exchange[p][t].since]]
        /\ UNCHANGED revoked
     \/ /\ root[t] \in revoked \/ \E m \in rotatedAt[t] : now > m + Grace
        /\ revoked' = revoked \cup {root[t]}
        /\ exchange' = [exchange EXCEPT ![p][t] =
                          [status |-> "answered", pair |-> NoPair,
                           since |-> exchange[p][t].since]]
        /\ UNCHANGED <<minted, mintedAt, root, rotatedAt>>
  /\ UNCHANGED <<now, assured, jar, requestVars>>

(* Slip: one exchange for the process, whatever token it was asked for.      *)
WaitsOnAny(r, p, t) == stage[r] = "exchanging" /\ sent[r].proc = p

Waits(r, p, t) ==
  stage[r] = "exchanging" /\ sent[r].proc = p /\ sent[r].carried = t

(* Slips: the time of the answer is not noted; a failure releases nobody.    *)
ResolveUnstamped(p, t, n) ==
  /\ exchange' = [exchange EXCEPT ![p][t] = [status |-> "kept", pair |-> n]]
  /\ UNCHANGED <<now, issuerVars, jar, requestVars>>

ResolveSwallowed(p, t, n) ==
  /\ exchange' = [exchange EXCEPT ![p][t] = Absent]
  /\ UNCHANGED <<now, issuerVars, jar, requestVars>>

(* The promise resolves for every request waiting on it, and is kept for     *)
(* Retain unless it resolved with null.                                      *)
Resolve(p, t, n) ==
  /\ exchange' = [exchange EXCEPT ![p][t] =
                    IF n # NoPair
                    THEN [status |-> "kept", pair |-> n, since |-> now]
                    ELSE Absent]
  /\ stage' = [r \in Request |-> IF Waits(r, p, t)
                  THEN StageAfter(sent[r].kind, n) ELSE stage[r]]
  /\ token' = [r \in Request |-> IF Waits(r, p, t)
                  THEN TokenAfter(sent[r].kind, n) ELSE token[r]]
  /\ set' = [r \in Request |-> IF Waits(r, p, t)
                THEN SetAfter(sent[r].kind, n) ELSE set[r]]
  /\ UNCHANGED <<now, issuerVars, jar, sent>>

Settle(p, t) ==
  /\ exchange[p][t].status = "answered"
  /\ Resolve(p, t, exchange[p][t].pair)

(* The call fails on its way there or on its way back: refresh returns null. *)
ExchangeFails(p, t) ==
  /\ "issuer" \in Faults
  /\ exchange[p][t].status \in {"asked", "answered"}
  /\ Resolve(p, t, NoPair)

(* The timer of forget.                                                      *)
Forget(p, t) ==
  /\ exchange[p][t].status = "kept"
  /\ now >= exchange[p][t].since + Retain
  /\ exchange' = [exchange EXCEPT ![p][t] = Absent]
  /\ UNCHANGED <<now, issuerVars, jar, requestVars>>

(* Time passes, but not past a timer that is due nor past the longest a      *)
(* request is outstanding.                                                   *)
Tick ==
  /\ now < MaxTime
  /\ \A p \in Process, t \in Pair :
       exchange[p][t].status = "kept" => now < exchange[p][t].since + Retain
  /\ \A r \in Request :
       stage[r] # "idle" => now < sent[r].at + MaxFlight
  /\ now' = now + 1
  /\ UNCHANGED <<issuerVars, jar, requestVars, exchange>>

-----------------------------------------------------------------------------
(* Nobody has signed in. *)
Init ==
  /\ now = 0
  /\ minted = 0
  /\ mintedAt = [n \in Pair |-> 0]
  /\ root = [n \in Pair |-> n]
  /\ rotatedAt = [n \in Pair |-> {}]
  /\ revoked = {}
  /\ assured = {}
  /\ jar = [b \in Browser |-> NoPair]
  /\ stage = [r \in Request |-> "idle"]
  /\ sent = [r \in Request |-> Unsent]
  /\ token = [r \in Request |-> NoPair]
  /\ set = [r \in Request |-> NoPair]
  /\ exchange = [p \in Process |-> [t \in Pair |-> Absent]]

Handle(r) ==
  HandleGuard(r) \/ HandleRelay(r) \/ HandleCallback(r) \/ HandleLogout(r)

Upstream(r) == UpstreamAnswers(r) \/ UpstreamFails(r)

Exchange(p, t) == Settle(p, t) \/ ExchangeFails(p, t)

Next ==
  \/ \E r \in Request, b \in Browser, k \in Kind, p \in Process :
       Send(r, b, k, p)
  \/ \E r \in Request : Handle(r) \/ Upstream(r) \/ Deliver(r)
  \/ \E p \in Process, t \in Pair :
       IssuerAnswers(p, t) \/ Exchange(p, t) \/ Forget(p, t)
  \/ Tick

Spec == Init /\ [][Next]_vars

(* The event loop runs every handler that is ready, the issuer and the API  *)
(* answer or the call fails, and the browser takes every response.  Nothing  *)
(* obliges a visitor to send a request or the clock to run.                  *)
Fairness ==
  /\ \A r \in Request :
       WF_vars(Handle(r)) /\ WF_vars(Upstream(r)) /\ WF_vars(Deliver(r))
  /\ \A p \in Process, t \in Pair :
       WF_vars(IssuerAnswers(p, t)) /\ WF_vars(Exchange(p, t))

FairSpec == Spec /\ Fairness

-----------------------------------------------------------------------------
(* Properties. *)

SentRecord ==
  [kind : Kind, proc : Process, from : Browser,
   carried : {NoPair} \cup Pair, at : Nat]

ExchangeRecord ==
  [status : {"absent", "asked", "answered", "kept"},
   pair : {NoPair} \cup Pair, since : Nat]

(* Every variable holds a value of its kind. *)
TypeOK ==
  /\ now \in Nat
  /\ minted \in 0..MaxPairs
  /\ mintedAt \in [Pair -> Nat]
  /\ root \in [Pair -> Pair]
  /\ rotatedAt \in [Pair -> SUBSET Nat]
  /\ revoked \subseteq Pair
  /\ assured \subseteq Pair
  /\ jar \in [Browser -> {NoPair} \cup Pair]
  /\ stage \in [Request -> Stage]
  /\ sent \in [Request -> SentRecord]
  /\ token \in [Request -> {NoPair} \cup Pair]
  /\ set \in [Request -> {NoPair} \cup Pair]
  /\ exchange \in [Process -> [Pair -> ExchangeRecord]]

(* A page rendered or a call forwarded on an access token is rendered or     *)
(* forwarded on one that has not expired, for as long as the request lasts,  *)
(* though the token may have come from an answer kept for another request.   *)
ServedTokenLive ==
  \A r \in Request :
    token[r] # NoPair => now < mintedAt[token[r]] + AccessTtl

(* The gate lets nobody in below the assurance the application asks for,     *)
(* whether by the token carried or by the one a shared exchange answered.    *)
GateAssured ==
  \A r \in Request :
    sent[r].kind = "guard" /\ token[r] # NoPair => IsAssured(token[r])

(* What a request is answered with descends from the sign-in whose token it  *)
(* carried: a shared or kept exchange never hands one chain's pair to        *)
(* another's request.                                                        *)
SameChain ==
  \A r \in Request :
    token[r] # NoPair =>
      sent[r].carried # NoPair /\ root[token[r]] = root[sent[r].carried]

(* A chain the application can use is never revoked as a breach: no token is *)
(* presented again once its grace period is over.  It holds only while every *)
(* renewal reaches the browser.                                              *)
NoBreach == revoked \cap assured = {}

(* The exchanges of every process implement the single flight: a request    *)
(* that waits, waits on an exchange that is under way, no token has two, and *)
(* settling releases everybody at once.                                      *)
Keys    == Process \X Pair
flying  == {k \in Keys : exchange[k[1]][k[2]].status \in {"asked", "answered"}}
kept    == [k \in Keys |-> IF exchange[k[1]][k[2]].status = "kept"
                           THEN exchange[k[1]][k[2]].pair ELSE NoPair]
waiting == [k \in Keys |-> {r \in Request : Waits(r, k[1], k[2])}]

Flight == INSTANCE SingleFlight WITH
  Key <- Keys, Caller <- Request, Answer <- Pair, NoAnswer <- NoPair

ExchangesSingleFlight == Flight!SFSpec

(* Every request is answered: none waits on an exchange its process forgot.  *)
Answered ==
  \A r \in Request : (stage[r] = "arriving") ~> (stage[r] = "idle")
=============================================================================
